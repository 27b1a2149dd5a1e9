----------------------------- MODULE ConfigWatch -----------------------------
(***************************************************************************)
(* Package config: Load of a set of files, the watcher WithWatch starts,   *)
(* its reloads and Close, beside whoever edits the files.                  *)
(*                                                                         *)
(* Load reads the files in order, then watches their directories one by    *)
(* one and starts the watcher's goroutine.  The goroutine takes events off *)
(* the directories' queue, lets them settle for the debounce period, and   *)
(* for each file that changed reads all files again and calls back.  What  *)
(* a file says is abstracted to the value it gives to one key; a save of   *)
(* it may take several operations, each with an event of its own.          *)
(***************************************************************************)
EXTENDS Naturals, Sequences, FiniteSets

CONSTANTS
  Files,    \* configured files
  Order,    \* the sequence they are merged in
  Required, \* those given to WithRequiredFile
  Dir,      \* each file's directory
  Mounted,  \* files that are links into a directory swapped as a whole
  NeedsKey, \* whether WithRequiredKeys names the key
  Values,   \* values of the key
  Unfit,    \* those the field of the configuration's type does not take
  None,     \* not a file
  MaxOps,   \* bound on the number of operations in the directories
  MaxQueue  \* length of the kernel's event queue

ASSUME ConfigWatchAssumption ==
  /\ Order \in Seq(Files) /\ Order # <<>>
  /\ Required \subseteq Files /\ Mounted \subseteq Files
  /\ NeedsKey \in BOOLEAN
  /\ Unfit \subseteq Values
  /\ MaxOps \in Nat /\ MaxQueue \in Nat
  /\ None \notin Files

Dirs == {Dir[f] : f \in Files}
Contents == Values \cup {"absent", "bad"}
Causes == {"early", "swap", "overflow"}

\* What the watch is told: the file, and the save the operation was part of.
Events == [file : Files \cup {None}, save : Nat]

VARIABLES
  disk,    \* what each file contains
  ops,     \* how many operations there were in the directories
  saves,   \* how many saves of each file were begun
  watched, \* directories added to the watch
  queue,   \* events not yet received, None for those of anything else
  dropped, \* an event did not fit the queue and this is not yet reported
  load,    \* where Load is
  close,   \* where Close is
  loop,    \* where the watcher's goroutine is
  next,    \* position in Order the pipeline is to read
  view,    \* what the pipeline read of each file last
  path,    \* the file a reload is for
  pending, \* changed files waiting for the debounce period to end
  todo,    \* files of this tick still to be reloaded
  timer,   \* the debounce timer
  last,    \* what Load or the last reload came to
  warned,  \* whether the watcher reported an error of the watch
  calls,   \* how often the reloads for each file called back
  heard,   \* history: the saves of each file an event was received of
  late,    \* history: how often a save was heard of again after a tick
  unseen   \* history: changes that caused no event, until the file is read

vars == <<disk, ops, saves, watched, queue, dropped, load, close, loop, next,
          view, path, pending, todo, timer, last, warned, calls, heard, late,
          unseen>>
files == <<disk, ops, saves>>
events == <<watched, queue, dropped>>
pipeline == <<next, view, last>>
tick == <<path, pending, todo, timer>>
history == <<calls, heard, late, unseen>>

TypeOK ==
  /\ disk \in [Files -> Contents] /\ view \in [Files -> Contents]
  /\ ops \in Nat /\ saves \in [Files -> Nat]
  /\ calls \in [Files -> Nat] /\ late \in [Files -> Nat]
  /\ heard \in [Files -> SUBSET Nat]
  /\ watched \subseteq Dirs
  /\ queue \in Seq(Events)
  /\ dropped \in BOOLEAN /\ warned \in BOOLEAN
  /\ load \in {"reading", "adding", "starting", "loaded", "failed"}
  /\ close \in {"open", "called", "done", "fsw", "closed"}
  /\ loop \in {"off", "select", "next", "reading", "callback", "exited"}
  /\ next \in 1..Len(Order)
  /\ path \in Files \cup {None}
  /\ pending \subseteq Files /\ todo \subseteq Files
  /\ timer \in {"off", "armed", "fired"}
  /\ last \in Values \cup {"none", "error", "unset"}
  /\ unseen \subseteq [file : Files, cause : Causes]

Init ==
  /\ disk \in [Files -> Contents] /\ ops = 0 /\ saves = [f \in Files |-> 0]
  /\ watched = {} /\ queue = <<>> /\ dropped = FALSE
  /\ load = "reading" /\ close = "open" /\ loop = "off"
  /\ next = 1 /\ view = disk /\ last = "none"
  /\ path = None /\ pending = {} /\ todo = {} /\ timer = "off"
  /\ warned = FALSE /\ calls = [f \in Files |-> 0] /\ unseen = {}
  /\ heard = [f \in Files |-> {}] /\ late = [f \in Files |-> 0]

-----------------------------------------------------------------------------
(* The pipeline: build, missingKeys and decode *)

\* fileSource.read fails: it cannot be parsed, or it must be there and is not.
Broken(f, content) == content = "bad" \/ (content = "absent" /\ f \in Required)

\* The last file in house order that sets the key wins.
Merged(v) ==
  LET setters == {i \in 1..Len(Order) : v[Order[i]] \in Values}
  IN  IF setters = {} THEN IF NeedsKey THEN "error" ELSE "unset"
      ELSE v[Order[CHOOSE i \in setters : \A j \in setters : j <= i]]

\* The value is decoded into the configuration's type, which may not take it.
Result(v) == IF Merged(v) \in Unfit THEN "error" ELSE Merged(v)

\* One source is read: an error ends the pipeline, and so does the last file.
ReadNext(failed, ended) ==
  LET f == Order[next]
      v == [view EXCEPT ![f] = disk[f]]
      isLast == next = Len(Order)
  IN  /\ view' = v
      /\ unseen' = {u \in unseen : u.file # f}
      /\ IF Broken(f, disk[f]) \/ (isLast /\ Result(v) = "error")
           THEN next' = 1 /\ last' = "error" /\ failed
           ELSE IF isLast
                  THEN next' = 1 /\ last' = Result(v) /\ ended
                  ELSE next' = next + 1 /\ UNCHANGED <<last, load, loop, calls>>
      /\ UNCHANGED <<heard, late>>

-----------------------------------------------------------------------------
(* Load *)

LoadRead ==
  /\ load = "reading"
  /\ ReadNext(load' = "failed" /\ UNCHANGED <<loop, calls>>,
              load' = "adding" /\ UNCHANGED <<loop, calls>>)
  /\ UNCHANGED <<files, events, close, tick, warned>>

\* newWatcher adds the directories in no particular order; a failure closes
\* the watch and fails Load.
AddDir(d) ==
  /\ load = "adding" /\ d \notin watched
  /\ \/ watched' = watched \cup {d} /\ UNCHANGED <<load, queue>>
     \/ watched' = {} /\ queue' = <<>> /\ load' = "failed"
  /\ UNCHANGED <<files, dropped, close, loop, pipeline, tick, warned, history>>

StartLoop ==
  /\ load = "adding" /\ watched = Dirs
  /\ load' = "starting" /\ loop' = "select"
  /\ UNCHANGED <<files, events, close, pipeline, tick, warned, history>>

\* The goroutine may already call back before Load has returned.
LoadReturns ==
  /\ load = "starting"
  /\ load' = "loaded"
  /\ UNCHANGED <<files, events, close, loop, pipeline, tick, warned, history>>

-----------------------------------------------------------------------------
(* The watcher's goroutine *)

StopLoop ==
  /\ loop = "select" /\ close \in {"done", "fsw"}
  /\ loop' = "exited"
  /\ UNCHANGED <<files, events, load, close, pipeline, tick, warned, history>>

\* mutant: an expired timer is not reset.
ArmUnlessFired == timer' = IF timer = "fired" THEN "off" ELSE "armed"

\* Reset starts the period again and discards a tick that was not received.
Arm == timer' = "armed"

TakeEvent ==
  /\ loop = "select" /\ queue # <<>> /\ close # "fsw"
  /\ queue' = Tail(queue)
  /\ LET f == Head(queue).file
         save == Head(queue).save
     IN  \/ f = None /\ UNCHANGED <<pending, timer, heard, late>>
         \/ /\ f # None
            /\ pending' = pending \cup {f}
            /\ Arm
            /\ heard' = [heard EXCEPT ![f] = @ \cup {save}]
            /\ late' = [late EXCEPT ![f] =
                          IF f \notin pending /\ save \in heard[f] THEN @ + 1 ELSE @]
  /\ UNCHANGED <<files, watched, dropped, load, close, loop, pipeline, path,
                 todo, warned, calls, unseen>>

\* mutant: the changed files are not forgotten.
TickKeepsPending ==
  /\ loop = "select" /\ timer = "fired"
  /\ timer' = "off" /\ todo' = pending
  /\ loop' = "next"
  /\ UNCHANGED <<files, events, load, close, pipeline, path, pending, warned, history>>

Tick ==
  /\ loop = "select" /\ timer = "fired"
  /\ timer' = "off" /\ todo' = pending /\ pending' = {}
  /\ loop' = "next"
  /\ UNCHANGED <<files, events, load, close, pipeline, path, warned, history>>

TakeError ==
  /\ loop = "select" /\ dropped /\ close # "fsw"
  /\ dropped' = FALSE /\ warned' = TRUE
  /\ UNCHANGED <<files, watched, queue, load, close, loop, pipeline, tick, history>>

NextPath ==
  /\ loop = "next"
  /\ \/ todo = {} /\ loop' = "select" /\ UNCHANGED <<path, todo>>
     \/ \E f \in todo : path' = f /\ todo' = todo \ {f} /\ loop' = "reading"
  /\ UNCHANGED <<files, events, load, close, pipeline, pending, timer, warned, history>>

\* reload: every way the pipeline ends calls back once.
Reload ==
  /\ loop = "reading"
  /\ LET callback == /\ loop' = "callback" /\ UNCHANGED load
                     /\ calls' = [calls EXCEPT ![path] = @ + 1]
     IN  ReadNext(callback, callback)
  /\ UNCHANGED <<files, events, close, tick, warned>>

CallbackReturns ==
  /\ loop = "callback"
  /\ loop' = "next"
  /\ UNCHANGED <<files, events, load, close, pipeline, tick, warned, history>>

-----------------------------------------------------------------------------
(* Close *)

CallClose ==
  /\ load = "loaded" /\ close = "open"
  /\ close' = "called"
  /\ UNCHANGED <<files, events, load, loop, pipeline, tick, warned, history>>

\* mutant: wait first, then close done.
CloseDoneWaiting ==
  /\ close = "called" /\ loop = "exited"
  /\ close' = "done"
  /\ UNCHANGED <<files, events, load, loop, pipeline, tick, warned, history>>

CloseDone ==
  /\ close = "called"
  /\ close' = "done"
  /\ UNCHANGED <<files, events, load, loop, pipeline, tick, warned, history>>

CloseFsw ==
  /\ close = "done"
  /\ close' = "fsw" /\ watched' = {} /\ queue' = <<>>
  /\ UNCHANGED <<files, dropped, load, loop, pipeline, tick, warned, history>>

\* mutant: Close does not wait for the goroutine.
CloseAtOnce ==
  /\ close = "fsw"
  /\ close' = "closed"
  /\ UNCHANGED <<files, events, load, loop, pipeline, tick, warned, history>>

CloseWait ==
  /\ close = "fsw" /\ loop = "exited"
  /\ close' = "closed"
  /\ UNCHANGED <<files, events, load, loop, pipeline, tick, warned, history>>

-----------------------------------------------------------------------------
(* Editors, deployments and the kernel *)

Emit(e) ==
  IF Len(queue) < MaxQueue
    THEN queue' = Append(queue, e) /\ UNCHANGED dropped
    ELSE dropped' = TRUE /\ UNCHANGED queue

Other == [file |-> None, save |-> 0]

\* What keeps a change of f from the watcher, if anything does.
Hiding(f) ==
  IF Dir[f] \notin watched THEN {"early"}
  ELSE IF f \in Mounted THEN {"swap"}
  ELSE IF Len(queue) >= MaxQueue THEN {"overflow"} ELSE {}

\* One operation of a save: f is created, written, renamed over or removed, and
\* this begins a save or goes on with one.  When f is a link into a swapped
\* directory, the name in the event is that directory's.
Edit(f) ==
  /\ ops < MaxOps /\ ops' = ops + 1
  /\ \/ saves' = [saves EXCEPT ![f] = @ + 1]
     \/ saves[f] > 0 /\ UNCHANGED saves
  /\ \E c \in Contents :
       /\ {c, disk[f]} # {"absent"}
       /\ disk' = [disk EXCEPT ![f] = c]
       /\ unseen' = IF c = disk[f] THEN unseen
                    ELSE unseen \cup {[file |-> f, cause |-> w] : w \in Hiding(f)}
  /\ IF Dir[f] \in watched
       THEN Emit(IF f \in Mounted THEN Other ELSE [file |-> f, save |-> saves'[f]])
       ELSE UNCHANGED <<queue, dropped>>
  /\ UNCHANGED <<watched, load, close, loop, pipeline, tick, warned, calls, heard, late>>

\* A change of mode, or of another file in the directory.
Noise ==
  /\ watched # {} /\ Emit(Other)
  /\ ops < MaxOps /\ ops' = ops + 1
  /\ UNCHANGED <<disk, saves, watched, load, close, loop, pipeline, tick, warned, history>>

DebounceEnds ==
  /\ timer = "armed" /\ timer' = "fired"
  /\ UNCHANGED <<files, events, load, close, loop, pipeline, path, pending, todo,
                 warned, history>>

-----------------------------------------------------------------------------
LoadStep == LoadRead \/ (\E d \in Dirs : AddDir(d)) \/ StartLoop \/ LoadReturns
LoopStep ==
  \/ StopLoop \/ TakeEvent \/ Tick \/ TakeError
  \/ NextPath \/ Reload \/ CallbackReturns
CloseStep == CloseDone \/ CloseFsw \/ CloseWait

Terminated ==
  /\ load = "failed" \/ close = "closed"
  /\ UNCHANGED vars

Next ==
  \/ LoadStep \/ LoopStep \/ CloseStep \/ CallClose
  \/ (\E f \in Files : Edit(f)) \/ Noise \/ DebounceEnds
  \/ Terminated

Spec == Init /\ [][Next]_vars

\* Goroutines are scheduled, callbacks return ("It must not block"), select takes
\* each of its cases in the end, the debounce period ends.  Nobody needs to edit
\* or close.
Fairness ==
  /\ WF_vars(LoadStep) /\ WF_vars(CloseStep) /\ WF_vars(DebounceEnds)
  /\ WF_vars(StopLoop) /\ WF_vars(TakeEvent) /\ WF_vars(Tick) /\ WF_vars(TakeError)
  /\ WF_vars(NextPath \/ Reload \/ CallbackReturns)
FairSpec == Spec /\ Fairness

-----------------------------------------------------------------------------
(* Properties *)

Watching == load = "loaded" /\ close = "open"

\* What the pipeline would come to if it ran now.
Now ==
  IF \E f \in Files : Broken(f, disk[f]) \/ Merged(disk) \in Unfit
    THEN "error" ELSE Merged(disk)

\* The watch comes to rest: the application's last word is the files',
\* unless a change caused no event, and an overflow of the queue is reported.
Converges ==
  <>[](Watching =>
         \/ last = Now
         \/ \E u \in unseen : u.cause = "overflow" => warned)

\* No callback runs after Close has returned (watcher.Close).
NoCallbackAfterClose == close = "closed" => loop = "exited"

\* Close returns, also in the middle of a reload.
CloseReturns == close = "called" ~> close = "closed"

\* The callbacks for a file are no more than the saves of that file the watcher
\* was told of, however many events each had, what else happened in the
\* directory and what other files did: only a save that goes on after the
\* debounce period is over may cause another (WithWatch, "once per change";
\* newWatcher, "at most once per window per file").
NoCallbackWithoutChange ==
  \A f \in Files : calls[f] <= Cardinality(heard[f]) + late[f]

\* What the watcher's comment says: the directory is watched because "what
\* every editor, every mv and every ConfigMap update does" is to replace the
\* file, and "a directory watch sees the new name appear" (watch.go:28).  A
\* ConfigMap update replaces the link the file's link goes through instead.
SwapsReload ==
  <>[](Watching => \A u \in unseen : u.cause # "swap")
=============================================================================
