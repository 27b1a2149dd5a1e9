-------------------------------- MODULE MCLint --------------------------------
(***************************************************************************)
(* Files of two imports and two assignments, in the packages the rules     *)
(* tell apart: the root of the module, an owner's subtree, a package of    *)
(* the owner's name elsewhere, a name that only starts like it, fixtures,  *)
(* and other modules, one of them with the module's name in its own.       *)
(***************************************************************************)
EXTENDS Lint

MCPaths ==
  {<<"goga">>, <<"gogaplus", "serve">>, <<"goga", "mcputil">>,
   <<"goga", "internal", "testdata">>, <<"goga", "testdata", "pkg">>}
    \cup {<<"goga", o, "util">> : o \in {"serve", "mcp"}}
    \cup {<<"goga", "api", o>> : o \in {"config", "semconv", "mcp"}}
=============================================================================
