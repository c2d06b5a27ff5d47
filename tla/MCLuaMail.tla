----------------------------- MODULE MCLuaMail ------------------------------
(***************************************************************************)
(* Small instances of LuaMail: two clients, so that the script of one      *)
(* meets the mail of the other in every stage, two addresses to assign;    *)
(* and all calls of exec() that reach beyond its limits by one.            *)
(***************************************************************************)
EXTENDS LuaMail, ExecAction, TLC

CONSTANTS c1, c2, s1, s2

MCConnections == {c1, c2}
MCSenders == {s1, s2}

Symmetry == Permutations(MCConnections) \cup Permutations(MCSenders)

(* Whatever call of exec() or exec_raw() a script makes that handles a     *)
(* client: the methods accept the calls that are well formed ("The last    *)
(* parameter may be a table specifying options", doc/index.rst:136), and   *)
(* no others; in particular none whose only argument is a table, and none  *)
(* that is one argument, or one variable, too long.  Start() then finds a  *)
(* program (it asserts that exec is not empty) and room in its arrays for  *)
(* everything and the null pointer behind it; the child gets the script's  *)
(* strings in their order, and no option.                                  *)
ExecAsGiven ==
  (\E c \in Connections : connection[c] = "script") => AllCallsAsGiven
=============================================================================
