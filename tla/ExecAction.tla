----------------------------- MODULE ExecAction -----------------------------
(***************************************************************************)
(* The methods exec() and exec_raw() of the mail object, which turn the    *)
(* arguments of a Lua call into an Action, and the arrays argv and env     *)
(* that a relay's Start() makes of the Action, which have a fixed size.    *)
(*                                                                         *)
(* A call is the Lua stack: the mail, the arguments, perhaps a table with  *)
(* options.  Values are told apart as far as the code does; an argument is *)
(* known by its place on the stack.                                        *)
(***************************************************************************)
EXTENDS Integers, Sequences

CONSTANTS
  MaxExec,  \* Action::MAX_EXEC
  MaxEnv    \* Action::MAX_ENV

ASSUME LimitsAssumption == MaxExec \in Nat \ {0} /\ MaxEnv \in Nat

-----------------------------------------------------------------------------
(* The values on the stack.                                                *)

Mail == [kind |-> "mail"]
String == [kind |-> "string"]   \* or a number, which CheckStringView() accepts
Other == [kind |-> "other"]
Absent == [kind |-> "absent"]

(* A value of the option "env": a table of so many entries, whose names    *)
(* and values are all strings, or not.                                     *)
Environments == [kind : {"table"}, entries : 0..(MaxEnv + 1), strings : BOOLEAN]

(* A table: the options it has, and if it has keys that are no options.    *)
Tables ==
  [kind : {"table"}, env : Environments \cup {Absent, Other},
   timeout : {"in_range", "out_of_range", "no_number", "absent"}, unknown : BOOLEAN]

Arguments == UNION {[1..n -> {String, Other}] : n \in 0..(MaxExec + 1)}

Stacks ==
  {<<Mail>> \o arguments \o options :
     arguments \in Arguments, options \in {<< >>} \cup {<<table>> : table \in Tables}}

-----------------------------------------------------------------------------
(* The methods; they differ in the action's type only.                     *)

Error == [result |-> "error"]

NewLuaAction == [result |-> "action", exec |-> << >>, env |-> 0, timeout |-> FALSE]

EnvFull(entries) == entries > MaxEnv

CollectExecEnv(a, env) ==
  IF EnvFull(env.entries) \/ ~env.strings THEN Error ELSE [a EXCEPT !.env = env.entries]

(* Each key, in any order; the first error ends the call.                  *)
CollectExecOptions(a, table) ==
  LET timed == [a EXCEPT !.timeout = (table.timeout = "in_range")]
      valid == /\ ~table.unknown
               /\ table.timeout \in {"in_range", "absent"}
               /\ table.env # Other
  IN  IF ~valid THEN Error
      ELSE IF table.env = Absent THEN timed ELSE CollectExecEnv(timed, table.env)

(* Mutant: the options may be all there is.                                *)
HasOptionsAnywhere(s) == s[Len(s)].kind = "table"

(* A table is no option if it is the only argument.                        *)
HasOptions(s) == Len(s) > 2 /\ s[Len(s)].kind = "table"

(* At stack index i, exec has i - 2 elements.                              *)
ExecFull(i) == i - 2 >= MaxExec

CollectArguments(a, s, top) ==
  IF \E i \in 2..top : ExecFull(i) \/ s[i] # String
  THEN Error
  ELSE [a EXCEPT !.exec = [n \in 1..(top - 1) |-> n + 1]]

CollectExec(a, s) ==
  IF ~HasOptions(s)
  THEN CollectArguments(a, s, Len(s))
  ELSE LET b == CollectExecOptions(a, s[Len(s)])
       IN  IF b = Error THEN Error ELSE CollectArguments(b, s, Len(s) - 1)

NewExecAction(s) == IF Len(s) < 2 THEN Error ELSE CollectExec(NewLuaAction, s)

(* argv of Start(), and how many elements of its env are filled.           *)
Null == 0

Argv(a) == Append(a.exec, Null)

EnvSize(a) == a.env + 1

-----------------------------------------------------------------------------
(* Correctness of one call.                                                *)

(* What a script gets an action for: a program, its arguments, and options *)
(* that are all understood, within the limits.                             *)
WellFormed(s) ==
  \E arguments \in Arguments \ {<< >>} :
    /\ Len(arguments) <= MaxExec
    /\ \A i \in DOMAIN arguments : arguments[i] = String
    /\ \/ s = <<Mail>> \o arguments
       \/ \E table \in Tables :
            /\ s = <<Mail>> \o arguments \o <<table>>
            /\ ~table.unknown
            /\ table.timeout \in {"in_range", "absent"}
            /\ table.env # Absent =>
                 table.env \in [kind : {"table"}, entries : 0..MaxEnv, strings : {TRUE}]

(* A well-formed call, and no other, makes an action, for which Start()    *)
(* has room and which gives the child the strings of the call in order.    *)
CallAsGiven(s) ==
  LET a == NewExecAction(s)
      argc == Len(Argv(a)) - 1
  IN  /\ a # Error <=> WellFormed(s)
      /\ a # Error =>
           /\ argc \in 1..MaxExec
           /\ EnvSize(a) \in 1..(MaxEnv + 1)
           /\ {Argv(a)[i] : i \in 1..argc} = {i \in DOMAIN s : s[i] = String}
           /\ \A i, j \in 1..argc : i < j => Argv(a)[i] < Argv(a)[j]

AllCallsAsGiven == \A s \in Stacks : CallAsGiven(s)
=============================================================================
