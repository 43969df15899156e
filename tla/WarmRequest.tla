---------------------------- MODULE WarmRequest ----------------------------
(***************************************************************************)
(* What the warm-editor bridge promises of a run (docs/adr/0002-warm-      *)
(* bridge-run-ownership.md): its tests are executed at most once, by the   *)
(* open editor or by the cold fallback, and what testplay answers agrees   *)
(* with what was executed. "unknown" is exit code 9, "abandoned" a timeout *)
(* or a signal; both leave open whether the editor executed the tests, and *)
(* after them nothing is executed cold.                                    *)
(***************************************************************************)
EXTENDS Naturals

CONSTANT Runs

VARIABLES
    executed,  \* how often the editor was asked to execute the tests of a run
    verdict    \* what testplay does about the run in the end

Verdicts == {"result", "compile", "unknown", "abandoned", "cold"}

Init ==
    /\ executed = [r \in Runs |-> 0]
    /\ verdict = [r \in Runs |-> "open"]

\* The editor executes the tests, never a second time, and never after the
\* tests were or will be executed cold or were answered with compile errors.
Execute(r) ==
    /\ executed[r] = 0
    /\ verdict[r] \notin {"cold", "compile", "result"}
    /\ executed' = [executed EXCEPT ![r] = 1]
    /\ UNCHANGED verdict

Decide(r, v) ==
    /\ verdict[r] = "open"
    /\ v = "result" => executed[r] = 1
    /\ v \in {"cold", "compile"} => executed[r] = 0
    /\ verdict' = [verdict EXCEPT ![r] = v]
    /\ UNCHANGED executed

Next == \E r \in Runs : Execute(r) \/ \E v \in Verdicts : Decide(r, v)

Spec == Init /\ [][Next]_<<executed, verdict>>
=============================================================================
