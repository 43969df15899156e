----------------------------- MODULE MCScenario -----------------------------
(* Three instances: every pair of phases between a and a dependent b, chains, *)
(* dependents that share a dependency, and files that must not load.          *)
EXTENDS Scenario

CONSTANTS a, b, c

Inst(dep, depPhase, readyPhase, twoPhase) ==
    [dep |-> dep, depPhase |-> depPhase, readyPhase |-> readyPhase, twoPhase |-> twoPhase]
Alone == Inst(NoRole, "", "", FALSE)

Pairs ==
    {[r \in {a, b} |-> IF r = a THEN Inst(NoRole, "", sig, two) ELSE Inst(a, phase, "", FALSE)] :
        sig \in Targets, two \in BOOLEAN, phase \in Targets}

MCBusFiles == {f \in Pairs : f[a].readyPhase = "" /\ f[a].twoPhase}

Chains ==
    {[r \in {a, b, c} |-> CASE r = a -> Inst(NoRole, "", "", FALSE)
                            [] r = b -> Inst(a, phase, "", FALSE)
                            [] OTHER -> Inst(b, "", "done", FALSE)] :
        phase \in {"", "done"}}

Fans ==
    {[r \in {a, b, c} |-> CASE r = a -> Inst(NoRole, "", "", TRUE)
                            [] r = b -> Inst(a, "running", "", FALSE)
                            [] OTHER -> Inst(a, other, "", FALSE)] :
        other \in {"", "running", "done"}}

Rejected ==
    {[r \in {} |-> Alone]} \union
    {[r \in {a, b} |-> IF r = a THEN Inst(b, "", "", FALSE) ELSE Inst(dep, "", "", FALSE)] :
        dep \in {a, b, "unknown"}}

MCFiles == Pairs \union Chains \union Fans \union Rejected
=============================================================================
