--------------------------- MODULE MCRefsWorkers ---------------------------
\* Two requests on one baseline: for the same lease, for two with room for one
\* worker, for two with room for both, and after a keeper that died.
EXTENDS RefsWorkers, TLC
CONSTANTS r1, r2, w1, w2
Same == r1 :> w1 @@ r2 :> w1
Apart == r1 :> w1 @@ r2 :> w2
Plan(l, b, a) == [leaseOf |-> l, budget |-> b, abandoned |-> a]
MCPlans == {Plan(Same, 3, FALSE), Plan(Apart, 2, FALSE), Plan(Apart, 3, FALSE),
            Plan(Apart, 3, TRUE)}
=============================================================================
