----------------------------- MODULE MCRateCard -----------------------------
(* RateCard over two rates and three days, by two desks. *)
EXTENDS RateCard, TLC

CONSTANTS p1, p2
Later  == [rate |-> p2, from |-> 1, to |-> Forever]
Latest == [rate |-> p2, from |-> 2, to |-> Forever]
Before == [rate |-> p2, from |-> 0, to |-> 1]
Asked3 == {Later, Latest, Before}

Symmetric ==
    Permutations(Lanes) \cup Permutations(Revisions) \cup Permutations(Approvals) \cup Permutations(Users)
=============================================================================
