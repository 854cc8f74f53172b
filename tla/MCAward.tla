------------------------------ MODULE MCAward ------------------------------
(* Award on small instances: two or three transporters, a few quotes, two  *)
(* trip ids and two amounts, one of them over the band.                    *)
EXTENDS Award, TLC

Symmetric == Permutations(Vendors) \cup Permutations(Quotes) \cup Permutations(Trips)

(* At most two requests or approvals are in flight at a time, and at most  *)
(* one transporter is out of standing at a time.                           *)
MaxInFlight == 2
Bound ==
    /\ Cardinality(portal) + Cardinality(preview) + Cardinality(pending) <= MaxInFlight
    /\ Cardinality({v \in Vendors : standing[v] # "CLEAR"}) <= 1
=============================================================================
