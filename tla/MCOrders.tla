------------------------------ MODULE MCOrders ------------------------------
(* Orders over one load, from the points where its history turns.          *)
EXTENDS Orders, TLC

CONSTANT i1

Ready  == [NewLoad EXCEPT !.load = "TRIP_CREATED", !.trip = "OPEN", !.papers = "ALL_BUT_SLIP"]
OnRoad == [Ready EXCEPT !.trip = "IN_TRANSIT", !.papers = "ALL", !.advance = "YES"]
Proven == [OnRoad EXCEPT !.trip = "DELIVERED", !.pod = "VERIFIED"]
Paid   == [Proven EXCEPT !.pod = "APPROVED", !.balance = "YES", !.invoice = i1]
Points == {NoLoad, Ready, OnRoad, Proven, Paid}

Symmetric == Permutations(Jobs)
=============================================================================
