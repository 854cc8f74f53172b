------------------------------ MODULE MCPortal ------------------------------
(* Portal with one page tapped twice, or two of them open on one record. *)
EXTENDS Portal, TLC

CONSTANTS p1, p2, p3

OneTwice == p1 :> {1, 2} @@ p2 :> {1} @@ p3 :> {1}
Alone(e) == p1 :> e @@ p2 :> Unused @@ p3 :> Unused
Beside(d, e) == p1 :> Unused @@ p2 :> d @@ p3 :> e
SomePages ==
    {Alone(e) : e \in {"QUOTE", "STATUS", "PAPER", "POD", "BILL"}}
      \cup {Beside("QUOTE", "QUOTE"), Beside("QUOTE", "WITHDRAW"), Beside("VEHICLE", "VEHICLE")}
=============================================================================
