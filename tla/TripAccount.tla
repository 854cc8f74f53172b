----------------------------- MODULE TripAccount -----------------------------
(***************************************************************************)
(* What the parts of the system owe one another about a trip: where it     *)
(* stands, whether the client is billed for it and what its transporter    *)
(* was paid.  These are three columns of the trips row that five services  *)
(* write, each looking at what the others wrote.                           *)
(*                                                                         *)
(* It is the abstract specification of Settlement and, one trip at a time, *)
(* of Invoicing; and it is what each assumes of the other: Settlement's    *)
(* invoices are steps of Invoicing, Invoicing's deliveries and payments    *)
(* steps of Settlement.                                                    *)
(***************************************************************************)
EXTENDS Naturals

VARIABLE account

Account == [stage : {"OPEN", "IN_TRANSIT", "DELIVERED", "CLOSED"},
            billed : {"NO", "YES"}, paid : Nat]

(* A part meets the trip before it leaves, or on the road. *)
Init == account \in [stage : {"OPEN", "IN_TRANSIT"}, billed : {"NO"}, paid : {0}]

OnRoad(a) == a.stage # "OPEN"

Departed(a)  == [a EXCEPT !.stage = "IN_TRANSIT"]
Delivered(a) == [a EXCEPT !.stage = "DELIVERED"]
Forfeited(a) == [a EXCEPT !.stage = "CLOSED"]

(* Whichever of the two halves comes second closes the trip; a cancelled    *)
(* invoice opens it again.                                                  *)
Billed(a) ==
    [stage |-> IF a.paid > 0 THEN "CLOSED" ELSE a.stage, billed |-> "YES", paid |-> a.paid]
Unbilled(a) ==
    [stage |-> IF a.stage = "CLOSED" /\ a.paid > 0 THEN "DELIVERED" ELSE a.stage,
     billed |-> "NO", paid |-> a.paid]
Paid(a, n) ==
    [stage |-> IF a.billed = "YES" THEN "CLOSED" ELSE a.stage,
     billed |-> a.billed, paid |-> n]

Depart  == account.stage = "OPEN" /\ account' = Departed(account)
Deliver == account.stage = "IN_TRANSIT" /\ account' = Delivered(account)
Lapse   == account.stage \in {"DELIVERED", "CLOSED"} /\ account' = Forfeited(account)
Bill    == OnRoad(account) /\ account.billed = "NO" /\ account' = Billed(account)
Unbill  == account.billed = "YES" /\ account' = Unbilled(account)

(* A balance of nothing, all of it deducted, may be paid again. *)
Pay ==
    /\ account.paid = 0 /\ account'.paid \in Nat
    /\ account' = Paid(account, account'.paid)

Next == Depart \/ Deliver \/ Lapse \/ Bill \/ Unbill \/ Pay

Spec == Init /\ [][Next]_account

-----------------------------------------------------------------------------
(* A trip both of whose halves are settled is closed. *)
BothHalves == account.paid > 0 /\ account.billed = "YES" => account.stage = "CLOSED"
=============================================================================
