----------------------------- MODULE Settlement -----------------------------
(***************************************************************************)
(* One trip from the road to its last rupee: delivery, the proof of        *)
(* delivery (POD) and its ageing, shortage and damage records, waivers,    *)
(* the client's invoice, the transporter's bill and the balance payment.   *)
(*                                                                         *)
(* Every handler locks the trip row, reads under the lock and is one        *)
(* action; the reads it makes on other connections are of rows that cannot *)
(* be inserted while the trip is locked.  The portal's bill is the one that *)
(* does not lock: it reads an approval, which only the sweep takes back,    *)
(* and inserts a row.  The nightly sweep picks its trips with no lock and   *)
(* patches them one by one later: two actions.                              *)
(*                                                                         *)
(* Time is in days since loading.  A payment carries the client's          *)
(* idempotency key.                                                        *)
(*                                                                         *)
(* Source: pod, sdr, payments, jobs, invoicing and portal-trips of         *)
(* apps/internal-api/src/modules.                                          *)
(***************************************************************************)
EXTENDS Integers, Sequences, Functions

CONSTANTS
    Staff,          \* users of the desk
    Admins,         \* those who may approve what they verified
    Keys,           \* idempotency keys
    Bills,          \* the transporter's bills
    Balance,        \* freight plus charges, less the advance paid
    Figures,        \* what a transporter's bill may come to, less the advance
    Deductions,     \* what a resolved shortage may cost
    PenaltyPerDay, TransitPenalty, MinPayable,
    TransitDays,    \* days on the road before delivery is late
    Tat, Forfeit,   \* age of a proof: free of penalty, and the last payable
    None,
    MaxDay, MaxDelivery, MaxRows, MaxSdr     \* bounds of the exploration

ASSUME StaffAssumption == Admins \subseteq Staff /\ None \notin Staff \cup Int
ASSUME MoneyAssumption ==
    /\ Balance \in Nat /\ Figures \subseteq Nat /\ Deductions \subseteq Nat
    /\ PenaltyPerDay \in Nat /\ TransitPenalty \in Nat \ {0} /\ MinPayable \in Nat
ASSUME DaysAssumption ==
    /\ TransitDays \in Nat /\ Tat \in Nat /\ Forfeit \in Nat /\ Tat <= Forfeit
    /\ MaxDay \in Nat /\ MaxDelivery \in 0..MaxDay /\ MaxRows \in Nat /\ MaxSdr \in Nat

VARIABLES
    day,        \* today
    trip,       \* the trips row
    rows,       \* pod_receipts of the trip, oldest first
    waivers,    \* penalty_waivers of the trip, by kind
    sdr,        \* its sdr_records: how many are open, and the sums of the resolved
    bill,       \* vendor_bills: status
    payment,    \* payments of kind BALANCE, by idempotency key
    sweep,      \* whether the running sweep has the trip on its list
    sign        \* who last verified and who approved, as the audit log has it

vars == <<day, trip, rows, waivers, sdr, bill, payment, sweep, sign>>

Days == 0..MaxDay
PodStatus == {"PENDING", "ATTACHED", "RECEIVED", "VERIFIED", "APPROVED", "FORFEITED"}
TripRow ==
    [stage : {"IN_TRANSIT", "DELIVERED", "CLOSED"}, delivered : Days \cup {None},
     pod : PodStatus, received : Days \cup {None},
     basis : {"NONE", "APPROVED", "WAIVED", "FORFEITED"},
     penalty : Nat, transit : {"NONE", "DUE", "WAIVED"},
     billed : {"NO", "YES"}, paid : Nat]
(* PAPER and EPOD: received at the desk.  DOCKET: a courier's number or the *)
(* transporter's upload, the proof itself still on its way; the column      *)
(* pod_kind says HPOD for PAPER and DOCKET alike.                           *)
Receipt == [kind : {"PAPER", "EPOD", "DOCKET"}, docket : {"NO", "YES"},
            hard : {"NONE", "SCANNED", "VERIFIED"}, by : Staff \cup {None}]
SdrSums == [raised : 0..MaxSdr, open : 0..MaxSdr, deducted : Nat, owed : Nat, written : Nat]
PaymentRow == [made : {"NO", "YES"}, gross : Nat, penalty : Nat, deduction : Nat]
NoPayment  == [made |-> "NO", gross |-> 0, penalty |-> 0, deduction |-> 0]

Init ==
    /\ day = 0
    /\ trip = [stage |-> "IN_TRANSIT", delivered |-> None, pod |-> "PENDING",
               received |-> None, basis |-> "NONE", penalty |-> 0,
               transit |-> "NONE", billed |-> "NO", paid |-> 0]
    /\ rows = <<>> /\ waivers = {}
    /\ sdr = [raised |-> 0, open |-> 0, deducted |-> 0, owed |-> 0, written |-> 0]
    /\ bill = [b \in Bills |-> "NONE"]
    /\ payment = [k \in Keys |-> NoPayment]
    /\ sweep = "IDLE" /\ sign = [verifier |-> None, approver |-> None]

Least(a, b)    == IF a < b THEN a ELSE b
NonNegative(a) == IF a > 0 THEN a ELSE 0

-----------------------------------------------------------------------------
(* Delivery, and the clock of its proof *)

Tick ==
    /\ day < MaxDay /\ day' = day + 1
    /\ UNCHANGED <<trip, rows, waivers, sdr, bill, payment, sweep, sign>>

LateOn(d) == IF d > TransitDays THEN "DUE" ELSE "NONE"

Deliver(d) ==
    /\ trip.stage = "IN_TRANSIT"
    /\ trip' = [trip EXCEPT !.stage = "DELIVERED", !.delivered = d, !.pod = "PENDING",
                            !.transit = LateOn(d)]
    /\ UNCHANGED <<day, rows, waivers, sdr, bill, payment, sweep, sign>>

(* Days from delivery until receipt, or until today.                        *)
(* mutant: a proof that has not been received has no age *)
AgeReceived == IF trip.delivered = None \/ trip.received = None THEN 0
               ELSE NonNegative(trip.received - trip.delivered)
Age == IF trip.delivered = None THEN 0
       ELSE NonNegative((IF trip.received = None THEN day ELSE trip.received) - trip.delivered)
Accrued == NonNegative(Least(Age, Forfeit) - Tat) * PenaltyPerDay
EffectivePenalty == IF trip.basis = "WAIVED" THEN 0 ELSE Accrued

-----------------------------------------------------------------------------
(* The proof of delivery *)

InsertReceipt(kind, docket) ==
    /\ Len(rows) < MaxRows
    /\ rows' = Append(rows, [kind |-> kind, docket |-> docket, hard |-> "NONE", by |-> None])

Latest == rows[Len(rows)]
LatestIs(kind) == rows # <<>> /\ Latest.kind = kind
SignedBy(s) == [i \in DOMAIN rows |-> [rows[i] EXCEPT !.by = s]]
HardCopy(h) == rows' = [rows EXCEPT ![Len(rows)].hard = h]

(* A second docket corrects the first and inserts nothing. *)
AddDocket ==
    /\ trip.delivered # None /\ trip.pod \notin {"APPROVED", "FORFEITED"}
    /\ \A i \in DOMAIN rows : rows[i].docket = "NO"
    /\ InsertReceipt("DOCKET", "YES")
    /\ UNCHANGED <<day, trip, waivers, sdr, bill, payment, sweep, sign>>

(* The transporter's own upload: a receipt, whatever state the trip is in. *)
AttachPod ==
    /\ InsertReceipt("DOCKET", "YES")
    /\ UNCHANGED <<day, trip, waivers, sdr, bill, payment, sweep, sign>>

(* The signed paper, with or without a docket, or its electronic copy. *)
Receive(kind, docket) ==
    /\ trip.delivered # None /\ trip.pod \in {"PENDING", "ATTACHED"}
    /\ kind = "EPOD" => docket = "NO"
    /\ InsertReceipt(kind, docket)
    /\ trip' = [trip EXCEPT !.pod = "RECEIVED", !.received = day]
    /\ UNCHANGED <<day, waivers, sdr, bill, payment, sweep, sign>>

(* What a check found: f records opened, and the day it says it arrived.    *)
Corrected(t, d) ==
    IF d = t.delivered THEN t
    ELSE [t EXCEPT !.delivered = d, !.transit = IF @ = "WAIVED" THEN @ ELSE LateOn(d)]
Findings(t, f, d) ==
    /\ sdr.raised + f <= MaxSdr
    /\ sdr' = [sdr EXCEPT !.raised = @ + f, !.open = @ + f]
    /\ trip' = Corrected(t, d)

(* A new scan needs checking again. *)
LogHardCopy ==
    /\ LatestIs("EPOD") /\ HardCopy("SCANNED")
    /\ UNCHANGED <<day, trip, waivers, sdr, bill, payment, sweep, sign>>

VerifyHardCopy(f, d) ==
    /\ LatestIs("EPOD") /\ Latest.hard = "SCANNED" /\ HardCopy("VERIFIED")
    /\ Findings(trip, f, d)
    /\ UNCHANGED <<day, waivers, bill, payment, sweep, sign>>

Verify(s, f, d) ==
    /\ trip.pod = "RECEIVED"
    /\ rows' = SignedBy(s)
    /\ Findings([trip EXCEPT !.pod = "VERIFIED"], f, d)
    /\ sign' = [sign EXCEPT !.verifier = s]
    /\ UNCHANGED <<day, waivers, bill, payment, sweep>>

(* mutant: an approved proof can be sent back *)
RejectableApproved == {"RECEIVED", "VERIFIED", "APPROVED"}
Rejectable == {"RECEIVED", "VERIFIED"}

(* The clock runs on from delivery as if nothing had been received.         *)
(* mutant: it stays stopped *)
ClockStopped == trip.received
ClockAfterReject == None

Reject ==
    /\ trip.pod \in Rejectable
    /\ trip' = [trip EXCEPT !.received = ClockAfterReject,
                            !.pod = IF rows = <<>> THEN "PENDING" ELSE "ATTACHED"]
    /\ rows' = SignedBy(None)
    /\ UNCHANGED <<day, waivers, sdr, bill, payment, sweep, sign>>

(* mutant: only the service's check of the latest receipt, no trigger *)
SecondPairLatest(s) == s \in Admins \/ rows = <<>> \/ Latest.by # s

(* The service looks at the latest receipt, the trigger at each one that    *)
(* the approval updates.                                                    *)
SecondPair(s) == s \in Admins \/ \A i \in DOMAIN rows : rows[i].by # s

Approve(s) ==
    /\ trip.pod = "VERIFIED" /\ SecondPair(s)
    /\ trip' = [trip EXCEPT !.pod = "APPROVED", !.basis = "APPROVED"]
    /\ sign' = [sign EXCEPT !.approver = s]
    /\ UNCHANGED <<day, rows, waivers, sdr, bill, payment, sweep>>

WaivePodPenalty ==
    /\ trip.basis # "WAIVED"
    /\ trip' = [trip EXCEPT !.basis = "WAIVED"]
    /\ waivers' = waivers \cup {"POD_PENALTY"}
    /\ UNCHANGED <<day, rows, sdr, bill, payment, sweep, sign>>

WaiveTransit ==
    /\ trip.transit = "DUE"
    /\ trip' = [trip EXCEPT !.transit = "WAIVED"]
    /\ waivers' = waivers \cup {"TRANSIT"}
    /\ UNCHANGED <<day, rows, sdr, bill, payment, sweep, sign>>

-----------------------------------------------------------------------------
(* The nightly sweep *)

SweepStart ==
    /\ sweep = "IDLE" /\ trip.delivered # None
    /\ trip.pod \notin {"APPROVED", "FORFEITED"} /\ trip.basis # "WAIVED"
    /\ sweep' = "LISTED"
    /\ UNCHANGED <<day, trip, rows, waivers, sdr, bill, payment, sign>>

Aged == IF Age > Forfeit /\ trip.basis # "WAIVED"
        THEN [trip EXCEPT !.penalty = EffectivePenalty, !.pod = "FORFEITED",
                          !.basis = "FORFEITED", !.stage = "CLOSED"]
        ELSE [trip EXCEPT !.penalty = EffectivePenalty]
SweepTrip ==
    /\ sweep = "LISTED" /\ sweep' = "IDLE"
    /\ trip' = Aged
    /\ UNCHANGED <<day, rows, waivers, sdr, bill, payment, sign>>

(* The run ends before it reaches this trip. *)
SweepLost ==
    /\ sweep = "LISTED" /\ sweep' = "IDLE"
    /\ UNCHANGED <<day, trip, rows, waivers, sdr, bill, payment, sign>>

-----------------------------------------------------------------------------
(* Shortage and damage records, invoices *)

ResolveSdr(x) ==
    /\ sdr.open > 0
    /\ sdr' = [sdr EXCEPT !.open = @ - 1, !.deducted = @ + x, !.owed = @ + x]
    /\ UNCHANGED <<day, trip, rows, waivers, bill, payment, sweep, sign>>

(* One record's remainder, some part of what is owed, is written off.       *)
(* mutant: it stays outstanding *)
WaiveSdrOwed(x) ==
    /\ sdr' = [sdr EXCEPT !.written = @ + x]
    /\ UNCHANGED <<day, trip, rows, waivers, bill, payment, sweep, sign>>
WaiveSdr(x) ==
    /\ sdr' = [sdr EXCEPT !.owed = @ - x, !.written = @ + x]
    /\ UNCHANGED <<day, trip, rows, waivers, bill, payment, sweep, sign>>

(* The client's invoice is issued, at any stage, and cancelled.             *)
(* mutant: billing a paid trip does not close it *)
BilledStageKept == trip.stage
BilledStage == IF trip.paid > 0 THEN "CLOSED" ELSE trip.stage

Invoice ==
    /\ trip.billed = "NO"
    /\ trip' = [trip EXCEPT !.billed = "YES", !.stage = BilledStage]
    /\ UNCHANGED <<day, rows, waivers, sdr, bill, payment, sweep, sign>>

CancelInvoice ==
    /\ trip.billed = "YES"
    /\ trip' = [trip EXCEPT !.billed = "NO",
                !.stage = IF @ = "CLOSED" /\ trip.paid > 0 THEN "DELIVERED" ELSE @]
    /\ UNCHANGED <<day, rows, waivers, sdr, bill, payment, sweep, sign>>

-----------------------------------------------------------------------------
(* The balance *)

(* The release's own look at the clock, from receipt to today. *)
PastForfeiture ==
    /\ trip.received # None /\ day - trip.received > Forfeit /\ trip.basis # "WAIVED"

Unmet ==
    \/ trip.pod # "APPROVED" /\ trip.basis # "WAIVED"
    \/ LatestIs("EPOD") /\ Latest.hard # "VERIFIED"
    \/ sdr.open > 0

TransitOwed == IF trip.transit = "DUE" THEN TransitPenalty ELSE 0
PenaltyDue  == (IF trip.basis = "WAIVED" THEN 0 ELSE trip.penalty) + TransitOwed

(* What a payment of "avail" takes off the records and leaves to pay.       *)
Recovered(avail) == Least(sdr.owed, NonNegative(avail - MinPayable))

(* The payment row, the recoveries and the trip, in one transaction.  A key *)
(* that was used returns its payment and does nothing.                      *)
Pay(k, gross) ==
    LET avail == gross - PenaltyDue
        taken == Recovered(avail) IN
    /\ payment[k] = NoPayment /\ trip.paid = 0
    /\ ~PastForfeiture /\ ~Unmet
    /\ payment' = [payment EXCEPT ![k] = [made |-> "YES", gross |-> gross,
                                          penalty |-> PenaltyDue, deduction |-> taken]]
    /\ sdr' = [sdr EXCEPT !.owed = @ - taken]
    /\ trip' = [trip EXCEPT !.paid = NonNegative(avail) - taken,
                            !.stage = IF trip.billed = "YES" THEN "CLOSED" ELSE @]
    /\ UNCHANGED <<day, rows, waivers, sweep, sign>>

ReleaseBalance(k) == Pay(k, Balance) /\ UNCHANGED bill

LiveBill == \E b \in Bills : bill[b] \in {"SUBMITTED", "ACCEPTED"}
BillTo(b, status) == bill' = [bill EXCEPT ![b] = status]

RaiseBill(b) ==
    /\ bill[b] = "NONE" /\ ~LiveBill
    /\ trip.pod = "APPROVED" \/ trip.basis = "WAIVED"
    /\ BillTo(b, "SUBMITTED")
    /\ UNCHANGED <<day, trip, rows, waivers, sdr, payment, sweep, sign>>

SubmitBill(b) ==
    /\ bill[b] = "NONE" /\ trip.pod = "APPROVED"
    /\ BillTo(b, "SUBMITTED")
    /\ UNCHANGED <<day, trip, rows, waivers, sdr, payment, sweep, sign>>

QueryBill(b) ==
    /\ bill[b] = "SUBMITTED" /\ BillTo(b, "QUERIED")
    /\ UNCHANGED <<day, trip, rows, waivers, sdr, payment, sweep, sign>>

(* Accepting a bill releases the balance, at our figure or at theirs. *)
AcceptBill(b, k, gross) ==
    /\ bill[b] = "SUBMITTED" /\ Pay(k, gross) /\ BillTo(b, "ACCEPTED")

-----------------------------------------------------------------------------
Reached == 0..Least(day, MaxDelivery)

PodStep ==
    \/ \E d \in Reached : Deliver(d)
    \/ AddDocket \/ AttachPod \/ LogHardCopy \/ Reject
    \/ \E kind \in {"PAPER", "EPOD"}, docket \in {"NO", "YES"} : Receive(kind, docket)
    \/ \E f \in 0..1, d \in Reached : VerifyHardCopy(f, d)
    \/ \E s \in Staff, f \in 0..1, d \in Reached : Verify(s, f, d)
    \/ \E s \in Staff : Approve(s)

MoneyStep ==
    \/ WaivePodPenalty \/ WaiveTransit
    \/ \E x \in Deductions : ResolveSdr(x)
    \/ \E x \in 1..sdr.owed : WaiveSdr(x)
    \/ Invoice \/ CancelInvoice
    \/ \E k \in Keys : ReleaseBalance(k)
    \/ \E b \in Bills : RaiseBill(b) \/ SubmitBill(b) \/ QueryBill(b)
    \/ \E b \in Bills, k \in Keys, gross \in Figures \cup {Balance} : AcceptBill(b, k, gross)

Next == Tick \/ PodStep \/ MoneyStep \/ SweepStart \/ SweepTrip \/ SweepLost

Spec == Init /\ [][Next]_vars

(* Days pass, the cron starts the sweep every night, and a run that is cut  *)
(* short before this trip is not cut short there every night.               *)
FairSpec == Spec /\ WF_vars(Tick) /\ WF_vars(SweepStart) /\ SF_vars(SweepTrip)

-----------------------------------------------------------------------------
(* Properties *)

TypeOK ==
    /\ day \in Days /\ trip \in TripRow /\ rows \in Seq(Receipt)
    /\ waivers \subseteq {"POD_PENALTY", "TRANSIT"} /\ sdr \in SdrSums
    /\ bill \in [Bills -> {"NONE", "SUBMITTED", "QUERIED", "ACCEPTED"}]
    /\ payment \in [Keys -> PaymentRow] /\ sweep \in {"IDLE", "LISTED"}
    /\ sign \in [verifier : Staff \cup {None}, approver : Staff \cup {None}]

Made(k) == payment[k].made = "YES"
Paying(k) == ~Made(k) /\ Made(k)'

(* The clock of a proof is stopped exactly while the proof is in the house: *)
(* through receipt, rejection, receipt again and approval the day it was    *)
(* received is there when, and only when, a receipt is.                     *)
ClockMatchesProof ==
    /\ trip.pod \in {"RECEIVED", "VERIFIED", "APPROVED"} =>
          /\ trip.received # None /\ trip.delivered # None
          /\ \E i \in DOMAIN rows : rows[i].kind # "DOCKET"
    /\ trip.pod \in {"PENDING", "ATTACHED"} => trip.received = None

(* Money that left stays justified: once a balance was paid the proof is    *)
(* approved, or the penalty and the proof were waived, or the sweep closed  *)
(* the trip; it is never back in collection.                                *)
PaidOnGrounds ==
    \A k \in Keys : Made(k) =>
        trip.pod \in {"APPROVED", "FORFEITED"} \/ "POD_PENALTY" \in waivers

(* Whoever approved is not who verified, unless an administrator, even when *)
(* a receipt nobody verified was inserted between the two.                  *)
FourEyes ==
    trip.pod = "APPROVED" => sign.approver # sign.verifier \/ sign.approver \in Admins

(* A trip is closed when the transporter is paid and the client billed, and *)
(* a closed trip is paid or forfeited, through invoices issued and          *)
(* cancelled in any order with the payment.                                 *)
ClosedWhenSettled ==
    /\ trip.paid > 0 /\ trip.billed = "YES" => trip.stage = "CLOSED"
    /\ trip.stage = "CLOSED" => \/ trip.basis = "FORFEITED" \/ trip.pod = "FORFEITED"
                                \/ \E k \in Keys : Made(k)
    /\ trip.pod = "FORFEITED" /\ trip.paid = 0 => trip.stage = "CLOSED"

(* Every rupee deducted for a shortage is owed, written off or recovered    *)
(* from one payment, the trip shows what its payments came to, and of two   *)
(* releases under different keys one at least paid nothing.                *)
Payments == {k \in Keys : Made(k)}
Taken == [k \in Keys |-> payment[k].deduction]
Net == [k \in Keys |-> NonNegative(payment[k].gross - payment[k].penalty) - payment[k].deduction]
BooksBalance ==
    /\ sdr.deducted = sdr.owed + sdr.written + SumFunctionOnSet(Taken, Payments)
    /\ trip.paid = SumFunctionOnSet(Net, Payments)
    /\ \A k, l \in Payments : k = l \/ Net[k] = 0 \/ Net[l] = 0

(* What a trip's account promises the rest of the system: of all that       *)
(* happens here, five kinds of step touch it.                               *)
AccountRow == [stage |-> trip.stage, billed |-> trip.billed, paid |-> trip.paid]
Account == INSTANCE TripAccount WITH account <- AccountRow
KeepsAccount == Account!Spec

(* Every proof is settled in the end: approved, forfeited, waived, or       *)
(* received within the window and waiting for the desk.                     *)
InTime == trip.received # None /\ trip.received - trip.delivered <= Forfeit
EveryProofSettles ==
    trip.delivered # None ~> \/ trip.pod \in {"APPROVED", "FORFEITED"}
                             \/ trip.basis = "WAIVED" \/ InTime

-----------------------------------------------------------------------------
(* What the repository also says and the code does not do; no run checks   *)
(* these: see README, Deviations without a run.                            *)

(* What effectivePenalty's comment says: "a waived penalty must never still *)
(* read as accruing"; so it is never charged either.                        *)
WaivedNotCharged ==
    [][\A k \in Keys : Paying(k) /\ "POD_PENALTY" \in waivers
                           => payment'[k].penalty = TransitOwed]_vars

(* What BR-25 says: forfeiture counts the days from delivery, and           *)
(* computePenalty's comment: the clock freezes at receipt.  A proof that    *)
(* came in time is never refused as forfeited.                              *)
InTimeIsPayable == trip.pod = "APPROVED" /\ InTime => ~PastForfeiture

(* What the refusal of a second release says: "The balance has already been *)
(* released for this trip."                                                 *)
OneBalancePayment == \A k, l \in Keys : Made(k) /\ Made(l) => k = l
=============================================================================
