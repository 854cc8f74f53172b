------------------------------- MODULE Orders -------------------------------
(***************************************************************************)
(* The order of one load: a stored answer to "which of the ten steps is it *)
(* on", worked out anew after each change of the load, its trip, its papers *)
(* or its invoice.                                                         *)
(*                                                                         *)
(* The recompute runs after the change has committed, outside any          *)
(* transaction: it reads each table with a statement of its own, decides,   *)
(* and writes the order by its id.  One statement is one action, so several *)
(* recomputes and further changes may come between.  A handler tells the    *)
(* order once (Hooked), some writers never do (Silent), and a recompute may *)
(* be lost.  What the changes require is in Award, Dispatch, Settlement and *)
(* Invoicing; here they keep the guards that the order can tell apart.      *)
(*                                                                         *)
(* Source: apps/internal-api/src/modules/orders and its callers.           *)
(***************************************************************************)
EXTENDS Integers

CONSTANTS
    Jobs,          \* recomputes in flight
    Invoices,
    Starts,        \* the facts a history may begin with
    MaxChanges,    \* bound on the changes of the facts
    None

ASSUME NoneAssumption == None \notin Invoices

VARIABLES
    facts,      \* what the load, its trip, its papers and its invoice say
    order,      \* the orders row
    last,       \* the status of the latest order_events row
    job,        \* the recomputes
    slips,      \* ghost: how the order may have been left behind
    changes     \* ghost: changes made so far

vars == <<facts, order, last, job, slips, changes>>

Bool      == {"NO", "YES"}
TripStage == {"NONE", "OPEN", "IN_TRANSIT", "DELIVERED", "CLOSED", "CANCELLED"}
PodStatus == {"PENDING", "ATTACHED", "RECEIVED", "VERIFIED", "APPROVED", "REJECTED", "FORFEITED"}
Papers    == {"NONE", "ALL_BUT_SLIP", "ALL"}    \* advance documents present and not rejected
Facts ==
    [load : {"NONE", "OPEN", "TRIP_CREATED", "CANCELLED"}, failed : Bool,
     trip : TripStage, pod : PodStatus, advance : Bool, balance : Bool, lr : Bool,
     papers : Papers, invoice : Invoices \cup {None}]

(* What the other records keep of each other; see Dispatch and Settlement.  *)
Sound(f) ==
    /\ f.load \in {"NONE", "OPEN", "CANCELLED"} => f.trip \in {"NONE", "CANCELLED"}
    /\ f.load = "TRIP_CREATED" => f.trip \notin {"NONE", "CANCELLED"}
    /\ f.load = "NONE" \/ f.trip = "NONE" => f.papers = "NONE" /\ f.invoice = None
    /\ f.pod # "PENDING" \/ f.balance = "YES" => f.trip \in {"DELIVERED", "CLOSED"}
    /\ f.pod # "REJECTED"

ASSUME StartsAssumption == Starts \subseteq {f \in Facts : Sound(f)}
ASSUME MaxChangesAssumption == MaxChanges \in Nat

-----------------------------------------------------------------------------
(* The ladder *)

Ladder ==
    <<"INDENT_CREATED", "TRIP_GENERATED", "LR_ISSUED", "ADVANCE_DOCS_UPLOADED", "ADVANCE_PAID",
      "TRACKING", "UNLOADED", "POD_UPLOADED", "POD_VERIFIED", "BALANCE_RELEASED">>
Exits  == {"FAILED", "POD_FORFEITED", "CANCELLED"}
Steps  == {Ladder[i] : i \in 1..10}
Status == Steps \cup Exits

(* The lorry receipt stands in for the loading slip. *)
DocsIn(f) == f.papers = "ALL" \/ (f.papers = "ALL_BUT_SLIP" /\ f.lr = "YES")

AtLoading(f) ==
    CASE f.advance = "YES" -> "ADVANCE_PAID"
      [] f.advance = "NO" /\ DocsIn(f) -> "ADVANCE_DOCS_UPLOADED"
      [] f.advance = "NO" /\ ~DocsIn(f) -> IF f.lr = "YES" THEN "LR_ISSUED" ELSE "TRIP_GENERATED"

AtProof(f) ==
    CASE f.pod = "FORFEITED" -> "POD_FORFEITED"
      [] f.pod \in {"PENDING", "REJECTED"} -> "UNLOADED"
      [] f.pod \in {"ATTACHED", "RECEIVED"} -> "POD_UPLOADED"
      [] f.pod \in {"VERIFIED", "APPROVED"} ->
             IF f.balance = "YES" THEN "BALANCE_RELEASED" ELSE "POD_VERIFIED"

StepOf(f) ==
    CASE f.load = "CANCELLED" -> "CANCELLED"
      [] f.load = "OPEN" -> IF f.failed = "YES" THEN "FAILED" ELSE "INDENT_CREATED"
      [] f.load = "NONE" -> "INDENT_CREATED"
      [] f.load = "TRIP_CREATED" ->
             CASE f.trip = "NONE" -> "TRIP_GENERATED"
               [] f.trip = "OPEN" -> AtLoading(f)
               [] f.trip = "IN_TRANSIT" -> "TRACKING"
               [] f.trip \notin {"NONE", "OPEN", "IN_TRANSIT"} -> AtProof(f)

IsTerminal(s) == s \in {"BALANCE_RELEASED", "POD_FORFEITED", "CANCELLED"}

-----------------------------------------------------------------------------
(* The order row and the recomputes *)

OrderRow == [exists : Bool, status : Status, trip : Bool, invoice : Invoices \cup {None}, closed : Bool]
NoOrder  == [exists |-> "NO", status |-> "INDENT_CREATED", trip |-> "NO", invoice |-> None, closed |-> "NO"]
NewOrder == [NoOrder EXCEPT !.exists = "YES"]

Stages == {"LOAD", "TRIP", "PAPERS", "INVOICE", "ORDER", "AGAIN", "INSERT", "REREAD", "FIRST",
           "WRITE", "LAST", "APPEND"}
(* SYNC is recompute, OPEN is createForIndent alone, REPAIR the one after   *)
(* the other.                                                              *)
JobRow == [at : Stages \cup {"IDLE"}, does : {"SYNC", "OPEN", "REPAIR"},
           got : Facts, seen : OrderRow, alone : Bool]

NewLoad == [load |-> "OPEN", failed |-> "NO", trip |-> "NONE", pod |-> "PENDING", advance |-> "NO",
            balance |-> "NO", lr |-> "NO", papers |-> "NONE", invoice |-> None]
NoLoad  == [NewLoad EXCEPT !.load = "NONE"]
Quiet   == [at |-> "IDLE", does |-> "SYNC", got |-> NoLoad, seen |-> NoOrder, alone |-> "NO"]

HasTrip(f) == f.trip # "NONE"
Linked(f)  == IF HasTrip(f) THEN "YES" ELSE "NO"
Closing(s) == IF IsTerminal(s) THEN "YES" ELSE "NO"
(* The row that a recompute over f writes. *)
RowOf(f) == [exists |-> "YES", status |-> StepOf(f), trip |-> Linked(f),
             invoice |-> f.invoice, closed |-> Closing(StepOf(f))]

Init ==
    /\ facts \in Starts
    /\ order = IF facts.load = "NONE" THEN NoOrder ELSE RowOf(facts)
    /\ last = IF facts.load = "NONE" THEN None ELSE StepOf(facts)
    /\ job = [r \in Jobs |-> Quiet]
    /\ slips = {} /\ changes = 0

Idle(r)  == job[r].at = "IDLE"
Alone(r) == job[r].alone = "YES"
Begun(does, at) == [Quiet EXCEPT !.at = at, !.does = does, !.alone = "YES"]

(* The other recomputes in flight read or saw something that is gone. *)
Overtaking(r, row) == [x \in Jobs |-> IF x = r THEN row ELSE [job[x] EXCEPT !.alone = "NO"]]

Goes(r, row) == job' = [job EXCEPT ![r] = row] /\ UNCHANGED <<facts, order, last, slips, changes>>

(* r has written: what it wrote is to be doubted if it was overtaken. *)
Writes(r, row) ==
    /\ job' = Overtaking(r, row)
    /\ slips' = IF Alone(r) THEN slips ELSE slips \cup {"OVERTAKEN"}
    /\ UNCHANGED <<facts, changes>>

(* An undisturbed recompute settles whatever was behind. *)
Settles(r) == Alone(r) /\ job[r].does # "OPEN"

-----------------------------------------------------------------------------
(* Changes of the facts *)

Moves(new) == facts' = new /\ changes < MaxChanges /\ changes' = changes + 1
AtLoadingBay == facts.load = "TRIP_CREATED" /\ facts.trip = "OPEN"
AtDoor       == facts.load = "TRIP_CREATED" /\ facts.trip \in {"DELIVERED", "CLOSED"}

Raise == facts.load = "NONE" /\ Moves(NewLoad)
Award == facts.load = "OPEN" /\ Moves([facts EXCEPT !.load = "TRIP_CREATED", !.trip = "OPEN"])
Cancel ==
    /\ facts.load = "OPEN" \/ (AtLoadingBay /\ facts.advance = "NO")
    /\ Moves([facts EXCEPT !.load = "CANCELLED", !.trip = IF HasTrip(facts) THEN "CANCELLED" ELSE @])
(* The trip is set aside with its papers and its draft receipt deleted. *)
Reassign ==
    /\ AtLoadingBay /\ facts.advance = "NO"
    /\ Moves([facts EXCEPT !.load = "OPEN", !.trip = "CANCELLED", !.papers = "NONE", !.lr = "NO"])
SubmitPaper ==
    /\ facts.load = "TRIP_CREATED" /\ facts.papers # "ALL"
    /\ \E p \in Papers \ {"NONE", facts.papers} : Moves([facts EXCEPT !.papers = p])
RejectPaper ==
    /\ facts.load = "TRIP_CREATED" /\ facts.papers # "NONE"
    /\ \E p \in Papers \ {"ALL", facts.papers} : Moves([facts EXCEPT !.papers = p])
IssueLr == facts.load = "TRIP_CREATED" /\ facts.lr = "NO" /\ Moves([facts EXCEPT !.lr = "YES"])
PayAdvance ==
    /\ facts.load = "TRIP_CREATED" /\ facts.advance = "NO" /\ DocsIn(facts)
    /\ Moves([facts EXCEPT !.advance = "YES"])
Depart  == AtLoadingBay /\ Moves([facts EXCEPT !.trip = "IN_TRANSIT"])
Deliver == facts.trip = "IN_TRANSIT" /\ Moves([facts EXCEPT !.trip = "DELIVERED"])
Receive == AtDoor /\ facts.pod \in {"PENDING", "ATTACHED"} /\ Moves([facts EXCEPT !.pod = "RECEIVED"])
Verify  == AtDoor /\ facts.pod = "RECEIVED" /\ Moves([facts EXCEPT !.pod = "VERIFIED"])
(* mutant: whatever became of the proof *)
ApproveAnyProof ==
    /\ AtDoor /\ facts.pod \notin {"PENDING", "APPROVED"} /\ Moves([facts EXCEPT !.pod = "APPROVED"])
Approve == AtDoor /\ facts.pod = "VERIFIED" /\ Moves([facts EXCEPT !.pod = "APPROVED"])
RejectPod ==
    /\ AtDoor /\ facts.pod \in {"RECEIVED", "VERIFIED"} /\ Moves([facts EXCEPT !.pod = "ATTACHED"])
(* On an approved proof, or a waiver; a billed trip closes with it. *)
PayBalance ==
    /\ AtDoor /\ facts.balance = "NO" /\ facts.pod # "FORFEITED"
    /\ \E s \in {facts.trip, "CLOSED"} : Moves([facts EXCEPT !.balance = "YES", !.trip = s])

HookedChange ==
    \/ Award \/ Cancel \/ Reassign \/ SubmitPaper \/ RejectPaper \/ IssueLr \/ PayAdvance
    \/ Depart \/ Deliver \/ Receive \/ Verify \/ Approve \/ RejectPod \/ PayBalance

(* Writers that do not tell the order: the award that an approval replays,  *)
(* the placement sweep, the draft of a receipt, the nightly forfeiture, and *)
(* the making and correcting of invoices.                                  *)
TagFailure ==
    /\ facts.load = "OPEN" \/ AtLoadingBay
    /\ facts.failed = "NO" /\ Moves([facts EXCEPT !.failed = "YES"])
Forfeit ==
    /\ AtDoor /\ facts.pod # "FORFEITED"
    /\ Moves([facts EXCEPT !.pod = "FORFEITED", !.trip = "CLOSED"])
PutOnInvoice ==
    /\ facts.trip \in {"IN_TRANSIT", "DELIVERED", "CLOSED"}
    /\ \E i \in (Invoices \cup {None}) \ {facts.invoice} : Moves([facts EXCEPT !.invoice = i])
SilentChange == Award \/ TagFailure \/ IssueLr \/ Forfeit \/ PutOnInvoice

RaiseLoad(r) ==
    /\ Idle(r) /\ Raise
    /\ job' = Overtaking(r, Begun("OPEN", "AGAIN"))
    /\ UNCHANGED <<order, last, slips>>

Hooked(r) ==
    /\ Idle(r) /\ HookedChange
    /\ job' = Overtaking(r, Begun("SYNC", "LOAD"))
    /\ UNCHANGED <<order, last, slips>>

(* A handler that told the order although none of these facts changed. *)
Refresh(r) == Idle(r) /\ facts.load # "NONE" /\ Goes(r, Begun("SYNC", "LOAD"))

Silent ==
    /\ SilentChange
    /\ job' = [x \in Jobs |-> [job[x] EXCEPT !.alone = "NO"]]
    /\ slips' = slips \cup {"SILENT"}
    /\ UNCHANGED <<order, last>>

-----------------------------------------------------------------------------
(* recompute: ladderInputs, one statement at a time *)

At(r, stage) == job[r].at = stage
Reads(r, next, g) == Goes(r, [job[r] EXCEPT !.at = next, !.got = g])

ReadLoad(r) ==
    /\ At(r, "LOAD")
    /\ Reads(r, "TRIP", [job[r].got EXCEPT !.load = facts.load, !.failed = facts.failed])

(* The trip with its lorry receipt; without one there is nothing more to read. *)
ReadTrip(r) ==
    /\ At(r, "TRIP")
    /\ Reads(r, IF HasTrip(facts) THEN "PAPERS" ELSE "ORDER",
             [facts EXCEPT !.load = job[r].got.load, !.failed = job[r].got.failed,
                           !.papers = "NONE", !.invoice = None])

ReadPapers(r) ==
    /\ At(r, "PAPERS")
    /\ Reads(r, "INVOICE", [job[r].got EXCEPT !.papers = facts.papers])

ReadInvoice(r) ==
    /\ At(r, "INVOICE")
    /\ Reads(r, "ORDER", [job[r].got EXCEPT !.invoice = facts.invoice])

GetOrder(r) ==
    /\ At(r, "ORDER")
    /\ Goes(r, IF order.exists = "YES" THEN [job[r] EXCEPT !.at = "WRITE", !.seen = order]
               ELSE [job[r] EXCEPT !.at = "AGAIN"])

-----------------------------------------------------------------------------
(* createForIndent *)

Created(row) ==
    CASE row.does = "OPEN"   -> Quiet
      [] row.does = "SYNC"   -> [row EXCEPT !.at = "WRITE"]
      [] row.does = "REPAIR" -> [row EXCEPT !.at = "LOAD", !.does = "SYNC"]

LookAgain(r) ==
    /\ At(r, "AGAIN")
    /\ Goes(r, IF order.exists = "YES" THEN Created([job[r] EXCEPT !.seen = order])
               ELSE [job[r] EXCEPT !.at = "INSERT"])

(* orders.indent_id is unique: the second insert fails, and the recompute with it. *)
Insert(r) ==
    /\ At(r, "INSERT") /\ order.exists = "NO"
    /\ order' = NewOrder /\ Writes(r, [job[r] EXCEPT !.at = "REREAD"])
    /\ UNCHANGED last

Reread(r) == At(r, "REREAD") /\ Goes(r, [job[r] EXCEPT !.at = "FIRST", !.seen = order])

FirstEvent(r) ==
    /\ At(r, "FIRST")
    /\ last' = "INDENT_CREATED" /\ Writes(r, Created(job[r]))
    /\ UNCHANGED order

-----------------------------------------------------------------------------
(* recompute: the writes *)

(* mutant: only a new status is worth writing *)
DiffersInStatus(row) == row.seen.status # StepOf(row.got)

(* A row without a trip holds null where the facts hold undefined, so that  *)
(* before the trip every recompute writes.                                 *)
Differs(row) ==
    \/ row.seen.status # StepOf(row.got)
    \/ ~HasTrip(row.got) \/ row.seen.trip # "YES"
    \/ row.seen.invoice # row.got.invoice

(* By the order's id, whatever has become of the row since. *)
WriteStatus(r) ==
    LET next == [job[r] EXCEPT !.at = "LAST"] IN
    /\ At(r, "WRITE")
    /\ \/ Differs(job[r]) /\ order' = RowOf(job[r].got) /\ Writes(r, next) /\ UNCHANGED last
       \/ ~Differs(job[r]) /\ Goes(r, next)

LastEvent(r) ==
    /\ At(r, "LAST")
    /\ \/ last # StepOf(job[r].got) /\ Goes(r, [job[r] EXCEPT !.at = "APPEND"])
       \/ /\ last = StepOf(job[r].got)
          /\ job' = [job EXCEPT ![r] = Quiet]
          /\ slips' = IF Settles(r) THEN {} ELSE slips
          /\ UNCHANGED <<facts, order, last, changes>>

AppendEvent(r) ==
    /\ At(r, "APPEND")
    /\ last' = StepOf(job[r].got)
    /\ job' = Overtaking(r, Quiet)
    /\ slips' = IF Settles(r) THEN {} ELSE slips \cup {"OVERTAKEN"}
    /\ UNCHANGED <<facts, order, changes>>

(* The statement fails or the process stops; the handler logs it at most. *)
Lost(r) ==
    /\ ~Idle(r)
    /\ job' = [job EXCEPT ![r] = Quiet]
    /\ slips' = IF Alone(r) THEN slips \cup {"LOST"} ELSE slips
    /\ UNCHANGED <<facts, order, last, changes>>

(* The repair that somebody with the permission starts. *)
Stale ==
    /\ order.exists = "YES"
    /\ \/ last = None
       \/ order.status = "INDENT_CREATED" /\ facts.load \in {"TRIP_CREATED", "CANCELLED"}
Reconcile(r) ==
    /\ Idle(r) /\ facts.load # "NONE"
    /\ \/ order.exists = "NO" /\ Goes(r, Begun("REPAIR", "AGAIN"))
       \/ Stale /\ Goes(r, Begun("SYNC", "LOAD"))

Recompute(r) ==
    \/ ReadLoad(r) \/ ReadTrip(r) \/ ReadPapers(r) \/ ReadInvoice(r) \/ GetOrder(r)
    \/ LookAgain(r) \/ Insert(r) \/ Reread(r) \/ FirstEvent(r)
    \/ WriteStatus(r) \/ LastEvent(r) \/ AppendEvent(r)

Next ==
    \/ Silent
    \/ \E r \in Jobs : RaiseLoad(r) \/ Hooked(r) \/ Refresh(r) \/ Reconcile(r) \/ Recompute(r) \/ Lost(r)

Spec == Init /\ [][Next]_vars

-----------------------------------------------------------------------------
(* Properties *)

TypeOK ==
    /\ facts \in Facts
    /\ order \in OrderRow
    /\ last \in Status \cup {None}
    /\ job \in [Jobs -> JobRow]
    /\ slips \subseteq {"SILENT", "OVERTAKEN", "LOST"}
    /\ changes \in 0..MaxChanges

(* What the order should show, said without the ladder: the ends the load   *)
(* can come to, or else the furthest step whose evidence is there.         *)
Delivered(f) == f.trip \in {"DELIVERED", "CLOSED"}
Evidence(f, i) ==
    \/ i = 1
    \/ /\ f.load = "TRIP_CREATED"
       /\ \/ i = 2
          \/ i = 3 /\ f.lr = "YES"
          \/ i = 4 /\ DocsIn(f)
          \/ i = 5 /\ f.advance = "YES"
    \/ i = 6 /\ (f.trip = "IN_TRANSIT" \/ Delivered(f))
    \/ /\ Delivered(f)
       /\ \/ i = 7
          \/ i = 8 /\ f.pod \in {"ATTACHED", "RECEIVED", "VERIFIED", "APPROVED"}
          \/ i = 9 /\ f.pod \in {"VERIFIED", "APPROVED"}
          \/ i = 10 /\ f.pod \in {"VERIFIED", "APPROVED"} /\ f.balance = "YES"
Ended(f) ==
    \/ f.load = "CANCELLED" \/ f.pod = "FORFEITED"
    \/ f.load = "OPEN" /\ f.failed = "YES"
Meant(f) ==
    {s \in Status :
        /\ s = "CANCELLED" <=> f.load = "CANCELLED"
        /\ s = "POD_FORFEITED" <=> f.pod = "FORFEITED"
        /\ s = "FAILED" <=> f.load = "OPEN" /\ f.failed = "YES"
        /\ ~Ended(f) => \E i \in 1..10 : /\ s = Ladder[i] /\ Evidence(f, i)
                                         /\ \A k \in (i + 1)..10 : ~Evidence(f, k)}

(* A raised load has its one order, and once no recompute is in flight, none *)
(* was lost, none was overtaken by another or by a change, and no writer    *)
(* kept its change to itself, the order shows the furthest step the records *)
(* bear out, with the trip and the live invoice, is closed exactly when it   *)
(* has come to an end, and its history ends on the step it is on.  One       *)
(* recompute left alone brings it there from wherever it was.               *)
InStep ==
    slips = {} /\ (\A r \in Jobs : Idle(r)) /\ facts.load # "NONE" =>
        /\ order.exists = "YES" /\ order.status \in Meant(facts)
        /\ order.trip = Linked(facts) /\ order.invoice = facts.invoice
        /\ order.closed = "YES" <=> order.status \in {"BALANCE_RELEASED", "POD_FORFEITED", "CANCELLED"}
        /\ last = order.status

(* A closed order is open again only because its proof, paid under a waiver *)
(* before it was approved, was sent back, or because a recompute that had    *)
(* read older records wrote after a newer one.                              *)
ReopenedForCause ==
    [][order.closed = "YES" /\ order.closed' = "NO" =>
          "OVERTAKEN" \in slips' \/ facts.pod \in {"ATTACHED", "RECEIVED"}]_vars

-----------------------------------------------------------------------------
(* What the repository also says and the code does not do; no run checks   *)
(* these: see README, Deviations without a run.                            *)

(* What a failed recompute leaves behind, the repair finds: "reconcile()     *)
(* repairs anything missed here" (trips.service.ts, above syncOrder).       *)
RepairReaches ==
    /\ slips = {"LOST"} /\ (\A r \in Jobs : Idle(r)) /\ facts.load # "NONE"
    /\ order.exists = "YES" /\ order.status # StepOf(facts)
    => Stale
=============================================================================
