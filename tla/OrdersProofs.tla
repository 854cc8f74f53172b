---------------------------- MODULE OrdersProofs ----------------------------
(***************************************************************************)
(* Proofs about Orders: type correctness, that the order is in step unless *)
(* something slipped, and what reopens a closed order.                     *)
(***************************************************************************)
EXTENDS Orders, TLAPS

(* The row that is there is closed when its status says so. *)
OrderInv ==
    /\ order.exists = "NO" => order = NoOrder
    /\ order.exists = "YES" => order.closed = Closing(order.status)
    /\ facts.load = "NONE" => order = NoOrder

(* What a recompute that nothing disturbed has read is what there is.       *)
AloneInv(r) == Alone(r) =>
    /\ ~Idle(r)
    /\ At(r, "TRIP") => job[r].got.load = facts.load /\ job[r].got.failed = facts.failed
    /\ At(r, "PAPERS") => HasTrip(facts) /\ job[r].got = [facts EXCEPT !.papers = "NONE", !.invoice = None]
    /\ At(r, "INVOICE") => job[r].got = [facts EXCEPT !.invoice = None]
    /\ At(r, "ORDER") => job[r].got = facts
    /\ job[r].at \in {"AGAIN", "INSERT", "REREAD", "FIRST"} /\ job[r].does = "SYNC" => job[r].got = facts
    /\ job[r].does = "OPEN" => facts = NewLoad
    /\ At(r, "AGAIN") /\ job[r].does = "OPEN" => order.exists = "NO"
    /\ At(r, "INSERT") => order.exists = "NO"
    /\ job[r].at \in {"REREAD", "FIRST"} => order = NewOrder
    /\ At(r, "FIRST") => job[r].seen = order
    /\ At(r, "WRITE") => job[r].got = facts /\ job[r].seen = order /\ order.exists = "YES"
    /\ job[r].at \in {"LAST", "APPEND"} => job[r].got = facts /\ order = RowOf(facts)

(* Which stages belong to which kind of recompute. *)
KindInv(r) ==
    /\ job[r].does \in {"OPEN", "REPAIR"} => job[r].at \in {"AGAIN", "INSERT", "REREAD", "FIRST"}
    /\ ~Idle(r) => facts.load # "NONE"

Matches == order = RowOf(facts) /\ last = StepOf(facts)
Attended == slips = {} /\ facts.load # "NONE" => Matches \/ \E r \in Jobs : Alone(r)

(* An end once reached, or read, is still there. *)
CancelKept(s)  == s = "CANCELLED" => facts.load = "CANCELLED"
ForfeitKept(s) == s = "POD_FORFEITED" => facts.pod = "FORFEITED"
PaidKept(s)    == s = "BALANCE_RELEASED" => facts.balance = "YES" /\ facts.pod # "PENDING"
EndKept(s)     == CancelKept(s) /\ ForfeitKept(s) /\ PaidKept(s)
ReadInv(r) ==
    LET g == job[r].got IN
    /\ g.load = "CANCELLED" => facts.load = "CANCELLED"
    /\ g.pod # "PENDING" => facts.pod # "PENDING"
    /\ g.pod = "FORFEITED" => facts.pod = "FORFEITED"
    /\ g.balance = "YES" => facts.balance = "YES"

IInv ==
    /\ TypeOK
    /\ Sound(facts)
    /\ OrderInv
    /\ \A r \in Jobs : AloneInv(r)
    /\ \A r \in Jobs : KindInv(r)
    /\ Attended
    /\ EndKept(order.status)
    /\ \A r \in Jobs : ReadInv(r)

-----------------------------------------------------------------------------
(* The ladder *)

LEMMA StatusMembers ==
    Status = {"INDENT_CREATED", "TRIP_GENERATED", "LR_ISSUED", "ADVANCE_DOCS_UPLOADED",
              "ADVANCE_PAID", "TRACKING", "UNLOADED", "POD_UPLOADED", "POD_VERIFIED",
              "BALANCE_RELEASED", "FAILED", "POD_FORFEITED", "CANCELLED"}
<1>1. Steps = {"INDENT_CREATED", "TRIP_GENERATED", "LR_ISSUED", "ADVANCE_DOCS_UPLOADED",
              "ADVANCE_PAID", "TRACKING", "UNLOADED", "POD_UPLOADED", "POD_VERIFIED",
              "BALANCE_RELEASED"}
  <2>1. 1..10 = {1, 2, 3, 4, 5, 6, 7, 8, 9, 10}
    OBVIOUS
  <2> QED  BY <2>1, SMT DEF Steps, Ladder
<1> QED  BY <1>1 DEF Status, Exits

(* The ladder answers for whatever it is asked. *)
LEMMA StepOfType ==
    ASSUME NEW f \in Facts
    PROVE  StepOf(f) \in Status
<1>1. AtLoading(f) \in Status
  BY StatusMembers DEF AtLoading, Facts, Bool, Papers
<1>2. AtProof(f) \in Status
  BY StatusMembers DEF AtProof, Facts, Bool, PodStatus
<1> QED  BY <1>1, <1>2, StatusMembers DEF StepOf, Facts, TripStage

(* It answers with the furthest step the records bear out. *)
LEMMA StepOfIsMeant ==
    ASSUME NEW f \in Facts, Sound(f), f.load # "NONE"
    PROVE  StepOf(f) \in Meant(f)
<1> DEFINE Is(i) == StepOf(f) = Ladder[i] /\ Evidence(f, i) /\ \A k \in (i + 1)..10 : ~Evidence(f, k)
<1>5. /\ Ladder[1] = "INDENT_CREATED" /\ Ladder[2] = "TRIP_GENERATED" /\ Ladder[3] = "LR_ISSUED"
      /\ Ladder[4] = "ADVANCE_DOCS_UPLOADED" /\ Ladder[5] = "ADVANCE_PAID" /\ Ladder[6] = "TRACKING"
      /\ Ladder[7] = "UNLOADED" /\ Ladder[8] = "POD_UPLOADED" /\ Ladder[9] = "POD_VERIFIED"
      /\ Ladder[10] = "BALANCE_RELEASED"
  BY DEF Ladder
<1>6. \A i \in 1..10 : \A k \in (i + 1)..10 : k \in {2, 3, 4, 5, 6, 7, 8, 9, 10} /\ k > i
  OBVIOUS
<1>2. StepOf(f) \in Status
  BY StepOfType
<1>3. /\ StepOf(f) = "CANCELLED" <=> f.load = "CANCELLED"
      /\ StepOf(f) = "POD_FORFEITED" <=> f.pod = "FORFEITED"
      /\ StepOf(f) = "FAILED" <=> f.load = "OPEN" /\ f.failed = "YES"
  BY DEF StepOf, Sound, Facts, Bool, TripStage, PodStatus, Papers, AtLoading, AtProof
<1>4. ASSUME ~Ended(f)
      PROVE  \E i \in 1..10 : Is(i)
  <2>1. CASE f.load = "OPEN"
    <3>1. StepOf(f) = "INDENT_CREATED"
      BY <1>4, <2>1 DEF StepOf, Ended, Facts, Bool
    <3>2. Is(1)
      BY <1>5, <1>6, <2>1, <3>1 DEF Sound, Evidence, Delivered
    <3> QED  BY <3>2
  <2>2. CASE f.load = "TRIP_CREATED" /\ f.trip = "OPEN"
    <3>2. StepOf(f) = AtLoading(f)
      BY <2>2 DEF StepOf
    <3>3. CASE f.advance = "YES"
      <4>1. Is(5)
        BY <1>5, <1>6, <2>2, <3>2, <3>3 DEF AtLoading, Evidence, Delivered
      <4> QED  BY <4>1
    <3>4. CASE f.advance = "NO" /\ DocsIn(f)
      <4>1. Is(4)
        BY <1>5, <1>6, <2>2, <3>2, <3>4 DEF AtLoading, Evidence, Delivered
      <4> QED  BY <4>1
    <3>5. CASE f.advance = "NO" /\ ~DocsIn(f) /\ f.lr = "YES"
      <4>1. Is(3)
        BY <1>5, <1>6, <2>2, <3>2, <3>5 DEF AtLoading, Evidence, Delivered
      <4> QED  BY <4>1
    <3>6. CASE f.advance = "NO" /\ ~DocsIn(f) /\ f.lr = "NO"
      <4>1. Is(2)
        BY <1>5, <1>6, <2>2, <3>2, <3>6 DEF AtLoading, Evidence, Delivered
      <4> QED  BY <4>1
    <3> QED  BY <3>3, <3>4, <3>5, <3>6 DEF Facts, Bool
  <2>3. CASE f.load = "TRIP_CREATED" /\ f.trip = "IN_TRANSIT"
    <3>1. Is(6)
      BY <1>5, <1>6, <2>3 DEF StepOf, Evidence, Delivered
    <3> QED  BY <3>1
  <2>4. CASE f.load = "TRIP_CREATED" /\ f.trip \in {"DELIVERED", "CLOSED"}
    <3>1. StepOf(f) = AtProof(f)
      BY <2>4 DEF StepOf
    <3>2. CASE f.pod = "PENDING"
      <4>1. Is(7)
        BY <1>5, <1>6, <2>4, <3>1, <3>2 DEF AtProof, Evidence, Delivered
      <4> QED  BY <4>1
    <3>3. CASE f.pod \in {"ATTACHED", "RECEIVED"}
      <4>1. Is(8)
        BY <1>5, <1>6, <2>4, <3>1, <3>3 DEF AtProof, Evidence, Delivered
      <4> QED  BY <4>1
    <3>4. CASE f.pod \in {"VERIFIED", "APPROVED"} /\ f.balance = "NO"
      <4>1. Is(9)
        BY <1>5, <1>6, <2>4, <3>1, <3>4 DEF AtProof, Evidence, Delivered
      <4> QED  BY <4>1
    <3>5. CASE f.pod \in {"VERIFIED", "APPROVED"} /\ f.balance = "YES"
      <4>1. Is(10)
        BY <1>5, <1>6, <2>4, <3>1, <3>5 DEF AtProof, Evidence, Delivered
      <4> QED  BY <4>1
    <3> QED  BY <1>4, <3>2, <3>3, <3>4, <3>5 DEF Facts, Bool, PodStatus, Sound, Ended
  <2> QED  BY <1>4, <2>1, <2>2, <2>3, <2>4 DEF Facts, TripStage, Sound, Ended
<1> QED  BY <1>2, <1>3, <1>4 DEF Meant

-----------------------------------------------------------------------------
(* The facts *)

Change == Raise \/ HookedChange \/ SilentChange

(* A forfeiture, field by field. *)
LEMMA ClosingTheProof ==
    ASSUME NEW f \in Facts, NEW g, g = [f EXCEPT !.pod = "FORFEITED", !.trip = "CLOSED"]
    PROVE  /\ g \in Facts /\ g.pod = "FORFEITED" /\ g.trip = "CLOSED"
           /\ g.load = f.load /\ g.balance = f.balance
<1>1. \A h \in Facts : [h EXCEPT !.pod = "FORFEITED"] \in Facts
  BY DEF Facts, PodStatus
<1>2. \A h \in Facts : [h EXCEPT !.trip = "CLOSED"] \in Facts
  BY DEF Facts, TripStage
<1>3. g \in Facts
  BY <1>1, <1>2
<1> QED  BY <1>3 DEF Facts

(* What no change takes back. *)
LEMMA FactsStep ==
    ASSUME facts \in Facts, Sound(facts), changes \in 0..MaxChanges, Change
    PROVE  /\ facts' \in Facts /\ Sound(facts') /\ facts'.load # "NONE"
           /\ changes' \in 0..MaxChanges
           /\ facts.load = "CANCELLED" => facts'.load = "CANCELLED"
           /\ facts.pod # "PENDING" => facts'.pod # "PENDING"
           /\ facts.pod = "FORFEITED" => facts'.pod = "FORFEITED"
           /\ facts.balance = "YES" => facts'.balance = "YES"
<1> USE MaxChangesAssumption DEF Moves, AtLoadingBay, AtDoor
<1>0. facts.load = "NONE" => facts.trip \in {"NONE", "CANCELLED"}
  BY DEF Sound
<1> USE DEF Facts, Bool, TripStage, PodStatus, Papers, Sound
<1>1. CASE Raise
  BY <1>1 DEF Raise, NewLoad
<1>2. CASE Award
  <2>0. facts' = [load |-> "TRIP_CREATED", failed |-> facts.failed, trip |-> "OPEN", pod |-> facts.pod,
                  advance |-> facts.advance, balance |-> facts.balance, lr |-> facts.lr,
                  papers |-> facts.papers, invoice |-> facts.invoice]
    BY <1>2 DEF Award
  <2>1. facts' \in Facts /\ changes' \in 0..MaxChanges
    BY <1>2, <2>0 DEF Award
  <2> QED  BY <1>2, <2>0, <2>1 DEF Award
<1>3. CASE Cancel
  <2> DEFINE x == IF HasTrip(facts) THEN "CANCELLED" ELSE facts.trip
  <2>0. facts' = [load |-> "CANCELLED", failed |-> facts.failed, trip |-> x, pod |-> facts.pod,
                  advance |-> facts.advance, balance |-> facts.balance, lr |-> facts.lr,
                  papers |-> facts.papers, invoice |-> facts.invoice]
    BY <1>3 DEF Cancel
  <2>1. x \in {"NONE", "CANCELLED"} /\ (x = "NONE" => facts.trip = "NONE")
    BY DEF HasTrip
  <2> HIDE DEF x
  <2>2. facts' \in Facts /\ changes' \in 0..MaxChanges
    BY <1>3, <2>0, <2>1 DEF Cancel
  <2>3. facts.pod = "PENDING" /\ facts.balance = "NO" /\ (facts.trip = "NONE" => facts.papers = "NONE" /\ facts.invoice = None)
    BY <1>3 DEF Cancel
  <2> QED  BY <2>0, <2>1, <2>2, <2>3
<1>4. CASE Reassign
  <2>0. facts' = [load |-> "OPEN", failed |-> facts.failed, trip |-> "CANCELLED", pod |-> facts.pod,
                  advance |-> facts.advance, balance |-> facts.balance, lr |-> "NO",
                  papers |-> "NONE", invoice |-> facts.invoice]
    BY <1>4 DEF Reassign
  <2>1. facts' \in Facts /\ changes' \in 0..MaxChanges
    BY <1>4, <2>0 DEF Reassign
  <2> QED  BY <1>4, <2>0, <2>1 DEF Reassign
<1>5. CASE SubmitPaper
  BY <1>5 DEF SubmitPaper
<1>6. CASE RejectPaper
  BY <1>6 DEF RejectPaper
<1>7. CASE IssueLr
  BY <1>7 DEF IssueLr
<1>8. CASE PayAdvance
  BY <1>8 DEF PayAdvance
<1>9. CASE Depart
  BY <1>9 DEF Depart
<1>10. CASE Deliver
  BY <1>10 DEF Deliver
<1>11. CASE Receive
  BY <1>11 DEF Receive
<1>12. CASE Verify
  BY <1>12 DEF Verify
<1>13. CASE Approve
  BY <1>13 DEF Approve
<1>14. CASE RejectPod
  BY <1>14 DEF RejectPod
<1>15. CASE PayBalance
  <2> PICK x \in {facts.trip, "CLOSED"} : Moves([facts EXCEPT !.balance = "YES", !.trip = x])
    BY <1>15 DEF PayBalance
  <2>0. facts' = [load |-> facts.load, failed |-> facts.failed, trip |-> x, pod |-> facts.pod,
                  advance |-> facts.advance, balance |-> "YES", lr |-> facts.lr,
                  papers |-> facts.papers, invoice |-> facts.invoice]
    OBVIOUS
  <2>1. facts' \in Facts /\ changes' \in 0..MaxChanges
    BY <1>15, <2>0 DEF PayBalance
  <2> QED  BY <1>15, <2>0, <2>1 DEF PayBalance
<1>16. CASE TagFailure
  BY <1>16 DEF TagFailure
<1>17. CASE Forfeit
  <2> HIDE DEF Facts, Bool, TripStage, PodStatus, Papers, Sound, Moves, AtLoadingBay, AtDoor
  <2>0. facts' = [facts EXCEPT !.pod = "FORFEITED", !.trip = "CLOSED"]
    BY <1>17 DEF Forfeit, Moves
  <2>1. /\ facts' \in Facts /\ facts'.pod = "FORFEITED" /\ facts'.trip = "CLOSED"
        /\ facts'.load = facts.load /\ facts'.balance = facts.balance
    BY <2>0, ClosingTheProof
  <2>2. changes' \in 0..MaxChanges /\ facts.load = "TRIP_CREATED"
    BY <1>17 DEF Forfeit, Moves, AtDoor
  <2> QED  BY <2>1, <2>2 DEF Sound
<1>18. CASE PutOnInvoice
  BY <1>18 DEF PutOnInvoice
<1> QED
  BY <1>1, <1>2, <1>3, <1>4, <1>5, <1>6, <1>7, <1>8, <1>9, <1>10, <1>11, <1>12, <1>13, <1>14,
     <1>15, <1>16, <1>17, <1>18 DEF Change, HookedChange, SilentChange

-----------------------------------------------------------------------------
(* Types *)

LEMMA RowOfType ==
    ASSUME NEW f \in Facts
    PROVE  RowOf(f) \in OrderRow
<1>1. StepOf(f) \in Status
  BY StepOfType
<1> QED  BY <1>1 DEF RowOf, OrderRow, Facts, Bool, Linked, Closing

LEMMA OvertakingType ==
    ASSUME job \in [Jobs -> JobRow], NEW r \in Jobs, NEW row \in JobRow
    PROVE  Overtaking(r, row) \in [Jobs -> JobRow]
  BY DEF Overtaking, JobRow, Bool

LEMMA RowTypes ==
    /\ NoOrder \in OrderRow /\ NewOrder \in OrderRow
    /\ NewLoad \in Facts /\ NoLoad \in Facts /\ Quiet \in JobRow
    /\ \A does \in {"SYNC", "OPEN", "REPAIR"}, at \in Stages : Begun(does, at) \in JobRow
    /\ \A row \in JobRow, at \in Stages : [row EXCEPT !.at = at] \in JobRow
    /\ \A row \in JobRow, at \in Stages, seen \in OrderRow :
           [row EXCEPT !.at = at, !.seen = seen] \in JobRow
    /\ \A row \in JobRow, seen \in OrderRow : [row EXCEPT !.seen = seen] \in JobRow
    /\ \A row \in JobRow : Created(row) \in JobRow
    /\ \A row \in JobRow : [row EXCEPT !.alone = "NO"] \in JobRow
    /\ \A row \in JobRow, at \in Stages, g \in Facts : [row EXCEPT !.at = at, !.got = g] \in JobRow
<1>1. NoOrder \in OrderRow /\ NewOrder \in OrderRow
  BY StatusMembers DEF NoOrder, NewOrder, OrderRow, Bool
<1>2. NewLoad \in Facts /\ NoLoad \in Facts
  BY DEF NewLoad, NoLoad, Facts, Bool, TripStage, PodStatus, Papers
<1>3. Quiet \in JobRow
  BY <1>1, <1>2 DEF Quiet, JobRow, Bool
<1>4. \A does \in {"SYNC", "OPEN", "REPAIR"}, at \in Stages : Begun(does, at) \in JobRow
  BY <1>3 DEF Begun, JobRow, Bool
<1>5. \A row \in JobRow, at \in Stages : [row EXCEPT !.at = at] \in JobRow
  BY DEF JobRow
<1>6. \A row \in JobRow, seen \in OrderRow : [row EXCEPT !.seen = seen] \in JobRow
  BY DEF JobRow
<1>7. \A row \in JobRow, at \in Stages, seen \in OrderRow :
           [row EXCEPT !.at = at, !.seen = seen] \in JobRow
  BY DEF JobRow
<1>8. \A row \in JobRow : Created(row) \in JobRow
  <2> TAKE row \in JobRow
  <2>1. "WRITE" \in Stages /\ "LOAD" \in Stages
    BY DEF Stages
  <2>2. row.does \in {"SYNC", "OPEN", "REPAIR"}
    BY DEF JobRow
  <2>3. [row EXCEPT !.at = "LOAD", !.does = "SYNC"] \in JobRow
    BY <2>1 DEF JobRow
  <2> QED  BY <1>3, <1>5, <2>1, <2>2, <2>3 DEF Created
<1>9. \A row \in JobRow : [row EXCEPT !.alone = "NO"] \in JobRow
  BY DEF JobRow, Bool
<1>10. \A row \in JobRow, at \in Stages, g \in Facts : [row EXCEPT !.at = at, !.got = g] \in JobRow
  BY DEF JobRow
<1> QED  BY <1>1, <1>2, <1>3, <1>4, <1>5, <1>6, <1>7, <1>8, <1>9, <1>10

(* What a recompute has read so far, filled in. *)
LEMMA GotTypes ==
    ASSUME NEW g \in Facts, NEW f \in Facts
    PROVE  /\ [g EXCEPT !.load = f.load, !.failed = f.failed] \in Facts
           /\ [f EXCEPT !.load = g.load, !.failed = g.failed, !.papers = "NONE", !.invoice = None] \in Facts
           /\ [g EXCEPT !.papers = f.papers] \in Facts
           /\ [g EXCEPT !.invoice = f.invoice] \in Facts
<1>1. \A h \in Facts, x \in {"NONE", "OPEN", "TRIP_CREATED", "CANCELLED"} : [h EXCEPT !.load = x] \in Facts
  BY DEF Facts
<1>2. \A h \in Facts, x \in Bool : [h EXCEPT !.failed = x] \in Facts
  BY DEF Facts
<1>6. \A h \in Facts, x \in Papers : [h EXCEPT !.papers = x] \in Facts
  BY DEF Facts
<1>7. \A h \in Facts : [h EXCEPT !.invoice = None] \in Facts
  BY DEF Facts
<1>8. /\ f.load \in {"NONE", "OPEN", "TRIP_CREATED", "CANCELLED"} /\ f.failed \in Bool
      /\ g.load \in {"NONE", "OPEN", "TRIP_CREATED", "CANCELLED"} /\ g.failed \in Bool
      /\ "NONE" \in Papers
  BY DEF Facts, Papers
<1>3. [g EXCEPT !.papers = f.papers] \in Facts /\ [g EXCEPT !.invoice = f.invoice] \in Facts
  BY DEF Facts
<1>4. [g EXCEPT !.load = f.load, !.failed = f.failed] \in Facts
  BY <1>1, <1>2, <1>8
<1>5. [f EXCEPT !.load = g.load, !.failed = g.failed, !.papers = "NONE", !.invoice = None] \in Facts
  BY <1>1, <1>2, <1>6, <1>7, <1>8
<1> QED  BY <1>3, <1>4, <1>5

LEMMA TypeStep ==
    ASSUME TypeOK, Sound(facts), [Next]_vars
    PROVE  TypeOK'
<1> USE RowTypes DEF TypeOK
<1> DEFINE Jobs1 == job' \in [Jobs -> JobRow] /\ slips' \subseteq {"SILENT", "OVERTAKEN", "LOST"}
<1>0. Stages = {"LOAD", "TRIP", "PAPERS", "INVOICE", "ORDER", "AGAIN", "INSERT", "REREAD",
                "FIRST", "WRITE", "LAST", "APPEND"}
  BY DEF Stages
<1>g. ASSUME NEW r \in Jobs, NEW row \in JobRow, Goes(r, row)
      PROVE  TypeOK'
  BY <1>g DEF Goes
<1>w. ASSUME NEW r \in Jobs, NEW row \in JobRow, Writes(r, row),
             order' \in OrderRow, last' \in Status \cup {None}
      PROVE  TypeOK'
  <2>1. job' \in [Jobs -> JobRow]
    BY <1>w, OvertakingType DEF Writes
  <2> QED  BY <1>w, <2>1 DEF Writes
<1>1. CASE Silent
  <2>1. Change
    BY <1>1 DEF Silent, Change
  <2>2. facts' \in Facts /\ changes' \in 0..MaxChanges
    BY <2>1, FactsStep
  <2>3. job' \in [Jobs -> JobRow]
    BY <1>1 DEF Silent
  <2> QED  BY <1>1, <2>2, <2>3 DEF Silent
<1>2. ASSUME NEW r \in Jobs, RaiseLoad(r) \/ Hooked(r)
      PROVE  TypeOK'
  <2>1. Change
    BY <1>2 DEF RaiseLoad, Hooked, Change
  <2>2. facts' \in Facts /\ changes' \in 0..MaxChanges
    BY <2>1, FactsStep
  <2>3. Begun("OPEN", "AGAIN") \in JobRow /\ Begun("SYNC", "LOAD") \in JobRow
    BY <1>0
  <2>4. job' \in [Jobs -> JobRow]
    <3>1. job' = Overtaking(r, Begun("OPEN", "AGAIN")) \/ job' = Overtaking(r, Begun("SYNC", "LOAD"))
      BY <1>2 DEF RaiseLoad, Hooked
    <3>2. Overtaking(r, Begun("OPEN", "AGAIN")) \in [Jobs -> JobRow]
      BY <2>3, OvertakingType
    <3>3. Overtaking(r, Begun("SYNC", "LOAD")) \in [Jobs -> JobRow]
      BY <2>3, OvertakingType
    <3> QED  BY <3>1, <3>2, <3>3
  <2> QED  BY <1>2, <2>2, <2>4 DEF RaiseLoad, Hooked
<1>3. ASSUME NEW r \in Jobs, Refresh(r) \/ Reconcile(r)
      PROVE  TypeOK'
  BY <1>0, <1>3, <1>g DEF Refresh, Reconcile
<1>4. ASSUME NEW r \in Jobs, ReadLoad(r) \/ ReadTrip(r) \/ ReadPapers(r) \/ ReadInvoice(r)
      PROVE  TypeOK'
  <2>1. job[r].got \in Facts
    BY DEF JobRow
  <2>2. \E g \in Facts, at \in Stages : Reads(r, at, g)
    BY <1>0, <1>4, <2>1, GotTypes DEF ReadLoad, ReadTrip, ReadPapers, ReadInvoice
  <2> QED  BY <1>g, <2>2 DEF Reads
<1>8. ASSUME NEW r \in Jobs, GetOrder(r) \/ LookAgain(r) \/ Reread(r)
      PROVE  TypeOK'
  BY <1>0, <1>8, <1>g DEF GetOrder, LookAgain, Reread
<1>9. ASSUME NEW r \in Jobs, Insert(r) \/ FirstEvent(r)
      PROVE  TypeOK'
  BY <1>0, <1>9, <1>w, StatusMembers DEF Insert, FirstEvent
<1>10. ASSUME NEW r \in Jobs, WriteStatus(r)
      PROVE  TypeOK'
  <2>1. RowOf(job[r].got) \in OrderRow
    BY RowOfType DEF JobRow
  <2> QED  BY <1>0, <1>10, <1>w, <1>g, <2>1 DEF WriteStatus
<1>11. ASSUME NEW r \in Jobs, LastEvent(r)
      PROVE  TypeOK'
  BY <1>0, <1>11, <1>g DEF LastEvent
<1>12. ASSUME NEW r \in Jobs, AppendEvent(r)
      PROVE  TypeOK'
  <2>1. StepOf(job[r].got) \in Status
    BY StepOfType DEF JobRow
  <2> QED  BY <1>12, <2>1, OvertakingType DEF AppendEvent
<1>13. ASSUME NEW r \in Jobs, Lost(r)
      PROVE  TypeOK'
  BY <1>13 DEF Lost
<1>14. CASE UNCHANGED vars
  BY <1>14 DEF vars
<1> QED
  BY <1>1, <1>2, <1>3, <1>4, <1>8, <1>9, <1>10, <1>11, <1>12, <1>13, <1>14
     DEF Next, Recompute

-----------------------------------------------------------------------------
(* The invariant, conjunct by conjunct *)

(* The steps, by what they do to the recomputes. *)
LEMMA Shapes ==
    ASSUME IInv, [Next]_vars
    PROVE  \/ UNCHANGED vars
           \/ /\ Change /\ UNCHANGED <<order, last>>
              /\ \A x \in Jobs : \/ job'[x] = [job[x] EXCEPT !.alone = "NO"]
                                 \/ job'[x] = Begun("SYNC", "LOAD")
                                 \/ Raise /\ job'[x] = Begun("OPEN", "AGAIN")
           \/ facts' = facts /\ \E r \in Jobs :
                Refresh(r) \/ Reconcile(r) \/ Recompute(r) \/ Lost(r)
<1> USE DEF IInv, TypeOK
<1>1. CASE Silent
  BY <1>1 DEF Silent, Change
<1>2. ASSUME NEW r \in Jobs, RaiseLoad(r)
      PROVE  /\ Change /\ UNCHANGED <<order, last>>
             /\ \A x \in Jobs : \/ job'[x] = [job[x] EXCEPT !.alone = "NO"]
                                \/ Raise /\ job'[x] = Begun("OPEN", "AGAIN")
  BY <1>2 DEF RaiseLoad, Change, Overtaking
<1>3. ASSUME NEW r \in Jobs, Hooked(r)
      PROVE  /\ Change /\ UNCHANGED <<order, last>>
             /\ \A x \in Jobs : \/ job'[x] = [job[x] EXCEPT !.alone = "NO"]
                                \/ job'[x] = Begun("SYNC", "LOAD")
  BY <1>3 DEF Hooked, Change, Overtaking
<1>4. ASSUME NEW r \in Jobs, Refresh(r) \/ Reconcile(r) \/ Recompute(r) \/ Lost(r)
      PROVE  facts' = facts
  BY <1>4 DEF Refresh, Reconcile, Recompute, Lost, Goes, Reads, Writes, ReadLoad, ReadTrip, ReadPapers,
              ReadInvoice, GetOrder, LookAgain, Insert, Reread, FirstEvent, WriteStatus, LastEvent,
              AppendEvent
<1> QED  BY <1>1, <1>2, <1>3, <1>4 DEF Next

LEMMA Kept ==
    ASSUME IInv, [Next]_vars
    PROVE  /\ Sound(facts')
           /\ facts.load # "NONE" => facts'.load # "NONE"
           /\ facts.load = "CANCELLED" => facts'.load = "CANCELLED"
           /\ facts.pod # "PENDING" => facts'.pod # "PENDING"
           /\ facts.pod = "FORFEITED" => facts'.pod = "FORFEITED"
           /\ facts.balance = "YES" => facts'.balance = "YES"
<1>1. CASE UNCHANGED vars
  BY <1>1 DEF vars, IInv, Sound
<1>2. CASE Change
  BY <1>2, FactsStep DEF IInv, TypeOK
<1>3. CASE facts' = facts
  BY <1>3 DEF IInv, Sound
<1> QED  BY <1>1, <1>2, <1>3, Shapes

(* What can have happened to one recompute in a step of r. *)
LEMMA OthersStep ==
    ASSUME IInv, NEW r \in Jobs, NEW x \in Jobs, x # r,
           Refresh(r) \/ Reconcile(r) \/ Recompute(r) \/ Lost(r)
    PROVE  \/ job'[x] = [job[x] EXCEPT !.alone = "NO"]
           \/ job'[x] = job[x] /\ order' = order
<1> USE DEF IInv, TypeOK
<1>1. ASSUME NEW row, Goes(r, row)
      PROVE  job'[x] = job[x] /\ order' = order
  BY <1>1 DEF Goes
<1>2. ASSUME NEW row, job' = Overtaking(r, row)
      PROVE  job'[x] = [job[x] EXCEPT !.alone = "NO"]
  BY <1>2 DEF Overtaking
<1>3. CASE Refresh(r) \/ Reconcile(r)
  BY <1>1, <1>3 DEF Refresh, Reconcile
<1>4. CASE ReadLoad(r) \/ ReadTrip(r) \/ ReadPapers(r) \/ ReadInvoice(r) \/ GetOrder(r) \/ LookAgain(r) \/ Reread(r)
  BY <1>1, <1>4 DEF ReadLoad, ReadTrip, ReadPapers, ReadInvoice, Reads, GetOrder, LookAgain, Reread
<1>5. CASE Insert(r) \/ FirstEvent(r) \/ AppendEvent(r)
  BY <1>2, <1>5 DEF Insert, FirstEvent, AppendEvent, Writes
<1>6. CASE WriteStatus(r)
  BY <1>1, <1>2, <1>6 DEF WriteStatus, Writes
<1>7. CASE LastEvent(r) \/ Lost(r)
  BY <1>1, <1>7 DEF LastEvent, Lost
<1> QED  BY <1>3, <1>4, <1>5, <1>6, <1>7 DEF Recompute

LEMMA OrderStep ==
    ASSUME IInv, [Next]_vars
    PROVE  OrderInv'
<1> USE DEF IInv
<1>1. CASE UNCHANGED vars
  BY <1>1 DEF vars, OrderInv
<1>2. CASE Change /\ UNCHANGED order
  <2>1. facts'.load # "NONE"
    BY <1>2, FactsStep DEF TypeOK
  <2> QED  BY <1>2, <2>1 DEF OrderInv
<1>3. ASSUME facts' = facts, order' = order
      PROVE  OrderInv'
  BY <1>3 DEF OrderInv
<1>4. ASSUME facts' = facts, NEW r \in Jobs, Recompute(r)
      PROVE  OrderInv'
  <2>1. facts.load # "NONE"
    BY <1>4 DEF KindInv, Idle, Recompute, At, ReadLoad, ReadTrip, ReadPapers, ReadInvoice,
                GetOrder, LookAgain, Insert, Reread, FirstEvent, WriteStatus, LastEvent, AppendEvent
  <2>2. order' = order \/ Insert(r) \/ order' = RowOf(job[r].got)
    BY <1>4 DEF Recompute, Goes, Reads, Writes, ReadLoad, ReadTrip, ReadPapers, ReadInvoice,
                GetOrder, LookAgain, Reread, FirstEvent, WriteStatus, LastEvent, AppendEvent
  <2>3. CASE Insert(r)
    BY <1>4, <2>1, <2>3 DEF Insert, OrderInv, NewOrder, NoOrder, Closing, IsTerminal
  <2>4. CASE order' = RowOf(job[r].got)
    BY <1>4, <2>1, <2>4 DEF OrderInv, RowOf
  <2> QED  BY <1>3, <1>4, <2>2, <2>3, <2>4
<1>5. ASSUME NEW r \in Jobs, Refresh(r) \/ Reconcile(r) \/ Lost(r)
      PROVE  order' = order
  BY <1>5 DEF Refresh, Reconcile, Lost, Goes
<1> QED  BY <1>1, <1>2, <1>3, <1>4, <1>5, Shapes

(* What each step of a recompute leaves in its own row. *)
Keeps(x) == job'[x].does = job[x].does /\ job'[x].alone = job[x].alone
LEMMA Fields ==
    ASSUME NEW row \in JobRow, NEW a, NEW g, NEW o
    PROVE  /\ LET n == [row EXCEPT !.at = a, !.got = g] IN
                n.at = a /\ n.got = g /\ n.does = row.does /\ n.seen = row.seen /\ n.alone = row.alone
           /\ LET n == [row EXCEPT !.at = a] IN
                n.at = a /\ n.got = row.got /\ n.does = row.does /\ n.seen = row.seen /\ n.alone = row.alone
           /\ LET n == [row EXCEPT !.at = a, !.seen = o] IN
                n.at = a /\ n.got = row.got /\ n.does = row.does /\ n.seen = o /\ n.alone = row.alone
           /\ LET n == [row EXCEPT !.seen = o] IN
                n.at = row.at /\ n.got = row.got /\ n.does = row.does /\ n.seen = o /\ n.alone = row.alone
           /\ LET n == [row EXCEPT !.at = a, !.does = o] IN
                n.at = a /\ n.got = row.got /\ n.does = o /\ n.seen = row.seen /\ n.alone = row.alone
  BY DEF JobRow

LEMMA ReadEffects ==
    ASSUME job \in [Jobs -> JobRow], facts \in Facts, NEW x \in Jobs
    PROVE  /\ ReadLoad(x) =>
                /\ Keeps(x) /\ job[x].at = "LOAD" /\ job'[x].at = "TRIP"
                /\ job'[x].got.load = facts.load /\ job'[x].got.failed = facts.failed
                /\ job'[x].got = [job[x].got EXCEPT !.load = facts.load, !.failed = facts.failed]
           /\ ReadTrip(x) =>
                /\ Keeps(x) /\ job[x].at = "TRIP"
                /\ job'[x].at = IF HasTrip(facts) THEN "PAPERS" ELSE "ORDER"
                /\ job'[x].got = [facts EXCEPT !.load = job[x].got.load, !.failed = job[x].got.failed,
                                               !.papers = "NONE", !.invoice = None]
           /\ ReadPapers(x) =>
                /\ Keeps(x) /\ job[x].at = "PAPERS" /\ job'[x].at = "INVOICE"
                /\ job'[x].got = [job[x].got EXCEPT !.papers = facts.papers]
           /\ ReadInvoice(x) =>
                /\ Keeps(x) /\ job[x].at = "INVOICE" /\ job'[x].at = "ORDER"
                /\ job'[x].got = [job[x].got EXCEPT !.invoice = facts.invoice]
<1>1. job[x] \in JobRow
  OBVIOUS
<1>2. ASSUME NEW a, NEW g, Reads(x, a, g)
      PROVE  Keeps(x) /\ job'[x].at = a /\ job'[x].got = g
  <2>1. job'[x] = [job[x] EXCEPT !.at = a, !.got = g]
    BY <1>2 DEF Reads, Goes
  <2> QED  BY <1>1, <2>1, Fields DEF Keeps
<1>3. LET g == [job[x].got EXCEPT !.load = facts.load, !.failed = facts.failed] IN
        g.load = facts.load /\ g.failed = facts.failed
  <2>1. job[x].got \in Facts
    BY <1>1 DEF JobRow
  <2> QED  BY <2>1 DEF Facts
<1> QED  BY <1>2, <1>3 DEF ReadLoad, ReadTrip, ReadPapers, ReadInvoice, At

(* The rest: where each goes, and with what. *)
LEMMA WriteEffects ==
    ASSUME job \in [Jobs -> JobRow], order \in OrderRow, NEW x \in Jobs
    PROVE  /\ GetOrder(x) =>
                /\ Keeps(x) /\ job[x].at = "ORDER" /\ job'[x].got = job[x].got /\ order' = order
                /\ \/ order.exists = "YES" /\ job'[x].at = "WRITE" /\ job'[x].seen = order
                   \/ order.exists = "NO" /\ job'[x].at = "AGAIN"
           /\ LookAgain(x) =>
                /\ job[x].at = "AGAIN" /\ order' = order
                /\ \/ /\ order.exists = "NO" /\ Keeps(x) /\ job'[x].at = "INSERT" /\ job'[x].got = job[x].got
                   \/ order.exists = "YES" /\ job[x].does = "OPEN" /\ job'[x] = Quiet
                   \/ /\ order.exists = "YES" /\ job[x].does = "SYNC" /\ Keeps(x)
                      /\ job'[x].at = "WRITE" /\ job'[x].got = job[x].got /\ job'[x].seen = order
                   \/ /\ job[x].does = "REPAIR" /\ job'[x].at = "LOAD" /\ job'[x].does = "SYNC"
                      /\ job'[x].alone = job[x].alone
           /\ Insert(x) =>
                /\ Keeps(x) /\ job[x].at = "INSERT" /\ job'[x].at = "REREAD"
                /\ job'[x].got = job[x].got /\ order' = NewOrder
           /\ Reread(x) =>
                /\ Keeps(x) /\ job[x].at = "REREAD" /\ job'[x].at = "FIRST"
                /\ job'[x].got = job[x].got /\ job'[x].seen = order /\ order' = order
           /\ FirstEvent(x) =>
                /\ job[x].at = "FIRST" /\ order' = order
                /\ \/ job[x].does = "OPEN" /\ job'[x] = Quiet
                   \/ /\ job[x].does = "SYNC" /\ Keeps(x) /\ job'[x].at = "WRITE"
                      /\ job'[x].got = job[x].got /\ job'[x].seen = job[x].seen
                   \/ /\ job[x].does = "REPAIR" /\ job'[x].at = "LOAD" /\ job'[x].does = "SYNC"
                      /\ job'[x].alone = job[x].alone
           /\ WriteStatus(x) =>
                /\ Keeps(x) /\ job[x].at = "WRITE" /\ job'[x].at = "LAST" /\ job'[x].got = job[x].got
                /\ \/ Differs(job[x]) /\ order' = RowOf(job[x].got)
                   \/ ~Differs(job[x]) /\ order' = order
           /\ LastEvent(x) \/ AppendEvent(x) \/ Lost(x) =>
                /\ order' = order
                /\ \/ job'[x] = Quiet
                   \/ Keeps(x) /\ job[x].at = "LAST" /\ job'[x].at = "APPEND" /\ job'[x].got = job[x].got
<1> DEFINE row == job[x]
<1>1. row \in JobRow /\ row.does \in {"SYNC", "OPEN", "REPAIR"} /\ order.exists \in {"NO", "YES"}
  BY DEF JobRow, OrderRow, Bool
<1>2. ASSUME NEW n, Goes(x, n)
      PROVE  job'[x] = n /\ order' = order
  BY <1>2 DEF Goes
<1>3. ASSUME NEW n, job' = Overtaking(x, n)
      PROVE  job'[x] = n
  BY <1>3 DEF Overtaking
<1> HIDE DEF row
<1>4. ASSUME NEW w \in JobRow
      PROVE  \/ w.does = "OPEN" /\ Created(w) = Quiet
             \/ w.does = "SYNC" /\ Created(w) = [w EXCEPT !.at = "WRITE"]
             \/ w.does = "REPAIR" /\ Created(w) = [w EXCEPT !.at = "LOAD", !.does = "SYNC"]
  BY DEF Created, JobRow
<1>5. [row EXCEPT !.seen = order] \in JobRow
  BY <1>1 DEF JobRow
<1>6. /\ LET n == [row EXCEPT !.at = "WRITE", !.seen = order] IN
           /\ n.at = "WRITE" /\ n.seen = order
           /\ n.got = row.got /\ n.does = row.does /\ n.alone = row.alone
      /\ LET n == [row EXCEPT !.at = "FIRST", !.seen = order] IN
           /\ n.at = "FIRST" /\ n.seen = order
           /\ n.got = row.got /\ n.does = row.does /\ n.alone = row.alone
      /\ LET n == [row EXCEPT !.seen = order] IN
           n.seen = order /\ n.got = row.got /\ n.does = row.does /\ n.alone = row.alone
      /\ LET n == [row EXCEPT !.at = "AGAIN"] IN
           n.at = "AGAIN" /\ n.got = row.got /\ n.does = row.does /\ n.alone = row.alone
      /\ LET n == [row EXCEPT !.at = "INSERT"] IN
           n.at = "INSERT" /\ n.got = row.got /\ n.does = row.does /\ n.alone = row.alone
      /\ LET n == [row EXCEPT !.at = "REREAD"] IN
           n.at = "REREAD" /\ n.got = row.got /\ n.does = row.does /\ n.alone = row.alone
  BY <1>1 DEF JobRow
<1>7. ASSUME NEW w \in JobRow
      PROVE  /\ w.does = "OPEN" => Created(w) = Quiet
             /\ w.does = "SYNC" => /\ Created(w).at = "WRITE" /\ Created(w).got = w.got /\ Created(w).does = w.does
                                   /\ Created(w).seen = w.seen /\ Created(w).alone = w.alone
             /\ w.does = "REPAIR" => /\ Created(w).at = "LOAD" /\ Created(w).does = "SYNC"
                                     /\ Created(w).alone = w.alone
  BY <1>4 DEF JobRow
<1>10. GetOrder(x) => \/ order.exists = "YES" /\ Goes(x, [row EXCEPT !.at = "WRITE", !.seen = order])
                      \/ order.exists = "NO" /\ Goes(x, [row EXCEPT !.at = "AGAIN"])
  BY <1>1 DEF GetOrder, row
<1>11. LookAgain(x) => \/ order.exists = "YES" /\ Goes(x, Created([row EXCEPT !.seen = order]))
                       \/ order.exists = "NO" /\ Goes(x, [row EXCEPT !.at = "INSERT"])
  BY <1>1 DEF LookAgain, row
<1>12. Insert(x) => order' = NewOrder /\ job' = Overtaking(x, [row EXCEPT !.at = "REREAD"])
  BY DEF Insert, Writes, row
<1>13. Reread(x) => Goes(x, [row EXCEPT !.at = "FIRST", !.seen = order])
  BY DEF Reread, row
<1>14. FirstEvent(x) => order' = order /\ job' = Overtaking(x, Created(row))
  BY DEF FirstEvent, Writes, row
<1>15. WriteStatus(x) =>
          \/ /\ Differs(row) /\ order' = RowOf(row.got)
             /\ job' = Overtaking(x, [row EXCEPT !.at = "LAST"])
          \/ ~Differs(row) /\ Goes(x, [row EXCEPT !.at = "LAST"])
  BY DEF WriteStatus, Writes, row
<1>16. LastEvent(x) \/ AppendEvent(x) \/ Lost(x) =>
          /\ order' = order
          /\ job'[x] = Quiet \/ (job[x].at = "LAST" /\ Goes(x, [row EXCEPT !.at = "APPEND"]))
  BY DEF LastEvent, AppendEvent, Lost, Overtaking, Goes, At, row
<1>20. ASSUME GetOrder(x)
       PROVE  /\ Keeps(x) /\ job[x].at = "ORDER" /\ job'[x].got = job[x].got /\ order' = order
              /\ \/ order.exists = "YES" /\ job'[x].at = "WRITE" /\ job'[x].seen = order
                 \/ order.exists = "NO" /\ job'[x].at = "AGAIN"
  BY <1>2, <1>6, <1>10, <1>20 DEF Keeps, GetOrder, At, row
<1>21. ASSUME LookAgain(x)
       PROVE  /\ job[x].at = "AGAIN" /\ order' = order
              /\ \/ /\ order.exists = "NO" /\ Keeps(x) /\ job'[x].at = "INSERT" /\ job'[x].got = job[x].got
                 \/ order.exists = "YES" /\ job[x].does = "OPEN" /\ job'[x] = Quiet
                 \/ /\ order.exists = "YES" /\ job[x].does = "SYNC" /\ Keeps(x)
                    /\ job'[x].at = "WRITE" /\ job'[x].got = job[x].got /\ job'[x].seen = order
                 \/ /\ job[x].does = "REPAIR" /\ job'[x].at = "LOAD" /\ job'[x].does = "SYNC"
                    /\ job'[x].alone = job[x].alone
  <2> DEFINE w == [row EXCEPT !.seen = order]
  <2>1. w \in JobRow /\ w.seen = order /\ w.got = row.got /\ w.does = row.does /\ w.alone = row.alone
    BY <1>5, <1>6
  <2> HIDE DEF w
  <2>2. CASE order.exists = "NO"
    <3>1. job'[x] = [row EXCEPT !.at = "INSERT"] /\ order' = order
      BY <1>2, <1>11, <1>21, <2>2
    <3> QED  BY <1>6, <1>21, <2>2, <3>1 DEF Keeps, LookAgain, At, row
  <2>3. CASE order.exists = "YES"
    <3>1. job'[x] = Created(w) /\ order' = order
      BY <1>2, <1>11, <1>21, <2>3 DEF w
    <3> QED  BY <1>1, <1>7, <1>21, <2>1, <2>3, <3>1 DEF Keeps, LookAgain, At, row
  <2> QED  BY <1>1, <2>2, <2>3
<1>22. ASSUME Insert(x) \/ Reread(x) \/ FirstEvent(x)
       PROVE  /\ Insert(x) =>
                   /\ Keeps(x) /\ job[x].at = "INSERT" /\ job'[x].at = "REREAD"
                   /\ job'[x].got = job[x].got /\ order' = NewOrder
              /\ Reread(x) =>
                   /\ Keeps(x) /\ job[x].at = "REREAD" /\ job'[x].at = "FIRST"
                   /\ job'[x].got = job[x].got /\ job'[x].seen = order /\ order' = order
  BY <1>2, <1>3, <1>6, <1>12, <1>13 DEF Keeps, Insert, Reread, At, row
<1>23. ASSUME FirstEvent(x)
       PROVE  /\ job[x].at = "FIRST" /\ order' = order
              /\ \/ job[x].does = "OPEN" /\ job'[x] = Quiet
                 \/ /\ job[x].does = "SYNC" /\ Keeps(x) /\ job'[x].at = "WRITE"
                    /\ job'[x].got = job[x].got /\ job'[x].seen = job[x].seen
                 \/ /\ job[x].does = "REPAIR" /\ job'[x].at = "LOAD" /\ job'[x].does = "SYNC"
                    /\ job'[x].alone = job[x].alone
  BY <1>1, <1>3, <1>7, <1>14, <1>23 DEF Keeps, FirstEvent, At, row
<1>24. ASSUME WriteStatus(x)
       PROVE  /\ Keeps(x) /\ job[x].at = "WRITE" /\ job'[x].at = "LAST" /\ job'[x].got = job[x].got
              /\ \/ Differs(job[x]) /\ order' = RowOf(job[x].got)
                 \/ ~Differs(job[x]) /\ order' = order
  BY <1>1, <1>2, <1>3, <1>15, <1>24 DEF JobRow, Keeps, WriteStatus, At, row
<1>25. ASSUME LastEvent(x) \/ AppendEvent(x) \/ Lost(x)
       PROVE  /\ order' = order
              /\ \/ job'[x] = Quiet
                 \/ Keeps(x) /\ job[x].at = "LAST" /\ job'[x].at = "APPEND" /\ job'[x].got = job[x].got
  BY <1>1, <1>2, <1>16, <1>25 DEF JobRow, Keeps, row
<1> QED  BY <1>20, <1>21, <1>22, <1>23, <1>24, <1>25

LEMMA KindStep ==
    ASSUME IInv, [Next]_vars, NEW x \in Jobs
    PROVE  KindInv(x)'
<1> USE DEF IInv, TypeOK, KindInv, Idle
<1>1. CASE UNCHANGED vars
  BY <1>1 DEF vars
<1>2. ASSUME Change, \/ job'[x] = [job[x] EXCEPT !.alone = "NO"]
                     \/ job'[x] = Begun("SYNC", "LOAD")
                     \/ Raise /\ job'[x] = Begun("OPEN", "AGAIN")
      PROVE  KindInv(x)'
  <2>1. facts'.load # "NONE"
    BY <1>2, FactsStep
  <2> QED  BY <1>2, <2>1 DEF Begun, Quiet, JobRow
<1>3. ASSUME facts' = facts, NEW r \in Jobs, x # r, Refresh(r) \/ Reconcile(r) \/ Recompute(r) \/ Lost(r)
      PROVE  KindInv(x)'
  <2>1. job'[x].at = job[x].at /\ job'[x].does = job[x].does
    BY <1>3, OthersStep DEF JobRow
  <2> QED  BY <1>3, <2>1
<1>4. ASSUME facts' = facts, Refresh(x) \/ Reconcile(x)
      PROVE  KindInv(x)'
  BY <1>4 DEF Refresh, Reconcile, Goes, Begun, Quiet
<1>5. ASSUME facts' = facts, Recompute(x) \/ Lost(x)
      PROVE  KindInv(x)'
  <2>2. KindInv(x)
    OBVIOUS
  <2>3. CASE ReadLoad(x) \/ ReadTrip(x) \/ ReadPapers(x) \/ ReadInvoice(x)
    BY <1>5, <2>2, <2>3, ReadEffects DEF Keeps
  <2>4. CASE GetOrder(x) \/ LookAgain(x) \/ Insert(x) \/ Reread(x) \/ FirstEvent(x) \/ WriteStatus(x)
    BY <1>5, <2>2, <2>4, WriteEffects DEF Keeps, Quiet
  <2>5. CASE LastEvent(x) \/ AppendEvent(x) \/ Lost(x)
    BY <1>5, <2>2, <2>5, WriteEffects DEF Keeps, Quiet
  <2> QED  BY <1>5, <2>3, <2>4, <2>5 DEF Recompute
<1> QED  BY <1>1, <1>2, <1>3, <1>4, <1>5, Shapes

(* A recompute that is still alone has read what there is. *)
LEMMA AloneStep ==
    ASSUME IInv, [Next]_vars, NEW x \in Jobs
    PROVE  AloneInv(x)'
<1> USE DEF Alone, Idle, At
<1>0. /\ job[x].got \in Facts /\ job[x] \in JobRow /\ facts \in Facts /\ order \in OrderRow
      /\ job \in [Jobs -> JobRow] /\ AloneInv(x) /\ KindInv(x) /\ Sound(facts) /\ OrderInv
      /\ job[x].does \in {"SYNC", "OPEN", "REPAIR"}
  BY DEF IInv, TypeOK, JobRow
<1>1. ASSUME job'[x].alone = "NO"
      PROVE  AloneInv(x)'
  BY <1>1 DEF AloneInv
<1>2. ASSUME job'[x] = job[x], facts' = facts, order' = order
      PROVE  AloneInv(x)'
  <2>1. RowOf(facts)' = RowOf(facts) /\ HasTrip(facts)' = HasTrip(facts)
    BY <1>2 DEF RowOf, StepOf, AtLoading, AtProof, DocsIn, Linked, HasTrip, Closing
  <2> QED  BY <1>0, <1>2, <2>1 DEF AloneInv
<1>3. CASE UNCHANGED vars
  BY <1>2, <1>3 DEF vars
<1>4. ASSUME job'[x] = Begun("SYNC", "LOAD")
      PROVE  AloneInv(x)'
  BY <1>4 DEF AloneInv, Begun, Quiet
<1>5. ASSUME Raise, UNCHANGED order, job'[x] = Begun("OPEN", "AGAIN")
      PROVE  AloneInv(x)'
  <2>1. facts' = NewLoad
    BY <1>5 DEF Raise, Moves
  <2>2. order.exists = "NO"
    BY <1>0, <1>5 DEF Raise, OrderInv, NoOrder
  <2> QED  BY <1>5, <2>1, <2>2 DEF AloneInv, Begun, Quiet
<1>6. ASSUME facts' = facts, Refresh(x) \/ Reconcile(x)
      PROVE  AloneInv(x)'
  <2>1. job'[x] = Begun("SYNC", "LOAD") \/ job'[x] = Begun("REPAIR", "AGAIN")
    BY <1>0, <1>6 DEF Refresh, Reconcile, Goes
  <2> QED  BY <1>4, <2>1 DEF AloneInv, Begun, Quiet
<1>7. CASE facts' = facts /\ ReadLoad(x)
  <2>1. Keeps(x) /\ job[x].at = "LOAD" /\ job'[x].at = "TRIP"
        /\ job'[x].got.load = facts.load /\ job'[x].got.failed = facts.failed
    BY <1>0, <1>7, ReadEffects
  <2>2. job[x].does = "SYNC"
    BY <1>0, <2>1 DEF KindInv
  <2> QED  BY <1>0, <1>7, <2>1, <2>2 DEF AloneInv, Keeps
<1>8. CASE facts' = facts /\ ReadTrip(x)
  <2>0. /\ Keeps(x) /\ job[x].at = "TRIP" /\ job'[x].at = IF HasTrip(facts) THEN "PAPERS" ELSE "ORDER"
        /\ job'[x].got = [facts EXCEPT !.load = job[x].got.load, !.failed = job[x].got.failed,
                                       !.papers = "NONE", !.invoice = None]
    BY <1>0, <1>8, ReadEffects
  <2>1. job[x].does = "SYNC"
    BY <1>0, <2>0 DEF KindInv
  <2>2. ASSUME Alone(x)
        PROVE  job'[x].got = [facts EXCEPT !.papers = "NONE", !.invoice = None]
    <3>1. job[x].got.load = facts.load /\ job[x].got.failed = facts.failed
      BY <1>0, <2>0, <2>2 DEF AloneInv
    <3> QED  BY <1>0, <2>0, <3>1 DEF Facts
  <2>3. CASE HasTrip(facts)
    BY <1>0, <1>8, <2>0, <2>1, <2>2, <2>3 DEF AloneInv, Keeps, HasTrip
  <2>4. CASE ~HasTrip(facts)
    <3>1. facts.papers = "NONE" /\ facts.invoice = None
      BY <1>0, <2>4 DEF HasTrip, Sound
    <3>2. [facts EXCEPT !.papers = "NONE", !.invoice = None] = facts
      BY <1>0, <3>1 DEF Facts
    <3> QED  BY <1>0, <1>8, <2>0, <2>1, <2>2, <2>4, <3>2 DEF AloneInv, Keeps
  <2> QED  BY <2>3, <2>4
<1>9. CASE facts' = facts /\ ReadPapers(x)
  <2>1. /\ Keeps(x) /\ job[x].at = "PAPERS" /\ job'[x].at = "INVOICE"
        /\ job'[x].got = [job[x].got EXCEPT !.papers = facts.papers]
    BY <1>0, <1>9, ReadEffects
  <2>2. job[x].does = "SYNC"
    BY <1>0, <2>1 DEF KindInv
  <2>3. [[facts EXCEPT !.papers = "NONE", !.invoice = None] EXCEPT !.papers = facts.papers]
          = [facts EXCEPT !.invoice = None]
    BY <1>0 DEF Facts
  <2> QED  BY <1>0, <1>9, <2>1, <2>2, <2>3 DEF AloneInv, Keeps
<1>10. CASE facts' = facts /\ ReadInvoice(x)
  <2>1. /\ Keeps(x) /\ job[x].at = "INVOICE" /\ job'[x].at = "ORDER"
        /\ job'[x].got = [job[x].got EXCEPT !.invoice = facts.invoice]
    BY <1>0, <1>10, ReadEffects
  <2>2. job[x].does = "SYNC"
    BY <1>0, <2>1 DEF KindInv
  <2>3. [[facts EXCEPT !.invoice = None] EXCEPT !.invoice = facts.invoice] = facts
    BY <1>0 DEF Facts
  <2> QED  BY <1>0, <1>10, <2>1, <2>2, <2>3 DEF AloneInv, Keeps
<1>11. CASE facts' = facts /\ (GetOrder(x) \/ LookAgain(x))
  BY <1>0, <1>11, WriteEffects DEF AloneInv, Keeps, KindInv, Quiet
<1>12. CASE facts' = facts /\ (Insert(x) \/ Reread(x))
  BY <1>0, <1>12, WriteEffects DEF AloneInv, Keeps, KindInv
<1>13. CASE facts' = facts /\ FirstEvent(x)
  <2>1. NewOrder.exists = "YES"
    BY DEF NewOrder, NoOrder
  <2> QED  BY <1>0, <1>13, <2>1, WriteEffects DEF AloneInv, Keeps, KindInv, Quiet
<1>14. CASE facts' = facts /\ WriteStatus(x)
  <2>0. /\ Keeps(x) /\ job[x].at = "WRITE" /\ job'[x].at = "LAST" /\ job'[x].got = job[x].got
        /\ \/ Differs(job[x]) /\ order' = RowOf(job[x].got)
           \/ ~Differs(job[x]) /\ order' = order
    BY <1>0, <1>14, WriteEffects
  <2>1. CASE Alone(x)
    <3>1. /\ job[x].got = facts /\ job[x].seen = order /\ order.exists = "YES" /\ job[x].does = "SYNC"
      BY <1>0, <2>0, <2>1 DEF AloneInv, KindInv
    <3>2. order.closed = Closing(order.status)
      BY <1>0, <3>1 DEF OrderInv
    <3>3. ~Differs(job[x]) => order = RowOf(facts)
      BY <1>0, <3>1, <3>2 DEF Differs, RowOf, OrderRow, Linked
    <3>4. order' = RowOf(facts)
      BY <2>0, <3>1, <3>3
    <3>5. RowOf(facts)' = RowOf(facts)
      BY <1>14 DEF RowOf, StepOf, AtLoading, AtProof, DocsIn, Linked, HasTrip, Closing
    <3> QED  BY <1>14, <2>0, <3>1, <3>4, <3>5 DEF AloneInv, Keeps
  <2>2. CASE ~Alone(x)
    BY <2>0, <2>2 DEF AloneInv, Keeps
  <2> QED  BY <2>1, <2>2
<1>15. CASE facts' = facts /\ (LastEvent(x) \/ AppendEvent(x) \/ Lost(x))
  <2>1. RowOf(facts)' = RowOf(facts)
    BY <1>15 DEF RowOf, StepOf, AtLoading, AtProof, DocsIn, Linked, HasTrip, Closing
  <2>2. job[x].at = "LAST" => job[x].does = "SYNC"
    BY <1>0 DEF KindInv
  <2> QED  BY <1>0, <1>15, <2>1, <2>2, WriteEffects DEF AloneInv, Keeps, Quiet
<1>16. ASSUME facts' = facts, NEW r \in Jobs, x # r, Refresh(r) \/ Reconcile(r) \/ Recompute(r) \/ Lost(r)
       PROVE  AloneInv(x)'
  <2>1. [job[x] EXCEPT !.alone = "NO"].alone = "NO"
    BY <1>0 DEF JobRow
  <2> QED  BY <1>1, <1>2, <1>16, <2>1, OthersStep
<1>17. ASSUME job'[x] = [job[x] EXCEPT !.alone = "NO"]
       PROVE  AloneInv(x)'
  <2>1. [job[x] EXCEPT !.alone = "NO"].alone = "NO"
    BY <1>0 DEF JobRow
  <2> QED  BY <1>1, <1>17, <2>1
<1> QED
  BY <1>3, <1>4, <1>5, <1>6, <1>7, <1>8, <1>9, <1>10, <1>11, <1>12, <1>13, <1>14, <1>15,
     <1>16, <1>17, Shapes DEF Recompute

LEMMA EndsOfLadder ==
    ASSUME NEW f \in Facts
    PROVE  /\ StepOf(f) = "CANCELLED" => f.load = "CANCELLED"
           /\ StepOf(f) = "POD_FORFEITED" => f.pod = "FORFEITED"
           /\ StepOf(f) = "BALANCE_RELEASED" => f.balance = "YES" /\ f.pod # "PENDING"
  BY DEF StepOf, AtLoading, AtProof, Facts, Bool, TripStage, PodStatus, Papers

(* What was read of an end is still so. *)
LEMMA ReadStep ==
    ASSUME IInv, [Next]_vars, NEW x \in Jobs
    PROVE  ReadInv(x)'
<1>0. /\ job[x] \in JobRow /\ job[x].got \in Facts /\ facts \in Facts /\ order \in OrderRow
      /\ job \in [Jobs -> JobRow] /\ ReadInv(x)
  BY DEF IInv, TypeOK, JobRow
<1>k. /\ facts.load = "CANCELLED" => facts'.load = "CANCELLED"
      /\ facts.pod # "PENDING" => facts'.pod # "PENDING"
      /\ facts.pod = "FORFEITED" => facts'.pod = "FORFEITED"
      /\ facts.balance = "YES" => facts'.balance = "YES"
  BY Kept
<1>1. ASSUME job'[x].got = job[x].got
      PROVE  ReadInv(x)'
  BY <1>0, <1>k, <1>1 DEF ReadInv
<1>2. ASSUME job'[x].got = NoLoad
      PROVE  ReadInv(x)'
  BY <1>2 DEF ReadInv, NoLoad, NewLoad
<1>3. Quiet.got = NoLoad /\ \A d, a : Begun(d, a).got = NoLoad
  BY DEF Quiet, Begun
<1>4. [job[x] EXCEPT !.alone = "NO"].got = job[x].got
  BY <1>0 DEF JobRow
<1>5. CASE UNCHANGED vars
  BY <1>1, <1>5 DEF vars
<1>6. CASE \/ job'[x] = [job[x] EXCEPT !.alone = "NO"]
           \/ job'[x] = Begun("SYNC", "LOAD")
           \/ job'[x] = Begun("OPEN", "AGAIN")
  <2>1. CASE job'[x] = [job[x] EXCEPT !.alone = "NO"]
    BY <1>1, <1>4, <2>1
  <2>2. CASE job'[x] = Begun("SYNC", "LOAD") \/ job'[x] = Begun("OPEN", "AGAIN")
    <3>1. Begun("SYNC", "LOAD").got = NoLoad /\ Begun("OPEN", "AGAIN").got = NoLoad
      BY DEF Begun, Quiet
    <3> QED  BY <1>2, <2>2, <3>1
  <2> QED  BY <1>6, <2>1, <2>2
<1>7. ASSUME NEW r \in Jobs, x # r, Refresh(r) \/ Reconcile(r) \/ Recompute(r) \/ Lost(r)
      PROVE  ReadInv(x)'
  BY <1>1, <1>4, <1>7, OthersStep
<1>8. CASE Refresh(x) \/ Reconcile(x)
  <2>1. job'[x] = Begun("SYNC", "LOAD") \/ job'[x] = Begun("REPAIR", "AGAIN")
    BY <1>0, <1>8 DEF Refresh, Reconcile, Goes
  <2> QED  BY <1>2, <1>3, <2>1
<1>9. CASE ReadLoad(x) \/ ReadTrip(x) \/ ReadPapers(x) \/ ReadInvoice(x)
  <2>1. /\ job'[x].got.load \in {job[x].got.load, facts.load}
        /\ job'[x].got.pod \in {job[x].got.pod, facts.pod}
        /\ job'[x].got.balance \in {job[x].got.balance, facts.balance}
    <3> DEFINE g == job[x].got
    <3>1. g \in Facts
      BY <1>0
    <3>2. CASE ReadLoad(x)
      <4>1. job'[x].got = [g EXCEPT !.load = facts.load, !.failed = facts.failed]
        BY <1>0, <3>2, ReadEffects
      <4> QED  BY <3>1, <4>1 DEF Facts
    <3>3. CASE ReadTrip(x)
      <4>1. job'[x].got = [facts EXCEPT !.load = g.load, !.failed = g.failed, !.papers = "NONE", !.invoice = None]
        BY <1>0, <3>3, ReadEffects
      <4> HIDE DEF g
      <4>2. /\ job'[x].got.load = g.load
            /\ job'[x].got.pod = facts.pod /\ job'[x].got.balance = facts.balance
        BY <1>0, <4>1 DEF Facts
      <4> QED  BY <4>2 DEF g
    <3>4. CASE ReadPapers(x)
      <4>1. job'[x].got = [g EXCEPT !.papers = facts.papers]
        BY <1>0, <3>4, ReadEffects
      <4> QED  BY <3>1, <4>1 DEF Facts
    <3>5. CASE ReadInvoice(x)
      <4>1. job'[x].got = [g EXCEPT !.invoice = facts.invoice]
        BY <1>0, <3>5, ReadEffects
      <4> QED  BY <3>1, <4>1 DEF Facts
    <3> QED  BY <1>9, <3>2, <3>3, <3>4, <3>5
  <2> QED  BY <1>0, <1>k, <2>1 DEF ReadInv
<1>10. CASE GetOrder(x) \/ Insert(x) \/ Reread(x) \/ WriteStatus(x)
  BY <1>0, <1>1, <1>10, WriteEffects
<1>11. CASE LastEvent(x) \/ AppendEvent(x) \/ Lost(x)
  BY <1>0, <1>1, <1>2, <1>3, <1>11, WriteEffects
<1>12. CASE LookAgain(x) \/ FirstEvent(x)
  <2>1. ASSUME NEW w \in JobRow, w.got = job[x].got
        PROVE  Created(w).got \in {NoLoad, job[x].got}
    BY <1>3, <2>1 DEF Created, JobRow
  <2>2. [job[x] EXCEPT !.seen = order] \in JobRow /\ [job[x] EXCEPT !.seen = order].got = job[x].got
    BY <1>0 DEF JobRow
  <2>3. [job[x] EXCEPT !.at = "INSERT"].got = job[x].got
    BY <1>0 DEF JobRow
  <2>4. \/ job'[x] = Created(job[x]) \/ job'[x] = [job[x] EXCEPT !.at = "INSERT"]
        \/ job'[x] = Created([job[x] EXCEPT !.seen = order])
    BY <1>0, <1>12 DEF LookAgain, FirstEvent, Goes, Writes, Overtaking
  <2>5. job'[x].got \in {NoLoad, job[x].got}
    BY <1>0, <2>1, <2>2, <2>3, <2>4
  <2> QED  BY <1>1, <1>2, <2>5
<1> QED  BY <1>5, <1>6, <1>7, <1>8, <1>9, <1>10, <1>11, <1>12, Shapes DEF Recompute

LEMMA EndStep ==
    ASSUME IInv, [Next]_vars
    PROVE  EndKept(order.status)'
<1> USE DEF EndKept, CancelKept, ForfeitKept, PaidKept
<1>k. /\ facts.load = "CANCELLED" => facts'.load = "CANCELLED"
      /\ facts.pod # "PENDING" => facts'.pod # "PENDING"
      /\ facts.pod = "FORFEITED" => facts'.pod = "FORFEITED"
      /\ facts.balance = "YES" => facts'.balance = "YES"
  BY Kept
<1>1. CASE order' = order
  BY <1>k, <1>1 DEF IInv
<1>2. CASE order' = NewOrder
  BY <1>2 DEF NewOrder, NoOrder
<1>3. ASSUME NEW r \in Jobs, order' = RowOf(job[r].got)
      PROVE  EndKept(order.status)'
  <2>1. order'.status = StepOf(job[r].got) /\ job[r].got \in Facts /\ ReadInv(r)
    BY <1>3 DEF RowOf, IInv, TypeOK, JobRow
  <2> QED  BY <1>k, <2>1, EndsOfLadder DEF ReadInv
<1>4. ASSUME NEW r \in Jobs, Recompute(r)
      PROVE  order' = order \/ order' = NewOrder \/ order' = RowOf(job[r].got)
  BY <1>4 DEF Recompute, Goes, Reads, Writes, ReadLoad, ReadTrip, ReadPapers, ReadInvoice, Insert,
              GetOrder, LookAgain, Reread, FirstEvent, WriteStatus, LastEvent, AppendEvent
<1>5. ASSUME NEW r \in Jobs, Refresh(r) \/ Reconcile(r) \/ Lost(r)
      PROVE  order' = order
  BY <1>5 DEF Refresh, Reconcile, Lost, Goes
<1> QED  BY <1>1, <1>2, <1>3, <1>4, <1>5, Shapes DEF vars

(* With nothing amiss, either the order shows the facts or somebody who     *)
(* will bring it there is on the way.                                      *)
LEMMA AttendedStep ==
    ASSUME IInv, [Next]_vars
    PROVE  Attended'
<1> USE DEF Alone, Idle, At
<1>0. /\ job \in [Jobs -> JobRow] /\ facts \in Facts /\ order \in OrderRow
      /\ \A x \in Jobs : job[x] \in JobRow /\ AloneInv(x) /\ KindInv(x)
  BY DEF IInv, TypeOK
<1>f. ASSUME facts' = facts
      PROVE  RowOf(facts)' = RowOf(facts) /\ StepOf(facts)' = StepOf(facts)
  BY <1>f DEF RowOf, StepOf, AtLoading, AtProof, DocsIn, Linked, HasTrip, Closing
<1>1. CASE UNCHANGED vars
  BY <1>1, <1>f DEF vars, IInv, Attended, Matches
<1>2. CASE Silent
  BY <1>2 DEF Silent, Attended
<1>3. ASSUME NEW r \in Jobs, RaiseLoad(r) \/ Hooked(r)
      PROVE  Attended'
  <2>1. job'[r].alone = "YES"
    BY <1>0, <1>3 DEF RaiseLoad, Hooked, Overtaking, Begun, Quiet
  <2> QED  BY <2>1 DEF Attended
<1>4. ASSUME NEW r \in Jobs, Refresh(r) \/ Reconcile(r)
      PROVE  Attended'
  <2>1. job'[r].alone = "YES"
    BY <1>0, <1>4 DEF Refresh, Reconcile, Goes, Begun, Quiet
  <2> QED  BY <2>1 DEF Attended
(* A step that writes nothing and keeps r as it was. *)
<1>g. ASSUME NEW r \in Jobs, NEW row, Goes(r, row), row.alone = job[r].alone
      PROVE  Attended'
  <2>1. facts' = facts /\ order' = order /\ last' = last /\ slips' = slips
    BY <1>g DEF Goes
  <2>2. \A x \in Jobs : job'[x].alone = job[x].alone
    BY <1>0, <1>g DEF Goes
  <2> QED  BY <1>f, <2>1, <2>2 DEF IInv, Attended, Matches
(* One that goes out quietly, which nobody does who is alone. *)
<1>q. ASSUME NEW r \in Jobs, Goes(r, Quiet), ~Alone(r)
      PROVE  Attended'
  <2>1. facts' = facts /\ order' = order /\ last' = last /\ slips' = slips
    BY <1>q DEF Goes
  <2>2. \A x \in Jobs : Alone(x) => job'[x] = job[x]
    BY <1>0, <1>q DEF Goes
  <2> QED  BY <1>f, <2>1, <2>2 DEF IInv, Attended, Matches
<1>w. ASSUME NEW r \in Jobs, NEW row, Writes(r, row), row.alone = job[r].alone
      PROVE  Attended'
  <2>1. CASE Alone(r)
    <3>1. job'[r].alone = "YES"
      BY <1>0, <1>w, <2>1 DEF Writes, Overtaking
    <3> QED  BY <3>1 DEF Attended
  <2>2. CASE ~Alone(r)
    BY <1>w, <2>2 DEF Writes, Attended
  <2> QED  BY <2>1, <2>2
<1>5. ASSUME NEW r \in Jobs, ReadLoad(r) \/ ReadTrip(r) \/ ReadPapers(r) \/ ReadInvoice(r)
      PROVE  Attended'
  <2>1. \E a, g : Goes(r, [job[r] EXCEPT !.at = a, !.got = g])
    BY <1>5 DEF ReadLoad, ReadTrip, ReadPapers, ReadInvoice, Reads
  <2>2. \A a, g : [job[r] EXCEPT !.at = a, !.got = g].alone = job[r].alone
    BY <1>0 DEF JobRow
  <2> QED  BY <1>g, <2>1, <2>2
<1>6. ASSUME NEW r \in Jobs, GetOrder(r) \/ Reread(r)
      PROVE  Attended'
  <2>1. \/ \E a : Goes(r, [job[r] EXCEPT !.at = a, !.seen = order])
        \/ \E a : Goes(r, [job[r] EXCEPT !.at = a])
    BY <1>0, <1>6 DEF GetOrder, Reread
  <2>2. \A a : /\ [job[r] EXCEPT !.at = a].alone = job[r].alone
               /\ [job[r] EXCEPT !.at = a, !.seen = order].alone = job[r].alone
    BY <1>0 DEF JobRow
  <2> QED  BY <1>g, <2>1, <2>2
<1>7. ASSUME NEW r \in Jobs, LookAgain(r)
      PROVE  Attended'
  <2> DEFINE w == [job[r] EXCEPT !.seen = order]
  <2>1. w \in JobRow /\ w.alone = job[r].alone /\ w.does = job[r].does
    BY <1>0 DEF JobRow
  <2>2. \/ order.exists = "YES" /\ Goes(r, Created(w))
        \/ Goes(r, [job[r] EXCEPT !.at = "INSERT"])
    BY <1>0, <1>7 DEF LookAgain
  <2> HIDE DEF w
  <2>3. [job[r] EXCEPT !.at = "INSERT"].alone = job[r].alone
    BY <1>0 DEF JobRow
  <2>4. \/ w.does = "OPEN" /\ Created(w) = Quiet
        \/ Created(w).alone = w.alone
    BY <2>1 DEF Created, JobRow
  <2>5. job[r].does = "OPEN" /\ order.exists = "YES" => ~Alone(r)
    BY <1>0, <1>7 DEF AloneInv, LookAgain
  <2> QED  BY <1>g, <1>q, <2>1, <2>2, <2>3, <2>4, <2>5
<1>8. ASSUME NEW r \in Jobs, Insert(r)
      PROVE  Attended'
  <2>1. [job[r] EXCEPT !.at = "REREAD"].alone = job[r].alone
    BY <1>0 DEF JobRow
  <2> QED  BY <1>8, <1>w, <2>1 DEF Insert
<1>9. ASSUME NEW r \in Jobs, FirstEvent(r)
      PROVE  Attended'
  <2>1. \/ job[r].does = "OPEN" /\ Created(job[r]) = Quiet
        \/ Created(job[r]).alone = job[r].alone
    BY <1>0 DEF Created, JobRow
  <2>2. Writes(r, Created(job[r])) /\ order' = order /\ last' = "INDENT_CREATED" /\ At(r, "FIRST")
    BY <1>9 DEF FirstEvent
  <2>3. CASE job[r].does = "OPEN" /\ Alone(r)
    <3>1. facts = NewLoad /\ order = NewOrder
      BY <1>0, <2>2, <2>3 DEF AloneInv
    <3>2. StepOf(NewLoad) = "INDENT_CREATED"
      BY DEF StepOf, NewLoad
    <3>3. RowOf(NewLoad) = NewOrder
      BY <3>2 DEF RowOf, NewOrder, NoOrder, NewLoad, Linked, HasTrip, Closing, IsTerminal
    <3>4. facts' = facts
      BY <2>2 DEF Writes
    <3> QED  BY <1>f, <2>2, <3>1, <3>2, <3>3, <3>4 DEF Attended, Matches
  <2>4. CASE ~Alone(r)
    BY <2>2, <2>4 DEF Writes, Attended
  <2> QED  BY <1>w, <2>1, <2>2, <2>3, <2>4
<1>10. ASSUME NEW r \in Jobs, WriteStatus(r)
       PROVE  Attended'
  <2>1. [job[r] EXCEPT !.at = "LAST"].alone = job[r].alone
    BY <1>0 DEF JobRow
  <2>2. Goes(r, [job[r] EXCEPT !.at = "LAST"]) \/ Writes(r, [job[r] EXCEPT !.at = "LAST"])
    BY <1>10 DEF WriteStatus
  <2> QED  BY <1>g, <1>w, <2>1, <2>2
<1>11. ASSUME NEW r \in Jobs, LastEvent(r)
       PROVE  Attended'
  <2>1. CASE Goes(r, [job[r] EXCEPT !.at = "APPEND"])
    <3>1. [job[r] EXCEPT !.at = "APPEND"].alone = job[r].alone
      BY <1>0 DEF JobRow
    <3> QED  BY <1>g, <2>1, <3>1
  <2>2. CASE /\ last = StepOf(job[r].got) /\ job' = [job EXCEPT ![r] = Quiet]
             /\ slips' = IF Settles(r) THEN {} ELSE slips
             /\ UNCHANGED <<facts, order, last, changes>>
    <3>1. job[r].does = "SYNC"
      BY <1>0, <1>11 DEF LastEvent, KindInv, JobRow
    <3>2. CASE Alone(r)
      <4>1. job[r].got = facts /\ order = RowOf(facts)
        BY <1>0, <1>11, <3>2 DEF LastEvent, AloneInv
      <4> QED  BY <1>f, <2>2, <4>1 DEF Attended, Matches
    <3>3. CASE ~Alone(r)
      <4>1. slips' = slips /\ \A x \in Jobs : Alone(x) => job'[x] = job[x]
        BY <1>0, <2>2, <3>3 DEF Settles
      <4> QED  BY <1>f, <2>2, <4>1 DEF IInv, Attended, Matches
    <3> QED  BY <3>2, <3>3
  <2> QED  BY <1>11, <2>1, <2>2 DEF LastEvent
<1>12. ASSUME NEW r \in Jobs, AppendEvent(r)
       PROVE  Attended'
  <2>1. job[r].does = "SYNC"
    BY <1>0, <1>12 DEF AppendEvent, KindInv, JobRow
  <2>2. CASE Alone(r)
    <3>1. job[r].got = facts /\ order = RowOf(facts)
      BY <1>0, <1>12, <2>2 DEF AppendEvent, AloneInv
    <3> QED  BY <1>12, <1>f, <3>1 DEF AppendEvent, Attended, Matches
  <2>3. CASE ~Alone(r)
    BY <1>12, <2>3 DEF AppendEvent, Settles, Attended
  <2> QED  BY <2>2, <2>3
<1>13. ASSUME NEW r \in Jobs, Lost(r)
       PROVE  Attended'
  <2>1. CASE Alone(r)
    BY <1>13, <2>1 DEF Lost, Attended
  <2>2. CASE ~Alone(r)
    BY <1>13, <1>q, <2>2 DEF Lost, Goes
  <2> QED  BY <2>1, <2>2
<1> QED
  BY <1>1, <1>2, <1>3, <1>4, <1>5, <1>6, <1>7, <1>8, <1>9, <1>10, <1>11, <1>12, <1>13
     DEF Next, Recompute

-----------------------------------------------------------------------------
(* The theorems *)

LEMMA Start == Init => IInv
<1> SUFFICES ASSUME Init PROVE IInv
  OBVIOUS
<1>1. facts \in Facts /\ Sound(facts)
  BY StartsAssumption DEF Init
<1>2. order \in OrderRow /\ last \in Status \cup {None} /\ job \in [Jobs -> JobRow]
  BY <1>1, RowTypes, RowOfType, StepOfType DEF Init
<1>3. TypeOK
  BY <1>1, <1>2, MaxChangesAssumption DEF Init, TypeOK
<1>4. OrderInv
  BY DEF Init, OrderInv, RowOf, NoOrder
<1>5. \A r \in Jobs : AloneInv(r) /\ KindInv(r) /\ ReadInv(r)
  BY DEF Init, AloneInv, KindInv, ReadInv, Alone, Idle, Quiet, NoLoad, NewLoad
<1>6. Attended
  BY DEF Init, Attended, Matches
<1>7. EndKept(order.status)
  <2>1. CASE facts.load = "NONE"
    BY <2>1 DEF Init, NoOrder, EndKept, CancelKept, ForfeitKept, PaidKept
  <2>2. CASE facts.load # "NONE"
    <3>1. order.status = StepOf(facts)
      BY <2>2 DEF Init, RowOf
    <3> QED  BY <1>1, <3>1, EndsOfLadder DEF EndKept, CancelKept, ForfeitKept, PaidKept
  <2> QED  BY <2>1, <2>2
<1> QED  BY <1>1, <1>3, <1>4, <1>5, <1>6, <1>7 DEF IInv

LEMMA Step == IInv /\ [Next]_vars => IInv'
<1> SUFFICES ASSUME IInv, [Next]_vars PROVE IInv'
  OBVIOUS
<1>1. TypeOK' /\ Sound(facts)'
  BY TypeStep, Kept DEF IInv, Sound
<1>2. OrderInv' /\ Attended' /\ EndKept(order.status)'
  BY OrderStep, AttendedStep, EndStep
<1>3. \A r \in Jobs : AloneInv(r)' /\ KindInv(r)' /\ ReadInv(r)'
  BY AloneStep, KindStep, ReadStep
<1> QED  BY <1>1, <1>2, <1>3 DEF IInv

LEMMA Invariant == Spec => []IInv
  BY Start, Step, PTL DEF Spec

(* The order, its history and what the recomputes hold are of their types. *)
THEOREM TypeCorrect == Spec => []TypeOK
<1>1. IInv => TypeOK
  BY DEF IInv
<1> QED  BY <1>1, Invariant, PTL

(* Unless a writer kept silent, or a recompute was lost or overtaken, the   *)
(* order shows the furthest step the records bear out once all is quiet.    *)
THEOREM OrderShowsTheRecords == Spec => []InStep
<1>1. IInv => InStep
  <2> SUFFICES ASSUME IInv, slips = {}, \A r \in Jobs : Idle(r), facts.load # "NONE"
               PROVE  /\ order.exists = "YES" /\ order.status \in Meant(facts)
                      /\ order.trip = Linked(facts) /\ order.invoice = facts.invoice
                      /\ order.closed = "YES" <=> order.status \in {"BALANCE_RELEASED", "POD_FORFEITED", "CANCELLED"}
                      /\ last = order.status
    BY DEF InStep
  <2>1. \A r \in Jobs : ~Alone(r)
    BY DEF IInv, AloneInv
  <2>2. order = RowOf(facts) /\ last = StepOf(facts)
    BY <2>1 DEF IInv, Attended, Matches
  <2>3. StepOf(facts) \in Meant(facts)
    BY StepOfIsMeant DEF IInv, TypeOK
  <2> QED  BY <2>2, <2>3 DEF RowOf, Closing, IsTerminal
<1> QED  BY <1>1, Invariant, PTL

(* What a closed order is opened again by. *)
THEOREM ClosedOrderStays == Spec => ReopenedForCause
<1>1. ASSUME IInv, [Next]_vars, order.closed = "YES", order.closed' = "NO"
      PROVE  "OVERTAKEN" \in slips' \/ facts.pod \in {"ATTACHED", "RECEIVED"}
  <2>0. /\ job \in [Jobs -> JobRow] /\ facts \in Facts /\ order \in OrderRow /\ OrderInv /\ Sound(facts)
        /\ EndKept(order.status) /\ \A x \in Jobs : job[x] \in JobRow /\ AloneInv(x)
    BY <1>1 DEF IInv, TypeOK
  <2>1. order.exists = "YES" /\ IsTerminal(order.status)
    BY <1>1, <2>0 DEF OrderInv, NoOrder, Closing, OrderRow, Bool
  <2>2. order' # order
    BY <1>1
  <2>3. PICK r \in Jobs : Recompute(r) \/ Refresh(r) \/ Reconcile(r) \/ Lost(r)
    BY <1>1, <2>2, Shapes DEF vars
  <2>4. WriteStatus(r) /\ order' = RowOf(job[r].got) /\ Writes(r, [job[r] EXCEPT !.at = "LAST"])
    BY <2>1, <2>2, <2>3 DEF Recompute, Refresh, Reconcile, Lost, Goes, Reads, ReadLoad, ReadTrip,
         ReadPapers, ReadInvoice, Insert, GetOrder, LookAgain, Reread, FirstEvent, WriteStatus,
         LastEvent, AppendEvent
  <2>5. CASE ~Alone(r)
    BY <2>4, <2>5 DEF Writes
  <2>6. CASE Alone(r)
    <3>1. job[r].got = facts
      BY <2>0, <2>4, <2>6 DEF AloneInv, WriteStatus, At
    <3>2. Closing(StepOf(facts)) = "NO"
      BY <1>1, <2>4, <3>1 DEF RowOf
    <3>3. StepOf(facts) \notin {"BALANCE_RELEASED", "POD_FORFEITED", "CANCELLED"}
      BY <3>2 DEF Closing, IsTerminal
    <3>4. facts.load # "CANCELLED"
      BY <3>3 DEF StepOf
    <3>5. order.status # "CANCELLED"
      BY <2>0, <3>4 DEF EndKept, CancelKept
    <3>6. facts.pod # "PENDING" /\ (facts.pod = "FORFEITED" \/ facts.balance = "YES")
      BY <2>0, <2>1, <3>5 DEF IsTerminal, EndKept, ForfeitKept, PaidKept
    <3>7. facts.trip \in {"DELIVERED", "CLOSED"} /\ facts.load = "TRIP_CREATED" /\ facts.pod # "REJECTED"
      BY <2>0, <3>4, <3>6 DEF Sound, Facts
    <3>8. StepOf(facts) = AtProof(facts)
      BY <3>7 DEF StepOf
    <3> QED  BY <2>0, <3>3, <3>6, <3>7, <3>8 DEF AtProof, Facts, PodStatus
  <2> QED  BY <2>5, <2>6
<1> QED  BY <1>1, Invariant, PTL DEF Spec, ReopenedForCause
=============================================================================
