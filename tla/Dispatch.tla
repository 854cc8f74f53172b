------------------------------ MODULE Dispatch ------------------------------
(***************************************************************************)
(* One awarded load until its truck is unloaded: the vehicle, the loading, *)
(* the advance papers, the lorry receipt, the advance, departure and       *)
(* delivery, with the load taken back (cancel, reassign) and awarded again *)
(* on the same trip row.                                                   *)
(*                                                                         *)
(* A handler that locks the trip row and reads only locked rows is one     *)
(* action.  Releasing the advance and departure read the papers on another *)
(* connection while they hold the row: they are two actions, and "gate"    *)
(* names the one in between, which holds the lock.  Saving the lorry       *)
(* receipt's draft reads with no transaction at all and is two actions.    *)
(*                                                                         *)
(* Source: trips.service.ts, indents.service.ts and payments.service.ts of *)
(* apps/internal-api.                                                      *)
(***************************************************************************)
EXTENDS Naturals

CONSTANTS
    Trucks,         \* registrations
    Supervisors,    \* loading supervisors
    None            \* SQL null, and the empty vehicle_no

ASSUME TruckAssumption == None \notin Trucks \cup Supervisors

VARIABLES
    load,       \* the indents row: stage, vehicle
    trip,       \* the trips row: stage, vehicle, supervisor, override, advance
    marks,      \* the milestones whose timestamp the trips row holds
    doc,        \* trip_documents: status by kind
    keyed,      \* the vehicle number keyed from the e-way bill
    lr,         \* the lorry_receipts row: status, code, vehicle
    draft,      \* a draft save that has read and not yet written
    gate,       \* the handler that holds the trip and has read the papers
    loaded      \* ghost: the truck that was marked as loaded

vars == <<load, trip, marks, doc, keyed, lr, draft, gate, loaded>>

(* The advance set, by what the code tells apart: the loading slip, which a *)
(* lorry receipt stands in for, and the keyed papers (client invoice and    *)
(* e-way bill) that the cross-check reads.                                  *)
Kinds == {"LOADING_SLIP", "EWAY_BILL"}

DocStatus == {"NONE", "PENDING", "VERIFIED", "REJECTED"}
LrStatus  == {"NONE", "BOOKED", "RELEASED", "IN_TRANSIT", "DELIVERED"}
Marks     == {"REACHED_LOADING", "STARTED", "LOADED", "REACHED"}
Truck     == Trucks \cup {None}

LoadRow  == [stage : {"TRIP_CREATED", "OPEN", "CANCELLED"}, vehicle : Truck]
TripRow  == [stage : {"OPEN", "IN_TRANSIT", "DELIVERED", "CANCELLED"}, vehicle : Truck,
             supervisor : Supervisors \cup {None},
             override : {"NO", "ASKED", "YES"}, advance : {"UNPAID", "PAID"}]
LrRow    == [status : LrStatus, code : {"NONE", "DRAFT", "LR"}, vehicle : Truck]
DraftReq == [saw : {"IDLE", "NO_ROW", "ROW"}, vehicle : Truck]

NoLr    == [status |-> "NONE", code |-> "NONE", vehicle |-> None]
NoDraft == [saw |-> "IDLE", vehicle |-> None]

(* The award has just generated the trip. *)
Init ==
    /\ load = [stage |-> "TRIP_CREATED", vehicle |-> None]
    /\ trip = [stage |-> "OPEN", vehicle |-> None, supervisor |-> None,
               override |-> "NO", advance |-> "UNPAID"]
    /\ marks = {}
    /\ doc = [k \in Kinds |-> "NONE"] /\ keyed = None
    /\ lr = NoLr /\ draft = NoDraft /\ gate = "NONE" /\ loaded = None

Unlocked == gate = "NONE"

(* A key field of the keyed papers differs from the lorry receipt's copy.   *)
(* It needs both sides.                                                     *)
Mismatch == keyed # None /\ lr.status # "NONE" /\ keyed # lr.vehicle

(* A code stands in for the loading slip: any code, a draft's included.     *)
Covered(k) == k = "LOADING_SLIP" /\ lr.code # "NONE"

-----------------------------------------------------------------------------
(* The vehicle *)

(* Allocation, and the swap of an allocated vehicle. *)
Placement(v) ==
    /\ Unlocked /\ load.stage = "TRIP_CREATED" /\ trip.stage = "OPEN"
    /\ load' = [load EXCEPT !.vehicle = v]
    /\ trip' = [trip EXCEPT !.vehicle = v]
    /\ UNCHANGED <<marks, doc, keyed, lr, draft, gate, loaded>>

(* The same truck with its number put right: on the load, its live trip and *)
(* that trip's lorry receipt.  Open until unloading.                        *)
Renumbered(x, v) == IF x = load.vehicle THEN v ELSE x
CorrectVehicle(v) ==
    /\ Unlocked /\ load.vehicle \notin {None, v}
    /\ load' = [load EXCEPT !.vehicle = v]
    /\ \/ trip.stage = "CANCELLED" /\ UNCHANGED <<trip, lr, loaded>>
       \/ /\ trip.stage \in {"OPEN", "IN_TRANSIT"}
          /\ trip' = [trip EXCEPT !.vehicle = v]
          /\ lr' = IF lr.status = "NONE" THEN lr ELSE [lr EXCEPT !.vehicle = v]
          /\ loaded' = Renumbered(loaded, v)
    /\ UNCHANGED <<marks, doc, keyed, draft, gate>>

-----------------------------------------------------------------------------
(* Loading and tracking *)

(* mutant: the supervisor may still change once loading is complete *)
AssignAnyTime(s) ==
    /\ Unlocked /\ trip.stage = "OPEN"
    /\ trip' = [trip EXCEPT !.supervisor = s]
    /\ marks' = IF s = trip.supervisor THEN marks ELSE marks \ {"STARTED"}
    /\ UNCHANGED <<load, doc, keyed, lr, draft, gate, loaded>>

(* A different supervisor starts loading afresh. *)
AssignLoadingSupervisor(s) ==
    /\ Unlocked /\ trip.stage = "OPEN" /\ "LOADED" \notin marks
    /\ trip' = [trip EXCEPT !.supervisor = s]
    /\ marks' = IF s = trip.supervisor THEN marks ELSE marks \ {"STARTED"}
    /\ UNCHANGED <<load, doc, keyed, lr, draft, gate, loaded>>

Mark(ms) ==
    /\ Unlocked
    /\ marks' = marks \cup ms
    /\ loaded' = IF "LOADED" \in ms THEN trip.vehicle ELSE loaded
    /\ UNCHANGED <<load, trip, doc, keyed, lr, draft, gate>>

StartLoading ==
    /\ trip.stage = "OPEN" /\ trip.supervisor # None /\ trip.vehicle # None
    /\ "STARTED" \notin marks
    /\ Mark({"STARTED", "REACHED_LOADING"})

CompleteLoading ==
    /\ trip.stage = "OPEN" /\ "STARTED" \in marks /\ "LOADED" \notin marks
    /\ Mark({"LOADED"})

(* The tracking sheet's milestones. *)
TrackReachedLoading ==
    /\ trip.vehicle # None /\ trip.stage = "OPEN" /\ "REACHED_LOADING" \notin marks
    /\ Mark({"REACHED_LOADING", "STARTED"})

TrackLoaded ==
    /\ trip.vehicle # None /\ trip.stage = "OPEN"
    /\ "LOADED" \notin marks /\ "REACHED_LOADING" \in marks
    /\ Mark({"LOADED", "STARTED"})

TrackReached ==
    /\ trip.vehicle # None /\ trip.stage = "IN_TRANSIT" /\ "REACHED" \notin marks
    /\ Mark({"REACHED"})

-----------------------------------------------------------------------------
(* Papers.  These handlers lock no trip; the foreign key makes a first      *)
(* insert wait for whoever holds the row.                                   *)

Keyable(k, n) == n # None => k = "EWAY_BILL"

(* A new file forgets what was keyed from the old one. *)
SubmitDocument(k, n) ==
    /\ Keyable(k, n) /\ (doc[k] = "NONE" => Unlocked)
    /\ doc' = [doc EXCEPT ![k] = "PENDING"]
    /\ keyed' = IF k = "EWAY_BILL" THEN n ELSE keyed
    /\ UNCHANGED <<load, trip, marks, lr, draft, gate, loaded>>

(* The checker may key the vehicle number while verifying. *)
VerifyDocument(k, n) ==
    /\ Keyable(k, n) /\ doc[k] # "NONE"
    /\ doc' = [doc EXCEPT ![k] = "VERIFIED"]
    /\ keyed' = IF n = None THEN keyed ELSE n
    /\ UNCHANGED <<load, trip, marks, lr, draft, gate, loaded>>

RejectDocument(k) ==
    /\ doc[k] # "NONE"
    /\ doc' = [doc EXCEPT ![k] = "REJECTED"]
    /\ UNCHANGED <<load, trip, marks, keyed, lr, draft, gate, loaded>>

(* Asking for a cross-check override and the decision on it. *)
Override(from, to) ==
    /\ Unlocked /\ trip.override = from
    /\ trip' = [trip EXCEPT !.override = to]
    /\ UNCHANGED <<load, marks, doc, keyed, lr, draft, gate, loaded>>

-----------------------------------------------------------------------------
(* The lorry receipt *)

(* The draft's autosave reads the trip and the receipt... *)
PatchLrRead ==
    /\ draft = NoDraft
    /\ draft' = IF lr.status = "NONE" THEN [saw |-> "NO_ROW", vehicle |-> trip.vehicle]
                ELSE [saw |-> "ROW", vehicle |-> None]
    /\ UNCHANGED <<load, trip, marks, doc, keyed, lr, gate, loaded>>

(* The status a draft is inserted with. *)
NewDraft(v) == [status |-> "BOOKED", code |-> "DRAFT", vehicle |-> v]

(* ...and writes whatever row there is by then.  n is the registration the  *)
(* form carries, None when it carries no vehicle: a first save then seeds   *)
(* the one it read.                                                         *)
PatchLrWrite(n) ==
    LET seed == IF n # None THEN n ELSE draft.vehicle IN
    /\ draft # NoDraft
    /\ \/ /\ lr.status = "NONE" /\ Unlocked
          /\ lr' = NewDraft(seed)
       \/ /\ lr.status # "NONE" /\ gate # "DEPART"
          /\ lr' = [lr EXCEPT !.vehicle = IF n = None /\ draft.saw = "ROW" THEN @ ELSE seed]
    /\ draft' = NoDraft
    /\ UNCHANGED <<load, trip, marks, doc, keyed, gate, loaded>>

GenerateLr ==
    /\ Unlocked /\ trip.vehicle # None /\ lr.status = "BOOKED"
    /\ Mismatch => trip.override = "YES"
    /\ lr' = [lr EXCEPT !.status = "RELEASED", !.code = "LR"]
    /\ UNCHANGED <<load, trip, marks, doc, keyed, draft, gate, loaded>>

LrMoves(to) == lr' = IF lr.status = "NONE" THEN lr ELSE [lr EXCEPT !.status = to]

-----------------------------------------------------------------------------
(* The advance, departure and delivery *)

Enter(handler) ==
    /\ Unlocked /\ gate' = handler
    /\ UNCHANGED <<load, trip, marks, doc, keyed, lr, draft, loaded>>

(* Locked, and the papers read: all verified. *)
AdvanceCheck ==
    /\ trip.advance = "UNPAID"
    /\ \A k \in Kinds : doc[k] = "VERIFIED" \/ Covered(k)
    /\ Enter("ADVANCE")

AdvancePay ==
    /\ gate = "ADVANCE"
    /\ trip' = [trip EXCEPT !.advance = "PAID"]
    /\ gate' = "NONE"
    /\ UNCHANGED <<load, marks, doc, keyed, lr, draft, loaded>>

(* Start trip, and the attempt made for the user once the advance is paid.  *)
(* mutant: the advance papers are not looked at *)
DepartUnchecked ==
    /\ trip.stage = "OPEN" /\ trip.vehicle # None
    /\ lr.status \in {"NONE", "RELEASED"} /\ "LOADED" \in marks
    /\ Enter("DEPART")

DepartCheck ==
    /\ trip.stage = "OPEN" /\ trip.vehicle # None
    /\ lr.status \in {"NONE", "RELEASED"}
    /\ \A k \in Kinds : doc[k] \in {"PENDING", "VERIFIED"} \/ Covered(k)
    /\ "LOADED" \in marks
    /\ Enter("DEPART")

Depart ==
    /\ gate = "DEPART"
    /\ trip' = [trip EXCEPT !.stage = "IN_TRANSIT"]
    /\ LrMoves("IN_TRANSIT")
    /\ gate' = "NONE"
    /\ UNCHANGED <<load, marks, doc, keyed, draft, loaded>>

(* The transaction is rolled back: a lost connection. *)
GateLost ==
    /\ gate # "NONE" /\ gate' = "NONE"
    /\ UNCHANGED <<load, trip, marks, doc, keyed, lr, draft, loaded>>

Deliver ==
    /\ Unlocked /\ trip.stage = "IN_TRANSIT"
    /\ trip' = [trip EXCEPT !.stage = "DELIVERED"]
    /\ marks' = marks \cup {"REACHED"}
    /\ LrMoves("DELIVERED")
    /\ UNCHANGED <<load, doc, keyed, draft, gate, loaded>>

-----------------------------------------------------------------------------
(* The load is taken back, and awarded again *)

Untouched == trip.stage = "OPEN" /\ trip.advance = "UNPAID"

Cancel ==
    /\ Unlocked /\ load.stage # "CANCELLED"
    /\ trip.stage = "CANCELLED" \/ Untouched
    /\ load' = [load EXCEPT !.stage = "CANCELLED"]
    /\ trip' = [trip EXCEPT !.stage = "CANCELLED"]
    /\ UNCHANGED <<marks, doc, keyed, lr, draft, gate, loaded>>

(* mutant: an issued lorry receipt does not stop a reassignment *)
ReassignIssued ==
    /\ Unlocked /\ load.stage = "TRIP_CREATED" /\ Untouched
    /\ load' = [stage |-> "OPEN", vehicle |-> None]
    /\ trip' = [trip EXCEPT !.stage = "CANCELLED", !.supervisor = None]
    /\ marks' = marks \ {"STARTED", "LOADED"}
    /\ doc' = [k \in Kinds |-> "NONE"] /\ keyed' = None /\ lr' = NoLr
    /\ UNCHANGED <<draft, gate, loaded>>

ReassignTransporter ==
    /\ Unlocked /\ load.stage = "TRIP_CREATED" /\ Untouched
    /\ lr.status \in {"NONE", "BOOKED"}
    /\ load' = [stage |-> "OPEN", vehicle |-> None]
    /\ trip' = [trip EXCEPT !.stage = "CANCELLED", !.supervisor = None]
    /\ marks' = marks \ {"STARTED", "LOADED"}
    /\ doc' = [k \in Kinds |-> "NONE"] /\ keyed' = None /\ lr' = NoLr
    /\ UNCHANGED <<draft, gate, loaded>>

(* mutant: the revived trip keeps the removed transporter's truck *)
ReviveWithTruck ==
    /\ Unlocked /\ load.stage = "OPEN" /\ trip.stage = "CANCELLED"
    /\ load' = [load EXCEPT !.stage = "TRIP_CREATED"]
    /\ trip' = [trip EXCEPT !.stage = "OPEN", !.supervisor = None]
    /\ marks' = marks \ {"STARTED", "LOADED"}
    /\ UNCHANGED <<doc, keyed, lr, draft, gate, loaded>>

(* The next award brings the trip that was set aside back to life. *)
AwardAgain ==
    /\ Unlocked /\ load.stage = "OPEN" /\ trip.stage = "CANCELLED"
    /\ load' = [load EXCEPT !.stage = "TRIP_CREATED"]
    /\ trip' = [trip EXCEPT !.stage = "OPEN", !.vehicle = None, !.supervisor = None]
    /\ marks' = marks \ {"STARTED", "LOADED"}
    /\ UNCHANGED <<doc, keyed, lr, draft, gate, loaded>>

-----------------------------------------------------------------------------
VehicleStep == \E v \in Trucks : Placement(v) \/ CorrectVehicle(v)

LoadingStep ==
    \/ \E s \in Supervisors : AssignLoadingSupervisor(s)
    \/ StartLoading \/ CompleteLoading
    \/ TrackReachedLoading \/ TrackLoaded \/ TrackReached

PaperStep ==
    \/ \E k \in Kinds, n \in Truck : SubmitDocument(k, n) \/ VerifyDocument(k, n)
    \/ \E k \in Kinds : RejectDocument(k)
    \/ Override("NO", "ASKED") \/ Override("ASKED", "YES") \/ Override("ASKED", "NO")

LrStep == PatchLrRead \/ (\E n \in Truck : PatchLrWrite(n)) \/ GenerateLr

RoadStep == AdvanceCheck \/ AdvancePay \/ DepartCheck \/ Depart \/ GateLost \/ Deliver

BackStep == Cancel \/ ReassignTransporter \/ AwardAgain

Next == VehicleStep \/ LoadingStep \/ PaperStep \/ LrStep \/ RoadStep \/ BackStep

Spec == Init /\ [][Next]_vars

-----------------------------------------------------------------------------
(* Properties *)

OnTheRoad == trip.stage \in {"IN_TRANSIT", "DELIVERED"}

TypeOK ==
    /\ load \in LoadRow /\ trip \in TripRow /\ lr \in LrRow /\ draft \in DraftReq
    /\ marks \subseteq Marks
    /\ doc \in [Kinds -> DocStatus] /\ keyed \in Truck /\ loaded \in Truck
    /\ gate \in {"NONE", "ADVANCE", "DEPART"}

(* The milestones keep their order through two ways of recording them, a    *)
(* change of supervisor and a change of transporter: loaded means loading   *)
(* started, started means the loading point was reached, and only a truck   *)
(* that left can have reached the unloading point.                          *)
MilestonesInOrder ==
    /\ "LOADED" \in marks => "STARTED" \in marks
    /\ "STARTED" \in marks => "REACHED_LOADING" \in marks
    /\ "REACHED" \in marks => OnTheRoad

(* The load and its live trip name the same truck, through allocation,      *)
(* swaps, corrections, reassignment and the next award.                     *)
OneTruck == trip.stage # "CANCELLED" => /\ load.stage = "TRIP_CREATED"
                                        /\ trip.vehicle = load.vehicle

(* A truck on the road was allocated and marked as loaded, and its papers   *)
(* were handed in or are covered by a receipt: none of it can be taken away *)
(* between the check and the departure, nor afterwards.                     *)
LeftWithPapers ==
    OnTheRoad \/ gate = "DEPART" =>
        /\ trip.vehicle # None /\ "LOADED" \in marks
        /\ \A k \in Kinds : doc[k] # "NONE" \/ (k = "LOADING_SLIP" /\ lr.code = "LR")

(* An issued lorry receipt is never withdrawn or reissued, and a receipt's  *)
(* status follows its trip.                                                 *)
Rank(s) == CASE s = "NONE" -> 0 [] s = "BOOKED" -> 1 [] s = "RELEASED" -> 2
             [] s = "IN_TRANSIT" -> 3 [] s = "DELIVERED" -> 4
LrOnlyAdvances ==
    [][/\ lr.code = "LR" => lr'.code = "LR" /\ Rank(lr'.status) >= Rank(lr.status)
       /\ lr'.status # lr.status =>
             /\ lr'.status = "IN_TRANSIT" => trip'.stage = "IN_TRANSIT"
             /\ lr'.status = "DELIVERED" => trip'.stage = "DELIVERED"]_vars

-----------------------------------------------------------------------------
(* What the repository also says and the code does not do; no run checks   *)
(* these: see README, Deviations without a run.                            *)

(* What depart's comment says: "A truck is not sent off until someone has   *)
(* marked it loaded".                                                       *)
LoadedTruckLeaves == trip.stage = "IN_TRANSIT" => loaded = trip.vehicle

(* What findIssuedLrCode's comment says: "The trip's E-LR number once it is *)
(* issued — a draft has none"; so only an issued receipt stands in for the  *)
(* loading slip when the advance is released.                               *)
DraftIsNotAnLr ==
    [][trip.advance = "UNPAID" /\ trip'.advance = "PAID" /\ doc["LOADING_SLIP"] = "NONE"
         => lr.code = "LR"]_vars
=============================================================================
