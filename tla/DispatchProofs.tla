--------------------------- MODULE DispatchProofs ---------------------------
(***************************************************************************)
(* Dispatch for any number of trucks and supervisors: the type invariant,  *)
(* milestones in order, one truck on load and trip, no departure without   *)
(* papers, and a lorry receipt that is never undone.                       *)
(***************************************************************************)
EXTENDS Dispatch, TLAPS

(* What the code of a receipt says of its status, and what the lock that   *)
(* departure holds keeps from happening to it.                             *)
LrInv ==
    /\ lr.status = "NONE" <=> lr.code = "NONE"
    /\ lr.code = "LR" => lr.status \notin {"NONE", "BOOKED"}
    /\ lr.status = "RELEASED" => lr.code = "LR"
    /\ gate = "DEPART" => lr.status \in {"NONE", "RELEASED"}

(* An open load has no truck, and the trip about to depart is open. *)
OpenInv ==
    /\ load.stage = "OPEN" => load.vehicle = None
    /\ gate = "DEPART" => trip.stage = "OPEN"

IInv == TypeOK /\ LrInv /\ OpenInv /\ MilestonesInOrder /\ OneTruck /\ LeftWithPapers

-----------------------------------------------------------------------------
(* The rows keep their types. *)
LEMMA TypeStep ==
    ASSUME TypeOK, [Next]_vars
    PROVE  TypeOK'
<1>1. ASSUME NEW v \in Trucks, Placement(v) PROVE TypeOK'
  BY <1>1 DEF Placement, TypeOK, LoadRow, TripRow, Truck
<1>2. ASSUME NEW v \in Trucks, CorrectVehicle(v) PROVE TypeOK'
  BY <1>2 DEF CorrectVehicle, Renumbered, TypeOK, LoadRow, TripRow, LrRow, Truck
<1>3. ASSUME NEW s \in Supervisors, AssignLoadingSupervisor(s) PROVE TypeOK'
  BY <1>3 DEF AssignLoadingSupervisor, TypeOK, TripRow
<1>4. ASSUME StartLoading PROVE TypeOK'
  BY <1>4 DEF StartLoading, Mark, TypeOK, Marks
<1>5. ASSUME CompleteLoading PROVE TypeOK'
  BY <1>5 DEF CompleteLoading, Mark, TypeOK, Marks, TripRow
<1>6. ASSUME TrackReachedLoading PROVE TypeOK'
  BY <1>6 DEF TrackReachedLoading, Mark, TypeOK, Marks
<1>7. ASSUME TrackLoaded PROVE TypeOK'
  BY <1>7 DEF TrackLoaded, Mark, TypeOK, Marks, TripRow
<1>8. ASSUME TrackReached PROVE TypeOK'
  BY <1>8 DEF TrackReached, Mark, TypeOK, Marks
<1>9. ASSUME NEW k \in Kinds, NEW n \in Truck, SubmitDocument(k, n) PROVE TypeOK'
  BY <1>9 DEF SubmitDocument, Keyable, TypeOK, DocStatus, Truck
<1>10. ASSUME NEW k \in Kinds, NEW n \in Truck, VerifyDocument(k, n) PROVE TypeOK'
  BY <1>10 DEF VerifyDocument, Keyable, TypeOK, DocStatus, Truck
<1>11. ASSUME NEW k \in Kinds, RejectDocument(k) PROVE TypeOK'
  BY <1>11 DEF RejectDocument, TypeOK, DocStatus
<1>12. ASSUME NEW a \in {"NO", "ASKED"},
              NEW b \in {"NO", "ASKED", "YES"}, Override(a, b) PROVE TypeOK'
  BY <1>12 DEF Override, TypeOK, TripRow
<1>13. ASSUME PatchLrRead PROVE TypeOK'
  BY <1>13 DEF PatchLrRead, NoDraft, TypeOK, DraftReq, TripRow, Truck
<1>14. ASSUME NEW n \in Truck, PatchLrWrite(n) PROVE TypeOK'
  <2>1. draft.vehicle \in Truck BY DEF TypeOK, DraftReq
  <2>2. lr' \in LrRow
    <3>1. CASE lr.status = "NONE"
      BY <1>14, <2>1, <3>1 DEF PatchLrWrite, NewDraft, LrRow, LrStatus
    <3>2. CASE lr.status # "NONE"
      <4>1. PICK w \in Truck : lr' = [lr EXCEPT !.vehicle = w]
        BY <1>14, <2>1, <3>2 DEF PatchLrWrite, TypeOK, LrRow
      <4> QED BY <4>1 DEF TypeOK, LrRow
    <3> QED BY <3>1, <3>2
  <2>3. draft' \in DraftReq
    BY <1>14 DEF PatchLrWrite, NoDraft, DraftReq, Truck
  <2> QED BY <1>14, <2>2, <2>3 DEF PatchLrWrite, TypeOK
<1>15. ASSUME GenerateLr PROVE TypeOK'
  <2>1. lr' \in LrRow
    BY <1>15 DEF GenerateLr, TypeOK, LrRow, LrStatus
  <2> QED BY <1>15, <2>1 DEF GenerateLr, TypeOK
<1>16. ASSUME AdvanceCheck PROVE TypeOK'
  BY <1>16 DEF AdvanceCheck, Enter, TypeOK
<1>17. ASSUME AdvancePay PROVE TypeOK'
  BY <1>17 DEF AdvancePay, TypeOK, TripRow
<1>18. ASSUME DepartCheck PROVE TypeOK'
  BY <1>18 DEF DepartCheck, Enter, Covered, TypeOK
<1>19. ASSUME Depart PROVE TypeOK'
  BY <1>19 DEF Depart, LrMoves, TypeOK, TripRow, LrRow, LrStatus
<1>20. ASSUME GateLost PROVE TypeOK'
  BY <1>20 DEF GateLost, TypeOK
<1>21. ASSUME Deliver PROVE TypeOK'
  BY <1>21 DEF Deliver, LrMoves, TypeOK, TripRow, Marks, LrRow, LrStatus
<1>22. ASSUME Cancel PROVE TypeOK'
  BY <1>22 DEF Cancel, Untouched, TypeOK, LoadRow, TripRow
<1>23. ASSUME ReassignTransporter PROVE TypeOK'
  BY <1>23 DEF ReassignTransporter, Untouched, NoLr, TypeOK, LoadRow, TripRow, LrRow,
         LrStatus, DocStatus, Truck
<1>24. ASSUME AwardAgain PROVE TypeOK'
  BY <1>24 DEF AwardAgain, TypeOK, LoadRow, TripRow, Truck
<1>25. CASE UNCHANGED vars
  BY <1>25 DEF vars, TypeOK
<1> QED BY <1>1, <1>2, <1>3, <1>4, <1>5, <1>6, <1>7, <1>8, <1>9, <1>10, <1>11, <1>12, <1>13,
           <1>14, <1>15, <1>16, <1>17, <1>18, <1>19, <1>20, <1>21, <1>22, <1>23, <1>24, <1>25
        DEF Next, VehicleStep, LoadingStep, PaperStep, LrStep, RoadStep, BackStep

-----------------------------------------------------------------------------
(* Code and status of the receipt agree; departure's lock keeps the one it saw. *)
LEMMA LrStepInv ==
    ASSUME TypeOK, LrInv, [Next]_vars
    PROVE  LrInv'
<1>1. ASSUME NEW v \in Trucks, Placement(v) PROVE LrInv'
  BY <1>1 DEF Placement, Unlocked, LrInv, TypeOK, LrRow, LrStatus
<1>2. ASSUME NEW v \in Trucks, CorrectVehicle(v) PROVE LrInv'
  BY <1>2 DEF CorrectVehicle, Renumbered, Unlocked, LrInv, TypeOK, LrRow, LrStatus
<1>3. ASSUME NEW s \in Supervisors, AssignLoadingSupervisor(s) PROVE LrInv'
  BY <1>3 DEF AssignLoadingSupervisor, Unlocked, LrInv, TypeOK, LrRow, LrStatus
<1>4. ASSUME StartLoading PROVE LrInv'
  BY <1>4 DEF StartLoading, Mark, Unlocked, LrInv, TypeOK, LrRow, LrStatus
<1>5. ASSUME CompleteLoading PROVE LrInv'
  BY <1>5 DEF CompleteLoading, Mark, Unlocked, LrInv, TypeOK, LrRow, LrStatus
<1>6. ASSUME TrackReachedLoading PROVE LrInv'
  BY <1>6 DEF TrackReachedLoading, Mark, Unlocked, LrInv, TypeOK, LrRow, LrStatus
<1>7. ASSUME TrackLoaded PROVE LrInv'
  BY <1>7 DEF TrackLoaded, Mark, Unlocked, LrInv, TypeOK, LrRow, LrStatus
<1>8. ASSUME TrackReached PROVE LrInv'
  BY <1>8 DEF TrackReached, Mark, Unlocked, LrInv, TypeOK, LrRow, LrStatus
<1>9. ASSUME NEW k \in Kinds, NEW n \in Truck, SubmitDocument(k, n) PROVE LrInv'
  BY <1>9 DEF SubmitDocument, Keyable, Unlocked, LrInv, TypeOK, LrRow, LrStatus
<1>10. ASSUME NEW k \in Kinds, NEW n \in Truck, VerifyDocument(k, n) PROVE LrInv'
  BY <1>10 DEF VerifyDocument, Keyable, Unlocked, LrInv, TypeOK, LrRow, LrStatus
<1>11. ASSUME NEW k \in Kinds, RejectDocument(k) PROVE LrInv'
  BY <1>11 DEF RejectDocument, Unlocked, LrInv, TypeOK, LrRow, LrStatus
<1>12. ASSUME NEW a \in {"NO", "ASKED"},
              NEW b \in {"NO", "ASKED", "YES"}, Override(a, b) PROVE LrInv'
  BY <1>12 DEF Override, Unlocked, LrInv, TypeOK, LrRow, LrStatus
<1>13. ASSUME PatchLrRead PROVE LrInv'
  BY <1>13 DEF PatchLrRead, NoDraft, Unlocked, LrInv, TypeOK, LrRow, LrStatus
<1>14. ASSUME NEW n \in Truck, PatchLrWrite(n) PROVE LrInv'
  BY <1>14 DEF PatchLrWrite, NewDraft, NoDraft, Unlocked, LrInv, TypeOK, LrRow, LrStatus
<1>15. ASSUME GenerateLr PROVE LrInv'
  BY <1>15 DEF GenerateLr, Unlocked, LrInv, TypeOK, LrRow, LrStatus
<1>16. ASSUME AdvanceCheck PROVE LrInv'
  BY <1>16 DEF AdvanceCheck, Enter, Unlocked, LrInv, TypeOK, LrRow, LrStatus
<1>17. ASSUME AdvancePay PROVE LrInv'
  BY <1>17 DEF AdvancePay, Unlocked, LrInv, TypeOK, LrRow, LrStatus
<1>18. ASSUME DepartCheck PROVE LrInv'
  BY <1>18 DEF DepartCheck, Enter, Covered, Unlocked, LrInv, TypeOK, LrRow, LrStatus
<1>19. ASSUME Depart PROVE LrInv'
  BY <1>19 DEF Depart, LrMoves, Unlocked, LrInv, TypeOK, LrRow, LrStatus
<1>20. ASSUME GateLost PROVE LrInv'
  BY <1>20 DEF GateLost, Unlocked, LrInv, TypeOK, LrRow, LrStatus
<1>21. ASSUME Deliver PROVE LrInv'
  BY <1>21 DEF Deliver, LrMoves, Unlocked, LrInv, TypeOK, LrRow, LrStatus
<1>22. ASSUME Cancel PROVE LrInv'
  BY <1>22 DEF Cancel, Untouched, Unlocked, LrInv, TypeOK, LrRow, LrStatus
<1>23. ASSUME ReassignTransporter PROVE LrInv'
  BY <1>23 DEF ReassignTransporter, Untouched, NoLr, Unlocked, LrInv, TypeOK, LrRow,
         LrStatus
<1>24. ASSUME AwardAgain PROVE LrInv'
  BY <1>24 DEF AwardAgain, Unlocked, LrInv, TypeOK, LrRow, LrStatus
<1>25. CASE UNCHANGED vars
  BY <1>25 DEF vars, LrInv
<1> QED BY <1>1, <1>2, <1>3, <1>4, <1>5, <1>6, <1>7, <1>8, <1>9, <1>10, <1>11, <1>12, <1>13,
           <1>14, <1>15, <1>16, <1>17, <1>18, <1>19, <1>20, <1>21, <1>22, <1>23, <1>24, <1>25
        DEF Next, VehicleStep, LoadingStep, PaperStep, LrStep, RoadStep, BackStep

-----------------------------------------------------------------------------
(* The milestones keep their order. *)
LEMMA MilestonesStep ==
    ASSUME TypeOK, MilestonesInOrder, [Next]_vars
    PROVE  MilestonesInOrder'
<1>1. ASSUME NEW v \in Trucks, Placement(v) PROVE MilestonesInOrder'
  BY <1>1 DEF Placement, Unlocked, MilestonesInOrder, OnTheRoad, TypeOK, TripRow
<1>2. ASSUME NEW v \in Trucks, CorrectVehicle(v) PROVE MilestonesInOrder'
  BY <1>2 DEF CorrectVehicle, Renumbered, Unlocked, MilestonesInOrder, OnTheRoad, TypeOK,
         TripRow
<1>3. ASSUME NEW s \in Supervisors, AssignLoadingSupervisor(s) PROVE MilestonesInOrder'
  BY <1>3 DEF AssignLoadingSupervisor, Unlocked, MilestonesInOrder, OnTheRoad, TypeOK,
         TripRow
<1>4. ASSUME StartLoading PROVE MilestonesInOrder'
  BY <1>4 DEF StartLoading, Mark, Unlocked, MilestonesInOrder, OnTheRoad, TypeOK, TripRow
<1>5. ASSUME CompleteLoading PROVE MilestonesInOrder'
  BY <1>5 DEF CompleteLoading, Mark, Unlocked, MilestonesInOrder, OnTheRoad, TypeOK, TripRow
<1>6. ASSUME TrackReachedLoading PROVE MilestonesInOrder'
  BY <1>6 DEF TrackReachedLoading, Mark, Unlocked, MilestonesInOrder, OnTheRoad, TypeOK,
         TripRow
<1>7. ASSUME TrackLoaded PROVE MilestonesInOrder'
  BY <1>7 DEF TrackLoaded, Mark, Unlocked, MilestonesInOrder, OnTheRoad, TypeOK, TripRow
<1>8. ASSUME TrackReached PROVE MilestonesInOrder'
  BY <1>8 DEF TrackReached, Mark, Unlocked, MilestonesInOrder, OnTheRoad, TypeOK, TripRow
<1>9. ASSUME NEW k \in Kinds, NEW n \in Truck, SubmitDocument(k, n) PROVE MilestonesInOrder'
  BY <1>9 DEF SubmitDocument, Keyable, Unlocked, MilestonesInOrder, OnTheRoad, TypeOK,
         TripRow
<1>10. ASSUME NEW k \in Kinds, NEW n \in Truck, VerifyDocument(k, n) PROVE MilestonesInOrder'
  BY <1>10 DEF VerifyDocument, Keyable, Unlocked, MilestonesInOrder, OnTheRoad, TypeOK,
         TripRow
<1>11. ASSUME NEW k \in Kinds, RejectDocument(k) PROVE MilestonesInOrder'
  BY <1>11 DEF RejectDocument, Unlocked, MilestonesInOrder, OnTheRoad, TypeOK, TripRow
<1>12. ASSUME NEW a \in {"NO", "ASKED"},
              NEW b \in {"NO", "ASKED", "YES"}, Override(a, b) PROVE MilestonesInOrder'
  BY <1>12 DEF Override, Unlocked, MilestonesInOrder, OnTheRoad, TypeOK, TripRow
<1>13. ASSUME PatchLrRead PROVE MilestonesInOrder'
  BY <1>13 DEF PatchLrRead, NoDraft, Unlocked, MilestonesInOrder, OnTheRoad, TypeOK, TripRow
<1>14. ASSUME NEW n \in Truck, PatchLrWrite(n) PROVE MilestonesInOrder'
  BY <1>14 DEF PatchLrWrite, NewDraft, NoDraft, Unlocked, MilestonesInOrder, OnTheRoad,
         TypeOK, TripRow
<1>15. ASSUME GenerateLr PROVE MilestonesInOrder'
  BY <1>15 DEF GenerateLr, Unlocked, MilestonesInOrder, OnTheRoad, TypeOK, TripRow
<1>16. ASSUME AdvanceCheck PROVE MilestonesInOrder'
  BY <1>16 DEF AdvanceCheck, Enter, Unlocked, MilestonesInOrder, OnTheRoad, TypeOK, TripRow
<1>17. ASSUME AdvancePay PROVE MilestonesInOrder'
  BY <1>17 DEF AdvancePay, Unlocked, MilestonesInOrder, OnTheRoad, TypeOK, TripRow
<1>18. ASSUME DepartCheck PROVE MilestonesInOrder'
  BY <1>18 DEF DepartCheck, Enter, Covered, Unlocked, MilestonesInOrder, OnTheRoad, TypeOK,
         TripRow
<1>19. ASSUME Depart PROVE MilestonesInOrder'
  BY <1>19 DEF Depart, LrMoves, Unlocked, MilestonesInOrder, OnTheRoad, TypeOK, TripRow
<1>20. ASSUME GateLost PROVE MilestonesInOrder'
  BY <1>20 DEF GateLost, Unlocked, MilestonesInOrder, OnTheRoad, TypeOK, TripRow
<1>21. ASSUME Deliver PROVE MilestonesInOrder'
  BY <1>21 DEF Deliver, LrMoves, Unlocked, MilestonesInOrder, OnTheRoad, TypeOK, TripRow
<1>22. ASSUME Cancel PROVE MilestonesInOrder'
  BY <1>22 DEF Cancel, Untouched, Unlocked, MilestonesInOrder, OnTheRoad, TypeOK, TripRow
<1>23. ASSUME ReassignTransporter PROVE MilestonesInOrder'
  BY <1>23 DEF ReassignTransporter, Untouched, NoLr, Unlocked, MilestonesInOrder,
         OnTheRoad, TypeOK, TripRow
<1>24. ASSUME AwardAgain PROVE MilestonesInOrder'
  BY <1>24 DEF AwardAgain, Unlocked, MilestonesInOrder, OnTheRoad, TypeOK, TripRow
<1>25. CASE UNCHANGED vars
  BY <1>25 DEF vars, MilestonesInOrder, OnTheRoad
<1> QED BY <1>1, <1>2, <1>3, <1>4, <1>5, <1>6, <1>7, <1>8, <1>9, <1>10, <1>11, <1>12, <1>13,
           <1>14, <1>15, <1>16, <1>17, <1>18, <1>19, <1>20, <1>21, <1>22, <1>23, <1>24, <1>25
        DEF Next, VehicleStep, LoadingStep, PaperStep, LrStep, RoadStep, BackStep

-----------------------------------------------------------------------------
(* A load is open without a truck; departure holds an open trip. *)
LEMMA OpenStep ==
    ASSUME TypeOK, OpenInv, [Next]_vars
    PROVE  OpenInv'
<1>1. ASSUME NEW v \in Trucks, Placement(v) PROVE OpenInv'
  BY <1>1 DEF Placement, Unlocked, OpenInv, TypeOK, TripRow, LoadRow
<1>2. ASSUME NEW v \in Trucks, CorrectVehicle(v) PROVE OpenInv'
  BY <1>2 DEF CorrectVehicle, Renumbered, Unlocked, OpenInv, TypeOK, TripRow, LoadRow
<1>3. ASSUME NEW s \in Supervisors, AssignLoadingSupervisor(s) PROVE OpenInv'
  BY <1>3 DEF AssignLoadingSupervisor, Unlocked, OpenInv, TypeOK, TripRow, LoadRow
<1>4. ASSUME StartLoading PROVE OpenInv'
  BY <1>4 DEF StartLoading, Mark, Unlocked, OpenInv, TypeOK, TripRow, LoadRow
<1>5. ASSUME CompleteLoading PROVE OpenInv'
  BY <1>5 DEF CompleteLoading, Mark, Unlocked, OpenInv, TypeOK, TripRow, LoadRow
<1>6. ASSUME TrackReachedLoading PROVE OpenInv'
  BY <1>6 DEF TrackReachedLoading, Mark, Unlocked, OpenInv, TypeOK, TripRow, LoadRow
<1>7. ASSUME TrackLoaded PROVE OpenInv'
  BY <1>7 DEF TrackLoaded, Mark, Unlocked, OpenInv, TypeOK, TripRow, LoadRow
<1>8. ASSUME TrackReached PROVE OpenInv'
  BY <1>8 DEF TrackReached, Mark, Unlocked, OpenInv, TypeOK, TripRow, LoadRow
<1>9. ASSUME NEW k \in Kinds, NEW n \in Truck, SubmitDocument(k, n) PROVE OpenInv'
  BY <1>9 DEF SubmitDocument, Keyable, Unlocked, OpenInv, TypeOK, TripRow, LoadRow
<1>10. ASSUME NEW k \in Kinds, NEW n \in Truck, VerifyDocument(k, n) PROVE OpenInv'
  BY <1>10 DEF VerifyDocument, Keyable, Unlocked, OpenInv, TypeOK, TripRow, LoadRow
<1>11. ASSUME NEW k \in Kinds, RejectDocument(k) PROVE OpenInv'
  BY <1>11 DEF RejectDocument, Unlocked, OpenInv, TypeOK, TripRow, LoadRow
<1>12. ASSUME NEW a \in {"NO", "ASKED"},
              NEW b \in {"NO", "ASKED", "YES"}, Override(a, b) PROVE OpenInv'
  BY <1>12 DEF Override, Unlocked, OpenInv, TypeOK, TripRow, LoadRow
<1>13. ASSUME PatchLrRead PROVE OpenInv'
  BY <1>13 DEF PatchLrRead, NoDraft, Unlocked, OpenInv, TypeOK, TripRow, LoadRow
<1>14. ASSUME NEW n \in Truck, PatchLrWrite(n) PROVE OpenInv'
  BY <1>14 DEF PatchLrWrite, NewDraft, NoDraft, Unlocked, OpenInv, TypeOK, TripRow, LoadRow
<1>15. ASSUME GenerateLr PROVE OpenInv'
  BY <1>15 DEF GenerateLr, Unlocked, OpenInv, TypeOK, TripRow, LoadRow
<1>16. ASSUME AdvanceCheck PROVE OpenInv'
  BY <1>16 DEF AdvanceCheck, Enter, Unlocked, OpenInv, TypeOK, TripRow, LoadRow
<1>17. ASSUME AdvancePay PROVE OpenInv'
  BY <1>17 DEF AdvancePay, Unlocked, OpenInv, TypeOK, TripRow, LoadRow
<1>18. ASSUME DepartCheck PROVE OpenInv'
  BY <1>18 DEF DepartCheck, Enter, Covered, Unlocked, OpenInv, TypeOK, TripRow, LoadRow
<1>19. ASSUME Depart PROVE OpenInv'
  BY <1>19 DEF Depart, LrMoves, Unlocked, OpenInv, TypeOK, TripRow, LoadRow
<1>20. ASSUME GateLost PROVE OpenInv'
  BY <1>20 DEF GateLost, Unlocked, OpenInv, TypeOK, TripRow, LoadRow
<1>21. ASSUME Deliver PROVE OpenInv'
  BY <1>21 DEF Deliver, LrMoves, Unlocked, OpenInv, TypeOK, TripRow, LoadRow
<1>22. ASSUME Cancel PROVE OpenInv'
  BY <1>22 DEF Cancel, Untouched, Unlocked, OpenInv, TypeOK, TripRow, LoadRow
<1>23. ASSUME ReassignTransporter PROVE OpenInv'
  BY <1>23 DEF ReassignTransporter, Untouched, NoLr, Unlocked, OpenInv, TypeOK, TripRow,
         LoadRow
<1>24. ASSUME AwardAgain PROVE OpenInv'
  BY <1>24 DEF AwardAgain, Unlocked, OpenInv, TypeOK, TripRow, LoadRow
<1>25. CASE UNCHANGED vars
  BY <1>25 DEF vars, OpenInv
<1> QED BY <1>1, <1>2, <1>3, <1>4, <1>5, <1>6, <1>7, <1>8, <1>9, <1>10, <1>11, <1>12, <1>13,
           <1>14, <1>15, <1>16, <1>17, <1>18, <1>19, <1>20, <1>21, <1>22, <1>23, <1>24, <1>25
        DEF Next, VehicleStep, LoadingStep, PaperStep, LrStep, RoadStep, BackStep

(* Load and live trip change trucks together. *)
LEMMA OneTruckStep ==
    ASSUME TypeOK, OpenInv, OneTruck, [Next]_vars
    PROVE  OneTruck'
<1>1. ASSUME NEW v \in Trucks, Placement(v) PROVE OneTruck'
  BY <1>1 DEF Placement, Unlocked, OneTruck, OpenInv, TypeOK, TripRow, LoadRow
<1>2. ASSUME NEW v \in Trucks, CorrectVehicle(v) PROVE OneTruck'
  BY <1>2 DEF CorrectVehicle, Renumbered, Unlocked, OneTruck, OpenInv, TypeOK, TripRow,
         LoadRow
<1>3. ASSUME NEW s \in Supervisors, AssignLoadingSupervisor(s) PROVE OneTruck'
  BY <1>3 DEF AssignLoadingSupervisor, Unlocked, OneTruck, OpenInv, TypeOK, TripRow, LoadRow
<1>4. ASSUME StartLoading PROVE OneTruck'
  BY <1>4 DEF StartLoading, Mark, Unlocked, OneTruck, OpenInv, TypeOK, TripRow, LoadRow
<1>5. ASSUME CompleteLoading PROVE OneTruck'
  BY <1>5 DEF CompleteLoading, Mark, Unlocked, OneTruck, OpenInv, TypeOK, TripRow, LoadRow
<1>6. ASSUME TrackReachedLoading PROVE OneTruck'
  BY <1>6 DEF TrackReachedLoading, Mark, Unlocked, OneTruck, OpenInv, TypeOK, TripRow,
         LoadRow
<1>7. ASSUME TrackLoaded PROVE OneTruck'
  BY <1>7 DEF TrackLoaded, Mark, Unlocked, OneTruck, OpenInv, TypeOK, TripRow, LoadRow
<1>8. ASSUME TrackReached PROVE OneTruck'
  BY <1>8 DEF TrackReached, Mark, Unlocked, OneTruck, OpenInv, TypeOK, TripRow, LoadRow
<1>9. ASSUME NEW k \in Kinds, NEW n \in Truck, SubmitDocument(k, n) PROVE OneTruck'
  BY <1>9 DEF SubmitDocument, Keyable, Unlocked, OneTruck, OpenInv, TypeOK, TripRow, LoadRow
<1>10. ASSUME NEW k \in Kinds, NEW n \in Truck, VerifyDocument(k, n) PROVE OneTruck'
  BY <1>10 DEF VerifyDocument, Keyable, Unlocked, OneTruck, OpenInv, TypeOK, TripRow,
         LoadRow
<1>11. ASSUME NEW k \in Kinds, RejectDocument(k) PROVE OneTruck'
  BY <1>11 DEF RejectDocument, Unlocked, OneTruck, OpenInv, TypeOK, TripRow, LoadRow
<1>12. ASSUME NEW a \in {"NO", "ASKED"},
              NEW b \in {"NO", "ASKED", "YES"}, Override(a, b) PROVE OneTruck'
  BY <1>12 DEF Override, Unlocked, OneTruck, OpenInv, TypeOK, TripRow, LoadRow
<1>13. ASSUME PatchLrRead PROVE OneTruck'
  BY <1>13 DEF PatchLrRead, NoDraft, Unlocked, OneTruck, OpenInv, TypeOK, TripRow, LoadRow
<1>14. ASSUME NEW n \in Truck, PatchLrWrite(n) PROVE OneTruck'
  BY <1>14 DEF PatchLrWrite, NewDraft, NoDraft, Unlocked, OneTruck, OpenInv, TypeOK,
         TripRow, LoadRow
<1>15. ASSUME GenerateLr PROVE OneTruck'
  BY <1>15 DEF GenerateLr, Unlocked, OneTruck, OpenInv, TypeOK, TripRow, LoadRow
<1>16. ASSUME AdvanceCheck PROVE OneTruck'
  BY <1>16 DEF AdvanceCheck, Enter, Unlocked, OneTruck, OpenInv, TypeOK, TripRow, LoadRow
<1>17. ASSUME AdvancePay PROVE OneTruck'
  BY <1>17 DEF AdvancePay, Unlocked, OneTruck, OpenInv, TypeOK, TripRow, LoadRow
<1>18. ASSUME DepartCheck PROVE OneTruck'
  BY <1>18 DEF DepartCheck, Enter, Covered, Unlocked, OneTruck, OpenInv, TypeOK, TripRow,
         LoadRow
<1>19. ASSUME Depart PROVE OneTruck'
  BY <1>19 DEF Depart, LrMoves, Unlocked, OneTruck, OpenInv, TypeOK, TripRow, LoadRow
<1>20. ASSUME GateLost PROVE OneTruck'
  BY <1>20 DEF GateLost, Unlocked, OneTruck, OpenInv, TypeOK, TripRow, LoadRow
<1>21. ASSUME Deliver PROVE OneTruck'
  BY <1>21 DEF Deliver, LrMoves, Unlocked, OneTruck, OpenInv, TypeOK, TripRow, LoadRow
<1>22. ASSUME Cancel PROVE OneTruck'
  BY <1>22 DEF Cancel, Untouched, Unlocked, OneTruck, OpenInv, TypeOK, TripRow, LoadRow
<1>23. ASSUME ReassignTransporter PROVE OneTruck'
  BY <1>23 DEF ReassignTransporter, Untouched, NoLr, Unlocked, OneTruck, OpenInv, TypeOK,
         TripRow, LoadRow
<1>24. ASSUME AwardAgain PROVE OneTruck'
  BY <1>24 DEF AwardAgain, Unlocked, OneTruck, OpenInv, TypeOK, TripRow, LoadRow
<1>25. CASE UNCHANGED vars
  BY <1>25 DEF vars, OneTruck
<1> QED BY <1>1, <1>2, <1>3, <1>4, <1>5, <1>6, <1>7, <1>8, <1>9, <1>10, <1>11, <1>12, <1>13,
           <1>14, <1>15, <1>16, <1>17, <1>18, <1>19, <1>20, <1>21, <1>22, <1>23, <1>24, <1>25
        DEF Next, VehicleStep, LoadingStep, PaperStep, LrStep, RoadStep, BackStep

-----------------------------------------------------------------------------
(* What departure checked still holds when it commits, and ever after. *)
LEMMA PapersStep ==
    ASSUME TypeOK, LrInv, LeftWithPapers, [Next]_vars
    PROVE  LeftWithPapers'
<1>1. ASSUME NEW v \in Trucks, Placement(v) PROVE LeftWithPapers'
  BY <1>1, TruckAssumption DEF Placement, Unlocked, LeftWithPapers, OnTheRoad, LrInv,
         Kinds, TypeOK, TripRow, LrRow, LrStatus, DocStatus, Truck
<1>2. ASSUME NEW v \in Trucks, CorrectVehicle(v) PROVE LeftWithPapers'
  BY <1>2, TruckAssumption DEF CorrectVehicle, Renumbered, Unlocked, LeftWithPapers,
         OnTheRoad, LrInv, Kinds, TypeOK, TripRow, LrRow, LrStatus, DocStatus, Truck
<1>3. ASSUME NEW s \in Supervisors, AssignLoadingSupervisor(s) PROVE LeftWithPapers'
  BY <1>3, TruckAssumption DEF AssignLoadingSupervisor, Unlocked, LeftWithPapers,
         OnTheRoad, LrInv, Kinds, TypeOK, TripRow, LrRow, LrStatus, DocStatus, Truck
<1>4. ASSUME StartLoading PROVE LeftWithPapers'
  BY <1>4, TruckAssumption DEF StartLoading, Mark, Unlocked, LeftWithPapers, OnTheRoad,
         LrInv, Kinds, TypeOK, TripRow, LrRow, LrStatus, DocStatus, Truck
<1>5. ASSUME CompleteLoading PROVE LeftWithPapers'
  BY <1>5, TruckAssumption DEF CompleteLoading, Mark, Unlocked, LeftWithPapers, OnTheRoad,
         LrInv, Kinds, TypeOK, TripRow, LrRow, LrStatus, DocStatus, Truck
<1>6. ASSUME TrackReachedLoading PROVE LeftWithPapers'
  BY <1>6, TruckAssumption DEF TrackReachedLoading, Mark, Unlocked, LeftWithPapers,
         OnTheRoad, LrInv, Kinds, TypeOK, TripRow, LrRow, LrStatus, DocStatus, Truck
<1>7. ASSUME TrackLoaded PROVE LeftWithPapers'
  BY <1>7, TruckAssumption DEF TrackLoaded, Mark, Unlocked, LeftWithPapers, OnTheRoad,
         LrInv, Kinds, TypeOK, TripRow, LrRow, LrStatus, DocStatus, Truck
<1>8. ASSUME TrackReached PROVE LeftWithPapers'
  BY <1>8, TruckAssumption DEF TrackReached, Mark, Unlocked, LeftWithPapers, OnTheRoad,
         LrInv, Kinds, TypeOK, TripRow, LrRow, LrStatus, DocStatus, Truck
<1>9. ASSUME NEW k \in Kinds, NEW n \in Truck, SubmitDocument(k, n) PROVE LeftWithPapers'
  BY <1>9, TruckAssumption DEF SubmitDocument, Keyable, Unlocked, LeftWithPapers,
         OnTheRoad, LrInv, Kinds, TypeOK, TripRow, LrRow, LrStatus, DocStatus, Truck
<1>10. ASSUME NEW k \in Kinds, NEW n \in Truck, VerifyDocument(k, n) PROVE LeftWithPapers'
  BY <1>10, TruckAssumption DEF VerifyDocument, Keyable, Unlocked, LeftWithPapers,
         OnTheRoad, LrInv, Kinds, TypeOK, TripRow, LrRow, LrStatus, DocStatus, Truck
<1>11. ASSUME NEW k \in Kinds, RejectDocument(k) PROVE LeftWithPapers'
  BY <1>11, TruckAssumption DEF RejectDocument, Unlocked, LeftWithPapers, OnTheRoad, LrInv,
         Kinds, TypeOK, TripRow, LrRow, LrStatus, DocStatus, Truck
<1>12. ASSUME NEW a \in {"NO", "ASKED"},
              NEW b \in {"NO", "ASKED", "YES"}, Override(a, b) PROVE LeftWithPapers'
  BY <1>12, TruckAssumption DEF Override, Unlocked, LeftWithPapers, OnTheRoad, LrInv,
         Kinds, TypeOK, TripRow, LrRow, LrStatus, DocStatus, Truck
<1>13. ASSUME PatchLrRead PROVE LeftWithPapers'
  BY <1>13, TruckAssumption DEF PatchLrRead, NoDraft, Unlocked, LeftWithPapers, OnTheRoad,
         LrInv, Kinds, TypeOK, TripRow, LrRow, LrStatus, DocStatus, Truck
<1>14. ASSUME NEW n \in Truck, PatchLrWrite(n) PROVE LeftWithPapers'
  BY <1>14, TruckAssumption DEF PatchLrWrite, NewDraft, NoDraft, Unlocked, LeftWithPapers,
         OnTheRoad, LrInv, Kinds, TypeOK, TripRow, LrRow, LrStatus, DocStatus, Truck
<1>15. ASSUME GenerateLr PROVE LeftWithPapers'
  BY <1>15, TruckAssumption DEF GenerateLr, Unlocked, LeftWithPapers, OnTheRoad, LrInv,
         Kinds, TypeOK, TripRow, LrRow, LrStatus, DocStatus, Truck
<1>16. ASSUME AdvanceCheck PROVE LeftWithPapers'
  BY <1>16, TruckAssumption DEF AdvanceCheck, Enter, Unlocked, LeftWithPapers, OnTheRoad,
         LrInv, Kinds, TypeOK, TripRow, LrRow, LrStatus, DocStatus, Truck
<1>17. ASSUME AdvancePay PROVE LeftWithPapers'
  BY <1>17, TruckAssumption DEF AdvancePay, Unlocked, LeftWithPapers, OnTheRoad, LrInv,
         Kinds, TypeOK, TripRow, LrRow, LrStatus, DocStatus, Truck
<1>18. ASSUME DepartCheck PROVE LeftWithPapers'
  BY <1>18, TruckAssumption DEF DepartCheck, Enter, Covered, Unlocked, LeftWithPapers,
         OnTheRoad, LrInv, Kinds, TypeOK, TripRow, LrRow, LrStatus, DocStatus, Truck
<1>19. ASSUME Depart PROVE LeftWithPapers'
  BY <1>19, TruckAssumption DEF Depart, LrMoves, Unlocked, LeftWithPapers, OnTheRoad,
         LrInv, Kinds, TypeOK, TripRow, LrRow, LrStatus, DocStatus, Truck
<1>20. ASSUME GateLost PROVE LeftWithPapers'
  BY <1>20, TruckAssumption DEF GateLost, Unlocked, LeftWithPapers, OnTheRoad, LrInv,
         Kinds, TypeOK, TripRow, LrRow, LrStatus, DocStatus, Truck
<1>21. ASSUME Deliver PROVE LeftWithPapers'
  BY <1>21, TruckAssumption DEF Deliver, LrMoves, Unlocked, LeftWithPapers, OnTheRoad,
         LrInv, Kinds, TypeOK, TripRow, LrRow, LrStatus, DocStatus, Truck
<1>22. ASSUME Cancel PROVE LeftWithPapers'
  BY <1>22, TruckAssumption DEF Cancel, Untouched, Unlocked, LeftWithPapers, OnTheRoad,
         LrInv, Kinds, TypeOK, TripRow, LrRow, LrStatus, DocStatus, Truck
<1>23. ASSUME ReassignTransporter PROVE LeftWithPapers'
  BY <1>23, TruckAssumption DEF ReassignTransporter, Untouched, NoLr, Unlocked,
         LeftWithPapers, OnTheRoad, LrInv, Kinds, TypeOK, TripRow, LrRow, LrStatus,
         DocStatus, Truck
<1>24. ASSUME AwardAgain PROVE LeftWithPapers'
  BY <1>24, TruckAssumption DEF AwardAgain, Unlocked, LeftWithPapers, OnTheRoad, LrInv,
         Kinds, TypeOK, TripRow, LrRow, LrStatus, DocStatus, Truck
<1>25. CASE UNCHANGED vars
  BY <1>25 DEF vars, LeftWithPapers, OnTheRoad
<1> QED BY <1>1, <1>2, <1>3, <1>4, <1>5, <1>6, <1>7, <1>8, <1>9, <1>10, <1>11, <1>12, <1>13,
           <1>14, <1>15, <1>16, <1>17, <1>18, <1>19, <1>20, <1>21, <1>22, <1>23, <1>24, <1>25
        DEF Next, VehicleStep, LoadingStep, PaperStep, LrStep, RoadStep, BackStep

-----------------------------------------------------------------------------
(* No step takes a receipt back. *)
LrAdvances ==
    /\ lr.code = "LR" => lr'.code = "LR" /\ Rank(lr'.status) >= Rank(lr.status)
    /\ lr'.status # lr.status =>
          /\ lr'.status = "IN_TRANSIT" => trip'.stage = "IN_TRANSIT"
          /\ lr'.status = "DELIVERED" => trip'.stage = "DELIVERED"

LEMMA LrAdvancesStep ==
    ASSUME TypeOK, LrInv, [Next]_vars
    PROVE  LrAdvances
<1>1. ASSUME NEW v \in Trucks, Placement(v) PROVE LrAdvances
  BY <1>1 DEF Placement, Unlocked, LrAdvances, Rank, LrInv, TypeOK, LrRow, LrStatus, TripRow
<1>2. ASSUME NEW v \in Trucks, CorrectVehicle(v) PROVE LrAdvances
  BY <1>2 DEF CorrectVehicle, Renumbered, Unlocked, LrAdvances, Rank, LrInv, TypeOK, LrRow,
         LrStatus, TripRow
<1>3. ASSUME NEW s \in Supervisors, AssignLoadingSupervisor(s) PROVE LrAdvances
  BY <1>3 DEF AssignLoadingSupervisor, Unlocked, LrAdvances, Rank, LrInv, TypeOK, LrRow,
         LrStatus, TripRow
<1>4. ASSUME StartLoading PROVE LrAdvances
  BY <1>4 DEF StartLoading, Mark, Unlocked, LrAdvances, Rank, LrInv, TypeOK, LrRow,
         LrStatus, TripRow
<1>5. ASSUME CompleteLoading PROVE LrAdvances
  BY <1>5 DEF CompleteLoading, Mark, Unlocked, LrAdvances, Rank, LrInv, TypeOK, LrRow,
         LrStatus, TripRow
<1>6. ASSUME TrackReachedLoading PROVE LrAdvances
  BY <1>6 DEF TrackReachedLoading, Mark, Unlocked, LrAdvances, Rank, LrInv, TypeOK, LrRow,
         LrStatus, TripRow
<1>7. ASSUME TrackLoaded PROVE LrAdvances
  BY <1>7 DEF TrackLoaded, Mark, Unlocked, LrAdvances, Rank, LrInv, TypeOK, LrRow,
         LrStatus, TripRow
<1>8. ASSUME TrackReached PROVE LrAdvances
  BY <1>8 DEF TrackReached, Mark, Unlocked, LrAdvances, Rank, LrInv, TypeOK, LrRow,
         LrStatus, TripRow
<1>9. ASSUME NEW k \in Kinds, NEW n \in Truck, SubmitDocument(k, n) PROVE LrAdvances
  BY <1>9 DEF SubmitDocument, Keyable, Unlocked, LrAdvances, Rank, LrInv, TypeOK, LrRow,
         LrStatus, TripRow
<1>10. ASSUME NEW k \in Kinds, NEW n \in Truck, VerifyDocument(k, n) PROVE LrAdvances
  BY <1>10 DEF VerifyDocument, Keyable, Unlocked, LrAdvances, Rank, LrInv, TypeOK, LrRow,
         LrStatus, TripRow
<1>11. ASSUME NEW k \in Kinds, RejectDocument(k) PROVE LrAdvances
  BY <1>11 DEF RejectDocument, Unlocked, LrAdvances, Rank, LrInv, TypeOK, LrRow, LrStatus,
         TripRow
<1>12. ASSUME NEW a \in {"NO", "ASKED"},
              NEW b \in {"NO", "ASKED", "YES"}, Override(a, b) PROVE LrAdvances
  BY <1>12 DEF Override, Unlocked, LrAdvances, Rank, LrInv, TypeOK, LrRow, LrStatus, TripRow
<1>13. ASSUME PatchLrRead PROVE LrAdvances
  BY <1>13 DEF PatchLrRead, NoDraft, Unlocked, LrAdvances, Rank, LrInv, TypeOK, LrRow,
         LrStatus, TripRow
<1>14. ASSUME NEW n \in Truck, PatchLrWrite(n) PROVE LrAdvances
  BY <1>14 DEF PatchLrWrite, NewDraft, NoDraft, Unlocked, LrAdvances, Rank, LrInv, TypeOK,
         LrRow, LrStatus, TripRow
<1>15. ASSUME GenerateLr PROVE LrAdvances
  BY <1>15 DEF GenerateLr, Unlocked, LrAdvances, Rank, LrInv, TypeOK, LrRow, LrStatus,
         TripRow
<1>16. ASSUME AdvanceCheck PROVE LrAdvances
  BY <1>16 DEF AdvanceCheck, Enter, Unlocked, LrAdvances, Rank, LrInv, TypeOK, LrRow,
         LrStatus, TripRow
<1>17. ASSUME AdvancePay PROVE LrAdvances
  BY <1>17 DEF AdvancePay, Unlocked, LrAdvances, Rank, LrInv, TypeOK, LrRow, LrStatus,
         TripRow
<1>18. ASSUME DepartCheck PROVE LrAdvances
  BY <1>18 DEF DepartCheck, Enter, Covered, Unlocked, LrAdvances, Rank, LrInv, TypeOK,
         LrRow, LrStatus, TripRow
<1>19. ASSUME Depart PROVE LrAdvances
  BY <1>19 DEF Depart, LrMoves, Unlocked, LrAdvances, Rank, LrInv, TypeOK, LrRow, LrStatus,
         TripRow
<1>20. ASSUME GateLost PROVE LrAdvances
  BY <1>20 DEF GateLost, Unlocked, LrAdvances, Rank, LrInv, TypeOK, LrRow, LrStatus, TripRow
<1>21. ASSUME Deliver PROVE LrAdvances
  BY <1>21 DEF Deliver, LrMoves, Unlocked, LrAdvances, Rank, LrInv, TypeOK, LrRow,
         LrStatus, TripRow
<1>22. ASSUME Cancel PROVE LrAdvances
  BY <1>22 DEF Cancel, Untouched, Unlocked, LrAdvances, Rank, LrInv, TypeOK, LrRow,
         LrStatus, TripRow
<1>23. ASSUME ReassignTransporter PROVE LrAdvances
  BY <1>23 DEF ReassignTransporter, Untouched, NoLr, Unlocked, LrAdvances, Rank, LrInv,
         TypeOK, LrRow, LrStatus, TripRow
<1>24. ASSUME AwardAgain PROVE LrAdvances
  BY <1>24 DEF AwardAgain, Unlocked, LrAdvances, Rank, LrInv, TypeOK, LrRow, LrStatus,
         TripRow
<1>25. CASE UNCHANGED vars
  BY <1>25 DEF vars, LrAdvances, Rank, LrInv, TypeOK, LrRow, LrStatus, TripRow
<1> QED BY <1>1, <1>2, <1>3, <1>4, <1>5, <1>6, <1>7, <1>8, <1>9, <1>10, <1>11, <1>12, <1>13,
           <1>14, <1>15, <1>16, <1>17, <1>18, <1>19, <1>20, <1>21, <1>22, <1>23, <1>24, <1>25
        DEF Next, VehicleStep, LoadingStep, PaperStep, LrStep, RoadStep, BackStep

-----------------------------------------------------------------------------
LEMMA InductiveInit == Init => IInv
  BY DEF Init, IInv, TypeOK, LrInv, OpenInv, MilestonesInOrder, OneTruck, LeftWithPapers, OnTheRoad,
         NoLr, NoDraft, LoadRow, TripRow, LrRow, DraftReq, LrStatus, DocStatus, Marks, Truck

LEMMA InductiveStep == IInv /\ [Next]_vars => IInv'
  BY TypeStep, LrStepInv, OpenStep, MilestonesStep, OneTruckStep, PapersStep DEF IInv

LEMMA Inductive == Spec => []IInv
  BY InductiveInit, InductiveStep, PTL DEF Spec

(* Every handler of trips.service.ts and indents.service.ts leaves the rows *)
(* of the load, its trip, its papers and its receipt well formed.           *)
THEOREM TypeCorrect == Spec => []TypeOK
<1>1. IInv => TypeOK BY DEF IInv
<1> QED BY Inductive, <1>1, PTL

(* The supervisor's buttons, the tracking sheet, a change of supervisor and *)
(* a reassignment keep the milestones in order.                             *)
THEOREM MilestonesKept == Spec => []MilestonesInOrder
<1>1. IInv => MilestonesInOrder BY DEF IInv
<1> QED BY Inductive, <1>1, PTL

(* The load and its live trip name the same truck. *)
THEOREM SameTruck == Spec => []OneTruck
<1>1. IInv => OneTruck BY DEF IInv
<1> QED BY Inductive, <1>1, PTL

(* Whatever happens between departure's unlocked read of the papers and its *)
(* commit, a truck on the road was loaded and had its papers handed in.     *)
THEOREM NoDepartureWithoutPapers == Spec => []LeftWithPapers
<1>1. IInv => LeftWithPapers BY DEF IInv
<1> QED BY Inductive, <1>1, PTL

(* An issued lorry receipt is never undone and moves with its trip. *)
THEOREM ReceiptOnlyAdvances == Spec => LrOnlyAdvances
<1>1. IInv /\ [Next]_vars => [LrAdvances]_vars
  <2> SUFFICES ASSUME IInv, [Next]_vars PROVE LrAdvances
    OBVIOUS
  <2> QED BY LrAdvancesStep DEF IInv
<1>2. LrOnlyAdvances <=> [][LrAdvances]_vars
  BY PTL DEF LrOnlyAdvances, LrAdvances
<1> QED BY Inductive, <1>1, <1>2, PTL DEF Spec
=============================================================================
