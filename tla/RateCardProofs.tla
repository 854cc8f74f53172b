---------------------------- MODULE RateCardProofs ----------------------------
(***************************************************************************)
(* Proofs about RateCard: type correctness, that no two agreed rates are in *)
(* force on one day, and that a waiting change can be decided.              *)
(***************************************************************************)
EXTENDS RateCard, TLAPS

Deletes == {"DROPPING", "DROPPED", "REMOVING", "REMOVED"}

(* What a request at some stage, and a revision there is, refer to.         *)
Refers ==
    /\ \A r \in Revisions : revision[r].status # "NONE" => revision[r].lane \in Lanes
    /\ \A u \in Users : At(u, "PROPOSING") => request[u].lane \in Lanes
    /\ \A u \in Users : request[u].at \in {"INSERTED", "RAISED", "EDITING", "EDITED"}
          => request[u].revision \in Revisions
    /\ \A u \in Users : request[u].at \in Deletes /\ request[u].revision \in Revisions
          => revision[request[u].revision].status # "NONE"

TypeInv == TypeOK /\ Refers

-----------------------------------------------------------------------------
(* The rows keep their type *)

LEMMA BlankRows ==
    /\ NoFigures \in Figures /\ NoLane \in LaneRow
    /\ NoRevision \in RevisionRow /\ NoApproval \in ApprovalRow /\ Idle \in RequestRow
<1>1. NoFigures \in Figures
  BY RatesAssumption, MaxDayAssumption DEF NoFigures, Figures, Days, Ends, Forever
<1>2. NoFigures.rate \in Rates
  BY <1>1 DEF Figures
<1>3. NoLane \in LaneRow
  BY <1>2, MaxDayAssumption DEF NoLane, LaneRow, Days, Ends, Forever
<1> QED  BY <1>1, <1>3 DEF NoRevision, RevisionRow, NoApproval, ApprovalRow, Idle, RequestRow

LEMMA FigureParts ==
    ASSUME NEW f \in Figures
    PROVE  f.rate \in Rates /\ f.from \in Days /\ f.to \in Ends
BY DEF Figures

LEMMA DaysAreEnds == Days \subseteq Ends /\ Days \subseteq Int /\ Ends \subseteq Int /\ Forever \in Ends /\ 0 \in Days
BY MaxDayAssumption DEF Days, Ends, Forever

LEMMA LaneOfType ==
    ASSUME NEW f \in Figures
    PROVE  /\ LaneOf(f) \in LaneRow /\ LaneOf(f).state = "LIVE"
           /\ LaneOf(f).from = f.from /\ LaneOf(f).to = f.to
BY FigureParts DEF LaneOf, LaneRow

(* One field written in a row. *)
LEMMA RowFields ==
    /\ \A h \in LaneRow : [h EXCEPT !.state = "DELETED"] \in LaneRow
    /\ \A h \in RevisionRow, s \in {"PENDING", "APPLIED", "REJECTED"} : [h EXCEPT !.status = s] \in RevisionRow
    /\ \A h \in RevisionRow, f \in Figures : [h EXCEPT !.draft = f] \in RevisionRow
    /\ \A h \in RevisionRow, n \in Lanes : [h EXCEPT !.to = n] \in RevisionRow
    /\ \A h \in RevisionRow, a \in Approvals \cup {None} : [h EXCEPT !.approval = a] \in RevisionRow
    /\ \A h \in ApprovalRow, s \in {"PENDING", "APPROVED", "REJECTED"} : [h EXCEPT !.status = s] \in ApprovalRow
    /\ \A h \in ApprovalRow, f \in Figures : [h EXCEPT !.shown = f] \in ApprovalRow
    /\ \A h \in RequestRow, s \in Stages : [h EXCEPT !.at = s] \in RequestRow
    /\ \A h \in RequestRow, r \in Revisions : [h EXCEPT !.revision = r] \in RequestRow
    /\ \A h \in RequestRow, a \in Approvals : [h EXCEPT !.approval = a] \in RequestRow
<1>1. \A h \in LaneRow : [h EXCEPT !.state = "DELETED"] \in LaneRow
  BY DEF LaneRow
<1>2. \A h \in RevisionRow, s \in {"PENDING", "APPLIED", "REJECTED"} : [h EXCEPT !.status = s] \in RevisionRow
  BY DEF RevisionRow
<1>3. \A h \in RevisionRow, f \in Figures : [h EXCEPT !.draft = f] \in RevisionRow
  BY DEF RevisionRow
<1>4. \A h \in RevisionRow, n \in Lanes : [h EXCEPT !.to = n] \in RevisionRow
  BY DEF RevisionRow
<1>5. \A h \in RevisionRow, a \in Approvals \cup {None} : [h EXCEPT !.approval = a] \in RevisionRow
  BY DEF RevisionRow
<1>6. \A h \in ApprovalRow, s \in {"PENDING", "APPROVED", "REJECTED"} : [h EXCEPT !.status = s] \in ApprovalRow
  BY DEF ApprovalRow
<1>7. \A h \in ApprovalRow, f \in Figures : [h EXCEPT !.shown = f] \in ApprovalRow
  BY DEF ApprovalRow
<1>8. \A h \in RequestRow, s \in Stages : [h EXCEPT !.at = s] \in RequestRow
  BY DEF RequestRow
<1>9. \A h \in RequestRow, r \in Revisions : [h EXCEPT !.revision = r] \in RequestRow
  BY DEF RequestRow
<1>10. \A h \in RequestRow, a \in Approvals : [h EXCEPT !.approval = a] \in RequestRow
  BY DEF RequestRow
<1> QED  BY <1>1, <1>2, <1>3, <1>4, <1>5, <1>6, <1>7, <1>8, <1>9, <1>10

(* The ways a request moves. *)
LEMMA RequestMoves ==
    ASSUME request \in [Users -> RequestRow], begun \in 0..MaxRequests, NEW u \in Users
    PROVE  /\ \A row \in RequestRow : Begins(u, row)
                => request' \in [Users -> RequestRow] /\ begun' \in 0..MaxRequests
           /\ \A s \in Stages : Goes(u, s)
                => /\ request' \in [Users -> RequestRow] /\ begun' = begun
                   /\ request'[u].at = s /\ request'[u].lane = request[u].lane
                   /\ request'[u].revision = request[u].revision
                   /\ request'[u].approval = request[u].approval
                   /\ request'[u].figures = request[u].figures
           /\ Done(u) => request' \in [Users -> RequestRow] /\ begun' = begun
<1>1. ASSUME NEW row \in RequestRow, Begins(u, row)
      PROVE  request' \in [Users -> RequestRow] /\ begun' \in 0..MaxRequests
  BY <1>1, MaxDayAssumption DEF Begins
<1>2. ASSUME NEW s \in Stages, Goes(u, s)
      PROVE  /\ request' \in [Users -> RequestRow] /\ begun' = begun
             /\ request'[u].at = s /\ request'[u].lane = request[u].lane
             /\ request'[u].revision = request[u].revision
             /\ request'[u].approval = request[u].approval
             /\ request'[u].figures = request[u].figures
  <2>1. request[u] \in RequestRow
    OBVIOUS
  <2>2. [request[u] EXCEPT !.at = s] \in RequestRow
    BY <2>1, RowFields
  <2>3. request'[u] = [request[u] EXCEPT !.at = s] /\ request' \in [Users -> RequestRow] /\ begun' = begun
    BY <1>2, <2>2 DEF Goes
  <2> QED  BY <2>1, <2>3 DEF RequestRow
<1>3. ASSUME Done(u)
      PROVE  request' \in [Users -> RequestRow] /\ begun' = begun
  BY <1>3, BlankRows DEF Done
<1> QED  BY <1>1, <1>2, <1>3

LEMMA ClosedWithType ==
    ASSUME revision \in [Revisions -> RevisionRow], NEW a
    PROVE  /\ ClosedWith(a) \in [Revisions -> RevisionRow]
           /\ \A r \in Revisions : ClosedWith(a)[r].lane = revision[r].lane
                                /\ (ClosedWith(a)[r].status = "NONE" <=> revision[r].status = "NONE")
<1>1. \A r \in Revisions : [revision[r] EXCEPT !.status = "REJECTED"] \in RevisionRow
  BY RowFields
<1>2. \A r \in Revisions : /\ [revision[r] EXCEPT !.status = "REJECTED"].lane = revision[r].lane
                           /\ [revision[r] EXCEPT !.status = "REJECTED"].status = "REJECTED"
  BY DEF RevisionRow
<1> QED  BY <1>1, <1>2 DEF ClosedWith

LEMMA DecidedType ==
    ASSUME approval \in [Approvals -> ApprovalRow], NEW a, NEW s \in {"APPROVED", "REJECTED"}
    PROVE  Decided(a, s) \in [Approvals -> ApprovalRow]
<1>1. \A b \in Approvals : [approval[b] EXCEPT !.status = s] \in ApprovalRow
  BY RowFields
<1> QED  BY <1>1 DEF Decided

LEMMA RejectedType ==
    ASSUME revision \in [Revisions -> RevisionRow], NEW r
    PROVE  /\ Rejected(r) \in [Revisions -> RevisionRow]
           /\ \A k \in Revisions : /\ Rejected(r)[k].lane = revision[k].lane
                                   /\ (r = k => Rejected(r)[k].status = "REJECTED")
                                   /\ (r # k => Rejected(r)[k] = revision[k])
<1>1. \A k \in Revisions : [revision[k] EXCEPT !.status = "REJECTED"] \in RevisionRow
  BY RowFields
<1>2. \A k \in Revisions : /\ [revision[k] EXCEPT !.status = "REJECTED"].lane = revision[k].lane
                           /\ [revision[k] EXCEPT !.status = "REJECTED"].status = "REJECTED"
  BY DEF RevisionRow
<1> QED  BY <1>1, <1>2 DEF Rejected

-----------------------------------------------------------------------------
(* Type correctness *)

LEMMA InitTypeInv == Init => TypeInv
<1> SUFFICES ASSUME Init PROVE TypeInv
  OBVIOUS
<1>1. [NoFigures EXCEPT !.to = Forever] \in Figures
  BY BlankRows, DaysAreEnds DEF Figures
<1>2. lane \in [Lanes -> LaneRow]
  BY <1>1, LaneOfType, BlankRows DEF Init
<1>3. TypeOK
  BY <1>2, BlankRows, DaysAreEnds, MaxDayAssumption DEF Init, TypeOK
<1>4. Refers
  BY DEF Init, Refers, NoRevision, Idle, At, Deletes
<1> QED  BY <1>3, <1>4 DEF TypeInv

(* An action that leaves the revisions alone and takes no request up to a    *)
(* stage that refers to one keeps what they refer to.                       *)
LEMMA RefersKept ==
    ASSUME Refers, TypeOK, UNCHANGED revision, NEW u \in Users,
           \A v \in Users \ {u} : request'[v] = request[v],
           \/ request'[u] = request[u]
           \/ request'[u].at \notin {"PROPOSING", "INSERTED", "RAISED", "EDITING", "EDITED"} \cup Deletes
    PROVE  Refers'
BY DEF Refers, At

LEMMA AskedType ==
    ASSUME NEW s \in Stages, NEW l \in Lanes \cup {None}, NEW r \in Revisions \cup {None},
           NEW a \in Approvals \cup {None}, NEW f \in Figures
    PROVE  Asked(s, l, r, a, f) \in RequestRow
BY DEF Asked, RequestRow

LEMMA BeginsRow ==
    ASSUME request \in [Users -> RequestRow], NEW u \in Users, NEW row, Begins(u, row)
    PROVE  request'[u] = row /\ \A v \in Users \ {u} : request'[v] = request[v]
BY DEF Begins

LEMMA DoneRow ==
    ASSUME request \in [Users -> RequestRow], NEW u \in Users, Done(u)
    PROVE  /\ request'[u] = Idle /\ request'[u].at = "IDLE" /\ Idle.lane = None
           /\ \A v \in Users \ {u} : request'[v] = request[v]
BY DEF Done, Idle

LEMMA GoesRow ==
    ASSUME request \in [Users -> RequestRow], NEW u \in Users, NEW s \in Stages, Goes(u, s)
    PROVE  \A v \in Users \ {u} : request'[v] = request[v]
BY DEF Goes

LEMMA StepTypeInv == TypeInv /\ [Next]_vars => TypeInv'
<1> SUFFICES ASSUME TypeInv, [Next]_vars PROVE TypeInv'
  OBVIOUS
<1> USE DEF TypeInv
<1>T. /\ today \in Days /\ lane \in [Lanes -> LaneRow] /\ revision \in [Revisions -> RevisionRow]
      /\ approval \in [Approvals -> ApprovalRow] /\ request \in [Users -> RequestRow]
      /\ begun \in 0..MaxRequests /\ slips \subseteq {"TOGETHER", "REVIVED", "WON"}
      /\ marks \subseteq {"CUT", "CROSSED", "UNLINKED"} \X Revisions
  BY DEF TypeOK
<1>R. \A u \in Users : request[u] \in RequestRow /\ request[u].figures \in Figures
                     /\ request[u].lane \in Lanes \cup {None}
                     /\ request[u].revision \in Revisions \cup {None}
                     /\ request[u].approval \in Approvals \cup {None}
  BY <1>T DEF RequestRow
<1>V. \A r \in Revisions : revision[r] \in RevisionRow /\ revision[r].draft \in Figures
                         /\ revision[r].lane \in Lanes \cup {None}
                         /\ revision[r].approval \in Approvals \cup {None}
  BY <1>T DEF RevisionRow
<1>A. \A a \in Approvals : approval[a] \in ApprovalRow /\ approval[a].shown \in Figures
                         /\ approval[a].revision \in Revisions \cup {None}
  BY <1>T DEF ApprovalRow
<1>1. CASE Tick
  BY <1>1, MaxDayAssumption DEF Tick, TypeOK, Refers, Days, At
<1>2. ASSUME NEW u \in Users, Stops(u) PROVE TypeInv'
  <2>1. Refers'
    BY <1>2, <1>T, RefersKept, DoneRow DEF Deletes, Stops
  <2>2. marks' \subseteq {"CUT", "CROSSED", "UNLINKED"} \X Revisions
    BY <1>2, <1>T DEF Stops, Refers, Marks
  <2>3. request' \in [Users -> RequestRow] /\ begun' \in 0..MaxRequests
    BY <1>2, <1>T, RequestMoves DEF Stops
  <2> QED  BY <1>2, <2>1, <2>2, <2>3 DEF Stops, TypeOK
<1>3. ASSUME NEW a \in Approvals, Reject(a) PROVE TypeInv'
  <2>1. approval' \in [Approvals -> ApprovalRow] /\ revision' \in [Revisions -> RevisionRow]
    BY <1>3, <1>T, DecidedType, ClosedWithType DEF Reject, TurnDown
  <2>2. Refers'
    BY <1>3, <1>T, ClosedWithType DEF Reject, TurnDown, Refers, At
  <2> QED  BY <1>3, <2>1, <2>2 DEF Reject, TypeOK
<1>4. ASSUME NEW a \in Approvals, ApproveRevision(a) PROVE TypeInv'
  <2> PICK r \in Revisions, n \in Lanes :
        LET l == revision[r].lane
            f == EffectiveFrom(r)
        IN
        /\ revision[r].status = "PENDING"
        /\ Checked(lane[l], f) /\ f.from <= lane[l].to
        /\ lane' = [lane EXCEPT ![l] = Closed(@, f), ![n] = Successor(lane[l], f)]
        /\ revision' = [revision EXCEPT ![r] = [@ EXCEPT !.status = "APPLIED", !.draft = f, !.to = n]]
        /\ approval' = Decided(a, "APPROVED")
        /\ Slips("REVIVED", ~Live(l))
        /\ UNCHANGED <<today, request, begun, marks>>
    BY <1>4 DEF ApproveRevision
  <2> DEFINE l == revision[r].lane
             f == EffectiveFrom(r)
  <2>1. l \in Lanes /\ lane[l] \in LaneRow
    BY <1>T DEF Refers
  <2>2. f \in Figures
    <3>1. revision[r].draft \in Figures
      BY <1>V
    <3> QED  BY <3>1, <1>T DEF EffectiveFrom, Figures
  <2>3. /\ lane[l].to \in Ends /\ lane[l].from \in Days
        /\ f.from \in Days /\ lane[l].from < f.from
    BY <2>1, <2>2, FigureParts DEF LaneRow, Checked
  <2>4. Closed(lane[l], f) \in LaneRow
    <3>1. f.from - 1 \in Ends
      BY <2>3, MaxDayAssumption DEF Days, Ends, Forever
    <3> QED  BY <2>1, <3>1 DEF Closed, LaneRow
  <2>5. Successor(lane[l], f) \in LaneRow
    <3>1. [f EXCEPT !.to = lane[l].to] \in Figures
      BY <2>2, <2>3 DEF Figures
    <3> QED  BY <3>1, LaneOfType DEF Successor
  <2>6. lane' \in [Lanes -> LaneRow]
    BY <1>T, <2>4, <2>5
  <2>7. [revision[r] EXCEPT !.status = "APPLIED", !.draft = f, !.to = n] \in RevisionRow
    <3>1. revision[r] \in RevisionRow
      BY <1>T
    <3> QED  BY <2>2, <3>1 DEF RevisionRow
  <2>8. revision' \in [Revisions -> RevisionRow]
    BY <1>T, <2>7
  <2>9. approval' \in [Approvals -> ApprovalRow]
    BY <1>T, DecidedType
  <2>10. slips' \subseteq {"TOGETHER", "REVIVED", "WON"}
    BY <1>T DEF Slips
  <2>11. Refers'
    <3>1. \A k \in Revisions : revision'[k].lane = revision[k].lane
      BY <1>T DEF RevisionRow
    <3>2. \A k \in Revisions : k # r => revision'[k] = revision[k]
      BY <1>T
    <3> QED  BY <2>1, <3>1, <3>2 DEF Refers, At
  <2> QED  BY <2>6, <2>8, <2>9, <2>10, <2>11 DEF TypeOK
<1>5. ASSUME NEW u \in Users, NEW a \in Approvals, SignLane(u, a) PROVE TypeInv'
  <2> DEFINE row == Asked("SIGNING", None, None, a, approval[a].shown)
  <2>1. row \in RequestRow
    BY <1>A, AskedType DEF Stages
  <2>2. Begins(u, row) /\ row.at = "SIGNING"
    BY <1>5 DEF SignLane, Asked
  <2>3. request' \in [Users -> RequestRow] /\ begun' \in 0..MaxRequests
    BY <1>T, <2>1, <2>2, RequestMoves
  <2>4. Refers'
    BY <1>5, <1>T, <2>2, BeginsRow, RefersKept DEF Deletes, SignLane
  <2>5. slips' \subseteq {"TOGETHER", "REVIVED", "WON"}
    BY <1>5, <1>T DEF SignLane, Slips
  <2> QED  BY <1>5, <2>3, <2>4, <2>5 DEF SignLane, TypeOK
<1>6. ASSUME NEW u \in Users, InsertSigned(u) PROVE TypeInv'
  <2>1. lane' \in [Lanes -> LaneRow]
    BY <1>6, <1>T, <1>R, LaneOfType DEF InsertSigned
  <2>2. approval' \in [Approvals -> ApprovalRow]
    BY <1>6, <1>T, DecidedType DEF InsertSigned
  <2>3. request' \in [Users -> RequestRow] /\ begun' \in 0..MaxRequests
    BY <1>6, <1>T, RequestMoves DEF InsertSigned
  <2>4. Refers'
    BY <1>6, <1>T, DoneRow, RefersKept DEF Deletes, InsertSigned
  <2> QED  BY <1>6, <2>1, <2>2, <2>3, <2>4 DEF InsertSigned, TypeOK
<1>7. ASSUME NEW u \in Users, NEW l \in Lanes, NEW f \in Changes, Propose(u, l, f) PROVE TypeInv'
  <2> DEFINE row == Asked("PROPOSING", l, None, None, f)
  <2>1. row \in RequestRow /\ row.at = "PROPOSING" /\ row.lane = l
    BY AskedType, AsksAssumption DEF Stages, Changes, Asked
  <2>2. Begins(u, row)
    BY <1>7 DEF Propose
  <2>3. request' \in [Users -> RequestRow] /\ begun' \in 0..MaxRequests
    BY <1>T, <2>1, <2>2, RequestMoves
  <2>4. request'[u] = row /\ \A v \in Users \ {u} : request'[v] = request[v]
    BY <1>T, <2>2, BeginsRow
  <2>5. Refers'
    BY <1>7, <2>1, <2>4 DEF Refers, At, Propose, Deletes
  <2> QED  BY <1>7, <2>3, <2>5 DEF Propose, TypeOK
<1>8. ASSUME NEW u \in Users, InsertRevision(u) PROVE TypeInv'
  <2> PICK r \in Revisions :
        /\ At(u, "PROPOSING")
        /\ revision' = [revision EXCEPT ![r] =
               [status |-> "PENDING", lane |-> request[u].lane, draft |-> request[u].figures,
                to |-> None, approval |-> None]]
        /\ request' = [request EXCEPT ![u] = [@ EXCEPT !.at = "INSERTED", !.revision = r]]
        /\ UNCHANGED <<today, lane, approval, begun, slips, marks>>
    BY <1>8 DEF InsertRevision
  <2> DEFINE new == [status |-> "PENDING", lane |-> request[u].lane, draft |-> request[u].figures,
                     to |-> None, approval |-> None]
  <2>1. new \in RevisionRow
    BY <1>R DEF RevisionRow
  <2>2. revision' \in [Revisions -> RevisionRow] /\ revision'[r] = new
        /\ \A k \in Revisions \ {r} : revision'[k] = revision[k]
    BY <1>T, <2>1
  <2>3. [request[u] EXCEPT !.at = "INSERTED", !.revision = r] \in RequestRow
    <3>1. request[u] \in RequestRow
      BY <1>T
    <3> QED  BY <3>1 DEF RequestRow, Stages
  <2>4. request' \in [Users -> RequestRow] /\ \A v \in Users \ {u} : request'[v] = request[v]
    BY <1>T, <2>3
  <2>5. request'[u].at = "INSERTED" /\ request'[u].revision = r
    BY <1>T DEF RequestRow
  <2>6. request[u].lane \in Lanes
    BY DEF Refers
  <2>7. Refers'
    BY <2>2, <2>4, <2>5, <2>6 DEF Refers, At, Deletes
  <2> QED  BY <2>2, <2>4, <2>7 DEF TypeOK
<1>9. ASSUME NEW u \in Users, RaiseRevision(u) PROVE TypeInv'
  <2> PICK a \in Approvals :
        /\ At(u, "INSERTED")
        /\ approval' = [approval EXCEPT ![a] =
               [status |-> "PENDING", kind |-> "REVISION", revision |-> request[u].revision,
                shown |-> request[u].figures]]
        /\ request' = [request EXCEPT ![u] = [@ EXCEPT !.at = "RAISED", !.approval = a]]
        /\ UNCHANGED <<today, lane, revision, begun, slips, marks>>
    BY <1>9 DEF RaiseRevision
  <2>1. [status |-> "PENDING", kind |-> "REVISION", revision |-> request[u].revision,
         shown |-> request[u].figures] \in ApprovalRow
    BY <1>R DEF ApprovalRow
  <2>2. approval' \in [Approvals -> ApprovalRow]
    BY <1>T, <2>1
  <2>3. [request[u] EXCEPT !.at = "RAISED", !.approval = a] \in RequestRow
    <3>1. request[u] \in RequestRow
      BY <1>T
    <3> QED  BY <3>1 DEF RequestRow, Stages
  <2>4. request' \in [Users -> RequestRow] /\ \A v \in Users \ {u} : request'[v] = request[v]
    BY <1>T, <2>3
  <2>5. request'[u].at = "RAISED" /\ request'[u].revision = request[u].revision
    BY <1>T DEF RequestRow
  <2>6. request[u].revision \in Revisions
    BY DEF Refers, At
  <2>7. Refers'
    BY <2>4, <2>5, <2>6 DEF Refers, At, Deletes
  <2> QED  BY <2>2, <2>4, <2>7 DEF TypeOK
<1>10. ASSUME NEW u \in Users, LinkRevision(u) PROVE TypeInv'
  <2> DEFINE r == request[u].revision
  <2>1. \A k \in Revisions : /\ [revision[k] EXCEPT !.approval = request[u].approval] \in RevisionRow
                             /\ [revision[k] EXCEPT !.approval = request[u].approval].lane = revision[k].lane
                             /\ [revision[k] EXCEPT !.approval = request[u].approval].status = revision[k].status
    BY <1>V, <1>R DEF RevisionRow
  <2>2. /\ revision' \in [Revisions -> RevisionRow]
        /\ \A k \in Revisions : revision'[k].lane = revision[k].lane /\ revision'[k].status = revision[k].status
    BY <1>10, <1>T, <2>1 DEF LinkRevision
  <2>3. request' \in [Users -> RequestRow] /\ begun' \in 0..MaxRequests
    BY <1>10, <1>T, RequestMoves DEF LinkRevision
  <2>4. Refers'
    BY <1>10, <1>T, <2>2, DoneRow DEF Deletes, LinkRevision, Refers, At
  <2> QED  BY <1>10, <2>2, <2>3, <2>4 DEF LinkRevision, TypeOK
<1>11. ASSUME NEW u \in Users, NEW f \in Asks, AddLane(u, f) PROVE TypeInv'
  <2> DEFINE row == Asked("ADDING", None, None, None, f)
  <2>1. row \in RequestRow /\ row.at = "ADDING"
    BY AskedType, AsksAssumption DEF Stages, Asked
  <2>2. Begins(u, row)
    BY <1>11 DEF AddLane
  <2>3. request' \in [Users -> RequestRow] /\ begun' \in 0..MaxRequests
    BY <1>T, <2>1, <2>2, RequestMoves
  <2>4. Refers'
    BY <1>11, <1>T, <2>1, <2>2, BeginsRow, RefersKept DEF Deletes, AddLane
  <2> QED  BY <1>11, <2>3, <2>4 DEF AddLane, TypeOK
<1>12. ASSUME NEW u \in Users, RaiseLane(u) PROVE TypeInv'
  <2>1. [status |-> "PENDING", kind |-> "LANE", revision |-> None, shown |-> request[u].figures] \in ApprovalRow
    BY <1>R DEF ApprovalRow
  <2>2. approval' \in [Approvals -> ApprovalRow]
    BY <1>12, <1>T, <2>1 DEF RaiseLane
  <2>3. request' \in [Users -> RequestRow] /\ begun' \in 0..MaxRequests
    BY <1>12, <1>T, RequestMoves DEF RaiseLane
  <2>4. Refers'
    BY <1>12, <1>T, DoneRow, RefersKept DEF Deletes, RaiseLane
  <2> QED  BY <1>12, <2>2, <2>3, <2>4 DEF RaiseLane, TypeOK
<1>13. ASSUME NEW f \in Asks, WinLane(f) PROVE TypeInv'
  <2>1. lane' \in [Lanes -> LaneRow]
    BY <1>13, <1>T, LaneOfType, AsksAssumption DEF WinLane
  <2>2. slips' \subseteq {"TOGETHER", "REVIVED", "WON"}
    BY <1>13, <1>T DEF WinLane, Slips
  <2> QED  BY <1>13, <2>1, <2>2 DEF WinLane, TypeOK, Refers, At
<1>14. ASSUME NEW u \in Users, NEW l \in Lanes, NEW f \in Asks, Correct(u, l, f) PROVE TypeInv'
  <2> DEFINE row == Asked("CORRECTING", l, None, None, f)
  <2>1. row \in RequestRow /\ row.at = "CORRECTING"
    BY AskedType, AsksAssumption DEF Stages, Asked
  <2>2. Begins(u, row)
    BY <1>14 DEF Correct
  <2>3. request' \in [Users -> RequestRow] /\ begun' \in 0..MaxRequests
    BY <1>T, <2>1, <2>2, RequestMoves
  <2>4. Refers'
    BY <1>14, <1>T, <2>1, <2>2, BeginsRow, RefersKept DEF Deletes, Correct
  <2>5. slips' \subseteq {"TOGETHER", "REVIVED", "WON"}
    BY <1>14, <1>T DEF Correct, Slips
  <2> QED  BY <1>14, <2>3, <2>4, <2>5 DEF Correct, TypeOK
<1>15. ASSUME NEW u \in Users, WriteCorrection(u) PROVE TypeInv'
  <2>1. lane' \in [Lanes -> LaneRow]
    BY <1>15, <1>T, <1>R, LaneOfType DEF WriteCorrection
  <2>2. request' \in [Users -> RequestRow] /\ begun' \in 0..MaxRequests
    BY <1>15, <1>T, RequestMoves DEF WriteCorrection
  <2>3. Refers'
    BY <1>15, <1>T, DoneRow, RefersKept DEF Deletes, WriteCorrection
  <2> QED  BY <1>15, <2>1, <2>2, <2>3 DEF WriteCorrection, TypeOK
<1>16. ASSUME NEW a \in Approvals, NEW f \in Asks, EditPendingLane(a, f) PROVE TypeInv'
  <2>1. [approval[a] EXCEPT !.shown = f] \in ApprovalRow
    BY <1>T, RowFields, AsksAssumption
  <2>2. approval' \in [Approvals -> ApprovalRow]
    BY <1>16, <1>T, <2>1 DEF EditPendingLane
  <2> QED  BY <1>16, <2>2 DEF EditPendingLane, TypeOK, Refers, At
<1>17. ASSUME NEW u \in Users, NEW r \in Revisions, NEW f \in Changes, EditRevision(u, r, f) PROVE TypeInv'
  <2> DEFINE row == Asked("EDITING", revision[r].lane, r, revision[r].approval, f)
  <2>1. row \in RequestRow /\ row.at = "EDITING" /\ row.revision = r
    BY <1>V, AskedType, AsksAssumption DEF Stages, Changes, Asked
  <2>2. Begins(u, row)
    BY <1>17 DEF EditRevision
  <2>3. request' \in [Users -> RequestRow] /\ begun' \in 0..MaxRequests
    BY <1>T, <2>1, <2>2, RequestMoves
  <2>4. request'[u] = row /\ \A v \in Users \ {u} : request'[v] = request[v]
    BY <1>T, <2>2, BeginsRow
  <2>5. Refers'
    BY <1>17, <2>1, <2>4 DEF Refers, At, EditRevision, Deletes
  <2> QED  BY <1>17, <2>3, <2>5 DEF EditRevision, TypeOK
<1>18. ASSUME NEW u \in Users, WriteEdit(u) PROVE TypeInv'
  <2> DEFINE r == request[u].revision
             f == request[u].figures
  <2>1. r \in Revisions /\ f \in Figures
    BY <1>18, <1>R DEF WriteEdit, Refers, At
  <2>2. /\ [revision[r] EXCEPT !.draft = f] \in RevisionRow
        /\ [revision[r] EXCEPT !.draft = f].lane = revision[r].lane
        /\ [revision[r] EXCEPT !.draft = f].status = revision[r].status
    BY <1>V, <2>1 DEF RevisionRow
  <2>3. /\ revision' \in [Revisions -> RevisionRow]
        /\ \A k \in Revisions : revision'[k].lane = revision[k].lane /\ revision'[k].status = revision[k].status
    BY <1>18, <1>T, <2>1, <2>2 DEF WriteEdit
  <2>4. marks' \subseteq {"CUT", "CROSSED", "UNLINKED"} \X Revisions
    BY <1>18, <1>T, <2>1 DEF WriteEdit, Marks
  <2>5. CASE Done(u)
    <3>1. request' \in [Users -> RequestRow] /\ begun' \in 0..MaxRequests
      BY <1>T, <2>5, RequestMoves
    <3>2. Refers'
      BY <1>T, <2>3, <2>5, DoneRow DEF Deletes, Refers, At
    <3> QED  BY <1>18, <2>3, <2>4, <3>1, <3>2 DEF WriteEdit, TypeOK
  <2>6. CASE Goes(u, "EDITED")
    <3>1. /\ request' \in [Users -> RequestRow] /\ begun' \in 0..MaxRequests
          /\ request'[u].at = "EDITED" /\ request'[u].revision = r
      BY <1>T, <2>6, RequestMoves DEF Stages
    <3>2. \A v \in Users \ {u} : request'[v] = request[v]
      BY <1>T, <2>6, GoesRow DEF Stages
    <3>3. Refers'
      BY <2>1, <2>3, <3>1, <3>2 DEF Refers, At, Deletes
    <3> QED  BY <1>18, <2>3, <2>4, <3>1, <3>3 DEF WriteEdit, TypeOK
  <2> QED  BY <1>18, <2>5, <2>6 DEF WriteEdit
<1>19. ASSUME NEW u \in Users, AmendEdited(u) PROVE TypeInv'
  <2>1. \A b \in Approvals : [approval[b] EXCEPT !.shown = request[u].figures] \in ApprovalRow
    BY <1>T, <1>R, RowFields
  <2>2. approval' \in [Approvals -> ApprovalRow]
    BY <1>19, <1>T, <2>1 DEF AmendEdited
  <2>3. request' \in [Users -> RequestRow] /\ begun' \in 0..MaxRequests
    BY <1>19, <1>T, RequestMoves DEF AmendEdited
  <2>4. Refers'
    BY <1>19, <1>T, DoneRow, RefersKept DEF Deletes, AmendEdited
  <2> QED  BY <1>19, <2>2, <2>3, <2>4 DEF AmendEdited, TypeOK
<1>20. ASSUME NEW u \in Users, NEW r \in Revisions, DropRevision(u, r) PROVE TypeInv'
  <2> DEFINE s == IF revision[r].approval = None THEN "DROPPED" ELSE "DROPPING"
             row == Asked(s, None, r, revision[r].approval, NoFigures)
  <2>1. s \in Stages /\ s \notin {"PROPOSING", "INSERTED", "RAISED", "EDITING", "EDITED"}
    BY DEF Stages
  <2> HIDE DEF s
  <2>2. row \in RequestRow
    BY <2>1, <1>V, AskedType, BlankRows
  <2>3. Begins(u, row) /\ row.at = s
    BY <1>20 DEF DropRevision, Asked, s
  <2>4. request' \in [Users -> RequestRow] /\ begun' \in 0..MaxRequests
    BY <1>T, <2>2, <2>3, RequestMoves
  <2>5. Refers'
    <3>1. /\ request'[u] = row /\ row.revision = r /\ \A v \in Users \ {u} : request'[v] = request[v]
      BY <1>T, <2>3, BeginsRow DEF Asked
    <3>2. UNCHANGED revision /\ revision[r].status # "NONE"
      BY <1>20 DEF DropRevision
    <3> QED  BY <2>1, <2>3, <3>1, <3>2 DEF Refers, At
  <2>6. marks' \subseteq {"CUT", "CROSSED", "UNLINKED"} \X Revisions
    BY <1>20, <1>T DEF DropRevision, Marks
  <2> QED  BY <1>20, <2>4, <2>5, <2>6 DEF DropRevision, TypeOK
<1>W. ASSUME NEW u \in Users, NEW s \in {"DROPPED", "REMOVED"}, Withdraws(u, s),
             request[u].at \in Deletes,
             UNCHANGED <<today, lane, slips, marks>>
      PROVE  TypeInv'
  <2>1. CASE TurnDown(request[u].approval) /\ Goes(u, s)
    <3>1. approval' \in [Approvals -> ApprovalRow] /\ revision' \in [Revisions -> RevisionRow]
      BY <1>T, <2>1, DecidedType, ClosedWithType DEF TurnDown
    <3>2. /\ request' \in [Users -> RequestRow] /\ begun' \in 0..MaxRequests
          /\ request'[u].at = s /\ request'[u].revision = request[u].revision
      BY <1>T, <2>1, RequestMoves DEF Stages
    <3>3. \A v \in Users \ {u} : request'[v] = request[v]
      BY <1>T, <2>1, GoesRow DEF Stages
    <3>4. \A r \in Revisions : revision'[r].lane = revision[r].lane
                            /\ (revision'[r].status = "NONE" <=> revision[r].status = "NONE")
      BY <1>T, <2>1, ClosedWithType DEF TurnDown
    <3>5. Refers'
      BY <1>W, <3>2, <3>3, <3>4 DEF Refers, At, Deletes
    <3> QED  BY <1>W, <1>T, <3>1, <3>2, <3>5 DEF TypeOK
  <2>2. CASE UNCHANGED <<approval, revision>> /\ Done(u)
    <3>1. request' \in [Users -> RequestRow] /\ begun' \in 0..MaxRequests
      BY <1>T, <2>2, RequestMoves
    <3>2. Refers'
      BY <1>T, <2>2, DoneRow, RefersKept DEF Deletes
    <3> QED  BY <1>W, <1>T, <2>2, <3>1, <3>2 DEF TypeOK
  <2> QED  BY <1>W, <2>1, <2>2 DEF Withdraws
<1>21. ASSUME NEW u \in Users, WithdrawDropped(u) PROVE TypeInv'
  BY <1>21, <1>W DEF WithdrawDropped, At, Deletes
<1>22. ASSUME NEW u \in Users, WriteDropped(u) PROVE TypeInv'
  <2>1. revision' \in [Revisions -> RevisionRow]
    BY <1>22, <1>T, RejectedType DEF WriteDropped
  <2>3. request' \in [Users -> RequestRow] /\ begun' \in 0..MaxRequests
    BY <1>22, <1>T, RequestMoves DEF WriteDropped
  <2>4. Refers'
    BY <1>22, <1>T, DoneRow, RejectedType DEF Deletes, WriteDropped, Refers, At
  <2> QED  BY <1>22, <2>1, <2>3, <2>4 DEF WriteDropped, TypeOK
<1>23. ASSUME NEW u \in Users, NEW l \in Lanes, RemoveLane(u, l) PROVE TypeInv'
  <2> PICK r \in OpenFor(l) \cup {None} :
        LET a == IF r = None THEN None ELSE revision[r].approval IN
        /\ Begins(u, Asked(IF a = None THEN "REMOVED" ELSE "REMOVING", l, r, a, NoFigures))
        /\ Marks(<<"UNLINKED", r>>, r # None /\ a = None)
        /\ UNCHANGED <<today, lane, revision, approval, slips>>
    BY <1>23 DEF RemoveLane
  <2> DEFINE a == IF r = None THEN None ELSE revision[r].approval
             s == IF a = None THEN "REMOVED" ELSE "REMOVING"
             row == Asked(s, l, r, a, NoFigures)
  <2>1. s \in Stages /\ s \notin {"PROPOSING", "INSERTED", "RAISED", "EDITING", "EDITED"}
    BY DEF Stages
  <2>2. r \in Revisions \cup {None} /\ a \in Approvals \cup {None}
    BY <1>V DEF OpenFor
  <2>3. Begins(u, row) /\ row.at = s
    BY DEF Asked
  <2> HIDE DEF s, a
  <2>4. row \in RequestRow
    BY <2>1, <2>2, AskedType, BlankRows
  <2>5. request' \in [Users -> RequestRow] /\ begun' \in 0..MaxRequests
    BY <1>T, <2>3, <2>4, RequestMoves
  <2>6. Refers'
    <3>1. /\ request'[u] = row /\ row.revision = r /\ \A v \in Users \ {u} : request'[v] = request[v]
      BY <1>T, <2>3, BeginsRow DEF Asked
    <3>2. r \in Revisions => revision[r].status # "NONE"
      BY NoneAssumption DEF OpenFor
    <3> QED  BY <2>1, <2>3, <3>1, <3>2 DEF Refers, At
  <2>7. marks' \subseteq {"CUT", "CROSSED", "UNLINKED"} \X Revisions
    BY <1>T, <2>2 DEF Marks
  <2> QED  BY <1>T, <2>5, <2>6, <2>7 DEF TypeOK
<1>24. ASSUME NEW u \in Users, WithdrawRemoved(u) PROVE TypeInv'
  BY <1>24, <1>W DEF WithdrawRemoved, At, Deletes
<1>25. ASSUME NEW u \in Users, WriteRemoved(u) PROVE TypeInv'
  <2>1. lane' \in [Lanes -> LaneRow]
    <3>1. \A k \in Lanes : [lane[k] EXCEPT !.state = "DELETED"] \in LaneRow
      BY <1>T, RowFields
    <3> QED  BY <1>25, <1>T, <3>1 DEF WriteRemoved
  <2>2. revision' \in [Revisions -> RevisionRow]
    BY <1>25, <1>T, RejectedType DEF WriteRemoved
  <2>3. request' \in [Users -> RequestRow] /\ begun' \in 0..MaxRequests
    BY <1>25, <1>T, RequestMoves DEF WriteRemoved
  <2>4. Refers'
    BY <1>25, <1>T, DoneRow, RejectedType DEF WriteRemoved, Refers, At, Deletes
  <2> QED  BY <1>25, <2>1, <2>2, <2>3, <2>4 DEF WriteRemoved, TypeOK
<1>26. CASE UNCHANGED vars
  BY <1>26 DEF vars, TypeOK, Refers, At
<1> QED
  BY <1>1, <1>2, <1>3, <1>4, <1>5, <1>6, <1>7, <1>8, <1>9, <1>10, <1>11, <1>12, <1>13, <1>14, <1>15,
     <1>16, <1>17, <1>18, <1>19, <1>20, <1>21, <1>22, <1>23, <1>24, <1>25, <1>26 DEF Next, Desk

(* For any numbers of rows and desks, every row and every request in flight  *)
(* stays one the tables and the code can hold.                             *)
THEOREM TypeCorrect == Spec => []TypeOK
<1>1. TypeInv => TypeOK
  BY DEF TypeInv
<1> QED  BY InitTypeInv, StepTypeInv, <1>1, PTL DEF Spec

-----------------------------------------------------------------------------
(* One rate in force *)

(* A request that has read the other lanes is alone, and what it read holds. *)
RateInv ==
    slips = {} =>
        /\ \A l, k \in Lanes : Live(l) /\ Live(k) /\ l # k => ~Overlap(lane[l], lane[k])
        /\ \A u, v \in Checking : u = v
        /\ \A u \in InFlight("CORRECTING") :
              request[u].lane \in Lanes /\ Live(request[u].lane) /\ Free(request[u].figures, request[u].lane)
        /\ \A u \in InFlight("SIGNING") : Free(request[u].figures, None)

LEMMA InitRateInv == Init => RateInv
BY DEF Init, RateInv, Live, Checking, InFlight, At, Idle

(* Lanes that are unchanged, or gone, and nobody new that reads them.        *)
LEMMA RateKept ==
    ASSUME TypeInv, RateInv, slips' = {} => slips = {},
           \A l \in Lanes : lane'[l] = lane[l] \/ (~Live(l)' /\ ~LaneLocked(l)),
           \A u \in Users : \/ request'[u] = request[u]
                            \/ request'[u].at \notin {"CORRECTING", "SIGNING"}
    PROVE  RateInv'
<1> SUFFICES ASSUME slips' = {} PROVE RateInv'
  BY DEF RateInv
<1>0. /\ \A l, k \in Lanes : Live(l) /\ Live(k) /\ l # k => ~Overlap(lane[l], lane[k])
      /\ \A u, v \in Checking : u = v
      /\ \A u \in InFlight("CORRECTING") :
            request[u].lane \in Lanes /\ Live(request[u].lane) /\ Free(request[u].figures, request[u].lane)
      /\ \A u \in InFlight("SIGNING") : Free(request[u].figures, None)
  BY DEF RateInv
<1>1. \A l \in Lanes : Live(l)' => Live(l) /\ lane'[l] = lane[l]
  BY DEF Live
<1>2. \A u \in Users : /\ u \in InFlight("CORRECTING")' => u \in InFlight("CORRECTING") /\ request'[u] = request[u]
                       /\ u \in InFlight("SIGNING")' => u \in InFlight("SIGNING") /\ request'[u] = request[u]
  BY DEF InFlight, At
<1>3. \A u, v \in Checking' : u = v
  <2>1. Checking' \subseteq Checking
    BY <1>2 DEF Checking, InFlight, At
  <2> QED  BY <1>0, <2>1
<1>4. ASSUME NEW u \in InFlight("CORRECTING")'
      PROVE  request'[u].lane \in Lanes /\ Live(request[u].lane)'
             /\ Free(request[u].figures, request[u].lane)'
  <2>1. u \in Users /\ u \in InFlight("CORRECTING") /\ request'[u] = request[u]
    BY <1>2 DEF InFlight, At
  <2>2. request[u].lane \in Lanes /\ Live(request[u].lane) /\ Free(request[u].figures, request[u].lane)
    BY <1>0, <2>1
  <2>3. LaneLocked(request[u].lane)
    BY <2>1 DEF LaneLocked
  <2>4. lane'[request[u].lane] = lane[request[u].lane]
    BY <2>2, <2>3
  <2> QED  BY <1>1, <2>1, <2>2, <2>4 DEF Free, Live
<1>5. ASSUME NEW u \in InFlight("SIGNING")'
      PROVE  Free(request[u].figures, None)'
  <2>1. u \in Users /\ u \in InFlight("SIGNING") /\ request'[u] = request[u]
    BY <1>2 DEF InFlight, At
  <2>2. Free(request[u].figures, None)
    BY <1>0, <2>1
  <2> QED  BY <1>1, <2>1, <2>2 DEF Free
<1>6. \A l, k \in Lanes : Live(l)' /\ Live(k)' /\ l # k => ~Overlap(lane'[l], lane'[k])
  BY <1>0, <1>1
<1> QED  BY <1>3, <1>4, <1>5, <1>6 DEF RateInv

(* A lane written over days that no other live lane covers, by the one       *)
(* request that had read them.                                             *)
LEMMA RateWritten ==
    ASSUME TypeInv, RateInv, slips' = slips, NEW u \in Checking, NEW n \in Lanes, NEW f \in Figures,
           Free(f, n) \/ Free(f, None),
           lane' = [lane EXCEPT ![n] = LaneOf(f)],
           request'[u].at = "IDLE", \A v \in Users \ {u} : request'[v] = request[v]
    PROVE  RateInv'
<1> SUFFICES ASSUME slips' = {} PROVE RateInv'
  BY DEF RateInv
<1>1. \A v \in Checking : v = u
  BY DEF RateInv
<1>2. Checking' = {} /\ InFlight("CORRECTING")' = {} /\ InFlight("SIGNING")' = {}
  BY <1>1 DEF Checking, InFlight, At
<1>3. lane \in [Lanes -> LaneRow]
  BY DEF TypeInv, TypeOK
<1>4. /\ lane'[n].from = f.from /\ lane'[n].to = f.to
      /\ \A k \in Lanes \ {n} : lane'[k] = lane[k]
  BY <1>3, LaneOfType
<1>5. \A k \in Lanes \ {n} : Live(k) => ~Overlap(f, lane[k])
  BY NoneAssumption DEF Free
<1>6. \A l, k \in Lanes : Live(l)' /\ Live(k)' /\ l # k => ~Overlap(lane'[l], lane'[k])
  BY <1>4, <1>5 DEF RateInv, Live, Overlap
<1> QED  BY <1>2, <1>6 DEF RateInv

(* A lane split in two by a change signed on it.                            *)
LEMMA RateSplit ==
    ASSUME TypeInv, RateInv, NEW l \in Lanes, NEW n \in Lanes, NEW f \in Figures,
           slips' = {} => slips = {} /\ Live(l), UNCHANGED request, lane[n].state = "NONE",
           lane[l].from < f.from, f.from <= lane[l].to, ~LaneLocked(l),
           lane' = [lane EXCEPT ![l] = Closed(@, f), ![n] = Successor(lane[l], f)]
    PROVE  RateInv'
<1> SUFFICES ASSUME slips' = {} PROVE RateInv'
  BY DEF RateInv
<1>0. /\ \A k, j \in Lanes : Live(k) /\ Live(j) /\ k # j => ~Overlap(lane[k], lane[j])
      /\ \A u, v \in Checking : u = v
      /\ \A u \in InFlight("CORRECTING") :
            request[u].lane \in Lanes /\ Live(request[u].lane) /\ Free(request[u].figures, request[u].lane)
      /\ \A u \in InFlight("SIGNING") : Free(request[u].figures, None)
  BY DEF RateInv
<1>1. lane \in [Lanes -> LaneRow] /\ request \in [Users -> RequestRow]
  BY DEF TypeInv, TypeOK
<1>2. Live(l) /\ l # n
  BY DEF Live
<1>3. \A k \in Lanes : lane[k].from \in Int /\ lane[k].to \in Int
  BY <1>1, DaysAreEnds DEF LaneRow
<1>4. f.from \in Int /\ [f EXCEPT !.to = lane[l].to] \in Figures
  BY <1>1, DaysAreEnds DEF Figures, LaneRow
<1>5. lane'[l].from = lane[l].from /\ lane'[l].to = f.from - 1 /\ lane'[l].state = lane[l].state
  BY <1>1, <1>2 DEF Closed, LaneRow
<1>6. lane'[n].from = f.from /\ lane'[n].to = lane[l].to
  <2>1. lane'[n] = LaneOf([f EXCEPT !.to = lane[l].to])
    BY <1>1 DEF Successor
  <2> QED  BY <1>4, <2>1, LaneOfType DEF Figures
<1>7. \A k \in Lanes \ {l, n} : lane'[k] = lane[k]
  BY <1>1
<1>8. \A g : g.from \in Int /\ g.to \in Int /\ ~Overlap(g, lane[l])
          => ~Overlap(g, lane'[l]) /\ ~Overlap(g, lane'[n])
  BY <1>3, <1>4, <1>5, <1>6 DEF Overlap
<1>9. \A k, j \in Lanes : Live(k)' /\ Live(j)' /\ k # j => ~Overlap(lane'[k], lane'[j])
  <2> SUFFICES ASSUME NEW k \in Lanes, NEW j \in Lanes, Live(k)', Live(j)', k # j
               PROVE  ~Overlap(lane'[k], lane'[j])
    OBVIOUS
  <2>1. CASE k \in {l, n} /\ j \in {l, n}
    <3>1. ~(lane'[n].from <= lane'[l].to)
      BY <1>4, <1>5, <1>6
    <3>2. ~Overlap(lane'[l], lane'[n]) /\ ~Overlap(lane'[n], lane'[l])
      BY <3>1 DEF Overlap
    <3>3. (k = l /\ j = n) \/ (k = n /\ j = l)
      BY <2>1
    <3> QED  BY <3>2, <3>3
  <2>2. CASE k \notin {l, n} /\ j \notin {l, n}
    BY <1>0, <1>7, <2>2 DEF Live
  <2>3. CASE k \notin {l, n} /\ j \in {l, n}
    <3>1. lane'[k] = lane[k] /\ ~Overlap(lane[k], lane[l])
      BY <1>0, <1>2, <1>7, <2>3 DEF Live
    <3> QED  BY <1>3, <1>8, <2>3, <3>1
  <2>4. CASE k \in {l, n} /\ j \notin {l, n}
    <3>1. lane'[j] = lane[j] /\ ~Overlap(lane[j], lane[l])
      BY <1>0, <1>2, <1>7, <2>4 DEF Live
    <3>2. ~Overlap(lane'[j], lane'[k])
      BY <1>3, <1>8, <2>4, <3>1
    <3> QED  BY <3>2 DEF Overlap
  <2> QED  BY <2>1, <2>2, <2>3, <2>4
<1>10. ASSUME NEW g \in Figures, NEW b, Free(g, b), b # l, b # n
       PROVE  Free(g, b)'
  <2>1. g.from \in Int /\ g.to \in Int /\ ~Overlap(g, lane[l])
    BY <1>2, <1>10, DaysAreEnds DEF Free, Figures
  <2> QED  BY <1>7, <1>8, <1>10, <2>1 DEF Free, Live
<1>11. ASSUME NEW u \in InFlight("CORRECTING")'
       PROVE  request'[u].lane \in Lanes /\ Live(request[u].lane)'
              /\ Free(request[u].figures, request[u].lane)'
  <2>1. u \in Users /\ u \in InFlight("CORRECTING") /\ request'[u] = request[u]
    BY <1>11 DEF InFlight, At
  <2>2. request[u].lane \in Lanes /\ Live(request[u].lane) /\ Free(request[u].figures, request[u].lane)
    BY <1>0, <2>1
  <2>3. request[u].lane # l /\ request[u].lane # n
    BY <2>1, <2>2 DEF LaneLocked, Live
  <2>4. request[u].figures \in Figures
    BY <1>1, <2>1 DEF RequestRow
  <2>5. Free(request[u].figures, request[u].lane)'
    BY <1>10, <2>1, <2>2, <2>3, <2>4
  <2> QED  BY <1>7, <2>1, <2>2, <2>3, <2>5 DEF Live
<1>12. ASSUME NEW u \in InFlight("SIGNING")'
       PROVE  Free(request[u].figures, None)'
  <2>1. u \in Users /\ u \in InFlight("SIGNING") /\ request'[u] = request[u]
    BY <1>12 DEF InFlight, At
  <2>2. request[u].figures \in Figures
    BY <1>1, <2>1 DEF RequestRow
  <2> QED  BY <1>0, <1>10, <2>1, <2>2, NoneAssumption
<1>13. \A u, v \in Checking' : u = v
  <2>1. Checking' = Checking
    BY DEF Checking, InFlight, At
  <2> QED  BY <1>0, <2>1
<1> QED  BY <1>9, <1>11, <1>12, <1>13 DEF RateInv

(* A request that has just read that its days are free.                     *)
LEMMA RateRead ==
    ASSUME TypeInv, RateInv, UNCHANGED lane, NEW u \in Users,
           slips' = {} => slips = {} /\ Checking = {},
           \A v \in Users \ {u} : request'[v] = request[v],
           \/ /\ request'[u].at = "CORRECTING" /\ request'[u].lane \in Lanes /\ Live(request'[u].lane)
              /\ Free(request'[u].figures, request'[u].lane)
           \/ request'[u].at = "SIGNING" /\ Free(request'[u].figures, None)
    PROVE  RateInv'
<1> SUFFICES ASSUME slips' = {} PROVE RateInv'
  BY DEF RateInv
<1>1. \A v \in Users \ {u} : v \notin InFlight("CORRECTING")' /\ v \notin InFlight("SIGNING")'
  BY DEF Checking, InFlight, At
<1>2. \A v \in Users : (v \in InFlight("CORRECTING")' => request'[v].at = "CORRECTING")
                     /\ (v \in InFlight("SIGNING")' => request'[v].at = "SIGNING")
  BY DEF InFlight, At
<1>3. InFlight("CORRECTING")' \subseteq Users /\ InFlight("SIGNING")' \subseteq Users
  BY DEF InFlight
<1>4. \A v, w \in Checking' : v = w
  BY <1>1, <1>3 DEF Checking
<1>5. \A l, k \in Lanes : Live(l)' /\ Live(k)' /\ l # k => ~Overlap(lane'[l], lane'[k])
  BY DEF RateInv, Live
<1>6. \A v \in InFlight("CORRECTING")' :
          request'[v].lane \in Lanes /\ Live(request[v].lane)' /\ Free(request[v].figures, request[v].lane)'
  BY <1>1, <1>2, <1>3 DEF Live, Free
<1>7. \A v \in InFlight("SIGNING")' : Free(request[v].figures, None)'
  BY <1>1, <1>2, <1>3 DEF Live, Free
<1> QED  BY <1>4, <1>5, <1>6, <1>7 DEF RateInv

LEMMA StepRateInv == TypeInv /\ RateInv /\ [Next]_vars => RateInv'
<1> SUFFICES ASSUME TypeInv, RateInv, [Next]_vars PROVE RateInv'
  OBVIOUS
<1>T. /\ lane \in [Lanes -> LaneRow] /\ request \in [Users -> RequestRow]
      /\ revision \in [Revisions -> RevisionRow] /\ approval \in [Approvals -> ApprovalRow]
  BY DEF TypeInv, TypeOK
<1>K. ASSUME NEW u \in Users, slips' = slips, UNCHANGED lane,
             \A v \in Users \ {u} : request'[v] = request[v],
             request'[u] = request[u] \/ request'[u].at \notin {"CORRECTING", "SIGNING"}
      PROVE  RateInv'
  BY <1>K, RateKept
<1>D. ASSUME NEW u \in Users, slips' = slips, UNCHANGED lane, Done(u)
      PROVE  RateInv'
  BY <1>D, <1>K, <1>T, DoneRow
<1>B. ASSUME NEW u \in Users, slips' = slips, UNCHANGED lane, NEW row,
             Begins(u, row), row.at \notin {"CORRECTING", "SIGNING"}
      PROVE  RateInv'
  BY <1>B, <1>K, <1>T, BeginsRow
<1>G. ASSUME NEW u \in Users, slips' = slips, UNCHANGED lane, NEW s \in {"EDITED", "DROPPED", "REMOVED"}, Goes(u, s)
      PROVE  RateInv'
  <2>1. s \in Stages
    BY DEF Stages
  <2>2. request'[u].at = s
    BY <1>G, <1>T, <2>1 DEF Goes, RequestRow
  <2> QED  BY <1>G, <1>K, <1>T, <2>1, <2>2, GoesRow
<1>N. ASSUME slips' = slips, UNCHANGED <<lane, request>>
      PROVE  RateInv'
  BY <1>N, RateKept
<1>1. CASE Tick
  BY <1>1, <1>N DEF Tick
<1>2. ASSUME NEW u \in Users, Stops(u) PROVE RateInv'
  BY <1>2, <1>D DEF Stops
<1>3. ASSUME NEW a \in Approvals, Reject(a) PROVE RateInv'
  BY <1>3, <1>N DEF Reject
<1>4. ASSUME NEW a \in Approvals, ApproveRevision(a) PROVE RateInv'
  <2> PICK r \in Revisions, n \in Lanes :
        LET l == revision[r].lane
            f == EffectiveFrom(r)
        IN
        /\ revision[r].status = "PENDING" /\ ~LaneLocked(l)
        /\ Checked(lane[l], f) /\ f.from <= lane[l].to
        /\ lane[n].state = "NONE"
        /\ lane' = [lane EXCEPT ![l] = Closed(@, f), ![n] = Successor(lane[l], f)]
        /\ Slips("REVIVED", ~Live(l))
        /\ UNCHANGED request
    BY <1>4 DEF ApproveRevision
  <2>1. revision[r].lane \in Lanes
    BY DEF TypeInv, Refers
  <2>2. EffectiveFrom(r) \in Figures
    <3>1. revision[r].draft \in Figures /\ today \in Days
      BY <1>T DEF RevisionRow, TypeInv, TypeOK
    <3> QED  BY <3>1 DEF EffectiveFrom, Figures
  <2>3. lane[revision[r].lane].from < EffectiveFrom(r).from
    <3>1. lane[revision[r].lane].from \in Int /\ EffectiveFrom(r).from \in Int
      BY <1>T, <2>1, <2>2, DaysAreEnds, FigureParts DEF LaneRow
    <3> QED  BY <3>1 DEF Checked
  <2>4. slips' = {} => slips = {} /\ Live(revision[r].lane)
    BY DEF Slips
  <2> QED  BY <2>1, <2>2, <2>3, <2>4, RateSplit
<1>5. ASSUME NEW u \in Users, NEW a \in Approvals, SignLane(u, a) PROVE RateInv'
  <2> DEFINE row == Asked("SIGNING", None, None, a, approval[a].shown)
  <2>1. Begins(u, row) /\ row.at = "SIGNING" /\ row.figures = approval[a].shown
    BY <1>5 DEF SignLane, Asked
  <2>2. request'[u] = row /\ \A v \in Users \ {u} : request'[v] = request[v]
    BY <1>T, <2>1, BeginsRow
  <2>3. slips' = {} => slips = {} /\ Checking = {}
    BY <1>5 DEF SignLane, Slips
  <2>4. Free(approval[a].shown, None) /\ UNCHANGED lane
    BY <1>5 DEF SignLane
  <2> QED  BY <2>1, <2>2, <2>3, <2>4, RateRead
<1>6. ASSUME NEW u \in Users, InsertSigned(u) PROVE RateInv'
  <2> PICK n \in Lanes : /\ At(u, "SIGNING") /\ lane[n].state = "NONE"
                        /\ lane' = [lane EXCEPT ![n] = LaneOf(request[u].figures)]
                        /\ Done(u) /\ slips' = slips
    BY <1>6 DEF InsertSigned
  <2>1. request[u].figures \in Figures
    BY <1>T DEF RequestRow
  <2>2. u \in Checking
    BY DEF Checking, InFlight
  <2>3. slips = {} => Free(request[u].figures, None)
    BY DEF RateInv, InFlight
  <2>4. CASE slips = {}
    BY <1>T, <2>1, <2>2, <2>3, <2>4, DoneRow, RateWritten
  <2> QED  BY <2>4 DEF RateInv
<1>13. ASSUME NEW f \in Asks, WinLane(f) PROVE RateInv'
  <2> PICK n \in Lanes : /\ lane[n].state = "NONE" /\ lane' = [lane EXCEPT ![n] = LaneOf(f)]
                        /\ Slips("WON", ~Free(f, None) \/ Checking # {}) /\ UNCHANGED request
    BY <1>13 DEF WinLane
  <2> SUFFICES ASSUME slips' = {} PROVE RateInv'
    BY DEF RateInv
  <2>1. slips = {} /\ Free(f, None) /\ Checking = {}
    BY DEF Slips
  <2>2. Checking' = {} /\ InFlight("CORRECTING")' = {} /\ InFlight("SIGNING")' = {}
    BY <2>1 DEF Checking, InFlight, At
  <2>3. /\ lane'[n].from = f.from /\ lane'[n].to = f.to
        /\ \A k \in Lanes \ {n} : lane'[k] = lane[k]
    BY <1>T, LaneOfType, AsksAssumption
  <2>4. \A k \in Lanes \ {n} : Live(k) => ~Overlap(f, lane[k])
    BY <2>1, NoneAssumption DEF Free
  <2>5. \A l, k \in Lanes : Live(l)' /\ Live(k)' /\ l # k => ~Overlap(lane'[l], lane'[k])
    BY <2>1, <2>3, <2>4 DEF RateInv, Live, Overlap
  <2> QED  BY <2>2, <2>5 DEF RateInv
<1>14. ASSUME NEW u \in Users, NEW l \in Lanes, NEW f \in Asks, Correct(u, l, f) PROVE RateInv'
  <2> DEFINE row == Asked("CORRECTING", l, None, None, f)
  <2>1. Begins(u, row) /\ row.at = "CORRECTING" /\ row.figures = f /\ row.lane = l
    BY <1>14 DEF Correct, Asked
  <2>2. request'[u] = row /\ \A v \in Users \ {u} : request'[v] = request[v]
    BY <1>T, <2>1, BeginsRow
  <2>3. slips' = {} => slips = {} /\ Checking = {}
    BY <1>14 DEF Correct, Slips
  <2>4. Live(l) /\ Free(f, l) /\ UNCHANGED lane
    BY <1>14 DEF Correct
  <2> QED  BY <2>1, <2>2, <2>3, <2>4, RateRead
<1>15. ASSUME NEW u \in Users, WriteCorrection(u) PROVE RateInv'
  <2>1. request[u].figures \in Figures
    BY <1>T DEF RequestRow
  <2>2. u \in Checking /\ Done(u) /\ slips' = slips
        /\ lane' = [lane EXCEPT ![request[u].lane] = LaneOf(request[u].figures)]
    BY <1>15 DEF WriteCorrection, Checking, InFlight
  <2>3. slips = {} => request[u].lane \in Lanes /\ Free(request[u].figures, request[u].lane)
    BY <1>15 DEF RateInv, InFlight, WriteCorrection
  <2>4. CASE slips = {}
    BY <1>T, <2>1, <2>2, <2>3, <2>4, DoneRow, RateWritten
  <2> QED  BY <2>2, <2>4 DEF RateInv
<1>7. ASSUME NEW u \in Users, NEW l \in Lanes, NEW f \in Changes, Propose(u, l, f) PROVE RateInv'
  BY <1>7, <1>B DEF Propose, Asked
<1>8. ASSUME NEW u \in Users, InsertRevision(u) PROVE RateInv'
  <2> PICK r \in Revisions : /\ request' = [request EXCEPT ![u] = [@ EXCEPT !.at = "INSERTED", !.revision = r]]
                            /\ slips' = slips /\ UNCHANGED lane
    BY <1>8 DEF InsertRevision
  <2>1. request'[u].at = "INSERTED" /\ \A v \in Users \ {u} : request'[v] = request[v]
    BY <1>T DEF RequestRow
  <2> QED  BY <1>K, <2>1
<1>9. ASSUME NEW u \in Users, RaiseRevision(u) PROVE RateInv'
  <2> PICK a \in Approvals : /\ request' = [request EXCEPT ![u] = [@ EXCEPT !.at = "RAISED", !.approval = a]]
                            /\ slips' = slips /\ UNCHANGED lane
    BY <1>9 DEF RaiseRevision
  <2>1. request'[u].at = "RAISED" /\ \A v \in Users \ {u} : request'[v] = request[v]
    BY <1>T DEF RequestRow
  <2> QED  BY <1>K, <2>1
<1>10. ASSUME NEW u \in Users, LinkRevision(u) PROVE RateInv'
  BY <1>10, <1>D DEF LinkRevision
<1>11. ASSUME NEW u \in Users, NEW f \in Asks, AddLane(u, f) PROVE RateInv'
  BY <1>11, <1>B DEF AddLane, Asked
<1>12. ASSUME NEW u \in Users, RaiseLane(u) PROVE RateInv'
  BY <1>12, <1>D DEF RaiseLane
<1>16. ASSUME NEW a \in Approvals, NEW f \in Asks, EditPendingLane(a, f) PROVE RateInv'
  BY <1>16, <1>N DEF EditPendingLane
<1>17. ASSUME NEW u \in Users, NEW r \in Revisions, NEW f \in Changes, EditRevision(u, r, f) PROVE RateInv'
  BY <1>17, <1>B DEF EditRevision, Asked
<1>18. ASSUME NEW u \in Users, WriteEdit(u) PROVE RateInv'
  BY <1>18, <1>D, <1>G DEF WriteEdit
<1>19. ASSUME NEW u \in Users, AmendEdited(u) PROVE RateInv'
  BY <1>19, <1>D DEF AmendEdited
<1>20. ASSUME NEW u \in Users, NEW r \in Revisions, DropRevision(u, r) PROVE RateInv'
  BY <1>20, <1>B DEF DropRevision, Asked
<1>21. ASSUME NEW u \in Users, WithdrawDropped(u) PROVE RateInv'
  BY <1>21, <1>D, <1>G DEF WithdrawDropped, Withdraws
<1>22. ASSUME NEW u \in Users, WriteDropped(u) PROVE RateInv'
  BY <1>22, <1>D DEF WriteDropped
<1>23. ASSUME NEW u \in Users, NEW l \in Lanes, RemoveLane(u, l) PROVE RateInv'
  BY <1>23, <1>B DEF RemoveLane, Asked
<1>24. ASSUME NEW u \in Users, WithdrawRemoved(u) PROVE RateInv'
  BY <1>24, <1>D, <1>G DEF WithdrawRemoved, Withdraws
<1>25. ASSUME NEW u \in Users, WriteRemoved(u) PROVE RateInv'
  <2>1. /\ slips' = slips /\ request'[u].at = "IDLE"
        /\ \A v \in Users \ {u} : request'[v] = request[v]
    BY <1>25, <1>T, DoneRow DEF WriteRemoved
  <2>2. \A k \in Lanes : lane'[k] = lane[k] \/ (~Live(k)' /\ ~LaneLocked(k))
    <3>1. \A k \in Lanes : [lane[k] EXCEPT !.state = "DELETED"].state = "DELETED"
      BY <1>T DEF LaneRow
    <3> QED  BY <1>25, <1>T, <3>1 DEF WriteRemoved, Live
  <2> QED  BY <2>1, <2>2, RateKept
<1>26. CASE UNCHANGED vars
  BY <1>26, <1>N DEF vars
<1> QED
  BY <1>1, <1>2, <1>3, <1>4, <1>5, <1>6, <1>7, <1>8, <1>9, <1>10, <1>11, <1>12, <1>13, <1>14, <1>15,
     <1>16, <1>17, <1>18, <1>19, <1>20, <1>21, <1>22, <1>23, <1>24, <1>25, <1>26 DEF Next, Desk

(* However many desks propose, edit, correct, sign and delete rates of a     *)
(* route, no two are in force on one day, unless one of the named slips.     *)
THEOREM OneRateOnADay == Spec => []OneRateInForce
<1>1. RateInv => OneRateInForce
  BY DEF RateInv, OneRateInForce
<1> QED  BY InitTypeInv, StepTypeInv, InitRateInv, StepRateInv, <1>1, PTL DEF Spec

-----------------------------------------------------------------------------
(* A waiting change can be decided *)

(* An approval of a new lane decides no change.                             *)
LaneKinds ==
    /\ \A a \in Approvals : approval[a].kind = "LANE" => approval[a].revision = None
    /\ \A u \in InFlight("SIGNING") :
          /\ request[u].approval \in Approvals
          /\ approval[request[u].approval].kind = "LANE" /\ approval[request[u].approval].status # "NONE"

WaitInv == WaitingIsDecidable /\ LaneKinds

LEMMA InitWaitInv == Init => WaitInv
BY DEF Init, WaitInv, WaitingIsDecidable, LaneKinds, NoRevision, NoApproval, InFlight, At, Idle

(* No change starts to wait, and what a waiting one can be decided by goes   *)
(* only with it.                                                           *)
LEMMA WaitKept ==
    ASSUME WaitingIsDecidable,
           \A r \in Revisions : revision'[r].status = "PENDING" => revision[r].status = "PENDING",
           \A a \in Approvals : approval[a].status = "PENDING" =>
              \/ approval'[a].status = "PENDING" /\ approval'[a].revision = approval[a].revision
              \/ \A r \in Revisions : approval[a].revision = r => revision'[r].status # "PENDING",
           \A u \in Users : At(u, "INSERTED") => request'[u] = request[u],
           marks \subseteq marks'
    PROVE  WaitingIsDecidable'
<1> SUFFICES ASSUME NEW r \in Revisions, revision'[r].status = "PENDING"
             PROVE  \/ \E a \in Approvals : approval'[a].status = "PENDING" /\ approval'[a].revision = r
                    \/ \E u \in Users : request'[u].at = "INSERTED" /\ request'[u].revision = r
                    \/ <<"CUT", r>> \in marks'
  BY DEF WaitingIsDecidable, InFlight, At
<1>1. revision[r].status = "PENDING"
  OBVIOUS
<1>2. \/ \E a \in Approvals : approval[a].status = "PENDING" /\ approval[a].revision = r
      \/ \E u \in Users : At(u, "INSERTED") /\ request[u].revision = r
      \/ <<"CUT", r>> \in marks
  BY <1>1 DEF WaitingIsDecidable, InFlight
<1> QED  BY <1>2 DEF At

(* What an approval is about does not change while it is there.             *)
LEMMA KindsKept ==
    ASSUME LaneKinds,
           \A a \in Approvals : /\ approval[a].status # "NONE" => approval'[a].status # "NONE"
                                /\ approval[a].status # "NONE" \/ approval'[a].status = "NONE" =>
                                      approval'[a].kind = approval[a].kind /\ approval'[a].revision = approval[a].revision
                                /\ /\ approval'[a].kind = "LANE"
                                   /\ approval[a].status = "NONE" /\ approval'[a].status # "NONE"
                                   => approval'[a].revision = None,
           \A u \in Users : \/ request'[u] = request[u]
                            \/ request'[u].at # "SIGNING"
                            \/ /\ request'[u].approval \in Approvals
                               /\ approval'[request'[u].approval].kind = "LANE"
                               /\ approval'[request'[u].approval].status # "NONE"
    PROVE  LaneKinds'
<1>1. \A a \in Approvals : approval'[a].kind = "LANE" => approval'[a].revision = None
  BY DEF LaneKinds
<1>2. \A u \in Users : request'[u].at = "SIGNING" =>
          /\ request'[u].approval \in Approvals
          /\ approval'[request'[u].approval].kind = "LANE" /\ approval'[request'[u].approval].status # "NONE"
  BY DEF LaneKinds, InFlight, At
<1> QED  BY <1>1, <1>2 DEF LaneKinds, InFlight, At

LEMMA TurnDownEffect ==
    ASSUME TypeInv, NEW a, TurnDown(a)
    PROVE  /\ \A r \in Revisions : revision'[r].status = "PENDING" =>
                                     revision[r].status = "PENDING" /\ approval[a].revision # r
           /\ \A b \in Approvals : /\ b # a => approval'[b] = approval[b]
                                   /\ b = a => approval'[b].status = "REJECTED"
                                   /\ approval'[b].kind = approval[b].kind
                                   /\ approval'[b].revision = approval[b].revision
<1>1. revision \in [Revisions -> RevisionRow] /\ approval \in [Approvals -> ApprovalRow]
  BY DEF TypeInv, TypeOK
<1>2. \A r \in Revisions : [revision[r] EXCEPT !.status = "REJECTED"].status = "REJECTED"
  BY <1>1 DEF RevisionRow
<1>3. ASSUME NEW b \in Approvals, NEW x, x = [approval[b] EXCEPT !.status = "REJECTED"]
      PROVE  x.status = "REJECTED" /\ x.kind = approval[b].kind /\ x.revision = approval[b].revision
  BY <1>1, <1>3 DEF ApprovalRow
<1>4. \A r \in Revisions : revision'[r].status = "PENDING" =>
          revision[r].status = "PENDING" /\ approval[a].revision # r
  BY <1>2 DEF TurnDown, ClosedWith
<1>5. \A b \in Approvals : /\ b # a => approval'[b] = approval[b]
                           /\ b = a => approval'[b] = [approval[b] EXCEPT !.status = "REJECTED"]
  BY <1>1 DEF TurnDown, Decided
<1>6. ASSUME NEW b \in Approvals, b = a
      PROVE  /\ approval'[b].status = "REJECTED"
             /\ approval'[b].kind = approval[b].kind /\ approval'[b].revision = approval[b].revision
  <2>1. approval'[b] = [approval[b] EXCEPT !.status = "REJECTED"]
    BY <1>5, <1>6
  <2> QED  BY <1>3, <2>1
<1>7. \A b \in Approvals : b # a => approval'[b] = approval[b]
  BY <1>5
<1> QED  BY <1>4, <1>6, <1>7

LEMMA StepWaitInv == TypeInv /\ WaitInv /\ [Next]_vars => WaitInv'
<1> SUFFICES ASSUME TypeInv, WaitingIsDecidable, LaneKinds, [Next]_vars PROVE WaitInv'
  BY DEF WaitInv
<1>T. /\ lane \in [Lanes -> LaneRow] /\ request \in [Users -> RequestRow]
      /\ revision \in [Revisions -> RevisionRow] /\ approval \in [Approvals -> ApprovalRow]
  BY DEF TypeInv, TypeOK
(* Only the request moves, or a revision stops waiting. *)
<1>K. ASSUME NEW u \in Users, UNCHANGED approval, marks \subseteq marks', ~At(u, "INSERTED"),
             \A r \in Revisions : revision'[r].status = "PENDING" => revision[r].status = "PENDING",
             \A v \in Users \ {u} : request'[v] = request[v],
             request'[u].at # "SIGNING"
      PROVE  WaitInv'
  <2>1. WaitingIsDecidable'
    BY <1>K, WaitKept DEF At
  <2>2. LaneKinds'
    BY <1>K, KindsKept
  <2> QED  BY <2>1, <2>2 DEF WaitInv
<1>D. ASSUME NEW u \in Users, UNCHANGED approval, marks \subseteq marks', ~At(u, "INSERTED"), Done(u),
             \A r \in Revisions : revision'[r].status = "PENDING" => revision[r].status = "PENDING"
      PROVE  WaitInv'
  BY <1>D, <1>K, <1>T, DoneRow
<1>B. ASSUME NEW u \in Users, UNCHANGED <<approval, revision>>, marks \subseteq marks', NEW row, Begins(u, row),
             row.at # "SIGNING"
      PROVE  WaitInv'
  <2>1. ~At(u, "INSERTED")
    BY <1>B DEF Begins, At
  <2> QED  BY <1>B, <1>K, <1>T, <2>1, BeginsRow
<1>N. ASSUME UNCHANGED <<approval, request, marks>>, 
             \A r \in Revisions : revision'[r].status = "PENDING" => revision[r].status = "PENDING"
      PROVE  WaitInv'
  <2>1. WaitingIsDecidable'
    BY <1>N, WaitKept
  <2>2. LaneKinds'
    BY <1>N, KindsKept
  <2> QED  BY <2>1, <2>2 DEF WaitInv
<1>M. \A m, is : Marks(m, is) => marks \subseteq marks'
  BY DEF Marks
<1>J. \A r \in Revisions : Rejected(r) \in [Revisions -> RevisionRow]
        /\ \A k \in Revisions : Rejected(r)[k].status = "PENDING" => revision[k].status = "PENDING"
  BY <1>T, RejectedType
<1>J1. \A k \in Revisions : Rejected(None)[k] = revision[k]
  BY <1>T, NoneAssumption, RejectedType
(* Turned down, by an approver or by the desk that withdraws it. *)
<1>R. ASSUME NEW a, TurnDown(a), UNCHANGED marks,
             \A v \in Users : request'[v] = request[v] \/ (~At(v, "INSERTED") /\ request'[v].at # "SIGNING")
      PROVE  WaitInv'
  <2>1. WaitingIsDecidable'
    BY <1>R, TurnDownEffect, WaitKept
  <2>2. \A b \in Approvals : /\ approval[b].status # "NONE" => approval'[b].status # "NONE"
                            /\ approval'[b].kind = approval[b].kind
                            /\ approval'[b].revision = approval[b].revision
    BY <1>R, TurnDownEffect
  <2>3. LaneKinds'
    <3>1. \A b \in Approvals : approval'[b].kind = "LANE" => approval'[b].revision = None
      BY <2>2 DEF LaneKinds
    <3> QED  BY <1>R, <2>2, <3>1, KindsKept
  <2> QED  BY <2>1, <2>3 DEF WaitInv
<1>W. ASSUME NEW u \in Users, NEW s \in {"DROPPED", "REMOVED"}, Withdraws(u, s), ~At(u, "INSERTED"),
             UNCHANGED marks
      PROVE  WaitInv'
  <2>1. CASE TurnDown(request[u].approval) /\ Goes(u, s)
    <3>1. request'[u].at = s /\ \A v \in Users \ {u} : request'[v] = request[v]
      BY <1>T, <2>1 DEF Goes, RequestRow
    <3> QED  BY <1>R, <1>W, <2>1, <3>1
  <2>2. CASE UNCHANGED <<approval, revision>> /\ Done(u)
    BY <1>D, <1>W, <2>2
  <2> QED  BY <1>W, <2>1, <2>2 DEF Withdraws
<1>1. CASE Tick
  BY <1>1, <1>N DEF Tick
<1>2. ASSUME NEW u \in Users, Stops(u) PROVE WaitInv'
  <2>1. request'[u].at = "IDLE" /\ \A v \in Users \ {u} : request'[v] = request[v]
    BY <1>2, <1>T, DoneRow DEF Stops
  <2>2. LaneKinds'
    BY <1>2, <2>1, KindsKept DEF Stops
  <2>3. CASE ~At(u, "INSERTED")
    BY <1>2, <1>D, <1>M, <2>3 DEF Stops
  <2>4. CASE At(u, "INSERTED")
    <3>1. marks' = marks \cup {<<"CUT", request[u].revision>>} /\ UNCHANGED <<approval, revision>>
      BY <1>2, <2>4 DEF Stops, Marks, At
    <3>2. WaitingIsDecidable'
      BY <2>1, <3>1 DEF WaitingIsDecidable, InFlight, At
    <3> QED  BY <2>2, <3>2 DEF WaitInv
  <2> QED  BY <2>3, <2>4
<1>3. ASSUME NEW a \in Approvals, Reject(a) PROVE WaitInv'
  BY <1>3, <1>R DEF Reject
<1>4. ASSUME NEW a \in Approvals, ApproveRevision(a) PROVE WaitInv'
  <2> PICK r \in Revisions, n \in Lanes :
        /\ approval[a].kind = "REVISION" /\ approval[a].revision = r
        /\ revision' = [revision EXCEPT ![r] = [@ EXCEPT !.status = "APPLIED", !.draft = EffectiveFrom(r), !.to = n]]
        /\ approval' = Decided(a, "APPROVED")
        /\ UNCHANGED <<request, marks>>
    BY <1>4 DEF ApproveRevision
  <2>1. revision'[r].status = "APPLIED" /\ \A k \in Revisions \ {r} : revision'[k] = revision[k]
    BY <1>T DEF RevisionRow
  <2>2. /\ \A b \in Approvals \ {a} : approval'[b] = approval[b]
        /\ approval'[a].status = "APPROVED" /\ approval'[a].kind = approval[a].kind
        /\ approval'[a].revision = approval[a].revision
    BY <1>T DEF Decided, ApprovalRow
  <2>3. WaitingIsDecidable'
    BY <2>1, <2>2, WaitKept
  <2>4. LaneKinds'
    BY <2>2, KindsKept
  <2> QED  BY <2>3, <2>4 DEF WaitInv
<1>5. ASSUME NEW u \in Users, NEW a \in Approvals, SignLane(u, a) PROVE WaitInv'
  <2> DEFINE row == Asked("SIGNING", None, None, a, approval[a].shown)
  <2>1. Begins(u, row) /\ row.at = "SIGNING" /\ row.approval = a
    BY <1>5 DEF SignLane, Asked
  <2>2. request'[u] = row /\ \A v \in Users \ {u} : request'[v] = request[v]
    BY <1>T, <2>1, BeginsRow
  <2>3. approval[a].kind = "LANE" /\ approval[a].status = "PENDING" /\ UNCHANGED <<approval, revision, marks>>
    BY <1>5 DEF SignLane, Waiting
  <2>4. ~At(u, "INSERTED")
    BY <2>1 DEF Begins, At
  <2>5. WaitingIsDecidable'
    BY <2>2, <2>3, <2>4, WaitKept DEF At
  <2>6. LaneKinds'
    BY <2>1, <2>2, <2>3, KindsKept
  <2> QED  BY <2>5, <2>6 DEF WaitInv
<1>6. ASSUME NEW u \in Users, InsertSigned(u) PROVE WaitInv'
  <2> DEFINE a == request[u].approval
  <2>1. At(u, "SIGNING") /\ approval' = Decided(a, "APPROVED") /\ Done(u) /\ UNCHANGED <<revision, marks>>
    BY <1>6 DEF InsertSigned
  <2>2. a \in Approvals /\ approval[a].revision = None
    BY <2>1 DEF LaneKinds, InFlight
  <2>3. /\ \A b \in Approvals \ {a} : approval'[b] = approval[b]
        /\ approval'[a].status = "APPROVED" /\ approval'[a].kind = approval[a].kind
        /\ approval'[a].revision = approval[a].revision
    BY <1>T, <2>1, <2>2 DEF Decided, ApprovalRow
  <2>4. request'[u].at = "IDLE" /\ \A v \in Users \ {u} : request'[v] = request[v]
    BY <1>T, <2>1, DoneRow
  <2>5. WaitingIsDecidable'
    BY <2>1, <2>2, <2>3, <2>4, WaitKept, NoneAssumption DEF At
  <2>6. LaneKinds'
    BY <2>2, <2>3, <2>4, KindsKept
  <2> QED  BY <2>5, <2>6 DEF WaitInv
<1>7. ASSUME NEW u \in Users, NEW l \in Lanes, NEW f \in Changes, Propose(u, l, f) PROVE WaitInv'
  BY <1>7, <1>B DEF Propose, Asked
<1>8. ASSUME NEW u \in Users, InsertRevision(u) PROVE WaitInv'
  <2> PICK r \in Revisions :
        /\ At(u, "PROPOSING")
        /\ revision' = [revision EXCEPT ![r] =
               [status |-> "PENDING", lane |-> request[u].lane, draft |-> request[u].figures,
                to |-> None, approval |-> None]]
        /\ request' = [request EXCEPT ![u] = [@ EXCEPT !.at = "INSERTED", !.revision = r]]
        /\ UNCHANGED <<approval, marks>>
    BY <1>8 DEF InsertRevision
  <2>1. /\ request'[u].at = "INSERTED" /\ request'[u].revision = r
        /\ \A v \in Users \ {u} : request'[v] = request[v]
    BY <1>T DEF RequestRow
  <2>2. \A k \in Revisions \ {r} : revision'[k] = revision[k]
    BY <1>T
  <2>3. WaitingIsDecidable'
    BY <2>1, <2>2 DEF WaitingIsDecidable, InFlight, At
  <2>4. LaneKinds'
    BY <2>1, KindsKept
  <2> QED  BY <2>3, <2>4 DEF WaitInv
<1>9. ASSUME NEW u \in Users, RaiseRevision(u) PROVE WaitInv'
  <2> PICK a \in Approvals :
        /\ At(u, "INSERTED") /\ approval[a].status = "NONE"
        /\ approval' = [approval EXCEPT ![a] =
               [status |-> "PENDING", kind |-> "REVISION", revision |-> request[u].revision,
                shown |-> request[u].figures]]
        /\ request' = [request EXCEPT ![u] = [@ EXCEPT !.at = "RAISED", !.approval = a]]
        /\ UNCHANGED <<revision, marks>>
    BY <1>9 DEF RaiseRevision
  <2>1. request'[u].at = "RAISED" /\ \A v \in Users \ {u} : request'[v] = request[v]
    BY <1>T DEF RequestRow
  <2>2. /\ approval'[a].status = "PENDING" /\ approval'[a].kind = "REVISION"
        /\ approval'[a].revision = request[u].revision
        /\ \A b \in Approvals \ {a} : approval'[b] = approval[b]
    BY <1>T
  <2>3. WaitingIsDecidable'
    BY <2>1, <2>2 DEF WaitingIsDecidable, InFlight, At
  <2>4. LaneKinds'
    BY <2>1, <2>2, KindsKept
  <2> QED  BY <2>3, <2>4 DEF WaitInv
<1>10. ASSUME NEW u \in Users, LinkRevision(u) PROVE WaitInv'
  <2>1. \A k \in Revisions : revision'[k].status = revision[k].status
    BY <1>10, <1>T DEF LinkRevision, RevisionRow
  <2> QED  BY <1>10, <1>D, <2>1 DEF LinkRevision, At
<1>11. ASSUME NEW u \in Users, NEW f \in Asks, AddLane(u, f) PROVE WaitInv'
  BY <1>11, <1>B DEF AddLane, Asked
<1>12. ASSUME NEW u \in Users, RaiseLane(u) PROVE WaitInv'
  <2> PICK a \in Approvals :
        /\ At(u, "ADDING") /\ approval[a].status = "NONE"
        /\ approval' = [approval EXCEPT ![a] =
               [status |-> "PENDING", kind |-> "LANE", revision |-> None, shown |-> request[u].figures]]
        /\ Done(u) /\ UNCHANGED <<revision, marks>>
    BY <1>12 DEF RaiseLane
  <2>1. request'[u].at = "IDLE" /\ \A v \in Users \ {u} : request'[v] = request[v]
    BY <1>T, DoneRow
  <2>2. /\ approval'[a].status = "PENDING" /\ approval'[a].revision = None
        /\ \A b \in Approvals \ {a} : approval'[b] = approval[b]
    BY <1>T
  <2>3. WaitingIsDecidable'
    BY <2>1, <2>2, WaitKept DEF At
  <2>4. LaneKinds'
    BY <2>1, <2>2, KindsKept
  <2> QED  BY <2>3, <2>4 DEF WaitInv
<1>13. ASSUME NEW f \in Asks, WinLane(f) PROVE WaitInv'
  BY <1>13, <1>N DEF WinLane
<1>14. ASSUME NEW u \in Users, NEW l \in Lanes, NEW f \in Asks, Correct(u, l, f) PROVE WaitInv'
  BY <1>14, <1>B DEF Correct, Asked
<1>15. ASSUME NEW u \in Users, WriteCorrection(u) PROVE WaitInv'
  BY <1>15, <1>D DEF WriteCorrection, At
<1>A. ASSUME NEW a \in Approvals, NEW f, UNCHANGED <<revision, marks>>,
             approval' = [approval EXCEPT ![a] = [@ EXCEPT !.shown = f]],
             \A v \in Users : request'[v] = request[v] \/ (~At(v, "INSERTED") /\ request'[v].at # "SIGNING")
      PROVE  WaitInv'
  <2>1. \A b \in Approvals : /\ approval'[b].status = approval[b].status
                            /\ approval'[b].kind = approval[b].kind
                            /\ approval'[b].revision = approval[b].revision
    BY <1>A, <1>T DEF ApprovalRow
  <2>2. WaitingIsDecidable'
    BY <1>A, <2>1, WaitKept
  <2>3. LaneKinds'
    <3>1. \A b \in Approvals : approval'[b].kind = "LANE" => approval'[b].revision = None
      BY <2>1 DEF LaneKinds
    <3> QED  BY <1>A, <2>1, <3>1, KindsKept
  <2> QED  BY <2>2, <2>3 DEF WaitInv
<1>16. ASSUME NEW a \in Approvals, NEW f \in Asks, EditPendingLane(a, f) PROVE WaitInv'
  BY <1>16, <1>A DEF EditPendingLane
<1>17. ASSUME NEW u \in Users, NEW r \in Revisions, NEW f \in Changes, EditRevision(u, r, f) PROVE WaitInv'
  BY <1>17, <1>B DEF EditRevision, Asked
<1>18. ASSUME NEW u \in Users, WriteEdit(u) PROVE WaitInv'
  <2>1. \A k \in Revisions : revision'[k].status = revision[k].status
    BY <1>18, <1>T DEF WriteEdit, RevisionRow
  <2>2. At(u, "EDITING") /\ marks \subseteq marks' /\ UNCHANGED approval
    BY <1>18, <1>M DEF WriteEdit
  <2>3. CASE Done(u)
    BY <1>D, <2>1, <2>2, <2>3 DEF At
  <2>4. CASE Goes(u, "EDITED")
    <3>1. request'[u].at = "EDITED" /\ \A v \in Users \ {u} : request'[v] = request[v]
      BY <1>T, <2>4 DEF Goes, RequestRow
    <3> QED  BY <1>K, <2>1, <2>2, <3>1 DEF At
  <2> QED  BY <1>18, <2>3, <2>4 DEF WriteEdit
<1>19. ASSUME NEW u \in Users, AmendEdited(u) PROVE WaitInv'
  <2> DEFINE a == request[u].approval
  <2>1. At(u, "EDITED") /\ Done(u) /\ UNCHANGED <<revision, marks>>
    BY <1>19 DEF AmendEdited
  <2>2. request'[u].at = "IDLE" /\ \A v \in Users \ {u} : request'[v] = request[v]
    BY <1>T, <2>1, DoneRow
  <2>3. CASE UNCHANGED approval
    BY <1>D, <2>1, <2>3 DEF At
  <2>4. CASE approval' = [approval EXCEPT ![a] = [@ EXCEPT !.shown = request[u].figures]] /\ a \in Approvals
    BY <1>A, <2>1, <2>2, <2>4 DEF At
  <2>5. a \notin Approvals => [approval EXCEPT ![a] = [@ EXCEPT !.shown = request[u].figures]] = approval
    BY <1>T
  <2> QED  BY <1>19, <2>3, <2>4, <2>5 DEF AmendEdited
<1>20. ASSUME NEW u \in Users, NEW r \in Revisions, DropRevision(u, r) PROVE WaitInv'
  BY <1>20, <1>B, <1>M DEF DropRevision, Asked
<1>21. ASSUME NEW u \in Users, WithdrawDropped(u) PROVE WaitInv'
  BY <1>21, <1>W DEF WithdrawDropped, At
<1>22. ASSUME NEW u \in Users, WriteDropped(u) PROVE WaitInv'
  <2>1. request[u].revision \in Revisions \cup {None}
    BY <1>T DEF RequestRow
  <2> QED  BY <1>22, <1>D, <1>J, <1>J1, <2>1 DEF WriteDropped, At
<1>23. ASSUME NEW u \in Users, NEW l \in Lanes, RemoveLane(u, l) PROVE WaitInv'
  BY <1>23, <1>B, <1>M DEF RemoveLane, Asked
<1>24. ASSUME NEW u \in Users, WithdrawRemoved(u) PROVE WaitInv'
  BY <1>24, <1>W DEF WithdrawRemoved, At
<1>25. ASSUME NEW u \in Users, WriteRemoved(u) PROVE WaitInv'
  <2>1. request[u].revision \in Revisions \cup {None}
    BY <1>T DEF RequestRow
  <2>2. \A r \in Revisions : revision'[r].status = "PENDING" => revision[r].status = "PENDING"
    BY <1>25, <1>J, <2>1 DEF WriteRemoved
  <2> QED  BY <1>25, <1>D, <2>2 DEF WriteRemoved, At
<1>26. CASE UNCHANGED vars
  BY <1>26, <1>N DEF vars
<1> QED
  BY <1>1, <1>2, <1>3, <1>4, <1>5, <1>6, <1>7, <1>8, <1>9, <1>10, <1>11, <1>12, <1>13, <1>14, <1>15,
     <1>16, <1>17, <1>18, <1>19, <1>20, <1>21, <1>22, <1>23, <1>24, <1>25, <1>26 DEF Next, Desk

(* However the requests interleave, a change that waits has an approval that *)
(* waits for it, unless its proposal was cut short before raising one.       *)
THEOREM WaitingCanBeDecided == Spec => []WaitingIsDecidable
<1>1. WaitInv => WaitingIsDecidable
  BY DEF WaitInv
<1> QED  BY InitTypeInv, StepTypeInv, InitWaitInv, StepWaitInv, <1>1, PTL DEF Spec

-----------------------------------------------------------------------------
(* Signed for good, and shown as it waits *)

Flagged(m, r) == <<m, r>> \in marks

Blank  == \A a \in Approvals : approval[a].status = "NONE" => approval[a].revision = None
OneEach ==
    \A a, b \in Approvals : approval[a].revision = approval[b].revision /\ approval[a].revision # None => a = b
About  == \A a \in Approvals : approval[a].revision # None => revision[approval[a].revision].status # "NONE"
Linked == \A r \in Revisions : revision[r].approval # None => approval[revision[r].approval].revision = r

(* What a desk raises or corrects is what the revision says, as long as it     *)
(* waits and no other desk corrected it meanwhile.                           *)
AsAsked(u) ==
    LET r == request[u].revision IN
    \/ revision[r].draft = request[u].figures
    \/ revision[r].status # "PENDING"
    \/ Flagged("CROSSED", r)

(* A request's approval is the one of its revision: not there before it is      *)
(* raised, and turned down before a deletion is written.                     *)
Fits(u) ==
    LET r == request[u].revision
        a == request[u].approval
    IN
    /\ At(u, "INSERTED") =>
         /\ revision[r].status # "NONE" /\ AsAsked(u)
         /\ \A b \in Approvals : approval[b].revision # r
         /\ \A v \in Users : At(v, "INSERTED") /\ request[v].revision = r => v = u
    /\ request[u].at \in {"RAISED", "DROPPING", "REMOVING", "EDITED"} \/ (At(u, "EDITING") /\ a # None) =>
         r \in Revisions /\ a \in Approvals /\ approval[a].revision = r
    /\ request[u].at \in {"EDITING", "EDITED"} => revision[r].status # "NONE"
    /\ At(u, "EDITED") => AsAsked(u)
    /\ request[u].at \in {"DROPPED", "REMOVED"} /\ r # None =>
         \/ Flagged("UNLINKED", r)
         \/ \E b \in Approvals : approval[b].revision = r /\ approval[b].status = "REJECTED"

SignInv ==
    /\ Blank /\ OneEach /\ About /\ Linked
    /\ \A u \in Users : Fits(u)
    /\ SignedForGood /\ ShownIsWaiting

LEMMA Rows ==
    ASSUME TypeInv
    PROVE  /\ lane \in [Lanes -> LaneRow] /\ revision \in [Revisions -> RevisionRow]
           /\ approval \in [Approvals -> ApprovalRow] /\ request \in [Users -> RequestRow]
           /\ \A u \in Users : /\ request[u] \in RequestRow
                               /\ request[u].revision \in Revisions \cup {None}
                               /\ request[u].approval \in Approvals \cup {None}
                               /\ request[u].at \in {"INSERTED", "RAISED", "EDITING", "EDITED"} =>
                                    request[u].revision \in Revisions
           /\ \A r \in Revisions : revision[r] \in RevisionRow /\ revision[r].approval \in Approvals \cup {None}
           /\ \A a \in Approvals : approval[a] \in ApprovalRow /\ approval[a].revision \in Revisions \cup {None}
           /\ None \notin Revisions /\ None \notin Approvals /\ None \notin Lanes
<1>1. /\ lane \in [Lanes -> LaneRow] /\ revision \in [Revisions -> RevisionRow]
      /\ approval \in [Approvals -> ApprovalRow] /\ request \in [Users -> RequestRow]
  BY DEF TypeInv, TypeOK
<1>2. \A h \in RequestRow : h.revision \in Revisions \cup {None} /\ h.approval \in Approvals \cup {None}
  BY DEF RequestRow
<1>3. \A h \in RevisionRow : h.approval \in Approvals \cup {None}
  BY DEF RevisionRow
<1>4. \A h \in ApprovalRow : h.revision \in Revisions \cup {None}
  BY DEF ApprovalRow
<1>5. \A u \in Users : request[u].at \in {"INSERTED", "RAISED", "EDITING", "EDITED"} =>
                         request[u].revision \in Revisions
  BY DEF TypeInv, Refers
<1> QED BY <1>1, <1>2, <1>3, <1>4, <1>5, NoneAssumption

(* What every step keeps of the rows. *)
Grows ==
    /\ \A a \in Approvals : /\ approval[a].revision # None => approval'[a].revision = approval[a].revision
                            /\ approval[a].status = "REJECTED" /\ approval[a].revision # None =>
                              approval'[a].status = "REJECTED"
                            /\ approval'[a].status = "NONE" => approval[a].status = "NONE"
    /\ \A r \in Revisions : revision[r].status # "NONE" =>
         revision'[r].status # "NONE" /\ (revision'[r].status = "PENDING" => revision[r].status = "PENDING")
    /\ marks \subseteq marks'

(* A request that did not move. *)
LEMMA FitsStays ==
    ASSUME TypeInv, SignInv, Grows, NEW v \in Users, request'[v] = request[v],
           At(v, "INSERTED") =>
               /\ \A b \in Approvals : approval'[b].revision # request[v].revision
               /\ \A w \in Users : request'[w].at = "INSERTED" /\ request'[w].revision = request[v].revision => w = v,
           At(v, "INSERTED") \/ At(v, "EDITED") =>
               \/ revision'[request[v].revision].draft = revision[request[v].revision].draft
               \/ revision'[request[v].revision].status # "PENDING"
               \/ <<"CROSSED", request[v].revision>> \in marks'
    PROVE  Fits(v)'
<1> DEFINE r == request[v].revision
           a == request[v].approval
<1>1. /\ Fits(v) /\ r \in Revisions \cup {None}
      /\ request[v].at \in {"INSERTED", "RAISED", "EDITING", "EDITED"} => r \in Revisions
      /\ None \notin Revisions
  BY Rows DEF SignInv
<1>2. r' = r /\ a' = a /\ \A s : At(v, s)' <=> At(v, s)
  BY DEF At
<1>3. (At(v, "INSERTED") \/ At(v, "EDITED")) => AsAsked(v)'
  <2> SUFFICES ASSUME At(v, "INSERTED") \/ At(v, "EDITED")  PROVE AsAsked(v)'
    OBVIOUS
  <2>1. AsAsked(v) /\ r \in Revisions /\ revision[r].status # "NONE"
    BY <1>1 DEF Fits, At
  <2> QED BY <2>1 DEF AsAsked, Grows, Flagged
<1>4. At(v, "INSERTED") =>
        /\ revision'[r].status # "NONE" /\ AsAsked(v)'
        /\ \A b \in Approvals : approval'[b].revision # r
        /\ \A w \in Users : At(w, "INSERTED")' /\ request'[w].revision = r => w = v
  <2> SUFFICES ASSUME At(v, "INSERTED")  PROVE revision'[r].status # "NONE"
    BY <1>3 DEF At
  <2>1. r \in Revisions /\ revision[r].status # "NONE"
    BY <1>1 DEF Fits, At
  <2> QED BY <2>1 DEF Grows
<1>5. request[v].at \in {"RAISED", "DROPPING", "REMOVING", "EDITED"} \/ (At(v, "EDITING") /\ a # None) =>
        r \in Revisions /\ a \in Approvals /\ approval'[a].revision = r
  BY <1>1 DEF Fits, Grows
<1>6. request[v].at \in {"EDITING", "EDITED"} => revision'[r].status # "NONE"
  BY <1>1 DEF Fits, Grows
<1>7. request[v].at \in {"DROPPED", "REMOVED"} /\ r # None =>
        \/ <<"UNLINKED", r>> \in marks'
        \/ \E b \in Approvals : approval'[b].revision = r /\ approval'[b].status = "REJECTED"
  BY <1>1 DEF Fits, Grows, Flagged
<1> QED BY <1>2, <1>3, <1>4, <1>5, <1>6, <1>7 DEF Fits, Flagged, At

LEMMA FitsIdle ==
    ASSUME NEW u \in Users, request'[u].at \in {"IDLE", "PROPOSING", "ADDING", "SIGNING", "CORRECTING"}
    PROVE  Fits(u)'
  BY DEF Fits, At

(* Every step but the two that insert a revision and raise its approval. *)
Moves ==
    \A u \in Users : \/ request'[u] = request[u]
                     \/ request'[u].at # "INSERTED" /\ Fits(u)'

LEMMA AllStay ==
    ASSUME TypeInv, SignInv, Grows, Moves,
           \A a \in Approvals : approval'[a].revision = approval[a].revision,
           \A r \in Revisions :
               \/ revision'[r].approval = revision[r].approval
               \/ revision'[r].approval \in Approvals /\ approval[revision'[r].approval].revision = r,
           \A u \in Users : request'[u] = request[u] /\ (At(u, "INSERTED") \/ At(u, "EDITED")) =>
               \/ revision'[request[u].revision].draft = revision[request[u].revision].draft
               \/ revision'[request[u].revision].status # "PENDING"
               \/ <<"CROSSED", request[u].revision>> \in marks'
    PROVE  Blank' /\ OneEach' /\ About' /\ Linked' /\ \A u \in Users : Fits(u)'
<1>1. Blank' /\ OneEach'
  BY DEF SignInv, Blank, OneEach, Grows
<1>2. About'
  <2>1. \A a \in Approvals : approval[a].revision \in Revisions \cup {None}
    BY Rows
  <2> QED BY <2>1 DEF SignInv, About, Grows
<1>3. Linked'
  <2>1. \A r \in Revisions : revision[r].approval \in Approvals \cup {None}
    BY Rows
  <2> QED BY <2>1 DEF SignInv, Linked
<1>4. ASSUME NEW u \in Users, request'[u] = request[u]  PROVE Fits(u)'
  <2>1. At(u, "INSERTED") =>
          /\ \A b \in Approvals : approval'[b].revision # request[u].revision
          /\ \A w \in Users : request'[w].at = "INSERTED" /\ request'[w].revision = request[u].revision => w = u
    <3> SUFFICES ASSUME At(u, "INSERTED")
                 PROVE  /\ \A b \in Approvals : approval'[b].revision # request[u].revision
                        /\ \A w \in Users :
                             request'[w].at = "INSERTED" /\ request'[w].revision = request[u].revision => w = u
      OBVIOUS
    <3>1. Fits(u)
      BY DEF SignInv
    <3>2. \A w \in Users : request'[w].at = "INSERTED" => request'[w] = request[w]
      BY DEF Moves
    <3> QED BY <3>1, <3>2 DEF Fits, At
  <2> QED BY <1>4, <2>1, FitsStays
<1> QED BY <1>1, <1>2, <1>3, <1>4 DEF Moves

(* One change, signed for good. *)
SignedAs(r) ==
    LET signed == {a \in Approvals : approval[a].revision = r /\ approval[a].status = "APPROVED"} IN
    /\ revision[r].to # None => /\ \E a \in signed : signed = {a}
                                /\ lane[revision[r].to].state # "NONE"
                                /\ revision[r].status = "APPLIED" \/ Flagged("UNLINKED", r)
    /\ revision[r].to = None => signed = {} /\ revision[r].status # "APPLIED"

(* One approval of one change, shown as it waits. *)
ShownFor(a, r) ==
    /\ approval[a].status = "PENDING" /\ approval[a].revision = r /\ revision[r].status = "PENDING"
    => \/ approval[a].shown = revision[r].draft
       \/ \E u \in InFlight("EDITED") : request[u].revision = r
       \/ Flagged("CROSSED", r) \/ Flagged("CUT", r)

LEMMA OneByOne ==
    /\ SignedForGood <=> \A r \in Revisions : SignedAs(r)
    /\ ShownIsWaiting <=> \A a \in Approvals, r \in Revisions : ShownFor(a, r)
    /\ SignedForGood' <=> \A r \in Revisions : SignedAs(r)'
    /\ ShownIsWaiting' <=> \A a \in Approvals, r \in Revisions : ShownFor(a, r)'
<1>1. SignedForGood <=> \A r \in Revisions : SignedAs(r)
  BY DEF SignedForGood, SignedAs, Flagged
<1>2. ShownIsWaiting <=> \A a \in Approvals, r \in Revisions : ShownFor(a, r)
  BY DEF ShownIsWaiting, ShownFor, Flagged
<1>3. SignedForGood' <=> \A r \in Revisions : SignedAs(r)'
  BY DEF SignedForGood, SignedAs, Flagged
<1>4. ShownIsWaiting' <=> \A a \in Approvals, r \in Revisions : ShownFor(a, r)'
  BY DEF ShownIsWaiting, ShownFor, Flagged
<1> QED BY <1>1, <1>2, <1>3, <1>4

(* A change whose signature and lane stay keeps its status, or loses it     *)
(* before it was signed or under a deletion that began too early.          *)
LEMMA SignStays ==
    ASSUME TypeInv, SignInv, Grows, NEW r \in Revisions,
           \A a \in Approvals : approval'[a].revision = r /\ approval'[a].status = "APPROVED" <=>
                                approval[a].revision = r /\ approval[a].status = "APPROVED",
           revision'[r].to = revision[r].to,
           \A l \in Lanes : lane[l].state # "NONE" => lane'[l].state # "NONE",
           \/ revision'[r].status = revision[r].status
           \/ revision'[r].status # "APPLIED" /\ (revision[r].to = None \/ Flagged("UNLINKED", r))
    PROVE  SignedAs(r)'
<1> DEFINE signed == {a \in Approvals : approval[a].revision = r /\ approval[a].status = "APPROVED"}
           later  == {a \in Approvals : approval'[a].revision = r /\ approval'[a].status = "APPROVED"}
<1>1. signed = later
  OBVIOUS
<1>2. SignedAs(r)
  BY OneByOne DEF SignInv
<1>3. /\ revision[r].to # None => /\ \E a \in signed : signed = {a}
                                  /\ lane[revision[r].to].state # "NONE"
                                  /\ revision[r].status = "APPLIED" \/ <<"UNLINKED", r>> \in marks
      /\ revision[r].to = None => signed = {} /\ revision[r].status # "APPLIED"
  BY <1>2 DEF SignedAs, Flagged
<1>4. revision[r].to \in Lanes \cup {None}
  BY Rows DEF RevisionRow
<1> HIDE DEF signed, later
<1>5. /\ revision'[r].to # None => /\ \E a \in later : later = {a}
                                   /\ lane'[revision'[r].to].state # "NONE"
                                   /\ revision'[r].status = "APPLIED" \/ <<"UNLINKED", r>> \in marks'
      /\ revision'[r].to = None => later = {} /\ revision'[r].status # "APPLIED"
  BY <1>1, <1>3, <1>4 DEF Grows, Flagged
<1> QED BY <1>5 DEF SignedAs, Flagged, later

(* An approval that waits and its change, when neither gets new figures. *)
LEMMA ShownStays ==
    ASSUME TypeInv, SignInv, Grows, NEW a \in Approvals, NEW r \in Revisions,
           approval'[a].status = "PENDING" /\ approval'[a].revision = r =>
               /\ approval[a].status = "PENDING" /\ approval[a].revision = r
               /\ approval'[a].shown = approval[a].shown,
           revision'[r].status = "PENDING" =>
               revision[r].status = "PENDING" /\ revision'[r].draft = revision[r].draft,
           \A u \in Users : At(u, "EDITED") /\ request[u].revision = r =>
               request'[u] = request[u] \/ <<"CUT", r>> \in marks'
    PROVE  ShownFor(a, r)'
<1>1. ShownFor(a, r)
  BY OneByOne DEF SignInv
<1> QED BY <1>1 DEF ShownFor, Flagged, InFlight, At, Grows

(* An action that writes neither a revision nor an approval. *)
LEMMA Quiet ==
    ASSUME TypeInv, SignInv, Moves, UNCHANGED <<revision, approval>>, marks \subseteq marks',
           \A l \in Lanes : lane[l].state # "NONE" => lane'[l].state # "NONE",
           \A u \in Users : At(u, "EDITED") =>
               request'[u] = request[u] \/ <<"CUT", request[u].revision>> \in marks'
    PROVE  SignInv'
<1>1. Grows
  BY DEF Grows
<1>2. Blank' /\ OneEach' /\ About' /\ Linked' /\ \A u \in Users : Fits(u)'
  BY <1>1, AllStay
<1>3. \A r \in Revisions : SignedAs(r)'
  BY <1>1, SignStays
<1>4. \A a \in Approvals, r \in Revisions : ShownFor(a, r)'
  BY <1>1, ShownStays
<1>5. SignedForGood' /\ ShownIsWaiting'
  BY <1>3, <1>4, OneByOne
<1> QED BY <1>2, <1>5 DEF SignInv

(* One field written leaves the others. *)
LEMMA OtherFields ==
    /\ \A h \in ApprovalRow, c \in {"APPROVED", "REJECTED"} : \A x : x = [h EXCEPT !.status = c] =>
         x.revision = h.revision /\ x.shown = h.shown /\ x.status = c
    /\ \A h \in RevisionRow : \A x : x = [h EXCEPT !.status = "REJECTED"] =>
         x.approval = h.approval /\ x.draft = h.draft /\ x.to = h.to /\ x.status = "REJECTED"
<1>1. ASSUME NEW h \in ApprovalRow, NEW x, NEW c \in {"APPROVED", "REJECTED"}, x = [h EXCEPT !.status = c]
      PROVE  x.revision = h.revision /\ x.shown = h.shown /\ x.status = c
  BY <1>1 DEF ApprovalRow
<1>2. ASSUME NEW h \in RevisionRow, NEW x, x = [h EXCEPT !.status = "REJECTED"]
      PROVE  x.approval = h.approval /\ x.draft = h.draft /\ x.to = h.to /\ x.status = "REJECTED"
  BY <1>2 DEF RevisionRow
<1> QED BY <1>1, <1>2

(* What a decision leaves of the approvals. *)
LEMMA DecidedRows ==
    ASSUME TypeInv, NEW a \in Approvals, NEW c \in {"APPROVED", "REJECTED"}, approval' = Decided(a, c)
    PROVE  /\ \A b \in Approvals \ {a} : approval'[b] = approval[b]
           /\ \A b \in Approvals : approval'[b].revision = approval[b].revision /\ approval'[b].shown = approval[b].shown
           /\ approval'[a].status = c
<1>1. /\ \A b \in Approvals \ {a} : approval'[b] = approval[b]
      /\ approval'[a] = [approval[a] EXCEPT !.status = c] /\ approval[a] \in ApprovalRow
  BY Rows DEF Decided
<1>2. approval'[a].revision = approval[a].revision /\ approval'[a].shown = approval[a].shown /\ approval'[a].status = c
  BY <1>1, OtherFields
<1> QED BY <1>1, <1>2

(* Turning down a request that waits. *)
LEMMA DownRows ==
    ASSUME TypeInv, NEW a \in Approvals, approval[a].status = "PENDING", TurnDown(a)
    PROVE  /\ \A b \in Approvals \ {a} : approval'[b] = approval[b]
           /\ \A b \in Approvals : approval'[b].revision = approval[b].revision /\ approval'[b].shown = approval[b].shown
           /\ approval'[a].status = "REJECTED"
           /\ \A r \in Revisions : /\ revision'[r].approval = revision[r].approval
                                   /\ revision'[r].draft = revision[r].draft
                                   /\ revision'[r].to = revision[r].to
                                   /\ \/ revision'[r].status = revision[r].status
                                      \/ revision[r].status = "PENDING" /\ revision'[r].status = "REJECTED"
<1>1. ASSUME NEW r \in Revisions
      PROVE  /\ revision'[r].approval = revision[r].approval
             /\ revision'[r].draft = revision[r].draft
             /\ revision'[r].to = revision[r].to
             /\ \/ revision'[r].status = revision[r].status
                \/ revision[r].status = "PENDING" /\ revision'[r].status = "REJECTED"
  <2>1. \/ revision'[r] = revision[r]
        \/ revision[r].status = "PENDING" /\ revision'[r] = [revision[r] EXCEPT !.status = "REJECTED"]
    BY DEF TurnDown, ClosedWith
  <2>2. revision[r] \in RevisionRow
    BY Rows
  <2> QED BY <2>1, <2>2, OtherFields
<1> QED BY <1>1, DecidedRows DEF TurnDown

LEMMA Down ==
    ASSUME TypeInv, SignInv, NEW a \in Approvals, approval[a].status = "PENDING", TurnDown(a),
           UNCHANGED <<lane, marks>>, Moves, \A u \in Users : At(u, "EDITED") => request'[u] = request[u]
    PROVE  SignInv'
<1> DEFINE A(b) == /\ approval'[b].revision = approval[b].revision
                   /\ approval'[b].shown = approval[b].shown
                   /\ b # a => approval'[b].status = approval[b].status
                   /\ b = a => approval'[b].status = "REJECTED"
           V(r) == /\ revision'[r].approval = revision[r].approval
                   /\ revision'[r].draft = revision[r].draft
                   /\ revision'[r].to = revision[r].to
                   /\ \/ revision'[r].status = revision[r].status
                      \/ revision[r].status = "PENDING" /\ revision'[r].status = "REJECTED"
<1>1. (\A b \in Approvals : A(b)) /\ (\A r \in Revisions : V(r))
  BY DownRows
<1>2. Grows
  BY <1>1 DEF Grows
<1>3. \A u \in Users : At(u, "INSERTED") \/ At(u, "EDITED") => request[u].revision \in Revisions
  BY Rows DEF At
<1>4. Blank' /\ OneEach' /\ About' /\ Linked' /\ \A u \in Users : Fits(u)'
  BY <1>1, <1>2, <1>3, AllStay
<1>5. ASSUME NEW r \in Revisions  PROVE SignedAs(r)'
  <2>1. revision[r].status = "PENDING" => revision[r].to = None \/ Flagged("UNLINKED", r)
    BY OneByOne DEF SignInv, SignedAs
  <2>2. \A b \in Approvals : approval'[b].revision = r /\ approval'[b].status = "APPROVED" <=>
                             approval[b].revision = r /\ approval[b].status = "APPROVED"
    BY <1>1
  <2>3. V(r)
    BY <1>1
  <2> HIDE DEF A
  <2> QED BY <1>2, <2>1, <2>2, <2>3, SignStays
<1>6. ASSUME NEW b \in Approvals, NEW r \in Revisions  PROVE ShownFor(b, r)'
  <2>1. A(b) /\ V(r)
    BY <1>1
  <2>2. approval'[b].status = "PENDING" /\ approval'[b].revision = r =>
               /\ approval[b].status = "PENDING" /\ approval[b].revision = r
               /\ approval'[b].shown = approval[b].shown
    BY <2>1
  <2>3. revision'[r].status = "PENDING" =>
               revision[r].status = "PENDING" /\ revision'[r].draft = revision[r].draft
    BY <2>1
  <2> QED BY <1>2, <2>2, <2>3, ShownStays
<1>7. SignedForGood' /\ ShownIsWaiting'
  BY <1>5, <1>6, OneByOne
<1> QED BY <1>4, <1>7 DEF SignInv

(* Signing a change. *)
LEMMA Approved ==
    ASSUME TypeInv, SignInv, NEW a \in Approvals, ApproveRevision(a)
    PROVE  SignInv'
<1>0. PICK r \in Revisions, n \in Lanes :
        LET l == revision[r].lane
            f == EffectiveFrom(r)
        IN
        /\ Waiting(a) /\ approval[a].revision = r /\ revision[r].status = "PENDING"
        /\ lane' = [lane EXCEPT ![l] = Closed(@, f), ![n] = Successor(lane[l], f)]
        /\ revision' = [revision EXCEPT ![r] = [@ EXCEPT !.status = "APPLIED", !.draft = f, !.to = n]]
        /\ approval' = Decided(a, "APPROVED")
        /\ UNCHANGED <<request, marks>>
  BY Zenon DEF ApproveRevision
<1> DEFINE l == revision[r].lane
           f == EffectiveFrom(r)
<1>A. /\ \A b \in Approvals : approval'[b].revision = approval[b].revision /\ approval'[b].shown = approval[b].shown
      /\ \A b \in Approvals \ {a} : approval'[b].status = approval[b].status
      /\ approval'[a].status = "APPROVED"
  BY <1>0, DecidedRows
<1>V. /\ revision'[r].approval = revision[r].approval /\ revision'[r].status = "APPLIED" /\ revision'[r].to = n
      /\ \A k \in Revisions \ {r} : revision'[k] = revision[k]
  <2>2. revision[r] \in RevisionRow /\ revision \in [Revisions -> RevisionRow]
    BY Rows
  <2>3. /\ revision'[r] = [revision[r] EXCEPT !.status = "APPLIED", !.draft = f, !.to = n]
        /\ \A k \in Revisions \ {r} : revision'[k] = revision[k]
    BY <1>0, <2>2
  <2> QED BY <2>2, <2>3 DEF RevisionRow
<1>L. \A k \in Lanes : lane[k].state # "NONE" \/ k = n => lane'[k].state # "NONE"
  <2>1. \A h \in LaneRow : Closed(h, f).state = h.state
    BY DEF Closed, LaneRow
  <2>2. Successor(lane[l], f).state = "LIVE"
    BY DEF Successor, LaneOf
  <2>3. \A k \in Lanes : /\ lane[k] \in LaneRow
                         /\ lane'[k] \in {Successor(lane[l], f), Closed(lane[k], f), lane[k]}
                         /\ k = n => lane'[k] = Successor(lane[l], f)
    BY <1>0, Rows
  <2> HIDE DEF f, l
  <2>4. ASSUME NEW k \in Lanes, lane[k].state # "NONE" \/ k = n  PROVE lane'[k].state # "NONE"
    <3>1. CASE k = n
      BY <2>2, <2>3, <3>1
    <3>2. CASE k # n
      BY <2>1, <2>2, <2>3, <2>4, <3>2
    <3> QED BY <3>1, <3>2
  <2> QED BY <2>4
<1>W. approval[a].status = "PENDING" /\ approval[a].revision = r /\ revision[r].status = "PENDING"
  BY <1>0 DEF Waiting
<1> HIDE DEF l, f
<1>1. Grows
  BY <1>0, <1>A, <1>V, <1>W DEF Grows
<1>2. Blank' /\ OneEach' /\ About' /\ Linked' /\ \A u \in Users : Fits(u)'
  <2>1. Moves
    BY <1>0 DEF Moves
  <2>2. \A k \in Revisions : revision'[k].approval = revision[k].approval
    BY <1>V
  <2>3. \A u \in Users : At(u, "INSERTED") \/ At(u, "EDITED") =>
               \/ revision'[request[u].revision].draft = revision[request[u].revision].draft
               \/ revision'[request[u].revision].status # "PENDING"
    <3>1. \A u \in Users : At(u, "INSERTED") \/ At(u, "EDITED") => request[u].revision \in Revisions
      BY Rows DEF At
    <3> QED BY <3>1, <1>V
  <2> QED BY <1>1, <1>A, <2>1, <2>2, <2>3, AllStay
<1>3. ASSUME NEW k \in Revisions  PROVE SignedAs(k)'
  <2>1. CASE k = r
    <3>1. \A b \in Approvals : approval[b].revision = r => b = a
      BY <1>W, Rows DEF SignInv, OneEach
    <3>2. {b \in Approvals : approval'[b].revision = r /\ approval'[b].status = "APPROVED"} = {a}
      BY <3>1, <1>A, <1>W
    <3>3. n # None /\ lane'[n].state # "NONE"
      BY <1>L, Rows
    <3>4. \E b \in {b \in Approvals : approval'[b].revision = r /\ approval'[b].status = "APPROVED"} :
             {c \in Approvals : approval'[c].revision = r /\ approval'[c].status = "APPROVED"} = {b}
      BY <3>2
    <3> QED BY <2>1, <3>3, <3>4, <1>V DEF SignedAs
  <2>2. CASE k # r
    <3>1. \A b \in Approvals : approval'[b].revision = k /\ approval'[b].status = "APPROVED" <=>
                               approval[b].revision = k /\ approval[b].status = "APPROVED"
      BY <1>A, <1>W, <2>2
    <3> QED BY <1>1, <1>L, <1>V, <2>2, <3>1, SignStays
  <2> QED BY <2>1, <2>2
<1>4. ASSUME NEW b \in Approvals, NEW k \in Revisions  PROVE ShownFor(b, k)'
  <2>1. revision'[k].status = "PENDING" =>
               revision[k].status = "PENDING" /\ revision'[k].draft = revision[k].draft
    BY <1>V
  <2>2. approval'[b].status = "PENDING" /\ approval'[b].revision = k =>
               /\ approval[b].status = "PENDING" /\ approval[b].revision = k
               /\ approval'[b].shown = approval[b].shown
    BY <1>A
  <2>3. \A u \in Users : request'[u] = request[u]
    BY <1>0
  <2> QED BY <1>1, <2>1, <2>2, <2>3, ShownStays
<1>5. SignedForGood' /\ ShownIsWaiting'
  BY <1>3, <1>4, OneByOne
<1> QED BY <1>2, <1>5 DEF SignInv


(* Signing a new lane: its approval is about no revision. *)
LEMMA Signed ==
    ASSUME TypeInv, WaitInv, SignInv, NEW u \in Users, InsertSigned(u)
    PROVE  SignInv'
<1> DEFINE a == request[u].approval
<1>1. a \in Approvals /\ approval[a].revision = None /\ approval[a].status # "NONE"
  BY DEF InsertSigned, WaitInv, LaneKinds, InFlight, At
<1>2. /\ approval' = Decided(a, "APPROVED") /\ Done(u) /\ UNCHANGED <<revision, marks>>
      /\ At(u, "SIGNING")
  BY DEF InsertSigned
<1>3. /\ \A b \in Approvals \ {a} : approval'[b] = approval[b]
      /\ \A b \in Approvals : approval'[b].revision = approval[b].revision /\ approval'[b].shown = approval[b].shown
      /\ approval'[a].status = "APPROVED"
  BY <1>1, <1>2, DecidedRows
<1>4. \A l \in Lanes : lane[l].state # "NONE" => lane'[l].state # "NONE"
  <2>1. PICK n \in Lanes : lane' = [lane EXCEPT ![n] = LaneOf(request[u].figures)]
    BY DEF InsertSigned
  <2>2. LaneOf(request[u].figures).state = "LIVE"
    BY DEF LaneOf
  <2> QED BY <2>1, <2>2, Rows
<1>5. request'[u].at = "IDLE" /\ \A v \in Users \ {u} : request'[v] = request[v]
  BY <1>2, DoneRow, Rows
<1> HIDE DEF a
<1>6. Grows
  <2>1. approval[a].revision = None /\ approval[a].status # "NONE" /\ approval'[a].revision = None
    BY <1>1, <1>3
  <2>2. \A b \in Approvals : b # a => approval'[b] = approval[b]
    BY <1>3
  <2>3. revision' = revision /\ marks' = marks
    BY <1>2
  <2>4. a \in Approvals /\ approval'[a].status = "APPROVED"
    BY <1>1, <1>3
  <2> QED BY <2>1, <2>2, <2>3, <2>4 DEF Grows
<1>7. Moves
  BY <1>5, FitsIdle DEF Moves
<1>8. Blank' /\ OneEach' /\ About' /\ Linked' /\ \A v \in Users : Fits(v)'
  BY <1>2, <1>3, <1>6, <1>7, AllStay
<1>9. ASSUME NEW r \in Revisions  PROVE SignedAs(r)'
  <2>1. \A b \in Approvals : approval'[b].revision = r /\ approval'[b].status = "APPROVED" <=>
                             approval[b].revision = r /\ approval[b].status = "APPROVED"
    BY <1>1, <1>3, Rows
  <2> QED BY <1>2, <1>4, <1>6, <2>1, SignStays
<1>10. ASSUME NEW b \in Approvals, NEW r \in Revisions  PROVE ShownFor(b, r)'
  <2>1. approval'[b].status = "PENDING" /\ approval'[b].revision = r =>
               /\ approval[b].status = "PENDING" /\ approval[b].revision = r
               /\ approval'[b].shown = approval[b].shown
    BY <1>3
  <2>2. \A v \in Users : At(v, "EDITED") => request'[v] = request[v]
    BY <1>2, <1>5 DEF At
  <2> QED BY <1>2, <1>6, <2>1, <2>2, ShownStays
<1> QED BY <1>8, <1>9, <1>10, OneByOne DEF SignInv

(* Inserting a revision: no approval is about it, and nobody else holds it. *)
LEMMA Inserted ==
    ASSUME TypeInv, SignInv, NEW u \in Users, InsertRevision(u)
    PROVE  SignInv'
<1>0. PICK r \in Revisions :
        /\ At(u, "PROPOSING") /\ revision[r].status = "NONE"
        /\ revision' = [revision EXCEPT ![r] =
               [status |-> "PENDING", lane |-> request[u].lane, draft |-> request[u].figures,
                to |-> None, approval |-> None]]
        /\ request' = [request EXCEPT ![u] = [@ EXCEPT !.at = "INSERTED", !.revision = r]]
        /\ UNCHANGED <<today, lane, approval, begun, slips, marks>>
  BY Zenon DEF InsertRevision
<1>1. /\ revision'[r].status = "PENDING" /\ revision'[r].draft = request[u].figures
      /\ revision'[r].to = None /\ revision'[r].approval = None
      /\ \A k \in Revisions \ {r} : revision'[k] = revision[k]
  BY <1>0, Rows
<1>2. /\ request'[u].at = "INSERTED" /\ request'[u].revision = r /\ request'[u].figures = request[u].figures
      /\ \A v \in Users \ {u} : request'[v] = request[v]
  <2>1. request[u] \in RequestRow /\ request \in [Users -> RequestRow]
    BY Rows
  <2>2. /\ request'[u] = [request[u] EXCEPT !.at = "INSERTED", !.revision = r]
        /\ \A v \in Users \ {u} : request'[v] = request[v]
    BY <1>0, <2>1
  <2> QED BY <2>1, <2>2 DEF RequestRow
<1>3. UNCHANGED <<lane, approval, marks>> /\ At(u, "PROPOSING") /\ revision[r].status = "NONE"
  BY <1>0
<1>4. \A b \in Approvals : approval[b].revision # r
  BY <1>3, Rows DEF SignInv, About
<1>5. Grows
  BY <1>1, <1>3 DEF Grows
<1>6. \A v \in Users : request[v].at \in {"INSERTED", "EDITED"} =>
          request[v].revision \in Revisions /\ request[v].revision # r
  BY <1>3, Rows DEF SignInv, Fits, At
<1>7. Blank' /\ OneEach'
  BY <1>3 DEF SignInv, Blank, OneEach
<1>8. About'
  <2>1. \A b \in Approvals : approval[b].revision \in Revisions \cup {None}
    BY Rows
  <2> QED BY <1>1, <1>3, <2>1 DEF SignInv, About
<1>9. Linked'
  BY <1>1, <1>3 DEF SignInv, Linked
<1>10. Fits(u)'
  <2>1. AsAsked(u)'
    BY <1>1, <1>2 DEF AsAsked
  <2>2. \A v \in Users : At(v, "INSERTED")' /\ request'[v].revision = r => v = u
    BY <1>2, <1>6 DEF At
  <2> QED BY <1>1, <1>2, <1>3, <1>4, <2>1, <2>2 DEF Fits, At
<1>11. ASSUME NEW v \in Users, v # u  PROVE Fits(v)'
  <2>1. At(v, "INSERTED") =>
               /\ \A b \in Approvals : approval'[b].revision # request[v].revision
               /\ \A w \in Users : request'[w].at = "INSERTED" /\ request'[w].revision = request[v].revision => w = v
    <3> SUFFICES ASSUME At(v, "INSERTED")
                 PROVE  /\ \A b \in Approvals : approval'[b].revision # request[v].revision
                        /\ \A w \in Users :
                              request'[w].at = "INSERTED" /\ request'[w].revision = request[v].revision => w = v
      OBVIOUS
    <3>1. /\ \A b \in Approvals : approval[b].revision # request[v].revision
          /\ \A w \in Users : At(w, "INSERTED") /\ request[w].revision = request[v].revision => w = v
      BY DEF SignInv, Fits
    <3>2. request[v].revision # r
      BY <1>6 DEF At
    <3> QED BY <1>2, <1>3, <3>1, <3>2 DEF At
  <2>2. At(v, "INSERTED") \/ At(v, "EDITED") =>
               revision'[request[v].revision].draft = revision[request[v].revision].draft
    BY <1>1, <1>6 DEF At
  <2> QED BY <1>2, <1>5, <1>11, <2>1, <2>2, FitsStays
<1>12. ASSUME NEW k \in Revisions  PROVE SignedAs(k)'
  <2>1. CASE k = r
    BY <2>1, <1>1, <1>3, <1>4 DEF SignedAs
  <2>2. CASE k # r
    BY <2>2, <1>1, <1>3, <1>5, SignStays
  <2> QED BY <2>1, <2>2
<1>13. ASSUME NEW b \in Approvals, NEW k \in Revisions  PROVE ShownFor(b, k)'
  <2>1. CASE k = r
    BY <2>1, <1>3, <1>4 DEF ShownFor
  <2>2. CASE k # r
    <3>1. \A v \in Users : At(v, "EDITED") => request'[v] = request[v]
      BY <1>2, <1>3 DEF At
    <3> QED BY <2>2, <3>1, <1>1, <1>3, <1>5, ShownStays
  <2> QED BY <2>1, <2>2
<1> QED BY <1>7, <1>8, <1>9, <1>10, <1>11, <1>12, <1>13, OneByOne DEF SignInv


(* Raising the approval of a revision: the only one about it, and with what   *)
(* the revision says.                                                       *)
LEMMA Raised ==
    ASSUME TypeInv, SignInv, NEW u \in Users, RaiseRevision(u)
    PROVE  SignInv'
<1> DEFINE r == request[u].revision
<1>0. PICK a \in Approvals :
        /\ At(u, "INSERTED") /\ approval[a].status = "NONE"
        /\ approval' = [approval EXCEPT ![a] =
               [status |-> "PENDING", kind |-> "REVISION", revision |-> request[u].revision,
                shown |-> request[u].figures]]
        /\ request' = [request EXCEPT ![u] = [@ EXCEPT !.at = "RAISED", !.approval = a]]
        /\ UNCHANGED <<today, lane, revision, begun, slips, marks>>
  BY Zenon DEF RaiseRevision
<1>1. /\ approval'[a].status = "PENDING" /\ approval'[a].revision = r /\ approval'[a].shown = request[u].figures
      /\ \A b \in Approvals \ {a} : approval'[b] = approval[b]
  BY <1>0, Rows
<1>2. /\ request'[u].at = "RAISED" /\ request'[u].revision = r /\ request'[u].approval = a
      /\ \A v \in Users \ {u} : request'[v] = request[v]
  <2>1. request[u] \in RequestRow /\ request \in [Users -> RequestRow]
    BY Rows
  <2>2. /\ request'[u] = [request[u] EXCEPT !.at = "RAISED", !.approval = a]
        /\ \A v \in Users \ {u} : request'[v] = request[v]
    BY <1>0, <2>1
  <2> QED BY <2>1, <2>2 DEF RequestRow
<1>3. /\ UNCHANGED <<lane, revision, marks>> /\ At(u, "INSERTED")
      /\ approval[a].status = "NONE" /\ approval[a].revision = None
  BY <1>0 DEF SignInv, Blank
<1>4. /\ r \in Revisions /\ r # None /\ revision[r].status # "NONE" /\ AsAsked(u)
      /\ \A b \in Approvals : approval[b].revision # r
      /\ \A v \in Users : At(v, "INSERTED") /\ request[v].revision = r => v = u
  BY <1>3, Rows DEF SignInv, Fits, At
<1> HIDE DEF r
<1>5. Grows
  <2>1. \A b \in Approvals : b = a \/ approval'[b] = approval[b]
    BY <1>1
  <2> QED BY <1>1, <1>3, <2>1 DEF Grows
<1>6. Blank' /\ OneEach'
  <2>1. \A b \in Approvals : b # a => approval'[b] = approval[b] /\ approval[b].revision # r
    BY <1>1, <1>4
  <2> QED BY <1>1, <2>1 DEF SignInv, Blank, OneEach
<1>7. About'
  <2>1. \A b \in Approvals : b # a => approval'[b] = approval[b]
    BY <1>1
  <2> QED BY <1>1, <1>3, <1>4, <2>1 DEF SignInv, About
<1>8. Linked'
  <2> SUFFICES ASSUME NEW k \in Revisions, revision[k].approval # None
               PROVE  approval'[revision[k].approval].revision = k
    BY <1>3 DEF Linked
  <2>1. approval[revision[k].approval].revision = k /\ revision[k].approval \in Approvals /\ k # None
    BY Rows DEF SignInv, Linked
  <2> QED BY <2>1, <1>1, <1>3
<1>9. Fits(u)'
  BY <1>1, <1>2, <1>4 DEF Fits, At
<1>10. ASSUME NEW v \in Users, v # u  PROVE Fits(v)'
  <2>1. At(v, "INSERTED") =>
               /\ \A b \in Approvals : approval'[b].revision # request[v].revision
               /\ \A w \in Users : request'[w].at = "INSERTED" /\ request'[w].revision = request[v].revision => w = v
    <3> SUFFICES ASSUME At(v, "INSERTED")
                 PROVE  /\ \A b \in Approvals : approval'[b].revision # request[v].revision
                        /\ \A w \in Users :
                              request'[w].at = "INSERTED" /\ request'[w].revision = request[v].revision => w = v
      OBVIOUS
    <3>1. /\ \A b \in Approvals : approval[b].revision # request[v].revision
          /\ \A w \in Users : At(w, "INSERTED") /\ request[w].revision = request[v].revision => w = v
      BY DEF SignInv, Fits
    <3>2. request[v].revision # r
      BY <1>4, <1>10
    <3>3. \A b \in Approvals : b # a => approval'[b] = approval[b]
      BY <1>1
    <3>4. \A w \in Users : w # u => request'[w] = request[w]
      BY <1>2
    <3> QED BY <1>1, <1>2, <3>1, <3>2, <3>3, <3>4 DEF At
  <2> QED BY <1>2, <1>3, <1>5, <1>10, <2>1, FitsStays
<1>11. ASSUME NEW k \in Revisions  PROVE SignedAs(k)'
  <2>1. \A b \in Approvals : approval'[b].revision = k /\ approval'[b].status = "APPROVED" <=>
                             approval[b].revision = k /\ approval[b].status = "APPROVED"
    <3>1. \A b \in Approvals : b # a => approval'[b] = approval[b]
      BY <1>1
    <3> QED BY <1>1, <1>3, <3>1
  <2> QED BY <1>3, <1>5, <2>1, SignStays
<1>12. ASSUME NEW b \in Approvals, NEW k \in Revisions  PROVE ShownFor(b, k)'
  <2>1. CASE b = a
    <3>1. AsAsked(u)
      BY <1>4
    <3>2. \/ revision'[r].draft = request[u].figures \/ revision'[r].status # "PENDING"
          \/ <<"CROSSED", r>> \in marks'
      BY <1>3, <3>1 DEF AsAsked, Flagged, r
    <3> QED BY <2>1, <3>2, <1>1 DEF ShownFor, Flagged
  <2>2. CASE b # a
    <3>1. \A v \in Users : At(v, "EDITED") => request'[v] = request[v]
      BY <1>2, <1>3 DEF At
    <3>2. approval'[b] = approval[b]
      BY <2>2, <1>1
    <3> QED BY <3>1, <3>2, <1>3, <1>5, ShownStays
  <2> QED BY <2>1, <2>2
<1> QED BY <1>6, <1>7, <1>8, <1>9, <1>10, <1>11, <1>12, OneByOne DEF SignInv

(* An action on an approval that is about no revision. *)
LEMMA Aside ==
    ASSUME TypeInv, SignInv, Moves, NEW a \in Approvals, UNCHANGED <<lane, revision, marks>>,
           \A b \in Approvals \ {a} : approval'[b] = approval[b],
           approval[a].revision = None, approval'[a].revision = None, approval'[a].status = "PENDING",
           \A u \in Users : At(u, "EDITED") => request'[u] = request[u]
    PROVE  SignInv'
<1>1. \A b \in Approvals : b = a \/ approval'[b] = approval[b]
  OBVIOUS
<1>2. Grows
  BY <1>1 DEF Grows
<1>3. \A b \in Approvals : approval'[b].revision = approval[b].revision
  BY <1>1
<1>4. Blank' /\ OneEach' /\ About' /\ Linked' /\ \A v \in Users : Fits(v)'
  BY <1>2, <1>3, AllStay
<1>5. ASSUME NEW k \in Revisions  PROVE SignedAs(k)'
  <2>1. \A b \in Approvals : approval'[b].revision = k /\ approval'[b].status = "APPROVED" <=>
                             approval[b].revision = k /\ approval[b].status = "APPROVED"
    BY <1>1, Rows
  <2> QED BY <1>2, <2>1, SignStays
<1>6. ASSUME NEW b \in Approvals, NEW k \in Revisions  PROVE ShownFor(b, k)'
  <2>1. approval'[b].revision = k => approval'[b] = approval[b]
    BY <1>1, Rows
  <2> QED BY <1>2, <2>1, ShownStays
<1> QED BY <1>4, <1>5, <1>6, OneByOne DEF SignInv

(* Linking the two.  *)
LEMMA LinkedUp ==
    ASSUME TypeInv, SignInv, NEW u \in Users, LinkRevision(u)
    PROVE  SignInv'
<1> DEFINE r == request[u].revision
           a == request[u].approval
<1>1. /\ At(u, "RAISED") /\ Done(u) /\ UNCHANGED <<lane, approval, marks>>
      /\ revision' = [revision EXCEPT ![r] = [@ EXCEPT !.approval = a]]
  BY DEF LinkRevision
<1>2. r \in Revisions /\ a \in Approvals /\ approval[a].revision = r
  BY <1>1 DEF SignInv, Fits, At
<1>3. \A k \in Revisions : /\ revision'[k].status = revision[k].status /\ revision'[k].draft = revision[k].draft
                           /\ revision'[k].to = revision[k].to
                           /\ k # r => revision'[k].approval = revision[k].approval
                           /\ k = r => revision'[k].approval = a
  BY <1>1, <1>2, Rows DEF RevisionRow
<1>4. request'[u].at = "IDLE" /\ \A v \in Users \ {u} : request'[v] = request[v]
  BY <1>1, DoneRow, Rows
<1> HIDE DEF r, a
<1>5. Grows
  BY <1>1, <1>3 DEF Grows
<1>6. Moves
  BY <1>4, FitsIdle DEF Moves
<1>7. Blank' /\ OneEach' /\ About' /\ Linked' /\ \A v \in Users : Fits(v)'
  <2>1. \A k \in Revisions :
               \/ revision'[k].approval = revision[k].approval
               \/ revision'[k].approval \in Approvals /\ approval[revision'[k].approval].revision = k
    BY <1>2, <1>3
  <2>2. \A v \in Users : At(v, "INSERTED") \/ At(v, "EDITED") =>
          revision'[request[v].revision].draft = revision[request[v].revision].draft
    BY <1>3, Rows DEF At
  <2> QED BY <1>1, <1>5, <1>6, <2>1, <2>2, AllStay
<1>8. \A k \in Revisions : SignedAs(k)'
  BY <1>1, <1>3, <1>5, SignStays
<1>9. ASSUME NEW b \in Approvals, NEW k \in Revisions  PROVE ShownFor(b, k)'
  <2>1. \A v \in Users : At(v, "EDITED") => request'[v] = request[v]
    BY <1>1, <1>4 DEF At
  <2> QED BY <1>1, <1>3, <1>5, <2>1, ShownStays
<1> QED BY <1>7, <1>8, <1>9, OneByOne DEF SignInv


(* Writing an edit: whoever raises or corrects the same change is left behind. *)
LEMMA Edited ==
    ASSUME TypeInv, SignInv, NEW u \in Users, WriteEdit(u)
    PROVE  SignInv'
<1> DEFINE r == request[u].revision
           a == request[u].approval
<1>1. /\ At(u, "EDITING") /\ UNCHANGED <<lane, approval>>
      /\ revision' = [revision EXCEPT ![r] = [@ EXCEPT !.draft = request[u].figures]]
      /\ Marks(<<"CROSSED", r>>, a = None \/ \E v \in InFlight("EDITED") : request[v].revision = r)
      /\ a = None => Done(u)
      /\ a # None => Goes(u, "EDITED")
  BY DEF WriteEdit
<1>2. /\ r \in Revisions /\ revision[r].status # "NONE"
      /\ a # None => a \in Approvals /\ approval[a].revision = r
  BY <1>1, Rows DEF SignInv, Fits, At
<1>3. \A k \in Revisions : /\ revision'[k].status = revision[k].status /\ revision'[k].to = revision[k].to
                           /\ revision'[k].approval = revision[k].approval
                           /\ k # r => revision'[k].draft = revision[k].draft
                           /\ k = r => revision'[k].draft = request[u].figures
  BY <1>1, <1>2, Rows DEF RevisionRow
<1>4. /\ a = None => request'[u].at = "IDLE"
      /\ a # None => /\ request'[u].at = "EDITED" /\ request'[u].revision = r
                     /\ request'[u].approval = a /\ request'[u].figures = request[u].figures
      /\ \A v \in Users \ {u} : request'[v] = request[v]
  <2>1. request \in [Users -> RequestRow] /\ request[u] \in RequestRow /\ begun \in 0..MaxRequests
    BY Rows DEF TypeInv, TypeOK
  <2>2. CASE a = None
    BY <1>1, <2>1, <2>2, DoneRow
  <2>3. CASE a # None
    <3>1. /\ request'[u].at = "EDITED" /\ request'[u].revision = r
          /\ request'[u].approval = a /\ request'[u].figures = request[u].figures
      BY <1>1, <2>1, <2>3, RequestMoves DEF Stages
    <3>2. \A v \in Users \ {u} : request'[v] = request[v]
      BY <1>1, <2>1, <2>3, GoesRow DEF Stages
    <3> QED BY <2>3, <3>1, <3>2
  <2> QED BY <2>2, <2>3
<1>5. /\ marks \subseteq marks'
      /\ a = None \/ (\E v \in InFlight("EDITED") : request[v].revision = r) => <<"CROSSED", r>> \in marks'
  BY <1>1 DEF Marks
<1> HIDE DEF r, a
<1>6. Grows
  BY <1>1, <1>3, <1>5 DEF Grows
<1>7. Moves
  <2>1. CASE a = None
    BY <1>4, <2>1, FitsIdle DEF Moves
  <2>2. CASE a # None
    <3>1. AsAsked(u)'
      BY <1>2, <1>3, <1>4, <2>2 DEF AsAsked
    <3>2. Fits(u)'
      BY <1>1, <1>2, <1>3, <1>4, <2>2, <3>1 DEF Fits, At
    <3> QED BY <1>4, <2>2, <3>2 DEF Moves
  <2> QED BY <2>1, <2>2
<1>8. Blank' /\ OneEach' /\ About' /\ Linked' /\ \A v \in Users : Fits(v)'
  <2>1. ASSUME NEW v \in Users, At(v, "INSERTED") \/ At(v, "EDITED")
        PROVE  \/ revision'[request[v].revision].draft = revision[request[v].revision].draft
               \/ <<"CROSSED", request[v].revision>> \in marks'
    <3>1. request[v].revision \in Revisions
      BY <2>1, Rows DEF At
    <3>2. CASE request[v].revision # r
      BY <3>1, <3>2, <1>3
    <3>3. CASE request[v].revision = r /\ At(v, "EDITED")
      BY <3>3, <1>5 DEF InFlight
    <3>4. CASE request[v].revision = r /\ At(v, "INSERTED")
      <4>1. \A b \in Approvals : approval[b].revision # r
        BY <3>4 DEF SignInv, Fits
      <4> QED BY <3>4, <4>1, <1>2, <1>5
    <3> QED BY <2>1, <3>2, <3>3, <3>4
  <2>2. \A b \in Approvals : approval'[b].revision = approval[b].revision
    BY <1>1
  <2>3. \A k \in Revisions : revision'[k].approval = revision[k].approval
    BY <1>3
  <2> QED BY <1>6, <1>7, <2>1, <2>2, <2>3, AllStay
<1>9. \A k \in Revisions : SignedAs(k)'
  BY <1>1, <1>3, <1>6, SignStays
<1>10. ASSUME NEW b \in Approvals, NEW k \in Revisions  PROVE ShownFor(b, k)'
  <2>1. CASE k # r
    <3>1. \A v \in Users : At(v, "EDITED") => request'[v] = request[v]
      BY <1>1, <1>4 DEF At
    <3>2. UNCHANGED approval
      BY <1>1
    <3> QED BY <2>1, <3>1, <3>2, <1>3, <1>6, ShownStays
  <2>2. CASE k = r /\ a = None
    BY <2>2, <1>5 DEF ShownFor, Flagged
  <2>3. CASE k = r /\ a # None
    <3>1. u \in InFlight("EDITED")' /\ request'[u].revision = k
      BY <2>3, <1>4 DEF InFlight, At
    <3> QED BY <3>1 DEF ShownFor
  <2> QED BY <2>1, <2>2, <2>3
<1> QED BY <1>8, <1>9, <1>10, OneByOne DEF SignInv

(* The approval corrected after the edit shows what the revision says. *)
LEMMA Amended ==
    ASSUME TypeInv, SignInv, NEW u \in Users, AmendEdited(u)
    PROVE  SignInv'
<1> DEFINE r == request[u].revision
           a == request[u].approval
<1>1. At(u, "EDITED") /\ Done(u) /\ UNCHANGED <<lane, revision, marks>>
  BY DEF AmendEdited
<1>2. r \in Revisions /\ a \in Approvals /\ approval[a].revision = r /\ r # None /\ AsAsked(u)
  BY <1>1, Rows DEF SignInv, Fits, At
<1>3. /\ \A b \in Approvals \ {a} : approval'[b] = approval[b]
      /\ approval'[a].revision = r /\ approval'[a].status = approval[a].status
      /\ approval[a].status = "PENDING" => approval'[a].shown = request[u].figures
  <2>1. approval \in [Approvals -> ApprovalRow] /\ approval[a] \in ApprovalRow
    BY <1>2, Rows
  <2>2. CASE approval[a].status = "PENDING"
    <3>1. approval' = [approval EXCEPT ![a] = [@ EXCEPT !.shown = request[u].figures]]
      BY <2>2 DEF AmendEdited
    <3>2. approval'[a] = [approval[a] EXCEPT !.shown = request[u].figures]
      BY <3>1, <2>1, <1>2
    <3>3. \A b \in Approvals \ {a} : approval'[b] = approval[b]
      BY <3>1, <2>1, <1>2
    <3> QED BY <3>2, <3>3, <2>1, <1>2 DEF ApprovalRow
  <2>3. CASE approval[a].status # "PENDING"
    BY <2>3, <1>2 DEF AmendEdited
  <2> QED BY <2>2, <2>3
<1>4. request'[u].at = "IDLE" /\ \A v \in Users \ {u} : request'[v] = request[v]
  BY <1>1, DoneRow, Rows
<1>5. AsAsked(u) <=> \/ revision[r].draft = request[u].figures \/ revision[r].status # "PENDING"
                     \/ <<"CROSSED", r>> \in marks
  BY DEF AsAsked, Flagged
<1> HIDE DEF r, a
<1>6. \A b \in Approvals : b = a \/ approval'[b] = approval[b]
  BY <1>3
<1>7. Grows
  BY <1>1, <1>2, <1>3, <1>6 DEF Grows
<1>8. Moves
  BY <1>4, FitsIdle DEF Moves
<1>9. Blank' /\ OneEach' /\ About' /\ Linked' /\ \A v \in Users : Fits(v)'
  <2>1. \A b \in Approvals : approval'[b].revision = approval[b].revision
    BY <1>2, <1>3, <1>6
  <2> QED BY <1>1, <1>7, <1>8, <2>1, AllStay
<1>10. ASSUME NEW k \in Revisions  PROVE SignedAs(k)'
  <2>1. \A b \in Approvals : approval'[b].revision = k /\ approval'[b].status = "APPROVED" <=>
                             approval[b].revision = k /\ approval[b].status = "APPROVED"
    BY <1>2, <1>3, <1>6
  <2> QED BY <1>1, <1>7, <2>1, SignStays
<1>11. ASSUME NEW b \in Approvals, NEW k \in Revisions  PROVE ShownFor(b, k)'
  <2>1. CASE b = a
    BY <2>1, <1>1, <1>2, <1>3, <1>5 DEF ShownFor, Flagged
  <2>2. CASE b # a /\ k = r
    <3>1. approval'[b].revision # r
      BY <2>2, <1>2, <1>6 DEF SignInv, OneEach
    <3> QED BY <2>2, <3>1 DEF ShownFor
  <2>3. CASE b # a /\ k # r
    <3>1. \A v \in Users : At(v, "EDITED") /\ request[v].revision = k => request'[v] = request[v]
      BY <2>3, <1>4 DEF r
    <3>2. approval'[b] = approval[b]
      BY <2>3, <1>6
    <3> QED BY <3>1, <3>2, <1>1, <1>7, ShownStays
  <2> QED BY <2>1, <2>2, <2>3
<1> QED BY <1>9, <1>10, <1>11, OneByOne DEF SignInv

(* A deletion writes its change as rejected: its approval was turned down      *)
(* before, so it was never signed.                                          *)
LEMMA WrittenOff ==
    ASSUME TypeInv, SignInv, NEW u \in Users, request[u].at \in {"DROPPED", "REMOVED"}, Done(u),
           UNCHANGED <<approval, marks>>, revision' = revision \/ revision' = Rejected(request[u].revision),
           \A l \in Lanes : lane[l].state # "NONE" => lane'[l].state # "NONE"
    PROVE  SignInv'
<1> DEFINE r == request[u].revision
<1>1. r # None => \/ Flagged("UNLINKED", r)
                  \/ \E b \in Approvals : approval[b].revision = r /\ approval[b].status = "REJECTED"
  BY DEF SignInv, Fits
<1>2. \A k \in Revisions : /\ revision'[k].approval = revision[k].approval /\ revision'[k].draft = revision[k].draft
                           /\ revision'[k].to = revision[k].to
                           /\ revision'[k].status = revision[k].status \/ (k = r /\ revision'[k].status = "REJECTED")
  <2> SUFFICES ASSUME NEW k \in Revisions
               PROVE  /\ revision'[k].approval = revision[k].approval /\ revision'[k].draft = revision[k].draft
                      /\ revision'[k].to = revision[k].to
                      /\ revision'[k].status = revision[k].status \/ (k = r /\ revision'[k].status = "REJECTED")
    OBVIOUS
  <2>1. revision[k] \in RevisionRow /\ revision \in [Revisions -> RevisionRow]
    BY Rows
  <2>2. revision'[k] = revision[k] \/ (k = r /\ revision'[k] = [revision[k] EXCEPT !.status = "REJECTED"])
    BY <2>1 DEF Rejected
  <2> QED BY <2>1, <2>2, OtherFields
<1>3. request'[u].at = "IDLE" /\ \A v \in Users \ {u} : request'[v] = request[v]
  BY DoneRow, Rows
<1> HIDE DEF r
<1>4. Grows
  BY <1>2 DEF Grows
<1>5. Moves
  BY <1>3, FitsIdle DEF Moves
<1>6. Blank' /\ OneEach' /\ About' /\ Linked' /\ \A v \in Users : Fits(v)'
  <2>1. \A v \in Users : At(v, "INSERTED") \/ At(v, "EDITED") =>
          revision'[request[v].revision].draft = revision[request[v].revision].draft
    BY <1>2, Rows DEF At
  <2>2. \A b \in Approvals : approval'[b].revision = approval[b].revision
    OBVIOUS
  <2> QED BY <1>2, <1>4, <1>5, <2>1, <2>2, AllStay
<1>7. ASSUME NEW k \in Revisions  PROVE SignedAs(k)'
  <2>1. k = r => revision[k].to = None \/ Flagged("UNLINKED", k)
    <3> SUFFICES ASSUME k = r, revision[k].to # None, ~Flagged("UNLINKED", k)  PROVE FALSE
      OBVIOUS
    <3>1. PICK b \in Approvals : approval[b].revision = k /\ approval[b].status = "REJECTED"
      BY <1>1, Rows
    <3>2. PICK c \in Approvals : approval[c].revision = k /\ approval[c].status = "APPROVED"
      BY OneByOne DEF SignInv, SignedAs
    <3> QED BY <3>1, <3>2, Rows DEF SignInv, OneEach
  <2> QED BY <1>2, <1>4, <2>1, SignStays
<1>8. ASSUME NEW b \in Approvals, NEW k \in Revisions  PROVE ShownFor(b, k)'
  <2>1. \A v \in Users : At(v, "EDITED") => request'[v] = request[v]
    BY <1>3 DEF At
  <2> QED BY <1>2, <1>4, <2>1, ShownStays
<1> QED BY <1>6, <1>7, <1>8, OneByOne DEF SignInv


LEMMA InitSignInv == Init => SignInv
<1> SUFFICES ASSUME Init PROVE SignInv
  OBVIOUS
<1>1. /\ \A r \in Revisions : /\ revision[r].status = "NONE" /\ revision[r].to = None
                              /\ revision[r].approval = None
      /\ \A a \in Approvals : approval[a].status = "NONE" /\ approval[a].revision = None
      /\ \A u \in Users : request[u].at = "IDLE"
  BY DEF Init, NoRevision, NoApproval, Idle
<1>2. Blank /\ OneEach /\ About /\ Linked
  BY <1>1 DEF Blank, OneEach, About, Linked
<1>3. \A u \in Users : Fits(u)
  BY <1>1 DEF Fits, At
<1>4. \A r \in Revisions : SignedAs(r)
  BY <1>1 DEF SignedAs
<1>5. \A a \in Approvals, r \in Revisions : ShownFor(a, r)
  BY <1>1 DEF ShownFor
<1> QED BY <1>2, <1>3, <1>4, <1>5, OneByOne DEF SignInv

LEMMA StepSignInv == TypeInv /\ WaitInv /\ SignInv /\ [Next]_vars => SignInv'
<1> SUFFICES ASSUME TypeInv, WaitInv, SignInv, [Next]_vars PROVE SignInv'
  OBVIOUS
<1>T. request \in [Users -> RequestRow] /\ lane \in [Lanes -> LaneRow] /\ approval \in [Approvals -> ApprovalRow]
  BY Rows
(* Nothing written but the lanes, and no request moves. *)
<1>N. ASSUME UNCHANGED <<revision, approval, request, marks>>,
             \A l \in Lanes : lane[l].state # "NONE" => lane'[l].state # "NONE"
      PROVE  SignInv'
  <2>1. Moves
    BY <1>N DEF Moves
  <2> QED BY <1>N, <2>1, Quiet
(* A request that ends, with no edit under way. *)
<1>D. ASSUME NEW u \in Users, ~At(u, "EDITED"), Done(u), UNCHANGED <<revision, approval>>, marks \subseteq marks',
             \A l \in Lanes : lane[l].state # "NONE" => lane'[l].state # "NONE"
      PROVE  SignInv'
  <2>1. request'[u].at = "IDLE" /\ \A v \in Users \ {u} : request'[v] = request[v]
    BY <1>D, <1>T, DoneRow
  <2>2. Moves
    BY <2>1, FitsIdle DEF Moves
  <2>3. \A v \in Users : At(v, "EDITED") => request'[v] = request[v]
    BY <1>D, <2>1
  <2> QED BY <1>D, <2>2, <2>3, Quiet
(* A request that begins, and fits. *)
<1>B. ASSUME NEW u \in Users, NEW row, Begins(u, row), UNCHANGED <<lane, revision, approval>>, marks \subseteq marks',
             row.at # "INSERTED", request'[u] = row => Fits(u)'
      PROVE  SignInv'
  <2>1. request'[u] = row /\ \A v \in Users \ {u} : request'[v] = request[v]
    BY <1>B, <1>T, BeginsRow
  <2>2. Moves
    BY <1>B, <2>1 DEF Moves
  <2>3. \A v \in Users : At(v, "EDITED") => request'[v] = request[v]
    BY <1>B, <2>1 DEF Begins, At
  <2> QED BY <1>B, <2>2, <2>3, Quiet
<1>Q. ASSUME NEW u \in Users, NEW row, Begins(u, row), UNCHANGED <<lane, revision, approval, marks>>,
             row.at \in {"PROPOSING", "ADDING", "SIGNING", "CORRECTING"}
      PROVE  SignInv'
  BY <1>Q, <1>B, FitsIdle
<1>M. ASSUME NEW m, NEW is, Marks(m, is)  PROVE marks \subseteq marks' /\ (is => m \in marks')
  BY <1>M DEF Marks
<1>W. ASSUME NEW u \in Users, NEW next, NEW was, At(u, was),
             <<was, next>> \in {<<"DROPPING", "DROPPED">>, <<"REMOVING", "REMOVED">>},
             Withdraws(u, next), UNCHANGED <<lane, marks>>
      PROVE  SignInv'
  <2> DEFINE a == request[u].approval
             r == request[u].revision
  <2>1. a \in Approvals /\ r \in Revisions /\ approval[a].revision = r /\ ~At(u, "EDITED") /\ next \in Stages
    BY <1>W DEF SignInv, Fits, At, Stages
  <2>2. CASE StillOpen(a)
    <3>1. TurnDown(a) /\ Goes(u, next) /\ approval[a].status = "PENDING"
      BY <1>W, <2>2 DEF Withdraws, StillOpen
    <3>2. /\ request'[u].at = next /\ request'[u].revision = r
          /\ \A v \in Users \ {u} : request'[v] = request[v]
      <4>1. begun \in 0..MaxRequests
        BY DEF TypeInv, TypeOK
      <4>2. request'[u].at = next /\ request'[u].revision = r
        BY <1>T, <2>1, <3>1, <4>1, RequestMoves
      <4> QED BY <1>T, <2>1, <3>1, <4>2, GoesRow
    <3>3. approval'[a].status = "REJECTED" /\ approval'[a].revision = r
      BY <2>1, <3>1, DownRows
    <3>4. Fits(u)'
      BY <1>W, <2>1, <3>2, <3>3 DEF Fits, At
    <3>5. Moves
      BY <1>W, <3>2, <3>4 DEF Moves
    <3>6. \A v \in Users : At(v, "EDITED") => request'[v] = request[v]
      BY <2>1, <3>2
    <3> QED BY <1>W, <2>1, <3>1, <3>5, <3>6, Down
  <2>3. CASE ~StillOpen(a)
    <3>1. UNCHANGED <<approval, revision>> /\ Done(u)
      BY <1>W, <2>3 DEF Withdraws
    <3> QED BY <1>W, <1>D, <2>1, <3>1
  <2> QED BY <2>2, <2>3
<1>1. CASE Tick
  BY <1>1, <1>N DEF Tick
<1>2. ASSUME NEW u \in Users, Stops(u) PROVE SignInv'
  <2>1. request'[u].at = "IDLE" /\ \A v \in Users \ {u} : request'[v] = request[v]
    BY <1>2, <1>T, DoneRow DEF Stops
  <2>2. Moves
    BY <2>1, FitsIdle DEF Moves
  <2>3. marks \subseteq marks' /\ (At(u, "EDITED") => <<"CUT", request[u].revision>> \in marks')
    BY <1>2 DEF Stops, Marks, At
  <2>4. UNCHANGED <<lane, revision, approval>>
    BY <1>2 DEF Stops
  <2>5. \A v \in Users : At(v, "EDITED") =>
             request'[v] = request[v] \/ <<"CUT", request[v].revision>> \in marks'
    BY <2>1, <2>3
  <2> QED BY <2>2, <2>3, <2>4, <2>5, Quiet
<1>3. ASSUME NEW a \in Approvals, Reject(a) PROVE SignInv'
  <2>1. Moves
    BY <1>3 DEF Reject, Moves
  <2> QED BY <1>3, <2>1, Down DEF Reject, Waiting
<1>4. ASSUME NEW a \in Approvals, ApproveRevision(a) PROVE SignInv'
  BY <1>4, Approved
<1>5. ASSUME NEW u \in Users, NEW a \in Approvals, SignLane(u, a) PROVE SignInv'
  BY <1>5, <1>Q DEF SignLane, Asked
<1>6. ASSUME NEW u \in Users, InsertSigned(u) PROVE SignInv'
  BY <1>6, Signed
<1>7. ASSUME NEW u \in Users, NEW l \in Lanes, NEW f \in Changes, Propose(u, l, f) PROVE SignInv'
  BY <1>7, <1>Q DEF Propose, Asked
<1>8. ASSUME NEW u \in Users, InsertRevision(u) PROVE SignInv'
  BY <1>8, Inserted
<1>9. ASSUME NEW u \in Users, RaiseRevision(u) PROVE SignInv'
  BY <1>9, Raised
<1>10. ASSUME NEW u \in Users, LinkRevision(u) PROVE SignInv'
  BY <1>10, LinkedUp
<1>11. ASSUME NEW u \in Users, NEW f \in Asks, AddLane(u, f) PROVE SignInv'
  BY <1>11, <1>Q DEF AddLane, Asked
<1>12. ASSUME NEW u \in Users, RaiseLane(u) PROVE SignInv'
  <2>1. PICK a \in Approvals :
        /\ At(u, "ADDING") /\ approval[a].status = "NONE"
        /\ approval' = [approval EXCEPT ![a] =
               [status |-> "PENDING", kind |-> "LANE", revision |-> None, shown |-> request[u].figures]]
        /\ Done(u) /\ UNCHANGED <<today, lane, revision, slips, marks>>
    BY <1>12, Zenon DEF RaiseLane
  <2>2. request'[u].at = "IDLE" /\ \A v \in Users \ {u} : request'[v] = request[v]
    BY <1>T, <2>1, DoneRow
  <2>3. Moves
    BY <2>2, FitsIdle DEF Moves
  <2>4. approval'[a].revision = None /\ approval'[a].status = "PENDING" /\ approval[a].revision = None
    BY <1>T, <2>1 DEF SignInv, Blank
  <2>5. \A b \in Approvals \ {a} : approval'[b] = approval[b]
    BY <1>T, <2>1
  <2>6. \A v \in Users : At(v, "EDITED") => request'[v] = request[v]
    BY <2>1, <2>2 DEF At
  <2> QED BY <2>1, <2>3, <2>4, <2>5, <2>6, Aside
<1>13. ASSUME NEW f \in Asks, WinLane(f) PROVE SignInv'
  <2>1. PICK n \in Lanes : lane' = [lane EXCEPT ![n] = LaneOf(f)]
    BY <1>13 DEF WinLane
  <2>2. LaneOf(f).state = "LIVE"
    BY DEF LaneOf
  <2>3. \A l \in Lanes : lane[l].state # "NONE" => lane'[l].state # "NONE"
    BY <1>T, <2>1, <2>2
  <2> QED BY <1>13, <1>N, <2>3 DEF WinLane
<1>14. ASSUME NEW u \in Users, NEW l \in Lanes, NEW f \in Asks, Correct(u, l, f) PROVE SignInv'
  BY <1>14, <1>Q DEF Correct, Asked
<1>15. ASSUME NEW u \in Users, WriteCorrection(u) PROVE SignInv'
  <2>1. LaneOf(request[u].figures).state = "LIVE"
    BY DEF LaneOf
  <2>2. \A l \in Lanes : lane[l].state # "NONE" => lane'[l].state # "NONE"
    BY <1>15, <1>T, <2>1 DEF WriteCorrection
  <2> QED BY <1>15, <1>D, <2>2 DEF WriteCorrection, At
<1>16. ASSUME NEW a \in Approvals, NEW f \in Asks, EditPendingLane(a, f) PROVE SignInv'
  <2>1. /\ approval[a].status = "PENDING" /\ approval[a].revision = None
        /\ approval' = [approval EXCEPT ![a] = [@ EXCEPT !.shown = f]]
    BY <1>16 DEF EditPendingLane, Waiting, WaitInv, LaneKinds
  <2>2. approval'[a] = [approval[a] EXCEPT !.shown = f] /\ approval[a] \in ApprovalRow
    BY <1>T, <2>1
  <2>3. approval'[a].revision = None /\ approval'[a].status = "PENDING"
    BY <2>1, <2>2 DEF ApprovalRow
  <2>4. \A b \in Approvals \ {a} : approval'[b] = approval[b]
    BY <1>T, <2>1
  <2>5. UNCHANGED <<lane, revision, request, marks>>
    BY <1>16 DEF EditPendingLane
  <2>6. Moves
    BY <2>5 DEF Moves
  <2> QED BY <2>1, <2>3, <2>4, <2>5, <2>6, Aside
<1>17. ASSUME NEW u \in Users, NEW r \in Revisions, NEW f \in Changes, EditRevision(u, r, f) PROVE SignInv'
  <2> DEFINE row == Asked("EDITING", revision[r].lane, r, revision[r].approval, f)
  <2>1. row.at = "EDITING" /\ row.revision = r /\ row.approval = revision[r].approval
    BY DEF Asked
  <2>2. /\ Begins(u, row) /\ UNCHANGED <<lane, revision, approval, marks>>
        /\ revision[r].status = "PENDING"
    BY <1>17 DEF EditRevision
  <2>3. row.approval # None => row.approval \in Approvals /\ approval[row.approval].revision = r
    BY <2>1, Rows DEF SignInv, Linked
  <2> HIDE DEF row
  <2>4. request'[u] = row => Fits(u)'
    BY <2>1, <2>2, <2>3 DEF Fits, At
  <2> QED BY <1>B, <2>1, <2>2, <2>4
<1>18. ASSUME NEW u \in Users, WriteEdit(u) PROVE SignInv'
  BY <1>18, Edited
<1>19. ASSUME NEW u \in Users, AmendEdited(u) PROVE SignInv'
  BY <1>19, Amended
<1>20. ASSUME NEW u \in Users, NEW r \in Revisions, DropRevision(u, r) PROVE SignInv'
  <2> DEFINE row == Asked(IF revision[r].approval = None THEN "DROPPED" ELSE "DROPPING",
                          None, r, revision[r].approval, NoFigures)
  <2>1. /\ row.at = IF revision[r].approval = None THEN "DROPPED" ELSE "DROPPING"
        /\ row.revision = r /\ row.approval = revision[r].approval
    BY DEF Asked
  <2>2. /\ Begins(u, row) /\ UNCHANGED <<lane, revision, approval>>
        /\ Marks(<<"UNLINKED", r>>, revision[r].approval = None)
    BY <1>20 DEF DropRevision
  <2>3. row.approval # None => row.approval \in Approvals /\ approval[row.approval].revision = r
    BY <2>1, Rows DEF SignInv, Linked
  <2>4. marks \subseteq marks' /\ (revision[r].approval = None => <<"UNLINKED", r>> \in marks')
    BY <2>2 DEF Marks
  <2> HIDE DEF row
  <2>5. request'[u] = row => Fits(u)'
    <3> SUFFICES ASSUME request'[u] = row PROVE Fits(u)'
      OBVIOUS
    <3>1. CASE revision[r].approval = None
      BY <2>1, <2>4, <3>1 DEF Fits, At, Flagged
    <3>2. CASE revision[r].approval # None
      BY <2>1, <2>2, <2>3, <3>2 DEF Fits, At
    <3> QED BY <3>1, <3>2
  <2> QED BY <1>B, <2>1, <2>2, <2>4, <2>5
<1>21. ASSUME NEW u \in Users, WithdrawDropped(u) PROVE SignInv'
  BY <1>21, <1>W DEF WithdrawDropped
<1>22. ASSUME NEW u \in Users, WriteDropped(u) PROVE SignInv'
  BY <1>22, WrittenOff DEF WriteDropped, At
<1>23. ASSUME NEW u \in Users, NEW l \in Lanes, RemoveLane(u, l) PROVE SignInv'
  <2>1. PICK r \in OpenFor(l) \cup {None} :
        LET a == IF r = None THEN None ELSE revision[r].approval IN
        /\ Begins(u, Asked(IF a = None THEN "REMOVED" ELSE "REMOVING", l, r, a, NoFigures))
        /\ Marks(<<"UNLINKED", r>>, r # None /\ a = None)
        /\ UNCHANGED <<lane, revision, approval>>
    BY <1>23 DEF RemoveLane
  <2> DEFINE a == IF r = None THEN None ELSE revision[r].approval
             row == Asked(IF a = None THEN "REMOVED" ELSE "REMOVING", l, r, a, NoFigures)
  <2>2. row.at = (IF a = None THEN "REMOVED" ELSE "REMOVING") /\ row.revision = r /\ row.approval = a
    BY DEF Asked
  <2>3. r # None => r \in Revisions
    BY DEF OpenFor
  <2>4. a # None => r \in Revisions /\ a \in Approvals /\ approval[a].revision = r
    BY <2>3, Rows DEF SignInv, Linked
  <2>5. marks \subseteq marks' /\ (r # None /\ a = None => <<"UNLINKED", r>> \in marks')
    BY <2>1 DEF Marks
  <2>6. Begins(u, row) /\ UNCHANGED <<lane, revision, approval>>
    BY <2>1
  <2> HIDE DEF row, a
  <2>7. request'[u] = row => Fits(u)'
    <3> SUFFICES ASSUME request'[u] = row PROVE Fits(u)'
      OBVIOUS
    <3>1. CASE a = None
      BY <2>2, <2>5, <3>1 DEF Fits, At, Flagged
    <3>2. CASE a # None
      BY <2>2, <2>4, <2>6, <3>2 DEF Fits, At
    <3> QED BY <3>1, <3>2
  <2> QED BY <1>B, <2>2, <2>5, <2>6, <2>7
<1>24. ASSUME NEW u \in Users, WithdrawRemoved(u) PROVE SignInv'
  BY <1>24, <1>W DEF WithdrawRemoved
<1>25. ASSUME NEW u \in Users, WriteRemoved(u) PROVE SignInv'
  <2>1. /\ At(u, "REMOVED") /\ Done(u) /\ UNCHANGED <<approval, marks>>
        /\ revision' = revision \/ revision' = Rejected(request[u].revision)
    BY <1>25 DEF WriteRemoved
  <2>2. \A h \in LaneRow : [h EXCEPT !.state = "DELETED"].state = "DELETED"
    BY DEF LaneRow
  <2>3. \A l \in Lanes : lane[l].state # "NONE" => lane'[l].state # "NONE"
    BY <1>25, <1>T, <2>2 DEF WriteRemoved
  <2> QED BY <2>1, <2>3, WrittenOff DEF At
<1>26. CASE UNCHANGED vars
  BY <1>26, <1>N DEF vars
<1> QED
  BY <1>1, <1>2, <1>3, <1>4, <1>5, <1>6, <1>7, <1>8, <1>9, <1>10, <1>11, <1>12, <1>13, <1>14, <1>15,
     <1>16, <1>17, <1>18, <1>19, <1>20, <1>21, <1>22, <1>23, <1>24, <1>25, <1>26 DEF Next, Desk

(* A change that was signed keeps its one approval, its one lane and its        *)
(* status, whoever withdraws, edits or deletes beside it, except a deletion   *)
(* that began before the change was linked to its approval.                  *)
THEOREM SignedStays == Spec => []SignedForGood
<1>1. SignInv => SignedForGood
  BY DEF SignInv
<1> QED BY InitTypeInv, StepTypeInv, InitWaitInv, StepWaitInv, InitSignInv, StepSignInv, <1>1, PTL DEF Spec

(* The approver is shown the figures that signing would apply, whatever edits    *)
(* and deletions interleave, except where an edit is half done, was cut short  *)
(* or crossed another.                                                       *)
THEOREM ApproverIsShown == Spec => []ShownIsWaiting
<1>1. SignInv => ShownIsWaiting
  BY DEF SignInv
<1> QED BY InitTypeInv, StepTypeInv, InitWaitInv, StepWaitInv, InitSignInv, StepSignInv, <1>1, PTL DEF Spec


-----------------------------------------------------------------------------
(* Prices *)

Prices(card, k, d) == card[k].state = "LIVE" /\ card[k].from <= d /\ d <= card[k].to

LEMMA SamePrices ==
    ASSUME NEW card, NEW next, NEW d,
           \A k \in Lanes : /\ Prices(card, k, d) <=> Prices(next, k, d)
                            /\ Prices(card, k, d) => next[k].rate = card[k].rate
    PROVE  PricesOn(next, d) = PricesOn(card, d)
BY DEF PricesOn, Prices

LEMMA OnePrice ==
    ASSUME NEW card, NEW n \in Lanes, NEW d, \A k \in Lanes : Prices(card, k, d) <=> k = n
    PROVE  PricesOn(card, d) = {card[n].rate}
BY DEF PricesOn, Prices

(* Only signing gives a change its lane. *)
LEMMA OnlySigning ==
    ASSUME TypeInv, SignInv, [Next]_vars, ~ \E a \in Approvals : ApproveRevision(a), NEW r \in Revisions
    PROVE  revision'[r].to \in {revision[r].to, None}
<1>T. revision \in [Revisions -> RevisionRow] /\ revision[r] \in RevisionRow
  BY Rows
<1>C. \A a : ClosedWith(a)[r].to = revision[r].to
  <2>1. ASSUME NEW a  PROVE ClosedWith(a)[r].to = revision[r].to
    <3>1. ClosedWith(a)[r] = revision[r] \/ ClosedWith(a)[r] = [revision[r] EXCEPT !.status = "REJECTED"]
      BY DEF ClosedWith
    <3> QED BY <1>T, <3>1, OtherFields
  <2> QED BY <2>1
<1>R. \A k : Rejected(k)[r].to = revision[r].to
  <2>1. ASSUME NEW k  PROVE Rejected(k)[r].to = revision[r].to
    <3>1. Rejected(k)[r] = revision[r] \/ Rejected(k)[r] = [revision[r] EXCEPT !.status = "REJECTED"]
      BY <1>T DEF Rejected
    <3> QED BY <1>T, <3>1, OtherFields
  <2> QED BY <2>1
<1>S. UNCHANGED revision => revision'[r].to \in {revision[r].to, None}
  OBVIOUS
<1>1. CASE Tick
  BY <1>1, <1>S DEF Tick
<1>2. ASSUME NEW u \in Users, Desk(u)  PROVE revision'[r].to \in {revision[r].to, None}
  <2>1. ASSUME NEW f \in Changes, NEW l \in Lanes, Propose(u, l, f)  PROVE UNCHANGED revision
    BY <2>1 DEF Propose
  <2>2. ASSUME NEW f \in Changes, NEW k \in Revisions, EditRevision(u, k, f)  PROVE UNCHANGED revision
    BY <2>2 DEF EditRevision
  <2>3. ASSUME NEW f \in Asks, AddLane(u, f) \/ \E l \in Lanes : Correct(u, l, f)  PROVE UNCHANGED revision
    BY <2>3 DEF AddLane, Correct
  <2>4. ASSUME NEW k \in Revisions, DropRevision(u, k)  PROVE UNCHANGED revision
    BY <2>4 DEF DropRevision
  <2>5. ASSUME NEW l \in Lanes, RemoveLane(u, l)  PROVE UNCHANGED revision
    BY <2>5 DEF RemoveLane
  <2>6. ASSUME NEW a \in Approvals, SignLane(u, a)  PROVE UNCHANGED revision
    BY <2>6 DEF SignLane
  <2>7. CASE RaiseRevision(u) \/ RaiseLane(u) \/ InsertSigned(u) \/ WriteCorrection(u) \/ AmendEdited(u) \/ Stops(u)
    <3>1. RaiseRevision(u) => UNCHANGED revision
      BY Zenon DEF RaiseRevision
    <3>2. RaiseLane(u) => UNCHANGED revision
      BY Zenon DEF RaiseLane
    <3>3. InsertSigned(u) => UNCHANGED revision
      BY Zenon DEF InsertSigned
    <3>4. WriteCorrection(u) => UNCHANGED revision
      BY DEF WriteCorrection
    <3>5. AmendEdited(u) => UNCHANGED revision
      BY DEF AmendEdited
    <3>6. Stops(u) => UNCHANGED revision
      BY DEF Stops
    <3> QED BY <2>7, <1>S, <3>1, <3>2, <3>3, <3>4, <3>5, <3>6
  <2>8. CASE InsertRevision(u)
    <3>1. PICK k \in Revisions : revision' = [revision EXCEPT ![k] =
               [status |-> "PENDING", lane |-> request[u].lane, draft |-> request[u].figures,
                to |-> None, approval |-> None]]
      BY <2>8 DEF InsertRevision
    <3> QED BY <3>1, <1>T
  <2>9. CASE LinkRevision(u)
    BY <2>9, <1>T DEF LinkRevision, RevisionRow
  <2>10. CASE WriteEdit(u)
    BY <2>10, <1>T DEF WriteEdit, RevisionRow
  <2>11. CASE WithdrawDropped(u) \/ WithdrawRemoved(u)
    BY <2>11, <1>C DEF WithdrawDropped, WithdrawRemoved, Withdraws, TurnDown
  <2>12. CASE WriteDropped(u) \/ WriteRemoved(u)
    BY <2>12, <1>R DEF WriteDropped, WriteRemoved
  <2> QED BY <1>2, <1>S, <2>1, <2>2, <2>3, <2>4, <2>5, <2>6, <2>7, <2>8, <2>9, <2>10, <2>11, <2>12 DEF Desk
<1>3. ASSUME NEW a \in Approvals, Reject(a)  PROVE revision'[r].to \in {revision[r].to, None}
  BY <1>3, <1>C DEF Reject, TurnDown
<1>4. ASSUME NEW a \in Approvals, NEW f \in Asks, EditPendingLane(a, f)  PROVE UNCHANGED revision
  BY <1>4 DEF EditPendingLane
<1>5. ASSUME NEW f \in Asks, WinLane(f)  PROVE UNCHANGED revision
  BY <1>5 DEF WinLane
<1>6. CASE UNCHANGED vars
  BY <1>6, <1>S DEF vars
<1> QED BY <1>1, <1>2, <1>3, <1>4, <1>5, <1>6, <1>S DEF Next

(* A lane's days, split at the first day of the new rate. *)
LEMMA SigningReprices ==
    ASSUME TypeInv, RateInv, NEW a \in Approvals, ApproveRevision(a),
           NEW r \in Revisions, revision[r].to = None, revision'[r].to # None, NEW d \in Days
    PROVE  LET old == lane[revision[r].lane]
               new == lane'[revision'[r].to]
           IN /\ d < today => PricesOn(lane', d) = PricesOn(lane, d)
              /\ slips' = {} =>
                   PricesOn(lane', d) = IF new.from <= d /\ d <= old.to THEN {new.rate} ELSE PricesOn(lane, d)
<1>0. PICK q \in Revisions, n \in Lanes :
        LET l == revision[q].lane
            f == EffectiveFrom(q)
        IN
        /\ revision[q].status = "PENDING"
        /\ Checked(lane[l], f) /\ f.from <= lane[l].to
        /\ lane[n].state = "NONE"
        /\ lane' = [lane EXCEPT ![l] = Closed(@, f), ![n] = Successor(lane[l], f)]
        /\ revision' = [revision EXCEPT ![q] = [@ EXCEPT !.status = "APPLIED", !.draft = f, !.to = n]]
        /\ Slips("REVIVED", ~Live(l))
  BY Zenon DEF ApproveRevision
<1> DEFINE l == revision[r].lane
           f == EffectiveFrom(r)
           old == lane[l]
           new == lane'[n]
<1>1. q = r /\ revision'[r].to = n
  <2>1. revision \in [Revisions -> RevisionRow] /\ revision[q] \in RevisionRow
    BY Rows
  <2>2. \A k \in Revisions \ {q} : revision'[k] = revision[k]
    BY <1>0, <2>1
  <2>3. q = r
    BY <2>2
  <2>4. revision'[r] = [revision[r] EXCEPT !.status = "APPLIED", !.draft = f, !.to = n]
    BY <1>0, <2>1, <2>3
  <2> QED BY <2>1, <2>3, <2>4 DEF RevisionRow
<1>2. /\ l \in Lanes /\ lane \in [Lanes -> LaneRow] /\ today \in Int
      /\ \A k \in Lanes : lane[k] \in LaneRow
  BY <1>0, <1>1, DaysAreEnds DEF TypeInv, Refers, TypeOK
<1>3. f \in Figures
  <2>1. revision[r].draft \in Figures /\ today \in Days
    BY Rows DEF RevisionRow, TypeInv, TypeOK
  <2> QED BY <2>1 DEF EffectiveFrom, Figures
<1>4. \A k \in Lanes : lane[k].from \in Int /\ lane[k].to \in Int
  BY <1>2, DaysAreEnds DEF LaneRow
<1>5. /\ f.from \in Int /\ f.from > old.from /\ f.from >= today /\ f.from <= old.to
      /\ today \in Int /\ d \in Int
  BY <1>0, <1>1, <1>2, <1>3, FigureParts, DaysAreEnds DEF Checked
<1>6. /\ new.state = "LIVE" /\ new.rate = f.rate /\ new.from = f.from /\ new.to = old.to
      /\ \A k \in Lanes \ {l, n} : lane'[k] = lane[k]
      /\ l # n => /\ lane'[l].state = old.state /\ lane'[l].rate = old.rate
                  /\ lane'[l].from = old.from /\ lane'[l].to = f.from - 1
  <2>1. new = Successor(old, f)
    BY <1>0, <1>1, <1>2
  <2>2. /\ Successor(old, f).state = "LIVE" /\ Successor(old, f).rate = f.rate
        /\ Successor(old, f).from = f.from /\ Successor(old, f).to = old.to
    BY <1>3 DEF Successor, LaneOf, Figures
  <2>3. \A k \in Lanes \ {l, n} : lane'[k] = lane[k]
    BY <1>0, <1>1, <1>2
  <2>4. l # n => lane'[l] = Closed(old, f)
    BY <1>0, <1>1, <1>2
  <2>5. /\ Closed(old, f).state = old.state /\ Closed(old, f).rate = old.rate
        /\ Closed(old, f).from = old.from /\ Closed(old, f).to = f.from - 1
    BY <1>2 DEF Closed, LaneRow
  <2> HIDE DEF f, old, new
  <2> QED BY <2>1, <2>2, <2>3, <2>4, <2>5
<1>7. lane[n].state = "NONE"
  BY <1>0
<1>8. slips' = {} => slips = {} /\ old.state = "LIVE" /\ l # n
  BY <1>0, <1>1, <1>7 DEF Slips, Live
<1> HIDE DEF f, l
<1>9. ASSUME d < today  PROVE PricesOn(lane', d) = PricesOn(lane, d)
  <2>1. ASSUME NEW k \in Lanes
        PROVE  /\ Prices(lane, k, d) <=> Prices(lane', k, d)
               /\ Prices(lane, k, d) => lane'[k].rate = lane[k].rate
    <3>1. CASE k = n
      BY <1>5, <1>6, <1>7, <1>9, <3>1 DEF Prices
    <3>2. CASE k = l /\ k # n
      BY <1>2, <1>4, <1>5, <1>6, <1>9, <3>2 DEF Prices
    <3>3. CASE k \notin {l, n}
      BY <1>6, <3>3 DEF Prices
    <3> QED BY <3>1, <3>2, <3>3
  <2> QED BY <2>1, SamePrices
<1>10. ASSUME slips' = {}
       PROVE  PricesOn(lane', d) = IF new.from <= d /\ d <= old.to THEN {new.rate} ELSE PricesOn(lane, d)
  <2>1. CASE new.from <= d /\ d <= old.to
    <3>1. ASSUME NEW k \in Lanes  PROVE Prices(lane', k, d) <=> k = n
      <4>1. CASE k = n
        BY <1>6, <2>1, <4>1 DEF Prices
      <4>2. CASE k = l
        BY <1>2, <1>5, <1>6, <1>8, <1>10, <2>1, <4>2 DEF Prices
      <4>3. CASE k \notin {l, n}
        <5>1. lane'[k] = lane[k]
          BY <1>6, <4>3
        <5>2. Live(k) => ~Overlap(lane[k], lane[l])
          BY <1>2, <1>8, <1>10, <4>3 DEF RateInv, Live
        <5>3. ~(lane[k].state = "LIVE" /\ lane[k].from <= d /\ d <= lane[k].to)
          BY <1>2, <1>4, <1>5, <1>6, <2>1, <5>2 DEF Live, Overlap
        <5> QED BY <4>3, <5>1, <5>3 DEF Prices
      <4> QED BY <4>1, <4>2, <4>3
    <3>2. PricesOn(lane', d) = {lane'[n].rate}
      BY <3>1, OnePrice
    <3> QED BY <2>1, <3>2
  <2>2. CASE ~(new.from <= d /\ d <= old.to)
    <3>1. ASSUME NEW k \in Lanes
          PROVE  /\ Prices(lane, k, d) <=> Prices(lane', k, d)
                 /\ Prices(lane, k, d) => lane'[k].rate = lane[k].rate
      <4>1. CASE k = n
        BY <1>6, <1>7, <2>2, <4>1 DEF Prices
      <4>2. CASE k = l /\ k # n
        BY <1>2, <1>4, <1>5, <1>6, <2>2, <4>2 DEF Prices
      <4>3. CASE k \notin {l, n}
        BY <1>6, <4>3 DEF Prices
      <4> QED BY <4>1, <4>2, <4>3
    <3>2. PricesOn(lane', d) = PricesOn(lane, d)
      BY <3>1, SamePrices
    <3> QED BY <2>2, <3>2
  <2> QED BY <2>1, <2>2
<1> QED BY <1>1, <1>9, <1>10 DEF l

(* Signing a change never moves the price of a day that has passed; unless      *)
(* lanes had come to overlap before, its rate is from then on the only one of  *)
(* its days, and every other day keeps what it had.                          *)
THEOREM Reprices == Spec => RepricesFromItsDay
<1>1. TypeInv /\ RateInv /\ SignInv /\ [Next]_vars =>
        \A r \in Revisions : revision[r].to = None /\ revision'[r].to # None =>
          LET old == lane[revision[r].lane]
              new == lane'[revision'[r].to]
          IN \A d \in Days :
                /\ d < today => PricesOn(lane', d) = PricesOn(lane, d)
                /\ slips' = {} =>
                      PricesOn(lane', d) = IF new.from <= d /\ d <= old.to THEN {new.rate} ELSE PricesOn(lane, d)
  <2> SUFFICES ASSUME TypeInv, RateInv, SignInv, [Next]_vars,
                      NEW r \in Revisions, revision[r].to = None, revision'[r].to # None, NEW d \in Days
               PROVE  LET old == lane[revision[r].lane]
                          new == lane'[revision'[r].to]
                      IN /\ d < today => PricesOn(lane', d) = PricesOn(lane, d)
                         /\ slips' = {} =>
                              PricesOn(lane', d) = IF new.from <= d /\ d <= old.to THEN {new.rate} ELSE PricesOn(lane, d)
    OBVIOUS
  <2>1. PICK a \in Approvals : ApproveRevision(a)
    BY OnlySigning
  <2> QED BY <2>1, SigningReprices
<1> QED BY InitTypeInv, StepTypeInv, InitRateInv, StepRateInv, InitWaitInv, StepWaitInv, InitSignInv, StepSignInv,
           <1>1, PTL DEF Spec, RepricesFromItsDay


=============================================================================
