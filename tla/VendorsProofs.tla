----------------------------- MODULE VendorsProofs -----------------------------
(***************************************************************************)
(* Vendors for any leads, transporters, papers, requests and approvals, any   *)
(* warning and any number of days.  What an action may do to a transporter's  *)
(* row, to its papers and to a request is said once, for all actions, in the  *)
(* three lemmas of moves; the invariants follow from the moves.             *)
(***************************************************************************)
EXTENDS Vendors, SequenceTheorems, TLAPS

(* Whatever is verified was verified by somebody. *)
VerifiedIsProven == \A v \in Vendors, k \in Kinds : Verified(v, k) => k \in proven[v]

(* What a decision under way has found proven, and it holds a row that is there. *)
FoundBy(q) ==
    /\ Exists(q.vendor)
    /\ q.to = "ACTIVE" => Identity \subseteq proven[q.vendor]
    /\ q.to = "ACTIVE" /\ q.read = "ALL" =>
         Always \subseteq proven[q.vendor] /\ Legal \cap proven[q.vendor] # {}
ReadInv == \A r \in Requests : request[r].kind = "DECIDE" => FoundBy(request[r])

(* What an update or a link saw when it looked. *)
LookInv ==
    \A r \in Requests :
        /\ request[r].kind = "UPDATE" =>
             ~request[r].sawDecided \/ request[r].sawBranch = request[r].branch
        /\ request[r].kind = "LINK" => Exists(request[r].vendor)

(* A lead and an onboarding point at rows that are there. *)
RowInv ==
    /\ \A v \in Vendors : born[v] # None => Exists(v)
    /\ \A l \in Leads : lead[l].vendor # None => Exists(lead[l].vendor)

IInv ==
    /\ TypeOK /\ VerifiedIsProven /\ ReadInv /\ LookInv /\ RowInv
    /\ ClearedOnPapers /\ LeadsMatch

-----------------------------------------------------------------------------
(* The fields of the rows, and that an update of one keeps the others. *)

LEMMA VendorFields ==
    ASSUME NEW w \in Vendor, NEW s \in Statuses, NEW p \in Pcts, NEW b \in Branches,
           NEW t \in {"OWNER", "VENDOR"}
    PROVE  /\ w.status \in Statuses /\ w.pct \in Pcts /\ w.branch \in Branches
           /\ [w EXCEPT !.status = s] \in Vendor /\ [w EXCEPT !.status = s].status = s
           /\ [w EXCEPT !.status = s].pct = w.pct /\ [w EXCEPT !.status = s].branch = w.branch
           /\ [w EXCEPT !.pct = p] \in Vendor /\ [w EXCEPT !.pct = p].status = w.status
           /\ [w EXCEPT !.pct = p].pct = p /\ [w EXCEPT !.pct = p].branch = w.branch
           /\ [w EXCEPT !.branch = b] \in Vendor /\ [w EXCEPT !.branch = b].status = w.status
           /\ [w EXCEPT !.branch = b].branch = b /\ [w EXCEPT !.branch = b].pct = w.pct
           /\ [w EXCEPT !.party = t, !.branch = b, !.pct = p] \in Vendor
           /\ [w EXCEPT !.party = t, !.branch = b, !.pct = p].status = w.status
           /\ [w EXCEPT !.party = t, !.branch = b, !.pct = p].pct = p
           /\ [w EXCEPT !.party = t, !.branch = b, !.pct = p].branch = b
  BY DEF Vendor

LEMMA RequestFields ==
    ASSUME NEW q \in Request
    PROVE  /\ q.kind \in {"IDLE", "CREATE", "LOOK", "LINK", "UPDATE", "DECIDE"}
           /\ q.kind = "CREATE" => q.lead \in Leads
           /\ q.kind \in {"LOOK", "LINK"} => q.lead \in Leads /\ q.vendor \in Vendors
           /\ q.kind = "UPDATE" => q.vendor \in Vendors /\ q.branch \in Branches
           /\ q.kind = "DECIDE" =>
                /\ q.vendor \in Vendors /\ q.to \in {"PENDING_VERIFICATION", "ACTIVE"}
                /\ [q EXCEPT !.read = "ALL"] \in Request
                /\ [q EXCEPT !.read = "ALL"].kind = "DECIDE"
                /\ [q EXCEPT !.read = "ALL"].vendor = q.vendor
                /\ [q EXCEPT !.read = "ALL"].to = q.to
  BY DEF Request

LEMMA ApprovalFields ==
    ASSUME NEW a \in Approval, a.kind # "NONE"
    PROVE  /\ a.vendor \in Vendors
           /\ a.kind \in {"ADVANCE_POLICY_CHANGE", "BRANCH_OVERRIDE"}
           /\ a.kind = "ADVANCE_POLICY_CHANGE" => a.to \in Pcts
           /\ a.kind = "BRANCH_OVERRIDE" => a.to \in Branches
           /\ \A s \in {"APPROVED", "REJECTED"} :
                /\ [a EXCEPT !.status = s] \in Approval
                /\ [a EXCEPT !.status = s].status = s
  BY DEF Approval

LEMMA PaperFields ==
    ASSUME NEW p \in Paper, NEW s \in {"VERIFIED", "REJECTED"}
    PROVE  [p EXCEPT !.status = s] \in Paper /\ [p EXCEPT !.status = s].status = s
  BY DEF Paper

-----------------------------------------------------------------------------
(* Moves *)

VendorMove(v) ==
    \/ vendor'[v].status = vendor[v].status
    \/ vendor[v].status = "NONE" /\ vendor'[v].status = "DRAFT"
    \/ vendor[v].status \in Decided /\ vendor'[v].status \in Decided
    \/ \E r \in Requests :
         /\ request[r].kind = "DECIDE" /\ request[r].read = "ALL"
         /\ request[r].vendor = v /\ vendor'[v].status = request[r].to

RequestMove(r) ==
    \/ request'[r] \in {request[r], Idle}
    \/ \E l \in Leads : request'[r] = [kind |-> "CREATE", lead |-> l]
    \/ \E l \in Leads, v \in Vendors : request'[r] = [kind |-> "LOOK", lead |-> l, vendor |-> v]
    \/ \E l \in Leads, v \in Vendors :
         request'[r] = [kind |-> "LINK", lead |-> l, vendor |-> v] /\ Exists(v)
    \/ \E v \in Vendors, b \in Branches :
         /\ request'[r] = [kind |-> "UPDATE", vendor |-> v, branch |-> b,
                           sawDecided |-> vendor[v].status \in Decided, sawBranch |-> vendor[v].branch]
         /\ AskedDirectly(v, b)
    \/ \E v \in Vendors, to \in {"PENDING_VERIFICATION", "ACTIVE"} :
         /\ request'[r] = [kind |-> "DECIDE", vendor |-> v, to |-> to, read |-> "KYC"]
         /\ Holds(v) /\ PassesAll(v, Identity, to)
    \/ /\ request[r].kind = "DECIDE"
       /\ request'[r] = [request[r] EXCEPT !.read = "ALL"]
       /\ PassesAll(request[r].vendor, Always, request[r].to)
       /\ LegalPasses(request[r].vendor, request[r].to)

LEMMA Edited ==
    ASSUME TypeOK, NEW v \in Vendors, NEW b \in Branches, Edit(v, b)
    PROVE  vendor' \in [Vendors -> Vendor] /\ \A w \in Vendors : vendor'[w].status = vendor[w].status
<1>1. PICK party \in {"OWNER", "VENDOR"}, pct \in Pcts :
        vendor' = [vendor EXCEPT ![v] = [@ EXCEPT !.party = party, !.branch = b, !.pct = pct]]
  BY DEF Edit
<1> DEFINE row == [vendor[v] EXCEPT !.party = party, !.branch = b, !.pct = pct]
<1>2. vendor[v] \in Vendor BY DEF TypeOK
<1>3. row \in Vendor /\ row.status = vendor[v].status BY <1>2 DEF Vendor
<1>4. vendor' = [vendor EXCEPT ![v] = row] BY <1>1
<1> HIDE DEF row
<1> QED BY <1>3, <1>4 DEF TypeOK

LEMMA VendorMoves ==
    ASSUME TypeOK, [Next]_vars
    PROVE  vendor' \in [Vendors -> Vendor] /\ \A v \in Vendors : VendorMove(v)
<1> USE DEF TypeOK, VendorMove
<1> DEFINE Goal == vendor' \in [Vendors -> Vendor] /\ \A v \in Vendors : VendorMove(v)
<1>1. ASSUME NEW v \in Vendors, Create(v) PROVE Goal
  BY <1>1 DEF Create, Draft, FileUnchanged, Vendor, Statuses
<1>2. ASSUME NEW r \in Requests, NEW l \in Leads, CreateCheck(r, l) PROVE Goal
  BY <1>2 DEF CreateCheck, Ask, FileUnchanged
<1>3. ASSUME NEW r \in Requests, NEW v \in Vendors, CreateFromLead(r, v) PROVE Goal
  BY <1>3 DEF CreateFromLead, Draft, Done, FileUnchanged, Vendor, Statuses
<1>4. ASSUME NEW r \in Requests, NEW l \in Leads, NEW v \in Vendors, LinkCheck(r, l, v)
      PROVE  Goal
  BY <1>4 DEF LinkCheck, Ask, FileUnchanged
<1>5. ASSUME NEW r \in Requests, LinkWrite(r) PROVE Goal
  BY <1>5 DEF LinkWrite, Done, FileUnchanged
<1>24. ASSUME NEW r \in Requests, LinkTwin(r) PROVE Goal
  BY <1>24 DEF LinkTwin, FileUnchanged
<1>6. ASSUME NEW r \in Requests, Drop(r) PROVE Goal
  BY <1>6 DEF Drop, Done, FileUnchanged
<1>7. ASSUME NEW l \in Leads, SetStage(l) PROVE Goal
  BY <1>7 DEF SetStage, FileUnchanged
<1>8. ASSUME NEW v \in Vendors, NEW k \in Kinds, NEW validTo \in Days \cup {None}, Upload(v, k, validTo)
      PROVE  Goal
  BY <1>8 DEF Upload, RowsUnchanged
<1>9. ASSUME NEW v \in Vendors, NEW k \in Kinds, NEW status \in {"VERIFIED", "REJECTED"}, Decide(v, k, status)
      PROVE  Goal
  BY <1>9 DEF Decide, RowsUnchanged
<1>10. ASSUME NEW r \in Requests, NEW v \in Vendors, NEW to \in {"PENDING_VERIFICATION", "ACTIVE"}, StartDecision(r, v, to)
       PROVE  Goal
  BY <1>10 DEF StartDecision, Ask, StandingOnly
<1>11. ASSUME NEW r \in Requests, ReadDocuments(r) PROVE Goal
  BY <1>11 DEF ReadDocuments, StandingOnly
<1>12. ASSUME NEW r \in Requests, WriteDecision(r) PROVE Goal
  <2> DEFINE q == request[r]
  <2>1. q \in Request BY DEF TypeOK
  <2>2. q.kind = "DECIDE" /\ q.read = "ALL" /\ vendor' = [vendor EXCEPT ![q.vendor].status = q.to]
    BY <1>12 DEF WriteDecision
  <2>3. q.vendor \in Vendors /\ q.to \in Statuses BY <2>1, <2>2, RequestFields DEF Statuses
  <2> HIDE DEF q
  <2>4. vendor[q.vendor] \in Vendor BY <2>3
  <2>5. /\ [vendor[q.vendor] EXCEPT !.status = q.to] \in Vendor
        /\ [vendor[q.vendor] EXCEPT !.status = q.to].status = q.to
    BY <2>3, <2>4 DEF Vendor
  <2>6. vendor' \in [Vendors -> Vendor] BY <2>2, <2>3, <2>5
  <2>7. ASSUME NEW v \in Vendors PROVE VendorMove(v)
    <3>1. CASE v = q.vendor BY <3>1, <2>2, <2>3, <2>5 DEF q
    <3>2. CASE v # q.vendor BY <3>2, <2>2, <2>3
    <3> QED BY <3>1, <3>2
  <2> QED BY <2>6, <2>7
<1>13. ASSUME NEW v \in Vendors, Suspend(v) PROVE Goal
  BY <1>13 DEF Suspend, StandingOnly, Vendor, Statuses, Decided
<1>14. ASSUME NEW v \in Vendors, Reinstate(v) PROVE Goal
  BY <1>14 DEF Reinstate, StandingOnly, Vendor, Statuses, Decided
<1>15. ASSUME NEW v \in Vendors, Update(v) PROVE Goal
  <2>1. Edit(v, vendor[v].branch) /\ vendor[v].branch \in Branches BY <1>15 DEF Update, Vendor
  <2> QED BY <2>1, Edited
<1>16. ASSUME NEW r \in Requests, NEW v \in Vendors, NEW b \in Branches, UpdateCheck(r, v, b)
       PROVE  Goal
  BY <1>16 DEF UpdateCheck, Ask, StandingOnly
<1>17. ASSUME NEW r \in Requests, UpdateWrite(r) PROVE Goal
  <2>1. request[r] \in Request /\ request[r].kind = "UPDATE" BY <1>17 DEF UpdateWrite
  <2>2. request[r].vendor \in Vendors /\ request[r].branch \in Branches BY <2>1, RequestFields
  <2>3. Edit(request[r].vendor, request[r].branch) BY <1>17 DEF UpdateWrite
  <2> QED BY <2>2, <2>3, Edited
<1>18. ASSUME NEW a \in Approvals, NEW v \in Vendors, NEW pct \in Pcts, AskPolicy(a, v, pct)
       PROVE  Goal
  BY <1>18 DEF AskPolicy, Raise
<1>19. ASSUME NEW a \in Approvals, NEW v \in Vendors, NEW b \in Branches, AskBranch(a, v, b)
       PROVE  Goal
  BY <1>19 DEF AskBranch, Raise
<1>20. ASSUME NEW a \in Approvals, Approve(a) PROVE Goal
  <2>1. approval[a] \in Approval /\ approval[a].kind # "NONE" BY <1>20 DEF Approve, Waiting
  <2> DEFINE w == approval[a].vendor
             to == approval[a].to
  <2>2. w \in Vendors /\ vendor[w] \in Vendor BY <2>1, ApprovalFields
  <2>3. \/ to \in Pcts /\ vendor' = [vendor EXCEPT ![w].pct = to]
        \/ to \in Branches /\ vendor' = [vendor EXCEPT ![w].branch = to]
    BY <1>20, <2>1, ApprovalFields DEF Approve
  <2> HIDE DEF w, to
  <2>4. CASE to \in Pcts /\ vendor' = [vendor EXCEPT ![w].pct = to]
    <3>1. [vendor[w] EXCEPT !.pct = to] \in Vendor /\ [vendor[w] EXCEPT !.pct = to].status = vendor[w].status
      BY <2>2, <2>4 DEF Vendor
    <3> QED BY <2>2, <2>4, <3>1
  <2>5. CASE to \in Branches /\ vendor' = [vendor EXCEPT ![w].branch = to]
    <3>1. [vendor[w] EXCEPT !.branch = to] \in Vendor /\ [vendor[w] EXCEPT !.branch = to].status = vendor[w].status
      BY <2>2, <2>5 DEF Vendor
    <3> QED BY <2>2, <2>5, <3>1
  <2> QED BY <2>3, <2>4, <2>5
<1>21. ASSUME NEW a \in Approvals, Reject(a) PROVE Goal
  BY <1>21 DEF Reject
<1>22. ASSUME Tick PROVE Goal
  BY <1>22 DEF Tick
<1>23. CASE UNCHANGED vars
  BY <1>23 DEF vars
<1> QED BY <1>1, <1>2, <1>3, <1>4, <1>5, <1>6, <1>7, <1>8, <1>9, <1>10, <1>11, <1>12, <1>13,
           <1>14, <1>15, <1>16, <1>17, <1>18, <1>19, <1>20, <1>21, <1>22, <1>23, <1>24
        DEF Next, Onboarding, Papers, Standing, Terms

(* Only Compliance's verdict makes a paper verified, and what was proven stays so. *)
LEMMA PaperMoves ==
    ASSUME TypeOK, VerifiedIsProven, [Next]_vars
    PROVE  /\ paper' \in [Vendors -> [Kinds -> Paper]] /\ proven' \in [Vendors -> SUBSET Kinds]
           /\ VerifiedIsProven'
           /\ \A v \in Vendors : proven[v] \subseteq proven'[v]
<1> USE DEF TypeOK, VerifiedIsProven, Verified
<1> DEFINE Goal == /\ paper' \in [Vendors -> [Kinds -> Paper]] /\ proven' \in [Vendors -> SUBSET Kinds]
                   /\ VerifiedIsProven'
                   /\ \A v \in Vendors : proven[v] \subseteq proven'[v]
<1>1. ASSUME NEW v \in Vendors, Create(v) PROVE Goal
  BY <1>1 DEF Create, Draft, FileUnchanged
<1>2. ASSUME NEW r \in Requests, NEW l \in Leads, CreateCheck(r, l) PROVE Goal
  BY <1>2 DEF CreateCheck, Ask, FileUnchanged
<1>3. ASSUME NEW r \in Requests, NEW v \in Vendors, CreateFromLead(r, v) PROVE Goal
  BY <1>3 DEF CreateFromLead, Draft, Done, FileUnchanged
<1>4. ASSUME NEW r \in Requests, NEW l \in Leads, NEW v \in Vendors, LinkCheck(r, l, v)
      PROVE  Goal
  BY <1>4 DEF LinkCheck, Ask, FileUnchanged
<1>5. ASSUME NEW r \in Requests, LinkWrite(r) PROVE Goal
  BY <1>5 DEF LinkWrite, Done, FileUnchanged
<1>24. ASSUME NEW r \in Requests, LinkTwin(r) PROVE Goal
  BY <1>24 DEF LinkTwin, FileUnchanged
<1>6. ASSUME NEW r \in Requests, Drop(r) PROVE Goal
  BY <1>6 DEF Drop, Done, FileUnchanged
<1>7. ASSUME NEW l \in Leads, SetStage(l) PROVE Goal
  BY <1>7 DEF SetStage, FileUnchanged
<1>8. ASSUME NEW v \in Vendors, NEW k \in Kinds, NEW validTo \in Days \cup {None}, Upload(v, k, validTo)
      PROVE  Goal
  <2>1. Stamped(k, validTo) \in Days \cup {None} BY DaysAssumption DEF Stamped, Days
  <2>2. PICK kept \in Days \cup {None} :
           paper' = [paper EXCEPT ![v][k] = [status |-> "PENDING", validTo |-> kept]]
    BY <1>8, <2>1 DEF Upload
  <2>3. UNCHANGED proven BY <1>8 DEF Upload
  <2> QED BY <2>2, <2>3 DEF Paper
<1>9. ASSUME NEW v \in Vendors, NEW k \in Kinds, NEW status \in {"VERIFIED", "REJECTED"}, Decide(v, k, status)
      PROVE  Goal
  <2>1. paper[v][k] \in Paper BY DEF TypeOK
  <2>2. [paper[v][k] EXCEPT !.status = status] \in Paper /\ [paper[v][k] EXCEPT !.status = status].status = status
    BY <2>1, PaperFields
  <2>3. /\ paper' = [paper EXCEPT ![v][k].status = status]
        /\ proven' = IF status = "VERIFIED" THEN [proven EXCEPT ![v] = proven[v] \cup {k}] ELSE proven
    BY <1>9 DEF Decide
  <2>4. paper' \in [Vendors -> [Kinds -> Paper]] BY <2>2, <2>3
  <2>5. ASSUME NEW w \in Vendors, NEW j \in Kinds
        PROVE  paper'[w][j].status = IF w = v /\ j = k THEN status ELSE paper[w][j].status
    BY <2>2, <2>3
  <2>6. proven' \in [Vendors -> SUBSET Kinds] /\ \A w \in Vendors : proven[w] \subseteq proven'[w]
    BY <2>3
  <2>7. VerifiedIsProven' BY <2>3, <2>5, <2>6
  <2> QED BY <2>4, <2>6, <2>7
<1>10. ASSUME NEW r \in Requests, NEW v \in Vendors, NEW to \in {"PENDING_VERIFICATION", "ACTIVE"}, StartDecision(r, v, to)
       PROVE  Goal
  BY <1>10 DEF StartDecision, Ask, StandingOnly
<1>11. ASSUME NEW r \in Requests, ReadDocuments(r) PROVE Goal
  BY <1>11 DEF ReadDocuments, StandingOnly
<1>12. ASSUME NEW r \in Requests, WriteDecision(r) PROVE Goal
  BY <1>12 DEF WriteDecision, Done, StandingOnly
<1>13. ASSUME NEW v \in Vendors, Suspend(v) PROVE Goal
  BY <1>13 DEF Suspend, StandingOnly
<1>14. ASSUME NEW v \in Vendors, Reinstate(v) PROVE Goal
  BY <1>14 DEF Reinstate, StandingOnly
<1>15. ASSUME NEW v \in Vendors, Update(v) PROVE Goal
  BY <1>15 DEF Update, Edit, StandingOnly
<1>16. ASSUME NEW r \in Requests, NEW v \in Vendors, NEW b \in Branches, UpdateCheck(r, v, b)
       PROVE  Goal
  BY <1>16 DEF UpdateCheck, Ask, StandingOnly
<1>17. ASSUME NEW r \in Requests, UpdateWrite(r) PROVE Goal
  BY <1>17 DEF UpdateWrite, Edit, Done, StandingOnly
<1>18. ASSUME NEW a \in Approvals, NEW v \in Vendors, NEW pct \in Pcts, AskPolicy(a, v, pct)
       PROVE  Goal
  BY <1>18 DEF AskPolicy, Raise
<1>19. ASSUME NEW a \in Approvals, NEW v \in Vendors, NEW b \in Branches, AskBranch(a, v, b)
       PROVE  Goal
  BY <1>19 DEF AskBranch, Raise
<1>20. ASSUME NEW a \in Approvals, Approve(a) PROVE Goal
  BY <1>20 DEF Approve
<1>21. ASSUME NEW a \in Approvals, Reject(a) PROVE Goal
  BY <1>21 DEF Reject
<1>22. ASSUME Tick PROVE Goal
  BY <1>22 DEF Tick
<1>23. CASE UNCHANGED vars
  BY <1>23 DEF vars
<1> QED BY <1>1, <1>2, <1>3, <1>4, <1>5, <1>6, <1>7, <1>8, <1>9, <1>10, <1>11, <1>12, <1>13,
           <1>14, <1>15, <1>16, <1>17, <1>18, <1>19, <1>20, <1>21, <1>22, <1>23, <1>24
        DEF Next, Onboarding, Papers, Standing, Terms

(* At most one request moves in a step. *)
LEMMA RequestMoves ==
    ASSUME TypeOK, [Next]_vars
    PROVE  /\ request' \in [Requests -> Request] /\ \A r \in Requests : RequestMove(r)
           /\ \A r, q \in Requests : r # q => request'[r] = request[r] \/ request'[q] = request[q]
<1> USE DEF TypeOK, RequestMove
<1> DEFINE Goal ==
             /\ request' \in [Requests -> Request] /\ \A r \in Requests : RequestMove(r)
             /\ \A r, q \in Requests : r # q => request'[r] = request[r] \/ request'[q] = request[q]
<1>1. ASSUME NEW v \in Vendors, Create(v) PROVE Goal
  BY <1>1 DEF Create, Draft, FileUnchanged
<1>2. ASSUME NEW r \in Requests, NEW l \in Leads, CreateCheck(r, l) PROVE Goal
  BY <1>2 DEF CreateCheck, Ask, FileUnchanged, Request, Idle
<1>3. ASSUME NEW r \in Requests, NEW v \in Vendors, CreateFromLead(r, v) PROVE Goal
  BY <1>3 DEF CreateFromLead, Draft, Done, FileUnchanged, Request, Idle
<1>4. ASSUME NEW r \in Requests, NEW l \in Leads, NEW v \in Vendors, LinkCheck(r, l, v)
      PROVE  Goal
  BY <1>4 DEF LinkCheck, Ask, FileUnchanged, Request, Idle
<1>5. ASSUME NEW r \in Requests, LinkWrite(r) PROVE Goal
  BY <1>5 DEF LinkWrite, Done, FileUnchanged, Request, Idle
<1>24. ASSUME NEW r \in Requests, LinkTwin(r) PROVE Goal
  <2> DEFINE l == request[r].lead
             v == request[r].vendor
             q == [kind |-> "LINK", lead |-> l, vendor |-> v]
  <2>1. request[r] \in Request /\ request[r].kind = "LOOK" BY <1>24 DEF LinkTwin
  <2>2. l \in Leads /\ v \in Vendors BY <2>1, RequestFields
  <2>3. request' = [request EXCEPT ![r] = q] /\ Exists(v) BY <1>24 DEF LinkTwin
  <2>4. q \in Request BY <2>2 DEF Request
  <2>5. RequestMove(r) BY <2>2, <2>3
  <2> HIDE DEF q
  <2>6. request' \in [Requests -> Request] /\ \A p \in Requests : p # r => request'[p] = request[p]
    BY <2>3, <2>4
  <2> QED BY <2>5, <2>6
<1>6. ASSUME NEW r \in Requests, Drop(r) PROVE Goal
  BY <1>6 DEF Drop, Done, FileUnchanged, Request, Idle
<1>7. ASSUME NEW l \in Leads, SetStage(l) PROVE Goal
  BY <1>7 DEF SetStage, FileUnchanged
<1>8. ASSUME NEW v \in Vendors, NEW k \in Kinds, NEW validTo \in Days \cup {None}, Upload(v, k, validTo)
      PROVE  Goal
  BY <1>8 DEF Upload, RowsUnchanged
<1>9. ASSUME NEW v \in Vendors, NEW k \in Kinds, NEW status \in {"VERIFIED", "REJECTED"}, Decide(v, k, status)
      PROVE  Goal
  BY <1>9 DEF Decide, RowsUnchanged
<1>10. ASSUME NEW r \in Requests, NEW v \in Vendors, NEW to \in {"PENDING_VERIFICATION", "ACTIVE"}, StartDecision(r, v, to)
       PROVE  Goal
  BY <1>10 DEF StartDecision, Ask, StandingOnly, Request
<1>11. ASSUME NEW r \in Requests, ReadDocuments(r) PROVE Goal
  <2>1. request[r] \in Request /\ request[r].kind = "DECIDE" BY <1>11 DEF ReadDocuments
  <2>2. [request[r] EXCEPT !.read = "ALL"] \in Request BY <2>1, RequestFields
  <2>3. request' = [request EXCEPT ![r].read = "ALL"] BY <1>11 DEF ReadDocuments
  <2>4. /\ PassesAll(request[r].vendor, Always, request[r].to)
        /\ LegalPasses(request[r].vendor, request[r].to)
    BY <1>11 DEF ReadDocuments
  <2>5. request' \in [Requests -> Request] BY <2>2, <2>3
  <2>6. \A q \in Requests : q # r => request'[q] = request[q] BY <2>3
  <2>7. RequestMove(r) BY <2>1, <2>3, <2>4
  <2> QED BY <2>5, <2>6, <2>7
<1>12. ASSUME NEW r \in Requests, WriteDecision(r) PROVE Goal
  BY <1>12 DEF WriteDecision, Done, StandingOnly, Request, Idle
<1>13. ASSUME NEW v \in Vendors, Suspend(v) PROVE Goal
  BY <1>13 DEF Suspend, StandingOnly
<1>14. ASSUME NEW v \in Vendors, Reinstate(v) PROVE Goal
  BY <1>14 DEF Reinstate, StandingOnly
<1>15. ASSUME NEW v \in Vendors, Update(v) PROVE Goal
  BY <1>15 DEF Update, Edit, StandingOnly
<1>16. ASSUME NEW r \in Requests, NEW v \in Vendors, NEW b \in Branches, UpdateCheck(r, v, b)
       PROVE  Goal
  BY <1>16 DEF UpdateCheck, Ask, StandingOnly, Request, Vendor
<1>17. ASSUME NEW r \in Requests, UpdateWrite(r) PROVE Goal
  BY <1>17 DEF UpdateWrite, Edit, Done, StandingOnly, Request, Idle
<1>18. ASSUME NEW a \in Approvals, NEW v \in Vendors, NEW pct \in Pcts, AskPolicy(a, v, pct)
       PROVE  Goal
  BY <1>18 DEF AskPolicy, Raise
<1>19. ASSUME NEW a \in Approvals, NEW v \in Vendors, NEW b \in Branches, AskBranch(a, v, b)
       PROVE  Goal
  BY <1>19 DEF AskBranch, Raise
<1>20. ASSUME NEW a \in Approvals, Approve(a) PROVE Goal
  BY <1>20 DEF Approve
<1>21. ASSUME NEW a \in Approvals, Reject(a) PROVE Goal
  BY <1>21 DEF Reject
<1>22. ASSUME Tick PROVE Goal
  BY <1>22 DEF Tick
<1>23. CASE UNCHANGED vars
  BY <1>23 DEF vars
<1> QED BY <1>1, <1>2, <1>3, <1>4, <1>5, <1>6, <1>7, <1>8, <1>9, <1>10, <1>11, <1>12, <1>13,
           <1>14, <1>15, <1>16, <1>17, <1>18, <1>19, <1>20, <1>21, <1>22, <1>23, <1>24
        DEF Next, Onboarding, Papers, Standing, Terms

(* A request that decides, updates or links now did so before, or has begun. *)
LEMMA KindOfMove ==
    ASSUME TypeOK, NEW r \in Requests, RequestMove(r)
    PROVE  /\ request'[r].kind = "DECIDE" =>
                \/ request'[r] = request[r]
                \/ \E v \in Vendors, to \in {"PENDING_VERIFICATION", "ACTIVE"} :
                     /\ request'[r] = [kind |-> "DECIDE", vendor |-> v, to |-> to, read |-> "KYC"]
                     /\ Holds(v) /\ PassesAll(v, Identity, to)
                \/ /\ request[r].kind = "DECIDE"
                   /\ request'[r] = [request[r] EXCEPT !.read = "ALL"]
                   /\ PassesAll(request[r].vendor, Always, request[r].to)
                   /\ LegalPasses(request[r].vendor, request[r].to)
           /\ request'[r].kind = "UPDATE" =>
                \/ request'[r] = request[r]
                \/ \E v \in Vendors, b \in Branches :
                     /\ request'[r] = [kind |-> "UPDATE", vendor |-> v, branch |-> b,
                                       sawDecided |-> vendor[v].status \in Decided, sawBranch |-> vendor[v].branch]
                     /\ AskedDirectly(v, b)
           /\ request'[r].kind = "LINK" =>
                \/ request'[r] = request[r]
                \/ \E l \in Leads, v \in Vendors :
                     request'[r] = [kind |-> "LINK", lead |-> l, vendor |-> v] /\ Exists(v)
<1>1. \A l \in Leads : request'[r] = [kind |-> "CREATE", lead |-> l] => request'[r].kind = "CREATE"
  OBVIOUS
<1>2. \A l \in Leads, v \in Vendors :
         /\ request'[r] = [kind |-> "LOOK", lead |-> l, vendor |-> v] => request'[r].kind = "LOOK"
         /\ request'[r] = [kind |-> "LINK", lead |-> l, vendor |-> v] => request'[r].kind = "LINK"
  OBVIOUS
<1>3. \A v \in Vendors, b \in Branches :
         request'[r] = [kind |-> "UPDATE", vendor |-> v, branch |-> b,
                        sawDecided |-> vendor[v].status \in Decided, sawBranch |-> vendor[v].branch]
           => request'[r].kind = "UPDATE"
  OBVIOUS
<1>4. \A v \in Vendors, to \in {"PENDING_VERIFICATION", "ACTIVE"} :
         request'[r] = [kind |-> "DECIDE", vendor |-> v, to |-> to, read |-> "KYC"]
           => request'[r].kind = "DECIDE"
  OBVIOUS
<1>5. request[r].kind = "DECIDE" => [request[r] EXCEPT !.read = "ALL"].kind = "DECIDE"
  BY RequestFields DEF TypeOK
<1>6. request'[r] = Idle => request'[r].kind = "IDLE" BY DEF Idle
<1> QED BY <1>1, <1>2, <1>3, <1>4, <1>5, <1>6 DEF RequestMove

-----------------------------------------------------------------------------
(* The papers and the decision that reads them *)

(* A row, once there, stays. *)
LEMMA RowsStay ==
    ASSUME TypeOK, ReadInv, [Next]_vars, NEW v \in Vendors, Exists(v)
    PROVE  Exists(v)'
<1>1. VendorMove(v) BY VendorMoves
<1>2. CASE \E r \in Requests :
             /\ request[r].kind = "DECIDE" /\ request[r].read = "ALL"
             /\ request[r].vendor = v /\ vendor'[v].status = request[r].to
  <2>1. PICK r \in Requests : request[r].kind = "DECIDE" /\ vendor'[v].status = request[r].to
    BY <1>2
  <2>2. request[r].to \in {"PENDING_VERIFICATION", "ACTIVE"} BY <2>1, RequestFields DEF TypeOK
  <2> QED BY <2>1, <2>2 DEF Exists
<1> QED BY <1>1, <1>2 DEF VendorMove, Exists, Decided

(* Whoever comes onto the panel, by whichever way, comes on proven papers. *)
LEMMA ClearedStep ==
    ASSUME TypeOK, VerifiedIsProven, ReadInv, ClearedOnPapers, [Next]_vars
    PROVE  ClearedOnPapers'
<1> SUFFICES ASSUME NEW v \in Vendors, vendor'[v].status \in Decided
             PROVE  Identity \cup Always \subseteq proven'[v] /\ Legal \cap proven'[v] # {}
  BY DEF ClearedOnPapers
<1>1. proven[v] \subseteq proven'[v] BY PaperMoves
<1> SUFFICES Identity \cup Always \subseteq proven[v] /\ Legal \cap proven[v] # {} BY <1>1
<1>2. VendorMove(v) BY VendorMoves
<1>3. CASE vendor[v].status \in Decided BY <1>3 DEF ClearedOnPapers
<1>4. CASE \E r \in Requests :
             /\ request[r].kind = "DECIDE" /\ request[r].read = "ALL"
             /\ request[r].vendor = v /\ vendor'[v].status = request[r].to
  <2>1. PICK r \in Requests :
               /\ request[r].kind = "DECIDE" /\ request[r].read = "ALL"
               /\ request[r].vendor = v /\ vendor'[v].status = request[r].to
    BY <1>4
  <2>2. request[r].to = "ACTIVE" BY <2>1, RequestFields DEF TypeOK, Decided
  <2> QED BY <2>1, <2>2 DEF ReadInv, FoundBy
<1> QED BY <1>2, <1>3, <1>4 DEF VendorMove, Decided

(* Each of the two lists is read after the row was locked, and what it held   *)
(* verified is proven, whatever is uploaded afterwards.                     *)
LEMMA ReadStep ==
    ASSUME TypeOK, VerifiedIsProven, ReadInv, [Next]_vars
    PROVE  ReadInv'
<1> SUFFICES ASSUME NEW r \in Requests, request'[r].kind = "DECIDE"
             PROVE  FoundBy(request[r])'
  BY DEF ReadInv
<1>0. \A v \in Vendors : proven[v] \subseteq proven'[v] BY PaperMoves
<1>1. \A v \in Vendors : Exists(v) => Exists(v)' BY RowsStay
<1>2. request[r] \in Request BY DEF TypeOK
<1>3. CASE request'[r] = request[r]
  <2>1. FoundBy(request[r]) /\ request[r].vendor \in Vendors
    BY <1>2, <1>3, RequestFields DEF ReadInv
  <2>2. /\ Exists(request[r].vendor)'
        /\ proven[request[r].vendor] \subseteq proven'[request[r].vendor]
    BY <2>1, <1>0, <1>1, <1>3 DEF FoundBy, Exists
  <2> QED BY <1>3, <2>1, <2>2 DEF FoundBy
<1>4. ASSUME NEW v \in Vendors, NEW to \in {"PENDING_VERIFICATION", "ACTIVE"},
             request'[r] = [kind |-> "DECIDE", vendor |-> v, to |-> to, read |-> "KYC"],
             Holds(v), PassesAll(v, Identity, to)
      PROVE  FoundBy(request[r])'
  <2>1. Exists(v)' BY <1>1, <1>4 DEF Holds
  <2>2. to = "ACTIVE" => Identity \subseteq proven[v]
    BY <1>4 DEF PassesAll, Passes, VerifiedIsProven, Verified, Kinds
  <2> QED BY <1>0, <1>4, <2>1, <2>2 DEF FoundBy, Exists
<1>5. CASE /\ request[r].kind = "DECIDE"
           /\ request'[r] = [request[r] EXCEPT !.read = "ALL"]
           /\ PassesAll(request[r].vendor, Always, request[r].to)
           /\ LegalPasses(request[r].vendor, request[r].to)
  <2> DEFINE v == request[r].vendor
             to == request[r].to
  <2>1. v \in Vendors /\ request'[r].vendor = v /\ request'[r].to = to
    BY <1>2, <1>5, RequestFields
  <2>2. vendor'[v].status # "NONE" /\ (to = "ACTIVE" => Identity \subseteq proven[v])
    BY <1>1, <1>5, <2>1 DEF ReadInv, FoundBy, Exists
  <2>3. to = "ACTIVE" => Always \subseteq proven[v]
    BY <1>5, <2>1 DEF PassesAll, Passes, VerifiedIsProven, Verified, Kinds, Documents
  <2>4. to = "ACTIVE" => \E k \in Legal : paper[v][k].status = "VERIFIED"
    BY <1>5, <2>1, KindsAssumption DEF LegalPasses, Passes
  <2>5. to = "ACTIVE" => Legal \cap proven[v] # {}
    BY <2>1, <2>4 DEF VerifiedIsProven, Verified, Kinds, Documents
  <2>6. proven[v] \subseteq proven'[v] BY <1>0, <2>1
  <2> HIDE DEF v, to
  <2> QED BY <2>1, <2>2, <2>3, <2>5, <2>6 DEF FoundBy, Exists
<1>6. RequestMove(r) BY RequestMoves
<1> QED BY <1>3, <1>4, <1>5, <1>6, KindOfMove

-----------------------------------------------------------------------------
(* Looks and links *)

LEMMA LookStep ==
    ASSUME TypeOK, ReadInv, LookInv, [Next]_vars
    PROVE  LookInv'
<1> SUFFICES ASSUME NEW r \in Requests
             PROVE  /\ request'[r].kind = "UPDATE" =>
                         ~request'[r].sawDecided \/ request'[r].sawBranch = request'[r].branch
                    /\ request'[r].kind = "LINK" => Exists(request[r].vendor)'
  BY DEF LookInv
<1>1. \A v \in Vendors : Exists(v) => Exists(v)' BY RowsStay
<1>2. RequestMove(r) /\ request[r] \in Request BY RequestMoves DEF TypeOK
<1>3. CASE request'[r] = request[r]
  <2>1. request[r].kind = "LINK" => request[r].vendor \in Vendors BY <1>2, RequestFields
  <2> QED BY <1>1, <1>3, <2>1 DEF LookInv, Exists
<1>4. ASSUME NEW v \in Vendors, NEW b \in Branches, AskedDirectly(v, b),
             request'[r] = [kind |-> "UPDATE", vendor |-> v, branch |-> b,
                            sawDecided |-> vendor[v].status \in Decided, sawBranch |-> vendor[v].branch]
      PROVE  request'[r].kind = "UPDATE" /\ (~request'[r].sawDecided \/ request'[r].sawBranch = request'[r].branch)
  <2> DEFINE d == vendor[v].status \in Decided
  <2>0. request'[r] = [kind |-> "UPDATE", vendor |-> v, branch |-> b,
                       sawDecided |-> d, sawBranch |-> vendor[v].branch]
    BY <1>4, Zenon
  <2> HIDE DEF d
  <2>1. request'[r].sawDecided = d BY <2>0
  <2>2. request'[r].kind = "UPDATE" /\ request'[r].branch = b /\ request'[r].sawBranch = vendor[v].branch
    BY <1>4
  <2>3. vendor[v].status \notin Decided \/ b = vendor[v].branch BY <1>4 DEF AskedDirectly
  <2>4. d => b = vendor[v].branch BY <2>3 DEF d
  <2> QED BY <2>1, <2>2, <2>4, Zenon
<1>5. ASSUME NEW l \in Leads, NEW v \in Vendors, Exists(v),
             request'[r] = [kind |-> "LINK", lead |-> l, vendor |-> v]
      PROVE  request'[r].kind = "LINK" /\ Exists(request[r].vendor)'
  BY <1>1, <1>5 DEF Exists
<1> QED BY <1>2, <1>3, <1>4, <1>5, KindOfMove

(* The three steps that write a lead: onboarding, a link, the stage by hand. *)
LEMMA LeadMoves ==
    ASSUME [Next]_vars
    PROVE  \/ UNCHANGED <<lead, born, stale>>
           \/ \E r \in Requests, v \in Vendors : CreateFromLead(r, v)
           \/ \E r \in Requests : LinkWrite(r)
           \/ \E l \in Leads : SetStage(l)
<1> DEFINE Goal ==
             \/ UNCHANGED <<lead, born, stale>>
             \/ \E r \in Requests, v \in Vendors : CreateFromLead(r, v)
             \/ \E r \in Requests : LinkWrite(r)
             \/ \E l \in Leads : SetStage(l)
<1>1. ASSUME NEW v \in Vendors, Create(v) PROVE Goal
  BY <1>1 DEF Create, Draft, FileUnchanged
<1>2. ASSUME NEW r \in Requests, NEW l \in Leads, CreateCheck(r, l) PROVE Goal
  BY <1>2 DEF CreateCheck, Ask, FileUnchanged
<1>3. ASSUME NEW r \in Requests, NEW v \in Vendors, CreateFromLead(r, v) PROVE Goal
  BY <1>3 DEF CreateFromLead, Draft, Done, FileUnchanged
<1>4. ASSUME NEW r \in Requests, NEW l \in Leads, NEW v \in Vendors, LinkCheck(r, l, v)
      PROVE  Goal
  BY <1>4 DEF LinkCheck, Ask, FileUnchanged
<1>5. ASSUME NEW r \in Requests, LinkWrite(r) PROVE Goal
  BY <1>5 DEF LinkWrite, Done, FileUnchanged
<1>24. ASSUME NEW r \in Requests, LinkTwin(r) PROVE Goal
  BY <1>24 DEF LinkTwin, FileUnchanged
<1>6. ASSUME NEW r \in Requests, Drop(r) PROVE Goal
  BY <1>6 DEF Drop, Done, FileUnchanged
<1>7. ASSUME NEW l \in Leads, SetStage(l) PROVE Goal
  BY <1>7 DEF SetStage, FileUnchanged
<1>8. ASSUME NEW v \in Vendors, NEW k \in Kinds, NEW validTo \in Days \cup {None}, Upload(v, k, validTo)
      PROVE  Goal
  BY <1>8 DEF Upload, RowsUnchanged
<1>9. ASSUME NEW v \in Vendors, NEW k \in Kinds, NEW status \in {"VERIFIED", "REJECTED"}, Decide(v, k, status)
      PROVE  Goal
  BY <1>9 DEF Decide, RowsUnchanged
<1>10. ASSUME NEW r \in Requests, NEW v \in Vendors, NEW to \in {"PENDING_VERIFICATION", "ACTIVE"}, StartDecision(r, v, to)
       PROVE  Goal
  BY <1>10 DEF StartDecision, Ask, StandingOnly
<1>11. ASSUME NEW r \in Requests, ReadDocuments(r) PROVE Goal
  BY <1>11 DEF ReadDocuments, StandingOnly
<1>12. ASSUME NEW r \in Requests, WriteDecision(r) PROVE Goal
  BY <1>12 DEF WriteDecision, Done, StandingOnly
<1>13. ASSUME NEW v \in Vendors, Suspend(v) PROVE Goal
  BY <1>13 DEF Suspend, StandingOnly
<1>14. ASSUME NEW v \in Vendors, Reinstate(v) PROVE Goal
  BY <1>14 DEF Reinstate, StandingOnly
<1>15. ASSUME NEW v \in Vendors, Update(v) PROVE Goal
  BY <1>15 DEF Update, Edit, StandingOnly
<1>16. ASSUME NEW r \in Requests, NEW v \in Vendors, NEW b \in Branches, UpdateCheck(r, v, b)
       PROVE  Goal
  BY <1>16 DEF UpdateCheck, Ask, StandingOnly
<1>17. ASSUME NEW r \in Requests, UpdateWrite(r) PROVE Goal
  BY <1>17 DEF UpdateWrite, Edit, Done, StandingOnly
<1>18. ASSUME NEW a \in Approvals, NEW v \in Vendors, NEW pct \in Pcts, AskPolicy(a, v, pct)
       PROVE  Goal
  BY <1>18 DEF AskPolicy, Raise
<1>19. ASSUME NEW a \in Approvals, NEW v \in Vendors, NEW b \in Branches, AskBranch(a, v, b)
       PROVE  Goal
  BY <1>19 DEF AskBranch, Raise
<1>20. ASSUME NEW a \in Approvals, Approve(a) PROVE Goal
  BY <1>20 DEF Approve
<1>21. ASSUME NEW a \in Approvals, Reject(a) PROVE Goal
  BY <1>21 DEF Reject
<1>22. ASSUME Tick PROVE Goal
  BY <1>22 DEF Tick
<1>23. CASE UNCHANGED vars
  BY <1>23 DEF vars
<1> QED BY <1>1, <1>2, <1>3, <1>4, <1>5, <1>6, <1>7, <1>8, <1>9, <1>10, <1>11, <1>12, <1>13,
           <1>14, <1>15, <1>16, <1>17, <1>18, <1>19, <1>20, <1>21, <1>22, <1>23, <1>24
        DEF Next, Onboarding, Papers, Standing, Terms

LeadTypes ==
    lead \in [Leads -> Lead] /\ born \in [Vendors -> Leads \cup {None}] /\ stale \subseteq Leads

LEMMA CreateStep ==
    ASSUME TypeOK, RowInv, LeadsMatch, NEW r \in Requests, NEW v \in Vendors, CreateFromLead(r, v),
           \A w \in Vendors : Exists(w) => Exists(w)'
    PROVE  LeadTypes' /\ LeadsMatch' /\ RowInv'
<1> DEFINE l == request[r].lead
           new == [vendor |-> v, converted |-> TRUE]
<1>1. request[r] \in Request /\ request[r].kind = "CREATE" BY DEF TypeOK, CreateFromLead
<1>2. l \in Leads /\ lead[l].vendor = None BY <1>1, RequestFields DEF CreateFromLead
<1>3. lead' = [lead EXCEPT ![l] = new] /\ born' = [born EXCEPT ![v] = l] /\ stale' = stale
  BY DEF CreateFromLead
<1>4. ~Exists(v) /\ Exists(v)' BY DEF CreateFromLead, Draft, Exists, TypeOK
<1>5. \A m \in Leads : lead[m].vendor # v
  BY <1>4, NoneAssumption DEF RowInv
<1>6. v # None /\ l # None /\ born[v] = None BY <1>2, <1>4, NoneAssumption DEF RowInv
<1>7. new \in Lead /\ new.vendor = v /\ new.converted BY DEF Lead
<1> HIDE DEF l, new
<1>8. LeadTypes' BY <1>2, <1>3, <1>7 DEF LeadTypes, TypeOK
<1>9. \A m \in Leads : lead'[m] = IF m = l THEN new ELSE lead[m] BY <1>2, <1>3 DEF TypeOK
<1>10. \A w \in Vendors : born'[w] = IF w = v THEN l ELSE born[w] BY <1>3 DEF TypeOK
<1>11. \A w \in Vendors : born[w] \in Leads \cup {None} BY DEF TypeOK
<1>12. \A m \in Leads : lead[m].vendor \in Vendors \cup {None} BY DEF TypeOK, Lead
<1>13. LeadsMatch'
  <2>1. ASSUME NEW w \in Vendors, born'[w] # None, born'[w] \notin stale PROVE lead'[born'[w]].vendor = w
    <3>1. CASE w = v BY <1>2, <1>7, <1>9, <1>10, <3>1
    <3>2. CASE w # v
      <4>1. born[w] \in Leads /\ lead[born[w]].vendor = w BY <1>10, <1>11, <2>1, <3>2 DEF LeadsMatch
      <4>2. w # None BY NoneAssumption
      <4> QED BY <1>2, <1>9, <1>10, <3>2, <4>1, <4>2
    <3> QED BY <3>1, <3>2
  <2>2. ASSUME NEW m \in Leads \ stale, NEW n \in Leads \ stale,
               lead'[m].vendor # None, lead'[m].vendor = lead'[n].vendor
        PROVE  m = n
    BY <1>5, <1>7, <1>9, <2>2 DEF LeadsMatch
  <2>3. \A m \in Leads : lead'[m].converted => lead'[m].vendor # None
    BY <1>6, <1>7, <1>9 DEF LeadsMatch
  <2> QED BY <1>3, <2>1, <2>2, <2>3 DEF LeadsMatch
<1>14. RowInv'
  <2>1. ASSUME NEW w \in Vendors, born'[w] # None PROVE Exists(w)'
    BY <1>4, <1>10, <2>1 DEF RowInv
  <2>2. ASSUME NEW m \in Leads, lead'[m].vendor # None PROVE vendor'[lead'[m].vendor].status # "NONE"
    <3>1. CASE m = l BY <1>4, <1>7, <1>9, <3>1 DEF Exists
    <3>2. CASE m # l
      <4>1. lead'[m].vendor = lead[m].vendor /\ lead[m].vendor \in Vendors BY <1>9, <1>12, <2>2, <3>2
      <4> QED BY <2>2, <4>1 DEF RowInv, Exists
    <3> QED BY <3>1, <3>2
  <2> QED BY <2>1, <2>2 DEF RowInv, Exists
<1> QED BY <1>8, <1>13, <1>14

(* A link takes the transporter from no lead and the lead from no transporter  *)
(* that is not counted as stale from then on.                               *)
LEMMA LinkStep ==
    ASSUME TypeOK, RowInv, LookInv, LeadsMatch, NEW r \in Requests, LinkWrite(r)
    PROVE  LeadTypes' /\ LeadsMatch' /\ RowInv'
<1> DEFINE l == request[r].lead
           v == request[r].vendor
           new == [vendor |-> v, converted |-> TRUE]
           twin == {m \in Leads \ {l} : lead[m].vendor = v}
<1>1. request[r] \in Request /\ request[r].kind = "LINK" BY DEF TypeOK, LinkWrite
<1>2. l \in Leads /\ v \in Vendors /\ Exists(v) BY <1>1, RequestFields DEF LookInv
<1>3. /\ lead' = [lead EXCEPT ![l] = new] /\ born' = born /\ vendor' = vendor
      /\ stale' = stale \cup twin \cup {m \in {l} : lead[l].vendor \notin {None, v} \/ twin # {}}
  BY DEF LinkWrite, FileUnchanged
<1>4. v # None BY <1>2, NoneAssumption
<1>5. new \in Lead /\ new.vendor = v /\ new.converted BY <1>2 DEF Lead
<1>6. stale \subseteq stale' /\ twin \subseteq stale'
      /\ (l \notin stale' => lead[l].vendor \in {None, v}) BY <1>3
<1>7. stale' \subseteq Leads BY <1>2, <1>3 DEF TypeOK
<1>8. \A m \in Leads : m # l /\ m \notin stale' => lead[m].vendor # v BY <1>6
<1> HIDE DEF l, v, new, twin
<1>9. LeadTypes' BY <1>2, <1>3, <1>5, <1>7 DEF LeadTypes, TypeOK
<1>10. \A m \in Leads : lead'[m] = IF m = l THEN new ELSE lead[m] BY <1>2, <1>3 DEF TypeOK
<1>11. \A w \in Vendors : born[w] \in Leads \cup {None} BY DEF TypeOK
<1>12. LeadsMatch'
  <2>1. ASSUME NEW w \in Vendors, born[w] # None, born[w] \notin stale' PROVE lead'[born[w]].vendor = w
    <3>1. born[w] \in Leads /\ lead[born[w]].vendor = w BY <1>6, <1>11, <2>1 DEF LeadsMatch
    <3>2. w # None BY NoneAssumption
    <3>3. CASE born[w] = l BY <1>2, <1>5, <1>6, <1>10, <2>1, <3>1, <3>2, <3>3
    <3>4. CASE born[w] # l BY <1>10, <3>1, <3>4
    <3> QED BY <3>3, <3>4
  <2>2. ASSUME NEW m \in Leads \ stale', NEW n \in Leads \ stale',
               lead'[m].vendor # None, lead'[m].vendor = lead'[n].vendor
        PROVE  m = n
    BY <1>5, <1>6, <1>8, <1>10, <2>2 DEF LeadsMatch
  <2>3. \A m \in Leads : lead'[m].converted => lead'[m].vendor # None
    BY <1>4, <1>5, <1>10 DEF LeadsMatch
  <2> QED BY <1>3, <2>1, <2>2, <2>3 DEF LeadsMatch
<1>13. RowInv' BY <1>2, <1>3, <1>5, <1>10 DEF RowInv, Exists
<1> QED BY <1>9, <1>12, <1>13

LEMMA LeadsStep ==
    ASSUME TypeOK, RowInv, ReadInv, LookInv, LeadsMatch, [Next]_vars
    PROVE  LeadTypes' /\ LeadsMatch' /\ RowInv'
<1>1. \A w \in Vendors : Exists(w) => Exists(w)' BY RowsStay
<1>2. \A m \in Leads : lead[m].vendor \in Vendors \cup {None} BY DEF TypeOK, Lead
<1>3. CASE UNCHANGED <<lead, born, stale>>
  <2>1. LeadTypes' BY <1>3 DEF LeadTypes, TypeOK
  <2>2. LeadsMatch' BY <1>3 DEF LeadsMatch
  <2>3. RowInv' BY <1>1, <1>2, <1>3 DEF RowInv, Exists
  <2> QED BY <2>1, <2>2, <2>3
<1>4. ASSUME NEW r \in Requests, NEW v \in Vendors, CreateFromLead(r, v)
      PROVE  LeadTypes' /\ LeadsMatch' /\ RowInv'
  BY <1>1, <1>4, CreateStep
<1>5. ASSUME NEW r \in Requests, LinkWrite(r) PROVE LeadTypes' /\ LeadsMatch' /\ RowInv'
  BY <1>5, LinkStep
<1>6. ASSUME NEW l \in Leads, SetStage(l) PROVE LeadTypes' /\ LeadsMatch' /\ RowInv'
  <2>1. PICK converted \in BOOLEAN :
          /\ converted => lead[l].vendor # None
          /\ lead' = [lead EXCEPT ![l].converted = converted]
    BY <1>6 DEF SetStage
  <2>2. born' = born /\ stale' = stale /\ vendor' = vendor BY <1>6 DEF SetStage
  <2>3. lead[l] \in Lead BY DEF TypeOK
  <2>4. /\ [lead[l] EXCEPT !.converted = converted] \in Lead
        /\ [lead[l] EXCEPT !.converted = converted].vendor = lead[l].vendor
        /\ [lead[l] EXCEPT !.converted = converted].converted = converted
    BY <2>3 DEF Lead
  <2>5. LeadTypes' BY <2>1, <2>2, <2>4 DEF LeadTypes, TypeOK
  <2>6. \A m \in Leads :
          /\ lead'[m].vendor = lead[m].vendor
          /\ lead'[m].converted => lead[m].converted \/ lead[m].vendor # None
    BY <2>1, <2>4 DEF TypeOK
  <2>7. \A w \in Vendors : born[w] \in Leads \cup {None} BY DEF TypeOK
  <2>8. LeadsMatch' BY <2>2, <2>6, <2>7 DEF LeadsMatch
  <2>9. RowInv' BY <2>2, <2>6 DEF RowInv, Exists
  <2> QED BY <2>5, <2>8, <2>9
<1> QED BY <1>3, <1>4, <1>5, <1>6, LeadMoves

-----------------------------------------------------------------------------
(* Types *)

(* The row is locked: whoever starts a decision finds no other one under way. *)
LEMMA LockStep ==
    ASSUME TypeOK, [Next]_vars, NEW r \in Requests, NEW q \in Requests,
           request'[r].kind = "DECIDE", request'[q].kind = "DECIDE",
           request'[r].vendor = request'[q].vendor
    PROVE  r = q
<1>1. ASSUME NEW x \in Requests, NEW y \in Requests, request'[y] = request[y],
             request'[x].kind = "DECIDE", request'[y].kind = "DECIDE",
             request'[x].vendor = request'[y].vendor
      PROVE  x = y
  <2>1. request[x] \in Request BY DEF TypeOK
  <2>2. CASE request'[x] = request[x] BY <1>1, <2>2 DEF TypeOK
  <2>3. ASSUME NEW v \in Vendors, NEW to \in {"PENDING_VERIFICATION", "ACTIVE"}, Holds(v),
               request'[x] = [kind |-> "DECIDE", vendor |-> v, to |-> to, read |-> "KYC"]
        PROVE  FALSE
    BY <1>1, <2>3 DEF Holds, Free
  <2>4. CASE request[x].kind = "DECIDE" /\ request'[x] = [request[x] EXCEPT !.read = "ALL"]
    <3>1. request'[x].vendor = request[x].vendor BY <2>1, <2>4, RequestFields
    <3> QED BY <1>1, <2>4, <3>1 DEF TypeOK
  <2>5. RequestMove(x) BY RequestMoves
  <2> QED BY <1>1, <2>2, <2>3, <2>4, <2>5, KindOfMove
<1>2. r # q => request'[r] = request[r] \/ request'[q] = request[q] BY RequestMoves
<1> QED BY <1>1, <1>2

RestTypes ==
    /\ history \in [Vendors -> Seq([old : Pcts, new : Pcts])]
    /\ approval \in [Approvals -> Approval]
    /\ today \in Days

LEMMA RestStep ==
    ASSUME TypeOK, [Next]_vars
    PROVE  RestTypes'
<1> USE DEF TypeOK, RestTypes
<1>1. ASSUME NEW v \in Vendors, Create(v) PROVE RestTypes'
  BY <1>1 DEF Create, Draft, FileUnchanged
<1>2. ASSUME NEW r \in Requests, NEW l \in Leads, CreateCheck(r, l) PROVE RestTypes'
  BY <1>2 DEF CreateCheck, Ask, FileUnchanged
<1>3. ASSUME NEW r \in Requests, NEW v \in Vendors, CreateFromLead(r, v) PROVE RestTypes'
  BY <1>3 DEF CreateFromLead, Draft, Done, FileUnchanged
<1>4. ASSUME NEW r \in Requests, NEW l \in Leads, NEW v \in Vendors, LinkCheck(r, l, v)
      PROVE  RestTypes'
  BY <1>4 DEF LinkCheck, Ask, FileUnchanged
<1>5. ASSUME NEW r \in Requests, LinkWrite(r) PROVE RestTypes'
  BY <1>5 DEF LinkWrite, Done, FileUnchanged
<1>24. ASSUME NEW r \in Requests, LinkTwin(r) PROVE RestTypes'
  BY <1>24 DEF LinkTwin, FileUnchanged
<1>6. ASSUME NEW r \in Requests, Drop(r) PROVE RestTypes'
  BY <1>6 DEF Drop, Done, FileUnchanged
<1>7. ASSUME NEW l \in Leads, SetStage(l) PROVE RestTypes'
  BY <1>7 DEF SetStage, FileUnchanged
<1>8. ASSUME NEW v \in Vendors, NEW k \in Kinds, NEW validTo \in Days \cup {None}, Upload(v, k, validTo)
      PROVE  RestTypes'
  BY <1>8 DEF Upload, RowsUnchanged
<1>9. ASSUME NEW v \in Vendors, NEW k \in Kinds, NEW status \in {"VERIFIED", "REJECTED"}, Decide(v, k, status)
      PROVE  RestTypes'
  BY <1>9 DEF Decide, RowsUnchanged
<1>10. ASSUME NEW r \in Requests, NEW v \in Vendors, NEW to \in {"PENDING_VERIFICATION", "ACTIVE"}, StartDecision(r, v, to)
       PROVE  RestTypes'
  BY <1>10 DEF StartDecision, Ask, StandingOnly
<1>11. ASSUME NEW r \in Requests, ReadDocuments(r) PROVE RestTypes'
  BY <1>11 DEF ReadDocuments, StandingOnly
<1>12. ASSUME NEW r \in Requests, WriteDecision(r) PROVE RestTypes'
  BY <1>12 DEF WriteDecision, Done, StandingOnly
<1>13. ASSUME NEW v \in Vendors, Suspend(v) PROVE RestTypes'
  BY <1>13 DEF Suspend, StandingOnly
<1>14. ASSUME NEW v \in Vendors, Reinstate(v) PROVE RestTypes'
  BY <1>14 DEF Reinstate, StandingOnly
<1>15. ASSUME NEW v \in Vendors, Update(v) PROVE RestTypes'
  BY <1>15 DEF Update, Edit, StandingOnly
<1>16. ASSUME NEW r \in Requests, NEW v \in Vendors, NEW b \in Branches, UpdateCheck(r, v, b)
       PROVE  RestTypes'
  BY <1>16 DEF UpdateCheck, Ask, StandingOnly
<1>17. ASSUME NEW r \in Requests, UpdateWrite(r) PROVE RestTypes'
  BY <1>17 DEF UpdateWrite, Edit, Done, StandingOnly
<1>18. ASSUME NEW a \in Approvals, NEW v \in Vendors, NEW pct \in Pcts, AskPolicy(a, v, pct)
       PROVE  RestTypes'
  BY <1>18 DEF AskPolicy, Raise, Approval
<1>19. ASSUME NEW a \in Approvals, NEW v \in Vendors, NEW b \in Branches, AskBranch(a, v, b)
       PROVE  RestTypes'
  BY <1>19 DEF AskBranch, Raise, Approval
<1>20. ASSUME NEW a \in Approvals, Approve(a) PROVE RestTypes'
  <2>1. approval[a] \in Approval /\ approval[a].kind # "NONE" BY <1>20 DEF Approve, Waiting
  <2> DEFINE w == approval[a].vendor
             to == approval[a].to
             done == [approval[a] EXCEPT !.status = "APPROVED"]
  <2>2. w \in Vendors /\ done \in Approval BY <2>1, ApprovalFields
  <2>3. approval' = [approval EXCEPT ![a] = done] /\ today' = today BY <1>20 DEF Approve
  <2>4. \/ UNCHANGED history
        \/ to \in Pcts /\ history' = [history EXCEPT ![w] = Append(history[w], [old |-> vendor[w].pct, new |-> to])]
    BY <1>20, <2>1, ApprovalFields DEF Approve
  <2>5. vendor[w].pct \in Pcts BY <2>2 DEF Vendor
  <2>6. history[w] \in Seq([old : Pcts, new : Pcts]) BY <2>2
  <2> HIDE DEF w, to, done
  <2>7. to \in Pcts => Append(history[w], [old |-> vendor[w].pct, new |-> to]) \in Seq([old : Pcts, new : Pcts])
    BY <2>5, <2>6, AppendProperties
  <2>8. history' \in [Vendors -> Seq([old : Pcts, new : Pcts])] BY <2>2, <2>4, <2>7
  <2> QED BY <2>2, <2>3, <2>8
<1>21. ASSUME NEW a \in Approvals, Reject(a) PROVE RestTypes'
  <2>1. approval[a] \in Approval /\ approval[a].kind # "NONE" BY <1>21 DEF Reject, Waiting
  <2>2. [approval[a] EXCEPT !.status = "REJECTED"] \in Approval BY <2>1, ApprovalFields
  <2>3. /\ approval' = [approval EXCEPT ![a] = [approval[a] EXCEPT !.status = "REJECTED"]]
        /\ history' = history /\ today' = today
    BY <1>21 DEF Reject
  <2>4. approval' \in [Approvals -> Approval] BY <2>2, <2>3
  <2> QED BY <2>3, <2>4
<1>22. ASSUME Tick PROVE RestTypes'
  <2>1. today' \in Days BY <1>22, DaysAssumption DEF Tick, Days
  <2>2. history' = history /\ approval' = approval BY <1>22 DEF Tick
  <2> QED BY <2>1, <2>2
<1>23. CASE UNCHANGED vars
  BY <1>23 DEF vars
<1> QED BY <1>1, <1>2, <1>3, <1>4, <1>5, <1>6, <1>7, <1>8, <1>9, <1>10, <1>11, <1>12, <1>13,
           <1>14, <1>15, <1>16, <1>17, <1>18, <1>19, <1>20, <1>21, <1>22, <1>23, <1>24
        DEF Next, Onboarding, Papers, Standing, Terms

LEMMA TypeStep == IInv /\ [Next]_vars => TypeOK'
<1> SUFFICES ASSUME IInv, [Next]_vars PROVE TypeOK' OBVIOUS
<1> USE DEF IInv
<1>1. LeadTypes' BY LeadsStep
<1>2. vendor' \in [Vendors -> Vendor] BY VendorMoves
<1>3. paper' \in [Vendors -> [Kinds -> Paper]] /\ proven' \in [Vendors -> SUBSET Kinds]
  BY PaperMoves
<1>4. request' \in [Requests -> Request] BY RequestMoves
<1>5. RestTypes' BY RestStep
<1>6. \A r, q \in Requests :
         request'[r].kind = "DECIDE" /\ request'[q].kind = "DECIDE"
           /\ request'[r].vendor = request'[q].vendor => r = q
  BY LockStep
<1> QED BY <1>1, <1>2, <1>3, <1>4, <1>5, <1>6 DEF TypeOK, LeadTypes, RestTypes

-----------------------------------------------------------------------------
LEMMA InductiveInit == Init => IInv
<1> SUFFICES ASSUME Init PROVE IInv OBVIOUS
<1>1. PICK s \in Starts : lead = s.lead /\ vendor = s.vendor /\ paper = s.paper BY DEF Init
<1>2. s \in Start BY StartsAssumption
<1>3. /\ lead \in [Leads -> Lead] /\ vendor \in [Vendors -> Vendor]
      /\ paper \in [Vendors -> [Kinds -> Paper]]
  BY <1>1, <1>2 DEF Start
<1>4. \A r \in Requests : request[r] = Idle BY DEF Init
<1>5. request \in [Requests -> Request] BY DEF Init, Request, Idle
<1>6. approval \in [Approvals -> Approval] BY DEF Init, Approval
<1>7. history \in [Vendors -> Seq([old : Pcts, new : Pcts])] BY EmptySeq DEF Init
<1>8. today \in Days BY DaysAssumption DEF Init, Days
<1>9. /\ proven = [v \in Vendors |-> {k \in Kinds : Verified(v, k)}]
      /\ born = [v \in Vendors |-> None] /\ stale = {}
  BY DEF Init
<1>10. TypeOK
  <2>1. proven \in [Vendors -> SUBSET Kinds] /\ born \in [Vendors -> Leads \cup {None}] /\ stale \subseteq Leads
    BY <1>9
  <2>2. \A r \in Requests : request[r].kind # "DECIDE" BY <1>4 DEF Idle
  <2> QED BY <1>3, <1>5, <1>6, <1>7, <1>8, <2>1, <2>2 DEF TypeOK
<1>11. VerifiedIsProven BY <1>9 DEF VerifiedIsProven
<1>12. ReadInv /\ LookInv BY <1>4 DEF ReadInv, LookInv, Idle
<1>13. RowInv BY <1>1, <1>9, StartsAssumption DEF RowInv, Exists
<1>14. ClearedOnPapers
  <2> SUFFICES ASSUME NEW v \in Vendors, vendor[v].status \in Decided
               PROVE  Identity \cup Always \subseteq proven[v] /\ Legal \cap proven[v] # {}
    BY DEF ClearedOnPapers
  <2>1. /\ \A k \in Identity \cup Always : Verified(v, k)
        /\ \E k \in Legal : Verified(v, k)
    BY <1>1, StartsAssumption DEF Verified
  <2> QED BY <1>9, <2>1 DEF Kinds, Documents
<1>15. LeadsMatch BY <1>1, <1>9, StartsAssumption DEF LeadsMatch
<1> QED BY <1>10, <1>11, <1>12, <1>13, <1>14, <1>15 DEF IInv

LEMMA InductiveStep == IInv /\ [Next]_vars => IInv'
<1> SUFFICES ASSUME IInv, [Next]_vars PROVE IInv' OBVIOUS
<1> USE DEF IInv
<1>1. TypeOK' BY TypeStep
<1>2. VerifiedIsProven' BY PaperMoves
<1>3. ReadInv' BY ReadStep
<1>4. LookInv' BY LookStep
<1>5. LeadsMatch' /\ RowInv' BY LeadsStep
<1>6. ClearedOnPapers' BY ClearedStep
<1> QED BY <1>1, <1>2, <1>3, <1>4, <1>5, <1>6

LEMMA Inductive == Spec => []IInv
  BY InductiveInit, InductiveStep, PTL DEF Spec

(* Every handler of leads, papers, standing and terms leaves its rows well     *)
(* formed, and the lock lets one decision on a transporter through at a time.  *)
THEOREM TypeCorrect == Spec => []TypeOK
<1>1. IInv => TypeOK BY DEF IInv
<1> QED BY Inductive, <1>1, PTL

(* activate, and every way back onto the panel, stands on papers Compliance    *)
(* verified, however uploads and verdicts fall between its two reads.       *)
THEOREM ClearedOnProvenPapers == Spec => []ClearedOnPapers
<1>1. IInv => ClearedOnPapers BY DEF IInv
<1> QED BY Inductive, <1>1, PTL

(* create's second look under the lock, and a link's checks while nothing      *)
(* crosses it, keep leads and transporters matched one to one.              *)
THEOREM LeadsStayMatched == Spec => []LeadsMatch
<1>1. IInv => LeadsMatch BY DEF IInv
<1> QED BY Inductive, <1>1, PTL

-----------------------------------------------------------------------------
(* The readers of the papers *)

LEMMA Lapsed ==
    ASSUME NEW t \in Int \cup {None}, NEW day \in Int
    PROVE  StateOn(t, day) = "EXPIRED" <=> t # None /\ t < day
<1>1. CASE t = None BY <1>1 DEF StateOn
<1>2. CASE t # None
  <2>1. t - day < 0 <=> t < day BY <1>2
  <2> QED BY <1>2, <2>1 DEF StateOn
<1> QED BY <1>1, <1>2

(* A lapsed paper is counted the same from the list of all documents, from     *)
(* the sweep's query and by the comparison of dates.                        *)
LEMMA LapsedAlike ==
    ASSUME TypeOK, NEW v \in Vendors, vendor[v].status = "ACTIVE", NEW k \in Legal
    PROVE  /\ k \in InState(v, Documents, "EXPIRED", today) <=> k \in SweptIn(v, "EXPIRED")
           /\ k \in InState(v, Documents, "EXPIRED", today) <=> ShownExpired(v, k)
<1>1. k \in Kinds /\ k \in Documents BY DEF Kinds, Documents
<1>2. paper[v][k] \in Paper BY <1>1 DEF TypeOK
<1>3. paper[v][k].validTo \in Int \cup {None} /\ today \in Int
  BY <1>2, DaysAssumption DEF Paper, TypeOK, Days
<1>4. StateOn(paper[v][k].validTo, today) = "EXPIRED"
        <=> paper[v][k].validTo # None /\ paper[v][k].validTo < today
  BY <1>3, Lapsed
<1> QED BY <1>1, <1>4 DEF InState, SweptIn, Swept, ShownExpired

(* The gate refuses an active transporter exactly when the queue blocks it and *)
(* its own page shows a legal paper as lapsed.                              *)
LEMMA RefusedAlike ==
    ASSUME TypeOK, NEW v \in Vendors, vendor[v].status = "ACTIVE"
    PROVE  /\ AwardRefused(v, today) <=> \E k \in Legal : ShownExpired(v, k)
           /\ AwardRefused(v, today) <=> BlockedInQueue(v)
<1>1. AwardRefused(v, today) <=> InState(v, Documents, "EXPIRED", today) # {}
  BY DEF AwardRefused
<1>2. InState(v, Documents, "EXPIRED", today) \subseteq Legal /\ SweptIn(v, "EXPIRED") \subseteq Legal
  BY DEF InState, SweptIn, Swept
<1>3. InState(v, Documents, "EXPIRED", today) = SweptIn(v, "EXPIRED")
  BY <1>2, LapsedAlike
<1>4. InState(v, Documents, "EXPIRED", today) # {} <=> \E k \in Legal : ShownExpired(v, k)
  BY <1>2, LapsedAlike
<1> QED BY <1>1, <1>3, <1>4 DEF BlockedInQueue

(* A paper's date moves with an upload, which leaves it unverified, and the    *)
(* day by one at most.                                                      *)
LEMMA DateMoves ==
    ASSUME TypeOK, [Next]_vars, NEW v \in Vendors, NEW k \in Kinds
    PROVE  /\ today' \in {today, today + 1}
           /\ today' = today \/ UNCHANGED paper
           /\ paper'[v][k].validTo = paper[v][k].validTo \/ paper'[v][k].status = "PENDING"
<1> USE DEF TypeOK
<1> DEFINE Goal == /\ today' \in {today, today + 1}
                   /\ today' = today \/ UNCHANGED paper
                   /\ paper'[v][k].validTo = paper[v][k].validTo \/ paper'[v][k].status = "PENDING"
<1>1. CASE Onboarding
  BY <1>1 DEF Onboarding, Create, Draft, CreateCheck, CreateFromLead, LinkCheck, LinkTwin, LinkWrite, Drop,
              SetStage, FileUnchanged
<1>2. ASSUME NEW w \in Vendors, NEW j \in Kinds, NEW validTo \in Days \cup {None}, Upload(w, j, validTo)
      PROVE  Goal
  <2>1. PICK kept : paper' = [paper EXCEPT ![w][j] = [status |-> "PENDING", validTo |-> kept]]
    BY <1>2 DEF Upload
  <2>2. today' = today BY <1>2 DEF Upload, RowsUnchanged
  <2> QED BY <2>1, <2>2
<1>3. ASSUME NEW w \in Vendors, NEW j \in Kinds, NEW status \in {"VERIFIED", "REJECTED"}, Decide(w, j, status)
      PROVE  Goal
  <2>1. paper[w][j] \in Paper OBVIOUS
  <2>2. [paper[w][j] EXCEPT !.status = status].validTo = paper[w][j].validTo BY <2>1 DEF Paper
  <2>3. paper' = [paper EXCEPT ![w][j] = [paper[w][j] EXCEPT !.status = status]] /\ today' = today
    BY <1>3 DEF Decide, RowsUnchanged
  <2> QED BY <2>2, <2>3
<1>4. CASE Standing
  BY <1>4 DEF Standing, StartDecision, ReadDocuments, WriteDecision, Suspend, Reinstate, StandingOnly
<1>5. CASE Terms
  BY <1>5 DEF Terms, Update, UpdateCheck, UpdateWrite, AskPolicy, AskBranch, Raise, Approve, Reject, StandingOnly
<1>6. CASE Tick BY <1>6 DEF Tick
<1>7. CASE UNCHANGED vars BY <1>7 DEF vars
<1> QED BY <1>1, <1>2, <1>3, <1>4, <1>5, <1>6, <1>7 DEF Next, Papers

LEMMA LapseStep ==
    ASSUME TypeOK, TypeOK', [Next]_vars, NEW v \in Vendors,
           vendor[v].status = "ACTIVE", vendor'[v].status = "ACTIVE"
    PROVE  /\ \A k \in Documents \ {Tds} : ~ShownExpired(v, k) /\ ShownExpired(v, k)' =>
                /\ AwardRefused(v, today)' /\ BlockedInQueue(v)'
                /\ k \in SweptIn(v, "EXPIRING_SOON") \/ ~Verified(v, k)
           /\ ~AwardRefused(v, today) /\ AwardRefused(v, today)' =>
                \E k \in Legal : ~ShownExpired(v, k) /\ ShownExpired(v, k)'
<1>1. /\ AwardRefused(v, today) <=> \E k \in Legal : ShownExpired(v, k)
      /\ (AwardRefused(v, today) <=> \E k \in Legal : ShownExpired(v, k))'
      /\ (AwardRefused(v, today) <=> BlockedInQueue(v))'
  <2>1. (vendor[v].status = "ACTIVE")' OBVIOUS
  <2> QED BY <2>1, RefusedAlike, PTL
<1>2. ASSUME NEW k \in Documents \ {Tds}, ~ShownExpired(v, k), ShownExpired(v, k)', Verified(v, k)
      PROVE  k \in SweptIn(v, "EXPIRING_SOON")
  <2>1. k \in Legal /\ k \in Kinds BY <1>2 DEF ShownExpired, Kinds, Documents
  <2>2. /\ today' \in {today, today + 1} /\ (today' = today \/ UNCHANGED paper)
        /\ paper'[v][k].validTo = paper[v][k].validTo \/ paper'[v][k].status = "PENDING"
    BY <2>1, DateMoves
  <2>3. paper'[v][k].status = "VERIFIED" /\ paper'[v][k].validTo # None /\ paper'[v][k].validTo < today'
    BY <1>2 DEF ShownExpired, Verified
  <2>4. paper[v][k].validTo # None /\ paper[v][k].validTo = paper'[v][k].validTo
    BY <2>2, <2>3
  <2>5. paper[v][k] \in Paper BY <2>1 DEF TypeOK
  <2>6. paper[v][k].validTo \in Int /\ today \in Int /\ Warn \in Nat
    BY <2>4, <2>5, DaysAssumption DEF Paper, TypeOK, Days
  <2>7. ~ (paper[v][k].validTo < today) BY <1>2, <2>1, <2>4 DEF ShownExpired
  <2>8. paper[v][k].validTo - today = 0 BY <2>2, <2>3, <2>4, <2>6, <2>7
  <2>9. StateOn(paper[v][k].validTo, today) = "EXPIRING_SOON" BY <2>4, <2>6, <2>8 DEF StateOn
  <2> QED BY <1>2, <2>1, <2>4, <2>9 DEF SweptIn, Swept
<1>3. ASSUME NEW k \in Documents \ {Tds}, ShownExpired(v, k)' PROVE AwardRefused(v, today)' /\ BlockedInQueue(v)'
  <2>1. k \in Legal BY <1>3 DEF ShownExpired
  <2> QED BY <1>1, <1>3, <2>1
<1> QED BY <1>1, <1>2, <1>3

(* applyAward, the nightly audit, the compliance queue and the transporter's   *)
(* own page move together from one step to the next, and only for a paper the *)
(* queue has chased or a verdict given too late; what the page shows of the   *)
(* declaration is left out, for it stops nothing.                           *)
THEOREM LapsesAreChased == Spec => LapseWasChased
<1>1. TypeOK /\ TypeOK' /\ [Next]_vars =>
        [\A v \in Vendors : vendor[v].status = "ACTIVE" /\ vendor'[v].status = "ACTIVE" =>
           /\ \A k \in Documents \ {Tds} : ~ShownExpired(v, k) /\ ShownExpired(v, k)' =>
                /\ AwardRefused(v, today)' /\ BlockedInQueue(v)'
                /\ k \in SweptIn(v, "EXPIRING_SOON") \/ ~Verified(v, k)
           /\ ~AwardRefused(v, today) /\ AwardRefused(v, today)' =>
                \E k \in Legal : ~ShownExpired(v, k) /\ ShownExpired(v, k)']_vars
  BY LapseStep
<1> QED BY TypeCorrect, <1>1, PTL DEF Spec, LapseWasChased

(* No transporter is refused at the award without having stood in the audit's  *)
(* queue for all the days of the warning that its papers were there.        *)
THEOREM NobodyUnwarned == Spec => []WarnedInTime
<1>1. TypeOK => WarnedInTime
  <2> SUFFICES ASSUME TypeOK, NEW v \in Vendors, NEW d \in 0..(Warn + 1),
                      vendor[v].status = "ACTIVE", AwardRefused(v, today + d)
               PROVE  InQueue(v)
    BY DEF WarnedInTime
  <2>1. PICK k \in Documents \cap Legal :
               Verified(v, k) /\ StateOn(paper[v][k].validTo, today + d) = "EXPIRED"
    BY DEF AwardRefused, InState
  <2> DEFINE t == paper[v][k].validTo
  <2>2. t # None /\ t - (today + d) < 0 BY <2>1 DEF StateOn
  <2>3. paper[v][k] \in Paper BY <2>1 DEF TypeOK, Kinds
  <2>4. t \in Int /\ today \in Int /\ d \in Int /\ Warn \in Int /\ d <= Warn + 1
    BY <2>2, <2>3, DaysAssumption DEF Paper, TypeOK, Days
  <2>5. t - today <= Warn BY <2>2, <2>4
  <2> HIDE DEF t
  <2>6. StateOn(t, today) \in {"EXPIRED", "EXPIRING_SOON"} BY <2>2, <2>5 DEF StateOn
  <2>7. k \in Swept(v) BY <2>1, <2>2 DEF Swept, t
  <2> QED BY <2>6, <2>7 DEF InQueue, SweptIn, t
<1> QED BY TypeCorrect, <1>1, PTL

-----------------------------------------------------------------------------
(* Terms *)

(* What a step may do to the advance and the branch of a transporter. *)
PolicyMove(v) ==
    \/ vendor'[v].pct = vendor[v].pct \/ vendor[v].status # "ACTIVE"
    \/ \E a \in Approvals :
         /\ Waiting(a) /\ approval[a].kind = "ADVANCE_POLICY_CHANGE" /\ approval[a].vendor = v
         /\ approval'[a].status = "APPROVED" /\ approval[a].to = vendor'[v].pct
         /\ history'[v] = Append(history[v], [old |-> vendor[v].pct, new |-> vendor'[v].pct])

BranchMove(v) ==
    \/ vendor'[v].branch = vendor[v].branch \/ vendor[v].status = "NONE"
    \/ \E a \in Approvals :
         /\ Waiting(a) /\ approval[a].kind = "BRANCH_OVERRIDE" /\ approval[a].vendor = v
         /\ approval'[a].status = "APPROVED" /\ approval[a].to = vendor'[v].branch
    \/ \E r \in Requests :
         /\ request[r].kind = "UPDATE" /\ request[r].vendor = v
         /\ request[r].branch = vendor'[v].branch

TermsMove(v) == PolicyMove(v) /\ BranchMove(v)

LEMMA EditedTerms ==
    ASSUME TypeOK, NEW v \in Vendors, NEW b \in Branches, Edit(v, b), NEW w \in Vendors
    PROVE  PolicyMove(w) /\ vendor'[w].branch = IF w = v THEN b ELSE vendor[w].branch
<1>1. PICK party \in {"OWNER", "VENDOR"}, pct \in Pcts :
        /\ vendor[v].status = "ACTIVE" => pct = vendor[v].pct
        /\ vendor' = [vendor EXCEPT ![v] = [@ EXCEPT !.party = party, !.branch = b, !.pct = pct]]
  BY DEF Edit
<1> DEFINE row == [vendor[v] EXCEPT !.party = party, !.branch = b, !.pct = pct]
<1>2. vendor[v] \in Vendor BY DEF TypeOK
<1>3. row.pct = pct /\ row.branch = b BY <1>2 DEF Vendor
<1>4. vendor' = [vendor EXCEPT ![v] = row] BY <1>1
<1> HIDE DEF row
<1>5. vendor'[w] = IF w = v THEN row ELSE vendor[w] BY <1>4 DEF TypeOK
<1> QED BY <1>1, <1>3, <1>5 DEF PolicyMove

LEMMA StatusTerms ==
    ASSUME TypeOK, NEW v \in Vendors, NEW s \in Statuses,
           vendor' = [vendor EXCEPT ![v].status = s]
    PROVE  \A w \in Vendors : TermsMove(w)
<1>1. vendor[v] \in Vendor BY DEF TypeOK
<1>2. /\ [vendor[v] EXCEPT !.status = s].pct = vendor[v].pct
      /\ [vendor[v] EXCEPT !.status = s].branch = vendor[v].branch
  BY <1>1 DEF Vendor
<1>3. \A w \in Vendors : vendor'[w].pct = vendor[w].pct /\ vendor'[w].branch = vendor[w].branch
  BY <1>2 DEF TypeOK
<1> QED BY <1>3 DEF TermsMove, PolicyMove, BranchMove

LEMMA TermsMoves ==
    ASSUME TypeOK, [Next]_vars
    PROVE  \A w \in Vendors : TermsMove(w)
<1> DEFINE Goal == \A w \in Vendors : TermsMove(w)
<1>1. ASSUME NEW v \in Vendors, Create(v) PROVE Goal
  BY <1>1 DEF Create, Draft, FileUnchanged, TypeOK, TermsMove, PolicyMove, BranchMove
<1>2. ASSUME NEW r \in Requests, NEW l \in Leads, CreateCheck(r, l) PROVE Goal
  BY <1>2 DEF CreateCheck, Ask, FileUnchanged, TypeOK, TermsMove, PolicyMove, BranchMove
<1>3. ASSUME NEW r \in Requests, NEW v \in Vendors, CreateFromLead(r, v) PROVE Goal
  BY <1>3 DEF CreateFromLead, Draft, Done, FileUnchanged, TypeOK, TermsMove, PolicyMove, BranchMove
<1>4. ASSUME NEW r \in Requests, NEW l \in Leads, NEW v \in Vendors, LinkCheck(r, l, v)
      PROVE  Goal
  BY <1>4 DEF LinkCheck, Ask, FileUnchanged, TypeOK, TermsMove, PolicyMove, BranchMove
<1>5. ASSUME NEW r \in Requests, LinkWrite(r) PROVE Goal
  BY <1>5 DEF LinkWrite, Done, FileUnchanged, TypeOK, TermsMove, PolicyMove, BranchMove
<1>24. ASSUME NEW r \in Requests, LinkTwin(r) PROVE Goal
  BY <1>24 DEF LinkTwin, FileUnchanged, TypeOK, TermsMove, PolicyMove, BranchMove
<1>6. ASSUME NEW r \in Requests, Drop(r) PROVE Goal
  BY <1>6 DEF Drop, Done, FileUnchanged, TypeOK, TermsMove, PolicyMove, BranchMove
<1>7. ASSUME NEW l \in Leads, SetStage(l) PROVE Goal
  BY <1>7 DEF SetStage, FileUnchanged, TypeOK, TermsMove, PolicyMove, BranchMove
<1>8. ASSUME NEW v \in Vendors, NEW k \in Kinds, NEW validTo \in Days \cup {None}, Upload(v, k, validTo)
      PROVE  Goal
  BY <1>8 DEF Upload, RowsUnchanged, TypeOK, TermsMove, PolicyMove, BranchMove
<1>9. ASSUME NEW v \in Vendors, NEW k \in Kinds, NEW status \in {"VERIFIED", "REJECTED"}, Decide(v, k, status)
      PROVE  Goal
  BY <1>9 DEF Decide, RowsUnchanged, TypeOK, TermsMove, PolicyMove, BranchMove
<1>10. ASSUME NEW r \in Requests, NEW v \in Vendors, NEW to \in {"PENDING_VERIFICATION", "ACTIVE"}, StartDecision(r, v, to)
       PROVE  Goal
  BY <1>10 DEF StartDecision, Ask, StandingOnly, TypeOK, TermsMove, PolicyMove, BranchMove
<1>11. ASSUME NEW r \in Requests, ReadDocuments(r) PROVE Goal
  BY <1>11 DEF ReadDocuments, StandingOnly, TypeOK, TermsMove, PolicyMove, BranchMove
<1>12. ASSUME NEW r \in Requests, WriteDecision(r) PROVE Goal
  <2>1. request[r] \in Request /\ request[r].kind = "DECIDE" BY <1>12 DEF WriteDecision, TypeOK
  <2>2. request[r].vendor \in Vendors /\ request[r].to \in Statuses BY <2>1, RequestFields DEF Statuses
  <2>3. vendor' = [vendor EXCEPT ![request[r].vendor].status = request[r].to] BY <1>12 DEF WriteDecision
  <2> QED BY <2>2, <2>3, StatusTerms
<1>13. ASSUME NEW v \in Vendors, Suspend(v) PROVE Goal
  <2> QED BY <1>13, StatusTerms DEF Suspend, Statuses
<1>14. ASSUME NEW v \in Vendors, Reinstate(v) PROVE Goal
  <2> QED BY <1>14, StatusTerms DEF Reinstate, Statuses
<1>15. ASSUME NEW v \in Vendors, Update(v) PROVE Goal
  <2>1. Edit(v, vendor[v].branch) /\ vendor[v].branch \in Branches BY <1>15 DEF Update, Vendor, TypeOK
  <2>2. \A w \in Vendors : PolicyMove(w) /\ vendor'[w].branch = vendor[w].branch
    BY <2>1, EditedTerms
  <2> QED BY <2>2 DEF BranchMove, TermsMove
<1>16. ASSUME NEW r \in Requests, NEW v \in Vendors, NEW b \in Branches, UpdateCheck(r, v, b)
       PROVE  Goal
  BY <1>16 DEF UpdateCheck, Ask, StandingOnly, TypeOK, TermsMove, PolicyMove, BranchMove
<1>17. ASSUME NEW r \in Requests, UpdateWrite(r) PROVE Goal
  <2>1. request[r] \in Request /\ request[r].kind = "UPDATE" BY <1>17 DEF UpdateWrite, TypeOK
  <2>2. request[r].vendor \in Vendors /\ request[r].branch \in Branches BY <2>1, RequestFields
  <2>3. Edit(request[r].vendor, request[r].branch) BY <1>17 DEF UpdateWrite
  <2>4. ASSUME NEW w \in Vendors PROVE TermsMove(w)
    <3>1. /\ PolicyMove(w)
          /\ vendor'[w].branch = IF w = request[r].vendor THEN request[r].branch ELSE vendor[w].branch
      BY <2>2, <2>3, EditedTerms
    <3>2. BranchMove(w) BY <2>1, <3>1 DEF BranchMove
    <3> QED BY <3>1, <3>2 DEF TermsMove
  <2> QED BY <2>4
<1>18. ASSUME NEW a \in Approvals, NEW v \in Vendors, NEW pct \in Pcts, AskPolicy(a, v, pct)
       PROVE  Goal
  BY <1>18 DEF AskPolicy, Raise, TypeOK, TermsMove, PolicyMove, BranchMove
<1>19. ASSUME NEW a \in Approvals, NEW v \in Vendors, NEW b \in Branches, AskBranch(a, v, b)
       PROVE  Goal
  BY <1>19 DEF AskBranch, Raise, TypeOK, TermsMove, PolicyMove, BranchMove
<1>20. ASSUME NEW a \in Approvals, Approve(a) PROVE Goal
  <2>1. approval[a] \in Approval /\ approval[a].kind # "NONE" BY <1>20 DEF Approve, Waiting, TypeOK
  <2> DEFINE w == approval[a].vendor
             to == approval[a].to
  <2>2. w \in Vendors /\ vendor[w] \in Vendor BY <2>1, ApprovalFields DEF TypeOK
  <2>3. Waiting(a) /\ approval'[a].status = "APPROVED"
    BY <1>20, <2>1, ApprovalFields DEF Approve, TypeOK
  <2>4. ASSUME approval[a].kind = "ADVANCE_POLICY_CHANGE", vendor' = [vendor EXCEPT ![w].pct = to],
               history' = [history EXCEPT ![w] = Append(history[w], [old |-> vendor[w].pct, new |-> to])],
               NEW x \in Vendors
        PROVE  TermsMove(x)
    <3>1. /\ [vendor[w] EXCEPT !.pct = to].pct = to
          /\ [vendor[w] EXCEPT !.pct = to].branch = vendor[w].branch
      BY <2>2 DEF Vendor
    <3>2. /\ vendor'[x].branch = vendor[x].branch
          /\ vendor'[x].pct = IF x = w THEN to ELSE vendor[x].pct
      BY <2>2, <2>4, <3>1 DEF TypeOK
    <3>3. history'[w] = Append(history[w], [old |-> vendor[w].pct, new |-> to]) BY <2>2, <2>4 DEF TypeOK
    <3>4. BranchMove(x) /\ PolicyMove(x) BY <2>2, <2>3, <2>4, <3>2, <3>3 DEF PolicyMove, BranchMove
    <3> QED BY <3>4 DEF TermsMove
  <2>5. ASSUME approval[a].kind = "BRANCH_OVERRIDE", vendor' = [vendor EXCEPT ![w].branch = to],
               NEW x \in Vendors
        PROVE  TermsMove(x)
    <3>1. /\ [vendor[w] EXCEPT !.branch = to].branch = to
          /\ [vendor[w] EXCEPT !.branch = to].pct = vendor[w].pct
      BY <2>2 DEF Vendor
    <3>2. /\ vendor'[x].pct = vendor[x].pct
          /\ vendor'[x].branch = IF x = w THEN to ELSE vendor[x].branch
      BY <2>2, <2>5, <3>1 DEF TypeOK
    <3>4. BranchMove(x) /\ PolicyMove(x) BY <2>2, <2>3, <2>5, <3>2 DEF PolicyMove, BranchMove
    <3> QED BY <3>4 DEF TermsMove
  <2> QED BY <1>20, <2>4, <2>5 DEF Approve
<1>21. ASSUME NEW a \in Approvals, Reject(a) PROVE Goal
  BY <1>21 DEF Reject, TypeOK, TermsMove, PolicyMove, BranchMove
<1>22. ASSUME Tick PROVE Goal
  BY <1>22 DEF Tick, TypeOK, TermsMove, PolicyMove, BranchMove
<1>23. CASE UNCHANGED vars
  BY <1>23 DEF vars, TypeOK, TermsMove, PolicyMove, BranchMove
<1> QED BY <1>1, <1>2, <1>3, <1>4, <1>5, <1>6, <1>7, <1>8, <1>9, <1>10, <1>11, <1>12, <1>13,
           <1>14, <1>15, <1>16, <1>17, <1>18, <1>19, <1>20, <1>21, <1>22, <1>23, <1>24
        DEF Next, Onboarding, Papers, Standing, Terms

(* update refuses an advance on an active transporter and patchAdvancePolicy   *)
(* only raises, so the figure moves by the handler an approval replays.       *)
THEOREM AdvanceByApproval == Spec => PolicyByApproval
<1>1. TypeOK /\ [Next]_vars =>
        [\A v \in Vendors :
           vendor[v].status = "ACTIVE" /\ vendor'[v].pct # vendor[v].pct =>
             \E a \in Approvals :
               /\ Waiting(a) /\ approval[a].kind = "ADVANCE_POLICY_CHANGE" /\ approval[a].vendor = v
               /\ approval'[a].status = "APPROVED" /\ approval[a].to = vendor'[v].pct
               /\ history'[v] = Append(history[v], [old |-> vendor[v].pct, new |-> vendor'[v].pct])]_vars
  BY TermsMoves DEF TermsMove, PolicyMove
<1> QED BY TypeCorrect, <1>1, PTL DEF Spec, PolicyByApproval

(* Past the decision, update raises when the branch would move, unless what    *)
(* it saw before its transaction has changed since.                         *)
THEOREM OverrideByApproval == Spec => BranchByApproval
<1>1. IInv /\ [Next]_vars =>
        [\A v \in Vendors :
           vendor[v].status \in Decided /\ vendor'[v].branch # vendor[v].branch =>
             \/ \E a \in Approvals :
                  /\ Waiting(a) /\ approval[a].kind = "BRANCH_OVERRIDE" /\ approval[a].vendor = v
                  /\ approval'[a].status = "APPROVED" /\ approval[a].to = vendor'[v].branch
             \/ \E r \in Requests :
                  /\ request[r].kind = "UPDATE" /\ request[r].vendor = v
                  /\ request[r].branch = vendor'[v].branch
                  /\ ~request[r].sawDecided \/ request[r].sawBranch = request[r].branch]_vars
  <2> SUFFICES ASSUME IInv, [Next]_vars, NEW v \in Vendors,
                      vendor[v].status \in Decided, vendor'[v].branch # vendor[v].branch
               PROVE  \/ \E a \in Approvals :
                           /\ Waiting(a) /\ approval[a].kind = "BRANCH_OVERRIDE" /\ approval[a].vendor = v
                           /\ approval'[a].status = "APPROVED" /\ approval[a].to = vendor'[v].branch
                      \/ \E r \in Requests :
                           /\ request[r].kind = "UPDATE" /\ request[r].vendor = v
                           /\ request[r].branch = vendor'[v].branch
                           /\ ~request[r].sawDecided \/ request[r].sawBranch = request[r].branch
    OBVIOUS
  <2>1. BranchMove(v) BY TermsMoves DEF TermsMove, IInv
  <2>2. \A r \in Requests : request[r].kind = "UPDATE" =>
           ~request[r].sawDecided \/ request[r].sawBranch = request[r].branch
    BY DEF IInv, LookInv
  <2> QED BY <2>1, <2>2 DEF BranchMove, Decided
<1> QED BY Inductive, <1>1, PTL DEF Spec, BranchByApproval
=============================================================================
