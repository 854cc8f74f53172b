------------------------------ MODULE Vendors ------------------------------
(***************************************************************************)
(* A transporter's file: the lead it came from, its papers, the decision     *)
(* that puts it on the panel, the hold, its branch and advance policy, and   *)
(* the four places that read its papers.                                    *)
(*                                                                         *)
(* Desk handlers lock the transporter's row; uploads and decisions on papers *)
(* do not.  What a handler reads before its transaction, or on another       *)
(* connection in the middle of it, is a step of its own and request holds     *)
(* what it read: the checks of an onboarding, a link and an update, and the   *)
(* two lists of papers a submission or an activation goes through.           *)
(*                                                                         *)
(* Source: apps/internal-api/src/modules/vendors, compliance, approvals.     *)
(***************************************************************************)
EXTENDS Integers, Sequences, SequencesExt

CONSTANTS
    Leads, Vendors, Branches, Pcts,
    Identity,      \* MANDATORY_KYC_KINDS
    Always,        \* ALWAYS_MANDATORY_DOCUMENT_KINDS
    Legal,         \* LEGAL_DOCUMENT_KINDS, the ones that lapse
    Rc,            \* the one of them an owner must have
    Tds,           \* TDS_DECLARATION, given for a financial year
    YearEnd,       \* the 31 March among the days
    Requests,      \* requests in flight
    Approvals,     \* approvals ever raised
    Warn,          \* EXPIRY_WARNING_DAYS, 30 in the code
    MaxDay,        \* bound on the days
    Starts,        \* the rows a history may begin with
    None

Documents == Always \cup Legal
Kinds     == Identity \cup Documents
Days      == 0..MaxDay

ASSUME KindsAssumption ==
    Rc \in Legal /\ Tds \in Always /\ Identity \cap Documents = {} /\ Always \cap Legal = {}
ASSUME NoneAssumption == None \notin Leads \cup Vendors \cup Branches \cup Days
ASSUME DaysAssumption == Warn \in Nat /\ MaxDay \in Nat /\ YearEnd \in Days

VARIABLES
    lead,       \* leads: the transporter each became, converted or not
    vendor,     \* vendors
    paper,      \* vendor_kyc and vendor_documents
    history,    \* vendor_advance_history
    approval,   \* approvals of this module's two kinds
    request,    \* requests between a read and a write
    today,
    proven,     \* ghost: the kinds Compliance has verified at some time
    born,       \* ghost: the lead a transporter was onboarded from
    stale       \* ghost: leads linked on a look that was out of date

vars == <<lead, vendor, paper, history, approval, request, today, proven, born, stale>>

Statuses == {"NONE", "DRAFT", "PENDING_VERIFICATION", "ACTIVE", "SUSPENDED"}
Decided  == {"ACTIVE", "SUSPENDED"}

Lead   == [vendor : Vendors \cup {None}, converted : BOOLEAN]
Vendor == [status : Statuses, party : {"OWNER", "VENDOR"}, branch : Branches, pct : Pcts]
Paper  == [status : {"MISSING", "PENDING", "VERIFIED", "REJECTED"}, validTo : Days \cup {None}]
Approval ==
    [kind : {"NONE"}] \cup
    [kind : {"ADVANCE_POLICY_CHANGE"}, vendor : Vendors, to : Pcts, status : {"PENDING", "APPROVED", "REJECTED"}] \cup
    [kind : {"BRANCH_OVERRIDE"}, vendor : Vendors, to : Branches, status : {"PENDING", "APPROVED", "REJECTED"}]
Request ==
    [kind : {"IDLE"}] \cup
    [kind : {"CREATE"}, lead : Leads] \cup
    [kind : {"LOOK", "LINK"}, lead : Leads, vendor : Vendors] \cup
    [kind : {"UPDATE"}, vendor : Vendors, branch : Branches, sawDecided : BOOLEAN, sawBranch : Branches] \cup
    [kind : {"DECIDE"}, vendor : Vendors, to : {"PENDING_VERIFICATION", "ACTIVE"}, read : {"KYC", "ALL"}]

Start ==
    [lead : [Leads -> Lead], vendor : [Vendors -> Vendor], paper : [Vendors -> [Kinds -> Paper]]]

(* A history begins among rows these handlers could have left.               *)
ASSUME StartsAssumption ==
    \A s \in Starts :
        /\ s \in Start
        /\ \A l \in Leads :
             /\ s.lead[l].converted => s.lead[l].vendor # None
             /\ s.lead[l].vendor # None => s.vendor[s.lead[l].vendor].status # "NONE"
        /\ \A l, m \in Leads : s.lead[l].vendor # None /\ s.lead[l].vendor = s.lead[m].vendor => l = m
        /\ \A v \in Vendors : s.vendor[v].status \in Decided =>
             /\ \A k \in Identity \cup Always : s.paper[v][k].status = "VERIFIED"
             /\ \E k \in Legal : s.paper[v][k].status = "VERIFIED"

-----------------------------------------------------------------------------
(* Reading the papers *)

(* It exists, for a submission, or is verified, for an activation. *)
Passes(status, to) == IF to = "ACTIVE" THEN status = "VERIFIED" ELSE status # "MISSING"

PassesAll(v, kinds, to) == \A k \in kinds : Passes(paper[v][k].status, to)
LegalPasses(v, to) ==
    IF vendor[v].party = "OWNER" THEN Passes(paper[v][Rc].status, to)
    ELSE \E k \in Legal : Passes(paper[v][k].status, to)

(* unmetForSubmit finds nothing missing. *)
NothingUnmet(v, to) == PassesAll(v, Identity, to) /\ PassesAll(v, Always, to) /\ LegalPasses(v, to)

Verified(v, k) == paper[v][k].status = "VERIFIED"

(* mutant: the warning starts a day late *)
StateLate(validTo, day) ==
    IF validTo = None THEN "NO_EXPIRY"
    ELSE IF validTo - day < 0 THEN "EXPIRED" ELSE IF validTo - day < Warn THEN "EXPIRING_SOON" ELSE "VALID"

(* expiryStateOf: valid to the 30th is valid on the 30th. *)
StateOn(validTo, day) ==
    IF validTo = None THEN "NO_EXPIRY"
    ELSE IF validTo - day < 0 THEN "EXPIRED" ELSE IF validTo - day <= Warn THEN "EXPIRING_SOON" ELSE "VALID"

(* vendorExpiryReport: of a list of papers, the verified legal ones in state. *)
InState(v, kinds, state, day) ==
    {k \in kinds \cap Legal : Verified(v, k) /\ StateOn(paper[v][k].validTo, day) = state}

(* The gate at the award, as it would answer on a day. *)
AwardRefused(v, day) ==
    vendor[v].status # "ACTIVE" \/ InState(v, Documents, "EXPIRED", day) # {}

(* documentsForExpirySweep, and the rows it makes of the chase queue. *)
Swept(v) == {k \in Legal : vendor[v].status = "ACTIVE" /\ Verified(v, k) /\ paper[v][k].validTo # None}
SweptIn(v, state) == {k \in Swept(v) : StateOn(paper[v][k].validTo, today) = state}
InQueue(v) == SweptIn(v, "EXPIRED") # {} \/ SweptIn(v, "EXPIRING_SOON") # {}
BlockedInQueue(v) == SweptIn(v, "EXPIRED") # {}

(* The transporter's own profile compares the dates as they are written, and *)
(* of every paper it lists: the declaration, which stops no truck, is one.  *)
ShownExpired(v, k) ==
    /\ k \in Legal \cup {Tds}
    /\ Verified(v, k) /\ paper[v][k].validTo # None /\ paper[v][k].validTo < today

-----------------------------------------------------------------------------
(* Leads and onboarding *)

Exists(v) == vendor[v].status # "NONE"
Idle      == [kind |-> "IDLE"]
Ask(r, what) == request[r] = Idle /\ request' = [request EXCEPT ![r] = what]
Done(r)      == request' = [request EXCEPT ![r] = Idle]

FileUnchanged == UNCHANGED <<paper, history, approval, today, proven>>

(* A draft: the advance may be given, the branch is derived or chosen. *)
Draft(v) ==
    /\ vendor[v].status = "NONE"
    /\ \E party \in {"OWNER", "VENDOR"}, b \in Branches, pct \in Pcts :
         vendor' = [vendor EXCEPT ![v] = [status |-> "DRAFT", party |-> party, branch |-> b, pct |-> pct]]

Create(v) ==
    /\ Draft(v)
    /\ FileUnchanged /\ UNCHANGED <<lead, request, born, stale>>

CreateCheck(r, l) ==
    /\ lead[l].vendor = None
    /\ Ask(r, [kind |-> "CREATE", lead |-> l])
    /\ FileUnchanged /\ UNCHANGED <<lead, vendor, born, stale>>

(* mutant: the lead is not looked at again under its lock *)
CreateUnchecked(r, v) ==
    /\ request[r].kind = "CREATE"
    /\ Draft(v)
    /\ lead' = [lead EXCEPT ![request[r].lead] = [vendor |-> v, converted |-> TRUE]]
    /\ born' = [born EXCEPT ![v] = request[r].lead]
    /\ Done(r)
    /\ FileUnchanged /\ UNCHANGED stale

CreateFromLead(r, v) ==
    /\ request[r].kind = "CREATE" /\ lead[request[r].lead].vendor = None
    /\ Draft(v)
    /\ lead' = [lead EXCEPT ![request[r].lead] = [vendor |-> v, converted |-> TRUE]]
    /\ born' = [born EXCEPT ![v] = request[r].lead]
    /\ Done(r)
    /\ FileUnchanged /\ UNCHANGED stale

(* A link looks at the lead, then whether the transporter is there, which it *)
(* stays, and at the leads that have it; each look is a query of its own.   *)
LinkCheck(r, l, v) ==
    /\ lead[l].vendor \in {None, v}
    /\ Ask(r, [kind |-> "LOOK", lead |-> l, vendor |-> v])
    /\ FileUnchanged /\ UNCHANGED <<lead, vendor, born, stale>>

LinkTwin(r) ==
    /\ request[r].kind = "LOOK" /\ Exists(request[r].vendor)
    /\ \A m \in Leads : lead[m].vendor = request[r].vendor => m = request[r].lead
    /\ request' = [request EXCEPT ![r] =
                     [kind |-> "LINK", lead |-> request[r].lead, vendor |-> request[r].vendor]]
    /\ FileUnchanged /\ UNCHANGED <<lead, vendor, born, stale>>

(* Written by the lead's id, whatever the lead has become. *)
LinkWrite(r) ==
    /\ request[r].kind = "LINK"
    /\ LET l == request[r].lead
           v == request[r].vendor
           twin == {m \in Leads \ {l} : lead[m].vendor = v}
       IN  /\ lead' = [lead EXCEPT ![l] = [vendor |-> v, converted |-> TRUE]]
           /\ stale' = stale \cup twin
                         \cup {m \in {l} : lead[l].vendor \notin {None, v} \/ twin # {}}
    /\ Done(r)
    /\ FileUnchanged /\ UNCHANGED <<vendor, born>>

(* The stage by hand; a link is never undone, so the look may be old. *)
SetStage(l) ==
    /\ \E converted \in BOOLEAN :
         /\ converted => lead[l].vendor # None
         /\ lead' = [lead EXCEPT ![l].converted = converted]
    /\ FileUnchanged /\ UNCHANGED <<vendor, request, born, stale>>

(* Refused after all, or the connection is lost: nothing is written. *)
Drop(r) ==
    /\ request[r] # Idle /\ Done(r)
    /\ FileUnchanged /\ UNCHANGED <<lead, vendor, born, stale>>

-----------------------------------------------------------------------------
(* Papers *)

RowsUnchanged == UNCHANGED <<lead, vendor, history, approval, request, today, born, stale>>

(* The desk dates a declaration that has no date by the end of its financial  *)
(* year; after this one's end that is past all the days, MaxDay included.    *)
Stamped(k, validTo) ==
    IF k = Tds /\ validTo = None THEN IF today <= YearEnd THEN YearEnd ELSE MaxDay ELSE validTo

(* mutant: the row that is replaced keeps its verdict *)
UploadOver(v, k, validTo) ==
    /\ Exists(v)
    /\ validTo # None => k \in Documents
    /\ \E kept \in {validTo, Stamped(k, validTo)} : paper' = [paper EXCEPT ![v][k].validTo = kept]
    /\ UNCHANGED proven /\ RowsUnchanged

(* submitKyc, submitDocument and the portal's uploadDocument: an upsert that   *)
(* takes nothing over from the row it replaces.  The portal stamps nothing. *)
Upload(v, k, validTo) ==
    /\ Exists(v)
    /\ validTo # None => k \in Documents
    /\ \E kept \in {validTo, Stamped(k, validTo)} :
         paper' = [paper EXCEPT ![v][k] = [status |-> "PENDING", validTo |-> kept]]
    /\ UNCHANGED proven /\ RowsUnchanged

(* verifyKyc and verifyDocument, whatever was decided of the row before. *)
Decide(v, k, status) ==
    /\ paper[v][k].status # "MISSING"
    /\ paper' = [paper EXCEPT ![v][k].status = status]
    /\ proven' = IF status = "VERIFIED" THEN [proven EXCEPT ![v] = @ \cup {k}] ELSE proven
    /\ RowsUnchanged

-----------------------------------------------------------------------------
(* Standing: handlers that hold the row *)

Free(v) == \A r \in Requests : request[r].kind = "DECIDE" => request[r].vendor # v
Holds(v) == Exists(v) /\ Free(v)

StandingOnly == UNCHANGED <<lead, paper, history, approval, today, proven, born, stale>>

(* submit and activate: lock the row, whatever its status; read the identity  *)
(* papers, then the documents, on other connections; write.                 *)
StartDecision(r, v, to) ==
    /\ Holds(v) /\ PassesAll(v, Identity, to)
    /\ Ask(r, [kind |-> "DECIDE", vendor |-> v, to |-> to, read |-> "KYC"])
    /\ StandingOnly /\ UNCHANGED vendor

(* mutant: the papers everybody must have are taken for all of them *)
ReadAlwaysOnly(r) ==
    /\ request[r].kind = "DECIDE" /\ request[r].read = "KYC"
    /\ PassesAll(request[r].vendor, Always, request[r].to)
    /\ request' = [request EXCEPT ![r].read = "ALL"]
    /\ StandingOnly /\ UNCHANGED vendor

ReadDocuments(r) ==
    /\ request[r].kind = "DECIDE" /\ request[r].read = "KYC"
    /\ PassesAll(request[r].vendor, Always, request[r].to)
    /\ LegalPasses(request[r].vendor, request[r].to)
    /\ request' = [request EXCEPT ![r].read = "ALL"]
    /\ StandingOnly /\ UNCHANGED vendor

WriteDecision(r) ==
    /\ request[r].kind = "DECIDE" /\ request[r].read = "ALL"
    /\ vendor' = [vendor EXCEPT ![request[r].vendor].status = request[r].to]
    /\ Done(r)
    /\ StandingOnly

Suspend(v) ==
    /\ Holds(v) /\ vendor[v].status = "ACTIVE"
    /\ vendor' = [vendor EXCEPT ![v].status = "SUSPENDED"]
    /\ StandingOnly /\ UNCHANGED request

Reinstate(v) ==
    /\ Holds(v) /\ vendor[v].status = "SUSPENDED"
    /\ vendor' = [vendor EXCEPT ![v].status = "ACTIVE"]
    /\ StandingOnly /\ UNCHANGED request

-----------------------------------------------------------------------------
(* Branch and advance policy *)

(* What update writes inside its transaction. *)
Edit(v, branch) ==
    /\ Holds(v)
    /\ \E party \in {"OWNER", "VENDOR"}, pct \in Pcts :
         /\ vendor[v].status = "ACTIVE" => pct = vendor[v].pct
         /\ vendor' = [vendor EXCEPT ![v] = [@ EXCEPT !.party = party, !.branch = branch, !.pct = pct]]

(* An update that names neither town nor branch. *)
Update(v) ==
    /\ Edit(v, vendor[v].branch)
    /\ StandingOnly /\ UNCHANGED request

(* mutant: a transporter on hold counts as not yet decided *)
AskedDirectlyOnHold(v, b) == vendor[v].status # "ACTIVE" \/ b = vendor[v].branch

AskedDirectly(v, b) == vendor[v].status \notin Decided \/ b = vendor[v].branch

UpdateCheck(r, v, b) ==
    /\ Exists(v) /\ AskedDirectly(v, b)
    /\ Ask(r, [kind |-> "UPDATE", vendor |-> v, branch |-> b,
               sawDecided |-> vendor[v].status \in Decided, sawBranch |-> vendor[v].branch])
    /\ StandingOnly /\ UNCHANGED vendor

UpdateWrite(r) ==
    /\ request[r].kind = "UPDATE"
    /\ Edit(request[r].vendor, request[r].branch)
    /\ Done(r)
    /\ StandingOnly

Waiting(a) == approval[a].kind # "NONE" /\ approval[a].status = "PENDING"

Raise(a, kind, v, to) ==
    /\ approval[a].kind = "NONE"
    /\ approval' = [approval EXCEPT ![a] = [kind |-> kind, vendor |-> v, to |-> to, status |-> "PENDING"]]
    /\ UNCHANGED <<lead, vendor, paper, history, request, today, proven, born, stale>>

(* patchAdvancePolicy raises, whatever the status. *)
AskPolicy(a, v, pct) == Exists(v) /\ Raise(a, "ADVANCE_POLICY_CHANGE", v, pct)

(* update raises when the branch of a decided transporter would move. *)
AskBranch(a, v, b) == Exists(v) /\ ~AskedDirectly(v, b) /\ Raise(a, "BRANCH_OVERRIDE", v, b)

(* The stored action is replayed on the row as it is by then. *)
Approve(a) ==
    /\ Waiting(a)
    /\ LET v == approval[a].vendor IN
       /\ Holds(v)
       /\ \/ /\ approval[a].kind = "ADVANCE_POLICY_CHANGE"
             /\ vendor' = [vendor EXCEPT ![v].pct = approval[a].to]
             /\ history' = [history EXCEPT ![v] = Append(@, [old |-> vendor[v].pct, new |-> approval[a].to])]
          \/ /\ approval[a].kind = "BRANCH_OVERRIDE"
             /\ vendor' = [vendor EXCEPT ![v].branch = approval[a].to]
             /\ UNCHANGED history
    /\ approval' = [approval EXCEPT ![a].status = "APPROVED"]
    /\ UNCHANGED <<lead, paper, request, today, proven, born, stale>>

Reject(a) ==
    /\ Waiting(a)
    /\ approval' = [approval EXCEPT ![a].status = "REJECTED"]
    /\ UNCHANGED <<lead, vendor, paper, history, request, today, proven, born, stale>>

-----------------------------------------------------------------------------
Tick ==
    /\ today < MaxDay
    /\ today' = today + 1
    /\ UNCHANGED <<lead, vendor, paper, history, approval, request, proven, born, stale>>

Init ==
    /\ \E s \in Starts : lead = s.lead /\ vendor = s.vendor /\ paper = s.paper
    /\ history = [v \in Vendors |-> <<>>]
    /\ approval = [a \in Approvals |-> [kind |-> "NONE"]]
    /\ request = [r \in Requests |-> Idle]
    /\ today = 0
    /\ proven = [v \in Vendors |-> {k \in Kinds : Verified(v, k)}]
    /\ born = [v \in Vendors |-> None]
    /\ stale = {}

Onboarding ==
    \/ \E v \in Vendors : Create(v)
    \/ \E r \in Requests, l \in Leads : CreateCheck(r, l)
    \/ \E r \in Requests, v \in Vendors : CreateFromLead(r, v)
    \/ \E r \in Requests, l \in Leads, v \in Vendors : LinkCheck(r, l, v)
    \/ \E r \in Requests : LinkTwin(r) \/ LinkWrite(r) \/ Drop(r)
    \/ \E l \in Leads : SetStage(l)

Papers ==
    \/ \E v \in Vendors, k \in Kinds, validTo \in Days \cup {None} : Upload(v, k, validTo)
    \/ \E v \in Vendors, k \in Kinds, status \in {"VERIFIED", "REJECTED"} : Decide(v, k, status)

Standing ==
    \/ \E r \in Requests, v \in Vendors, to \in {"PENDING_VERIFICATION", "ACTIVE"} : StartDecision(r, v, to)
    \/ \E r \in Requests : ReadDocuments(r) \/ WriteDecision(r)
    \/ \E v \in Vendors : Suspend(v) \/ Reinstate(v)

Terms ==
    \/ \E v \in Vendors : Update(v)
    \/ \E r \in Requests, v \in Vendors, b \in Branches : UpdateCheck(r, v, b)
    \/ \E r \in Requests : UpdateWrite(r)
    \/ \E a \in Approvals, v \in Vendors, pct \in Pcts : AskPolicy(a, v, pct)
    \/ \E a \in Approvals, v \in Vendors, b \in Branches : AskBranch(a, v, b)
    \/ \E a \in Approvals : Approve(a) \/ Reject(a)

Next == Onboarding \/ Papers \/ Standing \/ Terms \/ Tick

Spec == Init /\ [][Next]_vars

-----------------------------------------------------------------------------
(* Properties *)

(* Rows and requests keep their shape, and a transporter's row is locked by   *)
(* one decision at a time.                                                  *)
TypeOK ==
    /\ lead \in [Leads -> Lead]
    /\ vendor \in [Vendors -> Vendor]
    /\ paper \in [Vendors -> [Kinds -> Paper]]
    /\ history \in [Vendors -> Seq([old : Pcts, new : Pcts])]
    /\ approval \in [Approvals -> Approval]
    /\ request \in [Requests -> Request]
    /\ \A r, q \in Requests :
         request[r].kind = "DECIDE" /\ request[q].kind = "DECIDE"
           /\ request[r].vendor = request[q].vendor => r = q
    /\ today \in Days
    /\ proven \in [Vendors -> SUBSET Kinds]
    /\ born \in [Vendors -> Leads \cup {None}]
    /\ stale \subseteq Leads

(* "Every mandatory item must be VERIFIED, not merely present": whoever is on  *)
(* the panel or on hold has had every identity paper, every paper all must    *)
(* have and one legal paper verified, though papers are replaced while a      *)
(* decision reads them, and whatever way it came back.                      *)
ClearedOnPapers ==
    \A v \in Vendors : vendor[v].status \in Decided =>
        Identity \cup Always \subseteq proven[v] /\ Legal \cap proven[v] # {}

(* The advance of an active transporter changes only by an approved change of  *)
(* policy, to the figure that was approved, and its history then says from     *)
(* what it changed.                                                         *)
PolicyByApproval ==
    [][\A v \in Vendors :
         vendor[v].status = "ACTIVE" /\ vendor'[v].pct # vendor[v].pct =>
           \E a \in Approvals :
             /\ Waiting(a) /\ approval[a].kind = "ADVANCE_POLICY_CHANGE" /\ approval[a].vendor = v
             /\ approval'[a].status = "APPROVED" /\ approval[a].to = vendor'[v].pct
             /\ history'[v] = Append(history[v], [old |-> vendor[v].pct, new |-> vendor'[v].pct])]_vars

(* The branch of a transporter already decided moves by an approved override,  *)
(* or by an update that looked at the row when it was not decided, or when it  *)
(* was on the branch the update asks for.                                   *)
BranchByApproval ==
    [][\A v \in Vendors :
         vendor[v].status \in Decided /\ vendor'[v].branch # vendor[v].branch =>
           \/ \E a \in Approvals :
                /\ Waiting(a) /\ approval[a].kind = "BRANCH_OVERRIDE" /\ approval[a].vendor = v
                /\ approval'[a].status = "APPROVED" /\ approval[a].to = vendor'[v].branch
           \/ \E r \in Requests :
                /\ request[r].kind = "UPDATE" /\ request[r].vendor = v
                /\ request[r].branch = vendor'[v].branch
                /\ ~request[r].sawDecided \/ request[r].sawBranch = request[r].branch]_vars

(* Unless two links crossed, a lead stays with the transporter onboarded from   *)
(* it, a transporter comes from one lead, and a converted lead has one.       *)
LeadsMatch ==
    /\ \A v \in Vendors : born[v] # None /\ born[v] \notin stale => lead[born[v]].vendor = v
    /\ \A l, m \in Leads \ stale : lead[l].vendor # None /\ lead[l].vendor = lead[m].vendor => l = m
    /\ \A l \in Leads : lead[l].converted => lead[l].vendor # None

(* No active transporter is stopped by surprise: when its own page begins to   *)
(* show a legal paper as lapsed, the award begins to refuse and the queue to   *)
(* block, and the queue chased that paper the day before, or Compliance has   *)
(* just verified it past its date; and the award begins to refuse for no      *)
(* other reason.  The declaration is shown as lapsed too and stops nothing:   *)
(* "a late declaration is chased, it does not stop a truck".                 *)
LapseWasChased ==
    [][\A v \in Vendors : vendor[v].status = "ACTIVE" /\ vendor'[v].status = "ACTIVE" =>
         /\ \A k \in Documents \ {Tds} : ~ShownExpired(v, k) /\ ShownExpired(v, k)' =>
              /\ AwardRefused(v, today)' /\ BlockedInQueue(v)'
              /\ k \in SweptIn(v, "EXPIRING_SOON") \/ ~Verified(v, k)
         /\ ~AwardRefused(v, today) /\ AwardRefused(v, today)' =>
              \E k \in Legal : ~ShownExpired(v, k) /\ ShownExpired(v, k)']_vars

(* An active transporter whom the gate would refuse within the warning, with   *)
(* the papers it has, is in today's queue: the warning is never short.        *)
WarnedInTime ==
    \A v \in Vendors : \A d \in 0..(Warn + 1) :
        vendor[v].status = "ACTIVE" /\ AwardRefused(v, today + d) => InQueue(v)
=============================================================================
