------------------------------- MODULE RateCard -------------------------------
(***************************************************************************)
(* The agreed rates of one client for one route and truck type.  Each lane  *)
(* row is a rate over a stretch of days; a change of rate closes the lane   *)
(* and opens a successor, and both a change and a new lane wait for a       *)
(* second signature in the approvals queue.                                *)
(*                                                                         *)
(* A desk's request runs over several transactions, with reads outside     *)
(* them: proposing inserts the revision, raises the approval and links the  *)
(* two; editing and deleting write the revision and the approval in         *)
(* separate transactions.  One transaction is one action, except where it   *)
(* reads other rows without a lock before it writes; then the reading is an *)
(* action of its own and the row locks it holds are in the guards.          *)
(*                                                                         *)
(* Left out: the bid band, the branch and the penalty terms of a lane,     *)
(* wording and roles.  An open end is the day after the last one.          *)
(*                                                                         *)
(* Source: apps/internal-api/src/modules/clients (rate-revision.service,   *)
(* rate-revision, rate-lane, clients.repository) and modules/approvals.    *)
(***************************************************************************)
EXTENDS Integers

CONSTANTS
    Lanes, Revisions, Approvals,    \* identities of rows
    Users,                          \* desks with a request in flight
    Rates,
    MaxDay,                         \* bound on the calendar
    Asks,                           \* bound on what is asked for
    MaxRequests,                    \* bound on the requests begun
    None

ASSUME MaxDayAssumption == MaxDay \in Nat /\ MaxRequests \in Nat
ASSUME NoneAssumption == None \notin Lanes \cup Revisions \cup Approvals \cup Rates

VARIABLES
    today,
    lane,        \* rate_card_lanes
    revision,    \* rate_revisions
    approval,    \* approvals
    request,     \* what each desk has under way, with what it has read
    begun,       \* ghost: requests begun so far
    slips,       \* ghost: how two lanes may have come to overlap
    marks        \* ghost: how a revision got out of step with its approval

vars == <<today, lane, revision, approval, request, begun, slips, marks>>

Days    == 0..MaxDay
Forever == MaxDay + 1
Ends    == 0..Forever

(* What is asked for: a rate from a day, and for a new lane to a day.       *)
Figures == [rate : Rates, from : Days, to : Ends]
(* A change of rate names no end. *)
Changes == {f \in Asks : f.to = Forever}
ASSUME AsksAssumption == Asks \subseteq Figures
ASSUME RatesAssumption == Rates # {}
NoFigures == [rate |-> CHOOSE r \in Rates : TRUE, from |-> 0, to |-> 0]

LaneRow == [state : {"NONE", "LIVE", "DELETED"}, rate : Rates, from : Days, to : Ends]
RevisionRow ==
    [status : {"NONE", "PENDING", "APPLIED", "REJECTED"}, lane : Lanes \cup {None},
     draft : Figures, to : Lanes \cup {None}, approval : Approvals \cup {None}]
ApprovalRow ==
    [status : {"NONE", "PENDING", "APPROVED", "REJECTED"}, kind : {"REVISION", "LANE"},
     revision : Revisions \cup {None}, shown : Figures]
Stages ==
    {"PROPOSING", "INSERTED", "RAISED", "ADDING", "SIGNING", "CORRECTING",
     "EDITING", "EDITED", "DROPPING", "DROPPED", "REMOVING", "REMOVED"}
RequestRow ==
    [at : Stages \cup {"IDLE"}, lane : Lanes \cup {None}, revision : Revisions \cup {None},
     approval : Approvals \cup {None}, figures : Figures]

NoLane     == [state |-> "NONE", rate |-> NoFigures.rate, from |-> 0, to |-> 0]
NoRevision == [status |-> "NONE", lane |-> None, draft |-> NoFigures, to |-> None, approval |-> None]
NoApproval == [status |-> "NONE", kind |-> "LANE", revision |-> None, shown |-> NoFigures]
Idle       == [at |-> "IDLE", lane |-> None, revision |-> None, approval |-> None, figures |-> NoFigures]

-----------------------------------------------------------------------------
(* The rules *)

Live(l) == lane[l].state = "LIVE"

Overlap(f, g) == f.from <= g.to /\ g.from <= f.to

(* No other agreed rate of the route over those days. *)
Free(f, but) == \A l \in Lanes \ {but} : Live(l) => ~Overlap(f, lane[l])

Ordered(f) == f.from <= f.to

Checked(row, f) ==
    f.rate # row.rate /\ f.from > row.from /\ f.from >= today /\ row.to >= today

LaneOf(f) == [state |-> "LIVE", rate |-> f.rate, from |-> f.from, to |-> f.to]

(* mutant: both rates are in force on the day the new one starts *)
ClosedSameDay(row, f) == [row EXCEPT !.to = f.from]
Closed(row, f) == [row EXCEPT !.to = f.from - 1]

(* A change of the price, not of the term. *)
Successor(row, f) == LaneOf([f EXCEPT !.to = row.to])

-----------------------------------------------------------------------------
(* Requests and locks *)

At(u, stage) == request[u].at = stage
InFlight(stage) == {u \in Users : At(u, stage)}

(* correctLane keeps its lane locked while it reads the others; the signing *)
(* of a new lane keeps its approval and the client.                        *)
Checking       == InFlight("CORRECTING") \cup InFlight("SIGNING")
LaneLocked(l)  == \E u \in InFlight("CORRECTING") : request[u].lane = l
Waiting(a)     == approval[a].status = "PENDING" /\ \A u \in InFlight("SIGNING") : request[u].approval # a

Asked(at, l, r, a, f) == [at |-> at, lane |-> l, revision |-> r, approval |-> a, figures |-> f]
Begins(u, row) ==
    /\ At(u, "IDLE") /\ begun < MaxRequests
    /\ begun' = begun + 1 /\ request' = [request EXCEPT ![u] = row]
Goes(u, at) == request' = [request EXCEPT ![u] = [@ EXCEPT !.at = at]] /\ UNCHANGED begun
Done(u)     == request' = [request EXCEPT ![u] = Idle] /\ UNCHANGED begun
Slips(s, is) == slips' = IF is THEN slips \cup {s} ELSE slips
Marks(m, is) == marks' = IF is THEN marks \cup {m} ELSE marks

Init ==
    /\ today = 0
    /\ lane \in [Lanes -> {NoLane, LaneOf([NoFigures EXCEPT !.to = Forever])}]
    /\ \A l, k \in Lanes : Live(l) /\ Live(k) => l = k
    /\ revision = [r \in Revisions |-> NoRevision]
    /\ approval = [a \in Approvals |-> NoApproval]
    /\ request = [u \in Users |-> Idle]
    /\ begun = 0 /\ slips = {} /\ marks = {}

Tick == today < MaxDay /\ today' = today + 1 /\ UNCHANGED <<lane, revision, approval, request, begun, slips, marks>>

(* The process stops, or a statement fails: what is open is rolled back. *)
Stops(u) ==
    /\ ~At(u, "IDLE") /\ Done(u)
    /\ Marks(<<"CUT", request[u].revision>>, request[u].at \in {"INSERTED", "RAISED", "EDITED"})
    /\ UNCHANGED <<today, lane, revision, approval, slips>>

-----------------------------------------------------------------------------
(* Approvals: raise, approve, reject, withdraw, amend *)

Decided(a, status) == [approval EXCEPT ![a] = [@ EXCEPT !.status = status]]

(* mutant: turning a change down leaves its revision waiting *)
ClosedWithNothing(a) == revision
(* What turning a request down does to the revision behind it. *)
ClosedWith(a) ==
    [r \in Revisions |->
        IF approval[a].revision = r /\ revision[r].status = "PENDING"
        THEN [revision[r] EXCEPT !.status = "REJECTED"] ELSE revision[r]]

TurnDown(a) == approval' = Decided(a, "REJECTED") /\ revision' = ClosedWith(a)

Reject(a) ==
    /\ Waiting(a) /\ TurnDown(a)
    /\ UNCHANGED <<today, lane, request, begun, slips, marks>>

(* The change is applied from the day it is signed at the earliest. *)
EffectiveFrom(r) == [revision[r].draft EXCEPT !.from = IF @ < today THEN today ELSE @]

ApproveRevision(a) ==
    \E r \in Revisions, n \in Lanes :
        LET l == revision[r].lane
            f == EffectiveFrom(r)
        IN
        /\ Waiting(a) /\ approval[a].kind = "REVISION" /\ approval[a].revision = r
        /\ revision[r].status = "PENDING" /\ ~LaneLocked(l)
        /\ Checked(lane[l], f) /\ f.from <= lane[l].to          \* rate_card_lanes_validity
        /\ lane[n].state = "NONE"
        /\ lane' = [lane EXCEPT ![l] = Closed(@, f), ![n] = Successor(lane[l], f)]
        /\ revision' = [revision EXCEPT ![r] = [@ EXCEPT !.status = "APPLIED", !.draft = f, !.to = n]]
        /\ approval' = Decided(a, "APPROVED")
        /\ Slips("REVIVED", ~Live(l))
        /\ UNCHANGED <<today, request, begun, marks>>

(* A new lane: the client is locked, and the route's lanes are read again. *)
SignLane(u, a) ==
    /\ Waiting(a) /\ approval[a].kind = "LANE" /\ InFlight("SIGNING") = {}
    /\ Free(approval[a].shown, None) /\ Ordered(approval[a].shown)
    /\ Begins(u, Asked("SIGNING", None, None, a, approval[a].shown))
    /\ Slips("TOGETHER", Checking # {})
    /\ UNCHANGED <<today, lane, revision, approval, marks>>

InsertSigned(u) ==
    \E n \in Lanes :
        /\ At(u, "SIGNING") /\ lane[n].state = "NONE"
        /\ lane' = [lane EXCEPT ![n] = LaneOf(request[u].figures)]
        /\ approval' = Decided(request[u].approval, "APPROVED")
        /\ Done(u) /\ UNCHANGED <<today, revision, slips, marks>>

-----------------------------------------------------------------------------
(* propose *)

OpenFor(l) == {r \in Revisions : revision[r].lane = l /\ revision[r].status = "PENDING"}

(* The lane and its open change are read before anything is locked; a lane  *)
(* taken off the card is found like any other.                             *)
Propose(u, l, f) ==
    /\ lane[l].state # "NONE" /\ OpenFor(l) = {} /\ Checked(lane[l], f)
    /\ Begins(u, Asked("PROPOSING", l, None, None, f))
    /\ UNCHANGED <<today, lane, revision, approval, slips, marks>>

InsertRevision(u) ==
    \E r \in Revisions :
        /\ At(u, "PROPOSING") /\ revision[r].status = "NONE"
        /\ revision' = [revision EXCEPT ![r] =
               [status |-> "PENDING", lane |-> request[u].lane, draft |-> request[u].figures,
                to |-> None, approval |-> None]]
        /\ request' = [request EXCEPT ![u] = [@ EXCEPT !.at = "INSERTED", !.revision = r]]
        /\ UNCHANGED <<today, lane, approval, begun, slips, marks>>

RaiseRevision(u) ==
    \E a \in Approvals :
        /\ At(u, "INSERTED") /\ approval[a].status = "NONE"
        /\ approval' = [approval EXCEPT ![a] =
               [status |-> "PENDING", kind |-> "REVISION", revision |-> request[u].revision,
                shown |-> request[u].figures]]
        /\ request' = [request EXCEPT ![u] = [@ EXCEPT !.at = "RAISED", !.approval = a]]
        /\ UNCHANGED <<today, lane, revision, begun, slips, marks>>

LinkRevision(u) ==
    /\ At(u, "RAISED")
    /\ revision' = [revision EXCEPT ![request[u].revision] = [@ EXCEPT !.approval = request[u].approval]]
    /\ Done(u) /\ UNCHANGED <<today, lane, approval, slips, marks>>

-----------------------------------------------------------------------------
(* addLane, and the lanes that need no signature here *)

AddLane(u, f) ==
    /\ \A a \in Approvals : approval[a].status = "PENDING" => approval[a].kind # "LANE"
    /\ Free(f, None) /\ Ordered(f)
    /\ Begins(u, Asked("ADDING", None, None, None, f))
    /\ UNCHANGED <<today, lane, revision, approval, slips, marks>>

RaiseLane(u) ==
    \E a \in Approvals :
        /\ At(u, "ADDING") /\ approval[a].status = "NONE"
        /\ approval' = [approval EXCEPT ![a] =
               [status |-> "PENDING", kind |-> "LANE", revision |-> None, shown |-> request[u].figures]]
        /\ Done(u) /\ UNCHANGED <<today, lane, revision, slips, marks>>

(* A lane won at a quotation, or imported, is inserted without a look at the others. *)
WinLane(f) ==
    \E n \in Lanes :
        /\ lane[n].state = "NONE" /\ Ordered(f)
        /\ lane' = [lane EXCEPT ![n] = LaneOf(f)]
        /\ Slips("WON", ~Free(f, None) \/ Checking # {})
        /\ UNCHANGED <<today, revision, approval, request, begun, marks>>

-----------------------------------------------------------------------------
(* correctLane; editPendingLane; deletePendingLane is the withdrawal alone *)

Correct(u, l, f) ==
    /\ Live(l) /\ ~LaneLocked(l) /\ Ordered(f) /\ LaneOf(f) # lane[l] /\ Free(f, l)
    /\ Begins(u, Asked("CORRECTING", l, None, None, f))
    /\ Slips("TOGETHER", Checking # {})
    /\ UNCHANGED <<today, lane, revision, approval, marks>>

WriteCorrection(u) ==
    /\ At(u, "CORRECTING")
    /\ lane' = [lane EXCEPT ![request[u].lane] = LaneOf(request[u].figures)]
    /\ Done(u) /\ UNCHANGED <<today, revision, approval, slips, marks>>

EditPendingLane(a, f) ==
    /\ Waiting(a) /\ approval[a].kind = "LANE" /\ Ordered(f) /\ Free(f, None)
    /\ approval' = [approval EXCEPT ![a] = [@ EXCEPT !.shown = f]]
    /\ UNCHANGED <<today, lane, revision, request, begun, slips, marks>>

-----------------------------------------------------------------------------
(* editPendingRevision *)

EditRevision(u, r, f) ==
    /\ revision[r].status = "PENDING" /\ lane[revision[r].lane].state = "LIVE"
    /\ Checked(lane[revision[r].lane], f)
    /\ Begins(u, Asked("EDITING", revision[r].lane, r, revision[r].approval, f))
    /\ UNCHANGED <<today, lane, revision, approval, slips, marks>>

(* By the revision's id, whatever has become of it since it was read. *)
WriteEdit(u) ==
    LET r == request[u].revision IN
    /\ At(u, "EDITING")
    /\ revision' = [revision EXCEPT ![r] = [@ EXCEPT !.draft = request[u].figures]]
    /\ Marks(<<"CROSSED", r>>, \/ request[u].approval = None
                               \/ \E v \in InFlight("EDITED") : request[v].revision = r)
    /\ IF request[u].approval = None THEN Done(u) ELSE Goes(u, "EDITED")
    /\ UNCHANGED <<today, lane, approval, slips>>

(* mutant: the request keeps the figures it was raised with *)
AmendEditedReason(u) ==
    /\ At(u, "EDITED") /\ Done(u) /\ UNCHANGED <<today, lane, revision, approval, slips, marks>>
AmendEdited(u) ==
    /\ At(u, "EDITED")
    /\ approval' = IF approval[request[u].approval].status = "PENDING"
                   THEN [approval EXCEPT ![request[u].approval] = [@ EXCEPT !.shown = request[u].figures]]
                   ELSE approval
    /\ Done(u) /\ UNCHANGED <<today, lane, revision, slips, marks>>

-----------------------------------------------------------------------------
(* deleteRevision and deleteLane: a withdrawal, then the write *)

(* mutant: the withdrawal does not ask whether it was decided *)
StillOpenAnyway(a) == TRUE
(* The withdrawal is refused once the request was decided. *)
StillOpen(a) == approval[a].status = "PENDING"

Withdraws(u, next) ==
    IF StillOpen(request[u].approval)
    THEN TurnDown(request[u].approval) /\ Goes(u, next)
    ELSE UNCHANGED <<approval, revision>> /\ Done(u)

Rejected(r) == [revision EXCEPT ![r] = [@ EXCEPT !.status = "REJECTED"]]

DropRevision(u, r) ==
    /\ revision[r].status = "PENDING"
    /\ Begins(u, Asked(IF revision[r].approval = None THEN "DROPPED" ELSE "DROPPING",
                       None, r, revision[r].approval, NoFigures))
    /\ Marks(<<"UNLINKED", r>>, revision[r].approval = None)
    /\ UNCHANGED <<today, lane, revision, approval, slips>>

WithdrawDropped(u) ==
    /\ At(u, "DROPPING") /\ Withdraws(u, "DROPPED")
    /\ UNCHANGED <<today, lane, slips, marks>>

WriteDropped(u) ==
    /\ At(u, "DROPPED")
    /\ revision' = Rejected(request[u].revision)
    /\ Done(u) /\ UNCHANGED <<today, lane, approval, slips, marks>>

RemoveLane(u, l) ==
    \E r \in OpenFor(l) \cup {None} :
        LET a == IF r = None THEN None ELSE revision[r].approval IN
        /\ Live(l) /\ (r = None => OpenFor(l) = {})
        /\ Begins(u, Asked(IF a = None THEN "REMOVED" ELSE "REMOVING", l, r, a, NoFigures))
        /\ Marks(<<"UNLINKED", r>>, r # None /\ a = None)
        /\ UNCHANGED <<today, lane, revision, approval, slips>>

WithdrawRemoved(u) ==
    /\ At(u, "REMOVING") /\ Withdraws(u, "REMOVED")
    /\ UNCHANGED <<today, lane, slips, marks>>

(* Refused and rolled back when the lane was deleted meanwhile. *)
WriteRemoved(u) ==
    LET l == request[u].lane IN
    /\ At(u, "REMOVED") /\ ~LaneLocked(l)
    /\ IF Live(l)
       THEN /\ lane' = [lane EXCEPT ![l] = [@ EXCEPT !.state = "DELETED"]]
            /\ revision' = IF request[u].revision = None THEN revision ELSE Rejected(request[u].revision)
       ELSE UNCHANGED <<lane, revision>>
    /\ Done(u) /\ UNCHANGED <<today, approval, slips, marks>>

-----------------------------------------------------------------------------

Desk(u) ==
    \/ \E f \in Changes :
          (\E l \in Lanes : Propose(u, l, f)) \/ (\E r \in Revisions : EditRevision(u, r, f))
    \/ \E f \in Asks : AddLane(u, f) \/ \E l \in Lanes : Correct(u, l, f)
    \/ \E r \in Revisions : DropRevision(u, r)
    \/ \E l \in Lanes : RemoveLane(u, l)
    \/ \E a \in Approvals : SignLane(u, a)
    \/ InsertRevision(u) \/ RaiseRevision(u) \/ LinkRevision(u) \/ RaiseLane(u)
    \/ InsertSigned(u) \/ WriteCorrection(u) \/ WriteEdit(u) \/ AmendEdited(u)
    \/ WithdrawDropped(u) \/ WriteDropped(u) \/ WithdrawRemoved(u) \/ WriteRemoved(u)
    \/ Stops(u)

Next ==
    \/ Tick
    \/ \E u \in Users : Desk(u)
    \/ \E a \in Approvals : Reject(a) \/ ApproveRevision(a) \/ \E f \in Asks : EditPendingLane(a, f)
    \/ \E f \in Asks : WinLane(f)

Spec == Init /\ [][Next]_vars

-----------------------------------------------------------------------------
(* Properties *)

TypeOK ==
    /\ today \in Days
    /\ lane \in [Lanes -> LaneRow]
    /\ revision \in [Revisions -> RevisionRow]
    /\ approval \in [Approvals -> ApprovalRow]
    /\ request \in [Users -> RequestRow]
    /\ begun \in 0..MaxRequests
    /\ slips \subseteq {"TOGETHER", "REVIVED", "WON"}
    /\ marks \subseteq {"CUT", "CROSSED", "UNLINKED"} \X Revisions

(* Two agreed rates of one route are never in force on the same day, however *)
(* changes, new lanes, corrections and deletions are signed and withdrawn,  *)
(* unless a lane was won at a quotation over them, a change was signed on a  *)
(* deleted lane, or two readings of the route's lanes were under way at     *)
(* once.  Two changes proposed at once for one lane do not break it.        *)
OneRateInForce ==
    slips = {} => \A l, k \in Lanes : Live(l) /\ Live(k) /\ l # k => ~Overlap(lane[l], lane[k])

(* A change that waits can be decided: its approval waits too, so that its  *)
(* lane is never blocked for good, except by a proposal cut short between    *)
(* its two transactions.                                                   *)
WaitingIsDecidable ==
    \A r \in Revisions : revision[r].status = "PENDING" =>
        \/ \E a \in Approvals : approval[a].status = "PENDING" /\ approval[a].revision = r
        \/ \E u \in InFlight("INSERTED") : request[u].revision = r
        \/ <<"CUT", r>> \in marks

(* A change that was signed has its one approval and its one lane, and is    *)
(* kept as applied: no deletion under way turns it back, unless it began     *)
(* before the change was linked to its approval.                           *)
SignedForGood ==
    \A r \in Revisions :
        LET signed == {a \in Approvals : approval[a].revision = r /\ approval[a].status = "APPROVED"} IN
        /\ revision[r].to # None => /\ \E a \in signed : signed = {a}
                                    /\ lane[revision[r].to].state # "NONE"
                                    /\ revision[r].status = "APPLIED" \/ <<"UNLINKED", r>> \in marks
        /\ revision[r].to = None => signed = {} /\ revision[r].status # "APPLIED"

(* The approver is shown the figures that signing would apply, except while  *)
(* an edit is between its two transactions or was cut short there, and after *)
(* two edits of one change crossed or one came before the approval was      *)
(* linked.                                                                 *)
ShownIsWaiting ==
    \A a \in Approvals, r \in Revisions :
        /\ approval[a].status = "PENDING" /\ approval[a].revision = r /\ revision[r].status = "PENDING"
        => \/ approval[a].shown = revision[r].draft
           \/ \E u \in InFlight("EDITED") : request[u].revision = r
           \/ <<"CROSSED", r>> \in marks \/ <<"CUT", r>> \in marks

(* mutant: a load picked up on the first day of a rate does not find it *)
PricesOnAfter(card, d) ==
    {card[l].rate : l \in {k \in Lanes : card[k].state = "LIVE" /\ card[k].from < d /\ d <= card[k].to}}
(* The rates in force on a day, as a load picked up on it is priced. *)
PricesOn(card, d) ==
    {card[l].rate : l \in {k \in Lanes : card[k].state = "LIVE" /\ card[k].from <= d /\ d <= card[k].to}}

(* Signing a change never moves the price of a day that has passed; from its *)
(* first day to the last of the lane the new rate is the only one in force,  *)
(* and every other day keeps what it had.                                  *)
RepricesFromItsDay ==
    [][\A r \in Revisions : revision[r].to = None /\ revision'[r].to # None =>
          LET old == lane[revision[r].lane]
              new == lane'[revision'[r].to]
          IN \A d \in Days :
                /\ d < today => PricesOn(lane', d) = PricesOn(lane, d)
                /\ slips' = {} =>
                      PricesOn(lane', d) = IF new.from <= d /\ d <= old.to THEN {new.rate} ELSE PricesOn(lane, d)]_vars

-----------------------------------------------------------------------------
(* What the repository also says and the code does not do; no run checks   *)
(* these: see README, Deviations without a run.                            *)

(* "A rate change still waiting for sign-off, corrected in place - the       *)
(* approver sees the corrected figures" (rate-revision.service.ts, above     *)
(* editPendingRevision): once no edit is under way.                        *)
ApproverSeesCorrected ==
    \A a \in Approvals, r \in Revisions :
        /\ approval[a].status = "PENDING" /\ approval[a].revision = r /\ revision[r].status = "PENDING"
        /\ \A u \in Users : At(u, "IDLE")
        /\ <<"CUT", r>> \notin marks
        => approval[a].shown = revision[r].draft
=============================================================================
