------------------------------- MODULE Award -------------------------------
(***************************************************************************)
(* One load (an indent) from its first quote to the truck's departure:     *)
(* quotes entered at the desk and through the transporter portal, the      *)
(* award that accepts a quote and generates the trip, the approval an      *)
(* above-band award waits for, cancelling, taking the load off its         *)
(* transporter, and the advance.                                           *)
(*                                                                         *)
(* Each desk handler runs in one transaction under the lock of the indent  *)
(* row and is one action.  Two handlers read before their transaction and  *)
(* are two actions: the portal's quote (PortalCheck, PortalInsert) and the *)
(* award (AwardPreview, AwardDirect).                                      *)
(*                                                                         *)
(* Source: indents.service.ts, portal-loads.service.ts, approvals.service  *)
(* and payments.service.ts of apps/internal-api.                           *)
(***************************************************************************)
EXTENDS Integers, FiniteSets

CONSTANTS
    Vendors,        \* transporters
    Quotes,         \* row ids the quotes table may hand out
    Trips,          \* row ids the trips table may hand out
    Amounts,        \* quoted amounts, in paise
    BidMax,         \* indents.bid_max: an amount over it is ABOVE_BAND
    AdvancePct,     \* indents.advance_pct
    None            \* SQL null

ASSUME AmountsAssumption == Amounts \subseteq (Nat \ {0}) /\ BidMax \in Nat
ASSUME AdvancePctAssumption == AdvancePct \in 0..100
ASSUME NoneAssumption == None \notin Vendors \cup Quotes \cup Trips

VARIABLES
    indent,     \* the indents row: stage, vendor, awarded quote, buy rate
    quote,      \* the quotes rows
    trip,       \* the trips rows of this indent
    standing,   \* what the vendors table says of each transporter
    portal,     \* transporters whose quote request has passed the stage check
    preview,    \* quotes whose award request has seen an in-band amount
    pending,    \* ABOVE_BAND_PRICE approvals still PENDING: quote and amount asked for
    slips       \* ghost: the two orderings no lock excludes that have occurred

vars == <<indent, quote, trip, standing, portal, preview, pending, slips>>

IndentStage == {"OPEN", "TRIP_CREATED", "CANCELLED"}
QuoteStatus == {"NONE", "SUBMITTED", "ACCEPTED", "REJECTED", "WITHDRAWN", "REMOVED"}
TripStage   == {"NONE", "OPEN", "IN_TRANSIT", "CANCELLED"}
Standing    == {"CLEAR", "PAPERS_EXPIRED", "NOT_ACTIVE"}

IndentRow == [stage : IndentStage, vendor : Vendors \cup {None},
              awarded : Quotes \cup {None}, rate : Nat]
QuoteRow  == [status : QuoteStatus, vendor : Vendors \cup {None}, amount : Nat]
TripRow   == [stage : TripStage, vendor : Vendors \cup {None}, rate : Nat,
              lr : {"NONE", "RELEASED"}, papers : {"NONE", "VERIFIED"},
              advance : Nat, paidTo : Vendors \cup {None}]

NoQuote == [status |-> "NONE", vendor |-> None, amount |-> 0]
NoTrip  == [stage |-> "NONE", vendor |-> None, rate |-> 0,
            lr |-> "NONE", papers |-> "NONE", advance |-> 0, paidTo |-> None]

AboveBand(a) == a > BidMax

(* Math.round((buy_rate * advance_pct) / 100) *)
AdvanceOn(rate) == (rate * AdvancePct + 50) \div 100

(* mutant: a rejected or accepted quote no longer counts *)
LiveQuotesOpenOnly(v) == {q \in Quotes : quote[q].vendor = v /\ quote[q].status = "SUBMITTED"}
LiveQuotes(v) == {q \in Quotes : quote[q].vendor = v
                       /\ quote[q].status \in {"SUBMITTED", "ACCEPTED", "REJECTED"}}
TripRows  == {t \in Trips : trip[t].stage # "NONE"}
LiveTrips == {t \in TripRows : trip[t].stage # "CANCELLED"}

Init ==
    /\ indent = [stage |-> "OPEN", vendor |-> None, awarded |-> None, rate |-> 0]
    /\ quote = [q \in Quotes |-> NoQuote]
    /\ trip = [t \in Trips |-> NoTrip]
    /\ standing = [v \in Vendors |-> "CLEAR"]
    /\ portal = {} /\ preview = {} /\ pending = {} /\ slips = {}

-----------------------------------------------------------------------------
(* Quotes *)

InsertQuote(v, q, a) ==
    /\ quote[q].status = "NONE"
    /\ LiveQuotes(v) = {}
    /\ quote' = [quote EXCEPT ![q] = [status |-> "SUBMITTED", vendor |-> v, amount |-> a]]

(* The desk enters what a transporter said on the phone. *)
RecordQuote(v, q, a) ==
    /\ indent.stage = "OPEN"
    /\ standing[v] # "NOT_ACTIVE"
    /\ InsertQuote(v, q, a)
    /\ UNCHANGED <<indent, trip, standing, portal, preview, pending, slips>>

(* The portal reads the indent with no lock and outside the transaction... *)
PortalCheck(v) ==
    /\ v \notin portal
    /\ standing[v] # "NOT_ACTIVE"
    /\ indent.stage = "OPEN" /\ indent.vendor = None
    /\ portal' = portal \cup {v}
    /\ UNCHANGED <<indent, quote, trip, standing, preview, pending, slips>>

(* ...and inserts in a later transaction that does not look at it again.   *)
PortalInsert(v, q, a) ==
    /\ v \in portal
    /\ InsertQuote(v, q, a)
    /\ portal' = portal \ {v}
    /\ slips' = IF indent.stage = "OPEN" THEN slips ELSE slips \cup {"LATE_QUOTE"}
    /\ UNCHANGED <<indent, trip, standing, preview, pending>>

(* QUOTE_EXISTS, a lost idempotency race, or a lost connection: rolled back. *)
PortalAbort(v) ==
    /\ v \in portal
    /\ portal' = portal \ {v}
    /\ UNCHANGED <<indent, quote, trip, standing, preview, pending, slips>>

(* The transporter takes a quote back: SUBMITTED or nothing. *)
WithdrawQuote(q) ==
    /\ quote[q].status = "SUBMITTED"
    /\ quote' = [quote EXCEPT ![q].status = "WITHDRAWN"]
    /\ UNCHANGED <<indent, trip, standing, portal, preview, pending, slips>>

(* mutant: the floor of an advance already paid is forgotten *)
CorrectBelowAdvance(q, a) ==
    /\ quote[q].status = "ACCEPTED" /\ a # quote[q].amount
    /\ quote' = [quote EXCEPT ![q].amount = a]
    /\ indent' = [indent EXCEPT !.rate = a]
    /\ \E t \in LiveTrips : trip' = [trip EXCEPT ![t].rate = a]
    /\ UNCHANGED <<standing, portal, preview, pending, slips>>

(* A wrong figure put right.  On an accepted quote the load and one live   *)
(* trip of the indent (the query takes the first it finds) move with it.   *)
CorrectQuote(q, a) ==
    /\ quote[q].status \in {"SUBMITTED", "ACCEPTED"}
    /\ a # quote[q].amount
    /\ quote' = [quote EXCEPT ![q].amount = a]
    /\ \/ /\ quote[q].status = "SUBMITTED"
          /\ UNCHANGED <<indent, trip>>
       \/ /\ quote[q].status = "ACCEPTED"
          /\ indent' = [indent EXCEPT !.rate = a]
          /\ \/ LiveTrips = {} /\ UNCHANGED trip
             \/ \E t \in LiveTrips :
                   /\ trip[t].advance <= a
                   /\ trip' = [trip EXCEPT ![t].rate = a]
    /\ UNCHANGED <<standing, portal, preview, pending, slips>>

RemoveQuote(q) ==
    /\ quote[q].status = "SUBMITTED" /\ indent.stage = "OPEN"
    /\ quote' = [quote EXCEPT ![q].status = "REMOVED"]
    /\ UNCHANGED <<indent, trip, standing, portal, preview, pending, slips>>

-----------------------------------------------------------------------------
(* The award *)

Exists(q) == quote[q].status \notin {"NONE", "REMOVED"}

(* The desk presses Award: a non-locking look at the band chooses the path. *)
AwardPreview(q) ==
    /\ Exists(q)
    /\ IF AboveBand(quote[q].amount)
       THEN pending' = pending \cup {<<q, quote[q].amount>>} /\ UNCHANGED preview
       ELSE preview' = preview \cup {q} /\ UNCHANGED pending
    /\ UNCHANGED <<indent, quote, trip, standing, portal, slips>>

Awardable(q) ==
    /\ quote[q].status = "SUBMITTED"
    /\ standing[quote[q].vendor] = "CLEAR"

(* The trip of the award: a set-aside trip of this indent comes back to    *)
(* life, otherwise a new row is inserted.                                  *)
SetAsideForgotten == {}     \* mutant: every award inserts a trip
SetAside == {t \in Trips : trip[t].stage = "CANCELLED"}
AwardTrip(t, q) ==
    /\ IF SetAside # {} THEN t \in SetAside ELSE trip[t].stage = "NONE"
    /\ trip' = [trip EXCEPT ![t] = [@ EXCEPT !.stage = "OPEN",
                                             !.vendor = quote[q].vendor,
                                             !.rate = quote[q].amount]]

ApplyAward(q) ==
    /\ Awardable(q)
    /\ quote' = [x \in Quotes |->
                   IF x = q THEN [quote[x] EXCEPT !.status = "ACCEPTED"]
                   ELSE IF quote[x].status = "SUBMITTED"
                   THEN [quote[x] EXCEPT !.status = "REJECTED"]
                   ELSE quote[x]]
    /\ indent' = [stage |-> "TRIP_CREATED", vendor |-> quote[q].vendor,
                  awarded |-> q, rate |-> quote[q].amount]
    /\ \E t \in Trips : AwardTrip(t, q)

(* The in-band path: the same request, its transaction. *)
AwardDirect(q) ==
    /\ q \in preview
    /\ ApplyAward(q)
    /\ preview' = preview \ {q}
    /\ UNCHANGED <<standing, portal, pending, slips>>

(* Refused in the transaction (or the request is lost): nothing is written. *)
AwardDropped(q) ==
    /\ q \in preview
    /\ preview' = preview \ {q}
    /\ UNCHANGED <<indent, quote, trip, standing, portal, pending, slips>>

(* An approver decides.  The stored award is replayed in the transaction    *)
(* that marks the approval APPROVED; a replay that is refused leaves it     *)
(* PENDING.                                                                 *)
ApproveAward(q, a) ==
    /\ <<q, a>> \in pending
    /\ ApplyAward(q)
    /\ pending' = pending \ {<<q, a>>}
    /\ UNCHANGED <<standing, portal, preview, slips>>

RejectAward(q, a) ==
    /\ <<q, a>> \in pending
    /\ pending' = pending \ {<<q, a>>}
    /\ UNCHANGED <<indent, quote, trip, standing, portal, preview, slips>>

-----------------------------------------------------------------------------
(* Taking the load back.  Both handlers read "the" trip of the indent with *)
(* no order and no stage filter: any row may come first.                   *)

(* mutant: only the stage of the trip is looked at *)
CancelPaid ==
    /\ indent.stage # "CANCELLED"
    /\ \E t \in TripRows : /\ trip[t].stage = "OPEN"
                           /\ trip' = [trip EXCEPT ![t].stage = "CANCELLED"]
    /\ indent' = [indent EXCEPT !.stage = "CANCELLED"]
    /\ UNCHANGED <<quote, standing, portal, preview, pending, slips>>

Cancel ==
    /\ indent.stage # "CANCELLED"
    /\ \/ TripRows = {} /\ UNCHANGED trip
       \/ \E t \in TripRows :
             \/ trip[t].stage = "CANCELLED" /\ UNCHANGED trip
             \/ /\ trip[t].stage = "OPEN" /\ trip[t].advance = 0
                /\ trip' = [trip EXCEPT ![t].stage = "CANCELLED"]
    /\ quote' = [q \in Quotes |->
                   IF quote[q].status \in {"SUBMITTED", "ACCEPTED"}
                   THEN [quote[q] EXCEPT !.status = "WITHDRAWN"] ELSE quote[q]]
    /\ indent' = [indent EXCEPT !.stage = "CANCELLED"]
    /\ UNCHANGED <<standing, portal, preview, pending, slips>>

(* Leadership takes the load off its transporter: the papers go, the other *)
(* quotes open again, the trip keeps its number and waits.                 *)
Reassign ==
    /\ indent.stage = "TRIP_CREATED"
    /\ \E t \in TripRows :
          /\ trip[t].stage = "OPEN" /\ trip[t].advance = 0 /\ trip[t].lr = "NONE"
          /\ trip' = [trip EXCEPT ![t] = [@ EXCEPT !.stage = "CANCELLED", !.papers = "NONE"]]
    /\ quote' = [q \in Quotes |->
                   IF q = indent.awarded THEN [quote[q] EXCEPT !.status = "WITHDRAWN"]
                   ELSE IF quote[q].status = "REJECTED"
                   THEN [quote[q] EXCEPT !.status = "SUBMITTED"]
                   ELSE quote[q]]
    /\ indent' = [stage |-> "OPEN", vendor |-> None, awarded |-> None, rate |-> 0]
    /\ UNCHANGED <<standing, portal, preview, pending, slips>>

-----------------------------------------------------------------------------
(* The trip's own desks, as far as the award depends on them (Dispatch has *)
(* them in full), and the vendor desk.                                     *)

(* generateLr and verifyDocument look at no stage of the trip. *)
IssueLr(t) ==
    /\ t \in TripRows /\ trip[t].lr = "NONE"
    /\ trip' = [trip EXCEPT ![t].lr = "RELEASED"]
    /\ UNCHANGED <<indent, quote, standing, portal, preview, pending, slips>>

VerifyPapers(t) ==
    /\ t \in TripRows /\ trip[t].papers = "NONE"
    /\ trip' = [trip EXCEPT ![t].papers = "VERIFIED"]
    /\ UNCHANGED <<indent, quote, standing, portal, preview, pending, slips>>

Depart(t) ==
    /\ trip[t].stage = "OPEN"
    /\ trip' = [trip EXCEPT ![t].stage = "IN_TRANSIT"]
    /\ UNCHANGED <<indent, quote, standing, portal, preview, pending, slips>>

(* The release asks for verified papers and an unpaid advance, never for    *)
(* the stage of the trip.                                                   *)
ReleaseAdvance(t) ==
    /\ t \in TripRows
    /\ trip[t].advance = 0 /\ trip[t].papers = "VERIFIED"
    /\ trip' = [trip EXCEPT ![t] = [@ EXCEPT !.advance = AdvanceOn(trip[t].rate),
                                             !.paidTo = trip[t].vendor]]
    /\ slips' = IF trip[t].stage = "CANCELLED" THEN slips \cup {"STRAY_ADVANCE"} ELSE slips
    /\ UNCHANGED <<indent, quote, standing, portal, preview, pending>>

(* Compliance suspends or clears a transporter; its papers run out. *)
ChangeStanding(v) ==
    /\ \E s \in Standing \ {standing[v]} : standing' = [standing EXCEPT ![v] = s]
    /\ UNCHANGED <<indent, quote, trip, portal, preview, pending, slips>>

-----------------------------------------------------------------------------
QuoteStep ==
    \/ \E v \in Vendors : PortalCheck(v) \/ PortalAbort(v)
    \/ \E v \in Vendors, q \in Quotes, a \in Amounts :
          RecordQuote(v, q, a) \/ PortalInsert(v, q, a)
    \/ \E q \in Quotes : WithdrawQuote(q) \/ RemoveQuote(q)
    \/ \E q \in Quotes, a \in Amounts : CorrectQuote(q, a)

AwardStep ==
    \/ \E q \in Quotes : AwardPreview(q) \/ AwardDirect(q) \/ AwardDropped(q)
    \/ \E q \in Quotes, a \in Amounts : ApproveAward(q, a) \/ RejectAward(q, a)
    \/ Cancel
    \/ Reassign

TripStep ==
    \E t \in Trips : IssueLr(t) \/ VerifyPapers(t) \/ Depart(t) \/ ReleaseAdvance(t)

Next == QuoteStep \/ AwardStep \/ TripStep \/ \E v \in Vendors : ChangeStanding(v)

Spec == Init /\ [][Next]_vars

-----------------------------------------------------------------------------
(* Properties *)

TypeOK ==
    /\ indent \in IndentRow
    /\ quote \in [Quotes -> QuoteRow]
    /\ trip \in [Trips -> TripRow]
    /\ standing \in [Vendors -> Standing]
    /\ portal \subseteq Vendors
    /\ preview \subseteq Quotes
    /\ pending \subseteq (Quotes \X Amounts)
    /\ slips \subseteq {"LATE_QUOTE", "STRAY_ADVANCE"}

(* A transporter has at most one quote in play on the load, whatever the    *)
(* portal, the desk, a withdrawal and a reassignment that reopens rejected  *)
(* quotes do (unique index quotes_one_live_per_vendor).                     *)
OneLiveQuotePerVendor ==
    \A p, q \in Quotes :
        /\ quote[p].status \in {"SUBMITTED", "ACCEPTED", "REJECTED"}
        /\ quote[q].status \in {"SUBMITTED", "ACCEPTED", "REJECTED"}
        /\ quote[p].vendor = quote[q].vendor
        => p = q

OneTripNumber == \A s, t \in TripRows : s = t

(* The load, its quotes and its trip tell one story: an awarded load has    *)
(* exactly one accepted quote and a live trip at that quote's rate for that *)
(* transporter; an open or cancelled one has neither; no quote waits on a   *)
(* load that is not open.                                                   *)
AwardConsistent ==
    /\ OneTripNumber
    /\ \A q \in Quotes : quote[q].status = "ACCEPTED" <=>
                            (indent.stage = "TRIP_CREATED" /\ q = indent.awarded)
    /\ \A t \in LiveTrips : /\ indent.stage = "TRIP_CREATED"
                            /\ trip[t].vendor = indent.vendor
                            /\ trip[t].rate = indent.rate
    /\ indent.stage = "TRIP_CREATED" =>
          /\ LiveTrips # {}
          /\ indent.awarded \in Quotes
          /\ indent.vendor = quote[indent.awarded].vendor
          /\ indent.rate = quote[indent.awarded].amount
    /\ indent.stage # "OPEN" => \A q \in Quotes : quote[q].status # "SUBMITTED"

(* The story holds in every order of the desks' calls, as long as no portal *)
(* quote has committed after the load stopped being open (indents.service   *)
(* applyAward, cancel, reassignTransporter, correctQuote).                  *)
ConsistentUnlessLateQuote == "LATE_QUOTE" \notin slips => AwardConsistent

(* An advance stays within the rate and with the transporter it was paid    *)
(* to, through corrections of the rate and a change of transporter, unless  *)
(* it was released on a set-aside trip (checkQuoteCorrection, cancel and    *)
(* reassign refuse once an advance is paid).                                *)
AdvanceSecured ==
    slips = {} => \A t \in TripRows : trip[t].advance > 0 =>
                     /\ trip[t].stage # "CANCELLED"
                     /\ trip[t].advance <= trip[t].rate
                     /\ trip[t].paidTo = trip[t].vendor

(* A trip the advance was paid on is never set aside, and one that has left *)
(* never comes back, not even to be revived by a second award.              *)
StaysOut ==
    \A t \in Trips :
        /\ (trip[t].advance > 0 /\ trip[t].stage # "CANCELLED") => trip'[t].stage # "CANCELLED"
        /\ trip[t].stage = "IN_TRANSIT" => trip'[t].stage = "IN_TRANSIT"

NoWayBack == [][StaysOut]_vars

-----------------------------------------------------------------------------
(* What the repository also says and the code does not do; no run checks   *)
(* these: see README, Deviations without a run.                            *)

(* What applyAward's comment says: "so an indent never carries two trip     *)
(* numbers".                                                                *)
NeverTwoTripNumbers == OneTripNumber
=============================================================================
