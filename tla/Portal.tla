------------------------------- MODULE Portal -------------------------------
(***************************************************************************)
(* The writes of the transporter portal and the ledger that makes a retry  *)
(* of one of them the same write (portal-idempotency.repository.ts, the    *)
(* seven handlers of portal-loads, -fleet, -trips and -profile.service.ts, *)
(* the pages of apps/vendor-portal that mint the keys and the proxy of     *)
(* apps/vendor-api that gives up first).                                   *)
(*                                                                         *)
(* One transporter has a few pages open on one record: a load, a truck, a  *)
(* paper, a trip.  A page keeps one key until its write has succeeded; its *)
(* taps reach the server as requests, each of which runs the steps of its  *)
(* handler one database statement at a time, against the other requests,   *)
(* lost answers and a restart of the server.                               *)
(***************************************************************************)
EXTENDS Integers, Sequences, FiniteSets, Functions

CONSTANTS
    Pages,      \* the pages (browser tabs) the transporter has open
    Tries,      \* page -> the requests it may have at the server at once (a bound)
    Bodies,     \* what the transporter may type: amounts, statuses, files, bill numbers
    MaxKeys,    \* how many keys are minted (a bound)
    MaxLost,    \* how many times an answer is not waited for (a bound)
    MaxStops,   \* how many times the server restarts (a bound)
    Setups      \* which write each page makes, or none

Endpoints == {"QUOTE", "WITHDRAW", "VEHICLE", "STATUS", "PAPER", "POD", "BILL"}
Unused == "NONE"

(* The pages that mint a key when they are first opened; a withdrawal mints *)
(* it when the quote it is of is shown.                                     *)
Keyed(setup) == {p \in Pages : setup[p] \notin {"WITHDRAW", Unused}}

ASSUME PortalAssumption ==
    /\ IsFiniteSet(Pages) /\ DOMAIN Tries = Pages
    /\ Bodies \subseteq Nat \ {0}
    /\ MaxKeys \in Nat /\ MaxLost \in Nat /\ MaxStops \in Nat
    /\ Setups \subseteq [Pages -> Endpoints \cup {Unused}]
    /\ \A setup \in Setups : Cardinality(Keyed(setup)) <= MaxKeys

Keys == 1 .. MaxKeys
Requests == UNION {{<<p, t>> : t \in Tries[p]} : p \in Pages}
None == 0

(* The endpoints with a unique index behind the handler's own look: one live *)
(* quote on a load, one truck of a number, one bill of a number.            *)
Once == {"QUOTE", "VEHICLE", "BILL"}
(* The pages that are left, or whose key is dropped, once they succeeded;   *)
(* the others mint their next key in place.                                 *)
LeftOnSuccess == {"QUOTE", "POD", "BILL", "WITHDRAW"}
(* The pages whose button waits for the answer before it can be tapped again. *)
Disabled == {"QUOTE", "VEHICLE", "PAPER", "POD", "BILL"}

-----------------------------------------------------------------------------
(* The steps of each handler, in the order of its code: what comes before   *)
(* its first write, and the end they share.                                 *)
Before(e) ==
    CASE e = "QUOTE"                    -> <<"replay", "gate", "clash">>
      [] e \in {"WITHDRAW", "VEHICLE"}  -> <<"replay", "clash">>
      [] e = "STATUS"                   -> <<"replay", "gate">>
      [] e \in {"PAPER", "POD"}         -> <<"replay", "store", "replay">>
      [] e = "BILL"                     -> <<"gate", "replay", "store", "replay", "clash">>
Change == <<"write", "record", "commit">>

(* mutant: the ledger is only looked at once the record was *)
LookLate(e) ==
    SelectSeq(Before(e), LAMBDA step : step \in {"gate", "clash"})
      \o <<"replay">> \o SelectSeq(Before(e), LAMBDA step : step = "store") \o Change

Handler(e) == Before(e) \o Change

-----------------------------------------------------------------------------
VARIABLES
    page,       \* page -> the write it makes, its key, since when it is open, the quote it shows
    req,        \* page and try -> the request the server works on
    rows,       \* the writes that were committed, oldest first
    ledger,     \* portal_idempotency_keys: key -> the stored response
    gate,       \* the load's stage; a proof not approved or a grounded truck is SHUT
    decided,    \* the quotes an award has accepted or rejected
    takenBack,  \* the quotes the desk has withdrawn or removed
    told,       \* the answers of success that reached a page
    minted,     \* how many keys were minted
    lost,       \* how many answers were not waited for
    stops       \* how many times the server has restarted

vars == <<page, req, rows, ledger, gate, decided, takenBack, told, minted, lost, stops>>
client == <<page, minted>>
server == <<rows, ledger>>
desk == <<gate, decided, takenBack>>

Page == [endpoint : Endpoints \cup {Unused}, key : Keys \cup {None}, since : Keys \cup {None},
         quote : Keys \cup {None}, here : BOOLEAN]
(* A request: the steps it still has to run, and its answer once it has none. *)
Steps == {"replay", "gate", "clash", "store", "write", "record", "commit", "reread"}
Answers == [ok : BOOLEAN, got : Bodies \cup {None} \cup Keys]
Request == [busy : BOOLEAN, left : Seq(Steps), key : Keys \cup {None},
            body : Bodies \cup {None} \cup Keys, since : Keys \cup {None},
            heard : BOOLEAN, answer : Answers]
(* A write, and the opening of the page it was sent from. *)
Row == [endpoint : Endpoints, key : Keys, body : Bodies \cup Keys, since : Keys]
NoAnswer == [ok |-> FALSE, got |-> None]
Refused == NoAnswer
Replied(response) == [ok |-> TRUE, got |-> response]
Nothing == [busy |-> FALSE, left |-> <<>>, key |-> None, body |-> None, since |-> None,
            heard |-> FALSE, answer |-> NoAnswer]

Endpoint(r) == page[r[1]].endpoint
(* The step the request runs next. *)
At(r, step) == req[r].left # <<>> /\ Head(req[r].left) = step
Answered(r) == req[r].busy /\ req[r].left = <<>>
Goes(r) == req' = [req EXCEPT ![r].left = Tail(@)]
(* It is answered; an answer nobody waits for is gone with the request. *)
Answer(r, a) ==
    req' = [req EXCEPT ![r] = IF @.heard THEN [@ EXCEPT !.left = <<>>, !.answer = a] ELSE Nothing]

(* A transaction holds what it has written until it commits or rolls back. *)
HoldsRow(r) == At(r, "record") \/ At(r, "commit")
HoldsKey(r) == At(r, "commit")

(* Whether quote q was withdrawn. *)
Withdrawn(q) ==
    q \in takenBack \/ \E i \in DOMAIN rows : rows[i].endpoint = "WITHDRAW" /\ rows[i].body = q
(* The rows a unique index counts: quotes not withdrawn, trucks, bills. *)
Live(e) == {i \in DOMAIN rows : rows[i].endpoint = e /\ ~Withdrawn(i)}
(* A page is open on one load or one truck, so that any live row of it is in *)
(* the way of another; a trip takes any number of bills, and a bill only     *)
(* rules out its own number (unique (vendor_id, bill_no)).                   *)
SameRecord(e, b, c) == e = "BILL" => b = c
InTheWay(e, b) == {i \in Live(e) : SameRecord(e, rows[i].body, b)}
(* A quote that may still be withdrawn: its status is SUBMITTED. *)
Submitted(q) == q \in Live("QUOTE") /\ q \notin decided

-----------------------------------------------------------------------------
(* The pages. *)

(* What a withdrawal may name: a quote the list shows as SUBMITTED. *)
Listed(e) == IF e = "WITHDRAW" THEN {i \in DOMAIN rows : Submitted(i)} ELSE {None}
(* What the transporter may send: anything typed, or the quote that is shown. *)
Sendable(p) == IF page[p].endpoint = "WITHDRAW" THEN {page[p].quote} \ {None} ELSE Bodies

(* A page waits for an answer. *)
Waits(p) == \E t \in Tries[p] : req[<<p, t>>].heard
(* What the tap of page p sends. *)
Tapped(p, key, body) ==
    [Nothing EXCEPT !.busy = TRUE, !.left = Handler(page[p].endpoint), !.key = key, !.body = body,
                    !.since = page[p].since, !.heard = TRUE]

(* mutant: a key for every request, as request() mints when none is passed *)
TapFreshKey(p, t) ==
    /\ page[p].here /\ ~req[<<p, t>>].busy
    /\ page[p].endpoint \in Disabled => ~Waits(p)
    /\ minted < MaxKeys
    /\ minted' = minted + 1
    /\ page' = [page EXCEPT ![p].key = minted + 1]
    /\ \E body \in Sendable(p) : req' = [req EXCEPT ![<<p, t>>] = Tapped(p, minted + 1, body)]
    /\ UNCHANGED <<server, desk, told, lost, stops>>

(* The button of page p is tapped: a request with the page's key and what   *)
(* is typed in it now, which may not be what the last tap sent.             *)
Tap(p, t) ==
    /\ page[p].here /\ ~req[<<p, t>>].busy
    /\ page[p].endpoint \in Disabled => ~Waits(p)
    /\ \E body \in Sendable(p) : req' = [req EXCEPT ![<<p, t>>] = Tapped(p, page[p].key, body)]
    /\ UNCHANGED <<client, server, desk, told, lost, stops>>

(* The page is opened again: its state is new, so is its key, and nobody    *)
(* waits for the answers of the page it was.                                *)
Reopen(p) ==
    /\ page[p].endpoint # Unused /\ minted < MaxKeys
    /\ minted' = minted + 1
    /\ \E quote \in Listed(page[p].endpoint) :
         page' = [page EXCEPT ![p] = [@ EXCEPT !.key = minted + 1, !.since = minted + 1,
                                              !.quote = quote, !.here = TRUE]]
    /\ Waits(p) => lost < MaxLost
    /\ lost' = IF Waits(p) THEN lost + 1 ELSE lost
    /\ req' = [r \in Requests |-> IF r[1] # p THEN req[r]
                                  ELSE IF Answered(r) THEN Nothing
                                  ELSE [req[r] EXCEPT !.heard = FALSE]]
    /\ UNCHANGED <<server, desk, told, stops>>

(* The page, axios or the proxy stops waiting; the server works on. *)
GiveUp(r) ==
    /\ lost < MaxLost /\ req[r].heard
    /\ lost' = lost + 1
    /\ req' = [req EXCEPT ![r] = IF Answered(r) THEN Nothing ELSE [@ EXCEPT !.heard = FALSE]]
    /\ UNCHANGED <<client, server, desk, told, stops>>

(* The page after a success: left, or with its next key, whichever tap it   *)
(* was that succeeded.                                                      *)
Succeed(p, since) ==
    IF page[p].endpoint \in LeftOnSuccess \/ minted = MaxKeys
    THEN page' = [page EXCEPT ![p].here = FALSE] /\ UNCHANGED minted
    ELSE /\ page' = [page EXCEPT ![p].key = minted + 1,
                                 ![p].since = IF @ = since THEN minted + 1 ELSE @]
         /\ minted' = minted + 1

(* The answer arrives. *)
Deliver(r) ==
    /\ Answered(r)
    /\ req' = [req EXCEPT ![r] = Nothing]
    /\ told' = IF req[r].answer.ok THEN told \cup {[key |-> req[r].key, got |-> req[r].answer.got]}
               ELSE told
    /\ IF req[r].answer.ok THEN Succeed(r[1], req[r].since) ELSE UNCHANGED client
    /\ UNCHANGED <<server, desk, lost, stops>>

-----------------------------------------------------------------------------
(* The server. *)

Outside == <<client, desk, told, lost, stops>>

(* checkIdempotentReplay: a stored response is the answer, and nothing else *)
(* is done.                                                                 *)
Replay(r) ==
    /\ At(r, "replay")
    /\ IF ledger[req[r].key] # None THEN Answer(r, Replied(ledger[req[r].key])) ELSE Goes(r)
    /\ UNCHANGED <<server, Outside>>

(* The file goes to object storage, which no transaction can take back. *)
Store(r) ==
    /\ At(r, "store")
    /\ \/ Goes(r)
       \/ lost < MaxLost /\ Answer(r, Refused)
    /\ UNCHANGED <<server, Outside>>

(* The load is off OPEN, the POD is not approved, the truck is grounded. *)
Gate(r) ==
    /\ At(r, "gate")
    /\ IF gate = "OPEN" THEN Goes(r) ELSE Answer(r, Refused)
    /\ UNCHANGED <<server, Outside>>

(* The transaction opens and looks for a row in the way, or for the one to  *)
(* withdraw.  It sees what is committed and locks nothing.                  *)
Clash(r) ==
    /\ At(r, "clash")
    /\ IF (IF Endpoint(r) = "WITHDRAW" THEN ~Submitted(req[r].body) ELSE InTheWay(Endpoint(r), req[r].body) # {})
       THEN Answer(r, Refused)
       ELSE Goes(r)
    /\ UNCHANGED <<server, Outside>>

(* The insert, the upsert or the compare-and-set, behind any transaction    *)
(* that has written the same row.  Only receipts are appended freely.       *)
Write(r) ==
    /\ At(r, "write")
    /\ Endpoint(r) # "POD" => \A s \in Requests \ {r} :
         HoldsRow(s) => ~SameRecord(Endpoint(r), req[s].body, req[r].body)
    /\ IF \/ Endpoint(r) = "WITHDRAW" /\ ~Submitted(req[r].body)
          \/ Endpoint(r) \in Once /\ InTheWay(Endpoint(r), req[r].body) # {}
       THEN Answer(r, Refused)
       ELSE Goes(r)
    /\ UNCHANGED <<server, Outside>>

(* mutant: the loser of the race keeps its write and its own answer *)
RecordQuietly(r) ==
    /\ At(r, "record")
    /\ \A s \in Requests \ {r} : HoldsKey(s) => req[s].key # req[r].key
    /\ Goes(r)
    /\ UNCHANGED <<server, Outside>>

(* mutant: the ledger is written on a connection of its own *)
RecordApart(r) ==
    /\ At(r, "record")
    /\ \A s \in Requests \ {r} : HoldsKey(s) => req[s].key # req[r].key
    /\ IF ledger[req[r].key] = None
       THEN Goes(r) /\ ledger' = [ledger EXCEPT ![req[r].key] = req[r].body]
       ELSE req' = [req EXCEPT ![r].left = <<"reread">>] /\ UNCHANGED ledger
    /\ UNCHANGED <<rows, Outside>>

(* record: the last statement of the transaction.  It waits for another     *)
(* that holds the same key; a key already there rolls the write back.       *)
Record(r) ==
    /\ At(r, "record")
    /\ \A s \in Requests \ {r} : HoldsKey(s) => req[s].key # req[r].key
    /\ IF ledger[req[r].key] = None
       THEN Goes(r)
       ELSE req' = [req EXCEPT ![r].left = <<"reread">>]
    /\ UNCHANGED <<server, Outside>>

(* The row and its ledger row, together. *)
Commit(r) ==
    /\ At(r, "commit")
    /\ rows' = Append(rows, [endpoint |-> Endpoint(r), key |-> req[r].key,
                             body |-> req[r].body, since |-> req[r].since])
    /\ ledger' = [ledger EXCEPT ![req[r].key] = req[r].body]
    /\ Answer(r, Replied(req[r].body))
    /\ UNCHANGED Outside

(* The loser of the race answers with what the winner stored. *)
Reread(r) ==
    /\ At(r, "reread")
    /\ Answer(r, IF ledger[req[r].key] # None THEN Replied(ledger[req[r].key]) ELSE Refused)
    /\ UNCHANGED <<server, Outside>>

(* The server restarts: what it worked on is gone, its transactions are     *)
(* rolled back, and the pages are told it failed.                           *)
Restart ==
    /\ stops < MaxStops
    /\ stops' = stops + 1
    /\ \E r \in Requests : req[r].busy
    /\ req' = [r \in Requests |-> Nothing]
    /\ UNCHANGED <<client, server, desk, told, lost>>

-----------------------------------------------------------------------------
(* The desk, as far as the portal's checks depend on it: Award and          *)
(* Settlement have it in full.                                              *)

Quoted == \E p \in Pages : page[p].endpoint = "QUOTE"
(* A withdrawal holds its quote until it commits. *)
QuoteFree == \A r \in Requests : HoldsRow(r) => Endpoint(r) # "WITHDRAW"
NotTheDesk == UNCHANGED <<client, req, server, told, lost, stops>>

(* The load is awarded to this transporter or another, whatever its stage:  *)
(* what is in play is accepted or rejected.                                 *)
Award ==
    /\ Quoted /\ QuoteFree
    /\ gate' = "SHUT" /\ decided' = Live("QUOTE")
    /\ UNCHANGED takenBack /\ NotTheDesk

(* The load is taken back: the quote it was awarded on goes, and those that  *)
(* were rejected are in play again.                                         *)
Reassign ==
    /\ Quoted /\ gate = "SHUT"
    /\ gate' = "OPEN" /\ decided' = {}
    /\ \E awarded \in {{}, decided} : takenBack' = takenBack \cup awarded
    /\ NotTheDesk

(* The load is cancelled and its quotes with it, but for the rejected ones. *)
Cancel ==
    /\ Quoted /\ QuoteFree /\ gate # "CANCELLED"
    /\ gate' = "CANCELLED"
    /\ \E rejected \in {{}, decided} :
         decided' = rejected /\ takenBack' = takenBack \cup (Live("QUOTE") \ rejected)
    /\ NotTheDesk

(* An undecided quote is removed while the load is open. *)
RemoveQuote ==
    /\ Quoted /\ QuoteFree /\ gate = "OPEN"
    /\ takenBack' = takenBack \cup (Live("QUOTE") \ decided)
    /\ UNCHANGED <<gate, decided>> /\ NotTheDesk

(* The proof of the trip is approved; it is never rejected after that. *)
ApproveProof ==
    /\ \E p \in Pages : page[p].endpoint = "BILL"
    /\ gate = "SHUT" /\ gate' = "OPEN"
    /\ UNCHANGED <<decided, takenBack>> /\ NotTheDesk

Desk == Award \/ Reassign \/ Cancel \/ RemoveQuote \/ ApproveProof

-----------------------------------------------------------------------------
Init ==
    /\ \E setup \in Setups :
         LET keyed == Keyed(setup)
             number == CHOOSE f \in [keyed -> 1 .. Cardinality(keyed)] : IsInjective(f)
         IN /\ page = [p \in Pages |->
                         IF p \in keyed
                         THEN [endpoint |-> setup[p], key |-> number[p], since |-> number[p],
                               quote |-> None, here |-> TRUE]
                         ELSE [endpoint |-> setup[p], key |-> None, since |-> None,
                               quote |-> None, here |-> FALSE]]
            /\ minted = Cardinality(keyed)
    /\ gate \in IF \E p \in Pages : page[p].endpoint \in {"BILL", "STATUS"} THEN {"OPEN", "SHUT"} ELSE {"OPEN"}
    /\ req = [r \in Requests |-> Nothing]
    /\ rows = <<>>
    /\ ledger = [k \in Keys |-> None]
    /\ decided = {} /\ takenBack = {}
    /\ told = {}
    /\ lost = 0
    /\ stops = 0

Serve(r) ==
    Replay(r) \/ Store(r) \/ Gate(r) \/ Clash(r) \/ Write(r) \/ Record(r) \/ Commit(r) \/ Reread(r)
      \/ Deliver(r)

Next ==
    \/ \E p \in Pages :
         \/ \E t \in Tries[p] : Tap(p, t)
         \/ Reopen(p)
    \/ \E r \in Requests : Serve(r) \/ GiveUp(r)
    \/ Restart
    \/ Desk

(* The server finishes what it has begun; a transporter who was not told    *)
(* taps again.                                                              *)
Fairness ==
    /\ \A r \in Requests : WF_vars(Serve(r))
    /\ \A p \in Pages : WF_vars(\E t \in Tries[p] : Tap(p, t))

Spec == Init /\ [][Next]_vars
FairSpec == Spec /\ Fairness

-----------------------------------------------------------------------------
TypeOK ==
    /\ page \in [Pages -> Page] /\ req \in [Requests -> Request]
    /\ \A r \in Requests : req[r].heard \/ req[r].left # <<>> => req[r].busy
    /\ rows \in Seq(Row)
    /\ ledger \in [Keys -> Bodies \cup {None} \cup Keys]
    /\ gate \in {"OPEN", "SHUT", "CANCELLED"}
    /\ decided \subseteq DOMAIN rows /\ takenBack \subseteq DOMAIN rows
    /\ told \subseteq [key : Keys, got : Bodies \cup Keys]
    /\ minted \in 0 .. MaxKeys /\ lost \in 0 .. MaxLost /\ stops \in 0 .. MaxStops

(* What a transporter sends from one opening of a page is written once, however *)
(* often it was tapped, whichever answer was lost and whatever happened since  *)
(* (a quote withdrawn, a load awarded): "a network drop and a re-tap of the    *)
(* button must not read as two attaches".  A truck's status is left out: its   *)
(* buttons do not wait, and the answer of an older tap drops the key of a      *)
(* newer one.                                                                  *)
OneWritePerSubmission ==
    \A i, j \in DOMAIN rows :
        /\ rows[i].endpoint = rows[j].endpoint /\ rows[i].endpoint \in Disabled
        /\ rows[i].since = rows[j].since
        => i = j

(* A key is in the ledger exactly when its write is committed, and the stored  *)
(* response is that write's: an interrupted write leaves neither.              *)
LedgerMatches ==
    \A k \in Keys :
        IF ledger[k] = None THEN \A i \in DOMAIN rows : rows[i].key # k
        ELSE \E i \in DOMAIN rows : rows[i].key = k /\ rows[i].body = ledger[k]

(* Every answer of success to one key says the same thing, and it is what was  *)
(* written: a replay cannot return something the first call did not.           *)
ToldTrue ==
    \A a \in told : \A i \in DOMAIN rows : rows[i].key = a.key => rows[i].body = a.got

(* A vendor has one quote on a load that is not withdrawn, a truck is        *)
(* registered once and a bill number used once, whichever pages look for a    *)
(* clash before either writes and whatever the desk awards, takes back,      *)
(* cancels or removes between the look and the write.                        *)
OneLive == \A e \in Once : \A i, j \in Live(e) : SameRecord(e, rows[i].body, rows[j].body) => i = j

(* A transporter whose write went through and who keeps tapping, on the page   *)
(* it was made from, is told it went through, even if the load was awarded,    *)
(* or the answers were lost, in between.                                       *)
Owed(p) ==
    /\ page[p].here /\ page[p].key # None /\ ledger[page[p].key] # None
    /\ \A a \in told : a.key # page[p].key
ToldInTheEnd == \A p \in Pages : []<>~Owed(p)

(* What the comments also say and the code does not do; no run checks these:   *)
(* the answer of success is about what this tap sent (profile/page.tsx:78-80), *)
(* and the loser of a race is answered with the winner's response              *)
(* (portal-idempotency.repository.ts:58-64).                                   *)
AnswerIsMine ==
    \A r \in Requests : Answered(r) /\ req[r].answer.ok => req[r].answer.got = req[r].body
RaceIsReplayed ==
    \A r \in Requests : Answered(r) /\ ledger[req[r].key] # None => req[r].answer.ok
=============================================================================
