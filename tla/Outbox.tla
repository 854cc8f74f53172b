------------------------------- MODULE Outbox -------------------------------
(***************************************************************************)
(* The queue of notifications, from the change that raises one to the       *)
(* mailbox or browser it lands in.                                          *)
(*                                                                         *)
(* A change raises its rows inside its own transaction, behind a savepoint;  *)
(* the reminder sweep raises the same occasion again day after day; three    *)
(* writers insert rows of another form by themselves.  A worker is one run   *)
(* of the dispatch job: it claims the oldest due rows in one statement,      *)
(* sends them one by one and writes the outcome of each by the row's id,     *)
(* with the attempts it read at the claim.  A claim not answered in ten      *)
(* minutes may be claimed by another worker while the first still sends.     *)
(* Time is left out: at any claim any of the rows that wait may be the ones  *)
(* whose retry has fallen due or whose claim has lapsed.                    *)
(*                                                                         *)
(* Source: apps/internal-api/src/modules/notifications and its callers.     *)
(***************************************************************************)
EXTENDS Integers, Sequences, FiniteSets, Functions

CONSTANTS
    Occasions,     \* things to tell one transporter or member of staff
    Workers,       \* processes that run the dispatch job
    Browsers,      \* browsers of that person
    Addresses,     \* e-mail addresses that person may have
    MaxRows,       \* bound on the rows
    MaxAttempts,   \* MAX_ATTEMPTS, 5 in the code
    Batch,         \* BATCH, 50 in the code
    MaxStops,      \* bound on the workers that stop half way
    Setups,        \* the setups a history may begin with
    None

ASSUME NoneAssumption == None \notin Addresses \cup {"SENT", "SKIPPED", "ERROR"}
ASSUME EndsAssumption == Addresses \cap Browsers = {}
ASSUME AttemptsAssumption == MaxAttempts \in Nat \ {0}
ASSUME BoundsAssumption == MaxRows \in Nat /\ Batch \in Nat \ {0} /\ MaxStops \in Nat

VARIABLES
    setup,      \* kind of each occasion, mail service, push and address of the console set or not
    happened,   \* the change behind an occasion
    queued,     \* rows its open transaction has inserted
    rows,       \* the notifications table, oldest first
    work,       \* what each worker holds
    reached,    \* ghost: where each occasion has arrived
    again,      \* ghost: where it has arrived a second time
    stops       \* ghost: workers stopped so far

vars == <<setup, happened, queued, rows, work, reached, again, stops>>

Kinds   == {"CHANGE", "REMINDER", "JOB", "INVITE"}
Channel == {"EMAIL", "PUSH", "SMS"}
Ends    == Addresses \cup Browsers
Open    == {"PENDING", "SENDING"}
Settled == {"SENT", "SKIPPED", "FAILED"}
Marks   == {"LOST", "LAPSED"}

Rows == 1..Len(rows)
Row  ==
    [occasion : Occasions, channel : Channel, to : Addresses \cup {None},
     status : Open \cup Settled, attempts : 0..MaxAttempts,
     tries : Nat, marks : SUBSET Marks]      \* ghosts: sends that failed, how it may go twice

(* What a worker claimed, the row in hand, its outcome, the browsers left to   *)
(* send it to, whether one took it and whether one failed.                   *)
Held == [row : 1..MaxRows, attempts : 0..(MaxAttempts - 1)]
ASSUME NotHeldAssumption == None \notin Held

Work ==
    [todo : SUBSET Held, now : Held \cup {None}, outcome : {"SENT", "SKIPPED", "ERROR", None},
     left : SUBSET Browsers, some : BOOLEAN, bad : BOOLEAN]
Idle == [todo |-> {}, now |-> None, outcome |-> None, left |-> {}, some |-> FALSE, bad |-> FALSE]

Setup ==
    [kind : [Occasions -> Kinds], mail : {"RESEND", "BREVO", "NONE"}, push : BOOLEAN, url : BOOLEAN]

ASSUME SetupsAssumption == Setups \subseteq Setup

-----------------------------------------------------------------------------
(* Raising *)

(* E-mail and browsers of the person change at any time, by the console, the  *)
(* portal and a browser that is gone; whoever reads them finds any.          *)
Contact == [channel : {"EMAIL"}, to : Addresses] \cup [channel : {"PUSH"}, to : {None}]
Recipients == {them \in SUBSET Contact : \A r, q \in them : r.channel = q.channel => r = q}

(* mutant: rows inserted without the key *)
UnqueuedAnyway(o, them) == them

(* dedupe_key: occasion, channel, recipient. *)
Unqueued(o, them) ==
    {r \in them : \A i \in Rows :
        ~(rows[i].occasion = o /\ rows[i].channel = r.channel /\ rows[i].to = r.to)}

Pending(o, r) ==
    [occasion |-> o, channel |-> r.channel, to |-> r.to, status |-> "PENDING", attempts |-> 0,
     tries |-> 0, marks |-> {}]

(* mutant: a key that is there is queued anew *)
InsertOrRevive(o, them) ==
    \E n \in 0..(MaxRows - Len(rows)) : \E new \in Bijection(1..n, them) :
        rows' = [i \in Rows |-> IF rows[i].occasion = o
                                THEN [rows[i] EXCEPT !.status = "PENDING", !.attempts = 0] ELSE rows[i]]
                    \o [k \in 1..n |-> Pending(o, new[k])]

(* Rows of one insertion have one created_at: their order is open. *)
Insert(o, them) ==
    \E n \in 0..(MaxRows - Len(rows)) : \E new \in Bijection(1..n, them) :
        rows' = rows \o [k \in 1..n |-> Pending(o, new[k])]

(* mutant: a notification is raised in a transaction of its own *)
BeginOutside(o) ==
    /\ setup.kind[o] = "CHANGE" /\ happened[o] = "NOT"
    /\ happened' = [happened EXCEPT ![o] = "OPEN"]
    /\ \E them \in Recipients : Insert(o, Unqueued(o, them))
    /\ UNCHANGED <<setup, queued, work, reached, again, stops>>

(* A change begins and raises its occasion; what goes wrong with the raising *)
(* is undone to the savepoint and the change goes on without it (them = {}). *)
Begin(o) ==
    /\ setup.kind[o] = "CHANGE" /\ happened[o] = "NOT"
    /\ happened' = [happened EXCEPT ![o] = "OPEN"]
    /\ \E them \in Recipients : queued' = [queued EXCEPT ![o] = Unqueued(o, them)]
    /\ UNCHANGED <<setup, rows, work, reached, again, stops>>

Commit(o) ==
    /\ happened[o] = "OPEN"
    /\ happened' = [happened EXCEPT ![o] = "MADE"]
    /\ queued' = [queued EXCEPT ![o] = {}]
    /\ Insert(o, queued[o])
    /\ UNCHANGED <<setup, work, reached, again, stops>>

RollBack(o) ==
    /\ happened[o] = "OPEN"
    /\ happened' = [happened EXCEPT ![o] = "UNDONE"]
    /\ queued' = [queued EXCEPT ![o] = {}]
    /\ UNCHANGED <<setup, rows, work, reached, again, stops>>

(* The reminder sweep, for as long as the reminder is due. *)
Remind(o) ==
    /\ setup.kind[o] = "REMINDER"
    /\ \E them \in Recipients : Insert(o, Unqueued(o, them))
    /\ UNCHANGED <<setup, happened, queued, work, reached, again, stops>>

(* The forfeiture and document-expiry jobs insert an e-mail to the            *)
(* transporter's id, the activation of a transporter an SMS: no key, and a    *)
(* payload without what the sending reads.                                   *)
InsertBare(o) ==
    /\ setup.kind[o] \in {"JOB", "INVITE"}
    /\ Insert(o, {[channel |-> IF setup.kind[o] = "JOB" THEN "EMAIL" ELSE "SMS", to |-> None]})
    /\ UNCHANGED <<setup, happened, queued, work, reached, again, stops>>

-----------------------------------------------------------------------------
(* Sending *)

(* mutant: a claim is never taken over *)
WaitingPending == {i \in Rows : rows[i].status = "PENDING"}

Waiting == {i \in Rows : rows[i].status \in Open}

Oldest(ready) == {i \in ready : Cardinality({j \in ready : j < i}) < Batch}

Hand(w)     == work[w].todo \cup ({work[w].now} \ {None})
Holds(w, i) == \E h \in Hand(w) : h.row = i

Claimed(i, v) ==
    [rows[i] EXCEPT !.status = "SENDING",
                    !.marks = @ \cup {m \in {"LAPSED"} : rows[i].status = "SENDING" \/ v}]

(* One statement, FOR UPDATE SKIP LOCKED: two claims take different rows.     *)
(* Of the rows that wait, ready are the PENDING ones that are due and the     *)
(* SENDING ones claimed more than ten minutes ago.                          *)
Claim(w, ready) ==
    /\ work[w] = Idle
    /\ work' = [work EXCEPT ![w].todo = {[row |-> i, attempts |-> rows[i].attempts] : i \in Oldest(ready)}]
    /\ rows' = [i \in Rows |->
         IF i \in Oldest(ready) THEN Claimed(i, \E v \in Workers : Holds(v, i)) ELSE rows[i]]
    /\ UNCHANGED <<setup, happened, queued, reached, again, stops>>

(* The next row, in the order the claim returned them, which is open. *)
Takes(w, h, channel) ==
    /\ h \in work[w].todo /\ work[w].now = None
    /\ rows[h.row].channel = channel

InHand(w, h, outcome, left) ==
    work' = [work EXCEPT ![w] = [Idle EXCEPT !.todo = work[w].todo \ {h}, !.now = h,
                                             !.outcome = outcome, !.left = left]]

Arrives(o, e) ==
    /\ reached' = [reached EXCEPT ![o] = @ \cup {e}]
    /\ again' = IF e \in reached[o] THEN again \cup {<<o, e>>} ELSE again

NotArriving == UNCHANGED <<reached, again>>

Marked(row, marks) == [row EXCEPT !.marks = @ \cup marks]
Failed(row, marks) ==
    [row EXCEPT !.tries = IF @ > MaxAttempts THEN @ ELSE @ + 1, !.marks = @ \cup marks]
Tried(i, marks) == rows' = [rows EXCEPT ![i] = Failed(@, marks)]

(* sendOne, EMAIL.  A row without a text fails before it reaches the service. *)
(* Resend keeps the idempotency key of the row and sends it on once; Brevo   *)
(* takes it for a header.  An answer may be lost on the way back.            *)
SendMail(w, h) ==
    LET o == rows[h.row].occasion
        e == rows[h.row].to
        mail == IF setup.kind[o] = "JOB" THEN "NO_TEXT" ELSE setup.mail
    IN
    /\ Takes(w, h, "EMAIL")
    /\ \/ /\ mail = "NONE"
          /\ InHand(w, h, "SKIPPED", {}) /\ NotArriving /\ UNCHANGED rows
       \/ /\ mail # "NONE"
          /\ InHand(w, h, "ERROR", {}) /\ Tried(h.row, {}) /\ NotArriving
       \/ /\ mail \in {"RESEND", "BREVO"}
          /\ \/ InHand(w, h, "SENT", {}) /\ UNCHANGED rows
             \/ InHand(w, h, "ERROR", {}) /\ Tried(h.row, {"LOST"})
          /\ IF mail = "RESEND" /\ e \in reached[o] THEN NotArriving ELSE Arrives(o, e)
    /\ UNCHANGED <<setup, happened, queued, stops>>

(* sendOne, SMS: no gateway is built in.  The one row of this channel has no  *)
(* text, which the link of a console with an address reads before that.      *)
SendSms(w, h) ==
    /\ Takes(w, h, "SMS")
    /\ \/ setup.url /\ InHand(w, h, "ERROR", {}) /\ Tried(h.row, {})
       \/ ~setup.url /\ InHand(w, h, "SKIPPED", {}) /\ UNCHANGED rows
    /\ UNCHANGED <<setup, happened, queued, reached, again, stops>>

(* sendOne, PUSH: the browsers are read once, then sent to one by one. *)
OpenPush(w, h) ==
    /\ Takes(w, h, "PUSH")
    /\ \/ /\ setup.push
          /\ \E browsers \in SUBSET Browsers \ {{}} : InHand(w, h, None, browsers)
       \/ InHand(w, h, "SKIPPED", {})      \* not set up, or no browser
    /\ UNCHANGED <<setup, happened, queued, rows, reached, again, stops>>

(* mutant: SENT although no browser took it *)
VerdictSent(some, bad) == IF some \/ ~bad THEN "SENT" ELSE "ERROR"

Verdict(some, bad) == IF some THEN "SENT" ELSE IF bad THEN "ERROR" ELSE "SKIPPED"

(* One browser answers; after the last, the row has its outcome. *)
Answered(w, b, ok, err) ==
    LET some == work[w].some \/ ok
        bad  == work[w].bad \/ err
        left == work[w].left \ {b}
    IN  work' = [work EXCEPT ![w] =
          IF left = {}
          THEN [@ EXCEPT !.left = {}, !.outcome = Verdict(some, bad), !.some = FALSE, !.bad = FALSE]
          ELSE [@ EXCEPT !.left = left, !.some = some, !.bad = bad]]

(* Counted when this answer makes the whole row an ERROR. *)
PushTried(w, b, marks) ==
    IF work[w].left = {b} /\ ~work[w].some
    THEN Tried(work[w].now.row, marks)
    ELSE rows' = [rows EXCEPT ![work[w].now.row] = Marked(@, marks)]

PushTo(w, b) ==
    LET o == rows[work[w].now.row].occasion IN
    /\ b \in work[w].left
    /\ \/ Answered(w, b, TRUE, FALSE) /\ Arrives(o, b) /\ UNCHANGED rows
       \/ /\ Answered(w, b, FALSE, FALSE)      \* gone: its subscription is deleted
          /\ IF work[w].bad THEN PushTried(w, b, {}) ELSE UNCHANGED rows
          /\ NotArriving
       \/ Answered(w, b, FALSE, TRUE) /\ PushTried(w, b, {}) /\ NotArriving
       \/ Answered(w, b, FALSE, TRUE) /\ PushTried(w, b, {"LOST"}) /\ Arrives(o, b)
    /\ UNCHANGED <<setup, happened, queued, stops>>

-----------------------------------------------------------------------------
(* Recording *)

(* mutant: gives up one attempt early *)
AnswerEarly(row, attempts, outcome) ==
    CASE outcome = "SENT"    -> [row EXCEPT !.status = "SENT", !.attempts = attempts + 1]
      [] outcome = "SKIPPED" -> [row EXCEPT !.status = "SKIPPED"]
      [] outcome = "ERROR"   ->
           [row EXCEPT !.attempts = attempts + 1,
                       !.status = IF attempts + 2 >= MaxAttempts THEN "FAILED" ELSE "PENDING"]

(* The outcome is written by the row's id, whatever the row has become. *)
Answer(row, attempts, outcome) ==
    CASE outcome = "SENT"    -> [row EXCEPT !.status = "SENT", !.attempts = attempts + 1]
      [] outcome = "SKIPPED" -> [row EXCEPT !.status = "SKIPPED"]
      [] outcome = "ERROR"   ->
           [row EXCEPT !.attempts = attempts + 1,
                       !.status = IF attempts + 1 >= MaxAttempts THEN "FAILED" ELSE "PENDING"]

Record(w) ==
    /\ work[w].outcome # None
    /\ rows' = [rows EXCEPT ![work[w].now.row] = Answer(@, work[w].now.attempts, work[w].outcome)]
    /\ work' = [work EXCEPT ![w] = [Idle EXCEPT !.todo = work[w].todo]]
    /\ UNCHANGED <<setup, happened, queued, reached, again, stops>>

(* The process ends, or the database refuses the write: the rest of the      *)
(* batch stays SENDING until the claim lapses.                              *)
Stop(w) ==
    /\ work[w] # Idle /\ stops < MaxStops
    /\ stops' = stops + 1
    /\ work' = [work EXCEPT ![w] = Idle]
    /\ UNCHANGED <<setup, happened, queued, rows, reached, again>>

-----------------------------------------------------------------------------
Init ==
    /\ setup \in Setups
    /\ happened = [o \in Occasions |-> "NOT"]
    /\ queued = [o \in Occasions |-> {}]
    /\ rows = <<>>
    /\ work = [w \in Workers |-> Idle]
    /\ reached = [o \in Occasions |-> {}]
    /\ again = {}
    /\ stops = 0

Send(w) ==
    \/ \E h \in work[w].todo : SendMail(w, h) \/ SendSms(w, h) \/ OpenPush(w, h)
    \/ \E b \in Browsers : PushTo(w, b)

Next ==
    \/ \E o \in Occasions : Begin(o) \/ Commit(o) \/ RollBack(o) \/ Remind(o) \/ InsertBare(o)
    \/ \E w \in Workers, ready \in SUBSET Waiting \ {{}} : Claim(w, ready)
    \/ \E w \in Workers : Send(w) \/ Record(w) \/ Stop(w)

Spec == Init /\ [][Next]_vars

Claims(i) == \E w \in Workers, ready \in SUBSET Waiting : i \in Oldest(ready) /\ Claim(w, ready)

(* The job runs every minute, by one process or another, and a row that waits *)
(* falls due or lapses and stays so until a claim takes it; a send ends with  *)
(* an answer or an error, and a process that stops is started again (Idle).  *)
Fairness ==
    /\ \A w \in Workers : WF_vars(Send(w)) /\ WF_vars(Record(w))
    /\ \A i \in 1..MaxRows : SF_vars(Claims(i))

LiveSpec == Spec /\ Fairness
-----------------------------------------------------------------------------
(* Properties *)

(* Rows, batches and ghosts keep their shape; a row that waits has attempts   *)
(* left.                                                                    *)
TypeOK ==
    /\ setup \in Setup
    /\ happened \in [Occasions -> {"NOT", "OPEN", "MADE", "UNDONE"}]
    /\ queued \in [Occasions -> SUBSET Contact]
    /\ rows \in Seq(Row) /\ Len(rows) <= MaxRows
    /\ \A i \in Rows : rows[i].status \in Open => rows[i].attempts < MaxAttempts
    /\ work \in [Workers -> Work]
    /\ \A w \in Workers : (\A h \in Hand(w) : h.row \in Rows)
                         /\ (work[w].outcome # None \/ work[w].left # {} => work[w].now # None)
    /\ reached \in [Occasions -> SUBSET Ends]
    /\ again \subseteq Occasions \X Ends
    /\ stops \in 0..MaxStops

(* "A notification exists only if the change does": nothing of a change that  *)
(* is still open or was rolled back is in the queue, let alone delivered.    *)
OnlyWithItsChange ==
    \A o \in Occasions : setup.kind[o] = "CHANGE" /\ happened[o] # "MADE" =>
        reached[o] = {} /\ \A i \in Rows : rows[i].occasion # o

(* However often an occasion is raised again, nobody hears of it twice at    *)
(* one address or browser, unless an answer was lost or a claim lapsed, the    *)
(* worker slow or stopped; and never by e-mail through Resend.               *)
ToldOnce ==
    \A p \in again :
        /\ \E i \in Rows : rows[i].occasion = p[1] /\ rows[i].marks # {}
        /\ p[2] \in Addresses => setup.mail = "BREVO"

(* A row shown as SENT has arrived at the address it was queued for, or at a  *)
(* browser of the person.                                                   *)
SentHasArrived ==
    \A i \in Rows : rows[i].status = "SENT" =>
        IF rows[i].channel = "EMAIL" THEN rows[i].to \in reached[rows[i].occasion]
                                     ELSE reached[rows[i].occasion] \cap Browsers # {}

(* A row is given up after MaxAttempts sends that failed and no earlier,      *)
(* whatever attempts its workers read and overwrote.                        *)
NotGivenUpEarly ==
    \A i \in Rows : rows[i].status = "FAILED" => rows[i].tries >= MaxAttempts

(* A row that is answered for, and that no worker still holds, keeps its       *)
(* answer: the sweep may raise it again and workers may claim around it.    *)
AnsweredForGood ==
    [][\A i \in Rows : rows[i].status \in Settled /\ ~(\E w \in Workers : Holds(w, i)) =>
          rows'[i].status = rows[i].status]_vars

(* Every row queued comes to rest, sent, skipped or failed, though workers    *)
(* stop, claims lapse and slow workers overwrite each other's attempts.      *)
ComesToRest ==
    \A i \in 1..MaxRows :
        (i \in Rows) ~> [](i \in Rows /\ rows[i].status \in Settled)

(* A notice of the nightly jobs, "what gives Compliance thirty days'         *)
(* warning", is given up only if a mail service failed it.  The code does not  *)
(* keep this and no run checks it: see README, Deviations without a run.     *)
WarningGetsOut ==
    \A i \in Rows : rows[i].status = "FAILED" => setup.kind[rows[i].occasion] # "JOB"
=============================================================================
