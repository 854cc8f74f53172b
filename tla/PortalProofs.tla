---------------------------- MODULE PortalProofs ----------------------------
(***************************************************************************)
(* The portal's ledger for any pages, tries and bodies and any bounds: one *)
(* write to a key, the row and its ledger row together, every answer of    *)
(* success the stored one, one write from one opening of a page, and one   *)
(* live quote on a load, one truck and one bill of a number.               *)
(***************************************************************************)
EXTENDS Portal, FiniteSetTheorems, FunctionTheorems, SequenceTheorems, TLAPS

(* What a request holds depends on the order of its steps: it has written   *)
(* its row before it records its key, recorded that before it commits, and  *)
(* it ends with its answer.                                                 *)
InOrder(s) ==
    /\ \A n \in 2 .. Len(s) : /\ s[n] = "commit" => s[n - 1] = "record"
                              /\ s[n] = "record" => s[n - 1] = "write"
    /\ s # <<>> => s[Len(s)] \in {"commit", "reread"}

Due(q, step) == q.left # <<>> /\ Head(q.left) = step
Wrote(q) == Due(q, "record") \/ Due(q, "commit")
Done(q) == q.busy /\ q.left = <<>>

(* What one request may be while page, ledger and rows are what they are:   *)
(* at its commit no one else has stored its key, since its write no row is  *)
(* in its way, and the answer it waits to deliver is the stored one.        *)
Fits(r, q) ==
    /\ q.heard \/ q.left # <<>> => q.busy
    /\ q.busy => /\ q.key \in Keys /\ q.since \in Keys /\ q.body \in Bodies \cup Keys
                 /\ Endpoint(r) \in Endpoints
    /\ InOrder(q.left)
    /\ Done(q) => q.heard
    /\ Done(q) /\ q.answer.ok => q.answer.got = ledger[q.key] /\ ledger[q.key] # None
    /\ Due(q, "commit") => ledger[q.key] = None
    /\ Wrote(q) /\ Endpoint(r) \in Once => InTheWay(Endpoint(r), q.body) = {}
    /\ Endpoint(r) \in Disabled => /\ q.busy => q.since = q.key
                                   /\ q.heard => q.since = page[r[1]].since
RequestsFit == \A r \in Requests : Fits(r, req[r])

(* What two may be: of one key one is at its commit, of one record one is   *)
(* written, and on a page that waits one is waited for.                     *)
Apart(r, q, s, z) ==
    /\ Due(q, "commit") /\ Due(z, "commit") => q.key # z.key
    /\ Wrote(q) /\ Wrote(z) => \/ "POD" \in {Endpoint(r), Endpoint(s)}
                               \/ "BILL" \in {Endpoint(r), Endpoint(s)} /\ q.body # z.body
    /\ r[1] = s[1] /\ Endpoint(r) \in Disabled => ~ (q.heard /\ z.heard)
RequestsApart == \A r, s \in Requests : r # s => Apart(r, req[r], s, req[s])

(* On a page that waits for its answers the key is as old as the opening. *)
PagesFit ==
    \A p \in Pages :
        /\ page[p].here => page[p].key \in Keys /\ page[p].since \in Keys /\ page[p].endpoint # Unused
        /\ page[p].endpoint \in Disabled => page[p].since = page[p].key

RowsFit ==
    /\ \A i, j \in DOMAIN rows : rows[i].key = rows[j].key => i = j
    /\ \A i \in DOMAIN rows : rows[i].endpoint \in Disabled => rows[i].since = rows[i].key

AnswersStored == \A a \in told : ledger[a.key] = a.got

IInv == /\ TypeOK /\ RequestsFit /\ RequestsApart /\ PagesFit /\ RowsFit /\ LedgerMatches
        /\ AnswersStored /\ OneLive

-----------------------------------------------------------------------------
(* The steps of a handler. *)

LEMMA HandlerOrder ==
    ASSUME NEW e \in Endpoints
    PROVE  /\ Handler(e) \in Seq(Steps) /\ Handler(e) # <<>> /\ InOrder(Handler(e))
           /\ Head(Handler(e)) \notin {"record", "commit"}
<1> DEFINE Early == {"replay", "gate", "clash", "store"}
<1>1. Before(e) \in Seq(Early) /\ Before(e) # <<>>
  <2>1. CASE e = "QUOTE"
    <3>1. Before(e) = <<"replay", "gate", "clash">> BY <2>1 DEF Before
    <3> QED BY <3>1
  <2>2. CASE e \in {"WITHDRAW", "VEHICLE"}
    <3>1. Before(e) = <<"replay", "clash">> BY <2>2 DEF Before
    <3> QED BY <3>1
  <2>3. CASE e = "STATUS"
    <3>1. Before(e) = <<"replay", "gate">> BY <2>3 DEF Before
    <3> QED BY <3>1
  <2>4. CASE e \in {"PAPER", "POD"}
    <3>1. Before(e) = <<"replay", "store", "replay">> BY <2>4 DEF Before
    <3> QED BY <3>1
  <2>5. CASE e = "BILL"
    <3>1. Before(e) = <<"gate", "replay", "store", "replay", "clash">> BY <2>5 DEF Before
    <3> QED BY <3>1
  <2> QED BY <2>1, <2>2, <2>3, <2>4, <2>5 DEF Endpoints
<1>2. Change \in Seq(Steps) /\ Len(Change) = 3
      /\ Change[1] = "write" /\ Change[2] = "record" /\ Change[3] = "commit"
  BY DEF Change, Steps
<1>3. /\ Len(Before(e)) \in Nat \ {0} /\ Before(e) \in Seq(Steps)
      /\ \A n \in 1 .. Len(Before(e)) : Before(e)[n] \in Early
  BY <1>1, EmptySeq, ElementOfSeq, SeqMonotonic, LenProperties DEF Steps
<1> DEFINE b == Before(e)  m == Len(Before(e))  h == Handler(e)
<1>4. /\ h \in Seq(Steps) /\ Len(h) = m + 3
      /\ \A n \in 1 .. m + 3 : h[n] = IF n <= m THEN b[n] ELSE Change[n - m]
  <2> DEFINE c == Change
  <2>1. b \in Seq(Steps) /\ c \in Seq(Steps) /\ Len(c) = 3 /\ m = Len(b) /\ h = b \o c
    BY <1>2, <1>3 DEF Handler
  <2> HIDE DEF b, c, m, h
  <2>2. /\ h \in Seq(Steps) /\ Len(h) = Len(b) + Len(c)
        /\ \A i \in 1 .. Len(b) + Len(c) : h[i] = IF i <= Len(b) THEN b[i] ELSE c[i - Len(b)]
    BY <2>1, ConcatProperties
  <2> QED BY <2>1, <2>2 DEF c
<1> HIDE DEF b, m, h
<1>5. m \in Nat \ {0} /\ \A n \in 1 .. m : b[n] \in Early
  BY <1>3 DEF m, b
<1>6. /\ \A n \in 1 .. m : h[n] \in Early
      /\ h[m + 1] = "write" /\ h[m + 2] = "record" /\ h[m + 3] = "commit"
  BY <1>2, <1>4, <1>5
<1>7. h # <<>> /\ Head(h) = h[1]
  BY <1>4, <1>5, EmptySeq
<1>8. InOrder(h)
  <2> SUFFICES ASSUME NEW n \in 2 .. m + 3
               PROVE  (h[n] = "commit" => h[n - 1] = "record") /\ (h[n] = "record" => h[n - 1] = "write")
    BY <1>4, <1>6 DEF InOrder
  <2>1. CASE n \in 1 .. m BY <1>6, <2>1
  <2>2. CASE n = m + 1 BY <1>6, <2>2
  <2>3. CASE n = m + 2
    <3>1. n - 1 = m + 1 BY <1>5, <2>3
    <3> QED BY <1>6, <2>3, <3>1
  <2>4. CASE n = m + 3
    <3>1. n - 1 = m + 2 BY <1>5, <2>4
    <3> QED BY <1>6, <2>4, <3>1
  <2> QED BY <1>5, <2>1, <2>2, <2>3, <2>4
<1> QED BY <1>4, <1>5, <1>6, <1>7, <1>8 DEF h

LEMMA TailOrder ==
    ASSUME NEW s \in Seq(Steps), s # <<>>, InOrder(s)
    PROVE  /\ Tail(s) \in Seq(Steps) /\ InOrder(Tail(s))
           /\ Head(s) \notin {"commit", "reread"} => Tail(s) # <<>>
           /\ Tail(s) # <<>> =>
                /\ Head(Tail(s)) = "commit" => Head(s) = "record"
                /\ Head(Tail(s)) = "record" => Head(s) = "write"
<1> DEFINE t == Tail(s)
<1>1. /\ t \in Seq(Steps) /\ Len(t) = Len(s) - 1 /\ Len(s) \in Nat \ {0}
      /\ \A i \in 1 .. Len(t) : t[i] = s[i + 1]
  BY HeadTailProperties, EmptySeq
<1>2. Head(s) = s[1]
  OBVIOUS
<1>3. t # <<>> => Head(t) = t[1] /\ Len(t) \in Nat \ {0}
  BY <1>1, EmptySeq
<1> HIDE DEF t
<1>4. InOrder(t)
  <2> SUFFICES ASSUME NEW n \in 2 .. Len(t)
               PROVE  (t[n] = "commit" => t[n - 1] = "record") /\ (t[n] = "record" => t[n - 1] = "write")
    <3>1. t # <<>> => t[Len(t)] = s[Len(s)]
      BY <1>1, <1>3
    <3> QED BY <1>1, <3>1, EmptySeq DEF InOrder
  <2>1. t[n] = s[n + 1] /\ t[n - 1] = s[n] /\ n + 1 \in 2 .. Len(s) /\ (n + 1) - 1 = n
    BY <1>1
  <2> QED BY <2>1 DEF InOrder
<1>5. ASSUME t # <<>>
      PROVE  (Head(t) = "commit" => Head(s) = "record") /\ (Head(t) = "record" => Head(s) = "write")
  <2>1. t[1] = s[2] /\ 2 \in 2 .. Len(s) /\ 2 - 1 = 1
    BY <1>1, <1>3, <1>5
  <2> QED BY <1>2, <1>3, <1>5, <2>1 DEF InOrder
<1>6. Head(s) \notin {"commit", "reread"} => t # <<>>
  BY <1>1, <1>2, EmptySeq DEF InOrder
<1> QED BY <1>1, <1>4, <1>5, <1>6 DEF t

-----------------------------------------------------------------------------
(* One request changes, or goes. *)

LEMMA PageOf == ASSUME NEW r \in Requests  PROVE r[1] \in Pages
  BY DEF Requests

LEMMA NothingFits ==
    ASSUME NEW r \in Requests
    PROVE  /\ Nothing \in Request /\ Fits(r, Nothing)
           /\ \A s \in Requests, z \in Request : Apart(r, Nothing, s, z)
<1>1. Nothing \in Request
  BY EmptySeq DEF Nothing, NoAnswer, Request, Answers
<1>2. InOrder(<<>>)
  BY EmptySeq DEF InOrder
<1>3. ~ Nothing.busy /\ ~ Nothing.heard /\ Nothing.left = <<>>
  BY DEF Nothing
<1> QED BY <1>1, <1>2, <1>3 DEF Fits, Apart, Due, Wrote, Done

LEMMA ApartIsMutual ==
    ASSUME NEW r, NEW q, NEW s, NEW z, Apart(r, q, s, z)
    PROVE  Apart(s, z, r, q)
  BY DEF Apart, Endpoint

Settled == req' \in [Requests -> Request] /\ RequestsFit' /\ RequestsApart'

LEMMA OneRequest ==
    ASSUME IInv, NEW r \in Requests, NEW q \in Request, req' = [req EXCEPT ![r] = q],
           UNCHANGED <<page, rows, ledger, takenBack>>,
           Fits(r, q), \A s \in Requests : s # r => Apart(r, q, s, req[s])
    PROVE  Settled
<1>1. /\ req \in [Requests -> Request] /\ req' \in [Requests -> Request]
      /\ req'[r] = q /\ \A s \in Requests : s # r => req'[s] = req[s]
  BY DEF IInv, TypeOK
<1>2. \A s, x : Fits(s, x)' <=> Fits(s, x)
  BY DEF Fits, Endpoint, InTheWay, SameRecord, Live, Withdrawn
<1>3. \A s, x, v, y : Apart(s, x, v, y)' <=> Apart(s, x, v, y)
  BY DEF Apart, Endpoint
<1>4. \A s \in Requests : Fits(s, req'[s])
  BY <1>1 DEF IInv, RequestsFit
<1>5. \A s, v \in Requests : s # v => Apart(s, req'[s], v, req'[v])
  BY <1>1, ApartIsMutual DEF IInv, RequestsApart
<1> QED BY <1>1, <1>2, <1>3, <1>4, <1>5 DEF Settled, RequestsFit, RequestsApart

-----------------------------------------------------------------------------
(* The server's steps but the commit.  A request goes on: it may write when *)
(* no other has and no row is in its way, and stand at its commit when its  *)
(* key is neither stored nor at another's.                                  *)
Clear(r) ==
    /\ Endpoint(r) # "POD" => \A s \in Requests \ {r} :
         HoldsRow(s) => ~SameRecord(Endpoint(r), req[s].body, req[r].body)
    /\ Endpoint(r) \in Once => InTheWay(Endpoint(r), req[r].body) = {}
Free(r) ==
    /\ ledger[req[r].key] = None
    /\ \A s \in Requests \ {r} : HoldsKey(s) => req[s].key # req[r].key

LEMMA GoesOn ==
    ASSUME IInv, NEW r \in Requests, NEW step \in Steps \ {"commit", "reread"}, At(r, step), Goes(r),
           UNCHANGED <<page, rows, ledger, takenBack>>,
           step = "write" => Clear(r), step = "record" => Free(r)
    PROVE  Settled
<1> DEFINE left == req[r].left
           q == [req[r] EXCEPT !.left = Tail(left)]
<1>1. req[r] \in Request /\ left \in Seq(Steps) /\ left # <<>> /\ Head(left) = step
  BY DEF IInv, TypeOK, At, Request
<1>2. Fits(r, req[r]) /\ \A s \in Requests : s # r => Apart(r, req[r], s, req[s])
  BY DEF IInv, RequestsFit, RequestsApart
<1>3. /\ Tail(left) \in Seq(Steps) /\ InOrder(Tail(left)) /\ Tail(left) # <<>>
      /\ Head(Tail(left)) = "commit" => step = "record"
      /\ Head(Tail(left)) = "record" => step = "write"
  BY <1>1, <1>2, TailOrder DEF Fits
<1>4. /\ q \in Request /\ q.left = Tail(left) /\ q.busy = req[r].busy /\ q.key = req[r].key
      /\ q.body = req[r].body /\ q.since = req[r].since /\ q.heard = req[r].heard
      /\ q.answer = req[r].answer
  BY <1>1, <1>3 DEF Request
<1>5. req' = [req EXCEPT ![r] = q]
  BY DEF Goes
<1> HIDE DEF q, left
<1>6. /\ Due(q, "commit") => Due(req[r], "record") /\ Free(r)
      /\ Wrote(q) => Wrote(req[r]) \/ Clear(r)
  BY <1>1, <1>3, <1>4 DEF Due, Wrote, left
<1>7. Fits(r, q)
  <2>1. Wrote(q) /\ Endpoint(r) \in Once => InTheWay(Endpoint(r), q.body) = {}
    BY <1>2, <1>4, <1>6 DEF Fits, Clear
  <2>2. Due(q, "commit") => ledger[q.key] = None
    BY <1>4, <1>6 DEF Free
  <2>3. ~ Done(q) /\ InOrder(q.left) /\ q.busy
    BY <1>1, <1>2, <1>3, <1>4 DEF Done, Fits, left
  <2> QED BY <1>2, <1>4, <2>1, <2>2, <2>3 DEF Fits
<1>8. ASSUME NEW s \in Requests, s # r  PROVE Apart(r, q, s, req[s])
  <2>1. Due(q, "commit") /\ Due(req[s], "commit") => q.key # req[s].key
    BY <1>4, <1>6, <1>8 DEF Free, HoldsKey, At, Due
  <2>2. Wrote(q) /\ Wrote(req[s]) => \/ "POD" \in {Endpoint(r), Endpoint(s)}
                                     \/ "BILL" \in {Endpoint(r), Endpoint(s)} /\ q.body # req[s].body
    BY <1>2, <1>4, <1>6, <1>8 DEF Apart, Clear, SameRecord, HoldsRow, At, Wrote, Due
  <2> QED BY <1>2, <1>4, <1>8, <2>1, <2>2 DEF Apart
<1> QED BY <1>4, <1>5, <1>7, <1>8, OneRequest

(* It is answered, and with a success only if that is stored. *)
Stored(r, a) == a.ok => a.got = ledger[req[r].key] /\ ledger[req[r].key] # None

LEMMA AnsweredFits ==
    ASSUME NEW r \in Requests, NEW a \in Answers, req[r] \in Request, Fits(r, req[r]), Stored(r, a)
    PROVE  LET q == IF req[r].heard THEN [req[r] EXCEPT !.left = <<>>, !.answer = a] ELSE Nothing
           IN /\ q \in Request /\ Fits(r, q) /\ q.heard = req[r].heard
              /\ ~ Wrote(q) /\ ~ Due(q, "commit")
              /\ \A s \in Requests, z \in Request : Apart(r, req[r], s, z) => Apart(r, q, s, z)
<1>1. CASE ~ req[r].heard
  <2>1. /\ ~ Nothing.heard /\ Nothing.left = <<>> BY DEF Nothing
  <2> QED BY <1>1, <2>1, NothingFits DEF Wrote, Due, Request
<1>2. CASE req[r].heard
  <2> DEFINE q == [req[r] EXCEPT !.left = <<>>, !.answer = a]
  <2>1. /\ q \in Request /\ q.left = <<>> /\ q.busy = req[r].busy /\ q.key = req[r].key
        /\ q.body = req[r].body /\ q.since = req[r].since /\ q.heard = req[r].heard
        /\ q.answer = a
    BY EmptySeq DEF Request
  <2> HIDE DEF q
  <2>2. InOrder(<<>>) BY EmptySeq DEF InOrder
  <2>3. Fits(r, q)
    BY <1>2, <2>1, <2>2 DEF Fits, Stored, Done, Due, Wrote
  <2>4. \A s \in Requests, z \in Request : Apart(r, req[r], s, z) => Apart(r, q, s, z)
    BY <2>1 DEF Apart, Due, Wrote
  <2> QED BY <1>2, <2>1, <2>3, <2>4 DEF q, Wrote, Due
<1> QED BY <1>1, <1>2

LEMMA IsAnswered ==
    ASSUME IInv, NEW r \in Requests, NEW a \in Answers, Stored(r, a), Answer(r, a),
           UNCHANGED <<page, rows, ledger, takenBack>>
    PROVE  Settled
<1> DEFINE q == IF req[r].heard THEN [req[r] EXCEPT !.left = <<>>, !.answer = a] ELSE Nothing
<1>1. req[r] \in Request /\ Fits(r, req[r])
      /\ \A s \in Requests : s # r => Apart(r, req[r], s, req[s]) /\ req[s] \in Request
  BY DEF IInv, TypeOK, RequestsFit, RequestsApart
<1>2. /\ q \in Request /\ Fits(r, q)
      /\ \A s \in Requests, z \in Request : Apart(r, req[r], s, z) => Apart(r, q, s, z)
  BY <1>1, AnsweredFits
<1>3. req' = [req EXCEPT ![r] = q]
  BY DEF Answer
<1> HIDE DEF q
<1> QED BY <1>1, <1>2, <1>3, OneRequest

(* It lost the race to its key and reads the ledger again. *)
LEMMA RereadsNext ==
    ASSUME IInv, NEW r \in Requests, req[r].busy, req' = [req EXCEPT ![r].left = <<"reread">>],
           UNCHANGED <<page, rows, ledger, takenBack>>
    PROVE  Settled
<1> DEFINE s1 == <<"reread">>
           q == [req[r] EXCEPT !.left = s1]
<1>1. req[r] \in Request /\ Fits(r, req[r]) /\ \A s \in Requests : s # r => Apart(r, req[r], s, req[s])
  BY DEF IInv, TypeOK, RequestsFit, RequestsApart
<1>2. s1 \in Seq(Steps) /\ InOrder(s1) /\ s1 # <<>> /\ Head(s1) = "reread"
  BY DEF Steps, InOrder
<1>3. req' = [req EXCEPT ![r] = q]
  OBVIOUS
<1> HIDE DEF s1
<1>4. /\ q \in Request /\ q.left = s1 /\ q.busy = req[r].busy /\ q.key = req[r].key
      /\ q.body = req[r].body /\ q.since = req[r].since /\ q.heard = req[r].heard
      /\ q.answer = req[r].answer
  BY <1>1, <1>2 DEF Request
<1> HIDE DEF q
<1>5. Fits(r, q)
  BY <1>1, <1>2, <1>4 DEF Fits, Done, Due, Wrote
<1>6. \A s \in Requests : s # r => Apart(r, q, s, req[s])
  BY <1>1, <1>2, <1>4 DEF Apart, Due, Wrote
<1> QED BY <1>3, <1>4, <1>5, <1>6, OneRequest

(* With nothing else touched the rest stands. *)
LEMMA RestStands ==
    ASSUME IInv, Settled, UNCHANGED <<client, server, desk, told>>,
           lost' \in 0 .. MaxLost, stops' \in 0 .. MaxStops
    PROVE  IInv'
<1>1. UNCHANGED <<page, minted, rows, ledger, gate, decided, takenBack, told>>
  BY DEF server, client, desk
<1>2. \A r \in Requests : req'[r].heard \/ req'[r].left # <<>> => req'[r].busy
  BY DEF Settled, RequestsFit, Fits
<1>3. TypeOK' BY <1>1, <1>2 DEF IInv, TypeOK, Settled
<1>4. PagesFit' /\ RowsFit' /\ LedgerMatches' /\ AnswersStored'
  BY <1>1 DEF IInv, PagesFit, RowsFit, LedgerMatches, AnswersStored
<1>5. OneLive' BY <1>1 DEF IInv, OneLive, SameRecord, Live, Withdrawn
<1> QED BY <1>3, <1>4, <1>5 DEF IInv, Settled

Checks(r) == Replay(r) \/ Store(r) \/ Gate(r) \/ Clash(r) \/ Write(r) \/ Record(r) \/ Reread(r)

LEMMA CheckStep ==
    ASSUME IInv, NEW r \in Requests, Checks(r)
    PROVE  IInv'
<1>1. UNCHANGED <<client, server, desk, told>> /\ lost' \in 0 .. MaxLost /\ stops' \in 0 .. MaxStops
  BY DEF Outside, IInv, TypeOK, Checks, Replay, Store, Gate, Clash, Write, Record, Reread
<1>2. UNCHANGED <<page, rows, ledger, takenBack>>
  BY <1>1 DEF server, client, desk
<1>3. Refused \in Answers /\ Stored(r, Refused)
  BY DEF Refused, NoAnswer, Answers, Stored
<1>4. ASSUME req[r].busy, ledger[req[r].key] # None
      PROVE  Replied(ledger[req[r].key]) \in Answers /\ Stored(r, Replied(ledger[req[r].key]))
  BY <1>4 DEF IInv, TypeOK, RequestsFit, Fits, Replied, Answers, Stored
<1>5. \A step : At(r, step) => req[r].busy
  BY DEF IInv, TypeOK, At
<1> USE DEF Steps
<1>6. CASE Replay(r)
  BY <1>1, <1>2, <1>4, <1>5, <1>6, GoesOn, IsAnswered, RestStands DEF Replay
<1>7. CASE Store(r)
  BY <1>1, <1>2, <1>3, <1>7, GoesOn, IsAnswered, RestStands DEF Store
<1>8. CASE Gate(r)
  BY <1>1, <1>2, <1>3, <1>8, GoesOn, IsAnswered, RestStands DEF Gate
<1>9. CASE Clash(r)
  BY <1>1, <1>2, <1>3, <1>9, GoesOn, IsAnswered, RestStands DEF Clash
<1>10. CASE Write(r)
  <2>1. Answer(r, Refused) \/ (Goes(r) /\ Clear(r))
    BY <1>10 DEF Write, Clear
  <2> QED BY <1>1, <1>2, <1>3, <1>10, <2>1, GoesOn, IsAnswered, RestStands DEF Write
<1>11. CASE Record(r)
  <2>1. (Goes(r) /\ Free(r)) \/ req' = [req EXCEPT ![r].left = <<"reread">>]
    BY <1>11 DEF Record, Free
  <2>2. At(r, "record")
    BY <1>11 DEF Record
  <2> QED BY <1>1, <1>2, <1>5, <2>1, <2>2, GoesOn, RereadsNext, RestStands
<1>12. CASE Reread(r)
  BY <1>1, <1>2, <1>3, <1>4, <1>5, <1>12, IsAnswered, RestStands DEF Reread
<1> QED BY <1>6, <1>7, <1>8, <1>9, <1>10, <1>11, <1>12 DEF Checks

-----------------------------------------------------------------------------
(* The pages: a tap sends the key and the opening of its page. *)
LEMMA TapStep ==
    ASSUME IInv, NEW p \in Pages, NEW t \in Tries[p], Tap(p, t)
    PROVE  IInv'
<1> DEFINE r == <<p, t>>
<1>1. r \in Requests /\ r[1] = p
  BY DEF Requests
<1>2. PICK body \in Sendable(p) : req' = [req EXCEPT ![r] = Tapped(p, page[p].key, body)]
  BY DEF Tap
<1> DEFINE h == Handler(page[p].endpoint)
           q == Tapped(p, page[p].key, body)
<1>3. page[p] \in Page /\ page[p].here
  BY DEF IInv, TypeOK, Tap
<1>4. /\ page[p].key \in Keys /\ page[p].since \in Keys /\ page[p].endpoint \in Endpoints
      /\ page[p].endpoint \in Disabled => page[p].since = page[p].key
  BY <1>3 DEF IInv, PagesFit, Page
<1>5. h \in Seq(Steps) /\ h # <<>> /\ InOrder(h) /\ Head(h) \notin {"record", "commit"}
  BY <1>4, HandlerOrder
<1>6. body \in Bodies \cup Keys
  BY <1>3 DEF Sendable, Page
<1> HIDE DEF h
<1>7. /\ q \in Request /\ q.busy /\ q.left = h /\ q.key = page[p].key /\ q.body = body
      /\ q.since = page[p].since /\ q.heard
  BY <1>4, <1>5, <1>6, NothingFits, <1>1 DEF Tapped, Request, h, Nothing
<1> HIDE DEF q, r
<1>8. ~ Wrote(q) /\ ~ Due(q, "commit") /\ ~ Done(q) /\ Endpoint(r) = page[p].endpoint
  BY <1>1, <1>5, <1>7 DEF Wrote, Due, Done, Endpoint
<1>9. Fits(r, q)
  BY <1>1, <1>4, <1>5, <1>6, <1>7, <1>8 DEF Fits
<1>10. ASSUME NEW s \in Requests, s # r, s[1] = p, page[p].endpoint \in Disabled
       PROVE  ~ req[s].heard
  <2>1. PICK u \in Tries[p] : s = <<p, u>> BY <1>10 DEF Requests
  <2> QED BY <1>10, <2>1 DEF Tap, Waits
<1>11. \A s \in Requests : s # r => Apart(r, q, s, req[s])
  BY <1>1, <1>8, <1>10 DEF Apart
<1>12. /\ UNCHANGED <<client, server, desk, told>> /\ UNCHANGED <<page, rows, ledger, takenBack>>
       /\ lost' \in 0 .. MaxLost /\ stops' \in 0 .. MaxStops
  BY DEF Tap, client, server, desk, IInv, TypeOK
<1>13. Settled
  BY <1>1, <1>2, <1>7, <1>9, <1>11, <1>12, OneRequest DEF q, r
<1> QED BY <1>12, <1>13, RestStands

(* A request nobody waits for any more. *)
Unheard(r) == IF Answered(r) THEN Nothing ELSE [req[r] EXCEPT !.heard = FALSE]

LEMMA UnheardFits ==
    ASSUME NEW r \in Requests, req[r] \in Request, Fits(r, req[r])
    PROVE  /\ Unheard(r) \in Request /\ Fits(r, Unheard(r)) /\ ~ Unheard(r).heard
           /\ Wrote(Unheard(r)) => Wrote(req[r]) /\ Unheard(r).body = req[r].body
           /\ Due(Unheard(r), "commit") => Due(req[r], "commit")
           /\ Unheard(r).busy => Unheard(r).key = req[r].key
<1>1. CASE Answered(r)
  <2>1. Unheard(r) = Nothing /\ ~ Nothing.heard /\ ~ Nothing.busy /\ Nothing.left = <<>>
    BY <1>1 DEF Unheard, Nothing
  <2> QED BY <2>1, NothingFits DEF Wrote, Due
<1>2. CASE ~ Answered(r)
  <2> DEFINE q == [req[r] EXCEPT !.heard = FALSE]
  <2>1. /\ q \in Request /\ q.left = req[r].left /\ q.busy = req[r].busy /\ q.key = req[r].key
        /\ q.body = req[r].body /\ q.since = req[r].since /\ q.heard = FALSE
        /\ q.answer = req[r].answer
    BY DEF Request
  <2>2. Unheard(r) = q BY <1>2 DEF Unheard
  <2> HIDE DEF q
  <2>3. ~ Done(q) /\ (Wrote(q) <=> Wrote(req[r])) /\ (Due(q, "commit") <=> Due(req[r], "commit"))
    BY <1>2, <2>1 DEF Done, Answered, Wrote, Due
  <2>4. Fits(r, q)
    BY <2>1, <2>3 DEF Fits
  <2> QED BY <2>1, <2>2, <2>3, <2>4
<1> QED BY <1>1, <1>2

LEMMA GiveUpStep ==
    ASSUME IInv, NEW r \in Requests, GiveUp(r)
    PROVE  IInv'
<1>1. req[r] \in Request /\ Fits(r, req[r]) /\ \A s \in Requests : s # r => Apart(r, req[r], s, req[s])
  BY DEF IInv, TypeOK, RequestsFit, RequestsApart
<1> DEFINE q == Unheard(r)
<1>2. /\ q \in Request /\ Fits(r, q) /\ ~ q.heard /\ (Wrote(q) => Wrote(req[r]) /\ q.body = req[r].body)
      /\ (Due(q, "commit") => Due(req[r], "commit")) /\ (q.busy => q.key = req[r].key)
  BY <1>1, UnheardFits
<1>3. req' = [req EXCEPT ![r] = q]
  BY DEF GiveUp, Unheard
<1> HIDE DEF q
<1>4. \A s \in Requests : s # r => Apart(r, q, s, req[s])
  BY <1>1, <1>2 DEF Apart, Fits, Due
<1>5. UNCHANGED <<client, server, desk, told>> /\ UNCHANGED <<page, rows, ledger, takenBack>>
      /\ lost' \in 0 .. MaxLost /\ stops' \in 0 .. MaxStops
  BY PortalAssumption DEF GiveUp, client, server, desk, IInv, TypeOK
<1>6. Settled
  BY <1>2, <1>3, <1>4, <1>5, OneRequest
<1> QED BY <1>5, <1>6, RestStands

LEMMA RestartStep ==
    ASSUME IInv, Restart
    PROVE  IInv'
<1>1. req' = [r \in Requests |-> Nothing] /\ UNCHANGED <<client, server, desk, told, lost>>
  BY DEF Restart
<1>2. /\ Nothing \in Request /\ \A r \in Requests : Fits(r, Nothing)
      /\ \A r, s \in Requests : Apart(r, Nothing, s, Nothing)
  <2>1. \A r \in Requests : /\ Nothing \in Request /\ Fits(r, Nothing)
                            /\ \A s \in Requests, z \in Request : Apart(r, Nothing, s, z)
    BY NothingFits
  <2>2. Nothing \in Request
    BY EmptySeq DEF Nothing, NoAnswer, Request, Answers
  <2> QED BY <2>1, <2>2
<1>3. UNCHANGED <<page, rows, ledger, takenBack>>
  BY <1>1 DEF client, server, desk
<1>4. \A r, x : Fits(r, x)' <=> Fits(r, x)
  BY <1>3 DEF Fits, Endpoint, InTheWay, SameRecord, Live, Withdrawn
<1>5. \A r, x, s, z : Apart(r, x, s, z)' <=> Apart(r, x, s, z)
  BY <1>3 DEF Apart, Endpoint
<1>6. \A r \in Requests : req'[r] = Nothing
  BY <1>1
<1>7. Settled
  BY <1>1, <1>2, <1>4, <1>5, <1>6 DEF Settled, RequestsFit, RequestsApart
<1>8. lost' \in 0 .. MaxLost /\ stops' \in 0 .. MaxStops
  BY PortalAssumption DEF Restart, IInv, TypeOK
<1> QED BY <1>1, <1>7, <1>8, RestStands

(* The desk decides what is there, and only takes quotes away. *)
LEMMA DeskStep ==
    ASSUME IInv, Desk
    PROVE  IInv'
<1>1. UNCHANGED <<page, minted, req, rows, ledger, told, lost, stops>>
  BY DEF Desk, Award, Reassign, Cancel, RemoveQuote, ApproveProof, NotTheDesk, client, server
<1>2. /\ gate' \in {"OPEN", "SHUT", "CANCELLED"} /\ decided' \subseteq DOMAIN rows
      /\ takenBack' \subseteq DOMAIN rows /\ takenBack \subseteq takenBack'
  <2>1. Live("QUOTE") \subseteq DOMAIN rows BY DEF Live
  <2>2. gate \in {"OPEN", "SHUT", "CANCELLED"} /\ decided \subseteq DOMAIN rows /\ takenBack \subseteq DOMAIN rows
    BY DEF IInv, TypeOK
  <2>3. CASE Award BY <2>1, <2>2, <2>3 DEF Award
  <2>4. CASE Reassign BY <2>2, <2>4 DEF Reassign
  <2>5. CASE Cancel BY <2>1, <2>2, <2>5 DEF Cancel
  <2>6. CASE RemoveQuote BY <2>1, <2>2, <2>6 DEF RemoveQuote
  <2>7. CASE ApproveProof BY <2>2, <2>7 DEF ApproveProof
  <2> QED BY <2>3, <2>4, <2>5, <2>6, <2>7 DEF Desk
<1>3. TypeOK' BY <1>1, <1>2 DEF IInv, TypeOK
<1>4. \A e : Live(e)' \subseteq Live(e)
  BY <1>1, <1>2 DEF Live, Withdrawn
<1>5. \A e, x : InTheWay(e, x)' \subseteq InTheWay(e, x)
  BY <1>1, <1>4 DEF InTheWay, SameRecord
<1>6. \A r, x : Fits(r, x) => Fits(r, x)'
  BY <1>1, <1>5 DEF Fits, Endpoint
<1>7. \A r, x, s, z : Apart(r, x, s, z)' <=> Apart(r, x, s, z)
  BY <1>1 DEF Apart, Endpoint
<1>8. RequestsFit' /\ RequestsApart'
  BY <1>1, <1>6, <1>7 DEF IInv, RequestsFit, RequestsApart
<1>9. PagesFit' /\ RowsFit' /\ LedgerMatches' /\ AnswersStored'
  BY <1>1 DEF IInv, PagesFit, RowsFit, LedgerMatches, AnswersStored
<1>10. OneLive' BY <1>1, <1>4 DEF IInv, OneLive, SameRecord
<1> QED BY <1>3, <1>8, <1>9, <1>10 DEF IInv

-----------------------------------------------------------------------------
(* Steps of a page that change its key: what the requests were to each      *)
(* other they remain, as long as the pages keep their endpoints, and what   *)
(* each was too, unless it waits on a page that was opened anew.            *)
LEMMA PagesMove ==
    ASSUME IInv, UNCHANGED <<rows, ledger, takenBack>>, page' \in [Pages -> Page],
           \A p \in Pages : page'[p].endpoint = page[p].endpoint
    PROVE  /\ \A r \in Requests : Endpoint(r)' = Endpoint(r)
           /\ \A r, s \in Requests : \A x, z : Apart(r, x, s, z)' <=> Apart(r, x, s, z)
           /\ \A r \in Requests : \A x :
                 Fits(r, x) /\ (Endpoint(r) \in Disabled /\ x.heard => x.since = page'[r[1]].since)
                   => Fits(r, x)'
<1>1. \A r \in Requests : Endpoint(r)' = Endpoint(r)
  BY PageOf DEF Endpoint
<1>2. \A e, b : InTheWay(e, b)' = InTheWay(e, b)
  BY DEF InTheWay, SameRecord, Live, Withdrawn
<1> QED BY <1>1, <1>2 DEF Fits, Apart

LEMMA DeliverStep ==
    ASSUME IInv, NEW r \in Requests, Deliver(r)
    PROVE  IInv'
<1> DEFINE p == r[1]
           q == req[r]
<1>1. /\ p \in Pages /\ q \in Request /\ Fits(r, q) /\ page \in [Pages -> Page] /\ page[p] \in Page
      /\ Answered(r) /\ UNCHANGED <<rows, ledger, gate, decided, takenBack, lost, stops>>
      /\ req' = [req EXCEPT ![r] = Nothing] /\ req \in [Requests -> Request]
  BY PageOf DEF IInv, TypeOK, RequestsFit, Deliver, server, desk
<1>2. q.heard /\ q.key \in Keys /\ q.since \in Keys
  BY <1>1 DEF Fits, Answered, Done
<1>3. /\ page' \in [Pages -> Page] /\ minted' \in 0 .. MaxKeys
      /\ \A o \in Pages : o # p => page'[o] = page[o]
      /\ page'[p].endpoint = page[p].endpoint
      /\ page'[p].here => page[p].here /\ page'[p].key \in Keys /\ page'[p].since \in Keys
      /\ page[p].endpoint \in Disabled => page'[p].since = page'[p].key
  <2>1. minted \in 0 .. MaxKeys /\ MaxKeys \in Nat
    BY PortalAssumption DEF IInv, TypeOK
  <2>2. page[p].here => page[p].key \in Keys /\ page[p].since \in Keys
    BY <1>1 DEF IInv, PagesFit
  <2>3. page[p].endpoint \in Disabled => page[p].since = page[p].key
    BY <1>1 DEF IInv, PagesFit
  <2>4. CASE UNCHANGED client
    BY <1>1, <2>1, <2>2, <2>3, <2>4 DEF client
  <2>5. CASE Succeed(p, q.since) /\ (page[p].endpoint \in LeftOnSuccess \/ minted = MaxKeys)
    <3>1. page' = [page EXCEPT ![p].here = FALSE] /\ UNCHANGED minted
      BY <2>5 DEF Succeed
    <3> QED BY <1>1, <2>1, <2>2, <2>3, <3>1 DEF Page
  <2>6. CASE Succeed(p, q.since) /\ ~ (page[p].endpoint \in LeftOnSuccess \/ minted = MaxKeys)
    <3>1. minted + 1 \in Keys /\ minted + 1 \in 0 .. MaxKeys
      BY <2>1, <2>6 DEF Keys
    <3>2. /\ page' = [page EXCEPT ![p].key = minted + 1,
                                  ![p].since = IF @ = q.since THEN minted + 1 ELSE @]
          /\ minted' = minted + 1
      BY <2>6 DEF Succeed
    <3> DEFINE n == minted + 1
               since == IF page[p].since = q.since THEN n ELSE page[p].since
    <3>3. page' = [page EXCEPT ![p] = [page[p] EXCEPT !.key = n, !.since = since]]
      BY <1>1, <3>2 DEF Page
    <3>4. page[p].endpoint \in Disabled => page[p].since = q.since
      BY <1>1, <1>2 DEF Fits, Endpoint
    <3>5. n \in Keys /\ since \in Keys \cup {None} /\ (page[p].here => since \in Keys)
      BY <1>1, <2>2, <3>1 DEF Page
    <3>6. page[p].endpoint \in Disabled => since = n
      BY <3>4
    <3> HIDE DEF n, since
    <3>7. /\ page' \in [Pages -> Page] /\ \A o \in Pages : o # p => page'[o] = page[o]
          /\ page'[p].endpoint = page[p].endpoint /\ page'[p].here = page[p].here
          /\ page'[p].key = n /\ page'[p].since = since
      BY <1>1, <3>3, <3>5 DEF Page
    <3> QED BY <3>1, <3>2, <3>5, <3>6, <3>7
  <2> QED BY <2>4, <2>5, <2>6 DEF Deliver
<1>4. /\ told' \subseteq [key : Keys, got : Bodies \cup Keys]
      /\ \A a \in told' : ledger'[a.key] = a.got
  <2> DEFINE a == [key |-> q.key, got |-> q.answer.got]
  <2>1. told' = told \/ (q.answer.ok /\ told' = told \cup {a})
    BY DEF Deliver
  <2>2. q.answer.ok => ledger[q.key] = q.answer.got /\ q.answer.got \in Bodies \cup Keys
    BY <1>1, <1>2 DEF Fits, Answered, Done, IInv, TypeOK
  <2> QED BY <1>1, <1>2, <2>1, <2>2 DEF IInv, TypeOK, AnswersStored
<1>5. ASSUME NEW s \in Requests
      PROVE  req'[s] \in Request /\ Fits(s, req[s])'
  <2>1. /\ UNCHANGED <<rows, ledger, takenBack>> /\ \A o \in Pages : page'[o].endpoint = page[o].endpoint
    BY <1>1, <1>3
  <2>2. Fits(s, req'[s]) /\ req'[s] \in Request
    BY <1>1, NothingFits DEF IInv, RequestsFit
  <2>3. Endpoint(s) \in Disabled /\ req'[s].heard => req'[s].since = page'[s[1]].since
    <3>1. CASE s[1] # p
      BY <1>1, <1>3, <2>2, <3>1, PageOf DEF Fits
    <3>2. CASE s[1] = p /\ s # r
      <4>1. Endpoint(s) \in Disabled => ~ req[s].heard
        BY <1>2, <3>2 DEF IInv, RequestsApart, Apart
      <4> QED BY <1>1, <3>2, <4>1
    <3>3. CASE s = r
      BY <1>1, <3>3 DEF Nothing
    <3> QED BY <3>1, <3>2, <3>3
  <2> QED BY <1>3, <2>1, <2>2, <2>3, PagesMove
<1>6. ASSUME NEW s \in Requests, NEW v \in Requests, s # v
      PROVE  Apart(s, req[s], v, req[v])'
  <2>1. /\ UNCHANGED <<rows, ledger, takenBack>> /\ \A o \in Pages : page'[o].endpoint = page[o].endpoint
    BY <1>1, <1>3
  <2>2. Apart(s, req'[s], v, req'[v])
    <3>1. CASE s = r \/ v = r
      BY <1>1, <3>1, NothingFits, ApartIsMutual
    <3>2. CASE s # r /\ v # r
      BY <1>1, <1>6, <3>2 DEF IInv, RequestsApart
    <3> QED BY <3>1, <3>2
  <2> QED BY <1>3, <2>1, <2>2, PagesMove
<1>7. RequestsFit' /\ RequestsApart'
  BY <1>5, <1>6 DEF RequestsFit, RequestsApart
<1>8. TypeOK'
  <2>1. \A s \in Requests : req'[s].heard \/ req'[s].left # <<>> => req'[s].busy
    BY <1>5 DEF Fits
  <2>2. req' \in [Requests -> Request]
    BY <1>1, <1>5
  <2> QED BY <1>1, <1>3, <1>4, <2>1, <2>2 DEF IInv, TypeOK
<1>9. PagesFit'
  BY <1>1, <1>3 DEF IInv, PagesFit
<1>10. RowsFit' /\ LedgerMatches' /\ AnswersStored'
  BY <1>1, <1>4 DEF IInv, RowsFit, LedgerMatches, AnswersStored
<1>11. OneLive' BY <1>1 DEF IInv, OneLive, SameRecord, Live, Withdrawn
<1> QED BY <1>7, <1>8, <1>9, <1>10, <1>11 DEF IInv

(* As many rows as keys at most, so that a quote's number is one of Keys. *)
LEMMA RowsAreKeys ==
    ASSUME TypeOK, RowsFit
    PROVE  DOMAIN rows \subseteq Keys
<1> DEFINE n == Len(rows)
           f == [i \in 1 .. n |-> rows[i].key]
<1>1. n \in Nat /\ DOMAIN rows = 1 .. n /\ \A i \in 1 .. n : rows[i].key \in Keys
  <2>1. rows \in Seq(Row) BY DEF TypeOK
  <2>2. n \in Nat /\ DOMAIN rows = 1 .. n BY <2>1, LenProperties
  <2>3. \A i \in 1 .. n : rows[i] \in Row BY <2>1, ElementOfSeq
  <2> QED BY <2>2, <2>3 DEF Row
<1>2. f \in Injection(1 .. n, Keys)
  BY <1>1 DEF RowsFit, Injection, IsInjective
<1>3. /\ IsFiniteSet(Keys) /\ Cardinality(Keys) = MaxKeys /\ MaxKeys \in Nat
      /\ Cardinality(1 .. n) = n
  BY <1>1, FS_Interval, PortalAssumption DEF Keys
<1> HIDE DEF f
<1>4. Cardinality(1 .. n) <= Cardinality(Keys)
  BY <1>2, <1>3, FS_Injection
<1> QED BY <1>1, <1>3, <1>4 DEF Keys

LEMMA ReopenStep ==
    ASSUME IInv, NEW p \in Pages, Reopen(p)
    PROVE  IInv'
<1> DEFINE n == minted + 1
<1>1. PICK quote \in Listed(page[p].endpoint) :
         page' = [page EXCEPT ![p] = [page[p] EXCEPT !.key = n, !.since = n, !.quote = quote, !.here = TRUE]]
  BY DEF Reopen, IInv, TypeOK
<1>2. /\ UNCHANGED <<rows, ledger, gate, decided, takenBack, told, stops>>
      /\ minted' = n /\ n \in Keys /\ n \in 0 .. MaxKeys /\ lost' \in 0 .. MaxLost
      /\ page[p].endpoint # Unused
  BY PortalAssumption DEF Reopen, IInv, TypeOK, server, desk, Keys
<1>3. quote \in Keys \cup {None}
  BY RowsAreKeys DEF IInv, Listed
<1> HIDE DEF n
<1>4. page \in [Pages -> Page] /\ page[p] \in Page
  BY DEF IInv, TypeOK
<1>5. /\ page' \in [Pages -> Page] /\ \A o \in Pages : o # p => page'[o] = page[o]
      /\ page'[p].endpoint = page[p].endpoint /\ page'[p].key = n /\ page'[p].since = n
  BY <1>1, <1>2, <1>3, <1>4 DEF Page
<1>6. \A o \in Pages : page'[o].endpoint = page[o].endpoint
  BY <1>5
<1>7. \A s \in Requests : req'[s] = IF s[1] # p THEN req[s] ELSE Unheard(s)
  BY DEF Reopen, Unheard
<1>8. \A s \in Requests :
         /\ req[s] \in Request /\ Fits(s, req[s])
         /\ Unheard(s) \in Request /\ Fits(s, Unheard(s)) /\ ~ Unheard(s).heard
         /\ Wrote(Unheard(s)) => Wrote(req[s]) /\ Unheard(s).body = req[s].body
         /\ Due(Unheard(s), "commit") => Due(req[s], "commit")
         /\ Unheard(s).busy => Unheard(s).key = req[s].key
  BY UnheardFits DEF IInv, TypeOK, RequestsFit
<1>9. ASSUME NEW s \in Requests  PROVE req'[s] \in Request /\ Fits(s, req[s])'
  <2>1. req'[s] \in Request /\ Fits(s, req'[s])
    BY <1>7, <1>8
  <2>2. Endpoint(s) \in Disabled /\ req'[s].heard => req'[s].since = page'[s[1]].since
    BY <1>5, <1>7, <1>8, <2>1, PageOf DEF Fits
  <2> QED BY <1>2, <1>5, <1>6, <2>1, <2>2, PagesMove
<1>10. ASSUME NEW s \in Requests, NEW v \in Requests, s # v
       PROVE  Apart(s, req[s], v, req[v])'
  <2>1. Apart(s, req[s], v, req[v])
    BY <1>10 DEF IInv, RequestsApart
  <2>2. \A u \in {s, v} :
           /\ Wrote(req'[u]) => Wrote(req[u]) /\ req'[u].body = req[u].body
           /\ req'[u].heard => req[u].heard
           /\ Due(req'[u], "commit") => Due(req[u], "commit") /\ req'[u].key = req[u].key
    BY <1>7, <1>8 DEF Fits, Due
  <2>3. Apart(s, req'[s], v, req'[v])
    BY <1>7, <1>8, <2>1, <2>2 DEF Apart
  <2> QED BY <1>2, <1>5, <1>6, <2>3, PagesMove
<1>11. RequestsFit' /\ RequestsApart'
  BY <1>9, <1>10 DEF RequestsFit, RequestsApart
<1>12. TypeOK'
  <2>1. \A s \in Requests : req'[s].heard \/ req'[s].left # <<>> => req'[s].busy
    BY <1>9 DEF Fits
  <2>2. req' \in [Requests -> Request]
    BY <1>9 DEF Reopen
  <2> QED BY <1>2, <1>5, <2>1, <2>2 DEF IInv, TypeOK
<1>13. PagesFit'
  BY <1>2, <1>5 DEF IInv, PagesFit
<1>14. RowsFit' /\ LedgerMatches' /\ AnswersStored'
  BY <1>2 DEF IInv, RowsFit, LedgerMatches, AnswersStored
<1>15. OneLive' BY <1>2 DEF IInv, OneLive, SameRecord, Live, Withdrawn
<1> QED BY <1>11, <1>12, <1>13, <1>14, <1>15 DEF IInv

-----------------------------------------------------------------------------
(* The commit: a row more, under a key that had none, and nobody else's     *)
(* claim upon either is touched.                                            *)
LEMMA NoneIsNoBody == ASSUME NEW b \in Bodies \cup Keys  PROVE b # None
  BY PortalAssumption DEF None, Keys

LEMMA CommitStep ==
    ASSUME IInv, NEW r \in Requests, Commit(r)
    PROVE  IInv'
<1> DEFINE k == req[r].key
           b == req[r].body
           e == Endpoint(r)
           n == Len(rows)
           new == [endpoint |-> e, key |-> k, body |-> b, since |-> req[r].since]
           a == Replied(b)
           q == IF req[r].heard THEN [req[r] EXCEPT !.left = <<>>, !.answer = a] ELSE Nothing
<1>1. /\ req \in [Requests -> Request] /\ req[r] \in Request /\ Fits(r, req[r])
      /\ Due(req[r], "commit") /\ Wrote(req[r])
      /\ rows' = Append(rows, new) /\ ledger' = [ledger EXCEPT ![k] = b]
      /\ req' = [req EXCEPT ![r] = q]
      /\ UNCHANGED <<page, minted, gate, decided, takenBack, told, lost, stops>>
  BY DEF Commit, Answer, At, Due, Wrote, IInv, TypeOK, RequestsFit, Outside, client, desk
<1>2. /\ req[r].busy /\ k \in Keys /\ b \in Bodies \cup Keys /\ e \in Endpoints /\ ledger[k] = None
      /\ req[r].since \in Keys /\ (e \in Disabled => req[r].since = k)
      /\ (e \in Once => InTheWay(e, b) = {})
  BY <1>1 DEF Fits, Due
<1>3. /\ new \in Row /\ new.endpoint = e /\ new.key = k /\ new.body = b /\ new.since = req[r].since
  BY <1>2 DEF Row
<1>4. b # None
  BY <1>2, NoneIsNoBody
<1> HIDE DEF new
<1>5. /\ ledger' \in [Keys -> Bodies \cup {None} \cup Keys] /\ ledger'[k] = b
      /\ \A x \in Keys : x # k => ledger'[x] = ledger[x]
  BY <1>1, <1>2 DEF IInv, TypeOK
<1>6. /\ rows' \in Seq(Row) /\ n \in Nat /\ DOMAIN rows = 1 .. n /\ DOMAIN rows' = 1 .. (n + 1)
      /\ rows'[n + 1] = new /\ \A i \in 1 .. n : rows'[i] = rows[i] /\ rows[i] \in Row
  <2>1. rows \in Seq(Row) BY DEF IInv, TypeOK
  <2>2. n \in Nat /\ DOMAIN rows = 1 .. n BY <2>1, LenProperties
  <2>3. rows' \in Seq(Row) /\ Len(rows') = n + 1 /\ rows'[n + 1] = new
        /\ \A i \in 1 .. n : rows'[i] = rows[i]
    BY <1>1, <1>3, <2>1, AppendProperties
  <2>4. DOMAIN rows' = 1 .. (n + 1) BY <2>3, LenProperties
  <2>5. \A i \in 1 .. n : rows[i] \in Row BY <2>1, ElementOfSeq
  <2> QED BY <2>2, <2>3, <2>4, <2>5
<1> HIDE DEF n
<1>7. \A x : Live(x)' \subseteq Live(x) \cup (IF x = e THEN {n + 1} ELSE {})
  <2>1. UNCHANGED takenBack BY <1>1
  <2> QED BY <1>3, <1>6, <2>1 DEF Live, Withdrawn
<1>8. \A s \in Requests : Endpoint(s)' = Endpoint(s)
  BY <1>1 DEF Endpoint
<1>9. /\ q \in Request /\ ~ Wrote(q) /\ ~ Due(q, "commit") /\ q.heard = req[r].heard
      /\ q.left = <<>> /\ (q.busy => q.heard /\ q.key = k /\ q.body = b /\ q.since = req[r].since)
      /\ (q.busy => q.answer.got = b) /\ (q.heard => q.busy)
  <2>1. a \in Answers /\ a.got = b BY <1>2 DEF Replied, Answers
  <2>2. CASE req[r].heard
    <3>1. q = [req[r] EXCEPT !.left = <<>>, !.answer = a] BY <2>2
    <3> HIDE DEF q
    <3> QED BY <1>1, <1>2, <2>1, <2>2, <3>1, EmptySeq DEF Request, Wrote, Due
  <2>3. CASE ~ req[r].heard
    <3>1. q = Nothing BY <2>3
    <3>2. /\ ~ Nothing.heard /\ ~ Nothing.busy /\ Nothing.left = <<>> BY DEF Nothing
    <3> HIDE DEF q
    <3> QED BY <1>1, <2>3, <3>1, <3>2, NothingFits DEF Wrote, Due, Request
  <2> QED BY <2>2, <2>3
<1> HIDE DEF q
<1>10. /\ req' \in [Requests -> Request] /\ req'[r] = q
       /\ \A s \in Requests : s # r => req'[s] = req[s]
  BY <1>1, <1>9
<1>11. ASSUME NEW s \in Requests, s # r  PROVE Fits(s, req[s])'
  <2>1. Fits(s, req[s]) /\ Apart(r, req[r], s, req[s])
    BY <1>11 DEF IInv, RequestsFit, RequestsApart
  <2>2. Done(req[s]) /\ req[s].answer.ok => ledger'[req[s].key] = ledger[req[s].key]
    BY <1>2, <1>5, <2>1 DEF Fits, Done
  <2>3. Due(req[s], "commit") => ledger'[req[s].key] = None
    BY <1>1, <1>2, <1>5, <2>1 DEF Fits, Apart, Due
  <2>4. Wrote(req[s]) /\ Endpoint(s) \in Once => InTheWay(Endpoint(s), req[s].body)' = {}
    <3>1. SUFFICES ASSUME Wrote(req[s]), Endpoint(s) \in Once
                   PROVE  InTheWay(Endpoint(s), req[s].body)' = {}
      OBVIOUS
    <3>2. InTheWay(Endpoint(s), req[s].body) = {} /\ (Endpoint(s) = e => e = "BILL" /\ req[s].body # b)
      BY <1>1, <2>1, <3>1 DEF Fits, Apart, Once
    <3>3. SUFFICES ASSUME NEW i \in Live(Endpoint(s))', SameRecord(Endpoint(s), rows'[i].body, req[s].body)
                   PROVE  FALSE
      BY <1>8, <1>10, <1>11 DEF InTheWay, SameRecord
    <3>4. CASE i = n + 1
      <4>1. Endpoint(s) = e BY <1>3, <1>6, <1>8, <1>11, <3>3, <3>4 DEF Live
      <4>2. rows'[i].body = b BY <1>3, <1>6, <3>4
      <4> QED BY <3>2, <3>3, <4>1, <4>2 DEF SameRecord
    <3>5. CASE i # n + 1
      <4>1. i \in Live(Endpoint(s)) BY <1>7, <1>8, <1>11, <3>3, <3>5
      <4>2. rows'[i] = rows[i] BY <1>6, <4>1 DEF Live
      <4> QED BY <3>2, <3>3, <4>1, <4>2 DEF InTheWay
    <3> QED BY <3>4, <3>5
  <2> QED BY <1>1, <1>8, <1>10, <1>11, <2>1, <2>2, <2>3, <2>4 DEF Fits
<1>12. Fits(r, req[r])'
  <2>1. InOrder(<<>>) BY EmptySeq DEF InOrder
  <2> QED BY <1>1, <1>2, <1>4, <1>5, <1>8, <1>9, <1>10, <2>1 DEF Fits, Done
<1>13. ASSUME NEW s \in Requests, NEW v \in Requests, s # v  PROVE Apart(s, req[s], v, req[v])'
  <2>1. Apart(s, req[s], v, req[v])
    BY <1>13 DEF IInv, RequestsApart
  <2> QED BY <1>1, <1>8, <1>9, <1>10, <1>13, <2>1 DEF Apart
<1>14. RequestsFit' /\ RequestsApart'
  BY <1>11, <1>12, <1>13 DEF RequestsFit, RequestsApart
<1>15. TypeOK'
  <2>1. \A s \in Requests : req'[s].heard \/ req'[s].left # <<>> => req'[s].busy
    BY <1>14 DEF RequestsFit, Fits
  <2>2. decided' \subseteq DOMAIN rows' /\ takenBack' \subseteq DOMAIN rows'
    BY <1>1, <1>6 DEF IInv, TypeOK
  <2> QED BY <1>1, <1>5, <1>6, <1>10, <2>1, <2>2 DEF IInv, TypeOK
<1>16. PagesFit' BY <1>1 DEF IInv, PagesFit
<1>17. \A i \in 1 .. n : rows[i].key # k
  BY <1>2, <1>6 DEF IInv, LedgerMatches
<1>18. RowsFit'
  BY <1>2, <1>3, <1>6, <1>17 DEF IInv, RowsFit
<1>19. LedgerMatches'
  <2> SUFFICES ASSUME NEW x \in Keys
               PROVE  IF ledger'[x] = None THEN \A i \in DOMAIN rows' : rows'[i].key # x
                      ELSE \E i \in DOMAIN rows' : rows'[i].key = x /\ rows'[i].body = ledger'[x]
    BY DEF LedgerMatches
  <2>1. CASE x = k
    BY <1>3, <1>4, <1>5, <1>6, <2>1
  <2>2. CASE x # k
    BY <1>3, <1>5, <1>6, <2>2 DEF IInv, LedgerMatches
  <2> QED BY <2>1, <2>2
<1>20. AnswersStored'
  <2> SUFFICES ASSUME NEW x \in told  PROVE ledger'[x.key] = x.got
    BY <1>1 DEF AnswersStored
  <2>1. x.key \in Keys /\ x.got \in Bodies \cup Keys /\ ledger[x.key] = x.got
    BY DEF IInv, TypeOK, AnswersStored
  <2>2. x.key # k
    BY <1>2, <2>1, NoneIsNoBody
  <2> QED BY <1>5, <2>1, <2>2
<1>21. OneLive'
  <2> SUFFICES ASSUME NEW x \in Once, NEW i \in Live(x)', NEW j \in Live(x)',
                      SameRecord(x, rows'[i].body, rows'[j].body)
               PROVE  i = j
    BY DEF OneLive, SameRecord
  <2>1. \A m \in Live(x)' : m # n + 1 => m \in Live(x) /\ rows'[m] = rows[m]
    BY <1>6, <1>7 DEF Live
  <2>2. \A m \in Live(x)' : m = n + 1 => x = e /\ rows'[m].body = b
    BY <1>3, <1>6, <1>7 DEF Live
  <2>3. CASE i # n + 1 /\ j # n + 1
    BY <2>1, <2>3 DEF IInv, OneLive
  <2>4. ASSUME NEW m \in Live(x)', NEW o \in Live(x)', m = n + 1, o # n + 1,
               SameRecord(x, rows'[m].body, rows'[o].body)
        PROVE  FALSE
    <3>1. x = e /\ rows'[m].body = b /\ o \in Live(e) /\ rows'[o] = rows[o]
      BY <2>1, <2>2, <2>4
    <3>2. o \in InTheWay(e, b) BY <2>4, <3>1 DEF InTheWay, SameRecord
    <3> QED BY <1>2, <3>1, <3>2
  <2>5. SameRecord(x, rows'[j].body, rows'[i].body) BY DEF SameRecord
  <2> QED BY <2>3, <2>4, <2>5
<1> QED BY <1>14, <1>15, <1>16, <1>18, <1>19, <1>20, <1>21 DEF IInv

-----------------------------------------------------------------------------
(* Every page that mints a key has one of its own. *)
LEMMA Numbered ==
    ASSUME NEW setup \in Setups
    PROVE  LET keyed == Keyed(setup)
               number == CHOOSE f \in [keyed -> 1 .. Cardinality(keyed)] : IsInjective(f)
           IN /\ number \in [keyed -> Keys] /\ Cardinality(keyed) \in 0 .. MaxKeys
<1> DEFINE keyed == Keyed(setup)
           c == Cardinality(keyed)
           number == CHOOSE f \in [keyed -> 1 .. c] : IsInjective(f)
<1>1. IsFiniteSet(keyed)
  BY PortalAssumption, FS_Subset DEF Keyed
<1>2. c \in Nat /\ c <= MaxKeys /\ MaxKeys \in Nat
  BY <1>1, FS_CardinalityType, PortalAssumption
<1>3. ExistsBijection(1 .. c, keyed)
  BY <1>1, FS_CardinalityType
<1>4. ExistsBijection(keyed, 1 .. c)
  BY <1>3, Fun_ExistsBijSymmetric
<1>5. \E f \in [keyed -> 1 .. c] : IsInjective(f)
  BY <1>4 DEF ExistsBijection, Bijection, Injection
<1> HIDE DEF keyed, c
<1>6. number \in [keyed -> 1 .. c]
  BY <1>5
<1>7. 1 .. c \subseteq Keys
  BY <1>2 DEF Keys
<1> HIDE DEF number
<1>8. number \in [keyed -> Keys]
  BY <1>6, <1>7
<1> QED BY <1>2, <1>8 DEF number, keyed, c

LEMMA InductiveInit == Init => IInv
<1> SUFFICES ASSUME Init PROVE IInv OBVIOUS
<1>1. PICK setup \in Setups :
         LET keyed == Keyed(setup)
             number == CHOOSE f \in [keyed -> 1 .. Cardinality(keyed)] : IsInjective(f)
         IN /\ page = [p \in Pages |->
                         IF p \in keyed
                         THEN [endpoint |-> setup[p], key |-> number[p], since |-> number[p],
                               quote |-> None, here |-> TRUE]
                         ELSE [endpoint |-> setup[p], key |-> None, since |-> None,
                               quote |-> None, here |-> FALSE]]
            /\ minted = Cardinality(keyed)
  BY DEF Init
<1> DEFINE keyed == Keyed(setup)
           number == CHOOSE f \in [keyed -> 1 .. Cardinality(keyed)] : IsInjective(f)
<1>2. /\ page = [p \in Pages |->
                         IF p \in keyed
                         THEN [endpoint |-> setup[p], key |-> number[p], since |-> number[p],
                               quote |-> None, here |-> TRUE]
                         ELSE [endpoint |-> setup[p], key |-> None, since |-> None,
                               quote |-> None, here |-> FALSE]]
      /\ minted = Cardinality(keyed)
  BY <1>1
<1>3. number \in [keyed -> Keys] /\ Cardinality(keyed) \in 0 .. MaxKeys
  BY Numbered
<1>4. \A p \in Pages : /\ setup[p] \in Endpoints \cup {Unused}
                       /\ p \in keyed <=> setup[p] \notin {"WITHDRAW", Unused}
  BY PortalAssumption DEF Keyed
<1> HIDE DEF keyed, number
<1>5. page \in [Pages -> Page] /\ PagesFit /\ minted \in 0 .. MaxKeys
  <2>1. minted \in 0 .. MaxKeys
    BY <1>2, <1>3
  <2>2. ASSUME NEW p \in Pages
        PROVE  /\ page[p] \in Page
               /\ page[p].here => /\ page[p].key \in Keys /\ page[p].since \in Keys
                                  /\ page[p].endpoint # Unused
               /\ page[p].endpoint \in Disabled => page[p].since = page[p].key
    <3>1. CASE p \in keyed
      <4>1. page[p] = [endpoint |-> setup[p], key |-> number[p], since |-> number[p],
                       quote |-> None, here |-> TRUE]
        BY <1>2, <3>1
      <4>2. number[p] \in Keys /\ setup[p] \in Endpoints /\ setup[p] # Unused
        BY <1>3, <1>4, <3>1 DEF Endpoints, Unused
      <4> QED BY <4>1, <4>2 DEF Page
    <3>2. CASE p \notin keyed
      <4>1. page[p] = [endpoint |-> setup[p], key |-> None, since |-> None,
                       quote |-> None, here |-> FALSE]
        BY <1>2, <3>2
      <4>2. page[p].here = FALSE /\ page[p].since = page[p].key
        BY <4>1
      <4>3. page[p] \in Page
        BY <4>1, <1>4 DEF Page
      <4> QED BY <4>2, <4>3
    <3> QED BY <3>1, <3>2
  <2>3. page \in [Pages -> Page]
    BY <1>2, <2>2
  <2> QED BY <2>1, <2>2, <2>3 DEF PagesFit
<1>6. /\ req = [r \in Requests |-> Nothing] /\ rows = <<>> /\ ledger = [x \in Keys |-> None]
      /\ decided = {} /\ takenBack = {} /\ told = {} /\ lost = 0 /\ stops = 0
      /\ gate \in {"OPEN", "SHUT"}
  BY DEF Init
<1>7. /\ Nothing \in Request /\ \A r \in Requests : Fits(r, Nothing)
      /\ \A r, s \in Requests : Apart(r, Nothing, s, Nothing)
  <2>1. \A r \in Requests : /\ Nothing \in Request /\ Fits(r, Nothing)
                            /\ \A s \in Requests, z \in Request : Apart(r, Nothing, s, z)
    BY NothingFits
  <2>2. Nothing \in Request
    BY EmptySeq DEF Nothing, NoAnswer, Request, Answers
  <2> QED BY <2>1, <2>2
<1>8. RequestsFit /\ RequestsApart /\ req \in [Requests -> Request]
  BY <1>6, <1>7 DEF RequestsFit, RequestsApart
<1>9. rows \in Seq(Row) /\ DOMAIN rows = {}
  BY <1>6, EmptySeq
<1>10. ~ Nothing.heard /\ Nothing.left = <<>>
  BY DEF Nothing
<1>11. TypeOK
  BY <1>5, <1>6, <1>8, <1>9, <1>10, PortalAssumption DEF TypeOK
<1>12. RowsFit /\ LedgerMatches /\ AnswersStored /\ OneLive
  BY <1>6, <1>9 DEF RowsFit, LedgerMatches, AnswersStored, OneLive, Live
<1> QED BY <1>5, <1>8, <1>11, <1>12 DEF IInv

LEMMA InductiveStep == IInv /\ [Next]_vars => IInv'
<1>1. ASSUME IInv, Next  PROVE IInv'
  BY <1>1, TapStep, ReopenStep, CheckStep, CommitStep, DeliverStep, GiveUpStep, RestartStep, DeskStep
  DEF Next, Serve, Checks
<1>2. ASSUME IInv, UNCHANGED vars  PROVE IInv'
  <2>1. UNCHANGED <<page, req, rows, ledger, gate, decided, takenBack, told, minted, lost, stops>>
    BY <1>2 DEF vars
  <2>2. RequestsFit' /\ RequestsApart'
    BY <1>2, <2>1 DEF IInv, RequestsFit, RequestsApart, Fits, Apart, Endpoint, InTheWay, SameRecord, Live, Withdrawn
  <2>3. TypeOK' /\ PagesFit' /\ RowsFit' /\ LedgerMatches' /\ AnswersStored'
    BY <1>2, <2>1 DEF IInv, TypeOK, PagesFit, RowsFit, LedgerMatches, AnswersStored
  <2>4. OneLive' BY <1>2, <2>1 DEF IInv, OneLive, SameRecord, Live, Withdrawn
  <2> QED BY <2>2, <2>3, <2>4 DEF IInv
<1> QED BY <1>1, <1>2

LEMMA Inductive == Spec => []IInv
  BY InductiveInit, InductiveStep, PTL DEF Spec

(* Every handler and every page leaves keys, requests, rows and answers well *)
(* formed: no request is heard that does not run, and no quote is named that *)
(* is not there.                                                             *)
THEOREM TypeCorrect == Spec => []TypeOK
<1>1. IInv => TypeOK BY DEF IInv
<1> QED BY Inductive, <1>1, PTL

(* The handlers' transactions write a row and its ledger row together or    *)
(* neither.                                                                 *)
THEOREM LedgerIsTheRows == Spec => []LedgerMatches
<1>1. IInv => LedgerMatches BY DEF IInv
<1> QED BY Inductive, <1>1, PTL

(* A page that waits for its answers writes once from one opening, through  *)
(* any taps, lost answers, restarts and decisions of the desk: its key is as *)
(* old as the opening, and a key has one row.                               *)
THEOREM WrittenOnce == Spec => []OneWritePerSubmission
<1>1. IInv => OneWritePerSubmission BY DEF IInv, RowsFit, OneWritePerSubmission
<1> QED BY Inductive, <1>1, PTL

(* Whoever is told of a success, by the first call or by a replay of it, is *)
(* told what was written.                                                   *)
THEOREM ToldWhatWasWritten == Spec => []ToldTrue
<1>1. ASSUME IInv  PROVE ToldTrue
  <2> SUFFICES ASSUME NEW a \in told, NEW i \in DOMAIN rows, rows[i].key = a.key
               PROVE  rows[i].body = a.got
    BY DEF ToldTrue
  <2>1. a.key \in Keys /\ a.got \in Bodies \cup Keys /\ ledger[a.key] = a.got
    BY <1>1 DEF IInv, TypeOK, AnswersStored
  <2>2. PICK j \in DOMAIN rows : rows[j].key = a.key /\ rows[j].body = ledger[a.key]
    BY <1>1, <2>1, NoneIsNoBody DEF IInv, LedgerMatches
  <2>3. i = j
    BY <1>1, <2>2 DEF IInv, RowsFit
  <2> QED BY <2>1, <2>2, <2>3
<1> QED BY Inductive, <1>1, PTL

(* Behind the unlocked look for a clash the unique indexes leave one live   *)
(* quote to a vendor on a load, one truck of a number and one bill of a     *)
(* number, whatever the desk does in between; a trip may be billed twice,   *)
(* under two numbers.                                                       *)
THEOREM OneLiveRow == Spec => []OneLive
<1>1. IInv => OneLive BY DEF IInv
<1> QED BY Inductive, <1>1, PTL
=============================================================================
