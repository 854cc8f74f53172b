---------------------------- MODULE OutboxProofs ----------------------------
(***************************************************************************)
(* Proofs about Outbox, for any number of workers, browsers and rows: type *)
(* correctness, nothing told of a change that was not made, no row given up *)
(* early, and no row shown as sent that has not arrived.                   *)
(***************************************************************************)
EXTENDS Outbox, SequenceTheorems, TLAPS

Told(i) ==
    IF rows[i].channel = "EMAIL" THEN rows[i].to \in reached[rows[i].occasion]
                                 ELSE reached[rows[i].occasion] \cap Browsers # {}

(* A row belongs to a change that was made, its attempts were all made while *)
(* it waits and when it is given up, it has an address, and what it shows as *)
(* sent has arrived.                                                        *)
RowInv(i) ==
    /\ setup.kind[rows[i].occasion] = "CHANGE" => happened[rows[i].occasion] = "MADE"
    /\ rows[i].status \in Open => rows[i].attempts < MaxAttempts /\ rows[i].attempts <= rows[i].tries
    /\ rows[i].status = "FAILED" => rows[i].tries >= MaxAttempts
    /\ rows[i].channel = "EMAIL" /\ setup.kind[rows[i].occasion] # "JOB" => rows[i].to \in Addresses
    /\ rows[i].status = "SENT" => Told(i)

(* The attempts a worker read of a row were made, and one more when its send *)
(* failed; what it knows of the row in hand is so.                          *)
WorkerInv(w) ==
    /\ \A h \in Hand(w) : h.row \in Rows /\ h.attempts <= rows[h.row].tries
    /\ work[w].outcome # None \/ work[w].left # {} => work[w].now # None
    /\ work[w].outcome = "ERROR" => work[w].now.attempts + 1 <= rows[work[w].now.row].tries
    /\ work[w].left # {} => rows[work[w].now.row].channel = "PUSH"
    /\ work[w].some => work[w].left # {} /\ reached[rows[work[w].now.row].occasion] \cap Browsers # {}
    /\ work[w].outcome = "SENT" => Told(work[w].now.row)

ReachedInv ==
    \A o \in Occasions : setup.kind[o] = "CHANGE" /\ happened[o] # "MADE" => reached[o] = {}

IInv ==
    /\ TypeOK
    /\ \A i \in Rows : RowInv(i)
    /\ \A w \in Workers : WorkerInv(w)
    /\ ReachedInv

-----------------------------------------------------------------------------
(* What steps do to the rows *)

LEMMA RowTypes ==
    ASSUME TypeOK
    PROVE  /\ Len(rows) \in Nat /\ Rows \subseteq 1..MaxRows
           /\ \A i \in Rows : rows[i] \in Row
           /\ \A i \in Rows : rows[i].tries \in Nat
<1>1. Len(rows) \in Nat /\ Rows \subseteq 1..MaxRows /\ \A i \in Rows : rows[i] \in Row
  BY LenProperties, ElementOfSeq, BoundsAssumption DEF TypeOK, Rows
<1>2. \A r \in Row : r.tries \in Nat
  BY DEF Row
<1> QED BY <1>1, <1>2

(* A row keeps what it is about, and its failed sends. *)
Kept(old, new) ==
    /\ new.occasion = old.occasion /\ new.channel = old.channel /\ new.to = old.to
    /\ new.tries >= old.tries

RowsKept ==
    /\ rows' \in Seq(Row)
    /\ Len(rows') >= Len(rows) /\ Len(rows') <= MaxRows
    /\ \A i \in Rows : Kept(rows[i], rows'[i])

LEMMA PendingIs ==
    ASSUME NEW o, NEW r
    PROVE  /\ Pending(o, r).occasion = o /\ Pending(o, r).channel = r.channel /\ Pending(o, r).to = r.to
           /\ Pending(o, r).status = "PENDING" /\ Pending(o, r).marks = {}
  BY DEF Pending

(* Inserting: the rows there are stay, those added wait for their first send. *)
LEMMA Inserts ==
    ASSUME TypeOK, NEW o \in Occasions,
           NEW them \in SUBSET [channel : Channel, to : Addresses \cup {None}], Insert(o, them)
    PROVE  /\ RowsKept
           /\ \A i \in Rows : rows'[i] = rows[i]
           /\ \A i \in Rows' \ Rows : \E r \in them : rows'[i] = Pending(o, r)
           /\ \A i, j \in Rows' \ Rows : rows'[i] = rows'[j] => i = j
<1>0. PICK n \in 0..(MaxRows - Len(rows)) :
          \E new \in Bijection(1..n, them) : rows' = rows \o [k \in 1..n |-> Pending(o, new[k])]
  BY DEF Insert
<1>1. PICK new \in Bijection(1..n, them) : rows' = rows \o [k \in 1..n |-> Pending(o, new[k])]
  BY <1>0
<1> DEFINE added == [k \in 1..n |-> Pending(o, new[k])]
<1>2. Len(rows) \in Nat /\ rows \in Seq(Row) /\ Len(rows) <= MaxRows /\ MaxRows \in Nat
  BY LenProperties, BoundsAssumption DEF TypeOK
<1>3. n \in Nat /\ Len(rows) + n <= MaxRows
  BY <1>2
<1>4. new \in [1..n -> them]
  BY <1>1 DEF Bijection, Injection
<1>5. \A r \in them : Pending(o, r) \in Row
  BY AttemptsAssumption DEF Pending, Row, Open
<1>6. added \in [1..n -> Row]
  BY <1>4, <1>5
<1>7. added \in Seq(Row) /\ Len(added) = n
  <2>1. added \in Seq(Row)
    BY <1>3, <1>6, SeqDef
  <2> QED BY <1>3, <1>6, <2>1, LenProperties
<1>8. /\ rows' \in Seq(Row) /\ Len(rows') = Len(rows) + n
      /\ \A i \in 1..(Len(rows) + n) : rows'[i] = IF i <= Len(rows) THEN rows[i] ELSE added[i - Len(rows)]
  <2> HIDE DEF added
  <2> QED BY <1>1, <1>2, <1>7, ConcatProperties DEF added
<1>9. \A i \in Rows : rows'[i] = rows[i]
  <2> TAKE i \in Rows
  <2>1. i \in 1..(Len(rows) + n) /\ i <= Len(rows)
    BY <1>2, <1>3 DEF Rows
  <2> QED BY <1>8, <2>1
<1>10. \A i \in Rows : Kept(rows[i], rows'[i])
  BY <1>9, RowTypes DEF Kept
<1>11. \A i \in Rows' \ Rows : \E r \in them : rows'[i] = Pending(o, r)
  <2> TAKE i \in Rows' \ Rows
  <2>1. i \in 1..(Len(rows) + n) /\ ~(i <= Len(rows)) /\ i - Len(rows) \in 1..n
    BY <1>2, <1>3, <1>8 DEF Rows
  <2>2. rows'[i] = Pending(o, new[i - Len(rows)])
    BY <1>8, <2>1
  <2> QED BY <1>4, <2>1, <2>2
<1>12. ASSUME NEW i \in Rows' \ Rows, NEW j \in Rows' \ Rows, rows'[i] = rows'[j]
       PROVE  i = j
  <2> DEFINE k == i - Len(rows)
             l == j - Len(rows)
  <2>1. /\ i \in 1..(Len(rows) + n) /\ ~(i <= Len(rows)) /\ k \in 1..n
        /\ j \in 1..(Len(rows) + n) /\ ~(j <= Len(rows)) /\ l \in 1..n
    BY <1>2, <1>3, <1>8 DEF Rows
  <2>2. rows'[i] = Pending(o, new[k]) /\ rows'[j] = Pending(o, new[l])
    BY <1>8, <2>1
  <2>3. new[k].channel = new[l].channel /\ new[k].to = new[l].to
    <3>1. \A r, q : Pending(o, r) = Pending(o, q) => r.channel = q.channel /\ r.to = q.to
      <4> TAKE r, q
      <4> HAVE Pending(o, r) = Pending(o, q)
      <4>1. Pending(o, r).channel = r.channel /\ Pending(o, r).to = r.to
        BY PendingIs
      <4>2. Pending(o, q).channel = q.channel /\ Pending(o, q).to = q.to
        BY PendingIs
      <4> QED BY <4>1, <4>2
    <3>2. Pending(o, new[k]) = Pending(o, new[l])
      BY <1>12, <2>2
    <3> HIDE DEF k, l
    <3> QED BY <3>1, <3>2
  <2>4. new[k] \in them /\ new[l] \in them
    BY <1>4, <2>1
  <2>5. \A r, q \in [channel : Channel, to : Addresses \cup {None}] :
          r.channel = q.channel /\ r.to = q.to => r = q
    OBVIOUS
  <2>6. new[k] = new[l]
    BY <2>3, <2>4, <2>5
  <2>7. k = l
    <3> HIDE DEF k, l
    <3> QED BY <1>1, <2>1, <2>6 DEF Bijection, Injection, IsInjective
  <2> QED BY <1>2, <2>1, <2>7
<1> QED BY <1>2, <1>3, <1>8, <1>9, <1>10, <1>11, <1>12 DEF RowsKept

(* Writing one row. *)
LEMMA Writes ==
    ASSUME TypeOK, NEW i \in Rows, NEW e \in Row, Kept(rows[i], e), rows' = [rows EXCEPT ![i] = e]
    PROVE  /\ RowsKept /\ Rows' = Rows
           /\ \A j \in Rows : rows'[j] = IF j = i THEN e ELSE rows[j]
<1>1. Len(rows) \in Nat /\ rows \in Seq(Row) /\ Len(rows) <= MaxRows
  BY LenProperties DEF TypeOK
<1>2. rows' \in Seq(Row) /\ Len(rows') = Len(rows) /\ \A j \in Rows : rows'[j] = IF j = i THEN e ELSE rows[j]
  BY <1>1, ExceptSeq DEF Rows
<1>3. \A j \in Rows : rows[j].tries \in Nat
  BY RowTypes
<1> QED BY <1>1, <1>2, <1>3, BoundsAssumption DEF RowsKept, Kept, Rows

(* Nothing written. *)
LEMMA RowsSame ==
    ASSUME TypeOK, rows' = rows
    PROVE  RowsKept /\ Rows' = Rows
<1>1. Len(rows) \in Nat /\ rows \in Seq(Row) /\ Len(rows) <= MaxRows
  BY LenProperties DEF TypeOK
<1>2. \A j \in Rows : rows[j].tries \in Nat
  BY RowTypes
<1> QED BY <1>1, <1>2 DEF RowsKept, Kept, Rows



-----------------------------------------------------------------------------
(* What every step keeps *)

Goes ==
    /\ RowsKept /\ setup' = setup
    /\ reached' \in [Occasions -> SUBSET Ends]
    /\ \A o \in Occasions : reached[o] \subseteq reached'[o]
    /\ \A o \in Occasions : happened[o] = "MADE" => happened'[o] = "MADE"

LEMMA GoesRows ==
    ASSUME IInv, Goes
    PROVE  /\ Rows \subseteq Rows'
           /\ \A i \in Rows : rows[i].occasion \in Occasions /\ Kept(rows[i], rows'[i])
           /\ \A i \in Rows : Told(i) => Told(i)'
<1>1. Rows \subseteq Rows'
  BY RowTypes DEF IInv, Goes, RowsKept, Rows
<1>2. \A i \in Rows : rows[i].occasion \in Occasions
  BY RowTypes DEF IInv, Row
<1>3. \A i \in Rows : Kept(rows[i], rows'[i])
  BY DEF Goes, RowsKept
<1> QED BY <1>1, <1>2, <1>3 DEF Goes, Told, Kept

(* A row no step wrote. *)
LEMMA RowStays ==
    ASSUME IInv, Goes, NEW i \in Rows,
           rows'[i].status = rows[i].status, rows'[i].attempts = rows[i].attempts
    PROVE  RowInv(i)'
<1>1. RowInv(i) /\ Kept(rows[i], rows'[i]) /\ rows[i].occasion \in Occasions /\ (Told(i) => Told(i)')
  BY GoesRows DEF IInv
<1>2. rows[i].tries \in Nat /\ rows'[i].tries \in Nat /\ rows[i].attempts \in Nat
  <2>1. rows[i] \in Row
    BY RowTypes DEF IInv
  <2>2. rows'[i] \in Row
    BY GoesRows, ElementOfSeq DEF Goes, RowsKept, Rows
  <2> QED BY <2>1, <2>2 DEF Row
<1>3. rows'[i].tries >= rows[i].tries /\ rows'[i].occasion = rows[i].occasion
          /\ rows'[i].channel = rows[i].channel /\ rows'[i].to = rows[i].to
  BY <1>1 DEF Kept
<1> QED BY <1>1, <1>2, <1>3, AttemptsAssumption DEF RowInv, Goes

(* A worker that did nothing. *)
LEMMA WorkerStays ==
    ASSUME IInv, Goes, NEW w \in Workers, work'[w] = work[w]
    PROVE  WorkerInv(w)'
<1>1. WorkerInv(w) /\ work[w] \in Work
  BY DEF IInv, TypeOK
<1>2. \A i \in Rows : /\ i \in Rows' /\ rows[i].occasion \in Occasions /\ Kept(rows[i], rows'[i])
                      /\ Told(i) => Told(i)'
                      /\ rows[i].tries \in Nat /\ rows'[i].tries \in Nat
  <2>1. \A i \in Rows' : rows'[i] \in Row
    BY ElementOfSeq DEF Goes, RowsKept, Rows
  <2>2. \A r \in Row : r.tries \in Nat
    BY DEF Row
  <2> QED BY GoesRows, RowTypes, <2>1, <2>2 DEF IInv
<1>3. Hand(w)' = Hand(w) /\ \A h \in Hand(w) : h.attempts \in Nat
  BY <1>1, AttemptsAssumption DEF Hand, Work, Held
<1>4. work[w].now # None => work[w].now \in Hand(w)
  BY DEF Hand
<1>5. \A h \in Hand(w) : h.row \in Rows' /\ h.attempts <= rows'[h.row].tries
  BY <1>1, <1>2, <1>3 DEF WorkerInv, Kept
<1>6. work[w].outcome = "ERROR" => work[w].now.attempts + 1 <= rows'[work[w].now.row].tries
  BY <1>1, <1>2, <1>3, <1>4, NoneAssumption DEF WorkerInv, Kept
<1>7. work[w].left # {} => rows'[work[w].now.row].channel = "PUSH"
  BY <1>1, <1>2, <1>4 DEF WorkerInv, Kept
<1>8. work[w].some => work[w].left # {} /\ reached'[rows'[work[w].now.row].occasion] \cap Browsers # {}
  BY <1>1, <1>2, <1>4 DEF WorkerInv, Kept, Goes
<1>9. work[w].outcome = "SENT" => Told(work[w].now.row)'
  BY <1>1, <1>2, <1>4, NoneAssumption DEF WorkerInv
<1> HIDE DEF Goes, IInv
<1> QED BY <1>1, <1>3, <1>5, <1>6, <1>7, <1>8, <1>9 DEF WorkerInv

LEMMA Assembled ==
    ASSUME IInv, Goes,
           happened' \in [Occasions -> {"NOT", "OPEN", "MADE", "UNDONE"}],
           queued' \in [Occasions -> SUBSET Contact],
           work' \in [Workers -> Work], again' \subseteq Occasions \X Ends, stops' \in 0..MaxStops,
           \A i \in Rows' : RowInv(i)', \A w \in Workers : WorkerInv(w)', ReachedInv'
    PROVE  IInv'
<1>1. setup' \in Setup /\ reached' \in [Occasions -> SUBSET Ends]
  BY DEF IInv, TypeOK, Goes
<1>2. rows' \in Seq(Row) /\ Len(rows') <= MaxRows
  BY DEF Goes, RowsKept
<1>3. \A i \in Rows' : rows'[i].status \in Open => rows'[i].attempts < MaxAttempts
  BY DEF RowInv
<1>4. \A w \in Workers : /\ \A h \in Hand(w)' : h.row \in Rows'
                         /\ work'[w].outcome # None \/ work'[w].left # {} => work'[w].now # None
  BY DEF WorkerInv
<1> QED BY <1>1, <1>2, <1>3, <1>4 DEF IInv, TypeOK

-----------------------------------------------------------------------------
(* Raising *)

LEMMA ContactIs ==
    /\ Contact \subseteq [channel : Channel, to : Addresses \cup {None}]
    /\ \A r \in Contact : r.channel = "EMAIL" => r.to \in Addresses
  BY DEF Contact, Channel

LEMMA Raised ==
    ASSUME IInv, NEW o \in Occasions,
           NEW them \in SUBSET [channel : Channel, to : Addresses \cup {None}], Insert(o, them),
           setup.kind[o] = "CHANGE" => happened'[o] = "MADE",
           setup.kind[o] # "JOB" => \A r \in them : r.channel = "EMAIL" => r.to \in Addresses,
           happened' \in [Occasions -> {"NOT", "OPEN", "MADE", "UNDONE"}],
           \A p \in Occasions : happened[p] = "MADE" => happened'[p] = "MADE",
           queued' \in [Occasions -> SUBSET Contact],
           UNCHANGED <<setup, work, reached, again, stops>>
    PROVE  IInv'
<1>1. /\ RowsKept /\ \A i \in Rows : rows'[i] = rows[i]
      /\ \A i \in Rows' \ Rows : \E r \in them : rows'[i] = Pending(o, r)
  BY Inserts DEF IInv
<1>2. Goes
  BY <1>1 DEF Goes, IInv, TypeOK
<1>3. ASSUME NEW i \in Rows'  PROVE RowInv(i)'
  <2>1. CASE i \in Rows
    BY <1>1, <1>2, <2>1, RowStays
  <2>2. CASE i \notin Rows
    <3>1. PICK r \in them : rows'[i] = Pending(o, r)
      BY <1>1, <2>2
    <3>2. /\ rows'[i].occasion = o /\ rows'[i].channel = r.channel /\ rows'[i].to = r.to
          /\ rows'[i].status = "PENDING" /\ rows'[i].attempts = 0 /\ rows'[i].tries = 0
      BY <3>1 DEF Pending
    <3> QED BY <3>2, AttemptsAssumption DEF RowInv
  <2> QED BY <2>1, <2>2
<1>4. \A w \in Workers : WorkerInv(w)'
  BY <1>2, WorkerStays
<1>5. ReachedInv'
  BY DEF IInv, ReachedInv
<1>6. work' \in [Workers -> Work] /\ again' \subseteq Occasions \X Ends /\ stops' \in 0..MaxStops
  BY DEF IInv, TypeOK
<1> QED BY <1>2, <1>3, <1>4, <1>5, <1>6, Assembled

(* A step that leaves the rows, the workers and the mailboxes alone. *)
LEMMA OnlyHappens ==
    ASSUME IInv, NEW o \in Occasions, happened[o] # "MADE",
           NEW h \in {"OPEN", "UNDONE"}, happened' = [happened EXCEPT ![o] = h],
           queued' \in [Occasions -> SUBSET Contact],
           UNCHANGED <<setup, rows, work, reached, again, stops>>
    PROVE  IInv'
<1>1. RowsKept /\ Rows' = Rows
  BY RowsSame DEF IInv
<1>2. happened' \in [Occasions -> {"NOT", "OPEN", "MADE", "UNDONE"}]
      /\ \A p \in Occasions : happened[p] = "MADE" => happened'[p] = "MADE"
      /\ \A q \in Occasions : happened'[q] # "MADE" => happened[q] # "MADE"
  BY DEF IInv, TypeOK
<1>3. Goes
  BY <1>1, <1>2 DEF Goes, IInv, TypeOK
<1>4. \A i \in Rows' : RowInv(i)'
  BY <1>1, <1>3, RowStays
<1>5. \A w \in Workers : WorkerInv(w)'
  BY <1>3, WorkerStays
<1>6. ReachedInv'
  BY <1>2 DEF IInv, ReachedInv
<1>7. work' \in [Workers -> Work] /\ again' \subseteq Occasions \X Ends /\ stops' \in 0..MaxStops
  BY DEF IInv, TypeOK
<1> QED BY <1>2, <1>3, <1>4, <1>5, <1>6, <1>7, Assembled

LEMMA UnqueuedIs ==
    ASSUME NEW o, NEW them \in Recipients
    PROVE  /\ Unqueued(o, them) \subseteq Contact
           /\ Unqueued(o, them) \in SUBSET [channel : Channel, to : Addresses \cup {None}]
           /\ \A r \in Unqueued(o, them) : r.channel = "EMAIL" => r.to \in Addresses
  BY ContactIs DEF Unqueued, Recipients

LEMMA BeginKeeps == ASSUME IInv, NEW o \in Occasions, Begin(o)  PROVE IInv'
<1>1. PICK them \in Recipients : queued' = [queued EXCEPT ![o] = Unqueued(o, them)]
  BY DEF Begin
<1>2. queued' \in [Occasions -> SUBSET Contact]
  BY <1>1, UnqueuedIs DEF IInv, TypeOK
<1> QED BY <1>2, OnlyHappens DEF Begin

LEMMA RollBackKeeps == ASSUME IInv, NEW o \in Occasions, RollBack(o)  PROVE IInv'
<1>1. queued' \in [Occasions -> SUBSET Contact]
  BY DEF RollBack, IInv, TypeOK
<1> QED BY <1>1, OnlyHappens DEF RollBack

LEMMA CommitKeeps == ASSUME IInv, NEW o \in Occasions, Commit(o)  PROVE IInv'
<1>1. queued \in [Occasions -> SUBSET Contact] /\ queued' \in [Occasions -> SUBSET Contact]
  BY DEF Commit, IInv, TypeOK
<1>2. /\ happened' \in [Occasions -> {"NOT", "OPEN", "MADE", "UNDONE"}] /\ happened'[o] = "MADE"
      /\ \A p \in Occasions : happened[p] = "MADE" => happened'[p] = "MADE"
  BY DEF Commit, IInv, TypeOK
<1>3. /\ queued[o] \in SUBSET [channel : Channel, to : Addresses \cup {None}]
      /\ \A r \in queued[o] : r.channel = "EMAIL" => r.to \in Addresses
  BY <1>1, ContactIs
<1> QED BY <1>1, <1>2, <1>3, Raised DEF Commit

LEMMA RemindKeeps == ASSUME IInv, NEW o \in Occasions, Remind(o)  PROVE IInv'
<1>1. PICK them \in Recipients : Insert(o, Unqueued(o, them))
  BY DEF Remind
<1>2. /\ happened' \in [Occasions -> {"NOT", "OPEN", "MADE", "UNDONE"}]
      /\ \A p \in Occasions : happened[p] = "MADE" => happened'[p] = "MADE"
      /\ queued' \in [Occasions -> SUBSET Contact] /\ setup.kind[o] # "CHANGE"
  BY DEF Remind, IInv, TypeOK
<1> QED BY <1>1, <1>2, UnqueuedIs, Raised DEF Remind

LEMMA InsertBareKeeps == ASSUME IInv, NEW o \in Occasions, InsertBare(o)  PROVE IInv'
<1> DEFINE them == {[channel |-> IF setup.kind[o] = "JOB" THEN "EMAIL" ELSE "SMS", to |-> None]}
<1>1. /\ them \in SUBSET [channel : Channel, to : Addresses \cup {None}] /\ Insert(o, them)
      /\ setup.kind[o] # "JOB" => \A r \in them : r.channel # "EMAIL"
  BY DEF InsertBare, Channel
<1>2. /\ happened' \in [Occasions -> {"NOT", "OPEN", "MADE", "UNDONE"}]
      /\ \A p \in Occasions : happened[p] = "MADE" => happened'[p] = "MADE"
      /\ queued' \in [Occasions -> SUBSET Contact] /\ setup.kind[o] # "CHANGE"
  BY DEF InsertBare, IInv, TypeOK
<1> HIDE DEF them
<1> QED BY <1>1, <1>2, Raised DEF InsertBare

-----------------------------------------------------------------------------
(* Workers *)

(* What a claim makes of a row. *)
LEMMA ClaimedIs ==
    ASSUME NEW i, rows[i] \in Row, NEW b \in BOOLEAN
    PROVE  /\ Claimed(i, b) \in Row /\ Claimed(i, b).status = "SENDING" /\ Kept(rows[i], Claimed(i, b))
           /\ Claimed(i, b).attempts = rows[i].attempts /\ Claimed(i, b).tries = rows[i].tries
<1> DEFINE m == rows[i].marks \cup {x \in {"LAPSED"} : rows[i].status = "SENDING" \/ b}
<1>1. rows[i].marks \in SUBSET Marks
  BY DEF Row
<1>2. m \in SUBSET Marks
  BY <1>1 DEF Marks
<1>3. Claimed(i, b) = [rows[i] EXCEPT !.status = "SENDING", !.marks = m]
  BY DEF Claimed
<1> HIDE DEF m
<1>4. \A r \in Row : [r EXCEPT !.status = "SENDING", !.marks = m] \in Row
  BY <1>2 DEF Row, Open
<1>5. \A r \in Row : LET e == [r EXCEPT !.status = "SENDING", !.marks = m] IN
        /\ e.status = "SENDING" /\ e.occasion = r.occasion /\ e.channel = r.channel /\ e.to = r.to
        /\ e.attempts = r.attempts /\ e.tries = r.tries /\ r.tries >= r.tries
  BY DEF Row
<1> QED BY <1>3, <1>4, <1>5 DEF Kept

LEMMA ClaimRows ==
    ASSUME IInv, NEW w \in Workers, NEW ready \in SUBSET Waiting, Claim(w, ready)
    PROVE  RowsKept /\ Rows' = Rows
<1> DEFINE busy(i) == \E v \in Workers : Holds(v, i)
<1>1. /\ Len(rows) \in Nat /\ Rows \subseteq 1..MaxRows /\ \A i \in Rows : rows[i] \in Row /\ rows[i].tries \in Nat
      /\ Len(rows) <= MaxRows
  BY RowTypes DEF IInv, TypeOK
<1>3. \A i \in Rows, b \in BOOLEAN :
        /\ Claimed(i, b) \in Row /\ Claimed(i, b).status = "SENDING" /\ Kept(rows[i], Claimed(i, b))
        /\ Claimed(i, b).attempts = rows[i].attempts /\ Claimed(i, b).tries = rows[i].tries
  BY <1>1, ClaimedIs
<1>4. rows' = [i \in Rows |-> IF i \in Oldest(ready) THEN Claimed(i, busy(i)) ELSE rows[i]]
  BY DEF Claim
<1>5. rows' \in [Rows -> Row]
  BY <1>1, <1>3, <1>4
<1>6. rows' \in Seq(Row) /\ Len(rows') = Len(rows) /\ Rows' = Rows
  <2>1. rows' \in Seq(Row)
    BY <1>1, <1>5, SeqDef DEF Rows
  <2>2. DOMAIN rows' = 1..Len(rows) /\ DOMAIN rows' = 1..Len(rows') /\ Len(rows') \in Nat
    BY <1>5, <2>1, LenProperties DEF Rows
  <2> QED BY <1>1, <2>1, <2>2 DEF Rows
<1>7. \A i \in Rows : Kept(rows[i], rows'[i])
  BY <1>1, <1>3, <1>4 DEF Kept
<1> QED BY <1>1, <1>6, <1>7 DEF RowsKept

LEMMA ClaimKeeps ==
    ASSUME IInv, NEW w \in Workers, NEW ready \in SUBSET Waiting, Claim(w, ready)
    PROVE  IInv'
<1> DEFINE busy(i) == \E v \in Workers : Holds(v, i)
<1>1. /\ Len(rows) \in Nat /\ Rows \subseteq 1..MaxRows /\ \A i \in Rows : rows[i] \in Row /\ rows[i].tries \in Nat
      /\ Len(rows) <= MaxRows
  BY RowTypes DEF IInv, TypeOK
<1>2. Oldest(ready) \subseteq Rows /\ \A i \in Oldest(ready) : rows[i].status \in Open
  BY DEF Oldest, Waiting
<1>3. \A i \in Rows, b \in BOOLEAN :
        /\ Claimed(i, b) \in Row /\ Claimed(i, b).status = "SENDING" /\ Kept(rows[i], Claimed(i, b))
        /\ Claimed(i, b).attempts = rows[i].attempts /\ Claimed(i, b).tries = rows[i].tries
  BY <1>1, ClaimedIs
<1>4. rows' = [i \in Rows |-> IF i \in Oldest(ready) THEN Claimed(i, busy(i)) ELSE rows[i]]
  BY DEF Claim
<1>6. RowsKept /\ Rows' = Rows
  BY ClaimRows
<1>7. \A i \in Rows : Kept(rows[i], rows'[i])
  BY <1>6 DEF RowsKept
<1>8. Goes
  BY <1>6 DEF Claim, IInv, TypeOK, Goes
<1>9. ASSUME NEW i \in Rows'  PROVE RowInv(i)'
  <2>1. i \in Rows /\ RowInv(i) /\ Kept(rows[i], rows'[i])
    BY <1>6, <1>7 DEF IInv
  <2>2. CASE i \in Oldest(ready)
    <3>1. /\ rows'[i].status = "SENDING" /\ rows'[i].attempts = rows[i].attempts
          /\ rows'[i].tries = rows[i].tries /\ rows[i].status \in Open
      BY <1>2, <1>3, <1>4, <2>1, <2>2
    <3> QED BY <2>1, <3>1 DEF RowInv, Kept, Open, Claim
  <2>3. CASE i \notin Oldest(ready)
    BY <1>4, <1>8, <2>1, <2>3, RowStays
  <2> QED BY <2>2, <2>3
<1> DEFINE held == {[row |-> i, attempts |-> rows[i].attempts] : i \in Oldest(ready)}
<1>10. held \subseteq Held /\ \A h \in held : h.row \in Rows /\ h.attempts <= rows[h.row].tries
  <2>1. \A i \in Oldest(ready) : /\ rows[i].attempts \in 0..(MaxAttempts - 1) /\ i \in 1..MaxRows
                                 /\ rows[i].attempts <= rows[i].tries
    <3> TAKE i \in Oldest(ready)
    <3>1. i \in Rows /\ rows[i].attempts \in 0..MaxAttempts /\ RowInv(i) /\ rows[i].status \in Open
      BY <1>1, <1>2 DEF Row, IInv
    <3> QED BY <1>1, <3>1, AttemptsAssumption DEF RowInv
  <2> QED BY <1>2, <2>1 DEF Held
<1>11. work' = [work EXCEPT ![w] = [Idle EXCEPT !.todo = held]] /\ work[w] = Idle
  BY DEF Claim, Idle
<1>12. work' \in [Workers -> Work]
  <2>1. [Idle EXCEPT !.todo = held] \in Work
    BY <1>10 DEF Idle, Work
  <2> HIDE DEF held
  <2> QED BY <1>11, <2>1 DEF IInv, TypeOK
<1>13. ASSUME NEW v \in Workers  PROVE WorkerInv(v)'
  <2>1. CASE v = w
    <3>1. /\ work'[w].todo = held /\ work'[w].now = None /\ work'[w].outcome = None
          /\ work'[w].left = {} /\ work'[w].some = FALSE
      BY <1>11 DEF Idle, IInv, TypeOK
    <3>2. Hand(w)' = held
      BY <3>1 DEF Hand
    <3>3. \A h \in held : h.row \in Rows' /\ h.attempts <= rows'[h.row].tries
      <4>1. \A i \in Rows : rows'[i].tries = rows[i].tries
        BY <1>3, <1>4
      <4> QED BY <1>6, <1>10, <4>1
    <3> HIDE DEF held
    <3> QED BY <2>1, <3>1, <3>2, <3>3, NoneAssumption DEF WorkerInv
  <2>2. CASE v # w
    <3>1. work'[v] = work[v]
      BY <2>2 DEF Claim, IInv, TypeOK
    <3> QED BY <1>8, <3>1, WorkerStays
  <2> QED BY <2>1, <2>2
<1>14. ReachedInv'
  BY DEF IInv, ReachedInv, Claim
<1>15. /\ happened' \in [Occasions -> {"NOT", "OPEN", "MADE", "UNDONE"}]
       /\ queued' \in [Occasions -> SUBSET Contact] /\ again' \subseteq Occasions \X Ends /\ stops' \in 0..MaxStops
  BY DEF IInv, TypeOK, Claim
<1> QED BY <1>8, <1>9, <1>12, <1>13, <1>14, <1>15, Assembled

(* What a send that failed makes of a row. *)
LEMMA FailedIs ==
    ASSUME NEW r \in Row, NEW marks \in SUBSET Marks
    PROVE  /\ Failed(r, marks) \in Row /\ Kept(r, Failed(r, marks))
           /\ Failed(r, marks).status = r.status /\ Failed(r, marks).attempts = r.attempts
           /\ \A a \in 0..(MaxAttempts - 1) : a <= r.tries => a + 1 <= Failed(r, marks).tries
<1> DEFINE m == r.marks \cup marks
           t == IF r.tries > MaxAttempts THEN r.tries ELSE r.tries + 1
<1>1. r.tries \in Nat /\ r.marks \in SUBSET Marks
  BY DEF Row
<1>2. m \in SUBSET Marks /\ t \in Nat /\ t >= r.tries
  BY <1>1, AttemptsAssumption
<1>3. \A a \in 0..(MaxAttempts - 1) : a <= r.tries => a + 1 <= t
  BY <1>1, AttemptsAssumption
<1>4. Failed(r, marks) = [r EXCEPT !.tries = t, !.marks = m]
  BY DEF Failed
<1> HIDE DEF m, t
<1>5. [r EXCEPT !.tries = t, !.marks = m] \in Row
  BY <1>2 DEF Row
<1>6. LET e == [r EXCEPT !.tries = t, !.marks = m] IN
        /\ e.occasion = r.occasion /\ e.channel = r.channel /\ e.to = r.to
        /\ e.status = r.status /\ e.attempts = r.attempts /\ e.tries = t
  BY DEF Row
<1> QED BY <1>2, <1>3, <1>4, <1>5, <1>6 DEF Kept

LEMMA MarkedIs ==
    ASSUME NEW r \in Row, NEW marks \in SUBSET Marks
    PROVE  /\ Marked(r, marks) \in Row /\ Kept(r, Marked(r, marks))
           /\ Marked(r, marks).status = r.status /\ Marked(r, marks).attempts = r.attempts
<1>1. r.marks \cup marks \in SUBSET Marks
  BY DEF Row
<1>2. \A m \in SUBSET Marks : [r EXCEPT !.marks = m] \in Row
  BY DEF Row
<1>3. \A m \in SUBSET Marks : LET e == [r EXCEPT !.marks = m] IN
        /\ e.occasion = r.occasion /\ e.channel = r.channel /\ e.to = r.to
        /\ e.status = r.status /\ e.attempts = r.attempts /\ e.tries = r.tries /\ r.tries >= r.tries
  BY DEF Row
<1> QED BY <1>1, <1>2, <1>3 DEF Kept, Marked

(* The rows of a step of the sending: their states are left to the writing. *)
Unanswered ==
    /\ RowsKept /\ Rows' = Rows
    /\ \A i \in Rows : rows'[i].status = rows[i].status /\ rows'[i].attempts = rows[i].attempts

LEMMA TriedIs ==
    ASSUME IInv, NEW i \in Rows, NEW marks \in SUBSET Marks, Tried(i, marks)
    PROVE  /\ Unanswered
           /\ \A a \in 0..(MaxAttempts - 1) : a <= rows[i].tries => a + 1 <= rows'[i].tries
<1>1. rows[i] \in Row
  BY RowTypes DEF IInv
<1> DEFINE e == Failed(rows[i], marks)
<1>2. /\ e \in Row /\ Kept(rows[i], e) /\ e.status = rows[i].status /\ e.attempts = rows[i].attempts
      /\ \A a \in 0..(MaxAttempts - 1) : a <= rows[i].tries => a + 1 <= e.tries
  BY <1>1, FailedIs
<1>3. rows' = [rows EXCEPT ![i] = e]
  BY DEF Tried
<1> HIDE DEF e
<1>4. RowsKept /\ Rows' = Rows /\ \A j \in Rows : rows'[j] = IF j = i THEN e ELSE rows[j]
  BY <1>2, <1>3, Writes DEF IInv
<1> QED BY <1>2, <1>4 DEF Unanswered

LEMMA UnchangedIs == ASSUME IInv, rows' = rows  PROVE Unanswered
  BY RowsSame DEF IInv, Unanswered

(* What an arrival changes. *)
Reaches ==
    /\ reached' \in [Occasions -> SUBSET Ends]
    /\ \A o \in Occasions : reached[o] \subseteq reached'[o]
    /\ again' \subseteq Occasions \X Ends
    /\ ReachedInv'

LEMMA ArrivesIs ==
    ASSUME IInv, NEW i \in Rows, NEW e \in Ends, Arrives(rows[i].occasion, e),
           setup' = setup, happened' = happened
    PROVE  Reaches /\ e \in reached'[rows[i].occasion]
<1> DEFINE o == rows[i].occasion
<1>1. o \in Occasions /\ (setup.kind[o] = "CHANGE" => happened[o] = "MADE")
  BY GoesRows, RowTypes DEF IInv, RowInv, Row
<1> HIDE DEF o
<1>2. reached \in [Occasions -> SUBSET Ends] /\ again \subseteq Occasions \X Ends
  BY DEF IInv, TypeOK
<1>3. reached' = [reached EXCEPT ![o] = @ \cup {e}] /\ again' \subseteq again \cup {<<o, e>>}
  BY DEF Arrives, o
<1>4. /\ reached' \in [Occasions -> SUBSET Ends] /\ e \in reached'[o]
      /\ \A p \in Occasions : reached[p] \subseteq reached'[p] /\ (p # o => reached'[p] = reached[p])
  BY <1>1, <1>2, <1>3
<1>5. again' \subseteq Occasions \X Ends
  BY <1>1, <1>2, <1>3
<1>6. ReachedInv'
  BY <1>1, <1>4 DEF ReachedInv, IInv
<1> QED BY <1>4, <1>5, <1>6 DEF Reaches, o

LEMMA NotArrivingIs ==
    ASSUME IInv, NotArriving, setup' = setup, happened' = happened
    PROVE  Reaches /\ reached' = reached
  BY DEF IInv, TypeOK, NotArriving, Reaches, ReachedInv

LEMMA SendingGoes ==
    ASSUME IInv, Unanswered, Reaches, setup' = setup, happened' = happened
    PROVE  Goes
  BY DEF Unanswered, Reaches, Goes

(* A step of the sending, but for the worker that made it. *)
LEMMA Sending ==
    ASSUME IInv, NEW w \in Workers, Unanswered, Reaches,
           work' \in [Workers -> Work], \A v \in Workers : v # w => work'[v] = work[v],
           WorkerInv(w)', UNCHANGED <<setup, happened, queued, stops>>
    PROVE  IInv'
<1>1. Goes
  BY SendingGoes
<1>2. \A i \in Rows' : RowInv(i)'
  BY <1>1, RowStays DEF Unanswered
<1>3. \A v \in Workers : WorkerInv(v)'
  BY <1>1, WorkerStays
<1>4. /\ happened' \in [Occasions -> {"NOT", "OPEN", "MADE", "UNDONE"}]
      /\ queued' \in [Occasions -> SUBSET Contact] /\ stops' \in 0..MaxStops
  BY DEF IInv, TypeOK
<1> QED BY <1>1, <1>2, <1>3, <1>4, Assembled DEF Reaches

(* What a worker holds stays so, whatever it puts down. *)
LEMMA HandStays ==
    ASSUME IInv, Goes, NEW w \in Workers, Hand(w)' \subseteq Hand(w)
    PROVE  \A h \in Hand(w)' : h.row \in Rows' /\ h.attempts <= rows'[h.row].tries
<1>1. WorkerInv(w) /\ work[w] \in Work
  BY DEF IInv, TypeOK
<1>2. \A h \in Hand(w) : h.attempts \in Nat /\ h.row \in Rows /\ h.attempts <= rows[h.row].tries
  BY <1>1, AttemptsAssumption DEF Hand, Work, Held, WorkerInv
<1>3. \A i \in Rows : rows[i].tries \in Nat /\ rows'[i].tries \in Nat /\ i \in Rows' /\ rows'[i].tries >= rows[i].tries
  <2>1. \A i \in Rows' : rows'[i] \in Row
    BY ElementOfSeq DEF Goes, RowsKept, Rows
  <2>2. \A r \in Row : r.tries \in Nat
    BY DEF Row
  <2> QED BY GoesRows, RowTypes, <2>1, <2>2 DEF IInv, Kept
<1> QED BY <1>2, <1>3

-----------------------------------------------------------------------------
(* Taking the next row *)

LEMMA InHandIs ==
    ASSUME IInv, NEW w \in Workers, NEW channel, NEW h, Takes(w, h, channel),
           NEW outcome \in {"SENT", "SKIPPED", "ERROR", None}, NEW left \in SUBSET Browsers,
           InHand(w, h, outcome, left)
    PROVE  /\ work' \in [Workers -> Work] /\ \A v \in Workers : v # w => work'[v] = work[v]
           /\ Hand(w)' \subseteq Hand(w) /\ h \in Held /\ h # None
           /\ h.row \in Rows /\ rows[h.row].channel = channel /\ h.attempts <= rows[h.row].tries
           /\ work'[w].now = h /\ work'[w].outcome = outcome /\ work'[w].left = left
           /\ ~work'[w].some /\ work'[w].todo = work[w].todo \ {h}
<1>1. work \in [Workers -> Work] /\ WorkerInv(w)
  BY DEF IInv, TypeOK
<1>2. h \in work[w].todo /\ rows[h.row].channel = channel
  BY DEF Takes
<1>3. work[w].todo \subseteq Held
  BY <1>1 DEF Work
<1>4. h \in Held /\ h # None /\ h \in Hand(w)
  BY <1>2, <1>3, NotHeldAssumption DEF Hand
<1>5. h.row \in Rows /\ h.attempts <= rows[h.row].tries
  BY <1>1, <1>4 DEF WorkerInv
<1> DEFINE mine == [Idle EXCEPT !.todo = work[w].todo \ {h}, !.now = h, !.outcome = outcome, !.left = left]
<1>6. work' = [work EXCEPT ![w] = mine]
  BY DEF InHand
<1>7. mine \in Work
  BY <1>3, <1>4 DEF Idle, Work
<1>8. /\ mine.todo = work[w].todo \ {h} /\ mine.now = h /\ mine.outcome = outcome
      /\ mine.left = left /\ mine.some = FALSE
  BY DEF Idle
<1> HIDE DEF mine
<1>9. /\ work' \in [Workers -> Work] /\ work'[w] = mine
      /\ \A v \in Workers : v # w => work'[v] = work[v]
  BY <1>1, <1>6, <1>7
<1>10. Hand(w)' \subseteq Hand(w)
  BY <1>4, <1>8, <1>9 DEF Hand
<1> QED BY <1>2, <1>4, <1>5, <1>8, <1>9, <1>10

LEMMA SendSmsKeeps ==
    ASSUME IInv, NEW w \in Workers, NEW h \in work[w].todo, SendSms(w, h)
    PROVE  IInv'
<1>1. Takes(w, h, "SMS") /\ UNCHANGED <<setup, happened, queued, reached, again, stops>>
  BY DEF SendSms
<1>2. PICK outcome \in {"SKIPPED", "ERROR"} :
        InHand(w, h, outcome, {}) /\ (IF outcome = "ERROR" THEN Tried(h.row, {}) ELSE UNCHANGED rows)
  BY DEF SendSms
<1>3. /\ work' \in [Workers -> Work] /\ \A v \in Workers : v # w => work'[v] = work[v]
      /\ Hand(w)' \subseteq Hand(w) /\ h # None
      /\ h.row \in Rows /\ h.attempts \in 0..(MaxAttempts - 1) /\ h.attempts <= rows[h.row].tries
      /\ work'[w].now = h /\ work'[w].outcome = outcome /\ work'[w].left = {} /\ ~work'[w].some
  BY <1>1, <1>2, InHandIs DEF Held
<1>4. Unanswered /\ (outcome = "ERROR" => h.attempts + 1 <= rows'[h.row].tries)
  <2>1. {} \in SUBSET Marks
    OBVIOUS
  <2> QED BY <1>2, <1>3, <2>1, TriedIs, UnchangedIs
<1>5. Reaches
  BY <1>1, NotArrivingIs DEF NotArriving
<1>6. \A g \in Hand(w)' : g.row \in Rows' /\ g.attempts <= rows'[g.row].tries
  BY <1>1, <1>3, <1>4, <1>5, SendingGoes, HandStays
<1>7. WorkerInv(w)'
  BY <1>3, <1>4, <1>6 DEF WorkerInv
<1> QED BY <1>1, <1>3, <1>4, <1>5, <1>7, Sending

LEMMA SendMailKeeps ==
    ASSUME IInv, NEW w \in Workers, NEW h \in work[w].todo, SendMail(w, h)
    PROVE  IInv'
<1> DEFINE i == h.row
           o == rows[i].occasion
           e == rows[i].to
           mail == IF setup.kind[o] = "JOB" THEN "NO_TEXT" ELSE setup.mail
<1>1. Takes(w, h, "EMAIL") /\ UNCHANGED <<setup, happened, queued, stops>>
  BY DEF SendMail
<1>2. PICK outcome \in {"SENT", "SKIPPED", "ERROR"} : InHand(w, h, outcome, {})
  BY DEF SendMail
<1>3. /\ work' \in [Workers -> Work] /\ \A v \in Workers : v # w => work'[v] = work[v]
      /\ Hand(w)' \subseteq Hand(w) /\ h \in Held /\ h # None
      /\ i \in Rows /\ rows[i].channel = "EMAIL" /\ h.attempts <= rows[i].tries
      /\ work'[w].now = h /\ work'[w].outcome = outcome /\ work'[w].left = {} /\ ~work'[w].some
  BY <1>1, <1>2, InHandIs
<1>4. h.attempts \in 0..(MaxAttempts - 1)
  BY <1>3 DEF Held
<1>5. Unanswered /\ (outcome = "ERROR" => h.attempts + 1 <= rows'[i].tries)
  <2>1. CASE UNCHANGED rows /\ outcome # "ERROR"
    BY <2>1, UnchangedIs
  <2>2. CASE \E marks \in SUBSET Marks : Tried(i, marks)
    BY <1>3, <1>4, <2>2, TriedIs
  <2>3. \/ UNCHANGED rows /\ work'[w].outcome # "ERROR"
        \/ \E marks \in SUBSET Marks : Tried(i, marks)
    <3>1. {} \in SUBSET Marks /\ {"LOST"} \in SUBSET Marks
      BY DEF Marks
    <3>2. \A x \in {"SENT", "SKIPPED", "ERROR"} : InHand(w, h, x, {}) => work'[w].outcome = x
      BY <1>1, InHandIs
    <3> QED BY <3>1, <3>2 DEF SendMail
  <2> QED BY <1>3, <2>1, <2>2, <2>3
<1>6. Reaches /\ (outcome = "SENT" => e \in reached'[o])
  <2>1. CASE NotArriving /\ outcome # "SENT"
    BY <1>1, <2>1, NotArrivingIs
  <2>2. CASE mail \in {"RESEND", "BREVO"}
    <3>1. e \in Ends
      <4>1. RowInv(i) /\ setup.kind[o] # "JOB"
        BY <1>3, <2>2 DEF IInv
      <4> QED BY <1>3, <4>1 DEF RowInv, Ends
    <3>2. CASE Arrives(o, e)
      BY <1>1, <1>3, <3>1, <3>2, ArrivesIs
    <3>3. CASE NotArriving /\ e \in reached[o]
      BY <1>1, <3>3, NotArrivingIs
    <3>4. CASE NotArriving /\ outcome = "ERROR"
      BY <1>1, <3>4, NotArrivingIs
    <3>5. \/ NotArriving /\ work'[w].outcome # "SENT"
          \/ IF mail = "RESEND" /\ e \in reached[o] THEN NotArriving ELSE Arrives(o, e)
      <4>1. \A x \in {"SENT", "SKIPPED", "ERROR"} : InHand(w, h, x, {}) => work'[w].outcome = x
        BY <1>1, InHandIs
      <4> QED BY <2>2, <4>1 DEF SendMail
    <3> QED BY <1>3, <3>2, <3>3, <3>4, <3>5, <1>1, NotArrivingIs
  <2>3. mail \notin {"RESEND", "BREVO"} => NotArriving /\ work'[w].outcome # "SENT"
    <3>1. \A x \in {"SENT", "SKIPPED", "ERROR"} : InHand(w, h, x, {}) => work'[w].outcome = x
      BY <1>1, InHandIs
    <3> QED BY <3>1 DEF SendMail
  <2> QED BY <1>3, <2>1, <2>2, <2>3
<1>7. Goes
  BY <1>1, <1>5, <1>6, SendingGoes
<1>8. \A g \in Hand(w)' : g.row \in Rows' /\ g.attempts <= rows'[g.row].tries
  BY <1>3, <1>7, HandStays
<1>9. outcome = "SENT" => Told(i)'
  <2>1. rows'[i].channel = "EMAIL" /\ rows'[i].to = e /\ rows'[i].occasion = o
    BY <1>3, <1>7, GoesRows DEF Kept
  <2> QED BY <1>6, <2>1 DEF Told
<1> HIDE DEF i, o, e, mail
<1>10. WorkerInv(w)'
  BY <1>3, <1>5, <1>8, <1>9 DEF WorkerInv, i
<1> QED BY <1>1, <1>3, <1>5, <1>6, <1>10, Sending

LEMMA OpenPushKeeps ==
    ASSUME IInv, NEW w \in Workers, NEW h \in work[w].todo, OpenPush(w, h)
    PROVE  IInv'
<1>1. Takes(w, h, "PUSH") /\ UNCHANGED <<setup, happened, queued, rows, reached, again, stops>>
  BY DEF OpenPush
<1>2. PICK outcome \in {"SKIPPED", None} : \E left \in SUBSET Browsers : InHand(w, h, outcome, left)
  BY DEF OpenPush
<1>3. PICK left \in SUBSET Browsers : InHand(w, h, outcome, left)
  BY <1>2
<1>4. /\ work' \in [Workers -> Work] /\ \A v \in Workers : v # w => work'[v] = work[v]
      /\ Hand(w)' \subseteq Hand(w) /\ h # None
      /\ h.row \in Rows /\ rows[h.row].channel = "PUSH"
      /\ work'[w].now = h /\ work'[w].outcome = outcome /\ work'[w].left = left /\ ~work'[w].some
  BY <1>1, <1>3, InHandIs
<1>5. Unanswered /\ Reaches
  BY <1>1, UnchangedIs, NotArrivingIs DEF NotArriving
<1>6. \A g \in Hand(w)' : g.row \in Rows' /\ g.attempts <= rows'[g.row].tries
  BY <1>1, <1>4, <1>5, SendingGoes, HandStays
<1>7. WorkerInv(w)'
  BY <1>1, <1>2, <1>4, <1>6, NoneAssumption DEF WorkerInv
<1> QED BY <1>1, <1>4, <1>5, <1>7, Sending

-----------------------------------------------------------------------------
(* The browsers of a push *)

LEMMA AnsweredIs ==
    ASSUME IInv, NEW w \in Workers, NEW b \in work[w].left, NEW ok \in BOOLEAN, NEW err \in BOOLEAN,
           Answered(w, b, ok, err)
    PROVE  /\ work' \in [Workers -> Work] /\ \A v \in Workers : v # w => work'[v] = work[v]
           /\ work'[w].todo = work[w].todo /\ work'[w].now = work[w].now
           /\ work'[w].left = work[w].left \ {b}
           /\ work[w].left = {b} => /\ work'[w].outcome = Verdict(work[w].some \/ ok, work[w].bad \/ err)
                                    /\ ~work'[w].some
           /\ work[w].left # {b} => /\ work'[w].outcome = work[w].outcome
                                    /\ work'[w].some <=> work[w].some \/ ok
<1> DEFINE some == work[w].some \/ ok
           bad  == work[w].bad \/ err
           left == work[w].left \ {b}
           last == [work[w] EXCEPT !.left = {}, !.outcome = Verdict(some, bad), !.some = FALSE, !.bad = FALSE]
           on   == [work[w] EXCEPT !.left = left, !.some = some, !.bad = bad]
<1>1. work \in [Workers -> Work] /\ work[w] \in Work
  BY DEF IInv, TypeOK
<1>2. work[w].some \in BOOLEAN /\ work[w].bad \in BOOLEAN /\ work[w].left \subseteq Browsers
  BY <1>1 DEF Work
<1>3. some \in BOOLEAN /\ bad \in BOOLEAN /\ left \subseteq Browsers /\ (left = {} <=> work[w].left = {b})
      /\ Verdict(some, bad) \in {"SENT", "SKIPPED", "ERROR"}
  BY <1>2 DEF Verdict
<1>4. work' = [work EXCEPT ![w] = IF left = {} THEN last ELSE on]
  BY DEF Answered
<1> DEFINE v == Verdict(some, bad)
<1>5. v \in {"SENT", "SKIPPED", "ERROR"} /\ v = Verdict(work[w].some \/ ok, work[w].bad \/ err)
  BY <1>3
<1> HIDE DEF v
<1>6. last = [work[w] EXCEPT !.left = {}, !.outcome = v, !.some = FALSE, !.bad = FALSE]
  BY DEF v
<1> HIDE DEF some, bad, left, last, on
<1>7. last \in Work
  BY <1>1, <1>5, <1>6 DEF Work
<1>8. on \in Work
  BY <1>1, <1>3 DEF Work, on
<1>9. last.todo = work[w].todo /\ last.now = work[w].now /\ last.left = {} /\ last.outcome = v /\ last.some = FALSE
  BY <1>1, <1>6 DEF Work
<1>10. on.todo = work[w].todo /\ on.now = work[w].now /\ on.left = left /\ on.outcome = work[w].outcome /\ on.some = some
  BY <1>1 DEF Work, on
<1>11. /\ work' \in [Workers -> Work] /\ work'[w] = (IF left = {} THEN last ELSE on)
       /\ \A u \in Workers : u # w => work'[u] = work[u]
  BY <1>1, <1>4, <1>7, <1>8
<1>12. left = work[w].left \ {b} /\ (some <=> work[w].some \/ ok)
  BY DEF left, some
<1> QED BY <1>3, <1>5, <1>9, <1>10, <1>11, <1>12

LEMMA PushTriedIs ==
    ASSUME IInv, NEW w \in Workers, NEW b, NEW marks \in SUBSET Marks,
           work[w].now \in Held, work[w].now.row \in Rows,
           work[w].now.attempts <= rows[work[w].now.row].tries, PushTried(w, b, marks)
    PROVE  /\ Unanswered
           /\ work[w].left = {b} /\ ~work[w].some =>
                work[w].now.attempts + 1 <= rows'[work[w].now.row].tries
<1> DEFINE i == work[w].now.row
<1>1. work[w].now.attempts \in 0..(MaxAttempts - 1)
  BY DEF Held
<1>2. CASE Tried(i, marks)
  BY <1>1, <1>2, TriedIs
<1>3. CASE rows' = [rows EXCEPT ![i] = Marked(@, marks)] /\ ~(work[w].left = {b} /\ ~work[w].some)
  <2> DEFINE e == Marked(rows[i], marks)
  <2>1. rows[i] \in Row
    BY RowTypes DEF IInv
  <2>2. e \in Row /\ Kept(rows[i], e) /\ e.status = rows[i].status /\ e.attempts = rows[i].attempts
    BY <2>1, MarkedIs
  <2>3. rows' = [rows EXCEPT ![i] = e]
    BY <1>3
  <2> HIDE DEF e
  <2>4. RowsKept /\ Rows' = Rows /\ \A j \in Rows : rows'[j] = IF j = i THEN e ELSE rows[j]
    BY <2>2, <2>3, Writes DEF IInv
  <2> QED BY <1>3, <2>2, <2>4 DEF Unanswered
<1> QED BY <1>2, <1>3 DEF PushTried

LEMMA PushToKeeps ==
    ASSUME IInv, NEW w \in Workers, NEW b \in Browsers, PushTo(w, b)
    PROVE  IInv'
<1>1. /\ b \in work[w].left /\ UNCHANGED <<setup, happened, queued, stops>>
      /\ work[w] \in Work /\ WorkerInv(w) /\ work[w].some \in BOOLEAN /\ work[w].bad \in BOOLEAN
  BY DEF PushTo, IInv, TypeOK, Work
<1>2. PICK now \in Held : now = work[w].now /\ now # None /\ now \in Hand(w)
  BY <1>1 DEF WorkerInv, Hand, Work
<1>3. PICK i \in Rows : i = now.row /\ now.attempts <= rows[i].tries /\ rows[i].channel = "PUSH"
  BY <1>1, <1>2 DEF WorkerInv
<1> DEFINE Case(ok, err) ==
             /\ Answered(w, b, ok, err)
             /\ ok => Arrives(rows[i].occasion, b)
             /\ \/ UNCHANGED rows /\ (ok \/ (~err /\ ~work[w].bad))
                \/ \E marks \in SUBSET Marks : PushTried(w, b, marks)
             /\ NotArriving \/ Arrives(rows[i].occasion, b)
<1>4. PICK ok \in BOOLEAN, err \in BOOLEAN : Case(ok, err)
  <2>1. {} \in SUBSET Marks /\ {"LOST"} \in SUBSET Marks
    BY DEF Marks
  <2>2. rows[work[w].now.row].occasion = rows[i].occasion
    BY <1>2, <1>3
  <2>3. CASE Answered(w, b, TRUE, FALSE) /\ Arrives(rows[i].occasion, b) /\ UNCHANGED rows
    <3>1. Case(TRUE, FALSE)
      BY <2>3
    <3> QED BY <3>1
  <2>4. CASE /\ Answered(w, b, FALSE, FALSE) /\ NotArriving
             /\ IF work[w].bad THEN PushTried(w, b, {}) ELSE UNCHANGED rows
    <3>1. Case(FALSE, FALSE)
      BY <2>1, <2>4
    <3> QED BY <3>1
  <2>5. CASE Answered(w, b, FALSE, TRUE) /\ PushTried(w, b, {}) /\ NotArriving
    <3>1. Case(FALSE, TRUE)
      BY <2>1, <2>5
    <3> QED BY <3>1
  <2>6. CASE Answered(w, b, FALSE, TRUE) /\ PushTried(w, b, {"LOST"}) /\ Arrives(rows[i].occasion, b)
    <3>1. Case(FALSE, TRUE)
      BY <2>1, <2>6
    <3> QED BY <3>1
  <2> QED BY <2>2, <2>3, <2>4, <2>5, <2>6 DEF PushTo
<1>5. /\ work' \in [Workers -> Work] /\ \A v \in Workers : v # w => work'[v] = work[v]
      /\ work'[w].todo = work[w].todo /\ work'[w].now = now
      /\ work'[w].left = work[w].left \ {b}
      /\ work[w].left = {b} => /\ work'[w].outcome = Verdict(work[w].some \/ ok, work[w].bad \/ err)
                               /\ ~work'[w].some
      /\ work[w].left # {b} => /\ work'[w].outcome = work[w].outcome
                               /\ work'[w].some <=> work[w].some \/ ok
  BY <1>1, <1>2, <1>4, AnsweredIs
<1>6. Unanswered /\ (work[w].left = {b} /\ ~work[w].some /\ ~ok /\ (work[w].bad \/ err) =>
                         now.attempts + 1 <= rows'[i].tries)
  <2>1. CASE UNCHANGED rows /\ (ok \/ (~err /\ ~work[w].bad))
    BY <2>1, UnchangedIs
  <2>2. CASE \E marks \in SUBSET Marks : PushTried(w, b, marks)
    BY <1>2, <1>3, <2>2, PushTriedIs
  <2> QED BY <1>4, <2>1, <2>2
<1>7. Reaches /\ (ok => reached'[rows[i].occasion] \cap Browsers # {})
  <2>1. b \in Ends
    BY DEF Ends
  <2>2. CASE Arrives(rows[i].occasion, b)
    BY <1>1, <1>3, <2>1, <2>2, ArrivesIs
  <2>3. CASE NotArriving /\ ~ok
    BY <1>1, <2>3, NotArrivingIs
  <2> QED BY <1>4, <2>2, <2>3
<1>8. Goes
  BY <1>1, <1>6, <1>7, SendingGoes
<1>9. Hand(w)' = Hand(w)
  BY <1>2, <1>5 DEF Hand
<1>10. \A g \in Hand(w)' : g.row \in Rows' /\ g.attempts <= rows'[g.row].tries
  BY <1>8, <1>9, HandStays
<1>11. /\ rows'[i].channel = "PUSH" /\ rows'[i].occasion = rows[i].occasion
       /\ rows[i].occasion \in Occasions /\ (Told(i) => Told(i)')
       /\ rows'[i].tries \in Nat /\ rows[i].tries \in Nat /\ rows'[i].tries >= rows[i].tries
       /\ now.attempts \in Nat
  <2>1. Kept(rows[i], rows'[i]) /\ rows[i].occasion \in Occasions /\ (Told(i) => Told(i)')
    BY <1>3, <1>8, GoesRows
  <2>2. rows[i] \in Row
    BY <1>3, RowTypes DEF IInv
  <2>3. rows'[i] \in Row
    BY <1>3, <1>6, ElementOfSeq DEF Unanswered, RowsKept, Rows
  <2>4. now.attempts \in Nat
    BY <1>2, AttemptsAssumption DEF Held
  <2>5. rows[i].tries \in Nat /\ rows'[i].tries \in Nat
    BY <2>2, <2>3 DEF Row
  <2> QED BY <1>3, <2>1, <2>4, <2>5 DEF Kept
<1>12. work[w].some \/ ok => reached'[rows[i].occasion] \cap Browsers # {}
  <2>1. CASE work[w].some
    <3>1. reached[rows[i].occasion] \cap Browsers # {}
      BY <1>1, <1>2, <1>3, <2>1 DEF WorkerInv
    <3> QED BY <1>7, <1>11, <3>1 DEF Reaches
  <2> QED BY <1>7, <2>1
<1>13. work'[w].outcome = "ERROR" => now.attempts + 1 <= rows'[i].tries
  <2>1. CASE work[w].left = {b}
    BY <1>5, <1>6, <2>1 DEF Verdict
  <2>2. CASE work[w].left # {b}
    <3>1. work[w].outcome = "ERROR" => now.attempts + 1 <= rows[i].tries
      BY <1>1, <1>2, <1>3 DEF WorkerInv
    <3> QED BY <1>5, <1>11, <2>2, <3>1
  <2> QED BY <2>1, <2>2
<1>14. work'[w].outcome = "SENT" => Told(i)'
  <2>1. CASE work[w].left = {b}
    <3>1. work'[w].outcome = "SENT" => work[w].some \/ ok
      BY <1>5, <2>1 DEF Verdict
    <3> QED BY <1>11, <1>12, <3>1 DEF Told
  <2>2. CASE work[w].left # {b}
    BY <1>1, <1>2, <1>3, <1>5, <1>11, <2>2 DEF WorkerInv
  <2> QED BY <2>1, <2>2
<1>15. WorkerInv(w)'
  <2>1. work'[w].some => work'[w].left # {} /\ reached'[rows'[i].occasion] \cap Browsers # {}
    BY <1>1, <1>5, <1>11, <1>12
  <2> HIDE DEF Goes, Reaches, Unanswered
  <2> QED BY <1>2, <1>3, <1>5, <1>10, <1>11, <1>13, <1>14, <2>1 DEF WorkerInv
<1> QED BY <1>1, <1>5, <1>6, <1>7, <1>15, Sending

-----------------------------------------------------------------------------
(* Writing the outcome, and stopping *)

LEMMA AnswerIs ==
    ASSUME NEW r \in Row, NEW a \in 0..(MaxAttempts - 1), a <= r.tries,
           NEW outcome \in {"SENT", "SKIPPED", "ERROR"},
           outcome = "ERROR" => a + 1 <= r.tries
    PROVE  LET e == Answer(r, a, outcome) IN
           /\ e \in Row /\ Kept(r, e)
           /\ e.status = "SENT" => outcome = "SENT"
           /\ e.status \in Open => e.attempts < MaxAttempts /\ e.attempts <= e.tries
           /\ e.status = "FAILED" => e.tries >= MaxAttempts
<1>1. a \in Nat /\ a + 1 \in 0..MaxAttempts /\ r.tries \in Nat
  BY AttemptsAssumption DEF Row
<1>2. CASE outcome = "SENT"
  <2> DEFINE e == [r EXCEPT !.status = "SENT", !.attempts = a + 1]
  <2>1. e \in Row /\ e.status = "SENT"
    BY <1>1 DEF Row, Settled
  <2>2. e.occasion = r.occasion /\ e.channel = r.channel /\ e.to = r.to /\ e.tries = r.tries
    BY DEF Row
  <2>3. Answer(r, a, outcome) = e
    BY <1>2 DEF Answer
  <2> HIDE DEF e
  <2> QED BY <1>1, <1>2, <2>1, <2>2, <2>3 DEF Kept, Open
<1>3. CASE outcome = "SKIPPED"
  <2> DEFINE e == [r EXCEPT !.status = "SKIPPED"]
  <2>1. e \in Row /\ e.status = "SKIPPED"
    BY DEF Row, Settled
  <2>2. e.occasion = r.occasion /\ e.channel = r.channel /\ e.to = r.to /\ e.tries = r.tries
    BY DEF Row
  <2>3. Answer(r, a, outcome) = e
    BY <1>3 DEF Answer
  <2> HIDE DEF e
  <2> QED BY <1>1, <1>3, <2>1, <2>2, <2>3 DEF Kept, Open
<1>4. CASE outcome = "ERROR"
  <2> DEFINE s == IF a + 1 >= MaxAttempts THEN "FAILED" ELSE "PENDING"
             e == [r EXCEPT !.attempts = a + 1, !.status = s]
  <2>1. s \in {"FAILED", "PENDING"} /\ (s = "FAILED" <=> a + 1 >= MaxAttempts)
    OBVIOUS
  <2>2. Answer(r, a, outcome) = e
    BY <1>4 DEF Answer
  <2> HIDE DEF s
  <2>3. e \in Row
    BY <1>1, <2>1 DEF Row, Open, Settled
  <2>4. /\ e.occasion = r.occasion /\ e.channel = r.channel /\ e.to = r.to /\ e.tries = r.tries
        /\ e.status = s /\ e.attempts = a + 1
    BY DEF Row
  <2> HIDE DEF e
  <2> QED BY <1>1, <1>4, <2>1, <2>2, <2>3, <2>4, AttemptsAssumption DEF Kept, Open
<1> QED BY <1>2, <1>3, <1>4

LEMMA RecordKeeps == ASSUME IInv, NEW w \in Workers, Record(w)  PROVE IInv'
<1>1. /\ work[w] \in Work /\ WorkerInv(w) /\ work[w].outcome # None
      /\ UNCHANGED <<setup, happened, queued, reached, again, stops>>
  BY DEF Record, IInv, TypeOK
<1>2. PICK now \in Held : now = work[w].now /\ now \in Hand(w)
  BY <1>1 DEF WorkerInv, Hand, Work
<1>3. PICK i \in Rows : i = now.row /\ now.attempts <= rows[i].tries
  BY <1>1, <1>2 DEF WorkerInv
<1>4. PICK outcome \in {"SENT", "SKIPPED", "ERROR"} :
        /\ outcome = work[w].outcome
        /\ outcome = "ERROR" => now.attempts + 1 <= rows[i].tries
        /\ outcome = "SENT" => Told(i)
  BY <1>1, <1>2, <1>3 DEF WorkerInv, Work
<1> DEFINE e == Answer(rows[i], now.attempts, outcome)
<1>5. rows[i] \in Row /\ now.attempts \in 0..(MaxAttempts - 1)
  BY <1>2, RowTypes DEF IInv, Held
<1>6. /\ e \in Row /\ Kept(rows[i], e)
      /\ e.status = "SENT" => outcome = "SENT"
      /\ e.status \in Open => e.attempts < MaxAttempts /\ e.attempts <= e.tries
      /\ e.status = "FAILED" => e.tries >= MaxAttempts
  BY <1>3, <1>4, <1>5, AnswerIs
<1>7. rows' = [rows EXCEPT ![i] = e]
  BY <1>2, <1>3, <1>4 DEF Record
<1> HIDE DEF e
<1>8. RowsKept /\ Rows' = Rows /\ \A j \in Rows : rows'[j] = IF j = i THEN e ELSE rows[j]
  BY <1>6, <1>7, Writes DEF IInv
<1>9. Goes
  BY <1>1, <1>8 DEF Goes, IInv, TypeOK
<1>10. ASSUME NEW j \in Rows'  PROVE RowInv(j)'
  <2>1. CASE j = i
    <3>1. rows'[i] = e /\ RowInv(i) /\ (Told(i) => Told(i)')
      BY <1>8, <1>9, GoesRows DEF IInv
    <3> QED BY <1>1, <1>4, <1>6, <2>1, <3>1 DEF RowInv, Kept
  <2>2. CASE j # i
    BY <1>8, <1>9, <2>2, RowStays
  <2> QED BY <2>1, <2>2
<1> DEFINE mine == [Idle EXCEPT !.todo = work[w].todo]
<1>11. mine \in Work /\ mine.todo = work[w].todo /\ mine.now = None /\ mine.outcome = None
       /\ mine.left = {} /\ mine.some = FALSE
  BY <1>1 DEF Idle, Work
<1>12. work' = [work EXCEPT ![w] = mine]
  BY DEF Record
<1> HIDE DEF mine
<1>13. /\ work' \in [Workers -> Work] /\ work'[w] = mine
       /\ \A v \in Workers : v # w => work'[v] = work[v]
  BY <1>11, <1>12 DEF IInv, TypeOK
<1>14. Hand(w)' \subseteq Hand(w)
  BY <1>11, <1>13 DEF Hand
<1>15. \A g \in Hand(w)' : g.row \in Rows' /\ g.attempts <= rows'[g.row].tries
  BY <1>9, <1>14, HandStays
<1>16. WorkerInv(w)'
  BY <1>11, <1>13, <1>15, NoneAssumption DEF WorkerInv
<1>17. \A v \in Workers : WorkerInv(v)'
  BY <1>9, <1>13, <1>16, WorkerStays
<1>18. /\ happened' \in [Occasions -> {"NOT", "OPEN", "MADE", "UNDONE"}] /\ ReachedInv'
       /\ queued' \in [Occasions -> SUBSET Contact] /\ again' \subseteq Occasions \X Ends /\ stops' \in 0..MaxStops
  BY <1>1 DEF IInv, TypeOK, ReachedInv
<1> QED BY <1>9, <1>10, <1>13, <1>17, <1>18, Assembled

LEMMA IdleIs ==
    /\ Idle \in Work /\ Idle.todo = {} /\ Idle.now = None /\ Idle.outcome = None
    /\ Idle.left = {} /\ Idle.some = FALSE
  BY DEF Idle, Work

LEMMA StopKeeps == ASSUME IInv, NEW w \in Workers, Stop(w)  PROVE IInv'
<1>1. UNCHANGED <<setup, happened, queued, rows, reached, again>> /\ stops < MaxStops /\ stops' = stops + 1
  BY DEF Stop
<1>2. /\ work' \in [Workers -> Work] /\ work'[w] = Idle
      /\ \A v \in Workers : v # w => work'[v] = work[v]
  BY IdleIs DEF Stop, IInv, TypeOK
<1>3. RowsKept /\ Rows' = Rows
  BY <1>1, RowsSame DEF IInv
<1>4. Goes
  BY <1>1, <1>3 DEF Goes, IInv, TypeOK
<1>5. Hand(w)' = {}
  BY <1>2, IdleIs DEF Hand
<1>6. WorkerInv(w)'
  BY <1>2, <1>5, IdleIs, NoneAssumption DEF WorkerInv
<1>7. \A v \in Workers : WorkerInv(v)'
  BY <1>2, <1>4, <1>6, WorkerStays
<1>8. \A i \in Rows' : RowInv(i)'
  BY <1>1, <1>3, <1>4, RowStays
<1>9. /\ happened' \in [Occasions -> {"NOT", "OPEN", "MADE", "UNDONE"}] /\ ReachedInv'
      /\ queued' \in [Occasions -> SUBSET Contact] /\ again' \subseteq Occasions \X Ends
  BY <1>1 DEF IInv, TypeOK, ReachedInv
<1>10. stops' \in 0..MaxStops
  BY <1>1, BoundsAssumption DEF IInv, TypeOK
<1> QED BY <1>2, <1>4, <1>7, <1>8, <1>9, <1>10, Assembled

-----------------------------------------------------------------------------
(* The first invariant holds *)

LEMMA InitHolds == Init => IInv
<1> SUFFICES ASSUME Init  PROVE IInv
  OBVIOUS
<1>1. rows = <<>> /\ rows \in Seq(Row) /\ Len(rows) = 0 /\ Rows = {}
  BY DEF Init, Rows
<1>2. \A w \in Workers : Hand(w) = {} /\ WorkerInv(w)
  BY IdleIs, NoneAssumption DEF Init, Hand, WorkerInv
<1>3. /\ setup \in Setup /\ happened \in [Occasions -> {"NOT", "OPEN", "MADE", "UNDONE"}]
      /\ queued \in [Occasions -> SUBSET Contact] /\ work \in [Workers -> Work]
      /\ reached \in [Occasions -> SUBSET Ends] /\ again \subseteq Occasions \X Ends /\ stops \in 0..MaxStops
  BY IdleIs, SetupsAssumption, BoundsAssumption DEF Init
<1>4. TypeOK
  BY <1>1, <1>2, <1>3, IdleIs, BoundsAssumption DEF TypeOK, Init
<1> QED BY <1>1, <1>2, <1>4 DEF IInv, ReachedInv, Init

LEMMA StepHolds == IInv /\ [Next]_vars => IInv'
<1> SUFFICES ASSUME IInv, [Next]_vars  PROVE IInv'
  OBVIOUS
<1>1. ASSUME NEW o \in Occasions, Begin(o) \/ Commit(o) \/ RollBack(o) \/ Remind(o) \/ InsertBare(o)
      PROVE  IInv'
  BY <1>1, BeginKeeps, CommitKeeps, RollBackKeeps, RemindKeeps, InsertBareKeeps
<1>2. ASSUME NEW w \in Workers, NEW ready \in SUBSET Waiting, Claim(w, ready)  PROVE IInv'
  BY <1>2, ClaimKeeps
<1>3. ASSUME NEW w \in Workers, Send(w)  PROVE IInv'
  BY <1>3, SendMailKeeps, SendSmsKeeps, OpenPushKeeps, PushToKeeps DEF Send
<1>4. ASSUME NEW w \in Workers, Record(w) \/ Stop(w)  PROVE IInv'
  BY <1>4, RecordKeeps, StopKeeps
<1>5. CASE UNCHANGED vars
  BY <1>5 DEF vars, IInv, TypeOK, RowInv, WorkerInv, ReachedInv, Told, Rows, Hand
<1> QED BY <1>1, <1>2, <1>3, <1>4, <1>5 DEF Next

LEMMA Invariance == Spec => []IInv
  BY InitHolds, StepHolds, PTL DEF Spec

-----------------------------------------------------------------------------
(* Who is told twice: a second invariant, on top of the first *)

(* The ends a row is for, and those of them its occasion has arrived at. *)
Its(i) ==
    IF rows[i].channel = "EMAIL" THEN {rows[i].to} \cap Addresses
    ELSE IF rows[i].channel = "PUSH" THEN Browsers ELSE {}
Came(i) == reached[rows[i].occasion] \cap Its(i)

Keyed(o) == setup.kind[o] \in {"CHANGE", "REMINDER"}
Alike(r, q) == r.occasion = q.occasion /\ r.channel = q.channel /\ r.to = q.to

(* The key makes an occasion's row for one channel and recipient the only one. *)
RowForm(i) ==
    /\ setup.kind[rows[i].occasion] = "INVITE" => rows[i].channel = "SMS"
    /\ setup.kind[rows[i].occasion] = "JOB" => rows[i].channel = "EMAIL" /\ rows[i].to = None
    /\ Keyed(rows[i].occasion) => rows[i].channel # "SMS" /\ (rows[i].channel = "PUSH" => rows[i].to = None)
OneToAKey == \A i, j \in Rows : Keyed(rows[i].occasion) /\ Alike(rows[i], rows[j]) => i = j

(* What has arrived came from a row. *)
CameFromARow ==
    \A o \in Occasions : \A e \in reached[o] : \E i \in Rows : rows[i].occasion = o /\ e \in Its(i)

(* A worker holds a row once, and has no outcome while browsers are left. *)
HandFits(w) ==
    /\ \A h, g \in Hand(w) : h.row = g.row => h = g
    /\ work[w].now \notin work[w].todo
    /\ work[w].left # {} => work[w].outcome = None

(* A row that bears no mark, seen from one worker: as long as nothing has come *)
(* back lost it has arrived nowhere it may still be sent to.                 *)
Fresh(i, w) ==
    /\ Holds(w, i) => rows[i].status = "SENDING"
    /\ (\E h \in work[w].todo : h.row = i) => Came(i) = {}
    /\ work[w].now # None /\ work[w].now.row = i =>
         /\ work[w].outcome \in {"ERROR", "SKIPPED"} => Came(i) = {}
         /\ work[w].left \cap Came(i) = {}
         /\ work[w].outcome = None /\ ~work[w].some => Came(i) = {}

Alone(i) == \A v, w \in Workers : Holds(v, i) /\ Holds(w, i) => v = w

Clean(i) ==
    rows[i].marks = {} =>
        /\ Alone(i)
        /\ rows[i].status = "PENDING" => Came(i) = {}
        /\ \A w \in Workers : Fresh(i, w)

(* A transaction that raises is open for a change only. *)
OnlyChangesOpen == \A o \in Occasions : setup.kind[o] # "CHANGE" => happened[o] # "OPEN"

DInv ==
    /\ OnlyChangesOpen
    /\ \A i \in Rows : RowForm(i)
    /\ OneToAKey
    /\ CameFromARow
    /\ \A w \in Workers : HandFits(w)
    /\ \A i \in Rows : Clean(i)
    /\ ToldOnce

(* A step that leaves every row what it is and its marks where they are. *)
SameRows ==
    /\ RowsKept /\ Rows' = Rows /\ setup' = setup
    /\ \A i \in Rows : rows[i].marks \subseteq rows'[i].marks

LEMMA SameRowsKeep ==
    ASSUME IInv, DInv, SameRows
    PROVE  /\ \A i \in Rows' : RowForm(i)'
           /\ OneToAKey'
           /\ \A i \in Rows : Its(i)' = Its(i) /\ rows'[i].occasion = rows[i].occasion
<1>1. \A i \in Rows : /\ rows'[i].occasion = rows[i].occasion
                      /\ rows'[i].channel = rows[i].channel /\ rows'[i].to = rows[i].to
  BY DEF SameRows, RowsKept, Kept
<1>2. \A i \in Rows' : RowForm(i)'
  BY <1>1 DEF DInv, RowForm, Keyed, SameRows
<1>3. OneToAKey'
  BY <1>1 DEF DInv, OneToAKey, Keyed, Alike, SameRows
<1> QED BY <1>1, <1>2, <1>3 DEF Its

(* A row that no one touched but, perhaps, to put it down or to pass it over. *)
LEMMA CleanStays ==
    ASSUME IInv, DInv, SameRows, NEW j \in Rows, rows'[j].status = rows[j].status,
           Came(j)' = Came(j),
           \A v \in Workers : /\ work'[v].todo \subseteq work[v].todo /\ Hand(v)' \subseteq Hand(v)
                              /\ \/ work'[v] = work[v]
                                 \/ work'[v].now = None
                                 \/ work'[v].now.row # j
    PROVE  Clean(j)'
<1> SUFFICES ASSUME rows'[j].marks = {}
             PROVE  /\ Alone(j)' /\ (rows'[j].status = "PENDING" => Came(j)' = {})
                    /\ \A v \in Workers : Fresh(j, v)'
  BY DEF Clean
<1>1. /\ Alone(j) /\ (rows[j].status = "PENDING" => Came(j) = {})
      /\ \A v \in Workers : Fresh(j, v)
  BY DEF DInv, Clean, SameRows
<1>2. \A v \in Workers : Holds(v, j)' => Holds(v, j)
  BY DEF Holds
<1>3. Alone(j)'
  BY <1>1, <1>2 DEF Alone
<1>4. ASSUME NEW v \in Workers  PROVE Fresh(j, v)'
  <2>1. Fresh(j, v)
    BY <1>1
  <2>2. Holds(v, j)' => rows'[j].status = "SENDING"
    BY <1>2, <2>1 DEF Fresh
  <2>3. (\E h \in work'[v].todo : h.row = j) => Came(j)' = {}
    BY <2>1 DEF Fresh
  <2>4. work'[v].now # None /\ work'[v].now.row = j => work'[v] = work[v]
    OBVIOUS
  <2> HIDE DEF Came
  <2> QED BY <2>1, <2>2, <2>3, <2>4 DEF Fresh
<1> QED BY <1>1, <1>3, <1>4

(* The row in a worker's hand, as long as it bears no mark: nobody else has it. *)
LEMMA CleanMine ==
    ASSUME IInv, DInv, SameRows, NEW i \in Rows, NEW w \in Workers, Holds(w, i),
           \A v \in Workers : v # w => work'[v] = work[v],
           Hand(w)' \subseteq Hand(w),
           rows'[i].marks = {} =>
               /\ rows'[i].status = "PENDING" => Came(i)' = {}
               /\ Fresh(i, w)'
    PROVE  Clean(i)'
<1> SUFFICES ASSUME rows'[i].marks = {}
             PROVE  Alone(i)' /\ \A v \in Workers : Fresh(i, v)'
  BY DEF Clean
<1>1. Alone(i)
  BY DEF DInv, Clean, SameRows
<1>2. \A v \in Workers : v # w => ~Holds(v, i) /\ ~Holds(v, i)'
  BY <1>1 DEF Alone, Holds, Hand
<1>3. Alone(i)'
  BY <1>2 DEF Alone
<1>4. ASSUME NEW v \in Workers, v # w  PROVE Fresh(i, v)'
  <2>1. ~Holds(v, i)'
    BY <1>2, <1>4
  <2>2. ~(\E h \in work'[v].todo : h.row = i) /\ ~(work'[v].now # None /\ work'[v].now.row = i)
    BY <2>1 DEF Holds, Hand
  <2> HIDE DEF Came
  <2> QED BY <2>1, <2>2 DEF Fresh
<1> QED BY <1>3, <1>4

LEMMA TypesOfWork ==
    ASSUME IInv, NEW w \in Workers
    PROVE  /\ work[w] \in Work /\ work[w].todo \subseteq Held
           /\ Hand(w) \subseteq Held
           /\ \A h \in Hand(w) : h.row \in Rows /\ h # None
<1>1. work[w] \in Work /\ WorkerInv(w)
  BY DEF IInv, TypeOK
<1> QED BY <1>1, NotHeldAssumption DEF Work, Hand, WorkerInv

-----------------------------------------------------------------------------
(* The second invariant: raising *)

LEMMA DRaised ==
    ASSUME IInv, DInv, NEW o \in Occasions,
           NEW them \in SUBSET [channel : Channel, to : Addresses \cup {None}], Insert(o, them),
           \A r \in them : /\ setup.kind[o] = "INVITE" => r.channel = "SMS"
                           /\ setup.kind[o] = "JOB" => r.channel = "EMAIL" /\ r.to = None
                           /\ Keyed(o) => r \in Contact /\ ~(\E i \in Rows : Alike(rows[i], Pending(o, r))),
           \A p \in Occasions : /\ happened[p] = "MADE" => happened'[p] = "MADE"
                                /\ setup.kind[p] # "CHANGE" => happened'[p] # "OPEN",
           UNCHANGED <<setup, work, reached, again, stops>>
    PROVE  DInv'
<1>1. /\ RowsKept /\ \A i \in Rows : rows'[i] = rows[i]
      /\ \A i \in Rows' \ Rows : \E r \in them : rows'[i] = Pending(o, r)
      /\ \A i, j \in Rows' \ Rows : rows'[i] = rows'[j] => i = j
  BY Inserts DEF IInv
<1>2. Goes
  BY <1>1 DEF Goes, IInv, TypeOK
<1>3. Rows \subseteq Rows'
  BY <1>2, GoesRows
<1>4. \A r \in Contact : /\ r.channel # "SMS" /\ (r.channel = "PUSH" => r.to = None)
                         /\ r.channel = "EMAIL" => r.to \in Addresses
  BY DEF Contact
<1>5. ASSUME NEW i \in Rows' \ Rows
      PROVE  \E r \in them : /\ rows'[i] = Pending(o, r)
                             /\ rows'[i].occasion = o /\ rows'[i].channel = r.channel /\ rows'[i].to = r.to
                             /\ rows'[i].status = "PENDING" /\ rows'[i].marks = {}
  BY <1>1, PendingIs
<1>6. \A i \in Rows : Its(i)' = Its(i) /\ Came(i)' = Came(i)
  BY <1>1 DEF Its, Came
<1>7. ASSUME NEW i \in Rows'  PROVE RowForm(i)'
  <2>1. CASE i \in Rows
    BY <1>1, <2>1 DEF DInv, RowForm, Keyed
  <2>2. CASE i \notin Rows
    BY <1>4, <1>5, <2>2 DEF RowForm, Keyed
  <2> QED BY <2>1, <2>2
<1>8. ASSUME NEW i \in Rows', NEW j \in Rows', Keyed(rows'[i].occasion), Alike(rows'[i], rows'[j])
      PROVE  i = j
  <2>1. CASE i \in Rows /\ j \in Rows
    BY <1>1, <1>8, <2>1 DEF DInv, OneToAKey
  <2>2. CASE i \in Rows /\ j \notin Rows
    BY <1>1, <1>5, <1>8, <2>2 DEF Alike
  <2>3. CASE i \notin Rows /\ j \in Rows
    BY <1>1, <1>5, <1>8, <2>3 DEF Alike
  <2>4. CASE i \notin Rows /\ j \notin Rows
    <3>1. PICK r \in them : rows'[i] = Pending(o, r) /\ rows'[i].channel = r.channel /\ rows'[i].to = r.to
      BY <1>5, <2>4
    <3>2. PICK q \in them : rows'[j] = Pending(o, q) /\ rows'[j].channel = q.channel /\ rows'[j].to = q.to
      BY <1>5, <2>4
    <3>3. r = [channel |-> r.channel, to |-> r.to] /\ q = [channel |-> q.channel, to |-> q.to]
      OBVIOUS
    <3>4. r = q
      BY <1>8, <3>1, <3>2, <3>3 DEF Alike
    <3> QED BY <1>1, <2>4, <3>1, <3>2, <3>4
  <2> QED BY <2>1, <2>2, <2>3, <2>4
<1>9. OneToAKey'
  BY <1>8 DEF OneToAKey, Keyed
<1>10. CameFromARow'
  BY <1>1, <1>3, <1>6 DEF DInv, CameFromARow
<1>11. \A w \in Workers : HandFits(w)'
  BY DEF DInv, HandFits, Hand
<1>12. ASSUME NEW i \in Rows'  PROVE Clean(i)'
  <2>1. CASE i \in Rows
    <3>1. Clean(i) /\ rows'[i] = rows[i] /\ Came(i)' = Came(i)
      BY <1>1, <1>6, <2>1 DEF DInv
    <3>2. Alone(i)' = Alone(i) /\ \A w \in Workers : Holds(w, i)' = Holds(w, i)
      BY DEF Alone, Holds, Hand
    <3> HIDE DEF Came
    <3> QED BY <3>1, <3>2 DEF Clean, Fresh
  <2>2. CASE i \notin Rows
    <3>1. \A w \in Workers : ~Holds(w, i)' /\ ~(\E h \in work'[w].todo : h.row = i)
                             /\ ~(work'[w].now # None /\ work'[w].now.row = i)
      <4>1. ASSUME NEW w \in Workers  PROVE \A h \in Hand(w)' : h.row # i
        BY TypesOfWork, <2>2 DEF Hand
      <4> QED BY <4>1 DEF Holds, Hand
    <3>2. PICK r \in them : /\ rows'[i] = Pending(o, r)
                            /\ rows'[i].occasion = o /\ rows'[i].channel = r.channel /\ rows'[i].to = r.to
      BY <1>5, <2>2
    <3>3. Came(i)' = {}
      <4>1. SUFFICES ASSUME NEW e \in reached[o], e \in Its(i)'  PROVE FALSE
        BY <3>2 DEF Came
      <4>2. PICK j \in Rows : rows[j].occasion = o /\ e \in Its(j)
        BY DEF DInv, CameFromARow
      <4>3. \/ e \in Addresses /\ r.channel = "EMAIL" /\ r.to = e
            \/ e \in Browsers /\ r.channel = "PUSH"
        BY <3>2, <4>1 DEF Its
      <4>4. \/ e \in Addresses /\ rows[j].channel = "EMAIL" /\ rows[j].to = e
            \/ e \in Browsers /\ rows[j].channel = "PUSH"
        BY <4>2 DEF Its
      <4>5. Keyed(o)
        <5>1. setup.kind[o] \in Kinds
          BY DEF IInv, TypeOK, Setup
        <5>2. RowForm(j) /\ RowInv(j)
          BY DEF IInv, DInv
        <5>3. setup.kind[o] # "INVITE"
          BY <4>2, <4>4, <5>2 DEF RowForm
        <5>4. setup.kind[o] # "JOB"
          BY <4>2, <4>4, <5>2, NoneAssumption DEF RowForm
        <5> QED BY <5>1, <5>3, <5>4 DEF Keyed, Kinds
      <4>6. rows[j].channel = r.channel /\ rows[j].to = r.to
        BY <1>4, <4>2, <4>3, <4>4, <4>5, EndsAssumption DEF DInv, RowForm
      <4> QED BY <4>2, <4>5, <4>6, PendingIs DEF Alike
    <3> HIDE DEF Came
    <3> QED BY <3>1, <3>3 DEF Clean, Alone, Fresh
  <2> QED BY <2>1, <2>2
<1>13. ToldOnce'
  <2> SUFFICES ASSUME NEW p \in again
               PROVE  /\ \E i \in Rows' : rows'[i].occasion = p[1] /\ rows'[i].marks # {}
                      /\ p[2] \in Addresses => setup.mail = "BREVO"
    BY DEF ToldOnce
  <2> QED BY <1>1, <1>3 DEF DInv, ToldOnce
<1>14. OnlyChangesOpen'
  BY DEF OnlyChangesOpen
<1> QED BY <1>7, <1>9, <1>10, <1>11, <1>12, <1>13, <1>14 DEF DInv

LEMMA DRaising ==
    ASSUME IInv, DInv, NEW o \in Occasions, Commit(o) \/ Remind(o) \/ InsertBare(o)
    PROVE  DInv'
<1>1. CASE Commit(o)
  <2>1. /\ setup.kind \in [Occasions -> Kinds] /\ queued[o] \in SUBSET Contact /\ happened[o] = "OPEN"
        /\ happened \in [Occasions -> {"NOT", "OPEN", "MADE", "UNDONE"}]
    BY <1>1 DEF Commit, IInv, TypeOK, Setup
  <2>2. CASE setup.kind[o] = "CHANGE"
    <3>1. \A i \in Rows : rows[i].occasion # o
      BY <2>1, <2>2 DEF IInv, RowInv
    <3>2. \A r \in queued[o] : ~(\E i \in Rows : Alike(rows[i], Pending(o, r)))
      BY <3>1, PendingIs DEF Alike
    <3>3. queued[o] \in SUBSET [channel : Channel, to : Addresses \cup {None}]
      BY <2>1, ContactIs
    <3>4. \A p \in Occasions : /\ happened[p] = "MADE" => happened'[p] = "MADE"
                               /\ setup.kind[p] # "CHANGE" => happened'[p] # "OPEN"
      BY <1>1, <2>1 DEF Commit, DInv, OnlyChangesOpen
    <3> QED BY <1>1, <2>1, <2>2, <3>2, <3>3, <3>4, DRaised DEF Commit
  <2>3. CASE setup.kind[o] # "CHANGE"
    BY <2>1, <2>3 DEF DInv, OnlyChangesOpen
  <2> QED BY <2>2, <2>3
<1>2. CASE Remind(o)
  <2>1. PICK them \in Recipients : Insert(o, Unqueued(o, them))
    BY <1>2 DEF Remind
  <2>2. /\ Unqueued(o, them) \subseteq Contact
        /\ Unqueued(o, them) \in SUBSET [channel : Channel, to : Addresses \cup {None}]
    BY UnqueuedIs
  <2>3. \A r \in Unqueued(o, them) : ~(\E i \in Rows : Alike(rows[i], Pending(o, r)))
    BY PendingIs DEF Alike, Unqueued
  <2> QED BY <1>2, <2>1, <2>2, <2>3, DRaised DEF Remind, DInv, OnlyChangesOpen
<1>3. CASE InsertBare(o)
  <2> DEFINE them == {[channel |-> IF setup.kind[o] = "JOB" THEN "EMAIL" ELSE "SMS", to |-> None]}
  <2>1. /\ them \in SUBSET [channel : Channel, to : Addresses \cup {None}] /\ Insert(o, them)
        /\ \A r \in them : /\ setup.kind[o] = "INVITE" => r.channel = "SMS"
                           /\ setup.kind[o] = "JOB" => r.channel = "EMAIL" /\ r.to = None
        /\ ~Keyed(o)
    BY <1>3 DEF InsertBare, Channel, Keyed
  <2> HIDE DEF them
  <2> QED BY <1>3, <2>1, DRaised DEF InsertBare, DInv, OnlyChangesOpen
<1> QED BY <1>1, <1>2, <1>3

(* A step that leaves rows, workers and arrivals alone. *)
LEMMA DIdle ==
    ASSUME DInv, UNCHANGED <<setup, rows, work, reached, again>>,
           \A o \in Occasions : setup.kind[o] # "CHANGE" => happened'[o] # "OPEN"
    PROVE  DInv'
<1>1. Rows' = Rows /\ \A i : Its(i)' = Its(i) /\ Came(i)' = Came(i)
  BY DEF Rows, Its, Came
<1>2. \A w : Hand(w)' = Hand(w) /\ \A i : Holds(w, i)' = Holds(w, i)
  BY DEF Hand, Holds
<1>3. \A i \in Rows : Clean(i)' = Clean(i)
  <2> HIDE DEF Came
  <2> QED BY <1>1, <1>2 DEF Clean, Alone, Fresh
<1> QED BY <1>1, <1>2, <1>3 DEF DInv, RowForm, Keyed, OneToAKey, Alike, CameFromARow, HandFits, ToldOnce, OnlyChangesOpen

-----------------------------------------------------------------------------
(* The second invariant: claiming, writing the outcome, stopping *)

LEMMA DArrived ==
    ASSUME IInv, DInv, SameRows, UNCHANGED <<reached, again>>
    PROVE  /\ \A i \in Rows : Came(i)' = Came(i)
           /\ CameFromARow' /\ ToldOnce'
<1>1. \A i \in Rows : Its(i)' = Its(i) /\ rows'[i].occasion = rows[i].occasion
  BY SameRowsKeep
<1>2. \A i \in Rows : Came(i)' = Came(i)
  BY <1>1 DEF Came
<1>3. CameFromARow'
  BY <1>1 DEF DInv, CameFromARow, SameRows
<1>4. ToldOnce'
  <2> SUFFICES ASSUME NEW p \in again
               PROVE  /\ \E i \in Rows' : rows'[i].occasion = p[1] /\ rows'[i].marks # {}
                      /\ p[2] \in Addresses => setup'.mail = "BREVO"
    BY DEF ToldOnce
  <2>1. PICK i \in Rows : rows[i].occasion = p[1] /\ rows[i].marks # {}
    BY DEF DInv, ToldOnce
  <2>2. rows'[i].occasion = p[1] /\ rows'[i].marks # {} /\ i \in Rows'
    BY <1>1, <2>1 DEF SameRows
  <2> QED BY <2>2 DEF DInv, ToldOnce, SameRows
<1> QED BY <1>2, <1>3, <1>4

LEMMA DClaim ==
    ASSUME IInv, DInv, NEW w \in Workers, NEW ready \in SUBSET Waiting, Claim(w, ready)
    PROVE  DInv'
<1> DEFINE busy(i) == \E v \in Workers : Holds(v, i)
           held == {[row |-> i, attempts |-> rows[i].attempts] : i \in Oldest(ready)}
<1>1. /\ Oldest(ready) \subseteq Rows /\ \A i \in Rows : rows[i] \in Row
      /\ UNCHANGED <<setup, happened, queued, reached, again, stops>>
  BY RowTypes DEF Oldest, Waiting, Claim, IInv
<1>2. rows' = [i \in Rows |-> IF i \in Oldest(ready) THEN Claimed(i, busy(i)) ELSE rows[i]]
  BY DEF Claim
<1>3. RowsKept /\ Rows' = Rows
  BY ClaimRows
<1>4. ASSUME NEW i \in Oldest(ready)
      PROVE  /\ rows'[i].status = "SENDING"
             /\ rows'[i].marks = rows[i].marks \cup {m \in {"LAPSED"} : rows[i].status = "SENDING" \/ busy(i)}
  <2>1. rows'[i] = Claimed(i, busy(i)) /\ rows[i] \in Row
    BY <1>1, <1>2
  <2> HIDE DEF busy
  <2> QED BY <2>1 DEF Claimed, Row
<1>5. \A i \in Rows : i \notin Oldest(ready) => rows'[i] = rows[i]
  BY <1>2
<1>6. SameRows
  <2>1. \A i \in Rows : rows[i].marks \subseteq rows'[i].marks
    BY <1>4, <1>5
  <2> QED BY <1>1, <1>3, <2>1 DEF SameRows
<1>7. work[w] = Idle /\ work' = [work EXCEPT ![w] = [Idle EXCEPT !.todo = held]]
  BY DEF Claim, Idle
<1>8. /\ work'[w].todo = held /\ work'[w].now = None /\ work'[w].outcome = None
      /\ work'[w].left = {} /\ Hand(w)' = held /\ Hand(w) = {}
      /\ \A v \in Workers : v # w => work'[v] = work[v]
  BY <1>7, IdleIs DEF IInv, TypeOK, Idle, Hand
<1>9. \A i \in Rows : Holds(w, i)' <=> i \in Oldest(ready)
  <2> TAKE i \in Rows
  <2>1. Holds(w, i)' => i \in Oldest(ready)
    BY <1>8 DEF Holds
  <2>2. ASSUME i \in Oldest(ready)  PROVE Holds(w, i)'
    <3>1. [row |-> i, attempts |-> rows[i].attempts] \in Hand(w)'
      BY <1>8, <2>2
    <3> QED BY <3>1 DEF Holds
  <2> QED BY <2>1, <2>2
<1>10. ASSUME NEW v \in Workers  PROVE HandFits(v)'
  <2>1. CASE v = w
    <3>1. None \notin held
      <4>1. held \subseteq Held
        BY <1>8, ClaimKeeps DEF IInv, TypeOK, Work
      <4> QED BY <4>1, NotHeldAssumption
    <3> QED BY <2>1, <3>1, <1>8 DEF HandFits
  <2>2. CASE v # w
    BY <1>8, <2>2 DEF DInv, HandFits, Hand
  <2> QED BY <2>1, <2>2
<1>11. \A i \in Rows : Came(i)' = Came(i)
  BY <1>1, <1>6, DArrived
<1>12. ASSUME NEW i \in Rows  PROVE Clean(i)'
  <2> SUFFICES ASSUME rows'[i].marks = {}
               PROVE  /\ Alone(i)' /\ (rows'[i].status = "PENDING" => Came(i)' = {})
                      /\ \A v \in Workers : Fresh(i, v)'
    BY DEF Clean
  <2>1. Clean(i) /\ rows[i].marks = {}
    BY <1>6 DEF DInv, SameRows
  <2>2. \A v \in Workers : v # w => (Holds(v, i)' <=> Holds(v, i))
    BY <1>8 DEF Holds, Hand
  <2>3. CASE i \in Oldest(ready)
    <3>1. rows'[i].status = "SENDING" /\ rows[i].status # "SENDING" /\ ~busy(i)
      <4>1. "LAPSED" \notin {m \in {"LAPSED"} : rows[i].status = "SENDING" \/ busy(i)}
        BY <1>4, <2>3
      <4> HIDE DEF busy
      <4> QED BY <1>4, <2>3, <4>1
    <3>2. rows[i].status = "PENDING"
      BY <2>3, <3>1 DEF Oldest, Waiting, Open
    <3>3. Came(i)' = {}
      BY <1>11, <2>1, <3>2 DEF Clean
    <3>4. \A v \in Workers : v # w => ~Holds(v, i)'
      BY <2>2, <3>1
    <3>5. Alone(i)'
      BY <3>4 DEF Alone
    <3>6. \A v \in Workers : v # w => Fresh(i, v)'
      BY <3>3, <3>4 DEF Fresh, Holds, Hand
    <3>7. Fresh(i, w)'
      BY <1>8, <3>1, <3>3 DEF Fresh
    <3> QED BY <3>1, <3>5, <3>6, <3>7
  <2>4. CASE i \notin Oldest(ready)
    <3>1. rows'[i] = rows[i] /\ ~Holds(w, i)'
      BY <1>5, <1>9, <2>4
    <3>2. Alone(i)'
      BY <2>1, <2>2, <3>1 DEF Clean, Alone
    <3>3. \A v \in Workers : v # w => Fresh(i, v)'
      <4> HIDE DEF Came
      <4> QED BY <1>8, <1>11, <2>1, <2>2, <3>1 DEF Clean, Fresh
    <3>4. Fresh(i, w)'
      BY <1>8, <3>1 DEF Fresh, Holds
    <3> QED BY <1>11, <2>1, <3>1, <3>2, <3>3, <3>4 DEF Clean
  <2> QED BY <2>3, <2>4
<1>13. OnlyChangesOpen'
  BY <1>1 DEF DInv, OnlyChangesOpen
<1> QED BY <1>1, <1>3, <1>6, <1>10, <1>12, <1>13, SameRowsKeep, DArrived DEF DInv

LEMMA DStop == ASSUME IInv, DInv, NEW w \in Workers, Stop(w)  PROVE DInv'
<1>1. UNCHANGED <<setup, happened, queued, rows, reached, again>>
  BY DEF Stop
<1>2. SameRows
  BY <1>1, RowsSame DEF SameRows, IInv
<1>3. /\ work'[w] = Idle /\ \A v \in Workers : v # w => work'[v] = work[v]
  BY DEF Stop, IInv, TypeOK
<1>4. Hand(w)' = {} /\ work'[w].todo = {} /\ work'[w].now = None /\ work'[w].left = {}
  BY <1>3, IdleIs DEF Hand
<1>5. \A v \in Workers : HandFits(v)'
  BY <1>3, <1>4 DEF DInv, HandFits, Hand
<1>6. \A i \in Rows : Came(i)' = Came(i)
  BY <1>1, <1>2, DArrived
<1>7. \A v \in Workers : /\ work'[v].todo \subseteq work[v].todo /\ Hand(v)' \subseteq Hand(v)
                         /\ work'[v] = work[v] \/ work'[v].now = None
  BY <1>3, <1>4 DEF Hand
<1>8. \A i \in Rows : Clean(i)'
  BY <1>1, <1>2, <1>6, <1>7, CleanStays
<1>9. OnlyChangesOpen'
  BY <1>1 DEF DInv, OnlyChangesOpen
<1> QED BY <1>1, <1>2, <1>5, <1>8, <1>9, SameRowsKeep, DArrived DEF DInv, SameRows

-----------------------------------------------------------------------------
(* The second invariant: sending *)

(* A send leaves marks on the row in hand, and every other row alone. *)
Touched(i, ms) ==
    /\ Unanswered
    /\ \A j \in Rows : j # i => rows'[j] = rows[j]
    /\ rows'[i].marks = rows[i].marks \cup ms

LEMMA SameTouches == ASSUME IInv, NEW i \in Rows, rows' = rows  PROVE Touched(i, {})
  BY UnchangedIs DEF Touched

LEMMA TriedTouches ==
    ASSUME IInv, NEW i \in Rows, NEW ms \in SUBSET Marks,
           Tried(i, ms) \/ rows' = [rows EXCEPT ![i] = Marked(@, ms)]
    PROVE  Touched(i, ms)
<1>1. rows[i] \in Row
  BY RowTypes DEF IInv
<1>2. PICK e \in Row : /\ rows' = [rows EXCEPT ![i] = e] /\ Kept(rows[i], e)
                       /\ e.status = rows[i].status /\ e.attempts = rows[i].attempts
                       /\ e.marks = rows[i].marks \cup ms
  <2>1. CASE Tried(i, ms)
    <3>1. Failed(rows[i], ms).marks = rows[i].marks \cup ms
      BY <1>1 DEF Failed, Row
    <3> QED BY <1>1, <2>1, <3>1, FailedIs DEF Tried
  <2>2. CASE rows' = [rows EXCEPT ![i] = Marked(@, ms)]
    <3>1. Marked(rows[i], ms).marks = rows[i].marks \cup ms
      BY <1>1 DEF Marked, Row
    <3> QED BY <1>1, <2>2, <3>1, MarkedIs
  <2> QED BY <2>1, <2>2
<1>3. RowsKept /\ Rows' = Rows /\ \A j \in Rows : rows'[j] = IF j = i THEN e ELSE rows[j]
  BY <1>2, Writes DEF IInv
<1> QED BY <1>2, <1>3 DEF Touched, Unanswered

LEMMA TouchedSame ==
    ASSUME NEW i \in Rows, NEW ms, Touched(i, ms), setup' = setup
    PROVE  SameRows
  BY DEF Touched, Unanswered, SameRows

(* A row of e-mail or push that may arrive is of a kind with a key. *)
LEMMA ItsIsKeyed ==
    ASSUME IInv, DInv, NEW i \in Rows, NEW e \in Its(i)
    PROVE  Keyed(rows[i].occasion) /\ rows[i].occasion \in Occasions
<1>1. /\ RowForm(i) /\ rows[i].occasion \in Occasions /\ setup.kind[rows[i].occasion] \in Kinds
  <2>1. rows[i] \in Row
    BY RowTypes DEF IInv
  <2> QED BY <2>1 DEF DInv, IInv, TypeOK, Setup, Row
<1>2. \/ rows[i].channel = "PUSH"
      \/ rows[i].channel = "EMAIL" /\ rows[i].to \in Addresses
  BY DEF Its
<1> QED BY <1>1, <1>2, NoneAssumption DEF RowForm, Keyed, Kinds

LEMMA DArrive ==
    ASSUME IInv, DInv, SameRows, NEW i \in Rows, NEW e \in Its(i), Arrives(rows[i].occasion, e),
           e \in reached[rows[i].occasion] =>
               rows'[i].marks # {} /\ (e \in Addresses => setup.mail = "BREVO")
    PROVE  /\ \A j \in Rows : j # i => Came(j)' = Came(j)
           /\ Came(i)' = Came(i) \cup {e}
           /\ CameFromARow' /\ ToldOnce'
<1> DEFINE o == rows[i].occasion
<1>1. /\ Keyed(o) /\ o \in Occasions /\ reached \in [Occasions -> SUBSET Ends]
      /\ \A j \in Rows : Its(j)' = Its(j) /\ rows'[j].occasion = rows[j].occasion
  BY ItsIsKeyed, SameRowsKeep DEF IInv, TypeOK
<1>2. /\ reached' = [reached EXCEPT ![o] = @ \cup {e}]
      /\ again' = IF e \in reached[o] THEN again \cup {<<o, e>>} ELSE again
  BY DEF Arrives
<1>3. reached'[o] = reached[o] \cup {e} /\ \A q \in Occasions : q # o => reached'[q] = reached[q]
  BY <1>1, <1>2
<1>4. Came(i)' = Came(i) \cup {e}
  BY <1>1, <1>3 DEF Came
<1>5. ASSUME NEW j \in Rows, j # i  PROVE Came(j)' = Came(j)
  <2>1. rows[j].occasion \in Occasions
    BY RowTypes DEF IInv, Row
  <2>2. CASE rows[j].occasion # o
    BY <1>1, <1>3, <2>1, <2>2 DEF Came
  <2>3. CASE rows[j].occasion = o
    <3>1. e \notin Its(j)
      <4>1. SUFFICES ASSUME e \in Its(j)  PROVE FALSE
        OBVIOUS
      <4>2. rows[i].channel = rows[j].channel /\ rows[i].to = rows[j].to
        <5>1. \/ rows[i].channel = "EMAIL" /\ rows[i].to = e /\ e \in Addresses
              \/ rows[i].channel = "PUSH" /\ e \in Browsers
          BY DEF Its
        <5>2. \/ rows[j].channel = "EMAIL" /\ rows[j].to = e /\ e \in Addresses
              \/ rows[j].channel = "PUSH" /\ e \in Browsers
          BY <4>1 DEF Its
        <5>3. RowForm(i) /\ RowForm(j) /\ Keyed(rows[j].occasion)
          BY <1>1, <2>3 DEF DInv
        <5> QED BY <1>1, <5>1, <5>2, <5>3, EndsAssumption DEF RowForm
      <4> QED BY <1>1, <1>5, <2>3, <4>2 DEF DInv, OneToAKey, Alike
    <3> QED BY <1>1, <1>3, <2>3, <3>1 DEF Came
  <2> QED BY <2>2, <2>3
<1>6. CameFromARow'
  <2> SUFFICES ASSUME NEW q \in Occasions, NEW x \in reached'[q]
               PROVE  \E j \in Rows : rows'[j].occasion = q /\ x \in Its(j)'
    BY DEF CameFromARow, SameRows
  <2>1. CASE x \in reached[q]
    <3>1. PICK j \in Rows : rows[j].occasion = q /\ x \in Its(j)
      BY <2>1 DEF DInv, CameFromARow
    <3> QED BY <1>1, <3>1
  <2>2. CASE x \notin reached[q]
    <3>1. q = o /\ x = e
      BY <1>3, <2>2
    <3> QED BY <1>1, <3>1
  <2> QED BY <2>1, <2>2
<1>7. ToldOnce'
  <2> SUFFICES ASSUME NEW p \in again'
               PROVE  /\ \E j \in Rows : rows'[j].occasion = p[1] /\ rows'[j].marks # {}
                      /\ p[2] \in Addresses => setup.mail = "BREVO"
    BY DEF ToldOnce, SameRows
  <2>1. CASE p \in again
    <3>1. /\ p[2] \in Addresses => setup.mail = "BREVO"
          /\ \E j \in Rows : rows[j].occasion = p[1] /\ rows[j].marks # {}
      BY <2>1 DEF DInv, ToldOnce
    <3>2. PICK j \in Rows : rows[j].occasion = p[1] /\ rows[j].marks # {}
      BY <3>1
    <3>3. rows'[j].occasion = p[1] /\ rows'[j].marks # {}
      BY <1>1, <3>2 DEF SameRows
    <3> QED BY <3>1, <3>3
  <2>2. CASE p \notin again
    <3>1. p = <<o, e>> /\ e \in reached[o]
      BY <1>2, <2>2
    <3>2. p[1] = o /\ p[2] = e
      BY <3>1
    <3> QED BY <1>1, <3>1, <3>2
  <2> QED BY <2>1, <2>2
<1> QED BY <1>4, <1>5, <1>6, <1>7

(* What a step of the sending has still to show of the row in hand. *)
LEMMA DSend ==
    ASSUME IInv, DInv, NEW w \in Workers, NEW i \in Rows, Holds(w, i),
           NEW ms, Touched(i, ms), UNCHANGED <<setup, happened>>,
           \A v \in Workers : v # w => work'[v] = work[v],
           work'[w].todo \subseteq work[w].todo, Hand(w)' \subseteq Hand(w),
           work'[w].now.row = i, HandFits(w)',
           \A j \in Rows : j # i => Came(j)' = Came(j),
           CameFromARow', ToldOnce', rows'[i].marks = {} => Fresh(i, w)'
    PROVE  DInv'
<1>1. SameRows /\ Rows' = Rows
  <2>1. SameRows
    BY TouchedSame
  <2> QED BY <2>1 DEF SameRows
<1>2. \A v \in Workers : HandFits(v)'
  BY DEF DInv, HandFits, Hand
<1>3. ASSUME NEW j \in Rows, j # i  PROVE Clean(j)'
  <2>1. rows'[j].status = rows[j].status
    BY <1>3 DEF Touched
  <2>2. \A v \in Workers : /\ work'[v].todo \subseteq work[v].todo /\ Hand(v)' \subseteq Hand(v)
                           /\ \/ work'[v] = work[v]
                              \/ work'[v].now = None
                              \/ work'[v].now.row # j
    BY <1>3 DEF Hand
  <2>3. Came(j)' = Came(j)
    BY <1>3
  <2> QED BY <1>1, <2>1, <2>2, <2>3, CleanStays
<1>4. Clean(i)'
  <2>1. rows'[i].marks = {} => rows'[i].status # "PENDING"
    <3>1. rows'[i].marks = {} => rows[i].marks = {}
      BY DEF Touched
    <3>2. rows[i].marks = {} => rows[i].status = "SENDING"
      BY DEF DInv, Clean, Fresh
    <3> QED BY <3>1, <3>2 DEF Touched, Unanswered
  <2> HIDE DEF Came
  <2> QED BY <1>1, <2>1, CleanMine
<1>5. OnlyChangesOpen'
  BY DEF DInv, OnlyChangesOpen
<1> QED BY <1>1, <1>2, <1>3, <1>4, <1>5, SameRowsKeep DEF DInv

LEMMA DInHand ==
    ASSUME IInv, DInv, NEW w \in Workers, NEW channel, NEW h, Takes(w, h, channel),
           NEW outcome \in {"SENT", "SKIPPED", "ERROR", None}, NEW left \in SUBSET Browsers,
           left # {} => outcome = None, InHand(w, h, outcome, left)
    PROVE  /\ HandFits(w)' /\ Holds(w, h.row)
           /\ ~(\E g \in work'[w].todo : g.row = h.row)
           /\ rows[h.row].marks = {} => rows[h.row].status = "SENDING" /\ Came(h.row) = {}
<1>1. /\ Hand(w)' \subseteq Hand(w) /\ h # None /\ h.row \in Rows
      /\ work'[w].now = h /\ work'[w].todo = work[w].todo \ {h}
      /\ work'[w].outcome = outcome /\ work'[w].left = left
  BY InHandIs
<1>2. h \in work[w].todo /\ h \in Hand(w)
  BY DEF Takes, Hand
<1>3. HandFits(w)
  BY DEF DInv
<1>4. \A g \in work[w].todo : g \in Hand(w)
  BY TypesOfWork DEF Hand
<1>5. ~(\E g \in work'[w].todo : g.row = h.row)
  BY <1>1, <1>2, <1>3, <1>4 DEF HandFits
<1>6. HandFits(w)'
  BY <1>1, <1>3 DEF HandFits
<1>7. Holds(w, h.row)
  BY <1>2 DEF Holds
<1>8. rows[h.row].marks = {} => Fresh(h.row, w)
  BY <1>1 DEF DInv, Clean
<1>9. rows[h.row].marks = {} => rows[h.row].status = "SENDING" /\ Came(h.row) = {}
  BY <1>2, <1>7, <1>8 DEF Fresh
<1> QED BY <1>5, <1>6, <1>7, <1>9

LEMMA DTakes ==
    ASSUME IInv, DInv, NEW w \in Workers, NEW channel, NEW h, Takes(w, h, channel),
           NEW outcome \in {"SENT", "SKIPPED", "ERROR", None}, NEW left \in SUBSET Browsers,
           left # {} => outcome = None, InHand(w, h, outcome, left),
           NEW ms, Touched(h.row, ms), UNCHANGED <<setup, happened>>,
           \A j \in Rows : j # h.row => Came(j)' = Came(j),
           CameFromARow', ToldOnce',
           rows'[h.row].marks = {} => outcome = "SENT" \/ Came(h.row)' = {}
    PROVE  DInv'
<1>1. /\ \A v \in Workers : v # w => work'[v] = work[v]
      /\ Hand(w)' \subseteq Hand(w) /\ h # None /\ h.row \in Rows
      /\ work'[w].now = h /\ work'[w].todo = work[w].todo \ {h}
      /\ work'[w].outcome = outcome /\ work'[w].left = left
  BY InHandIs
<1>2. /\ HandFits(w)' /\ Holds(w, h.row)
      /\ ~(\E g \in work'[w].todo : g.row = h.row)
      /\ rows[h.row].marks = {} => rows[h.row].status = "SENDING"
  BY DInHand
<1>3. ASSUME rows'[h.row].marks = {}  PROVE Fresh(h.row, w)'
  <2>1. rows'[h.row].status = "SENDING"
    BY <1>1, <1>2, <1>3 DEF Touched, Unanswered
  <2>2. outcome = "SENT" \/ Came(h.row)' = {}
    BY <1>3
  <2>3. left # {} => outcome = None
    OBVIOUS
  <2> HIDE DEF Came
  <2> QED BY <1>1, <1>2, <2>1, <2>2, <2>3, NoneAssumption DEF Fresh
<1>4. work'[w].todo \subseteq work[w].todo /\ work'[w].now.row = h.row
  BY <1>1
<1> HIDE DEF Came
<1> QED BY <1>1, <1>2, <1>3, <1>4, DSend

LEMMA DSendSms ==
    ASSUME IInv, DInv, NEW w \in Workers, NEW h, SendSms(w, h) \/ OpenPush(w, h)
    PROVE  DInv'
<1>1. /\ UNCHANGED <<setup, happened, queued, reached, again, stops>>
      /\ \E channel : Takes(w, h, channel)
      /\ \E outcome \in {"SKIPPED", "ERROR", None}, left \in SUBSET Browsers :
           InHand(w, h, outcome, left) /\ (left # {} => outcome = None)
      /\ UNCHANGED rows \/ Tried(h.row, {})
  BY DEF SendSms, OpenPush
<1>2. PICK channel : Takes(w, h, channel)
  BY <1>1
<1>3. PICK outcome \in {"SKIPPED", "ERROR", None}, left \in SUBSET Browsers :
           InHand(w, h, outcome, left) /\ (left # {} => outcome = None)
  BY <1>1
<1>4. h.row \in Rows
  BY <1>2, <1>3, InHandIs
<1>5. Touched(h.row, {})
  <2>1. {} \in SUBSET Marks
    OBVIOUS
  <2> QED BY <1>1, <1>4, <2>1, SameTouches, TriedTouches
<1>6. SameRows
  BY <1>1, <1>4, <1>5, TouchedSame
<1>7. (\A j \in Rows : Came(j)' = Came(j)) /\ CameFromARow' /\ ToldOnce'
  BY <1>1, <1>6, DArrived
<1>8. rows'[h.row].marks = {} => Came(h.row)' = {}
  <2>1. rows[h.row].marks = {} => Came(h.row) = {}
    BY <1>2, <1>3, DInHand
  <2>2. rows'[h.row].marks = rows[h.row].marks \cup {}
    BY <1>5 DEF Touched
  <2> HIDE DEF Came
  <2> QED BY <1>4, <1>7, <2>1, <2>2
<1> HIDE DEF Came
<1> QED BY <1>1, <1>2, <1>3, <1>5, <1>7, <1>8, DTakes

LEMMA DSendMail ==
    ASSUME IInv, DInv, NEW w \in Workers, NEW h, SendMail(w, h)
    PROVE  DInv'
<1> DEFINE i == h.row
           o == rows[i].occasion
           e == rows[i].to
           mail == IF setup.kind[o] = "JOB" THEN "NO_TEXT" ELSE setup.mail
           delivered == /\ mail \in {"RESEND", "BREVO"}
                        /\ IF mail = "RESEND" /\ e \in reached[o] THEN NotArriving ELSE Arrives(o, e)
<1>1. Takes(w, h, "EMAIL") /\ UNCHANGED <<setup, happened, queued, stops>>
  BY DEF SendMail
<1>2. \/ InHand(w, h, "SKIPPED", {}) /\ NotArriving /\ UNCHANGED rows
      \/ InHand(w, h, "ERROR", {}) /\ Tried(i, {}) /\ NotArriving
      \/ InHand(w, h, "SENT", {}) /\ UNCHANGED rows /\ delivered
      \/ InHand(w, h, "ERROR", {}) /\ Tried(i, {"LOST"}) /\ delivered
  BY DEF SendMail
<1>3. PICK outcome \in {"SENT", "SKIPPED", "ERROR"}, ms \in SUBSET Marks :
        /\ InHand(w, h, outcome, {})
        /\ \/ ms = {} /\ UNCHANGED rows
           \/ Tried(i, ms)
        /\ \/ outcome # "SENT" /\ NotArriving
           \/ delivered /\ (outcome = "SENT" \/ ms = {"LOST"})
  <2>1. {} \in SUBSET Marks /\ {"LOST"} \in SUBSET Marks
    BY DEF Marks
  <2> HIDE DEF delivered, i
  <2> QED BY <1>2, <2>1
<1>4. i \in Rows /\ rows[i].channel = "EMAIL"
  BY <1>1, <1>3, InHandIs
<1>5. Touched(i, ms)
  BY <1>3, <1>4, SameTouches, TriedTouches
<1>6. SameRows
  BY <1>1, <1>4, <1>5, TouchedSame
<1>7. rows[i].marks = {} => Came(i) = {}
  BY <1>1, <1>3, DInHand
<1>8. rows'[i].marks = rows[i].marks \cup ms
  BY <1>5 DEF Touched
<1>9. /\ \A j \in Rows : j # i => Came(j)' = Came(j)
      /\ CameFromARow' /\ ToldOnce'
      /\ rows'[i].marks = {} => outcome = "SENT" \/ Came(i)' = {}
  <2>1. CASE NotArriving /\ outcome # "SENT"
    BY <1>4, <1>6, <1>7, <1>8, <2>1, DArrived DEF NotArriving
  <2>2. CASE delivered /\ NotArriving /\ (outcome = "SENT" \/ ms = {"LOST"})
    BY <1>4, <1>6, <1>8, <2>2, DArrived DEF NotArriving
  <2>3. CASE /\ delivered /\ (outcome = "SENT" \/ ms = {"LOST"})
             /\ Arrives(o, e) /\ ~(mail = "RESEND" /\ e \in reached[o])
    <3>1. RowForm(i) /\ RowInv(i) /\ setup.kind[o] # "JOB" /\ mail = setup.mail
      BY <1>4, <2>3 DEF DInv, IInv
    <3>2. e \in Its(i)
      BY <1>4, <3>1 DEF Its, RowInv
    <3>3. e \in reached[o] => /\ rows'[i].marks # {}
                              /\ e \in Addresses => setup.mail = "BREVO"
      <4>1. e \in reached[o] => rows[i].marks # {}
        BY <1>7, <3>2 DEF Came
      <4> QED BY <1>8, <2>3, <3>1, <4>1
    <3> QED BY <1>4, <1>6, <1>8, <2>3, <3>2, <3>3, DArrive
  <2>4. delivered => NotArriving \/ (Arrives(o, e) /\ ~(mail = "RESEND" /\ e \in reached[o]))
    OBVIOUS
  <2> HIDE DEF delivered, mail, o, e, i, Came
  <2> QED BY <1>3, <2>1, <2>2, <2>3, <2>4
<1>10. outcome \in {"SENT", "SKIPPED", "ERROR", None} /\ {} \in SUBSET Browsers
  OBVIOUS
<1> HIDE DEF Came
<1> QED BY <1>1, <1>3, <1>5, <1>9, <1>10, DTakes

(* One browser of a push. *)
LEMMA DPushTo ==
    ASSUME IInv, DInv, NEW w \in Workers, NEW b \in Browsers, PushTo(w, b)
    PROVE  DInv'
<1>1. /\ b \in work[w].left /\ UNCHANGED <<setup, happened, queued, stops>>
      /\ work[w] \in Work /\ WorkerInv(w) /\ work[w].some \in BOOLEAN /\ work[w].bad \in BOOLEAN
      /\ HandFits(w)
  BY DEF PushTo, IInv, DInv, TypeOK, Work
<1>2. PICK now \in Held : now = work[w].now /\ now # None /\ now \in Hand(w)
  BY <1>1 DEF WorkerInv, Hand, Work
<1>3. PICK i \in Rows : i = now.row /\ rows[i].channel = "PUSH" /\ Holds(w, i)
  BY <1>1, <1>2 DEF WorkerInv, Holds
<1> DEFINE o == rows[i].occasion
           Case(ok, err, ms) ==
             /\ Answered(w, b, ok, err)
             /\ \/ UNCHANGED rows /\ ms = {}
                \/ PushTried(w, b, ms)
             /\ \/ ~ok /\ NotArriving
                \/ Arrives(o, b) /\ (ok \/ ms = {"LOST"})
<1>4. PICK ok \in BOOLEAN, err \in BOOLEAN, ms \in SUBSET Marks : Case(ok, err, ms)
  <2>1. {} \in SUBSET Marks /\ {"LOST"} \in SUBSET Marks
    BY DEF Marks
  <2>2. rows[work[w].now.row].occasion = o
    BY <1>2, <1>3
  <2>3. CASE Answered(w, b, TRUE, FALSE) /\ Arrives(o, b) /\ UNCHANGED rows
    <3>1. Case(TRUE, FALSE, {})
      BY <2>3
    <3> QED BY <2>1, <3>1
  <2>4. CASE /\ Answered(w, b, FALSE, FALSE) /\ NotArriving
             /\ IF work[w].bad THEN PushTried(w, b, {}) ELSE UNCHANGED rows
    <3>1. Case(FALSE, FALSE, {})
      BY <2>4
    <3> QED BY <2>1, <3>1
  <2>5. CASE Answered(w, b, FALSE, TRUE) /\ PushTried(w, b, {}) /\ NotArriving
    <3>1. Case(FALSE, TRUE, {})
      BY <2>5
    <3> QED BY <2>1, <3>1
  <2>6. CASE Answered(w, b, FALSE, TRUE) /\ PushTried(w, b, {"LOST"}) /\ Arrives(o, b)
    <3>1. Case(FALSE, TRUE, {"LOST"})
      BY <2>6
    <3> QED BY <2>1, <3>1
  <2> QED BY <2>2, <2>3, <2>4, <2>5, <2>6 DEF PushTo
<1>5. Touched(i, ms)
  <2>1. PushTried(w, b, ms) => Tried(i, ms) \/ rows' = [rows EXCEPT ![i] = Marked(@, ms)]
    BY <1>2, <1>3 DEF PushTried
  <2> QED BY <1>4, <2>1, SameTouches, TriedTouches
<1>6. SameRows
  BY <1>1, <1>5, TouchedSame
<1>7. /\ \A v \in Workers : v # w => work'[v] = work[v]
      /\ work'[w].todo = work[w].todo /\ work'[w].now = now
      /\ work'[w].left = work[w].left \ {b}
      /\ work[w].left = {b} => /\ work'[w].outcome = Verdict(work[w].some \/ ok, work[w].bad \/ err)
                               /\ ~work'[w].some
      /\ work[w].left # {b} => /\ work'[w].outcome = work[w].outcome
                               /\ work'[w].some <=> work[w].some \/ ok
  BY <1>1, <1>2, <1>4, AnsweredIs
<1>8. work[w].outcome = None
  BY <1>1 DEF HandFits
<1>9. Hand(w)' = Hand(w)
  BY <1>2, <1>7 DEF Hand
<1>10. HandFits(w)'
  <2>1. work'[w].left # {} => work'[w].outcome = None
    BY <1>7, <1>8
  <2> QED BY <1>1, <1>2, <1>7, <1>9, <2>1 DEF HandFits
<1>11. rows[i].marks = {} =>
         /\ rows[i].status = "SENDING" /\ work[w].left \cap Came(i) = {}
         /\ ~work[w].some => Came(i) = {}
         /\ ~(\E h \in work[w].todo : h.row = i)
  <2>1. rows[i].marks = {} => Fresh(i, w)
    BY DEF DInv, Clean
  <2>2. ~(\E h \in work[w].todo : h.row = i)
    BY <1>1, <1>2, <1>3 DEF HandFits, Hand
  <2> HIDE DEF Came
  <2> QED BY <1>2, <1>3, <1>8, <2>1, <2>2 DEF Fresh
<1>12. rows'[i].marks = rows[i].marks \cup ms /\ rows'[i].status = rows[i].status
  BY <1>5 DEF Touched, Unanswered
<1>13. b \in Its(i) /\ b \notin Addresses
  BY <1>3, EndsAssumption DEF Its
<1>14. /\ \A j \in Rows : j # i => Came(j)' = Came(j)
       /\ CameFromARow' /\ ToldOnce'
       /\ \/ Came(i)' = Came(i) /\ ~ok
          \/ Came(i)' = Came(i) \cup {b} /\ (ok \/ ms = {"LOST"})
  <2>1. CASE ~ok /\ NotArriving
    BY <1>6, <2>1, DArrived DEF NotArriving
  <2>2. CASE Arrives(o, b) /\ (ok \/ ms = {"LOST"})
    <3>1. b \in reached[o] => rows[i].marks # {}
      BY <1>1, <1>11, <1>13 DEF Came
    <3> QED BY <1>6, <1>12, <1>13, <2>2, <3>1, DArrive
  <2> HIDE DEF Came, o
  <2> QED BY <1>4, <2>1, <2>2
<1>15. ASSUME rows'[i].marks = {}  PROVE Fresh(i, w)'
  <2>1. /\ rows[i].marks = {} /\ ms # {"LOST"} /\ rows'[i].status = "SENDING"
        /\ work[w].left \cap Came(i) = {} /\ (~work[w].some => Came(i) = {})
        /\ ~(\E h \in work'[w].todo : h.row = i)
    BY <1>7, <1>11, <1>12, <1>15
  <2>2. \/ Came(i)' = Came(i) /\ ~ok
        \/ Came(i)' = Came(i) \cup {b} /\ ok
    BY <1>14, <2>1
  <2>3. work'[w].left \cap Came(i)' = {}
    BY <1>7, <2>1, <2>2
  <2> HIDE DEF Came
  <2>4. work'[w].outcome \in {"ERROR", "SKIPPED"} => Came(i)' = {}
    <3>1. CASE work[w].left = {b}
      <4>1. work'[w].outcome \in {"ERROR", "SKIPPED"} => ~work[w].some /\ ~ok
        BY <1>7, <3>1 DEF Verdict
      <4> QED BY <2>1, <2>2, <4>1
    <3>2. CASE work[w].left # {b}
      BY <1>7, <1>8, <3>2, NoneAssumption
    <3> QED BY <3>1, <3>2
  <2>5. work'[w].outcome = None /\ ~work'[w].some => Came(i)' = {}
    <3>1. CASE work[w].left = {b}
      <4>1. work'[w].outcome \in {"SENT", "ERROR", "SKIPPED"}
        BY <1>7, <3>1 DEF Verdict
      <4> QED BY <4>1, NoneAssumption
    <3>2. CASE work[w].left # {b}
      BY <1>7, <2>1, <2>2, <3>2
    <3> QED BY <3>1, <3>2
  <2> QED BY <2>1, <2>3, <2>4, <2>5 DEF Fresh
<1>16. work'[w].now.row = i /\ Hand(w)' \subseteq Hand(w) /\ work'[w].todo \subseteq work[w].todo
  BY <1>3, <1>7, <1>9
<1> HIDE DEF Came
<1> QED BY <1>1, <1>3, <1>5, <1>7, <1>10, <1>14, <1>15, <1>16, DSend

LEMMA DRecord == ASSUME IInv, DInv, NEW w \in Workers, Record(w)  PROVE DInv'
<1>1. /\ work[w] \in Work /\ WorkerInv(w) /\ HandFits(w) /\ work[w].outcome # None
      /\ UNCHANGED <<setup, happened, queued, reached, again, stops>>
  BY DEF Record, IInv, DInv, TypeOK
<1>2. PICK now \in Held : now = work[w].now /\ now \in Hand(w) /\ now # None
  BY <1>1 DEF WorkerInv, Hand, Work
<1>3. PICK i \in Rows : i = now.row /\ now.attempts <= rows[i].tries /\ Holds(w, i)
  BY <1>1, <1>2 DEF WorkerInv, Holds
<1>4. PICK outcome \in {"SENT", "SKIPPED", "ERROR"} :
        /\ outcome = work[w].outcome
        /\ outcome = "ERROR" => now.attempts + 1 <= rows[i].tries
  BY <1>1, <1>2, <1>3 DEF WorkerInv, Work
<1> DEFINE e == Answer(rows[i], now.attempts, outcome)
<1>5. rows[i] \in Row /\ now.attempts \in 0..(MaxAttempts - 1)
  BY <1>2, RowTypes DEF IInv, Held
<1>6. e \in Row /\ Kept(rows[i], e)
  BY <1>3, <1>4, <1>5, AnswerIs
<1>7. e.marks = rows[i].marks /\ (e.status = "PENDING" => outcome = "ERROR")
  <2>1. CASE outcome = "SENT"
    BY <1>5, <2>1 DEF Answer, Row
  <2>2. CASE outcome = "SKIPPED"
    BY <1>5, <2>2 DEF Answer, Row
  <2>3. CASE outcome = "ERROR"
    BY <1>5, <2>3 DEF Answer, Row
  <2> QED BY <2>1, <2>2, <2>3
<1>8. rows' = [rows EXCEPT ![i] = e]
  BY <1>2, <1>3, <1>4 DEF Record
<1> HIDE DEF e
<1>9. RowsKept /\ Rows' = Rows /\ \A j \in Rows : rows'[j] = IF j = i THEN e ELSE rows[j]
  BY <1>6, <1>8, Writes DEF IInv
<1>10. SameRows
  BY <1>1, <1>7, <1>9 DEF SameRows
<1>11. /\ work'[w].todo = work[w].todo /\ work'[w].now = None /\ work'[w].left = {}
       /\ \A v \in Workers : v # w => work'[v] = work[v]
  BY <1>1 DEF Record, IInv, TypeOK, Idle
<1>12. Hand(w)' = work[w].todo /\ Hand(w)' \subseteq Hand(w)
  BY <1>11, TypesOfWork DEF Hand
<1>13. \A v \in Workers : HandFits(v)'
  <2>1. HandFits(w)'
    <3>1. None \notin work[w].todo
      BY TypesOfWork, NotHeldAssumption
    <3> QED BY <1>1, <1>11, <1>12, <3>1 DEF HandFits
  <2>2. ASSUME NEW v \in Workers, v # w  PROVE HandFits(v)'
    BY <1>11, <2>2 DEF DInv, HandFits, Hand
  <2> QED BY <2>1, <2>2
<1>14. (\A j \in Rows : Came(j)' = Came(j)) /\ CameFromARow' /\ ToldOnce'
  BY <1>1, <1>10, DArrived
<1>15. ASSUME NEW j \in Rows  PROVE Clean(j)'
  <2>1. CASE j = i
    <3>1. ~Holds(w, i)'
      BY <1>1, <1>2, <1>3, <1>12 DEF HandFits, Holds, Hand
    <3>2. rows[i].marks = {} => Fresh(i, w)
      BY DEF DInv, Clean
    <3> HIDE DEF Came
    <3>3. rows'[i].marks = {} => (rows'[i].status = "PENDING" => Came(i)' = {})
      BY <1>2, <1>3, <1>4, <1>7, <1>9, <1>14, <3>2 DEF Fresh
    <3>4. Fresh(i, w)'
      BY <1>11, <1>12, <3>1 DEF Fresh, Holds
    <3> QED BY <1>3, <1>10, <1>11, <1>12, <2>1, <3>3, <3>4, CleanMine
  <2>2. CASE j # i
    <3>1. rows'[j].status = rows[j].status /\ Came(j)' = Came(j)
      BY <1>9, <1>14, <2>2
    <3>2. \A v \in Workers : /\ work'[v].todo \subseteq work[v].todo /\ Hand(v)' \subseteq Hand(v)
                             /\ work'[v] = work[v] \/ work'[v].now = None
      BY <1>11, <1>12 DEF Hand
    <3> HIDE DEF Came
    <3> QED BY <1>10, <3>1, <3>2, CleanStays
  <2> QED BY <2>1, <2>2
<1>16. OnlyChangesOpen'
  BY <1>1 DEF DInv, OnlyChangesOpen
<1> QED BY <1>9, <1>10, <1>13, <1>14, <1>15, <1>16, SameRowsKeep DEF DInv

LEMMA DInit == Init => DInv
<1> SUFFICES ASSUME Init  PROVE DInv
  OBVIOUS
<1>1. Rows = {} /\ again = {} /\ \A o \in Occasions : reached[o] = {} /\ happened[o] # "OPEN"
  BY DEF Init, Rows
<1>2. \A w \in Workers : HandFits(w)
  <2>1. \A w \in Workers : work[w].todo = {} /\ work[w].now = None /\ work[w].left = {} /\ Hand(w) = {}
    BY IdleIs DEF Init, Hand
  <2> QED BY <2>1 DEF HandFits
<1> QED BY <1>1, <1>2 DEF DInv, OneToAKey, CameFromARow, ToldOnce, OnlyChangesOpen

LEMMA DStep == IInv /\ DInv /\ [Next]_vars => DInv'
<1> SUFFICES ASSUME IInv, DInv, [Next]_vars  PROVE DInv'
  OBVIOUS
<1>1. ASSUME NEW o \in Occasions, Begin(o) \/ RollBack(o)  PROVE DInv'
  <2>1. UNCHANGED <<setup, rows, work, reached, again>>
    BY <1>1 DEF Begin, RollBack
  <2>2. \A p \in Occasions : setup.kind[p] # "CHANGE" => happened'[p] # "OPEN"
    BY <1>1 DEF Begin, RollBack, IInv, TypeOK, DInv, OnlyChangesOpen
  <2> QED BY <2>1, <2>2, DIdle
<1>2. ASSUME NEW o \in Occasions, Commit(o) \/ Remind(o) \/ InsertBare(o)  PROVE DInv'
  BY <1>2, DRaising
<1>3. ASSUME NEW w \in Workers, NEW ready \in SUBSET Waiting, Claim(w, ready)  PROVE DInv'
  BY <1>3, DClaim
<1>4. ASSUME NEW w \in Workers, Send(w)  PROVE DInv'
  BY <1>4, DSendMail, DSendSms, DPushTo DEF Send
<1>5. ASSUME NEW w \in Workers, Record(w) \/ Stop(w)  PROVE DInv'
  BY <1>5, DRecord, DStop
<1>6. CASE UNCHANGED vars
  <2>1. \A p \in Occasions : setup.kind[p] # "CHANGE" => happened'[p] # "OPEN"
    BY <1>6 DEF vars, DInv, OnlyChangesOpen
  <2> QED BY <1>6, <2>1, DIdle DEF vars
<1> QED BY <1>1, <1>2, <1>3, <1>4, <1>5, <1>6 DEF Next

LEMMA DInvariance == Spec => []DInv
  BY DInit, DStep, Invariance, PTL DEF Spec

-----------------------------------------------------------------------------
(* The theorems *)

(* The queue, the batches of its workers and what has arrived keep their      *)
(* shape; a row that waits has attempts left (dispatch).                    *)
THEOREM TypeCorrect == Spec => []TypeOK
<1>1. IInv => TypeOK
  BY DEF IInv
<1> QED BY <1>1, Invariance, PTL

(* Nothing of a change that is open or was rolled back is queued or has       *)
(* arrived (notifyInTx, raiseSafely).                                       *)
THEOREM NothingOfAnUnmadeChange == Spec => []OnlyWithItsChange
<1>1. IInv => OnlyWithItsChange
  BY DEF IInv, RowInv, ReachedInv, OnlyWithItsChange
<1> QED BY <1>1, Invariance, PTL

(* No row is given up before MaxAttempts sends of it have failed, whatever     *)
(* number of workers overwrite each other's counts (dispatch).              *)
THEOREM GivenUpAfterAllAttempts == Spec => []NotGivenUpEarly
<1>1. IInv => NotGivenUpEarly
  BY DEF IInv, RowInv, NotGivenUpEarly
<1> QED BY <1>1, Invariance, PTL

(* A row shown as SENT has arrived (sendOne and the writing of its outcome).  *)
THEOREM SentIsTrue == Spec => []SentHasArrived
<1>1. IInv => SentHasArrived
  BY DEF IInv, RowInv, Told, SentHasArrived
<1> QED BY <1>1, Invariance, PTL

(* However often an occasion is raised again and whatever number of workers    *)
(* send it, nobody hears of it twice at one address or browser, unless an      *)
(* answer was lost or a claim lapsed, and never by e-mail through Resend      *)
(* (dedupe_key, the claim of dispatch, the key sent with an e-mail).         *)
THEOREM NobodyIsToldTwice == Spec => []ToldOnce
<1>1. DInv => ToldOnce
  BY DEF DInv
<1> QED BY <1>1, DInvariance, PTL

(* A step writes a row that waits or that a worker holds, and no other: an    *)
(* answer nobody is still working on is kept (the claim and the writing of    *)
(* the outcome in dispatch, and the inserts beside them).                    *)
LEMMA KeepsAnswers ==
    ASSUME IInv, [Next]_vars, NEW i \in Rows, rows[i].status \in Settled,
           ~(\E w \in Workers : Holds(w, i))
    PROVE  rows'[i].status = rows[i].status
<1>1. ASSUME NEW o \in Occasions, NEW them \in SUBSET [channel : Channel, to : Addresses \cup {None}],
             Insert(o, them)
      PROVE  rows'[i].status = rows[i].status
  BY <1>1, Inserts DEF IInv
<1>2. ASSUME NEW o \in Occasions, Begin(o) \/ RollBack(o)  PROVE rows'[i].status = rows[i].status
  BY <1>2 DEF Begin, RollBack
<1>3. ASSUME NEW o \in Occasions, Commit(o)  PROVE rows'[i].status = rows[i].status
  <2>1. queued[o] \in SUBSET [channel : Channel, to : Addresses \cup {None}]
    BY ContactIs DEF IInv, TypeOK
  <2> QED BY <1>1, <1>3, <2>1 DEF Commit
<1>4. ASSUME NEW o \in Occasions, Remind(o)  PROVE rows'[i].status = rows[i].status
  BY <1>1, <1>4, UnqueuedIs DEF Remind
<1>5. ASSUME NEW o \in Occasions, InsertBare(o)  PROVE rows'[i].status = rows[i].status
  <2> DEFINE them == {[channel |-> IF setup.kind[o] = "JOB" THEN "EMAIL" ELSE "SMS", to |-> None]}
  <2>1. them \in SUBSET [channel : Channel, to : Addresses \cup {None}] /\ Insert(o, them)
    BY <1>5 DEF InsertBare, Channel
  <2> HIDE DEF them
  <2> QED BY <1>1, <2>1
<1>6. ASSUME NEW w \in Workers, NEW ready \in SUBSET Waiting, Claim(w, ready)
      PROVE  rows'[i].status = rows[i].status
  <2>1. i \notin Oldest(ready)
    BY DEF Oldest, Waiting, Open, Settled
  <2> QED BY <1>6, <2>1 DEF Claim
<1>7. ASSUME NEW w \in Workers, NEW h \in work[w].todo, SendMail(w, h)
      PROVE  rows'[i].status = rows[i].status
  <2>1. h.row \in Rows
    BY TypesOfWork DEF Hand
  <2>2. {} \in SUBSET Marks /\ {"LOST"} \in SUBSET Marks
    BY DEF Marks
  <2> QED BY <1>7, <2>1, <2>2, TriedIs, UnchangedIs DEF SendMail, Unanswered
<1>8. ASSUME NEW w \in Workers, NEW h \in work[w].todo, SendSms(w, h) \/ OpenPush(w, h)
      PROVE  rows'[i].status = rows[i].status
  <2>1. h.row \in Rows
    BY TypesOfWork DEF Hand
  <2>2. {} \in SUBSET Marks
    OBVIOUS
  <2>3. UNCHANGED rows \/ Tried(h.row, {})
    BY <1>8 DEF SendSms, OpenPush
  <2> QED BY <2>1, <2>2, <2>3, TriedIs, UnchangedIs DEF Unanswered
<1>9. ASSUME NEW w \in Workers, NEW b \in Browsers, PushTo(w, b)
      PROVE  rows'[i].status = rows[i].status
  <2>1. b \in work[w].left /\ WorkerInv(w) /\ work[w] \in Work
    BY <1>9 DEF PushTo, IInv, TypeOK
  <2>2. /\ work[w].now \in Held /\ work[w].now.row \in Rows
        /\ work[w].now.attempts <= rows[work[w].now.row].tries
    BY <2>1 DEF WorkerInv, Hand, Work
  <2>3. {} \in SUBSET Marks /\ {"LOST"} \in SUBSET Marks
    BY DEF Marks
  <2> QED BY <1>9, <2>2, <2>3, PushTriedIs, UnchangedIs DEF PushTo, Unanswered
<1>10. ASSUME NEW w \in Workers, Record(w)  PROVE rows'[i].status = rows[i].status
  <2>1. work[w].now # None /\ work[w].now \in Hand(w)
    BY <1>10 DEF Record, IInv, WorkerInv, Hand
  <2>2. work[w].now.row # i
    BY <2>1 DEF Holds
  <2>3. rows \in Seq(Row)
    BY DEF IInv, TypeOK
  <2> QED BY <1>10, <2>2, <2>3 DEF Record, Rows
<1>11. ASSUME NEW w \in Workers, Stop(w)  PROVE rows'[i].status = rows[i].status
  BY <1>11 DEF Stop
<1>12. CASE UNCHANGED vars
  BY <1>12 DEF vars
<1> QED BY <1>2, <1>3, <1>4, <1>5, <1>6, <1>7, <1>8, <1>9, <1>10, <1>11, <1>12 DEF Next, Send

(* A row that is answered for, and that no worker still holds, keeps its       *)
(* answer, whoever raises the occasion again or claims around it (dispatch).  *)
THEOREM AnswersStand == Spec => AnsweredForGood
<1>1. IInv /\ [Next]_vars =>
        \A i \in Rows : rows[i].status \in Settled /\ ~(\E w \in Workers : Holds(w, i)) =>
            rows'[i].status = rows[i].status
  BY KeepsAnswers
<1> QED BY <1>1, Invariance, PTL DEF Spec, AnsweredForGood
=============================================================================
