----------------------------- MODULE MoneyProofs -----------------------------
(***************************************************************************)
(* The money of a trip: Settlement for any desk, any amounts and any       *)
(* length of the exploration, Invoicing for any trips, invoices, receipts  *)
(* and amounts.                                                            *)
(*                                                                         *)
(* First what both need of sums.  Then of Settlement the type invariant,   *)
(* the clock of the proof, the second pair of eyes, the grounds of a       *)
(* payment, the closing of the trip and its books; of Invoicing the type   *)
(* invariant, that a billed trip is on one issued invoice, that an issued  *)
(* invoice is locked and that receipts add up; and that each implements    *)
(* TripAccount.                                                            *)
(***************************************************************************)
EXTENDS Settlement, Invoicing, FiniteSetTheorems, SequenceTheorems, TLAPS

-----------------------------------------------------------------------------
(***************************************************************************)
(* Sums over finite sets                                                   *)
(***************************************************************************)
(* Induction over the subsets of a finite set, with the set of those for    *)
(* which it holds for a predicate.                                          *)
LEMMA SubsetInduction ==
    ASSUME NEW S, IsFiniteSet(S), NEW Good \in SUBSET SUBSET S,
           \A T \in SUBSET S : (\A U \in SUBSET T : U # T => U \in Good) => T \in Good
    PROVE  \A T \in SUBSET S : T \in Good
<1> DEFINE Bad == (SUBSET S) \ Good
<1> SUFFICES ASSUME Bad # {}  PROVE FALSE
  OBVIOUS
<1>1. FiniteSubsetsOf(S) = SUBSET S
  BY FS_FiniteSubsetsOfFinite
<1>2. IsWellFoundedOn(StrictSubsetOrdering(S), SUBSET S)
  <2>1. IsWellFoundedOn(StrictSubsetOrdering(S), FiniteSubsetsOf(S))
    BY FS_StrictSubsetOrderingWellFounded
  <2> QED BY <1>1, <2>1
<1>3. PICK T \in Bad : \A U \in Bad : <<U, T>> \notin StrictSubsetOrdering(S)
  <2> HIDE DEF Bad
  <2>1. Bad \subseteq SUBSET S
    BY DEF Bad
  <2> QED BY <1>2, <2>1, WFMin
<1>4. \A U \in SUBSET T : U # T => U \in Good
  BY <1>3 DEF StrictSubsetOrdering
<1> QED BY <1>3, <1>4

(* What FoldFunctionOnSet chooses to recurse on.                            *)
Pick(s) == CHOOSE x \in s : TRUE

LEMMA PickIs == ASSUME NEW s, s # {}  PROVE Pick(s) \in s
  BY DEF Pick

(* g sums f over the subsets of S. *)
Defines(g, f, S) == g = [s \in SUBSET S |-> IF s = {} THEN 0 ELSE f[Pick(s)] + g[s \ {Pick(s)}]]

LEMMA SumIs == ASSUME NEW f, NEW S  PROVE SumFunctionOnSet(f, S) = (CHOOSE g : Defines(g, f, S))[S]
  BY DEF SumFunctionOnSet, FoldFunctionOnSet, MapThenFoldSet, Defines, Pick

(* Where two such functions are both defined they agree.                    *)
LEMMA DefinesAgree ==
    ASSUME NEW f, NEW A, IsFiniteSet(A), NEW B, NEW g, NEW h, Defines(g, f, A), Defines(h, f, B), A \subseteq B
    PROVE  \A s \in SUBSET A : g[s] = h[s]
<1> DEFINE Good == {s \in SUBSET A : g[s] = h[s]}
<1>1. ASSUME NEW T \in SUBSET A, \A U \in SUBSET T : U # T => U \in Good
      PROVE  T \in Good
  <2>1. T \in SUBSET B
    OBVIOUS
  <2>2. CASE T = {}
    BY <2>1, <2>2 DEF Defines
  <2>3. CASE T # {}
    <3>1. Pick(T) \in T
      BY <2>3, PickIs
    <3>2. T \ {Pick(T)} \in Good
      BY <1>1, <3>1
    <3>3. g[T] = f[Pick(T)] + g[T \ {Pick(T)}] /\ h[T] = f[Pick(T)] + h[T \ {Pick(T)}]
      BY <2>1, <2>3 DEF Defines
    <3> QED BY <3>2, <3>3
  <2> QED BY <2>2, <2>3
<1>2. \A T \in SUBSET A : T \in Good
  <2>1. Good \in SUBSET SUBSET A
    OBVIOUS
  <2> HIDE DEF Good
  <2> QED BY <1>1, <2>1, SubsetInduction
<1> QED BY <1>2

(* Over a finite set there is one. *)
Fold(f, S) == CHOOSE g : Defines(g, f, S)
Rest(s) == s \ {Pick(s)}

LEMMA DefinesExists ==
    ASSUME NEW f, NEW S, IsFiniteSet(S)
    PROVE  Defines(Fold(f, S), f, S)
<1> DEFINE Good == {T \in SUBSET S : Defines(Fold(f, T), f, T)}
<1>1. ASSUME NEW T \in SUBSET S, \A U \in SUBSET T : U # T => U \in Good
      PROVE  T \in Good
  <2> DEFINE value(s) == IF s = {} THEN 0 ELSE f[Pick(s)] + Fold(f, Rest(s))[Rest(s)]
             h == [s \in SUBSET T |-> value(s)]
  <2>1. \A s \in SUBSET T : s # {} => Rest(s) \in SUBSET s /\ Rest(s) # T
    BY PickIs DEF Rest
  <2>2. ASSUME NEW s \in SUBSET T, s # T  PROVE value(s) = Fold(f, s)[s]
    <3>1. Defines(Fold(f, s), f, s)
      BY <1>1, <2>2
    <3>2. CASE s = {}
      BY <3>1, <3>2 DEF Defines
    <3>3. CASE s # {}
      <4>1. Fold(f, s)[s] = f[Pick(s)] + Fold(f, s)[Rest(s)]
        BY <3>1, <3>3 DEF Defines, Rest
      <4>2. Rest(s) \in SUBSET s /\ Defines(Fold(f, Rest(s)), f, Rest(s))
        BY <1>1, <2>1, <3>3
      <4>3. IsFiniteSet(Rest(s))
        BY <4>2, FS_Subset
      <4>4. Fold(f, Rest(s))[Rest(s)] = Fold(f, s)[Rest(s)]
        BY <3>1, <4>2, <4>3, DefinesAgree
      <4> QED BY <3>3, <4>1, <4>4
    <3> QED BY <3>2, <3>3
  <2>3. \A s \in SUBSET T : s # {} => h[Rest(s)] = Fold(f, Rest(s))[Rest(s)]
    BY <2>1, <2>2
  <2>4. \A s \in SUBSET T : value(s) = IF s = {} THEN 0 ELSE f[Pick(s)] + h[s \ {Pick(s)}]
    BY <2>3 DEF Rest
  <2>5. h = [s \in SUBSET T |-> value(s)]
    OBVIOUS
  <2> HIDE DEF value, h
  <2>6. Defines(h, f, T)
    BY <2>4, <2>5 DEF Defines
  <2>7. Defines(Fold(f, T), f, T)
    BY <2>6 DEF Fold
  <2> QED BY <2>7
<1>2. \A T \in SUBSET S : T \in Good
  <2>1. Good \in SUBSET SUBSET S
    OBVIOUS
  <2> HIDE DEF Good
  <2> QED BY <1>1, <2>1, SubsetInduction
<1> QED BY <1>2

(* Then the sum is what the definition reads as. *)
LEMMA SumDefined ==
    ASSUME NEW f, NEW S, IsFiniteSet(S)
    PROVE  SumFunctionOnSet(f, S)
             = IF S = {} THEN 0 ELSE f[Pick(S)] + SumFunctionOnSet(f, S \ {Pick(S)})
<1>1. IsFiniteSet(Rest(S)) /\ Rest(S) \subseteq S
  BY FS_Subset DEF Rest
<1>2. Defines(Fold(f, S), f, S) /\ Defines(Fold(f, Rest(S)), f, Rest(S))
  BY <1>1, DefinesExists
<1>3. Fold(f, Rest(S))[Rest(S)] = Fold(f, S)[Rest(S)]
  BY <1>1, <1>2, DefinesAgree
<1>4. Fold(f, S)[S] = IF S = {} THEN 0 ELSE f[Pick(S)] + Fold(f, S)[Rest(S)]
  BY <1>2 DEF Defines, Rest
<1>5. SumFunctionOnSet(f, S) = Fold(f, S)[S] /\ SumFunctionOnSet(f, Rest(S)) = Fold(f, Rest(S))[Rest(S)]
  BY SumIs DEF Fold
<1> QED BY <1>3, <1>4, <1>5 DEF Rest

(* What is used of sums: of nothing, of one more, and of the same amounts.  *)
LEMMA SumType ==
    ASSUME NEW S, IsFiniteSet(S), NEW f, \A x \in S : f[x] \in Int
    PROVE  SumFunctionOnSet(f, S) \in Int
<1> DEFINE Good == {T \in SUBSET S : SumFunctionOnSet(f, T) \in Int}
<1>1. ASSUME NEW T \in SUBSET S, \A U \in SUBSET T : U # T => U \in Good
      PROVE  T \in Good
  <2>1. IsFiniteSet(T)
    BY FS_Subset
  <2>2. T # {} => Pick(T) \in T
    BY PickIs
  <2>3. T # {} => SumFunctionOnSet(f, T \ {Pick(T)}) \in Int
    BY <1>1, <2>2
  <2> QED BY <2>1, <2>2, <2>3, SumDefined
<1>2. \A T \in SUBSET S : T \in Good
  <2>1. Good \in SUBSET SUBSET S
    OBVIOUS
  <2> HIDE DEF Good
  <2> QED BY <1>1, <2>1, SubsetInduction
<1> QED BY <1>2

LEMMA SumSame ==
    ASSUME NEW S, IsFiniteSet(S), NEW f, NEW g, \A x \in S : f[x] = g[x]
    PROVE  SumFunctionOnSet(f, S) = SumFunctionOnSet(g, S)
<1> DEFINE Good == {T \in SUBSET S : SumFunctionOnSet(f, T) = SumFunctionOnSet(g, T)}
<1>1. ASSUME NEW T \in SUBSET S, \A U \in SUBSET T : U # T => U \in Good
      PROVE  T \in Good
  <2>1. IsFiniteSet(T)
    BY FS_Subset
  <2>2. T # {} => Pick(T) \in T
    BY PickIs
  <2>3. T # {} => SumFunctionOnSet(f, T \ {Pick(T)}) = SumFunctionOnSet(g, T \ {Pick(T)})
    BY <1>1, <2>2
  <2> QED BY <2>1, <2>2, <2>3, SumDefined
<1>2. \A T \in SUBSET S : T \in Good
  <2>1. Good \in SUBSET SUBSET S
    OBVIOUS
  <2> HIDE DEF Good
  <2> QED BY <1>1, <2>1, SubsetInduction
<1> QED BY <1>2

LEMMA SumWithout ==
    ASSUME NEW S, IsFiniteSet(S), NEW f, \A x \in S : f[x] \in Int, NEW x \in S
    PROVE  SumFunctionOnSet(f, S) = f[x] + SumFunctionOnSet(f, S \ {x})
<1> DEFINE Sum(T) == SumFunctionOnSet(f, T)
           Good == {T \in SUBSET S : \A y \in T : Sum(T) = f[y] + Sum(T \ {y})}
<1>1. ASSUME NEW T \in SUBSET S, \A U \in SUBSET T : U # T => U \in Good
      PROVE  T \in Good
  <2> SUFFICES ASSUME NEW y \in T  PROVE Sum(T) = f[y] + Sum(T \ {y})
    OBVIOUS
  <2> DEFINE p == Pick(T)
  <2>1. p \in T
    BY PickIs
  <2>2. Sum(T) = f[p] + Sum(T \ {p})
    <3>1. IsFiniteSet(T)
      BY FS_Subset
    <3> QED BY <3>1, SumDefined
  <2> HIDE DEF p
  <2>3. CASE p = y
    BY <2>2, <2>3
  <2>4. CASE p # y
    <3> DEFINE both == (T \ {p}) \ {y}
    <3>1. both = (T \ {y}) \ {p}
      OBVIOUS
    <3>2. Sum(T \ {p}) = f[y] + Sum(both)
      BY <1>1, <2>1, <2>4
    <3>3. Sum(T \ {y}) = f[p] + Sum(both)
      <4>1. T \ {y} \in Good /\ p \in T \ {y}
        BY <1>1, <2>1, <2>4
      <4> QED BY <3>1, <4>1
    <3>4. Sum(both) \in Int
      <4>1. IsFiniteSet(both) /\ both \subseteq S
        BY FS_Subset
      <4> QED BY <4>1, SumType
    <3>5. f[p] \in Int /\ f[y] \in Int
      BY <2>1
    <3> HIDE DEF Sum, both
    <3> QED BY <2>2, <3>2, <3>3, <3>4, <3>5
  <2> QED BY <2>3, <2>4
<1>2. \A T \in SUBSET S : T \in Good
  <2>1. Good \in SUBSET SUBSET S
    OBVIOUS
  <2> HIDE DEF Good
  <2> QED BY <1>1, <2>1, SubsetInduction
<1> QED BY <1>2

-----------------------------------------------------------------------------
(***************************************************************************)
(* Settlement                                                              *)
(***************************************************************************)
(* Nothing is received before the truck has arrived. *)
RoadInv ==
    /\ trip.stage = "IN_TRANSIT" => trip.delivered = None
    /\ trip.delivered = None =>
          /\ trip.pod = "PENDING" /\ trip.received = None
          /\ \A i \in DOMAIN rows : rows[i].kind = "DOCKET"

(* A verified proof carries its verifier's name on one of its receipts. *)
SignInv == trip.pod = "VERIFIED" => \E i \in DOMAIN rows : rows[i].by = sign.verifier

(* What the one column of the closure basis says, and what the amount does. *)
BasisInv ==
    /\ trip.basis = "WAIVED" => "POD_PENALTY" \in waivers
    /\ trip.basis = "FORFEITED" => trip.pod = "FORFEITED"
    /\ trip.paid > 0 => \E k \in Keys : Made(k)

SdrInv == sdr.open <= sdr.raised

(* The payments are finitely many, none was for more than the trip shows, and *)
(* the records and the trip know their sums.                                 *)
Books == /\ IsFiniteSet(Payments) /\ BooksBalance
         /\ \A k \in Payments : Net[k] \in 0..trip.paid

IInv == /\ TypeOK /\ RoadInv /\ SignInv /\ BasisInv /\ SdrInv /\ Books
        /\ ClockMatchesProof /\ FourEyes /\ PaidOnGrounds /\ ClosedWhenSettled

-----------------------------------------------------------------------------
(* The three ways the receipts change: all keep what kind each one is, and  *)
(* only signing changes who signed.                                         *)
SameKinds   == \A i \in DOMAIN rows : i \in DOMAIN rows' /\ rows'[i].kind = rows[i].kind
SameSigners == \A i \in DOMAIN rows : i \in DOMAIN rows' /\ rows'[i].by = rows[i].by

LEMMA Inserted ==
    ASSUME rows \in Seq(Receipt), NEW kind \in {"PAPER", "EPOD", "DOCKET"},
           NEW docket \in {"NO", "YES"}, InsertReceipt(kind, docket)
    PROVE  /\ rows' \in Seq(Receipt) /\ SameKinds /\ SameSigners
           /\ DOMAIN rows' = DOMAIN rows \cup {Len(rows) + 1}
           /\ rows'[Len(rows) + 1].kind = kind
<1> DEFINE r == [kind |-> kind, docket |-> docket, hard |-> "NONE", by |-> None]
<1>1. r \in Receipt /\ r.kind = kind BY DEF Receipt
<1> HIDE DEF r
<1>2. rows' = Append(rows, r) BY DEF InsertReceipt, r
<1>3. /\ rows' \in Seq(Receipt) /\ Len(rows') = Len(rows) + 1
      /\ \A i \in 1..Len(rows) : rows'[i] = rows[i]
      /\ rows'[Len(rows) + 1] = r
  BY <1>1, <1>2
<1>4. DOMAIN rows = 1..Len(rows) /\ DOMAIN rows' = 1..Len(rows') /\ Len(rows) \in Nat
  BY <1>3, LenProperties
<1> QED BY <1>1, <1>3, <1>4 DEF SameKinds, SameSigners

LEMMA Signed ==
    ASSUME rows \in Seq(Receipt), NEW s \in Staff \cup {None}, rows' = SignedBy(s)
    PROVE  /\ rows' \in Seq(Receipt) /\ SameKinds /\ DOMAIN rows' = DOMAIN rows
           /\ \A i \in DOMAIN rows : rows'[i].by = s
<1>1. /\ Len(rows) \in Nat /\ DOMAIN rows = 1..Len(rows)
      /\ \A i \in DOMAIN rows : rows[i] \in Receipt
  BY LenProperties, ElementOfSeq
<1>2. \A i \in DOMAIN rows : rows'[i] = [rows[i] EXCEPT !.by = s]
  BY DEF SignedBy
<1>3. \A i \in DOMAIN rows :
         rows'[i] \in Receipt /\ rows'[i].kind = rows[i].kind /\ rows'[i].by = s
  BY <1>1, <1>2 DEF Receipt
<1>4. DOMAIN rows' = DOMAIN rows BY DEF SignedBy
<1>5. rows' \in [1..Len(rows) -> Receipt] BY <1>1, <1>3, <1>4 DEF SignedBy
<1> QED BY <1>1, <1>3, <1>4, <1>5, SeqDef DEF SameKinds

LEMMA Scanned ==
    ASSUME rows \in Seq(Receipt), NEW h \in {"SCANNED", "VERIFIED"},
           LatestIs("EPOD"), HardCopy(h)
    PROVE  /\ rows' \in Seq(Receipt) /\ SameKinds /\ SameSigners
           /\ DOMAIN rows' = DOMAIN rows
<1> DEFINE n == Len(rows)
           r == [rows[n] EXCEPT !.hard = h]
<1>1. n \in 1..n /\ n \in Nat /\ DOMAIN rows = 1..n
  BY EmptySeq, LenProperties DEF LatestIs
<1>2. rows[n] \in Receipt BY <1>1, ElementOfSeq
<1>3. r \in Receipt /\ r.kind = rows[n].kind /\ r.by = rows[n].by
  BY <1>2 DEF Receipt
<1>4. rows' = [rows EXCEPT ![n] = r] BY DEF HardCopy
<1> HIDE DEF r, n
<1>5. rows' \in Seq(Receipt) BY <1>1, <1>3, <1>4, ExceptSeq DEF n
<1>6. DOMAIN rows' = DOMAIN rows /\ \A i \in DOMAIN rows : rows'[i] = IF i = n THEN r ELSE rows[i]
  BY <1>1, <1>4
<1> QED BY <1>1, <1>3, <1>5, <1>6 DEF SameKinds, SameSigners

-----------------------------------------------------------------------------
(* Arithmetic that the type of a payment rests on. *)
LEMMA AccruedNat == ASSUME TypeOK PROVE Accrued \in Nat /\ Age \in Nat
<1>1. Age \in Nat
  BY DaysAssumption, StaffAssumption DEF TypeOK, TripRow, Days, Age, NonNegative
<1> DEFINE n == NonNegative(Least(Age, Forfeit) - Tat)
<1>2. n \in Nat BY <1>1, DaysAssumption DEF NonNegative, Least
<1> HIDE DEF n
<1>3. n * PenaltyPerDay \in Nat BY <1>2, MoneyAssumption
<1> QED BY <1>1, <1>3 DEF Accrued, n

LEMMA PayTypes ==
    ASSUME TypeOK, NEW k \in Keys, NEW gross \in Nat, Pay(k, gross)
    PROVE  trip' \in TripRow /\ sdr' \in SdrSums /\ payment' \in [Keys -> PaymentRow]
<1> DEFINE avail == gross - PenaltyDue
           taken == Recovered(avail)
<1>1. PenaltyDue \in Nat
  BY MoneyAssumption DEF TypeOK, TripRow, PenaltyDue, TransitOwed
<1>2. avail \in Int BY <1>1
<1>3. sdr.owed \in Nat BY DEF TypeOK, SdrSums
<1> HIDE DEF avail
<1>4. taken \in Nat /\ taken <= sdr.owed /\ taken <= NonNegative(avail)
  BY <1>2, <1>3, MoneyAssumption DEF Recovered, Least, NonNegative
<1> HIDE DEF taken
<1>5. sdr' = [sdr EXCEPT !.owed = @ - taken] BY DEF Pay, taken, avail
<1>6. sdr.owed - taken \in Nat BY <1>3, <1>4
<1>7. sdr' \in SdrSums BY <1>5, <1>6 DEF TypeOK, SdrSums
<1> DEFINE row == [made |-> "YES", gross |-> gross, penalty |-> PenaltyDue, deduction |-> taken]
<1>8. row \in PaymentRow BY <1>1, <1>4 DEF PaymentRow
<1> HIDE DEF row
<1>9. payment' = [payment EXCEPT ![k] = row] BY DEF Pay, taken, avail, row
<1>10. payment' \in [Keys -> PaymentRow] BY <1>8, <1>9 DEF TypeOK
<1> DEFINE net == NonNegative(avail) - taken
<1>11. net \in Nat BY <1>2, <1>4 DEF NonNegative
<1> HIDE DEF net
<1>12. PICK st \in {"CLOSED", trip.stage} : trip' = [trip EXCEPT !.paid = net, !.stage = st]
  BY DEF Pay, taken, avail, net
<1>13. trip' \in TripRow BY <1>11, <1>12 DEF TypeOK, TripRow
<1> QED BY <1>7, <1>10, <1>13

(* What a payment asked for, what it left of the trip, and what it made. *)
LEMMA PayFacts ==
    ASSUME TypeOK, NEW k \in Keys, NEW gross \in Nat, Pay(k, gross)
    PROVE  /\ trip.paid = 0 /\ (trip.pod = "APPROVED" \/ trip.basis = "WAIVED")
           /\ trip'.delivered = trip.delivered /\ trip'.pod = trip.pod
           /\ trip'.received = trip.received /\ trip'.basis = trip.basis
           /\ trip'.billed = trip.billed
           /\ trip'.stage = IF trip.billed = "YES" THEN "CLOSED" ELSE trip.stage
           /\ Made(k)' /\ \A l \in Keys : l # k => (Made(l)' <=> Made(l))
           /\ sdr'.open = sdr.open /\ sdr'.raised = sdr.raised
           /\ UNCHANGED <<day, rows, waivers, sweep, sign>>
<1>1. /\ trip.paid = 0 /\ (trip.pod = "APPROVED" \/ trip.basis = "WAIVED")
      /\ UNCHANGED <<day, rows, waivers, sweep, sign>>
  BY DEF Pay, Unmet
<1>2. PICK net, st : /\ trip' = [trip EXCEPT !.paid = net, !.stage = st]
                     /\ st = IF trip.billed = "YES" THEN "CLOSED" ELSE trip.stage
  BY DEF Pay
<1>3. /\ trip'.delivered = trip.delivered /\ trip'.pod = trip.pod
      /\ trip'.received = trip.received /\ trip'.basis = trip.basis
      /\ trip'.billed = trip.billed /\ trip'.stage = st
  BY <1>2 DEF TypeOK, TripRow
<1>4. PICK row : row.made = "YES" /\ payment' = [payment EXCEPT ![k] = row]
  BY DEF Pay
<1>5. Made(k)' /\ \A l \in Keys : l # k => (Made(l)' <=> Made(l))
  BY <1>4 DEF TypeOK, Made
<1>6. PICK left : sdr' = [sdr EXCEPT !.owed = left]
  BY DEF Pay
<1>7. sdr'.open = sdr.open /\ sdr'.raised = sdr.raised
  BY <1>6 DEF TypeOK, SdrSums
<1> QED BY <1>1, <1>2, <1>3, <1>5, <1>7

-----------------------------------------------------------------------------
LEMMA ReachedDays ==
    ASSUME TypeOK, NEW d \in Reached
    PROVE  d \in Days /\ d # None /\ LateOn(d) \in {"NONE", "DUE"}
<1>1. d \in Days BY DaysAssumption DEF TypeOK, Reached, Least, Days
<1>2. d \in Int BY <1>1, DaysAssumption DEF Days
<1> QED BY <1>1, <1>2, StaffAssumption DEF LateOn

(* What a check of the proof may change of the trip, and of the records. *)
LEMMA FindingsFacts ==
    ASSUME TypeOK, SdrInv, NEW t \in TripRow, NEW f \in 0..1, NEW d \in Reached, Findings(t, f, d)
    PROVE  /\ trip' \in TripRow /\ sdr' \in SdrSums /\ trip'.delivered = d
           /\ trip'.stage = t.stage /\ trip'.pod = t.pod /\ trip'.received = t.received
           /\ trip'.basis = t.basis /\ trip'.billed = t.billed /\ trip'.paid = t.paid
<1>1. PICK tr \in {"NONE", "DUE", "WAIVED"} :
         trip' = [t EXCEPT !.delivered = d, !.transit = tr]
  <2>1. CASE d = t.delivered
    <3>1. t = [t EXCEPT !.delivered = d, !.transit = t.transit] BY <2>1 DEF TripRow
    <3> QED BY <2>1, <3>1 DEF Findings, Corrected, TripRow
  <2>2. CASE d # t.delivered
    BY <2>2, ReachedDays DEF Findings, Corrected, TripRow
  <2> QED BY <2>1, <2>2
<1>2. d \in Days BY ReachedDays
<1>3. /\ trip' \in TripRow /\ trip'.delivered = d
      /\ trip'.stage = t.stage /\ trip'.pod = t.pod /\ trip'.received = t.received
      /\ trip'.basis = t.basis /\ trip'.billed = t.billed /\ trip'.paid = t.paid
  BY <1>1, <1>2 DEF TripRow
<1>4. sdr.raised + f \in 0..MaxSdr /\ sdr.open + f \in 0..MaxSdr
  BY DaysAssumption DEF Findings, SdrInv, TypeOK, SdrSums
<1>5. sdr' \in SdrSums BY <1>4 DEF Findings, TypeOK, SdrSums
<1> QED BY <1>3, <1>5

-----------------------------------------------------------------------------
(* The rows keep their types. *)
LEMMA TypeStep ==
    ASSUME TypeOK, SdrInv, [Next]_vars
    PROVE  TypeOK'
<1>1. ASSUME Tick PROVE TypeOK'
  BY <1>1, DaysAssumption DEF Tick, TypeOK, Days
<1>2. ASSUME NEW d \in Reached, Deliver(d) PROVE TypeOK'
  <2>1. d \in Days /\ LateOn(d) \in {"NONE", "DUE"} BY ReachedDays
  <2>2. trip' \in TripRow BY <1>2, <2>1 DEF Deliver, TypeOK, TripRow, PodStatus
  <2> QED BY <1>2, <2>2 DEF Deliver, TypeOK
<1>3. ASSUME AddDocket PROVE TypeOK'
  BY <1>3, Inserted DEF AddDocket, TypeOK
<1>4. ASSUME AttachPod PROVE TypeOK'
  BY <1>4, Inserted DEF AttachPod, TypeOK
<1>5. ASSUME LogHardCopy PROVE TypeOK'
  BY <1>5, Scanned DEF LogHardCopy, TypeOK
<1>6. ASSUME Reject PROVE TypeOK'
  BY <1>6, Signed DEF Reject, Rejectable, ClockAfterReject, TypeOK, TripRow, PodStatus,
         Days
<1>7. ASSUME NEW kind \in {"PAPER", "EPOD"}, NEW docket \in {"NO", "YES"}, Receive(kind, docket)
     PROVE  TypeOK'
  BY <1>7, Inserted DEF Receive, TypeOK, TripRow, PodStatus, Days
<1>8. ASSUME NEW f \in 0..1, NEW d \in Reached, VerifyHardCopy(f, d) PROVE TypeOK'
  <2>1. Findings(trip, f, d) BY <1>8 DEF VerifyHardCopy
  <2>2. trip \in TripRow BY DEF TypeOK, TripRow, PodStatus
  <2>3. trip' \in TripRow /\ sdr' \in SdrSums
    BY <2>1, <2>2, FindingsFacts
  <2>4. rows' \in Seq(Receipt)
    BY <1>8, Scanned DEF VerifyHardCopy, TypeOK
  <2> QED BY <1>8, <2>3, <2>4 DEF VerifyHardCopy, TypeOK
<1>9. ASSUME NEW s \in Staff, NEW f \in 0..1, NEW d \in Reached, Verify(s, f, d)
     PROVE  TypeOK'
  <2>1. Findings([trip EXCEPT !.pod = "VERIFIED"], f, d) BY <1>9 DEF Verify
  <2>2. [trip EXCEPT !.pod = "VERIFIED"] \in TripRow BY DEF TypeOK, TripRow, PodStatus
  <2>3. trip' \in TripRow /\ sdr' \in SdrSums
    BY <2>1, <2>2, FindingsFacts
  <2>4. rows' \in Seq(Receipt)
    BY <1>9, Signed DEF Verify, TypeOK
  <2> QED BY <1>9, <2>3, <2>4 DEF Verify, TypeOK
<1>10. ASSUME NEW s \in Staff, Approve(s) PROVE TypeOK'
  BY <1>10 DEF Approve, TypeOK, TripRow, PodStatus, Days
<1>11. ASSUME WaivePodPenalty PROVE TypeOK'
  BY <1>11 DEF WaivePodPenalty, TypeOK, TripRow, PodStatus, Days
<1>12. ASSUME WaiveTransit PROVE TypeOK'
  BY <1>12 DEF WaiveTransit, TypeOK, TripRow, PodStatus, Days
<1>13. ASSUME NEW x \in Deductions, ResolveSdr(x) PROVE TypeOK'
  <2>1. x \in Nat BY MoneyAssumption
  <2>2. /\ sdr.open - 1 \in 0..MaxSdr /\ sdr.deducted + x \in Nat /\ sdr.owed + x \in Nat
    <3>1. /\ sdr.open \in 0..MaxSdr /\ sdr.deducted \in Nat /\ sdr.owed \in Nat
          /\ sdr.open > 0 /\ MaxSdr \in Nat
      BY <1>13, DaysAssumption DEF ResolveSdr, TypeOK, SdrSums
    <3>2. sdr.open - 1 \in 0..MaxSdr BY <3>1
    <3>3. sdr.deducted + x \in Nat /\ sdr.owed + x \in Nat BY <2>1, <3>1
    <3> QED BY <3>2, <3>3
  <2>3. PICK o \in 0..MaxSdr, dd \in Nat, ow \in Nat :
           sdr' = [sdr EXCEPT !.open = o, !.deducted = dd, !.owed = ow]
    BY <1>13, <2>2 DEF ResolveSdr
  <2>4. sdr' \in SdrSums BY <2>3 DEF TypeOK, SdrSums
  <2> QED BY <1>13, <2>4 DEF ResolveSdr, TypeOK
<1>14. ASSUME NEW x \in 1..sdr.owed, WaiveSdr(x) PROVE TypeOK'
  <2>1. sdr.owed \in Nat /\ sdr.written \in Nat BY DEF TypeOK, SdrSums
  <2>2. sdr.owed - x \in Nat /\ sdr.written + x \in Nat BY <2>1
  <2>3. sdr' \in SdrSums BY <1>14, <2>2 DEF WaiveSdr, TypeOK, SdrSums
  <2> QED BY <1>14, <2>3 DEF WaiveSdr, TypeOK
<1>15. ASSUME Invoice PROVE TypeOK'
  BY <1>15 DEF Invoice, BilledStage, TypeOK, TripRow, PodStatus, Days
<1>16. ASSUME CancelInvoice PROVE TypeOK'
  BY <1>16 DEF CancelInvoice, TypeOK, TripRow, PodStatus, Days
<1>17. ASSUME NEW k \in Keys, ReleaseBalance(k) PROVE TypeOK'
  <2>1. Pay(k, Balance) /\ UNCHANGED bill BY <1>17 DEF ReleaseBalance
  <2>2. UNCHANGED <<day, rows, waivers, sweep, sign>> BY <2>1 DEF Pay
  <2>3. trip' \in TripRow /\ sdr' \in SdrSums /\ payment' \in [Keys -> PaymentRow]
    BY <2>1, PayTypes, MoneyAssumption
  <2> QED BY <2>1, <2>2, <2>3 DEF TypeOK
<1>18. ASSUME NEW b \in Bills, RaiseBill(b) PROVE TypeOK'
  BY <1>18 DEF RaiseBill, BillTo, TypeOK
<1>19. ASSUME NEW b \in Bills, SubmitBill(b) PROVE TypeOK'
  BY <1>19 DEF SubmitBill, BillTo, TypeOK
<1>20. ASSUME NEW b \in Bills, QueryBill(b) PROVE TypeOK'
  BY <1>20 DEF QueryBill, BillTo, TypeOK
<1>21. ASSUME NEW b \in Bills, NEW k \in Keys,
              NEW gross \in Figures \cup {Balance}, AcceptBill(b, k, gross)
      PROVE  TypeOK'
  <2>1. Pay(k, gross) /\ BillTo(b, "ACCEPTED") BY <1>21 DEF AcceptBill
  <2>2. UNCHANGED <<day, rows, waivers, sweep, sign>> BY <2>1 DEF Pay
  <2>3. trip' \in TripRow /\ sdr' \in SdrSums /\ payment' \in [Keys -> PaymentRow]
    BY <2>1, PayTypes, MoneyAssumption
  <2> QED BY <2>1, <2>2, <2>3 DEF TypeOK, BillTo
<1>22. ASSUME SweepStart PROVE TypeOK'
  BY <1>22 DEF SweepStart, TypeOK
<1>23. ASSUME SweepTrip PROVE TypeOK'
  <2>1. EffectivePenalty \in Nat BY AccruedNat DEF EffectivePenalty
  <2>2. trip' \in TripRow
    BY <1>23, <2>1 DEF SweepTrip, Aged, TypeOK, TripRow, PodStatus
  <2> QED BY <1>23, <2>2 DEF SweepTrip, TypeOK
<1>24. ASSUME SweepLost PROVE TypeOK'
  BY <1>24 DEF SweepLost, TypeOK
<1>25. CASE UNCHANGED vars
  BY <1>25 DEF vars, TypeOK
<1> QED BY <1>1, <1>2, <1>3, <1>4, <1>5, <1>6, <1>7, <1>8, <1>9, <1>10, <1>11, <1>12, <1>13,
           <1>14, <1>15, <1>16, <1>17, <1>18, <1>19, <1>20, <1>21, <1>22, <1>23, <1>24, <1>25
        DEF Next, PodStep, MoneyStep

LEMMA SdrStep ==
    ASSUME TypeOK, SdrInv, [Next]_vars
    PROVE  SdrInv'
<1>1. CASE sdr' = sdr BY <1>1 DEF SdrInv
<1>2. ASSUME NEW t, NEW f \in 0..1, NEW d, Findings(t, f, d) PROVE SdrInv'
  BY <1>2 DEF Findings, SdrInv, TypeOK, SdrSums
<1>3. ASSUME NEW x \in Deductions, ResolveSdr(x) PROVE SdrInv'
  BY <1>3, DaysAssumption DEF ResolveSdr, SdrInv, TypeOK, SdrSums
<1>4. ASSUME NEW x \in 1..sdr.owed, WaiveSdr(x) PROVE SdrInv'
  BY <1>4 DEF WaiveSdr, SdrInv, TypeOK, SdrSums
<1>5. ASSUME NEW k \in Keys, NEW gross \in Nat, Pay(k, gross) PROVE SdrInv'
  BY <1>5, PayFacts DEF SdrInv
<1> QED
  BY <1>1, <1>2, <1>3, <1>4, <1>5, MoneyAssumption
  DEF Next, PodStep, MoneyStep, vars, Tick, Deliver, AddDocket, AttachPod, LogHardCopy, Reject,
      Receive, VerifyHardCopy, Verify, Approve, WaivePodPenalty, WaiveTransit, Invoice,
      CancelInvoice, ReleaseBalance, RaiseBill, SubmitBill, QueryBill, AcceptBill, SweepStart,
      SweepTrip, SweepLost

-----------------------------------------------------------------------------
(* Nothing is received before delivery. *)
LEMMA RoadStep ==
    ASSUME TypeOK, SdrInv, ClockMatchesProof, RoadInv, [Next]_vars
    PROVE  RoadInv'
<1>1. ASSUME Tick PROVE RoadInv'
  BY <1>1 DEF Tick, RoadInv
<1>2. ASSUME NEW d \in Reached, Deliver(d) PROVE RoadInv'
  BY <1>2, StaffAssumption DEF Deliver, RoadInv, TypeOK, TripRow, Reached, Days
<1>3. ASSUME AddDocket PROVE RoadInv'
  BY <1>3, Inserted DEF AddDocket, RoadInv, SameKinds, SameSigners, TypeOK
<1>4. ASSUME AttachPod PROVE RoadInv'
  BY <1>4, Inserted DEF AttachPod, RoadInv, SameKinds, SameSigners, TypeOK
<1>5. ASSUME LogHardCopy PROVE RoadInv'
  BY <1>5, Scanned DEF LogHardCopy, RoadInv, SameKinds, SameSigners, TypeOK
<1>6. ASSUME Reject PROVE RoadInv'
  BY <1>6, Signed DEF Reject, Rejectable, ClockAfterReject, RoadInv, TypeOK, TripRow,
         SameKinds, SameSigners
<1>7. ASSUME NEW kind \in {"PAPER", "EPOD"}, NEW docket \in {"NO", "YES"}, Receive(kind, docket)
     PROVE  RoadInv'
  BY <1>7, Inserted DEF Receive, RoadInv, TypeOK, TripRow, SameKinds, SameSigners
<1>8. ASSUME NEW f \in 0..1, NEW d \in Reached, VerifyHardCopy(f, d) PROVE RoadInv'
  <2>1. Findings(trip, f, d) BY <1>8 DEF VerifyHardCopy
  <2> DEFINE t == trip
  <2>2. t \in TripRow /\ t.stage = trip.stage /\ t.received = trip.received /\ t.basis = trip.basis
        /\ t.billed = trip.billed /\ t.paid = trip.paid /\ t.delivered = trip.delivered
    BY DEF TypeOK, TripRow, PodStatus
  <2>3. t.pod = trip.pod BY DEF TypeOK, TripRow
  <2> HIDE DEF t
  <2>4. /\ trip'.delivered = d /\ trip'.stage = trip.stage /\ trip'.pod = t.pod
        /\ trip'.received = trip.received /\ trip'.basis = trip.basis
        /\ trip'.billed = trip.billed /\ trip'.paid = trip.paid
    BY <2>1, <2>2, FindingsFacts DEF t
  <2>5. d \in Days /\ d # None BY ReachedDays
  <2>7. Latest.kind = "EPOD" /\ Len(rows) \in DOMAIN rows
    BY <1>8, LenProperties, EmptySeq DEF VerifyHardCopy, LatestIs, TypeOK
  <2>6. rows \in Seq(Receipt) BY DEF TypeOK
  <2> QED BY <1>8, <2>3, <2>4, <2>5, <2>6, <2>7, Scanned
          DEF VerifyHardCopy, RoadInv, SameKinds, LatestIs, Latest
<1>9. ASSUME NEW s \in Staff, NEW f \in 0..1, NEW d \in Reached, Verify(s, f, d)
     PROVE  RoadInv'
  <2>1. Findings([trip EXCEPT !.pod = "VERIFIED"], f, d) BY <1>9 DEF Verify
  <2> DEFINE t == [trip EXCEPT !.pod = "VERIFIED"]
  <2>2. t \in TripRow /\ t.stage = trip.stage /\ t.received = trip.received /\ t.basis = trip.basis
        /\ t.billed = trip.billed /\ t.paid = trip.paid /\ t.delivered = trip.delivered
    BY DEF TypeOK, TripRow, PodStatus
  <2>3. t.pod = "VERIFIED" BY DEF TypeOK, TripRow
  <2> HIDE DEF t
  <2>4. /\ trip'.delivered = d /\ trip'.stage = trip.stage /\ trip'.pod = t.pod
        /\ trip'.received = trip.received /\ trip'.basis = trip.basis
        /\ trip'.billed = trip.billed /\ trip'.paid = trip.paid
    BY <2>1, <2>2, FindingsFacts DEF t
  <2>5. d \in Days /\ d # None BY ReachedDays
  <2>6. rows \in Seq(Receipt) BY DEF TypeOK
  <2> QED BY <1>9, <2>3, <2>4, <2>5, <2>6, Signed
          DEF Verify, RoadInv, SameKinds, ClockMatchesProof
<1>10. ASSUME NEW s \in Staff, Approve(s) PROVE RoadInv'
  BY <1>10 DEF Approve, RoadInv, TypeOK, TripRow
<1>11. ASSUME WaivePodPenalty PROVE RoadInv'
  BY <1>11 DEF WaivePodPenalty, RoadInv, TypeOK, TripRow
<1>12. ASSUME WaiveTransit PROVE RoadInv'
  BY <1>12 DEF WaiveTransit, RoadInv, TypeOK, TripRow
<1>13. ASSUME NEW x \in Deductions, ResolveSdr(x) PROVE RoadInv'
  BY <1>13 DEF ResolveSdr, RoadInv
<1>14. ASSUME NEW x \in 1..sdr.owed, WaiveSdr(x) PROVE RoadInv'
  BY <1>14 DEF WaiveSdr, RoadInv
<1>15. ASSUME Invoice PROVE RoadInv'
  BY <1>15 DEF Invoice, BilledStage, RoadInv, TypeOK, TripRow
<1>16. ASSUME CancelInvoice PROVE RoadInv'
  BY <1>16 DEF CancelInvoice, RoadInv, TypeOK, TripRow
<1>17. ASSUME NEW k \in Keys, ReleaseBalance(k) PROVE RoadInv'
  <2>1. Pay(k, Balance) BY <1>17 DEF ReleaseBalance
  <2> QED BY <2>1, PayFacts, MoneyAssumption DEF RoadInv
<1>18. ASSUME NEW b \in Bills, RaiseBill(b) PROVE RoadInv'
  BY <1>18 DEF RaiseBill, BillTo, RoadInv
<1>19. ASSUME NEW b \in Bills, SubmitBill(b) PROVE RoadInv'
  BY <1>19 DEF SubmitBill, BillTo, RoadInv
<1>20. ASSUME NEW b \in Bills, QueryBill(b) PROVE RoadInv'
  BY <1>20 DEF QueryBill, BillTo, RoadInv
<1>21. ASSUME NEW b \in Bills, NEW k \in Keys,
              NEW gross \in Figures \cup {Balance}, AcceptBill(b, k, gross)
      PROVE  RoadInv'
  <2>1. Pay(k, gross) BY <1>21 DEF AcceptBill
  <2> QED BY <2>1, PayFacts, MoneyAssumption DEF RoadInv
<1>22. ASSUME SweepStart PROVE RoadInv'
  BY <1>22 DEF SweepStart, RoadInv
<1>23. ASSUME SweepTrip PROVE RoadInv'
  BY <1>23, DaysAssumption DEF SweepTrip, Aged, RoadInv, TypeOK, TripRow, Age,
         EffectivePenalty
<1>24. ASSUME SweepLost PROVE RoadInv'
  BY <1>24 DEF SweepLost, RoadInv
<1>25. CASE UNCHANGED vars
  BY <1>25 DEF vars, RoadInv
<1> QED BY <1>1, <1>2, <1>3, <1>4, <1>5, <1>6, <1>7, <1>8, <1>9, <1>10, <1>11, <1>12, <1>13,
           <1>14, <1>15, <1>16, <1>17, <1>18, <1>19, <1>20, <1>21, <1>22, <1>23, <1>24, <1>25
        DEF Next, PodStep, MoneyStep

(* The clock is stopped while a proof is in the house. *)
LEMMA ClockStep ==
    ASSUME TypeOK, SdrInv, RoadInv, ClockMatchesProof, [Next]_vars
    PROVE  ClockMatchesProof'
<1>1. ASSUME Tick PROVE ClockMatchesProof'
  BY <1>1 DEF Tick, ClockMatchesProof
<1>2. ASSUME NEW d \in Reached, Deliver(d) PROVE ClockMatchesProof'
  BY <1>2, StaffAssumption DEF Deliver, ClockMatchesProof, TypeOK, TripRow, Reached,
         Days, RoadInv
<1>3. ASSUME AddDocket PROVE ClockMatchesProof'
  BY <1>3, Inserted DEF AddDocket, ClockMatchesProof, SameKinds, SameSigners, TypeOK
<1>4. ASSUME AttachPod PROVE ClockMatchesProof'
  BY <1>4, Inserted DEF AttachPod, ClockMatchesProof, SameKinds, SameSigners, TypeOK
<1>5. ASSUME LogHardCopy PROVE ClockMatchesProof'
  BY <1>5, Scanned DEF LogHardCopy, ClockMatchesProof, SameKinds, SameSigners, TypeOK
<1>6. ASSUME Reject PROVE ClockMatchesProof'
  BY <1>6, Signed DEF Reject, Rejectable, ClockAfterReject, ClockMatchesProof, TypeOK,
         TripRow, SameKinds, SameSigners
<1>7. ASSUME NEW kind \in {"PAPER", "EPOD"}, NEW docket \in {"NO", "YES"}, Receive(kind, docket)
     PROVE  ClockMatchesProof'
  <2>1. rows \in Seq(Receipt) /\ day \in Days BY DEF TypeOK
  <2>2. day # None BY <2>1, StaffAssumption DEF Days
  <2>3. /\ trip'.received = day /\ trip'.delivered = trip.delivered
        /\ trip'.pod = "RECEIVED" /\ trip.delivered # None
    BY <1>7 DEF Receive, TypeOK, TripRow
  <2>4. Len(rows) + 1 \in DOMAIN rows' /\ rows'[Len(rows) + 1].kind = kind
    BY <1>7, <2>1, Inserted DEF Receive
  <2> QED BY <2>2, <2>3, <2>4 DEF ClockMatchesProof
<1>8. ASSUME NEW f \in 0..1, NEW d \in Reached, VerifyHardCopy(f, d)
     PROVE  ClockMatchesProof'
  <2>1. Findings(trip, f, d) BY <1>8 DEF VerifyHardCopy
  <2> DEFINE t == trip
  <2>2. t \in TripRow /\ t.stage = trip.stage /\ t.received = trip.received /\ t.basis = trip.basis
        /\ t.billed = trip.billed /\ t.paid = trip.paid /\ t.delivered = trip.delivered
    BY DEF TypeOK, TripRow, PodStatus
  <2>3. t.pod = trip.pod BY DEF TypeOK, TripRow
  <2> HIDE DEF t
  <2>4. /\ trip'.delivered = d /\ trip'.stage = trip.stage /\ trip'.pod = t.pod
        /\ trip'.received = trip.received /\ trip'.basis = trip.basis
        /\ trip'.billed = trip.billed /\ trip'.paid = trip.paid
    BY <2>1, <2>2, FindingsFacts DEF t
  <2>5. d \in Days /\ d # None BY ReachedDays
  <2>6. rows \in Seq(Receipt) BY DEF TypeOK
  <2> QED BY <1>8, <2>3, <2>4, <2>5, <2>6, Scanned
          DEF VerifyHardCopy, ClockMatchesProof, SameKinds
<1>9. ASSUME NEW s \in Staff, NEW f \in 0..1, NEW d \in Reached, Verify(s, f, d)
     PROVE  ClockMatchesProof'
  <2>1. Findings([trip EXCEPT !.pod = "VERIFIED"], f, d) BY <1>9 DEF Verify
  <2> DEFINE t == [trip EXCEPT !.pod = "VERIFIED"]
  <2>2. t \in TripRow /\ t.stage = trip.stage /\ t.received = trip.received /\ t.basis = trip.basis
        /\ t.billed = trip.billed /\ t.paid = trip.paid /\ t.delivered = trip.delivered
    BY DEF TypeOK, TripRow, PodStatus
  <2>3. t.pod = "VERIFIED" BY DEF TypeOK, TripRow
  <2> HIDE DEF t
  <2>4. /\ trip'.delivered = d /\ trip'.stage = trip.stage /\ trip'.pod = t.pod
        /\ trip'.received = trip.received /\ trip'.basis = trip.basis
        /\ trip'.billed = trip.billed /\ trip'.paid = trip.paid
    BY <2>1, <2>2, FindingsFacts DEF t
  <2>5. d \in Days /\ d # None BY ReachedDays
  <2>6. rows \in Seq(Receipt) BY DEF TypeOK
  <2> QED BY <1>9, <2>3, <2>4, <2>5, <2>6, Signed
          DEF Verify, ClockMatchesProof, SameKinds
<1>10. ASSUME NEW s \in Staff, Approve(s) PROVE ClockMatchesProof'
  BY <1>10 DEF Approve, ClockMatchesProof, TypeOK, TripRow
<1>11. ASSUME WaivePodPenalty PROVE ClockMatchesProof'
  BY <1>11 DEF WaivePodPenalty, ClockMatchesProof, TypeOK, TripRow
<1>12. ASSUME WaiveTransit PROVE ClockMatchesProof'
  BY <1>12 DEF WaiveTransit, ClockMatchesProof, TypeOK, TripRow
<1>13. ASSUME NEW x \in Deductions, ResolveSdr(x) PROVE ClockMatchesProof'
  BY <1>13 DEF ResolveSdr, ClockMatchesProof
<1>14. ASSUME NEW x \in 1..sdr.owed, WaiveSdr(x) PROVE ClockMatchesProof'
  BY <1>14 DEF WaiveSdr, ClockMatchesProof
<1>15. ASSUME Invoice PROVE ClockMatchesProof'
  BY <1>15 DEF Invoice, BilledStage, ClockMatchesProof, TypeOK, TripRow
<1>16. ASSUME CancelInvoice PROVE ClockMatchesProof'
  BY <1>16 DEF CancelInvoice, ClockMatchesProof, TypeOK, TripRow
<1>17. ASSUME NEW k \in Keys, ReleaseBalance(k) PROVE ClockMatchesProof'
  <2>1. Pay(k, Balance) BY <1>17 DEF ReleaseBalance
  <2> QED BY <2>1, PayFacts, MoneyAssumption DEF ClockMatchesProof
<1>18. ASSUME NEW b \in Bills, RaiseBill(b) PROVE ClockMatchesProof'
  BY <1>18 DEF RaiseBill, BillTo, ClockMatchesProof
<1>19. ASSUME NEW b \in Bills, SubmitBill(b) PROVE ClockMatchesProof'
  BY <1>19 DEF SubmitBill, BillTo, ClockMatchesProof
<1>20. ASSUME NEW b \in Bills, QueryBill(b) PROVE ClockMatchesProof'
  BY <1>20 DEF QueryBill, BillTo, ClockMatchesProof
<1>21. ASSUME NEW b \in Bills, NEW k \in Keys,
              NEW gross \in Figures \cup {Balance}, AcceptBill(b, k, gross)
      PROVE  ClockMatchesProof'
  <2>1. Pay(k, gross) BY <1>21 DEF AcceptBill
  <2> QED BY <2>1, PayFacts, MoneyAssumption DEF ClockMatchesProof
<1>22. ASSUME SweepStart PROVE ClockMatchesProof'
  BY <1>22 DEF SweepStart, ClockMatchesProof
<1>23. ASSUME SweepTrip PROVE ClockMatchesProof'
  BY <1>23, DaysAssumption DEF SweepTrip, Aged, ClockMatchesProof, TypeOK, TripRow
<1>24. ASSUME SweepLost PROVE ClockMatchesProof'
  BY <1>24 DEF SweepLost, ClockMatchesProof
<1>25. CASE UNCHANGED vars
  BY <1>25 DEF vars, ClockMatchesProof
<1> QED BY <1>1, <1>2, <1>3, <1>4, <1>5, <1>6, <1>7, <1>8, <1>9, <1>10, <1>11, <1>12, <1>13,
           <1>14, <1>15, <1>16, <1>17, <1>18, <1>19, <1>20, <1>21, <1>22, <1>23, <1>24, <1>25
        DEF Next, PodStep, MoneyStep

-----------------------------------------------------------------------------
(* The verifier's name stays on the proof until it is approved. *)
LEMMA SignStep ==
    ASSUME TypeOK, ClockMatchesProof, SignInv, [Next]_vars
    PROVE  SignInv'
<1>1. ASSUME Tick PROVE SignInv'
  BY <1>1 DEF Tick, SignInv
<1>2. ASSUME NEW d \in Reached, Deliver(d) PROVE SignInv'
  BY <1>2 DEF Deliver, SignInv, TypeOK, TripRow
<1>3. ASSUME AddDocket PROVE SignInv'
  BY <1>3, Inserted DEF AddDocket, SignInv, SameKinds, SameSigners, TypeOK
<1>4. ASSUME AttachPod PROVE SignInv'
  BY <1>4, Inserted DEF AttachPod, SignInv, SameKinds, SameSigners, TypeOK
<1>5. ASSUME LogHardCopy PROVE SignInv'
  BY <1>5, Scanned DEF LogHardCopy, SignInv, SameKinds, SameSigners, TypeOK
<1>6. ASSUME Reject PROVE SignInv'
  BY <1>6, Signed DEF Reject, Rejectable, ClockAfterReject, SignInv, TypeOK, TripRow,
         SameKinds, SameSigners
<1>7. ASSUME NEW kind \in {"PAPER", "EPOD"}, NEW docket \in {"NO", "YES"}, Receive(kind, docket)
     PROVE  SignInv'
  BY <1>7, Inserted DEF Receive, SignInv, TypeOK, TripRow, SameKinds, SameSigners
<1>8. ASSUME NEW f \in 0..1, NEW d \in Reached, VerifyHardCopy(f, d) PROVE SignInv'
  BY <1>8, Scanned DEF VerifyHardCopy, Findings, Corrected, SignInv, TypeOK, TripRow,
         SameKinds, SameSigners
<1>9. ASSUME NEW s \in Staff, NEW f \in 0..1, NEW d \in Reached, Verify(s, f, d)
     PROVE  SignInv'
  BY <1>9, Signed DEF Verify, Findings, Corrected, SignInv, TypeOK, TripRow, SameKinds,
         SameSigners, ClockMatchesProof
<1>10. ASSUME NEW s \in Staff, Approve(s) PROVE SignInv'
  BY <1>10 DEF Approve, SignInv, TypeOK, TripRow
<1>11. ASSUME WaivePodPenalty PROVE SignInv'
  BY <1>11 DEF WaivePodPenalty, SignInv, TypeOK, TripRow
<1>12. ASSUME WaiveTransit PROVE SignInv'
  BY <1>12 DEF WaiveTransit, SignInv, TypeOK, TripRow
<1>13. ASSUME NEW x \in Deductions, ResolveSdr(x) PROVE SignInv'
  BY <1>13 DEF ResolveSdr, SignInv
<1>14. ASSUME NEW x \in 1..sdr.owed, WaiveSdr(x) PROVE SignInv'
  BY <1>14 DEF WaiveSdr, SignInv
<1>15. ASSUME Invoice PROVE SignInv'
  BY <1>15 DEF Invoice, BilledStage, SignInv, TypeOK, TripRow
<1>16. ASSUME CancelInvoice PROVE SignInv'
  BY <1>16 DEF CancelInvoice, SignInv, TypeOK, TripRow
<1>17. ASSUME NEW k \in Keys, ReleaseBalance(k) PROVE SignInv'
  <2>1. Pay(k, Balance) BY <1>17 DEF ReleaseBalance
  <2> QED BY <2>1, PayFacts, MoneyAssumption DEF SignInv
<1>18. ASSUME NEW b \in Bills, RaiseBill(b) PROVE SignInv'
  BY <1>18 DEF RaiseBill, BillTo, SignInv
<1>19. ASSUME NEW b \in Bills, SubmitBill(b) PROVE SignInv'
  BY <1>19 DEF SubmitBill, BillTo, SignInv
<1>20. ASSUME NEW b \in Bills, QueryBill(b) PROVE SignInv'
  BY <1>20 DEF QueryBill, BillTo, SignInv
<1>21. ASSUME NEW b \in Bills, NEW k \in Keys,
              NEW gross \in Figures \cup {Balance}, AcceptBill(b, k, gross)
      PROVE  SignInv'
  <2>1. Pay(k, gross) BY <1>21 DEF AcceptBill
  <2> QED BY <2>1, PayFacts, MoneyAssumption DEF SignInv
<1>22. ASSUME SweepStart PROVE SignInv'
  BY <1>22 DEF SweepStart, SignInv
<1>23. ASSUME SweepTrip PROVE SignInv'
  BY <1>23 DEF SweepTrip, Aged, SignInv, TypeOK, TripRow
<1>24. ASSUME SweepLost PROVE SignInv'
  BY <1>24 DEF SweepLost, SignInv
<1>25. CASE UNCHANGED vars
  BY <1>25 DEF vars, SignInv
<1> QED BY <1>1, <1>2, <1>3, <1>4, <1>5, <1>6, <1>7, <1>8, <1>9, <1>10, <1>11, <1>12, <1>13,
           <1>14, <1>15, <1>16, <1>17, <1>18, <1>19, <1>20, <1>21, <1>22, <1>23, <1>24, <1>25
        DEF Next, PodStep, MoneyStep

(* Approval asks for another name than the one on the proof. *)
LEMMA EyesStep ==
    ASSUME TypeOK, SignInv, FourEyes, [Next]_vars
    PROVE  FourEyes'
<1>1. ASSUME Tick PROVE FourEyes'
  BY <1>1 DEF Tick, FourEyes
<1>2. ASSUME NEW d \in Reached, Deliver(d) PROVE FourEyes'
  BY <1>2 DEF Deliver, FourEyes, TypeOK, TripRow
<1>3. ASSUME AddDocket PROVE FourEyes'
  BY <1>3 DEF AddDocket, FourEyes, SameKinds, SameSigners, TypeOK
<1>4. ASSUME AttachPod PROVE FourEyes'
  BY <1>4 DEF AttachPod, FourEyes, SameKinds, SameSigners, TypeOK
<1>5. ASSUME LogHardCopy PROVE FourEyes'
  BY <1>5 DEF LogHardCopy, FourEyes, SameKinds, SameSigners, TypeOK
<1>6. ASSUME Reject PROVE FourEyes'
  BY <1>6 DEF Reject, Rejectable, ClockAfterReject, FourEyes, TypeOK, TripRow, SameKinds,
         SameSigners
<1>7. ASSUME NEW kind \in {"PAPER", "EPOD"}, NEW docket \in {"NO", "YES"}, Receive(kind, docket)
     PROVE  FourEyes'
  BY <1>7 DEF Receive, FourEyes, TypeOK, TripRow, SameKinds, SameSigners
<1>8. ASSUME NEW f \in 0..1, NEW d \in Reached, VerifyHardCopy(f, d) PROVE FourEyes'
  BY <1>8 DEF VerifyHardCopy, Findings, Corrected, FourEyes, TypeOK, TripRow, SameKinds,
         SameSigners
<1>9. ASSUME NEW s \in Staff, NEW f \in 0..1, NEW d \in Reached, Verify(s, f, d)
     PROVE  FourEyes'
  BY <1>9 DEF Verify, Findings, Corrected, FourEyes, TypeOK, TripRow, SameKinds,
         SameSigners
<1>10. ASSUME NEW s \in Staff, Approve(s) PROVE FourEyes'
  BY <1>10 DEF Approve, FourEyes, TypeOK, TripRow, SecondPair, SignInv
<1>11. ASSUME WaivePodPenalty PROVE FourEyes'
  BY <1>11 DEF WaivePodPenalty, FourEyes, TypeOK, TripRow
<1>12. ASSUME WaiveTransit PROVE FourEyes'
  BY <1>12 DEF WaiveTransit, FourEyes, TypeOK, TripRow
<1>13. ASSUME NEW x \in Deductions, ResolveSdr(x) PROVE FourEyes'
  BY <1>13 DEF ResolveSdr, FourEyes
<1>14. ASSUME NEW x \in 1..sdr.owed, WaiveSdr(x) PROVE FourEyes'
  BY <1>14 DEF WaiveSdr, FourEyes
<1>15. ASSUME Invoice PROVE FourEyes'
  BY <1>15 DEF Invoice, BilledStage, FourEyes, TypeOK, TripRow
<1>16. ASSUME CancelInvoice PROVE FourEyes'
  BY <1>16 DEF CancelInvoice, FourEyes, TypeOK, TripRow
<1>17. ASSUME NEW k \in Keys, ReleaseBalance(k) PROVE FourEyes'
  <2>1. Pay(k, Balance) BY <1>17 DEF ReleaseBalance
  <2> QED BY <2>1, PayFacts, MoneyAssumption DEF FourEyes
<1>18. ASSUME NEW b \in Bills, RaiseBill(b) PROVE FourEyes'
  BY <1>18 DEF RaiseBill, BillTo, FourEyes
<1>19. ASSUME NEW b \in Bills, SubmitBill(b) PROVE FourEyes'
  BY <1>19 DEF SubmitBill, BillTo, FourEyes
<1>20. ASSUME NEW b \in Bills, QueryBill(b) PROVE FourEyes'
  BY <1>20 DEF QueryBill, BillTo, FourEyes
<1>21. ASSUME NEW b \in Bills, NEW k \in Keys,
              NEW gross \in Figures \cup {Balance}, AcceptBill(b, k, gross)
      PROVE  FourEyes'
  <2>1. Pay(k, gross) BY <1>21 DEF AcceptBill
  <2> QED BY <2>1, PayFacts, MoneyAssumption DEF FourEyes
<1>22. ASSUME SweepStart PROVE FourEyes'
  BY <1>22 DEF SweepStart, FourEyes
<1>23. ASSUME SweepTrip PROVE FourEyes'
  BY <1>23 DEF SweepTrip, Aged, FourEyes, TypeOK, TripRow
<1>24. ASSUME SweepLost PROVE FourEyes'
  BY <1>24 DEF SweepLost, FourEyes
<1>25. CASE UNCHANGED vars
  BY <1>25 DEF vars, FourEyes
<1> QED BY <1>1, <1>2, <1>3, <1>4, <1>5, <1>6, <1>7, <1>8, <1>9, <1>10, <1>11, <1>12, <1>13,
           <1>14, <1>15, <1>16, <1>17, <1>18, <1>19, <1>20, <1>21, <1>22, <1>23, <1>24, <1>25
        DEF Next, PodStep, MoneyStep

-----------------------------------------------------------------------------
(* The basis of the closure and the amount paid. *)
LEMMA BasisStep ==
    ASSUME TypeOK, RoadInv, BasisInv, [Next]_vars
    PROVE  BasisInv'
<1>1. ASSUME Tick PROVE BasisInv'
  BY <1>1 DEF Tick, BasisInv, Made
<1>2. ASSUME NEW d \in Reached, Deliver(d) PROVE BasisInv'
  BY <1>2 DEF Deliver, BasisInv, Made, TypeOK, TripRow, RoadInv
<1>3. ASSUME AddDocket PROVE BasisInv'
  BY <1>3 DEF AddDocket, BasisInv, Made, SameKinds, SameSigners, TypeOK
<1>4. ASSUME AttachPod PROVE BasisInv'
  BY <1>4 DEF AttachPod, BasisInv, Made, SameKinds, SameSigners, TypeOK
<1>5. ASSUME LogHardCopy PROVE BasisInv'
  BY <1>5 DEF LogHardCopy, BasisInv, Made, SameKinds, SameSigners, TypeOK
<1>6. ASSUME Reject PROVE BasisInv'
  BY <1>6 DEF Reject, Rejectable, ClockAfterReject, BasisInv, Made, TypeOK, TripRow,
         SameKinds, SameSigners
<1>7. ASSUME NEW kind \in {"PAPER", "EPOD"}, NEW docket \in {"NO", "YES"}, Receive(kind, docket)
     PROVE  BasisInv'
  BY <1>7 DEF Receive, BasisInv, Made, TypeOK, TripRow, SameKinds, SameSigners
<1>8. ASSUME NEW f \in 0..1, NEW d \in Reached, VerifyHardCopy(f, d) PROVE BasisInv'
  BY <1>8 DEF VerifyHardCopy, Findings, Corrected, BasisInv, Made, TypeOK, TripRow,
         SameKinds, SameSigners
<1>9. ASSUME NEW s \in Staff, NEW f \in 0..1, NEW d \in Reached, Verify(s, f, d)
     PROVE  BasisInv'
  BY <1>9 DEF Verify, Findings, Corrected, BasisInv, Made, TypeOK, TripRow, SameKinds,
         SameSigners
<1>10. ASSUME NEW s \in Staff, Approve(s) PROVE BasisInv'
  BY <1>10 DEF Approve, BasisInv, Made, TypeOK, TripRow
<1>11. ASSUME WaivePodPenalty PROVE BasisInv'
  BY <1>11 DEF WaivePodPenalty, BasisInv, Made, TypeOK, TripRow
<1>12. ASSUME WaiveTransit PROVE BasisInv'
  BY <1>12 DEF WaiveTransit, BasisInv, Made, TypeOK, TripRow
<1>13. ASSUME NEW x \in Deductions, ResolveSdr(x) PROVE BasisInv'
  BY <1>13 DEF ResolveSdr, BasisInv, Made
<1>14. ASSUME NEW x \in 1..sdr.owed, WaiveSdr(x) PROVE BasisInv'
  BY <1>14 DEF WaiveSdr, BasisInv, Made
<1>15. ASSUME Invoice PROVE BasisInv'
  BY <1>15 DEF Invoice, BilledStage, BasisInv, Made, TypeOK, TripRow
<1>16. ASSUME CancelInvoice PROVE BasisInv'
  BY <1>16 DEF CancelInvoice, BasisInv, Made, TypeOK, TripRow
<1>17. ASSUME NEW k \in Keys, ReleaseBalance(k) PROVE BasisInv'
  <2>1. Pay(k, Balance) BY <1>17 DEF ReleaseBalance
  <2> QED BY <2>1, PayFacts, MoneyAssumption DEF BasisInv
<1>18. ASSUME NEW b \in Bills, RaiseBill(b) PROVE BasisInv'
  BY <1>18 DEF RaiseBill, BillTo, BasisInv, Made
<1>19. ASSUME NEW b \in Bills, SubmitBill(b) PROVE BasisInv'
  BY <1>19 DEF SubmitBill, BillTo, BasisInv, Made
<1>20. ASSUME NEW b \in Bills, QueryBill(b) PROVE BasisInv'
  BY <1>20 DEF QueryBill, BillTo, BasisInv, Made
<1>21. ASSUME NEW b \in Bills, NEW k \in Keys,
              NEW gross \in Figures \cup {Balance}, AcceptBill(b, k, gross)
      PROVE  BasisInv'
  <2>1. Pay(k, gross) BY <1>21 DEF AcceptBill
  <2> QED BY <2>1, PayFacts, MoneyAssumption DEF BasisInv
<1>22. ASSUME SweepStart PROVE BasisInv'
  BY <1>22 DEF SweepStart, BasisInv, Made
<1>23. ASSUME SweepTrip PROVE BasisInv'
  BY <1>23 DEF SweepTrip, Aged, BasisInv, Made, TypeOK, TripRow
<1>24. ASSUME SweepLost PROVE BasisInv'
  BY <1>24 DEF SweepLost, BasisInv, Made
<1>25. CASE UNCHANGED vars
  BY <1>25 DEF vars, BasisInv, Made
<1> QED BY <1>1, <1>2, <1>3, <1>4, <1>5, <1>6, <1>7, <1>8, <1>9, <1>10, <1>11, <1>12, <1>13,
           <1>14, <1>15, <1>16, <1>17, <1>18, <1>19, <1>20, <1>21, <1>22, <1>23, <1>24, <1>25
        DEF Next, PodStep, MoneyStep

(* A payment keeps its grounds. *)
LEMMA GroundsStep ==
    ASSUME TypeOK, RoadInv, BasisInv, PaidOnGrounds, [Next]_vars
    PROVE  PaidOnGrounds'
<1>1. ASSUME Tick PROVE PaidOnGrounds'
  BY <1>1 DEF Tick, PaidOnGrounds, Made
<1>2. ASSUME NEW d \in Reached, Deliver(d) PROVE PaidOnGrounds'
  BY <1>2 DEF Deliver, PaidOnGrounds, Made, TypeOK, TripRow, RoadInv
<1>3. ASSUME AddDocket PROVE PaidOnGrounds'
  BY <1>3 DEF AddDocket, PaidOnGrounds, Made, SameKinds, SameSigners, TypeOK
<1>4. ASSUME AttachPod PROVE PaidOnGrounds'
  BY <1>4 DEF AttachPod, PaidOnGrounds, Made, SameKinds, SameSigners, TypeOK
<1>5. ASSUME LogHardCopy PROVE PaidOnGrounds'
  BY <1>5 DEF LogHardCopy, PaidOnGrounds, Made, SameKinds, SameSigners, TypeOK
<1>6. ASSUME Reject PROVE PaidOnGrounds'
  BY <1>6 DEF Reject, Rejectable, ClockAfterReject, PaidOnGrounds, Made, TypeOK, TripRow,
         SameKinds, SameSigners
<1>7. ASSUME NEW kind \in {"PAPER", "EPOD"}, NEW docket \in {"NO", "YES"}, Receive(kind, docket)
     PROVE  PaidOnGrounds'
  BY <1>7 DEF Receive, PaidOnGrounds, Made, TypeOK, TripRow, SameKinds, SameSigners
<1>8. ASSUME NEW f \in 0..1, NEW d \in Reached, VerifyHardCopy(f, d)
     PROVE  PaidOnGrounds'
  BY <1>8 DEF VerifyHardCopy, Findings, Corrected, PaidOnGrounds, Made, TypeOK, TripRow,
         SameKinds, SameSigners
<1>9. ASSUME NEW s \in Staff, NEW f \in 0..1, NEW d \in Reached, Verify(s, f, d)
     PROVE  PaidOnGrounds'
  BY <1>9 DEF Verify, Findings, Corrected, PaidOnGrounds, Made, TypeOK, TripRow,
         SameKinds, SameSigners
<1>10. ASSUME NEW s \in Staff, Approve(s) PROVE PaidOnGrounds'
  BY <1>10 DEF Approve, PaidOnGrounds, Made, TypeOK, TripRow
<1>11. ASSUME WaivePodPenalty PROVE PaidOnGrounds'
  BY <1>11 DEF WaivePodPenalty, PaidOnGrounds, Made, TypeOK, TripRow
<1>12. ASSUME WaiveTransit PROVE PaidOnGrounds'
  BY <1>12 DEF WaiveTransit, PaidOnGrounds, Made, TypeOK, TripRow
<1>13. ASSUME NEW x \in Deductions, ResolveSdr(x) PROVE PaidOnGrounds'
  BY <1>13 DEF ResolveSdr, PaidOnGrounds, Made
<1>14. ASSUME NEW x \in 1..sdr.owed, WaiveSdr(x) PROVE PaidOnGrounds'
  BY <1>14 DEF WaiveSdr, PaidOnGrounds, Made
<1>15. ASSUME Invoice PROVE PaidOnGrounds'
  BY <1>15 DEF Invoice, BilledStage, PaidOnGrounds, Made, TypeOK, TripRow
<1>16. ASSUME CancelInvoice PROVE PaidOnGrounds'
  BY <1>16 DEF CancelInvoice, PaidOnGrounds, Made, TypeOK, TripRow
<1>17. ASSUME NEW k \in Keys, ReleaseBalance(k) PROVE PaidOnGrounds'
  <2>1. Pay(k, Balance) BY <1>17 DEF ReleaseBalance
  <2> QED BY <2>1, PayFacts, MoneyAssumption DEF PaidOnGrounds, BasisInv
<1>18. ASSUME NEW b \in Bills, RaiseBill(b) PROVE PaidOnGrounds'
  BY <1>18 DEF RaiseBill, BillTo, PaidOnGrounds, Made
<1>19. ASSUME NEW b \in Bills, SubmitBill(b) PROVE PaidOnGrounds'
  BY <1>19 DEF SubmitBill, BillTo, PaidOnGrounds, Made
<1>20. ASSUME NEW b \in Bills, QueryBill(b) PROVE PaidOnGrounds'
  BY <1>20 DEF QueryBill, BillTo, PaidOnGrounds, Made
<1>21. ASSUME NEW b \in Bills, NEW k \in Keys,
              NEW gross \in Figures \cup {Balance}, AcceptBill(b, k, gross)
      PROVE  PaidOnGrounds'
  <2>1. Pay(k, gross) BY <1>21 DEF AcceptBill
  <2> QED BY <2>1, PayFacts, MoneyAssumption DEF PaidOnGrounds, BasisInv
<1>22. ASSUME SweepStart PROVE PaidOnGrounds'
  BY <1>22 DEF SweepStart, PaidOnGrounds, Made
<1>23. ASSUME SweepTrip PROVE PaidOnGrounds'
  BY <1>23 DEF SweepTrip, Aged, PaidOnGrounds, Made, TypeOK, TripRow
<1>24. ASSUME SweepLost PROVE PaidOnGrounds'
  BY <1>24 DEF SweepLost, PaidOnGrounds, Made
<1>25. CASE UNCHANGED vars
  BY <1>25 DEF vars, PaidOnGrounds, Made
<1> QED BY <1>1, <1>2, <1>3, <1>4, <1>5, <1>6, <1>7, <1>8, <1>9, <1>10, <1>11, <1>12, <1>13,
           <1>14, <1>15, <1>16, <1>17, <1>18, <1>19, <1>20, <1>21, <1>22, <1>23, <1>24, <1>25
        DEF Next, PodStep, MoneyStep

(* Paid and billed is closed, in either order. *)
LEMMA ClosedStep ==
    ASSUME TypeOK, RoadInv, BasisInv, ClosedWhenSettled, [Next]_vars
    PROVE  ClosedWhenSettled'
<1>1. ASSUME Tick PROVE ClosedWhenSettled'
  BY <1>1 DEF Tick, ClosedWhenSettled, Made
<1>2. ASSUME NEW d \in Reached, Deliver(d) PROVE ClosedWhenSettled'
  BY <1>2 DEF Deliver, ClosedWhenSettled, Made, TypeOK, TripRow, RoadInv
<1>3. ASSUME AddDocket PROVE ClosedWhenSettled'
  BY <1>3 DEF AddDocket, ClosedWhenSettled, Made, SameKinds, SameSigners, TypeOK
<1>4. ASSUME AttachPod PROVE ClosedWhenSettled'
  BY <1>4 DEF AttachPod, ClosedWhenSettled, Made, SameKinds, SameSigners, TypeOK
<1>5. ASSUME LogHardCopy PROVE ClosedWhenSettled'
  BY <1>5 DEF LogHardCopy, ClosedWhenSettled, Made, SameKinds, SameSigners, TypeOK
<1>6. ASSUME Reject PROVE ClosedWhenSettled'
  BY <1>6 DEF Reject, Rejectable, ClockAfterReject, ClosedWhenSettled, Made, TypeOK,
         TripRow, SameKinds, SameSigners
<1>7. ASSUME NEW kind \in {"PAPER", "EPOD"}, NEW docket \in {"NO", "YES"}, Receive(kind, docket)
     PROVE  ClosedWhenSettled'
  BY <1>7 DEF Receive, ClosedWhenSettled, Made, TypeOK, TripRow, SameKinds, SameSigners
<1>8. ASSUME NEW f \in 0..1, NEW d \in Reached, VerifyHardCopy(f, d)
     PROVE  ClosedWhenSettled'
  BY <1>8 DEF VerifyHardCopy, Findings, Corrected, ClosedWhenSettled, Made, TypeOK,
         TripRow, SameKinds, SameSigners
<1>9. ASSUME NEW s \in Staff, NEW f \in 0..1, NEW d \in Reached, Verify(s, f, d)
     PROVE  ClosedWhenSettled'
  BY <1>9 DEF Verify, Findings, Corrected, ClosedWhenSettled, Made, TypeOK, TripRow,
         SameKinds, SameSigners
<1>10. ASSUME NEW s \in Staff, Approve(s) PROVE ClosedWhenSettled'
  BY <1>10 DEF Approve, ClosedWhenSettled, Made, TypeOK, TripRow, BasisInv
<1>11. ASSUME WaivePodPenalty PROVE ClosedWhenSettled'
  BY <1>11 DEF WaivePodPenalty, ClosedWhenSettled, Made, TypeOK, TripRow, BasisInv
<1>12. ASSUME WaiveTransit PROVE ClosedWhenSettled'
  BY <1>12 DEF WaiveTransit, ClosedWhenSettled, Made, TypeOK, TripRow
<1>13. ASSUME NEW x \in Deductions, ResolveSdr(x) PROVE ClosedWhenSettled'
  BY <1>13 DEF ResolveSdr, ClosedWhenSettled, Made
<1>14. ASSUME NEW x \in 1..sdr.owed, WaiveSdr(x) PROVE ClosedWhenSettled'
  BY <1>14 DEF WaiveSdr, ClosedWhenSettled, Made
<1>15. ASSUME Invoice PROVE ClosedWhenSettled'
  BY <1>15 DEF Invoice, BilledStage, ClosedWhenSettled, Made, TypeOK, TripRow, BasisInv
<1>16. ASSUME CancelInvoice PROVE ClosedWhenSettled'
  BY <1>16 DEF CancelInvoice, ClosedWhenSettled, Made, TypeOK, TripRow
<1>17. ASSUME NEW k \in Keys, ReleaseBalance(k) PROVE ClosedWhenSettled'
  <2>1. Pay(k, Balance) BY <1>17 DEF ReleaseBalance
  <2> QED BY <2>1, PayFacts, MoneyAssumption DEF ClosedWhenSettled
<1>18. ASSUME NEW b \in Bills, RaiseBill(b) PROVE ClosedWhenSettled'
  BY <1>18 DEF RaiseBill, BillTo, ClosedWhenSettled, Made
<1>19. ASSUME NEW b \in Bills, SubmitBill(b) PROVE ClosedWhenSettled'
  BY <1>19 DEF SubmitBill, BillTo, ClosedWhenSettled, Made
<1>20. ASSUME NEW b \in Bills, QueryBill(b) PROVE ClosedWhenSettled'
  BY <1>20 DEF QueryBill, BillTo, ClosedWhenSettled, Made
<1>21. ASSUME NEW b \in Bills, NEW k \in Keys,
              NEW gross \in Figures \cup {Balance}, AcceptBill(b, k, gross)
      PROVE  ClosedWhenSettled'
  <2>1. Pay(k, gross) BY <1>21 DEF AcceptBill
  <2> QED BY <2>1, PayFacts, MoneyAssumption DEF ClosedWhenSettled
<1>22. ASSUME SweepStart PROVE ClosedWhenSettled'
  BY <1>22 DEF SweepStart, ClosedWhenSettled, Made
<1>23. ASSUME SweepTrip PROVE ClosedWhenSettled'
  BY <1>23 DEF SweepTrip, Aged, ClosedWhenSettled, Made, TypeOK, TripRow
<1>24. ASSUME SweepLost PROVE ClosedWhenSettled'
  BY <1>24 DEF SweepLost, ClosedWhenSettled, Made
<1>25. CASE UNCHANGED vars
  BY <1>25 DEF vars, ClosedWhenSettled, Made
<1> QED BY <1>1, <1>2, <1>3, <1>4, <1>5, <1>6, <1>7, <1>8, <1>9, <1>10, <1>11, <1>12, <1>13,
           <1>14, <1>15, <1>16, <1>17, <1>18, <1>19, <1>20, <1>21, <1>22, <1>23, <1>24, <1>25
        DEF Next, PodStep, MoneyStep

-----------------------------------------------------------------------------
(* The books: what is deducted or written off moves within the records, and *)
(* a payment moves from what is owed to what is recovered what it deducts.  *)
LEMMA BooksIn ==
    ASSUME Books, TypeOK, UNCHANGED payment, trip'.paid = trip.paid, NEW x \in Int,
           sdr'.deducted = sdr.deducted + x, sdr'.owed + sdr'.written = sdr.owed + sdr.written + x
    PROVE  Books'
<1>1. Payments' = Payments /\ Taken' = Taken /\ Net' = Net
  BY DEF Payments, Taken, Net, Made
<1> DEFINE s == SumFunctionOnSet(Taken, Payments)
<1>2. /\ Payments \subseteq Keys /\ IsFiniteSet(Payments)
      /\ \A k \in Keys : Taken[k] \in Int
  BY DEF Payments, Books, Taken, TypeOK, PaymentRow
<1>3. s \in Int
  BY <1>2, SumType
<1>4. /\ sdr.deducted = sdr.owed + sdr.written + s /\ trip.paid = SumFunctionOnSet(Net, Payments)
      /\ sdr.deducted \in Int /\ sdr.owed \in Int /\ sdr.written \in Int
  BY DEF Books, BooksBalance, TypeOK, SdrSums
<1> HIDE DEF s
<1>5. sdr'.deducted = sdr'.owed + sdr'.written + s
  BY <1>3, <1>4
<1> QED BY <1>1, <1>2, <1>4, <1>5 DEF Books, BooksBalance, s

LEMMA PayBooks ==
    ASSUME Books, TypeOK, NEW k \in Keys, NEW gross \in Nat, Pay(k, gross)
    PROVE  Books'
<1> DEFINE avail == gross - PenaltyDue
           taken == Recovered(avail)
           net == NonNegative(avail) - taken
<1>1. PenaltyDue \in Nat
  BY MoneyAssumption DEF TypeOK, TripRow, PenaltyDue, TransitOwed
<1>2. avail \in Int /\ sdr.owed \in Nat /\ sdr.written \in Nat /\ sdr.deducted \in Nat
  BY <1>1 DEF TypeOK, SdrSums
<1>3. taken \in Int /\ net \in Nat
  BY <1>2, MoneyAssumption DEF Recovered, Least, NonNegative
<1>4. /\ payment[k] = NoPayment /\ trip.paid = 0
      /\ payment' = [payment EXCEPT ![k] = [made |-> "YES", gross |-> gross,
                                            penalty |-> PenaltyDue, deduction |-> taken]]
      /\ sdr' = [sdr EXCEPT !.owed = @ - taken]
      /\ trip'.paid = net
  BY DEF Pay, TypeOK, TripRow
<1> HIDE DEF taken, avail
<1>5. /\ sdr'.owed = sdr.owed - taken /\ sdr'.deducted = sdr.deducted /\ sdr'.written = sdr.written
  BY <1>4 DEF TypeOK, SdrSums
<1>6. /\ payment'[k].made = "YES" /\ payment'[k].deduction = taken
      /\ payment'[k].gross = gross /\ payment'[k].penalty = PenaltyDue
      /\ \A l \in Keys : l # k => payment'[l] = payment[l]
  BY <1>4 DEF TypeOK
<1>7. Payments' = Payments \cup {k} /\ k \notin Payments /\ Payments \subseteq Keys
  BY <1>4, <1>6 DEF Payments, Made, NoPayment
<1>8. /\ Taken'[k] = taken /\ \A l \in Payments : Taken'[l] = Taken[l] /\ Taken[l] \in Int
      /\ Net'[k] = net /\ \A l \in Payments : Net'[l] = Net[l] /\ Net[l] \in Int
  <2>1. \A l \in Keys : payment[l] \in PaymentRow
    BY DEF TypeOK
  <2>2. Taken'[k] = taken /\ \A l \in Payments : Taken'[l] = Taken[l] /\ Taken[l] \in Int
    BY <1>6, <1>7, <2>1 DEF Taken, PaymentRow
  <2>3. Net'[k] = net
    BY <1>6 DEF Net, avail
  <2>4. \A l \in Payments : Net'[l] = Net[l]
    BY <1>6, <1>7 DEF Net
  <2>5. \A l \in Payments : Net[l] \in Int
    BY <1>7, <2>1 DEF Net, NonNegative, PaymentRow
  <2> QED BY <2>2, <2>3, <2>4, <2>5
<1>9. IsFiniteSet(Payments) /\ IsFiniteSet(Payments \cup {k}) /\ (Payments \cup {k}) \ {k} = Payments
  BY <1>7, FS_AddElement DEF Books
<1>10. /\ SumFunctionOnSet(Taken', Payments) = SumFunctionOnSet(Taken, Payments)
       /\ SumFunctionOnSet(Net', Payments) = SumFunctionOnSet(Net, Payments)
  BY <1>8, <1>9, SumSame
<1>11. /\ SumFunctionOnSet(Taken', Payments \cup {k}) = taken + SumFunctionOnSet(Taken', Payments)
       /\ SumFunctionOnSet(Net', Payments \cup {k}) = net + SumFunctionOnSet(Net', Payments)
  <2>1. /\ \A l \in Payments \cup {k} : Taken'[l] \in Int
        /\ \A l \in Payments \cup {k} : Net'[l] \in Int
        /\ k \in Payments \cup {k}
    BY <1>3, <1>8
  <2> HIDE DEF net
  <2> QED BY <1>8, <1>9, <2>1, SumWithout
<1>12. SumFunctionOnSet(Taken, Payments) \in Int
  BY <1>8, <1>9, SumType
<1>13. /\ sdr.deducted = sdr.owed + sdr.written + SumFunctionOnSet(Taken, Payments)
       /\ SumFunctionOnSet(Net, Payments) = 0
  BY <1>4 DEF Books, BooksBalance
<1> HIDE DEF net
<1>14. sdr'.deducted = sdr'.owed + sdr'.written + (taken + SumFunctionOnSet(Taken, Payments))
  BY <1>2, <1>3, <1>5, <1>12, <1>13
<1>15. trip'.paid = net + 0
  BY <1>3, <1>4
<1>16. \A l \in Payments : Net'[l] = 0
  BY <1>4, <1>8 DEF Books
<1>17. /\ \A l \in Payments' : Net'[l] \in 0..trip'.paid
       /\ \A l, m \in Payments' : l = m \/ Net'[l] = 0 \/ Net'[m] = 0
  BY <1>3, <1>4, <1>7, <1>8, <1>16
<1> QED BY <1>7, <1>9, <1>10, <1>11, <1>13, <1>14, <1>15, <1>17 DEF Books, BooksBalance

(* What every step but a payment leaves of the books. *)
Moved(x) ==
    /\ UNCHANGED payment /\ trip'.paid = trip.paid
    /\ sdr'.deducted = sdr.deducted + x /\ sdr'.owed + sdr'.written = sdr.owed + sdr.written + x

LEMMA BooksStep ==
    ASSUME Books, TypeOK, [Next]_vars
    PROVE  Books'
<1> USE DEF TypeOK, TripRow, SdrSums
<1>0. sdr.deducted \in Int /\ sdr.owed \in Int /\ sdr.written \in Int
  OBVIOUS
<1>1. ASSUME Tick  PROVE Moved(0)
  BY <1>0, <1>1 DEF Moved, Tick
<1>2. ASSUME \E d \in Reached : Deliver(d)  PROVE Moved(0)
  BY <1>0, <1>2 DEF Moved, Deliver
<1>3. ASSUME AddDocket  PROVE Moved(0)
  BY <1>0, <1>3 DEF Moved, AddDocket
<1>4. ASSUME AttachPod  PROVE Moved(0)
  BY <1>0, <1>4 DEF Moved, AttachPod
<1>5. ASSUME LogHardCopy  PROVE Moved(0)
  BY <1>0, <1>5 DEF Moved, LogHardCopy
<1>6. ASSUME Reject  PROVE Moved(0)
  BY <1>0, <1>6 DEF Moved, Reject
<1>7. ASSUME \E kind \in {"PAPER", "EPOD"}, docket \in {"NO", "YES"} : Receive(kind, docket)  PROVE Moved(0)
  BY <1>0, <1>7 DEF Moved, Receive
<1>8. ASSUME \E f \in 0..1, d \in Reached : VerifyHardCopy(f, d)  PROVE Moved(0)
  BY <1>0, <1>8 DEF Moved, VerifyHardCopy, Findings, Corrected
<1>9. ASSUME \E s \in Staff, f \in 0..1, d \in Reached : Verify(s, f, d)  PROVE Moved(0)
  BY <1>0, <1>9 DEF Moved, Verify, Findings, Corrected
<1>10. ASSUME \E s \in Staff : Approve(s)  PROVE Moved(0)
  BY <1>0, <1>10 DEF Moved, Approve
<1>11. ASSUME WaivePodPenalty  PROVE Moved(0)
  BY <1>0, <1>11 DEF Moved, WaivePodPenalty
<1>12. ASSUME WaiveTransit  PROVE Moved(0)
  BY <1>0, <1>12 DEF Moved, WaiveTransit
<1>13. ASSUME \E x \in 1..sdr.owed : WaiveSdr(x)  PROVE Moved(0)
  BY <1>0, <1>13 DEF Moved, WaiveSdr
<1>14. ASSUME Invoice  PROVE Moved(0)
  BY <1>0, <1>14 DEF Moved, Invoice
<1>15. ASSUME CancelInvoice  PROVE Moved(0)
  BY <1>0, <1>15 DEF Moved, CancelInvoice
<1>16. ASSUME \E b \in Bills : RaiseBill(b) \/ SubmitBill(b) \/ QueryBill(b)  PROVE Moved(0)
  BY <1>0, <1>16 DEF Moved, RaiseBill, SubmitBill, QueryBill
<1>17. ASSUME SweepStart  PROVE Moved(0)
  BY <1>0, <1>17 DEF Moved, SweepStart
<1>18. ASSUME SweepTrip  PROVE Moved(0)
  BY <1>0, <1>18 DEF Moved, SweepTrip, Aged
<1>19. ASSUME SweepLost  PROVE Moved(0)
  BY <1>0, <1>19 DEF Moved, SweepLost
<1>20. ASSUME UNCHANGED vars  PROVE Moved(0)
  BY <1>0, <1>20 DEF Moved, vars
<1>21. ASSUME NEW x \in Deductions, ResolveSdr(x)  PROVE x \in Int /\ Moved(x)
  BY <1>0, <1>21, MoneyAssumption DEF Moved, ResolveSdr
<1>22. ASSUME NEW k \in Keys, NEW gross \in Figures \cup {Balance}, Pay(k, gross)  PROVE Books'
  BY <1>22, PayBooks, MoneyAssumption
<1>23. Books' \/ \E x \in Int : Moved(x)
  BY <1>1, <1>2, <1>3, <1>4, <1>5, <1>6, <1>7, <1>8, <1>9, <1>10, <1>11, <1>12, <1>13, <1>14,
     <1>15, <1>16, <1>17, <1>18, <1>19, <1>20, <1>21, <1>22
  DEF Next, PodStep, MoneyStep, ReleaseBalance, AcceptBill
<1> QED BY <1>23, BooksIn DEF Moved

-----------------------------------------------------------------------------
(* A payment is the account's payment; every other step leaves the account  *)
(* alone or is one of the five others.                                      *)
LEMMA PayIsAccountStep ==
    ASSUME TypeOK, TypeOK', NEW k \in Keys, NEW gross \in Nat, Pay(k, gross)
    PROVE  Account!Next
<1>1. /\ trip.paid = 0 /\ trip'.billed = trip.billed
      /\ trip'.stage = IF trip.billed = "YES" THEN "CLOSED" ELSE trip.stage
  BY PayFacts
<1>2. trip'.paid \in Nat BY DEF TypeOK, TripRow
<1> QED BY <1>1, <1>2 DEF Account!Next, Account!Pay, Account!Paid, AccountRow

LEMMA StepOfAccount ==
    ASSUME TypeOK, TypeOK', SdrInv, RoadInv, [Next]_vars
    PROVE  [Account!Next]_AccountRow
<1>1. ASSUME Tick PROVE [Account!Next]_AccountRow
  BY <1>1 DEF Tick, AccountRow
<1>2. ASSUME NEW d \in Reached, Deliver(d) PROVE [Account!Next]_AccountRow
  <2>1. /\ trip.stage = "IN_TRANSIT" /\ trip'.stage = "DELIVERED"
        /\ trip'.billed = trip.billed /\ trip'.paid = trip.paid
    BY <1>2 DEF Deliver, TypeOK, TripRow
  <2> QED BY <2>1 DEF Account!Next, Account!Deliver, Account!Delivered, AccountRow
<1>3. ASSUME AddDocket PROVE [Account!Next]_AccountRow
  BY <1>3 DEF AddDocket, AccountRow, SameKinds, SameSigners, TypeOK
<1>4. ASSUME AttachPod PROVE [Account!Next]_AccountRow
  BY <1>4 DEF AttachPod, AccountRow, SameKinds, SameSigners, TypeOK
<1>5. ASSUME LogHardCopy PROVE [Account!Next]_AccountRow
  BY <1>5 DEF LogHardCopy, AccountRow, SameKinds, SameSigners, TypeOK
<1>6. ASSUME Reject PROVE [Account!Next]_AccountRow
  BY <1>6 DEF Reject, Rejectable, ClockAfterReject, AccountRow, TypeOK, TripRow,
         SameKinds, SameSigners
<1>7. ASSUME NEW kind \in {"PAPER", "EPOD"}, NEW docket \in {"NO", "YES"}, Receive(kind, docket)
     PROVE  [Account!Next]_AccountRow
  BY <1>7 DEF Receive, AccountRow, TypeOK, TripRow, SameKinds, SameSigners
<1>8. ASSUME NEW f \in 0..1, NEW d \in Reached, VerifyHardCopy(f, d)
     PROVE  [Account!Next]_AccountRow
  <2>1. Findings(trip, f, d) BY <1>8 DEF VerifyHardCopy
  <2> DEFINE t == trip
  <2>2. t \in TripRow /\ t.stage = trip.stage /\ t.billed = trip.billed /\ t.paid = trip.paid
    BY DEF TypeOK, TripRow, PodStatus
  <2> HIDE DEF t
  <2>3. trip'.stage = trip.stage /\ trip'.billed = trip.billed /\ trip'.paid = trip.paid
    BY <2>1, <2>2, FindingsFacts DEF t
  <2> QED BY <2>3 DEF AccountRow
<1>9. ASSUME NEW s \in Staff, NEW f \in 0..1, NEW d \in Reached, Verify(s, f, d)
     PROVE  [Account!Next]_AccountRow
  <2>1. Findings([trip EXCEPT !.pod = "VERIFIED"], f, d) BY <1>9 DEF Verify
  <2> DEFINE t == [trip EXCEPT !.pod = "VERIFIED"]
  <2>2. t \in TripRow /\ t.stage = trip.stage /\ t.billed = trip.billed /\ t.paid = trip.paid
    BY DEF TypeOK, TripRow, PodStatus
  <2> HIDE DEF t
  <2>3. trip'.stage = trip.stage /\ trip'.billed = trip.billed /\ trip'.paid = trip.paid
    BY <2>1, <2>2, FindingsFacts DEF t
  <2> QED BY <2>3 DEF AccountRow
<1>10. ASSUME NEW s \in Staff, Approve(s) PROVE [Account!Next]_AccountRow
  BY <1>10 DEF Approve, AccountRow, TypeOK, TripRow
<1>11. ASSUME WaivePodPenalty PROVE [Account!Next]_AccountRow
  BY <1>11 DEF WaivePodPenalty, AccountRow, TypeOK, TripRow
<1>12. ASSUME WaiveTransit PROVE [Account!Next]_AccountRow
  BY <1>12 DEF WaiveTransit, AccountRow, TypeOK, TripRow
<1>13. ASSUME NEW x \in Deductions, ResolveSdr(x) PROVE [Account!Next]_AccountRow
  BY <1>13 DEF ResolveSdr, AccountRow
<1>14. ASSUME NEW x \in 1..sdr.owed, WaiveSdr(x) PROVE [Account!Next]_AccountRow
  BY <1>14 DEF WaiveSdr, AccountRow
<1>15. ASSUME Invoice PROVE [Account!Next]_AccountRow
  <2>1. /\ trip.billed = "NO" /\ trip'.billed = "YES" /\ trip'.paid = trip.paid
        /\ trip'.stage = IF trip.paid > 0 THEN "CLOSED" ELSE trip.stage
        /\ trip.stage # "OPEN"
    BY <1>15 DEF Invoice, BilledStage, TypeOK, TripRow
  <2> QED BY <2>1 DEF Account!Next, Account!Bill, Account!Billed, Account!OnRoad, AccountRow
<1>16. ASSUME CancelInvoice PROVE [Account!Next]_AccountRow
  <2>1. /\ trip.billed = "YES" /\ trip'.billed = "NO" /\ trip'.paid = trip.paid
        /\ trip'.stage = IF trip.stage = "CLOSED" /\ trip.paid > 0 THEN "DELIVERED"
                           ELSE trip.stage
    BY <1>16 DEF CancelInvoice, TypeOK, TripRow
  <2> QED BY <2>1 DEF Account!Next, Account!Unbill, Account!Unbilled, AccountRow
<1>17. ASSUME NEW k \in Keys, ReleaseBalance(k) PROVE [Account!Next]_AccountRow
  <2>1. Pay(k, Balance) BY <1>17 DEF ReleaseBalance
  <2> QED BY <2>1, PayIsAccountStep, MoneyAssumption
<1>18. ASSUME NEW b \in Bills, RaiseBill(b) PROVE [Account!Next]_AccountRow
  BY <1>18 DEF RaiseBill, BillTo, AccountRow
<1>19. ASSUME NEW b \in Bills, SubmitBill(b) PROVE [Account!Next]_AccountRow
  BY <1>19 DEF SubmitBill, BillTo, AccountRow
<1>20. ASSUME NEW b \in Bills, QueryBill(b) PROVE [Account!Next]_AccountRow
  BY <1>20 DEF QueryBill, BillTo, AccountRow
<1>21. ASSUME NEW b \in Bills, NEW k \in Keys,
              NEW gross \in Figures \cup {Balance}, AcceptBill(b, k, gross)
      PROVE  [Account!Next]_AccountRow
  <2>1. Pay(k, gross) BY <1>21 DEF AcceptBill
  <2> QED BY <2>1, PayIsAccountStep, MoneyAssumption
<1>22. ASSUME SweepStart PROVE [Account!Next]_AccountRow
  BY <1>22 DEF SweepStart, AccountRow
<1>23. ASSUME SweepTrip PROVE [Account!Next]_AccountRow
  <2>1. trip'.billed = trip.billed /\ trip'.paid = trip.paid
    BY <1>23 DEF SweepTrip, Aged, TypeOK, TripRow
  <2>2. CASE trip'.stage = trip.stage BY <2>1, <2>2 DEF AccountRow
  <2>3. CASE trip'.stage # trip.stage
    <3>1. trip'.stage = "CLOSED" /\ Age > Forfeit
      BY <1>23, <2>3 DEF SweepTrip, Aged, TypeOK, TripRow
    <3>2. trip.delivered # None BY <3>1, DaysAssumption DEF Age
    <3>3. trip.stage \in {"DELIVERED", "CLOSED"} BY <3>2 DEF RoadInv, TypeOK, TripRow
    <3> QED BY <2>1, <3>1, <3>3 DEF Account!Next, Account!Lapse, Account!Forfeited, AccountRow
  <2> QED BY <2>2, <2>3
<1>24. ASSUME SweepLost PROVE [Account!Next]_AccountRow
  BY <1>24 DEF SweepLost, AccountRow
<1>25. CASE UNCHANGED vars
  BY <1>25 DEF vars, AccountRow
<1> QED BY <1>1, <1>2, <1>3, <1>4, <1>5, <1>6, <1>7, <1>8, <1>9, <1>10, <1>11, <1>12, <1>13,
           <1>14, <1>15, <1>16, <1>17, <1>18, <1>19, <1>20, <1>21, <1>22, <1>23, <1>24, <1>25
        DEF Next, PodStep, MoneyStep

-----------------------------------------------------------------------------
LEMMA InductiveInit == Init => IInv
<1> SUFFICES ASSUME Init PROVE IInv OBVIOUS
<1>1. TypeOK
  BY EmptySeq, DaysAssumption
  DEF Init, TypeOK, TripRow, PodStatus, Days, SdrSums, PaymentRow, NoPayment
<1>2. Payments = {} BY DEF Init, Payments, Made, NoPayment
<1>3. IsFiniteSet({}) /\ SumFunctionOnSet(Taken, {}) = 0 /\ SumFunctionOnSet(Net, {}) = 0
  BY FS_EmptySet, SumDefined
<1>4. Books BY <1>2, <1>3 DEF Init, Books, BooksBalance
<1> QED
  BY <1>1, <1>4 DEF Init, IInv, RoadInv, SignInv, BasisInv, SdrInv, ClockMatchesProof, FourEyes,
              PaidOnGrounds, ClosedWhenSettled, Made, NoPayment

LEMMA InductiveStep == IInv /\ [Next]_vars => IInv'
  BY TypeStep, SdrStep, RoadStep, ClockStep, SignStep, EyesStep, BasisStep, GroundsStep, ClosedStep,
     BooksStep
  DEF IInv

LEMMA Inductive == Spec => []IInv
  BY InductiveInit, InductiveStep, PTL DEF Spec

(* Every handler leaves the trip, its receipts, records, bills and payments *)
(* well formed; no payment takes more than there is, and none is negative.  *)
THEOREM TypeCorrect == Spec => []TypeOK
<1>1. IInv => TypeOK BY DEF IInv
<1> QED BY Inductive, <1>1, PTL

(* reject, receive, the corrections of the delivery date and the sweep      *)
(* never leave the clock stopped without a proof or running over one.       *)
THEOREM ClockFollowsProof == Spec => []ClockMatchesProof
<1>1. IInv => ClockMatchesProof BY DEF IInv
<1> QED BY Inductive, <1>1, PTL

(* The service's check of the latest receipt and the trigger on every       *)
(* receipt together keep a verifier who is no administrator from approving. *)
THEOREM TwoPairsOfEyes == Spec => []FourEyes
<1>1. IInv => FourEyes BY DEF IInv
<1> QED BY Inductive, <1>1, PTL

(* After a balance left, no handler takes back what justified it. *)
THEOREM MoneyOnGrounds == Spec => []PaidOnGrounds
<1>1. IInv => PaidOnGrounds BY DEF IInv
<1> QED BY Inductive, <1>1, PTL

(* Payment, invoice and its cancelling close and reopen the trip by what    *)
(* the other half has done, and the sweep closes what it forfeits.          *)
THEOREM SettledIsClosed == Spec => []ClosedWhenSettled
<1>1. IInv => ClosedWhenSettled BY DEF IInv
<1> QED BY Inductive, <1>1, PTL

(* Resolving and waiving a shortage record and paying a balance keep the    *)
(* books: what was deducted is owed, written off or recovered from one      *)
(* payment, and the trip shows what its payments came to.                   *)
THEOREM BooksAreKept == Spec => []BooksBalance
<1>1. IInv => BooksBalance BY DEF IInv, Books
<1> QED BY Inductive, <1>1, PTL

(* The trip's row behaves as the account the other parts take it for: the   *)
(* road, the sweep, the invoices and the payment touch it one way each.     *)
THEOREM ImplementsTripAccount == Spec => KeepsAccount
<1>1. Init => Account!Init BY DEF Init, Account!Init, AccountRow
<1>2. IInv /\ IInv' /\ [Next]_vars => [Account!Next]_AccountRow
  BY StepOfAccount DEF IInv
<1>3. Account!Spec <=> Account!Init /\ [][Account!Next]_AccountRow BY PTL DEF Account!Spec
<1> QED BY Inductive, <1>1, <1>2, <1>3, PTL DEF Spec, KeepsAccount

-----------------------------------------------------------------------------
(* What follows from the account alone.  A trip is billed only once it is on  *)
(* the road, so that neither Depart nor Deliver takes a settled one back out  *)
(* of CLOSED.                                                               *)
AccountInv ==
    /\ AccountRow \in Account!Account
    /\ AccountRow.billed = "YES" => Account!OnRoad(AccountRow)
    /\ Account!BothHalves

LEMMA AccountInvStep == AccountInv /\ [Account!Next]_AccountRow => AccountInv'
<1> SUFFICES ASSUME AccountInv, [Account!Next]_AccountRow PROVE AccountInv' OBVIOUS
<1> DEFINE a == AccountRow
<1>0. /\ a \in Account!Account
      /\ a.billed = "YES" => a.stage # "OPEN"
      /\ a.paid > 0 /\ a.billed = "YES" => a.stage = "CLOSED"
  BY DEF AccountInv, Account!OnRoad, Account!BothHalves
<1> SUFFICES /\ a' \in Account!Account
             /\ a'.billed = "YES" => a'.stage # "OPEN"
             /\ a'.paid > 0 /\ a'.billed = "YES" => a'.stage = "CLOSED"
  BY DEF AccountInv, Account!OnRoad, Account!BothHalves
<1> HIDE DEF a
<1> USE <1>0 DEF Account!Account, Account!OnRoad
<1>1. CASE Account!Depart BY <1>1 DEF Account!Depart, Account!Departed, a
<1>2. CASE Account!Deliver BY <1>2 DEF Account!Deliver, Account!Delivered, a
<1>3. CASE Account!Lapse BY <1>3 DEF Account!Lapse, Account!Forfeited, a
<1>4. CASE Account!Bill BY <1>4 DEF Account!Bill, Account!Billed, a
<1>5. CASE Account!Unbill BY <1>5 DEF Account!Unbill, Account!Unbilled, a
<1>6. CASE Account!Pay BY <1>6 DEF Account!Pay, Account!Paid, a
<1>7. CASE UNCHANGED AccountRow BY <1>7 DEF a
<1> QED BY <1>1, <1>2, <1>3, <1>4, <1>5, <1>6, <1>7 DEF Account!Next

(* Whichever of payment and invoice comes second closes the trip, and only  *)
(* a cancelled invoice opens it again: so says the account by itself.        *)
THEOREM AccountCloses == Account!Spec => []Account!BothHalves
<1>1. Account!Init => AccountInv
  BY DEF Account!Init, AccountInv, Account!Account, Account!OnRoad, Account!BothHalves
<1>2. AccountInv => Account!BothHalves BY DEF AccountInv
<1> QED BY <1>1, <1>2, AccountInvStep, PTL DEF Account!Spec

-----------------------------------------------------------------------------
(***************************************************************************)
(* Invoicing                                                               *)
(***************************************************************************)
AccountRows == [stage : {"OPEN", "IN_TRANSIT", "DELIVERED", "CLOSED"},
               billed : {"NO", "YES"}, paid : Nat]

(* What the unique index holds: one invoice to a trip. *)
OneLink == \A t \in Trips : \A i, j \in Invoices :
              <<i, t>> \in link /\ <<j, t>> \in link => i = j

(* Only trips on the road are on an invoice, and no invoice not yet made    *)
(* has any.                                                                 *)
LinkInv == \A t \in Trips : \A i \in Invoices : <<i, t>> \in link =>
              account[t].stage # "OPEN" /\ invoice[i].status # "NONE"

Closed == \A t \in Trips :
            account[t].paid > 0 /\ account[t].billed = "YES" => account[t].stage = "CLOSED"

(* The receipts of an invoice are finitely many, and it knows their sum. *)
AddsUp == \A i \in Invoices :
    IsFiniteSet(Receipts(i)) /\ invoice[i].received = SumFunctionOnSet(Amounts, Receipts(i))

InvoicingInv ==
    InvoicingTypeOK /\ OneLink /\ LinkInv /\ BilledOnce /\ StatusFollows /\ Closed /\ AddsUp

(* Nothing but a receipt moves what was received. *)
LEMMA SameReceipts ==
    ASSUME AddsUp, UNCHANGED receipt,
           \A i \in Invoices : invoice'[i].received = invoice[i].received
    PROVE  AddsUp'
<1>1. Amounts' = Amounts /\ \A i \in Invoices : Receipts(i)' = Receipts(i)
  BY DEF Amounts, Receipts
<1> QED BY <1>1 DEF AddsUp

(* One receipt more, under a key not used yet, adds its amount.             *)
LEMMA OneReceiptMore ==
    ASSUME InvoicingTypeOK, AddsUp, NEW k \in ReceiptKeys, NEW i \in Invoices, NEW a \in Nat,
           receipt[k] = NoReceipt, receipt' = [receipt EXCEPT ![k] = [invoice |-> i, amount |-> a]],
           invoice'[i].received = invoice[i].received + a,
           \A j \in Invoices : j # i => invoice'[j].received = invoice[j].received
    PROVE  AddsUp'
<1>1. /\ receipt'[k].invoice = i /\ receipt'[k].amount = a /\ receipt[k].invoice = Unset
      /\ \A l \in ReceiptKeys : l # k => receipt'[l] = receipt[l]
      /\ \A l \in ReceiptKeys : receipt[l].amount \in Nat /\ receipt'[l].amount \in Nat
  BY DEF InvoicingTypeOK, ReceiptRow, NoReceipt
<1>2. /\ Receipts(i)' = Receipts(i) \cup {k} /\ k \notin Receipts(i)
      /\ \A j \in Invoices : j # i => Receipts(j)' = Receipts(j) /\ k \notin Receipts(j)
  BY <1>1, UnsetAssumption DEF Receipts
<1>3. \A j \in Invoices : /\ IsFiniteSet(Receipts(j)) /\ Receipts(j) \subseteq ReceiptKeys
                           /\ invoice[j].received = SumFunctionOnSet(Amounts, Receipts(j))
  BY DEF AddsUp, Receipts
<1>4. /\ \A l \in ReceiptKeys : Amounts[l] \in Int /\ Amounts'[l] \in Int
      /\ \A l \in ReceiptKeys : l # k => Amounts'[l] = Amounts[l]
      /\ Amounts'[k] = a
  BY <1>1 DEF Amounts
<1>5. \A j \in Invoices : SumFunctionOnSet(Amounts', Receipts(j)) = SumFunctionOnSet(Amounts, Receipts(j))
  <2> SUFFICES ASSUME NEW j \in Invoices
               PROVE  SumFunctionOnSet(Amounts', Receipts(j)) = SumFunctionOnSet(Amounts, Receipts(j))
    OBVIOUS
  <2>1. \A l \in Receipts(j) : Amounts'[l] = Amounts[l]
    BY <1>1, <1>4, UnsetAssumption DEF Receipts
  <2> QED BY <1>3, <2>1, SumSame
<1>6. IsFiniteSet(Receipts(i) \cup {k})
  BY <1>3, FS_AddElement
<1>7. SumFunctionOnSet(Amounts', Receipts(i) \cup {k}) = a + SumFunctionOnSet(Amounts', Receipts(i))
  <2>1. (Receipts(i) \cup {k}) \ {k} = Receipts(i) /\ \A l \in Receipts(i) \cup {k} : Amounts'[l] \in Int
    BY <1>2, <1>3, <1>4
  <2> QED BY <1>4, <1>6, <2>1, SumWithout
<1>8. SumFunctionOnSet(Amounts, Receipts(i)) \in Int
  BY <1>3, <1>4, SumType
<1>9. invoice'[i].received = SumFunctionOnSet(Amounts', Receipts(i) \cup {k})
  BY <1>3, <1>5, <1>7, <1>8
<1> QED BY <1>2, <1>3, <1>5, <1>6, <1>9 DEF AddsUp

-----------------------------------------------------------------------------
(* What each move of a trip does to its row. *)
LEMMA RowFacts ==
    ASSUME NEW t, NEW r \in AccountRows
    PROVE  /\ /\ Of(t)!Billed(r) \in AccountRows /\ Of(t)!Billed(r).billed = "YES"
              /\ Of(t)!Billed(r).paid = r.paid
              /\ Of(t)!Billed(r).stage = IF r.paid > 0 THEN "CLOSED" ELSE r.stage
           /\ /\ Of(t)!Unbilled(r) \in AccountRows /\ Of(t)!Unbilled(r).billed = "NO"
              /\ r.stage # "OPEN" => Of(t)!Unbilled(r).stage # "OPEN"
           /\ /\ Of(t)!Departed(r) \in AccountRows /\ Of(t)!Departed(r).billed = r.billed
              /\ Of(t)!Departed(r).paid = r.paid /\ Of(t)!Departed(r).stage = "IN_TRANSIT"
           /\ /\ Of(t)!Delivered(r) \in AccountRows /\ Of(t)!Delivered(r).billed = r.billed
              /\ Of(t)!Delivered(r).paid = r.paid /\ Of(t)!Delivered(r).stage = "DELIVERED"
           /\ /\ Of(t)!Forfeited(r) \in AccountRows /\ Of(t)!Forfeited(r).billed = r.billed
              /\ Of(t)!Forfeited(r).paid = r.paid /\ Of(t)!Forfeited(r).stage = "CLOSED"
<1>1. /\ Of(t)!Billed(r) \in AccountRows /\ Of(t)!Billed(r).billed = "YES"
      /\ Of(t)!Billed(r).paid = r.paid
      /\ Of(t)!Billed(r).stage = IF r.paid > 0 THEN "CLOSED" ELSE r.stage
  BY DEF Of!Billed, AccountRows
<1>2. /\ Of(t)!Unbilled(r) \in AccountRows /\ Of(t)!Unbilled(r).billed = "NO"
      /\ r.stage # "OPEN" => Of(t)!Unbilled(r).stage # "OPEN"
  BY DEF Of!Unbilled, AccountRows
<1>3. /\ Of(t)!Departed(r) \in AccountRows /\ Of(t)!Departed(r).billed = r.billed
      /\ Of(t)!Departed(r).paid = r.paid /\ Of(t)!Departed(r).stage = "IN_TRANSIT"
  BY DEF Of!Departed, AccountRows
<1>4. /\ Of(t)!Delivered(r) \in AccountRows /\ Of(t)!Delivered(r).billed = r.billed
      /\ Of(t)!Delivered(r).paid = r.paid /\ Of(t)!Delivered(r).stage = "DELIVERED"
  BY DEF Of!Delivered, AccountRows
<1>5. /\ Of(t)!Forfeited(r) \in AccountRows /\ Of(t)!Forfeited(r).billed = r.billed
      /\ Of(t)!Forfeited(r).paid = r.paid /\ Of(t)!Forfeited(r).stage = "CLOSED"
  BY DEF Of!Forfeited, AccountRows
<1> QED BY <1>1, <1>2, <1>3, <1>4, <1>5

LEMMA PaidFacts ==
    ASSUME NEW t, NEW r \in AccountRows, NEW n \in Nat
    PROVE  /\ Of(t)!Paid(r, n) \in AccountRows /\ Of(t)!Paid(r, n).billed = r.billed
           /\ Of(t)!Paid(r, n).paid = n
           /\ Of(t)!Paid(r, n).stage = IF r.billed = "YES" THEN "CLOSED" ELSE r.stage
  BY DEF Of!Paid, AccountRows

(* A move of one trip from outside: no trip is billed or unbilled, and one  *)
(* on the road stays there.                                                 *)
Untouched ==
    /\ account' \in [Trips -> AccountRows] /\ UNCHANGED <<invoice, link, receipt>>
    /\ \A t \in Trips : /\ account'[t].billed = account[t].billed
                        /\ account[t].stage # "OPEN" => account'[t].stage # "OPEN"
    /\ Closed' /\ AccountStep

LEMMA MovesFacts ==
    ASSUME InvoicingTypeOK, Closed, NEW t \in Trips, NEW row \in AccountRows, Moves(t, row),
           row.billed = account[t].billed,
           account[t].stage # "OPEN" => row.stage # "OPEN",
           row.paid > 0 /\ row.billed = "YES" => row.stage = "CLOSED",
           account'[t] = row => Of(t)!Next
    PROVE  Untouched
<1>1. account \in [Trips -> AccountRows] BY DEF InvoicingTypeOK, AccountRows
<1>2. /\ account' \in [Trips -> AccountRows] /\ account'[t] = row
      /\ \A u \in Trips : u # t => account'[u] = account[u]
      /\ UNCHANGED <<invoice, link, receipt>>
  BY <1>1 DEF Moves
<1>3. \A u \in Trips : account'[u].billed = account[u].billed
                       /\ (account[u].stage # "OPEN" => account'[u].stage # "OPEN")
  BY <1>2
<1>4. Closed' BY <1>2 DEF Closed
<1>5. AccountStep BY <1>2 DEF AccountStep
<1> QED BY <1>2, <1>3, <1>4, <1>5 DEF Untouched

Elsewhere == \E t \in Trips : Depart(t) \/ Arrive(t) \/ Lapse(t)
                            \/ \E n \in Balances : PayBalance(t, n)

LEMMA OutsideFacts == ASSUME InvoicingTypeOK, Closed, Elsewhere PROVE Untouched
<1>1. ASSUME NEW t \in Trips, Depart(t) PROVE Untouched
  <2> DEFINE row == Of(t)!Departed(account[t])
  <2>1. account[t] \in AccountRows BY DEF InvoicingTypeOK, AccountRows
  <2>2. /\ row \in AccountRows /\ row.billed = account[t].billed
        /\ row.paid = account[t].paid /\ row.stage = "IN_TRANSIT"
    BY <2>1, RowFacts
  <2>3. account'[t] = row => Of(t)!Next BY <1>1 DEF Depart, Of!Next, Of!Depart
  <2>4. Moves(t, row) /\ account[t].stage = "OPEN" BY <1>1 DEF Depart
  <2> HIDE DEF row
  <2> QED BY <2>2, <2>3, <2>4, MovesFacts DEF Closed
<1>2. ASSUME NEW t \in Trips, Arrive(t) PROVE Untouched
  <2> DEFINE row == Of(t)!Delivered(account[t])
  <2>1. account[t] \in AccountRows BY DEF InvoicingTypeOK, AccountRows
  <2>2. /\ row \in AccountRows /\ row.billed = account[t].billed
        /\ row.paid = account[t].paid /\ row.stage = "DELIVERED"
    BY <2>1, RowFacts
  <2>3. account'[t] = row => Of(t)!Next BY <1>2 DEF Arrive, Of!Next, Of!Deliver
  <2>4. Moves(t, row) /\ account[t].stage = "IN_TRANSIT" BY <1>2 DEF Arrive
  <2> HIDE DEF row
  <2> QED BY <2>2, <2>3, <2>4, MovesFacts DEF Closed
<1>3. ASSUME NEW t \in Trips, Lapse(t) PROVE Untouched
  <2> DEFINE row == Of(t)!Forfeited(account[t])
  <2>1. account[t] \in AccountRows BY DEF InvoicingTypeOK, AccountRows
  <2>2. row \in AccountRows /\ row.billed = account[t].billed /\ row.stage = "CLOSED"
    BY <2>1, RowFacts
  <2>3. account'[t] = row => Of(t)!Next BY <1>3 DEF Lapse, Of!Next, Of!Lapse
  <2>4. Moves(t, row) BY <1>3 DEF Lapse
  <2> HIDE DEF row
  <2> QED BY <2>2, <2>3, <2>4, MovesFacts
<1>4. ASSUME NEW t \in Trips, NEW n \in Balances, PayBalance(t, n) PROVE Untouched
  <2> DEFINE row == Of(t)!Paid(account[t], n)
  <2>1. account[t] \in AccountRows /\ n \in Nat
    BY AmountsAssumption DEF InvoicingTypeOK, AccountRows
  <2>2. /\ row \in AccountRows /\ row.billed = account[t].billed /\ row.paid = n
        /\ row.stage = IF account[t].billed = "YES" THEN "CLOSED" ELSE account[t].stage
    BY <2>1, PaidFacts
  <2>3. account'[t] = row => Of(t)!Next
    BY <1>4, <2>1, <2>2 DEF PayBalance, Of!Next, Of!Pay
  <2>4. Moves(t, row) BY <1>4 DEF PayBalance
  <2> HIDE DEF row
  <2> QED BY <2>2, <2>3, <2>4, MovesFacts
<1> QED BY <1>1, <1>2, <1>3, <1>4 DEF Elsewhere

-----------------------------------------------------------------------------
(* Each handler keeps the invariant, moves trips as TripAccount allows, and *)
(* leaves an issued invoice its trips.                                      *)
Keeps == InvoicingInv' /\ AccountStep /\ IssuedStays

LEMMA OutsideStep == ASSUME InvoicingInv, Elsewhere PROVE Keeps
<1>1. Untouched BY OutsideFacts DEF InvoicingInv
<1>2. /\ UNCHANGED <<invoice, link, receipt>> /\ AccountStep /\ Closed'
      /\ account' \in [Trips -> AccountRows]
  BY <1>1 DEF Untouched
<1>3. InvoicingTypeOK' BY <1>2 DEF InvoicingInv, InvoicingTypeOK, AccountRows
<1>4. OneLink' /\ StatusFollows' /\ IssuedStays
  BY <1>2 DEF InvoicingInv, OneLink, StatusFollows, IssuedStays, TripsOf
<1>5. LinkInv' BY <1>1, <1>2 DEF Untouched, InvoicingInv, LinkInv
<1>6. BilledOnce' BY <1>1, <1>2 DEF Untouched, InvoicingInv, BilledOnce, Issued
<1>7. AddsUp' BY <1>2, SameReceipts DEF InvoicingInv
<1> QED BY <1>2, <1>3, <1>4, <1>5, <1>6, <1>7 DEF Keeps, InvoicingInv

LEMMA CreateStep ==
    ASSUME InvoicingInv, NEW i \in Invoices, NEW ts \in SUBSET Trips, NEW n \in Totals, Create(i, ts, n)
    PROVE  Keeps
<1> DEFINE row == [NoInvoice EXCEPT !.status = "DRAFT", !.total = n]
<1>1. n \in Nat BY AmountsAssumption
<1>2. /\ row \in InvoiceRow /\ row.status = "DRAFT" /\ row.total = n /\ row.received = 0
  BY <1>1 DEF NoInvoice, InvoiceRow, Status
<1>3. /\ invoice' = [invoice EXCEPT ![i] = row] /\ link' = link \cup ({i} \X ts)
      /\ UNCHANGED <<account, receipt>>
      /\ invoice[i].status = "NONE" /\ \A t \in ts : Billable(t)
      /\ Linkable(i, ts)
  BY DEF Create
<1> HIDE DEF row
<1>4. /\ invoice \in [Invoices -> InvoiceRow] /\ invoice' \in [Invoices -> InvoiceRow]
      /\ invoice'[i] = row /\ \A j \in Invoices : j # i => invoice'[j] = invoice[j]
  BY <1>2, <1>3 DEF InvoicingInv, InvoicingTypeOK
<1>5. InvoicingTypeOK' BY <1>3, <1>4 DEF InvoicingInv, InvoicingTypeOK
<1>6. \A t \in Trips : \A j \in Invoices :
         <<j, t>> \in link' <=> (<<j, t>> \in link \/ (j = i /\ t \in ts))
  BY <1>3
<1>7. \A t \in Trips : <<i, t>> \notin link BY <1>3 DEF InvoicingInv, LinkInv
<1>8. OneLink' BY <1>3, <1>6, <1>7 DEF InvoicingInv, OneLink, Linkable
<1>9. LinkInv'
  BY <1>2, <1>3, <1>4, <1>6 DEF InvoicingInv, LinkInv, Billable, Of!OnRoad
<1>10. BilledOnce'
  BY <1>2, <1>3, <1>4, <1>6, <1>7 DEF InvoicingInv, BilledOnce, Issued
<1>11. StatusFollows' BY <1>1, <1>2, <1>4 DEF InvoicingInv, StatusFollows
<1>12. Closed' /\ AccountStep BY <1>3 DEF InvoicingInv, Closed, AccountStep
<1>13. IssuedStays BY <1>3, <1>4, <1>6 DEF IssuedStays, TripsOf
<1>14. invoice[i].received = 0 BY <1>3 DEF InvoicingInv, StatusFollows
<1>15. AddsUp' BY <1>2, <1>3, <1>4, <1>14, SameReceipts DEF InvoicingInv
<1> QED BY <1>5, <1>8, <1>9, <1>10, <1>11, <1>12, <1>13, <1>15 DEF Keeps, InvoicingInv

LEMMA UpdateStep ==
    ASSUME InvoicingInv, NEW i \in Invoices, NEW ts \in SUBSET Trips, NEW n \in Totals, Update(i, ts, n)
    PROVE  Keeps
<1> DEFINE row == [invoice[i] EXCEPT !.total = n]
<1>1. n \in Nat BY AmountsAssumption
<1>2. invoice \in [Invoices -> InvoiceRow] /\ invoice[i] \in InvoiceRow
  BY DEF InvoicingInv, InvoicingTypeOK
<1>3. /\ row \in InvoiceRow /\ row.status = invoice[i].status /\ row.total = n
      /\ row.received = invoice[i].received
  BY <1>1, <1>2 DEF InvoiceRow
<1>4. /\ invoice' = [invoice EXCEPT ![i] = row] /\ UNCHANGED <<account, receipt>>
      /\ invoice[i].status \notin {"NONE", "CANCELLED"} /\ invoice[i].received = 0
      /\ \/ ts = TripsOf(i) /\ UNCHANGED link
         \/ /\ ts # TripsOf(i) /\ Relinkable(i, ts) /\ Linkable(i, ts)
            /\ link' = {l \in link : l[1] # i} \cup ({i} \X ts)
  BY DEF Update, Editable
<1> HIDE DEF row
<1>5. /\ invoice' \in [Invoices -> InvoiceRow]
      /\ invoice'[i] = row /\ \A j \in Invoices : j # i => invoice'[j] = invoice[j]
      /\ \A j \in Invoices : invoice'[j].status = invoice[j].status
  BY <1>2, <1>3, <1>4
<1>6. /\ \A t \in Trips : \A j \in Invoices :
            <<j, t>> \in link' <=> ((j # i /\ <<j, t>> \in link) \/ (j = i /\ t \in ts))
      /\ link' \subseteq Invoices \X Trips
      /\ ts = TripsOf(i) \/ (invoice[i].status = "DRAFT" /\ Relinkable(i, ts))
      /\ \A t \in ts : \A j \in Invoices : j # i => <<j, t>> \notin link
  <2>0. link \subseteq Invoices \X Trips BY DEF InvoicingInv, InvoicingTypeOK
  <2>1. CASE ts = TripsOf(i) /\ UNCHANGED link
    BY <2>0, <2>1 DEF TripsOf, InvoicingInv, OneLink
  <2>2. CASE /\ ts # TripsOf(i) /\ Relinkable(i, ts) /\ Linkable(i, ts)
             /\ link' = {l \in link : l[1] # i} \cup ({i} \X ts)
    BY <2>0, <2>2 DEF Relinkable, Linkable
  <2> QED BY <1>4, <2>1, <2>2
<1>7. InvoicingTypeOK' BY <1>4, <1>5, <1>6 DEF InvoicingInv, InvoicingTypeOK
<1>8. OneLink' BY <1>6 DEF InvoicingInv, OneLink
<1>9. LinkInv'
  BY <1>4, <1>5, <1>6 DEF InvoicingInv, LinkInv, Relinkable, Of!OnRoad, TripsOf
<1>10. BilledOnce'
  BY <1>4, <1>5, <1>6 DEF InvoicingInv, BilledOnce, Issued, TripsOf
<1>11. StatusFollows' BY <1>1, <1>3, <1>4, <1>5 DEF InvoicingInv, StatusFollows
<1>12. Closed' /\ AccountStep BY <1>4 DEF InvoicingInv, Closed, AccountStep
<1>13. IssuedStays
  BY <1>5, <1>6 DEF IssuedStays, TripsOf
<1>14. AddsUp' BY <1>3, <1>4, <1>5, SameReceipts DEF InvoicingInv
<1> QED BY <1>7, <1>8, <1>9, <1>10, <1>11, <1>12, <1>13, <1>14 DEF Keeps, InvoicingInv

LEMMA GenerateStep ==
    ASSUME InvoicingInv, NEW i \in Invoices, Generate(i) PROVE Keeps
<1> DEFINE row == [invoice[i] EXCEPT !.status = "ISSUED"]
<1>1. invoice \in [Invoices -> InvoiceRow] /\ invoice[i] \in InvoiceRow
  BY DEF InvoicingInv, InvoicingTypeOK
<1>2. /\ row \in InvoiceRow /\ row.status = "ISSUED" /\ row.total = invoice[i].total
      /\ row.received = invoice[i].received
  BY <1>1 DEF InvoiceRow, Status
<1>3. /\ invoice' = [invoice EXCEPT ![i] = row] /\ UNCHANGED <<link, receipt>>
      /\ invoice[i].status = "DRAFT"
  BY DEF Generate
<1> HIDE DEF row
<1>4. /\ invoice' \in [Invoices -> InvoiceRow]
      /\ invoice'[i] = row /\ \A j \in Invoices : j # i => invoice'[j] = invoice[j]
  BY <1>1, <1>2, <1>3
<1>5. \A t \in Trips :
         /\ account[t] \in AccountRows /\ account'[t] \in AccountRows
         /\ <<i, t>> \in link => /\ account'[t] = Of(t)!Billed(account[t])
                                 /\ account'[t].billed = "YES" /\ account'[t].paid = account[t].paid
                                 /\ account'[t].stage = IF account[t].paid > 0 THEN "CLOSED"
                                                        ELSE account[t].stage
         /\ <<i, t>> \notin link => account'[t] = account[t]
  BY RowFacts DEF Generate, TripsOf, InvoicingInv, InvoicingTypeOK, AccountRows
<1>6. account' \in [Trips -> AccountRows] BY <1>5 DEF Generate
<1>7. InvoicingTypeOK' BY <1>3, <1>4, <1>6 DEF InvoicingInv, InvoicingTypeOK, AccountRows
<1>8. OneLink' BY <1>3 DEF InvoicingInv, OneLink
<1>9. LinkInv' BY <1>2, <1>3, <1>4, <1>5 DEF InvoicingInv, LinkInv
<1>10. \A t \in Trips : <<i, t>> \in link =>
         \A j \in Invoices : <<j, t>> \in link => j = i
  BY DEF InvoicingInv, OneLink
<1>11. BilledOnce' BY <1>2, <1>3, <1>4, <1>5, <1>8, <1>10 DEF InvoicingInv, BilledOnce, OneLink, Issued
<1>12. StatusFollows' BY <1>2, <1>3, <1>4 DEF InvoicingInv, StatusFollows
<1>13. Closed' BY <1>5 DEF InvoicingInv, Closed
<1>14. \A t \in Trips : <<i, t>> \in link => Of(t)!Next
  <2>1. ASSUME NEW t \in Trips, <<i, t>> \in link
        PROVE  account[t].stage # "OPEN" /\ account[t].billed = "NO"
    BY <1>3, <1>5, <1>10, <2>1 DEF InvoicingInv, LinkInv, BilledOnce, Issued, AccountRows
  <2> QED BY <1>5, <2>1 DEF Of!Next, Of!Bill, Of!OnRoad
<1>15. AccountStep BY <1>5, <1>14 DEF AccountStep
<1>16. IssuedStays BY <1>2, <1>3, <1>4 DEF IssuedStays, TripsOf
<1>17. AddsUp' BY <1>2, <1>3, <1>4, SameReceipts DEF InvoicingInv
<1> QED BY <1>7, <1>8, <1>9, <1>11, <1>12, <1>13, <1>15, <1>16, <1>17 DEF Keeps, InvoicingInv

LEMMA CancelStep ==
    ASSUME InvoicingInv, NEW i \in Invoices, Cancel(i) PROVE Keeps
<1> DEFINE row == [invoice[i] EXCEPT !.status = "CANCELLED"]
<1>1. invoice \in [Invoices -> InvoiceRow] /\ invoice[i] \in InvoiceRow
  BY DEF InvoicingInv, InvoicingTypeOK
<1>2. /\ row \in InvoiceRow /\ row.status = "CANCELLED" /\ row.total = invoice[i].total
      /\ row.received = invoice[i].received
  BY <1>1 DEF InvoiceRow, Status
<1>3. /\ invoice' = [invoice EXCEPT ![i] = row] /\ UNCHANGED <<link, receipt>>
      /\ invoice[i].status \notin {"NONE", "CANCELLED"}
      /\ account' = GivesBack(i)
  BY DEF Cancel
<1> HIDE DEF row
<1>4. /\ invoice' \in [Invoices -> InvoiceRow]
      /\ invoice'[i] = row /\ \A j \in Invoices : j # i => invoice'[j] = invoice[j]
  BY <1>1, <1>2, <1>3
<1>5. Issued(i) <=> invoice[i].status # "DRAFT"
  BY <1>1, <1>3 DEF Issued, InvoiceRow, Status
<1>6. \A t \in Trips :
         /\ account[t] \in AccountRows /\ account'[t] \in AccountRows
         /\ <<i, t>> \in link /\ Issued(i) =>
               /\ account'[t] = Of(t)!Unbilled(account[t]) /\ account'[t].billed = "NO"
               /\ account[t].stage # "OPEN" => account'[t].stage # "OPEN"
         /\ ~ (<<i, t>> \in link /\ Issued(i)) => account'[t] = account[t]
  BY <1>3, <1>5, RowFacts DEF GivesBack, TripsOf, InvoicingInv, InvoicingTypeOK, AccountRows
<1>7. account' \in [Trips -> AccountRows] BY <1>3, <1>6 DEF GivesBack
<1>8. InvoicingTypeOK' BY <1>3, <1>4, <1>7 DEF InvoicingInv, InvoicingTypeOK, AccountRows
<1>9. OneLink' BY <1>3 DEF InvoicingInv, OneLink
<1>10. LinkInv' BY <1>2, <1>3, <1>4, <1>6 DEF InvoicingInv, LinkInv
<1>11. \A t \in Trips : <<i, t>> \in link =>
          \A j \in Invoices : <<j, t>> \in link => j = i
  BY DEF InvoicingInv, OneLink
<1>12. BilledOnce'
  <2>1. ~Issued(i)' /\ \A j \in Invoices : j # i => (Issued(j)' <=> Issued(j))
    BY <1>2, <1>4 DEF Issued
  <2>2. ASSUME NEW t \in Trips
        PROVE  account'[t].billed = "YES" <=> \E j \in Invoices : <<j, t>> \in link' /\ Issued(j)'
    <3>1. account[t].billed = "YES" <=> \E j \in Invoices : <<j, t>> \in link /\ Issued(j)
      BY DEF InvoicingInv, BilledOnce
    <3>2. CASE <<i, t>> \in link /\ Issued(i) BY <1>3, <1>6, <1>11, <2>1, <3>2
    <3>3. CASE ~ (<<i, t>> \in link /\ Issued(i)) BY <1>3, <1>6, <2>1, <3>1, <3>3
    <3> QED BY <3>2, <3>3
  <2> QED BY <1>9, <2>2 DEF BilledOnce, OneLink
<1>13. StatusFollows' BY <1>2, <1>3, <1>4 DEF InvoicingInv, StatusFollows
<1>14. Closed' BY <1>6 DEF InvoicingInv, Closed
<1>15. \A t \in Trips : <<i, t>> \in link /\ Issued(i) => Of(t)!Next
  BY <1>6 DEF InvoicingInv, BilledOnce, Of!Next, Of!Unbill
<1>16. AccountStep BY <1>6, <1>15 DEF AccountStep
<1>17. IssuedStays BY <1>2, <1>3, <1>4 DEF IssuedStays, TripsOf
<1>18. AddsUp' BY <1>2, <1>3, <1>4, SameReceipts DEF InvoicingInv
<1> QED BY <1>8, <1>9, <1>10, <1>12, <1>13, <1>14, <1>16, <1>17, <1>18 DEF Keeps, InvoicingInv

LEMMA ReceiptStep ==
    ASSUME InvoicingInv, NEW k \in ReceiptKeys, NEW i \in Invoices, NEW a \in 1..invoice[i].total,
           RecordReceipt(k, i, a)
    PROVE  Keeps
<1> DEFINE received == invoice[i].received + a
           row == [invoice[i] EXCEPT !.received = received,
                     !.status = IF received >= invoice[i].total THEN "PAID" ELSE "PART_PAID"]
<1>1. invoice \in [Invoices -> InvoiceRow] /\ invoice[i] \in InvoiceRow
  BY DEF InvoicingInv, InvoicingTypeOK
<1>2. invoice[i].received \in Nat /\ invoice[i].total \in Nat BY <1>1 DEF InvoiceRow
<1>3. a \in Nat /\ a > 0 /\ received \in Nat /\ received > 0 BY <1>2
<1>4. received <= invoice[i].total BY DEF RecordReceipt
<1>5. /\ invoice' = [invoice EXCEPT ![i] = row] /\ UNCHANGED <<account, link>>
      /\ receipt' = [receipt EXCEPT ![k] = [invoice |-> i, amount |-> a]]
      /\ invoice[i].status \notin {"NONE", "DRAFT", "CANCELLED"}
  BY DEF RecordReceipt
<1> HIDE DEF received
<1>6. /\ row \in InvoiceRow /\ row.status \in {"PAID", "PART_PAID"}
      /\ row.total = invoice[i].total /\ row.received = received
      /\ row.status = IF received >= invoice[i].total THEN "PAID" ELSE "PART_PAID"
  BY <1>1, <1>3 DEF InvoiceRow, Status
<1> HIDE DEF row
<1>7. /\ invoice' \in [Invoices -> InvoiceRow]
      /\ invoice'[i] = row /\ \A j \in Invoices : j # i => invoice'[j] = invoice[j]
  BY <1>1, <1>5, <1>6
<1>8. [invoice |-> i, amount |-> a] \in ReceiptRow BY <1>3 DEF ReceiptRow
<1>9. InvoicingTypeOK' BY <1>5, <1>7, <1>8 DEF InvoicingInv, InvoicingTypeOK
<1>10. OneLink' /\ Closed' /\ AccountStep
  BY <1>5 DEF InvoicingInv, OneLink, Closed, AccountStep
<1>11. LinkInv' BY <1>5, <1>6, <1>7 DEF InvoicingInv, LinkInv
<1>12. /\ Issued(i) /\ Issued(i)'
       /\ \A j \in Invoices : Issued(j)' <=> Issued(j)
  BY <1>1, <1>5, <1>6, <1>7 DEF Issued, InvoiceRow, Status
<1>13. BilledOnce' BY <1>5, <1>12 DEF InvoicingInv, BilledOnce
<1>14. received >= invoice[i].total => received = invoice[i].total
  BY <1>2, <1>3, <1>4
<1>15. ~ (received >= invoice[i].total) => received \in 1..(invoice[i].total - 1)
  BY <1>2, <1>3
<1>16. StatusFollows'
  BY <1>3, <1>4, <1>6, <1>7, <1>14, <1>15 DEF InvoicingInv, StatusFollows
<1>17. IssuedStays BY <1>5, <1>6, <1>7 DEF IssuedStays, TripsOf
<1>18. AddsUp'
  <2>1. receipt[k] = NoReceipt BY DEF RecordReceipt
  <2>2. invoice'[i].received = invoice[i].received + a BY <1>6, <1>7 DEF received
  <2> QED BY <1>3, <1>5, <1>7, <2>1, <2>2, OneReceiptMore DEF InvoicingInv
<1> QED BY <1>9, <1>10, <1>11, <1>13, <1>16, <1>17, <1>18 DEF Keeps, InvoicingInv

-----------------------------------------------------------------------------
LEMMA InvoicingInductiveInit == InvoicingInit => InvoicingInv
<1> SUFFICES ASSUME InvoicingInit PROVE InvoicingInv OBVIOUS
<1>1. /\ InvoicingTypeOK /\ OneLink /\ LinkInv /\ BilledOnce /\ StatusFollows /\ Closed
  BY DEF InvoicingInit, InvoicingTypeOK, AccountRows, OneLink, LinkInv, BilledOnce, Issued,
         StatusFollows, Closed, InvoiceRow, ReceiptRow, NoInvoice, NoReceipt, Status
<1>2. \A i \in Invoices : Receipts(i) = {} /\ invoice[i].received = 0
  BY UnsetAssumption DEF InvoicingInit, Receipts, NoReceipt, NoInvoice
<1>3. IsFiniteSet({}) /\ SumFunctionOnSet(Amounts, {}) = 0
  BY FS_EmptySet, SumDefined
<1>4. AddsUp BY <1>2, <1>3 DEF AddsUp
<1> QED BY <1>1, <1>4 DEF InvoicingInv

LEMMA InvoicingStep == InvoicingInv /\ [InvoicingNext]_books => Keeps
<1>1. ASSUME InvoicingInv, InvoicingNext PROVE Keeps
  BY <1>1, CreateStep, UpdateStep, GenerateStep, CancelStep, ReceiptStep, OutsideStep
  DEF InvoicingNext, Elsewhere
<1>2. ASSUME InvoicingInv, UNCHANGED books PROVE Keeps
  <2>1. AddsUp' BY <1>2, SameReceipts DEF books, InvoicingInv
  <2> QED BY <1>2, <2>1 DEF books, Keeps, InvoicingInv, InvoicingTypeOK, OneLink, LinkInv, BilledOnce,
                            Issued, StatusFollows, Closed, AccountStep, IssuedStays, TripsOf
<1> QED BY <1>1, <1>2

LEMMA InvoicingInductive == InvoicingSpec => []InvoicingInv
<1>1. InvoicingInv /\ [InvoicingNext]_books => InvoicingInv' BY InvoicingStep DEF Keeps
<1> QED BY InvoicingInductiveInit, <1>1, PTL DEF InvoicingSpec

(* Every handler leaves trips, invoices, links and receipts well formed. *)
THEOREM InvoicingTypeCorrect == InvoicingSpec => []InvoicingTypeOK
<1>1. InvoicingInv => InvoicingTypeOK BY DEF InvoicingInv
<1> QED BY InvoicingInductive, <1>1, PTL

(* generate and cancel mark and unmark the trips of their invoice and of no *)
(* other: a trip is billed exactly while one issued invoice lists it.       *)
THEOREM OneInvoiceToATrip == InvoicingSpec => []BilledOnce
<1>1. InvoicingInv => BilledOnce BY DEF InvoicingInv
<1> QED BY InvoicingInductive, <1>1, PTL

(* update and recordReceipt together never leave an invoice with a received *)
(* figure its receipts do not come to, with more received than its total,   *)
(* or with a status its money does not bear out.                            *)
THEOREM MoneyReceived == InvoicingSpec => []ReceiptsAddUp
<1>1. InvoicingInv => ReceiptsAddUp BY DEF InvoicingInv, AddsUp, ReceiptsAddUp
<1> QED BY InvoicingInductive, <1>1, PTL

(* The trips of an issued invoice stay: those marked are those given back. *)
THEOREM IssuedIsLocked == InvoicingSpec => LockedOnceIssued
<1>1. InvoicingInv /\ [InvoicingNext]_books => [IssuedStays]_books BY InvoicingStep DEF Keeps
<1>2. LockedOnceIssued <=> [][IssuedStays]_books BY PTL DEF LockedOnceIssued, IssuedStays
<1> QED BY InvoicingInductive, <1>1, <1>2, PTL DEF InvoicingSpec

(* Whatever Invoicing does to a trip is a step of TripAccount or none. *)
THEOREM InvoicingImplementsTripAccount == InvoicingSpec => KeepsAccounts
<1>1. InvoicingInv /\ [InvoicingNext]_books => [AccountStep]_account BY InvoicingStep DEF Keeps
<1>2. KeepsAccounts <=> [][AccountStep]_account BY PTL DEF KeepsAccounts, AccountStep
<1> QED BY InvoicingInductive, <1>1, <1>2, PTL DEF InvoicingSpec
=============================================================================
