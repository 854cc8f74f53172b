---------------------------- MODULE AwardProofs ----------------------------
(***************************************************************************)
(* Award for any number of transporters, quotes, trips and amounts: the     *)
(* type invariant, one live quote per transporter, one consistent story of  *)
(* load, quotes and trip as long as no portal quote comes late, and an      *)
(* advance that stays with the transporter it was paid to.                  *)
(***************************************************************************)
EXTENDS Award, TLAPS

Live == {"SUBMITTED", "ACCEPTED", "REJECTED"}

(* Rows that exist are complete; ids not yet handed out are blank. *)
RowsComplete ==
    /\ \A q \in Quotes : quote[q].status # "NONE" => quote[q].vendor \in Vendors
                                                     /\ quote[q].amount \in Amounts
    /\ \A t \in Trips : /\ trip[t].stage # "NONE" => trip[t].vendor \in Vendors
                        /\ trip[t].stage = "NONE" => trip[t].advance = 0
    /\ indent.awarded # None => quote[indent.awarded].status # "NONE"

IInv == TypeOK /\ RowsComplete /\ OneLiveQuotePerVendor /\ ConsistentUnlessLateQuote
               /\ AdvanceSecured

-----------------------------------------------------------------------------
(* The advance, rounded to the paisa, is never more than the rate. *)
LEMMA AdvanceWithinRate ==
    ASSUME NEW r \in Nat
    PROVE  AdvanceOn(r) \in Nat /\ AdvanceOn(r) <= r
<1> DEFINE x == r * AdvancePct
<1>1. x \in Nat /\ x <= 100 * r
  BY AdvancePctAssumption, SMT
<1>2. \A y \in Nat : y <= 100 * r => (y + 50) \div 100 \in Nat /\ (y + 50) \div 100 <= r
  BY SMT
<1> QED BY <1>1, <1>2 DEF AdvanceOn

(* A quote is inserted only for a transporter with none in play, so the     *)
(* desk and the portal keep one live quote per transporter.                 *)
LEMMA InsertKeepsRows ==
    ASSUME TypeOK, RowsComplete, OneLiveQuotePerVendor,
           NEW v \in Vendors, NEW q \in Quotes, NEW a \in Amounts, InsertQuote(v, q, a)
    PROVE  /\ quote' \in [Quotes -> QuoteRow]
           /\ OneLiveQuotePerVendor'
           /\ \A p \in Quotes : quote'[p].status # "NONE" => quote'[p].vendor \in Vendors
                                                             /\ quote'[p].amount \in Amounts
           /\ \A p \in Quotes \ {q} : quote'[p] = quote[p]
           /\ quote'[q].status = "SUBMITTED"
<1>1. a \in Nat BY AmountsAssumption
<1>2. \A p \in Quotes : quote[p].vendor = v => quote[p].status \notin Live
  BY DEF InsertQuote, LiveQuotes, Live
<1> QED
  BY <1>1, <1>2 DEF InsertQuote, TypeOK, RowsComplete, OneLiveQuotePerVendor, QuoteStatus, QuoteRow, Live


-----------------------------------------------------------------------------
(* The rows an award writes. *)
LEMMA AwardRows ==
    ASSUME TypeOK, RowsComplete, NEW q \in Quotes, ApplyAward(q)
    PROVE  /\ quote[q].vendor \in Vendors /\ quote[q].amount \in Nat
           /\ indent' = [stage |-> "TRIP_CREATED", vendor |-> quote[q].vendor,
                         awarded |-> q, rate |-> quote[q].amount]
           /\ quote' \in [Quotes -> QuoteRow]
           /\ quote'[q].status = "ACCEPTED"
           /\ \A p \in Quotes : /\ quote'[p].vendor = quote[p].vendor
                                /\ quote'[p].amount = quote[p].amount
                                /\ p # q /\ quote[p].status = "SUBMITTED"
                                      => quote'[p].status = "REJECTED"
                                /\ p # q /\ quote[p].status # "SUBMITTED"
                                      => quote'[p].status = quote[p].status
           /\ \E t \in Trips :
                 /\ IF SetAside # {} THEN t \in SetAside ELSE trip[t].stage = "NONE"
                 /\ trip' \in [Trips -> TripRow]
                 /\ trip'[t].stage = "OPEN"
                 /\ trip'[t].vendor = quote[q].vendor /\ trip'[t].rate = quote[q].amount
                 /\ trip'[t].advance = trip[t].advance /\ trip'[t].paidTo = trip[t].paidTo
                 /\ \A s \in Trips \ {t} : trip'[s] = trip[s]
<1>1. quote[q].vendor \in Vendors /\ quote[q].amount \in Nat
  BY AmountsAssumption DEF ApplyAward, Awardable, RowsComplete, TypeOK
<1>2. quote' \in [Quotes -> QuoteRow]
  BY DEF ApplyAward, TypeOK, QuoteStatus, QuoteRow
<1>3. PICK t \in Trips : AwardTrip(t, q)
  BY DEF ApplyAward
<1>4. /\ trip' \in [Trips -> TripRow]
      /\ trip'[t].stage = "OPEN"
      /\ trip'[t].vendor = quote[q].vendor /\ trip'[t].rate = quote[q].amount
      /\ trip'[t].advance = trip[t].advance /\ trip'[t].paidTo = trip[t].paidTo
      /\ \A s \in Trips \ {t} : trip'[s] = trip[s]
  <2> DEFINE row == [trip[t] EXCEPT !.stage = "OPEN", !.vendor = quote[q].vendor,
                                    !.rate = quote[q].amount]
  <2>1. trip' = [trip EXCEPT ![t] = row] BY <1>3 DEF AwardTrip
  <2>2. trip[t] \in TripRow BY DEF TypeOK
  <2>3. /\ row \in TripRow /\ row.stage = "OPEN"
        /\ row.vendor = quote[q].vendor /\ row.rate = quote[q].amount
        /\ row.advance = trip[t].advance /\ row.paidTo = trip[t].paidTo
    BY <1>1, <2>2 DEF TripRow, TripStage
  <2> HIDE DEF row
  <2> QED BY <2>1, <2>3 DEF TypeOK
<1>5. IF SetAside # {} THEN t \in SetAside ELSE trip[t].stage = "NONE"
  BY <1>3 DEF AwardTrip
<1>6. /\ quote'[q].status = "ACCEPTED"
      /\ \A p \in Quotes : /\ quote'[p].vendor = quote[p].vendor
                           /\ quote'[p].amount = quote[p].amount
                           /\ p # q /\ quote[p].status = "SUBMITTED"
                                 => quote'[p].status = "REJECTED"
                           /\ p # q /\ quote[p].status # "SUBMITTED"
                                 => quote'[p].status = quote[p].status
  BY DEF ApplyAward, TypeOK, QuoteRow
<1> QED BY <1>1, <1>2, <1>4, <1>5, <1>6 DEF ApplyAward

-----------------------------------------------------------------------------
(* The awarded quote of the load, where there is one, is a row id. *)
LEMMA AwardedIsQuote ==
    ASSUME TypeOK PROVE indent.awarded # None => indent.awarded \in Quotes
  BY DEF TypeOK, IndentRow

(* Types and complete rows survive every step. *)
LEMMA TypeStep ==
    ASSUME TypeOK, RowsComplete, OneLiveQuotePerVendor, [Next]_vars
    PROVE  TypeOK' /\ RowsComplete'
<1>1. ASSUME NEW v \in Vendors, PortalCheck(v) PROVE TypeOK' /\ RowsComplete'
  BY <1>1 DEF PortalCheck, TypeOK, RowsComplete
<1>2. ASSUME NEW v \in Vendors, PortalAbort(v) PROVE TypeOK' /\ RowsComplete'
  BY <1>2 DEF PortalAbort, TypeOK, RowsComplete
<1>3. ASSUME NEW v \in Vendors, ChangeStanding(v) PROVE TypeOK' /\ RowsComplete'
  BY <1>3 DEF ChangeStanding, TypeOK, RowsComplete, Standing
<1>4. ASSUME NEW v \in Vendors, NEW q \in Quotes, NEW a \in Amounts, RecordQuote(v, q, a) PROVE TypeOK' /\ RowsComplete'
  BY <1>4, InsertKeepsRows, AwardedIsQuote DEF RecordQuote, TypeOK, RowsComplete
<1>5. ASSUME NEW v \in Vendors, NEW q \in Quotes, NEW a \in Amounts, PortalInsert(v, q, a) PROVE TypeOK' /\ RowsComplete'
  BY <1>5, InsertKeepsRows, AwardedIsQuote DEF PortalInsert, TypeOK, RowsComplete
<1>6. ASSUME NEW q \in Quotes, WithdrawQuote(q) PROVE TypeOK' /\ RowsComplete'
  BY <1>6 DEF WithdrawQuote, TypeOK, RowsComplete, QuoteRow, QuoteStatus, TripRow, TripStage
<1>7. ASSUME NEW q \in Quotes, RemoveQuote(q) PROVE TypeOK' /\ RowsComplete'
  BY <1>7 DEF RemoveQuote, TypeOK, RowsComplete, QuoteRow, QuoteStatus, TripRow, TripStage
<1>8. ASSUME NEW q \in Quotes, NEW a \in Amounts, CorrectQuote(q, a) PROVE TypeOK' /\ RowsComplete'
  <2>1. quote' \in [Quotes -> QuoteRow] /\ quote'[q].amount = a
        /\ \A p \in Quotes : /\ quote'[p].vendor = quote[p].vendor
                             /\ p # q => quote'[p].amount = quote[p].amount
                             /\ quote'[p].status = quote[p].status
    BY <1>8, AmountsAssumption DEF CorrectQuote, TypeOK, QuoteRow
  <2>2. trip' \in [Trips -> TripRow]
        /\ \A s \in Trips : /\ trip'[s].vendor = trip[s].vendor
                            /\ trip'[s].advance = trip[s].advance
                            /\ trip'[s].stage = trip[s].stage
    BY <1>8, AmountsAssumption DEF CorrectQuote, TypeOK, TripRow, TripRows, LiveTrips
  <2>3. indent' \in IndentRow /\ indent'.awarded = indent.awarded
    BY <1>8, AmountsAssumption DEF CorrectQuote, TypeOK, IndentRow
  <2> QED BY <1>8, <2>1, <2>2, <2>3, AwardedIsQuote DEF CorrectQuote, TypeOK, RowsComplete
<1>9. ASSUME NEW q \in Quotes, AwardPreview(q) PROVE TypeOK' /\ RowsComplete'
  BY <1>9 DEF AwardPreview, Exists, TypeOK, RowsComplete
<1>10. ASSUME NEW q \in Quotes, AwardDirect(q) PROVE TypeOK' /\ RowsComplete'
  <2>1. ApplyAward(q) /\ UNCHANGED <<standing, portal, slips>>
        /\ preview' \subseteq Quotes /\ pending' \subseteq (Quotes \X Amounts)
    BY <1>10 DEF AwardDirect, TypeOK
  <2>2. PICK t \in Trips :
           /\ trip' \in [Trips -> TripRow] /\ trip'[t].stage = "OPEN"
           /\ trip'[t].vendor \in Vendors
           /\ \A s \in Trips \ {t} : trip'[s] = trip[s]
    BY <2>1, AwardRows
  <2>3. TypeOK'
    BY <2>1, <2>2, AwardRows DEF TypeOK, IndentRow, IndentStage
  <2>4. RowsComplete'
    <3>1. \A p \in Quotes : quote'[p].status # "NONE" => quote[p].status # "NONE"
      BY <2>1, AwardRows DEF ApplyAward, Awardable
    <3>2. \A p \in Quotes : quote'[p].vendor = quote[p].vendor /\ quote'[p].amount = quote[p].amount
      BY <2>1, AwardRows
    <3>3. indent'.awarded = q /\ quote'[q].status = "ACCEPTED"
      BY <2>1, AwardRows
    <3> QED BY <2>2, <3>1, <3>2, <3>3 DEF RowsComplete
  <2> QED BY <2>3, <2>4
<1>11. ASSUME NEW q \in Quotes, AwardDropped(q) PROVE TypeOK' /\ RowsComplete'
  BY <1>11 DEF AwardDropped, TypeOK, RowsComplete
<1>12. ASSUME NEW q \in Quotes, NEW a \in Amounts, ApproveAward(q, a) PROVE TypeOK' /\ RowsComplete'
  <2>1. ApplyAward(q) /\ UNCHANGED <<standing, portal, slips>>
        /\ preview' \subseteq Quotes /\ pending' \subseteq (Quotes \X Amounts)
    BY <1>12 DEF ApproveAward, TypeOK
  <2>2. PICK t \in Trips :
           /\ trip' \in [Trips -> TripRow] /\ trip'[t].stage = "OPEN"
           /\ trip'[t].vendor \in Vendors
           /\ \A s \in Trips \ {t} : trip'[s] = trip[s]
    BY <2>1, AwardRows
  <2>3. TypeOK'
    BY <2>1, <2>2, AwardRows DEF TypeOK, IndentRow, IndentStage
  <2>4. RowsComplete'
    <3>1. \A p \in Quotes : quote'[p].status # "NONE" => quote[p].status # "NONE"
      BY <2>1, AwardRows DEF ApplyAward, Awardable
    <3>2. \A p \in Quotes : quote'[p].vendor = quote[p].vendor /\ quote'[p].amount = quote[p].amount
      BY <2>1, AwardRows
    <3>3. indent'.awarded = q /\ quote'[q].status = "ACCEPTED"
      BY <2>1, AwardRows
    <3> QED BY <2>2, <3>1, <3>2, <3>3 DEF RowsComplete
  <2> QED BY <2>3, <2>4
<1>13. ASSUME NEW q \in Quotes, NEW a \in Amounts, RejectAward(q, a) PROVE TypeOK' /\ RowsComplete'
  BY <1>13 DEF RejectAward, TypeOK, RowsComplete
<1>14. ASSUME Cancel PROVE TypeOK' /\ RowsComplete'
  <2>1. quote' \in [Quotes -> QuoteRow]
        /\ \A p \in Quotes : /\ quote'[p].vendor = quote[p].vendor
                             /\ quote'[p].amount = quote[p].amount
                             /\ quote'[p].status # "NONE" <=> quote[p].status # "NONE"
    BY <1>14 DEF Cancel, TypeOK, QuoteRow, QuoteStatus
  <2>2. trip' \in [Trips -> TripRow]
        /\ \A s \in Trips : /\ trip'[s].vendor = trip[s].vendor
                            /\ trip'[s].advance = trip[s].advance
                            /\ trip[s].stage = "NONE" <=> trip'[s].stage = "NONE"
    <3>1. CASE UNCHANGED trip BY <3>1 DEF TypeOK
    <3>2. CASE \E t \in TripRows : trip' = [trip EXCEPT ![t].stage = "CANCELLED"]
      BY <3>2 DEF TypeOK, TripRow, TripStage, TripRows
    <3> QED BY <1>14, <3>1, <3>2 DEF Cancel
  <2>3. indent' \in IndentRow /\ indent'.awarded = indent.awarded
    BY <1>14 DEF Cancel, TypeOK, IndentRow, IndentStage
  <2> QED BY <1>14, <2>1, <2>2, <2>3, AwardedIsQuote DEF Cancel, TypeOK, RowsComplete
<1>15. ASSUME Reassign PROVE TypeOK' /\ RowsComplete'
  <2>1. quote' \in [Quotes -> QuoteRow]
        /\ \A p \in Quotes : /\ quote'[p].vendor = quote[p].vendor
                             /\ quote'[p].amount = quote[p].amount
                             /\ quote'[p].status # "NONE" =>
                                   quote[p].status # "NONE" \/ p = indent.awarded
    BY <1>15 DEF Reassign, TypeOK, QuoteRow, QuoteStatus
  <2>2. PICK t \in TripRows :
           trip' = [trip EXCEPT ![t] = [@ EXCEPT !.stage = "CANCELLED", !.papers = "NONE"]]
    BY <1>15 DEF Reassign
  <2>3. trip' \in [Trips -> TripRow]
        /\ \A s \in Trips : /\ trip'[s].vendor = trip[s].vendor
                            /\ trip'[s].advance = trip[s].advance
                            /\ trip[s].stage = "NONE" <=> trip'[s].stage = "NONE"
    <3> DEFINE row == [trip[t] EXCEPT !.stage = "CANCELLED", !.papers = "NONE"]
    <3>1. t \in Trips /\ trip[t] \in TripRow /\ trip[t].stage # "NONE"
      BY DEF TypeOK, TripRows
    <3>2. /\ row \in TripRow /\ row.vendor = trip[t].vendor
          /\ row.advance = trip[t].advance /\ row.stage = "CANCELLED"
      BY <3>1 DEF TripRow, TripStage
    <3>3. trip' = [trip EXCEPT ![t] = row] BY <2>2
    <3> HIDE DEF row
    <3> QED BY <3>1, <3>2, <3>3 DEF TypeOK
  <2>4. indent' \in IndentRow
    BY <1>15 DEF Reassign, TypeOK, IndentRow, IndentStage
  <2>5. \A p \in Quotes : quote'[p].status # "NONE" => quote[p].status # "NONE"
    BY <2>1, NoneAssumption DEF RowsComplete
  <2> QED BY <1>15, <2>1, <2>3, <2>4, <2>5 DEF Reassign, TypeOK, RowsComplete
<1>16. ASSUME NEW t \in Trips, IssueLr(t) PROVE TypeOK' /\ RowsComplete'
  BY <1>16 DEF IssueLr, TypeOK, RowsComplete, TripRow, TripStage, TripRows
<1>17. ASSUME NEW t \in Trips, VerifyPapers(t) PROVE TypeOK' /\ RowsComplete'
  BY <1>17 DEF VerifyPapers, TypeOK, RowsComplete, TripRow, TripStage, TripRows
<1>18. ASSUME NEW t \in Trips, Depart(t) PROVE TypeOK' /\ RowsComplete'
  BY <1>18 DEF Depart, TypeOK, RowsComplete, TripRow, TripStage, TripRows
<1>19. ASSUME NEW t \in Trips, ReleaseAdvance(t) PROVE TypeOK' /\ RowsComplete'
  <2> DEFINE row == [trip[t] EXCEPT !.advance = AdvanceOn(trip[t].rate), !.paidTo = trip[t].vendor]
  <2>1. trip' = [trip EXCEPT ![t] = row] /\ trip[t].stage # "NONE"
    BY <1>19 DEF ReleaseAdvance, TripRows
  <2>2. trip[t] \in TripRow BY DEF TypeOK
  <2>3. AdvanceOn(trip[t].rate) \in Nat BY <2>2, AdvanceWithinRate DEF TripRow
  <2>4. row \in TripRow /\ row.stage = trip[t].stage /\ row.vendor = trip[t].vendor
    BY <2>2, <2>3 DEF TripRow
  <2>5. slips' \subseteq {"LATE_QUOTE", "STRAY_ADVANCE"}
    BY <1>19 DEF ReleaseAdvance, TypeOK
  <2> HIDE DEF row
  <2> QED BY <1>19, <2>1, <2>4, <2>5 DEF ReleaseAdvance, TypeOK, RowsComplete
<1>20. CASE UNCHANGED vars
  BY <1>20 DEF vars, TypeOK, RowsComplete
<1> QED BY <1>1, <1>2, <1>3, <1>4, <1>5, <1>6, <1>7, <1>8, <1>9, <1>10, <1>11, <1>12, <1>13, <1>14, <1>15, <1>16, <1>17, <1>18, <1>19, <1>20
        DEF Next, QuoteStep, AwardStep, TripStep

-----------------------------------------------------------------------------
(* A step that moves no quote to another transporter and puts none in play  *)
(* keeps one quote in play per transporter.                                 *)
LEMMA LiveOnlyShrinks ==
    ASSUME OneLiveQuotePerVendor,
           \A r \in Quotes : quote'[r].vendor = quote[r].vendor
                            /\ (quote'[r].status \in Live => quote[r].status \in Live)
    PROVE  OneLiveQuotePerVendor'
  BY DEF OneLiveQuotePerVendor, Live

LEMMA LiveQuoteStep ==
    ASSUME TypeOK, RowsComplete, OneLiveQuotePerVendor, [Next]_vars
    PROVE  OneLiveQuotePerVendor'
<1>1. ASSUME NEW v \in Vendors, PortalCheck(v) PROVE OneLiveQuotePerVendor'
  BY <1>1 DEF PortalCheck, OneLiveQuotePerVendor
<1>2. ASSUME NEW v \in Vendors, PortalAbort(v) PROVE OneLiveQuotePerVendor'
  BY <1>2 DEF PortalAbort, OneLiveQuotePerVendor
<1>3. ASSUME NEW v \in Vendors, ChangeStanding(v) PROVE OneLiveQuotePerVendor'
  BY <1>3 DEF ChangeStanding, OneLiveQuotePerVendor
<1>4. ASSUME NEW v \in Vendors, NEW q \in Quotes, NEW a \in Amounts, RecordQuote(v, q, a) PROVE OneLiveQuotePerVendor'
  BY <1>4, InsertKeepsRows DEF RecordQuote
<1>5. ASSUME NEW v \in Vendors, NEW q \in Quotes, NEW a \in Amounts, PortalInsert(v, q, a) PROVE OneLiveQuotePerVendor'
  BY <1>5, InsertKeepsRows DEF PortalInsert
<1>6. ASSUME NEW q \in Quotes, WithdrawQuote(q) PROVE OneLiveQuotePerVendor'
  <2>1. \A r \in Quotes : quote'[r].vendor = quote[r].vendor
                         /\ (quote'[r].status \in Live => quote[r].status \in Live)
    BY <1>6 DEF WithdrawQuote, TypeOK, QuoteRow, Live
  <2> QED BY <2>1, LiveOnlyShrinks
<1>7. ASSUME NEW q \in Quotes, RemoveQuote(q) PROVE OneLiveQuotePerVendor'
  <2>1. \A r \in Quotes : quote'[r].vendor = quote[r].vendor
                         /\ (quote'[r].status \in Live => quote[r].status \in Live)
    BY <1>7 DEF RemoveQuote, TypeOK, QuoteRow, Live
  <2> QED BY <2>1, LiveOnlyShrinks
<1>8. ASSUME NEW q \in Quotes, NEW a \in Amounts, CorrectQuote(q, a) PROVE OneLiveQuotePerVendor'
  <2>1. \A r \in Quotes : quote'[r].vendor = quote[r].vendor
                         /\ (quote'[r].status \in Live => quote[r].status \in Live)
    BY <1>8 DEF CorrectQuote, TypeOK, QuoteRow, Live
  <2> QED BY <2>1, LiveOnlyShrinks
<1>9. ASSUME NEW q \in Quotes, AwardPreview(q) PROVE OneLiveQuotePerVendor'
  BY <1>9 DEF AwardPreview, OneLiveQuotePerVendor
<1>10. ASSUME NEW q \in Quotes, AwardDirect(q) PROVE OneLiveQuotePerVendor'
  <2>1. ApplyAward(q) BY <1>10 DEF AwardDirect
  <2>2. \A r \in Quotes : quote'[r].vendor = quote[r].vendor
                         /\ (quote'[r].status \in Live => quote[r].status \in Live)
    BY <2>1, AwardRows DEF ApplyAward, Awardable, Live
  <2> QED BY <2>2, LiveOnlyShrinks
<1>11. ASSUME NEW q \in Quotes, AwardDropped(q) PROVE OneLiveQuotePerVendor'
  BY <1>11 DEF AwardDropped, OneLiveQuotePerVendor
<1>12. ASSUME NEW q \in Quotes, NEW a \in Amounts, ApproveAward(q, a) PROVE OneLiveQuotePerVendor'
  <2>1. ApplyAward(q) BY <1>12 DEF ApproveAward
  <2>2. \A r \in Quotes : quote'[r].vendor = quote[r].vendor
                         /\ (quote'[r].status \in Live => quote[r].status \in Live)
    BY <2>1, AwardRows DEF ApplyAward, Awardable, Live
  <2> QED BY <2>2, LiveOnlyShrinks
<1>13. ASSUME NEW q \in Quotes, NEW a \in Amounts, RejectAward(q, a) PROVE OneLiveQuotePerVendor'
  BY <1>13 DEF RejectAward, OneLiveQuotePerVendor
<1>14. ASSUME Cancel PROVE OneLiveQuotePerVendor'
  <2>1. \A r \in Quotes : quote'[r].vendor = quote[r].vendor
                         /\ (quote'[r].status \in Live => quote[r].status \in Live)
    BY <1>14 DEF Cancel, TypeOK, QuoteRow, Live
  <2> QED BY <2>1, LiveOnlyShrinks
<1>15. ASSUME Reassign PROVE OneLiveQuotePerVendor'
  <2>1. \A r \in Quotes : quote'[r].vendor = quote[r].vendor
                         /\ (quote'[r].status \in Live => quote[r].status \in Live)
    BY <1>15 DEF Reassign, TypeOK, QuoteRow, Live
  <2> QED BY <2>1, LiveOnlyShrinks
<1>16. ASSUME NEW t \in Trips, IssueLr(t) PROVE OneLiveQuotePerVendor'
  BY <1>16 DEF IssueLr, OneLiveQuotePerVendor
<1>17. ASSUME NEW t \in Trips, VerifyPapers(t) PROVE OneLiveQuotePerVendor'
  BY <1>17 DEF VerifyPapers, OneLiveQuotePerVendor
<1>18. ASSUME NEW t \in Trips, Depart(t) PROVE OneLiveQuotePerVendor'
  BY <1>18 DEF Depart, OneLiveQuotePerVendor
<1>19. ASSUME NEW t \in Trips, ReleaseAdvance(t) PROVE OneLiveQuotePerVendor'
  BY <1>19 DEF ReleaseAdvance, OneLiveQuotePerVendor
<1>20. CASE UNCHANGED vars
  BY <1>20 DEF vars, OneLiveQuotePerVendor
<1> QED BY <1>1, <1>2, <1>3, <1>4, <1>5, <1>6, <1>7, <1>8, <1>9, <1>10, <1>11, <1>12, <1>13, <1>14, <1>15, <1>16, <1>17, <1>18, <1>19, <1>20
        DEF Next, QuoteStep, AwardStep, TripStep

-----------------------------------------------------------------------------
(* The two orderings the ghost remembers are never forgotten. *)
LEMMA SlipsOnlyGrow ==
    ASSUME [Next]_vars PROVE slips \subseteq slips'
  BY DEF Next, QuoteStep, AwardStep, TripStep, vars, PortalCheck, PortalAbort, ChangeStanding,
         RecordQuote, PortalInsert, WithdrawQuote, RemoveQuote, CorrectQuote, AwardPreview,
         AwardDirect, AwardDropped, ApproveAward, RejectAward, Cancel, Reassign, IssueLr,
         VerifyPapers, Depart, ReleaseAdvance

(* An award finds the load open: on any other load no quote is left to      *)
(* award.  It revives the only trip the load has had or inserts the first.  *)
LEMMA AwardStepConsistent ==
    ASSUME TypeOK, RowsComplete, AwardConsistent, NEW q \in Quotes, ApplyAward(q)
    PROVE  AwardConsistent'
<1>1. indent.stage = "OPEN" /\ LiveTrips = {}
  BY DEF ApplyAward, Awardable, AwardConsistent
<1>2. PICK t \in Trips :
        /\ IF SetAside # {} THEN t \in SetAside ELSE trip[t].stage = "NONE"
        /\ trip'[t].stage = "OPEN"
        /\ trip'[t].vendor = quote[q].vendor /\ trip'[t].rate = quote[q].amount
        /\ \A s \in Trips \ {t} : trip'[s] = trip[s]
  BY AwardRows
<1>3. \A s \in Trips \ {t} : trip[s].stage = "NONE"
  BY <1>1, <1>2 DEF SetAside, LiveTrips, TripRows, AwardConsistent, OneTripNumber
<1>4. TripRows' = {t} /\ LiveTrips' = {t}
  BY <1>2, <1>3 DEF TripRows, LiveTrips
<1>5. /\ indent'.stage = "TRIP_CREATED" /\ indent'.awarded = q
      /\ indent'.vendor = quote[q].vendor /\ indent'.rate = quote[q].amount
  BY AwardRows
<1>6. \A p \in Quotes : p # q => quote'[p].status # "ACCEPTED" /\ quote'[p].status # "SUBMITTED"
  BY <1>1, AwardRows DEF AwardConsistent
<1> QED BY <1>2, <1>4, <1>5, <1>6, AwardRows DEF AwardConsistent, OneTripNumber

LEMMA ConsistentStep ==
    ASSUME TypeOK, RowsComplete, OneLiveQuotePerVendor, ConsistentUnlessLateQuote, [Next]_vars
    PROVE  ConsistentUnlessLateQuote'
<1> SUFFICES ASSUME "LATE_QUOTE" \notin slips' PROVE AwardConsistent'
  BY DEF ConsistentUnlessLateQuote
<1>a. "LATE_QUOTE" \notin slips' /\ AwardConsistent
  BY SlipsOnlyGrow DEF ConsistentUnlessLateQuote
<1> USE <1>a
<1>1. ASSUME NEW v \in Vendors, PortalCheck(v) PROVE AwardConsistent'
  BY <1>1 DEF PortalCheck, AwardConsistent, OneTripNumber, LiveTrips, TripRows
<1>2. ASSUME NEW v \in Vendors, PortalAbort(v) PROVE AwardConsistent'
  BY <1>2 DEF PortalAbort, AwardConsistent, OneTripNumber, LiveTrips, TripRows
<1>3. ASSUME NEW v \in Vendors, ChangeStanding(v) PROVE AwardConsistent'
  BY <1>3 DEF ChangeStanding, AwardConsistent, OneTripNumber, LiveTrips, TripRows
<1>4. ASSUME NEW v \in Vendors, NEW q \in Quotes, NEW a \in Amounts, RecordQuote(v, q, a) PROVE AwardConsistent'
  BY <1>4, InsertKeepsRows DEF RecordQuote, InsertQuote, TypeOK, QuoteRow, AwardConsistent, OneTripNumber, LiveTrips, TripRows
<1>5. ASSUME NEW v \in Vendors, NEW q \in Quotes, NEW a \in Amounts, PortalInsert(v, q, a) PROVE AwardConsistent'
  <2>1. indent.stage = "OPEN"
    BY <1>5, <1>a DEF PortalInsert
  <2> QED BY <1>5, <2>1 DEF PortalInsert, InsertQuote, TypeOK, QuoteRow, AwardConsistent, OneTripNumber, LiveTrips, TripRows
<1>6. ASSUME NEW q \in Quotes, WithdrawQuote(q) PROVE AwardConsistent'
  BY <1>6 DEF WithdrawQuote, TypeOK, QuoteRow, AwardConsistent, OneTripNumber, LiveTrips, TripRows
<1>7. ASSUME NEW q \in Quotes, RemoveQuote(q) PROVE AwardConsistent'
  BY <1>7 DEF RemoveQuote, TypeOK, QuoteRow, AwardConsistent, OneTripNumber, LiveTrips, TripRows
<1>8. ASSUME NEW q \in Quotes, NEW a \in Amounts, CorrectQuote(q, a) PROVE AwardConsistent'
  BY <1>8, AmountsAssumption DEF CorrectQuote, TypeOK, QuoteRow, TripRow, IndentRow, AwardConsistent, OneTripNumber, LiveTrips, TripRows
<1>9. ASSUME NEW q \in Quotes, AwardPreview(q) PROVE AwardConsistent'
  BY <1>9 DEF AwardPreview, AwardConsistent, OneTripNumber, LiveTrips, TripRows
<1>10. ASSUME NEW q \in Quotes, AwardDirect(q) PROVE AwardConsistent'
  <2>1. ApplyAward(q) BY <1>10 DEF AwardDirect
  <2> QED BY <2>1, AwardStepConsistent
<1>11. ASSUME NEW q \in Quotes, AwardDropped(q) PROVE AwardConsistent'
  BY <1>11 DEF AwardDropped, AwardConsistent, OneTripNumber, LiveTrips, TripRows
<1>12. ASSUME NEW q \in Quotes, NEW a \in Amounts, ApproveAward(q, a) PROVE AwardConsistent'
  <2>1. ApplyAward(q) BY <1>12 DEF ApproveAward
  <2> QED BY <2>1, AwardStepConsistent
<1>13. ASSUME NEW q \in Quotes, NEW a \in Amounts, RejectAward(q, a) PROVE AwardConsistent'
  BY <1>13 DEF RejectAward, AwardConsistent, OneTripNumber, LiveTrips, TripRows
<1>14. ASSUME Cancel PROVE AwardConsistent'
  BY <1>14 DEF Cancel, TypeOK, QuoteRow, TripRow, IndentRow, AwardConsistent, OneTripNumber, LiveTrips, TripRows
<1>15. ASSUME Reassign PROVE AwardConsistent'
  BY <1>15 DEF Reassign, TypeOK, QuoteRow, TripRow, IndentRow, AwardConsistent, OneTripNumber, LiveTrips, TripRows
<1>16. ASSUME NEW t \in Trips, IssueLr(t) PROVE AwardConsistent'
  BY <1>16 DEF IssueLr, TypeOK, TripRow, AwardConsistent, OneTripNumber, LiveTrips, TripRows
<1>17. ASSUME NEW t \in Trips, VerifyPapers(t) PROVE AwardConsistent'
  BY <1>17 DEF VerifyPapers, TypeOK, TripRow, AwardConsistent, OneTripNumber, LiveTrips, TripRows
<1>18. ASSUME NEW t \in Trips, Depart(t) PROVE AwardConsistent'
  BY <1>18 DEF Depart, TypeOK, TripRow, AwardConsistent, OneTripNumber, LiveTrips, TripRows
<1>19. ASSUME NEW t \in Trips, ReleaseAdvance(t) PROVE AwardConsistent'
  <2> DEFINE row == [trip[t] EXCEPT !.advance = AdvanceOn(trip[t].rate), !.paidTo = trip[t].vendor]
  <2>1. trip' = [trip EXCEPT ![t] = row] /\ UNCHANGED <<indent, quote>>
    BY <1>19 DEF ReleaseAdvance
  <2>2. trip[t] \in TripRow BY DEF TypeOK
  <2>3. row.stage = trip[t].stage /\ row.vendor = trip[t].vendor /\ row.rate = trip[t].rate
    BY <2>2 DEF TripRow
  <2> HIDE DEF row
  <2> QED BY <2>1, <2>3 DEF TypeOK, AwardConsistent, OneTripNumber, LiveTrips, TripRows
<1>20. CASE UNCHANGED vars
  BY <1>20 DEF vars, AwardConsistent, OneTripNumber, LiveTrips, TripRows
<1> QED BY <1>1, <1>2, <1>3, <1>4, <1>5, <1>6, <1>7, <1>8, <1>9, <1>10, <1>11, <1>12, <1>13, <1>14, <1>15, <1>16, <1>17, <1>18, <1>19, <1>20
        DEF Next, QuoteStep, AwardStep, TripStep

-----------------------------------------------------------------------------
Secured ==
    \A t \in TripRows : trip[t].advance > 0 =>
        /\ trip[t].stage # "CANCELLED"
        /\ trip[t].advance <= trip[t].rate
        /\ trip[t].paidTo = trip[t].vendor

(* A trip that comes back to life was set aside, so no advance was paid on  *)
(* it; a corrected rate is never below the advance.                         *)
LEMMA AdvanceStep ==
    ASSUME TypeOK, RowsComplete, AdvanceSecured, [Next]_vars
    PROVE  AdvanceSecured'
<1> SUFFICES ASSUME slips' = {} PROVE Secured'
  BY DEF AdvanceSecured, Secured
<1>a. slips' = {} /\ Secured
  BY SlipsOnlyGrow DEF AdvanceSecured, Secured
<1> USE <1>a
<1>1. ASSUME NEW v \in Vendors, PortalCheck(v) PROVE Secured'
  BY <1>1 DEF PortalCheck, Secured, TripRows
<1>2. ASSUME NEW v \in Vendors, PortalAbort(v) PROVE Secured'
  BY <1>2 DEF PortalAbort, Secured, TripRows
<1>3. ASSUME NEW v \in Vendors, ChangeStanding(v) PROVE Secured'
  BY <1>3 DEF ChangeStanding, Secured, TripRows
<1>4. ASSUME NEW v \in Vendors, NEW q \in Quotes, NEW a \in Amounts, RecordQuote(v, q, a) PROVE Secured'
  BY <1>4 DEF RecordQuote, Secured, TripRows
<1>5. ASSUME NEW v \in Vendors, NEW q \in Quotes, NEW a \in Amounts, PortalInsert(v, q, a) PROVE Secured'
  BY <1>5 DEF PortalInsert, Secured, TripRows
<1>6. ASSUME NEW q \in Quotes, WithdrawQuote(q) PROVE Secured'
  BY <1>6 DEF WithdrawQuote, Secured, TripRows
<1>7. ASSUME NEW q \in Quotes, RemoveQuote(q) PROVE Secured'
  BY <1>7 DEF RemoveQuote, Secured, TripRows
<1>8. ASSUME NEW q \in Quotes, NEW a \in Amounts, CorrectQuote(q, a) PROVE Secured'
  BY <1>8, AmountsAssumption DEF CorrectQuote, TypeOK, TripRow, LiveTrips, Secured, TripRows
<1>9. ASSUME NEW q \in Quotes, AwardPreview(q) PROVE Secured'
  BY <1>9 DEF AwardPreview, Secured, TripRows
<1>10. ASSUME NEW q \in Quotes, AwardDirect(q) PROVE Secured'
  <2>1. ApplyAward(q) BY <1>10 DEF AwardDirect
  <2>2. PICK t \in Trips :
          /\ IF SetAside # {} THEN t \in SetAside ELSE trip[t].stage = "NONE"
          /\ trip'[t].stage = "OPEN" /\ trip'[t].advance = trip[t].advance
          /\ \A s \in Trips \ {t} : trip'[s] = trip[s]
    BY <2>1, AwardRows
  <2>3. ~(trip[t].advance > 0)
    BY <2>2 DEF Secured, TripRows, SetAside, RowsComplete
  <2> QED BY <2>2, <2>3 DEF Secured, TripRows
<1>11. ASSUME NEW q \in Quotes, AwardDropped(q) PROVE Secured'
  BY <1>11 DEF AwardDropped, Secured, TripRows
<1>12. ASSUME NEW q \in Quotes, NEW a \in Amounts, ApproveAward(q, a) PROVE Secured'
  <2>1. ApplyAward(q) BY <1>12 DEF ApproveAward
  <2>2. PICK t \in Trips :
          /\ IF SetAside # {} THEN t \in SetAside ELSE trip[t].stage = "NONE"
          /\ trip'[t].stage = "OPEN" /\ trip'[t].advance = trip[t].advance
          /\ \A s \in Trips \ {t} : trip'[s] = trip[s]
    BY <2>1, AwardRows
  <2>3. ~(trip[t].advance > 0)
    BY <2>2 DEF Secured, TripRows, SetAside, RowsComplete
  <2> QED BY <2>2, <2>3 DEF Secured, TripRows
<1>13. ASSUME NEW q \in Quotes, NEW a \in Amounts, RejectAward(q, a) PROVE Secured'
  BY <1>13 DEF RejectAward, Secured, TripRows
<1>14. ASSUME Cancel PROVE Secured'
  BY <1>14 DEF Cancel, TypeOK, TripRow, Secured, TripRows
<1>15. ASSUME Reassign PROVE Secured'
  BY <1>15 DEF Reassign, TypeOK, TripRow, Secured, TripRows
<1>16. ASSUME NEW t \in Trips, IssueLr(t) PROVE Secured'
  BY <1>16 DEF IssueLr, TypeOK, TripRow, Secured, TripRows
<1>17. ASSUME NEW t \in Trips, VerifyPapers(t) PROVE Secured'
  BY <1>17 DEF VerifyPapers, TypeOK, TripRow, Secured, TripRows
<1>18. ASSUME NEW t \in Trips, Depart(t) PROVE Secured'
  BY <1>18 DEF Depart, TypeOK, TripRow, Secured, TripRows
<1>19. ASSUME NEW t \in Trips, ReleaseAdvance(t) PROVE Secured'
  <2> DEFINE row == [trip[t] EXCEPT !.advance = AdvanceOn(trip[t].rate), !.paidTo = trip[t].vendor]
  <2>1. trip' = [trip EXCEPT ![t] = row] /\ trip[t].stage # "CANCELLED"
    BY <1>19, <1>a DEF ReleaseAdvance
  <2>2. trip[t] \in TripRow BY DEF TypeOK
  <2>3. /\ row.stage = trip[t].stage /\ row.vendor = trip[t].vendor /\ row.rate = trip[t].rate
        /\ row.advance = AdvanceOn(trip[t].rate) /\ row.paidTo = trip[t].vendor
    BY <2>2 DEF TripRow
  <2>4. AdvanceOn(trip[t].rate) <= trip[t].rate
    BY <2>2, AdvanceWithinRate DEF TripRow
  <2> HIDE DEF row
  <2> QED BY <2>1, <2>3, <2>4 DEF TypeOK, Secured, TripRows
<1>20. CASE UNCHANGED vars
  BY <1>20 DEF vars, Secured, TripRows
<1> QED BY <1>1, <1>2, <1>3, <1>4, <1>5, <1>6, <1>7, <1>8, <1>9, <1>10, <1>11, <1>12, <1>13, <1>14, <1>15, <1>16, <1>17, <1>18, <1>19, <1>20
        DEF Next, QuoteStep, AwardStep, TripStep

-----------------------------------------------------------------------------
LEMMA Inductive ==
    /\ Init => IInv
    /\ IInv /\ [Next]_vars => IInv'
<1>1. ASSUME Init PROVE IInv
  <2>1. TypeOK
    BY <1>1 DEF Init, TypeOK, IndentRow, IndentStage, QuoteRow, QuoteStatus, NoQuote,
                TripRow, TripStage, NoTrip, Standing
  <2>2. RowsComplete
    BY <1>1 DEF Init, RowsComplete, NoQuote, NoTrip
  <2>3. OneLiveQuotePerVendor
    BY <1>1 DEF Init, OneLiveQuotePerVendor, NoQuote
  <2>4. TripRows = {} BY <1>1 DEF Init, TripRows, NoTrip
  <2>5. AwardConsistent
    BY <1>1, <2>4 DEF Init, AwardConsistent, OneTripNumber, LiveTrips, NoQuote
  <2> QED BY <2>1, <2>2, <2>3, <2>4, <2>5
          DEF IInv, ConsistentUnlessLateQuote, AdvanceSecured
<1>2. ASSUME IInv, [Next]_vars PROVE IInv'
  BY <1>2, TypeStep, LiveQuoteStep, ConsistentStep, AdvanceStep DEF IInv
<1> QED BY <1>1, <1>2

(* Every variable of Award keeps its type. *)
THEOREM TypeCorrect == Spec => []TypeOK
<1>1. IInv => TypeOK BY DEF IInv
<1> QED BY Inductive, <1>1, PTL DEF Spec

(* No interleaving of portal, desk, withdrawal and reassignment gives a     *)
(* transporter two quotes in play on a load.                                *)
THEOREM LiveQuotesUnique == Spec => []OneLiveQuotePerVendor
<1>1. IInv => OneLiveQuotePerVendor BY DEF IInv
<1> QED BY Inductive, <1>1, PTL DEF Spec

(* Without a late portal quote the load, its quotes and its trip agree: one *)
(* trip number, one accepted quote, the same transporter and the same rate. *)
THEOREM StoryConsistent == Spec => []ConsistentUnlessLateQuote
<1>1. IInv => ConsistentUnlessLateQuote BY DEF IInv
<1> QED BY Inductive, <1>1, PTL DEF Spec

(* An advance stays within the rate and with the transporter it was paid to. *)
THEOREM AdvanceStays == Spec => []AdvanceSecured
<1>1. IInv => AdvanceSecured BY DEF IInv
<1> QED BY Inductive, <1>1, PTL DEF Spec

-----------------------------------------------------------------------------
LEMMA NoWayBackStep ==
    ASSUME TypeOK, RowsComplete, [Next]_vars
    PROVE  StaysOut
<1>1. ASSUME NEW v \in Vendors, PortalCheck(v) PROVE StaysOut
  BY <1>1 DEF PortalCheck, StaysOut
<1>2. ASSUME NEW v \in Vendors, PortalAbort(v) PROVE StaysOut
  BY <1>2 DEF PortalAbort, StaysOut
<1>3. ASSUME NEW v \in Vendors, ChangeStanding(v) PROVE StaysOut
  BY <1>3 DEF ChangeStanding, StaysOut
<1>4. ASSUME NEW v \in Vendors, NEW q \in Quotes, NEW a \in Amounts, RecordQuote(v, q, a) PROVE StaysOut
  BY <1>4 DEF RecordQuote, StaysOut
<1>5. ASSUME NEW v \in Vendors, NEW q \in Quotes, NEW a \in Amounts, PortalInsert(v, q, a) PROVE StaysOut
  BY <1>5 DEF PortalInsert, StaysOut
<1>6. ASSUME NEW q \in Quotes, WithdrawQuote(q) PROVE StaysOut
  BY <1>6 DEF WithdrawQuote, StaysOut
<1>7. ASSUME NEW q \in Quotes, RemoveQuote(q) PROVE StaysOut
  BY <1>7 DEF RemoveQuote, StaysOut
<1>8. ASSUME NEW q \in Quotes, NEW a \in Amounts, CorrectQuote(q, a) PROVE StaysOut
  BY <1>8 DEF CorrectQuote, TypeOK, TripRow, TripRows, LiveTrips, StaysOut
<1>9. ASSUME NEW q \in Quotes, AwardPreview(q) PROVE StaysOut
  BY <1>9 DEF AwardPreview, StaysOut
<1>10. ASSUME NEW q \in Quotes, AwardDirect(q) PROVE StaysOut
  <2>1. ApplyAward(q) BY <1>10 DEF AwardDirect
  <2> QED BY <2>1, AwardRows DEF StaysOut, SetAside
<1>11. ASSUME NEW q \in Quotes, AwardDropped(q) PROVE StaysOut
  BY <1>11 DEF AwardDropped, StaysOut
<1>12. ASSUME NEW q \in Quotes, NEW a \in Amounts, ApproveAward(q, a) PROVE StaysOut
  <2>1. ApplyAward(q) BY <1>12 DEF ApproveAward
  <2> QED BY <2>1, AwardRows DEF StaysOut, SetAside
<1>13. ASSUME NEW q \in Quotes, NEW a \in Amounts, RejectAward(q, a) PROVE StaysOut
  BY <1>13 DEF RejectAward, StaysOut
<1>14. ASSUME Cancel PROVE StaysOut
  BY <1>14 DEF Cancel, TypeOK, TripRow, TripRows, LiveTrips, StaysOut
<1>15. ASSUME Reassign PROVE StaysOut
  BY <1>15 DEF Reassign, TypeOK, TripRow, TripRows, LiveTrips, StaysOut
<1>16. ASSUME NEW t \in Trips, IssueLr(t) PROVE StaysOut
  BY <1>16 DEF IssueLr, TypeOK, TripRow, TripRows, LiveTrips, StaysOut
<1>17. ASSUME NEW t \in Trips, VerifyPapers(t) PROVE StaysOut
  BY <1>17 DEF VerifyPapers, TypeOK, TripRow, TripRows, LiveTrips, StaysOut
<1>18. ASSUME NEW t \in Trips, Depart(t) PROVE StaysOut
  BY <1>18 DEF Depart, TypeOK, TripRow, TripRows, LiveTrips, StaysOut
<1>19. ASSUME NEW t \in Trips, ReleaseAdvance(t) PROVE StaysOut
  <2>1. trip'[t].stage = trip[t].stage /\ \A s \in Trips \ {t} : trip'[s] = trip[s]
    BY <1>19 DEF ReleaseAdvance, TypeOK, TripRow
  <2> QED BY <2>1 DEF StaysOut
<1>20. CASE UNCHANGED vars
  BY <1>20 DEF vars, StaysOut
<1> QED BY <1>1, <1>2, <1>3, <1>4, <1>5, <1>6, <1>7, <1>8, <1>9, <1>10, <1>11, <1>12, <1>13, <1>14, <1>15, <1>16, <1>17, <1>18, <1>19, <1>20
        DEF Next, QuoteStep, AwardStep, TripStep

(* No step sets a trip aside once its advance is paid, or takes a departed  *)
(* trip back.                                                               *)
THEOREM NeverTakenBack == Spec => NoWayBack
<1>1. IInv /\ [Next]_vars => [StaysOut]_vars
  BY NoWayBackStep DEF IInv
<1> QED BY Inductive, <1>1, PTL DEF Spec, NoWayBack
=============================================================================
