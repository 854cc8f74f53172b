----------------------------- MODULE MCVendors -----------------------------
(***************************************************************************)
(* Vendors from two kinds of start: leads and no transporter yet, and one    *)
(* transporter cleared long ago.  The leads, the terms and the papers meet    *)
(* only in a transporter's status, so Bound lets one of the three move in a   *)
(* history, and the papers of one transporter.                              *)
(***************************************************************************)
EXTENDS Vendors, TLC

CONSTANTS b1, p1

Blank    == [status |-> "MISSING", validTo |-> None]
Cleared  == [status |-> "VERIFIED", validTo |-> None]
Row(status) == [status |-> status, party |-> "VENDOR", branch |-> b1, pct |-> p1]
NoLeads  == [l \in Leads |-> [vendor |-> None, converted |-> FALSE]]

Empty == [lead |-> NoLeads, vendor |-> [w \in Vendors |-> Row("NONE")],
          paper |-> [w \in Vendors |-> [k \in Kinds |-> Blank]]]
OnPanel(v) == [Empty EXCEPT !.vendor[v] = Row("ACTIVE"), !.paper[v] = [k \in Kinds |-> Cleared]]
EmptyOrOne == {Empty} \cup {OnPanel(v) : v \in Vendors}

AsAtStart(v) == paper[v] \in {Empty.paper[v], OnPanel(v).paper[v]}
LeadsMove == lead # NoLeads \/ \E r \in Requests : request[r].kind \in {"CREATE", "LOOK", "LINK"}
TermsMove == \/ \E a \in Approvals : approval[a].kind # "NONE"
             \/ \E r \in Requests : request[r].kind = "UPDATE"
             \/ \E v \in Vendors : vendor[v].branch # b1 \/ vendor[v].pct # p1
PapersMove == today > 0 \/ \E v \in Vendors : ~AsAtStart(v)

Dated == today > 0 \/ \E v \in Vendors, k \in Documents : paper[v][k].validTo # None

Bound ==
    /\ ~(LeadsMove /\ TermsMove) /\ ~(LeadsMove /\ PapersMove) /\ ~(TermsMove /\ PapersMove)
    /\ TermsMove \/ PapersMove =>
         \E v \in Vendors : \A w \in Vendors \ {v} : ~Exists(w)
    /\ LeadsMove => \A v \in Vendors : vendor[v].party = "VENDOR"
    /\ Dated => \A r \in Requests : request[r] = Idle

Symmetry == Permutations(Vendors) \cup Permutations(Requests)
=============================================================================
