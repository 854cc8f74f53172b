------------------------------ MODULE MCOutbox ------------------------------
(* Outbox with two workers, from six setups. *)
EXTENDS Outbox, TLC

CONSTANTS o1
On(kind, mail, push, url) == [kind |-> o1 :> kind, mail |-> mail, push |-> push, url |-> url]
Tried6 ==
    {On("CHANGE", "RESEND", TRUE, TRUE), On("REMINDER", "BREVO", TRUE, TRUE),
     On("REMINDER", "NONE", FALSE, FALSE), On("JOB", "BREVO", FALSE, TRUE),
     On("INVITE", "BREVO", FALSE, TRUE), On("INVITE", "BREVO", FALSE, FALSE)}
Symmetric == Permutations(Workers) \cup Permutations(Browsers) \cup Permutations(Addresses)
=============================================================================
