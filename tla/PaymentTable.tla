---------------------------- MODULE PaymentTable ----------------------------
(***************************************************************************)
(* The table anastasis_challenge_payment for one truth and the database    *)
(* calls on it (stasis/plugin_anastasis_postgres.c).  The table is a       *)
(* function from the payment identifiers to rows; the backend draws a new  *)
(* random identifier for every order, so no identifier has two rows.       *)
(***************************************************************************)
EXTENDS Integers, FiniteSets

\* No row: the identifier is unknown.
Absent == [known |-> FALSE]

\* record_challenge_payment.  counter, paid and refunded get SQL defaults.
NewPayment(now, counter) ==
    [known |-> TRUE, created |-> now, counter |-> counter, paid |-> FALSE, refunded |-> FALSE]

\* lookup_challenge_payment: statement challenge_pending_payment_select.
PendingPayments(pays, now, lifetime) ==
    {p \in DOMAIN pays : /\ pays[p].known
                         /\ ~pays[p].paid /\ ~pays[p].refunded
                         /\ pays[p].created > now - lifetime}

\* check_challenge_payment: statement challenge_payment_select finds the row ...
Usable(pays, p) ==
    pays[p].known /\ ~pays[p].refunded /\ pays[p].counter > 0

\* Mutant: that the row exists is taken for its being paid.
CoversUnpaid(pays, p) == Usable(pays, p)

\* ... and reports it as paid.
Covers(pays, p) == Usable(pays, p) /\ pays[p].paid

\* update_challenge_payment.
AfterPaid(pays, p) ==
    IF pays[p].known /\ ~pays[p].refunded THEN [pays EXCEPT ![p].paid = TRUE] ELSE pays

\* record_challenge_refund.
AfterRefund(pays, p) ==
    IF pays[p].known /\ pays[p].paid THEN [pays EXCEPT ![p].refunded = TRUE] ELSE pays

\* The second half of mark_challenge_sent: challengepayment_dec_counter.
AfterIssue(pays, p) ==
    IF pays[p].known /\ pays[p].counter > 0 THEN [pays EXCEPT ![p].counter = @ - 1] ELSE pays
=============================================================================
