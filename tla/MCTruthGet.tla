----------------------------- MODULE MCTruthGet -----------------------------
(* TruthGet for TLC: two requests at a time, one method of each kind.        *)
EXTENDS TruthGet, TLC

CONSTANTS r1, r2, p1, p2

M(kind, cost, rotation, validity, retransmission, retries) ==
    [kind |-> kind, cost |-> cost, rotation |-> rotation, validity |-> validity,
     retransmission |-> retransmission, retries |-> retries]

PaidQuestion == M("question", TRUE, 2, 3, 0, 1)
FreeTotp == M("totp", FALSE, 2, 3, 0, 1)
PaidSms == M("helper", TRUE, 2, 3, 1, 1)
FreeSms == M("helper", FALSE, 2, 3, 1, 1)
Iban == M("iban", TRUE, 0, 9, 0, -1)
BriefIban == M("iban", FALSE, 0, 1, 0, -1)

I(pids, responses, waits) ==
    {[pid |-> p, response |-> s, wait |-> w] : p \in pids, s \in responses, w \in waits}

AnyPid == {NoPid} \cup Pids

MCInputs ==
    PaidQuestion :> I(AnyPid, {NoResponse, WrongResponse, RightResponse}, {1})
    @@ FreeTotp :> I({NoPid}, {NoResponse, WrongResponse, RightResponse}, {1})
    @@ PaidSms :> I(AnyPid, Codes \cup {NoResponse}, {1})
    @@ FreeSms :> I({NoPid}, Codes \cup {NoResponse, WrongResponse}, {0, 1})
    @@ Iban :> I({NoPid}, Codes \cup {NoResponse}, {0, 1})
    @@ BriefIban :> I({NoPid}, Codes \cup {NoResponse}, {0, 1})

OnlyTotp == {FreeTotp}
OnlyIban == {Iban}
OnlyPaidSms == {PaidSms}
MCMethods == {PaidQuestion, FreeTotp, PaidSms, FreeSms, Iban, BriefIban}
\* Every method with every kind of request, to be used with Totp or Iban alone.
AllInputs == [m \in MCMethods |-> I({NoPid}, Codes \cup {NoResponse, WrongResponse}, {0, 1})]

SlotSymmetry == Permutations(Slots)
=============================================================================
