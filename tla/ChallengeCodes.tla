--------------------------- MODULE ChallengeCodes ---------------------------
(***************************************************************************)
(* The challenge codes of the backend over time: the database calls that   *)
(* the handler of GET /truth/$UUID makes (backend/anastasis-httpd_truth.c),*)
(* and its rate_limit, by which answers that are not compared with a       *)
(* stored code (security questions, TOTP) are limited.  The backend is one *)
(* thread and its database calls are synchronous, so each call is one      *)
(* action; each reads the clock once.                                      *)
(*                                                                         *)
(* All that is at stake here is how many guesses a client gets, whatever   *)
(* sequence of requests it sends and however they fall on the clock.       *)
(***************************************************************************)
EXTENDS ChallengeTable, Sequences

CONSTANTS
    CodeTruths,      \* truths whose method sends a random code (sms, email, ...)
    QuestionTruths,  \* truths answered by a security question
    TotpTruths,      \* truths whose code the user generates
    Codes,           \* the random codes, in place of 0 .. NONCE_MAX_VALUE - 1
    RetryCounter,    \* INITIAL_RETRY_COUNTER
    Rotation,        \* code_rotation_period, or MAX_QUESTION_FREQ, per truth
    IssueValidity,   \* code_validity_period of the truth's method
    AnswerValidity,  \* the validity rate_limit gives its codes: one hour
    MaxTime          \* bound on the clock

Truths == CodeTruths \cup QuestionTruths \cup TotpTruths
AnswerTruths == QuestionTruths \cup TotpTruths

ASSUME CodesAssumption == Codes \subseteq Nat
ASSUME RetryAssumption == RetryCounter \in Nat \ {0}
ASSUME PeriodAssumption ==
    /\ Rotation \in [Truths -> Nat \ {0}]
    /\ IssueValidity \in [Truths -> Nat]
    /\ AnswerValidity \in Nat
    /\ \A t \in Truths : Rotation[t] <= IssueValidity[t] /\ Rotation[t] <= AnswerValidity
ASSUME MaxTimeAssumption == MaxTime \in Nat

VARIABLES
    now,      \* GNUNET_TIME_absolute_get, in seconds
    codes,    \* the rows of anastasis_challengecode
    answers   \* history: the answers rate_limit let through, per truth: when,
              \* and the creation date of the code whose counter paid for it
vars == <<now, codes, answers>>

Rows == [truth: Truths, code: Codes, created: Nat, expires: Nat, retries: Nat,
         sent: Nat, satisfied: BOOLEAN, missed: Nat]
Answers == [at: Nat, created: Nat]

Init ==
    /\ now = 1
    /\ codes = {}
    /\ answers = [t \in Truths |-> <<>>]

Tick ==
    /\ now < MaxTime
    /\ now' = now + 1
    /\ UNCHANGED <<codes, answers>>

\* create_challenge_code when no active code is found.  (When there is one it
\* changes nothing: it returns that code, or no code if its tries are spent.)
CreateCode(t, code) ==
    /\ RecentRows(codes, t, now, Rotation[t]) = {}
    /\ codes' = codes \cup {NewRow(t, code, now, IssueValidity[t], RetryCounter)}
    /\ UNCHANGED <<now, answers>>

\* verify_challenge_code for the answer of a client to a random code.
VerifyCode(t, answer) ==
    /\ codes' = AfterVerify(codes, t, answer, now)
    /\ UNCHANGED <<now, answers>>

\* mark_challenge_code_satisfied, called by the plugins for a code they got
\* from the handler.
MarkSatisfied(t, code) ==
    /\ codes' = AfterSatisfied(codes, t, code)
    /\ UNCHANGED <<now, answers>>

MarkSent(t, code) ==
    /\ codes' = AfterSent(codes, t, code, now)
    /\ UNCHANGED <<now, answers>>

ChallengeGC ==
    /\ codes' = AfterGC(codes, now)
    /\ UNCHANGED <<now, answers>>

\* rate_limit from the point where create_challenge_code returned row n of
\* table on: it verifies code + 1, a wrong answer for n, and lets the client's
\* answer through if the outcome is a mismatch.  If code + 1 is another usable
\* code of this truth the process aborts (GNUNET_assert (0)), and if the
\* UPDATEs fail it replies with an error: the answer is not looked at, but the
\* tries are gone.
SpendTry(t, table, n) ==
    LET wrong == n.code + 1
    IN  /\ codes' = AfterVerify(table, t, wrong, now)
        /\ answers' =
              IF MatchingRows(table, t, wrong, now) = {} /\ ~VerifyFails(table, t, wrong, now)
              THEN [answers EXCEPT ![t] = Append(@, [at |-> now, created |-> n.created])]
              ELSE answers

\* rate_limit when it has to create the code itself.
FirstAnswer(t, code) ==
    /\ RecentRows(codes, t, now, Rotation[t]) = {}
    /\ LET n == NewRow(t, code, now, AnswerValidity, RetryCounter)
       IN  SpendTry(t, codes \cup {n}, n)
    /\ UNCHANGED now

\* Mutant: the counter of the code is not looked at.
NextAnswerUnlimited(t) ==
    /\ \E n \in NewestOf(RecentRows(codes, t, now, Rotation[t])) : SpendTry(t, codes, n)
    /\ UNCHANGED now

\* rate_limit when there is an active code with tries left.  (With none left
\* it replies 429 and changes nothing.)
NextAnswer(t) ==
    /\ \E n \in NewestOf(RecentRows(codes, t, now, Rotation[t])) :
          /\ n.retries # 0
          /\ SpendTry(t, codes, n)
    /\ UNCHANGED now

\* A response that is the hash of no code.
NoCode == -1

KnownCodes(t) == {c.code : c \in {d \in codes : d.truth = t}}

Next ==
    \/ Tick
    \/ \E t \in CodeTruths \cup TotpTruths, code \in Codes : CreateCode(t, code)
    \/ \E t \in CodeTruths, answer \in Codes \cup {NoCode} : VerifyCode(t, answer)
    \/ \E t \in CodeTruths : \E code \in KnownCodes(t) :
          MarkSatisfied(t, code) \/ MarkSent(t, code)
    \/ ChallengeGC
    \/ \E t \in AnswerTruths, code \in Codes : FirstAnswer(t, code)
    \/ \E t \in AnswerTruths : NextAnswer(t)

Spec == Init /\ [][Next]_vars

-----------------------------------------------------------------------------

TypeOK ==
    /\ now \in Nat
    /\ codes \subseteq Rows /\ IsFiniteSet(codes)
    /\ answers \in [Truths -> Seq(Answers)]

\* verify_challenge_code counts "failures to prevent brute-force attacks": no
\* code is ever compared with more wrong answers than it had tries, however
\* the requests, the rotation of codes and equal random codes interleave.
TriesBounded == \A c \in codes : c.retries + c.missed <= RetryCounter

\* create_challenge_code rotates: two codes of one truth are created at least
\* a rotation period apart, so a client cannot get fresh tries by asking for a
\* new code, nor by waiting for the garbage collection.
CodesSpaced ==
    \A c, d \in codes :
        c.truth = d.truth =>
            \/ c = d
            \/ c.created + Rotation[c.truth] <= d.created
            \/ d.created + Rotation[d.truth] <= c.created

\* What MAX_QUESTION_FREQ and INITIAL_RETRY_COUNTER amount to: any
\* 2 * RetryCounter + 1 answers in a row span at least one rotation period, so
\* a client has at most 2 * RetryCounter answers looked at in any such period.
AnswerRate ==
    \A t \in Truths : \A i, j \in 1 .. Len(answers[t]) :
        j = i + 2 * RetryCounter => answers[t][j].at >= answers[t][i].at + Rotation[t]

\* The tries of a stored code never come back and its life is never
\* prolonged, whatever is called.
NothingRevives ==
    [][\A c \in codes, d \in codes' :
          c.truth = d.truth /\ c.created = d.created /\ c.code = d.code
              => d.retries <= c.retries /\ d.expires = c.expires]_vars
=============================================================================
