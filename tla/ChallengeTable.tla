--------------------------- MODULE ChallengeTable ---------------------------
(***************************************************************************)
(* The table anastasis_challengecode and the database calls on it:         *)
(* stasis/plugin_anastasis_postgres.c over stasis/stasis-0001.sql.         *)
(* The calls are operators from a table (a set of rows) and the arguments  *)
(* of the call to a table or to a set of rows, so that every component     *)
(* that talks to the database uses the same ones.  Dates count seconds:    *)
(* the plugin rounds every date it stores to full seconds.                 *)
(***************************************************************************)
EXTENDS Integers, FiniteSets

\* The row create_challenge_code inserts; satisfied and retransmission_date
\* get their SQL defaults.  The column missed is not in the code: it is
\* history, the number of wrong answers compared with the row so far.
NewRow(truth, code, now, validity, retry_counter) ==
    [truth |-> truth, code |-> code, created |-> now,
     expires |-> now + validity, retries |-> retry_counter,
     sent |-> 0, satisfied |-> FALSE, missed |-> 0]

-----------------------------------------------------------------------------
(* create_challenge_code *)

\* Mutant: a code without tries is replaced by a new one at once.
RecentRowsWithTries(table, truth, now, rotation) ==
    {c \in table : /\ c.truth = truth /\ c.expires > now /\ c.created > now - rotation
                   /\ c.retries # 0}

\* Statement challengecode_select_meta, before ORDER BY and LIMIT.
RecentRows(table, truth, now, rotation) ==
    {c \in table : c.truth = truth /\ c.expires > now /\ c.created > now - rotation}

\* Its ORDER BY creation_date DESC LIMIT 1.  A tie is left to the database.
NewestOf(rows) == {c \in rows : \A d \in rows : d.created <= c.created}

-----------------------------------------------------------------------------
(* verify_challenge_code *)

\* Statement challengecode_select.
UsableRows(table, truth, now) ==
    {c \in table : c.truth = truth /\ c.expires > now /\ c.retries # 0}

MatchingRows(table, truth, answer, now) ==
    {c \in UsableRows(table, truth, now) : c.code = answer}

\* How many of the selected rows hold this code: check_valid_code runs one
\* UPDATE per selected row that does not match, and selects the rows to
\* update by their code.
Hits(table, truth, code, now) ==
    Cardinality({c \in UsableRows(table, truth, now) : c.code = code})

\* Mutant: the statement lacks its condition retry_counter != 0.
DecrementedPastZero(retries, hits) == retries - hits

\* hits executions of challengecode_update_retry on one row.  It never leaves
\* 0; a counter that starts out negative keeps falling.
Decremented(retries, hits) ==
    IF retries < 0 \/ retries > hits THEN retries - hits ELSE 0

\* Mutant: codes that are satisfied are not charged.
MissedUnlessSatisfied(table, truth, answer, now, c) ==
    IF c.truth # truth \/ c.code = answer THEN c
    ELSE [c EXCEPT !.retries = IF c.satisfied THEN @
                               ELSE Decremented(@, Hits(table, truth, c.code, now)),
                   !.missed = IF c \in UsableRows(table, truth, now) THEN @ + 1 ELSE @]

Missed(table, truth, answer, now, c) ==
    IF c.truth # truth \/ c.code = answer THEN c
    ELSE [c EXCEPT !.retries = Decremented(@, Hits(table, truth, c.code, now)),
                   !.missed = IF c \in UsableRows(table, truth, now) THEN @ + 1 ELSE @]

\* The table once verify_challenge_code has counted the failures.
AfterVerify(table, truth, answer, now) ==
    {Missed(table, truth, answer, now, c) : c \in table}

\* cvc.db_failure: some selected row is at 0 when its UPDATE runs, because
\* the UPDATEs of other rows with the same code emptied it before.
VerifyFails(table, truth, answer, now) ==
    \E d \in UsableRows(table, truth, now) :
        /\ d.code # answer
        /\ \A c \in table :
              c.truth = truth /\ c.code = d.code
                  => c.retries \in 0 .. (Hits(table, truth, d.code, now) - 1)

-----------------------------------------------------------------------------
(* mark_challenge_code_satisfied, mark_challenge_sent, challenge_gc *)

\* The subquery of challengecode_set_satisfied and challengecode_mark_sent:
\* the newest row with this code, expired or not.
Addressed(table, truth, code) ==
    NewestOf({c \in table : c.truth = truth /\ c.code = code})

AfterSatisfied(table, truth, code) ==
    {IF c \in Addressed(table, truth, code) THEN [c EXCEPT !.satisfied = TRUE] ELSE c
        : c \in table}

\* Mutant: a retransmission gives the code a new life.
AfterSentRenewed(table, truth, code, now) ==
    {IF c \in Addressed(table, truth, code)
     THEN [c EXCEPT !.sent = now, !.expires = @ + (now - c.created)] ELSE c : c \in table}

AfterSent(table, truth, code, now) ==
    {IF c \in Addressed(table, truth, code) THEN [c EXCEPT !.sent = now] ELSE c
        : c \in table}

\* Statement challengecode_test_satisfied.
IsSatisfied(table, truth, code, after) ==
    \E c \in table : c.truth = truth /\ c.code = code /\ c.satisfied /\ c.created >= after

\* Statement gc_challengecodes.
AfterGC(table, now) == {c \in table : c.expires >= now}
=============================================================================
