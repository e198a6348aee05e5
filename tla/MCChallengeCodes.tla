-------------------------- MODULE MCChallengeCodes --------------------------
(* ChallengeCodes for TLC: a random-code truth that rotates twice within the *)
(* validity of a code, and a TOTP truth, which both paths insert codes for.  *)
EXTENDS ChallengeCodes

MCRotation == [t \in Truths |-> 2]
MCIssueValidity == [t \in Truths |-> IF t \in CodeTruths THEN 4 ELSE 2]

\* The truths share nothing but the table: explore them one at a time.
OneTruthAtATime == Cardinality({c.truth : c \in codes}) <= 1
=============================================================================
