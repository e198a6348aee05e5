------------------------ MODULE ChallengeCodesProofs ------------------------
(***************************************************************************)
(* Proofs about ChallengeCodes for every set of truths and codes, every    *)
(* retry counter and all periods.                                          *)
(*                                                                         *)
(* None of the properties is inductive.  The invariant below ties the      *)
(* history of answers to the rows that paid for them, and to the clock     *)
(* where the garbage collection has removed those rows.  Its parts are     *)
(* operators of a table, because rate_limit passes through a table that is *)
(* no state of the system: the one with the new row, before the UPDATEs.   *)
(***************************************************************************)
EXTENDS ChallengeCodes, FiniteSetTheorems, TLAPS

\* What holds of the rows at a time.
RowsOK(table, clock) ==
    /\ table \subseteq Rows /\ IsFiniteSet(table)
    /\ \A c \in table :
          /\ c.retries + c.missed <= RetryCounter
          /\ c.created <= clock
          /\ c.created + Rotation[c.truth] <= c.expires
    /\ \A c, d \in table :
          c.truth = d.truth =>
              \/ c = d
              \/ c.created + Rotation[c.truth] <= d.created
              \/ d.created + Rotation[d.truth] <= c.created

\* Each answer is dated, and its code is still stored or at least one rotation
\* period old.
Dated(table, t, s, clock) ==
    \A i \in 1 .. Len(s) :
        /\ s[i].created <= s[i].at /\ s[i].at <= clock
        /\ \/ s[i].created + Rotation[t] <= clock
           \/ \E c \in table : c.truth = t /\ c.created = s[i].created

\* A stored code and the code of an answer are the same or apart, and a code
\* is only created after the answers that older codes paid for.
Apart(table, t, s) ==
    \A c \in table : c.truth = t =>
        \A i \in 1 .. Len(s) :
            /\ \/ s[i].created = c.created
               \/ s[i].created + Rotation[t] <= c.created
               \/ c.created + Rotation[t] <= s[i].created
            /\ s[i].created < c.created => s[i].at <= c.created

\* The codes of successive answers are the same or apart.
Ordered(t, s) ==
    \A i, j \in 1 .. Len(s) :
        i < j => \/ s[i].created = s[j].created
                 \/ /\ s[i].created + Rotation[t] <= s[j].created
                    /\ s[i].at <= s[j].created

\* No code pays for more than RetryCounter answers ...
Counted(s) ==
    \A i, j \in 1 .. Len(s) : j = i + RetryCounter => s[i].created # s[j].created

\* ... because the code of the last answer has lost a try for each.
Paid(table, t, s) ==
    \A c \in table : c.truth = t =>
        \A i \in 1 .. Len(s) :
            s[i].created = c.created /\ s[Len(s)].created = c.created
                => c.retries + (Len(s) - i) + 1 <= RetryCounter

LogOK(table, t, s, clock) ==
    /\ s \in Seq(Answers)
    /\ Dated(table, t, s, clock)
    /\ Apart(table, t, s)
    /\ Ordered(t, s)
    /\ Counted(s)
    /\ Paid(table, t, s)

IInv ==
    /\ now \in Nat \ {0}
    /\ RowsOK(codes, now)
    /\ answers \in [Truths -> Seq(Answers)]
    /\ \A t \in Truths : LogOK(codes, t, answers[t], now)

-----------------------------------------------------------------------------

\* The dates of an answer are dates.
LEMMA EntryType ==
    ASSUME NEW s \in Seq(Answers), NEW i \in 1 .. Len(s)
    PROVE  s[i].at \in Nat /\ s[i].created \in Nat
<1>1. s[i] \in Answers  OBVIOUS
<1> QED  BY <1>1 DEF Answers

\* A call that maps each row to a row with the same key and dates and no more
\* tries keeps what holds of rows and answers.
LEMMA ImageOK ==
    ASSUME NEW table, NEW clock \in Nat, RowsOK(table, clock), NEW f,
           \A c \in table :
              /\ f[c] \in Rows
              /\ f[c].truth = c.truth /\ f[c].created = c.created /\ f[c].expires = c.expires
              /\ f[c].retries <= c.retries
              /\ f[c].retries + f[c].missed <= RetryCounter
    PROVE  /\ RowsOK({f[c] : c \in table}, clock)
           /\ \A t \in Truths, s \in Seq(Answers) :
                 LogOK(table, t, s, clock) => LogOK({f[c] : c \in table}, t, s, clock)
<1> DEFINE image == {f[c] : c \in table}
           g == [c \in table |-> f[c]]
<1>1. IsFiniteSet(image)
  <2>1. IsFiniteSet(table)  BY DEF RowsOK
  <2>2. g \in Surjection(table, image)  BY DEF Surjection
  <2> QED  BY <2>1, <2>2, FS_Surjection
<1>2. RowsOK(image, clock)
  <2>1. image \subseteq Rows  OBVIOUS
  <2>2. \A d \in image :
            /\ d.retries + d.missed <= RetryCounter
            /\ d.created <= clock
            /\ d.created + Rotation[d.truth] <= d.expires
    BY DEF RowsOK
  <2>3. \A c, d \in image :
            c.truth = d.truth =>
              \/ c = d
              \/ c.created + Rotation[c.truth] <= d.created
              \/ d.created + Rotation[d.truth] <= c.created
    BY DEF RowsOK
  <2> QED  BY <1>1, <2>1, <2>2, <2>3 DEF RowsOK
<1>3. ASSUME NEW t \in Truths, NEW s \in Seq(Answers), LogOK(table, t, s, clock)
      PROVE  LogOK(image, t, s, clock)
  <2>1. Dated(image, t, s, clock)
    BY <1>3 DEF LogOK, Dated
  <2>2. Apart(image, t, s)
    BY <1>3 DEF LogOK, Apart
  <2>3. Paid(image, t, s)
    <3> SUFFICES ASSUME NEW c \in table, f[c].truth = t,
                        NEW i \in 1 .. Len(s),
                        s[i].created = f[c].created, s[Len(s)].created = f[c].created
                 PROVE  f[c].retries + (Len(s) - i) + 1 <= RetryCounter
      BY DEF Paid
    <3>1. c.retries + (Len(s) - i) + 1 <= RetryCounter
      BY <1>3 DEF LogOK, Paid
    <3>2. c.retries \in Nat /\ f[c].retries \in Nat /\ f[c].retries <= c.retries
      BY DEF RowsOK, Rows
    <3> QED  BY <3>1, <3>2, RetryAssumption
  <2> QED  BY <1>3, <2>1, <2>2, <2>3 DEF LogOK
<1> QED  BY <1>2, <1>3


\* The hits on a selected row are at least one: its own UPDATE.
LEMMA HitsPositive ==
    ASSUME NEW table, IsFiniteSet(table), NEW t, NEW clock,
           NEW c \in UsableRows(table, t, clock)
    PROVE  Hits(table, t, c.code, clock) \in Nat \ {0}
<1> DEFINE hit == {d \in UsableRows(table, t, clock) : d.code = c.code}
<1>1. IsFiniteSet(hit)  BY FS_Subset DEF UsableRows
<1>2. c \in hit  OBVIOUS
<1>3. Cardinality(hit) \in Nat /\ Cardinality(hit) # 0
  BY <1>1, <1>2, FS_EmptySet, FS_CardinalityType
<1> QED  BY <1>3 DEF Hits

\* Hits is a natural number, whatever the code.
LEMMA HitsNat ==
    ASSUME NEW table, IsFiniteSet(table), NEW t, NEW clock, NEW v
    PROVE  Hits(table, t, v, clock) \in Nat
<1>1. IsFiniteSet({d \in UsableRows(table, t, clock) : d.code = v})
  BY FS_Subset DEF UsableRows
<1> QED  BY <1>1, FS_CardinalityType DEF Hits

\* verify_challenge_code only wears rows down: a row it selects and finds wrong
\* loses at least one try for the one wrong answer it has absorbed.
LEMMA MissedRow ==
    ASSUME NEW table, NEW clock \in Nat, RowsOK(table, clock), NEW t, NEW answer,
           NEW c \in table
    PROVE  LET d == Missed(table, t, answer, clock, c)
           IN  /\ d \in Rows
               /\ d.truth = c.truth /\ d.code = c.code
               /\ d.created = c.created /\ d.expires = c.expires
               /\ d.retries <= c.retries
               /\ d.retries + d.missed <= RetryCounter
               /\ c \in UsableRows(table, t, clock) /\ c.code # answer
                    => d.retries < c.retries
<1> DEFINE d == Missed(table, t, answer, clock, c)
           h == Hits(table, t, c.code, clock)
           used == c \in UsableRows(table, t, clock)
<1>1. c \in Rows /\ c.retries + c.missed <= RetryCounter  BY DEF RowsOK
<1>2. h \in Nat  BY HitsNat DEF RowsOK
<1>3. used => h # 0 /\ c.retries # 0 /\ c.truth = t
  BY HitsPositive DEF RowsOK, UsableRows
<1>4. CASE c.truth # t \/ c.code = answer
  <2>1. d = c  BY <1>4 DEF Missed
  <2> QED  BY <1>1, <1>3, <1>4, <2>1 DEF Rows
<1>5. CASE c.truth = t /\ c.code # answer
  <2>1. d = [c EXCEPT !.retries = Decremented(c.retries, h),
                      !.missed = IF used THEN c.missed + 1 ELSE c.missed]
    BY <1>5 DEF Missed
  <2>2. /\ Decremented(c.retries, h) \in Nat
        /\ Decremented(c.retries, h) <= c.retries
        /\ used => Decremented(c.retries, h) < c.retries
    BY <1>1, <1>2, <1>3 DEF Decremented, Rows
  <2>3. d \in Rows
    <3>1. \A r, m \in Nat : [c EXCEPT !.retries = r, !.missed = m] \in Rows
      BY <1>1 DEF Rows
    <3>2. (IF used THEN c.missed + 1 ELSE c.missed) \in Nat
      BY <1>1 DEF Rows
    <3> QED  BY <2>1, <2>2, <3>1, <3>2
  <2>4. /\ d.truth = c.truth /\ d.code = c.code
        /\ d.created = c.created /\ d.expires = c.expires
        /\ d.retries = Decremented(c.retries, h)
        /\ d.missed = IF used THEN c.missed + 1 ELSE c.missed
    BY <1>1, <2>1 DEF Rows
  <2>5. d.retries + d.missed <= RetryCounter
    BY <1>1, <2>2, <2>4, RetryAssumption DEF Rows
  <2> QED  BY <2>2, <2>3, <2>4, <2>5
<1> QED  BY <1>4, <1>5

\* The same for the whole table.
LEMMA VerifyOK ==
    ASSUME NEW table, NEW clock \in Nat, RowsOK(table, clock), NEW t, NEW answer
    PROVE  /\ RowsOK(AfterVerify(table, t, answer, clock), clock)
           /\ \A u \in Truths, s \in Seq(Answers) :
                 LogOK(table, u, s, clock)
                   => LogOK(AfterVerify(table, t, answer, clock), u, s, clock)
<1> DEFINE f == [c \in table |-> Missed(table, t, answer, clock, c)]
<1>1. \A c \in table :
              /\ f[c] \in Rows
              /\ f[c].truth = c.truth /\ f[c].created = c.created /\ f[c].expires = c.expires
              /\ f[c].retries <= c.retries
              /\ f[c].retries + f[c].missed <= RetryCounter
  BY MissedRow
<1>2. AfterVerify(table, t, answer, clock) = {f[c] : c \in table}
  BY DEF AfterVerify
<1> HIDE DEF f
<1> QED  BY <1>1, <1>2, ImageOK

-----------------------------------------------------------------------------

\* create_challenge_code may insert where it does: the new row is a rotation
\* period away from every row and every answer there has been.
LEMMA CreateOK ==
    ASSUME NEW table, NEW clock \in Nat, RowsOK(table, clock),
           NEW t \in Truths, NEW code \in Codes,
           NEW validity \in Nat, Rotation[t] <= validity,
           RecentRows(table, t, clock, Rotation[t]) = {}
    PROVE  LET n == NewRow(t, code, clock, validity, RetryCounter)
           IN  /\ RowsOK(table \cup {n}, clock)
               /\ n \in NewestOf(RecentRows(table \cup {n}, t, clock, Rotation[t]))
               /\ \A u \in Truths, s \in Seq(Answers) :
                     LogOK(table, u, s, clock) => LogOK(table \cup {n}, u, s, clock)
<1> DEFINE n == NewRow(t, code, clock, validity, RetryCounter)
<1>0. /\ n \in Rows /\ n.truth = t /\ n.created = clock /\ n.expires = clock + validity
      /\ n.retries = RetryCounter /\ n.missed = 0
  BY RetryAssumption DEF NewRow, Rows
<1>r. \A u \in Truths : Rotation[u] \in Nat \ {0}  BY PeriodAssumption
<1>t. \A c \in table : /\ c \in Rows /\ c.created \in Nat /\ c.expires \in Nat
                       /\ c.truth \in Truths /\ c.created <= clock
                       /\ c.created + Rotation[c.truth] <= c.expires
  BY DEF RowsOK, Rows
<1>1. \A c \in table : c.truth = t => c.created + Rotation[t] <= clock
  BY <1>r, <1>t DEF RecentRows
<1>2. RowsOK(table \cup {n}, clock)
  <2>1. table \cup {n} \subseteq Rows /\ IsFiniteSet(table \cup {n})
    BY <1>0, FS_AddElement DEF RowsOK
  <2>2. \A c \in table \cup {n} :
            /\ c.retries + c.missed <= RetryCounter
            /\ c.created <= clock
            /\ c.created + Rotation[c.truth] <= c.expires
    BY <1>0, <1>r, RetryAssumption DEF RowsOK
  <2>3. \A c, d \in table \cup {n} :
            c.truth = d.truth =>
              \/ c = d
              \/ c.created + Rotation[c.truth] <= d.created
              \/ d.created + Rotation[d.truth] <= c.created
    BY <1>0, <1>1 DEF RowsOK
  <2> QED  BY <2>1, <2>2, <2>3 DEF RowsOK
<1>3. n \in NewestOf(RecentRows(table \cup {n}, t, clock, Rotation[t]))
  BY <1>0, <1>r, <1>t DEF NewestOf, RecentRows
<1>4. ASSUME NEW u \in Truths, NEW s \in Seq(Answers), LogOK(table, u, s, clock)
      PROVE  LogOK(table \cup {n}, u, s, clock)
  <2>s. \A i \in 1 .. Len(s) : s[i].at \in Nat /\ s[i].created \in Nat
    BY EntryType
  <2>1. Dated(table \cup {n}, u, s, clock)
    BY <1>4 DEF LogOK, Dated
  <2>2. u = t => \A i \in 1 .. Len(s) :
                   s[i].created + Rotation[t] <= clock /\ s[i].at <= clock
    BY <1>4, <1>1, <2>s DEF LogOK, Dated
  <2>3. Apart(table \cup {n}, u, s)
    BY <1>4, <1>0, <1>r, <2>s, <2>2 DEF LogOK, Apart
  <2>4. u = t => \A i \in 1 .. Len(s) : s[i].created # n.created
    BY <1>0, <1>r, <2>s, <2>2
  <2>5. Paid(table \cup {n}, u, s)
    BY <1>4, <1>0, <2>4 DEF LogOK, Paid
  <2> QED  BY <1>4, <2>1, <2>3, <2>5 DEF LogOK
<1> QED  BY <1>2, <1>3, <1>4

\* rate_limit may let an answer through where it does: the row n that pays for
\* it has a try left, and loses it.
LEMMA SpendOK ==
    ASSUME NEW table, NEW clock \in Nat, RowsOK(table, clock),
           NEW t \in Truths, NEW s \in Seq(Answers), LogOK(table, t, s, clock),
           NEW n \in NewestOf(RecentRows(table, t, clock, Rotation[t])), n.retries # 0
    PROVE  LogOK(AfterVerify(table, t, n.code + 1, clock), t,
                 Append(s, [at |-> clock, created |-> n.created]), clock)
<1> DEFINE e == [at |-> clock, created |-> n.created]
           s2 == Append(s, e)
           after == AfterVerify(table, t, n.code + 1, clock)
           R == Rotation[t]
<1>r. R \in Nat \ {0}  BY PeriodAssumption
<1>s. \A i \in 1 .. Len(s) : s[i].at \in Nat /\ s[i].created \in Nat
  BY EntryType
<1>t. \A c \in table : /\ c \in Rows /\ c.created \in Nat /\ c.expires \in Nat
                       /\ c.retries \in Nat /\ c.missed \in Nat /\ c.code \in Nat
                       /\ c.created <= clock
                       /\ c.created + Rotation[c.truth] <= c.expires
                       /\ c.retries + c.missed <= RetryCounter
  BY CodesAssumption DEF RowsOK, Rows
<1>n. /\ n \in table /\ n.truth = t /\ n.created > clock - R /\ n.expires > clock
      /\ n \in UsableRows(table, t, clock) /\ n.code # n.code + 1
  BY <1>t DEF NewestOf, RecentRows, UsableRows
<1>2. /\ e \in Answers /\ s2 \in Seq(Answers) /\ Len(s2) = Len(s) + 1
      /\ \A i \in 1 .. Len(s) : s2[i] = s[i]
      /\ s2[Len(s) + 1] = e
      /\ e.at = clock /\ e.created = n.created
  BY <1>n, <1>t DEF Answers
<1>3. LogOK(after, t, s, clock)
  BY VerifyOK
<1>4. \A c \in table : c.truth = t => c.created <= n.created
  <2> SUFFICES ASSUME NEW c \in table, c.truth = t PROVE c.created <= n.created
    OBVIOUS
  <2>1. c.created \in Nat /\ c.created <= clock /\ c.created + R <= c.expires
    BY <1>t
  <2>2. n.created \in Nat /\ n.created > clock - R
    BY <1>n, <1>t
  <2>3. CASE c \in RecentRows(table, t, clock, R)
    BY <2>3 DEF NewestOf
  <2>4. CASE c \notin RecentRows(table, t, clock, R)
    <3>1. ~(c.expires > clock /\ c.created > clock - R)
      BY <2>4 DEF RecentRows
    <3> QED  BY <3>1, <2>1, <2>2, <1>t, <1>r
  <2> QED  BY <2>3, <2>4
<1>5. \A i \in 1 .. Len(s) :
         /\ s[i].at <= clock /\ s[i].created <= clock
         /\ \/ s[i].created = n.created
            \/ s[i].created + R <= n.created /\ s[i].at <= n.created
  <2> TAKE i \in 1 .. Len(s)
  <2>1. s[i].at \in Nat /\ s[i].created \in Nat  BY <1>s
  <2>2. n.created \in Nat /\ clock < n.created + R  BY <1>n, <1>t, <1>r
  <2>3. s[i].created <= s[i].at /\ s[i].at <= clock  BY DEF LogOK, Dated
  <2>4. /\ \/ s[i].created = n.created
           \/ s[i].created + R <= n.created
           \/ n.created + R <= s[i].created
        /\ s[i].created < n.created => s[i].at <= n.created
    BY <1>n DEF LogOK, Apart
  <2> QED  BY <1>r, <2>1, <2>2, <2>3, <2>4
<1>6. \A d \in after : d.truth = t =>
         /\ d.created <= n.created /\ d.created \in Nat /\ d.retries \in Nat
         /\ d.created = n.created => d.retries < n.retries
         /\ d.created # n.created => d.created + R <= n.created
  <2> TAKE d \in after
  <2>1. PICK c \in table : d = Missed(table, t, n.code + 1, clock, c)
    BY DEF AfterVerify
  <2>2. d \in Rows /\ d.truth = c.truth /\ d.created = c.created
    BY <2>1, MissedRow
  <2>3. d.created \in Nat /\ d.retries \in Nat  BY <2>2 DEF Rows
  <2> HAVE d.truth = t
  <2>4. c.created = n.created => c = n
    BY <2>2, <1>n, <1>t, <1>r DEF RowsOK
  <2>5. c = n => d.retries < n.retries
    BY <2>1, <1>n, MissedRow
  <2>6. c.created # n.created => c.created + R <= n.created
    BY <2>2, <1>n, <1>t, <1>r, <1>4, SMTT(40) DEF RowsOK
  <2> QED  BY <2>2, <2>3, <2>4, <2>5, <2>6, <1>4
<1>7. \E d \in after : d.truth = t /\ d.created = n.created
  <2>1. Missed(table, t, n.code + 1, clock, n) \in after  BY <1>n DEF AfterVerify
  <2> QED  BY <2>1, <1>n, MissedRow
<1>8. Dated(after, t, s2, clock)
  BY <1>2, <1>3, <1>7, <1>n, <1>t DEF LogOK, Dated
<1>9. Apart(after, t, s2)
  <2> SUFFICES ASSUME NEW c \in after, c.truth = t, NEW i \in 1 .. Len(s2)
               PROVE  /\ \/ s2[i].created = c.created
                         \/ s2[i].created + R <= c.created
                         \/ c.created + R <= s2[i].created
                      /\ s2[i].created < c.created => s2[i].at <= c.created
    BY DEF Apart
  <2>1. CASE i \in 1 .. Len(s)  BY <2>1, <1>2, <1>3 DEF LogOK, Apart
  <2>2. CASE i = Len(s) + 1  BY <2>2, <1>2, <1>6, <1>n, <1>t
  <2> QED  BY <2>1, <2>2, <1>2
<1>10. Ordered(t, s2)
  <2> SUFFICES ASSUME NEW i \in 1 .. Len(s2), NEW j \in 1 .. Len(s2), i < j
               PROVE  \/ s2[i].created = s2[j].created
                      \/ /\ s2[i].created + R <= s2[j].created
                         /\ s2[i].at <= s2[j].created
    BY DEF Ordered
  <2>1. CASE j \in 1 .. Len(s)  BY <2>1, <1>2, <1>3 DEF LogOK, Ordered
  <2>2. CASE j = Len(s) + 1  BY <2>2, <1>2, <1>5
  <2> QED  BY <2>1, <2>2, <1>2
<1>11. \A i \in 1 .. Len(s) :
          s[i].created = n.created => n.retries + (Len(s) - i) + 1 <= RetryCounter
  <2> SUFFICES ASSUME NEW i \in 1 .. Len(s), s[i].created = n.created
               PROVE  n.retries + (Len(s) - i) + 1 <= RetryCounter
    OBVIOUS
  <2>1. s[Len(s)].created = n.created
    BY <1>5, <1>s, <1>r DEF LogOK, Ordered
  <2> QED  BY <2>1, <1>n DEF LogOK, Paid
<1>12. Counted(s2)
  <2> SUFFICES ASSUME NEW i \in 1 .. Len(s2), NEW j \in 1 .. Len(s2), j = i + RetryCounter
               PROVE  s2[i].created # s2[j].created
    BY DEF Counted
  <2>1. CASE j \in 1 .. Len(s)
    BY <2>1, <1>2, <1>3, RetryAssumption DEF LogOK, Counted
  <2>2. CASE j = Len(s) + 1
    <3>1. i \in 1 .. Len(s)  BY <2>2, RetryAssumption
    <3>2. Len(s) - i + 1 = RetryCounter  BY <2>2, <3>1, RetryAssumption
    <3>3. n.retries \in Nat \ {0}  BY <1>n, <1>t
    <3>4. s[i].created # n.created
      BY <1>11, <3>1, <3>2, <3>3, RetryAssumption
    <3> QED  BY <2>2, <3>1, <3>4, <1>2
  <2> QED  BY <2>1, <2>2, <1>2
<1>13. Paid(after, t, s2)
  <2> SUFFICES ASSUME NEW c \in after, c.truth = t, NEW i \in 1 .. Len(s2),
                      s2[i].created = c.created, s2[Len(s2)].created = c.created
               PROVE  c.retries + (Len(s2) - i) + 1 <= RetryCounter
    BY DEF Paid
  <2>1. c.created = n.created /\ c.retries < n.retries /\ c.retries \in Nat
    BY <1>2, <1>6
  <2>2. CASE i \in 1 .. Len(s)
    BY <2>1, <2>2, <1>2, <1>11, <1>n, <1>t, RetryAssumption, SMTT(40)
  <2>3. CASE i = Len(s) + 1
    BY <2>1, <2>3, <1>2, <1>n, <1>t, RetryAssumption
  <2> QED  BY <2>2, <2>3, <1>2
<1> QED  BY <1>2, <1>8, <1>9, <1>10, <1>12, <1>13 DEF LogOK

-----------------------------------------------------------------------------

\* rate_limit as a whole, from a table in which n is the newest recent row.
LEMMA SpendTryOK ==
    ASSUME NEW table, now \in Nat, RowsOK(table, now),
           answers \in [Truths -> Seq(Answers)],
           \A u \in Truths : LogOK(table, u, answers[u], now),
           NEW t \in Truths,
           NEW n \in NewestOf(RecentRows(table, t, now, Rotation[t])), n.retries # 0,
           SpendTry(t, table, n)
    PROVE  /\ RowsOK(codes', now)
           /\ answers' \in [Truths -> Seq(Answers)]
           /\ \A u \in Truths : LogOK(codes', u, answers'[u], now)
<1> DEFINE after == AfterVerify(table, t, n.code + 1, now)
           s2 == Append(answers[t], [at |-> now, created |-> n.created])
<1>1. codes' = after  BY DEF SpendTry
<1>2. RowsOK(after, now) /\ \A u \in Truths : LogOK(after, u, answers[u], now)
  BY VerifyOK
<1>3. LogOK(after, t, s2, now)  BY SpendOK
<1>4. answers' = answers \/ answers' = [answers EXCEPT ![t] = s2]
  BY DEF SpendTry
<1>5. s2 \in Seq(Answers)  BY <1>3 DEF LogOK
<1> HIDE DEF after, s2
<1>6. answers' \in [Truths -> Seq(Answers)]  BY <1>4, <1>5
<1>7. \A u \in Truths : answers'[u] = answers[u] \/ (u = t /\ answers'[u] = s2)
  BY <1>4
<1>8. \A u \in Truths : LogOK(after, u, answers'[u], now)
  BY <1>2, <1>3, <1>7
<1> QED  BY <1>1, <1>2, <1>6, <1>8

\* The invariant holds at the start.
LEMMA InitOK == Init => IInv
<1> SUFFICES ASSUME Init PROVE IInv  OBVIOUS
<1>1. RowsOK({}, now)  BY FS_EmptySet DEF RowsOK
<1>2. \A t \in Truths : answers[t] = <<>>  BY DEF Init
<1>3. \A t \in Truths : LogOK({}, t, <<>>, now)
  BY DEF LogOK, Dated, Apart, Ordered, Counted, Paid
<1> QED  BY <1>1, <1>2, <1>3 DEF Init, IInv

\* Every step keeps the invariant.
LEMMA StepOK == IInv /\ [Next]_vars => IInv'
<1> SUFFICES ASSUME IInv, [Next]_vars PROVE IInv'  OBVIOUS
<1>i. /\ now \in Nat \ {0} /\ RowsOK(codes, now)
      /\ answers \in [Truths -> Seq(Answers)]
      /\ \A t \in Truths : answers[t] \in Seq(Answers) /\ LogOK(codes, t, answers[t], now)
  BY DEF IInv
<1>r. \A t \in Truths : Rotation[t] \in Nat \ {0}  BY PeriodAssumption
<1>t. \A c \in codes : /\ c \in Rows /\ c.created \in Nat /\ c.expires \in Nat
                       /\ c.truth \in Truths /\ c.retries \in Nat /\ c.missed \in Nat
                       /\ c.retries + c.missed <= RetryCounter
  BY <1>i DEF RowsOK, Rows
\* A call that leaves clock and answers alone has to keep rows and logs.
<1>u. ASSUME UNCHANGED <<now, answers>>, RowsOK(codes', now),
             \A t \in Truths, s \in Seq(Answers) :
                LogOK(codes, t, s, now) => LogOK(codes', t, s, now)
      PROVE  IInv'
  BY <1>i, <1>u DEF IInv
<1>1. CASE Tick
  <2>1. now' = now + 1 /\ codes' = codes /\ answers' = answers  BY <1>1 DEF Tick
  <2>2. RowsOK(codes, now + 1)  BY <1>i, <1>t DEF RowsOK
  <2>3. ASSUME NEW t \in Truths PROVE LogOK(codes, t, answers[t], now + 1)
    <3>1. \A i \in 1 .. Len(answers[t]) :
             answers[t][i].at \in Nat /\ answers[t][i].created \in Nat
      BY <1>i, EntryType
    <3>2. Dated(codes, t, answers[t], now + 1)
      BY <1>i, <1>r, <3>1 DEF LogOK, Dated
    <3> QED  BY <1>i, <3>2 DEF LogOK
  <2> QED  BY <1>i, <2>1, <2>2, <2>3 DEF IInv
<1>2. ASSUME NEW t \in CodeTruths \cup TotpTruths, NEW code \in Codes, CreateCode(t, code)
      PROVE  IInv'
  <2>1. t \in Truths /\ IssueValidity[t] \in Nat /\ Rotation[t] <= IssueValidity[t]
    BY PeriodAssumption DEF Truths
  <2> QED  BY <1>2, <1>i, <1>u, <2>1, CreateOK DEF CreateCode
<1>3. ASSUME NEW t \in CodeTruths, NEW answer \in Codes \cup {NoCode}, VerifyCode(t, answer)
      PROVE  IInv'
  BY <1>3, <1>i, <1>u, VerifyOK DEF VerifyCode
<1>4. ASSUME NEW t \in CodeTruths, NEW code \in KnownCodes(t), MarkSatisfied(t, code)
      PROVE  IInv'
  <2> DEFINE f == [c \in codes |-> IF c \in Addressed(codes, t, code)
                                   THEN [c EXCEPT !.satisfied = TRUE] ELSE c]
  <2>1. codes' = {f[c] : c \in codes}  BY <1>4 DEF MarkSatisfied, AfterSatisfied
  <2>2. \A c \in codes : /\ f[c] \in Rows
                         /\ f[c].truth = c.truth /\ f[c].created = c.created
                         /\ f[c].expires = c.expires
                         /\ f[c].retries = c.retries /\ f[c].missed = c.missed
    BY <1>t DEF Rows
  <2> HIDE DEF f
  <2> QED  BY <1>4, <1>i, <1>t, <1>u, <2>1, <2>2, ImageOK, SMTT(40) DEF MarkSatisfied
<1>5. ASSUME NEW t \in CodeTruths, NEW code \in KnownCodes(t), MarkSent(t, code)
      PROVE  IInv'
  <2> DEFINE f == [c \in codes |-> IF c \in Addressed(codes, t, code)
                                   THEN [c EXCEPT !.sent = now] ELSE c]
  <2>1. codes' = {f[c] : c \in codes}  BY <1>5 DEF MarkSent, AfterSent
  <2>2. \A c \in codes : /\ f[c] \in Rows
                         /\ f[c].truth = c.truth /\ f[c].created = c.created
                         /\ f[c].expires = c.expires
                         /\ f[c].retries = c.retries /\ f[c].missed = c.missed
    BY <1>t, <1>i DEF Rows
  <2> HIDE DEF f
  <2> QED  BY <1>5, <1>i, <1>t, <1>u, <2>1, <2>2, ImageOK, SMTT(40) DEF MarkSent
<1>6. CASE ChallengeGC
  <2>1. codes' = {c \in codes : c.expires >= now}  BY <1>6 DEF ChallengeGC, AfterGC
  <2>2. RowsOK(codes', now)  BY <1>i, <2>1, FS_Subset DEF RowsOK
  <2>3. \A c \in codes \ codes' : c.created + Rotation[c.truth] <= now
    BY <1>i, <1>r, <1>t, <2>1 DEF RowsOK
  <2>4. ASSUME NEW t \in Truths, NEW s \in Seq(Answers), LogOK(codes, t, s, now)
        PROVE  LogOK(codes', t, s, now)
    <3>1. Dated(codes', t, s, now)  BY <2>3, <2>4 DEF LogOK, Dated
    <3>2. Apart(codes', t, s) /\ Paid(codes', t, s)
      BY <2>1, <2>4 DEF LogOK, Apart, Paid
    <3> QED  BY <2>4, <3>1, <3>2 DEF LogOK
  <2> QED  BY <1>6, <1>u, <2>2, <2>4 DEF ChallengeGC
<1>7. ASSUME NEW t \in AnswerTruths, NEW code \in Codes, FirstAnswer(t, code)
      PROVE  IInv'
  <2> DEFINE n == NewRow(t, code, now, AnswerValidity, RetryCounter)
             table == codes \cup {n}
  <2>1. t \in Truths /\ AnswerValidity \in Nat /\ Rotation[t] <= AnswerValidity
    BY PeriodAssumption DEF Truths, AnswerTruths
  <2>2. RecentRows(codes, t, now, Rotation[t]) = {} /\ SpendTry(t, table, n) /\ now' = now
    BY <1>7 DEF FirstAnswer
  <2>3. /\ RowsOK(table, now)
        /\ n \in NewestOf(RecentRows(table, t, now, Rotation[t]))
        /\ \A u \in Truths : LogOK(table, u, answers[u], now)
    BY <1>i, <2>1, <2>2, CreateOK
  <2>4. n.retries # 0  BY RetryAssumption DEF NewRow
  <2> HIDE DEF n, table
  <2>5. /\ RowsOK(codes', now) /\ answers' \in [Truths -> Seq(Answers)]
        /\ \A u \in Truths : LogOK(codes', u, answers'[u], now)
    BY <1>i, <2>1, <2>2, <2>3, <2>4, SpendTryOK
  <2> QED  BY <1>i, <2>2, <2>5 DEF IInv
<1>8. ASSUME NEW t \in AnswerTruths, NextAnswer(t) PROVE IInv'
  <2>1. t \in Truths  BY DEF Truths, AnswerTruths
  <2>2. PICK n \in NewestOf(RecentRows(codes, t, now, Rotation[t])) :
           n.retries # 0 /\ SpendTry(t, codes, n)
    BY <1>8 DEF NextAnswer
  <2>3. /\ RowsOK(codes', now) /\ answers' \in [Truths -> Seq(Answers)]
        /\ \A u \in Truths : LogOK(codes', u, answers'[u], now)
    BY <1>i, <2>1, <2>2, SpendTryOK
  <2> QED  BY <1>8, <1>i, <2>3 DEF IInv, NextAnswer
<1>9. CASE UNCHANGED vars
  BY <1>9, <1>i, <1>u DEF vars
<1> QED  BY <1>1, <1>2, <1>3, <1>4, <1>5, <1>6, <1>7, <1>8, <1>9 DEF Next

-----------------------------------------------------------------------------

\* The invariant that carries all that follows: what create_challenge_code,
\* verify_challenge_code and rate_limit leave in the table and in the history.
THEOREM Invariant == Spec => []IInv
BY InitOK, StepOK, PTL DEF Spec

\* The table holds well-formed rows with a counter that never turns negative:
\* no UPDATE of verify_challenge_code takes a counter below zero.
THEOREM TypeCorrect == Spec => []TypeOK
<1>1. IInv => TypeOK  BY DEF IInv, TypeOK, RowsOK
<1> QED  BY <1>1, Invariant, PTL

\* verify_challenge_code never compares a code with more wrong answers than it
\* had tries.
THEOREM TriesAreBounded == Spec => []TriesBounded
<1>1. IInv => TriesBounded  BY DEF IInv, TriesBounded, RowsOK
<1> QED  BY <1>1, Invariant, PTL

\* create_challenge_code creates codes a rotation period apart.
THEOREM CodesAreSpaced == Spec => []CodesSpaced
<1>1. IInv => CodesSpaced  BY DEF IInv, CodesSpaced, RowsOK
<1> QED  BY <1>1, Invariant, PTL

\* rate_limit lets at most 2 * RetryCounter answers through in a rotation
\* period: among so many, the first, the middle and the last were paid for by
\* three codes, and the middle code was created after the first answer.
LEMMA RateFromLog == IInv => AnswerRate
<1> SUFFICES ASSUME IInv, NEW t \in Truths,
                    NEW i \in 1 .. Len(answers[t]), NEW j \in 1 .. Len(answers[t]),
                    j = i + 2 * RetryCounter
             PROVE  answers[t][j].at >= answers[t][i].at + Rotation[t]
  BY DEF AnswerRate
<1> DEFINE s == answers[t]
           k == i + RetryCounter
<1>1. LogOK(codes, t, s, now) /\ s \in Seq(Answers)  BY DEF IInv
<1> HIDE DEF s
<1>2. /\ k \in 1 .. Len(s) /\ i < k /\ k < j /\ j = k + RetryCounter
      /\ i \in 1 .. Len(s) /\ j \in 1 .. Len(s)
  BY <1>1, RetryAssumption DEF s
<1>3. s[i].created # s[k].created /\ s[k].created # s[j].created
  BY <1>1, <1>2 DEF LogOK, Counted
<1>4. s[i].at <= s[k].created  BY <1>1, <1>2, <1>3 DEF LogOK, Ordered, Dated, Apart
<1>5. s[k].created + Rotation[t] <= s[j].created
  BY <1>1, <1>2, <1>3 DEF LogOK, Ordered
<1>6. s[j].created <= s[j].at  BY <1>1, <1>2 DEF LogOK, Dated
<1>7. /\ s[i].at \in Nat /\ s[k].created \in Nat /\ s[j].created \in Nat /\ s[j].at \in Nat
      /\ Rotation[t] \in Nat
  BY <1>1, <1>2, EntryType, PeriodAssumption
<1> QED  BY <1>4, <1>5, <1>6, <1>7, SMTT(40) DEF s

\* rate_limit lets no more than 2 * RetryCounter answers through in any
\* rotation period (MAX_QUESTION_FREQ for security questions).
THEOREM AnswersAreRated == Spec => []AnswerRate
BY RateFromLog, Invariant, PTL

-----------------------------------------------------------------------------

\* verify_challenge_code and the marking calls map rows to rows with the same
\* key, validity and at most as many tries; the key tells rows apart.
LEMMA ImageRevivesNone ==
    ASSUME NEW table, now \in Nat, RowsOK(table, now), NEW f,
           \A c \in table :
              /\ f[c].truth = c.truth /\ f[c].created = c.created
              /\ f[c].expires = c.expires /\ f[c].retries <= c.retries,
           NEW c \in table, NEW d \in {f[x] : x \in table},
           c.truth = d.truth, c.created = d.created
    PROVE  d.retries <= c.retries /\ d.expires = c.expires
<1>1. PICK x \in table : d = f[x]  OBVIOUS
<1>2. x.truth = c.truth /\ x.created = c.created  BY <1>1
<1>3. /\ x.created \in Nat /\ c.created \in Nat
      /\ Rotation[c.truth] \in Nat \ {0}
  BY PeriodAssumption DEF RowsOK, Rows
<1>4. x = c  BY <1>2, <1>3 DEF RowsOK
<1> QED  BY <1>1, <1>4

\* rate_limit as a whole revives nothing of the table it started from.
LEMMA SpendRevivesNone ==
    ASSUME NEW table, now \in Nat, RowsOK(table, now), NEW t \in Truths,
           NEW n, SpendTry(t, table, n),
           NEW c \in table, NEW d \in codes', c.truth = d.truth, c.created = d.created
    PROVE  d.retries <= c.retries /\ d.expires = c.expires
<1> DEFINE f == [x \in table |-> Missed(table, t, n.code + 1, now, x)]
<1>1. codes' = {f[x] : x \in table}  BY DEF SpendTry, AfterVerify
<1>2. \A x \in table : /\ f[x].truth = x.truth /\ f[x].created = x.created
                       /\ f[x].expires = x.expires /\ f[x].retries <= x.retries
  BY MissedRow
<1> HIDE DEF f
<1> QED  BY <1>1, <1>2, ImageRevivesNone

\* Whatever is called, a stored code gets no tries back and lives no longer:
\* in particular create_challenge_code, when it finds an active code, returns
\* it as it is.
THEOREM NoCodeRevives == Spec => NothingRevives
<1> DEFINE Step == \A c \in codes, d \in codes' :
                 c.truth = d.truth /\ c.created = d.created /\ c.code = d.code
                    => d.retries <= c.retries /\ d.expires = c.expires
<1>1. ASSUME IInv, [Next]_vars PROVE [Step]_vars
  <2>i. now \in Nat /\ RowsOK(codes, now)  BY <1>1 DEF IInv
  <2>t. \A c \in codes : /\ c.created \in Nat /\ c.retries \in Nat /\ c.truth \in Truths
                         /\ c.expires \in Nat /\ c.created + Rotation[c.truth] <= c.expires
                         /\ Rotation[c.truth] \in Nat \ {0}
    BY <2>i, PeriodAssumption DEF RowsOK, Rows
  <2> SUFFICES ASSUME NEW c \in codes, NEW d \in codes',
                      c.truth = d.truth, c.created = d.created, c.code = d.code, Next
               PROVE  d.retries <= c.retries /\ d.expires = c.expires
    BY <1>1
  <2>s. d \in codes => c = d  BY <2>i, <2>t DEF RowsOK
  <2>k. d \in codes => d.retries <= c.retries /\ d.expires = c.expires
    BY <2>s, <2>t
  \* A row that is created now is new: there is no recent row of the truth.
  <2>n. ASSUME RecentRows(codes, c.truth, now, Rotation[c.truth]) = {}
        PROVE  c.created # now
    BY <2>i, <2>n, <2>t DEF RecentRows
  <2>1. CASE Tick  BY <2>1, <2>k DEF Tick
  <2>2. ASSUME NEW t \in CodeTruths \cup TotpTruths, NEW code \in Codes, CreateCode(t, code)
        PROVE  d \in codes
    BY <2>2, <2>n DEF CreateCode, NewRow
  <2>3. ASSUME NEW t \in CodeTruths, NEW answer \in Codes \cup {NoCode}, VerifyCode(t, answer)
        PROVE  d.retries <= c.retries /\ d.expires = c.expires
    <3> DEFINE f == [x \in codes |-> Missed(codes, t, answer, now, x)]
    <3>1. codes' = {f[x] : x \in codes}  BY <2>3 DEF VerifyCode, AfterVerify
    <3>2. \A x \in codes : /\ f[x].truth = x.truth /\ f[x].created = x.created
                           /\ f[x].expires = x.expires /\ f[x].retries <= x.retries
      BY <2>i, MissedRow
    <3> HIDE DEF f
    <3> QED  BY <2>i, <3>1, <3>2, ImageRevivesNone
  <2>4. ASSUME NEW t \in CodeTruths, NEW code \in KnownCodes(t), MarkSatisfied(t, code)
        PROVE  d.retries <= c.retries /\ d.expires = c.expires
    <3> DEFINE f == [x \in codes |-> IF x \in Addressed(codes, t, code)
                                     THEN [x EXCEPT !.satisfied = TRUE] ELSE x]
    <3>1. codes' = {f[x] : x \in codes}  BY <2>4 DEF MarkSatisfied, AfterSatisfied
    <3>2. \A x \in codes : /\ f[x].truth = x.truth /\ f[x].created = x.created
                           /\ f[x].expires = x.expires /\ f[x].retries <= x.retries
      BY <2>i, <2>t DEF RowsOK, Rows
    <3> HIDE DEF f
    <3> QED  BY <2>i, <3>1, <3>2, ImageRevivesNone
  <2>5. ASSUME NEW t \in CodeTruths, NEW code \in KnownCodes(t), MarkSent(t, code)
        PROVE  d.retries <= c.retries /\ d.expires = c.expires
    <3> DEFINE f == [x \in codes |-> IF x \in Addressed(codes, t, code)
                                     THEN [x EXCEPT !.sent = now] ELSE x]
    <3>1. codes' = {f[x] : x \in codes}  BY <2>5 DEF MarkSent, AfterSent
    <3>2. \A x \in codes : /\ f[x].truth = x.truth /\ f[x].created = x.created
                           /\ f[x].expires = x.expires /\ f[x].retries <= x.retries
      BY <2>i, <2>t DEF RowsOK, Rows
    <3> HIDE DEF f
    <3> QED  BY <2>i, <3>1, <3>2, ImageRevivesNone
  <2>6. CASE ChallengeGC  BY <2>6, <2>k DEF ChallengeGC, AfterGC
  <2>7. ASSUME NEW t \in AnswerTruths, NEW code \in Codes, FirstAnswer(t, code)
        PROVE  d.retries <= c.retries /\ d.expires = c.expires
    <3> DEFINE n == NewRow(t, code, now, AnswerValidity, RetryCounter)
    <3>1. /\ RecentRows(codes, t, now, Rotation[t]) = {} /\ SpendTry(t, codes \cup {n}, n)
          /\ t \in Truths /\ AnswerValidity \in Nat /\ Rotation[t] <= AnswerValidity
      BY <2>7, PeriodAssumption DEF FirstAnswer, Truths, AnswerTruths
    <3>2. RowsOK(codes \cup {n}, now)  BY <2>i, <3>1, CreateOK
    <3> HIDE DEF n
    <3> QED  BY <2>i, <3>1, <3>2, SpendRevivesNone
  <2>8. ASSUME NEW t \in AnswerTruths, NextAnswer(t)
        PROVE  d.retries <= c.retries /\ d.expires = c.expires
    <3>1. PICK n : SpendTry(t, codes, n)  BY <2>8 DEF NextAnswer
    <3>2. t \in Truths  BY DEF Truths, AnswerTruths
    <3> QED  BY <2>i, <3>1, <3>2, SpendRevivesNone
  <2> QED  BY <2>k, <2>1, <2>2, <2>3, <2>4, <2>5, <2>6, <2>7, <2>8 DEF Next
<1> QED  BY <1>1, Invariant, PTL DEF Spec, NothingRevives
=============================================================================
