---------------------------------- MODULE PartsProofs ----------------------------------
(* Three parts that share no state, each for any values of its constants.                    *)
EXTENDS IbanHelper, TruthUpload, BackupSync, Naturals, Integers, TLAPS

(************************ the IBAN helper and the bank client ************************)
(* For any accounts, transfers and mishaps: the helper records the transfers to an account      *)
(* without gaps.                                                               *)
HelperSpec == HelperInit /\ [][HelperNext]_helperVars

Running ==
    [state : {"idle", "asking", "list", "stalled"}, account : BankAccounts, off : Nat,
     list : SUBSET Nat, event : Nat]

HelperTypes ==
    /\ \E n \in Nat : bank \in [1 .. n -> [account : BankAccounts, coded : BOOLEAN]]
    /\ ibanIn \subseteq DOMAIN bank
    /\ helper \in {NoHelper} \cup Running
    /\ notified \subseteq ibanIn

(* Nothing that was recorded has an earlier transfer to its account that was not.           *)
NoGap ==
    \A r \in ibanIn, q \in DOMAIN bank :
        q < r /\ bank[q].account = bank[r].account => q \in ibanIn

(* The helper knows where it is: what is recorded of its account is what lies up to off.      *)
OffExact ==
    helper # NoHelper /\ helper.state # "stalled" =>
        \A r \in BankRows(helper.account) : r \in ibanIn <=> r <= helper.off

(* Beyond off, its list has no gap.                                                *)
ListClosed ==
    helper # NoHelper /\ helper.state = "list" =>
        /\ helper.list \subseteq BankRows(helper.account)
        /\ \A r \in helper.list, q \in BankRows(helper.account) :
              helper.off < q /\ q < r => q \in helper.list

(* What it remembers of rows, it remembers of rows that are recorded.                       *)
RowsKnown == helper # NoHelper => {helper.off, helper.event} \subseteq ibanIn \cup {0}

HInv == HelperTypes /\ NoGap /\ OffExact /\ ListClosed /\ RowsKnown

-----------------------------------------------------------------------------
LEMMA RunningIsNotOff == ASSUME NEW h \in Running PROVE h # NoHelper /\ h.state # "off"
  <1>1. h.state # "off" BY DEF Running
  <1>2. NoHelper.state = "off" BY DEF NoHelper
  <1> QED BY <1>1, <1>2

LEMMA HelperRuns == ASSUME HelperTypes, helper.state # "off" PROVE helper \in Running /\ helper # NoHelper
  BY DEF HelperTypes, NoHelper

LEMMA BankInNat == ASSUME HelperTypes PROVE DOMAIN bank \subseteq Nat /\ 0 \notin DOMAIN bank
  BY DEF HelperTypes

LEMMA InitHInv == HelperInit => HInv
  <1> SUFFICES ASSUME HelperInit PROVE HInv OBVIOUS
  <1> USE DEF HelperInit, HelperIdle
  <1>1. bank \in [1 .. 0 -> [account : BankAccounts, coded : BOOLEAN]] OBVIOUS
  <1>2. HelperTypes BY <1>1 DEF HelperTypes
  <1> QED BY <1>2 DEF HInv, NoGap, OffExact, ListClosed, RowsKnown

(* A step that only changes the state of the helper, to one in which it has no list             *)
LEMMA StateStep ==
    ASSUME HInv, helper \in Running, NEW st \in {"idle", "asking", "stalled"},
           helper.state # "stalled",
           helper' = [helper EXCEPT !.state = st], UNCHANGED <<bank, ibanIn, notified>>
    PROVE HInv'
  <1>1. /\ helper' \in Running /\ helper' # NoHelper /\ helper # NoHelper
        /\ helper'.state = st /\ helper'.account = helper.account /\ helper'.off = helper.off
        /\ helper'.event = helper.event
    BY RunningIsNotOff DEF Running
  <1>2. HelperTypes' BY <1>1 DEF HInv, HelperTypes
  <1>3. NoGap' BY DEF HInv, NoGap
  <1>4. OffExact' BY <1>1 DEF HInv, OffExact, BankRows
  <1>5. ListClosed' BY <1>1 DEF ListClosed
  <1>6. RowsKnown' BY <1>1 DEF HInv, RowsKnown
  <1> QED BY <1>2, <1>3, <1>4, <1>5, <1>6 DEF HInv

(* The end of the helper: it forgets everything but the table.                            *)
LEMMA EndStep ==
    ASSUME HelperTypes, NoGap, helper' = NoHelper, UNCHANGED <<bank, notified>>,
           ibanIn \subseteq ibanIn', ibanIn' \subseteq DOMAIN bank, NoGap'
    PROVE HInv'
  BY DEF HInv, HelperTypes, OffExact, ListClosed, RowsKnown

(* The bank answers with the rows between two limits.                                   *)
LEMMA AnswerStep ==
    ASSUME HInv, NEW from \in Nat, AnswerFrom(from), from <= helper.off,
           UNCHANGED <<bank, ibanIn, notified>>
    PROVE HInv'
  <1>1. helper \in Running /\ helper # NoHelper BY HelperRuns DEF HInv, AnswerFrom
  <1>2. PICK limit \in BankRows(helper.account) :
          /\ limit > from
          /\ helper' = [helper EXCEPT !.state = "list",
                          !.list = {r \in BankRows(helper.account) : from < r /\ r <= limit}]
    BY DEF AnswerFrom
  <1>3. BankRows(helper.account) \subseteq Nat BY BankInNat DEF HInv, BankRows
  <1>4. /\ helper' \in Running /\ helper' # NoHelper
        /\ helper'.state = "list" /\ helper'.account = helper.account /\ helper'.off = helper.off
        /\ helper'.list = {r \in BankRows(helper.account) : from < r /\ r <= limit}
        /\ helper'.event = helper.event
    BY <1>1, <1>2, <1>3, RunningIsNotOff DEF Running
  <1>5. HelperTypes' BY <1>4 DEF HInv, HelperTypes
  <1>6. NoGap' BY DEF HInv, NoGap
  <1>7. OffExact' BY <1>1, <1>4 DEF HInv, OffExact, BankRows, AnswerFrom
  <1>8. ListClosed'
    <2>0. BankRows(helper.account)' = BankRows(helper.account) BY <1>4 DEF BankRows
    <2>1. helper'.list \subseteq BankRows(helper.account)' BY <1>4, <2>0
    <2>2. ASSUME NEW r \in helper'.list, NEW q \in BankRows(helper.account)',
                 helper'.off < q, q < r
          PROVE q \in helper'.list
      <3>1. q \in BankRows(helper.account) BY <2>0
      <3>2. q \in Nat /\ r \in Nat /\ limit \in Nat /\ helper.off \in Nat
        BY <1>1, <1>2, <1>3, <1>4, <3>1 DEF Running
      <3>3. from < q /\ q <= limit BY <1>4, <2>2, <3>2
      <3> QED BY <1>4, <3>1, <3>3
    <2> QED BY <2>1, <2>2 DEF ListClosed
  <1>9. RowsKnown' BY <1>1, <1>4 DEF HInv, RowsKnown
  <1> QED BY <1>5, <1>6, <1>7, <1>8, <1>9 DEF HInv

(* The helper starts where the table says it had ended.                                   *)
LEMMA StartStep ==
    ASSUME HInv, NEW acct \in BankAccounts, StartHelper(acct)
    PROVE HInv'
  <1>1. PICK last \in LastRows(acct) :
          helper' = [state |-> "idle", account |-> acct, off |-> last, list |-> {}, event |-> 0]
    BY DEF StartHelper
  <1>2. UNCHANGED <<bank, ibanIn, notified>> BY DEF StartHelper
  <1>3. last \in Nat /\ \A r \in BankRows(acct) : r \in Nat
    BY BankInNat DEF HInv, LastRows, BankRows
  <1>4. helper' \in Running BY <1>1, <1>3 DEF Running
  <1>5. \A r \in BankRows(acct) : r \in ibanIn <=> r <= last
    <2> SUFFICES ASSUME NEW r \in BankRows(acct), r <= last PROVE r \in ibanIn
      BY DEF LastRows
    <2>1. r # 0 BY BankInNat DEF HInv, BankRows
    <2>2. last # 0 BY <1>3, <2>1
    <2>3. last \in ibanIn \cap BankRows(acct) BY <2>2 DEF LastRows
    <2>4. CASE r = last BY <2>3, <2>4
    <2>5. CASE r < last
      <3>1. r \in DOMAIN bank /\ bank[r].account = bank[last].account BY <2>3 DEF BankRows
      <3> QED BY <2>3, <2>5, <3>1 DEF HInv, NoGap
    <2> QED BY <1>3, <2>4, <2>5
  <1>6. HelperTypes' BY <1>2, <1>4 DEF HInv, HelperTypes
  <1>7. NoGap' BY <1>2 DEF HInv, NoGap
  <1>8. OffExact' BY <1>1, <1>2, <1>5 DEF OffExact, BankRows
  <1>9. ListClosed' /\ RowsKnown' BY <1>1, <1>2 DEF ListClosed, RowsKnown, LastRows
  <1> QED BY <1>6, <1>7, <1>8, <1>9 DEF HInv

(* What is recorded next leaves no gap.                                             *)
LEMMA RowStep ==
    ASSUME HInv, helper \in Running, helper.state = "list", NEW row \in helper.list,
           \A r \in helper.list : row <= r, row > helper.off
    PROVE /\ row \in DOMAIN bank /\ row \in Nat /\ row # 0
          /\ bank[row].account = helper.account
          /\ row \notin ibanIn
          /\ \A q \in BankRows(helper.account) : q < row => q \in ibanIn
  <1>0. helper # NoHelper BY RunningIsNotOff
  <1>1. row \in BankRows(helper.account) BY <1>0 DEF HInv, ListClosed
  <1>2. row \in DOMAIN bank /\ bank[row].account = helper.account BY <1>1 DEF BankRows
  <1>3. row \in Nat /\ row # 0 BY <1>2, BankInNat DEF HInv
  <1>4. helper.off \in Nat BY DEF Running
  <1>5. row \notin ibanIn BY <1>0, <1>1, <1>3, <1>4 DEF HInv, OffExact
  <1>6. ASSUME NEW q \in BankRows(helper.account), q < row PROVE q \in ibanIn
    <2>0. q \in Nat BY BankInNat DEF HInv, BankRows
    <2>1. CASE q <= helper.off BY <1>0, <2>1 DEF HInv, OffExact
    <2>2. CASE q > helper.off
      <3>1. q \in helper.list BY <1>0, <1>6, <2>2 DEF HInv, ListClosed
      <3>2. row <= q BY <3>1
      <3> QED BY <1>3, <1>6, <2>0, <3>2
    <2> QED BY <1>4, <2>0, <2>1, <2>2
  <1> QED BY <1>2, <1>3, <1>5, <1>6

LEMMA RecordStep ==
    ASSUME HInv, HistoryCb
    PROVE HInv'
  <1>1. /\ helper.state = "list" /\ helper.event = 0 /\ UNCHANGED <<bank, notified>>
        /\ helper \in Running /\ helper # NoHelper
    BY HelperRuns DEF HInv, HistoryCb
  <1>2. PICK row \in helper.list :
          /\ \A r \in helper.list : row <= r
          /\ IF row <= helper.off
             THEN helper' = NoHelper /\ UNCHANGED <<ibanIn, mishaps>>
             ELSE \/ /\ row \notin ibanIn
                     /\ ibanIn' = ibanIn \cup {row}
                     /\ helper' = [helper EXCEPT !.off = row, !.list = @ \ {row},
                                                 !.event = IF bank[row].coded THEN row ELSE 0]
                     /\ UNCHANGED mishaps
                  \/ /\ helper' = NoHelper /\ Mishap
                     /\ ibanIn' \in {ibanIn, ibanIn \cup {row}}
                  \/ /\ Became("stalled")
                     /\ IF row \in ibanIn THEN UNCHANGED mishaps ELSE Mishap
                     /\ UNCHANGED ibanIn
    BY DEF HistoryCb
  <1>3. row \in Nat /\ helper.off \in Nat BY <1>1 DEF Running
  <1>4. CASE helper' = NoHelper /\ ibanIn' = ibanIn
    <2>1. NoGap' BY <1>1, <1>4 DEF HInv, NoGap
    <2>2. ibanIn' \subseteq DOMAIN bank BY <1>4 DEF HInv, HelperTypes
    <2> QED BY <1>1, <1>4, <2>1, <2>2, EndStep DEF HInv
  <1>5. CASE row > helper.off /\ ibanIn' = ibanIn \cup {row}
               /\ (helper' = NoHelper \/ helper' = [helper EXCEPT !.off = row, !.list = @ \ {row},
                                                       !.event = IF bank[row].coded THEN row ELSE 0])
    <2>1. /\ row \in DOMAIN bank /\ row # 0 /\ bank[row].account = helper.account
          /\ \A q \in BankRows(helper.account) : q < row => q \in ibanIn
      BY <1>1, <1>2, <1>5, RowStep
    <2>2. NoGap'
      <3> SUFFICES ASSUME NEW r \in ibanIn', NEW q \in DOMAIN bank, q < r,
                          bank[q].account = bank[r].account
                   PROVE q \in ibanIn'
        BY <1>1 DEF NoGap
      <3>1. CASE r \in ibanIn BY <1>5, <3>1 DEF HInv, NoGap
      <3>2. CASE r = row BY <1>5, <2>1, <3>2 DEF BankRows
      <3> QED BY <1>5, <3>1, <3>2
    <2>3. ibanIn' \subseteq DOMAIN bank BY <1>5, <2>1 DEF HInv, HelperTypes
    <2>4. CASE helper' = NoHelper BY <1>1, <1>5, <2>2, <2>3, <2>4, EndStep DEF HInv
    <2>5. CASE helper' = [helper EXCEPT !.off = row, !.list = @ \ {row},
                                        !.event = IF bank[row].coded THEN row ELSE 0]
      <3>1. /\ helper' \in Running /\ helper' # NoHelper /\ helper'.state = "list"
            /\ helper'.account = helper.account /\ helper'.off = row
            /\ helper'.list = helper.list \ {row} /\ helper'.event \in {0, row}
        BY <1>1, <1>3, <2>5, RunningIsNotOff DEF Running
      <3>2. BankRows(helper.account)' = BankRows(helper.account) BY <1>1, <3>1 DEF BankRows
      <3>3. \A q \in BankRows(helper.account) : q \in Nat BY BankInNat DEF HInv, BankRows
      <3>4. HelperTypes' BY <1>1, <1>5, <2>3, <3>1 DEF HInv, HelperTypes
      <3>5. \A q \in BankRows(helper.account) : q \in ibanIn' <=> q <= row
        <4> SUFFICES ASSUME NEW q \in BankRows(helper.account)
                     PROVE q \in ibanIn' <=> q <= row
          OBVIOUS
        <4>1. q \in ibanIn <=> q <= helper.off BY <1>1 DEF HInv, OffExact
        <4>2. q < row => q \in ibanIn BY <2>1
        <4> QED BY <1>3, <1>5, <3>3, <4>1, <4>2
      <3>6. OffExact' BY <3>1, <3>2, <3>5 DEF OffExact
      <3>7. helper'.list \subseteq BankRows(helper.account)'
        BY <1>1, <3>1, <3>2 DEF HInv, ListClosed
      <3>8. ASSUME NEW r \in helper'.list, NEW q \in BankRows(helper.account), row < q, q < r
            PROVE q \in helper'.list
        <4>1. q \in helper.list BY <1>1, <1>3, <1>5, <3>1, <3>3, <3>8 DEF HInv, ListClosed
        <4> QED BY <1>3, <3>1, <3>3, <3>8, <4>1
      <3>9. ListClosed' BY <3>1, <3>2, <3>7, <3>8 DEF ListClosed
      <3>10. RowsKnown' BY <1>5, <3>1 DEF RowsKnown
      <3> QED BY <2>2, <3>4, <3>6, <3>9, <3>10 DEF HInv
    <2> QED BY <1>5, <2>4, <2>5
  <1>6. CASE Became("stalled") /\ UNCHANGED ibanIn
    BY <1>1, <1>6, StateStep DEF Became
  <1> QED BY <1>2, <1>3, <1>4, <1>5, <1>6

(* A new transfer has a higher number than all others.                                    *)
LEMMA WireStep ==
    ASSUME HInv, NEW acct \in BankAccounts, NEW coded \in BOOLEAN, WireTransfer(acct, coded)
    PROVE HInv'
  <1>1. PICK row \in 1 .. MaxWires :
          /\ DOMAIN bank = 1 .. (row - 1)
          /\ bank' = [r \in 1 .. row |->
                         IF r = row THEN [account |-> acct, coded |-> coded] ELSE bank[r]]
    BY DEF WireTransfer
  <1>2. UNCHANGED <<ibanIn, helper, notified>> BY DEF WireTransfer
  <1>3. /\ row \in Nat /\ row # 0 /\ ibanIn \subseteq 1 .. (row - 1)
        /\ bank \in [1 .. (row - 1) -> [account : BankAccounts, coded : BOOLEAN]]
    BY <1>1 DEF HInv, HelperTypes
  <1>4. DOMAIN bank' = 1 .. row /\ \A r \in 1 .. (row - 1) : bank'[r] = bank[r]
    BY <1>1, <1>3
  <1>5. bank' \in [1 .. row -> [account : BankAccounts, coded : BOOLEAN]]
    BY <1>1, <1>3
  <1>6. HelperTypes'
    <2>1. ibanIn \subseteq 1 .. row BY <1>3
    <2> QED BY <1>2, <1>3, <1>4, <1>5, <2>1 DEF HInv, HelperTypes
  <1>7. NoGap'
    <2> SUFFICES ASSUME NEW r \in ibanIn, NEW q \in 1 .. row, q < r,
                        bank'[q].account = bank'[r].account
                 PROVE q \in ibanIn
      BY <1>2, <1>4 DEF NoGap
    <2>1. q \in 1 .. (row - 1) /\ r \in 1 .. (row - 1) BY <1>3
    <2> QED BY <1>1, <1>4, <2>1 DEF HInv, NoGap
  <1>8. CASE helper = NoHelper BY <1>2, <1>6, <1>7, <1>8 DEF HInv, OffExact, ListClosed, RowsKnown
  <1>9. CASE helper # NoHelper
    <2>1. helper \in Running BY <1>9 DEF HInv, HelperTypes
    <2>2. helper.off \in Nat /\ helper.off < row
      <3>1. helper.off \in ibanIn \cup {0} BY <1>9 DEF HInv, RowsKnown
      <3>2. helper.off \in 1 .. (row - 1) \/ helper.off = 0 BY <1>3, <3>1
      <3> QED BY <1>3, <3>2
    <2>3. /\ BankRows(helper.account) \subseteq 1 .. (row - 1)
          /\ BankRows(helper.account) \subseteq BankRows(helper.account)'
          /\ BankRows(helper.account)' \subseteq BankRows(helper.account) \cup {row}
      BY <1>1, <1>2, <1>3, <1>4 DEF BankRows
    <2>4. OffExact' BY <1>2, <1>3, <1>9, <2>2, <2>3 DEF HInv, OffExact
    <2>5. ListClosed'
      <3> SUFFICES ASSUME helper.state = "list"
                   PROVE /\ helper.list \subseteq BankRows(helper.account)'
                         /\ \A r \in helper.list, q \in BankRows(helper.account)' :
                               helper.off < q /\ q < r => q \in helper.list
        BY <1>2 DEF ListClosed
      <3>1. helper.list \subseteq BankRows(helper.account) BY <1>9 DEF HInv, ListClosed
      <3>2. \A r \in helper.list : r < row BY <1>3, <2>3, <3>1
      <3>3. ASSUME NEW r \in helper.list, NEW q \in BankRows(helper.account)', helper.off < q, q < r
            PROVE q \in helper.list
        <4>1. q # row BY <1>3, <2>3, <3>1, <3>2, <3>3
        <4>2. q \in BankRows(helper.account) BY <2>3, <4>1
        <4> QED BY <1>9, <3>3, <4>2 DEF HInv, ListClosed
      <3> QED BY <2>3, <3>1, <3>3
    <2>6. RowsKnown' BY <1>2, <1>9 DEF HInv, RowsKnown
    <2> QED BY <1>6, <1>7, <2>4, <2>5, <2>6 DEF HInv
  <1> QED BY <1>8, <1>9

LEMMA NextHInv == HInv /\ [HelperNext]_helperVars => HInv'
  <1> SUFFICES ASSUME HInv, [HelperNext]_helperVars PROVE HInv' OBVIOUS
  <1>1. ASSUME NEW acct \in BankAccounts, StartHelper(acct) PROVE HInv' BY <1>1, StartStep
  <1>2. ASSUME NEW acct \in BankAccounts, NEW coded \in BOOLEAN, WireTransfer(acct, coded)
        PROVE HInv'
    BY <1>2, WireStep
  <1>3. CASE FindTransfers
    <2>1. helper \in Running BY <1>3, HelperRuns DEF HInv, FindTransfers
    <2> QED BY <1>3, <2>1, StateStep DEF FindTransfers, Became
  <1>4. CASE HistoryAnswer \/ HistoryRepeats
    <2>1. helper \in Running BY <1>4, HelperRuns DEF HInv, HistoryAnswer, HistoryRepeats, AnswerFrom
    <2>2. helper.off \in Nat BY <2>1 DEF Running
    <2>3. CASE HistoryAnswer BY <2>2, <2>3, AnswerStep DEF HistoryAnswer
    <2>4. CASE HistoryRepeats BY <2>2, <2>4, AnswerStep DEF HistoryRepeats
    <2> QED BY <1>4, <2>3, <2>4
  <1>5. CASE HistoryCb BY <1>5, RecordStep
  <1>6. CASE NotifyEvent
    <2>1. /\ helper \in Running /\ helper # NoHelper /\ helper.state = "list"
          /\ helper.event \in ibanIn
      BY <1>6, HelperRuns DEF HInv, NotifyEvent, RowsKnown
    <2>2. /\ helper' \in Running /\ helper' # NoHelper /\ helper'.state = "list"
          /\ helper'.account = helper.account /\ helper'.off = helper.off
          /\ helper'.list = helper.list /\ helper'.event = 0
      BY <1>6, <2>1, RunningIsNotOff DEF NotifyEvent, Running
    <2>3. UNCHANGED <<bank, ibanIn>> /\ notified' \subseteq ibanIn
      BY <1>6, <2>1 DEF HInv, HelperTypes, NotifyEvent
    <2>4. HelperTypes' BY <2>2, <2>3 DEF HInv, HelperTypes
    <2>5. NoGap' BY <2>3 DEF HInv, NoGap
    <2>6. OffExact' BY <2>1, <2>2, <2>3 DEF HInv, OffExact, BankRows
    <2>7. ListClosed' BY <2>1, <2>2, <2>3 DEF HInv, ListClosed, BankRows
    <2>8. RowsKnown' BY <2>1, <2>2, <2>3 DEF HInv, RowsKnown
    <2> QED BY <2>4, <2>5, <2>6, <2>7, <2>8 DEF HInv
  <1>7. CASE HistoryEnd
    <2>1. helper \in Running BY <1>7, HelperRuns DEF HInv, HistoryEnd
    <2> QED BY <1>7, <2>1, StateStep DEF HistoryEnd, Became
  <1>8. CASE HistoryFailed
    <2>1. helper \in Running BY <1>8, HelperRuns DEF HInv, HistoryFailed
    <2> QED BY <1>8, <2>1, StateStep DEF HistoryFailed, Became
  <1>9. CASE HelperEnds
    <2>1. NoGap' /\ ibanIn' \subseteq DOMAIN bank BY <1>9 DEF HInv, HelperTypes, NoGap, HelperEnds
    <2> QED BY <1>9, <2>1, EndStep DEF HInv, HelperEnds
  <1>10. CASE UNCHANGED helperVars
    <2>1. HelperTypes' BY <1>10 DEF HInv, HelperTypes, helperVars
    <2>2. NoGap' BY <1>10 DEF HInv, NoGap, helperVars
    <2>3. OffExact' BY <1>10 DEF HInv, OffExact, BankRows, helperVars
    <2>4. ListClosed' BY <1>10 DEF HInv, ListClosed, BankRows, helperVars
    <2>5. RowsKnown' BY <1>10 DEF HInv, RowsKnown, helperVars
    <2> QED BY <2>1, <2>2, <2>3, <2>4, <2>5 DEF HInv
  <1> QED BY <1>1, <1>2, <1>3, <1>4, <1>5, <1>6, <1>7, <1>8, <1>9, <1>10 DEF HelperNext, HelperSteps

LEMMA HInvRecorded == HInv => TransfersRecorded
  <1> SUFFICES ASSUME HInv PROVE TransfersRecorded OBVIOUS
  <1>1. ASSUME helper.state = "list", NEW row \in helper.list, row > helper.off
        PROVE row \notin ibanIn
    <2>1. helper \in Running /\ helper # NoHelper BY <1>1, HelperRuns DEF HInv
    <2>2. row \in BankRows(helper.account) BY <1>1, <2>1 DEF HInv, ListClosed
    <2>3. row \in Nat /\ helper.off \in Nat BY <2>1, <2>2, BankInNat DEF HInv, BankRows, Running
    <2> QED BY <1>1, <2>1, <2>2, <2>3 DEF HInv, OffExact
  <1> QED BY <1>1 DEF HInv, HelperTypes, NoGap, TransfersRecorded

(* The inductive invariant: what the helper remembers of its position is what the table says,   *)
(* and neither the table nor the answer that it works on has gaps.                           *)
THEOREM HelperInvariant == HelperSpec => []HInv
  BY InitHInv, NextHInv, PTL DEF HelperSpec

(* Whatever fails, and whichever account is configured from one start to the next, no transfer  *)
(* is passed over or recorded twice, and events are about recorded transfers: history_cb.       *)
THEOREM RecordedTransfers == HelperSpec => []TransfersRecorded
  BY HelperInvariant, HInvRecorded, PTL

------------------------------------------------------------------------------------------
(******************************* POST /truth *******************************)
(* For any requests, truths, prices and dates: what POST /truth stores is paid for, and what  *)
(* it told to be stored is there.                                               *)
TruthSpec == TruthInit /\ [][TruthNext]_truthVars

Context ==
    [state : {"called", "parked", "resumed"}, uuid : Uuids, content : TruthContents,
     merchant : {"none", "check", "order"}, resp : {"none", "payment required", "error"},
     years : Nat, toPay : Nat]

UploadTypes ==
    /\ today \in Nat
    /\ tuc \in [TruthSlots -> {NoUpload} \cup Context]
    /\ truths \in [Uuids -> {NoTruth} \cup
                        [content : TruthContents, expiration : Nat, at : Nat, unset : BOOLEAN]]
    /\ truthPayments \in [Uuids -> Nat]
    /\ truthOrders \in [Uuids -> [state : {"none", "unpaid", "paid"}, years : Nat]]
    /\ told \subseteq [uuid : Uuids, content : TruthContents]

(* What an order pays for, from today on.                                         *)
Lasts(u) == truthOrders[u].years * TruthYear + GraceWeek

(* A row of anastasis_truth_payment is that of a paid order, and ends in time.            *)
PaymentsBacked ==
    \A u \in Uuids : truthPayments[u] # 0 =>
        truthOrders[u].state = "paid" /\ truthPayments[u] <= today + Lasts(u)

TruthInv == UploadTypes /\ PaymentsBacked /\ TruthsPaid /\ TruthsTold

-----------------------------------------------------------------------------
(* An inserted row is a row.                                                *)
LEMMA RowIsNoHole ==
    ASSUME NEW c, NEW e, NEW a, NEW x
    PROVE [content |-> c, expiration |-> e, at |-> a, unset |-> x] # NoTruth
  <1>1. "at" \in DOMAIN [content |-> c, expiration |-> e, at |-> a, unset |-> x] OBVIOUS
  <1>2. "at" \notin DOMAIN NoTruth BY DEF NoTruth
  <1> QED BY <1>1, <1>2

LEMMA NoUploadIsNoContext == ASSUME NEW g \in Context PROVE g # NoUpload /\ g.state # "idle"
  <1>1. g.state # "idle" BY DEF Context
  <1>2. NoUpload.state = "idle" BY DEF NoUpload
  <1> QED BY <1>1, <1>2

LEMMA TruthInitInv == TruthInit => TruthInv
  <1> SUFFICES ASSUME TruthInit PROVE TruthInv OBVIOUS
  <1> USE DEF TruthInit, TruthTables
  <1>1. UploadTypes BY DEF UploadTypes, NoTruthOrder
  <1>2. PaymentsBacked BY DEF PaymentsBacked
  <1>3. TruthsPaid BY DEF TruthsPaid
  <1>4. TruthsTold BY DEF TruthsTold
  <1> QED BY <1>1, <1>2, <1>3, <1>4 DEF TruthInv

(* StoreTruth keeps what the invariant says of the tables, if the date is covered.         *)
LEMMA StoreStep ==
    ASSUME TruthInv, UNCHANGED <<today, truthFree, truthPayments, truthOrders>>,
           NEW s \in TruthSlots, NEW g \in Context, NEW until \in Nat, NEW unset \in BOOLEAN,
           ~truthFree /\ ~unset => truthPayments[g.uuid] = until /\ until # 0,
           StoreTruth(s, g, until, unset)
    PROVE TruthInv'
  <1> USE DEF TruthInv
  <1>0. g.uuid \in Uuids /\ g.content \in TruthContents BY DEF Context
  <1>1. tuc' \in [TruthSlots -> {NoUpload} \cup Context]
    BY DEF StoreTruth, TruthReplies, UploadTypes
  <1>2. PaymentsBacked'
    BY DEF PaymentsBacked, Lasts
  <1>3. CASE UNCHANGED <<truths, told>>
    <2>1. UploadTypes' BY <1>1, <1>3 DEF UploadTypes
    <2>2. TruthsPaid' BY <1>3 DEF TruthsPaid
    <2>3. TruthsTold' BY <1>3 DEF TruthsTold
    <2> QED BY <1>2, <2>1, <2>2, <2>3
  <1>4. CASE /\ truths[g.uuid] = NoTruth
             /\ truths' = [truths EXCEPT ![g.uuid] =
                            [content |-> g.content, expiration |-> until, at |-> today, unset |-> unset]]
             /\ told' = told \cup {[uuid |-> g.uuid, content |-> g.content]}
    <2> DEFINE row == [content |-> g.content, expiration |-> until, at |-> today, unset |-> unset]
    <2>0. \A u \in Uuids : truths'[u] = IF u = g.uuid THEN row ELSE truths[u]
      BY <1>0, <1>4 DEF UploadTypes
    <2>1. UploadTypes'
      BY <1>0, <1>1, <1>4 DEF UploadTypes
    <2>2. TruthsPaid'
      <3> SUFFICES ASSUME ~truthFree, NEW u \in Uuids, truths'[u] # NoTruth, ~truths'[u].unset
                   PROVE /\ truthOrders[u].state = "paid"
                         /\ truths'[u].expiration <= truths'[u].at + truthOrders[u].years * TruthYear + GraceWeek
        BY DEF TruthsPaid
      <3>1. CASE u # g.uuid BY <2>0, <3>1 DEF TruthsPaid
      <3>2. CASE u = g.uuid
        <4>1. truths'[u].expiration = until /\ truths'[u].at = today /\ ~unset BY <2>0, <3>2
        <4>2. truthPayments[u] = until /\ until # 0 BY <3>2, <4>1
        <4>3. truthOrders[u].years * TruthYear \in Nat BY StorageAssumption DEF UploadTypes
        <4> QED BY <4>1, <4>2, <4>3, StorageAssumption DEF PaymentsBacked, Lasts, UploadTypes
      <3> QED BY <3>1, <3>2
    <2>3. TruthsTold'
      <3> SUFFICES ASSUME NEW t \in told'
                   PROVE /\ truths'[t.uuid] # NoTruth
                         /\ truths'[t.uuid].content.type = t.content.type
                         /\ truths'[t.uuid].content.truth = t.content.truth
        BY DEF TruthsTold
      <3>1. CASE t \in told
        <4>1. t.uuid \in Uuids BY <3>1 DEF UploadTypes
        <4>2. t.uuid # g.uuid BY <1>4, <3>1 DEF TruthsTold
        <4> QED BY <2>0, <3>1, <4>1, <4>2 DEF TruthsTold
      <3>2. CASE t = [uuid |-> g.uuid, content |-> g.content]
        BY <1>0, <2>0, <3>2, RowIsNoHole
      <3> QED BY <1>4, <3>1, <3>2
    <2> QED BY <1>2, <2>1, <2>2, <2>3
  <1>5. CASE /\ truths[g.uuid] # NoTruth /\ SameTruth(truths[g.uuid].content, g.content)
             /\ told' = told \cup {[uuid |-> g.uuid, content |-> g.content]}
             /\ UNCHANGED truths
    <2>1. UploadTypes' BY <1>0, <1>1, <1>5 DEF UploadTypes
    <2>2. TruthsPaid' BY <1>5 DEF TruthsPaid
    <2>3. TruthsTold' BY <1>5 DEF TruthsTold, SameTruth
    <2> QED BY <1>2, <2>1, <2>2, <2>3
  <1> QED BY <1>3, <1>4, <1>5 DEF StoreTruth

LEMMA YearsAreNat ==
    ASSUME NEW until \in Nat, NEW desired \in Nat PROVE YearsToPay(until, desired) \in Nat
  BY StorageAssumption DEF YearsToPay

(* A step that changes at most contexts.                                         *)
LEMMA WaitStep ==
    ASSUME TruthInv, tuc' \in [TruthSlots -> {NoUpload} \cup Context],
           UNCHANGED <<today, truthFree, truthPayments, truthOrders, truths, told>>
    PROVE TruthInv'
  BY DEF TruthInv, UploadTypes, PaymentsBacked, Lasts, TruthsPaid, TruthsTold

LEMMA ServeStep ==
    ASSUME TruthInv, UNCHANGED <<today, truthFree, truthPayments, truthOrders>>,
           NEW s \in TruthSlots, NEW g \in Context, ServeTruth(s, g)
    PROVE TruthInv'
  <1> DEFINE desired == today + g.years * TruthYear
             paidUntil == truthPayments[g.uuid]
  <1>0. g.years \in Nat /\ g.uuid \in Uuids BY DEF Context
  <1>1. desired \in Nat /\ paidUntil \in Nat /\ today \in Nat
    <2>1. g.years * TruthYear \in Nat BY <1>0, StorageAssumption
    <2> QED BY <1>0, <2>1 DEF TruthInv, UploadTypes
  <1>2. ASSUME NEW toPay \in Nat, BeginTruthPayment(s, g, toPay) PROVE TruthInv'
    <2>1. [g EXCEPT !.state = "parked", !.merchant = "check", !.toPay = toPay] \in Context
      BY DEF Context
    <2>2. tuc' \in [TruthSlots -> {NoUpload} \cup Context]
      BY <1>2, <2>1 DEF BeginTruthPayment, TruthReplies, TruthInv, UploadTypes
    <2> QED BY <1>2, <2>2, WaitStep DEF BeginTruthPayment
  <1>3. CASE truthFree /\ StoreTruth(s, g, today + MaxStorageYears * TruthYear, FALSE)
    <2>1. today + MaxStorageYears * TruthYear \in Nat BY <1>1, StorageAssumption
    <2> QED BY <1>3, <2>1, StoreStep
  <1>4. CASE /\ ~truthFree /\ paidUntil > today
             /\ IF paidUntil < desired THEN BeginTruthPayment(s, g, YearsToPay(paidUntil, desired))
                ELSE StoreTruth(s, g, paidUntil, FALSE)
    <2>1. CASE paidUntil < desired BY <1>1, <1>2, <1>4, <2>1, YearsAreNat
    <2>2. CASE ~(paidUntil < desired)
      <3>1. paidUntil # 0 BY <1>1, <1>4
      <3>2. StoreTruth(s, g, paidUntil, FALSE) BY <1>4, <2>2
      <3> QED BY <1>1, <3>1, <3>2, StoreStep
    <2> QED BY <2>1, <2>2
  <1>5. ASSUME NEW value \in Unset,
               LET until == IF value < today THEN today ELSE value
                   toPay == YearsToPay(until, desired)
               IN IF toPay > 0 THEN BeginTruthPayment(s, g, toPay) ELSE StoreTruth(s, g, until, TRUE)
        PROVE TruthInv'
    <2> DEFINE until == IF value < today THEN today ELSE value
               toPay == YearsToPay(until, desired)
    <2>1. until \in Nat BY <1>1, StorageAssumption
    <2>2. toPay \in Nat BY <1>1, <2>1, YearsAreNat
    <2>3. CASE toPay > 0 BY <1>2, <1>5, <2>2, <2>3
    <2>4. CASE ~(toPay > 0)
      <3>1. StoreTruth(s, g, until, TRUE) BY <1>5, <2>4
      <3> QED BY <2>1, <3>1, StoreStep
    <2> QED BY <2>3, <2>4
  <1> QED BY <1>3, <1>4, <1>5 DEF ServeTruth

LEMMA PostStep ==
    ASSUME TruthInv, NEW s \in TruthSlots, NEW u \in Uuids, NEW c \in TruthContents, NEW y \in StorageYears,
           PostTruth(s, u, c, y)
    PROVE TruthInv'
  <1> DEFINE g == [state |-> "called", uuid |-> u, content |-> c, merchant |-> "none", resp |-> "none",
                   years |-> IF y = 0 THEN 1 ELSE y, toPay |-> 0]
  <1>1. g \in Context BY StorageAssumption DEF Context
  <1>2. ServeTruth(s, g) /\ UNCHANGED <<today, truthFree, truthPayments, truthOrders>> BY DEF PostTruth
  <1> QED BY <1>1, <1>2, ServeStep

LEMMA ResumeStep ==
    ASSUME TruthInv, NEW s \in TruthSlots, ResumeTruth(s) PROVE TruthInv'
  <1>1. UNCHANGED <<today, truthFree, truthPayments, truthOrders>> BY DEF ResumeTruth
  <1>2. tuc[s] \in Context BY DEF ResumeTruth, TruthInv, UploadTypes, NoUpload
  <1>3. CASE TruthReplies(s) /\ UNCHANGED <<truths, told>>
    <2>1. tuc' \in [TruthSlots -> {NoUpload} \cup Context] BY <1>3 DEF TruthReplies, TruthInv, UploadTypes
    <2> QED BY <1>1, <1>3, <2>1, WaitStep
  <1>4. CASE ServeTruth(s, tuc[s]) BY <1>1, <1>2, <1>4, ServeStep
  <1> QED BY <1>3, <1>4 DEF ResumeTruth

-----------------------------------------------------------------------------
(* The callbacks.                                                      *)
LEMMA ResumedContext ==
    ASSUME TruthInv, NEW s \in TruthSlots, tuc[s].state = "parked",
           NEW resp \in {"none", "payment required", "error"}, ResumedWith(s, resp)
    PROVE tuc[s] \in Context /\ tuc' \in [TruthSlots -> {NoUpload} \cup Context]
  <1>1. tuc[s] \in Context
    <2>1. tuc[s] \in {NoUpload} \cup Context BY DEF TruthInv, UploadTypes
    <2>2. NoUpload.state # "parked" BY DEF NoUpload
    <2> QED BY <2>1, <2>2
  <1>2. [tuc[s] EXCEPT !.state = "resumed", !.merchant = "none", !.resp = resp] \in Context
    BY <1>1 DEF Context
  <1> QED BY <1>1, <1>2 DEF ResumedWith, TruthInv, UploadTypes

LEMMA CheckPaymentStep ==
    ASSUME TruthInv, NEW s \in TruthSlots, TruthCheckPaymentCb(s) PROVE TruthInv'
  <1> DEFINE g == tuc[s]
             order == truthOrders[g.uuid]
  <1>1. g.state = "parked" BY DEF TruthCheckPaymentCb
  <1>2. g \in Context BY <1>1 DEF TruthInv, UploadTypes, NoUpload
  <1>3. UNCHANGED <<today, truthFree, truths, truthOrders, told>> BY DEF TruthCheckPaymentCb
  <1>4. CASE /\ ConfirmedBy(order)
             /\ truthPayments' = RecordTruthPayment(truthPayments, g.uuid, order)
             /\ ResumedWith(s, "none")
    <2>0. g.uuid \in Uuids BY <1>2 DEF Context
    <2>1. Lasts(g.uuid) \in Nat BY <2>0, StorageAssumption DEF Lasts, TruthInv, UploadTypes
    <2>2. \A u \in Uuids : truthPayments'[u] = IF u = g.uuid THEN today + Lasts(u) ELSE truthPayments[u]
      BY <1>4, <2>0, <2>1, StorageAssumption DEF RecordTruthPayment, Lasts, TruthInv, UploadTypes
    <2>3. truthPayments' \in [Uuids -> Nat]
      BY <1>4, <2>0, <2>1, <2>2 DEF RecordTruthPayment, TruthInv, UploadTypes
    <2>4. UploadTypes' BY <1>1, <1>3, <1>4, <2>3, ResumedContext DEF TruthInv, UploadTypes
    <2>5. PaymentsBacked'
      <3> SUFFICES ASSUME NEW u \in Uuids, truthPayments'[u] # 0
                   PROVE truthOrders[u].state = "paid" /\ truthPayments'[u] <= today + Lasts(u)
        BY <1>3 DEF PaymentsBacked, Lasts
      <3>1. CASE u = g.uuid
        BY <1>4, <2>1, <2>2, <3>1 DEF ConfirmedBy, TruthInv, UploadTypes
      <3>2. CASE u # g.uuid BY <2>2, <3>2 DEF TruthInv, PaymentsBacked
      <3> QED BY <3>1, <3>2
    <2> QED BY <1>3, <2>4, <2>5 DEF TruthInv, TruthsPaid, TruthsTold
  <1>5. CASE ResumedWith(s, "payment required") /\ UNCHANGED truthPayments
    BY <1>1, <1>3, <1>5, ResumedContext, WaitStep
  <1>6. CASE tuc' = [tuc EXCEPT ![s].merchant = "order"] /\ UNCHANGED truthPayments
    <2>1. [g EXCEPT !.merchant = "order"] \in Context BY <1>2 DEF Context
    <2>2. tuc' \in [TruthSlots -> {NoUpload} \cup Context] BY <1>6, <2>1 DEF TruthInv, UploadTypes
    <2> QED BY <1>3, <1>6, <2>2, WaitStep
  <1>7. CASE ResumedWith(s, "error") /\ UNCHANGED truthPayments
    BY <1>1, <1>3, <1>7, ResumedContext, WaitStep
  <1> QED BY <1>4, <1>5, <1>6, <1>7 DEF TruthCheckPaymentCb

(* Orders change, but a paid one never.                                            *)
LEMMA OrderStep ==
    ASSUME TruthInv, NEW p \in Uuids, truthOrders[p].state # "paid",
           NEW order \in [state : {"none", "unpaid", "paid"}, years : Nat],
           truthOrders' = [truthOrders EXCEPT ![p] = order],
           tuc' \in [TruthSlots -> {NoUpload} \cup Context],
           UNCHANGED <<today, truthFree, truths, truthPayments, told>>
    PROVE TruthInv'
  <1>1. \A u \in Uuids : truthOrders[u].state = "paid" => truthOrders'[u] = truthOrders[u]
    BY DEF TruthInv, UploadTypes
  <1>2. UploadTypes' BY DEF TruthInv, UploadTypes
  <1>3. PaymentsBacked' BY <1>1 DEF TruthInv, PaymentsBacked, Lasts
  <1>4. TruthsPaid' BY <1>1 DEF TruthInv, TruthsPaid
  <1>5. TruthsTold' BY DEF TruthInv, TruthsTold
  <1> QED BY <1>2, <1>3, <1>4, <1>5 DEF TruthInv

LEMMA ProposalStep ==
    ASSUME TruthInv, NEW s \in TruthSlots, TruthProposalCb(s) PROVE TruthInv'
  <1> DEFINE g == tuc[s]
  <1>1. g.state = "parked" BY DEF TruthProposalCb
  <1>2. g \in Context BY <1>1 DEF TruthInv, UploadTypes, NoUpload
  <1>3. UNCHANGED <<today, truthFree, truths, truthPayments, told>> BY DEF TruthProposalCb
  <1>4. tuc' \in [TruthSlots -> {NoUpload} \cup Context]
    BY <1>1, ResumedContext DEF TruthProposalCb
  <1>5. CASE /\ truthOrders[g.uuid] = NoTruthOrder
             /\ truthOrders' = [truthOrders EXCEPT ![g.uuid] = [state |-> "unpaid", years |-> g.toPay]]
    <2>1. g.uuid \in Uuids /\ g.toPay \in Nat BY <1>2 DEF Context
    <2>2. truthOrders[g.uuid].state # "paid" BY <1>5 DEF NoTruthOrder
    <2> QED BY <1>3, <1>4, <1>5, <2>1, <2>2, OrderStep
  <1>6. CASE UNCHANGED truthOrders BY <1>3, <1>4, <1>6, WaitStep
  <1> QED BY <1>5, <1>6 DEF TruthProposalCb

LEMMA PayStep ==
    ASSUME TruthInv, NEW p \in Uuids, PayTruth(p) PROVE TruthInv'
  <1> DEFINE order == [truthOrders[p] EXCEPT !.state = "paid"]
  <1>1. order \in [state : {"none", "unpaid", "paid"}, years : Nat] BY DEF TruthInv, UploadTypes
  <1>2. truthOrders' = [truthOrders EXCEPT ![p] = order] BY DEF PayTruth
  <1>3. truthOrders[p].state # "paid" BY DEF PayTruth
  <1>4. tuc' \in [TruthSlots -> {NoUpload} \cup Context] BY DEF PayTruth, TruthInv, UploadTypes
  <1>5. UNCHANGED <<today, truthFree, truths, truthPayments, told>> BY DEF PayTruth
  <1> QED BY <1>1, <1>2, <1>3, <1>4, <1>5, OrderStep

LEMMA RestartStep == ASSUME TruthInv, TruthRestart PROVE TruthInv'
  <1>1. tuc' \in [TruthSlots -> {NoUpload} \cup Context] BY DEF TruthRestart
  <1> QED BY <1>1, WaitStep DEF TruthRestart

(* Time passes: what is paid until a date is paid until then later, too.                   *)
LEMMA DayStep == ASSUME TruthInv, NextDay PROVE TruthInv'
  <1>1. UploadTypes' BY DEF NextDay, TruthInv, UploadTypes
  <1>2. \A u \in Uuids : Lasts(u) \in Nat
    <2> TAKE u \in Uuids
    <2>1. truthOrders[u].years \in Nat BY DEF TruthInv, UploadTypes
    <2> QED BY <2>1, StorageAssumption DEF Lasts
  <1>3. PaymentsBacked' BY <1>2 DEF NextDay, TruthInv, UploadTypes, PaymentsBacked, Lasts
  <1>4. TruthsPaid' BY DEF NextDay, TruthInv, TruthsPaid
  <1>5. TruthsTold' BY DEF NextDay, TruthInv, TruthsTold
  <1> QED BY <1>1, <1>3, <1>4, <1>5 DEF TruthInv

-----------------------------------------------------------------------------
(* TruthInv is an invariant: every row of a payment is that of a paid order, every stored truth is   *)
(* covered by such a row or by an unset date, and what was told is stored.               *)
THEOREM UploadInvariant == TruthSpec => []TruthInv
  <1>1. TruthInv /\ [TruthNext]_truthVars => TruthInv'
    <2> SUFFICES ASSUME TruthInv, [TruthNext]_truthVars PROVE TruthInv' OBVIOUS
    <2>1. CASE UNCHANGED truthVars
      BY <2>1, WaitStep DEF truthVars, TruthInv, UploadTypes
    <2>2. ASSUME NEW s \in TruthSlots, NEW u \in Uuids, NEW c \in TruthContents, NEW y \in StorageYears,
                 PostTruth(s, u, c, y) PROVE TruthInv'
      BY <2>2, PostStep
    <2>3. ASSUME NEW s \in TruthSlots, ResumeTruth(s) PROVE TruthInv' BY <2>3, ResumeStep
    <2>4. ASSUME NEW s \in TruthSlots, TruthCheckPaymentCb(s) PROVE TruthInv' BY <2>4, CheckPaymentStep
    <2>5. ASSUME NEW s \in TruthSlots, TruthProposalCb(s) PROVE TruthInv' BY <2>5, ProposalStep
    <2>6. ASSUME NEW u \in Uuids, PayTruth(u) PROVE TruthInv' BY <2>6, PayStep
    <2>7. CASE TruthRestart BY <2>7, RestartStep
    <2>8. CASE NextDay BY <2>8, DayStep
    <2> QED BY <2>1, <2>2, <2>3, <2>4, <2>5, <2>6, <2>7, <2>8 DEF TruthNext
  <1> QED BY <1>1, TruthInitInv, PTL DEF TruthSpec

(* POST /truth stores a truth for a paid order only, and no longer than was paid, whichever of  *)
(* several requests had the order made, saw it paid, or stored the truth.               *)
THEOREM PaidTruths == TruthSpec => []TruthsPaid
  <1>1. TruthInv => TruthsPaid BY DEF TruthInv
  <1> QED BY <1>1, UploadInvariant, PTL

(* What POST /truth has answered with 204 stays stored under its UUID.                 *)
THEOREM ToldTruths == TruthSpec => []TruthsTold
  <1>1. TruthInv => TruthsTold BY DEF TruthInv
  <1> QED BY <1>1, UploadInvariant, PTL

------------------------------------------------------------------------------------------
(************************ wallets that share a backup ************************)
(* The devices that share a backup forget nothing: for all devices, records and cycles.    *)
(* What makes it so. All values have their types;                                     *)
Records == [kind : {i.kind : i \in NewItems} \cup {"purchase"}, id : {i.id : i \in NewItems}, renamed : BOOLEAN, denoms : BOOLEAN]
Stones == [kind : {i.kind : i \in NewItems} \cup {"purchase"}, id : {i.id : i \in NewItems}, renamed : BOOLEAN]
Blobs == [root : Devices, by : Devices, nonce : Nat, entries : SUBSET Records]

CycleStates ==
    [pc : {"idle", "begin", "export", "upload", "pay", "unchanged", "stored", "conflict", "merged"}, hash : Blobs \cup {NoBlob},
     entries : SUBSET Records, blob : Blobs \cup {NoBlob}, found : Blobs \cup {NoBlob}, again : BOOLEAN]

Confs == [Devices -> [root : Devices, nonce : Nat, plain : {NoBlob} \cup [root : Devices, entries : SUBSET Records]]]
Accounts == [Devices -> [blob : Blobs \cup {NoBlob}, paid : BOOLEAN]]

SyncTypeOK ==
    /\ db \in [Devices -> SUBSET Records]
    /\ tombs \in [Devices -> SUBSET Stones]
    /\ conf \in Confs
    /\ prov \in [Devices -> SUBSET [hash : Blobs \cup {NoBlob}, state : {"ready", "provisional", "retrying"}]]
    /\ adding \in [Devices -> {"no", "ready", "provisional"}]
    /\ cycle \in [Cycles -> CycleStates]
    /\ account \in Accounts

(* a wallet has what is in a backup before it takes note of its hash,                   *)
Knows(d, blob) == blob # NoBlob => Holds(blob.entries, db[d], tombs[d])

HashesHeld == \A d \in Devices : \A p \in prov[d] : Knows(d, p.hash)

(* and a cycle carries what is in the backup that it is going to replace.               *)
CycleHolds(c) ==
    /\ cycle[c].pc = "export" => Knows(c.device, cycle[c].hash)
    /\ cycle[c].pc = "upload" =>
          /\ cycle[c].hash # NoBlob => Holds(cycle[c].hash.entries, cycle[c].entries, tombs[c.device])
          /\ Holds(cycle[c].entries, db[c.device], tombs[c.device])
    /\ cycle[c].pc = "conflict" => cycle[c].found # NoBlob
    /\ cycle[c].pc = "stored" => Knows(c.device, cycle[c].blob)
    /\ cycle[c].pc = "merged" => Knows(c.device, cycle[c].found)

CyclesHold == \A c \in Cycles : CycleHolds(c)

SyncInv == SyncTypeOK /\ HashesHeld /\ CyclesHold

SyncSpec == SyncInit /\ [][SyncNext]_syncVars

-----------------------------------------------------------------------------
(* A device keeps what it has, under another name maybe, or a tombstone of it.           *)
Keeps(d) == \A e \in Records : StillThere(e, db[d], tombs[d]) => StillThere(e, db'[d], tombs'[d])

(* What an import takes is there afterwards, and what was there still is: for the merge    *)
(* of runBackupCycleForProvider.                                                     *)
LEMMA ImportHolds ==
    ASSUME NEW records \in SUBSET Records, NEW stones, NEW entries \in SUBSET Records
    PROVE  /\ ImportBackup(records, stones, entries) \in SUBSET Records
           /\ Holds(entries, ImportBackup(records, stones, entries), stones)
           /\ \A e \in Records : StillThere(e, records, stones)
                  => StillThere(e, ImportBackup(records, stones, entries), stones)
<1> DEFINE after == ImportBackup(records, stones, entries)
<1>1. \A e \in Records : /\ Restored(e) \in Records
                         /\ Restored(e).id = e.id /\ Restored(e).kind = e.kind
                         /\ Tombstone(Restored(e)) = Tombstone(e)
  BY DEF Records, Restored, Tombstone, Key
<1>2. after \in SUBSET Records
  BY <1>1 DEF ImportBackup, Missing
<1>3. \A r \in Records : Tombstone(r).id = r.id
  BY DEF Records, Tombstone, Key
<1>4. \A r \in records : r \in after \/ \E t \in stones : t.id = r.id
  BY <1>3 DEF ImportBackup
<1>5. ASSUME NEW e \in entries, e.kind \in ImportedKinds
      PROVE  StillThere(e, after, stones)
  <2>1. CASE Tombstone(e) \in stones
    BY <2>1, <1>3 DEF StillThere
  <2>2. CASE Key(e) \in {Key(r) : r \in records}
    <3>1. PICK r \in records : Key(e) = Key(r)
      BY <2>2
    <3>2. r.id = e.id /\ r.kind = e.kind
      BY <3>1 DEF Key
    <3> QED
      BY <3>2, <1>4 DEF StillThere
  <2>3. CASE e \in Missing(records, stones, entries)
    <3>1. Tombstone(Restored(e)) \notin stones
      BY <2>3, <1>1 DEF Missing
    <3>2. Restored(e) \in after
      BY <2>3, <3>1 DEF ImportBackup
    <3> QED
      BY <3>2, <1>1 DEF StillThere
  <2> QED
    BY <1>5, <2>1, <2>2, <2>3 DEF Missing
<1>6. ASSUME NEW e \in Records, StillThere(e, records, stones)
      PROVE  StillThere(e, after, stones)
  BY <1>6, <1>4 DEF StillThere
<1> HIDE DEF after
<1> QED
  BY <1>2, <1>5, <1>6 DEF after, Holds

(* What a wallet has is in its next backup: for exportBackup.                            *)
LEMMA ExportHolds ==
    ASSUME NEW records \in SUBSET Records, NEW stones
    PROVE  /\ ExportBackup(records) \in SUBSET Records
           /\ Holds(ExportBackup(records), records, stones)
           /\ \A e \in Records : e.kind \in ImportedKinds /\ StillThere(e, records, stones)
                  => StillThere(e, ExportBackup(records), stones)
<1>1. \A r \in Records : Exported(r) \in Records /\ Exported(r).id = r.id /\ Exported(r).kind = r.kind
  BY DEF Records, Exported
<1>2. ExportBackup(records) \in SUBSET Records
  BY <1>1 DEF ExportBackup
<1>3. Holds(ExportBackup(records), records, stones)
  BY <1>1 DEF ExportBackup, Holds, StillThere
<1>4. ASSUME NEW e \in Records, e.kind \in ImportedKinds, StillThere(e, records, stones)
      PROVE  StillThere(e, ExportBackup(records), stones)
  <2>1. CASE \E t \in stones : t.id = e.id
    BY <2>1 DEF StillThere
  <2>2. CASE \E r \in records : r.id = e.id /\ (r.kind = e.kind \/ (e.kind = "proposal" /\ r.kind = "purchase"))
    <3>1. PICK r \in records : r.id = e.id /\ (r.kind = e.kind \/ (e.kind = "proposal" /\ r.kind = "purchase"))
      BY <2>2
    <3>2. r.kind \in ExportedKinds
      BY <3>1, <1>4 DEF ImportedKinds, ExportedKinds
    <3>3. CASE Accepted(records, r)
      <4>1. PICK s \in records : Key(s) = [Key(r) EXCEPT !.kind = "purchase"]
        BY <3>3 DEF Accepted
      <4>2. s.id = r.id /\ s.kind = "purchase"
        BY <4>1 DEF Key
      <4>3. Exported(s) \in ExportBackup(records)
        BY <4>2 DEF ExportBackup, Accepted, ExportedKinds, ImportedKinds
      <4>4. e.kind = "proposal"
        BY <3>1, <3>3 DEF Accepted
      <4> QED
        BY <1>1, <3>1, <4>2, <4>3, <4>4 DEF StillThere
    <3>4. CASE ~Accepted(records, r)
      <4>1. Exported(r) \in ExportBackup(records)
        BY <3>2, <3>4 DEF ExportBackup
      <4> QED
        BY <1>1, <3>1, <4>1 DEF StillThere
    <3> QED
      BY <3>3, <3>4
  <2> QED
    BY <1>4, <2>1, <2>2 DEF StillThere
<1> QED
  BY <1>2, <1>3, <1>4

(* An action that keeps what wallets have, and writes no new hash into the records of         *)
(* providers.                                                                      *)
OldHashes == \A d \in Devices : \A p \in prov'[d] : p.hash = NoBlob \/ \E q \in prov[d] : q.hash = p.hash

LEMMA KnowsStays ==
    ASSUME NEW d \in Devices, NEW blob \in Blobs \cup {NoBlob}, Keeps(d), Knows(d, blob)
    PROVE  blob # NoBlob => Holds(blob.entries, db'[d], tombs'[d])
BY DEF Keeps, Knows, Holds, Blobs

LEMMA HashesStay ==
    ASSUME SyncTypeOK, HashesHeld, OldHashes, \A d \in Devices : Keeps(d)
    PROVE  HashesHeld'
<1> SUFFICES ASSUME NEW d \in Devices, NEW p \in prov'[d], p.hash # NoBlob
             PROVE  Holds(p.hash.entries, db'[d], tombs'[d])
  BY DEF HashesHeld, Knows
<1>1. PICK q \in prov[d] : q.hash = p.hash
  BY DEF OldHashes
<1>2. q.hash \in Blobs \cup {NoBlob}
  BY DEF SyncTypeOK
<1>3. Knows(d, q.hash)
  BY DEF HashesHeld
<1> QED
  BY <1>1, <1>2, <1>3, KnowsStays

LEMMA CycleStays ==
    ASSUME SyncTypeOK, NEW c \in Cycles, CycleHolds(c), Keeps(c.device), tombs[c.device] \subseteq tombs'[c.device],
           cycle'[c] = cycle[c]
    PROVE  CycleHolds(c)'
<1>1. c.device \in Devices
  BY CyclesAssumption
<1>2. /\ cycle[c].hash \in Blobs \cup {NoBlob} /\ cycle[c].blob \in Blobs \cup {NoBlob}
      /\ cycle[c].found \in Blobs \cup {NoBlob} /\ cycle[c].entries \in SUBSET Records
  BY DEF SyncTypeOK, CycleStates
<1>3. cycle[c].pc = "export" => Knows(c.device, cycle[c].hash)'
  BY <1>1, <1>2, KnowsStays DEF CycleHolds, Knows
<1>4. cycle[c].pc = "stored" => Knows(c.device, cycle[c].blob)'
  BY <1>1, <1>2, KnowsStays DEF CycleHolds, Knows
<1>5. cycle[c].pc = "merged" => Knows(c.device, cycle[c].found)'
  BY <1>1, <1>2, KnowsStays DEF CycleHolds, Knows
<1>6. ASSUME cycle[c].pc = "upload"
      PROVE  /\ cycle[c].hash # NoBlob => Holds(cycle[c].hash.entries, cycle[c].entries, tombs'[c.device])
             /\ Holds(cycle[c].entries, db'[c.device], tombs'[c.device])
  <2>1. Holds(cycle[c].entries, db'[c.device], tombs'[c.device])
    BY <1>2, <1>6 DEF CycleHolds, Holds, Keeps
  <2>2. cycle[c].hash # NoBlob => Holds(cycle[c].hash.entries, cycle[c].entries, tombs'[c.device])
    BY <1>6 DEF CycleHolds, Holds, StillThere
  <2> QED
    BY <2>1, <2>2
<1> QED
  BY <1>3, <1>4, <1>5, <1>6 DEF CycleHolds

LEMMA RecordIn ==
    ASSUME SyncTypeOK, NEW d \in Devices, Has(d)
    PROVE  /\ Record(d) \in prov[d]
           /\ Record(d).hash \in Blobs \cup {NoBlob} /\ Record(d).state \in {"ready", "provisional", "retrying"}
<1>1. Record(d) \in prov[d]
  BY DEF Has, Record
<1> QED
  BY <1>1 DEF SyncTypeOK

ProvTypeOK == prov \in [Devices -> SUBSET [hash : Blobs \cup {NoBlob}, state : {"ready", "provisional", "retrying"}]]

LEMMA PutOld ==
    ASSUME SyncTypeOK, NEW d \in Devices, NEW hash, NEW state \in {"ready", "provisional", "retrying"}, Put(d, hash, state),
           hash = NoBlob \/ (Has(d) /\ hash = Record(d).hash)
    PROVE  ProvTypeOK' /\ OldHashes
BY RecordIn DEF SyncTypeOK, ProvTypeOK, OldHashes, Put

LEMMA SameProv ==
    ASSUME SyncTypeOK, UNCHANGED prov
    PROVE  ProvTypeOK' /\ OldHashes
BY DEF SyncTypeOK, ProvTypeOK, OldHashes

LEMMA RetryOld ==
    ASSUME SyncTypeOK, NEW d \in Devices, IncrementBackupRetry(d)
    PROVE  ProvTypeOK' /\ OldHashes
BY PutOld, SameProv DEF IncrementBackupRetry

-----------------------------------------------------------------------------
LEMMA SyncInitInv == SyncInit => SyncInv
<1> SUFFICES ASSUME SyncInit PROVE SyncInv
  OBVIOUS
<1>1. \A i \in NewItems : NewItem(i) \in Records
  BY DEF NewItem, Records
<1>2. Idle \in CycleStates
  BY DEF Idle, CycleStates
<1>3. cycle \in [Cycles -> CycleStates]
  BY <1>2 DEF SyncInit
<1>4. db \in [Devices -> SUBSET Records]
  <2>1. CASE db \in [Devices -> {{NewItem(i)} : i \in NewItems}]
    BY <1>1, <2>1
  <2>2. CASE db = [d \in Devices |-> {}]
    BY <2>2
  <2>3. CASE \E i \in NewItems, f \in Devices : db = [d \in Devices |-> IF d = f THEN {NewItem(i)} ELSE {}]
    BY <1>1, <2>3
  <2> QED
    BY <2>1, <2>2, <2>3 DEF SyncInit
<1>5. ASSUME NEW d \in Devices
      PROVE  NewConf(d) \in [root : Devices, nonce : Nat, plain : {NoBlob} \cup [root : Devices, entries : SUBSET Records]]
  BY DEF NewConf
<1>6. conf \in [Devices -> [root : Devices, nonce : Nat, plain : {NoBlob} \cup [root : Devices, entries : SUBSET Records]]]
  <2>1. ASSUME NEW d \in Devices
        PROVE  [root |-> d, nonce |-> 1, plain |-> [root |-> d, entries |-> {}]]
                   \in [root : Devices, nonce : Nat, plain : {NoBlob} \cup [root : Devices, entries : SUBSET Records]]
    OBVIOUS
  <2>2. Devices # {} => (CHOOSE d \in Devices : TRUE) \in Devices
    OBVIOUS
  <2>3. CASE conf = [d \in Devices |-> NewConf(CHOOSE x \in Devices : TRUE)]
    BY <1>5, <2>2, <2>3
  <2>4. CASE conf = [d \in Devices |-> NewConf(d)]
    BY <1>5, <2>4
  <2>5. CASE conf = [d \in Devices |-> [root |-> d, nonce |-> 1, plain |-> [root |-> d, entries |-> {}]]]
    BY <2>1, <2>5
  <2> QED
    BY <2>3, <2>4, <2>5 DEF SyncInit
<1>7. prov \in {Ready, [d \in Devices |-> {}]}
  BY DEF SyncInit
<1>8. ProvTypeOK /\ HashesHeld
  BY <1>7 DEF ProvTypeOK, HashesHeld, Ready, Knows
<1>9. account \in [Devices -> [blob : Blobs \cup {NoBlob}, paid : BOOLEAN]]
  <2>1. Unpaid \in [Devices -> [blob : Blobs \cup {NoBlob}, paid : BOOLEAN]]
    BY DEF Unpaid
  <2>2. [Unpaid EXCEPT ![CHOOSE d \in Devices : TRUE].paid = TRUE] \in [Devices -> [blob : Blobs \cup {NoBlob}, paid : BOOLEAN]]
    BY DEF Unpaid
  <2>3. [d \in Devices |-> [blob |-> FirstBackup(d), paid |-> TRUE]] \in [Devices -> [blob : Blobs \cup {NoBlob}, paid : BOOLEAN]]
    BY DEF FirstBackup, Blobs
  <2> QED
    BY <2>1, <2>2, <2>3 DEF SyncInit
<1>10. adding \in [Devices -> {"no", "ready", "provisional"}]
  BY DEF SyncInit
<1>12. tombs \in [Devices -> SUBSET Stones]
  BY DEF SyncInit
<1>11. CyclesHold
  BY DEF SyncInit, Idle, CyclesHold, CycleHolds
<1> QED
  BY <1>3, <1>4, <1>6, <1>8, <1>9, <1>10, <1>11, <1>12 DEF SyncInv, SyncTypeOK, ProvTypeOK, Confs, Accounts

-----------------------------------------------------------------------------
(* A wallet that gets, accepts or deletes something keeps the rest.                        *)
LEMMA WalletSteps ==
    ASSUME SyncInv, NEW d \in Devices,
           \/ \E item \in NewItems : Create(d, item)
           \/ \E r \in db[d] : Accept(d, r) \/ Delete(d, r)
    PROVE  SyncInv'
<1> USE DEF SyncInv
<1>1. \A r \in Records : Tombstone(r) \in Stones /\ Tombstone(r).id = r.id
  BY DEF Records, Stones, Tombstone, Key
<1>2. /\ db' \in [Devices -> SUBSET Records] /\ tombs' \in [Devices -> SUBSET Stones]
      /\ \A x \in Devices : Keeps(x) /\ tombs[x] \subseteq tombs'[x]
  <2>1. CASE \E item \in NewItems : Create(d, item)
    <3>1. PICK item \in NewItems : Create(d, item)
      BY <2>1
    <3>2. NewItem(item) \in Records
      BY DEF NewItem, Records
    <3> QED
      BY <3>1, <3>2 DEF Create, SyncTypeOK, Keeps, StillThere
  <2>2. CASE \E r \in db[d] : Accept(d, r)
    <3>1. PICK r \in db[d] : Accept(d, r)
      BY <2>2
    <3>2. [r EXCEPT !.kind = "purchase"] \in Records
      <4>1. r \in Records
        BY DEF SyncTypeOK
      <4> QED
        BY <4>1 DEF Records
    <3> QED
      BY <3>1, <3>2 DEF Accept, SyncTypeOK, Keeps, StillThere
  <2>3. CASE \E r \in db[d] : Delete(d, r)
    <3>1. PICK r \in db[d] : Delete(d, r)
      BY <2>3
    <3> DEFINE T == Tombstone(r)
    <3>2. /\ db' = [db EXCEPT ![d] = {s \in @ : Tombstone(s) # T}]
          /\ \A x \in Devices : tombs[x] \subseteq tombs'[x]
          /\ T \in tombs'[d]
      BY <3>1 DEF Delete, SyncTypeOK
    <3>3. db' \in [Devices -> SUBSET Records] /\ tombs' \in [Devices -> SUBSET Stones]
      BY <1>1, <3>1 DEF SyncTypeOK, Delete
    <3>4. ASSUME NEW x \in Devices PROVE Keeps(x)
      BY <1>1, <3>2 DEF SyncTypeOK, Keeps, StillThere
    <3> QED
      BY <3>2, <3>3, <3>4
  <2> QED
    BY <2>1, <2>2, <2>3
<1>3. UNCHANGED <<conf, prov, adding, cycle, account>>
  BY DEF Create, Accept, Delete
<1>4. HashesHeld'
  BY <1>2, <1>3, SameProv, HashesStay
<1>5. CyclesHold'
  BY <1>2, <1>3, CyclesAssumption, CycleStays DEF CyclesHold
<1> QED
  BY <1>2, <1>3, <1>4, <1>5 DEF SyncTypeOK

-----------------------------------------------------------------------------
LEMMA SameData ==
    ASSUME UNCHANGED <<db, tombs>>
    PROVE  \A d \in Devices : Keeps(d) /\ tombs[d] \subseteq tombs'[d]
BY DEF Keeps

(* A step that leaves the wallets and the cycles alone.                                  *)
LEMMA ProviderStays ==
    ASSUME SyncInv, UNCHANGED <<db, tombs, cycle>>, ProvTypeOK', OldHashes,
           conf' \in Confs, adding' \in [Devices -> {"no", "ready", "provisional"}], account' \in Accounts
    PROVE  SyncInv'
<1> USE DEF SyncInv
<1>1. SyncTypeOK'
  BY DEF SyncTypeOK, ProvTypeOK
<1>2. HashesHeld'
  BY SameData, HashesStay
<1>3. CyclesHold'
  BY SameData, CyclesAssumption, CycleStays DEF CyclesHold
<1> QED
  BY <1>1, <1>2, <1>3

(* addBackupProvider, removeBackupProvider and loadBackupRecovery write no hash.            *)
LEMMA ProviderSteps ==
    ASSUME SyncInv, NEW d \in Devices,
           \/ \E state \in {"ready", "provisional"} : AddBackupProvider(d, state)
           \/ AddedBackupProvider(d) \/ RemoveBackupProvider(d)
           \/ \E e \in Devices \ {d} : LoadBackupRecovery(d, e)
    PROVE  SyncInv'
<1>0. SyncTypeOK /\ conf \in Confs /\ adding \in [Devices -> {"no", "ready", "provisional"}] /\ account \in Accounts
  BY DEF SyncInv, SyncTypeOK
<1>1. ASSUME NEW state \in {"ready", "provisional"}, AddBackupProvider(d, state)
      PROVE  SyncInv'
  <2>1. ProvTypeOK' /\ OldHashes
    BY <1>0, <1>1, PutOld, SameProv DEF AddBackupProvider
  <2>2. adding' \in [Devices -> {"no", "ready", "provisional"}]
    BY <1>0, <1>1 DEF AddBackupProvider
  <2> QED
    BY <1>0, <1>1, <2>1, <2>2, ProviderStays DEF AddBackupProvider
<1>2. CASE AddedBackupProvider(d)
  <2>1. adding[d] \in {"ready", "provisional"}
    BY <1>0, <1>2 DEF AddedBackupProvider
  <2>2. ProvTypeOK' /\ OldHashes
    BY <1>0, <1>2, <2>1, PutOld DEF AddedBackupProvider
  <2>3. adding' \in [Devices -> {"no", "ready", "provisional"}]
    BY <1>0, <1>2 DEF AddedBackupProvider
  <2> QED
    BY <1>0, <1>2, <2>2, <2>3, ProviderStays DEF AddedBackupProvider
<1>3. CASE RemoveBackupProvider(d)
  <2>1. ProvTypeOK' /\ OldHashes
    BY <1>0, <1>3 DEF RemoveBackupProvider, SyncTypeOK, ProvTypeOK, OldHashes
  <2> QED
    BY <1>0, <1>3, <2>1, ProviderStays DEF RemoveBackupProvider
<1>4. ASSUME NEW e \in Devices \ {d}, LoadBackupRecovery(d, e)
      PROVE  SyncInv'
  <2>1. (IF Has(d) THEN Record(d).state ELSE "ready") \in {"ready", "provisional", "retrying"}
    BY <1>0, RecordIn
  <2>2. ProvTypeOK' /\ OldHashes
    BY <1>0, <1>4, <2>1, PutOld DEF LoadBackupRecovery
  <2>3. conf' \in Confs
    BY <1>0, <1>4 DEF LoadBackupRecovery, NewConf, Confs
  <2> QED
    BY <1>0, <1>4, <2>2, <2>3, ProviderStays DEF LoadBackupRecovery
<1> QED
  BY <1>1, <1>2, <1>3, <1>4

(* A wallet that takes the place of a lost one has nothing, and knows of no backup.           *)
LEMMA ReplaceStep ==
    ASSUME SyncInv, NEW d \in Devices, NEW e \in Devices, Replace(d, e)
    PROVE  SyncInv'
<1>0. SyncTypeOK /\ HashesHeld /\ CyclesHold
  BY DEF SyncInv
<1>1. Idle \in CycleStates
  BY DEF Idle, CycleStates
<1>2. ProvTypeOK' /\ OldHashes
  BY <1>0, PutOld DEF Replace
<1>3. db' \in [Devices -> SUBSET Records] /\ tombs' \in [Devices -> SUBSET Stones]
  BY <1>0 DEF Replace, SyncTypeOK
<1>4. conf' \in Confs /\ adding' \in [Devices -> {"no", "ready", "provisional"}]
  BY <1>0 DEF Replace, SyncTypeOK, NewConf, Confs
<1>5. cycle' \in [Cycles -> CycleStates] /\ account' \in Accounts
  BY <1>0, <1>1 DEF Replace, SyncTypeOK
<1>6. \A x \in Devices \ {d} : Keeps(x) /\ tombs[x] \subseteq tombs'[x]
  BY <1>0 DEF Replace, SyncTypeOK, Keeps
<1>7. HashesHeld'
  <2> SUFFICES ASSUME NEW x \in Devices, NEW p \in prov'[x], p.hash # NoBlob
               PROVE  Holds(p.hash.entries, db'[x], tombs'[x])
    BY DEF HashesHeld, Knows
  <2>1. x # d /\ p \in prov[x]
    BY <1>0 DEF Replace, Put, SyncTypeOK
  <2>2. p.hash \in Blobs \cup {NoBlob} /\ Knows(x, p.hash)
    BY <1>0, <2>1 DEF SyncTypeOK, HashesHeld
  <2> QED
    BY <1>6, <2>1, <2>2, KnowsStays
<1>8. CyclesHold'
  <2> SUFFICES ASSUME NEW c \in Cycles PROVE CycleHolds(c)'
    BY DEF CyclesHold
  <2>1. CASE c.device = d
    BY <2>1 DEF Replace, Idle, CycleHolds
  <2>2. CASE c.device # d
    BY <1>0, <1>6, <2>2, CyclesAssumption, CycleStays DEF Replace, CyclesHold
  <2> QED
    BY <2>1, <2>2
<1> QED
  BY <1>2, <1>3, <1>4, <1>5, <1>7, <1>8 DEF SyncInv, SyncTypeOK, ProvTypeOK

-----------------------------------------------------------------------------
(* A step of a cycle, by which no wallet forgets a record.                                *)
LEMMA CycleMoves ==
    ASSUME SyncInv, NEW c \in Cycles, NEW to \in CycleStates, Goes(c, to), CycleHolds(c)',
           db' \in [Devices -> SUBSET Records], \A d \in Devices : Keeps(d), UNCHANGED <<tombs, adding>>,
           ProvTypeOK', HashesHeld', conf' \in Confs, account' \in Accounts
    PROVE  SyncInv'
<1> USE DEF SyncInv
<1>1. cycle' \in [Cycles -> CycleStates]
  BY DEF Goes, SyncTypeOK
<1>2. ASSUME NEW x \in Cycles PROVE CycleHolds(x)'
  <2>1. CASE x = c
    BY <2>1
  <2>2. CASE x # c
    BY <2>2, CyclesAssumption, CycleStays DEF Goes, SyncTypeOK, CyclesHold
  <2> QED
    BY <2>1, <2>2
<1> QED
  BY <1>1, <1>2 DEF SyncTypeOK, ProvTypeOK, CyclesHold

(* One that writes no hash, and nothing into the wallet.                                   *)
LEMMA CycleGoes ==
    ASSUME SyncInv, NEW c \in Cycles, NEW to \in CycleStates, Goes(c, to), CycleHolds(c)',
           UNCHANGED <<db, tombs, adding>>, ProvTypeOK', OldHashes, conf' \in Confs, account' \in Accounts
    PROVE  SyncInv'
<1>1. db' \in [Devices -> SUBSET Records]
  BY DEF SyncInv, SyncTypeOK
<1>2. HashesHeld'
  BY SameData, HashesStay DEF SyncInv
<1> QED
  BY <1>1, <1>2, SameData, CycleMoves

LEMMA IdleHolds ==
    ASSUME SyncInv, NEW c \in Cycles, Ends(c)
    PROVE  Idle \in CycleStates /\ Goes(c, Idle) /\ CycleHolds(c)'
BY DEF SyncInv, SyncTypeOK, Ends, Goes, Idle, CycleStates, CycleHolds

(* A cycle that ends, whatever becomes of the state of the record.                          *)
LEMMA CycleEnds ==
    ASSUME SyncInv, NEW c \in Cycles, Ends(c), UNCHANGED <<db, tombs, adding, conf, account>>, ProvTypeOK', OldHashes
    PROVE  SyncInv'
BY IdleHolds, CycleGoes DEF SyncInv, SyncTypeOK

LEMMA CycleThrows ==
    ASSUME SyncInv, NEW c \in Cycles, Throws(c), UNCHANGED <<db, tombs, adding, conf, account>>
    PROVE  SyncInv'
<1>1. ProvTypeOK' /\ OldHashes
  BY CyclesAssumption, RetryOld, SameProv DEF SyncInv, Throws
<1> QED
  BY <1>1, CycleEnds DEF Throws

(* The hash that a cycle begins with is one whose backup the wallet has.                     *)
LEMMA CycleBegins ==
    ASSUME SyncInv, NEW c \in Cycles, NEW again \in BOOLEAN, Begins(c, again),
           UNCHANGED <<db, tombs, adding, conf, prov, account>>
    PROVE  SyncInv'
<1>1. ProvTypeOK' /\ OldHashes
  BY SameProv DEF SyncInv
<1>2. CASE ~Has(c.device)
  BY <1>1, <1>2, CycleEnds DEF Begins, Ends
<1>3. CASE Has(c.device)
  <2> DEFINE to == [Idle EXCEPT !.pc = "export", !.hash = Record(c.device).hash, !.again = again]
  <2>1. c.device \in Devices
    BY CyclesAssumption
  <2>2. Record(c.device) \in prov[c.device] /\ Record(c.device).hash \in Blobs \cup {NoBlob}
    BY <1>3, <2>1, RecordIn DEF SyncInv
  <2>3. to \in CycleStates
    BY <2>2 DEF Idle, CycleStates
  <2>4. Goes(c, to)
    BY <1>3 DEF Begins
  <2>5. cycle'[c] = to
    BY <2>4 DEF Goes, SyncInv, SyncTypeOK
  <2>6. Knows(c.device, Record(c.device).hash)
    BY <2>1, <2>2 DEF SyncInv, HashesHeld
  <2>7. to.pc = "export" /\ to.hash = Record(c.device).hash
    BY DEF Idle
  <2>8. CycleHolds(c)'
    BY <2>5, <2>6, <2>7 DEF CycleHolds, Knows
  <2> QED
    BY <1>1, <2>3, <2>4, <2>8, CycleGoes DEF SyncInv, SyncTypeOK
<1> QED
  BY <1>2, <1>3

LEMMA ExportStep ==
    ASSUME SyncInv, NEW c \in Cycles, Export(c)
    PROVE  SyncInv'
<1> DEFINE d == c.device
           entries == ExportBackup(db[d])
           to == [cycle[c] EXCEPT !.pc = "upload", !.entries = entries]
           plain == [root |-> conf[d].root, entries |-> entries]
<1>1. d \in Devices /\ cycle[c] \in CycleStates /\ db[d] \in SUBSET Records /\ cycle[c].pc = "export"
  BY CyclesAssumption DEF SyncInv, SyncTypeOK, Export, Reached
<1>2. /\ entries \in SUBSET Records /\ Holds(entries, db[d], tombs[d])
      /\ \A e \in Records : e.kind \in ImportedKinds /\ StillThere(e, db[d], tombs[d]) => StillThere(e, entries, tombs[d])
  BY <1>1, ExportHolds
<1>3. to \in CycleStates /\ to.pc = "upload" /\ to.entries = entries /\ to.hash = cycle[c].hash
  <2> HIDE DEF entries
  <2> QED
    BY <1>1, <1>2 DEF CycleStates
<1>4. conf' \in Confs
  <2>1. plain \in [root : Devices, entries : SUBSET Records]
    BY <1>1, <1>2 DEF SyncInv, SyncTypeOK, Confs
  <2> HIDE DEF plain
  <2>2. CASE conf' = conf
    BY <2>2 DEF SyncInv, SyncTypeOK
  <2>3. CASE conf' = [conf EXCEPT ![d].plain = plain, ![d].nonce = @ + 1]
    BY <1>1, <2>1, <2>3 DEF SyncInv, SyncTypeOK, Confs
  <2> QED
    BY <2>2, <2>3 DEF Export, plain
<1>5. Goes(c, to) /\ UNCHANGED <<db, tombs, prov, adding, account>>
  BY DEF Export
<1>6. ProvTypeOK' /\ OldHashes
  BY <1>5, SameProv DEF SyncInv
<1>7. cycle'[c] = to
  BY <1>5 DEF Goes, SyncInv, SyncTypeOK
<1>8. Knows(d, cycle[c].hash) /\ cycle[c].hash \in Blobs \cup {NoBlob}
  BY <1>1 DEF SyncInv, CyclesHold, CycleHolds, CycleStates
<1>9. cycle[c].hash # NoBlob => Holds(cycle[c].hash.entries, entries, tombs[d])
  BY <1>2, <1>8 DEF Knows, Holds, Blobs
<1> HIDE DEF to, entries
<1>10. CycleHolds(c)'
  BY <1>2, <1>3, <1>5, <1>7, <1>9 DEF CycleHolds
<1> QED
  BY <1>3, <1>4, <1>5, <1>6, <1>10, CycleGoes DEF SyncInv, SyncTypeOK

(* A cycle is told that its backup is stored: what it exported is there, or deleted.          *)
LEMMA UploadStep ==
    ASSUME SyncInv, NEW c \in Cycles, Upload(c)
    PROVE  SyncInv'
<1> DEFINE d == c.device
           blob == Encrypted(c)
           mine == account[blob.root]
           answer(pc) == [Idle EXCEPT !.pc = pc, !.again = cycle[c].again]
           Answered(to) == to \in CycleStates /\ to.pc \in {"stored", "pay", "unchanged", "conflict"}
                             /\ (to.pc = "stored" => to.blob = blob)
                             /\ (to.pc = "conflict" => to.found # NoBlob)
<1>1. /\ d \in Devices /\ cycle[c] \in CycleStates /\ cycle[c].pc = "upload"
      /\ conf[d].root \in Devices /\ conf[d].nonce \in Nat
  BY CyclesAssumption DEF SyncInv, SyncTypeOK, Upload, Reached, Confs
<1>2. blob \in Blobs /\ blob.root \in Devices /\ blob.entries = cycle[c].entries
  BY <1>1 DEF Encrypted, Blobs, CycleStates
<1>3. mine \in [blob : Blobs \cup {NoBlob}, paid : BOOLEAN]
  BY <1>2 DEF SyncInv, SyncTypeOK, Accounts
<1>4. UNCHANGED <<db, tombs, conf, prov, adding>>
  BY DEF Upload
<1>5. Holds(blob.entries, db[d], tombs[d])
  BY <1>1, <1>2 DEF SyncInv, CyclesHold, CycleHolds
<1>6. account' \in Accounts /\ \E to : Goes(c, to) /\ Answered(to)
  <2> HIDE DEF blob
  <2>1. Answered([answer("stored") EXCEPT !.blob = blob]) /\ Answered([answer("pay") EXCEPT !.blob = blob])
    BY <1>1, <1>2 DEF Idle, CycleStates
  <2>2. Answered(answer("unchanged")) /\ (mine.blob # NoBlob => Answered([answer("conflict") EXCEPT !.found = mine.blob]))
    BY <1>1, <1>3 DEF Idle, CycleStates
  <2> HIDE DEF Answered, answer
  <2>3. CASE mine.paid /\ mine.blob # blob /\ mine.blob = OldHash(c)
    <3>1. account' = [account EXCEPT ![blob.root].blob = blob] /\ Goes(c, [answer("stored") EXCEPT !.blob = blob])
      BY <2>3 DEF Upload, blob, answer
    <3>2. account' \in Accounts
      BY <1>2, <3>1 DEF SyncInv, SyncTypeOK, Accounts
    <3> QED
      BY <2>1, <3>1, <3>2
  <2>4. CASE ~(mine.paid /\ mine.blob # blob /\ mine.blob = OldHash(c))
    <3>1. account' = account
      BY <2>4 DEF Upload, blob
    <3>2. Goes(c, [answer("pay") EXCEPT !.blob = blob]) \/ Goes(c, answer("unchanged"))
             \/ (mine.blob # NoBlob /\ Goes(c, [answer("conflict") EXCEPT !.found = mine.blob]))
      BY <2>4 DEF Upload, blob, answer
    <3> QED
      BY <2>1, <2>2, <3>1, <3>2 DEF SyncInv, SyncTypeOK
  <2> QED
    BY <2>3, <2>4
<1>7. PICK to : Goes(c, to) /\ Answered(to)
  BY <1>6
<1>8. cycle'[c] = to
  BY <1>7 DEF Goes, SyncInv, SyncTypeOK
<1>9. to \in CycleStates /\ to.pc \in {"stored", "pay", "unchanged", "conflict"} /\ (to.pc = "stored" => to.blob = blob)
      /\ (to.pc = "conflict" => to.found # NoBlob)
  BY <1>7
<1> HIDE DEF blob, Answered
<1>10. CycleHolds(c)'
  BY <1>4, <1>5, <1>8, <1>9 DEF CycleHolds, Knows
<1>11. ProvTypeOK' /\ OldHashes
  BY <1>4, SameProv DEF SyncInv
<1>12. conf' \in Confs
  BY <1>4 DEF SyncInv, SyncTypeOK
<1> QED
  BY <1>4, <1>6, <1>7, <1>9, <1>10, <1>11, <1>12, CycleGoes

(* The hash of what a cycle has uploaded, or merged, is remembered.                         *)
LEMMA RememberedStep ==
    ASSUME SyncInv, NEW c \in Cycles, NEW hash \in Blobs \cup {NoBlob}, NEW state \in {"ready", "retrying"},
           NEW to \in CycleStates, to.pc \in {"idle", "begin"}, Knows(c.device, hash),
           Update(c.device, hash, state), Goes(c, to), UNCHANGED <<db, tombs, conf, adding, account>>
    PROVE  SyncInv'
<1>1. c.device \in Devices /\ SyncTypeOK /\ HashesHeld
  BY CyclesAssumption DEF SyncInv
<1>2. CycleHolds(c)'
  BY <1>1 DEF Goes, CycleHolds, SyncTypeOK
<1>3. ProvTypeOK' /\ HashesHeld'
  <2>1. CASE Put(c.device, hash, state)
    <3>1. prov' = [prov EXCEPT ![c.device] = {[hash |-> hash, state |-> state]}]
      BY <2>1 DEF Put
    <3>2. ProvTypeOK'
      BY <1>1, <3>1 DEF SyncTypeOK, ProvTypeOK
    <3>3. \A x \in Devices : \A p \in prov'[x] : (x = c.device /\ p.hash = hash) \/ p \in prov[x]
      BY <1>1, <3>1 DEF SyncTypeOK
    <3>4. HashesHeld'
      BY <1>1, <3>3 DEF HashesHeld, Knows
    <3> QED
      BY <3>2, <3>4
  <2>2. CASE UNCHANGED prov
    BY <1>1, <2>2, SameProv DEF HashesHeld, Knows
  <2> QED
    BY <2>1, <2>2 DEF Update
<1>4. db' \in [Devices -> SUBSET Records] /\ conf' \in Confs /\ account' \in Accounts
  BY <1>1 DEF SyncTypeOK
<1> QED
  BY <1>2, <1>3, <1>4, SameData, CycleMoves

(* Before that, the import has taken what the backup has.                                  *)
LEMMA MergeStep ==
    ASSUME SyncInv, NEW c \in Cycles, Merge(c)
    PROVE  SyncInv'
<1> DEFINE d == c.device
           found == cycle[c].found
           to == [cycle[c] EXCEPT !.pc = "merged"]
<1>1. /\ d \in Devices /\ cycle[c] \in CycleStates /\ db[d] \in SUBSET Records
      /\ SyncTypeOK /\ HashesHeld
  BY CyclesAssumption DEF SyncInv, SyncTypeOK
<1>2. CASE Throws(c) /\ UNCHANGED db
  BY <1>2, CycleThrows DEF Merge
<1>3. CASE /\ db' = [db EXCEPT ![d] = ImportBackup(@, tombs[d], found.entries)]
           /\ Goes(c, to) /\ UNCHANGED prov
  <2>1. UNCHANGED <<tombs, conf, adding, account>>
    BY DEF Merge
  <2>2. found \in Blobs /\ found.entries \in SUBSET Records
    BY <1>1 DEF SyncInv, CyclesHold, CycleHolds, Merge, Reached, CycleStates, Blobs
  <2> DEFINE after == ImportBackup(db[d], tombs[d], found.entries)
  <2>3. /\ after \in SUBSET Records /\ Holds(found.entries, after, tombs[d])
        /\ \A e \in Records : StillThere(e, db[d], tombs[d]) => StillThere(e, after, tombs[d])
    BY <1>1, <2>2, ImportHolds
  <2> HIDE DEF after
  <2>4. db' = [db EXCEPT ![d] = after]
    BY <1>3 DEF after
  <2>5. db' \in [Devices -> SUBSET Records] /\ \A x \in Devices : Keeps(x)
    BY <1>1, <2>1, <2>3, <2>4 DEF SyncTypeOK, Keeps
  <2>6. to \in CycleStates /\ to.pc = "merged" /\ to.found = found
    BY <1>1 DEF CycleStates
  <2>7. cycle'[c] = to
    BY <1>1, <1>3 DEF Goes, SyncTypeOK
  <2>8. CycleHolds(c)'
    BY <1>1, <2>1, <2>3, <2>4, <2>6, <2>7 DEF CycleHolds, Knows, SyncTypeOK
  <2>9. ProvTypeOK' /\ OldHashes
    BY <1>1, <1>3, SameProv
  <2>10. HashesHeld'
    BY <1>1, <2>1, <2>5, <2>9, HashesStay
  <2> QED
    BY <1>1, <1>3, <2>1, <2>5, <2>6, <2>8, <2>9, <2>10, CycleMoves DEF SyncTypeOK
<1> QED
  BY <1>2, <1>3 DEF Merge

(* The steps of SyncNext by cycles: each one of the lemmas.                                  *)
LEMMA CycleSteps ==
    ASSUME SyncInv, NEW c \in Cycles,
           \/ StartCycle(c) \/ StartAgain(c) \/ Export(c) \/ EncryptFails(c) \/ Upload(c) \/ LoseAnswer(c)
           \/ Unchanged(c) \/ Stored(c) \/ Refused(c) \/ Merge(c) \/ Merged(c)
           \/ \E paid \in BOOLEAN : PayForBackup(c, paid)
    PROVE  SyncInv'
<1>0. c.device \in Devices /\ cycle[c] \in CycleStates /\ SyncTypeOK
  BY CyclesAssumption DEF SyncInv, SyncTypeOK
<1>1. CASE StartCycle(c)
  BY <1>1, CycleBegins DEF StartCycle
<1>2. CASE StartAgain(c)
  BY <1>2, CycleBegins DEF StartAgain
<1>3. CASE EncryptFails(c) \/ LoseAnswer(c)
  BY <1>3, CycleThrows DEF EncryptFails, LoseAnswer
<1>4. CASE Unchanged(c)
  <2>1. ProvTypeOK' /\ OldHashes
    BY <1>0, <1>4, PutOld, SameProv DEF Unchanged
  <2> QED
    BY <1>4, <2>1, CycleEnds DEF Unchanged
<1>5. CASE Refused(c)
  <2>1. ProvTypeOK' /\ OldHashes
    BY <1>0, <1>5, RetryOld DEF Refused
  <2> QED
    BY <1>5, <2>1, CycleEnds DEF Refused
<1>6. CASE Stored(c)
  <2>1. cycle[c].blob \in Blobs \cup {NoBlob} /\ Knows(c.device, cycle[c].blob)
    BY <1>0, <1>6 DEF Stored, Reached, SyncInv, CyclesHold, CycleHolds, CycleStates
  <2>2. Idle \in CycleStates /\ Idle.pc = "idle"
    BY DEF Idle, CycleStates
  <2> QED
    BY <1>6, <2>1, <2>2, RememberedStep DEF Stored, Ends
<1>7. CASE Merged(c)
  <2>1. cycle[c].found \in Blobs \cup {NoBlob} /\ Knows(c.device, cycle[c].found)
    BY <1>0, <1>7 DEF Merged, Reached, SyncInv, CyclesHold, CycleHolds, CycleStates
  <2>2. [Idle EXCEPT !.pc = "begin"] \in CycleStates /\ [Idle EXCEPT !.pc = "begin"].pc = "begin"
    BY DEF Idle, CycleStates
  <2> QED
    BY <1>7, <2>1, <2>2, RememberedStep DEF Merged
<1>8. ASSUME NEW paid \in BOOLEAN, PayForBackup(c, paid)
      PROVE  SyncInv'
  <2>1. CASE ~Has(c.device)
    BY <1>8, <2>1, CycleThrows DEF PayForBackup
  <2>2. CASE Has(c.device)
    <3>1. ProvTypeOK' /\ OldHashes
      BY <1>0, <1>8, <2>2, RetryOld DEF PayForBackup
    <3>2. account' \in Accounts /\ conf' \in Confs
      <4> DEFINE root == cycle[c].blob.root
      <4>1. account' = [account EXCEPT ![root].paid = TRUE] \/ account' = account
        BY <1>8, <2>2 DEF PayForBackup
      <4>2. conf' = conf /\ conf \in Confs /\ account \in Accounts
        BY <1>0, <1>8 DEF PayForBackup, SyncTypeOK
      <4> HIDE DEF root
      <4> QED
        BY <4>1, <4>2 DEF Accounts
    <3>3. [Idle EXCEPT !.pc = "begin"] \in CycleStates /\ [Idle EXCEPT !.pc = "begin"].pc = "begin"
      BY DEF Idle, CycleStates
    <3>4. Idle \in CycleStates /\ Idle.pc = "idle"
      BY DEF Idle, CycleStates
    <3>5. PICK to \in {Idle, [Idle EXCEPT !.pc = "begin"]} : Goes(c, to)
      BY <1>8, <2>2 DEF PayForBackup, Ends
    <3>6. to \in CycleStates /\ to.pc \in {"idle", "begin"}
      BY <3>3, <3>4
    <3>7. CycleHolds(c)'
      BY <1>0, <3>5, <3>6 DEF Goes, CycleHolds, SyncTypeOK
    <3> QED
      BY <1>8, <3>1, <3>2, <3>5, <3>6, <3>7, CycleGoes DEF PayForBackup
  <2> QED
    BY <2>1, <2>2
<1> QED
  BY <1>1, <1>2, <1>3, <1>4, <1>5, <1>6, <1>7, <1>8, ExportStep, UploadStep, MergeStep

-----------------------------------------------------------------------------
(* runBackupCycleForProvider, and what may happen around it, keeps SyncInv: a provider's        *)
(* hash is only ever that of a backup whose records the wallet has or has deleted.            *)
THEOREM SyncInvariant == SyncSpec => []SyncInv
<1>1. SyncInv /\ [SyncNext]_syncVars => SyncInv'
  <2> SUFFICES ASSUME SyncInv, [SyncNext]_syncVars PROVE SyncInv'
    OBVIOUS
  <2>1. CASE UNCHANGED syncVars
    BY <2>1, SameProv, ProviderStays DEF syncVars, SyncInv, SyncTypeOK
  <2>2. ASSUME NEW d \in Devices,
               \/ \E item \in NewItems : Create(d, item)
               \/ \E r \in db[d] : Accept(d, r) \/ Delete(d, r)
        PROVE  SyncInv'
    BY <2>2, WalletSteps
  <2>3. ASSUME NEW d \in Devices,
               \/ \E state \in {"ready", "provisional"} : AddBackupProvider(d, state)
               \/ AddedBackupProvider(d) \/ RemoveBackupProvider(d)
               \/ \E e \in Devices \ {d} : LoadBackupRecovery(d, e)
        PROVE  SyncInv'
    BY <2>3, ProviderSteps
  <2>4. ASSUME NEW d \in Devices, NEW e \in Devices \ {d}, Replace(d, e)
        PROVE  SyncInv'
    BY <2>4, ReplaceStep
  <2>5. ASSUME NEW c \in Cycles,
               \/ StartCycle(c) \/ StartAgain(c) \/ Export(c) \/ EncryptFails(c) \/ Upload(c) \/ LoseAnswer(c)
               \/ Unchanged(c) \/ Stored(c) \/ Refused(c) \/ Merge(c) \/ Merged(c)
               \/ \E paid \in BOOLEAN : PayForBackup(c, paid)
        PROVE  SyncInv'
    BY <2>5, CycleSteps
  <2> QED
    BY <2>1, <2>2, <2>3, <2>4, <2>5 DEF SyncNext
<1> QED
  BY <1>1, SyncInitInv, PTL DEF SyncSpec

(* One root's backup, in a step of the property.                                          *)
Covers(root) ==
    LET old == account[root].blob
        new == account'[root].blob
    IN old # NoBlob /\ new # old => Holds(old.entries, new.entries, tombs[new.by])

(* Only an upload replaces a backup, and it names the one that its export has taken in.        *)
LEMMA UploadCovers ==
    ASSUME SyncInv, NEW c \in Cycles, NEW root \in Devices, Upload(c)
    PROVE  Covers(root)
<1> DEFINE blob == Encrypted(c)
<1>1. c.device \in Devices /\ SyncTypeOK /\ cycle[c].pc = "upload"
  BY CyclesAssumption DEF SyncInv, Upload, Reached
<1>2. cycle[c].hash # NoBlob => Holds(cycle[c].hash.entries, cycle[c].entries, tombs[c.device])
  BY <1>1 DEF SyncInv, CyclesHold, CycleHolds
<1>3. blob.by = c.device /\ blob.entries = cycle[c].entries
  BY DEF Encrypted
<1>4. \/ account' = account
      \/ account' = [account EXCEPT ![blob.root].blob = blob] /\ account[blob.root].blob = cycle[c].hash
  BY DEF Upload, OldHash
<1> HIDE DEF blob
<1>5. CASE account'[root].blob = account[root].blob
  BY <1>5 DEF Covers
<1>6. CASE account'[root].blob = blob /\ account[root].blob = cycle[c].hash
  BY <1>2, <1>3, <1>6 DEF Covers
<1> QED
  BY <1>1, <1>4, <1>5, <1>6 DEF SyncTypeOK, Accounts

(* NothingLost: of POST /backups with if-match, after the merge that a 409 has made.       *)
THEOREM NothingLostHolds == SyncSpec => NothingLost
<1> DEFINE Kept == \A root \in Devices : Covers(root)
<1>1. SyncInv /\ [SyncNext]_syncVars => [Kept]_syncVars
  <2> SUFFICES ASSUME SyncInv, SyncNext, NEW root \in Devices PROVE Covers(root)
    OBVIOUS
  <2>1. ASSUME NEW c \in Cycles, Upload(c) PROVE Covers(root)
    BY <2>1, UploadCovers
  <2>2. ASSUME NEW c \in Cycles, NEW paid \in BOOLEAN, PayForBackup(c, paid) PROVE Covers(root)
    <3>1. account'[root].blob = account[root].blob
      BY <2>2 DEF PayForBackup, SyncInv, SyncTypeOK, Accounts
    <3> QED
      BY <3>1 DEF Covers
  <2>3. CASE UNCHANGED account
    BY <2>3 DEF Covers
  <2> QED
    BY <2>1, <2>2, <2>3
       DEF SyncNext, Create, Accept, Delete, AddBackupProvider, AddedBackupProvider, RemoveBackupProvider,
           LoadBackupRecovery, Replace, StartCycle, StartAgain, Export, EncryptFails, LoseAnswer, Unchanged,
           Stored, Refused, Merge, Merged
<1>2. SyncSpec => [][Kept]_syncVars
  BY <1>1, SyncInvariant, PTL DEF SyncSpec
<1> QED
  BY <1>2 DEF NothingLost, Covers
==========================================================================================
