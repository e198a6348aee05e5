----------------------------------- MODULE IbanHelper -----------------------------------
(* anastasis-helper-authorization-iban, with libanastasiseufin: it asks the bank for the      *)
(* history of the operator's account, records the transfers in anastasis_auth_iban_in and      *)
(* notifies the backend, which waits for them.                                       *)
EXTENDS Naturals

CONSTANTS
    BankAccounts,   \* accounts that an operator may configure as CREDIT_IBAN, one after the other
    MaxWires,       \* bound: transfers
    MaxMishaps      \* bound: errors, ends of the process

VARIABLES
    bank,       \* the bank's rows: number |-> [account credited, coded], coded: "anastasis" and a code
    ibanIn,     \* anastasis_auth_iban_in: the numbers (wire_reference) of its rows
    helper,     \* [state, account, off, list, event]: see below
    notified,   \* history: rows for which an event was sent
    mishaps

(* state: "off", "idle" (task is scheduled), "asking" (hh), "list" (in the callbacks for an    *)
(* answer), "stalled" (neither task nor hh). off: latest_row_off; list: rows of the answer that *)
(* are still to come; event: a row is recorded and not notified yet.                      *)
helperVars == <<bank, ibanIn, helper, notified, mishaps>>

NoHelper == [state |-> "off"]
BankRows(account) == {r \in DOMAIN bank : bank[r].account = account}
Mishap == mishaps < MaxMishaps /\ mishaps' = mishaps + 1
Became(state) == helper' = [helper EXCEPT !.state = state]

(* Mutant: the statement does not ask for the account.                                 *)
LastRowsOfAny(account) == {last \in ibanIn \cup {0} : \A r \in ibanIn : r <= last}

(* get_last_auth_iban_payment_row; 0 if there is none                                  *)
LastRows(account) ==
    LET recorded == ibanIn \cap BankRows(account)
    IN {last \in recorded \cup {0} : \A r \in recorded : r <= last}

(* run: the program is started, with the account that is configured now.                  *)
StartHelper(account) ==
    /\ helper = NoHelper
    /\ \E last \in LastRows(account) :
          helper' = [state |-> "idle", account |-> account, off |-> last, list |-> {}, event |-> 0]
    /\ UNCHANGED <<bank, ibanIn, notified, mishaps>>

FindTransfers ==
    /\ helper.state = "idle"
    /\ Became("asking")
    /\ UNCHANGED <<bank, ibanIn, notified, mishaps>>

(* The bank's answer: the next rows, 1024 at most; it waits for the first. (What a bank may     *)
(* do wrong: ignore where the helper wants to start.)                                   *)
AnswerFrom(from) ==
    /\ helper.state = "asking"
    /\ \E limit \in BankRows(helper.account) :
          /\ limit > from
          /\ helper' = [helper EXCEPT !.state = "list",
                                      !.list = {r \in BankRows(helper.account) : from < r /\ r <= limit}]

HistoryAnswer ==
    /\ AnswerFrom(helper.off)
    /\ UNCHANGED <<bank, ibanIn, notified, mishaps>>

HistoryRepeats ==
    /\ AnswerFrom(0) /\ Mishap
    /\ UNCHANGED <<bank, ibanIn, notified>>

(* Mutant: after an error there is no other request.                                  *)
FailedAndDone ==
    /\ helper.state = "asking"
    /\ Became("ended") /\ Mishap
    /\ UNCHANGED <<bank, ibanIn, notified>>

(* The request fails, or waits in vain for an hour.                                     *)
HistoryFailed ==
    /\ helper.state = "asking"
    /\ Became("idle") /\ Mishap
    /\ UNCHANGED <<bank, ibanIn, notified>>

(* history_cb for a row, the next of the list: what happens with it until it is recorded,     *)
HistoryCb ==
    /\ helper.state = "list" /\ helper.event = 0
    /\ \E row \in helper.list :
          /\ \A r \in helper.list : row <= r
          /\ IF row <= helper.off
             THEN helper' = NoHelper /\ UNCHANGED <<ibanIn, mishaps>>
             ELSE \/ /\ row \notin ibanIn
                     /\ ibanIn' = ibanIn \cup {row}
                     /\ helper' = [helper EXCEPT !.off = row, !.list = @ \ {row},
                                                 !.event = IF bank[row].coded THEN row ELSE 0]
                     /\ UNCHANGED mishaps
                  \/ /\ helper' = NoHelper /\ Mishap             \* a hard error; the row may be there
                     /\ ibanIn' \in {ibanIn, ibanIn \cup {row}}
                  \/ /\ Became("stalled")                  \* a soft error, which nobody retries; or
                     /\ IF row \in ibanIn THEN UNCHANGED mishaps ELSE Mishap    \* it is there already
                     /\ UNCHANGED ibanIn
    /\ UNCHANGED <<bank, notified>>

(* and the event that follows.                                                    *)
NotifyEvent ==
    /\ helper.state = "list" /\ helper.event # 0
    /\ notified' = notified \cup {helper.event}
    /\ helper' = [helper EXCEPT !.event = 0]
    /\ UNCHANGED <<bank, ibanIn, mishaps>>

(* history_cb at the end: the next request follows after a minute.                        *)
HistoryEnd ==
    /\ helper.state = "list" /\ helper.event = 0 /\ helper.list = {}
    /\ Became("idle")
    /\ UNCHANGED <<bank, ibanIn, notified, mishaps>>

(* The program ends, in order or not, at any point.                                     *)
HelperEnds ==
    /\ helper # NoHelper
    /\ helper' = NoHelper /\ Mishap
    /\ UNCHANGED <<bank, ibanIn, notified>>

(* Somebody transfers money to one of the accounts.                                     *)
WireTransfer(account, coded) ==
    \E row \in 1 .. MaxWires :
        /\ DOMAIN bank = 1 .. (row - 1)
        /\ bank' = [r \in 1 .. row |-> IF r = row THEN [account |-> account, coded |-> coded] ELSE bank[r]]
        /\ UNCHANGED <<ibanIn, helper, notified, mishaps>>

HelperIdle == bank = [r \in 1 .. 0 |-> NoHelper] /\ ibanIn = {} /\ helper = NoHelper /\ notified = {} /\ mishaps = 0
HelperInit == HelperIdle

HelperSteps == FindTransfers \/ HistoryAnswer \/ HistoryCb \/ NotifyEvent \/ HistoryEnd

HelperNext ==
    \/ \E account \in BankAccounts : StartHelper(account) \/ \E coded \in BOOLEAN : WireTransfer(account, coded)
    \/ HelperSteps \/ HistoryRepeats \/ HistoryFailed \/ HelperEnds

(* Callbacks of the scheduler run, and the bank answers.                                  *)
HelperFairness == WF_helperVars(HelperSteps)

-----------------------------------------------------------------------------
(* However often the program fails, ends and starts again, and whichever account is configured *)
(* then: no transfer to an account is passed over for a later one, none is met a second time    *)
(* ("already existed (!?), should be impossible"), and an event is sent only for a transfer     *)
(* that the backend will find when it wakes up.                                        *)
TransfersRecorded ==
    /\ \A r \in ibanIn, q \in DOMAIN bank :
          q < r /\ bank[q].account = bank[r].account => q \in ibanIn
    /\ helper.state = "list" => \A row \in helper.list : row > helper.off => row \notin ibanIn
    /\ notified \subseteq ibanIn

(* What was transferred to the account is recorded in the end, unless the program has ended or *)
(* has stalled after a soft error of the database.                                      *)
TransfersArrive ==
    []<>(helper.state \in {"off", "stalled"} \/ BankRows(helper.account) \subseteq ibanIn)
=============================================================================
