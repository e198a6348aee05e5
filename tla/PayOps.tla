---------------------------------- MODULE PayOps ----------------------------------
(* operations/pay.ts: a proposal is downloaded, confirmed with a selection of  *)
(* coins, and paid; a refused coin makes the wallet select again.              *)
EXTENDS WalletStores

Status(o) == db.proposals[o].status
HasPurchase(o) == db.purchases[o] # Absent
AllocationId(o) == <<"proposal", o>>

-----------------------------------------------------------------------------
(* startDownloadProposal: an order that has a proposal keeps it. (A call whose  *)
(* proposal is not stored for that reason still returns its name.)             *)
StartDownloadProposal(o) ==
    /\ IF Status(o) = "none" THEN db' = [db EXCEPT !.proposals[o] = NewProposal]
       ELSE UNCHANGED db
    /\ Start("download", o, "claim", Nil)
    /\ UNCHANGED <<exchange, merchant, bank, raced, scene>>

(* processDownloadProposal from the list of pending operations *)
ProcessDownloadProposal(o) ==
    /\ Status(o) = "DOWNLOADING"
    /\ Start("download", o, "claim", Nil)
    /\ UNCHANGED <<db, exchange, merchant, bank, raced, scene>>

(* processDownloadProposalImpl, to the merchant's answer: the contract terms,   *)
(* or an error, such as an order that another wallet has claimed.               *)
ClaimOrder(t) ==
    /\ At(t, "download", "claim")
    /\ IF Status(Key(t)) # "DOWNLOADING" THEN Done(t)
       ELSE \/ Goto(t, IF Key(t) \in Malformed THEN "failProposal" ELSE "propose", Nil)
            \/ Done(t)
    /\ UNCHANGED <<db, exchange, merchant, bank, raced, scene>>

(* failProposalPermanently does not look at the status that it replaces.        *)
FailProposalPermanently(t) ==
    /\ At(t, "download", "failProposal")
    /\ db' = [db EXCEPT !.proposals[Key(t)].status = "PERMANENTLY_FAILED"]
    /\ Done(t)
    /\ UNCHANGED <<exchange, merchant, bank, raced, scene>>

Repurchased(o) == {p \in Orders \ {o} : HasPurchase(p) /\ Product[p] = Product[o]}

(* The transaction that stores the contract terms *)
StoreContractTerms(t) ==
    /\ At(t, "download", "propose")
    /\ db' = IF Status(Key(t)) # "DOWNLOADING" THEN db
             ELSE IF Repurchased(Key(t)) # {}
             THEN [db EXCEPT !.proposals[Key(t)] =
                      [status |-> "REPURCHASE", repurchase |-> Min(Repurchased(Key(t)))]]
             ELSE [db EXCEPT !.proposals[Key(t)].status = "PROPOSED"]
    /\ Done(t)
    /\ UNCHANGED <<exchange, merchant, bank, raced, scene>>

RefuseProposal(o) ==
    /\ Status(o) = "PROPOSED"
    /\ db' = [db EXCEPT !.proposals[o].status = "REFUSED"]
    /\ UNCHANGED <<tasks, exchange, merchant, bank, raced, scene>>

-----------------------------------------------------------------------------
(* selectPayCoins on coins without deposit and wire fees (CoinSelection has    *)
(* them): the largest coins first, after the coins prev that are kept.         *)
Candidates == {c \in DOMAIN db.coins : Spendable(c)}

(* Mutant: the last coin is taken as a whole.                                  *)
WholeCoin(missing, c) == db.coins[c].currentAmount

Contribution(missing, c) == Min({missing, db.coins[c].currentAmount})

SelectPayCoins(prev, amount) ==
    LET new == Candidates \ DOMAIN prev
        order == SetToSeq(new)
        place(c) == CHOOSE i \in DOMAIN order : order[i] = c
        before(c) == {b \in new :
            \/ db.coins[b].currentAmount > db.coins[c].currentAmount
            \/ db.coins[b].currentAmount = db.coins[c].currentAmount /\ place(b) < place(c)}
        missing(cs) == Sub(Sub(amount, SumFunction(prev)),
                           SumFunction([c \in cs |-> db.coins[c].currentAmount]))
        taken == {c \in new : missing(before(c)) > 0}
    IN IF Candidates = {} \/ missing(new) > 0 THEN Nil
       ELSE [c \in DOMAIN prev \cup taken |->
                IF c \in DOMAIN prev THEN prev[c] ELSE Contribution(missing(before(c)), c)]

(* submitPay reads the purchase; an aborted one is an error.                   *)
CanSubmit(o) == db.purchases[o].abortStatus = "None"
SubmitPay(o) ==
    LET p == db.purchases[o] IN
    IF p.paid THEN Start("pay", o, "paid", Nil) ELSE Start("pay", o, "pay", p.payCoinSelection)

(* confirmPay: the proposal must have been downloaded; an existing purchase is *)
(* paid again, else coins are selected for a new one.                          *)
ConfirmPay(o) ==
    /\ Status(o) \in {"PROPOSED", "REFUSED", "ACCEPTED", "REPURCHASE"}
    /\ IF HasPurchase(o) THEN CanSubmit(o) /\ SubmitPay(o) ELSE Start("confirm", o, "select", Nil)
    /\ UNCHANGED <<db, exchange, merchant, bank, raced, scene>>

(* confirmPay in another browser session: the payment is replayed              *)
ConfirmPayNewSession(o) ==
    /\ HasPurchase(o)
    /\ db' = [db EXCEPT !.purchases[o].paymentSubmitPending = TRUE]
    /\ IF CanSubmit(o) THEN SubmitPay(o) ELSE UNCHANGED tasks
    /\ UNCHANGED <<exchange, merchant, bank, raced, scene>>

(* confirmPay: getCandidatePayCoins and selectPayCoins                         *)
SelectCoins(t) ==
    LET sel == SelectPayCoins(<<>>, Price[Key(t)]) IN
    /\ At(t, "confirm", "select")
    /\ IF sel = Nil THEN Done(t) ELSE Goto(t, "record", sel)
    /\ UNCHANGED <<db, exchange, merchant, bank, raced, scene>>

(* recordConfirmPay: it does not look whether there is a purchase by now.       *)
RecordConfirmPay(t) ==
    LET sel == Loc(t)
        recorded == [db EXCEPT !.proposals[Key(t)].status = "ACCEPTED",
                               !.purchases[Key(t)] = NewPurchase(sel)] IN
    /\ At(t, "confirm", "record")
    /\ IF SpendConflict(db, sel, AllocationId(Key(t)))
       THEN Done(t) /\ UNCHANGED <<db, raced>>
       ELSE /\ GroupsLeft(1)
            /\ db' = ApplyCoinSpend(recorded, sel, AllocationId(Key(t)))
            /\ raced' = raced \cup Skipped(db, sel)
                             \cup (IF HasPurchase(Key(t)) THEN {AllocationId(Key(t))} ELSE {})
            /\ tasks' = (tasks \ {t}) \cup {Task("pay", Key(t), "pay", sel)}
    /\ UNCHANGED <<exchange, merchant, bank, scene>>

-----------------------------------------------------------------------------
(* The merchant's handler of a payment: it deposits the coins, those it has    *)
(* deposited before excepted, in an order of its own, until one is refused.    *)
Deposited(o, c) == \E p \in exchange.deposits : p.contract = AllocationId(o) /\ p.coin = c
Deposit(o, sel, S) ==
    [exchange EXCEPT !.deposits = @ \cup
        {[contract |-> AllocationId(o), coin |-> c, amount |-> sel[c], refunded |-> Nil] :
            c \in {d \in S : ~Deposited(o, d)}}]
Accepted(o, sel, c) == Deposited(o, c) \/ sel[c] <= Remaining(c)

(* processPurchasePay: from the list of pending operations                     *)
ProcessPurchasePay(o) ==
    /\ HasPurchase(o)
    /\ db.purchases[o].paymentSubmitPending
    /\ CanSubmit(o) /\ ~db.purchases[o].payFrozen
    /\ SubmitPay(o)
    /\ UNCHANGED <<db, exchange, merchant, bank, raced, scene>>

(* submitPay, POST /pay: accepted; refused for a coin; rejected as malformed;  *)
(* or a failure, before or after the merchant deposited some of the coins. An  *)
(* order with refunded coins cannot be paid.                                   *)
PostPay(t) ==
    LET o == Key(t)
        sel == Loc(t)
        open == \A p \in exchange.deposits : p.contract = AllocationId(o) => p.refunded = Nil
        good == {c \in DOMAIN sel : open /\ Accepted(o, sel, c)} IN
    /\ At(t, "pay", "pay")
    /\ \/ /\ good = DOMAIN sel
          /\ exchange' = Deposit(o, sel, good)
          /\ merchant' = [merchant EXCEPT !.orders[o].paid = TRUE]
          /\ (Goto(t, "success", Nil) \/ Done(t))
       \/ \E S \in SUBSET good, b \in DOMAIN sel \ good :
             /\ open
             /\ exchange' = Deposit(o, sel, S)
             /\ Goto(t, "conflict", b)
             /\ UNCHANGED merchant
       \/ \E S \in SUBSET good :
             exchange' = Deposit(o, sel, S) /\ Done(t) /\ UNCHANGED merchant
       \/ Goto(t, "malformed", Nil) /\ UNCHANGED <<exchange, merchant>>
    /\ raced' = IF exchange' # exchange /\ ~CanSubmit(o) THEN raced \cup {AllocationId(o)} ELSE raced
    /\ UNCHANGED <<db, bank, scene>>

(* storeFirstPaySuccess *)
StoreFirstPaySuccess(t) ==
    LET p == db.purchases[Key(t)]
        auto == Key(t) \in AutoRefund IN
    /\ At(t, "pay", "success")
    /\ db' = IF p.paid THEN db
             ELSE [db EXCEPT !.purchases[Key(t)] =
                      [p EXCEPT !.paid = TRUE, !.paymentSubmitPending = FALSE,
                                !.refundQueryRequested = p.refundQueryRequested \/ auto, !.autoRefund = auto]]
    /\ Done(t)
    /\ UNCHANGED <<exchange, merchant, bank, raced, scene>>

(* submitPay, POST /paid, and storePayReplaySuccess *)
PostPaid(t) ==
    /\ At(t, "pay", "paid")
    /\ Goto(t, "replayed", Nil) \/ Done(t)
    /\ UNCHANGED <<db, exchange, merchant, bank, raced, scene>>

StorePayReplaySuccess(t) ==
    /\ At(t, "pay", "replayed")
    /\ db' = IF ~db.purchases[Key(t)].paid THEN db
             ELSE [db EXCEPT !.purchases[Key(t)].paymentSubmitPending = FALSE]
    /\ Done(t)
    /\ UNCHANGED <<exchange, merchant, bank, raced, scene>>

(* submitPay on 400: the payment is not retried any more.                      *)
FreezePay(t) ==
    /\ At(t, "pay", "malformed")
    /\ db' = [db EXCEPT !.purchases[Key(t)].payFrozen = TRUE]
    /\ Done(t)
    /\ UNCHANGED <<exchange, merchant, bank, raced, scene>>

(* handleInsufficientFunds runs on its own: it reads the purchase, then the    *)
(* candidates, selects again without the broken coin, and stores the result.   *)
HandleInsufficientFunds(t) ==
    LET sel == db.purchases[Key(t)].payCoinSelection IN
    /\ At(t, "pay", "conflict")
    /\ Goto(t, "reselect", [read |-> sel, prev |-> [c \in (DOMAIN sel) \ {Loc(t)} |-> sel[c]]])
    /\ UNCHANGED <<db, exchange, merchant, bank, raced, scene>>

SelectCoinsAgain(t) ==
    LET sel == SelectPayCoins(Loc(t).prev, Price[Key(t)]) IN
    /\ At(t, "pay", "reselect")
    /\ IF sel = Nil THEN Done(t) ELSE Goto(t, "reselected", [read |-> Loc(t).read, sel |-> sel])
    /\ UNCHANGED <<db, exchange, merchant, bank, raced, scene>>

(* It does not look whether the purchase is still the one that was read.       *)
StoreReselection(t) ==
    LET p == db.purchases[Key(t)]
        chosen == [db EXCEPT !.purchases[Key(t)].payCoinSelection = Loc(t).sel] IN
    /\ At(t, "pay", "reselected")
    /\ IF SpendConflict(db, Loc(t).sel, AllocationId(Key(t))) THEN UNCHANGED <<db, raced>>
       ELSE /\ GroupsLeft(1)
            /\ db' = ApplyCoinSpend(chosen, Loc(t).sel, AllocationId(Key(t)))
            /\ raced' = raced \cup Skipped(db, Loc(t).sel)
                             \cup (IF p.payCoinSelection = Loc(t).read /\ ~p.paid /\ CanSubmit(Key(t))
                                   THEN {} ELSE {AllocationId(Key(t))})
    /\ Done(t)
    /\ UNCHANGED <<exchange, merchant, bank, scene>>

PayNext ==
    \/ \E o \in Orders : ProcessDownloadProposal(o) \/ ProcessPurchasePay(o)
    \/ \E t \in tasks :
          \/ ClaimOrder(t) \/ FailProposalPermanently(t) \/ StoreContractTerms(t)
          \/ SelectCoins(t) \/ RecordConfirmPay(t) \/ PostPay(t) \/ StoreFirstPaySuccess(t)
          \/ PostPaid(t) \/ StorePayReplaySuccess(t) \/ FreezePay(t)
          \/ HandleInsufficientFunds(t) \/ SelectCoinsAgain(t) \/ StoreReselection(t)
=============================================================================
