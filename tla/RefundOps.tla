--------------------------------- MODULE RefundOps ---------------------------------
(* operations/refund.ts: the wallet asks the merchant for the refunds of an    *)
(* order, or aborts a payment, and puts what was refunded back on the coins,   *)
(* which are then refreshed. A coin is refunded with its whole contribution;   *)
(* rt is the transaction of the refund, 0 for an abort.                        *)
EXTENDS WalletStores

RefundContract(o) == <<"proposal", o>>
DepositsFor(o) == {p \in exchange.deposits : p.contract = RefundContract(o)}

-----------------------------------------------------------------------------
(* External: the merchant grants a refund for an order that was paid.          *)
GrantRefund(o) ==
    /\ merchant.orders[o].paid /\ ~merchant.orders[o].granted
    /\ merchant' = [merchant EXCEPT !.orders[o].granted = TRUE]
    /\ UNCHANGED <<db, tasks, exchange, bank, raced, scene>>

(* The autoRefundDeadline passes.                                              *)
AutoRefundExpires(o) ==
    /\ db.purchases[o] # Absent /\ db.purchases[o].autoRefund
    /\ db' = [db EXCEPT !.purchases[o].autoRefund = FALSE]
    /\ UNCHANGED <<tasks, exchange, merchant, bank, raced, scene>>

-----------------------------------------------------------------------------
(* processPurchaseQueryRefundImpl, to the request. A purchase that is neither   *)
(* paid nor being aborted is left alone, although its query stays requested.    *)
QueryRefund(o, p, waitForAutoRefund) ==
    IF p.paid
    THEN Start("refund", o, IF waitForAutoRefund /\ p.autoRefund THEN "poll" ELSE "refund", Nil)
    ELSE IF p.abortStatus = "AbortRefund" THEN Start("refund", o, "abort", p.payCoinSelection)
    ELSE UNCHANGED tasks

(* processPurchaseQueryRefund: from the list of pending operations             *)
ProcessPurchaseQueryRefund(o) ==
    /\ db.purchases[o] # Absent /\ db.purchases[o].refundQueryRequested
    /\ QueryRefund(o, db.purchases[o], TRUE)
    /\ UNCHANGED <<db, exchange, merchant, bank, raced, scene>>

ApplyRefund(o) ==
    /\ db.purchases[o] # Absent
    /\ db' = [db EXCEPT !.purchases[o].refundQueryRequested = TRUE]
    /\ QueryRefund(o, db.purchases[o], FALSE)
    /\ UNCHANGED <<exchange, merchant, bank, raced, scene>>

AbortFailedPayWithRefund(o) ==
    LET p == db.purchases[o]
        aborted == [p EXCEPT !.refundQueryRequested = TRUE, !.paymentSubmitPending = FALSE,
                             !.abortStatus = "AbortRefund"] IN
    /\ p # Absent /\ ~p.paid /\ p.abortStatus = "None"
    /\ db' = [db EXCEPT !.purchases[o] = aborted]
    /\ QueryRefund(o, aborted, TRUE)
    /\ UNCHANGED <<exchange, merchant, bank, raced, scene>>

(* The long poll for an auto-refund *)
PollAutoRefund(t) ==
    /\ At(t, "refund", "poll")
    /\ IF merchant.orders[Key(t)].granted THEN Goto(t, "refund", Nil) \/ Done(t) ELSE Done(t)
    /\ UNCHANGED <<db, exchange, merchant, bank, raced, scene>>

RefundAtExchange(o, S, rt) ==
    [exchange EXCEPT !.deposits =
        {IF p.contract = RefundContract(o) /\ p.coin \in S /\ p.refunded = Nil
         THEN [p EXCEPT !.refunded = rt] ELSE p : p \in @}]

(* POST /refund: for each coin of the order, the exchange's answer to the      *)
(* merchant: refunded, no answer yet, or refused for good.                     *)
PostRefund(t) ==
    LET coins == IF merchant.orders[Key(t)].granted
                 THEN {p.coin : p \in DepositsFor(Key(t))} ELSE {}
        amount == [c \in coins |-> (CHOOSE p \in DepositsFor(Key(t)) : p.coin = c).amount] IN
    /\ At(t, "refund", "refund")
    /\ \/ \E ans \in [coins -> {"success", "pending", "failed"}] :
             /\ \A p \in DepositsFor(Key(t)) : p.refunded # Nil => ans[p.coin] = "success"
             /\ exchange' = RefundAtExchange(Key(t), {c \in coins : ans[c] = "success"}, 1)
             /\ (Goto(t, "accept", [rt |-> 1, status |-> ans, amount |-> amount]) \/ Done(t))
       \/ Done(t) /\ UNCHANGED exchange
    /\ UNCHANGED <<db, merchant, bank, raced, scene>>

(* POST /abort, refused for an order that was paid: deposited coins are         *)
(* refunded, for the others the exchange knows no deposit.                      *)
PostAbort(t) ==
    LET coins == DOMAIN Loc(t)
        spent == {p.coin : p \in DepositsFor(Key(t))} IN
    /\ At(t, "refund", "abort")
    /\ \/ /\ ~merchant.orders[Key(t)].paid
          /\ \E ans \in [coins -> {"success", "pending", "notFound"}] :
                /\ \A c \in coins : ans[c] = "notFound" <=> c \notin spent
                /\ \A p \in DepositsFor(Key(t)) :
                      p.refunded # Nil /\ p.coin \in coins => ans[p.coin] = "success"
                /\ exchange' = RefundAtExchange(Key(t), {c \in coins : ans[c] = "success"}, 0)
                /\ (Goto(t, "accept", [rt |-> 0, status |-> ans, amount |-> Loc(t)]) \/ Done(t))
       \/ Done(t) /\ UNCHANGED exchange
    /\ UNCHANGED <<db, merchant, bank, raced, scene>>

-----------------------------------------------------------------------------
(* acceptRefunds: one transaction over all refunds of the answer.               *)

(* Mutant: a refund is ignored only if it is the same as before.               *)
IgnoredIfPending(p, rt, c, s) == <<c, rt>> \in DOMAIN p.refunds /\ s = "pending"

(* A final state is kept, and a pending one is not stored twice.                *)
Ignored(p, rt, c, s) ==
    /\ <<c, rt>> \in DOMAIN p.refunds
    /\ p.refunds[<<c, rt>>].state \in {"Applied", "Failed"} \/ s = "pending"

RefundState(s) == CASE s = "success" -> "Applied"
                    [] s = "pending" -> "Pending"
                    [] OTHER -> "Failed"

(* What applySuccessfulRefund and storeFailedRefund add to coin c: the amount   *)
(* refunded, or its contribution to the payment that is being aborted, which    *)
(* has none for a coin that a new selection has dropped meanwhile.              *)
Contributed(p, ans, c) == ans.status[c] = "success" \/ c \in DOMAIN p.payCoinSelection
Refunded(p, ans, c) ==
    IF ans.status[c] = "success" THEN ans.amount[c] ELSE p.payCoinSelection[c]

(* Mutant: refunds that are pending do not count.                              *)
DoneUnlessAuto(p, refunds) == ~(p.paid /\ p.autoRefund)

(* Whether the purchase need not be asked about again.                         *)
QueryDone(p, refunds) == /\ ~(p.paid /\ p.autoRefund)
                         /\ \A k \in DOMAIN refunds : refunds[k].state # "Pending"

News(p, ans) == {c \in DOMAIN ans.status : ~Ignored(p, ans.rt, c, ans.status[c])}
Credited(p, ans) == {c \in News(p, ans) :
                        \/ ans.status[c] = "success"
                        \/ ans.status[c] = "notFound" /\ p.abortStatus = "AbortRefund"}
Credit(p, ans, c) ==
    IF c \notin Credited(p, ans) \/ ~Contributed(p, ans, c) THEN 0
    ELSE Sub(db.coins[c].currentAmount + Refunded(p, ans, c), RefundFee) - db.coins[c].currentAmount

RefundsAfter(p, ans) ==
    LET new == {<<c, ans.rt>> : c \in News(p, ans)} IN
    [k \in new \cup DOMAIN p.refunds |->
        IF k \notin new THEN p.refunds[k]
        ELSE [state |-> RefundState(ans.status[k[1]]), credit |-> Credit(p, ans, k[1])]]

Answered(p, ans) ==
    LET queryDone == QueryDone(p, RefundsAfter(p, ans)) IN
    [p EXCEPT !.refunds = RefundsAfter(p, ans),
              !.refundQueryRequested = @ /\ ~queryDone,
              !.abortStatus = IF queryDone /\ @ = "AbortRefund" THEN "AbortFinished" ELSE @]

CreditCoin(coin, credit, s) ==
    [coin EXCEPT !.currentAmount = @ + credit, !.status = IF s = "success" THEN "Dormant" ELSE @]
CreditCoins(p, ans) ==
    [c \in DOMAIN db.coins |->
        IF c \in Credited(p, ans) THEN CreditCoin(db.coins[c], Credit(p, ans, c), ans.status[c])
        ELSE db.coins[c]]

AcceptRefunds(t) ==
    LET p == db.purchases[Key(t)]
        refunded == [db EXCEPT !.purchases[Key(t)] = Answered(p, Loc(t)),
                               !.coins = CreditCoins(p, Loc(t))] IN
    /\ At(t, "refund", "accept")
    /\ IF Credited(p, Loc(t)) = {} THEN db' = refunded
       ELSE GroupsLeft(1) /\ db' = CreateRefreshGroup(refunded, SetToSeq(Credited(p, Loc(t))))
    /\ Done(t)
    /\ UNCHANGED <<exchange, merchant, bank, raced, scene>>

RefundNext ==
    \/ \E o \in Orders : ProcessPurchaseQueryRefund(o)
    \/ \E t \in tasks : PollAutoRefund(t) \/ PostRefund(t) \/ PostAbort(t) \/ AcceptRefunds(t)
=============================================================================
