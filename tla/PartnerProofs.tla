------------------------------ MODULE PartnerProofs ------------------------------
(* What the wallet is promised by its partners. For any coins, amounts, promises and crashes: when an *)
(* abort is finished, the merchant has refunded every coin of the payment, or the exchange does not   *)
(* know its deposit, and the contribution is back on it; and the withdrawal groups never claim more   *)
(* coins than the reserve at the exchange pays for.                                                 *)
EXTENDS LedgerProofs

-----------------------------------------------------------------------------
(* The invariant, of the orders that are bought, not paid, and not hit by a race: nothing is asked  *)
(* of the merchant but to abort, a refund that is final has given back the coin's contribution, and *)
(* an abort that is finished has a final refund of every coin.                                    *)
Unpaid(d, S, o) == d.purchases[o] # Absent /\ ~d.purchases[o].paid /\ AllocationId(o) \notin S

FinalRefund(p, k) ==
    p.refunds[k].state # "Pending" =>
        /\ k[1] \in DOMAIN p.payCoinSelection
        /\ p.refunds[k].credit >= p.payCoinSelection[k[1]] - RefundFee
AllFinal(p) ==
    \A c \in DOMAIN p.payCoinSelection :
        <<c, 0>> \in DOMAIN p.refunds /\ p.refunds[<<c, 0>>].state # "Pending"
AbortKept(p) ==
    /\ p.abortStatus \in {"None", "AbortRefund", "AbortFinished"}
    /\ \A k \in DOMAIN p.refunds : p.refunds[k].state \in {"Pending", "Applied", "Failed"}
    /\ \A k \in DOMAIN p.refunds : k[2] = 0 => p.abortStatus # "None" /\ FinalRefund(p, k)
    /\ p.abortStatus = "AbortFinished" => AllFinal(p)

(* What a promise asks the merchant, and what the answer is about                                *)
AnswersAbort(p, ans) ==
    /\ ans.rt = 0 /\ DOMAIN ans.status = DOMAIN p.payCoinSelection
    /\ \A c \in DOMAIN p.payCoinSelection :
          /\ ans.status[c] \in {"success", "pending", "notFound"}
          /\ ans.status[c] = "success" => ans.amount[c] = p.payCoinSelection[c]
Aborts(p, pc, loc) ==
    /\ p.abortStatus # "None" /\ pc \in {"abort", "accept"}
    /\ pc = "abort" => loc = p.payCoinSelection
    /\ pc = "accept" => AnswersAbort(p, loc)
AbortTask(t, d, S) ==
    Op(t) = "refund" /\ Unpaid(d, S, Key(t)) => Aborts(d.purchases[Key(t)], Pc(t), Loc(t))

AbortsOk(d, S) == \A o \in Orders : Unpaid(d, S, o) => AbortKept(d.purchases[o])
AbortInv == AbortsOk(db, raced) /\ \A t \in tasks : AbortTask(t, db, raced)

-----------------------------------------------------------------------------
(* Steps that have nothing to do with purchases and their refunds                                *)
Refundless == \A u \in tasks' : u \in tasks \/ Op(u) # "refund"
Elsewhere == db'.purchases = db.purchases /\ raced \subseteq raced' /\ Refundless

(* The promises that a step makes or moves are of certain operations. *)
NewOps(ops) == \A u \in tasks' : u \in tasks \/ Op(u) \in ops

(* The tables of withdrawals and deposits are left alone. *)
SameStock(d, e) ==
    /\ e.withdrawalGroups = d.withdrawalGroups /\ e.planchets = d.planchets
    /\ e.depositGroups = d.depositGroups

(* Steps of the first kind leave aborts as they are. *)
LEMMA ElsewhereKept ==
    ASSUME AbortInv, Elsewhere
    PROVE  AbortInv'
<1>1. AbortsOk(db', raced')
    BY DEF AbortInv, AbortsOk, Unpaid, Elsewhere
<1>2. ASSUME NEW u \in tasks' PROVE AbortTask(u, db', raced')
    <2>1. CASE u \in tasks
        BY <2>1 DEF AbortInv, AbortTask, Unpaid, Elsewhere
    <2>2. CASE Op(u) # "refund"
        BY <2>2 DEF AbortTask
    <2>. QED
        BY <2>1, <2>2 DEF Elsewhere, Refundless
<1>. QED
    BY <1>1, <1>2 DEF AbortInv

(* A promise that starts, *)
LEMMA StartOps ==
    ASSUME NEW op, NEW key, NEW pc, NEW loc, Start(op, key, pc, loc)
    PROVE  NewOps({op})
<1>1. ASSUME NEW u \in tasks' PROVE u \in tasks \/ Op(u) = op
    <2>1. u \in tasks \/ IsTask(u, op, key, pc, loc)
        BY Started
    <2>. QED
        BY <2>1 DEF IsTask
<1>. QED
    BY <1>1 DEF NewOps

(* one that goes on or ends, *)
LEMMA AdvanceOps ==
    ASSUME WalletInv, NEW t \in tasks, Advances(t)
    PROVE  NewOps({Op(t)})
<1>1. ASSUME NEW u \in tasks', u \notin tasks PROVE Op(u) = Op(t)
    <2>1. TaskShape(t)
        BY DEF WalletInv, TaskOk
    <2>2. PICK pc, loc : Goto(t, pc, loc)
        BY <1>1 DEF Advances, Done
    <2>3. IsTask(u, Op(t), Key(t), pc, loc)
        BY <1>1, <2>1, <2>2, GoneTo
    <2>. QED
        BY <2>3 DEF IsTask
<1>. QED
    BY <1>1 DEF NewOps

(* a group that is rejected, *)
LEMMA RejectOps ==
    ASSUME WalletInv, NEW t, NEW keys, Reject(t, keys)
    PROVE  NewOps({Op(t)})
<1>1. ASSUME NEW u \in tasks', u \notin tasks PROVE Op(u) = Op(t)
    <2>1. PICK v \in tasks : Op(v) = Op(t) /\ u = [v EXCEPT ![6] = FALSE]
        BY <1>1 DEF Reject
    <2>2. TaskShape(v)
        BY DEF WalletInv, TaskOk
    <2>3. IsTask(u, Op(v), Key(v), Pc(v), Loc(v))
        BY <2>1, <2>2, DroppedTask
    <2>. QED
        BY <2>1, <2>3 DEF IsTask
<1>. QED
    BY <1>1 DEF NewOps

(* and promises that a step makes one by one *)
LEMMA TasksOps ==
    ASSUME NEW op,
           \A u \in tasks' : u \in tasks \/ \E key, pc, loc : u = Task(op, key, pc, loc)
    PROVE  NewOps({op})
<1>1. ASSUME NEW u \in tasks' PROVE u \in tasks \/ Op(u) = op
    <2>1. \A key, pc, loc : Op(Task(op, key, pc, loc)) = op
        BY NewTask DEF IsTask
    <2>. QED
        BY <2>1
<1>. QED
    BY <1>1 DEF NewOps

(* They are none about refunds if they are of other operations. *)
LEMMA OpsElsewhere ==
    ASSUME NEW ops, NewOps(ops), "refund" \notin ops
    PROVE  Refundless
BY DEF NewOps, Refundless

(* So it is with a promise that starts, *)
LEMMA StartElsewhere ==
    ASSUME NEW op, NEW key, NEW pc, NEW loc, Start(op, key, pc, loc), op # "refund"
    PROVE  Refundless
BY StartOps DEF NewOps, Refundless

(* goes on, ends, *)
LEMMA AdvanceElsewhere ==
    ASSUME WalletInv, NEW t \in tasks, Advances(t), Op(t) # "refund"
    PROVE  Refundless
BY AdvanceOps DEF NewOps, Refundless

(* or is rejected. *)
LEMMA RejectElsewhere ==
    ASSUME WalletInv, NEW t, Op(t) # "refund", NEW keys, Reject(t, keys)
    PROVE  Refundless
BY RejectOps DEF NewOps, Refundless

(* Tables that are written without purchases                                                   *)
LEMMA OtherFields ==
    ASSUME WalletInv, NEW e,
           \/ e = db
           \/ \E x : \/ e = [db EXCEPT !.proposals = x] \/ e = [db EXCEPT !.reserve = x]
                     \/ e = [db EXCEPT !.revoked = x] \/ e = [db EXCEPT !.tips = x]
                     \/ e = [db EXCEPT !.planchets = x] \/ e = [db EXCEPT !.withdrawalGroups = x]
                     \/ e = [db EXCEPT !.depositGroups = x] \/ e = [db EXCEPT !.refreshGroups = x]
                     \/ e = [db EXCEPT !.coins = x]
           \/ \E x, y : \/ e = [db EXCEPT !.reserve = x, !.withdrawalGroups = y]
                        \/ e = [db EXCEPT !.planchets = x, !.coins = y]
                        \/ e = [db EXCEPT !.refreshGroups = x, !.coins = y]
                        \/ e = [db EXCEPT !.tips = x, !.coins = y]
    PROVE  e.purchases = db.purchases
BY DEF WalletInv, TablesInv, DbShape

(* and without withdrawals and deposits *)
LEMMA StockFields ==
    ASSUME NEW d, DbShape(d), NEW e,
           \/ e = d
           \/ \E x : \/ e = [d EXCEPT !.proposals = x] \/ e = [d EXCEPT !.reserve = x]
                     \/ e = [d EXCEPT !.revoked = x] \/ e = [d EXCEPT !.tips = x]
                     \/ e = [d EXCEPT !.refreshGroups = x] \/ e = [d EXCEPT !.coins = x]
                     \/ e = [d EXCEPT !.purchases = x]
           \/ \E x, y : \/ e = [d EXCEPT !.refreshGroups = x, !.coins = y]
                        \/ e = [d EXCEPT !.tips = x, !.coins = y]
                        \/ e = [d EXCEPT !.coins = x, !.reserve = y]
                        \/ e = [d EXCEPT !.coins = x, !.recoupGroups = y]
                        \/ e = [d EXCEPT !.proposals = x, !.purchases = y]
                        \/ e = [d EXCEPT !.purchases = x, !.coins = y]
    PROVE  SameStock(d, e)
BY DEF DbShape, SameStock

(* Downloads and the wallet's other requests *)
LEMMA RequestsElsewhere ==
    ASSUME WalletInv,
           \/ \E o : \/ StartDownloadProposal(o) \/ ProcessDownloadProposal(o) \/ RefuseProposal(o)
                     \/ ConfirmPay(o) \/ ProcessPurchasePay(o) \/ GrantRefund(o)
           \/ CreateReserve \/ ProcessReserve \/ ForceQueryReserve
           \/ BankConfirms \/ BankAborts \/ TransferArrives(2 * CoinValue)
           \/ \E g : ProcessWithdrawGroup(g) \/ DeleteWithdrawal(g) \/ ProcessDepositGroup(g)
           \/ CreateDepositGroup(Price[1]) \/ PrepareTip
           \/ \E r : AcceptTip(r) \/ ProcessTip(r)
           \/ Crash
    PROVE  Elsewhere
<1>1. ASSUME tasks' \subseteq tasks PROVE Refundless
    BY <1>1 DEF Refundless
<1>2. ASSUME NEW o, StartDownloadProposal(o) \/ ProcessDownloadProposal(o) PROVE Elsewhere
    <2>1. db'.purchases = db.purchases
        BY <1>2, OtherFields DEF StartDownloadProposal, ProcessDownloadProposal
    <2>. QED
        BY <1>2, <2>1, StartElsewhere DEF StartDownloadProposal, ProcessDownloadProposal, Elsewhere
<1>3. ASSUME NEW o, RefuseProposal(o) \/ GrantRefund(o) PROVE Elsewhere
    <2>1. db'.purchases = db.purchases
        BY <1>3, OtherFields DEF RefuseProposal, GrantRefund
    <2>. QED
        BY <1>1, <1>3, <2>1 DEF RefuseProposal, GrantRefund, Elsewhere
<1>4. ASSUME NEW o, ConfirmPay(o) \/ ProcessPurchasePay(o) PROVE Elsewhere
    BY <1>4, StartElsewhere DEF ConfirmPay, ProcessPurchasePay, SubmitPay, Elsewhere
<1>5. ASSUME CreateReserve \/ ForceQueryReserve PROVE Elsewhere
    <2>1. db'.purchases = db.purchases
        BY <1>5, OtherFields DEF CreateReserve, ForceQueryReserve, Update
    <2>2. Refundless
        BY <1>1, <1>5, StartElsewhere DEF CreateReserve, ForceQueryReserve
    <2>. QED
        BY <1>5, <2>1, <2>2 DEF CreateReserve, ForceQueryReserve, Elsewhere
<1>6. ASSUME ProcessReserve PROVE Elsewhere
    BY <1>6, StartElsewhere DEF ProcessReserve, Elsewhere
<1>7. ASSUME BankConfirms \/ BankAborts \/ TransferArrives(2 * CoinValue) \/ Crash PROVE Elsewhere
    BY <1>1, <1>7 DEF BankConfirms, BankAborts, TransferArrives, Crash, Elsewhere
<1>8. ASSUME NEW g, ProcessWithdrawGroup(g) \/ ProcessDepositGroup(g) PROVE Elsewhere
    BY <1>8, StartElsewhere DEF ProcessWithdrawGroup, ProcessDepositGroup, Elsewhere
<1>9. ASSUME NEW g, DeleteWithdrawal(g) PROVE Elsewhere
    <2>1. db'.purchases = db.purchases
        BY <1>9, OtherFields DEF DeleteWithdrawal
    <2>. QED
        BY <1>1, <1>9, <2>1 DEF DeleteWithdrawal, Elsewhere
<1>10. ASSUME CreateDepositGroup(Price[1]) \/ PrepareTip PROVE Elsewhere
    BY <1>10, StartElsewhere DEF CreateDepositGroup, PrepareTip, Elsewhere
<1>11. ASSUME NEW r, AcceptTip(r) \/ ProcessTip(r) PROVE Elsewhere
    <2>1. db'.purchases = db.purchases
        BY <1>11, OtherFields DEF AcceptTip, ProcessTip
    <2>. QED
        BY <1>11, <2>1, StartElsewhere DEF AcceptTip, ProcessTip, Elsewhere
<1>. QED
    BY <1>2, <1>3, <1>4, <1>5, <1>6, <1>7, <1>8, <1>9, <1>10, <1>11

(* Promises of downloads, of payments as far as they do not store, and of the reserve *)
LEMMA PromisesElsewhere ==
    ASSUME WalletInv, NEW t \in tasks,
           \/ ClaimOrder(t) \/ FailProposalPermanently(t) \/ StoreContractTerms(t)
           \/ SelectCoins(t) \/ PostPay(t) \/ PostPaid(t) \/ HandleInsufficientFunds(t) \/ SelectCoinsAgain(t)
           \/ BankStatus(t) \/ StoreBankStatus(t) \/ PostRegistration(t) \/ StoreRegistration(t)
           \/ QueryReserve(t) \/ AfterWithdraw(t)
    PROVE  Elsewhere
<1>. DEFINE Leaves == Advances(t) /\ Op(t) \in {"download", "confirm", "pay", "reserve"}
                     /\ raced \subseteq raced' /\ db'.purchases = db.purchases
<1>1. ASSUME ClaimOrder(t) PROVE Leaves
    BY <1>1 DEF ClaimOrder, Advances, At
<1>2. ASSUME FailProposalPermanently(t) \/ StoreContractTerms(t) PROVE Leaves
    <2>1. ASSUME FailProposalPermanently(t) PROVE db'.purchases = db.purchases
        BY <2>1, OtherFields DEF FailProposalPermanently
    <2>2. ASSUME StoreContractTerms(t) PROVE db'.purchases = db.purchases
        BY <2>2 DEF StoreContractTerms, WalletInv, TablesInv, DbShape
    <2>. QED
        BY <1>2, <2>1, <2>2 DEF FailProposalPermanently, StoreContractTerms, Advances, At
<1>3. ASSUME SelectCoins(t) \/ SelectCoinsAgain(t) PROVE Leaves
    BY <1>3 DEF SelectCoins, SelectCoinsAgain, Advances, At
<1>4. ASSUME PostPay(t) PROVE Leaves
    BY <1>4 DEF PostPay, Advances, At
<1>5. ASSUME PostPaid(t) \/ HandleInsufficientFunds(t) PROVE Leaves
    BY <1>5 DEF PostPaid, HandleInsufficientFunds, Advances, At
<1>6. ASSUME BankStatus(t) \/ PostRegistration(t) \/ QueryReserve(t) \/ AfterWithdraw(t) PROVE Leaves
    BY <1>6 DEF BankStatus, PostRegistration, QueryReserve, AfterWithdraw, Again, Advances, At
<1>7. ASSUME StoreBankStatus(t) \/ StoreRegistration(t) PROVE Leaves
    <2>1. \E r : db' = [db EXCEPT !.reserve = r]
        BY <1>7 DEF StoreBankStatus, StoreRegistration, Update
    <2>2. db'.purchases = db.purchases
        BY <2>1, OtherFields
    <2>. QED
        BY <1>7, <2>2 DEF StoreBankStatus, StoreRegistration, Again, Advances, At
<1>8. Leaves
    BY <1>1, <1>2, <1>3, <1>4, <1>5, <1>6, <1>7
<1>. QED
    BY <1>8, AdvanceElsewhere DEF Elsewhere

(* Withdrawals *)
LEMMA WithdrawalsElsewhere ==
    ASSUME WalletInv, NEW t \in tasks,
           \/ StoreReserve(t) \/ PlanchetGenerate(t) \/ PlanchetRequest(t) \/ StoreCoin(t)
           \/ FinishWithdraw(t)
    PROVE  Elsewhere
<1>1. ASSUME StoreReserve(t) PROVE Elsewhere
    <2>1. db'.purchases = db.purchases
        BY <1>1, OtherFields DEF StoreReserve, Update
    <2>2. TaskShape(t) /\ Op(t) = "reserve"
        BY <1>1 DEF StoreReserve, At, WalletInv, TaskOk
    <2>3. ASSUME NEW u \in tasks' PROVE u \in tasks \/ Op(u) # "refund"
        <3>1. \/ u \in tasks
              \/ \E g : u = MovedTo(t, "withdraw", g)
              \/ \E g, loc : u = Task("withdraw", g, "generate", loc)
            BY <1>1 DEF StoreReserve, Done
        <3>. QED
            BY <2>2, <3>1, MovedTask, NewTask DEF IsTask
    <2>. QED
        BY <1>1, <2>1, <2>3 DEF StoreReserve, Elsewhere, Refundless
<1>2. ASSUME PlanchetGenerate(t) PROVE Elsewhere
    <2>1. db'.purchases = db.purchases
        BY <1>2, OtherFields DEF PlanchetGenerate
    <2>2. Advances(t) /\ Op(t) = "withdraw"
        BY <1>2 DEF PlanchetGenerate, Advances, At
    <2>. QED
        BY <1>2, <2>1, <2>2, AdvanceElsewhere DEF PlanchetGenerate, Elsewhere
<1>3. ASSUME PlanchetRequest(t) PROVE Elsewhere
    <2>1. Advances(t) /\ Op(t) = "withdraw"
        BY <1>3 DEF PlanchetRequest, Advances, At
    <2>. QED
        BY <1>3, <2>1, AdvanceElsewhere DEF PlanchetRequest, Elsewhere
<1>4. ASSUME StoreCoin(t) PROVE Elsewhere
    <2>1. db'.purchases = db.purchases
        BY <1>4, OtherFields DEF StoreCoin
    <2>2. Advances(t) /\ Op(t) = "withdraw"
        BY <1>4 DEF StoreCoin, Storing, Advances, At
    <2>. QED
        BY <1>4, <2>1, <2>2, AdvanceElsewhere DEF StoreCoin, Elsewhere
<1>5. ASSUME FinishWithdraw(t) PROVE Elsewhere
    <2>1. db'.purchases = db.purchases
        BY <1>5, OtherFields DEF FinishWithdraw
    <2>2. Advances(t) /\ Op(t) = "withdraw"
        BY <1>5 DEF FinishWithdraw, Storing, Advances, At
    <2>. QED
        BY <1>5, <2>1, <2>2, AdvanceElsewhere DEF FinishWithdraw, Elsewhere
<1>. QED
    BY <1>1, <1>2, <1>3, <1>4, <1>5

(* createRefreshGroup and createRecoupGroup write none of these tables. *)
LEMMA GroupsElsewhere ==
    ASSUME NEW d, DbShape(d), NEW cs
    PROVE  /\ CreateRefreshGroup(d, cs).purchases = d.purchases
           /\ CreateRecoupGroup(d, cs).purchases = d.purchases
           /\ SameStock(d, CreateRefreshGroup(d, cs)) /\ SameStock(d, CreateRecoupGroup(d, cs))
BY DEF DbShape, CreateRefreshGroup, CreateRecoupGroup, SameStock

(* Nor does putGroupAsFinished, even with the refresh group that it creates.                     *)
LEMMA FinishedElsewhere ==
    ASSUME NEW d, DbShape(d), NEW g, NEW i
    PROVE  /\ PutGroupAsFinished(d, g, i).purchases = d.purchases
           /\ SameStock(d, PutGroupAsFinished(d, g, i))
<1>. DEFINE done == d.recoupGroups[g].finishedPerCoin \cup {i}
            last == done = DOMAIN d.recoupGroups[g].coinPubs
            p == [d EXCEPT !.recoupGroups[g].finishedPerCoin = done, !.recoupGroups[g].finished = last]
<1>1. PutGroupAsFinished(d, g, i) =
          IF d.recoupGroups[g].finished THEN d
          ELSE IF last /\ d.recoupGroups[g].scheduleRefreshCoins # {}
          THEN CreateRefreshGroup(p, SetToSeq(d.recoupGroups[g].scheduleRefreshCoins)) ELSE p
    BY Zenon DEF PutGroupAsFinished
<1>2. DbShape(p) /\ p.purchases = d.purchases /\ SameStock(d, p)
    <2>. PICK yes : yes = last
        OBVIOUS
    <2>1. p = [d EXCEPT !.recoupGroups[g].finishedPerCoin = done, !.recoupGroups[g].finished = yes]
        OBVIOUS
    <2>. HIDE DEF p, last, done
    <2>. QED
        BY <2>1 DEF DbShape, SameStock
<1>. HIDE DEF p, last
<1>3. \A cs : CreateRefreshGroup(p, cs).purchases = d.purchases /\ SameStock(d, CreateRefreshGroup(p, cs))
    BY <1>2, GroupsElsewhere DEF SameStock
<1>4. SameStock(d, d)
    BY DEF SameStock
<1>. QED
    BY <1>1, <1>2, <1>3, <1>4

(* Refreshes *)
LEMMA RefreshesElsewhere ==
    ASSUME WalletInv, RefreshNext \/ \E d : AutoRefresh(d)
    PROVE  Elsewhere /\ SameStock(db, db') /\ NewOps({"session"})
<1>0. DbShape(db)
    BY DEF WalletInv, TablesInv
<1>1. ASSUME NEW g, ProcessRefreshGroup(g) PROVE Elsewhere /\ SameStock(db, db') /\ NewOps({"session"})
    <2>1. \A u \in tasks' : u \in tasks \/ \E key, pc, loc : u = Task("session", key, pc, loc)
        BY <1>1 DEF ProcessRefreshGroup, SessionTask
    <2>2. NewOps({"session"})
        BY <2>1, TasksOps
    <2>. QED
        BY <1>1, <2>2, OpsElsewhere DEF ProcessRefreshGroup, Elsewhere, SameStock
<1>2. ASSUME NEW t \in tasks, RefreshCreateSession(t) PROVE Elsewhere /\ SameStock(db, db') /\ NewOps({"session"})
    <2>1. \E x : db' = db \/ db' = [db EXCEPT !.refreshGroups = x]
        BY <1>2 DEF RefreshCreateSession, WithSession, NewSession, PutGroup
    <2>2. db'.purchases = db.purchases /\ SameStock(db, db')
        BY <1>0, <2>1, OtherFields, StockFields
    <2>3. Advances(t) /\ Op(t) = "session" /\ raced \subseteq raced'
        BY <1>2 DEF RefreshCreateSession, Advances, At
    <2>4. NewOps({"session"})
        BY <2>3, AdvanceOps
    <2>. QED
        BY <2>2, <2>3, <2>4, OpsElsewhere DEF Elsewhere
<1>3. ASSUME NEW t \in tasks, RefreshMelt(t) \/ RefreshReveal(t) PROVE Elsewhere /\ SameStock(db, db') /\ NewOps({"session"})
    <2>1. Op(t) = "session" /\ (Advances(t) \/ \E keys : Reject(t, keys)) /\ raced \subseteq raced'
        BY <1>3 DEF RefreshMelt, RefreshReveal, RejectSession, Advances, At
    <2>2. NewOps({"session"})
        BY <2>1, AdvanceOps, RejectOps
    <2>. QED
        BY <1>3, <2>1, <2>2, OpsElsewhere DEF RefreshMelt, RefreshReveal, Elsewhere, SameStock
<1>4. ASSUME NEW t \in tasks, MeltNotFound(t) \/ StoreMelt(t) PROVE Elsewhere /\ SameStock(db, db') /\ NewOps({"session"})
    <2>1. \E x : db' = db \/ db' = [db EXCEPT !.refreshGroups = x]
        BY <1>4 DEF MeltNotFound, StoreMelt, PutGroup
    <2>2. db'.purchases = db.purchases /\ SameStock(db, db')
        BY <1>0, <2>1, OtherFields, StockFields
    <2>3. Advances(t) /\ Op(t) = "session" /\ raced \subseteq raced'
        BY <1>4 DEF MeltNotFound, StoreMelt, Advances, At
    <2>4. NewOps({"session"})
        BY <2>3, AdvanceOps
    <2>. QED
        BY <2>2, <2>3, <2>4, OpsElsewhere DEF Elsewhere
<1>5. ASSUME NEW t \in tasks, StoreRevealedCoins(t) PROVE Elsewhere /\ SameStock(db, db') /\ NewOps({"session"})
    <2>1. \E x, y : db' = [[db EXCEPT !.refreshGroups = x] EXCEPT !.coins = y]
        BY <1>5, Zenon DEF StoreRevealedCoins, PutGroup
    <2>2. db'.purchases = db.purchases /\ SameStock(db, db')
        BY <1>0, <2>1 DEF DbShape, SameStock
    <2>3. Advances(t) /\ Op(t) = "session" /\ raced \subseteq raced'
        BY <1>5 DEF StoreRevealedCoins, Advances, At
    <2>4. NewOps({"session"})
        BY <2>3, AdvanceOps
    <2>. QED
        BY <2>2, <2>3, <2>4, OpsElsewhere DEF Elsewhere
<1>6. ASSUME NEW d, AutoRefresh(d) PROVE Elsewhere /\ SameStock(db, db') /\ NewOps({"session"})
    <2>1. NewOps({"session"}) /\ Refundless
        BY <1>6 DEF AutoRefresh, NewOps, Refundless
    <2>. QED
        BY <1>0, <1>6, <2>1, GroupsElsewhere DEF AutoRefresh, Elsewhere
<1>. QED
    BY <1>1, <1>2, <1>3, <1>4, <1>5, <1>6 DEF RefreshNext

(* Recoups *)
LEMMA RecoupsElsewhere ==
    ASSUME WalletInv, RecoupNext \/ \E d : RevokeDenomination(d)
    PROVE  Elsewhere /\ SameStock(db, db') /\ NewOps({"recoup"})
<1>0. DbShape(db)
    BY DEF WalletInv, TablesInv
<1>1. ASSUME NEW g, ProcessRecoupGroup(g) PROVE Elsewhere /\ SameStock(db, db') /\ NewOps({"recoup"})
    <2>1. \A u \in tasks' : u \in tasks \/ \E key, pc, loc : u = Task("recoup", key, pc, loc)
        BY <1>1 DEF ProcessRecoupGroup
    <2>2. NewOps({"recoup"})
        BY <2>1, TasksOps
    <2>. QED
        BY <1>1, <2>2, OpsElsewhere DEF ProcessRecoupGroup, Elsewhere, SameStock
<1>2. ASSUME NEW t \in tasks, PostRecoup(t) PROVE Elsewhere /\ SameStock(db, db') /\ NewOps({"recoup"})
    <2>1. Op(t) = "recoup" /\ (Advances(t) \/ \E keys : Reject(t, keys))
        BY <1>2 DEF PostRecoup, Advances, At
    <2>2. NewOps({"recoup"})
        BY <2>1, AdvanceOps, RejectOps
    <2>. QED
        BY <1>2, <2>2, OpsElsewhere DEF PostRecoup, Elsewhere, SameStock
<1>3. ASSUME NEW t \in tasks, StoreRecoup(t) PROVE Elsewhere /\ SameStock(db, db') /\ NewOps({"recoup"})
    <2>1. \E d : /\ db' = db \/ \E g, i : db' = PutGroupAsFinished(d, g, i)
                 /\ \/ d = db
                    \/ \E x, y : d = [db EXCEPT !.coins = x, !.reserve = y]
                    \/ \E x, y : d = [db EXCEPT !.coins = x, !.recoupGroups = y]
        <3>1. ASSUME SourceOf(RecoupedCoin(t)) = "tip"
              PROVE  db' = db \/ \E g, i : db' = PutGroupAsFinished(db, g, i)
            BY <1>3, <3>1 DEF StoreRecoup
        <3>2. ASSUME SourceOf(RecoupedCoin(t)) = "withdraw"
              PROVE  \E x, y : db' = db \/ \E g, i : db' = PutGroupAsFinished([db EXCEPT !.coins = x, !.reserve = y], g, i)
            BY <1>3, <3>2 DEF StoreRecoup
        <3>3. ASSUME SourceOf(RecoupedCoin(t)) \notin {"tip", "withdraw"}
              PROVE  \E x, y : db' = db \/ \E g, i : db' = PutGroupAsFinished([db EXCEPT !.coins = x, !.recoupGroups = y], g, i)
            BY <1>3, <3>3 DEF StoreRecoup
        <3>. QED
            BY <3>1, <3>2, <3>3
    <2>2. PICK d : /\ db' = db \/ \E g, i : db' = PutGroupAsFinished(d, g, i)
                   /\ \/ d = db
                      \/ \E x, y : d = [db EXCEPT !.coins = x, !.reserve = y]
                      \/ \E x, y : d = [db EXCEPT !.coins = x, !.recoupGroups = y]
        BY <2>1
    <2>3. DbShape(d) /\ d.purchases = db.purchases /\ SameStock(db, d)
        BY <1>0, <2>2 DEF DbShape, SameStock
    <2>4. db'.purchases = db.purchases /\ SameStock(db, db')
        <3>1. \A g, i : PutGroupAsFinished(d, g, i).purchases = d.purchases /\ SameStock(d, PutGroupAsFinished(d, g, i))
            BY <2>3, FinishedElsewhere
        <3>. QED
            BY <2>2, <2>3, <3>1 DEF SameStock
    <2>5. Advances(t) /\ Op(t) = "recoup" /\ raced \subseteq raced'
        BY <1>3 DEF StoreRecoup, Advances, At
    <2>6. NewOps({"recoup"})
        BY <2>5, AdvanceOps
    <2>. QED
        BY <2>4, <2>5, <2>6, OpsElsewhere DEF Elsewhere
<1>4. ASSUME NEW dn, RevokeDenomination(dn) PROVE Elsewhere /\ SameStock(db, db') /\ NewOps({"recoup"})
    <2>. PICK set : set = db.revoked \cup {dn}
        OBVIOUS
    <2>. PICK d : d = [db EXCEPT !.revoked = set]
        OBVIOUS
    <2>1. db' = d \/ \E cs : db' = CreateRecoupGroup(d, cs)
        BY <1>4 DEF RevokeDenomination
    <2>2. DbShape(d) /\ d.purchases = db.purchases /\ SameStock(db, d)
        BY <1>0 DEF DbShape, SameStock
    <2>3. db'.purchases = db.purchases /\ SameStock(db, db')
        <3>1. \A cs : CreateRecoupGroup(d, cs).purchases = d.purchases /\ SameStock(d, CreateRecoupGroup(d, cs))
            BY <2>2, GroupsElsewhere
        <3>. QED
            BY <2>1, <2>2, <3>1 DEF SameStock
    <2>4. NewOps({"recoup"}) /\ Refundless
        BY <1>4 DEF RevokeDenomination, NewOps, Refundless
    <2>. QED
        BY <1>4, <2>3, <2>4 DEF RevokeDenomination, Elsewhere
<1>. QED
    BY <1>1, <1>2, <1>3, <1>4 DEF RecoupNext

(* Deposits and tips *)
LEMMA DepositsElsewhere ==
    ASSUME WalletInv, NEW t \in tasks,
           \/ RecordDepositGroup(t) \/ PostDeposit(t) \/ StoreDeposit(t) \/ FinishDepositGroup(t)
           \/ PickupTip(t) \/ StoreTipCoins(t) \/ StoreTip(t, 1)
    PROVE  Elsewhere
<1>. DEFINE Leaves == Advances(t) /\ Op(t) # "refund" /\ raced \subseteq raced' /\ db'.purchases = db.purchases
<1>0. DbShape(db) /\ CoinsOk(db.coins) /\ IsList(db.refreshGroups)
    BY DEF WalletInv, TablesInv, RefreshInv
<1>1. ASSUME RecordDepositGroup(t) PROVE Leaves
    <2>. PICK e : e = ApplyCoinSpend(db, Loc(t), DepositContract(Len(db.depositGroups) + 1))
        OBVIOUS
    <2>1. DbShape(e) /\ e.purchases = db.purchases
        BY <1>0, CoinsSpent DEF Spends
    <2>2. db' = db \/ \E x : db' = [e EXCEPT !.depositGroups = x]
        BY <1>1 DEF RecordDepositGroup
    <2>3. db'.purchases = db.purchases
        BY <2>1, <2>2 DEF DbShape
    <2>. QED
        BY <1>1, <2>3 DEF RecordDepositGroup, Advances, At
<1>2. ASSUME PostDeposit(t) \/ PickupTip(t) PROVE Leaves
    BY <1>2 DEF PostDeposit, PickupTip, Advances, At
<1>3. ASSUME StoreDeposit(t) \/ FinishDepositGroup(t) PROVE Leaves
    <2>1. \E x : db' = [db EXCEPT !.depositGroups = x]
        BY <1>3 DEF StoreDeposit, FinishDepositGroup
    <2>2. db'.purchases = db.purchases
        BY <2>1, OtherFields
    <2>. QED
        BY <1>3, <2>2 DEF StoreDeposit, FinishDepositGroup, Advances, At
<1>4. ASSUME StoreTipCoins(t) PROVE Leaves
    <2>1. db' = db \/ \E x, y : db' = [db EXCEPT !.tips = x, !.coins = y]
        BY <1>4 DEF StoreTipCoins, TipPickedUp, WithTipCoins
    <2>2. db'.purchases = db.purchases
        BY <2>1, OtherFields
    <2>. QED
        BY <1>4, <2>2 DEF StoreTipCoins, Advances, At
<1>5. ASSUME StoreTip(t, 1) PROVE Leaves
    <2>1. db' = db \/ \E x : db' = [db EXCEPT !.tips = x]
        BY <1>5 DEF StoreTip
    <2>2. db'.purchases = db.purchases
        BY <2>1, OtherFields
    <2>. QED
        BY <1>5, <2>2 DEF StoreTip, Advances, At
<1>6. Leaves
    BY <1>1, <1>2, <1>3, <1>4, <1>5
<1>. QED
    BY <1>6, AdvanceElsewhere DEF Elsewhere

-----------------------------------------------------------------------------
(* Steps that store the purchase of an order, or start a promise about its refunds              *)
OthersBought(o) == \A u \in Orders \ {o} : db'.purchases[u] = db.purchases[u]
NewRefundTasks(o) == \A u \in tasks' : u \in tasks \/ Op(u) # "refund" \/ Key(u) = o
AbortsTo(o, q) ==
    /\ AbortKept(q)
    /\ \A u \in tasks' : Op(u) = "refund" /\ Key(u) = o => Aborts(q, Pc(u), Loc(u))

(* They keep the invariant if it is kept for that order. *)
LEMMA OneOrderKept ==
    ASSUME WalletInv, AbortInv, NEW o \in Orders, OthersBought(o), raced \subseteq raced', NewRefundTasks(o),
           Unpaid(db', raced', o) => AbortsTo(o, db'.purchases[o])
    PROVE  AbortInv'
<1>1. ASSUME NEW u \in Orders \ {o}, Unpaid(db', raced', u)
      PROVE  db'.purchases[u] = db.purchases[u] /\ Unpaid(db, raced, u)
    BY <1>1 DEF OthersBought, Unpaid
<1>2. AbortsOk(db', raced')
    BY <1>1 DEF AbortInv, AbortsOk, AbortsTo
<1>3. ASSUME NEW u \in tasks', Op(u) = "refund", Unpaid(db', raced', Key(u))
      PROVE  Aborts(db'.purchases[Key(u)], Pc(u), Loc(u))
    <2>1. CASE Key(u) = o
        BY <1>3, <2>1 DEF AbortsTo
    <2>2. CASE Key(u) # o
        <3>1. u \in tasks
            BY <1>3, <2>2 DEF NewRefundTasks
        <3>2. Key(u) \in Orders \ {o}
            BY <1>3, <2>2, <3>1, PaysPurchase
        <3>. QED
            BY <1>1, <1>3, <3>1, <3>2 DEF AbortInv, AbortTask
    <2>. QED
        BY <2>1, <2>2
<1>. QED
    BY <1>2, <1>3 DEF AbortInv, AbortTask

(* What is kept when flags change, or an abort begins                                          *)
SameAbort(p, q) ==
    /\ ~q.paid => ~p.paid
    /\ q.payCoinSelection = p.payCoinSelection /\ q.refunds = p.refunds
    /\ q.abortStatus = p.abortStatus \/ q.abortStatus = "AbortRefund"

(* What is known of the abort and of the promises about it stays.                                *)
LEMMA SameAbortKept ==
    ASSUME NEW p, NEW q, SameAbort(p, q)
    PROVE  /\ AbortKept(p) => AbortKept(q)
           /\ \A pc, loc : Aborts(p, pc, loc) => Aborts(q, pc, loc)
BY DEF SameAbort, AbortKept, AllFinal, FinalRefund, Aborts, AnswersAbort

(* The promises that ask about an order keep asking to abort it. *)
AskedFor(o, q) == \A u \in tasks' : \/ u \in tasks \/ Op(u) # "refund"
                                    \/ Key(u) = o /\ (~q.paid => Aborts(q, Pc(u), Loc(u)))

(* So a step on the purchase of one order keeps the invariant.                                  *)
LEMMA SameOrderKept ==
    ASSUME WalletInv, AbortInv, NEW o \in Orders, OthersBought(o), raced \subseteq raced', HasPurchase(o),
           SameAbort(db.purchases[o], db'.purchases[o]), AskedFor(o, db'.purchases[o])
    PROVE  AbortInv'
<1>. DEFINE p == db.purchases[o]
            q == db'.purchases[o]
<1>1. NewRefundTasks(o)
    BY DEF AskedFor, NewRefundTasks
<1>2. ASSUME Unpaid(db', raced', o) PROVE AbortsTo(o, q)
    <2>1. Unpaid(db, raced, o) /\ ~q.paid
        BY <1>2 DEF Unpaid, HasPurchase, SameAbort
    <2>2. AbortKept(q)
        BY <2>1, SameAbortKept DEF AbortInv, AbortsOk
    <2>3. ASSUME NEW u \in tasks', Op(u) = "refund", Key(u) = o PROVE Aborts(q, Pc(u), Loc(u))
        <3>1. CASE u \in tasks
            <4>1. Aborts(p, Pc(u), Loc(u))
                BY <2>1, <2>3, <3>1 DEF AbortInv, AbortTask
            <4>. QED
                BY <4>1, SameAbortKept
        <3>2. CASE u \notin tasks
            BY <2>1, <2>3, <3>2 DEF AskedFor
        <3>. QED
            BY <3>1, <3>2
    <2>. QED
        BY <2>2, <2>3 DEF AbortsTo
<1>. QED
    BY <1>1, <1>2, OneOrderKept

(* processPurchaseQueryRefund asks for refunds of what is paid, and aborts what is not.           *)
LEMMA QueryAsks ==
    ASSUME NEW o, NEW q, NEW w, QueryRefund(o, q, w)
    PROVE  AskedFor(o, q)
<1>1. ASSUME NEW u \in tasks', u \notin tasks PROVE Key(u) = o /\ (~q.paid => Aborts(q, Pc(u), Loc(u)))
    <2>1. PICK pc, loc : Start("refund", o, pc, loc) /\ (~q.paid => Aborts(q, pc, loc))
        BY <1>1 DEF QueryRefund, Aborts
    <2>2. IsTask(u, "refund", o, pc, loc)
        BY <1>1, <2>1, Started
    <2>. QED
        BY <2>1, <2>2 DEF IsTask
<1>. QED
    BY <1>1 DEF AskedFor

(* The user's requests about one purchase, and the query that is pending *)
LEMMA PurchaseRequestsKept ==
    ASSUME WalletInv, AbortInv, NEW o \in Orders,
           \/ ConfirmPayNewSession(o) \/ AutoRefundExpires(o) \/ ApplyRefund(o)
           \/ AbortFailedPayWithRefund(o) \/ ProcessPurchaseQueryRefund(o)
    PROVE  AbortInv'
<1>. DEFINE p == db.purchases[o]
            Good(q) == SameAbort(p, q) /\ PurchasePut(db, db', o, q) /\ AskedFor(o, q)
<1>. PICK yes, no : yes = TRUE /\ no = FALSE
    OBVIOUS
<1>1. HasPurchase(o) /\ UNCHANGED <<exchange, raced>>
    BY DEF ConfirmPayNewSession, AutoRefundExpires, ApplyRefund, AbortFailedPayWithRefund,
           ProcessPurchaseQueryRefund, HasPurchase
<1>2. PurchaseOk(p)
    BY <1>1 DEF WalletInv, TablesInv, PurchaseInv
<1>3. ASSUME Refundless, NEW q PROVE AskedFor(o, q)
    BY <1>3 DEF Refundless, AskedFor
<1>4. ASSUME ConfirmPayNewSession(o) PROVE \E q : Good(q)
    <2>. PICK q : q = [p EXCEPT !.paymentSubmitPending = yes]
        OBVIOUS
    <2>1. PurchasePut(db, db', o, q)
        BY <1>4 DEF ConfirmPayNewSession, PurchasePut
    <2>2. SameAbort(p, q)
        BY <1>2 DEF SameAbort, PurchaseOk, PurchaseShape
    <2>3. Refundless
        BY <1>4, StartElsewhere DEF ConfirmPayNewSession, SubmitPay, Refundless
    <2>. QED
        BY <1>3, <2>1, <2>2, <2>3
<1>5. ASSUME AutoRefundExpires(o) PROVE \E q : Good(q)
    <2>. PICK q : q = [p EXCEPT !.autoRefund = no]
        OBVIOUS
    <2>1. PurchasePut(db, db', o, q)
        BY <1>5 DEF AutoRefundExpires, PurchasePut
    <2>2. SameAbort(p, q)
        BY <1>2 DEF SameAbort, PurchaseOk, PurchaseShape
    <2>3. Refundless
        BY <1>5 DEF AutoRefundExpires, Refundless
    <2>. QED
        BY <1>3, <2>1, <2>2, <2>3
<1>6. ASSUME ApplyRefund(o) PROVE \E q : Good(q)
    <2>. PICK q : q = [p EXCEPT !.refundQueryRequested = yes]
        OBVIOUS
    <2>1. PurchasePut(db, db', o, q)
        BY <1>6 DEF ApplyRefund, PurchasePut
    <2>2. SameAbort(p, q) /\ SameAbort(q, p)
        BY <1>2 DEF SameAbort, PurchaseOk, PurchaseShape
    <2>3. AskedFor(o, p)
        BY <1>6, QueryAsks DEF ApplyRefund
    <2>4. AskedFor(o, q)
        BY <2>2, <2>3, SameAbortKept DEF AskedFor, SameAbort
    <2>. QED
        BY <2>1, <2>2, <2>4
<1>7. ASSUME AbortFailedPayWithRefund(o) PROVE \E q : Good(q)
    <2>. PICK q : q = [p EXCEPT !.refundQueryRequested = yes, !.paymentSubmitPending = no,
                                !.abortStatus = "AbortRefund"]
        OBVIOUS
    <2>1. PurchasePut(db, db', o, q) /\ QueryRefund(o, q, TRUE)
        BY <1>7 DEF AbortFailedPayWithRefund, PurchasePut
    <2>2. SameAbort(p, q)
        BY <1>2 DEF SameAbort, PurchaseOk, PurchaseShape
    <2>. QED
        BY <2>1, <2>2, QueryAsks
<1>8. ASSUME NEW q, Good(q) PROVE AbortInv'
    <2>1. OthersBought(o) /\ db'.purchases[o] = q
        BY <1>8, PurchasePutFields DEF OthersBought
    <2>. QED
        BY <1>1, <1>8, <2>1, SameOrderKept
<1>9. ASSUME ProcessPurchaseQueryRefund(o) PROVE AbortInv'
    <2>1. OthersBought(o) /\ SameAbort(p, db'.purchases[o]) /\ db'.purchases[o] = p
        BY <1>9 DEF ProcessPurchaseQueryRefund, OthersBought, SameAbort
    <2>2. AskedFor(o, p)
        BY <1>9, QueryAsks DEF ProcessPurchaseQueryRefund
    <2>. QED
        BY <1>1, <2>1, <2>2, SameOrderKept
<1>. QED
    BY <1>4, <1>5, <1>6, <1>7, <1>8, <1>9

(* The transactions of a payment *)
LEMMA PaymentsKept ==
    ASSUME WalletInv, AbortInv, NEW t \in tasks,
           StoreFirstPaySuccess(t) \/ StorePayReplaySuccess(t) \/ FreezePay(t)
    PROVE  AbortInv'
<1>. DEFINE o == Key(t)
            p == db.purchases[o]
<1>. PICK yes, no : yes = TRUE /\ no = FALSE
    OBVIOUS
<1>1. Op(t) = "pay" /\ Done(t) /\ UNCHANGED <<exchange, raced>>
    BY DEF StoreFirstPaySuccess, StorePayReplaySuccess, FreezePay, At
<1>2. o \in Orders /\ PurchaseOk(p) /\ HasPurchase(o)
    BY <1>1, PaysPurchase
<1>3. Refundless /\ \A q : AskedFor(o, q)
    BY <1>1 DEF Done, Refundless, AskedFor
<1>4. CASE db' = db
    BY <1>1, <1>3, <1>4, ElsewhereKept DEF Elsewhere
<1>5. ASSUME NEW q, SameAbort(p, q), PurchasePut(db, db', o, q) PROVE AbortInv'
    <2>1. OthersBought(o) /\ db'.purchases[o] = q
        BY <1>2, <1>5, PurchasePutFields DEF OthersBought
    <2>. QED
        BY <1>1, <1>2, <1>3, <1>5, <2>1, SameOrderKept
<1>6. ASSUME StoreFirstPaySuccess(t), db' # db PROVE \E q : SameAbort(p, q) /\ PurchasePut(db, db', o, q)
    <2>. PICK auto : auto = (Key(t) \in AutoRefund)
        OBVIOUS
    <2>. PICK query : query = (p.refundQueryRequested \/ auto)
        OBVIOUS
    <2>. PICK q : q = [p EXCEPT !.paid = yes, !.paymentSubmitPending = no,
                                !.refundQueryRequested = query, !.autoRefund = auto]
        OBVIOUS
    <2>1. PurchasePut(db, db', o, q)
        BY <1>6 DEF StoreFirstPaySuccess, PurchasePut
    <2>2. SameAbort(p, q)
        BY <1>2 DEF SameAbort, PurchaseOk, PurchaseShape
    <2>. QED
        BY <2>1, <2>2
<1>7. ASSUME StorePayReplaySuccess(t), db' # db PROVE \E q : SameAbort(p, q) /\ PurchasePut(db, db', o, q)
    <2>. PICK q : q = [p EXCEPT !.paymentSubmitPending = no]
        OBVIOUS
    <2>1. PurchasePut(db, db', o, q)
        BY <1>7 DEF StorePayReplaySuccess, PurchasePut
    <2>2. SameAbort(p, q)
        BY <1>2 DEF SameAbort, PurchaseOk, PurchaseShape
    <2>. QED
        BY <2>1, <2>2
<1>8. ASSUME FreezePay(t) PROVE \E q : SameAbort(p, q) /\ PurchasePut(db, db', o, q)
    <2>. PICK q : q = [p EXCEPT !.payFrozen = yes]
        OBVIOUS
    <2>1. PurchasePut(db, db', o, q)
        BY <1>8 DEF FreezePay, PurchasePut
    <2>2. SameAbort(p, q)
        BY <1>2 DEF SameAbort, PurchaseOk, PurchaseShape
    <2>. QED
        BY <2>1, <2>2
<1>. QED
    BY <1>4, <1>5, <1>6, <1>7, <1>8

(* A step that only moves promises, to where they may be *)
LEMMA TasksKept ==
    ASSUME AbortInv, UNCHANGED <<db, raced>>, \A u \in tasks' : u \in tasks \/ AbortTask(u, db, raced)
    PROVE  AbortInv'
BY DEF AbortInv

(* The merchant's answers *)
LEMMA AnswersKept ==
    ASSUME WalletInv, AbortInv, NEW t \in tasks, PollAutoRefund(t) \/ PostRefund(t) \/ PostAbort(t)
    PROVE  AbortInv'
<1>. DEFINE o == Key(t)
            sel == Loc(t)
            loc(ans) == [rt |-> 0, status |-> ans, amount |-> Loc(t)]
<1>1. Op(t) = "refund" /\ UNCHANGED <<db, raced>> /\ TaskShape(t)
    BY DEF PollAutoRefund, PostRefund, PostAbort, At, WalletInv, TaskOk
<1>2. CASE Done(t)
    BY <1>1, <1>2, TasksKept DEF Done
<1>3. ASSUME NEW pc, NEW l, Goto(t, pc, l), Unpaid(db, raced, o) => Aborts(db.purchases[o], pc, l)
      PROVE  AbortInv'
    <2>1. ASSUME NEW u \in tasks' PROVE u \in tasks \/ AbortTask(u, db, raced)
        <3>1. u \in tasks \/ IsTask(u, Op(t), Key(t), pc, l)
            BY <1>1, <1>3, GoneTo
        <3>. QED
            BY <1>3, <3>1 DEF IsTask, AbortTask
    <2>. QED
        BY <1>1, <2>1, TasksKept
<1>4. CASE PollAutoRefund(t) \/ PostRefund(t)
    <2>1. ~Unpaid(db, raced, o)
        BY <1>1, <1>4 DEF AbortInv, AbortTask, Aborts, PollAutoRefund, PostRefund, At
    <2>2. Done(t) \/ \E pc, l : Goto(t, pc, l)
        BY <1>4 DEF PollAutoRefund, PostRefund
    <2>. QED
        BY <1>2, <1>3, <2>1, <2>2
<1>5. CASE PostAbort(t)
    <2>1. Done(t) \/ \E ans \in [DOMAIN sel -> {"success", "pending", "notFound"}] : Goto(t, "accept", loc(ans))
        BY <1>5 DEF PostAbort
    <2>2. ASSUME NEW ans \in [DOMAIN sel -> {"success", "pending", "notFound"}], Goto(t, "accept", loc(ans))
          PROVE  AbortInv'
        <3>1. ASSUME Unpaid(db, raced, o) PROVE Aborts(db.purchases[o], "accept", loc(ans))
            <4>1. sel = db.purchases[o].payCoinSelection /\ db.purchases[o].abortStatus # "None"
                BY <1>1, <1>5, <3>1 DEF AbortInv, AbortTask, Aborts, PostAbort, At
            <4>2. loc(ans).status = ans /\ loc(ans).amount = sel /\ DOMAIN ans = DOMAIN sel /\ loc(ans).rt = 0
                OBVIOUS
            <4>. HIDE DEF loc
            <4>. QED
                BY <4>1, <4>2 DEF Aborts, AnswersAbort
        <3>. HIDE DEF loc
        <3>. QED
            BY <1>3, <2>2, <3>1
    <2>. HIDE DEF loc
    <2>. QED
        BY <1>2, <2>1, <2>2
<1>. QED
    BY <1>4, <1>5

(* recordConfirmPay: the purchase that it stores has no refunds; one that it overwrites is a race. *)
LEMMA ConfirmKept ==
    ASSUME WalletInv, AbortInv, NEW t \in tasks, RecordConfirmPay(t)
    PROVE  AbortInv'
<1>. DEFINE o == Key(t)
            sel == Loc(t)
            id == AllocationId(o)
<1>1. Op(t) = "confirm" /\ o \in Orders
    BY DEF RecordConfirmPay, At, WalletInv, TaskOk
<1>2. CASE SpendConflict(db, sel, id)
    BY <1>1, <1>2, ElsewhereKept DEF RecordConfirmPay, Done, Elsewhere, Refundless
<1>3. CASE ~SpendConflict(db, sel, id)
    <2>1. PICK d : Recorded(d, o, sel)
        BY DEF Recorded
    <2>2. /\ db' = ApplyCoinSpend(d, sel, id) /\ raced \subseteq raced' /\ (HasPurchase(o) => id \in raced')
          /\ tasks' = (tasks \ {t}) \cup {Task("pay", o, "pay", sel)}
        BY <1>3, <2>1 DEF RecordConfirmPay, Recorded
    <2>3. /\ DbShape(d) /\ d.coins = db.coins /\ d.refreshGroups = db.refreshGroups
          /\ \A u \in Orders \ {o} : d.purchases[u] = db.purchases[u]
        BY <1>1, <2>1, PurchaseRecorded
    <2>4. d.purchases[o] = NewPurchase(sel)
        <3>. PICK x : x = [db.proposals EXCEPT ![o].status = "ACCEPTED"]
            OBVIOUS
        <3>. PICK p : p = NewPurchase(sel)
            OBVIOUS
        <3>. PICK s : s = [db.purchases EXCEPT ![o] = p]
            OBVIOUS
        <3>1. d.purchases = s
            BY <2>1 DEF WalletInv, TablesInv, DbShape, Recorded
        <3>2. s[o] = p
            BY <1>1 DEF WalletInv, TablesInv, PurchaseInv, IsFunction
        <3>. QED
            BY <3>1, <3>2
    <2>5. db'.purchases = d.purchases
        <3>1. CoinsOk(d.coins) /\ IsList(d.refreshGroups)
            BY <2>3 DEF WalletInv, TablesInv, RefreshInv
        <3>. QED
            BY <2>2, <2>3, <3>1, CoinsSpent DEF Spends
    <2>6. OthersBought(o) /\ db'.purchases[o] = NewPurchase(sel)
        BY <2>3, <2>4, <2>5 DEF OthersBought
    <2>7. ASSUME NEW u \in tasks' PROVE u \in tasks \/ Op(u) # "refund"
        BY <2>2, <2>7, NewTask DEF IsTask
    <2>8. ASSUME Unpaid(db', raced', o) PROVE AbortsTo(o, db'.purchases[o])
        <3>1. ~HasPurchase(o)
            BY <2>2, <2>8 DEF Unpaid
        <3>2. AbortKept(NewPurchase(sel))
            BY ListFacts DEF NewPurchase, AbortKept
        <3>3. ASSUME NEW u \in tasks', Op(u) = "refund", Key(u) = o PROVE FALSE
            BY <2>7, <3>1, <3>3, PaysPurchase
        <3>. QED
            BY <2>6, <3>2, <3>3 DEF AbortsTo
    <2>9. NewRefundTasks(o)
        BY <2>7 DEF NewRefundTasks
    <2>. QED
        BY <1>1, <2>2, <2>6, <2>8, <2>9, OneOrderKept
<1>. QED
    BY <1>2, <1>3

(* A new selection, of an order that is not aborted, or else it is hit by a race *)
LEMMA ReselectionKept ==
    ASSUME WalletInv, AbortInv, NEW t \in tasks, StoreReselection(t)
    PROVE  AbortInv'
<1>. DEFINE o == Key(t)
            sel == Loc(t).sel
            id == AllocationId(o)
            p == db.purchases[o]
<1>1. Op(t) = "pay" /\ tasks' \subseteq tasks
    BY DEF StoreReselection, At, Done
<1>2. o \in Orders /\ HasPurchase(o) /\ PurchaseOk(p)
    BY <1>1, PaysPurchase
<1>3. CASE SpendConflict(db, sel, id)
    BY <1>1, <1>3, ElsewhereKept DEF StoreReselection, Elsewhere, Refundless
<1>4. CASE ~SpendConflict(db, sel, id)
    <2>q. PICK q : q = [p EXCEPT !.payCoinSelection = sel]
        OBVIOUS
    <2>d. PICK d : d = [db EXCEPT !.purchases[o] = q]
        OBVIOUS
    <2>1. q.paid = p.paid /\ q.abortStatus = p.abortStatus /\ q.refunds = p.refunds
        BY <1>2, <2>q DEF PurchaseOk, PurchaseShape
    <2>2. PurchasePut(db, d, o, q)
        BY <2>d DEF PurchasePut
    <2>3. d = [db EXCEPT !.purchases[o].payCoinSelection = sel]
        BY <2>d, <2>q DEF WalletInv, TablesInv, DbShape
    <2>4. /\ db' = ApplyCoinSpend(d, sel, id) /\ raced \subseteq raced'
          /\ id \notin raced' => ~p.paid /\ CanSubmit(o)
        BY <1>4, <2>3 DEF StoreReselection
    <2>5. /\ DbShape(d) /\ d.coins = db.coins /\ d.refreshGroups = db.refreshGroups
          /\ d.purchases[o] = q /\ \A u \in Orders \ {o} : d.purchases[u] = db.purchases[u]
        BY <1>2, <2>2, PurchasePutFields
    <2>6. db'.purchases = d.purchases
        <3>1. CoinsOk(d.coins) /\ IsList(d.refreshGroups)
            BY <2>5 DEF WalletInv, TablesInv, RefreshInv
        <3>. QED
            BY <2>4, <2>5, <3>1, CoinsSpent DEF Spends
    <2>7. OthersBought(o) /\ db'.purchases[o] = q
        BY <2>5, <2>6 DEF OthersBought
    <2>8. ASSUME Unpaid(db', raced', o) PROVE AbortsTo(o, q)
        <3>1. Unpaid(db, raced, o) /\ p.abortStatus = "None"
            BY <1>2, <2>4, <2>8 DEF Unpaid, HasPurchase, CanSubmit
        <3>2. AbortKept(p)
            BY <1>2, <3>1 DEF AbortInv, AbortsOk
        <3>3. AbortKept(q)
            BY <2>1, <3>1, <3>2 DEF AbortKept
        <3>4. ASSUME NEW u \in tasks', Op(u) = "refund", Key(u) = o PROVE FALSE
            BY <1>1, <3>1, <3>4 DEF AbortInv, AbortTask, Aborts
        <3>. QED
            BY <3>3, <3>4 DEF AbortsTo
    <2>9. NewRefundTasks(o)
        BY <1>1 DEF NewRefundTasks
    <2>. QED
        BY <1>2, <2>4, <2>7, <2>8, <2>9, OneOrderKept
<1>. QED
    BY <1>3, <1>4

(* What acceptRefunds stores in a purchase                                                    *)
LEMMA AnswerWritten ==
    ASSUME NEW p, PurchaseOk(p), NEW ans
    PROVE  LET q == Answered(p, ans)
               rs == RefundsAfter(p, ans) IN
           /\ q.paid = p.paid /\ q.payCoinSelection = p.payCoinSelection /\ q.refunds = rs
           /\ q.abortStatus = IF QueryDone(p, rs) /\ p.abortStatus = "AbortRefund" THEN "AbortFinished" ELSE p.abortStatus
<1>. PICK rs, x : rs = RefundsAfter(p, ans) /\ x = QueryDone(p, rs)
    OBVIOUS
<1>. PICK r, a : /\ r = (p.refundQueryRequested /\ ~x)
                 /\ a = IF x /\ p.abortStatus = "AbortRefund" THEN "AbortFinished" ELSE p.abortStatus
    OBVIOUS
<1>. PICK q : q = Answered(p, ans)
    OBVIOUS
<1>1. q = [p EXCEPT !.refunds = rs, !.refundQueryRequested = r, !.abortStatus = a]
    BY Zenon DEF Answered
<1>2. q.paid = p.paid /\ q.payCoinSelection = p.payCoinSelection /\ q.refunds = rs /\ q.abortStatus = a
    BY <1>1 DEF PurchaseOk, PurchaseShape
<1>. QED
    BY <1>2

(* A coin that is refunded by an abort gets its contribution back, but for the fee.             *)
LEMMA FeeOnly ==
    ASSUME NEW cur \in Int, NEW x \in Int, NEW fee \in Int
    PROVE  Sub(cur + x, fee) - cur >= x - fee
BY DEF Sub

(* The answer credits it to every coin that it settles.                                        *)
LEMMA AbortCredits ==
    ASSUME NEW p, AbortKept(p), p.abortStatus # "None", NEW ans, AnswersAbort(p, ans), CoinBooks(db),
           NEW o, NEW S, SelectionOk(db, S, p.payCoinSelection, o), AnswerOk(db, S, ans, o),
           NEW c \in News(p, ans), ans.status[c] # "pending"
    PROVE  Credit(p, ans, c) >= p.payCoinSelection[c] - RefundFee
<1>. PICK s : s = ans.status[c]
    OBVIOUS
<1>. PICK x : x = p.payCoinSelection[c]
    OBVIOUS
<1>. PICK cur : cur = db.coins[c].currentAmount
    OBVIOUS
<1>1. c \in DOMAIN p.payCoinSelection /\ c \in DOMAIN ans.status /\ ~Ignored(p, 0, c, s)
    BY DEF News, AnswersAbort
<1>2. p.abortStatus = "AbortRefund"
    <2>1. ASSUME AllFinal(p) PROVE FALSE
        BY <1>1, <2>1 DEF AllFinal, AbortKept, Ignored
    <2>. QED
        BY <2>1 DEF AbortKept
<1>3. s = "success" \/ s = "notFound"
    BY <1>1 DEF AnswersAbort
<1>4. c \in Credited(p, ans) /\ Contributed(p, ans, c)
    BY <1>1, <1>2, <1>3 DEF Credited, Contributed
<1>5. Refunded(p, ans, c) = x
    BY <1>1 DEF Refunded, AnswersAbort
<1>6. Credit(p, ans, c) = Sub(cur + x, RefundFee) - cur
    BY <1>4, <1>5 DEF Credit
<1>7. c \in DOMAIN db.coins /\ x \in Int /\ cur \in Int
    BY <1>1 DEF SelectionOk, AnswerOk, BelongsTo, CoinBooks, CoinBook
<1>8. RefundFee \in Int
    BY FeeAssumption
<1>. QED
    BY <1>6, <1>7, <1>8, FeeOnly

(* So an answer keeps what is known of the abort. *)
LEMMA AnswerAborts ==
    ASSUME NEW p, PurchaseOk(p), AbortKept(p), p.abortStatus # "None", NEW ans, AnswersAbort(p, ans), CoinBooks(db),
           NEW o, NEW S, SelectionOk(db, S, p.payCoinSelection, o), AnswerOk(db, S, ans, o)
    PROVE  AbortKept(Answered(p, ans)) /\ Answered(p, ans).abortStatus # "None"
<1>. PICK q : q = Answered(p, ans)
    OBVIOUS
<1>. PICK rs : rs = RefundsAfter(p, ans)
    OBVIOUS
<1>. PICK N : N = News(p, ans)
    OBVIOUS
<1>. DEFINE new == {<<c, 0>> : c \in N}
<1>1. /\ q.payCoinSelection = p.payCoinSelection /\ q.refunds = rs
      /\ q.abortStatus = IF QueryDone(p, rs) /\ p.abortStatus = "AbortRefund" THEN "AbortFinished" ELSE p.abortStatus
    BY AnswerWritten
<1>2. /\ DOMAIN rs = DOMAIN p.refunds \cup new
      /\ \A k \in DOMAIN p.refunds \ new : rs[k] = p.refunds[k]
    BY DEF RefundsAfter, AnswersAbort
<1>3. ASSUME NEW c \in N, NEW k, k = <<c, 0>>
      PROVE  rs[k].state \in {"Pending", "Applied", "Failed"} /\ FinalRefund(q, k)
    <2>. PICK x, s : x = Credit(p, ans, c) /\ s = ans.status[c]
        OBVIOUS
    <2>1. k \in new /\ k[1] = c /\ c \in DOMAIN p.payCoinSelection
        BY <1>3 DEF News, AnswersAbort
    <2>2. rs[k] = [state |-> RefundState(s), credit |-> x]
        BY <2>1 DEF RefundsAfter, AnswersAbort
    <2>3. RefundState(s) \in {"Pending", "Applied", "Failed"} /\ (s = "pending" => RefundState(s) = "Pending")
        BY DEF RefundState
    <2>4. s # "pending" => x >= p.payCoinSelection[c] - RefundFee
        BY AbortCredits
    <2>. QED
        BY <1>1, <2>1, <2>2, <2>3, <2>4 DEF FinalRefund
<1>4. ASSUME NEW k \in DOMAIN rs
      PROVE  /\ rs[k].state \in {"Pending", "Applied", "Failed"}
             /\ k[2] = 0 => FinalRefund(q, k)
    <2>1. CASE k \in new
        BY <1>3, <2>1
    <2>2. CASE k \notin new
        BY <1>1, <1>2, <2>2 DEF AbortKept, FinalRefund
    <2>. QED
        BY <2>1, <2>2
<1>5. ASSUME NEW c \in DOMAIN p.payCoinSelection PROVE <<c, 0>> \in DOMAIN rs
    BY <1>2 DEF News, AnswersAbort, Ignored
<1>6. ASSUME q.abortStatus = "AbortFinished" PROVE AllFinal(q)
    <2>1. CASE QueryDone(p, rs)
        BY <1>1, <1>5, <2>1 DEF QueryDone, AllFinal
    <2>2. CASE AllFinal(p)
        <3>1. ASSUME NEW c \in DOMAIN p.payCoinSelection PROVE c \notin N
            BY <2>2 DEF AllFinal, AbortKept, News, Ignored, AnswersAbort
        <3>2. new = {}
            BY <3>1 DEF News, AnswersAbort
        <3>. QED
            BY <1>1, <1>2, <2>2, <3>2 DEF AllFinal
    <2>. QED
        BY <1>1, <1>6, <2>1, <2>2 DEF AbortKept
<1>7. q.abortStatus \in {"AbortRefund", "AbortFinished"}
    BY <1>1 DEF AbortKept
<1>. QED
    BY <1>1, <1>4, <1>6, <1>7 DEF AbortKept

(* acceptRefunds *)
LEMMA AcceptKept ==
    ASSUME WalletInv, LedgerInv, AbortInv, NEW t \in tasks, AcceptRefunds(t)
    PROVE  AbortInv'
<1>. DEFINE o == Key(t)
            ans == Loc(t)
            p == db.purchases[o]
            S == Credited(p, ans)
<1>1. /\ Op(t) = "refund" /\ Pc(t) = "accept" /\ tasks' \subseteq tasks /\ raced' = raced
      /\ o \in Orders /\ PurchaseOk(p) /\ HasPurchase(o)
    BY PaysPurchase DEF AcceptRefunds, At, Done
<1>2. /\ AnswerOk(db, raced, ans, o) /\ SelectionOk(db, raced, p.payCoinSelection, o) /\ CoinBooks(db)
    BY <1>1, BoughtSelection DEF LedgerInv, LedgerTask, RefundTask, LedgerTables, Books
<1>3. PICK e : AnswerStored(e, o, ans)
    BY DEF AnswerStored
<1>4. db' = e \/ db' = CreateRefreshGroup(e, SetToSeq(S))
    BY <1>3 DEF AcceptRefunds, AnswerStored
<1>. PICK q : q = Answered(p, ans)
    OBVIOUS
<1>5. DbShape(e) /\ e.purchases[o] = q /\ \A u \in Orders \ {o} : e.purchases[u] = db.purchases[u]
    <2>. PICK f : f = CreditCoins(p, ans)
        OBVIOUS
    <2>. PICK s : s = [db.purchases EXCEPT ![o] = q]
        OBVIOUS
    <2>1. e = [db EXCEPT !.purchases[o] = q, !.coins = f]
        BY <1>3 DEF AnswerStored
    <2>2. DbShape(e) /\ e.purchases = s
        BY <2>1 DEF WalletInv, TablesInv, DbShape
    <2>3. s[o] = q /\ \A u \in Orders \ {o} : s[u] = db.purchases[u]
        BY <1>1 DEF WalletInv, TablesInv, PurchaseInv, IsFunction
    <2>. QED
        BY <2>2, <2>3
<1>6. db'.purchases = e.purchases
    <2>1. CreateRefreshGroup(e, SetToSeq(S)).purchases = e.purchases
        BY <1>5, GroupsElsewhere
    <2>. QED
        BY <1>4, <2>1
<1>7. OthersBought(o) /\ db'.purchases[o] = q
    BY <1>5, <1>6 DEF OthersBought
<1>8. ASSUME Unpaid(db', raced', o) PROVE AbortsTo(o, q)
    <2>1. q.paid = p.paid /\ q.payCoinSelection = p.payCoinSelection
        BY <1>1, AnswerWritten
    <2>2. Unpaid(db, raced, o)
        BY <1>1, <1>7, <1>8, <2>1 DEF Unpaid, HasPurchase
    <2>3. p.abortStatus # "None" /\ AnswersAbort(p, ans) /\ AbortKept(p)
        BY <1>1, <2>2 DEF AbortInv, AbortsOk, AbortTask, Aborts
    <2>4. AbortKept(q) /\ q.abortStatus # "None"
        BY <1>1, <1>2, <2>3, AnswerAborts
    <2>5. ASSUME NEW u \in tasks', Op(u) = "refund", Key(u) = o PROVE Aborts(q, Pc(u), Loc(u))
        <3>1. Aborts(p, Pc(u), Loc(u))
            BY <1>1, <2>2, <2>5 DEF AbortInv, AbortTask
        <3>. QED
            BY <2>1, <2>4, <3>1 DEF Aborts, AnswersAbort
    <2>. QED
        BY <2>4, <2>5 DEF AbortsTo
<1>9. NewRefundTasks(o)
    BY <1>1 DEF NewRefundTasks
<1>. QED
    BY <1>1, <1>7, <1>8, <1>9, OneOrderKept

-----------------------------------------------------------------------------
(* The wallet starts with at most one purchase, which is neither refunded nor aborted.            *)
NoAborts(d) == \A o \in Orders : d.purchases[o] # Absent => AbortKept(d.purchases[o])

(* In the refund scene it is a new purchase;                                                   *)
LEMMA ConfirmedAborts == NoAborts(Confirmed(Withdrawal(2)))
<1>. PICK d : d = Withdrawal(2)
    OBVIOUS
<1>. PICK b : b = FirstBought(d)
    OBVIOUS
<1>. PICK out : out = Confirmed(d)
    OBVIOUS
<1>. PICK new : new = NewPurchase(FirstSelection)
    OBVIOUS
<1>0. 2 \in Nat
    OBVIOUS
<1>1. /\ FirstTables(d, 2) /\ FirstWallet(d, 2) /\ NothingBought(d) /\ d.refreshGroups = <<>>
      /\ DOMAIN d.coins = FirstCoins(2)
    BY <1>0, FirstWithdrawal, WithdrawalStarts
<1>2. DbShape(b) /\ CoinsOk(b.coins) /\ IsList(b.refreshGroups) /\ Bought(b) = {2}
    BY <1>1, FirstBoughtFields
<1>3. b.purchases[2] = new
    <2>0. DbShape(d) /\ IsFunction(d.purchases) /\ DOMAIN d.purchases = Orders /\ 2 \in Orders
        BY <1>1, ScenesAssumption DEF FirstTables
    <2>. PICK props : props = [d.proposals EXCEPT ![2].status = "ACCEPTED"]
        OBVIOUS
    <2>. PICK u : u = [d.purchases EXCEPT ![2] = new]
        OBVIOUS
    <2>1. b = [d EXCEPT !.proposals = props, !.purchases = u]
        BY <2>0 DEF FirstBought, DbShape
    <2>2. b.purchases = u
        BY <2>0, <2>1 DEF DbShape
    <2>. QED
        BY <2>0, <2>2
<1>4. out.purchases = b.purchases
    <2>. PICK e : e = ApplyCoinSpend(b, FirstSelection, AllocationId(2))
        OBVIOUS
    <2>1. SameRefreshes(e, out)
        BY <1>1, ConfirmedIs
    <2>2. e.purchases = b.purchases
        BY <1>2, CoinsSpent DEF Spends
    <2>. QED
        BY <2>1, <2>2 DEF SameRefreshes
<1>5. AbortKept(new)
    BY ListFacts DEF NewPurchase, AbortKept
<1>. QED
    BY <1>2, <1>3, <1>4, <1>5 DEF NoAborts, Bought

(* in the others there is none.                                                                *)
LEMMA AbortInit ==
    ASSUME Init
    PROVE  AbortInv
<1>1. scene \in AllScenes /\ db = FirstDb /\ tasks = {}
    BY SceneAssumption DEF Init
<1>2. NoAborts(db)
    <2>0. 2 \in Nat /\ Coins \in Nat
        BY CoinsAssumption
    <2>1. CASE scene \in {"withdraw", "tip", "restore"}
        <3>1. db = NewWallet \/ db = [NewWallet EXCEPT !.reserve.status = "QUERYING_STATUS"]
            BY <1>1, <2>1 DEF FirstDb
        <3>2. NothingBought(db)
            BY <3>1, NewWalletStarts
        <3>. QED
            BY <3>2 DEF NothingBought, NoAborts
    <2>2. CASE scene = "refund"
        <3>1. db = Confirmed(Withdrawal(2))
            BY <1>1, <2>2 DEF FirstDb
        <3>. QED
            BY <3>1, ConfirmedAborts
    <2>3. CASE scene = "recoup"
        <3>1. db = Refreshed(Withdrawal(2), WithdrawCoin(1, 1), 1)
            BY <1>1, <2>3 DEF FirstDb
        <3>2. FirstTables(Withdrawal(2), 2) /\ FirstWallet(Withdrawal(2), 2) /\ NothingBought(Withdrawal(2))
            BY <2>0, FirstWithdrawal, WithdrawalStarts
        <3>3. db.purchases = Withdrawal(2).purchases
            BY <3>1, <3>2, RefreshedFields DEF RefreshedFrom
        <3>. QED
            BY <3>2, <3>3 DEF NothingBought, NoAborts
    <2>4. CASE scene \in {"shop", "refresh", "pay", "deposit"}
        <3>1. db = Withdrawal(2) \/ db = Withdrawal(Coins)
            BY <1>1, <2>4 DEF FirstDb
        <3>2. NothingBought(db)
            BY <2>0, <3>1, WithdrawalStarts
        <3>. QED
            BY <3>2 DEF NothingBought, NoAborts
    <2>. QED
        BY <1>1, <2>1, <2>2, <2>3, <2>4 DEF AllScenes
<1>. QED
    BY <1>1, <1>2 DEF AbortInv, AbortsOk, NoAborts, Unpaid

-----------------------------------------------------------------------------
(* Every step keeps the invariant: those of the pending operations, *)
LEMMA AbortBackground ==
    ASSUME WalletInv, LedgerInv, AbortInv, Background
    PROVE  AbortInv'
<1>1. CASE RefreshNext
    BY <1>1, RefreshesElsewhere, ElsewhereKept
<1>2. CASE PayNext
    <2>1. CASE \E o \in Orders : ProcessDownloadProposal(o) \/ ProcessPurchasePay(o)
        BY <2>1, RequestsElsewhere, ElsewhereKept
    <2>2. ASSUME NEW t \in tasks,
                 \/ ClaimOrder(t) \/ FailProposalPermanently(t) \/ StoreContractTerms(t)
                 \/ SelectCoins(t) \/ PostPay(t) \/ PostPaid(t) \/ HandleInsufficientFunds(t)
                 \/ SelectCoinsAgain(t)
          PROVE  AbortInv'
        BY <2>2, PromisesElsewhere, ElsewhereKept
    <2>3. ASSUME NEW t \in tasks,
                 \/ RecordConfirmPay(t) \/ StoreFirstPaySuccess(t) \/ StorePayReplaySuccess(t)
                 \/ FreezePay(t) \/ StoreReselection(t)
          PROVE  AbortInv'
        BY <2>3, ConfirmKept, PaymentsKept, ReselectionKept
    <2>. QED
        BY <1>2, <2>1, <2>2, <2>3 DEF PayNext
<1>3. CASE RefundNext
    BY <1>3, PurchaseRequestsKept, AnswersKept, AcceptKept DEF RefundNext
<1>4. CASE ReserveNext
    <2>1. CASE ProcessReserve
        BY <2>1, RequestsElsewhere, ElsewhereKept
    <2>2. CASE \E g \in DOMAIN db.withdrawalGroups : ProcessWithdrawGroup(g)
        BY <2>2, RequestsElsewhere, ElsewhereKept
    <2>3. ASSUME NEW t \in tasks,
                 \/ BankStatus(t) \/ StoreBankStatus(t) \/ PostRegistration(t) \/ StoreRegistration(t)
                 \/ QueryReserve(t) \/ AfterWithdraw(t)
          PROVE  AbortInv'
        BY <2>3, PromisesElsewhere, ElsewhereKept
    <2>4. ASSUME NEW t \in tasks,
                 \/ StoreReserve(t) \/ PlanchetGenerate(t) \/ PlanchetRequest(t) \/ StoreCoin(t)
                 \/ FinishWithdraw(t)
          PROVE  AbortInv'
        BY <2>4, WithdrawalsElsewhere, ElsewhereKept
    <2>. QED
        BY <1>4, <2>1, <2>2, <2>3, <2>4 DEF ReserveNext
<1>5. CASE RecoupNext
    BY <1>5, RecoupsElsewhere, ElsewhereKept
<1>6. CASE DepositNext
    <2>1. CASE \E g \in DOMAIN db.depositGroups : ProcessDepositGroup(g)
        BY <2>1, RequestsElsewhere, ElsewhereKept
    <2>2. CASE ~\E g \in DOMAIN db.depositGroups : ProcessDepositGroup(g)
        BY <1>6, <2>2, DepositsElsewhere, PromisesElsewhere, ElsewhereKept DEF DepositNext
    <2>. QED
        BY <2>1, <2>2
<1>7. CASE TipNext
    BY <1>7, RequestsElsewhere, DepositsElsewhere, ElsewhereKept DEF TipNext
<1>8. CASE Crash
    BY <1>8, RequestsElsewhere, ElsewhereKept
<1>. QED
    BY <1>1, <1>2, <1>3, <1>4, <1>5, <1>6, <1>7, <1>8 DEF Background

(* those of the user, the merchant and the bank, *)
LEMMA AbortUser ==
    ASSUME WalletInv, LedgerInv, AbortInv, PayUser \/ ShopUser \/ RefundUser \/ ReserveUser \/ OtherUser
    PROVE  AbortInv'
<1>0. 1 \in Orders /\ 2 \in Orders /\ 3 \in Orders
    BY ScenesAssumption
<1>1. CASE PayUser
    BY <1>1, RequestsElsewhere, RefreshesElsewhere, RecoupsElsewhere, ElsewhereKept DEF PayUser
<1>2. CASE ShopUser
    <2>1. PICK o \in {1, 2} : StartDownloadProposal(o) \/ RefuseProposal(o) \/ ConfirmPay(o)
        BY <1>2 DEF ShopUser
    <2>. QED
        BY <2>1, RequestsElsewhere, ElsewhereKept
<1>3. CASE RefundUser
    <2>1. CASE GrantRefund(2)
        BY <2>1, RequestsElsewhere, ElsewhereKept
    <2>. QED
        BY <1>0, <1>3, <2>1, PurchaseRequestsKept DEF RefundUser
<1>4. CASE ReserveUser
    BY <1>4, RequestsElsewhere, ElsewhereKept DEF ReserveUser
<1>5. CASE OtherUser
    <2>1. CASE \E t \in tasks : StoreTip(t, 1)
        BY <2>1, DepositsElsewhere, ElsewhereKept
    <2>2. CASE ~\E t \in tasks : StoreTip(t, 1)
        BY <1>5, <2>2, RequestsElsewhere, RefreshesElsewhere, RecoupsElsewhere, ElsewhereKept DEF OtherUser
    <2>. QED
        BY <2>1, <2>2
<1>. QED
    BY <1>1, <1>2, <1>3, <1>4, <1>5

(* and stutters. *)
LEMMA AbortNext ==
    ASSUME WalletInv, LedgerInv, AbortInv, [Next]_vars
    PROVE  AbortInv'
<1>1. CASE Next
    BY <1>1, AbortBackground, AbortUser DEF Next
<1>2. CASE UNCHANGED vars
    BY <1>2, ElsewhereKept DEF vars, Elsewhere, Refundless
<1>. QED
    BY <1>1, <1>2

(* Whatever happens, an order that is aborted and not hit by a race asks the merchant for nothing  *)
(* but the abort, and what refund.ts has stored as final is back on the coins, but for the fee.   *)
THEOREM AbortBooks == Spec => [](WalletInv /\ LedgerInv /\ AbortInv)
<1>1. Init => WalletInv /\ LedgerInv /\ AbortInv
    BY InitInv, LedgerInit, AbortInit
<1>2. WalletInv /\ LedgerInv /\ AbortInv /\ [Next]_vars => WalletInv' /\ LedgerInv' /\ AbortInv'
    BY NextStep, LedgerNext, AbortNext
<1>. QED
    BY <1>1, <1>2, PTL DEF Spec

(* An abort that acceptRefunds marks as finished has returned every coin of the payment, whatever   *)
(* was lost, answered late, asked twice, or interrupted by a crash.                               *)
THEOREM AbortReturned == Spec => []AbortReturnsCoins
<1>1. AbortInv => AbortReturnsCoins
    <2>1. SUFFICES ASSUME AbortInv, NEW o \in Orders, Unpaid(db, raced, o),
                          db.purchases[o].abortStatus = "AbortFinished",
                          NEW c \in DOMAIN db.purchases[o].payCoinSelection
                   PROVE  LET p == db.purchases[o]
                              k == <<c, 0>> IN
                          /\ k \in DOMAIN p.refunds /\ p.refunds[k].state # "Pending"
                          /\ p.refunds[k].credit >= p.payCoinSelection[c] - RefundFee
        BY DEF AbortReturnsCoins, Purchases, HasPurchase, Unpaid
    <2>2. AbortKept(db.purchases[o]) /\ AllFinal(db.purchases[o])
        BY <2>1 DEF AbortInv, AbortsOk, AbortKept
    <2>. PICK k : k = <<c, 0>>
        OBVIOUS
    <2>3. k \in DOMAIN db.purchases[o].refunds /\ k[1] = c /\ k[2] = 0
        BY <2>1, <2>2 DEF AllFinal
    <2>4. FinalRefund(db.purchases[o], k)
        BY <2>2, <2>3 DEF AbortKept
    <2>. QED
        BY <2>1, <2>2, <2>3, <2>4 DEF AllFinal, FinalRefund
<1>. QED
    BY <1>1, AbortBooks, PTL

-----------------------------------------------------------------------------
(* The exchange's books: what it has on record of coins and of the reserve.                        *)
IncomeOf(x) == x.reserve.credit + SumFunction([r \in x.recoups |-> r.toReserve])
ExchangeBooks(x) ==
    /\ IsFiniteSet(x.deposits) /\ \A p \in x.deposits : p.amount \in Int
    /\ IsFiniteSet(x.melts) /\ \A m \in x.melts : m.amount \in Int /\ m.returned \in Int
    /\ IsFiniteSet(x.recoups) /\ \A r \in x.recoups : r.amount \in Int /\ r.toReserve \in Nat
    /\ IsFiniteSet(x.signed)
    /\ x.reserve = [credit |-> x.reserve.credit] /\ x.reserve.credit \in Nat

(* The wallet's: the coins that its groups plan, and the money that they claim; what another        *)
(* device has withdrawn is known only to the exchange.                                             *)
PlannedIn(ws) == UNION {{WithdrawCoin(g, i) : i \in 1 .. ws[g].count} : g \in DOMAIN ws}
ClaimsIn(ws) == [g \in DOMAIN ws |-> IF ws[g].deleted THEN 0 ELSE CoinValue * ws[g].count]
ClaimedIn(ws) == SumFunction(ClaimsIn(ws))
Others(x) == IF WithdrawnElsewhere \in x.signed THEN CoinValue ELSE 0

SelectionsInt(d) == \A g \in DOMAIN d.depositGroups : IntAmounts(d.depositGroups[g].payCoinSelection)
CountsOk(ws) == \A g \in DOMAIN ws : ws[g].count \in Nat /\ ws[g].deleted \in BOOLEAN
WithdrawalBooks(d) == CountsOk(d.withdrawalGroups) /\ WithdrawnElsewhere \notin DOMAIN d.planchets

(* As long as the user has deleted no group, the groups claim their coins, and the reserve has the  *)
(* money for them and for the other device.                                                       *)
Covered(ws, x) ==
    /\ \A g \in DOMAIN ws : ~ws[g].deleted
    /\ IsFiniteSet(PlannedIn(ws)) /\ CoinValue * Cardinality(PlannedIn(ws)) <= ClaimedIn(ws)
    /\ ClaimedIn(ws) + Others(x) <= IncomeOf(x)

(* What a promise has been told of the reserve stays true: the money that came in, and the coins     *)
(* of other devices. A promise of a deposit group deposits coins of its selection.                  *)
HistoryOk(h, x) ==
    /\ h.plus \in Int /\ h.plus <= IncomeOf(x) /\ IsFiniteSet(h.withdrawn)
    /\ WithdrawnElsewhere \in x.signed => WithdrawnElsewhere \in h.withdrawn
Heeds(op, key, pc, loc, d, x) ==
    /\ op = "deposit" => loc.left \subseteq DOMAIN d.depositGroups[key].payCoinSelection
    /\ op = "reserve" /\ pc = "history" => HistoryOk(loc, x)
ReserveTask(t, d, x) == Heeds(Op(t), Key(t), Pc(t), Loc(t), d, x)

ReserveInv ==
    /\ ExchangeBooks(exchange) /\ SelectionsInt(db) /\ WithdrawalBooks(db)
    /\ <<"reserve", 1>> \notin raced => Covered(db.withdrawalGroups, exchange)
    /\ \A t \in tasks : ReserveTask(t, db, exchange)

-----------------------------------------------------------------------------
(* What the reserve was paid, and what groups claim of it, are numbers. *)
LEMMA IncomeNat ==
    ASSUME NEW x, ExchangeBooks(x)
    PROVE  IncomeOf(x) \in Nat /\ SumFunction([r \in x.recoups |-> r.toReserve]) \in Nat
<1>. DEFINE f == [r \in x.recoups |-> r.toReserve]
<1>1. IsFiniteSet(DOMAIN f) /\ \A r \in DOMAIN f : f[r] \in Nat
    BY DEF ExchangeBooks
<1>2. SumFunction(f) \in Nat
    BY <1>1, SumIsNat
<1>. QED
    BY <1>2 DEF IncomeOf, ExchangeBooks

(* The claims of the groups are integers, and can be summed. *)
LEMMA ClaimsInt ==
    ASSUME NEW ws, IsList(ws), CountsOk(ws)
    PROVE  Summable(ClaimsIn(ws)) /\ ClaimedIn(ws) \in Int /\ DOMAIN ws = 1 .. Len(ws)
<1>1. DOMAIN ws = 1 .. Len(ws) /\ IsFiniteSet(1 .. Len(ws))
    <2>1. Len(ws) \in Nat /\ DOMAIN ws = 1 .. Len(ws)
        BY DEF IsList
    <2>. QED
        BY <2>1, FS_Interval
<1>2. ASSUME NEW g \in DOMAIN ws PROVE ClaimsIn(ws)[g] \in Int
    BY FeeAssumption DEF CountsOk, ClaimsIn
<1>3. DOMAIN ClaimsIn(ws) = DOMAIN ws
    BY DEF ClaimsIn
<1>4. Summable(ClaimsIn(ws))
    BY <1>1, <1>2, <1>3 DEF Summable
<1>. QED
    BY <1>1, <1>4, SumIsInt DEF ClaimedIn

-----------------------------------------------------------------------------
(* What a step leaves of the tables                                                             *)
SelectionsStay(d, e) ==
    \A g \in DOMAIN d.depositGroups :
        e.depositGroups[g].payCoinSelection = d.depositGroups[g].payCoinSelection
SameCounts(ws, vs) ==
    /\ DOMAIN vs = DOMAIN ws
    /\ \A g \in DOMAIN ws : vs[g].count = ws[g].count /\ vs[g].deleted = ws[g].deleted
SameReserve(d, e) ==
    /\ SelectionsStay(d, e) /\ DOMAIN e.depositGroups = DOMAIN d.depositGroups
    /\ SameCounts(d.withdrawalGroups, e.withdrawalGroups)
    /\ WithdrawnElsewhere \in DOMAIN e.planchets => WithdrawnElsewhere \in DOMAIN d.planchets
ExchangeGrows ==
    /\ ExchangeBooks(exchange') /\ IncomeOf(exchange) <= IncomeOf(exchange')
    /\ WithdrawnElsewhere \in exchange'.signed => WithdrawnElsewhere \in exchange.signed
NewTasksHeed == \A u \in tasks' : u \in tasks \/ ReserveTask(u, db', exchange')

(* A step keeps the invariant if the tables and the exchange's books are in order after it, *)
LEMMA ReserveTablesStep ==
    ASSUME WalletInv, ReserveInv, ExchangeGrows, SelectionsStay(db, db'), SelectionsInt(db'), WithdrawalBooks(db'),
           <<"reserve", 1>> \notin raced' => Covered(db'.withdrawalGroups, exchange'), NewTasksHeed
    PROVE  ReserveInv'
<1>1. IncomeOf(exchange) \in Nat /\ IncomeOf(exchange') \in Nat
    BY IncomeNat DEF ReserveInv, ExchangeGrows
<1>2. ASSUME NEW u \in tasks PROVE ReserveTask(u, db', exchange')
    <2>1. ReserveTask(u, db, exchange) /\ (Op(u) = "deposit" => Key(u) \in DOMAIN db.depositGroups)
        BY DEF ReserveInv, WalletInv, TaskOk, DepositTask
    <2>2. ASSUME NEW h, HistoryOk(h, exchange) PROVE HistoryOk(h, exchange')
        BY <1>1, <2>2 DEF HistoryOk, ExchangeGrows
    <2>. QED
        BY <2>1, <2>2 DEF ReserveTask, Heeds, SelectionsStay
<1>. QED
    BY <1>2 DEF ReserveInv, NewTasksHeed, ExchangeGrows

(* the same if the claims stay the same, *)
LEMMA CountsKept ==
    ASSUME NEW ws, NEW vs, SameCounts(ws, vs)
    PROVE  /\ CountsOk(ws) => CountsOk(vs)
           /\ PlannedIn(vs) = PlannedIn(ws) /\ ClaimsIn(vs) = ClaimsIn(ws)
           /\ (\A g \in DOMAIN ws : ~ws[g].deleted) => \A g \in DOMAIN vs : ~vs[g].deleted
BY DEF SameCounts, CountsOk, PlannedIn, ClaimsIn

(* The invariant survives a step at which the exchange's books only grow, the groups keep their      *)
(* counts, and the promises that are made heed what they read. *)
LEMMA ReserveStep ==
    ASSUME WalletInv, ReserveInv, ExchangeGrows, SameReserve(db, db'), raced \subseteq raced', NewTasksHeed
    PROVE  ReserveInv'
<1>. DEFINE ws == db.withdrawalGroups
            vs == db'.withdrawalGroups
<1>1. SelectionsInt(db')
    BY DEF SameReserve, SelectionsStay, ReserveInv, SelectionsInt
<1>2. CountsOk(ws) /\ IsList(ws) /\ SameCounts(ws, vs)
    BY DEF ReserveInv, WithdrawalBooks, SameReserve, WalletInv, TablesInv, WithdrawInv
<1>3. WithdrawalBooks(db')
    BY <1>2, CountsKept DEF SameReserve, ReserveInv, WithdrawalBooks
<1>4. ASSUME <<"reserve", 1>> \notin raced' PROVE Covered(vs, exchange')
    <2>1. Covered(ws, exchange)
        BY <1>4 DEF ReserveInv
    <2>2. IncomeOf(exchange) \in Nat /\ IncomeOf(exchange') \in Nat /\ IncomeOf(exchange) <= IncomeOf(exchange')
        BY IncomeNat DEF ReserveInv, ExchangeGrows
    <2>3. ClaimedIn(ws) \in Int
        BY <1>2, ClaimsInt
    <2>4. Others(exchange) \in Int /\ Others(exchange') \in Int /\ Others(exchange') <= Others(exchange)
        BY FeeAssumption DEF Others, ExchangeGrows
    <2>5. ClaimedIn(ws) + Others(exchange') <= IncomeOf(exchange')
        <3>1. ClaimedIn(ws) + Others(exchange) <= IncomeOf(exchange)
            BY <2>1 DEF Covered
        <3>. HIDE DEF ws
        <3>. QED
            BY <2>2, <2>3, <2>4, <3>1
    <2>6. PlannedIn(vs) = PlannedIn(ws) /\ ClaimedIn(vs) = ClaimedIn(ws) /\ \A g \in DOMAIN vs : ~vs[g].deleted
        BY <1>2, <2>1, CountsKept DEF ClaimedIn, Covered
    <2>. QED
        BY <2>1, <2>5, <2>6 DEF Covered
<1>. QED
    BY <1>1, <1>3, <1>4, ReserveTablesStep DEF SameReserve

-----------------------------------------------------------------------------
(* The promises that a step starts or moves, if they need not heed what they were told, *)
LEMMA OpsHeed ==
    ASSUME NEW ops, NewOps(ops), "deposit" \notin ops, "reserve" \notin ops
    PROVE  NewTasksHeed
BY DEF NewOps, NewTasksHeed, ReserveTask, Heeds

(* or do, when they start *)
LEMMA StartHeeds ==
    ASSUME NEW op, NEW key, NEW pc, NEW loc, Start(op, key, pc, loc), Heeds(op, key, pc, loc, db', exchange')
    PROVE  NewTasksHeed
<1>1. ASSUME NEW u \in tasks' PROVE u \in tasks \/ ReserveTask(u, db', exchange')
    <2>1. u \in tasks \/ IsTask(u, op, key, pc, loc)
        BY Started
    <2>. QED
        BY <2>1 DEF IsTask, ReserveTask
<1>. QED
    BY <1>1 DEF NewTasksHeed

(* or go on. *)
LEMMA GotoHeeds ==
    ASSUME WalletInv, NEW t \in tasks,
           Done(t) \/ \E pc, loc : Goto(t, pc, loc) /\ Heeds(Op(t), Key(t), pc, loc, db', exchange')
    PROVE  NewTasksHeed
<1>1. ASSUME NEW u \in tasks', u \notin tasks PROVE ReserveTask(u, db', exchange')
    <2>1. TaskShape(t)
        BY DEF WalletInv, TaskOk
    <2>2. PICK pc, loc : Goto(t, pc, loc) /\ Heeds(Op(t), Key(t), pc, loc, db', exchange')
        BY <1>1 DEF Done
    <2>3. IsTask(u, Op(t), Key(t), pc, loc)
        BY <1>1, <2>1, <2>2, GoneTo
    <2>. QED
        BY <2>2, <2>3 DEF IsTask, ReserveTask
<1>. QED
    BY <1>1 DEF NewTasksHeed

(* Promises of the reserve heed what they are told in one place only. *)
LEMMA ReserveGotoHeeds ==
    ASSUME WalletInv, NEW t \in tasks, Op(t) = "reserve",
           Done(t) \/ \E pc, loc : Goto(t, pc, loc) /\ pc # "history"
    PROVE  NewTasksHeed
BY GotoHeeds DEF Heeds

(* A promise of a reserve starts by asking the bank, before it reads the history. *)
LEMMA ReserveStartHeeds ==
    ASSUME NEW key, NEW pc, NEW loc, Start("reserve", key, pc, loc), pc # "history"
    PROVE  NewTasksHeed
BY StartHeeds DEF Heeds

-----------------------------------------------------------------------------
(* A step that changes nothing at the exchange, *)
LEMMA ExchangeSame ==
    ASSUME ReserveInv, exchange' = exchange
    PROVE  ExchangeGrows
<1>1. IncomeOf(exchange) \in Nat
    BY IncomeNat DEF ReserveInv
<1>. QED
    BY <1>1 DEF ReserveInv, ExchangeGrows

(* or writes none of the tables of withdrawals and deposits, *)
LEMMA StockKept ==
    ASSUME NEW d, NEW e, SameStock(d, e)
    PROVE  SameReserve(d, e)
BY DEF SameStock, SameReserve, SelectionsStay, SameCounts

(* keeps the invariant if its promises are in order. *)
LEMMA StockStep ==
    ASSUME WalletInv, ReserveInv, SameStock(db, db'), exchange' = exchange, raced \subseteq raced', NewTasksHeed
    PROVE  ReserveInv'
BY StockKept, ExchangeSame, ReserveStep

(* Requests of the user and the list of pending operations                                       *)
LEMMA ReserveRequests ==
    ASSUME WalletInv, ReserveInv,
           \/ \E o \in Orders :
                 \/ StartDownloadProposal(o) \/ ProcessDownloadProposal(o) \/ RefuseProposal(o)
                 \/ ConfirmPay(o) \/ ProcessPurchasePay(o) \/ ConfirmPayNewSession(o)
                 \/ GrantRefund(o) \/ AutoRefundExpires(o) \/ ApplyRefund(o)
                 \/ AbortFailedPayWithRefund(o) \/ ProcessPurchaseQueryRefund(o)
           \/ BankConfirms \/ BankAborts \/ Crash
           \/ \E g : ProcessWithdrawGroup(g)
           \/ CreateDepositGroup(Price[1]) \/ PrepareTip \/ \E r : AcceptTip(r) \/ ProcessTip(r)
    PROVE  ReserveInv'
<1>. DEFINE Fits(op) == SameStock(db, db') /\ exchange' = exchange /\ raced \subseteq raced' /\ NewOps({op})
<1>0. DbShape(db) /\ SameStock(db, db)
    BY DEF WalletInv, TablesInv, SameStock
<1>1. ASSUME NEW op, tasks' \subseteq tasks PROVE NewOps({op})
    BY <1>1 DEF NewOps
<1>2. ASSUME NEW o, StartDownloadProposal(o) \/ ProcessDownloadProposal(o) PROVE Fits("download")
    <2>1. SameStock(db, db')
        BY <1>0, <1>2, StockFields DEF StartDownloadProposal, ProcessDownloadProposal
    <2>. QED
        BY <1>2, <2>1, StartOps DEF StartDownloadProposal, ProcessDownloadProposal
<1>3. ASSUME NEW o, RefuseProposal(o) \/ GrantRefund(o) \/ AutoRefundExpires(o) PROVE Fits("")
    <2>1. SameStock(db, db')
        BY <1>0, <1>3, StockFields DEF RefuseProposal, GrantRefund, AutoRefundExpires
    <2>. QED
        BY <1>1, <1>3, <2>1 DEF RefuseProposal, GrantRefund, AutoRefundExpires
<1>4. ASSUME NEW o, SubmitPay(o) PROVE NewOps({"pay"})
    BY <1>4, StartOps DEF SubmitPay
<1>5. ASSUME NEW o, ConfirmPay(o) \/ ProcessPurchasePay(o) PROVE Fits("pay") \/ Fits("confirm")
    BY <1>0, <1>4, <1>5, StartOps DEF ConfirmPay, ProcessPurchasePay
<1>6. ASSUME NEW o, ConfirmPayNewSession(o) PROVE Fits("pay")
    <2>1. SameStock(db, db')
        BY <1>0, <1>6, StockFields DEF ConfirmPayNewSession
    <2>. QED
        BY <1>1, <1>4, <1>6, <2>1 DEF ConfirmPayNewSession
<1>7. ASSUME NEW o, NEW q, NEW w, QueryRefund(o, q, w) PROVE NewOps({"refund"})
    BY <1>1, <1>7, StartOps DEF QueryRefund
<1>8. ASSUME NEW o, ApplyRefund(o) \/ ProcessPurchaseQueryRefund(o) \/ AbortFailedPayWithRefund(o) PROVE Fits("refund")
    <2>1. SameStock(db, db')
        BY <1>0, <1>8, StockFields DEF ApplyRefund, ProcessPurchaseQueryRefund, AbortFailedPayWithRefund
    <2>. QED
        BY <1>7, <1>8, <2>1 DEF ApplyRefund, ProcessPurchaseQueryRefund, AbortFailedPayWithRefund
<1>9. ASSUME BankConfirms \/ BankAborts \/ Crash PROVE Fits("")
    BY <1>0, <1>1, <1>9 DEF BankConfirms, BankAborts, Crash
<1>10. ASSUME NEW g, ProcessWithdrawGroup(g) PROVE Fits("withdraw")
    BY <1>0, <1>10, StartOps DEF ProcessWithdrawGroup
<1>11. ASSUME CreateDepositGroup(Price[1]) PROVE Fits("createDeposit")
    BY <1>0, <1>11, StartOps DEF CreateDepositGroup
<1>12. ASSUME PrepareTip PROVE Fits("prepareTip")
    BY <1>0, <1>12, StartOps DEF PrepareTip
<1>13. ASSUME NEW r, AcceptTip(r) \/ ProcessTip(r) PROVE Fits("tip")
    <2>1. SameStock(db, db')
        BY <1>0, <1>13, StockFields DEF AcceptTip, ProcessTip
    <2>. QED
        BY <1>13, <2>1, StartOps DEF AcceptTip, ProcessTip
<1>14. ASSUME NEW op, Fits(op), op \notin {"deposit", "reserve"} PROVE ReserveInv'
    BY <1>14, OpsHeed, StockStep
<1>. HIDE DEF Fits
<1>15. ASSUME NEW o,
              \/ StartDownloadProposal(o) \/ ProcessDownloadProposal(o) \/ RefuseProposal(o)
              \/ ConfirmPay(o) \/ ProcessPurchasePay(o) \/ ConfirmPayNewSession(o)
       PROVE  ReserveInv'
    BY <1>2, <1>3, <1>5, <1>6, <1>14, <1>15
<1>16. ASSUME NEW o,
              \/ GrantRefund(o) \/ AutoRefundExpires(o) \/ ApplyRefund(o)
              \/ AbortFailedPayWithRefund(o) \/ ProcessPurchaseQueryRefund(o)
       PROVE  ReserveInv'
    BY <1>3, <1>8, <1>14, <1>16
<1>17. CASE BankConfirms \/ BankAborts \/ Crash \/ CreateDepositGroup(Price[1]) \/ PrepareTip
    BY <1>9, <1>11, <1>12, <1>14, <1>17
<1>18. CASE (\E g : ProcessWithdrawGroup(g)) \/ \E r : AcceptTip(r) \/ ProcessTip(r)
    BY <1>10, <1>13, <1>14, <1>18
<1>. QED
    BY <1>15, <1>16, <1>17, <1>18

(* Coins that are spent leave these tables alone. *)
LEMMA SpendingStock ==
    ASSUME NEW d, DbShape(d), CoinsOk(d.coins), IsList(d.refreshGroups), NEW sel, NEW id
    PROVE  SameStock(d, ApplyCoinSpend(d, sel, id))
BY CoinsSpent DEF Spends, SameStock

(* Downloads and payments, to the answers and in their transactions                               *)
LEMMA ReservePayments ==
    ASSUME WalletInv, ReserveInv, NEW t \in tasks,
           \/ ClaimOrder(t) \/ FailProposalPermanently(t) \/ StoreContractTerms(t)
           \/ SelectCoins(t) \/ RecordConfirmPay(t) \/ StoreFirstPaySuccess(t) \/ PostPaid(t)
           \/ StorePayReplaySuccess(t) \/ FreezePay(t) \/ HandleInsufficientFunds(t)
           \/ SelectCoinsAgain(t) \/ StoreReselection(t)
    PROVE  ReserveInv'
<1>0. DbShape(db) /\ SameStock(db, db) /\ CoinsOk(db.coins) /\ IsList(db.refreshGroups)
    BY DEF WalletInv, TablesInv, RefreshInv, SameStock
<1>1. ASSUME SameStock(db, db'), UNCHANGED exchange, raced \subseteq raced',
             NewOps({"download"}) \/ NewOps({"confirm"}) \/ NewOps({"pay"})
      PROVE  ReserveInv'
    BY <1>1, OpsHeed, StockStep
<1>2. ASSUME Advances(t), Op(t) \in {"download", "confirm", "pay"}
      PROVE  NewOps({"download"}) \/ NewOps({"confirm"}) \/ NewOps({"pay"})
    BY <1>2, AdvanceOps
<1>3. CASE ClaimOrder(t) \/ SelectCoins(t) \/ PostPaid(t) \/ HandleInsufficientFunds(t) \/ SelectCoinsAgain(t)
    <2>1. Advances(t) /\ Op(t) \in {"download", "confirm", "pay"}
        BY <1>3 DEF ClaimOrder, SelectCoins, PostPaid, HandleInsufficientFunds, SelectCoinsAgain, Advances, At
    <2>2. UNCHANGED <<db, exchange, raced>>
        BY <1>3 DEF ClaimOrder, SelectCoins, PostPaid, HandleInsufficientFunds, SelectCoinsAgain
    <2>. QED
        BY <1>0, <1>1, <1>2, <2>1, <2>2
<1>4. CASE FailProposalPermanently(t) \/ StoreContractTerms(t) \/ FreezePay(t)
    <2>1. SameStock(db, db')
        BY <1>0, <1>4, StockFields DEF FailProposalPermanently, StoreContractTerms, FreezePay
    <2>2. Advances(t) /\ Op(t) \in {"download", "pay"} /\ UNCHANGED <<exchange, raced>>
        BY <1>4 DEF FailProposalPermanently, StoreContractTerms, FreezePay, Advances, At
    <2>. QED
        BY <1>1, <1>2, <2>1, <2>2
<1>5. CASE StoreFirstPaySuccess(t) \/ StorePayReplaySuccess(t)
    <2>1. \E x : db' = db \/ db' = [db EXCEPT !.purchases = x]
        BY <1>5 DEF StoreFirstPaySuccess, StorePayReplaySuccess
    <2>2. SameStock(db, db')
        BY <1>0, <2>1, StockFields
    <2>3. Advances(t) /\ Op(t) = "pay" /\ UNCHANGED <<exchange, raced>>
        BY <1>5 DEF StoreFirstPaySuccess, StorePayReplaySuccess, Advances, At
    <2>. QED
        BY <1>1, <1>2, <2>2, <2>3
<1>6. ASSUME NEW d, (\E x, y : d = [db EXCEPT !.proposals = x, !.purchases = y]) \/ (\E y : d = [db EXCEPT !.purchases = y])
      PROVE  \A sel, id : SameStock(db, ApplyCoinSpend(d, sel, id))
    <2>1. DbShape(d) /\ CoinsOk(d.coins) /\ IsList(d.refreshGroups) /\ SameStock(db, d)
        BY <1>0, <1>6 DEF DbShape, SameStock
    <2>. QED
        BY <2>1, SpendingStock DEF SameStock
<1>7. CASE RecordConfirmPay(t)
    <2>1. \E x, y, sel, id : db' = db \/ db' = ApplyCoinSpend([db EXCEPT !.proposals = x, !.purchases = y], sel, id)
        BY <1>7 DEF RecordConfirmPay
    <2>2. SameStock(db, db')
        BY <1>0, <1>6, <2>1
    <2>3. \A u \in tasks' : u \in tasks \/ \E key, pc, loc : u = Task("pay", key, pc, loc)
        BY <1>7 DEF RecordConfirmPay, Done
    <2>4. NewOps({"pay"})
        BY <2>3, TasksOps
    <2>5. UNCHANGED exchange /\ raced \subseteq raced'
        BY <1>7 DEF RecordConfirmPay
    <2>. QED
        BY <1>1, <2>2, <2>4, <2>5
<1>8. CASE StoreReselection(t)
    <2>1. \E y, sel, id : db' = db \/ db' = ApplyCoinSpend([db EXCEPT !.purchases = y], sel, id)
        BY <1>8 DEF StoreReselection
    <2>2. SameStock(db, db')
        BY <1>0, <1>6, <2>1
    <2>3. Advances(t) /\ Op(t) = "pay" /\ UNCHANGED exchange /\ raced \subseteq raced'
        BY <1>8 DEF StoreReselection, Advances, At
    <2>. QED
        BY <1>1, <1>2, <2>2, <2>3
<1>. QED
    BY <1>3, <1>4, <1>5, <1>7, <1>8

(* Refunds and tips                                                                            *)
LEMMA ReserveRefunds ==
    ASSUME WalletInv, ReserveInv, NEW t \in tasks,
           PollAutoRefund(t) \/ AcceptRefunds(t) \/ StoreTip(t, 1) \/ StoreTipCoins(t)
    PROVE  ReserveInv'
<1>0. DbShape(db) /\ SameStock(db, db)
    BY DEF WalletInv, TablesInv, SameStock
<1>1. SameStock(db, db')
    <2>1. CASE PollAutoRefund(t)
        BY <1>0, <2>1 DEF PollAutoRefund
    <2>2. CASE StoreTip(t, 1)
        BY <1>0, <2>2, StockFields DEF StoreTip
    <2>3. CASE StoreTipCoins(t)
        <3>1. \E x, y : db' = db \/ db' = [db EXCEPT !.tips = x, !.coins = y]
            BY <2>3 DEF StoreTipCoins, TipPickedUp, WithTipCoins
        <3>. QED
            BY <1>0, <3>1, StockFields
    <2>4. CASE AcceptRefunds(t)
        <3>1. PICK d : /\ \E x, y : d = [db EXCEPT !.purchases = x, !.coins = y]
                       /\ db' = d \/ \E cs : db' = CreateRefreshGroup(d, cs)
            BY <2>4 DEF AcceptRefunds
        <3>2. DbShape(d) /\ SameStock(db, d)
            BY <1>0, <3>1 DEF DbShape, SameStock
        <3>3. \A cs : SameStock(d, CreateRefreshGroup(d, cs))
            BY <3>2, GroupsElsewhere
        <3>4. SameStock(d, db')
            BY <3>1, <3>3 DEF SameStock
        <3>. QED
            BY <3>2, <3>4 DEF SameStock
    <2>. QED
        BY <2>1, <2>2, <2>3, <2>4
<1>2. Advances(t) /\ Op(t) \in {"refund", "prepareTip", "tip"} /\ UNCHANGED exchange /\ raced \subseteq raced'
    BY DEF PollAutoRefund, AcceptRefunds, StoreTip, StoreTipCoins, Advances, At
<1>3. NewTasksHeed
    BY <1>2, AdvanceOps, OpsHeed
<1>. QED
    BY <1>1, <1>2, <1>3, StockStep

-----------------------------------------------------------------------------
(* Withdrawals: the groups keep their counts, *)
LEMMA CountsStay ==
    ASSUME WalletInv, NEW s, s = db.withdrawalGroups \/ \E g, yes : s = [db.withdrawalGroups EXCEPT ![g].finished = yes]
    PROVE  SameCounts(db.withdrawalGroups, s)
<1>1. ASSUME NEW g, NEW yes, NEW h \in DOMAIN db.withdrawalGroups,
             s = [db.withdrawalGroups EXCEPT ![g].finished = yes]
      PROVE  s[h].count = db.withdrawalGroups[h].count /\ s[h].deleted = db.withdrawalGroups[h].deleted
    <2>1. WithdrawalShape(db.withdrawalGroups[h])
        BY DEF WalletInv, TablesInv, WithdrawInv
    <2>. QED
        BY <1>1, <2>1 DEF WithdrawalShape
<1>. QED
    BY <1>1 DEF SameCounts

(* and no planchet is that of another device. *)
LEMMA ReserveWithdrawals ==
    ASSUME WalletInv, ReserveInv, NEW t \in tasks, PlanchetGenerate(t) \/ StoreCoin(t) \/ FinishWithdraw(t)
    PROVE  ReserveInv'
<1>. DEFINE Keeps(p) == WithdrawnElsewhere \in DOMAIN p => WithdrawnElsewhere \in DOMAIN db.planchets
<1>1. /\ Op(t) = "withdraw" /\ UNCHANGED exchange /\ raced \subseteq raced' /\ Advances(t)
      /\ Key(t) \in 1 .. Len(db.withdrawalGroups)
    <2>1. Op(t) = "withdraw" /\ UNCHANGED exchange /\ raced \subseteq raced' /\ Advances(t)
        BY DEF PlanchetGenerate, StoreCoin, FinishWithdraw, Storing, At, Advances
    <2>2. Key(t) \in DOMAIN db.withdrawalGroups /\ IsList(db.withdrawalGroups)
        BY <2>1 DEF WalletInv, TaskOk, WithdrawTask, TablesInv, WithdrawInv
    <2>. QED
        BY <2>1, <2>2 DEF IsList
<1>2. \A i : WithdrawCoin(Key(t), i) # WithdrawnElsewhere
    BY <1>1 DEF WithdrawCoin, WithdrawnElsewhere
<1>3. DbShape(db)
    BY DEF WalletInv, TablesInv
<1>4. ASSUME NEW s, SameCounts(db.withdrawalGroups, s), NEW p, Keeps(p),
             db'.withdrawalGroups = s, db'.planchets = p, db'.depositGroups = db.depositGroups
      PROVE  SameReserve(db, db')
    BY <1>4 DEF SameReserve, SelectionsStay
<1>5. ASSUME db' = db PROVE SameReserve(db, db')
    BY <1>5 DEF SameReserve, SelectionsStay, SameCounts
<1>6. ASSUME PlanchetGenerate(t) PROVE SameReserve(db, db')
    <2>. PICK i, p : /\ p = Stored(db.planchets, {WithdrawCoin(Key(t), i)} \ DOMAIN db.planchets, "pending")
                     /\ db' = [db EXCEPT !.planchets = p]
        BY <1>6 DEF PlanchetGenerate
    <2>. PICK new : new = {WithdrawCoin(Key(t), i)} \ DOMAIN db.planchets
        OBVIOUS
    <2>1. p = Stored(db.planchets, new, "pending") /\ db' = [db EXCEPT !.planchets = p]
        OBVIOUS
    <2>2. DOMAIN p = DOMAIN db.planchets \cup new
        BY <2>1 DEF Stored
    <2>3. Keeps(p)
        BY <1>2, <2>2
    <2>4. db'.withdrawalGroups = db.withdrawalGroups /\ db'.planchets = p /\ db'.depositGroups = db.depositGroups
        BY <1>3, <2>1 DEF DbShape
    <2>. QED
        BY <1>4, <2>3, <2>4, CountsStay
<1>7. ASSUME StoreCoin(t), db' # db PROVE SameReserve(db, db')
    <2>1. PICK c, p, f : p = [db.planchets EXCEPT ![c] = "done"] /\ db' = [db EXCEPT !.planchets = p, !.coins = f]
        BY <1>7 DEF StoreCoin
    <2>2. Keeps(p)
        BY <2>1
    <2>3. db'.withdrawalGroups = db.withdrawalGroups /\ db'.planchets = p /\ db'.depositGroups = db.depositGroups
        BY <1>3, <2>1 DEF DbShape
    <2>. QED
        BY <1>4, <2>2, <2>3, CountsStay
<1>8. ASSUME FinishWithdraw(t), db' # db PROVE SameReserve(db, db')
    <2>. PICK yes : yes = TRUE
        OBVIOUS
    <2>1. PICK s : s = [db.withdrawalGroups EXCEPT ![Key(t)].finished = yes] /\ db' = [db EXCEPT !.withdrawalGroups = s]
        BY <1>8 DEF FinishWithdraw
    <2>2. SameCounts(db.withdrawalGroups, s)
        BY <2>1, CountsStay
    <2>3. db'.withdrawalGroups = s /\ db'.planchets = db.planchets /\ db'.depositGroups = db.depositGroups
        BY <1>3, <2>1 DEF DbShape
    <2>. QED
        BY <1>4, <2>2, <2>3
<1>9. SameReserve(db, db')
    BY <1>5, <1>6, <1>7, <1>8
<1>10. NewTasksHeed
    BY <1>1, AdvanceOps, OpsHeed
<1>. QED
    BY <1>1, <1>9, <1>10, ExchangeSame, ReserveStep

-----------------------------------------------------------------------------
(* The reserve: its promise, to the bank's answers and the transactions after them; what the       *)
(* exchange tells it is true,                                                                     *)
LEMMA ReservePromise ==
    ASSUME WalletInv, ReserveInv,
           \/ CreateReserve \/ ProcessReserve \/ ForceQueryReserve
           \/ \E t \in tasks :
                 \/ BankStatus(t) \/ StoreBankStatus(t) \/ PostRegistration(t) \/ StoreRegistration(t)
                 \/ QueryReserve(t) \/ AfterWithdraw(t)
    PROVE  ReserveInv'
<1>0. DbShape(db) /\ SameStock(db, db)
    BY DEF WalletInv, TablesInv, SameStock
<1>1. ASSUME SameStock(db, db'), UNCHANGED <<exchange, raced>>, NewTasksHeed PROVE ReserveInv'
    BY <1>1, StockStep
<1>2. ASSUME tasks' \subseteq tasks PROVE NewTasksHeed
    BY <1>2 DEF NewTasksHeed
<1>3. \A s : Stage(s) # "history"
    BY DEF Stage
<1>4. CASE CreateReserve \/ ProcessReserve \/ ForceQueryReserve
    <2>1. SameStock(db, db')
        <3>1. \E r : db' = db \/ db' = [db EXCEPT !.reserve = r]
            BY <1>4 DEF CreateReserve, ProcessReserve, ForceQueryReserve, Update
        <3>. QED
            BY <1>0, <3>1, StockFields
    <2>2. tasks' \subseteq tasks \/ \E s, loc : Start("reserve", 1, Stage(s), loc)
        BY <1>4 DEF CreateReserve, ProcessReserve, ForceQueryReserve
    <2>3. NewTasksHeed
        BY <1>2, <1>3, <2>2, ReserveStartHeeds
    <2>. QED
        BY <1>1, <1>4, <2>1, <2>3 DEF CreateReserve, ProcessReserve, ForceQueryReserve
<1>5. ASSUME NEW t \in tasks, NEW r, Op(t) = "reserve", Again(t, r) PROVE NewTasksHeed
    BY <1>3, <1>5, ReserveGotoHeeds DEF Again
<1>6. ASSUME NEW t \in tasks, BankStatus(t) \/ StoreBankStatus(t) \/ PostRegistration(t) \/ StoreRegistration(t) \/ AfterWithdraw(t)
      PROVE  ReserveInv'
    <2>1. SameStock(db, db')
        <3>1. \E r : db' = db \/ db' = [db EXCEPT !.reserve = r]
            BY <1>6 DEF BankStatus, StoreBankStatus, PostRegistration, StoreRegistration, AfterWithdraw, Update
        <3>. QED
            BY <1>0, <3>1, StockFields
    <2>2. Op(t) = "reserve" /\ UNCHANGED <<exchange, raced>>
        BY <1>6 DEF BankStatus, StoreBankStatus, PostRegistration, StoreRegistration, AfterWithdraw, At
    <2>3. \/ Done(t) \/ \E pc, loc : Goto(t, pc, loc) /\ pc # "history"
          \/ \E r : Again(t, r)
        BY <1>6 DEF BankStatus, StoreBankStatus, PostRegistration, StoreRegistration, AfterWithdraw
    <2>4. NewTasksHeed
        BY <1>5, <2>2, <2>3, ReserveGotoHeeds
    <2>. QED
        BY <1>1, <2>1, <2>2, <2>4
<1>7. ASSUME NEW t \in tasks, QueryReserve(t) PROVE ReserveInv'
    <2>1. Op(t) = "reserve" /\ UNCHANGED <<db, exchange, raced>>
        BY <1>7 DEF QueryReserve, At
    <2>2. PICK h : h = [plus |-> Credits, withdrawn |-> Withdrawn]
        OBVIOUS
    <2>3. HistoryOk(h, exchange)
        <3>1. Credits = IncomeOf(exchange) /\ IncomeOf(exchange) \in Nat
            BY IncomeNat DEF Credits, IncomeOf, ReserveInv
        <3>2. IsFiniteSet(Withdrawn)
            BY FS_Subset DEF Withdrawn, ReserveInv, ExchangeBooks
        <3>3. WithdrawnElsewhere \in exchange.signed => WithdrawnElsewhere \in Withdrawn
            BY DEF Withdrawn, SourceOf, WithdrawnElsewhere, WithdrawCoin
        <3>. QED
            BY <2>2, <3>1, <3>2, <3>3 DEF HistoryOk
    <2>4. Done(t) \/ Goto(t, "history", h) \/ \E r : Again(t, r)
        BY <1>7, <2>2 DEF QueryReserve
    <2>5. Heeds(Op(t), Key(t), "history", h, db', exchange')
        BY <2>1, <2>3 DEF Heeds
    <2>6. NewTasksHeed
        BY <1>5, <2>1, <2>4, <2>5, GotoHeeds
    <2>. QED
        BY <1>0, <1>1, <2>1, <2>6
<1>. QED
    BY <1>4, <1>6, <1>7

(* the transfer only adds money, *)
LEMMA ReserveTransfer ==
    ASSUME WalletInv, ReserveInv, TransferArrives(2 * CoinValue)
    PROVE  ReserveInv'
<1>. PICK x : x = 2 * CoinValue
    OBVIOUS
<1>1. /\ exchange' = [exchange EXCEPT !.reserve.credit = x] /\ exchange.reserve.credit = 0
      /\ UNCHANGED <<db, tasks, raced>>
    BY DEF TransferArrives
<1>2. x \in Nat
    BY FeeAssumption
<1>3. ExchangeShape /\ ExchangeBooks(exchange)
    BY DEF WalletInv, TablesInv, ReserveInv
<1>4. /\ exchange'.deposits = exchange.deposits /\ exchange'.melts = exchange.melts
      /\ exchange'.recoups = exchange.recoups /\ exchange'.signed = exchange.signed
      /\ exchange'.reserve = [credit |-> x]
    BY <1>1, <1>3 DEF ExchangeShape, ExchangeBooks
<1>5. ExchangeBooks(exchange')
    BY <1>2, <1>3, <1>4 DEF ExchangeBooks
<1>6. IncomeOf(exchange) <= IncomeOf(exchange')
    <2>1. SumFunction([r \in exchange.recoups |-> r.toReserve]) \in Nat
        BY <1>3, IncomeNat
    <2>. QED
        BY <1>1, <1>2, <1>4, <2>1 DEF IncomeOf
<1>7. SameReserve(db, db') /\ NewTasksHeed
    BY <1>1 DEF SameReserve, SelectionsStay, SameCounts, NewTasksHeed
<1>. QED
    BY <1>1, <1>4, <1>5, <1>6, <1>7, ReserveStep DEF ExchangeGrows

(* and a group that the user deletes makes the reserve one that is hit by a race. *)
LEMMA ReserveDeletion ==
    ASSUME WalletInv, ReserveInv, NEW g, DeleteWithdrawal(g)
    PROVE  ReserveInv'
<1>. PICK yes : yes = TRUE
    OBVIOUS
<1>1. PICK s : s = [db.withdrawalGroups EXCEPT ![g].deleted = yes] /\ db' = [db EXCEPT !.withdrawalGroups = s]
    BY DEF DeleteWithdrawal
<1>2. UNCHANGED <<tasks, exchange>> /\ raced' = raced \cup {<<"reserve", 1>>}
    BY DEF DeleteWithdrawal
<1>3. db'.withdrawalGroups = s /\ db'.planchets = db.planchets /\ db'.depositGroups = db.depositGroups
    BY <1>1 DEF WalletInv, TablesInv, DbShape
<1>4. CountsOk(s)
    <2>1. ASSUME NEW h \in DOMAIN s PROVE s[h].count \in Nat /\ s[h].deleted \in BOOLEAN
        <3>1. WithdrawalShape(db.withdrawalGroups[h]) /\ db.withdrawalGroups[h].count \in Nat
              /\ db.withdrawalGroups[h].deleted \in BOOLEAN
            BY <1>1 DEF WalletInv, TablesInv, WithdrawInv, ReserveInv, WithdrawalBooks, CountsOk
        <3>2. s[h].count = db.withdrawalGroups[h].count
            BY <1>1, <3>1 DEF WithdrawalShape
        <3>3. s[h].deleted = db.withdrawalGroups[h].deleted \/ s[h].deleted = yes
            BY <1>1, <3>1 DEF WithdrawalShape
        <3>. QED
            BY <3>1, <3>2, <3>3, Zenon
    <2>. QED
        BY <2>1 DEF CountsOk
<1>5. SelectionsStay(db, db') /\ SelectionsInt(db') /\ WithdrawalBooks(db') /\ NewTasksHeed
    BY <1>2, <1>3, <1>4 DEF SelectionsStay, SelectionsInt, WithdrawalBooks, NewTasksHeed, ReserveInv
<1>. QED
    BY <1>2, <1>5, ExchangeSame, ReserveTablesStep

-----------------------------------------------------------------------------
(* The coins that a group of n coins plans. *)
GroupCoins(g, n) == {WithdrawCoin(g, i) : i \in 1 .. n}

(* The coins of a group are distinct: there are as many as it counts. *)
LEMMA GroupCounts ==
    ASSUME NEW g, NEW n \in Nat
    PROVE  IsFiniteSet(GroupCoins(g, n)) /\ Cardinality(GroupCoins(g, n)) = n
<1>1. IsFiniteSet(1 .. n) /\ Cardinality(1 .. n) = n
    BY FS_Interval
<1>. PICK f : f = [i \in 1 .. n |-> WithdrawCoin(g, i)]
    OBVIOUS
<1>2. f \in Surjection(1 .. n, GroupCoins(g, n))
    BY DEF Surjection, GroupCoins
<1>3. f \in Injection(1 .. n, GroupCoins(g, n))
    BY DEF Injection, IsInjective, GroupCoins, WithdrawCoin
<1>. QED
    BY <1>1, <1>2, <1>3, FS_Surjection

(* A list with one more group. *)
Appended(ws, vs, new) == vs = Append(ws, new)

(* A group that is added claims and plans its coins. *)
LEMMA GroupClaims ==
    ASSUME NEW ws, IsList(ws), CountsOk(ws), NEW new, new.count \in Nat, new.deleted = FALSE,
           NEW vs, Appended(ws, vs, new)
    PROVE  /\ CountsOk(vs) /\ ClaimedIn(vs) = ClaimedIn(ws) + CoinValue * new.count
           /\ PlannedIn(vs) = PlannedIn(ws) \cup GroupCoins(Len(ws) + 1, new.count)
           /\ (\A g \in DOMAIN ws : ~ws[g].deleted) => \A g \in DOMAIN vs : ~vs[g].deleted
<1>. PICK n : n = Len(ws) + 1
    OBVIOUS
<1>1. /\ DOMAIN vs = DOMAIN ws \cup {n} /\ n \notin DOMAIN ws /\ IsList(vs)
      /\ vs[n] = new /\ \A g \in DOMAIN ws : vs[g] = ws[g]
    BY AppendList DEF Appended
<1>2. CountsOk(vs)
    BY <1>1 DEF CountsOk
<1>3. PutAt(ClaimsIn(ws), ClaimsIn(vs), n) /\ ClaimsIn(vs)[n] = CoinValue * new.count
    BY <1>1 DEF PutAt, ClaimsIn
<1>4. ClaimedIn(vs) = ClaimedIn(ws) + CoinValue * new.count
    BY <1>2, <1>1, <1>3, ClaimsInt, SumPut DEF ClaimedIn
<1>5. PlannedIn(vs) = PlannedIn(ws) \cup GroupCoins(n, new.count)
    BY <1>1 DEF PlannedIn, GroupCoins
<1>. QED
    BY <1>1, <1>2, <1>4, <1>5

(* Products, which the provers treat apart *)
LEMMA Products ==
    ASSUME NEW v \in Nat \ {0}, NEW x \in Nat, NEW y \in Nat
    PROVE  /\ v * x \in Nat /\ v * (x + y) = v * x + v * y /\ (x <= y => v * x <= v * y)
           /\ x \div v \in Nat /\ v * (x \div v) <= x /\ v * 1 = v
OBVIOUS

(* If there is money for it, it is covered as well. *)
LEMMA GroupCovered ==
    ASSUME NEW ws, IsList(ws), CountsOk(ws), NEW x, ExchangeBooks(x), Covered(ws, x),
           NEW new, new.count \in Nat, new.deleted = FALSE, NEW vs, Appended(ws, vs, new),
           ClaimedIn(ws) + CoinValue * new.count + Others(x) <= IncomeOf(x)
    PROVE  Covered(vs, x)
<1>. DEFINE S == PlannedIn(ws)
            T == GroupCoins(Len(ws) + 1, new.count)
            n == new.count
<1>1. /\ ClaimedIn(vs) = ClaimedIn(ws) + CoinValue * n /\ PlannedIn(vs) = S \cup T
      /\ \A g \in DOMAIN vs : ~vs[g].deleted
    BY GroupClaims DEF Covered
<1>2. IsFiniteSet(T) /\ Cardinality(T) = n
    BY GroupCounts
<1>3. IsFiniteSet(S) /\ CoinValue * Cardinality(S) <= ClaimedIn(ws) /\ ClaimedIn(ws) \in Int
    BY ClaimsInt DEF Covered
<1>4. PICK a, b, c : a = Cardinality(S \cup T) /\ b = Cardinality(S) /\ c = Cardinality(S \cap T)
    OBVIOUS
<1>5. IsFiniteSet(S \cup T) /\ a = b + n - c
    BY <1>2, <1>3, <1>4, FS_Union
<1>6. a \in Nat /\ b \in Nat /\ c \in Nat
    BY <1>3, <1>4, <1>5, FS_Subset, FS_CardinalityType
<1>7. CoinValue * a <= CoinValue * b + CoinValue * n
    <2>. HIDE DEF n
    <2>1. n \in Nat /\ a <= b + n /\ b + n \in Nat
        BY <1>5, <1>6 DEF n
    <2>2. CoinValue * a <= CoinValue * (b + n)
        BY <1>6, <2>1, Products, FeeAssumption
    <2>3. CoinValue * (b + n) = CoinValue * b + CoinValue * n
        BY <1>6, <2>1, Products, FeeAssumption
    <2>. QED
        BY <2>2, <2>3
<1>8. CoinValue * a <= ClaimedIn(vs)
    <2>1. CoinValue * a \in Nat /\ CoinValue * b \in Nat /\ CoinValue * n \in Nat
        BY <1>6, Products, FeeAssumption
    <2>2. CoinValue * b <= ClaimedIn(ws)
        BY <1>3, <1>4
    <2>. HIDE DEF n
    <2>. QED
        BY <1>1, <1>3, <1>7, <2>1, <2>2
<1>. QED
    BY <1>1, <1>4, <1>5, <1>8 DEF Covered

(* What the groups and the other device claim, and the group that is added claims no more than is    *)
(* left of the money that came in.                                                                *)
LEMMA UnclaimedLeft ==
    ASSUME WalletInv, ReserveInv, NEW h, HistoryOk(h, exchange), NEW n, n = Unclaimed(h) \div CoinValue, n # 0
    PROVE  n \in Nat /\ ClaimedIn(db.withdrawalGroups) + CoinValue * n + Others(exchange) <= IncomeOf(exchange)
<1>. DEFINE unknown == {c \in h.withdrawn : c \notin DOMAIN db.planchets}
<1>. PICK claimed : claimed = ClaimedIn(db.withdrawalGroups)
    OBVIOUS
<1>. PICK k : k = Cardinality(unknown)
    OBVIOUS
<1>1. claimed \in Int /\ Claims = claimed
    BY ClaimsInt DEF WalletInv, TablesInv, WithdrawInv, ReserveInv, WithdrawalBooks, Claims, ClaimedIn, ClaimsIn
<1>2. k \in Nat /\ CoinValue \in Nat \ {0} /\ Others(exchange) \in Nat /\ Others(exchange) <= CoinValue * k
    <2>1. IsFiniteSet(unknown)
        BY FS_Subset DEF HistoryOk
    <2>2. k \in Nat
        BY <2>1, FS_CardinalityType
    <2>3. WithdrawnElsewhere \in exchange.signed => WithdrawnElsewhere \in unknown
        BY DEF HistoryOk, ReserveInv, WithdrawalBooks
    <2>4. WithdrawnElsewhere \in unknown => k >= 1
        BY <2>1, <2>2, FS_EmptySet
    <2>. HIDE DEF unknown
    <2>5. k >= 1 => CoinValue <= CoinValue * k
        BY <2>2, FeeAssumption, Products
    <2>. QED
        BY <2>2, <2>3, <2>4, <2>5, FeeAssumption, Products DEF Others
<1>3. PICK x : x = Sub(h.plus, claimed + CoinValue * k) /\ n = x \div CoinValue
    BY <1>1 DEF Unclaimed
<1>. HIDE DEF unknown
<1>4. h.plus \in Int /\ h.plus <= IncomeOf(exchange) /\ IncomeOf(exchange) \in Nat
    BY IncomeNat DEF HistoryOk, ReserveInv
<1>5. CoinValue * k \in Nat
    BY <1>2, Products
<1>6. x \in Nat /\ (x # 0 => x = h.plus - (claimed + CoinValue * k))
    BY <1>1, <1>3, <1>4, <1>5 DEF Sub
<1>7. n \in Nat /\ CoinValue * n \in Nat /\ CoinValue * n <= x /\ x # 0
    BY <1>2, <1>3, <1>6, Products
<1>8. CoinValue * n + claimed + CoinValue * k <= IncomeOf(exchange)
    BY <1>1, <1>4, <1>5, <1>6, <1>7
<1>. QED
    BY <1>1, <1>2, <1>4, <1>5, <1>7, <1>8

(* updateReserve: the new group is covered by what is left. *)
LEMMA ReserveStored ==
    ASSUME WalletInv, ReserveInv, NEW t \in tasks, StoreReserve(t)
    PROVE  ReserveInv'
<1>. DEFINE ws == db.withdrawalGroups
            vs == db'.withdrawalGroups
<1>. PICK count : count = IF Offered = {} THEN 0 ELSE Unclaimed(Loc(t)) \div CoinValue
    OBVIOUS
<1>. PICK g : g = Len(db.withdrawalGroups) + 1
    OBVIOUS
<1>. PICK dormant : dormant = [db.reserve EXCEPT !.status = "DORMANT"]
    OBVIOUS
<1>. PICK no : no = FALSE
    OBVIOUS
<1>. PICK new : new = [count |-> count, denom |-> NewDenom, finished |-> no, deleted |-> no]
    OBVIOUS
<1>1. Op(t) = "reserve" /\ Pc(t) = "history" /\ TaskShape(t) /\ UNCHANGED <<exchange, raced>>
    BY DEF StoreReserve, At, WalletInv, TaskOk
<1>2. CASE count = 0
    <2>1. db' = [db EXCEPT !.reserve = dormant] /\ Done(t)
        BY <1>2 DEF StoreReserve, Update
    <2>2. SameStock(db, db')
        BY <2>1, StockFields DEF WalletInv, TablesInv
    <2>. QED
        BY <1>1, <2>1, <2>2, ReserveGotoHeeds, StockStep
<1>3. CASE count # 0
    <2>1. /\ db' = [db EXCEPT !.reserve = dormant, !.withdrawalGroups = Append(@, new)]
          /\ tasks' = (tasks \ {t}) \cup {MovedTo(t, "withdraw", g),
                                          Task("withdraw", g, "generate", 1 .. count)}
        BY <1>3, Zenon DEF StoreReserve
    <2>2. vs = Append(ws, new) /\ db'.planchets = db.planchets /\ db'.depositGroups = db.depositGroups
        <3>. PICK s : s = Append(ws, new)
            OBVIOUS
        <3>. QED
            BY <2>1 DEF WalletInv, TablesInv, DbShape
    <2>3. NewTasksHeed
        <3>1. IsTask(MovedTo(t, "withdraw", g), "reserve", Key(t), "withdraw", g)
            BY <1>1, MovedTask
        <3>2. IsTask(Task("withdraw", g, "generate", 1 .. count), "withdraw", g, "generate", 1 .. count)
            BY NewTask
        <3>3. ASSUME NEW u, NEW key, NEW loc, IsTask(u, "reserve", key, "withdraw", loc) \/ IsTask(u, "withdraw", key, "generate", loc)
              PROVE  ReserveTask(u, db', exchange')
            BY <3>3 DEF IsTask, ReserveTask, Heeds
        <3>4. ReserveTask(MovedTo(t, "withdraw", g), db', exchange')
            BY <3>1, <3>3
        <3>5. ReserveTask(Task("withdraw", g, "generate", 1 .. count), db', exchange')
            BY <3>2, <3>3
        <3>. QED
            BY <2>1, <3>4, <3>5 DEF NewTasksHeed
    <2>4. HistoryOk(Loc(t), exchange)
        BY <1>1 DEF ReserveInv, ReserveTask, Heeds
    <2>5. count \in Nat /\ ClaimedIn(ws) + CoinValue * count + Others(exchange) <= IncomeOf(exchange)
        BY <1>3, <2>4, UnclaimedLeft
    <2>6. IsList(ws) /\ CountsOk(ws) /\ new.count = count /\ new.deleted = FALSE
        BY DEF WalletInv, TablesInv, WithdrawInv, ReserveInv, WithdrawalBooks
    <2>7. CountsOk(vs) /\ (<<"reserve", 1>> \notin raced' => Covered(vs, exchange'))
        <3>1. ExchangeBooks(exchange) /\ (<<"reserve", 1>> \notin raced => Covered(ws, exchange))
            BY DEF ReserveInv
        <3>2. new.count \in Nat /\ ClaimedIn(ws) + CoinValue * new.count + Others(exchange) <= IncomeOf(exchange)
            BY <2>5, <2>6
        <3>0. Appended(ws, vs, new)
            BY <2>2 DEF Appended
        <3>. HIDE DEF ws, vs
        <3>3. CountsOk(vs)
            BY <2>6, <3>0, <3>2, GroupClaims
        <3>4. Covered(ws, exchange) => Covered(vs, exchange)
            BY <2>6, <3>0, <3>1, <3>2, GroupCovered
        <3>. QED
            BY <1>1, <3>1, <3>3, <3>4
    <2>9. SelectionsStay(db, db') /\ SelectionsInt(db') /\ WithdrawalBooks(db')
        BY <2>2, <2>7 DEF SelectionsStay, SelectionsInt, WithdrawalBooks, ReserveInv
    <2>. QED
        BY <1>1, <2>3, <2>7, <2>9, ExchangeSame, ReserveTablesStep
<1>. QED
    BY <1>2, <1>3

-----------------------------------------------------------------------------
(* The exchange's books grow by what it is sent.                                                   *)
AmountsInt(ps) == IsFiniteSet(ps) /\ \A p \in ps : p.amount \in Int
MeltsInt(ms) == AmountsInt(ms) /\ \A m \in ms : m.returned \in Int

(* A finite set has a finite image. *)
LEMMA ImageFinite ==
    ASSUME NEW f, IsFiniteSet(DOMAIN f)
    PROVE  IsFiniteSet({f[x] : x \in DOMAIN f})
<1>. DEFINE T == {f[x] : x \in DOMAIN f}
<1>. PICK g : g = [x \in DOMAIN f |-> f[x]]
    OBVIOUS
<1>1. g \in Surjection(DOMAIN f, T)
    BY DEF Surjection
<1>. HIDE DEF T
<1>2. IsFiniteSet(T)
    BY <1>1, FS_Surjection
<1>. QED
    BY <1>2 DEF T

(* New deposits, melts or signatures leave what the reserve was paid. *)
LEMMA BooksAfter ==
    ASSUME ReserveInv, NEW ps, AmountsInt(ps), NEW ms, MeltsInt(ms), NEW ss, IsFiniteSet(ss),
           WithdrawnElsewhere \in ss => WithdrawnElsewhere \in exchange.signed,
           exchange'.deposits = ps, exchange'.melts = ms, exchange'.signed = ss,
           exchange'.recoups = exchange.recoups, exchange'.reserve = exchange.reserve
    PROVE  ExchangeGrows
<1>1. ExchangeBooks(exchange)
    BY DEF ReserveInv
<1>2. ExchangeBooks(exchange')
    BY <1>1 DEF ExchangeBooks, AmountsInt, MeltsInt
<1>3. IncomeOf(exchange') = IncomeOf(exchange) /\ IncomeOf(exchange) \in Nat
    BY <1>1, IncomeNat DEF IncomeOf
<1>. QED
    BY <1>2, <1>3 DEF ExchangeGrows

(* A handler of the exchange replaces one of its tables: deposits, melts, or signed coins. *)
LEMMA BooksUpdated ==
    ASSUME WalletInv, ReserveInv,
           \/ exchange' = exchange
           \/ \E ps : AmountsInt(ps) /\ exchange' = [exchange EXCEPT !.deposits = ps]
           \/ \E ms : MeltsInt(ms) /\ exchange' = [exchange EXCEPT !.melts = ms]
           \/ \E ss : /\ IsFiniteSet(ss) /\ (WithdrawnElsewhere \in ss => WithdrawnElsewhere \in exchange.signed)
                      /\ exchange' = [exchange EXCEPT !.signed = ss]
    PROVE  ExchangeGrows
<1>1. ExchangeShape /\ AmountsInt(exchange.deposits) /\ MeltsInt(exchange.melts) /\ IsFiniteSet(exchange.signed)
    BY DEF WalletInv, TablesInv, ReserveInv, ExchangeBooks, AmountsInt, MeltsInt
<1>2. ASSUME exchange' = exchange PROVE ExchangeGrows
    BY <1>2, ExchangeSame
<1>3. ASSUME NEW ps, AmountsInt(ps), exchange' = [exchange EXCEPT !.deposits = ps] PROVE ExchangeGrows
    <2>1. /\ exchange'.deposits = ps /\ exchange'.melts = exchange.melts /\ exchange'.signed = exchange.signed
          /\ exchange'.recoups = exchange.recoups /\ exchange'.reserve = exchange.reserve
        BY <1>1, <1>3 DEF ExchangeShape
    <2>. QED
        BY <1>1, <1>3, <2>1, BooksAfter
<1>4. ASSUME NEW ms, MeltsInt(ms), exchange' = [exchange EXCEPT !.melts = ms] PROVE ExchangeGrows
    <2>1. /\ exchange'.deposits = exchange.deposits /\ exchange'.melts = ms /\ exchange'.signed = exchange.signed
          /\ exchange'.recoups = exchange.recoups /\ exchange'.reserve = exchange.reserve
        BY <1>1, <1>4 DEF ExchangeShape
    <2>. QED
        BY <1>1, <1>4, <2>1, BooksAfter
<1>5. ASSUME NEW ss, IsFiniteSet(ss), WithdrawnElsewhere \in ss => WithdrawnElsewhere \in exchange.signed,
             exchange' = [exchange EXCEPT !.signed = ss]
      PROVE  ExchangeGrows
    <2>1. /\ exchange'.deposits = exchange.deposits /\ exchange'.melts = exchange.melts /\ exchange'.signed = ss
          /\ exchange'.recoups = exchange.recoups /\ exchange'.reserve = exchange.reserve
        BY <1>1, <1>5 DEF ExchangeShape
    <2>. QED
        BY <1>1, <1>5, <2>1, BooksAfter
<1>. QED
    BY <1>2, <1>3, <1>4, <1>5

(* A step that changes the exchange's books but no table of the wallet *)
LEMMA BooksStep ==
    ASSUME WalletInv, ReserveInv, ExchangeGrows, UNCHANGED db, raced \subseteq raced', NewTasksHeed
    PROVE  ReserveInv'
<1>1. SameReserve(db, db')
    BY DEF SameReserve, SelectionsStay, SameCounts
<1>. QED
    BY <1>1, ReserveStep

(* A withdrawal or a tip signs no coin of another device. *)
LEMMA ReserveSignatures ==
    ASSUME WalletInv, LedgerInv, ReserveInv, NEW t \in tasks, PlanchetRequest(t) \/ PickupTip(t)
    PROVE  ReserveInv'
<1>1. IsFiniteSet(exchange.signed)
    BY DEF ReserveInv, ExchangeBooks
<1>2. CASE PlanchetRequest(t)
    <2>1. /\ Op(t) = "withdraw" /\ Advances(t) /\ UNCHANGED <<db, raced>>
          /\ exchange' = exchange \/ \E i : exchange' = [exchange EXCEPT !.signed = @ \cup {WithdrawCoin(Key(t), i)}]
        BY <1>2 DEF PlanchetRequest, Advances, At
    <2>2. Key(t) # 0
        <3>1. Key(t) \in DOMAIN db.withdrawalGroups /\ IsList(db.withdrawalGroups)
            BY <2>1 DEF WalletInv, TaskOk, WithdrawTask, TablesInv, WithdrawInv
        <3>. QED
            BY <3>1 DEF IsList
    <2>3. ASSUME NEW i, NEW c, c = WithdrawCoin(Key(t), i)
          PROVE  IsFiniteSet(exchange.signed \cup {c}) /\ c # WithdrawnElsewhere
        BY <1>1, <2>2, <2>3, FS_AddElement DEF WithdrawCoin, WithdrawnElsewhere
    <2>4. ExchangeGrows
        <3>1. CASE exchange' = exchange
            BY <3>1, BooksUpdated
        <3>2. CASE exchange' # exchange
            <4>1. PICK i, c, ss : /\ c = WithdrawCoin(Key(t), i) /\ ss = exchange.signed \cup {c}
                                  /\ exchange' = [exchange EXCEPT !.signed = ss]
                BY <2>1, <3>2
            <4>. QED
                BY <2>3, <4>1, BooksUpdated
        <3>. QED
            BY <3>1, <3>2
    <2>5. NewTasksHeed
        BY <2>1, AdvanceOps, OpsHeed
    <2>. QED
        BY <2>1, <2>4, <2>5, BooksStep
<1>3. CASE PickupTip(t)
    <2>1. /\ Op(t) = "tip" /\ Advances(t) /\ UNCHANGED <<db, raced>>
          /\ exchange' = exchange \/ exchange' = [exchange EXCEPT !.signed = @ \cup TipCoins(Key(t))]
        BY <1>3 DEF PickupTip, Advances, At
    <2>2. IsFiniteSet(TipCoins(Key(t))) /\ WithdrawnElsewhere \notin TipCoins(Key(t))
        <3>. PICK r : r = Key(t)
            OBVIOUS
        <3>. PICK n : n = db.tips[r].count
            OBVIOUS
        <3>1. n \in Int
            BY <2>1 DEF WalletInv, TaskOk, TipTask, LedgerInv, LedgerTables, TipsOk
        <3>f. PICK f : f = [i \in 1 .. n |-> TipCoin(r, i)]
            OBVIOUS
        <3>2. IsFiniteSet(DOMAIN f)
            BY <3>1, <3>f, FS_Interval
        <3>3. IsFiniteSet({f[i] : i \in DOMAIN f})
            BY <3>2, ImageFinite
        <3>4. TipCoins(r) = {f[i] : i \in DOMAIN f}
            BY <3>f DEF TipCoins
        <3>5. WithdrawnElsewhere \notin TipCoins(r)
            BY DEF TipCoins, TipCoin, WithdrawnElsewhere, WithdrawCoin
        <3>. QED
            BY <3>3, <3>4, <3>5
    <2>3. ExchangeGrows
        <3>. PICK ss : ss = exchange.signed \cup TipCoins(Key(t))
            OBVIOUS
        <3>1. IsFiniteSet(ss) /\ (WithdrawnElsewhere \in ss => WithdrawnElsewhere \in exchange.signed)
            BY <1>1, <2>2, FS_Union
        <3>2. exchange' = exchange \/ exchange' = [exchange EXCEPT !.signed = ss]
            BY <2>1
        <3>. QED
            BY <3>1, <3>2, BooksUpdated
    <2>4. NewTasksHeed
        BY <2>1, AdvanceOps, OpsHeed
    <2>. QED
        BY <2>1, <2>3, <2>4, BooksStep
<1>. QED
    BY <1>2, <1>3

(* Deposits for an order: those that the merchant sends, *)
LEMMA NewDepositsInt ==
    ASSUME NEW o, NEW sel, IntAmounts(sel), IsFiniteSet(DOMAIN sel), NEW S, S \subseteq DOMAIN sel
    PROVE  AmountsInt({[contract |-> AllocationId(o), coin |-> c, amount |-> sel[c], refunded |-> Nil] :
                           c \in {d \in S : ~Deposited(o, d)}})
<1>. DEFINE T == {d \in S : ~Deposited(o, d)}
<1>f. PICK f : f = [c \in T |-> [contract |-> AllocationId(o), coin |-> c, amount |-> sel[c], refunded |-> Nil]]
    OBVIOUS
<1>1. IsFiniteSet(T) /\ T \subseteq DOMAIN sel
    BY FS_Subset
<1>. HIDE DEF T
<1>2. IsFiniteSet(DOMAIN f)
    BY <1>1, <1>f
<1>3. IsFiniteSet({f[c] : c \in DOMAIN f})
    BY <1>2, ImageFinite
<1>4. {[contract |-> AllocationId(o), coin |-> c, amount |-> sel[c], refunded |-> Nil] : c \in T} = {f[c] : c \in DOMAIN f}
    BY <1>f
<1>5. \A c \in DOMAIN f : f[c].amount = sel[c] /\ c \in DOMAIN sel
    BY <1>1, <1>f
<1>6. AmountsInt({f[c] : c \in DOMAIN f})
    BY <1>3, <1>5 DEF AmountsInt, IntAmounts
<1>. QED
    BY <1>4, <1>6 DEF T

(* and those that the exchange marks as refunded. *)
LEMMA MarkedDepositsInt ==
    ASSUME AmountsInt(exchange.deposits), NEW o, NEW S, NEW rt
    PROVE  \E ps : AmountsInt(ps) /\ RefundAtExchange(o, S, rt) = [exchange EXCEPT !.deposits = ps]
<1>. DEFINE ps == exchange.deposits
            mark(p) == IF p.contract = RefundContract(o) /\ p.coin \in S /\ p.refunded = Nil
                       THEN [p EXCEPT !.refunded = rt] ELSE p
<1>1. \A p \in ps : mark(p).amount = p.amount
    OBVIOUS
<1>0. RefundAtExchange(o, S, rt) = [exchange EXCEPT !.deposits = {mark(p) : p \in ps}]
    BY Zenon DEF RefundAtExchange
<1>. HIDE DEF mark, ps
<1>f. PICK f : f = [p \in ps |-> mark(p)]
    OBVIOUS
<1>2. IsFiniteSet(DOMAIN f)
    BY <1>f DEF AmountsInt, ps
<1>3. IsFiniteSet({f[p] : p \in DOMAIN f})
    BY <1>2, ImageFinite
<1>4. {mark(p) : p \in ps} = {f[p] : p \in DOMAIN f}
    BY <1>f
<1>5. AmountsInt({mark(p) : p \in ps})
    BY <1>1, <1>3, <1>4 DEF AmountsInt, ps
<1>. QED
    BY <1>0, <1>5

(* Sets of deposits, melts and recoups are joined. *)
LEMMA AmountsJoined ==
    ASSUME NEW S, AmountsInt(S), NEW T, AmountsInt(T)
    PROVE  AmountsInt(S \cup T)
BY FS_Union DEF AmountsInt

(* Payments and refunds, to the exchange's answer to the merchant                                  *)
LEMMA ReserveMerchant ==
    ASSUME WalletInv, LedgerInv, ReserveInv, NEW t \in tasks, PostPay(t) \/ PostRefund(t) \/ PostAbort(t)
    PROVE  ReserveInv'
<1>1. AmountsInt(exchange.deposits)
    BY DEF ReserveInv, ExchangeBooks, AmountsInt
<1>2. Op(t) \in {"pay", "refund"} /\ Advances(t) /\ UNCHANGED db /\ raced \subseteq raced'
    BY DEF PostPay, PostRefund, PostAbort, Advances, At
<1>3. NewTasksHeed
    BY <1>2, AdvanceOps, OpsHeed
<1>4. CASE PostPay(t)
    <2>. DEFINE new(S) == {[contract |-> AllocationId(Key(t)), coin |-> c, amount |-> Loc(t)[c], refunded |-> Nil] :
                              c \in {d \in S : ~Deposited(Key(t), d)}}
    <2>1. exchange' = exchange \/ \E S : S \subseteq DOMAIN Loc(t) /\ exchange' = Deposit(Key(t), Loc(t), S)
        <3>1. PICK good : good \subseteq DOMAIN Loc(t)
                          /\ (exchange' = exchange \/ \E S : S \subseteq good /\ exchange' = Deposit(Key(t), Loc(t), S))
            BY <1>4 DEF PostPay
        <3>. QED
            BY <3>1
    <2>2. SelectionOk(db, raced, Loc(t), Key(t))
        BY <1>4 DEF PostPay, At, LedgerInv, LedgerTask, PayTask
    <2>3. IntAmounts(Loc(t)) /\ IsFiniteSet(DOMAIN Loc(t))
        <3>1. DOMAIN Loc(t) \subseteq DOMAIN db.coins /\ IsFiniteSet(DOMAIN db.coins)
            BY <2>2 DEF SelectionOk, BelongsTo, LedgerInv, LedgerTables, Books, CoinBooks
        <3>. QED
            BY <2>2, <3>1, FS_Subset DEF SelectionOk, IntAmounts
    <2>4. ASSUME NEW S, S \subseteq DOMAIN Loc(t), exchange' = Deposit(Key(t), Loc(t), S)
          PROVE  ExchangeGrows
        <3>1. AmountsInt(new(S))
            BY <2>3, <2>4, NewDepositsInt
        <3>2. exchange' = [exchange EXCEPT !.deposits = @ \cup new(S)]
            BY <2>4 DEF Deposit
        <3>. HIDE DEF new
        <3>3. PICK ps : ps = exchange.deposits \cup new(S)
            OBVIOUS
        <3>4. AmountsInt(ps) /\ exchange' = [exchange EXCEPT !.deposits = ps]
            BY <1>1, <3>1, <3>2, <3>3, AmountsJoined
        <3>. QED
            BY <3>4, BooksUpdated
    <2>5. ExchangeGrows
        BY <2>1, <2>4, BooksUpdated
    <2>. QED
        BY <1>2, <1>3, <2>5, BooksStep
<1>5. CASE PostRefund(t) \/ PostAbort(t)
    <2>1. exchange' = exchange \/ \E S, rt : exchange' = RefundAtExchange(Key(t), S, rt)
        BY <1>5 DEF PostRefund, PostAbort
    <2>2. ASSUME NEW S, NEW rt, exchange' = RefundAtExchange(Key(t), S, rt) PROVE ExchangeGrows
        <3>1. \E ps : AmountsInt(ps) /\ RefundAtExchange(Key(t), S, rt) = [exchange EXCEPT !.deposits = ps]
            BY <1>1, MarkedDepositsInt
        <3>. QED
            BY <2>2, <3>1, BooksUpdated
    <2>3. ExchangeGrows
        BY <2>1, <2>2, BooksUpdated
    <2>. QED
        BY <1>2, <1>3, <2>3, BooksStep
<1>. QED
    BY <1>4, <1>5

(* A deposit group sends a coin of its selection. *)
LEMMA ReservePostDeposit ==
    ASSUME WalletInv, ReserveInv, NEW t \in tasks, PostDeposit(t)
    PROVE  ReserveInv'
<1>. DEFINE sel == db.depositGroups[Key(t)].payCoinSelection
            c == CHOOSE d \in Loc(t).left : TRUE
            p == [contract |-> DepositContract(Key(t)), coin |-> c, amount |-> sel[c], refunded |-> Nil]
<1>1. Op(t) = "deposit" /\ UNCHANGED <<db, raced>> /\ Loc(t).left # {}
    BY DEF PostDeposit, At
<1>2. Goto(t, "posted", Loc(t)) \/ Done(t)
    BY DEF PostDeposit
<1>3. Loc(t).left \subseteq DOMAIN sel /\ Key(t) \in DOMAIN db.depositGroups
    BY <1>1 DEF ReserveInv, ReserveTask, Heeds, WalletInv, TaskOk, DepositTask
<1>4. NewTasksHeed
    <2>1. Heeds(Op(t), Key(t), "posted", Loc(t), db', exchange')
        BY <1>1, <1>3 DEF Heeds
    <2>. QED
        BY <1>2, <2>1, GotoHeeds
<1>5. exchange' = exchange \/ exchange' = [exchange EXCEPT !.deposits = @ \cup {p}]
    BY DEF PostDeposit
<1>6. p.amount \in Int
    <2>1. c \in DOMAIN sel
        BY <1>1, <1>3
    <2>. QED
        BY <1>3, <2>1 DEF ReserveInv, SelectionsInt, IntAmounts
<1>. HIDE DEF p
<1>7. ExchangeGrows
    <2>1. PICK ps : ps = exchange.deposits \cup {p}
        OBVIOUS
    <2>2. AmountsInt(exchange.deposits) /\ AmountsInt({p})
        BY <1>6, FS_Singleton DEF ReserveInv, ExchangeBooks, AmountsInt
    <2>3. AmountsInt(ps)
        BY <2>1, <2>2, AmountsJoined
    <2>. QED
        BY <1>5, <2>1, <2>3, BooksUpdated
<1>. QED
    BY <1>1, <1>4, <1>7, BooksStep

-----------------------------------------------------------------------------
(* Melts: the amount is what a refresh group has recorded for the coin; a reveal changes no amount. *)
LEMMA MarkedMeltsInt ==
    ASSUME NEW ms, MeltsInt(ms), NEW f, DOMAIN f = ms,
           \A m \in ms : f[m].amount = m.amount /\ f[m].returned \in Int
    PROVE  MeltsInt({f[m] : m \in ms})
<1>1. IsFiniteSet({f[m] : m \in DOMAIN f})
    BY ImageFinite DEF MeltsInt, AmountsInt
<1>. QED
    BY <1>1 DEF MeltsInt, AmountsInt

Revealed(t) ==
    [exchange EXCEPT !.melts = {IF m.session = Key(t) /\ m.seed = MeltOf(t).seed
                                THEN [m EXCEPT !.revealed = TRUE] ELSE m : m \in @}]

(* A reveal marks melts, and leaves their amounts. *)
LEMMA RevealedMelts ==
    ASSUME MeltsInt(exchange.melts), NEW t
    PROVE  \E ms : /\ MeltsInt(ms)
                   /\ Revealed(t) = [exchange EXCEPT !.melts = ms]
<1>. DEFINE ms == exchange.melts
            mark(m) == IF m.session = Key(t) /\ m.seed = MeltOf(t).seed THEN [m EXCEPT !.revealed = TRUE] ELSE m
<1>1. \A m \in ms : mark(m).amount = m.amount /\ mark(m).returned = m.returned
    OBVIOUS
<1>2. Revealed(t) = [exchange EXCEPT !.melts = {mark(m) : m \in ms}]
    BY Zenon DEF Revealed
<1>3. \A m \in ms : m.returned \in Int
    BY DEF MeltsInt
<1>. HIDE DEF mark
<1>f. PICK f : f = [m \in ms |-> mark(m)]
    OBVIOUS
<1>4. DOMAIN f = ms /\ (\A m \in ms : f[m].amount = m.amount /\ f[m].returned \in Int)
      /\ {f[m] : m \in ms} = {mark(m) : m \in ms}
    BY <1>1, <1>3, <1>f
<1>5. MeltsInt({f[m] : m \in ms})
    BY <1>4, MarkedMeltsInt
<1>. QED
    BY <1>2, <1>4, <1>5

(* What a promise melts of a coin is an integer. *)
LEMMA MeltAmount ==
    ASSUME WalletInv, LedgerInv, NEW t \in tasks, Op(t) = "session"
    PROVE  Group(t).inputPerCoin[Index(t)] \in Int
<1>. PICK g, i : g = Key(t)[1] /\ i = Key(t)[2]
    OBVIOUS
<1>1. g \in DOMAIN db.refreshGroups /\ i \in DOMAIN db.refreshGroups[g].oldCoinPubs
    BY DEF WalletInv, TaskOk, SessionTaskOk
<1>. PICK k : k = <<g, i>>
    OBVIOUS
<1>2. k \in KeysOf(OldCoins(db))
    BY <1>1 DEF KeysOf, OldCoins
<1>3. AmountAt(k, InputAmounts(db)) \in Int
    BY <1>2 DEF LedgerInv, LedgerTables, Books, RefreshBooks, ListsOk, Countable
<1>. QED
    BY <1>1, <1>3 DEF AmountAt, InputAmounts, Group, Index

(* Melts and reveals do not touch the reserve. *)
LEMMA ReserveMelts ==
    ASSUME WalletInv, LedgerInv, ReserveInv, NEW t \in tasks, RefreshMelt(t) \/ RefreshReveal(t)
    PROVE  ReserveInv'
<1>. DEFINE new == [coin |-> MeltOf(t).coin, session |-> Key(t), seed |-> MeltOf(t).seed,
                    amount |-> Group(t).inputPerCoin[Index(t)], revealed |-> FALSE, returned |-> 0]
<1>1. Op(t) = "session" /\ UNCHANGED db /\ raced \subseteq raced' /\ (Advances(t) \/ \E keys : Reject(t, keys))
    BY DEF RefreshMelt, RefreshReveal, RejectSession, Advances, At
<1>2. NewTasksHeed
    BY <1>1, AdvanceOps, RejectOps, OpsHeed
<1>3. MeltsInt(exchange.melts)
    BY DEF ReserveInv, ExchangeBooks, MeltsInt, AmountsInt
<1>4. CASE RefreshMelt(t)
    <2>1. exchange' = exchange \/ exchange' = [exchange EXCEPT !.melts = @ \cup {new}]
        BY <1>4, Zenon DEF RefreshMelt, ExchangeMelt
    <2>2. new.amount \in Int /\ new.returned \in Int
        BY <1>1, MeltAmount
    <2>. HIDE DEF new
    <2>3. PICK ms : ms = exchange.melts \cup {new}
        OBVIOUS
    <2>4. MeltsInt(ms)
        <3>1. AmountsInt(exchange.melts) /\ AmountsInt({new})
            BY <1>3, <2>2, FS_Singleton DEF MeltsInt, AmountsInt
        <3>2. AmountsInt(ms)
            BY <2>3, <3>1, AmountsJoined
        <3>. QED
            BY <1>3, <2>2, <2>3, <3>2 DEF MeltsInt
    <2>5. ExchangeGrows
        BY <2>1, <2>3, <2>4, BooksUpdated
    <2>. QED
        BY <1>1, <1>2, <2>5, BooksStep
<1>5. CASE RefreshReveal(t)
    <2>1. exchange' = exchange \/ \E ms : MeltsInt(ms) /\ exchange' = [exchange EXCEPT !.melts = ms]
        <3>1. exchange' = exchange \/ exchange' = Revealed(t)
            BY <1>5, Zenon DEF RefreshReveal, Revealed
        <3>. QED
            BY <1>3, <3>1, RevealedMelts
    <2>2. ExchangeGrows
        BY <2>1, BooksUpdated
    <2>. QED
        BY <1>1, <1>2, <2>2, BooksStep
<1>. QED
    BY <1>4, <1>5

-----------------------------------------------------------------------------
(* Recoups: what is left of a coin at the exchange is a number. *)
LEMMA RemainingInt ==
    ASSUME LedgerInv, ReserveInv, NEW c \in DOMAIN db.coins
    PROVE  Remaining(c) \in Int
<1>1. ExchangeBooks(exchange)
    BY DEF ReserveInv
<1>2. SumFunction([p \in DepositsOf(c) |-> IF p.refunded = Nil THEN p.amount ELSE RefundFee]) \in Int
    <2>f. PICK f : f = [p \in DepositsOf(c) |-> IF p.refunded = Nil THEN p.amount ELSE RefundFee]
        OBVIOUS
    <2>1. IsFiniteSet(DepositsOf(c)) /\ DepositsOf(c) \subseteq exchange.deposits
        BY <1>1, FS_Subset DEF DepositsOf, ExchangeBooks
    <2>2. Summable(f)
        BY <1>1, <2>1, <2>f, FeeAssumption DEF Summable, ExchangeBooks
    <2>. QED
        BY <2>2, <2>f, SumIsInt
<1>3. SumFunction([m \in MeltsOf(c) |-> m.amount - m.returned]) \in Int
    <2>f. PICK f : f = [m \in MeltsOf(c) |-> m.amount - m.returned]
        OBVIOUS
    <2>1. IsFiniteSet(MeltsOf(c)) /\ MeltsOf(c) \subseteq exchange.melts
        BY <1>1, FS_Subset DEF MeltsOf, ExchangeBooks
    <2>2. Summable(f)
        BY <1>1, <2>1, <2>f DEF Summable, ExchangeBooks
    <2>. QED
        BY <2>2, <2>f, SumIsInt
<1>4. SumFunction([r \in {r \in exchange.recoups : r.coin = c} |-> r.amount]) \in Int
    <2>. DEFINE rs == {r \in exchange.recoups : r.coin = c}
    <2>1. IsFiniteSet(rs) /\ rs \subseteq exchange.recoups
        BY <1>1, FS_Subset DEF ExchangeBooks
    <2>. HIDE DEF rs
    <2>f. PICK f : f = [r \in rs |-> r.amount]
        OBVIOUS
    <2>2. Summable(f)
        BY <1>1, <2>1, <2>f DEF Summable, ExchangeBooks
    <2>3. SumFunction([r \in rs |-> r.amount]) \in Int
        BY <2>2, <2>f, SumIsInt
    <2>. QED
        BY <2>3 DEF rs
<1>5. db.coins[c].value \in Int
    BY DEF LedgerInv, LedgerTables, Books, CoinBooks, CoinBook
<1>6. SpentAtExchange(c) \in Int
    BY <1>2, <1>3, <1>4 DEF SpentAtExchange
<1>. QED
    BY <1>5, <1>6 DEF Remaining

(* The exchange as it is after a recoup *)
ReturnedBy(m, c) == SourceOf(c) = "refresh" /\ m.session = <<c[2], c[3]>>
                    /\ m.seed = db.refreshGroups[c[2]].session[c[3]].seed
RecoupOf(c) == [coin |-> c, amount |-> Remaining(c),
                toReserve |-> IF SourceOf(c) = "withdraw" THEN Remaining(c) ELSE 0]
RecoupedMelts(c) == {IF ReturnedBy(m, c) THEN [m EXCEPT !.returned = Remaining(c)] ELSE m : m \in exchange.melts}

(* A recoup of a refreshed coin returns an integer to the melt of the old coin. *)
LEMMA RecoupedMeltsInt ==
    ASSUME MeltsInt(exchange.melts), NEW c, Remaining(c) \in Int
    PROVE  MeltsInt(RecoupedMelts(c))
<1>. PICK left : left = Remaining(c)
    OBVIOUS
<1>. DEFINE ms == exchange.melts
            mark(m) == IF ReturnedBy(m, c) THEN [m EXCEPT !.returned = left] ELSE m
<1>1. \A m \in ms : m.returned \in Int /\ m.amount \in Int
    BY DEF MeltsInt, AmountsInt
<1>2. \A m \in ms : mark(m).amount = m.amount /\ mark(m).returned \in Int
    BY <1>1
<1>3. RecoupedMelts(c) = {mark(m) : m \in ms}
    BY DEF RecoupedMelts
<1>. HIDE DEF mark
<1>f. PICK f : f = [m \in ms |-> mark(m)]
    OBVIOUS
<1>4. DOMAIN f = ms /\ (\A m \in ms : f[m].amount = m.amount /\ f[m].returned \in Int)
      /\ {f[m] : m \in ms} = {mark(m) : m \in ms}
    BY <1>2, <1>f
<1>5. MeltsInt({f[m] : m \in ms})
    BY <1>4, MarkedMeltsInt
<1>. QED
    BY <1>3, <1>4, <1>5

(* It pays what is left of the coin into the reserve, or nothing. *)
LEMMA RecoupPaid ==
    ASSUME WalletInv, ReserveInv, NEW c, Remaining(c) \in Nat, ~\E r \in exchange.recoups : r.coin = c,
           exchange' = [exchange EXCEPT !.recoups = @ \cup {RecoupOf(c)}, !.melts = RecoupedMelts(c)]
    PROVE  ExchangeGrows
<1>. PICK new : new = RecoupOf(c)
    OBVIOUS
<1>1. new.coin = c /\ new.amount \in Int /\ new.toReserve \in Nat
    BY DEF RecoupOf
<1>2. ExchangeBooks(exchange) /\ ExchangeShape
    BY DEF ReserveInv, WalletInv, TablesInv
<1>3. /\ exchange'.recoups = exchange.recoups \cup {new} /\ exchange'.melts = RecoupedMelts(c)
      /\ exchange'.deposits = exchange.deposits /\ exchange'.signed = exchange.signed
      /\ exchange'.reserve = exchange.reserve
    BY <1>2 DEF ExchangeShape
<1>4. MeltsInt(RecoupedMelts(c))
    BY <1>2, RecoupedMeltsInt DEF ExchangeBooks, MeltsInt, AmountsInt
<1>5. IsFiniteSet(exchange.recoups \cup {new})
    BY <1>2, FS_AddElement DEF ExchangeBooks
<1>6. ExchangeBooks(exchange')
    BY <1>1, <1>2, <1>3, <1>4, <1>5 DEF ExchangeBooks, MeltsInt, AmountsInt
<1>7. SumFunction([r \in exchange'.recoups |-> r.toReserve])
      = SumFunction([r \in exchange.recoups |-> r.toReserve]) + new.toReserve
    <2>f. PICK f : f = [r \in exchange.recoups |-> r.toReserve]
        OBVIOUS
    <2>e. PICK e : e = [r \in exchange'.recoups |-> r.toReserve]
        OBVIOUS
    <2>1. new \notin exchange.recoups
        BY <1>1
    <2>2. Summable(f) /\ Summable(e)
        BY <1>2, <1>6, <2>f, <2>e DEF Summable, ExchangeBooks
    <2>3. PutAt(f, e, new) /\ e[new] = new.toReserve
        BY <1>3, <2>1, <2>f, <2>e DEF PutAt
    <2>4. SumFunction(e) = SumFunction(f) + new.toReserve
        BY <2>2, <2>3, SumPut
    <2>. QED
        BY <2>4, <2>f, <2>e
<1>8. IncomeOf(exchange) <= IncomeOf(exchange')
    <2>1. /\ SumFunction([r \in exchange.recoups |-> r.toReserve]) \in Nat
          /\ exchange.reserve.credit \in Nat
        BY <1>2, IncomeNat DEF ExchangeBooks
    <2>. QED
        BY <1>1, <1>3, <1>7, <2>1 DEF IncomeOf
<1>. QED
    BY <1>3, <1>6, <1>8 DEF ExchangeGrows

(* A recoup of a withdrawn coin pays the reserve: its income only grows. *)
LEMMA ReserveRecoup ==
    ASSUME WalletInv, LedgerInv, ReserveInv, NEW t \in tasks, PostRecoup(t)
    PROVE  ReserveInv'
<1>. DEFINE c == RecoupedCoin(t)
<1>1. Op(t) = "recoup" /\ UNCHANGED <<db, raced>> /\ (Advances(t) \/ \E keys : Reject(t, keys))
    BY DEF PostRecoup, Advances, At
<1>2. NewTasksHeed
    BY <1>1, AdvanceOps, RejectOps, OpsHeed
<1>3. \/ exchange' = exchange
      \/ /\ ~\E r \in exchange.recoups : r.coin = c
         /\ Remaining(c) > 0
         /\ exchange' = [exchange EXCEPT !.recoups = @ \cup {RecoupOf(c)}, !.melts = RecoupedMelts(c)]
    BY Zenon DEF PostRecoup, RecoupOf, RecoupedMelts, ReturnedBy
<1>4. c \in DOMAIN db.coins
    <2>. PICK g, i : g = Key(t)[1] /\ i = Key(t)[2]
        OBVIOUS
    <2>1. g \in DOMAIN db.recoupGroups /\ i \in DOMAIN db.recoupGroups[g].coinPubs
        BY <1>1 DEF WalletInv, TaskOk, RecoupTask
    <2>2. db.recoupGroups[g].coinPubs[i] \in DOMAIN db.coins
        BY <2>1, RecoupFacts
    <2>. QED
        BY <2>2 DEF RecoupedCoin, Recoup
<1>5. Remaining(c) \in Int
    BY <1>4, RemainingInt
<1>6. ExchangeGrows
    <2>. HIDE DEF c
    <2>1. CASE exchange' = exchange
        BY <2>1, ExchangeSame
    <2>2. CASE exchange' # exchange
        <3>1. Remaining(c) \in Nat
            BY <1>3, <1>5, <2>2
        <3>2. /\ ~\E r \in exchange.recoups : r.coin = c
              /\ exchange' = [exchange EXCEPT !.recoups = @ \cup {RecoupOf(c)}, !.melts = RecoupedMelts(c)]
            BY <1>3, <2>2
        <3>. QED
            BY <3>1, <3>2, RecoupPaid
    <2>. QED
        BY <2>1, <2>2
<1>. QED
    BY <1>1, <1>2, <1>6, BooksStep

(* Refreshes and recoups *)
LEMMA ReserveRefreshes ==
    ASSUME WalletInv, LedgerInv, ReserveInv,
           RefreshNext \/ RecoupNext \/ \E d : AutoRefresh(d) \/ RevokeDenomination(d)
    PROVE  ReserveInv'
<1>1. CASE \E t \in tasks : RefreshMelt(t) \/ RefreshReveal(t) \/ PostRecoup(t)
    BY <1>1, ReserveMelts, ReserveRecoup
<1>2. CASE ~\E t \in tasks : RefreshMelt(t) \/ RefreshReveal(t) \/ PostRecoup(t)
    <2>1. exchange' = exchange
        BY <1>2 DEF RefreshNext, RecoupNext, AutoRefresh, RevokeDenomination, ProcessRefreshGroup,
                    RefreshCreateSession, MeltNotFound, StoreMelt, StoreRevealedCoins,
                    ProcessRecoupGroup, StoreRecoup
    <2>2. SameStock(db, db') /\ raced \subseteq raced' /\ (NewOps({"session"}) \/ NewOps({"recoup"}))
        BY RefreshesElsewhere, RecoupsElsewhere DEF Elsewhere
    <2>3. NewTasksHeed
        BY <2>2, OpsHeed
    <2>. QED
        BY <2>1, <2>2, <2>3, StockStep
<1>. QED
    BY <1>1, <1>2

-----------------------------------------------------------------------------
(* Deposit groups: a selection is recorded once and stays. *)
LEMMA SelectionAdded ==
    ASSUME WalletInv, ReserveInv, NEW new, IntAmounts(new.payCoinSelection),
           NEW s, s = db.depositGroups \/ Appended(db.depositGroups, s, new), db'.depositGroups = s
    PROVE  SelectionsStay(db, db') /\ SelectionsInt(db')
<1>1. IsList(db.depositGroups) /\ SelectionsInt(db)
    BY DEF WalletInv, TablesInv, DepositInv, ReserveInv
<1>2. CASE s = db.depositGroups
    BY <1>1, <1>2 DEF SelectionsStay, SelectionsInt
<1>3. CASE Appended(db.depositGroups, s, new)
    <2>. PICK n : n = Len(db.depositGroups) + 1
        OBVIOUS
    <2>1. /\ DOMAIN s = DOMAIN db.depositGroups \cup {n} /\ s[n] = new
          /\ \A g \in DOMAIN db.depositGroups : s[g] = db.depositGroups[g]
        BY <1>1, <1>3, AppendList DEF Appended
    <2>. QED
        BY <1>1, <2>1 DEF SelectionsStay, SelectionsInt
<1>. QED
    BY <1>2, <1>3

(* What is written of a deposit group leaves its selection. *)
LEMMA SelectionsKept ==
    ASSUME WalletInv, NEW s, NEW x, NEW g,
           \/ s = [db.depositGroups EXCEPT ![g].finished = x]
           \/ s = [db.depositGroups EXCEPT ![g].depositedPerCoin = x]
    PROVE  /\ DOMAIN s = DOMAIN db.depositGroups
           /\ \A h \in DOMAIN s : s[h].payCoinSelection = db.depositGroups[h].payCoinSelection
<1>1. DOMAIN s = DOMAIN db.depositGroups
    OBVIOUS
<1>2. ASSUME NEW h \in DOMAIN s PROVE s[h].payCoinSelection = db.depositGroups[h].payCoinSelection
    <2>1. DepositGroupShape(db.depositGroups[h])
        BY <1>1 DEF WalletInv, TablesInv, DepositInv
    <2>. QED
        BY <2>1 DEF DepositGroupShape
<1>. QED
    BY <1>1, <1>2

(* A deposit group that is recorded spends integers. *)
LEMMA ReserveRecordDeposit ==
    ASSUME WalletInv, LedgerInv, ReserveInv, NEW t \in tasks, RecordDepositGroup(t)
    PROVE  ReserveInv'
<1>. PICK n : n = Len(db.depositGroups) + 1
    OBVIOUS
<1>n. PICK new : new = [payCoinSelection |-> Loc(t), depositedPerCoin |-> {}, finished |-> FALSE]
    OBVIOUS
<1>e. PICK e : e = ApplyCoinSpend(db, Loc(t), DepositContract(n))
    OBVIOUS
<1>1. Op(t) = "createDeposit" /\ Pc(t) = "record" /\ UNCHANGED exchange /\ Done(t)
    BY DEF RecordDepositGroup, At
<1>2. raced \subseteq raced'
    BY DEF RecordDepositGroup
<1>3. db' = db \/ db' = [e EXCEPT !.depositGroups = Append(@, new)]
    BY <1>n, <1>e, Zenon DEF RecordDepositGroup
<1>4. SameStock(db, e) /\ DbShape(e)
    <2>1. DbShape(db) /\ CoinsOk(db.coins) /\ IsList(db.refreshGroups)
        BY DEF WalletInv, TablesInv, RefreshInv
    <2>2. SameStock(db, e)
        BY <1>e, <2>1, SpendingStock
    <2>3. DbShape(e)
        BY <1>e, <2>1, CoinsSpent DEF Spends
    <2>. QED
        BY <2>2, <2>3
<1>5. /\ db'.withdrawalGroups = db.withdrawalGroups /\ db'.planchets = db.planchets
      /\ db'.depositGroups = db.depositGroups \/ Appended(db.depositGroups, db'.depositGroups, new)
    BY <1>3, <1>4 DEF SameStock, DbShape, Appended
<1>6. IntAmounts(new.payCoinSelection)
    BY <1>1, <1>n DEF LedgerInv, LedgerTask
<1>7. SelectionsStay(db, db') /\ SelectionsInt(db')
    BY <1>5, <1>6, SelectionAdded
<1>8. WithdrawalBooks(db') /\ (<<"reserve", 1>> \notin raced' => Covered(db'.withdrawalGroups, exchange'))
    BY <1>1, <1>2, <1>5 DEF ReserveInv, WithdrawalBooks
<1>9. NewTasksHeed
    BY <1>1, GotoHeeds
<1>. QED
    BY <1>1, <1>7, <1>8, <1>9, ExchangeSame, ReserveTablesStep

(* Deposits add to the exchange's table of deposits, and to nothing else. *)
LEMMA ReserveDeposits ==
    ASSUME WalletInv, LedgerInv, ReserveInv, DepositNext
    PROVE  ReserveInv'
<1>1. ASSUME NEW g \in DOMAIN db.depositGroups, ProcessDepositGroup(g) PROVE ReserveInv'
    <2>. DEFINE dg == db.depositGroups[g]
    <2>l. PICK loc : loc = [read |-> dg.depositedPerCoin, left |-> DOMAIN dg.payCoinSelection \ dg.depositedPerCoin]
        OBVIOUS
    <2>1. Start("deposit", g, "post", loc) /\ UNCHANGED <<db, exchange, raced>>
        BY <1>1, <2>l DEF ProcessDepositGroup
    <2>2. Heeds("deposit", g, "post", loc, db', exchange')
        BY <2>1, <2>l DEF Heeds
    <2>3. NewTasksHeed
        BY <2>1, <2>2, StartHeeds
    <2>. QED
        BY <2>1, <2>3, StockStep DEF SameStock
<1>2. ASSUME NEW t \in tasks, StoreDeposit(t) \/ FinishDepositGroup(t) PROVE ReserveInv'
    <2>. PICK g : g = Key(t)
        OBVIOUS
    <2>1. Op(t) = "deposit" /\ UNCHANGED <<exchange, raced>>
        BY <1>2 DEF StoreDeposit, FinishDepositGroup, At
    <2>2. PICK s : /\ db' = [db EXCEPT !.depositGroups = s]
                   /\ \E x : \/ s = [db.depositGroups EXCEPT ![g].finished = x]
                             \/ s = [db.depositGroups EXCEPT ![g].depositedPerCoin = x]
        <3>. PICK x, y : /\ x = (db.depositGroups[g].finished \/ Loc(t).read = DOMAIN db.depositGroups[g].payCoinSelection)
                         /\ y = db.depositGroups[g].depositedPerCoin \cup {CHOOSE d \in Loc(t).left : TRUE}
            OBVIOUS
        <3>1. CASE StoreDeposit(t)
            BY <3>1, Zenon DEF StoreDeposit
        <3>2. CASE FinishDepositGroup(t)
            BY <3>2, Zenon DEF FinishDepositGroup
        <3>. QED
            BY <1>2, <3>1, <3>2
    <2>3. /\ DOMAIN s = DOMAIN db.depositGroups
          /\ \A h \in DOMAIN s : s[h].payCoinSelection = db.depositGroups[h].payCoinSelection
        BY <2>2, SelectionsKept
    <2>4. /\ db'.depositGroups = s /\ db'.withdrawalGroups = db.withdrawalGroups
          /\ db'.planchets = db.planchets
        BY <2>2 DEF WalletInv, TablesInv, DbShape
    <2>5. SameReserve(db, db')
        BY <2>3, <2>4 DEF SameReserve, SelectionsStay, SameCounts
    <2>6. NewTasksHeed
        <3>1. CASE StoreDeposit(t)
            <4>. PICK c : c = CHOOSE d \in Loc(t).left : TRUE
                OBVIOUS
            <4>l. PICK loc : loc = [Loc(t) EXCEPT !.left = @ \ {c}]
                OBVIOUS
            <4>1. Goto(t, "post", loc)
                BY <3>1, <4>l DEF StoreDeposit
            <4>2. DepositTask(t) /\ Loc(t).left \subseteq DOMAIN db.depositGroups[g].payCoinSelection
                BY <2>1 DEF WalletInv, TaskOk, ReserveInv, ReserveTask, Heeds
            <4>3. loc.left \subseteq Loc(t).left
                BY <4>2, <4>l DEF DepositTask
            <4>4. Heeds(Op(t), Key(t), "post", loc, db', exchange')
                BY <2>1, <2>3, <2>4, <4>2, <4>3 DEF Heeds, DepositTask
            <4>. QED
                BY <4>1, <4>4, GotoHeeds
        <3>2. CASE FinishDepositGroup(t)
            BY <3>2, GotoHeeds DEF FinishDepositGroup
        <3>. QED
            BY <1>2, <3>1, <3>2
    <2>. QED
        BY <2>1, <2>5, <2>6, ExchangeSame, ReserveStep
<1>. QED
    BY <1>1, <1>2, ReserveRecordDeposit, ReservePostDeposit DEF DepositNext

-----------------------------------------------------------------------------
(* The books of the first state: one group at most, all of whose coins are there. *)
LEMMA FirstClaims ==
    ASSUME NEW n, FirstTables(db, n)
    PROVE  /\ WithdrawalBooks(db) /\ SelectionsInt(db) /\ n \in Nat
           /\ PlannedIn(db.withdrawalGroups) = FirstCoins(n) /\ ClaimedIn(db.withdrawalGroups) = CoinValue * n
           /\ \A g \in DOMAIN db.withdrawalGroups : ~db.withdrawalGroups[g].deleted
<1>. DEFINE ws == db.withdrawalGroups
<1>1. /\ n \in Nat /\ IsList(ws) /\ DOMAIN db.planchets = FirstCoins(n) /\ db.depositGroups = <<>>
      /\ \A g \in DOMAIN ws : g = 1 /\ ws[g].count = n /\ ws[g].deleted = FALSE
      /\ n # 0 => 1 \in DOMAIN ws
    BY DEF FirstTables
<1>2. CountsOk(ws)
    BY <1>1 DEF CountsOk
<1>3. WithdrawnElsewhere \notin FirstCoins(n)
    BY DEF FirstCoins, WithdrawCoin, WithdrawnElsewhere
<1>4. SelectionsInt(db)
    BY <1>1, ListFacts DEF SelectionsInt
<1>5. Summable(ClaimsIn(ws))
    BY <1>1, <1>2, ClaimsInt
<1>6. CASE 1 \notin DOMAIN ws
    <2>1. DOMAIN ws = {} /\ n = 0
        BY <1>1, <1>6
    <2>2. PlannedIn(ws) = {} /\ FirstCoins(n) = {} /\ DOMAIN ClaimsIn(ws) = {}
        BY <2>1 DEF PlannedIn, FirstCoins, ClaimsIn
    <2>3. ClaimedIn(ws) = 0 /\ CoinValue * n = 0
        BY <2>1, <2>2, SumNone, FeeAssumption DEF ClaimedIn
    <2>. QED
        BY <1>1, <1>2, <1>3, <1>4, <2>2, <2>3 DEF WithdrawalBooks
<1>7. CASE 1 \in DOMAIN ws
    <2>1. DOMAIN ws = {1} /\ ws[1].count = n /\ ws[1].deleted = FALSE
        BY <1>1, <1>7
    <2>2. PlannedIn(ws) = FirstCoins(n)
        BY <2>1 DEF PlannedIn, FirstCoins
    <2>f. PICK f : f = [x \in {} |-> 0]
        OBVIOUS
    <2>3. DOMAIN f = {}
        BY <2>f
    <2>4. SumFunction(f) = 0 /\ Summable(f)
        BY <2>3, SumNone, FS_EmptySet DEF Summable
    <2>5. DOMAIN ClaimsIn(ws) = {1} /\ ClaimsIn(ws)[1] = CoinValue * n
        BY <2>1 DEF ClaimsIn
    <2>6. PutAt(f, ClaimsIn(ws), 1)
        BY <2>3, <2>5 DEF PutAt
    <2>7. ClaimedIn(ws) = 0 + CoinValue * n
        BY <1>5, <2>4, <2>5, <2>6, SumPut DEF ClaimedIn
    <2>8. CoinValue * n \in Nat
        BY <1>1, Products, FeeAssumption
    <2>9. ClaimedIn(ws) = CoinValue * n
        <3>. PICK x : x = CoinValue * n
            OBVIOUS
        <3>. QED
            BY <2>7, <2>8
    <2>. QED
        BY <1>1, <1>2, <1>3, <1>4, <2>2, <2>9 DEF WithdrawalBooks
<1>. QED
    BY <1>6, <1>7

(* The money that the exchange has for them at first *)
LEMMA FirstExchangeBooks ==
    ASSUME NEW ds \in FirstDeposits, NEW ss, IsFiniteSet(ss), NEW money \in Nat,
           exchange = [deposits |-> ds, melts |-> FirstMelts, recoups |-> {},
                       signed |-> ss, reserve |-> [credit |-> money]]
    PROVE  ExchangeBooks(exchange) /\ IncomeOf(exchange) = money /\ exchange.signed = ss
<1>1. AmountsInt(ds)
    <2>. DEFINE old == [contract |-> <<"deposit-group", 0>>, coin |-> WithdrawCoin(1, 1),
                        amount |-> 1, refunded |-> Nil]
    <2>1. SpentElsewhere.amount \in Int
        BY FeeAssumption DEF SpentElsewhere
    <2>2. old.amount \in Int
        OBVIOUS
    <2>3. FirstDeposits = CASE scene \in {"pay", "deposit"} -> {{}, {SpentElsewhere}}
                            [] scene = "recoup" -> {{old}}
                            [] OTHER -> {{}}
        BY DEF FirstDeposits
    <2>. HIDE DEF old
    <2>4. ds = {} \/ ds = {SpentElsewhere} \/ ds = {old}
        BY <2>3
    <2>. QED
        BY <2>1, <2>2, <2>4, FS_EmptySet, FS_Singleton DEF AmountsInt
<1>2. MeltsInt(FirstMelts)
    <2>1. CASE scene # "recoup"
        BY <2>1, FS_EmptySet DEF FirstMelts, MeltsInt, AmountsInt
    <2>2. CASE scene = "recoup"
        <3>. PICK coin, session, rest, yes :
                coin = WithdrawCoin(1, 1) /\ session = <<1, 1>> /\ rest = CoinValue - 1 /\ yes = TRUE
            OBVIOUS
        <3>m. PICK m : m = [coin |-> coin, session |-> session, seed |-> 1, amount |-> rest,
                            revealed |-> yes, returned |-> 0]
            OBVIOUS
        <3>1. FirstMelts = {m}
            BY <2>2, <3>m DEF FirstMelts
        <3>2. m.amount \in Int /\ m.returned \in Int
            BY <3>m, FeeAssumption
        <3>. QED
            BY <3>1, <3>2, FS_Singleton DEF MeltsInt, AmountsInt
    <2>. QED
        BY <2>1, <2>2
<1>3. /\ exchange.deposits = ds /\ exchange.melts = FirstMelts /\ exchange.recoups = {}
      /\ exchange.signed = ss /\ exchange.reserve = [credit |-> money]
    OBVIOUS
<1>. HIDE DEF FirstMelts
<1>4. ExchangeBooks(exchange)
    BY <1>1, <1>2, <1>3, FS_EmptySet DEF ExchangeBooks, MeltsInt, AmountsInt
<1>5. SumFunction([r \in exchange.recoups |-> r.toReserve]) = 0
    <2>1. DOMAIN [r \in exchange.recoups |-> r.toReserve] = {}
        BY <1>3
    <2>. QED
        BY <2>1, SumNone
<1>6. IncomeOf(exchange) = money
    BY <1>3, <1>5 DEF IncomeOf
<1>. QED
    BY <1>3, <1>4, <1>6

(* covers the groups, and what another device has withdrawn. *)
LEMMA FirstCovered ==
    ASSUME NEW n \in Nat, NEW ws, \A g \in DOMAIN ws : ~ws[g].deleted,
           PlannedIn(ws) = FirstCoins(n), ClaimedIn(ws) = CoinValue * n,
           NEW x, CoinValue * n + Others(x) <= IncomeOf(x)
    PROVE  Covered(ws, x)
<1>1. FirstCoins(n) = GroupCoins(1, n)
    BY DEF FirstCoins, GroupCoins
<1>2. IsFiniteSet(FirstCoins(n)) /\ Cardinality(FirstCoins(n)) = n
    BY <1>1, GroupCounts
<1>3. CoinValue * n \in Nat
    BY Products, FeeAssumption
<1>. QED
    BY <1>2, <1>3 DEF Covered

(* In the first states the reserve was paid for the coins that the first group claims. *)
LEMMA ReserveInit ==
    ASSUME Init
    PROVE  ReserveInv
<1>1. scene \in AllScenes /\ db = FirstDb /\ tasks = {}
    BY SceneAssumption DEF Init
<1>2. PICK ds \in FirstDeposits :
          exchange = [deposits |-> ds, melts |-> FirstMelts, recoups |-> {},
                      signed |-> FirstSigned, reserve |-> [credit |-> Money]]
    BY DEF Init
<1>3. SceneTables
    BY <1>1, FirstDbTables
<1>4. \E n \in Nat : FirstTables(db, n) /\ (scene = "restore" => n = 0)
    <2>1. CASE scene = "restore"
        <3>1. db = [NewWallet EXCEPT !.reserve.status = "QUERYING_STATUS"]
            BY <1>1, <2>1 DEF FirstDb
        <3>2. FirstTables(NewWallet, 0) /\ NewWallet.refreshGroups = <<>>
            BY FirstNewWallet
        <3>3. FirstTables(db, 0)
            BY <3>1, <3>2, RestoredWallet
        <3>. QED
            BY <3>3
    <2>2. CASE scene # "restore"
        BY <1>3, <2>2 DEF SceneTables, FirstTables
    <2>. QED
        BY <2>1, <2>2
<1>5. PICK n \in Nat : FirstTables(db, n) /\ (scene = "restore" => n = 0)
    BY <1>4
<1>6. /\ WithdrawalBooks(db) /\ SelectionsInt(db)
      /\ PlannedIn(db.withdrawalGroups) = FirstCoins(n) /\ ClaimedIn(db.withdrawalGroups) = CoinValue * n
      /\ \A g \in DOMAIN db.withdrawalGroups : ~db.withdrawalGroups[g].deleted
    BY <1>5, FirstClaims
<1>7. CASE scene = "restore"
    <2>1. FirstSigned = {WithdrawnElsewhere} /\ Money = 2 * CoinValue /\ n = 0 /\ Money \in Nat
        BY <1>5, <1>7, FeeAssumption DEF FirstSigned, Money
    <2>2. IsFiniteSet(FirstSigned)
        BY <2>1, FS_Singleton
    <2>3. ExchangeBooks(exchange) /\ IncomeOf(exchange) = Money /\ exchange.signed = FirstSigned
        BY <1>2, <2>1, <2>2, FirstExchangeBooks
    <2>4. CoinValue * n + Others(exchange) <= IncomeOf(exchange)
        BY <2>1, <2>3, FeeAssumption DEF Others
    <2>5. Covered(db.withdrawalGroups, exchange)
        BY <1>6, <2>4, FirstCovered
    <2>. QED
        BY <1>1, <1>6, <2>3, <2>5 DEF ReserveInv
<1>8. CASE scene # "restore"
    <2>1. DOMAIN db.planchets = FirstCoins(n) /\ FirstSigned = {c \in DOMAIN db.coins : SourceOf(c) = "withdraw"}
          /\ Money = CoinValue * Cardinality(DOMAIN db.planchets)
        BY <1>5, <1>8 DEF FirstTables, FirstSigned, Money
    <2>2. FirstSigned \subseteq FirstCoins(n)
        BY <1>5, <2>1 DEF FirstTables
    <2>3. IsFiniteSet(FirstCoins(n)) /\ Cardinality(FirstCoins(n)) = n
        <3>1. FirstCoins(n) = GroupCoins(1, n)
            BY DEF FirstCoins, GroupCoins
        <3>. QED
            BY <3>1, GroupCounts
    <2>4. IsFiniteSet(FirstSigned) /\ WithdrawnElsewhere \notin FirstSigned
        <3>1. WithdrawnElsewhere \notin FirstCoins(n)
            BY DEF FirstCoins, WithdrawCoin, WithdrawnElsewhere
        <3>. QED
            BY <2>2, <2>3, <3>1, FS_Subset
    <2>5. Money = CoinValue * n /\ Money \in Nat
        BY <2>1, <2>3, Products, FeeAssumption
    <2>6. ExchangeBooks(exchange) /\ IncomeOf(exchange) = Money /\ exchange.signed = FirstSigned
        BY <1>2, <2>4, <2>5, FirstExchangeBooks
    <2>7. CoinValue * n + Others(exchange) <= IncomeOf(exchange)
        <3>1. Others(exchange) = 0
            BY <2>4, <2>6 DEF Others
        <3>. PICK x : x = CoinValue * n
            OBVIOUS
        <3>. QED
            BY <2>5, <2>6, <3>1
    <2>8. Covered(db.withdrawalGroups, exchange)
        BY <1>6, <2>7, FirstCovered
    <2>. QED
        BY <1>1, <1>6, <2>6, <2>8 DEF ReserveInv
<1>. QED
    BY <1>7, <1>8

-----------------------------------------------------------------------------
(* Every step keeps the invariant: those of the pending operations, *)
LEMMA ReserveBackground ==
    ASSUME WalletInv, LedgerInv, ReserveInv, Background
    PROVE  ReserveInv'
<1>1. CASE RefreshNext \/ RecoupNext
    BY <1>1, ReserveRefreshes
<1>2. CASE PayNext
    <2>1. CASE \E o \in Orders : ProcessDownloadProposal(o) \/ ProcessPurchasePay(o)
        BY <2>1, ReserveRequests
    <2>2. ASSUME NEW t \in tasks,
                 \/ ClaimOrder(t) \/ FailProposalPermanently(t) \/ StoreContractTerms(t)
                 \/ SelectCoins(t) \/ PostPaid(t) \/ HandleInsufficientFunds(t)
                 \/ SelectCoinsAgain(t)
          PROVE  ReserveInv'
        BY <2>2, ReservePayments
    <2>3. ASSUME NEW t \in tasks,
                 \/ RecordConfirmPay(t) \/ PostPay(t) \/ StoreFirstPaySuccess(t) \/ StorePayReplaySuccess(t)
                 \/ FreezePay(t) \/ StoreReselection(t)
          PROVE  ReserveInv'
        BY <2>3, ReservePayments, ReserveMerchant
    <2>. QED
        BY <1>2, <2>1, <2>2, <2>3 DEF PayNext
<1>3. CASE RefundNext
    <2>1. CASE \E o \in Orders : ProcessPurchaseQueryRefund(o)
        BY <2>1, ReserveRequests
    <2>2. ASSUME NEW t \in tasks, PollAutoRefund(t) \/ PostRefund(t) \/ PostAbort(t) \/ AcceptRefunds(t)
          PROVE  ReserveInv'
        BY <2>2, ReserveRefunds, ReserveMerchant
    <2>. QED
        BY <1>3, <2>1, <2>2 DEF RefundNext
<1>4. CASE ReserveNext
    <2>1. CASE ProcessReserve
        BY <2>1, ReservePromise
    <2>2. CASE \E g \in DOMAIN db.withdrawalGroups : ProcessWithdrawGroup(g)
        BY <2>2, ReserveRequests
    <2>3. ASSUME NEW t \in tasks,
                 \/ BankStatus(t) \/ StoreBankStatus(t) \/ PostRegistration(t) \/ StoreRegistration(t)
                 \/ QueryReserve(t) \/ AfterWithdraw(t)
          PROVE  ReserveInv'
        BY <2>3, ReservePromise
    <2>4. ASSUME NEW t \in tasks,
                 \/ StoreReserve(t) \/ PlanchetGenerate(t) \/ PlanchetRequest(t) \/ StoreCoin(t)
                 \/ FinishWithdraw(t)
          PROVE  ReserveInv'
        BY <2>4, ReserveStored, ReserveWithdrawals, ReserveSignatures
    <2>. QED
        BY <1>4, <2>1, <2>2, <2>3, <2>4 DEF ReserveNext
<1>5. CASE DepositNext
    BY <1>5, ReserveDeposits
<1>6. CASE TipNext
    <2>1. CASE \E r \in DOMAIN db.tips : ProcessTip(r)
        BY <2>1, ReserveRequests
    <2>2. ASSUME NEW t \in tasks, PickupTip(t) \/ StoreTipCoins(t) PROVE ReserveInv'
        BY <2>2, ReserveSignatures, ReserveRefunds
    <2>. QED
        BY <1>6, <2>1, <2>2 DEF TipNext
<1>7. CASE Crash
    BY <1>7, ReserveRequests
<1>. QED
    BY <1>1, <1>2, <1>3, <1>4, <1>5, <1>6, <1>7 DEF Background

(* those of the user, the merchant and the bank, *)
LEMMA ReserveOfUser ==
    ASSUME WalletInv, LedgerInv, ReserveInv, PayUser \/ ShopUser \/ RefundUser \/ ReserveUser \/ OtherUser
    PROVE  ReserveInv'
<1>0. 1 \in Orders /\ 2 \in Orders /\ 3 \in Orders
    BY ScenesAssumption
<1>1. CASE PayUser
    BY <1>0, <1>1, ReserveRequests, ReserveRefreshes DEF PayUser
<1>2. CASE ShopUser
    <2>1. PICK o \in {1, 2} : StartDownloadProposal(o) \/ RefuseProposal(o) \/ ConfirmPay(o)
        BY <1>2 DEF ShopUser
    <2>. QED
        BY <1>0, <2>1, ReserveRequests
<1>3. CASE RefundUser
    BY <1>0, <1>3, ReserveRequests DEF RefundUser
<1>4. CASE ReserveUser
    <2>1. CASE CreateReserve \/ ForceQueryReserve
        BY <2>1, ReservePromise
    <2>2. CASE BankConfirms \/ BankAborts
        BY <2>2, ReserveRequests
    <2>3. CASE TransferArrives(2 * CoinValue)
        BY <2>3, ReserveTransfer
    <2>4. CASE \E g \in DOMAIN db.withdrawalGroups : DeleteWithdrawal(g)
        BY <2>4, ReserveDeletion
    <2>. QED
        BY <1>4, <2>1, <2>2, <2>3, <2>4 DEF ReserveUser
<1>5. CASE OtherUser
    <2>1. CASE \E t \in tasks : StoreTip(t, 1)
        BY <2>1, ReserveRefunds
    <2>2. CASE \E d \in Denoms : RevokeDenomination(d) \/ AutoRefresh(d)
        BY <2>2, ReserveRefreshes
    <2>3. CASE \/ CreateDepositGroup(Price[1]) \/ ConfirmPay(1) \/ StartDownloadProposal(1)
               \/ StartDownloadProposal(3) \/ PrepareTip \/ \E r \in DOMAIN db.tips : AcceptTip(r)
        BY <1>0, <2>3, ReserveRequests
    <2>. QED
        BY <1>5, <2>1, <2>2, <2>3 DEF OtherUser
<1>. QED
    BY <1>1, <1>2, <1>3, <1>4, <1>5

(* and stutters. *)
LEMMA ReserveKept ==
    ASSUME WalletInv, LedgerInv, ReserveInv, [Next]_vars
    PROVE  ReserveInv'
<1>1. CASE Next
    BY <1>1, ReserveBackground, ReserveOfUser DEF Next
<1>2. CASE UNCHANGED vars
    <2>1. UNCHANGED <<db, tasks, exchange, raced>>
        BY <1>2 DEF vars
    <2>2. NewTasksHeed
        BY <2>1 DEF NewTasksHeed
    <2>. QED
        BY <2>1, <2>2, StockStep DEF SameStock
<1>. QED
    BY <1>1, <1>2

(* What the reserve's groups claim is covered by what was paid in, whatever promises read of the     *)
(* reserve before other promises, the user, another device or a recoup changed it.                 *)
THEOREM ReserveBooks == Spec => [](WalletInv /\ LedgerInv /\ ReserveInv)
<1>1. Init => WalletInv /\ LedgerInv /\ ReserveInv
    BY InitInv, LedgerInit, ReserveInit
<1>2. WalletInv /\ LedgerInv /\ ReserveInv /\ [Next]_vars => WalletInv' /\ LedgerInv' /\ ReserveInv'
    BY NextStep, LedgerNext, ReserveKept
<1>. QED
    BY <1>1, <1>2, PTL DEF Spec

(* The coins that the groups plan and those that the exchange has signed cost no more than what the  *)
(* reserve was paid, unless the user deleted a group: updateReserve never creates a group that could *)
(* not finish.                                                                                    *)
THEOREM NotOverdrawn == Spec => []ReserveNotOverdrawn
<1>1. WalletInv /\ ReserveInv => ReserveNotOverdrawn
    <2>. DEFINE ws == db.withdrawalGroups
                planned == UNION {PlannedCoins(g) : g \in DOMAIN ws}
                others == Withdrawn \ planned
    <2>1. SUFFICES ASSUME WalletInv, ReserveInv, <<"reserve", 1>> \notin raced
                   PROVE  CoinValue * Cardinality(planned \cup Withdrawn) <= Credits
        BY DEF ReserveNotOverdrawn
    <2>2. planned = PlannedIn(ws) /\ Credits = IncomeOf(exchange)
        BY DEF PlannedIn, PlannedCoins, Credits, IncomeOf
    <2>3. /\ IsFiniteSet(planned) /\ CoinValue * Cardinality(planned) <= ClaimedIn(ws)
          /\ ClaimedIn(ws) + Others(exchange) <= Credits
        BY <2>1, <2>2 DEF ReserveInv, Covered
    <2>4. ClaimedIn(ws) \in Int /\ Credits \in Nat /\ Others(exchange) \in Nat
        <3>1. ClaimedIn(ws) \in Int
            BY <2>1, ClaimsInt DEF WalletInv, TablesInv, WithdrawInv, ReserveInv, WithdrawalBooks
        <3>2. Credits \in Nat
            BY <2>1, <2>2, IncomeNat DEF ReserveInv
        <3>. QED
            BY <3>1, <3>2, FeeAssumption DEF Others
    <2>5. others \subseteq {WithdrawnElsewhere} /\ others \subseteq exchange.signed
        <3>1. ASSUME NEW c \in Withdrawn, c # WithdrawnElsewhere PROVE c \in planned
            BY <2>1, <3>1 DEF WalletInv, TablesInv, WithdrawInv, Withdrawn
        <3>. QED
            BY <3>1 DEF Withdrawn
    <2>6. planned \cup Withdrawn = planned \cup others
        OBVIOUS
    <2>. HIDE DEF ws, planned, others
    <2>7. CASE others = {}
        <3>1. CoinValue * Cardinality(planned \cup Withdrawn) <= ClaimedIn(ws)
            BY <2>3, <2>6, <2>7
        <3>2. Cardinality(planned \cup Withdrawn) \in Nat
            BY <2>3, <2>6, <2>7, FS_CardinalityType
        <3>. PICK x : x = CoinValue * Cardinality(planned \cup Withdrawn)
            OBVIOUS
        <3>3. x \in Nat
            BY <3>2, Products, FeeAssumption
        <3>. QED
            BY <2>3, <2>4, <3>1, <3>3
    <2>8. CASE others # {}
        <3>1. others = {WithdrawnElsewhere} /\ Others(exchange) = CoinValue
            BY <2>5, <2>8 DEF Others
        <3>p. PICK a, b : a = Cardinality(planned) /\ b = Cardinality(planned \cup {WithdrawnElsewhere})
            OBVIOUS
        <3>a. a \in Nat /\ b \in Nat
            BY <2>3, <3>p, FS_AddElement, FS_CardinalityType
        <3>b. b = IF WithdrawnElsewhere \in planned THEN a ELSE a + 1
            BY <2>3, <3>p, FS_AddElement
        <3>2. a \in Nat /\ b \in Nat /\ b <= a + 1
            BY <3>a, <3>b
        <3>3. CoinValue * b <= CoinValue * a + CoinValue /\ CoinValue * a \in Nat /\ CoinValue * b \in Nat
            <4>1. CoinValue * b <= CoinValue * (a + 1)
                BY <3>2, Products, FeeAssumption
            <4>2. CoinValue * (a + 1) = CoinValue * a + CoinValue * 1 /\ CoinValue * 1 = CoinValue
                BY <3>2, Products, FeeAssumption
            <4>. QED
                BY <3>2, <4>1, <4>2, Products, FeeAssumption
        <3>4. CoinValue * a <= ClaimedIn(ws) /\ ClaimedIn(ws) + CoinValue <= Credits
            BY <2>3, <3>1, <3>p
        <3>x. PICK x, y : x = CoinValue * a /\ y = CoinValue * b
            OBVIOUS
        <3>t. /\ x \in Nat /\ y \in Nat /\ y <= x + CoinValue
              /\ x <= ClaimedIn(ws) /\ ClaimedIn(ws) + CoinValue <= Credits
            BY <3>3, <3>4, <3>x
        <3>5. y <= Credits
            BY <2>4, <3>t, FeeAssumption
        <3>6. planned \cup Withdrawn = planned \cup {WithdrawnElsewhere}
            BY <2>6, <3>1
        <3>. QED
            BY <3>5, <3>6, <3>p, <3>x
    <2>. QED
        BY <2>7, <2>8
<1>. QED
    BY <1>1, ReserveBooks, PTL
=============================================================================
