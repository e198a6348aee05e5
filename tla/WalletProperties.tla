------------------------------ MODULE WalletProperties ------------------------------
(* What the wallet must keep true through races, failed requests and crashes.   *)
(* raced names the coins and orders that the races listed in the README have     *)
(* hit; everything else must be right.                                         *)
EXTENDS Wallet

Contracts(c) == IF db.coins[c].allocation = Absent THEN {} ELSE {db.coins[c].allocation.id}
Sound(c) == /\ c \notin raced /\ Contracts(c) \cap raced = {}
            /\ SourceOf(c) = "refresh" => OldCoin(c) \notin raced

Inputs(c) == {k \in UNION {SessionKeys(g) : g \in DOMAIN db.refreshGroups} :
                 db.refreshGroups[k[1]].oldCoinPubs[k[2]] = c}
Input(k) == db.refreshGroups[k[1]].inputPerCoin[k[2]]

Recoups == UNION {RecoupKeys(g) : g \in DOMAIN db.recoupGroups}
CoinOf(k) == db.recoupGroups[k[1]].coinPubs[k[2]]
Moved(k) == db.recoupGroups[k[1]].oldAmountPerCoin[k[2]]
IsFinished(k) == k[2] \in db.recoupGroups[k[1]].finishedPerCoin

Allocated(c) == IF db.coins[c].allocation = Absent THEN 0 ELSE db.coins[c].allocation.amount
Purchases == {o \in Orders : HasPurchase(o)}
RefundKeys(o, c) == {k \in DOMAIN db.purchases[o].refunds : k[1] = c}
RefundsOf(c) == UNION {{<<o, k>> : k \in RefundKeys(o, c)} : o \in Purchases}
Refunds(c) == SumFunction([q \in RefundsOf(c) |-> db.purchases[q[1]].refunds[q[2]].credit])
RecoupsTo(c) == {k \in Recoups : /\ SourceOf(CoinOf(k)) = "refresh" /\ OldCoin(CoinOf(k)) = c
                                 /\ IsFinished(k)}

-----------------------------------------------------------------------------
(* Money is neither lost nor made inside the wallet: the value of a coin, and    *)
(* what refunds and recoups put back on it, is on the coin, or allocated to one  *)
(* payment, or the input of refresh sessions, or of recoups. It takes the        *)
(* transactions of six files to keep this: applyCoinSpend, createRefreshGroup,   *)
(* acceptRefunds, createRecoupGroup, recoupRefreshCoin.                          *)
LedgerConserved ==
    \A c \in DOMAIN db.coins : Sound(c) =>
        db.coins[c].value + Refunds(c) + SumFunction([k \in RecoupsTo(c) |-> Moved(k)])
          = db.coins[c].currentAmount + Allocated(c) + SumFunction([k \in Inputs(c) |-> Input(k)])
            + SumFunction([k \in {k \in Recoups : CoinOf(k) = c} |-> Moved(k)])

(* The wallet never counts on money that the exchange would refuse: what is on a *)
(* coin, not yet melted, not yet recouped and not yet deposited, is covered by    *)
(* what the exchange has left of it. (A coin spent by another device is not.)    *)
ClaimedAllocation(c) ==
    LET id == db.coins[c].allocation.id
        deposited == \E p \in exchange.deposits : p.contract = id /\ p.coin = c
        given(o) == AllocationId(o) = id /\ RefundKeys(o, c) # {}
        broken(o) == AllocationId(o) = id /\ c \notin DOMAIN db.purchases[o].payCoinSelection
    IN IF db.coins[c].allocation = Absent \/ deposited \/ (\E o \in Purchases : given(o) \/ broken(o)) THEN 0
       ELSE Allocated(c)

Unmelted(c) == {k \in Inputs(c) : /\ db.refreshGroups[k[1]].statusPerCoin[k[2]] = "Pending"
                                  /\ \A m \in MeltsOf(c) : m.session # k}
Unrecouped(c) == {k \in Recoups : /\ CoinOf(k) = c /\ ~IsFinished(k) /\ SourceOf(c) # "tip"
                                  /\ \A r \in exchange.recoups : r.coin # c}

Claimed(c) ==
    db.coins[c].currentAmount + ClaimedAllocation(c)
    + SumFunction([k \in Unmelted(c) |-> Input(k)]) + SumFunction([k \in Unrecouped(c) |-> Moved(k)])

NeverOverclaims ==
    \A c \in DOMAIN db.coins : Sound(c) /\ SpentElsewhere \notin DepositsOf(c) => Claimed(c) <= Remaining(c)

(* Whatever the exchange has signed or melted can be had again after a crash: the *)
(* planchet, the tip's seed or the session's seed was stored before the request.  *)
SignedIsDerivable ==
    /\ \A c \in exchange.signed \ {WithdrawnElsewhere} :
          IF SourceOf(c) = "withdraw" THEN c \in DOMAIN db.planchets ELSE c[2] \in DOMAIN db.tips
    /\ \A m \in exchange.melts :
          LET sessions == db.refreshGroups[m.session[1]].session
          IN m.session[2] \in DOMAIN sessions /\ sessions[m.session[2]].seed = m.seed

(* Nothing that the exchange or the merchant owes the wallet is forgotten: as     *)
(* long as it is not in the tables of coins and refunds, an operation is pending  *)
(* for it (pending.ts).                                                        *)
NothingForgotten ==
    /\ \A c \in exchange.signed \ (DOMAIN db.coins \cup {WithdrawnElsewhere}) :
          IF SourceOf(c) = "withdraw"
          THEN ~db.withdrawalGroups[c[2]].finished
          ELSE db.tips[c[2]].accepted /\ ~db.tips[c[2]].pickedUp
    /\ \A m \in exchange.melts : RefreshCoin(m.session[1], m.session[2]) \in DOMAIN db.coins \cup raced
                                 \/ db.refreshGroups[m.session[1]].state = "active"
    /\ \A r \in exchange.recoups : \E k \in Recoups :
          CoinOf(k) = r.coin /\ (IsFinished(k) \/ ~db.recoupGroups[k[1]].finished)
    /\ \A o \in Purchases : db.purchases[o].abortStatus = "AbortRefund"
                            => db.purchases[o].refundQueryRequested
    /\ \A g \in DOMAIN db.depositGroups : db.depositGroups[g].finished
          => \A c \in DOMAIN db.depositGroups[g].payCoinSelection :
                \E p \in exchange.deposits : p.contract = DepositContract(g) /\ p.coin = c

(* A paid order was paid exactly: the coins that were deposited for it, in one    *)
(* attempt or after new selections (handleInsufficientFunds), are its price.      *)
PaidExactly ==
    \A o \in Purchases : db.purchases[o].paid /\ AllocationId(o) \notin raced =>
        SumFunction([p \in DepositsFor(o) |-> p.amount]) = Price[o]

(* When an abort is finished every coin of the payment was refunded, or found not  *)
(* to be deposited: its contribution is back on it, but for the exchange's fee.  *)
AbortReturnsCoins ==
    \A o \in Purchases :
        LET p == db.purchases[o] IN
        p.abortStatus = "AbortFinished" /\ ~p.paid /\ AllocationId(o) \notin raced =>
            \A c \in DOMAIN p.payCoinSelection :
                /\ <<c, 0>> \in DOMAIN p.refunds /\ p.refunds[<<c, 0>>].state # "Pending"
                /\ p.refunds[<<c, 0>>].credit >= p.payCoinSelection[c] - RefundFee

(* The withdrawal groups never claim more coins than the reserve pays for: a        *)
(* group beyond it could never finish.                                          *)
ReserveNotOverdrawn ==
    LET planned == UNION {PlannedCoins(g) : g \in DOMAIN db.withdrawalGroups} IN
    <<"reserve", 1>> \notin raced =>
        CoinValue * Cardinality(planned \cup Withdrawn) <= Credits

(* A coin that was spent, melted or recouped is never offered again (db.ts calls   *)
(* a Fresh coin "withdrawn and never shown to anybody").                          *)
SpentStaysSpent ==
    [][\A c \in DOMAIN db.coins :
          db.coins[c].status = "Dormant" /\ db'.coins[c].status = "Fresh" => c \in raced']_vars
=============================================================================
