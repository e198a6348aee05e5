----------------------------------- MODULE Wallet -----------------------------------
(* The wallet as a whole: the operations of the other modules, interleaved, with *)
(* the user's requests, and with crashes, after which only the database is left. *)
(* wallet.ts runs a pending operation as often as it is pending; several promises *)
(* of one record overlap when the user's request and the task loop meet.        *)
EXTENDS RefreshOps, RefundOps, ReserveOps, RecoupOps, DepositOps, TipOps

CONSTANTS
    Scenes,       \* what the user is up to: some of AllScenes
    Coins         \* bound: coins withdrawn in the beginning

AllScenes == {"pay", "shop", "refresh", "refund", "withdraw", "restore", "recoup", "deposit", "tip"}

ASSUME SceneAssumption == Scenes \subseteq AllScenes /\ Scenes = DOMAIN MaxGroups /\ Scenes = DOMAIN MaxTasks
ASSUME CoinsAssumption == Coins \in Nat
ASSUME ScenesAssumption == {1, 2, 3} \subseteq Orders    \* the orders that the scenes are about

-----------------------------------------------------------------------------
(* The wallet after one withdrawal                                             *)
FirstCoins(n) == {WithdrawCoin(1, i) : i \in 1 .. n}
ADenom == CHOOSE d \in Denoms : TRUE

Withdrawal(n) ==
    [coins |-> [c \in FirstCoins(n) |-> FreshCoin(CoinValue, ADenom)],
     refreshGroups |-> <<>>, recoupGroups |-> <<>>, depositGroups |-> <<>>, tips |-> <<>>,
     proposals |-> [o \in Orders |-> [status |-> "none", repurchase |-> Nil]],
     purchases |-> [o \in Orders |-> Absent],
     revoked |-> {},
     reserve |-> [status |-> "DORMANT", requestedQuery |-> FALSE],
     withdrawalGroups |-> <<[count |-> n, denom |-> ADenom, finished |-> TRUE, deleted |-> FALSE]>>,
     planchets |-> [c \in FirstCoins(n) |-> "done"]]

(* Order 2 has been confirmed with two whole coins and not yet been paid; there  *)
(* was nothing left to refresh.                                                *)
Confirmed(d) ==
    LET spent == ApplyCoinSpend(
            [d EXCEPT !.proposals[2].status = "ACCEPTED",
                      !.purchases[2] = NewPurchase([c \in FirstCoins(2) |-> CoinValue])],
            [c \in FirstCoins(2) |-> CoinValue], AllocationId(2))
    IN [spent EXCEPT !.refreshGroups[1].statusPerCoin = <<"Finished", "Finished">>,
                     !.refreshGroups[1].state = "finished"]

(* A coin that was spent in part and refreshed: its change is a coin too        *)
Refreshed(d, c, amount) ==
    LET change == Sub(CoinValue - amount, RefreshFee) IN
    [d EXCEPT !.coins = Stored([d.coins EXCEPT ![c].currentAmount = 0, ![c].status = "Dormant",
                                   ![c].allocation = [id |-> <<"deposit-group", 0>>, amount |-> amount]],
                               {RefreshCoin(1, 1)}, FreshCoin(change, ADenom)),
              !.refreshGroups = <<[oldCoinPubs |-> <<c>>, inputPerCoin |-> <<CoinValue - amount>>,
                    statusPerCoin |-> <<"Finished">>, state |-> "finished",
                    session |-> <<[seed |-> 1, output |-> change, denom |-> ADenom, melted |-> TRUE]>>]>>]

NewWallet == [Withdrawal(0) EXCEPT !.reserve.status = "none", !.withdrawalGroups = <<>>]

FirstDb == CASE scene = "withdraw" -> NewWallet
             [] scene = "tip" -> NewWallet
             [] scene = "restore" -> [NewWallet EXCEPT !.reserve.status = "QUERYING_STATUS"]
             [] scene = "refund" -> Confirmed(Withdrawal(2))
             [] scene = "recoup" -> Refreshed(Withdrawal(2), WithdrawCoin(1, 1), 1)
             [] scene \in {"shop", "refresh"} -> Withdrawal(2)
             [] OTHER -> Withdrawal(Coins)

(* Another device that has the same backup may have spent a coin.               *)
SpentElsewhere == [contract |-> <<"elsewhere", 0>>, coin |-> WithdrawCoin(1, 1),
                   amount |-> CoinValue, refunded |-> Nil]

FirstDeposits ==
    CASE scene \in {"pay", "deposit"} -> {{}, {SpentElsewhere}}
      [] scene = "recoup" -> {{[contract |-> <<"deposit-group", 0>>, coin |-> WithdrawCoin(1, 1),
                                amount |-> 1, refunded |-> Nil]}}
      [] OTHER -> {{}}

FirstMelts ==
    IF scene # "recoup" THEN {}
    ELSE {[coin |-> WithdrawCoin(1, 1), session |-> <<1, 1>>, seed |-> 1,
           amount |-> CoinValue - 1, revealed |-> TRUE, returned |-> 0]}

(* The reserve came from a backup, and another device has withdrawn from it.    *)
WithdrawnElsewhere == WithdrawCoin(0, 1)
FirstSigned == IF scene = "restore" THEN {WithdrawnElsewhere}
               ELSE {c \in DOMAIN db.coins : SourceOf(c) = "withdraw"}
Money == IF scene = "restore" THEN 2 * CoinValue ELSE CoinValue * Cardinality(DOMAIN db.planchets)

Init ==
    /\ scene \in Scenes
    /\ db = FirstDb
    /\ tasks = {}
    /\ \E deposits \in FirstDeposits :
          exchange = [deposits |-> deposits, melts |-> FirstMelts, recoups |-> {},
                      signed |-> FirstSigned, reserve |-> [credit |-> Money]]
    /\ merchant = [orders |-> [o \in Orders |-> [paid |-> FALSE, granted |-> FALSE]], tip |-> Nil]
    /\ bank = [selected |-> Money > 0, aborted |-> FALSE, transferred |-> Money > 0]
    /\ raced = {}

-----------------------------------------------------------------------------
(* Crash: the promises are gone.                                               *)
Crash ==
    /\ tasks # {}
    /\ tasks' = {}
    /\ UNCHANGED <<db, exchange, merchant, bank, raced, scene>>

(* What the user may ask for in each scene                                     *)
In(s) == scene = s

PayUser ==
    \/ In("pay") /\ StartDownloadProposal(1)
    \/ In("pay") /\ ConfirmPay(1)
    \/ In("pay") /\ \E d \in Denoms : AutoRefresh(d)
    \/ In("refresh") /\ \E d \in Denoms : AutoRefresh(d)
    \/ In("refresh") /\ \E d \in Denoms : RevokeDenomination(d)

ShopUser ==
    \/ In("shop") /\ \E o \in {1, 2} : StartDownloadProposal(o)
    \/ In("shop") /\ \E o \in {1, 2} : RefuseProposal(o)
    \/ In("shop") /\ \E o \in {1, 2} : ConfirmPay(o)

RefundUser ==
    \/ In("refund") /\ ConfirmPayNewSession(2)
    \/ In("refund") /\ ApplyRefund(2)
    \/ In("refund") /\ GrantRefund(2)
    \/ In("refund") /\ AbortFailedPayWithRefund(2)
    \/ In("refund") /\ AutoRefundExpires(2)

ReserveUser ==
    \/ In("withdraw") /\ CreateReserve
    \/ In("withdraw") /\ BankConfirms
    \/ In("withdraw") /\ BankAborts
    \/ In("withdraw") /\ TransferArrives(2 * CoinValue)
    \/ In("withdraw") /\ ForceQueryReserve
    \/ In("withdraw") /\ \E g \in DOMAIN db.withdrawalGroups : DeleteWithdrawal(g)

OtherUser ==
    \/ In("recoup") /\ \E d \in Denoms : RevokeDenomination(d)
    \/ In("deposit") /\ CreateDepositGroup(Price[1])
    \/ In("deposit") /\ ConfirmPay(1)
    \/ In("deposit") /\ StartDownloadProposal(1)
    \/ In("tip") /\ StartDownloadProposal(3)
    \/ In("tip") /\ PrepareTip
    \/ In("tip") /\ \E t \in tasks : StoreTip(t, 1)
    \/ In("tip") /\ \E r \in DOMAIN db.tips : AcceptTip(r)
    \/ In("tip") /\ \E d \in Denoms : AutoRefresh(d)

(* Pending operations. To keep the instance small, the refresh groups of shop    *)
(* and refund stay pending; those of every other scene are processed.           *)
Background ==
    \/ ~In("refund") /\ ~In("shop") /\ RefreshNext
    \/ PayNext \/ RefundNext \/ ReserveNext \/ RecoupNext \/ DepositNext \/ TipNext
    \/ Crash

Next ==
    \/ Background
    \/ PayUser \/ ShopUser \/ RefundUser \/ ReserveUser \/ OtherUser

Spec == Init /\ [][Next]_vars
=============================================================================
