------------------------------ MODULE WalletStores ------------------------------
(* The state that the operations of the Taler wallet (taler-wallet-core) share: *)
(* the tables of its database (db.ts), the promises that are running, and the  *)
(* exchange, merchant and bank that it talks to, which are external.           *)
(* A transaction of the database is one step on db: IndexedDB runs them one    *)
(* after the other (MemoryBackend.ts, modelled in IndexedStore).               *)
EXTENDS Integers, Sequences, FiniteSets, FiniteSetsExt, SequencesExt

CONSTANTS
    Nil,          \* JavaScript's undefined
    Orders,       \* the merchant's orders, 1 .. n; an order has at most one proposal
    Price,        \* Price[o]: the amount of the contract of order o
    Product,      \* Product[o]: its fulfillment URL
    AutoRefund,   \* the orders whose contract has an auto_refund
    Malformed,    \* the orders whose contract terms the wallet rejects
    Denoms,       \* the exchange's denominations
    CoinValue,    \* the value of a withdrawn coin
    RefreshFee,   \* feeRefresh of every denomination
    RefundFee,    \* feeRefund of every denomination
    MaxGroups,    \* MaxGroups[s]: bound in scene s on refresh groups, and on withdrawal groups
    MaxTasks,     \* MaxTasks[s]: bound in scene s on promises that run at the same time
    Attempts      \* bound: promises of one kind for one record at the same time

ASSUME OrdersAssumption == /\ Orders \in SUBSET (Nat \ {0})
                           /\ Price \in [Orders -> Nat \ {0}]
                           /\ DOMAIN Product = Orders
                           /\ AutoRefund \cup Malformed \subseteq Orders
ASSUME FeeAssumption == CoinValue \in Nat \ {0} /\ {RefreshFee, RefundFee} \subseteq Nat
ASSUME BoundAssumption == /\ Attempts \in Nat \ {0}
                          /\ \A s \in DOMAIN MaxGroups : {MaxGroups[s], MaxTasks[s]} \subseteq Nat \ {0}

VARIABLES
    db,        \* the wallet's tables
    tasks,     \* the running promises, one record each
    exchange,  \* what the exchange has on record
    merchant,  \* what the merchant has on record
    bank,      \* the bank's record of the withdrawal operation of each reserve
    raced,     \* history: the coins, orders and reserves that were hit by a race
    scene      \* what the user is up to, which never changes

vars == <<db, tasks, exchange, merchant, bank, raced, scene>>

-----------------------------------------------------------------------------
(* Amounts: Amounts.sub saturates at zero, Amounts.add is exact in this range. *)

Sub(a, b) == IF a < b THEN 0 ELSE a - b

(* A coin is named after the planchet it is derived from: withdrawal group and *)
(* index, refresh group and index, tip record and index.                       *)
WithdrawCoin(g, i) == <<"withdraw", g, i>>
RefreshCoin(g, i) == <<"refresh", g, i>>
TipCoin(t, i) == <<"tip", t, i>>
SourceOf(c) == c[1]

-----------------------------------------------------------------------------
(* The records that the operations create; Absent is where there may be one, and *)
(* is none.                                                                    *)

Absent == <<>>

Stored(table, keys, record) ==
    [k \in DOMAIN table \cup keys |-> IF k \in keys THEN record ELSE table[k]]

FreshCoin(v, d) ==
    [value |-> v, currentAmount |-> v, status |-> "Fresh", allocation |-> Absent, denom |-> d]

NewProposal == [status |-> "DOWNLOADING", repurchase |-> Nil]

NewPurchase(sel) ==
    [payCoinSelection |-> sel, paymentSubmitPending |-> TRUE, paid |-> FALSE,
     payFrozen |-> FALSE, abortStatus |-> "None",
     refundQueryRequested |-> FALSE, autoRefund |-> FALSE, refunds |-> <<>>]

(* A revoked denomination is not used for new coins.                           *)
Offered == Denoms \ db.revoked
NewDenom == CHOOSE d \in Offered : TRUE

(* isSpendableCoin and the candidates of a payment (deposit expiry and         *)
(* suspended coins are not modelled).                                          *)
Spendable(c) ==
    /\ db.coins[c].status = "Fresh"
    /\ db.coins[c].denom \notin db.revoked

-----------------------------------------------------------------------------
(* Promises: the operation, the record it is about, a number that tells         *)
(* promises of one kind on one record apart, where the promise is, its local     *)
(* data, and whether the memo of the operation still holds it.                   *)
Op(t) == t[1]
Key(t) == t[2]
Number(t) == t[3]
Pc(t) == t[4]
Loc(t) == t[5]
Held(t) == t[6]

Running(op, key) == {t \in tasks : Op(t) = op /\ Key(t) = key}

Task(op, key, pc, loc) ==
    <<op, key, Min((1 .. Attempts) \ {Number(t) : t \in Running(op, key)}), pc, loc, TRUE>>

HasRoom(k, op, keys) == /\ Cardinality(tasks) + k <= MaxTasks[scene]
                        /\ \A key \in keys : Cardinality(Running(op, key)) < Attempts

Start(op, key, pc, loc) == /\ HasRoom(1, op, {key})
                           /\ tasks' = tasks \cup {Task(op, key, pc, loc)}

At(t, op, pc) == Op(t) = op /\ Pc(t) = pc
MovedTo(t, pc, loc) == [t EXCEPT ![4] = pc, ![5] = loc]
Goto(t, pc, loc) == tasks' = (tasks \ {t}) \cup {MovedTo(t, pc, loc)}
Done(t) == tasks' = tasks \ {t}

(* AsyncOpMemoMap: an operation is not started while its memo holds a promise. *)
Memoized(op, keys) == \E t \in tasks : Op(t) = op /\ Key(t) \in keys /\ Held(t)

(* One promise of a Promise.all rejects: so does the promise of the group, its *)
(* memo entry is dropped, and the others go on without it.                     *)
Reject(t, keys) ==
    tasks' = {IF Op(u) = Op(t) /\ Key(u) \in keys THEN [u EXCEPT ![6] = FALSE] ELSE u :
                 u \in tasks \ {t}}

-----------------------------------------------------------------------------
(* applyCoinSpend and createRefreshGroup, which other operations call inside   *)
(* their transactions. Both take the database d and return the one they leave. *)

NewGroup(d, cs) ==
    [oldCoinPubs |-> cs,
     inputPerCoin |-> [i \in DOMAIN cs |-> d.coins[cs[i]].currentAmount],
     statusPerCoin |-> [i \in DOMAIN cs |-> "Pending"],
     session |-> <<>>,
     state |-> IF cs = <<>> THEN "finished" ELSE "active"]

(* Mutant: the amount stays on the coins.                                      *)
CreateGroupOnly(d, cs) ==
    [d EXCEPT !.coins = [c \in DOMAIN @ |-> IF c \in Range(cs) THEN [@[c] EXCEPT !.status = "Dormant"]
                                            ELSE @[c]],
              !.refreshGroups = Append(@, NewGroup(d, cs))]

CreateRefreshGroup(d, cs) ==
    [d EXCEPT
       !.coins = [c \in DOMAIN d.coins |->
                     IF c \in Range(cs)
                     THEN [d.coins[c] EXCEPT !.currentAmount = 0, !.status = "Dormant"]
                     ELSE d.coins[c]],
       !.refreshGroups = Append(@, NewGroup(d, cs))]

(* Not an error: a coin that is Dormant and has no allocation, which is skipped *)
(* although it is part of the payment.                                         *)
Skipped(d, sel) == {c \in DOMAIN sel : d.coins[c].status # "Fresh" /\ d.coins[c].allocation = Absent}

SpendConflict(d, sel, id) ==
    \E c \in DOMAIN sel :
        \/ c \notin DOMAIN d.coins
        \/ /\ d.coins[c].status # "Fresh"
           /\ d.coins[c].allocation # Absent
           /\ d.coins[c].allocation # [id |-> id, amount |-> sel[c]]
        \/ d.coins[c].status = "Fresh" /\ d.coins[c].currentAmount < sel[c]

SpendCoin(coin, id, amount) ==
    [coin EXCEPT !.status = "Dormant", !.allocation = [id |-> id, amount |-> amount],
                 !.currentAmount = Sub(@, amount)]

ApplyCoinSpend(d, sel, id) ==
    CreateRefreshGroup(
        [d EXCEPT !.coins = [c \in DOMAIN d.coins |->
            IF c \in DOMAIN sel /\ d.coins[c].status = "Fresh"
            THEN SpendCoin(d.coins[c], id, sel[c]) ELSE d.coins[c]]],
        SetToSeq(DOMAIN sel))

GroupsLeft(k) == Len(db.refreshGroups) + k <= MaxGroups[scene]

-----------------------------------------------------------------------------
(* The exchange: the deposits, melts and recoups of each coin, the coins it    *)
(* has signed, and the money in each reserve.                                  *)

DepositsOf(c) == {p \in exchange.deposits : p.coin = c}
MeltsOf(c) == {m \in exchange.melts : m.coin = c}

SpentAtExchange(c) ==
      SumFunction([p \in DepositsOf(c) |-> IF p.refunded = Nil THEN p.amount ELSE RefundFee])
    + SumFunction([m \in MeltsOf(c) |-> m.amount - m.returned])
    + SumFunction([r \in {r \in exchange.recoups : r.coin = c} |-> r.amount])

Remaining(c) == db.coins[c].value - SpentAtExchange(c)
=============================================================================
