------------------------------ MODULE WalletProofs ------------------------------
(* For any coins, orders, denominations, promises and crashes: what the exchange has signed or   *)
(* melted can be derived again, nothing that is owed to the wallet is forgotten, and a spent coin *)
(* is not offered again, except where the races of the README have happened.                      *)
EXTENDS WalletProperties, FiniteSetTheorems, TLAPS

(* The shape of the records; amounts do not matter here.                                    *)
DbShape(d) ==
    d = [coins |-> d.coins, refreshGroups |-> d.refreshGroups, recoupGroups |-> d.recoupGroups,
         depositGroups |-> d.depositGroups, tips |-> d.tips, proposals |-> d.proposals,
         purchases |-> d.purchases, revoked |-> d.revoked, reserve |-> d.reserve,
         withdrawalGroups |-> d.withdrawalGroups, planchets |-> d.planchets]

ExchangeShape ==
    exchange = [deposits |-> exchange.deposits, melts |-> exchange.melts,
                recoups |-> exchange.recoups, signed |-> exchange.signed,
                reserve |-> exchange.reserve]

IsList(s) == Len(s) \in Nat /\ s = [i \in 1 .. Len(s) |-> s[i]]
IsFunction(f) == f = [x \in DOMAIN f |-> f[x]]

CoinShape(c) ==
    c = [value |-> c.value, currentAmount |-> c.currentAmount, status |-> c.status,
         allocation |-> c.allocation, denom |-> c.denom]
RefreshShape(rg) ==
    /\ rg = [oldCoinPubs |-> rg.oldCoinPubs, inputPerCoin |-> rg.inputPerCoin,
             statusPerCoin |-> rg.statusPerCoin, session |-> rg.session, state |-> rg.state]
    /\ IsFunction(rg.statusPerCoin) /\ DOMAIN rg.statusPerCoin = DOMAIN rg.oldCoinPubs
    /\ IsFunction(rg.session)
SessionShape(s) ==
    s = [seed |-> s.seed, output |-> s.output, denom |-> s.denom, melted |-> s.melted]
MeltShape(m) ==
    /\ m = [coin |-> m.coin, session |-> m.session, seed |-> m.seed, amount |-> m.amount,
            revealed |-> m.revealed, returned |-> m.returned]
    /\ m.session = <<m.session[1], m.session[2]>>
RecoupShape(rg) ==
    rg = [coinPubs |-> rg.coinPubs, oldAmountPerCoin |-> rg.oldAmountPerCoin,
          finishedPerCoin |-> rg.finishedPerCoin, scheduleRefreshCoins |-> rg.scheduleRefreshCoins,
          finished |-> rg.finished]
DepositShape(p) ==
    p = [contract |-> p.contract, coin |-> p.coin, amount |-> p.amount, refunded |-> p.refunded]
DepositGroupShape(dg) ==
    dg = [payCoinSelection |-> dg.payCoinSelection, depositedPerCoin |-> dg.depositedPerCoin,
          finished |-> dg.finished]
WithdrawalShape(g) ==
    g = [count |-> g.count, denom |-> g.denom, finished |-> g.finished, deleted |-> g.deleted]
TipShape(r) ==
    r = [accepted |-> r.accepted, pickedUp |-> r.pickedUp, count |-> r.count, denom |-> r.denom]
PurchaseShape(p) ==
    p = [payCoinSelection |-> p.payCoinSelection, paymentSubmitPending |-> p.paymentSubmitPending,
         paid |-> p.paid, payFrozen |-> p.payFrozen, abortStatus |-> p.abortStatus,
         refundQueryRequested |-> p.refundQueryRequested, autoRefund |-> p.autoRefund,
         refunds |-> p.refunds]
TaskShape(t) == t = <<t[1], t[2], t[3], t[4], t[5], t[6]>>

-----------------------------------------------------------------------------
(* The invariant, table by table.                                                        *)
CoinsOk(f) == IsFunction(f) /\ \A c \in DOMAIN f : CoinShape(f[c])

(* A coin of a withdrawal is stored exactly if its planchet is done, and a group that is finished *)
(* has all of its coins. What the exchange has signed is a planchet of a group.            *)
WithdrawInv ==
    /\ IsList(db.withdrawalGroups) /\ IsFunction(db.planchets)
    /\ \A g \in DOMAIN db.withdrawalGroups :
          /\ WithdrawalShape(db.withdrawalGroups[g])
          /\ db.withdrawalGroups[g].finished => PlannedCoins(g) \subseteq DOMAIN db.coins
    /\ \A c \in DOMAIN db.planchets :
          SourceOf(c) = "withdraw" /\ (db.planchets[c] = "done" <=> c \in DOMAIN db.coins)
    /\ \A c \in DOMAIN db.coins : SourceOf(c) = "withdraw" => c \in DOMAIN db.planchets
    /\ \A c \in exchange.signed \ {WithdrawnElsewhere} : SourceOf(c) = "withdraw" =>
          /\ c \in DOMAIN db.planchets
          /\ c[2] \in DOMAIN db.withdrawalGroups /\ c \in PlannedCoins(c[2])

(* The coins of a tip are stored when it is picked up, and signed only if it was accepted.    *)
TipInv ==
    /\ IsList(db.tips)
    /\ \A r \in DOMAIN db.tips : /\ TipShape(db.tips[r])
                                 /\ db.tips[r].pickedUp => TipCoins(r) \subseteq DOMAIN db.coins
    /\ \A c \in DOMAIN db.coins : SourceOf(c) = "tip" => c[2] \in DOMAIN db.tips /\ db.tips[c[2]].pickedUp
    /\ \A c \in exchange.signed : SourceOf(c) \in {"withdraw", "tip"}
    /\ \A c \in exchange.signed : SourceOf(c) = "tip" =>
          c[2] \in DOMAIN db.tips /\ c \in TipCoins(c[2]) /\ db.tips[c[2]].accepted

(* What was melted is the input of a session with the same seed, and its coin is stored, or the *)
(* session is pending, and with it the group is active.                                     *)
RefreshInv ==
    /\ IsList(db.refreshGroups)
    /\ \A g \in DOMAIN db.refreshGroups :
          LET rg == db.refreshGroups[g] IN
          /\ RefreshShape(rg)
          /\ \A i \in DOMAIN rg.session : SessionShape(rg.session[i])
          /\ \A i \in DOMAIN rg.statusPerCoin : rg.statusPerCoin[i] = "Pending" => rg.state = "active"
    /\ \A m \in exchange.melts :
          /\ MeltShape(m) /\ m.session[1] \in DOMAIN db.refreshGroups
          /\ LET rg == db.refreshGroups[m.session[1]]
                 i == m.session[2] IN
             /\ i \in DOMAIN rg.oldCoinPubs /\ m.coin = rg.oldCoinPubs[i]
             /\ i \in DOMAIN rg.session /\ rg.session[i].seed = m.seed
             /\ \/ RefreshCoin(m.session[1], i) \in DOMAIN db.coins \cup raced
                \/ rg.statusPerCoin[i] = "Pending"

(* A group of recoups that is finished has all of its recoups finished.                      *)
RecoupInv ==
    /\ IsList(db.recoupGroups)
    /\ \A g \in DOMAIN db.recoupGroups :
          LET rg == db.recoupGroups[g] IN
          RecoupShape(rg) /\ (rg.finished => DOMAIN rg.coinPubs \subseteq rg.finishedPerCoin)
    /\ \A r \in exchange.recoups : \E k \in Recoups : CoinOf(k) = r.coin

(* A purchase that is being aborted is asked about.                                        *)
PurchaseOk(p) == PurchaseShape(p) /\ (p.abortStatus = "AbortRefund" => p.refundQueryRequested)
PurchaseInv ==
    /\ IsFunction(db.purchases) /\ DOMAIN db.purchases = Orders
    /\ \A o \in Orders : HasPurchase(o) => PurchaseOk(db.purchases[o])

(* Coins marked as deposited are, all of them in a group that is finished.                    *)
HasDeposit(g, c) == \E p \in exchange.deposits : p.contract = DepositContract(g) /\ p.coin = c
DepositInv ==
    /\ IsList(db.depositGroups)
    /\ \A g \in DOMAIN db.depositGroups :
          LET dg == db.depositGroups[g] IN
          /\ DepositGroupShape(dg)
          /\ \A c \in dg.depositedPerCoin : HasDeposit(g, c)
          /\ dg.finished => \A c \in DOMAIN dg.payCoinSelection : HasDeposit(g, c)
    /\ \A p \in exchange.deposits : DepositShape(p)

(* What a promise stands for: its record is there, with what the promise has read of it.        *)
WithdrawTask(t) ==
    /\ Key(t) \in DOMAIN db.withdrawalGroups
    /\ LET n == db.withdrawalGroups[Key(t)].count IN
       \/ /\ Pc(t) = "generate"
          /\ \A i \in 1 .. n : i \in Loc(t) \/ WithdrawCoin(Key(t), i) \in DOMAIN db.planchets
       \/ /\ Pc(t) \in {"request", "failed"}
          /\ Loc(t) = [next |-> Loc(t).next, got |-> Loc(t).got]
          /\ Loc(t).next \in Nat \ {0} /\ Loc(t).got \subseteq 1 .. n
          /\ \A i \in 1 .. n : WithdrawCoin(Key(t), i) \in DOMAIN db.planchets
SessionTaskOk(t) ==
    /\ Key(t) = <<Key(t)[1], Key(t)[2]>>
    /\ Key(t)[1] \in DOMAIN db.refreshGroups
    /\ Key(t)[2] \in DOMAIN db.refreshGroups[Key(t)[1]].oldCoinPubs
    /\ Pc(t) # "create" => Key(t)[2] \in DOMAIN db.refreshGroups[Key(t)[1]].session
TipTask(t) == Key(t) \in DOMAIN db.tips /\ db.tips[Key(t)].accepted
RecoupTask(t) ==
    /\ Key(t) = <<Key(t)[1], Key(t)[2]>>
    /\ Key(t)[1] \in DOMAIN db.recoupGroups
    /\ Key(t)[2] \in DOMAIN db.recoupGroups[Key(t)[1]].coinPubs
DepositTask(t) ==
    /\ Key(t) \in DOMAIN db.depositGroups
    /\ Loc(t) = [read |-> Loc(t).read, left |-> Loc(t).left]
    /\ Loc(t).read \subseteq db.depositGroups[Key(t)].depositedPerCoin
    /\ Pc(t) = "posted" => HasDeposit(Key(t), CHOOSE d \in Loc(t).left : TRUE)

TaskOk(t) ==
    /\ TaskShape(t)
    /\ Op(t) = "withdraw" => WithdrawTask(t)
    /\ Op(t) = "session" => SessionTaskOk(t)
    /\ Op(t) = "tip" => TipTask(t)
    /\ Op(t) = "recoup" => RecoupTask(t)
    /\ Op(t) \in {"pay", "refund", "confirm"} => Key(t) \in Orders
    /\ Op(t) \in {"pay", "refund"} => PurchaseOk(db.purchases[Key(t)])
    /\ Op(t) = "deposit" => DepositTask(t)

TablesInv ==
    /\ DbShape(db) /\ ExchangeShape
    /\ CoinsOk(db.coins) /\ WithdrawInv /\ TipInv /\ RefreshInv /\ RecoupInv /\ PurchaseInv /\ DepositInv

WalletInv == TablesInv /\ \A t \in tasks : TaskOk(t)

-----------------------------------------------------------------------------
(* What a step leaves of each table, so that the promises that run still stand for it.         *)
WithdrawGrows ==
    /\ \A g \in DOMAIN db.withdrawalGroups :
          /\ g \in DOMAIN db'.withdrawalGroups
          /\ db'.withdrawalGroups[g].count = db.withdrawalGroups[g].count
    /\ DOMAIN db.planchets \subseteq DOMAIN db'.planchets
TipGrows ==
    \A r \in DOMAIN db.tips :
        r \in DOMAIN db'.tips /\ (db.tips[r].accepted => db'.tips[r].accepted)
RefreshGrows ==
    \A g \in DOMAIN db.refreshGroups :
        /\ g \in DOMAIN db'.refreshGroups
        /\ db'.refreshGroups[g].oldCoinPubs = db.refreshGroups[g].oldCoinPubs
        /\ DOMAIN db.refreshGroups[g].session \subseteq DOMAIN db'.refreshGroups[g].session
RecoupGrows ==
    \A g \in DOMAIN db.recoupGroups :
        /\ g \in DOMAIN db'.recoupGroups
        /\ db'.recoupGroups[g].coinPubs = db.recoupGroups[g].coinPubs
PurchaseGrows ==
    \A o \in Orders : PurchaseOk(db.purchases[o]) => PurchaseOk(db'.purchases[o])
DepositGrows ==
    /\ \A g \in DOMAIN db.depositGroups :
          /\ g \in DOMAIN db'.depositGroups
          /\ db.depositGroups[g].depositedPerCoin \subseteq db'.depositGroups[g].depositedPerCoin
    /\ \A g, c : HasDeposit(g, c) => HasDeposit(g, c)'
Grows == /\ WithdrawGrows /\ TipGrows /\ RefreshGrows /\ RecoupGrows /\ PurchaseGrows
         /\ DepositGrows

(* A coin that was spent stays spent.                                                      *)
CoinsKept(f, g) ==
    /\ DOMAIN f = DOMAIN g
    /\ \A c \in DOMAIN f : f[c].status # "Fresh" => g[c].status # "Fresh"

(* No coin that was spent is fresh again, unless it is raced.                                *)
StaysSpent ==
    \A c \in DOMAIN db.coins :
        db.coins[c].status # "Fresh" /\ db'.coins[c].status = "Fresh" => c \in raced'

(* A good step on the tables                                                             *)
TablesStep == TablesInv' /\ Grows /\ StaysSpent

-----------------------------------------------------------------------------
(* The promises that go on                                                               *)
LEMMA TaskStays ==
    ASSUME NEW t, TaskOk(t), Grows
    PROVE  TaskOk(t)'
<1>1. Op(t) = "withdraw" => WithdrawTask(t)'
    BY DEF TaskOk, WithdrawTask, Grows, WithdrawGrows
<1>2. Op(t) = "session" => SessionTaskOk(t)'
    BY DEF TaskOk, SessionTaskOk, Grows, RefreshGrows
<1>3. Op(t) = "tip" => TipTask(t)'
    BY DEF TaskOk, TipTask, Grows, TipGrows
<1>4. Op(t) = "recoup" => RecoupTask(t)'
    BY DEF TaskOk, RecoupTask, Grows, RecoupGrows
<1>5. Op(t) = "deposit" => DepositTask(t)'
    BY DEF TaskOk, DepositTask, Grows, DepositGrows
<1>6. Op(t) \in {"pay", "refund"} => PurchaseOk(db'.purchases[Key(t)])
    BY DEF TaskOk, Grows, PurchaseGrows
<1>. QED
    BY <1>1, <1>2, <1>3, <1>4, <1>5, <1>6 DEF TaskOk

(* A good step on the tables whose new promises are in order keeps the whole invariant. *)
LEMMA StepKeepsInv ==
    ASSUME WalletInv, TablesStep, \A t \in tasks' : t \in tasks \/ TaskOk(t)'
    PROVE  WalletInv' /\ StaysSpent
BY TaskStays DEF WalletInv, TablesStep

(* Tables that a step leaves alone                                                        *)
LEMMA KeepWithdraw ==
    ASSUME TablesInv, UNCHANGED <<db.withdrawalGroups, db.planchets, exchange.signed>>,
           DOMAIN db.coins \subseteq DOMAIN db'.coins,
           \A c \in DOMAIN db'.coins \ DOMAIN db.coins : SourceOf(c) # "withdraw"
    PROVE  WithdrawInv' /\ WithdrawGrows
BY DEF TablesInv, WithdrawInv, WithdrawGrows, PlannedCoins

(* A step that leaves the tips and the exchange's signatures alone keeps what is said of tips. *)
LEMMA KeepTip ==
    ASSUME TablesInv, UNCHANGED <<db.tips, exchange.signed>>,
           DOMAIN db.coins \subseteq DOMAIN db'.coins,
           \A c \in DOMAIN db'.coins \ DOMAIN db.coins : SourceOf(c) # "tip"
    PROVE  TipInv' /\ TipGrows
<1>1. \A r, c : c \in TipCoins(r) => SourceOf(c) = "tip"
    BY DEF TipCoins, TipCoin, SourceOf
<1>2. \A r : TipCoins(r)' = TipCoins(r)
    BY DEF TipCoins
<1>. QED
    BY <1>1, <1>2 DEF TablesInv, TipInv, TipGrows

NewGroupOk(rg) ==
    /\ RefreshShape(rg) /\ DOMAIN rg.session = {}
    /\ \A i \in DOMAIN rg.statusPerCoin : rg.statusPerCoin[i] = "Pending" => rg.state = "active"
GroupsKept(s, u) ==
    /\ IsList(u)
    /\ \A g \in DOMAIN s : g \in DOMAIN u /\ u[g] = s[g]
    /\ \A g \in DOMAIN u \ DOMAIN s : NewGroupOk(u[g])
MeltsKept(ms, ns) ==
    \A n \in ns : MeltShape(n) /\ \E m \in ms : n.coin = m.coin /\ n.session = m.session /\ n.seed = m.seed

(* Groups that are kept, or new and without a session, and melts that are kept. *)
LEMMA KeepRefresh ==
    ASSUME TablesInv, GroupsKept(db.refreshGroups, db'.refreshGroups),
           MeltsKept(exchange.melts, exchange'.melts), raced \subseteq raced',
           DOMAIN db.coins \subseteq DOMAIN db'.coins
    PROVE  RefreshInv' /\ RefreshGrows
<1>1. RefreshGrows
    BY DEF GroupsKept, RefreshGrows
<1>2. \A g \in DOMAIN db'.refreshGroups :
          LET rg == db'.refreshGroups[g] IN
          /\ RefreshShape(rg)
          /\ \A i \in DOMAIN rg.session : SessionShape(rg.session[i])
          /\ \A i \in DOMAIN rg.statusPerCoin : rg.statusPerCoin[i] = "Pending" => rg.state = "active"
    BY DEF GroupsKept, NewGroupOk, TablesInv, RefreshInv
<1>3. ASSUME NEW n \in exchange'.melts
      PROVE  /\ MeltShape(n) /\ n.session[1] \in DOMAIN db'.refreshGroups
             /\ LET rg == db'.refreshGroups[n.session[1]]
                    i == n.session[2] IN
                /\ i \in DOMAIN rg.oldCoinPubs /\ n.coin = rg.oldCoinPubs[i]
                /\ i \in DOMAIN rg.session /\ rg.session[i].seed = n.seed
                /\ \/ RefreshCoin(n.session[1], i) \in DOMAIN db'.coins \cup raced'
                   \/ rg.statusPerCoin[i] = "Pending"
    <2>. PICK m \in exchange.melts : n.coin = m.coin /\ n.session = m.session /\ n.seed = m.seed
        BY <1>3 DEF MeltsKept
    <2>1. MeltShape(n)
        BY <1>3 DEF MeltsKept
    <2>. QED
        BY <2>1, ZenonT(60) DEF TablesInv, RefreshInv, GroupsKept
<1>. QED
    BY <1>1, <1>2, <1>3 DEF RefreshInv, GroupsKept

(* A step that leaves the recoups alone keeps what is said of them. *)
LEMMA KeepRecoup ==
    ASSUME TablesInv, UNCHANGED <<db.recoupGroups, exchange.recoups>>
    PROVE  RecoupInv' /\ RecoupGrows
BY DEF TablesInv, RecoupInv, RecoupGrows, Recoups, RecoupKeys, CoinOf

(* A step that leaves the purchases alone keeps what is said of them. *)
LEMMA KeepPurchase ==
    ASSUME TablesInv, UNCHANGED db.purchases
    PROVE  PurchaseInv' /\ PurchaseGrows
BY DEF TablesInv, PurchaseInv, PurchaseGrows, HasPurchase

DepositsKept(ps, qs) ==
    /\ \A q \in qs : DepositShape(q)
    /\ \A p \in ps : \E q \in qs : q.contract = p.contract /\ q.coin = p.coin

(* Deposits may be added at the exchange, or marked as refunded. *)
LEMMA KeepDeposit ==
    ASSUME TablesInv, UNCHANGED db.depositGroups,
           DepositsKept(exchange.deposits, exchange'.deposits)
    PROVE  DepositInv' /\ DepositGrows
BY DEF TablesInv, DepositInv, DepositGrows, DepositsKept, HasDeposit

(* A step that leaves the coins alone keeps their shape, and no coin becomes fresh. *)
LEMMA KeepCoins ==
    ASSUME TablesInv, UNCHANGED db.coins
    PROVE  CoinsOk(db'.coins) /\ StaysSpent
BY DEF TablesInv, StaysSpent

(* What does not change at all is kept.                                                   *)
LEMMA Same ==
    ASSUME TablesInv
    PROVE  /\ GroupsKept(db.refreshGroups, db.refreshGroups)
           /\ MeltsKept(exchange.melts, exchange.melts)
           /\ DepositsKept(exchange.deposits, exchange.deposits)
BY DEF TablesInv, RefreshInv, DepositInv, GroupsKept, MeltsKept, DepositsKept
-----------------------------------------------------------------------------
(* Classes of steps                                                                      *)
LEMMA TasksOnly ==
    ASSUME TablesInv, UNCHANGED <<db, exchange, raced>>
    PROVE  TablesStep
<1>1. DbShape(db)' /\ ExchangeShape'
    BY DEF TablesInv, DbShape, ExchangeShape
<1>. QED
    BY <1>1, Same, KeepWithdraw, KeepTip, KeepRefresh, KeepRecoup, KeepPurchase, KeepDeposit,
       KeepCoins DEF TablesStep, TablesInv, Grows

(* Proposals, reserve and revoked denominations are free.                                   *)
LEMMA FreeFields ==
    ASSUME TablesInv, UNCHANGED <<exchange, raced>>, NEW x,
           \/ db' = [db EXCEPT !.proposals = x]
           \/ db' = [db EXCEPT !.reserve = x]
           \/ db' = [db EXCEPT !.revoked = x]
    PROVE  TablesStep
<1>1. DbShape(db)' /\ ExchangeShape'
    BY DEF TablesInv, DbShape, ExchangeShape
<1>2. UNCHANGED <<db.coins, db.refreshGroups, db.recoupGroups, db.depositGroups, db.tips,
                  db.purchases, db.withdrawalGroups, db.planchets>>
    BY DEF TablesInv, DbShape
<1>. QED
    BY <1>1, <1>2, Same, KeepWithdraw, KeepTip, KeepRefresh, KeepRecoup, KeepPurchase,
       KeepDeposit, KeepCoins DEF TablesStep, TablesInv, Grows

(* A purchase that stays one                                                              *)
LEMMA PurchaseUpdated ==
    ASSUME TablesInv, NEW o \in Orders, NEW p, PurchaseOk(p),
           db'.purchases = [db.purchases EXCEPT ![o] = p]
    PROVE  PurchaseInv' /\ PurchaseGrows
<1>. PICK f : f = [db.purchases EXCEPT ![o] = p]
    OBVIOUS
<1>1. /\ IsFunction(f) /\ DOMAIN f = Orders /\ f[o] = p
      /\ \A u \in Orders \ {o} : f[u] = db.purchases[u]
    BY DEF TablesInv, PurchaseInv, IsFunction
<1>2. db'.purchases = f
    OBVIOUS
<1>3. \A u \in Orders : (f[u] # Absent => PurchaseOk(f[u])) /\ (PurchaseOk(db.purchases[u]) => PurchaseOk(f[u]))
    BY <1>1 DEF TablesInv, PurchaseInv, HasPurchase
<1>. QED
    BY <1>1, <1>2, <1>3 DEF PurchaseInv, PurchaseGrows, HasPurchase

(* A step that stores one purchase is a good step. *)
LEMMA PurchaseStep ==
    ASSUME TablesInv, UNCHANGED <<exchange, raced>>, NEW o \in Orders, NEW p, PurchaseOk(p),
           db' = [db EXCEPT !.purchases = [db.purchases EXCEPT ![o] = p]]
    PROVE  TablesStep
<1>1. DbShape(db)' /\ ExchangeShape'
    BY DEF TablesInv, DbShape, ExchangeShape
<1>2. /\ UNCHANGED <<db.coins, db.refreshGroups, db.recoupGroups, db.depositGroups, db.tips,
                     db.withdrawalGroups, db.planchets>>
      /\ db'.purchases = [db.purchases EXCEPT ![o] = p]
    BY DEF TablesInv, DbShape
<1>3. PurchaseInv' /\ PurchaseGrows
    BY <1>2, PurchaseUpdated
<1>. QED
    BY <1>1, <1>2, <1>3, Same, KeepWithdraw, KeepTip, KeepRefresh, KeepRecoup,
       KeepDeposit, KeepCoins DEF TablesStep, TablesInv, Grows

(* The exchange gets deposits, or marks them as refunded; melts are revealed or returned.      *)
LEMMA ExchangeStep ==
    ASSUME TablesInv, UNCHANGED db, raced \subseteq raced', ExchangeShape',
           DepositsKept(exchange.deposits, exchange'.deposits),
           MeltsKept(exchange.melts, exchange'.melts),
           UNCHANGED <<exchange.recoups, exchange.signed>>
    PROVE  TablesStep
<1>1. DbShape(db)'
    BY DEF TablesInv, DbShape
<1>. QED
    BY <1>1, Same, KeepWithdraw, KeepTip, KeepRefresh, KeepRecoup, KeepPurchase, KeepDeposit,
       KeepCoins DEF TablesStep, TablesInv, Grows

(* Coins are spent, and a refresh group is made of them.                                     *)
LEMMA SpendingStep ==
    ASSUME TablesInv, DbShape(db'), CoinsOk(db'.coins), CoinsKept(db.coins, db'.coins),
           GroupsKept(db.refreshGroups, db'.refreshGroups), raced \subseteq raced',
           UNCHANGED <<db.withdrawalGroups, db.planchets, db.tips, exchange>>,
           RecoupInv' /\ RecoupGrows, PurchaseInv' /\ PurchaseGrows, DepositInv' /\ DepositGrows
    PROVE  TablesStep
<1>1. ExchangeShape'
    BY DEF TablesInv, ExchangeShape
<1>2. StaysSpent
    BY DEF StaysSpent, CoinsKept
<1>. QED
    BY <1>1, <1>2, Same, KeepWithdraw, KeepTip, KeepRefresh
       DEF TablesStep, TablesInv, Grows, CoinsKept

-----------------------------------------------------------------------------
(* The helpers that other operations call in their transactions                              *)
LEMMA AppendList ==
    ASSUME NEW s, IsList(s), NEW x
    PROVE  /\ IsList(Append(s, x)) /\ DOMAIN s = 1 .. Len(s)
           /\ DOMAIN Append(s, x) = (DOMAIN s) \cup {Len(s) + 1} /\ Len(s) + 1 \notin DOMAIN s
           /\ Append(s, x)[Len(s) + 1] = x
           /\ \A i \in DOMAIN s : Append(s, x)[i] = s[i]
<1>. PICK S : S = {s[i] : i \in 1 .. Len(s)} \cup {x}
    OBVIOUS
<1>1. s \in Seq(S) /\ x \in S
    BY DEF IsList
<1>2. PICK t : t = Append(s, x)
    OBVIOUS
<1>3. /\ t \in Seq(S) /\ Len(t) = Len(s) + 1 /\ t[Len(s) + 1] = x
      /\ \A i \in 1 .. Len(s) : t[i] = s[i]
    BY <1>1, <1>2
<1>4. IsList(t) /\ DOMAIN t = 1 .. (Len(s) + 1) /\ DOMAIN s = 1 .. Len(s)
    BY <1>1, <1>3 DEF IsList
<1>5. Len(s) \in Nat
    BY DEF IsList
<1>. QED
    BY <1>2, <1>3, <1>4, <1>5

(* One entry of a list is replaced. *)
LEMMA UpdateList ==
    ASSUME NEW s, IsList(s), NEW i \in DOMAIN s, NEW x
    PROVE  /\ IsList([s EXCEPT ![i] = x]) /\ DOMAIN [s EXCEPT ![i] = x] = DOMAIN s
           /\ [s EXCEPT ![i] = x][i] = x
           /\ \A j \in DOMAIN s \ {i} : [s EXCEPT ![i] = x][j] = s[j]
<1>. PICK S : S = {s[j] : j \in 1 .. Len(s)} \cup {x}
    OBVIOUS
<1>1. s \in Seq(S) /\ x \in S
    BY DEF IsList
<1>2. PICK t : t = [s EXCEPT ![i] = x]
    OBVIOUS
<1>3. t \in Seq(S) /\ Len(t) = Len(s) /\ t[i] = x /\ \A j \in DOMAIN s \ {i} : t[j] = s[j]
    BY <1>1, <1>2
<1>4. IsList(t) /\ DOMAIN t = DOMAIN s
    BY <1>1, <1>3 DEF IsList
<1>. QED
    BY <1>2, <1>3, <1>4

(* e is d but for coins that may have been spent and refresh groups that were added.          *)
Spends(d, e) ==
    /\ DbShape(e) /\ CoinsOk(e.coins) /\ CoinsKept(d.coins, e.coins)
    /\ GroupsKept(d.refreshGroups, e.refreshGroups)
    /\ e.recoupGroups = d.recoupGroups /\ e.depositGroups = d.depositGroups /\ e.tips = d.tips
    /\ e.proposals = d.proposals /\ e.purchases = d.purchases /\ e.revoked = d.revoked
    /\ e.reserve = d.reserve /\ e.withdrawalGroups = d.withdrawalGroups
    /\ e.planchets = d.planchets

(* createRefreshGroup adds one group without sessions and empties coins. *)
LEMMA RefreshGroupCreated ==
    ASSUME NEW d, NEW cs, DbShape(d), CoinsOk(d.coins), IsList(d.refreshGroups)
    PROVE  Spends(d, CreateRefreshGroup(d, cs))
<1>. DEFINE f == [c \in DOMAIN d.coins |->
                     IF c \in Range(cs)
                     THEN [d.coins[c] EXCEPT !.currentAmount = 0, !.status = "Dormant"]
                     ELSE d.coins[c]]
            s == Append(d.refreshGroups, NewGroup(d, cs))
<1>0. ASSUME NEW c \in DOMAIN d.coins
      PROVE  CoinShape(f[c]) /\ (d.coins[c].status # "Fresh" => f[c].status # "Fresh")
    <2>1. CoinShape(d.coins[c])
        BY DEF CoinsOk
    <2>2. f[c] = IF c \in Range(cs)
                 THEN [d.coins[c] EXCEPT !.currentAmount = 0, !.status = "Dormant"]
                 ELSE d.coins[c]
        OBVIOUS
    <2>. QED
        BY <2>1, <2>2 DEF CoinShape
<1>1. CoinsOk(f) /\ CoinsKept(d.coins, f)
    BY <1>0 DEF CoinsOk, CoinsKept, IsFunction
<1>2. NewGroupOk(NewGroup(d, cs))
    BY DEF NewGroupOk, NewGroup, RefreshShape, IsFunction
<1>3. GroupsKept(d.refreshGroups, s)
    BY <1>2, AppendList DEF GroupsKept
<1>4. CreateRefreshGroup(d, cs) = [d EXCEPT !.coins = f, !.refreshGroups = s]
    BY Zenon DEF CreateRefreshGroup
<1>. HIDE DEF f, s
<1>. QED
    BY <1>1, <1>3, <1>4 DEF Spends, DbShape

(* applyCoinSpend spends coins and creates one refresh group. *)
LEMMA CoinsSpent ==
    ASSUME NEW d, NEW sel, NEW id, DbShape(d), CoinsOk(d.coins), IsList(d.refreshGroups)
    PROVE  Spends(d, ApplyCoinSpend(d, sel, id))
<1>. DEFINE f == [c \in DOMAIN d.coins |->
                     IF c \in DOMAIN sel /\ d.coins[c].status = "Fresh"
                     THEN SpendCoin(d.coins[c], id, sel[c]) ELSE d.coins[c]]
            e == [d EXCEPT !.coins = f]
<1>1. ASSUME NEW c \in DOMAIN d.coins
      PROVE  CoinShape(f[c]) /\ (d.coins[c].status # "Fresh" => f[c].status # "Fresh")
    <2>. PICK left : left = Sub(d.coins[c].currentAmount, sel[c])
        OBVIOUS
    <2>1. CoinShape(d.coins[c])
        BY DEF CoinsOk
    <2>2. SpendCoin(d.coins[c], id, sel[c]) =
              [d.coins[c] EXCEPT !.status = "Dormant",
                  !.allocation = [id |-> id, amount |-> sel[c]], !.currentAmount = left]
        BY DEF SpendCoin
    <2>3. CoinShape(SpendCoin(d.coins[c], id, sel[c]))
        BY <2>1, <2>2 DEF CoinShape
    <2>. QED
        BY <2>1, <2>3
<1>2. CoinsOk(f) /\ CoinsKept(d.coins, f)
    BY <1>1 DEF CoinsOk, CoinsKept, IsFunction
<1>3. ApplyCoinSpend(d, sel, id) = CreateRefreshGroup(e, SetToSeq(DOMAIN sel))
    BY Zenon DEF ApplyCoinSpend
<1>. HIDE DEF f
<1>4. /\ DbShape(e) /\ e.coins = f /\ e.refreshGroups = d.refreshGroups
      /\ e.recoupGroups = d.recoupGroups /\ e.depositGroups = d.depositGroups /\ e.tips = d.tips
      /\ e.proposals = d.proposals /\ e.purchases = d.purchases /\ e.revoked = d.revoked
      /\ e.reserve = d.reserve /\ e.withdrawalGroups = d.withdrawalGroups
      /\ e.planchets = d.planchets
    BY DEF DbShape
<1>. HIDE DEF e
<1>5. Spends(e, CreateRefreshGroup(e, SetToSeq(DOMAIN sel)))
    BY <1>2, <1>4, RefreshGroupCreated
<1>. QED
    BY <1>2, <1>3, <1>4, <1>5 DEF Spends, CoinsKept

-----------------------------------------------------------------------------
(* The promises that a step starts or moves                                                *)
IsTask(u, op, key, pc, loc) ==
    TaskShape(u) /\ Op(u) = op /\ Key(u) = key /\ Pc(u) = pc /\ Loc(u) = loc

(* A promise that starts is a tuple with the fields it was given. *)
LEMMA NewTask ==
    ASSUME NEW op, NEW key, NEW pc, NEW loc
    PROVE  IsTask(Task(op, key, pc, loc), op, key, pc, loc)
<1>. PICK n : n = Min((1 .. Attempts) \ {Number(t) : t \in Running(op, key)})
    OBVIOUS
<1>1. Task(op, key, pc, loc) = <<op, key, n, pc, loc, TRUE>>
    BY DEF Task
<1>. QED
    BY <1>1 DEF IsTask, TaskShape, Op, Key, Pc, Loc

(* A promise that goes on keeps its operation and its record. *)
LEMMA MovedTask ==
    ASSUME NEW t, NEW pc, NEW loc, TaskShape(t)
    PROVE  IsTask(MovedTo(t, pc, loc), Op(t), Key(t), pc, loc)
BY DEF IsTask, TaskShape, Op, Key, Pc, Loc, MovedTo

(* Start adds one promise. *)
LEMMA Started ==
    ASSUME NEW op, NEW key, NEW pc, NEW loc, Start(op, key, pc, loc), NEW u \in tasks'
    PROVE  u \in tasks \/ IsTask(u, op, key, pc, loc)
BY NewTask DEF Start

(* Goto moves one promise. *)
LEMMA GoneTo ==
    ASSUME NEW t, TaskShape(t), NEW pc, NEW loc, Goto(t, pc, loc), NEW u \in tasks'
    PROVE  u \in tasks \/ IsTask(u, Op(t), Key(t), pc, loc)
BY MovedTask DEF Goto

(* A promise of one of these kinds does not depend on where it is.                          *)
LEMMA PlainTask ==
    ASSUME NEW t, TaskOk(t), NEW u, NEW pc, NEW loc, IsTask(u, Op(t), Key(t), pc, loc),
           Op(t) \notin {"withdraw", "deposit"},
           Op(t) = "session" => Pc(t) # "create" \/ pc = "create"
    PROVE  TaskOk(u)
BY DEF TaskOk, IsTask, SessionTaskOk, TipTask, RecoupTask

(* A promise that a rejected group has left behind is in order if it was. *)
LEMMA DroppedTask ==
    ASSUME NEW v, TaskShape(v), NEW held, NEW u, u = [v EXCEPT ![6] = held]
    PROVE  IsTask(u, Op(v), Key(v), Pc(v), Loc(v))
BY DEF IsTask, TaskShape, Op, Key, Pc, Loc

(* A promise that its memo does not hold any more is the same otherwise.                     *)
LEMMA Rejected ==
    ASSUME WalletInv, NEW t, NEW keys, Reject(t, keys), NEW u \in tasks'
    PROVE  u \in tasks \/ TaskOk(u)
<1>. SUFFICES ASSUME NEW v \in tasks, u = [v EXCEPT ![6] = FALSE] PROVE TaskOk(u)
    BY DEF Reject
<1>1. TaskOk(v)
    BY DEF WalletInv
<1>2. IsTask(u, Op(v), Key(v), Pc(v), Loc(v))
    BY <1>1, DroppedTask DEF TaskOk
<1>. QED
    BY <1>1, <1>2 DEF IsTask, TaskOk, WithdrawTask, SessionTaskOk, TipTask, RecoupTask, DepositTask

(* A step that changes the promises only is a good step. *)
LEMMA TasksStep ==
    ASSUME WalletInv, UNCHANGED <<db, exchange, raced>>, \A u \in tasks' : u \in tasks \/ TaskOk(u)
    PROVE  WalletInv' /\ StaysSpent
<1>1. TablesStep
    BY TasksOnly DEF WalletInv
<1>2. \A u \in tasks' : u \in tasks \/ TaskOk(u)'
    BY <1>1, TaskStays DEF TablesStep
<1>. QED
    BY <1>1, <1>2, StepKeepsInv

(* A good step on the tables, with the condition on new promises in the old state. *)
LEMMA GoodStep ==
    ASSUME WalletInv, TablesStep, \A u \in tasks' : u \in tasks \/ TaskOk(u)
    PROVE  WalletInv' /\ StaysSpent
<1>1. \A u \in tasks' : u \in tasks \/ TaskOk(u)'
    BY TaskStays DEF TablesStep
<1>. QED
    BY <1>1, StepKeepsInv

(* The kinds of steps of a promise                                                         *)
LEMMA GotoOk ==
    ASSUME WalletInv, NEW t \in tasks, NEW pc, NEW loc, Goto(t, pc, loc),
           Op(t) \notin {"withdraw", "deposit"},
           Op(t) = "session" => Pc(t) # "create" \/ pc = "create"
    PROVE  \A u \in tasks' : u \in tasks \/ TaskOk(u)
<1>1. TaskOk(t) /\ TaskShape(t)
    BY DEF WalletInv, TaskOk
<1>. QED
    BY <1>1, GoneTo, PlainTask

(* A promise that ends leaves the others in order. *)
LEMMA DoneOk ==
    ASSUME NEW t, Done(t)
    PROVE  \A u \in tasks' : u \in tasks \/ TaskOk(u)
BY DEF Done

(* A promise that starts with a plain operation is in order. *)
LEMMA StartOk ==
    ASSUME WalletInv, NEW op, NEW key, NEW pc, NEW loc, Start(op, key, pc, loc),
           \/ op \in {"download", "reserve", "createDeposit", "prepareTip"}
           \/ op = "confirm" /\ key \in Orders
           \/ op \in {"pay", "refund"} /\ key \in Orders /\ HasPurchase(key)
    PROVE  \A u \in tasks' : u \in tasks \/ TaskOk(u)
<1>1. op \in {"pay", "refund"} => PurchaseOk(db.purchases[key])
    BY DEF WalletInv, TablesInv, PurchaseInv
<1>2. \A u : IsTask(u, op, key, pc, loc) => TaskOk(u)
    BY <1>1 DEF TaskOk, IsTask
<1>. QED
    BY <1>2, Started

-----------------------------------------------------------------------------
(* Steps that only move promises, or change proposals, the reserve or revoked denominations.   *)
Advances(t) == Done(t) \/ \E pc, loc : Goto(t, pc, loc)

(* A promise about nothing but a purchase, a proposal or a reserve may move freely. *)
LEMMA AdvanceOk ==
    ASSUME WalletInv, NEW t \in tasks, Advances(t), Op(t) \notin {"withdraw", "deposit", "session"}
    PROVE  \A u \in tasks' : u \in tasks \/ TaskOk(u)
BY GotoOk, DoneOk DEF Advances

(* Requests of purchases.ts and reserves.ts that change nothing but the promise. *)
LEMMA QuietSteps ==
    ASSUME WalletInv, NEW t \in tasks,
           \/ ClaimOrder(t) \/ SelectCoins(t) \/ PostPaid(t) \/ HandleInsufficientFunds(t)
           \/ SelectCoinsAgain(t) \/ PollAutoRefund(t) \/ BankStatus(t) \/ PostRegistration(t)
           \/ QueryReserve(t) \/ AfterWithdraw(t)
    PROVE  WalletInv' /\ StaysSpent
<1>1. Advances(t) /\ UNCHANGED <<db, exchange, raced>> /\ Op(t) \in {"download", "confirm", "pay", "refund", "reserve"}
    <2>1. CASE ClaimOrder(t)
        BY <2>1 DEF ClaimOrder, Advances, At
    <2>2. CASE SelectCoins(t)
        BY <2>2 DEF SelectCoins, Advances, At
    <2>3. CASE PostPaid(t)
        BY <2>3 DEF PostPaid, Advances, At
    <2>4. CASE HandleInsufficientFunds(t)
        BY <2>4 DEF HandleInsufficientFunds, Advances, At
    <2>5. CASE SelectCoinsAgain(t)
        BY <2>5 DEF SelectCoinsAgain, Advances, At
    <2>6. CASE PollAutoRefund(t)
        BY <2>6 DEF PollAutoRefund, Advances, At
    <2>7. CASE BankStatus(t)
        BY <2>7 DEF BankStatus, Again, Advances, At
    <2>8. CASE PostRegistration(t)
        BY <2>8 DEF PostRegistration, Advances, At
    <2>9. CASE QueryReserve(t)
        BY <2>9 DEF QueryReserve, Again, Advances, At
    <2>10. CASE AfterWithdraw(t)
        BY <2>10 DEF AfterWithdraw, Again, Advances, At
    <2>. QED
        BY <2>1, <2>2, <2>3, <2>4, <2>5, <2>6, <2>7, <2>8, <2>9, <2>10
<1>. QED
    BY <1>1, AdvanceOk, TasksStep

(* A transaction on proposals or the reserve                                              *)
FreeUpdate == \/ UNCHANGED db
              \/ \E x : db' = [db EXCEPT !.proposals = x]
              \/ \E x : db' = [db EXCEPT !.reserve = x]

(* A step on proposals, reserve or revoked denominations keeps the invariant. *)
LEMMA FreeStep ==
    ASSUME WalletInv, FreeUpdate, UNCHANGED <<exchange, raced>>,
           \A u \in tasks' : u \in tasks \/ TaskOk(u)
    PROVE  WalletInv' /\ StaysSpent
<1>1. TablesStep
    BY TasksOnly, FreeFields DEF WalletInv, FreeUpdate
<1>. QED
    BY <1>1, GoodStep

(* The transactions of a proposal download and of the bank's status of a reserve. *)
LEMMA DownloadAndReserveSteps ==
    ASSUME WalletInv, NEW t \in tasks,
           \/ FailProposalPermanently(t) \/ StoreContractTerms(t)
           \/ StoreBankStatus(t) \/ StoreRegistration(t)
    PROVE  WalletInv' /\ StaysSpent
<1>1. /\ Advances(t) /\ FreeUpdate /\ UNCHANGED <<exchange, raced>>
      /\ Op(t) \in {"download", "reserve"}
    <2>1. CASE FailProposalPermanently(t)
        BY <2>1 DEF FailProposalPermanently, Advances, At, FreeUpdate
    <2>2. CASE StoreContractTerms(t)
        BY <2>2 DEF StoreContractTerms, Advances, At, FreeUpdate
    <2>3. CASE StoreBankStatus(t)
        BY <2>3 DEF StoreBankStatus, Again, Update, Advances, At, FreeUpdate
    <2>4. CASE StoreRegistration(t)
        BY <2>4 DEF StoreRegistration, Update, Advances, At, FreeUpdate
    <2>. QED
        BY <2>1, <2>2, <2>3, <2>4
<1>. QED
    BY <1>1, AdvanceOk, FreeStep

(* What starts a promise, what happens at the merchant and the bank, and a crash. *)
LEMMA RequestSteps ==
    ASSUME WalletInv,
           \/ \E o \in Orders : StartDownloadProposal(o) \/ ProcessDownloadProposal(o) \/ RefuseProposal(o)
           \/ \E o \in Orders : ConfirmPay(o) \/ ProcessPurchasePay(o)
           \/ \E o \in Orders : GrantRefund(o) \/ ProcessPurchaseQueryRefund(o)
           \/ CreateReserve \/ ProcessReserve \/ ForceQueryReserve \/ BankConfirms \/ BankAborts
           \/ CreateDepositGroup(Price[1]) \/ PrepareTip \/ Crash
    PROVE  WalletInv' /\ StaysSpent
<1>. DEFINE Starts == \E op, key, pc, loc : /\ Start(op, key, pc, loc)
                                            /\ \/ op \in {"download", "reserve", "createDeposit", "prepareTip"}
                                               \/ op = "confirm" /\ key \in Orders
                                               \/ op \in {"pay", "refund"} /\ key \in Orders /\ HasPurchase(key)
            Good == (Starts \/ tasks' \subseteq tasks) /\ FreeUpdate /\ UNCHANGED <<exchange, raced>>
<1>1. ASSUME NEW o \in Orders, StartDownloadProposal(o) \/ ProcessDownloadProposal(o) \/ RefuseProposal(o)
      PROVE  Good
    BY <1>1 DEF StartDownloadProposal, ProcessDownloadProposal, RefuseProposal, FreeUpdate
<1>2. ASSUME NEW o \in Orders, ConfirmPay(o) \/ ProcessPurchasePay(o)
      PROVE  Good
    BY <1>2 DEF ConfirmPay, ProcessPurchasePay, SubmitPay, FreeUpdate
<1>3. ASSUME NEW o \in Orders, GrantRefund(o) \/ ProcessPurchaseQueryRefund(o)
      PROVE  Good
    BY <1>3 DEF GrantRefund, ProcessPurchaseQueryRefund, QueryRefund, HasPurchase, FreeUpdate
<1>4. ASSUME CreateReserve \/ ProcessReserve \/ ForceQueryReserve \/ BankConfirms \/ BankAborts
      PROVE  Good
    BY <1>4 DEF CreateReserve, ProcessReserve, ForceQueryReserve, BankConfirms, BankAborts, Update, FreeUpdate
<1>5. ASSUME CreateDepositGroup(Price[1]) \/ PrepareTip \/ Crash
      PROVE  Good
    BY <1>5 DEF CreateDepositGroup, PrepareTip, Crash, FreeUpdate
<1>6. Good
    BY <1>1, <1>2, <1>3, <1>4, <1>5
<1>7. \A u \in tasks' : u \in tasks \/ TaskOk(u)
    BY <1>6, StartOk
<1>. QED
    BY <1>6, <1>7, FreeStep

-----------------------------------------------------------------------------
(* Purchases                                                                             *)
LEMMA PurchaseFields ==
    ASSUME NEW p, PurchaseOk(p), NEW x
    PROVE  /\ PurchaseOk([p EXCEPT !.paymentSubmitPending = x])
           /\ PurchaseOk([p EXCEPT !.payFrozen = x])
           /\ PurchaseOk([p EXCEPT !.autoRefund = x])
           /\ PurchaseOk([p EXCEPT !.payCoinSelection = x])
           /\ x = TRUE => PurchaseOk([p EXCEPT !.refundQueryRequested = x])
BY DEF PurchaseOk, PurchaseShape

(* storeFirstPaySuccess and its like leave a purchase that is in order. *)
LEMMA PurchasePaid ==
    ASSUME NEW p, PurchaseOk(p), NEW a, NEW b, NEW q, NEW r, p.refundQueryRequested => q
    PROVE  PurchaseOk([p EXCEPT !.paid = a, !.paymentSubmitPending = b,
                                !.refundQueryRequested = q, !.autoRefund = r])
<1>. PICK z : z = [p EXCEPT !.paid = a, !.paymentSubmitPending = b,
                            !.refundQueryRequested = q, !.autoRefund = r]
    OBVIOUS
<1>1. PurchaseShape(z) /\ z.refundQueryRequested = q /\ z.abortStatus = p.abortStatus
    BY DEF PurchaseOk, PurchaseShape
<1>2. PurchaseOk(z)
    BY <1>1, Zenon DEF PurchaseOk
<1>. QED
    BY <1>2

(* abortFailedPayWithRefund leaves a purchase that will be asked about. *)
LEMMA PurchaseAborted ==
    ASSUME NEW p, PurchaseOk(p), NEW a, a = TRUE, NEW b
    PROVE  PurchaseOk([p EXCEPT !.refundQueryRequested = a, !.paymentSubmitPending = b,
                                !.abortStatus = "AbortRefund"])
<1>. PICK z : z = [p EXCEPT !.refundQueryRequested = a, !.paymentSubmitPending = b,
                            !.abortStatus = "AbortRefund"]
    OBVIOUS
<1>1. PurchaseShape(z) /\ z.refundQueryRequested = a
    BY DEF PurchaseOk, PurchaseShape
<1>2. PurchaseOk(z)
    BY <1>1, Zenon DEF PurchaseOk
<1>. QED
    BY <1>2

(* recordConfirmPay stores a purchase that is in order. *)
LEMMA PurchaseNew ==
    ASSUME NEW sel
    PROVE  PurchaseOk(NewPurchase(sel))
<1>. PICK a, b : a = TRUE /\ b = FALSE
    OBVIOUS
<1>1. NewPurchase(sel) =
          [payCoinSelection |-> sel, paymentSubmitPending |-> a, paid |-> b,
           payFrozen |-> b, abortStatus |-> "None",
           refundQueryRequested |-> b, autoRefund |-> b, refunds |-> <<>>]
    BY DEF NewPurchase
<1>. QED
    BY <1>1 DEF PurchaseOk, PurchaseShape

(* A transaction that replaces one purchase is a good step. *)
LEMMA PurchaseDbStep ==
    ASSUME WalletInv, UNCHANGED <<exchange, raced>>, NEW o \in Orders, NEW p, PurchaseOk(p),
           db' = [db EXCEPT !.purchases[o] = p]
    PROVE  TablesStep
BY PurchaseStep DEF WalletInv

(* storeFirstPaySuccess, storePayReplaySuccess and the freezing of a purchase. *)
LEMMA PayDbSteps ==
    ASSUME WalletInv, NEW t \in tasks,
           StoreFirstPaySuccess(t) \/ StorePayReplaySuccess(t) \/ FreezePay(t)
    PROVE  WalletInv' /\ StaysSpent
<1>. DEFINE o == Key(t)
            p == db.purchases[o]
<1>1. Op(t) = "pay" /\ Done(t) /\ UNCHANGED <<exchange, raced>>
    BY DEF StoreFirstPaySuccess, StorePayReplaySuccess, FreezePay, At
<1>2. o \in Orders /\ PurchaseOk(p)
    BY <1>1 DEF WalletInv, TaskOk
<1>3. db' = db \/ \E q : PurchaseOk(q) /\ db' = [db EXCEPT !.purchases[o] = q]
    <2>1. CASE StoreFirstPaySuccess(t)
        <3>. PICK auto : auto = (Key(t) \in AutoRefund)
            OBVIOUS
        <3>. PICK query : query = (p.refundQueryRequested \/ auto)
            OBVIOUS
        <3>. PICK yes, no : yes = TRUE /\ no = FALSE
            OBVIOUS
        <3>. DEFINE q == [p EXCEPT !.paid = yes, !.paymentSubmitPending = no,
                                   !.refundQueryRequested = query, !.autoRefund = auto]
        <3>1. PurchaseOk(q)
            BY <1>2, PurchasePaid
        <3>2. db' = db \/ db' = [db EXCEPT !.purchases[o] = q]
            BY <2>1 DEF StoreFirstPaySuccess
        <3>. QED
            BY <3>1, <3>2
    <2>2. CASE StorePayReplaySuccess(t)
        BY <1>2, <2>2, PurchaseFields DEF StorePayReplaySuccess
    <2>3. CASE FreezePay(t)
        BY <1>2, <2>3, PurchaseFields DEF FreezePay
    <2>. QED
        BY <2>1, <2>2, <2>3
<1>. QED
    BY <1>1, <1>2, <1>3, DoneOk, PurchaseDbStep, TasksOnly, GoodStep DEF WalletInv

(* Session changes, applyRefund, the end of auto-refund and abortFailedPayWithRefund. *)
LEMMA PurchaseRequests ==
    ASSUME WalletInv, NEW o \in Orders,
           \/ ConfirmPayNewSession(o) \/ AutoRefundExpires(o) \/ ApplyRefund(o)
           \/ AbortFailedPayWithRefund(o)
    PROVE  WalletInv' /\ StaysSpent
<1>. DEFINE p == db.purchases[o]
<1>. PICK yes, no : yes = TRUE /\ no = FALSE
    OBVIOUS
<1>1. HasPurchase(o) /\ UNCHANGED <<exchange, raced>>
    BY DEF ConfirmPayNewSession, AutoRefundExpires, ApplyRefund, AbortFailedPayWithRefund, HasPurchase
<1>2. PurchaseOk(p)
    BY <1>1 DEF WalletInv, TablesInv, PurchaseInv
<1>3. tasks' = tasks \/ \E op \in {"pay", "refund"} : \E pc, loc : Start(op, o, pc, loc)
    BY DEF ConfirmPayNewSession, AutoRefundExpires, ApplyRefund, AbortFailedPayWithRefund,
           SubmitPay, QueryRefund
<1>4. \E q : PurchaseOk(q) /\ db' = [db EXCEPT !.purchases[o] = q]
    <2>1. CASE ConfirmPayNewSession(o)
        BY <1>2, <2>1, PurchaseFields DEF ConfirmPayNewSession
    <2>2. CASE AutoRefundExpires(o)
        BY <1>2, <2>2, PurchaseFields DEF AutoRefundExpires
    <2>3. CASE ApplyRefund(o)
        <3>1. db' = [db EXCEPT !.purchases[o] = [p EXCEPT !.refundQueryRequested = yes]]
            BY <2>3 DEF ApplyRefund
        <3>. QED
            BY <1>2, <3>1, PurchaseFields
    <2>4. CASE AbortFailedPayWithRefund(o)
        <3>. DEFINE q == [p EXCEPT !.refundQueryRequested = yes, !.paymentSubmitPending = no,
                                   !.abortStatus = "AbortRefund"]
        <3>1. PurchaseOk(q)
            BY <1>2, PurchaseAborted
        <3>2. db' = [db EXCEPT !.purchases[o] = q]
            BY <2>4 DEF AbortFailedPayWithRefund
        <3>. QED
            BY <3>1, <3>2
    <2>. QED
        BY <2>1, <2>2, <2>3, <2>4
<1>5. \A u \in tasks' : u \in tasks \/ TaskOk(u)
    BY <1>1, <1>3, StartOk
<1>. QED
    BY <1>1, <1>4, <1>5, PurchaseDbStep, GoodStep

(* Payments and deposits: coins are spent, a refresh group is created, and the purchase or      *)
(* the deposit group is stored.                                                            *)
LEMMA Spent ==
    ASSUME TablesInv, UNCHANGED exchange, raced \subseteq raced',
           NEW d, DbShape(d), d.coins = db.coins, d.refreshGroups = db.refreshGroups,
           d.recoupGroups = db.recoupGroups, d.depositGroups = db.depositGroups, d.tips = db.tips,
           d.withdrawalGroups = db.withdrawalGroups, d.planchets = db.planchets,
           NEW o \in Orders, NEW p, PurchaseOk(p), d.purchases = [db.purchases EXCEPT ![o] = p],
           Spends(d, db')
    PROVE  TablesStep
<1>1. PurchaseInv' /\ PurchaseGrows
    BY PurchaseUpdated DEF Spends
<1>2. /\ UNCHANGED <<db.recoupGroups, db.depositGroups, db.tips, db.withdrawalGroups, db.planchets>>
      /\ UNCHANGED <<exchange.recoups, exchange.deposits>>
    BY DEF Spends
<1>. QED
    BY <1>1, <1>2, Same, SpendingStep, KeepRecoup, KeepDeposit DEF Spends

(* recordConfirmPay: the purchase, the coins and their refresh group in one transaction. *)
LEMMA RecordConfirmPayStep ==
    ASSUME WalletInv, NEW t \in tasks, RecordConfirmPay(t)
    PROVE  WalletInv' /\ StaysSpent
<1>. DEFINE o == Key(t)
            sel == Loc(t)
<1>1. o \in Orders /\ UNCHANGED exchange
    BY DEF RecordConfirmPay, WalletInv, TaskOk, At
<1>2. CASE SpendConflict(db, sel, AllocationId(o))
    BY <1>1, <1>2, DoneOk, TasksStep DEF RecordConfirmPay
<1>3. CASE ~SpendConflict(db, sel, AllocationId(o))
    <2>. PICK d : d = [db EXCEPT !.proposals[o].status = "ACCEPTED", !.purchases[o] = NewPurchase(sel)]
        OBVIOUS
    <2>1. /\ DbShape(d) /\ d.coins = db.coins /\ d.refreshGroups = db.refreshGroups
          /\ d.recoupGroups = db.recoupGroups /\ d.depositGroups = db.depositGroups /\ d.tips = db.tips
          /\ d.withdrawalGroups = db.withdrawalGroups /\ d.planchets = db.planchets
          /\ d.purchases = [db.purchases EXCEPT ![o] = NewPurchase(sel)]
        BY DEF WalletInv, TablesInv, DbShape
    <2>2. /\ db' = ApplyCoinSpend(d, sel, AllocationId(o)) /\ raced \subseteq raced'
          /\ tasks' = (tasks \ {t}) \cup {Task("pay", o, "pay", sel)}
        BY <1>3 DEF RecordConfirmPay
    <2>3. Spends(d, db')
        <3>1. CoinsOk(d.coins) /\ IsList(d.refreshGroups)
            BY <2>1 DEF WalletInv, TablesInv, RefreshInv
        <3>2. Spends(d, ApplyCoinSpend(d, sel, AllocationId(o)))
            BY <2>1, <3>1, CoinsSpent
        <3>. QED
            BY <2>2, <3>2
    <2>4. TablesStep
        BY <1>1, <2>1, <2>2, <2>3, Spent, PurchaseNew DEF WalletInv
    <2>5. ASSUME NEW u \in tasks', u \notin tasks
          PROVE  TaskOk(u)'
        <3>1. IsTask(u, "pay", o, "pay", sel)
            BY <2>2, <2>5, NewTask
        <3>2. PurchaseOk(db'.purchases[o])
            BY <1>1, <2>1, <2>3, PurchaseNew DEF Spends, WalletInv, TablesInv, PurchaseInv
        <3>. QED
            BY <1>1, <3>1, <3>2 DEF IsTask, TaskOk
    <2>. QED
        BY <2>4, <2>5, StepKeepsInv
<1>. QED
    BY <1>2, <1>3

(* handleInsufficientFunds stores a new selection, unless the purchase was aborted. *)
LEMMA StoreReselectionStep ==
    ASSUME WalletInv, NEW t \in tasks, StoreReselection(t)
    PROVE  WalletInv' /\ StaysSpent
<1>. DEFINE o == Key(t)
            sel == Loc(t).sel
            p == db.purchases[o]
<1>1. o \in Orders /\ PurchaseOk(p) /\ UNCHANGED exchange /\ Done(t)
    BY DEF StoreReselection, WalletInv, TaskOk, At
<1>2. CASE SpendConflict(db, sel, AllocationId(o))
    BY <1>1, <1>2, DoneOk, TasksStep DEF StoreReselection
<1>3. CASE ~SpendConflict(db, sel, AllocationId(o))
    <2>. PICK d : d = [db EXCEPT !.purchases[o].payCoinSelection = sel]
        OBVIOUS
    <2>. PICK q : q = [p EXCEPT !.payCoinSelection = sel]
        OBVIOUS
    <2>1. /\ DbShape(d) /\ d.coins = db.coins /\ d.refreshGroups = db.refreshGroups
          /\ d.recoupGroups = db.recoupGroups /\ d.depositGroups = db.depositGroups /\ d.tips = db.tips
          /\ d.withdrawalGroups = db.withdrawalGroups /\ d.planchets = db.planchets
          /\ d.purchases = [db.purchases EXCEPT ![o] = q]
        BY DEF WalletInv, TablesInv, DbShape
    <2>2. db' = ApplyCoinSpend(d, sel, AllocationId(o)) /\ raced \subseteq raced'
        BY <1>3 DEF StoreReselection
    <2>3. Spends(d, db')
        <3>1. CoinsOk(d.coins) /\ IsList(d.refreshGroups)
            BY <2>1 DEF WalletInv, TablesInv, RefreshInv
        <3>2. Spends(d, ApplyCoinSpend(d, sel, AllocationId(o)))
            BY <2>1, <3>1, CoinsSpent
        <3>. QED
            BY <2>2, <3>2
    <2>4. PurchaseOk(q)
        BY <1>1, PurchaseFields
    <2>5. TablesStep
        BY <1>1, <2>1, <2>2, <2>3, <2>4, Spent DEF WalletInv
    <2>. QED
        BY <1>1, <2>5, DoneOk, GoodStep
<1>. QED
    BY <1>2, <1>3

(* autoRefresh creates a refresh group of coins that are about to expire. *)
LEMMA AutoRefreshStep ==
    ASSUME WalletInv, NEW dn, AutoRefresh(dn)
    PROVE  WalletInv' /\ StaysSpent
<1>. PICK cs : db' = CreateRefreshGroup(db, cs)
    BY DEF AutoRefresh
<1>1. UNCHANGED <<exchange, raced, tasks>>
    BY DEF AutoRefresh
<1>2. CoinsOk(db.coins) /\ IsList(db.refreshGroups) /\ DbShape(db)
    BY DEF WalletInv, TablesInv, RefreshInv
<1>3. Spends(db, CreateRefreshGroup(db, cs))
    BY <1>2, RefreshGroupCreated
<1>4. Spends(db, db')
    BY <1>3
<1>5. /\ UNCHANGED <<db.recoupGroups, db.depositGroups, db.tips, db.withdrawalGroups,
                     db.planchets, db.purchases>>
      /\ UNCHANGED <<exchange.recoups, exchange.deposits>>
    BY <1>1, <1>4 DEF Spends
<1>6. TablesStep
    BY <1>1, <1>4, <1>5, Same, SpendingStep, KeepRecoup, KeepDeposit, KeepPurchase DEF Spends, WalletInv
<1>. QED
    BY <1>1, <1>6, GoodStep

(* A deposit group is stored together with the coins that it spends.                         *)
LEMMA RecordDepositStep ==
    ASSUME WalletInv, NEW t \in tasks, RecordDepositGroup(t)
    PROVE  WalletInv' /\ StaysSpent
<1>. DEFINE g == Len(db.depositGroups) + 1
            sel == Loc(t)
            new == [payCoinSelection |-> sel, depositedPerCoin |-> {}, finished |-> FALSE]
<1>1. UNCHANGED exchange /\ Done(t)
    BY DEF RecordDepositGroup
<1>2. CASE SpendConflict(db, sel, DepositContract(g))
    BY <1>1, <1>2, DoneOk, TasksStep DEF RecordDepositGroup
<1>3. CASE ~SpendConflict(db, sel, DepositContract(g))
    <2>. PICK d : d = ApplyCoinSpend(db, sel, DepositContract(g))
        OBVIOUS
    <2>. PICK s : s = Append(db.depositGroups, new)
        OBVIOUS
    <2>1. DbShape(db) /\ CoinsOk(db.coins) /\ IsList(db.refreshGroups) /\ IsList(db.depositGroups)
        BY DEF WalletInv, TablesInv, RefreshInv, DepositInv
    <2>2. Spends(db, d)
        BY <2>1, CoinsSpent
    <2>3. db' = [d EXCEPT !.depositGroups = Append(@, new)] /\ raced \subseteq raced'
        BY <1>3 DEF RecordDepositGroup
    <2>4. d.depositGroups = db.depositGroups
        BY <2>2 DEF Spends
    <2>5. /\ DbShape(db') /\ db'.coins = d.coins /\ db'.refreshGroups = d.refreshGroups
          /\ UNCHANGED <<db.recoupGroups, db.purchases, db.tips, db.withdrawalGroups, db.planchets>>
          /\ db'.depositGroups = s
        BY <2>2, <2>3, <2>4 DEF Spends, DbShape
    <2>. HIDE DEF new
    <2>6. /\ IsList(s) /\ DOMAIN s = DOMAIN db.depositGroups \cup {g} /\ s[g] = new
          /\ g \notin DOMAIN db.depositGroups
          /\ \A i \in DOMAIN db.depositGroups : s[i] = db.depositGroups[i]
        BY <2>1, AppendList
    <2>7. DepositGroupShape(new) /\ new.depositedPerCoin = {} /\ ~new.finished
        BY DEF DepositGroupShape, new
    <2>8. DepositInv' /\ DepositGrows
        BY <1>1, <2>5, <2>6, <2>7 DEF WalletInv, TablesInv, DepositInv, DepositGrows, HasDeposit
    <2>9. /\ CoinsOk(db'.coins) /\ CoinsKept(db.coins, db'.coins)
          /\ GroupsKept(db.refreshGroups, db'.refreshGroups)
        BY <2>2, <2>5 DEF Spends
    <2>10. TablesStep
        BY <1>1, <2>3, <2>5, <2>8, <2>9, SpendingStep, KeepRecoup, KeepPurchase DEF WalletInv
    <2>. QED
        BY <1>1, <2>10, DoneOk, GoodStep
<1>. QED
    BY <1>2, <1>3

-----------------------------------------------------------------------------
(* Requests to the exchange and the merchant                                              *)
LEMMA DepositsAdded ==
    ASSUME WalletInv, UNCHANGED db, raced \subseteq raced', NEW ps,
           \A p \in ps : DepositShape(p),
           exchange' = [exchange EXCEPT !.deposits = @ \cup ps]
    PROVE  TablesStep
<1>1. /\ exchange'.deposits = exchange.deposits \cup ps
      /\ UNCHANGED <<exchange.melts, exchange.recoups, exchange.signed>> /\ ExchangeShape'
    BY DEF WalletInv, TablesInv, ExchangeShape
<1>2. DepositsKept(exchange.deposits, exchange'.deposits)
    BY <1>1 DEF DepositsKept, WalletInv, TablesInv, DepositInv
<1>. QED
    BY <1>1, <1>2, Same, ExchangeStep DEF WalletInv

(* Deposits that the exchange marks as refunded are still deposits. *)
LEMMA DepositsMarked ==
    ASSUME WalletInv, UNCHANGED <<db, raced>>, NEW o, NEW S, NEW rt,
           exchange' = RefundAtExchange(o, S, rt)
    PROVE  TablesStep
<1>. DEFINE marked(p) == p.contract = RefundContract(o) /\ p.coin \in S /\ p.refunded = Nil
            mark(p) == IF marked(p) THEN [p EXCEPT !.refunded = rt] ELSE p
<1>1. /\ exchange'.deposits = {mark(p) : p \in exchange.deposits}
      /\ UNCHANGED <<exchange.melts, exchange.recoups, exchange.signed>> /\ ExchangeShape'
    BY DEF WalletInv, TablesInv, ExchangeShape, RefundAtExchange
<1>2. ASSUME NEW p \in exchange.deposits
      PROVE  DepositShape(mark(p)) /\ mark(p).contract = p.contract /\ mark(p).coin = p.coin
    <2>1. DepositShape(p)
        BY DEF WalletInv, TablesInv, DepositInv
    <2>2. CASE marked(p)
        <3>1. mark(p) = [p EXCEPT !.refunded = rt]
            BY <2>2
        <3>. HIDE DEF mark, marked
        <3>. QED
            BY <2>1, <3>1 DEF DepositShape
    <2>. QED
        BY <2>1, <2>2
<1>. HIDE DEF mark
<1>3. DepositsKept(exchange.deposits, exchange'.deposits)
    BY <1>1, <1>2 DEF DepositsKept
<1>. QED
    BY <1>1, <1>3, Same, ExchangeStep DEF WalletInv

(* The merchant deposits the coins of a payment, one after the other. *)
LEMMA PostPayStep ==
    ASSUME WalletInv, NEW t \in tasks, PostPay(t)
    PROVE  WalletInv' /\ StaysSpent
<1>. DEFINE sel == Loc(t)
            ps(S) == {[contract |-> AllocationId(Key(t)), coin |-> c, amount |-> sel[c], refunded |-> Nil] :
                          c \in {d \in S : ~Deposited(Key(t), d)}}
<1>1. /\ Op(t) = "pay" /\ Advances(t) /\ UNCHANGED db /\ raced \subseteq raced'
      /\ exchange' = exchange \/ \E S : exchange' = Deposit(Key(t), sel, S)
    BY DEF PostPay, At, Advances
<1>2. \A S : \A p \in ps(S) : DepositShape(p)
    BY DEF DepositShape
<1>3. ASSUME NEW S, exchange' = Deposit(Key(t), sel, S)
      PROVE  TablesStep
    <2>1. exchange' = [exchange EXCEPT !.deposits = @ \cup ps(S)]
        BY <1>3 DEF Deposit
    <2>. HIDE DEF ps
    <2>. QED
        BY <1>1, <1>2, <2>1, DepositsAdded
<1>4. ASSUME exchange' = exchange
      PROVE  TablesStep
    <2>1. ExchangeShape' /\ UNCHANGED <<exchange.deposits, exchange.melts, exchange.recoups, exchange.signed>>
        BY <1>4 DEF ExchangeShape, WalletInv, TablesInv
    <2>. QED
        BY <1>1, <1>4, <2>1, ExchangeStep, Same DEF WalletInv
<1>. QED
    BY <1>1, <1>3, <1>4, AdvanceOk, GoodStep

(* The merchant answers with the refunds it granted, or aborts. *)
LEMMA RefundRequests ==
    ASSUME WalletInv, NEW t \in tasks, PostRefund(t) \/ PostAbort(t)
    PROVE  WalletInv' /\ StaysSpent
<1>1. /\ Op(t) = "refund" /\ Advances(t) /\ UNCHANGED <<db, raced>>
      /\ \/ exchange' = exchange
         \/ \E S, rt : exchange' = RefundAtExchange(Key(t), S, rt)
    <2>1. CASE PostRefund(t)
        BY <2>1 DEF PostRefund, At, Advances
    <2>2. CASE PostAbort(t)
        BY <2>2 DEF PostAbort, At, Advances
    <2>. QED
        BY <2>1, <2>2
<1>2. TablesStep
    BY <1>1, DepositsMarked, TasksOnly DEF WalletInv
<1>. QED
    BY <1>1, <1>2, AdvanceOk, GoodStep

(* The bank's transfer arrives at the exchange. *)
LEMMA TransferArrivesStep ==
    ASSUME WalletInv, NEW amount, TransferArrives(amount)
    PROVE  WalletInv' /\ StaysSpent
<1>1. /\ UNCHANGED <<exchange.deposits, exchange.melts, exchange.recoups, exchange.signed>> /\ ExchangeShape'
      /\ UNCHANGED <<db, raced, tasks>>
    BY DEF WalletInv, TablesInv, ExchangeShape, TransferArrives
<1>2. TablesStep
    BY <1>1, Same, ExchangeStep DEF WalletInv
<1>. QED
    BY <1>1, <1>2, GoodStep

(* acceptRefunds: the coins that are credited stay spent, and the abort is finished only with    *)
(* the query.                                                                             *)
LEMMA CoinCredited ==
    ASSUME NEW coin, CoinShape(coin), NEW credit, NEW s
    PROVE  /\ CoinShape(CreditCoin(coin, credit, s))
           /\ coin.status # "Fresh" => CreditCoin(coin, credit, s).status # "Fresh"
<1>. PICK amount : amount = coin.currentAmount + credit
    OBVIOUS
<1>. PICK status : status = IF s = "success" THEN "Dormant" ELSE coin.status
    OBVIOUS
<1>1. CreditCoin(coin, credit, s) = [coin EXCEPT !.currentAmount = amount, !.status = status]
    BY DEF CreditCoin
<1>. QED
    BY <1>1 DEF CoinShape

(* acceptRefunds leaves a purchase that is in order. *)
LEMMA PurchaseAnswered ==
    ASSUME NEW p, PurchaseOk(p), NEW refunds, NEW q, NEW a,
           a = "AbortRefund" => q /\ p.abortStatus = "AbortRefund"
    PROVE  PurchaseOk([p EXCEPT !.refunds = refunds, !.refundQueryRequested = q, !.abortStatus = a])
<1>. PICK z : z = [p EXCEPT !.refunds = refunds, !.refundQueryRequested = q, !.abortStatus = a]
    OBVIOUS
<1>1. PurchaseShape(z) /\ z.refundQueryRequested = q /\ z.abortStatus = a
    BY DEF PurchaseOk, PurchaseShape
<1>2. PurchaseOk(z)
    BY <1>1, Zenon DEF PurchaseOk
<1>. QED
    BY <1>2

(* The answer ends the abort of a purchase, or does not touch it. *)
LEMMA AnswerKeepsPurchase ==
    ASSUME NEW p, PurchaseOk(p), NEW ans
    PROVE  PurchaseOk(Answered(p, ans))
<1>. DEFINE refunds == RefundsAfter(p, ans)
            done == QueryDone(p, refunds)
<1>1. Answered(p, ans) =
          [p EXCEPT !.refunds = refunds,
                    !.refundQueryRequested = p.refundQueryRequested /\ ~done,
                    !.abortStatus = IF done /\ p.abortStatus = "AbortRefund"
                                    THEN "AbortFinished" ELSE p.abortStatus]
    BY Zenon DEF Answered
<1>. HIDE DEF done, refunds
<1>. PICK q : q = (p.refundQueryRequested /\ ~done)
    OBVIOUS
<1>. PICK a : a = IF done /\ p.abortStatus = "AbortRefund" THEN "AbortFinished" ELSE p.abortStatus
    OBVIOUS
<1>2. a = "AbortRefund" => q /\ p.abortStatus = "AbortRefund"
    BY Zenon DEF PurchaseOk
<1>3. PurchaseOk([p EXCEPT !.refunds = refunds, !.refundQueryRequested = q, !.abortStatus = a])
    BY <1>2, PurchaseAnswered
<1>. QED
    BY <1>1, <1>3, Zenon

(* applySuccessfulRefund puts an amount back on coins and keeps them otherwise. *)
LEMMA CreditKeepsCoins ==
    ASSUME NEW p, NEW ans, CoinsOk(db.coins)
    PROVE  CoinsOk(CreditCoins(p, ans)) /\ CoinsKept(db.coins, CreditCoins(p, ans))
<1>. PICK S : S = Credited(p, ans)
    OBVIOUS
<1>1. ASSUME NEW c \in DOMAIN db.coins
      PROVE  /\ CoinShape(CreditCoins(p, ans)[c])
             /\ db.coins[c].status # "Fresh" => CreditCoins(p, ans)[c].status # "Fresh"
    <2>. PICK x : x = Credit(p, ans, c)
        OBVIOUS
    <2>1. CreditCoins(p, ans)[c] = IF c \in S THEN CreditCoin(db.coins[c], x, ans.status[c])
                                   ELSE db.coins[c]
        BY DEF CreditCoins
    <2>2. CoinShape(db.coins[c])
        BY DEF CoinsOk
    <2>. QED
        BY <2>1, <2>2, CoinCredited
<1>2. IsFunction(CreditCoins(p, ans)) /\ DOMAIN CreditCoins(p, ans) = DOMAIN db.coins
    BY DEF CreditCoins, IsFunction
<1>. QED
    BY <1>1, <1>2 DEF CoinsOk, CoinsKept

(* acceptRefunds: the refunds, the coins and their refresh group in one transaction. *)
LEMMA AcceptRefundsStep ==
    ASSUME WalletInv, NEW t \in tasks, AcceptRefunds(t)
    PROVE  WalletInv' /\ StaysSpent
<1>. DEFINE o == Key(t)
            p == db.purchases[o]
            ans == Loc(t)
<1>. PICK f : f = CreditCoins(p, ans)
    OBVIOUS
<1>. PICK q : q = Answered(p, ans)
    OBVIOUS
<1>. PICK d : d = [db EXCEPT !.purchases[o] = q, !.coins = f]
    OBVIOUS
<1>1. o \in Orders /\ PurchaseOk(p) /\ UNCHANGED <<exchange, raced>> /\ Done(t)
    BY DEF AcceptRefunds, WalletInv, TaskOk, At
<1>2. db' = d \/ \E cs : db' = CreateRefreshGroup(d, cs)
    BY DEF AcceptRefunds
<1>3. PurchaseOk(q)
    BY <1>1, AnswerKeepsPurchase
<1>4. CoinsOk(f) /\ CoinsKept(db.coins, f)
    BY CreditKeepsCoins DEF WalletInv, TablesInv
<1>5. /\ DbShape(d) /\ d.coins = f /\ d.refreshGroups = db.refreshGroups
      /\ d.recoupGroups = db.recoupGroups /\ d.depositGroups = db.depositGroups /\ d.tips = db.tips
      /\ d.withdrawalGroups = db.withdrawalGroups /\ d.planchets = db.planchets
      /\ d.purchases = [db.purchases EXCEPT ![o] = q]
    BY DEF WalletInv, TablesInv, DbShape
<1>6. Spends(d, db')
    <2>1. CASE db' = d
        BY <1>4, <1>5, <2>1, Same DEF Spends, CoinsKept, WalletInv
    <2>2. ASSUME NEW cs, db' = CreateRefreshGroup(d, cs)
          PROVE  Spends(d, db')
        <3>1. CoinsOk(d.coins) /\ IsList(d.refreshGroups)
            BY <1>4, <1>5 DEF WalletInv, TablesInv, RefreshInv
        <3>2. Spends(d, CreateRefreshGroup(d, cs))
            BY <1>5, <3>1, RefreshGroupCreated
        <3>. QED
            BY <2>2, <3>2
    <2>. QED
        BY <1>2, <2>1, <2>2
<1>7. PurchaseInv' /\ PurchaseGrows
    BY <1>1, <1>3, <1>5, <1>6, PurchaseUpdated DEF Spends, WalletInv
<1>8. /\ UNCHANGED <<db.recoupGroups, db.depositGroups, db.tips, db.withdrawalGroups, db.planchets>>
      /\ UNCHANGED <<exchange.recoups, exchange.deposits>>
      /\ GroupsKept(db.refreshGroups, db'.refreshGroups)
      /\ DbShape(db') /\ CoinsOk(db'.coins) /\ CoinsKept(db.coins, db'.coins)
    BY <1>1, <1>4, <1>5, <1>6 DEF Spends, CoinsKept
<1>9. TablesStep
    BY <1>1, <1>7, <1>8, Same, SpendingStep, KeepRecoup, KeepDeposit DEF WalletInv
<1>. QED
    BY <1>1, <1>9, DoneOk, GoodStep

-----------------------------------------------------------------------------
(* Deposits into the bank account                                                         *)
LEMMA DepositGroupStep ==
    ASSUME WalletInv, UNCHANGED <<exchange, raced>>, NEW g \in DOMAIN db.depositGroups,
           NEW dg, DepositGroupShape(dg), db' = [db EXCEPT !.depositGroups[g] = dg],
           db.depositGroups[g].depositedPerCoin \subseteq dg.depositedPerCoin,
           \A c \in dg.depositedPerCoin : HasDeposit(g, c),
           dg.finished => \A c \in DOMAIN dg.payCoinSelection : HasDeposit(g, c)
    PROVE  TablesStep
<1>. PICK s : s = [db.depositGroups EXCEPT ![g] = dg]
    OBVIOUS
<1>1. /\ DbShape(db') /\ db'.depositGroups = s
      /\ UNCHANGED <<db.coins, db.refreshGroups, db.recoupGroups, db.tips, db.purchases,
                     db.withdrawalGroups, db.planchets>>
    BY DEF WalletInv, TablesInv, DbShape
<1>2. IsList(db.depositGroups)
    BY DEF WalletInv, TablesInv, DepositInv
<1>3. /\ IsList(s) /\ DOMAIN s = DOMAIN db.depositGroups /\ s[g] = dg
      /\ \A i \in DOMAIN db.depositGroups \ {g} : s[i] = db.depositGroups[i]
    BY <1>2, UpdateList
<1>4. DepositInv' /\ DepositGrows
    BY <1>1, <1>3 DEF WalletInv, TablesInv, DepositInv, DepositGrows, HasDeposit
<1>5. ExchangeShape'
    BY DEF WalletInv, TablesInv, ExchangeShape
<1>. QED
    BY <1>1, <1>4, <1>5, Same, KeepWithdraw, KeepTip, KeepRefresh, KeepRecoup, KeepPurchase, KeepCoins
       DEF TablesStep, WalletInv, TablesInv, Grows

(* processDepositGroup starts with what is deposited so far. *)
LEMMA ProcessDepositStep ==
    ASSUME WalletInv, NEW g \in DOMAIN db.depositGroups, ProcessDepositGroup(g)
    PROVE  WalletInv' /\ StaysSpent
<1>. DEFINE loc == [read |-> db.depositGroups[g].depositedPerCoin,
                    left |-> DOMAIN db.depositGroups[g].payCoinSelection
                             \ db.depositGroups[g].depositedPerCoin]
<1>1. Start("deposit", g, "post", loc) /\ UNCHANGED <<db, exchange, raced>>
    BY DEF ProcessDepositGroup
<1>2. ASSUME NEW u, IsTask(u, "deposit", g, "post", loc) PROVE TaskOk(u)
    BY <1>2 DEF IsTask, TaskOk, DepositTask
<1>. QED
    BY <1>1, <1>2, Started, TasksStep

(* The exchange stores the deposit of one coin. *)
LEMMA PostDepositStep ==
    ASSUME WalletInv, NEW t \in tasks, PostDeposit(t)
    PROVE  WalletInv' /\ StaysSpent
<1>. DEFINE g == Key(t)
            c == CHOOSE d \in Loc(t).left : TRUE
            p == [contract |-> DepositContract(g), coin |-> c,
                  amount |-> db.depositGroups[g].payCoinSelection[c], refunded |-> Nil]
<1>1. Op(t) = "deposit" /\ TaskShape(t) /\ DepositTask(t) /\ UNCHANGED <<db, raced>>
    BY DEF PostDeposit, At, WalletInv, TaskOk
<1>2. \/ HasDeposit(g, c) /\ exchange' = exchange
      \/ exchange' = [exchange EXCEPT !.deposits = @ \cup {p}]
      \/ exchange' = exchange /\ Done(t)
    BY DEF PostDeposit, HasDeposit
<1>3. Done(t) \/ Goto(t, "posted", Loc(t))
    BY DEF PostDeposit
<1>4. DepositShape(p)
    BY DEF DepositShape
<1>5. TablesStep
    <2>1. CASE exchange' = exchange
        BY <1>1, <2>1, TasksOnly DEF WalletInv
    <2>2. CASE exchange' = [exchange EXCEPT !.deposits = @ \cup {p}]
        <3>. PICK ps : ps = {p}
            OBVIOUS
        <3>1. \A q \in ps : DepositShape(q)
            BY <1>4
        <3>2. exchange' = [exchange EXCEPT !.deposits = @ \cup ps]
            BY <2>2
        <3>. QED
            BY <1>1, <3>1, <3>2, DepositsAdded
    <2>. QED
        BY <1>2, <2>1, <2>2
<1>6. CASE Done(t)
    BY <1>5, <1>6, DoneOk, GoodStep
<1>7. CASE Goto(t, "posted", Loc(t)) /\ ~Done(t)
    <2>1. HasDeposit(g, c)'
        <3>1. CASE HasDeposit(g, c) /\ exchange' = exchange
            BY <1>1, <3>1 DEF HasDeposit
        <3>2. CASE exchange' = [exchange EXCEPT !.deposits = @ \cup {p}]
            <4>1. p \in exchange'.deposits
                BY <3>2 DEF WalletInv, TablesInv, ExchangeShape
            <4>2. p.contract = DepositContract(g) /\ p.coin = c
                OBVIOUS
            <4>. HIDE DEF p
            <4>. QED
                BY <4>1, <4>2 DEF HasDeposit
        <3>. QED
            BY <1>2, <1>7, <3>1, <3>2
    <2>2. ASSUME NEW u, IsTask(u, "deposit", g, "posted", Loc(t)) PROVE TaskOk(u)'
        BY <1>1, <2>1, <2>2 DEF IsTask, TaskOk, DepositTask
    <2>. QED
        BY <1>1, <1>5, <1>7, <2>2, GoneTo, StepKeepsInv
<1>. QED
    BY <1>3, <1>6, <1>7

(* The coin is marked as deposited, which it is at the exchange. *)
LEMMA StoreDepositStep ==
    ASSUME WalletInv, NEW t \in tasks, StoreDeposit(t)
    PROVE  WalletInv' /\ StaysSpent
<1>. DEFINE g == Key(t)
            old == db.depositGroups[g]
<1>. PICK c : c = CHOOSE d \in Loc(t).left : TRUE
    OBVIOUS
<1>. PICK dg : dg = [old EXCEPT !.depositedPerCoin = @ \cup {c}]
    OBVIOUS
<1>. PICK loc : loc = [Loc(t) EXCEPT !.left = @ \ {c}]
    OBVIOUS
<1>1. /\ Op(t) = "deposit" /\ TaskShape(t) /\ DepositTask(t) /\ UNCHANGED <<exchange, raced>>
      /\ Goto(t, "post", loc) /\ db' = [db EXCEPT !.depositGroups[g] = dg] /\ HasDeposit(g, c)
    BY DEF StoreDeposit, At, WalletInv, TaskOk, DepositTask
<1>2. /\ g \in DOMAIN db.depositGroups /\ DepositGroupShape(old)
      /\ \A e \in old.depositedPerCoin : HasDeposit(g, e)
      /\ old.finished => \A e \in DOMAIN old.payCoinSelection : HasDeposit(g, e)
    BY <1>1 DEF DepositTask, WalletInv, TablesInv, DepositInv
<1>3. /\ DepositGroupShape(dg) /\ dg.depositedPerCoin = old.depositedPerCoin \cup {c}
      /\ dg.finished = old.finished /\ dg.payCoinSelection = old.payCoinSelection
    BY <1>2 DEF DepositGroupShape
<1>4. TablesStep
    BY <1>1, <1>2, <1>3, DepositGroupStep
<1>5. DepositTask(t)'
    BY <1>4, TaskStays, <1>1 DEF TablesStep, WalletInv, TaskOk
<1>6. loc = [read |-> loc.read, left |-> loc.left] /\ loc.read = Loc(t).read
    BY <1>1 DEF DepositTask
<1>7. ASSUME NEW u, IsTask(u, "deposit", g, "post", loc) PROVE TaskOk(u)'
    BY <1>5, <1>6, <1>7 DEF IsTask, TaskOk, DepositTask
<1>. QED
    BY <1>1, <1>4, <1>7, GoneTo, StepKeepsInv

(* The group is finished when all of its coins are marked. *)
LEMMA FinishDepositStep ==
    ASSUME WalletInv, NEW t \in tasks, FinishDepositGroup(t)
    PROVE  WalletInv' /\ StaysSpent
<1>. DEFINE g == Key(t)
            old == db.depositGroups[g]
<1>. PICK fin : fin = (old.finished \/ Loc(t).read = DOMAIN old.payCoinSelection)
    OBVIOUS
<1>. PICK dg : dg = [old EXCEPT !.finished = fin]
    OBVIOUS
<1>1. /\ Op(t) = "deposit" /\ DepositTask(t) /\ UNCHANGED <<exchange, raced>> /\ Done(t)
      /\ db' = [db EXCEPT !.depositGroups[g] = dg]
    BY DEF FinishDepositGroup, At, WalletInv, TaskOk
<1>2. /\ g \in DOMAIN db.depositGroups /\ DepositGroupShape(old)
      /\ \A e \in old.depositedPerCoin : HasDeposit(g, e)
      /\ old.finished => \A e \in DOMAIN old.payCoinSelection : HasDeposit(g, e)
    BY <1>1 DEF DepositTask, WalletInv, TablesInv, DepositInv
<1>3. /\ DepositGroupShape(dg) /\ dg.depositedPerCoin = old.depositedPerCoin
      /\ dg.finished = fin /\ dg.payCoinSelection = old.payCoinSelection
    BY <1>2 DEF DepositGroupShape
<1>4. fin => \A e \in DOMAIN old.payCoinSelection : HasDeposit(g, e)
    BY <1>1, <1>2 DEF DepositTask
<1>5. TablesStep
    BY <1>1, <1>2, <1>3, <1>4, DepositGroupStep
<1>. QED
    BY <1>1, <1>5, DoneOk, GoodStep

-----------------------------------------------------------------------------
(* Withdrawals                                                                           *)
LEMMA StoredTable ==
    ASSUME NEW f, NEW S, NEW x
    PROVE  /\ DOMAIN Stored(f, S, x) = DOMAIN f \cup S /\ IsFunction(Stored(f, S, x))
           /\ \A k \in S : Stored(f, S, x)[k] = x
           /\ \A k \in DOMAIN f \ S : Stored(f, S, x)[k] = f[k]
BY DEF Stored, IsFunction

(* A coin that was withdrawn, refreshed or picked up has the shape of a coin. *)
LEMMA FreshCoinOk ==
    ASSUME NEW v, NEW dn
    PROVE  CoinShape(FreshCoin(v, dn))
BY DEF CoinShape, FreshCoin

(* A step on withdrawals, planchets and coins. *)
LEMMA WithdrawStep ==
    ASSUME WalletInv, DbShape(db'), ExchangeShape', UNCHANGED <<db.refreshGroups, db.recoupGroups,
               db.depositGroups, db.tips, db.purchases, exchange.deposits, exchange.melts,
               exchange.recoups>>,
           raced \subseteq raced', CoinsOk(db'.coins), DOMAIN db.coins \subseteq DOMAIN db'.coins,
           StaysSpent, WithdrawInv' /\ WithdrawGrows, TipInv' /\ TipGrows
    PROVE  TablesStep
BY Same, KeepRefresh, KeepRecoup, KeepPurchase, KeepDeposit DEF TablesStep, WalletInv, TablesInv, Grows

(* A new withdrawal group                                                                *)
LEMMA GroupAppended ==
    ASSUME WalletInv, UNCHANGED <<exchange, raced>>, NEW r, NEW new, WithdrawalShape(new), ~new.finished,
           db' = [db EXCEPT !.reserve = r, !.withdrawalGroups = Append(@, new)]
    PROVE  /\ TablesStep
           /\ Len(db.withdrawalGroups) + 1 \in DOMAIN db'.withdrawalGroups
           /\ db'.withdrawalGroups[Len(db.withdrawalGroups) + 1] = new
<1>. PICK g : g = Len(db.withdrawalGroups) + 1
    OBVIOUS
<1>. PICK s : s = Append(db.withdrawalGroups, new)
    OBVIOUS
<1>1. /\ DbShape(db') /\ db'.withdrawalGroups = s
      /\ UNCHANGED <<db.coins, db.refreshGroups, db.recoupGroups, db.depositGroups, db.tips,
                     db.purchases, db.planchets>>
    BY DEF WalletInv, TablesInv, DbShape
<1>2. IsList(db.withdrawalGroups)
    BY DEF WalletInv, TablesInv, WithdrawInv
<1>3. /\ IsList(s) /\ DOMAIN s = DOMAIN db.withdrawalGroups \cup {g} /\ s[g] = new
      /\ \A h \in DOMAIN db.withdrawalGroups : s[h] = db.withdrawalGroups[h]
    BY <1>2, AppendList
<1>4. \A h \in DOMAIN db.withdrawalGroups : PlannedCoins(h)' = PlannedCoins(h)
    BY <1>1, <1>3 DEF PlannedCoins
<1>5. WithdrawInv' /\ WithdrawGrows
    BY <1>1, <1>3, <1>4 DEF WalletInv, TablesInv, WithdrawInv, WithdrawGrows
<1>6. ExchangeShape'
    BY DEF WalletInv, TablesInv, ExchangeShape
<1>7. TablesStep
    BY <1>1, <1>5, <1>6, WithdrawStep, KeepTip, KeepCoins DEF WalletInv, TablesInv
<1>. QED
    BY <1>1, <1>3, <1>7

(* updateReserve: a new withdrawal group for what the reserve holds. *)
LEMMA StoreReserveStep ==
    ASSUME WalletInv, NEW t \in tasks, StoreReserve(t)
    PROVE  WalletInv' /\ StaysSpent
<1>. PICK count : count = IF Offered = {} THEN 0 ELSE Unclaimed(Loc(t)) \div CoinValue
    OBVIOUS
<1>. PICK g : g = Len(db.withdrawalGroups) + 1
    OBVIOUS
<1>. PICK dormant : dormant = [db.reserve EXCEPT !.status = "DORMANT"]
    OBVIOUS
<1>. PICK no : no = FALSE
    OBVIOUS
<1>. PICK new : new = [count |-> count, denom |-> NewDenom, finished |-> no, deleted |-> no]
    OBVIOUS
<1>1. Op(t) = "reserve" /\ TaskOk(t) /\ TaskShape(t) /\ UNCHANGED <<exchange, raced>>
    BY DEF StoreReserve, At, WalletInv, TaskOk
<1>2. CASE count = 0
    BY <1>1, <1>2, DoneOk, FreeStep DEF StoreReserve, Update, FreeUpdate
<1>3. CASE count # 0
    <2>1. /\ db' = [db EXCEPT !.reserve = dormant, !.withdrawalGroups = Append(@, new)]
          /\ tasks' = (tasks \ {t}) \cup {MovedTo(t, "withdraw", g),
                                          Task("withdraw", g, "generate", 1 .. count)}
        BY <1>3, Zenon DEF StoreReserve
    <2>2. WithdrawalShape(new) /\ ~new.finished /\ new.count = count
        BY DEF WithdrawalShape
    <2>3. TablesStep /\ g \in DOMAIN db'.withdrawalGroups /\ db'.withdrawalGroups[g] = new
        BY <1>1, <2>1, <2>2, GroupAppended
    <2>4. ASSUME NEW u, IsTask(u, "withdraw", g, "generate", 1 .. count)
          PROVE  TaskOk(u)'
        BY <2>2, <2>3, <2>4 DEF IsTask, TaskOk, WithdrawTask
    <2>5. ASSUME NEW u, IsTask(u, "reserve", Key(t), "withdraw", g)
          PROVE  TaskOk(u)'
        BY <2>5 DEF IsTask, TaskOk
    <2>6. IsTask(MovedTo(t, "withdraw", g), "reserve", Key(t), "withdraw", g)
        BY <1>1, MovedTask
    <2>7. IsTask(Task("withdraw", g, "generate", 1 .. count), "withdraw", g, "generate", 1 .. count)
        BY NewTask
    <2>8. \A u \in tasks' : u \in tasks \/ TaskOk(u)'
        BY <2>1, <2>4, <2>5, <2>6, <2>7
    <2>. QED
        BY <2>3, <2>8, StepKeepsInv
<1>. QED
    BY <1>2, <1>3

(* processWithdrawGroup starts with the planchets that are still to be made. *)
LEMMA ProcessWithdrawStep ==
    ASSUME WalletInv, NEW g \in DOMAIN db.withdrawalGroups, ProcessWithdrawGroup(g)
    PROVE  WalletInv' /\ StaysSpent
<1>. DEFINE loc == 1 .. db.withdrawalGroups[g].count
<1>1. Start("withdraw", g, "generate", loc) /\ UNCHANGED <<db, exchange, raced>>
    BY DEF ProcessWithdrawGroup
<1>2. ASSUME NEW u, IsTask(u, "withdraw", g, "generate", loc) PROVE TaskOk(u)
    BY <1>2 DEF IsTask, TaskOk, WithdrawTask
<1>. QED
    BY <1>1, <1>2, Started, TasksStep

(* The fields of a withdrawal group that is updated. *)
LEMMA WithdrawalFields ==
    ASSUME NEW p, WithdrawalShape(p), NEW x
    PROVE  /\ WithdrawalShape([p EXCEPT !.deleted = x]) /\ WithdrawalShape([p EXCEPT !.finished = x])
           /\ [p EXCEPT !.deleted = x].count = p.count
           /\ [p EXCEPT !.deleted = x].finished = p.finished
           /\ [p EXCEPT !.finished = x].count = p.count
BY DEF WithdrawalShape

(* A withdrawal group is finished when all of its coins are stored, or it is deleted.           *)
LEMMA GroupUpdated ==
    ASSUME WalletInv, UNCHANGED exchange, raced \subseteq raced', NEW g \in DOMAIN db.withdrawalGroups,
           NEW new, WithdrawalShape(new), db' = [db EXCEPT !.withdrawalGroups[g] = new],
           new.count = db.withdrawalGroups[g].count,
           new.finished => PlannedCoins(g) \subseteq DOMAIN db.coins
    PROVE  TablesStep
<1>. PICK s : s = [db.withdrawalGroups EXCEPT ![g] = new]
    OBVIOUS
<1>1. /\ DbShape(db') /\ db'.withdrawalGroups = s
      /\ UNCHANGED <<db.coins, db.refreshGroups, db.recoupGroups, db.depositGroups, db.tips,
                     db.purchases, db.planchets>>
    BY DEF WalletInv, TablesInv, DbShape
<1>2. IsList(db.withdrawalGroups)
    BY DEF WalletInv, TablesInv, WithdrawInv
<1>3. /\ IsList(s) /\ DOMAIN s = DOMAIN db.withdrawalGroups /\ s[g] = new
      /\ \A h \in DOMAIN db.withdrawalGroups \ {g} : s[h] = db.withdrawalGroups[h]
    BY <1>2, UpdateList
<1>4. \A h \in DOMAIN db.withdrawalGroups : PlannedCoins(h)' = PlannedCoins(h)
    BY <1>1, <1>3 DEF PlannedCoins
<1>5. WithdrawInv' /\ WithdrawGrows
    BY <1>1, <1>3, <1>4 DEF WalletInv, TablesInv, WithdrawInv, WithdrawGrows
<1>6. ExchangeShape'
    BY DEF WalletInv, TablesInv, ExchangeShape
<1>. QED
    BY <1>1, <1>5, <1>6, WithdrawStep, KeepTip, KeepCoins DEF WalletInv, TablesInv

(* deleteTransaction of a withdrawal, whose planchets stay. *)
LEMMA DeleteWithdrawalStep ==
    ASSUME WalletInv, NEW g \in DOMAIN db.withdrawalGroups, DeleteWithdrawal(g)
    PROVE  WalletInv' /\ StaysSpent
<1>. DEFINE old == db.withdrawalGroups[g]
<1>. PICK yes : yes = TRUE
    OBVIOUS
<1>. PICK new : new = [old EXCEPT !.deleted = yes]
    OBVIOUS
<1>1. /\ db' = [db EXCEPT !.withdrawalGroups[g] = new] /\ raced \subseteq raced'
      /\ UNCHANGED <<exchange, tasks>>
    BY DEF DeleteWithdrawal
<1>2. WithdrawalShape(old) /\ (old.finished => PlannedCoins(g) \subseteq DOMAIN db.coins)
    BY DEF WalletInv, TablesInv, WithdrawInv
<1>3. WithdrawalShape(new) /\ new.count = old.count /\ new.finished = old.finished
    BY <1>2, WithdrawalFields
<1>4. TablesStep
    BY <1>1, <1>2, <1>3, GroupUpdated
<1>. QED
    BY <1>1, <1>4, GoodStep

(* The group is finished when all of its planchets are done. *)
LEMMA FinishWithdrawStep ==
    ASSUME WalletInv, NEW t \in tasks, FinishWithdraw(t)
    PROVE  WalletInv' /\ StaysSpent
<1>. DEFINE g == Key(t)
            old == db.withdrawalGroups[g]
<1>. PICK yes : yes = TRUE
    OBVIOUS
<1>. PICK new : new = [old EXCEPT !.finished = yes]
    OBVIOUS
<1>1. /\ Op(t) = "withdraw" /\ WithdrawTask(t) /\ Pc(t) \in {"request", "failed"}
      /\ UNCHANGED <<exchange, raced>> /\ Done(t)
    BY DEF FinishWithdraw, Storing, At, WalletInv, TaskOk
<1>2. \/ db' = db
      \/ /\ db' = [db EXCEPT !.withdrawalGroups[g] = new]
         /\ \A c \in PlannedCoins(g) : db.planchets[c] = "done"
    BY DEF FinishWithdraw
<1>3. CASE db' = db
    BY <1>1, <1>3, DoneOk, TasksStep
<1>4. CASE /\ db' = [db EXCEPT !.withdrawalGroups[g] = new]
           /\ \A c \in PlannedCoins(g) : db.planchets[c] = "done"
    <2>1. g \in DOMAIN db.withdrawalGroups /\ PlannedCoins(g) \subseteq DOMAIN db.planchets
        BY <1>1 DEF WithdrawTask, PlannedCoins
    <2>2. PlannedCoins(g) \subseteq DOMAIN db.coins
        BY <1>4, <2>1 DEF WalletInv, TablesInv, WithdrawInv
    <2>3. WithdrawalShape(new) /\ new.count = old.count
        BY <2>1, WithdrawalFields DEF WalletInv, TablesInv, WithdrawInv
    <2>4. TablesStep
        BY <1>1, <1>4, <2>1, <2>2, <2>3, GroupUpdated
    <2>. QED
        BY <1>1, <2>4, DoneOk, GoodStep
<1>. QED
    BY <1>2, <1>3, <1>4

(* A planchet is generated unless there is one.                                            *)
LEMMA PlanchetStored ==
    ASSUME WalletInv, UNCHANGED <<exchange, raced>>, NEW c, SourceOf(c) = "withdraw",
           NEW f, f = Stored(db.planchets, {c} \ DOMAIN db.planchets, "pending"),
           db' = [db EXCEPT !.planchets = f]
    PROVE  /\ TablesStep /\ UNCHANGED db.withdrawalGroups
           /\ DOMAIN db'.planchets = DOMAIN db.planchets \cup {c}
<1>1. /\ IsFunction(f) /\ DOMAIN f = DOMAIN db.planchets \cup {c}
      /\ \A d \in DOMAIN db.planchets : f[d] = db.planchets[d]
      /\ c \notin DOMAIN db.planchets => f[c] = "pending"
    BY DEF Stored, IsFunction
<1>2. /\ DbShape(db') /\ db'.planchets = f
      /\ UNCHANGED <<db.coins, db.refreshGroups, db.recoupGroups, db.depositGroups, db.tips,
                     db.purchases, db.withdrawalGroups>>
    BY DEF WalletInv, TablesInv, DbShape
<1>3. \A h : PlannedCoins(h)' = PlannedCoins(h)
    BY <1>2 DEF PlannedCoins
<1>4. WithdrawInv' /\ WithdrawGrows
    <2>1. WithdrawInv
        BY DEF WalletInv, TablesInv
    <2>2. \A d \in DOMAIN f : SourceOf(d) = "withdraw" /\ (f[d] = "done" <=> d \in DOMAIN db.coins)
        BY <1>1, <2>1 DEF WithdrawInv
    <2>. QED
        BY <1>1, <1>2, <1>3, <2>1, <2>2, ZenonT(60) DEF WithdrawInv, WithdrawGrows
<1>5. ExchangeShape'
    BY DEF WalletInv, TablesInv, ExchangeShape
<1>6. TablesStep
    BY <1>2, <1>4, <1>5, WithdrawStep, KeepTip, KeepCoins DEF WalletInv, TablesInv
<1>. QED
    BY <1>1, <1>2, <1>6

(* processPlanchetGenerate stores a planchet unless there is one. *)
LEMMA PlanchetGenerateStep ==
    ASSUME WalletInv, NEW t \in tasks, PlanchetGenerate(t)
    PROVE  WalletInv' /\ StaysSpent
<1>. DEFINE g == Key(t)
            n == db.withdrawalGroups[g].count
<1>1. /\ Op(t) = "withdraw" /\ Pc(t) = "generate" /\ TaskShape(t) /\ WithdrawTask(t)
      /\ UNCHANGED <<exchange, raced>>
    BY DEF PlanchetGenerate, At, WalletInv, TaskOk
<1>2. \E i \in Loc(t) : \E f :
        /\ f = Stored(db.planchets, {WithdrawCoin(g, i)} \ DOMAIN db.planchets, "pending")
        /\ db' = [db EXCEPT !.planchets = f]
        /\ \/ Loc(t) = {i} /\ Goto(t, "request", [next |-> 1, got |-> {}])
           \/ Goto(t, "generate", Loc(t) \ {i})
    BY DEF PlanchetGenerate
<1>. PICK i \in Loc(t) : \E f :
        /\ f = Stored(db.planchets, {WithdrawCoin(g, i)} \ DOMAIN db.planchets, "pending")
        /\ db' = [db EXCEPT !.planchets = f]
        /\ \/ Loc(t) = {i} /\ Goto(t, "request", [next |-> 1, got |-> {}])
           \/ Goto(t, "generate", Loc(t) \ {i})
    BY <1>2
<1>. PICK f :
        /\ f = Stored(db.planchets, {WithdrawCoin(g, i)} \ DOMAIN db.planchets, "pending")
        /\ db' = [db EXCEPT !.planchets = f]
        /\ \/ Loc(t) = {i} /\ Goto(t, "request", [next |-> 1, got |-> {}])
           \/ Goto(t, "generate", Loc(t) \ {i})
    OBVIOUS
<1>3. SourceOf(WithdrawCoin(g, i)) = "withdraw"
    BY DEF SourceOf, WithdrawCoin
<1>4. /\ TablesStep /\ UNCHANGED db.withdrawalGroups
      /\ DOMAIN db'.planchets = DOMAIN db.planchets \cup {WithdrawCoin(g, i)}
    BY <1>1, <1>3, PlanchetStored
<1>5. \A j \in 1 .. n : j \in Loc(t) \ {i} \/ WithdrawCoin(g, j) \in DOMAIN db'.planchets
    BY <1>1, <1>4 DEF WithdrawTask
<1>6. g \in DOMAIN db'.withdrawalGroups /\ db'.withdrawalGroups[g].count = n
    BY <1>1, <1>4 DEF WithdrawTask
<1>7. CASE Goto(t, "generate", Loc(t) \ {i})
    <2>1. ASSUME NEW u, IsTask(u, "withdraw", g, "generate", Loc(t) \ {i}) PROVE TaskOk(u)'
        BY <1>5, <1>6, <2>1 DEF IsTask, TaskOk, WithdrawTask
    <2>. QED
        BY <1>1, <1>4, <1>7, <2>1, GoneTo, StepKeepsInv
<1>8. CASE Loc(t) = {i} /\ Goto(t, "request", [next |-> 1, got |-> {}])
    <2>. PICK loc : loc = [next |-> 1, got |-> {}]
        OBVIOUS
    <2>1. ASSUME NEW u, IsTask(u, "withdraw", g, "request", loc) PROVE TaskOk(u)'
        BY <1>5, <1>6, <1>8, <2>1 DEF IsTask, TaskOk, WithdrawTask
    <2>. QED
        BY <1>1, <1>4, <1>8, <2>1, GoneTo, StepKeepsInv
<1>. QED
    BY <1>7, <1>8

(* The exchange signs a planchet that is stored.                                            *)
LEMMA CoinSigned ==
    ASSUME WalletInv, UNCHANGED <<db, raced>>, NEW g \in DOMAIN db.withdrawalGroups,
           NEW i \in 1 .. db.withdrawalGroups[g].count, NEW c, c = WithdrawCoin(g, i),
           c \in DOMAIN db.planchets, exchange' = [exchange EXCEPT !.signed = @ \cup {c}]
    PROVE  TablesStep
<1>1. /\ exchange'.signed = exchange.signed \cup {c} /\ ExchangeShape'
      /\ UNCHANGED <<exchange.deposits, exchange.melts, exchange.recoups>>
    BY DEF WalletInv, TablesInv, ExchangeShape
<1>2. SourceOf(c) = "withdraw" /\ c[2] = g /\ c \in PlannedCoins(g)
    BY DEF SourceOf, WithdrawCoin, PlannedCoins
<1>3. \A h : PlannedCoins(h)' = PlannedCoins(h)
    BY DEF PlannedCoins
<1>4. \A r : TipCoins(r)' = TipCoins(r)
    BY DEF TipCoins
<1>5. WithdrawInv' /\ WithdrawGrows
    <2>1. WithdrawInv
        BY DEF WalletInv, TablesInv
    <2>. QED
        BY <1>1, <1>2, <1>3, <2>1 DEF WithdrawInv, WithdrawGrows
<1>6. TipInv' /\ TipGrows
    <2>1. TipInv
        BY DEF WalletInv, TablesInv
    <2>. QED
        BY <1>1, <1>2, <1>4, <2>1 DEF TipInv, TipGrows
<1>7. DbShape(db')
    BY DEF WalletInv, TablesInv, DbShape
<1>. QED
    BY <1>1, <1>5, <1>6, <1>7, WithdrawStep, KeepCoins DEF WalletInv, TablesInv

(* The local data of a promise that collects signatures. *)
LEMMA Locals ==
    ASSUME NEW loc, NEW a, NEW b, loc = [next |-> a, got |-> b], NEW x, NEW r
    PROVE  /\ r = [loc EXCEPT !.next = x] => r = [next |-> x, got |-> b]
           /\ r = [loc EXCEPT !.got = x] => r = [next |-> a, got |-> x]
           /\ loc.got = b
OBVIOUS

(* The exchange signs a planchet, which was stored before. *)
LEMMA PlanchetRequestStep ==
    ASSUME WalletInv, NEW t \in tasks, PlanchetRequest(t)
    PROVE  WalletInv' /\ StaysSpent
<1>. DEFINE g == Key(t)
            n == db.withdrawalGroups[g].count
            i == Loc(t).next
            got == Loc(t).got
            c == WithdrawCoin(g, i)
<1>1. /\ Op(t) = "withdraw" /\ Pc(t) = "request" /\ TaskShape(t) /\ WithdrawTask(t)
      /\ UNCHANGED <<db, raced>> /\ i <= n
    BY DEF PlanchetRequest, At, WalletInv, TaskOk
<1>2. /\ g \in DOMAIN db.withdrawalGroups /\ i \in Nat \ {0} /\ got \subseteq 1 .. n
      /\ Loc(t) = [next |-> i, got |-> got]
      /\ \A j \in 1 .. n : WithdrawCoin(g, j) \in DOMAIN db.planchets
    BY <1>1 DEF WithdrawTask
<1>3. i \in 1 .. n
    BY <1>1, <1>2
<1>4. exchange' = exchange \/ exchange' = [exchange EXCEPT !.signed = @ \cup {c}]
    BY DEF PlanchetRequest
<1>5. \E pc \in {"request", "failed"}, k \in Nat \ {0} : \E s \in SUBSET (1 .. n) :
          Goto(t, pc, [next |-> k, got |-> s])
    <2>. PICK k : k = i + 1
        OBVIOUS
    <2>. PICK s : s = got \cup {i}
        OBVIOUS
    <2>. PICK loc : loc = Loc(t)
        OBVIOUS
    <2>1. loc = [next |-> i, got |-> got]
        BY <1>2
    <2>. PICK skip : skip = [loc EXCEPT !.next = k]
        OBVIOUS
    <2>2. skip = [next |-> k, got |-> got]
        BY <2>1, Locals
    <2>. PICK both : both = [skip EXCEPT !.got = s]
        OBVIOUS
    <2>3. skip.got = got /\ both = [next |-> k, got |-> s]
        BY <2>2, Locals
    <2>4. k \in Nat \ {0} /\ s \in SUBSET (1 .. n) /\ got \in SUBSET (1 .. n)
        BY <1>2, <1>3
    <2>5. \/ Goto(t, "request", skip) \/ Goto(t, "failed", loc)
          \/ Goto(t, "request", [skip EXCEPT !.got = @ \cup {i}])
        BY DEF PlanchetRequest
    <2>6. \/ Goto(t, "request", [next |-> k, got |-> got])
          \/ Goto(t, "request", [next |-> k, got |-> s])
          \/ Goto(t, "failed", [next |-> i, got |-> got])
        BY <2>1, <2>2, <2>3, <2>5
    <2>. QED
        BY <1>2, <2>4, <2>6
<1>6. TablesStep
    BY <1>1, <1>2, <1>3, <1>4, CoinSigned, TasksOnly DEF WalletInv
<1>7. ASSUME NEW pc \in {"request", "failed"}, NEW k \in Nat \ {0}, NEW s \in SUBSET (1 .. n),
             NEW loc, loc = [next |-> k, got |-> s], NEW u, IsTask(u, "withdraw", g, pc, loc)
      PROVE  TaskOk(u)'
    BY <1>1, <1>2, <1>7 DEF IsTask, TaskOk, WithdrawTask
<1>. QED
    BY <1>1, <1>5, <1>6, <1>7, GoneTo, StepKeepsInv

(* A coin is stored together with the state of its planchet.                                  *)
LEMMA CoinStored ==
    ASSUME WalletInv, UNCHANGED <<exchange, raced>>, NEW c \in DOMAIN db.planchets,
           db.planchets[c] # "done", NEW coin, CoinShape(coin),
           NEW f, f = Stored(db.coins, {c}, coin),
           NEW p, p = [db.planchets EXCEPT ![c] = "done"],
           db' = [db EXCEPT !.planchets = p, !.coins = f]
    PROVE  /\ TablesStep /\ UNCHANGED db.withdrawalGroups
           /\ DOMAIN db'.planchets = DOMAIN db.planchets
<1>1. /\ IsFunction(f) /\ DOMAIN f = DOMAIN db.coins \cup {c} /\ f[c] = coin
      /\ \A d \in DOMAIN db.coins \ {c} : f[d] = db.coins[d]
    BY DEF Stored, IsFunction
<1>2. WithdrawInv /\ CoinsOk(db.coins) /\ SourceOf(c) = "withdraw" /\ c \notin DOMAIN db.coins
    BY DEF WalletInv, TablesInv, WithdrawInv
<1>3. /\ IsFunction(p) /\ DOMAIN p = DOMAIN db.planchets /\ p[c] = "done"
      /\ \A d \in DOMAIN db.planchets \ {c} : p[d] = db.planchets[d]
    BY <1>2 DEF IsFunction, WithdrawInv
<1>4. /\ DbShape(db') /\ db'.planchets = p /\ db'.coins = f
      /\ UNCHANGED <<db.refreshGroups, db.recoupGroups, db.depositGroups, db.tips,
                     db.purchases, db.withdrawalGroups>>
    BY DEF WalletInv, TablesInv, DbShape
<1>5. \A h : PlannedCoins(h)' = PlannedCoins(h)
    BY <1>4 DEF PlannedCoins
<1>6. WithdrawInv' /\ WithdrawGrows
    <2>1. \A d \in DOMAIN p : SourceOf(d) = "withdraw" /\ (p[d] = "done" <=> d \in DOMAIN f)
        BY <1>1, <1>2, <1>3 DEF WithdrawInv
    <2>2. \A d \in DOMAIN f : SourceOf(d) = "withdraw" => d \in DOMAIN p
        BY <1>1, <1>2, <1>3 DEF WithdrawInv
    <2>3. \A h \in DOMAIN db.withdrawalGroups : db.withdrawalGroups[h].finished => PlannedCoins(h) \subseteq DOMAIN f
        BY <1>1, <1>2 DEF WithdrawInv
    <2>4. /\ IsList(db'.withdrawalGroups) /\ IsFunction(db'.planchets)
          /\ \A h \in DOMAIN db'.withdrawalGroups : WithdrawalShape(db'.withdrawalGroups[h])
        BY <1>2, <1>3, <1>4 DEF WithdrawInv
    <2>5. \A d \in exchange'.signed \ {WithdrawnElsewhere} : SourceOf(d) = "withdraw" =>
              /\ d \in DOMAIN db'.planchets
              /\ d[2] \in DOMAIN db'.withdrawalGroups /\ d \in PlannedCoins(d[2])'
        BY <1>2, <1>3, <1>4, <1>5 DEF WithdrawInv
    <2>6. WithdrawGrows
        BY <1>3, <1>4 DEF WithdrawGrows
    <2>. QED
        BY <1>4, <1>5, <2>1, <2>2, <2>3, <2>4, <2>5, <2>6, ZenonT(60) DEF WithdrawInv
<1>7. CoinsOk(f) /\ StaysSpent
    BY <1>1, <1>2, <1>4 DEF CoinsOk, StaysSpent
<1>8. ExchangeShape'
    BY DEF WalletInv, TablesInv, ExchangeShape
<1>9. TipInv' /\ TipGrows
    BY <1>1, <1>2, <1>4, KeepTip DEF WalletInv
<1>10. TablesStep
    BY <1>1, <1>4, <1>6, <1>7, <1>8, <1>9, WithdrawStep
<1>. QED
    BY <1>3, <1>4, <1>10

(* processPlanchetVerifyAndStoreCoin stores the coin and marks the planchet. *)
LEMMA StoreCoinStep ==
    ASSUME WalletInv, NEW t \in tasks, StoreCoin(t)
    PROVE  WalletInv' /\ StaysSpent
<1>. DEFINE g == Key(t)
            n == db.withdrawalGroups[g].count
<1>1. /\ Op(t) = "withdraw" /\ Pc(t) \in {"request", "failed"} /\ TaskShape(t) /\ WithdrawTask(t)
      /\ UNCHANGED <<exchange, raced>>
    BY DEF StoreCoin, Storing, At, WalletInv, TaskOk
<1>2. /\ g \in DOMAIN db.withdrawalGroups /\ Loc(t).next \in Nat \ {0} /\ Loc(t).got \subseteq 1 .. n
      /\ Loc(t) = [next |-> Loc(t).next, got |-> Loc(t).got]
      /\ \A j \in 1 .. n : WithdrawCoin(g, j) \in DOMAIN db.planchets
    BY <1>1 DEF WithdrawTask
<1>3. PICK i \in Loc(t).got :
          /\ Goto(t, Pc(t), [Loc(t) EXCEPT !.got = @ \ {i}])
          /\ \/ db' = db
             \/ /\ db.planchets[WithdrawCoin(g, i)] # "done"
                /\ db' = [db EXCEPT !.planchets[WithdrawCoin(g, i)] = "done",
                                    !.coins = Stored(@, {WithdrawCoin(g, i)},
                                        FreshCoin(CoinValue, db.withdrawalGroups[g].denom))]
    BY DEF StoreCoin
<1>4. PICK loc : loc = [Loc(t) EXCEPT !.got = @ \ {i}] /\ Goto(t, Pc(t), loc)
    BY <1>3
<1>5. loc = [next |-> loc.next, got |-> loc.got] /\ loc.next \in Nat \ {0} /\ loc.got \subseteq 1 .. n
    BY <1>2, <1>4
<1>6. /\ TablesStep /\ UNCHANGED db.withdrawalGroups /\ DOMAIN db'.planchets = DOMAIN db.planchets
    <2>1. CASE db' = db
        BY <1>1, <2>1, TasksOnly DEF WalletInv
    <2>2. CASE db' # db
        <3>. PICK c : c = WithdrawCoin(g, i)
            OBVIOUS
        <3>. PICK coin : coin = FreshCoin(CoinValue, db.withdrawalGroups[g].denom)
            OBVIOUS
        <3>. PICK f : f = Stored(db.coins, {c}, coin)
            OBVIOUS
        <3>. PICK p : p = [db.planchets EXCEPT ![c] = "done"]
            OBVIOUS
        <3>1. db.planchets[c] # "done" /\ db' = [db EXCEPT !.planchets = p, !.coins = f]
            BY <1>3, <2>2
        <3>2. c \in DOMAIN db.planchets /\ CoinShape(coin)
            BY <1>2, <1>3, FreshCoinOk
        <3>. QED
            BY <1>1, <3>1, <3>2, CoinStored
    <2>. QED
        BY <2>1, <2>2
<1>7. ASSUME NEW u, IsTask(u, "withdraw", g, Pc(t), loc) PROVE TaskOk(u)'
    BY <1>1, <1>2, <1>5, <1>6, <1>7 DEF IsTask, TaskOk, WithdrawTask
<1>. QED
    BY <1>1, <1>4, <1>6, <1>7, GoneTo, StepKeepsInv

-----------------------------------------------------------------------------
(* Tips                                                                                  *)
TipsAndCoins(s, f) ==
    /\ IsList(s) /\ \A r \in DOMAIN s : TipShape(s[r])
    /\ \A r \in DOMAIN db.tips : /\ r \in DOMAIN s /\ s[r].count = db.tips[r].count
                                 /\ db.tips[r].accepted => s[r].accepted
    /\ \A c \in DOMAIN f : SourceOf(c) = "tip" => c[2] \in DOMAIN s /\ s[c[2]].pickedUp
    /\ \A r \in DOMAIN s : s[r].pickedUp => \A i \in 1 .. s[r].count : TipCoin(r, i) \in DOMAIN f
    /\ CoinsOk(f) /\ DOMAIN db.coins \subseteq DOMAIN f
    /\ \A c \in DOMAIN db.coins : f[c] = db.coins[c]
    /\ \A c \in DOMAIN f \ DOMAIN db.coins : SourceOf(c) # "withdraw"

(* A step on tips and coins. *)
LEMMA TipStep ==
    ASSUME WalletInv, UNCHANGED exchange, raced \subseteq raced',
           NEW s, NEW f, TipsAndCoins(s, f), db' = [db EXCEPT !.tips = s, !.coins = f]
    PROVE  TablesStep
<1>1. /\ DbShape(db') /\ db'.tips = s /\ db'.coins = f
      /\ UNCHANGED <<db.refreshGroups, db.recoupGroups, db.depositGroups, db.withdrawalGroups,
                     db.purchases, db.planchets>>
    BY DEF WalletInv, TablesInv, DbShape
<1>2. \A r : TipCoins(r)' = {TipCoin(r, i) : i \in 1 .. s[r].count}
    BY <1>1 DEF TipCoins
<1>3. \A r \in DOMAIN db.tips : TipCoins(r)' = TipCoins(r)
    BY <1>2 DEF TipsAndCoins, TipCoins
<1>4. TipInv
    BY DEF WalletInv, TablesInv
<1>5. \A c \in exchange'.signed : SourceOf(c) = "tip" =>
          c[2] \in DOMAIN db'.tips /\ c \in TipCoins(c[2])' /\ db'.tips[c[2]].accepted
    BY <1>1, <1>3, <1>4 DEF TipsAndCoins, TipInv
<1>6. TipInv' /\ TipGrows
    BY <1>1, <1>2, <1>4, <1>5 DEF TipsAndCoins, TipInv, TipGrows
<1>7. ExchangeShape'
    BY DEF WalletInv, TablesInv, ExchangeShape
<1>8. StaysSpent
    BY <1>1 DEF TipsAndCoins, StaysSpent
<1>9. WithdrawInv' /\ WithdrawGrows
    BY <1>1, KeepWithdraw DEF TipsAndCoins, WalletInv
<1>10. /\ CoinsOk(db'.coins) /\ DOMAIN db.coins \subseteq DOMAIN db'.coins
       /\ UNCHANGED <<db.refreshGroups, db.recoupGroups, db.depositGroups, db.purchases,
                      exchange.deposits, exchange.melts, exchange.recoups>>
    BY <1>1 DEF TipsAndCoins
<1>11. /\ RefreshInv' /\ RefreshGrows /\ RecoupInv' /\ RecoupGrows
       /\ PurchaseInv' /\ PurchaseGrows /\ DepositInv' /\ DepositGrows
    BY <1>10, Same, KeepRefresh, KeepRecoup, KeepPurchase, KeepDeposit DEF WalletInv
<1>12. TablesInv'
    BY <1>1, <1>6, <1>7, <1>9, <1>10, <1>11, Zenon DEF TablesInv
<1>. QED
    BY <1>6, <1>8, <1>9, <1>11, <1>12 DEF TablesStep, Grows

(* A tip is stored or accepted: no coins change.                                            *)
LEMMA TipsOnly ==
    ASSUME WalletInv, UNCHANGED <<exchange, raced>>,
           NEW s, db' = [db EXCEPT !.tips = s],
           IsList(s), \A r \in DOMAIN s : TipShape(s[r]),
           \A r \in DOMAIN db.tips :
               /\ r \in DOMAIN s /\ s[r].count = db.tips[r].count
               /\ db.tips[r].accepted => s[r].accepted
               /\ s[r].pickedUp = db.tips[r].pickedUp,
           \A r \in DOMAIN s \ DOMAIN db.tips : ~s[r].pickedUp
    PROVE  TablesStep
<1>. PICK f : f = db.coins
    OBVIOUS
<1>1. db' = [db EXCEPT !.tips = s, !.coins = f]
    BY DEF WalletInv, TablesInv, DbShape
<1>2. TipInv /\ CoinsOk(f)
    BY DEF WalletInv, TablesInv
<1>3. \A r \in DOMAIN db.tips : {TipCoin(r, i) : i \in 1 .. s[r].count} = TipCoins(r)
    BY DEF TipCoins
<1>4. \A c \in DOMAIN f : SourceOf(c) = "tip" => c[2] \in DOMAIN s /\ s[c[2]].pickedUp
    BY <1>2 DEF TipInv
<1>5. \A r \in DOMAIN s : s[r].pickedUp => \A i \in 1 .. s[r].count : TipCoin(r, i) \in DOMAIN f
    BY <1>2, <1>3 DEF TipInv
<1>6. TipsAndCoins(s, f)
    BY <1>2, <1>4, <1>5 DEF TipsAndCoins
<1>. QED
    BY <1>1, <1>6, TipStep

(* processTip starts for a tip that was accepted. *)
LEMMA TipTasks ==
    ASSUME WalletInv, NEW r \in DOMAIN db.tips, db.tips[r].accepted, ProcessTip(r)
    PROVE  WalletInv' /\ StaysSpent
<1>1. Start("tip", r, "pickup", Nil) /\ UNCHANGED <<db, exchange, raced>>
    BY DEF ProcessTip
<1>2. ASSUME NEW u, IsTask(u, "tip", r, "pickup", Nil) PROVE TaskOk(u)
    BY <1>2 DEF IsTask, TaskOk, TipTask
<1>. QED
    BY <1>1, <1>2, Started, TasksStep

(* prepareTip stores a tip that is neither accepted nor picked up. *)
LEMMA StoreTipStep ==
    ASSUME WalletInv, NEW t \in tasks, StoreTip(t, 1)
    PROVE  WalletInv' /\ StaysSpent
<1>. PICK no : no = FALSE
    OBVIOUS
<1>. PICK new : new = [accepted |-> no, pickedUp |-> no, count |-> 1, denom |-> NewDenom]
    OBVIOUS
<1>. PICK s : s = Append(db.tips, new)
    OBVIOUS
<1>1. UNCHANGED <<exchange, raced>> /\ Done(t) /\ (db' = db \/ db' = [db EXCEPT !.tips = s])
    BY DEF StoreTip
<1>2. IsList(db.tips) /\ \A r \in DOMAIN db.tips : TipShape(db.tips[r])
    BY DEF WalletInv, TablesInv, TipInv
<1>3. /\ IsList(s) /\ DOMAIN s = DOMAIN db.tips \cup {Len(db.tips) + 1} /\ s[Len(db.tips) + 1] = new
      /\ \A r \in DOMAIN db.tips : s[r] = db.tips[r]
    BY <1>2, AppendList
<1>4. TipShape(new) /\ ~new.pickedUp
    BY DEF TipShape
<1>5. TablesStep
    <2>1. CASE db' = db
        BY <1>1, <2>1, TasksOnly DEF WalletInv
    <2>2. CASE db' = [db EXCEPT !.tips = s]
        <3>1. /\ \A r \in DOMAIN s : TipShape(s[r])
              /\ \A r \in DOMAIN db.tips :
                     /\ r \in DOMAIN s /\ s[r].count = db.tips[r].count
                     /\ db.tips[r].accepted => s[r].accepted
                     /\ s[r].pickedUp = db.tips[r].pickedUp
              /\ \A r \in DOMAIN s \ DOMAIN db.tips : ~s[r].pickedUp
            BY <1>2, <1>3, <1>4
        <3>. QED
            BY <1>1, <1>3, <2>2, <3>1, TipsOnly
    <2>. QED
        BY <1>1, <2>1, <2>2
<1>. QED
    BY <1>1, <1>5, DoneOk, GoodStep

(* The fields of a tip that is updated. *)
LEMMA TipFields ==
    ASSUME NEW p, TipShape(p), NEW x, NEW q
    PROVE  /\ q = [p EXCEPT !.accepted = x] =>
                  TipShape(q) /\ q.count = p.count /\ q.pickedUp = p.pickedUp /\ q.accepted = x
           /\ q = [p EXCEPT !.pickedUp = x] =>
                  TipShape(q) /\ q.count = p.count /\ q.pickedUp = x /\ q.accepted = p.accepted
BY DEF TipShape

(* acceptTip marks the tip before it is picked up. *)
LEMMA AcceptTipStep ==
    ASSUME WalletInv, NEW r \in DOMAIN db.tips, AcceptTip(r)
    PROVE  WalletInv' /\ StaysSpent
<1>. PICK yes : yes = TRUE
    OBVIOUS
<1>. PICK old : old = db.tips[r]
    OBVIOUS
<1>. PICK new : new = [old EXCEPT !.accepted = yes]
    OBVIOUS
<1>. PICK s : s = [db.tips EXCEPT ![r] = new]
    OBVIOUS
<1>1. /\ UNCHANGED <<exchange, raced>> /\ Start("tip", r, "pickup", Nil)
      /\ db' = [db EXCEPT !.tips = s]
    BY DEF AcceptTip
<1>2. IsList(db.tips) /\ \A q \in DOMAIN db.tips : TipShape(db.tips[q])
    BY DEF WalletInv, TablesInv, TipInv
<1>3. /\ IsList(s) /\ DOMAIN s = DOMAIN db.tips /\ s[r] = new
      /\ \A q \in DOMAIN db.tips \ {r} : s[q] = db.tips[q]
    BY <1>2, UpdateList
<1>4. TipShape(new) /\ new.count = old.count /\ new.pickedUp = old.pickedUp /\ new.accepted = yes
    <2>1. TipShape(old)
        BY <1>2
    <2>. QED
        BY <2>1, TipFields
<1>5. TablesStep
    BY <1>1, <1>2, <1>3, <1>4, TipsOnly
<1>6. r \in DOMAIN db'.tips /\ db'.tips[r].accepted
    BY <1>1, <1>3, <1>4 DEF WalletInv, TablesInv, DbShape
<1>7. ASSUME NEW u, IsTask(u, "tip", r, "pickup", Nil) PROVE TaskOk(u)'
    BY <1>6, <1>7 DEF IsTask, TaskOk, TipTask
<1>. QED
    BY <1>1, <1>5, <1>7, Started, StepKeepsInv

(* The merchant has the coins of an accepted tip signed.                                     *)
LEMMA PickupTipStep ==
    ASSUME WalletInv, NEW t \in tasks, PickupTip(t)
    PROVE  WalletInv' /\ StaysSpent
<1>. DEFINE r == Key(t)
<1>1. /\ Op(t) = "tip" /\ TipTask(t) /\ Advances(t) /\ UNCHANGED <<db, raced>>
      /\ exchange' = exchange \/ exchange' = [exchange EXCEPT !.signed = @ \cup TipCoins(r)]
    BY DEF PickupTip, At, Advances, WalletInv, TaskOk
<1>2. CASE exchange' = exchange
    BY <1>1, <1>2, AdvanceOk, TasksStep
<1>3. CASE exchange' = [exchange EXCEPT !.signed = @ \cup TipCoins(r)]
    <2>1. /\ exchange'.signed = exchange.signed \cup TipCoins(r) /\ ExchangeShape'
          /\ UNCHANGED <<exchange.deposits, exchange.melts, exchange.recoups>>
        BY <1>3 DEF WalletInv, TablesInv, ExchangeShape
    <2>2. \A c \in TipCoins(r) : SourceOf(c) = "tip" /\ c[2] = r
        BY DEF TipCoins, TipCoin, SourceOf
    <2>3. /\ \A q : TipCoins(q)' = TipCoins(q)
          /\ \A q : PlannedCoins(q)' = PlannedCoins(q)
        BY <1>1 DEF TipCoins, PlannedCoins
    <2>4. WithdrawInv' /\ WithdrawGrows
        <3>1. WithdrawInv
            BY DEF WalletInv, TablesInv
        <3>. QED
            BY <1>1, <2>1, <2>2, <2>3, <3>1 DEF WithdrawInv, WithdrawGrows
    <2>5. TipInv' /\ TipGrows
        <3>1. TipInv
            BY DEF WalletInv, TablesInv
        <3>. QED
            BY <1>1, <2>1, <2>2, <2>3, <3>1 DEF TipInv, TipTask, TipGrows
    <2>6. DbShape(db') /\ CoinsOk(db'.coins)
        BY <1>1 DEF WalletInv, TablesInv, DbShape
    <2>7. TablesStep
        BY <1>1, <2>1, <2>4, <2>5, <2>6, WithdrawStep, KeepCoins DEF WalletInv
    <2>. QED
        BY <1>1, <2>7, AdvanceOk, GoodStep
<1>. QED
    BY <1>1, <1>2, <1>3

(* The coins of a tip are stored once.                                                     *)
LEMMA StoreTipCoinsStep ==
    ASSUME WalletInv, NEW t \in tasks, StoreTipCoins(t)
    PROVE  WalletInv' /\ StaysSpent
<1>. DEFINE r == Key(t)
<1>. PICK yes : yes = TRUE
    OBVIOUS
<1>. PICK old : old = db.tips[r]
    OBVIOUS
<1>. PICK new : new = [old EXCEPT !.pickedUp = yes]
    OBVIOUS
<1>. PICK s : s = [db.tips EXCEPT ![r] = new]
    OBVIOUS
<1>. PICK coin : coin = FreshCoin(CoinValue, old.denom)
    OBVIOUS
<1>. PICK f : f = Stored(db.coins, TipCoins(r), coin)
    OBVIOUS
<1>1. /\ Op(t) = "tip" /\ TipTask(t) /\ UNCHANGED <<exchange, raced>> /\ Done(t)
      /\ db' = db \/ (~old.pickedUp /\ db' = [db EXCEPT !.tips = s, !.coins = f])
    BY DEF StoreTipCoins, TipPickedUp, WithTipCoins, At, WalletInv, TaskOk
<1>2. CASE db' = db
    BY <1>1, <1>2, DoneOk, TasksStep
<1>3. CASE ~old.pickedUp /\ db' = [db EXCEPT !.tips = s, !.coins = f]
    <2>1. /\ r \in DOMAIN db.tips /\ IsList(db.tips) /\ TipInv /\ CoinsOk(db.coins)
          /\ \A q \in DOMAIN db.tips : TipShape(db.tips[q])
        BY <1>1 DEF TipTask, WalletInv, TablesInv, TipInv
    <2>2. /\ IsList(s) /\ DOMAIN s = DOMAIN db.tips /\ s[r] = new
          /\ \A q \in DOMAIN db.tips \ {r} : s[q] = db.tips[q]
        BY <2>1, UpdateList
    <2>3. TipShape(new) /\ new.count = old.count /\ new.pickedUp = yes /\ new.accepted = old.accepted
        <3>1. TipShape(old)
            BY <2>1
        <3>. QED
            BY <3>1, TipFields
    <2>4. \A c \in TipCoins(r) : SourceOf(c) = "tip" /\ c[2] = r
        BY DEF TipCoins, TipCoin, SourceOf
    <2>5. \A c \in TipCoins(r) : c \notin DOMAIN db.coins
        BY <1>3, <2>1, <2>4 DEF TipInv
    <2>6. /\ IsFunction(f) /\ DOMAIN f = DOMAIN db.coins \cup TipCoins(r)
          /\ \A c \in TipCoins(r) : f[c] = coin
          /\ \A c \in DOMAIN db.coins : f[c] = db.coins[c]
        BY <2>5 DEF Stored, IsFunction
    <2>7. CoinsOk(f)
        BY <2>1, <2>6, FreshCoinOk DEF CoinsOk
    <2>8. \A q \in DOMAIN s : {TipCoin(q, i) : i \in 1 .. s[q].count} = TipCoins(q)
        BY <2>2, <2>3 DEF TipCoins
    <2>9. \A q \in DOMAIN s : s[q].pickedUp => \A i \in 1 .. s[q].count : TipCoin(q, i) \in DOMAIN f
        BY <2>1, <2>2, <2>6, <2>8 DEF TipInv
    <2>10. \A c \in DOMAIN f : SourceOf(c) = "tip" => c[2] \in DOMAIN s /\ s[c[2]].pickedUp
        BY <2>1, <2>2, <2>3, <2>4, <2>6 DEF TipInv
    <2>11. /\ \A q \in DOMAIN s : TipShape(s[q])
           /\ \A q \in DOMAIN db.tips : /\ q \in DOMAIN s /\ s[q].count = db.tips[q].count
                                        /\ db.tips[q].accepted => s[q].accepted
        BY <2>1, <2>2, <2>3
    <2>12. \A c \in DOMAIN f \ DOMAIN db.coins : SourceOf(c) # "withdraw"
        BY <2>4, <2>6
    <2>13. DOMAIN db.coins \subseteq DOMAIN f /\ raced \subseteq raced'
        BY <1>1, <2>6
    <2>14. TipsAndCoins(s, f)
        BY <2>13, <2>2, <2>6, <2>7, <2>9, <2>10, <2>11, <2>12, Zenon DEF TipsAndCoins
    <2>15. TablesStep
        BY <1>1, <1>3, <2>13, <2>14, TipStep
    <2>. QED
        BY <1>1, <2>15, DoneOk, GoodStep
<1>. QED
    BY <1>1, <1>2, <1>3

-----------------------------------------------------------------------------
(* Refresh                                                                               *)

(* What a step may make of a refresh group, and of the coins: what was melted stays melted,     *)
(* and its coin is pending, stored or raced.                                                 *)
GroupAndCoins(g, rg, f) ==
    LET old == db.refreshGroups[g] IN
    /\ RefreshShape(rg) /\ \A i \in DOMAIN rg.session : SessionShape(rg.session[i])
    /\ rg.oldCoinPubs = old.oldCoinPubs
    /\ \A i \in DOMAIN old.session : i \in DOMAIN rg.session /\ rg.session[i].seed = old.session[i].seed
    /\ \A i \in DOMAIN rg.statusPerCoin : rg.statusPerCoin[i] = "Pending" => rg.state = "active"
    /\ \A m \in exchange.melts : m.session[1] = g =>
          \/ RefreshCoin(g, m.session[2]) \in DOMAIN f \cup raced'
          \/ rg.statusPerCoin[m.session[2]] = "Pending"
    /\ CoinsOk(f) /\ DOMAIN db.coins \subseteq DOMAIN f
    /\ \A c \in DOMAIN f \ DOMAIN db.coins : SourceOf(c) = "refresh"

(* A refresh group is updated, and coins of it are stored.                                   *)
LEMMA RefreshStep ==
    ASSUME WalletInv, UNCHANGED exchange, raced \subseteq raced', StaysSpent,
           NEW g \in DOMAIN db.refreshGroups, NEW rg, NEW f, GroupAndCoins(g, rg, f),
           db' = [db EXCEPT !.refreshGroups[g] = rg, !.coins = f]
    PROVE  TablesStep
<1>. PICK s : s = [db.refreshGroups EXCEPT ![g] = rg]
    OBVIOUS
<1>1. /\ DbShape(db') /\ db'.refreshGroups = s /\ db'.coins = f
      /\ UNCHANGED <<db.tips, db.recoupGroups, db.depositGroups, db.withdrawalGroups,
                     db.purchases, db.planchets>>
    BY DEF WalletInv, TablesInv, DbShape
<1>2. RefreshInv
    BY DEF WalletInv, TablesInv
<1>3. /\ IsList(s) /\ DOMAIN s = DOMAIN db.refreshGroups /\ s[g] = rg
      /\ \A h \in DOMAIN db.refreshGroups \ {g} : s[h] = db.refreshGroups[h]
    BY <1>2, UpdateList DEF RefreshInv
<1>4. CoinsOk(f) /\ DOMAIN db.coins \subseteq DOMAIN f
    BY DEF GroupAndCoins
<1>5. ASSUME NEW h \in DOMAIN s
      PROVE  /\ RefreshShape(s[h]) /\ \A i \in DOMAIN s[h].session : SessionShape(s[h].session[i])
             /\ \A i \in DOMAIN s[h].statusPerCoin :
                    s[h].statusPerCoin[i] = "Pending" => s[h].state = "active"
    <2>1. CASE h = g
        BY <1>3, <2>1 DEF GroupAndCoins
    <2>2. CASE h # g
        BY <1>2, <1>3, <2>2 DEF RefreshInv
    <2>. QED
        BY <2>1, <2>2
<1>6. ASSUME NEW m \in exchange.melts
      PROVE  /\ MeltShape(m) /\ m.session[1] \in DOMAIN s
             /\ m.session[2] \in DOMAIN s[m.session[1]].oldCoinPubs
             /\ m.coin = s[m.session[1]].oldCoinPubs[m.session[2]]
             /\ m.session[2] \in DOMAIN s[m.session[1]].session
             /\ s[m.session[1]].session[m.session[2]].seed = m.seed
             /\ \/ RefreshCoin(m.session[1], m.session[2]) \in DOMAIN f \cup raced'
                \/ s[m.session[1]].statusPerCoin[m.session[2]] = "Pending"
    <2>. PICK h : h = m.session[1]
        OBVIOUS
    <2>. PICK i : i = m.session[2]
        OBVIOUS
    <2>1. /\ MeltShape(m) /\ h \in DOMAIN db.refreshGroups
          /\ i \in DOMAIN db.refreshGroups[h].oldCoinPubs
          /\ m.coin = db.refreshGroups[h].oldCoinPubs[i]
          /\ i \in DOMAIN db.refreshGroups[h].session
          /\ db.refreshGroups[h].session[i].seed = m.seed
          /\ \/ RefreshCoin(h, i) \in DOMAIN db.coins \cup raced
             \/ db.refreshGroups[h].statusPerCoin[i] = "Pending"
        BY <1>2 DEF RefreshInv
    <2>2. CASE h = g
        <3>1. /\ rg.oldCoinPubs = db.refreshGroups[g].oldCoinPubs
              /\ i \in DOMAIN rg.session /\ rg.session[i].seed = m.seed
              /\ RefreshCoin(g, i) \in DOMAIN f \cup raced' \/ rg.statusPerCoin[i] = "Pending"
            BY <2>1, <2>2 DEF GroupAndCoins
        <3>. QED
            BY <1>3, <2>1, <2>2, <3>1
    <2>3. CASE h # g
        BY <1>3, <1>4, <2>1, <2>3
    <2>. QED
        BY <2>2, <2>3
<1>7. RefreshInv'
    <2>1. IsList(db'.refreshGroups)
        BY <1>1, <1>3
    <2>2. \A h \in DOMAIN db'.refreshGroups :
             LET to == db'.refreshGroups[h] IN
             /\ RefreshShape(to)
             /\ \A i \in DOMAIN to.session : SessionShape(to.session[i])
             /\ \A i \in DOMAIN to.statusPerCoin : to.statusPerCoin[i] = "Pending" => to.state = "active"
        BY <1>1, <1>5
    <2>3. \A m \in exchange'.melts :
             /\ MeltShape(m) /\ m.session[1] \in DOMAIN db'.refreshGroups
             /\ LET to == db'.refreshGroups[m.session[1]]
                    i == m.session[2] IN
                /\ i \in DOMAIN to.oldCoinPubs /\ m.coin = to.oldCoinPubs[i]
                /\ i \in DOMAIN to.session /\ to.session[i].seed = m.seed
                /\ \/ RefreshCoin(m.session[1], i) \in DOMAIN db'.coins \cup raced'
                   \/ to.statusPerCoin[i] = "Pending"
        BY <1>1, <1>6
    <2>. QED
        BY <2>1, <2>2, <2>3 DEF RefreshInv
<1>8. RefreshGrows
    BY <1>1, <1>3 DEF RefreshGrows, GroupAndCoins
<1>9. ExchangeShape'
    BY DEF WalletInv, TablesInv, ExchangeShape
<1>10. WithdrawInv' /\ WithdrawGrows /\ TipInv' /\ TipGrows
    BY <1>1, KeepWithdraw, KeepTip DEF GroupAndCoins, WalletInv
<1>11. /\ RecoupInv' /\ RecoupGrows /\ PurchaseInv' /\ PurchaseGrows /\ DepositInv' /\ DepositGrows
    BY <1>1, Same, KeepRecoup, KeepPurchase, KeepDeposit DEF WalletInv
<1>12. TablesInv'
    BY <1>1, <1>4, <1>7, <1>9, <1>10, <1>11, Zenon DEF TablesInv
<1>. QED
    BY <1>8, <1>10, <1>11, <1>12 DEF TablesStep, Grows

(* The same without new coins                                                            *)
LEMMA RefreshOnly ==
    ASSUME WalletInv, UNCHANGED exchange, raced \subseteq raced',
           NEW g \in DOMAIN db.refreshGroups, NEW rg, GroupAndCoins(g, rg, db.coins),
           db' = [db EXCEPT !.refreshGroups[g] = rg]
    PROVE  TablesStep
<1>. PICK f : f = db.coins
    OBVIOUS
<1>1. db' = [db EXCEPT !.refreshGroups[g] = rg, !.coins = f] /\ db'.coins = db.coins
    BY DEF WalletInv, TablesInv, DbShape
<1>2. StaysSpent
    BY <1>1 DEF StaysSpent
<1>. QED
    BY <1>1, <1>2, RefreshStep

(* SetCoinStatus ends one coin of a group; the group is active while a coin is pending.        *)
LEMMA StatusSet ==
    ASSUME NEW rg, RefreshShape(rg), NEW i \in DOMAIN rg.statusPerCoin, NEW st, st # "Pending",
           \A j \in DOMAIN rg.statusPerCoin : rg.statusPerCoin[j] = "Pending" => rg.state = "active",
           NEW r, r = SetCoinStatus(rg, i, st)
    PROVE  /\ RefreshShape(r) /\ r.oldCoinPubs = rg.oldCoinPubs /\ r.session = rg.session
           /\ \A j \in DOMAIN r.statusPerCoin : r.statusPerCoin[j] = "Pending" => r.state = "active"
           /\ \A j \in DOMAIN rg.statusPerCoin \ {i} : r.statusPerCoin[j] = rg.statusPerCoin[j]
<1>. PICK sts : sts = [rg.statusPerCoin EXCEPT ![i] = st]
    OBVIOUS
<1>. PICK p : p = [rg EXCEPT !.statusPerCoin = sts]
    OBVIOUS
<1>1. /\ IsFunction(sts) /\ DOMAIN sts = DOMAIN rg.statusPerCoin /\ sts[i] = st
      /\ \A j \in DOMAIN sts \ {i} : sts[j] = rg.statusPerCoin[j]
    BY DEF RefreshShape, IsFunction
<1>2. /\ p = [oldCoinPubs |-> rg.oldCoinPubs, inputPerCoin |-> rg.inputPerCoin,
              statusPerCoin |-> sts, session |-> rg.session, state |-> rg.state]
    BY DEF RefreshShape
<1>. PICK state : state = IF "Pending" \in Range(sts) THEN rg.state
                          ELSE IF "Frozen" \in Range(sts) THEN "frozen" ELSE "finished"
    OBVIOUS
<1>3. r = UpdateGroupStatus(p)
    BY DEF SetCoinStatus
<1>4. r = [p EXCEPT !.state = state]
    BY <1>2, <1>3 DEF UpdateGroupStatus
<1>5. r = [oldCoinPubs |-> rg.oldCoinPubs, inputPerCoin |-> rg.inputPerCoin,
           statusPerCoin |-> sts, session |-> rg.session, state |-> state]
    BY <1>2, <1>4
<1>6. \A j \in DOMAIN sts : sts[j] = "Pending" => state = "active"
    <2>. SUFFICES ASSUME NEW j \in DOMAIN sts, sts[j] = "Pending" PROVE state = "active"
        OBVIOUS
    <2>1. "Pending" \in Range(sts) /\ j # i
        BY <1>1 DEF Range
    <2>. QED
        BY <1>1, <2>1
<1>. QED
    BY <1>1, <1>5, <1>6 DEF RefreshShape

(* What a promise of a session stands for, and what was melted for it                          *)
LEMMA SessionFacts ==
    ASSUME WalletInv, NEW t \in tasks, Op(t) = "session"
    PROVE  /\ TaskOk(t) /\ TaskShape(t) /\ SessionTaskOk(t)
           /\ Key(t)[1] \in DOMAIN db.refreshGroups
           /\ Index(t) \in DOMAIN Group(t).statusPerCoin
           /\ Index(t) \in DOMAIN Group(t).oldCoinPubs
           /\ RefreshShape(Group(t))
           /\ \A j \in DOMAIN Group(t).session : SessionShape(Group(t).session[j])
           /\ \A j \in DOMAIN Group(t).statusPerCoin :
                  Group(t).statusPerCoin[j] = "Pending" => Group(t).state = "active"
           /\ Pc(t) # "create" => Index(t) \in DOMAIN Group(t).session
           /\ CoinsOk(db.coins)
<1>1. TaskOk(t) /\ TaskShape(t) /\ SessionTaskOk(t)
    BY DEF WalletInv, TaskOk
<1>. QED
    BY <1>1 DEF WalletInv, TablesInv, RefreshInv, SessionTaskOk, Group, Index, RefreshShape

(* What the invariant says of one melt, by name. *)
LEMMA MeltFacts ==
    ASSUME WalletInv, NEW m \in exchange.melts
    PROVE  LET rg == db.refreshGroups[m.session[1]] IN
           /\ MeltShape(m) /\ m.session[1] \in DOMAIN db.refreshGroups
           /\ m.session[2] \in DOMAIN rg.oldCoinPubs /\ m.coin = rg.oldCoinPubs[m.session[2]]
           /\ m.session[2] \in DOMAIN rg.session /\ rg.session[m.session[2]].seed = m.seed
           /\ \/ RefreshCoin(m.session[1], m.session[2]) \in DOMAIN db.coins \cup raced
              \/ rg.statusPerCoin[m.session[2]] = "Pending"
BY DEF WalletInv, TablesInv, RefreshInv

(* A melt of a session is one that the exchange knows again.                                   *)
LEMMA MeltIsKnown ==
    ASSUME WalletInv, NEW t \in tasks, Op(t) = "session", NEW m \in exchange.melts,
           m.session = Key(t)
    PROVE  KnownMelt(t) /\ HasSession(t)
<1>1. /\ m.coin = Group(t).oldCoinPubs[Index(t)]
      /\ Index(t) \in DOMAIN Group(t).session /\ Group(t).session[Index(t)].seed = m.seed
    BY MeltFacts DEF Group, Index
<1>2. [coin |-> m.coin, session |-> m.session, seed |-> m.seed] = MeltOf(t)
    BY <1>1 DEF MeltOf
<1>. QED
    BY <1>1, <1>2 DEF KnownMelt, HasSession

(* A coin of a group is ended; unless its session may have melted, or the coin is there.        *)
LEMMA CoinEnded ==
    ASSUME WalletInv, NEW t \in tasks, Op(t) = "session", raced \subseteq raced',
           NEW st, st # "Pending", NEW rg, rg = SetCoinStatus(Group(t), Index(t), st), NEW f,
           CoinsOk(f), DOMAIN db.coins \subseteq DOMAIN f,
           \A c \in DOMAIN f \ DOMAIN db.coins : SourceOf(c) = "refresh",
           \/ RefreshCoin(Key(t)[1], Index(t)) \in DOMAIN f \cup raced'
           \/ \A m \in exchange.melts : m.session # Key(t)
    PROVE  GroupAndCoins(Key(t)[1], rg, f)
<1>1. /\ RefreshShape(rg) /\ rg.oldCoinPubs = Group(t).oldCoinPubs /\ rg.session = Group(t).session
      /\ \A j \in DOMAIN rg.statusPerCoin : rg.statusPerCoin[j] = "Pending" => rg.state = "active"
      /\ \A j \in DOMAIN Group(t).statusPerCoin \ {Index(t)} :
             rg.statusPerCoin[j] = Group(t).statusPerCoin[j]
    BY SessionFacts, StatusSet
<1>2. ASSUME NEW m \in exchange.melts, m.session[1] = Key(t)[1]
      PROVE  \/ RefreshCoin(Key(t)[1], m.session[2]) \in DOMAIN f \cup raced'
             \/ rg.statusPerCoin[m.session[2]] = "Pending"
    <2>1. /\ MeltShape(m) /\ m.session[2] \in DOMAIN Group(t).oldCoinPubs
          /\ \/ RefreshCoin(Key(t)[1], m.session[2]) \in DOMAIN db.coins \cup raced
             \/ Group(t).statusPerCoin[m.session[2]] = "Pending"
        BY <1>2, MeltFacts DEF Group
    <2>2. CASE m.session[2] = Index(t)
        <3>1. m.session = Key(t)
            BY <1>2, <2>1, <2>2, SessionFacts DEF MeltShape, SessionTaskOk, Index
        <3>. QED
            BY <2>2, <3>1
    <2>3. CASE m.session[2] # Index(t)
        <3>1. m.session[2] \in DOMAIN Group(t).statusPerCoin \ {Index(t)}
            BY <2>1, <2>3, SessionFacts DEF RefreshShape
        <3>. QED
            BY <1>1, <2>1, <3>1
    <2>. QED
        BY <2>2, <2>3
<1>3. \A j \in DOMAIN rg.session : SessionShape(rg.session[j])
    BY <1>1, SessionFacts
<1>. QED
    BY <1>1, <1>2, <1>3, Zenon DEF GroupAndCoins, Group

(* processRefreshGroup starts a promise for every coin of the group. *)
LEMMA ProcessRefreshStep ==
    ASSUME WalletInv, NEW g \in DOMAIN db.refreshGroups, ProcessRefreshGroup(g)
    PROVE  WalletInv' /\ StaysSpent
<1>1. /\ tasks' = tasks \cup {SessionTask(k) : k \in Unfinished(g)}
      /\ UNCHANGED <<db, exchange, raced>>
    BY DEF ProcessRefreshGroup
<1>2. ASSUME NEW k \in Unfinished(g)
      PROVE  TaskOk(SessionTask(k))
    <2>1. \E i \in DOMAIN db.refreshGroups[g].oldCoinPubs : k = <<g, i>>
        BY DEF Unfinished, SessionKeys
    <2>. PICK pc : pc = IF k[2] \notin DOMAIN db.refreshGroups[k[1]].session THEN "create"
                        ELSE IF db.refreshGroups[k[1]].session[k[2]].melted THEN "reveal" ELSE "melt"
        OBVIOUS
    <2>. PICK u : u = SessionTask(k)
        OBVIOUS
    <2>2. IsTask(u, "session", k, pc, Nil)
        BY NewTask DEF SessionTask
    <2>3. k[2] \notin DOMAIN db.refreshGroups[k[1]].session => pc = "create"
        OBVIOUS
    <2>. HIDE DEF SessionTask
    <2>. QED
        BY <2>1, <2>2, <2>3 DEF IsTask, TaskOk, SessionTaskOk
<1>. QED
    BY <1>1, <1>2, TasksStep

(* A session is stored unless there is one.                                                 *)
StoresSession(t, s, ss, rg) ==
    /\ Op(t) = "session" /\ ~HasSession(t) /\ SessionShape(s)
    /\ ss = Stored(Group(t).session, {Index(t)}, s)
    /\ rg = [Group(t) EXCEPT !.session = ss]
    /\ db' = [db EXCEPT !.refreshGroups[Key(t)[1]] = rg]

(* A session that is stored leaves the other sessions and all coins alone. *)
LEMMA SessionStored ==
    ASSUME WalletInv, UNCHANGED <<exchange, raced>>, NEW t \in tasks,
           NEW s, NEW ss, NEW rg, StoresSession(t, s, ss, rg)
    PROVE  TablesStep /\ rg.session = ss /\ Index(t) \in DOMAIN ss /\ rg.oldCoinPubs = Group(t).oldCoinPubs
<1>0. /\ Op(t) = "session" /\ ~HasSession(t) /\ SessionShape(s)
      /\ ss = Stored(Group(t).session, {Index(t)}, s)
      /\ rg = [Group(t) EXCEPT !.session = ss]
      /\ db' = [db EXCEPT !.refreshGroups[Key(t)[1]] = rg]
    BY DEF StoresSession
<1>1. /\ IsFunction(ss) /\ DOMAIN ss = DOMAIN Group(t).session \cup {Index(t)} /\ ss[Index(t)] = s
      /\ Index(t) \notin DOMAIN Group(t).session
      /\ \A j \in DOMAIN Group(t).session : ss[j] = Group(t).session[j]
    BY <1>0 DEF Stored, IsFunction, HasSession
<1>2. /\ RefreshShape(rg) /\ rg.oldCoinPubs = Group(t).oldCoinPubs /\ rg.session = ss
      /\ rg.statusPerCoin = Group(t).statusPerCoin /\ rg.state = Group(t).state
    BY <1>0, <1>1, SessionFacts DEF RefreshShape
<1>3. \A j \in DOMAIN rg.session : SessionShape(rg.session[j])
    BY <1>0, <1>1, <1>2, SessionFacts
<1>4. ASSUME NEW m \in exchange.melts, m.session[1] = Key(t)[1]
      PROVE  \/ RefreshCoin(Key(t)[1], m.session[2]) \in DOMAIN db.coins \cup raced'
             \/ rg.statusPerCoin[m.session[2]] = "Pending"
    BY <1>2, <1>4, MeltFacts DEF Group
<1>5. \A j \in DOMAIN rg.statusPerCoin : rg.statusPerCoin[j] = "Pending" => rg.state = "active"
    BY <1>0, <1>2, SessionFacts
<1>6. GroupAndCoins(Key(t)[1], rg, db.coins)
    BY <1>1, <1>2, <1>3, <1>4, <1>5, <1>0, SessionFacts DEF GroupAndCoins, Group
<1>7. TablesStep
    BY <1>0, <1>6, RefreshOnly, SessionFacts
<1>. QED
    BY <1>1, <1>2, <1>7

(* refreshCreateSession: a session, or a coin that is finished without one; see race 8. *)
LEMMA RefreshCreateSessionStep ==
    ASSUME WalletInv, NEW t \in tasks, RefreshCreateSession(t)
    PROVE  WalletInv' /\ StaysSpent
<1>. DEFINE g == Key(t)[1]
            i == Index(t)
<1>. PICK available : available = IF Offered = {} THEN 0 ELSE Sub(Group(t).inputPerCoin[i], RefreshFee)
    OBVIOUS
<1>1. /\ Op(t) = "session" /\ Pc(t) = "create" /\ UNCHANGED exchange
      /\ IF available = 0
         THEN /\ db' = PutGroup(t, SetCoinStatus(Group(t), i, "Finished"))
              /\ IF HasSession(t) THEN Goto(t, "melt", Nil) ELSE Done(t)
              /\ raced' = IF HasSession(t) THEN raced \cup {RefreshCoin(Key(t)[1], Key(t)[2])} ELSE raced
         ELSE /\ db' = WithSession(t, available)
              /\ Goto(t, "melt", Nil)
              /\ UNCHANGED raced
    BY DEF RefreshCreateSession, At
<1>2. \A u \in tasks' : u \in tasks \/ IsTask(u, "session", Key(t), "melt", Nil)
    BY <1>1, GoneTo, SessionFacts DEF Done
<1>3. ASSUME RefreshGrows, TablesStep,
             \/ HasSession(t)
             \/ i \in DOMAIN db'.refreshGroups[g].session
             \/ Done(t)
      PROVE  WalletInv' /\ StaysSpent
    <2>1. CASE Done(t)
        BY <1>3, <2>1, DoneOk, GoodStep
    <2>2. CASE ~Done(t)
        <3>1. i \in DOMAIN db'.refreshGroups[g].session
            BY <1>1, <1>3, <2>2, SessionFacts DEF HasSession, RefreshGrows, Group
        <3>2. /\ g \in DOMAIN db'.refreshGroups
              /\ i \in DOMAIN db'.refreshGroups[g].oldCoinPubs
            BY <1>1, <1>3, SessionFacts DEF RefreshGrows, Group
        <3>3. Key(t) = <<g, i>>
            BY <1>1, SessionFacts DEF SessionTaskOk, Index
        <3>4. ASSUME NEW u, IsTask(u, "session", Key(t), "melt", Nil) PROVE TaskOk(u)'
            BY <3>1, <3>2, <3>3, <3>4 DEF IsTask, TaskOk, SessionTaskOk
        <3>. QED
            BY <1>2, <1>3, <3>4, StepKeepsInv
    <2>. QED
        BY <2>1, <2>2
<1>4. CASE available = 0
    <2>. PICK rg : rg = SetCoinStatus(Group(t), i, "Finished")
        OBVIOUS
    <2>1. db' = [db EXCEPT !.refreshGroups[g] = rg] /\ raced \subseteq raced'
        BY <1>1, <1>4 DEF PutGroup
    <2>2. \/ RefreshCoin(g, i) \in DOMAIN db.coins \cup raced'
          \/ \A m \in exchange.melts : m.session # Key(t)
        BY <1>1, <1>4, MeltIsKnown DEF Index
    <2>3. GroupAndCoins(g, rg, db.coins)
        BY <1>1, <2>1, <2>2, CoinEnded, SessionFacts
    <2>4. TablesStep
        BY <1>1, <2>1, <2>3, RefreshOnly, SessionFacts
    <2>. QED
        BY <1>1, <1>3, <1>4, <2>4 DEF TablesStep, Grows
<1>5. CASE available # 0 /\ HasSession(t)
    <2>1. db' = db /\ UNCHANGED raced
        BY <1>1, <1>5 DEF WithSession
    <2>2. TablesStep
        BY <1>1, <2>1, TasksOnly DEF WalletInv
    <2>. QED
        BY <1>3, <1>5, <2>2 DEF TablesStep, Grows
<1>6. CASE available # 0 /\ ~HasSession(t)
    <2>. PICK no : no = FALSE
        OBVIOUS
    <2>. PICK s : s = [seed |-> Number(t), output |-> available, denom |-> NewDenom, melted |-> no]
        OBVIOUS
    <2>. PICK ss : ss = Stored(Group(t).session, {i}, s)
        OBVIOUS
    <2>. PICK rg : rg = [Group(t) EXCEPT !.session = ss]
        OBVIOUS
    <2>1. db' = [db EXCEPT !.refreshGroups[g] = rg] /\ UNCHANGED raced
        BY <1>1, <1>6 DEF WithSession, NewSession, PutGroup
    <2>2. SessionShape(s)
        BY DEF SessionShape
    <2>0. Op(t) = "session" /\ ~HasSession(t) /\ UNCHANGED <<exchange, raced>>
        BY <1>1, <1>6, <2>1
    <2>3. TablesStep /\ rg.session = ss /\ i \in DOMAIN ss
        <3>1. /\ ss = Stored(Group(t).session, {Index(t)}, s)
              /\ rg = [Group(t) EXCEPT !.session = ss]
              /\ db' = [db EXCEPT !.refreshGroups[Key(t)[1]] = rg]
            BY <2>1
        <3>2. StoresSession(t, s, ss, rg)
            BY <2>0, <2>2, <3>1 DEF StoresSession
        <3>. QED
            BY <2>0, <3>2, SessionStored
    <2>4. db'.refreshGroups[g] = rg
        <3>1. DbShape(db) /\ IsList(db.refreshGroups) /\ g \in DOMAIN db.refreshGroups
            BY <1>1, SessionFacts DEF WalletInv, TablesInv, RefreshInv
        <3>2. db'.refreshGroups = [db.refreshGroups EXCEPT ![g] = rg]
            BY <2>1, <3>1 DEF DbShape
        <3>. QED
            BY <3>1, <3>2, UpdateList
    <2>. QED
        BY <1>3, <2>3, <2>4 DEF TablesStep, Grows
<1>. QED
    BY <1>4, <1>5, <1>6

(* The exchange melts the coin of a session that is stored.                                  *)
MeltOfSession(n) ==
    LET rg == db.refreshGroups[n.session[1]] IN
    /\ MeltShape(n) /\ n.session[1] \in DOMAIN db.refreshGroups
    /\ n.session[2] \in DOMAIN rg.oldCoinPubs /\ n.coin = rg.oldCoinPubs[n.session[2]]
    /\ n.session[2] \in DOMAIN rg.session /\ rg.session[n.session[2]].seed = n.seed
    /\ \/ RefreshCoin(n.session[1], n.session[2]) \in raced'
       \/ rg.statusPerCoin[n.session[2]] = "Pending"

(* A melt of a stored session is added at the exchange. *)
LEMMA MeltAdded ==
    ASSUME WalletInv, UNCHANGED db, raced \subseteq raced', NEW n, MeltOfSession(n),
           exchange' = [exchange EXCEPT !.melts = @ \cup {n}]
    PROVE  TablesStep
<1>1. /\ exchange'.melts = exchange.melts \cup {n} /\ ExchangeShape'
      /\ UNCHANGED <<exchange.deposits, exchange.recoups, exchange.signed>>
    BY DEF WalletInv, TablesInv, ExchangeShape
<1>2. RefreshInv' /\ RefreshGrows
    <2>1. ASSUME NEW m \in exchange'.melts
          PROVE  LET rg == db.refreshGroups[m.session[1]] IN
                 /\ MeltShape(m) /\ m.session[1] \in DOMAIN db.refreshGroups
                 /\ m.session[2] \in DOMAIN rg.oldCoinPubs /\ m.coin = rg.oldCoinPubs[m.session[2]]
                 /\ m.session[2] \in DOMAIN rg.session /\ rg.session[m.session[2]].seed = m.seed
                 /\ \/ RefreshCoin(m.session[1], m.session[2]) \in DOMAIN db.coins \cup raced'
                    \/ rg.statusPerCoin[m.session[2]] = "Pending"
        <3>1. CASE m \in exchange.melts
            BY <3>1, MeltFacts
        <3>2. CASE m = n
            BY <3>2 DEF MeltOfSession
        <3>. QED
            BY <1>1, <2>1, <3>1, <3>2
    <2>2. RefreshInv
        BY DEF WalletInv, TablesInv
    <2>. QED
        BY <2>1, <2>2 DEF RefreshInv, RefreshGrows
<1>3. DbShape(db')
    BY DEF WalletInv, TablesInv, DbShape
<1>. QED
    BY <1>1, <1>2, <1>3, Same, KeepWithdraw, KeepTip, KeepRecoup, KeepPurchase, KeepDeposit,
       KeepCoins DEF TablesStep, WalletInv, TablesInv, Grows

(* The exchange stores the melt of a session that is pending. *)
LEMMA RefreshMeltStep ==
    ASSUME WalletInv, NEW t \in tasks, RefreshMelt(t)
    PROVE  WalletInv' /\ StaysSpent
<1>1. Op(t) = "session" /\ Pc(t) = "melt" /\ UNCHANGED db
    BY DEF RefreshMelt, At
<1>2. raced' = IF exchange' # exchange /\ Group(t).statusPerCoin[Index(t)] # "Pending"
               THEN raced \cup {RefreshCoin(Key(t)[1], Key(t)[2])} ELSE raced
    BY DEF RefreshMelt
<1>3. /\ exchange' = exchange \/ exchange' = ExchangeMelt(t)
      /\ \/ Goto(t, "reveal", Nil) \/ Goto(t, "melted", Nil) \/ Goto(t, "notFound", Nil)
         \/ RejectSession(t)
    BY DEF RefreshMelt
<1>4. \A u \in tasks' : u \in tasks \/ TaskOk(u)
    BY <1>1, <1>3, GotoOk, Rejected DEF RejectSession
<1>5. CASE exchange' = exchange
    BY <1>1, <1>2, <1>4, <1>5, TasksStep
<1>6. CASE exchange' # exchange
    <2>. PICK no : no = FALSE
        OBVIOUS
    <2>. PICK seed : seed = MeltOf(t).seed
        OBVIOUS
    <2>. PICK coin : coin = MeltOf(t).coin
        OBVIOUS
    <2>. PICK n : n = [coin |-> coin, session |-> Key(t), seed |-> seed,
                       amount |-> Group(t).inputPerCoin[Index(t)], revealed |-> no, returned |-> 0]
        OBVIOUS
    <2>1. exchange' = [exchange EXCEPT !.melts = @ \cup {n}]
        BY <1>3, <1>6 DEF ExchangeMelt
    <2>2. /\ coin = Group(t).oldCoinPubs[Index(t)] /\ seed = Group(t).session[Index(t)].seed
          /\ n.coin = coin /\ n.session = Key(t) /\ n.seed = seed
        BY DEF MeltOf
    <2>3. MeltShape(n)
        BY <1>1, SessionFacts DEF MeltShape, SessionTaskOk
    <2>4. RefreshCoin(Key(t)[1], Key(t)[2]) \in raced' \/ Group(t).statusPerCoin[Index(t)] = "Pending"
        BY <1>2, <1>6
    <2>5. MeltOfSession(n)
        BY <1>1, <2>2, <2>3, <2>4, SessionFacts DEF MeltOfSession, Group, Index
    <2>6. TablesStep
        BY <1>1, <1>2, <2>1, <2>5, MeltAdded
    <2>. QED
        BY <1>4, <2>6, GoodStep
<1>. QED
    BY <1>5, <1>6

(* A melt that the exchange refuses for good: the coin of the group is frozen. *)
LEMMA MeltNotFoundStep ==
    ASSUME WalletInv, NEW t \in tasks, MeltNotFound(t)
    PROVE  WalletInv' /\ StaysSpent
<1>. PICK rg : rg = SetCoinStatus(Group(t), Index(t), "Frozen")
    OBVIOUS
<1>1. /\ Op(t) = "session" /\ Pc(t) = "notFound" /\ UNCHANGED exchange /\ Goto(t, "reveal", Nil)
      /\ raced' = IF KnownMelt(t) THEN raced \cup {RefreshCoin(Key(t)[1], Key(t)[2])} ELSE raced
      /\ db' = db \/ db' = [db EXCEPT !.refreshGroups[Key(t)[1]] = rg]
    BY DEF MeltNotFound, At, PutGroup
<1>2. \A u \in tasks' : u \in tasks \/ TaskOk(u)
    BY <1>1, GotoOk
<1>3. CASE db' = db
    <2>1. ExchangeShape'
        BY <1>1 DEF WalletInv, TablesInv, ExchangeShape
    <2>2. TablesStep
        BY <1>1, <1>3, <2>1, ExchangeStep, Same DEF WalletInv
    <2>. QED
        BY <1>2, <2>2, GoodStep
<1>4. CASE db' = [db EXCEPT !.refreshGroups[Key(t)[1]] = rg]
    <2>1. \/ RefreshCoin(Key(t)[1], Index(t)) \in DOMAIN db.coins \cup raced'
          \/ \A m \in exchange.melts : m.session # Key(t)
        BY <1>1, MeltIsKnown DEF Index
    <2>2. GroupAndCoins(Key(t)[1], rg, db.coins)
        BY <1>1, <2>1, CoinEnded, SessionFacts
    <2>3. TablesStep
        BY <1>1, <1>4, <2>2, RefreshOnly, SessionFacts
    <2>. QED
        BY <1>2, <2>3, GoodStep
<1>. QED
    BY <1>1, <1>3, <1>4

(* A session keeps its seed when it is marked as melted. *)
LEMMA SessionMelted ==
    ASSUME NEW s, SessionShape(s), NEW x, NEW r, r = [s EXCEPT !.melted = x]
    PROVE  SessionShape(r) /\ r.seed = s.seed
BY DEF SessionShape

(* A melt keeps its session when it is revealed. *)
LEMMA MeltFields ==
    ASSUME NEW m, MeltShape(m), NEW x, NEW r,
           r = [m EXCEPT !.revealed = x] \/ r = [m EXCEPT !.returned = x]
    PROVE  MeltShape(r) /\ r.coin = m.coin /\ r.session = m.session /\ r.seed = m.seed
BY DEF MeltShape

(* refreshMelt stores the norevealIndex: the session counts as melted. *)
LEMMA StoreMeltStep ==
    ASSUME WalletInv, NEW t \in tasks, StoreMelt(t)
    PROVE  WalletInv' /\ StaysSpent
<1>. DEFINE old == Group(t).session
<1>. PICK yes : yes = TRUE
    OBVIOUS
<1>. PICK s0 : s0 = old[Index(t)]
    OBVIOUS
<1>. PICK s : s = [s0 EXCEPT !.melted = yes]
    OBVIOUS
<1>. PICK ss : ss = [old EXCEPT ![Index(t)] = s]
    OBVIOUS
<1>. PICK rg : rg = [Group(t) EXCEPT !.session = ss]
    OBVIOUS
<1>1. /\ Op(t) = "session" /\ Pc(t) = "melted" /\ UNCHANGED <<exchange, raced>> /\ Goto(t, "reveal", Nil)
      /\ db' = db \/ db' = [db EXCEPT !.refreshGroups[Key(t)[1]] = rg]
    BY DEF StoreMelt, At, PutGroup
<1>2. \A u \in tasks' : u \in tasks \/ TaskOk(u)
    BY <1>1, GotoOk
<1>3. CASE db' = db
    BY <1>1, <1>2, <1>3, TasksStep
<1>4. CASE db' = [db EXCEPT !.refreshGroups[Key(t)[1]] = rg]
    <2>1. /\ RefreshShape(Group(t)) /\ Index(t) \in DOMAIN old /\ IsFunction(old)
          /\ \A j \in DOMAIN old : SessionShape(old[j])
        BY <1>1, SessionFacts DEF RefreshShape
    <2>2. SessionShape(s) /\ s.seed = old[Index(t)].seed
        <3>1. SessionShape(s0)
            BY <2>1
        <3>2. SessionShape(s) /\ s.seed = s0.seed
            BY <3>1, SessionMelted
        <3>. QED
            BY <3>2
    <2>3. /\ IsFunction(ss) /\ DOMAIN ss = DOMAIN old /\ ss[Index(t)] = s
          /\ \A j \in DOMAIN old \ {Index(t)} : ss[j] = old[j]
        BY <2>1 DEF IsFunction
    <2>4. /\ RefreshShape(rg) /\ rg.oldCoinPubs = Group(t).oldCoinPubs /\ rg.session = ss
          /\ rg.statusPerCoin = Group(t).statusPerCoin /\ rg.state = Group(t).state
        BY <2>1, <2>3 DEF RefreshShape
    <2>5. /\ \A j \in DOMAIN rg.session : SessionShape(rg.session[j])
          /\ \A j \in DOMAIN old : j \in DOMAIN rg.session /\ rg.session[j].seed = old[j].seed
        BY <2>1, <2>2, <2>3, <2>4
    <2>6. ASSUME NEW m \in exchange.melts, m.session[1] = Key(t)[1]
          PROVE  \/ RefreshCoin(Key(t)[1], m.session[2]) \in DOMAIN db.coins \cup raced'
                 \/ rg.statusPerCoin[m.session[2]] = "Pending"
        <3>1. \/ RefreshCoin(Key(t)[1], m.session[2]) \in DOMAIN db.coins \cup raced
              \/ Group(t).statusPerCoin[m.session[2]] = "Pending"
            BY <2>6, MeltFacts DEF Group
        <3>. QED
            BY <1>1, <2>4, <3>1
    <2>7. \A j \in DOMAIN rg.statusPerCoin : rg.statusPerCoin[j] = "Pending" => rg.state = "active"
        BY <1>1, <2>4, SessionFacts
    <2>8. GroupAndCoins(Key(t)[1], rg, db.coins)
        BY <1>1, <2>4, <2>5, <2>6, <2>7, SessionFacts DEF GroupAndCoins, Group
    <2>9. TablesStep
        BY <1>1, <1>4, <2>8, RefreshOnly, SessionFacts
    <2>. QED
        BY <1>2, <2>9, GoodStep
<1>. QED
    BY <1>1, <1>3, <1>4

(* The exchange marks melts as revealed.                                                  *)
LEMMA RefreshRevealStep ==
    ASSUME WalletInv, NEW t \in tasks, RefreshReveal(t)
    PROVE  WalletInv' /\ StaysSpent
<1>. PICK yes : yes = TRUE
    OBVIOUS
<1>. DEFINE ms == {IF m.session = Key(t) /\ m.seed = MeltOf(t).seed
                   THEN [m EXCEPT !.revealed = yes] ELSE m : m \in exchange.melts}
<1>1. /\ Op(t) = "session" /\ Pc(t) = "reveal" /\ UNCHANGED <<db, raced>>
      /\ exchange' = exchange \/ exchange' = [exchange EXCEPT !.melts = ms]
      /\ Goto(t, "revealed", Nil) \/ RejectSession(t)
    BY DEF RefreshReveal, At
<1>2. \A u \in tasks' : u \in tasks \/ TaskOk(u)
    BY <1>1, GotoOk, Rejected DEF RejectSession
<1>3. CASE exchange' = exchange
    BY <1>1, <1>2, <1>3, TasksStep
<1>4. CASE exchange' = [exchange EXCEPT !.melts = ms]
    <2>1. ASSUME NEW m \in exchange.melts, NEW n, n = [m EXCEPT !.revealed = yes]
          PROVE  MeltShape(n) /\ n.coin = m.coin /\ n.session = m.session /\ n.seed = m.seed
        <3>1. MeltShape(m)
            BY MeltFacts
        <3>. QED
            BY <2>1, <3>1, MeltFields
    <2>2. ASSUME NEW n \in ms
          PROVE  /\ MeltShape(n)
                 /\ \E m \in exchange.melts : n.coin = m.coin /\ n.session = m.session /\ n.seed = m.seed
        <3>. PICK m \in exchange.melts : n = IF m.session = Key(t) /\ m.seed = MeltOf(t).seed
                                             THEN [m EXCEPT !.revealed = yes] ELSE m
            OBVIOUS
        <3>1. n = m \/ n = [m EXCEPT !.revealed = yes]
            OBVIOUS
        <3>2. MeltShape(m)
            BY MeltFacts
        <3>3. CASE n = m
            BY <3>2, <3>3
        <3>4. CASE n = [m EXCEPT !.revealed = yes]
            BY <2>1, <3>4
        <3>. QED
            BY <3>1, <3>3, <3>4
    <2>3. MeltsKept(exchange.melts, ms)
        BY <2>2 DEF MeltsKept
    <2>. HIDE DEF ms
    <2>4. /\ exchange'.melts = ms /\ ExchangeShape'
          /\ UNCHANGED <<exchange.deposits, exchange.recoups, exchange.signed>>
        BY <1>4 DEF WalletInv, TablesInv, ExchangeShape
    <2>5. TablesStep
        BY <1>1, <2>3, <2>4, ExchangeStep, Same DEF WalletInv
    <2>. QED
        BY <1>2, <2>5, GoodStep
<1>. QED
    BY <1>1, <1>3, <1>4

(* refreshReveal stores the coin and marks it as finished in its group. *)
LEMMA StoreRevealedStep ==
    ASSUME WalletInv, NEW t \in tasks, StoreRevealedCoins(t)
    PROVE  WalletInv' /\ StaysSpent
<1>. PICK c : c = RefreshCoin(Key(t)[1], Key(t)[2])
    OBVIOUS
<1>. PICK s : s = Group(t).session[Index(t)]
    OBVIOUS
<1>. PICK coin : coin = FreshCoin(s.output, s.denom)
    OBVIOUS
<1>. PICK f : f = Stored(db.coins, {c}, coin)
    OBVIOUS
<1>. PICK rg : rg = SetCoinStatus(Group(t), Index(t), "Finished")
    OBVIOUS
<1>1. /\ Op(t) = "session" /\ Pc(t) = "revealed" /\ UNCHANGED exchange /\ Done(t)
      /\ raced' = IF c \in DOMAIN db.coins THEN raced \cup {c} ELSE raced
    BY DEF StoreRevealedCoins, At
<1>2. db' = [db EXCEPT !.refreshGroups[Key(t)[1]] = rg, !.coins = f]
    <2>1. db' = [PutGroup(t, rg) EXCEPT !.coins = Stored(@, {c}, coin)]
        BY DEF StoreRevealedCoins
    <2>. PICK gs : gs = [db.refreshGroups EXCEPT ![Key(t)[1]] = rg]
        OBVIOUS
    <2>2. PutGroup(t, rg) = [db EXCEPT !.refreshGroups = gs]
        BY DEF PutGroup
    <2>3. DbShape(db)
        BY DEF WalletInv, TablesInv
    <2>4. PutGroup(t, rg).coins = db.coins
        BY <2>2, <2>3 DEF DbShape
    <2>5. db' = [PutGroup(t, rg) EXCEPT !.coins = f]
        BY <2>1, <2>4
    <2>. QED
        BY <2>2, <2>3, <2>5 DEF DbShape
<1>3. /\ IsFunction(f) /\ DOMAIN f = DOMAIN db.coins \cup {c} /\ f[c] = coin
      /\ \A d \in DOMAIN db.coins \ {c} : f[d] = db.coins[d]
    BY DEF Stored, IsFunction
<1>4. CoinsOk(f)
    <2>1. CoinsOk(db.coins)
        BY DEF WalletInv, TablesInv
    <2>. QED
        BY <1>3, <2>1, FreshCoinOk DEF CoinsOk
<1>5. \A d \in DOMAIN f \ DOMAIN db.coins : SourceOf(d) = "refresh"
    BY <1>3 DEF SourceOf, RefreshCoin
<1>6. db'.coins = f
    BY <1>2 DEF WalletInv, TablesInv, DbShape
<1>7. StaysSpent
    BY <1>1, <1>3, <1>6 DEF StaysSpent
<1>8. GroupAndCoins(Key(t)[1], rg, f)
    <2>1. RefreshCoin(Key(t)[1], Index(t)) \in DOMAIN f
        BY <1>3 DEF Index
    <2>2. DOMAIN db.coins \subseteq DOMAIN f /\ raced \subseteq raced'
        BY <1>1, <1>3
    <2>. QED
        BY <1>1, <1>4, <1>5, <2>1, <2>2, CoinEnded
<1>9. TablesStep
    BY <1>1, <1>2, <1>7, <1>8, RefreshStep, SessionFacts
<1>. QED
    BY <1>1, <1>9, DoneOk, GoodStep

-----------------------------------------------------------------------------
(* Recoups                                                                               *)
RecoupOk(rg) == RecoupShape(rg) /\ (rg.finished => DOMAIN rg.coinPubs \subseteq rg.finishedPerCoin)
RecoupsKept(s, u) ==
    /\ IsList(u)
    /\ \A g \in DOMAIN s : g \in DOMAIN u /\ u[g].coinPubs = s[g].coinPubs
    /\ \A g \in DOMAIN u : RecoupOk(u[g])

(* e is d but for coins that are spent or credited, groups of recoups that go on or are added,   *)
(* refresh groups that are added, and the reserve.                                           *)
Recouped(d, e) ==
    /\ DbShape(e) /\ CoinsOk(e.coins) /\ CoinsKept(d.coins, e.coins)
    /\ GroupsKept(d.refreshGroups, e.refreshGroups) /\ RecoupsKept(d.recoupGroups, e.recoupGroups)
    /\ e.depositGroups = d.depositGroups /\ e.tips = d.tips /\ e.purchases = d.purchases
    /\ e.withdrawalGroups = d.withdrawalGroups /\ e.planchets = d.planchets

(* Two changes for a recoup are one. *)
LEMMA RecoupedTwice ==
    ASSUME NEW d, NEW e, NEW h, Recouped(d, e), Recouped(e, h)
    PROVE  Recouped(d, h)
<1>1. CoinsKept(d.coins, h.coins)
    BY DEF Recouped, CoinsKept
<1>2. GroupsKept(d.refreshGroups, h.refreshGroups)
    BY DEF Recouped, GroupsKept
<1>3. RecoupsKept(d.recoupGroups, h.recoupGroups)
    BY DEF Recouped, RecoupsKept
<1>. QED
    BY <1>1, <1>2, <1>3 DEF Recouped

(* To change nothing is such a change. *)
LEMMA RecoupedSame ==
    ASSUME TablesInv
    PROVE  Recouped(db, db) /\ RecoupsKept(db.recoupGroups, db.recoupGroups)
BY Same DEF TablesInv, RecoupInv, Recouped, RecoupsKept, RecoupOk, CoinsKept

(* A refresh group that is created is such a change. *)
LEMMA SpendsRecouped ==
    ASSUME NEW d, NEW e, Spends(d, e), IsList(d.recoupGroups),
           \A g \in DOMAIN d.recoupGroups : RecoupOk(d.recoupGroups[g])
    PROVE  Recouped(d, e)
BY DEF Spends, Recouped, RecoupsKept

(* Recoup groups that are kept, or new and in order. *)
LEMMA KeepRecoups ==
    ASSUME TablesInv, RecoupsKept(db.recoupGroups, db'.recoupGroups),
           \A r \in exchange'.recoups :
               \/ r \in exchange.recoups
               \/ \E k \in Recoups : CoinOf(k) = r.coin
    PROVE  RecoupInv' /\ RecoupGrows
<1>1. ASSUME NEW r \in exchange'.recoups PROVE \E k \in Recoups' : CoinOf(k)' = r.coin
    <2>1. PICK k \in Recoups : CoinOf(k) = r.coin
        BY <1>1 DEF TablesInv, RecoupInv
    <2>2. PICK g \in DOMAIN db.recoupGroups : k \in RecoupKeys(g)
        BY <2>1 DEF Recoups
    <2>3. k[1] = g
        BY <2>2 DEF RecoupKeys
    <2>4. RecoupKeys(g)' = RecoupKeys(g) /\ CoinOf(k)' = CoinOf(k) /\ g \in DOMAIN db'.recoupGroups
        BY <2>2, <2>3 DEF RecoupKeys, CoinOf, RecoupsKept
    <2>. QED
        BY <2>1, <2>2, <2>4 DEF Recoups
<1>. QED
    BY <1>1 DEF RecoupInv, RecoupGrows, RecoupsKept, RecoupOk

(* A transaction of recoups is a good step. *)
LEMMA RecoupedStep ==
    ASSUME WalletInv, UNCHANGED exchange, raced \subseteq raced', Recouped(db, db')
    PROVE  TablesStep
<1>1. RecoupInv' /\ RecoupGrows
    BY KeepRecoups DEF Recouped, WalletInv
<1>2. PurchaseInv' /\ PurchaseGrows /\ DepositInv' /\ DepositGrows
    BY KeepPurchase, KeepDeposit, Same DEF Recouped, WalletInv
<1>. QED
    BY <1>1, <1>2, SpendingStep DEF Recouped, WalletInv

(* createRecoupGroup empties coins and adds one group. *)
LEMMA RecoupGroupCreated ==
    ASSUME NEW d, NEW cs, DbShape(d), CoinsOk(d.coins), IsList(d.recoupGroups),
           \A g \in DOMAIN d.recoupGroups : RecoupOk(d.recoupGroups[g]), IsList(d.refreshGroups)
    PROVE  Recouped(d, CreateRecoupGroup(d, cs))
<1>. PICK finished : finished = {i \in DOMAIN cs : d.coins[cs[i]].currentAmount = 0}
    OBVIOUS
<1>. PICK over : over = (cs # <<>> /\ finished = DOMAIN cs)
    OBVIOUS
<1>. PICK amounts : amounts = [i \in DOMAIN cs |-> d.coins[cs[i]].currentAmount]
    OBVIOUS
<1>. PICK none : none = {}
    OBVIOUS
<1>. PICK new : new = [coinPubs |-> cs, oldAmountPerCoin |-> amounts, finishedPerCoin |-> finished,
                       scheduleRefreshCoins |-> none, finished |-> over]
    OBVIOUS
<1>. PICK s : s = Append(d.recoupGroups, new)
    OBVIOUS
<1>. DEFINE f == [c \in DOMAIN d.coins |-> IF c \in Range(cs) THEN [d.coins[c] EXCEPT !.currentAmount = 0]
                                           ELSE d.coins[c]]
<1>1. CreateRecoupGroup(d, cs) = [d EXCEPT !.coins = f, !.recoupGroups = s]
    BY Zenon DEF CreateRecoupGroup
<1>2. ASSUME NEW c \in DOMAIN d.coins
      PROVE  CoinShape(f[c]) /\ f[c].status = d.coins[c].status
    <2>1. CoinShape(d.coins[c])
        BY DEF CoinsOk
    <2>2. f[c] = IF c \in Range(cs) THEN [d.coins[c] EXCEPT !.currentAmount = 0] ELSE d.coins[c]
        OBVIOUS
    <2>. QED
        BY <2>1, <2>2 DEF CoinShape
<1>3. CoinsOk(f) /\ CoinsKept(d.coins, f)
    BY <1>2 DEF CoinsOk, CoinsKept, IsFunction
<1>4. RecoupOk(new)
    BY DEF RecoupOk, RecoupShape
<1>5. RecoupsKept(d.recoupGroups, s)
    <2>1. /\ IsList(s) /\ DOMAIN s = DOMAIN d.recoupGroups \cup {Len(d.recoupGroups) + 1}
          /\ s[Len(d.recoupGroups) + 1] = new
          /\ \A g \in DOMAIN d.recoupGroups : s[g] = d.recoupGroups[g]
        BY AppendList
    <2>. QED
        BY <1>4, <2>1, ZenonT(60) DEF RecoupsKept
<1>6. GroupsKept(d.refreshGroups, d.refreshGroups)
    BY DEF GroupsKept
<1>. HIDE DEF f
<1>. QED
    BY <1>1, <1>3, <1>5, <1>6 DEF Recouped, DbShape

(* A denomination is revoked, and its coins are put into a recoup group. *)
LEMMA RevokeDenominationStep ==
    ASSUME WalletInv, NEW dn, RevokeDenomination(dn)
    PROVE  WalletInv' /\ StaysSpent
<1>. PICK set : set = db.revoked \cup {dn}
    OBVIOUS
<1>. PICK d : d = [db EXCEPT !.revoked = set]
    OBVIOUS
<1>1. UNCHANGED <<tasks, exchange, raced>> /\ (db' = d \/ \E cs : db' = CreateRecoupGroup(d, cs))
    BY DEF RevokeDenomination
<1>2. /\ DbShape(d) /\ d.coins = db.coins /\ d.refreshGroups = db.refreshGroups
      /\ d.recoupGroups = db.recoupGroups /\ d.depositGroups = db.depositGroups /\ d.tips = db.tips
      /\ d.purchases = db.purchases /\ d.withdrawalGroups = db.withdrawalGroups
      /\ d.planchets = db.planchets
    BY DEF WalletInv, TablesInv, DbShape
<1>3. Recouped(db, d)
    BY <1>2, RecoupedSame DEF Recouped, WalletInv
<1>4. ASSUME NEW cs PROVE Recouped(d, CreateRecoupGroup(d, cs))
    <2>1. /\ CoinsOk(d.coins) /\ IsList(d.recoupGroups) /\ IsList(d.refreshGroups)
          /\ \A g \in DOMAIN d.recoupGroups : RecoupOk(d.recoupGroups[g])
        BY <1>3 DEF Recouped, RecoupsKept, GroupsKept
    <2>. QED
        BY <1>2, <2>1, RecoupGroupCreated
<1>5. Recouped(db, db')
    BY <1>1, <1>3, <1>4, RecoupedTwice
<1>. QED
    BY <1>1, <1>5, RecoupedStep, GoodStep

(* processRecoupGroup starts a promise for every coin that is not finished. *)
LEMMA ProcessRecoupStep ==
    ASSUME WalletInv, NEW g \in DOMAIN db.recoupGroups, ProcessRecoupGroup(g)
    PROVE  WalletInv' /\ StaysSpent
<1>. DEFINE todo == {k \in RecoupKeys(g) : k[2] \notin db.recoupGroups[g].finishedPerCoin}
            pc(k) == IF SourceOf(db.recoupGroups[g].coinPubs[k[2]]) = "tip" THEN "recouped" ELSE "post"
<1>1. /\ tasks' = tasks \cup {Task("recoup", k, pc(k), Nil) : k \in todo}
      /\ UNCHANGED <<db, exchange, raced>>
    BY DEF ProcessRecoupGroup
<1>2. ASSUME NEW k \in todo
      PROVE  TaskOk(Task("recoup", k, pc(k), Nil))
    <2>. PICK x : x = pc(k)
        OBVIOUS
    <2>. PICK u : u = Task("recoup", k, x, Nil)
        OBVIOUS
    <2>1. IsTask(u, "recoup", k, x, Nil)
        BY NewTask
    <2>2. \E i \in DOMAIN db.recoupGroups[g].coinPubs : k = <<g, i>>
        BY DEF RecoupKeys
    <2>3. TaskOk(u)
        BY <2>1, <2>2 DEF IsTask, TaskOk, RecoupTask
    <2>. QED
        BY <2>3
<1>. HIDE DEF pc, todo
<1>. QED
    BY <1>1, <1>2, TasksStep

(* The exchange recoups a coin of a group, and marks what comes back of its melt.              *)
LEMMA RecoupAdded ==
    ASSUME WalletInv, UNCHANGED <<db, raced>>, NEW R, NEW ms,
           \A r \in R : r \in exchange.recoups \/ \E k \in Recoups : CoinOf(k) = r.coin,
           MeltsKept(exchange.melts, ms),
           exchange' = [exchange EXCEPT !.recoups = R, !.melts = ms]
    PROVE  TablesStep
<1>1. /\ exchange'.melts = ms /\ exchange'.recoups = R /\ ExchangeShape'
      /\ UNCHANGED <<exchange.deposits, exchange.signed>>
    BY DEF WalletInv, TablesInv, ExchangeShape
<1>2. RecoupsKept(db.recoupGroups, db'.recoupGroups)
    BY RecoupedSame DEF WalletInv
<1>3. RecoupInv' /\ RecoupGrows
    BY <1>1, <1>2, KeepRecoups DEF WalletInv
<1>4. DbShape(db')
    BY DEF WalletInv, TablesInv, DbShape
<1>5. RefreshInv' /\ RefreshGrows
    BY <1>1, KeepRefresh, Same DEF WalletInv
<1>. QED
    BY <1>1, <1>3, <1>4, <1>5, Same, KeepWithdraw, KeepTip, KeepPurchase, KeepDeposit,
       KeepCoins DEF TablesStep, WalletInv, TablesInv, Grows

(* The exchange stores a recoup, and marks the melts of a refreshed coin as returned. *)
LEMMA PostRecoupStep ==
    ASSUME WalletInv, NEW t \in tasks, PostRecoup(t)
    PROVE  WalletInv' /\ StaysSpent
<1>. DEFINE c == RecoupedCoin(t)
            left == Remaining(c)
            new == [coin |-> c, amount |-> left, toReserve |-> IF SourceOf(c) = "withdraw" THEN left ELSE 0]
            R == exchange.recoups \cup {new}
            Of(m) == SourceOf(c) = "refresh" /\ m.session = <<c[2], c[3]>>
                     /\ m.seed = db.refreshGroups[c[2]].session[c[3]].seed
            ms == {IF Of(m) THEN [m EXCEPT !.returned = left] ELSE m : m \in exchange.melts}
<1>1. /\ Op(t) = "recoup" /\ UNCHANGED <<db, raced>>
      /\ exchange' = exchange \/ exchange' = [exchange EXCEPT !.recoups = R, !.melts = ms]
      /\ Goto(t, "recouped", Nil) \/ Reject(t, RecoupKeys(Key(t)[1]))
    BY DEF PostRecoup, At
<1>2. \A u \in tasks' : u \in tasks \/ TaskOk(u)
    BY <1>1, GotoOk, Rejected
<1>3. CASE exchange' = exchange
    BY <1>1, <1>2, <1>3, TasksStep
<1>4. CASE exchange' = [exchange EXCEPT !.recoups = R, !.melts = ms]
    <2>1. Key(t) \in Recoups /\ CoinOf(Key(t)) = c
        <3>1. RecoupTask(t)
            BY <1>1 DEF WalletInv, TaskOk
        <3>2. Key(t) \in RecoupKeys(Key(t)[1]) /\ Key(t)[1] \in DOMAIN db.recoupGroups
            BY <3>1 DEF RecoupTask, RecoupKeys
        <3>3. CoinOf(Key(t)) = c
            BY DEF CoinOf, RecoupedCoin, Recoup
        <3>. QED
            BY <3>2, <3>3 DEF Recoups
    <2>2. \A r \in R : r \in exchange.recoups \/ \E k \in Recoups : CoinOf(k) = r.coin
        BY <2>1
    <2>3. ASSUME NEW n \in ms
          PROVE  /\ MeltShape(n)
                 /\ \E m \in exchange.melts : n.coin = m.coin /\ n.session = m.session /\ n.seed = m.seed
        <3>. PICK m \in exchange.melts : n = IF Of(m) THEN [m EXCEPT !.returned = left] ELSE m
            OBVIOUS
        <3>. HIDE DEF Of, left
        <3>1. MeltShape(m)
            BY MeltFacts
        <3>2. CASE n = m
            BY <3>1, <3>2
        <3>3. CASE n = [m EXCEPT !.returned = left]
            BY <3>1, <3>3, MeltFields
        <3>. QED
            BY <3>2, <3>3
    <2>4. MeltsKept(exchange.melts, ms)
        BY <2>3 DEF MeltsKept
    <2>. HIDE DEF ms, R
    <2>5. TablesStep
        BY <1>1, <1>4, <2>2, <2>4, RecoupAdded
    <2>. QED
        BY <1>2, <2>5, GoodStep
<1>. QED
    BY <1>1, <1>3, <1>4

(* A coin of a recoup group is finished, and with the last one the group. *)
LEMMA RecoupFinished ==
    ASSUME NEW rg, RecoupShape(rg), NEW x, NEW y, NEW r, r = [rg EXCEPT !.finishedPerCoin = x, !.finished = y]
    PROVE  RecoupShape(r) /\ r.coinPubs = rg.coinPubs /\ r.finishedPerCoin = x /\ r.finished = y
BY DEF RecoupShape

(* A coin is scheduled to be refreshed when its group is finished. *)
LEMMA RecoupScheduled ==
    ASSUME NEW rg, RecoupShape(rg), NEW x, NEW r, r = [rg EXCEPT !.scheduleRefreshCoins = x]
    PROVE  /\ RecoupShape(r) /\ r.coinPubs = rg.coinPubs /\ r.finished = rg.finished
           /\ r.finishedPerCoin = rg.finishedPerCoin
BY DEF RecoupShape

(* One group of recoups is updated.                                                       *)
Updates(d, g, rg, e) ==
    /\ g \in DOMAIN d.recoupGroups /\ RecoupOk(rg) /\ rg.coinPubs = d.recoupGroups[g].coinPubs
    /\ \E s : s = [d.recoupGroups EXCEPT ![g] = rg] /\ e = [d EXCEPT !.recoupGroups = s]

(* A recoup group that is replaced. *)
LEMMA RecoupUpdated ==
    ASSUME NEW d, Recouped(d, d), NEW g, NEW rg, NEW e, Updates(d, g, rg, e)
    PROVE  Recouped(d, e)
<1>0. g \in DOMAIN d.recoupGroups /\ RecoupOk(rg) /\ rg.coinPubs = d.recoupGroups[g].coinPubs
    BY DEF Updates
<1>. PICK s : s = [d.recoupGroups EXCEPT ![g] = rg] /\ e = [d EXCEPT !.recoupGroups = s]
    BY DEF Updates
<1>1. /\ DbShape(e) /\ e.recoupGroups = s /\ e.coins = d.coins /\ e.refreshGroups = d.refreshGroups
      /\ e.depositGroups = d.depositGroups /\ e.tips = d.tips /\ e.purchases = d.purchases
      /\ e.withdrawalGroups = d.withdrawalGroups /\ e.planchets = d.planchets
    BY DEF Recouped, DbShape
<1>2. /\ IsList(s) /\ DOMAIN s = DOMAIN d.recoupGroups /\ s[g] = rg
      /\ \A h \in DOMAIN d.recoupGroups \ {g} : s[h] = d.recoupGroups[h]
    BY <1>0, UpdateList DEF Recouped, RecoupsKept
<1>3. RecoupsKept(d.recoupGroups, s)
    BY <1>0, <1>2 DEF Recouped, RecoupsKept
<1>. QED
    BY <1>1, <1>3 DEF Recouped

(* What holds of the tables after the first change holds after the second. *)
LEMMA RecoupedRight ==
    ASSUME NEW d, NEW e, Recouped(d, e)
    PROVE  Recouped(e, e)
BY DEF Recouped, CoinsKept, GroupsKept, RecoupsKept

(* A recoup group that is replaced after a first change. *)
LEMMA RecoupThenUpdated ==
    ASSUME NEW b, NEW d, Recouped(b, d), NEW g, NEW rg, NEW e, Updates(d, g, rg, e)
    PROVE  Recouped(b, e)
<1>1. Recouped(d, d)
    BY RecoupedRight
<1>2. Recouped(d, e)
    BY <1>1, RecoupUpdated
<1>. QED
    BY <1>2, RecoupedTwice

(* putGroupAsFinished                                                                    *)
LEMMA GroupFinished ==
    ASSUME NEW d, Recouped(d, d), NEW g \in DOMAIN d.recoupGroups, NEW i
    PROVE  Recouped(d, PutGroupAsFinished(d, g, i))
<1>. DEFINE done == d.recoupGroups[g].finishedPerCoin \cup {i}
            last == done = DOMAIN d.recoupGroups[g].coinPubs
            p == [d EXCEPT !.recoupGroups[g].finishedPerCoin = done, !.recoupGroups[g].finished = last]
<1>0. PutGroupAsFinished(d, g, i) =
          IF d.recoupGroups[g].finished THEN d
          ELSE IF last /\ d.recoupGroups[g].scheduleRefreshCoins # {}
          THEN CreateRefreshGroup(p, SetToSeq(d.recoupGroups[g].scheduleRefreshCoins)) ELSE p
    BY Zenon DEF PutGroupAsFinished
<1>. PICK put : put = p
    OBVIOUS
<1>1. \/ PutGroupAsFinished(d, g, i) = d
      \/ PutGroupAsFinished(d, g, i) = put
      \/ \E cs : PutGroupAsFinished(d, g, i) = CreateRefreshGroup(put, cs)
    <2>. HIDE DEF p, last
    <2>. QED
        BY <1>0, Zenon
<1>. PICK rg : rg = d.recoupGroups[g]
    OBVIOUS
<1>. PICK x : x = done
    OBVIOUS
<1>. PICK y : y = (x = DOMAIN rg.coinPubs)
    OBVIOUS
<1>. PICK r : r = [rg EXCEPT !.finishedPerCoin = x, !.finished = y]
    OBVIOUS
<1>. PICK s : s = [d.recoupGroups EXCEPT ![g] = r]
    OBVIOUS
<1>2. RecoupOk(r) /\ r.coinPubs = rg.coinPubs /\ put = [d EXCEPT !.recoupGroups = s]
    <2>1. RecoupShape(rg)
        BY DEF Recouped, RecoupsKept, RecoupOk
    <2>2. RecoupShape(r) /\ r.coinPubs = rg.coinPubs /\ r.finishedPerCoin = x /\ r.finished = y
        BY <2>1 DEF RecoupShape
    <2>3. put = [d EXCEPT !.recoupGroups = s]
        BY DEF Recouped, DbShape
    <2>. QED
        BY <2>2, <2>3 DEF RecoupOk
<1>3. Recouped(d, put)
    <2>. HIDE DEF p, done, last
    <2>1. RecoupOk(r) /\ r.coinPubs = d.recoupGroups[g].coinPubs /\ s = [d.recoupGroups EXCEPT ![g] = r]
        BY <1>2
    <2>2. put = [d EXCEPT !.recoupGroups = s]
        BY <1>2
    <2>3. Updates(d, g, r, put)
        BY <2>1, <2>2 DEF Updates
    <2>. QED
        BY <2>3, RecoupUpdated
<1>4. ASSUME NEW cs PROVE Recouped(d, CreateRefreshGroup(put, cs))
    <2>1. /\ DbShape(put) /\ CoinsOk(put.coins) /\ IsList(put.refreshGroups) /\ IsList(put.recoupGroups)
          /\ \A h \in DOMAIN put.recoupGroups : RecoupOk(put.recoupGroups[h])
        BY <1>3 DEF Recouped, GroupsKept, RecoupsKept
    <2>2. Spends(put, CreateRefreshGroup(put, cs))
        BY <2>1, RefreshGroupCreated
    <2>3. Recouped(put, CreateRefreshGroup(put, cs))
        BY <2>1, <2>2, SpendsRecouped
    <2>. QED
        BY <1>3, <2>3, RecoupedTwice
<1>. QED
    BY <1>1, <1>3, <1>4

(* A coin is spent, or credited: its status does not become fresh.                              *)
LEMMA CoinChanged ==
    ASSUME NEW F, CoinsOk(F), NEW c, NEW x,
           NEW f, f = [F EXCEPT ![c].status = "Dormant"] \/ f = [F EXCEPT ![c].currentAmount = x]
    PROVE  CoinsOk(f) /\ CoinsKept(F, f)
<1>. PICK s : s = [F[c] EXCEPT !.status = "Dormant"]
    OBVIOUS
<1>. PICK a : a = [F[c] EXCEPT !.currentAmount = x]
    OBVIOUS
<1>1. f = [F EXCEPT ![c] = s] \/ f = [F EXCEPT ![c] = a]
    OBVIOUS
<1>2. c \in DOMAIN F => /\ CoinShape(s) /\ s.status = "Dormant"
                        /\ CoinShape(a) /\ a.status = F[c].status
    <2>. PICK coin : coin = F[c]
        OBVIOUS
    <2>1. c \in DOMAIN F => CoinShape(coin)
        BY DEF CoinsOk
    <2>2. s = [coin EXCEPT !.status = "Dormant"] /\ a = [coin EXCEPT !.currentAmount = x]
        OBVIOUS
    <2>. QED
        BY <2>1, <2>2 DEF CoinShape
<1>3. IsFunction(F)
    BY DEF CoinsOk
<1>4. DOMAIN f = DOMAIN F /\ IsFunction(f) /\ \A k \in DOMAIN F \ {c} : f[k] = F[k]
    BY <1>1, <1>3 DEF IsFunction
<1>5. c \in DOMAIN F => f[c] = s \/ f[c] = a
    BY <1>1, <1>3 DEF IsFunction
<1>. QED
    BY <1>2, <1>4, <1>5 DEF CoinsOk, CoinsKept

(* Coins that are spent stay spent through two changes. *)
LEMMA CoinsChangedTwice ==
    ASSUME NEW e, NEW f, NEW h, CoinsKept(e, f), CoinsKept(f, h)
    PROVE  CoinsKept(e, h)
BY DEF CoinsKept

(* recoupWithdrawCoin and recoupRefreshCoin, with the end of the group. *)
LEMMA StoreRecoupStep ==
    ASSUME WalletInv, NEW t \in tasks, StoreRecoup(t)
    PROVE  WalletInv' /\ StaysSpent
<1>. DEFINE g == Key(t)[1]
            i == Key(t)[2]
            c == RecoupedCoin(t)
            old == OldCoin(c)
            spent == [db.coins EXCEPT ![c].status = "Dormant"]
            emptied == [spent EXCEPT ![c].currentAmount = 0]
            credited == [spent EXCEPT ![old].currentAmount = @ + Recoup(t).oldAmountPerCoin[i]]
            asked == IF db.reserve.status = "DORMANT" THEN [db.reserve EXCEPT !.status = "QUERYING_STATUS"]
                     ELSE [db.reserve EXCEPT !.requestedQuery = TRUE]
            toReserve == [db EXCEPT !.coins = emptied, !.reserve = asked]
            toOldCoin == [db EXCEPT !.coins = credited,
                             !.recoupGroups[g].scheduleRefreshCoins = @ \cup {old}]
            Out(d) == PutGroupAsFinished(d, g, i)
<1>1. /\ Op(t) = "recoup" /\ UNCHANGED exchange /\ raced \subseteq raced' /\ Done(t)
      /\ db' = db \/ db' = Out(db) \/ db' = Out(toReserve) \/ db' = Out(toOldCoin)
    <2>1. /\ At(t, "recoup", "recouped") /\ UNCHANGED exchange /\ Done(t)
          /\ raced' = raced \cup {c} \/ raced' = raced
          /\ db' = IF i \in Recoup(t).finishedPerCoin THEN db
                   ELSE PutGroupAsFinished(CASE SourceOf(c) = "tip" -> db
                                             [] SourceOf(c) = "withdraw" -> toReserve
                                             [] OTHER -> toOldCoin, g, i)
        BY Zenon DEF StoreRecoup
    <2>. HIDE DEF toReserve, toOldCoin
    <2>2. \E d : (d = db \/ d = toReserve \/ d = toOldCoin)
                 /\ d = CASE SourceOf(c) = "tip" -> db
                          [] SourceOf(c) = "withdraw" -> toReserve
                          [] OTHER -> toOldCoin
        OBVIOUS
    <2>. QED
        BY <2>1, <2>2 DEF At
<1>2. g \in DOMAIN db.recoupGroups /\ Recouped(db, db) /\ RecoupTask(t)
    BY <1>1, RecoupedSame DEF WalletInv, TaskOk, RecoupTask
<1>. PICK f1 : f1 = [db.coins EXCEPT ![c].status = "Dormant"]
    OBVIOUS
<1>3. CoinsOk(db.coins) /\ DbShape(db)
    BY DEF WalletInv, TablesInv
<1>4. CoinsOk(f1) /\ CoinsKept(db.coins, f1)
    BY <1>3, CoinChanged
<1>5. Recouped(db, toReserve)
    <2>. PICK f2 : f2 = [f1 EXCEPT ![c].currentAmount = 0]
        OBVIOUS
    <2>. PICK r : r = asked
        OBVIOUS
    <2>1. toReserve = [db EXCEPT !.coins = f2, !.reserve = r]
        <3>1. emptied = f2
            OBVIOUS
        <3>. HIDE DEF emptied, asked
        <3>. QED
            BY <3>1
    <2>2. CoinsOk(f2) /\ CoinsKept(f1, f2)
        BY <1>4, CoinChanged
    <2>3. CoinsKept(db.coins, f2)
        BY <1>4, <2>2, CoinsChangedTwice
    <2>. PICK d : d = [db EXCEPT !.coins = f2, !.reserve = r]
        OBVIOUS
    <2>4. Recouped(db, d)
        BY <1>2, <1>3, <2>2, <2>3 DEF Recouped, DbShape
    <2>. HIDE DEF toReserve
    <2>. QED
        BY <2>1, <2>4
<1>6. Recouped(db, toOldCoin)
    <2>. PICK x : x = f1[old].currentAmount + Recoup(t).oldAmountPerCoin[i]
        OBVIOUS
    <2>. PICK f2 : f2 = [f1 EXCEPT ![old].currentAmount = x]
        OBVIOUS
    <2>. PICK y : y = db.recoupGroups[g].scheduleRefreshCoins \cup {old}
        OBVIOUS
    <2>. PICK rg : rg = [db.recoupGroups[g] EXCEPT !.scheduleRefreshCoins = y]
        OBVIOUS
    <2>s. PICK s : s = [db.recoupGroups EXCEPT ![g] = rg]
        OBVIOUS
    <2>d. PICK d : d = [db EXCEPT !.coins = f2]
        OBVIOUS
    <2>e. PICK e : e = [d EXCEPT !.recoupGroups = s]
        OBVIOUS
    <2>1. toOldCoin = [db EXCEPT !.coins = f2, !.recoupGroups = s]
        <3>1. credited = f2
            OBVIOUS
        <3>. HIDE DEF credited
        <3>. QED
            BY <1>3, <2>s, <3>1 DEF DbShape
    <2>2. e = [db EXCEPT !.coins = f2, !.recoupGroups = s]
        BY <1>3, <2>d, <2>e DEF DbShape
    <2>3. CoinsOk(f2) /\ CoinsKept(f1, f2)
        BY <1>4, CoinChanged
    <2>4. CoinsKept(db.coins, f2)
        BY <1>4, <2>3, CoinsChangedTwice
    <2>5. Recouped(db, d) /\ d.recoupGroups = db.recoupGroups
        BY <1>2, <1>3, <2>d, <2>3, <2>4 DEF Recouped, DbShape
    <2>6. RecoupOk(rg) /\ rg.coinPubs = db.recoupGroups[g].coinPubs
        <3>. PICK rg0 : rg0 = db.recoupGroups[g]
            OBVIOUS
        <3>1. RecoupOk(rg0) /\ RecoupShape(rg0)
            BY <1>2 DEF Recouped, RecoupsKept, RecoupOk
        <3>2. /\ RecoupShape(rg) /\ rg.coinPubs = rg0.coinPubs /\ rg.finished = rg0.finished
              /\ rg.finishedPerCoin = rg0.finishedPerCoin
            BY <3>1, RecoupScheduled
        <3>. QED
            BY <3>1, <3>2 DEF RecoupOk
    <2>7. Updates(d, g, rg, e)
        BY <1>2, <2>s, <2>e, <2>5, <2>6 DEF Updates
    <2>8. Recouped(db, e)
        BY <2>5, <2>7, RecoupThenUpdated
    <2>. HIDE DEF toOldCoin
    <2>. QED
        BY <2>1, <2>2, <2>8
<1>7. ASSUME NEW d, Recouped(db, d) PROVE Recouped(db, Out(d))
    <2>1. Recouped(d, d) /\ g \in DOMAIN d.recoupGroups
        BY <1>2, <1>7, RecoupedRight DEF Recouped, RecoupsKept
    <2>. QED
        BY <1>7, <2>1, GroupFinished, RecoupedTwice
<1>. HIDE DEF toReserve, toOldCoin, Out
<1>8. Recouped(db, db')
    BY <1>1, <1>2, <1>5, <1>6, <1>7
<1>9. TablesStep
    BY <1>1, <1>8, RecoupedStep
<1>. QED
    BY <1>1, <1>9, DoneOk, GoodStep

-----------------------------------------------------------------------------
(* The first state of each scene                                                           *)
LEMMA SeqIsList ==
    ASSUME NEW S, NEW s \in Seq(S)
    PROVE  IsList(s) /\ DOMAIN s = 1 .. Len(s) /\ IsFunction(s)
BY DEF IsList, IsFunction

(* The empty list, and lists of one and two. *)
LEMMA ListFacts ==
    /\ IsList(<<>>) /\ DOMAIN <<>> = {}
    /\ \A x : IsList(<<x>>) /\ DOMAIN <<x>> = {1} /\ <<x>>[1] = x /\ IsFunction(<<x>>)
    /\ \A x, y : IsList(<<x, y>>) /\ DOMAIN <<x, y>> = 1 .. 2 /\ IsFunction(<<x, y>>)
<1>1. IsList(<<>>) /\ DOMAIN <<>> = {}
    <2>. PICK s : s = <<>>
        OBVIOUS
    <2>1. s \in Seq({}) /\ Len(s) = 0
        OBVIOUS
    <2>2. IsList(s) /\ DOMAIN s = 1 .. 0
        BY <2>1, SeqIsList
    <2>. QED
        BY <2>2
<1>2. ASSUME NEW x PROVE IsList(<<x>>) /\ DOMAIN <<x>> = {1} /\ <<x>>[1] = x /\ IsFunction(<<x>>)
    <2>. PICK s : s = <<x>>
        OBVIOUS
    <2>1. s \in Seq({x}) /\ Len(s) = 1 /\ s[1] = x
        OBVIOUS
    <2>2. IsList(s) /\ DOMAIN s = 1 .. 1 /\ IsFunction(s)
        BY <2>1, SeqIsList
    <2>. QED
        BY <2>1, <2>2
<1>3. ASSUME NEW x, NEW y PROVE IsList(<<x, y>>) /\ DOMAIN <<x, y>> = 1 .. 2 /\ IsFunction(<<x, y>>)
    <2>. PICK s : s = <<x, y>>
        OBVIOUS
    <2>1. s \in Seq({x, y}) /\ Len(s) = 2
        OBVIOUS
    <2>2. IsList(s) /\ DOMAIN s = 1 .. 2 /\ IsFunction(s)
        BY <2>1, SeqIsList
    <2>. QED
        BY <2>2
<1>. QED
    BY <1>1, <1>2, <1>3

(* What the scenes have in common: n coins of one withdrawal, and what was made of them          *)
FirstTables(d, n) ==
    /\ DbShape(d) /\ CoinsOk(d.coins) /\ n \in Nat
    /\ IsFunction(d.planchets) /\ DOMAIN d.planchets = FirstCoins(n)
    /\ \A c \in FirstCoins(n) : d.planchets[c] = "done"
    /\ FirstCoins(n) \subseteq DOMAIN d.coins
    /\ \A c \in DOMAIN d.coins \ FirstCoins(n) : SourceOf(c) = "refresh"
    /\ IsList(d.withdrawalGroups)
    /\ \A g \in DOMAIN d.withdrawalGroups : /\ g = 1 /\ WithdrawalShape(d.withdrawalGroups[1])
                                            /\ d.withdrawalGroups[1].count = n
                                            /\ d.withdrawalGroups[1].deleted = FALSE
    /\ n # 0 => 1 \in DOMAIN d.withdrawalGroups
    /\ d.tips = <<>> /\ d.recoupGroups = <<>> /\ d.depositGroups = <<>>
    /\ IsFunction(d.purchases) /\ DOMAIN d.purchases = Orders
    /\ \A o \in Orders : d.purchases[o] = Absent \/ PurchaseOk(d.purchases[o])

(* A wallet after one withdrawal has the tables described above. *)
LEMMA FirstWithdrawal ==
    ASSUME NEW n \in Nat
    PROVE  /\ FirstTables(Withdrawal(n), n) /\ Withdrawal(n).refreshGroups = <<>>
           /\ DOMAIN Withdrawal(n).coins = FirstCoins(n)
<1>a. PICK w : w = [count |-> n, denom |-> ADenom, finished |-> TRUE, deleted |-> FALSE]
    OBVIOUS
<1>b. PICK f : f = [c \in FirstCoins(n) |-> FreshCoin(CoinValue, ADenom)]
    OBVIOUS
<1>c. PICK p : p = [c \in FirstCoins(n) |-> "done"]
    OBVIOUS
<1>d. PICK u : u = [o \in Orders |-> Absent]
    OBVIOUS
<1>e. PICK props : props = [o \in Orders |-> [status |-> "none", repurchase |-> Nil]]
    OBVIOUS
<1>f. PICK r : r = [status |-> "DORMANT", requestedQuery |-> FALSE]
    OBVIOUS
<1>g. PICK d : d = Withdrawal(n)
    OBVIOUS
<1>h. PICK nil, none, one : nil = <<>> /\ none = {} /\ one = <<w>>
    OBVIOUS
<1>1. d = [coins |-> f, refreshGroups |-> nil, recoupGroups |-> nil, depositGroups |-> nil,
           tips |-> nil, proposals |-> props, purchases |-> u, revoked |-> none, reserve |-> r,
           withdrawalGroups |-> one, planchets |-> p]
    BY <1>a, <1>b, <1>c, <1>d, <1>e, <1>f, <1>g, <1>h DEF Withdrawal
<1>2. /\ DbShape(d) /\ d.coins = f /\ d.planchets = p /\ d.refreshGroups = nil /\ d.tips = nil
      /\ d.recoupGroups = nil /\ d.depositGroups = nil /\ d.withdrawalGroups = one
      /\ d.purchases = u
    <2>1. /\ d.coins = f /\ d.planchets = p /\ d.refreshGroups = nil /\ d.tips = nil
          /\ d.recoupGroups = nil /\ d.depositGroups = nil /\ d.withdrawalGroups = one
          /\ d.purchases = u /\ d.proposals = props /\ d.revoked = none /\ d.reserve = r
        BY <1>1
    <2>2. DbShape(d)
        BY <1>1, <2>1 DEF DbShape
    <2>. QED
        BY <2>1, <2>2
<1>3. CoinsOk(f) /\ DOMAIN f = FirstCoins(n)
    BY <1>b, FreshCoinOk DEF CoinsOk, IsFunction
<1>4. IsFunction(p) /\ DOMAIN p = FirstCoins(n) /\ \A c \in FirstCoins(n) : p[c] = "done"
    BY <1>c DEF IsFunction
<1>5. IsFunction(u) /\ DOMAIN u = Orders /\ \A o \in Orders : u[o] = Absent
    BY <1>d DEF IsFunction
<1>6. WithdrawalShape(w) /\ w.count = n /\ w.deleted = FALSE
    BY <1>a DEF WithdrawalShape
<1>. QED
    BY <1>g, <1>h, <1>2, <1>3, <1>4, <1>5, <1>6, ListFacts DEF FirstTables

(* A new wallet has no coins at all. *)
LEMMA FirstNewWallet ==
    /\ FirstTables(NewWallet, 0) /\ NewWallet.refreshGroups = <<>>
    /\ DOMAIN NewWallet.coins = FirstCoins(0) /\ DbShape(NewWallet)
<1>. PICK d : d = Withdrawal(0)
    OBVIOUS
<1>. PICK r : r = [d.reserve EXCEPT !.status = "none"]
    OBVIOUS
<1>. PICK e : e = [d EXCEPT !.reserve = r, !.withdrawalGroups = <<>>]
    OBVIOUS
<1>1. FirstTables(d, 0) /\ d.refreshGroups = <<>> /\ DbShape(d)
      /\ DOMAIN d.coins = FirstCoins(0)
    <2>1. 0 \in Nat
        OBVIOUS
    <2>. QED
        BY <2>1, FirstWithdrawal DEF FirstTables
<1>2. NewWallet = e
    BY <1>1 DEF NewWallet, DbShape
<1>3. /\ DbShape(e) /\ e.coins = d.coins /\ e.planchets = d.planchets /\ e.withdrawalGroups = <<>>
      /\ e.tips = d.tips /\ e.recoupGroups = d.recoupGroups /\ e.depositGroups = d.depositGroups
      /\ e.purchases = d.purchases /\ e.refreshGroups = d.refreshGroups
    BY <1>1 DEF DbShape
<1>4. FirstTables(e, 0)
    BY <1>1, <1>3, ListFacts DEF FirstTables
<1>. QED
    BY <1>1, <1>2, <1>3, <1>4

(* The list of the two coins of a purchase has two entries. *)
LEMMA TwoCoins ==
    DOMAIN SetToSeq(FirstCoins(2)) = 1 .. 2
<1>. PICK a, b : a = WithdrawCoin(1, 1) /\ b = WithdrawCoin(1, 2)
    OBVIOUS
<1>1. a # b /\ FirstCoins(2) = {a, b}
    BY DEF FirstCoins, WithdrawCoin
<1>2. Cardinality(FirstCoins(2)) = 2
    <2>1. IsFiniteSet({a}) /\ Cardinality({a}) = 1
        BY FS_Singleton
    <2>2. Cardinality({a} \cup {b}) = 2
        BY <1>1, <2>1, FS_AddElement
    <2>. QED
        BY <1>1, <2>2
<1>. DEFINE f == [i \in 1 .. 2 |-> IF i = 1 THEN a ELSE b]
<1>3. f \in [1 .. 2 -> FirstCoins(2)] /\ IsInjective(f)
    BY <1>1 DEF IsInjective
<1>4. SetToSeq(FirstCoins(2)) \in [1 .. 2 -> FirstCoins(2)]
    <2>1. \E g \in [1 .. 2 -> FirstCoins(2)] : IsInjective(g)
        BY <1>3
    <2>2. (CHOOSE g \in [1 .. 2 -> FirstCoins(2)] : IsInjective(g)) \in [1 .. 2 -> FirstCoins(2)]
        BY <2>1, Zenon
    <2>. QED
        BY <1>2, <2>2 DEF SetToSeq
<1>. QED
    BY <1>4

AppendsGroup(d1, d, cs) == \E e : d1.refreshGroups = Append(d.refreshGroups, NewGroup(e, cs))

(* applyCoinSpend appends the refresh group of the coins that it spends. *)
LEMMA SpentGroups ==
    ASSUME NEW d, NEW sel, NEW id, DbShape(d)
    PROVE  AppendsGroup(ApplyCoinSpend(d, sel, id), d, SetToSeq(DOMAIN sel))
<1>. PICK cs : cs = SetToSeq(DOMAIN sel)
    OBVIOUS
<1>. DEFINE f == [c \in DOMAIN d.coins |->
                     IF c \in DOMAIN sel /\ d.coins[c].status = "Fresh"
                     THEN SpendCoin(d.coins[c], id, sel[c]) ELSE d.coins[c]]
            e == [d EXCEPT !.coins = f]
            h == [c \in DOMAIN e.coins |->
                     IF c \in Range(cs)
                     THEN [e.coins[c] EXCEPT !.currentAmount = 0, !.status = "Dormant"]
                     ELSE e.coins[c]]
            s == Append(e.refreshGroups, NewGroup(e, cs))
<1>1. ApplyCoinSpend(d, sel, id) = CreateRefreshGroup(e, SetToSeq(DOMAIN sel))
    BY Zenon DEF ApplyCoinSpend
<1>2. CreateRefreshGroup(e, cs) = [e EXCEPT !.coins = h, !.refreshGroups = s]
    BY Zenon DEF CreateRefreshGroup
<1>. HIDE DEF f
<1>3. DbShape(e) /\ e.refreshGroups = d.refreshGroups
    BY DEF DbShape
<1>. HIDE DEF e, h
<1>4. CreateRefreshGroup(e, cs).refreshGroups = s
    <2>. HIDE DEF s
    <2>. QED
        BY <1>2, <1>3 DEF DbShape
<1>5. ApplyCoinSpend(d, sel, id).refreshGroups = Append(d.refreshGroups, NewGroup(e, cs))
    BY <1>1, <1>3, <1>4
<1>. HIDE DEF s
<1>. QED
    BY <1>5, Zenon DEF AppendsGroup

GroupsFinished(d) ==
    /\ IsList(d.refreshGroups)
    /\ \A g \in DOMAIN d.refreshGroups :
           LET rg == d.refreshGroups[g] IN
           /\ RefreshShape(rg) /\ \A i \in DOMAIN rg.session : SessionShape(rg.session[i])
           /\ \A i \in DOMAIN rg.statusPerCoin : rg.statusPerCoin[i] # "Pending"

(* A group that is created has the coins it was given, and no session. *)
LEMMA NewGroupShape ==
    ASSUME NEW d, NEW cs
    PROVE  /\ RefreshShape(NewGroup(d, cs)) /\ NewGroup(d, cs).oldCoinPubs = cs
           /\ NewGroup(d, cs).session = <<>>
BY DEF NewGroup, RefreshShape, IsFunction

(* A group is ended with a status of every coin.                                                 *)
Ends(rg, ng, ff) ==
    /\ RefreshShape(ng) /\ IsFunction(ff) /\ DOMAIN ff = DOMAIN ng.oldCoinPubs
    /\ rg = [ng EXCEPT !.statusPerCoin = ff, !.state = "finished"]

(* Such a group is finished, with the sessions it had. *)
LEMMA GroupEnded ==
    ASSUME NEW ng, NEW ff, NEW rg, Ends(rg, ng, ff)
    PROVE  RefreshShape(rg) /\ rg.session = ng.session /\ rg.statusPerCoin = ff
BY DEF RefreshShape, Ends

(* Two updates of the first group are one of the table. *)
LEMMA TwoUpdates ==
    ASSUME NEW d, DbShape(d), NEW ff, NEW g1, g1 = [d.refreshGroups EXCEPT ![1].statusPerCoin = ff],
           NEW g2, g2 = [g1 EXCEPT ![1].state = "finished"]
    PROVE  [d EXCEPT !.refreshGroups[1].statusPerCoin = ff, !.refreshGroups[1].state = "finished"]
               = [d EXCEPT !.refreshGroups = g2]
BY DEF DbShape

FirstGroupEnded(d, ff) ==
    [d EXCEPT !.refreshGroups[1].statusPerCoin = ff, !.refreshGroups[1].state = "finished"]
EndedWith(ng, ff) == [ng EXCEPT !.statusPerCoin = ff, !.state = "finished"]
HasOneGroup(d, rg) == DbShape(d) /\ d.refreshGroups = <<rg>>
OneGroup(d, rg) == [d EXCEPT !.refreshGroups = <<rg>>]

(* The only group of a wallet is replaced by its finished form. *)
LEMMA OnlyGroupFinished ==
    ASSUME NEW d, NEW ng, NEW ff, HasOneGroup(d, ng)
    PROVE  FirstGroupEnded(d, ff) = OneGroup(d, EndedWith(ng, ff))
<1>. PICK rg : rg = [ng EXCEPT !.statusPerCoin = ff, !.state = "finished"]
    OBVIOUS
<1>. PICK one : one = <<ng>>
    OBVIOUS
<1>. PICK g1 : g1 = [one EXCEPT ![1].statusPerCoin = ff]
    OBVIOUS
<1>. PICK g2 : g2 = [g1 EXCEPT ![1].state = "finished"]
    OBVIOUS
<1>. PICK r1 : r1 = [ng EXCEPT !.statusPerCoin = ff]
    OBVIOUS
<1>0. DbShape(d) /\ d.refreshGroups = one
    BY DEF HasOneGroup
<1>1. g1 = <<r1>> /\ one[1] = ng
    OBVIOUS
<1>2. g2 = <<[r1 EXCEPT !.state = "finished"]>>
    BY <1>1
<1>3. rg = [r1 EXCEPT !.state = "finished"]
    OBVIOUS
<1>4. g1 = [d.refreshGroups EXCEPT ![1].statusPerCoin = ff]
    BY <1>0
<1>. QED
    BY <1>0, <1>2, <1>3, <1>4, TwoUpdates DEF FirstGroupEnded, OneGroup, EndedWith

(* The purchase of the scene, before its group is said to be finished.                            *)
CanSpend(d, sel) ==
    /\ DbShape(d) /\ CoinsOk(d.coins) /\ IsList(d.refreshGroups) /\ d.refreshGroups = <<>>
    /\ DOMAIN sel = FirstCoins(2)

HasSpent(d, spent) ==
    Spends(d, spent) /\ \E e : spent.refreshGroups = <<NewGroup(e, SetToSeq(FirstCoins(2)))>>

(* The coins of the first purchase are spent, and there is one refresh group. *)
LEMMA FirstSpent ==
    ASSUME NEW d, NEW sel, NEW id, CanSpend(d, sel)
    PROVE  HasSpent(d, ApplyCoinSpend(d, sel, id))
<1>. PICK spent : spent = ApplyCoinSpend(d, sel, id)
    OBVIOUS
<1>. PICK cs : cs = SetToSeq(FirstCoins(2))
    OBVIOUS
<1>0. DbShape(d) /\ CoinsOk(d.coins) /\ IsList(d.refreshGroups) /\ d.refreshGroups = <<>>
      /\ DOMAIN sel = FirstCoins(2)
    BY DEF CanSpend
<1>1. AppendsGroup(spent, d, SetToSeq(DOMAIN sel))
    BY <1>0, SpentGroups
<1>2. Spends(d, spent)
    BY <1>0, CoinsSpent
<1>3. PICK e : spent.refreshGroups = Append(<<>>, NewGroup(e, cs))
    BY <1>0, <1>1 DEF AppendsGroup
<1>. PICK ng : ng = NewGroup(e, cs)
    OBVIOUS
<1>4. spent.refreshGroups = <<ng>>
    BY <1>3
<1>. QED
    BY <1>2, <1>4, Zenon DEF HasSpent

GroupFinishedOk(rg) ==
    /\ RefreshShape(rg) /\ \A i \in DOMAIN rg.session : SessionShape(rg.session[i])
    /\ \A i \in DOMAIN rg.statusPerCoin : rg.statusPerCoin[i] # "Pending"

(* The group of two coins that is said to be finished has no coin pending. *)
LEMMA TwoCoinsFinished ==
    ASSUME NEW e
    PROVE  LET ng == NewGroup(e, SetToSeq(FirstCoins(2)))
               rg == [ng EXCEPT !.statusPerCoin = <<"Finished", "Finished">>, !.state = "finished"]
           IN GroupFinishedOk(rg)
<1>. PICK cs : cs = SetToSeq(FirstCoins(2))
    OBVIOUS
<1>. PICK ng : ng = NewGroup(e, cs)
    OBVIOUS
<1>. PICK ff : ff = <<"Finished", "Finished">>
    OBVIOUS
<1>. PICK rg : rg = [ng EXCEPT !.statusPerCoin = ff, !.state = "finished"]
    OBVIOUS
<1>1. IsFunction(ff) /\ DOMAIN ff = 1 .. 2 /\ \A i \in 1 .. 2 : ff[i] # "Pending"
    BY ListFacts
<1>2. RefreshShape(ng) /\ ng.oldCoinPubs = cs /\ ng.session = <<>>
    BY NewGroupShape
<1>3. DOMAIN ff = DOMAIN ng.oldCoinPubs
    BY <1>1, <1>2, TwoCoins
<1>4. Ends(rg, ng, ff)
    BY <1>1, <1>2, <1>3 DEF Ends
<1>5. RefreshShape(rg) /\ rg.session = ng.session /\ rg.statusPerCoin = ff
    BY <1>4, GroupEnded
<1>6. DOMAIN rg.session = {}
    BY <1>2, <1>5, ListFacts
<1>7. GroupFinishedOk(rg)
    BY <1>1, <1>5, <1>6 DEF GroupFinishedOk
<1>. QED
    BY <1>7

(* A wallet whose only group is finished has no group that is not. *)
LEMMA OneGroupFinished ==
    ASSUME NEW d, NEW rg, GroupFinishedOk(rg), d.refreshGroups = <<rg>>
    PROVE  GroupsFinished(d)
<1>. PICK gs : gs = d.refreshGroups
    OBVIOUS
<1>1. IsList(gs) /\ DOMAIN gs = {1} /\ gs[1] = rg
    BY ListFacts
<1>2. ASSUME NEW g \in DOMAIN gs PROVE gs[g] = rg
    BY <1>1
<1>. QED
    BY <1>1, <1>2 DEF GroupsFinished, GroupFinishedOk

(* The wallet of the refund scene has the tables described above. *)
LEMMA FirstConfirmed ==
    ASSUME NEW d, FirstTables(d, 2), d.refreshGroups = <<>>, DOMAIN d.coins = FirstCoins(2)
    PROVE  /\ FirstTables(Confirmed(d), 2) /\ GroupsFinished(Confirmed(d))
           /\ DOMAIN Confirmed(d).coins = FirstCoins(2)
<1>. PICK sel : sel = [c \in FirstCoins(2) |-> CoinValue]
    OBVIOUS
<1>. PICK props : props = [d.proposals EXCEPT ![2].status = "ACCEPTED"]
    OBVIOUS
<1>. PICK new : new = NewPurchase(sel)
    OBVIOUS
<1>. PICK u : u = [d.purchases EXCEPT ![2] = new]
    OBVIOUS
<1>. PICK d1 : d1 = [d EXCEPT !.proposals = props, !.purchases = u]
    OBVIOUS
<1>. PICK spent : spent = ApplyCoinSpend(d1, sel, AllocationId(2))
    OBVIOUS
<1>. PICK ff : ff = <<"Finished", "Finished">>
    OBVIOUS
<1>0. DbShape(d) /\ 2 \in Orders /\ DOMAIN d.purchases = Orders /\ IsFunction(d.purchases)
    BY ScenesAssumption DEF FirstTables
<1>1. /\ DbShape(d1) /\ d1.coins = d.coins /\ d1.refreshGroups = d.refreshGroups
      /\ d1.planchets = d.planchets /\ d1.withdrawalGroups = d.withdrawalGroups /\ d1.tips = d.tips
      /\ d1.recoupGroups = d.recoupGroups /\ d1.depositGroups = d.depositGroups /\ d1.purchases = u
    BY <1>0 DEF DbShape
<1>2. Confirmed(d) = [spent EXCEPT !.refreshGroups[1].statusPerCoin = ff,
                                   !.refreshGroups[1].state = "finished"]
    <2>1. d1 = [d EXCEPT !.proposals[2].status = "ACCEPTED", !.purchases[2] = NewPurchase(sel)]
        BY <1>0 DEF DbShape
    <2>. DEFINE s == [c \in FirstCoins(2) |-> CoinValue]
    <2>2. Confirmed(d) =
              LET sp == ApplyCoinSpend(
                      [d EXCEPT !.proposals[2].status = "ACCEPTED", !.purchases[2] = NewPurchase(s)],
                      s, AllocationId(2))
              IN [sp EXCEPT !.refreshGroups[1].statusPerCoin = <<"Finished", "Finished">>,
                            !.refreshGroups[1].state = "finished"]
        BY Zenon DEF Confirmed
    <2>3. sel = s
        OBVIOUS
    <2>. HIDE DEF s
    <2>. QED
        BY <2>1, <2>2, <2>3
<1>3. /\ CoinsOk(d1.coins) /\ IsList(d1.refreshGroups) /\ d1.refreshGroups = <<>>
    BY <1>1, ListFacts DEF FirstTables
<1>4. DOMAIN sel = FirstCoins(2)
    OBVIOUS
<1>5. /\ Spends(d1, spent)
      /\ \E e : spent.refreshGroups = <<NewGroup(e, SetToSeq(FirstCoins(2)))>>
    <2>1. CanSpend(d1, sel)
        BY <1>1, <1>3, <1>4 DEF CanSpend
    <2>2. HasSpent(d1, spent)
        BY <2>1, FirstSpent
    <2>. QED
        BY <2>2 DEF HasSpent
<1>6. PICK e : spent.refreshGroups = <<NewGroup(e, SetToSeq(FirstCoins(2)))>>
    BY <1>5
<1>. PICK ng : ng = NewGroup(e, SetToSeq(FirstCoins(2)))
    OBVIOUS
<1>. PICK rg : rg = [ng EXCEPT !.statusPerCoin = ff, !.state = "finished"]
    OBVIOUS
<1>7. GroupFinishedOk(rg)
    BY TwoCoinsFinished
<1>8. Confirmed(d) = [spent EXCEPT !.refreshGroups = <<rg>>]
    <2>1. HasOneGroup(spent, ng)
        BY <1>5, <1>6 DEF Spends, HasOneGroup
    <2>2. FirstGroupEnded(spent, ff) = OneGroup(spent, EndedWith(ng, ff))
        BY <2>1, OnlyGroupFinished
    <2>. QED
        BY <1>2, <2>2 DEF FirstGroupEnded, OneGroup, EndedWith
<1>. PICK gs : gs = <<rg>>
    OBVIOUS
<1>. PICK out : out = [spent EXCEPT !.refreshGroups = gs]
    OBVIOUS
<1>9. /\ DbShape(out) /\ out.refreshGroups = gs /\ out.coins = spent.coins
      /\ out.planchets = d.planchets /\ out.withdrawalGroups = d.withdrawalGroups /\ out.tips = d.tips
      /\ out.recoupGroups = d.recoupGroups /\ out.depositGroups = d.depositGroups /\ out.purchases = u
    BY <1>1, <1>5 DEF Spends, DbShape
<1>10. GroupsFinished(out)
    BY <1>7, <1>9, OneGroupFinished
<1>11. FirstTables(out, 2) /\ DOMAIN out.coins = FirstCoins(2)
    <2>1. CoinsOk(out.coins) /\ DOMAIN out.coins = FirstCoins(2)
        BY <1>1, <1>5, <1>9 DEF Spends, CoinsKept
    <2>2. IsFunction(u) /\ DOMAIN u = Orders /\ u[2] = new /\ \A o \in Orders \ {2} : u[o] = d.purchases[o]
        BY <1>0 DEF IsFunction
    <2>3. PurchaseOk(new)
        BY PurchaseNew
    <2>. QED
        BY <1>9, <2>1, <2>2, <2>3 DEF FirstTables
<1>. QED
    BY <1>8, <1>10, <1>11

SpentOnce(f, F, c, x) ==
    /\ CoinsOk(F)
    /\ f = [F EXCEPT ![c].currentAmount = 0, ![c].status = "Dormant", ![c].allocation = x]

(* The first coin is spent in part. *)
LEMMA CoinSpent ==
    ASSUME NEW F, NEW c, NEW x, NEW f, SpentOnce(f, F, c, x)
    PROVE  CoinsOk(f) /\ DOMAIN f = DOMAIN F
<1>0. /\ CoinsOk(F)
      /\ f = [F EXCEPT ![c].currentAmount = 0, ![c].status = "Dormant", ![c].allocation = x]
    BY DEF SpentOnce
<1>. PICK coin : coin = F[c]
    OBVIOUS
<1>. PICK s : s = [coin EXCEPT !.currentAmount = 0, !.status = "Dormant", !.allocation = x]
    OBVIOUS
<1>1. c \in DOMAIN F => CoinShape(coin)
    BY <1>0 DEF CoinsOk
<1>2. c \in DOMAIN F => CoinShape(s)
    BY <1>1 DEF CoinShape
<1>3. IsFunction(F)
    BY <1>0 DEF CoinsOk
<1>4. f = [F EXCEPT ![c] = s]
    BY <1>0, <1>1, <1>3 DEF IsFunction
<1>5. DOMAIN f = DOMAIN F /\ IsFunction(f) /\ \A k \in DOMAIN F \ {c} : f[k] = F[k]
    BY <1>3, <1>4 DEF IsFunction
<1>6. c \in DOMAIN F => f[c] = s
    BY <1>3, <1>4 DEF IsFunction
<1>. QED
    BY <1>0, <1>2, <1>5, <1>6 DEF CoinsOk

AddsCoin(h, f, new, v, dn) == CoinsOk(f) /\ h = Stored(f, {new}, FreshCoin(v, dn))

CoinsAnd(h, f, new) == CoinsOk(h) /\ DOMAIN h = DOMAIN f \cup {new}

(* Its change is added. *)
LEMMA CoinAdded ==
    ASSUME NEW f, NEW new, NEW v, NEW dn, NEW h, AddsCoin(h, f, new, v, dn)
    PROVE  CoinsAnd(h, f, new)
<1>. PICK coin : coin = FreshCoin(v, dn)
    OBVIOUS
<1>0. CoinsOk(f) /\ h = Stored(f, {new}, coin)
    BY DEF AddsCoin
<1>1. CoinShape(coin)
    BY FreshCoinOk
<1>2. /\ DOMAIN h = DOMAIN f \cup {new} /\ IsFunction(h) /\ h[new] = coin
      /\ \A k \in DOMAIN f \ {new} : h[k] = f[k]
    BY <1>0 DEF Stored, IsFunction
<1>. QED
    BY <1>0, <1>1, <1>2 DEF CoinsOk, CoinsAnd

(* The group that refreshed the first coin is finished, and what it melted is known.              *)
RefreshedGroup(rg) ==
    /\ GroupFinishedOk(rg) /\ DOMAIN rg.oldCoinPubs = {1} /\ rg.oldCoinPubs[1] = WithdrawCoin(1, 1)
    /\ 1 \in DOMAIN rg.session /\ rg.session[1].seed = 1

(* The group that the recoup scene starts with is such a group. *)
LEMMA FirstGroup ==
    ASSUME NEW c, c = WithdrawCoin(1, 1), NEW x, NEW y, NEW dn
    PROVE  RefreshedGroup([oldCoinPubs |-> <<c>>, inputPerCoin |-> <<x>>,
               statusPerCoin |-> <<"Finished">>, state |-> "finished",
               session |-> <<[seed |-> 1, output |-> y, denom |-> dn, melted |-> TRUE]>>])
<1>. PICK yes : yes = TRUE
    OBVIOUS
<1>. PICK s : s = [seed |-> 1, output |-> y, denom |-> dn, melted |-> yes]
    OBVIOUS
<1>. PICK cs, is, fs, ss : cs = <<c>> /\ is = <<x>> /\ fs = <<"Finished">> /\ ss = <<s>>
    OBVIOUS
<1>. PICK rg : rg = [oldCoinPubs |-> cs, inputPerCoin |-> is, statusPerCoin |-> fs,
                     state |-> "finished", session |-> ss]
    OBVIOUS
<1>1. /\ DOMAIN cs = {1} /\ cs[1] = c /\ DOMAIN fs = {1} /\ fs[1] = "Finished" /\ IsFunction(fs)
      /\ DOMAIN ss = {1} /\ ss[1] = s /\ IsFunction(ss)
    BY ListFacts
<1>2. SessionShape(s) /\ s.seed = 1
    BY DEF SessionShape
<1>3. /\ rg.oldCoinPubs = cs /\ rg.statusPerCoin = fs /\ rg.session = ss
      /\ rg = [oldCoinPubs |-> rg.oldCoinPubs, inputPerCoin |-> rg.inputPerCoin,
               statusPerCoin |-> rg.statusPerCoin, session |-> rg.session, state |-> rg.state]
    OBVIOUS
<1>4. RefreshShape(rg)
    BY <1>1, <1>3 DEF RefreshShape
<1>5. GroupFinishedOk(rg)
    BY <1>1, <1>2, <1>3, <1>4 DEF GroupFinishedOk
<1>6. RefreshedGroup(rg)
    BY <1>1, <1>2, <1>3, <1>5 DEF RefreshedGroup
<1>. QED
    BY <1>6

(* The wallet of the recoup scene has the tables described above. *)
LEMMA FirstRefreshed ==
    ASSUME NEW d, FirstTables(d, 2), d.refreshGroups = <<>>, DOMAIN d.coins = FirstCoins(2)
    PROVE  LET e == Refreshed(d, WithdrawCoin(1, 1), 1) IN
           /\ FirstTables(e, 2) /\ GroupsFinished(e)
           /\ DOMAIN e.refreshGroups = {1} /\ RefreshedGroup(e.refreshGroups[1])
           /\ RefreshCoin(1, 1) \in DOMAIN e.coins
<1>. PICK c, new : c = WithdrawCoin(1, 1) /\ new = RefreshCoin(1, 1)
    OBVIOUS
<1>. PICK change, rest : change = Sub(CoinValue - 1, RefreshFee) /\ rest = CoinValue - 1
    OBVIOUS
<1>. PICK a : a = [id |-> <<"deposit-group", 0>>, amount |-> 1]
    OBVIOUS
<1>. PICK f : SpentOnce(f, d.coins, c, a)
    BY DEF SpentOnce, FirstTables
<1>2a. CoinsOk(f)
    BY CoinSpent
<1>. PICK h : AddsCoin(h, f, new, change, ADenom)
    BY <1>2a DEF AddsCoin
<1>3. CoinsOk(h) /\ DOMAIN h = DOMAIN f \cup {new} /\ DOMAIN f = FirstCoins(2)
    <2>1. CoinsAnd(h, f, new)
        BY CoinAdded
    <2>2. DOMAIN f = DOMAIN d.coins
        BY CoinSpent
    <2>. QED
        BY <2>1, <2>2 DEF CoinsAnd
<1>. PICK rg : rg = [oldCoinPubs |-> <<c>>, inputPerCoin |-> <<rest>>,
                     statusPerCoin |-> <<"Finished">>, state |-> "finished",
                     session |-> <<[seed |-> 1, output |-> change, denom |-> ADenom, melted |-> TRUE]>>]
    OBVIOUS
<1>. PICK gs : gs = <<rg>>
    OBVIOUS
<1>. PICK e : e = [d EXCEPT !.coins = h, !.refreshGroups = gs]
    OBVIOUS
<1>1. Refreshed(d, WithdrawCoin(1, 1), 1) = e
    BY DEF Refreshed, SpentOnce, AddsCoin
<1>2. /\ DbShape(e) /\ e.coins = h /\ e.refreshGroups = gs
      /\ e.planchets = d.planchets /\ e.withdrawalGroups = d.withdrawalGroups /\ e.tips = d.tips
      /\ e.recoupGroups = d.recoupGroups /\ e.depositGroups = d.depositGroups
      /\ e.purchases = d.purchases
    BY DEF FirstTables, DbShape
<1>4. CoinsOk(h) /\ DOMAIN h = FirstCoins(2) \cup {new}
    BY <1>3
<1>5. SourceOf(new) = "refresh"
    BY DEF SourceOf, RefreshCoin
<1>6. FirstTables(e, 2)
    BY <1>2, <1>4, <1>5 DEF FirstTables
<1>7. RefreshedGroup(rg)
    BY FirstGroup
<1>8. DOMAIN gs = {1} /\ gs[1] = rg
    BY ListFacts
<1>9. GroupsFinished(e)
    BY <1>2, <1>7, OneGroupFinished DEF RefreshedGroup
<1>. QED
    BY <1>1, <1>2, <1>4, <1>6, <1>7, <1>8, <1>9, ZenonT(60)

(* The tables of the scenes satisfy the invariant: every melt is that of the refreshed coin.      *)
FirstExchange(ds, ms, ss) ==
    /\ exchange.deposits = ds /\ exchange.melts = ms /\ exchange.recoups = {} /\ exchange.signed = ss
    /\ ExchangeShape

FirstMelted(ms) ==
    \/ ms = {}
    \/ /\ DOMAIN db.refreshGroups = {1} /\ RefreshedGroup(db.refreshGroups[1])
       /\ RefreshCoin(1, 1) \in DOMAIN db.coins
       /\ \A m \in ms : MeltShape(m) /\ m.session = <<1, 1>> /\ m.coin = WithdrawCoin(1, 1) /\ m.seed = 1

(* The coins of a withdrawal are named after it. *)
LEMMA FirstCoinsFacts ==
    ASSUME NEW n, NEW c \in FirstCoins(n)
    PROVE  SourceOf(c) = "withdraw" /\ c[2] = 1
BY DEF FirstCoins, WithdrawCoin, SourceOf

(* Tables of some number of coins with such an exchange satisfy the invariant. *)
LEMMA FirstTablesInv ==
    ASSUME NEW n, FirstTables(db, n), GroupsFinished(db), NEW ds, NEW ms, NEW ss,
           FirstExchange(ds, ms, ss), FirstMelted(ms), \A p \in ds : DepositShape(p),
           ss = {WithdrawnElsewhere} \/ ss = {c \in DOMAIN db.coins : SourceOf(c) = "withdraw"}
    PROVE  TablesInv
<1>1. SourceOf(WithdrawnElsewhere) = "withdraw"
    BY DEF SourceOf, WithdrawnElsewhere, WithdrawCoin
<1>2. \A c \in DOMAIN db.coins : SourceOf(c) # "tip" /\ (SourceOf(c) = "withdraw" => c \in FirstCoins(n))
    BY FirstCoinsFacts DEF FirstTables
<1>3. \A c \in ss : SourceOf(c) = "withdraw" /\ (c \in FirstCoins(n) \/ c = WithdrawnElsewhere)
    BY <1>1, <1>2
<1>4. 1 \in DOMAIN db.withdrawalGroups => PlannedCoins(1) = FirstCoins(n)
    BY DEF PlannedCoins, FirstCoins, FirstTables
<1>5. WithdrawInv
    <2>1. \A c \in FirstCoins(n) : n # 0
        BY DEF FirstCoins
    <2>2. /\ IsList(db.withdrawalGroups) /\ IsFunction(db.planchets)
          /\ \A g \in DOMAIN db.withdrawalGroups :
                /\ WithdrawalShape(db.withdrawalGroups[g])
                /\ PlannedCoins(g) \subseteq DOMAIN db.coins
        BY <1>4 DEF FirstTables
    <2>3. \A c \in DOMAIN db.planchets :
              SourceOf(c) = "withdraw" /\ (db.planchets[c] = "done" <=> c \in DOMAIN db.coins)
        BY FirstCoinsFacts DEF FirstTables
    <2>4. \A c \in DOMAIN db.coins : SourceOf(c) = "withdraw" => c \in DOMAIN db.planchets
        BY <1>2 DEF FirstTables
    <2>5. ASSUME NEW c \in exchange.signed \ {WithdrawnElsewhere}
          PROVE  /\ c \in DOMAIN db.planchets
                 /\ c[2] \in DOMAIN db.withdrawalGroups /\ c \in PlannedCoins(c[2])
        <3>1. c \in FirstCoins(n) /\ c[2] = 1
            BY <1>3, <2>5, FirstCoinsFacts DEF FirstExchange
        <3>2. 1 \in DOMAIN db.withdrawalGroups
            BY <2>1, <3>1 DEF FirstTables
        <3>. QED
            BY <1>4, <3>1, <3>2 DEF FirstTables
    <2>. QED
        BY <2>2, <2>3, <2>4, <2>5 DEF WithdrawInv
<1>6. TipInv
    <2>1. IsList(db.tips) /\ DOMAIN db.tips = {}
        BY ListFacts DEF FirstTables
    <2>. QED
        BY <1>2, <1>3, <2>1 DEF TipInv, FirstExchange
<1>7. RefreshInv
    <2>1. IsList(db.refreshGroups)
        BY DEF GroupsFinished
    <2>2. ASSUME NEW g \in DOMAIN db.refreshGroups
          PROVE  LET rg == db.refreshGroups[g] IN
                 /\ RefreshShape(rg)
                 /\ \A i \in DOMAIN rg.session : SessionShape(rg.session[i])
                 /\ \A i \in DOMAIN rg.statusPerCoin : rg.statusPerCoin[i] = "Pending" => rg.state = "active"
        BY <2>2 DEF GroupsFinished
    <2>3. ASSUME NEW m \in exchange.melts
          PROVE  /\ MeltShape(m) /\ m.session[1] \in DOMAIN db.refreshGroups
                 /\ LET rg == db.refreshGroups[m.session[1]]
                        i == m.session[2] IN
                    /\ i \in DOMAIN rg.oldCoinPubs /\ m.coin = rg.oldCoinPubs[i]
                    /\ i \in DOMAIN rg.session /\ rg.session[i].seed = m.seed
                    /\ \/ RefreshCoin(m.session[1], i) \in DOMAIN db.coins \cup raced
                       \/ rg.statusPerCoin[i] = "Pending"
        <3>1. /\ DOMAIN db.refreshGroups = {1} /\ RefreshedGroup(db.refreshGroups[1])
              /\ RefreshCoin(1, 1) \in DOMAIN db.coins
              /\ MeltShape(m) /\ m.session = <<1, 1>> /\ m.coin = WithdrawCoin(1, 1) /\ m.seed = 1
            BY <2>3 DEF FirstMelted, FirstExchange
        <3>2. m.session[1] = 1 /\ m.session[2] = 1
            BY <3>1
        <3>. QED
            BY <3>1, <3>2 DEF RefreshedGroup
    <2>. QED
        BY <2>1, <2>2, <2>3 DEF RefreshInv
<1>8. RecoupInv
    BY ListFacts DEF RecoupInv, FirstTables, FirstExchange
<1>9. PurchaseInv
    BY DEF PurchaseInv, FirstTables, HasPurchase
<1>10. DepositInv
    BY ListFacts DEF DepositInv, FirstTables, FirstExchange
<1>. QED
    BY <1>5, <1>6, <1>7, <1>8, <1>9, <1>10 DEF TablesInv, FirstTables, FirstExchange

(* NewWallet and Withdrawal have no refresh group.                                               *)
LEMMA NoGroups ==
    ASSUME NEW d, d.refreshGroups = <<>>
    PROVE  GroupsFinished(d)
BY ListFacts DEF GroupsFinished

(* The wallet of the restore scene is a new one that asks for its reserve. *)
LEMMA RestoredWallet ==
    ASSUME NEW d, FirstTables(d, 0), d.refreshGroups = <<>>,
           NEW e, e = [d EXCEPT !.reserve.status = "QUERYING_STATUS"]
    PROVE  FirstTables(e, 0) /\ e.refreshGroups = <<>>
<1>. PICK r : r = [d.reserve EXCEPT !.status = "QUERYING_STATUS"]
    OBVIOUS
<1>1. e = [d EXCEPT !.reserve = r]
    OBVIOUS
<1>2. DbShape(d)
    BY DEF FirstTables
<1>3. /\ DbShape(e) /\ e.coins = d.coins /\ e.planchets = d.planchets
      /\ e.withdrawalGroups = d.withdrawalGroups
      /\ e.tips = d.tips /\ e.recoupGroups = d.recoupGroups /\ e.depositGroups = d.depositGroups
      /\ e.purchases = d.purchases /\ e.refreshGroups = d.refreshGroups
    BY <1>1, <1>2 DEF DbShape
<1>. QED
    BY <1>3 DEF FirstTables

(* Whatever the scene, the tables are those of some number of coins.                              *)
SceneTables ==
    /\ \E n : FirstTables(db, n)
    /\ GroupsFinished(db)
    /\ scene = "recoup" => /\ DOMAIN db.refreshGroups = {1} /\ RefreshedGroup(db.refreshGroups[1])
                           /\ RefreshCoin(1, 1) \in DOMAIN db.coins

(* The wallet of every scene has the tables described above. *)
LEMMA FirstDbTables ==
    ASSUME db = FirstDb, scene \in AllScenes
    PROVE  SceneTables
<1>1. 2 \in Nat /\ Coins \in Nat
    BY CoinsAssumption
<1>2. /\ FirstTables(Withdrawal(2), 2) /\ Withdrawal(2).refreshGroups = <<>>
      /\ DOMAIN Withdrawal(2).coins = FirstCoins(2)
    BY <1>1, FirstWithdrawal
<1>3. CASE scene \in {"withdraw", "tip"}
    <2>1. db = NewWallet
        BY <1>3 DEF FirstDb
    <2>. QED
        BY <1>3, <2>1, FirstNewWallet, NoGroups DEF SceneTables
<1>4. CASE scene = "restore"
    <2>1. db = [NewWallet EXCEPT !.reserve.status = "QUERYING_STATUS"]
        BY <1>4 DEF FirstDb
    <2>2. FirstTables(NewWallet, 0) /\ NewWallet.refreshGroups = <<>>
        BY FirstNewWallet
    <2>3. FirstTables(db, 0) /\ db.refreshGroups = <<>>
        BY <2>1, <2>2, RestoredWallet
    <2>. QED
        BY <1>4, <2>3, NoGroups DEF SceneTables
<1>5. CASE scene = "refund"
    <2>1. db = Confirmed(Withdrawal(2))
        BY <1>5 DEF FirstDb
    <2>2. FirstTables(db, 2) /\ GroupsFinished(db)
        BY <1>2, <2>1, FirstConfirmed
    <2>. QED
        BY <1>5, <2>2 DEF SceneTables
<1>6. CASE scene = "recoup"
    <2>1. db = Refreshed(Withdrawal(2), WithdrawCoin(1, 1), 1)
        BY <1>6 DEF FirstDb
    <2>2. /\ FirstTables(db, 2) /\ GroupsFinished(db)
          /\ DOMAIN db.refreshGroups = {1} /\ RefreshedGroup(db.refreshGroups[1])
          /\ RefreshCoin(1, 1) \in DOMAIN db.coins
        BY <1>2, <2>1, FirstRefreshed
    <2>. QED
        BY <2>2 DEF SceneTables
<1>7. CASE scene \in {"shop", "refresh"}
    <2>1. db = Withdrawal(2)
        BY <1>7 DEF FirstDb
    <2>. QED
        BY <1>2, <1>7, <2>1, NoGroups DEF SceneTables
<1>8. CASE scene \in {"pay", "deposit"}
    <2>1. db = Withdrawal(Coins)
        BY <1>8 DEF FirstDb
    <2>. QED
        BY <1>1, <1>8, <2>1, FirstWithdrawal, NoGroups DEF SceneTables
<1>. QED
    BY <1>3, <1>4, <1>5, <1>6, <1>7, <1>8 DEF AllScenes

(* What another device, or the refreshed coin, has left at the exchange                           *)
LEMMA FirstDepositsOk ==
    ASSUME NEW ds \in FirstDeposits, NEW p \in ds
    PROVE  DepositShape(p)
<1>1. DepositShape(SpentElsewhere)
    <2>. PICK contract, coin, amount : contract = <<"elsewhere", 0>> /\ coin = WithdrawCoin(1, 1) /\ amount = CoinValue
        OBVIOUS
    <2>. PICK q : q = [contract |-> contract, coin |-> coin, amount |-> amount, refunded |-> Nil]
        OBVIOUS
    <2>1. DepositShape(q)
        BY DEF DepositShape
    <2>. QED
        BY <2>1 DEF SpentElsewhere
<1>. DEFINE old == [contract |-> <<"deposit-group", 0>>, coin |-> WithdrawCoin(1, 1),
                    amount |-> 1, refunded |-> Nil]
<1>2. DepositShape(old)
    <2>. PICK contract, coin : contract = <<"deposit-group", 0>> /\ coin = WithdrawCoin(1, 1)
        OBVIOUS
    <2>. PICK q : q = [contract |-> contract, coin |-> coin, amount |-> 1, refunded |-> Nil]
        OBVIOUS
    <2>1. DepositShape(q)
        BY DEF DepositShape
    <2>. QED
        BY <2>1
<1>3. FirstDeposits = CASE scene \in {"pay", "deposit"} -> {{}, {SpentElsewhere}}
                        [] scene = "recoup" -> {{old}}
                        [] OTHER -> {{}}
    BY DEF FirstDeposits
<1>. HIDE DEF old
<1>4. p = SpentElsewhere \/ p = old
    BY <1>3
<1>. QED
    BY <1>1, <1>2, <1>4

(* Only the recoup scene starts with a melt, and its session is known. *)
LEMMA FirstMeltsOk ==
    ASSUME SceneTables
    PROVE  FirstMelted(FirstMelts)
<1>1. CASE scene # "recoup"
    BY <1>1 DEF FirstMelts, FirstMelted
<1>2. CASE scene = "recoup"
    <2>. PICK coin, session, rest, yes :
            coin = WithdrawCoin(1, 1) /\ session = <<1, 1>> /\ rest = CoinValue - 1 /\ yes = TRUE
        OBVIOUS
    <2>. PICK m : m = [coin |-> coin, session |-> session, seed |-> 1, amount |-> rest,
                       revealed |-> yes, returned |-> 0]
        OBVIOUS
    <2>1. FirstMelts = {m}
        BY <1>2 DEF FirstMelts
    <2>2. MeltShape(m) /\ m.session = <<1, 1>> /\ m.coin = WithdrawCoin(1, 1) /\ m.seed = 1
        <3>1. session = <<session[1], session[2]>>
            OBVIOUS
        <3>2. m.session = session
            OBVIOUS
        <3>3. m = [coin |-> m.coin, session |-> m.session, seed |-> m.seed, amount |-> m.amount,
                   revealed |-> m.revealed, returned |-> m.returned]
            OBVIOUS
        <3>. QED
            BY <3>1, <3>2, <3>3 DEF MeltShape
    <2>. QED
        BY <1>2, <2>1, <2>2 DEF FirstMelted, SceneTables
<1>. QED
    BY <1>1, <1>2

(* Every initial state satisfies the invariant. *)
LEMMA InitInv ==
    ASSUME Init
    PROVE  WalletInv
<1>1. scene \in AllScenes
    BY SceneAssumption DEF Init
<1>2. SceneTables
    BY <1>1, FirstDbTables DEF Init
<1>3. PICK n : FirstTables(db, n)
    BY <1>2 DEF SceneTables
<1>4. FirstMelted(FirstMelts)
    BY <1>2, FirstMeltsOk
<1>5. PICK ds \in FirstDeposits :
          exchange = [deposits |-> ds, melts |-> FirstMelts, recoups |-> {},
                      signed |-> FirstSigned, reserve |-> [credit |-> Money]]
    BY DEF Init
<1>6. FirstExchange(ds, FirstMelts, FirstSigned)
    <2>. PICK ms, ss, none, r : ms = FirstMelts /\ ss = FirstSigned /\ none = {} /\ r = [credit |-> Money]
        OBVIOUS
    <2>1. exchange = [deposits |-> ds, melts |-> ms, recoups |-> none, signed |-> ss, reserve |-> r]
        BY <1>5
    <2>. QED
        BY <2>1 DEF FirstExchange, ExchangeShape
<1>7. \A p \in ds : DepositShape(p)
    BY FirstDepositsOk
<1>8. TablesInv
    BY <1>2, <1>3, <1>4, <1>6, <1>7, FirstTablesInv DEF SceneTables, FirstSigned
<1>. QED
    BY <1>8 DEF WalletInv, Init

-----------------------------------------------------------------------------
(* Every step of the wallet keeps the invariant, and no spent coin becomes fresh.                *)
LEMMA BackgroundStep ==
    ASSUME WalletInv, Background
    PROVE  WalletInv' /\ StaysSpent
<1>1. CASE RefreshNext
    BY <1>1, ProcessRefreshStep, RefreshCreateSessionStep, RefreshMeltStep, MeltNotFoundStep,
       StoreMeltStep, RefreshRevealStep, StoreRevealedStep DEF RefreshNext
<1>2. CASE PayNext
    <2>1. CASE \E o \in Orders : ProcessDownloadProposal(o) \/ ProcessPurchasePay(o)
        BY <2>1, RequestSteps
    <2>2. ASSUME NEW t \in tasks,
                 \/ ClaimOrder(t) \/ FailProposalPermanently(t) \/ StoreContractTerms(t)
                 \/ SelectCoins(t) \/ RecordConfirmPay(t) \/ PostPay(t) \/ StoreFirstPaySuccess(t)
                 \/ PostPaid(t) \/ StorePayReplaySuccess(t) \/ FreezePay(t)
                 \/ HandleInsufficientFunds(t) \/ SelectCoinsAgain(t) \/ StoreReselection(t)
          PROVE  WalletInv' /\ StaysSpent
        BY <2>2, QuietSteps, DownloadAndReserveSteps, RecordConfirmPayStep, PostPayStep, PayDbSteps,
           StoreReselectionStep
    <2>. QED
        BY <1>2, <2>1, <2>2 DEF PayNext
<1>3. CASE RefundNext
    BY <1>3, RequestSteps, QuietSteps, RefundRequests, AcceptRefundsStep DEF RefundNext
<1>4. CASE ReserveNext
    <2>1. CASE ProcessReserve
        BY <2>1, RequestSteps
    <2>2. CASE \E g \in DOMAIN db.withdrawalGroups : ProcessWithdrawGroup(g)
        BY <2>2, ProcessWithdrawStep
    <2>3. ASSUME NEW t \in tasks,
                 \/ BankStatus(t) \/ StoreBankStatus(t) \/ PostRegistration(t) \/ StoreRegistration(t)
                 \/ QueryReserve(t) \/ StoreReserve(t) \/ AfterWithdraw(t)
                 \/ PlanchetGenerate(t) \/ PlanchetRequest(t) \/ StoreCoin(t) \/ FinishWithdraw(t)
          PROVE  WalletInv' /\ StaysSpent
        BY <2>3, QuietSteps, DownloadAndReserveSteps, StoreReserveStep, PlanchetGenerateStep,
           PlanchetRequestStep, StoreCoinStep, FinishWithdrawStep
    <2>. QED
        BY <1>4, <2>1, <2>2, <2>3 DEF ReserveNext
<1>5. CASE RecoupNext
    BY <1>5, ProcessRecoupStep, PostRecoupStep, StoreRecoupStep DEF RecoupNext
<1>6. CASE DepositNext
    BY <1>6, ProcessDepositStep, RecordDepositStep, PostDepositStep, StoreDepositStep,
       FinishDepositStep DEF DepositNext
<1>7. CASE TipNext
    <2>1. ASSUME NEW r \in DOMAIN db.tips, ProcessTip(r)
          PROVE  WalletInv' /\ StaysSpent
        <3>1. db.tips[r].accepted
            BY <2>1 DEF ProcessTip
        <3>. QED
            BY <2>1, <3>1, TipTasks
    <2>. QED
        BY <1>7, <2>1, PickupTipStep, StoreTipCoinsStep DEF TipNext
<1>8. CASE Crash
    BY <1>8, RequestSteps
<1>. QED
    BY <1>1, <1>2, <1>3, <1>4, <1>5, <1>6, <1>7, <1>8 DEF Background

(* What the user, the merchant and the bank do keeps the invariant. *)
LEMMA UserStep ==
    ASSUME WalletInv, PayUser \/ ShopUser \/ RefundUser \/ ReserveUser \/ OtherUser
    PROVE  WalletInv' /\ StaysSpent
<1>0. 1 \in Orders /\ 2 \in Orders /\ 3 \in Orders
    BY ScenesAssumption
<1>1. CASE PayUser
    <2>1. CASE StartDownloadProposal(1) \/ ConfirmPay(1)
        BY <1>0, <2>1, RequestSteps
    <2>. QED
        BY <1>1, <2>1, AutoRefreshStep, RevokeDenominationStep DEF PayUser
<1>2. CASE ShopUser
    <2>1. PICK o \in {1, 2} : StartDownloadProposal(o) \/ RefuseProposal(o) \/ ConfirmPay(o)
        BY <1>2 DEF ShopUser
    <2>. QED
        BY <1>0, <2>1, RequestSteps
<1>3. CASE RefundUser
    <2>1. CASE GrantRefund(2)
        BY <1>0, <2>1, RequestSteps
    <2>. QED
        BY <1>0, <1>3, <2>1, PurchaseRequests DEF RefundUser
<1>4. CASE ReserveUser
    <2>1. CASE CreateReserve \/ BankConfirms \/ BankAborts \/ ForceQueryReserve
        BY <2>1, RequestSteps
    <2>2. CASE TransferArrives(2 * CoinValue)
        BY <2>2, TransferArrivesStep
    <2>. QED
        BY <1>4, <2>1, <2>2, DeleteWithdrawalStep DEF ReserveUser
<1>5. CASE OtherUser
    <2>1. CASE StartDownloadProposal(1) \/ ConfirmPay(1) \/ StartDownloadProposal(3)
        BY <1>0, <2>1, RequestSteps
    <2>2. CASE CreateDepositGroup(Price[1]) \/ PrepareTip
        BY <2>2, RequestSteps
    <2>. QED
        BY <1>5, <2>1, <2>2, RevokeDenominationStep, StoreTipStep, AcceptTipStep, AutoRefreshStep
        DEF OtherUser
<1>. QED
    BY <1>1, <1>2, <1>3, <1>4, <1>5

(* Every step, and every stutter, keeps the invariant and leaves spent coins spent. *)
LEMMA NextStep ==
    ASSUME WalletInv, [Next]_vars
    PROVE  WalletInv' /\ StaysSpent
<1>1. CASE Next
    BY <1>1, BackgroundStep, UserStep DEF Next
<1>2. CASE UNCHANGED vars
    BY <1>2, TasksStep DEF vars
<1>. QED
    BY <1>1, <1>2

(* The tables of the wallet fit together, and fit what its promises and the exchange know, after   *)
(* any interleaving of the operations of operations/*.ts and any number of crashes.              *)
THEOREM WalletTables == Spec => []WalletInv
<1>1. Init => WalletInv
    BY InitInv
<1>2. WalletInv /\ [Next]_vars => WalletInv'
    BY NextStep
<1>. QED
    BY <1>1, <1>2, PTL DEF Spec

(* The tables know the planchet, tip or session of everything signed or melted. *)
LEMMA TablesSayDerivable ==
    ASSUME TablesInv
    PROVE  SignedIsDerivable
<1>1. ASSUME NEW c \in exchange.signed \ {WithdrawnElsewhere}
      PROVE  IF SourceOf(c) = "withdraw" THEN c \in DOMAIN db.planchets ELSE c[2] \in DOMAIN db.tips
    BY DEF TablesInv, WithdrawInv, TipInv
<1>2. ASSUME NEW m \in exchange.melts
      PROVE  LET sessions == db.refreshGroups[m.session[1]].session
             IN m.session[2] \in DOMAIN sessions /\ sessions[m.session[2]].seed = m.seed
    BY DEF TablesInv, RefreshInv
<1>. QED
    BY <1>1, <1>2 DEF SignedIsDerivable

(* The tables have, or still expect, everything that is owed to the wallet. *)
LEMMA TablesSayNothingForgotten ==
    ASSUME TablesInv
    PROVE  NothingForgotten
<1>1. ASSUME NEW c \in exchange.signed \ (DOMAIN db.coins \cup {WithdrawnElsewhere})
      PROVE  IF SourceOf(c) = "withdraw"
             THEN ~db.withdrawalGroups[c[2]].finished
             ELSE db.tips[c[2]].accepted /\ ~db.tips[c[2]].pickedUp
    BY DEF TablesInv, WithdrawInv, TipInv
<1>2. ASSUME NEW m \in exchange.melts
      PROVE  \/ RefreshCoin(m.session[1], m.session[2]) \in DOMAIN db.coins \cup raced
             \/ db.refreshGroups[m.session[1]].state = "active"
    <2>. PICK g, i : g = m.session[1] /\ i = m.session[2]
        OBVIOUS
    <2>. PICK rg : rg = db.refreshGroups[g]
        OBVIOUS
    <2>1. /\ g \in DOMAIN db.refreshGroups /\ i \in DOMAIN rg.oldCoinPubs /\ RefreshShape(rg)
          /\ \A j \in DOMAIN rg.statusPerCoin : rg.statusPerCoin[j] = "Pending" => rg.state = "active"
          /\ RefreshCoin(g, i) \in DOMAIN db.coins \cup raced \/ rg.statusPerCoin[i] = "Pending"
        BY DEF TablesInv, RefreshInv
    <2>. QED
        BY <2>1 DEF RefreshShape
<1>3. ASSUME NEW r \in exchange.recoups
      PROVE  \E k \in Recoups :
                 CoinOf(k) = r.coin /\ (IsFinished(k) \/ ~db.recoupGroups[k[1]].finished)
    <2>1. PICK k \in Recoups : CoinOf(k) = r.coin
        BY DEF TablesInv, RecoupInv
    <2>2. PICK g \in DOMAIN db.recoupGroups : k \in RecoupKeys(g)
        BY DEF Recoups
    <2>3. k[1] = g /\ k[2] \in DOMAIN db.recoupGroups[g].coinPubs
        BY <2>2 DEF RecoupKeys
    <2>4. IsFinished(k) \/ ~db.recoupGroups[k[1]].finished
        BY <2>3 DEF TablesInv, RecoupInv, IsFinished
    <2>. QED
        BY <2>1, <2>4
<1>4. \A o \in Purchases : db.purchases[o].abortStatus = "AbortRefund"
                           => db.purchases[o].refundQueryRequested
    BY DEF TablesInv, PurchaseInv, PurchaseOk, Purchases
<1>5. \A g \in DOMAIN db.depositGroups : db.depositGroups[g].finished
          => \A c \in DOMAIN db.depositGroups[g].payCoinSelection :
                \E p \in exchange.deposits : p.contract = DepositContract(g) /\ p.coin = c
    BY DEF TablesInv, DepositInv, HasDeposit
<1>. QED
    BY <1>1, <1>2, <1>3, <1>4, <1>5 DEF NothingForgotten

(* Whatever the exchange has signed or melted for the wallet can be derived again from its tables: *)
(* the planchet, the tip or the session with its seed was stored before the request was made.      *)
THEOREM Derivable == Spec => []SignedIsDerivable
<1>1. WalletInv => SignedIsDerivable
    BY TablesSayDerivable DEF WalletInv
<1>. QED
    BY <1>1, WalletTables, PTL

(* What the exchange or the merchant owes the wallet is in its tables of coins and refunds, or an  *)
(* operation is pending for it, unless a race listed in the README has hit the session.            *)
THEOREM Remembered == Spec => []NothingForgotten
<1>1. WalletInv => NothingForgotten
    BY TablesSayNothingForgotten DEF WalletInv
<1>. QED
    BY <1>1, WalletTables, PTL

(* No step makes a coin that was spent, melted or recouped Fresh again, unless a race marks it.     *)
THEOREM SpentOnceOnly == Spec => SpentStaysSpent
<1>1. WalletInv /\ [Next]_vars =>
          [\A c \in DOMAIN db.coins :
              db.coins[c].status = "Dormant" /\ db'.coins[c].status = "Fresh" => c \in raced']_vars
    BY NextStep DEF StaysSpent
<1>. QED
    BY <1>1, WalletTables, PTL DEF Spec, SpentStaysSpent
=============================================================================
