-------------------------------- MODULE DepositOps --------------------------------
(* operations/deposits.ts: coins are deposited into the user's bank account,    *)
(* one request for each coin.                                                  *)
EXTENDS PayOps

DepositContract(g) == <<"deposit-group", g>>

(* createDepositGroup: the selection, and the transaction that spends it        *)
CreateDepositGroup(amount) ==
    LET sel == SelectPayCoins(<<>>, amount) IN
    /\ sel # Nil
    /\ Start("createDeposit", 1, "record", sel)
    /\ UNCHANGED <<db, exchange, merchant, bank, raced, scene>>

RecordDepositGroup(t) ==
    LET g == Len(db.depositGroups) + 1
        new == [payCoinSelection |-> Loc(t), depositedPerCoin |-> {}, finished |-> FALSE] IN
    /\ At(t, "createDeposit", "record")
    /\ IF SpendConflict(db, Loc(t), DepositContract(g)) THEN UNCHANGED <<db, raced>>
       ELSE /\ GroupsLeft(1)
            /\ raced' = raced \cup Skipped(db, Loc(t))
            /\ db' = [ApplyCoinSpend(db, Loc(t), DepositContract(g)) EXCEPT
                         !.depositGroups = Append(@, new)]
    /\ Done(t)
    /\ UNCHANGED <<exchange, merchant, bank, scene>>

(* processDepositGroup reads the group; the promise decides by what it read,    *)
(* also when it checks at the end whether everything was deposited.             *)
ProcessDepositGroup(g) ==
    LET dg == db.depositGroups[g] IN
    /\ ~dg.finished
    /\ ~Memoized("deposit", {g})
    /\ Start("deposit", g, "post", [read |-> dg.depositedPerCoin,
                                    left |-> DOMAIN dg.payCoinSelection \ dg.depositedPerCoin])
    /\ UNCHANGED <<db, exchange, merchant, bank, raced, scene>>

PostDeposit(t) ==
    LET dg == db.depositGroups[Key(t)]
        known(c) == \E p \in exchange.deposits : p.contract = DepositContract(Key(t)) /\ p.coin = c
        c == CHOOSE d \in Loc(t).left : TRUE IN
    /\ At(t, "deposit", "post") /\ Loc(t).left # {}
    /\ \/ /\ known(c) \/ dg.payCoinSelection[c] <= Remaining(c)
          /\ exchange' = IF known(c) THEN exchange
                         ELSE [exchange EXCEPT !.deposits = @ \cup
                                 {[contract |-> DepositContract(Key(t)), coin |-> c,
                                   amount |-> dg.payCoinSelection[c], refunded |-> Nil]}]
          /\ (Goto(t, "posted", Loc(t)) \/ Done(t))
       \/ UNCHANGED exchange /\ Done(t)
    /\ UNCHANGED <<db, merchant, bank, raced, scene>>

StoreDeposit(t) ==
    LET c == CHOOSE d \in Loc(t).left : TRUE IN
    /\ At(t, "deposit", "posted")
    /\ db' = [db EXCEPT !.depositGroups[Key(t)].depositedPerCoin = @ \cup {c}]
    /\ Goto(t, "post", [Loc(t) EXCEPT !.left = @ \ {c}])
    /\ UNCHANGED <<exchange, merchant, bank, raced, scene>>

FinishDepositGroup(t) ==
    /\ At(t, "deposit", "post") /\ Loc(t).left = {}
    /\ db' = [db EXCEPT !.depositGroups[Key(t)].finished =
                 @ \/ Loc(t).read = DOMAIN db.depositGroups[Key(t)].payCoinSelection]
    /\ Done(t)
    /\ UNCHANGED <<exchange, merchant, bank, raced, scene>>

DepositNext ==
    \/ \E g \in DOMAIN db.depositGroups : ProcessDepositGroup(g)
    \/ \E t \in tasks : \/ RecordDepositGroup(t) \/ PostDeposit(t) \/ StoreDeposit(t)
                        \/ FinishDepositGroup(t)
=============================================================================
