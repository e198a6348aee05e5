-------------------------------- MODULE RefreshOps --------------------------------
(* operations/refresh.ts: a refresh group turns what is left of spent coins    *)
(* into new coins. Each coin of the group has a session: it is created, melted *)
(* at the exchange and revealed. A read of the database and the request that   *)
(* follows it are one step: a session never changes once it is stored.         *)
EXTENDS WalletStores

Group(t) == db.refreshGroups[Key(t)[1]]
Index(t) == Key(t)[2]
SessionKeys(g) == {<<g, i>> : i \in DOMAIN db.refreshGroups[g].oldCoinPubs}

(* Mutant: coins that are pending do not count.                                *)
FinishedUnlessFrozen(rg) ==
    [rg EXCEPT !.state = IF "Frozen" \in Range(rg.statusPerCoin) THEN "frozen" ELSE "finished"]

(* updateGroupStatus *)
UpdateGroupStatus(rg) ==
    LET st == Range(rg.statusPerCoin) IN
    [rg EXCEPT !.state = IF "Pending" \in st THEN @
                         ELSE IF "Frozen" \in st THEN "frozen" ELSE "finished"]

SetCoinStatus(rg, i, s) == UpdateGroupStatus([rg EXCEPT !.statusPerCoin[i] = s])
PutGroup(t, rg) == [db EXCEPT !.refreshGroups[Key(t)[1]] = rg]

(* processRefreshSession: a session continues where the database says it is.    *)
SessionTask(k) ==
    LET s == db.refreshGroups[k[1]].session IN
    Task("session", k, IF k[2] \notin DOMAIN s THEN "create"
                       ELSE IF s[k[2]].melted THEN "reveal" ELSE "melt", Nil)

Unfinished(g) == {k \in SessionKeys(g) : db.refreshGroups[g].statusPerCoin[k[2]] # "Finished"}

(* processRefreshGroup: one promise for each coin, under the memo of the group. *)
ProcessRefreshGroup(g) ==
    /\ db.refreshGroups[g].state = "active"
    /\ ~Memoized("session", SessionKeys(g))
    /\ HasRoom(Cardinality(Unfinished(g)), "session", Unfinished(g))
    /\ tasks' = tasks \cup {SessionTask(k) : k \in Unfinished(g)}
    /\ UNCHANGED <<db, exchange, merchant, bank, raced, scene>>

RejectSession(t) == Reject(t, SessionKeys(Key(t)[1]))

HasSession(t) == Index(t) \in DOMAIN Group(t).session

NewSession(t, output) ==
    PutGroup(t, [Group(t) EXCEPT !.session = Stored(@, {Index(t)},
        [seed |-> Number(t), output |-> output, denom |-> NewDenom, melted |-> FALSE])])

(* The session of an earlier promise is kept.                                  *)
WithSession(t, output) == IF HasSession(t) THEN db ELSE NewSession(t, output)

(* refreshCreateSession: the exchange was updated in between. The secret seed   *)
(* is random; n is enough to tell the seeds of overlapping promises apart. When  *)
(* nothing is left to refresh to, nobody looks whether there is a session by now. *)
RefreshCreateSession(t) ==
    LET i == Index(t)
        available == IF Offered = {} THEN 0 ELSE Sub(Group(t).inputPerCoin[i], RefreshFee) IN
    /\ At(t, "session", "create")
    /\ IF available = 0
       THEN /\ db' = PutGroup(t, SetCoinStatus(Group(t), i, "Finished"))
            /\ IF HasSession(t) THEN Goto(t, "melt", Nil) ELSE Done(t)
            /\ raced' = IF HasSession(t) THEN raced \cup {RefreshCoin(Key(t)[1], Key(t)[2])} ELSE raced
       ELSE /\ db' = WithSession(t, available)
            /\ Goto(t, "melt", Nil)
            /\ UNCHANGED raced
    /\ UNCHANGED <<exchange, merchant, bank, scene>>

(* The exchange's answer to a melt: a known commitment is confirmed again.      *)
MeltOf(t) == [coin |-> Group(t).oldCoinPubs[Index(t)], session |-> Key(t),
              seed |-> Group(t).session[Index(t)].seed]
KnownMelt(t) == \E m \in exchange.melts :
                    [coin |-> m.coin, session |-> m.session, seed |-> m.seed] = MeltOf(t)
MeltAccepted(t) == \/ KnownMelt(t)
                   \/ Group(t).inputPerCoin[Index(t)] <= Remaining(MeltOf(t).coin)
ExchangeMelt(t) ==
    IF KnownMelt(t) THEN exchange
    ELSE [exchange EXCEPT !.melts = @ \cup
             {[coin |-> MeltOf(t).coin, session |-> Key(t), seed |-> MeltOf(t).seed,
               amount |-> Group(t).inputPerCoin[Index(t)], revealed |-> FALSE, returned |-> 0]}]

(* refreshMelt, to the exchange's answer: confirmed, not found, or refused,     *)
(* lost or too late, which all end in an exception.                             *)
RefreshMelt(t) ==
    /\ At(t, "session", "melt")
    /\ IF Group(t).session[Index(t)].melted
       THEN Goto(t, "reveal", Nil) /\ UNCHANGED exchange
       ELSE \/ MeltAccepted(t) /\ exchange' = ExchangeMelt(t)
               /\ (Goto(t, "melted", Nil) \/ RejectSession(t))
            \/ ~KnownMelt(t) /\ Goto(t, "notFound", Nil) /\ UNCHANGED exchange
            \/ RejectSession(t) /\ UNCHANGED exchange
    /\ raced' = IF exchange' # exchange /\ Group(t).statusPerCoin[Index(t)] # "Pending"
                THEN raced \cup {RefreshCoin(Key(t)[1], Key(t)[2])} ELSE raced
    /\ UNCHANGED <<db, merchant, bank, scene>>

(* refreshMelt on 404; refreshReveal, which follows, throws.                    *)
MeltNotFound(t) ==
    /\ At(t, "session", "notFound")
    /\ db' = IF Group(t).state = "finished" \/ Group(t).statusPerCoin[Index(t)] # "Pending"
             THEN db ELSE PutGroup(t, SetCoinStatus(Group(t), Index(t), "Frozen"))
    /\ raced' = IF KnownMelt(t) THEN raced \cup {RefreshCoin(Key(t)[1], Key(t)[2])} ELSE raced
    /\ Goto(t, "reveal", Nil)
    /\ UNCHANGED <<exchange, merchant, bank, scene>>

(* refreshMelt, the transaction that stores norevealIndex *)
StoreMelt(t) ==
    /\ At(t, "session", "melted")
    /\ db' = IF Group(t).state = "finished" THEN db
             ELSE PutGroup(t, [Group(t) EXCEPT !.session[Index(t)].melted = TRUE])
    /\ Goto(t, "reveal", Nil)
    /\ UNCHANGED <<exchange, merchant, bank, raced, scene>>

(* refreshReveal, to the exchange's answer *)
RefreshReveal(t) ==
    /\ At(t, "session", "reveal")
    /\ \/ /\ Group(t).session[Index(t)].melted
          /\ exchange' = [exchange EXCEPT !.melts =
                 {IF m.session = Key(t) /\ m.seed = MeltOf(t).seed
                  THEN [m EXCEPT !.revealed = TRUE] ELSE m : m \in @}]
          /\ (Goto(t, "revealed", Nil) \/ RejectSession(t))
       \/ UNCHANGED exchange /\ RejectSession(t)
    /\ UNCHANGED <<db, merchant, bank, raced, scene>>

(* refreshReveal, the transaction that stores the new coins. Nothing in it      *)
(* looks whether they are stored already.                                       *)
StoreRevealedCoins(t) ==
    LET c == RefreshCoin(Key(t)[1], Key(t)[2])
        s == Group(t).session[Index(t)] IN
    /\ At(t, "session", "revealed")
    /\ db' = [PutGroup(t, SetCoinStatus(Group(t), Index(t), "Finished")) EXCEPT
                 !.coins = Stored(@, {c}, FreshCoin(s.output, s.denom))]
    /\ raced' = IF c \in DOMAIN db.coins THEN raced \cup {c} ELSE raced
    /\ Done(t)
    /\ UNCHANGED <<exchange, merchant, bank, scene>>

(* autoRefresh: the coins of a denomination that is about to expire             *)
AutoRefresh(d) ==
    LET due == {c \in DOMAIN db.coins : db.coins[c].denom = d /\ db.coins[c].status = "Fresh"} IN
    /\ due # {} /\ GroupsLeft(1)
    /\ db' = CreateRefreshGroup(db, SetToSeq(due))
    /\ UNCHANGED <<tasks, exchange, merchant, bank, raced, scene>>

RefreshNext ==
    \/ \E g \in DOMAIN db.refreshGroups : ProcessRefreshGroup(g)
    \/ \E t \in tasks :
          \/ RefreshCreateSession(t) \/ RefreshMelt(t)
          \/ MeltNotFound(t) \/ StoreMelt(t) \/ RefreshReveal(t) \/ StoreRevealedCoins(t)
=============================================================================
