--------------------------------- MODULE RecoupOps ---------------------------------
(* operations/recoup.ts and the part of exchanges.ts that starts it: when the   *)
(* exchange revokes a denomination, the wallet gets the money of its coins back *)
(* into the reserve, or onto the coin that a refreshed coin was made from.      *)
EXTENDS WalletStores

RecoupKeys(g) == {<<g, i>> : i \in DOMAIN db.recoupGroups[g].coinPubs}
Recoup(t) == db.recoupGroups[Key(t)[1]]
RecoupedCoin(t) == Recoup(t).coinPubs[Key(t)[2]]
OldCoin(c) == db.refreshGroups[c[2]].oldCoinPubs[c[3]]

(* createRecoupGroup: a coin without money is finished; of the others the       *)
(* amount moves into the group. Their status stays.                            *)
CreateRecoupGroup(d, cs) ==
    LET finished == {i \in DOMAIN cs : d.coins[cs[i]].currentAmount = 0} IN
    [d EXCEPT
       !.coins = [c \in DOMAIN d.coins |-> IF c \in Range(cs) THEN [d.coins[c] EXCEPT !.currentAmount = 0]
                                           ELSE d.coins[c]],
       !.recoupGroups = Append(@,
           [coinPubs |-> cs,
            oldAmountPerCoin |-> [i \in DOMAIN cs |-> d.coins[cs[i]].currentAmount],
            finishedPerCoin |-> finished, scheduleRefreshCoins |-> {},
            finished |-> cs # <<>> /\ finished = DOMAIN cs])]

(* updateExchangeFromUrlImpl, its transaction: the coins of a denomination that *)
(* was revoked since the last update. Later coins of it are not recouped.       *)
RevokeDenomination(dn) ==
    LET affected == {c \in DOMAIN db.coins : db.coins[c].denom = dn}
        revoked == [db EXCEPT !.revoked = @ \cup {dn}] IN
    /\ dn \notin db.revoked
    /\ db' = IF affected = {} THEN revoked ELSE CreateRecoupGroup(revoked, SetToSeq(affected))
    /\ UNCHANGED <<tasks, exchange, merchant, bank, raced, scene>>

(* processRecoupGroup and processRecoup: one promise per coin, under the memo   *)
(* of the group. A coin of a tip cannot be recouped.                           *)
ProcessRecoupGroup(g) ==
    LET todo == {k \in RecoupKeys(g) : k[2] \notin db.recoupGroups[g].finishedPerCoin}
        task(k) == Task("recoup", k,
                        IF SourceOf(db.recoupGroups[g].coinPubs[k[2]]) = "tip" THEN "recouped" ELSE "post", Nil) IN
    /\ ~db.recoupGroups[g].finished
    /\ ~Memoized("recoup", RecoupKeys(g))
    /\ HasRoom(Cardinality(todo), "recoup", todo)
    /\ tasks' = tasks \cup {task(k) : k \in todo}
    /\ UNCHANGED <<db, exchange, merchant, bank, raced, scene>>

(* recoupWithdrawCoin and recoupRefreshCoin, to the exchange's answer. The       *)
(* exchange pays what is left of the coin, once, to the reserve or the old coin. *)
PostRecoup(t) ==
    LET c == RecoupedCoin(t)
        left == Remaining(c)
        known == \E r \in exchange.recoups : r.coin = c IN
    /\ At(t, "recoup", "post")
    /\ \/ /\ known \/ left > 0
          /\ exchange' =
                IF known THEN exchange
                ELSE [exchange EXCEPT
                  !.recoups = @ \cup {[coin |-> c, amount |-> left,
                       toReserve |-> IF SourceOf(c) = "withdraw" THEN left ELSE 0]},
                  !.melts = {IF SourceOf(c) = "refresh" /\ m.session = <<c[2], c[3]>>
                                /\ m.seed = db.refreshGroups[c[2]].session[c[3]].seed
                             THEN [m EXCEPT !.returned = left] ELSE m : m \in @}]
          /\ (Goto(t, "recouped", Nil) \/ Reject(t, RecoupKeys(Key(t)[1])))
       \/ UNCHANGED exchange /\ Reject(t, RecoupKeys(Key(t)[1]))
    /\ UNCHANGED <<db, merchant, bank, raced, scene>>

(* putGroupAsFinished: the last coin refreshes those that got money back.       *)
PutGroupAsFinished(d, g, i) ==
    LET rg == d.recoupGroups[g]
        done == rg.finishedPerCoin \cup {i}
        last == done = DOMAIN rg.coinPubs
        put == [d EXCEPT !.recoupGroups[g].finishedPerCoin = done, !.recoupGroups[g].finished = last] IN
    IF rg.finished THEN d
    ELSE IF last /\ rg.scheduleRefreshCoins # {}
    THEN CreateRefreshGroup(put, SetToSeq(rg.scheduleRefreshCoins)) ELSE put

(* The transactions of recoupTipCoin, recoupWithdrawCoin and recoupRefreshCoin.  *)
(* What a recoup of its change has put on a withdrawn coin meanwhile is wiped.   *)
StoreRecoup(t) ==
    LET g == Key(t)[1]
        i == Key(t)[2]
        c == RecoupedCoin(t)
        old == OldCoin(c)
        spent == [db.coins EXCEPT ![c].status = "Dormant"]
        emptied == [spent EXCEPT ![c].currentAmount = 0]
        credited == [spent EXCEPT ![old].currentAmount = @ + Recoup(t).oldAmountPerCoin[i]]
        asked == IF db.reserve.status = "DORMANT" THEN [db.reserve EXCEPT !.status = "QUERYING_STATUS"]
                 ELSE [db.reserve EXCEPT !.requestedQuery = TRUE]
        toReserve == [db EXCEPT !.coins = emptied, !.reserve = asked]
        lost == /\ i \notin Recoup(t).finishedPerCoin /\ SourceOf(c) = "withdraw"
                /\ db.coins[c].currentAmount # 0
        toOldCoin == [db EXCEPT !.coins = credited, !.recoupGroups[g].scheduleRefreshCoins = @ \cup {old}] IN
    /\ At(t, "recoup", "recouped")
    /\ GroupsLeft(1)
    /\ db' = IF i \in Recoup(t).finishedPerCoin THEN db
             ELSE PutGroupAsFinished(CASE SourceOf(c) = "tip" -> db
                                       [] SourceOf(c) = "withdraw" -> toReserve
                                       [] OTHER -> toOldCoin, g, i)
    /\ raced' = IF lost THEN raced \cup {c} ELSE raced
    /\ Done(t)
    /\ UNCHANGED <<exchange, merchant, bank, scene>>

RecoupNext ==
    \/ \E g \in DOMAIN db.recoupGroups : ProcessRecoupGroup(g)
    \/ \E t \in tasks : PostRecoup(t) \/ StoreRecoup(t)
=============================================================================
