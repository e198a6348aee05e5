-------------------------------- MODULE ReserveOps --------------------------------
(* operations/reserves.ts and withdraw.ts: a reserve is registered with the     *)
(* bank, its balance is asked at the exchange, and what is not claimed yet is   *)
(* withdrawn in a withdrawal group, coin by coin. There is one reserve, and     *)
(* one value of coins.                                                         *)
EXTENDS WalletStores

Update(r) == db' = [db EXCEPT !.reserve = r]
ToConfirm(s) == s \in {"REGISTERING_BANK", "WAIT_CONFIRM_BANK"}

PlannedCoins(g) == {WithdrawCoin(g, i) : i \in 1 .. db.withdrawalGroups[g].count}
Credits == exchange.reserve.credit + SumFunction([r \in exchange.recoups |-> r.toReserve])
Withdrawn == {c \in exchange.signed : SourceOf(c) = "withdraw"}

-----------------------------------------------------------------------------
(* External: the user confirms the withdrawal at the bank, or aborts it; the   *)
(* bank's transfer arrives at the exchange.                                    *)
BankConfirms ==
    /\ bank.selected /\ ~bank.aborted /\ ~bank.transferred
    /\ bank' = [bank EXCEPT !.transferred = TRUE]
    /\ UNCHANGED <<db, tasks, exchange, merchant, raced, scene>>

BankAborts ==
    /\ ~bank.transferred /\ ~bank.aborted
    /\ bank' = [bank EXCEPT !.aborted = TRUE]
    /\ UNCHANGED <<db, tasks, exchange, merchant, raced, scene>>

TransferArrives(amount) ==
    /\ bank.transferred /\ exchange.reserve.credit = 0
    /\ exchange' = [exchange EXCEPT !.reserve.credit = amount]
    /\ UNCHANGED <<db, tasks, merchant, bank, raced, scene>>

-----------------------------------------------------------------------------
(* processReserveImpl: one promise for the reserve, under its memo             *)
Stage(s) == CASE ToConfirm(s) -> "bank" [] s = "QUERYING_STATUS" -> "query" [] OTHER -> "end"
IsActive(r) == Stage(r.status) # "end"

(* createReserve for a bank's withdrawal operation; a second call for the same *)
(* operation finds the reserve.                                                *)
CreateReserve ==
    /\ IF db.reserve.status = "none"
       THEN Update([db.reserve EXCEPT !.status = "REGISTERING_BANK"]) ELSE UNCHANGED db
    /\ ~Memoized("reserve", {1})
    /\ IF IsActive(db'.reserve) THEN Start("reserve", 1, Stage(db'.reserve.status), FALSE)
       ELSE UNCHANGED tasks
    /\ UNCHANGED <<exchange, merchant, bank, raced, scene>>

ProcessReserve ==
    /\ IsActive(db.reserve) /\ ~Memoized("reserve", {1})
    /\ Start("reserve", 1, Stage(db.reserve.status), db.reserve.status = "REGISTERING_BANK")
    /\ UNCHANGED <<db, exchange, merchant, bank, raced, scene>>

ForceQueryReserve ==
    LET r == db.reserve
        asked == IF r.status = "DORMANT" THEN [r EXCEPT !.status = "QUERYING_STATUS"]
                 ELSE [r EXCEPT !.requestedQuery = TRUE] IN
    /\ r.status # "none" /\ Update(asked)
    /\ IF Memoized("reserve", {1}) \/ ~IsActive(asked) THEN UNCHANGED tasks
       ELSE Start("reserve", 1, Stage(asked.status), FALSE)
    /\ UNCHANGED <<exchange, merchant, bank, raced, scene>>

(* The promise looks at the reserve again, or ends.                            *)
Again(t, r) == IF IsActive(r) THEN Goto(t, Stage(r.status), FALSE) ELSE Done(t)

(* processReserveBankStatusImpl, to the bank's answer. It remembers the status *)
(* that the reserve had before the request.                                    *)
BankStatus(t) ==
    /\ At(t, "reserve", "bank")
    /\ IF ToConfirm(db.reserve.status)
       THEN Goto(t, "bankAnswer", [local |-> db.reserve.status, answer |-> bank]) \/ Done(t)
       ELSE Again(t, db.reserve)
    /\ UNCHANGED <<db, exchange, merchant, bank, raced, scene>>

StoreBankStatus(t) ==
    LET a == Loc(t).answer
        r == db.reserve
        register == ~a.aborted /\ (~a.selected \/ Loc(t).local = "REGISTERING_BANK")
        new == IF ~ToConfirm(r.status) \/ register THEN r
               ELSE IF a.aborted THEN [r EXCEPT !.status = "BANK_ABORTED"]
               ELSE IF a.transferred THEN [r EXCEPT !.status = "QUERYING_STATUS"] ELSE r IN
    /\ At(t, "reserve", "bankAnswer")
    /\ Update(new)
    /\ IF register THEN Goto(t, "register", Nil)
       ELSE IF new.status = "QUERYING_STATUS" THEN Again(t, new) \/ Done(t) ELSE Done(t)
    /\ UNCHANGED <<exchange, merchant, bank, raced, scene>>

(* registerReserveWithBank: the request and the transaction after its answer   *)
PostRegistration(t) ==
    /\ At(t, "reserve", "register")
    /\ \/ /\ ToConfirm(db.reserve.status) /\ ~bank.aborted
          /\ bank' = [bank EXCEPT !.selected = TRUE]
          /\ (Goto(t, "registered", Nil) \/ Done(t))
       \/ Done(t) /\ UNCHANGED bank
    /\ UNCHANGED <<db, exchange, merchant, raced, scene>>

StoreRegistration(t) ==
    /\ At(t, "reserve", "registered")
    /\ Update(IF ToConfirm(db.reserve.status)
              THEN [db.reserve EXCEPT !.status = "WAIT_CONFIRM_BANK"] ELSE db.reserve)
    /\ Goto(t, "bank", Nil)
    /\ UNCHANGED <<exchange, merchant, bank, raced, scene>>

(* updateReserve, to the exchange's answer: the history of the reserve, or     *)
(* unknown                                                                     *)
QueryReserve(t) ==
    /\ At(t, "reserve", "query")
    /\ IF db.reserve.status # "QUERYING_STATUS" THEN Again(t, db.reserve)
       ELSE \/ /\ Credits > 0
               /\ Goto(t, "history", [plus |-> Credits, withdrawn |-> Withdrawn])
            \/ Done(t)
    /\ UNCHANGED <<db, exchange, merchant, bank, raced, scene>>

(* updateReserve, its transaction: what is left is what came in, less what the *)
(* withdrawal groups claim, less withdrawals of coins that have no planchet.   *)
(* The withdrawal group is processed inside the promise.                       *)
Claims == SumFunction([g \in DOMAIN db.withdrawalGroups |->
              IF db.withdrawalGroups[g].deleted THEN 0 ELSE CoinValue * db.withdrawalGroups[g].count])

(* Mutant: what other devices withdrew is not seen.                            *)
UnclaimedHere(history) == Sub(history.plus, Claims)

Unclaimed(history) ==
    LET unknown == {c \in history.withdrawn : c \notin DOMAIN db.planchets}
    IN Sub(history.plus, Claims + CoinValue * Cardinality(unknown))

StoreReserve(t) ==
    LET count == IF Offered = {} THEN 0 ELSE Unclaimed(Loc(t)) \div CoinValue
        g == Len(db.withdrawalGroups) + 1
        dormant == [db.reserve EXCEPT !.status = "DORMANT"] IN
    /\ At(t, "reserve", "history")
    /\ IF count = 0 THEN Update(dormant) /\ Done(t)
       ELSE /\ g <= MaxGroups[scene]
            /\ db' = [db EXCEPT !.reserve = dormant, !.withdrawalGroups = Append(@,
                        [count |-> count, denom |-> NewDenom, finished |-> FALSE, deleted |-> FALSE])]
            /\ HasRoom(1, "withdraw", {g})
            /\ tasks' = (tasks \ {t}) \cup {MovedTo(t, "withdraw", g),
                                            Task("withdraw", g, "generate", 1 .. count)}
    /\ UNCHANGED <<exchange, merchant, bank, raced, scene>>

(* The withdrawal that the reserve's promise waits for has ended, or failed.   *)
AfterWithdraw(t) ==
    /\ At(t, "reserve", "withdraw")
    /\ Running("withdraw", Loc(t)) = {}
    /\ IF db.withdrawalGroups[Loc(t)].finished THEN Again(t, db.reserve) ELSE Done(t)
    /\ UNCHANGED <<db, exchange, merchant, bank, raced, scene>>

-----------------------------------------------------------------------------
(* processWithdrawGroup, which has no memo: from the list of pending operations *)
ProcessWithdrawGroup(g) ==
    /\ ~db.withdrawalGroups[g].finished /\ ~db.withdrawalGroups[g].deleted
    /\ Start("withdraw", g, "generate", 1 .. db.withdrawalGroups[g].count)
    /\ UNCHANGED <<db, exchange, merchant, bank, raced, scene>>

(* processPlanchetGenerate; one promise per coin, in any order                 *)
PlanchetGenerate(t) ==
    /\ At(t, "withdraw", "generate")
    /\ \E i \in Loc(t) :
        /\ db' = [db EXCEPT !.planchets = Stored(@, {WithdrawCoin(Key(t), i)} \ DOMAIN @, "pending")]
        /\ IF Loc(t) = {i} THEN Goto(t, "request", [next |-> 1, got |-> {}])
           ELSE Goto(t, "generate", Loc(t) \ {i})
    /\ UNCHANGED <<exchange, merchant, bank, raced, scene>>

(* processPlanchetExchangeRequest, one coin after the other: the exchange signs, *)
(* or an answer is an error and the coin is skipped, or the request fails and    *)
(* no more are made.                                                           *)
FundsFor(c) == c \in exchange.signed
               \/ CoinValue * (Cardinality(Withdrawn) + 1) <= Credits

PlanchetRequest(t) ==
    LET i == Loc(t).next
        c == WithdrawCoin(Key(t), i)
        skip == [Loc(t) EXCEPT !.next = i + 1] IN
    /\ At(t, "withdraw", "request") /\ i <= db.withdrawalGroups[Key(t)].count
    /\ IF db.withdrawalGroups[Key(t)].deleted \/ db.planchets[c] = "done" THEN Goto(t, "request", skip) /\ UNCHANGED exchange
       ELSE \/ /\ FundsFor(c)
               /\ exchange' = [exchange EXCEPT !.signed = @ \cup {c}]
               /\ (Goto(t, "request", [skip EXCEPT !.got = @ \cup {i}])
                   \/ Goto(t, "failed", Loc(t)))
            \/ Goto(t, "request", skip) /\ UNCHANGED exchange
    /\ UNCHANGED <<db, merchant, bank, raced, scene>>

(* processPlanchetVerifyAndStoreCoin, which runs while other coins are asked    *)
(* for, and after a request has failed                                         *)
Storing(t) == At(t, "withdraw", "request") \/ At(t, "withdraw", "failed")

StoreCoin(t) ==
    /\ Storing(t)
    /\ \E i \in Loc(t).got :
        LET c == WithdrawCoin(Key(t), i)
            g == db.withdrawalGroups[Key(t)] IN
        /\ db' = IF g.deleted \/ db.planchets[c] = "done" THEN db
                 ELSE [db EXCEPT !.planchets[c] = "done",
                                 !.coins = Stored(@, {c}, FreshCoin(CoinValue, g.denom))]
        /\ Goto(t, Pc(t), [Loc(t) EXCEPT !.got = @ \ {i}])
    /\ UNCHANGED <<exchange, merchant, bank, raced, scene>>

(* processWithdrawGroupImpl, its last transaction                               *)
FinishWithdraw(t) ==
    LET g == db.withdrawalGroups[Key(t)] IN
    /\ Storing(t) /\ Loc(t).got = {}
    /\ Pc(t) = "request" => Loc(t).next > g.count
    /\ db' = IF Pc(t) = "request" /\ ~g.deleted
                /\ \A c \in PlannedCoins(Key(t)) : db.planchets[c] = "done"
             THEN [db EXCEPT !.withdrawalGroups[Key(t)].finished = TRUE] ELSE db
    /\ Done(t)
    /\ UNCHANGED <<exchange, merchant, bank, raced, scene>>

(* deleteTransaction of a withdrawal (transactions.ts): the group goes, its     *)
(* planchets stay, so its coins are no longer claimed from the reserve.         *)
DeleteWithdrawal(g) ==
    /\ ~db.withdrawalGroups[g].deleted
    /\ db' = [db EXCEPT !.withdrawalGroups[g].deleted = TRUE]
    /\ raced' = raced \cup {<<"reserve", 1>>}
    /\ UNCHANGED <<tasks, exchange, merchant, bank, scene>>

ReserveNext ==
    \/ ProcessReserve
    \/ \E g \in DOMAIN db.withdrawalGroups : ProcessWithdrawGroup(g)
    \/ \E t \in tasks :
          \/ BankStatus(t) \/ StoreBankStatus(t) \/ PostRegistration(t) \/ StoreRegistration(t)
          \/ QueryReserve(t) \/ StoreReserve(t) \/ AfterWithdraw(t)
          \/ PlanchetGenerate(t) \/ PlanchetRequest(t) \/ StoreCoin(t) \/ FinishWithdraw(t)
=============================================================================
