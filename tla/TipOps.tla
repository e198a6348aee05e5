---------------------------------- MODULE TipOps ----------------------------------
(* operations/tip.ts: the coins of a merchant's tip are derived from the seed   *)
(* of the tip's record. There is one tip; merchant.tip is the record whose      *)
(* planchets the merchant had signed.                                          *)
EXTENDS WalletStores

TipCoins(r) == {TipCoin(r, i) : i \in 1 .. db.tips[r].count}

(* prepareTip: the tip is looked up, the merchant asked, and a record stored     *)
(* with a new seed; nothing looks again whether there is one by now.            *)
PrepareTip ==
    /\ db.tips = <<>>
    /\ Start("prepareTip", 1, "store", Nil)
    /\ UNCHANGED <<db, exchange, merchant, bank, raced, scene>>

StoreTip(t, count) ==
    /\ At(t, "prepareTip", "store")
    /\ \/ /\ Offered # {}
          /\ db' = [db EXCEPT !.tips = Append(@,
                       [accepted |-> FALSE, pickedUp |-> FALSE, count |-> count, denom |-> NewDenom])]
       \/ UNCHANGED db
    /\ Done(t)
    /\ UNCHANGED <<exchange, merchant, bank, raced, scene>>

AcceptTip(r) ==
    /\ ~db.tips[r].accepted
    /\ db' = [db EXCEPT !.tips[r].accepted = TRUE]
    /\ Start("tip", r, "pickup", Nil)
    /\ UNCHANGED <<exchange, merchant, bank, raced, scene>>

(* processTip, which has no memo: from the list of pending operations           *)
ProcessTip(r) ==
    /\ db.tips[r].accepted /\ ~db.tips[r].pickedUp
    /\ Start("tip", r, "pickup", Nil)
    /\ UNCHANGED <<db, exchange, merchant, bank, raced, scene>>

(* processTipImpl, POST /pickup: the merchant has the planchets signed unless   *)
(* the tip was given away for others.                                          *)
PickupTip(t) ==
    /\ At(t, "tip", "pickup")
    /\ \/ /\ merchant.tip \in {Nil, Key(t)}
          /\ merchant' = [merchant EXCEPT !.tip = Key(t)]
          /\ exchange' = [exchange EXCEPT !.signed = @ \cup TipCoins(Key(t))]
          /\ (Goto(t, "signed", Nil) \/ Done(t))
       \/ UNCHANGED <<exchange, merchant>> /\ Done(t)
    /\ UNCHANGED <<db, bank, raced, scene>>

WithTipCoins(r) ==
    [db EXCEPT !.tips[r].pickedUp = TRUE,
               !.coins = Stored(@, TipCoins(r), FreshCoin(CoinValue, db.tips[r].denom))]

(* The coins are stored once, by the first promise that gets there.             *)
TipPickedUp(r) == IF db.tips[r].pickedUp THEN db ELSE WithTipCoins(r)

StoreTipCoins(t) ==
    /\ At(t, "tip", "signed")
    /\ db' = TipPickedUp(Key(t))
    /\ Done(t)
    /\ UNCHANGED <<exchange, merchant, bank, raced, scene>>

TipNext ==
    \/ \E r \in DOMAIN db.tips : ProcessTip(r)
    \/ \E t \in tasks : PickupTip(t) \/ StoreTipCoins(t)
=============================================================================
