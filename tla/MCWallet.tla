---------------------------------- MODULE MCWallet ----------------------------------
(* A small wallet for TLC: two orders for the same product, coins worth four,    *)
(* and one user's errand at a time.                                            *)
EXTENDS WalletProperties, TLC

MCPrice == 1 :> 6 @@ 2 :> 8 @@ 3 :> 1
MCMaxGroups == [s \in Scenes |-> IF s = "refund" THEN 3 ELSE IF s = "refresh" THEN 1 ELSE 2]
MCMaxTasks == [s \in Scenes |-> IF s = "refresh" THEN 3 ELSE 2]
MCProduct == 1 :> "article" @@ 2 :> "article" @@ 3 :> "other"
=============================================================================
