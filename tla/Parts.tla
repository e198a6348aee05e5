------------------------------------- MODULE Parts -------------------------------------
(* Parts that share no state with each other, nor with the other compositions, side by        *)
(* side: a behaviour is one of one part, and the others are idle.                  *)
EXTENDS IndexedStore, RecoveryReducer, BackupSync, TaskLoop, CoinSelection, TruthUpload, Cursors, IbanHelper

CONSTANTS PartNames     \* a subset of {"store", "reducer", "sync", "tasks", "selection", "truth", "cursor", "helper"}

VARIABLES part

vars == <<part, storeVars, reducerVars, syncVars, taskVars, payment, truthVars, cursorVars, helperVars>>

Init ==
    /\ part \in PartNames
    /\ IF part = "store" THEN StoreInit ELSE StoreIdle
    /\ IF part = "reducer" THEN RecoveryInit ELSE RecoveryIdle
    /\ IF part = "sync" THEN SyncInit ELSE SyncIdle
    /\ IF part = "tasks" THEN TasksInit ELSE TasksIdle
    /\ SelectionIdle
    /\ IF part = "truth" THEN TruthInit ELSE TruthIdle
    /\ IF part = "cursor" THEN CursorInit ELSE CursorIdle
    /\ IF part = "helper" THEN HelperInit ELSE HelperIdle

Next ==
    /\ UNCHANGED part
    /\ \/ /\ part = "store" /\ StoreNext
          /\ UNCHANGED <<reducerVars, syncVars, taskVars, payment, truthVars, cursorVars, helperVars>>
       \/ /\ part = "reducer" /\ ReducerNext
          /\ UNCHANGED <<storeVars, syncVars, taskVars, payment, truthVars, cursorVars, helperVars>>
       \/ /\ part = "sync" /\ SyncNext
          /\ UNCHANGED <<storeVars, reducerVars, taskVars, payment, truthVars, cursorVars, helperVars>>
       \/ /\ part = "tasks" /\ TasksNext
          /\ UNCHANGED <<storeVars, reducerVars, syncVars, payment, truthVars, cursorVars, helperVars>>
       \/ /\ part = "selection" /\ SelectionNext
          /\ UNCHANGED <<storeVars, reducerVars, syncVars, taskVars, truthVars, cursorVars, helperVars>>
       \/ /\ part = "truth" /\ TruthNext
          /\ UNCHANGED <<storeVars, reducerVars, syncVars, taskVars, payment, cursorVars, helperVars>>
       \/ /\ part = "cursor" /\ CursorNext
          /\ UNCHANGED <<storeVars, reducerVars, syncVars, taskVars, payment, truthVars, helperVars>>
       \/ /\ part = "helper" /\ HelperNext
          /\ UNCHANGED <<storeVars, reducerVars, syncVars, taskVars, payment, truthVars, cursorVars>>

Spec == Init /\ [][Next]_vars /\ StoreFairness /\ TasksFairness /\ HelperFairness
=============================================================================
