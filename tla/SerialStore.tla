------------------------------- MODULE SerialStore -------------------------------
(* What a transactional database promises: transactions run one at a time, each on   *)
(* a view that starts as the content, and the content changes only when one of them   *)
(* commits, to the whole of its view.                                              *)
CONSTANTS Transactions, NoView
VARIABLES content, view

serialVars == <<content, view>>

SerialInit == view = [t \in Transactions |-> NoView]

Begin(t) ==
    /\ \A u \in Transactions : view[u] = NoView
    /\ view' = [view EXCEPT ![t] = content]
    /\ UNCHANGED content

(* Only the view of t may change.                                                 *)
Operate(t) ==
    /\ view[t] # NoView /\ view'[t] # NoView
    /\ view' = [view EXCEPT ![t] = view'[t]]
    /\ UNCHANGED content

CommitView(t) ==
    /\ view[t] # NoView
    /\ content' = view[t]
    /\ view' = [view EXCEPT ![t] = NoView]

AbortView(t) ==
    /\ view[t] # NoView
    /\ view' = [view EXCEPT ![t] = NoView]
    /\ UNCHANGED content

(* The process ends: no transaction is left, and what was committed still is.        *)
Vanish ==
    /\ view' = [t \in Transactions |-> NoView]
    /\ UNCHANGED content

SerialNext == Vanish \/ \E t \in Transactions : Begin(t) \/ Operate(t) \/ CommitView(t) \/ AbortView(t)

SerialSpec == SerialInit /\ [][SerialNext]_serialVars
=============================================================================
