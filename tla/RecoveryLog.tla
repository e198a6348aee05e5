----------------------------- MODULE RecoveryLog -----------------------------
(***************************************************************************)
(* What the storage of recovery documents promises, without the requests,  *)
(* the payment protocol and the clock: every account has a log of          *)
(* documents that is only appended to; entry number v is version v.  No    *)
(* entry repeats the one before it.  Every entry uses up one of the        *)
(* uploads that its payment identifier stands for, which belongs to one    *)
(* account.  An identifier stands for PostCounter uploads, once, unless it *)
(* is forgotten, which happens only to one that has not been used.         *)
(***************************************************************************)
EXTENDS Naturals, Sequences

CONSTANTS Accounts, Hashes, Pids, PostCounter

VARIABLES
    log,    \* per account, the hashes of its documents
    grants  \* per identifier, the account and the uploads left
vars == <<log, grants>>

NoGrant == [account |-> "none", left |-> 0]

Init ==
    /\ log = [a \in Accounts |-> <<>>]
    /\ grants = [p \in Pids |-> NoGrant]

\* A new identifier is recorded for an account.
Grant(a, p) ==
    /\ grants[p] = NoGrant
    /\ grants' = [grants EXCEPT ![p] = [account |-> a, left |-> PostCounter]]
    /\ UNCHANGED log

\* Identifiers are forgotten that nobody has used.
Forget(ps) ==
    /\ \A p \in ps : grants[p] # NoGrant /\ grants[p].left = PostCounter
    /\ grants' = [p \in Pids |-> IF p \in ps THEN NoGrant ELSE grants[p]]
    /\ UNCHANGED log

\* A document is stored that differs from the one before.
Store(a, h, p) ==
    /\ grants[p].account = a /\ grants[p].left > 0
    /\ log[a] = <<>> \/ log[a][Len(log[a])] # h
    /\ log' = [log EXCEPT ![a] = Append(@, h)]
    /\ grants' = [grants EXCEPT ![p].left = @ - 1]

Next ==
    \/ \E a \in Accounts, p \in Pids : Grant(a, p) \/ \E h \in Hashes : Store(a, h, p)
    \/ \E ps \in SUBSET Pids : Forget(ps)

Spec == Init /\ [][Next]_vars
=============================================================================
