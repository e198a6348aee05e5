---------------------------- MODULE AccountTables ----------------------------
(***************************************************************************)
(* The tables anastasis_user, anastasis_recoverydocument and               *)
(* anastasis_recdoc_payment and the database calls on them                 *)
(* (stasis/plugin_anastasis_postgres.c), as operators from the old to the  *)
(* new contents of a table.                                                *)
(*   users: per account, its expiration date; 0 if it has no row           *)
(*   docs:  per account, its documents; version v is element v             *)
(*   pays:  per payment identifier, its rows, by a key (the column of      *)
(*          the identifier is not UNIQUE)                                  *)
(***************************************************************************)
EXTENDS Integers, Sequences, FiniteSets

HasUser(users, a) == users[a] # 0

NoRows == [i \in {} |-> 0]

PaymentRow(a, counter, now) ==
    [account |-> a, left |-> counter, paid |-> FALSE, created |-> now]

\* record_recdoc_payment is no transaction: first the user, if it is new ...
WithTransientUser(users, a, now, transient) ==
    IF HasUser(users, a) THEN users ELSE [users EXCEPT ![a] = now + transient]

\* ... then the payment.
WithPayment(pays, a, p, counter, now) ==
    LET new == CHOOSE n \in 1 .. Cardinality(DOMAIN pays[p]) + 1 : n \notin DOMAIN pays[p]
    IN  [pays EXCEPT ![p] = [i \in DOMAIN @ \cup {new} |-> IF i = new THEN PaymentRow(a, counter, now)
                                                           ELSE @[i]]]

\* The rows of a payment of an account; as a mutant of UnpaidRows, the statement
\* does not ask for "paid=FALSE".
RowsOf(pays, a, p) == {i \in DOMAIN pays[p] : pays[p][i].account = a}

\* Statement recdoc_payment_done: the rows it updates, and what it does.
UnpaidRows(pays, a, p) ==
    {i \in RowsOf(pays, a, p) : ~pays[p][i].paid}

WithPaid(pays, a, p) ==
    [pays EXCEPT ![p] = [i \in DOMAIN @ |-> IF i \in UnpaidRows(pays, a, p)
                                            THEN [@[i] EXCEPT !.paid = TRUE] ELSE @[i]]]

\* increment_lifetime.  If the payment was known as paid nothing changes, and
\* without a user that is an error.
IncrementFails(users, pays, a, p) == UnpaidRows(pays, a, p) = {} /\ ~HasUser(users, a)

Incremented(users, pays, a, p, lifetime, now) ==
    IF UnpaidRows(pays, a, p) = {} THEN users
    ELSE [users EXCEPT ![a] = (IF HasUser(users, a) THEN @ ELSE now) + lifetime]

\* update_lifetime.
Updated(users, pays, a, p, eol) ==
    IF UnpaidRows(pays, a, p) = {} THEN users
    ELSE [users EXCEPT ![a] = IF @ > eol THEN @ ELSE eol]

Latest(docs, a) == docs[a][Len(docs[a])]

\* Mutant: the statement orders by ascending versions.
IsFirst(docs, a, hash) == docs[a] # <<>> /\ docs[a][1].hash = hash

IsLatest(docs, a, hash) == docs[a] # <<>> /\ Latest(docs, a).hash = hash

\* Mutant: the counter of uploads is not looked at.
StoreStatusUnlimited(users, docs, pays, a, hash, p) ==
    CASE IsLatest(docs, a, hash) -> "same"
      [] ~IsLatest(docs, a, hash) /\ ~HasUser(users, a) -> "payment required"
      [] ~IsLatest(docs, a, hash) /\ HasUser(users, a) ->
            IF Cardinality(RowsOf(pays, a, p)) = 1 THEN "stored" ELSE "error"

\* store_recovery_document: the status it returns (hard errors as "error") ...
StoreStatus(users, docs, pays, a, hash, p) ==
    LET rows == RowsOf(pays, a, p)
    IN  CASE IsLatest(docs, a, hash) -> "same"
          [] ~IsLatest(docs, a, hash) /\ ~HasUser(users, a) -> "payment required"
          [] ~IsLatest(docs, a, hash) /\ HasUser(users, a) ->
                IF Cardinality(rows) # 1 THEN "error"
                ELSE IF \E i \in rows : pays[p][i].left = 0 THEN "limit exceeded"
                ELSE "stored"

\* Mutant: the version is not incremented.
LatestVersion(docs, a) == Len(docs[a])

\* ... the version it assigns then ...
NextVersion(docs, a) == Len(docs[a]) + 1

\* ... and what it writes.
WithDocument(docs, a, hash, p) ==
    [docs EXCEPT ![a] = Append(@, [hash |-> hash, pid |-> p])]

Spent(row) == [row EXCEPT !.left = @ - 1]

WithUploadSpent(pays, a, p) ==
    [pays EXCEPT ![p] = [i \in DOMAIN @ |-> IF @[i].account = a THEN Spent(@[i]) ELSE @[i]]]

\* gc.  Rows of the other tables refer to users and no reference cascades: the
\* DELETE fails as a whole if one of the users to be deleted is referred to,
\* and then the pending payments are not deleted either.
Referenced(docs, pays, a) ==
    docs[a] # <<>> \/ \E p \in DOMAIN pays : \E i \in DOMAIN pays[p] : pays[p][i].account = a

ExpiredUsers(users, before) == {a \in DOMAIN users : HasUser(users, a) /\ users[a] < before}

GCFails(users, docs, pays, before) ==
    \E a \in ExpiredUsers(users, before) : Referenced(docs, pays, a)

WithoutExpired(users, before) ==
    [a \in DOMAIN users |-> IF a \in ExpiredUsers(users, before) THEN 0 ELSE users[a]]

WithoutPending(pays, before) ==
    [p \in DOMAIN pays |->
        [i \in {n \in DOMAIN pays[p] : pays[p][n].paid \/ pays[p][n].created >= before} |-> pays[p][i]]]
==============================================================================
