----------------------------- MODULE PolicyUpload -----------------------------
(***************************************************************************)
(* POST /policy/$ACCOUNT of the backend                                    *)
(* (backend/anastasis-httpd_policy_upload.c): the storage of recovery      *)
(* documents, for which accounts pay by the year and by the upload.        *)
(*                                                                         *)
(* MHD calls the handler once when it has the header of a request; then,   *)
(* unless that call replied or suspended the connection, for the body.     *)
(* Requests and the callbacks of the merchant interleave between these     *)
(* calls.  An action is one call: Post, Upload, ProposalCb, CheckPaymentCb.*)
(***************************************************************************)
EXTENDS AccountTables

CONSTANTS
    Slots, Accounts, Hashes, Pids,
    Durations,       \* what clients ask for as storage_duration, in years
    Year, Week,      \* time units.  TRANSIENT_LIFETIME is a week
    MaxYears,        \* ANASTASIS_MAX_YEARS_STORAGE
    PostCounter,     \* AH_post_counter
    FreeOrNot,       \* the possible values of "AH_annual_fee is zero"
    Garbage,         \* what a bool may hold that nobody has initialized
    ExpireBackups, ExpirePayments,  \* grace periods of anastasis-dbinit -g
    MaxTime, MaxArrivals  \* bounds

ASSUME PeriodsAssumption == Year \in Nat \ {0} /\ Week \in Nat \ {0} /\ MaxYears \in Nat
ASSUME FeesAssumption == PostCounter \in Nat /\ FreeOrNot \subseteq BOOLEAN
ASSUME GarbageAssumption == Garbage \subseteq BOOLEAN
ASSUME DurationsAssumption == Durations \subseteq Nat
ASSUME GraceAssumption == ExpireBackups \in Nat /\ ExpirePayments \in Nat
ASSUME AccountsAssumption == "none" \notin Accounts

VARIABLES
    now,     \* the clock
    free,    \* is AH_annual_fee zero?
    puc,     \* struct PolicyUploadContext, per slot
    users, docs, pays,  \* the tables: see AccountTables
    orders,  \* the merchant's view of each order
    credits, \* history: how often an identifier has prolonged an account
    arrivals \* counter for the bound
tables == <<users, docs, pays>>
vars == <<now, free, puc, tables, orders, credits, arrivals>>

NoPid == "none"
NoRequest == [state |-> "idle"]
NoOrder == [state |-> "none", years |-> 0]

\* q: what the client sends.  endDate: the storage it asks for; toPay:
\* years_to_pay; forced: history, "user requested extension, force payment".
Fresh(q) ==
    [state |-> "reading", account |-> q.account, hash |-> q.hash, pid |-> q.pid,
     provided |-> q.pid # NoPid, endDate |-> now + q.years * Year,
     toPay |-> q.years, paidUntil |-> 0, merchant |-> "none", forced |-> FALSE]

\* GNUNET_CRYPTO_random_block: an identifier nobody has used.
FreshPids == {p \in Pids : /\ orders[p] = NoOrder /\ pays[p] = NoRows
                           /\ \A s \in Slots : puc[s].state # "idle" => puc[s].pid # p}

Later(a, b) == IF a > b THEN a ELSE b

-----------------------------------------------------------------------------
(* What a call of the handler ends with.  g is the context it leaves.       *)

\* A reply that tells of a document stays until the client has it: see Done.
Reply(s, g, what, version) ==
    puc' = [puc EXCEPT ![s] =
        [state |-> "replied", account |-> g.account, hash |-> g.hash, pid |-> g.pid,
         endDate |-> g.endDate, paidUntil |-> g.paidUntil, forced |-> g.forced,
         reply |-> what, version |-> version]]

\* Any other reply ends the request.
Refuse(s) == puc' = [puc EXCEPT ![s] = NoRequest]

\* begin_payment for identifier p.
BeginPayment(s, g, p) ==
    puc' = [puc EXCEPT ![s] = [g EXCEPT !.state = "parked", !.merchant = "order", !.pid = p]]

\* await_payment.
AwaitPayment(s, g) ==
    puc' = [puc EXCEPT ![s] = [g EXCEPT !.state = "parked", !.merchant = "check"]]

PreparePayment(s, g) ==
    IF g.provided THEN AwaitPayment(s, g)
    ELSE \E p \in FreshPids \ {g.pid} : BeginPayment(s, [g EXCEPT !.provided = TRUE], p)

\* Mutant: the date is compared with the one that was asked for.
PaidUntilAsAsked(us, g) == Later(us[g.account], g.endDate)

PaidUntil(us, g) == Later(us[g.account], now)

\* The last part of the first call: lookup_account, and what follows from it.
\* us: the users as the call has changed them.
CheckAccount(s, g, us) ==
    LET until == PaidUntil(us, g)
        toPay == IF g.endDate > until THEN (g.endDate - until + Year - 1) \div Year ELSE 0
        g2 == [g EXCEPT !.paidUntil = until, !.toPay = toPay,
                        !.forced = docs[g.account] # <<>> /\ toPay # 0]
    IN  IF ~HasUser(us, g.account) \/ g2.forced THEN PreparePayment(s, g2)
        ELSE IF IsLatest(docs, g.account, g.hash)
             THEN Reply(s, g2, "not modified", Len(docs[g.account]))
             ELSE puc' = [puc EXCEPT ![s] = g2]

\* The identifier the client sent.  If it is unknown, check_payment_identifier
\* sets neither paid nor valid_counter, which are not initialized.
CheckIdentifier(s, g) ==
    LET rows == pays[g.pid]
        Judge(paid, valid) ==
            IF ~valid THEN PreparePayment(s, [g EXCEPT !.provided = FALSE,
                                                       !.toPay = Later(@, 1)])
            ELSE IF ~paid THEN PreparePayment(s, g)
            ELSE CheckAccount(s, g, users)
    IN  IF rows = NoRows THEN \E paid, valid \in Garbage : Judge(paid, valid)
        ELSE IF Cardinality(DOMAIN rows) > 1 THEN Refuse(s)
        ELSE \E i \in DOMAIN rows : Judge(rows[i].paid, rows[i].left > 0)

\* No fee: record a payment and use it at once.
FreeUpload(s, g) ==
    \E p \in FreshPids :
        LET us == WithTransientUser(users, g.account, now, Week)
            ps == WithPayment(pays, g.account, p, PostCounter, now)
        IN  \/ /\ users' = Updated(us, ps, g.account, p, now + MaxYears * Year)
               /\ pays' = WithPaid(ps, g.account, p)
               /\ CheckAccount(s, [g EXCEPT !.pid = p], users') \/ Refuse(s)
            \/ Refuse(s) /\ users' = us /\ pays' \in {pays, ps}  \* a call fails

\* The first call, for a well-formed header with a valid signature (otherwise,
\* or if a query fails, it replies and changes nothing).
\* A client sends an identifier that it has been told, or one that nobody uses.
Post(s, q) ==
    /\ puc[s] = NoRequest /\ arrivals < MaxArrivals
    /\ q.pid # NoPid => (q.pid \in FreshPids \/ orders[q.pid] # NoOrder)
    /\ \/ q.pid # NoPid /\ CheckIdentifier(s, Fresh(q)) /\ UNCHANGED <<users, pays>>
       \/ /\ q.pid = NoPid /\ ~free
          /\ \E p \in FreshPids : BeginPayment(s, Fresh(q), p)
          /\ UNCHANGED <<users, pays>>
       \/ q.pid = NoPid /\ free /\ FreeUpload(s, Fresh(q))
    /\ arrivals' = arrivals + 1
    /\ UNCHANGED <<now, free, docs, orders, credits>>

\* The body is complete and has the promised hash: store it.
Store(s) ==
    LET g == puc[s]
        Again == IF g.provided THEN BeginPayment(s, g, g.pid)
                 ELSE \E p \in FreshPids : BeginPayment(s, [g EXCEPT !.provided = TRUE], p)
    IN  CASE StoreStatus(users, docs, pays, g.account, g.hash, g.pid) = "stored" ->
                /\ Reply(s, g, "stored", NextVersion(docs, g.account))
                /\ docs' = WithDocument(docs, g.account, g.hash, g.pid)
                /\ pays' = WithUploadSpent(pays, g.account, g.pid)
          [] StoreStatus(users, docs, pays, g.account, g.hash, g.pid) = "same" ->
                /\ Reply(s, g, "not modified", Len(docs[g.account]))
                /\ UNCHANGED <<docs, pays>>
          [] StoreStatus(users, docs, pays, g.account, g.hash, g.pid) = "error" ->
                Refuse(s) /\ UNCHANGED <<docs, pays>>
          [] OTHER -> Again /\ UNCHANGED <<docs, pays>>

\* The calls for the body.
Upload(s) ==
    /\ puc[s].state = "reading"
    /\ \/ Store(s)
       \/ Refuse(s) /\ UNCHANGED <<docs, pays>>  \* another hash than promised, or a failure
    /\ UNCHANGED <<now, free, users, orders, credits, arrivals>>

\* MHD has sent the reply, or the handler, called again, sends the one that the
\* callback left in puc->resp: cleanup_ctx.  (A client that is lost before is
\* covered by Restart, as far as the tables are concerned.)
Done(s) ==
    /\ puc[s].state \in {"replied", "resumed"}
    /\ puc' = [puc EXCEPT ![s] = NoRequest]
    /\ UNCHANGED <<now, free, tables, orders, credits, arrivals>>

-----------------------------------------------------------------------------
(* Callbacks of the merchant *)

\* The connection is resumed with a reply.
Resumed(s, resp) ==
    puc' = [puc EXCEPT ![s] = [state |-> "resumed", pid |-> @.pid, resp |-> resp]]

\* The merchant has the new order and it is recorded, or that fails; or the
\* merchant refuses, as it does if it has an order with this identifier.
ProposalCb(s) ==
    LET g == puc[s]
        us == WithTransientUser(users, g.account, now, Week)
    IN  /\ g.state = "parked" /\ g.merchant = "order"
        /\ \/ /\ orders[g.pid] = NoOrder
              /\ orders' = [orders EXCEPT ![g.pid] = [state |-> "unpaid", years |-> g.toPay]]
              /\ \/ /\ users' = us
                    /\ pays' = WithPayment(pays, g.account, g.pid, PostCounter, now)
                    /\ Resumed(s, "pay")
                 \/ /\ users' \in {users, us}
                    /\ Resumed(s, "error")
                    /\ UNCHANGED pays
           \/ Resumed(s, "error") /\ UNCHANGED <<users, pays, orders>>
        /\ UNCHANGED <<now, free, docs, credits, arrivals>>

\* How long a paid order prolongs the account: the years paid for and a week.
Lifetime(order) == order.years * Year + Week

\* The long poll of the merchant ends with the payment, or without, or fails.
CheckPaymentCb(s) ==
    LET g == puc[s]
        us == Incremented(users, pays, g.account, g.pid, Lifetime(orders[g.pid]), now)
    IN  /\ g.state = "parked" /\ g.merchant = "check"
        /\ \/ /\ orders[g.pid].state = "paid"
              /\ ~IncrementFails(users, pays, g.account, g.pid)
              /\ users' = us
              /\ pays' = WithPaid(pays, g.account, g.pid)
              /\ credits' = IF UnpaidRows(pays, g.account, g.pid) = {} THEN credits
                            ELSE [credits EXCEPT ![g.pid] = @ + 1]
              /\ puc' = [puc EXCEPT ![s] = [g EXCEPT !.state = "reading", !.merchant = "none",
                                                     !.paidUntil = us[g.account]]]
           \/ /\ orders[g.pid].state # "none"
              /\ Resumed(s, "timeout")
              /\ UNCHANGED <<users, pays, credits>>
           \/ /\ Resumed(s, "error")
              /\ UNCHANGED <<users, pays, credits>>
        /\ UNCHANGED <<now, free, docs, orders, arrivals>>

-----------------------------------------------------------------------------
(* The rest of the world *)

\* The process ends, in order or not, and is started again.  (AH_resume_all_bc
\* resumes what is suspended, so that the end is in order.)
Restart ==
    /\ \E s \in Slots : puc[s] # NoRequest
    /\ puc' = [s \in Slots |-> NoRequest]
    /\ UNCHANGED <<now, free, tables, orders, credits, arrivals>>

\* anastasis-dbinit -g.
GC ==
    /\ ~GCFails(users, docs, pays, now - ExpireBackups)
    /\ users' = WithoutExpired(users, now - ExpireBackups)
    /\ pays' = WithoutPending(pays, now - ExpirePayments)
    /\ UNCHANGED <<now, free, puc, docs, orders, credits, arrivals>>

\* The wallet pays an order.
Pay(p) ==
    /\ orders[p].state = "unpaid"
    /\ orders' = [orders EXCEPT ![p].state = "paid"]
    /\ UNCHANGED <<now, free, puc, tables, credits, arrivals>>

Tick ==
    /\ now < MaxTime
    /\ now' = now + 1
    /\ UNCHANGED <<free, puc, tables, orders, credits, arrivals>>

-----------------------------------------------------------------------------

Init ==
    /\ now = 1
    /\ free \in FreeOrNot
    /\ puc = [s \in Slots |-> NoRequest]
    /\ users = [a \in Accounts |-> 0]
    /\ docs = [a \in Accounts |-> <<>>]
    /\ pays = [p \in Pids |-> NoRows]
    /\ orders = [p \in Pids |-> NoOrder]
    /\ credits = [p \in Pids |-> 0]
    /\ arrivals = 0

Requests == [account: Accounts, hash: Hashes, pid: Pids \cup {NoPid}, years: Durations]

Next ==
    \/ \E s \in Slots :
          \/ \E q \in Requests : Post(s, q)
          \/ Upload(s) \/ Done(s) \/ ProposalCb(s) \/ CheckPaymentCb(s)
    \/ \E p \in Pids : Pay(p)
    \/ Restart \/ GC \/ Tick

Spec == Init /\ [][Next]_vars

-----------------------------------------------------------------------------

DocsPaidBy(p) ==
    {v \in UNION {{a} \X DOMAIN docs[a] : a \in Accounts} : docs[v[1]][v[2]].pid = p}

\* "payment_secret: identifier for the payment, used to later charge on
\* uploads": however many uploads run at once with one identifier, no more
\* documents are stored than it has paid for, and only if it has been paid.
UploadsPaid ==
    \A p \in Pids :
        /\ Cardinality(DocsPaidBy(p)) <= PostCounter
        /\ DocsPaidBy(p) # {} => free \/ orders[p].state = "paid"

\* "payment_identifier: proof of payment, must be unique": one payment prolongs
\* one account once, however often clients and callbacks come back to it.
PaidOnce == \A p \in Pids : credits[p] <= 1

\* "Anastasis-Policy-Expiration indicates the time until the server promises to
\* store the policy": it is not later than the date in the database.
PromiseKept ==
    \A s \in Slots : puc[s].state = "replied" /\ puc[s].reply = "stored" =>
        puc[s].paidUntil <= Later(users[puc[s].account], now)

\* A version that a client was told, 204 or 304, is a document with its hash.
VersionsTold ==
    \A s \in Slots : puc[s].state = "replied" /\ puc[s].reply \in {"stored", "not modified"} =>
        /\ puc[s].version \in DOMAIN docs[puc[s].account]
        /\ docs[puc[s].account][puc[s].version].hash = puc[s].hash

\* The tables implement the log of documents: see RecoveryLog.
HashesOf(ds) == [i \in DOMAIN ds |-> ds[i].hash]
GrantOf(rows) ==
    IF rows = NoRows THEN [account |-> "none", left |-> 0]
    ELSE LET row == rows[CHOOSE i \in DOMAIN rows : TRUE] IN [account |-> row.account, left |-> row.left]
Log == INSTANCE RecoveryLog WITH
    log <- [a \in Accounts |-> HashesOf(docs[a])], grants <- [p \in Pids |-> GrantOf(pays[p])]
ImplementsLog == Log!Spec

\* "user requested extension, force payment": a request for more storage than
\* the account has is not accepted with less.
ExtensionGranted ==
    \A s \in Slots :
        puc[s].state = "replied" /\ puc[s].reply \in {"stored", "not modified"} /\ puc[s].forced
            => puc[s].paidUntil >= puc[s].endDate

\* "When making payments, the server must include a fresh, randomly-generated
\* payment-identifier in the payment request."
FreshIdentifier ==
    \A s \in Slots : puc[s].state = "parked" /\ puc[s].merchant = "order"
        => orders[puc[s].pid] = NoOrder
===============================================================================
