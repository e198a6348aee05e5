-------------------------- MODULE PolicyUploadProofs --------------------------
(***************************************************************************)
(* For any number of requests, accounts, documents, identifiers and fees:  *)
(* documents, payments and the promises to clients stay consistent, and    *)
(* the tables implement RecoveryLog.                                       *)
(***************************************************************************)
EXTENDS PolicyUpload, FiniteSetTheorems, TLAPS

Documents == [hash : Hashes, pid : Pids]
Order == [state : {"none", "unpaid", "paid"}, years : Nat]
Row == [account : Accounts, left : 0 .. PostCounter, paid : BOOLEAN, created : Nat]

(* No identifier has two rows.                                             *)
Rows == {NoRows} \cup [{1} -> Row]

(* The contexts: of a request that is served or waits, with a reply that   *)
(* tells of a document, and with any other reply.                          *)
Opened(ids) ==
    [state : {"reading", "parked"}, account : Accounts, hash : Hashes, pid : ids,
     provided : BOOLEAN, endDate : Nat, toPay : Nat, paidUntil : Nat,
     merchant : {"none", "order", "check"}, forced : BOOLEAN]
Served == Opened(Pids)
Replied ==
    [state : {"replied"}, account : Accounts, hash : Hashes, pid : Pids, endDate : Nat,
     paidUntil : Nat, forced : BOOLEAN, reply : {"stored", "not modified"}, version : Nat]
Ended == [state : {"resumed"}, pid : Pids, resp : {"pay", "timeout", "error"}]
Contexts == {NoRequest} \cup Served \cup Replied \cup Ended

Types ==
    /\ now \in Nat /\ free \in BOOLEAN
    /\ users \in [Accounts -> Nat]
    /\ docs \in [Accounts -> Seq(Documents)]
    /\ pays \in [Pids -> Rows]
    /\ orders \in [Pids -> Order]
    /\ credits \in [Pids -> Nat]
    /\ puc \in [Slots -> Contexts]

(* What documents and credits of identifier p say about its row.           *)
IsPaid(rows) == rows # NoRows /\ rows[1].paid
PaymentInv(p) ==
    /\ IsFiniteSet(DocsPaidBy(p))
    /\ DocsPaidBy(p) # {} => IsPaid(pays[p])
    /\ pays[p] # NoRows => Cardinality(DocsPaidBy(p)) + pays[p][1].left = PostCounter
    /\ IsPaid(pays[p]) => free \/ orders[p].state = "paid"
    /\ credits[p] # 0 => credits[p] = 1 /\ IsPaid(pays[p])

(* Of the context g, given the tables, the orders and the time t: a        *)
(* request that reads a document has a paid row if it has one of its       *)
(* account ...                                                             *)
ReadsPaid(g, ps) ==
    g.state = "reading" /\ ps[g.pid] # NoRows /\ ps[g.pid][1].account = g.account
        => ps[g.pid][1].paid

(* ... one that may ask the merchant for an order has no row yet, unless   *)
(* the merchant will refuse ...                                            *)
AsksOnce(g, ps, os) ==
    (g.state = "parked" \/ g.provided) /\ os[g.pid] = NoOrder => ps[g.pid] = NoRows

(* ... and what the client is told is in the tables.                       *)
DateKept(g, us, t) == g.paidUntil <= Later(us[g.account], t)
VersionKept(g, ds) ==
    g.version \in DOMAIN ds[g.account] /\ ds[g.account][g.version].hash = g.hash

ContextInv(g, us, ds, ps, os, t) ==
    /\ g \in Served => ReadsPaid(g, ps) /\ AsksOnce(g, ps, os) /\ DateKept(g, us, t)
    /\ g \in Replied => VersionKept(g, ds) /\ DateKept(g, us, t)

(* An identifier that two requests have is one that the merchant knows.    *)
Unshared(s, p) ==
    \A t \in Slots \ {s} : puc[t] # NoRequest /\ puc[t].pid = p => orders[p] # NoOrder

UploadInv ==
    /\ Types
    /\ \A p \in Pids : PaymentInv(p)
    /\ \A s \in Slots : ContextInv(puc[s], users, docs, pays, orders, now)
    /\ \A s \in Slots : puc[s] # NoRequest => Unshared(s, puc[s].pid)

-----------------------------------------------------------------------------
(* Identifiers, rows and documents                                         *)

(* The kinds of contexts are told apart by their state.                    *)
LEMMA ContextKinds ==
    ASSUME NEW g \in Contexts
    PROVE  /\ g \in Served => g # NoRequest /\ g \notin Replied /\ g.state \in {"reading", "parked"}
           /\ g \in Replied => g # NoRequest /\ g \notin Served /\ g.state = "replied"
           /\ g \in Ended => g # NoRequest /\ g \notin Served /\ g \notin Replied /\ g.state = "resumed"
           /\ g.state \in {"reading", "parked"} => g \in Served
           /\ g.state = "idle" <=> g = NoRequest
           /\ g # NoRequest => g.pid \in Pids
<1>1. g = NoRequest => g.state = "idle" BY DEF NoRequest
<1>2. g \in Served => g.state \in {"reading", "parked"} /\ g.pid \in Pids BY DEF Served, Opened
<1>3. g \in Replied => g.state = "replied" /\ g.pid \in Pids BY DEF Replied
<1>4. g \in Ended => g.state = "resumed" /\ g.pid \in Pids BY DEF Ended
<1> QED BY <1>1, <1>2, <1>3, <1>4 DEF Contexts

(* An identifier has no row, or the row 1.                                 *)
LEMMA OneRow ==
    ASSUME NEW r \in Rows
    PROVE  /\ r = NoRows <=> DOMAIN r = {}
           /\ r # NoRows => DOMAIN r = {1} /\ r[1] \in Row
BY DEF Rows, NoRows

(* The fees and periods are numbers, and so is what is computed from them. *)
LEMMA Numbers ==
    /\ PostCounter \in Nat /\ Year \in Nat /\ Year # 0 /\ Week \in Nat /\ MaxYears \in Nat
    /\ \A m, n \in Nat : m * n \in Nat
    /\ \A m \in Nat : \A n \in Nat \ {0} : m \div n \in Nat
BY PeriodsAssumption, FeesAssumption

(* A row is added for an identifier that has none.                         *)
LEMMA RowAdded ==
    ASSUME NEW ps \in [Pids -> Rows], NEW a \in Accounts, NEW p \in Pids, NEW t \in Nat, ps[p] = NoRows
    PROVE  /\ WithPayment(ps, a, p, PostCounter, t)
                = [ps EXCEPT ![p] = [i \in {1} |-> PaymentRow(a, PostCounter, t)]]
           /\ WithPayment(ps, a, p, PostCounter, t) \in [Pids -> Rows]
<1>1. DOMAIN ps[p] = {} BY DEF NoRows
<1>2. Cardinality(DOMAIN ps[p]) = 0 BY <1>1, FS_EmptySet
<1>3. (CHOOSE n \in 1 .. Cardinality(DOMAIN ps[p]) + 1 : n \notin DOMAIN ps[p]) = 1
  BY <1>1, <1>2
<1>4. PaymentRow(a, PostCounter, t) \in Row BY Numbers DEF PaymentRow, Row
<1> QED BY <1>1, <1>3, <1>4 DEF WithPayment, Rows

(* What the row of an identifier may become: its account stays, and so     *)
(* does what was paid.                                                     *)
RowKept(r, r2) ==
    r2 # NoRows => r # NoRows /\ r2[1].account = r[1].account /\ (r[1].paid => r2[1].paid)

(* recdoc_payment_done changes nothing but "paid" in the row of the        *)
(* account.                                                                *)
LEMMA RowPaid ==
    ASSUME NEW ps \in [Pids -> Rows], NEW a \in Accounts, NEW p \in Pids
    PROVE  /\ WithPaid(ps, a, p) \in [Pids -> Rows]
           /\ \A q \in Pids \ {p} : WithPaid(ps, a, p)[q] = ps[q]
           /\ ps[p] = NoRows <=> WithPaid(ps, a, p)[p] = NoRows
           /\ ps[p] # NoRows => /\ WithPaid(ps, a, p)[p][1].account = ps[p][1].account
                                /\ WithPaid(ps, a, p)[p][1].left = ps[p][1].left
                                /\ WithPaid(ps, a, p)[p][1].paid = (ps[p][1].paid \/ ps[p][1].account = a)
<1> DEFINE r2 == [i \in DOMAIN ps[p] |-> IF i \in UnpaidRows(ps, a, p)
                                          THEN [ps[p][i] EXCEPT !.paid = TRUE] ELSE ps[p][i]]
<1>1. WithPaid(ps, a, p) = [ps EXCEPT ![p] = r2] BY DEF WithPaid
<1>2. CASE ps[p] = NoRows
  <2>1. DOMAIN ps[p] = {} BY <1>2, OneRow
  <2>2. r2 = NoRows BY <2>1 DEF NoRows
  <2> QED BY <1>1, <1>2, <2>2 DEF Rows
<1>3. CASE ps[p] # NoRows
  <2>1. DOMAIN ps[p] = {1} /\ ps[p][1] \in Row BY <1>3, OneRow
  <2>2. 1 \in UnpaidRows(ps, a, p) <=> ps[p][1].account = a /\ ~ps[p][1].paid
    BY <2>1 DEF UnpaidRows, RowsOf
  <2>3. r2[1] \in Row /\ r2[1].account = ps[p][1].account /\ r2[1].left = ps[p][1].left
        /\ r2[1].paid = (ps[p][1].paid \/ ps[p][1].account = a)
    BY <2>1, <2>2 DEF Row
  <2>4. r2 \in [{1} -> Row] BY <2>1, <2>3
  <2>5. r2 # NoRows BY <2>1 DEF NoRows
  <2> QED BY <1>1, <1>3, <2>3, <2>4, <2>5 DEF Rows
<1> QED BY <1>2, <1>3

(* An upload that is left is used up.                                      *)
LEMMA UploadSpent ==
    ASSUME NEW ps \in [Pids -> Rows], NEW a \in Accounts, NEW p \in Pids, ps[p] # NoRows,
           ps[p][1].account = a, ps[p][1].left # 0
    PROVE  WithUploadSpent(ps, a, p)
             = [ps EXCEPT ![p] = [i \in {1} |-> Spent(ps[p][1])]]
           /\ WithUploadSpent(ps, a, p) \in [Pids -> Rows]
<1>1. DOMAIN ps[p] = {1} /\ ps[p][1] \in Row BY OneRow
<1>2. Spent(ps[p][1]) \in Row BY <1>1, Numbers DEF Spent, Row
<1> QED BY <1>1, <1>2 DEF WithUploadSpent, Rows

(* Garbage collection deletes rows, but none that is paid.                 *)
LEMMA RowsForgotten ==
    ASSUME NEW ps \in [Pids -> Rows], NEW t
    PROVE  /\ WithoutPending(ps, t) \in [Pids -> Rows]
           /\ \A p \in Pids : /\ WithoutPending(ps, t)[p] \in {NoRows, ps[p]}
                              /\ IsPaid(ps[p]) => WithoutPending(ps, t)[p] = ps[p]
<1> DEFINE kept(p) == {n \in DOMAIN ps[p] : ps[p][n].paid \/ ps[p][n].created >= t}
           r2(p) == [i \in kept(p) |-> ps[p][i]]
<1>1. ASSUME NEW p \in Pids
      PROVE  r2(p) \in {NoRows, ps[p]} /\ (IsPaid(ps[p]) => r2(p) = ps[p])
  <2>1. CASE ps[p] = NoRows
    <3>1. kept(p) = {} BY <2>1, OneRow
    <3> QED BY <2>1, <3>1 DEF NoRows, IsPaid
  <2>2. CASE ps[p] # NoRows
    <3>1. DOMAIN ps[p] = {1} /\ ps[p] \in [{1} -> Row] BY <2>2, OneRow DEF Rows
    <3>2. CASE kept(p) = {} BY <3>1, <3>2 DEF NoRows, IsPaid
    <3>3. CASE kept(p) = {1} BY <3>1, <3>3
    <3> QED BY <3>1, <3>2, <3>3
  <2> QED BY <2>1, <2>2
<1>2. WithoutPending(ps, t) = [p \in Pids |-> r2(p)] BY DEF WithoutPending
<1> HIDE DEF r2
<1> QED BY <1>1, <1>2 DEF Rows

(* The latest version is a version.                                        *)
LEMMA LastVersion ==
    ASSUME NEW S, NEW d \in Seq(S), d # <<>>
    PROVE  Len(d) \in DOMAIN d /\ Len(d) \in Nat
OBVIOUS

(* Who is in DocsPaidBy.                                                   *)
LEMMA PaidDocument ==
    ASSUME NEW p, NEW v
    PROVE  v \in DocsPaidBy(p)
             <=> \E a \in Accounts : \E i \in DOMAIN docs[a] : v = <<a, i>> /\ docs[a][i].pid = p
BY DEF DocsPaidBy

-----------------------------------------------------------------------------
(* What the other requests rely on                                         *)

UsersKept(us, us2, t, t2) == \A a \in Accounts : Later(us[a], t) <= Later(us2[a], t2)
DocsKept(ds, ds2) ==
    \A a \in Accounts : \A v \in DOMAIN ds[a] :
        v \in DOMAIN ds2[a] /\ ds2[a][v].hash = ds[a][v].hash
PidKept(p, ps, ps2, os, os2) == RowKept(ps[p], ps2[p]) /\ (os2[p] = NoOrder => os[p] = NoOrder)

(* What a request relies on stays true if users, documents, the rows and   *)
(* orders of its identifier only change in these ways.                     *)
LEMMA ContextKept ==
    ASSUME NEW g \in Contexts, NEW us \in [Accounts -> Nat], NEW us2 \in [Accounts -> Nat],
           NEW ds, NEW ds2, NEW ps, NEW ps2, NEW os, NEW os2, NEW t \in Nat, NEW t2 \in Nat,
           ContextInv(g, us, ds, ps, os, t), UsersKept(us, us2, t, t2), DocsKept(ds, ds2),
           g # NoRequest => PidKept(g.pid, ps, ps2, os, os2)
    PROVE  ContextInv(g, us2, ds2, ps2, os2, t2)
<1>1. ASSUME DateKept(g, us, t), g.account \in Accounts, g.paidUntil \in Nat
      PROVE  DateKept(g, us2, t2)
  <2>1. Later(us[g.account], t) \in Nat /\ Later(us2[g.account], t2) \in Nat BY <1>1 DEF Later
  <2> QED BY <1>1, <2>1 DEF DateKept, UsersKept
<1>2. CASE g \in Served
  <2>1. /\ ReadsPaid(g, ps) /\ AsksOnce(g, ps, os) /\ DateKept(g, us, t) /\ g \notin Replied
        /\ PidKept(g.pid, ps, ps2, os, os2) /\ g.account \in Accounts /\ g.paidUntil \in Nat
    BY <1>2, ContextKinds DEF ContextInv, Served, Opened
  <2>2. ReadsPaid(g, ps2) BY <2>1 DEF ReadsPaid, PidKept, RowKept
  <2>3. AsksOnce(g, ps2, os2) BY <2>1 DEF AsksOnce, PidKept, RowKept
  <2> QED BY <1>1, <2>1, <2>2, <2>3 DEF ContextInv
<1>3. CASE g \in Replied
  <2>1. /\ VersionKept(g, ds) /\ DateKept(g, us, t) /\ g \notin Served
        /\ g.account \in Accounts /\ g.paidUntil \in Nat
    BY <1>3, ContextKinds DEF ContextInv, Replied
  <2>2. VersionKept(g, ds2) BY <2>1 DEF VersionKept, DocsKept
  <2> QED BY <1>1, <2>1, <2>2 DEF ContextInv
<1>4. CASE g \notin Served /\ g \notin Replied BY <1>4 DEF ContextInv
<1> QED BY <1>2, <1>3, <1>4

(* It does if nothing changes.                                             *)
LEMMA NothingLess ==
    ASSUME Types
    PROVE  /\ UsersKept(users, users, now, now) /\ DocsKept(docs, docs)
           /\ \A p : PidKept(p, pays, pays, orders, orders)
<1>1. \A a \in Accounts : Later(users[a], now) \in Nat BY DEF Types, Later
<1> QED BY <1>1 DEF UsersKept, DocsKept, PidKept, RowKept

(* A call for slot s leaves the context c.                                 *)
LEMMA SlotStep ==
    ASSUME UploadInv, Types', \A p \in Pids : PaymentInv(p)',
           UsersKept(users, users', now, now'), DocsKept(docs, docs'),
           \A p \in Pids : orders[p] # NoOrder => orders'[p] # NoOrder,
           NEW s \in Slots, NEW c \in Contexts, puc' = [puc EXCEPT ![s] = c],
           ContextInv(c, users', docs', pays', orders', now'),
           \A t \in Slots \ {s} : puc[t] # NoRequest =>
               /\ PidKept(puc[t].pid, pays, pays', orders, orders')
               /\ c # NoRequest /\ puc[t].pid = c.pid => orders'[c.pid] # NoOrder
    PROVE  UploadInv'
<1>1. /\ puc \in [Slots -> Contexts] /\ now \in Nat /\ now' \in Nat
      /\ users \in [Accounts -> Nat] /\ users' \in [Accounts -> Nat]
  BY DEF UploadInv, Types
<1>2. puc'[s] = c /\ \A t \in Slots \ {s} : puc'[t] = puc[t] BY <1>1
<1>3. ASSUME NEW t \in Slots
      PROVE  ContextInv(puc'[t], users', docs', pays', orders', now')
  <2>1. CASE t = s BY <1>2, <2>1
  <2>2. CASE t # s
    <3>1. ContextInv(puc[t], users, docs, pays, orders, now) BY DEF UploadInv
    <3>2. puc[t] \in Contexts BY <1>1
    <3>3. ContextInv(puc[t], users', docs', pays', orders', now')
      BY <1>1, <2>2, <3>1, <3>2, ContextKept
    <3> QED BY <1>2, <2>2, <3>3
  <2> QED BY <2>1, <2>2
<1>4. ASSUME NEW t \in Slots, puc'[t] # NoRequest
      PROVE  Unshared(t, puc[t].pid)'
  <2> SUFFICES ASSUME NEW r \in Slots \ {t}, puc'[r] # NoRequest, puc'[r].pid = puc'[t].pid
               PROVE  orders'[puc'[t].pid] # NoOrder
    BY DEF Unshared
  <2>1. CASE t = s \/ r = s BY <1>2, <1>4, <2>1
  <2>2. CASE t # s /\ r # s
    <3>1. puc[t] # NoRequest /\ puc[r] # NoRequest /\ puc[r].pid = puc[t].pid
          /\ puc'[t] = puc[t] /\ puc[t] \in Contexts
      BY <1>1, <1>2, <1>4, <2>2
    <3>2. orders[puc[t].pid] # NoOrder BY <3>1 DEF UploadInv, Unshared
    <3>3. puc[t].pid \in Pids BY <3>1, ContextKinds
    <3> QED BY <3>1, <3>2, <3>3
  <2> QED BY <2>1, <2>2
<1> QED BY <1>3, <1>4 DEF UploadInv

(* A call changes the tables, but no context.                              *)
LEMMA TableStep ==
    ASSUME UploadInv, Types', \A p \in Pids : PaymentInv(p)',
           UsersKept(users, users', now, now'), DocsKept(docs, docs'),
           \A p \in Pids : PidKept(p, pays, pays', orders, orders'), UNCHANGED puc
    PROVE  UploadInv'
<1>1. /\ puc \in [Slots -> Contexts] /\ now \in Nat /\ now' \in Nat
      /\ users \in [Accounts -> Nat] /\ users' \in [Accounts -> Nat]
  BY DEF UploadInv, Types
<1>2. ASSUME NEW t \in Slots
      PROVE  ContextInv(puc'[t], users', docs', pays', orders', now')
  <2>1. ContextInv(puc[t], users, docs, pays, orders, now) /\ puc[t] \in Contexts
    BY <1>1 DEF UploadInv
  <2>2. puc[t] # NoRequest => PidKept(puc[t].pid, pays, pays', orders, orders')
    BY <2>1, ContextKinds
  <2> QED BY <1>1, <2>1, <2>2, ContextKept
<1>3. ASSUME NEW t \in Slots, puc[t] # NoRequest
      PROVE  Unshared(t, puc[t].pid)'
  <2>1. Unshared(t, puc[t].pid) /\ puc[t].pid \in Pids BY <1>1, <1>3, ContextKinds DEF UploadInv
  <2>2. orders'[puc[t].pid] = NoOrder => orders[puc[t].pid] = NoOrder BY <2>1 DEF PidKept
  <2> QED BY <2>1, <2>2 DEF Unshared
<1> QED BY <1>2, <1>3 DEF UploadInv

-----------------------------------------------------------------------------
(* The parts of the handler: it leaves slot s a context that goes with the *)
(* users us and the payments ps.                                           *)

Lands(s, us, ps) ==
    \E c \in Contexts :
        /\ puc' = [puc EXCEPT ![s] = c]
        /\ ContextInv(c, us, docs, ps, orders, now)
        /\ c # NoRequest => Unshared(s, c.pid)

(* Nobody else uses a random identifier.                                   *)
LEMMA FreshPid ==
    ASSUME Types, NEW p \in FreshPids, NEW s \in Slots
    PROVE  /\ p \in Pids /\ orders[p] = NoOrder /\ pays[p] = NoRows /\ Unshared(s, p)
           /\ \A t \in Slots : puc[t] # NoRequest => puc[t].pid # p
<1>1. p \in Pids /\ orders[p] = NoOrder /\ pays[p] = NoRows
      /\ \A t \in Slots : puc[t].state # "idle" => puc[t].pid # p
  BY DEF FreshPids
<1>2. \A t \in Slots : puc[t].state = "idle" <=> puc[t] = NoRequest
  BY ContextKinds DEF Types
<1> QED BY <1>1, <1>2 DEF Unshared

(* The call leaves a request that goes on.                                 *)
LEMMA LandsServed ==
    ASSUME NEW s \in Slots, NEW us, NEW ps, NEW c \in Served, puc' = [puc EXCEPT ![s] = c],
           ReadsPaid(c, ps), AsksOnce(c, ps, orders), DateKept(c, us, now), Unshared(s, c.pid)
    PROVE  Lands(s, us, ps)
BY ContextKinds DEF Lands, Contexts, ContextInv

(* The call leaves no request.                                             *)
LEMMA LandsRefused ==
    ASSUME NEW s \in Slots, NEW us, NEW ps, Refuse(s)
    PROVE  Lands(s, us, ps)
BY ContextKinds DEF Lands, Contexts, ContextInv, Refuse

(* The call replies 304 with the latest version.                           *)
LEMMA LandsReplied ==
    ASSUME NEW s \in Slots, NEW us, NEW ps, NEW g \in Served, Unshared(s, g.pid), docs \in [Accounts -> Seq(Documents)],
           IsLatest(docs, g.account, g.hash), DateKept(g, us, now),
           Reply(s, g, "not modified", Len(docs[g.account]))
    PROVE  Lands(s, us, ps)
<1> DEFINE n == Len(docs[g.account])
           c == [state |-> "replied", account |-> g.account, hash |-> g.hash, pid |-> g.pid,
                 endDate |-> g.endDate, paidUntil |-> g.paidUntil, forced |-> g.forced,
                 reply |-> "not modified", version |-> n]
<1>1. g.account \in Accounts /\ docs[g.account] \in Seq(Documents) BY DEF Served, Opened
<1>2. n \in DOMAIN docs[g.account] /\ n \in Nat BY <1>1, LastVersion DEF IsLatest
<1>20. docs[g.account][n].hash = g.hash BY DEF IsLatest, Latest
<1>3. c \in Replied BY <1>2 DEF Replied, Served, Opened
<1>4. VersionKept(c, docs) /\ DateKept(c, us, now) BY <1>2, <1>20 DEF VersionKept, DateKept
<1>5. c \in Contexts /\ c \notin Served BY <1>3, ContextKinds DEF Contexts
<1>6. ContextInv(c, us, docs, ps, orders, now) BY <1>4, <1>5 DEF ContextInv
<1>7. puc' = [puc EXCEPT ![s] = c] /\ c.pid = g.pid BY DEF Reply
<1> QED BY <1>5, <1>6, <1>7 DEF Lands

(* The call leaves a request that waits for the merchant.                  *)
LEMMA LandsParked ==
    ASSUME NEW s \in Slots, NEW us, NEW ps, NEW g \in Opened(Pids \cup {NoPid}), NEW p \in Pids,
           Unshared(s, p), orders[p] = NoOrder => ps[p] = NoRows, DateKept(g, us, now),
           \/ BeginPayment(s, g, p)
           \/ BeginPayment(s, [g EXCEPT !.provided = TRUE], p)
           \/ AwaitPayment(s, g) /\ p = g.pid
    PROVE  Lands(s, us, ps)
<1>1. PICK c \in Served : /\ puc' = [puc EXCEPT ![s] = c]
                          /\ c.state = "parked" /\ c.pid = p /\ c.account = g.account
                          /\ c.paidUntil = g.paidUntil
  <2> DEFINE asked(h) == [h EXCEPT !.state = "parked", !.merchant = "order", !.pid = p]
  <2>1. CASE BeginPayment(s, g, p)
    <3>1. puc' = [puc EXCEPT ![s] = asked(g)] BY <2>1 DEF BeginPayment
    <3>2. asked(g) \in Served BY DEF Served, Opened
    <3>3. /\ asked(g).state = "parked" /\ asked(g).pid = p
          /\ asked(g).account = g.account /\ asked(g).paidUntil = g.paidUntil
      BY DEF Opened
    <3> QED BY <3>1, <3>2, <3>3
  <2>2. CASE BeginPayment(s, [g EXCEPT !.provided = TRUE], p)
    <3> DEFINE h == [g EXCEPT !.provided = TRUE]
    <3>1. puc' = [puc EXCEPT ![s] = asked(h)] BY <2>2 DEF BeginPayment
    <3>2. h \in Opened(Pids \cup {NoPid}) /\ h.account = g.account /\ h.paidUntil = g.paidUntil
      BY DEF Opened
    <3> HIDE DEF h
    <3>3. asked(h) \in Served BY <3>2 DEF Served, Opened
    <3>4. /\ asked(h).state = "parked" /\ asked(h).pid = p
          /\ asked(h).account = g.account /\ asked(h).paidUntil = g.paidUntil
      BY <3>2 DEF Opened
    <3> QED BY <3>1, <3>3, <3>4
  <2>3. CASE AwaitPayment(s, g) /\ p = g.pid
    <3> DEFINE c == [g EXCEPT !.state = "parked", !.merchant = "check"]
    <3>1. puc' = [puc EXCEPT ![s] = c] BY <2>3 DEF AwaitPayment
    <3>2. c \in Served BY <2>3 DEF Served, Opened
    <3>3. c.state = "parked" /\ c.pid = p /\ c.account = g.account /\ c.paidUntil = g.paidUntil
      BY <2>3 DEF Opened
    <3> QED BY <3>1, <3>2, <3>3
  <2> QED BY <2>1, <2>2, <2>3
<1>2. ReadsPaid(c, ps) /\ AsksOnce(c, ps, orders) BY <1>1 DEF ReadsPaid, AsksOnce
<1>3. DateKept(c, us, now) BY <1>1 DEF DateKept
<1> QED BY <1>1, <1>2, <1>3, LandsServed

(* prepare_payment: a check of the identifier, or an order with a fresh    *)
(* one.                                                                    *)
LEMMA Prepared ==
    ASSUME Types, NEW s \in Slots, NEW us, NEW ps, NEW g \in Served, DateKept(g, us, now),
           Unshared(s, g.pid), g.provided => (orders[g.pid] = NoOrder => ps[g.pid] = NoRows),
           \A p \in FreshPids \ {g.pid} : ps[p] = NoRows,
           PreparePayment(s, g)
    PROVE  Lands(s, us, ps)
<1>1. g \in Opened(Pids \cup {NoPid}) /\ g.pid \in Pids BY DEF Served, Opened
<1>2. CASE g.provided
  <2>1. AwaitPayment(s, g) BY <1>2 DEF PreparePayment
  <2> QED BY <1>1, <1>2, <2>1, LandsParked
<1>3. CASE ~g.provided
  <2>1. PICK p \in FreshPids \ {g.pid} : BeginPayment(s, [g EXCEPT !.provided = TRUE], p)
    BY <1>3 DEF PreparePayment
  <2>2. p \in Pids /\ Unshared(s, p) BY FreshPid
  <2> QED BY <1>1, <2>1, <2>2, LandsParked
<1> QED BY <1>2, <1>3

(* The part of the first call from lookup_account on.                      *)
LEMMA AccountChecked ==
    ASSUME Types, NEW s \in Slots, NEW us \in [Accounts -> Nat], NEW ps, NEW g \in Served,
           Unshared(s, g.pid), g.state = "reading", ReadsPaid(g, ps), AsksOnce(g, ps, orders),
           \A p \in FreshPids \ {g.pid} : ps[p] = NoRows,
           CheckAccount(s, g, us)
    PROVE  Lands(s, us, ps)
<1> DEFINE until == PaidUntil(us, g)
           toPay == IF g.endDate > until THEN (g.endDate - until + Year - 1) \div Year ELSE 0
           h == [g EXCEPT !.paidUntil = until, !.toPay = toPay,
                          !.forced = docs[g.account] # <<>> /\ toPay # 0]
<1>1. g.account \in Accounts /\ g.endDate \in Nat /\ now \in Nat BY DEF Served, Opened, Types
<1>2. until \in Nat BY <1>1 DEF PaidUntil, Later
<1>3. toPay \in Nat
  <2>1. g.endDate > until => g.endDate - until + Year - 1 \in Nat BY <1>1, <1>2, Numbers
  <2> QED BY <2>1, Numbers
<1>4. h \in Served BY <1>2, <1>3 DEF Served, Opened
<1>5. /\ h.state = "reading" /\ h.account = g.account /\ h.pid = g.pid /\ h.hash = g.hash
      /\ h.provided = g.provided /\ h.paidUntil = until
  BY DEF Served, Opened
<1>6. ReadsPaid(h, ps) /\ AsksOnce(h, ps, orders) BY <1>5 DEF ReadsPaid, AsksOnce
<1>7. DateKept(h, us, now) BY <1>2, <1>5 DEF DateKept, PaidUntil
<1>8. IF ~HasUser(us, g.account) \/ h.forced THEN PreparePayment(s, h)
      ELSE IF IsLatest(docs, g.account, g.hash) THEN Reply(s, h, "not modified", Len(docs[g.account]))
           ELSE puc' = [puc EXCEPT ![s] = h]
  BY DEF CheckAccount
<1> HIDE DEF h
<1>9. CASE PreparePayment(s, h)
  <2>1. h.provided => (orders[h.pid] = NoOrder => ps[h.pid] = NoRows) BY <1>6 DEF AsksOnce
  <2> QED BY <1>4, <1>5, <1>7, <1>9, <2>1, Prepared
<1>10. CASE IsLatest(docs, g.account, g.hash) /\ Reply(s, h, "not modified", Len(docs[g.account]))
  BY <1>4, <1>5, <1>7, <1>10, LandsReplied DEF Types
<1>11. CASE puc' = [puc EXCEPT ![s] = h]
  BY <1>4, <1>5, <1>6, <1>7, <1>11, LandsServed
<1> QED BY <1>8, <1>9, <1>10, <1>11

(* The part of the first call from check_payment_identifier on.            *)
LEMMA IdentifierChecked ==
    ASSUME Types, NEW s \in Slots, NEW g \in Served, g.state = "reading", g.paidUntil = 0,
           Unshared(s, g.pid), AsksOnce(g, pays, orders), g.provided,
           CheckIdentifier(s, g)
    PROVE  Lands(s, users, pays)
<1> DEFINE rows == pays[g.pid]
           h == [g EXCEPT !.provided = FALSE, !.toPay = Later(@, 1)]
           Judged(paid, valid) ==
               IF ~valid THEN PreparePayment(s, h)
               ELSE IF ~paid THEN PreparePayment(s, g) ELSE CheckAccount(s, g, users)
<1>1. /\ g.pid \in Pids /\ g.account \in Accounts /\ rows \in Rows /\ now \in Nat
      /\ users \in [Accounts -> Nat] /\ \A p \in FreshPids : pays[p] = NoRows
  BY DEF Served, Opened, Types, FreshPids
<1>2. DateKept(g, users, now) BY <1>1 DEF DateKept, Later
<1>3. /\ h \in Served /\ h.provided = FALSE /\ h.pid = g.pid
      /\ h.account = g.account /\ h.paidUntil = 0
  BY DEF Served, Opened, Later
<1>4. DateKept(h, users, now) BY <1>2, <1>3 DEF DateKept
<1>5. ASSUME NEW paid, NEW valid, Judged(paid, valid), paid => ReadsPaid(g, pays)
      PROVE  Lands(s, users, pays)
  <2> HIDE DEF h
  <2>1. CASE PreparePayment(s, h) BY <1>1, <1>3, <1>4, <2>1, Prepared
  <2>2. CASE PreparePayment(s, g) BY <1>1, <1>2, <2>2, Prepared DEF AsksOnce
  <2>3. CASE paid /\ CheckAccount(s, g, users) BY <1>1, <1>5, <2>3, AccountChecked
  <2> QED BY <1>5, <2>1, <2>2, <2>3
<1>6. CASE rows = NoRows
  <2>2. \E paid, valid \in Garbage : Judged(paid, valid)
    BY <1>6 DEF CheckIdentifier
  <2>20. PICK paid \in Garbage, valid \in Garbage : Judged(paid, valid) BY <2>2
  <2>3. ReadsPaid(g, pays) BY <1>6 DEF ReadsPaid
  <2> QED BY <1>5, <2>20, <2>3
<1>7. CASE rows # NoRows
  <2>1. DOMAIN rows = {1} BY <1>1, <1>7, OneRow
  <2>2. Cardinality(DOMAIN rows) = 1 BY <2>1, FS_Singleton
  <2>3. Judged(rows[1].paid, rows[1].left > 0) BY <1>7, <2>1, <2>2 DEF CheckIdentifier
  <2>4. rows[1].paid => ReadsPaid(g, pays) BY DEF ReadsPaid
  <2> QED BY <1>5, <2>3, <2>4
<1> QED BY <1>6, <1>7

-----------------------------------------------------------------------------
(* What the calls of the database do to users and payments                 *)

(* No call of the database shortens what is left of an account.            *)
LEMMA UsersOnlyGrow ==
    ASSUME NEW us \in [Accounts -> Nat], NEW a \in Accounts, NEW ps, NEW p, NEW t \in Nat, NEW n \in Nat
    PROVE  /\ WithTransientUser(us, a, t, n) \in [Accounts -> Nat]
           /\ UsersKept(us, WithTransientUser(us, a, t, n), t, t)
           /\ Incremented(us, ps, a, p, n, t) \in [Accounts -> Nat]
           /\ UsersKept(us, Incremented(us, ps, a, p, n, t), t, t)
           /\ Updated(us, ps, a, p, n) \in [Accounts -> Nat]
           /\ UsersKept(us, Updated(us, ps, a, p, n), t, t)
<1>1. \A d \in Nat, d2 \in Nat : d <= d2 => Later(d, t) <= Later(d2, t) BY DEF Later
<1>2. ASSUME NEW us2 \in [Accounts -> Nat], \A b \in Accounts : us[b] <= us2[b]
      PROVE  UsersKept(us, us2, t, t)
  BY <1>1, <1>2 DEF UsersKept
<1>3. /\ WithTransientUser(us, a, t, n) \in [Accounts -> Nat]
      /\ \A b \in Accounts : us[b] <= WithTransientUser(us, a, t, n)[b]
  BY DEF WithTransientUser, HasUser
<1>4. /\ Incremented(us, ps, a, p, n, t) \in [Accounts -> Nat]
      /\ \A b \in Accounts : us[b] <= Incremented(us, ps, a, p, n, t)[b]
  BY DEF Incremented, HasUser
<1>5. /\ Updated(us, ps, a, p, n) \in [Accounts -> Nat]
      /\ \A b \in Accounts : us[b] <= Updated(us, ps, a, p, n)[b]
  BY DEF Updated
<1> QED BY <1>2, <1>3, <1>4, <1>5

(* Two of them do not either.                                              *)
LEMMA UsersKeptTwice ==
    ASSUME NEW us \in [Accounts -> Nat], NEW us2 \in [Accounts -> Nat], NEW us3 \in [Accounts -> Nat],
           NEW t \in Nat, UsersKept(us, us2, t, t), UsersKept(us2, us3, t, t)
    PROVE  UsersKept(us, us3, t, t)
<1>1. ASSUME NEW a \in Accounts PROVE Later(us[a], t) <= Later(us3[a], t)
  <2>1. Later(us[a], t) \in Nat /\ Later(us2[a], t) \in Nat /\ Later(us3[a], t) \in Nat BY DEF Later
  <2>2. Later(us[a], t) <= Later(us2[a], t) /\ Later(us2[a], t) <= Later(us3[a], t) BY DEF UsersKept
  <2> QED BY <2>1, <2>2
<1> QED BY <1>1 DEF UsersKept

(* What garbage collection deletes is over.                                *)
LEMMA ExpiredUsersKept ==
    ASSUME NEW us \in [Accounts -> Nat], NEW t \in Nat, NEW b \in Int, b <= t
    PROVE  /\ WithoutExpired(us, b) \in [Accounts -> Nat]
           /\ UsersKept(us, WithoutExpired(us, b), t, t)
<1>1. WithoutExpired(us, b) \in [Accounts -> Nat] BY DEF WithoutExpired
<1>2. ASSUME NEW a \in Accounts
      PROVE  Later(us[a], t) <= Later(WithoutExpired(us, b)[a], t)
  BY DEF WithoutExpired, ExpiredUsers, Later
<1> QED BY <1>1, <1>2 DEF UsersKept

(* A row that stays, is forgotten unpaid, is added, or is paid.  ok: there *)
(* is no fee, or the order is paid.                                        *)
RowChange(r, r2, ok) ==
    \/ r2 = r
    \/ r2 = NoRows /\ ~IsPaid(r)
    \/ /\ r2 # NoRows /\ r2[1].left = (IF r = NoRows THEN PostCounter ELSE r[1].left)
       /\ IsPaid(r) => r2[1].paid
       /\ r2[1].paid => ok

(* Such a change of its row keeps the invariant of an identifier.          *)
LEMMA PaymentsStep ==
    ASSUME UploadInv, UNCHANGED <<docs, free>>,
           NEW p \in Pids, RowChange(pays[p], pays'[p], free \/ orders'[p].state = "paid"),
           orders[p].state = "paid" => orders'[p].state = "paid",
           \/ credits'[p] = credits[p]
           \/ credits'[p] = credits[p] + 1 /\ ~IsPaid(pays[p]) /\ IsPaid(pays'[p])
    PROVE  PaymentInv(p)'
<1>1. PaymentInv(p) /\ credits[p] \in Nat BY DEF UploadInv, Types
<1>2. DocsPaidBy(p)' = DocsPaidBy(p) BY DEF DocsPaidBy
<1>3. IsPaid(pays[p]) => IsPaid(pays'[p]) BY DEF RowChange, IsPaid
<1>4. pays'[p] # NoRows => Cardinality(DocsPaidBy(p)) + pays'[p][1].left = PostCounter
  <2>1. CASE pays'[p] = pays[p] BY <1>1, <2>1 DEF PaymentInv
  <2>2. CASE pays[p] = NoRows /\ pays'[p] # NoRows
    <3>1. Cardinality(DocsPaidBy(p)) = 0 BY <1>1, <2>2, FS_EmptySet DEF PaymentInv, IsPaid
    <3>2. pays'[p][1].left = PostCounter BY <2>2 DEF RowChange
    <3> QED BY <3>1, <3>2, Numbers
  <2>3. CASE pays[p] # NoRows /\ pays'[p] # NoRows BY <1>1, <2>3 DEF PaymentInv, RowChange
  <2> QED BY <2>1, <2>2, <2>3
<1>5. IsPaid(pays'[p]) => free \/ orders'[p].state = "paid" BY <1>1 DEF PaymentInv, RowChange, IsPaid
<1>6. credits'[p] # 0 => credits'[p] = 1 /\ IsPaid(pays'[p]) BY <1>1, <1>3 DEF PaymentInv
<1>7. IsPaid(pays[p])' = IsPaid(pays'[p]) BY DEF IsPaid
<1> QED BY <1>1, <1>2, <1>3, <1>4, <1>5, <1>6, <1>7 DEF PaymentInv

(* And so does no change.                                                  *)
LEMMA PaymentsSame ==
    ASSUME UploadInv, UNCHANGED <<docs, free, pays, orders, credits>>
    PROVE  \A p \in Pids : PaymentInv(p)'
BY PaymentsStep DEF RowChange

(* The handler has finished its call: the tables of documents and orders   *)
(* are as before, and payments have changed only for a new identifier.     *)
LEMMA Landed ==
    ASSUME UploadInv, NEW s \in Slots, Lands(s, users', pays'),
           users' \in [Accounts -> Nat], UsersKept(users, users', now, now),
           pays' \in [Pids -> Rows], \A p \in Pids : PaymentInv(p)',
           \A p \in Pids : p \in FreshPids \/ pays'[p] = pays[p],
           UNCHANGED <<now, free, docs, orders, credits>>
    PROVE  UploadInv'
<1>1. PICK c \in Contexts : /\ puc' = [puc EXCEPT ![s] = c]
                            /\ ContextInv(c, users', docs, pays', orders, now)
                            /\ c # NoRequest => Unshared(s, c.pid)
  BY DEF Lands
<1>2. Types /\ Types' BY <1>1 DEF UploadInv, Types
<1>3. ASSUME NEW t \in Slots \ {s}, puc[t] # NoRequest
      PROVE  /\ PidKept(puc[t].pid, pays, pays', orders, orders')
             /\ c # NoRequest /\ puc[t].pid = c.pid => orders'[c.pid] # NoOrder
  <2>1. puc[t].pid \in Pids BY <1>2, <1>3, ContextKinds DEF Types
  <2>2. puc[t].pid \notin FreshPids BY <1>2, <1>3, FreshPid
  <2>3. pays'[puc[t].pid] = pays[puc[t].pid] BY <2>1, <2>2
  <2> QED BY <1>1, <1>3, <2>3 DEF PidKept, RowKept, Unshared
<1>4. DocsKept(docs, docs') /\ UsersKept(users, users', now, now')
  BY <1>2, NothingLess
<1>5. ContextInv(c, users', docs', pays', orders', now') BY <1>1
<1> QED BY <1>1, <1>2, <1>3, <1>4, <1>5, SlotStep

-----------------------------------------------------------------------------
(* The actions                                                             *)

(* The context of a new request.                                           *)
LEMMA FreshIsOpened ==
    ASSUME Types, NEW q \in Requests
    PROVE  /\ Fresh(q) \in Opened(Pids \cup {NoPid})
           /\ Fresh(q).state = "reading" /\ Fresh(q).account = q.account /\ Fresh(q).pid = q.pid
           /\ Fresh(q).paidUntil = 0 /\ Fresh(q).provided = (q.pid # NoPid)
           /\ DateKept(Fresh(q), users, now)
<1>1. q.account \in Accounts /\ q.hash \in Hashes /\ q.pid \in Pids \cup {NoPid} /\ q.years \in Nat
  BY DurationsAssumption DEF Requests
<1>2. now + q.years * Year \in Nat
  <2>1. q.years * Year \in Nat BY <1>1, Numbers
  <2> QED BY <2>1 DEF Types
<1>3. 0 <= Later(users[q.account], now) BY <1>1 DEF Types, Later
<1>4. Fresh(q).account = q.account /\ Fresh(q).paidUntil = 0 BY DEF Fresh
<1>5. Fresh(q) \in Opened(Pids \cup {NoPid}) BY <1>1, <1>2 DEF Fresh, Opened
<1>6. DateKept(Fresh(q), users, now) BY <1>3, <1>4 DEF DateKept
<1> QED BY <1>5, <1>6 DEF Fresh

(* An upload without a fee.                                                *)
LEMMA FreeUploadStep ==
    ASSUME UploadInv, free, NEW s \in Slots, NEW q \in Requests, q.pid = NoPid, FreeUpload(s, Fresh(q)),
           UNCHANGED <<now, free, docs, orders, credits>>
    PROVE  UploadInv'
<1> DEFINE g == Fresh(q)
           us == WithTransientUser(users, g.account, now, Week)
<1>1. PICK p \in FreshPids :
        LET ps == WithPayment(pays, g.account, p, PostCounter, now)
        IN  \/ /\ users' = Updated(us, ps, g.account, p, now + MaxYears * Year)
               /\ pays' = WithPaid(ps, g.account, p)
               /\ CheckAccount(s, [g EXCEPT !.pid = p], users') \/ Refuse(s)
            \/ Refuse(s) /\ users' = us /\ pays' \in {pays, ps}
  BY DEF FreeUpload
<1> DEFINE ps == WithPayment(pays, g.account, p, PostCounter, now)
           h == [g EXCEPT !.pid = p]
<1>2. Types /\ now \in Nat /\ users \in [Accounts -> Nat] /\ pays \in [Pids -> Rows]
  BY DEF UploadInv, Types
<1>3. p \in Pids /\ orders[p] = NoOrder /\ pays[p] = NoRows /\ Unshared(s, p)
  BY <1>2, FreshPid
<1>4. /\ g \in Opened(Pids \cup {NoPid}) /\ g.account \in Accounts /\ g.state = "reading"
      /\ g.provided = FALSE /\ g.paidUntil = 0
  BY <1>2, FreshIsOpened DEF Opened
<1>5. /\ ps = [pays EXCEPT ![p] = [i \in {1} |-> PaymentRow(g.account, PostCounter, now)]]
      /\ ps \in [Pids -> Rows]
  BY <1>2, <1>3, <1>4, RowAdded
<1>6. /\ ps[p] # NoRows /\ ps[p][1].account = g.account /\ ps[p][1].left = PostCounter
      /\ ps[p][1].paid = FALSE /\ \A r \in Pids \ {p} : ps[r] = pays[r]
  BY <1>2, <1>3, <1>5 DEF PaymentRow, NoRows
<1>7. us \in [Accounts -> Nat] /\ UsersKept(users, us, now, now)
  BY <1>2, <1>4, Numbers, UsersOnlyGrow
<1> HIDE DEF g, us, ps
<1>8. \A r \in Pids : pays'[r] = pays[r] =>
          RowChange(pays[r], pays'[r], free \/ orders'[r].state = "paid")
  BY DEF RowChange
<1>9. CASE /\ users' = Updated(us, ps, g.account, p, now + MaxYears * Year)
           /\ pays' = WithPaid(ps, g.account, p)
           /\ CheckAccount(s, h, users') \/ Refuse(s)
  <2>1. now + MaxYears * Year \in Nat BY <1>2, Numbers
  <2>2. users' \in [Accounts -> Nat] /\ UsersKept(us, users', now, now)
    BY <1>2, <1>4, <1>7, <1>9, <2>1, UsersOnlyGrow
  <2>3. UsersKept(users, users', now, now) BY <1>2, <1>7, <2>2, UsersKeptTwice
  <2>4. /\ pays' \in [Pids -> Rows] /\ \A r \in Pids \ {p} : pays'[r] = pays[r]
        /\ pays'[p] # NoRows /\ pays'[p][1].account = g.account /\ pays'[p][1].left = PostCounter
        /\ pays'[p][1].paid = TRUE
    <3>1. ps \in [Pids -> Rows] /\ g.account \in Accounts /\ p \in Pids /\ pays' = WithPaid(ps, g.account, p)
      BY <1>3, <1>4, <1>5, <1>9
    <3>2. /\ pays' \in [Pids -> Rows] /\ \A r \in Pids \ {p} : pays'[r] = ps[r]
          /\ ps[p] = NoRows <=> pays'[p] = NoRows
          /\ ps[p] # NoRows => /\ pays'[p][1].account = ps[p][1].account
                               /\ pays'[p][1].left = ps[p][1].left
                               /\ pays'[p][1].paid = (ps[p][1].paid \/ ps[p][1].account = g.account)
      BY <3>1, RowPaid
    <3> QED BY <1>6, <3>2
  <2>5. RowChange(pays[p], pays'[p], free \/ orders'[p].state = "paid")
    BY <1>3, <2>4 DEF RowChange, IsPaid
  <2>6. \A r \in Pids : PaymentInv(r)' BY <1>8, <2>4, <2>5, PaymentsStep
  <2>7. Lands(s, users', pays')
    <3>1. CASE Refuse(s) BY <3>1, LandsRefused
    <3>2. CASE CheckAccount(s, h, users')
      <4>1. h \in Served /\ h.state = "reading" /\ h.pid = p /\ h.account = g.account /\ ~h.provided
        BY <1>3, <1>4 DEF Served, Opened
      <4>2. ReadsPaid(h, pays') BY <2>4, <4>1 DEF ReadsPaid
      <4>3. AsksOnce(h, pays', orders) BY <4>1 DEF AsksOnce
      <4>4. \A r \in FreshPids \ {h.pid} : pays'[r] = NoRows BY <1>2, <2>4, <4>1 DEF FreshPids
      <4> HIDE DEF h
      <4> QED BY <1>2, <1>3, <2>2, <3>2, <4>1, <4>2, <4>3, <4>4, AccountChecked
    <3> QED BY <1>9, <3>1, <3>2
  <2> QED BY <2>2, <2>3, <2>4, <2>6, <2>7, Landed
<1>10. CASE Refuse(s) /\ users' = us /\ pays' \in {pays, ps}
  <2>1. Lands(s, users', pays') BY <1>10, LandsRefused
  <2>2. pays' \in [Pids -> Rows] /\ \A r \in Pids \ {p} : pays'[r] = pays[r]
    BY <1>2, <1>5, <1>6, <1>10
  <2>3. RowChange(pays[p], pays'[p], free \/ orders'[p].state = "paid")
    BY <1>3, <1>6, <1>10 DEF RowChange, IsPaid
  <2>4. \A r \in Pids : PaymentInv(r)' BY <1>8, <2>2, <2>3, PaymentsStep
  <2> QED BY <1>7, <1>10, <2>1, <2>2, <2>4, Landed
<1> QED BY <1>1, <1>9, <1>10 DEF ps

(* The first call keeps the invariant.                                     *)
LEMMA PostStep ==
    ASSUME UploadInv, NEW s \in Slots, NEW q \in Requests, Post(s, q)
    PROVE  UploadInv'
<1> DEFINE g == Fresh(q)
<1>1. Types /\ users \in [Accounts -> Nat] /\ pays \in [Pids -> Rows] BY DEF UploadInv, Types
<1>2. /\ g \in Opened(Pids \cup {NoPid}) /\ g.state = "reading" /\ g.pid = q.pid
      /\ g.paidUntil = 0 /\ g.provided = (q.pid # NoPid) /\ DateKept(g, users, now)
  BY <1>1, FreshIsOpened
<1>3. /\ q.pid # NoPid => q.pid \in FreshPids \/ orders[q.pid] # NoOrder
      /\ UNCHANGED <<now, free, docs, orders, credits>>
  BY DEF Post
<1> HIDE DEF g
<1>4. ASSUME Lands(s, users, pays), UNCHANGED <<users, pays>>
      PROVE  UploadInv'
  <2>1. \A p \in Pids : PaymentInv(p)' BY <1>3, <1>4, PaymentsSame
  <2>2. UsersKept(users, users', now, now) BY <1>1, <1>4, NothingLess
  <2>3. Lands(s, users', pays') BY <1>4
  <2> QED BY <1>1, <1>3, <1>4, <2>1, <2>2, <2>3, Landed
<1>5. CASE q.pid # NoPid /\ CheckIdentifier(s, g) /\ UNCHANGED <<users, pays>>
  <2>1. g \in Served BY <1>2, <1>5 DEF Served, Opened
  <2>2. Unshared(s, g.pid) BY <1>1, <1>2, <1>3, <1>5, FreshPid DEF Unshared
  <2>3. AsksOnce(g, pays, orders) BY <1>1, <1>2, <1>3, <1>5, FreshPid DEF AsksOnce
  <2> QED BY <1>1, <1>2, <1>4, <1>5, <2>1, <2>2, <2>3, IdentifierChecked
<1>6. CASE /\ \E p \in FreshPids : BeginPayment(s, g, p)
           /\ UNCHANGED <<users, pays>>
  <2>1. PICK p \in FreshPids : BeginPayment(s, g, p) BY <1>6
  <2>2. p \in Pids /\ Unshared(s, p) /\ pays[p] = NoRows BY <1>1, FreshPid
  <2> QED BY <1>2, <1>4, <1>6, <2>1, <2>2, LandsParked
<1>7. CASE q.pid = NoPid /\ free /\ FreeUpload(s, Fresh(q))
  BY <1>3, <1>7, FreeUploadStep
<1> QED BY <1>5, <1>6, <1>7 DEF Post, g

(* A document is added to those of one account and one identifier.         *)
LEMMA DocumentAdded ==
    ASSUME docs \in [Accounts -> Seq(Documents)], NEW a \in Accounts, NEW h \in Hashes, NEW p \in Pids,
           docs' = WithDocument(docs, a, h, p)
    PROVE  /\ docs' \in [Accounts -> Seq(Documents)] /\ DocsKept(docs, docs')
           /\ NextVersion(docs, a) \in Nat /\ NextVersion(docs, a) \in DOMAIN docs'[a]
           /\ docs'[a][NextVersion(docs, a)].hash = h
           /\ DocsPaidBy(p)' = DocsPaidBy(p) \cup {<<a, NextVersion(docs, a)>>}
           /\ <<a, NextVersion(docs, a)>> \notin DocsPaidBy(p)
           /\ \A r \in Pids \ {p} : DocsPaidBy(r)' = DocsPaidBy(r)
<1> DEFINE n == NextVersion(docs, a)
           d == [hash |-> h, pid |-> p]
<1>1. docs' = [docs EXCEPT ![a] = Append(docs[a], d)] /\ d \in Documents /\ docs[a] \in Seq(Documents)
  BY DEF WithDocument, Documents
<1>2. /\ n \in Nat /\ DOMAIN docs[a] = 1 .. Len(docs[a]) /\ n = Len(docs[a]) + 1
      /\ n \notin DOMAIN docs[a]
  BY <1>1 DEF NextVersion
<1>3. docs'[a] = Append(docs[a], d) /\ \A b \in Accounts \ {a} : docs'[b] = docs[b] BY <1>1
<1>4. /\ docs'[a] \in Seq(Documents) /\ DOMAIN docs'[a] = DOMAIN docs[a] \cup {n} /\ docs'[a][n] = d
      /\ \A i \in DOMAIN docs[a] : docs'[a][i] = docs[a][i]
  BY <1>1, <1>2, <1>3
<1>5. docs' \in [Accounts -> Seq(Documents)] BY <1>1, <1>4
<1> HIDE DEF n
<1>6. DocsKept(docs, docs') BY <1>3, <1>4 DEF DocsKept
<1>7. ASSUME NEW r \in Pids, NEW v
      PROVE  v \in DocsPaidBy(r)' <=> v \in DocsPaidBy(r) \/ (r = p /\ v = <<a, n>>)
  <2>1. v \in DocsPaidBy(r)' <=>
          \E b \in Accounts : \E i \in DOMAIN docs'[b] : v = <<b, i>> /\ docs'[b][i].pid = r
    BY DEF DocsPaidBy
  <2>2. v \in DocsPaidBy(r) <=>
          \E b \in Accounts : \E i \in DOMAIN docs[b] : v = <<b, i>> /\ docs[b][i].pid = r
    BY PaidDocument
  <2>3. d.pid = p OBVIOUS
  <2>4. ASSUME NEW b \in Accounts, NEW i, i \in DOMAIN docs'[b], v = <<b, i>>, docs'[b][i].pid = r
        PROVE  v \in DocsPaidBy(r) \/ (r = p /\ v = <<a, n>>)
    <3>1. CASE b = a /\ i = n BY <1>4, <2>3, <2>4, <3>1
    <3>2. CASE i \in DOMAIN docs[b] /\ docs'[b][i] = docs[b][i] BY <2>2, <2>4, <3>2
    <3> QED BY <1>3, <1>4, <2>4, <3>1, <3>2
  <2>5. ASSUME NEW b \in Accounts, NEW i, i \in DOMAIN docs[b], v = <<b, i>>, docs[b][i].pid = r
        PROVE  v \in DocsPaidBy(r)'
    <3>1. i \in DOMAIN docs'[b] /\ docs'[b][i] = docs[b][i] BY <1>3, <1>4, <2>5
    <3> QED BY <2>1, <2>5, <3>1
  <2>6. ASSUME r = p, v = <<a, n>> PROVE v \in DocsPaidBy(r)' BY <1>4, <2>1, <2>3, <2>6
  <2> QED BY <2>1, <2>2, <2>4, <2>5, <2>6
<1>8. <<a, n>> \notin DocsPaidBy(p)
  <2> SUFFICES ASSUME <<a, n>> \in DocsPaidBy(p) PROVE FALSE OBVIOUS
  <2>1. PICK b \in Accounts : \E i \in DOMAIN docs[b] : <<a, n>> = <<b, i>> BY PaidDocument
  <2> QED BY <1>2, <2>1
<1>9. DocsPaidBy(p)' = DocsPaidBy(p) \cup {<<a, n>>} BY <1>7
<1>10. \A r \in Pids \ {p} : DocsPaidBy(r)' = DocsPaidBy(r) BY <1>7
<1>11. n \in DOMAIN docs'[a] /\ docs'[a][n].hash = h BY <1>4
<1> QED BY <1>2, <1>5, <1>6, <1>8, <1>9, <1>10, <1>11 DEF n

(* What the status of store_recovery_document says.                        *)
LEMMA StatusMeans ==
    ASSUME NEW us, NEW ds, NEW ps \in [Pids -> Rows], NEW a, NEW h, NEW p \in Pids
    PROVE  /\ StoreStatus(us, ds, ps, a, h, p) = "stored" =>
                 /\ ps[p] # NoRows /\ ps[p][1].account = a /\ ps[p][1].left # 0
                 /\ ~IsLatest(ds, a, h)
           /\ StoreStatus(us, ds, ps, a, h, p) = "same" => IsLatest(ds, a, h)
<1> DEFINE rows == RowsOf(ps, a, p)
           status == StoreStatus(us, ds, ps, a, h, p)
<1>1. status = "stored" => /\ ~IsLatest(ds, a, h) /\ Cardinality(rows) = 1
                           /\ ~\E i \in rows : ps[p][i].left = 0
  BY DEF StoreStatus
<1>2. status = "same" => IsLatest(ds, a, h) BY DEF StoreStatus
<1>3. Cardinality(rows) = 1 => rows # {} BY FS_EmptySet
<1>4. rows # {} => ps[p] # NoRows /\ ps[p][1].account = a /\ 1 \in rows BY OneRow DEF RowsOf
<1> QED BY <1>1, <1>2, <1>3, <1>4

(* A document that is stored uses up an upload of a paid row.              *)
LEMMA StoredStep ==
    ASSUME UploadInv, NEW s \in Slots, NEW g \in Served, puc[s] = g, g.state = "reading",
           StoreStatus(users, docs, pays, g.account, g.hash, g.pid) = "stored",
           NEW n, n = NextVersion(docs, g.account), Reply(s, g, "stored", n),
           docs' = WithDocument(docs, g.account, g.hash, g.pid),
           pays' = WithUploadSpent(pays, g.account, g.pid),
           UNCHANGED <<now, free, users, orders, credits>>
    PROVE  UploadInv'
<1> DEFINE a == g.account
           p == g.pid
           c == [state |-> "replied", account |-> a, hash |-> g.hash, pid |-> p,
                 endDate |-> g.endDate, paidUntil |-> g.paidUntil, forced |-> g.forced,
                 reply |-> "stored", version |-> n]
<1>1. Types /\ docs \in [Accounts -> Seq(Documents)] /\ pays \in [Pids -> Rows] BY DEF UploadInv, Types
<1>2. g # NoRequest BY ContextKinds DEF Contexts
<1>3. a \in Accounts /\ p \in Pids /\ g.hash \in Hashes BY DEF Served, Opened
<1>4. Unshared(s, p) /\ DateKept(g, users, now) /\ ReadsPaid(g, pays)
  <2>1. ContextInv(g, users, docs, pays, orders, now) BY DEF UploadInv
  <2>2. puc[s] # NoRequest => Unshared(s, puc[s].pid) BY DEF UploadInv
  <2> QED BY <1>2, <2>1, <2>2 DEF ContextInv
<1>5. pays[p] # NoRows /\ pays[p][1].account = a /\ pays[p][1].left # 0
  BY <1>1, <1>3, StatusMeans
<1>6. IsPaid(pays[p]) BY <1>4, <1>5 DEF ReadsPaid, IsPaid
<1>7. /\ docs' \in [Accounts -> Seq(Documents)] /\ DocsKept(docs, docs')
      /\ n \in Nat /\ n \in DOMAIN docs'[a] /\ docs'[a][n].hash = g.hash
      /\ DocsPaidBy(p)' = DocsPaidBy(p) \cup {<<a, n>>} /\ <<a, n>> \notin DocsPaidBy(p)
      /\ \A r \in Pids \ {p} : DocsPaidBy(r)' = DocsPaidBy(r)
  BY <1>1, <1>3, DocumentAdded
<1>8. /\ pays' = [pays EXCEPT ![p] = [i \in {1} |-> Spent(pays[p][1])]]
      /\ pays' \in [Pids -> Rows] /\ pays[p][1] \in Row
  BY <1>1, <1>3, <1>5, UploadSpent, OneRow
<1>9. /\ pays'[p] # NoRows /\ \A r \in Pids \ {p} : pays'[r] = pays[r]
      /\ pays'[p][1].account = a /\ pays'[p][1].left = pays[p][1].left - 1
      /\ pays'[p][1].paid = pays[p][1].paid
  BY <1>1, <1>3, <1>5, <1>8 DEF NoRows, Spent, Row
<1>10. c \in Replied /\ c \in Contexts /\ c \notin Served
  <2>1. c \in Replied BY <1>7 DEF Replied, Served, Opened
  <2> QED BY <2>1, ContextKinds DEF Contexts
<1>11. puc' = [puc EXCEPT ![s] = c] BY DEF Reply
<1> HIDE DEF c
<1>12. c.account = a /\ c.pid = p /\ c.hash = g.hash /\ c.paidUntil = g.paidUntil /\ c.version = n
  BY DEF c
<1> HIDE DEF a, p
<1>13. Types' BY <1>1, <1>7, <1>8, <1>10, <1>11 DEF Types
<1>14. ASSUME NEW r \in Pids PROVE PaymentInv(r)'
  <2>1. PaymentInv(r) BY DEF UploadInv
  <2>2. CASE r # p BY <1>7, <1>9, <2>1, <2>2 DEF PaymentInv, IsPaid
  <2>3. CASE r = p
    <3>1. /\ IsFiniteSet(DocsPaidBy(p)')
          /\ Cardinality(DocsPaidBy(p)') = Cardinality(DocsPaidBy(p)) + 1
      BY <1>7, <2>1, <2>3, FS_AddElement, ZenonT(60) DEF PaymentInv
    <3>2. Cardinality(DocsPaidBy(p)) \in Nat /\ pays[p][1].left \in Nat
      BY <1>8, <2>1, <2>3, FS_CardinalityType, Numbers DEF PaymentInv, Row
    <3>3. Cardinality(DocsPaidBy(p)') + pays'[p][1].left = PostCounter
      BY <1>5, <1>9, <2>1, <2>3, <3>1, <3>2 DEF PaymentInv
    <3>4. IsPaid(pays[p])' BY <1>6, <1>9 DEF IsPaid
    <3> QED BY <1>6, <2>1, <2>3, <3>1, <3>3, <3>4 DEF PaymentInv
  <2> QED BY <2>2, <2>3
<1>15. ContextInv(c, users', docs', pays', orders', now')
  <2>1. VersionKept(c, docs') BY <1>7, <1>12 DEF VersionKept
  <2>2. DateKept(c, users', now') BY <1>4, <1>12 DEF DateKept, a
  <2> QED BY <1>10, <2>1, <2>2 DEF ContextInv
<1>16. ASSUME NEW t \in Slots \ {s}, puc[t] # NoRequest
       PROVE  /\ PidKept(puc[t].pid, pays, pays', orders, orders')
              /\ c # NoRequest /\ puc[t].pid = c.pid => orders'[c.pid] # NoOrder
  <2>1. puc[t].pid \in Pids BY <1>1, <1>16, ContextKinds DEF Types
  <2>2. RowKept(pays[puc[t].pid], pays'[puc[t].pid]) BY <1>5, <1>9, <2>1 DEF RowKept
  <2> QED BY <1>4, <1>12, <1>16, <2>2 DEF PidKept, Unshared
<1>17. UsersKept(users, users', now, now') BY <1>1, NothingLess
<1> QED BY <1>7, <1>10, <1>11, <1>13, <1>14, <1>15, <1>16, <1>17, SlotStep

(* The calls for the body keep the invariant.                              *)
LEMMA UploadStep ==
    ASSUME UploadInv, NEW s \in Slots, Upload(s)
    PROVE  UploadInv'
<1>1. Types /\ docs \in [Accounts -> Seq(Documents)] /\ users \in [Accounts -> Nat] /\ pays \in [Pids -> Rows]
  BY DEF UploadInv, Types
<1>2. PICK g \in Served : puc[s] = g /\ g.state = "reading"
  BY ContextKinds DEF UploadInv, Types, Upload
<1>3. g # NoRequest /\ g.pid \in Pids /\ g \in Opened(Pids \cup {NoPid})
  BY ContextKinds DEF Contexts, Served, Opened
<1>4. Unshared(s, g.pid) /\ DateKept(g, users, now) /\ AsksOnce(g, pays, orders)
  <2>1. ContextInv(g, users, docs, pays, orders, now) BY <1>2 DEF UploadInv
  <2>2. puc[s] # NoRequest => Unshared(s, puc[s].pid) BY DEF UploadInv
  <2> QED BY <1>2, <1>3, <2>1, <2>2 DEF ContextInv
<1>5. UNCHANGED <<now, free, users, orders, credits>> BY DEF Upload
<1>6. ASSUME Lands(s, users, pays), UNCHANGED <<docs, pays>>
      PROVE  UploadInv'
  <2>1. \A p \in Pids : PaymentInv(p)' BY <1>5, <1>6, PaymentsSame
  <2>2. UsersKept(users, users', now, now) BY <1>1, <1>5, NothingLess
  <2>3. Lands(s, users', pays') BY <1>5, <1>6
  <2> QED BY <1>1, <1>5, <1>6, <2>1, <2>2, <2>3, Landed
<1> DEFINE status == StoreStatus(users, docs, pays, g.account, g.hash, g.pid)
           Again == IF g.provided THEN BeginPayment(s, g, g.pid)
                    ELSE \E p \in FreshPids : BeginPayment(s, [g EXCEPT !.provided = TRUE], p)
<1>7. CASE Refuse(s) /\ UNCHANGED <<docs, pays>> BY <1>6, <1>7, LandsRefused
<1>8. CASE Again /\ UNCHANGED <<docs, pays>>
  <2>1. CASE g.provided
    <3>1. BeginPayment(s, g, g.pid) BY <1>8, <2>1
    <3>2. orders[g.pid] = NoOrder => pays[g.pid] = NoRows BY <1>4, <2>1 DEF AsksOnce
    <3> QED BY <1>3, <1>4, <1>6, <1>8, <3>1, <3>2, LandsParked
  <2>2. CASE ~g.provided
    <3>1. PICK p \in FreshPids : BeginPayment(s, [g EXCEPT !.provided = TRUE], p) BY <1>8, <2>2
    <3>2. p \in Pids /\ Unshared(s, p) /\ pays[p] = NoRows BY <1>1, FreshPid
    <3> QED BY <1>3, <1>4, <1>6, <1>8, <3>1, <3>2, LandsParked
  <2> QED BY <2>1, <2>2
<1>9. CASE Store(s)
  <2>1. CASE status = "stored"
    <3>1. /\ Reply(s, g, "stored", NextVersion(docs, g.account))
          /\ docs' = WithDocument(docs, g.account, g.hash, g.pid)
          /\ pays' = WithUploadSpent(pays, g.account, g.pid)
      BY <1>2, <1>9, <2>1 DEF Store
    <3> QED BY <1>2, <1>5, <2>1, <3>1, StoredStep
  <2>2. CASE status = "same"
    <3>1. Reply(s, g, "not modified", Len(docs[g.account])) /\ UNCHANGED <<docs, pays>>
      BY <1>2, <1>9, <2>2 DEF Store
    <3>2. IsLatest(docs, g.account, g.hash) BY <1>1, <1>3, <2>2, StatusMeans
    <3> QED BY <1>1, <1>4, <1>6, <3>1, <3>2, LandsReplied
  <2>3. CASE status = "error"
    <3>1. Refuse(s) /\ UNCHANGED <<docs, pays>> BY <1>2, <1>9, <2>3 DEF Store
    <3> QED BY <1>7, <3>1
  <2>4. CASE status \notin {"stored", "same", "error"}
    <3>1. Again /\ UNCHANGED <<docs, pays>> BY <1>2, <1>9, <2>4 DEF Store
    <3> QED BY <1>8, <3>1
  <2> QED BY <2>1, <2>2, <2>3, <2>4
<1> QED BY <1>7, <1>9 DEF Upload

(* The end of a request keeps the invariant.                               *)
LEMMA DoneStep ==
    ASSUME UploadInv, NEW s \in Slots, Done(s)
    PROVE  UploadInv'
<1>1. Types /\ users \in [Accounts -> Nat] /\ pays \in [Pids -> Rows] BY DEF UploadInv, Types
<1>2. Refuse(s) /\ UNCHANGED <<now, free, users, docs, pays, orders, credits>> BY DEF Done, Refuse, tables
<1>3. Lands(s, users', pays') BY <1>2, LandsRefused
<1>4. \A p \in Pids : PaymentInv(p)' BY <1>2, PaymentsSame
<1>5. UsersKept(users, users', now, now) BY <1>1, <1>2, NothingLess
<1> QED BY <1>1, <1>2, <1>3, <1>4, <1>5, Landed

(* A callback of the merchant for slot s, which waits with g, leaves the   *)
(* reply resp.  Rows and orders of other identifiers do not change.        *)
LEMMA ResumedStep ==
    ASSUME UploadInv, NEW s \in Slots, NEW g \in Served, puc[s] = g, NEW resp \in {"pay", "timeout", "error"},
           Resumed(s, resp), UNCHANGED <<now, free, docs, credits>>,
           users' \in [Accounts -> Nat], UsersKept(users, users', now, now),
           pays' \in [Pids -> Rows], \A p \in Pids \ {g.pid} : pays'[p] = pays[p] /\ orders'[p] = orders[p],
           orders' \in [Pids -> Order], \A p \in Pids : PaymentInv(p)',
           \/ pays'[g.pid] = pays[g.pid] /\ orders'[g.pid] = orders[g.pid]
           \/ orders[g.pid] = NoOrder /\ orders'[g.pid] # NoOrder
    PROVE  UploadInv'
<1> DEFINE c == [state |-> "resumed", pid |-> g.pid, resp |-> resp]
<1>1. Types /\ puc \in [Slots -> Contexts] BY DEF UploadInv, Types
<1>2. g.pid \in Pids /\ g # NoRequest BY ContextKinds DEF Contexts
<1>3. Unshared(s, g.pid) BY <1>2 DEF UploadInv
<1>4. c \in Ended BY <1>2 DEF Ended
<1>5. c \in Contexts /\ c \notin Served /\ c \notin Replied BY <1>4, ContextKinds DEF Contexts
<1>6. puc' = [puc EXCEPT ![s] = c] BY DEF Resumed
<1>7. ContextInv(c, users', docs', pays', orders', now') BY <1>5 DEF ContextInv
<1>8. Types' BY <1>1, <1>5, <1>6 DEF Types
<1>9. c.pid = g.pid OBVIOUS
<1> HIDE DEF c
<1>10. ASSUME NEW t \in Slots \ {s}, puc[t] # NoRequest
       PROVE  /\ PidKept(puc[t].pid, pays, pays', orders, orders')
              /\ c # NoRequest /\ puc[t].pid = c.pid => orders'[c.pid] # NoOrder
  <2>1. puc[t].pid \in Pids BY <1>1, <1>10, ContextKinds
  <2>2. CASE puc[t].pid # g.pid BY <1>9, <2>1, <2>2 DEF PidKept, RowKept
  <2>3. CASE puc[t].pid = g.pid
    <3>1. orders[g.pid] # NoOrder BY <1>3, <1>10, <2>3 DEF Unshared
    <3>2. pays'[g.pid] = pays[g.pid] /\ orders'[g.pid] = orders[g.pid] BY <3>1
    <3> QED BY <1>9, <2>3, <3>1, <3>2 DEF PidKept, RowKept
  <2> QED BY <2>2, <2>3
<1>11. UsersKept(users, users', now, now') /\ DocsKept(docs, docs') BY <1>1, NothingLess
<1>12. \A p \in Pids : orders[p] # NoOrder => orders'[p] # NoOrder BY <1>2
<1> QED BY <1>5, <1>6, <1>7, <1>8, <1>10, <1>11, <1>12, SlotStep

(* The callback for a new order keeps the invariant: the merchant accepts  *)
(* it only for an identifier without a row.                                *)
LEMMA ProposalStep ==
    ASSUME UploadInv, NEW s \in Slots, ProposalCb(s)
    PROVE  UploadInv'
<1>1. /\ Types /\ users \in [Accounts -> Nat] /\ pays \in [Pids -> Rows] /\ now \in Nat
      /\ orders \in [Pids -> Order] /\ UNCHANGED <<now, free, docs, credits>>
  BY DEF UploadInv, Types, ProposalCb
<1>2. PICK g \in Served : puc[s] = g /\ g.state = "parked"
  BY ContextKinds DEF UploadInv, Types, ProposalCb
<1>3. g.pid \in Pids /\ g.account \in Accounts /\ g.toPay \in Nat BY DEF Served, Opened
<1>4. orders[g.pid] = NoOrder => pays[g.pid] = NoRows
  <2>1. ContextInv(g, users, docs, pays, orders, now) BY <1>2 DEF UploadInv
  <2> QED BY <1>2, <2>1 DEF ContextInv, AsksOnce
<1> DEFINE us == WithTransientUser(users, g.account, now, Week)
           order == [state |-> "unpaid", years |-> g.toPay]
<1>5. us \in [Accounts -> Nat] /\ UsersKept(users, us, now, now) /\ UsersKept(users, users, now, now)
  BY <1>1, <1>3, Numbers, UsersOnlyGrow, NothingLess
<1>6. order \in Order /\ order # NoOrder BY <1>3 DEF Order, NoOrder
<1> HIDE DEF us, order
<1>7. CASE Resumed(s, "error") /\ UNCHANGED <<users, pays, orders>>
  <2>1. \A p \in Pids : PaymentInv(p)' BY <1>1, <1>7, PaymentsSame
  <2> QED BY <1>1, <1>2, <1>5, <1>7, <2>1, ResumedStep
<1>8. CASE /\ orders[g.pid] = NoOrder /\ orders' = [orders EXCEPT ![g.pid] = order]
           /\ \/ /\ users' = us /\ Resumed(s, "pay")
                 /\ pays' = WithPayment(pays, g.account, g.pid, PostCounter, now)
              \/ users' \in {users, us} /\ Resumed(s, "error") /\ UNCHANGED pays
  <2>1. /\ orders' \in [Pids -> Order] /\ orders'[g.pid] # NoOrder
        /\ \A p \in Pids \ {g.pid} : orders'[p] = orders[p]
    BY <1>1, <1>3, <1>6, <1>8
  <2>2. \A p \in Pids : orders[p].state = "paid" => orders'[p].state = "paid"
    BY <1>8, <2>1 DEF NoOrder
  <2>3. users' \in [Accounts -> Nat] /\ UsersKept(users, users', now, now) BY <1>1, <1>5, <1>8
  <2>4. CASE pays' = WithPayment(pays, g.account, g.pid, PostCounter, now) /\ Resumed(s, "pay")
    <3>0. pays[g.pid] = NoRows BY <1>4, <1>8
    <3>1. /\ pays' = [pays EXCEPT ![g.pid] = [i \in {1} |-> PaymentRow(g.account, PostCounter, now)]]
          /\ pays' \in [Pids -> Rows]
      <4> DEFINE ps == WithPayment(pays, g.account, g.pid, PostCounter, now)
      <4>1. /\ ps = [pays EXCEPT ![g.pid] = [i \in {1} |-> PaymentRow(g.account, PostCounter, now)]]
            /\ ps \in [Pids -> Rows]
        BY <1>1, <1>3, <3>0, RowAdded
      <4> HIDE DEF ps
      <4>2. pays' = ps BY <2>4 DEF ps
      <4> QED BY <4>1, <4>2
    <3>2. /\ pays'[g.pid] # NoRows /\ pays'[g.pid][1].left = PostCounter
          /\ pays'[g.pid][1].paid = FALSE /\ \A p \in Pids \ {g.pid} : pays'[p] = pays[p]
      BY <1>1, <1>3, <3>1 DEF PaymentRow, NoRows
    <3>3. \A p \in Pids : RowChange(pays[p], pays'[p], free \/ orders'[p].state = "paid")
      BY <1>4, <1>8, <3>2 DEF RowChange, IsPaid
    <3>4. \A p \in Pids : PaymentInv(p)' BY <1>1, <2>2, <3>3, PaymentsStep
    <3> QED BY <1>1, <1>2, <1>8, <2>1, <2>3, <2>4, <3>1, <3>2, <3>4, ResumedStep
  <2>5. CASE Resumed(s, "error") /\ UNCHANGED pays
    <3>1. \A p \in Pids : RowChange(pays[p], pays'[p], free \/ orders'[p].state = "paid")
      BY <2>5 DEF RowChange
    <3>2. \A p \in Pids : PaymentInv(p)' BY <1>1, <2>2, <3>1, PaymentsStep
    <3> QED BY <1>1, <1>2, <1>8, <2>1, <2>3, <2>5, <3>2, ResumedStep
  <2> QED BY <1>8, <2>4, <2>5
<1>9. \/ /\ orders[g.pid] = NoOrder /\ orders' = [orders EXCEPT ![g.pid] = order]
         /\ \/ /\ users' = us /\ Resumed(s, "pay")
               /\ pays' = WithPayment(pays, g.account, g.pid, PostCounter, now)
            \/ users' \in {users, us} /\ Resumed(s, "error") /\ UNCHANGED pays
      \/ Resumed(s, "error") /\ UNCHANGED <<users, pays, orders>>
  BY <1>2 DEF ProposalCb, us, order
<1> QED BY <1>7, <1>8, <1>9

(* The request goes on when the payment is there: its row is paid then.    *)
LEMMA PaidStep ==
    ASSUME UploadInv, NEW s \in Slots, NEW g \in Served, puc[s] = g,
           orders[g.pid].state = "paid", NEW life \in Nat,
           users' = Incremented(users, pays, g.account, g.pid, life, now),
           pays' = WithPaid(pays, g.account, g.pid),
           credits' = IF UnpaidRows(pays, g.account, g.pid) = {} THEN credits
                      ELSE [credits EXCEPT ![g.pid] = @ + 1],
           puc' = [puc EXCEPT ![s] = [g EXCEPT !.state = "reading", !.merchant = "none",
                                                !.paidUntil = users'[g.account]]],
           UNCHANGED <<now, free, docs, orders>>
    PROVE  UploadInv'
<1> DEFINE p == g.pid
           c == [g EXCEPT !.state = "reading", !.merchant = "none", !.paidUntil = users'[g.account]]
<1>1. /\ Types /\ users \in [Accounts -> Nat] /\ pays \in [Pids -> Rows] /\ now \in Nat
      /\ credits \in [Pids -> Nat] /\ puc \in [Slots -> Contexts]
  BY DEF UploadInv, Types
<1>2. p \in Pids /\ g.account \in Accounts /\ g # NoRequest
  BY ContextKinds DEF Served, Opened, Contexts
<1>3. users' \in [Accounts -> Nat] /\ UsersKept(users, users', now, now')
  BY <1>1, <1>2, UsersOnlyGrow
<1>4. /\ pays' \in [Pids -> Rows] /\ \A q \in Pids \ {p} : pays'[q] = pays[q]
      /\ pays[p] = NoRows <=> pays'[p] = NoRows
      /\ pays[p] # NoRows => /\ pays'[p][1].account = pays[p][1].account
                             /\ pays'[p][1].left = pays[p][1].left
                             /\ pays'[p][1].paid = (pays[p][1].paid \/ pays[p][1].account = g.account)
  BY <1>1, <1>2, RowPaid
<1>5. c \in Served /\ c.pid = p /\ c.account = g.account /\ c.paidUntil = users'[g.account]
  BY <1>2, <1>3 DEF Served, Opened
<1>6. puc' = [puc EXCEPT ![s] = c] OBVIOUS
<1> HIDE DEF c
<1>7. c \in Contexts /\ c \notin Replied BY <1>5, ContextKinds DEF Contexts
<1>8. credits' \in [Pids -> Nat] BY <1>1, <1>2
<1>9. Types' BY <1>1, <1>3, <1>4, <1>6, <1>7, <1>8 DEF Types
<1>10. ASSUME NEW q \in Pids PROVE PaymentInv(q)'
  <2>1. CASE q # p
    <3>1. RowChange(pays[q], pays'[q], free \/ orders'[q].state = "paid") /\ credits'[q] = credits[q]
      BY <1>1, <1>2, <1>4, <2>1 DEF RowChange
    <3> QED BY <3>1, PaymentsStep
  <2>2. CASE q = p
    <3>1. RowChange(pays[p], pays'[p], free \/ orders'[p].state = "paid")
      <4>1. CASE pays[p] = NoRows BY <1>4, <4>1 DEF RowChange
      <4>2. CASE pays[p] # NoRows BY <1>4, <4>2 DEF RowChange, IsPaid
      <4> QED BY <4>1, <4>2
    <3>2. CASE UnpaidRows(pays, g.account, p) = {} BY <2>2, <3>1, <3>2, PaymentsStep
    <3>3. CASE UnpaidRows(pays, g.account, p) # {}
      <4>1. pays[p] # NoRows /\ pays[p][1].account = g.account /\ ~pays[p][1].paid
        BY <1>1, <1>2, <3>3, OneRow DEF UnpaidRows, RowsOf
      <4>2. ~IsPaid(pays[p]) /\ IsPaid(pays'[p]) BY <1>4, <4>1 DEF IsPaid
      <4>3. credits'[p] = credits[p] + 1 BY <1>1, <1>2, <3>3
      <4> QED BY <2>2, <3>1, <4>2, <4>3, PaymentsStep
    <3> QED BY <3>2, <3>3
  <2> QED BY <2>1, <2>2
<1>11. ContextInv(c, users', docs', pays', orders', now')
  <2>1. ReadsPaid(c, pays') BY <1>4, <1>5, ZenonT(60) DEF ReadsPaid
  <2>2. AsksOnce(c, pays', orders') BY <1>5 DEF AsksOnce, NoOrder
  <2>3. DateKept(c, users', now')
    <3>1. users'[g.account] \in Nat BY <1>2, <1>3
    <3> QED BY <1>1, <1>5, <3>1 DEF DateKept, Later
  <2> QED BY <1>7, <2>1, <2>2, <2>3 DEF ContextInv
<1>12. ASSUME NEW t \in Slots \ {s}, puc[t] # NoRequest
       PROVE  /\ PidKept(puc[t].pid, pays, pays', orders, orders')
              /\ c # NoRequest /\ puc[t].pid = c.pid => orders'[c.pid] # NoOrder
  <2>1. puc[t].pid \in Pids BY <1>1, <1>12, ContextKinds
  <2>2. RowKept(pays[puc[t].pid], pays'[puc[t].pid]) BY <1>4, <2>1 DEF RowKept
  <2> QED BY <1>5, <2>2 DEF PidKept, NoOrder
<1>13. DocsKept(docs, docs') BY <1>1, NothingLess
<1> QED BY <1>3, <1>6, <1>7, <1>9, <1>10, <1>11, <1>12, <1>13, SlotStep

(* The callback of the long poll keeps the invariant.                      *)
LEMMA CheckPaymentStep ==
    ASSUME UploadInv, NEW s \in Slots, CheckPaymentCb(s)
    PROVE  UploadInv'
<1>1. /\ Types /\ users \in [Accounts -> Nat] /\ pays \in [Pids -> Rows]
      /\ orders \in [Pids -> Order] /\ UNCHANGED <<now, free, docs, orders>>
  BY DEF UploadInv, Types, CheckPaymentCb
<1>2. PICK g \in Served : puc[s] = g BY ContextKinds DEF UploadInv, Types, CheckPaymentCb
<1>3. Lifetime(orders[g.pid]) \in Nat
  <2>1. orders[g.pid].years \in Nat BY <1>1 DEF Served, Opened, Order
  <2>2. orders[g.pid].years * Year \in Nat BY <2>1, Numbers
  <2> QED BY <2>2, Numbers DEF Lifetime
<1>4. CASE /\ orders[g.pid].state = "paid"
           /\ users' = Incremented(users, pays, g.account, g.pid, Lifetime(orders[g.pid]), now)
           /\ pays' = WithPaid(pays, g.account, g.pid)
           /\ credits' = IF UnpaidRows(pays, g.account, g.pid) = {} THEN credits
                         ELSE [credits EXCEPT ![g.pid] = @ + 1]
           /\ puc' = [puc EXCEPT ![s] = [g EXCEPT !.state = "reading", !.merchant = "none",
                                                  !.paidUntil = users'[g.account]]]
  BY <1>1, <1>2, <1>3, <1>4, PaidStep
<1>5. CASE (Resumed(s, "timeout") \/ Resumed(s, "error")) /\ UNCHANGED <<users, pays, credits>>
  <2>1. \A p \in Pids : PaymentInv(p)' BY <1>1, <1>5, PaymentsSame
  <2>2. UsersKept(users, users', now, now) BY <1>1, <1>5, NothingLess
  <2> QED BY <1>1, <1>2, <1>5, <2>1, <2>2, ResumedStep
<1> QED BY <1>2, <1>4, <1>5 DEF CheckPaymentCb

(* The tables alone satisfy the invariant.                                 *)
LEMMA RestartStep ==
    ASSUME UploadInv, Restart
    PROVE  UploadInv'
<1>1. /\ Types /\ UNCHANGED <<now, free, users, docs, pays, orders, credits>>
      /\ puc' = [s \in Slots |-> NoRequest]
  BY DEF UploadInv, Restart, tables
<1>2. NoRequest \in Contexts /\ NoRequest \notin Served /\ NoRequest \notin Replied
  BY ContextKinds DEF Contexts
<1>3. Types' BY <1>1, <1>2 DEF Types
<1>4. \A p \in Pids : PaymentInv(p)' BY <1>1, PaymentsSame
<1>5. \A s \in Slots : puc'[s] = NoRequest BY <1>1
<1>6. \A s \in Slots : ContextInv(puc'[s], users', docs', pays', orders', now')
  BY <1>2, <1>5 DEF ContextInv
<1> QED BY <1>3, <1>4, <1>5, <1>6 DEF UploadInv

(* Garbage collection keeps the invariant.                                 *)
LEMMA GCStep ==
    ASSUME UploadInv, GC
    PROVE  UploadInv'
<1>1. /\ Types /\ users \in [Accounts -> Nat] /\ pays \in [Pids -> Rows] /\ now \in Nat
      /\ UNCHANGED <<now, free, puc, docs, orders, credits>>
      /\ users' = WithoutExpired(users, now - ExpireBackups)
      /\ pays' = WithoutPending(pays, now - ExpirePayments)
  BY DEF UploadInv, Types, GC
<1>2. users' \in [Accounts -> Nat] /\ UsersKept(users, users', now, now)
  BY <1>1, GraceAssumption, ExpiredUsersKept
<1>3. /\ pays' \in [Pids -> Rows]
      /\ \A p \in Pids : pays'[p] \in {NoRows, pays[p]} /\ (IsPaid(pays[p]) => pays'[p] = pays[p])
  BY <1>1, RowsForgotten
<1>4. \A p \in Pids : RowChange(pays[p], pays'[p], free \/ orders'[p].state = "paid")
  BY <1>3 DEF RowChange
<1>5. \A p \in Pids : PaymentInv(p)' BY <1>1, <1>4, PaymentsStep
<1>6. \A p \in Pids : PidKept(p, pays, pays', orders, orders') BY <1>1, <1>3 DEF PidKept, RowKept
<1>7. Types' BY <1>1, <1>2, <1>3 DEF Types
<1>8. UsersKept(users, users', now, now') /\ DocsKept(docs, docs') BY <1>1, <1>2, NothingLess
<1> QED BY <1>1, <1>5, <1>6, <1>7, <1>8, TableStep

(* The wallet that pays keeps the invariant.                               *)
LEMMA PayStep ==
    ASSUME UploadInv, NEW p \in Pids, Pay(p)
    PROVE  UploadInv'
<1>1. /\ Types /\ orders \in [Pids -> Order] /\ orders[p].state = "unpaid"
      /\ orders' = [orders EXCEPT ![p].state = "paid"]
      /\ UNCHANGED <<now, free, puc, users, docs, pays, credits>>
  BY DEF UploadInv, Types, Pay, tables
<1>2. /\ orders' \in [Pids -> Order] /\ orders'[p].state = "paid"
      /\ \A q \in Pids \ {p} : orders'[q] = orders[q]
  BY <1>1 DEF Order
<1>3. \A q \in Pids : RowChange(pays[q], pays'[q], free \/ orders'[q].state = "paid")
  BY <1>1 DEF RowChange
<1>4. \A q \in Pids : PaymentInv(q)' BY <1>1, <1>2, <1>3, PaymentsStep
<1>5. \A q \in Pids : PidKept(q, pays, pays', orders, orders')
  BY <1>1, <1>2 DEF PidKept, RowKept, NoOrder
<1>6. Types' BY <1>1, <1>2 DEF Types
<1>7. UsersKept(users, users', now, now') /\ DocsKept(docs, docs') BY <1>1, NothingLess
<1> QED BY <1>1, <1>4, <1>5, <1>6, <1>7, TableStep

(* The passing of time keeps the invariant.                                *)
LEMMA TickStep ==
    ASSUME UploadInv, Tick
    PROVE  UploadInv'
<1>1. /\ Types /\ now \in Nat /\ now' = now + 1 /\ users \in [Accounts -> Nat]
      /\ UNCHANGED <<free, puc, users, docs, pays, orders, credits>>
  BY DEF UploadInv, Types, Tick, tables
<1>2. \A a \in Accounts : Later(users[a], now) <= Later(users'[a], now') BY <1>1 DEF Later
<1>3. \A p \in Pids : PaymentInv(p)' BY <1>1, PaymentsSame
<1>4. \A p \in Pids : PidKept(p, pays, pays', orders, orders') BY <1>1 DEF PidKept, RowKept
<1>5. Types' BY <1>1 DEF Types
<1>6. UsersKept(users, users', now, now') /\ DocsKept(docs, docs')
  BY <1>1, <1>2, NothingLess DEF UsersKept
<1> QED BY <1>1, <1>3, <1>4, <1>5, <1>6, TableStep

(* The invariant holds initially.                                          *)
LEMMA InitInv == Init => UploadInv
<1> SUFFICES ASSUME Init PROVE UploadInv OBVIOUS
<1>1. Types
  <2>1. NoRequest \in Contexts /\ NoRows \in Rows BY DEF Contexts, Rows
  <2>2. NoOrder \in Order BY DEF NoOrder, Order
  <2>3. [a \in Accounts |-> <<>>] \in [Accounts -> Seq(Documents)] OBVIOUS
  <2> QED BY <2>1, <2>2, <2>3, FeesAssumption DEF Init, Types
<1>2. ASSUME NEW p \in Pids PROVE PaymentInv(p)
  <2>1. DocsPaidBy(p) = {}
    <3>1. \A a \in Accounts : docs[a] = <<>> BY DEF Init
    <3> QED BY <3>1, PaidDocument
  <2>2. pays[p] = NoRows /\ credits[p] = 0 BY DEF Init
  <2> QED BY <2>1, <2>2, FS_EmptySet DEF PaymentInv, IsPaid
<1>3. \A s \in Slots : puc[s] = NoRequest BY DEF Init
<1>4. NoRequest \notin Served /\ NoRequest \notin Replied BY ContextKinds DEF Contexts
<1>5. \A s \in Slots : ContextInv(puc[s], users, docs, pays, orders, now)
  BY <1>3, <1>4 DEF ContextInv
<1> QED BY <1>1, <1>2, <1>3, <1>5 DEF UploadInv

(* Every step keeps the invariant.                                         *)
LEMMA NextInv == UploadInv /\ [Next]_vars => UploadInv'
<1> SUFFICES ASSUME UploadInv, [Next]_vars PROVE UploadInv' OBVIOUS
<1>1. ASSUME NEW s \in Slots, NEW q \in Requests, Post(s, q) PROVE UploadInv' BY <1>1, PostStep
<1>2. ASSUME NEW s \in Slots, Upload(s) PROVE UploadInv' BY <1>2, UploadStep
<1>3. ASSUME NEW s \in Slots, Done(s) PROVE UploadInv' BY <1>3, DoneStep
<1>4. ASSUME NEW s \in Slots, ProposalCb(s) PROVE UploadInv' BY <1>4, ProposalStep
<1>5. ASSUME NEW s \in Slots, CheckPaymentCb(s) PROVE UploadInv' BY <1>5, CheckPaymentStep
<1>6. ASSUME NEW p \in Pids, Pay(p) PROVE UploadInv' BY <1>6, PayStep
<1>7. CASE Restart BY <1>7, RestartStep
<1>8. CASE GC BY <1>8, GCStep
<1>9. CASE Tick BY <1>9, TickStep
<1>10. CASE UNCHANGED vars
  <2>1. UNCHANGED <<now, free, puc, users, docs, pays, orders, credits>> BY <1>10 DEF vars, tables
  <2>2. \A p \in Pids : PaymentInv(p)' BY <2>1, PaymentsSame
  <2>3. Types /\ Types' BY <2>1 DEF UploadInv, Types
  <2>4. UsersKept(users, users', now, now') /\ DocsKept(docs, docs') BY <2>1, <2>3, NothingLess
  <2>5. \A p \in Pids : PidKept(p, pays, pays', orders, orders') BY <2>1 DEF PidKept, RowKept
  <2> QED BY <2>1, <2>2, <2>3, <2>4, <2>5, TableStep
<1> QED BY <1>1, <1>2, <1>3, <1>4, <1>5, <1>6, <1>7, <1>8, <1>9, <1>10 DEF Next

-----------------------------------------------------------------------------
(* The tables implement RecoveryLog                                        *)

(* The log of an account follows its documents.                            *)
LEMMA Hashed ==
    ASSUME NEW d \in Seq(Documents), NEW e \in Documents
    PROVE  /\ HashesOf(d) \in Seq(Hashes) /\ Len(HashesOf(d)) = Len(d)
           /\ \A i \in DOMAIN d : HashesOf(d)[i] = d[i].hash
           /\ HashesOf(d) = <<>> <=> d = <<>>
           /\ HashesOf(Append(d, e)) = Append(HashesOf(d), e.hash)
<1>1. DOMAIN d = 1 .. Len(d) /\ Len(d) \in Nat /\ \A i \in DOMAIN d : d[i].hash \in Hashes
  <2>1. DOMAIN d = 1 .. Len(d) /\ Len(d) \in Nat /\ \A i \in DOMAIN d : d[i] \in Documents
    OBVIOUS
  <2>2. \A x \in Documents : x.hash \in Hashes BY DEF Documents
  <2> QED BY <2>1, <2>2
<1>2. /\ HashesOf(d) \in Seq(Hashes) /\ Len(HashesOf(d)) = Len(d)
      /\ \A i \in DOMAIN d : HashesOf(d)[i] = d[i].hash
  BY <1>1 DEF HashesOf
<1>3. HashesOf(d) = <<>> <=> d = <<>> BY <1>2
<1>4. /\ Append(d, e) \in Seq(Documents) /\ Len(Append(d, e)) = Len(d) + 1
      /\ Append(d, e)[Len(d) + 1] = e /\ \A i \in 1 .. Len(d) : Append(d, e)[i] = d[i]
  OBVIOUS
<1>5. e.hash \in Hashes BY DEF Documents
<1>6. /\ Append(HashesOf(d), e.hash) \in Seq(Hashes) /\ Len(Append(HashesOf(d), e.hash)) = Len(d) + 1
      /\ Append(HashesOf(d), e.hash)[Len(d) + 1] = e.hash
      /\ \A i \in 1 .. Len(d) : Append(HashesOf(d), e.hash)[i] = d[i].hash
  BY <1>1, <1>2, <1>5
<1>7. HashesOf(Append(d, e)) = [i \in 1 .. Len(d) + 1 |-> Append(d, e)[i].hash] BY <1>4 DEF HashesOf
<1>8. \A i \in 1 .. Len(d) + 1 : Append(d, e)[i].hash = Append(HashesOf(d), e.hash)[i]
  <2>1. \A i \in 1 .. Len(d) + 1 : i = Len(d) + 1 \/ i \in 1 .. Len(d) BY <1>1
  <2> QED BY <1>4, <1>6, <2>1
<1>9. Append(HashesOf(d), e.hash) = [i \in 1 .. Len(d) + 1 |-> Append(HashesOf(d), e.hash)[i]]
  BY <1>6
<1> QED BY <1>2, <1>3, <1>7, <1>8, <1>9

(* The grant that a row stands for.                                        *)
LEMMA Granted ==
    ASSUME NEW r \in Rows
    PROVE  /\ r = NoRows => GrantOf(r) = Log!NoGrant
           /\ r # NoRows => GrantOf(r) = [account |-> r[1].account, left |-> r[1].left]
           /\ r # NoRows => GrantOf(r) # Log!NoGrant
<1>1. r = NoRows => GrantOf(r) = Log!NoGrant BY DEF GrantOf, Log!NoGrant
<1>2. ASSUME r # NoRows
      PROVE  GrantOf(r) = [account |-> r[1].account, left |-> r[1].left] /\ r[1].account \in Accounts
  <2>1. DOMAIN r = {1} /\ r[1] \in Row BY <1>2, OneRow
  <2>2. (CHOOSE i \in DOMAIN r : TRUE) = 1 BY <2>1
  <2> QED BY <1>2, <2>1, <2>2 DEF GrantOf, Row
<1>3. r # NoRows => GrantOf(r).account # "none" BY <1>2, AccountsAssumption
<1> QED BY <1>1, <1>2, <1>3 DEF Log!NoGrant

(* What a step does to the tables, in the terms of RecoveryLog.            *)
SameGrants(ps, ps2) == \A p \in Pids : GrantOf(ps2[p]) = GrantOf(ps[p])
NewGrant(ps, ps2, a, p) ==
    /\ ps[p] = NoRows /\ GrantOf(ps2[p]) = [account |-> a, left |-> PostCounter]
    /\ \A q \in Pids \ {p} : GrantOf(ps2[q]) = GrantOf(ps[q])

(* Nothing happens to the log and the grants.                              *)
LEMMA LogStutters ==
    ASSUME UNCHANGED docs, SameGrants(pays, pays')
    PROVE  UNCHANGED Log!vars
BY DEF SameGrants, Log!vars

(* A new row is a new grant.                                               *)
LEMMA LogGrants ==
    ASSUME Types, UNCHANGED docs, NEW a \in Accounts, NEW p \in Pids, NewGrant(pays, pays', a, p)
    PROVE  Log!Next
<1> DEFINE grants == [q \in Pids |-> GrantOf(pays[q])]
           grants2 == [q \in Pids |-> GrantOf(pays'[q])]
<1>1. grants[p] = Log!NoGrant BY Granted DEF Types, NewGrant
<1>2. grants2 = [grants EXCEPT ![p] = [account |-> a, left |-> PostCounter]] BY DEF NewGrant
<1>3. Log!Grant(a, p) BY <1>1, <1>2 DEF Log!Grant
<1> QED BY <1>3 DEF Log!Next

(* The first call grants uploads, if there is no fee, or changes no grant. *)
LEMMA PostLogged ==
    ASSUME Types, NEW s \in Slots, NEW q \in Requests, Post(s, q)
    PROVE  [Log!Next]_(Log!vars)
<1>1. UNCHANGED docs BY DEF Post
<1>2. CASE UNCHANGED pays BY <1>1, <1>2, LogStutters DEF SameGrants
<1>3. CASE FreeUpload(s, Fresh(q))
  <2> DEFINE a == q.account
  <2>1. Fresh(q).account = a BY DEF Fresh
  <2>2. a \in Accounts BY DEF Requests
  <2>3. PICK p \in FreshPids :
          pays' \in {pays, WithPayment(pays, a, p, PostCounter, now),
                     WithPaid(WithPayment(pays, a, p, PostCounter, now), a, p)}
    BY <1>3, <2>1 DEF FreeUpload
  <2> DEFINE ps == WithPayment(pays, a, p, PostCounter, now)
  <2>4. p \in Pids /\ pays[p] = NoRows BY DEF FreshPids
  <2>5. /\ ps = [pays EXCEPT ![p] = [i \in {1} |-> PaymentRow(a, PostCounter, now)]]
        /\ ps \in [Pids -> Rows]
    BY <2>2, <2>4, RowAdded DEF Types
  <2> HIDE DEF ps, a
  <2>6. /\ ps[p] # NoRows /\ ps[p][1].account = a /\ ps[p][1].left = PostCounter
        /\ \A r \in Pids \ {p} : ps[r] = pays[r]
    BY <2>4, <2>5 DEF PaymentRow, NoRows, Types
  <2> DEFINE ps2 == WithPaid(ps, a, p)
  <2>7. /\ ps2 \in [Pids -> Rows] /\ \A r \in Pids \ {p} : ps2[r] = ps[r]
        /\ ps[p] = NoRows <=> ps2[p] = NoRows
        /\ ps[p] # NoRows => ps2[p][1].account = ps[p][1].account /\ ps2[p][1].left = ps[p][1].left
    <3>1. ps \in [Pids -> Rows] /\ a \in Accounts /\ p \in Pids BY <2>2, <2>4, <2>5
    <3> QED BY <3>1, RowPaid
  <2> HIDE DEF ps2
  <2>8. CASE pays' = ps \/ pays' = ps2
    <3>0. /\ pays'[p] \in Rows /\ pays'[p] # NoRows
          /\ pays'[p][1].account = a /\ pays'[p][1].left = PostCounter
      BY <2>4, <2>5, <2>6, <2>7, <2>8
    <3>1. GrantOf(pays'[p]) = [account |-> a, left |-> PostCounter] BY <3>0, Granted
    <3>2. NewGrant(pays, pays', a, p) BY <2>4, <2>6, <2>7, <2>8, <3>1 DEF NewGrant
    <3> QED BY <1>1, <2>2, <2>4, <3>2, LogGrants
  <2> QED BY <1>2, <2>3, <2>8 DEF ps, ps2
<1> QED BY <1>2, <1>3 DEF Post

(* A document that is stored is a new entry of the log.                    *)
LEMMA LogStores ==
    ASSUME Types, NEW a \in Accounts, NEW h \in Hashes, NEW p \in Pids, ~IsLatest(docs, a, h),
           pays[p] # NoRows, pays[p][1].account = a, pays[p][1].left # 0,
           docs' = WithDocument(docs, a, h, p), pays' = WithUploadSpent(pays, a, p)
    PROVE  Log!Next
<1> DEFINE log == [b \in Accounts |-> HashesOf(docs[b])]
           log2 == [b \in Accounts |-> HashesOf(docs'[b])]
           grants == [q \in Pids |-> GrantOf(pays[q])]
           grants2 == [q \in Pids |-> GrantOf(pays'[q])]
           d == [hash |-> h, pid |-> p]
           left == pays[p][1].left
<1>1. docs \in [Accounts -> Seq(Documents)] /\ docs[a] \in Seq(Documents) /\ d \in Documents
  BY DEF Types, Documents
<1>2. /\ HashesOf(docs[a]) \in Seq(Hashes) /\ Len(HashesOf(docs[a])) = Len(docs[a])
      /\ \A i \in DOMAIN docs[a] : HashesOf(docs[a])[i] = docs[a][i].hash
      /\ HashesOf(docs[a]) = <<>> <=> docs[a] = <<>>
      /\ HashesOf(Append(docs[a], d)) = Append(HashesOf(docs[a]), d.hash)
  BY <1>1, Hashed
<1>3. log[a] = <<>> \/ log[a][Len(log[a])] # h
  <2>1. CASE docs[a] = <<>> BY <1>2, <2>1
  <2>2. CASE docs[a] # <<>>
    <3>1. Len(docs[a]) \in DOMAIN docs[a] BY <1>1, <2>2, LastVersion
    <3>2. docs[a][Len(docs[a])].hash # h BY <2>2 DEF IsLatest, Latest
    <3> QED BY <1>2, <3>1, <3>2
  <2> QED BY <2>1, <2>2
<1>4. log2 = [log EXCEPT ![a] = Append(log[a], h)]
  <2>1. docs'[a] = Append(docs[a], d) /\ \A b \in Accounts \ {a} : docs'[b] = docs[b]
    BY <1>1 DEF WithDocument
  <2> QED BY <1>2, <2>1, ZenonT(60)
<1>5. pays \in [Pids -> Rows] /\ pays[p] \in Rows /\ pays[p][1] \in Row BY OneRow DEF Types
<1>6. left \in Nat /\ left > 0 /\ left - 1 \in Nat BY <1>5, Numbers DEF Row
<1>7. grants[p] = [account |-> a, left |-> left] BY <1>5, Granted
<1>8. /\ pays' = [pays EXCEPT ![p] = [i \in {1} |-> Spent(pays[p][1])]] /\ pays' \in [Pids -> Rows]
  BY <1>5, UploadSpent
<1>9. /\ pays'[p] \in Rows /\ pays'[p] # NoRows /\ pays'[p][1] = Spent(pays[p][1])
      /\ \A q \in Pids \ {p} : pays'[q] = pays[q]
  BY <1>5, <1>8 DEF NoRows
<1>10. grants2[p] = [account |-> a, left |-> left - 1]
  <2>1. pays'[p][1].account = a /\ pays'[p][1].left = left - 1 BY <1>5, <1>9 DEF Spent, Row
  <2> QED BY <1>9, <2>1, Granted
<1>11. grants2 = [grants EXCEPT ![p].left = grants[p].left - 1]
  <2>1. [grants[p] EXCEPT !.left = grants[p].left - 1] = [account |-> a, left |-> left - 1] BY <1>7
  <2>2. \A q \in Pids \ {p} : grants2[q] = grants[q] BY <1>9
  <2> HIDE DEF left
  <2>3. grants2[p] = [grants[p] EXCEPT !.left = grants[p].left - 1] BY <1>10, <2>1
  <2> QED BY <2>2, <2>3
<1>12. grants[p].account = a /\ grants[p].left > 0 BY <1>6, <1>7
<1>13. Log!Store(a, h, p) BY <1>3, <1>4, <1>11, <1>12 DEF Log!Store
<1> QED BY <1>13 DEF Log!Next

(* The calls for the body add an entry or change nothing.                  *)
LEMMA UploadLogged ==
    ASSUME UploadInv, NEW s \in Slots, Upload(s)
    PROVE  [Log!Next]_(Log!vars)
<1>1. Types /\ pays \in [Pids -> Rows] BY DEF UploadInv, Types
<1>2. PICK g \in Served : puc[s] = g /\ g.state = "reading"
  BY ContextKinds DEF UploadInv, Types, Upload
<1>3. g.pid \in Pids /\ g.account \in Accounts /\ g.hash \in Hashes BY DEF Served, Opened
<1> DEFINE status == StoreStatus(users, docs, pays, g.account, g.hash, g.pid)
<1>4. CASE UNCHANGED <<docs, pays>> BY <1>4, LogStutters DEF SameGrants
<1>5. CASE Store(s) /\ status = "stored"
  <2>1. /\ docs' = WithDocument(docs, g.account, g.hash, g.pid)
        /\ pays' = WithUploadSpent(pays, g.account, g.pid)
    BY <1>2, <1>5 DEF Store
  <2>2. /\ pays[g.pid] # NoRows /\ pays[g.pid][1].account = g.account /\ pays[g.pid][1].left # 0
        /\ ~IsLatest(docs, g.account, g.hash)
    BY <1>1, <1>3, <1>5, StatusMeans
  <2> QED BY <1>1, <1>3, <2>1, <2>2, LogStores
<1>6. CASE Store(s) /\ status # "stored"
  <2>1. UNCHANGED <<docs, pays>> BY <1>2, <1>6 DEF Store
  <2> QED BY <1>4, <2>1
<1> QED BY <1>4, <1>5, <1>6 DEF Upload

(* The callback for a new order grants uploads or changes nothing.         *)
LEMMA ProposalLogged ==
    ASSUME UploadInv, NEW s \in Slots, ProposalCb(s)
    PROVE  [Log!Next]_(Log!vars)
<1>1. Types /\ pays \in [Pids -> Rows] /\ now \in Nat /\ UNCHANGED docs BY DEF UploadInv, Types, ProposalCb
<1>2. PICK g \in Served : puc[s] = g /\ g.state = "parked"
  BY ContextKinds DEF UploadInv, Types, ProposalCb
<1>3. g.pid \in Pids /\ g.account \in Accounts BY DEF Served, Opened
<1>4. orders[g.pid] = NoOrder => pays[g.pid] = NoRows
  <2>1. ContextInv(g, users, docs, pays, orders, now) BY <1>2 DEF UploadInv
  <2> QED BY <1>2, <2>1 DEF ContextInv, AsksOnce
<1> DEFINE ps == WithPayment(pays, g.account, g.pid, PostCounter, now)
<1>5. CASE UNCHANGED pays BY <1>1, <1>5, LogStutters DEF SameGrants
<1>6. CASE orders[g.pid] = NoOrder /\ pays' = ps
  <2>1. pays[g.pid] = NoRows BY <1>4, <1>6
  <2>2. /\ ps = [pays EXCEPT ![g.pid] = [i \in {1} |-> PaymentRow(g.account, PostCounter, now)]]
        /\ ps \in [Pids -> Rows]
    BY <1>1, <1>3, <2>1, RowAdded
  <2> HIDE DEF ps
  <2>3. /\ pays'[g.pid] \in Rows /\ pays'[g.pid] # NoRows
        /\ pays'[g.pid][1].account = g.account /\ pays'[g.pid][1].left = PostCounter
        /\ \A q \in Pids \ {g.pid} : pays'[q] = pays[q]
    BY <1>1, <1>3, <1>6, <2>2 DEF PaymentRow, NoRows
  <2>4. GrantOf(pays'[g.pid]) = [account |-> g.account, left |-> PostCounter] BY <2>3, Granted
  <2>5. NewGrant(pays, pays', g.account, g.pid) BY <2>1, <2>3, <2>4 DEF NewGrant
  <2> QED BY <1>1, <1>3, <2>5, LogGrants
<1> QED BY <1>2, <1>5, <1>6 DEF ProposalCb

(* That a row is paid changes no grant.                                    *)
LEMMA CheckPaymentLogged ==
    ASSUME UploadInv, NEW s \in Slots, CheckPaymentCb(s)
    PROVE  UNCHANGED Log!vars
<1>1. Types /\ pays \in [Pids -> Rows] /\ UNCHANGED docs BY DEF UploadInv, Types, CheckPaymentCb
<1>2. PICK g \in Served : puc[s] = g BY ContextKinds DEF UploadInv, Types, CheckPaymentCb
<1>3. g.pid \in Pids /\ g.account \in Accounts BY DEF Served, Opened
<1> DEFINE ps == WithPaid(pays, g.account, g.pid)
<1>4. CASE UNCHANGED pays BY <1>1, <1>4, LogStutters DEF SameGrants
<1>5. CASE pays' = ps
  <2>1. /\ ps \in [Pids -> Rows] /\ \A q \in Pids \ {g.pid} : ps[q] = pays[q]
        /\ pays[g.pid] = NoRows <=> ps[g.pid] = NoRows
        /\ pays[g.pid] # NoRows => /\ ps[g.pid][1].account = pays[g.pid][1].account
                                   /\ ps[g.pid][1].left = pays[g.pid][1].left
    BY <1>1, <1>3, RowPaid
  <2> HIDE DEF ps
  <2>2. ASSUME NEW q \in Pids PROVE GrantOf(pays'[q]) = GrantOf(pays[q])
    <3>1. CASE q # g.pid BY <1>5, <2>1, <3>1
    <3>2. CASE q = g.pid
      <4>1. pays[q] \in Rows /\ pays'[q] \in Rows BY <1>1, <1>5, <2>1
      <4>2. CASE pays[q] = NoRows BY <1>5, <2>1, <3>2, <4>2
      <4>3. CASE pays[q] # NoRows BY <1>5, <2>1, <3>2, <4>1, <4>3, Granted
      <4> QED BY <4>2, <4>3
    <3> QED BY <3>1, <3>2
  <2> QED BY <1>1, <2>2, LogStutters DEF SameGrants
<1> QED BY <1>2, <1>4, <1>5 DEF CheckPaymentCb

(* Garbage collection forgets identifiers of which no upload is used up.   *)
LEMMA GCLogged ==
    ASSUME UploadInv, GC
    PROVE  [Log!Next]_(Log!vars)
<1>1. Types /\ pays \in [Pids -> Rows] /\ UNCHANGED docs BY DEF UploadInv, Types, GC
<1>2. /\ pays' \in [Pids -> Rows]
      /\ \A p \in Pids : pays'[p] \in {NoRows, pays[p]} /\ (IsPaid(pays[p]) => pays'[p] = pays[p])
  BY <1>1, RowsForgotten DEF GC
<1> DEFINE ps == {p \in Pids : pays[p] # NoRows /\ pays'[p] = NoRows}
           grants == [p \in Pids |-> GrantOf(pays[p])]
           grants2 == [p \in Pids |-> GrantOf(pays'[p])]
<1>3. ASSUME NEW p \in ps PROVE grants[p] # Log!NoGrant /\ grants[p].left = PostCounter
  <2>1. p \in Pids /\ pays[p] # NoRows /\ ~IsPaid(pays[p]) BY <1>2
  <2>2. pays[p] \in Rows /\ pays[p][1] \in Row BY <1>1, <2>1, OneRow
  <2>3. PaymentInv(p) BY <2>1 DEF UploadInv
  <2>4. Cardinality(DocsPaidBy(p)) = 0 BY <2>1, <2>3, FS_EmptySet DEF PaymentInv
  <2>5. pays[p][1].left = PostCounter
    BY <2>1, <2>2, <2>3, <2>4, Numbers DEF PaymentInv, Row
  <2> QED BY <2>1, <2>2, <2>5, Granted
<1>4. ASSUME NEW p \in Pids
      PROVE  grants2[p] = IF p \in ps THEN Log!NoGrant ELSE grants[p]
  <2>1. CASE p \in ps BY <1>2, <2>1, Granted
  <2>2. CASE p \notin ps BY <1>2, <2>2
  <2> QED BY <2>1, <2>2
<1>5. grants2 = [p \in Pids |-> IF p \in ps THEN Log!NoGrant ELSE grants[p]] BY <1>4
<1>6. UNCHANGED [a \in Accounts |-> HashesOf(docs[a])] BY <1>1
<1>7. Log!Forget(ps) BY <1>3, <1>5, <1>6 DEF Log!Forget
<1>8. ps \in SUBSET Pids OBVIOUS
<1> QED BY <1>7, <1>8 DEF Log!Next

(* Initially the log is empty and nothing is granted.                      *)
LEMMA InitLogged == Init => Log!Init
<1> SUFFICES ASSUME Init PROVE Log!Init OBVIOUS
<1>1. \A a \in Accounts : HashesOf(docs[a]) = <<>> BY DEF Init, HashesOf
<1>2. \A p \in Pids : GrantOf(pays[p]) = Log!NoGrant BY DEF Init, GrantOf, Log!NoGrant
<1> QED BY <1>1, <1>2 DEF Log!Init

(* Every step is a step of RecoveryLog or a stutter.                       *)
LEMMA NextLogged == UploadInv /\ [Next]_vars => [Log!Next]_(Log!vars)
<1> SUFFICES ASSUME UploadInv, [Next]_vars PROVE [Log!Next]_(Log!vars) OBVIOUS
<1>1. Types BY DEF UploadInv
<1>2. ASSUME NEW s \in Slots, NEW q \in Requests, Post(s, q) PROVE [Log!Next]_(Log!vars)
  BY <1>1, <1>2, PostLogged
<1>3. ASSUME NEW s \in Slots, Upload(s) PROVE [Log!Next]_(Log!vars) BY <1>3, UploadLogged
<1>4. ASSUME NEW s \in Slots, ProposalCb(s) PROVE [Log!Next]_(Log!vars) BY <1>4, ProposalLogged
<1>5. ASSUME NEW s \in Slots, CheckPaymentCb(s) PROVE [Log!Next]_(Log!vars)
  BY <1>5, CheckPaymentLogged
<1>6. CASE GC BY <1>6, GCLogged
<1>7. CASE UNCHANGED <<docs, pays>> BY <1>7, LogStutters DEF SameGrants
<1>8. \/ \E s \in Slots : Done(s)
      \/ \E p \in Pids : Pay(p)
      \/ Restart \/ Tick \/ UNCHANGED vars
      => UNCHANGED <<docs, pays>>
  BY DEF Done, Pay, Restart, Tick, vars, tables
<1> QED BY <1>2, <1>3, <1>4, <1>5, <1>6, <1>7, <1>8 DEF Next

-----------------------------------------------------------------------------
(* Theorems                                                                *)

(* In every reachable state the tables fit each other, the requests that   *)
(* are served and what clients have been told.                             *)
THEOREM UploadInvariant == Spec => []UploadInv
<1> QED BY InitInv, NextInv, PTL DEF Spec

(* However many uploads run at once with one payment identifier, no more   *)
(* documents are stored than it has paid for, and only if it has been paid *)
(* (store_recovery_document, increment_lifetime).                          *)
THEOREM UploadsArePaid == Spec => []UploadsPaid
<1>1. ASSUME UploadInv PROVE UploadsPaid
  <2> SUFFICES ASSUME NEW p \in Pids
               PROVE  /\ Cardinality(DocsPaidBy(p)) <= PostCounter
                      /\ DocsPaidBy(p) # {} => free \/ orders[p].state = "paid"
    BY DEF UploadsPaid
  <2>1. PaymentInv(p) /\ pays[p] \in Rows BY <1>1 DEF UploadInv, Types
  <2>2. Cardinality(DocsPaidBy(p)) \in Nat BY <2>1, FS_CardinalityType DEF PaymentInv
  <2>3. CASE DocsPaidBy(p) = {}
    <3>1. Cardinality(DocsPaidBy(p)) = 0 BY <2>3, FS_EmptySet
    <3> QED BY <2>3, <3>1, Numbers
  <2>4. CASE DocsPaidBy(p) # {}
    <3>1. IsPaid(pays[p]) BY <2>1, <2>4 DEF PaymentInv
    <3>2. pays[p] # NoRows /\ pays[p][1] \in Row BY <2>1, <3>1, OneRow DEF IsPaid
    <3>3. pays[p][1].left \in Nat BY <3>2, Numbers DEF Row
    <3>4. Cardinality(DocsPaidBy(p)) + pays[p][1].left = PostCounter BY <2>1, <3>2 DEF PaymentInv
    <3>5. Cardinality(DocsPaidBy(p)) <= PostCounter BY <2>2, <3>3, <3>4, Numbers
    <3>6. free \/ orders[p].state = "paid" BY <2>1, <3>1 DEF PaymentInv
    <3> QED BY <3>5, <3>6
  <2> QED BY <2>3, <2>4
<1> QED BY <1>1, UploadInvariant, PTL

(* One payment prolongs one account once (recdoc_payment_done asks for     *)
(* rows that are not paid, and there is one row per identifier).           *)
THEOREM PaidOnceHolds == Spec => []PaidOnce
<1>1. ASSUME UploadInv PROVE PaidOnce
  <2>1. \A p \in Pids : credits[p] \in Nat /\ (credits[p] # 0 => credits[p] = 1)
    BY <1>1 DEF UploadInv, Types, PaymentInv
  <2> QED BY <2>1 DEF PaidOnce
<1> QED BY <1>1, UploadInvariant, PTL

(* The expiration date that a client is told with 204                      *)
(* ("Anastasis-Policy-Expiration") is not later than the one of the user.  *)
THEOREM PromisesKept == Spec => []PromiseKept
<1>1. ASSUME UploadInv PROVE PromiseKept
  <2>1. ASSUME NEW s \in Slots, puc[s].state = "replied"
        PROVE  DateKept(puc[s], users, now)
    <3>1. puc[s] \in Replied BY <1>1, <2>1, ContextKinds DEF UploadInv, Types, Contexts, NoRequest
    <3> QED BY <1>1, <3>1 DEF UploadInv, ContextInv
  <2> QED BY <2>1 DEF PromiseKept, DateKept
<1> QED BY <1>1, UploadInvariant, PTL

(* The version that a client is told, with 204 or 304, is a document with  *)
(* the hash it has sent.                                                   *)
THEOREM VersionsAreTold == Spec => []VersionsTold
<1>1. ASSUME UploadInv PROVE VersionsTold
  <2>1. ASSUME NEW s \in Slots, puc[s].state = "replied"
        PROVE  VersionKept(puc[s], docs)
    <3>1. puc[s] \in Replied BY <1>1, <2>1, ContextKinds DEF UploadInv, Types, Contexts, NoRequest
    <3> QED BY <1>1, <3>1 DEF UploadInv, ContextInv
  <2> QED BY <2>1 DEF VersionsTold, VersionKept
<1> QED BY <1>1, UploadInvariant, PTL

(* Requests, payments, deletions and restarts leave a log of documents     *)
(* that is only appended to, each entry for an upload that is left: every  *)
(* step is a step of RecoveryLog or changes neither the log nor the        *)
(* uploads left.                                                           *)
THEOREM LogImplemented == Spec => ImplementsLog
<1>1. UploadInv /\ [Next]_vars => [Log!Next]_(Log!vars) BY NextLogged
<1> QED BY <1>1, InitLogged, UploadInvariant, PTL DEF Spec, ImplementsLog, Log!Spec
=============================================================================
