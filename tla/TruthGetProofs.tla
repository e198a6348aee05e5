---------------------------- MODULE TruthGetProofs ----------------------------
(***************************************************************************)
(* For any number of requests, methods, codes, identifiers and restarts:   *)
(* who is served has paid, who gets a key share has met the challenge, and *)
(* list and timeout heap are what the assertions of the handler demand.    *)
(***************************************************************************)
EXTENDS TruthGet, FiniteSetTheorems, TLAPS

(* The rows of the tables, and the contexts: as is what the plugin's state  *)
(* may be.                                                                  *)
Row == [truth : {Truth}, code : Codes, created : Nat, expires : Int, retries : Int,
        sent : Nat, satisfied : BOOLEAN, missed : Int]
Payment == [known : {TRUE}, created : Int, counter : Int, paid : BOOLEAN, refunded : BOOLEAN]
Wire == [code : Codes, enough : BOOLEAN, at : Nat]

Responses == Codes \cup {NoResponse, WrongResponse, RightResponse}
Replies == {"none", "error", "sent", "share", "wrong", "limited", "early", "pay"}
Opened(as) ==
    [live : {TRUE}, pid : Pids \cup {NoPid}, provided : BOOLEAN, response : Responses,
     timeout : Int, code : Codes \cup {0}, as : as, merchant : {"none", "order", "check"},
     resp : {"none", "pay", "error"}, hn : BOOLEAN, inList : BOOLEAN, suspended : BOOLEAN,
     event : BOOLEAN, found : BOOLEAN, reply : Replies]
Plugin == {"none", "child", "ok", "bad", "listening"}
Context == Opened(Plugin)

Lists(S) ==
    [head : S \cup {Nil}, tail : S \cup {Nil},
     next : [S -> S \cup {Nil}], prev : [S -> S \cup {Nil}]]

(* The types of the tables and of the world, and of the memory.             *)
TableTypes ==
    /\ now \in Nat \ {0} /\ method \in Methods
    /\ pays \in [Pids -> {Absent} \cup Payment]
    /\ orders \in [Pids -> {"none", "unpaid", "paid", "refunded"}]
    /\ wires \subseteq Wire
MemoryTypes ==
    /\ proc \in {"up", "stopped", "aborted"}
    /\ gc \in [Slots -> {NoContext} \cup Context]
    /\ conn \in [Slots -> {"idle", "ready", "parked", "replied"}]
    /\ list \in Lists(Slots)
    /\ heap \in [Slots -> Int]
    /\ refunds \in [Pids -> Nat]

(* How the state of a request, of its connection and of its plugin fit.     *)
Waits(g, c) ==
    /\ c = "parked" /\ g.suspended /\ g.inList /\ ~g.hn
    /\ g.pid \in Pids /\ method.kind # "iban"
Plugged(g, c) ==
    /\ g.inList /\ g.merchant = "none"
    /\ method.kind = IF g.as = "listening" THEN "iban" ELSE "helper"
    /\ g.as = "child" /\ c = "ready" => ~g.hn
Unplugged(g, c) ==
    /\ c = "ready" => ~g.inList
    /\ c = "parked" => g.merchant # "none"
    /\ c # "replied" /\ method.kind # "iban" => ~g.hn
SlotInv(g, c) ==
    /\ g.live <=> c # "idle"
    /\ g.live =>
        /\ c = "replied" <=> g.reply # "none"
        /\ g.provided => g.pid # NoPid
        /\ c = "replied" => ~g.suspended /\ g.as = "none" /\ g.merchant = "none"
        /\ g.suspended \/ c = "parked" => g.inList
        /\ g.merchant # "none" => Waits(g, c)
        /\ IF g.as # "none" THEN Plugged(g, c) ELSE Unplugged(g, c)

(* Payments: a row that is paid has an order that is; an order that the     *)
(* merchant has not confirmed yet belongs to one request.                   *)
Settled(os, p) == os[p] \in {"paid", "refunded"}
RowsSettled == \A p \in Pids : pays[p].known /\ pays[p].paid => Settled(orders, p)
Orders(g) == g.live /\ g.merchant = "order"
OrdersFresh ==
    /\ \A r \in Slots : Orders(gc[r]) => orders[gc[r].pid] = "none" /\ ~pays[gc[r].pid].known
    /\ \A r, q \in Slots : Orders(gc[r]) /\ Orders(gc[q]) /\ gc[r].pid = gc[q].pid => r = q
Entitled(g) == method.cost /\ method.kind # "iban" => g.pid # NoPid /\ Settled(orders, g.pid)
ServedPaid(g) ==
    g.live /\ (g.as # "none" \/ g.reply \in {"sent", "share"}) => Entitled(g)

(* What a key share needs, and what a satisfied code stands for, when the   *)
(* codes in is have been handed to plugins.                                 *)
ShareProven(g, is) ==
    /\ method.kind \in {"question", "totp"} => g.response = RightResponse
    /\ method.kind = "helper" => g.response \in is
    /\ method.kind = "iban" => \E w \in wires : w.code = g.response /\ w.enough
SharesProven(g, is) == g.live /\ g.reply = "share" => ShareProven(g, is)
CodeProven(code, is) ==
    /\ method.kind = "helper" => code \in is
    /\ method.kind = "iban" => \E w \in wires : w.code = code /\ w.enough
CodesProven(T, is) == \A c \in T : c.satisfied => CodeProven(c.code, is)

(* A table of codes.                                                        *)
Table(T) ==
    /\ T \subseteq Row /\ IsFiniteSet(T)
    /\ \A c \in T : /\ c.created <= now
                    /\ method.kind = "iban" =>
                          c.retries < 0 /\ c.expires = c.created + method.validity
ToldIn(T, code) == \E c \in T : c.code = code /\ c.sent # 0
HeldIn(T, code) == \E c \in T : c.code = code
SatisfiedIn(T, code) == \E c \in T : c.code = code /\ c.satisfied
ExpiredIn(T) == method.kind = "iban" /\ \E c \in T : c.expires <= now
Quoted(code) == \E w \in wires : w.code = code

(* IBAN: transfers quote codes that were told.  A request that listens for  *)
(* transfers does so with a code it was told, or with one that nobody was.  *)
WiresTold(T) == \A w \in wires : \E c \in T : c.code = w.code /\ c.created <= w.at /\ c.sent # 0
Listens(g) == g.live /\ g.as = "listening"
ListensFor(g, T) ==
    /\ HeldIn(T, g.code)
    /\ g.response = g.code \/ ~ToldIn(T, g.code)
    /\ ~ExpiredIn(T) /\ g.event => Quoted(g.code)
IbanSlot(g, c, T) ==
    g.live =>
        /\ g.response \in Codes => ToldIn(T, g.response)
        /\ g.as = "listening" =>
              /\ ListensFor(g, T)
              /\ ~ExpiredIn(T) /\ c = "ready" /\ g.hn => g.timeout <= now \/ Quoted(g.code)
        /\ g.as = "none" /\ c = "ready" => SatisfiedIn(T, g.response)
Apart(g, h, T) == Listens(g) /\ Listens(h) /\ g.code = h.code => ToldIn(T, g.code)
IbanInv ==
    method.kind = "iban" =>
        /\ WiresTold(codes)
        /\ \A r \in Slots : IbanSlot(gc[r], conn[r], codes)
        /\ \A r, q \in Slots : r # q => Apart(gc[r], gc[q], codes)

Lost ==
    proc # "up" => gc = [r \in Slots |-> NoContext] /\ list = EmptyList(Slots)

Inv ==
    /\ TableTypes /\ MemoryTypes
    /\ \A r \in Slots : SlotInv(gc[r], conn[r])
    /\ RowsSettled /\ OrdersFresh /\ \A r \in Slots : ServedPaid(gc[r])
    /\ Table(codes) /\ CodesProven(codes, issued)
    /\ \A r \in Slots : SharesProven(gc[r], issued)
    /\ IbanInv
    /\ HeapExact /\ ListExact /\ Lost /\ AssertionsHold

-----------------------------------------------------------------------------
(* Lists.  Elements are the contexts, and Nil is none of them.              *)


(* What is reached is closed, and in every closed set.                      *)
LEMMA ReachedLeast ==
    ASSUME NEW S, NEW l \in Lists(S), Nil \notin S
    PROVE  /\ Reached(l) \subseteq S
           /\ Closed(l, Reached(l))
           /\ \A R \in SUBSET S : Closed(l, R) => Reached(l) \subseteq R
<1>1. /\ DOMAIN l.next = S
      /\ l.head \in S \cup {Nil}
      /\ \A e \in S : l.next[e] \in S \cup {Nil}
    BY DEF Lists
<1>2. Reached(l) \subseteq S /\ \A R \in SUBSET S : Closed(l, R) => Reached(l) \subseteq R
    BY <1>1 DEF Reached
<1>3. l.head \in Reached(l) \cup {Nil}
    BY <1>1 DEF Reached, Closed
<1>4. ASSUME NEW e \in Reached(l) PROVE l.next[e] \in Reached(l) \cup {Nil}
    <2>1. e \in S /\ l.next[e] \in S \cup {Nil}
        BY <1>1, <1>2
    <2>2. ASSUME NEW R \in SUBSET S, Closed(l, R) PROVE l.next[e] \in R \cup {Nil}
        BY <1>2, <2>2 DEF Closed
    <2>. QED
        BY <1>1, <2>1, <2>2 DEF Reached
<1>. QED
    BY <1>2, <1>3, <1>4 DEF Closed

(* The empty list.                                                          *)
LEMMA EmptyIsList ==
    ASSUME NEW S, Nil \notin S
    PROVE  EmptyList(S) \in Lists(S) /\ IsListOf(EmptyList(S), {})
<1>1. EmptyList(S) \in Lists(S)
    BY DEF EmptyList, Lists
<1>2. Closed(EmptyList(S), {})
    BY DEF EmptyList, Closed
<1>3. Reached(EmptyList(S)) = {}
    BY <1>1, <1>2, ReachedLeast
<1>. QED
    BY <1>1, <1>3 DEF EmptyList, IsListOf

(* In a proper list, an element is the first or comes after its prev, and   *)
(* none comes after itself.                                                 *)
LEMMA ListNeighbours ==
    ASSUME NEW S, NEW l \in Lists(S), Nil \notin S, NEW M, IsListOf(l, M), NEW e \in M
    PROVE  /\ M \subseteq S
           /\ l.next[e] \in M \cup {Nil} /\ l.prev[e] \in M \cup {Nil}
           /\ l.next[e] # e /\ l.prev[e] # e
           /\ l.prev[e] # Nil => l.next[l.prev[e]] = e
           /\ l.head = e => l.prev[e] = Nil
<1>1. /\ M \subseteq S /\ Closed(l, M)
      /\ \A R \in SUBSET S : Closed(l, R) => M \subseteq R
    BY ReachedLeast DEF IsListOf
<1>2. /\ \A x \in M : /\ l.prev[x] = Nil <=> l.head = x
                      /\ l.next[x] # Nil => l.prev[l.next[x]] = x
      /\ l.head \in M \cup {Nil} /\ \A x \in M : l.next[x] \in M \cup {Nil}
    BY <1>1 DEF IsListOf, Closed
<1>3. ASSUME l.head # e PROVE \E x \in M \ {e} : l.next[x] = e
    <2>1. SUFFICES ASSUME \A x \in M \ {e} : l.next[x] # e PROVE FALSE
        OBVIOUS
    <2>2. Closed(l, M \ {e})
        BY <1>2, <1>3, <2>1 DEF Closed
    <2>. QED
        BY <1>1, <2>2
<1>4. l.head # e => l.prev[e] \in M \ {e} /\ l.next[l.prev[e]] = e
    BY <1>1, <1>2, <1>3
<1>5. l.next[e] # e
    <2>1. CASE l.head = e
        BY <1>1, <1>2, <2>1
    <2>2. CASE l.head # e
        BY <1>1, <1>2, <1>4, <2>2
    <2>. QED
        BY <2>1, <2>2
<1>6. e # Nil /\ M \subseteq S
    BY <1>1
<1>7. /\ l.next[e] \in M \cup {Nil}
      /\ l.head = e => l.prev[e] = Nil
      /\ l.prev[e] = Nil => l.head = e
    BY <1>2
<1>. QED
    BY <1>4, <1>5, <1>6, <1>7

(* Insertion at the front.                                                  *)
LEMMA InsertedIsList ==
    ASSUME NEW S, NEW l \in Lists(S), Nil \notin S, NEW e \in S
    PROVE  /\ Inserted(l, e) \in Lists(S)
           /\ \A M : IsListOf(l, M) /\ e \notin M => IsListOf(Inserted(l, e), M \cup {e})
<1>. DEFINE k == Inserted(l, e)
<1>1. k \in Lists(S)
    BY DEF Inserted, Lists
<1>2. ASSUME NEW M, IsListOf(l, M), e \notin M
      PROVE  IsListOf(k, M \cup {e})
    <2>1. /\ M \subseteq S /\ Closed(l, M) /\ M = Reached(l)
          /\ \A R \in SUBSET S : Closed(l, R) => M \subseteq R
        BY <1>2, ReachedLeast DEF IsListOf
    <2>2. /\ l.head \in M \cup {Nil}
          /\ \A x \in M : /\ l.prev[x] = Nil <=> l.head = x
                          /\ l.next[x] = Nil <=> l.tail = x
                          /\ l.next[x] # Nil => l.prev[l.next[x]] = x
                          /\ l.next[x] \in M \cup {Nil}
          /\ \A x \in S \ M : l.next[x] = Nil /\ l.prev[x] = Nil
          /\ IF M = {} THEN l.tail = Nil ELSE l.tail \in M /\ l.tail # Nil
        BY <1>2, <2>1 DEF IsListOf, Closed, Lists
    <2>3. M = {} <=> l.head = Nil
        <3>1. Closed(l, {}) <=> l.head = Nil
            BY <2>2 DEF Closed
        <3>. QED
            BY <2>1, <2>2, <3>1
    <2>4. /\ k.head = e
          /\ k.tail = IF M = {} THEN e ELSE l.tail
          /\ DOMAIN k.next = S
          /\ \A x \in S : k.next[x] = IF x = e THEN l.head ELSE l.next[x]
          /\ \A x \in S : k.prev[x] = IF x = e THEN Nil
                                      ELSE IF M # {} /\ x = l.head THEN e ELSE l.prev[x]
        BY <1>2, <2>1, <2>2, <2>3 DEF Inserted, Lists
    <2>. HIDE DEF k
    <2>5. Closed(k, M \cup {e})
        BY <2>1, <2>2, <2>4 DEF Closed
    <2>6. ASSUME NEW R \in SUBSET S, Closed(k, R) PROVE M \cup {e} \subseteq R
        <3>1. e \in R /\ l.head \in R \cup {Nil}
            BY <2>4, <2>6 DEF Closed
        <3>2. Closed(l, R)
            BY <1>2, <2>2, <2>4, <2>6, <3>1 DEF Closed
        <3>. QED
            BY <2>1, <3>1, <3>2
    <2>7. Reached(k) = M \cup {e}
        <3>1. M \cup {e} \in SUBSET S
            BY <2>1
        <3>. QED
            BY <1>1, <2>5, <2>6, <3>1, ReachedLeast
    <2>8. \A x \in DOMAIN k.next \ (M \cup {e}) : k.next[x] = Nil /\ k.prev[x] = Nil
        BY <2>2, <2>4
    <2>9. \A x \in M \cup {e} : /\ k.prev[x] = Nil <=> k.head = x
                                /\ k.next[x] = Nil <=> k.tail = x
                                /\ k.next[x] # Nil => k.prev[k.next[x]] = x
        <3>1. ASSUME NEW x \in M
              PROVE  /\ k.prev[x] = Nil <=> k.head = x
                     /\ k.next[x] = Nil <=> k.tail = x
                     /\ k.next[x] # Nil => k.prev[k.next[x]] = x
            <4>1. x \in S /\ x # e /\ x # Nil
                BY <1>2, <2>1
            <4>2. k.prev[x] = Nil <=> k.head = x
                BY <2>2, <2>3, <2>4, <4>1
            <4>3. k.next[x] = Nil <=> k.tail = x
                BY <2>2, <2>4, <4>1
            <4>4. ASSUME l.next[x] # Nil PROVE k.prev[k.next[x]] = x
                <5>1. l.next[x] \in M /\ l.prev[l.next[x]] = x /\ l.next[x] # l.head
                    BY <2>2, <4>1, <4>4
                <5>2. l.next[x] \in S /\ l.next[x] # e
                    BY <1>2, <2>1, <5>1
                <5>. QED
                    BY <2>4, <4>1, <5>1, <5>2
            <4>. QED
                BY <2>4, <4>1, <4>2, <4>3, <4>4
        <3>2. /\ k.prev[e] = Nil /\ k.head = e
              /\ k.next[e] = Nil <=> k.tail = e
              /\ k.next[e] # Nil => k.prev[k.next[e]] = e
            BY <1>2, <2>1, <2>2, <2>3, <2>4
        <3>. QED
            BY <3>1, <3>2
    <2>10. k.tail \in M \cup {e}
        BY <2>2, <2>4
    <2>. QED
        BY <2>7, <2>8, <2>9, <2>10 DEF IsListOf
<1>. QED
    BY <1>1, <1>2

(* Removal: the assertions of the macro hold, and the rest stays a list.    *)
LEMMA RemovedIsList ==
    ASSUME NEW S, NEW l \in Lists(S), Nil \notin S, NEW e \in S
    PROVE  /\ Removed(l, e) \in Lists(S)
           /\ \A M : IsListOf(l, M) /\ e \in M
                        => Removable(l, e) /\ IsListOf(Removed(l, e), M \ {e})
<1>. DEFINE k == Removed(l, e)
            n == l.next[e]
            p == l.prev[e]
<1>1. k \in Lists(S)
    BY DEF Removed, Lists
<1>2. ASSUME NEW M, IsListOf(l, M), e \in M
      PROVE  Removable(l, e) /\ IsListOf(k, M \ {e})
    <2>1. /\ M \subseteq S /\ Closed(l, M) /\ M = Reached(l)
          /\ \A R \in SUBSET S : Closed(l, R) => M \subseteq R
        BY <1>2, ReachedLeast DEF IsListOf
    <2>2. /\ l.head \in M \cup {Nil}
          /\ \A x \in M : /\ l.prev[x] = Nil <=> l.head = x
                          /\ l.next[x] = Nil <=> l.tail = x
                          /\ l.next[x] # Nil => l.prev[l.next[x]] = x
                          /\ l.next[x] \in M \cup {Nil}
                          /\ x # Nil
          /\ \A x \in S \ M : l.next[x] = Nil /\ l.prev[x] = Nil
          /\ l.tail \in M
        BY <1>2, <2>1 DEF IsListOf, Closed, Lists
    <2>3. /\ n \in M \cup {Nil} /\ p \in M \cup {Nil} /\ n # e /\ p # e
          /\ p # Nil => l.next[p] = e
        BY <1>2, ListNeighbours
    <2>4. /\ k.head = IF p = Nil THEN n ELSE l.head
          /\ k.tail = IF n = Nil THEN p ELSE l.tail
          /\ DOMAIN k.next = S
          /\ \A x \in S : k.next[x] = IF x = e THEN Nil ELSE IF x = p THEN n ELSE l.next[x]
          /\ \A x \in S : k.prev[x] = IF x = e THEN Nil ELSE IF x = n THEN p ELSE l.prev[x]
        BY DEF Removed, Lists
    <2>5. \A x \in M : l.next[x] = e => x = p
        BY <1>2, <2>2
    <2>. HIDE DEF k, n, p
    <2>6. Closed(k, M \ {e})
        <3>1. k.head \in (M \ {e}) \cup {Nil}
            BY <1>2, <2>2, <2>3, <2>4 DEF p
        <3>2. ASSUME NEW x \in M \ {e} PROVE k.next[x] \in (M \ {e}) \cup {Nil}
            BY <2>1, <2>2, <2>3, <2>4, <2>5
        <3>. QED
            BY <3>1, <3>2 DEF Closed
    <2>7. ASSUME NEW R \in SUBSET S, Closed(k, R) PROVE M \ {e} \subseteq R
        <3>1. p = Nil \/ p \in R
            <4>1. SUFFICES ASSUME p # Nil, p \notin R PROVE FALSE
                OBVIOUS
            <4>. DEFINE Q == (R \cap M) \ {e}
            <4>2. l.head \in Q \cup {Nil}
                BY <1>2, <2>2, <2>4, <2>7, <4>1 DEF Closed, p
            <4>3. ASSUME NEW x \in Q PROVE l.next[x] \in Q \cup {Nil}
                <5>1. x # p /\ x # e /\ x \in S /\ x \in M
                    BY <2>1, <4>1
                <5>2. l.next[x] # e /\ k.next[x] = l.next[x]
                    BY <2>4, <2>5, <5>1
                <5>. QED
                    BY <2>2, <2>7, <5>1, <5>2 DEF Closed
            <4>4. Closed(l, Q)
                BY <4>2, <4>3 DEF Closed
            <4>. QED
                BY <1>2, <2>1, <4>4
        <3>2. l.head \in R \cup {e, Nil}
            BY <1>2, <2>2, <2>4, <2>7 DEF Closed, p
        <3>3. n \in R \cup {Nil}
            BY <1>2, <2>3, <2>4, <2>7, <3>1 DEF Closed
        <3>4. ASSUME NEW x \in R \cup {e} PROVE l.next[x] \in R \cup {e, Nil}
            BY <2>3, <2>4, <2>7, <3>3 DEF Closed, n
        <3>5. Closed(l, R \cup {e})
            BY <3>2, <3>4 DEF Closed
        <3>. QED
            BY <2>1, <3>5
    <2>8. Reached(k) = M \ {e}
        BY <1>1, <2>1, <2>6, <2>7, ReachedLeast
    <2>9. \A x \in DOMAIN k.next \ (M \ {e}) : k.next[x] = Nil /\ k.prev[x] = Nil
        BY <2>2, <2>3, <2>4
    <2>10. ASSUME NEW x \in M \ {e}
           PROVE  /\ k.prev[x] = Nil <=> k.head = x
                  /\ k.next[x] = Nil <=> k.tail = x
                  /\ k.next[x] # Nil => k.prev[k.next[x]] = x
        <3>1. x \in S /\ x \in M /\ x # e /\ x # Nil
            BY <2>1, <2>2
        <3>2. k.prev[x] = Nil <=> k.head = x
            BY <1>2, <2>2, <2>3, <2>4, <3>1 DEF n, p
        <3>3. k.next[x] = Nil <=> k.tail = x
            BY <1>2, <2>2, <2>3, <2>4, <2>5, <3>1 DEF n, p
        <3>4. k.next[x] # Nil => k.prev[k.next[x]] = x
            BY <1>2, <2>1, <2>2, <2>3, <2>4, <2>5, <3>1 DEF n, p
        <3>. QED
            BY <3>2, <3>3, <3>4
    <2>11. IF M \ {e} = {} THEN k.tail = Nil ELSE k.tail \in M \ {e}
        <3>1. CASE n # Nil
            BY <1>2, <2>2, <2>3, <2>4, <3>1 DEF n
        <3>2. CASE n = Nil /\ p # Nil
            BY <1>2, <2>2, <2>3, <2>4, <3>2
        <3>3. CASE n = Nil /\ p = Nil
            <4>1. Closed(l, {e})
                BY <1>2, <2>2, <3>3 DEF Closed, n, p
            <4>2. M \ {e} = {}
                BY <1>2, <2>1, <4>1
            <4>. QED
                BY <2>4, <3>3, <4>2
        <3>. QED
            BY <3>1, <3>2, <3>3
    <2>12. Removable(l, e)
        BY <1>2, <2>2 DEF Removable
    <2>. QED
        BY <2>8, <2>9, <2>10, <2>11, <2>12 DEF IsListOf
<1>. QED
    BY <1>1, <1>2

(* Insertion with head and tail exchanged: harmless in an empty list.       *)
LEMMA ExchangedInsertion ==
    ASSUME NEW S, NEW l \in Lists(S), Nil \notin S, NEW e \in S
    PROVE  /\ Exchanged(Inserted(Exchanged(l), e)) \in Lists(S)
           /\ \A M : IsListOf(l, M) /\ l.head = Nil
                        => IsListOf(Exchanged(Inserted(Exchanged(l), e)), M \cup {e})
<1>. DEFINE k == Exchanged(Inserted(Exchanged(l), e))
<1>1. Exchanged(l) \in Lists(S)
    BY DEF Exchanged, Lists
<1>2. Inserted(Exchanged(l), e) \in Lists(S)
    BY <1>1, InsertedIsList
<1>3. k \in Lists(S)
    BY <1>2 DEF Exchanged, Lists
<1>4. ASSUME NEW M, IsListOf(l, M), l.head = Nil
      PROVE  IsListOf(k, M \cup {e})
    <2>1. Closed(l, {})
        BY <1>4 DEF Closed
    <2>2. M = {}
        BY <2>1, <1>4, ReachedLeast DEF IsListOf
    <2>3. l.tail = Nil
        BY <1>4, <2>2 DEF IsListOf
    <2>4. k = Inserted(l, e)
        <3>1. Exchanged(l) = l
            BY <1>4, <2>3 DEF Exchanged, Lists
        <3>2. Inserted(l, e) \in Lists(S) /\ Inserted(l, e).head = e /\ Inserted(l, e).tail = e
            BY <2>3, InsertedIsList DEF Inserted
        <3>. HIDE DEF k
        <3>3. \A i \in Lists(S) : i.head = e /\ i.tail = e => Exchanged(i) = i
            BY DEF Exchanged, Lists
        <3>. QED
            BY <3>1, <3>2, <3>3 DEF k
    <2>. QED
        BY <1>4, <2>2, <2>4, InsertedIsList
<1>. QED
    BY <1>3, <1>4

-----------------------------------------------------------------------------
(* Steps of one request: what they leave, and why the invariant holds then. *)

(* T goes on as U: what is told, held or satisfied stays so.                *)
Follows(T, U) ==
    \A t \in T : \E u \in U :
        /\ u.code = t.code /\ u.created = t.created /\ u.expires = t.expires
        /\ t.satisfied => u.satisfied
        /\ t.sent # 0 => u.sent # 0

(* What a table keeps when it goes on as another.                           *)
LEMMA FollowsKeeps ==
    ASSUME NEW T, NEW U, Follows(T, U)
    PROVE  /\ \A code : /\ ToldIn(T, code) => ToldIn(U, code)
                        /\ HeldIn(T, code) => HeldIn(U, code)
                        /\ SatisfiedIn(T, code) => SatisfiedIn(U, code)
           /\ ExpiredIn(T) => ExpiredIn(U)
           /\ WiresTold(T) => WiresTold(U)
<1>1. \A code : /\ ToldIn(T, code) => ToldIn(U, code)
                /\ HeldIn(T, code) => HeldIn(U, code)
                /\ SatisfiedIn(T, code) => SatisfiedIn(U, code)
    BY DEF Follows, ToldIn, HeldIn, SatisfiedIn
<1>2. ExpiredIn(T) => ExpiredIn(U)
    BY DEF Follows, ExpiredIn
<1>3. WiresTold(T) => WiresTold(U)
    BY DEF Follows, WiresTold
<1>. QED
    BY <1>1, <1>2, <1>3

Tables ==
    /\ UNCHANGED world
    /\ Table(codes') /\ CodesProven(codes', issued') /\ Follows(codes, codes')
    /\ method.kind = "iban" => WiresTold(codes')
    /\ pays' \in [Pids -> {Absent} \cup Payment]
    /\ \A p \in Pids : /\ pays'[p].known <=> pays[p].known
                       /\ pays'[p].known /\ pays'[p].paid => Settled(orders, p)
    /\ issued \subseteq issued'
    /\ swapped => swapped'

(* The process ends, and no assertion was to blame that should have held.   *)
Died == Abort /\ (swapped' \/ Underpaid \/ ExpiredIn(codes') \/ ~DirectValidation')

(* The request is left with context h and its connection at c.              *)
Moved(r, h, c) ==
    /\ proc' = proc /\ gc' = [gc EXCEPT ![r] = h] /\ conn' = [conn EXCEPT ![r] = c]
    /\ h \in {NoContext} \cup Context /\ c \in {"idle", "ready", "parked", "replied"}
    /\ SlotInv(h, c) /\ ServedPaid(h) /\ SharesProven(h, issued')
    /\ list' \in Lists(Slots)
    /\ ~swapped' => IsListOf(list', IF h.live /\ h.inList THEN Members \cup {r} ELSE Members \ {r})
    /\ heap' \in [Slots -> Int] /\ \A q \in Slots \ {r} : heap'[q] = heap[q]
    /\ ~Underpaid /\ ~ExpiredIn(codes') => heap'[r] = IF h.live /\ h.hn THEN 1 ELSE 0
    /\ refunds' \in [Pids -> Nat]
    /\ Orders(h) => /\ orders[h.pid] = "none" /\ ~pays'[h.pid].known
                    /\ \A q \in Slots \ {r} : Orders(gc[q]) => gc[q].pid # h.pid
MovedIban(r, h, c) ==
    method.kind = "iban" =>
        /\ IbanSlot(h, c, codes')
        /\ \A q \in Slots \ {r} :
              /\ Apart(h, gc[q], codes')
              /\ Listens(gc[q]) /\ ~ToldIn(codes, gc[q].code) => ~ToldIn(codes', gc[q].code)

(* The parts of the invariant that speak of the tables alone.               *)
LEMMA TablesInv ==
    ASSUME Inv, Tables
    PROVE  /\ TableTypes' /\ RowsSettled' /\ Table(codes)' /\ CodesProven(codes, issued)'
           /\ Underpaid' <=> Underpaid
           /\ ExpiredIn(codes) => ExpiredIn(codes')
           /\ Expired' <=> ExpiredIn(codes')
<1>1. TableTypes'
    BY DEF Inv, Tables, TableTypes, world
<1>2. RowsSettled'
    BY DEF Inv, Tables, RowsSettled, Settled, world
<1>3. Table(codes)' /\ CodesProven(codes, issued)'
    BY DEF Tables, Table, CodesProven, CodeProven, world
<1>4. (Underpaid' <=> Underpaid) /\ (Expired' <=> ExpiredIn(codes'))
    BY DEF Tables, Underpaid, Expired, ExpiredIn, world
<1>5. ExpiredIn(codes) => ExpiredIn(codes')
    BY FollowsKeeps DEF Tables
<1>. QED
    BY <1>1, <1>2, <1>3, <1>4, <1>5

(* Whatever ends the process leaves no contexts, list or heap.              *)
LEMMA DeathKeepsInv ==
    ASSUME Inv, Tables, MemoryLost, proc' \in {"stopped", "aborted"},
           proc' = "aborted" => swapped' \/ Underpaid \/ ExpiredIn(codes') \/ ~DirectValidation'
    PROVE  Inv'
<1>1. /\ TableTypes' /\ RowsSettled' /\ Table(codes)' /\ CodesProven(codes, issued)'
      /\ Underpaid' <=> Underpaid
      /\ Expired' <=> ExpiredIn(codes')
    BY TablesInv
<1>2. /\ \A r \in Slots : gc'[r] = NoContext /\ conn'[r] = "idle" /\ heap'[r] = 0
      /\ NoContext.live = FALSE
    BY DEF MemoryLost, NoContext
<1>3. EmptyList(Slots) \in Lists(Slots) /\ IsListOf(EmptyList(Slots), {})
    BY NamesAssumption, EmptyIsList
<1>4. MemoryTypes'
    BY <1>3 DEF MemoryLost, MemoryTypes
<1>5. \A r \in Slots : /\ SlotInv(gc[r], conn[r])' /\ ServedPaid(gc[r])'
                       /\ SharesProven(gc[r], issued)'
    BY <1>2 DEF SlotInv, ServedPaid, SharesProven
<1>6. OrdersFresh'
    BY <1>2 DEF OrdersFresh, Orders
<1>7. IbanInv'
    BY <1>2 DEF IbanInv, IbanSlot, Apart, Listens, Tables, world, WiresTold
<1>8. HeapExact'
    BY <1>2 DEF HeapExact, HeapOwned
<1>9. ListExact' /\ Lost'
    <2>1. Members' = {}
        BY <1>2 DEF Members
    <2>. QED
        BY <1>3, <2>1 DEF ListExact, Lost, MemoryLost
<1>10. AssertionsHold'
    BY <1>1 DEF AssertionsHold
<1>. QED
    BY <1>1, <1>4, <1>5, <1>6, <1>7, <1>8, <1>9, <1>10 DEF Inv

(* The bank's part of the invariant, after a step of one request.           *)
LEMMA MovedIbanInv ==
    ASSUME Inv, Tables, NEW r \in Slots, NEW h, NEW c, Moved(r, h, c), MovedIban(r, h, c)
    PROVE  IbanInv'
<1>. SUFFICES ASSUME method.kind = "iban"
     PROVE  /\ WiresTold(codes)'
            /\ \A q \in Slots : IbanSlot(gc[q], conn[q], codes)'
            /\ \A q, s \in Slots : q # s => Apart(gc[q], gc[s], codes)'
    BY DEF IbanInv, Tables, world
<1>1. /\ \A q \in Slots : gc'[q] = IF q = r THEN h ELSE gc[q]
      /\ \A q \in Slots : conn'[q] = IF q = r THEN c ELSE conn[q]
    BY DEF Moved, Inv, MemoryTypes
<1>2. /\ wires' = wires /\ now' = now /\ method' = method
      /\ WiresTold(codes') /\ Follows(codes, codes')
    BY DEF Tables, world
<1>3. WiresTold(codes)'
    BY <1>2 DEF WiresTold
<1>4. /\ \A code : /\ ToldIn(codes, code) => ToldIn(codes', code)
                   /\ HeldIn(codes, code) => HeldIn(codes', code)
                   /\ SatisfiedIn(codes, code) => SatisfiedIn(codes', code)
      /\ ExpiredIn(codes) => ExpiredIn(codes')
    BY <1>2, FollowsKeeps
<1>5. /\ IbanSlot(h, c, codes')
      /\ \A q \in Slots \ {r} :
            /\ Apart(h, gc[q], codes')
            /\ Listens(gc[q]) /\ ~ToldIn(codes, gc[q].code) => ~ToldIn(codes', gc[q].code)
    BY DEF MovedIban
<1>6. /\ \A q \in Slots : IbanSlot(gc[q], conn[q], codes)
      /\ \A q, s \in Slots : q # s => Apart(gc[q], gc[s], codes)
    BY DEF Inv, IbanInv
<1>7. ASSUME NEW g, NEW d, NEW T PROVE IbanSlot(g, d, T)' <=> IbanSlot(g, d, T')
    BY <1>2 DEF IbanSlot, ListensFor, Quoted, ExpiredIn, ToldIn, HeldIn, SatisfiedIn
<1>8. ASSUME NEW q \in Slots \ {r} PROVE IbanSlot(gc[q], conn[q], codes')
    BY <1>4, <1>5, <1>6 DEF IbanSlot, ListensFor, Listens
<1>9. \A q \in Slots : IbanSlot(gc[q], conn[q], codes)'
    <2>1. ASSUME NEW q \in Slots PROVE IbanSlot(gc[q], conn[q], codes)'
        BY <1>1, <1>2, <1>5, <1>8
           DEF IbanSlot, ListensFor, Quoted, ExpiredIn, ToldIn, HeldIn, SatisfiedIn
    <2>. QED
        BY <2>1
<1>10. ASSUME NEW q \in Slots, NEW s \in Slots, q # s PROVE Apart(gc[q], gc[s], codes)'
    <2>1. CASE q = r
        BY <1>1, <1>5, <1>10, <2>1 DEF Apart, Listens, ToldIn
    <2>2. CASE s = r
        BY <1>1, <1>5, <1>10, <2>2 DEF Apart, Listens, ToldIn
    <2>3. CASE q # r /\ s # r
        BY <1>1, <1>4, <1>6, <1>10, <2>3 DEF Apart, Listens, ToldIn
    <2>. QED
        BY <2>1, <2>2, <2>3
<1>. QED
    BY <1>3, <1>9, <1>10

(* A step of one request that ends as Moved says keeps the invariant.       *)
LEMMA MovedKeepsInv ==
    ASSUME Inv, Tables, proc = "up", NEW r \in Slots, NEW h, NEW c,
           Moved(r, h, c), MovedIban(r, h, c)
    PROVE  Inv'
<1>1. /\ TableTypes' /\ RowsSettled' /\ Table(codes)' /\ CodesProven(codes, issued)'
      /\ Underpaid' <=> Underpaid
      /\ ExpiredIn(codes) => ExpiredIn(codes')
      /\ Expired' <=> ExpiredIn(codes')
    BY TablesInv
<1>2. /\ \A q \in Slots : gc'[q] = IF q = r THEN h ELSE gc[q]
      /\ \A q \in Slots : conn'[q] = IF q = r THEN c ELSE conn[q]
    BY DEF Moved, Inv, MemoryTypes
<1>3. MemoryTypes'
    BY DEF Moved, Inv, MemoryTypes
<1>4. method' = method /\ orders' = orders /\ wires' = wires
    BY DEF Tables, world
<1>5. \A q \in Slots : SlotInv(gc[q], conn[q])'
    BY <1>2, <1>4 DEF Inv, Moved, SlotInv, Waits, Plugged, Unplugged
<1>6. \A q \in Slots : ServedPaid(gc[q])'
    BY <1>2, <1>4 DEF Inv, Moved, ServedPaid, Entitled, Settled
<1>7. \A q \in Slots : SharesProven(gc[q], issued)'
    <2>1. \A q \in Slots : SharesProven(gc[q], issued')
        BY DEF Inv, Tables, SharesProven, ShareProven
    <2>. QED
        BY <1>2, <1>4, <2>1 DEF Moved, SharesProven, ShareProven
<1>8. OrdersFresh'
    <2>1. ASSUME NEW q \in Slots \ {r}, Orders(gc[q])
          PROVE  gc[q].pid \in Pids /\ orders[gc[q].pid] = "none" /\ ~pays'[gc[q].pid].known
        <3>1. orders[gc[q].pid] = "none" /\ ~pays[gc[q].pid].known /\ gc[q].pid \in Pids
            BY <2>1 DEF Inv, OrdersFresh, Orders, SlotInv, Waits
        <3>. QED
            BY <3>1 DEF Tables
    <2>2. Orders(h) => /\ orders[h.pid] = "none" /\ ~pays'[h.pid].known
                       /\ \A q \in Slots \ {r} : Orders(gc[q]) => gc[q].pid # h.pid
        BY DEF Moved
    <2>3. \A q, s \in Slots : Orders(gc[q]) /\ Orders(gc[s]) /\ gc[q].pid = gc[s].pid => q = s
        BY DEF Inv, OrdersFresh
    <2>. QED
        BY <1>2, <1>4, <2>1, <2>2, <2>3 DEF OrdersFresh, Orders
<1>9. IbanInv'
    BY MovedIbanInv
<1>10. HeapExact'
    <2>1. Underpaid' \/ Expired' \/ HeapOwned
        BY <1>1 DEF Inv, HeapExact, Expired, ExpiredIn
    <2>. QED
        BY <1>1, <1>2, <2>1 DEF HeapExact, HeapOwned, Moved
<1>11. ListExact'
    <2>1. Members' = IF h.live /\ h.inList THEN Members \cup {r} ELSE Members \ {r}
        BY <1>2 DEF Members
    <2>. QED
        BY <2>1 DEF ListExact, Moved
<1>12. Lost' /\ AssertionsHold'
    BY DEF Moved, Lost, AssertionsHold
<1>. QED
    BY <1>1, <1>3, <1>5, <1>6, <1>7, <1>8, <1>9, <1>10, <1>11, <1>12 DEF Inv

-----------------------------------------------------------------------------
(* The database calls on the codes.                                         *)

(* The types of the method and of the clock.                                *)
LEMMA MethodTypes ==
    ASSUME Inv
    PROVE  /\ method \in MethodType /\ method.kind \in Kinds
           /\ method.validity \in Nat /\ method.retries \in Int
           /\ method.rotation \in Nat /\ method.retransmission \in Nat
           /\ method.kind = "iban" => method.rotation = 0 /\ method.retries < 0
           /\ now \in Nat \ {0}
BY MethodsAssumption, IbanAssumption DEF Inv, TableTypes, MethodType

(* What U has beyond T: codes that are told, in N, and satisfied, in S.     *)
Adds(T, U, N, S) ==
    \A code : /\ ToldIn(U, code) => ToldIn(T, code) \/ code \in N
              /\ SatisfiedIn(U, code) => SatisfiedIn(T, code) \/ code \in S
              /\ HeldIn(U, code) => HeldIn(T, code)

(* Two calls in a row.                                                      *)
LEMMA FollowsTransitive ==
    ASSUME NEW T, NEW U, NEW V, Follows(T, U), Follows(U, V)
    PROVE  Follows(T, V)
<1>1. ASSUME NEW t \in T
      PROVE  \E v \in V : /\ v.code = t.code /\ v.created = t.created /\ v.expires = t.expires
                          /\ t.satisfied => v.satisfied
                          /\ t.sent # 0 => v.sent # 0
    <2>1. PICK u \in U : /\ u.code = t.code /\ u.created = t.created /\ u.expires = t.expires
                         /\ t.satisfied => u.satisfied
                         /\ t.sent # 0 => u.sent # 0
        BY <1>1 DEF Follows
    <2>. QED
        BY <2>1 DEF Follows
<1>. QED
    BY <1>1 DEF Follows

(* A call that changes rows one by one.                                     *)
LEMMA ImageTable ==
    ASSUME NEW T, Table(T), NEW N, NEW S, NEW f,
           \A c \in T :
              /\ f[c] \in Row
              /\ f[c].code = c.code /\ f[c].created = c.created /\ f[c].expires = c.expires
              /\ c.retries < 0 => f[c].retries < 0
              /\ c.satisfied => f[c].satisfied
              /\ f[c].satisfied => c.satisfied \/ c.code \in S
              /\ c.sent # 0 => f[c].sent # 0
              /\ f[c].sent # 0 => c.sent # 0 \/ c.code \in N
    PROVE  LET U == {f[c] : c \in T}
           IN  Table(U) /\ Follows(T, U) /\ Adds(T, U, N, S)
<1>. DEFINE U == {f[c] : c \in T}
            g == [c \in T |-> f[c]]
<1>1. IsFiniteSet(U)
    <2>1. IsFiniteSet(T)
        BY DEF Table
    <2>2. g \in Surjection(T, U)
        BY DEF Surjection
    <2>. QED
        BY <2>1, <2>2, FS_Surjection
<1>2. Table(U)
    <2>1. U \subseteq Row
        OBVIOUS
    <2>2. \A d \in U : /\ d.created <= now
                       /\ method.kind = "iban" =>
                             d.retries < 0 /\ d.expires = d.created + method.validity
        BY DEF Table
    <2>. QED
        BY <1>1, <2>1, <2>2 DEF Table
<1>3. Follows(T, U)
    BY DEF Follows
<1>4. Adds(T, U, N, S)
    BY DEF Adds, ToldIn, SatisfiedIn, HeldIn
<1>. QED
    BY <1>2, <1>3, <1>4

(* verify_challenge_code counts rows.                                       *)
LEMMA HitsNat ==
    ASSUME NEW T, IsFiniteSet(T), NEW code
    PROVE  Hits(T, Truth, code, now) \in Nat
<1>1. IsFiniteSet({c \in UsableRows(T, Truth, now) : c.code = code})
    BY FS_Subset DEF UsableRows
<1>. QED
    BY <1>1, FS_CardinalityType DEF Hits

(* verify_challenge_code changes tries only.                                *)
LEMMA VerifyTable ==
    ASSUME NEW T, Table(T), NEW answer
    PROVE  LET U == AfterVerify(T, Truth, answer, now)
           IN  Table(U) /\ Follows(T, U) /\ Adds(T, U, {}, {})
<1>. DEFINE f == [c \in T |-> Missed(T, Truth, answer, now, c)]
<1>1. ASSUME NEW c \in T
      PROVE  /\ f[c] \in Row
             /\ f[c].code = c.code /\ f[c].created = c.created /\ f[c].expires = c.expires
             /\ c.retries < 0 => f[c].retries < 0
             /\ f[c].satisfied = c.satisfied /\ f[c].sent = c.sent
    <2>1. c \in Row /\ IsFiniteSet(T)
        BY DEF Table
    <2>2. Hits(T, Truth, c.code, now) \in Nat
        BY <2>1, HitsNat
    <2>3. DEFINE left == Decremented(c.retries, Hits(T, Truth, c.code, now))
    <2>4. left \in Int /\ (c.retries < 0 => left < 0)
        BY <2>1, <2>2 DEF Decremented, Row
    <2>. HIDE DEF left
    <2>5. DEFINE m == IF c \in UsableRows(T, Truth, now) THEN c.missed + 1 ELSE c.missed
    <2>6. m \in Int
        BY <2>1 DEF Row
    <2>. HIDE DEF m
    <2>7. f[c] = IF c.truth # Truth \/ c.code = answer THEN c
                 ELSE [c EXCEPT !.retries = left, !.missed = m]
        BY DEF Missed, left, m
    <2>. QED
        BY <2>1, <2>4, <2>6, <2>7 DEF Row
<1>2. AfterVerify(T, Truth, answer, now) = {f[c] : c \in T}
    BY DEF AfterVerify
<1>. HIDE DEF f
<1>3. \A c \in T :
         /\ f[c] \in Row
         /\ f[c].code = c.code /\ f[c].created = c.created /\ f[c].expires = c.expires
         /\ c.retries < 0 => f[c].retries < 0
         /\ c.satisfied => f[c].satisfied
         /\ f[c].satisfied => c.satisfied \/ c.code \in {}
         /\ c.sent # 0 => f[c].sent # 0
         /\ f[c].sent # 0 => c.sent # 0 \/ c.code \in {}
    BY <1>1
<1>4. LET U == {f[c] : c \in T}
      IN  Table(U) /\ Follows(T, U) /\ Adds(T, U, {}, {})
    BY <1>3, ImageTable
<1>. QED
    BY <1>2, <1>4

(* A nonempty set of natural numbers has a least element.                   *)
LEMMA LeastNatural ==
    ASSUME NEW S \in SUBSET Nat, S # {}
    PROVE  \E n \in S : \A m \in S : n <= m
<1>. DEFINE R == {ss \in Nat \X Nat : ss[1] < ss[2]}
<1>1. IsWellFoundedOn({ss \in Nat \X Nat : ss[1] < ss[2]}, Nat)
    BY NatLessThanWellFounded, Zenon DEF OpToRel
<1>2. \E n \in S : \A m \in S : ~ (<<m, n>> \in R)
    <2>1. IsWellFoundedOn(R, Nat)
        BY <1>1
    <2>. HIDE DEF R
    <2>. QED
        BY <2>1, WFMin
<1>3. PICK n \in S : \A m \in S : ~ (<<m, n>> \in R)
    BY <1>2
<1>4. ASSUME NEW m \in S PROVE n <= m
    <2>1. ~ (<<m, n>> \in R) /\ <<m, n>> \in Nat \X Nat
        BY <1>3
    <2>. QED
        BY <2>1
<1>. QED
    BY <1>4

(* Some row is the newest of those that hold a code.                        *)
LEMMA AddressedExists ==
    ASSUME Inv, NEW T, Table(T), NEW code, HeldIn(T, code)
    PROVE  \E c \in Addressed(T, Truth, code) : c \in T /\ c.code = code
<1>. DEFINE rows == {c \in T : c.truth = Truth /\ c.code = code}
            ages == {now - c.created : c \in rows}
<1>1. \A c \in T : c.truth = Truth /\ c.created \in Nat /\ c.created <= now
    BY DEF Table, Row
<1>2. ages \in SUBSET Nat /\ ages # {}
    BY <1>1, MethodTypes DEF HeldIn
<1>3. PICK a \in ages : \A b \in ages : a <= b
    BY <1>2, LeastNatural
<1>4. PICK c \in rows : a = now - c.created
    OBVIOUS
<1>5. \A d \in rows : d.created <= c.created
    <2>1. ASSUME NEW d \in rows PROVE d.created <= c.created
        <3>1. now - c.created <= now - d.created
            BY <1>3, <1>4
        <3>. QED
            BY <1>1, <3>1, MethodTypes
    <2>. QED
        BY <2>1
<1>. QED
    BY <1>4, <1>5 DEF Addressed, NewestOf

(* mark_challenge_code_satisfied satisfies this code and no other.          *)
LEMMA SatisfiedTable ==
    ASSUME Inv, NEW T, Table(T), NEW code
    PROVE  LET U == AfterSatisfied(T, Truth, code)
           IN  /\ Table(U) /\ Follows(T, U) /\ Adds(T, U, {}, {code})
               /\ HeldIn(T, code) => SatisfiedIn(U, code)
<1>. DEFINE f == [c \in T |-> IF c \in Addressed(T, Truth, code)
                              THEN [c EXCEPT !.satisfied = TRUE] ELSE c]
            U == AfterSatisfied(T, Truth, code)
<1>1. ASSUME NEW c \in T
      PROVE  /\ f[c] \in Row
             /\ f[c].code = c.code /\ f[c].created = c.created /\ f[c].expires = c.expires
             /\ f[c].retries = c.retries /\ f[c].sent = c.sent
             /\ c.satisfied => f[c].satisfied
             /\ f[c].satisfied => c.satisfied \/ c.code \in {code}
    <2>1. c \in Row
        BY DEF Table
    <2>2. c \in Addressed(T, Truth, code) => c.code = code
        BY DEF Addressed, NewestOf
    <2>. QED
        BY <2>1, <2>2 DEF Row
<1>2. U = {f[c] : c \in T}
    BY DEF AfterSatisfied
<1>3. ASSUME HeldIn(T, code) PROVE SatisfiedIn(U, code)
    <2>1. PICK c \in Addressed(T, Truth, code) : c \in T /\ c.code = code
        BY <1>3, AddressedExists
    <2>2. c \in Row
        BY <2>1 DEF Table
    <2>3. f[c].satisfied /\ f[c].code = code
        BY <2>1, <2>2 DEF Row
    <2>. QED
        BY <1>2, <2>1, <2>3 DEF SatisfiedIn
<1>. HIDE DEF f, U
<1>4. Table(U) /\ Follows(T, U) /\ Adds(T, U, {}, {code})
    BY <1>1, <1>2, ImageTable
<1>. QED
    BY <1>3, <1>4 DEF U

(* mark_challenge_sent marks this code and no other.                        *)
LEMMA SentTable ==
    ASSUME Inv, NEW T, Table(T), NEW code
    PROVE  LET U == AfterSent(T, Truth, code, now)
           IN  Table(U) /\ Follows(T, U) /\ Adds(T, U, {code}, {})
<1>. DEFINE f == [c \in T |-> IF c \in Addressed(T, Truth, code)
                              THEN [c EXCEPT !.sent = now] ELSE c]
            U == AfterSent(T, Truth, code, now)
<1>1. ASSUME NEW c \in T
      PROVE  /\ f[c] \in Row
             /\ f[c].code = c.code /\ f[c].created = c.created /\ f[c].expires = c.expires
             /\ f[c].retries = c.retries /\ f[c].satisfied = c.satisfied
             /\ c.sent # 0 => f[c].sent # 0
             /\ f[c].sent # 0 => c.sent # 0 \/ c.code \in {code}
    <2>1. c \in Row
        BY DEF Table
    <2>2. c \in Addressed(T, Truth, code) => c.code = code
        BY DEF Addressed, NewestOf
    <2>. QED
        BY <2>1, <2>2, MethodTypes DEF Row
<1>2. U = {f[c] : c \in T}
    BY DEF AfterSent
<1>. HIDE DEF f, U
<1>3. Table(U) /\ Follows(T, U) /\ Adds(T, U, {code}, {})
    BY <1>1, <1>2, ImageTable
<1>. QED
    BY <1>3 DEF U

(* create_challenge_code adds a code that is neither told nor satisfied.    *)
LEMMA AddedTable ==
    ASSUME Inv, NEW T, Table(T), NEW code \in Codes, NEW validity \in Nat, NEW tries \in Int,
           method.kind = "iban" => validity = method.validity /\ tries < 0
    PROVE  LET U == T \cup {NewRow(Truth, code, now, validity, tries)}
           IN  /\ Table(U) /\ Follows(T, U)
               /\ \A x : /\ ToldIn(U, x) => ToldIn(T, x)
                         /\ SatisfiedIn(U, x) => SatisfiedIn(T, x)
                         /\ HeldIn(U, x) => HeldIn(T, x) \/ x = code
               /\ HeldIn(U, code)
<1>. DEFINE n == NewRow(Truth, code, now, validity, tries)
            U == T \cup {n}
<1>1. /\ n \in Row /\ n.code = code /\ n.created = now /\ n.expires = now + validity
      /\ n.retries = tries /\ n.sent = 0 /\ n.satisfied = FALSE
    BY MethodTypes DEF NewRow, Row
<1>2. IsFiniteSet(U)
    BY FS_AddElement DEF Table
<1>. HIDE DEF n
<1>3. Table(U)
    BY <1>1, <1>2, MethodTypes DEF Table
<1>4. Follows(T, U)
    BY DEF Follows
<1>5. /\ \A x : /\ ToldIn(U, x) => ToldIn(T, x)
                /\ SatisfiedIn(U, x) => SatisfiedIn(T, x)
                /\ HeldIn(U, x) => HeldIn(T, x) \/ x = code
      /\ HeldIn(U, code)
    BY <1>1 DEF ToldIn, SatisfiedIn, HeldIn
<1>. QED
    BY <1>3, <1>4, <1>5 DEF n

-----------------------------------------------------------------------------
(* The ways in which a call of the handler ends.                            *)

(* A context the handler works with, on request r.                          *)
Handled(g) ==
    /\ g \in Opened(Plugin \cup {"new"})
    /\ g.merchant = "none" /\ g.reply = "none" /\ ~g.suspended
    /\ g.provided => g.pid # NoPid
Enters(r, g) ==
    /\ Handled(g)
    /\ ~Underpaid /\ ~ExpiredIn(codes) => heap[r] = IF g.hn THEN 1 ELSE 0
    /\ method.kind = "iban" /\ g.response \in Codes => ToldIn(codes, g.response)
ListFits(r, l, in) ==
    /\ l \in Lists(Slots)
    /\ ~swapped => IsListOf(l, IF in THEN Members \cup {r} ELSE Members \ {r})

(* No code is told behind the back of another request that listens with it. *)
Discreet(r, T) ==
    method.kind = "iban" =>
        \A q \in Slots \ {r} :
            Listens(gc[q]) /\ ~ToldIn(codes, gc[q].code) => ~ToldIn(T, gc[q].code)

Outcome(r) == Died \/ \E h, c : Moved(r, h, c) /\ MovedIban(r, h, c)

(* The context once a reply is queued.                                      *)
LEMMA RepliedContext ==
    ASSUME Inv, NEW g, Handled(g), NEW what \in Replies \ {"none"},
           what \in {"sent", "share"} => Entitled(g), NEW is,
           what = "share" => ShareProven(g, is)
    PROVE  LET h == [g EXCEPT !.reply = what, !.as = "none"]
           IN  /\ h \in Context /\ SlotInv(h, "replied") /\ ServedPaid(h)
               /\ SharesProven(h, is) /\ ~Orders(h) /\ ~Listens(h) /\ h.live
               /\ h.inList = g.inList /\ h.hn = g.hn /\ h.response = g.response
               /\ h.as = "none"
<1>. DEFINE h == [g EXCEPT !.reply = what, !.as = "none"]
<1>1. /\ h \in Context /\ h.as = "none" /\ h.reply = what /\ h.merchant = "none" /\ h.live
      /\ h.inList = g.inList /\ h.hn = g.hn /\ h.response = g.response /\ h.pid = g.pid
      /\ h.suspended = FALSE /\ (h.provided => h.pid # NoPid)
    BY DEF Handled, Opened, Context, Plugin
<1>. HIDE DEF h
<1>2. SlotInv(h, "replied")
    BY <1>1 DEF SlotInv, Unplugged
<1>3. ServedPaid(h) /\ SharesProven(h, is)
    BY <1>1 DEF ServedPaid, Entitled, SharesProven, ShareProven
<1>. QED
    BY <1>1, <1>2, <1>3 DEF Orders, Listens, h

(* A call that queues a reply.                                              *)
LEMMA ReplyMoves ==
    ASSUME Inv, Tables, NEW r \in Slots, NEW g, Enters(r, g), NEW what \in Replies \ {"none"},
           what \in {"sent", "share"} => Entitled(g),
           what = "share" => ShareProven(g, issued'),
           Reply(r, g, what), proc' = proc, heap' = heap, refunds' \in [Pids -> Nat],
           swapped' = swapped, ListFits(r, list', g.inList), Discreet(r, codes')
    PROVE  Outcome(r)
<1>. DEFINE h == [g EXCEPT !.reply = what, !.as = "none"]
<1>1. /\ h \in Context /\ SlotInv(h, "replied") /\ ServedPaid(h)
      /\ SharesProven(h, issued') /\ ~Orders(h) /\ ~Listens(h) /\ h.live
      /\ h.inList = g.inList /\ h.hn = g.hn /\ h.response = g.response /\ h.as = "none"
    BY RepliedContext DEF Enters
<1>2. gc' = [gc EXCEPT ![r] = h] /\ conn' = [conn EXCEPT ![r] = "replied"]
    BY DEF Reply
<1>. HIDE DEF h
<1>3. heap \in [Slots -> Int]
    BY DEF Inv, MemoryTypes
<1>4. ExpiredIn(codes) => ExpiredIn(codes')
    BY FollowsKeeps DEF Tables
<1>5. Moved(r, h, "replied")
    BY <1>1, <1>2, <1>3, <1>4 DEF Moved, ListFits, Enters
<1>6. MovedIban(r, h, "replied")
    <2>1. method.kind = "iban" /\ h.response \in Codes => ToldIn(codes', h.response)
        BY <1>1, FollowsKeeps DEF Enters, Tables
    <2>. QED
        BY <1>1, <2>1 DEF MovedIban, IbanSlot, Apart, Discreet
<1>. QED
    BY <1>5, <1>6 DEF Outcome

(* A call after which the plugin waits.                                     *)
LEMMA SuspendMoves ==
    ASSUME Inv, Tables, NEW r \in Slots, NEW g, Enters(r, g), NEW as \in {"child", "listening"},
           method.kind = IF as = "listening" THEN "iban" ELSE "helper",
           g.inList, Entitled(g),
           Suspend(r, [g EXCEPT !.as = as]), proc' = proc, refunds' = refunds,
           swapped' = swapped, ListFits(r, list', TRUE), Discreet(r, codes'),
           ~Underpaid /\ ~ExpiredIn(codes') => ~g.hn,
           as = "listening" =>
              /\ ListensFor(g, codes')
              /\ \A q \in Slots \ {r} : Listens(gc[q]) /\ gc[q].code = g.code => ToldIn(codes', g.code)
    PROVE  Outcome(r)
<1>. DEFINE h == [[g EXCEPT !.as = as] EXCEPT !.suspended = TRUE, !.hn = TRUE]
<1>1. /\ h \in Context /\ h.as = as /\ h.reply = "none" /\ h.merchant = "none" /\ h.live
      /\ h.inList /\ h.hn /\ h.response = g.response /\ h.pid = g.pid /\ h.code = g.code
      /\ h.suspended /\ h.event = g.event /\ h.timeout = g.timeout
      /\ h.provided => h.pid # NoPid
    BY DEF Enters, Handled, Opened, Context, Plugin
<1>2. gc' = [gc EXCEPT ![r] = h] /\ conn' = [conn EXCEPT ![r] = "parked"]
      /\ heap' = [heap EXCEPT ![r] = @ + 1]
    BY DEF Suspend
<1>. HIDE DEF h
<1>3. SlotInv(h, "parked")
    BY <1>1 DEF SlotInv, Plugged
<1>4. ServedPaid(h) /\ SharesProven(h, issued') /\ ~Orders(h)
    BY <1>1 DEF ServedPaid, Entitled, SharesProven, Orders
<1>5. ExpiredIn(codes) => ExpiredIn(codes')
    BY FollowsKeeps DEF Tables
<1>6. /\ heap' \in [Slots -> Int] /\ \A q \in Slots \ {r} : heap'[q] = heap[q]
      /\ ~Underpaid /\ ~ExpiredIn(codes') => heap'[r] = 1
    BY <1>2, <1>5 DEF Inv, MemoryTypes, Enters
<1>7. Moved(r, h, "parked")
    BY <1>1, <1>2, <1>3, <1>4, <1>6 DEF Moved, ListFits, Inv, MemoryTypes
<1>8. MovedIban(r, h, "parked")
    <2>1. method.kind = "iban" /\ h.response \in Codes => ToldIn(codes', h.response)
        BY <1>1, FollowsKeeps DEF Enters, Tables
    <2>2. h.as = "listening" => ListensFor(h, codes')
        BY <1>1 DEF ListensFor
    <2>. QED
        BY <1>1, <2>1, <2>2 DEF MovedIban, IbanSlot, Apart, Discreet, Listens
<1>. QED
    BY <1>7, <1>8 DEF Outcome

(* What becomes of the payments: no row appears, none becomes paid unless   *)
(* its order is.                                                            *)
PaysFit(ps) ==
    /\ ps \in [Pids -> {Absent} \cup Payment]
    /\ \A p \in Pids : /\ ps[p].known <=> pays[p].known
                       /\ ps[p].known /\ ps[p].paid => Settled(orders, p)

(* What the database calls on the payments leave.                           *)
LEMMA PaymentsFit ==
    ASSUME Inv
    PROVE  /\ PaysFit(pays)
           /\ \A p : PaysFit(AfterIssue(pays, p))
           /\ \A p \in Pids : /\ PaysFit(AfterRefund(pays, p))
                              /\ Settled(orders, p) => PaysFit(AfterPaid(pays, p))
           /\ \A p \in Pids : Covers(pays, p) => Settled(orders, p)
<1>1. /\ pays \in [Pids -> {Absent} \cup Payment] /\ Absent.known = FALSE
      /\ \A p \in Pids : pays[p].known /\ pays[p].paid => Settled(orders, p)
    BY DEF Inv, TableTypes, RowsSettled, Absent
<1>2. PaysFit(pays)
    BY <1>1 DEF PaysFit
<1>3. \A p \in Pids : pays[p].known <=> pays[p] \in Payment
    BY <1>1 DEF Payment
<1>4. ASSUME NEW p PROVE PaysFit(AfterIssue(pays, p))
    <2>1. CASE p \in Pids /\ pays[p].known /\ pays[p].counter > 0
        <3>1. [pays[p] EXCEPT !.counter = pays[p].counter - 1] \in Payment
            <4>1. \A x \in Payment : [x EXCEPT !.counter = x.counter - 1] \in Payment
                <5>1. SUFFICES ASSUME NEW x \in Payment
                               PROVE  [x EXCEPT !.counter = x.counter - 1] \in Payment
                    OBVIOUS
                <5>2. x.counter - 1 \in Int
                    BY DEF Payment
                <5>. QED
                    BY <5>2 DEF Payment
            <4>. QED
                BY <1>3, <2>1, <4>1
        <3>2. AfterIssue(pays, p) = [pays EXCEPT ![p] = [pays[p] EXCEPT !.counter = pays[p].counter - 1]]
            BY <2>1 DEF AfterIssue
        <3>. QED
            BY <1>1, <1>3, <2>1, <3>1, <3>2 DEF PaysFit, Payment
    <2>2. CASE p \in Pids /\ ~(pays[p].known /\ pays[p].counter > 0)
        BY <1>2, <2>2 DEF AfterIssue
    <2>3. CASE p \notin Pids
        <3>1. [pays EXCEPT ![p].counter = pays[p].counter - 1] = pays
            BY <1>1, <2>3
        <3>. QED
            BY <1>2, <3>1 DEF AfterIssue
    <2>. QED
        BY <2>1, <2>2, <2>3
<1>5. ASSUME NEW p \in Pids PROVE PaysFit(AfterRefund(pays, p))
    <2>1. CASE pays[p].known /\ pays[p].paid
        <3>1. AfterRefund(pays, p) = [pays EXCEPT ![p] = [pays[p] EXCEPT !.refunded = TRUE]]
            BY <2>1 DEF AfterRefund
        <3>. QED
            BY <1>1, <1>3, <2>1, <3>1, ZenonT(60) DEF PaysFit, Payment
    <2>2. CASE ~(pays[p].known /\ pays[p].paid)
        BY <1>2, <2>2 DEF AfterRefund
    <2>. QED
        BY <2>1, <2>2
<1>6. ASSUME NEW p \in Pids, Settled(orders, p) PROVE PaysFit(AfterPaid(pays, p))
    <2>1. CASE pays[p].known /\ ~pays[p].refunded
        <3>1. AfterPaid(pays, p) = [pays EXCEPT ![p] = [pays[p] EXCEPT !.paid = TRUE]]
            BY <2>1 DEF AfterPaid
        <3>. QED
            BY <1>1, <1>3, <1>6, <2>1, <3>1 DEF PaysFit, Payment
    <2>2. CASE ~(pays[p].known /\ ~pays[p].refunded)
        BY <1>2, <2>2 DEF AfterPaid
    <2>. QED
        BY <2>1, <2>2
<1>7. \A p \in Pids : Covers(pays, p) => Settled(orders, p)
    BY <1>1 DEF Covers, Usable
<1>. QED
    BY <1>2, <1>4, <1>5, <1>6, <1>7

(* The plugin has failed.                                                   *)
LEMMA FailedMoves ==
    ASSUME Inv, Tables, NEW r \in Slots, NEW g, Enters(r, g), Failed(r, g),
           swapped' = swapped, ListFits(r, list', g.inList), Discreet(r, codes')
    PROVE  Outcome(r)
<1>1. refunds' \in [Pids -> Nat]
    <2>1. refunds \in [Pids -> Nat]
        BY DEF Inv, MemoryTypes
    <2>2. CASE g.pid \in Pids
        <3>1. refunds[g.pid] + 1 \in Nat
            BY <2>1, <2>2
        <3>. QED
            BY <2>1, <3>1 DEF Failed
    <2>3. CASE g.pid \notin Pids
        BY <2>1, <2>3 DEF Failed
    <2>. QED
        BY <2>2, <2>3
<1>2. Reply(r, g, "error") /\ proc' = proc /\ heap' = heap
    BY DEF Failed
<1>3. "error" \in Replies \ {"none"} /\ "error" \notin {"sent", "share"}
    BY DEF Replies
<1>. QED
    BY <1>1, <1>2, <1>3, ReplyMoves

(* sms_process, email_process and post_process.                             *)
LEMMA HelperMoves ==
    ASSUME Inv, NEW r \in Slots, NEW g, Enters(r, g), method.kind = "helper",
           g.inList, g.as # "none", Entitled(g),
           ~g.hn \/ g.as \in {"ok", "bad"},
           NEW l, ListFits(r, l, TRUE), NEW T, Table(T), Follows(codes, T),
           CodesProven(T, issued'), issued \subseteq issued', swapped' = swapped,
           UNCHANGED world, HelperProcess(r, g, l, T)
    PROVE  Tables /\ Outcome(r)
<1>1. list' = l /\ Discreet(r, codes') /\ PaysFit(pays)
    BY PaymentsFit DEF HelperProcess, Discreet
<1>2. CASE g.as \in {"new", "child"} /\ Suspend(r, [g EXCEPT !.as = "child"]) /\ codes' = T
           /\ UNCHANGED <<proc, refunds, pays>>
    <2>1. Tables
        BY <1>1, <1>2 DEF Tables, PaysFit
    <2>2. "child" \in {"child", "listening"} /\ "child" # "listening"
        OBVIOUS
    <2>. QED
        BY <1>1, <1>2, <2>1, <2>2, SuspendMoves
<1>3. CASE Failed(r, g) /\ codes' = T
    <2>1. Tables
        BY <1>1, <1>3 DEF Tables, PaysFit, Failed
    <2>. QED
        BY <1>1, <1>3, <2>1, FailedMoves
<1>4. CASE Sent(r, g, T)
    <2>1. Table(codes') /\ Follows(T, codes') /\ Adds(T, codes', {g.code}, {})
        BY <1>4, SentTable DEF Sent
    <2>2. Follows(codes, codes')
        BY <2>1, FollowsTransitive
    <2>3. CodesProven(codes', issued')
        BY <2>1 DEF CodesProven, Adds, SatisfiedIn
    <2>4. PaysFit(pays')
        BY <1>1, <1>4, PaymentsFit DEF Sent
    <2>5. Tables
        BY <2>1, <2>2, <2>3, <2>4 DEF Tables, PaysFit
    <2>6. "sent" \in Replies \ {"none"} /\ "sent" # "share" /\ refunds' \in [Pids -> Nat]
        BY <1>4 DEF Replies, Sent, Inv, MemoryTypes
    <2>7. Reply(r, g, "sent") /\ proc' = proc /\ heap' = heap
        BY <1>4 DEF Sent
    <2>. QED
        BY <1>1, <2>5, <2>6, <2>7, ReplyMoves
<1>. QED
    BY <1>2, <1>3, <1>4 DEF HelperProcess

(* What a request that processes IBAN code g.code brings along.             *)
IbanEnters(r, g, T) ==
    /\ HeldIn(T, g.code)
    /\ g.response = g.code \/ ~ToldIn(T, g.code)
    /\ ~ExpiredIn(T) /\ g.event => Quoted(g.code) \/ SatisfiedIn(T, g.code)
    /\ ~ExpiredIn(T) /\ g.hn =>
          g.timeout <= now \/ Quoted(g.code) \/ SatisfiedIn(T, g.code)
    /\ \A q \in Slots \ {r} :
          Listens(gc[q]) /\ gc[q].code = g.code => ToldIn(codes, g.code)

(* Only a code that was told is quoted or satisfied, and unless a transfer  *)
(* fell short or a code expired, the plugin sees both.                      *)
LEMMA IbanEvidence ==
    ASSUME Inv, method.kind = "iban", NEW T, Table(T), NEW is, CodesProven(T, is),
           WiresTold(T), NEW code
    PROVE  /\ Quoted(code) \/ SatisfiedIn(T, code) => ToldIn(T, code)
           /\ ~Underpaid /\ ~ExpiredIn(T) /\ Quoted(code) => Wired(code)
           /\ ~ExpiredIn(T) /\ SatisfiedIn(T, code)
                => IsSatisfied(T, Truth, code, now - method.validity)
<1>1. SatisfiedIn(T, code) => Quoted(code)
    BY DEF SatisfiedIn, Quoted, CodesProven, CodeProven
<1>2. Quoted(code) => ToldIn(T, code)
    BY DEF Quoted, ToldIn, WiresTold
<1>3. \A c \in T : /\ c.created \in Nat /\ c.truth = Truth
                   /\ c.expires = c.created + method.validity
    BY DEF Table, Row
<1>4. ASSUME ~Underpaid, ~ExpiredIn(T), Quoted(code) PROVE Wired(code)
    <2>1. PICK w \in wires : w.code = code
        BY <1>4 DEF Quoted
    <2>2. w.enough /\ w.at \in Nat
        BY <1>4, <2>1 DEF Underpaid, Inv, TableTypes, Wire
    <2>3. PICK c \in T : c.code = w.code /\ c.created <= w.at
        BY <2>1 DEF WiresTold
    <2>4. ~(c.expires <= now)
        BY <1>4 DEF ExpiredIn
    <2>5. w.at >= now - method.validity
        BY <1>3, <2>2, <2>3, <2>4, MethodTypes
    <2>. QED
        BY <2>1, <2>2, <2>5 DEF Wired
<1>5. ASSUME ~ExpiredIn(T), SatisfiedIn(T, code)
      PROVE  IsSatisfied(T, Truth, code, now - method.validity)
    <2>1. PICK c \in T : c.code = code /\ c.satisfied
        BY <1>5 DEF SatisfiedIn
    <2>2. ~(c.expires <= now)
        BY <1>5 DEF ExpiredIn
    <2>3. c.created >= now - method.validity
        BY <1>3, <2>2, MethodTypes
    <2>. QED
        BY <1>3, <2>1, <2>3 DEF IsSatisfied
<1>. QED
    BY <1>1, <1>2, <1>4, <1>5

(* The transfer is there: the request goes on without the plugin.           *)
LEMMA FinishedMoves ==
    ASSUME Inv, Tables, NEW r \in Slots, NEW g, Enters(r, g), method.kind = "iban",
           NEW l \in Lists(Slots), ListFits(r, l, TRUE), g.inList, list' = Removed(l, r),
           gc' = [gc EXCEPT ![r] = [g EXCEPT !.as = "none", !.inList = FALSE]],
           conn' = [conn EXCEPT ![r] = "ready"],
           UNCHANGED <<proc, heap, refunds>>, swapped' = swapped,
           SatisfiedIn(codes', g.response), Discreet(r, codes')
    PROVE  Outcome(r)
<1>. DEFINE h == [g EXCEPT !.as = "none", !.inList = FALSE]
<1>1. /\ h \in Context /\ h.as = "none" /\ h.reply = "none" /\ h.merchant = "none" /\ h.live
      /\ h.inList = FALSE /\ h.hn = g.hn /\ h.response = g.response /\ h.suspended = FALSE
      /\ h.provided => h.pid # NoPid
    BY DEF Enters, Handled, Opened, Context, Plugin
<1>2. gc' = [gc EXCEPT ![r] = h]
    OBVIOUS
<1>. HIDE DEF h
<1>3. SlotInv(h, "ready")
    BY <1>1 DEF SlotInv, Unplugged
<1>4. ServedPaid(h) /\ SharesProven(h, issued') /\ ~Orders(h) /\ ~Listens(h)
    BY <1>1 DEF ServedPaid, Entitled, SharesProven, Orders, Listens
<1>5. ExpiredIn(codes) => ExpiredIn(codes')
    BY FollowsKeeps DEF Tables
<1>6. /\ heap' \in [Slots -> Int] /\ \A q \in Slots \ {r} : heap'[q] = heap[q]
      /\ ~Underpaid /\ ~ExpiredIn(codes') => heap'[r] = IF h.hn THEN 1 ELSE 0
    BY <1>1, <1>5 DEF Inv, MemoryTypes, Enters
<1>7. list' \in Lists(Slots) /\ (~swapped' => IsListOf(list', Members \ {r}))
    <2>1. ASSUME ~swapped PROVE IsListOf(Removed(l, r), Members \ {r})
        <3>1. IsListOf(l, Members \cup {r})
            BY <2>1 DEF ListFits
        <3>2. IsListOf(Removed(l, r), (Members \cup {r}) \ {r})
            BY <3>1, NamesAssumption, RemovedIsList
        <3>3. (Members \cup {r}) \ {r} = Members \ {r}
            OBVIOUS
        <3>. QED
            BY <3>2, <3>3
    <2>. QED
        BY <2>1, NamesAssumption, RemovedIsList
<1>8. Moved(r, h, "ready")
    BY <1>1, <1>2, <1>3, <1>4, <1>6, <1>7 DEF Moved, Inv, MemoryTypes
<1>9. MovedIban(r, h, "ready")
    <2>1. h.response \in Codes => ToldIn(codes', h.response)
        BY <1>1, FollowsKeeps DEF Enters, Tables
    <2>. QED
        BY <1>1, <1>4, <2>1 DEF MovedIban, IbanSlot, Apart, Discreet
<1>. QED
    BY <1>8, <1>9 DEF Outcome

(* iban_process.                                                            *)
LEMMA IbanMoves ==
    ASSUME Inv, NEW r \in Slots, NEW g, Enters(r, g), method.kind = "iban", g.inList,
           NEW l, ListFits(r, l, TRUE), NEW T, Table(T), Follows(codes, T), Discreet(r, T),
           CodesProven(T, issued'), issued \subseteq issued', swapped' = swapped,
           UNCHANGED world, IbanEnters(r, g, T), IbanProcess(r, g, l, T)
    PROVE  Tables /\ Outcome(r)
<1>. DEFINE satisfied == IsSatisfied(T, Truth, g.code, now - method.validity)
<1>1. WiresTold(T) /\ PaysFit(pays) /\ Entitled(g) /\ l \in Lists(Slots)
    BY FollowsKeeps, PaymentsFit DEF Inv, IbanInv, Entitled, ListFits
<1>2. /\ Quoted(g.code) \/ SatisfiedIn(T, g.code) => ToldIn(T, g.code)
      /\ ~Underpaid /\ ~ExpiredIn(T) /\ Quoted(g.code) => Wired(g.code)
      /\ ~ExpiredIn(T) /\ SatisfiedIn(T, g.code) => satisfied
    BY <1>1, IbanEvidence
<1>3. (satisfied => SatisfiedIn(T, g.code)) /\ (Wired(g.code) => Quoted(g.code))
    BY DEF IsSatisfied, SatisfiedIn, Wired, Quoted
<1>4. ASSUME satisfied \/ Wired(g.code),
             codes' = IF satisfied THEN T ELSE AfterSatisfied(T, Truth, g.code),
             IF g.inList /\ ~Removable(l, r) THEN Abort
             ELSE /\ list' = IF g.inList THEN Removed(l, r) ELSE l
                  /\ gc' = [gc EXCEPT ![r] = [g EXCEPT !.as = "none", !.inList = FALSE]]
                  /\ conn' = [conn EXCEPT ![r] = "ready"]
                  /\ UNCHANGED <<proc, heap, refunds>>,
             UNCHANGED pays
      PROVE  Tables /\ Outcome(r)
    <2>. HIDE DEF satisfied
    <2>1. /\ Table(AfterSatisfied(T, Truth, g.code))
          /\ Follows(T, AfterSatisfied(T, Truth, g.code))
          /\ Adds(T, AfterSatisfied(T, Truth, g.code), {}, {g.code})
          /\ SatisfiedIn(AfterSatisfied(T, Truth, g.code), g.code)
        BY SatisfiedTable DEF IbanEnters
    <2>2. /\ Table(codes') /\ Follows(codes, codes') /\ SatisfiedIn(codes', g.code)
        BY <1>3, <1>4, <2>1, FollowsTransitive
    <2>3. \A code : ToldIn(codes', code) => ToldIn(T, code)
        BY <1>4, <2>1 DEF Adds
    <2>4. CodesProven(codes', issued')
        <3>1. CASE satisfied
            BY <1>4, <3>1
        <3>2. CASE ~satisfied
            <4>1. \E w \in wires : w.code = g.code /\ w.enough
                BY <1>4, <3>2 DEF Wired
            <4>. QED
                BY <1>4, <2>1, <3>2, <4>1 DEF CodesProven, CodeProven, Adds, SatisfiedIn
        <3>. QED
            BY <3>1, <3>2
    <2>5. Tables
        <3>1. WiresTold(codes')
            BY <2>2, FollowsKeeps DEF Inv, IbanInv
        <3>. QED
            BY <1>1, <1>4, <2>2, <2>4, <3>1 DEF Tables, PaysFit
    <2>6. g.response = g.code
        BY <1>2, <1>3, <1>4 DEF IbanEnters
    <2>7. Discreet(r, codes')
        BY <2>3 DEF Discreet
    <2>8. CASE Removable(l, r)
        BY <1>1, <1>4, <2>2, <2>5, <2>6, <2>7, <2>8, FinishedMoves
    <2>9. CASE ~Removable(l, r)
        <3>1. swapped
            <4>1. IsListOf(l, Members \cup {r}) => Removable(l, r)
                <5>1. \A M : IsListOf(l, M) /\ r \in M => Removable(l, r)
                    BY <1>1, NamesAssumption, RemovedIsList
                <5>2. r \in Members \cup {r}
                    OBVIOUS
                <5>. QED
                    BY <5>1, <5>2
            <4>. QED
                BY <2>9, <4>1 DEF ListFits
        <3>. QED
            BY <1>4, <2>5, <2>9, <3>1 DEF Outcome, Died
    <2>. QED
        BY <2>8, <2>9
<1>5. ASSUME ~satisfied, ~Wired(g.code), g.timeout > now,
             Suspend(r, [g EXCEPT !.as = "listening"]), list' = l, codes' = T,
             UNCHANGED <<proc, refunds, pays>>
      PROVE  Tables /\ Outcome(r)
    <2>. HIDE DEF satisfied
    <2>1. Tables
        BY <1>1, <1>5 DEF Tables, PaysFit
    <2>2. ~Underpaid /\ ~ExpiredIn(T) => ~g.hn
        <3>1. g.timeout \in Int /\ now \in Int
            BY MethodTypes DEF Enters, Handled, Opened
        <3>. QED
            BY <1>2, <1>5, <3>1 DEF IbanEnters
    <2>3. ListensFor(g, T)
        BY <1>2, <1>5 DEF IbanEnters, ListensFor
    <2>4. \A q \in Slots \ {r} : Listens(gc[q]) /\ gc[q].code = g.code => ToldIn(T, g.code)
        BY FollowsKeeps DEF IbanEnters
    <2>5. "listening" \in {"child", "listening"}
        OBVIOUS
    <2>. QED
        BY <1>1, <1>5, <2>1, <2>2, <2>3, <2>4, <2>5, SuspendMoves
<1>6. ASSUME Sent(r, g, T), list' = l
      PROVE  Tables /\ Outcome(r)
    <2>1. Table(codes') /\ Follows(T, codes') /\ Adds(T, codes', {g.code}, {})
        BY <1>6, SentTable DEF Sent
    <2>2. Follows(codes, codes')
        BY <2>1, FollowsTransitive
    <2>3. CodesProven(codes', issued')
        BY <2>1 DEF CodesProven, Adds, SatisfiedIn
    <2>4. PaysFit(pays')
        BY <1>1, <1>6, PaymentsFit DEF Sent
    <2>5. WiresTold(codes')
        BY <2>2, FollowsKeeps DEF Inv, IbanInv
    <2>6. Tables
        BY <2>1, <2>2, <2>3, <2>4, <2>5 DEF Tables, PaysFit
    <2>7. "sent" \in Replies \ {"none"} /\ "sent" # "share" /\ refunds' \in [Pids -> Nat]
        BY <1>6 DEF Replies, Sent, Inv, MemoryTypes
    <2>8. Reply(r, g, "sent") /\ proc' = proc /\ heap' = heap
        BY <1>6 DEF Sent
    <2>9. Discreet(r, codes')
        BY <2>1 DEF Discreet, Adds, IbanEnters
    <2>. QED
        BY <1>1, <1>6, <2>6, <2>7, <2>8, <2>9, ReplyMoves
<1>. QED
    BY <1>4, <1>5, <1>6 DEF IbanProcess

-----------------------------------------------------------------------------
(* A call that serves a request from the payment gate on.                   *)

(* The context of such a call; for IBAN, one that a transfer has finished   *)
(* or that has not waited for any yet.                                      *)
Serving(r, g) ==
    /\ Enters(r, g) /\ g.as = "none" /\ ~g.inList /\ r \notin Members
    /\ method.kind # "iban" => ~g.hn
    /\ method.kind = "iban" =>
          ExpiredIn(codes) \/ SatisfiedIn(codes, g.response) \/ (~g.hn /\ ~g.event)

(* What the table of codes may have become before the plugin is started.    *)
TableFits(r, T) ==
    Table(T) /\ Follows(codes, T) /\ CodesProven(T, issued) /\ Discreet(r, T)

(* The table as it is will do.                                              *)
LEMMA SameTable ==
    ASSUME Inv, NEW r
    PROVE  TableFits(r, codes)
BY DEF Inv, TableFits, Follows, Discreet

(* So will the table after a comparison, which tells and proves nothing.    *)
LEMMA VerifiedFits ==
    ASSUME Inv, NEW r, NEW T, TableFits(r, T), NEW answer
    PROVE  TableFits(r, AfterVerify(T, Truth, answer, now))
<1>. DEFINE U == AfterVerify(T, Truth, answer, now)
<1>1. Table(U) /\ Follows(T, U) /\ Adds(T, U, {}, {})
    BY VerifyTable DEF TableFits
<1>. HIDE DEF U
<1>2. Follows(codes, U)
    BY <1>1, FollowsTransitive DEF TableFits
<1>3. CodesProven(U, issued)
    BY <1>1 DEF CodesProven, Adds, SatisfiedIn, TableFits
<1>4. Discreet(r, U)
    BY <1>1 DEF Discreet, Adds, TableFits
<1>. QED
    BY <1>1, <1>2, <1>3, <1>4 DEF TableFits, U

(* And so will the table with a new code.                                   *)
LEMMA AddedFits ==
    ASSUME Inv, NEW r, NEW code \in Codes, NEW validity \in Nat, NEW tries \in Int,
           method.kind = "iban" => validity = method.validity /\ tries < 0
    PROVE  TableFits(r, codes \cup {NewRow(Truth, code, now, validity, tries)})
<1>. DEFINE U == codes \cup {NewRow(Truth, code, now, validity, tries)}
<1>1. /\ Table(U) /\ Follows(codes, U)
      /\ \A x : /\ ToldIn(U, x) => ToldIn(codes, x)
                /\ SatisfiedIn(U, x) => SatisfiedIn(codes, x)
    BY AddedTable DEF Inv
<1>. HIDE DEF U
<1>2. CodesProven(U, issued)
    BY <1>1 DEF Inv, CodesProven, SatisfiedIn
<1>. QED
    BY <1>1, <1>2 DEF TableFits, Discreet, U

(* The list is as the last call left it, without the request.               *)
LEMMA ListBefore ==
    ASSUME Inv, NEW r \in Slots, r \notin Members
    PROVE  ListFits(r, list, FALSE) /\ ListFits(r, Inserted(list, r), TRUE)
<1>1. list \in Lists(Slots) /\ (~swapped => IsListOf(list, Members)) /\ Nil \notin Slots
    BY NamesAssumption DEF Inv, MemoryTypes, ListExact
<1>2. Members \ {r} = Members
    OBVIOUS
<1>3. /\ Inserted(list, r) \in Lists(Slots)
      /\ \A M : IsListOf(list, M) /\ r \notin M => IsListOf(Inserted(list, r), M \cup {r})
    BY <1>1, InsertedIsList
<1>. QED
    BY <1>1, <1>2, <1>3 DEF ListFits

(* A reply that ends the request at once.                                   *)
LEMMA StopMoves ==
    ASSUME Inv, NEW r \in Slots, NEW g, Serving(r, g), NEW what \in Replies \ {"none", "sent"},
           what = "share" => Entitled(g) /\ ShareProven(g, issued),
           NEW T, TableFits(r, T), codes' = T, Reply(r, g, what),
           UNCHANGED <<proc, list, heap, refunds, pays, issued, swapped>>, UNCHANGED world
    PROVE  Tables /\ Outcome(r)
<1>1. PaysFit(pays) /\ ListFits(r, list, FALSE) /\ refunds \in [Pids -> Nat]
    BY PaymentsFit, ListBefore DEF Serving, Inv, MemoryTypes
<1>2. WiresTold(T) \/ method.kind # "iban"
    BY FollowsKeeps DEF Inv, IbanInv, TableFits
<1>3. Tables
    BY <1>1, <1>2 DEF Tables, TableFits, PaysFit
<1>4. what \in Replies \ {"none"} /\ what # "sent" /\ g.inList = FALSE /\ Enters(r, g)
    BY DEF Serving, Enters, Handled, Opened
<1>5. Discreet(r, codes') /\ ListFits(r, list', g.inList) /\ issued' = issued
    BY <1>1, <1>4 DEF TableFits
<1>. QED
    BY <1>1, <1>3, <1>4, <1>5, ReplyMoves

(* begin_payment has asked the merchant.                                    *)
LEMMA AskMoves ==
    ASSUME Inv, NEW r \in Slots, NEW g, Serving(r, g), method.kind # "iban",
           NEW p \in Pids, NEW what \in {"order", "check"},
           what = "order" =>
              /\ orders[p] = "none" /\ ~pays[p].known
              /\ \A q \in Slots : gc[q].live => gc[q].pid # p,
           gc' = [gc EXCEPT ![r] = [g EXCEPT !.pid = p, !.merchant = what,
                                             !.inList = TRUE, !.suspended = TRUE]],
           conn' = [conn EXCEPT ![r] = "parked"],
           list' = Exchanged(Inserted(Exchanged(list), r)),
           swapped' = (swapped \/ list.head # Nil),
           UNCHANGED <<proc, heap, refunds, codes, pays, issued>>, UNCHANGED world
    PROVE  Tables /\ Outcome(r)
<1>. DEFINE h == [g EXCEPT !.pid = p, !.merchant = what, !.inList = TRUE, !.suspended = TRUE]
<1>1. PaysFit(pays) /\ TableFits(r, codes) /\ ListFits(r, list, FALSE)
    BY PaymentsFit, SameTable, ListBefore DEF Serving
<1>2. Tables
    BY <1>1 DEF Tables, TableFits, PaysFit
<1>3. /\ h \in Context /\ h.as = "none" /\ h.reply = "none" /\ h.merchant = what /\ h.live
      /\ h.inList /\ h.hn = FALSE /\ h.pid = p /\ h.suspended
    BY DEF Serving, Enters, Handled, Opened, Context, Plugin
<1>4. gc' = [gc EXCEPT ![r] = h]
    OBVIOUS
<1>. HIDE DEF h
<1>5. p # NoPid
    BY NamesAssumption
<1>6. SlotInv(h, "parked")
    BY <1>3, <1>5 DEF SlotInv, Waits, Unplugged
<1>7. ServedPaid(h) /\ SharesProven(h, issued')
    BY <1>3 DEF ServedPaid, SharesProven
<1>8. list' \in Lists(Slots) /\ (~swapped' => IsListOf(list', Members \cup {r}))
    <2>1. /\ Exchanged(Inserted(Exchanged(list), r)) \in Lists(Slots)
          /\ \A M : IsListOf(list, M) /\ list.head = Nil
                      => IsListOf(Exchanged(Inserted(Exchanged(list), r)), M \cup {r})
        BY <1>1, NamesAssumption, ExchangedInsertion DEF ListFits
    <2>2. (Members \ {r}) \cup {r} = Members \cup {r}
        OBVIOUS
    <2>3. ~swapped => IsListOf(list, Members \ {r})
        BY <1>1 DEF ListFits
    <2>. QED
        BY <2>1, <2>2, <2>3
<1>9. heap' = heap /\ heap \in [Slots -> Int] /\ refunds' \in [Pids -> Nat]
      /\ (~Underpaid /\ ~ExpiredIn(codes') => heap'[r] = IF h.live /\ h.hn THEN 1 ELSE 0)
    BY <1>3 DEF Inv, MemoryTypes, Serving, Enters
<1>10. Orders(h) => /\ orders[h.pid] = "none" /\ ~pays'[h.pid].known
                    /\ \A q \in Slots \ {r} : Orders(gc[q]) => gc[q].pid # h.pid
    BY <1>3 DEF Orders
<1>11. Moved(r, h, "parked")
    BY <1>3, <1>4, <1>6, <1>7, <1>8, <1>9, <1>10 DEF Moved
<1>. QED
    BY <1>2, <1>11 DEF Outcome, MovedIban

(* begin_payment: it asks the merchant, or fails.                           *)
LEMMA PaymentMoves ==
    ASSUME Inv, NEW r \in Slots, NEW g, Serving(r, g), method.kind # "iban",
           BeginPayment(r, g), UNCHANGED world
    PROVE  Tables /\ Outcome(r)
<1>. DEFINE Ask(p, what) ==
                IF g.inList THEN Abort /\ UNCHANGED swapped ELSE
                /\ gc' = [gc EXCEPT ![r] = [g EXCEPT !.pid = p, !.merchant = what,
                                                     !.inList = TRUE, !.suspended = TRUE]]
                /\ conn' = [conn EXCEPT ![r] = "parked"]
                /\ list' = Exchanged(Inserted(Exchanged(list), r))
                /\ swapped' = (swapped \/ list.head # Nil)
                /\ UNCHANGED <<proc, heap>>
<1>1. UNCHANGED <<refunds, codes, pays, issued>> /\ g.inList = FALSE
    BY DEF BeginPayment, Serving, Enters, Handled, Opened
<1>2. ASSUME NEW p \in Pids, Ask(p, "check") PROVE Tables /\ Outcome(r)
    <2>1. "check" \in {"order", "check"} /\ "check" # "order"
        OBVIOUS
    <2>. QED
        BY <1>1, <1>2, <2>1, AskMoves
<1>3. ASSUME NEW p \in Pids, Ask(p, "order"), orders[p] = "none" /\ ~pays[p].known,
             \A q \in Slots : gc[q].live => gc[q].pid # p
      PROVE  Tables /\ Outcome(r)
    <2>1. "order" \in {"order", "check"}
        OBVIOUS
    <2>. QED
        BY <1>1, <1>3, <2>1, AskMoves
<1>4. ASSUME Reply(r, g, "error"), UNCHANGED <<proc, list, heap, swapped>>
      PROVE  Tables /\ Outcome(r)
    <2>1. "error" \in Replies \ {"none", "sent"} /\ "error" # "share"
        BY DEF Replies
    <2>. QED
        BY <1>1, <1>4, <2>1, SameTable, StopMoves
<1>5. PendingPayments(pays, now, OfferLifetime) \subseteq Pids
    BY DEF PendingPayments, Inv, TableTypes
<1>6. \/ \E p \in Pids : Ask(p, "check")
      \/ \E p \in Pids : /\ orders[p] = "none" /\ ~pays[p].known
                         /\ \A q \in Slots : gc[q].live => gc[q].pid # p
                         /\ Ask(p, "order")
      \/ Reply(r, g, "error") /\ UNCHANGED <<proc, list, heap, swapped>>
    BY <1>5 DEF BeginPayment
<1>. HIDE DEF Ask
<1>. QED
    BY <1>2, <1>3, <1>4, <1>6

(* The start of the plugin.                                                 *)
LEMMA StartMoves ==
    ASSUME Inv, NEW r \in Slots, NEW g, Serving(r, g), Entitled(g), method.kind # "question",
           NEW T, TableFits(r, T), HeldIn(T, g.code), method.kind = "iban" => IbanEnters(r, g, T),
           StartPlugin(r, g, T), swapped' = swapped, UNCHANGED world
    PROVE  Tables /\ Outcome(r)
<1>. DEFINE g2 == [g EXCEPT !.inList = TRUE, !.as = "new"]
            l == Inserted(list, r)
<1>1. /\ g2 \in Opened(Plugin \cup {"new"}) /\ g2.as = "new" /\ g2.inList
      /\ g2.hn = g.hn /\ g2.code = g.code /\ g2.response = g.response /\ g2.pid = g.pid
      /\ g2.event = g.event /\ g2.timeout = g.timeout /\ g2.provided = g.provided
      /\ g2.merchant = g.merchant /\ g2.reply = g.reply /\ g2.suspended = g.suspended
    BY DEF Serving, Enters, Handled, Opened, Plugin
<1>2. g.inList = FALSE /\ g.code \in Codes
    BY DEF Serving, Enters, Handled, Opened, HeldIn, TableFits, Table, Row
<1>3. issued' = issued \cup {g.code}
    BY DEF StartPlugin
<1>4. \/ method.kind = "totp" /\ g.code # 0 /\ Abort /\ codes' = T /\ UNCHANGED pays
      \/ method.kind = "totp" /\ g.code = 0 /\ Failed(r, g2) /\ list' = l /\ codes' = T
      \/ method.kind = "helper" /\ HelperProcess(r, g2, l, AfterSatisfied(T, Truth, g.code))
      \/ /\ method.kind = "helper" /\ Reply(r, g, "error") /\ codes' = T
         /\ UNCHANGED <<proc, list, heap, refunds, pays>>
      \/ method.kind = "iban" /\ IbanProcess(r, g2, l, T)
    BY <1>2, MethodTypes DEF StartPlugin, Kinds
<1>. HIDE DEF g2, l
<1>5. Enters(r, g2) /\ Entitled(g2) /\ (method.kind # "iban" => ~g2.hn)
    BY <1>1 DEF Serving, Enters, Handled, Entitled
<1>6. ListFits(r, l, TRUE) /\ ListFits(r, list, FALSE) /\ PaysFit(pays)
    BY ListBefore, PaymentsFit DEF Serving, l
<1>7. CodesProven(T, issued') /\ issued \subseteq issued'
    BY <1>3 DEF TableFits, CodesProven, CodeProven
<1>8. method.kind = "iban" => WiresTold(T)
    BY FollowsKeeps DEF Inv, IbanInv, TableFits
<1>9. codes' = T /\ PaysFit(pays') => Tables
    BY <1>7, <1>8 DEF Tables, TableFits, PaysFit
<1>10. CASE method.kind = "totp" /\ g.code # 0 /\ Abort /\ codes' = T /\ UNCHANGED pays
    <2>1. ~DirectValidation'
        BY <1>3, <1>10 DEF DirectValidation, world
    <2>. QED
        BY <1>6, <1>9, <1>10, <2>1 DEF Outcome, Died
<1>11. CASE method.kind = "totp" /\ Failed(r, g2) /\ list' = l /\ codes' = T
    <2>1. Tables
        BY <1>6, <1>9, <1>11 DEF Failed
    <2>2. ListFits(r, list', g2.inList) /\ Discreet(r, codes')
        BY <1>1, <1>6, <1>11 DEF TableFits
    <2>. QED
        BY <1>5, <1>11, <2>1, <2>2, FailedMoves
<1>12. CASE method.kind = "helper" /\ HelperProcess(r, g2, l, AfterSatisfied(T, Truth, g.code))
    <2>. DEFINE U == AfterSatisfied(T, Truth, g.code)
    <2>1. Table(U) /\ Follows(T, U) /\ Adds(T, U, {}, {g.code})
        BY SatisfiedTable DEF TableFits
    <2>2. HelperProcess(r, g2, l, U)
        BY <1>12
    <2>. HIDE DEF U
    <2>3. Follows(codes, U)
        BY <2>1, FollowsTransitive DEF TableFits
    <2>4. CodesProven(U, issued')
        BY <1>3, <1>7, <1>12, <2>1 DEF CodesProven, CodeProven, Adds, SatisfiedIn
    <2>. QED
        BY <1>1, <1>5, <1>6, <1>7, <1>12, <2>1, <2>2, <2>3, <2>4, HelperMoves
<1>13. CASE Reply(r, g, "error") /\ codes' = T /\ UNCHANGED <<proc, list, heap, refunds, pays>>
    <2>1. Tables
        BY <1>6, <1>9, <1>13
    <2>2. "error" \in Replies \ {"none"} /\ "error" \notin {"sent", "share"}
        BY DEF Replies
    <2>3. refunds' \in [Pids -> Nat] /\ Enters(r, g)
        BY <1>13 DEF Inv, MemoryTypes, Serving
    <2>4. ListFits(r, list', g.inList) /\ Discreet(r, codes')
        BY <1>2, <1>6, <1>13 DEF TableFits
    <2>. QED
        BY <1>13, <2>1, <2>2, <2>3, <2>4, ReplyMoves
<1>14. CASE method.kind = "iban" /\ IbanProcess(r, g2, l, T)
    <2>1. IbanEnters(r, g2, T)
        BY <1>1, <1>14 DEF IbanEnters
    <2>. QED
        BY <1>1, <1>5, <1>6, <1>7, <1>14, <2>1, IbanMoves DEF TableFits
<1>. QED
    BY <1>4, <1>10, <1>11, <1>12, <1>13, <1>14

(* handle_security_question and direct_validation.                          *)
LEMMA CheckedMoves ==
    ASSUME Inv, NEW r \in Slots, NEW g, Serving(r, g), Entitled(g),
           method.kind \in {"question", "totp"}, NEW T, TableFits(r, T),
           NEW n, n.code \in Codes, CheckedAnswer(r, g, T, n),
           UNCHANGED <<pays, issued, swapped>>, UNCHANGED world
    PROVE  Tables /\ Outcome(r)
<1>. DEFINE wrong == n.code + 1
<1>1. MatchingRows(T, Truth, wrong, now) = {}
    <2>1. wrong \notin Codes
        BY CodesAssumption
    <2>. QED
        BY <2>1 DEF MatchingRows, UsableRows, TableFits, Table, Row
<1>2. PICK what \in {"error", "share", "wrong"} :
          Reply(r, g, what) /\ (what = "share" => g.response = RightResponse)
    BY <1>1 DEF CheckedAnswer
<1>3. codes' = AfterVerify(T, Truth, wrong, now) /\ UNCHANGED <<proc, list, heap, refunds>>
    BY <1>1 DEF CheckedAnswer
<1>4. TableFits(r, AfterVerify(T, Truth, wrong, now))
    BY VerifiedFits
<1>5. what = "share" => Entitled(g) /\ ShareProven(g, issued)
    BY <1>2 DEF ShareProven
<1>6. what \in Replies \ {"none", "sent"}
    BY DEF Replies
<1>. HIDE DEF wrong
<1>. QED
    BY <1>2, <1>3, <1>4, <1>5, <1>6, StopMoves

(* rate_limit, then the comparison with the right answer.                   *)
LEMMA LimitedMoves ==
    ASSUME Inv, NEW r \in Slots, NEW g, Serving(r, g), Entitled(g),
           method.kind \in {"question", "totp"}, LimitedAnswer(r, g), UNCHANGED world
    PROVE  Tables /\ Outcome(r)
<1>1. /\ UNCHANGED <<pays, issued, swapped>>
      /\ \/ \E code \in Codes :
               LET n == NewRow(Truth, code, now, AnswerValidity, AnswerTries)
               IN  CheckedAnswer(r, g, codes \cup {n}, n)
         \/ \E n \in codes : CheckedAnswer(r, g, codes, n)
         \/ Reply(r, g, "limited") /\ UNCHANGED <<proc, list, heap, refunds, codes>>
    BY DEF LimitedAnswer, NewestOf, RecentRows
<1>2. ASSUME NEW code \in Codes,
             CheckedAnswer(r, g, codes \cup {NewRow(Truth, code, now, AnswerValidity, AnswerTries)},
                           NewRow(Truth, code, now, AnswerValidity, AnswerTries))
      PROVE  Tables /\ Outcome(r)
    <2>. DEFINE n == NewRow(Truth, code, now, AnswerValidity, AnswerTries)
    <2>1. TableFits(r, codes \cup {n})
        BY NumbersAssumption, AddedFits
    <2>2. n.code \in Codes
        BY DEF NewRow
    <2>3. CheckedAnswer(r, g, codes \cup {n}, n)
        BY <1>2
    <2>. HIDE DEF n
    <2>. QED
        BY <1>1, <2>1, <2>2, <2>3, CheckedMoves
<1>3. ASSUME NEW n \in codes, CheckedAnswer(r, g, codes, n)
      PROVE  Tables /\ Outcome(r)
    <2>1. n.code \in Codes /\ TableFits(r, codes)
        BY SameTable DEF Inv, Table, Row
    <2>. QED
        BY <1>1, <1>3, <2>1, CheckedMoves
<1>4. ASSUME Reply(r, g, "limited"), UNCHANGED <<proc, list, heap, refunds, codes>>
      PROVE  Tables /\ Outcome(r)
    <2>1. "limited" \in Replies \ {"none", "sent"} /\ "limited" # "share"
        BY DEF Replies
    <2>. QED
        BY <1>1, <1>4, <2>1, SameTable, StopMoves
<1>. QED
    BY <1>1, <1>2, <1>3, <1>4

(* create_challenge_code, for a request without a response to compare.      *)
LEMMA NewChallengeMoves ==
    ASSUME Inv, NEW r \in Slots, NEW g, Serving(r, g), Entitled(g),
           method.kind # "question", g.response = NoResponse,
           NewChallenge(r, g), UNCHANGED world
    PROVE  Tables /\ Outcome(r)
<1>. DEFINE recent == RecentRows(codes, Truth, now, method.rotation)
            Stop(what) == Reply(r, g, what) /\ UNCHANGED <<proc, list, heap, refunds, codes, pays, issued>>
            Start(code, T) == StartPlugin(r, [g EXCEPT !.code = code], T)
<1>1. swapped' = swapped
    BY DEF NewChallenge
<1>2. \/ \E code \in Codes \ {c.code : c \in codes} :
            Start(code, codes \cup {NewRow(Truth, code, now, method.validity, method.retries)})
      \/ \E n \in NewestOf(recent) : Start(n.code, codes)
      \/ Stop("early") \/ Stop("limited")
    <2>1. \A code : NewRow(Truth, code, now, method.validity, method.retries).code = code
        BY DEF NewRow
    <2>. QED
        BY <2>1 DEF NewChallenge
<1>3. ASSUME NEW what \in {"early", "limited"}, Stop(what) PROVE Tables /\ Outcome(r)
    <2>1. what \in Replies \ {"none", "sent"} /\ what # "share"
        BY DEF Replies
    <2>. QED
        BY <1>1, <1>3, <2>1, SameTable, StopMoves
<1>4. method.kind = "iban" => recent = {}
    <2>1. ASSUME method.kind = "iban", NEW c \in codes, c.created > now - method.rotation PROVE FALSE
        <3>1. method.rotation = 0 /\ c.created \in Nat /\ c.created <= now /\ now \in Nat
            BY <2>1, MethodTypes DEF Inv, Table, Row
        <3>. QED
            BY <2>1, <3>1
    <2>. QED
        BY <2>1 DEF RecentRows
<1>5. ASSUME NEW code \in Codes
      PROVE  /\ Serving(r, [g EXCEPT !.code = code]) /\ Entitled([g EXCEPT !.code = code])
             /\ [g EXCEPT !.code = code].code = code
             /\ [g EXCEPT !.code = code].event = g.event
             /\ [g EXCEPT !.code = code].hn = g.hn
    BY ZenonT(60) DEF Serving, Enters, Handled, Opened, Entitled
<1>6. ASSUME NEW code \in Codes \ {c.code : c \in codes},
             Start(code, codes \cup {NewRow(Truth, code, now, method.validity, method.retries)})
      PROVE  Tables /\ Outcome(r)
    <2>. DEFINE h == [g EXCEPT !.code = code]
                T == codes \cup {NewRow(Truth, code, now, method.validity, method.retries)}
    <2>1. TableFits(r, T)
        BY MethodTypes, AddedFits
    <2>2. /\ HeldIn(T, code) /\ Follows(codes, T)
          /\ \A x : /\ ToldIn(T, x) => ToldIn(codes, x)
                    /\ SatisfiedIn(T, x) => SatisfiedIn(codes, x)
        BY MethodTypes, AddedTable DEF Inv
    <2>3. StartPlugin(r, h, T)
        BY <1>6
    <2>4. Serving(r, h) /\ Entitled(h) /\ h.code = code /\ h.event = g.event /\ h.hn = g.hn
        BY <1>5
    <2>. HIDE DEF h, T
    <2>5. ~HeldIn(codes, code)
        BY DEF HeldIn
    <2>6. ASSUME method.kind = "iban" PROVE IbanEnters(r, h, T)
        <3>1. ~ToldIn(T, code)
            BY <2>2, <2>5 DEF ToldIn, HeldIn
        <3>2. ExpiredIn(T) \/ (~g.hn /\ ~g.event)
            <4>1. ~SatisfiedIn(codes, g.response)
                <5>1. g.response \notin Codes
                    BY CodesAssumption DEF NoResponse
                <5>. QED
                    BY <5>1 DEF SatisfiedIn, Inv, Table, Row
            <4>. QED
                BY <2>2, <2>6, <4>1, FollowsKeeps DEF Serving
        <3>3. \A q \in Slots : Listens(gc[q]) => gc[q].code # code
            BY <2>5, <2>6 DEF Inv, IbanInv, IbanSlot, ListensFor, Listens, HeldIn
        <3>. QED
            BY <2>2, <2>4, <3>1, <3>2, <3>3 DEF IbanEnters
    <2>. QED
        BY <1>1, <2>1, <2>2, <2>3, <2>4, <2>6, StartMoves
<1>7. ASSUME NEW n \in NewestOf(recent), Start(n.code, codes)
      PROVE  Tables /\ Outcome(r)
    <2>. DEFINE h == [g EXCEPT !.code = n.code]
    <2>1. n \in codes /\ n.code \in Codes /\ method.kind # "iban"
        BY <1>4 DEF NewestOf, RecentRows, Inv, Table, Row
    <2>2. HeldIn(codes, n.code) /\ TableFits(r, codes)
        BY <2>1, SameTable DEF HeldIn
    <2>3. Serving(r, h) /\ Entitled(h) /\ h.code = n.code
        BY <1>5, <2>1
    <2>4. StartPlugin(r, h, codes)
        BY <1>7
    <2>. HIDE DEF h
    <2>. QED
        BY <1>1, <2>1, <2>2, <2>3, <2>4, StartMoves
<1>. HIDE DEF Start, Stop
<1>. QED
    BY <1>2, <1>3, <1>6, <1>7

(* A code of a request that was told it, compared with the stored ones.     *)
LEMMA CodeMoves ==
    ASSUME Inv, NEW r \in Slots, NEW g, Serving(r, g), Entitled(g),
           method.kind \in {"helper", "iban"}, CodeAnswer(r, g), UNCHANGED world
    PROVE  Tables /\ Outcome(r)
<1>. DEFINE after == AfterVerify(codes, Truth, g.response, now)
            matching == MatchingRows(codes, Truth, g.response, now)
            Stop(what) == /\ Reply(r, g, what)
                          /\ codes' = after
                          /\ UNCHANGED <<proc, list, heap, refunds, pays, issued>>
<1>1. TableFits(r, after)
    BY SameTable, VerifiedFits
<1>2. /\ Follows(codes, after) /\ Adds(codes, after, {}, {})
    BY VerifyTable DEF Inv
<1>3. CASE UsableRows(codes, Truth, now) = {}
    <2>. DEFINE h == [g EXCEPT !.response = NoResponse]
    <2>1. NewChallenge(r, h)
        BY <1>3 DEF CodeAnswer
    <2>2. method.kind = "iban" => ExpiredIn(codes) \/ (~g.hn /\ ~g.event)
        <3>1. ASSUME method.kind = "iban", SatisfiedIn(codes, g.response) PROVE ExpiredIn(codes)
            <4>1. PICK c \in codes : c.code = g.response /\ c.satisfied
                BY <3>1 DEF SatisfiedIn
            <4>2. c.truth = Truth /\ c.retries < 0 /\ c.retries \in Int /\ c.expires \in Int
                BY <3>1 DEF Inv, Table, Row
            <4>3. ~(c.expires > now)
                BY <1>3, <4>2 DEF UsableRows
            <4>. QED
                BY <3>1, <4>2, <4>3, MethodTypes DEF ExpiredIn
        <3>. QED
            BY <3>1 DEF Serving
    <2>3. Serving(r, h) /\ Entitled(h) /\ h.response = NoResponse
        <3>1. /\ h \in Opened(Plugin \cup {"new"}) /\ h.response = NoResponse
              /\ h.hn = g.hn /\ h.event = g.event /\ h.pid = g.pid /\ h.as = g.as
              /\ h.inList = g.inList /\ h.merchant = g.merchant /\ h.reply = g.reply
              /\ h.suspended = g.suspended /\ h.provided = g.provided
            BY DEF Serving, Enters, Handled, Opened, Responses
        <3>2. NoResponse \notin Codes
            BY CodesAssumption DEF NoResponse
        <3>. HIDE DEF h
        <3>. QED
            BY <2>2, <3>1, <3>2 DEF Serving, Enters, Handled, Entitled
    <2>. HIDE DEF h
    <2>. QED
        BY <2>1, <2>3, NewChallengeMoves
<1>4. ASSUME swapped' = swapped, NEW what \in {"error", "wrong", "share"}, Stop(what),
             what = "share" => ShareProven(g, issued)
      PROVE  Tables /\ Outcome(r)
    <2>1. what \in Replies \ {"none", "sent"}
        BY DEF Replies
    <2>2. codes' = after /\ Reply(r, g, what)
          /\ UNCHANGED <<proc, list, heap, refunds, pays, issued, swapped>>
        BY <1>4
    <2>. HIDE DEF after
    <2>. QED
        BY <1>1, <1>4, <2>1, <2>2, StopMoves
<1>5. ASSUME swapped' = swapped, NEW c \in matching, c.satisfied, Stop("share")
      PROVE  Tables /\ Outcome(r)
    <2>1. c \in codes /\ c.code = g.response
        BY DEF MatchingRows, UsableRows
    <2>2. ShareProven(g, issued)
        BY <1>5, <2>1 DEF Inv, CodesProven, CodeProven, ShareProven
    <2>. QED
        BY <1>4, <1>5, <2>2
<1>6. ASSUME swapped' = swapped, NEW c \in matching,
             StartPlugin(r, [g EXCEPT !.code = c.code], after)
      PROVE  Tables /\ Outcome(r)
    <2>. DEFINE h == [g EXCEPT !.code = c.code]
    <2>1. c \in codes /\ c.code = g.response /\ c.code \in Codes
        BY DEF MatchingRows, UsableRows, Inv, Table, Row
    <2>2. HeldIn(after, c.code)
        BY <1>2, <2>1, FollowsKeeps DEF HeldIn
    <2>3. /\ Serving(r, h) /\ Entitled(h) /\ h.code = c.code
          /\ h.response = g.response /\ h.hn = g.hn /\ h.event = g.event
        BY <2>1, ZenonT(60) DEF Serving, Enters, Handled, Opened, Entitled
    <2>4. StartPlugin(r, h, after)
        BY <1>6
    <2>. HIDE DEF h
    <2>5. ASSUME method.kind = "iban" PROVE IbanEnters(r, h, after)
        <3>1. ToldIn(codes, c.code)
            BY <2>1, <2>3, <2>5 DEF Serving, Enters
        <3>2. ExpiredIn(after) \/ SatisfiedIn(after, c.code) \/ (~h.hn /\ ~h.event)
            BY <1>2, <2>1, <2>3, <2>5, FollowsKeeps DEF Serving
        <3>. HIDE DEF after
        <3>. QED
            BY <2>1, <2>2, <2>3, <3>1, <3>2 DEF IbanEnters
    <2>. HIDE DEF after
    <2>. QED
        BY <1>1, <1>6, <2>2, <2>3, <2>4, <2>5, StartMoves
<1>7. CASE UsableRows(codes, Truth, now) # {}
    <2>1. /\ swapped' = swapped
          /\ \/ Stop("error") \/ Stop("wrong")
             \/ \E c \in matching : c.satisfied /\ Stop("share")
             \/ \E c \in matching : StartPlugin(r, [g EXCEPT !.code = c.code], after)
        BY <1>7 DEF CodeAnswer
    <2>. HIDE DEF Stop, matching, after
    <2>. QED
        BY <1>4, <1>5, <1>6, <2>1
<1>. QED
    BY <1>3, <1>7

(* Everything from the loading of the truth on.                             *)
LEMMA ServeMoves ==
    ASSUME Inv, NEW r \in Slots, NEW g, Serving(r, g), Serve(r, g), UNCHANGED world
    PROVE  Tables /\ Outcome(r)
<1>1. CASE /\ Reply(r, g, "error")
           /\ UNCHANGED <<proc, list, heap, refunds, codes, pays, issued, swapped>>
    <2>1. "error" \in Replies \ {"none", "sent"} /\ "error" # "share"
        BY DEF Replies
    <2>. QED
        BY <1>1, <2>1, SameTable, StopMoves
<1>2. CASE MustPay(g) /\ BeginPayment(r, g)
    BY <1>2, PaymentMoves DEF MustPay
<1>3. ~MustPay(g) => Entitled(g)
    <2>1. g.pid \in Pids \cup {NoPid} /\ (g.provided => g.pid # NoPid)
        BY DEF Serving, Enters, Handled, Opened
    <2>. QED
        BY <2>1, PaymentsFit DEF MustPay, Entitled
<1>4. CASE ~MustPay(g) /\ method.kind # "question" /\ g.response = NoResponse /\ NewChallenge(r, g)
    BY <1>3, <1>4, NewChallengeMoves
<1>5. CASE ~MustPay(g) /\ method.kind \in {"question", "totp"} /\ LimitedAnswer(r, g)
    BY <1>3, <1>5, LimitedMoves
<1>6. CASE ~MustPay(g) /\ method.kind \notin {"question", "totp"} /\ CodeAnswer(r, g)
    <2>1. method.kind \in {"helper", "iban"}
        BY <1>6, MethodTypes DEF Kinds
    <2>. QED
        BY <1>3, <1>6, <2>1, CodeMoves
<1>. QED
    BY <1>1, <1>2, <1>4, <1>5, <1>6 DEF Serve

-----------------------------------------------------------------------------
(* One action after the other.                                              *)

(* However a call of the handler ends, the invariant holds.                 *)
LEMMA OutcomeKeepsInv ==
    ASSUME Inv, Tables, proc = "up", NEW r \in Slots, Outcome(r)
    PROVE  Inv'
<1>1. CASE Died
    BY <1>1, DeathKeepsInv DEF Died, Abort
<1>2. CASE \E h, c : Moved(r, h, c) /\ MovedIban(r, h, c)
    BY <1>2, MovedKeepsInv
<1>. QED
    BY <1>1, <1>2 DEF Outcome

(* What the invariant says of a live request.                               *)
LEMMA LiveSlot ==
    ASSUME Inv, NEW r \in Slots, gc[r].live
    PROVE  /\ gc[r] \in Context /\ SlotInv(gc[r], conn[r]) /\ proc = "up"
           /\ ListFits(r, list, gc[r].inList) /\ Nil \notin Slots
           /\ gc[r].inList /\ ~swapped => Removable(list, r)
           /\ ListFits(r, Removed(list, r), FALSE) \/ ~gc[r].inList
           /\ ~Underpaid /\ ~ExpiredIn(codes) => heap[r] = IF gc[r].hn THEN 1 ELSE 0
           /\ method.kind = "iban" => IbanSlot(gc[r], conn[r], codes)
<1>1. gc[r] \in Context /\ SlotInv(gc[r], conn[r]) /\ proc = "up" /\ Nil \notin Slots
    BY NamesAssumption DEF Inv, MemoryTypes, NoContext, Lost
<1>2. ~Underpaid /\ ~ExpiredIn(codes) => heap[r] = IF gc[r].hn THEN 1 ELSE 0
    BY DEF Inv, HeapExact, HeapOwned, Expired, ExpiredIn
<1>3. /\ list \in Lists(Slots) /\ (~swapped => IsListOf(list, Members))
      /\ r \in Members <=> gc[r].inList
    BY DEF Inv, MemoryTypes, ListExact, Members
<1>4. ListFits(r, list, gc[r].inList)
    <2>1. gc[r].inList => Members \cup {r} = Members
        BY <1>3
    <2>2. ~gc[r].inList => Members \ {r} = Members
        BY <1>3
    <2>. QED
        BY <1>3, <2>1, <2>2 DEF ListFits
<1>5. ASSUME gc[r].inList
      PROVE  ListFits(r, Removed(list, r), FALSE) /\ (~swapped => Removable(list, r))
    <2>1. /\ Removed(list, r) \in Lists(Slots)
          /\ \A M : IsListOf(list, M) /\ r \in M
                      => Removable(list, r) /\ IsListOf(Removed(list, r), M \ {r})
        BY <1>1, <1>3, RemovedIsList
    <2>. QED
        BY <1>3, <1>5, <2>1 DEF ListFits
<1>. QED
    BY <1>1, <1>2, <1>4, <1>5 DEF Inv, IbanInv

(* A new request.                                                           *)
LEMMA RequestKeepsInv ==
    ASSUME Inv, NEW r \in Slots, NEW i \in Inputs[method], Request(r, i)
    PROVE  Inv'
<1>. DEFINE g == Fresh(i)
<1>1. i \in InputType
    BY InputsAssumption DEF Inv, TableTypes
<1>2. ~gc[r].live
    BY DEF Request, Inv, SlotInv
<1>3. /\ g \in Opened(Plugin \cup {"new"}) /\ g.as = "none" /\ ~g.inList /\ ~g.hn /\ ~g.event
      /\ g.merchant = "none" /\ g.reply = "none" /\ ~g.suspended
      /\ g.provided => g.pid # NoPid
      /\ g.response = i.response
    <2>1. /\ i.pid \in Pids \cup {NoPid} /\ i.response \in Responses /\ now + i.wait \in Int
          /\ (i.pid # NoPid) \in BOOLEAN
        BY <1>1, MethodTypes DEF InputType, Responses
    <2>. QED
        BY <2>1 DEF Fresh, Opened, Plugin, Replies
<1>4. ~Underpaid /\ ~ExpiredIn(codes) => heap[r] = 0
    BY <1>2 DEF Inv, HeapExact, HeapOwned, Expired, ExpiredIn
<1>5. method.kind = "iban" /\ g.response \in Codes => ToldIn(codes, g.response)
    BY <1>3 DEF Request, Told, ToldIn
<1>6. r \notin Members
    BY <1>2 DEF Members
<1>. HIDE DEF g
<1>7. Serving(r, g)
    BY <1>3, <1>4, <1>5, <1>6 DEF Serving, Enters, Handled
<1>8. Serve(r, g) /\ UNCHANGED world /\ proc = "up"
    BY DEF Request, g
<1>. QED
    BY <1>7, <1>8, ServeMoves, OutcomeKeepsInv

(* The handler is called again.                                             *)
LEMMA ResumeKeepsInv ==
    ASSUME Inv, NEW r \in Slots, Resume(r)
    PROVE  Inv'
<1>. DEFINE g == Reentered(r)
<1>1. conn[r] = "ready" /\ gc[r].live /\ UNCHANGED world
    BY DEF Resume, Inv, SlotInv
<1>2. /\ gc[r] \in Context /\ SlotInv(gc[r], conn[r]) /\ proc = "up"
      /\ ListFits(r, list, gc[r].inList)
      /\ ~Underpaid /\ ~ExpiredIn(codes) => heap[r] = IF gc[r].hn THEN 1 ELSE 0
      /\ method.kind = "iban" => IbanSlot(gc[r], conn[r], codes)
      /\ ServedPaid(gc[r])
    BY <1>1, LiveSlot DEF Inv
<1>3. /\ gc[r].reply = "none" /\ gc[r].merchant = "none"
      /\ gc[r].provided => gc[r].pid # NoPid
      /\ IF gc[r].as # "none" THEN Plugged(gc[r], conn[r]) ELSE Unplugged(gc[r], conn[r])
    <2>1. gc[r].reply = "none"
        BY <1>1, <1>2 DEF SlotInv
    <2>2. gc[r].merchant = "none"
        BY <1>1, <1>2 DEF SlotInv, Waits
    <2>. QED
        BY <1>1, <1>2, <2>1, <2>2 DEF SlotInv
<1>4. /\ g \in Context /\ ~g.suspended /\ g.live
      /\ g.as = gc[r].as /\ g.merchant = "none" /\ g.reply = "none" /\ g.hn = gc[r].hn
      /\ g.inList = gc[r].inList /\ g.event = gc[r].event /\ g.response = gc[r].response
      /\ g.code = gc[r].code /\ g.pid = gc[r].pid /\ g.provided = gc[r].provided
      /\ g.timeout = gc[r].timeout /\ g.resp = gc[r].resp
    BY <1>2, <1>3 DEF Reentered, Context, Opened
<1>5. /\ \/ g.resp # "none" /\ Reply(r, [g EXCEPT !.resp = "none"], g.resp)
            /\ UNCHANGED <<proc, list, heap, refunds, codes, pays, issued, swapped>>
         \/ /\ g.resp = "none" /\ g.as # "none" /\ Process(r, g, list, codes)
            /\ UNCHANGED <<issued, swapped>>
         \/ g.resp = "none" /\ g.as = "none" /\ Serve(r, g)
    BY DEF Resume
<1>. HIDE DEF g
<1>6. g \in Opened(Plugin \cup {"new"})
    BY <1>4 DEF Context, Opened
<1>7. Enters(r, g)
    BY <1>1, <1>2, <1>3, <1>4, <1>6 DEF Enters, Handled, IbanSlot
<1>8. TableFits(r, codes) /\ PaysFit(pays)
    BY SameTable, PaymentsFit
<1>9. CASE /\ g.resp # "none" /\ Reply(r, [g EXCEPT !.resp = "none"], g.resp)
           /\ UNCHANGED <<proc, list, heap, refunds, codes, pays, issued, swapped>>
    <2>. DEFINE h == [g EXCEPT !.resp = "none"]
    <2>1. /\ h \in Opened(Plugin \cup {"new"}) /\ ~h.suspended
          /\ h.merchant = "none" /\ h.reply = "none" /\ h.hn = g.hn
          /\ h.inList = g.inList /\ h.response = g.response
          /\ h.pid = g.pid /\ h.provided = g.provided
        BY <1>4, <1>6 DEF Opened
    <2>2. g.resp \in Replies \ {"none"} /\ g.resp \notin {"sent", "share"}
        BY <1>4, <1>9 DEF Context, Opened, Replies
    <2>3. Reply(r, h, g.resp)
        BY <1>9
    <2>. HIDE DEF h
    <2>4. Enters(r, h)
        BY <1>7, <2>1 DEF Enters, Handled
    <2>5. Tables
        BY <1>1, <1>8, <1>9 DEF Tables, TableFits, PaysFit, Inv, IbanInv
    <2>6. refunds' \in [Pids -> Nat] /\ ListFits(r, list', h.inList) /\ Discreet(r, codes')
        BY <1>2, <1>4, <1>8, <1>9, <2>1 DEF Inv, MemoryTypes, TableFits
    <2>. QED
        BY <1>2, <1>9, <2>2, <2>3, <2>4, <2>5, <2>6, ReplyMoves, OutcomeKeepsInv
<1>10. CASE g.as # "none" /\ Process(r, g, list, codes) /\ UNCHANGED <<issued, swapped>>
    <2>1. /\ g.inList /\ Entitled(g)
          /\ method.kind = IF g.as = "listening" THEN "iban" ELSE "helper"
          /\ g.as = "child" => ~g.hn
        BY <1>1, <1>2, <1>3, <1>4, <1>10 DEF Plugged, ServedPaid, Entitled
    <2>2. ListFits(r, list, TRUE) /\ CodesProven(codes, issued') /\ issued \subseteq issued'
        BY <1>2, <1>4, <1>8, <1>10, <2>1 DEF TableFits
    <2>3. CASE method.kind = "iban"
        <3>1. IbanEnters(r, g, codes)
            <4>1. ListensFor(g, codes)
                BY <1>1, <1>2, <1>4, <2>1, <2>3 DEF IbanSlot, ListensFor
            <4>2. ~ExpiredIn(codes) /\ g.hn => g.timeout <= now \/ Quoted(g.code)
                BY <1>1, <1>2, <1>4, <2>1, <2>3 DEF IbanSlot
            <4>3. \A q \in Slots \ {r} :
                      Listens(gc[q]) /\ gc[q].code = g.code => ToldIn(codes, g.code)
                BY <1>1, <1>4, <2>1, <2>3 DEF Inv, IbanInv, Apart, Listens
            <4>. QED
                BY <4>1, <4>2, <4>3 DEF IbanEnters, ListensFor
        <3>2. IbanProcess(r, g, list, codes)
            BY <1>10, <2>3 DEF Process
        <3>. QED
            BY <1>1, <1>2, <1>7, <1>8, <1>10, <2>1, <2>2, <2>3, <3>1, <3>2, IbanMoves,
               OutcomeKeepsInv DEF TableFits
    <2>4. CASE method.kind = "helper"
        <3>1. ~g.hn \/ g.as \in {"ok", "bad"}
            BY <1>4, <1>10, <2>1, <2>4 DEF Context, Opened, Plugin
        <3>2. HelperProcess(r, g, list, codes)
            BY <1>10, <2>4 DEF Process
        <3>. QED
            BY <1>1, <1>2, <1>7, <1>8, <1>10, <2>1, <2>2, <2>4, <3>1, <3>2, HelperMoves,
               OutcomeKeepsInv DEF TableFits
    <2>. QED
        BY <2>1, <2>3, <2>4
<1>11. CASE g.as = "none" /\ Serve(r, g)
    <2>1. Serving(r, g)
        <3>1. ~g.inList /\ (method.kind # "iban" => ~g.hn) /\ r \notin Members
            BY <1>1, <1>3, <1>4, <1>11 DEF Unplugged, Members
        <3>2. method.kind = "iban" => SatisfiedIn(codes, g.response)
            BY <1>1, <1>2, <1>4, <1>11 DEF IbanSlot
        <3>. QED
            BY <1>7, <1>11, <3>1, <3>2 DEF Serving
    <2>. QED
        BY <1>1, <1>2, <1>11, <2>1, ServeMoves, OutcomeKeepsInv
<1>. QED
    BY <1>5, <1>9, <1>10, <1>11

(* Nothing but the process, its memory and the payments has changed.        *)
LEMMA QuietTables ==
    ASSUME Inv, PaysFit(pays'), UNCHANGED <<codes, issued, swapped>>, UNCHANGED world
    PROVE  Tables /\ Follows(codes, codes')
BY DEF Inv, IbanInv, Tables, PaysFit, Follows

(* request_done takes the context off list and heap.                        *)
LEMMA RequestDoneKeepsInv ==
    ASSUME Inv, NEW r \in Slots, RequestDone(r)
    PROVE  Inv'
<1>1. /\ conn[r] = "replied" /\ gc[r].live
      /\ UNCHANGED <<codes, pays, issued, swapped>> /\ UNCHANGED world
    BY DEF RequestDone, Inv, SlotInv
<1>2. /\ gc[r] \in Context /\ SlotInv(gc[r], conn[r]) /\ proc = "up"
      /\ ListFits(r, list, gc[r].inList)
      /\ gc[r].inList /\ ~swapped => Removable(list, r)
      /\ ListFits(r, Removed(list, r), FALSE) \/ ~gc[r].inList
      /\ ~Underpaid /\ ~ExpiredIn(codes) => heap[r] = IF gc[r].hn THEN 1 ELSE 0
    BY <1>1, LiveSlot
<1>3. ~gc[r].suspended
    BY <1>1, <1>2 DEF SlotInv
<1>4. Tables
    BY <1>1, PaymentsFit, QuietTables
<1>5. CASE gc[r].inList /\ ~Removable(list, r)
    <2>1. Abort /\ swapped'
        BY <1>1, <1>2, <1>5 DEF RequestDone
    <2>. QED
        BY <1>2, <1>4, <2>1, OutcomeKeepsInv DEF Outcome, Died
<1>6. CASE ~(gc[r].inList /\ ~Removable(list, r))
    <2>1. /\ gc' = [gc EXCEPT ![r] = NoContext] /\ conn' = [conn EXCEPT ![r] = "idle"]
          /\ list' = IF gc[r].inList THEN Removed(list, r) ELSE list
          /\ heap' = HeapFreed(r) /\ UNCHANGED <<proc, refunds>>
        BY <1>3, <1>6 DEF RequestDone
    <2>2. NoContext.live = FALSE
        BY DEF NoContext
    <2>3. /\ heap' \in [Slots -> Int] /\ \A q \in Slots \ {r} : heap'[q] = heap[q]
          /\ ~Underpaid /\ ~ExpiredIn(codes') => heap'[r] = 0
        <3>1. heap \in [Slots -> Int]
            BY DEF Inv, MemoryTypes
        <3>2. heap' = [heap EXCEPT ![r] = IF gc[r].hn THEN heap[r] - 1 ELSE heap[r]]
            BY <2>1, <3>1 DEF HeapFreed
        <3>3. /\ heap' \in [Slots -> Int] /\ \A q \in Slots \ {r} : heap'[q] = heap[q]
              /\ heap'[r] = IF gc[r].hn THEN heap[r] - 1 ELSE heap[r]
            BY <3>1, <3>2
        <3>4. ExpiredIn(codes') <=> ExpiredIn(codes)
            BY <1>1
        <3>. QED
            BY <1>2, <3>3, <3>4
    <2>4. ListFits(r, list', FALSE)
        <3>1. CASE gc[r].inList
            BY <1>2, <2>1, <3>1
        <3>2. CASE ~gc[r].inList
            <4>1. gc[r].inList = FALSE
                BY <1>2, <3>2 DEF Context, Opened
            <4>. QED
                BY <1>2, <2>1, <4>1
        <3>. QED
            BY <3>1, <3>2
    <2>5. SlotInv(NoContext, "idle") /\ ServedPaid(NoContext) /\ SharesProven(NoContext, issued')
          /\ ~Orders(NoContext) /\ ~Listens(NoContext)
        BY <2>2 DEF SlotInv, ServedPaid, SharesProven, Orders, Listens
    <2>6. Moved(r, NoContext, "idle")
        BY <1>1, <2>1, <2>2, <2>3, <2>4, <2>5 DEF Moved, ListFits, Inv, MemoryTypes
    <2>7. MovedIban(r, NoContext, "idle")
        BY <1>1, <2>2, <2>5 DEF MovedIban, IbanSlot, Apart
    <2>. QED
        BY <1>2, <1>4, <2>6, <2>7, OutcomeKeepsInv DEF Outcome
<1>. QED
    BY <1>5, <1>6

(* A request that waits for the merchant, and as it is resumed.             *)
LEMMA WaitingSlot ==
    ASSUME Inv, NEW r \in Slots, gc[r].live, gc[r].merchant # "none"
    PROVE  /\ gc[r] \in Context /\ Waits(gc[r], conn[r]) /\ proc = "up" /\ gc[r].pid \in Pids
           /\ ~swapped => MayResume(r)
           /\ ListFits(r, Removed(list, r), FALSE)
           /\ ~Underpaid /\ ~ExpiredIn(codes) => heap[r] = 0
           /\ \A g \in Context :
                 g.as = gc[r].as /\ g.reply = gc[r].reply /\ g.hn = gc[r].hn /\ g.pid = gc[r].pid
                    => LET h == Unwaiting(g)
                       IN  /\ h \in Context /\ SlotInv(h, "ready") /\ ServedPaid(h)
                           /\ \A is : SharesProven(h, is)
                           /\ ~Orders(h) /\ ~h.inList /\ ~h.hn /\ h.live
                           /\ h.as = "none" /\ h.reply = "none"
<1>1. /\ gc[r] \in Context /\ SlotInv(gc[r], conn[r]) /\ proc = "up"
      /\ gc[r].inList /\ ~swapped => Removable(list, r)
      /\ ListFits(r, Removed(list, r), FALSE) \/ ~gc[r].inList
      /\ ~Underpaid /\ ~ExpiredIn(codes) => heap[r] = IF gc[r].hn THEN 1 ELSE 0
    BY LiveSlot
<1>2. Waits(gc[r], conn[r]) /\ gc[r].as = "none" /\ gc[r].reply = "none"
    BY <1>1 DEF SlotInv, Waits, Plugged
<1>3. ASSUME NEW g \in Context, g.as = gc[r].as, g.reply = gc[r].reply, g.hn = gc[r].hn,
             g.pid = gc[r].pid
      PROVE  LET h == Unwaiting(g)
             IN  /\ h \in Context /\ SlotInv(h, "ready") /\ ServedPaid(h)
                 /\ \A is : SharesProven(h, is)
                 /\ ~Orders(h) /\ ~h.inList /\ ~h.hn /\ h.live
                 /\ h.as = "none" /\ h.reply = "none"
    <2>. DEFINE h == Unwaiting(g)
    <2>1. /\ h \in Context /\ h.as = "none" /\ h.merchant = "none" /\ h.reply = "none" /\ h.live
          /\ h.inList = FALSE /\ h.suspended = FALSE /\ h.hn = FALSE /\ h.pid = gc[r].pid
        BY <1>2, <1>3 DEF Waits, Unwaiting, Context, Opened
    <2>. HIDE DEF h
    <2>2. h.pid # NoPid
        BY <1>2, <2>1, NamesAssumption DEF Waits
    <2>3. SlotInv(h, "ready")
        BY <2>1, <2>2 DEF SlotInv, Unplugged
    <2>4. ServedPaid(h) /\ ~Orders(h) /\ \A is : SharesProven(h, is)
        BY <2>1 DEF ServedPaid, Orders, SharesProven
    <2>. QED
        BY <2>1, <2>3, <2>4 DEF h
<1>. QED
    BY <1>1, <1>2, <1>3 DEF Waits, MayResume

(* The merchant has answered whether the order is paid.                     *)
LEMMA CheckPaymentCbKeepsInv ==
    ASSUME Inv, NEW r \in Slots, CheckPaymentCb(r)
    PROVE  Inv'
<1>1. /\ gc[r].live /\ gc[r].merchant # "none"
      /\ UNCHANGED <<codes, issued, swapped>> /\ UNCHANGED world
    BY DEF CheckPaymentCb
<1>2. /\ gc[r] \in Context /\ Waits(gc[r], conn[r]) /\ proc = "up" /\ gc[r].pid \in Pids
      /\ ~swapped => MayResume(r)
      /\ ListFits(r, Removed(list, r), FALSE)
      /\ ~Underpaid /\ ~ExpiredIn(codes) => heap[r] = 0
    BY <1>1, WaitingSlot
<1>3. method.kind # "iban"
    BY <1>2 DEF Waits
<1>4. CASE ~MayResume(r)
    <2>1. Abort /\ swapped' /\ pays' = pays
        BY <1>1, <1>2, <1>4 DEF CheckPaymentCb
    <2>2. Tables
        BY <1>1, <2>1, PaymentsFit, QuietTables
    <2>. QED
        BY <1>2, <2>1, <2>2, OutcomeKeepsInv DEF Outcome, Died
<1>5. ASSUME NEW g \in Context, g.as = gc[r].as, g.reply = gc[r].reply, g.hn = gc[r].hn,
             g.pid = gc[r].pid, Resumed(r, g), PaysFit(pays')
      PROVE  Inv'
    <2>. DEFINE h == Unwaiting(g)
    <2>1. /\ h \in Context /\ SlotInv(h, "ready") /\ ServedPaid(h) /\ SharesProven(h, issued')
          /\ ~Orders(h) /\ ~h.inList /\ ~h.hn /\ h.live
        BY <1>1, <1>5, WaitingSlot
    <2>2. /\ gc' = [gc EXCEPT ![r] = h] /\ conn' = [conn EXCEPT ![r] = "ready"]
          /\ list' = Removed(list, r) /\ UNCHANGED <<proc, heap, refunds>>
        BY <1>5 DEF Resumed
    <2>. HIDE DEF h
    <2>3. Tables
        BY <1>1, <1>5, QuietTables
    <2>4. Moved(r, h, "ready")
        BY <1>1, <1>2, <2>1, <2>2 DEF Moved, ListFits, Inv, MemoryTypes
    <2>. QED
        BY <1>2, <1>3, <2>3, <2>4, OutcomeKeepsInv DEF Outcome, MovedIban
<1>6. PaysFit(pays) /\ (Settled(orders, gc[r].pid) => PaysFit(AfterPaid(pays, gc[r].pid)))
    BY <1>2, PaymentsFit
<1>7. CASE /\ orders[gc[r].pid] \in {"paid", "refunded"}
           /\ Resumed(r, [gc[r] EXCEPT !.found = TRUE])
           /\ pays' = AfterPaid(pays, gc[r].pid)
    <2>. DEFINE g == [gc[r] EXCEPT !.found = TRUE]
    <2>1. /\ g \in Context /\ g.as = gc[r].as /\ g.reply = gc[r].reply /\ g.hn = gc[r].hn
          /\ g.pid = gc[r].pid
        BY <1>2 DEF Context, Opened
    <2>2. Resumed(r, g) /\ PaysFit(pays')
        BY <1>6, <1>7 DEF Settled
    <2>. HIDE DEF g
    <2>. QED
        BY <1>5, <2>1, <2>2
<1>8. ASSUME NEW resp \in {"pay", "error"}, Resumed(r, [gc[r] EXCEPT !.resp = resp]), pays' = pays
      PROVE  Inv'
    <2>. DEFINE g == [gc[r] EXCEPT !.resp = resp]
    <2>1. /\ g \in Context /\ g.as = gc[r].as /\ g.reply = gc[r].reply /\ g.hn = gc[r].hn
          /\ g.pid = gc[r].pid
        BY <1>2 DEF Context, Opened
    <2>2. Resumed(r, g) /\ PaysFit(pays')
        BY <1>6, <1>8
    <2>. HIDE DEF g
    <2>. QED
        BY <1>5, <2>1, <2>2
<1>. QED
    BY <1>4, <1>7, <1>8 DEF CheckPaymentCb

(* Only orders and payments change, and no order that is paid ceases to be. *)
LEMMA OrdersKeepInv ==
    ASSUME Inv, UNCHANGED <<now, proc, method, gc, conn, list, heap, codes, wires, issued, swapped>>,
           refunds' \in [Pids -> Nat],
           orders' \in [Pids -> {"none", "unpaid", "paid", "refunded"}],
           \A p \in Pids : /\ Settled(orders, p) => Settled(orders', p)
                           /\ orders[p] = "none" => orders'[p] = "none",
           pays' \in [Pids -> {Absent} \cup Payment],
           \A p \in Pids : /\ pays'[p].known <=> pays[p].known
                           /\ pays'[p].known /\ pays'[p].paid => Settled(orders', p)
    PROVE  Inv'
<1>1. TableTypes' /\ MemoryTypes' /\ RowsSettled'
    BY DEF Inv, TableTypes, MemoryTypes, RowsSettled, Settled
<1>2. \A r \in Slots : SlotInv(gc[r], conn[r])' /\ SharesProven(gc[r], issued)'
    BY DEF Inv, SlotInv, Waits, Plugged, Unplugged, SharesProven, ShareProven
<1>3. \A r \in Slots : ServedPaid(gc[r])'
    <2>1. ASSUME NEW r \in Slots PROVE ServedPaid(gc[r])'
        <3>1. NoContext.live = FALSE
            BY DEF NoContext
        <3>2. ServedPaid(gc[r]) /\ gc[r] \in {NoContext} \cup Context
            BY DEF Inv, MemoryTypes
        <3>3. gc[r].live => gc[r].pid \in Pids \cup {NoPid}
            BY <3>1, <3>2 DEF Context, Opened
        <3>. QED
            BY <3>2, <3>3 DEF ServedPaid, Entitled, Settled
    <2>. QED
        BY <2>1
<1>4. OrdersFresh'
    <2>1. ASSUME NEW r \in Slots, Orders(gc[r]) PROVE gc[r].pid \in Pids
        BY <2>1 DEF Inv, SlotInv, Waits, Orders
    <2>. QED
        BY <2>1 DEF Inv, OrdersFresh, Orders
<1>5. Table(codes)' /\ CodesProven(codes, issued)'
    BY DEF Inv, Table, CodesProven, CodeProven
<1>6. IbanInv'
    BY DEF Inv, IbanInv, WiresTold, IbanSlot, ListensFor, Apart, Listens, Quoted, ToldIn, HeldIn,
           SatisfiedIn, ExpiredIn
<1>7. HeapExact' /\ ListExact' /\ Lost' /\ AssertionsHold'
    BY DEF Inv, HeapExact, Underpaid, Expired, HeapOwned, ListExact, Members, Lost,
           AssertionsHold, DirectValidation
<1>. QED
    BY <1>1, <1>2, <1>3, <1>4, <1>5, <1>6, <1>7 DEF Inv

(* The merchant has answered to a refund.                                   *)
LEMMA RefundCbKeepsInv ==
    ASSUME Inv, NEW p \in Pids, RefundCb(p)
    PROVE  Inv'
<1>1. refunds' \in [Pids -> Nat]
    <2>1. refunds \in [Pids -> Nat] /\ refunds[p] - 1 \in Nat
        BY DEF RefundCb, Inv, MemoryTypes
    <2>. QED
        BY <2>1 DEF RefundCb
<1>2. orders \in [Pids -> {"none", "unpaid", "paid", "refunded"}]
    BY DEF Inv, TableTypes
<1>3. PaysFit(pays) /\ PaysFit(AfterRefund(pays, p))
    BY PaymentsFit
<1>4. PaysFit(pays')
    BY <1>3 DEF RefundCb
<1>5. \/ orders' = orders
      \/ orders[p] \in {"paid", "refunded"} /\ orders' = [orders EXCEPT ![p] = "refunded"]
    BY DEF RefundCb
<1>6. /\ orders' \in [Pids -> {"none", "unpaid", "paid", "refunded"}]
      /\ \A q \in Pids : /\ Settled(orders, q) => Settled(orders', q)
                         /\ orders[q] = "none" => orders'[q] = "none"
    BY <1>2, <1>5 DEF Settled
<1>. QED
    BY <1>1, <1>4, <1>6, OrdersKeepInv DEF RefundCb, PaysFit

(* The wallet pays.                                                         *)
LEMMA PayKeepsInv ==
    ASSUME Inv, NEW p \in Pids, Pay(p)
    PROVE  Inv'
<1>1. orders \in [Pids -> {"none", "unpaid", "paid", "refunded"}] /\ refunds \in [Pids -> Nat]
    BY DEF Inv, TableTypes, MemoryTypes
<1>2. PaysFit(pays)
    BY PaymentsFit
<1>3. /\ orders' \in [Pids -> {"none", "unpaid", "paid", "refunded"}]
      /\ \A q \in Pids : /\ Settled(orders, q) => Settled(orders', q)
                         /\ orders[q] = "none" => orders'[q] = "none"
    BY <1>1 DEF Settled, Pay
<1>. QED
    BY <1>1, <1>2, <1>3, OrdersKeepInv DEF Pay, PaysFit, mem

(* The merchant has created the order, or not.                              *)
LEMMA ProposalCbKeepsInv ==
    ASSUME Inv, NEW r \in Slots, ProposalCb(r)
    PROVE  Inv'
<1>. DEFINE p == gc[r].pid
<1>1. /\ gc[r].live /\ gc[r].merchant = "order"
      /\ UNCHANGED <<codes, now, method, wires, issued, swapped>>
    BY DEF ProposalCb
<1>2. /\ gc[r] \in Context /\ Waits(gc[r], conn[r]) /\ proc = "up" /\ p \in Pids
      /\ ~swapped => MayResume(r)
      /\ ListFits(r, Removed(list, r), FALSE)
      /\ ~Underpaid /\ ~ExpiredIn(codes) => heap[r] = 0
    BY <1>1, WaitingSlot
<1>3. method.kind # "iban" /\ orders[p] = "none" /\ ~pays[p].known
      /\ \A q \in Slots \ {r} : Orders(gc[q]) => gc[q].pid # p
    BY <1>1, <1>2 DEF Waits, Inv, OrdersFresh, Orders
<1>4. CASE ~MayResume(r)
    <2>1. Abort /\ swapped' /\ UNCHANGED world /\ pays' = pays
        BY <1>1, <1>2, <1>4 DEF ProposalCb, world
    <2>2. Tables
        BY <1>1, <2>1, PaymentsFit, QuietTables
    <2>. QED
        BY <1>2, <2>1, <2>2, OutcomeKeepsInv DEF Outcome, Died
<1>5. ASSUME NEW resp \in {"pay", "error"}, NEW order \in {"unpaid", "none"},
             Resumed(r, [gc[r] EXCEPT !.resp = resp]),
             orders' = [orders EXCEPT ![p] = order],
             pays' \in {pays, [pays EXCEPT ![p] = NewPayment(now, PayCounter)]}
      PROVE  Inv'
    <2>. DEFINE g == [gc[r] EXCEPT !.resp = resp]
                h == Unwaiting(g)
    <2>1. /\ g \in Context /\ g.as = gc[r].as /\ g.reply = gc[r].reply /\ g.hn = gc[r].hn
          /\ g.pid = gc[r].pid
        BY <1>2 DEF Context, Opened
    <2>2. /\ gc' = [gc EXCEPT ![r] = h] /\ conn' = [conn EXCEPT ![r] = "ready"]
          /\ list' = Removed(list, r) /\ UNCHANGED <<proc, heap, refunds>>
        BY <1>5 DEF Resumed
    <2>. HIDE DEF g
    <2>3. /\ h \in Context /\ SlotInv(h, "ready") /\ SharesProven(h, issued)
          /\ ~Orders(h) /\ ~h.inList /\ ~h.hn /\ h.live /\ h.as = "none" /\ h.reply = "none"
        BY <1>1, <2>1, WaitingSlot
    <2>. HIDE DEF h
    <2>4. orders \in [Pids -> {"none", "unpaid", "paid", "refunded"}]
          /\ pays \in [Pids -> {Absent} \cup Payment]
        BY DEF Inv, TableTypes
    <2>5. NewPayment(now, PayCounter) \in Payment /\ ~NewPayment(now, PayCounter).paid
        BY MethodTypes, NumbersAssumption DEF NewPayment, Payment
    <2>6. \A q \in Pids : (Settled(orders, q) => Settled(orders', q))
        BY <1>3, <1>5, <2>4 DEF Settled
    <2>7. \A q \in Pids : pays'[q].known /\ pays'[q].paid => Settled(orders', q)
        BY <1>2, <1>5, <2>4, <2>5, <2>6 DEF Inv, RowsSettled
    <2>8. pays' \in [Pids -> {Absent} \cup Payment]
          /\ orders' \in [Pids -> {"none", "unpaid", "paid", "refunded"}]
        BY <1>2, <1>5, <2>4, <2>5
    <2>9. /\ \A q \in Slots : gc'[q] = IF q = r THEN h ELSE gc[q]
          /\ \A q \in Slots : conn'[q] = IF q = r THEN "ready" ELSE conn[q]
        BY <2>2 DEF Inv, MemoryTypes
    <2>10. TableTypes' /\ RowsSettled'
        BY <1>1, <2>7, <2>8 DEF Inv, TableTypes, RowsSettled, Settled
    <2>11. MemoryTypes'
        BY <1>2, <2>2, <2>3 DEF Inv, MemoryTypes, ListFits
    <2>12. \A q \in Slots : SlotInv(gc[q], conn[q])'
        BY <1>1, <2>3, <2>9 DEF Inv, SlotInv, Waits, Plugged, Unplugged
    <2>13. \A q \in Slots : SharesProven(gc[q], issued)'
        BY <1>1, <2>3, <2>9 DEF Inv, SharesProven, ShareProven
    <2>14. ASSUME NEW q \in Slots PROVE ServedPaid(gc[q])'
        <3>1. CASE q = r
            BY <2>3, <2>9, <3>1 DEF ServedPaid
        <3>2. CASE q # r
            <4>1. NoContext.live = FALSE
                BY DEF NoContext
            <4>2. ServedPaid(gc[q]) /\ gc[q] \in {NoContext} \cup Context
                BY DEF Inv, MemoryTypes
            <4>3. gc[q].live => gc[q].pid \in Pids \cup {NoPid}
                BY <4>1, <4>2 DEF Context, Opened
            <4>. QED
                BY <1>1, <2>6, <2>9, <3>2, <4>2, <4>3 DEF ServedPaid, Entitled, Settled
        <3>. QED
            BY <3>1, <3>2
    <2>15. OrdersFresh'
        <3>1. ASSUME NEW q \in Slots, Orders(gc'[q])
              PROVE  /\ q # r /\ gc'[q] = gc[q] /\ Orders(gc[q])
                     /\ gc[q].pid \in Pids /\ gc[q].pid # p
            BY <1>3, <2>3, <2>9, <3>1 DEF Inv, SlotInv, Waits, Orders
        <3>2. ASSUME NEW q \in Pids, q # p PROVE orders'[q] = orders[q] /\ pays'[q] = pays[q]
            BY <1>5, <2>4, <3>2
        <3>3. /\ \A q \in Slots : Orders(gc[q]) => orders[gc[q].pid] = "none" /\ ~pays[gc[q].pid].known
              /\ \A q, s \in Slots : Orders(gc[q]) /\ Orders(gc[s]) /\ gc[q].pid = gc[s].pid => q = s
            BY DEF Inv, OrdersFresh
        <3>4. \A q \in Slots : Orders(gc[q])' <=> Orders(gc'[q])
            BY DEF Orders
        <3>. QED
            BY <3>1, <3>2, <3>3, <3>4 DEF OrdersFresh
    <2>16. Table(codes)' /\ CodesProven(codes, issued)' /\ IbanInv'
        BY <1>1, <1>3 DEF Inv, Table, CodesProven, CodeProven, IbanInv
    <2>17. HeapExact'
        BY <1>1, <1>2, <2>2, <2>3, <2>9 DEF Inv, HeapExact, HeapOwned, Underpaid, Expired, ExpiredIn
    <2>18. ListExact'
        <3>1. Members' = Members \ {r}
            BY <2>3, <2>9 DEF Members
        <3>. QED
            BY <1>1, <1>2, <2>2, <3>1 DEF ListExact, ListFits
    <2>19. Lost' /\ AssertionsHold'
        BY <1>2, <2>2 DEF Lost, AssertionsHold
    <2>. QED
        BY <2>10, <2>11, <2>12, <2>13, <2>14, <2>15, <2>16, <2>17, <2>18, <2>19 DEF Inv
<1>6. \E resp \in {"pay", "error"}, order \in {"unpaid", "none"} :
          \/ ~MayResume(r)
          \/ /\ Resumed(r, [gc[r] EXCEPT !.resp = resp])
             /\ orders' = [orders EXCEPT ![p] = order]
             /\ pays' \in {pays, [pays EXCEPT ![p] = NewPayment(now, PayCounter)]}
    BY DEF ProposalCb
<1>. HIDE DEF p
<1>. QED
    BY <1>4, <1>5, <1>6

(* The plugin of a request has been called back.                            *)
LEMMA WokenKeepsInv ==
    ASSUME Inv, NEW r \in Slots, gc[r].live, gc[r].as \in {"child", "listening"},
           NEW as \in {"ok", "bad", "listening"}, as = "listening" <=> gc[r].as = "listening",
           as = "listening" => gc[r].event \/ gc[r].timeout <= now,
           Woken(r, as)
    PROVE  Inv'
<1>. DEFINE h == [gc[r] EXCEPT !.as = as, !.event = FALSE]
            c == IF conn[r] = "parked" THEN "ready" ELSE conn[r]
<1>1. /\ gc[r] \in Context /\ SlotInv(gc[r], conn[r]) /\ proc = "up"
      /\ ListFits(r, list, gc[r].inList)
      /\ ~Underpaid /\ ~ExpiredIn(codes) => heap[r] = IF gc[r].hn THEN 1 ELSE 0
      /\ method.kind = "iban" => IbanSlot(gc[r], conn[r], codes)
      /\ ServedPaid(gc[r])
    BY LiveSlot DEF Inv
<1>2. /\ UNCHANGED <<codes, issued, swapped, pays>> /\ UNCHANGED world
      /\ UNCHANGED <<proc, list, heap, refunds>>
    BY DEF Woken
<1>3. Tables
    BY <1>2, PaymentsFit, QuietTables
<1>4. /\ h \in Context /\ h.live /\ h.as = as /\ h.event = FALSE
      /\ h.pid = gc[r].pid /\ h.provided = gc[r].provided /\ h.response = gc[r].response
      /\ h.code = gc[r].code /\ h.merchant = gc[r].merchant /\ h.hn = gc[r].hn
      /\ h.inList = gc[r].inList /\ h.suspended = gc[r].suspended /\ h.reply = gc[r].reply
      /\ h.timeout = gc[r].timeout
    BY <1>1 DEF Context, Opened, Plugin
<1>5. gc' = [gc EXCEPT ![r] = h] /\ conn' = [conn EXCEPT ![r] = c]
    BY DEF Woken, Inv, MemoryTypes
<1>6. conn[r] \in {"ready", "parked"} /\ Plugged(gc[r], conn[r]) /\ gc[r].reply = "none"
    BY <1>1 DEF SlotInv, Inv, MemoryTypes
<1>7. c = "ready"
    BY <1>6
<1>. HIDE DEF h, c
<1>8. h.inList = TRUE /\ h.merchant = "none"
    BY <1>1, <1>4, <1>6 DEF Plugged, Context, Opened
<1>9. SlotInv(h, c)
    BY <1>1, <1>4, <1>6, <1>7, <1>8 DEF SlotInv, Plugged
<1>10. ServedPaid(h) /\ SharesProven(h, issued') /\ ~Orders(h)
    BY <1>1, <1>4, <1>6, <1>8 DEF ServedPaid, Entitled, SharesProven, Orders
<1>11. ListFits(r, list, TRUE)
    BY <1>1, <1>4, <1>8
<1>12. Moved(r, h, c)
    BY <1>1, <1>2, <1>4, <1>5, <1>7, <1>8, <1>9, <1>10, <1>11
       DEF Moved, ListFits, Inv, MemoryTypes
<1>13. MovedIban(r, h, c)
    <2>. SUFFICES ASSUME method.kind = "iban"
         PROVE  /\ IbanSlot(h, c, codes)
                /\ \A q \in Slots \ {r} : Apart(h, gc[q], codes)
        BY <1>2 DEF MovedIban
    <2>1. gc[r].as = "listening" /\ as = "listening"
        BY <1>6 DEF Plugged
    <2>2. IbanSlot(h, c, codes)
        BY <1>1, <1>4, <1>7, <2>1 DEF IbanSlot, ListensFor
    <2>3. \A q \in Slots \ {r} : Apart(h, gc[q], codes)
        BY <1>4, <2>1 DEF Inv, IbanInv, Apart, Listens
    <2>. QED
        BY <2>2, <2>3
<1>. QED
    BY <1>1, <1>3, <1>12, <1>13, OutcomeKeepsInv DEF Outcome

(* A helper program has ended.                                              *)
LEMMA HelperDoneKeepsInv ==
    ASSUME Inv, NEW r \in Slots, HelperDone(r)
    PROVE  Inv'
<1>1. PICK as \in {"ok", "bad"} : Woken(r, as)
    BY DEF HelperDone
<1>. QED
    BY <1>1, WokenKeepsInv DEF HelperDone

(* The bank helper has notified the plugin, or the wait is over.            *)
LEMMA BankEventKeepsInv ==
    ASSUME Inv, NEW r \in Slots, BankEvent(r)
    PROVE  Inv'
BY WokenKeepsInv DEF BankEvent

(* A request that the timer resumes, and how its connection is left.        *)
TimedOut(r) == [gc[r] EXCEPT !.suspended = FALSE, !.hn = FALSE]
ConnAfter(r) == IF gc[r].suspended /\ conn[r] = "parked" THEN "ready" ELSE conn[r]

(* It no longer waits, and what it had shown still holds.                   *)
LEMMA TimedOutSlot ==
    ASSUME Inv, NEW r \in Slots, gc[r].live, gc[r].hn, gc[r].timeout <= now
    PROVE  LET h == TimedOut(r)
               c == ConnAfter(r)
           IN  /\ h \in Context /\ h.live /\ h.hn = FALSE /\ h.inList = gc[r].inList
               /\ h.as = gc[r].as /\ h.code = gc[r].code
               /\ SlotInv(h, c) /\ ServedPaid(h) /\ SharesProven(h, issued) /\ ~Orders(h)
               /\ c \in {"ready", "parked", "replied"}
               /\ method.kind = "iban" => IbanSlot(h, c, codes)
<1>. DEFINE h == TimedOut(r)
            c == ConnAfter(r)
<1>1. /\ gc[r] \in Context /\ SlotInv(gc[r], conn[r])
      /\ method.kind = "iban" => IbanSlot(gc[r], conn[r], codes)
      /\ ServedPaid(gc[r]) /\ SharesProven(gc[r], issued)
      /\ conn[r] \in {"idle", "ready", "parked", "replied"}
    BY LiveSlot DEF Inv, MemoryTypes
<1>2. /\ h \in Context /\ h.live /\ h.hn = FALSE /\ h.suspended = FALSE
      /\ h.as = gc[r].as /\ h.merchant = gc[r].merchant
      /\ h.reply = gc[r].reply /\ h.inList = gc[r].inList
      /\ h.pid = gc[r].pid /\ h.provided = gc[r].provided
      /\ h.response = gc[r].response /\ h.code = gc[r].code
      /\ h.event = gc[r].event /\ h.timeout = gc[r].timeout
    BY <1>1 DEF TimedOut, Context, Opened
<1>3. gc[r].merchant = "none" /\ conn[r] # "idle"
    BY <1>1 DEF SlotInv, Waits
<1>4. /\ c \in {"ready", "parked", "replied"}
      /\ c = "replied" <=> conn[r] = "replied"
      /\ c = "parked" => conn[r] = "parked"
      /\ conn[r] = "ready" => c = "ready"
    BY <1>1, <1>3 DEF ConnAfter
<1>. HIDE DEF h, c
<1>5. gc[r].as = "none" => c = conn[r]
    <2>1. gc[r].as = "none" => conn[r] # "parked"
        BY <1>1, <1>3 DEF SlotInv, Unplugged
    <2>. QED
        BY <1>1, <1>3, <1>4, <2>1
<1>6. SlotInv(h, c)
    <2>1. CASE gc[r].as # "none"
        <3>1. Plugged(gc[r], conn[r])
            BY <1>1, <2>1 DEF SlotInv
        <3>2. Plugged(h, c)
            BY <1>2, <3>1 DEF Plugged
        <3>. QED
            BY <1>1, <1>2, <1>3, <1>4, <2>1, <3>1, <3>2 DEF SlotInv, Plugged
    <2>2. CASE gc[r].as = "none"
        <3>1. Unplugged(gc[r], conn[r])
            BY <1>1, <2>2 DEF SlotInv
        <3>2. Unplugged(h, c)
            BY <1>2, <1>5, <2>2, <3>1 DEF Unplugged
        <3>. QED
            BY <1>1, <1>2, <1>3, <1>4, <1>5, <2>2, <3>2 DEF SlotInv
    <2>. QED
        BY <2>1, <2>2
<1>7. ServedPaid(h) /\ SharesProven(h, issued) /\ ~Orders(h)
    BY <1>1, <1>2, <1>3 DEF ServedPaid, Entitled, SharesProven, ShareProven, Orders
<1>8. method.kind = "iban" => IbanSlot(h, c, codes)
    BY <1>1, <1>2, <1>4, <1>5 DEF IbanSlot, ListensFor
<1>. QED
    BY <1>2, <1>4, <1>6, <1>7, <1>8 DEF h, c

(* A context whose entry is missing or doubled is met only when a transfer  *)
(* fell short or a code expired.                                            *)
LEMMA DoTimeoutKeepsInv ==
    ASSUME Inv, DoTimeout
    PROVE  Inv'
<1>. DEFINE due == {r \in Slots : heap[r] > 0 /\ (gc[r].live => gc[r].timeout <= now)}
<1>1. /\ UNCHANGED <<codes, pays, issued, swapped>> /\ proc = "up"
      /\ now' = now /\ method' = method /\ orders' = orders /\ wires' = wires
    BY DEF DoTimeout, world
<1>2. CASE \E r \in due : ~gc[r].live \/ ~gc[r].hn \/ heap[r] > 1
    <2>1. Tables
        BY <1>1, PaymentsFit, QuietTables DEF world
    <2>2. PICK r \in due : ~gc[r].live \/ ~gc[r].hn \/ heap[r] > 1
        BY <1>2
    <2>3. heap[r] # IF gc[r].live /\ gc[r].hn THEN 1 ELSE 0
        BY <2>2 DEF Inv, MemoryTypes
    <2>4. Underpaid \/ Expired
        BY <2>2, <2>3 DEF Inv, HeapExact, HeapOwned
    <2>5. Abort
        BY <1>2 DEF DoTimeout
    <2>. QED
        BY <1>1, <2>1, <2>4, <2>5, DeathKeepsInv DEF Abort, Expired, ExpiredIn
<1>3. CASE ~\E r \in due : ~gc[r].live \/ ~gc[r].hn \/ heap[r] > 1
    <2>1. /\ gc' = [r \in Slots |-> IF r \in due THEN TimedOut(r) ELSE gc[r]]
          /\ conn' = [r \in Slots |-> IF r \in due /\ gc[r].suspended /\ conn[r] = "parked"
                                      THEN "ready" ELSE conn[r]]
          /\ heap' = [r \in Slots |-> IF r \in due THEN 0 ELSE heap[r]]
          /\ UNCHANGED <<proc, list, refunds>>
        BY <1>3 DEF DoTimeout, TimedOut
    <2>2. /\ \A r \in Slots : gc'[r] = IF r \in due THEN TimedOut(r) ELSE gc[r]
          /\ \A r \in Slots : conn'[r] = IF r \in due THEN ConnAfter(r) ELSE conn[r]
          /\ \A r \in Slots : heap'[r] = IF r \in due THEN 0 ELSE heap[r]
        BY <2>1 DEF ConnAfter
    <2>3. \A r \in due : r \in Slots /\ gc[r].live /\ gc[r].hn /\ gc[r].timeout <= now
        BY <1>3
    <2>. HIDE DEF due
    <2>4. ASSUME NEW r \in due
          PROVE  LET h == TimedOut(r)
                     c == ConnAfter(r)
                 IN  /\ h \in Context /\ h.live /\ h.hn = FALSE /\ h.inList = gc[r].inList
                     /\ h.as = gc[r].as /\ h.code = gc[r].code
                     /\ SlotInv(h, c) /\ ServedPaid(h) /\ SharesProven(h, issued) /\ ~Orders(h)
                     /\ c \in {"ready", "parked", "replied"}
                     /\ method.kind = "iban" => IbanSlot(h, c, codes)
        BY <2>3, TimedOutSlot
    <2>5. ASSUME NEW r \in Slots
          PROVE  /\ SlotInv(gc'[r], conn'[r]) /\ ServedPaid(gc'[r]) /\ SharesProven(gc'[r], issued)
                 /\ method.kind = "iban" => IbanSlot(gc'[r], conn'[r], codes)
                 /\ Orders(gc'[r]) => gc'[r] = gc[r]
                 /\ gc'[r].live <=> gc[r].live
                 /\ gc[r].live => gc'[r].inList = gc[r].inList /\ gc'[r].as = gc[r].as
                                  /\ gc'[r].code = gc[r].code
        <3>1. /\ SlotInv(gc[r], conn[r]) /\ ServedPaid(gc[r]) /\ SharesProven(gc[r], issued)
              /\ method.kind = "iban" => IbanSlot(gc[r], conn[r], codes)
            BY DEF Inv, IbanInv
        <3>2. CASE r \in due
            BY <2>2, <2>3, <2>4, <3>2
        <3>3. CASE r \notin due
            BY <2>2, <3>1, <3>3
        <3>. QED
            BY <3>2, <3>3
    <2>6. MemoryTypes'
        <3>1. gc' \in [Slots -> {NoContext} \cup Context]
            BY <2>1, <2>4 DEF Inv, MemoryTypes
        <3>2. conn' \in [Slots -> {"idle", "ready", "parked", "replied"}]
            BY <2>1 DEF Inv, MemoryTypes
        <3>3. heap' \in [Slots -> Int]
            BY <2>1 DEF Inv, MemoryTypes
        <3>. QED
            BY <2>1, <3>1, <3>2, <3>3 DEF Inv, MemoryTypes
    <2>7. \A r \in Slots : SlotInv(gc[r], conn[r])'
        BY <1>1, <2>5 DEF SlotInv, Waits, Plugged, Unplugged
    <2>8. \A r \in Slots : ServedPaid(gc[r])' /\ SharesProven(gc[r], issued)'
        BY <1>1, <2>5 DEF ServedPaid, Entitled, Settled, SharesProven, ShareProven
    <2>9. OrdersFresh'
        <3>1. \A r \in Slots : Orders(gc[r])' => Orders(gc[r]) /\ gc'[r].pid = gc[r].pid
            BY <2>5 DEF Orders
        <3>. QED
            BY <1>1, <3>1 DEF Inv, OrdersFresh
    <2>10. TableTypes' /\ RowsSettled' /\ Table(codes)' /\ CodesProven(codes, issued)'
        BY <1>1 DEF Inv, TableTypes, RowsSettled, Settled, Table, CodesProven, CodeProven
    <2>11. IbanInv'
        <3>. SUFFICES ASSUME method.kind = "iban"
             PROVE  /\ WiresTold(codes)'
                    /\ \A r \in Slots : IbanSlot(gc[r], conn[r], codes)'
                    /\ \A r, q \in Slots : r # q => Apart(gc[r], gc[q], codes)'
            BY <1>1 DEF IbanInv
        <3>1. WiresTold(codes)'
            BY <1>1 DEF Inv, IbanInv, WiresTold
        <3>2. \A r \in Slots : IbanSlot(gc[r], conn[r], codes)'
            BY <1>1, <2>5 DEF IbanSlot, ListensFor, Quoted, ToldIn, HeldIn, SatisfiedIn, ExpiredIn
        <3>3. \A r \in Slots : (Listens(gc[r])' => Listens(gc[r]) /\ gc'[r].code = gc[r].code)
            BY <2>5 DEF Listens
        <3>4. \A r, q \in Slots : r # q => Apart(gc[r], gc[q], codes)'
            BY <1>1, <3>3 DEF Inv, IbanInv, Apart, ToldIn
        <3>. QED
            BY <3>1, <3>2, <3>4
    <2>12. HeapExact'
        <3>1. Underpaid' \/ Expired' \/ HeapOwned
            BY <1>1 DEF Inv, HeapExact, Underpaid, Expired
        <3>2. HeapOwned => HeapOwned'
            BY <2>2, <2>4 DEF HeapOwned
        <3>. QED
            BY <3>1, <3>2 DEF HeapExact
    <2>13. ListExact'
        <3>1. Members' = Members
            BY <2>5 DEF Members
        <3>. QED
            BY <1>1, <2>1, <3>1 DEF Inv, ListExact
    <2>14. Lost' /\ AssertionsHold'
        BY <1>1, <2>1 DEF Lost, AssertionsHold
    <2>. QED
        BY <2>6, <2>7, <2>8, <2>9, <2>10, <2>11, <2>12, <2>13, <2>14 DEF Inv
<1>. QED
    BY <1>2, <1>3

(* A transfer arrives and wakes who listens for its code.                   *)
LEMMA TransferKeepsInv ==
    ASSUME Inv, NEW code \in Codes, NEW enough \in BOOLEAN, Transfer(code, enough)
    PROVE  Inv'
<1>. DEFINE w == [code |-> code, enough |-> enough, at |-> now]
            woken(r) == gc[r].live /\ gc[r].as = "listening" /\ gc[r].code = code
            h(r) == [gc[r] EXCEPT !.event = TRUE]
<1>1. /\ UNCHANGED <<proc, conn, list, heap, refunds, codes, pays, now, method, orders, issued, swapped>>
      /\ wires' = wires \cup {w} /\ w \in Wire /\ ToldIn(codes, code)
      /\ gc' = [r \in Slots |-> IF woken(r) THEN h(r) ELSE gc[r]]
    BY MethodTypes DEF Transfer, Told, ToldIn, Wire
<1>2. \A r \in Slots : gc'[r] = IF woken(r) THEN h(r) ELSE gc[r]
    BY <1>1
<1>3. ASSUME NEW r \in Slots, woken(r)
      PROVE  /\ h(r) \in Context /\ h(r).live /\ h(r).event = TRUE
             /\ h(r).hn = gc[r].hn /\ h(r).suspended = gc[r].suspended
             /\ h(r).as = gc[r].as /\ h(r).merchant = gc[r].merchant
             /\ h(r).reply = gc[r].reply /\ h(r).inList = gc[r].inList
             /\ h(r).pid = gc[r].pid /\ h(r).provided = gc[r].provided
             /\ h(r).response = gc[r].response /\ h(r).code = gc[r].code
             /\ h(r).timeout = gc[r].timeout /\ gc[r].live /\ gc[r].code = code
    <2>1. gc[r] \in Context
        BY <1>3, LiveSlot
    <2>. QED
        BY <1>3, <2>1 DEF Context, Opened
<1>. HIDE DEF woken, h
<1>4. TableTypes' /\ RowsSettled' /\ Table(codes)' /\ CodesProven(codes, issued)'
    BY <1>1 DEF Inv, TableTypes, RowsSettled, Settled, Table, CodesProven, CodeProven
<1>5. MemoryTypes'
    <2>1. gc' \in [Slots -> {NoContext} \cup Context]
        BY <1>1, <1>3 DEF Inv, MemoryTypes
    <2>. QED
        BY <1>1, <2>1 DEF Inv, MemoryTypes
<1>6. \A r \in Slots : SlotInv(gc[r], conn[r])'
    <2>1. ASSUME NEW r \in Slots PROVE SlotInv(gc'[r], conn[r])
        <3>1. CASE woken(r)
            <4>1. SlotInv(gc[r], conn[r])
                BY DEF Inv
            <4>. QED
                BY <1>2, <1>3, <3>1, <4>1, ZenonT(60) DEF SlotInv, Waits, Plugged, Unplugged
        <3>2. CASE ~woken(r)
            BY <1>2, <3>2 DEF Inv
        <3>. QED
            BY <3>1, <3>2
    <2>. QED
        BY <1>1, <2>1 DEF SlotInv, Waits, Plugged, Unplugged
<1>7. \A r \in Slots : ServedPaid(gc[r])' /\ SharesProven(gc[r], issued)'
    <2>1. ASSUME NEW r \in Slots PROVE ServedPaid(gc'[r]) /\ SharesProven(gc'[r], issued)
        <3>1. ServedPaid(gc[r]) /\ SharesProven(gc[r], issued)
            BY DEF Inv
        <3>. QED
            BY <1>2, <1>3, <3>1 DEF ServedPaid, Entitled, SharesProven, ShareProven
    <2>. QED
        BY <1>1, <2>1 DEF ServedPaid, Entitled, Settled, SharesProven, ShareProven
<1>8. OrdersFresh'
    <2>1. \A r \in Slots : Orders(gc[r])' => Orders(gc[r]) /\ gc'[r].pid = gc[r].pid
        BY <1>2, <1>3 DEF Orders
    <2>. QED
        BY <1>1, <2>1 DEF Inv, OrdersFresh
<1>9. IbanInv'
    <2>. SUFFICES ASSUME method.kind = "iban"
         PROVE  /\ WiresTold(codes)'
                /\ \A r \in Slots : IbanSlot(gc[r], conn[r], codes)'
                /\ \A r, q \in Slots : r # q => Apart(gc[r], gc[q], codes)'
        BY <1>1 DEF IbanInv
    <2>1. WiresTold(codes)'
        <3>1. \E c \in codes : c.code = w.code /\ c.created <= w.at /\ c.sent # 0
            BY <1>1 DEF ToldIn, Inv, Table
        <3>2. WiresTold(codes)
            BY DEF Inv, IbanInv
        <3>. QED
            BY <1>1, <3>1, <3>2 DEF WiresTold
    <2>2. ASSUME NEW r \in Slots PROVE IbanSlot(gc[r], conn[r], codes)'
        <3>1. IbanSlot(gc[r], conn[r], codes)
            BY DEF Inv, IbanInv
        <3>2. \A x : Quoted(x) => Quoted(x)'
            BY <1>1 DEF Quoted
        <3>3. Quoted(code)'
            BY <1>1 DEF Quoted
        <3>4. CASE woken(r)
            BY <1>1, <1>2, <1>3, <3>1, <3>2, <3>3, <3>4, ZenonT(60)
               DEF IbanSlot, ListensFor, ToldIn, HeldIn, SatisfiedIn, ExpiredIn
        <3>5. CASE ~woken(r)
            BY <1>1, <1>2, <3>1, <3>2, <3>5
               DEF IbanSlot, ListensFor, ToldIn, HeldIn, SatisfiedIn, ExpiredIn
        <3>. QED
            BY <3>4, <3>5
    <2>3. \A r \in Slots : (Listens(gc[r])' <=> Listens(gc[r]))
                           /\ (Listens(gc[r]) => gc'[r].code = gc[r].code)
        BY <1>2, <1>3 DEF Listens
    <2>4. \A r, q \in Slots : r # q => Apart(gc[r], gc[q], codes)'
        BY <1>1, <2>3 DEF Inv, IbanInv, Apart, ToldIn
    <2>. QED
        BY <2>1, <2>2, <2>4
<1>10. HeapExact'
    BY <1>1, <1>2, <1>3 DEF Inv, HeapExact, HeapOwned, Underpaid, Expired
<1>11. ListExact'
    <2>1. Members' = Members
        BY <1>2, <1>3 DEF Members
    <2>. QED
        BY <1>1, <2>1 DEF Inv, ListExact
<1>12. AssertionsHold'
    <2>1. (Underpaid => Underpaid') /\ (Expired => Expired')
        BY <1>1 DEF Underpaid, Expired
    <2>2. DirectValidation' <=> DirectValidation
        BY <1>1 DEF DirectValidation
    <2>. QED
        BY <1>1, <2>1, <2>2 DEF Inv, AssertionsHold
<1>13. Lost'
    <2>. SUFFICES ASSUME proc # "up"
         PROVE  gc' = [r \in Slots |-> NoContext] /\ list' = EmptyList(Slots)
        BY <1>1 DEF Lost
    <2>1. gc = [r \in Slots |-> NoContext] /\ list = EmptyList(Slots) /\ NoContext.live = FALSE
        BY DEF Inv, Lost, NoContext
    <2>2. \A r \in Slots : ~woken(r)
        BY <2>1 DEF woken
    <2>. QED
        BY <1>1, <2>1, <2>2
<1>. QED
    BY <1>4, <1>5, <1>6, <1>7, <1>8, <1>9, <1>10, <1>11, <1>12, <1>13 DEF Inv

(* At the shutdown every context that waits is on the list.                 *)
LEMMA ShutdownKeepsInv ==
    ASSUME Inv, Shutdown
    PROVE  Inv'
<1>1. UNCHANGED <<codes, pays, issued, swapped>> /\ UNCHANGED world
    BY DEF Shutdown
<1>2. Tables
    BY <1>1, PaymentsFit, QuietTables
<1>3. ASSUME NEW r \in Slots, gc[r].live, ~gc[r].inList
      PROVE  ~(gc[r].suspended \/ conn[r] = "parked")
    BY <1>3 DEF Inv, SlotInv
<1>4. ~IsListOf(list, Members) => swapped'
    BY <1>1 DEF Inv, ListExact
<1>5. (Abort /\ ~IsListOf(list, Members)) \/ (proc' = "stopped" /\ MemoryLost)
    BY <1>3 DEF Shutdown
<1>. QED
    BY <1>2, <1>4, <1>5, DeathKeepsInv DEF Abort

(* A new process starts without contexts.                                   *)
LEMMA RestartKeepsInv ==
    ASSUME Inv, Restart
    PROVE  Inv'
<1>1. /\ proc # "up" /\ proc' = "up" /\ swapped' = FALSE
      /\ gc' = gc /\ conn' = conn /\ list' = list /\ heap' = heap /\ refunds' = refunds
      /\ codes' = codes /\ pays' = pays /\ issued' = issued
      /\ now' = now /\ method' = method /\ orders' = orders /\ wires' = wires
    BY DEF Restart, mem, world
<1>2. gc = [r \in Slots |-> NoContext] /\ list = EmptyList(Slots)
    BY <1>1 DEF Inv, Lost
<1>3. IsListOf(list, Members)
    <2>1. Members = {}
        BY <1>2 DEF Members, NoContext
    <2>. QED
        BY <1>2, <2>1, NamesAssumption, EmptyIsList
<1>4. TableTypes' /\ MemoryTypes' /\ RowsSettled' /\ Table(codes)' /\ CodesProven(codes, issued)'
    BY <1>1 DEF Inv, TableTypes, MemoryTypes, RowsSettled, Settled, Table, CodesProven, CodeProven
<1>5. \A r \in Slots : /\ SlotInv(gc[r], conn[r])' /\ ServedPaid(gc[r])'
                       /\ SharesProven(gc[r], issued)'
    BY <1>1 DEF Inv, SlotInv, Waits, Plugged, Unplugged, ServedPaid, Entitled, Settled,
       SharesProven, ShareProven
<1>6. OrdersFresh'
    BY <1>1 DEF Inv, OrdersFresh, Orders
<1>7. IbanInv'
    BY <1>1 DEF Inv, IbanInv, WiresTold, IbanSlot, ListensFor, Apart, Listens, Quoted, ToldIn,
       HeldIn, SatisfiedIn, ExpiredIn
<1>8. HeapExact'
    BY <1>1 DEF Inv, HeapExact, HeapOwned, Underpaid, Expired
<1>9. ListExact'
    BY <1>1, <1>3 DEF ListExact, Members
<1>10. Lost' /\ AssertionsHold'
    BY <1>1 DEF Lost, AssertionsHold
<1>. QED
    BY <1>4, <1>5, <1>6, <1>7, <1>8, <1>9, <1>10 DEF Inv

(* As time passes codes expire and requests time out, and stay so.          *)
LEMMA TickKeepsInv ==
    ASSUME Inv, Tick
    PROVE  Inv'
<1>1. /\ proc' = proc /\ swapped' = swapped
      /\ gc' = gc /\ conn' = conn /\ list' = list /\ heap' = heap /\ refunds' = refunds
      /\ codes' = codes /\ pays' = pays /\ issued' = issued
      /\ method' = method /\ orders' = orders /\ wires' = wires
    BY DEF Tick, mem
<1>2. now' = now + 1 /\ now \in Nat \ {0}
    BY MethodTypes DEF Tick
<1>3. \A c \in codes : c.created \in Nat /\ c.expires \in Int /\ c.created <= now
    BY DEF Inv, Table, Row
<1>4. Table(codes)'
    <2>1. \A c \in codes : c.created <= now'
        BY <1>2, <1>3
    <2>. QED
        BY <1>1, <2>1 DEF Inv, Table
<1>5. (Expired => Expired') /\ (ExpiredIn(codes) => ExpiredIn(codes)')
    BY <1>1, <1>2, <1>3 DEF Expired, ExpiredIn
<1>6. TableTypes' /\ MemoryTypes' /\ RowsSettled' /\ CodesProven(codes, issued)'
    BY <1>1, <1>2 DEF Inv, TableTypes, MemoryTypes, RowsSettled, Settled, CodesProven, CodeProven
<1>7. \A r \in Slots : /\ SlotInv(gc[r], conn[r])' /\ ServedPaid(gc[r])'
                       /\ SharesProven(gc[r], issued)'
    BY <1>1 DEF Inv, SlotInv, Waits, Plugged, Unplugged, ServedPaid, Entitled, Settled,
       SharesProven, ShareProven
<1>8. OrdersFresh'
    BY <1>1 DEF Inv, OrdersFresh, Orders
<1>9. IbanInv'
    <2>. SUFFICES ASSUME method.kind = "iban"
         PROVE  /\ WiresTold(codes)'
                /\ \A r \in Slots : IbanSlot(gc[r], conn[r], codes)'
                /\ \A r, q \in Slots : r # q => Apart(gc[r], gc[q], codes)'
        BY <1>1 DEF IbanInv
    <2>1. WiresTold(codes)' /\ \A r, q \in Slots : r # q => Apart(gc[r], gc[q], codes)'
        BY <1>1 DEF Inv, IbanInv, WiresTold, Apart, Listens, ToldIn
    <2>2. ASSUME NEW r \in Slots PROVE IbanSlot(gc[r], conn[r], codes)'
        <3>1. IbanSlot(gc[r], conn[r], codes)
            BY DEF Inv, IbanInv
        <3>2. gc[r].live /\ gc[r].timeout <= now => gc[r].timeout <= now'
            <4>1. gc[r].live => gc[r].timeout \in Int
                BY LiveSlot DEF Context, Opened
            <4>. QED
                BY <1>2, <4>1
        <3>3. /\ \A x : /\ ToldIn(codes, x)' <=> ToldIn(codes, x)
                        /\ HeldIn(codes, x)' <=> HeldIn(codes, x)
                        /\ SatisfiedIn(codes, x)' <=> SatisfiedIn(codes, x)
                        /\ Quoted(x)' <=> Quoted(x)
            BY <1>1 DEF ToldIn, HeldIn, SatisfiedIn, Quoted
        <3>. QED
            BY <1>1, <1>5, <3>1, <3>2, <3>3 DEF IbanSlot, ListensFor
    <2>. QED
        BY <2>1, <2>2
<1>10. HeapExact'
    <2>1. (HeapOwned' <=> HeapOwned) /\ (Underpaid' <=> Underpaid)
        BY <1>1 DEF HeapOwned, Underpaid
    <2>. QED
        BY <1>5, <2>1 DEF Inv, HeapExact
<1>11. ListExact' /\ Lost'
    BY <1>1 DEF Inv, ListExact, Members, Lost
<1>12. AssertionsHold'
    BY <1>1, <1>5 DEF Inv, AssertionsHold, Underpaid, DirectValidation
<1>. QED
    BY <1>4, <1>6, <1>7, <1>8, <1>9, <1>10, <1>11, <1>12 DEF Inv

-----------------------------------------------------------------------------

(* The invariant holds at first ...                                         *)
LEMMA InitInv == Init => Inv
<1>. SUFFICES ASSUME Init PROVE Inv
    OBVIOUS
<1>1. /\ \A r \in Slots : gc[r] = NoContext /\ conn[r] = "idle" /\ heap[r] = 0
      /\ NoContext.live = FALSE /\ codes = {} /\ wires = {} /\ swapped = FALSE /\ proc = "up"
      /\ \A p \in Pids : pays[p] = Absent /\ Absent.known = FALSE
    BY DEF Init, NoContext, Absent
<1>2. EmptyList(Slots) \in Lists(Slots) /\ IsListOf(EmptyList(Slots), {})
    BY NamesAssumption, EmptyIsList
<1>3. TableTypes /\ MemoryTypes
    BY <1>2, NumbersAssumption DEF Init, TableTypes, MemoryTypes
<1>4. \A r \in Slots : /\ SlotInv(gc[r], conn[r]) /\ ServedPaid(gc[r])
                       /\ SharesProven(gc[r], issued)
    BY <1>1 DEF SlotInv, ServedPaid, SharesProven
<1>5. RowsSettled /\ OrdersFresh
    BY <1>1 DEF RowsSettled, OrdersFresh, Orders
<1>6. Table(codes) /\ CodesProven(codes, issued)
    BY <1>1, FS_EmptySet DEF Table, CodesProven
<1>7. IbanInv
    BY <1>1 DEF IbanInv, WiresTold, IbanSlot, Apart, Listens
<1>8. HeapExact
    BY <1>1 DEF HeapExact, HeapOwned
<1>9. ListExact
    <2>1. Members = {}
        BY <1>1 DEF Members
    <2>. QED
        BY <1>2, <2>1 DEF Init, ListExact
<1>10. Lost /\ AssertionsHold
    BY <1>1 DEF Lost, AssertionsHold
<1>. QED
    BY <1>3, <1>4, <1>5, <1>6, <1>7, <1>8, <1>9, <1>10 DEF Inv

(* A step that changes nothing.                                             *)
LEMMA StutterKeepsInv ==
    ASSUME Inv, UNCHANGED vars
    PROVE  Inv'
<1>1. /\ proc' = proc /\ swapped' = swapped
      /\ gc' = gc /\ conn' = conn /\ list' = list /\ heap' = heap /\ refunds' = refunds
      /\ codes' = codes /\ pays' = pays /\ issued' = issued
      /\ now' = now /\ method' = method /\ orders' = orders /\ wires' = wires
    BY DEF vars, mem, world
<1>2. refunds \in [Pids -> Nat] /\ orders \in [Pids -> {"none", "unpaid", "paid", "refunded"}]
    BY DEF Inv, MemoryTypes, TableTypes
<1>3. PaysFit(pays)
    BY PaymentsFit
<1>. QED
    BY <1>1, <1>2, <1>3, OrdersKeepInv DEF PaysFit

(* ... and every step keeps it.                                             *)
LEMMA NextInv == Inv /\ [Next]_vars => Inv'
<1>. SUFFICES ASSUME Inv, [Next]_vars PROVE Inv'
    OBVIOUS
<1>1. ASSUME NEW r \in Slots, \/ \E i \in Inputs[method] : Request(r, i)
                              \/ Resume(r) \/ RequestDone(r)
                              \/ ProposalCb(r) \/ CheckPaymentCb(r)
                              \/ HelperDone(r) \/ BankEvent(r)
      PROVE  Inv'
    BY <1>1, RequestKeepsInv, ResumeKeepsInv, RequestDoneKeepsInv, ProposalCbKeepsInv,
       CheckPaymentCbKeepsInv, HelperDoneKeepsInv, BankEventKeepsInv
<1>2. ASSUME NEW p \in Pids, RefundCb(p) \/ Pay(p)
      PROVE  Inv'
    BY <1>2, RefundCbKeepsInv, PayKeepsInv
<1>3. ASSUME NEW code \in Codes, NEW enough \in BOOLEAN, Transfer(code, enough)
      PROVE  Inv'
    BY <1>3, TransferKeepsInv
<1>4. CASE DoTimeout \/ Shutdown \/ Restart \/ Tick
    BY <1>4, DoTimeoutKeepsInv, ShutdownKeepsInv, RestartKeepsInv, TickKeepsInv
<1>5. CASE UNCHANGED vars
    BY <1>5, StutterKeepsInv
<1>. QED
    BY <1>1, <1>2, <1>3, <1>4, <1>5 DEF Next

-----------------------------------------------------------------------------

(* The conjunction of all that holds whenever a callback ends.              *)
THEOREM Invariance == Spec => []Inv
    BY InitInv, NextInv, PTL DEF Spec

(* No key share leaves without the challenge being met: a code that a       *)
(* plugin was given, a sufficient transfer, the right answer.               *)
THEOREM KeyShareSafety == Spec => []KeyShareProven
<1>1. Inv => KeyShareProven
    <2>. SUFFICES ASSUME Inv, NEW r \in Slots, gc[r].live, gc[r].reply = "share"
         PROVE  CASE method.kind \in {"question", "totp"} -> gc[r].response = RightResponse
                  [] method.kind = "helper" -> gc[r].response \in issued
                  [] method.kind = "iban" ->
                        \E w \in wires : w.code = gc[r].response /\ w.enough
        BY DEF KeyShareProven, Replied
    <2>1. ShareProven(gc[r], issued)
        BY DEF Inv, SharesProven
    <2>. QED
        BY <2>1, MethodTypes DEF ShareProven, Kinds
<1>. QED
    BY <1>1, Invariance, PTL

(* Whoever is served holds an order that was paid: across suspensions,      *)
(* restarts, refunds and other requests with the same identifier.           *)
THEOREM PaymentSafety == Spec => []PaidBeforeServed
<1>1. Inv => PaidBeforeServed
    BY DEF Inv, PaidBeforeServed, ServedPaid, Entitled, Settled
<1>. QED
    BY <1>1, Invariance, PTL

(* A context has one entry in the timeout heap or none, hn says which, and  *)
(* no entry outlives its context, until a transfer falls short or a code    *)
(* expires.                                                                 *)
THEOREM HeapSafety == Spec => []HeapExact
<1>1. Inv => HeapExact
    BY DEF Inv
<1>. QED
    BY <1>1, Invariance, PTL

(* The list of contexts is a proper list of exactly those whose in_list is  *)
(* set, until begin_payment inserts into a list with elements.              *)
THEOREM ListSafety == Spec => []ListExact
<1>1. Inv => ListExact
    BY DEF Inv
<1>. QED
    BY <1>1, Invariance, PTL

(* No assertion fails but over what begin_payment, a short transfer, an     *)
(* expired code or a TOTP request without response has led to.              *)
THEOREM AssertionSafety == Spec => []AssertionsHold
<1>1. Inv => AssertionsHold
    BY DEF Inv
<1>. QED
    BY <1>1, Invariance, PTL
=============================================================================
