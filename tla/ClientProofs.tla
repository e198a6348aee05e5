---------------------------------- MODULE ClientProofs ----------------------------------
(* For any number of workers and any calls, the crypto pool counts its busy workers right,  *)
(* lets no call wait while a worker is free, and loses no call. For any number of           *)
(* connections and transactions, whoever has the lock of the local database is going to     *)
(* release it.                                                                              *)
EXTENDS TaskLoop, IndexedStore, FiniteSetTheorems, NaturalsInduction, WellFoundedInduction,
        TLAPS

TasksSpec == TasksInit /\ [][TasksNext]_taskVars

Slot == [item : Calls \cup {Nobody}, alive : BOOLEAN, posted : BOOLEAN, timer : BOOLEAN]
Busy == {w \in Workers : slots[w].item # Nobody}

PoolTypes ==
    /\ slots \in [Workers -> Slot]
    /\ queues \in [Priorities -> Seq(Calls)]
    /\ numBusy \in 0 .. Concurrency
    /\ stopped \in BOOLEAN
    /\ promise \in [Calls -> {"none", "pending", "resolved", "rejected"}]
    /\ unanswered \subseteq Calls

(* Where a call is: it waits, or a worker has it. A worker that has a call runs; in a pool that *)
(* was stopped none does.                                                             *)
Waits(c) == \E p \in Priorities : \E i \in DOMAIN queues[p] : queues[p][i] = c
Held(c) == \E w \in Workers : slots[w].item = c
BusyAlive == \A w \in Workers : slots[w].item # Nobody => slots[w].alive
StoppedIdle == stopped => \A w \in Workers : slots[w] = Free

(* A call whose promise is open has a worker, waits, or is known to stay without an answer. *)
NoCallLost ==
    \A c \in Calls : promise[c] = "pending" => c \in unanswered \/ Waits(c) \/ Held(c)

(* A call is in one place at most, and its promise is open while it is there.         *)
InOnePlace ==
    /\ \A c \in Calls : Held(c) \/ Waits(c) => promise[c] = "pending" /\ ~(Held(c) /\ Waits(c))
    /\ \A v, w \in Busy : slots[v].item = slots[w].item => v = w
    /\ \A p, q \in Priorities : \A i \in DOMAIN queues[p], j \in DOMAIN queues[q] :
          queues[p][i] = queues[q][j] => p = q /\ i = j
CallsOnce == ~stopped => InOnePlace

(* The one call that the loop has made is that of the task it waits for.              *)
LoopType ==
    /\ loop = [pc |-> loop.pc, list |-> loop.list, first |-> loop.first,
                stopWhenDone |-> loop.stopWhenDone]
    /\ \A t \in Tasks : promise[t] # "none" => loop.pc = "await" /\ t = Head(loop.list)

PoolInv ==
    PoolTypes /\ BusyAlive /\ StoppedIdle /\ NoCallLost /\ CallsOnce /\ PoolBusy

TInv == PoolInv /\ LoopType

-----------------------------------------------------------------------------
(* The workers are numbers, and there are as many as Concurrency says.                *)
LEMMA PoolConstants ==
    Concurrency \in Nat /\ Nobody \notin Calls /\ Tasks \subseteq Calls
        /\ Priorities \subseteq 0 .. 4 /\ \A c \in Calls : Priority[c] \in Priorities
BY PoolAssumption, TaskAssumption DEF Priorities

(* Any set of numbers has a least one.                                                *)
LEMMA LeastNatural ==
    ASSUME NEW S \in SUBSET Nat, S # {}
    PROVE  \E n \in S : \A m \in S : n <= m
<1>. DEFINE R == {ss \in Nat \X Nat : ss[1] < ss[2]}
<1>1. IsWellFoundedOn({ss \in Nat \X Nat : ss[1] < ss[2]}, Nat)
    BY NatLessThanWellFounded, Zenon DEF OpToRel
<1>2. \E n \in S : \A m \in S : ~ (<<m, n>> \in R)
    <2>1. IsWellFoundedOn(R, Nat)
        BY <1>1
    <2>. HIDE DEF R
    <2>. QED
        BY <2>1, WFMin
<1>3. PICK n \in S : \A m \in S : ~ (<<m, n>> \in R)
    BY <1>2
<1>4. ASSUME NEW m \in S PROVE n <= m
    <2>1. ~ (<<m, n>> \in R) /\ <<m, n>> \in Nat \X Nat
        BY <1>3
    <2>. QED
        BY <2>1
<1>. QED
    BY <1>4

(* Some queue in which a call waits has the highest priority.                         *)
LEMMA HighestWaits ==
    ASSUME Waiting # {}
    PROVE  Highest \in Waiting
<1>1. Waiting \subseteq 0 .. 4
    BY PoolConstants DEF Waiting
<1>. DEFINE W == Waiting
<1>2. \E p \in W : \A q \in W : q <= p
    <2>. HIDE DEF W
    <2>1. W # {} /\ W \subseteq {0, 1, 2, 3, 4}
        <3>1. 0 .. 4 = {0, 1, 2, 3, 4}
            OBVIOUS
        <3>. QED
            BY <1>1, <3>1 DEF W
    <2>2. CASE 4 \in W
        BY <2>1, <2>2
    <2>3. CASE 3 \in W /\ 4 \notin W
        BY <2>1, <2>3
    <2>4. CASE 2 \in W /\ 3 \notin W /\ 4 \notin W
        BY <2>1, <2>4
    <2>5. CASE 1 \in W /\ 2 \notin W /\ 3 \notin W /\ 4 \notin W
        BY <2>1, <2>5
    <2>6. CASE W = {0}
        BY <2>6
    <2>. QED
        BY <2>1, <2>2, <2>3, <2>4, <2>5, <2>6
<1>. QED
    BY <1>2 DEF Highest

(* While a worker is free, there is a first one that is.                              *)
LEMMA FirstFree ==
    ASSUME PoolTypes, Busy # Workers
    PROVE  LET w == CHOOSE x \in Workers : slots[x].item = Nobody
                                           /\ \A y \in 1 .. (x - 1) : slots[y].item # Nobody
           IN w \in Workers /\ slots[w].item = Nobody
<1>. DEFINE S == {x \in Workers : slots[x].item = Nobody}
<1>1. S \in SUBSET Nat /\ S # {}
    BY PoolConstants DEF Workers, Busy
<1>2. PICK x \in S : \A m \in S : x <= m
    BY <1>1, LeastNatural
<1>3. ASSUME NEW y \in 1 .. (x - 1) PROVE slots[y].item # Nobody
    <2>1. x \in Nat /\ y \in Nat /\ y < x /\ y \in Workers
        BY <1>2, PoolConstants DEF Workers
    <2>2. y \notin S
        BY <1>2, <2>1
    <2>. QED
        BY <2>1, <2>2
<1>4. x \in Workers /\ slots[x].item = Nobody
    OBVIOUS
<1>. QED
    BY <1>3, <1>4

(* What the workers are counted by                                                    *)
LEMMA BusyFinite ==
    /\ IsFiniteSet(Busy) /\ IsFiniteSet(Workers)
    /\ Cardinality(Workers) = Concurrency
    /\ Cardinality(Busy) \in Nat /\ Cardinality(Busy) <= Concurrency
    /\ Busy # Workers => Cardinality(Busy) < Concurrency
<1>1. IsFiniteSet(Workers) /\ Cardinality(Workers) = Concurrency
    BY FS_Interval, PoolConstants DEF Workers
<1>2. Busy \subseteq Workers
    BY DEF Busy
<1>3. /\ IsFiniteSet(Busy) /\ Cardinality(Busy) <= Cardinality(Workers)
      /\ Cardinality(Busy) = Cardinality(Workers) => Busy = Workers
    BY <1>1, <1>2, FS_Subset
<1>4. Cardinality(Busy) \in Nat
    BY <1>3, FS_CardinalityType
<1>. QED
    BY <1>1, <1>3, <1>4, PoolConstants

-----------------------------------------------------------------------------
(* What findWork does for a worker that is freed: it gets the first call of a queue in which one *)
(* waits, or none waits.                                                              *)
Goes(w, freed, p) ==
    /\ queues[p] # <<>>
    /\ queues' = [queues EXCEPT ![p] = Tail(@)]
    /\ slots' = [slots EXCEPT ![w] = [item |-> Head(queues[p]), alive |-> TRUE, posted |-> FALSE, timer |-> TRUE]]
    /\ numBusy' = numBusy

LEMMA FindWorkCases ==
    ASSUME PoolTypes, NEW w \in Workers, NEW freed \in Slot, FindWork(w, freed)
    PROVE  \/ /\ Waiting = {} /\ slots' = [slots EXCEPT ![w] = freed]
              /\ queues' = queues /\ numBusy' = numBusy - 1
           \/ \E p \in Priorities : Goes(w, freed, p)
<1>1. CASE Waiting = {}
    BY <1>1 DEF FindWork
<1>2. CASE Waiting # {}
    <2>1. Highest \in Priorities /\ queues[Highest] # <<>>
        BY <1>2, HighestWaits DEF Waiting
    <2>. DEFINE p == Highest
    <2>2. /\ queues' = [queues EXCEPT ![p] = Tail(@)]
          /\ slots' = Woken([slots EXCEPT ![w] = freed], <<w, Head(queues[p])>>)
          /\ numBusy' = numBusy
        BY <1>2 DEF FindWork
    <2>. HIDE DEF p
    <2>3. Woken([slots EXCEPT ![w] = freed], <<w, Head(queues[p])>>)
            = [slots EXCEPT ![w] = [item |-> Head(queues[p]), alive |-> TRUE, posted |-> FALSE, timer |-> TRUE]]
        BY DEF Woken, PoolTypes
    <2>4. Goes(w, freed, p)
        BY <2>1, <2>2, <2>3 DEF Goes, p
    <2>. QED
        BY <2>1, <2>4 DEF p
<1>. QED
    BY <1>1, <1>2

(* What is left of a queue is in it, one place further.                               *)
LEMMA TailOf ==
    ASSUME NEW s \in Seq(Calls), s # <<>>
    PROVE  /\ Head(s) \in Calls /\ Tail(s) \in Seq(Calls) /\ Head(s) = s[1] /\ 1 \in DOMAIN s
           /\ \A i \in DOMAIN Tail(s) : i + 1 \in DOMAIN s /\ Tail(s)[i] = s[i + 1] /\ i \in Nat /\ i >= 1
           /\ \A i \in DOMAIN s : i # 1 => i - 1 \in DOMAIN Tail(s) /\ Tail(s)[i - 1] = s[i]
OBVIOUS

(* A worker is freed of its call, which is answered; it may get another one.          *)
LEMMA ReleaseStep ==
    ASSUME PoolInv, NEW w \in Workers, NEW c, slots[w].item = c, c # Nobody,
           NEW freed \in Slot, freed.item = Nobody, FindWork(w, freed),
           NEW answer \in {"resolved", "rejected"},
           promise' = [promise EXCEPT ![c] = answer],
           unanswered' \in {unanswered, unanswered \ {c}}, stopped' = stopped
    PROVE  PoolInv'
<1>1. c \in Calls /\ c # Nobody /\ slots[w].alive /\ ~stopped /\ Held(c)
    <2>1. slots[w] \in Slot
        BY DEF PoolInv, PoolTypes
    <2>2. c \in Calls
        BY <2>1 DEF Slot
    <2>. QED
        BY <2>2 DEF PoolInv, BusyAlive, StoppedIdle, Free, Held
<1>2. /\ promise[c] = "pending" /\ ~Waits(c)
      /\ \A v \in Workers : slots[v].item = c => v = w
    BY <1>1 DEF PoolInv, CallsOnce, InOnePlace, Busy
<1>3. PoolTypes /\ InOnePlace /\ NoCallLost /\ BusyAlive
    BY <1>1 DEF PoolInv, CallsOnce
<1>4. ~stopped'
    BY <1>1
<1>5. /\ promise' \in [Calls -> {"none", "pending", "resolved", "rejected"}]
      /\ promise'[c] = answer /\ \A d \in Calls \ {c} : promise'[d] = promise[d]
      /\ unanswered' \subseteq Calls
      /\ \A d \in Calls \ {c} : d \in unanswered <=> d \in unanswered'
    BY <1>1, <1>3 DEF PoolTypes
<1>6. numBusy = Cardinality(Busy) /\ (Waiting # {} => numBusy = Concurrency) /\ numBusy \in 0 .. Concurrency
    BY <1>1 DEF PoolInv, PoolBusy, Busy, PoolTypes
<1>7. w \in Busy
    BY DEF Busy
<1>8. CASE /\ Waiting = {} /\ slots' = [slots EXCEPT ![w] = freed]
           /\ queues' = queues /\ numBusy' = numBusy - 1
    <2>1. slots' \in [Workers -> Slot] /\ slots'[w] = freed /\ \A v \in Workers \ {w} : slots'[v] = slots[v]
        BY <1>3, <1>8 DEF PoolTypes
    <2>2. Busy' = Busy \ {w} /\ Workers' = Workers
        BY <2>1 DEF Busy, Workers
    <2>3. Cardinality(Busy') = Cardinality(Busy) - 1 /\ Cardinality(Busy) > 0
        <3>1. Cardinality(Busy \ {w}) = Cardinality(Busy) - 1 /\ IsFiniteSet(Busy \ {w})
            BY <1>7, BusyFinite, FS_RemoveElement
        <3>2. Cardinality(Busy \ {w}) \in Nat
            BY <3>1, FS_CardinalityType
        <3>. QED
            BY <2>2, <3>1, <3>2, BusyFinite
    <2>4. PoolTypes'
        BY <1>1, <1>3, <1>4, <1>5, <1>6, <1>8, <2>1, <2>3, PoolConstants DEF PoolTypes
    <2>5. BusyAlive' /\ StoppedIdle'
        BY <1>3, <1>4, <2>1 DEF BusyAlive, StoppedIdle
    <2>6. \A d : Waits(d)' <=> Waits(d)
        BY <1>8 DEF Waits
    <2>7. \A d \in Calls \ {c} : Held(d)' <=> Held(d)
        BY <1>1, <2>1, PoolConstants DEF Held
    <2>8. NoCallLost'
        BY <1>3, <1>5, <2>6, <2>7 DEF NoCallLost
    <2>9. InOnePlace'
        <3>0. ~Held(c)'
            BY <1>1, <1>2, <2>1 DEF Held
        <3>1. \A d \in Calls : (Held(d) \/ Waits(d))' => /\ promise'[d] = "pending" /\ ~(Held(d) /\ Waits(d))'
            BY <1>2, <1>3, <1>5, <2>6, <2>7, <3>0 DEF InOnePlace
        <3>2. \A u, v \in Busy' : slots'[u].item = slots'[v].item => u = v
            BY <1>3, <2>1, <2>2 DEF InOnePlace, Busy
        <3>. QED
            BY <1>3, <1>8, <3>1, <3>2 DEF InOnePlace
    <2>10. PoolBusy'
        BY <1>6, <1>8, <2>2, <2>3 DEF PoolBusy, Busy, Waiting
    <2>. QED
        BY <2>4, <2>5, <2>8, <2>9, <2>10 DEF PoolInv, CallsOnce
<1>9. ASSUME NEW p \in Priorities, Goes(w, freed, p)
      PROVE  PoolInv'
    <2>. PICK s : s = queues[p]
        OBVIOUS
    <2>. PICK d : d = Head(s)
        OBVIOUS
    <2>1. s \in Seq(Calls) /\ s # <<>> /\ d \in Calls /\ Tail(s) \in Seq(Calls) /\ d = s[1] /\ 1 \in DOMAIN s
        BY <1>3, <1>9, TailOf DEF PoolTypes, Goes
    <2>2. /\ queues' \in [Priorities -> Seq(Calls)] /\ queues'[p] = Tail(s)
          /\ \A q \in Priorities \ {p} : queues'[q] = queues[q]
        BY <1>3, <1>9, <2>1 DEF PoolTypes, Goes
    <2>3. /\ slots' \in [Workers -> Slot] /\ slots'[w].item = d /\ slots'[w].alive
          /\ \A v \in Workers \ {w} : slots'[v] = slots[v]
        BY <1>3, <1>9, <2>1 DEF PoolTypes, Goes, Slot
    <2>4. Waits(d) /\ ~Held(d) /\ promise[d] = "pending" /\ d # c /\ d # Nobody
        BY <1>2, <1>3, <2>1, PoolConstants DEF Waits, InOnePlace
    <2>5. Busy' = Busy /\ Workers' = Workers
        BY <1>7, <2>3, <2>4 DEF Busy, Workers
    <2>6. PoolTypes'
        BY <1>1, <1>3, <1>4, <1>5, <1>6, <1>9, <2>2, <2>3 DEF PoolTypes, Goes
    <2>7. BusyAlive' /\ StoppedIdle'
        BY <1>3, <1>4, <2>3 DEF BusyAlive, StoppedIdle
    <2>8. \A q \in Priorities : \A i \in DOMAIN queues'[q] : \E j \in DOMAIN queues[q] :
              queues'[q][i] = queues[q][j] /\ (q = p => i \in Nat /\ i >= 1 /\ j = i + 1) /\ (q # p => j = i)
        <3>1. ASSUME NEW i \in DOMAIN Tail(s)
              PROVE i + 1 \in DOMAIN s /\ Tail(s)[i] = s[i + 1] /\ i \in Nat /\ i >= 1
            BY <2>1, TailOf
        <3>. QED
            BY <2>2, <3>1, ZenonT(60)
    <2>9. \A e : Waits(e) <=> e = d \/ Waits(e)'
        <3>1. ASSUME NEW e, Waits(e)' PROVE Waits(e)
            BY <2>8, <3>1 DEF Waits
        <3>2. ASSUME NEW e, Waits(e), e # d PROVE Waits(e)'
            <4>1. PICK q \in Priorities : \E i \in DOMAIN queues[q] : queues[q][i] = e
                BY <3>2 DEF Waits
            <4>. PICK i \in DOMAIN queues[q] : queues[q][i] = e
                BY <4>1
            <4>2. CASE q = p
                <5>1. i # 1
                    BY <2>1, <3>2, <4>1, <4>2
                <5>2. i - 1 \in DOMAIN Tail(s) /\ Tail(s)[i - 1] = s[i]
                    BY <2>1, <4>1, <4>2, <5>1, TailOf
                <5>. QED
                    BY <2>2, <4>1, <4>2, <5>2 DEF Waits
            <4>3. CASE q # p
                BY <2>2, <4>1, <4>3 DEF Waits
            <4>. QED
                BY <4>2, <4>3
        <3>. QED
            BY <2>4, <3>1, <3>2
    <2>10. ~Waits(d)'
        <3>1. ASSUME NEW q \in Priorities, NEW i \in DOMAIN queues'[q], queues'[q][i] = d PROVE FALSE
            <4>1. PICK j \in DOMAIN queues[q] : queues'[q][i] = queues[q][j]
                     /\ (q = p => i \in Nat /\ i >= 1 /\ j = i + 1)
                BY <2>8
            <4>2. queues[q][j] = queues[p][1]
                BY <2>1, <3>1, <4>1
            <4>3. q = p /\ j = 1
                BY <1>3, <2>1, <4>2 DEF InOnePlace
            <4>. QED
                BY <4>1, <4>3
        <3>. QED
            BY <3>1 DEF Waits
    <2>11. \A e : e # Nobody => (Held(e)' <=> e = d \/ (e # c /\ Held(e)))
        BY <1>2, <2>3, <2>5 DEF Held
    <2>12. NoCallLost'
        BY <1>3, <1>5, <2>9, <2>11, PoolConstants DEF NoCallLost
    <2>13. InOnePlace'
        <3>1. \A e \in Calls : (Held(e) \/ Waits(e))' => /\ promise'[e] = "pending" /\ ~(Held(e) /\ Waits(e))'
            BY <1>2, <1>3, <1>5, <2>4, <2>9, <2>10, <2>11, PoolConstants DEF InOnePlace
        <3>2. \A u, v \in Busy' : slots'[u].item = slots'[v].item => u = v
            BY <1>3, <2>3, <2>4, <2>5 DEF InOnePlace, Busy, Held
        <3>3. ASSUME NEW q \in Priorities, NEW r \in Priorities,
                     NEW i \in DOMAIN queues'[q], NEW k \in DOMAIN queues'[r],
                     queues'[q][i] = queues'[r][k]
              PROVE  q = r /\ i = k
            <4>1. PICK j \in DOMAIN queues[q] : queues'[q][i] = queues[q][j]
                     /\ (q = p => i \in Nat /\ i >= 1 /\ j = i + 1) /\ (q # p => j = i)
                BY <2>8
            <4>2. PICK l \in DOMAIN queues[r] : queues'[r][k] = queues[r][l]
                     /\ (r = p => k \in Nat /\ k >= 1 /\ l = k + 1) /\ (r # p => l = k)
                BY <2>8
            <4>3. queues[q][j] = queues[r][l]
                <5>1. queues'[q][i] = queues'[r][k]
                    BY <3>3
                <5>. QED
                    BY <4>1, <4>2, <5>1
            <4>4. q = r /\ j = l
                <5>1. \A f, g \in Priorities : \A x \in DOMAIN queues[f], y \in DOMAIN queues[g] :
                        queues[f][x] = queues[g][y] => f = g /\ x = y
                    BY <1>3 DEF InOnePlace
                <5>. QED
                    BY <4>3, <5>1
            <4>. QED
                BY <4>1, <4>2, <4>4
        <3>4. Priorities' = Priorities
            BY DEF Priorities
        <3>. QED
            BY <3>1, <3>2, <3>3, <3>4 DEF InOnePlace
    <2>14. PoolBusy'
        <3>1. Waiting # {}
            BY <1>9 DEF Waiting, Goes
        <3>2. numBusy' = numBusy /\ numBusy = Concurrency
            BY <1>6, <1>9, <3>1 DEF Goes
        <3>. QED
            BY <1>6, <2>5, <3>2 DEF PoolBusy, Busy
    <2>. QED
        BY <2>6, <2>7, <2>12, <2>13, <2>14 DEF PoolInv, CallsOnce
<1>. QED
    BY <1>3, <1>8, <1>9, FindWorkCases

(* A call is made: it waits, or the first free worker gets it, or the pool was stopped. *)
LEMMA CallStep ==
    ASSUME PoolInv, NEW c \in Calls, promise[c] = "none", DoRpc(c), stopped' = stopped
    PROVE  /\ PoolInv'
           /\ \A d : d # c => promise'[d] = promise[d]
<1>. PICK p \in Priorities : p = Priority[c]
    BY PoolConstants
<1>1. PoolTypes /\ NoCallLost /\ BusyAlive /\ StoppedIdle /\ c # Nobody
    BY PoolConstants DEF PoolInv
<1>2. promise' = [promise EXCEPT ![c] = "pending"]
    BY DEF DoRpc
<1>3. /\ promise' \in [Calls -> {"none", "pending", "resolved", "rejected"}]
      /\ promise'[c] = "pending" /\ \A d \in Calls \ {c} : promise'[d] = promise[d]
    BY <1>1, <1>2 DEF PoolTypes
<1>4. \A d : d # c => promise'[d] = promise[d]
    BY <1>2, <1>1 DEF PoolTypes
<1>5. Workers' = Workers /\ Priorities' = Priorities
    BY DEF Workers, Priorities
<1>6. ~stopped => InOnePlace /\ ~Waits(c) /\ ~Held(c)
    BY DEF PoolInv, CallsOnce, InOnePlace
<1>7. CASE numBusy = Concurrency
    <2>1. /\ queues' = [queues EXCEPT ![p] = Append(@, c)]
          /\ unanswered' = IF stopped THEN unanswered \cup {c} ELSE unanswered
          /\ slots' = slots /\ numBusy' = numBusy
        BY <1>7 DEF DoRpc
    <2>. PICK s : s = queues[p]
        OBVIOUS
    <2>. PICK t : t = Append(s, c)
        OBVIOUS
    <2>2. /\ s \in Seq(Calls) /\ t \in Seq(Calls)
          /\ DOMAIN t = DOMAIN s \cup {Len(s) + 1} /\ Len(s) + 1 \notin DOMAIN s
          /\ t[Len(s) + 1] = c /\ \A i \in DOMAIN s : t[i] = s[i]
        BY <1>1 DEF PoolTypes
    <2>3. /\ queues' \in [Priorities -> Seq(Calls)] /\ queues'[p] = t
          /\ \A q \in Priorities \ {p} : queues'[q] = queues[q]
        BY <1>1, <2>1, <2>2 DEF PoolTypes
    <2>4. PoolTypes'
        BY <1>1, <1>3, <1>5, <2>1, <2>3 DEF PoolTypes
    <2>5. BusyAlive' /\ StoppedIdle'
        BY <1>1, <2>1 DEF BusyAlive, StoppedIdle
    <2>6. \A d : Waits(d)' <=> d = c \/ Waits(d)
        <3>1. ASSUME NEW d, Waits(d)' PROVE d = c \/ Waits(d)
            <4>1. PICK q \in Priorities : \E i \in DOMAIN queues'[q] : queues'[q][i] = d
                BY <1>5, <3>1 DEF Waits
            <4>. PICK i \in DOMAIN queues'[q] : queues'[q][i] = d
                BY <4>1
            <4>2. CASE q = p
                BY <2>2, <2>3, <4>2 DEF Waits
            <4>3. CASE q # p
                BY <2>3, <4>3 DEF Waits
            <4>. QED
                BY <4>2, <4>3
        <3>2. Waits(c)'
            <4>1. Len(s) + 1 \in DOMAIN queues'[p] /\ queues'[p][Len(s) + 1] = c
                BY <2>2, <2>3
            <4>. QED
                BY <1>5, <4>1 DEF Waits
        <3>3. ASSUME NEW d, Waits(d) PROVE Waits(d)'
            <4>1. PICK q \in Priorities : \E i \in DOMAIN queues[q] : queues[q][i] = d
                BY <3>3 DEF Waits
            <4>. PICK i \in DOMAIN queues[q] : queues[q][i] = d
                BY <4>1
            <4>2. i \in DOMAIN queues'[q] /\ queues'[q][i] = d
                BY <2>2, <2>3
            <4>. QED
                BY <1>5, <4>2 DEF Waits
        <3>. QED
            BY <3>1, <3>2, <3>3
    <2>7. \A d : Held(d)' <=> Held(d)
        BY <2>1 DEF Held
    <2>8. NoCallLost'
        BY <1>1, <1>3, <2>1, <2>6, <2>7 DEF NoCallLost
    <2>9. CallsOnce'
        <3>. SUFFICES ASSUME ~stopped PROVE InOnePlace'
            BY DEF CallsOnce
        <3>1. \A d \in Calls : (Held(d) \/ Waits(d))' => /\ promise'[d] = "pending" /\ ~(Held(d) /\ Waits(d))'
            BY <1>3, <1>6, <2>6, <2>7 DEF InOnePlace
        <3>2. \A u, v \in Busy' : slots'[u].item = slots'[v].item => u = v
            BY <1>5, <1>6, <2>1 DEF InOnePlace, Busy
        <3>3. ASSUME NEW q \in Priorities, NEW i \in DOMAIN queues'[q]
              PROVE  \/ i \in DOMAIN queues[q] /\ queues'[q][i] = queues[q][i] /\ queues[q][i] # c
                     \/ q = p /\ i = Len(s) + 1 /\ queues'[q][i] = c
            <4>1. \A j \in DOMAIN queues[q] : queues[q][j] # c
                BY <1>6 DEF Waits
            <4>2. CASE q # p
                <5>1. queues'[q] = queues[q]
                    BY <2>3, <4>2
                <5>2. i \in DOMAIN queues[q] /\ queues'[q][i] = queues[q][i]
                    BY <3>3, <5>1
                <5>. QED
                    BY <4>1, <5>2
            <4>3. CASE q = p
                <5>1. queues'[q] = t /\ queues[q] = s
                    BY <2>3, <4>3
                <5>2. i \in DOMAIN t
                    BY <3>3, <5>1
                <5>3. CASE i \in DOMAIN s
                    BY <2>2, <4>1, <5>1, <5>3
                <5>4. CASE i = Len(s) + 1
                    BY <2>2, <4>3, <5>1, <5>4
                <5>. QED
                    BY <2>2, <5>2, <5>3, <5>4
            <4>. QED
                BY <4>2, <4>3
        <3>4. ASSUME NEW q \in Priorities, NEW r \in Priorities,
                     NEW i \in DOMAIN queues'[q], NEW k \in DOMAIN queues'[r],
                     queues'[q][i] = queues'[r][k]
              PROVE  q = r /\ i = k
            <4>1. CASE queues'[q][i] = c
                BY <3>3, <3>4, <4>1
            <4>2. CASE queues'[q][i] # c
                <5>1. /\ i \in DOMAIN queues[q] /\ queues'[q][i] = queues[q][i]
                      /\ k \in DOMAIN queues[r] /\ queues'[r][k] = queues[r][k]
                    BY <3>3, <3>4, <4>2
                <5>2. \A f, g \in Priorities : \A x \in DOMAIN queues[f], y \in DOMAIN queues[g] :
                        queues[f][x] = queues[g][y] => f = g /\ x = y
                    BY <1>6 DEF InOnePlace
                <5>3. queues[q][i] = queues[r][k]
                    BY <3>4, <5>1
                <5>. QED
                    BY <5>1, <5>2, <5>3
            <4>. QED
                BY <4>1, <4>2
        <3>. QED
            BY <1>5, <3>1, <3>2, <3>4 DEF InOnePlace
    <2>10. PoolBusy'
        BY <1>5, <1>7, <2>1 DEF PoolInv, PoolBusy
    <2>. QED
        BY <1>4, <2>4, <2>5, <2>8, <2>9, <2>10 DEF PoolInv
<1>8. CASE numBusy # Concurrency /\ stopped
    <2>1. unanswered' = unanswered \cup {c} /\ UNCHANGED <<slots, queues, numBusy>>
        BY <1>8 DEF DoRpc
    <2>2. PoolTypes'
        BY <1>1, <1>3, <1>5, <2>1 DEF PoolTypes
    <2>3. NoCallLost'
        BY <1>1, <1>3, <2>1 DEF NoCallLost, Waits, Held
    <2>. QED
        BY <1>1, <1>4, <1>8, <2>1, <2>2, <2>3 DEF PoolInv, BusyAlive, StoppedIdle, CallsOnce, PoolBusy
<1>9. CASE numBusy # Concurrency /\ ~stopped
    <2>0. numBusy = Cardinality(Busy) /\ Waiting = {} /\ numBusy \in 0 .. Concurrency
        BY <1>9 DEF PoolInv, PoolBusy, Busy, PoolTypes
    <2>1. Busy # Workers
        BY <1>9, <2>0, BusyFinite
    <2>2. PICK w \in Workers : /\ slots[w].item = Nobody /\ slots' = Woken(slots, <<w, c>>)
                               /\ numBusy' = numBusy + 1 /\ UNCHANGED <<queues, unanswered>>
        BY <1>1, <1>9, <2>1, FirstFree DEF DoRpc
    <2>3. /\ slots' = [slots EXCEPT ![w] = [item |-> c, alive |-> TRUE, posted |-> FALSE, timer |-> TRUE]]
        BY <2>2 DEF Woken
    <2>4. /\ slots' \in [Workers -> Slot] /\ slots'[w].item = c /\ slots'[w].alive
          /\ \A v \in Workers \ {w} : slots'[v] = slots[v]
        BY <1>1, <2>3 DEF PoolTypes, Slot
    <2>5. Busy' = Busy \cup {w} /\ w \notin Busy
        BY <1>1, <1>5, <2>2, <2>4 DEF Busy
    <2>6. Cardinality(Busy') = Cardinality(Busy) + 1
        BY <2>5, BusyFinite, FS_AddElement
    <2>7. PoolTypes'
        <3>1. numBusy' \in 0 .. Concurrency
            BY <1>9, <2>0, <2>2, PoolConstants
        <3>. QED
            BY <1>1, <1>3, <1>5, <2>2, <2>4, <3>1 DEF PoolTypes
    <2>8. BusyAlive' /\ StoppedIdle'
        BY <1>1, <1>5, <1>9, <2>4 DEF BusyAlive, StoppedIdle
    <2>9. \A d : Waits(d)' <=> Waits(d)
        BY <2>2 DEF Waits
    <2>10. \A d : d # Nobody => (Held(d)' <=> d = c \/ Held(d))
        BY <1>5, <2>2, <2>4 DEF Held
    <2>11. NoCallLost'
        BY <1>1, <1>3, <2>2, <2>9, <2>10, PoolConstants DEF NoCallLost
    <2>12. InOnePlace'
        <3>1. \A d \in Calls : (Held(d) \/ Waits(d))' => /\ promise'[d] = "pending" /\ ~(Held(d) /\ Waits(d))'
            BY <1>3, <1>6, <1>9, <2>9, <2>10, PoolConstants DEF InOnePlace
        <3>2. \A u, v \in Busy' : slots'[u].item = slots'[v].item => u = v
            BY <1>1, <1>6, <1>9, <2>4, <2>5 DEF InOnePlace, Busy, Held
        <3>. QED
            BY <1>5, <1>6, <1>9, <2>2, <3>1, <3>2 DEF InOnePlace
    <2>13. PoolBusy'
        <3>1. Waiting' = {}
            BY <2>0, <2>2 DEF Waiting, Priorities
        <3>. QED
            BY <2>0, <2>2, <2>6, <3>1 DEF PoolBusy, Busy
    <2>. QED
        BY <1>4, <2>7, <2>8, <2>11, <2>12, <2>13 DEF PoolInv, CallsOnce
<1>. QED
    BY <1>7, <1>8, <1>9

-----------------------------------------------------------------------------
(* At the start no call is made and every worker is free.                             *)
LEMMA InitTInv == TasksInit => TInv
<1>. SUFFICES ASSUME TasksInit PROVE TInv
    OBVIOUS
<1>1. /\ slots = [w \in Workers |-> Free] /\ queues = [p \in Priorities |-> <<>>]
      /\ numBusy = 0 /\ stopped = FALSE /\ unanswered = {} /\ promise = [c \in Calls |-> "none"]
    BY DEF TasksInit, PoolInit
<1>2. PoolTypes
    <2>1. slots \in [Workers -> Slot]
        BY <1>1 DEF Free, Slot
    <2>2. queues \in [Priorities -> Seq(Calls)]
        BY <1>1
    <2>3. numBusy \in 0 .. Concurrency
        BY <1>1, PoolConstants
    <2>. QED
        BY <1>1, <2>1, <2>2, <2>3 DEF PoolTypes
<1>3. \A w \in Workers : slots[w].item = Nobody
    BY <1>1 DEF Free
<1>4. \A c : ~Waits(c)
    BY <1>1 DEF Waits
<1>5. BusyAlive /\ StoppedIdle
    BY <1>1, <1>3 DEF BusyAlive, StoppedIdle
<1>6. NoCallLost
    BY <1>1 DEF NoCallLost
<1>7. InOnePlace
    BY <1>1, <1>3, <1>4, PoolConstants DEF InOnePlace, Held, Busy
<1>8. PoolBusy
    <2>1. Busy = {} /\ Waiting = {}
        BY <1>1, <1>3 DEF Busy, Waiting
    <2>. QED
        BY <1>1, <2>1, FS_EmptySet DEF PoolBusy, Busy
<1>9. LoopType
    BY <1>1, PoolConstants DEF TasksInit, LoopType
<1>. QED
    BY <1>2, <1>5, <1>6, <1>7, <1>8, <1>9 DEF TInv, PoolInv, CallsOnce

(* A worker stays with its call, or without one.                                      *)
LEMMA SameItems ==
    ASSUME PoolInv, NEW w \in Workers, NEW s \in Slot, slots' = [slots EXCEPT ![w] = s],
           s.item = slots[w].item, s.item # Nobody => s.alive,
           stopped => s = Free, UNCHANGED <<queues, numBusy, stopped>>,
           \/ UNCHANGED <<promise, unanswered>>
           \/ promise' = promise /\ \E c \in Calls : unanswered' = unanswered \cup {c}
           \/ promise' = promise /\ unanswered' = unanswered \ {Nobody}
    PROVE  PoolInv'
<1>1. PoolTypes /\ BusyAlive /\ StoppedIdle /\ NoCallLost
    BY DEF PoolInv
<1>2. /\ slots' \in [Workers -> Slot] /\ slots'[w] = s
      /\ \A v \in Workers \ {w} : slots'[v] = slots[v]
    BY <1>1 DEF PoolTypes
<1>3. \A v \in Workers : slots'[v].item = slots[v].item
    BY <1>2
<1>4. Busy' = Busy /\ Workers' = Workers /\ Priorities' = Priorities
    BY <1>3 DEF Busy, Workers, Priorities
<1>5. (\A c : Waits(c)' <=> Waits(c)) /\ (\A c : Held(c)' <=> Held(c))
    BY <1>3, <1>4 DEF Waits, Held
<1>6. unanswered' \subseteq Calls /\ promise' = promise /\ unanswered \ {Nobody} \subseteq unanswered'
    BY <1>1, PoolConstants DEF PoolTypes
<1>7. PoolTypes'
    BY <1>1, <1>2, <1>4, <1>6 DEF PoolTypes
<1>8. BusyAlive' /\ StoppedIdle'
    BY <1>1, <1>2, <1>4 DEF BusyAlive, StoppedIdle
<1>9. NoCallLost'
    BY <1>1, <1>5, <1>6, PoolConstants DEF NoCallLost
<1>10. CallsOnce'
    <2>. SUFFICES ASSUME ~stopped PROVE InOnePlace'
        BY DEF CallsOnce
    <2>. InOnePlace
        BY DEF PoolInv, CallsOnce
    <2>1. \A c \in Calls : (Held(c) \/ Waits(c))' => /\ promise'[c] = "pending" /\ ~(Held(c) /\ Waits(c))'
        BY <1>5, <1>6 DEF InOnePlace
    <2>. QED
        BY <1>3, <1>4, <2>1 DEF InOnePlace, Busy
<1>11. PoolBusy'
    BY <1>4 DEF PoolInv, PoolBusy, Busy, Waiting
<1>. QED
    BY <1>7, <1>8, <1>9, <1>10, <1>11 DEF PoolInv

(* The steps of the workers: create, done, error, timeout and exit.                   *)
LEMMA PoolStep ==
    ASSUME PoolInv, PoolNext
    PROVE  PoolInv' /\ \A c : promise[c] = "none" => promise'[c] = "none"
<1>1. PICK w \in Workers :
          \/ PostMessage(w) \/ HandleWorkerMessage(w) \/ OperationThrows(w)
          \/ HandleWorkerError(w) \/ TerminateIdle(w)
    BY DEF PoolNext
<1>2. /\ slots \in [Workers -> Slot] /\ slots[w] \in Slot /\ PoolTypes
      /\ slots[w].item # Nobody => slots[w].alive /\ slots[w].item \in Calls
      /\ stopped => slots[w] = Free
      /\ promise \in [Calls -> {"none", "pending", "resolved", "rejected"}]
    <2>1. slots[w] \in Slot
        BY DEF PoolInv, PoolTypes
    <2>. QED
        BY <2>1 DEF PoolInv, PoolTypes, BusyAlive, StoppedIdle, Slot
<1>. PICK s : s = slots[w]
    OBVIOUS
<1>3. CASE PostMessage(w)
    <2>. DEFINE x == [s EXCEPT !.posted = TRUE]
    <2>1. slots' = [slots EXCEPT ![w] = x]
        BY <1>2, <1>3 DEF PostMessage
    <2>2. x \in Slot /\ x.item = s.item /\ x.alive = s.alive
        BY <1>2 DEF Slot
    <2>3. ~stopped
        BY <1>2, <1>3 DEF PostMessage, Free
    <2>. HIDE DEF x
    <2>. QED
        BY <1>2, <1>3, <2>1, <2>2, <2>3, SameItems DEF PostMessage
<1>4. CASE HandleWorkerMessage(w)
    <2>. DEFINE x == [s EXCEPT !.item = Nobody, !.posted = FALSE]
    <2>. PICK c : c = s.item
        OBVIOUS
    <2>1. x \in Slot /\ x.item = Nobody
        BY <1>2 DEF Slot
    <2>2. /\ FindWork(w, x) /\ promise' = [promise EXCEPT ![c] = "resolved"] /\ c # Nobody
          /\ UNCHANGED <<stopped, unanswered>>
        BY <1>4 DEF HandleWorkerMessage, Working
    <2>. HIDE DEF x
    <2>3. PoolInv'
        BY <2>1, <2>2, ReleaseStep
    <2>4. promise[c] = "pending" /\ c \in Calls
        BY <1>2, <2>2 DEF PoolInv, CallsOnce, InOnePlace, Held, Free
    <2>. QED
        BY <1>2, <2>2, <2>3, <2>4
<1>5. CASE OperationThrows(w)
    <2>1. /\ s.item \in Calls /\ s.alive /\ unanswered' = unanswered \cup {s.item}
          /\ UNCHANGED <<slots, queues, numBusy, stopped, promise>>
        BY <1>2, <1>5 DEF OperationThrows, Working
    <2>2. slots' = [slots EXCEPT ![w] = s]
        BY <1>2, <2>1
    <2>. QED
        BY <1>2, <2>1, <2>2, SameItems
<1>6. CASE HandleWorkerError(w) /\ s.item = Nobody
    <2>. DEFINE x == [s EXCEPT !.alive = FALSE]
    <2>1. slots' = [slots EXCEPT ![w] = x]
        BY <1>2, <1>6 DEF HandleWorkerError
    <2>2. x \in Slot /\ x.item = Nobody
        BY <1>2, <1>6 DEF Slot
    <2>3. ~stopped
        BY <1>2, <1>6 DEF HandleWorkerError, Free
    <2>4. UNCHANGED <<queues, numBusy, stopped, promise>> /\ unanswered' = unanswered \ {Nobody}
        BY <1>6 DEF HandleWorkerError
    <2>. HIDE DEF x
    <2>. QED
        BY <1>2, <1>6, <2>1, <2>2, <2>3, <2>4, SameItems
<1>7. CASE HandleWorkerError(w) /\ s.item # Nobody
    <2>. DEFINE x == [s EXCEPT !.alive = FALSE, !.item = Nobody, !.posted = FALSE]
    <2>. PICK c : c = s.item
        OBVIOUS
    <2>1. x \in Slot /\ x.item = Nobody
        BY <1>2 DEF Slot
    <2>2. /\ FindWork(w, x) /\ promise' = [promise EXCEPT ![c] = "rejected"] /\ c # Nobody
          /\ stopped' = stopped /\ unanswered' = unanswered \ {c}
        BY <1>7 DEF HandleWorkerError
    <2>. HIDE DEF x
    <2>3. PoolInv'
        BY <2>1, <2>2, ReleaseStep
    <2>4. promise[c] = "pending" /\ c \in Calls
        BY <1>2, <2>2 DEF PoolInv, CallsOnce, InOnePlace, Held, Free
    <2>. QED
        BY <1>2, <2>2, <2>3, <2>4
<1>8. CASE TerminateIdle(w)
    <2>. DEFINE x == [s EXCEPT !.timer = FALSE, !.alive = @ /\ s.item # Nobody]
    <2>1. slots' = [slots EXCEPT ![w] = x]
        BY <1>2, <1>8 DEF TerminateIdle
    <2>2. x \in Slot /\ x.item = s.item /\ (x.item # Nobody => x.alive)
        BY <1>2 DEF Slot
    <2>3. ~stopped
        BY <1>2, <1>8 DEF TerminateIdle, Free
    <2>4. UNCHANGED <<queues, numBusy, stopped, promise, unanswered>>
        BY <1>8 DEF TerminateIdle
    <2>. HIDE DEF x
    <2>. QED
        BY <1>2, <2>1, <2>2, <2>3, <2>4, SameItems
<1>. QED
    BY <1>1, <1>3, <1>4, <1>5, <1>6, <1>7, <1>8

(* The pool is stopped: the calls of the workers are rejected, those that wait stay.  *)
LEMMA StopStep ==
    ASSUME PoolInv, StopPool
    PROVE  PoolInv' /\ \A c \in Calls : promise[c] = "none" => promise'[c] = "none"
<1>. PICK had : had = {slots[w].item : w \in {x \in Workers : slots[x].alive}} \ {Nobody}
    OBVIOUS
<1>1. /\ ~stopped /\ stopped' = TRUE /\ slots' = [w \in Workers |-> Free]
      /\ promise' = [c \in Calls |-> IF c \in had THEN "rejected" ELSE promise[c]]
      /\ unanswered' = (unanswered \ had) \cup {c \in Calls : Waits(c)}
      /\ UNCHANGED <<queues, numBusy>>
    BY DEF StopPool, Waits
<1>2. PoolTypes /\ NoCallLost /\ BusyAlive /\ InOnePlace
    BY <1>1 DEF PoolInv, CallsOnce
<1>3. \A c : c \in had => Held(c) /\ c # Nobody
    BY DEF Held
<1>4. \A c \in Calls : Held(c) => c \in had
    BY <1>2, PoolConstants DEF Held, BusyAlive
<1>5. Workers' = Workers /\ Priorities' = Priorities
    BY DEF Workers, Priorities
<1>6. PoolTypes'
    <2>1. slots' \in [Workers -> Slot]
        BY <1>1 DEF Slot, Free
    <2>. QED
        BY <1>1, <1>2, <1>5, <2>1 DEF PoolTypes
<1>7. BusyAlive' /\ StoppedIdle'
    BY <1>1, <1>5 DEF BusyAlive, StoppedIdle, Free
<1>8. NoCallLost'
    BY <1>1, <1>2, <1>4 DEF NoCallLost
<1>9. \A c \in Calls : promise[c] = "none" => promise'[c] = "none"
    BY <1>1, <1>2, <1>3 DEF InOnePlace
<1>. QED
    BY <1>1, <1>6, <1>7, <1>8, <1>9 DEF PoolInv, CallsOnce, PoolBusy

(* The answer of a call is taken, and it may be made again.                           *)
LEMMA TakenStep ==
    ASSUME PoolInv, promise' \in [Calls -> {"none", "pending", "resolved", "rejected"}],
           \A c \in Calls : promise'[c] = "pending" <=> promise[c] = "pending",
           UNCHANGED <<slots, queues, numBusy, stopped, unanswered>>
    PROVE  PoolInv'
<1>1. PoolTypes' /\ BusyAlive' /\ StoppedIdle' /\ PoolBusy'
    BY DEF PoolInv, PoolTypes, BusyAlive, StoppedIdle, PoolBusy, Waiting, Workers, Priorities
<1>3. \A c \in Calls : promise'[c] = "pending" <=> promise[c] = "pending"
    OBVIOUS
<1>4. (\A c : Waits(c)' <=> Waits(c)) /\ (\A c : Held(c)' <=> Held(c)) /\ Busy' = Busy
    BY DEF Waits, Held, Busy, Workers, Priorities
<1>5. NoCallLost'
    BY <1>3, <1>4 DEF PoolInv, NoCallLost
<1>6. CallsOnce'
    <2>. SUFFICES ASSUME ~stopped PROVE InOnePlace'
        BY DEF CallsOnce
    <2>. InOnePlace
        BY DEF PoolInv, CallsOnce
    <2>1. \A c \in Calls : (Held(c) \/ Waits(c))' => /\ promise'[c] = "pending" /\ ~(Held(c) /\ Waits(c))'
        BY <1>3, <1>4 DEF InOnePlace
    <2>. QED
        BY <1>4, <2>1 DEF InOnePlace, Priorities
<1>. QED
    BY <1>1, <1>5, <1>6 DEF PoolInv

(* A step that leaves the pool alone                                                  *)
LEMMA SamePool ==
    ASSUME PoolInv, UNCHANGED poolVars
    PROVE  PoolInv'
BY DEF PoolInv, poolVars, PoolTypes, BusyAlive, StoppedIdle, NoCallLost, CallsOnce, InOnePlace, PoolBusy,
       Waits, Held, Busy, Waiting, Workers, Priorities

(* Each step keeps what is known of the pool.                                         *)
LEMMA NextPoolInv ==
    ASSUME TInv, [TasksNext]_taskVars
    PROVE  TInv'
<1>. PoolInv /\ LoopType
    BY DEF TInv
<1>0. promise \in [Calls -> {"none", "pending", "resolved", "rejected"}] /\ Tasks \subseteq Calls
    BY PoolConstants DEF PoolInv, PoolTypes
<1>. PICK l : l = loop
    OBVIOUS
<1>1. /\ l = [pc |-> l.pc, list |-> l.list, first |-> l.first, stopWhenDone |-> l.stopWhenDone]
      /\ \A t \in Tasks : promise[t] # "none" => l.pc = "await" /\ t = Head(l.list)
    BY DEF LoopType
<1>2. ASSUME UNCHANGED loop, PoolInv', \A c \in Calls : promise[c] = "none" => promise'[c] = "none"
      PROVE  TInv'
    BY <1>0, <1>2 DEF LoopType, TInv
<1>3. ASSUME UNCHANGED poolVars, l.pc # "await",
             loop' = [pc |-> loop'.pc, list |-> loop'.list, first |-> loop'.first, stopWhenDone |-> loop'.stopWhenDone]
      PROVE  TInv'
    BY <1>1, <1>3, SamePool DEF LoopType, TInv, poolVars
<1>4. CASE PoolNext /\ UNCHANGED <<task, loop, latch>>
    BY <1>2, <1>4, PoolStep
<1>5. CASE Iterate
    <2>1. l.pc # "await" /\ UNCHANGED poolVars
        BY <1>5 DEF Iterate
    <2>2. \/ loop' = [l EXCEPT !.pc = "ended"] \/ loop' = [l EXCEPT !.pc = "wait"]
          \/ \E list : loop' = [l EXCEPT !.pc = "run", !.list = list, !.first = FALSE]
        BY <1>5 DEF Iterate
    <2>. QED
        BY <1>1, <1>3, <2>1, <2>2
<1>6. CASE Wake \/ NextIteration
    <2>1. l.pc # "await" /\ UNCHANGED poolVars /\ \E pc : loop' = [l EXCEPT !.pc = pc]
        BY <1>6 DEF Wake, NextIteration
    <2>. QED
        BY <1>1, <1>3, <2>1
<1>7. CASE ProcessNext
    <2>. PICK t : t = Head(l.list)
        OBVIOUS
    <2>1. l.pc = "run"
        BY <1>7 DEF ProcessNext
    <2>2. CASE t \in Pending /\ task[t].due
        <3>1. DoRpc(t) /\ loop' = [l EXCEPT !.pc = "await"] /\ UNCHANGED <<stopped, failures>>
            BY <1>7, <2>2 DEF ProcessNext
        <3>2. t \in Tasks /\ promise[t] = "none"
            BY <1>1, <2>1, <2>2 DEF Pending
        <3>3. PoolInv' /\ \A d : d # t => promise'[d] = promise[d]
            BY <1>0, <3>1, <3>2, CallStep
        <3>4. /\ loop' = [pc |-> loop'.pc, list |-> loop'.list, first |-> loop'.first, stopWhenDone |-> loop'.stopWhenDone]
              /\ loop'.pc = "await" /\ loop'.list = l.list
            BY <1>1, <3>1
        <3>5. \A u \in Tasks : u # t => promise'[u] = "none"
            BY <1>1, <2>1, <3>3
        <3>. QED
            BY <3>3, <3>4, <3>5 DEF LoopType, TInv
    <2>3. CASE ~(t \in Pending /\ task[t].due)
        <3>1. loop' = [l EXCEPT !.list = Tail(@)] /\ UNCHANGED poolVars
            BY <1>7, <2>3 DEF ProcessNext
        <3>. QED
            BY <1>1, <1>3, <2>1, <3>1
    <2>. QED
        BY <2>2, <2>3
<1>8. CASE Processed
    <2>. PICK t : t = Head(l.list)
        OBVIOUS
    <2>1. /\ l.pc = "await" /\ promise[t] \in {"resolved", "rejected"}
          /\ promise' = [promise EXCEPT ![t] = "none"] /\ loop' = [l EXCEPT !.pc = "run", !.list = Tail(@)]
          /\ UNCHANGED <<slots, queues, numBusy, stopped, failures, unanswered, latch>>
        <3>1. /\ loop.pc = "await" /\ promise[Head(loop.list)] \in {"resolved", "rejected"}
              /\ promise' = [promise EXCEPT ![Head(loop.list)] = "none"]
              /\ loop' = [loop EXCEPT !.pc = "run", !.list = Tail(@)]
              /\ UNCHANGED <<slots, queues, numBusy, stopped, failures, unanswered, latch>>
            BY <1>8, Zenon DEF Processed
        <3>. QED
            BY <3>1
    <2>2. PoolInv'
        <3>1. promise' \in [Calls -> {"none", "pending", "resolved", "rejected"}]
            BY <1>0, <2>1
        <3>2. \A c \in Calls : promise'[c] = "pending" <=> promise[c] = "pending"
            BY <1>0, <2>1
        <3>3. UNCHANGED <<slots, queues, numBusy, stopped, unanswered>>
            BY <2>1
        <3>. QED
            BY <3>1, <3>2, <3>3, TakenStep
    <2>3. \A u \in Tasks : promise'[u] = "none"
        BY <1>0, <1>1, <2>1
    <2>. QED
        BY <1>1, <2>1, <2>2, <2>3 DEF LoopType, TInv
<1>9. CASE \E t \in Tasks : ComesDue(t) \/ \E triggers \in BOOLEAN : AddTask(t, triggers)
    <2>1. UNCHANGED loop /\ UNCHANGED poolVars
        BY <1>9 DEF ComesDue, AddTask
    <2>. QED
        BY <1>2, <2>1, SamePool DEF poolVars
<1>10. CASE \E c \in Users : UserCalls(c)
    <2>. PICK c \in Users : UserCalls(c)
        BY <1>10
    <2>1. promise[c] = "none" /\ DoRpc(c) /\ UNCHANGED <<stopped, loop>> /\ c \in Calls /\ c \notin Tasks
        BY DEF UserCalls, Users
    <2>2. PoolInv' /\ \A d : d # c => promise'[d] = promise[d]
        BY <2>1, CallStep
    <2>. QED
        BY <2>1, <2>2 DEF LoopType, TInv
<1>11. CASE Stop
    BY <1>2, <1>11, StopStep DEF Stop
<1>12. CASE UNCHANGED taskVars
    <2>1. UNCHANGED loop /\ UNCHANGED poolVars
        BY <1>12 DEF taskVars
    <2>. QED
        BY <1>2, <2>1, SamePool DEF poolVars
<1>. QED
    BY <1>4, <1>5, <1>6, <1>7, <1>8, <1>9, <1>10, <1>11, <1>12 DEF TasksNext, LoopNext

-----------------------------------------------------------------------------
(* The invariant holds in every state.                                                *)
LEMMA PoolInvariance == TasksSpec => []TInv
<1>1. TInv /\ [TasksNext]_taskVars => TInv'
    BY NextPoolInv
<1>. QED
    BY InitTInv, <1>1, PTL DEF TasksSpec

(* The pool counts its busy workers right until it is stopped, and no call waits while a worker *)
(* is free: doRpc finds the free worker that numBusy promises it.                     *)
THEOREM PoolSafety == TasksSpec => []PoolBusy
<1>1. TInv => PoolBusy
    BY DEF TInv, PoolInv
<1>. QED
    BY PoolInvariance, <1>1, PTL

(* No call is lost: one that was promised an answer has a worker, waits for one, or is one of those *)
(* that an operation that throws, or the end of the pool, has left without an answer; and until the *)
(* pool is stopped it is in one place only, so that it is answered once.              *)
THEOREM CallsSafety == TasksSpec => [](NoCallLost /\ CallsOnce)
<1>1. TInv => NoCallLost /\ CallsOnce
    BY DEF TInv, PoolInv
<1>. QED
    BY PoolInvariance, <1>1, PTL

-----------------------------------------------------------------------------
StoreSpec == StoreInit /\ [][StoreNext]_storeVars

Backend(be) ==
    be = [level |-> be.level, schema |-> be.schema, objects |-> be.objects,
          stores |-> be.stores, indexes |-> be.indexes]

StoreTypes == Backend(backend) /\ tx \in [Transactions -> {Nil} \cup Transaction]

(* A transaction that has begun in the backend, and that has not begun to commit      *)
Owns(r) == r.btx /\ r.pc # "committing"
Owner(t) == Exists(t) /\ Owns(tx[t])

(* What has the lock is neither aborted nor at its end, and what is committed is.     *)
Sound(r) == /\ Owns(r) => ~r.aborted /\ r.pc # "ended"
            /\ r.committed <=> r.pc = "ended"
            /\ r.pc = "ended" => ~r.btx

LockInv ==
    /\ \A t \in Transactions : Exists(t) => Sound(tx[t])
    /\ \A t \in Transactions : Owner(t) => backend.level # "None"
    /\ \A t, u \in Transactions : Owner(t) /\ Owner(u) => t = u
    /\ backend.level # "None" => \E t \in Transactions : Owner(t)

StoreInv == StoreTypes /\ (raced = {} => LockInv)

-----------------------------------------------------------------------------
(* The operations of the backend: which of them touch its lock                        *)
LEMMA KeepsLock ==
    ASSUME NEW be, Backend(be), NEW m, NEW n, NEW k, NEW tag, NEW names
    PROVE  /\ Backend(WithRecord(be, m, n, k, tag)) /\ WithRecord(be, m, n, k, tag).level = be.level
           /\ Backend(StoreRecord(be, m, n, k, tag, names))
           /\ StoreRecord(be, m, n, k, tag, names).level = be.level
           /\ Backend(WithoutEntries(be, m, n, k, tag, names))
           /\ WithoutEntries(be, m, n, k, tag, names).level = be.level
           /\ Backend(DeleteRecord(be, m, n, k)) /\ DeleteRecord(be, m, n, k).level = be.level
           /\ Backend(ClearObjectStore(be, m, n)) /\ ClearObjectStore(be, m, n).level = be.level
<1>1. \A b : Backend(b) => \A stores :
          Backend([b EXCEPT !.stores = stores]) /\ [b EXCEPT !.stores = stores].level = b.level
    BY DEF Backend
<1>2. \A b : Backend(b) => \A indexes :
          Backend([b EXCEPT !.indexes = indexes]) /\ [b EXCEPT !.indexes = indexes].level = b.level
    BY DEF Backend
<1>3. \A b, t : Backend(b) => Backend(WithRecord(b, m, n, k, t)) /\ WithRecord(b, m, n, k, t).level = b.level
    BY <1>1 DEF WithRecord
<1>4. \A b, t, ns : Backend(b) =>
          /\ Backend(WithoutEntries(b, m, n, k, t, ns))
          /\ WithoutEntries(b, m, n, k, t, ns).level = b.level
    BY <1>2 DEF WithoutEntries, InIndexes
<1>5. /\ Backend(StoreRecord(be, m, n, k, tag, names))
      /\ StoreRecord(be, m, n, k, tag, names).level = be.level
    BY <1>2, <1>3 DEF StoreRecord, InIndexes
<1>6. Backend(DeleteRecord(be, m, n, k)) /\ DeleteRecord(be, m, n, k).level = be.level
    BY <1>3, <1>4 DEF DeleteRecord
<1>7. Backend(ClearObjectStore(be, m, n)) /\ ClearObjectStore(be, m, n).level = be.level
    <2>. DEFINE b == [be EXCEPT !.stores[m.map[n].store].modified = NoRecords]
    <2>1. Backend(b) /\ b.level = be.level
        BY <1>1
    <2>2. \E indexes : ClearObjectStore(be, m, n) = [b EXCEPT !.indexes = indexes]
        BY DEF ClearObjectStore, InIndexes
    <2>. HIDE DEF b
    <2>. QED
        BY <1>2, <2>1, <2>2
<1>. QED
    BY <1>3, <1>4, <1>5, <1>6, <1>7

(* commit and rollback release the lock, beginTransaction takes it.                   *)
LEMMA ReleasesLock ==
    ASSUME NEW be, Backend(be), NEW m
    PROVE  /\ Backend(Commit(be, m)) /\ Commit(be, m).level = "None"
           /\ Backend(Rollback(be)) /\ Rollback(be).level = "None"
           /\ \A level : Backend(Began(be, level)) /\ Began(be, level).level = level
<1>1. \E schema, objects, stores, indexes :
          Commit(be, m) = [be EXCEPT !.level = "None", !.schema = schema, !.objects = objects,
                                     !.stores = stores, !.indexes = indexes]
    BY Zenon DEF Commit
<1>2. \E stores, indexes :
          Rollback(be) = [be EXCEPT !.level = "None", !.stores = stores, !.indexes = indexes]
    BY Zenon DEF Rollback
<1>3. Backend(Commit(be, m)) /\ Commit(be, m).level = "None"
    BY <1>1 DEF Backend
<1>4. Backend(Rollback(be)) /\ Rollback(be).level = "None"
    BY <1>2 DEF Backend
<1>5. \A level : Backend(Began(be, level)) /\ Began(be, level).level = level
    BY DEF Backend, Began
<1>. QED
    BY <1>3, <1>4, <1>5

(* A request leaves the lock alone, and without a transaction in the backend everything else. *)
LEMMA OutcomeKeepsLock ==
    ASSUME StoreTypes, NEW t \in Transactions, NEW op, NEW o \in Outcomes(t, op)
    PROVE  Backend(o.be) /\ o.be.level = backend.level /\ (~tx[t].btx => o.be = backend)
<1>. DEFINE m == At(t)
            n == op.store
            data == StoreData(backend, m, n)
<1>. HIDE DEF m, data
<1>0. Backend(backend)
    BY DEF StoreTypes
<1>1. CASE ~tx[t].btx
    <2>1. o \in {[be |-> backend, error |-> TRUE]}
        BY <1>1 DEF Outcomes
    <2>. QED
        BY <1>0, <2>1
<1>2. CASE tx[t].btx
    <2>1. \/ o.be = backend
          \/ o.be = ClearObjectStore(backend, m, n)
          \/ o.be = DeleteRecord(backend, m, n, op.key)
          \/ \E names : o.be = WithoutEntries(backend, m, n, op.key, data[op.key], names)
          \/ \E names : o.be = StoreRecord(backend, m, n, op.key, op.tag, names)
        BY <1>2 DEF Outcomes, m, data
    <2>. QED
        BY <1>0, <1>2, <2>1, KeepsLock
<1>. QED
    BY <1>1, <1>2

-----------------------------------------------------------------------------
(* What a transaction is, once it was created                                         *)
LEMMA StoreTxTypes ==
    ASSUME StoreTypes, NEW t \in Transactions, Exists(t)
    PROVE  tx[t] \in Transaction
BY DEF StoreTypes, Exists

(* A step of one transaction, by what becomes of the lock                             *)
LEMMA OneTransaction ==
    ASSUME StoreInv, raced = {}, NEW t \in Transactions, NEW r \in Transaction,
           tx' = [tx EXCEPT ![t] = r], Backend(backend'), Sound(r),
           \/ backend'.level = backend.level /\ (Owns(r) <=> Owner(t))
           \/ Owns(r) /\ backend.level = "None" /\ backend'.level # "None"
           \/ ~Owns(r) /\ Owner(t) /\ backend'.level = "None"
    PROVE  StoreInv'
<1>1. StoreTypes /\ LockInv
    BY DEF StoreInv
<1>2. tx'[t] = r /\ \A u \in Transactions \ {t} : tx'[u] = tx[u]
    BY <1>1 DEF StoreTypes
<1>3. StoreTypes'
    BY <1>1 DEF StoreTypes
<1>4. r # Nil
    BY NilAssumption
<1>5. /\ Exists(t)' /\ (Owner(t)' <=> Owns(r))
      /\ \A u \in Transactions \ {t} : (Exists(u)' <=> Exists(u)) /\ (Owner(u)' <=> Owner(u))
    BY <1>2, <1>4 DEF Owner, Exists
<1>6. \A u \in Transactions : Exists(u)' => Sound(tx'[u])
    BY <1>1, <1>2, <1>5 DEF LockInv
<1>7. CASE backend'.level = backend.level /\ (Owns(r) <=> Owner(t))
    <2>1. \A u \in Transactions : Owner(u)' <=> Owner(u)
        BY <1>5, <1>7
    <2>. QED
        BY <1>1, <1>3, <1>6, <1>7, <2>1 DEF LockInv, StoreInv
<1>8. CASE Owns(r) /\ backend.level = "None" /\ backend'.level # "None"
    <2>1. \A u \in Transactions : Owner(u)' <=> u = t
        BY <1>1, <1>5, <1>8 DEF LockInv
    <2>. QED
        BY <1>3, <1>6, <1>8, <2>1 DEF LockInv, StoreInv
<1>9. CASE ~Owns(r) /\ Owner(t) /\ backend'.level = "None"
    <2>1. \A u \in Transactions : ~Owner(u)'
        BY <1>1, <1>5, <1>9 DEF LockInv
    <2>. QED
        BY <1>3, <1>6, <1>9, <2>1 DEF LockInv, StoreInv
<1>. QED
    BY <1>7, <1>8, <1>9

(* A step of none of them                                                             *)
LEMMA NoTransaction ==
    ASSUME StoreInv, raced = {}, tx' = tx, Backend(backend'), backend'.level = backend.level
    PROVE  StoreInv'
BY DEF StoreInv, StoreTypes, LockInv, Owner, Exists

(* A new transaction has the lock only as the one of an upgrade.                      *)
LEMMA NewTransaction ==
    ASSUME NEW c \in Connections, NEW mode \in {"readonly", "readwrite", "versionchange"},
           NEW btx \in BOOLEAN
    PROVE  /\ NewTx(c, mode, btx) \in Transaction
           /\ Sound(NewTx(c, mode, btx)) /\ (Owns(NewTx(c, mode, btx)) <=> btx)
BY DEF NewTx, Transaction, Sound, Owns

(* One that has ended does not have it.                                               *)
LEMMA EndedTransaction ==
    ASSUME NEW r \in Transaction
    PROVE  Ended(r) \in Transaction /\ Sound(Ended(r)) /\ ~Owns(Ended(r))
<1>1. PICK late \in BOOLEAN : late = (r.aborted /\ r.mode = "versionchange")
    BY Zenon
<1>. DEFINE e == [conn |-> r.conn, mode |-> "ended", queue |-> <<>>, current |-> Nil, pc |-> "ended",
                  active |-> FALSE, resting |-> FALSE, btx |-> FALSE, aborted |-> late, committed |-> TRUE]
<1>2. Ended(r) = e
    <2>1. Ended(r) = [NewTx(r.conn, "ended", FALSE) EXCEPT !.pc = "ended", !.active = FALSE,
                         !.aborted = late, !.committed = TRUE]
        BY <1>1, Zenon DEF Ended
    <2>. QED
        BY <2>1 DEF NewTx
<1>3. e \in Transaction
    BY DEF Transaction
<1>4. Sound(e) /\ ~Owns(e)
    BY DEF Sound, Owns
<1>. QED
    BY <1>2, <1>3, <1>4

(* The database starts without a lock, new or read from what was committed.           *)
LEMMA InitStoreInv == StoreInit => StoreInv
<1>. SUFFICES ASSUME StoreInit PROVE StoreInv
    OBVIOUS
<1>1. Backend(NewBackend) /\ NewBackend.level = "None"
    BY DEF Backend, NewBackend
<1>2. ASSUME NEW st, NEW ix PROVE Backend([NewBackend EXCEPT !.stores = st, !.indexes = ix])
    <2>1. PICK b : b = [NewBackend EXCEPT !.stores = st]
        OBVIOUS
    <2>2. Backend(b)
        BY <2>1 DEF NewBackend, Backend
    <2>3. Backend([b EXCEPT !.indexes = ix])
        BY <2>2 DEF Backend
    <2>4. [NewBackend EXCEPT !.stores = st, !.indexes = ix] = [b EXCEPT !.indexes = ix]
        BY <2>1, Zenon
    <2>. QED
        BY <2>3, <2>4
<1>3. \A names, records : Backend(FirstBackend(names, records)) /\ FirstBackend(names, records).level = "None"
    <2>. TAKE names, records
    <2>1. \E be, m : Backend(be) /\ FirstBackend(names, records) = Commit(be, m)
        <3>. DEFINE stores == <<[NewStoreObject EXCEPT !.modified = records]>>
                    s == SetToSeq(names)
                    indexes ==
                        [x \in DOMAIN s |->
                            [NewIndexObject EXCEPT !.modified = FilledFrom(records, RecordKeys)]]
        <3>1. Backend([NewBackend EXCEPT !.stores = stores, !.indexes = indexes])
            BY <1>2
        <3>. DEFINE m == FoldLeft(LAMBDA a, x : WithIndex(a, "a", s[x], x),
                                  WithStore(Connected(NewBackend), "a", 1), [x \in DOMAIN s |-> x])
                    be == [NewBackend EXCEPT !.stores = stores, !.indexes = indexes]
        <3>2. FirstBackend(names, records) = Commit(be, [m EXCEPT !.schema.version = 1])
            BY Zenon DEF FirstBackend
        <3>. HIDE DEF m, be
        <3>. QED
            BY <3>1, <3>2 DEF be
    <2>. QED
        BY <2>1, ReleasesLock
<1>4. Backend(backend) /\ backend.level = "None"
    BY <1>1, <1>3 DEF StoreInit, FullBackend, EmptyBackend
<1>5. tx = [t \in Transactions |-> Nil]
    BY DEF StoreInit
<1>. QED
    BY <1>4, <1>5 DEF StoreInv, StoreTypes, LockInv, Owner, Exists

-----------------------------------------------------------------------------
(* An abort: of a transaction that has the lock, which is released, or of another one. *)
LEMMA AbortStep ==
    ASSUME StoreInv, raced = {}, NEW t \in Transactions, Exists(t), ~Finished(t),
           NEW r \in Transaction, NEW be, Backend(be), be.level = backend.level,
           r.btx = tx[t].btx, r.pc = tx[t].pc \/ (tx[t].pc = "wait" /\ r.pc = "queued"),
           ~r.aborted, ~r.committed, r.pc # "ended", AbortFrom(t, r, be)
    PROVE  StoreInv'
<1>. DEFINE s == [r EXCEPT !.aborted = TRUE, !.active = FALSE, !.queue = <<>>,
                           !.btx = r.btx /\ r.pc = "committing"]
<1>1. tx[t] \in Transaction /\ Backend(backend)
    BY StoreTxTypes DEF StoreInv, StoreTypes
<1>2. PICK late \in BOOLEAN : late = (r.btx /\ r.pc = "committing")
    BY Zenon
<1>3. s = [r EXCEPT !.aborted = TRUE, !.active = FALSE, !.queue = <<>>, !.btx = late]
    BY <1>2, Zenon
<1>4. s \in Transaction /\ s.aborted = TRUE /\ s.btx = late /\ s.pc = r.pc /\ s.committed = r.committed
    <2>. HIDE DEF s
    <2>1. DOMAIN r = {"conn", "mode", "queue", "current", "pc", "active", "resting", "btx", "aborted", "committed"}
        BY DEF Transaction
    <2>2. s.aborted = TRUE /\ s.btx = late /\ s.pc = r.pc /\ s.committed = r.committed
        BY <1>3, <2>1
    <2>3. s = [conn |-> r.conn, mode |-> r.mode, queue |-> <<>>, current |-> r.current, pc |-> r.pc,
               active |-> FALSE, resting |-> r.resting, btx |-> late, aborted |-> TRUE,
               committed |-> r.committed]
        BY <1>3 DEF Transaction
    <2>4. s \in Transaction
        BY <2>3 DEF Transaction
    <2>. QED
        BY <2>2, <2>4
<1>5. tx' = [tx EXCEPT ![t] = s]
    BY Zenon DEF AbortFrom
<1>. HIDE DEF s
<1>6. ~Owns(s) /\ Sound(s)
    BY <1>2, <1>4 DEF Owns, Sound, Transaction
<1>7. CASE r.btx /\ r.pc # "committing"
    <2>1. backend' = Rollback(be)
        BY <1>7 DEF AbortFrom
    <2>2. Owner(t)
        BY <1>7 DEF Owner, Owns
    <2>. QED
        BY <1>4, <1>5, <1>6, <2>1, <2>2, ReleasesLock, OneTransaction
<1>8. CASE ~(r.btx /\ r.pc # "committing")
    <2>1. backend' = backend
        BY <1>8 DEF AbortFrom
    <2>2. ~Owner(t)
        BY <1>8 DEF Owner, Owns
    <2>. QED
        BY <1>1, <1>4, <1>5, <1>6, <2>1, <2>2, OneTransaction
<1>. QED
    BY <1>7, <1>8

(* _start: the next request, the commit, which releases the lock, or the end          *)
LEMMA StartStep ==
    ASSUME StoreInv, raced = {}, NEW t \in Transactions, Start(t)
    PROVE  StoreInv'
<1>. PICK r : r = tx[t]
    OBVIOUS
<1>1. Exists(t) /\ r.pc = "queued" /\ r \in Transaction /\ Backend(backend)
    BY StoreTxTypes DEF Start, StoreInv, StoreTypes
<1>2. Sound(r) /\ (Owner(t) <=> r.btx)
    BY <1>1 DEF StoreInv, LockInv, Owner, Owns
<1>3. CASE /\ r.queue # <<>> /\ backend' = backend
           /\ tx' = [tx EXCEPT ![t].queue = Tail(@), ![t].current = Head(tx[t].queue),
                               ![t].active = @ /\ ~tx[t].resting, ![t].resting = FALSE,
                               ![t].pc = IF tx[t].btx \/ tx[t].aborted THEN "wait" ELSE "begin"]
    <2>1. PICK on \in BOOLEAN : on = (r.active /\ ~r.resting)
        BY Zenon
    <2>. DEFINE pc == IF r.btx \/ r.aborted THEN "wait" ELSE "begin"
                s == [r EXCEPT !.queue = Tail(r.queue), !.current = Head(r.queue), !.active = on,
                               !.resting = FALSE, !.pc = pc]
    <2>2. pc \in {"wait", "begin"}
        OBVIOUS
    <2>3. Tail(r.queue) \in Seq(Requests) /\ Head(r.queue) \in Requests
        BY <1>1, <1>3 DEF Transaction
    <2>4. tx' = [tx EXCEPT ![t] = s]
        BY <1>3, <2>1
    <2>. HIDE DEF pc
    <2>5. s \in Transaction /\ s.pc = pc /\ s.btx = r.btx /\ s.aborted = r.aborted /\ s.committed = r.committed
        BY <1>1, <2>2, <2>3 DEF Transaction
    <2>. HIDE DEF s
    <2>6. Sound(s) /\ (Owns(s) <=> Owner(t))
        BY <1>1, <1>2, <2>2, <2>5 DEF Sound, Owns
    <2>. QED
        BY <1>1, <1>3, <2>4, <2>5, <2>6, OneTransaction
<1>4. CASE /\ ~Finished(t) /\ tx' = [tx EXCEPT ![t].active = FALSE, ![t].pc = "committing"]
           /\ backend' = IF tx[t].btx THEN Commit(backend, At(t)) ELSE backend
    <2>. DEFINE s == [r EXCEPT !.active = FALSE, !.pc = "committing"]
    <2>1. tx' = [tx EXCEPT ![t] = s]
        BY <1>4
    <2>2. s \in Transaction /\ s.pc = "committing" /\ s.committed = r.committed
        BY <1>1 DEF Transaction
    <2>. HIDE DEF s
    <2>3. Sound(s) /\ ~Owns(s)
        BY <1>4, <2>2 DEF Sound, Owns, Finished
    <2>4. CASE r.btx
        <3>1. backend' = Commit(backend, At(t))
            BY <1>4, <2>4
        <3>2. Backend(backend') /\ backend'.level = "None"
            BY <1>1, <3>1, ReleasesLock
        <3>3. Owner(t)
            BY <1>2, <2>4
        <3>. QED
            BY <2>1, <2>2, <2>3, <3>2, <3>3, OneTransaction
    <2>5. CASE ~r.btx
        BY <1>1, <1>2, <1>4, <2>1, <2>2, <2>3, <2>5, OneTransaction
    <2>. QED
        BY <2>4, <2>5
<1>5. CASE Finished(t) /\ tx' = [tx EXCEPT ![t] = Ended(@)] /\ backend' = backend
    <2>1. tx' = [tx EXCEPT ![t] = Ended(r)]
        BY <1>5
    <2>2. ~Owner(t)
        BY <1>1, <1>2, <1>5 DEF Sound, Owns, Finished
    <2>. QED
        BY <1>1, <1>5, <2>1, <2>2, EndedTransaction, OneTransaction
<1>. QED
    BY <1>3, <1>4, <1>5 DEF Start

(* The other steps of a transaction; beginTransaction waits until the lock is free.   *)
LEMMA TransactionStep ==
    ASSUME StoreInv, raced = {}, NEW t \in Transactions, TransactionSteps(t)
    PROVE  StoreInv'
<1>. PICK r : r = tx[t]
    OBVIOUS
<1>1. Exists(t) /\ r \in Transaction /\ Backend(backend) /\ Sound(r) /\ StoreTypes
    BY StoreTxTypes DEF TransactionSteps, Start, FinishCommit, BeginTransaction, RunOperation,
                        StoreInv, StoreTypes, LockInv
<1>2. CASE FinishCommit(t)
    <2>1. tx' = [tx EXCEPT ![t] = Ended(r)] /\ backend' = backend /\ ~Owner(t)
        BY <1>2 DEF FinishCommit, Owner, Owns
    <2>. QED
        BY <1>1, <2>1, EndedTransaction, OneTransaction
<1>3. CASE BeginTransaction(t)
    <2>. DEFINE s == [r EXCEPT !.btx = TRUE, !.pc = "wait"]
    <2>1. /\ r.pc = "begin" /\ backend.level = "None"
          /\ tx' = [tx EXCEPT ![t] = s]
          /\ \E level \in {"Read", "Write"} : backend' = Began(backend, level)
        BY <1>3 DEF BeginTransaction, LevelAllows
    <2>2. Backend(backend') /\ backend'.level # "None"
        BY <1>1, <2>1, ReleasesLock
    <2>3. s \in Transaction /\ s.pc = "wait" /\ s.btx /\ s.aborted = r.aborted /\ s.committed = r.committed
        BY <1>1 DEF Transaction
    <2>. HIDE DEF s
    <2>4. CASE r.aborted
        <3>1. raced' # {}
            BY <1>3, <2>4 DEF BeginTransaction
        <3>2. StoreTypes'
            BY <1>1, <2>1, <2>2, <2>3 DEF StoreTypes
        <3>. QED
            BY <3>1, <3>2 DEF StoreInv
    <2>5. CASE ~r.aborted
        <3>1. Owns(s) /\ Sound(s)
            BY <1>1, <2>1, <2>3, <2>5 DEF Owns, Sound
        <3>. QED
            BY <2>1, <2>2, <2>3, <3>1, OneTransaction
    <2>. QED
        BY <2>4, <2>5
<1>4. CASE RunOperation(t)
    <2>1. PICK o \in Outcomes(t, r.current) :
              LET after == [r EXCEPT !.pc = "queued", !.current = Nil, !.active = TRUE, !.resting = TRUE]
              IN \/ /\ backend' = o.be
                    /\ tx' = [tx EXCEPT ![t] = after]
                    /\ UNCHANGED conn
                 \/ ~Finished(t) /\ AbortFrom(t, after, o.be)
        BY <1>4 DEF RunOperation
    <2>. DEFINE s == [r EXCEPT !.pc = "queued", !.current = Nil, !.active = TRUE, !.resting = TRUE]
    <2>2. r.pc = "wait"
        BY <1>4 DEF RunOperation
    <2>3. /\ s \in Transaction /\ s.pc = "queued" /\ s.btx = r.btx /\ s.aborted = r.aborted
          /\ s.committed = r.committed
        BY <1>1 DEF Transaction
    <2>4. Backend(o.be) /\ o.be.level = backend.level
        BY <1>1, OutcomeKeepsLock
    <2>5. \/ backend' = o.be /\ tx' = [tx EXCEPT ![t] = s]
          \/ ~Finished(t) /\ AbortFrom(t, s, o.be)
        BY <2>1
    <2>. HIDE DEF s
    <2>6. CASE backend' = o.be /\ tx' = [tx EXCEPT ![t] = s]
        <3>1. Sound(s) /\ (Owns(s) <=> Owner(t))
            BY <1>1, <2>2, <2>3 DEF Sound, Owns, Owner
        <3>. QED
            BY <2>3, <2>4, <2>6, <3>1, OneTransaction
    <2>7. CASE ~Finished(t) /\ AbortFrom(t, s, o.be)
        <3>1. ~s.aborted /\ ~s.committed
            BY <2>3, <2>7 DEF Finished
        <3>. QED
            BY <1>1, <2>2, <2>3, <2>4, <2>7, <3>1, AbortStep
    <2>. QED
        BY <2>5, <2>6, <2>7
<1>5. CASE Start(t)
    BY <1>5, StartStep
<1>. QED
    BY <1>2, <1>3, <1>4, <1>5 DEF TransactionSteps

(* A change of the schema leaves the lock alone.                                      *)
LEMMA SchemaStep ==
    ASSUME StoreInv, raced = {}, NEW t \in Transactions, SchemaNext(t)
    PROVE  StoreInv'
<1>1. /\ tx' = tx
      /\ \/ backend' = backend
         \/ \E stores : backend' = [backend EXCEPT !.stores = stores]
         \/ \E indexes : backend' = [backend EXCEPT !.indexes = indexes]
    <2>. PICK n \in StoreNames, m \in StoreNames, i \in IndexNames, j \in IndexNames :
              \/ CreateObjectStore(t, n) \/ DeleteObjectStore(t, n) \/ RenameObjectStore(t, n, m)
              \/ CreateIndex(t, n, i) \/ DeleteIndex(t, n, i) \/ RenameIndex(t, n, i, j)
        BY DEF SchemaNext
    <2>1. CASE CreateObjectStore(t, n)
        BY <2>1, Zenon DEF CreateObjectStore, ChangeSchema
    <2>2. CASE DeleteObjectStore(t, n)
        BY <2>2, Zenon DEF DeleteObjectStore, ChangeSchema
    <2>3. CASE RenameObjectStore(t, n, m)
        BY <2>3, Zenon DEF RenameObjectStore, ChangeSchema
    <2>4. CASE CreateIndex(t, n, i)
        BY <2>4, Zenon DEF CreateIndex, ChangeSchema
    <2>5. CASE DeleteIndex(t, n, i)
        BY <2>5, Zenon DEF DeleteIndex, ChangeSchema
    <2>6. CASE RenameIndex(t, n, i, j)
        BY <2>6, Zenon DEF RenameIndex, ChangeSchema
    <2>. QED
        BY <2>1, <2>2, <2>3, <2>4, <2>5, <2>6
<1>2. Backend(backend)
    BY DEF StoreInv, StoreTypes
<1>3. Backend(backend') /\ backend'.level = backend.level
    <2>1. CASE backend' = backend
        BY <1>2, <2>1
    <2>2. CASE \E stores : backend' = [backend EXCEPT !.stores = stores]
        BY <1>2, <2>2 DEF Backend
    <2>3. CASE \E indexes : backend' = [backend EXCEPT !.indexes = indexes]
        BY <1>2, <2>3 DEF Backend
    <2>. QED
        BY <1>1, <2>1, <2>2, <2>3
<1>. QED
    BY <1>1, <1>3, NoTransaction

(* So does a request that is queued.                                                  *)
LEMMA RequestStep ==
    ASSUME StoreInv, raced = {}, NEW t \in Transactions, NEW op \in Requests, PlaceRequest(t, op)
    PROVE  StoreInv'
<1>. PICK r : r = tx[t]
    OBVIOUS
<1>1. Exists(t) /\ r \in Transaction /\ Sound(r) /\ Backend(backend)
    BY StoreTxTypes DEF PlaceRequest, StoreInv, StoreTypes, LockInv
<1>. PICK longer : longer = Append(r.queue, op)
    OBVIOUS
<1>0. longer \in Seq(Requests)
    BY <1>1 DEF Transaction
<1>. DEFINE s == [r EXCEPT !.queue = longer]
<1>2. tx' = [tx EXCEPT ![t] = s] /\ backend' = backend
    BY DEF PlaceRequest
<1>3. /\ s \in Transaction /\ s.pc = r.pc /\ s.btx = r.btx /\ s.aborted = r.aborted
      /\ s.committed = r.committed
    BY <1>0, <1>1 DEF Transaction
<1>. HIDE DEF s
<1>4. Sound(s) /\ (Owns(s) <=> Owner(t))
    BY <1>1, <1>3 DEF Sound, Owns, Owner
<1>. QED
    BY <1>1, <1>2, <1>3, <1>4, OneTransaction

(* An upgrade waits for the lock as a transaction does.                               *)
LEMMA ConnectionStep ==
    ASSUME StoreInv, raced = {}, NEW c \in Connections, ConnectionSteps(c)
    PROVE  StoreInv'
<1>1. Backend(backend)
    BY DEF StoreInv, StoreTypes
<1>2. CASE EnterVersionChange(c)
    <2>1. PICK t \in Transactions : IsNextTx(t) /\ tx' = [tx EXCEPT ![t] = NewTx(c, "versionchange", TRUE)]
        BY <1>2 DEF EnterVersionChange
    <2>2. Backend(backend') /\ backend'.level = "VersionChange" /\ backend.level = "None"
        BY <1>1, <1>2, ReleasesLock DEF EnterVersionChange
    <2>. PICK r : r = NewTx(c, "versionchange", TRUE)
        OBVIOUS
    <2>3. r \in Transaction /\ Sound(r) /\ Owns(r)
        BY NewTransaction
    <2>. QED
        BY <2>1, <2>2, <2>3, OneTransaction
<1>3. CASE OpenDone(c) \/ CloseConnection(c)
    <2>1. tx' = tx /\ backend' = backend
        BY <1>3 DEF OpenDone, CloseConnection
    <2>. QED
        BY <1>1, <2>1, NoTransaction
<1>. QED
    BY <1>2, <1>3 DEF ConnectionSteps

(* What clients do: of this only an abort can release the lock.                       *)
LEMMA ClientStep ==
    ASSUME StoreInv, raced = {}, StoreClient
    PROVE  StoreInv'
<1>1. Backend(backend)
    BY DEF StoreInv, StoreTypes
<1>2. CASE \E c \in Connections : (\E v \in Versions : Open(c, v)) \/ HandlerThrows(c) \/ Close(c)
    <2>1. tx' = tx /\ backend' = backend
        BY <1>2 DEF Open, HandlerThrows, Close
    <2>. QED
        BY <1>1, <2>1, NoTransaction
<1>3. CASE \E t \in Transactions, c \in Connections, mode \in {"readonly", "readwrite"} :
               CreateTransaction(t, c, mode)
    <2>. PICK t \in Transactions, c \in Connections, mode \in {"readonly", "readwrite"} :
               CreateTransaction(t, c, mode)
        BY <1>3
    <2>. PICK r : r = NewTx(c, mode, FALSE)
        OBVIOUS
    <2>1. r \in Transaction /\ Sound(r) /\ ~Owns(r)
        BY NewTransaction
    <2>2. tx' = [tx EXCEPT ![t] = r] /\ backend' = backend /\ ~Exists(t)
        BY DEF CreateTransaction, IsNextTx
    <2>. QED
        BY <1>1, <2>1, <2>2, OneTransaction DEF Owner
<1>4. ASSUME NEW t \in Transactions, AbortTransaction(t) PROVE StoreInv'
    <2>. PICK r : r = tx[t]
        OBVIOUS
    <2>1. Exists(t) /\ ~Finished(t) /\ AbortFrom(t, r, backend)
        BY <1>4 DEF AbortTransaction
    <2>2. r \in Transaction /\ Sound(r)
        BY <2>1, StoreTxTypes DEF StoreInv, LockInv
    <2>3. ~r.aborted /\ ~r.committed
        BY <2>1 DEF Finished
    <2>4. r.pc # "ended"
        BY <2>2, <2>3 DEF Sound
    <2>. QED
        BY <1>1, <2>1, <2>2, <2>3, <2>4, AbortStep
<1>5. CASE ImportDump
    <2>1. tx' = [t \in Transactions |-> Nil]
        BY <1>5 DEF ImportDump
    <2>2. \E stores, indexes : backend' = [backend EXCEPT !.level = "None", !.stores = stores, !.indexes = indexes]
        BY <1>5, Zenon DEF ImportDump
    <2>3. Backend(backend') /\ backend'.level = "None"
        BY <1>1, <2>2 DEF Backend
    <2>. QED
        BY <2>1, <2>3 DEF StoreInv, StoreTypes, LockInv, Owner, Exists
<1>. QED
    BY <1>2, <1>3, <1>4, <1>5, SchemaStep, RequestStep DEF StoreClient

(* Each step keeps the invariant of the store.                                        *)
LEMMA NextStoreInv ==
    ASSUME StoreInv, [StoreNext]_storeVars
    PROVE  StoreInv'
<1>1. CASE StoreNext
    BY <1>1, ClientStep, ConnectionStep, TransactionStep DEF StoreNext
<1>2. CASE UNCHANGED storeVars
    BY <1>2 DEF storeVars, StoreInv, StoreTypes, LockInv, Owner, Exists
<1>. QED
    BY <1>1, <1>2

-----------------------------------------------------------------------------
(* The invariant holds in every state.                                                *)
LEMMA StoreInvariance == StoreSpec => []StoreInv
<1>1. StoreInv /\ [StoreNext]_storeVars => StoreInv'
    BY NextStoreInv
<1>. QED
    BY InitStoreInv, <1>1, PTL DEF StoreSpec

(* Until one of the races of the code has happened, the lock of the database has one owner, *)
(* which is neither aborted nor at its end, and is going to release it: beginTransaction, commit *)
(* and rollback hand it on rightly between any number of transactions and connections.   *)
THEOREM LockSafety == StoreSpec => []LockOwned
<1>1. StoreInv => LockOwned
    <2>. SUFFICES ASSUME StoreInv, raced = {}, backend.level # "None"
                  PROVE  \E t \in Transactions :
                             /\ Exists(t) /\ tx[t].btx /\ ~Finished(t) /\ tx[t].pc # "ended"
                             /\ \A u \in Transactions \ {t} :
                                    Exists(u) /\ tx[u].btx => tx[u].pc = "committing"
        BY DEF LockOwned
    <2>1. PICK t \in Transactions : Owner(t)
        BY DEF StoreInv, LockInv
    <2>2. Exists(t) /\ Owns(tx[t]) /\ Sound(tx[t])
        BY <2>1 DEF Owner, StoreInv, LockInv
    <2>3. ~tx[t].committed
        BY <2>2 DEF Sound
    <2>4. \A u \in Transactions \ {t} : Exists(u) /\ tx[u].btx => tx[u].pc = "committing"
        BY <2>1 DEF StoreInv, LockInv, Owner, Owns
    <2>. QED
        BY <2>2, <2>3, <2>4 DEF Owns, Sound, Finished
<1>. QED
    BY StoreInvariance, <1>1, PTL

=============================================================================
