---------------------------------- MODULE CryptoPool ----------------------------------
(* crypto/workers/cryptoApi.ts: the pool of workers to which the wallet hands its          *)
(* cryptographic operations, as requests with a priority, and the workers, which do one     *)
(* operation at a time. What an operation computes is left out.                         *)
EXTENDS Naturals, Sequences, FiniteSets

CONSTANTS
    Concurrency,    \* workers
    Calls,          \* requests that may be made, one at a time each
    Priority,       \* call |-> its priority
    Nobody,         \* no call
    MaxFailures     \* bound: errors, operations that fail, requests of the user

(* Priorities are below NUM_PRIO.                                                    *)
ASSUME PoolAssumption ==
    Concurrency \in Nat /\ Nobody \notin Calls /\ Priority \in [Calls -> 0 .. 4] /\ MaxFailures \in Nat

VARIABLES
    slots,      \* the workers: [item, alive, posted, timer]
    queues,     \* priority |-> calls that wait
    numBusy,
    stopped,    \* the wallet was stopped
    promise,    \* call |-> "none" before it is made, "pending", "resolved", "rejected"
    failures,
    unanswered  \* history: calls to which no answer will ever come

poolVars == <<slots, queues, numBusy, stopped, promise, failures, unanswered>>

Workers == 1 .. Concurrency
Priorities == {Priority[c] : c \in Calls}
Free == [item |-> Nobody, alive |-> FALSE, posted |-> FALSE, timer |-> FALSE]

Fail == failures < MaxFailures /\ failures' = failures + 1

(* wake: the worker is started unless it runs, the message follows from a timer; a pool    *)
(* that was stopped forgets the call.                                               *)
Woken(s, call) ==
    [s EXCEPT ![call[1]] = [item |-> call[2], alive |-> TRUE, posted |-> FALSE, timer |-> TRUE]]

(* findWork, for a worker that has become free                                        *)
Waiting == {p \in Priorities : queues[p] # <<>>}
Highest == CHOOSE p \in Waiting : \A q \in Waiting : q <= p

(* Mutant: a worker that has become free is not given the next call.                   *)
FreeOnly(w, freed) == slots' = [slots EXCEPT ![w] = freed] /\ numBusy' = numBusy - 1 /\ UNCHANGED queues

FindWork(w, freed) ==
    IF Waiting = {} THEN slots' = [slots EXCEPT ![w] = freed] /\ UNCHANGED queues /\ numBusy' = numBusy - 1
    ELSE /\ queues' = [queues EXCEPT ![Highest] = Tail(@)]
         /\ slots' = Woken([slots EXCEPT ![w] = freed], <<w, Head(queues[Highest])>>)
         /\ UNCHANGED numBusy

-----------------------------------------------------------------------------
(* doRpc: what it does for a call, and what promise it gives                             *)
DoRpc(c) ==
    IF numBusy = Concurrency
    THEN /\ queues' = [queues EXCEPT ![Priority[c]] = Append(@, c)]
         /\ promise' = [promise EXCEPT ![c] = "pending"]
         /\ unanswered' = IF stopped THEN unanswered \cup {c} ELSE unanswered
         /\ UNCHANGED <<slots, numBusy>>
    ELSE LET w == CHOOSE x \in Workers : slots[x].item = Nobody /\ \A y \in 1 .. (x - 1) : slots[y].item # Nobody
         IN IF stopped
            THEN /\ promise' = [promise EXCEPT ![c] = "pending"]
                 /\ unanswered' = unanswered \cup {c}
                 /\ UNCHANGED <<slots, queues, numBusy>>
            ELSE /\ promise' = [promise EXCEPT ![c] = "pending"]
                 /\ slots' = Woken(slots, <<w, c>>)
                 /\ numBusy' = numBusy + 1
                 /\ UNCHANGED <<queues, unanswered>>

PostMessage(w) ==
    /\ slots[w].alive /\ slots[w].item # Nobody /\ ~slots[w].posted
    /\ slots' = [slots EXCEPT ![w].posted = TRUE]
    /\ UNCHANGED <<queues, numBusy, stopped, promise, failures, unanswered>>

Working(w) == slots[w].alive /\ slots[w].posted /\ slots[w].item \notin unanswered \cup {Nobody}

(* handleWorkerMessage, with the result of the operation                                *)
HandleWorkerMessage(w) ==
    /\ Working(w)
    /\ promise' = [promise EXCEPT ![slots[w].item] = "resolved"]
    /\ FindWork(w, [slots[w] EXCEPT !.item = Nobody, !.posted = FALSE])
    /\ UNCHANGED <<stopped, failures, unanswered>>

(* An operation that throws is only logged by the worker.                              *)
OperationThrows(w) ==
    /\ Working(w)
    /\ unanswered' = unanswered \cup {slots[w].item}
    /\ Fail
    /\ UNCHANGED <<slots, queues, numBusy, stopped, promise>>

(* Mutant: the promise of the call that the worker had is forgotten.                     *)
ForgetWorkerError(w) ==
    /\ slots[w].alive
    /\ IF slots[w].item = Nobody
       THEN slots' = [slots EXCEPT ![w].alive = FALSE] /\ UNCHANGED <<promise, queues, numBusy>>
       ELSE /\ FindWork(w, [slots[w] EXCEPT !.alive = FALSE, !.item = Nobody, !.posted = FALSE])
            /\ UNCHANGED promise
    /\ unanswered' = unanswered \ {slots[w].item}
    /\ Fail
    /\ UNCHANGED stopped

(* handleWorkerError: a worker that does not start, or breaks                            *)
HandleWorkerError(w) ==
    /\ slots[w].alive
    /\ IF slots[w].item = Nobody
       THEN slots' = [slots EXCEPT ![w].alive = FALSE] /\ UNCHANGED <<promise, queues, numBusy>>
       ELSE /\ promise' = [promise EXCEPT ![slots[w].item] = "rejected"]
            /\ FindWork(w, [slots[w] EXCEPT !.alive = FALSE, !.item = Nobody, !.posted = FALSE])
    /\ unanswered' = unanswered \ {slots[w].item}
    /\ Fail
    /\ UNCHANGED stopped

(* resetWorkerTimeout: 15 s after its last call came, a worker that is idle ends.          *)
TerminateIdle(w) ==
    /\ slots[w].timer
    /\ slots' = [slots EXCEPT ![w].timer = FALSE, ![w].alive = @ /\ slots[w].item # Nobody]
    /\ UNCHANGED <<queues, numBusy, stopped, promise, failures, unanswered>>

(* stop: calls that workers have are rejected, calls that wait are not.                  *)
StopPool ==
    /\ ~stopped /\ stopped' = TRUE
    /\ slots' = [w \in Workers |-> Free]
    /\ LET had == {slots[w].item : w \in {x \in Workers : slots[x].alive}} \ {Nobody}
       IN /\ promise' = [c \in Calls |-> IF c \in had THEN "rejected" ELSE promise[c]]
          /\ unanswered' = (unanswered \ had) \cup {c \in Calls : \E p \in Priorities : \E i \in DOMAIN queues[p] : queues[p][i] = c}
    /\ UNCHANGED <<queues, numBusy>>

PoolInit ==
    /\ slots = [w \in Workers |-> Free]
    /\ queues = [p \in Priorities |-> <<>>]
    /\ numBusy = 0 /\ stopped = FALSE /\ failures = 0 /\ unanswered = {}
    /\ promise = [c \in Calls |-> "none"]

PoolNext ==
    \E w \in Workers :
        PostMessage(w) \/ HandleWorkerMessage(w) \/ OperationThrows(w) \/ HandleWorkerError(w) \/ TerminateIdle(w)

(* JavaScript runs every callback, and an operation ends.                               *)
PoolFairness ==
    \A w \in 1 .. Concurrency : WF_poolVars(PostMessage(w)) /\ WF_poolVars(HandleWorkerMessage(w))
=============================================================================
