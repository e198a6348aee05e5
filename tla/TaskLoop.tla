----------------------------------- MODULE TaskLoop -----------------------------------
(* runTaskLoop of the wallet (wallet.ts): pending tasks are run one after the other when   *)
(* they are due, and again later when they fail. What a task does is one call of the        *)
(* cryptographic pool; calls that the user's requests need are made at the same time.      *)
EXTENDS CryptoPool

CONSTANTS
    Tasks,          \* a subset of Calls
    Lively,         \* tasks that give lifeness
    MaxRetries      \* the option of that name; 0 is no limit

ASSUME TaskAssumption == Tasks \subseteq Calls

VARIABLES
    task,       \* t |-> [state, due, tries]; state "absent", "pending", "done"
    loop,       \* [pc, list, first, stopWhenDone]: list, the tasks of the iteration still to be seen
    latch       \* the latch was triggered since the loop waits

taskVars == <<poolVars, task, loop, latch>>

Users == Calls \ Tasks
Pending == {t \in Tasks : task[t].state = "pending"}
Exhausted == MaxRetries # 0 /\ \E t \in Pending : task[t].tries > MaxRetries
Sequences(S) == {s \in [1 .. Cardinality(S) -> S] : \A i, j \in DOMAIN s : i # j => s[i] # s[j]}

(* An iteration starts: it looks up the pending tasks, and ends the loop, waits, or runs     *)
(* them. The first iteration does not wait.                                          *)
Iterate ==
    /\ loop.pc = "look" /\ ~stopped
    /\ IF Exhausted \/ (loop.stopWhenDone /\ Pending \cap Lively = {} /\ ~loop.first)
       THEN loop' = [loop EXCEPT !.pc = "ended"]
       ELSE IF ~loop.first /\ ~\E t \in Pending : task[t].due
       THEN loop' = [loop EXCEPT !.pc = "wait"]
       ELSE \E list \in Sequences(Pending) : loop' = [loop EXCEPT !.pc = "run", !.list = list, !.first = FALSE]
    /\ latch' = FALSE
    /\ UNCHANGED <<poolVars, task>>

(* The wait ends after 5 s at most, or when a task has come.                            *)
Wake ==
    /\ loop.pc = "wait" /\ (latch \/ ~stopped)
    /\ loop' = [loop EXCEPT !.pc = "look"]
    /\ UNCHANGED <<poolVars, task, latch>>

(* processOnePendingOperation, of a task that is due, and still there                      *)
ProcessNext ==
    /\ loop.pc = "run" /\ loop.list # <<>>
    /\ LET t == Head(loop.list)
       IN IF t \in Pending /\ task[t].due
          THEN DoRpc(t) /\ loop' = [loop EXCEPT !.pc = "await"] /\ UNCHANGED <<stopped, failures>>
          ELSE loop' = [loop EXCEPT !.list = Tail(@)] /\ UNCHANGED poolVars
    /\ UNCHANGED <<task, latch>>

(* The task ends, or fails and will be due later.                                     *)
Processed ==
    /\ loop.pc = "await"
    /\ LET t == Head(loop.list)
       IN /\ promise[t] \in {"resolved", "rejected"}
          /\ task' = [task EXCEPT ![t] = IF promise[t] = "resolved" THEN [@ EXCEPT !.state = "done"]
                                         ELSE [@ EXCEPT !.due = FALSE, !.tries = @ + 1]]
          /\ promise' = [promise EXCEPT ![t] = "none"]
    /\ loop' = [loop EXCEPT !.pc = "run", !.list = Tail(@)]
    /\ UNCHANGED <<slots, queues, numBusy, stopped, failures, unanswered, latch>>

(* All have been seen: the next iteration, unless the wallet was stopped                    *)
NextIteration ==
    /\ \/ loop.pc = "run" /\ loop.list = <<>>
       \/ loop.pc = "look" /\ stopped
    /\ loop' = [loop EXCEPT !.pc = IF stopped THEN "ended" ELSE "look"]
    /\ UNCHANGED <<poolVars, task, latch>>

(* The retry of a task comes due.                                                  *)
ComesDue(t) ==
    /\ t \in Pending /\ ~task[t].due
    /\ task' = [task EXCEPT ![t].due = TRUE]
    /\ UNCHANGED <<poolVars, loop, latch>>

(* The user: makes a task, for which the latch is triggered or not, calls, stops the wallet.  *)
AddTask(t, triggers) ==
    /\ task[t].state = "absent"
    /\ task' = [task EXCEPT ![t] = [state |-> "pending", due |-> TRUE, tries |-> 0]]
    /\ latch' = (latch \/ triggers)
    /\ UNCHANGED <<poolVars, loop>>

UserCalls(c) ==
    /\ promise[c] = "none"
    /\ DoRpc(c)
    /\ UNCHANGED <<stopped, failures, task, loop, latch>>

Stop ==
    /\ StopPool /\ Fail
    /\ UNCHANGED <<task, loop, latch>>

TasksInit ==
    /\ PoolInit
    /\ \E some \in SUBSET Tasks :
          task = [t \in Tasks |-> [state |-> IF t \in some THEN "pending" ELSE "absent", due |-> t \in some, tries |-> 0]]
    /\ \E option \in BOOLEAN : loop = [pc |-> "look", list |-> <<>>, first |-> TRUE, stopWhenDone |-> option]
    /\ latch = FALSE

TasksIdle ==
    /\ PoolInit
    /\ task = [t \in Tasks |-> [state |-> "absent", due |-> FALSE, tries |-> 0]]
    /\ loop = [pc |-> "ended", list |-> <<>>, first |-> TRUE, stopWhenDone |-> FALSE] /\ latch = FALSE

LoopNext == Iterate \/ Wake \/ ProcessNext \/ Processed \/ NextIteration

TasksNext ==
    \/ PoolNext /\ UNCHANGED <<task, loop, latch>>
    \/ LoopNext
    \/ \E t \in Tasks : ComesDue(t) \/ \E triggers \in BOOLEAN : AddTask(t, triggers)
    \/ \E c \in Users : UserCalls(c)
    \/ Stop

TasksFairness ==
    /\ WF_taskVars(LoopNext)
    /\ \A t \in Tasks : WF_taskVars(ComesDue(t))
    /\ PoolFairness

-----------------------------------------------------------------------------
(* Until the wallet is stopped, the pool counts its busy workers right, and no call waits    *)
(* while a worker is free.                                                         *)
PoolBusy ==
    ~stopped =>
        /\ numBusy = Cardinality({w \in Workers : slots[w].item # Nobody})
        /\ Waiting # {} => numBusy = Concurrency

(* A task that is pending is started again and again until it is done, or the loop ends,      *)
(* or an operation was not answered: no failure of one task keeps others from being run.    *)
(* A task that is done does not come back, so that all of them are done in the end.         *)
TasksServed ==
    []<>(\/ \A t \in Tasks : task[t].state # "pending"
         \/ loop.pc = "ended" \/ unanswered # {} \/ stopped)
=============================================================================
