------------------------------ MODULE TruthGet ------------------------------
(***************************************************************************)
(* GET /truth/$UUID of the backend (backend/anastasis-httpd_truth.c) for   *)
(* one truth: payment, challenge, suspension, answer, key share; with the  *)
(* authorization plugins, the merchant, the wallet and the bank around it. *)
(*                                                                         *)
(* The backend is one thread: an action is one callback of its event loop  *)
(* with all the calls it makes.  Interleaving comes from the callbacks a   *)
(* suspended request waits for.  A failed assertion kills the process: the *)
(* action ends there, the database keeps what was written, memory is lost. *)
(***************************************************************************)
EXTENDS ChallengeTable, PaymentTable, ContainerLists

CONSTANTS
    Slots,          \* requests the server can have open at a time
    Methods,        \* authorization methods: see MethodType
    Inputs,         \* what clients send, per method: see InputType
    Pids,           \* payment identifiers
    Codes,          \* random codes
    OfferLifetime,  \* ANASTASIS_CHALLENGE_OFFER_LIFETIME
    PayCounter,     \* SQL default of anastasis_challenge_payment.counter
    AnswerTries,    \* INITIAL_RETRY_COUNTER
    AnswerValidity, \* validity of the codes rate_limit creates
    StartTime, MaxTime, MaxArrivals, MaxRestarts, MaxWires  \* bounds

Kinds == {"question", "totp", "helper", "iban"}  \* helper: sms, email, post

MethodType == [kind: Kinds, cost: BOOLEAN, rotation: Nat, validity: Nat,
               retransmission: Nat, retries: Int]

\* Responses that are no code: none at all, a wrong one, and the right answer
\* where that is not a code of ours (security question, TOTP).
NoResponse == -1
WrongResponse == -2
RightResponse == -3
NoPid == "none"

InputType == [pid: Pids \cup {NoPid}, wait: Nat,
              response: Codes \cup {NoResponse, WrongResponse, RightResponse}]

ASSUME MethodsAssumption == Methods \subseteq MethodType
ASSUME InputsAssumption == \A m \in Methods : Inputs[m] \subseteq InputType
\* A random code and its successor (see CheckedAnswer) are not both drawn.
ASSUME CodesAssumption == Codes \subseteq Nat /\ \A c \in Codes : c + 1 \notin Codes

\* Null pointers are no contexts and no identifiers; date 0 is never.
ASSUME NamesAssumption == Nil \notin Slots /\ NoPid \notin Pids
ASSUME NumbersAssumption ==
    /\ StartTime \in Nat \ {0} /\ MaxTime \in Nat
    /\ OfferLifetime \in Nat /\ AnswerValidity \in Nat
    /\ PayCounter \in Int /\ AnswerTries \in Int

\* libanastasis_plugin_authorization_iban_init: code_rotation_period is zero and
\* retry_counter is UINT32_MAX, -1 for the database.
ASSUME IbanAssumption ==
    \A m \in Methods : m.kind = "iban" => m.rotation = 0 /\ m.retries < 0

VARIABLES
    now,       \* the clock
    proc,      \* the backend process: up, stopped or aborted
    method,    \* authorization method of the truth
    gc,        \* struct GetContext, per slot
    conn,      \* MHD's view: idle, ready, parked (suspended) or replied
    list,      \* gc_head, gc_tail
    heap,      \* AH_to_heap: how many entries point to the context
    refunds,   \* re_head: refunds in flight, per order
    codes,     \* anastasis_challengecode
    pays,      \* anastasis_challenge_payment
    orders,    \* the merchant's view of each order
    wires,     \* anastasis_auth_iban_in: transfers from the truth's account
    issued,    \* history: codes handed to a plugin
    swapped,   \* history: begin_payment inserted into a list that had elements
    arrivals, restarts  \* counters for the bounds
mem == <<gc, conn, list, heap, refunds>>
world == <<now, method, orders, wires>>
counts == <<arrivals, restarts>>
vars == <<proc, mem, codes, pays, world, issued, swapped, counts>>

Truth == "truth"
NoContext == [live |-> FALSE]

\* The first call of the handler: GNUNET_new and the parsing of the request.
\* as: the plugin's state.  merchant: which of po and cpo is set.  event: a
\* database event for the plugin is on its way.  found: history, see
\* PaidContinues.
Fresh(i) ==
    [live |-> TRUE, pid |-> i.pid, provided |-> i.pid # NoPid, response |-> i.response,
     timeout |-> now + i.wait, code |-> 0, as |-> "none", merchant |-> "none",
     resp |-> "none", hn |-> FALSE, inList |-> FALSE, suspended |-> FALSE,
     event |-> FALSE, found |-> FALSE, reply |-> "none"]

Members == {r \in Slots : gc[r].live /\ gc[r].inList}

\* What is left of the process when it ends.
MemoryLost ==
    /\ gc' = [r \in Slots |-> NoContext]
    /\ conn' = [r \in Slots |-> "idle"]
    /\ list' = EmptyList(Slots)
    /\ heap' = [r \in Slots |-> 0]
    /\ refunds' = [p \in Pids |-> 0]

Abort == proc' = "aborted" /\ MemoryLost

-----------------------------------------------------------------------------
(* How a call of the handler ends.  g is the context as the call leaves it. *)

Reply(r, g, what) ==
    /\ gc' = [gc EXCEPT ![r] = [g EXCEPT !.reply = what, !.as = "none"]]
    /\ conn' = [conn EXCEPT ![r] = "replied"]

\* gc_suspended, after the plugin has suspended the connection.
Suspend(r, g) ==
    /\ gc' = [gc EXCEPT ![r] = [g EXCEPT !.suspended = TRUE, !.hn = TRUE]]
    /\ conn' = [conn EXCEPT ![r] = "parked"]
    /\ heap' = [heap EXCEPT ![r] = @ + 1]

\* ANASTASIS_AUTHORIZATION_RES_FAILED; begin_refund.
Failed(r, g) ==
    /\ Reply(r, g, "error")
    /\ refunds' = IF g.provided THEN [refunds EXCEPT ![g.pid] = @ + 1] ELSE refunds
    /\ UNCHANGED <<proc, heap, pays>>

\* ANASTASIS_AUTHORIZATION_RES_SUCCESS; mark_challenge_sent.
Sent(r, g, table) ==
    /\ Reply(r, g, "sent")
    /\ codes' = AfterSent(table, Truth, g.code, now)
    /\ pays' = IF g.pid = NoPid THEN pays ELSE AfterIssue(pays, g.pid)
    /\ UNCHANGED <<proc, heap, refunds>>

-----------------------------------------------------------------------------
(* run_authorization_process.  l is the list and table the challenge codes   *)
(* as the handler has left them so far.                                      *)

\* sms_process, email_process, post_process: the first call starts the helper;
\* a call while it runs suspends again; a call after it has ended replies.
HelperProcess(r, g, l, table) ==
    /\ list' = l
    /\ \/ /\ g.as \in {"new", "child"}
          /\ Suspend(r, [g EXCEPT !.as = "child"])
          /\ codes' = table
          /\ UNCHANGED <<proc, refunds, pays>>
       \/ g.as \in {"new", "bad"} /\ Failed(r, g) /\ codes' = table
       \/ g.as = "ok" /\ Sent(r, g, table)

\* Mutant: check_payment_ok does not compare the code.
WiredWithAnyCode(code) == \E w \in wires : w.enough /\ w.at >= now - method.validity

\* test_wire_transfers.
Wired(code) == \E w \in wires : w.code = code /\ w.enough /\ w.at >= now - method.validity

\* iban_process.
IbanProcess(r, g, l, table) ==
    LET satisfied == IsSatisfied(table, Truth, g.code, now - method.validity)
    IN  \/ /\ satisfied \/ Wired(g.code)
           /\ codes' = IF satisfied THEN table ELSE AfterSatisfied(table, Truth, g.code)
           /\ IF g.inList /\ ~Removable(l, r) THEN Abort
              ELSE /\ list' = IF g.inList THEN Removed(l, r) ELSE l
                   /\ gc' = [gc EXCEPT ![r] = [g EXCEPT !.as = "none", !.inList = FALSE]]
                   /\ conn' = [conn EXCEPT ![r] = "ready"]
                   /\ UNCHANGED <<proc, heap, refunds>>
           /\ UNCHANGED pays
        \/ /\ ~satisfied /\ ~Wired(g.code) /\ g.timeout > now
           /\ Suspend(r, [g EXCEPT !.as = "listening"])
           /\ list' = l /\ codes' = table
           /\ UNCHANGED <<proc, refunds, pays>>
        \/ /\ ~satisfied /\ ~Wired(g.code) /\ g.timeout <= now
           /\ Sent(r, g, table)
           /\ list' = l

Process(r, g, l, table) ==
    IF method.kind = "iban" THEN IbanProcess(r, g, l, table) ELSE HelperProcess(r, g, l, table)

\* The end of AH_handler_truth_get: start the plugin, enter the list, process.
\* helper: start marks the code as satisfied, or fails to.  totp: start asserts that the
\* code is 0, and process misses the response.
StartPlugin(r, g, table) ==
    LET l == IF g.inList THEN list ELSE Inserted(list, r)
        g2 == [g EXCEPT !.inList = TRUE, !.as = "new"]
    IN  /\ issued' = issued \cup {g.code}
        /\ CASE method.kind = "totp" /\ g.code # 0 ->
                  Abort /\ codes' = table /\ UNCHANGED pays
             [] method.kind = "totp" /\ g.code = 0 ->
                  Failed(r, g2) /\ list' = l /\ codes' = table
             [] method.kind = "helper" ->
                  \/ HelperProcess(r, g2, l, AfterSatisfied(table, Truth, g.code))
                  \/ /\ Reply(r, g, "error")
                     /\ codes' = table
                     /\ UNCHANGED <<proc, list, heap, refunds, pays>>
             [] method.kind = "iban" ->
                  IbanProcess(r, g2, l, table)

-----------------------------------------------------------------------------
(* AH_handler_truth_get *)

\* The payment gate.
MustPay(g) ==
    /\ method.cost /\ method.kind # "iban"   \* iban: payment_plugin_managed
    /\ ~(g.provided /\ Covers(pays, g.pid))

\* begin_payment.  It asserts that the context is not in the list, and inserts
\* with head and tail of the list exchanged.
BeginPayment(r, g) ==
    LET pending == PendingPayments(pays, now, OfferLifetime)
        fresh == {p \in Pids : orders[p] = "none" /\ ~pays[p].known
                               /\ \A q \in Slots : gc[q].live => gc[q].pid # p}
        Ask(p, what) ==
            IF g.inList THEN Abort /\ UNCHANGED swapped ELSE
            /\ gc' = [gc EXCEPT ![r] = [g EXCEPT !.pid = p, !.merchant = what,
                                                 !.inList = TRUE, !.suspended = TRUE]]
            /\ conn' = [conn EXCEPT ![r] = "parked"]
            /\ list' = Exchanged(Inserted(Exchanged(list), r))
            /\ swapped' = (swapped \/ list.head # Nil)
            /\ UNCHANGED <<proc, heap>>
    IN  /\ \/ \E p \in pending : pending = {p} /\ Ask(p, "check")
           \/ pending = {} /\ \E p \in fresh : Ask(p, "order")
           \/ /\ Cardinality(pending) > 1   \* more than one result: an error
              /\ Reply(r, g, "error")
              /\ UNCHANGED <<proc, list, heap, swapped>>
        /\ UNCHANGED <<refunds, codes, pays, issued>>

\* handle_security_question and direct_validation: rate_limit, then compare.
\* For a random code c the wrong answer that is compared first is c + 1.
CheckedAnswer(r, g, table, n) ==
    LET wrong == n.code + 1
    IN  /\ codes' = AfterVerify(table, Truth, wrong, now)
        /\ IF MatchingRows(table, Truth, wrong, now) # {} THEN Abort
           ELSE /\ Reply(r, g, IF VerifyFails(table, Truth, wrong, now) THEN "error"
                               ELSE IF g.response = RightResponse THEN "share" ELSE "wrong")
                /\ UNCHANGED <<proc, list, heap, refunds>>

LimitedAnswer(r, g) ==
    LET recent == RecentRows(codes, Truth, now, method.rotation)
    IN  /\ \/ /\ recent = {}
              /\ \E code \in Codes :
                    LET n == NewRow(Truth, code, now, AnswerValidity, AnswerTries)
                    IN  CheckedAnswer(r, g, codes \cup {n}, n)
           \/ \E n \in NewestOf(recent) : n.retries # 0 /\ CheckedAnswer(r, g, codes, n)
           \/ /\ \E n \in NewestOf(recent) : n.retries = 0
              /\ Reply(r, g, "limited")
              /\ UNCHANGED <<proc, list, heap, refunds, codes>>
        /\ UNCHANGED <<pays, issued, swapped>>

\* No response, or none that can be checked: create_challenge_code, and unless
\* it is too early to transmit the code again, start the plugin.  The random
\* code is not one that is stored already; for equal codes see ChallengeCodes.
NewChallenge(r, g) ==
    LET recent == RecentRows(codes, Truth, now, method.rotation)
        Stop(what) == Reply(r, g, what) /\ UNCHANGED <<proc, list, heap, refunds, codes, pays, issued>>
        Issue(n, table) ==
            IF now - n.sent < method.retransmission THEN Stop("early")
            ELSE StartPlugin(r, [g EXCEPT !.code = n.code], table)
    IN  /\ \/ /\ recent = {}
              /\ \E code \in Codes \ {c.code : c \in codes} :
                    LET n == NewRow(Truth, code, now, method.validity, method.retries)
                    IN  Issue(n, codes \cup {n})
           \/ \E n \in NewestOf(recent) : n.retries # 0 /\ Issue(n, codes)
           \/ (\E n \in NewestOf(recent) : n.retries = 0) /\ Stop("limited")
        /\ UNCHANGED swapped

\* A response that verify_challenge_code compares with the stored codes.
CodeAnswer(r, g) ==
    LET after == AfterVerify(codes, Truth, g.response, now)
        matching == MatchingRows(codes, Truth, g.response, now)
        Stop(what) == /\ Reply(r, g, what)
                      /\ codes' = after
                      /\ UNCHANGED <<proc, list, heap, refunds, pays, issued>>
    IN  IF UsableRows(codes, Truth, now) = {}
        THEN NewChallenge(r, [g EXCEPT !.response = NoResponse])
        ELSE /\ IF VerifyFails(codes, Truth, g.response, now) THEN Stop("error")
                ELSE IF matching = {} THEN Stop("wrong")
                ELSE \E c \in matching :
                        IF c.satisfied THEN Stop("share")
                        ELSE StartPlugin(r, [g EXCEPT !.code = c.code], after)
             /\ UNCHANGED swapped

\* Everything from the loading of the truth on.  The first disjunct stands for
\* all replies of an error before anything has been changed: unknown or
\* undecryptable truth, no plugin, invalid data, failed queries.
Serve(r, g) ==
    \/ /\ Reply(r, g, "error")
       /\ UNCHANGED <<proc, list, heap, refunds, codes, pays, issued, swapped>>
    \/ MustPay(g) /\ BeginPayment(r, g)
    \/ /\ ~MustPay(g)
       /\ IF method.kind = "question" /\ g.response = NoResponse
          THEN /\ Reply(r, g, "error")
               /\ UNCHANGED <<proc, list, heap, refunds, codes, pays, issued, swapped>>
          ELSE IF g.response = NoResponse THEN NewChallenge(r, g)
          ELSE IF method.kind \in {"question", "totp"} THEN LimitedAnswer(r, g)
          ELSE CodeAnswer(r, g)

\* The codes that replies or helpers have told the user.
Told == {c.code : c \in {d \in codes : d.sent # 0}}

\* A client sends a request and the handler is called for the first time.  (It
\* takes IBAN codes from earlier replies: for guessing see ChallengeCodes.)
Request(r, i) ==
    /\ proc = "up" /\ conn[r] = "idle" /\ arrivals < MaxArrivals
    /\ now + i.wait <= MaxTime
    /\ method.kind = "iban" /\ i.response \in Codes => i.response \in Told
    /\ Serve(r, Fresh(i))
    /\ arrivals' = arrivals + 1
    /\ UNCHANGED <<world, restarts>>

\* Mutant: gc->suspended is not reset when the handler runs again.
ReenteredSuspended(r) == gc[r]

\* The context with which the handler runs again.
Reentered(r) == [gc[r] EXCEPT !.suspended = FALSE]

\* MHD calls the handler again for a connection that was resumed, or that was
\* left without a reply.
Resume(r) ==
    LET g == Reentered(r)
    IN  /\ conn[r] = "ready"
        /\ \/ /\ g.resp # "none"
              /\ Reply(r, [g EXCEPT !.resp = "none"], g.resp)
              /\ UNCHANGED <<proc, list, heap, refunds, codes, pays, issued, swapped>>
           \/ /\ g.resp = "none" /\ g.as # "none"
              /\ Process(r, g, list, codes)
              /\ UNCHANGED <<issued, swapped>>
           \/ g.resp = "none" /\ g.as = "none" /\ Serve(r, g)
        /\ UNCHANGED <<world, counts>>

\* Mutant: request_done leaves the context in the heap.
HeapFreedOfNone(r) == heap

\* The heap once request_done has removed gc->hn.
HeapFreed(r) == IF gc[r].hn THEN [heap EXCEPT ![r] = @ - 1] ELSE heap

\* MHD has sent the reply: request_done.
RequestDone(r) ==
    /\ conn[r] = "replied"
    /\ IF gc[r].suspended \/ (gc[r].inList /\ ~Removable(list, r)) THEN Abort
       ELSE /\ gc' = [gc EXCEPT ![r] = NoContext]
            /\ conn' = [conn EXCEPT ![r] = "idle"]
            /\ list' = IF gc[r].inList THEN Removed(list, r) ELSE list
            /\ heap' = HeapFreed(r)
            /\ UNCHANGED <<proc, refunds>>
    /\ UNCHANGED <<codes, pays, issued, swapped, world, counts>>

-----------------------------------------------------------------------------
(* Callbacks of the merchant, the timer, the plugins *)

\* What proposal_cb and check_payment_cb reset in the context.
Unwaiting(g) == [g EXCEPT !.merchant = "none", !.inList = FALSE, !.suspended = FALSE]

\* Mutant: in_list is reset, but the context stays in the list.
ResumedInList(r, g) ==
    /\ gc' = [gc EXCEPT ![r] = Unwaiting(g)]
    /\ conn' = [conn EXCEPT ![r] = "ready"]
    /\ UNCHANGED <<proc, list, heap, refunds>>

\* Mutant: the connection is not resumed.
ResumedNot(r, g) ==
    /\ gc' = [gc EXCEPT ![r] = Unwaiting(g)]
    /\ list' = Removed(list, r)
    /\ UNCHANGED <<proc, conn, heap, refunds>>

\* The common start of proposal_cb and check_payment_cb: leave the list and
\* resume.  g is the context with the fields the callback sets.
Resumed(r, g) ==
    /\ gc' = [gc EXCEPT ![r] = Unwaiting(g)]
    /\ conn' = [conn EXCEPT ![r] = "ready"]
    /\ list' = Removed(list, r)
    /\ UNCHANGED <<proc, heap, refunds>>

MayResume(r) == gc[r].inList /\ Removable(list, r) /\ gc[r].suspended

\* The order exists and is recorded; or the merchant or the database failed,
\* the merchant possibly after it has created the order.
ProposalCb(r) ==
    LET g == gc[r]
        Outcome(resp, order, table) ==
            /\ Resumed(r, [g EXCEPT !.resp = resp])
            /\ orders' = [orders EXCEPT ![g.pid] = order]
            /\ pays' = table
    IN  /\ g.live /\ g.merchant = "order"
        /\ IF ~MayResume(r) THEN Abort /\ UNCHANGED <<orders, pays>>
           ELSE \/ Outcome("pay", "unpaid", [pays EXCEPT ![g.pid] = NewPayment(now, PayCounter)])
                \/ Outcome("error", "unpaid", pays)
                \/ Outcome("error", "none", pays)
        /\ UNCHANGED <<codes, now, method, wires, issued, swapped, counts>>

\* The merchant's answer may have been overtaken by the payment.
CheckPaymentCb(r) ==
    LET g == gc[r]
    IN  /\ g.live /\ g.merchant = "check"
        /\ IF ~MayResume(r) THEN Abort /\ UNCHANGED pays
           ELSE \/ /\ orders[g.pid] \in {"paid", "refunded"}
                   /\ Resumed(r, [g EXCEPT !.found = TRUE])
                   /\ pays' = AfterPaid(pays, g.pid)
                \/ /\ orders[g.pid] # "none"
                   /\ Resumed(r, [g EXCEPT !.resp = "pay"])
                   /\ UNCHANGED pays
                \/ /\ Resumed(r, [g EXCEPT !.resp = "error"])
                   /\ UNCHANGED pays
        /\ UNCHANGED <<codes, world, issued, swapped, counts>>

\* refund_cb: the refund was granted; or it was granted and we do not learn of
\* it; or it was refused.
RefundCb(p) ==
    /\ proc = "up" /\ refunds[p] > 0
    /\ refunds' = [refunds EXCEPT ![p] = @ - 1]
    /\ \/ /\ orders[p] \in {"paid", "refunded"}
          /\ orders' = [orders EXCEPT ![p] = "refunded"]
          /\ pays' \in {AfterRefund(pays, p), pays}
       \/ UNCHANGED <<orders, pays>>
    /\ UNCHANGED <<proc, gc, conn, list, heap, codes, now, method, wires, issued, swapped, counts>>

\* do_timeout: the whole loop.  It ends the process if it meets a context
\* whose hn is NULL; what it does with the entry of a freed context is
\* undefined, we take the same end.
DoTimeout ==
    LET due == {r \in Slots : heap[r] > 0 /\ (gc[r].live => gc[r].timeout <= now)}
    IN  /\ proc = "up" /\ due # {}
        /\ IF \E r \in due : ~gc[r].live \/ ~gc[r].hn \/ heap[r] > 1 THEN Abort
           ELSE /\ gc' = [r \in Slots |-> IF r \in due
                            THEN [gc[r] EXCEPT !.suspended = FALSE, !.hn = FALSE] ELSE gc[r]]
                /\ conn' = [r \in Slots |-> IF r \in due /\ gc[r].suspended /\ conn[r] = "parked"
                                            THEN "ready" ELSE conn[r]]
                /\ heap' = [r \in Slots |-> IF r \in due THEN 0 ELSE heap[r]]
                /\ UNCHANGED <<proc, list, refunds>>
        /\ UNCHANGED <<codes, pays, world, issued, swapped, counts>>

\* MHD_resume_connection for a connection that may already be resumed.  The
\* plugins that call it know nothing of gc->suspended and the heap.
Woken(r, as) ==
    /\ gc' = [gc EXCEPT ![r] = [gc[r] EXCEPT !.as = as, !.event = FALSE]]
    /\ conn' = [conn EXCEPT ![r] = IF @ = "parked" THEN "ready" ELSE @]
    /\ UNCHANGED <<proc, list, heap, refunds, codes, pays, world, issued, swapped, counts>>

\* sms_done_cb, email_done_cb, post_done_cb.
HelperDone(r) ==
    /\ gc[r].live /\ gc[r].as = "child"
    /\ Woken(r, "ok") \/ Woken(r, "bad")

\* bank_event_cb, for a transfer or at the timeout of event_listen.
BankEvent(r) ==
    /\ gc[r].live /\ gc[r].as = "listening"
    /\ gc[r].event \/ (gc[r].timeout <= now /\ conn[r] = "parked")
    /\ Woken(r, "listening")

-----------------------------------------------------------------------------
(* The end of the process *)

\* do_shutdown: AH_truth_shutdown takes the contexts off the list and resumes
\* them, then MHD_stop_daemon ends all requests, which fails for a connection
\* that is still suspended and, in request_done, for a context that is.
Shutdown ==
    /\ proc = "up"
    /\ IF \/ ~IsListOf(list, Members)
          \/ \E r \in Slots : /\ gc[r].live /\ ~gc[r].inList
                              /\ gc[r].suspended \/ conn[r] = "parked"
       THEN Abort
       ELSE proc' = "stopped" /\ MemoryLost
    /\ UNCHANGED <<codes, pays, world, issued, swapped, counts>>

Restart ==
    /\ proc # "up" /\ restarts < MaxRestarts
    /\ proc' = "up"
    /\ restarts' = restarts + 1
    /\ swapped' = FALSE
    /\ UNCHANGED <<mem, codes, pays, world, issued, arrivals>>

-----------------------------------------------------------------------------
(* The world around the backend *)

Tick ==
    /\ now < MaxTime
    /\ now' = now + 1
    /\ UNCHANGED <<proc, mem, codes, pays, method, orders, wires, issued, swapped, counts>>

\* The wallet pays an order.
Pay(p) ==
    /\ orders[p] = "unpaid"
    /\ orders' = [orders EXCEPT ![p] = "paid"]
    /\ UNCHANGED <<proc, mem, codes, pays, now, method, wires, issued, swapped, counts>>

\* A transfer from the truth's account, with a code the user was told: the
\* helper records it and notifies.
Transfer(code, enough) ==
    /\ method.kind = "iban" /\ Cardinality(wires) < MaxWires
    /\ code \in Told
    /\ wires' = wires \cup {[code |-> code, enough |-> enough, at |-> now]}
    /\ gc' = [r \in Slots |->
                IF gc[r].live /\ gc[r].as = "listening" /\ gc[r].code = code
                THEN [gc[r] EXCEPT !.event = TRUE] ELSE gc[r]]
    /\ UNCHANGED <<proc, conn, list, heap, refunds, codes, pays, now, method, orders,
                   issued, swapped, counts>>

-----------------------------------------------------------------------------

Init ==
    /\ now = StartTime
    /\ proc = "up"
    /\ method \in Methods
    /\ gc = [r \in Slots |-> NoContext]
    /\ conn = [r \in Slots |-> "idle"]
    /\ list = EmptyList(Slots)
    /\ heap = [r \in Slots |-> 0]
    /\ refunds = [p \in Pids |-> 0]
    /\ codes = {}
    /\ pays = [p \in Pids |-> Absent]
    /\ orders = [p \in Pids |-> "none"]
    /\ wires = {}
    /\ issued = {}
    /\ swapped = FALSE
    /\ arrivals = 0 /\ restarts = 0

Next ==
    \/ \E r \in Slots :
          \/ \E i \in Inputs[method] : Request(r, i)
          \/ Resume(r) \/ RequestDone(r)
          \/ ProposalCb(r) \/ CheckPaymentCb(r)
          \/ HelperDone(r) \/ BankEvent(r)
    \/ \E p \in Pids : RefundCb(p) \/ Pay(p)
    \/ \E code \in Codes, enough \in BOOLEAN : Transfer(code, enough)
    \/ DoTimeout \/ Shutdown \/ Restart \/ Tick

\* The event loop runs what is ready, the merchant (or the timeout of the HTTP
\* client) and the helper programs answer, and time passes.  Nobody has to
\* send, pay, wire or restart anything.
Fairness ==
    /\ \A r \in Slots : /\ WF_vars(Resume(r)) /\ WF_vars(RequestDone(r))
                        /\ WF_vars(ProposalCb(r)) /\ WF_vars(CheckPaymentCb(r))
                        /\ WF_vars(HelperDone(r)) /\ WF_vars(BankEvent(r))
    /\ WF_vars(DoTimeout) /\ WF_vars(Tick)

Spec == Init /\ [][Next]_vars
FairSpec == Spec /\ Fairness

-----------------------------------------------------------------------------

Replied(r, what) == gc[r].live /\ gc[r].reply = what

\* A key share leaves the server only if the challenge was met: for a code, the
\* client sent one a plugin was given; for IBAN, moreover, a sufficient transfer
\* with that code has arrived; otherwise, the client sent the right answer.
KeyShareProven ==
    \A r \in Slots : Replied(r, "share") =>
        CASE method.kind \in {"question", "totp"} -> gc[r].response = RightResponse
          [] method.kind = "helper" -> gc[r].response \in issued
          [] method.kind = "iban" ->
                \E w \in wires : w.code = gc[r].response /\ w.enough

\* "We've been paid, now validate response": whoever gets a challenge issued or
\* a key share holds an order that the wallet has paid, wherever the request
\* waited, whatever was restarted and whichever identifier the client sent.
PaidBeforeServed ==
    method.cost /\ method.kind # "iban" =>
        \A r \in Slots :
            gc[r].live /\ (gc[r].as # "none" \/ gc[r].reply \in {"sent", "share"})
                => gc[r].pid # NoPid /\ orders[gc[r].pid] \in {"paid", "refunded"}

\* hn: "Our entry in the #to_heap, or NULL."  A context has one entry or none,
\* hn says which, and no entry outlives its context.
HeapOwned ==
    \A r \in Slots : heap[r] = IF gc[r].live /\ gc[r].hn THEN 1 ELSE 0

\* A transfer has fallen short of the expected amount.
Underpaid == \E w \in wires : ~w.enough

\* An IBAN code has expired.
Expired == method.kind = "iban" /\ \E c \in codes : c.expires <= now

\* The same, unless a transfer has fallen short or a code has expired: then a
\* request woken by the bank finds nothing and waits again.
HeapExact == Underpaid \/ Expired \/ HeapOwned

\* in_list: "True if this entry is in the #gc_head DLL."
InListReached == \A r \in Members : r \in Reached(list)

\* The same, together with the shape of the list, unless begin_payment has
\* inserted into a list that had elements.
ListExact == swapped \/ IsListOf(list, Members)

\* "Order has been paid, continuing with request processing": a request that
\* found its order paid is not asked to pay another one.
PaidContinues == \A r \in Slots : gc[r].live /\ gc[r].found => gc[r].merchant # "order"

\* totp_start: "code always 0 (direct validation, backend does not generate a
\* code in this mode)": no other code reaches the TOTP plugin.
DirectValidation == method.kind = "totp" => issued \subseteq {0}

\* No assertion of the handler, its callbacks and the shutdown fails except
\* over a list that begin_payment has damaged, an entry of the heap that is
\* doubled (see HeapExact), or a TOTP request without response: none is
\* suspended twice, resumed while running, freed while suspended, or left
\* behind by the shutdown.
AssertionsHold ==
    proc = "aborted" => swapped \/ Underpaid \/ Expired \/ ~DirectValidation

\* A request, once it has arrived, is answered, or the process ends: no wake-up
\* is lost between the merchant, the helpers, the bank, the timer and MHD.
Answered == \A r \in Slots : conn[r] \in {"ready", "parked"} ~> conn[r] \in {"replied", "idle"}
=============================================================================
