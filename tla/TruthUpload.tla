--------------------------------- MODULE TruthUpload ---------------------------------
(* POST /truth/$UUID of the backend (backend/anastasis-httpd_truth_upload.c): the storage of  *)
(* truths, for which clients pay by the year. The order at the merchant has the truth's own   *)
(* UUID. An action is one call by MHD or by the merchant's client. Parsing is left out, and   *)
(* so are requests that are refused for their form, which change nothing.              *)
LOCAL INSTANCE Naturals

CONSTANTS
    TruthSlots,         \* requests at a time
    Uuids,
    TruthContents,      \* [type, truth, share]: truth stands for encrypted_truth and truth_mime
    StorageYears,       \* what clients ask for as storage_duration_years
    TruthYear, GraceWeek, \* GNUNET_TIME_UNIT_YEARS and _WEEKS
    MaxStorageYears,    \* ANASTASIS_MAX_YEARS_STORAGE
    Unset,              \* dates that a variable may hold which nobody has set
    LastDay, MaxUploads \* bounds

ASSUME StorageAssumption ==
    /\ TruthYear \in Nat \ {0} /\ GraceWeek \in Nat /\ MaxStorageYears \in Nat
    /\ StorageYears \subseteq 0 .. MaxStorageYears /\ Unset \subseteq Nat
    /\ \A c \in TruthContents : DOMAIN c = {"type", "truth", "share"}

VARIABLES
    today,          \* the clock
    truthFree,      \* is AH_truth_upload_fee zero?
    tuc,            \* struct TruthUploadContext, per slot
    truths,         \* table anastasis_truth; at and unset are history: stored when, paid_until never set
    truthPayments,  \* table anastasis_truth_payment: UUID |-> expiration, 0 if there is no row
    truthOrders,    \* the merchant's orders: UUID |-> [state, years]
    told,           \* history: what clients were told to be stored, [uuid, content]
    uploads         \* counter for the bound

truthVars == <<today, truthFree, tuc, truths, truthPayments, truthOrders, told, uploads>>

NoUpload == [state |-> "idle"]
NoTruth == [expiration |-> 0]
NoTruthOrder == [state |-> "none", years |-> 0]

TruthReplies(s) == tuc' = [tuc EXCEPT ![s] = NoUpload]

-----------------------------------------------------------------------------
(* The handler *)

(* Mutant: only the method is compared.                                        *)
SameTruthShallow(a, b) == a.type = b.type

(* What is compared when the UUID is taken already: not the key share.                  *)
SameTruth(a, b) == a.type = b.type /\ a.truth = b.truth

(* store_truth, and the comparison if there is a row with this UUID. (That path frees        *)
(* encrypted_truth twice; whether the process survives it depends on GNUnet's version, and      *)
(* TruthRestart stands for the other case.)                                         *)
StoreTruth(s, g, until, unset) ==
    /\ TruthReplies(s)
    /\ \/ UNCHANGED <<truths, told>>        \* the database fails, or 409
       \/ /\ truths[g.uuid] = NoTruth
          /\ truths' = [truths EXCEPT ![g.uuid] =
                            [content |-> g.content, expiration |-> until, at |-> today, unset |-> unset]]
          /\ told' = told \cup {[uuid |-> g.uuid, content |-> g.content]}
       \/ /\ truths[g.uuid] # NoTruth /\ SameTruth(truths[g.uuid].content, g.content)
          /\ told' = told \cup {[uuid |-> g.uuid, content |-> g.content]}
          /\ UNCHANGED truths

(* begin_payment: ask the merchant, and suspend; or that fails at once.                *)
BeginTruthPayment(s, g, toPay) ==
    /\ tuc' = [tuc EXCEPT ![s] = [g EXCEPT !.state = "parked", !.merchant = "check", !.toPay = toPay]]
       \/ TruthReplies(s)
    /\ UNCHANGED <<truths, told>>

YearsToPay(until, desired) ==
    IF desired > until THEN (desired - until + TruthYear - 1) \div TruthYear ELSE 0

(* The part of the handler that runs in the first call and again after each wait. If          *)
(* check_truth_upload_paid finds no row, paid_until is used without having been set.       *)
ServeTruth(s, g) ==
    LET desired == today + g.years * TruthYear
        paidUntil == truthPayments[g.uuid]
    IN  \/ /\ truthFree
           /\ StoreTruth(s, g, today + MaxStorageYears * TruthYear, FALSE)
        \/ /\ ~truthFree /\ paidUntil > today
           /\ IF paidUntil < desired THEN BeginTruthPayment(s, g, YearsToPay(paidUntil, desired))
              ELSE StoreTruth(s, g, paidUntil, FALSE)
        \/ /\ ~truthFree /\ paidUntil <= today
           /\ \E value \in Unset :
                LET until == IF value < today THEN today ELSE value
                    toPay == YearsToPay(until, desired)
                IN IF toPay > 0 THEN BeginTruthPayment(s, g, toPay) ELSE StoreTruth(s, g, until, TRUE)

(* The call with the complete body.                                             *)
PostTruth(s, uuid, content, years) ==
    /\ tuc[s] = NoUpload /\ uploads < MaxUploads
    /\ uploads' = uploads + 1
    /\ ServeTruth(s, [state |-> "called", uuid |-> uuid, content |-> content, merchant |-> "none", resp |-> "none",
                      years |-> IF years = 0 THEN 1 ELSE years, toPay |-> 0])
    /\ UNCHANGED <<today, truthFree, truthPayments, truthOrders>>

(* MHD calls the handler again: it sends what a callback has left in tuc->resp, or goes on.  *)
ResumeTruth(s) ==
    /\ tuc[s].state = "resumed"
    /\ IF tuc[s].resp # "none" THEN TruthReplies(s) /\ UNCHANGED <<truths, told>>
       ELSE ServeTruth(s, tuc[s])
    /\ UNCHANGED <<today, truthFree, truthPayments, truthOrders, uploads>>

-----------------------------------------------------------------------------
(* Callbacks of the merchant *)

ResumedWith(s, resp) == tuc' = [tuc EXCEPT ![s] = [@ EXCEPT !.state = "resumed", !.merchant = "none", !.resp = resp]]

(* record_truth_upload_payment, whose key is the UUID: there is one row, for good.         *)
RecordTruthPayment(payments, uuid, order) ==
    [payments EXCEPT ![uuid] = today + order.years * TruthYear + GraceWeek]
CanRecord(payments, uuid) == payments[uuid] = 0

(* Mutant: an order that was claimed, or only made, counts as paid.                    *)
ConfirmedByAny(order) == order.state # "none"

ConfirmedBy(order) == order.state = "paid"

(* check_payment_cb. Without an order it asks for one, and stays suspended.             *)
TruthCheckPaymentCb(s) ==
    LET g == tuc[s]
        order == truthOrders[g.uuid]
    IN  /\ g.state = "parked" /\ g.merchant = "check"
        /\ \/ /\ ConfirmedBy(order) /\ CanRecord(truthPayments, g.uuid)
              /\ truthPayments' = RecordTruthPayment(truthPayments, g.uuid, order)
              /\ ResumedWith(s, "none")
           \/ /\ order.state # "none" /\ ~ConfirmedBy(order)
              /\ ResumedWith(s, "payment required")
              /\ UNCHANGED truthPayments
           \/ /\ order.state = "none"
              /\ tuc' = [tuc EXCEPT ![s].merchant = "order"]
              /\ UNCHANGED truthPayments
           \/ ResumedWith(s, "error") /\ UNCHANGED truthPayments
        /\ UNCHANGED <<today, truthFree, truths, truthOrders, told, uploads>>

(* proposal_cb. The merchant refuses a second order under one UUID.                  *)
TruthProposalCb(s) ==
    LET g == tuc[s]
    IN  /\ g.state = "parked" /\ g.merchant = "order"
        /\ \/ /\ truthOrders[g.uuid] = NoTruthOrder
              /\ truthOrders' = [truthOrders EXCEPT ![g.uuid] = [state |-> "unpaid", years |-> g.toPay]]
              /\ ResumedWith(s, "payment required") \/ ResumedWith(s, "error")
           \/ ResumedWith(s, "error") /\ UNCHANGED truthOrders
        /\ UNCHANGED <<today, truthFree, truths, truthPayments, told, uploads>>

-----------------------------------------------------------------------------
(* The rest of the world *)

PayTruth(uuid) ==
    /\ truthOrders[uuid].state = "unpaid"
    /\ truthOrders' = [truthOrders EXCEPT ![uuid].state = "paid"]
    /\ UNCHANGED <<today, truthFree, tuc, truths, truthPayments, told, uploads>>

(* The process ends, in order (AH_truth_upload_shutdown resumes what waits) or not.      *)
TruthRestart ==
    /\ \E s \in TruthSlots : tuc[s] # NoUpload
    /\ tuc' = [s \in TruthSlots |-> NoUpload]
    /\ UNCHANGED <<today, truthFree, truths, truthPayments, truthOrders, told, uploads>>

NextDay ==
    /\ today < LastDay /\ today' = today + 1
    /\ UNCHANGED <<truthFree, tuc, truths, truthPayments, truthOrders, told, uploads>>

TruthTables ==
    /\ tuc = [s \in TruthSlots |-> NoUpload]
    /\ truths = [u \in Uuids |-> NoTruth]
    /\ truthPayments = [u \in Uuids |-> 0]
    /\ truthOrders = [u \in Uuids |-> NoTruthOrder]
    /\ told = {} /\ uploads = 0
TruthInit == today = 1 /\ truthFree \in BOOLEAN /\ TruthTables
TruthIdle == today = 0 /\ truthFree = FALSE /\ TruthTables

TruthNext ==
    \/ \E s \in TruthSlots :
          \/ \E u \in Uuids, c \in TruthContents, y \in StorageYears : PostTruth(s, u, c, y)
          \/ ResumeTruth(s) \/ TruthCheckPaymentCb(s) \/ TruthProposalCb(s)
    \/ \E u \in Uuids : PayTruth(u)
    \/ TruthRestart \/ NextDay

-----------------------------------------------------------------------------
(* A truth is only stored for a paid order, whichever of the requests for it had that order   *)
(* made or saw it paid, and for no longer than was paid; except by requests for which      *)
(* paid_until happened to hold a late date (truths[u].unset).                       *)
TruthsPaid ==
    ~truthFree => \A u \in Uuids : truths[u] # NoTruth /\ ~truths[u].unset =>
        /\ truthOrders[u].state = "paid"
        /\ truths[u].expiration <= truths[u].at + truthOrders[u].years * TruthYear + GraceWeek

(* A truth that a client was told to be stored (204) is, with its method and mime type,    *)
(* whatever other clients upload under its UUID.                                  *)
TruthsTold ==
    \A t \in told :
        LET stored == truths[t.uuid]
        IN stored # NoTruth /\ stored.content.type = t.content.type /\ stored.content.truth = t.content.truth
=============================================================================
