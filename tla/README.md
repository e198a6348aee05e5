# Anastasis in TLA+

Anastasis is a key recovery service. A client splits a secret into key shares,
each protected by an authorization method (security question, code by SMS,
e-mail or letter, wire transfer, TOTP), and stores the shares ("truths") and an
encrypted recovery document ("policy") with several providers. The repository
holds the provider's server, the *backend* (`src/anastasis-g12e1f2b/src`, C and
SQL), and `src/wallet-core-ga35604fd`: the TypeScript client (the *reducer*), the
GNU Taler *wallet*, with whose money clients pay the providers and whose
database Anastasis backs up, and the wallet's IndexedDB implementation,
*idb-bridge*. This directory holds a specification of these: TLA+ modules
translated from the sources, TLC configurations that check them, and TLAPS
proofs. `PROJECT.json` lists components, runs, mutants, findings and hazards, and
maps every definition to the lines it stands for.

## 1. The system

### The backend

| Part | State | Operations | Talks to |
|---|---|---|---|
| `GET /truth/$UUID` (`backend/anastasis-httpd_truth.c`) | one `GetContext` per request; list of contexts, heap of deadlines, list of refunds | handler (called again after every resumption), callbacks of merchant and timer, shutdown | plugins, database, merchant, MHD |
| authorization plugins (`authorization/`) | per request: child process or database listener | `start`, `process`, `cleanup`, exit of the child, bank event | MHD (resume), database |
| challenge codes (`stasis/`, table `anastasis_challengecode`) | rows with code, dates, tries left, satisfied | create, verify, mark sent, mark satisfied, gc | – |
| challenge payments (table `anastasis_challenge_payment`) | per payment: paid, refunded, uses left | record, check, update, refund, decrement | – |
| `POST /policy/$ACCOUNT` (`backend/anastasis-httpd_policy_upload.c`) | one `PolicyUploadContext` per request | handler for header and body, callbacks of the merchant | database, merchant, MHD |
| accounts (tables `anastasis_user`, `anastasis_recdoc_payment`, `anastasis_recoverydocument`) | expiration per account; uploads left per payment; versions of documents | record payment, increment and update lifetime, store document, gc | – |
| `GET /policy`, `/config`, `/terms` | none | read | database |
| `POST /truth` (`backend/anastasis-httpd_truth_upload.c`) | one context per request | as `POST /policy`, over `anastasis_truth`, `anastasis_truth_payment` | database, merchant |
| IBAN helper and bank client (`anastasis-helper-authorization-iban.c`, `libanastasiseufin`) | position in the bank's history | long polling, recording of transfers | bank, database |
| client library, reducer, GTK client (C) | state of backup and recovery | requests to several providers, policy construction | REST API |

The backend is a single thread with an event loop. A request that has to wait
(for the merchant, a helper program, a wire transfer) is *suspended* in the HTTP
library MHD and *resumed* by a callback; then MHD calls the handler again from
its start. Other requests run between the two, and so do the timer, the
shutdown and everything that happens to the database and at the merchant. This
is where the hard behaviour is:

* several parties (timer, child exit, bank event, merchant, shutdown) may end
  the same wait, and each has to keep list, heap, `suspended` flag and MHD in step;
* what the handler checked before a suspension (payment, counter, expiration)
  may have changed after it;
* the database survives crashes and aborts, memory does not;
* the number of guesses at a code depends on rotation, expiry, garbage
  collection and equal random codes over a sequence of requests.

What makes each part correct: a bound on guesses and no way to renew them
(codes); key shares only for solved challenges, service only after payment,
bookkeeping of suspended requests exact, every request answered (`GET /truth`);
no more documents than uploads paid for, one prolongation per payment, no
promise that the database does not keep, versions that form a log (`POST
/policy`); storage only for a paid order and no truth lost to another upload
(`POST /truth`).

### The TypeScript side

| Part | State | Operations | Talks to |
|---|---|---|---|
| reducer (`anastasis-core/src/index.ts`, `policy-suggestion.ts`) | one state object, from the continent to the recovered secret | `reduceAction`: one transition each for backup and recovery | providers |
| wallet operations (`taler-wallet-core/src/operations/`) | stores of an IndexedDB database: coins, refresh, withdrawal, recoup and deposit groups, proposals, purchases, reserves, tips | refresh, pay, refund, abort, withdraw, recoup, deposit, accept a tip, delete | exchange, merchant, bank, database |
| backup and synchronisation (`operations/backup/`) | hash and nonce per provider, tombstones | cycle: export, upload, import of what another device has uploaded | sync server |
| task loop and crypto workers (`wallet.ts`, `crypto/workers/cryptoApi.ts`) | pending operations with retry information; workers, queues by priority | loop, timers, calls, errors, stop | each other |
| coin selection (`util/coinSelection.ts`) | none | tally of fees, selection, repair of a selection | payments, deposits |
| idb-bridge (`MemoryBackend.ts`, `bridge-idb.ts`) | databases with object stores and indexes, connections, transactions | open and upgrade, requests, commit, abort, dump | – |

All of this is one thread of promises too. Every `await` is a point at which
another promise runs: the task loop handles one pending operation at a time,
but the user's requests run next to it, and `Promise.all` makes promises of one
operation overlap. Database transactions are serialised; what is read in one
and written in the next may be stale. The process may end between any two
transactions, and the exchange, the merchant or the sync server may have acted on
a request whose answer is lost. What makes these parts correct: money is
conserved, never claimed twice from the exchange, and nothing that is owed is
forgotten (wallet); documents that can be recovered, and secrets that are
recovered only through solved challenges (reducer); nothing that a wallet has
backed up is lost to another device (synchronisation); every call is served
(workers); a payment that the merchant accepts (selection); transactions that
are serial and leave no trace when they are aborted (idb-bridge).

## 2. Modules

| Module | Models |
|---|---|
| `ChallengeTable` | the SQL statements and functions on challenge codes, as operators from table to table |
| `ChallengeCodes` | these calls over time, one action per call, and `rate_limit`; for any set of truths |
| `ChallengeCodesProofs` | theorems about `ChallengeCodes` |
| `TruthGetProofs` | theorems about `TruthGet` and the lists of `ContainerLists` |
| `PaymentTable` | the calls on challenge payments, as operators |
| `ContainerLists` | the doubly linked list macros of GNUnet (external), with the damage that a wrong insertion does |
| `TruthGet` | `GET /truth` for one truth with plugins, merchant, wallet, bank, timer and restarts |
| `AccountTables` | the calls on accounts, documents and their payments, as operators |
| `PolicyUpload` | `POST /policy` with merchant, wallet, garbage collection and restarts |
| `PolicyUploadProofs` | theorems about `PolicyUpload`, the refinement of `RecoveryLog` among them |
| `RecoveryLog` | abstract specification: the log of documents that `PolicyUpload` implements |
| `TruthUpload` | `POST /truth` with merchant, wallet and restarts |
| `IbanHelper` | the helper program that records wire transfers, with its bank client |
| `WalletStores` | the wallet's database, promises and partners; helpers of all operations (coin spending, creation of refresh groups) |
| `RefreshOps`, `PayOps`, `RefundOps`, `ReserveOps`, `RecoupOps`, `DepositOps`, `TipOps` | the wallet's operations, one module per file of `operations/` |
| `Wallet` | composition of these, with the user and crashes; `WalletProperties` what it must keep |
| `WalletProofs` | theorems about `Wallet`: the invariant of its tables, and three of its properties |
| `LedgerProofs` | theorems about `Wallet`: no money is made or lost in its tables; first the lemmas about sums over finite sets |
| `PartnerProofs` | theorems about `Wallet` and its partners: an abort that is finished has returned every coin; withdrawal groups never claim more than the reserve pays for |
| `SerialStore` | abstract specification: a database whose transactions run one after the other |
| `IndexedBackend`, `IndexedStore` | `MemoryBackend.ts` and `bridge-idb.ts`, shown to implement `SerialStore` |
| `Cursors` | cursors of idb-bridge, over one store with one index |
| `PolicySuggestion` | `suggestPolicies` of the reducer, as an algorithm |
| `BackupReducer`, `RecoveryReducer` | the transitions of the reducer for backup, and for recovery from what the backup left |
| `BackupSync` | wallets that share a backup at one sync server |
| `CryptoPool`, `TaskLoop` | the pool of crypto workers, and the loop of pending operations that uses it |
| `ClientProofs` | theorems about `CryptoPool` with `TaskLoop`, and about the lock of `IndexedStore` |
| `CoinSelection` | the selection of coins, against what the merchant demands |
| `Parts` | composition side by side of parts that share no state |
| `PartsProofs` | theorems about three of these: `IbanHelper`, `TruthUpload`, `BackupSync` |
| `MC*` | instances for TLC |

In the backend, database calls are operators, so that each component uses the same translation
of a statement; the components' actions are whole callbacks of the event loop
(from a call by MHD, the merchant or the scheduler to its return) and use these
operators in the order of the code. Every module that talks to
the database keeps the tables as variables next to the state of its requests.

### ChallengeCodes

`codes` is the table, `now` the clock in seconds. `CreateCode`, `VerifyCode`,
`MarkSatisfied`, `MarkSent`, `ChallengeGC` are the database calls;
`FirstAnswer` and `NextAnswer` are `rate_limit` with and without an active code.
Two history variables are added: `missed` in a row counts the wrong answers that
were compared with it; `answers` records, per truth, the answers `rate_limit`
let through. The clients are as free as the API allows: any call, for any code,
at any time.

### TruthGet

State: `gc` (contexts, per slot), `conn` (MHD's view of the connection), `list`
(`gc_head`, `gc_tail` and the links), `heap` (number of entries of `AH_to_heap`
per context), `refunds`, the tables, the merchant's `orders`, and `wires`.
`Request` is the first call of the handler and `Resume` every later one; both
end in `Serve`, which has the payment gate (`MustPay`, `BeginPayment`), the
creation of codes (`NewChallenge`), the checking of codes (`CodeAnswer`) and of
answers (`LimitedAnswer`), and the plugin (`StartPlugin`, `Process`).
`ProposalCb`, `CheckPaymentCb`, `RefundCb`, `DoTimeout`, `HelperDone`,
`BankEvent`, `RequestDone`, `Shutdown` are the callbacks of these names.
`GNUNET_assert` is modelled by `Abort`: the process is gone, the database stays,
and `Restart` may follow. A crash leaves the same state as a clean `Shutdown`
and is not an action of its own.

Abstractions: one truth, whose method is chosen in `Init`; `sms`, `email` and
`post` are one kind; TOTP and security answers are right or wrong; `to_task` is
pending whenever the heap is not empty; replies of an error before any change
are the first disjunct of `Serve`. A dangling heap entry is undefined behaviour
and taken for an abort.

### PolicyUpload and RecoveryLog

State: `puc` (contexts), `users`, `docs`, `pays` (tables; `pays` has the rows of each
identifier, by a key, since the column is not UNIQUE), `orders`. `Post` is the
call for the header, `Upload` the later calls for the body, `ProposalCb` and
`CheckPaymentCb` the merchant's answers, `GC` is `anastasis-dbinit -g`. If a
client sends an identifier that the database does not know,
`check_payment_identifier` leaves `paid` and `valid_counter` uninitialized;
`CheckIdentifier` takes any value of `Garbage` for each. Replies that tell of a
document stay in the state until `Done`, so that the invariants can compare them
with the tables; all other replies end the request.

`RecoveryLog` has only a log of hashes per account and the uploads left per
identifier. `ImplementsLog` is refinement under the mapping at the end of
`PolicyUpload`: documents are appended one at a time, never
twice in a row the same, each uses up one upload of an identifier of that account,
and only identifiers that nobody has used may be forgotten.

Abstractions: years and weeks are constants in one unit of time; amounts are the
years they pay for; hashes and identifiers are model values. A client sends an
identifier that the merchant knows or one that nobody uses at the time: random
identifiers of 32 bytes are not guessed. The merchant refuses an order under an
identifier it has.

### TruthUpload

State: `tuc` (contexts), `truths`, `truthPayments` (tables), `truthOrders` (the
merchant's). `PostTruth` is the call with the complete body and `ResumeTruth` the
call after a wait; both end in `ServeTruth`. `TruthCheckPaymentCb` and
`TruthProposalCb` are the merchant's answers. The order at the merchant and the row
of `anastasis_truth_payment` have the truth's UUID as their key: there is one
order and one row per truth, for good. A second payment can therefore not be recorded,
and the request that tries gets an error.

When `check_truth_upload_paid` finds no row, it leaves the caller's `paid_until`
alone, which nobody has set: `Unset` is the set of values it may hold. A late one
stores the truth without payment; history variable `truths[u].unset` marks such
rows, and `TruthsPaid` is about the others. `at` (when stored) and `told` (what a
client got 204 for) are history too. The key share is not among what is compared when a
UUID is taken, so `TruthsTold` is about method and ciphertext. In
that path `encrypted_truth` is freed twice; `TruthRestart` stands for a process
that does not survive it.

### IbanHelper

State: `bank` (the rows of the bank, each with the account it credits and whether its
subject has a code), `ibanIn` (the row numbers in `anastasis_auth_iban_in`, where
`wire_reference` is the key), `helper` (the program's variables), and history
`notified`. Every callback is an action; `HistoryCb` and `NotifyEvent` are two
halves of `history_cb`, since the process may end between them. `WireTransfer` are
the customers of the bank. Mishaps, bounded by `MaxMishaps`: the bank fails or repeats
rows, the database fails (after a hard error the row may be there or not), the program
ends. `StartHelper` starts it with any account, as the operator may have
configured another one. After a soft error of the database `history_cb` returns without
a new task or request: the program is `stalled` until somebody ends it.

In `TruthGet` the external action `Transfer` is what this program does: a row and an event.

### The wallet

`db` is the database, one field per store; `tasks` are the promises between two
awaits: operation, key, number, program point, what they have read, and whether the memo holds them;
`exchange`, `merchant` and `bank` are what the partners have recorded. An action
is one segment of an operation from one await to the next: a transaction with
its early returns and errors, or a request, which the partner executes or
refuses, and whose answer may be lost. So a promise in the model is interleaved
with others exactly where the code awaits. `Crash` drops all promises; the
partners and the database stay. Operations use each other as in the code:
`ApplyCoinSpend` and `CreateRefreshGroup` in `WalletStores` are called by
payments, deposits, refunds and recoups.

`Wallet` gives the user one errand per behaviour, the *scene*: a payment with a
refresh, two proposals for one product, a refund or an abort, a withdrawal, a
withdrawal after a backup was restored, a revocation, a refresh whose denomination is
revoked meanwhile, a deposit, a tip. In a scene
all pending operations of the wallet run, except that `shop` and `refund` leave
their refresh groups pending.

`raced` is a history variable that records which coins, orders and reserves have
been hit by a race which the code loses. There are nine:

1. `processRefreshGroupImpl` awaits `Promise.all`; when one session fails, the memo
   that keeps operations apart is released while the other sessions still run. A
   retry reveals a session a second time, and a coin that was spent since is stored
   as `Fresh` again.
2. two `confirmPay` in parallel: the second overwrites the first one's purchase.
3. a new selection (`handleInsufficientFunds`) is stored over a purchase that was
   paid, aborted or reselected while the request was under way.
4. the merchant accepts a payment after the wallet has aborted it and its coins
   have been credited.
5. `applyCoinSpend` skips a coin that is not `Fresh` any more but has no
   allocation, so that the payment contains a coin that was melted.
6. `deleteTransaction` of a withdrawal leaves the planchets, and the reserve's
   balance is planned a second time.
7. a melt is answered 404 while the melt of an overlapping promise succeeds.
8. `refreshCreateSession` finds no denomination to refresh to and marks the coin as
   finished, although an overlapping promise has created its session and melted it
   meanwhile: the melt is forgotten.
9. `recoupWithdrawCoin` sets `currentAmount` of the revoked coin to zero, which it was when the group
   was created: what the recoup of the coin's own change has put on it meanwhile is wiped. (It takes
   a coin and its change in one group; the scenes of the run do not reach it.)

What is not in `raced` must satisfy every property. The actions do not change
their behaviour with it.

### The store

`IndexedBackend` has the data structures of `MemoryBackend`: a database with
object stores and indexes, each with `original` and `modified` contents, as operators
`Insert`, `Delete`, `Rollback`, `Commit` and so on. `IndexedStore` has the connections, transactions and requests of
`bridge-idb.ts` on it: `_start` waits for the lock, runs one request per turn of
the event loop, commits or rolls back. `StoreSerial` says that this
implements `SerialStore`, in which a transaction works on a view of its own that
becomes the contents when it commits. The refinement mapping is `ContentOf`.

History variables: `raced` marks a database that a stale connection has
upgraded or committed to, or a transaction aborted while it waits for the
lock, both of which break the database for good; the behaviour is not followed
further. `stained` are stores in which a record was overwritten or refused by a
unique index, after which index entries are wrong; `IndexExact` is about the others.

`Cursors` is `BridgeIDBCursor` on one store with one index: `shelf` are the records and
the entries of the index, `cursor` the cursor's fields, and `trip` is history: the records
that were visited, those that were there all the time, and those that `advance` and
`continue(key)` were asked to skip. A transaction runs its requests one after the other, so an
action is a call with its operation. Between two of them other requests write and delete
records, also where the cursor stands. As an overwritten record leaves its
index entry behind, a cursor may throw at such an entry.

### The reducer

One action per transition of `backupActions` and `recoveryActions`, including
the re-entry of transitions that the user repeats after going back. The
providers' state (truths and documents with their payments) is kept next to
the reducer's. Recovery begins with `LoseDevice`: the reducer starts again with
nothing but what is at the providers. `flaws` records attempts the code lets
through and nobody could recover: documents for other policies than the user has
edited since (`uploadSecret` reuses the truths of an earlier attempt), without
policies, or without a secret. `PolicySuggestion` is checked by
`SuggestionsBest`: the reducer's suggestion is the best of all assignments of methods to
providers.

### Synchronisation, tasks, selection

`BackupSync`: a cycle reads the hash it remembers, exports, uploads with
`if-match`, and merges what another device has put there. `by` tells the two cycles of
a device apart that may overlap. `db[d]` is the set of records a wallet has; a record that
is deleted leaves a tombstone in the wallet (the exported list of tombstones is
always empty).

`CryptoPool` and `TaskLoop`: `Call`, `FindWork`, `HandleWorkerMessage`,
`HandleWorkerError`, `ResetWorkerTimeout`, `Stop` are the functions of these names.
`unanswered` are the calls nobody will answer: operations that
throw in the worker, calls that are queued when the wallet stops, and calls after
it. `TasksServed` is liveness for all others.

`CoinSelection` explores no steps over time: its actions choose an input and
select, and then repair the selection after some of its coins were refused.

## 3. What is checked

| Run | Bounds | Shows |
|---|---|---|
| `codes` | one code method and one TOTP truth, 2 codes, 2 tries, clock up to 5 | `TriesBounded`, `CodesSpaced`, `AnswerRate`, `NothingRevives` |
| `truth_get` | 2 requests at a time, 3 in all, 6 methods, 2 payments, 3 codes, 1 restart, 1 transfer | `KeyShareProven`, `PaidBeforeServed`, `HeapExact`, `ListExact`, `AssertionsHold` |
| `truth_get_live` | as before with 2 requests | `Answered` |
| `wallet` | per scene at most 3 coins, 3 orders, 2 denominations; `MaxGroups` and `MaxTasks` per scene (`MCWallet.tla`); 2 promises of one kind for one record | `LedgerConserved`, `NeverOverclaims`, `SignedIsDerivable`, `NothingForgotten`, `PaidExactly`, `AbortReturnsCoins`, `ReserveNotOverdrawn`, `SpentStaysSpent` |
| `parts`, store | 2 connections, 2 transactions, 2 stores, a plain and a unique index, 2 keys, versions 1 and 2, `MaxWork` 2 | `StoreSerial`, `IndexExact`, `LockOwned`, `StoreLive` |
| `parts`, cursor | 3 keys, 2 index keys, 4 ranges, all directions, `MaxAlterations` 2 | `CursorComplete` |
| `parts`, reducer | 2 providers (one is free), 2 methods, up to 3 of them, 2 identities (one a typing error), 2 secrets, `MaxEdits` 2 | `DocumentsUsable`, `SecretEarned`, `SuggestionsBest` |
| `parts`, sync | 2 devices, 2 cycles on one and 1 on the other, 2 records, `MaxChanges` 2 | `NothingLost` |
| `parts`, tasks | 1 worker, 2 tasks and a call of the user in 2 priorities, 2 failures, 1 retry | `PoolBusy`, `TasksServed` |
| `parts`, selection | every subset of 6 coins of 3 exchanges under 36 terms | `SelectionPays` |
| `parts`, truth | 2 requests at a time, 3 in all, one UUID, 3 contents, 4 days, years of 2 days | `TruthsPaid`, `TruthsTold` |
| `parts`, helper | 2 accounts, 4 transfers, `MaxMishaps` 2 | `TransfersRecorded`, `TransfersArrive` |
| `policy_upload` | 2 requests at a time, 3 in all, 2 accounts, 2 documents, 3 identifiers of one upload each, free or not | `UploadsPaid`, `PaidOnce`, `PromiseKept`, `VersionsTold`, `ImplementsLog` |

Why the bounds are enough: `codes` covers more than one rotation and expiry, with
equal codes, neighbouring codes (so that `code + 1` hits another code) and all
tries used up. Two requests are the least that compete for list, heap, payment
and upload; a third arrival comes back with what an earlier one was told (a
payment identifier, a code). The clock of `truth_get` makes offers, codes
and deadlines run out; that of `policy_upload` lets the transient account and
pending payments expire and be collected. With a fee, three arrivals are an order and two uploads
that compete for its single upload; without, they are three versions. The limits
are `MaxTime`, `MaxArrivals`, `MaxRestarts`, `MaxWires`; each is a guard of one
action. When they are reached nothing more arrives, which is why
deadlock is not checked. `TruthGet` is checked for symmetric slots and
`PolicyUpload` for symmetric slots, accounts, documents and identifiers (safety
only; `truth_get_live` uses no symmetry). `OneTruthAtATime` in `codes` restricts
exploration to states in which one truth has been used, as no call touches the
rows of two.

`wallet` reaches 1.4 million states. One errand per behaviour leaves room for the
interleavings that matter: in each scene two promises of one record overlap, an
operation of the user meets one of the loop, the wallet may crash at every await,
and a request may be refused or its answer lost. The amounts (coins of 4, fees of
1, prices of a part of a coin, of more than one coin and of two whole ones) let an operation leave change,
leave none, or run out of money.

`parts` reaches 769 000 states: 246 000 of the store, 102 000 of cursors, 90 000 of
the reducer, 77 000 of the synchronisation, 19 000 of the tasks, 3 500 of the selection,
125 000 of the truths and 107 000 of the helper. A behaviour chooses its part in `Init`, and the other parts' variables
keep their idle values; the parts are one run because they would otherwise be
eight small ones. The bounds count what comes from outside
(requests, edits, changes, failures, uploads), so that whatever was begun runs
to its end; `MaxWork`, `MaxEdits`, `MaxChanges`, `MaxFailures` and `MaxMishaps` of 2 are enough
since the initial states are chosen in the middle of the work: a store with
records and indexes, an account with a backup, a user who has come to the methods;
and two mishaps are a failure and another one while the helper recovers.
When bounds are reached, or the user is done, the parts stop: deadlock is not checked.

Assumptions of the passing runs, beyond the bounds: TOTP requests carry a
response, since one without stops the server, which is a finding. Two other
findings are kept out of the invariants rather than out of the behaviours:
`HeapExact` and `AssertionsHold` hold until a wire transfer falls short
(`Underpaid`) or a code for a transfer expires (`Expired`: the plugin then does not
find the transfer that has woken it, and waits again), `ListExact` and `AssertionsHold` until `begin_payment` inserts into a
list that has elements with its arguments exchanged (`swapped`).
`KeyShareProven` and `PaidBeforeServed` hold in all of these behaviours.

**Fairness** (`FairSpec`). Weak fairness of `Resume`, `RequestDone`, `DoTimeout`:
the event loop runs what is ready. Of `ProposalCb` and `CheckPaymentCb`: the
merchant answers, or the HTTP client's own timeout calls them. Of `HelperDone`: the
helper programs end. Of `BankEvent`: `event_listen` calls back
at its timeout. Of `Tick`: time passes. None for payments, transfers, requests,
shutdown or restart, which depend on somebody's will.

`Parts` has `StoreFairness`, `TasksFairness` and `HelperFairness`: weak fairness for the
steps of connections and transactions that are callbacks of the event loop, for the
steps of the task loop, for timers of retries, for the workers' messages, and for the
helper's callbacks and the answers of the bank to it.
JavaScript runs every callback that was queued and every timer that is due, and an
operation of a worker ends. There is none for the user, for errors or for the stop
of the wallet. A part that is idle enables none of these steps. `StoreLive` says that a
transaction is finished in the end and whoever waits for the lock gets it,
`TasksServed` that no failure of one task keeps the others from being run,
`TransfersArrive` that the helper records every transfer to its account unless it has
ended or stalled.

### Findings and other observations

Six runs end in a violation and show what the code does:

1. `truth_get_list`: `begin_payment` inserts into the list with head and tail
   exchanged; with two waiting requests an entry is not reached from the head.
2. `truth_get_heap`: a request that is woken by a transfer that falls short is
   suspended again with a second heap entry.
3. `truth_get_paid`: a client without payment identifier whose pending order
   turns out to be paid is asked to pay another one.
4. `truth_get_totp`: a TOTP request without response passes a random code to the
   plugin, which asserts that there is none.
5. `policy_upload_extension`: an extension requested with an identifier that was
   paid earlier is accepted without payment and without extension.
6. `policy_upload_fresh`: of two uploads that compete for the last upload of an
   identifier, the loser requests an order under the identifier of the old one.

The races of the wallet, of the store and of the reducer that section 2 lists
as history variables were found as counterexamples of the properties, which hold
without them. In the same way: a late value of the `paid_until` that nobody
has set stores a truth without payment; a truth can be paid once only, since
the row of the payment has its UUID as key; backups have no tombstones, export
proposals under their nonce, and contain empty selections of denominations that
the next import refuses; the IBAN helper stalls after a soft error of the database,
without ending, so that nothing starts it again.

Several directions and bounds of cursors do not work at this commit: `prev` on an
object store stops after its first record (`getRecords` of `MemoryBackend.ts` looks for the next higher
key in both directions), `continue(key)` on an index ignores the key backwards, an
open bound whose key is in the store ends the iteration at once, and a range
without bounds throws on an empty index. The model has these behaviours;
`CursorComplete` is about all other cursors, and is violated when any one of the
first three is included.

## 4. What is proved

`ChallengeCodesProofs` proves, for all truths, codes, periods, tries and times,
from the assumptions of `ChallengeCodes` (at least one try; a rotation period is positive
and no longer than the validity of codes): `TypeCorrect`, `TriesAreBounded`,
`CodesAreSpaced`, `AnswersAreRated` and `NoCodeRevives`.

The argument. `TriesBounded` is nearly inductive: a row's `retries + missed`
never grows, because a miss lowers `retries` at least by one unless it is 0 and
then the row is not compared any more. `CodesSpaced` needs that no row is from
the future and that garbage collection only takes expired rows, which are older
than a rotation period: hence the conjuncts on dates. `AnswerRate` is about
history: the answers of a truth are ordered in time, each names the code
that paid for it, later answers name codes at least as late, and codes that differ are a rotation
period apart (`Dated`, `Apart`, `Ordered`); a code pays for at most `RetryCounter`
answers (`Counted`), because what is left of its counter and the answers charged
to it add up to at most `RetryCounter` (`Paid`). So of answers `i`, `i + RetryCounter`
and `i + 2 * RetryCounter` each has another code than the one before: the first was
given before the second code was created, and the third code was created a rotation
period after the second. Hence the first and the last answer are a period apart.
The inductive invariant `IInv` states these facts; `Invariant` proves it in three
steps (initial states, one step per action, consequence), and the theorems follow.
`IInv`'s step lemmas work on the operators of `ChallengeTable`.

`TruthGetProofs` proves `KeyShareProven`, `PaidBeforeServed`, `HeapExact`, `ListExact`
and `AssertionsHold` for any number of requests, methods, codes, identifiers, transfers
and restarts, from the named assumptions of `TruthGet`: types of methods and inputs;
null pointers and missing identifiers are told from the others; time starts after date
0; no random code is the successor of another; IBAN codes are never rotated and never run
out of tries, as `libanastasis_plugin_authorization_iban_init` sets them up. The invariant
`Inv` has these parts.

- `SlotInv` relates a context, its connection and its plugin: who is parked is in the
  list; who waits for the merchant is suspended and not in the heap; a helper
  that still runs for a request that was woken by the timer left no entry behind.
- `RowsSettled` and `OrdersFresh`: a row of the payments is paid only if its order is, and an
  order that the merchant has not confirmed belongs to one request. `ServedPaid`
  follows, as `check_challenge_payment` and `check_payment_cb` ask about the same order.
- `CodesProven`: a code is satisfied only if a plugin was given it or a sufficient transfer
  quoted it. Only such codes, and right answers, release a key share (`SharesProven`).
- `IbanInv` is why `HeapExact` holds. A transfer quotes a code that was told. A request
  listens with a code it was told itself, or with a fresh one which nobody was told
  (`ListensFor`, `Apart`). So a request that is called again although its heap
  entry is there was woken by a transfer, finds it and does not suspend a second
  time. Where the transfer was short or the code has expired it does not find it.
- `ListExact` needs facts about the list of GNUnet. `Reached` is defined as the least set
  that is closed under `next`, so that no recursion is needed: `InsertedIsList`,
  `RemovedIsList` and `ExchangedInsertion` show what the macros keep, the last one why
  the exchanged arguments do no harm to an empty list.

A step of the handler touches one request and the tables. `Moved`, `MovedIban` and
`Tables` say what such a step leaves, `MovedKeepsInv` proves the invariant from
that, once for all; `Died` and `DeathKeepsInv` do the same for a failed assertion. One
lemma per function of the handler then shows that it ends in such a way. The first version of
`HeapExact` did not except expired codes. It held within the bounds of the run,
but the proof failed, and a method with a short validity in the run showed why.

`PolicyUploadProofs` proves, for any slots, accounts, hashes, identifiers, fees and
periods, `UploadsPaid`, `PaidOnce`, `PromiseKept`, `VersionsTold` and that every step
of `PolicyUpload` is a step of `RecoveryLog` or a stutter (`LogImplemented`). It
assumes that periods and grace periods are numbers (a year and a week positive) and that no account
is called "none". The argument: although the column is not UNIQUE, an identifier never
has two rows (`Rows`). A row is added after the merchant has accepted a new order,
and it accepts an identifier once; so a request that may ask for an order
has no row, or the merchant knows the identifier (`AsksOnce`), and two requests
share an identifier only if the merchant knows it (`Unshared`). Then documents stored
and uploads left add up to `PostCounter` (`PaymentInv`), a row once paid is never
forgotten, and only the step from unpaid to paid prolongs an account. A request
that reads a document has a paid row if its identifier has a row of its account
(`ReadsPaid`): it came there through a check of the payment, or found the row paid; but
it may also come with garbage for an unknown identifier, which has no row to
store with. Dates told are kept since no call shortens an account and only what is
over is deleted (`UsersKept`). For the refinement, one lemma per action says which
step of the log it is; only `Forget` needs the invariant's count: a row that is deleted
is unpaid, so that nothing was stored with it.

`PartsProofs` has three parts that share no state.

It proves `NothingLost` for any devices, cycles, records and number
of changes, from `CyclesAssumption`: a backup at the provider is only replaced by one that has all of its
records, or whose device has deleted them. The argument: the provider replaces
a backup only when `if-match` names it, and the hash in `if-match` was read before the
export. So it is enough that the wallet had the records of that backup when
the hash was read. A hash is remembered in two places: after a merge, which has
imported the backup, and after an upload of the wallet's own backup. Records leave a wallet only
with a tombstone. `SyncInv` says this for the remembered hash
(`HashesHeld`) and for every point of a cycle (`CycleHolds`), with `StillThere` for
records that have been deleted since. The order of `Export` and the reading of the hash
is what the mutant `OldHashNow` exchanges.

It proves `TruthsPaid` and `TruthsTold` for any requests, UUIDs,
contents, years and times, from `StorageAssumption`. The argument: every row of the
payments belongs to a paid order and ends no later than the order's years and a week
from today (`PaymentsBacked`); a paid order never changes, since the merchant refuses
another one with its UUID. `ServeTruth` stores a truth only with the date of
such a row, for free, or with a date that was never set. Rows of `anastasis_truth`
are only written when there is none, so that what was told stays.

It proves `TransfersRecorded` for any accounts, transfers and
mishaps, without assumptions. The argument: a new transfer has a higher number than all before, so
that an order by numbers is an order in time. What is recorded has no gap per account
(`NoGap`), though the numbers of two accounts alternate; `latest_row_off` is exactly the
last row of the account in the table (`OffExact`), which needs that a restart asks
the table for this account; and an answer of the bank is a stretch of
its rows without gaps (`ListClosed`). The mutant `LastRowsOfAny` asks for the last row of any account.

`ClientProofs` has two parts.

The pool: `PoolBusy`, `NoCallLost` and `CallsOnce` for any number of workers, calls and tasks, from
`PoolAssumption` (priorities are below `NUM_PRIO`, and no call is called like an idle
worker) and `TaskAssumption` (the calls of the loop's tasks are calls). `PoolBusy` says
that `numBusy` is the number of workers that have a call, and that no call waits while it is
below the number of workers, until the pool is stopped. It is not inductive by itself: that `numBusy` is
right after a worker was freed needs that the worker had a call, so that a call has
one place only (`InOnePlace`); that a worker's answer is for its call needs that a
worker with a call runs (`BusyAlive`) and that none has one after `stop`
(`StoppedIdle`). With these, `doRpc` finds a free worker when `numBusy` promises one
(`FirstFree`), and `findWork` takes the first of the highest priority that waits
(`HighestWaits`, by the least number of a set). `NoCallLost` says that a promise that is
open has a worker, waits, or is one of `unanswered`; `CallsOnce`, that until `stop` it is in one place. The loop
matters for this only in that it makes one call at a time and makes it again only after its answer (`LoopType`).

The lock of the local database: `LockOwned` for any connections, transactions, stores, requests,
upgrades, aborts and restarts, from `NilAssumption` (a transaction is not "nothing"). A transaction owns
the lock once it has begun in the backend, until it begins to commit (`Owns`). `LockInv`:
there is at most one owner; the backend's level is other than "None" exactly while there is one;
an owner is neither aborted nor ended, and what is committed has ended (`Sound`).
`OneTransaction` reduces every step to what becomes of the lock: it stays, is taken while it
is free, or is released by its owner; one lemma per action shows which. Operations
on records and indexes keep the level (`KeepsLock`, `OutcomeKeepsLock`), `commit` and `rollback`
release it (`ReleasesLock`). The theorem is about the time before `raced`: the case
that is excluded, a transaction aborted while it waits in `beginTransaction`, is where
the invariant breaks in `BeginTransaction`, and the only one in its proof.

`WalletProofs` proves `SignedIsDerivable`, `NothingForgotten` and `SpentStaysSpent` for any
orders, prices, denominations, fees, coins, scenes and bounds, from three assumptions: the scenes are
among those of the module (`SceneAssumption`), the orders they name exist
(`ScenesAssumption`), and the number of first coins is a number. `NothingForgotten` is not
inductive: that a melt is not forgotten needs that the session of the melt is the one in the table, that its coin
is pending as long as the new coin is not stored, and that a group with a coin pending is
active. The invariant `WalletInv` says table by table what fits together:

- `WithdrawInv`: a planchet is done exactly if its coin is stored, a group that is finished has stored
  all its coins, and what the exchange has signed is a planchet of its group;
- `TipInv`: the coins of a tip are stored when it is picked up, and signed only if it was accepted;
- `RefreshInv`: a melt belongs to a session of the table with the same seed, and either its coin
  is stored or the coin of the group is pending; a group with a coin pending is active;
- `RecoupInv`, `PurchaseInv`, `DepositInv`: what is finished is done, for each coin of the group; an
  abort is asked about; what is marked as deposited is deposited;
- `TaskOk` for every promise: the record it works on is in the table, with what the promise
  has read of it (`WithdrawTask`, `SessionTaskOk`, `DepositTask` and so on).

The argument separates tables from promises. `Grows` says how a table may change while promises are
about it: records are added, planchets and sessions stay, marks are set and not taken back. A
step that grows the tables and keeps their parts (`TablesStep`) leaves every promise in order
(`TaskStays`), so that one lemma per action shows only what the action does to its table and to its own promise. `Same`
and the `Keep...` lemmas settle the tables which an action leaves alone;
`CoinsSpent` and `RefreshGroupCreated` are stated once for the five operations that spend coins.
Races 1, 7 and 8 are the only cases in which the steps of refresh groups do not keep the invariant
without `raced`. Race 8 was found here: the step of `refreshCreateSession` could not be proved,
and the scene `refresh` showed the counterexample when a revocation was added to it.
`FirstTablesInv` and its lemmas show that every scene starts in the invariant. Before the
proof, TLC found `WalletInv` true of the 1.4 million states of the run `wallet`.

`LedgerProofs` proves `LedgerConserved`, under the same assumptions and `FeeAssumption`: coins are worth
something, and fees are numbers. What a coin is worth is spread over the tables of coins, refresh groups,
recoup groups and purchases, and a property about it is a sum over places in all of them. It begins with what is
needed for such sums: what a place adds that is put or taken out, that places with
nothing add nothing, that a sum of numbers is one. `SumFunction` is a fold, defined by a recursive
function on the subsets of a set, and the library has no theorem about that function which could be
used here; the lemmas show that it exists and is unique (`IterExists`, `IterUnique`) by a smallest counterexample among the
subsets of a finite set, where others would use induction.

`LedgerConserved` is far from inductive. The invariant `LedgerInv` adds:

- `Books`: in every table, the places that name a coin are finite in number and have amounts; the coin exists,
  and a schedule or session names only places of its group;
- `PurchasesOk` and `DepositsOk`: a coin in the selection, the refunds or the deposits of an order is
  allocated to that order, or is in `raced`. So a refund credits the coin that lost the
  money, and a purchase that is stored anew takes refunds with it only from its own coins;
- `LedgerTask`: the same for selections and answers that a promise has read and not yet written. This is where
  races 2, 3 and 5 would break the proof if they did not mark coin or order.
- `AllBalanced`: the equation itself, for coins that are not in `raced` and not allocated to what is.

One lemma per function of the model says what it moves between the sums (`RefreshBooked`, `RecoupBooked`,
`SpendBooked`, `RefundsDroppedBooked` and so on), and one per action that what it takes from one sum it adds to another. Race 9 was found here: the step of
`recoupWithdrawCoin` could not be proved.

`PartnerProofs` proves `AbortReturnsCoins`, under the same assumptions. The property looks at a purchase when all is over. Its
invariant `AbortInv` says why it cannot end otherwise, for the orders that are bought, not
paid, and not in `raced`:

- `AbortTask`: what is on its way about refunds of the order is its abort, for the coins that the purchase has now, and the merchant's
  answer is about these coins, each refunded with its contribution, pending, or not
  deposited. `acceptRefunds` believes the answer, so that nothing else may reach it;
- `AbortKept`: a final refund of the abort has credited the contribution but for the fee, which only a purchase in `AbortRefund`
  does for a coin that was not deposited; in `AbortFinished` every coin has a final refund, so that a second answer, still on
  its way, changes nothing.

A new selection, or another purchase, could leave refunds that are not about the coins selected. That neither is stored
while an abort is on its way, but for races 2 and 3, is shown where they are stored (`ReselectionKept`, `ConfirmKept`). Steps that have nothing to do with
purchases are settled by one lemma (`ElsewhereKept`), those that store one purchase by another (`OneOrderKept`).
`LedgerInv` supplies that amounts are numbers, and that the coins of an answer exist. Before the proof, TLC found `AbortInv` true of
the 247,652 states of the scene `refund`.

`PartnerProofs` proves `ReserveNotOverdrawn` too, on top of `LedgerInv`. The property compares coins, which groups plan,
with money, which the exchange was paid. `ReserveInv` relates them by what the groups claim:

- `ExchangeBooks`, `SelectionsInt`, `WithdrawalBooks`: amounts in the exchange's books are numbers and its
  records are finite in number, so that there are sums of them; the same of the groups' counts and
  of the coins that deposits select;
- `Covered`: the coins planned cost at most what the groups claim, and the claims with what another
  device has withdrawn are at most the income of the reserve, which is its credit with what recoups paid in. This is
  what `updateReserve` computes from the history, but of the present;
- `ReserveTask`: a promise that has read the history and not yet written its group knows of no more income
  than there is, and of every coin of the other device. That is why an old answer is
  harmless: income only grows. The groups need not be part of it, as `updateReserve` reads
  them again in the transaction that adds the group.

Deleting a group breaks `Covered`, because its coins are no longer claimed while the exchange may have signed them, or sign
them yet; this is race 6, the only one of the reserve. The proof has a lemma that all actions share (`ReserveStep`: the books only grow
and the groups keep their counts), and one for the action that adds a group, where sums and numbers of
coins are computed (`GroupCounts`, `GroupClaims`). TLC found `ReserveInv` true of the 89,271 states of the scenes
`withdraw`, `restore` and `recoup`.

These proofs asked for some changes of the models. Some leave their behaviours as they were. Alternatives of a
CASE that overlapped are now IF chains, because TLA+ lets a CASE take any arm that is true while
TLC takes the first (`Outcomes`, and some operators of `BackupReducer` and `Cursors`). And
`InIndexes` changes the indexes of a store pointwise, as each has its own data, instead of one after the other.
`StoreRecoup` names the tables between its updates, as the prover and TLC read `@` differently where the paths of one EXCEPT overlap. Two make the models
more faithful: the race above is marked, and a refund that failed credits nothing for a coin
which a new selection has dropped meanwhile (`storeFailedRefund`).

Only model-checked:

- liveness, which is outside the prover's logic: `Answered` of `TruthGet`, `TasksServed`, `StoreLive` and
  the other properties with fairness;
- properties whose operators are folds over sequences or sets, about which facts need
  induction over data: `SecretEarned`, `DocumentsUsable`, `SelectionPays`, `SuggestionsBest`;
- `NeverOverclaims`, `PaidExactly` of the wallet, about sums on both sides, the wallet's
  and the partners': `LedgerProofs` has the lemmas about sums, but not yet the invariants;
- `IndexExact`, the refinement `StoreSerial`, and `CursorComplete`: these
  are within reach, and have no proof yet.

## 5. What is not modelled

`GET /policy`, `/config`, `/terms` change nothing. Cryptography, parsing, codecs,
message texts, error codes and identity validation are pure functions on data.
Clients that disconnect while they are suspended, calls to the merchant that fail
at once, and database errors after a plugin has replied are left out of
`TruthGet`. The file plugin is a test aid. The C client library
and the C reducer are not modelled yet; the TypeScript reducer, which has the same
transitions, is. The user interfaces show states of the reducer and the wallet.

Of the wallet, exchanges (download and validation of keys), balances and the list of
transactions are left out, and so are fees other than those of refreshes, refunds and
the coin selection; of the reducer, the attribute forms and the
entries that are only shown; of the synchronisation, the amounts and states inside
records; of idb-bridge, key paths, generated keys, structured clones, `getAll`,
cursors without values and `continuePrimaryKey`.

The map covers about an eighth of the implementation's lines. What is left out is for the most
part tables, codecs, validation, cryptography (`nacl-fast.ts`), type
definitions, the web interface, the test harness and vendored scripts: code without a
state of its own, for which the tests of the repository are the better tool.

## 6. Plan

Done: challenge codes with proofs; `GET /truth` with proofs; `POST /policy` with its log and proofs;
`POST /truth` with proofs; the IBAN helper with proofs; the wallet's operations, and proofs about its tables, its money, its aborts and its reserve; idb-bridge as a serial store, and its cursors; the
reducer; synchronisation with proofs; task loop and workers with proofs, and the lock of the store; coin selection.

Left, the most important first:

1. The wallet: `NeverOverclaims` from `LedgerInv` and the exchange's books in `ReserveInv`; the
   store: that no two entries of the schema share an object, then `IndexExact`; cursors.
2. The C client library against several providers: cancellation leaves no
   callback, a document is accepted only with enough providers.
3. Exchanges of the wallet: keys that are updated while coins are withdrawn.
