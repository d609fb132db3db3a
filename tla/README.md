# NookMux in TLA+

NookMux is a gateway in Go (`internal/`) with a React console (`web/`) in front of the APIs of AI
providers. It authenticates a request by an API token, picks an upstream channel, converts request
and answer, and charges the user. This directory holds TLA+ models of the parts whose correctness
depends on the *order* of steps: who is charged, how much, and what happens when requests, callbacks,
goroutines, statements and processes meet or fail; and of the two parts of the console where the
administrator's or the user's input races with answers of the server. Paths below are relative to the
repository.

By lines the repository is half console: tables, forms and dialogs over single requests, which have
little control to model. The models cover the money and the pool on the server, which is Go, and about
900 lines of the console.

How to run, with `tlc`, `tlasany` and `tlapm` on the path:

    tlc -config BillingFaults.cfg MCBilling.tla      # any cfg with the MC module of its component
    tlapm BillingProofs.tla                          # any *Proofs module

`PROJECT.json` has, per run, its module, cfg and properties; per definition, the source lines it
models; per property, a plausible bug (a `..._Something` operator next to the definition it breaks)
that makes TLC find the property violated; and the hazards, findings and theorems.

## 1. Inventory

| Component | Where | State | Operations | Status |
|---|---|---|---|---|
| Billing session | `internal/domain/billing/service.go`, `funding_source.go` | `BillingSession` flags and amounts, one per request, under a mutex | pre-consume (token, wallet, compensation), settle, refund, trust | modelled |
| Pricing and settlement | `internal/domain/billing/usage.go`, `quota.go`, `violation_fee.go` | none of its own | `ApplyQuota`, `PostConsumeQuota`, violation fee, Realtime increments | text path modelled |
| Relay handler | `internal/httpapi/controller/relay/relay.go` | request context, `newAPIError` | attempts, deferred refund, panic recovery | the part that drives billing |
| Wallet | `internal/store/user`, `internal/httpapi/controller/user` | `users.quota`, `users.aff_quota`, Redis copy | conditional debit, credit, override, transfer of invitation quota, saves of whole rows, cache fill | all but the cache fill |
| API tokens | `internal/store/token` | remain/used quota, window and cycle counters, status, Redis copy | validate, reset, debit, credit, save, exhaust | quotas modelled |
| Goroutine pool | `internal/infra/runtime/gopool.go` | channel, worker count, WaitGroup | submit, start lazily, run, leave idle, wait | modelled |
| Top-up orders | `internal/store/topup`, `internal/infra/payment`, `internal/httpapi/controller/topup` | `topups.status`, order locks per process | create, callbacks, check, manual completion, expiry | modelled |
| Redemption codes, check-in | `internal/store/redemption`, `checkin` | code status, one check-in a day | redeem, edit, expire, delete, check in with and without a transaction | modelled |
| Settings forms | `web/src/features/system-settings` | query data, baseline and input of the form, PUTs of a save, GET in flight | type, reset, save, refetch | the hook and its query |
| Playground | `web/src/features/playground` | messages (in local storage), the page rendered from them, stream reference, completion flag | send, regenerate, edit, delete, stop, stream events, reload | streamed requests |
| Realtime relay | `internal/relay/channel/openai/relay_openai.go` | usage counters shared by goroutines | charge in increments, charge the rest | not modelled |
| Batch updater | `internal/store/db/utils.go` | maps of pending increments | add, flush | not modelled |
| Channel selection | `internal/domain/channel`, `internal/store/channel` | in-memory table, key status, affinity | pick, retry, disable, enable, reload | not modelled |
| Stream scanner | `internal/relay/helper/stream_scanner.go` | data channel, stop channel, timers | scan, dispatch, time out, ping | not modelled |
| Rate limiters | `internal/common/rate_limit.go`, `internal/infra/cache/limiter` | queues or Redis lists of timestamps | allow, record | not modelled |
| Conversion, options, sign-in, logs, tickets, migrations, bootstrap, rest of the console | see `PROJECT.json` | | | not modelled |

How they interact. The relay handler creates the session (call), which debits the token and then the
wallet (SQL, shared by all requests and nodes). A refund is a task of the pool (asynchronous), and so
are cache updates and logs; the refund's credit itself submits another task. Token validation resets
windows. Top-ups, redemption codes, check-ins, invitations and administrators write the same
`users.quota` from other handlers. Redis, if there is one, holds copies of user and token that may lag.
The console speaks HTTP only: a settings page reads all options with one query, puts changed ones one
by one and invalidates the query; the playground streams the gateway's own chat endpoint.

What is hard, and what makes each component correct:

- *Billing*: debits are conditional UPDATEs, but everything decided before them uses snapshots. Two
  accounts (token, wallet) move by separate statements, each of which may be refused or fail; the
  refund runs later; a panic or crash may come anywhere. Correct: no overdraft; quota neither appears
  nor disappears; a request pays its price, or nothing, once; token and wallet agree.
- *Tokens*: windows are reset by whoever looks first, requests share the row they loaded, late credits
  meet other windows, and the owner's save rewrites the row. Correct: counters within quotas and
  accounted for; windows only advance; window and cycle agree.
- *Pool*: lazy start and idle exit race with submission. Correct: no task lost, run twice or left
  waiting; `WaitRelayTasks`, with which the tests drain the pool, waits exactly for them.
- *Top-ups*: at-least-once callbacks, several handlers and nodes, locks only within a process.
  Correct: credited exactly once, only for a payment or by an administrator; acknowledged means
  credited; locks come back; a payment arrives.
- *Wallet*: single UPDATEs relative to the stored value meet saves that write what they read earlier;
  codes and check-ins pay once against edits, expiry, crashes and, on SQLite, without a transaction.
  Correct: no unit is lost or minted but by a save that overwrites; a code is paid once per opening; a
  day on record has been paid once.
- *Settings forms*: the server changes under the form, saves take several requests that fail one by
  one, refreshes overlap with saves and are joined to older GETs. Correct: a save writes what was typed
  and nothing else; after it the page shows what the server holds; input is not lost.
- *Playground*: every stream writes to the last message, all share one reference and one flag, and the
  user's clicks work on the list the page was last rendered with.
  Correct: answers go into their own messages; nothing comes after the end; nothing hangs for good.
- *Parts not modelled*: the hazards in `PROJECT.json` with a note say what is at stake in each.

## 2. Modules

`BillingLedger` (abstract) <- `Billing` <- `BillingProperties` <- `MCBilling`, `BillingProofs`.
`TokenWindow`, `TopUp` and `Wallet` are laid out the same way. `RelayPool`, `SettingsForm` and
`Playground` hold their properties themselves, with a module of proofs each. `Sums` has the sum over a
set that the properties of `Billing` and `Wallet` about money compare, `SumTheorems` its laws.

### Billing: `Billing.tla`

Requests of one user share `wallet` (`users.quota`) and tokens (`remain`, `used`). `session[r]` is
the `BillingSession`, `pc[r]` the line the handler stands before, `job[r]` the pool task of its
refund: none, on its wallet or its token credit, or `left` in the channel of the pool with no worker to
find it (what `RelayPool` shows can happen). One action is one SQL statement or the Go code between two.

| Action | Code |
|---|---|
| `Authenticate`, `MarkExhausted` | `ValidateUserToken`, context set-up, price estimate |
| `OpenSession` | `NewBillingSession`, `shouldTrust` |
| `PreConsumeToken`, `PreConsumeWallet`, `UndoPreConsumeToken` | `preConsume` and its compensation |
| `AttemptFails`, `AttemptSucceeds`, `GiveUp`, `Panic` | the loop and the deferred function of `Relay`, recovered panics |
| `SettleWallet`, `SettleToken`, `FinishServed` | `SettleBilling`, `BillingSession.Settle`, `PostConsumeQuota` without a session |
| `ChargeFee`, `ChargeFeeToken` | `ChargeViolationFeeIfNeeded` |
| `RefundWallet`, `RefundToken` | the task submitted by `BillingSession.Refund` |
| `PoolWakes` | another submission starts a worker, which finds what was left |
| `Crash` | the process stops; database rows stay |

`paid`, `feePaid`, `tokenPaid` and `faulted` are history: what each request has moved, and whether
one of its statements failed. Prices are members of small sets. A Redis copy is "some value the
column may not have" (`CachedQuotas`): more stale than the code can be, so what holds here holds for
any cache. `setup` is fixed from the start: which token each request presents, and whether the
processes have a Redis.

`BillingLedger.tla` is what the owner of the wallet is promised: a request reserves at most once and
is closed once, by capture, release or abandonment. `ImplementsLedger` is the refinement.

### Windows of a token: `TokenWindow.tla`

The row of a token with window (and cycle) quota: `token` has its counters and starts, `settings` what the
owner sets. Requests load it, reset it, and debit and credit it by two UPDATEs, under a clock.

| Action | Code |
|---|---|
| `Query`, `Land` | `GetTokenByKey`: one request runs the query, and all that have joined the singleflight get its one `*Token`, or its error |
| `DecideWindow`, `ResetWindow`, `KeepWindow`, and the same for the cycle | `ValidateUserToken`: look at the clock, the conditional UPDATE, the write to the `*Token` |
| `Admit` | the last checks, `SetupContextForToken`, `PreConsumeTokenQuota` |
| `TakeWindow`, `TakeCycle`, `UndoTakeWindow` | `decreaseTokenQuota` of the session, and its rollback |
| `Conclude`, `GiveWindow`, `GiveCycle`, `UndoGiveWindow` | settlement, or refund, and the rollback of a credit |
| `EditRead`, `EditWrite` | `UpdateToken`: read the row, enter what the owner has set, write every column back |

`same[r]` is who has the same `*Token` as `r`, and `snap[r]` what is in it: `KeepWindow` writes the new
start there for all of them, and `ResetWindow` takes the old start from there when it sends its UPDATE,
not when it decided. A save may lower a quota below what is used; it zeroes the counters of the windows
when their length or anchor changes, and those of the cycles when their length or quota does
(`WindowsChange`, `CyclesChange`).

History: `charged[w]` is what fell on window `w`, debits less credits; `ahead[r]` what a request has moved
of the window and not of the cycle; `saved` what the last save wrote as used, and `rewrote` that one has
changed a counter; `touched` the requests about to reset whose `*Token` another has written since they
decided, and `late` that one of them has reset. The code loads these tokens from the database, and falls
back to the Redis copy only when that read fails; a copy is a row loaded some time ago, which is the same
as a query that lands late.

### The goroutine pool: `RelayPool.tla`

`CtxGo` is four steps (count, start, send, start again), the worker's loop four more (take, finish,
idle look, leave). `missed` is history: a worker has left while tasks were under way. Panics of tasks
are caught by `runRelayTask`, so returning and panicking are one action. `NestedSubmits` is a task that calls `RelayGo`, as a refund does.

### Top-up orders: `TopUp.tla`

Orders, what has become of the payment at the provider (`gateway`), handlers on several nodes with a
lock table each, and the steps of a fulfilment: lock, look-up (Stripe), transaction read, conditional
UPDATE with the credit, unlock, reply. A reply may be lost and callbacks come again. A crash empties
the node's locks and rolls its transactions back. `Mismatched` orders are those whose payment does
not fit the row (amount, currency, provider); the validation itself is abstracted to that. The result
`gone` (a paid order without a row, which `FulfillOrder` acknowledges) cannot occur here, as no order
row is deleted and links are shown only after the insert; the branch stays because the code has it.

### Balances, codes and the check-in: `Wallet.tla`

One user's row with both balances, redemption codes, days with a check-in record, and places
(`Handlers`) for requests that take more than one statement.

| Action | Code |
|---|---|
| `AdjustQuota` | single statements: the relay's `DecreaseUserQuota`/`IncreaseUserQuota`, `ManageUser`, `TransferAffQuotaToQuota` |
| `ReadUser`, `WriteUser` | `User.Update` (columns read as zero are left out), `User.Edit` (writes `quota`: what was read, or what the administrator has entered), `inviteUser` (writes the row) |
| `RedeemRead`, `RedeemCommit` | the transaction of `Redeem`: read, then credit and conditional UPDATE in one commit |
| `ReadCode`, `WriteCode`, `CodeEnds` | `UpdateRedemption` (any worth and a later expiry, or any status) and `Redemption.Update`; expiry, deletion |
| `CheckinRead`, `CheckinCreate`, `CheckinAward`, `CheckinTakeBack` | `UserCheckin`, in one transaction or (`sqlite`) in three statements |
| `NextDay`, `Crash` | the calendar; the process stops |

`overwritten` is history: a save has written something else than it found, which is how the units that
saves lose are told apart from all others; `reopened` counts the saves that took a code out of "used".
`UpdateUser` and `UpdateRedemption` write whatever number they are sent, and the worth of a check-in or an
invitation is an option: all of these are integers here, below zero too, and `negative` is history that
one was. Only `ManageUser` refuses negative numbers (`Moves`, `Overrides`).

### A settings form of the console: `SettingsForm.tla`

`server` and what the page knows of it: `cached` (the query's data), `baseline` (what the form was last
reset to; the three refs of the hook and the form's own defaults always change together), `input`. A
save is `Submit`, then `PutApplied` and `PutDone` per changed key, or `PutFails`; `SaveDone` is the end
of `handleSubmit`. The query is `Focus`, `GetRead`, `GetDone` (with the hook's effect), `GetFails`.
`memo` tells sections that build their defaults with `useMemo` from those that build them in every
render (system information): the latter take over the old data for a moment after a save. `Stored` is
what the server and the sections' conversions keep of a typed value. `mishaps` is history: a request
failed, or a refresh was joined to a GET answered before the write (`lib/api.ts:60`).

### The playground of the console: `Playground.tla`

A list of messages, the page as it was rendered last (`rendered`: the list and whether it counts as
generating), the reference to the latest stream, the completion flag, and the connections that still
deliver. The content of a message is the set of requests whose chunks went into it. What the user does
replaces the list by one made from the *rendered* list (`shown`), as the handlers of `index.tsx` close over
it, and is rendered before he can do anything else; what a stream does changes the last message of the
list as it is, and is rendered some time later (`Rerender`). `HangUp` is a connection that closes without
`[DONE]` and without an error, of which nobody is told: the message stays unfinished and Stop stays on.

`overlapped` is history: a request was sent while another was generating, which the input does not allow
and suggestions (`playground-input.tsx:114`) and "Save & Submit" of an edit that was opened before do.
Then answers mix, and Stop reaches only one stream; the properties are about runs without it. `putBack` is
history: the messages that were finished when a click put an unfinished version of them back.

## 3. Runs

| Run | Bounds | Shows |
|---|---|---|
| `BillingFaults` | 2 requests, on a capped and a free token with Redis and stale copies, or both on the capped one without Redis; wallet 4, estimates {0,2}, prices {0,1,3}, one fee, all faults | every safety property of billing; refunds arrive once the pool runs them; refinement of the ledger |
| `BillingInterruption` (violation) | 2 requests, panics | a panic in the first attempt keeps the hold |
| `PoolRuns` | 3 submissions, 2 workers, channel of 2, idle exits, an endless and a nesting task | nothing lost or run twice, exact wait; tasks run and submissions return unless a free worker left too early; stranded tasks are revived |
| `PoolIdleRace` (violation) | the same without nesting and endless tasks | a task submitted while the last two workers leave stays behind |
| `WindowCycle` | 2 requests, windows of 1 and cycles of 2 ticks on a clock of 2 ticks, faults, a save that may lower the quota, move the anchor or shorten the cycle | quotas, accounts, agreement of the two counters, windows only advance |
| `WindowLostCharge` (violation) | one save | a save undoes a charge |
| `TopUpRaces` | 2 orders (a mismatched Stripe one, an epay one), 2 handlers on 2 nodes, no row locks, 1 crash | credited once and only for a payment; acknowledged means credited; final is final |
| `TopUpLiveness` | 1 order, 2 handlers of one process, row locks, 1 crash | payments arrive, locks come back |
| `Wallet` | 2 places, 3 requests, 1 code worth 1 or -1, an entered quota of -1, 2 days, both databases, faults, crashes | codes and awards are paid once, no unit is lost or minted but by an overwriting save |
| `SettingsRuns` | 2 options, 3 typed and 2 stored values, 1 foreign write, failures | saves write edits only and are refreshed; clean fields show the server |
| `SettingsInput` (violation) | 2 options, nobody else, no `Stored` conversion | what is typed during a save is discarded |
| `PlaygroundRuns` | 3 requests, 2 once they overlap | answers, finished messages and Stop while requests do not overlap |

Why the bounds are enough to be interesting. Wallet 4 and holds of 2 let two requests fit and a
settlement of 3 be refused; the stale quota 5 passes the trust quota 3 while the column does not.
Two requests already give every pair of conflicting statements; the theorems cover more. A window of
one tick ends between any two steps of a request, inside its cycle or, after the save that shortens cycles,
with it; a token that was never used is opened by the first request, so two ticks see both kinds of reset.
Two requests are enough to share a `*Token` or not. In
`PoolRuns` the endless task holds one of the two workers, so the other is the last free one, and three
outside submissions with a nested one fill a channel of two. Two handlers on two nodes are every pair
of racing fulfilments, and one shard makes all orders collide in a lock table. In `Wallet` two places
make every pair of requests that take several statements meet, with any number of single statements
between them; three requests let a code be redeemed, reopened and redeemed again, and two days let a
check-in begin on one and end on the other. Two options let one be typed into while the other is
saved, and of three typed values two are stored the same. In `Wallet` a balance of at most one unit makes
every debit and transfer one that may be refused. Three requests of the playground let one
overlap with another after a first is over.

Symmetry of interchangeable requests, handlers or options is used where there is no liveness
(`WindowCycle`, `WindowLostCharge`, `Wallet`, `SettingsRuns`). The deadlock check is off in `PoolRuns`
and `PoolIdleRace`, where a task left behind stops the pool (the finding, no surprise), and in `Wallet`,
which stops when its bounded requests, days and amounts are used up. Everywhere else it is on; a
finished run stutters explicitly (`Terminated`).

Bounds by name: `StartTime` and `MaxTime` (clock), `MaxSaves` (saves of the settings), `Settings` (what they
may be), `CodeQuotas` and `Edits` (numbers an administrator enters), `MaxCrashes` (crashes),
`QueueSize`, `MaxQuota`, `MaxDay`, `MaxRequests` (of `Wallet` and `Playground`), `MaxOverlapped` (requests
once two have overlapped), `MaxForeign`; `Crash`
of Billing needs a request under way, so it happens at most once per request. `AttemptFails` happens at
most once before the last attempt: `erred` is all later steps look at.

### Fairness, and why the code justifies it

- *Billing*: statements return (with an error, perhaps), the loop is bounded by `RetryTimes`, and a worker of
  the pool finishes the task it took. Weak fairness of each request's own steps; nothing makes a request
  arrive, panic or fail. That a submitted refund is taken at all is not assumed: `Refund` may leave its task
  in the channel (the finding `PoolIdleRace`), and `PoolWakes`, another submission that starts a worker, has
  no fairness. `RefundArrives` is about refunds whose task a worker has.
- *Pool*: goroutines that can run do run, tasks that can return do. Strong fairness of a send and of a
  take: Go queues blocked senders in order and picks evenly among ready cases of `select`. No client
  has to submit and no timer has to fire.
- *Top-ups*: the provider sends a callback again until it is acknowledged (strong, as a handler must be
  free); handlers run; a mutex starves nobody (Go's starvation mode); a statement tried again and again
  for the same order succeeds at last. Without the last one a database that always fails would refute
  everything. Nobody has to pay, check or complete an order.

- *Wallet, settings forms, playground*: no fairness is assumed and no liveness claimed. What must
  happen in the end is stated as what holds when nothing is on its way (`Quiet`, `Paying`).

The pool can block for good in a way `PoolRuns` does not show: when all live workers run tasks that
submit others while the channel is full, nobody is left to take. With the real sizes (a channel of
thousands) it needs that many queued tasks at once. `PoolRuns` has room for the one nested submission.
Its liveness properties except the one way out that the code leaves (`missed /\ Abandoned`): a worker
that was free left while tasks were under way, and nobody who remains can take what is queued.
`PoolIdleRace` shows that this happens; the mutants show that nothing else may.

## 4. Proofs

All theorems are for every value of the constants that satisfies the modules' `ASSUME`s: any number
of requests, tokens, orders, handlers and nodes, any amounts. Every safety invariant and every action
property of the passing runs, and the refinement, is stated by one of them. Where something is summed,
the set summed over is assumed to be finite (`Requests` of `Billing`): a process serves finitely many requests.

| Theorem | Statement |
|---|---|
| `BillingProofs!TypeCorrect`, `NeverOverdrawn`, `ChargedAsRecorded`, `SettledForGood`, `Inductive` | `Spec => []TypeOK`, `[]NoOverdraft`, `[]ChargeMatchesSession`, `SettledIsFinal`, `[]IInv` |
| `BillingProofs!TokenAlwaysFollows`, `FailuresPayNothing`, `AccountsInductive` | `Spec => []TokenFollowsWallet`, `[]FailureIsFree`, `[]TokenInv` |
| `BillingProofs!BooksAlwaysBalance`, `BillingRefinesLedger` | `Spec => []BooksBalance`, `ImplementsLedger` |
| `TokenWindowProofs!WindowTypeCorrect`, `QuotasHold`, `CountersAgree`, `WindowsOnlyAdvance`, `WindowInductive` | `Spec => []TypeOK`, `[]UsedWithinQuota`, `[]WindowFollowsCycle`, `WindowsAdvance`, `[]WInv` |
| `TokenWindowProofs!UsageIsAccounted` | `Spec => []UsedIsAccounted` |
| `TopUpProofs!TopUpTypeCorrect`, `NeverCreditedTwice`, `NoUnpaidCredit`, `AcknowledgedIsCredited`, `FinalForGood` | `Spec => []TypeOK`, `[]CreditedOnce`, `[]CreditIsPaidFor`, `[]AckedIsCredited`, `StatusIsFinal` |
| `TopUpProofs!LocksAlwaysExact`, `FulfilmentsAreSerial` | `Spec => []LocksAreExact`, and of two handlers of a process one at most is inside for a shard |
| `RelayPoolProofs!PoolTypeCorrect`, `WorkersAlwaysCounted`, `NoTaskLostOrRepeated`, `WaitAlwaysExact` | `Spec => []TypeOK`, `[]WorkersCounted`, `[]EachTaskOnce`, `[]WaitIsExact` |
| `WalletProofs!WalletTypeCorrect`, `BalancesNeverNegative`, `CodesPaidOnce`, `AwardsFollowRecords`, `BalancesAlwaysAddUp` | `Spec => []TypeOK`, `[]NeverNegative`, `[]PaidOncePerOpening`, `[]AwardFollowsRecord`, `[]BalancesAddUp` |
| `SettingsFormProofs!FormTypeCorrect`, `CleanFieldsShowServer`, `SavesAreRefreshed`, `SavesWriteEditsOnly`, `EchoLeavesInput` | `Spec => []TypeOK`, `[]CleanShowsServer`, `[]SaveIsRefreshed`, `SavesOnlyEdits`, `EchoKeepsInput` |
| `PlaygroundProofs!PlaygroundTypeCorrect`, `AnswersAreTheirOwn`, `StopFinishes`, `FinishedStay`, `PlaygroundInductive` | `Spec => []TypeOK`, `[]OwnAnswers`, `[]UnfinishedCanBeStopped`, `FinishedStays`, `[]PInv` |

*Billing.* `ChargeMatchesSession` is not inductive: it says what a request has paid, not which flags
stand together with which line of the handler. `IInv` adds that in three parts: `SessionShape` (flags
that exclude each other), `LocationShape` (what the line of the handler says about them) and
`MoneyShape` (what they say about the money). A step of one request cannot disturb the shape of
another (`ShapeFrame`), so each action has one lemma. That `paid` and `tokenPaid` are natural numbers
is part of the type and needs all of it: no refund or settlement returns more than was taken.

*Wallet and token.* `TokenInv` says for every line of the handler and every state of the refund task how
far `tokenPaid` is from `paid`; `Follows` is where a token with a quota of its own may refuse a charge
that the wallet has taken already. It stands on top of `IInv`.

*The books.* Each step of a request takes from the wallet what it adds to `paid` or `feePaid` of that
request and moves no other account; the same for its token and `tokenPaid`. So the sum over all requests
(`WalletBooks`), and the one over the presenters of each token (`TokenBooks`), move with the row. A
crash moves nothing. `IInv` gives the types and says which of the two accounts a step may touch.

*Sums.* `SumTheorems` proves what these arguments need of `SumOver`, the library's fold: it is an
integer, it does not depend on the order, a change of one summand changes it by as much (`SumChange`),
and zeros add up to zero. The library's induction theorems take an operator and cannot be instantiated;
each induction is here a minimal counterexample instead. The subsets of a finite set are well-founded
under strict inclusion, so a nonempty set of subsets for which a law fails has a minimal member, and
the law holds for that one after all. That the fold's recursion is defined on every subset
(`TableExists`) is shown the same way.

*The ledger.* `PhaseOf` maps a request to open, held or closed from its line, session and job; `paid`
is `held`, `feePaid` the penalty. Every step is one ledger action or none. The proof uses `IInv` and
`FeeShape` (a fee is charged once). A crash abandons a set of requests at once, hence `Abandon(S)`.

*Windows.* `WInv` says, for a request between its two UPDATEs, by how much the counters are apart
(`HalfWay`), and that a counter above its quota is no more than the last save wrote: a save sets that mark,
a debit is refused above the quota, and everything else lowers the counter. Nothing is needed of the row a
save has read, which may be any. `WindowsAdvance` needs in addition that the start a request is about to set
is no earlier than the one its UPDATE is conditional on (`ResetsForward`); that is lost exactly for a request
whose `*Token` another has written, which is what `touched` records. `UsedIsAccounted` needs more: a reset
that wipes the counter must also leave nothing charged, so the window it starts must be strictly later
(which needs that the clock has passed one window, as it has on any real date), and nothing may have been
charged to windows that have not begun (`LaterWindowsEmpty`). Then a reset starts a window at zero, a debit
or a credit moves counter and window alike, and a save either writes the counters it found or ends the
claim, as a late reset does.

*Top-ups.* `TInv` ties the row to the payment (`OrderShape`) and the handler's line to what it may
rely on (`HandlerShape`). No lock occurs in it: what makes an order be credited once is the
conditional UPDATE alone, which is why the theorem covers SQLite and several nodes. What the locks add is
`LocksAreExact`: a lock is held exactly by the handler between `LockOrder` and the deferred unlock, on
every path out of it. It is the safety half of `LocksAreReleased`; that such a handler moves on is
fairness, and is model-checked. It was checked by TLC on the instances of `MCTopUp` before it was proved.

*The pool.* `PoolInv` is the type without the counters' signs, the places of the tasks (`Places`: who
carries what, and that no two carry the same) and the two exact counts. That the counters are natural
numbers follows from the counts; the counts need that sets of workers and tasks are finite and change
by one element in each step (`LiveGrows`, `LiveShrinks` and their like for the tasks).

*Balances.* Until a negative number was entered or configured, `Amounts` is the natural numbers, and afterwards
all integers: the types say with it that rows, codes and what a request keeps are never below zero before
that, and each step only has to be closed under `Amounts`, which grows at most once (`Growth`). `Configured`
says so of the award and the bonus. A code that can be redeemed has been paid no more often than reopened
(`CodeShape`); a record that is about to be paid or taken back is there, unpaid and nobody else's
(`AwardShape`). No row lock occurs in it: the conditional UPDATE and the unique index carry the proof, so it
holds on SQLite too. `BalancesAddUp` sums awards over the days; what codes have paid out is kept as a number,
as their worth changes.

*Settings forms.* `FormInv`: dirty keys were typed into (`EditShape`); unless the server has changed
since, the answer on its way or the cached data are the server's (`QueryShape`); what is written and not
yet read has a GET coming for it (`RefreshShape`); in a section that memoises, the baseline is the
server's, or what the save has put so far is (`MemoShape`).

*The playground.* The properties are about the last message, but what makes them true is who may be
writing to it, and what the page shows meanwhile. `PInv`: the page shows the list but for its last message
(`InStep`); while the reference is set, the last message is an unfinished answer of exactly that request,
every connection that still delivers is that request's, and no stream has completed since; a page that is
not generating shows the list as it is (`Generating`). Every other message is finished, or was put back, and
holds nothing of others (`AnswersInPlace`). A click ends with the page rendered (`RenderStep`); a stream
touches the last message and nothing of the page (`StreamStep`). Sending, regenerating and "Save & Submit"
append one answer (`SendPInv`); whatever ends a stream settles the last message and clears the reference
(`SettlePInv`). The part about answers is for runs without an overlap; `TypeOK` and `InStep` need nothing
of it and hold with overlaps too.

Only model-checked: liveness under fairness and what is about ENABLED (`RefundArrives`,
`TasksRunOrAreLeft`, `SubmissionsReturn`, `NextSubmissionRevives`, `PaymentArrives`,
`LocksAreReleased`). The inductive invariants were checked by TLC on small instances before they were
proved.

## 5. Findings

1. A panic in the first attempt keeps the pre-consumed quota: the deferred function looks at
   `newAPIError`, still nil (`relay.go:177`). Run `BillingInterruption`.
2. A task submitted while the last two idle workers leave is not run until the next submission, and
   `WaitRelayTasks` waits for it (`gopool.go:100`). Both have seen the channel empty and are still
   counted, so one waiting task is no reason to start another. (With one worker counted, the second
   look of `CtxGo` starts a new one, unless the cap is 1.) Run `PoolIdleRace`. `NextSubmissionRevives` is the
   part of the promise that holds.
3. Saving a token's settings writes back counters read earlier and undoes charges made in between
   (`token.go:445`). Run `WindowLostCharge`. What holds all the same: a counter passes its quota only where a
   save puts it, and no debit takes it further (`UsedWithinQuota`).
4. What is typed into a settings form while it is being saved is discarded when the save ends, or when
   a refetch brings other values (`use-settings-form.ts:220`, `:268`), although the hook's comment
   promises "No automatic resets that could overwrite user input" (`:168`). Run `SettingsInput`. What
   holds is `EchoKeepsInput` and `SavesOnlyEdits`.

Met while modelling, without a text of the repository that says otherwise:

- A credit for a charge of the last window lowers the counter of the present one, which then admits
  more than its quota (`token.go:720`); `charged` in `TokenWindow` goes negative for it.
- Requests that load a token together share one `*Token` (`token.go:424`). Two of them, r1 and r2, find the
  window over. r1 decides and resets it; r2 decides; r1 writes the new start to their `*Token`, is admitted
  and charges; r2 now sends that new start as the old one (`token.go:315`), its UPDATE matches, and sets the
  used quota of the present window back to zero. `late` in `TokenWindow` marks it, and `UsedIsAccounted`
  without `~late` is violated by exactly these steps. The same race is a data race of Go.
- `inviteUser`, `User.Edit` and `User.Update` write back balances read earlier (`user.go:289`, `:459`,
  `:441`); `docs/PRD/差异性/安全性.md` lists it. `overwritten` in `Wallet` marks it.
- An edit of a redemption code that was read before the code was redeemed enables it again
  (`redemption.go:188`); `reopened` counts these.
- The refresh after a save may be joined to an older GET and leave the page on the old values
  (`lib/api.ts:60`); a section that memoises may keep an old value when the data change and change back.
- A suggestion, or the saving of an edit that was open, clicked after an answer has ended and before the page
  shows it, puts the list of before back, with the answer still streaming and its source gone
  (`index.tsx:120`, `:162`). Stop does not finish it, and only a reload settles it. `putBack` marks it.
- Overlapping streams of the playground mix their answers, and after an overlap the end of one stream
  takes the Stop button of the other away.

## 6. Not modelled

For good: conversion between provider formats, logs and reports, sign-in protocols, tickets and media,
migrations, and most of the console (data, display or I/O, little control). Within modelled parts:
prices as arithmetic, HTTP and SQL details, token creation and deletion, a change of a token's quota mode,
price quotes of top-ups, registration and roles of users, display conversions and validation of the settings sections, the
playground without streaming (only a stored configuration selects it) and its pickers.

With control worth modelling, and not done here:

- The Realtime relay: three goroutines of a session share usage counters and charge in increments.
- The batch updater (off by default). `FlushBatchUpdates` at shutdown (`store/db/utils.go:80`) is said to
  keep what is pending from being lost; it finds the maps empty while the ticker's flush still holds
  what it swapped out, and does not wait for it.
- Channel selection with its in-memory table, the stream scanner, the rate limiters.
- The fill of the Redis copies. `Billing` lets a copy be anything, which is safe for the properties
  stated and says nothing of when a copy becomes right again.
- The composition of `Billing` with `Wallet`: `Billing` has no other movements of the user's quota, and
  `Wallet` takes those of the relay as single debits and credits.
