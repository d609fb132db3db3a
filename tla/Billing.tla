------------------------------ MODULE Billing ------------------------------
(***************************************************************************)
(* The billing session of a relay request (internal/domain/billing) and    *)
(* the part of the relay handler that drives it.                           *)
(*                                                                         *)
(* Requests of one user run concurrently. They share the user's wallet     *)
(* (users.quota) and API tokens (tokens.remain_quota, tokens.used_quota),  *)
(* and each owns a BillingSession. One action is one step the handlers can *)
(* be interleaved at: one SQL statement, or a stretch of Go code between   *)
(* two of them. Debits are conditional UPDATEs, so each is atomic.         *)
(*                                                                         *)
(* A token outside Limited has quota_type 0: only used_quota moves. A      *)
(* token in Limited stands for quota_type 1 (remain_quota) and, between    *)
(* two window resets, for quota_type 2, whose single conditional UPDATE    *)
(* on window_used_quota has the same shape; module TokenWindow models the  *)
(* resets and the two-statement debit of quota_type 3.                     *)
(***************************************************************************)
EXTENDS Integers, FiniteSets

CONSTANTS
  Requests,        \* relay requests of one user
  Tokens,          \* the user's API tokens
  Limited,         \* tokens with a quota of their own
  Setups,          \* which tokens the requests may present, with Redis or without
  InitWallet,      \* users.quota at the start
  InitRemain,      \* tokens.remain_quota at the start, per token
  Estimates,       \* what ModelPriceHelper may ask to pre-consume
  Prices,          \* what the usage of an answer may cost
  Fees,            \* violation fees; empty when the deduction is disabled
  TrustQuota,      \* common.GetTrustQuota()
  CachedQuotas,    \* values a Redis copy may hold besides the column's own
  DbFaults,        \* whether SQL statements may fail
  Panics,          \* whether handlers may panic
  Crashes          \* whether the process may crash

ASSUME RequestAssumption ==
  /\ IsFiniteSet(Requests)
  /\ Limited \subseteq Tokens
  /\ Setups \subseteq [token : [Requests -> Tokens], redis : BOOLEAN]
ASSUME AmountAssumption ==
  /\ InitWallet \in Nat
  /\ InitRemain \in [Tokens -> Nat]
  /\ Estimates \subseteq Nat /\ Prices \subseteq Nat
  /\ Fees \subseteq Nat \ {0}
  /\ TrustQuota \in Nat /\ CachedQuotas \subseteq Int
ASSUME FaultAssumption ==
  DbFaults \in BOOLEAN /\ Panics \in BOOLEAN /\ Crashes \in BOOLEAN

VARIABLES
  setup,       \* the token each request presents, and common.RedisEnabled: fixed
  wallet,      \* users.quota
  remain,      \* tokens.remain_quota
  used,        \* tokens.used_quota
  exhausted,   \* tokens whose status is TokenStatusExhausted
  pc,          \* where each handler is
  tokenQuota,  \* relayInfo.TokenQuota, the snapshot of the authentication
  estimate,    \* priceData.QuotaToPreConsume
  session,     \* the BillingSession
  price,       \* actualQuota of SettleBilling
  erred,       \* newAPIError # nil: an earlier attempt failed, or the last
  job,         \* next step of the asynchronous refund
  paid,        \* history: wallet money the usage of the request has taken
  feePaid,     \* history: wallet money its violation fee has taken
  tokenPaid,   \* history: token quota the request has taken
  faulted      \* history: a statement for the request failed or was lost

handlerVars == <<pc, tokenQuota, estimate, session, price, erred, job>>
historyVars == <<paid, feePaid, tokenPaid, faulted>>
vars == <<setup, wallet, remain, used, exhausted, handlerVars, historyVars>>

-----------------------------------------------------------------------------

NoSession ==
  [open |-> FALSE, consumed |-> 0, tokenConsumed |-> 0, preConsumed |-> 0,
   fundingSettled |-> FALSE, settled |-> FALSE, refunded |-> FALSE]

Sessions ==
  [open : BOOLEAN, consumed : Nat, tokenConsumed : Nat, preConsumed : Nat,
   fundingSettled : BOOLEAN, settled : BOOLEAN, refunded : BOOLEAN]

Ended == {"rejected", "served", "failed", "panicked", "crashed"}

Locations ==
  {"new", "exhausting", "priced", "takeToken", "takeWallet", "undoToken", "serving",
   "settle", "settleToken", "recording", "fee", "feeToken"} \cup Ended

\* "left": the task is in the pool's channel and no worker will look there.
Jobs == {"none", "left", "wallet", "token"}

\* The credits of the refund are still to come.
RefundDue(r) == job[r] \in {"left", "wallet"}

\* The token a request presents. Redis copies of the quotas exist only where
\* Redis is enabled.
TokenOf == setup.token
RedisEnabled == setup.redis
Copies == IF RedisEnabled THEN CachedQuotas ELSE {}

\* The handler has returned and no refund of the request is pending.
AtRest(r) == pc[r] \in Ended /\ job[r] = "none"

Goto(r, l) == pc' = [pc EXCEPT ![r] = l]

Fault(r) == DbFaults /\ faulted' = [faulted EXCEPT ![r] = TRUE]

-----------------------------------------------------------------------------
\* The two accounts.

\* Mutant: the debit loses its condition (quota >= ?).
WalletAllows_Unguarded(q) == TRUE

\* DecreaseUserQuota for q > 0, IncreaseUserQuota for q <= 0.
WalletAllows(q) == q > 0 => wallet >= q
ChargeWallet(q) == WalletAllows(q) /\ wallet' = wallet - q

\* DecreaseTokenQuota / UpdateTokenUsedQuota for q > 0, their inverses for q <= 0.
TokenAllows(t, q) == (t \in Limited /\ q > 0) => remain[t] >= q
\* Mutant: remain_quota moves and used_quota is forgotten.
ChargeToken_UsedForgotten(t, q) ==
  /\ TokenAllows(t, q)
  /\ remain' = IF t \in Limited THEN [remain EXCEPT ![t] = @ - q] ELSE remain
  /\ UNCHANGED used

ChargeToken(t, q) ==
  /\ TokenAllows(t, q)
  /\ remain' = IF t \in Limited THEN [remain EXCEPT ![t] = @ - q] ELSE remain
  /\ used' = [used EXCEPT ![t] = @ + q]

TakeFromToken(r, q) ==
  /\ ChargeToken(TokenOf[r], q)
  /\ tokenPaid' = [tokenPaid EXCEPT ![r] = @ + q]

TokenUnchanged == UNCHANGED <<remain, used, tokenPaid>>

-----------------------------------------------------------------------------

Init ==
  /\ setup \in Setups
  /\ wallet = InitWallet
  /\ remain = InitRemain
  /\ used = [t \in Tokens |-> 0]
  /\ exhausted = {}
  /\ pc = [r \in Requests |-> "new"]
  /\ tokenQuota = [r \in Requests |-> 0]
  /\ estimate = [r \in Requests |-> 0]
  /\ session = [r \in Requests |-> NoSession]
  /\ price = [r \in Requests |-> 0]
  /\ erred = [r \in Requests |-> FALSE]
  /\ job = [r \in Requests |-> "none"]
  /\ paid = [r \in Requests |-> 0]
  /\ feePaid = [r \in Requests |-> 0]
  /\ tokenPaid = [r \in Requests |-> 0]
  /\ faulted = [r \in Requests |-> FALSE]

\* TokenAuth: ValidateUserToken reads the token, from Redis or the database,
\* and SetupContextForToken leaves the quota read in the context; then
\* ModelPriceHelper prices the request. A free model skips the session.
Authenticate(r) ==
  LET t == TokenOf[r] IN
  /\ pc[r] = "new"
  /\ \E q \in {remain[t]} \cup Copies :
       /\ tokenQuota' = [tokenQuota EXCEPT ![r] = IF t \in Limited THEN q ELSE 0]
       /\ \/ t \in exhausted /\ Goto(r, "rejected") /\ UNCHANGED estimate
          \/ /\ t \notin exhausted /\ t \in Limited /\ q <= 0
             /\ Goto(r, IF RedisEnabled THEN "rejected" ELSE "exhausting")
             /\ UNCHANGED estimate
          \/ /\ t \notin exhausted /\ (t \in Limited => q > 0)
             /\ \/ Goto(r, "serving") /\ UNCHANGED estimate
                \/ Goto(r, "priced") /\ \E e \in Estimates : estimate' = [estimate EXCEPT ![r] = e]
  /\ UNCHANGED <<setup, wallet, remain, used, exhausted, session, price, erred, job, historyVars>>

\* Without Redis, a token found empty is marked exhausted, and stays so until
\* its owner enables it: SelectUpdate, whose error is logged.
MarkExhausted(r) ==
  /\ pc[r] = "exhausting"
  /\ \/ exhausted' = exhausted \cup {TokenOf[r]}
     \/ DbFaults /\ UNCHANGED exhausted
  /\ Goto(r, "rejected")
  /\ UNCHANGED <<setup, wallet, remain, used, tokenQuota, estimate, session, price, erred, job, historyVars>>

\* BillingSession.shouldTrust.
ShouldTrust(r, userQuota) ==
  /\ TrustQuota > 0
  /\ TokenOf[r] \in Limited => tokenQuota[r] > TrustQuota
  /\ userQuota > TrustQuota

\* NewBillingSession up to the first debit of preConsume.
OpenSession(r) ==
  /\ pc[r] = "priced"
  /\ \/ \E q \in {wallet} \cup Copies :
          IF q <= 0 \/ q - estimate[r] < 0
          THEN Goto(r, "rejected") /\ UNCHANGED session
          ELSE IF ShouldTrust(r, q) \/ estimate[r] = 0
          THEN Goto(r, "serving") /\ session' = [session EXCEPT ![r].open = TRUE]
          ELSE Goto(r, "takeToken") /\ UNCHANGED session
     \/ DbFaults /\ Goto(r, "rejected") /\ UNCHANGED session
  /\ UNCHANGED <<setup, wallet, remain, used, exhausted, tokenQuota, estimate, price, erred, job, historyVars>>

\* PreConsumeTokenQuota: first the snapshot, then the conditional UPDATE.
PreConsumeToken(r) ==
  LET t == TokenOf[r]
      q == estimate[r] IN
  /\ pc[r] = "takeToken"
  /\ \/ /\ t \in Limited => tokenQuota[r] >= q
        /\ TakeFromToken(r, q)
        /\ session' = [session EXCEPT ![r].tokenConsumed = q]
        /\ Goto(r, "takeWallet")
        /\ UNCHANGED faulted
     \/ /\ (t \in Limited /\ tokenQuota[r] < q) \/ ~TokenAllows(t, q) \/ DbFaults
        /\ Goto(r, "rejected")
        /\ TokenUnchanged /\ UNCHANGED <<session, faulted>>
  /\ UNCHANGED <<setup, wallet, exhausted, tokenQuota, estimate, price, erred, job, paid, feePaid>>

\* WalletFunding.PreConsume; on success the session is stored in relayInfo.
PreConsumeWallet(r) ==
  LET q == estimate[r] IN
  /\ pc[r] = "takeWallet"
  /\ \/ /\ ChargeWallet(q)
        /\ paid' = [paid EXCEPT ![r] = @ + q]
        /\ session' = [session EXCEPT ![r] = [@ EXCEPT !.open = TRUE, !.consumed = q, !.preConsumed = q]]
        /\ Goto(r, "serving")
     \/ /\ ~WalletAllows(q) \/ DbFaults
        /\ Goto(r, "undoToken")
        /\ UNCHANGED <<wallet, paid, session>>
  /\ UNCHANGED <<setup, remain, used, exhausted, tokenQuota, estimate, price, erred, job, feePaid, tokenPaid, faulted>>

\* Mutant: preConsume returns the wallet's error without the compensation.
UndoPreConsumeToken_Dropped(r) ==
  /\ pc[r] = "undoToken"
  /\ session' = [session EXCEPT ![r].tokenConsumed = 0]
  /\ Goto(r, "rejected")
  /\ TokenUnchanged
  /\ UNCHANGED <<setup, wallet, exhausted, tokenQuota, estimate, price, erred, job, paid, feePaid, faulted>>

\* The compensation of preConsume: an error of the credit is only logged.
UndoPreConsumeToken(r) ==
  /\ pc[r] = "undoToken"
  /\ \/ TakeFromToken(r, -session[r].tokenConsumed) /\ UNCHANGED faulted
     \/ Fault(r) /\ TokenUnchanged
  /\ session' = [session EXCEPT ![r].tokenConsumed = 0]
  /\ Goto(r, "rejected")
  /\ UNCHANGED <<setup, wallet, exhausted, tokenQuota, estimate, price, erred, job, paid, feePaid>>

-----------------------------------------------------------------------------
\* The attempts of the relay loop and the settlement of the one that succeeds.

\* An attempt fails and shouldRetry sends the loop round again.
AttemptFails(r) ==
  /\ pc[r] = "serving" /\ ~erred[r]
  /\ erred' = [erred EXCEPT ![r] = TRUE]
  /\ UNCHANGED <<setup, wallet, remain, used, pc, exhausted, tokenQuota, estimate, session, price, job, historyVars>>

\* An attempt is answered; its usage is priced and SettleBilling is called.
AttemptSucceeds(r) ==
  /\ pc[r] = "serving"
  /\ \E p \in Prices : price' = [price EXCEPT ![r] = p]
  /\ Goto(r, "settle")
  /\ UNCHANGED <<setup, wallet, remain, used, exhausted, tokenQuota, estimate, session, erred, job, historyVars>>

\* Mutant: the settlement charges the whole price on top of the hold.
Delta_FullPrice(r) == price[r]

Delta(r) == price[r] - session[r].preConsumed

\* SettleBilling up to the wallet: BillingSession.Settle, or PostConsumeQuota
\* when a free model left the request without a session.
SettleWallet(r) ==
  LET s == session[r]
      d == Delta(r) IN
  /\ pc[r] = "settle"
  /\ \/ /\ d = 0 \/ s.settled
        /\ session' = [session EXCEPT ![r].settled = s.open]
        /\ Goto(r, "recording")
        /\ UNCHANGED <<wallet, paid>>
     \/ /\ d # 0 /\ ~s.settled
        /\ ChargeWallet(d)
        /\ paid' = [paid EXCEPT ![r] = @ + d]
        /\ session' = [session EXCEPT ![r].fundingSettled = s.open]
        /\ Goto(r, "settleToken")
     \/ /\ d # 0 /\ ~s.settled
        /\ ~WalletAllows(d) \/ DbFaults
        /\ Goto(r, "recording")
        /\ UNCHANGED <<wallet, paid, session>>
  /\ UNCHANGED <<setup, remain, used, exhausted, tokenQuota, estimate, price, erred, job, feePaid, tokenPaid, faulted>>

\* The token follows; an error is logged and the session is settled anyway.
SettleToken(r) ==
  /\ pc[r] = "settleToken"
  /\ \/ TakeFromToken(r, Delta(r)) /\ UNCHANGED faulted
     \/ ~TokenAllows(TokenOf[r], Delta(r)) /\ TokenUnchanged /\ UNCHANGED faulted
     \/ Fault(r) /\ TokenUnchanged
  /\ session' = [session EXCEPT ![r].settled = session[r].open]
  /\ Goto(r, "recording")
  /\ UNCHANGED <<setup, wallet, exhausted, tokenQuota, estimate, price, erred, job, paid, feePaid>>

\* The consumption is logged and the handler returns without an error.
FinishServed(r) ==
  /\ pc[r] = "recording"
  /\ Goto(r, "served")
  /\ UNCHANGED <<setup, wallet, remain, used, exhausted, tokenQuota, estimate, session, price, erred, job, historyVars>>

-----------------------------------------------------------------------------
\* The deferred function of Relay.

\* Mutant: Refund does not look whether the session was settled.
NeedsRefund_SettledForgotten(s) == s.open /\ ~s.refunded /\ s.tokenConsumed > 0

NeedsRefund(s) == s.open /\ ~s.settled /\ ~s.refunded /\ ~s.fundingSettled /\ s.tokenConsumed > 0

\* Mutant: the session is marked refunded and the task is never submitted.
Refund_TaskDropped(r) ==
  /\ session' = [session EXCEPT ![r].refunded = NeedsRefund(session[r])]
  /\ UNCHANGED job

\* A worker takes every task that lies in the channel of the pool.
Woken == [r \in Requests |-> IF job[r] = "left" THEN "wallet" ELSE job[r]]

\* BillingSession.Refund: decide under the mutex, then leave the credits to
\* a task of the relay pool. A worker takes it, and those before it; or the
\* pool counts a worker that is just leaving and starts no other, and the
\* task stays in the channel (module RelayPool, EveryTaskRuns).
Refund(r) ==
  IF NeedsRefund(session[r])
  THEN /\ session' = [session EXCEPT ![r].refunded = TRUE]
       /\ \/ job' = [Woken EXCEPT ![r] = "wallet"]
          \/ job' = [job EXCEPT ![r] = "left"]
  ELSE UNCHANGED <<session, job>>

\* Mutant: the deferred function returns without the refund.
GiveUp_NoRefund(r) ==
  /\ pc[r] = "serving"
  /\ erred' = [erred EXCEPT ![r] = TRUE]
  /\ Goto(r, "failed") \/ Goto(r, "fee")
  /\ UNCHANGED <<setup, wallet, remain, used, exhausted, tokenQuota, estimate, session, price, job, historyVars>>

\* The last attempt failed: refund, and a fee when the error is a violation.
GiveUp(r) ==
  /\ pc[r] = "serving"
  /\ erred' = [erred EXCEPT ![r] = TRUE]
  /\ Refund(r)
  /\ Goto(r, "failed") \/ Goto(r, "fee")
  /\ UNCHANGED <<setup, wallet, remain, used, exhausted, tokenQuota, estimate, price, historyVars>>

\* A handler panics and gin recovers: the deferred function runs with the
\* error of an EARLIER attempt, which is nil when there was none.
Panic(r) ==
  /\ Panics
  /\ pc[r] \in {"serving", "recording"}
  /\ IF erred[r] THEN Refund(r) ELSE UNCHANGED <<session, job>>
  /\ Goto(r, "panicked")
  /\ UNCHANGED <<setup, wallet, remain, used, exhausted, tokenQuota, estimate, price, erred, historyVars>>

\* ChargeViolationFeeIfNeeded: the wallet part of PostConsumeQuota.
ChargeFee(r) ==
  /\ pc[r] = "fee"
  /\ \/ \E f \in Fees :
          /\ ChargeWallet(f)
          /\ feePaid' = [feePaid EXCEPT ![r] = f]
          /\ Goto(r, "feeToken")
     \/ /\ (\E f \in Fees : ~WalletAllows(f)) \/ Fees = {} \/ DbFaults
        /\ Goto(r, "failed")
        /\ UNCHANGED <<wallet, feePaid>>
  /\ UNCHANGED <<setup, remain, used, exhausted, tokenQuota, estimate, session, price, erred, job, paid, tokenPaid, faulted>>

\* ... and its token part, whose error is returned and logged.
ChargeFeeToken(r) ==
  /\ pc[r] = "feeToken"
  /\ \/ TakeFromToken(r, feePaid[r]) /\ UNCHANGED faulted
     \/ ~TokenAllows(TokenOf[r], feePaid[r]) /\ TokenUnchanged /\ UNCHANGED faulted
     \/ Fault(r) /\ TokenUnchanged
  /\ Goto(r, "failed")
  /\ UNCHANGED <<setup, wallet, exhausted, tokenQuota, estimate, session, price, erred, job, paid, feePaid>>

-----------------------------------------------------------------------------
\* The pool task of Refund: the wallet, then the token; errors are logged.

\* Mutant: the credit is applied and the task starts over.
RefundWallet_Repeated(r) ==
  LET q == session[r].consumed IN
  /\ job[r] = "wallet"
  /\ ChargeWallet(-q) /\ paid' = [paid EXCEPT ![r] = @ - q]
  /\ UNCHANGED <<setup, remain, used, job, pc, exhausted, tokenQuota, estimate, session, price, erred, feePaid, tokenPaid, faulted>>

RefundWallet(r) ==
  LET q == session[r].consumed IN
  /\ job[r] = "wallet"
  /\ \/ ChargeWallet(-q) /\ paid' = [paid EXCEPT ![r] = @ - q] /\ UNCHANGED faulted
     \/ Fault(r) /\ UNCHANGED <<wallet, paid>>
  /\ job' = [job EXCEPT ![r] = "token"]
  /\ UNCHANGED <<setup, remain, used, pc, exhausted, tokenQuota, estimate, session, price, erred, feePaid, tokenPaid>>

\* Some other task is submitted to the pool, which now starts a worker.
PoolWakes ==
  /\ \E r \in Requests : job[r] = "left"
  /\ job' = Woken
  /\ UNCHANGED <<setup, wallet, remain, used, exhausted, pc, tokenQuota, estimate, session, price, erred, historyVars>>

RefundToken(r) ==
  /\ job[r] = "token"
  /\ \/ TakeFromToken(r, -session[r].tokenConsumed) /\ UNCHANGED faulted
     \/ Fault(r) /\ TokenUnchanged
  /\ job' = [job EXCEPT ![r] = "none"]
  /\ UNCHANGED <<setup, wallet, pc, exhausted, tokenQuota, estimate, session, price, erred, paid, feePaid>>

-----------------------------------------------------------------------------

\* The process stops: handlers and pool tasks under way are gone, the
\* database stays, and requests that had not arrived find the new process.
Crash ==
  LET live == {r \in Requests : pc[r] # "new" /\ ~AtRest(r)} IN
  /\ Crashes /\ live # {}
  /\ pc' = [r \in Requests |-> IF r \in live /\ pc[r] \notin Ended THEN "crashed" ELSE pc[r]]
  /\ job' = [r \in Requests |-> "none"]
  /\ faulted' = [r \in Requests |-> faulted[r] \/ r \in live]
  /\ UNCHANGED <<setup, wallet, remain, used, exhausted, tokenQuota, estimate, session, price, erred, paid, feePaid, tokenPaid>>

PreConsume(r) ==
  \/ Authenticate(r) \/ MarkExhausted(r) \/ OpenSession(r)
  \/ PreConsumeToken(r) \/ PreConsumeWallet(r) \/ UndoPreConsumeToken(r)
Conclude(r) == AttemptSucceeds(r) \/ GiveUp(r)
Settle(r) == SettleWallet(r) \/ SettleToken(r) \/ FinishServed(r) \/ ChargeFee(r) \/ ChargeFeeToken(r)
RefundTask(r) == RefundWallet(r) \/ RefundToken(r)

Terminated == \A r \in Requests : AtRest(r)

Next ==
  \/ \E r \in Requests :
       PreConsume(r) \/ AttemptFails(r) \/ Conclude(r) \/ Settle(r) \/ Panic(r) \/ RefundTask(r)
  \/ PoolWakes
  \/ Crash
  \/ Terminated /\ UNCHANGED vars

Spec == Init /\ [][Next]_vars

\* SQL statements return, the retry loop is bounded by RetryTimes, and a
\* worker of the pool finishes what it took. Nothing promises that a task left
\* in the channel is found: PoolWakes, another submission, may never come.
Fairness ==
  \A r \in Requests :
    WF_vars(PreConsume(r)) /\ WF_vars(Conclude(r)) /\ WF_vars(Settle(r)) /\ WF_vars(RefundTask(r))

FairSpec == Spec /\ Fairness
=============================================================================
