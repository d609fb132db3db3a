------------------------- MODULE BillingProperties -------------------------
(***************************************************************************)
(* What must be true of Billing: its type, its books, what each request    *)
(* may have cost once it is over, and the abstract ledger it implements.   *)
(***************************************************************************)
EXTENDS Billing, Sums

\* The state is well typed (the fields of BillingSession, service.go:81). What
\* a request has taken, from the wallet or its token, is never negative: no
\* settlement or refund gives back more than the request had taken.
TypeOK ==
  /\ setup \in Setups
  /\ wallet \in Int
  /\ remain \in [Tokens -> Int] /\ used \in [Tokens -> Int]
  /\ exhausted \subseteq Tokens
  /\ pc \in [Requests -> Locations]
  /\ tokenQuota \in [Requests -> Int]
  /\ estimate \in [Requests -> Nat] /\ price \in [Requests -> Nat]
  /\ session \in [Requests -> Sessions]
  /\ erred \in [Requests -> BOOLEAN]
  /\ job \in [Requests -> Jobs]
  /\ paid \in [Requests -> Nat] /\ feePaid \in [Requests -> Nat]
  /\ tokenPaid \in [Requests -> Nat]
  /\ faulted \in [Requests -> BOOLEAN]

\* Whatever stale quota the admission reads, and however the requests
\* interleave, neither the wallet nor a token is ever spent below zero
\* (user.go:755 and token.go:561 promise this of their conditional UPDATEs).
NoOverdraft == wallet >= 0 /\ \A t \in Tokens : remain[t] >= 0

\* Every unit missing from the wallet is in the account of some request, and
\* every unit a token has used was charged by a request that presents it:
\* no interleaving, failed statement or crash creates or destroys quota.
BooksBalance ==
  /\ wallet + SumOver([r \in Requests |-> paid[r] + feePaid[r]], Requests) = InitWallet
  /\ \A t \in Tokens :
       /\ used[t] = SumOver(tokenPaid, {r \in Requests : TokenOf[r] = t})
       /\ remain[t] = IF t \in Limited THEN InitRemain[t] - used[t] ELSE InitRemain[t]

\* What the wallet has lost to the usage of request r, said by the flags of
\* its session alone. A Settle that fails on the wallet keeps the pre-consumed
\* quota: the platform absorbs the difference (usage.go:393).
Owed(r) ==
  LET s == session[r]
      refundedWallet == s.refunded /\ ~RefundDue(r) IN
  IF ~s.open
  THEN IF pc[r] \in {"settleToken", "recording", "served"} THEN {0, price[r]} ELSE {0}
  ELSE IF s.settled \/ s.fundingSettled THEN {price[r]}
  ELSE IF refundedWallet THEN {0} ELSE {s.preConsumed}

\* As long as no statement of r failed, r has paid what its session says, at
\* every step: nothing is charged twice, refunded twice, or refunded after it
\* was settled (relay/common/billing.go:12).
ChargeMatchesSession ==
  \A r \in Requests :
    ~faulted[r] /\ pc[r] \notin {"panicked", "crashed"} => paid[r] \in Owed(r)

\* A finished request of which no statement failed never holds more of its
\* token than the wallet was charged for it, and on a token without a quota
\* holds exactly that: the two accounts are adjusted together (billing.go:8).
TokenFollowsWallet ==
  \A r \in Requests :
    AtRest(r) /\ ~faulted[r] =>
      /\ tokenPaid[r] <= paid[r] + feePaid[r]
      /\ TokenOf[r] \notin Limited => tokenPaid[r] = paid[r] + feePaid[r]

\* A request whose error reached the client has paid for no usage once its
\* refund has run, if no statement of the refund failed; a fee is all that is
\* left (the deferred function, relay.go:177-186).
FailureIsFree ==
  \A r \in Requests :
    pc[r] \in {"rejected", "failed"} /\ AtRest(r) /\ ~faulted[r] =>
      paid[r] = 0 /\ tokenPaid[r] <= feePaid[r]

\* Once a session is settled, no later step (a late panic, the deferred
\* refund, another request) moves what it charged to the wallet or the token.
SettledIsFinal ==
  [][\A r \in Requests :
       session[r].settled => paid'[r] = paid[r] /\ tokenPaid'[r] = tokenPaid[r]]_vars

-----------------------------------------------------------------------------
\* The inductive invariant behind TypeOK and ChargeMatchesSession.

\* Which flags of a session can stand together.
SessionShape(r) ==
  LET s == session[r] IN
  /\ s.consumed = s.preConsumed
  /\ s.open => s.tokenConsumed = s.preConsumed
  /\ s.settled \/ s.fundingSettled \/ s.refunded \/ s.preConsumed > 0 => s.open
  /\ s.refunded => ~s.settled /\ ~s.fundingSettled /\ s.preConsumed > 0
  /\ job[r] # "none" => s.refunded

\* What the location of the handler says about its session.
LocationShape(r) ==
  LET s == session[r]
      l == pc[r] IN
  /\ l \in {"new", "exhausting", "priced", "takeToken"} => s = NoSession /\ tokenPaid[r] = 0
  /\ l \in {"takeWallet", "undoToken"} =>
       ~s.open /\ s.tokenConsumed = estimate[r] /\ tokenPaid[r] = estimate[r]
  /\ l \in {"serving", "settle"} =>
       /\ ~s.settled /\ ~s.fundingSettled
       /\ tokenPaid[r] = s.preConsumed
  /\ l = "settleToken" =>
       /\ ~s.settled /\ s.fundingSettled = s.open
       /\ tokenPaid[r] = s.preConsumed
  /\ l \in {"recording", "served"} /\ s.fundingSettled => s.settled
  /\ l \in {"fee", "feeToken", "failed", "rejected"} => ~s.settled /\ ~s.fundingSettled
  /\ s.refunded => l \in {"fee", "feeToken", "failed", "panicked", "crashed"}
  /\ l \notin Ended \cup {"settleToken", "recording", "fee", "feeToken"} => paid[r] = s.preConsumed

\* What the flags of the session say about the money.
MoneyShape(r) ==
  LET s == session[r] IN
  /\ s.settled \/ s.fundingSettled => paid[r] = price[r]
  /\ s.open /\ ~s.settled /\ ~s.fundingSettled /\ ~s.refunded =>
       paid[r] = s.preConsumed /\ tokenPaid[r] >= s.preConsumed
  /\ RefundDue(r) => paid[r] = s.preConsumed
  /\ s.refunded => tokenPaid[r] >= (IF job[r] = "none" THEN 0 ELSE s.preConsumed)
  /\ s.refunded /\ ~RefundDue(r) /\ ~faulted[r] => paid[r] = 0
  /\ ~s.open /\ paid[r] # 0 =>
       /\ pc[r] \in {"settleToken", "recording", "served", "panicked", "crashed"}
       /\ paid[r] = price[r]

Shape(r) == SessionShape(r) /\ LocationShape(r) /\ MoneyShape(r)

IInv == TypeOK /\ NoOverdraft /\ \A r \in Requests : Shape(r)

-----------------------------------------------------------------------------
\* The abstract ledger: what of the state the wallet's owner sees.

WalletDone(r) ==
  \/ pc[r] \in Ended \cup {"fee", "feeToken"} /\ ~RefundDue(r)
  \/ pc[r] = "settleToken"
  \/ pc[r] = "recording" /\ (session[r].open => session[r].settled)

PhaseOf(r) ==
  IF WalletDone(r) THEN "closed"
  ELSE IF session[r].consumed > 0 THEN "held" ELSE "open"

Ledger == INSTANCE BillingLedger WITH
  Opening <- InitWallet,
  balance <- wallet,
  phase <- [r \in Requests |-> PhaseOf(r)],
  held <- paid,
  penalty <- feePaid

\* The sessions implement the ledger: each request reserves at most once, and
\* its usage charge is captured, released or abandoned exactly once.
ImplementsLedger == Ledger!Spec

-----------------------------------------------------------------------------
\* Liveness, while the process stays up.

\* Once a worker of the pool has the task of a refund, at its submission or at
\* a later one of any other task, the hold comes back, unless the credit fails
\* in the database (a failure is logged and never tried again) or the process
\* stops. A task the pool has left in its channel may stay there.
RefundArrives ==
  \A r \in Requests :
    session[r].refunded /\ job[r] # "left" ~> (paid[r] = 0 \/ faulted[r])

-----------------------------------------------------------------------------
\* Claims of the repository's documents that the code does not keep.

\* An interrupted request handles its pre-consumed quota like a failed one:
\* at rest and unsettled it has paid nothing (acceptance criterion of the
\* billing, docs/PRD: the net charge equals the settlement, and failure and
\* interruption deal with the pre-consumed quota).
InterruptionReturnsHold ==
  \A r \in Requests :
    pc[r] = "panicked" /\ AtRest(r) /\ session[r].open /\ ~session[r].settled => paid[r] = 0
=============================================================================
