------------------------------- MODULE TopUp -------------------------------
(***************************************************************************)
(* Top-up orders: internal/store/topup, the controllers of the two         *)
(* payment providers and the in-process order locks.                       *)
(*                                                                         *)
(* An order is credited by whoever gets there first: the gateway's         *)
(* callback, which comes again until it is acknowledged, the user's own    *)
(* check, which asks the gateway, or an administrator. Each takes the      *)
(* order's shard of its node's lock table, reads the row and ends in a     *)
(* conditional UPDATE in the same transaction as the credit. Nodes share   *)
(* only the database. A Stripe order may also expire or fail.              *)
(***************************************************************************)
EXTENDS Integers, FiniteSets

CONSTANTS
  Orders, Stripe,      \* top-up orders, and those paid through Stripe
  Mismatched,          \* orders whose payment does not match the row
  Handlers, Nodes, NodeOf,   \* HTTP handlers, and the process each runs in
  Shards, ShardOf,     \* the lock each order hashes to
  RowLocks,            \* FALSE on SQLite, where FOR UPDATE does nothing
  DbFaults, Lossy,     \* whether statements may fail, replies may be lost
  MaxCrashes,          \* bound on the crashes of processes
  Nobody, NoOrder

ASSUME OrderAssumption ==
  /\ Stripe \subseteq Orders /\ Mismatched \subseteq Orders
  /\ NodeOf \in [Handlers -> Nodes] /\ ShardOf \in [Orders -> Shards]
  /\ RowLocks \in BOOLEAN /\ DbFaults \in BOOLEAN
  /\ Lossy \in BOOLEAN /\ MaxCrashes \in Nat
  /\ Nobody \notin Handlers /\ NoOrder \notin Orders

VARIABLES
  status,    \* topups.status; "none" before the row exists
  gateway,   \* what has become of the payment at the provider
  acked,     \* orders whose outcome the provider knows to be delivered
  lock,      \* orderLocks, of each node
  at,        \* where each handler is
  job,       \* what it does, for which order
  result,    \* what its transaction has returned
  crashes,   \* how many processes have crashed
  credits,   \* history: how often users.quota was increased for the order
  manual     \* history: orders an administrator has completed

handlerVars == <<at, job, result>>
vars == <<status, gateway, acked, lock, handlerVars, crashes, credits, manual>>

Outcomes == {"paid", "expired", "failed"}
Events == Outcomes \cup {"check", "admin"}
NoJob == [event |-> "none", order |-> NoOrder]
Goto(h, l) == at' = [at EXCEPT ![h] = l]
Shard(h) == <<NodeOf[h], ShardOf[job[h].order]>>

Init ==
  /\ status = [o \in Orders |-> "none"]
  /\ gateway = [o \in Orders |-> "none"]
  /\ acked = {} /\ manual = {} /\ crashes = 0
  /\ lock = [s \in Nodes \X Shards |-> Nobody]
  /\ at = [h \in Handlers |-> "idle"]
  /\ job = [h \in Handlers |-> NoJob]
  /\ result = [h \in Handlers |-> "none"]
  /\ credits = [o \in Orders |-> 0]

\* RequestPay, RequestEpay: the link is made before the row is inserted, and
\* is shown to the user only after.
RequestPay(o) ==
  /\ gateway[o] = "none"
  /\ gateway' = [gateway EXCEPT ![o] = "open"]
  /\ \/ status' = [status EXCEPT ![o] = "pending"]
     \/ DbFaults /\ UNCHANGED status
  /\ UNCHANGED <<acked, lock, handlerVars, crashes, credits, manual>>

-----------------------------------------------------------------------------
\* The providers. Stripe may settle later, and ends a session exactly once.

GatewayBecomes(o, outcome) ==
  /\ gateway' = [gateway EXCEPT ![o] = outcome]
  /\ UNCHANGED <<status, acked, lock, handlerVars, crashes, credits, manual>>

Pay(o) ==
  /\ gateway[o] = "open" /\ status[o] # "none"
  /\ \/ GatewayBecomes(o, "paid")
     \/ o \in Stripe /\ GatewayBecomes(o, "settling")
Settle(o) == gateway[o] = "settling" /\ (GatewayBecomes(o, "paid") \/ GatewayBecomes(o, "failed"))
Expire(o) == o \in Stripe /\ gateway[o] = "open" /\ GatewayBecomes(o, "expired")

-----------------------------------------------------------------------------
\* The handlers.

Begin(h, event, o, l) ==
  /\ at[h] = "idle"
  /\ job' = [job EXCEPT ![h] = [event |-> event, order |-> o]]
  /\ Goto(h, l)
  /\ UNCHANGED <<status, gateway, acked, lock, result, crashes, credits, manual>>

\* EpayNotify, StripeWebhook: a callback may come again, acknowledged or not.
Notify(h, o) == gateway[o] \in Outcomes /\ Begin(h, gateway[o], o, "lock")

\* CheckTopUp goes on only for a pending epay order.
Check(h, o) == o \notin Stripe /\ status[o] = "pending" /\ Begin(h, "check", o, "query")

AdminCompleteTopUp(h, o) == Begin(h, "admin", o, "lock")

\* Mutant: the gateway's answer is not looked at.
QueryEpayOrder_Unread(h) ==
  /\ at[h] = "query"
  /\ Goto(h, "lock") /\ UNCHANGED job
  /\ UNCHANGED <<status, gateway, acked, lock, result, crashes, credits, manual>>

\* QueryEpayOrder, whose answer decides whether CheckTopUp goes on.
QueryEpayOrder(h) ==
  /\ at[h] = "query"
  /\ \/ gateway[job[h].order] = "paid" /\ Goto(h, "lock") /\ UNCHANGED job
     \/ Goto(h, "idle") /\ job' = [job EXCEPT ![h] = NoJob]
  /\ UNCHANGED <<status, gateway, acked, lock, result, crashes, credits, manual>>

\* LockOrder. FulfillOrder looks the order up before the transaction.
LockOrder(h) ==
  /\ at[h] = "lock" /\ lock[Shard(h)] = Nobody
  /\ lock' = [lock EXCEPT ![Shard(h)] = h]
  /\ Goto(h, IF job[h].event = "paid" /\ job[h].order \in Stripe THEN "find" ELSE "read")
  /\ UNCHANGED <<status, gateway, acked, job, result, crashes, credits, manual>>

Conclude(h, r) == result' = [result EXCEPT ![h] = r] /\ Goto(h, "unlock")

\* FulfillOrder: GetTopUpByTradeNo and VerifySessionAmount.
FindOrder(h) ==
  LET o == job[h].order IN
  /\ at[h] = "find"
  /\ \/ status[o] = "none" /\ Conclude(h, "gone")
     \/ status[o] # "none" /\ o \in Mismatched /\ Conclude(h, "error")
     \/ status[o] # "none" /\ o \notin Mismatched /\ Goto(h, "read") /\ UNCHANGED result
     \/ DbFaults /\ Conclude(h, "error")
  /\ UNCHANGED <<status, gateway, acked, lock, job, crashes, credits, manual>>

\* Mutant: the name of the event is stored as the status.
Target_Event(event) == event

\* The status the event writes.
Target(event) ==
  IF event \in {"expired", "failed"} THEN event ELSE "success"

\* The transaction's read says the order is not pending any more.
Refused(h) == status[job[h].order] # "pending"

\* The transaction reads the row and validates it (validateTopUpCallback; an
\* administrator's completion does not look at the payment).
ReadOrder(h) ==
  LET o == job[h].order IN
  /\ at[h] = "read"
  /\ RowLocks => \A g \in Handlers : at[g] = "commit" => job[g].order # o
  /\ \/ status[o] = "none" /\ Conclude(h, "error")
     \/ /\ status[o] # "none" /\ job[h].event \in {"paid", "check"} /\ o \in Mismatched
        /\ Conclude(h, "error")
     \/ /\ status[o] # "none" /\ (job[h].event \in {"paid", "check"} => o \notin Mismatched)
        /\ IF Refused(h) THEN Conclude(h, "handled")
           ELSE Goto(h, "commit") /\ UNCHANGED result
     \/ DbFaults /\ Conclude(h, "error")
  /\ UNCHANGED <<status, gateway, acked, lock, job, crashes, credits, manual>>

\* Mutant: the UPDATE is by id alone.
Flips_Unconditional(h) == TRUE

\* Mutant: any order that is not a success yet is found.
Flips_NotSuccess(h) == status[job[h].order] # "success"

\* UPDATE ... WHERE id = ? AND status = 'pending' finds the row.
Flips(h) == status[job[h].order] = "pending"

\* The conditional UPDATE, and with it the credit.
Commit(h) ==
  LET o == job[h].order
      target == Target(job[h].event) IN
  /\ at[h] = "commit"
  /\ \/ /\ Flips(h)
        /\ status' = [status EXCEPT ![o] = target]
        /\ credits' = [credits EXCEPT ![o] = IF target = "success" THEN @ + 1 ELSE @]
        /\ manual' = IF job[h].event = "admin" THEN manual \cup {o} ELSE manual
        /\ Conclude(h, "done")
     \/ /\ ~Flips(h) /\ Conclude(h, "handled")
        /\ UNCHANGED <<status, credits, manual>>
     \/ DbFaults /\ Conclude(h, "error") /\ UNCHANGED <<status, credits, manual>>
  /\ UNCHANGED <<gateway, acked, lock, job, crashes>>

\* Mutant: an early return of the handler leaves the shard locked.
UnlockOrder_Forgotten(h) ==
  /\ at[h] = "unlock"
  /\ lock' = IF result[h] = "error" THEN lock ELSE [lock EXCEPT ![Shard(h)] = Nobody]
  /\ Goto(h, "reply")
  /\ UNCHANGED <<status, gateway, acked, job, result, crashes, credits, manual>>

\* The deferred UnlockOrder, before the response is written.
UnlockOrder(h) ==
  /\ at[h] = "unlock"
  /\ lock' = [lock EXCEPT ![Shard(h)] = Nobody]
  /\ Goto(h, "reply")
  /\ UNCHANGED <<status, gateway, acked, job, result, crashes, credits, manual>>

\* Mutant: a callback is acknowledged whatever has become of it.
Acknowledged_Always(h) == job[h].event \in Outcomes

\* "success" or a 2xx: the order is settled, was settled before, or, for
\* FulfillOrder, does not exist.
Acknowledged(h) == job[h].event \in Outcomes /\ result[h] \in {"done", "handled", "gone"}

Reply(h) ==
  /\ at[h] = "reply"
  /\ \/ acked' = IF Acknowledged(h) THEN acked \cup {job[h].order} ELSE acked
     \/ Lossy /\ UNCHANGED acked
  /\ Goto(h, "idle")
  /\ job' = [job EXCEPT ![h] = NoJob] /\ result' = [result EXCEPT ![h] = "none"]
  /\ UNCHANGED <<status, gateway, lock, crashes, credits, manual>>

-----------------------------------------------------------------------------

\* A process stops: its handlers and its lock table are gone, and what they
\* had not committed is rolled back.
Crash(n) ==
  LET mine == {h \in Handlers : NodeOf[h] = n} IN
  /\ crashes < MaxCrashes /\ \E h \in mine : at[h] # "idle"
  /\ crashes' = crashes + 1
  /\ at' = [h \in Handlers |-> IF h \in mine THEN "idle" ELSE at[h]]
  /\ job' = [h \in Handlers |-> IF h \in mine THEN NoJob ELSE job[h]]
  /\ result' = [h \in Handlers |-> IF h \in mine THEN "none" ELSE result[h]]
  /\ lock' = [s \in Nodes \X Shards |-> IF s[1] = n THEN Nobody ELSE lock[s]]
  /\ UNCHANGED <<status, gateway, acked, credits, manual>>

Step(h) ==
  QueryEpayOrder(h) \/ LockOrder(h) \/ FindOrder(h) \/ ReadOrder(h) \/ Commit(h)
    \/ UnlockOrder(h) \/ Reply(h)

Next ==
  \/ \E o \in Orders : RequestPay(o) \/ Pay(o) \/ Settle(o) \/ Expire(o)
  \/ \E h \in Handlers :
       \/ Step(h)
       \/ \E o \in Orders : Notify(h, o) \/ Check(h, o) \/ AdminCompleteTopUp(h, o)
  \/ \E n \in Nodes : Crash(n)

Spec == Init /\ [][Next]_vars

\* A handler at l for order o gets past its statement.
StatementRuns(o, l) ==
  \E h \in Handlers : job[h].order = o /\ at[h] = l /\ Step(h) /\ result'[h] # "error"

\* Some handler gets each callback again and again while the provider has no
\* acknowledgement; handlers run; a statement tried again and again for the
\* same order succeeds in the end. Sync.Mutex starves no waiter. Nobody has
\* to pay, to check or to complete an order.
Fairness ==
  /\ \A o \in Orders : SF_vars(o \notin acked /\ \E h \in Handlers : Notify(h, o))
  /\ \A h \in Handlers : WF_vars(Step(h)) /\ SF_vars(LockOrder(h))
  /\ \A o \in Orders, l \in {"find", "read", "commit"} : SF_vars(StatementRuns(o, l))

FairSpec == Spec /\ Fairness
=============================================================================
