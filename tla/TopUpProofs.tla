---------------------------- MODULE TopUpProofs ----------------------------
(***************************************************************************)
(* Orders are credited once, only for payments or by an administrator, and *)
(* an acknowledged payment is credited: for every set of orders, handlers, *)
(* nodes and lock shards, with failing statements, lost replies and        *)
(* crashes, with and without row locks in the database. The order locks    *)
(* serialise the fulfilments of each process and none is ever left behind. *)
(***************************************************************************)
EXTENDS TopUpProperties, TLAPS

LEMMA InitTInv == Init => TInv
<1>. SUFFICES ASSUME Init PROVE TInv
  OBVIOUS
<1>1. TypeOK
  BY DEF Init, TypeOK, Statuses, Locations
<1>2. CreditedOnce /\ CreditIsPaidFor /\ AckedIsCredited
  BY DEF Init, CreditedOnce, CreditIsPaidFor, AckedIsCredited
<1>3. \A o \in Orders : OrderShape(o)
  BY DEF Init, OrderShape
<1>4. \A h \in Handlers : HandlerShape(h)
  BY DEF Init, HandlerShape
<1>. QED BY <1>1, <1>2, <1>3, <1>4 DEF TInv

LEMMA StutterTInv == TInv /\ UNCHANGED vars => TInv'
  BY DEF TInv, vars, handlerVars, TypeOK, CreditedOnce, CreditIsPaidFor, AckedIsCredited,
         OrderShape, HandlerShape

-----------------------------------------------------------------------------
\* Steps of the providers.

\* A payment that has not come to an outcome goes on.
LEMMA GatewayStep ==
  ASSUME TInv, NEW o \in Orders, NEW outcome \in {"open", "settling", "paid", "expired", "failed"},
         gateway[o] \notin Outcomes,
         gateway' = [gateway EXCEPT ![o] = outcome],
         status' = status \/ (status[o] = "none" /\ status' = [status EXCEPT ![o] = "pending"]),
         outcome \in {"settling", "paid"} => status'[o] # "none",
         UNCHANGED <<acked, lock, handlerVars, crashes, credits, manual>>
  PROVE  TInv'
<1>1. TypeOK'
  BY DEF TInv, TypeOK, Statuses, Outcomes, handlerVars
<1>2. \A p \in Orders : OrderShape(p)'
  BY <1>1 DEF TInv, TypeOK, Statuses, OrderShape, Outcomes
<1>3. CreditedOnce' /\ CreditIsPaidFor' /\ AckedIsCredited'
  BY <1>1 DEF TInv, TypeOK, Statuses, CreditedOnce, CreditIsPaidFor, AckedIsCredited, OrderShape, Outcomes
<1>4. ASSUME NEW h \in Handlers PROVE HandlerShape(h)'
  <2>1. HandlerShape(h) /\ at'[h] = at[h] /\ job'[h] = job[h] /\ result'[h] = result[h]
    BY DEF TInv, handlerVars
  <2>2. CASE at[h] = "idle"
    BY <2>1, <2>2 DEF HandlerShape
  <2>3. CASE at[h] # "idle"
    <3>. DEFINE p == job[h].order
    <3>1. p \in Orders
      BY <2>1, <2>3 DEF HandlerShape
    <3>2. gateway[p] \in Outcomes => gateway'[p] = gateway[p]
      BY <3>1 DEF TInv, TypeOK
    <3>3. /\ status[p] # "none" => status'[p] = status[p]
          /\ status'[p] = status[p] \/ status'[p] = "pending"
      BY <3>1 DEF TInv, TypeOK
    <3>. QED BY <2>1, <2>3, <3>1, <3>2, <3>3 DEF HandlerShape, Outcomes, Final
  <2>. QED BY <2>2, <2>3
<1>. QED BY <1>1, <1>2, <1>3, <1>4 DEF TInv

LEMMA ProviderTInv ==
  TInv /\ (\E o \in Orders : RequestPay(o) \/ Pay(o) \/ Settle(o) \/ Expire(o)) => TInv'
<1>. SUFFICES ASSUME TInv, NEW o \in Orders, RequestPay(o) \/ Pay(o) \/ Settle(o) \/ Expire(o)
              PROVE  TInv'
  OBVIOUS
<1>1. CASE RequestPay(o)
  <2>1. gateway[o] = "none" /\ status[o] = "none"
    BY <1>1 DEF RequestPay, TInv, OrderShape
  <2>. QED BY <1>1, <2>1, GatewayStep DEF RequestPay, Outcomes
<1>2. CASE Pay(o)
  BY <1>2, GatewayStep DEF Pay, GatewayBecomes, Outcomes
<1>3. CASE Settle(o)
  <2>1. status[o] # "none"
    BY <1>3 DEF Settle, TInv, OrderShape
  <2>. QED BY <1>3, <2>1, GatewayStep DEF Settle, GatewayBecomes, Outcomes
<1>4. CASE Expire(o)
  BY <1>4, GatewayStep DEF Expire, GatewayBecomes, Outcomes
<1>. QED BY <1>1, <1>2, <1>3, <1>4

-----------------------------------------------------------------------------
\* Steps of the handlers.

\* A handler that moves nothing but its own state, and perhaps its lock.
LEMMA OwnStep ==
  ASSUME TInv, NEW h \in Handlers,
         UNCHANGED <<status, gateway, acked, crashes, credits, manual>>,
         TypeOK', HandlerShape(h)',
         \A g \in Handlers \ {h} : at'[g] = at[g] /\ job'[g] = job[g] /\ result'[g] = result[g]
  PROVE  TInv'
<1>1. \A o \in Orders : OrderShape(o)'
  BY DEF TInv, OrderShape
<1>2. CreditedOnce' /\ CreditIsPaidFor' /\ AckedIsCredited'
  BY DEF TInv, CreditedOnce, CreditIsPaidFor, AckedIsCredited
<1>3. \A g \in Handlers \ {h} : HandlerShape(g)'
  BY DEF TInv, HandlerShape
<1>. QED BY <1>1, <1>2, <1>3 DEF TInv

LEMMA BeginTInv ==
  ASSUME TInv, NEW h \in Handlers, NEW o \in Orders,
         Notify(h, o) \/ Check(h, o) \/ AdminCompleteTopUp(h, o)
  PROVE  TInv'
<1>1. at[h] = "idle" /\ result[h] = "none"
  BY DEF Notify, Check, AdminCompleteTopUp, Begin, TInv, HandlerShape
<1>2. PICK e \in Events, l \in {"lock", "query"} :
        /\ Begin(h, e, o, l)
        /\ e \in Outcomes => gateway[o] = e
        /\ e = "check" <=> l = "query"
  BY DEF Notify, Check, AdminCompleteTopUp, Events, Outcomes
<1>3. TypeOK'
  BY <1>2 DEF TInv, TypeOK, Begin, Goto, Locations
<1>4. at'[h] = l /\ job'[h] = [event |-> e, order |-> o] /\ result'[h] = "none"
  BY <1>1, <1>2 DEF TInv, TypeOK, Begin, Goto
<1>5. HandlerShape(h)'
  BY <1>2, <1>4 DEF HandlerShape, Begin
<1>6. \A g \in Handlers \ {h} : at'[g] = at[g] /\ job'[g] = job[g] /\ result'[g] = result[g]
  BY <1>2 DEF TInv, TypeOK, Begin, Goto
<1>. QED BY <1>2, <1>3, <1>5, <1>6, OwnStep DEF Begin

\* What a busy handler is doing.
LEMMA Busy ==
  ASSUME TInv, NEW h \in Handlers, at[h] # "idle"
  PROVE  /\ job[h].order \in Orders /\ job[h].event \in Events
         /\ job[h] \in [event : Events, order : Orders] /\ Shard(h) \in Nodes \X Shards
<1>1. job[h] \in [event : Events, order : Orders]
  BY DEF TInv, HandlerShape
<1>2. ShardOf[job[h].order] \in Shards /\ NodeOf[h] \in Nodes
  BY <1>1, OrderAssumption
<1>. QED BY <1>1, <1>2 DEF Shard

LEMMA QueryTInv == ASSUME TInv, NEW h \in Handlers, QueryEpayOrder(h) PROVE TInv'
<1>. DEFINE o == job[h].order
<1>1. /\ at[h] = "query" /\ HandlerShape(h) /\ result[h] = "none" /\ job[h].event = "check"
      /\ job[h] \in [event : Events, order : Orders]
  BY DEF QueryEpayOrder, TInv, HandlerShape
<1>2. TypeOK'
  BY <1>1 DEF QueryEpayOrder, TInv, TypeOK, Goto, Locations
<1>3. HandlerShape(h)'
  <2>1. CASE gateway[o] = "paid" /\ Goto(h, "lock") /\ UNCHANGED job
    BY <1>1, <2>1 DEF QueryEpayOrder, TInv, TypeOK, Goto, HandlerShape, Outcomes
  <2>2. CASE Goto(h, "idle") /\ job' = [job EXCEPT ![h] = NoJob]
    BY <1>1, <2>2 DEF QueryEpayOrder, TInv, TypeOK, Goto, HandlerShape
  <2>. QED BY <2>1, <2>2 DEF QueryEpayOrder
<1>4. \A g \in Handlers \ {h} : at'[g] = at[g] /\ job'[g] = job[g] /\ result'[g] = result[g]
  BY DEF QueryEpayOrder, TInv, TypeOK, Goto
<1>. QED BY <1>2, <1>3, <1>4, OwnStep DEF QueryEpayOrder

LEMMA LockTInv == ASSUME TInv, NEW h \in Handlers, LockOrder(h) \/ UnlockOrder(h) PROVE TInv'
<1>1. at[h] # "idle" /\ HandlerShape(h) /\ UNCHANGED <<job, result>>
  BY DEF LockOrder, UnlockOrder, TInv
<1>2. PICK l \in {"find", "read", "reply"} :
        /\ Goto(h, l)
        /\ l = "find" => job[h].event = "paid"
        /\ l # "reply" => result[h] = "none"
        /\ l = "reply" => at[h] = "unlock"
        /\ l # "reply" => at[h] = "lock"
  BY <1>1 DEF LockOrder, UnlockOrder, HandlerShape
<1>3. TypeOK'
  <2>. DEFINE s == Shard(h)
  <2>1. s \in Nodes \X Shards
    BY <1>1, Busy
  <2>2. \E x \in Handlers \cup {Nobody} : lock' = [lock EXCEPT ![s] = x]
    BY DEF LockOrder, UnlockOrder
  <2>3. lock' \in [Nodes \X Shards -> Handlers \cup {Nobody}]
    <3>. HIDE DEF s
    <3>. QED BY <2>1, <2>2 DEF TInv, TypeOK
  <2>4. at' \in [Handlers -> Locations]
    BY <1>2 DEF TInv, TypeOK, Goto, Locations
  <2>. QED BY <1>1, <2>3, <2>4 DEF LockOrder, UnlockOrder, TInv, TypeOK
<1>4. at'[h] = l
  BY <1>2 DEF Goto, TInv, TypeOK
<1>5. HandlerShape(h)'
  BY <1>1, <1>2, <1>4 DEF LockOrder, UnlockOrder, HandlerShape
<1>6. \A g \in Handlers \ {h} : at'[g] = at[g] /\ job'[g] = job[g] /\ result'[g] = result[g]
  BY <1>1, <1>2 DEF TInv, TypeOK, Goto
<1>. QED BY <1>3, <1>5, <1>6, OwnStep DEF LockOrder, UnlockOrder

\* The reads of FulfillOrder and of the transaction.
LEMMA ReadTInv == ASSUME TInv, NEW h \in Handlers, FindOrder(h) \/ ReadOrder(h) PROVE TInv'
<1>. DEFINE o == job[h].order
<1>1. /\ at[h] \in {"find", "read"} /\ HandlerShape(h) /\ o \in Orders
      /\ result[h] = "none" /\ UNCHANGED <<job, status, gateway, acked, lock, crashes, credits, manual>>
  BY Busy DEF FindOrder, ReadOrder, TInv, HandlerShape
<1>2. \/ Goto(h, "read") /\ UNCHANGED result
      \/ /\ Goto(h, "commit") /\ UNCHANGED result
         /\ status[o] = "pending" /\ (job[h].event \in {"paid", "check"} => o \notin Mismatched)
      \/ Conclude(h, "handled") /\ status[o] \in Final
      \/ Conclude(h, "error")
  <2>1. CASE FindOrder(h)
    <3>1. job[h].event = "paid" /\ at[h] = "find"
      BY <1>1, <2>1 DEF FindOrder, HandlerShape
    <3>2. status[o] # "none"
      BY <1>1, <3>1 DEF HandlerShape, TInv, OrderShape, Outcomes
    <3>. QED BY <2>1, <3>2 DEF FindOrder
  <2>2. CASE ReadOrder(h)
    <3>1. status[o] \in Statuses
      BY <1>1 DEF TInv, TypeOK
    <3>. QED BY <2>2, <3>1 DEF ReadOrder, Refused, Statuses, Final
  <2>. QED BY <2>1, <2>2
<1>3. \A g \in Handlers \ {h} : at'[g] = at[g] /\ job'[g] = job[g] /\ result'[g] = result[g]
  BY <1>1, <1>2 DEF TInv, TypeOK, Goto, Conclude
<1>4. TypeOK'
  BY <1>1, <1>2 DEF TInv, TypeOK, Goto, Conclude, Locations
<1>5. HandlerShape(h)'
  <2>1. CASE Goto(h, "read") /\ UNCHANGED result
    BY <1>1, <2>1 DEF TInv, TypeOK, Goto, HandlerShape
  <2>2. CASE /\ Goto(h, "commit") /\ UNCHANGED result
             /\ status[o] = "pending" /\ (job[h].event \in {"paid", "check"} => o \notin Mismatched)
    BY <1>1, <2>2 DEF TInv, TypeOK, Goto, HandlerShape
  <2>3. CASE Conclude(h, "handled") /\ status[o] \in Final
    BY <1>1, <2>3 DEF TInv, TypeOK, Goto, Conclude, HandlerShape
  <2>4. CASE Conclude(h, "error")
    BY <1>1, <2>4 DEF TInv, TypeOK, Goto, Conclude, HandlerShape
  <2>. QED BY <1>2, <2>1, <2>2, <2>3, <2>4
<1>. QED BY <1>1, <1>3, <1>4, <1>5, OwnStep

\* The conditional UPDATE, which settles a pending order or does nothing.
LEMMA CommitTInv == ASSUME TInv, NEW h \in Handlers, Commit(h) PROVE TInv'
<1>. DEFINE o == job[h].order
            target == Target(job[h].event)
<1>1. /\ at[h] = "commit" /\ HandlerShape(h) /\ o \in Orders /\ job[h].event \in Events
      /\ result[h] = "none" /\ UNCHANGED <<job, gateway, acked, lock, crashes>>
  BY Busy DEF Commit, TInv, HandlerShape
<1>2. CASE UNCHANGED <<status, credits, manual>>
  <2>1. Conclude(h, "error") \/ (Conclude(h, "handled") /\ status[o] \in Final)
    <3>1. CASE Flips(h) /\ status' = [status EXCEPT ![o] = target]
      BY <1>1, <1>2, <3>1 DEF Flips, Target, TInv, TypeOK
    <3>2. CASE ~Flips(h) /\ Conclude(h, "handled")
      BY <1>1, <3>2 DEF Flips, TInv, TypeOK, Statuses, Final, HandlerShape
    <3>. QED BY <3>1, <3>2 DEF Commit
  <2>2. \A g \in Handlers \ {h} : at'[g] = at[g] /\ job'[g] = job[g] /\ result'[g] = result[g]
    BY <1>1, <2>1 DEF TInv, TypeOK, Goto, Conclude
  <2>3. TypeOK'
    BY <1>1, <1>2, <2>1 DEF TInv, TypeOK, Goto, Conclude, Locations
  <2>4. HandlerShape(h)'
    BY <1>1, <1>2, <2>1 DEF TInv, TypeOK, Goto, Conclude, HandlerShape
  <2>. QED BY <1>1, <1>2, <2>2, <2>3, <2>4, OwnStep
<1>3. CASE ~(UNCHANGED <<status, credits, manual>>)
  <2>1. /\ status[o] = "pending" /\ status' = [status EXCEPT ![o] = target]
        /\ credits' = [credits EXCEPT ![o] = IF target = "success" THEN @ + 1 ELSE @]
        /\ manual' = IF job[h].event = "admin" THEN manual \cup {o} ELSE manual
        /\ Conclude(h, "done")
    BY <1>3 DEF Commit, Flips
  <2>2. /\ target \in Final
        /\ target \in {"expired", "failed"} => gateway[o] = target
        /\ target = "success" => job[h].event \in {"paid", "check", "admin"}
    BY <1>1 DEF Target, Events, Outcomes, Final, HandlerShape
  <2>3. status'[o] = target /\ \A p \in Orders \ {o} : status'[p] = status[p] /\ credits'[p] = credits[p]
    BY <1>1, <2>1 DEF TInv, TypeOK
  <2>4. TypeOK'
    BY <1>1, <2>1, <2>2 DEF TInv, TypeOK, Goto, Conclude, Locations, Statuses, Final
  <2>5. CreditedOnce'
    BY <1>1, <2>1, <2>2, <2>3 DEF TInv, TypeOK, CreditedOnce, Final
  <2>6. CreditIsPaidFor'
    BY <1>1, <2>1, <2>2, <2>3 DEF TInv, TypeOK, CreditIsPaidFor, HandlerShape, Outcomes
  <2>7. \A p \in Orders : OrderShape(p)'
    BY <1>1, <2>1, <2>2, <2>3 DEF TInv, OrderShape, Final
  <2>8. AckedIsCredited'
    BY <1>1, <2>1, <2>3 DEF TInv, TypeOK, AckedIsCredited
  <2>9. ASSUME NEW g \in Handlers PROVE HandlerShape(g)'
    <3>1. CASE g = h
      BY <1>1, <2>1, <2>2, <2>3, <3>1 DEF TInv, TypeOK, Goto, Conclude, HandlerShape
    <3>2. CASE g # h
      <4>1. at'[g] = at[g] /\ job'[g] = job[g] /\ result'[g] = result[g] /\ HandlerShape(g)
        BY <1>1, <2>1, <3>2 DEF TInv, TypeOK, Goto, Conclude
      <4>2. at[g] # "idle" => job[g].order \in Orders
        BY Busy
      <4>. QED BY <1>1, <2>1, <2>2, <2>3, <4>1, <4>2 DEF HandlerShape, Final
    <3>. QED BY <3>1, <3>2
  <2>. QED BY <2>4, <2>5, <2>6, <2>7, <2>8, <2>9 DEF TInv
<1>. QED BY <1>2, <1>3

\* A callback is acknowledged only for an order that is settled.
LEMMA ReplyTInv == ASSUME TInv, NEW h \in Handlers, Reply(h) PROVE TInv'
<1>. DEFINE o == job[h].order
<1>1. /\ at[h] = "reply" /\ HandlerShape(h) /\ o \in Orders
      /\ Goto(h, "idle") /\ job' = [job EXCEPT ![h] = NoJob] /\ result' = [result EXCEPT ![h] = "none"]
      /\ UNCHANGED <<status, gateway, lock, crashes, credits, manual>>
  BY Busy DEF Reply, TInv
<1>2. acked' = acked \/ (acked' = acked \cup {o} /\ Acknowledged(h))
  BY DEF Reply
<1>3. Acknowledged(h) => status[o] \in Final /\ gateway[o] \in Outcomes
  BY <1>1 DEF Acknowledged, HandlerShape
<1>4. TypeOK'
  BY <1>1, <1>2 DEF TInv, TypeOK, Goto, Locations
<1>5. \A p \in Orders : OrderShape(p)'
  BY <1>1, <1>2, <1>3 DEF TInv, OrderShape
<1>6. CreditedOnce' /\ CreditIsPaidFor'
  BY <1>1 DEF TInv, CreditedOnce, CreditIsPaidFor
<1>7. AckedIsCredited'
  BY <1>1, <1>2, <1>3 DEF TInv, AckedIsCredited, OrderShape, Final
<1>8. \A g \in Handlers : HandlerShape(g)'
  BY <1>1 DEF TInv, TypeOK, Goto, HandlerShape
<1>. QED BY <1>4, <1>5, <1>6, <1>7, <1>8 DEF TInv

LEMMA CrashTInv == ASSUME TInv, NEW n \in Nodes, Crash(n) PROVE TInv'
<1>1. TypeOK'
  BY DEF Crash, TInv, TypeOK, Locations
<1>2. \A o \in Orders : OrderShape(o)'
  BY DEF Crash, TInv, OrderShape
<1>3. CreditedOnce' /\ CreditIsPaidFor' /\ AckedIsCredited'
  BY DEF Crash, TInv, CreditedOnce, CreditIsPaidFor, AckedIsCredited
<1>4. \A h \in Handlers : HandlerShape(h)'
  BY DEF Crash, TInv, HandlerShape
<1>. QED BY <1>1, <1>2, <1>3, <1>4 DEF TInv

-----------------------------------------------------------------------------

LEMMA NextTInv == TInv /\ [Next]_vars => TInv'
<1>. SUFFICES ASSUME TInv, [Next]_vars PROVE TInv'
  OBVIOUS
<1>1. CASE \E o \in Orders : RequestPay(o) \/ Pay(o) \/ Settle(o) \/ Expire(o)
  BY <1>1, ProviderTInv
<1>2. ASSUME NEW h \in Handlers, Step(h) PROVE TInv'
  BY <1>2, QueryTInv, LockTInv, ReadTInv, CommitTInv, ReplyTInv DEF Step
<1>3. ASSUME NEW h \in Handlers, NEW o \in Orders,
             Notify(h, o) \/ Check(h, o) \/ AdminCompleteTopUp(h, o)
      PROVE  TInv'
  BY <1>3, BeginTInv
<1>4. CASE \E n \in Nodes : Crash(n)
  BY <1>4, CrashTInv
<1>5. CASE UNCHANGED vars
  BY <1>5, StutterTInv
<1>. QED BY <1>1, <1>2, <1>3, <1>4, <1>5 DEF Next

LEMMA TopUpInductive == Spec => []TInv
<1>. QED BY InitTInv, NextTInv, PTL DEF Spec

\* Every state is well typed.
THEOREM TopUpTypeCorrect == Spec => []TypeOK
<1>1. TInv => TypeOK
  BY DEF TInv
<1>. QED BY <1>1, TopUpInductive, PTL

\* An order is credited when it becomes a success and never again, whoever
\* races for it (the conditional UPDATE of topup.go:128, 183, 258 and 499).
THEOREM NeverCreditedTwice == Spec => []CreditedOnce
<1>1. TInv => CreditedOnce
  BY DEF TInv
<1>. QED BY <1>1, TopUpInductive, PTL

\* Quota comes from a payment that matches its order, or from an
\* administrator (the validation of topup.go:83 and the query of CheckTopUp).
THEOREM NoUnpaidCredit == Spec => []CreditIsPaidFor
<1>1. TInv => CreditIsPaidFor
  BY DEF TInv
<1>. QED BY <1>1, TopUpInductive, PTL

\* A payment whose callback was acknowledged is in the user's account
\* (EpayNotify writes "success", StripeWebhook a 2xx, only then).
THEOREM AcknowledgedIsCredited == Spec => []AckedIsCredited
<1>1. TInv => AckedIsCredited
  BY DEF TInv
<1>. QED BY <1>1, TopUpInductive, PTL

\* No step changes the status of an order that is a success, expired or failed.
THEOREM FinalForGood == Spec => StatusIsFinal
<1>1. ASSUME TInv, [Next]_vars, NEW o \in Orders, status[o] \in Final
      PROVE  status'[o] = status[o]
  <2>1. status \in [Orders -> Statuses] /\ status[o] # "none" /\ status[o] # "pending"
    BY <1>1 DEF TInv, TypeOK, Final
  <2>2. CASE \E p \in Orders : RequestPay(p) \/ Pay(p) \/ Settle(p) \/ Expire(p)
    <3>1. ASSUME NEW p \in Orders, RequestPay(p) PROVE status'[o] = status[o]
      <4>1. gateway[o] # "none"
        BY <1>1, <2>1 DEF TInv, OrderShape
      <4>. QED BY <2>1, <3>1, <4>1 DEF RequestPay
    <3>. QED BY <2>2, <3>1 DEF Pay, Settle, Expire, GatewayBecomes
  <2>3. CASE \E h \in Handlers : Step(h)
    <3>1. ASSUME NEW h \in Handlers, Commit(h) PROVE status'[o] = status[o]
      BY <2>1, <3>1 DEF Commit, Flips
    <3>. QED BY <2>3, <3>1 DEF Step, QueryEpayOrder, LockOrder, FindOrder, ReadOrder, UnlockOrder, Reply
  <2>4. CASE \E h \in Handlers, p \in Orders : Notify(h, p) \/ Check(h, p) \/ AdminCompleteTopUp(h, p)
    BY <2>4 DEF Notify, Check, AdminCompleteTopUp, Begin
  <2>5. CASE (\E n \in Nodes : Crash(n)) \/ UNCHANGED vars
    BY <2>5 DEF Crash, vars
  <2>. QED BY <1>1, <2>2, <2>3, <2>4, <2>5 DEF Next
<1>2. TInv /\ [Next]_vars => [\A o \in Orders : status[o] \in Final => status'[o] = status[o]]_status
  BY <1>1
<1>. QED BY <1>2, TopUpInductive, PTL DEF Spec, StatusIsFinal

-----------------------------------------------------------------------------
\* The locks.

\* A step of h that takes no lock, gives none back, and keeps its order if it has one.
LEMMA LocksStay ==
  ASSUME TInv, LocksAreExact, NEW h \in Handlers, lock' = lock,
         \A g \in Handlers \ {h} : at'[g] = at[g] /\ job'[g] = job[g],
         Inside(h)' <=> Inside(h), Inside(h) => job'[h] = job[h]
  PROVE  LocksAreExact'
<1>1. \A g \in Handlers : (Inside(g)' <=> Inside(g)) /\ (Inside(g) => Shard(g)' = Shard(g))
  BY DEF Inside, Shard
<1>. QED BY <1>1 DEF LocksAreExact

\* Whoever is inside works for an order of a shard of its node.
LEMMA ShardType ==
  ASSUME TInv, NEW h \in Handlers, at[h] # "idle"
  PROVE  Shard(h) \in Nodes \X Shards
<1>1. job[h].order \in Orders
  BY DEF TInv, HandlerShape
<1>. QED BY <1>1, OrderAssumption DEF Shard

LEMMA TakeLock ==
  ASSUME TInv, LocksAreExact, NEW h \in Handlers, LockOrder(h)
  PROVE  LocksAreExact'
<1>. DEFINE s == Shard(h)
<1>1. s \in Nodes \X Shards /\ lock[s] = Nobody /\ ~Inside(h)
  BY ShardType DEF LockOrder, Inside
<1>2. Inside(h)' /\ Shard(h)' = s /\ \A g \in Handlers \ {h} : at'[g] = at[g] /\ job'[g] = job[g]
  BY DEF LockOrder, Goto, TInv, TypeOK, Inside, Shard
<1>3. lock' = [lock EXCEPT ![s] = h] /\ lock \in [Nodes \X Shards -> Handlers \cup {Nobody}]
  BY DEF LockOrder, TInv, TypeOK
<1>4. \A g \in Handlers \ {h} : (Inside(g)' <=> Inside(g)) /\ Shard(g)' = Shard(g)
  BY <1>2 DEF Inside, Shard
<1>. HIDE DEF s
<1>5. ASSUME NEW g \in Handlers, Inside(g)' PROVE lock'[Shard(g)'] = g
  <2>1. CASE g = h
    BY <1>1, <1>2, <1>3, <2>1
  <2>2. CASE g # h
    <3>1. Inside(g) /\ lock[Shard(g)] = g /\ Shard(g)' = Shard(g)
      BY <1>4, <1>5, <2>2 DEF LocksAreExact
    <3>2. Shard(g) \in Nodes \X Shards
      BY <3>1, ShardType DEF Inside
    <3>3. Shard(g) # s
      BY <1>1, <3>1, OrderAssumption
    <3>. QED BY <1>3, <3>1, <3>2, <3>3
  <2>. QED BY <2>1, <2>2
<1>6. ASSUME NEW t \in Nodes \X Shards, NEW g \in Handlers, lock'[t] = g
      PROVE  Inside(g)' /\ Shard(g)' = t
  <2>1. CASE t = s
    BY <1>2, <1>3, <1>6, <2>1
  <2>2. CASE t # s
    <3>1. lock[t] = g /\ Inside(g) /\ Shard(g) = t
      BY <1>3, <1>6, <2>2 DEF LocksAreExact
    <3>2. g # h
      BY <1>1, <3>1
    <3>. QED BY <1>4, <3>1, <3>2
  <2>. QED BY <2>1, <2>2
<1>. QED BY <1>5, <1>6 DEF LocksAreExact

LEMMA GiveLock ==
  ASSUME TInv, LocksAreExact, NEW h \in Handlers, UnlockOrder(h)
  PROVE  LocksAreExact'
<1>. DEFINE s == Shard(h)
<1>1. s \in Nodes \X Shards /\ lock[s] = h
  BY ShardType DEF UnlockOrder, Inside, LocksAreExact
<1>2. ~Inside(h)' /\ \A g \in Handlers \ {h} : at'[g] = at[g] /\ job'[g] = job[g]
  BY DEF UnlockOrder, Goto, TInv, TypeOK, Inside
<1>3. lock' = [lock EXCEPT ![s] = Nobody] /\ lock \in [Nodes \X Shards -> Handlers \cup {Nobody}]
  BY DEF UnlockOrder, TInv, TypeOK
<1>4. \A g \in Handlers \ {h} : (Inside(g)' <=> Inside(g)) /\ Shard(g)' = Shard(g)
  BY <1>2 DEF Inside, Shard
<1>. HIDE DEF s
<1>5. ASSUME NEW g \in Handlers, Inside(g)' PROVE lock'[Shard(g)'] = g
  <2>1. g # h
    BY <1>2, <1>5
  <2>2. Inside(g) /\ lock[Shard(g)] = g /\ Shard(g)' = Shard(g)
    BY <1>4, <1>5, <2>1 DEF LocksAreExact
  <2>3. Shard(g) \in Nodes \X Shards /\ Shard(g) # s
    BY <1>1, <2>1, <2>2, ShardType DEF Inside
  <2>. QED BY <1>3, <2>2, <2>3
<1>6. ASSUME NEW t \in Nodes \X Shards, NEW g \in Handlers, lock'[t] = g
      PROVE  Inside(g)' /\ Shard(g)' = t
  <2>1. t # s /\ lock[t] = g
    BY <1>3, <1>6, OrderAssumption
  <2>2. Inside(g) /\ Shard(g) = t
    BY <2>1 DEF LocksAreExact
  <2>3. g # h
    BY <2>1, <2>2 DEF s
  <2>. QED BY <1>4, <2>1, <2>2, <2>3
<1>. QED BY <1>5, <1>6 DEF LocksAreExact

\* A crash empties the lock table of its node and ends its handlers, and leaves
\* those of the other nodes alone.
LEMMA CrashLocks ==
  ASSUME TInv, LocksAreExact, NEW n \in Nodes, Crash(n)
  PROVE  LocksAreExact'
<1>1. ASSUME NEW h \in Handlers
      PROVE  /\ NodeOf[h] = n => ~Inside(h)'
             /\ NodeOf[h] # n => (Inside(h)' <=> Inside(h)) /\ Shard(h)' = Shard(h)
  BY DEF Crash, Inside, Shard
<1>2. \A s \in Nodes \X Shards : lock'[s] = IF s[1] = n THEN Nobody ELSE lock[s]
  BY DEF Crash
<1>3. \A h \in Handlers : Shard(h)[1] = NodeOf[h]
  BY DEF Shard
<1>4. ASSUME NEW h \in Handlers, Inside(h)' PROVE lock'[Shard(h)'] = h
  <2>1. NodeOf[h] # n /\ Inside(h) /\ Shard(h)' = Shard(h) /\ lock[Shard(h)] = h
    BY <1>1, <1>4 DEF LocksAreExact
  <2>2. Shard(h) \in Nodes \X Shards
    BY <2>1, ShardType DEF Inside
  <2>. QED BY <1>2, <1>3, <2>1, <2>2
<1>5. ASSUME NEW s \in Nodes \X Shards, NEW g \in Handlers, lock'[s] = g
      PROVE  Inside(g)' /\ Shard(g)' = s
  <2>1. s[1] # n /\ lock[s] = g
    BY <1>2, <1>5, OrderAssumption
  <2>2. Inside(g) /\ Shard(g) = s
    BY <2>1 DEF LocksAreExact
  <2>3. NodeOf[g] # n
    BY <1>3, <2>1, <2>2
  <2>. QED BY <1>1, <2>1, <2>2, <2>3
<1>. QED BY <1>4, <1>5 DEF LocksAreExact

LEMMA NextLocks == TInv /\ LocksAreExact /\ [Next]_vars => LocksAreExact'
<1>. SUFFICES ASSUME TInv, LocksAreExact, [Next]_vars PROVE LocksAreExact'
  OBVIOUS
<1>. USE DEF handlerVars
<1>1. CASE (\E o \in Orders : RequestPay(o) \/ Pay(o) \/ Settle(o) \/ Expire(o)) \/ UNCHANGED vars
  <2>1. lock' = lock /\ at' = at /\ job' = job
    BY <1>1 DEF RequestPay, Pay, Settle, Expire, GatewayBecomes, vars
  <2>. QED BY <2>1 DEF LocksAreExact, Inside, Shard
<1>2. ASSUME NEW h \in Handlers, Step(h), ~LockOrder(h), ~UnlockOrder(h) PROVE LocksAreExact'
  <2>1. lock' = lock /\ \A g \in Handlers \ {h} : at'[g] = at[g] /\ job'[g] = job[g]
    BY <1>2 DEF TInv, TypeOK, Step, QueryEpayOrder, FindOrder, ReadOrder, Commit, Reply, Conclude, Goto
  <2>2. (Inside(h)' <=> Inside(h)) /\ (Inside(h) => job'[h] = job[h])
    BY <1>2 DEF TInv, TypeOK, Step, QueryEpayOrder, FindOrder, ReadOrder, Commit, Reply, Conclude, Goto,
                Inside
  <2>. QED BY <2>1, <2>2, LocksStay
<1>3. ASSUME NEW h \in Handlers, NEW o \in Orders,
             Notify(h, o) \/ Check(h, o) \/ AdminCompleteTopUp(h, o)
      PROVE  LocksAreExact'
  <2>1. /\ lock' = lock /\ \A g \in Handlers \ {h} : at'[g] = at[g] /\ job'[g] = job[g]
        /\ at[h] = "idle" /\ at'[h] \in {"lock", "query"}
    BY <1>3 DEF TInv, TypeOK, Notify, Check, AdminCompleteTopUp, Begin, Goto
  <2>2. ~Inside(h) /\ ~Inside(h)'
    BY <2>1 DEF Inside
  <2>. QED BY <2>1, <2>2, LocksStay
<1>. QED BY <1>1, <1>2, <1>3, TakeLock, GiveLock, CrashLocks DEF Next

\* A lock is held exactly by the handler between LockOrder and UnlockOrder, for
\* any number of nodes, shards and handlers: no reply and no crash leaves one
\* behind, and no two handlers of a process are inside for the same shard
\* (lock.go:27; the deferred UnlockOrder of topup.go and stripe.go).
THEOREM LocksAlwaysExact == Spec => []LocksAreExact
<1>1. Init => LocksAreExact
  BY OrderAssumption DEF Init, LocksAreExact, Inside
<1>. QED BY <1>1, NextLocks, TopUpInductive, PTL DEF Spec

\* Fulfilments of orders that share a shard do not overlap within a process,
\* database errors and early returns included.
THEOREM FulfilmentsAreSerial ==
  Spec => [](\A g, h \in Handlers : Inside(g) /\ Inside(h) /\ Shard(g) = Shard(h) => g = h)
<1>1. LocksAreExact => \A g, h \in Handlers : Inside(g) /\ Inside(h) /\ Shard(g) = Shard(h) => g = h
  BY DEF LocksAreExact
<1>. QED BY <1>1, LocksAlwaysExact, PTL
=============================================================================
