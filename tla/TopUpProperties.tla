-------------------------- MODULE TopUpProperties --------------------------
(* What must be true of top-up orders. *)
EXTENDS TopUp

Statuses == {"none", "pending", "success", "expired", "failed"}
Final == {"success", "expired", "failed"}
Locations == {"idle", "query", "lock", "find", "read", "commit", "unlock", "reply"}

\* The state is well typed (topups.status, constants.go:203).
TypeOK ==
  /\ status \in [Orders -> Statuses]
  /\ gateway \in [Orders -> {"none", "open", "settling"} \cup Outcomes]
  /\ acked \subseteq Orders /\ manual \subseteq Orders
  /\ lock \in [Nodes \X Shards -> Handlers \cup {Nobody}]
  /\ at \in [Handlers -> Locations]
  /\ job \in [Handlers -> {NoJob} \cup [event : Events, order : Orders]]
  /\ result \in [Handlers -> {"none", "done", "handled", "gone", "error"}]
  /\ credits \in [Orders -> Nat]

\* An order is credited once when it is a success and never otherwise, however
\* often callbacks, checks and administrators race for it on however many
\* nodes (topup.go:183).
CreditedOnce == \A o \in Orders : credits[o] = IF status[o] = "success" THEN 1 ELSE 0

\* Quota is given for money the provider has received, or because an
\* administrator said so; only he can complete an order that does not match.
CreditIsPaidFor ==
  \A o \in Orders :
    status[o] = "success" =>
      \/ o \in manual
      \/ gateway[o] = "paid" /\ o \notin Mismatched

\* A provider that has its acknowledgement of a payment will not call again:
\* the quota is in the account, or no order was ever made ("charged but not
\* credited", stripe.go:237, topup.go:261).
AckedIsCredited ==
  \A o \in acked : gateway[o] = "paid" => status[o] = "success"

\* What an order has become is final: an expiry that comes after the
\* administrator's completion takes nothing back, and the other way round.
StatusIsFinal ==
  [][\A o \in Orders : status[o] \in Final => status'[o] = status[o]]_status

\* A payment arrives in the user's account, whatever callbacks are lost and
\* whichever processes crash, unless it does not match the order.
PaymentArrives ==
  \A o \in Orders \ Mismatched : gateway[o] = "paid" ~> status[o] = "success"

\* An order lock is always given back.
LocksAreReleased ==
  \A s \in Nodes \X Shards : lock[s] # Nobody ~> lock[s] = Nobody

\* Where a handler has its order's lock.
Inside(h) == at[h] \in {"find", "read", "commit", "unlock"}

\* A lock is held exactly by the handler that is between LockOrder and
\* UnlockOrder for an order of its shard: of the handlers of one process no two
\* fulfil such orders at once, and none that has replied, or whose process has
\* crashed, has left a lock behind (lock.go:27).
LocksAreExact ==
  /\ \A h \in Handlers : Inside(h) => lock[Shard(h)] = h
  /\ \A s \in Nodes \X Shards, h \in Handlers : lock[s] = h => Inside(h) /\ Shard(h) = s

-----------------------------------------------------------------------------
\* The inductive invariant behind CreditIsPaidFor and AckedIsCredited.

\* What the row says about the payment.
OrderShape(o) ==
  /\ gateway[o] = "none" => status[o] = "none"
  /\ gateway[o] \in {"settling", "paid"} => status[o] # "none"
  /\ status[o] \in {"expired", "failed"} => gateway[o] = status[o]
  /\ o \in acked => gateway[o] \in Outcomes

\* What a handler may rely on, by what it does and where it is.
HandlerShape(h) ==
  LET o == job[h].order
      e == job[h].event IN
  IF at[h] = "idle" THEN job[h] = NoJob /\ result[h] = "none"
  ELSE
    /\ job[h] \in [event : Events, order : Orders]
    /\ e \in Outcomes => gateway[o] = e
    /\ e = "check" => at[h] = "query" \/ gateway[o] = "paid"
    /\ at[h] \in {"query", "lock", "find", "read", "commit"} => result[h] = "none"
    /\ at[h] = "query" => e = "check"
    /\ at[h] = "find" => e = "paid"
    /\ at[h] = "commit" => status[o] # "none" /\ (e \in {"paid", "check"} => o \notin Mismatched)
    /\ result[h] \in {"done", "handled"} => status[o] \in Final
    /\ result[h] # "gone"

TInv ==
  /\ TypeOK /\ CreditedOnce /\ CreditIsPaidFor /\ AckedIsCredited
  /\ (\A o \in Orders : OrderShape(o)) /\ (\A h \in Handlers : HandlerShape(h))
=============================================================================
