--------------------------- MODULE BillingLedger ---------------------------
(***************************************************************************)
(* What the billing of relay requests promises about the users' wallet,    *)
(* without sessions, tokens, retries or goroutines.                        *)
(*                                                                         *)
(* A request may put one reservation on the wallet, and closes exactly     *)
(* once: the reservation is replaced by the price of the answer (Capture), *)
(* given back (Release), or left as it is (Abandon). Nothing a closed      *)
(* request does moves its usage charge again. A request that broke a       *)
(* content rule may pay one penalty besides. The balance is never spent    *)
(* below zero.                                                             *)
(***************************************************************************)
EXTENDS Integers

CONSTANTS Requests, Opening

VARIABLES
  balance,   \* money left in the wallet
  phase,     \* "open", "held" or "closed", per request
  held,      \* what the request has taken for its usage
  penalty    \* what it has taken as a penalty

ledgerVars == <<balance, phase, held, penalty>>

Init ==
  /\ balance = Opening
  /\ phase = [r \in Requests |-> "open"]
  /\ held = [r \in Requests |-> 0]
  /\ penalty = [r \in Requests |-> 0]

Reserve(r) ==
  /\ phase[r] = "open"
  /\ phase' = [phase EXCEPT ![r] = "held"]
  /\ \E a \in 0..balance :
       /\ balance' = balance - a
       /\ held' = [held EXCEPT ![r] = a]
  /\ UNCHANGED penalty

Capture(r) ==
  /\ phase[r] # "closed"
  /\ phase' = [phase EXCEPT ![r] = "closed"]
  /\ \E price \in 0..(balance + held[r]) :
       /\ balance' = balance + held[r] - price
       /\ held' = [held EXCEPT ![r] = price]
  /\ UNCHANGED penalty

Release(r) ==
  /\ phase[r] = "held"
  /\ phase' = [phase EXCEPT ![r] = "closed"]
  /\ balance' = balance + held[r]
  /\ held' = [held EXCEPT ![r] = 0]
  /\ UNCHANGED penalty

Abandon(S) ==
  /\ \A r \in S : phase[r] # "closed"
  /\ phase' = [r \in Requests |-> IF r \in S THEN "closed" ELSE phase[r]]
  /\ UNCHANGED <<balance, held, penalty>>

Penalize(r) ==
  /\ penalty[r] = 0
  /\ \E fee \in 1..balance :
       /\ balance' = balance - fee
       /\ penalty' = [penalty EXCEPT ![r] = fee]
  /\ UNCHANGED <<phase, held>>

Next ==
  \/ \E r \in Requests : Reserve(r) \/ Capture(r) \/ Release(r) \/ Penalize(r)
  \/ \E S \in SUBSET Requests : Abandon(S)

Spec == Init /\ [][Next]_ledgerVars
=============================================================================
