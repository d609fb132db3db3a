----------------------------- MODULE MCBilling -----------------------------
(* Small instances of Billing for TLC. *)
EXTENDS BillingProperties, TLC

CONSTANTS r1, r2, r3, capped, free

\* Two requests on a capped token, so that they compete for wallet and token.
SharedToken == [r \in Requests |-> capped]
\* r1 on the token without quota, the rest on the capped one.
MixedTokens == [r \in Requests |-> IF r = r1 THEN free ELSE capped]

BothSetups ==
  {[token |-> MixedTokens, redis |-> TRUE], [token |-> SharedToken, redis |-> FALSE]}
SharedSetup == {[token |-> SharedToken, redis |-> FALSE]}
MCRemain == [t \in Tokens |-> 3]
=============================================================================
