---------------------------- MODULE MCRelayPool ----------------------------
(* Small instances of RelayPool for TLC. *)
EXTENDS RelayPool, TLC

CONSTANTS c1, c2, c3, refund, cache, log, ticker, w1, w2

MCSubmits == [c \in Clients |-> IF c = c1 THEN refund ELSE IF c = c2 THEN log ELSE ticker]
MCChildOf == [t \in Nested |-> cache]
=============================================================================
