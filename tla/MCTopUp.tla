------------------------------ MODULE MCTopUp ------------------------------
(* Small instances of TopUp for TLC. *)
EXTENDS TopUpProperties, TLC

CONSTANTS card, alipay, wrong, h1, h2, n1, n2

\* Two processes, each with one handler; or one process with both.
Apart == [h \in Handlers |-> IF h = h1 THEN n1 ELSE n2]
Together == [h \in Handlers |-> n1]
\* One shard: the orders collide in the lock table.
OneShard == [o \in Orders |-> 0]
HandlerSymmetry == Permutations(Handlers)
=============================================================================
