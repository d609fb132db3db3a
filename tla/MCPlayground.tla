---------------------------- MODULE MCPlayground ----------------------------
(* A few requests, sent, regenerated, edited and stopped in any order. *)
EXTENDS Playground
=============================================================================
