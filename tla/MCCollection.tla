---------------------------- MODULE MCCollection ----------------------------
(* Two objects, which two calls can make refer to each other.              *)
EXTENDS Collection

Minus2 == -2
=============================================================================
