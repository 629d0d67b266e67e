------------------------------ MODULE MCInformer ------------------------------
(* A small instance of Informer for TLC. *)
EXTENDS Informer

CONSTANTS a, b

TwoKeys == {a, b}
===============================================================================
