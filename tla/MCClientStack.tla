---------------------------- MODULE MCClientStack -----------------------------
(* A small instance of ClientStack for TLC. *)
EXTENDS ClientStack

CONSTANTS a, b, i1, i2, u1, u2, c1

TwoNames == {a, b}
TwoInformers == {i1, i2}
TwoCallers == {u1, u2}
OneClient == {c1}

(* All namespaces, or the one of a. *)
AllOrOne == {{a, b}, {a}}
===============================================================================
