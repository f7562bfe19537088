----------------------------- MODULE MCCartera -----------------------------
(* An instance of Cartera for TLC: a payment and a return that gives back    *)
(* more than is left to pay after it.                                      *)
EXTENDS Cartera
CONSTANTS p1, d1

DeADos == [p \in Pagos |-> 2]
DeADosDevueltos == [d \in Devoluciones |-> 2]
=============================================================================
