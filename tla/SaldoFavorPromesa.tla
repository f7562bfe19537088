------------------------- MODULE SaldoFavorPromesa -------------------------
(***************************************************************************)
(* What the balance in favour promises, without its steps: each operation  *)
(* that credits, charges or gives back moves the customer's balance in one *)
(* atomic step, at most once, and a charge only happens when it suffices.  *)
(***************************************************************************)
EXTENDS Integers

CONSTANTS Mov, Signo(_)

VARIABLES saldo, movidos

Init == saldo = 0 /\ movidos = {}

Mueve(m) ==
    /\ m \notin movidos
    /\ saldo + Signo(m) >= 0
    /\ saldo' = saldo + Signo(m)
    /\ movidos' = movidos \cup {m}

Next == \E m \in Mov : Mueve(m)

Spec == Init /\ [][Next]_<<saldo, movidos>>
=============================================================================
