---------------------------- MODULE MCPaymentBackend ----------------------------
(* Small instances of PaymentBackend for TLC.                               *)
EXTENDS PaymentBackend, TLC

CONSTANTS A, B, Unknown

\* One product, two units: two orders of one fit, two orders of two do not.
TwoUnits == [p \in ProductIds |-> 2]
OneUnit  == [p \in ProductIds |-> 1]

\* A costs one cent; B is free, so no order for it passes the amount CHECK.
FreeB == [p \in ProductIds |-> IF p = B THEN 0 ELSE 1]

Symmetry    == Permutations(Pays) \union Permutations(Txns)
================================================================================
