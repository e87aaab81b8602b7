-------------------------------- MODULE MCSerial --------------------------------
(* A small instance of PaymentBackendSerial for TLC.                        *)
EXTENDS PaymentBackendSerial, TLC

CONSTANTS A, B, Unknown

TwoUnits == [p \in ProductIds |-> 2]
OneUnit  == [p \in ProductIds |-> 1]
FreeB    == [p \in ProductIds |-> IF p = B THEN 0 ELSE 1]
Symmetry == Permutations(Pays) \union Permutations(Txns)
================================================================================
