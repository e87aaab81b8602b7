------------------------------ MODULE MCMigration ------------------------------
(* A small instance of SeedIdMigration for TLC: a seeded product under its  *)
(* two ids, a free one, an unknown one, and one payment.                    *)
EXTENDS SeedIdMigration

CONSTANTS L, F, B, Unknown

ThreeUnits == [p \in ProductIds |-> IF p \in {L, B} THEN 3 ELSE 0]

\* B is free, so no order for it passes the amount CHECK.
FreeB == [p \in ProductIds |-> IF p = B THEN 0 ELSE 1]
================================================================================
