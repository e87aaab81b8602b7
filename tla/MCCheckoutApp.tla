---------------------------- MODULE MCCheckoutApp -----------------------------
(* Small instances of CheckoutApp for TLC.                                   *)
EXTENDS CheckoutApp, TLC

Symmetry == Permutations(Views) \union Permutations(Products)
================================================================================
