------------------------------- MODULE MCLpp -------------------------------
(* Instances of the liquidity pool for TLC. *)
EXTENDS Lpp, TLC

\* a steep rate, so that interest shows on the amounts of an instance
SteepRate == [base |-> 300, optimal |-> 500, addon |-> 200]

FlatRate == [base |-> 500, optimal |-> 700, addon |-> 0]

OnlyFlatRate == {FlatRate}

BothRates == {SteepRate, FlatRate}

Symmetry == Permutations(Lenders) \cup Permutations(Leases)
=============================================================================
