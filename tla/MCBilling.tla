------------------------------ MODULE MCBilling ------------------------------
EXTENDS Billing, TLC

\* A plan behind an add-on, and an add-on alone, whose price is no plan's.
ItemLists == {<<"addon", "pro">>, <<"addon">>}
Symmetry == Permutations(Hooks) \cup Permutations(Checkouts) \cup Permutations(Subs)
=============================================================================
