----------------------------- MODULE MCDelivery -----------------------------
EXTENDS Delivery, TLC

\* Nothing tells one recordable order's key from another's.
Symmetry == Permutations(Keys \ Unrecordable)
=============================================================================
