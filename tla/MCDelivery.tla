----------------------------- MODULE MCDelivery -----------------------------
(* Instances of Delivery for TLC.                                          *)
EXTENDS Delivery, TLC

\* Flush goroutines are interchangeable.  Not used with liveness.
FlusherSymmetry == Permutations(Flushers)

=============================================================================
