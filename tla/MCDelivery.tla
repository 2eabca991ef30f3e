----------------------------- MODULE MCDelivery -----------------------------
(* Instances of Delivery for TLC. *)
EXTENDS Delivery, TLC

\* TLC checks the state in which a call has been overtaken and goes no further: beyond it
\* only TypeOK and FollowUpsHeard promise anything, and Delivery_proofs has them everywhere.
InTime == ~overtaken

\* Calls are interchangeable.
Symmetry == Permutations(Calls)
=============================================================================
