----------------------------- MODULE MCDelivery -----------------------------
(* Small instances of Delivery for TLC. *)
EXTENDS Delivery, TLC

CONSTANTS e1, e2, e3

\* Events are interchangeable wherever none of them is poison.
EventSymmetry == Permutations(Events)
=============================================================================
