--------------------------- MODULE DurablePosition ---------------------------
(***************************************************************************)
(* What the position engine promises of its positions: they are the result *)
(* of the trades on record, and nothing but a trade changes them.  Stops   *)
(* and restarts are not visible here.                                      *)
(***************************************************************************)
EXTENDS Integers

CONSTANTS Sides, Prices, Quantities

VARIABLE held   \* held[s]: quantity of side s and what it has cost

None == [qty |-> 0, cost |-> 0]
Init == held = [s \in Sides |-> None]

\* An opening trade adds to the position at its price.
Add(s, q, p) ==
  held' = [held EXCEPT ![s] = [qty |-> @.qty + q, cost |-> @.cost + p * q]]

\* A closing trade takes away at most what is held, and leaves the entry price as it is.
Reduce(s, q) ==
  held' = [held EXCEPT ![s] = [qty |-> @.qty - q, cost |-> @.cost - (@.cost * q) \div @.qty]]

Next == \E s \in Sides : \/ \E q \in 1..held[s].qty : Reduce(s, q)
                         \/ \E q \in Quantities, p \in Prices : Add(s, q, p)

Spec == Init /\ [][Next]_held
=============================================================================
