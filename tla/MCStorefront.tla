---------------------------- MODULE MCStorefront ----------------------------
(* Small pools for TLC: keys 1 and 2 at the first supplier, 3 at the second. *)
EXTENDS Storefront

KeyPlaces     == [k \in Keys |-> IF k = 3 THEN 2 ELSE 1]
RequestPlaces == [r \in Requests |-> 1]
\* The first two calls carry the same id.
Ids == [c \in Calls |-> IF c = 3 THEN 12 ELSE 11]
=============================================================================
