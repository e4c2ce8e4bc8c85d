----------------------------- MODULE MCSupplier -----------------------------
(* A small instance of the conversation with the suppliers for TLC. *)
EXTENDS Supplier, TLC

CONSTANTS a1, a2, ax, b1

Pools == [c \in {a1, a2, ax, b1} |-> IF c = b1 THEN "b" ELSE "a"]

\* No error hides a code; errors do, in a world without stops and throttling;
\* what the client does not cope with; suppliers that change their mind.
Honest   == {"stop", "throttle", "lost", "lies", "no probe", "no owner"}
Phantoms == {"phantom", "lost", "lies", "no probe", "no owner"}
Rough    == {"lost", "no probe after error", "no owner when settling"}
Fickle   == {"stop", "throttle", "lies", "no probe", "no owner", "fickle"}
AllWorlds == {Honest, Phantoms, Rough, Fickle}

\* Errors that hide codes, and a status request that fails after one.
PhantomsUnasked == {{"phantom", "no probe after error"}}

\* Two keys of one sku at one supplier are alike.
AlikeKeys == Permutations({a1, a2})
=============================================================================
