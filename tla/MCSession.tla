----------------------------- MODULE MCSession ------------------------------
EXTENDS SessionRefinement, TLC

(* Every guest has a name of its own: guests stand for their names.        *)
OwnName == [g \in Guests |-> g]

(* Guests that are no names themselves all type the same one.              *)
SharedName == [g \in Guests |-> IF g \in Names THEN g ELSE CHOOSE n \in Names \ Guests : TRUE]

Core == {"login", "heartbeat", "sendChanges"}
All == Kinds

Symmetry == Permutations(Calls) \cup Permutations(Payloads)
SymmetryWithGuests == Symmetry \cup Permutations(Guests)
SymmetryOfSharers == Symmetry \cup Permutations(Guests \ Names)
=============================================================================
