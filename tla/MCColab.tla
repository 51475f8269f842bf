------------------------------ MODULE MCColab -------------------------------
EXTENDS Colab, TLC

(* Every page in a browser of its own, or all in one.                      *)
OwnBrowser == [g \in Guests |-> g]
OneBrowser == [g \in Guests |-> "browser"]

Insertions == {"type"}
Alone == {"type", "paste", "trim"}
All == AllGestures \ {"trim"}

SymmetryOfGuests == Permutations(Guests)
=============================================================================
