------------------------------ MODULE MCNotes -------------------------------
(***************************************************************************)
(* Notes with two people, who may meet at one place or miss each other.    *)
(***************************************************************************)
EXTENDS Notes, TLC

CONSTANTS Anna, Ben, Terrace, Fleet
TwoPeople == {Anna, Ben}
TwoPlaces == {Terrace, Fleet}
Same == Permutations(TwoPeople) \cup Permutations(TwoPlaces)
=============================================================================
