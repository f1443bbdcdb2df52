----------------------------- MODULE MCObjectDb -----------------------------
(* Instances of ObjectDb for TLC.                                           *)
EXTENDS ObjectDb

\* Names are interchangeable.
NameSymmetry == Permutations(Names)

\* All names share a hash node: where most entries are met under a wrong name.
OneNode == [n \in Names \cup {Root, NoName} |-> 0]
=============================================================================
