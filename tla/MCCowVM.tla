------------------------------ MODULE MCCowVM -------------------------------
EXTENDS CowVM, TLC

(* Pages are interchangeable, and so are the process slots but the first. *)
CowSymmetry == Permutations(Page) \cup Permutations(Proc \ {Initial})

=============================================================================
