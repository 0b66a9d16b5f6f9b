---------------------------- MODULE MCVenueWatch -----------------------------
(* The venue on small sets.  Rigs are interchangeable, and so are pages.     *)
EXTENDS VenueWatch, TLC

Symmetry == Permutations(Rigs) \cup Permutations(Pages)
=============================================================================
