--------------------------- MODULE MCVenueSession ---------------------------
(***************************************************************************)
(* Instances of VenueSession for TLC.  A configuration picks a venue by    *)
(* giving the constant operators their definitions from module Venues.     *)
(***************************************************************************)
EXTENDS VenueSession, Venues

\* Prices are interchangeable.
PriceSymmetry == Permutations(Price)

ConsecutiveIds == {1}
SkippingIds == {2}
SparseIds == {1, 2}
=============================================================================
