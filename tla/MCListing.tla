----------------------------- MODULE MCListing -----------------------------
(* Three addresses in two countries, pages of one row. *)
EXTENDS Listing, TLC

CONSTANTS a1, a2, a3, se, fr

MCAddress == {a1, a2, a3}
MCCountry == {se, fr}
MCExplicit == {1, Unbounded}
MCSymmetry == Permutations(MCAddress) \cup Permutations(MCCountry)
=============================================================================
