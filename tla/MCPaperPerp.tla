---------------------------- MODULE MCPaperPerp -----------------------------
EXTENDS PaperPerp, TLC

VenueSymmetry == Permutations(Venues)
=============================================================================
