--------------------------- MODULE MCGracefulStop ---------------------------
EXTENDS GracefulStop, TLC

ClientSymmetry == Permutations(Clients)

=============================================================================
