----------------------------- MODULE MCRealGrid -----------------------------
(***************************************************************************)
(* Instances of RealGrid for TLC.                                          *)
(***************************************************************************)
EXTENDS RealGrid

NoRestarts == {}
MCPrices == {930, 950, 1000}
=============================================================================
