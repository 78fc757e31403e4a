-------------------------------- MODULE Lakes --------------------------------
(***************************************************************************)
(* The two lakes of the strategy service side by side: the landing of      *)
(* on-chain frames with its compaction, and the landing of world markets.  *)
(* They share the rules of the object store and no object, so a step of    *)
(* one leaves the other as it is.                                          *)
(***************************************************************************)
EXTENDS OnchainLake, WorldLake

LakesInit == LakeInit /\ WorldInit
LakesNext ==
    \/ LakeNext /\ UNCHANGED worldVars
    \/ WorldNext /\ UNCHANGED lakeVars
LakesSpec == LakesInit /\ [][LakesNext]_<<lakeVars, worldVars>>

-----------------------------------------------------------------------------
\* Whatever two writers, retries, lost answers and crashes do: what a landing
\* reports as stored can be read back as it was handed in, a compaction that
\* verifies covers what its parts say, and the import of world markets reports
\* no object that is not in the lake.
LakesKeepTheirWord == LandedRestores /\ CompactionsVerify /\ ReportedIsLanded
=============================================================================
