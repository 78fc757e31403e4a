------------------------------- MODULE Evidence -------------------------------
(***************************************************************************)
(* What a decision is shown side by side: the sells of one owner's wallets *)
(* as the monitor adds them up, what the providers of an EVM chain say     *)
(* together, the replay of world markets, and the walk-forward report of   *)
(* the futures research.  They share no state; what they have in common is *)
(* a promise about the raw events and prices they were made from.          *)
(***************************************************************************)
EXTENDS SellMonitor, EvmEvidence, WorldReplay, FuturesResearch

EvidenceInit == SellInit /\ EvmInit /\ WReplayInit /\ ResearchInit

EvidenceNext ==
    \/ SellNext /\ UNCHANGED <<evmVars, replayVars, researchVars>>
    \/ EvmNext /\ UNCHANGED <<sellVars, replayVars, researchVars>>
    \/ WReplayNext /\ UNCHANGED <<sellVars, evmVars, researchVars>>
    \/ ResearchNext /\ UNCHANGED <<sellVars, evmVars, replayVars>>

EvidenceSpec == EvidenceInit /\ [][EvidenceNext]_<<sellVars, evmVars, replayVars, researchVars>>

-----------------------------------------------------------------------------
\* What is told holds against what it was made from, whatever reorganizations,
\* restarts, late deliveries, failing providers and orders of frames do: the
\* monitor's window holds each sale once, from where it is final on chain, and no
\* older sale than its window admits; knowing owners never makes a token look less
\* concentrated; the evidence of an EVM chain hides neither a missing required
\* provider nor what a provider said against the sale; no pair of a replayed
\* market is opened or settled with what was known only later; and no test window
\* of a report is seen by the training that chose its variant.
EvidenceIsSound ==
    /\ WindowsAreSound /\ ClustersConcentrate
    /\ EvidenceHidesNothing
    /\ LookaheadSafe
    /\ TestsAreUnseen
=============================================================================
