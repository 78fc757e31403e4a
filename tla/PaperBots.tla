------------------------------ MODULE PaperBots ------------------------------
(***************************************************************************)
(* The bots of one strategy service that trade on paper or for small       *)
(* amounts, and the service that runs them, side by side: the grid bot     *)
(* with the paper engine, the two baht bots, the arbitrage bot, and the    *)
(* market scan with its announcements.  Each keeps its own book, and a     *)
(* step of one leaves the others' as they are; what they do share is an    *)
(* action of the module concerned (the engine's cash, the THB account).    *)
(***************************************************************************)
EXTENDS PaperGrid, ThbBots, ArbitragePaper, StrategyService

BotsInit == GridInit /\ ThbInit /\ ArbInit /\ SvcInit

BotsNext ==
    \/ GridNext /\ UNCHANGED <<thbVars, arbVars, svcVars>>
    \/ ThbNext /\ UNCHANGED <<gridVars, arbVars, svcVars>>
    \/ ArbNext /\ UNCHANGED <<gridVars, thbVars, svcVars>>
    \/ SvcNext /\ UNCHANGED <<gridVars, thbVars, arbVars>>

BotsSpec == BotsInit /\ [][BotsNext]_<<gridVars, thbVars, arbVars, svcVars>>

-----------------------------------------------------------------------------
\* What the service keeps of its doings is true. The paper engine stays solvent
\* whatever its orders compete for, and the bot's own book has at most one open
\* order for a grid level, though syncs, directives of the brain, lost answers and
\* failed cancels move it; the arbitrage bot's capital is explained by its trades;
\* the DCA bot sells only coins that it bought, until an answer or a save that
\* fails leads it astray, and no book claims a negative position; and a milestone
\* that Redis holds as announced was put in the queue, or reached without a webhook.
BooksAreTrue ==
    /\ EngineSolvent /\ LevelOpenOnce
    /\ CapitalExplained
    /\ SoldFromBought
    /\ AnnouncementsAreSaved
=============================================================================
