----------------------------- MODULE MCPaperBots -----------------------------
(***************************************************************************)
(* Instances for TLC of the bots of the strategy service that trade on     *)
(* paper, on a testnet or through the backend, of the signal pipeline and  *)
(* of the life of the service. They share no state here, so one behavior   *)
(* runs one of them: this run is the disjoint union of their state graphs. *)
(***************************************************************************)
EXTENDS PaperBots, GridBrain, FuturesBot, PolymarketPaper, SignalPipeline

VARIABLE active     \* the component of this behavior

BrainAnswers == {[wide |-> 1, offset |-> 0, pauseBuys |-> FALSE, pauseSells |-> FALSE],
                 [wide |-> 2, offset |-> -1, pauseBuys |-> TRUE, pauseSells |-> FALSE]}

Reading(yes, no, resolved) ==
    [yes |-> yes, no |-> no, traded |-> TRUE, near |-> FALSE, liquid |-> TRUE, spike |-> FALSE,
     crypto |-> 1, news |-> FALSE, stale |-> FALSE, resolved |-> resolved]
MCReadings == {[Reading(50, 50, FALSE) EXCEPT !.spike = TRUE, !.crypto = 0],
               Reading(70, 30, FALSE), Reading(100, 0, TRUE)}

MCScores == {-60, 55}
MCStart == [symbols |-> {"BTC"}, composite |-> 50, strength |-> 58, warmup |-> 2]
MCDefaults == [symbols |-> {"BTC", "ETH"}, composite |-> 50, strength |-> 50, warmup |-> 2]

MCThresholds == <<10, 25>>

-----------------------------------------------------------------------------------
\* A component that is not the active one stays in one of its initial states.
Init ==
    /\ active \in {"grid", "brain", "futures", "thb", "arb", "poly", "pipe", "service"}
    /\ BotsInit /\ BrainInit /\ FutInit /\ PolyInit /\ PipeInit
    /\ active # "grid" => gridMarket = CHOOSE p \in GridPrices : TRUE
    /\ active # "pipe" => backendUp /\ feed = "subscribed" /\ execution

Next ==
    /\ UNCHANGED active
    /\ \/ active = "grid" /\ GridNext
          /\ UNCHANGED <<brainVars, futVars, thbVars, arbVars, polyVars, pipeVars, svcVars>>
       \/ active = "brain" /\ BrainNext
          /\ UNCHANGED <<gridVars, futVars, thbVars, arbVars, polyVars, pipeVars, svcVars>>
       \/ active = "futures" /\ FutNext
          /\ UNCHANGED <<gridVars, brainVars, thbVars, arbVars, polyVars, pipeVars, svcVars>>
       \/ active = "thb" /\ ThbNext
          /\ UNCHANGED <<gridVars, brainVars, futVars, arbVars, polyVars, pipeVars, svcVars>>
       \/ active = "arb" /\ ArbNext
          /\ UNCHANGED <<gridVars, brainVars, futVars, thbVars, polyVars, pipeVars, svcVars>>
       \/ active = "poly" /\ PolyNext
          /\ UNCHANGED <<gridVars, brainVars, futVars, thbVars, arbVars, pipeVars, svcVars>>
       \/ active = "pipe" /\ PipeNext
          /\ UNCHANGED <<gridVars, brainVars, futVars, thbVars, arbVars, polyVars, svcVars>>
       \/ active = "service" /\ SvcNext
          /\ UNCHANGED <<gridVars, brainVars, futVars, thbVars, arbVars, polyVars, pipeVars>>

vars == <<active, gridVars, brainVars, futVars, thbVars, arbVars, polyVars, pipeVars, svcVars>>
Spec == Init /\ [][Next]_vars

-----------------------------------------------------------------------------
\* One type invariant for all components.
TypeOK ==
    /\ GridTypeOK /\ ThbTypeOK /\ ArbTypeOK /\ SvcTypeOK
    /\ BrainTypeOK /\ FutTypeOK /\ PolyTypeOK /\ PipeTypeOK
=============================================================================
