------------------------------- MODULE MCStores -------------------------------
(***************************************************************************)
(* Instances for TLC of what the strategy service keeps: the alpha journal *)
(* and its forward replay, the on-chain landing and its compaction, the    *)
(* on-chain stream, the import and landing of world markets. They share no *)
(* state here, so one behavior runs one of them: this run is the disjoint  *)
(* union of their state graphs.                                            *)
(***************************************************************************)
EXTENDS Integers, Sequences, FiniteSets, Lakes, OnchainStream, AlphaJournal

VARIABLE active   \* the component of this behavior

Terms(price, edge) ==
    [price |-> price, cost |-> 1, units |-> 1, maxLoss |-> 60, age |-> 0, sound |-> TRUE,
     invalidation |-> 10, target |-> 90, fair |-> 80, edge |-> edge, maxEntry |-> 60, size |-> 1]

MCTerms == {Terms(40, 5), Terms(50, 5), Terms(50, 40)}

MCPages == {[markets |-> {"x"}, next |-> "c"], [markets |-> {"y"}, next |-> "end"]}

-----------------------------------------------------------------------------
\* The components that are not active stay in their initial state.
Init ==
    /\ active \in {"alpha", "cases", "lake", "stream", "world"}
    /\ AlphaInit /\ LakeInit /\ StreamInit /\ WorldInit

Next ==
    /\ UNCHANGED active
    /\ \/ /\ active = "alpha" /\ JournalNext
          /\ UNCHANGED <<lakeVars, streamVars, worldVars>>
       \/ /\ active = "cases" /\ ReplayNext
          /\ UNCHANGED <<lakeVars, streamVars, worldVars>>
       \/ /\ active = "lake" /\ LakeNext
          /\ UNCHANGED <<alphaVars, streamVars, worldVars>>
       \/ /\ active = "stream" /\ StreamNext
          /\ UNCHANGED <<alphaVars, lakeVars, worldVars>>
       \/ /\ active = "world" /\ WorldNext
          /\ UNCHANGED <<alphaVars, lakeVars, streamVars>>

vars == <<active, alphaVars, lakeVars, streamVars, worldVars>>
Spec == Init /\ [][Next]_vars

\* Types, request keys and the order of the parts in all components.
TypeOK == AlphaTypeOK /\ LakeTypeOK /\ StreamTypeOK /\ WorldTypeOK
=============================================================================
