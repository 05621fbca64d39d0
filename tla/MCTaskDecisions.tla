-------------------------- MODULE MCTaskDecisions --------------------------
EXTENDS TaskDecisions

\* The agent's pipeline after its planning phases, and an edit that mutates again.
MCPipeline == [Generation |-> <<"ConfirmationGate", "Mutating">>,
               ManualEdit |-> <<"Mutating", "Publication">>]

\* A pipeline of one mutating phase.
MCSinglePhase == [Generation |-> <<"Mutating">>, ManualEdit |-> <<"Mutating">>]
=============================================================================
