---------------------------- MODULE MCAgentTask ----------------------------
(* Small instances of the agent task engine.                               *)
EXTENDS AgentTask, TLC

CONSTANTS w1, w2, g1, k1

MCWorkers == {w1, w2}
MCGateways == {g1}
MCKeys == {k1}
MCOutcomes == {"succeeded", "failed"}
MCCosts == {1}

\* Workers differ only in their names.
WorkerSymmetry == Permutations(MCWorkers)

=============================================================================
