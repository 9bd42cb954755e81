------------------------------ MODULE MCAgentLoop ------------------------------
(* AgentLoop for TLC. *)
EXTENDS AgentLoop, TLC

\* Bound: a newline that lands too late is one of the first turn, before its last step.
LateAtFirst == Intact(file) /\ ~Intact(file') => turns = 1 /\ steps < MaxAsks

BoundedLoop == LoopInit /\ [][LoopNext /\ LateAtFirst]_soulVars
=================================================================================
