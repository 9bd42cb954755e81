------------------------------ MODULE MCWireSession ------------------------------
(* WireSession for TLC. *)
EXTENDS WireSessionProps, TLC

\* Newcomers are alike, where nobody is there at the start.
Newcomers == Permutations(Conns)

\* Bound: once a client has left, the last of the turns does not start.
OneTurnLessIfSomeoneLeaves ==
    (\E c \in Conns : phase[c] = "Left") => turn[MaxTurns] = "none"
=================================================================================
