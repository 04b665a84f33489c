------------------------- MODULE MCSnapshotRecovery -------------------------
(***************************************************************************)
(* A requester and a stranger that connect once each, a backlog of one and *)
(* two locates: the requester may be refused, wait behind the stranger,    *)
(* ask for the locate the stranger asked for or for the other one, be cut  *)
(* off by stop(), or call only after a restart.                            *)
(***************************************************************************)
EXTENDS SnapshotRecovery

CONSTANTS locA, locB, r1, x1

MCLocates    == {locA, locB}
MCRequesters == {r1}
MCStrangers  == {x1}
MCMaxCalls   == [c \in {r1, x1} |-> 1]
=============================================================================
