------------------------------- MODULE MCRaft -------------------------------
(* Two nodes and an order of each kind.                                    *)
EXTENDS RaftProperties

MCNode == {"n1", "n2"}
MCVoters == {{}, MCNode}
MCKind == [m |-> "maker", t |-> "taker", s |-> "stop"]

Limits(names, attempts, votes, mishaps, captures) ==
  [orders |-> names, tries |-> attempts, elections |-> votes,
   faults |-> mishaps, snapshots |-> captures]

\* Orders that are tried again while leaders change; a snapshot that is sent to
\* the other node while orders trade; snapshots that both nodes take; and one
\* cancel, stop or restart.
MCBounds == {Limits({"m", "t"}, 2, 2, 0, 0),
             Limits({"m", "t", "s"}, 1, 2, 0, 1),
             Limits({"m", "t", "s"}, 1, 1, 0, 2),
             Limits({"m", "t"}, 1, 2, 1, 1)}
=============================================================================
