------------------------------ MODULE Snowflake ------------------------------
(***************************************************************************)
(* The id generator of pkg/utils/sequence.go, one in each node: an id is   *)
(* the millisecond, the node and a sequence number, packed in one integer. *)
(* The mutex makes Generate sequential in a node.  The wall clock may be   *)
(* set back at any time; a Generate that sees it behind the last id panics *)
(* and ends the process.  The ids are those of one process of each node.   *)
(* Time is counted from the generator's epoch.                             *)
(***************************************************************************)
EXTENDS Integers, Sequences

CONSTANTS Nodes,       \* the ids of the nodes that run
          NodeCount,   \* nodeMax + 1
          SeqCount,    \* sequenceMax + 1
          ClockLimit,  \* the last millisecond (the timestamp has 41 bits)
          MaxIds       \* how many ids a node generates (a bound)

ASSUME SnowflakeAssumption ==
  /\ NodeCount \in Nat \ {0} /\ SeqCount \in Nat \ {0}
  /\ Nodes \subseteq 0..(NodeCount - 1)
  /\ ClockLimit \in Nat
  /\ MaxIds \in Nat

Never == -1   \* the timestamp of a new generator, before any clock

VARIABLES now,        \* time.Now().UnixMilli()
          timestamp,  \* Snowflake.timestamp of each node
          sequence,   \* Snowflake.sequence
          waiting,    \* the nodes whose Generate spins for the next millisecond
          panicked,   \* the nodes whose process has ended
          ids         \* the ids each node has generated, in order

vars == <<now, timestamp, sequence, waiting, panicked, ids>>

Init == /\ now \in 0..ClockLimit
        /\ timestamp = [n \in Nodes |-> Never]
        /\ sequence = [n \in Nodes |-> 0]
        /\ waiting = {}
        /\ panicked = {}
        /\ ids = [n \in Nodes |-> <<>>]

\* Mutant of Id: the node is not part of it.
IdOfMoment(time, n, seq) == time * NodeCount * SeqCount + seq

\* The shifted fields do not overlap, so "|" adds them.
Id(time, n, seq) == (time * NodeCount + n) * SeqCount + seq

Ready(n) == n \notin waiting \cup panicked

Issue(n, time, seq) == /\ Len(ids[n]) < MaxIds
                       /\ ids' = [ids EXCEPT ![n] = Append(@, Id(time, n, seq))]

\* The clock goes on, or is set back.
ClockMoves == /\ now' \in 0..ClockLimit /\ now' <= now + 1
              /\ UNCHANGED <<timestamp, sequence, waiting, panicked, ids>>

-----------------------------------------------------------------------------
(* Generate                                                                *)

ClockBehind(n) == /\ Ready(n)
                  /\ now < timestamp[n]
                  /\ panicked' = panicked \cup {n}
                  /\ UNCHANGED <<now, timestamp, sequence, waiting, ids>>

NewMillisecond(n) == /\ Ready(n)
                     /\ now > timestamp[n]
                     /\ timestamp' = [timestamp EXCEPT ![n] = now]
                     /\ sequence' = [sequence EXCEPT ![n] = 0]
                     /\ Issue(n, now, 0)
                     /\ UNCHANGED <<now, waiting, panicked>>

NextSequence(n) == (sequence[n] + 1) % SeqCount

\* Mutant of SameMillisecond: the generator does not wait when the sequence
\* starts again.
SameMillisecondAgain(n) == /\ Ready(n)
                           /\ now = timestamp[n]
                           /\ sequence' = [sequence EXCEPT ![n] = NextSequence(n)]
                           /\ Issue(n, now, NextSequence(n))
                           /\ UNCHANGED <<now, timestamp, waiting, panicked>>

SameMillisecond(n) == /\ Ready(n)
                      /\ now = timestamp[n]
                      /\ NextSequence(n) # 0
                      /\ sequence' = [sequence EXCEPT ![n] = NextSequence(n)]
                      /\ Issue(n, now, NextSequence(n))
                      /\ UNCHANGED <<now, timestamp, waiting, panicked>>

Exhausted(n) == /\ Ready(n)
                /\ now = timestamp[n]
                /\ NextSequence(n) = 0
                /\ sequence' = [sequence EXCEPT ![n] = 0]
                /\ waiting' = waiting \cup {n}
                /\ UNCHANGED <<now, timestamp, panicked, ids>>

\* The loop ends when the clock has passed the timestamp.
StopWaiting(n) == /\ n \in waiting
                  /\ now > timestamp[n]
                  /\ timestamp' = [timestamp EXCEPT ![n] = now]
                  /\ Issue(n, now, sequence[n])
                  /\ waiting' = waiting \ {n}
                  /\ UNCHANGED <<now, sequence, panicked>>

Generate(n) == \/ ClockBehind(n) \/ NewMillisecond(n) \/ SameMillisecond(n)
               \/ Exhausted(n) \/ StopWaiting(n)

Next == ClockMoves \/ \E n \in Nodes : Generate(n)

Spec == Init /\ [][Next]_vars

-----------------------------------------------------------------------------
\* The ids a process generates grow, whatever the clock does and however many
\* are asked for in one millisecond: the wait when the sequence starts again,
\* and the panic, are what makes it so.
IdsIncrease ==
  \A n \in Nodes : \A i, j \in DOMAIN ids[n] : i < j => ids[n][i] < ids[n][j]

\* Two nodes never generate the same id, even when both generate more than one
\* sequence of ids in one millisecond.
NodesDisagree ==
  \A m, n \in Nodes : m # n =>
    \A i \in DOMAIN ids[m], j \in DOMAIN ids[n] : ids[m][i] # ids[n][j]
=============================================================================
