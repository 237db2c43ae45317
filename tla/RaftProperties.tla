--------------------------- MODULE RaftProperties ---------------------------
(* What the replicas of the engine agree on, what the answers of           *)
(* SubmitOrder in Raft mode mean, and when they come.                      *)
EXTENDS RaftReplica

\* The values the variables range over.  The read lock of a node is held by the
\* submitters that wait for the log there, and by the FSM goroutine when it
\* never comes back; the write lock by Restore or Stop, announced or inside.
TypeOK ==
  /\ voters \in Voters
  /\ leader \in Node \cup {NoNode}
  /\ flight \in Seq(Entry) /\ agreed \in Seq(Entry)
  /\ answer \in [Entry -> {"none", "waiting", "ok", "refused", "error"}]
  /\ life \in [Node -> {"up", "locked", "down", "hung"}]
  /\ fsm \in [Node -> {"idle", "applying", "capturing", "restoring", "looping"}]
  /\ \A n \in Node : /\ applied[n] \in 0..Len(agreed)
                     /\ given[n] \in Nat
                     /\ stops[n] \subseteq Entry
                     /\ mu[n].writer \in {NoWriter, Stopper, FsmWriter}
                     /\ mu[n].writer = FsmWriter <=> fsm[n] = "restoring"
                     /\ life[n] = "locked" => mu[n] = Announce(Unlocked, Stopper)
                     /\ mu[n].readers =
                          {e \in Entry : answer[e] = "waiting" /\ asked[e] = n}
                            \cup (IF fsm[n] = "looping" THEN {FsmReader} ELSE {})
  /\ tainted \subseteq Node

\* The replica that results from the first i entries of the log, and a book, but
\* for the ids its node has given.
Logged(replica, entry) == Process(replica, entry, NoId)
Replay(i) == FoldLeft(Logged, [book |-> <<>>, stops |-> {}], SubSeq(agreed, 1, i))
WithoutIds(orders) == [i \in DOMAIN orders |-> [orders[i] EXCEPT !.id = NoId]]

\* The book of a replica is, but for the ids of its orders, which differ from
\* node to node, what the log makes of an empty one, through any snapshots and
\* restores, as long as no cancel was made on the node, whose effect no other
\* node sees (engine.go 298), and no snapshot was restored that was written
\* while its orders traded (node.go 151); nor does a match then meet an order
\* with nothing left, which its loop does not get past.  Of the stop orders of
\* the log a replica may lack those it was restored past.
BooksFollowTheLog ==
  \A n \in Node :
    /\ Running(n)
    /\ n \notin tainted
    => /\ fsm[n] # "looping"
       /\ WithoutIds(book[n]) = Replay(applied[n]).book
       /\ stops[n] \subseteq Replay(applied[n]).stops

Tries(o, results) == {e \in Entry : e.order = o /\ answer[e] \in results}

Occurrences(o) == {i \in DOMAIN agreed : agreed[i].order = o}

\* What a client may conclude (node.go 302): ok says that the order is in the
\* log; a refusal, that this try never will be;
OkIsLogged == \A e \in Entry : answer[e] = "ok" => e \in ToSet(agreed)

RefusedIsNever ==
  \A e \in Entry : answer[e] = "refused" => e \notin ToSet(agreed) \cup ToSet(flight)

\* and an order is in the log at most as often as it was tried with another
\* outcome, so more than once only after an error or while a try waits.
OnlyTriesAreLogged ==
  \A o \in OrderName :
    Cardinality(Occurrences(o)) <= Cardinality(Tries(o, {"ok", "error", "waiting"}))

\* No node being a voter, as the two ways to write a node's name make it
\* (node.go 190 and 250), every answer is a refusal.
NobodyLeads == voters = {} => \A e \in Entry : answer[e] \in {"none", "refused"}

\* The four together: what SubmitOrder answers in Raft mode is true.
AnswersAreTrue == OkIsLogged /\ RefusedIsNever /\ OnlyTriesAreLogged /\ NobodyLeads

\* SubmitOrder, which holds the read lock while it waits for the log, returns:
\* the state machine needs the same lock on the same node, and gets it unless
\* Stop asks for it meanwhile (engine.go 164), or the state machine loops.
Obstructed(n) == mu[n].writer = Stopper \/ fsm[n] = "looping"

SubmitsReturn ==
  \A n \in Node :
    (\E e \in Entry : answer[e] = "waiting" /\ asked[e] = n)
      ~> \/ \A e \in Entry : ~(answer[e] = "waiting" /\ asked[e] = n)
         \/ Obstructed(n)
=============================================================================
