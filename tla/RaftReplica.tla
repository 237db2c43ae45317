----------------------------- MODULE RaftReplica -----------------------------
(***************************************************************************)
(* The engine in Raft mode: internal/raft/node.go, and the parts of        *)
(* internal/engine/engine.go that it calls or that call it.                *)
(*                                                                         *)
(* The consensus library (hashicorp/raft) is external.  It is modelled by  *)
(* what it promises the program: one agreed log, whose entries its FSM     *)
(* goroutine gives to the state machine one by one; futures that end with  *)
(* the entry applied on the leader or with an error when leadership is     *)
(* lost, although the entry may still be agreed on; snapshots written      *)
(* while entries are applied; and an agreed log that survives the restart  *)
(* of a node, which holds only as long as most nodes keep their memory,    *)
(* because the program gives the library stores in memory.                 *)
(***************************************************************************)
EXTENDS RWMutex, SequencesExt, Integers

CONSTANTS Node,
          Voters,        \* what the cluster's configuration may be
          OrderName, KindOf,  \* the orders clients submit, and their kinds
          MaxTries,      \* submissions of one order (a bound)
          Bounds         \* how many elections, cancels, stops and restarts, and
                         \* snapshots there may be, and which orders

NoNode == "no node"
NoId == [by |-> NoNode, nth |-> 0]
Stopper == "main"     \* the goroutine of Stop
FsmWriter == "fsm"     \* the FSM goroutine, in Restore and in ApplyOrder
FsmReader == [order |-> "fsm", try |-> 0]

Entry == [order: OrderName, try: 1..MaxTries]

ASSUME RaftAssumption ==
  /\ KindOf \in [OrderName -> {"maker", "taker", "stop"}]
  /\ Voters \subseteq SUBSET Node
  /\ NoNode \notin Node
  /\ MaxTries \in Nat
  /\ Bounds \subseteq [orders: SUBSET OrderName, tries: Nat, elections: Nat,
                       faults: Nat, snapshots: Nat]

VARIABLES bound,      \* the bounds of this behaviour; never changes
          voters,     \* the nodes the configuration lets vote; never changes
          leader,     \* the node whose State is Leader
          elections, faults, snapshots,  \* so far
          flight,     \* entries appended by leaders, not agreed on
          agreed,     \* the agreed log
          answer,     \* per entry, what ProposeOrder or SubmitOrder returned
          asked,      \* per entry, the leader it was submitted to
          life,       \* per node: "up", "locked" in Stop, "down", or "hung"
          mu,         \* per node, Engine.mu
          fsm,        \* per node, the FSM goroutine
          applied,    \* per node, how many entries the state machine was given
          given,      \* per node, how many order ids its Snowflake has given
          book,       \* per node, the resting orders in order of arrival
          stops,      \* per node, the parked stop orders
          capture,    \* per node, a snapshot taken and not yet written
          saved,      \* per node, the snapshot on disk
          tainted     \* history: nodes whose book had other inputs than the log

boundVars == <<bound, voters>>
countVars == <<elections, faults, snapshots>>
clusterVars == <<boundVars, countVars, leader, flight, agreed>>
callVars == <<answer, asked>>
replicaVars == <<applied, given, book, stops>>
nodeVars == <<life, mu, fsm, replicaVars, capture, saved, tainted>>
vars == <<clusterVars, callVars, nodeVars>>

NoSnapshot == [index |-> 0, orders |-> <<>>, clean |-> TRUE]

Init == /\ bound \in Bounds
        /\ voters \in Voters
        /\ leader = NoNode
        /\ elections = 0 /\ faults = 0 /\ snapshots = 0
        /\ flight = <<>> /\ agreed = <<>>
        /\ answer = [e \in Entry |-> "none"]
        /\ asked = [e \in Entry |-> NoNode]
        /\ life = [n \in Node |-> "up"]
        /\ mu = [n \in Node |-> Unlocked]
        /\ fsm = [n \in Node |-> "idle"]
        /\ applied = [n \in Node |-> 0]
        /\ given = [n \in Node |-> 0]
        /\ book = [n \in Node |-> <<>>]
        /\ stops = [n \in Node |-> {}]
        /\ capture = [n \in Node |-> NoSnapshot]
        /\ saved = [n \in Node |-> NoSnapshot]
        /\ tainted = {}

-----------------------------------------------------------------------------
(* What an order does to a replica: a maker rests, a taker fills the first *)
(* maker or is dropped, a stop order is parked.  An entry of the log has no *)
(* id: each node gives its own copy of the order one.                      *)

Rests(entry, id) == [id |-> id, entry |-> entry, left |-> 1]

Process(replica, entry, id) ==
  CASE KindOf[entry.order] = "maker" ->
         [replica EXCEPT !.book = Append(@, Rests(entry, id))]
    [] KindOf[entry.order] = "taker" ->
         [replica EXCEPT !.book = IF @ = <<>> THEN @ ELSE Tail(@)]
    [] KindOf[entry.order] = "stop" ->
         [replica EXCEPT !.stops = @ \cup {entry}]

\* A maker with nothing left, as a snapshot may hold one, ends neither the
\* order nor the level: the matcher's loop does not end.
Loops(n, entry) ==
  KindOf[entry.order] = "taker" /\ book[n] # <<>> /\ Head(book[n]).left = 0

\* The resting order that the entry fills, if any.
Fills(n, entry) ==
  IF KindOf[entry.order] = "taker" /\ book[n] # <<>> THEN {Head(book[n]).id} ELSE {}

-----------------------------------------------------------------------------
(* The library: elections, agreement.                                      *)

\* Futures of entries that are in flight fail when the leader steps down.
Deposed == [e \in Entry |->
              IF answer[e] = "waiting" /\ e \in ToSet(flight) THEN "error"
                                                              ELSE answer[e]]

Released(n, entries) == [mu EXCEPT ![n].readers = @ \ entries]

\* Mutant of StepDown: SubmitOrder returns the error with the lock in hand.
StepDownHeld == answer' = Deposed /\ UNCHANGED mu

\* Whoever held the lock to wait for such a future leaves the engine.
StepDown ==
  /\ answer' = Deposed
  /\ mu' = IF leader = NoNode THEN mu
           ELSE Released(leader, {e \in Entry : Deposed[e] # answer[e]})

\* A new leader may or may not have what was in flight.
Elect(n) ==
  /\ n \in voters
  /\ life[n] \in {"up", "locked"}
  /\ n # leader
  /\ elections < bound.elections
  /\ elections' = elections + 1
  /\ leader' = n
  /\ \E kept \in 0..Len(flight) : flight' = SubSeq(flight, 1, kept)
  /\ StepDown
  /\ UNCHANGED <<boundVars, faults, snapshots, agreed, asked, life, fsm,
                 replicaVars, capture, saved, tainted>>

LoseLeader ==
  /\ leader # NoNode
  /\ leader' = NoNode
  /\ StepDown
  /\ UNCHANGED <<boundVars, countVars, flight, agreed, asked, life, fsm,
                 replicaVars, capture, saved, tainted>>

Agree ==
  /\ leader # NoNode
  /\ flight # <<>>
  /\ flight' = Tail(flight)
  /\ agreed' = Append(agreed, Head(flight))
  /\ UNCHANGED <<boundVars, countVars, leader, callVars, nodeVars>>

-----------------------------------------------------------------------------
(* SubmitOrder.  The client of an order tries again after a refusal or an  *)
(* error, perhaps on another node.                                         *)

MayTry(e) == /\ answer[e] = "none"
             /\ e.order \in bound.orders
             /\ e.try <= bound.tries
             /\ e.try > 1 => answer[[e EXCEPT !.try = @ - 1]] \in {"refused", "error"}

\* Mutant of Submit: the leadership is not asked for first.
SubmitAnywhere(n, e) ==
  /\ life[n] = "up"
  /\ CanRLock(mu[n])
  /\ MayTry(e)
  /\ asked' = [asked EXCEPT ![e] = n]
  /\ flight' = Append(flight, e)
  /\ answer' = [answer EXCEPT ![e] = IF leader = n THEN "waiting" ELSE "refused"]
  /\ mu' = IF leader = n THEN [mu EXCEPT ![n] = RLock(@, e)] ELSE mu
  /\ UNCHANGED <<boundVars, countVars, leader, agreed, life, fsm, replicaVars,
                 capture, saved, tainted>>

Submit(n, e) ==
  /\ life[n] = "up"
  /\ CanRLock(mu[n])
  /\ MayTry(e)
  /\ IF leader = n
       THEN /\ asked' = [asked EXCEPT ![e] = n]
            /\ flight' = Append(flight, e)
            /\ answer' = [answer EXCEPT ![e] = "waiting"]
            /\ mu' = [mu EXCEPT ![n] = RLock(@, e)]
       ELSE /\ answer' = [answer EXCEPT ![e] = "refused"]
            /\ UNCHANGED <<asked, flight, mu>>
  /\ UNCHANGED <<boundVars, countVars, leader, agreed, life, fsm, replicaVars,
                 capture, saved, tainted>>

\* CancelOrder works on the replica of the node it reaches and on no other,
\* where the order has another id.  What is left of it stays with the order, and
\* in a snapshot that holds it.
Cancel(n, i) ==
  /\ faults < bound.faults
  /\ faults' = faults + 1
  /\ life[n] = "up"
  /\ CanRLock(mu[n])
  /\ book' = [book EXCEPT ![n] = RemoveAt(@, i)]
  /\ tainted' = tainted \cup {n}
  /\ UNCHANGED <<boundVars, elections, snapshots, leader, flight, agreed, callVars,
                 life, mu, fsm, applied, given, stops, capture, saved>>

-----------------------------------------------------------------------------
(* The state machine.                                                      *)

Running(n) == life[n] \in {"up", "locked"}

Upcoming(n) == agreed[applied[n] + 1]

\* Apply is called, and ApplyOrder asks for the read lock,
FsmTakes(n) ==
  /\ Running(n)
  /\ fsm[n] = "idle"
  /\ applied[n] < Len(agreed)
  /\ fsm' = [fsm EXCEPT ![n] = "applying"]
  /\ UNCHANGED <<clusterVars, callVars, life, mu, replicaVars, capture,
                 saved, tainted>>

\* Mutant of ApplyGoesOn: ApplyOrder takes the write lock, since it writes.
ApplyGoesOnAlone(n) == CanRLock(mu[n]) /\ mu[n].readers = {}

ApplyGoesOn(n) == CanRLock(mu[n])

\* What a captured order has left: the snapshot holds pointers.
AfterFills(orders, filled) ==
  [i \in DOMAIN orders |->
     IF orders[i].id \in filled THEN [orders[i] EXCEPT !.left = 0] ELSE orders[i]]

\* and processes the order.  The future of the submitter, if it waits on this
\* node, is answered.
FsmApplies(n) ==
  LET entry == Upcoming(n)
      id    == [by |-> n, nth |-> given[n] + 1]
      after == Process([book |-> book[n], stops |-> stops[n]], entry, id)
      mine  == answer[entry] = "waiting" /\ asked[entry] = n
  IN  /\ Running(n)
      /\ fsm[n] = "applying"
      /\ ApplyGoesOn(n)
      /\ ~Loops(n, entry)
      /\ fsm' = [fsm EXCEPT ![n] = "idle"]
      /\ applied' = [applied EXCEPT ![n] = @ + 1]
      /\ given' = [given EXCEPT ![n] = @ + 1]
      /\ book' = [book EXCEPT ![n] = after.book]
      /\ stops' = [stops EXCEPT ![n] = after.stops]
      /\ capture' = [capture EXCEPT ![n].orders = AfterFills(@, Fills(n, entry))]
      /\ answer' = IF mine THEN [answer EXCEPT ![entry] = "ok"] ELSE answer
      /\ mu' = IF mine THEN Released(n, {entry}) ELSE mu
      /\ UNCHANGED <<clusterVars, asked, life, saved, tainted>>

\* The FSM goroutine stays in the matcher, with the read lock.
FsmLoops(n) ==
  /\ Running(n)
  /\ fsm[n] = "applying"
  /\ ApplyGoesOn(n)
  /\ Loops(n, Upcoming(n))
  /\ fsm' = [fsm EXCEPT ![n] = "looping"]
  /\ mu' = [mu EXCEPT ![n] = RLock(@, FsmReader)]
  /\ UNCHANGED <<clusterVars, callVars, life, replicaVars, capture, saved,
                 tainted>>

-----------------------------------------------------------------------------
(* Snapshots.                                                              *)

\* The library has its FSM goroutine call Snapshot, which asks for the read lock
SnapshotBegins(n) ==
  /\ Running(n)
  /\ fsm[n] = "idle"
  /\ capture[n] = NoSnapshot
  /\ applied[n] > saved[n].index
  /\ snapshots < bound.snapshots
  /\ snapshots' = snapshots + 1
  /\ fsm' = [fsm EXCEPT ![n] = "capturing"]
  /\ UNCHANGED <<boundVars, elections, faults, leader, flight, agreed, callVars, life,
                 mu, replicaVars, capture, saved, tainted>>

\* and collects pointers to the resting orders; stop orders, iceberg states and
\* the last price are not part of it.
TakeSnapshot(n) ==
  /\ Running(n)
  /\ fsm[n] = "capturing"
  /\ CanRLock(mu[n])
  /\ fsm' = [fsm EXCEPT ![n] = "idle"]
  /\ capture' = [capture EXCEPT ![n] = [index |-> applied[n], orders |-> book[n],
                                        clean |-> n \notin tainted]]
  /\ UNCHANGED <<clusterVars, callVars, life, mu, replicaVars, saved, tainted>>

\* Persist writes what the pointers show by then.  The library's file store
\* keeps several snapshots and gives the latest, which is not this one when a
\* newer one has come from the leader.
Persist(n) ==
  LET orders == capture[n].orders
      asTaken == \A i \in DOMAIN orders : orders[i].left = 1
  IN  /\ Running(n)
      /\ capture[n] # NoSnapshot
      /\ saved' = IF capture[n].index < saved[n].index THEN saved
                  ELSE [saved EXCEPT ![n] =
                         [capture[n] EXCEPT !.clean = @ /\ asTaken]]
      /\ capture' = [capture EXCEPT ![n] = NoSnapshot]
      /\ UNCHANGED <<clusterVars, callVars, life, mu, fsm, replicaVars, tainted>>

\* The leader sends its snapshot to a node that is far behind, and Restore asks
\* for the write lock.  Entries agreed on earlier have been applied by then.
RestoreBegins(n) ==
  /\ Running(n)
  /\ leader \notin {NoNode, n}
  /\ saved[leader].index > applied[n]
  /\ fsm[n] = "idle"
  /\ mu[n].readers = {}
  /\ CanAnnounce(mu[n])
  /\ fsm' = [fsm EXCEPT ![n] = "restoring"]
  /\ mu' = [mu EXCEPT ![n] = Announce(@, FsmWriter)]
  /\ saved' = [saved EXCEPT ![n] = saved[leader]]
  /\ UNCHANGED <<clusterVars, callVars, life, replicaVars, capture, tainted>>

\* Mutant of RestoredBook: the orders are added to the book that is there.
RestoredOnTop(n) == book[n] \o saved[n].orders

RestoredBook(n) == saved[n].orders

\* RestoreOrders makes new books; the stop managers stay as they are.
RestoreEnds(n) ==
  /\ Running(n)
  /\ fsm[n] = "restoring"
  /\ CanLock(mu[n], FsmWriter)
  /\ mu' = [mu EXCEPT ![n] = Unlock(@)]
  /\ fsm' = [fsm EXCEPT ![n] = "idle"]
  /\ applied' = [applied EXCEPT ![n] = saved[n].index]
  /\ book' = [book EXCEPT ![n] = RestoredBook(n)]
  /\ tainted' = IF saved[n].clean THEN tainted \ {n} ELSE tainted \cup {n}
  /\ UNCHANGED <<clusterVars, callVars, life, given, stops, capture, saved>>

-----------------------------------------------------------------------------
(* Stop and restart.                                                       *)

StopBegins(n) ==
  /\ life[n] = "up"
  /\ faults < bound.faults
  /\ faults' = faults + 1
  /\ CanAnnounce(mu[n])
  /\ mu' = [mu EXCEPT ![n] = Announce(@, Stopper)]
  /\ UNCHANGED <<boundVars, elections, snapshots, leader, flight, agreed, callVars,
                 life, fsm, replicaVars, capture, saved, tainted>>

\* With the lock Stop calls Shutdown,
StopLocks(n) ==
  /\ life[n] = "up"
  /\ CanLock(mu[n], Stopper)
  /\ life' = [life EXCEPT ![n] = "locked"]
  /\ UNCHANGED <<clusterVars, callVars, mu, fsm, replicaVars, capture,
                 saved, tainted>>

\* which waits for the FSM goroutine; that one may be waiting for the lock.
StopReturns(n) ==
  /\ life[n] = "locked"
  /\ fsm[n] = "idle"
  /\ life' = [life EXCEPT ![n] = "down"]
  /\ mu' = [mu EXCEPT ![n] = Unlock(@)]
  /\ leader' = IF leader = n THEN NoNode ELSE leader
  /\ UNCHANGED <<boundVars, countVars, flight, agreed, callVars, fsm,
                 replicaVars, capture, saved, tainted>>

\* The process of a node dies and is started again.  Start holds the write lock
\* when the library restores the snapshot it finds on disk, and RestoreOrders
\* asks for that lock: such a node never comes up.  Without a snapshot the
\* replica starts from nothing and is given the log again.
Restart(n) ==
  /\ life[n] = "up"
  /\ faults < bound.faults
  /\ faults' = faults + 1
  /\ life' = [life EXCEPT ![n] = IF saved[n] = NoSnapshot THEN "up" ELSE "hung"]
  /\ leader' = IF leader = n THEN NoNode ELSE leader
  /\ answer' = [e \in Entry |-> IF answer[e] = "waiting" /\ asked[e] = n THEN "error"
                                ELSE answer[e]]
  /\ mu' = [mu EXCEPT ![n] = Unlocked]
  /\ fsm' = [fsm EXCEPT ![n] = "idle"]
  /\ applied' = [applied EXCEPT ![n] = 0]
  /\ book' = [book EXCEPT ![n] = <<>>]
  /\ stops' = [stops EXCEPT ![n] = {}]
  /\ capture' = [capture EXCEPT ![n] = NoSnapshot]
  /\ tainted' = tainted \ {n}
  /\ UNCHANGED <<boundVars, elections, snapshots, flight, agreed, asked, given, saved>>

-----------------------------------------------------------------------------
Applying(n) == \/ FsmTakes(n) \/ FsmApplies(n) \/ FsmLoops(n)
               \/ TakeSnapshot(n) \/ RestoreEnds(n)

Next ==
  \/ LoseLeader \/ Agree
  \/ \E n \in Node :
       \/ Elect(n)
       \/ \E e \in Entry : Submit(n, e)
       \/ \E i \in DOMAIN book[n] : Cancel(n, i)
       \/ Applying(n)
       \/ SnapshotBegins(n) \/ Persist(n) \/ RestoreBegins(n)
       \/ StopBegins(n) \/ StopLocks(n) \/ StopReturns(n) \/ Restart(n)

\* The library agrees on what a leader has appended, and its FSM goroutine goes
\* on whenever it can.
Spec == /\ Init
        /\ [][Next]_vars
        /\ WF_vars(Agree)
        /\ \A n \in Node : WF_vars(Applying(n))
==============================================================================
