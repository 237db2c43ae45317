----------------------------- MODULE RaftProofs -----------------------------
(***************************************************************************)
(* Proofs about RaftReplica, for any nodes, voters, orders and bounds:     *)
(* the locks of the nodes, and what the answers of SubmitOrder mean.       *)
(***************************************************************************)
EXTENDS RaftProperties, FoldLemmas, FunctionTheorems, FiniteSetTheorems, SequenceTheorems,
        TLAPS

\* No element is in the sequence twice.
Once(s) == \A i, j \in DOMAIN s : s[i] = s[j] => i = j

\* An element more at the end of a sequence,
LEMMA AppendElements ==
  ASSUME NEW S, NEW s \in Seq(S), NEW e \in S
  PROVE  /\ Append(s, e) \in Seq(S)
         /\ ToSet(Append(s, e)) = ToSet(s) \cup {e}
         /\ Once(s) /\ e \notin ToSet(s) => Once(Append(s, e))
<1>1. /\ Append(s, e) \in Seq(S)
      /\ Len(Append(s, e)) = Len(s) + 1
      /\ \A i \in 1..Len(s) : Append(s, e)[i] = s[i]
      /\ Append(s, e)[Len(s) + 1] = e
  BY AppendProperties
<1>2. /\ Len(s) \in Nat /\ DOMAIN s = 1..Len(s)
      /\ DOMAIN Append(s, e) = 1..(Len(s) + 1)
  BY <1>1, LenProperties
<1>3. ToSet(Append(s, e)) = ToSet(s) \cup {e}
  BY <1>1, <1>2 DEF ToSet
<1>4. ASSUME Once(s), e \notin ToSet(s)
      PROVE  Once(Append(s, e))
  BY <1>1, <1>2, <1>4 DEF Once, ToSet
<1> QED
  BY <1>1, <1>3, <1>4

\* an element less at its front,
LEMMA TailElements ==
  ASSUME NEW S, NEW s \in Seq(S), s # <<>>
  PROVE  /\ Tail(s) \in Seq(S)
         /\ Head(s) \in S
         /\ ToSet(s) = ToSet(Tail(s)) \cup {Head(s)}
         /\ Once(s) => Once(Tail(s)) /\ Head(s) \notin ToSet(Tail(s))
<1>1. /\ Tail(s) \in Seq(S) /\ Head(s) \in S /\ Head(s) = s[1]
      /\ Len(Tail(s)) = Len(s) - 1
      /\ \A i \in 1..Len(Tail(s)) : Tail(s)[i] = s[i + 1]
  BY HeadTailProperties
<1>2. /\ Len(s) \in Nat /\ Len(s) > 0 /\ DOMAIN s = 1..Len(s)
      /\ DOMAIN Tail(s) = 1..(Len(s) - 1)
  BY <1>1, LenProperties, EmptySeq
<1>3. ToSet(s) = ToSet(Tail(s)) \cup {Head(s)}
  <2>1. ASSUME NEW i \in 1..Len(s)
        PROVE  s[i] \in ToSet(Tail(s)) \cup {Head(s)}
    <3>1. CASE i = 1
      BY <1>1, <3>1
    <3>2. CASE i # 1
      <4>1. i - 1 \in 1..(Len(s) - 1) /\ (i - 1) + 1 = i
        BY <1>2, <3>2
      <4>2. Tail(s)[i - 1] = s[i]
        BY <1>1, <4>1
      <4> QED
        BY <1>2, <4>1, <4>2 DEF ToSet
    <3> QED
      BY <3>1, <3>2
  <2>2. ASSUME NEW i \in 1..(Len(s) - 1)
        PROVE  Tail(s)[i] \in ToSet(s)
    BY <1>1, <1>2 DEF ToSet
  <2>3. Head(s) \in ToSet(s)
    BY <1>1, <1>2 DEF ToSet
  <2> QED
    BY <1>2, <2>1, <2>2, <2>3 DEF ToSet
<1>4. ASSUME Once(s)
      PROVE  Once(Tail(s)) /\ Head(s) \notin ToSet(Tail(s))
  <2>1. \A i \in 1..(Len(s) - 1) : Tail(s)[i] = s[i + 1] /\ i + 1 \in 1..Len(s)
    BY <1>1, <1>2
  <2> QED
    BY <1>1, <1>2, <1>4, <2>1 DEF Once, ToSet
<1> QED
  BY <1>1, <1>3, <1>4

\* and its first elements.
LEMMA PrefixElements ==
  ASSUME NEW S, NEW s \in Seq(S), NEW k \in 0..Len(s)
  PROVE  /\ SubSeq(s, 1, k) \in Seq(S)
         /\ ToSet(SubSeq(s, 1, k)) \subseteq ToSet(s)
         /\ Once(s) => Once(SubSeq(s, 1, k))
<1>1. Len(s) \in Nat /\ DOMAIN s = 1..Len(s) /\ \A i \in 1..k : s[i] \in S
  BY LenProperties
<1>2. /\ SubSeq(s, 1, k) \in Seq(S)
      /\ Len(SubSeq(s, 1, k)) = k
      /\ \A i \in 1..k : SubSeq(s, 1, k)[i] = s[i]
  BY <1>1, SubSeqProperties
<1>3. DOMAIN SubSeq(s, 1, k) = 1..k
  BY <1>2, LenProperties
<1> QED
  BY <1>1, <1>2, <1>3 DEF ToSet, Once

-----------------------------------------------------------------------------
(* The invariant, in parts.                                                *)

\* An entry is appended once: it is in flight or agreed on, at one place.
LogInv ==
  /\ flight \in Seq(Entry) /\ agreed \in Seq(Entry)
  /\ Once(flight) /\ Once(agreed)
  /\ ToSet(flight) \cap ToSet(agreed) = {}

Result == {"none", "waiting", "ok", "refused", "error"}

\* What has been submitted has been answered by more than a refusal.
AnswerInv ==
  /\ answer \in [Entry -> Result]
  /\ OkIsLogged
  /\ \A e \in Entry : answer[e] \in {"none", "refused"}
                        => e \notin ToSet(agreed) /\ e \notin ToSet(flight)

\* Only a voter leads.
LeaderInv ==
  /\ voters \in Voters
  /\ leader \in Node \cup {NoNode}
  /\ voters = {} => leader = NoNode
  /\ NobodyLeads

IsSnapshot(s) == s = [index |-> s.index, orders |-> s.orders, clean |-> s.clean]

\* What the replicas were given, and the snapshots hold, is agreed on.
ReplicaInv ==
  /\ applied \in [Node -> Nat]
  /\ fsm \in [Node -> {"idle", "applying", "capturing", "restoring", "looping"}]
  /\ saved = [n \in Node |-> saved[n]] /\ capture = [n \in Node |-> capture[n]]
  /\ \A n \in Node : /\ IsSnapshot(saved[n]) /\ IsSnapshot(capture[n])
                     /\ applied[n] \in 0..Len(agreed)
                     /\ saved[n].index \in 0..Len(agreed)
                     /\ capture[n].index \in 0..Len(agreed)
                     /\ fsm[n] = "applying" => applied[n] < Len(agreed)

\* Every stop order that is parked is an entry.
StopsInv == /\ stops \in [Node -> SUBSET Entry]
            /\ given \in [Node -> Nat]
            /\ tainted \subseteq Node

\* Who waits on node n, and who holds its read lock: they, and the FSM
\* goroutine if it never comes back.
WaitsOn(n, e) == e \in Entry /\ answer[e] = "waiting" /\ asked[e] = n

ReadersInv ==
  \A n \in Node : \A g : g \in mu[n].readers <=> \/ WaitsOn(n, g)
                                                 \/ g = FsmReader /\ fsm[n] = "looping"

\* Who waits for an entry that is in flight waits on the leader.
WaitersInv ==
  /\ asked \in [Entry -> Node \cup {NoNode}]
  /\ \A e \in Entry : /\ answer[e] = "waiting" => asked[e] \in Node
                      /\ answer[e] = "waiting" /\ e \in ToSet(flight)
                           => asked[e] = leader

LockState == [readers: SUBSET (Entry \cup {FsmReader}),
              writer: {NoWriter, Stopper, FsmWriter}]

WriterInv ==
  /\ mu \in [Node -> LockState]
  /\ life \in [Node -> {"up", "locked", "down", "hung"}]
  /\ \A n \in Node : /\ mu[n].writer = FsmWriter <=> fsm[n] = "restoring"
                     /\ life[n] = "locked" => mu[n] = Announce(Unlocked, Stopper)

NodesInv == LeaderInv /\ ReplicaInv /\ StopsInv
LockInv == ReadersInv /\ WaitersInv /\ WriterInv
RaftInv == LogInv /\ AnswerInv /\ NodesInv /\ LockInv

\* At first nothing is in flight, nobody waits and no lock is held.
LEMMA InitInvariant == Init => RaftInv
<1> SUFFICES ASSUME Init
             PROVE  RaftInv
  OBVIOUS
<1> USE DEF Init
<1>1. ToSet(<<>>) = {} /\ Len(<<>>) = 0
  BY DEF ToSet
<1>2. LogInv
  BY <1>1 DEF LogInv, Once
<1>3. AnswerInv
  BY <1>1 DEF AnswerInv, Result, OkIsLogged
<1>4. LeaderInv
  BY DEF LeaderInv, NobodyLeads
<1>5. ReplicaInv
  BY <1>1 DEF ReplicaInv, NoSnapshot, IsSnapshot
<1>6. StopsInv
  BY DEF StopsInv
<1>7. ReadersInv
  BY DEF ReadersInv, WaitsOn, Unlocked
<1>8. WaitersInv
  BY DEF WaitersInv
<1>9. WriterInv
  BY DEF WriterInv, LockState, Unlocked, NoWriter, Stopper, FsmWriter
<1> QED
  BY <1>2, <1>3, <1>4, <1>5, <1>6, <1>7, <1>8, <1>9
     DEF RaftInv, NodesInv, LockInv

-----------------------------------------------------------------------------
(* Every step keeps the log's part.                                        *)

\* An entry that is submitted is nowhere yet.
LEMMA SubmitKeepsLog ==
  ASSUME LogInv, AnswerInv, NEW n \in Node, NEW e \in Entry, Submit(n, e)
  PROVE  LogInv'
<1>1. /\ agreed' = agreed
      /\ flight' = flight \/ flight' = Append(flight, e)
  BY DEF Submit, clusterVars, boundVars, countVars
<1>2. e \notin ToSet(agreed) /\ e \notin ToSet(flight)
  BY DEF Submit, MayTry, AnswerInv
<1>3. CASE flight' = flight
  BY <1>1, <1>3 DEF LogInv, Once, ToSet
<1>4. CASE flight' = Append(flight, e)
  <2>1. /\ flight' \in Seq(Entry)
        /\ ToSet(flight') = ToSet(flight) \cup {e}
        /\ Once(flight')
    BY <1>2, <1>4, AppendElements DEF LogInv
  <2> QED
    BY <1>1, <1>2, <2>1 DEF LogInv
<1> QED
  BY <1>1, <1>3, <1>4

\* What a new leader keeps was in flight.
LEMMA ElectKeepsLog ==
  ASSUME LogInv, NEW n \in Node, Elect(n)
  PROVE  LogInv' /\ ToSet(flight') \subseteq ToSet(flight)
<1>1. PICK kept \in 0..Len(flight) : flight' = SubSeq(flight, 1, kept)
  BY DEF Elect
<1>2. /\ flight' \in Seq(Entry)
      /\ ToSet(flight') \subseteq ToSet(flight)
      /\ Once(flight')
  BY <1>1, PrefixElements DEF LogInv
<1>3. agreed' = agreed
  BY DEF Elect
<1> QED
  BY <1>2, <1>3 DEF LogInv

\* The first entry in flight is agreed on.
LEMMA AgreeKeepsLog ==
  ASSUME LogInv, Agree
  PROVE  /\ LogInv'
         /\ Head(flight) \in Entry
         /\ ToSet(agreed') = ToSet(agreed) \cup {Head(flight)}
         /\ ToSet(flight) = ToSet(flight') \cup {Head(flight)}
         /\ Len(agreed') = Len(agreed) + 1
<1>1. /\ flight # <<>> /\ flight' = Tail(flight)
      /\ agreed' = Append(agreed, Head(flight))
  BY DEF Agree
<1>2. /\ flight' \in Seq(Entry)
      /\ Head(flight) \in Entry
      /\ ToSet(flight) = ToSet(flight') \cup {Head(flight)}
      /\ Once(flight') /\ Head(flight) \notin ToSet(flight')
  BY <1>1, TailElements DEF LogInv
<1>3. Head(flight) \notin ToSet(agreed)
  BY <1>2 DEF LogInv
<1>4. /\ agreed' \in Seq(Entry)
      /\ ToSet(agreed') = ToSet(agreed) \cup {Head(flight)}
      /\ Once(agreed')
      /\ Len(agreed') = Len(agreed) + 1
  BY <1>1, <1>2, <1>3, AppendElements, AppendProperties DEF LogInv
<1>5. ToSet(flight') \cap ToSet(agreed') = {}
  BY <1>2, <1>4 DEF LogInv
<1>6. LogInv'
  BY <1>2, <1>4, <1>5 DEF LogInv, Once, ToSet
<1> QED
  BY <1>2, <1>4, <1>6

-----------------------------------------------------------------------------
(* The steps that touch neither the log nor an answer: what the library's  *)
(* FSM goroutine, cancels and Stop do on a node.                           *)

\* Such a step leaves these parts alone.
LEMMA ClusterFrame ==
  ASSUME RaftInv, UNCHANGED <<voters, leader, flight, agreed, answer, asked>>
  PROVE  LogInv' /\ AnswerInv' /\ LeaderInv' /\ WaitersInv'
<1>1. LogInv'
  BY DEF RaftInv, LogInv
<1>2. AnswerInv'
  BY DEF RaftInv, AnswerInv, OkIsLogged
<1>3. LeaderInv'
  BY DEF RaftInv, NodesInv, LeaderInv, NobodyLeads
<1>4. WaitersInv'
  BY DEF RaftInv, LockInv, WaitersInv
<1> QED
  BY <1>1, <1>2, <1>3, <1>4

\* A lock that stays, or is announced to a writer, stays in its shape.
LEMMA LockShapes ==
  ASSUME NEW m \in LockState, NEW g \in {Stopper, FsmWriter}, NEW r \in Entry \cup {FsmReader}
  PROVE  /\ Announce(m, g) \in LockState
         /\ Announce(m, g).readers = m.readers /\ Announce(m, g).writer = g
         /\ Unlock(m) \in LockState
         /\ Unlock(m).readers = m.readers /\ Unlock(m).writer = NoWriter
         /\ RLock(m, r) \in LockState
         /\ RLock(m, r).readers = m.readers \cup {r} /\ RLock(m, r).writer = m.writer
  BY DEF LockState, Announce, Unlock, RLock

\* The three writers of a lock are different.
LEMMA WritersDiffer ==
  NoWriter # Stopper /\ NoWriter # FsmWriter /\ Stopper # FsmWriter
  BY DEF NoWriter, Stopper, FsmWriter

\* An entry is not the FSM goroutine: its tries are numbered from one.
LEMMA ReadersDiffer == FsmReader \notin Entry
<1> SUFFICES ASSUME FsmReader \in Entry
             PROVE  FALSE
  OBVIOUS
<1>1. FsmReader.try \in 1..MaxTries
  BY DEF Entry
<1>2. FsmReader.try = 0
  BY DEF FsmReader
<1> QED
  BY <1>1, <1>2, RaftAssumption DEF RaftAssumption

\* Cancel,
LEMMA CancelKeeps ==
  ASSUME RaftInv, NEW n \in Node, NEW i \in DOMAIN book[n], Cancel(n, i)
  PROVE  RaftInv'
<1>1. /\ UNCHANGED <<voters, leader, flight, agreed, answer, asked>>
      /\ UNCHANGED <<life, mu, fsm, applied, given, stops, capture, saved>>
      /\ tainted' = tainted \cup {n}
  BY DEF Cancel, boundVars, callVars
<1>2. NodesInv'
  BY <1>1, ClusterFrame DEF RaftInv, NodesInv, ReplicaInv, StopsInv
<1>3. LockInv'
  BY <1>1, ClusterFrame DEF RaftInv, LockInv, ReadersInv, WaitsOn, WriterInv
<1> QED
  BY <1>1, <1>2, <1>3, ClusterFrame DEF RaftInv

\* FsmTakes: an entry is there to be applied,
LEMMA FsmTakesKeeps ==
  ASSUME RaftInv, NEW n \in Node, FsmTakes(n)
  PROVE  RaftInv'
<1>1. /\ UNCHANGED <<voters, leader, flight, agreed, answer, asked>>
      /\ UNCHANGED <<life, mu, applied, given, stops, capture, saved, tainted>>
      /\ fsm[n] = "idle" /\ applied[n] < Len(agreed)
      /\ fsm' = [fsm EXCEPT ![n] = "applying"]
  BY DEF FsmTakes, clusterVars, boundVars, callVars, replicaVars
<1>2. ReplicaInv' /\ StopsInv'
  BY <1>1 DEF RaftInv, NodesInv, ReplicaInv, StopsInv
<1>3. \A p \in Node : /\ fsm'[p] = "looping" <=> fsm[p] = "looping"
                      /\ fsm'[p] = "restoring" <=> fsm[p] = "restoring"
  BY <1>1 DEF RaftInv, NodesInv, ReplicaInv
<1>4. ReadersInv' /\ WriterInv'
  BY <1>1, <1>3 DEF RaftInv, LockInv, ReadersInv, WaitsOn, WriterInv
<1> QED
  BY <1>1, <1>2, <1>4, ClusterFrame DEF RaftInv, NodesInv, LockInv

\* FsmLoops: nobody writes, and the FSM goroutine becomes a reader,
LEMMA FsmLoopsKeeps ==
  ASSUME RaftInv, NEW n \in Node, FsmLoops(n)
  PROVE  RaftInv'
<1>1. /\ UNCHANGED <<voters, leader, flight, agreed, answer, asked>>
      /\ UNCHANGED <<life, applied, given, stops, capture, saved, tainted>>
      /\ fsm[n] = "applying" /\ mu[n].writer = NoWriter
      /\ fsm' = [fsm EXCEPT ![n] = "looping"]
      /\ mu' = [mu EXCEPT ![n] = RLock(@, FsmReader)]
  BY DEF FsmLoops, clusterVars, boundVars, callVars, replicaVars, ApplyGoesOn, CanRLock
<1>2. ReplicaInv' /\ StopsInv'
  BY <1>1 DEF RaftInv, NodesInv, ReplicaInv, StopsInv
<1>3. /\ fsm'[n] = "looping"
      /\ \A p \in Node \ {n} : fsm'[p] = fsm[p] /\ mu'[p] = mu[p]
      /\ mu'[n] = RLock(mu[n], FsmReader) /\ mu[n] \in LockState
      /\ mu' \in [Node -> LockState]
  BY <1>1, LockShapes DEF RaftInv, NodesInv, ReplicaInv, LockInv, WriterInv
<1>4. /\ mu'[n].writer = NoWriter
      /\ mu'[n].readers = mu[n].readers \cup {FsmReader}
  BY <1>1, <1>3, LockShapes
<1>5. ReadersInv'
  BY <1>1, <1>3, <1>4 DEF RaftInv, LockInv, ReadersInv, WaitsOn
<1>6. life[n] # "locked"
  BY <1>1, LockShapes, WritersDiffer
     DEF RaftInv, LockInv, WriterInv, Announce, Unlocked
<1>7. WriterInv'
  BY <1>1, <1>3, <1>4, <1>6, WritersDiffer DEF RaftInv, LockInv, WriterInv
<1> QED
  BY <1>1, <1>2, <1>5, <1>7, ClusterFrame DEF RaftInv, NodesInv, LockInv

\* SnapshotBegins, TakeSnapshot and Persist: a snapshot is as old as what was
\* applied,
LEMMA SnapshotKeeps ==
  ASSUME RaftInv, NEW n \in Node, SnapshotBegins(n) \/ TakeSnapshot(n) \/ Persist(n)
  PROVE  RaftInv'
<1>1. /\ UNCHANGED <<voters, leader, flight, agreed, answer, asked>>
      /\ UNCHANGED <<life, mu, applied, given, stops, tainted>>
      /\ \/ fsm' = fsm
         \/ fsm[n] = "idle" /\ fsm' = [fsm EXCEPT ![n] = "capturing"]
         \/ fsm[n] = "capturing" /\ fsm' = [fsm EXCEPT ![n] = "idle"]
  BY DEF SnapshotBegins, TakeSnapshot, Persist, clusterVars, boundVars, callVars,
         replicaVars
<1>2. /\ fsm' \in [Node -> {"idle", "applying", "capturing", "restoring", "looping"}]
      /\ \A p \in Node : /\ fsm'[p] = "looping" <=> fsm[p] = "looping"
                         /\ fsm'[p] = "restoring" <=> fsm[p] = "restoring"
                         /\ fsm'[p] = "applying" <=> fsm[p] = "applying"
  BY <1>1 DEF RaftInv, NodesInv, ReplicaInv
<1>3. ReplicaInv'
  <2>1. CASE SnapshotBegins(n)
    <3>1. UNCHANGED <<saved, capture>>
      BY <2>1 DEF SnapshotBegins
    <3> QED
      BY <1>1, <1>2, <3>1 DEF RaftInv, NodesInv, ReplicaInv
  <2>2. CASE TakeSnapshot(n)
    <3>1. /\ saved' = saved
          /\ capture' = [capture EXCEPT ![n] =
                           [index |-> applied[n], orders |-> book[n],
                            clean |-> n \notin tainted]]
      BY <2>2 DEF TakeSnapshot
    <3>2. /\ capture'[n].index = applied[n] /\ IsSnapshot(capture'[n])
          /\ \A p \in Node \ {n} : capture'[p] = capture[p]
          /\ capture' = [p \in Node |-> capture'[p]]
      BY <3>1 DEF RaftInv, NodesInv, ReplicaInv, IsSnapshot
    <3> QED
      BY <1>1, <1>2, <3>1, <3>2 DEF RaftInv, NodesInv, ReplicaInv
  <2>3. CASE Persist(n)
    <3> DEFINE asTaken == \A i \in DOMAIN capture[n].orders : capture[n].orders[i].left = 1
    <3>1. saved' = IF capture[n].index < saved[n].index THEN saved
                   ELSE [saved EXCEPT ![n] = [capture[n] EXCEPT !.clean = @ /\ asTaken]]
      BY <2>3 DEF Persist
    <3> HIDE DEF asTaken
    <3>2. IsSnapshot(saved[n]) /\ IsSnapshot(capture[n]) /\ saved = [p \in Node |-> saved[p]]
      BY DEF RaftInv, NodesInv, ReplicaInv
    <3> DEFINE new == [capture[n] EXCEPT !.clean = @ /\ asTaken]
    <3>3. IsSnapshot(new) /\ new.index = capture[n].index
      BY <3>2 DEF IsSnapshot
    <3> HIDE DEF new
    <3>4. /\ saved'[n] = IF capture[n].index < saved[n].index THEN saved[n] ELSE new
          /\ \A p \in Node \ {n} : saved'[p] = saved[p]
          /\ saved' = [p \in Node |-> saved'[p]]
      BY <3>1, <3>2 DEF new
    <3>5. saved'[n].index \in {saved[n].index, capture[n].index} /\ IsSnapshot(saved'[n])
      BY <3>2, <3>3, <3>4
    <3>6. /\ capture'[n].index = 0 /\ IsSnapshot(capture'[n])
          /\ \A p \in Node \ {n} : capture'[p] = capture[p]
          /\ capture' = [p \in Node |-> capture'[p]]
      BY <2>3 DEF Persist, NoSnapshot, IsSnapshot, RaftInv, NodesInv, ReplicaInv
    <3>7. Len(agreed) \in Nat
      BY LenProperties DEF RaftInv, LogInv
    <3>8. ASSUME NEW p \in Node
          PROVE  /\ IsSnapshot(saved'[p]) /\ IsSnapshot(capture'[p])
                 /\ saved'[p].index \in 0..Len(agreed)
                 /\ capture'[p].index \in 0..Len(agreed)
      <4>1. /\ IsSnapshot(saved[p]) /\ IsSnapshot(capture[p])
            /\ saved[p].index \in 0..Len(agreed)
            /\ capture[p].index \in 0..Len(agreed)
        BY DEF RaftInv, NodesInv, ReplicaInv
      <4>2. CASE p = n
        BY <3>5, <3>6, <3>7, <4>1, <4>2
      <4>3. CASE p # n
        BY <3>4, <3>6, <4>1, <4>3
      <4> QED
        BY <4>2, <4>3
    <3> QED
      BY <1>1, <1>2, <3>4, <3>6, <3>8 DEF RaftInv, NodesInv, ReplicaInv
  <2> QED
    BY <2>1, <2>2, <2>3
<1>4. StopsInv'
  BY <1>1 DEF RaftInv, NodesInv, StopsInv
<1>5. ReadersInv' /\ WriterInv'
  BY <1>1, <1>2 DEF RaftInv, LockInv, ReadersInv, WaitsOn, WriterInv
<1> QED
  BY <1>1, <1>3, <1>4, <1>5, ClusterFrame DEF RaftInv, NodesInv, LockInv

\* RestoreBegins: the leader's snapshot is of the agreed log, and the write lock
\* is announced,
LEMMA RestoreBeginsKeeps ==
  ASSUME RaftInv, NEW n \in Node, RestoreBegins(n)
  PROVE  RaftInv'
<1>1. /\ UNCHANGED <<voters, leader, flight, agreed, answer, asked>>
      /\ UNCHANGED <<life, applied, given, stops, capture, tainted>>
      /\ fsm[n] = "idle" /\ mu[n].writer = NoWriter
      /\ fsm' = [fsm EXCEPT ![n] = "restoring"]
      /\ mu' = [mu EXCEPT ![n] = Announce(@, FsmWriter)]
      /\ saved' = [saved EXCEPT ![n] = saved[leader]]
      /\ leader \in Node
  BY DEF RestoreBegins, clusterVars, boundVars, callVars, replicaVars, CanAnnounce,
         RaftInv, NodesInv, LeaderInv
<1>2. ReplicaInv' /\ StopsInv'
  BY <1>1 DEF RaftInv, NodesInv, ReplicaInv, StopsInv
<1>3. /\ fsm'[n] = "restoring"
      /\ \A p \in Node \ {n} : fsm'[p] = fsm[p] /\ mu'[p] = mu[p]
      /\ mu'[n] = Announce(mu[n], FsmWriter) /\ mu[n] \in LockState
      /\ mu' \in [Node -> LockState]
  BY <1>1, LockShapes DEF RaftInv, NodesInv, ReplicaInv, LockInv, WriterInv
<1>4. mu'[n].writer = FsmWriter /\ mu'[n].readers = mu[n].readers
  BY <1>3, LockShapes
<1>5. ReadersInv'
  BY <1>1, <1>3, <1>4 DEF RaftInv, LockInv, ReadersInv, WaitsOn
<1>6. life[n] # "locked"
  BY <1>1, LockShapes, WritersDiffer
     DEF RaftInv, LockInv, WriterInv, Announce, Unlocked
<1>7. WriterInv'
  BY <1>1, <1>3, <1>4, <1>6, WritersDiffer DEF RaftInv, LockInv, WriterInv
<1> QED
  BY <1>1, <1>2, <1>5, <1>7, ClusterFrame DEF RaftInv, NodesInv, LockInv

\* RestoreEnds: the write lock is given back,
LEMMA RestoreEndsKeeps ==
  ASSUME RaftInv, NEW n \in Node, RestoreEnds(n)
  PROVE  RaftInv'
<1>1. /\ UNCHANGED <<voters, leader, flight, agreed, answer, asked>>
      /\ UNCHANGED <<life, given, stops, capture, saved>>
      /\ fsm[n] = "restoring" /\ mu[n].writer = FsmWriter
      /\ fsm' = [fsm EXCEPT ![n] = "idle"]
      /\ mu' = [mu EXCEPT ![n] = Unlock(@)]
      /\ applied' = [applied EXCEPT ![n] = saved[n].index]
      /\ tainted' = tainted \ {n} \/ tainted' = tainted \cup {n}
  BY DEF RestoreEnds, clusterVars, boundVars, callVars, CanLock
<1>2. ReplicaInv'
  <2>1. /\ applied'[n] = saved[n].index /\ fsm'[n] = "idle"
        /\ \A p \in Node \ {n} : applied'[p] = applied[p] /\ fsm'[p] = fsm[p]
        /\ applied' = [p \in Node |-> applied'[p]]
        /\ fsm' \in [Node -> {"idle", "applying", "capturing", "restoring", "looping"}]
    BY <1>1 DEF RaftInv, NodesInv, ReplicaInv
  <2>2. /\ Len(agreed) \in Nat /\ saved[n].index \in 0..Len(agreed)
        /\ \A p \in Node : applied[p] \in Nat
    BY LenProperties DEF RaftInv, LogInv, NodesInv, ReplicaInv
  <2>3. applied' \in [Node -> Nat]
    BY <2>1, <2>2
  <2> QED
    BY <1>1, <2>1, <2>2, <2>3 DEF RaftInv, NodesInv, ReplicaInv
<1>3. StopsInv'
  BY <1>1 DEF RaftInv, NodesInv, StopsInv
<1>4. /\ fsm'[n] = "idle"
      /\ \A p \in Node \ {n} : fsm'[p] = fsm[p] /\ mu'[p] = mu[p]
      /\ mu'[n] = Unlock(mu[n]) /\ mu[n] \in LockState
      /\ mu' \in [Node -> LockState]
  BY <1>1, LockShapes DEF RaftInv, NodesInv, ReplicaInv, LockInv, WriterInv
<1>5. mu'[n].writer = NoWriter /\ mu'[n].readers = mu[n].readers
  BY <1>4, LockShapes
<1>6. ReadersInv'
  BY <1>1, <1>4, <1>5 DEF RaftInv, LockInv, ReadersInv, WaitsOn
<1>7. life[n] # "locked"
  BY <1>1, LockShapes, WritersDiffer
     DEF RaftInv, LockInv, WriterInv, Announce, Unlocked
<1>8. WriterInv'
  BY <1>1, <1>4, <1>5, <1>7, WritersDiffer DEF RaftInv, LockInv, WriterInv
<1> QED
  BY <1>1, <1>2, <1>3, <1>6, <1>8, ClusterFrame DEF RaftInv, NodesInv, LockInv

\* and Stop, which announces itself and then holds a lock without readers.
LEMMA StopKeeps ==
  ASSUME RaftInv, NEW n \in Node, StopBegins(n) \/ StopLocks(n)
  PROVE  RaftInv'
<1>1. /\ UNCHANGED <<voters, leader, flight, agreed, answer, asked>>
      /\ UNCHANGED <<fsm, applied, given, stops, capture, saved, tainted>>
  BY DEF StopBegins, StopLocks, clusterVars, boundVars, callVars, replicaVars
<1>2. ReplicaInv' /\ StopsInv'
  BY <1>1 DEF RaftInv, NodesInv, ReplicaInv, StopsInv
<1>3. CASE StopBegins(n)
  <2>1. /\ life' = life /\ life[n] = "up" /\ mu[n].writer = NoWriter
        /\ mu' = [mu EXCEPT ![n] = Announce(@, Stopper)]
    BY <1>3 DEF StopBegins, CanAnnounce
  <2>2. /\ \A p \in Node \ {n} : mu'[p] = mu[p]
        /\ mu'[n] = Announce(mu[n], Stopper) /\ mu[n] \in LockState
        /\ mu' \in [Node -> LockState]
    BY <2>1, LockShapes DEF RaftInv, LockInv, WriterInv
  <2>3. mu'[n].writer = Stopper /\ mu'[n].readers = mu[n].readers
    BY <2>2, LockShapes
  <2>4. ReadersInv'
    BY <1>1, <2>2, <2>3 DEF RaftInv, LockInv, ReadersInv, WaitsOn
  <2>5. WriterInv'
    BY <1>1, <2>1, <2>2, <2>3, WritersDiffer DEF RaftInv, LockInv, WriterInv
  <2> QED
    BY <1>1, <1>2, <2>4, <2>5, ClusterFrame DEF RaftInv, NodesInv, LockInv
<1>4. CASE StopLocks(n)
  <2>1. /\ mu' = mu /\ mu[n].writer = Stopper /\ mu[n].readers = {}
        /\ life' = [life EXCEPT ![n] = "locked"]
    BY <1>4 DEF StopLocks, CanLock
  <2>2. mu[n] = Announce(Unlocked, Stopper)
    <3>1. mu[n] \in LockState
      BY DEF RaftInv, LockInv, WriterInv
    <3>2. mu[n] = [readers |-> mu[n].readers, writer |-> mu[n].writer]
      BY <3>1 DEF LockState
    <3>3. mu[n] = [readers |-> {}, writer |-> Stopper]
      BY <2>1, <3>2, Zenon
    <3> QED BY <3>3 DEF Announce, Unlocked
  <2>3. ReadersInv'
    BY <1>1, <2>1 DEF RaftInv, LockInv, ReadersInv, WaitsOn
  <2>4. WriterInv'
    BY <1>1, <2>1, <2>2 DEF RaftInv, LockInv, WriterInv
  <2> QED
    BY <1>1, <1>2, <2>3, <2>4, ClusterFrame DEF RaftInv, NodesInv, LockInv
<1> QED
  BY <1>3, <1>4

-----------------------------------------------------------------------------
(* Elections.                                                              *)

\* The futures that fail are of entries in flight; who waits for them waits on
\* the leader, and gives its lock back.
LEMMA StepDownKeeps ==
  ASSUME RaftInv, StepDown, asked' = asked, UNCHANGED <<life, fsm>>
  PROVE  /\ answer' \in [Entry -> Result]
         /\ \A e \in Entry :
              IF answer[e] = "waiting" /\ e \in ToSet(flight)
                THEN answer'[e] = "error"
                ELSE answer'[e] = answer[e]
         /\ ReadersInv' /\ WriterInv'
<1>1. \A e \in Entry : answer[e] \in Result
  BY DEF RaftInv, AnswerInv
<1>2. /\ answer' \in [Entry -> Result]
      /\ \A e \in Entry :
           IF answer[e] = "waiting" /\ e \in ToSet(flight)
             THEN answer'[e] = "error"
             ELSE answer'[e] = answer[e]
  BY <1>1 DEF StepDown, Deposed, Result
<1> DEFINE Failed == {e \in Entry : Deposed[e] # answer[e]}
<1>3. \A e : e \in Failed <=> e \in Entry /\ answer[e] = "waiting" /\ e \in ToSet(flight)
  BY DEF Deposed
<1>4. \A e \in Failed : asked[e] = leader /\ leader \in Node
  BY <1>3 DEF RaftInv, LockInv, WaitersInv
<1>5. FsmReader \notin Failed
  BY <1>3, ReadersDiffer
<1>6. mu' = IF leader = NoNode THEN mu
                               ELSE [mu EXCEPT ![leader].readers = @ \ Failed]
  BY DEF StepDown, Released
<1> HIDE DEF Failed
<1>7. /\ mu' \in [Node -> LockState]
      /\ \A p \in Node : /\ mu'[p].writer = mu[p].writer
                         /\ mu'[p].readers = IF p = leader THEN mu[p].readers \ Failed
                                                           ELSE mu[p].readers
  <2>1. CASE leader = NoNode
    BY <1>6, <2>1, RaftAssumption DEF RaftInv, LockInv, WriterInv, RaftAssumption
  <2>2. CASE leader \in Node
    <3>1. leader # NoNode
      BY <2>2, RaftAssumption DEF RaftAssumption
    <3>2. mu' = [mu EXCEPT ![leader].readers = @ \ Failed]
      BY <1>6, <3>1
    <3> QED
      BY <2>2, <3>2 DEF RaftInv, LockInv, WriterInv, LockState
  <2> QED
    BY <2>1, <2>2 DEF RaftInv, NodesInv, LeaderInv
<1>8. \A p \in Node : life[p] = "locked" => mu'[p] = Announce(Unlocked, Stopper)
  <2> SUFFICES ASSUME NEW p \in Node, life[p] = "locked"
               PROVE  mu'[p] = Announce(Unlocked, Stopper)
    OBVIOUS
  <2>1. mu[p] = Announce(Unlocked, Stopper)
    BY DEF RaftInv, LockInv, WriterInv
  <2>2. mu'[p].writer = Stopper /\ mu'[p].readers = {} /\ mu'[p] \in LockState
    BY <1>7, <2>1, LockShapes, Stopper \in {Stopper, FsmWriter} DEF Announce, Unlocked
  <2> QED
    BY <2>2 DEF LockState, Announce, Unlocked
<1>9. ReadersInv'
  <2> SUFFICES ASSUME NEW p \in Node, NEW g
               PROVE  g \in mu'[p].readers <=> \/ WaitsOn(p, g)'
                                               \/ g = FsmReader /\ fsm[p] = "looping"
    BY DEF ReadersInv
  <2>1. g \in mu[p].readers <=> \/ WaitsOn(p, g)
                                \/ g = FsmReader /\ fsm[p] = "looping"
    BY DEF RaftInv, LockInv, ReadersInv
  <2>2. WaitsOn(p, g)' <=> WaitsOn(p, g) /\ g \notin Failed
    BY <1>2, <1>3 DEF WaitsOn
  <2>3. g \in Failed => asked[g] = leader
    BY <1>4
  <2>4. g \in mu'[p].readers <=> g \in mu[p].readers /\ ~(p = leader /\ g \in Failed)
    BY <1>7
  <2> QED
    BY <1>5, <2>1, <2>2, <2>3, <2>4 DEF WaitsOn
<1>10. WriterInv'
  BY <1>7, <1>8 DEF RaftInv, LockInv, WriterInv
<1> QED
  BY <1>2, <1>9, <1>10

\* LoseLeader, Elect: nobody waits for what is left in flight.
LEMMA ElectionKeeps ==
  ASSUME RaftInv, LoseLeader \/ \E n \in Node : Elect(n)
  PROVE  RaftInv'
<1>1. /\ UNCHANGED <<voters, agreed, asked, life, fsm, applied, given, stops, capture,
                     saved, tainted>>
      /\ StepDown
  BY DEF LoseLeader, Elect, boundVars, replicaVars
<1>2. LogInv' /\ ToSet(flight') \subseteq ToSet(flight)
  <2>1. CASE LoseLeader
    BY <2>1 DEF LoseLeader, RaftInv, LogInv, Once, ToSet
  <2>2. CASE \E n \in Node : Elect(n)
    BY <2>2, ElectKeepsLog DEF RaftInv
  <2> QED
    BY <2>1, <2>2
<1>3. /\ leader' \in Node \cup {NoNode}
      /\ voters = {} => leader' = NoNode
  BY DEF LoseLeader, Elect
<1>4. /\ answer' \in [Entry -> Result]
      /\ \A e \in Entry :
           IF answer[e] = "waiting" /\ e \in ToSet(flight)
             THEN answer'[e] = "error"
             ELSE answer'[e] = answer[e]
      /\ ReadersInv' /\ WriterInv'
  BY <1>1, StepDownKeeps
<1>5. AnswerInv'
  BY <1>1, <1>2, <1>4 DEF RaftInv, AnswerInv, OkIsLogged
<1>6. LeaderInv'
  BY <1>1, <1>3, <1>4 DEF RaftInv, NodesInv, LeaderInv, NobodyLeads
<1>7. WaitersInv'
  BY <1>1, <1>2, <1>4 DEF RaftInv, LockInv, WaitersInv
<1>8. ReplicaInv' /\ StopsInv'
  BY <1>1 DEF RaftInv, NodesInv, ReplicaInv, StopsInv
<1> QED
  BY <1>2, <1>4, <1>5, <1>6, <1>7, <1>8 DEF RaftInv, NodesInv, LockInv

\* Agree: what is agreed on was in flight, and no index points past the log.
LEMMA AgreeKeeps ==
  ASSUME RaftInv, Agree
  PROVE  RaftInv'
<1>1. /\ UNCHANGED <<voters, leader, answer, asked, life, mu, fsm, applied, given, stops,
                     capture, saved, tainted>>
  BY DEF Agree, boundVars, callVars, nodeVars, replicaVars
<1>2. /\ LogInv'
      /\ ToSet(agreed') = ToSet(agreed) \cup {Head(flight)}
      /\ ToSet(flight) = ToSet(flight') \cup {Head(flight)}
      /\ Len(agreed') = Len(agreed) + 1
  BY AgreeKeepsLog DEF RaftInv
<1>3. AnswerInv'
  BY <1>1, <1>2 DEF RaftInv, AnswerInv, OkIsLogged
<1>4. LeaderInv' /\ StopsInv'
  BY <1>1 DEF RaftInv, NodesInv, LeaderInv, NobodyLeads, StopsInv
<1>5. ReplicaInv'
  <2>1. Len(agreed) \in Nat
    BY LenProperties DEF RaftInv, LogInv
  <2>2. \A k \in 0..Len(agreed) : k \in 0..Len(agreed')
    BY <1>2, <2>1
  <2>3. \A p \in Node : applied[p] \in Nat /\ (applied[p] < Len(agreed) => applied[p] < Len(agreed'))
    BY <1>2, <2>1 DEF RaftInv, NodesInv, ReplicaInv
  <2> QED
    BY <1>1, <2>2, <2>3 DEF RaftInv, NodesInv, ReplicaInv
<1>6. WaitersInv'
  BY <1>1, <1>2 DEF RaftInv, LockInv, WaitersInv
<1>7. ReadersInv' /\ WriterInv'
  BY <1>1 DEF RaftInv, LockInv, ReadersInv, WaitsOn, WriterInv
<1> QED
  BY <1>2, <1>3, <1>4, <1>5, <1>6, <1>7 DEF RaftInv, NodesInv, LockInv
-----------------------------------------------------------------------------
(* What answers a submitter, or lets it wait.                              *)

\* Submit: the entry is new, and its submitter waits on the leader or is refused.
LEMMA SubmitKeeps ==
  ASSUME RaftInv, NEW n \in Node, NEW e \in Entry, Submit(n, e)
  PROVE  RaftInv'
<1>1. /\ UNCHANGED <<voters, leader, agreed, life, fsm, applied, given, stops, capture,
                     saved, tainted>>
      /\ answer[e] = "none" /\ life[n] = "up" /\ mu[n].writer = NoWriter
  BY DEF Submit, boundVars, replicaVars, MayTry, CanRLock
<1>2. LogInv'
  BY SubmitKeepsLog DEF RaftInv
<1>3. StopsInv' /\ ReplicaInv'
  BY <1>1 DEF RaftInv, NodesInv, ReplicaInv, StopsInv
<1>4. CASE leader # n
  <2>1. /\ UNCHANGED <<asked, flight, mu>>
        /\ answer' = [answer EXCEPT ![e] = "refused"]
    BY <1>4 DEF Submit
  <2>2. AnswerInv'
    BY <1>1, <2>1 DEF RaftInv, AnswerInv, Result, OkIsLogged
  <2>3. LeaderInv'
    BY <1>1, <2>1 DEF RaftInv, NodesInv, LeaderInv, NobodyLeads, AnswerInv
  <2>4. \A f \in Entry : answer'[f] = "waiting" <=> answer[f] = "waiting"
    BY <1>1, <2>1 DEF RaftInv, AnswerInv
  <2>5. LockInv'
    BY <1>1, <2>1, <2>4
       DEF RaftInv, LockInv, ReadersInv, WaitsOn, WaitersInv, WriterInv
  <2> QED
    BY <1>2, <1>3, <2>2, <2>3, <2>5 DEF RaftInv, NodesInv
<1>5. CASE leader = n
  <2>1. /\ asked' = [asked EXCEPT ![e] = n]
        /\ flight' = Append(flight, e)
        /\ answer' = [answer EXCEPT ![e] = "waiting"]
        /\ mu' = [mu EXCEPT ![n] = RLock(@, e)]
    BY <1>5 DEF Submit
  <2>2. ToSet(flight') = ToSet(flight) \cup {e}
    BY <2>1, AppendElements DEF RaftInv, LogInv
  <2>3. AnswerInv'
    BY <1>1, <2>1, <2>2 DEF RaftInv, AnswerInv, Result, OkIsLogged
  <2>4. LeaderInv'
    BY <1>1, <1>5, RaftAssumption
       DEF RaftAssumption, RaftInv, NodesInv, LeaderInv, NobodyLeads
  <2>5. WaitersInv'
    BY <1>1, <1>5, <2>1, <2>2 DEF RaftInv, LockInv, WaitersInv, AnswerInv
  <2>6. /\ \A p \in Node \ {n} : mu'[p] = mu[p]
        /\ mu'[n] = RLock(mu[n], e) /\ mu[n] \in LockState
        /\ mu' \in [Node -> LockState]
    BY <2>1, LockShapes DEF RaftInv, LockInv, WriterInv
  <2>7. mu'[n].writer = NoWriter /\ mu'[n].readers = mu[n].readers \cup {e}
    <3>1. /\ RLock(mu[n], e).readers = mu[n].readers \cup {e}
          /\ RLock(mu[n], e).writer = mu[n].writer
      BY <2>6 DEF RLock, LockState
    <3> QED BY <1>1, <2>6, <3>1, Zenon
  <2>8. ReadersInv'
    <3> SUFFICES ASSUME NEW p \in Node, NEW g
                 PROVE  g \in mu'[p].readers <=> \/ WaitsOn(p, g)'
                                                 \/ g = FsmReader /\ fsm[p] = "looping"
      BY <1>1 DEF ReadersInv
    <3>1. g \in mu[p].readers <=> \/ WaitsOn(p, g)
                                  \/ g = FsmReader /\ fsm[p] = "looping"
      BY DEF RaftInv, LockInv, ReadersInv
    <3>2. \A f \in Entry : /\ answer'[f] = IF f = e THEN "waiting" ELSE answer[f]
                           /\ asked'[f] = IF f = e THEN n ELSE asked[f]
      BY <2>1 DEF RaftInv, AnswerInv, LockInv, WaitersInv
    <3>3. WaitsOn(p, g)' <=> WaitsOn(p, g) \/ (g = e /\ p = n)
      BY <1>1, <3>2 DEF WaitsOn
    <3>4. g \in mu'[p].readers <=> g \in mu[p].readers \/ (g = e /\ p = n)
      <4>1. CASE p = n
        BY <2>7, <4>1
      <4>2. CASE p # n
        BY <2>6, <4>2
      <4> QED
        BY <4>1, <4>2
    <3> QED
      BY <3>1, <3>3, <3>4 DEF WaitsOn
  <2>9. WriterInv'
    BY <1>1, <2>6, <2>7, WritersDiffer DEF RaftInv, LockInv, WriterInv
  <2> QED
    BY <1>2, <1>3, <2>3, <2>4, <2>5, <2>8, <2>9 DEF RaftInv, NodesInv, LockInv
<1> QED
  BY <1>4, <1>5

\* FsmApplies: what is applied is agreed on, and was not refused.
LEMMA FsmAppliesKeeps ==
  ASSUME RaftInv, NEW n \in Node, FsmApplies(n)
  PROVE  RaftInv'
<1> DEFINE entry == Upcoming(n)
           mine == answer[entry] = "waiting" /\ asked[entry] = n
           id == [by |-> n, nth |-> given[n] + 1]
           old == [book |-> book[n], stops |-> stops[n]]
<1>1. /\ UNCHANGED <<voters, leader, flight, agreed, asked, life, saved, tainted>>
      /\ fsm[n] = "applying" /\ mu[n].writer = NoWriter
      /\ fsm' = [fsm EXCEPT ![n] = "idle"]
      /\ applied' = [applied EXCEPT ![n] = @ + 1]
      /\ answer' = IF mine THEN [answer EXCEPT ![entry] = "ok"] ELSE answer
      /\ mu' = IF mine THEN [mu EXCEPT ![n].readers = @ \ {entry}] ELSE mu
      /\ stops' = [stops EXCEPT ![n] = Process(old, entry, id).stops]
      /\ given' = [given EXCEPT ![n] = @ + 1]
      /\ capture' = [capture EXCEPT ![n].orders = AfterFills(@, Fills(n, entry))]
  BY DEF FsmApplies, clusterVars, boundVars, ApplyGoesOn, CanRLock, Released
<1>2. entry \in Entry /\ entry \in ToSet(agreed)
  <2>1. applied[n] \in Nat /\ applied[n] < Len(agreed)
    BY <1>1 DEF RaftInv, NodesInv, ReplicaInv
  <2>2. Len(agreed) \in Nat /\ DOMAIN agreed = 1..Len(agreed) /\ agreed \in Seq(Entry)
    BY LenProperties DEF RaftInv, LogInv
  <2>3. applied[n] + 1 \in DOMAIN agreed
    BY <2>1, <2>2
  <2> QED
    BY <2>2, <2>3, ElementOfSeq DEF Upcoming, ToSet
<1>3. LogInv'
  BY <1>1 DEF RaftInv, LogInv
<1>4. StopsInv'
  <2>1. KindOf[entry.order] \in {"maker", "taker", "stop"}
    BY <1>2, RaftAssumption DEF RaftAssumption, Entry
  <2>2. stops[n] \subseteq Entry
    BY DEF RaftInv, NodesInv, StopsInv
  <2>3. \/ Process(old, entry, id).stops = stops[n]
        \/ Process(old, entry, id).stops = stops[n] \cup {entry}
    BY <2>1 DEF Process
  <2>4. Process(old, entry, id).stops \subseteq Entry
    BY <1>2, <2>2, <2>3
  <2> QED
    BY <1>1, <2>4 DEF RaftInv, NodesInv, StopsInv
<1> HIDE DEF entry, old, id
<1>5. ReplicaInv'
  <2>1. /\ applied'[n] = applied[n] + 1 /\ fsm'[n] = "idle"
        /\ \A p \in Node \ {n} : applied'[p] = applied[p] /\ fsm'[p] = fsm[p]
        /\ applied' = [p \in Node |-> applied'[p]]
        /\ fsm' \in [Node -> {"idle", "applying", "capturing", "restoring", "looping"}]
    BY <1>1 DEF RaftInv, NodesInv, ReplicaInv
  <2>2. /\ Len(agreed) \in Nat /\ applied[n] < Len(agreed)
        /\ \A p \in Node : applied[p] \in Nat
    BY <1>1, LenProperties DEF RaftInv, LogInv, NodesInv, ReplicaInv
  <2>3. applied[n] + 1 \in 0..Len(agreed) /\ applied[n] + 1 \in Nat
    BY <2>2
  <2>4. applied' \in [Node -> Nat]
    BY <2>1, <2>2, <2>3
  <2>5. IsSnapshot(capture[n]) /\ capture = [p \in Node |-> capture[p]]
    BY DEF RaftInv, NodesInv, ReplicaInv
  <2>6. /\ capture' = [p \in Node |-> capture'[p]]
        /\ capture'[n] = [capture[n] EXCEPT !.orders = AfterFills(@, Fills(n, entry))]
        /\ \A p \in Node \ {n} : capture'[p] = capture[p]
    BY <1>1, <2>5
  <2>7. IsSnapshot(capture'[n]) /\ capture'[n].index = capture[n].index
    BY <2>5, <2>6 DEF IsSnapshot
  <2> QED
    BY <1>1, <2>1, <2>3, <2>4, <2>6, <2>7 DEF RaftInv, NodesInv, ReplicaInv
<1>6. /\ fsm'[n] = "idle"
      /\ \A p \in Node \ {n} : fsm'[p] = fsm[p]
  BY <1>1 DEF RaftInv, NodesInv, ReplicaInv
<1>7. /\ answer' \in [Entry -> Result]
      /\ \A f \in Entry : answer'[f] = IF mine /\ f = entry THEN "ok" ELSE answer[f]
  BY <1>1, <1>2 DEF RaftInv, AnswerInv, Result
<1>8. AnswerInv'
  BY <1>1, <1>2, <1>7 DEF RaftInv, AnswerInv, OkIsLogged
<1>9. LeaderInv'
  BY <1>1, <1>2, <1>7 DEF RaftInv, NodesInv, LeaderInv, NobodyLeads
<1>10. WaitersInv'
  BY <1>1, <1>7 DEF RaftInv, LockInv, WaitersInv
<1>11. /\ mu' \in [Node -> LockState]
       /\ \A p \in Node :
            /\ mu'[p].writer = mu[p].writer
            /\ mu'[p].readers = IF p = n /\ mine THEN mu[p].readers \ {entry}
                                                 ELSE mu[p].readers
  <2>1. mu \in [Node -> LockState]
    BY DEF RaftInv, LockInv, WriterInv
  <2>2. CASE mine
    <3>1. mu' = [mu EXCEPT ![n].readers = @ \ {entry}]
      BY <1>1, <2>2
    <3> QED
      BY <2>1, <2>2, <3>1 DEF LockState
  <2>3. CASE ~mine
    BY <1>1, <2>1, <2>3
  <2> QED
    BY <2>2, <2>3
<1>12. ReadersInv'
  <2> SUFFICES ASSUME NEW p \in Node, NEW g
               PROVE  g \in mu'[p].readers <=> \/ WaitsOn(p, g)'
                                               \/ g = FsmReader /\ fsm'[p] = "looping"
    BY DEF ReadersInv
  <2>1. g \in mu[p].readers <=> \/ WaitsOn(p, g)
                                \/ g = FsmReader /\ fsm[p] = "looping"
    BY DEF RaftInv, LockInv, ReadersInv
  <2>2. WaitsOn(p, g)' <=> WaitsOn(p, g) /\ ~(mine /\ g = entry)
    BY <1>1, <1>7 DEF WaitsOn
  <2>3. g \in mu'[p].readers <=> g \in mu[p].readers /\ ~(p = n /\ mine /\ g = entry)
    BY <1>11
  <2>4. fsm'[p] = "looping" <=> fsm[p] = "looping"
    BY <1>1, <1>6
  <2>5. mine /\ g = entry /\ WaitsOn(p, g) => p = n
    BY DEF WaitsOn
  <2>6. mine /\ g = entry => g # FsmReader
    BY <1>2, ReadersDiffer
  <2> QED
    BY <2>1, <2>2, <2>3, <2>4, <2>5, <2>6 DEF WaitsOn
<1>13. WriterInv'
  <2>1. life[n] # "locked"
    BY <1>1, LockShapes, WritersDiffer
       DEF RaftInv, LockInv, WriterInv, Announce, Unlocked
  <2>2. \A p \in Node \ {n} : mu'[p] = mu[p]
    BY <1>1 DEF RaftInv, LockInv, WriterInv
  <2> QED
    BY <1>1, <1>6, <1>11, <2>1, <2>2, WritersDiffer DEF RaftInv, LockInv, WriterInv
<1> QED
  BY <1>3, <1>4, <1>5, <1>8, <1>9, <1>10, <1>12, <1>13
     DEF RaftInv, NodesInv, LockInv

\* StopReturns: nobody waits on a node whose engine is locked,
LEMMA StopReturnsKeeps ==
  ASSUME RaftInv, NEW n \in Node, StopReturns(n)
  PROVE  RaftInv'
<1>1. /\ UNCHANGED <<voters, flight, agreed, answer, asked, fsm, applied, given, stops,
                     capture, saved, tainted>>
      /\ life[n] = "locked" /\ fsm[n] = "idle"
      /\ life' = [life EXCEPT ![n] = "down"]
      /\ mu' = [mu EXCEPT ![n] = Unlock(@)]
      /\ leader' = IF leader = n THEN NoNode ELSE leader
  BY DEF StopReturns, boundVars, callVars, replicaVars
<1>2. LogInv' /\ AnswerInv'
  BY <1>1 DEF RaftInv, LogInv, AnswerInv, OkIsLogged
<1>3. LeaderInv' /\ StopsInv' /\ ReplicaInv'
  BY <1>1 DEF RaftInv, NodesInv, LeaderInv, NobodyLeads, StopsInv, ReplicaInv
<1>4. mu[n] \in LockState /\ mu[n].readers = {}
  BY <1>1 DEF RaftInv, LockInv, WriterInv, Announce, Unlocked
<1>5. \A e \in Entry : ~WaitsOn(n, e)
  BY <1>4 DEF RaftInv, LockInv, ReadersInv
<1>6. WaitersInv'
  BY <1>1, <1>5 DEF RaftInv, LockInv, WaitersInv, WaitsOn
<1>7. /\ \A p \in Node \ {n} : mu'[p] = mu[p] /\ life'[p] = life[p]
      /\ mu'[n].writer = NoWriter /\ mu'[n].readers = mu[n].readers
      /\ mu' \in [Node -> LockState]
      /\ life'[n] = "down"
      /\ life' \in [Node -> {"up", "locked", "down", "hung"}]
  BY <1>1, <1>4, LockShapes DEF RaftInv, LockInv, WriterInv
<1>8. ReadersInv'
  BY <1>1, <1>7 DEF RaftInv, LockInv, ReadersInv, WaitsOn
<1>9. WriterInv'
  BY <1>1, <1>7, WritersDiffer DEF RaftInv, LockInv, WriterInv
<1> QED
  BY <1>2, <1>3, <1>6, <1>8, <1>9 DEF RaftInv, NodesInv, LockInv

\* and Restart: those who waited on the node got an error.
LEMMA RestartKeeps ==
  ASSUME RaftInv, NEW n \in Node, Restart(n)
  PROVE  RaftInv'
<1>1. /\ UNCHANGED <<voters, flight, agreed, asked, given, saved>>
      /\ life' = [life EXCEPT ![n] = IF saved[n] = NoSnapshot THEN "up" ELSE "hung"]
      /\ leader' = IF leader = n THEN NoNode ELSE leader
      /\ answer' = [e \in Entry |-> IF answer[e] = "waiting" /\ asked[e] = n THEN "error"
                                    ELSE answer[e]]
      /\ mu' = [mu EXCEPT ![n] = Unlocked]
      /\ fsm' = [fsm EXCEPT ![n] = "idle"]
      /\ applied' = [applied EXCEPT ![n] = 0]
      /\ stops' = [stops EXCEPT ![n] = {}]
      /\ capture' = [capture EXCEPT ![n] = NoSnapshot]
      /\ tainted' = tainted \ {n}
  BY DEF Restart, boundVars
<1>2. LogInv'
  BY <1>1 DEF RaftInv, LogInv
<1>3. AnswerInv'
  BY <1>1 DEF RaftInv, AnswerInv, OkIsLogged, Result
<1>4. LeaderInv' /\ StopsInv'
  BY <1>1 DEF RaftInv, NodesInv, LeaderInv, NobodyLeads, StopsInv
<1>5. ReplicaInv'
  <2>1. /\ applied'[n] = 0 /\ fsm'[n] = "idle" /\ capture'[n].index = 0
        /\ IsSnapshot(capture'[n])
        /\ \A p \in Node \ {n} : /\ applied'[p] = applied[p] /\ fsm'[p] = fsm[p]
                                 /\ capture'[p] = capture[p]
        /\ capture' = [p \in Node |-> capture'[p]]
        /\ applied' \in [Node -> Nat]
        /\ fsm' \in [Node -> {"idle", "applying", "capturing", "restoring", "looping"}]
    BY <1>1 DEF RaftInv, NodesInv, ReplicaInv, NoSnapshot, IsSnapshot
  <2>2. 0 \in 0..Len(agreed)
    BY LenProperties DEF RaftInv, LogInv
  <2> QED
    BY <1>1, <2>1, <2>2 DEF RaftInv, NodesInv, ReplicaInv
<1>6. WaitersInv'
  BY <1>1 DEF RaftInv, LockInv, WaitersInv
<1>7. /\ \A p \in Node \ {n} : /\ mu'[p] = mu[p] /\ life'[p] = life[p]
                               /\ fsm'[p] = fsm[p]
      /\ mu'[n].writer = NoWriter /\ mu'[n].readers = {} /\ fsm'[n] = "idle"
      /\ mu' \in [Node -> LockState]
      /\ life'[n] \in {"up", "hung"}
      /\ life' \in [Node -> {"up", "locked", "down", "hung"}]
  BY <1>1 DEF RaftInv, NodesInv, ReplicaInv, LockInv, WriterInv, LockState, Unlocked
<1>8. \A p \in Node : \A g : WaitsOn(p, g)' <=> WaitsOn(p, g) /\ p # n
  BY <1>1 DEF WaitsOn
<1>9. ReadersInv'
  BY <1>7, <1>8 DEF RaftInv, LockInv, ReadersInv, WaitsOn
<1>10. WriterInv'
  BY <1>1, <1>7, WritersDiffer DEF RaftInv, LockInv, WriterInv
<1> QED
  BY <1>2, <1>3, <1>4, <1>5, <1>6, <1>9, <1>10 DEF RaftInv, NodesInv, LockInv

-----------------------------------------------------------------------------
(* The theorems.                                                           *)

\* Every step of the nodes, their clients and the library keeps the invariant
\* of the log, the answers, the replicas and the locks (node.go, engine.go).
THEOREM RaftStepInvariant == RaftInv /\ [Next]_vars => RaftInv'
<1> SUFFICES ASSUME RaftInv, [Next]_vars
             PROVE  RaftInv'
  OBVIOUS
<1>1. CASE LoseLeader \/ \E n \in Node : Elect(n)
  BY <1>1, ElectionKeeps
<1>2. CASE Agree
  BY <1>2, AgreeKeeps
<1>3. CASE \E n \in Node : \E e \in Entry : Submit(n, e)
  BY <1>3, SubmitKeeps
<1>4. CASE \E n \in Node : \E i \in DOMAIN book[n] : Cancel(n, i)
  BY <1>4, CancelKeeps
<1>5. CASE \E n \in Node : Applying(n)
  BY <1>5, FsmTakesKeeps, FsmAppliesKeeps, FsmLoopsKeeps, SnapshotKeeps,
     RestoreEndsKeeps DEF Applying
<1>6. CASE \E n \in Node : SnapshotBegins(n) \/ Persist(n) \/ RestoreBegins(n)
  BY <1>6, SnapshotKeeps, RestoreBeginsKeeps
<1>7. CASE \E n \in Node : StopBegins(n) \/ StopLocks(n) \/ StopReturns(n) \/ Restart(n)
  BY <1>7, StopKeeps, StopReturnsKeeps, RestartKeeps
<1>8. CASE UNCHANGED vars
  <2>1. /\ UNCHANGED <<voters, leader, flight, agreed, answer, asked>>
        /\ UNCHANGED <<life, mu, fsm, applied, given, stops, capture, saved, tainted>>
    BY <1>8 DEF vars, clusterVars, boundVars, callVars, nodeVars, replicaVars
  <2>2. NodesInv'
    BY <2>1, ClusterFrame DEF RaftInv, NodesInv, ReplicaInv, StopsInv
  <2>3. LockInv'
    BY <2>1, ClusterFrame DEF RaftInv, LockInv, ReadersInv, WaitsOn, WriterInv
  <2> QED
    BY <2>1, <2>2, <2>3, ClusterFrame DEF RaftInv
<1> QED
  BY <1>1, <1>2, <1>3, <1>4, <1>5, <1>6, <1>7, <1>8 DEF Next

\* It holds all the time.
THEOREM AlwaysRaftInv == Spec => []RaftInv
BY InitInvariant, RaftStepInvariant, PTL DEF Spec

\* The values of the variables, and the locks: a node's read lock is held by
\* those who wait for the log on it, by its looping FSM goroutine and by nobody
\* else, and an engine that Stop has locked has no reader (engine.go 164, 216).
LEMMA InvariantTypes == RaftInv => TypeOK
<1> SUFFICES ASSUME RaftInv
             PROVE  TypeOK
  OBVIOUS
<1>1. ASSUME NEW n \in Node
      PROVE  /\ applied[n] \in 0..Len(agreed)
             /\ given[n] \in Nat
             /\ stops[n] \subseteq Entry
             /\ mu[n].writer \in {NoWriter, Stopper, FsmWriter}
             /\ mu[n].writer = FsmWriter <=> fsm[n] = "restoring"
             /\ life[n] = "locked" => mu[n] = Announce(Unlocked, Stopper)
  BY DEF RaftInv, NodesInv, ReplicaInv, StopsInv, LockInv, WriterInv, LockState
<1>2. ASSUME NEW n \in Node
      PROVE  mu[n].readers = {e \in Entry : answer[e] = "waiting" /\ asked[e] = n}
                               \cup (IF fsm[n] = "looping" THEN {FsmReader} ELSE {})
  <2>1. \A g : g \in mu[n].readers <=> \/ WaitsOn(n, g)
                                       \/ g = FsmReader /\ fsm[n] = "looping"
    BY DEF RaftInv, LockInv, ReadersInv
  <2> QED
    BY <2>1 DEF WaitsOn
<1>3. /\ voters \in Voters /\ leader \in Node \cup {NoNode}
      /\ flight \in Seq(Entry) /\ agreed \in Seq(Entry)
      /\ answer \in [Entry -> {"none", "waiting", "ok", "refused", "error"}]
      /\ life \in [Node -> {"up", "locked", "down", "hung"}]
      /\ fsm \in [Node -> {"idle", "applying", "capturing", "restoring", "looping"}]
      /\ tainted \subseteq Node
  BY DEF RaftInv, LogInv, AnswerInv, Result, NodesInv, LeaderInv, ReplicaInv, StopsInv,
         LockInv, WriterInv
<1> QED
  BY <1>1, <1>2, <1>3 DEF TypeOK

\* So the locks of a node in Raft mode are held as TypeOK says, at every moment.
THEOREM RaftTypeOK == Spec => []TypeOK
BY AlwaysRaftInv, InvariantTypes, PTL

\* There are finitely many tries of an order.
LEMMA TriesAreFinite ==
  ASSUME NEW o, NEW results
  PROVE  IsFiniteSet(Tries(o, results))
<1> DEFINE T == Tries(o, results)
           try == [e \in T |-> e.try]
<1>1. \A e \in T : e \in Entry /\ e.order = o
  BY DEF Tries
<1>2. try \in Injection(T, 1..MaxTries)
  <2>1. try \in [T -> 1..MaxTries]
    BY <1>1 DEF Entry
  <2>2. \A e, f \in T : try[e] = try[f] => e = f
    BY <1>1 DEF Entry
  <2> QED
    BY <2>1, <2>2, Fun_IsInj
<1>3. IsFiniteSet(1..MaxTries)
  BY FS_Interval, RaftAssumption DEF RaftAssumption
<1> QED
  BY <1>2, <1>3, FS_Injection

\* Different places of the log hold different tries, all of them answered by
\* something else than a refusal, or waiting.
LEMMA LoggedWereTried == RaftInv => OnlyTriesAreLogged
<1> SUFFICES ASSUME RaftInv, NEW o \in OrderName
             PROVE  Cardinality(Occurrences(o))
                      <= Cardinality(Tries(o, {"ok", "error", "waiting"}))
  BY DEF OnlyTriesAreLogged
<1> DEFINE T == Tries(o, {"ok", "error", "waiting"})
           O == Occurrences(o)
           entryAt == [i \in O |-> agreed[i]]
<1>1. \A i \in DOMAIN agreed : agreed[i] \in Entry /\ agreed[i] \in ToSet(agreed)
  BY LenProperties, ElementOfSeq DEF RaftInv, LogInv, ToSet
<1>2. \A i \in O : agreed[i] \in T
  <2>1. \A e \in Entry : e \in ToSet(agreed) => answer[e] \in {"ok", "error", "waiting"}
    BY DEF RaftInv, AnswerInv, Result
  <2> QED
    BY <1>1, <2>1 DEF Occurrences, Tries
<1>3. \A i, j \in O : agreed[i] = agreed[j] => i = j
  BY DEF Occurrences, RaftInv, LogInv, Once
<1>4. entryAt \in Injection(O, T)
  BY <1>2, <1>3, Fun_IsInj
<1> QED
  BY <1>4, TriesAreFinite, FS_Injection

\* What SubmitOrder answers in Raft mode is true whatever the nodes, elections,
\* restarts and snapshots: ok, refusals, and how often an order can be in the
\* log (node.go 276 to 302).
THEOREM AnswersAlwaysTrue == Spec => []AnswersAreTrue
<1>1. RaftInv => AnswersAreTrue
  <2> SUFFICES ASSUME RaftInv
               PROVE  AnswersAreTrue
    OBVIOUS
  <2>1. OkIsLogged /\ RefusedIsNever
    BY DEF RaftInv, AnswerInv, OkIsLogged, RefusedIsNever
  <2>2. NobodyLeads
    BY DEF RaftInv, NodesInv, LeaderInv
  <2> QED
    BY <2>1, <2>2, LoggedWereTried DEF AnswersAreTrue
<1> QED
  BY <1>1, AlwaysRaftInv, PTL

-----------------------------------------------------------------------------
(* What the log makes of a replica.                                        *)

\* A resting order; in a replay it has no id, and is whole.
Id == [by : Node, nth : Nat] \cup {NoId}
RestingOrder == [id : Id, entry : Entry, left : {0, 1}]
LoggedOrder == [id : {NoId}, entry : Entry, left : {1}]

Replica == [book : Seq(LoggedOrder), stops : SUBSET Entry]

EmptyReplica == [book |-> <<>>, stops |-> {}]

ReplayOf(q) == FoldLeft(Logged, EmptyReplica, q)

\* The stop orders of a log.
StopsOf(q) == {q[j] : j \in {i \in DOMAIN q : KindOf[q[i].order] = "stop"}}

\* What one order does to a replica: to the book,
BookAfter(b, e, id) == CASE KindOf[e.order] = "maker" -> Append(b, Rests(e, id))
                         [] KindOf[e.order] = "taker" -> IF b = <<>> THEN b ELSE Tail(b)
                         [] KindOf[e.order] = "stop" -> b

\* and to the stop orders.
StopsAfter(s, e) == IF KindOf[e.order] = "stop" THEN s \cup {e} ELSE s

\* Neither depends on the other.
LEMMA ProcessShape ==
  ASSUME NEW b, NEW s, NEW e \in Entry, NEW id
  PROVE  Process([book |-> b, stops |-> s], e, id)
           = [book |-> BookAfter(b, e, id), stops |-> StopsAfter(s, e)]
<1>1. KindOf[e.order] \in {"maker", "taker", "stop"}
  BY RaftAssumption DEF RaftAssumption, Entry
<1>2. CASE KindOf[e.order] = "maker"
  BY <1>2 DEF Process, BookAfter, StopsAfter
<1>3. CASE KindOf[e.order] = "taker"
  BY <1>3 DEF Process, BookAfter, StopsAfter
<1>4. CASE KindOf[e.order] = "stop"
  BY <1>4 DEF Process, BookAfter, StopsAfter
<1> QED BY <1>1, <1>2, <1>3, <1>4

\* A book stays one, of whatever orders it is made of.
LEMMA BookAfterKeeps ==
  ASSUME NEW S, NEW b \in Seq(S), NEW e \in Entry, NEW id, Rests(e, id) \in S
  PROVE  BookAfter(b, e, id) \in Seq(S)
<1>1. KindOf[e.order] \in {"maker", "taker", "stop"}
  BY RaftAssumption DEF RaftAssumption, Entry
<1>2. Append(b, Rests(e, id)) \in Seq(S)
  OBVIOUS
<1>3. b # <<>> => Tail(b) \in Seq(S)
  OBVIOUS
<1> QED BY <1>1, <1>2, <1>3 DEF BookAfter

\* A replica stays one.
LEMMA LoggedKeeps ==
  ASSUME NEW v \in Replica, NEW e \in Entry
  PROVE  /\ Logged(v, e) \in Replica
         /\ Logged(v, e).stops = StopsAfter(v.stops, e)
         /\ Logged(v, e).book = BookAfter(v.book, e, NoId)
<1> DEFINE b == v.book
           s == v.stops
<1>1. v = [book |-> b, stops |-> s] /\ b \in Seq(LoggedOrder) /\ s \in SUBSET Entry
  BY DEF Replica
<1>2. StopsAfter(s, e) \in SUBSET Entry
  BY <1>1 DEF StopsAfter
<1>3. BookAfter(b, e, NoId) \in Seq(LoggedOrder)
  <2>1. Rests(e, NoId) \in LoggedOrder
    BY DEF Rests, LoggedOrder
  <2> QED BY <1>1, <2>1, BookAfterKeeps
<1> HIDE DEF b, s
<1>4. Logged(v, e) = [book |-> BookAfter(b, e, NoId), stops |-> StopsAfter(s, e)]
  BY <1>1, ProcessShape DEF Logged
<1>5. Logged(v, e) \in Replica
  BY <1>2, <1>3, <1>4 DEF Replica
<1> QED BY <1>4, <1>5 DEF b, s

\* A book without its ids,
LEMMA WithoutIdsShape ==
  ASSUME NEW b \in Seq(RestingOrder)
  PROVE  /\ WithoutIds(b) \in Seq([id : {NoId}, entry : Entry, left : {0, 1}])
         /\ Len(WithoutIds(b)) = Len(b)
         /\ \A i \in 1..Len(b) : WithoutIds(b)[i] = [b[i] EXCEPT !.id = NoId]
         /\ b = <<>> <=> WithoutIds(b) = <<>>
<1> DEFINE S == [id : {NoId}, entry : Entry, left : {0, 1}]
           n == Len(b)
           w == WithoutIds(b)
<1>1. DOMAIN b = 1..n /\ n \in Nat /\ \A i \in 1..n : b[i] \in RestingOrder
  OBVIOUS
<1>2. \A i \in 1..n : [b[i] EXCEPT !.id = NoId] \in S
  BY <1>1 DEF RestingOrder
<1>3. w = [i \in 1..n |-> [b[i] EXCEPT !.id = NoId]]
  BY <1>1 DEF WithoutIds
<1> HIDE DEF S, n, w
<1>4. w \in Seq(S) /\ Len(w) = n /\ \A i \in 1..n : w[i] = [b[i] EXCEPT !.id = NoId]
  BY <1>1, <1>2, <1>3
<1>5. b = <<>> <=> w = <<>>
  BY <1>1, <1>4, EmptySeq DEF n
<1> QED BY <1>4, <1>5 DEF S, n, w

\* is processed in the same way.
LEMMA WithoutIdsAfter ==
  ASSUME NEW b \in Seq(RestingOrder), NEW e \in Entry, NEW id \in Id
  PROVE  WithoutIds(BookAfter(b, e, id)) = BookAfter(WithoutIds(b), e, NoId)
<1> DEFINE S == [id : {NoId}, entry : Entry, left : {0, 1}]
           n == Len(b)
           w == WithoutIds(b)
<1>1. /\ w \in Seq(S) /\ Len(w) = n /\ n \in Nat
      /\ \A i \in 1..n : w[i] = [b[i] EXCEPT !.id = NoId]
      /\ b = <<>> <=> w = <<>>
  <2>1. n \in Nat
    OBVIOUS
  <2> QED BY <2>1, WithoutIdsShape, Zenon
<1>2. KindOf[e.order] \in {"maker", "taker", "stop"}
  BY RaftAssumption DEF RaftAssumption, Entry
<1>3. Rests(e, id) \in RestingOrder /\ Rests(e, NoId) \in S
      /\ [Rests(e, id) EXCEPT !.id = NoId] = Rests(e, NoId)
  BY DEF Rests, RestingOrder, Id
<1> HIDE DEF S, n, w
<1>4. CASE KindOf[e.order] = "maker"
  <2> DEFINE c == Append(b, Rests(e, id))
             x == WithoutIds(c)
             y == Append(w, Rests(e, NoId))
  <2>1. c \in Seq(RestingOrder) /\ Len(c) = n + 1 /\ c[n + 1] = Rests(e, id)
        /\ \A i \in 1..n : c[i] = b[i]
    BY <1>3 DEF n
  <2> HIDE DEF c
  <2>2. /\ x \in Seq(S) /\ Len(x) = n + 1
        /\ \A i \in 1..(n + 1) : x[i] = [c[i] EXCEPT !.id = NoId]
    BY <2>1, WithoutIdsShape DEF S
  <2>3. /\ y \in Seq(S) /\ Len(y) = n + 1 /\ y[n + 1] = Rests(e, NoId)
        /\ \A i \in 1..n : y[i] = w[i]
    BY <1>1, <1>3, AppendProperties
  <2> HIDE DEF x, y
  <2>4. \A i \in 1..(n + 1) : x[i] = y[i]
    <3> TAKE i \in 1..(n + 1)
    <3>1. CASE i = n + 1
      BY <1>3, <2>1, <2>2, <2>3, <3>1
    <3>2. CASE i # n + 1
      <4>1. i \in 1..n
        BY <1>1, <3>2
      <4>2. c[i] = b[i] /\ y[i] = w[i] /\ w[i] = [b[i] EXCEPT !.id = NoId]
        BY <1>1, <2>1, <2>3, <4>1
      <4>3. x[i] = [c[i] EXCEPT !.id = NoId]
        BY <2>2
      <4> QED BY <4>2, <4>3, Zenon
    <3> QED BY <3>1, <3>2
  <2>5. x = y
    BY <2>2, <2>3, <2>4, SeqEqual
  <2> QED BY <1>4, <2>5 DEF BookAfter, w, c, x, y
<1>5. CASE KindOf[e.order] = "taker" /\ b # <<>>
  <2> DEFINE c == Tail(b)
             x == WithoutIds(c)
             y == Tail(w)
  <2>1. c \in Seq(RestingOrder) /\ Len(c) = n - 1 /\ n >= 1
        /\ \A i \in 1..(n - 1) : c[i] = b[i + 1]
    BY <1>5 DEF n
  <2> HIDE DEF c
  <2>2. /\ x \in Seq(S) /\ Len(x) = n - 1
        /\ \A i \in 1..(n - 1) : x[i] = [c[i] EXCEPT !.id = NoId]
    BY <2>1, WithoutIdsShape DEF S
  <2>3. /\ y \in Seq(S) /\ Len(y) = n - 1
        /\ \A i \in 1..(n - 1) : y[i] = w[i + 1]
    BY <1>1, <1>5
  <2> HIDE DEF x, y
  <2>4. \A i \in 1..(n - 1) : x[i] = y[i]
    <3> TAKE i \in 1..(n - 1)
    <3>1. i + 1 \in 1..n
      BY <1>1, <2>1
    <3> QED BY <1>1, <2>1, <2>2, <2>3, <3>1
  <2>5. x = y
    BY <2>2, <2>3, <2>4, SeqEqual
  <2>6. w # <<>>
    BY <1>1, <1>5
  <2> QED BY <1>5, <2>5, <2>6 DEF BookAfter, w, c, x, y
<1>6. CASE KindOf[e.order] = "taker" /\ b = <<>>
  BY <1>1, <1>6 DEF BookAfter, w
<1>7. CASE KindOf[e.order] = "stop"
  BY <1>7 DEF BookAfter, w
<1> QED BY <1>2, <1>4, <1>5, <1>6, <1>7

\* Process as a function, for the lemmas about folds.
Processing == [p \in Replica \X Entry |-> Logged(p[1], p[2])]

\* It folds any log.
LEMMA ProcessingFolds ==
  ASSUME NEW q \in Seq(Entry)
  PROVE  /\ Folds(Processing, EmptyReplica, q, Replica, Entry)
         /\ \A v \in Replica, e \in Entry : Processing[<<v, e>>] = Logged(v, e)
<1>1. \A v \in Replica, e \in Entry : Processing[<<v, e>>] = Logged(v, e)
  BY DEF Processing
<1>2. EmptyReplica \in Replica
  BY DEF EmptyReplica, Replica
<1> QED BY <1>1, <1>2, LoggedKeeps DEF Folds

\* A replay is such a fold.
LEMMA ReplayIsFold ==
  ASSUME NEW q \in Seq(Entry)
  PROVE  ReplayOf(q) = FoldOver(Processing, EmptyReplica, q)
<1> DEFINE base == EmptyReplica
           op == Processing
           X == Replica
           n == Len(q)
           S == DOMAIN q
           P(it) == it = [s \in SUBSET DOMAIN q |->
                            IF s = {} THEN base ELSE Logged(it[s \ {Max(s)}], q[Max(s)])]
           I == CHOOSE it : P(it)
<1>1. ReplayOf(q) = I[DOMAIN q]
  BY DEF ReplayOf, FoldLeft, MapThenFoldSet
<1>2. S = DOMAIN q /\ S = 1..n /\ n \in Nat /\ \A i \in S : q[i] \in Entry
  OBVIOUS
<1>3. /\ Folds(op, base, q, X, Entry)
      /\ \A v \in X, e \in Entry : op[<<v, e>>] = Logged(v, e)
  BY ProcessingFolds
<1> HIDE DEF op, base, X, S, n
<1>4. PICK g : IsSeqFold(g, X, op, base, q)
  BY <1>3, SeqFoldExists
<1>5. \A s \in SUBSET DOMAIN q :
        s # {} => /\ q[Max(s)] \in Entry
                  /\ s \ {Max(s)} \in SUBSET DOMAIN q
  <2>1. \A s \in SUBSET (1..n) : s # {} => Max(s) \in s
    BY <1>2, MaxPosition
  <2> QED BY <1>2, <2>1
<1>6. P(g)
  <2>1. g = [s \in SUBSET DOMAIN q |-> g[s]]
    BY <1>4 DEF IsSeqFold
  <2>2. ASSUME NEW s \in SUBSET DOMAIN q
        PROVE  g[s] = IF s = {} THEN base ELSE Logged(g[s \ {Max(s)}], q[Max(s)])
    <3>1. g[s] = IF s = {} THEN base ELSE op[<<g[s \ {Max(s)}], q[Max(s)]>>]
      BY <1>4 DEF IsSeqFold
    <3>2. s # {} => g[s \ {Max(s)}] \in X
      BY <1>4, <1>5 DEF IsSeqFold
    <3> QED BY <1>3, <1>5, <3>1, <3>2
  <2> QED BY <2>1, <2>2
<1>7. P(I)
  BY <1>6
<1> HIDE DEF I
<1>8. /\ I[{}] = base
      /\ \A s \in SUBSET DOMAIN q : s # {} => I[s] = Logged(I[s \ {Max(s)}], q[Max(s)])
  BY <1>7
<1> HIDE DEF P
<1>9. FoldsAs(I, X, op, base, q)
  BY <1>3, <1>5, <1>8 DEF FoldsAs
<1>10. I[S] = FoldOver(op, base, q)
  <2>1. S = DOMAIN q
    BY <1>2
  <2> QED BY <1>3, <1>9, <2>1, FoldMatches
<1> QED BY <1>1, <1>2, <1>10 DEF op, base

\* A replay makes a replica, with the stop orders of the log.
LEMMA ReplayShape ==
  ASSUME NEW q \in Seq(Entry)
  PROVE  /\ ReplayOf(q) \in Replica
         /\ ReplayOf(q).stops = StopsOf(q)
         /\ q = <<>> => ReplayOf(q) = EmptyReplica
<1> DEFINE S == DOMAIN q
           base == EmptyReplica
           op == Processing
           stopsAt(s) == {q[j] : j \in {i \in s : KindOf[q[i].order] = "stop"}}
           R == {p \in (SUBSET S) \X Replica : p[2].stops = stopsAt(p[1])}
<1>1. /\ Folds(op, base, q, Replica, Entry)
      /\ \A v \in Replica, e \in Entry : op[<<v, e>>] = Logged(v, e)
  BY ProcessingFolds
<1>2. /\ FoldOver(op, base, q) \in Replica
      /\ q = <<>> => FoldOver(op, base, q) = base
  BY <1>1, FoldOverType
<1>3. \A i \in S : q[i] \in Entry
  OBVIOUS
<1>4. <<{}, base>> \in R
  <2>1. stopsAt({}) = {}
    OBVIOUS
  <2>2. base \in Replica /\ base.stops = {}
    BY DEF EmptyReplica, Replica
  <2> QED BY <2>1, <2>2
<1> HIDE DEF op, base
<1>5. \A s \in SUBSET DOMAIN q : \A v \in Replica :
        s # {} /\ Max(s) \in s /\ <<s \ {Max(s)}, v>> \in R
          => <<s, op[<<v, q[Max(s)]>>]>> \in R
  <2> TAKE s \in SUBSET DOMAIN q
  <2> TAKE v \in Replica
  <2> HAVE s # {} /\ Max(s) \in s /\ <<s \ {Max(s)}, v>> \in R
  <2> DEFINE m == Max(s)
             e == q[Max(s)]
             w == op[<<v, q[Max(s)]>>]
  <2>1. m \in s /\ e \in Entry /\ e = q[m] /\ w = Logged(v, e)
    BY <1>1, <1>3
  <2>2. v.stops = stopsAt(s \ {m})
    OBVIOUS
  <2> HIDE DEF m, e, w
  <2>3. w \in Replica /\ w.stops = IF KindOf[e.order] = "stop" THEN v.stops \cup {e} ELSE v.stops
    BY <2>1, LoggedKeeps DEF StopsAfter
  <2>4. stopsAt(s) = IF KindOf[e.order] = "stop" THEN stopsAt(s \ {m}) \cup {e}
                                                ELSE stopsAt(s \ {m})
    BY <2>1
  <2> HIDE DEF stopsAt
  <2>5. <<s, w>> \in R
    BY <2>2, <2>3, <2>4
  <2> QED BY <2>5 DEF w
<1> HIDE DEF R
<1>6. <<DOMAIN q, FoldOver(op, base, q)>> \in R
  BY <1>1, <1>4, <1>5, FoldOverInduction
<1>7. FoldOver(op, base, q).stops = StopsOf(q)
  BY <1>6 DEF R, StopsOf
<1> QED BY <1>2, <1>7, ReplayIsFold DEF op, base

\* One entry more is one order more.
LEMMA ReplayAppend ==
  ASSUME NEW q \in Seq(Entry), NEW e \in Entry
  PROVE  ReplayOf(Append(q, e)) = Logged(ReplayOf(q), e)
<1> DEFINE op == Processing
           base == EmptyReplica
           r == Append(q, e)
<1>1. /\ Folds(op, base, q, Replica, Entry)
      /\ \A v \in Replica, d \in Entry : op[<<v, d>>] = Logged(v, d)
  BY ProcessingFolds
<1>2. IsAppend(r, q, e) /\ r \in Seq(Entry)
  BY DEF IsAppend
<1>3. ReplayOf(r) = FoldOver(op, base, r) /\ ReplayOf(q) = FoldOver(op, base, q)
      /\ ReplayOf(q) \in Replica
  BY <1>2, ReplayIsFold, ReplayShape
<1> HIDE DEF op, base, r
<1>4. FoldOver(op, base, r) = op[<<FoldOver(op, base, q), e>>]
  BY <1>1, <1>2, FoldOverAppend
<1> QED BY <1>1, <1>3, <1>4 DEF r

\* Front i of a log.
FrontOf(q, i) == SubSeq(q, 1, i)

\* The fronts of a log, and of a log that has grown.
LEMMA FrontShape ==
  ASSUME NEW q \in Seq(Entry), NEW i \in 0..Len(q)
  PROVE  /\ FrontOf(q, i) \in Seq(Entry)
         /\ DOMAIN FrontOf(q, i) = 1..i
         /\ \A j \in 1..i : FrontOf(q, i)[j] = q[j]
         /\ i = 0 => FrontOf(q, i) = <<>>
         /\ \A e \in Entry : FrontOf(Append(q, e), i) = FrontOf(q, i)
         /\ i < Len(q) => FrontOf(q, i + 1) = Append(FrontOf(q, i), q[i + 1])
<1> DEFINE n == Len(q)
           f == FrontOf(q, i)
<1>1. n \in Nat /\ i \in 0..n /\ DOMAIN q = 1..n /\ \A j \in 1..n : q[j] \in Entry
  OBVIOUS
<1>2. ASSUME NEW p \in Seq(Entry), NEW k \in 0..Len(p)
      PROVE  /\ FrontOf(p, k) \in Seq(Entry) /\ Len(FrontOf(p, k)) = k
             /\ \A j \in 1..k : FrontOf(p, k)[j] = p[j]
  <2>1. 1 \in Int /\ k \in Int /\ k \in Nat /\ \A j \in 1..k : p[j] \in Entry
    OBVIOUS
  <2>2. /\ SubSeq(p, 1, k) \in Seq(Entry)
        /\ Len(SubSeq(p, 1, k)) = (IF 1 <= k THEN k - 1 + 1 ELSE 0)
        /\ \A j \in 1..(k - 1 + 1) : SubSeq(p, 1, k)[j] = p[1 + j - 1]
    BY <2>1, SubSeqProperties
  <2> HIDE DEF FrontOf
  <2>3. \A j \in 1..k : SubSeq(p, 1, k)[j] = p[j]
    BY <2>1, <2>2
  <2> QED BY <2>1, <2>2, <2>3 DEF FrontOf
<1>3. f \in Seq(Entry) /\ Len(f) = i /\ \A j \in 1..i : f[j] = q[j]
  BY <1>2
<1>4. DOMAIN f = 1..i
  BY <1>3
<1> HIDE DEF n, f
<1>5. i = 0 => f = <<>>
  BY <1>3, EmptySeq
<1>6. ASSUME NEW e \in Entry
      PROVE  FrontOf(Append(q, e), i) = f
  <2> DEFINE p == Append(q, e)
  <2>1. p \in Seq(Entry) /\ Len(p) = n + 1 /\ \A j \in 1..n : p[j] = q[j]
    BY DEF n
  <2> HIDE DEF p
  <2>2. i \in 0..Len(p)
    BY <1>1, <2>1
  <2> DEFINE g == FrontOf(p, i)
  <2>3. g \in Seq(Entry) /\ Len(g) = i /\ \A j \in 1..i : g[j] = p[j]
    BY <1>2, <2>1, <2>2
  <2> HIDE DEF g
  <2>4. \A j \in 1..i : g[j] = f[j]
    BY <1>1, <1>3, <2>1, <2>3
  <2>5. g = f
    BY <1>3, <2>3, <2>4, SeqEqual
  <2> QED BY <2>5 DEF g, p
<1>7. ASSUME i < n
      PROVE  FrontOf(q, i + 1) = Append(f, q[i + 1])
  <2> DEFINE g == FrontOf(q, i + 1)
             e == q[i + 1]
             h == Append(f, e)
  <2>1. i + 1 \in 0..Len(q) /\ i + 1 \in 1..n /\ i \in Nat
    BY <1>1, <1>7 DEF n
  <2>2. g \in Seq(Entry) /\ Len(g) = i + 1 /\ \A j \in 1..(i + 1) : g[j] = q[j]
    BY <1>2, <2>1
  <2>3. e \in Entry
    BY <1>1, <2>1
  <2> HIDE DEF g, e
  <2>4. h \in Seq(Entry) /\ Len(h) = i + 1 /\ h[i + 1] = e /\ \A j \in 1..i : h[j] = f[j]
    BY <1>3, <2>3, AppendProperties
  <2> HIDE DEF h
  <2>5. \A j \in 1..(i + 1) : g[j] = h[j]
    BY <1>3, <2>1, <2>2, <2>4 DEF e
  <2>6. g = h
    BY <2>2, <2>4, <2>5, SeqEqual
  <2> QED BY <2>6 DEF g, h, e
<1> QED BY <1>3, <1>4, <1>5, <1>6, <1>7 DEF f, n

\* The replica that results from the first i entries of a log: what the
\* properties call Replay, for the log agreed on.
ReplayIn(q, i) == ReplayOf(FrontOf(q, i))

\* The replays of the fronts of the log: they begin with an empty replica, add
\* one order after the other and only add stop orders.
LEMMA ReplayFacts ==
  ASSUME NEW q \in Seq(Entry), NEW i \in 0..Len(q)
  PROVE  /\ ReplayIn(q, i) \in Replica
         /\ i = 0 => ReplayIn(q, i) = EmptyReplica
         /\ i < Len(q) => ReplayIn(q, i + 1) = Logged(ReplayIn(q, i), q[i + 1])
         /\ \A j \in 0..Len(q) : i <= j => ReplayIn(q, i).stops \subseteq ReplayIn(q, j).stops
<1> DEFINE n == Len(q)
<1>1. n \in Nat /\ i \in 0..n /\ \A j \in 1..n : q[j] \in Entry
  OBVIOUS
<1>2. \A j \in 0..n : /\ FrontOf(q, j) \in Seq(Entry)
                      /\ DOMAIN FrontOf(q, j) = 1..j
                      /\ \A x \in 1..j : FrontOf(q, j)[x] = q[x]
                      /\ j = 0 => FrontOf(q, j) = <<>>
                      /\ j < n => FrontOf(q, j + 1) = Append(FrontOf(q, j), q[j + 1])
  BY FrontShape
<1> HIDE DEF n
<1>3. ReplayIn(q, i) \in Replica /\ (i = 0 => ReplayIn(q, i) = EmptyReplica)
  BY <1>1, <1>2, ReplayShape DEF ReplayIn
<1>4. ASSUME i < n
      PROVE  ReplayIn(q, i + 1) = Logged(ReplayIn(q, i), q[i + 1])
  <2>1. i + 1 \in 1..n
    BY <1>1, <1>4
  <2>2. q[i + 1] \in Entry /\ FrontOf(q, i) \in Seq(Entry)
    BY <1>1, <1>2, <2>1
  <2>3. FrontOf(q, i + 1) = Append(FrontOf(q, i), q[i + 1])
    BY <1>1, <1>2, <1>4
  <2>4. ReplayOf(Append(FrontOf(q, i), q[i + 1]))
          = Logged(ReplayOf(FrontOf(q, i)), q[i + 1])
    BY <2>2, ReplayAppend
  <2> QED BY <2>3, <2>4 DEF ReplayIn
<1>5. ASSUME NEW j \in 0..n, i <= j
      PROVE  ReplayIn(q, i).stops \subseteq ReplayIn(q, j).stops
  <2>1. 1..i \subseteq 1..j
    BY <1>1, <1>5
  <2>2. StopsOf(FrontOf(q, i)) \subseteq StopsOf(FrontOf(q, j))
    <3> SUFFICES ASSUME NEW x \in 1..i, KindOf[FrontOf(q, i)[x].order] = "stop"
                 PROVE  FrontOf(q, i)[x] \in StopsOf(FrontOf(q, j))
      BY <1>1, <1>2 DEF StopsOf
    <3>1. /\ x \in 1..j /\ x \in DOMAIN FrontOf(q, j)
          /\ FrontOf(q, j)[x] = FrontOf(q, i)[x]
      BY <1>1, <1>2, <2>1
    <3> QED BY <3>1 DEF StopsOf
  <2>3. ReplayIn(q, i).stops = StopsOf(FrontOf(q, i)) /\ ReplayIn(q, j).stops = StopsOf(FrontOf(q, j))
    BY <1>1, <1>2, ReplayShape DEF ReplayIn
  <2> QED BY <2>2, <2>3
<1> QED BY <1>3, <1>4, <1>5 DEF n

\* What has been agreed on stays so: the replays of its fronts do not change.
LEMMA ReplayKept ==
  ASSUME RaftInv, [Next]_vars, NEW i \in 0..Len(agreed)
  PROVE  ReplayIn(agreed', i) = ReplayIn(agreed, i)
<1>1. agreed \in Seq(Entry)
  BY DEF RaftInv, LogInv
<1>2. agreed' = agreed \/ \E e \in Entry : agreed' = Append(agreed, e)
  <2>1. CASE Agree
    BY <2>1, AgreeKeepsLog DEF Agree, RaftInv
  <2>2. CASE ~Agree
    BY <2>2 DEF Next, vars, clusterVars, LoseLeader, Elect, Submit, Cancel, Applying, FsmTakes,
                FsmApplies, FsmLoops, RestoreEnds, SnapshotBegins, TakeSnapshot, Persist, RestoreBegins,
                StopBegins, StopLocks, StopReturns, Restart
  <2> QED BY <2>1, <2>2
<1>3. FrontOf(agreed', i) = FrontOf(agreed, i)
  BY <1>1, <1>2, FrontShape
<1> QED BY <1>3 DEF ReplayIn

-----------------------------------------------------------------------------
(* The books follow the log.                                               *)

\* Nothing has traded of these orders.
Whole(orders) == \A i \in DOMAIN orders : orders[i].left = 1

\* What node n holds: a book nobody has tampered with is the replay of what was
\* applied, but for the ids, so no match meets an order with nothing left there;
\* stop orders are only those of the log; clean snapshots, and those being taken
\* that nothing has traded of, are replays of their index; and what is being
\* restored is no older than what was applied.
NodeBook(n) ==
  /\ book[n] \in Seq(RestingOrder)
  /\ capture[n].orders \in Seq(RestingOrder)
  /\ saved[n].orders \in Seq(RestingOrder)
  /\ n \notin tainted => /\ WithoutIds(book[n]) = ReplayIn(agreed, applied[n]).book
                        /\ fsm[n] # "looping"
  /\ stops[n] \subseteq ReplayIn(agreed, applied[n]).stops
  /\ capture[n].clean /\ Whole(capture[n].orders)
       => WithoutIds(capture[n].orders) = ReplayIn(agreed, capture[n].index).book
  /\ saved[n].clean
       => WithoutIds(saved[n].orders) = ReplayIn(agreed, saved[n].index).book
  /\ capture[n].index <= applied[n]
  /\ fsm[n] = "restoring" => applied[n] <= saved[n].index

BookInv == /\ book = [n \in Node |-> book[n]]
           /\ \A n \in Node : NodeBook(n)

\* The indexes of a node are in the log.
LEMMA NodeIndexes ==
  ASSUME RaftInv, NEW n \in Node
  PROVE  /\ agreed \in Seq(Entry) /\ Len(agreed) \in Nat
         /\ applied[n] \in 0..Len(agreed)
         /\ capture[n].index \in 0..Len(agreed)
         /\ saved[n].index \in 0..Len(agreed)
BY DEF RaftInv, LogInv, NodesInv, ReplicaInv

\* A step leaves what a node holds alone.
Stays(n) == /\ applied'[n] = applied[n] /\ book'[n] = book[n] /\ stops'[n] = stops[n]
            /\ capture'[n] = capture[n] /\ saved'[n] = saved[n]
            /\ n \in tainted => n \in tainted'
            /\ fsm'[n] = "looping" => fsm[n] = "looping" \/ n \in tainted
            /\ fsm'[n] = "restoring" => fsm[n] = "restoring"

\* Then the node keeps its part of the invariant.
LEMMA NodeKept ==
  ASSUME RaftInv, [Next]_vars, NEW n \in Node, NodeBook(n), Stays(n)
  PROVE  NodeBook(n)'
<1>1. \A i \in 0..Len(agreed) : ReplayIn(agreed', i) = ReplayIn(agreed, i)
  BY ReplayKept
<1>2. /\ applied[n] \in 0..Len(agreed)
      /\ capture[n].index \in 0..Len(agreed)
      /\ saved[n].index \in 0..Len(agreed)
  BY NodeIndexes
<1>3. /\ ReplayIn(agreed', applied'[n]) = ReplayIn(agreed, applied[n])
      /\ ReplayIn(agreed', capture'[n].index) = ReplayIn(agreed, capture[n].index)
      /\ ReplayIn(agreed', saved'[n].index) = ReplayIn(agreed, saved[n].index)
  BY <1>1, <1>2 DEF Stays
<1> QED BY <1>3 DEF NodeBook, Stays

\* What RaftInv and BookInv say of the shape of the variables of the nodes.
LEMMA NodeVars ==
  ASSUME RaftInv, BookInv
  PROVE  /\ applied \in [Node -> Nat]
         /\ fsm \in [Node -> {"idle", "applying", "capturing", "restoring", "looping"}]
         /\ saved = [n \in Node |-> saved[n]] /\ capture = [n \in Node |-> capture[n]]
         /\ book = [n \in Node |-> book[n]] /\ stops \in [Node -> SUBSET Entry]
         /\ tainted \subseteq Node /\ agreed \in Seq(Entry)
         /\ given \in [Node -> Nat]
BY DEF RaftInv, LogInv, NodesInv, ReplicaInv, StopsInv, BookInv

\* What remains of a sequence without one element.
LEMMA RemoveAtType ==
  ASSUME NEW S, NEW q \in Seq(S), NEW i \in DOMAIN q
  PROVE  RemoveAt(q, i) \in Seq(S)
<1>1. i \in 1..Len(q) /\ Len(q) \in Nat /\ \A j \in 1..Len(q) : q[j] \in S
  OBVIOUS
<1>2. SubSeq(q, 1, i - 1) \in Seq(S)
  <2>1. /\ 1 \in Int /\ i - 1 \in Int
        /\ \A j \in 1..(i - 1) : q[j] \in S
    BY <1>1
  <2> QED BY <2>1, SubSeqProperties
<1>3. SubSeq(q, i + 1, Len(q)) \in Seq(S)
  <2>1. /\ i + 1 \in Int /\ Len(q) \in Int
        /\ \A j \in (i + 1)..Len(q) : q[j] \in S
    BY <1>1
  <2> QED BY <2>1, SubSeqProperties
<1> QED BY <1>2, <1>3, ConcatProperties DEF RemoveAt

\* Cancel taints the node.
LEMMA CancelKeepsBooks ==
  ASSUME RaftInv, BookInv, [Next]_vars, NEW n \in Node, NEW i \in DOMAIN book[n], Cancel(n, i)
  PROVE  BookInv'
<1>1. /\ book' = [book EXCEPT ![n] = RemoveAt(@, i)] /\ tainted' = tainted \cup {n}
      /\ UNCHANGED <<applied, stops, capture, saved, fsm, agreed>>
  BY DEF Cancel
<1>2. book' = [p \in Node |-> book'[p]] /\ \A p \in Node \ {n} : Stays(p)
  BY <1>1, NodeVars DEF Stays
<1>3. \A p \in Node \ {n} : NodeBook(p)'
  BY <1>2, NodeKept DEF BookInv
<1>4. NodeBook(n)'
  <2>1. /\ NodeBook(n) /\ book'[n] = RemoveAt(book[n], i) /\ n \in tainted'
    BY <1>1, NodeVars DEF BookInv
  <2>2. book'[n] \in Seq(RestingOrder)
    BY <2>1, RemoveAtType DEF NodeBook
  <2> QED BY <1>1, <2>1, <2>2 DEF NodeBook
<1> QED BY <1>2, <1>3, <1>4 DEF BookInv

\* A fill takes what is left of a captured order, and nothing else.
LEMMA AfterFillsShape ==
  ASSUME NEW b \in Seq(RestingOrder), NEW filled
  PROVE  /\ AfterFills(b, filled) \in Seq(RestingOrder)
         /\ Whole(AfterFills(b, filled))
              => Whole(b) /\ WithoutIds(AfterFills(b, filled)) = WithoutIds(b)
<1> DEFINE n == Len(b)
           c == AfterFills(b, filled)
<1>1. DOMAIN b = 1..n /\ n \in Nat /\ \A i \in 1..n : b[i] \in RestingOrder
  OBVIOUS
<1>2. c = [i \in 1..n |-> IF b[i].id \in filled THEN [b[i] EXCEPT !.left = 0] ELSE b[i]]
  BY <1>1 DEF AfterFills
<1> HIDE DEF n, c
<1>3. \A i \in 1..n : c[i] \in RestingOrder
  BY <1>1, <1>2 DEF RestingOrder
<1>4. c \in Seq(RestingOrder) /\ DOMAIN c = 1..n
  BY <1>1, <1>2, <1>3
<1>5. ASSUME Whole(c)
      PROVE  Whole(b) /\ WithoutIds(c) = WithoutIds(b)
  <2>1. \A i \in 1..n : c[i] = b[i]
    <3> TAKE i \in 1..n
    <3>1. c[i].left = 1
      BY <1>4, <1>5 DEF Whole
    <3>2. CASE b[i].id \in filled
      <4>1. c[i].left = 0
        BY <1>1, <1>2, <3>2 DEF RestingOrder
      <4> QED BY <3>1, <4>1
    <3>3. CASE b[i].id \notin filled
      BY <1>2, <3>3
    <3> QED BY <3>2, <3>3
  <2>2. Whole(b)
    BY <1>1, <1>4, <1>5, <2>1 DEF Whole
  <2>3. WithoutIds(c) = WithoutIds(b)
    BY <1>1, <1>4, <2>1 DEF WithoutIds
  <2> QED BY <2>2, <2>3
<1> QED BY <1>4, <1>5 DEF c

\* FsmApplies does to the replica what the replay does next.
LEMMA FsmAppliesKeepsBooks ==
  ASSUME RaftInv, BookInv, [Next]_vars, NEW n \in Node, FsmApplies(n)
  PROVE  BookInv'
<1> DEFINE k == applied[n]
           e == agreed[k + 1]
           id == [by |-> n, nth |-> given[n] + 1]
           after == Process([book |-> book[n], stops |-> stops[n]], e, id)
<1>1. /\ fsm[n] = "applying" /\ fsm' = [fsm EXCEPT ![n] = "idle"]
      /\ applied' = [applied EXCEPT ![n] = @ + 1]
      /\ book' = [book EXCEPT ![n] = after.book]
      /\ stops' = [stops EXCEPT ![n] = after.stops]
      /\ capture' = [capture EXCEPT ![n].orders = AfterFills(@, Fills(n, e))]
      /\ UNCHANGED <<agreed, saved, tainted>>
  BY DEF FsmApplies, Upcoming, clusterVars
<1>2. /\ k \in 0..Len(agreed) /\ k < Len(agreed) /\ Len(agreed) \in Nat
      /\ agreed \in Seq(Entry)
  BY <1>1, NodeIndexes DEF RaftInv, NodesInv, ReplicaInv
<1>3. e \in Entry
  BY <1>2
<1>4. after = [book |-> BookAfter(book[n], e, id), stops |-> StopsAfter(stops[n], e)]
  BY <1>3, ProcessShape
<1>5. /\ applied'[n] = k + 1 /\ fsm'[n] = "idle"
      /\ book'[n] = BookAfter(book[n], e, id) /\ stops'[n] = StopsAfter(stops[n], e)
      /\ book' = [p \in Node |-> book'[p]]
      /\ \A p \in Node \ {n} : Stays(p)
      /\ capture'[n].index = capture[n].index /\ capture'[n].clean = capture[n].clean
      /\ capture'[n].orders = AfterFills(capture[n].orders, Fills(n, e))
  <2> HIDE DEF after, e
  <2>1. after.book = BookAfter(book[n], e, id) /\ after.stops = StopsAfter(stops[n], e)
    BY <1>4
  <2> HIDE DEF id
  <2>2. IsSnapshot(capture[n])
    BY DEF RaftInv, NodesInv, ReplicaInv
  <2> DEFINE orders == AfterFills(capture[n].orders, Fills(n, e))
  <2>3. /\ capture'[n] = [capture[n] EXCEPT !.orders = orders]
        /\ \A p \in Node \ {n} : capture'[p] = capture[p]
    BY <1>1, NodeVars
  <2> HIDE DEF orders
  <2>4. /\ capture'[n].index = capture[n].index /\ capture'[n].clean = capture[n].clean
        /\ capture'[n].orders = orders
    BY <2>2, <2>3 DEF IsSnapshot
  <2>5. /\ applied'[n] = k + 1 /\ fsm'[n] = "idle"
        /\ book'[n] = after.book /\ stops'[n] = after.stops
        /\ book' = [p \in Node |-> book'[p]]
        /\ \A p \in Node \ {n} : Stays(p)
    BY <1>1, <2>3, NodeVars DEF Stays
  <2> QED BY <2>1, <2>4, <2>5 DEF orders
<1> DEFINE F == Fills(n, e)
<1> HIDE DEF after, e, k, id, F
<1>6. \A p \in Node \ {n} : NodeBook(p)'
  BY <1>5, NodeKept DEF BookInv
<1>7. /\ ReplayIn(agreed, k + 1).book = BookAfter(ReplayIn(agreed, k).book, e, NoId)
      /\ ReplayIn(agreed, k + 1).stops = StopsAfter(ReplayIn(agreed, k).stops, e)
  <2>1. ReplayIn(agreed, k) \in Replica /\ ReplayIn(agreed, k + 1) = Logged(ReplayIn(agreed, k), e)
    BY <1>2, ReplayFacts DEF e
  <2> QED BY <1>3, <2>1, LoggedKeeps
<1>8. id \in Id
  BY NodeVars DEF id, Id
<1>9. NodeBook(n)'
  <2>1. NodeBook(n) /\ capture[n].index \in 0..Len(agreed)
    BY NodeIndexes DEF BookInv
  <2>2. n \notin tainted' => WithoutIds(book'[n]) = ReplayIn(agreed', applied'[n]).book
    <3> SUFFICES ASSUME n \notin tainted
                 PROVE  WithoutIds(book'[n]) = ReplayIn(agreed', applied'[n]).book
      BY <1>1
    <3>1. book[n] \in Seq(RestingOrder) /\ WithoutIds(book[n]) = ReplayIn(agreed, k).book
      BY <2>1 DEF NodeBook, k
    <3>2. WithoutIds(BookAfter(book[n], e, id)) = BookAfter(WithoutIds(book[n]), e, NoId)
      BY <1>3, <1>8, <3>1, WithoutIdsAfter
    <3> QED BY <1>1, <1>5, <1>7, <3>1, <3>2
  <2>3. stops'[n] \subseteq ReplayIn(agreed', applied'[n]).stops
    BY <1>1, <1>5, <1>7, <2>1 DEF NodeBook, StopsAfter, k
  <2>4. capture'[n].index <= applied'[n]
    BY <1>1, <1>2, <1>5, <2>1 DEF NodeBook, k
  <2>5. book'[n] \in Seq(RestingOrder)
    <3>1. Rests(e, id) \in RestingOrder
      BY <1>3, <1>8 DEF Rests, RestingOrder
    <3> QED BY <1>3, <1>5, <2>1, <3>1, BookAfterKeeps DEF NodeBook
  <2>6. /\ capture'[n].orders \in Seq(RestingOrder)
        /\ capture'[n].clean /\ Whole(capture'[n].orders)
             => WithoutIds(capture'[n].orders) = ReplayIn(agreed', capture'[n].index).book
    <3>1. capture'[n].orders = AfterFills(capture[n].orders, F)
      BY <1>5 DEF F
    <3>2. /\ AfterFills(capture[n].orders, F) \in Seq(RestingOrder)
          /\ Whole(AfterFills(capture[n].orders, F))
               => /\ Whole(capture[n].orders)
                  /\ WithoutIds(AfterFills(capture[n].orders, F))
                       = WithoutIds(capture[n].orders)
      BY <2>1, AfterFillsShape DEF NodeBook
    <3> QED BY <1>1, <1>5, <2>1, <3>1, <3>2 DEF NodeBook
  <2>7. /\ saved'[n].orders \in Seq(RestingOrder)
        /\ saved'[n].clean
             => WithoutIds(saved'[n].orders) = ReplayIn(agreed', saved'[n].index).book
    BY <1>1, <2>1 DEF NodeBook
  <2> QED BY <1>1, <1>5, <2>2, <2>3, <2>4, <2>5, <2>6, <2>7 DEF NodeBook
<1> QED BY <1>5, <1>6, <1>9 DEF BookInv

\* TakeSnapshot captures the replay of what has been applied, unless tainted.
LEMMA TakeSnapshotKeepsBooks ==
  ASSUME RaftInv, BookInv, [Next]_vars, NEW n \in Node, TakeSnapshot(n)
  PROVE  BookInv'
<1>1. /\ capture' = [capture EXCEPT ![n] = [index |-> applied[n], orders |-> book[n],
                                            clean |-> n \notin tainted]]
      /\ fsm' = [fsm EXCEPT ![n] = "idle"]
      /\ UNCHANGED <<applied, book, stops, saved, agreed, tainted>>
  BY DEF TakeSnapshot, replicaVars, clusterVars
<1>2. /\ capture'[n] = [index |-> applied[n], orders |-> book[n], clean |-> n \notin tainted]
      /\ fsm'[n] = "idle"
      /\ book' = [p \in Node |-> book'[p]] /\ \A p \in Node \ {n} : Stays(p)
  BY <1>1, NodeVars DEF Stays
<1>3. \A p \in Node \ {n} : NodeBook(p)'
  BY <1>2, NodeKept DEF BookInv
<1>4. /\ capture'[n].index = applied[n] /\ capture'[n].orders = book[n]
      /\ capture'[n].clean = (n \notin tainted)
  <2> DEFINE clean == n \notin tainted
  <2>1. capture'[n] = [index |-> applied[n], orders |-> book[n], clean |-> clean]
    BY <1>2
  <2> HIDE DEF clean
  <2>2. /\ capture'[n].index = applied[n] /\ capture'[n].orders = book[n]
        /\ capture'[n].clean = clean
    BY <2>1
  <2> QED BY <2>2 DEF clean
<1>5. NodeBook(n)'
  <2>1. NodeBook(n) /\ applied[n] \in Nat
    BY NodeVars DEF BookInv
  <2>2. capture'[n].clean => n \notin tainted
    BY <1>4, Zenon
  <2>3. capture'[n].clean
          => WithoutIds(capture'[n].orders) = ReplayIn(agreed', capture'[n].index).book
    <3>1. n \notin tainted => WithoutIds(book[n]) = ReplayIn(agreed, applied[n]).book
      BY <2>1 DEF NodeBook
    <3> QED BY <1>1, <1>4, <2>2, <3>1
  <2>4. capture'[n].index <= applied'[n]
    BY <1>1, <1>4, <2>1
  <2> QED BY <1>1, <1>2, <1>4, <2>1, <2>3, <2>4 DEF NodeBook
<1> QED BY <1>2, <1>3, <1>5 DEF BookInv

\* An empty book has no ids.
LEMMA EmptyWithoutIds == WithoutIds(<<>>) = <<>> /\ <<>> \in Seq(RestingOrder)
BY <<>> \in Seq(RestingOrder), WithoutIdsShape

\* Persist writes it, clean if nothing of it has traded since, and never in the
\* place of a newer one.
LEMMA PersistKeepsBooks ==
  ASSUME RaftInv, BookInv, [Next]_vars, NEW n \in Node, Persist(n)
  PROVE  BookInv'
<1> DEFINE orders == capture[n].orders
           asTaken == \A i \in DOMAIN orders : orders[i].left = 1
           new == [capture[n] EXCEPT !.clean = @ /\ asTaken]
<1>1. /\ saved' = IF capture[n].index < saved[n].index THEN saved ELSE [saved EXCEPT ![n] = new]
      /\ capture' = [capture EXCEPT ![n] = NoSnapshot]
      /\ UNCHANGED <<applied, book, stops, fsm, agreed, tainted>>
  BY DEF Persist, clusterVars, replicaVars
<1>2. /\ new.index = capture[n].index /\ new.orders = capture[n].orders
      /\ new.clean => capture[n].clean /\ Whole(capture[n].orders)
  <2>1. IsSnapshot(capture[n])
    BY DEF RaftInv, NodesInv, ReplicaInv
  <2>2. asTaken => Whole(capture[n].orders)
    BY DEF Whole
  <2> HIDE DEF asTaken
  <2>3. /\ new.index = capture[n].index /\ new.orders = capture[n].orders
        /\ new.clean = (capture[n].clean /\ asTaken)
    BY <2>1 DEF IsSnapshot
  <2> QED BY <2>2, <2>3, Zenon
<1> HIDE DEF new
<1>3. /\ saved'[n] = IF capture[n].index < saved[n].index THEN saved[n] ELSE new
      /\ capture'[n] = NoSnapshot
      /\ book' = [p \in Node |-> book'[p]] /\ \A p \in Node \ {n} : Stays(p)
  BY <1>1, NodeVars DEF Stays
<1>4. \A p \in Node \ {n} : NodeBook(p)'
  BY <1>3, NodeKept DEF BookInv
<1>5. NodeBook(n) /\ applied[n] \in 0..Len(agreed) /\ agreed \in Seq(Entry) /\ Len(agreed) \in Nat
      /\ capture[n].index \in 0..Len(agreed) /\ saved[n].index \in 0..Len(agreed)
  BY NodeIndexes DEF BookInv
<1>6. /\ capture'[n].index = 0 /\ capture'[n].orders = <<>>
      /\ WithoutIds(<<>>) = ReplayIn(agreed, 0).book
  BY <1>3, <1>5, ReplayFacts, EmptyWithoutIds DEF NoSnapshot, EmptyReplica
<1>7. /\ saved'[n].orders \in Seq(RestingOrder)
      /\ saved'[n].clean => WithoutIds(saved'[n].orders) = ReplayIn(agreed, saved'[n].index).book
      /\ fsm[n] = "restoring" => applied[n] <= saved'[n].index
  <2>1. CASE capture[n].index < saved[n].index
    BY <1>3, <1>5, <2>1 DEF NodeBook
  <2>2. CASE ~(capture[n].index < saved[n].index)
    BY <1>2, <1>3, <1>5, <2>2 DEF NodeBook
  <2> QED BY <2>1, <2>2
<1>8. NodeBook(n)'
  <2>1. capture'[n].orders \in Seq(RestingOrder)
        /\ WithoutIds(capture'[n].orders) = ReplayIn(agreed, capture'[n].index).book
    BY <1>6, EmptyWithoutIds, Zenon
  <2>2. capture'[n].index <= applied[n]
    BY <1>5, <1>6
  <2> QED BY <1>1, <1>5, <1>7, <2>1, <2>2 DEF NodeBook
<1> QED BY <1>3, <1>4, <1>8 DEF BookInv

\* A snapshot that is sent is clean where it is sent from.
LEMMA RestoreBeginsKeepsBooks ==
  ASSUME RaftInv, BookInv, [Next]_vars, NEW n \in Node, RestoreBegins(n)
  PROVE  BookInv'
<1>1. /\ leader \in Node /\ leader # n /\ saved[leader].index > applied[n]
      /\ fsm' = [fsm EXCEPT ![n] = "restoring"]
      /\ saved' = [saved EXCEPT ![n] = saved[leader]]
      /\ UNCHANGED <<applied, book, stops, capture, agreed, tainted>>
  BY DEF RestoreBegins, clusterVars, replicaVars, RaftInv, NodesInv, LeaderInv
<1>2. /\ saved'[n] = saved[leader] /\ fsm'[n] = "restoring"
      /\ book' = [p \in Node |-> book'[p]] /\ \A p \in Node \ {n} : Stays(p)
  BY <1>1, NodeVars DEF Stays
<1>3. \A p \in Node \ {n} : NodeBook(p)'
  BY <1>2, NodeKept DEF BookInv
<1>4. NodeBook(n)'
  <2>1. NodeBook(n) /\ NodeBook(leader)
    BY <1>1 DEF BookInv
  <2>2. applied[n] \in Nat /\ saved[leader].index \in 0..Len(agreed) /\ Len(agreed) \in Nat
        /\ fsm[n] \in {"idle", "applying", "capturing", "restoring", "looping"}
    BY <1>1, NodeVars, NodeIndexes
  <2>3. applied[n] <= saved[leader].index
    BY <1>1, <2>2
  <2> QED BY <1>1, <1>2, <2>1, <2>3 DEF NodeBook
<1> QED BY <1>2, <1>3, <1>4 DEF BookInv

\* RestoreEnds leaves the replay of the snapshot, and no stop order that the
\* log up to it does not have.
LEMMA RestoreEndsKeepsBooks ==
  ASSUME RaftInv, BookInv, [Next]_vars, NEW n \in Node, RestoreEnds(n)
  PROVE  BookInv'
<1>1. /\ fsm[n] = "restoring" /\ fsm' = [fsm EXCEPT ![n] = "idle"]
      /\ applied' = [applied EXCEPT ![n] = saved[n].index]
      /\ book' = [book EXCEPT ![n] = saved[n].orders]
      /\ tainted' = IF saved[n].clean THEN tainted \ {n} ELSE tainted \cup {n}
      /\ UNCHANGED <<stops, capture, saved, agreed>>
  BY DEF RestoreEnds, RestoredBook, clusterVars
<1>2. /\ applied'[n] = saved[n].index /\ book'[n] = saved[n].orders /\ fsm'[n] = "idle"
      /\ book' = [p \in Node |-> book'[p]] /\ \A p \in Node \ {n} : Stays(p)
  BY <1>1, NodeVars DEF Stays
<1>3. \A p \in Node \ {n} : NodeBook(p)'
  BY <1>2, NodeKept DEF BookInv
<1>4. /\ NodeBook(n) /\ applied[n] <= saved[n].index
      /\ agreed \in Seq(Entry) /\ Len(agreed) \in Nat
      /\ applied[n] \in 0..Len(agreed) /\ saved[n].index \in 0..Len(agreed)
      /\ capture[n].index \in 0..Len(agreed)
  BY <1>1, NodeIndexes DEF BookInv, NodeBook
<1>5. ReplayIn(agreed, applied[n]).stops \subseteq ReplayIn(agreed, saved[n].index).stops
  BY <1>4, ReplayFacts
<1>6. capture[n].index <= saved[n].index
  BY <1>4 DEF NodeBook
<1>7. NodeBook(n)'
  BY <1>1, <1>2, <1>4, <1>5, <1>6 DEF NodeBook
<1> QED BY <1>2, <1>3, <1>7 DEF BookInv

\* Restart leaves an empty replica, which is the replay of nothing.
LEMMA RestartKeepsBooks ==
  ASSUME RaftInv, BookInv, [Next]_vars, NEW n \in Node, Restart(n)
  PROVE  BookInv'
<1>1. /\ fsm' = [fsm EXCEPT ![n] = "idle"] /\ applied' = [applied EXCEPT ![n] = 0]
      /\ book' = [book EXCEPT ![n] = <<>>] /\ stops' = [stops EXCEPT ![n] = {}]
      /\ capture' = [capture EXCEPT ![n] = NoSnapshot] /\ tainted' = tainted \ {n}
      /\ UNCHANGED <<saved, agreed>>
  BY DEF Restart
<1>2. /\ applied'[n] = 0 /\ book'[n] = <<>> /\ stops'[n] = {} /\ fsm'[n] = "idle"
      /\ capture'[n] = NoSnapshot
      /\ book' = [p \in Node |-> book'[p]] /\ \A p \in Node \ {n} : Stays(p)
  BY <1>1, NodeVars DEF Stays
<1>3. \A p \in Node \ {n} : NodeBook(p)'
  BY <1>2, NodeKept DEF BookInv
<1>4. /\ capture'[n].index = 0 /\ capture'[n].orders = <<>>
      /\ WithoutIds(<<>>) = ReplayIn(agreed, 0).book
  <2>1. agreed \in Seq(Entry) /\ 0 \in 0..Len(agreed)
    BY NodeIndexes
  <2> QED BY <1>2, <2>1, ReplayFacts, EmptyWithoutIds DEF NoSnapshot, EmptyReplica
<1>5. NodeBook(n)'
  <2>1. /\ capture'[n].orders \in Seq(RestingOrder) /\ book'[n] \in Seq(RestingOrder)
        /\ WithoutIds(capture'[n].orders) = ReplayIn(agreed, capture'[n].index).book
        /\ WithoutIds(book'[n]) = ReplayIn(agreed, applied'[n]).book
    BY <1>2, <1>4, EmptyWithoutIds, Zenon
  <2>2. capture'[n].index <= applied'[n]
    BY <1>2, <1>4
  <2> QED BY <1>1, <1>2, <2>1, <2>2 DEF NodeBook, BookInv
<1> QED BY <1>2, <1>3, <1>5 DEF BookInv

\* FsmLoops needs an order with nothing left in the book, so a node whose book
\* is not the replay.
LEMMA FsmLoopsKeepsBooks ==
  ASSUME RaftInv, BookInv, [Next]_vars, NEW n \in Node, FsmLoops(n)
  PROVE  BookInv'
<1>1. /\ fsm' = [fsm EXCEPT ![n] = "looping"]
      /\ book[n] # <<>> /\ Head(book[n]).left = 0
      /\ UNCHANGED <<applied, book, stops, capture, saved, agreed, tainted>>
  BY DEF FsmLoops, Loops, clusterVars, replicaVars
<1>2. n \in tainted
  <2> SUFFICES ASSUME n \notin tainted
               PROVE  FALSE
    OBVIOUS
  <2> DEFINE w == WithoutIds(book[n])
  <2>1. w = ReplayIn(agreed, applied[n]).book /\ book[n] \in Seq(RestingOrder)
    BY DEF BookInv, NodeBook
  <2>2. ReplayIn(agreed, applied[n]) \in Replica
    BY NodeIndexes, ReplayFacts
  <2>3. w \in Seq(LoggedOrder) /\ 1 \in 1..Len(book[n]) /\ Head(book[n]) = book[n][1]
    BY <1>1, <2>1, <2>2 DEF Replica
  <2>4. Len(w) = Len(book[n]) /\ w[1] = [book[n][1] EXCEPT !.id = NoId]
    BY <2>1, <2>3, WithoutIdsShape
  <2> HIDE DEF w
  <2>5. w[1] \in LoggedOrder /\ book[n][1] \in RestingOrder
    BY <2>1, <2>3, <2>4
  <2>6. w[1].left = 1 /\ w[1].left = book[n][1].left
    BY <2>4, <2>5 DEF LoggedOrder, RestingOrder
  <2> QED BY <1>1, <2>3, <2>6
<1>3. \A p \in Node : Stays(p)
  BY <1>1, <1>2, NodeVars DEF Stays
<1> QED BY <1>1, <1>3, NodeKept DEF BookInv

\* Every step keeps the books.
LEMMA BookStep ==
  ASSUME RaftInv, BookInv, [Next]_vars
  PROVE  BookInv'
<1>1. CASE \E n \in Node : \E i \in DOMAIN book[n] : Cancel(n, i)
  BY <1>1, CancelKeepsBooks
<1>2. CASE \E n \in Node : FsmApplies(n) \/ FsmLoops(n) \/ RestoreEnds(n) \/ TakeSnapshot(n)
  BY <1>2, FsmAppliesKeepsBooks, FsmLoopsKeepsBooks, RestoreEndsKeepsBooks,
     TakeSnapshotKeepsBooks
<1>3. CASE \E n \in Node : Persist(n) \/ RestoreBegins(n) \/ Restart(n)
  BY <1>3, PersistKeepsBooks, RestoreBeginsKeepsBooks, RestartKeepsBooks
<1>4. CASE \/ LoseLeader \/ Agree \/ UNCHANGED vars
           \/ \E n \in Node : \/ Elect(n) \/ \E e \in Entry : Submit(n, e)
                              \/ StopBegins(n) \/ StopLocks(n) \/ StopReturns(n)
  <2>1. UNCHANGED <<applied, book, stops, capture, saved, tainted, fsm>>
    BY <1>4 DEF LoseLeader, Agree, vars, nodeVars, replicaVars, Elect, Submit, StopBegins, StopLocks, StopReturns
  <2>2. \A p \in Node : Stays(p)
    BY <2>1 DEF Stays
  <2> QED BY <2>1, <2>2, NodeKept DEF BookInv
<1>5. CASE \E n \in Node : FsmTakes(n) \/ SnapshotBegins(n)
  <2>1. PICK n \in Node : /\ \/ fsm' = [fsm EXCEPT ![n] = "applying"]
                             \/ fsm' = [fsm EXCEPT ![n] = "capturing"]
                          /\ UNCHANGED <<applied, book, stops, capture, saved, tainted>>
    BY <1>5 DEF FsmTakes, SnapshotBegins, replicaVars
  <2>2. \A p \in Node : Stays(p)
    BY <2>1, NodeVars DEF Stays
  <2> QED BY <2>1, <2>2, NodeKept DEF BookInv
<1> QED BY <1>1, <1>2, <1>3, <1>4, <1>5 DEF Next, Applying

\* The book of a replica is, but for the ids of its orders, which each node gives
\* itself, what the log makes of an empty one, through any snapshots, restores, elections and restarts, unless a cancel was made on the
\* node (engine.go 298) or the snapshot it was restored from was written while
\* its orders traded (node.go 151); and no match loops there.
THEOREM BooksAlwaysFollow == Spec => []BooksFollowTheLog
<1>1. Init => BookInv
  <2> SUFFICES ASSUME Init, NEW n \in Node
               PROVE  NodeBook(n)
    BY DEF Init, BookInv
  <2>1. agreed \in Seq(Entry) /\ 0 \in 0..Len(agreed)
    BY DEF Init
  <2>2. ReplayIn(agreed, 0) = EmptyReplica
    BY <2>1, ReplayFacts
  <2>3. /\ capture[n] = NoSnapshot /\ saved[n] = NoSnapshot /\ applied[n] = 0
        /\ book[n] = <<>> /\ stops[n] = {} /\ fsm[n] = "idle"
    BY DEF Init
  <2> QED BY <2>2, <2>3, EmptyWithoutIds DEF NodeBook, NoSnapshot, EmptyReplica
<1>2. BookInv => BooksFollowTheLog
  <2>1. \A i : Replay(i) = ReplayIn(agreed, i)
    BY DEF Replay, ReplayIn, ReplayOf, FrontOf, EmptyReplica
  <2> QED BY <2>1 DEF BookInv, NodeBook, BooksFollowTheLog
<1> QED BY <1>1, <1>2, BookStep, AlwaysRaftInv, PTL DEF Spec
=============================================================================
