--------------------------- MODULE SnowflakeProofs ---------------------------
(***************************************************************************)
(* The ids of Snowflake grow in a process and differ between nodes, for    *)
(* every number of nodes, width of the sequence and behaviour of the clock *)
(* up to the limit of the timestamp.                                       *)
(***************************************************************************)
EXTENDS Snowflake, TLAPS

(* What a generator knows of the ids it has issued: each is made of a      *)
(* moment up to its timestamp, its node and a sequence number.             *)

Moments == 0..ClockLimit
Numbers == 0..(SeqCount - 1)

TypeInv == /\ now \in Moments
           /\ timestamp \in [Nodes -> Moments \cup {Never}]
           /\ sequence \in [Nodes -> Numbers]
           /\ waiting \subseteq Nodes
           /\ ids \in [Nodes -> Seq(Nat)]

IssuedBy(n, id) == \E t \in Moments, s \in Numbers : id = Id(t, n, s)

IdsAreIssued == \A n \in Nodes : \A i \in DOMAIN ids[n] : IssuedBy(n, ids[n][i])

\* A generator that waits has used up its millisecond.
LastBound(n) == IF n \in waiting THEN Id(timestamp[n] + 1, n, 0)
                                 ELSE Id(timestamp[n], n, sequence[n]) + 1

IdsBelow == \A n \in Nodes : \A i \in DOMAIN ids[n] :
              /\ timestamp[n] \in Moments
              /\ ids[n][i] < LastBound(n)

WaitingHasTime == \A n \in waiting : timestamp[n] \in Moments /\ sequence[n] = 0

IInv == TypeInv /\ IdsAreIssued /\ IdsBelow /\ WaitingHasTime /\ IdsIncrease

-----------------------------------------------------------------------------
(* Arithmetic of the packed fields.                                        *)

\* A field that is smaller decides, whatever the fields below it are.
LEMMA HigherFieldDecides ==
  ASSUME NEW w \in Nat \ {0}, NEW a \in Int, NEW b \in Int,
         NEW r \in 0..(w - 1), NEW s \in 0..(w - 1), a < b
  PROVE  a * w + r < b * w + s
<1>1. a + 1 <= b
  OBVIOUS
<1>2. b - a - 1 \in Nat
  BY <1>1
<1>3. (b - a - 1) * w \in Nat
  BY <1>2
<1>4. (b - a - 1) * w = b * w - a * w - w
  OBVIOUS
<1>5. a * w \in Int /\ b * w \in Int
  OBVIOUS
<1> QED
  BY <1>3, <1>4, <1>5

\* Two numbers with the same packing have the same higher field.
LEMMA SamePackingSameField ==
  ASSUME NEW w \in Nat \ {0}, NEW a \in Int, NEW b \in Int,
         NEW r \in 0..(w - 1), NEW s \in 0..(w - 1), a * w + r = b * w + s
  PROVE  a = b
<1>1. CASE a < b
  <2>1. a * w + r < b * w + s
    BY <1>1, HigherFieldDecides
  <2>2. a * w \in Int /\ b * w \in Int
    OBVIOUS
  <2> QED
    BY <2>1, <2>2
<1>2. CASE b < a
  <2>1. b * w + s < a * w + r
    BY <1>2, HigherFieldDecides
  <2>2. a * w \in Int /\ b * w \in Int
    OBVIOUS
  <2> QED
    BY <2>1, <2>2
<1> QED
  BY <1>1, <1>2

\* Of two moments of one node the later has the greater ids.
LEMMA LaterIsGreater ==
  ASSUME NEW t \in Int, NEW u \in Int, t < u, NEW n \in Nodes,
         NEW r \in Numbers, NEW s \in Numbers
  PROVE  Id(t, n, r) < Id(u, n, s)
<1>1. n \in 0..(NodeCount - 1) /\ NodeCount \in Nat \ {0} /\ SeqCount \in Nat \ {0}
  BY SnowflakeAssumption
<1>2. t * NodeCount + n < u * NodeCount + n
  BY <1>1, HigherFieldDecides
<1>3. t * NodeCount + n \in Int /\ u * NodeCount + n \in Int
  BY <1>1
<1>4. (t * NodeCount + n) * SeqCount + r < (u * NodeCount + n) * SeqCount + s
  BY <1>1, <1>2, <1>3, HigherFieldDecides DEF Numbers
<1> QED
  BY <1>4 DEF Id

\* An id is a natural number.
LEMMA IdIsNat ==
  ASSUME NEW t \in Nat, NEW n \in Nodes, NEW s \in Numbers
  PROVE  Id(t, n, s) \in Nat
<1>1. n \in Nat /\ NodeCount \in Nat /\ SeqCount \in Nat /\ s \in Nat
  BY SnowflakeAssumption DEF Numbers
<1>2. t * NodeCount + n \in Nat
  BY <1>1
<1>3. (t * NodeCount + n) * SeqCount \in Nat
  BY <1>1, <1>2
<1> QED
  BY <1>1, <1>3 DEF Id

-----------------------------------------------------------------------------
(* Steps.                                                                  *)

\* The first state has all of it.
LEMMA InitInv == Init => IInv
<1> SUFFICES ASSUME Init PROVE IInv
  OBVIOUS
<1>1. \A n \in Nodes : DOMAIN ids[n] = {}
  <2>1. \A n \in Nodes : ids[n] = << >>
    BY DEF Init
  <2>2. DOMAIN << >> = {}
    OBVIOUS
  <2> QED
    BY <2>1, <2>2
<1>2. TypeInv
  BY SnowflakeAssumption DEF Init, TypeInv, Moments, Numbers
<1> QED
  BY <1>1, <1>2
     DEF Init, IInv, IdsAreIssued, IdsBelow, WaitingHasTime, IdsIncrease

\* What every way of issuing an id has in common: an id above those that a
\* node has issued keeps them in order.
LEMMA IssueKeepsOrder ==
  ASSUME IInv, NEW n \in Nodes, NEW t \in Moments, NEW s \in Numbers,
         \A i \in DOMAIN ids[n] : ids[n][i] < Id(t, n, s), Issue(n, t, s)
  PROVE  /\ ids' \in [Nodes -> Seq(Nat)]
         /\ IdsAreIssued'
         /\ IdsIncrease'
         /\ \A i \in DOMAIN ids'[n] : ids'[n][i] <= Id(t, n, s)
         /\ \A m \in Nodes \ {n} : ids'[m] = ids[m]
<1> DEFINE new == Id(t, n, s)
           old == ids[n]
<1>1. new \in Nat
  <2>1. t \in Nat
    BY SnowflakeAssumption DEF Moments
  <2> QED
    BY <2>1, IdIsNat
<1>2. ids \in [Nodes -> Seq(Nat)] /\ old \in Seq(Nat)
  BY DEF IInv, TypeInv
<1>3. ids' = [ids EXCEPT ![n] = Append(old, new)]
  BY DEF Issue
<1>4. Append(old, new) \in Seq(Nat)
  BY <1>1, <1>2
<1>5. /\ ids' \in [Nodes -> Seq(Nat)]
      /\ ids'[n] = Append(old, new)
      /\ \A m \in Nodes \ {n} : ids'[m] = ids[m]
  BY <1>2, <1>3, <1>4
<1> HIDE DEF new
<1>6. /\ DOMAIN old = 1..Len(old)
      /\ DOMAIN Append(old, new) = 1..(Len(old) + 1)
      /\ Len(old) \in Nat
      /\ Append(old, new)[Len(old) + 1] = new
      /\ \A i \in 1..Len(old) : Append(old, new)[i] = old[i] /\ old[i] \in Nat
  BY <1>1, <1>2
<1>7. \A i \in DOMAIN old : old[i] < new
  BY DEF new
<1>8. \A i \in DOMAIN ids'[n] : ids'[n][i] <= new
  BY <1>1, <1>5, <1>6, <1>7
<1>9. IssuedBy(n, new)
  BY DEF IssuedBy, new
<1>10. IdsAreIssued'
  <2> SUFFICES ASSUME NEW m \in Nodes, NEW i \in DOMAIN ids'[m]
               PROVE  IssuedBy(m, ids'[m][i])
    BY DEF IdsAreIssued, IssuedBy
  <2>1. CASE m # n
    BY <2>1, <1>5 DEF IInv, IdsAreIssued
  <2>2. CASE m = n /\ i = Len(old) + 1
    BY <2>2, <1>5, <1>6, <1>9
  <2>3. CASE m = n /\ i # Len(old) + 1
    <3>1. i \in DOMAIN old /\ ids'[m][i] = old[i]
      BY <2>3, <1>5, <1>6
    <3> QED
      BY <2>3, <3>1 DEF IInv, IdsAreIssued
  <2> QED
    BY <2>1, <2>2, <2>3
<1>11. IdsIncrease'
  <2> SUFFICES ASSUME NEW m \in Nodes, NEW i \in DOMAIN ids'[m],
                      NEW j \in DOMAIN ids'[m], i < j
               PROVE  ids'[m][i] < ids'[m][j]
    BY DEF IdsIncrease
  <2>1. CASE m # n
    BY <2>1, <1>5 DEF IInv, IdsIncrease
  <2>2. CASE m = n /\ j = Len(old) + 1
    BY <2>2, <1>5, <1>6, <1>7
  <2>3. CASE m = n /\ j # Len(old) + 1
    <3>1. /\ i \in DOMAIN old /\ j \in DOMAIN old
          /\ ids'[m][i] = old[i] /\ ids'[m][j] = old[j]
      BY <2>3, <1>5, <1>6
    <3> QED
      BY <2>3, <3>1 DEF IInv, IdsIncrease
  <2> QED
    BY <2>1, <2>2, <2>3
<1> QED
  BY <1>5, <1>8, <1>10, <1>11 DEF new

\* A generator whose timestamp the clock has passed may issue a new moment.
LEMMA NewMomentIsGreater ==
  ASSUME IInv, NEW n \in Nodes, NEW s \in Numbers, now > timestamp[n]
  PROVE  \A i \in DOMAIN ids[n] : ids[n][i] < Id(now, n, s)
<1> SUFFICES ASSUME NEW i \in DOMAIN ids[n] PROVE ids[n][i] < Id(now, n, s)
  OBVIOUS
<1>1. timestamp[n] \in Nat /\ now \in Nat /\ ids[n][i] < LastBound(n)
  BY SnowflakeAssumption DEF IInv, IdsBelow, TypeInv, Moments
<1>2. PICK t \in Moments, r \in Numbers : ids[n][i] = Id(t, n, r)
  BY DEF IInv, IdsAreIssued, IssuedBy
<1>3. t \in Nat
  BY SnowflakeAssumption DEF Moments
<1>4. 0 \in Numbers /\ sequence[n] \in Numbers
  BY SnowflakeAssumption DEF IInv, TypeInv, Numbers
<1>5. CASE t < now
  BY <1>1, <1>2, <1>3, <1>5, LaterIsGreater
<1>6. CASE t >= now
  <2>1. Id(timestamp[n], n, sequence[n]) < Id(t, n, r)
    BY <1>1, <1>3, <1>4, <1>6, LaterIsGreater
  <2>2. /\ Id(timestamp[n] + 1, n, 0) \in Nat
        /\ Id(timestamp[n], n, sequence[n]) \in Nat
        /\ Id(t, n, r) \in Nat
    BY <1>1, <1>3, <1>4, IdIsNat
  <2>3. n \in waiting
    BY <1>1, <1>2, <2>1, <2>2 DEF LastBound
  <2>4. Id(t, n, r) < Id(timestamp[n] + 1, n, 0)
    BY <1>1, <1>2, <2>3 DEF LastBound
  <2>5. Id(t, n, 0) <= Id(t, n, r)
    BY <1>2, <1>3, <1>4, IdIsNat, SnowflakeAssumption DEF Id, Numbers
  <2>6. CASE t > timestamp[n] + 1
    <3>1. Id(timestamp[n] + 1, n, 0) < Id(t, n, r)
      BY <1>1, <1>3, <1>4, <2>6, LaterIsGreater
    <3> QED
      BY <3>1, <2>2, <2>4
  <2>7. CASE t = timestamp[n] + 1
    <3>1. Id(t, n, 0) \in Nat
      BY <1>3, <1>4, IdIsNat
    <3> QED
      BY <3>1, <2>2, <2>4, <2>5, <2>7
  <2> QED
    BY <1>1, <1>3, <1>6, <2>6, <2>7
<1> QED
  BY <1>1, <1>3, <1>5, <1>6

\* The step that issues an id at moment t with number s, where the timestamp
\* and the sequence become t and s.
LEMMA IssueStep ==
  ASSUME IInv, NEW n \in Nodes, NEW s \in Numbers,
         \A i \in DOMAIN ids[n] : ids[n][i] < Id(now, n, s), Issue(n, now, s),
         timestamp' = [timestamp EXCEPT ![n] = now],
         sequence' = [sequence EXCEPT ![n] = s],
         waiting' = waiting \ {n}, now' = now
  PROVE  IInv'
<1>1. /\ ids' \in [Nodes -> Seq(Nat)]
      /\ IdsAreIssued'
      /\ IdsIncrease'
      /\ \A i \in DOMAIN ids'[n] : ids'[n][i] <= Id(now, n, s)
      /\ \A m \in Nodes \ {n} : ids'[m] = ids[m]
  BY IssueKeepsOrder DEF IInv, TypeInv
<1>2. TypeInv'
  BY <1>1 DEF IInv, TypeInv
<1>3. /\ timestamp'[n] = now /\ sequence'[n] = s /\ n \notin waiting'
      /\ now \in Moments
  BY DEF IInv, TypeInv
<1>4. IdsBelow'
  <2> SUFFICES ASSUME NEW m \in Nodes, NEW i \in DOMAIN ids'[m]
               PROVE  timestamp'[m] \in Moments /\ ids'[m][i] < LastBound(m)'
    BY DEF IdsBelow
  <2>1. CASE m # n
    <3>1. /\ timestamp'[m] = timestamp[m] /\ sequence'[m] = sequence[m]
          /\ m \in waiting' <=> m \in waiting
      BY <2>1 DEF IInv, TypeInv
    <3>2. LastBound(m)' = LastBound(m)
      BY <3>1 DEF LastBound, Id
    <3> QED
      BY <2>1, <3>1, <3>2, <1>1 DEF IInv, IdsBelow
  <2>2. CASE m = n
    <3>1. LastBound(n)' = Id(now, n, s) + 1
      BY <1>3 DEF LastBound, Id
    <3>2. Id(now, n, s) \in Nat
      BY <1>3, IdIsNat, SnowflakeAssumption DEF Moments
    <3>3. ids'[n][i] \in Nat
      BY <1>1, <2>2
    <3> QED
      BY <1>1, <1>3, <2>2, <3>1, <3>2, <3>3
  <2> QED
    BY <2>1, <2>2
<1>5. WaitingHasTime'
  BY DEF IInv, TypeInv, WaitingHasTime
<1> QED
  BY <1>1, <1>2, <1>4, <1>5 DEF IInv

\* Every step keeps all of it.
LEMMA StepInv == IInv /\ [Next]_vars => IInv'
<1> SUFFICES ASSUME IInv, [Next]_vars PROVE IInv'
  OBVIOUS
<1>1. CASE ClockMoves
  BY <1>1 DEF ClockMoves, IInv, TypeInv, Moments, IdsAreIssued, IdsBelow,
              LastBound, WaitingHasTime, IdsIncrease
<1>2. ASSUME NEW n \in Nodes, ClockBehind(n) PROVE IInv'
  BY <1>2 DEF ClockBehind, IInv, TypeInv, IdsAreIssued, IdsBelow, LastBound,
              WaitingHasTime, IdsIncrease
<1>3. ASSUME NEW n \in Nodes, NewMillisecond(n) PROVE IInv'
  <2>1. 0 \in Numbers
    BY SnowflakeAssumption DEF Numbers
  <2>2. waiting' = waiting \ {n}
    BY <1>3 DEF NewMillisecond, Ready
  <2>3. \A i \in DOMAIN ids[n] : ids[n][i] < Id(now, n, 0)
    BY <1>3, <2>1, NewMomentIsGreater DEF NewMillisecond
  <2> QED
    BY <1>3, <2>1, <2>2, <2>3, IssueStep DEF NewMillisecond
<1>4. ASSUME NEW n \in Nodes, SameMillisecond(n) PROVE IInv'
  <2> DEFINE s == NextSequence(n)
  <2>1. /\ sequence[n] \in Nat /\ sequence[n] < SeqCount
        /\ SeqCount \in Nat \ {0}
    BY SnowflakeAssumption DEF IInv, TypeInv, Numbers
  <2>2. s = sequence[n] + 1 /\ s \in Numbers
    BY <1>4, <2>1 DEF SameMillisecond, NextSequence, Numbers
  <2>3. n \notin waiting /\ timestamp[n] = now /\ now \in Moments
    BY <1>4 DEF SameMillisecond, Ready, IInv, TypeInv
  <2>4. \A i \in DOMAIN ids[n] : ids[n][i] < Id(now, n, s)
    <3>1. LastBound(n) = Id(now, n, sequence[n]) + 1
      BY <2>3 DEF LastBound
    <3>2. Id(now, n, s) = Id(now, n, sequence[n]) + 1
      BY <2>1, <2>2, <2>3, SnowflakeAssumption DEF Id, Moments
    <3> QED
      BY <3>1, <3>2 DEF IInv, IdsBelow
  <2>5. timestamp' = [timestamp EXCEPT ![n] = now] /\ waiting' = waiting \ {n}
    BY <1>4, <2>3 DEF SameMillisecond, IInv, TypeInv
  <2> QED
    BY <1>4, <2>2, <2>4, <2>5, IssueStep DEF SameMillisecond
<1>5. ASSUME NEW n \in Nodes, Exhausted(n) PROVE IInv'
  <2>1. /\ sequence[n] \in Numbers /\ 0 \in Numbers /\ n \notin waiting
        /\ timestamp[n] = now /\ now \in Moments /\ now \in Nat
    BY <1>5, SnowflakeAssumption
       DEF Exhausted, Ready, IInv, TypeInv, Numbers, Moments
  <2>2. TypeInv'
    BY <1>5, <2>1 DEF Exhausted, IInv, TypeInv
  <2>3. IdsBelow'
    <3> SUFFICES ASSUME NEW m \in Nodes, NEW i \in DOMAIN ids[m]
                 PROVE  timestamp[m] \in Moments /\ ids[m][i] < LastBound(m)'
      BY <1>5 DEF Exhausted, IdsBelow
    <3>1. CASE m # n
      <4>1. LastBound(m)' = LastBound(m)
        BY <1>5, <3>1 DEF Exhausted, LastBound, Id, IInv, TypeInv
      <4> QED
        BY <4>1 DEF IInv, IdsBelow
    <3>2. CASE m = n
      <4>1. LastBound(n)' = Id(now + 1, n, 0)
        BY <1>5, <2>1 DEF Exhausted, LastBound, Id
      <4>2. LastBound(n) = Id(now, n, sequence[n]) + 1
        BY <2>1 DEF LastBound
      <4>3. Id(now, n, sequence[n]) < Id(now + 1, n, 0)
        BY <2>1, LaterIsGreater
      <4>4. /\ Id(now, n, sequence[n]) \in Nat /\ Id(now + 1, n, 0) \in Nat
        BY <2>1, IdIsNat
      <4>5. ids[n] \in Seq(Nat) /\ ids[n][i] \in Nat
        BY <3>2 DEF IInv, TypeInv
      <4>6. ids[n][i] < LastBound(n)
        BY <3>2 DEF IInv, IdsBelow
      <4> QED
        BY <2>1, <3>2, <4>1, <4>2, <4>3, <4>4, <4>5, <4>6
    <3> QED
      BY <3>1, <3>2
  <2>4. WaitingHasTime'
    BY <1>5, <2>1 DEF Exhausted, IInv, TypeInv, WaitingHasTime
  <2>5. IdsAreIssued' /\ IdsIncrease'
    BY <1>5 DEF Exhausted, IInv, IdsAreIssued, IdsIncrease
  <2> QED
    BY <2>2, <2>3, <2>4, <2>5 DEF IInv
<1>6. ASSUME NEW n \in Nodes, StopWaiting(n) PROVE IInv'
  <2>1. sequence[n] = 0 /\ 0 \in Numbers
    BY <1>6, SnowflakeAssumption DEF StopWaiting, IInv, WaitingHasTime, Numbers
  <2>2. sequence' = [sequence EXCEPT ![n] = 0]
    BY <1>6, <2>1 DEF StopWaiting, IInv, TypeInv
  <2>3. \A i \in DOMAIN ids[n] : ids[n][i] < Id(now, n, 0)
    BY <1>6, <2>1, NewMomentIsGreater DEF StopWaiting
  <2> QED
    BY <1>6, <2>1, <2>2, <2>3, IssueStep DEF StopWaiting
<1>7. CASE UNCHANGED vars
  BY <1>7 DEF vars, IInv, TypeInv, IdsAreIssued, IdsBelow, LastBound,
              WaitingHasTime, IdsIncrease
<1> QED
  BY <1>1, <1>2, <1>3, <1>4, <1>5, <1>6, <1>7 DEF Next, Generate

-----------------------------------------------------------------------------

\* Ids of two nodes differ, because the node is a field of its own.
LEMMA NodeIsAField == IInv => NodesDisagree
<1> SUFFICES ASSUME IInv, NEW m \in Nodes, NEW n \in Nodes, m # n,
                    NEW i \in DOMAIN ids[m], NEW j \in DOMAIN ids[n],
                    ids[m][i] = ids[n][j]
             PROVE  FALSE
  BY DEF NodesDisagree
<1>1. PICK t \in Moments, r \in Numbers : ids[m][i] = Id(t, m, r)
  BY DEF IInv, IdsAreIssued, IssuedBy
<1>2. PICK u \in Moments, s \in Numbers : ids[n][j] = Id(u, n, s)
  BY DEF IInv, IdsAreIssued, IssuedBy
<1>3. /\ t \in Int /\ u \in Int
      /\ m \in 0..(NodeCount - 1) /\ n \in 0..(NodeCount - 1)
      /\ NodeCount \in Nat \ {0} /\ SeqCount \in Nat \ {0}
  BY SnowflakeAssumption DEF Moments
<1>4. t * NodeCount + m \in Int /\ u * NodeCount + n \in Int
  BY <1>3
<1>5. t * NodeCount + m = u * NodeCount + n
  BY <1>1, <1>2, <1>3, <1>4, SamePackingSameField DEF Id, Numbers
<1>6. t = u
  BY <1>3, <1>5, SamePackingSameField
<1>7. t * NodeCount \in Int
  BY <1>3
<1> QED
  BY <1>3, <1>5, <1>6, <1>7

\* In a process the ids grow, however the clock moves and however many are
\* asked for in a millisecond (Generate, sequence.go).
THEOREM IdsAlwaysIncrease == Spec => []IdsIncrease
<1>1. IInv => IdsIncrease
  BY DEF IInv
<1> QED
  BY <1>1, InitInv, StepInv, PTL DEF Spec

\* No id is generated by two nodes (Generate, sequence.go).
THEOREM NodesAlwaysDisagree == Spec => []NodesDisagree
<1> QED
  BY NodeIsAField, InitInv, StepInv, PTL DEF Spec
=============================================================================
