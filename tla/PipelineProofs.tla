--------------------------- MODULE PipelineProofs ---------------------------
(***************************************************************************)
(* Proofs about EngineCalls, for any callers, orders and capacity, and     *)
(* about OrderPipeline, for any clients, configurations, requests and      *)
(* bounds: that its calls are such an engine's, and what the consumer does *)
(* with messages.                                                          *)
(***************************************************************************)
EXTENDS PipelineProperties, SequenceTheorems, TLAPS

-----------------------------------------------------------------------------
(* Callers and Stop, standalone.                                           *)

\* The values of what the argument is about.
CallsShape ==
  /\ mu \in [readers: SUBSET Caller, writer: {NoWriter, Stopper}]
  /\ running \in BOOLEAN /\ closed \in BOOLEAN
  /\ call \in [Caller -> [at: Returned \cup Inside \cup Waiting,
                          order: Order \cup {NoOrder}]]

\* Whoever is inside holds the read lock; whoever stands at the send found the
\* engine running.
LockIsHeld == \A c \in Caller : call[c].at \in Inside => c \in mu.readers
SenderSawRunning == \A c \in Caller : At(c, "send") => running

\* A process that has not started has a fresh lock and channel and no callers, and a stopped
\* engine stays stopped.
NothingBeforeStart == ~Up => mu = Unlocked /\ ~closed /\ call = NoCall
ClosedIsStopped == closed => ~running

CallsInv == CallsShape /\ LockIsHeld /\ SenderSawRunning /\ NothingBeforeStart
              /\ ClosedIsStopped

\* Nobody is in the engine at first.
LEMMA NoCallIsIdle ==
  /\ NoCall \in [Caller -> [at: Returned \cup Inside \cup Waiting,
                           order: Order \cup {NoOrder}]]
  /\ \A c \in Caller : NoCall[c].at = "idle"
  BY DEF NoCall, Returned

\* Fresh memory, as Init leaves it,
LEMMA FreshInvariant == EngineInit => CallsInv
<1> SUFFICES ASSUME EngineInit
             PROVE  CallsInv
  OBVIOUS
<1>1. CallsShape
  BY NoCallIsIdle DEF EngineInit, CallsShape, Unlocked
<1>2. \A c \in Caller : call[c].at = "idle"
  BY NoCallIsIdle DEF EngineInit
<1>3. (LockIsHeld /\ SenderSawRunning)
  BY <1>2 DEF LockIsHeld, SenderSawRunning, At, Inside
<1> QED
  BY <1>1, <1>3 DEF EngineInit, CallsInv, NothingBeforeStart, ClosedIsStopped

\* and as the death of a process does.
LEMMA DownInvariant == Down => CallsInv'
<1> SUFFICES ASSUME Down
             PROVE  CallsInv'
  OBVIOUS
<1>1. CallsShape'
  BY NoCallIsIdle DEF Down, CallsShape, Unlocked
<1>2. \A c \in Caller : call'[c].at = "idle"
  BY NoCallIsIdle DEF Down
<1>3. (LockIsHeld /\ SenderSawRunning)'
  BY <1>2 DEF LockIsHeld, SenderSawRunning, At, Inside
<1> QED
  BY <1>1, <1>3 DEF Down, CallsInv, NothingBeforeStart, ClosedIsStopped

\* Start changes neither the lock nor a caller, and finds a fresh channel.
LEMMA StartInvariant == CallsInv /\ StartEngine => CallsInv'
  BY DEF StartEngine, CallsInv, CallsShape, LockIsHeld, SenderSawRunning,
         NothingBeforeStart, ClosedIsStopped, Up, At

\* A caller that begins a call is not inside yet.
LEMMA CallInvariant ==
  ASSUME NEW c \in Caller, NEW operation \in Waiting,
         NEW o \in Order \cup {NoOrder}, CallsInv, Calls(c, operation, o)
  PROVE  CallsInv'
  BY DEF Calls, CallsInv, CallsShape, LockIsHeld, SenderSawRunning,
         NothingBeforeStart, ClosedIsStopped, Up, At, Returned, Inside, Waiting

\* SubmitOrder goes to the send only under the lock of a running engine.
LEMMA EnterSubmitInvariant ==
  ASSUME NEW c \in Caller, NEW acceptable \in BOOLEAN, CallsInv,
         EnterSubmit(c, acceptable)
  PROVE  CallsInv'
<1>1. call[c].at = "submit"
  BY DEF EnterSubmit, At
<1>2. Up
  BY <1>1, NoCallIsIdle DEF CallsInv, NothingBeforeStart
<1>3. CallsShape'
  BY DEF EnterSubmit, CallsInv, CallsShape, Moved, RLock, RUnlock, Returned, Inside, Waiting
<1>4. LockIsHeld'
  BY DEF EnterSubmit, CallsInv, CallsShape, LockIsHeld, Moved, RLock, RUnlock, Inside
<1>5. SenderSawRunning'
  BY DEF EnterSubmit, CallsInv, CallsShape, SenderSawRunning, Moved, At
<1> QED
  BY <1>2, <1>3, <1>4, <1>5
  DEF EnterSubmit, CallsInv, NothingBeforeStart, ClosedIsStopped, Up

\* CancelOrder takes the lock as well; it does not ask whether the engine runs.
LEMMA EnterCancelInvariant ==
  ASSUME NEW c \in Caller, NEW found \in BOOLEAN, CallsInv,
         EnterCancel(c, found)
  PROVE  CallsInv'
<1>1. call[c].at = "cancel"
  BY DEF EnterCancel, At
<1>2. Up
  BY <1>1, NoCallIsIdle DEF CallsInv, NothingBeforeStart
<1>3. CallsShape'
  BY DEF EnterCancel, CallsInv, CallsShape, Moved, RLock, RUnlock, Returned, Inside, Waiting
<1>4. LockIsHeld'
  BY DEF EnterCancel, CallsInv, CallsShape, LockIsHeld, Moved, RLock, RUnlock, Inside
<1>5. SenderSawRunning'
  BY DEF EnterCancel, CallsInv, CallsShape, SenderSawRunning, Moved, At
<1> QED
  BY <1>2, <1>3, <1>4, <1>5
  DEF EnterCancel, CallsInv, NothingBeforeStart, ClosedIsStopped, Up

\* A caller that leaves gives back its own lock and no other.
LEMMA LeaveInvariant ==
  ASSUME NEW c \in Caller, CallsInv, Send(c) \/ LeaveCancel(c)
  PROVE  CallsInv'
<1>1. call[c].at \in Inside
  BY DEF Send, LeaveCancel, At, Inside
<1>2. Up
  BY <1>1, NoCallIsIdle DEF CallsInv, NothingBeforeStart, Inside
<1>3. CallsShape'
  BY DEF Send, LeaveCancel, CallsInv, CallsShape, Moved, RLock, RUnlock, Returned, Inside, Waiting
<1>4. LockIsHeld'
  BY DEF Send, LeaveCancel, CallsInv, CallsShape, LockIsHeld, Moved, RLock, RUnlock, Inside
<1>5. SenderSawRunning'
  BY DEF Send, LeaveCancel, CallsInv, CallsShape, SenderSawRunning, Moved, At
<1> QED
  BY <1>2, <1>3, <1>4, <1>5
  DEF Send, LeaveCancel, CallsInv, NothingBeforeStart, ClosedIsStopped, Up

\* The goroutine of processOrders touches neither the lock nor a caller.
LEMMA WorkerInvariant == CallsInv /\ (Take \/ Processed \/ WorkerEnds) => CallsInv'
  BY DEF Take, Processed, WorkerEnds, CallsInv, CallsShape, LockIsHeld,
         SenderSawRunning, NothingBeforeStart, ClosedIsStopped, Up, At

\* Stop announces itself; it closes the channel when nobody is inside.
LEMMA StopInvariant == CallsInv /\ (StopBegins \/ StopReturns) => CallsInv'
<1>1. ASSUME CallsInv, StopBegins
      PROVE  CallsInv'
  BY <1>1, CallsAssumption
  DEF StopBegins, CallsInv, CallsShape, LockIsHeld, SenderSawRunning,
      NothingBeforeStart, ClosedIsStopped, Up, At, CanAnnounce, Announce
<1>2. ASSUME CallsInv, StopReturns
      PROVE  CallsInv'
  <2>1. Up
    BY <1>2, CallsAssumption
    DEF StopReturns, CallsInv, NothingBeforeStart, CanLock, Unlocked
  <2>2. \A c \in Caller : call[c].at \notin Inside
    BY <1>2 DEF StopReturns, CallsInv, LockIsHeld, CanLock
  <2> QED
    BY <1>2, <2>1, <2>2, CallsAssumption
    DEF StopReturns, CallsInv, CallsShape, LockIsHeld, SenderSawRunning,
        NothingBeforeStart, ClosedIsStopped, Up, At, Unlock, Inside
<1> QED
  BY <1>1, <1>2

\* Every step of the engine and its callers keeps the invariant.
THEOREM EngineStepInvariant == CallsInv /\ [EngineNext]_engineVars => CallsInv'
<1> SUFFICES ASSUME CallsInv, [EngineNext]_engineVars
             PROVE  CallsInv'
  OBVIOUS
<1>1. CASE StartEngine
  BY <1>1, StartInvariant
<1>2. ASSUME NEW c \in Caller, NEW operation \in Waiting,
             NEW o \in Order \cup {NoOrder}, Calls(c, operation, o)
      PROVE  CallsInv'
  BY <1>2, CallInvariant
<1>3. ASSUME NEW c \in Caller, NEW acceptable \in BOOLEAN,
             EnterSubmit(c, acceptable)
      PROVE  CallsInv'
  BY <1>3, EnterSubmitInvariant
<1>4. ASSUME NEW c \in Caller, NEW found \in BOOLEAN, EnterCancel(c, found)
      PROVE  CallsInv'
  BY <1>4, EnterCancelInvariant
<1>5. ASSUME NEW c \in Caller, Send(c) \/ LeaveCancel(c)
      PROVE  CallsInv'
  BY <1>5, LeaveInvariant
<1>6. CASE Take \/ Processed \/ WorkerEnds
  BY <1>6, WorkerInvariant
<1>7. CASE StopBegins \/ StopReturns
  BY <1>7, StopInvariant
<1>8. CASE Down
  BY <1>8, DownInvariant
<1>9. CASE UNCHANGED engineVars
  BY <1>9
  DEF engineVars, CallsInv, CallsShape, LockIsHeld, SenderSawRunning,
      NothingBeforeStart, ClosedIsStopped, Up, At
<1> QED
  BY <1>1, <1>2, <1>3, <1>4, <1>5, <1>6, <1>7, <1>8, <1>9 DEF EngineNext

\* Nobody ever stands at the send of SubmitOrder when the channel is closed, so
\* Stop never makes a submitter panic (engine.go 162-218): the read lock is held
\* from the check of running to the send, and Stop closes under the write lock.
THEOREM ClosedAlwaysQuiet == EngineSpec => []ClosedIsQuiet
<1>1. CallsInv => ClosedIsQuiet
  BY DEF CallsInv, ClosedIsStopped, SenderSawRunning, ClosedIsQuiet
<1> QED
  BY <1>1, FreshInvariant, EngineStepInvariant, PTL DEF EngineSpec

-----------------------------------------------------------------------------
(* The program is an engine as EngineCalls has it.                         *)

\* A sequence, of whatever.
IsSequence(s) == s \in Seq({s[i] : i \in DOMAIN s})

\* A function on 1..n is a sequence.
LEMMA SequenceIntro ==
  ASSUME NEW s, NEW n \in Nat, s = [i \in 1..n |-> s[i]]
  PROVE  IsSequence(s) /\ Len(s) = n
<1> DEFINE S == {s[i] : i \in DOMAIN s}
<1>1. s \in [1..n -> S]
  OBVIOUS
<1>2. s \in Seq(S)
  BY <1>1, IsASeq
<1>3. Len(s) = n
  BY <1>1, <1>2, LenProperties
<1> QED
  BY <1>2, <1>3 DEF IsSequence

\* A sequence is the function on 1..Len.
LEMMA SequenceElim ==
  ASSUME NEW s, IsSequence(s)
  PROVE  /\ Len(s) \in Nat
         /\ DOMAIN s = 1..Len(s)
         /\ s = [i \in 1..Len(s) |-> s[i]]
<1> DEFINE S == {s[i] : i \in DOMAIN s}
<1>1. s \in Seq(S)
  BY DEF IsSequence
<1>2. /\ Len(s) \in Nat
      /\ s \in [1..Len(s) -> S]
  BY <1>1, LenProperties
<1> QED
  BY <1>2

\* So is one more element behind it,
LEMMA AppendIsSequence ==
  ASSUME NEW s, NEW e, IsSequence(s)
  PROVE  IsSequence(Append(s, e)) /\ Len(Append(s, e)) = Len(s) + 1
<1> DEFINE S == {s[i] : i \in DOMAIN s} \cup {e}
<1>1. s \in Seq(S)
  BY SeqMonotonic DEF IsSequence
<1>2. /\ Append(s, e) \in Seq(S)
      /\ Len(Append(s, e)) = Len(s) + 1
  BY <1>1, AppendProperties
<1>3. Append(s, e) = [i \in 1..Len(Append(s, e)) |-> Append(s, e)[i]]
  BY <1>2, LenProperties
<1>4. Len(Append(s, e)) \in Nat
  BY <1>2, LenProperties
<1> QED
  BY <1>2, <1>3, <1>4, SequenceIntro

\* and any other function on its positions.
LEMMA SameDomainIsSequence ==
  ASSUME NEW s, NEW t, IsSequence(s), t = [i \in DOMAIN s |-> t[i]]
  PROVE  IsSequence(t) /\ Len(t) = Len(s)
<1>1. /\ Len(s) \in Nat
      /\ DOMAIN s = 1..Len(s)
  BY SequenceElim
<1>2. t = [i \in 1..Len(s) |-> t[i]]
  BY <1>1
<1> QED
  BY <1>1, <1>2, SequenceIntro

-----------------------------------------------------------------------------
(* What is in memory and in the topics is numbered without a gap.          *)

TopicsAreSequences ==
  /\ topic = [kind \in Kind |-> topic[kind]]
  /\ \A kind \in Kind : IsSequence(topic[kind])

MemoryInv == IsSequence(heap) /\ TopicsAreSequences

\* A message more in one topic.
LEMMA TopicGrows ==
  ASSUME NEW kind, NEW message, TopicsAreSequences,
         topic' = [topic EXCEPT ![kind] = Append(@, message)]
  PROVE  TopicsAreSequences'
<1>1. topic' = [k \in Kind |-> topic'[k]]
  BY DEF TopicsAreSequences
<1>2. ASSUME NEW k \in Kind
      PROVE  IsSequence(topic'[k])
  <2>1. CASE k = kind
    <3>1. topic'[k] = Append(topic[k], message)
      BY <2>1 DEF TopicsAreSequences
    <3> QED
      BY <3>1, AppendIsSequence DEF TopicsAreSequences
  <2>2. CASE k # kind
    <3>1. topic'[k] = topic[k]
      BY <2>2 DEF TopicsAreSequences
    <3> QED
      BY <3>1 DEF TopicsAreSequences
  <2> QED
    BY <2>1, <2>2
<1> QED
  BY <1>1, <1>2 DEF TopicsAreSequences

\* At first there is nothing.
LEMMA MemoryInit == Init => MemoryInv
<1> SUFFICES ASSUME Init
             PROVE  MemoryInv
  OBVIOUS
<1>1. IsSequence(<<>>)
  BY EmptySeq DEF IsSequence
<1> QED
  BY <1>1 DEF Init, SinksInit, MemoryInv, TopicsAreSequences

\* The steps that add an order to memory.
LEMMA HeapGrows ==
  ASSUME IsSequence(heap),
         \/ \E c \in Client : ClientCalls(c)
         \/ MessageDelivered
  PROVE  \/ heap' = heap
         \/ Len(heap) < MaxObjects /\ \E o : heap' = Append(heap, o)
<1>1. ASSUME NEW c \in Client, ClientCalls(c)
      PROVE  heap' = heap \/ (Len(heap) < MaxObjects /\ \E o : heap' = Append(heap, o))
  BY <1>1 DEF ClientCalls
<1>2. CASE MessageDelivered
  BY <1>2 DEF MessageDelivered
<1> QED
  BY <1>1, <1>2

\* The steps that change orders.
ChangesOrders == \/ ProcessDies
                 \/ \E c \in Client : CancelTakes(c) \/ CancelMarks(c)
                 \/ TakeOrder \/ ParkStop \/ RestOrder
                 \/ \E filled \in SUBSET {job, maker} : FillMaker(filled)

\* They keep the number of orders.
LEMMA HeapStays ==
  ASSUME ChangesOrders
  PROVE  heap' = [o \in DOMAIN heap |-> heap'[o]]
<1>1. CASE ProcessDies
  BY <1>1 DEF ProcessDies
<1>2. ASSUME NEW c \in Client, CancelTakes(c) \/ CancelMarks(c)
      PROVE  heap' = [p \in DOMAIN heap |-> heap'[p]]
  BY <1>2 DEF CancelTakes, CancelMarks
<1>3. CASE TakeOrder \/ ParkStop
  BY <1>3 DEF TakeOrder, ParkStop
<1>4. ASSUME NEW filled \in SUBSET {job, maker}, FillMaker(filled)
      PROVE  heap' = [p \in DOMAIN heap |-> heap'[p]]
  BY <1>4 DEF FillMaker
<1>5. CASE RestOrder
  BY <1>5 DEF RestOrder
<1> QED
  BY <1>1, <1>2, <1>3, <1>4, <1>5 DEF ChangesOrders

\* The steps that leave the orders as they are, and those that send messages.
LEMMA OtherSteps ==
  ASSUME Next
  PROVE  \/ \E c \in Client : ClientCalls(c)
         \/ MessageDelivered
         \/ ChangesOrders
         \/ \E e \in Emitter : HandleEvent(e)
         \/ ProcessMessages \/ Delivery
         \/ UpstreamSends
         \/ UNCHANGED <<heap, topic>>
<1>1. CASE MainStep
  BY <1>1
  DEF MainStep, StartProcess, Signal, GracefulStop, HttpShutdown, CloseConsumer,
      StopEngine, EngineStopped, CloseProducers, MainGoes, sinkVars, Exit,
      SendPanics, ChangesOrders
<1>2. CASE Crash
  BY <1>2 DEF Crash, ChangesOrders
<1>3. ASSUME NEW c \in Caller, InCall(c)
      PROVE  \/ ChangesOrders
             \/ \E e \in Emitter : HandleEvent(e)
             \/ UNCHANGED <<heap, topic>>
  <2>1. c \in Client => c \in Emitter
    BY PipelineAssumption DEF PipelineEmitter
  <2> QED
    BY <1>3, <2>1
    DEF InCall, SubmitEnters, SubmitSends, CancelMisses, CancelReturns, sinkVars,
        ChangesOrders
<1>4. CASE Matching
  <2>1. Matcher \in Emitter
    BY PipelineAssumption DEF PipelineEmitter
  <2> QED
    BY <1>4, <2>1
    DEF Matching, ChooseMaker, MatchEnds, OrderDone, ChannelDone, wireVars, sinkVars,
        ChangesOrders
<1>5. CASE Consuming
  BY <1>5
  DEF Consuming, SessionOpens, SessionPanics, SessionEnds, OffsetsCommitted,
      MessageHandled, sinkVars, ChangesOrders
<1> QED
  BY <1>1, <1>2, <1>3, <1>4, <1>5 DEF Next

\* The brokers write behind what they have.
LEMMA AttemptKeepsMemory ==
  ASSUME MemoryInv, NEW kind \in Kind, NEW from, BrokersTry(kind, from)
  PROVE  MemoryInv'
<1>1. heap' = heap
  BY DEF BrokersTry, Attempt
<1>2. \/ topic' = topic
      \/ \E m : topic' = [topic EXCEPT ![kind] = Append(@, m)]
  BY DEF BrokersTry, Attempt
<1> QED
  BY <1>1, <1>2, TopicGrows DEF MemoryInv, TopicsAreSequences

\* Every step keeps memory and topics numbered.
LEMMA MemoryStep == MemoryInv /\ [Next]_vars => MemoryInv'
<1> SUFFICES ASSUME MemoryInv, [Next]_vars
             PROVE  MemoryInv'
  OBVIOUS
<1>1. CASE UNCHANGED <<heap, topic>>
  BY <1>1 DEF MemoryInv, TopicsAreSequences
<1>2. CASE MessageDelivered \/ \E c \in Client : ClientCalls(c)
  <2>1. topic' = topic
    BY <1>2 DEF MessageDelivered, ClientCalls, diskVars
  <2>2. IsSequence(heap')
    BY <1>2, HeapGrows, AppendIsSequence DEF MemoryInv
  <2> QED
    BY <2>1, <2>2 DEF MemoryInv, TopicsAreSequences
<1>3. CASE ChangesOrders
  <2>1. topic' = topic
    BY <1>3
    DEF ChangesOrders, ProcessDies, CancelTakes, CancelMarks, TakeOrder, ParkStop,
        FillMaker, RestOrder, diskVars, wireVars
  <2>2. IsSequence(heap')
    BY <1>3, HeapStays, SameDomainIsSequence DEF MemoryInv
  <2> QED
    BY <2>1, <2>2 DEF MemoryInv, TopicsAreSequences
<1>4. ASSUME NEW e \in Emitter, HandleEvent(e)
      PROVE  MemoryInv'
  <2>1. CASE \E kind \in Kind : BrokersTry(kind, e)
    BY <2>1, AttemptKeepsMemory
  <2>2. CASE ~\E kind \in Kind : BrokersTry(kind, e)
    <3>1. UNCHANGED <<heap, topic>>
      BY <1>4, <2>2
      DEF HandleEvent, ReadRecord, WriteRow, Publish, Enqueue, Marshal,
          PublishNothing, SendMessage, wireVars
    <3> QED
      BY <3>1, <1>1
  <2> QED
    BY <2>1, <2>2
<1>5. CASE ProcessMessages \/ Delivery
  <2>1. CASE ProcessMessages
    BY <1>1, <2>1 DEF ProcessMessages, ProcessMessage
  <2>2. CASE Delivery
    BY <2>2, AttemptKeepsMemory DEF Delivery
  <2> QED
    BY <1>5, <2>1, <2>2
<1>6. CASE UpstreamSends
  <2>1. heap' = heap
    BY <1>6 DEF UpstreamSends
  <2>2. \E m : topic' = [topic EXCEPT !["order"] = Append(@, m)]
    BY <1>6 DEF UpstreamSends
  <2> QED
    BY <2>1, <2>2, TopicGrows DEF MemoryInv
<1> QED
  BY <1>1, <1>2, <1>3, <1>4, <1>5, <1>6, OtherSteps DEF vars, sinkVars

-----------------------------------------------------------------------------
(* The program is an engine.                                               *)

\* The places of new orders are names of orders.
LEMMA NewOrderIsNamed ==
  ASSUME MemoryInv, NEW o, heap' = Append(heap, o), Len(heap) < MaxObjects
  PROVE  Len(heap') \in Order
<1>1. Len(heap') = Len(heap) + 1 /\ Len(heap) \in Nat
  BY AppendIsSequence, SequenceElim DEF MemoryInv
<1> QED
  BY <1>1, PipelineAssumption DEF Object

\* Every step of the program is one of the engine and its callers, or touches
\* neither the lock, the channel nor the calls.
LEMMA EngineStep == MemoryInv /\ [Next]_vars => [EngineNext]_engineVars
<1> SUFFICES ASSUME MemoryInv, Next
             PROVE  EngineNext \/ UNCHANGED engineVars
  BY DEF vars
<1>1. ASSUME ProcessDies
      PROVE  EngineNext
  BY <1>1 DEF ProcessDies, EngineNext
<1>2. CASE MainStep
  BY <1>1, <1>2
  DEF MainStep, StartProcess, Signal, GracefulStop, HttpShutdown, CloseConsumer,
      StopEngine, EngineStopped, CloseProducers, Exit, SendPanics, EngineNext
<1>3. CASE Crash
  BY <1>1, <1>3 DEF Crash
<1>4. ASSUME NEW c \in Client, ClientCalls(c)
      PROVE  EngineNext
  <2>1. c \in Caller
    BY PipelineAssumption DEF PipelineCaller
  <2>2. CASE Calls(c, "cancel", NoOrder)
    BY <2>1, <2>2 DEF EngineNext, Waiting
  <2>3. CASE /\ Len(heap) < MaxObjects
             /\ \E o : heap' = Append(heap, o)
             /\ Calls(c, "submit", Len(heap'))
    <3>1. Len(heap') \in Order
      BY <2>3, NewOrderIsNamed
    <3> QED
      BY <2>1, <2>3, <3>1 DEF EngineNext, Waiting
  <2> QED
    BY <1>4, <2>2, <2>3 DEF ClientCalls
<1>5. ASSUME NEW c \in Caller, InCall(c)
      PROVE  EngineNext \/ UNCHANGED engineVars
  <2>1. CASE SubmitEnters(c)
    <3> DEFINE ok == Acceptable(heap[call[c].order].body)
    <3>1. EnterSubmit(c, ok) /\ ok \in BOOLEAN
      BY <2>1 DEF SubmitEnters, Acceptable
    <3> QED
      BY <3>1 DEF EngineNext
  <2>2. CASE SubmitSends(c)
    BY <2>2 DEF SubmitSends, EngineNext
  <2>3. CASE CancelTakes(c)
    BY <2>3 DEF CancelTakes, EngineNext
  <2>4. CASE CancelMisses(c)
    BY <2>4 DEF CancelMisses, EngineNext
  <2>5. CASE CancelMarks(c) \/ HandleEvent(c)
    BY <2>5 DEF CancelMarks, HandleEvent
  <2>6. CASE CancelReturns(c)
    BY <2>6 DEF CancelReturns, EngineNext
  <2> QED
    BY <1>5, <2>1, <2>2, <2>3, <2>4, <2>5, <2>6 DEF InCall
<1>6. CASE Matching
  BY <1>6
  DEF Matching, TakeOrder, ParkStop, ChooseMaker, FillMaker, MatchEnds, RestOrder,
      OrderDone, ChannelDone, HandleEvent, EngineNext
<1>7. CASE MessageDelivered
  <2>1. Consumer \in Caller
    BY PipelineAssumption DEF PipelineCaller
  <2>2. CASE /\ Len(heap) < MaxObjects
             /\ \E o : heap' = Append(heap, o)
             /\ Calls(Consumer, "submit", Len(heap'))
    <3>1. Len(heap') \in Order
      BY <2>2, NewOrderIsNamed
    <3> QED
      BY <2>1, <2>2, <3>1 DEF EngineNext, Waiting
  <2>3. CASE UNCHANGED engineVars
    BY <2>3
  <2> QED
    BY <1>7, <2>2, <2>3 DEF MessageDelivered
<1>8. CASE Consuming
  BY <1>1, <1>7, <1>8
  DEF Consuming, SessionOpens, SessionPanics, SessionEnds, OffsetsCommitted,
      MessageHandled
<1>9. CASE ProcessMessages \/ Delivery \/ UpstreamSends
  BY <1>9 DEF ProcessMessages, Delivery, UpstreamSends
<1> QED
  BY <1>2, <1>3, <1>4, <1>5, <1>6, <1>8, <1>9 DEF Next

\* The program of main.go enters the engine as EngineCalls says and in no other
\* way, through every crash, restart and shutdown.
LEMMA PipelineIsAnEngine == Spec => EngineSpec
<1>1. Init => EngineInit
  BY DEF Init
<1> QED
  BY <1>1, MemoryInit, MemoryStep, EngineStep, PTL DEF Spec, EngineSpec

\* So nothing in it sends on a closed channel.
THEOREM PipelineAlwaysQuiet == Spec => []ClosedIsQuiet
  BY PipelineIsAnEngine, ClosedAlwaysQuiet, PTL

-----------------------------------------------------------------------------
(* The consumer: what the committed offset covers, and that no message is  *)
(* handled twice in one process.                                           *)

Below(offset) == 0..(offset - 1)
PassedBy(offset) == \A o \in Below(offset) : o \in handled \cup skipped

Offsets == Nat \cup {NoOffset}

\* The values of the consumer's variables.
ConsumerShape ==
  /\ session \in {"none", "open", "closed"}
  /\ ready \in BOOLEAN
  /\ {nextOffset, claimed, marked, committed} \subseteq Offsets

\* Neither a mark nor a commit is ahead of the handler.
MarksAreHandled == PassedBy(marked) /\ PassedBy(committed)

\* A session has passed everything it has read on to the handler, which has
\* returned for all of it but the message in hand, the last one read.
SessionInv ==
  /\ session = "open" =>
       /\ nextOffset \in Nat
       /\ \A o \in Below(nextOffset) : o \in handled \cup skipped \cup {claimed}
       /\ seen \subseteq Below(nextOffset)
  /\ claimed # NoOffset => session = "open" /\ nextOffset = claimed + 1

\* The first session of a process is the only one.
OneSession == ~ready => seen = {} /\ session # "open"

ConsumerInv == ConsumerShape /\ MarksAreHandled /\ SessionInv /\ OneSession

\* What the program's steps do to the consumer.
ConsumerNext ==
  \/ NewConsumer
  \/ OpenSession(End) \/ PassOver(End) \/ Deliver(End)
  \/ \E accepted \in BOOLEAN : HandlerReturned(accepted)
  \/ AutoCommit
  \/ \E for \in {"none", "closed"}, flushed \in BOOLEAN : EndSession(for, flushed)
  \/ CloseUnopened

\* Every step of the program is one of these or leaves the consumer alone.
LEMMA ConsumerSteps == Next => ConsumerNext \/ UNCHANGED consumerVars
<1> SUFFICES ASSUME Next
             PROVE  ConsumerNext \/ UNCHANGED consumerVars
  OBVIOUS
<1>1. ASSUME ProcessDies
      PROVE  ConsumerNext
  BY <1>1 DEF ProcessDies, ConsumerNext
<1>2. CASE MainStep
  <2>1. CASE CloseConsumer
    BY <2>1 DEF CloseConsumer, ConsumerNext
  <2> QED
    BY <1>1, <1>2, <2>1
    DEF MainStep, StartProcess, Signal, GracefulStop, HttpShutdown, StopEngine,
        EngineStopped, CloseProducers, Exit, SendPanics, ConsumerNext
<1>3. CASE Crash
  BY <1>1, <1>3 DEF Crash
<1>4. ASSUME NEW c \in Client, ClientCalls(c)
      PROVE  UNCHANGED consumerVars
  BY <1>4 DEF ClientCalls
<1>5. ASSUME NEW c \in Caller, InCall(c)
      PROVE  UNCHANGED consumerVars
  BY <1>5
  DEF InCall, SubmitEnters, SubmitSends, CancelTakes, CancelMarks, CancelMisses,
      HandleEvent, CancelReturns
<1>6. CASE Matching
  BY <1>6
  DEF Matching, TakeOrder, ParkStop, ChooseMaker, FillMaker, MatchEnds, RestOrder,
      OrderDone, ChannelDone, HandleEvent
<1>7. CASE Consuming
  <2>1. CASE MessageDelivered
    BY <2>1 DEF MessageDelivered, ConsumerNext
  <2>2. CASE MessageHandled
    BY <2>2 DEF MessageHandled, ConsumerNext, At
  <2>3. CASE SessionEnds
    BY <2>3 DEF SessionEnds, ConsumerNext
  <2> QED
    BY <1>1, <1>7, <2>1, <2>2, <2>3
    DEF Consuming, SessionOpens, SessionPanics, OffsetsCommitted, ConsumerNext
<1>8. CASE ProcessMessages \/ Delivery \/ UpstreamSends
  BY <1>8 DEF ProcessMessages, Delivery, UpstreamSends
<1> QED
  BY <1>2, <1>3, <1>4, <1>5, <1>6, <1>7, <1>8 DEF Next

\* A mark covers what was covered already, and the message just handled.
LEMMA MarkPasses ==
  ASSUME ConsumerInv, NEW offset \in Nat, session = "open",
         nextOffset = offset + 1, claimed \in {NoOffset, offset},
         Mark(offset) \/ UNCHANGED marked,
         handled' = handled \cup {offset}, skipped' = skipped,
         committed' = committed
  PROVE  /\ marked' \in Offsets
         /\ MarksAreHandled'
<1>1. \A o \in Below(offset + 1) : o \in handled' \cup skipped'
  <2> SUFFICES ASSUME NEW o \in Below(offset + 1)
               PROVE  o \in handled' \cup skipped'
    OBVIOUS
  <2>1. o \in handled \cup skipped \cup {claimed} /\ o \in Nat
    BY DEF ConsumerInv, SessionInv, Below
  <2> QED
    BY <2>1 DEF NoOffset
<1>2. marked' \in {marked, offset + 1}
  BY DEF Mark
<1>3. marked' \in Offsets
  BY <1>2 DEF ConsumerInv, ConsumerShape, Offsets
<1>4. PassedBy(marked)' /\ PassedBy(committed)'
  BY <1>1, <1>2 DEF ConsumerInv, MarksAreHandled, PassedBy, Below
<1> QED
  BY <1>3, <1>4 DEF MarksAreHandled

\* A new session starts behind what the committed offset covers or, without
\* one, behind what it skips.
LEMMA OpenInvariant ==
  ASSUME ConsumerInv, OpenSession(End), End \in Nat
  PROVE  ConsumerInv'
<1>1. nextOffset' \in Nat
  BY DEF OpenSession, Resume, ConsumerInv, ConsumerShape, Offsets
<1>2. claimed = NoOffset /\ seen = {}
  BY DEF OpenSession, ConsumerInv, SessionInv, OneSession
<1>3. ConsumerShape'
  BY <1>1 DEF OpenSession, ConsumerInv, ConsumerShape, Offsets
<1>4. MarksAreHandled'
  BY DEF OpenSession, ConsumerInv, MarksAreHandled, PassedBy, Below
<1>5. PassedBy(nextOffset)'
  <2>1. CASE committed = NoOffset
    BY <2>1 DEF OpenSession, Resume, Unread, PassedBy, Below
  <2>2. CASE committed # NoOffset
    BY <2>2
    DEF OpenSession, Resume, ConsumerInv, MarksAreHandled, PassedBy, Below
  <2> QED
    BY <2>1, <2>2
<1>6. SessionInv'
  BY <1>1, <1>2, <1>5 DEF OpenSession, SessionInv, PassedBy
<1> QED
  BY <1>3, <1>4, <1>6 DEF OpenSession, ConsumerInv, OneSession

\* A message that is handed over, or passed over, is the next one.
LEMMA DeliverInvariant ==
  ASSUME ConsumerInv, Deliver(End)
  PROVE  ConsumerInv' /\ nextOffset \notin seen
<1>1. nextOffset \in Nat /\ session = "open" /\ claimed = NoOffset
  BY DEF Deliver, CanDeliver, ConsumerInv, SessionInv
<1>2. nextOffset \notin seen
  BY <1>1 DEF ConsumerInv, SessionInv, Below
<1>3. ConsumerShape'
  BY <1>1 DEF Deliver, ConsumerInv, ConsumerShape, Offsets
<1>4. MarksAreHandled'
  BY DEF Deliver, ConsumerInv, MarksAreHandled, PassedBy, Below
<1>5. SessionInv'
  BY <1>1 DEF Deliver, ConsumerInv, SessionInv, Below, NoOffset
<1> QED
  BY <1>1, <1>2, <1>3, <1>4, <1>5 DEF Deliver, ConsumerInv, OneSession

\* A message that is not an order is marked at once.
LEMMA PassOverInvariant ==
  ASSUME ConsumerInv, PassOver(End)
  PROVE  ConsumerInv'
<1>1. nextOffset \in Nat /\ session = "open" /\ claimed = NoOffset
  BY DEF PassOver, CanDeliver, ConsumerInv, SessionInv
<1>2. \A o \in Below(nextOffset + 1) : o \in handled \cup skipped \cup {nextOffset}
  BY <1>1 DEF ConsumerInv, SessionInv, Below, NoOffset
<1>3. marked' \in {marked, nextOffset + 1}
  BY DEF PassOver, Mark
<1>4. ConsumerShape'
  BY <1>1, <1>3 DEF PassOver, ConsumerInv, ConsumerShape, Offsets
<1>5. MarksAreHandled'
  BY <1>2, <1>3 DEF PassOver, ConsumerInv, MarksAreHandled, PassedBy, Below
<1>6. SessionInv'
  BY <1>1, <1>2 DEF PassOver, ConsumerInv, SessionInv, Below
<1> QED
  BY <1>4, <1>5, <1>6 DEF PassOver, ConsumerInv, OneSession

\* The handler returns for the message in hand.
LEMMA HandledInvariant ==
  ASSUME ConsumerInv, NEW accepted \in BOOLEAN, HandlerReturned(accepted)
  PROVE  ConsumerInv'
<1>1. /\ session = "open" /\ nextOffset = claimed + 1
      /\ claimed \in Nat /\ nextOffset \in Nat
  BY DEF HandlerReturned, ConsumerInv, ConsumerShape, SessionInv, Offsets
<1>2. marked' \in Offsets /\ MarksAreHandled'
  BY <1>1, MarkPasses DEF HandlerReturned
<1>3. ConsumerShape'
  BY <1>2 DEF HandlerReturned, ConsumerInv, ConsumerShape, Offsets
<1>4. SessionInv'
  BY <1>1 DEF HandlerReturned, ConsumerInv, SessionInv, Below
<1> QED
  BY <1>1, <1>2, <1>3, <1>4 DEF HandlerReturned, ConsumerInv, OneSession

\* Commits, ends of sessions and new processes.
LEMMA EndInvariant ==
  ASSUME ConsumerInv,
         \/ NewConsumer \/ AutoCommit \/ CloseUnopened
         \/ \E for \in {"none", "closed"}, flushed \in BOOLEAN :
              EndSession(for, flushed)
  PROVE  ConsumerInv'
<1>1. CASE NewConsumer
  <2>1. ConsumerShape'
    BY <1>1 DEF NewConsumer, ConsumerInv, ConsumerShape, Offsets
  <2>2. PassedBy(marked)'
    BY <1>1 DEF NewConsumer, PassedBy, Below, NoOffset
  <2>3. PassedBy(committed)'
    BY <1>1 DEF NewConsumer, ConsumerInv, MarksAreHandled, PassedBy
  <2> QED
    BY <1>1, <2>1, <2>2, <2>3
    DEF NewConsumer, ConsumerInv, MarksAreHandled, SessionInv, OneSession
<1>2. CASE AutoCommit
  BY <1>2
  DEF AutoCommit, ConsumerInv, ConsumerShape, MarksAreHandled, PassedBy, SessionInv,
      OneSession
<1>3. CASE CloseUnopened
  BY <1>3
  DEF CloseUnopened, ConsumerInv, ConsumerShape, MarksAreHandled, PassedBy,
      SessionInv, OneSession
<1>4. ASSUME NEW for \in {"none", "closed"}, NEW flushed \in BOOLEAN,
             EndSession(for, flushed)
      PROVE  ConsumerInv'
  BY <1>4
  DEF EndSession, ConsumerInv, ConsumerShape, MarksAreHandled, PassedBy, SessionInv,
      OneSession
<1> QED
  BY <1>1, <1>2, <1>3, <1>4

\* Nothing has been read when the first process starts.
LEMMA ConsumerStart == Init => ConsumerInv
<1> SUFFICES ASSUME ConsumerInit
             PROVE  ConsumerInv
  BY DEF Init
<1>1. ConsumerShape
  BY DEF ConsumerInit, ConsumerShape, Offsets
<1>2. MarksAreHandled
  BY DEF ConsumerInit, MarksAreHandled, PassedBy, Below, NoOffset
<1> QED
  BY <1>1, <1>2 DEF ConsumerInit, ConsumerInv, SessionInv, OneSession

\* The length of a topic is a number.
LEMMA EndIsNat == MemoryInv => End \in Nat
  BY SequenceElim DEF MemoryInv, TopicsAreSequences, End, Kind

\* Every step of the program keeps the consumer's invariant, and hands over no
\* message the process has handed over before.
LEMMA ConsumerStep ==
  MemoryInv /\ ConsumerInv /\ [Next]_vars =>
    /\ ConsumerInv'
    /\ claimed' # claimed /\ claimed' # NoOffset => claimed' \notin seen
<1> SUFFICES ASSUME MemoryInv, ConsumerInv, [Next]_vars
             PROVE  /\ ConsumerInv'
                    /\ claimed' # claimed /\ claimed' # NoOffset
                         => claimed' \notin seen
  OBVIOUS
<1>1. CASE UNCHANGED consumerVars
  BY <1>1
  DEF consumerVars, ConsumerInv, ConsumerShape, MarksAreHandled, PassedBy,
      SessionInv, OneSession
<1>2. CASE OpenSession(End)
  <2>1. ConsumerInv'
    BY <1>2, OpenInvariant, EndIsNat
  <2> QED
    BY <1>2, <2>1 DEF OpenSession
<1>3. CASE Deliver(End)
  BY <1>3, DeliverInvariant DEF Deliver
<1>4. CASE PassOver(End)
  <2>1. ConsumerInv'
    BY <1>4, PassOverInvariant
  <2> QED
    BY <1>4, <2>1 DEF PassOver
<1>5. ASSUME NEW accepted \in BOOLEAN, HandlerReturned(accepted)
      PROVE  ConsumerInv' /\ claimed' = NoOffset
  BY <1>5, HandledInvariant DEF HandlerReturned
<1>6. CASE \/ NewConsumer \/ AutoCommit \/ CloseUnopened
           \/ \E for \in {"none", "closed"}, flushed \in BOOLEAN :
                EndSession(for, flushed)
  <2>1. ConsumerInv'
    BY <1>6, EndInvariant
  <2>2. claimed' \in {claimed, NoOffset}
    BY <1>6 DEF NewConsumer, AutoCommit, CloseUnopened, EndSession
  <2> QED
    BY <2>1, <2>2
<1> QED
  BY <1>1, <1>2, <1>3, <1>4, <1>5, <1>6, ConsumerSteps DEF ConsumerNext, vars

\* Whatever is committed was handled, or was skipped by a session that found no
\* committed offset (kafka_consumer.go 124-160): a crash at any moment, a failed
\* commit or a rebalance makes the consumer read again, never read on.
THEOREM CommittedAlwaysHandled == Spec => []CommittedWasHandled
<1>1. ConsumerInv => CommittedWasHandled
  BY DEF ConsumerInv, MarksAreHandled, PassedBy, Below, CommittedWasHandled
<1> QED
  BY <1>1, MemoryInit, MemoryStep, ConsumerStart, ConsumerStep, PTL DEF Spec

\* One process gives no message to the engine twice (kafka_consumer.go 113).
THEOREM AlwaysOncePerProcess == Spec => OncePerProcess
<1>1. MemoryInv /\ ConsumerInv /\ [Next]_vars =>
        [claimed' # claimed /\ claimed' # NoOffset => claimed' \notin seen]_vars
  BY ConsumerStep
<1> QED
  BY <1>1, MemoryInit, MemoryStep, ConsumerStart, ConsumerStep, PTL
  DEF Spec, OncePerProcess
=============================================================================
