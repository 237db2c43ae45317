---------------------------- MODULE KafkaConsumer ----------------------------
(***************************************************************************)
(* internal/consumer/kafka_consumer.go, the only member of its consumer    *)
(* group, on the one partition that holds the orders of a market.  Offsets *)
(* count from 0; an offset that is marked or committed is the next to read.*)
(*                                                                         *)
(* The client library (sarama) is modelled as it is used: a session starts *)
(* with Setup, resumes at the committed offset or, with OffsetNewest, at   *)
(* the end of the topic, and commits what is marked now and then and when  *)
(* it ends.                                                                *)
(***************************************************************************)
EXTENDS Integers, Sequences

VARIABLES session,     \* "none", "open", or "closed" for good
          ready,       \* the channel ready is closed
          nextOffset,  \* what claim.Messages delivers next
          claimed,     \* the offset of the message being handled
          marked,      \* MarkMessage
          committed,   \* what the broker keeps
          seen,        \* history: offsets given to HandleOrder in this process
          handled,     \* history: offsets HandleOrder returned for, and those
                       \* that could not be parsed, in any process
          skipped      \* history: offsets a session without a committed one left out

consumerVars == <<session, ready, nextOffset, claimed, marked, committed, seen,
                  handled, skipped>>

NoOffset == -1

\* The consumer of a process that has just started.
NewConsumer == /\ session' = "none"
               /\ ready' = FALSE
               /\ nextOffset' = NoOffset
               /\ claimed' = NoOffset
               /\ marked' = NoOffset
               /\ seen' = {}
               /\ UNCHANGED <<committed, handled, skipped>>

ConsumerInit == /\ session = "none"
                /\ ready = FALSE
                /\ nextOffset = NoOffset
                /\ claimed = NoOffset
                /\ marked = NoOffset
                /\ committed = NoOffset
                /\ seen = {}
                /\ handled = {}
                /\ skipped = {}

Resume(end) == IF committed = NoOffset THEN end ELSE committed
Unread(end) == IF committed = NoOffset THEN 0..(end - 1) ELSE {}

\* Setup closes the channel: a second session of the same process panics.
SetupPanics == session = "none" /\ ready

\* Mutant of OpenSession: the channel ready is made anew for each session.
OpenAnySession(end) ==
  /\ session = "none"
  /\ session' = "open"
  /\ nextOffset' = Resume(end)
  /\ skipped' = skipped \cup Unread(end)
  /\ UNCHANGED <<ready, claimed, marked, committed, seen, handled>>

\* Consume starts a session on a topic of end messages.
OpenSession(end) ==
  /\ session = "none"
  /\ ~ready
  /\ session' = "open"
  /\ ready' = TRUE
  /\ nextOffset' = Resume(end)
  /\ skipped' = skipped \cup Unread(end)
  /\ UNCHANGED <<claimed, marked, committed, seen, handled>>

CanDeliver(end) == session = "open" /\ claimed = NoOffset /\ nextOffset < end

\* MarkMessage never moves back.
Mark(offset) == marked' = IF offset + 1 > marked THEN offset + 1 ELSE marked

\* A message that cannot be parsed is marked and passed over.
PassOver(end) ==
  /\ CanDeliver(end)
  /\ Mark(nextOffset)
  /\ nextOffset' = nextOffset + 1
  /\ handled' = handled \cup {nextOffset}
  /\ UNCHANGED <<session, ready, claimed, committed, seen, skipped>>

\* Mutant of Deliver: the message is marked before it is handled.
DeliverMarked(end) ==
  /\ CanDeliver(end)
  /\ Mark(nextOffset)
  /\ claimed' = nextOffset
  /\ nextOffset' = nextOffset + 1
  /\ seen' = seen \cup {nextOffset}
  /\ UNCHANGED <<session, ready, committed, handled, skipped>>

\* The message goes to HandleOrder.
Deliver(end) ==
  /\ CanDeliver(end)
  /\ claimed' = nextOffset
  /\ nextOffset' = nextOffset + 1
  /\ seen' = seen \cup {nextOffset}
  /\ UNCHANGED <<session, ready, marked, committed, handled, skipped>>

\* HandleOrder has returned: a refused order is not marked, but nothing reads
\* it again in this session, and the mark of a later message passes over it.
HandlerReturned(accepted) ==
  /\ claimed # NoOffset
  /\ IF accepted THEN Mark(claimed) ELSE UNCHANGED marked
  /\ handled' = handled \cup {claimed}
  /\ claimed' = NoOffset
  /\ UNCHANGED <<session, ready, nextOffset, committed, seen, skipped>>

ToCommit == marked # NoOffset /\ marked # committed

AutoCommit ==
  /\ session = "open"
  /\ ToCommit
  /\ committed' = marked
  /\ UNCHANGED <<session, ready, nextOffset, claimed, marked, seen, handled,
                 skipped>>

\* A rebalance, an error or Close ends the session between two messages, and
\* commits on the way out, unless that fails.
EndSession(for, flushed) ==
  /\ session = "open"
  /\ claimed = NoOffset
  /\ session' = for
  /\ committed' = IF flushed /\ ToCommit THEN marked ELSE committed
  /\ UNCHANGED <<ready, nextOffset, claimed, marked, seen, handled, skipped>>

\* Close before any session has started.
CloseUnopened ==
  /\ session = "none"
  /\ session' = "closed"
  /\ UNCHANGED <<ready, nextOffset, claimed, marked, committed, seen, handled,
                 skipped>>
==============================================================================
