----------------------------- MODULE EngineCalls -----------------------------
(***************************************************************************)
(* How goroutines enter the engine of internal/engine/engine.go in         *)
(* standalone mode.  The gRPC and HTTP handlers and the Kafka consumer     *)
(* call SubmitOrder and CancelOrder under the read lock of Engine.mu, a    *)
(* goroutine of processOrders drains the channel, and main calls Stop.     *)
(* What an order is does not matter here: it is a name.                    *)
(***************************************************************************)
EXTENDS RWMutex, Sequences, Integers

CONSTANTS Caller,     \* the goroutines that call the engine
          Order,      \* the orders in memory
          Capacity    \* of orderChan, 10000 in the program

Stopper == "main"
NoOrder == 0

ASSUME CallsAssumption == /\ Capacity \in Nat \ {0}
                          /\ {Stopper, NoWriter} \cap Caller = {}
                          /\ Stopper # NoWriter
                          /\ NoOrder \notin Order

VARIABLES mu,         \* Engine.mu
          running,    \* Engine.running
          closed,     \* close(orderChan) was called
          orderChan,
          worker,     \* the goroutine of processOrders
          job,        \* the order it processes
          call        \* what each caller is doing in the engine

engineVars == <<mu, running, closed, orderChan, worker, job, call>>

Returned == {"idle", "accepted", "refused", "cancelled"}
Inside   == {"send", "emit"}    \* holding the read lock
Waiting  == {"submit", "cancel"}

NoCall == [c \in Caller |-> [at |-> "idle", order |-> NoOrder]]

At(c, where) == call[c].at = where
Moved(c, where) == [call EXCEPT ![c].at = where]

\* The memory of a process that is not running.
Down == /\ mu' = Unlocked
        /\ running' = FALSE
        /\ closed' = FALSE
        /\ orderChan' = <<>>
        /\ worker' = "none"
        /\ job' = NoOrder
        /\ call' = NoCall

EngineInit == /\ mu = Unlocked
              /\ running = FALSE
              /\ closed = FALSE
              /\ orderChan = <<>>
              /\ worker = "none"
              /\ job = NoOrder
              /\ call = NoCall

Up == worker # "none"

\* Start: the lock is held throughout, and nobody calls before it returns.
StartEngine == /\ ~Up
               /\ running' = TRUE
               /\ worker' = "idle"
               /\ UNCHANGED <<mu, closed, orderChan, job, call>>

-----------------------------------------------------------------------------
(* The callers.                                                            *)

Calls(c, operation, o) ==
  /\ Up
  /\ call[c].at \in Returned
  /\ call' = [call EXCEPT ![c] = [at |-> operation, order |-> o]]
  /\ UNCHANGED <<mu, running, closed, orderChan, worker, job>>

\* Mutant of EnterSubmit: SubmitOrder leaves the lock before it sends.
EnterSubmitUnlocked(c, acceptable) ==
  /\ At(c, "submit")
  /\ CanRLock(mu)
  /\ call' = Moved(c, IF running /\ acceptable THEN "send" ELSE "refused")
  /\ UNCHANGED <<mu, running, closed, orderChan, worker, job>>

\* SubmitOrder up to the send.  What it reads cannot change under the read
\* lock, so taking the lock and the checks are one step.
EnterSubmit(c, acceptable) ==
  /\ At(c, "submit")
  /\ CanRLock(mu)
  /\ IF running /\ acceptable
       THEN mu' = RLock(mu, c) /\ call' = Moved(c, "send")
       ELSE call' = Moved(c, "refused") /\ UNCHANGED mu
  /\ UNCHANGED <<running, closed, orderChan, worker, job>>

\* The send blocks while the channel is full.
Send(c) == /\ At(c, "send")
           /\ Len(orderChan) < Capacity
           /\ orderChan' = Append(orderChan, call[c].order)
           /\ mu' = RUnlock(mu, c)
           /\ call' = Moved(c, "accepted")
           /\ UNCHANGED <<running, closed, worker, job>>

\* CancelOrder, which also works on a stopped engine: the read lock is kept
\* while the event handlers run.
EnterCancel(c, found) ==
  /\ At(c, "cancel")
  /\ CanRLock(mu)
  /\ IF found
       THEN mu' = RLock(mu, c) /\ call' = Moved(c, "emit")
       ELSE call' = Moved(c, "refused") /\ UNCHANGED mu
  /\ UNCHANGED <<running, closed, orderChan, worker, job>>

LeaveCancel(c) == /\ At(c, "emit")
                  /\ mu' = RUnlock(mu, c)
                  /\ call' = Moved(c, "cancelled")
                  /\ UNCHANGED <<running, closed, orderChan, worker, job>>

-----------------------------------------------------------------------------
(* processOrders.                                                          *)

\* Mutant of Take: an order is processed under the read lock, as ApplyOrder
\* does in Raft mode.
TakeLocked == /\ worker = "idle"
              /\ orderChan # <<>>
              /\ CanRLock(mu)
              /\ job' = Head(orderChan)
              /\ orderChan' = Tail(orderChan)
              /\ worker' = "busy"
              /\ UNCHANGED <<mu, running, closed, call>>

Take == /\ worker = "idle"
        /\ orderChan # <<>>
        /\ job' = Head(orderChan)
        /\ orderChan' = Tail(orderChan)
        /\ worker' = "busy"
        /\ UNCHANGED <<mu, running, closed, call>>

Processed == /\ worker = "busy"
             /\ worker' = "idle"
             /\ job' = NoOrder
             /\ UNCHANGED <<mu, running, closed, orderChan, call>>

\* Mutant of WorkerEnds: the goroutine leaves as soon as the channel is closed.
WorkerQuits == /\ worker = "idle"
               /\ closed
               /\ worker' = "ended"
               /\ UNCHANGED <<mu, running, closed, orderChan, job, call>>

\* A closed channel still delivers what it holds.
WorkerEnds == /\ worker = "idle"
              /\ closed
              /\ orderChan = <<>>
              /\ worker' = "ended"
              /\ UNCHANGED <<mu, running, closed, orderChan, job, call>>

-----------------------------------------------------------------------------
(* Stop, called once, by main.                                             *)

StopBegins == /\ Up
              /\ running
              /\ CanAnnounce(mu)
              /\ mu' = Announce(mu, Stopper)
              /\ UNCHANGED <<running, closed, orderChan, worker, job, call>>

\* It does not wait for the goroutine of processOrders.
StopReturns == /\ CanLock(mu, Stopper)
               /\ running' = FALSE
               /\ closed' = TRUE
               /\ mu' = Unlock(mu)
               /\ UNCHANGED <<orderChan, worker, job, call>>

-----------------------------------------------------------------------------
EngineNext ==
  \/ StartEngine
  \/ \E c \in Caller :
       \/ \E operation \in Waiting, o \in Order \cup {NoOrder} :
            Calls(c, operation, o)
       \/ \E acceptable \in BOOLEAN : EnterSubmit(c, acceptable)
       \/ Send(c)
       \/ \E found \in BOOLEAN : EnterCancel(c, found)
       \/ LeaveCancel(c)
  \/ Take \/ Processed \/ WorkerEnds
  \/ StopBegins \/ StopReturns
  \/ Up /\ Down

EngineSpec == EngineInit /\ [][EngineNext]_engineVars

\* Nobody sends on a closed channel, which would panic: whoever stands at the
\* send of SubmitOrder finds the channel open, whenever Stop comes.
ClosedIsQuiet == closed => \A c \in Caller : ~At(c, "send")
==============================================================================
