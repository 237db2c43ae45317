------------------------------- MODULE RWMutex -------------------------------
(***************************************************************************)
(* The readers-writer lock of Go's package sync, as internal/engine and    *)
(* internal/raft rely on it: a writer first announces itself, which keeps  *)
(* new readers out, and enters when the readers inside have left.          *)
(***************************************************************************)
EXTENDS FiniteSets

NoWriter == "no writer"

\* A lock nobody holds.
Unlocked == [readers |-> {}, writer |-> NoWriter]

\* RLock returns at once unless a writer holds the lock or waits for it.
CanRLock(m) == m.writer = NoWriter

RLock(m, g)   == [m EXCEPT !.readers = @ \cup {g}]
RUnlock(m, g) == [m EXCEPT !.readers = @ \ {g}]

\* Lock: a writer at a time announces itself, then waits for the readers.
CanAnnounce(m) == m.writer = NoWriter
Announce(m, g) == [m EXCEPT !.writer = g]

CanLock(m, g) == m.writer = g /\ m.readers = {}
Unlock(m)     == [m EXCEPT !.writer = NoWriter]
==============================================================================
