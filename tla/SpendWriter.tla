---------------------------- MODULE SpendWriter -----------------------------
(***************************************************************************)
(* The asynchronous write of spend events to Postgres                      *)
(* (gateway/internal/proxy/spend_writer.go): handlers put events into a    *)
(* bounded channel without ever blocking, one goroutine collects them into *)
(* batches and inserts each batch with one statement.  GatewayProcess.tla  *)
(* composes the actions below with the handlers and the main function.     *)
(*                                                                         *)
(* Events are numbered in the order in which they are enqueued.  Postgres  *)
(* is external: an INSERT of several rows is atomic, has a limit on its    *)
(* parameters, and may return an error if "db_error" is in Faults.         *)
(***************************************************************************)
EXTENDS Naturals, Sequences

CONSTANTS
  MaxEvents,   \* bound: how many events are enqueued
  Capacity,    \* queueCapacity of the channel
  BatchSize,   \* batchSize
  MaxRows,     \* rows whose parameters fit into one INSERT (65535 \div cols)
  Faults

ASSUME WriterAssumption ==
  /\ MaxEvents \in Nat
  /\ Capacity \in Nat \ {0}
  /\ BatchSize \in Nat \ {0}
  /\ MaxRows \in Nat \ {0}

VARIABLES
  enqueued,    \* number of events handed to Enqueue so far
  ch,          \* the channel
  batch,       \* the batch being collected
  db,          \* the rows of spend_events, in the order of their insertion
  dropped,     \* events dropped and counted by spend_write_dropped_total
  lost,        \* events of a batch whose INSERT failed, or left at the end
  pc,          \* the goroutine: "loop", "write", "drain", "last" or "exited"
  stop,        \* the context is cancelled
  alive        \* the process runs

writer == <<enqueued, ch, batch, db, dropped, lost, pc>>

Event == 1 .. MaxEvents
Elems(s) == {s[i] : i \in DOMAIN s}

WriterInit ==
  /\ enqueued = 0
  /\ ch = <<>> /\ batch = <<>> /\ db = <<>>
  /\ dropped = {} /\ lost = {}
  /\ pc = "loop"

-----------------------------------------------------------------------------
(* Mutants of Enqueue: an off-by-one at the capacity, and a drop that is   *)
(* not counted.                                                            *)
EnqueueOverfull ==
  /\ alive /\ enqueued < MaxEvents
  /\ enqueued' = enqueued + 1
  /\ IF Len(ch) <= Capacity
       THEN ch' = Append(ch, enqueued + 1) /\ UNCHANGED dropped
       ELSE dropped' = dropped \cup {enqueued + 1} /\ UNCHANGED ch
  /\ UNCHANGED <<batch, db, lost, pc, stop, alive>>
EnqueueUncounted ==
  /\ alive /\ enqueued < MaxEvents
  /\ enqueued' = enqueued + 1
  /\ ch' = IF Len(ch) < Capacity THEN Append(ch, enqueued + 1) ELSE ch
  /\ UNCHANGED <<batch, db, dropped, lost, pc, stop, alive>>

(* finish calls Enqueue, also while the server is shutting down. *)
Enqueue ==
  /\ alive /\ enqueued < MaxEvents
  /\ enqueued' = enqueued + 1
  /\ IF Len(ch) < Capacity
       THEN ch' = Append(ch, enqueued + 1) /\ UNCHANGED dropped
       ELSE dropped' = dropped \cup {enqueued + 1} /\ UNCHANGED ch
  /\ UNCHANGED <<batch, db, lost, pc, stop, alive>>

(* Run: the goroutine takes whichever case of its select is ready. *)
Receive ==
  /\ alive /\ pc = "loop" /\ ch # <<>>
  /\ ch' = Tail(ch)
  /\ batch' = Append(batch, Head(ch))
  /\ pc' = IF Len(batch') >= BatchSize THEN "write" ELSE "loop"
  /\ UNCHANGED <<enqueued, db, dropped, lost, stop, alive>>

(* Mutant of FlushTimer: only a full batch is flushed. *)
FlushTimerWhenFull ==
  /\ alive /\ pc = "loop" /\ Len(batch) >= BatchSize
  /\ pc' = "write"
  /\ UNCHANGED <<enqueued, ch, batch, db, dropped, lost, stop, alive>>

FlushTimer ==
  /\ alive /\ pc = "loop" /\ batch # <<>>
  /\ pc' = "write"
  /\ UNCHANGED <<enqueued, ch, batch, db, dropped, lost, stop, alive>>

(* Mutant of SeeStop: the batch is flushed and the channel left as it is.  *)
SeeStopUndrained ==
  /\ alive /\ pc = "loop" /\ stop
  /\ pc' = IF batch = <<>> THEN "exited" ELSE "last"
  /\ UNCHANGED <<enqueued, ch, batch, db, dropped, lost, stop, alive>>

SeeStop ==
  /\ alive /\ pc = "loop" /\ stop
  /\ pc' = "drain"
  /\ UNCHANGED <<enqueued, ch, batch, db, dropped, lost, stop, alive>>

(* drainRemaining: until the channel is empty, whatever the batch holds. *)
Drain ==
  /\ alive /\ pc = "drain"
  /\ IF ch # <<>>
       THEN /\ ch' = Tail(ch)
            /\ batch' = Append(batch, Head(ch))
            /\ UNCHANGED pc
       ELSE /\ pc' = IF batch = <<>> THEN "exited" ELSE "last"
            /\ UNCHANGED <<ch, batch>>
  /\ UNCHANGED <<enqueued, db, dropped, lost, stop, alive>>

(* flush: the batch is forgotten whether or not it was written. *)
Flushed ==
  /\ alive /\ pc \in {"write", "last"}
  /\ batch' = <<>>
  /\ pc' = IF pc = "last" THEN "exited" ELSE "loop"
  /\ UNCHANGED <<enqueued, ch, dropped, stop, alive>>

WriteBatch ==
  /\ Len(batch) <= MaxRows
  /\ Flushed
  /\ db' = db \o batch
  /\ UNCHANGED lost

(* Mutant of WriteFails: a batch that failed, as far as the writer knows,  *)
(* is tried again.                                                         *)
WriteFailsRetried ==
  /\ "db_error" \in Faults
  /\ alive /\ pc \in {"write", "last"} /\ Len(batch) <= MaxRows
  /\ db' \in {db, db \o batch}
  /\ UNCHANGED <<enqueued, ch, batch, dropped, lost, pc, stop, alive>>

(* ExecContext returns an error: Postgres refuses the statement or is not  *)
(* reached, and the rows are lost; or the connection breaks after it has   *)
(* committed them, and they are there although the writer logs an error.   *)
WriteFails ==
  /\ Flushed
  /\ \/ /\ "db_error" \in Faults \/ Len(batch) > MaxRows
        /\ lost' = lost \cup Elems(batch)
        /\ UNCHANGED db
     \/ /\ "db_error" \in Faults /\ Len(batch) <= MaxRows
        /\ db' = db \o batch
        /\ UNCHANGED lost

(* The process ends.  An INSERT that has been sent may still be executed.  *)
Exit ==
  /\ alive
  /\ alive' = FALSE
  /\ \/ lost' = lost \cup Elems(ch) \cup Elems(batch) /\ UNCHANGED db
     \/ /\ pc \in {"write", "last"} /\ Len(batch) <= MaxRows
        /\ db' = db \o batch
        /\ lost' = lost \cup Elems(ch)
  /\ UNCHANGED <<enqueued, ch, batch, dropped, pc, stop>>

(* What the goroutine does by itself. *)
WriterStep ==
  Receive \/ FlushTimer \/ SeeStop \/ Drain \/ WriteBatch \/ WriteFails

-----------------------------------------------------------------------------
WriterTypeOK ==
  /\ enqueued \in 0 .. MaxEvents
  /\ ch \in Seq(Event) /\ Len(ch) <= Capacity
  /\ batch \in Seq(Event)
  /\ db \in Seq(Event)
  /\ dropped \in SUBSET Event /\ lost \in SUBSET Event
  /\ pc \in {"loop", "write", "drain", "last", "exited"}

(* The spend events from the oldest row in Postgres to the newest event in *)
(* the channel.                                                            *)
Line == IF alive THEN db \o batch \o ch ELSE db

(* No event is written twice or out of order: rows, batch and channel      *)
(* together are in the order in which the events were enqueued, although   *)
(* batches fail, the channel overflows and the drain races with Enqueue.   *)
InOrder == \A i, j \in DOMAIN Line : i < j => Line[i] < Line[j]

(* Every event is accounted for exactly once: it is on its way to Postgres *)
(* or there, or it was dropped at the full channel, or it was lost.        *)
Conserved ==
  /\ 1 .. enqueued = Elems(Line) \cup dropped \cup lost
  /\ Elems(Line) \cap (dropped \cup lost) = {}
  /\ dropped \cap lost = {}

(* An event that found room in the channel is eventually written, or lost  *)
(* with a failed INSERT or with the process.                               *)
EventuallyWritten ==
  \A e \in Event : e \in Elems(ch) ~> e \in Elems(db) \cup lost

=============================================================================
