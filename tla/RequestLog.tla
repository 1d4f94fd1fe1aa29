----------------------------- MODULE RequestLog -----------------------------
(***************************************************************************)
(* The asynchronous request log (gateway/internal/observability/           *)
(* logging.go): like SpendWriter a bounded channel that is never waited    *)
(* for and one goroutine, but every line is written by itself and nobody   *)
(* hears of a write that fails.  Lines are numbered in the order of Log.   *)
(***************************************************************************)
EXTENDS Naturals, Sequences

CONSTANTS
  LogCapacity,  \* bufferSize of the channel
  Unwritten     \* lines that cannot be encoded, or whose write fails

VARIABLES
  lines,        \* number of lines handed to Log so far
  logch,        \* the channel
  logged,       \* the lines written to stdout
  logdropped,   \* the lines counted by DroppedCount
  loglost,      \* lines not written, or left in the channel at the end
  logpc,        \* the goroutine: "loop", "drain" or "exited"
  stop,         \* its context is cancelled
  alive         \* the process runs

Lines(s) == {s[i] : i \in DOMAIN s}

Init ==
  /\ lines = 0
  /\ logch = <<>> /\ logged = <<>>
  /\ logdropped = {} /\ loglost = {}
  /\ logpc = "loop"

(* Mutant of Log: it takes the place of the oldest line in the channel, as *)
(* the comment of logging.go:105 can be read, and nothing is counted.      *)
LogOverOldest ==
  /\ alive
  /\ lines' = lines + 1
  /\ logch' = Append(IF Len(logch) < LogCapacity THEN logch ELSE Tail(logch), lines + 1)
  /\ UNCHANGED <<logged, logdropped, loglost, logpc, stop, alive>>

Log ==
  /\ alive
  /\ lines' = lines + 1
  /\ \/ /\ Len(logch) < LogCapacity
        /\ logch' = Append(logch, lines + 1)
        /\ UNCHANGED logdropped
     \/ /\ Len(logch) >= LogCapacity
        /\ logdropped' = logdropped \cup {lines + 1}
        /\ UNCHANGED logch
  /\ UNCHANGED <<logged, loglost, logpc, stop, alive>>

(* write: a line that json.Marshal refuses is skipped, and the error of    *)
(* out.Write is ignored; in both cases the line is gone and not counted.   *)
WriteLine ==
  /\ alive /\ logpc \in {"loop", "drain"} /\ logch # <<>>
  /\ logch' = Tail(logch)
  /\ IF Head(logch) \in Unwritten
       THEN loglost' = loglost \cup {Head(logch)} /\ UNCHANGED logged
       ELSE logged' = Append(logged, Head(logch)) /\ UNCHANGED loglost
  /\ UNCHANGED <<lines, logdropped, logpc, stop, alive>>

SeeStop ==
  /\ alive /\ logpc = "loop" /\ stop
  /\ logpc' = "drain"
  /\ UNCHANGED <<lines, logch, logged, logdropped, loglost, stop, alive>>

Drained ==
  /\ alive /\ logpc = "drain" /\ logch = <<>>
  /\ logpc' = "exited"
  /\ UNCHANGED <<lines, logch, logged, logdropped, loglost, stop, alive>>

Step == WriteLine \/ SeeStop \/ Drained

(* The process ends, and its channel with it. *)
Vanish ==
  /\ loglost' = loglost \cup Lines(logch)
  /\ UNCHANGED <<lines, logch, logged, logdropped, logpc>>

-----------------------------------------------------------------------------
TypeOK ==
  /\ lines \in Nat
  /\ logch \in Seq(Nat) /\ Len(logch) <= LogCapacity
  /\ logged \in Seq(Nat)
  /\ logdropped \in SUBSET Nat /\ loglost \in SUBSET Nat
  /\ logpc \in {"loop", "drain", "exited"}

(* The lines from the first one written to the newest in the channel; the  *)
(* channel of a process that has ended is no way to anywhere.              *)
LogLine == IF alive THEN logged \o logch ELSE logged

(* Every line handed to Log has exactly one fate: it is written or on its  *)
(* way, it is counted by DroppedCount, or it is lost without being         *)
(* counted, by a failed write or with the process; and lines are written   *)
(* once and in order (logging.go:66-117).                                  *)
Accounted ==
  /\ 1 .. lines = Lines(LogLine) \cup logdropped \cup loglost
  /\ Lines(LogLine) \cap (logdropped \cup loglost) = {}
  /\ logdropped \cap loglost = {}
  /\ \A i, j \in DOMAIN LogLine : i < j => LogLine[i] < LogLine[j]

=============================================================================
