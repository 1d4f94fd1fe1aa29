--------------------------- MODULE GatewayProcess ---------------------------
(***************************************************************************)
(* The life of a gateway process (gateway/cmd/gateway/main.go): it waits   *)
(* for Postgres and Redis, loads the script and the budgets, serves until  *)
(* a signal, waits for the handlers and ends.  finish, at the end of a     *)
(* handler, writes a line to RequestLog and then an event to SpendWriter;  *)
(* both goroutines are stopped by the signal itself.                       *)
(*                                                                         *)
(* Handlers are told apart only by how far they are.  Faults:              *)
(*   "db_error"   an INSERT returns an error                               *)
(*   "down"       a dependency does not answer, or refuses, while starting *)
(*   "slow"       handlers, or the last INSERT, outlast the waits of main  *)
(*   "stop"       the process is asked to terminate                        *)
(*   "kill"       it dies                                                  *)
(* Which lines of the log cannot be written is the constant Unwritten: a   *)
(* line is written once, so that this stands for every choice of errors.   *)
(***************************************************************************)
EXTENDS SpendWriter

CONSTANTS
  LogCapacity,   \* bufferSize of the request log
  Unwritten,     \* lines of the request log whose write fails
  Attempts       \* pings of a dependency before main goes on without it

ASSUME ProcessAssumption == LogCapacity \in Nat \ {0} /\ Attempts \in Nat \ {0}

VARIABLES
  lines, logch, logged, logdropped, loglost, logpc,   \* RequestLog
  main,          \* where main is
  tries,         \* pings that have failed
  active,        \* handlers that have not called finish
  midway,        \* handlers in finish, between Log and Enqueue
  known          \* history: what had been logged and enqueued at the signal

L == INSTANCE RequestLog

log == <<lines, logch, logged, logdropped, loglost, logpc>>
process == <<main, tries, active, midway, known>>
vars == <<writer, stop, alive, log, process>>

Phase ==
  {"config", "postgres", "redis", "script", "budgets", "serve", "deaf",
   "shutdown", "sleep", "ended"}
Starting == {"config", "postgres", "redis", "script", "budgets"}

Init ==
  /\ WriterInit /\ L!Init
  /\ stop = FALSE /\ alive = TRUE
  /\ main = "config"
  /\ tries = 0
  /\ active = 0 /\ midway = 0
  /\ known = [lines |-> 0, events |-> 0]

-----------------------------------------------------------------------------
(* waitForPostgres, waitForRedis: until a ping succeeds, a number of pings *)
(* has failed, or the context is cancelled; main goes on in every case.    *)
After == [config |-> "postgres", postgres |-> "redis", redis |-> "script",
          script |-> "budgets", budgets |-> "serve"]

(* Mutant: the pings are not counted up. *)
WaitUntilUp ==
  /\ main \in {"postgres", "redis"}
  /\ \/ ~stop /\ main' = After[main] /\ tries' = 0
     \/ /\ stop \/ "down" \in Faults
        /\ IF stop
             THEN main' = After[main] /\ tries' = 0
             ELSE tries' = (tries + 1) % Attempts /\ UNCHANGED main
  /\ UNCHANGED <<writer, stop, alive, log, active, midway, known>>

Wait ==
  /\ main \in {"postgres", "redis"}
  /\ \/ ~stop /\ main' = After[main] /\ tries' = 0
     \/ /\ stop \/ "down" \in Faults
        /\ IF stop \/ tries + 1 = Attempts
             THEN main' = After[main] /\ tries' = 0
             ELSE tries' = tries + 1 /\ UNCHANGED main
  /\ UNCHANGED <<writer, stop, alive, log, active, midway, known>>

(* The process ends with its goroutines and their channels. *)
Ends ==
  /\ Exit /\ L!Vanish
  /\ main' = "ended"
  /\ UNCHANGED <<tries, active, midway, known>>

(* config.Load and sql.Open, LoadScript, the first Refresh: an error, also *)
(* by a cancelled context, ends the process.                               *)
Load ==
  /\ main \in {"config", "script", "budgets"}
  /\ ~stop
  /\ main' = After[main]
  /\ UNCHANGED <<writer, stop, alive, log, tries, active, midway, known>>

LoadFails ==
  /\ main \in {"config", "script", "budgets"}
  /\ stop \/ "down" \in Faults
  /\ Ends

(* ListenAndServe fails: it is logged, and main waits for a signal all the *)
(* same.                                                                   *)
ListenFails ==
  /\ main = "serve" /\ "down" \in Faults
  /\ enqueued + active + midway = 0
  /\ main' = "deaf"
  /\ UNCHANGED <<writer, stop, alive, log, tries, active, midway, known>>

-----------------------------------------------------------------------------
(* Handlers.  One that is refused (400, 401, 503) does not call finish.    *)
Accept ==
  /\ main = "serve"
  /\ enqueued + active + midway < MaxEvents
  /\ active' = active + 1
  /\ UNCHANGED <<writer, stop, alive, log, main, tries, midway, known>>

Refuse ==
  /\ alive /\ active > 0
  /\ active' = active - 1
  /\ UNCHANGED <<writer, stop, alive, log, main, tries, midway, known>>

FinishLog ==
  /\ active > 0
  /\ L!Log
  /\ active' = active - 1 /\ midway' = midway + 1
  /\ UNCHANGED <<writer, main, tries, known>>

FinishEnqueue ==
  /\ midway > 0
  /\ Enqueue
  /\ midway' = midway - 1
  /\ UNCHANGED <<log, main, tries, active, known>>

(* The goroutines, once main has started them. *)
Write ==
  /\ main \notin Starting
  /\ WriterStep
  /\ UNCHANGED <<log, process>>

WriteLog ==
  /\ main \notin Starting
  /\ L!Step
  /\ UNCHANGED <<writer, process>>

-----------------------------------------------------------------------------
Signal ==
  /\ "stop" \in Faults /\ alive /\ ~stop /\ main # "config"
  /\ stop' = TRUE
  /\ known' = [lines |-> lines, events |-> enqueued]
  /\ UNCHANGED <<writer, alive, log, main, tries, active, midway>>

(* <-ctx.Done(), then Shutdown: no more requests. *)
Shutdown ==
  /\ main \in {"serve", "deaf"} /\ stop
  /\ main' = "shutdown"
  /\ UNCHANGED <<writer, stop, alive, log, tries, active, midway, known>>

(* Mutant: Shutdown without a deadline. *)
ShutdownEndsIdle ==
  /\ main = "shutdown" /\ active + midway = 0
  /\ main' = "sleep"
  /\ UNCHANGED <<writer, stop, alive, log, tries, active, midway, known>>

(* Shutdown returns when no handler is left, or after ten seconds. *)
ShutdownEnds ==
  /\ main = "shutdown"
  /\ active + midway = 0 \/ "slow" \in Faults
  /\ main' = "sleep"
  /\ UNCHANGED <<writer, stop, alive, log, tries, active, midway, known>>

(* The sleep is over and main returns. *)
End ==
  /\ main = "sleep"
  /\ {pc, logpc} = {"exited"} \/ "slow" \in Faults
  /\ Ends

Kill == "kill" \in Faults /\ Ends

Main == Wait \/ Load \/ LoadFails \/ Shutdown \/ ShutdownEnds \/ End

Next ==
  \/ Main \/ ListenFails
  \/ Accept \/ Refuse \/ FinishLog \/ FinishEnqueue
  \/ Write \/ WriteLog
  \/ Signal \/ Kill

Spec == Init /\ [][Next]_vars

(* main runs, and its calls return: the number of pings and the waits      *)
(* after the signal are bounded, but PingContext and the first Refresh     *)
(* have no deadline of their own, so that they return is an assumption.    *)
(* The goroutines are scheduled, the ticker fires, and an INSERT and a     *)
(* write to stdout return.  A handler is not assumed to end.               *)
FairSpec ==
  /\ Spec
  /\ WF_vars(Main)
  /\ WF_vars(Write /\ Receive) /\ WF_vars(Write /\ (FlushTimer \/ SeeStop))
  /\ WF_vars(Write /\ Drain) /\ WF_vars(Write /\ (WriteBatch \/ WriteFails))
  /\ WF_vars(WriteLog)

-----------------------------------------------------------------------------
TypeOK ==
  /\ WriterTypeOK /\ L!TypeOK
  /\ stop \in BOOLEAN /\ alive \in BOOLEAN
  /\ main \in Phase
  /\ tries \in 0 .. Attempts - 1
  /\ active \in 0 .. MaxEvents /\ midway \in 0 .. MaxEvents
  /\ known \in [lines : 0 .. MaxEvents, events : 0 .. MaxEvents]

(* No line of the request log has two fates or none (logging.go:66-117). *)
LogAccounted == L!Accounted

(* What was buffered when the signal came is not left behind: a goroutine  *)
(* that has returned has taken every event, or line, from before the       *)
(* signal out of its channel, although handlers go on filling it           *)
(* (spend_writer.go:90-116, logging.go:66-87).  What comes later may stay, *)
(* and that the last INSERT, or a write to the log, succeeds is not said.  *)
BufferedKept ==
  /\ pc = "exited" => \A e \in Elems(ch) \cup Elems(batch) : e > known.events
  /\ logpc = "exited" => \A l \in Elems(logch) : l > known.lines

(* A start ends: the process serves, or is up without serving because the  *)
(* port is taken, or has ended (main.go:33-86).                            *)
StartEnds == main = "config" ~> main \notin Starting

(* A signal ends the process, also one that comes while it starts or while *)
(* handlers never finish (main.go:136-148).                                *)
SignalEnds == stop ~> ~alive

=============================================================================
