--------------------------- MODULE ProviderStream ---------------------------
(***************************************************************************)
(* One streamed call: the loops of OpenAIProvider.Stream,                  *)
(* AnthropicProvider.Stream and MockProvider.Stream, the sseChunkWriter    *)
(* they write to, and streamDispatch, which settles the budget with what   *)
(* the writer has kept (gateway/internal/provider and proxy/stream.go).    *)
(*                                                                         *)
(* The adapters take the usage from different places: OpenAI sends it in a *)
(* chunk of its own before [DONE], Anthropic spreads it over message_start *)
(* and message_delta.  The stream may end, break or report an error at any *)
(* event, and the client may leave at any time, or stop reading and so     *)
(* keep the writer waiting.  The settlement is one call of Reconcile on    *)
(* the request's context: what Redis makes of it is in Enforcer.tla, that  *)
(* it may not get there once the client has left is here.  What Gateway    *)
(* assumes of a streamed call (its actions Complete, ProviderError and     *)
(* StreamBreaks) is what is checked here.                                  *)
(*                                                                         *)
(* Prices are whole numbers per token; the rounding of floats is left out. *)
(* External: the protocols of the providers, as the sequences of events in *)
(* Transcripts.                                                            *)
(***************************************************************************)
EXTENDS Naturals, Sequences, FiniteSets

CONSTANTS
  Families,    \* the providers that are called
  MaxTokens,   \* bound on each count of tokens a provider reports
  MaxDeltas,   \* bound on the pieces of content in a stream
  InPrice, CachedPrice, OutPrice   \* of the model, per token

ASSUME StreamAssumption ==
  /\ Families \subseteq {"openai", "anthropic", "mock"}
  /\ MaxTokens \in Nat \ {0} /\ MaxDeltas \in Nat
  /\ InPrice \in Nat /\ OutPrice \in Nat /\ CachedPrice \in 0 .. InPrice

VARIABLES
  call,      \* the call: provider, what it will bill, and the events it sends
  pos,       \* the next event to be read; 0 before the connection is made
  acc,       \* the counters of AnthropicProvider.Stream
  w,         \* the sseChunkWriter
  client,    \* what the client has received: "delta", "done"
  stuck,     \* Write waits for the client to read
  gone,      \* the client has left
  ret,       \* what Stream returned, "none" as long as it runs
  outcome    \* what streamDispatch made of it

vars == <<call, pos, acc, w, client, stuck, gone, ret, outcome>>

-----------------------------------------------------------------------------
(* What a provider bills.  cached is part of in for OpenAI; for Anthropic  *)
(* the three input counts are disjoint; the mock provider has no cache.    *)
Bill == [in : 1 .. MaxTokens, creation : 0 .. MaxTokens, cached : 0 .. MaxTokens,
         out : 1 .. MaxTokens]
Bills(fam) ==
  CASE fam = "openai" -> {b \in Bill : b.creation = 0 /\ b.cached <= b.in}
    [] fam = "anthropic" -> Bill
    [] fam = "mock" -> {b \in Bill : b.creation = 0 /\ b.cached = 0}
NoBill == [in |-> 0, creation |-> 0, cached |-> 0, out |-> 0]
UsageOf(in, out) == [in |-> in, out |-> out]
NoUsage == UsageOf(0, 0)

(* The usage of the same call without streaming, as Complete reports it. *)
CompleteUsage(fam, b) ==
  UsageOf(IF fam = "anthropic" THEN b.in + b.creation + b.cached ELSE b.in, b.out)

CostUSD(tokensIn, cachedInputTokens, tokensOut) ==
  LET uncached == IF cachedInputTokens <= tokensIn THEN tokensIn - cachedInputTokens ELSE 0
  IN  uncached * InPrice + cachedInputTokens * CachedPrice + tokensOut * OutPrice

(* Its cost, as Complete reports it. *)
CompleteCost(fam, b) ==
  LET u == CompleteUsage(fam, b) IN CostUSD(u.in, b.cached, u.out)

(* The events of a stream that runs to its end. *)
Ev(type, b) == [type |-> type, bill |-> b]
Deltas(n) == [i \in 1 .. n |-> Ev("delta", NoBill)]
Transcript(fam, b, n) ==
  CASE fam = "openai" -> Deltas(n) \o <<Ev("noise", NoBill), Ev("usage", b), Ev("[DONE]", NoBill)>>
    [] fam = "anthropic" ->
         <<Ev("message_start", [b EXCEPT !.out = 1]), Ev("noise", NoBill)>> \o Deltas(n)
         \o <<Ev("message_delta", [NoBill EXCEPT !.out = 1]),
              Ev("message_delta", [NoBill EXCEPT !.out = b.out]), Ev("message_stop", NoBill)>>
    [] fam = "mock" -> Deltas(n) \o <<Ev("usage", b)>>

(* Anthropic may report an error in place of any later event. *)
Transcripts(fam, b, n) ==
  LET full == Transcript(fam, b, n)
  IN  {full} \cup IF fam # "anthropic" THEN {}
                  ELSE {SubSeq(full, 1, i) \o <<Ev("error", NoBill)>> : i \in 0 .. Len(full) - 1}

Call ==
  UNION {UNION {[fam : {fam}, bill : {b}, events : Transcripts(fam, b, n)] :
                  b \in Bills(fam), n \in 0 .. MaxDeltas} : fam \in Families}

(* settled: Reconcile has been executed. *)
NoOutcome == [status |-> "none", usage |-> NoUsage, cost |-> 0, settled |-> FALSE]

Init ==
  /\ call \in Call
  /\ pos = 0
  /\ acc = NoBill
  /\ w = [wroteHeaders |-> FALSE, finalUsage |-> NoUsage]
  /\ client = <<>>
  /\ stuck = FALSE /\ gone = FALSE
  /\ ret = "none"
  /\ outcome = NoOutcome

-----------------------------------------------------------------------------
(* sseChunkWriter.Write: headers before the first chunk, the usage of the  *)
(* terminal chunk kept even if the client can no longer be reached.        *)
Delta == [type |-> "delta", usage |-> NoUsage]
Done(usage) == [type |-> "done", usage |-> usage]
Written(chunk) ==
  [wroteHeaders |-> TRUE,
   finalUsage |-> IF chunk.type = "done" THEN chunk.usage ELSE w.finalUsage]

(* A chunk is written, if need be when the client reads on; then Stream    *)
(* goes on ("none") or returns.  A write to a client that has left may     *)
(* fail, and Stream returns the error.                                     *)
Write(chunk, then) ==
  /\ w' = Written(chunk)
  /\ \/ client' = Append(client, chunk.type) /\ ret' = then
     \/ gone /\ ret' = "error" /\ UNCHANGED client
  /\ pos' = pos + 1
  /\ stuck' = FALSE
  /\ UNCHANGED <<call, acc, gone, outcome>>

Skip ==
  /\ pos' = pos + 1
  /\ UNCHANGED <<call, acc, w, client, stuck, gone, ret, outcome>>

Return(result) ==
  /\ ret' = result
  /\ UNCHANGED <<call, pos, acc, w, client, stuck, gone, outcome>>

Count(b) ==
  /\ acc' = b
  /\ pos' = pos + 1
  /\ UNCHANGED <<call, w, client, stuck, gone, ret, outcome>>

-----------------------------------------------------------------------------
(* The request, with stream_options.include_usage for OpenAI, is sent and  *)
(* answered, or refused by an error or a status of 400 up.                 *)
Open == pos = 0 /\ ret = "none" /\ Skip
Refused == pos = 0 /\ ret = "none" /\ call.fam # "mock" /\ Return("error")

Streaming(fam) ==
  /\ call.fam = fam /\ ret = "none"
  /\ pos \in DOMAIN call.events
Event == call.events[pos]

(* The loop of OpenAIProvider.Stream: the usage chunk becomes the terminal *)
(* chunk, [DONE] ends the loop.                                            *)
ReadOpenAI ==
  /\ Streaming("openai")
  /\ \/ Event.type = "noise" /\ Skip
     \/ Event.type = "delta" /\ Write(Delta, "none")
     \/ Event.type = "usage" /\ Write(Done(UsageOf(Event.bill.in, Event.bill.out)), "none")
     \/ Event.type = "[DONE]" /\ Return("nil")

(* Mutant of MessageDelta: the cumulative count is added up. *)
MessageDeltaAdds == Count([acc EXCEPT !.out = @ + Event.bill.out])
MessageDelta == Count([acc EXCEPT !.out = Event.bill.out])

(* The loop of AnthropicProvider.Stream.  message_start brings the input   *)
(* counts, message_delta the output tokens so far, message_stop is the end.*)
ReadAnthropic ==
  /\ Streaming("anthropic")
  /\ \/ Event.type = "noise" /\ Skip
     \/ Event.type = "message_start" /\ Count([Event.bill EXCEPT !.out = acc.out])
     \/ Event.type = "delta" /\ Write(Delta, "none")
     \/ Event.type = "message_delta" /\ MessageDelta
     \/ /\ Event.type = "message_stop"
        /\ Write(Done(UsageOf(acc.in + acc.creation + acc.cached, acc.out)), "nil")
     \/ Event.type = "error" /\ Return("error")

(* The loop of MockProvider.Stream over the words of its answer. *)
ReadMock ==
  /\ Streaming("mock")
  /\ \/ Event.type = "delta" /\ Write(Delta, "none")
     \/ Event.type = "usage" /\ Write(Done(UsageOf(Event.bill.in, Event.bill.out)), "nil")

(* The client does not read and the buffers on the way to it are full:     *)
(* Write waits, without a limit, as http.Server has no WriteTimeout.       *)
Block ==
  /\ Streaming(call.fam) /\ ~gone /\ ~stuck
  /\ Event.type \in {"delta", "usage", "message_stop"}
  /\ stuck' = TRUE
  /\ UNCHANGED <<call, pos, acc, w, client, gone, ret, outcome>>

(* The scanner stops before the next event: the provider closed the body,  *)
(* or the connection broke, timed out, or was cancelled with the request.  *)
Ends == pos > 0 /\ ~stuck /\ call.fam # "mock" /\ ret = "none" /\ Return("nil")
Breaks == pos > 0 /\ ~stuck /\ ret = "none" /\ (call.fam = "mock" => gone) /\ Return("error")

(* The client leaves, at the latest between its last chunk and Reconcile. *)
Leave ==
  /\ ~gone /\ outcome = NoOutcome
  /\ gone' = TRUE
  /\ UNCHANGED <<call, pos, acc, w, client, stuck, ret, outcome>>

-----------------------------------------------------------------------------
(* The settlement, which fails, unheard, if it comes too late for the      *)
(* request's context; and finish, in either case.                          *)
Conclude(status, usage) ==
  /\ \E settled \in BOOLEAN :
       /\ settled \/ gone
       /\ outcome' = [status |-> status, usage |-> usage,
                      cost |-> CostUSD(usage.in, 0, usage.out), settled |-> settled]
  /\ UNCHANGED <<call, pos, acc, w, client, stuck, gone, ret>>

(* Mutants of Dispatch: an error response unless there is a usage; a       *)
(* status that is not known; and no settlement after an error.             *)
DispatchByUsage ==
  /\ ret # "none" /\ outcome = NoOutcome
  /\ \/ ret = "error" /\ w.finalUsage = NoUsage /\ Conclude("error", NoUsage)
     \/ ret = "nil" /\ Conclude("ok", w.finalUsage)
     \/ w.finalUsage # NoUsage /\ Conclude("ok", w.finalUsage)
DispatchPartial ==
  /\ ret # "none" /\ outcome = NoOutcome
  /\ \/ ret = "error" /\ ~w.wroteHeaders /\ Conclude("error", NoUsage)
     \/ ret = "nil" /\ Conclude("ok", w.finalUsage)
     \/ ret = "error" /\ w.wroteHeaders /\ Conclude("partial", w.finalUsage)
DispatchGivesUp ==
  /\ ret # "none" /\ outcome = NoOutcome
  /\ \/ ret = "error" /\ ~w.wroteHeaders /\ Conclude("error", NoUsage)
     \/ ret = "nil" /\ Conclude("ok", w.finalUsage)

(* streamDispatch after Stream has returned: handleProviderError as long   *)
(* as nothing was sent, otherwise settlement by the usage that was kept,   *)
(* at the price of tokens that are not cached.                             *)
Dispatch ==
  /\ ret # "none" /\ outcome = NoOutcome
  /\ \/ ret = "error" /\ ~w.wroteHeaders /\ Conclude("error", NoUsage)
     \/ ret = "nil" /\ Conclude("ok", w.finalUsage)
     \/ ret = "error" /\ w.wroteHeaders /\ Conclude("ok", w.finalUsage)

Read == ReadOpenAI \/ ReadAnthropic \/ ReadMock

Stream == Open \/ Refused \/ Read \/ Ends \/ Breaks

Next == Stream \/ Block \/ Leave \/ Dispatch

Spec == Init /\ [][Next]_vars

(* The next event arrives or the clients' timeout of 60 s ends the read;   *)
(* the mock provider waits for its own timer.  A Write that waits for a    *)
(* client goes on if the client leaves; that it ever reads again is not    *)
(* assumed.                                                                *)
FairSpec == Spec /\ WF_vars((~stuck \/ gone) /\ Stream) /\ WF_vars(Dispatch)

-----------------------------------------------------------------------------
TypeOK ==
  /\ call \in Call
  /\ pos \in 0 .. Len(call.events) + 1
  /\ acc \in [in : 0 .. MaxTokens, creation : 0 .. MaxTokens, cached : 0 .. MaxTokens,
              out : Nat]
  /\ w \in [wroteHeaders : BOOLEAN, finalUsage : [in : Nat, out : Nat]]
  /\ client \in Seq({"delta", "done"})
  /\ stuck \in BOOLEAN /\ gone \in BOOLEAN
  /\ ret \in {"none", "nil", "error"}
  /\ outcome \in [status : {"none", "ok", "error"}, usage : [in : Nat, out : Nat],
                  cost : Nat, settled : BOOLEAN]

(* A streamed call is settled as a whole or for nothing, never for a part  *)
(* of it, in tokens and in dollars: for what Complete would have reported  *)
(* of the call, except that the discount on cached input is not given;     *)
(* and a client that has seen the end of the stream is charged, also when  *)
(* the connection breaks after the terminal chunk (finalUsage).  Only a    *)
(* client that has left can make the settlement itself fail, which leaves  *)
(* the estimate charged (stream.go:84-131).                                *)
ChargedWhole ==
  outcome.status # "none" =>
    LET full == CompleteUsage(call.fam, call.bill)
        discount == call.bill.cached * (InPrice - CachedPrice)
    IN  /\ \/ outcome.usage = NoUsage /\ outcome.cost = 0
           \/ /\ outcome.usage = full
              /\ outcome.cost = CompleteCost(call.fam, call.bill) + discount
        /\ (\E i \in DOMAIN client : client[i] = "done") => outcome.usage = full
        /\ outcome.settled \/ gone

(* A client gets one response: an error only if nothing was sent before,   *)
(* and a stream whose end comes once and last (wroteHeaders, the return at *)
(* [DONE] and message_stop).                                               *)
OneResponse ==
  /\ outcome.status = "error" => client = <<>>
  /\ \A i \in DOMAIN client : client[i] = "done" => i = Len(client)

(* Every stream that is read comes to an end in finish, whatever ends it,  *)
(* unless its client neither reads on nor leaves (stream.go:84-131).       *)
Settled ==
  []<>(~stuck \/ gone) => (pos > 0 ~> outcome.status # "none")

=============================================================================
