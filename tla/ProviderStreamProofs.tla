------------------------ MODULE ProviderStreamProofs ------------------------
(***************************************************************************)
(* What is proved of a streamed call for every provider, every number of   *)
(* tokens and of pieces of content, wherever the stream ends, breaks or    *)
(* reports an error and whenever the client stops reading or leaves: it is *)
(* settled as a whole or for nothing, and the client gets one response.    *)
(***************************************************************************)
EXTENDS ProviderStream, TLAPS

Counts == [in : 0 .. MaxTokens, creation : 0 .. MaxTokens, cached : 0 .. MaxTokens,
           out : 0 .. MaxTokens]
EventType == {"delta", "noise", "usage", "[DONE]", "message_start", "message_delta",
              "message_stop", "error"}
EventSet == [type : EventType, bill : Counts]

(* What the loops rely on.  OpenAI: nothing but [DONE] follows the usage.  *)
(* Anthropic: message_start comes first, and the last message_delta before *)
(* message_stop has the final count.                                       *)
Protocol(fam, b, events) ==
  /\ events \in Seq(EventSet)
  /\ fam \in {"openai", "mock"} =>
       \A k \in DOMAIN events : events[k].type = "usage" => events[k].bill = b
  /\ fam = "openai" =>
       \A k \in DOMAIN events :
         events[k].type = "usage" /\ k + 1 \in DOMAIN events => events[k + 1].type = "[DONE]"
  /\ fam = "anthropic" =>
       \A k \in DOMAIN events :
         /\ k = 1 => events[k].type \in {"message_start", "error"}
         /\ events[k].type = "message_start" =>
              /\ k = 1
              /\ events[k].bill.in = b.in /\ events[k].bill.creation = b.creation
              /\ events[k].bill.cached = b.cached
         /\ events[k].type = "message_stop" =>
              /\ k > 1 /\ events[k - 1].type = "message_delta"
              /\ events[k - 1].bill.out = b.out

Ended == \E i \in DOMAIN client : client[i] = "done"
Full == CompleteUsage(call.fam, call.bill)

(* The counters of AnthropicProvider.Stream while it reads. *)
Counted ==
  call.fam = "anthropic" /\ ret = "none" /\ pos > 1 =>
    /\ acc.in = call.bill.in /\ acc.creation = call.bill.creation
    /\ acc.cached = call.bill.cached
    /\ call.events[pos - 1].type = "message_delta" => acc.out = call.events[pos - 1].bill.out

(* What the writer keeps and what the client has seen. *)
Sent ==
  /\ w.finalUsage \in {NoUsage, Full}
  /\ Ended => w.finalUsage = Full
  /\ \A i \in DOMAIN client : client[i] = "done" => i = Len(client)
  /\ ~w.wroteHeaders => client = <<>>
  /\ Ended /\ ret = "none" =>
       call.fam = "openai" /\ pos > 1 /\ call.events[pos - 1].type = "usage"

(* What streamDispatch has made of it. *)
Concluded ==
  /\ outcome.status = "none" => outcome = NoOutcome
  /\ outcome.status # "none" => ret # "none"
  /\ outcome.status = "ok" => outcome.usage = w.finalUsage
  /\ outcome.status = "error" => outcome.usage = NoUsage /\ client = <<>>
  /\ outcome.status # "none" =>
       /\ outcome.cost = CostUSD(outcome.usage.in, 0, outcome.usage.out)
       /\ outcome.settled \/ gone

SInv == TypeOK /\ Counted /\ Sent /\ Concluded

-----------------------------------------------------------------------------
(* The events of a stream. *)
LEMMA BillFacts ==
  ASSUME NEW b \in Bill
  PROVE  /\ b \in Counts /\ NoBill \in Counts
         /\ b.in \in Nat /\ b.creation \in Nat /\ b.cached \in Nat /\ b.out \in Nat
         /\ [b EXCEPT !.out = 1] \in Counts
         /\ [NoBill EXCEPT !.out = 1] \in Counts
         /\ [NoBill EXCEPT !.out = b.out] \in Counts
  <1>1. MaxTokens \in Nat \ {0} BY StreamAssumption
  <1>2. 1 .. MaxTokens \subseteq 0 .. MaxTokens /\ 0 \in 0 .. MaxTokens /\ 1 \in 0 .. MaxTokens
        /\ 0 .. MaxTokens \subseteq Nat
    BY <1>1
  <1>3. b.in \in 0 .. MaxTokens /\ b.creation \in 0 .. MaxTokens /\ b.cached \in 0 .. MaxTokens
        /\ b.out \in 0 .. MaxTokens
    BY <1>2 DEF Bill
  <1>4. b = [in |-> b.in, creation |-> b.creation, cached |-> b.cached, out |-> b.out]
    BY DEF Bill
  <1> DEFINE M == 0 .. MaxTokens
  <1> HIDE DEF M
  <1>5. b \in [in : M, creation : M, cached : M, out : M] BY <1>3, <1>4 DEF M
  <1>6. NoBill \in [in : M, creation : M, cached : M, out : M] BY <1>2 DEF NoBill, M
  <1>7. 1 \in M /\ b.out \in M BY <1>2, <1>3 DEF M
  <1>8. /\ [b EXCEPT !.out = 1] \in [in : M, creation : M, cached : M, out : M]
        /\ [NoBill EXCEPT !.out = 1] \in [in : M, creation : M, cached : M, out : M]
        /\ [NoBill EXCEPT !.out = b.out] \in [in : M, creation : M, cached : M, out : M]
    BY <1>5, <1>6, <1>7
  <1> QED BY <1>2, <1>3, <1>5, <1>6, <1>8 DEF Counts, M

(* An event has the type and the counts it was made with. *)
LEMMA EvFacts ==
  ASSUME NEW t \in EventType, NEW b \in Counts
  PROVE  Ev(t, b) \in EventSet /\ Ev(t, b).type = t /\ Ev(t, b).bill = b
  BY DEF Ev, EventSet

(* Deltas(n) is n pieces of content. *)
LEMMA DeltaFacts ==
  ASSUME NEW n \in Nat
  PROVE  /\ Deltas(n) \in Seq(EventSet) /\ Len(Deltas(n)) = n
         /\ \A k \in 1 .. n : Deltas(n)[k].type = "delta"
  <1>1. NoBill \in Counts
    <2>1. MaxTokens \in Nat \ {0} BY StreamAssumption
    <2>2. 0 \in 0 .. MaxTokens BY <2>1
    <2> QED BY <2>2 DEF NoBill, Counts
  <1>2. "delta" \in EventType BY DEF EventType
  <1> DEFINE e == Ev("delta", NoBill)
  <1>3. e \in EventSet /\ e.type = "delta" BY <1>1, <1>2, EvFacts
  <1> HIDE DEF e
  <1>4. Deltas(n) = [i \in 1 .. n |-> e] BY DEF Deltas, e
  <1>5. Deltas(n) \in Seq(EventSet) /\ Len(Deltas(n)) = n BY <1>3, <1>4
  <1> QED BY <1>3, <1>4, <1>5

(* A sequence of events after another. *)
LEMMA JoinFacts ==
  ASSUME NEW s \in Seq(EventSet), NEW t \in Seq(EventSet)
  PROVE  /\ s \o t \in Seq(EventSet) /\ Len(s) \in Nat /\ Len(t) \in Nat
         /\ DOMAIN (s \o t) = 1 .. Len(s) + Len(t)
         /\ Len(s \o t) = Len(s) + Len(t)
         /\ \A k \in 1 .. Len(s) : (s \o t)[k] = s[k]
         /\ \A k \in Len(s) + 1 .. Len(s) + Len(t) : (s \o t)[k] = t[k - Len(s)]
  <1>1. /\ s \o t \in Seq(EventSet) /\ Len(s) \in Nat /\ Len(t) \in Nat
        /\ Len(s \o t) = Len(s) + Len(t)
        /\ DOMAIN (s \o t) = 1 .. Len(s) + Len(t)
    OBVIOUS
  <1>2. \A i \in 1 .. Len(s) + Len(t) : (s \o t)[i] = IF i <= Len(s) THEN s[i] ELSE t[i - Len(s)]
    OBVIOUS
  <1>3. \A k \in 1 .. Len(s) : k \in 1 .. Len(s) + Len(t) /\ k <= Len(s) BY <1>1
  <1>4. \A k \in Len(s) + 1 .. Len(s) + Len(t) : k \in 1 .. Len(s) + Len(t) /\ ~(k <= Len(s))
    BY <1>1
  <1> QED BY <1>1, <1>2, <1>3, <1>4

(* OpenAI: deltas, noise, usage, [DONE]. *)
LEMMA OpenAIProtocol ==
  ASSUME NEW b \in Bill, NEW n \in Nat
  PROVE  Protocol("openai", b, Transcript("openai", b, n))
  <1> DEFINE x == Ev("noise", NoBill)
             y == Ev("usage", b)
             z == Ev("[DONE]", NoBill)
             d == Deltas(n)
             e == d \o <<x, y, z>>
  <1>1. Transcript("openai", b, n) = e BY DEF Transcript
  <1>2. /\ x \in EventSet /\ y \in EventSet /\ z \in EventSet
        /\ x.type = "noise" /\ y.type = "usage" /\ z.type = "[DONE]" /\ y.bill = b
    <2>1. "noise" \in EventType /\ "usage" \in EventType /\ "[DONE]" \in EventType
      BY DEF EventType
    <2> QED BY <2>1, BillFacts, EvFacts
  <1>3. d \in Seq(EventSet) /\ Len(d) = n /\ \A k \in 1 .. n : d[k].type = "delta" BY DeltaFacts
  <1> HIDE DEF x, y, z, d
  <1> DEFINE t == <<x, y, z>>
  <1>4. t \in Seq(EventSet) /\ Len(t) = 3 /\ t[1] = x /\ t[2] = y /\ t[3] = z BY <1>2
  <1> HIDE DEF t
  <1>5. /\ e \in Seq(EventSet) /\ DOMAIN e = 1 .. n + 3
        /\ \A k \in 1 .. n : e[k] = d[k]
        /\ \A k \in n + 1 .. n + 3 : e[k] = t[k - n]
    BY <1>3, <1>4, JoinFacts DEF t
  <1>6. e[n + 1] = x /\ e[n + 2] = y /\ e[n + 3] = z
    <2>1. /\ n + 1 \in n + 1 .. n + 3 /\ n + 2 \in n + 1 .. n + 3 /\ n + 3 \in n + 1 .. n + 3
          /\ (n + 1) - n = 1 /\ (n + 2) - n = 2 /\ (n + 3) - n = 3
      OBVIOUS
    <2> QED BY <1>4, <1>5, <2>1
  <1>7. \A k \in 1 .. n + 3 : k \in 1 .. n \/ k = n + 1 \/ k = n + 2 \/ k = n + 3 OBVIOUS
  <1> HIDE DEF e
  <1>8. \A k \in DOMAIN e : e[k].type = "usage" => k = n + 2 /\ e[k].bill = b
    BY <1>2, <1>3, <1>5, <1>6, <1>7
  <1>9. \A k \in DOMAIN e : e[k].type = "usage" /\ k + 1 \in DOMAIN e => e[k + 1].type = "[DONE]"
    <2>1. (n + 2) + 1 = n + 3 OBVIOUS
    <2> QED BY <1>2, <1>6, <1>8, <2>1
  <1> QED BY <1>1, <1>5, <1>8, <1>9 DEF Protocol

(* The mock provider: deltas, usage. *)
LEMMA MockProtocol ==
  ASSUME NEW b \in Bill, NEW n \in Nat
  PROVE  Protocol("mock", b, Transcript("mock", b, n))
  <1> DEFINE y == Ev("usage", b)
             d == Deltas(n)
             e == d \o <<y>>
  <1>1. Transcript("mock", b, n) = e BY DEF Transcript
  <1>2. y \in EventSet /\ y.type = "usage" /\ y.bill = b
    <2>1. "usage" \in EventType BY DEF EventType
    <2> QED BY <2>1, BillFacts, EvFacts
  <1>3. d \in Seq(EventSet) /\ Len(d) = n /\ \A k \in 1 .. n : d[k].type = "delta" BY DeltaFacts
  <1> HIDE DEF y, d
  <1> DEFINE t == <<y>>
  <1>4. t \in Seq(EventSet) /\ Len(t) = 1 /\ t[1] = y BY <1>2
  <1> HIDE DEF t
  <1>5. /\ e \in Seq(EventSet) /\ DOMAIN e = 1 .. n + 1
        /\ \A k \in 1 .. n : e[k] = d[k]
        /\ \A k \in n + 1 .. n + 1 : e[k] = t[k - n]
    BY <1>3, <1>4, JoinFacts DEF t
  <1>6. e[n + 1] = y
    <2>1. n + 1 \in n + 1 .. n + 1 /\ (n + 1) - n = 1 OBVIOUS
    <2> QED BY <1>4, <1>5, <2>1
  <1>7. \A k \in 1 .. n + 1 : k \in 1 .. n \/ k = n + 1 OBVIOUS
  <1> HIDE DEF e
  <1>8. \A k \in DOMAIN e : e[k].type = "usage" => e[k].bill = b
    BY <1>2, <1>3, <1>5, <1>6, <1>7
  <1> QED BY <1>1, <1>5, <1>8 DEF Protocol

(* Anthropic: message_start, noise, deltas, two message_deltas,            *)
(* message_stop.                                                           *)
LEMMA AnthropicProtocol ==
  ASSUME NEW b \in Bill, NEW n \in Nat
  PROVE  Protocol("anthropic", b, Transcript("anthropic", b, n))
  <1> DEFINE p == Ev("message_start", [b EXCEPT !.out = 1])
             q == Ev("noise", NoBill)
             x == Ev("message_delta", [NoBill EXCEPT !.out = 1])
             y == Ev("message_delta", [NoBill EXCEPT !.out = b.out])
             z == Ev("message_stop", NoBill)
             d == Deltas(n)
             e == <<p, q>> \o d \o <<x, y, z>>
  <1>1. Transcript("anthropic", b, n) = e BY DEF Transcript
  <1>2. /\ p \in EventSet /\ q \in EventSet /\ x \in EventSet /\ y \in EventSet /\ z \in EventSet
        /\ p.type = "message_start" /\ q.type = "noise" /\ x.type = "message_delta"
        /\ y.type = "message_delta" /\ z.type = "message_stop"
        /\ p.bill = [b EXCEPT !.out = 1] /\ y.bill = [NoBill EXCEPT !.out = b.out]
    <2>1. /\ "message_start" \in EventType /\ "noise" \in EventType
          /\ "message_delta" \in EventType /\ "message_stop" \in EventType
      BY DEF EventType
    <2> QED BY <2>1, BillFacts, EvFacts
  <1>3. /\ p.bill.in = b.in /\ p.bill.creation = b.creation /\ p.bill.cached = b.cached
        /\ y.bill.out = b.out
    <2>1. /\ [b EXCEPT !.out = 1].in = b.in /\ [b EXCEPT !.out = 1].creation = b.creation
          /\ [b EXCEPT !.out = 1].cached = b.cached /\ [NoBill EXCEPT !.out = b.out].out = b.out
      BY DEF Bill, NoBill
    <2> QED BY <1>2, <2>1
  <1>4. d \in Seq(EventSet) /\ Len(d) = n /\ \A k \in 1 .. n : d[k].type = "delta" BY DeltaFacts
  <1> HIDE DEF p, q, x, y, z, d
  <1> DEFINE h == <<p, q>>
             t == <<x, y, z>>
             m == h \o d
  <1>5. h \in Seq(EventSet) /\ Len(h) = 2 /\ h[1] = p /\ h[2] = q BY <1>2
  <1>6. t \in Seq(EventSet) /\ Len(t) = 3 /\ t[1] = x /\ t[2] = y /\ t[3] = z BY <1>2
  <1>7. e = m \o t OBVIOUS
  <1> HIDE DEF h, t, e
  <1>8. /\ m \in Seq(EventSet) /\ Len(m) = 2 + n
        /\ \A k \in 1 .. 2 : m[k] = h[k]
        /\ \A k \in 2 + 1 .. 2 + n : m[k] = d[k - 2]
    <2>1. /\ m \in Seq(EventSet) /\ Len(m) = Len(h) + Len(d)
          /\ \A k \in 1 .. Len(h) : m[k] = h[k]
          /\ \A k \in Len(h) + 1 .. Len(h) + Len(d) : m[k] = d[k - Len(h)]
      BY <1>4, <1>5, JoinFacts
    <2> HIDE DEF m
    <2> QED BY <1>4, <1>5, <2>1
  <1> HIDE DEF m
  <1>9. /\ e \in Seq(EventSet) /\ DOMAIN e = 1 .. (2 + n) + 3
        /\ \A k \in 1 .. 2 + n : e[k] = m[k]
        /\ \A k \in (2 + n) + 1 .. (2 + n) + 3 : e[k] = t[k - (2 + n)]
    <2>1. /\ m \o t \in Seq(EventSet) /\ DOMAIN (m \o t) = 1 .. Len(m) + Len(t)
          /\ \A k \in 1 .. Len(m) : (m \o t)[k] = m[k]
          /\ \A k \in Len(m) + 1 .. Len(m) + Len(t) : (m \o t)[k] = t[k - Len(m)]
      BY <1>6, <1>8, JoinFacts
    <2>2. /\ e \in Seq(EventSet) /\ DOMAIN e = 1 .. Len(m) + Len(t)
          /\ \A k \in 1 .. Len(m) : e[k] = m[k]
          /\ \A k \in Len(m) + 1 .. Len(m) + Len(t) : e[k] = t[k - Len(m)]
      BY <1>7, <2>1
    <2> QED BY <1>6, <1>8, <2>2
  <1>10. e[1] = p /\ e[2] = q
    <2>1. 1 \in 1 .. 2 + n /\ 2 \in 1 .. 2 + n /\ 1 \in 1 .. 2 /\ 2 \in 1 .. 2 OBVIOUS
    <2> QED BY <1>5, <1>8, <1>9, <2>1
  <1>11. \A k \in 3 .. 2 + n : e[k].type = "delta"
    <2>1. \A k \in 3 .. 2 + n : k \in 1 .. 2 + n /\ k \in 2 + 1 .. 2 + n /\ k - 2 \in 1 .. n OBVIOUS
    <2> QED BY <1>4, <1>8, <1>9, <2>1
  <1>12. e[n + 3] = x /\ e[n + 4] = y /\ e[n + 5] = z
    <2> DEFINE D == (2 + n) + 1 .. (2 + n) + 3
    <2>1. /\ n + 3 \in D /\ n + 4 \in D /\ n + 5 \in D
          /\ (n + 3) - (2 + n) = 1 /\ (n + 4) - (2 + n) = 2 /\ (n + 5) - (2 + n) = 3
      OBVIOUS
    <2> QED BY <1>6, <1>9, <2>1
  <1>13. \A k \in 1 .. (2 + n) + 3 : \/ k = 1 \/ k = 2 \/ k \in 3 .. 2 + n
                                     \/ k = n + 3 \/ k = n + 4 \/ k = n + 5
    OBVIOUS
  <1>14. ASSUME NEW k \in DOMAIN e
         PROVE  /\ k = 1 => e[k].type \in {"message_start", "error"}
                /\ e[k].type = "message_start" =>
                     k = 1 /\ e[k].bill.in = b.in /\ e[k].bill.creation = b.creation
                     /\ e[k].bill.cached = b.cached
                /\ e[k].type = "message_stop" =>
                     k > 1 /\ e[k - 1].type = "message_delta" /\ e[k - 1].bill.out = b.out
    <2>1. k = 1 => e[k].type \in {"message_start", "error"} BY <1>2, <1>10
    <2>2. e[k].type = "message_start" => k = 1
      BY <1>2, <1>9, <1>10, <1>11, <1>12, <1>13
    <2>3. e[k].type = "message_stop" => k = n + 5
      BY <1>2, <1>9, <1>10, <1>11, <1>12, <1>13
    <2>4. n + 5 > 1 /\ (n + 5) - 1 = n + 4 OBVIOUS
    <2>5. e[k].type = "message_start" =>
            k = 1 /\ e[k].bill.in = b.in /\ e[k].bill.creation = b.creation
            /\ e[k].bill.cached = b.cached
      BY <1>3, <1>10, <2>2
    <2>6. ASSUME e[k].type = "message_stop"
          PROVE  k > 1 /\ e[k - 1].type = "message_delta" /\ e[k - 1].bill.out = b.out
      <3>1. k = n + 5 /\ k - 1 = n + 4 /\ k > 1 BY <2>3, <2>4, <2>6
      <3>2. e[k - 1] = y BY <1>12, <3>1
      <3> QED BY <1>2, <1>3, <3>1, <3>2
    <2> QED BY <2>1, <2>5, <2>6
  <1> QED BY <1>1, <1>9, <1>14 DEF Protocol

(* An error in place of any event keeps what comes before it. *)
LEMMA ErrorProtocol ==
  ASSUME NEW b \in Bill, NEW full, Protocol("anthropic", b, full), NEW i \in 0 .. Len(full) - 1
  PROVE  Protocol("anthropic", b, SubSeq(full, 1, i) \o <<Ev("error", NoBill)>>)
  <1> DEFINE x == Ev("error", NoBill)
             s == SubSeq(full, 1, i)
             e == s \o <<x>>
  <1>1. x \in EventSet /\ x.type = "error"
    <2>1. "error" \in EventType BY DEF EventType
    <2> QED BY <2>1, BillFacts, EvFacts
  <1>2. full \in Seq(EventSet) /\ Len(full) \in Nat /\ DOMAIN full = 1 .. Len(full)
    BY DEF Protocol
  <1>3. i \in Nat /\ i <= Len(full) BY <1>2
  <1>4. s \in Seq(EventSet) /\ Len(s) = i /\ \A k \in 1 .. i : s[k] = full[k]
    <2>1. \A k \in 1 .. i : k \in 1 .. Len(full) BY <1>2, <1>3
    <2>2. s = [k \in 1 .. i |-> full[k]] BY <1>2, <1>3
    <2>3. \A k \in 1 .. i : full[k] \in EventSet BY <1>2, <2>1
    <2> HIDE DEF s
    <2>4. s \in [1 .. i -> EventSet] BY <2>2, <2>3
    <2> QED BY <1>3, <2>2, <2>4
  <1> HIDE DEF x, s
  <1> DEFINE t == <<x>>
  <1>5. t \in Seq(EventSet) /\ Len(t) = 1 /\ t[1] = x BY <1>1
  <1> HIDE DEF t
  <1>6. /\ e \in Seq(EventSet) /\ DOMAIN e = 1 .. i + 1
        /\ \A k \in 1 .. i : e[k] = s[k]
        /\ \A k \in i + 1 .. i + 1 : e[k] = t[k - i]
    BY <1>4, <1>5, JoinFacts DEF t
  <1>7. e[i + 1] = x
    <2>1. i + 1 \in i + 1 .. i + 1 /\ (i + 1) - i = 1 BY <1>3
    <2> QED BY <1>5, <1>6, <2>1
  <1>8. \A k \in 1 .. i + 1 : k \in 1 .. i \/ k = i + 1 BY <1>3
  <1>9. \A k \in 1 .. i : k \in DOMAIN full /\ e[k] = full[k] BY <1>2, <1>3, <1>4, <1>6
  <1> HIDE DEF e
  <1>10. ASSUME NEW k \in DOMAIN e
         PROVE  /\ k = 1 => e[k].type \in {"message_start", "error"}
                /\ e[k].type = "message_start" =>
                     k = 1 /\ e[k].bill.in = b.in /\ e[k].bill.creation = b.creation
                     /\ e[k].bill.cached = b.cached
                /\ e[k].type = "message_stop" =>
                     k > 1 /\ e[k - 1].type = "message_delta" /\ e[k - 1].bill.out = b.out
    <2>1. CASE k = i + 1 BY <1>1, <1>7, <2>1
    <2>2. CASE k \in 1 .. i
      <3>1. k \in DOMAIN full /\ e[k] = full[k] BY <1>9, <2>2
      <3>2. /\ k = 1 => full[k].type \in {"message_start", "error"}
            /\ full[k].type = "message_start" =>
                 k = 1 /\ full[k].bill.in = b.in /\ full[k].bill.creation = b.creation
                 /\ full[k].bill.cached = b.cached
            /\ full[k].type = "message_stop" =>
                 k > 1 /\ full[k - 1].type = "message_delta" /\ full[k - 1].bill.out = b.out
        BY <3>1 DEF Protocol
      <3>3. k > 1 => k - 1 \in 1 .. i BY <1>3, <2>2
      <3>4. k > 1 => e[k - 1] = full[k - 1] BY <1>9, <3>3
      <3> QED BY <3>1, <3>2, <3>4
    <2> QED BY <1>6, <1>8, <2>1, <2>2
  <1> QED BY <1>6, <1>10 DEF Protocol, e, t, s, x

(* Every call is one of a provider that keeps to its protocol. *)
LEMMA CallFacts ==
  ASSUME NEW c \in Call
  PROVE  /\ c.fam \in {"openai", "anthropic", "mock"} /\ c.bill \in Bill
         /\ Protocol(c.fam, c.bill, c.events)
         /\ c.bill.cached <= CompleteUsage(c.fam, c.bill).in
  <1> DEFINE R(fam, b, n) == [fam : {fam}, bill : {b}, events : Transcripts(fam, b, n)]
  <1>1. PICK fam \in Families : c \in UNION {R(fam, b, n) : b \in Bills(fam), n \in 0 .. MaxDeltas}
    BY DEF Call
  <1>2. PICK b \in Bills(fam), n \in 0 .. MaxDeltas : c \in R(fam, b, n)
    <2> HIDE DEF R
    <2> QED BY <1>1
  <1>3. c.fam = fam /\ c.bill = b /\ c.events \in Transcripts(fam, b, n) BY <1>2
  <1>4. fam \in {"openai", "anthropic", "mock"} BY StreamAssumption
  <1>5. b \in Bill BY <1>4 DEF Bills
  <1>6. n \in Nat BY StreamAssumption
  <1>7. Protocol(fam, b, Transcript(fam, b, n))
    BY <1>4, <1>5, <1>6, OpenAIProtocol, MockProtocol, AnthropicProtocol
  <1> DEFINE full == Transcript(fam, b, n)
  <1>8. \/ c.events = full
        \/ fam = "anthropic" /\ \E i \in 0 .. Len(full) - 1 :
                                  c.events = SubSeq(full, 1, i) \o <<Ev("error", NoBill)>>
    BY <1>3 DEF Transcripts
  <1> HIDE DEF full
  <1>9. Protocol(fam, b, full) BY <1>7 DEF full
  <1>10. Protocol(fam, b, c.events) BY <1>5, <1>8, <1>9, ErrorProtocol
  <1>11. b.cached <= CompleteUsage(fam, b).in
    <2>1. /\ b.in \in Nat /\ b.creation \in Nat /\ b.cached \in Nat BY <1>5, BillFacts
    <2>2. fam = "openai" => b.cached <= b.in BY DEF Bills
    <2>3. fam = "mock" => b.cached = 0 BY DEF Bills
    <2>4. CompleteUsage(fam, b).in = IF fam = "anthropic" THEN b.in + b.creation + b.cached
                                     ELSE b.in
      BY DEF CompleteUsage, UsageOf
    <2> QED BY <1>4, <2>1, <2>2, <2>3, <2>4
  <1> QED BY <1>3, <1>4, <1>5, <1>10, <1>11

-----------------------------------------------------------------------------
(* Without the cached tokens a cost is that of its tokens at full price.   *)
LEMMA CostFacts ==
  ASSUME NEW i \in Nat, NEW c \in Nat, NEW o \in Nat, c <= i
  PROVE  /\ CostUSD(i, 0, o) \in Nat
         /\ CostUSD(i, 0, o) = CostUSD(i, c, o) + c * (InPrice - CachedPrice)
  <1>1. InPrice \in Nat /\ CachedPrice \in Nat /\ OutPrice \in Nat BY StreamAssumption
  <1>2. CostUSD(i, 0, o) = i * InPrice + 0 * CachedPrice + o * OutPrice BY DEF CostUSD
  <1>3. CostUSD(i, c, o) = (i - c) * InPrice + c * CachedPrice + o * OutPrice BY DEF CostUSD
  <1>4. /\ i * InPrice \in Nat /\ o * OutPrice \in Nat /\ c * CachedPrice \in Nat
        /\ c * InPrice \in Nat /\ 0 * CachedPrice = 0
    BY <1>1
  <1>5. (i - c) * InPrice = i * InPrice - c * InPrice BY <1>1
  <1>6. c * (InPrice - CachedPrice) = c * InPrice - c * CachedPrice BY <1>1
  <1> DEFINE a == i * InPrice
             b == c * InPrice
             d == c * CachedPrice
             e == o * OutPrice
  <1>7. a \in Nat /\ b \in Nat /\ d \in Nat /\ e \in Nat BY <1>4
  <1>8. CostUSD(i, 0, o) = a + e BY <1>2, <1>4
  <1>9. CostUSD(i, c, o) = (a - b) + d + e BY <1>3, <1>5
  <1>10. c * (InPrice - CachedPrice) = b - d BY <1>6
  <1> HIDE DEF a, b, d, e
  <1> QED BY <1>7, <1>8, <1>9, <1>10

(* The call that is made does not change. *)
LEMMA SameCall ==
  ASSUME TypeOK
  PROVE  /\ call.fam \in {"openai", "anthropic", "mock"} /\ call.bill \in Bill
         /\ Protocol(call.fam, call.bill, call.events)
         /\ call.events \in Seq(EventSet) /\ Len(call.events) \in Nat
         /\ DOMAIN call.events = 1 .. Len(call.events)
         /\ Full \in [in : Nat, out : Nat] /\ NoUsage \in [in : Nat, out : Nat]
         /\ call.bill.cached \in Nat /\ call.bill.cached <= Full.in
  <1>1. /\ call.fam \in {"openai", "anthropic", "mock"} /\ call.bill \in Bill
        /\ Protocol(call.fam, call.bill, call.events)
    BY CallFacts DEF TypeOK
  <1>2. call.events \in Seq(EventSet) BY <1>1 DEF Protocol
  <1>3. \A m, n \in Nat : UsageOf(m, n) \in [in : Nat, out : Nat] BY DEF UsageOf
  <1>4. /\ call.bill.in \in Nat /\ call.bill.creation \in Nat /\ call.bill.cached \in Nat
        /\ call.bill.out \in Nat
    BY <1>1, BillFacts
  <1>5. call.bill.in + call.bill.creation + call.bill.cached \in Nat BY <1>4
  <1>6. Full \in [in : Nat, out : Nat] BY <1>3, <1>4, <1>5 DEF Full, CompleteUsage
  <1>7. NoUsage \in [in : Nat, out : Nat] BY <1>3 DEF NoUsage
  <1>8. call.bill.cached <= Full.in BY CallFacts DEF TypeOK, Full
  <1> QED BY <1>1, <1>2, <1>4, <1>6, <1>7, <1>8

(* The event that is read next. *)
LEMMA EventFacts ==
  ASSUME SInv, ret = "none", pos \in DOMAIN call.events
  PROVE  /\ pos \in Nat \ {0} /\ pos + 1 \in 0 .. Len(call.events) + 1
         /\ pos + 1 > 1 /\ (pos + 1) - 1 = pos
         /\ Event \in EventSet /\ Event.bill \in Counts
         /\ Event.type # "[DONE]" => ~Ended
         /\ call.fam = "anthropic" /\ pos = 1 => Event.type \in {"message_start", "error"}
         /\ outcome = NoOutcome /\ outcome.status = "none"
  <1>1. TypeOK /\ Sent /\ Concluded BY DEF SInv
  <1>2. /\ Protocol(call.fam, call.bill, call.events)
        /\ call.events \in Seq(EventSet) /\ Len(call.events) \in Nat
        /\ DOMAIN call.events = 1 .. Len(call.events)
    BY <1>1, SameCall
  <1>3. pos \in Nat \ {0} /\ pos + 1 \in 0 .. Len(call.events) + 1 /\ pos + 1 > 1
        /\ (pos + 1) - 1 = pos
    BY <1>2
  <1>4. Event \in EventSet BY <1>2 DEF Event
  <1>5. Event.bill \in Counts BY <1>4 DEF EventSet
  <1>6. ASSUME Event.type # "[DONE]" PROVE ~Ended
    <2> SUFFICES ASSUME Ended PROVE FALSE OBVIOUS
    <2>1. call.fam = "openai" /\ pos > 1 /\ call.events[pos - 1].type = "usage" BY <1>1 DEF Sent
    <2>2. pos - 1 \in DOMAIN call.events /\ (pos - 1) + 1 = pos BY <1>2, <1>3, <2>1
    <2>3. call.events[pos].type = "[DONE]" BY <1>2, <2>1, <2>2 DEF Protocol
    <2> QED BY <1>6, <2>3 DEF Event
  <1>7. call.fam = "anthropic" /\ pos = 1 => Event.type \in {"message_start", "error"}
    BY <1>2 DEF Protocol, Event
  <1>8. outcome = NoOutcome /\ outcome.status = "none" BY <1>1 DEF Concluded, NoOutcome
  <1> QED BY <1>3, <1>4, <1>5, <1>6, <1>7, <1>8

(* A chunk is written. *)
LEMMA WriteKeeps ==
  ASSUME SInv, ret = "none", pos \in DOMAIN call.events, Event.type # "[DONE]",
         NEW then \in {"none", "nil"}, NEW chunk \in {Delta, Done(Full)}, Write(chunk, then),
         chunk.type = "done" /\ then = "none" => call.fam = "openai" /\ Event.type = "usage",
         call.fam = "anthropic" /\ then = "none" =>
           Event.type \notin {"message_start", "message_delta", "error"}
  PROVE  SInv'
  <1>t. TypeOK /\ Counted /\ Sent /\ Concluded BY DEF SInv
  <1>e. /\ pos + 1 \in 0 .. Len(call.events) + 1 /\ pos + 1 > 1 /\ (pos + 1) - 1 = pos
        /\ ~Ended /\ pos \in Nat \ {0}
        /\ call.fam = "anthropic" /\ pos = 1 => Event.type \in {"message_start", "error"}
        /\ outcome = NoOutcome /\ outcome.status = "none"
    BY EventFacts
  <1>f. Full \in [in : Nat, out : Nat] /\ NoUsage \in [in : Nat, out : Nat] BY <1>t, SameCall
  <1>c. /\ chunk.type \in {"delta", "done"}
        /\ chunk.type = "done" => chunk.usage = Full
    BY DEF Delta, Done
  <1>1. /\ pos' = pos + 1 /\ stuck' = FALSE /\ UNCHANGED <<call, acc, gone, outcome>>
        /\ w' = Written(chunk)
        /\ \/ client' = Append(client, chunk.type) /\ ret' = then
           \/ ret' = "error" /\ client' = client
    BY DEF Write
  <1>2. /\ w' \in [wroteHeaders : BOOLEAN, finalUsage : [in : Nat, out : Nat]]
        /\ w'.wroteHeaders = TRUE
        /\ w'.finalUsage \in {NoUsage, Full}
        /\ chunk.type = "done" => w'.finalUsage = Full
    <2>1. w.finalUsage \in {NoUsage, Full} BY <1>t DEF Sent
    <2> DEFINE u == IF chunk.type = "done" THEN chunk.usage ELSE w.finalUsage
    <2>2. /\ u \in {NoUsage, Full} /\ u \in [in : Nat, out : Nat]
          /\ chunk.type = "done" => u = Full
      BY <1>c, <1>f, <2>1
    <2>3. w' = [wroteHeaders |-> TRUE, finalUsage |-> u] BY <1>1 DEF Written
    <2> HIDE DEF u
    <2> QED BY <2>2, <2>3
  <1>3. /\ client' \in Seq({"delta", "done"})
        /\ \A i \in DOMAIN client' : client'[i] = "done" =>
             i = Len(client') /\ chunk.type = "done" /\ ret' = then
    <2>1. client \in Seq({"delta", "done"}) /\ \A i \in DOMAIN client : client[i] # "done"
      BY <1>t, <1>e DEF TypeOK, Ended
    <2>2. CASE client' = client BY <2>1, <2>2
    <2>3. CASE client' = Append(client, chunk.type) /\ ret' = then
      <3> DEFINE ty == chunk.type
      <3> HIDE DEF ty
      <3>1. ty \in {"delta", "done"} /\ client' = Append(client, ty) BY <1>c, <2>3 DEF ty
      <3>2. /\ client' \in Seq({"delta", "done"}) /\ Len(client') = Len(client) + 1
            /\ Len(client) \in Nat
            /\ client'[Len(client) + 1] = ty
            /\ \A i \in 1 .. Len(client) : client'[i] = client[i]
            /\ DOMAIN client' = 1 .. Len(client) + 1 /\ DOMAIN client = 1 .. Len(client)
        BY <2>1, <3>1
      <3>3. \A i \in 1 .. Len(client) + 1 : i \in 1 .. Len(client) \/ i = Len(client) + 1
        BY <3>2
      <3>4. \A i \in DOMAIN client' : client'[i] = "done" => i = Len(client') /\ ty = "done"
        BY <2>1, <3>2, <3>3
      <3> QED BY <2>3, <3>2, <3>4 DEF ty
    <2> QED BY <1>1, <2>2, <2>3
  <1>4. ret' \in {"none", "nil", "error"} /\ (ret' = "none" => then = "none") BY <1>1
  <1>5. TypeOK' BY <1>t, <1>e, <1>1, <1>2, <1>3, <1>4 DEF TypeOK
  <1>6. Full' = Full BY <1>1 DEF Full
  <1>7. Ended' => chunk.type = "done" /\ ret' = then BY <1>3 DEF Ended
  <1>8. Sent'
    <2>1. call'.events[pos' - 1] = Event BY <1>1, <1>e DEF Event
    <2> QED BY <1>1, <1>2, <1>3, <1>e, <1>6, <1>7, <2>1 DEF Sent
  <1>9. Counted'
    <2> SUFFICES ASSUME call.fam = "anthropic", ret' = "none" PROVE Counted' BY <1>1 DEF Counted
    <2>1. Event.type \notin {"message_start", "message_delta", "error"} BY <1>4
    <2>2. pos > 1
      <3>1. pos # 1 BY <1>e, <2>1
      <3> QED BY <1>e, <3>1
    <2>3. call'.events[pos' - 1] = Event BY <1>1, <1>e DEF Event
    <2> QED BY <1>t, <1>1, <2>1, <2>2, <2>3 DEF Counted
  <1>10. Concluded' BY <1>1, <1>e DEF Concluded, NoOutcome
  <1> QED BY <1>5, <1>8, <1>9, <1>10 DEF SInv

(* An event is skipped, or counted. *)
LEMMA CountKeeps ==
  ASSUME SInv, ret = "none", pos \in DOMAIN call.events, Event.type # "[DONE]",
         pos' = pos + 1, UNCHANGED <<call, w, client, stuck, gone, ret, outcome>>,
         acc' \in [in : 0 .. MaxTokens, creation : 0 .. MaxTokens, cached : 0 .. MaxTokens,
                   out : Nat],
         call.fam = "anthropic" =>
           /\ acc'.in = call.bill.in /\ acc'.creation = call.bill.creation
           /\ acc'.cached = call.bill.cached
           /\ Event.type = "message_delta" => acc'.out = Event.bill.out
  PROVE  SInv'
  <1>t. TypeOK /\ Counted /\ Sent /\ Concluded BY DEF SInv
  <1>e. /\ pos + 1 \in 0 .. Len(call.events) + 1 /\ pos + 1 > 1 /\ (pos + 1) - 1 = pos
        /\ ~Ended
    BY EventFacts
  <1>1. TypeOK' BY <1>t, <1>e DEF TypeOK
  <1>2. Full' = Full /\ Ended' = Ended BY DEF Full, Ended
  <1>3. Sent' BY <1>t, <1>e, <1>2 DEF Sent
  <1>4. call'.events[pos' - 1] = Event BY <1>e DEF Event
  <1>5. Counted' BY <1>4 DEF Counted
  <1>6. Concluded' BY <1>t DEF Concluded, NoOutcome
  <1> QED BY <1>1, <1>3, <1>5, <1>6 DEF SInv

(* Stream returns. *)
LEMMA ReturnKeeps ==
  ASSUME SInv, ret = "none", NEW result \in {"nil", "error"}, Return(result)
  PROVE  SInv'
  <1>t. TypeOK /\ Counted /\ Sent /\ Concluded BY DEF SInv
  <1>1. ret' = result /\ UNCHANGED <<call, pos, acc, w, client, stuck, gone, outcome>> BY DEF Return
  <1>2. TypeOK' BY <1>t, <1>1 DEF TypeOK
  <1>3. Counted' BY <1>1 DEF Counted
  <1>4. Full' = Full /\ Ended' = Ended BY <1>1 DEF Full, Ended
  <1>5. Sent' BY <1>t, <1>1, <1>4 DEF Sent
  <1>6. Concluded' BY <1>t, <1>1 DEF Concluded, NoOutcome
  <1> QED BY <1>2, <1>3, <1>5, <1>6 DEF SInv

(* The loops of the three adapters. *)
LEMMA ReadKeeps ==
  ASSUME SInv, Read
  PROVE  SInv'
  <1>t. TypeOK /\ Counted BY DEF SInv
  <1>0. ret = "none" /\ pos \in DOMAIN call.events
    BY DEF Read, ReadOpenAI, ReadAnthropic, ReadMock, Streaming
  <1>c. /\ call.bill \in Bill /\ Protocol(call.fam, call.bill, call.events) BY <1>t, SameCall
  <1>e. /\ pos \in Nat \ {0} /\ Event.bill \in Counts
        /\ call.fam = "anthropic" /\ pos = 1 => Event.type \in {"message_start", "error"}
    BY <1>0, EventFacts
  <1>d. Delta.type = "delta" /\ Done(Full).type = "done" BY DEF Delta, Done
  <1>a. acc \in [in : 0 .. MaxTokens, creation : 0 .. MaxTokens, cached : 0 .. MaxTokens, out : Nat]
    BY <1>t DEF TypeOK
  <1>b. /\ call.fam = "anthropic" /\ Event.type \notin {"message_start", "error"} =>
             /\ acc.in = call.bill.in /\ acc.creation = call.bill.creation
             /\ acc.cached = call.bill.cached
    <2>1. pos # 1 => pos > 1 BY <1>e
    <2> QED BY <1>t, <1>0, <1>e, <2>1 DEF Counted
  <1>1. ASSUME Event.type = "noise", Skip PROVE SInv'
    BY <1>0, <1>a, <1>b, <1>1, CountKeeps DEF Skip
  <1>2. ASSUME Event.type = "delta", Write(Delta, "none") PROVE SInv'
    <2>1. Event.type \notin {"message_start", "message_delta", "error", "[DONE]"} BY <1>2
    <2> QED BY <1>0, <1>2, <1>d, <2>1, WriteKeeps
  <1>3. ASSUME call.fam \in {"openai", "mock"}, Event.type = "usage"
        PROVE  UsageOf(Event.bill.in, Event.bill.out) = Full
    BY <1>0, <1>3, <1>c DEF Protocol, Event, Full, CompleteUsage
  <1>4. CASE ReadOpenAI
    <2>1. call.fam = "openai" BY <1>4 DEF ReadOpenAI, Streaming
    <2>2. ASSUME Event.type = "usage", Write(Done(UsageOf(Event.bill.in, Event.bill.out)), "none")
          PROVE  SInv'
      <3>1. Write(Done(Full), "none") BY <1>3, <2>1, <2>2
      <3> QED BY <1>0, <1>d, <2>1, <2>2, <3>1, WriteKeeps
    <2>3. ASSUME Return("nil") PROVE SInv' BY <1>0, <2>3, ReturnKeeps
    <2> QED BY <1>1, <1>2, <1>4, <2>2, <2>3 DEF ReadOpenAI
  <1>5. CASE ReadMock
    <2>1. call.fam = "mock" BY <1>5 DEF ReadMock, Streaming
    <2>2. ASSUME Event.type = "usage", Write(Done(UsageOf(Event.bill.in, Event.bill.out)), "nil")
          PROVE  SInv'
      <3>1. Write(Done(Full), "nil") BY <1>3, <2>1, <2>2
      <3> QED BY <1>0, <1>d, <2>1, <2>2, <3>1, WriteKeeps
    <2> QED BY <1>2, <1>5, <2>2 DEF ReadMock
  <1>6. CASE ReadAnthropic
    <2>1. call.fam = "anthropic" BY <1>6 DEF ReadAnthropic, Streaming
    <2>2. ASSUME Event.type = "message_start", Count([Event.bill EXCEPT !.out = acc.out])
          PROVE  SInv'
      <3> DEFINE b == Event.bill
                 M == 0 .. MaxTokens
      <3>1. /\ b.in = call.bill.in /\ b.creation = call.bill.creation /\ b.cached = call.bill.cached
        BY <1>0, <1>c, <2>1, <2>2 DEF Protocol, Event
      <3>2. b \in [in : M, creation : M, cached : M, out : M]
            /\ acc \in [in : M, creation : M, cached : M, out : Nat]
        BY <1>a, <1>e DEF Counts
      <3>3. acc' = [b EXCEPT !.out = acc.out] /\ pos' = pos + 1
            /\ UNCHANGED <<call, w, client, stuck, gone, ret, outcome>>
        BY <2>2 DEF Count
      <3> HIDE DEF b, M
      <3>4. /\ acc' \in [in : M, creation : M, cached : M, out : Nat]
            /\ acc'.in = b.in /\ acc'.creation = b.creation /\ acc'.cached = b.cached
        BY <3>2, <3>3
      <3>5. Event.type # "[DONE]" /\ Event.type # "message_delta" BY <2>2
      <3>6. acc' \in [in : 0 .. MaxTokens, creation : 0 .. MaxTokens, cached : 0 .. MaxTokens,
                      out : Nat]
        BY <3>4 DEF M
      <3> QED BY <1>0, <3>1, <3>3, <3>4, <3>5, <3>6, CountKeeps
    <2>3. ASSUME Event.type = "message_delta", MessageDelta PROVE SInv'
      <3> DEFINE b == Event.bill
                 M == 0 .. MaxTokens
      <3>2. b \in [in : M, creation : M, cached : M, out : M]
            /\ acc \in [in : M, creation : M, cached : M, out : Nat]
        BY <1>a, <1>e DEF Counts
      <3>3. acc' = [acc EXCEPT !.out = b.out] /\ pos' = pos + 1
            /\ UNCHANGED <<call, w, client, stuck, gone, ret, outcome>>
        BY <2>3 DEF MessageDelta, Count
      <3>m. M \subseteq Nat BY StreamAssumption
      <3> HIDE DEF b, M
      <3>4. /\ acc' \in [in : M, creation : M, cached : M, out : Nat]
            /\ acc'.in = acc.in /\ acc'.creation = acc.creation /\ acc'.cached = acc.cached
            /\ acc'.out = b.out
        BY <3>2, <3>3, <3>m
      <3>5. Event.type \notin {"[DONE]", "message_start", "error"} BY <2>3
      <3>6. acc' \in [in : 0 .. MaxTokens, creation : 0 .. MaxTokens, cached : 0 .. MaxTokens,
                      out : Nat]
        BY <3>4 DEF M
      <3> QED BY <1>0, <1>b, <2>1, <3>3, <3>4, <3>5, <3>6, CountKeeps DEF b
    <2>4. ASSUME Event.type = "message_stop",
                 Write(Done(UsageOf(acc.in + acc.creation + acc.cached, acc.out)), "nil")
          PROVE  SInv'
      <3>1. /\ pos > 1 /\ call.events[pos - 1].type = "message_delta"
            /\ call.events[pos - 1].bill.out = call.bill.out
        BY <1>0, <1>c, <2>1, <2>4 DEF Protocol, Event
      <3>2. /\ acc.in = call.bill.in /\ acc.creation = call.bill.creation
            /\ acc.cached = call.bill.cached /\ acc.out = call.bill.out
        BY <1>t, <1>0, <2>1, <3>1 DEF Counted
      <3>3. UsageOf(acc.in + acc.creation + acc.cached, acc.out) = Full
        BY <2>1, <3>2 DEF Full, CompleteUsage
      <3>4. Write(Done(Full), "nil") BY <2>4, <3>3
      <3> QED BY <1>0, <1>d, <2>1, <2>4, <3>4, WriteKeeps
    <2>5. ASSUME Return("error") PROVE SInv' BY <1>0, <2>5, ReturnKeeps
    <2> QED BY <1>1, <1>2, <1>6, <2>2, <2>3, <2>4, <2>5 DEF ReadAnthropic
  <1> QED BY <1>4, <1>5, <1>6 DEF Read

(* streamDispatch settles by what the writer has kept. *)
LEMMA DispatchKeeps ==
  ASSUME SInv, Dispatch
  PROVE  SInv'
  <1>t. TypeOK /\ Counted /\ Sent /\ Concluded BY DEF SInv
  <1> DEFINE U == [in : Nat, out : Nat]
             Made(status, u, settled) ==
               [status |-> status, usage |-> u, cost |-> CostUSD(u.in, 0, u.out),
                settled |-> settled]
  <1>1. /\ ret # "none" /\ UNCHANGED <<call, pos, acc, w, client, stuck, gone, ret>>
        /\ \E settled \in BOOLEAN :
             /\ settled \/ gone
             /\ \/ ~w.wroteHeaders /\ outcome' = Made("error", NoUsage, settled)
                \/ outcome' = Made("ok", w.finalUsage, settled)
    BY DEF Dispatch, Conclude
  <1>2. w.finalUsage \in U /\ NoUsage \in U BY <1>t, SameCall DEF TypeOK
  <1>3. ASSUME NEW status \in {"ok", "error"}, NEW u \in U, NEW settled \in BOOLEAN
        PROVE  LET o == Made(status, u, settled)
               IN  /\ o \in [status : {"none", "ok", "error"}, usage : U, cost : Nat,
                             settled : BOOLEAN]
                   /\ o.status = status /\ o.usage = u /\ o.settled = settled
                   /\ o.cost = CostUSD(o.usage.in, 0, o.usage.out)
    <2>1. u.in \in Nat /\ u.out \in Nat /\ 0 \in Nat /\ 0 <= u.in OBVIOUS
    <2>2. CostUSD(u.in, 0, u.out) \in Nat BY <2>1, CostFacts
    <2> QED BY <2>2
  <1> HIDE DEF U, Made
  <1>4. PICK settled \in BOOLEAN :
             /\ settled \/ gone
             /\ \/ ~w.wroteHeaders /\ outcome' = Made("error", NoUsage, settled)
                \/ outcome' = Made("ok", w.finalUsage, settled)
    BY <1>1
  <1>5. /\ outcome' \in [status : {"none", "ok", "error"}, usage : U, cost : Nat,
                         settled : BOOLEAN]
        /\ outcome'.cost = CostUSD(outcome'.usage.in, 0, outcome'.usage.out)
        /\ outcome'.settled \/ gone
        /\ \/ outcome'.status = "error" /\ outcome'.usage = NoUsage /\ ~w.wroteHeaders
           \/ outcome'.status = "ok" /\ outcome'.usage = w.finalUsage
    BY <1>2, <1>3, <1>4
  <1>6. TypeOK' BY <1>t, <1>1, <1>5 DEF TypeOK, U
  <1>7. Full' = Full /\ Ended' = Ended BY <1>1 DEF Full, Ended
  <1>8. Sent' /\ Counted' BY <1>t, <1>1, <1>7 DEF Sent, Counted
  <1>9. ~w.wroteHeaders => client = <<>> BY <1>t DEF Sent
  <1>10. Concluded' BY <1>1, <1>5, <1>9 DEF Concluded
  <1> QED BY <1>6, <1>8, <1>10 DEF SInv

(* A call that has just been made. *)
LEMMA InitSInv ==
  ASSUME Init
  PROVE  SInv
  <1>1. /\ call \in Call /\ pos = 0 /\ acc = NoBill /\ client = <<>>
        /\ stuck = FALSE /\ gone = FALSE
        /\ w = [wroteHeaders |-> FALSE, finalUsage |-> NoUsage] /\ ret = "none"
        /\ outcome = NoOutcome
    BY DEF Init
  <1>2. NoUsage \in [in : Nat, out : Nat] BY DEF NoUsage, UsageOf
  <1>3. Len(call.events) \in Nat
    <2>1. Protocol(call.fam, call.bill, call.events) BY <1>1, CallFacts
    <2> QED BY <2>1 DEF Protocol
  <1>4. pos \in 0 .. Len(call.events) + 1 BY <1>1, <1>3
  <1>5. acc \in [in : 0 .. MaxTokens, creation : 0 .. MaxTokens, cached : 0 .. MaxTokens, out : Nat]
    <2>1. 0 \in 0 .. MaxTokens BY StreamAssumption
    <2> QED BY <1>1, <2>1 DEF NoBill
  <1>6. /\ w \in [wroteHeaders : BOOLEAN, finalUsage : [in : Nat, out : Nat]]
        /\ w.finalUsage = NoUsage
    BY <1>1, <1>2
  <1>7. /\ outcome \in [status : {"none", "ok", "error"}, usage : [in : Nat, out : Nat],
                        cost : Nat, settled : BOOLEAN]
        /\ outcome.status = "none"
    BY <1>1, <1>2 DEF NoOutcome
  <1>c. /\ client \in Seq({"delta", "done"}) /\ stuck \in BOOLEAN /\ gone \in BOOLEAN
        /\ ret \in {"none", "nil", "error"}
    <2>1. <<>> \in Seq({"delta", "done"}) OBVIOUS
    <2>2. client = <<>> /\ stuck = FALSE /\ gone = FALSE /\ ret = "none" BY <1>1
    <2> QED BY <2>1, <2>2
  <1>8. TypeOK
    <2>1. call \in Call BY <1>1
    <2> QED BY <1>4, <1>5, <1>6, <1>7, <1>c, <2>1 DEF TypeOK
  <1>9. ~Ended BY <1>1 DEF Ended
  <1>10. Counted /\ Sent BY <1>1, <1>6, <1>9 DEF Counted, Sent
  <1>11. Concluded BY <1>1, <1>7 DEF Concluded
  <1> QED BY <1>8, <1>10, <1>11 DEF SInv

(* Every step of the stream, the client and streamDispatch. *)
LEMMA NextSInv ==
  ASSUME SInv, [Next]_vars
  PROVE  SInv'
  <1>t. TypeOK /\ Counted /\ Sent /\ Concluded BY DEF SInv
  <1>1. CASE Open
    <2>1. /\ pos = 0 /\ ret = "none" /\ pos' = 1
          /\ UNCHANGED <<call, acc, w, client, stuck, gone, ret, outcome>>
      BY <1>1 DEF Open, Skip
    <2>2. Len(call.events) \in Nat BY <1>t, SameCall
    <2>3. pos' \in 0 .. Len(call.events) + 1 BY <2>1, <2>2
    <2>4. TypeOK' BY <1>t, <2>1, <2>3 DEF TypeOK
    <2>5. ~Ended /\ Full' = Full /\ Ended' = Ended BY <1>t, <2>1 DEF Sent, Full, Ended
    <2>6. Counted' /\ Sent' BY <1>t, <2>1, <2>5 DEF Counted, Sent
    <2>7. Concluded' BY <1>t, <2>1 DEF Concluded, NoOutcome
    <2> QED BY <2>4, <2>6, <2>7 DEF SInv
  <1>2. CASE Refused \/ Ends \/ Breaks
    BY <1>2, ReturnKeeps DEF Refused, Ends, Breaks
  <1>3. CASE Read BY <1>3, ReadKeeps
  <1>4. CASE Leave
    <2>1. gone' = TRUE /\ UNCHANGED <<call, pos, acc, w, client, stuck, ret, outcome>>
      BY <1>4 DEF Leave
    <2>2. TypeOK' BY <1>t, <2>1 DEF TypeOK
    <2>3. Counted' /\ Sent' /\ Concluded'
      BY <1>t, <2>1 DEF Counted, Sent, Concluded, Full, Ended, NoOutcome
    <2> QED BY <2>2, <2>3 DEF SInv
  <1>5. CASE Dispatch BY <1>5, DispatchKeeps
  <1>7. CASE Block
    <2>1. stuck' = TRUE /\ UNCHANGED <<call, pos, acc, w, client, gone, ret, outcome>>
      BY <1>7 DEF Block
    <2>2. TypeOK' BY <1>t, <2>1 DEF TypeOK
    <2>3. Counted' /\ Sent' /\ Concluded'
      BY <1>t, <2>1 DEF Counted, Sent, Concluded, Full, Ended, NoOutcome
    <2> QED BY <2>2, <2>3 DEF SInv
  <1>6. CASE UNCHANGED vars
    <2>1. UNCHANGED <<call, pos, acc, w, client, stuck, gone, ret, outcome>> BY <1>6 DEF vars
    <2>2. TypeOK' BY <1>t, <2>1 DEF TypeOK
    <2>3. Counted' /\ Sent' /\ Concluded'
      BY <1>t, <2>1 DEF Counted, Sent, Concluded, Full, Ended, NoOutcome
    <2> QED BY <2>2, <2>3 DEF SInv
  <1> QED BY <1>1, <1>2, <1>3, <1>4, <1>5, <1>6, <1>7 DEF Next, Stream

-----------------------------------------------------------------------------
(* The invariant holds of every behaviour of a streamed call. *)
THEOREM StreamInductive == Spec => []SInv
  <1>1. Init => SInv BY InitSInv
  <1>2. SInv /\ [Next]_vars => SInv' BY NextSInv
  <1> QED BY <1>1, <1>2, PTL DEF Spec

(* The state of a streamed call keeps to its types; in particular its      *)
(* outcome is always one that Gateway knows (stream.go:84-130).            *)
THEOREM StreamTypeCorrect == Spec => []TypeOK
  <1>1. SInv => TypeOK BY DEF SInv
  <1> QED BY <1>1, StreamInductive, PTL

(* A streamed call is settled for what Complete would have reported, save  *)
(* the discount on cached input, or for nothing; whoever has seen its end  *)
(* is charged; and only a client that has left makes the settlement fail   *)
(* (openai.go, anthropic.go, mock.go: Stream; stream.go:84-131).           *)
THEOREM StreamCharged == Spec => []ChargedWhole
  <1>1. ASSUME SInv PROVE ChargedWhole
    <2> DEFINE discount == call.bill.cached * (InPrice - CachedPrice)
               dollars == CompleteCost(call.fam, call.bill)
    <2> SUFFICES ASSUME outcome.status # "none"
                 PROVE  /\ \/ outcome.usage = NoUsage /\ outcome.cost = 0
                           \/ outcome.usage = Full /\ outcome.cost = dollars + discount
                        /\ Ended => outcome.usage = Full
                        /\ outcome.settled \/ gone
      BY DEF ChargedWhole, Full, Ended
    <2>1. TypeOK /\ Sent /\ Concluded BY <1>1 DEF SInv
    <2>2. outcome.status \in {"ok", "error"} BY <2>1 DEF TypeOK
    <2>3. outcome.usage \in {NoUsage, Full} /\ (Ended => outcome.usage = Full)
      <3>1. CASE outcome.status = "ok" BY <2>1, <3>1 DEF Sent, Concluded
      <3>2. CASE outcome.status = "error" BY <2>1, <3>2 DEF Concluded, Ended
      <3> QED BY <2>2, <3>1, <3>2
    <2>4. /\ outcome.cost = CostUSD(outcome.usage.in, 0, outcome.usage.out)
          /\ outcome.settled \/ gone
      BY <2>1 DEF Concluded
    <2>5. CASE outcome.usage = NoUsage
      <3>1. outcome.cost = CostUSD(0, 0, 0) BY <2>4, <2>5 DEF NoUsage, UsageOf
      <3>2. CostUSD(0, 0, 0) = 0 BY StreamAssumption DEF CostUSD
      <3> QED BY <2>3, <2>4, <2>5, <3>1, <3>2
    <2>6. CASE outcome.usage = Full
      <3>1. /\ Full.in \in Nat /\ Full.out \in Nat /\ call.bill.cached \in Nat
            /\ call.bill.cached <= Full.in
        BY <2>1, SameCall
      <3>2. dollars = CostUSD(Full.in, call.bill.cached, Full.out) BY DEF CompleteCost, Full
      <3>3. CostUSD(Full.in, 0, Full.out) = CostUSD(Full.in, call.bill.cached, Full.out) + discount
        <4> DEFINE i == Full.in
                   c == call.bill.cached
                   o == Full.out
        <4>1. i \in Nat /\ c \in Nat /\ o \in Nat /\ c <= i BY <3>1
        <4> HIDE DEF i, c, o
        <4>2. CostUSD(i, 0, o) = CostUSD(i, c, o) + c * (InPrice - CachedPrice)
          BY <4>1, CostFacts
        <4> QED BY <4>2 DEF i, c, o
      <3> HIDE DEF discount, dollars
      <3> QED BY <2>3, <2>4, <2>6, <3>2, <3>3
    <2> QED BY <2>3, <2>5, <2>6
  <1> QED BY <1>1, StreamInductive, PTL

(* The client gets one response: an error only if nothing was sent before, *)
(* and a stream whose end comes once and last (stream.go:22-82).           *)
THEOREM StreamOneResponse == Spec => []OneResponse
  <1>1. SInv => OneResponse BY DEF SInv, Sent, Concluded, OneResponse
  <1> QED BY <1>1, StreamInductive, PTL

=============================================================================
