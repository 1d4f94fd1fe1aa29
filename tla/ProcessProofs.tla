---------------------------- MODULE ProcessProofs ----------------------------
(***************************************************************************)
(* What is proved of the gateway process for every size of the channels    *)
(* and of a batch, every number of requests and every set of faults: the   *)
(* spend writer and the request log lose nothing they do not count, repeat *)
(* nothing and reorder nothing, and leave nothing behind at a signal.      *)
(***************************************************************************)
EXTENDS GatewayProcess, TLAPS

(* Sequences of numbers that increase, and what happens to them when they  *)
(* are joined.                                                             *)
Sorted(s) == \A i, j \in DOMAIN s : i < j => s[i] < s[j]

(* A concatenation consists of the elements of its two parts. *)
LEMMA ConcatElems ==
  ASSUME NEW s \in Seq(Nat), NEW t \in Seq(Nat)
  PROVE  s \o t \in Seq(Nat) /\ Elems(s \o t) = Elems(s) \cup Elems(t)
  <1> DEFINE u == s \o t
  <1>1. /\ u \in Seq(Nat) /\ Len(u) = Len(s) + Len(t) /\ Len(s) \in Nat /\ Len(t) \in Nat
        /\ DOMAIN u = 1 .. Len(s) + Len(t) /\ DOMAIN s = 1 .. Len(s) /\ DOMAIN t = 1 .. Len(t)
    OBVIOUS
  <1>2. \A i \in 1 .. Len(s) + Len(t) : u[i] = IF i <= Len(s) THEN s[i] ELSE t[i - Len(s)]
    OBVIOUS
  <1> HIDE DEF u
  <1>3. Elems(u) \subseteq Elems(s) \cup Elems(t)
    <2> SUFFICES ASSUME NEW i \in DOMAIN u PROVE u[i] \in Elems(s) \cup Elems(t) BY DEF Elems
    <2>1. CASE i <= Len(s) BY <1>1, <1>2, <2>1 DEF Elems
    <2>2. CASE i > Len(s)
      <3>1. i - Len(s) \in DOMAIN t /\ u[i] = t[i - Len(s)] BY <1>1, <1>2, <2>2
      <3> QED BY <3>1 DEF Elems
    <2> QED BY <1>1, <2>1, <2>2
  <1>4. Elems(s) \subseteq Elems(u)
    <2> SUFFICES ASSUME NEW i \in DOMAIN s PROVE s[i] \in Elems(u) BY DEF Elems
    <2>1. i \in DOMAIN u /\ u[i] = s[i] BY <1>1, <1>2
    <2> QED BY <2>1 DEF Elems
  <1>5. Elems(t) \subseteq Elems(u)
    <2> SUFFICES ASSUME NEW i \in DOMAIN t PROVE t[i] \in Elems(u) BY DEF Elems
    <2>1. i + Len(s) \in 1 .. Len(s) + Len(t) /\ ~(i + Len(s) <= Len(s))
          /\ (i + Len(s)) - Len(s) = i
      BY <1>1
    <2>2. i + Len(s) \in DOMAIN u /\ u[i + Len(s)] = t[i] BY <1>1, <1>2, <2>1
    <2> QED BY <2>2 DEF Elems
  <1> QED BY <1>1, <1>3, <1>4, <1>5 DEF u

(* A joint sequence increases if its parts do, and all of the first part   *)
(* is below all of the second.                                             *)
LEMMA ConcatSorted ==
  ASSUME NEW s \in Seq(Nat), NEW t \in Seq(Nat)
  PROVE  Sorted(s \o t) <=> /\ Sorted(s) /\ Sorted(t)
                            /\ \A x \in Elems(s), y \in Elems(t) : x < y
  <1> DEFINE u == s \o t
  <1>1. /\ u \in Seq(Nat) /\ Len(s) \in Nat /\ Len(t) \in Nat
        /\ DOMAIN u = 1 .. Len(s) + Len(t) /\ DOMAIN s = 1 .. Len(s) /\ DOMAIN t = 1 .. Len(t)
    OBVIOUS
  <1>2. \A i \in 1 .. Len(s) + Len(t) : u[i] = IF i <= Len(s) THEN s[i] ELSE t[i - Len(s)]
    OBVIOUS
  <1> HIDE DEF u
  <1>3. \A i \in DOMAIN s : i \in DOMAIN u /\ u[i] = s[i] BY <1>1, <1>2
  <1>4. ASSUME NEW i \in DOMAIN t
        PROVE  i + Len(s) \in DOMAIN u /\ u[i + Len(s)] = t[i]
    <2>1. i + Len(s) \in 1 .. Len(s) + Len(t) /\ ~(i + Len(s) <= Len(s))
          /\ (i + Len(s)) - Len(s) = i
      BY <1>1
    <2> QED BY <1>1, <1>2, <2>1
  <1>5. ASSUME Sorted(u)
        PROVE  Sorted(s) /\ Sorted(t) /\ \A x \in Elems(s), y \in Elems(t) : x < y
    <2>1. Sorted(s) BY <1>3, <1>5 DEF Sorted
    <2>2. Sorted(t)
      <3> SUFFICES ASSUME NEW i \in DOMAIN t, NEW j \in DOMAIN t, i < j PROVE t[i] < t[j]
        BY DEF Sorted
      <3>1. i + Len(s) < j + Len(s) BY <1>1
      <3>2. i + Len(s) \in DOMAIN u /\ j + Len(s) \in DOMAIN u BY <1>4
      <3>3. u[i + Len(s)] < u[j + Len(s)] BY <1>5, <3>1, <3>2 DEF Sorted
      <3> QED BY <1>4, <3>3
    <2>3. ASSUME NEW i \in DOMAIN s, NEW j \in DOMAIN t PROVE s[i] < t[j]
      <3>1. i < j + Len(s) BY <1>1
      <3>2. u[i] < u[j + Len(s)] BY <1>3, <1>4, <1>5, <3>1 DEF Sorted
      <3> QED BY <1>3, <1>4, <3>2
    <2> QED BY <2>1, <2>2, <2>3 DEF Elems
  <1>6. ASSUME Sorted(s), Sorted(t), \A x \in Elems(s), y \in Elems(t) : x < y
        PROVE  Sorted(u)
    <2> SUFFICES ASSUME NEW i \in DOMAIN u, NEW j \in DOMAIN u, i < j PROVE u[i] < u[j]
      BY DEF Sorted
    <2>1. CASE j <= Len(s)
      <3>1. i \in DOMAIN s /\ j \in DOMAIN s /\ u[i] = s[i] /\ u[j] = s[j] BY <1>1, <1>2, <2>1
      <3> QED BY <1>6, <3>1 DEF Sorted
    <2>2. CASE i > Len(s)
      <3>1. /\ i - Len(s) \in DOMAIN t /\ j - Len(s) \in DOMAIN t
            /\ i - Len(s) < j - Len(s)
            /\ u[i] = t[i - Len(s)] /\ u[j] = t[j - Len(s)]
        <4>1. /\ i \in 1 .. Len(s) + Len(t) /\ j \in 1 .. Len(s) + Len(t)
              /\ ~(i <= Len(s)) /\ ~(j <= Len(s))
          BY <1>1, <2>2
        <4>2. /\ i - Len(s) \in 1 .. Len(t) /\ j - Len(s) \in 1 .. Len(t)
              /\ i - Len(s) < j - Len(s)
          BY <1>1, <4>1
        <4> QED BY <1>1, <1>2, <4>1, <4>2
      <3>2. t[i - Len(s)] < t[j - Len(s)] BY <1>6, <3>1 DEF Sorted
      <3> QED BY <3>1, <3>2
    <2>3. CASE i <= Len(s) /\ j > Len(s)
      <3>1. /\ i \in DOMAIN s /\ j - Len(s) \in DOMAIN t
            /\ u[i] = s[i] /\ u[j] = t[j - Len(s)]
        BY <1>1, <1>2, <2>3
      <3>2. u[i] \in Elems(s) /\ u[j] \in Elems(t) BY <3>1 DEF Elems
      <3> QED BY <1>6, <3>2
    <2> QED BY <1>1, <2>1, <2>2, <2>3
  <1> QED BY <1>5, <1>6 DEF u

(* Sending to a channel, and receiving from it. *)
LEMMA SendFacts ==
  ASSUME NEW s \in Seq(Nat), NEW n \in Nat
  PROVE  /\ Append(s, n) = s \o <<n>>
         /\ Elems(Append(s, n)) = Elems(s) \cup {n}
         /\ (\A x \in Elems(s) : x < n) => (Sorted(Append(s, n)) <=> Sorted(s))
  <1>1. Append(s, n) = s \o <<n>> OBVIOUS
  <1>2. Elems(<<n>>) = {n} BY DEF Elems
  <1>3. Sorted(<<n>>) BY DEF Sorted
  <1>4. <<n>> \in Seq(Nat) OBVIOUS
  <1>5. Elems(s \o <<n>>) = Elems(s) \cup Elems(<<n>>) BY <1>4, ConcatElems
  <1>6. Sorted(s \o <<n>>) <=> /\ Sorted(s) /\ Sorted(<<n>>)
                               /\ \A x \in Elems(s), y \in Elems(<<n>>) : x < y
    BY <1>4, ConcatSorted
  <1> QED BY <1>1, <1>2, <1>3, <1>5, <1>6

(* Moving the head of a channel to the end of what was taken from it       *)
(* before changes neither their concatenation nor their elements.          *)
LEMMA ReceiveFacts ==
  ASSUME NEW s \in Seq(Nat), NEW c \in Seq(Nat), c # <<>>
  PROVE  /\ Head(c) \in Nat /\ Tail(c) \in Seq(Nat)
         /\ s \o c = Append(s, Head(c)) \o Tail(c)
         /\ Elems(c) = {Head(c)} \cup Elems(Tail(c))
  <1>1. Head(c) \in Nat /\ Tail(c) \in Seq(Nat) OBVIOUS
  <1>2. c = <<Head(c)>> \o Tail(c) OBVIOUS
  <1>3. Elems(<<Head(c)>>) = {Head(c)} BY DEF Elems
  <1>4. Elems(c) = {Head(c)} \cup Elems(Tail(c))
    <2>1. <<Head(c)>> \in Seq(Nat) BY <1>1
    <2>2. Elems(<<Head(c)>> \o Tail(c)) = Elems(<<Head(c)>>) \cup Elems(Tail(c))
      BY <1>1, <2>1, ConcatElems
    <2> QED BY <1>2, <1>3, <2>2
  <1>5. s \o c = Append(s, Head(c)) \o Tail(c) OBVIOUS
  <1> QED BY <1>1, <1>4, <1>5

(* Appending to the second part is appending to the whole. *)
LEMMA ConcatAssoc ==
  ASSUME NEW s \in Seq(Nat), NEW t \in Seq(Nat), NEW n \in Nat
  PROVE  /\ s \o Append(t, n) = Append(s \o t, n)
         /\ s \o <<>> = s
  OBVIOUS

-----------------------------------------------------------------------------
(* The spend writer by itself. *)
Flow == WriterTypeOK /\ alive \in BOOLEAN /\ InOrder /\ Conserved

(* The rows, the batch and the channel of a running process: they are in   *)
(* order, so that no event is in two of them.                              *)
LEMMA FlowParts ==
  ASSUME Flow
  PROVE  /\ db \in Seq(Nat) /\ batch \in Seq(Nat) /\ ch \in Seq(Nat) /\ enqueued \in Nat
         /\ db \o batch \in Seq(Nat)
         /\ alive => /\ Line = db \o batch \o ch
                     /\ Sorted(db \o batch) /\ Sorted(db \o ch)
                     /\ Elems(Line) = Elems(db) \cup Elems(batch) \cup Elems(ch)
                     /\ Elems(db \o batch) = Elems(db) \cup Elems(batch)
                     /\ Elems(db \o ch) = Elems(db) \cup Elems(ch)
                     /\ Elems(db) \cap Elems(batch) = {}
                     /\ Elems(db) \cap Elems(ch) = {}
                     /\ Elems(batch) \cap Elems(ch) = {}
         /\ Sorted(db)
  <1>1. /\ db \in Seq(Event) /\ batch \in Seq(Event) /\ ch \in Seq(Event)
        /\ enqueued \in 0 .. MaxEvents
    BY DEF Flow, WriterTypeOK
  <1>2. Event \subseteq Nat BY WriterAssumption DEF Event
  <1>3. db \in Seq(Nat) /\ batch \in Seq(Nat) /\ ch \in Seq(Nat)
    <2>1. ASSUME NEW s \in Seq(Event) PROVE s \in Seq(Nat)
      <3>1. \A i \in 1 .. Len(s) : s[i] \in Nat
        <4>1. \A i \in 1 .. Len(s) : s[i] \in Event OBVIOUS
        <4> QED BY <1>2, <4>1
      <3>2. Len(s) \in Nat /\ s = [i \in 1 .. Len(s) |-> s[i]] OBVIOUS
      <3>3. s \in [1 .. Len(s) -> Nat] BY <3>1, <3>2
      <3> QED BY <3>2, <3>3
    <2> QED BY <1>1, <2>1
  <1>4. db \o batch \in Seq(Nat) /\ Elems(db \o batch) = Elems(db) \cup Elems(batch)
    BY <1>3, ConcatElems
  <1>e. \A s \in Seq(Nat) : \A x \in Elems(s) : x \in Nat BY DEF Elems
  <1>5. CASE alive
    <2>1. Line = db \o batch \o ch BY <1>5 DEF Line
    <2>2. Sorted(Line) BY DEF Flow, InOrder, Sorted
    <2>3. Elems(Line) = Elems(db \o batch) \cup Elems(ch) BY <1>3, <1>4, <2>1, ConcatElems
    <2>4. /\ Sorted(db \o batch) /\ Sorted(ch)
          /\ \A x \in Elems(db \o batch), y \in Elems(ch) : x < y
      BY <1>3, <1>4, <2>1, <2>2, ConcatSorted
    <2>5. Sorted(db) /\ Sorted(batch) /\ \A x \in Elems(db), y \in Elems(batch) : x < y
      BY <1>3, <2>4, ConcatSorted
    <2>6. Sorted(db \o ch) BY <1>3, <1>4, <2>4, <2>5, ConcatSorted
    <2>7. Elems(db \o ch) = Elems(db) \cup Elems(ch) BY <1>3, ConcatElems
    <2>8. \A n \in Nat : ~(n < n) OBVIOUS
    <2>9. /\ Elems(db) \cap Elems(batch) = {} /\ Elems(db) \cap Elems(ch) = {}
          /\ Elems(batch) \cap Elems(ch) = {}
      BY <1>3, <1>4, <1>e, <2>4, <2>5, <2>8
    <2> QED BY <1>1, <1>3, <1>4, <1>5, <2>1, <2>3, <2>4, <2>5, <2>6, <2>7, <2>9
  <1>6. CASE ~alive
    <2>1. Line = db BY <1>6 DEF Line
    <2>2. Sorted(db) BY <2>1 DEF Flow, InOrder, Sorted
    <2> QED BY <1>1, <1>3, <1>4, <1>6, <2>2
  <1> QED BY <1>5, <1>6

(* An event moves from the channel to the batch. *)
LEMMA MoveKeepsFlow ==
  ASSUME Flow, alive, alive' = alive, ch # <<>>, ch' = Tail(ch),
         batch' = Append(batch, Head(ch)), pc' \in {"loop", "write", "drain"},
         UNCHANGED <<enqueued, db, dropped, lost>>
  PROVE  Flow'
  <1>1. /\ db \in Seq(Nat) /\ batch \in Seq(Nat) /\ ch \in Seq(Nat)
        /\ db \o batch \in Seq(Nat) /\ Line = db \o batch \o ch
    BY FlowParts
  <1>2. Head(ch) \in Nat /\ db \o batch \o ch = Append(db \o batch, Head(ch)) \o Tail(ch)
    BY <1>1, ReceiveFacts
  <1>3. db \o Append(batch, Head(ch)) = Append(db \o batch, Head(ch))
    BY <1>1, <1>2, ConcatAssoc
  <1>4. Line' = db' \o batch' \o ch' BY DEF Line
  <1>5. db' \o batch' \o ch' = Append(db \o batch, Head(ch)) \o Tail(ch) BY <1>3
  <1>6. Line' = Line BY <1>1, <1>2, <1>4, <1>5
  <1>7. InOrder' /\ Conserved' BY <1>6 DEF Flow, InOrder, Conserved
  <1>8. WriterTypeOK'
    <2>1. ch \in Seq(Event) /\ batch \in Seq(Event) /\ Len(ch) <= Capacity
      BY DEF Flow, WriterTypeOK
    <2>2. Capacity \in Nat BY WriterAssumption
    <2>3. ch' \in Seq(Event) /\ batch' \in Seq(Event) /\ Len(ch') <= Capacity
      BY <2>1, <2>2
    <2> QED BY <2>3 DEF Flow, WriterTypeOK
  <1> QED BY <1>7, <1>8 DEF Flow

(* Every step of the handlers and of the goroutine keeps the flow. *)
LEMMA EnqueueKeepsFlow ==
  ASSUME Flow, Enqueue
  PROVE  Flow'
  <1> DEFINE n == enqueued + 1
  <1>1. /\ db \in Seq(Nat) /\ batch \in Seq(Nat) /\ ch \in Seq(Nat) /\ enqueued \in Nat
        /\ db \o batch \in Seq(Nat) /\ Line = db \o batch \o ch
    BY FlowParts DEF Enqueue
  <1>2. alive' = alive /\ alive /\ enqueued' = n /\ db' = db /\ batch' = batch
        /\ lost' = lost /\ pc' = pc
    BY DEF Enqueue
  <1>3. n \in Event /\ enqueued' \in 0 .. MaxEvents BY <1>1, <1>2, WriterAssumption DEF Enqueue, Event
  <1>4. /\ 1 .. enqueued = Elems(Line) \cup dropped \cup lost
        /\ Elems(Line) \cap (dropped \cup lost) = {} /\ dropped \cap lost = {}
    BY DEF Flow, Conserved
  <1>5. 1 .. n = (1 .. enqueued) \cup {n} /\ n \notin 1 .. enqueued /\ n \in Nat
        /\ \A x \in 1 .. enqueued : x < n
    BY <1>1
  <1>6. Line \in Seq(Nat) BY <1>1, ConcatElems
  <1>7. Sorted(Line) BY DEF Flow, InOrder, Sorted
  <1>8. ch \in Seq(Event) /\ Len(ch) <= Capacity /\ Len(ch) \in Nat /\ Capacity \in Nat
        /\ dropped \in SUBSET Event
    BY WriterAssumption DEF Flow, WriterTypeOK
  <1>9. CASE Len(ch) < Capacity
    <2>1. ch' = Append(ch, n) /\ dropped' = dropped BY <1>9 DEF Enqueue
    <2>2. Line' = db' \o batch' \o ch' BY <1>2 DEF Line
    <2>3. db \o batch \o Append(ch, n) = Append(db \o batch \o ch, n)
      BY <1>1, <1>5, ConcatAssoc
    <2> HIDE DEF n
    <2>4. Line' = Append(Line, n) BY <1>1, <1>2, <2>1, <2>2, <2>3
    <2>5. Elems(Line') = Elems(Line) \cup {n} /\ Sorted(Line')
      BY <1>4, <1>5, <1>6, <1>7, <2>4, SendFacts
    <2>6. InOrder' BY <2>5 DEF InOrder, Sorted
    <2>7. Elems(Line)' = Elems(Line') BY DEF Elems
    <2>8. Conserved' BY <1>2, <1>4, <1>5, <2>1, <2>5, <2>7 DEF Conserved
    <2>9. ch' \in Seq(Event) /\ Len(ch') <= Capacity BY <1>3, <1>8, <1>9, <2>1
    <2> QED BY <1>2, <1>3, <2>1, <2>6, <2>8, <2>9 DEF Flow, WriterTypeOK
  <1>10. CASE ~(Len(ch) < Capacity)
    <2>1. ch' = ch /\ dropped' = dropped \cup {n} BY <1>10 DEF Enqueue
    <2>2. Line' = Line BY <1>2, <2>1 DEF Line
    <2> HIDE DEF n
    <2>3. InOrder' BY <2>2 DEF InOrder, Flow
    <2>4. Conserved' BY <1>2, <1>4, <1>5, <2>1, <2>2 DEF Conserved
    <2> QED BY <1>2, <1>3, <2>1, <2>3, <2>4 DEF Flow, WriterTypeOK
  <1> QED BY <1>9, <1>10

(* Every step of the spend writer (Run, drainRemaining, writeBatch) keeps  *)
(* the events in order and accounted for.                                  *)
LEMMA WriterKeepsFlow ==
  ASSUME Flow, WriterStep
  PROVE  Flow'
  <1>a. alive /\ alive' = alive
    BY DEF WriterStep, Receive, FlushTimer, SeeStop, Drain, WriteBatch, WriteFails, Flushed
  <1>p. /\ db \in Seq(Nat) /\ batch \in Seq(Nat) /\ ch \in Seq(Nat)
        /\ db \o batch \in Seq(Nat) /\ Line = db \o batch \o ch
        /\ Sorted(db \o ch)
        /\ Elems(Line) = Elems(db) \cup Elems(batch) \cup Elems(ch)
        /\ Elems(db \o ch) = Elems(db) \cup Elems(ch)
        /\ Elems(db) \cap Elems(batch) = {}
        /\ Elems(batch) \cap Elems(ch) = {}
    BY <1>a, FlowParts
  <1>t. /\ db \in Seq(Event) /\ batch \in Seq(Event) /\ <<>> \in Seq(Event)
        /\ db \o batch \in Seq(Event) /\ lost \in SUBSET Event
    BY DEF Flow, WriterTypeOK
  <1>c. /\ 1 .. enqueued = Elems(Line) \cup dropped \cup lost
        /\ Elems(Line) \cap (dropped \cup lost) = {} /\ dropped \cap lost = {}
    BY DEF Flow, Conserved
  <1>1. CASE Receive \/ (Drain /\ ch # <<>>)
    <2>1. pc' \in {"loop", "write", "drain"} BY <1>1 DEF Receive, Drain
    <2> QED BY <1>1, <1>a, <2>1, MoveKeepsFlow DEF Receive, Drain
  <1>2. CASE FlushTimer \/ SeeStop \/ (Drain /\ ch = <<>>)
    <2>1. /\ UNCHANGED <<enqueued, ch, batch, db, dropped, lost, alive>>
          /\ pc' \in {"loop", "write", "drain", "last", "exited"}
      BY <1>2 DEF FlushTimer, SeeStop, Drain
    <2>2. Line' = Line BY <2>1 DEF Line
    <2> QED BY <2>1, <2>2 DEF Flow, WriterTypeOK, InOrder, Conserved
  <1>3. CASE (WriteBatch \/ WriteFails) /\ db' = db \o batch /\ lost' = lost
    <2>1. /\ batch' = <<>> /\ db' = db \o batch /\ ch' = ch
          /\ UNCHANGED <<enqueued, dropped, lost>> /\ pc' \in {"loop", "exited"}
      BY <1>3 DEF WriteBatch, WriteFails, Flushed
    <2>2. Line' = db' \o batch' \o ch' BY <1>a DEF Line
    <2>3. (db \o batch) \o <<>> = db \o batch BY <1>p
    <2>4. Line' = Line BY <1>p, <2>1, <2>2, <2>3
    <2>5. InOrder' /\ Conserved' BY <2>1, <2>4 DEF Flow, InOrder, Conserved
    <2>6. WriterTypeOK' BY <1>t, <2>1 DEF Flow, WriterTypeOK
    <2> QED BY <1>a, <2>5, <2>6 DEF Flow
  <1>4. CASE WriteFails /\ lost' = lost \cup Elems(batch) /\ db' = db
    <2>1. /\ batch' = <<>> /\ db' = db /\ ch' = ch /\ lost' = lost \cup Elems(batch)
          /\ UNCHANGED <<enqueued, dropped>> /\ pc' \in {"loop", "exited"}
      BY <1>4 DEF WriteFails, Flushed
    <2>2. Line' = db' \o batch' \o ch' BY <1>a DEF Line
    <2>3. db \o <<>> = db BY <1>p
    <2>4. Line' = db \o ch BY <2>1, <2>2, <2>3
    <2>5. InOrder' BY <1>p, <2>4 DEF InOrder, Sorted
    <2>6. Elems(Line)' = Elems(db \o ch) BY <2>4 DEF Elems
    <2>7. Conserved' BY <1>p, <1>c, <2>1, <2>6 DEF Conserved
    <2>8. Elems(batch) \subseteq Event BY <1>t DEF Elems
    <2>9. WriterTypeOK' BY <1>t, <2>1, <2>8 DEF Flow, WriterTypeOK
    <2> QED BY <1>a, <2>5, <2>7, <2>9 DEF Flow
  <1> QED BY <1>1, <1>2, <1>3, <1>4 DEF WriterStep, WriteBatch, WriteFails

(* So does the end of the process, with which channel and batch are gone. *)
LEMMA ExitKeepsFlow ==
  ASSUME Flow, Exit
  PROVE  Flow'
  <1>a. /\ alive /\ alive' = FALSE
        /\ UNCHANGED <<enqueued, ch, batch, dropped, pc>>
    BY DEF Exit
  <1>p. /\ db \in Seq(Nat) /\ batch \in Seq(Nat) /\ ch \in Seq(Nat)
        /\ Sorted(db) /\ Sorted(db \o batch)
        /\ Elems(Line) = Elems(db) \cup Elems(batch) \cup Elems(ch)
        /\ Elems(db \o batch) = Elems(db) \cup Elems(batch)
        /\ Elems(db) \cap Elems(batch) = {}
        /\ Elems(db) \cap Elems(ch) = {}
        /\ Elems(batch) \cap Elems(ch) = {}
    BY <1>a, FlowParts
  <1>t. /\ db \in Seq(Event) /\ db \o batch \in Seq(Event)
        /\ Elems(batch) \subseteq Event /\ Elems(ch) \subseteq Event
    <2>1. batch \in Seq(Event) /\ ch \in Seq(Event) /\ db \in Seq(Event)
      BY DEF Flow, WriterTypeOK
    <2> QED BY <2>1 DEF Elems
  <1>c. /\ 1 .. enqueued = Elems(Line) \cup dropped \cup lost
        /\ Elems(Line) \cap (dropped \cup lost) = {} /\ dropped \cap lost = {}
    BY DEF Flow, Conserved
  <1>l. Line' = db' BY <1>a DEF Line
  <1>1. CASE lost' = lost \cup Elems(ch) \cup Elems(batch) /\ db' = db
    <2>1. InOrder' BY <1>l, <1>p, <1>1 DEF InOrder, Sorted
    <2>2. Elems(Line)' = Elems(db) BY <1>l, <1>1 DEF Elems
    <2>3. Conserved' BY <1>a, <1>p, <1>c, <1>1, <2>2 DEF Conserved
    <2>4. WriterTypeOK' BY <1>a, <1>t, <1>1 DEF Flow, WriterTypeOK
    <2> QED BY <1>a, <2>1, <2>3, <2>4 DEF Flow
  <1>2. CASE db' = db \o batch /\ lost' = lost \cup Elems(ch)
    <2>1. InOrder' BY <1>l, <1>p, <1>2 DEF InOrder, Sorted
    <2>2. Elems(Line)' = Elems(db \o batch) BY <1>l, <1>2 DEF Elems
    <2>3. Conserved' BY <1>a, <1>p, <1>c, <1>2, <2>2 DEF Conserved
    <2>4. WriterTypeOK' BY <1>a, <1>t, <1>2 DEF Flow, WriterTypeOK
    <2> QED BY <1>a, <2>1, <2>3, <2>4 DEF Flow
  <1> QED BY <1>1, <1>2 DEF Exit

-----------------------------------------------------------------------------
(* The request log by itself. *)
LogFlow == L!TypeOK /\ L!Accounted

(* What the variables of the request log are. *)
LEMMA LogTypes ==
  ASSUME LogFlow
  PROVE  /\ logged \in Seq(Nat) /\ logch \in Seq(Nat) /\ lines \in Nat
         /\ logdropped \in SUBSET Nat /\ loglost \in SUBSET Nat
         /\ Len(logch) <= LogCapacity /\ Len(logch) \in Nat /\ LogCapacity \in Nat
         /\ logpc \in {"loop", "drain", "exited"}
  BY ProcessAssumption DEF LogFlow, L!TypeOK

(* The request log's accounting while the process runs, as facts about one *)
(* sequence: what is printed followed by what waits in the channel.        *)
LEMMA LogParts ==
  ASSUME LogFlow, alive
  PROVE  /\ logged \o logch \in Seq(Nat)
         /\ 1 .. lines = Elems(logged \o logch) \cup logdropped \cup loglost
         /\ Elems(logged \o logch) \cap (logdropped \cup loglost) = {}
         /\ logdropped \cap loglost = {}
         /\ Sorted(logged \o logch)
  <1>1. logged \o logch \in Seq(Nat) BY LogTypes, ConcatElems
  <1>2. L!LogLine = logged \o logch BY DEF L!LogLine
  <1> QED BY <1>1, <1>2 DEF LogFlow, L!Accounted, L!Lines, Elems, Sorted

(* The accounting of a log whose line is known. *)
LEMMA LogFromParts ==
  ASSUME NEW all, L!TypeOK', L!LogLine' = all, Sorted(all),
         1 .. lines' = Elems(all) \cup logdropped' \cup loglost',
         Elems(all) \cap (logdropped' \cup loglost') = {},
         logdropped' \cap loglost' = {}
  PROVE  LogFlow'
  BY DEF LogFlow, L!Accounted, L!Lines, Elems, Sorted

(* Log keeps every line accounted for, whether the channel takes it or is  *)
(* full.                                                                   *)
LEMMA LogKeepsFlow ==
  ASSUME LogFlow, L!Log
  PROVE  LogFlow'
  <1> DEFINE n == lines + 1
             all == logged \o logch
  <1>a. alive /\ alive' BY DEF L!Log
  <1>p. /\ logged \in Seq(Nat) /\ logch \in Seq(Nat) /\ lines \in Nat
        /\ all \in Seq(Nat) /\ Sorted(all)
        /\ 1 .. lines = Elems(all) \cup logdropped \cup loglost
        /\ Elems(all) \cap (logdropped \cup loglost) = {}
        /\ logdropped \cap loglost = {}
    BY <1>a, LogTypes, LogParts
  <1>1. lines' = n /\ logged' = logged /\ logpc' = logpc /\ loglost' = loglost BY DEF L!Log
  <1>2. 1 .. n = (1 .. lines) \cup {n} /\ n \notin 1 .. lines /\ n \in Nat
        /\ \A x \in 1 .. lines : x < n
    BY <1>p
  <1>3. L!LogLine' = logged' \o logch' BY <1>a DEF L!LogLine
  <1>4. CASE Len(logch) < LogCapacity /\ logch' = Append(logch, n) /\ logdropped' = logdropped
    <2>1. logged \o Append(logch, n) = Append(all, n) BY <1>p, <1>2, ConcatAssoc
    <2>2. Elems(Append(all, n)) = Elems(all) \cup {n} /\ Sorted(Append(all, n))
      BY <1>p, <1>2, SendFacts
    <2>3. logch' \in Seq(Nat) /\ Len(logch') <= LogCapacity BY <1>2, <1>4, LogTypes
    <2>4. L!TypeOK' BY <1>1, <1>2, <1>4, <2>3, LogTypes DEF L!TypeOK
    <2>5. L!LogLine' = Append(all, n) BY <1>1, <1>3, <1>4, <2>1
    <2> HIDE DEF n, all
    <2> QED BY <1>1, <1>p, <1>2, <1>4, <2>2, <2>4, <2>5, LogFromParts
  <1>5. CASE logdropped' = logdropped \cup {n} /\ logch' = logch
    <2>1. L!TypeOK' BY <1>1, <1>2, <1>5, LogTypes DEF L!TypeOK
    <2>2. L!LogLine' = all BY <1>1, <1>3, <1>5
    <2> HIDE DEF n, all
    <2> QED BY <1>1, <1>p, <1>2, <1>5, <2>1, <2>2, LogFromParts
  <1> QED BY <1>4, <1>5 DEF L!Log

(* The log's goroutine (Run, drain, write) keeps every line accounted for, *)
(* whether or not the write of a line succeeds.                            *)
LEMMA LoggerKeepsFlow ==
  ASSUME LogFlow, L!Step
  PROVE  LogFlow'
  <1>a. alive /\ alive' BY DEF L!Step, L!WriteLine, L!SeeStop, L!Drained
  <1>p. /\ logged \in Seq(Nat) /\ logch \in Seq(Nat) /\ Len(logch) <= LogCapacity
        /\ LogCapacity \in Nat
        /\ logged \o logch \in Seq(Nat) /\ Sorted(logged \o logch)
        /\ 1 .. lines = Elems(logged \o logch) \cup logdropped \cup loglost
        /\ Elems(logged \o logch) \cap (logdropped \cup loglost) = {}
        /\ logdropped \cap loglost = {}
    BY <1>a, LogTypes, LogParts
  <1>l. L!LogLine' = logged' \o logch' BY <1>a DEF L!LogLine
  <1>1. CASE L!WriteLine
    <2>1. logch # <<>> /\ logch' = Tail(logch) /\ UNCHANGED <<lines, logdropped, logpc>>
      BY <1>1 DEF L!WriteLine
    <2>2. /\ Head(logch) \in Nat /\ Tail(logch) \in Seq(Nat)
          /\ logged \o logch = Append(logged, Head(logch)) \o Tail(logch)
          /\ Elems(logch) = {Head(logch)} \cup Elems(Tail(logch))
      BY <1>p, <2>1, ReceiveFacts
    <2>3. Len(logch') <= LogCapacity BY <1>p, <2>1
    <2>4. CASE logged' = Append(logged, Head(logch)) /\ loglost' = loglost
      <3>1. L!TypeOK' BY <1>p, <2>1, <2>2, <2>3, <2>4, LogTypes DEF L!TypeOK
      <3>2. L!LogLine' = logged \o logch BY <1>l, <2>1, <2>2, <2>4
      <3> QED BY <1>p, <2>1, <2>4, <3>1, <3>2, LogFromParts
    <2>5. CASE loglost' = loglost \cup {Head(logch)} /\ logged' = logged
      <3> DEFINE rest == logged \o Tail(logch)
      <3>1. L!TypeOK' BY <1>p, <2>1, <2>2, <2>3, <2>5, LogTypes DEF L!TypeOK
      <3>2. L!LogLine' = rest BY <1>l, <2>1, <2>5
      <3>3. /\ Sorted(logged) /\ Sorted(logch)
            /\ \A x \in Elems(logged), y \in Elems(logch) : x < y
        BY <1>p, ConcatSorted
      <3>4. <<Head(logch)>> \in Seq(Nat) /\ logch = <<Head(logch)>> \o Tail(logch)
        BY <1>p, <2>1, <2>2
      <3>5. Elems(<<Head(logch)>>) = {Head(logch)} BY DEF Elems
      <3>6. /\ Sorted(Tail(logch))
            /\ \A y \in Elems(Tail(logch)) : Head(logch) < y
        BY <2>2, <3>3, <3>4, <3>5, ConcatSorted
      <3>7. Sorted(rest) /\ Elems(rest) = Elems(logged) \cup Elems(Tail(logch))
        BY <1>p, <2>2, <3>3, <3>6, ConcatSorted, ConcatElems
      <3>8. Elems(logged \o logch) = Elems(rest) \cup {Head(logch)}
        <4>1. Elems(logged \o logch) = Elems(logged) \cup Elems(logch) BY <1>p, ConcatElems
        <4> QED BY <2>2, <3>7, <4>1
      <3>9. Head(logch) \notin Elems(rest)
        <4>1. Head(logch) \in Elems(logch) /\ ~(Head(logch) < Head(logch)) BY <2>2
        <4> QED BY <3>3, <3>6, <3>7, <4>1
      <3> HIDE DEF rest
      <3>10. /\ 1 .. lines' = Elems(rest) \cup logdropped' \cup loglost'
             /\ Elems(rest) \cap (logdropped' \cup loglost') = {}
             /\ logdropped' \cap loglost' = {}
        BY <1>p, <2>1, <2>5, <3>8, <3>9
      <3> QED BY <3>1, <3>2, <3>7, <3>10, LogFromParts
    <2> QED BY <1>1, <2>4, <2>5 DEF L!WriteLine
  <1>2. CASE L!SeeStop \/ L!Drained
    <2>1. UNCHANGED <<lines, logch, logged, logdropped, loglost>>
          /\ logpc' \in {"loop", "drain", "exited"}
      BY <1>2 DEF L!SeeStop, L!Drained
    <2>2. L!TypeOK' BY <2>1, LogTypes DEF L!TypeOK
    <2>3. L!LogLine' = logged \o logch BY <1>l, <2>1
    <2> QED BY <1>p, <2>1, <2>2, <2>3, LogFromParts
  <1> QED BY <1>1, <1>2 DEF L!Step

(* So does the end of the process: what was in the channel is lost. *)
LEMMA VanishKeepsLog ==
  ASSUME LogFlow, alive, alive' = FALSE, L!Vanish
  PROVE  LogFlow'
  <1>1. /\ loglost' = loglost \cup Elems(logch)
        /\ UNCHANGED <<lines, logch, logged, logdropped, logpc>>
    BY DEF L!Vanish, L!Lines, Elems
  <1>p. /\ logged \in Seq(Nat) /\ logch \in Seq(Nat)
        /\ Sorted(logged \o logch)
        /\ 1 .. lines = Elems(logged \o logch) \cup logdropped \cup loglost
        /\ Elems(logged \o logch) \cap (logdropped \cup loglost) = {}
        /\ logdropped \cap loglost = {}
    BY LogTypes, LogParts
  <1>2. /\ Sorted(logged) /\ \A x \in Elems(logged), y \in Elems(logch) : x < y
        /\ Elems(logged \o logch) = Elems(logged) \cup Elems(logch)
    BY <1>p, ConcatSorted, ConcatElems
  <1>3. Elems(logch) \in SUBSET Nat BY <1>p DEF Elems
  <1>4. Elems(logged) \cap Elems(logch) = {}
    <2>1. \A n \in Nat : ~(n < n) OBVIOUS
    <2> QED BY <1>2, <1>3, <2>1
  <1>5. L!TypeOK' BY <1>1, <1>3, LogTypes DEF L!TypeOK
  <1>6. L!LogLine' = logged BY <1>1 DEF L!LogLine
  <1>7. /\ 1 .. lines' = Elems(logged) \cup logdropped' \cup loglost'
        /\ Elems(logged) \cap (logdropped' \cup loglost') = {}
        /\ logdropped' \cap loglost' = {}
    BY <1>p, <1>1, <1>2, <1>4
  <1> QED BY <1>2, <1>5, <1>6, <1>7, LogFromParts

-----------------------------------------------------------------------------
(* The process.  Every handler that has finished has logged a line and     *)
(* enqueued an event, one that is midway only a line; and what was there   *)
(* at the signal is no more than what is there now.                        *)
Counted ==
  /\ lines = enqueued + midway
  /\ enqueued + active + midway <= MaxEvents
  /\ known.lines <= lines /\ known.events <= enqueued

(* Only a signal makes a goroutine drain its channel, and the writer does  *)
(* not return before its last batch.                                       *)
Stopping ==
  /\ pc \in {"drain", "last", "exited"} => stop
  /\ logpc \in {"drain", "exited"} => stop
  /\ pc = "exited" => batch = <<>>

(* A goroutine that is done with its channel has left nothing in it from   *)
(* before the signal.                                                      *)
Kept ==
  /\ pc \in {"last", "exited"} => \A e \in Elems(ch) : e > known.events
  /\ logpc = "exited" => \A l \in Elems(logch) : l > known.lines

MainType ==
  /\ stop \in BOOLEAN
  /\ main \in Phase
  /\ tries \in 0 .. Attempts - 1
  /\ active \in Nat /\ midway \in Nat
  /\ known \in [lines : Nat, events : Nat]

PInv == Flow /\ LogFlow /\ MainType /\ Counted /\ Stopping /\ Kept

(* What a process that has just been started looks like. *)
LEMMA InitPInv ==
  ASSUME Init
  PROVE  PInv
  <1>1. <<>> \o <<>> = <<>> /\ Elems(<<>>) = {} /\ <<>> \in Seq(Nat) BY DEF Elems
  <1>2. 1 .. 0 = {} OBVIOUS
  <1>3. Line = <<>> BY <1>1 DEF Init, WriterInit, Line
  <1>4. WriterTypeOK BY WriterAssumption DEF Init, WriterInit, WriterTypeOK
  <1>5. InOrder BY <1>3 DEF InOrder
  <1>6. Conserved BY <1>1, <1>2, <1>3 DEF Conserved, Init, WriterInit
  <1>7. Flow BY <1>4, <1>5, <1>6 DEF Flow, Init
  <1>8. L!TypeOK BY ProcessAssumption DEF Init, L!Init, L!TypeOK
  <1>9. L!Accounted
    BY <1>1, <1>2 DEF Init, L!Init, L!Accounted, L!LogLine, L!Lines, Elems
  <1>10. MainType
    <2>1. tries \in 0 .. Attempts - 1 BY ProcessAssumption DEF Init
    <2>2. main \in Phase BY DEF Init, Phase
    <2>3. active \in Nat /\ midway \in Nat /\ stop \in BOOLEAN BY DEF Init
    <2>4. known \in [lines : Nat, events : Nat] BY DEF Init
    <2> QED BY <2>1, <2>2, <2>3, <2>4 DEF MainType
  <1>11. Counted BY WriterAssumption DEF Init, WriterInit, L!Init, Counted
  <1>12. Stopping /\ Kept BY DEF Init, WriterInit, L!Init, Stopping, Kept
  <1> QED BY <1>7, <1>8, <1>9, <1>10, <1>11, <1>12 DEF PInv, LogFlow

(* A step that touches neither channel keeps all that is said of them. *)
LEMMA FlowStays ==
  ASSUME Flow, UNCHANGED <<writer, alive>>
  PROVE  Flow'
  BY DEF Flow, writer, WriterTypeOK, InOrder, Conserved, Line, Elems

(* A step that leaves the log alone keeps its accounting. *)
LEMMA LogStays ==
  ASSUME LogFlow, UNCHANGED <<log, alive>>
  PROVE  LogFlow'
  BY DEF LogFlow, log, L!TypeOK, L!Accounted, L!LogLine, L!Lines

(* The numbers that the steps of main and of the handlers compute with. *)
LEMMA PNumbers ==
  ASSUME PInv
  PROVE  /\ enqueued \in Nat /\ lines \in Nat /\ active \in Nat /\ midway \in Nat
         /\ known.lines \in Nat /\ known.events \in Nat /\ MaxEvents \in Nat
         /\ Attempts \in Nat \ {0} /\ tries \in Nat
  <1>1. enqueued \in Nat /\ lines \in Nat BY FlowParts, LogTypes DEF PInv
  <1>2. known.lines \in Nat /\ known.events \in Nat BY DEF PInv, MainType
  <1> QED BY <1>1, <1>2, WriterAssumption, ProcessAssumption DEF PInv, MainType

(* The steps of main. *)
LEMMA MainKeepsPInv ==
  ASSUME PInv, Main \/ ListenFails \/ Kill
  PROVE  PInv'
  <1>n. /\ enqueued \in Nat /\ lines \in Nat /\ active \in Nat /\ midway \in Nat
        /\ Attempts \in Nat \ {0} /\ tries \in Nat
    BY PNumbers
  <1>1. /\ UNCHANGED <<enqueued, ch, batch, pc, stop, active, midway, known>>
        /\ UNCHANGED <<lines, logch, logpc>>
        /\ UNCHANGED <<writer, log, alive>> \/ (Exit /\ L!Vanish)
    BY DEF Main, Wait, Load, LoadFails, Shutdown, ShutdownEnds, End, ListenFails, Kill, Ends,
           Exit, L!Vanish, writer, log
  <1>2. Flow' BY <1>1, FlowStays, ExitKeepsFlow DEF PInv
  <1>3. LogFlow' BY <1>1, LogStays, VanishKeepsLog DEF PInv, Exit
  <1>4. main' \in Phase
    <2>1. main \in Phase BY DEF PInv, MainType
    <2> QED BY <2>1 DEF Main, Wait, Load, LoadFails, Shutdown, ShutdownEnds, End, ListenFails,
                        Kill, Ends, After, Phase
  <1>5. tries' \in 0 .. Attempts - 1
    <2>1. tries \in 0 .. Attempts - 1 BY DEF PInv, MainType
    <2>2. tries' \in {tries, 0} \/ (tries' = tries + 1 /\ tries + 1 # Attempts)
      BY DEF Main, Wait, Load, LoadFails, Shutdown, ShutdownEnds, End, ListenFails, Kill, Ends
    <2> QED BY <1>n, <2>1, <2>2
  <1>6. MainType' BY <1>1, <1>4, <1>5 DEF PInv, MainType
  <1>7. Counted' BY <1>1 DEF PInv, Counted
  <1>8. Stopping' BY <1>1 DEF PInv, Stopping
  <1>9. Kept' BY <1>1 DEF PInv, Kept, Elems
  <1> QED BY <1>2, <1>3, <1>6, <1>7, <1>8, <1>9 DEF PInv

(* The steps of the handlers: what they add comes after the signal if the  *)
(* goroutine is already done with its channel.                             *)
LEMMA HandlerKeepsPInv ==
  ASSUME PInv, Accept \/ Refuse \/ FinishLog \/ FinishEnqueue
  PROVE  PInv'
  <1>n. /\ enqueued \in Nat /\ lines \in Nat /\ active \in Nat /\ midway \in Nat
        /\ known.lines \in Nat /\ known.events \in Nat /\ MaxEvents \in Nat
    BY PNumbers
  <1>s. ch \in Seq(Nat) /\ logch \in Seq(Nat) BY FlowParts, LogTypes DEF PInv
  <1>c. /\ lines = enqueued + midway /\ enqueued + active + midway <= MaxEvents
        /\ known.lines <= lines /\ known.events <= enqueued
    BY DEF PInv, Counted
  <1>1. CASE Accept \/ Refuse
    <2>1. UNCHANGED <<writer, stop, alive, log, main, tries, midway, known>>
      BY <1>1 DEF Accept, Refuse
    <2>2. Flow' /\ LogFlow' BY <2>1, FlowStays, LogStays DEF PInv
    <2>3. active' \in Nat /\ enqueued + active' + midway <= MaxEvents
      <3>1. CASE Accept BY <1>n, <1>c, <3>1 DEF Accept
      <3>2. CASE Refuse BY <1>n, <1>c, <3>2 DEF Refuse
      <3> QED BY <1>1, <3>1, <3>2
    <2>4. MainType' BY <2>1, <2>3 DEF PInv, MainType
    <2>5. Counted' BY <1>c, <2>1, <2>3 DEF Counted, log, writer
    <2>6. Stopping' /\ Kept' BY <2>1 DEF PInv, Stopping, Kept, log, writer, Elems
    <2> QED BY <2>2, <2>4, <2>5, <2>6 DEF PInv
  <1>2. CASE FinishLog
    <2>1. /\ active' = active - 1 /\ midway' = midway + 1 /\ active > 0
          /\ UNCHANGED <<writer, main, tries, known, stop, alive, logpc>>
          /\ lines' = lines + 1 /\ L!Log
      BY <1>2 DEF FinishLog, L!Log
    <2>2. Flow' BY <2>1, FlowStays DEF PInv
    <2>3. LogFlow' BY <2>1, LogKeepsFlow DEF PInv
    <2>4. /\ active' \in Nat /\ midway' \in Nat /\ lines' = enqueued + midway'
          /\ enqueued + active' + midway' <= MaxEvents /\ known.lines <= lines'
      BY <1>n, <1>c, <2>1
    <2>5. MainType' BY <2>1, <2>4 DEF PInv, MainType
    <2>6. Counted' BY <1>c, <2>1, <2>4 DEF Counted, writer
    <2>7. Stopping' BY <2>1 DEF PInv, Stopping, writer
    <2>8. Elems(logch') \subseteq Elems(logch) \cup {lines + 1}
      <3>1. logch' \in {logch, Append(logch, lines + 1)} BY <2>1 DEF L!Log
      <3>2. lines + 1 \in Nat BY <1>n
      <3> QED BY <1>s, <3>1, <3>2, SendFacts
    <2>9. lines + 1 > known.lines BY <1>n, <1>c
    <2>10. Kept' BY <2>1, <2>8, <2>9 DEF PInv, Kept, writer, Elems
    <2> QED BY <2>2, <2>3, <2>5, <2>6, <2>7, <2>10 DEF PInv
  <1>3. CASE FinishEnqueue
    <2>1. /\ midway' = midway - 1 /\ midway > 0 /\ Enqueue
          /\ UNCHANGED <<log, main, tries, active, known, stop, alive, pc, batch>>
          /\ enqueued' = enqueued + 1
      BY <1>3 DEF FinishEnqueue, Enqueue
    <2>2. LogFlow' BY <2>1, LogStays DEF PInv
    <2>3. Flow' BY <2>1, EnqueueKeepsFlow DEF PInv
    <2>4. /\ midway' \in Nat /\ lines = enqueued' + midway'
          /\ enqueued' + active + midway' <= MaxEvents /\ known.events <= enqueued'
      BY <1>n, <1>c, <2>1
    <2>5. MainType' BY <2>1, <2>4 DEF PInv, MainType
    <2>6. Counted' BY <1>c, <2>1, <2>4 DEF Counted, log
    <2>7. Stopping' BY <2>1 DEF PInv, Stopping, log
    <2>8. Elems(ch') \subseteq Elems(ch) \cup {enqueued + 1}
      <3>1. ch' \in {ch, Append(ch, enqueued + 1)} BY <2>1 DEF Enqueue
      <3>2. enqueued + 1 \in Nat BY <1>n
      <3> QED BY <1>s, <3>1, <3>2, SendFacts
    <2>9. enqueued + 1 > known.events BY <1>n, <1>c
    <2>10. Kept' BY <2>1, <2>8, <2>9 DEF PInv, Kept, log, Elems
    <2> QED BY <2>2, <2>3, <2>5, <2>6, <2>7, <2>10 DEF PInv
  <1> QED BY <1>1, <1>2, <1>3

(* The steps of the goroutines: each leaves its channel only when it has   *)
(* found it empty, after the signal.                                       *)
LEMMA GoroutineKeepsPInv ==
  ASSUME PInv, Write \/ WriteLog
  PROVE  PInv'
  <1>e. Elems(<<>>) = {} BY DEF Elems
  <1>1. CASE Write
    <2>1. WriterStep /\ UNCHANGED <<log, process>> BY <1>1 DEF Write
    <2>3. UNCHANGED <<enqueued, stop, alive>>
      BY <2>1 DEF WriterStep, Receive, FlushTimer, SeeStop, Drain, WriteBatch, WriteFails, Flushed
    <2>2. Flow' /\ LogFlow' BY <2>1, <2>3, WriterKeepsFlow, LogStays DEF PInv
    <2>4. MainType' /\ Counted' BY <2>1, <2>3 DEF PInv, MainType, Counted, process, log
    <2>5. Stopping'
      <3>1. /\ pc' \in {"drain", "last", "exited"} => stop
            /\ pc' = "exited" => batch' = <<>>
        BY <2>1 DEF WriterStep, Receive, FlushTimer, SeeStop, Drain, WriteBatch, WriteFails, Flushed,
                    PInv, Stopping
      <3> QED BY <2>1, <2>3, <3>1 DEF PInv, Stopping, log
    <2>6. Kept'
      <3>1. pc' \in {"last", "exited"} =>
              \/ ch' = <<>>
              \/ pc \in {"last", "exited"} /\ ch' = ch
        BY <2>1 DEF WriterStep, Receive, FlushTimer, SeeStop, Drain, WriteBatch, WriteFails, Flushed
      <3>2. known' = known BY <2>1 DEF process
      <3>3. pc' \in {"last", "exited"} => \A e \in Elems(ch') : e > known'.events
        BY <1>e, <3>1, <3>2 DEF PInv, Kept
      <3>4. logpc' = "exited" => \A l \in Elems(logch') : l > known'.lines
        BY <2>1, <3>2 DEF PInv, Kept, log
      <3> QED BY <3>3, <3>4 DEF Kept, Elems
    <2> QED BY <2>2, <2>4, <2>5, <2>6 DEF PInv
  <1>2. CASE WriteLog
    <2>1. L!Step /\ UNCHANGED <<writer, process>> BY <1>2 DEF WriteLog
    <2>2. UNCHANGED <<lines, stop, alive>> BY <2>1 DEF L!Step, L!WriteLine, L!SeeStop, L!Drained
    <2>3. Flow' /\ LogFlow' BY <2>1, <2>2, FlowStays, LoggerKeepsFlow DEF PInv
    <2>4. MainType' /\ Counted' BY <2>1, <2>2 DEF PInv, MainType, Counted, process, writer
    <2>5. /\ logpc' \in {"drain", "exited"} => stop
          /\ logpc' = "exited" => \/ logch' = <<>>
                                  \/ logpc = "exited" /\ logch' = logch
      BY <2>1 DEF L!Step, L!WriteLine, L!SeeStop, L!Drained, PInv, Stopping
    <2>6. Stopping' BY <2>1, <2>2, <2>5 DEF PInv, Stopping, writer
    <2>7. Kept'
      <3>1. known' = known /\ pc' = pc /\ ch' = ch BY <2>1 DEF process, writer
      <3>2. logpc' = "exited" => \A l \in Elems(logch') : l > known'.lines
        BY <1>e, <2>5, <3>1 DEF PInv, Kept
      <3> QED BY <3>1, <3>2 DEF PInv, Kept, Elems
    <2> QED BY <2>3, <2>4, <2>6, <2>7 DEF PInv
  <1> QED BY <1>1, <1>2

(* Every step of the process keeps the invariant; the signal notes what is *)
(* there while neither goroutine has begun to drain.                       *)
LEMMA NextPInv ==
  ASSUME PInv, [Next]_vars
  PROVE  PInv'
  <1>1. CASE Main \/ ListenFails \/ Kill BY <1>1, MainKeepsPInv
  <1>2. CASE Accept \/ Refuse \/ FinishLog \/ FinishEnqueue BY <1>2, HandlerKeepsPInv
  <1>3. CASE Write \/ WriteLog BY <1>3, GoroutineKeepsPInv
  <1>4. CASE Signal
    <2>1. /\ ~stop /\ stop' = TRUE /\ known' = [lines |-> lines, events |-> enqueued]
          /\ UNCHANGED <<writer, alive, log, main, tries, active, midway>>
      BY <1>4 DEF Signal
    <2>2. enqueued \in Nat /\ lines \in Nat BY PNumbers
    <2>3. Flow' /\ LogFlow' BY <2>1, FlowStays, LogStays DEF PInv
    <2>4. MainType' BY <2>1, <2>2 DEF PInv, MainType
    <2>5. Counted' BY <2>1, <2>2 DEF PInv, Counted, writer, log
    <2>6. Stopping' BY <2>1 DEF PInv, Stopping, writer, log
    <2>7. Kept' BY <2>1 DEF PInv, Stopping, Kept, writer, log
    <2> QED BY <2>3, <2>4, <2>5, <2>6, <2>7 DEF PInv
  <1>5. CASE UNCHANGED vars
    <2>1. UNCHANGED <<writer, stop, alive, log, process>> BY <1>5 DEF vars, log
    <2>2. Flow' /\ LogFlow' BY <2>1, FlowStays, LogStays DEF PInv
    <2> QED BY <2>1, <2>2 DEF PInv, MainType, Counted, Stopping, Kept, writer, log, process, Elems
  <1> QED BY <1>1, <1>2, <1>3, <1>4, <1>5 DEF Next

-----------------------------------------------------------------------------
(* The invariant holds of every behaviour of the process. *)
THEOREM ProcessInductive == Spec => []PInv
  <1>1. Init => PInv BY InitPInv
  <1>2. PInv /\ [Next]_vars => PInv' BY NextPInv
  <1> QED BY <1>1, <1>2, PTL DEF Spec

(* The process keeps to its types: the channels never exceed their         *)
(* capacities, main is always at one of its places and never pings more    *)
(* often than it may (main.go:33-148, spend_writer.go, logging.go).        *)
THEOREM ProcessTypeCorrect == Spec => []TypeOK
  <1>1. ASSUME PInv PROVE TypeOK
    <2>1. WriterTypeOK /\ L!TypeOK /\ alive \in BOOLEAN BY <1>1 DEF PInv, Flow, LogFlow
    <2>2. /\ enqueued \in Nat /\ lines \in Nat /\ active \in Nat /\ midway \in Nat
          /\ known.lines \in Nat /\ known.events \in Nat /\ MaxEvents \in Nat
      BY <1>1, PNumbers
    <2>3. /\ active \in 0 .. MaxEvents /\ midway \in 0 .. MaxEvents
          /\ known.lines \in 0 .. MaxEvents /\ known.events \in 0 .. MaxEvents
      BY <1>1, <2>2 DEF PInv, Counted
    <2>4. known = [lines |-> known.lines, events |-> known.events]
      BY <1>1 DEF PInv, MainType
    <2>5. known \in [lines : 0 .. MaxEvents, events : 0 .. MaxEvents] BY <2>3, <2>4
    <2> QED BY <1>1, <2>1, <2>3, <2>5 DEF PInv, MainType, TypeOK
  <1> QED BY <1>1, ProcessInductive, PTL

(* No spend event is written to Postgres twice or out of order             *)
(* (spend_writer.go:56-146).                                               *)
THEOREM EventsInOrder == Spec => []InOrder
  <1>1. PInv => InOrder BY DEF PInv, Flow
  <1> QED BY <1>1, ProcessInductive, PTL

(* Every spend event is in Postgres, on its way there, or in exactly one   *)
(* of the two sets of events that were given up (spend_writer.go:56-146).  *)
THEOREM EventsConserved == Spec => []Conserved
  <1>1. PInv => Conserved BY DEF PInv, Flow
  <1> QED BY <1>1, ProcessInductive, PTL

(* Every line handed to the request log has one fate: written, or on its   *)
(* way in a running process; counted as dropped; or lost uncounted, with   *)
(* its write or with the process (logging.go:66-117).                      *)
THEOREM LinesAccounted == Spec => []LogAccounted
  <1>1. PInv => LogAccounted BY DEF PInv, LogFlow, LogAccounted
  <1> QED BY <1>1, ProcessInductive, PTL

(* A goroutine that has returned has left nothing behind that was in its   *)
(* channel at the signal (spend_writer.go:90-116, logging.go:66-87).       *)
THEOREM NothingLeftBehind == Spec => []BufferedKept
  <1>1. ASSUME PInv PROVE BufferedKept
    <2>1. Elems(<<>>) = {} BY DEF Elems
    <2>2. pc = "exited" => \A e \in Elems(ch) \cup Elems(batch) : e > known.events
      BY <1>1, <2>1 DEF PInv, Stopping, Kept
    <2> QED BY <1>1, <2>2 DEF PInv, Kept, BufferedKept
  <1> QED BY <1>1, ProcessInductive, PTL

=============================================================================
