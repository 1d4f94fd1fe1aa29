--------------------------- MODULE EnforcerProofs ---------------------------
(***************************************************************************)
(* Proofs about Enforcer for every set of keys and requests, every limit   *)
(* and refill rate, every estimate, and any number of faults.              *)
(***************************************************************************)
EXTENDS Enforcer, FoldProofs, TLAPS

(* Multiplication by a natural number is monotone. *)
LEMMA MulMono ==
  ASSUME NEW a \in Nat, NEW b \in Nat, NEW c \in Nat, b <= c
  PROVE  a * b <= a * c
  <1>1. c - b \in Nat OBVIOUS
  <1>2. a * (c - b) >= 0 BY <1>1
  <1>3. a * (c - b) = a * c - a * b OBVIOUS
  <1> QED BY <1>2, <1>3

(* A list of references is well typed, and RefOf finds the reference of a  *)
(* key of the list.                                                        *)
LEMMA RefFacts ==
  ASSUME NEW refs \in RefLists, NEW k \in KeysOf(refs)
  PROVE  /\ RefOf(refs, k) \in BucketRef
         /\ RefOf(refs, k).key = k
         /\ \E i \in DOMAIN refs : RefOf(refs, k) = refs[i]
         /\ \A d \in Dim : /\ RefOf(refs, k).limit[d] \in Nat
                           /\ RefOf(refs, k).rate[d] \in Nat
                           /\ RefOf(refs, k).limit[d] <= Cap[k][d]
                           /\ RefOf(refs, k).rate[d] <= Rate[k][d]
  <1> DEFINE i == CHOOSE i \in DOMAIN refs : refs[i].key = k
  <1>1. i \in DOMAIN refs /\ refs[i].key = k BY DEF KeysOf
  <1>2. refs \in Seq(BucketRef) BY EnforcerAssumption
  <1>3. refs[i] \in BucketRef BY <1>1, <1>2
  <1>4. RefOf(refs, k) = refs[i] BY DEF RefOf
  <1>5. \A d \in Dim : refs[i].limit[d] <= Cap[k][d] /\ refs[i].rate[d] <= Rate[k][d]
    BY <1>1, EnforcerAssumption
  <1> QED BY <1>1, <1>3, <1>4, <1>5 DEF BucketRef

(* The time since the last refill is a natural number. *)
LEMMA ElapsedType ==
  ASSUME NEW t \in Nat \cup {Nil}, NEW n \in Nat
  PROVE  Elapsed(t, n) \in Nat
  BY BucketAssumption DEF Elapsed

(* What the first phase of the script computes: an integer that never      *)
(* exceeds the limit where the dimension is enforced, and never exceeds    *)
(* the stored balance plus the refill for the elapsed time.                *)
LEMMA RefilledFacts ==
  ASSUME NEW b \in [Dim -> Int \cup {Nil}], NEW t \in Nat \cup {Nil}, NEW n \in Nat,
         NEW ref \in BucketRef, NEW d \in Dim
  PROVE  /\ Refilled(b, t, ref, n, d) \in Int
         /\ ref.limit[d] \in Nat
         /\ Enforced(ref, d) => Refilled(b, t, ref, n, d) <= ref.limit[d]
         /\ b[d] # Nil => Refilled(b, t, ref, n, d) <= b[d] + Elapsed(t, n) * ref.rate[d]
         /\ ~Enforced(ref, d) /\ b[d] # Nil => Refilled(b, t, ref, n, d) = b[d]
         /\ ~Enforced(ref, d) /\ b[d] = Nil => Refilled(b, t, ref, n, d) = 0
  <1> DEFINE e == Elapsed(t, n)
  <1>1. e \in Nat BY ElapsedType
  <1>2. ref.limit[d] \in Nat /\ ref.rate[d] \in Nat BY DEF BucketRef
  <1>3. StoredOr(b[d], ref.limit[d]) \in Int BY <1>2, BucketAssumption DEF StoredOr
  <1>4. e * ref.rate[d] \in Nat BY <1>1, <1>2
  <1> HIDE DEF e
  <1>5. Refilled(b, t, ref, n, d) =
          IF ~Enforced(ref, d) THEN StoredOr(b[d], ref.limit[d])
          ELSE IF StoredOr(b[d], ref.limit[d]) + e * ref.rate[d] > ref.limit[d]
               THEN ref.limit[d] ELSE StoredOr(b[d], ref.limit[d]) + e * ref.rate[d]
    BY DEF Refilled, e
  <1>6. b[d] # Nil => StoredOr(b[d], ref.limit[d]) = b[d] BY DEF StoredOr
  <1>7. b[d] = Nil => StoredOr(b[d], ref.limit[d]) = ref.limit[d] BY DEF StoredOr
  <1>8. Enforced(ref, d) <=> ref.limit[d] > 0 BY DEF Enforced
  <1>9. b[d] # Nil => b[d] \in Int OBVIOUS
  <1>10. e = Elapsed(t, n) BY DEF e
  <1> QED BY <1>2, <1>3, <1>4, <1>5, <1>6, <1>7, <1>8, <1>9, <1>10

-----------------------------------------------------------------------------
(* The initial state satisfies the inductive invariant. *)
LEMMA InitIInv == Init => IInv
  <1> SUFFICES ASSUME Init PROVE IInv OBVIOUS
  <1> USE DEF Init
  <1>1. NoAmount \in [Dim -> Nat] BY DEF NoAmount
  <1>2. TypeOK
    <2>1. resv \in [Req -> Reservation]
      BY DEF NoReservation, Reservation, ResvState
    <2> QED BY <1>1, <2>1 DEF TypeOK, Amount
  <1>3. TodoOK BY DEF TodoOK, ResvOK, NoReservation
  <1>4. NoOverspend /\ Backed BY DEF NoOverspend, Backed
  <1>5. Untouched BY DEF Untouched, NoAmount
  <1> QED BY <1>2, <1>3, <1>4, <1>5 DEF IInv

-----------------------------------------------------------------------------
(* The part of the invariant that speaks of the buckets alone. *)
Accounts ==
  /\ bal \in [Key -> [Dim -> Int \cup {Nil}]]
  /\ ts \in [Key -> Nat \cup {Nil}]
  /\ now \in Nat
  /\ uptime \in Nat
  /\ spent \in [Key -> Amount]
  /\ unchecked \in [Key -> [Dim -> Nat]]
  /\ born \in [Key -> Nat]
  /\ NoOverspend
  /\ Backed
  /\ Untouched
  /\ \A k \in Key : born[k] <= uptime

(* A run of the script keeps the accounts, whether or not its reply        *)
(* arrives: an enforced dimension is debited only as far as its refilled   *)
(* balance reaches, and the refill is what the elapsed time justifies.     *)
LEMMA DebitAccounts ==
  ASSUME Accounts, NEW refs \in RefLists, NEW want \in Wants, Debit(refs, want),
         UNCHANGED <<now, uptime, born>>
  PROVE  Accounts'
  <1>t. /\ bal \in [Key -> [Dim -> Int \cup {Nil}]] /\ ts \in [Key -> Nat \cup {Nil}]
        /\ now \in Nat /\ uptime \in Nat
        /\ spent \in [Key -> [Dim -> Int]] /\ unchecked \in [Key -> [Dim -> Nat]]
        /\ born \in [Key -> Nat] /\ \A k \in Key : born[k] <= uptime
    BY DEF Accounts, Amount
  <1>a. NoOverspend /\ Backed /\ Untouched BY DEF Accounts
  <1>u. now' = now /\ uptime' = uptime /\ born' = born OBVIOUS
  <1>w. want \in [Dim -> Int] /\ \A d \in Dim : want[d] \in Nat
    BY EnforcerAssumption DEF Debit, Sufficient, Amount
  <1>c. Cap \in [Key -> [Dim -> Nat]] /\ Rate \in [Key -> [Dim -> Nat]]
    BY EnforcerAssumption
  <1> DEFINE R(k, d) == Refilled(bal[k], ts[k], RefOf(refs, k), now, d)
  <1>r. ASSUME NEW k \in Key, k \in KeysOf(refs), NEW d \in Dim
        PROVE  /\ R(k, d) \in Int
               /\ Enforced(RefOf(refs, k), d) => R(k, d) >= want[d]
               /\ bal[k][d] = Nil => R(k, d) <= Cap[k][d]
               /\ bal[k][d] # Nil => R(k, d) <= bal[k][d] + Rate[k][d] * Elapsed(ts[k], now)
               /\ ~Enforced(RefOf(refs, k), d) /\ bal[k][d] # Nil => R(k, d) = bal[k][d]
               /\ ~Enforced(RefOf(refs, k), d) /\ bal[k][d] = Nil => R(k, d) = 0
    <2> DEFINE ref == RefOf(refs, k)
    <2>1. /\ ref \in BucketRef /\ ref.key = k
          /\ \E i \in DOMAIN refs : ref = refs[i]
          /\ ref.limit[d] <= Cap[k][d] /\ ref.rate[d] <= Rate[k][d]
          /\ ref.limit[d] \in Nat /\ ref.rate[d] \in Nat
      BY <1>r, RefFacts
    <2>2. Elapsed(ts[k], now) \in Nat BY <1>t, ElapsedType
    <2>3. Elapsed(ts[k], now) * ref.rate[d] <= Elapsed(ts[k], now) * Rate[k][d]
      BY <2>1, <2>2, <1>c, MulMono
    <2>4. Elapsed(ts[k], now) * Rate[k][d] = Rate[k][d] * Elapsed(ts[k], now)
      BY <2>2, <1>c
    <2>5. PICK i \in DOMAIN refs : ref = refs[i] BY <2>1
    <2>6. ~Lacks(bal[k], ts[k], ref, now, want)
      BY <2>1, <2>5 DEF Debit, Sufficient, Lacking
    <2>7. Enforced(ref, d) => ~(R(k, d) < want[d])
      BY <2>6 DEF Lacks
    <2>8. /\ R(k, d) \in Int
          /\ Enforced(ref, d) => R(k, d) <= ref.limit[d]
          /\ bal[k][d] # Nil => R(k, d) <= bal[k][d] + Elapsed(ts[k], now) * ref.rate[d]
          /\ ~Enforced(ref, d) /\ bal[k][d] # Nil => R(k, d) = bal[k][d]
          /\ ~Enforced(ref, d) /\ bal[k][d] = Nil => R(k, d) = 0
      <3>1. bal[k] \in [Dim -> Int \cup {Nil}] /\ ts[k] \in Nat \cup {Nil} BY <1>t
      <3>2. ref \in BucketRef /\ now \in Nat BY <1>t, <2>1
      <3> HIDE DEF ref
      <3>3. /\ Refilled(bal[k], ts[k], ref, now, d) \in Int
            /\ Enforced(ref, d) => Refilled(bal[k], ts[k], ref, now, d) <= ref.limit[d]
            /\ bal[k][d] # Nil => Refilled(bal[k], ts[k], ref, now, d)
                                   <= bal[k][d] + Elapsed(ts[k], now) * ref.rate[d]
            /\ ~Enforced(ref, d) /\ bal[k][d] # Nil
                 => Refilled(bal[k], ts[k], ref, now, d) = bal[k][d]
            /\ ~Enforced(ref, d) /\ bal[k][d] = Nil
                 => Refilled(bal[k], ts[k], ref, now, d) = 0
        BY <3>1, <3>2, RefilledFacts
      <3>4. R(k, d) = Refilled(bal[k], ts[k], ref, now, d) BY DEF ref
      <3> HIDE DEF R
      <3> QED BY <3>3, <3>4
    <2> HIDE DEF R, ref
    <2>9. Cap[k][d] \in Nat /\ want[d] \in Nat /\ Rate[k][d] \in Nat BY <1>c, <1>w
    <2>10. bal[k][d] # Nil => bal[k][d] \in Int BY <1>t
    <2>11. bal[k][d] # Nil => R(k, d) <= bal[k][d] + Rate[k][d] * Elapsed(ts[k], now)
      BY <2>1, <2>2, <2>3, <2>4, <2>8, <2>9, <2>10
    <2>12. bal[k][d] = Nil => R(k, d) <= Cap[k][d]
      BY <2>1, <2>8, <2>9
    <2>13. Enforced(ref, d) => R(k, d) >= want[d] BY <2>7, <2>8, <2>9
    <2> QED BY <2>8, <2>11, <2>12, <2>13 DEF ref
  <1> HIDE DEF R
  <1>b. ASSUME NEW k \in Key, NEW d \in Dim, k \in KeysOf(refs)
        PROVE  /\ bal'[k][d] = R(k, d) - want[d]
               /\ bal'[k][d] \in Int
               /\ ts'[k] = now
               /\ spent'[k][d] = spent[k][d] + want[d]
               /\ unchecked'[k][d] = unchecked[k][d]
                    + (IF Enforced(RefOf(refs, k), d) THEN 0 ELSE want[d])
    <2>1. bal'[k][d] = R(k, d) - want[d] BY <1>b DEF Debit, Debited, R
    <2>2. R(k, d) \in Int /\ want[d] \in Int BY <1>b, <1>r, <1>w
    <2>3. ts'[k] = now BY <1>b DEF Debit, Stamped
    <2>4. spent'[k][d] = spent[k][d] + want[d] BY <1>b DEF Debit
    <2>5. unchecked'[k][d] = unchecked[k][d]
            + (IF Enforced(RefOf(refs, k), d) THEN 0 ELSE want[d])
      BY <1>b DEF Debit
    <2>6. bal'[k][d] \in Int BY <2>1, <2>2
    <2> QED BY <2>1, <2>3, <2>4, <2>5, <2>6
  <1>o. ASSUME NEW k \in Key, k \notin KeysOf(refs)
        PROVE  /\ bal'[k] = bal[k] /\ ts'[k] = ts[k]
               /\ \A d \in Dim : /\ spent'[k][d] = spent[k][d]
                                /\ unchecked'[k][d] = unchecked[k][d]
    <2>1. bal'[k] = bal[k] BY <1>o DEF Debit, Debited
    <2>2. ts'[k] = ts[k] BY <1>o DEF Debit, Stamped
    <2>3. ASSUME NEW d \in Dim
          PROVE  spent'[k][d] = spent[k][d] /\ unchecked'[k][d] = unchecked[k][d]
      <3>1. spent[k][d] \in Int /\ unchecked[k][d] \in Nat BY <1>t
      <3>2. spent'[k][d] = spent[k][d] + 0 /\ unchecked'[k][d] = unchecked[k][d] + 0
        BY <1>o DEF Debit
      <3> QED BY <3>1, <3>2
    <2> QED BY <2>1, <2>2, <2>3
  <1>1. bal' \in [Key -> [Dim -> Int \cup {Nil}]]
    BY <1>t, <1>r, <1>w DEF Debit, Debited, R
  <1>2. ts' \in [Key -> Nat \cup {Nil}] BY <1>t DEF Debit, Stamped
  <1>3. spent' \in [Key -> Amount] BY <1>t, <1>w DEF Debit, Amount
  <1>4. unchecked' \in [Key -> [Dim -> Nat]] BY <1>t, <1>w DEF Debit
  <1>5. NoOverspend'
    <2> SUFFICES ASSUME NEW k \in Key, NEW d \in Dim, bal'[k][d] # Nil
                 PROVE  bal'[k][d] >= -unchecked'[k][d]
      BY DEF NoOverspend
    <2>1. CASE k \notin KeysOf(refs) BY <2>1, <1>o, <1>a DEF NoOverspend
    <2>2. CASE k \in KeysOf(refs)
      <3>1. unchecked[k][d] \in Nat /\ want[d] \in Nat BY <1>t, <1>w
      <3>2. CASE Enforced(RefOf(refs, k), d)
        BY <2>2, <3>1, <3>2, <1>b, <1>r
      <3>3. CASE ~Enforced(RefOf(refs, k), d)
        <4>1. R(k, d) >= -unchecked[k][d]
          BY <2>2, <3>1, <3>3, <1>r, <1>a DEF NoOverspend
        <4> QED BY <2>2, <3>1, <3>3, <4>1, <1>b, <1>r
      <3> QED BY <3>2, <3>3
    <2> QED BY <2>1, <2>2
  <1>6. Backed'
    <2> SUFFICES ASSUME NEW k \in Key, NEW d \in Dim, bal'[k][d] # Nil
                 PROVE  bal'[k][d] + spent'[k][d] + Rate[k][d] * Elapsed(ts'[k], now')
                          <= Cap[k][d] + Rate[k][d] * (uptime' - born'[k])
      BY DEF Backed
    <2>1. CASE k \notin KeysOf(refs) BY <2>1, <1>o, <1>a, <1>u DEF Backed
    <2>2. CASE k \in KeysOf(refs)
      <3>1. Elapsed(ts'[k], now') = 0 BY <2>2, <1>b, <1>t, <1>u, BucketAssumption DEF Elapsed
      <3>2. /\ Cap[k][d] \in Nat /\ Rate[k][d] \in Nat /\ want[d] \in Nat
            /\ spent[k][d] \in Int /\ R(k, d) \in Int /\ uptime - born[k] \in Nat
            /\ Elapsed(ts[k], now) \in Nat
        <4>1. uptime \in Nat /\ born[k] \in Nat /\ born[k] <= uptime BY <1>t
        <4>2. ts[k] \in Nat \cup {Nil} /\ now \in Nat BY <1>t
        <4>3. Elapsed(ts[k], now) \in Nat BY <4>2, ElapsedType
        <4>4. R(k, d) \in Int BY <1>r, <2>2
        <4> QED BY <1>c, <1>w, <1>t, <4>1, <4>3, <4>4
      <3>3. Rate[k][d] * 0 = 0 /\ Rate[k][d] * (uptime - born[k]) >= 0 BY <3>2
      <3>4. R(k, d) + spent[k][d] <= Cap[k][d] + Rate[k][d] * (uptime - born[k])
        <4>1. CASE bal[k][d] = Nil
          <5>1. spent[k][d] = 0 BY <4>1, <1>a DEF Untouched
          <5>2. R(k, d) <= Cap[k][d] BY <4>1, <1>r, <2>2
          <5>3. Rate[k][d] * (uptime - born[k]) \in Int BY <3>2
          <5> QED BY <5>1, <5>2, <5>3, <3>2, <3>3
        <4>2. CASE bal[k][d] # Nil
          <5>1. bal[k][d] \in Int BY <4>2, <1>t
          <5>2. Rate[k][d] * Elapsed(ts[k], now) \in Int
                /\ Rate[k][d] * (uptime - born[k]) \in Int BY <3>2
          <5>3. bal[k][d] + spent[k][d] + Rate[k][d] * Elapsed(ts[k], now)
                  <= Cap[k][d] + Rate[k][d] * (uptime - born[k])
            BY <4>2, <1>a DEF Backed
          <5>4. R(k, d) <= bal[k][d] + Rate[k][d] * Elapsed(ts[k], now)
            BY <4>2, <1>r, <2>2
          <5> QED BY <5>1, <5>2, <5>3, <5>4, <3>2
        <4> QED BY <4>1, <4>2
      <3>5. Rate[k][d] * (uptime - born[k]) \in Int BY <3>2
      <3>6. bal'[k][d] + spent'[k][d] = R(k, d) + spent[k][d]
        BY <2>2, <1>b, <3>2
      <3>7. uptime' - born'[k] = uptime - born[k] BY <1>u
      <3>8. bal'[k][d] + spent'[k][d] \in Int BY <3>2, <3>6
      <3> QED BY <3>1, <3>3, <3>4, <3>5, <3>6, <3>7, <3>8
    <2> QED BY <2>1, <2>2
  <1>7. Untouched'
    <2>1. ASSUME NEW k \in Key, NEW d \in Dim, bal'[k][d] = Nil
          PROVE  spent'[k][d] = 0 /\ unchecked'[k][d] = 0
      <3>1. k \notin KeysOf(refs) BY <2>1, <1>b, BucketAssumption
      <3> QED BY <2>1, <3>1, <1>o, <1>a DEF Untouched
    <2>2. ASSUME NEW k \in Key, ts'[k] # Nil, NEW d \in Dim
          PROVE  bal'[k][d] # Nil
      <3>1. CASE k \in KeysOf(refs) BY <3>1, <1>b, BucketAssumption
      <3>2. CASE k \notin KeysOf(refs) BY <2>2, <3>2, <1>o, <1>a DEF Untouched
      <3> QED BY <3>1, <3>2
    <2> QED BY <2>1, <2>2 DEF Untouched
  <1> QED BY <1>1, <1>2, <1>3, <1>4, <1>5, <1>6, <1>7, <1>t, <1>u DEF Accounts

(* A command of a pipeline concerns a key and a dimension of its list. *)
LEMMA CmdFacts ==
  ASSUME NEW refs \in RefLists \cup {<<>>}, NEW j \in 1 .. 2 * Len(refs)
  PROVE  CmdRef(refs, j).key \in Key /\ CmdDim(j) \in Dim
  <1>1. refs \in Seq(BucketRef) BY EnforcerAssumption
  <1>2. (j + 1) \div 2 \in 1 .. Len(refs) BY <1>1
  <1>3. refs[(j + 1) \div 2] \in BucketRef BY <1>1, <1>2
  <1> QED BY <1>3 DEF CmdRef, CmdDim, Dim, BucketRef

(* One HINCRBYFLOAT keeps the accounts: what it adds to the balance it     *)
(* takes from what is spent, and a debit is booked as unchecked.           *)
LEMMA IncrementAccounts ==
  ASSUME Accounts, NEW k \in Key, NEW d \in Dim, NEW delta \in Int,
         bal' = [bal EXCEPT ![k][d] = StoredOr(@, 0) + delta],
         spent' = [spent EXCEPT ![k][d] = @ - delta],
         unchecked' = [unchecked EXCEPT ![k][d] = @ + (IF delta < 0 THEN -delta ELSE 0)],
         UNCHANGED <<ts, now, uptime, born>>
  PROVE  Accounts'
  <1>t. /\ bal \in [Key -> [Dim -> Int \cup {Nil}]] /\ ts \in [Key -> Nat \cup {Nil}]
        /\ now \in Nat /\ uptime \in Nat
        /\ spent \in [Key -> [Dim -> Int]] /\ unchecked \in [Key -> [Dim -> Nat]]
        /\ born \in [Key -> Nat] /\ \A q \in Key : born[q] <= uptime
    BY DEF Accounts, Amount
  <1>a. NoOverspend /\ Backed /\ Untouched BY DEF Accounts
  <1>c. Cap \in [Key -> [Dim -> Nat]] /\ Rate \in [Key -> [Dim -> Nat]]
    BY EnforcerAssumption
  <1> DEFINE old == StoredOr(bal[k][d], 0)
  <1>s. old \in Int /\ (bal[k][d] # Nil => old = bal[k][d]) /\ (bal[k][d] = Nil => old = 0)
    BY <1>t DEF StoredOr
  <1>v. old >= -unchecked[k][d]
    BY <1>s, <1>t, <1>a DEF NoOverspend, Untouched
  <1>b. /\ bal'[k][d] = old + delta
        /\ spent'[k][d] = spent[k][d] - delta
        /\ unchecked'[k][d] = unchecked[k][d] + (IF delta < 0 THEN -delta ELSE 0)
    BY <1>t DEF old
  <1>o. \A q \in Key, e \in Dim : q # k \/ e # d =>
          /\ bal'[q][e] = bal[q][e]
          /\ spent'[q][e] = spent[q][e] /\ unchecked'[q][e] = unchecked[q][e]
    BY <1>t
  <1> HIDE DEF old
  <1>i. bal'[k][d] \in Int BY <1>b, <1>s
  <1>1. bal' \in [Key -> [Dim -> Int \cup {Nil}]] BY <1>t, <1>s DEF old
  <1>2. spent' \in [Key -> Amount] BY <1>t DEF Amount
  <1>3. unchecked' \in [Key -> [Dim -> Nat]] BY <1>t
  <1>4. NoOverspend'
    <2> SUFFICES ASSUME NEW q \in Key, NEW e \in Dim, bal'[q][e] # Nil
                 PROVE  bal'[q][e] >= -unchecked'[q][e]
      BY DEF NoOverspend
    <2>1. CASE q = k /\ e = d
      <3>1. unchecked[k][d] \in Nat BY <1>t
      <3> QED BY <2>1, <3>1, <1>b, <1>s, <1>v
    <2>2. CASE q # k \/ e # d BY <2>2, <1>o, <1>a DEF NoOverspend
    <2> QED BY <2>1, <2>2
  <1>5. Backed'
    <2> SUFFICES ASSUME NEW q \in Key, NEW e \in Dim, bal'[q][e] # Nil
                 PROVE  bal'[q][e] + spent'[q][e] + Rate[q][e] * Elapsed(ts[q], now)
                          <= Cap[q][e] + Rate[q][e] * (uptime - born[q])
      BY DEF Backed
    <2>1. CASE q = k /\ e = d
      <3>1. /\ spent[k][d] \in Int /\ Cap[k][d] \in Nat /\ Rate[k][d] \in Nat
            /\ uptime - born[k] \in Nat
        <4>1. uptime \in Nat /\ born[k] \in Nat /\ born[k] <= uptime BY <1>t
        <4> QED BY <4>1, <1>t, <1>c
      <3>2. bal'[k][d] + spent'[k][d] = old + spent[k][d] BY <1>b, <1>s, <3>1
      <3>3. CASE bal[k][d] # Nil
        BY <2>1, <3>2, <3>3, <1>s, <1>a DEF Backed
      <3>4. CASE bal[k][d] = Nil
        <4>1. ts[k] = Nil /\ spent[k][d] = 0 BY <3>4, <1>a DEF Untouched
        <4>2. Elapsed(ts[k], now) = 0 BY <4>1 DEF Elapsed
        <4>3. Rate[k][d] * 0 = 0 /\ Rate[k][d] * (uptime - born[k]) \in Nat BY <3>1
        <4>4. bal'[k][d] + spent'[k][d] = 0 BY <3>2, <3>4, <4>1, <1>s
        <4> QED BY <2>1, <4>2, <4>3, <4>4, <3>1
      <3> QED BY <3>3, <3>4
    <2>2. CASE q # k \/ e # d BY <2>2, <1>o, <1>a DEF Backed
    <2> QED BY <2>1, <2>2
  <1>6. Untouched'
    <2>1. bal'[k][d] # Nil BY <1>i, BucketAssumption
    <2>2. \A q \in Key, e \in Dim : bal'[q][e] = Nil =>
            spent'[q][e] = 0 /\ unchecked'[q][e] = 0
      BY <2>1, <1>o, <1>a DEF Untouched
    <2>3. \A q \in Key : ts'[q] # Nil => \A e \in Dim : bal'[q][e] # Nil
      BY <2>1, <1>o, <1>a DEF Untouched
    <2> QED BY <2>2, <2>3 DEF Untouched
  <1> QED BY <1>1, <1>2, <1>3, <1>4, <1>5, <1>6, <1>t DEF Accounts

(* The passing of time keeps the accounts of the keys that remain: one     *)
(* step of the clock adds at most one step of refill.                      *)
LEMMA TimeAccounts ==
  ASSUME Accounts, NEW K \in SUBSET Key, NEW n \in Nat, NEW up \in Nat,
         now' = n, uptime' = up,
         \/ n = now + 1 /\ up = uptime + 1
         \/ n <= now /\ up = uptime,
         Forget(K, up)
  PROVE  Accounts'
  <1>t. /\ bal \in [Key -> [Dim -> Int \cup {Nil}]] /\ ts \in [Key -> Nat \cup {Nil}]
        /\ now \in Nat /\ uptime \in Nat
        /\ spent \in [Key -> [Dim -> Int]] /\ unchecked \in [Key -> [Dim -> Nat]]
        /\ born \in [Key -> Nat] /\ \A k \in Key : born[k] <= uptime
    BY DEF Accounts, Amount
  <1>a. NoOverspend /\ Backed /\ Untouched BY DEF Accounts
  <1>c. Cap \in [Key -> [Dim -> Nat]] /\ Rate \in [Key -> [Dim -> Nat]]
    BY EnforcerAssumption
  <1>n. NoAmount \in [Dim -> Nat] /\ \A d \in Dim : NoAmount[d] = 0 BY DEF NoAmount
  <1>u. uptime <= up BY <1>t
  <1>b. \A k \in K : /\ \A d \in Dim : bal'[k][d] = Nil
                     /\ ts'[k] = Nil /\ spent'[k] = NoAmount
                     /\ unchecked'[k] = NoAmount /\ born'[k] = up
    BY DEF Forget
  <1>o. \A k \in Key \ K : /\ bal'[k] = bal[k] /\ ts'[k] = ts[k]
                           /\ spent'[k] = spent[k] /\ unchecked'[k] = unchecked[k]
                           /\ born'[k] = born[k]
    BY DEF Forget
  <1>1. bal' \in [Key -> [Dim -> Int \cup {Nil}]] BY <1>t DEF Forget
  <1>2. ts' \in [Key -> Nat \cup {Nil}] BY <1>t DEF Forget
  <1>3. spent' \in [Key -> Amount] BY <1>t, <1>n DEF Forget, Amount
  <1>4. unchecked' \in [Key -> [Dim -> Nat]] BY <1>t, <1>n DEF Forget
  <1>5. born' \in [Key -> Nat] BY <1>t DEF Forget
  <1>6. \A k \in Key : born'[k] <= uptime'
    <2> SUFFICES ASSUME NEW k \in Key PROVE born'[k] <= up OBVIOUS
    <2>1. born[k] \in Nat /\ born[k] <= uptime /\ uptime \in Nat BY <1>t
    <2> QED BY <2>1, <1>b, <1>o, <1>u
  <1>7. NoOverspend' BY <1>a, <1>b, <1>o DEF NoOverspend
  <1>8. Untouched' BY <1>a, <1>b, <1>o, <1>n DEF Untouched
  <1>9. Backed'
    <2> SUFFICES ASSUME NEW k \in Key, NEW d \in Dim, bal'[k][d] # Nil
                 PROVE  bal'[k][d] + spent'[k][d] + Rate[k][d] * Elapsed(ts'[k], n)
                          <= Cap[k][d] + Rate[k][d] * (up - born'[k])
      BY DEF Backed
    <2>1. k \in Key \ K BY <1>b
    <2> DEFINE e == Elapsed(ts[k], now)
               f == Elapsed(ts[k], n)
               R == Rate[k][d]
               age == uptime - born[k]
    <2>2. ts[k] \in Nat \cup {Nil} BY <1>t
    <2>3. e \in Nat /\ f \in Nat BY <2>2, <1>t, ElapsedType
    <2>4. R \in Nat /\ Cap[k][d] \in Nat /\ spent[k][d] \in Int /\ age \in Nat
      <3>1. born[k] \in Nat /\ born[k] <= uptime /\ uptime \in Nat BY <1>t
      <3> QED BY <3>1, <1>t, <1>c
    <2>5. bal[k][d] \in Int /\ bal[k][d] # Nil BY <2>1, <1>o, <1>t
    <2>6. bal[k][d] + spent[k][d] + R * e <= Cap[k][d] + R * age
      BY <2>5, <1>a DEF Backed
    <2>7. \/ f <= e + 1 /\ up - born[k] = age + 1
          \/ f <= e /\ up - born[k] = age
      <3>1. born[k] \in Nat /\ uptime \in Nat /\ now \in Nat BY <1>t
      <3>2. CASE n = now + 1 /\ up = uptime + 1
        BY <3>1, <3>2, <2>2, BucketAssumption DEF Elapsed
      <3>3. CASE n <= now /\ up = uptime
        BY <3>1, <3>3, <2>2, BucketAssumption DEF Elapsed
      <3> QED BY <3>2, <3>3
    <2> HIDE DEF e, f, R, age
    <2>8. R * (e + 1) = R * e + R /\ R * (age + 1) = R * age + R
          /\ R * e \in Int /\ R * f \in Int /\ R * age \in Int
      BY <2>3, <2>4
    <2>9. bal[k][d] + spent[k][d] + R * f <= Cap[k][d] + R * (up - born[k])
      <3>1. CASE f <= e + 1 /\ up - born[k] = age + 1
        <4>1. R * f <= R * (e + 1) BY <3>1, <2>3, <2>4, MulMono
        <4> QED BY <3>1, <4>1, <2>4, <2>5, <2>6, <2>8
      <3>2. CASE f <= e /\ up - born[k] = age
        <4>1. R * f <= R * e BY <3>2, <2>3, <2>4, MulMono
        <4> QED BY <3>2, <4>1, <2>4, <2>5, <2>6, <2>8
      <3> QED BY <2>7, <3>1, <3>2
    <2> QED BY <2>1, <2>9, <1>o DEF f, R
  <1> QED BY <1>1, <1>2, <1>3, <1>4, <1>5, <1>6, <1>7, <1>8, <1>9, <1>t DEF Accounts

-----------------------------------------------------------------------------
(* The part of the invariant that speaks of the reservations. *)
Reservations == resv \in [Req -> Reservation] /\ TodoOK /\ faults \in Nat

(* The invariant as two parts, of which an action often changes only one:  *)
(* the accounts of the buckets and the reservations.                       *)
LEMMA IInvParts == IInv <=> Accounts /\ Reservations
  BY DEF IInv, TypeOK, Accounts, Reservations

(* A pipeline has at most two commands per reference. *)
LEMMA CommandsType ==
  ASSUME NEW refs \in RefLists \cup {<<>>}, NEW est, NEW act
  PROVE  /\ Commands(refs, est, act) \subseteq 1 .. 2 * Len(refs)
         /\ Commands(refs, est, act) \in SUBSET Nat
  <1>1. Commands(refs, est, act) \subseteq 1 .. 2 * Len(refs) BY DEF Commands
  <1>2. CASE refs \in RefLists
    <2>1. refs \in Seq(BucketRef) BY <1>2, EnforcerAssumption
    <2> QED BY <1>1, <2>1
  <1>3. CASE refs = <<>> BY <1>1, <1>3
  <1> QED BY <1>2, <1>3

(* Replacing one reservation by a well formed one keeps them well formed.  *)
LEMMA ReservationUpdate ==
  ASSUME Reservations, NEW r \in Req, NEW v \in Reservation,
         ResvOK(v), resv' = [resv EXCEPT ![r] = v], faults' \in Nat
  PROVE  Reservations'
  <1>1. resv' \in [Req -> Reservation] BY DEF Reservations
  <1>2. resv'[r] = v /\ \A q \in Req : q # r => resv'[q] = resv[q] BY DEF Reservations
  <1>3. TodoOK' BY <1>2 DEF TodoOK, Reservations
  <1> QED BY <1>1, <1>3 DEF Reservations

(* Every step of the enforcer preserves the inductive invariant. *)
LEMMA NextIInv == IInv /\ [Next]_vars => IInv'
  <1> SUFFICES ASSUME Accounts, Reservations, [Next]_vars
               PROVE  Accounts' /\ Reservations'
    <2>1. IInv' <=> Accounts' /\ Reservations' BY DEF IInv, TypeOK, Accounts, Reservations
    <2> QED BY <2>1, IInvParts
  <1>a. ASSUME UNCHANGED <<bal, ts, now, uptime, spent, unchecked, born>> PROVE Accounts'
    BY <1>a DEF Accounts, NoOverspend, Backed, Untouched
  <1>r. ASSUME UNCHANGED resv, faults' \in Nat PROVE Reservations'
    BY <1>r DEF Reservations, TodoOK
  <1>f. faults \in Nat BY DEF Reservations
  <1>v. ASSUME NEW r \in Req
        PROVE  /\ resv[r] \in Reservation
               /\ resv[r].refs \in RefLists \cup {<<>>}
               /\ resv[r].est \in Wants \cup {NoAmount}
               /\ resv[r].act \in Actuals \cup {NoAmount}
               /\ resv[r].todo \in SUBSET Nat
               /\ resv[r].todo \subseteq 1 .. 2 * Len(resv[r].refs)
               /\ ResvOK(resv[r])
    <2>1. resv[r] \in Reservation BY DEF Reservations
    <2>2. ResvOK(resv[r]) BY DEF Reservations, TodoOK
    <2>3. resv[r].todo \subseteq Commands(resv[r].refs, resv[r].est, resv[r].act)
      BY <2>2 DEF ResvOK
    <2> QED BY <2>1, <2>2, <2>3, CommandsType DEF Reservation
  <1>1. ASSUME NEW r \in Req, NEW refs \in RefLists, NEW want \in Wants,
               Reserve(r, refs, want)
        PROVE  Accounts' /\ Reservations'
    <2> DEFINE v == [st |-> "held", refs |-> refs, est |-> want, act |-> NoAmount, todo |-> {}]
    <2>1. Accounts' BY <1>1, DebitAccounts DEF Reserve
    <2>2. v \in Reservation BY DEF Reservation, ResvState
    <2>3. ResvOK(v) BY <1>1 DEF ResvOK, Reserve, Debit, Sufficient
    <2>4. resv' = [resv EXCEPT ![r] = v] /\ faults' \in Nat BY <1>1, <1>f DEF Reserve
    <2> HIDE DEF v
    <2> QED BY <2>1, <2>2, <2>3, <2>4, ReservationUpdate
  <1>2. ASSUME NEW r \in Req, NEW act \in Actuals, Settle(r, act)
        PROVE  Accounts' /\ Reservations'
    <2> DEFINE cmds == Commands(resv[r].refs, resv[r].est, act)
               v == [resv[r] EXCEPT !.st = IF cmds = {} THEN "settled" ELSE "settling",
                                    !.act = act, !.todo = cmds]
    <2>1. cmds \subseteq 1 .. 2 * Len(resv[r].refs) /\ cmds \in SUBSET Nat
      BY <1>v, CommandsType
    <2> HIDE DEF cmds
    <2>2. v \in Reservation BY <2>1, <1>v DEF Reservation, ResvState
    <2>3. ResvOK(v)
      <3>1. resv[r].st = "held" /\ resv[r] \in Reservation BY <1>2, <1>v DEF Settle
      <3>2. /\ v.st \in {"settled", "settling"} /\ v.refs = resv[r].refs
            /\ v.est = resv[r].est /\ v.act = act /\ v.todo = cmds
            /\ v.st = "settled" => cmds = {}
        BY <3>1 DEF Reservation
      <3> HIDE DEF v
      <3> QED BY <1>v, <3>1, <3>2 DEF ResvOK, cmds
    <2>4. resv' = [resv EXCEPT ![r] = v] /\ faults' \in Nat
      BY <1>2, <1>f DEF Settle, cmds, Reservations
    <2> HIDE DEF v
    <2> QED BY <1>2, <1>a, <2>2, <2>3, <2>4, ReservationUpdate DEF Settle
  <1>3. ASSUME NEW r \in Req, Increment(r) PROVE Accounts' /\ Reservations'
    <2>1. PICK j \in resv[r].todo :
            /\ LET k == CmdRef(resv[r].refs, j).key
                   d == CmdDim(j)
                   delta == Delta(resv[r].est, resv[r].act)[d]
               IN  /\ bal' = [bal EXCEPT ![k][d] = StoredOr(@, 0) + delta]
                   /\ spent' = [spent EXCEPT ![k][d] = @ - delta]
                   /\ unchecked' = [unchecked EXCEPT ![k][d] =
                                      @ + (IF delta < 0 THEN -delta ELSE 0)]
            /\ resv' = [resv EXCEPT ![r].todo = @ \ {j}]
      BY <1>3 DEF Increment
    <2> DEFINE k == CmdRef(resv[r].refs, j).key
               d == CmdDim(j)
               delta == Delta(resv[r].est, resv[r].act)[d]
               v == [resv[r] EXCEPT !.todo = @ \ {j}]
    <2>2. j \in 1 .. 2 * Len(resv[r].refs) BY <1>v
    <2>3. k \in Key /\ d \in Dim BY <1>v, <2>2, CmdFacts
    <2>4. resv[r].est \in [Dim -> Int] /\ resv[r].act \in [Dim -> Int]
      BY <1>v, EnforcerAssumption DEF Amount, NoAmount
    <2>5. delta \in Int BY <2>3, <2>4 DEF Delta
    <2>6. UNCHANGED <<ts, now, uptime, born, faults>> BY <1>3 DEF Increment
    <2>7. /\ bal' = [bal EXCEPT ![k][d] = StoredOr(@, 0) + delta]
          /\ spent' = [spent EXCEPT ![k][d] = @ - delta]
          /\ unchecked' = [unchecked EXCEPT ![k][d] = @ + (IF delta < 0 THEN -delta ELSE 0)]
      BY <2>1
    <2>8. v \in Reservation BY <1>v DEF Reservation
    <2>9. ResvOK(v)
      <3>1. /\ v.st = resv[r].st /\ v.refs = resv[r].refs /\ v.est = resv[r].est
            /\ v.act = resv[r].act /\ v.todo \subseteq resv[r].todo
        BY <1>v DEF Reservation
      <3> HIDE DEF v
      <3> QED BY <1>v, <3>1 DEF ResvOK
    <2>10. resv' = [resv EXCEPT ![r] = v] BY <2>1 DEF Reservations
    <2> HIDE DEF k, d, delta, v
    <2>11. Accounts' BY <2>3, <2>5, <2>6, <2>7, IncrementAccounts
    <2> QED BY <2>6, <2>8, <2>9, <2>10, <2>11, <1>f, ReservationUpdate
  <1>4. ASSUME NEW r \in Req, Settled(r) \/ Abandon(r) PROVE Accounts' /\ Reservations'
    <2> DEFINE s == IF Settled(r) THEN "settled" ELSE "abandoned"
               v == [resv[r] EXCEPT !.st = s]
    <2>1. s \in ResvState BY DEF ResvState
    <2>2. resv' = [resv EXCEPT ![r] = v] /\ faults' \in Nat
      BY <1>4, <1>f DEF Settled, Abandon, Fault, Reservations
    <2> HIDE DEF s
    <2>3. v \in Reservation BY <2>1, <1>v DEF Reservation
    <2>4. ResvOK(v)
      <3>1. /\ v.st = s /\ v.refs = resv[r].refs /\ v.est = resv[r].est
            /\ v.act = resv[r].act /\ v.todo = resv[r].todo
        BY <1>v DEF Reservation
      <3>2. resv[r].st = "settling" /\ s \in {"settled", "abandoned"}
            /\ (s = "settled" => resv[r].todo = {})
        BY <1>4 DEF s, Settled, Abandon
      <3> HIDE DEF v
      <3> QED BY <1>v, <3>1, <3>2 DEF ResvOK
    <2> HIDE DEF v
    <2>5. Accounts' BY <1>4, <1>a DEF Settled, Abandon
    <2> QED BY <2>2, <2>3, <2>4, <2>5, ReservationUpdate
  <1>5. ASSUME NEW r \in Req, Replay(r) PROVE Accounts' /\ Reservations'
    <2> DEFINE cmds == Commands(resv[r].refs, resv[r].est, resv[r].act)
               v == [resv[r] EXCEPT !.todo = cmds]
    <2>1. cmds \subseteq 1 .. 2 * Len(resv[r].refs) /\ cmds \in SUBSET Nat
      BY <1>v, CommandsType
    <2>2. resv' = [resv EXCEPT ![r] = v] /\ faults' \in Nat
      BY <1>5, <1>f DEF Replay, Fault, Reservations
    <2> HIDE DEF cmds
    <2>3. v \in Reservation BY <2>1, <1>v DEF Reservation
    <2>4. ResvOK(v)
      <3>1. /\ v.st = resv[r].st /\ v.refs = resv[r].refs /\ v.est = resv[r].est
            /\ v.act = resv[r].act /\ v.todo = cmds
        BY <1>v DEF Reservation
      <3>2. resv[r].st = "settling" BY <1>5 DEF Replay
      <3> HIDE DEF v
      <3> QED BY <1>v, <3>1, <3>2 DEF ResvOK, cmds
    <2> HIDE DEF v
    <2>5. Accounts' BY <1>5, <1>a DEF Replay
    <2> QED BY <2>2, <2>3, <2>4, <2>5, ReservationUpdate
  <1>6. ASSUME NEW r \in Req, NEW refs \in RefLists, NEW want \in Wants,
               LoseReply(r, refs, want)
        PROVE  Accounts' /\ Reservations'
    <2>1. Accounts' BY <1>6, DebitAccounts DEF LoseReply
    <2>2. Reservations' BY <1>6, <1>f, <1>r DEF LoseReply, Fault
    <2> QED BY <2>1, <2>2
  <1>t. now \in Nat /\ uptime \in Nat BY DEF Accounts
  <1>7. ASSUME Tick PROVE Accounts' /\ Reservations'
    <2> DEFINE K == {k \in Key : ts[k] # Nil /\ now + 1 >= StoredOr(ts[k], 0) + TTL}
    <2>1. Forget(K, uptime + 1) /\ now' = now + 1 /\ uptime' = uptime + 1
      BY <1>7 DEF Tick
    <2>2. K \in SUBSET Key /\ now + 1 \in Nat /\ uptime + 1 \in Nat BY <1>t
    <2> HIDE DEF K
    <2>3. Accounts' BY <2>1, <2>2, TimeAccounts
    <2> QED BY <1>7, <2>3, <1>f, <1>r DEF Tick
  <1>8. ASSUME Flush PROVE Accounts' /\ Reservations'
    <2>1. Forget(Key, uptime) /\ now' = now /\ uptime' = uptime BY <1>8 DEF Flush
    <2>2. now <= now BY <1>t
    <2>3. Accounts' BY <2>1, <2>2, <1>t, TimeAccounts
    <2> QED BY <1>8, <2>3, <1>f, <1>r DEF Flush, Fault
  <1>9. ASSUME StepBack PROVE Accounts' /\ Reservations'
    <2>1. now' = now - 1 /\ uptime' = uptime /\ now - 1 \in Nat /\ now - 1 <= now
      BY <1>9, <1>t DEF StepBack
    <2>2. Forget({}, uptime)
      <3>1. /\ bal' = bal /\ ts' = ts /\ spent' = spent
            /\ unchecked' = unchecked /\ born' = born
        BY <1>9 DEF StepBack
      <3> QED BY <3>1 DEF Forget, Accounts
    <2>3. Accounts' BY <2>1, <2>2, <1>t, TimeAccounts
    <2> QED BY <1>9, <2>3, <1>f, <1>r DEF StepBack, Fault
  <1>10. ASSUME UNCHANGED vars PROVE Accounts' /\ Reservations'
    BY <1>10, <1>a, <1>r, <1>f DEF vars
  <1> QED BY <1>1, <1>2, <1>3, <1>4, <1>5, <1>6, <1>7, <1>8, <1>9, <1>10 DEF Next

-----------------------------------------------------------------------------
(* The inductive invariant holds in every reachable state. *)
THEOREM Inductive == Spec => []IInv
  BY InitIInv, NextIInv, PTL DEF Spec

(* Type correctness of the enforcer. *)
THEOREM TypeCorrect == Spec => []TypeOK
  <1>1. IInv => TypeOK BY DEF IInv
  <1> QED BY <1>1, Inductive, PTL

(* No bucket is ever overdrawn by admitted estimates: CheckAndDecrement    *)
(* debits an enforced dimension only as far as its balance reaches, under  *)
(* every interleaving of checks, settlements, expiries and faults.         *)
THEOREM NeverOverdrawn == Spec => []NoOverspend
  <1>1. IInv => NoOverspend BY DEF IInv
  <1> QED BY <1>1, Inductive, PTL

(* The invariant implies the bound on what is spent. *)
LEMMA IInvBound == IInv => SpendBound
  <1> SUFFICES ASSUME IInv, NEW k \in Key, NEW d \in Dim
               PROVE  spent[k][d] <= Cap[k][d] + Rate[k][d] * (uptime - born[k])
                                      + unchecked[k][d]
    BY DEF SpendBound
  <1>1. Accounts BY IInvParts
  <1>2. /\ bal[k][d] \in Int \cup {Nil} /\ spent[k][d] \in Int /\ unchecked[k][d] \in Nat
        /\ Cap[k][d] \in Nat /\ Rate[k][d] \in Nat /\ ts[k] \in Nat \cup {Nil}
        /\ now \in Nat
    BY <1>1, EnforcerAssumption DEF Accounts, Amount
  <1>3. uptime - born[k] \in Nat
    <2>1. uptime \in Nat /\ born[k] \in Nat /\ born[k] <= uptime BY <1>1 DEF Accounts
    <2> QED BY <2>1
  <1>4. Elapsed(ts[k], now) \in Nat BY <1>2, ElapsedType
  <1>5. Rate[k][d] * (uptime - born[k]) \in Nat /\ Rate[k][d] * Elapsed(ts[k], now) \in Nat
    BY <1>2, <1>3, <1>4
  <1>6. CASE bal[k][d] = Nil
    <2>1. spent[k][d] = 0 BY <1>1, <1>6 DEF Accounts, Untouched
    <2> QED BY <2>1, <1>2, <1>5
  <1>7. CASE bal[k][d] # Nil
    <2>1. bal[k][d] \in Int /\ bal[k][d] >= -unchecked[k][d]
      BY <1>1, <1>2, <1>7 DEF Accounts, NoOverspend
    <2>2. bal[k][d] + spent[k][d] + Rate[k][d] * Elapsed(ts[k], now)
            <= Cap[k][d] + Rate[k][d] * (uptime - born[k])
      BY <1>1, <1>7 DEF Accounts, Backed
    <2> QED BY <2>1, <2>2, <1>2, <1>5
  <1> QED BY <1>6, <1>7

(* The guarantee a budget gives: the net debits of a bucket stay within    *)
(* its limit, the refill for the time passed, and the unchecked debits.    *)
THEOREM SpendingBounded == Spec => []SpendBound
  BY IInvBound, Inductive, PTL

-----------------------------------------------------------------------------
(* Every bucket of a list has one command for each dimension. *)
LEMMA CmdExists ==
  ASSUME NEW refs \in RefLists, NEW k \in KeysOf(refs), NEW d \in Dim
  PROVE  \E j \in 1 .. 2 * Len(refs) : CmdRef(refs, j) = RefOf(refs, k) /\ CmdDim(j) = d
  <1>1. refs \in Seq(BucketRef) BY EnforcerAssumption
  <1>2. PICK i \in DOMAIN refs : RefOf(refs, k) = refs[i] BY RefFacts
  <1>3. i \in 1 .. Len(refs) /\ Len(refs) \in Nat BY <1>1
  <1>4. CASE d = "tokens"
    <2> DEFINE j == 2 * i - 1
    <2>1. j \in 1 .. 2 * Len(refs) /\ (j + 1) \div 2 = i /\ j % 2 = 1 BY <1>3
    <2>2. CmdRef(refs, j) = RefOf(refs, k) /\ CmdDim(j) = d
      BY <1>2, <1>4, <2>1 DEF CmdRef, CmdDim
    <2> QED BY <2>1, <2>2
  <1>5. CASE d = "usd"
    <2> DEFINE j == 2 * i
    <2>1. j \in 1 .. 2 * Len(refs) /\ (j + 1) \div 2 = i /\ j % 2 = 0 BY <1>3
    <2>2. CmdRef(refs, j) = RefOf(refs, k) /\ CmdDim(j) = d
      BY <1>2, <1>5, <2>1 DEF CmdRef, CmdDim
    <2> QED BY <2>1, <2>2
  <1> QED BY <1>4, <1>5 DEF Dim

(* And only one: the keys of a list are different. *)
LEMMA CmdUnique ==
  ASSUME NEW refs \in RefLists, NEW i \in 1 .. 2 * Len(refs), NEW j \in 1 .. 2 * Len(refs),
         CmdRef(refs, i).key = CmdRef(refs, j).key, CmdDim(i) = CmdDim(j)
  PROVE  i = j
  <1>1. refs \in Seq(BucketRef) /\ Len(refs) \in Nat BY EnforcerAssumption
  <1>2. (i + 1) \div 2 \in DOMAIN refs /\ (j + 1) \div 2 \in DOMAIN refs BY <1>1
  <1>3. (i + 1) \div 2 = (j + 1) \div 2 BY <1>2, EnforcerAssumption DEF CmdRef
  <1>4. i % 2 = 1 <=> j % 2 = 1 BY DEF CmdDim
  <1> QED BY <1>1, <1>3, <1>4

(* The reference of a command is the one its key has in the list. *)
LEMMA CmdRefOf ==
  ASSUME NEW refs \in RefLists, NEW j \in 1 .. 2 * Len(refs)
  PROVE  /\ CmdRef(refs, j).key \in KeysOf(refs)
         /\ RefOf(refs, CmdRef(refs, j).key) = CmdRef(refs, j)
  <1> DEFINE n == (j + 1) \div 2
  <1>1. refs \in Seq(BucketRef) /\ Len(refs) \in Nat BY EnforcerAssumption
  <1>2. n \in DOMAIN refs BY <1>1
  <1>3. CmdRef(refs, j) = refs[n] BY DEF CmdRef
  <1> HIDE DEF n
  <1>4. refs[n].key \in KeysOf(refs) BY <1>2 DEF KeysOf
  <1> DEFINE i == CHOOSE i \in DOMAIN refs : refs[i].key = refs[n].key
  <1>5. i \in DOMAIN refs /\ refs[i].key = refs[n].key BY <1>2
  <1>6. i = n BY <1>2, <1>5, EnforcerAssumption
  <1>7. RefOf(refs, refs[n].key) = refs[i] BY DEF RefOf
  <1> QED BY <1>3, <1>4, <1>6, <1>7

-----------------------------------------------------------------------------
(* The fields of a reservation. *)
LEMMA ReservationFields ==
  ASSUME NEW v \in Reservation, ResvOK(v)
  PROVE  /\ v.refs \in RefLists \cup {<<>>}
         /\ v.est \in [Dim -> Nat] /\ v.act \in [Dim -> Nat]
         /\ v.todo \subseteq Commands(v.refs, v.est, v.act)
         /\ v.todo \subseteq 1 .. 2 * Len(v.refs)
         /\ KeysOf(v.refs) # {} => v.refs \in RefLists
  <1>1. /\ v.refs \in RefLists \cup {<<>>} /\ v.est \in Wants \cup {NoAmount}
        /\ v.act \in Actuals \cup {NoAmount}
    BY DEF Reservation
  <1>2. NoAmount \in [Dim -> Nat] BY DEF NoAmount
  <1>3. v.est \in [Dim -> Int] BY <1>1, <1>2, EnforcerAssumption DEF Amount
  <1>4. \A d \in Dim : v.est[d] >= 0 BY <1>2 DEF ResvOK
  <1>5. v.est \in [Dim -> Nat] BY <1>3, <1>4
  <1>6. v.act \in [Dim -> Nat] BY <1>1, <1>2, EnforcerAssumption
  <1>7. v.todo \subseteq Commands(v.refs, v.est, v.act) BY DEF ResvOK
  <1>8. KeysOf(<<>>) = {} BY DEF KeysOf
  <1> QED BY <1>1, <1>5, <1>6, <1>7, <1>8, CommandsType

(* What a reservation accounts for is never negative. *)
LEMMA OutstandingType ==
  ASSUME NEW v \in Reservation, ResvOK(v), NEW k \in Key, NEW d \in Dim
  PROVE  Outstanding(v, k, d) \in Nat
  BY ReservationFields DEF Outstanding, Unexecuted

(* Admission: from nothing to the estimate, in every bucket of the list.   *)
LEMMA ReserveOutstanding ==
  ASSUME NEW u, u.st = "free", ResvOK(u), NEW v, v.st = "held",
         NEW k \in Key, NEW d \in Dim
  PROVE  /\ Outstanding(u, k, d) = 0
         /\ Outstanding(v, k, d) = IF k \in KeysOf(v.refs) THEN v.est[d] ELSE 0
  <1>1. KeysOf(u.refs) = {} BY DEF ResvOK, KeysOf
  <1> QED BY <1>1 DEF Outstanding, Unexecuted

(* Reconcile fills the pipeline: every bucket still has the estimate,      *)
(* since a bucket without a command is not enforced or needs no change.    *)
LEMMA SettleOutstanding ==
  ASSUME NEW u \in Reservation, ResvOK(u), u.st = "held",
         NEW v \in Reservation, ResvOK(v), v.st # "held",
         v.refs = u.refs, v.est = u.est, v.todo = Commands(v.refs, v.est, v.act),
         NEW k \in Key, NEW d \in Dim
  PROVE  Outstanding(v, k, d) = Outstanding(u, k, d)
  <1>1. CASE k \notin KeysOf(u.refs) BY <1>1 DEF Outstanding, Unexecuted
  <1>2. CASE k \in KeysOf(u.refs)
    <2>1. Outstanding(u, k, d) = u.est[d] BY <1>2 DEF Outstanding, Unexecuted
    <2>2. v.refs \in RefLists BY <1>2, ReservationFields
    <2>3. PICK j \in 1 .. 2 * Len(v.refs) : CmdRef(v.refs, j) = RefOf(v.refs, k) /\ CmdDim(j) = d
      BY <1>2, <2>2, CmdExists
    <2>4. CmdRef(v.refs, j).key = k BY <1>2, <2>2, <2>3, RefFacts
    <2>5. CASE j \in v.todo
      BY <1>2, <2>1, <2>3, <2>4, <2>5 DEF Outstanding, Unexecuted
    <2>6. CASE j \notin v.todo /\ Enforced(RefOf(v.refs, k), d)
      <3>1. Delta(v.est, v.act)[d] = 0 BY <2>3, <2>6 DEF Commands
      <3>2. v.est[d] \in Nat /\ v.act[d] \in Nat BY ReservationFields
      <3>3. v.est[d] = v.act[d] BY <3>1, <3>2 DEF Delta
      <3> QED BY <1>2, <2>1, <3>3 DEF Outstanding, Unexecuted
    <2>7. CASE ~Enforced(RefOf(v.refs, k), d)
      BY <1>2, <2>1, <2>7 DEF Outstanding, Unexecuted
    <2> QED BY <2>5, <2>6, <2>7
  <1> QED BY <1>1, <1>2

(* A command is executed: one bucket goes from the estimate to the actual  *)
(* usage in one dimension.                                                 *)
LEMMA IncrementOutstanding ==
  ASSUME NEW u \in Reservation, ResvOK(u), u.st # "held", NEW j \in u.todo,
         NEW v, v.st = u.st, v.refs = u.refs, v.est = u.est, v.act = u.act,
         v.todo = u.todo \ {j}, NEW k \in Key, NEW d \in Dim
  PROVE  Outstanding(v, k, d) = Outstanding(u, k, d)
           - (IF k = CmdRef(u.refs, j).key /\ d = CmdDim(j) THEN Delta(u.est, u.act)[d] ELSE 0)
  <1>1. /\ u.est[d] \in Nat /\ u.act[d] \in Nat
        /\ u.todo \subseteq Commands(u.refs, u.est, u.act)
        /\ u.todo \subseteq 1 .. 2 * Len(u.refs)
        /\ KeysOf(u.refs) # {} => u.refs \in RefLists
    BY ReservationFields
  <1>2. Outstanding(u, k, d) \in Nat BY OutstandingType
  <1>r. u.refs \in RefLists
    <2>1. u.refs \in RefLists \/ u.refs = <<>> BY ReservationFields
    <2>2. u.refs = <<>> => 1 .. 2 * Len(u.refs) = {} OBVIOUS
    <2> QED BY <1>1, <2>1, <2>2
  <1>3. CASE k = CmdRef(u.refs, j).key /\ d = CmdDim(j)
    <2>1. k \in KeysOf(u.refs) /\ RefOf(u.refs, k) = CmdRef(u.refs, j)
      BY <1>1, <1>r, <1>3, CmdRefOf
    <2>2. Outstanding(u, k, d) = u.est[d] BY <1>3, <2>1 DEF Outstanding, Unexecuted
    <2>3. ~ \E i \in v.todo : CmdRef(v.refs, i).key = k /\ CmdDim(i) = d
      BY <1>1, <1>r, <1>3, CmdUnique
    <2>4. Enforced(RefOf(v.refs, k), d) BY <1>1, <1>3, <2>1 DEF Commands
    <2>5. Outstanding(v, k, d) = u.act[d] BY <2>1, <2>3, <2>4 DEF Outstanding, Unexecuted
    <2> QED BY <1>1, <1>3, <2>2, <2>5 DEF Delta
  <1>4. CASE ~(k = CmdRef(u.refs, j).key /\ d = CmdDim(j))
    <2>1. (\E i \in v.todo : CmdRef(v.refs, i).key = k /\ CmdDim(i) = d)
            <=> (\E i \in u.todo : CmdRef(u.refs, i).key = k /\ CmdDim(i) = d)
      BY <1>4
    <2>2. Outstanding(v, k, d) = Outstanding(u, k, d) BY <2>1 DEF Outstanding, Unexecuted
    <2> QED BY <1>2, <1>4, <2>2
  <1> QED BY <1>3, <1>4

(* What the requests account for changes by what one of them does. *)
LEMMA AccountedUpdate ==
  ASSUME IsFiniteSet(Req), Reservations, NEW r \in Req, NEW v \in Reservation,
         ResvOK(v), resv' = [resv EXCEPT ![r] = v], NEW k \in Key, NEW d \in Dim
  PROVE  /\ Accounted(k, d) \in Int
         /\ Accounted(k, d)' = Accounted(k, d)
              + (Outstanding(v, k, d) - Outstanding(resv[r], k, d))
  <1> DEFINE e == [q \in Req |-> Outstanding(resv[q], k, d)]
             f == [q \in Req |-> Outstanding(resv'[q], k, d)]
  <1>1. \A q \in Req : resv[q] \in Reservation /\ ResvOK(resv[q])
    BY DEF Reservations, TodoOK
  <1>2. resv'[r] = v /\ \A q \in Req \ {r} : resv'[q] = resv[q] BY DEF Reservations
  <1>3. e \in [Req -> Nat] BY <1>1, OutstandingType
  <1>4. f \in [Req -> Nat] BY <1>1, <1>2, OutstandingType
  <1>5. \A q \in Req \ {r} : f[q] = e[q] BY <1>2
  <1>6. f[r] = Outstanding(v, k, d) /\ e[r] = Outstanding(resv[r], k, d) BY <1>2
  <1>7. Accounted(k, d) = SumFunction(e) BY DEF Accounted
  <1>8. Accounted(k, d)' = SumFunction(f) BY DEF Accounted
  <1>i. e \in [Req -> Int] /\ f \in [Req -> Int] BY <1>3, <1>4
  <1> HIDE DEF e, f
  <1>9. SumFunction(e) \in Int BY <1>i, SumType
  <1>10. SumFunction(f) = SumFunction(e) + (f[r] - e[r]) BY <1>i, <1>5, SumChange
  <1> QED BY <1>6, <1>7, <1>8, <1>9, <1>10
-----------------------------------------------------------------------------
(* By how much a bucket is charged for more than its requests account for. *)
Excess(k, d) == spent[k][d] - Accounted(k, d)

(* No step of a bucket in its first life makes its excess smaller, except  *)
(* a pipeline that is sent again and a data set that is lost; and as long  *)
(* as there are no faults none makes it larger.                            *)
LEMMA StepExcess ==
  ASSUME IsFiniteSet(Req), IInv, [Next]_vars, NEW k \in Key, NEW d \in Dim, born'[k] = 0
  PROVE  \/ Flush
         \/ \E r \in Req : Replay(r)
         \/ /\ born[k] = 0
            /\ Excess(k, d)' >= Excess(k, d)
            /\ faults' = 0 => Excess(k, d)' = Excess(k, d)
  <1> DEFINE Kept == /\ born[k] = 0
                     /\ Excess(k, d)' >= Excess(k, d)
                     /\ faults' = 0 => Excess(k, d)' = Excess(k, d)
  <1>i. Accounts /\ Reservations BY IInvParts
  <1>t. spent[k][d] \in Int /\ uptime \in Nat /\ now \in Nat /\ faults \in Nat
    BY <1>i DEF Accounts, Reservations, Amount
  <1>v. \A r \in Req : resv[r] \in Reservation /\ ResvOK(resv[r])
    BY <1>i DEF Reservations, TodoOK
  <1>w. Reservations'
    <2>1. IInv' BY NextIInv
    <2> QED BY <2>1 DEF IInv, TypeOK, Reservations
  <1>x. \A r \in Req : resv'[r] \in Reservation /\ ResvOK(resv'[r])
    BY <1>w DEF Reservations, TodoOK
  \* One reservation changes, and the account of k by the same amount.
  <1>u. ASSUME NEW r \in Req, NEW v, resv' = [resv EXCEPT ![r] = v], born' = born,
               spent'[k][d] = spent[k][d]
                 + (Outstanding(v, k, d) - Outstanding(resv[r], k, d))
        PROVE  Kept
    <2>1. resv'[r] = v BY <1>i, <1>u DEF Reservations
    <2>2. v \in Reservation /\ ResvOK(v) BY <1>x, <2>1
    <2>3. /\ Accounted(k, d) \in Int
          /\ Accounted(k, d)' = Accounted(k, d)
               + (Outstanding(v, k, d) - Outstanding(resv[r], k, d))
      BY <1>i, <1>u, <2>2, AccountedUpdate
    <2>4. Outstanding(v, k, d) \in Nat /\ Outstanding(resv[r], k, d) \in Nat
      BY <1>v, <2>2, OutstandingType
    <2> QED BY <1>t, <1>u, <2>3, <2>4 DEF Excess
  \* The reservations stay; the account of k may grow by a fault.
  <1>s. ASSUME resv' = resv, born'[k] = born[k], spent'[k][d] >= spent[k][d],
               spent'[k][d] \in Int, faults' = 0 => spent'[k][d] = spent[k][d]
        PROVE  Kept
    <2> DEFINE f == [r \in Req |-> Outstanding(resv[r], k, d)]
    <2>1. f \in [Req -> Int] BY <1>v, OutstandingType
    <2>2. Accounted(k, d) = SumFunction(f) /\ Accounted(k, d)' = SumFunction(f)
      BY <1>s DEF Accounted
    <2> HIDE DEF f
    <2>3. SumFunction(f) \in Int BY <2>1, SumType
    <2> QED BY <1>s, <1>t, <2>2, <2>3 DEF Excess
  <1>d. ASSUME NEW refs \in RefLists, NEW want \in Wants, Debit(refs, want)
        PROVE  /\ spent'[k][d] = spent[k][d] + (IF k \in KeysOf(refs) THEN want[d] ELSE 0)
               /\ want[d] \in Nat
    <2>1. want \in [Dim -> Int] /\ want[d] >= 0
      BY <1>d, EnforcerAssumption DEF Debit, Sufficient, Amount
    <2> QED BY <1>d, <2>1 DEF Debit
  <1>1. ASSUME NEW r \in Req, NEW refs \in RefLists, NEW want \in Wants,
               Reserve(r, refs, want)
        PROVE  Kept
    <2> DEFINE v == [st |-> "held", refs |-> refs, est |-> want, act |-> NoAmount, todo |-> {}]
    <2>1. /\ resv[r].st = "free" /\ resv' = [resv EXCEPT ![r] = v] /\ born' = born
          /\ Debit(refs, want)
      BY <1>1 DEF Reserve
    <2>2. /\ spent'[k][d] = spent[k][d] + (IF k \in KeysOf(refs) THEN want[d] ELSE 0)
          /\ want[d] \in Nat
      BY <1>d, <2>1
    <2>3. v.st = "held" /\ v.refs = refs /\ v.est = want OBVIOUS
    <2> HIDE DEF v
    <2>4. /\ Outstanding(resv[r], k, d) = 0
          /\ Outstanding(v, k, d) = IF k \in KeysOf(refs) THEN want[d] ELSE 0
      BY <1>v, <2>1, <2>3, ReserveOutstanding
    <2>5. Outstanding(v, k, d) \in Nat BY <2>2, <2>4
    <2>6. spent'[k][d] = spent[k][d] + (Outstanding(v, k, d) - Outstanding(resv[r], k, d))
      BY <2>2, <2>4, <2>5
    <2> QED BY <1>u, <2>1, <2>6
  <1>2. ASSUME NEW r \in Req, NEW act \in Actuals, Settle(r, act) PROVE Kept
    <2> DEFINE cmds == Commands(resv[r].refs, resv[r].est, act)
               v == [resv[r] EXCEPT !.st = IF cmds = {} THEN "settled" ELSE "settling",
                                    !.act = act, !.todo = cmds]
    <2>1. /\ resv[r].st = "held" /\ resv' = [resv EXCEPT ![r] = v] /\ born' = born
          /\ spent' = spent
      BY <1>2, <1>i DEF Settle, Reservations
    <2>2. resv[r] \in Reservation /\ ResvOK(resv[r]) BY <1>v
    <2>3. /\ v.st # "held" /\ v.refs = resv[r].refs /\ v.est = resv[r].est
          /\ v.act = act /\ v.todo = cmds
      BY <2>2 DEF Reservation
    <2> HIDE DEF v
    <2>4. resv'[r] = v BY <1>i, <2>1 DEF Reservations
    <2>5. v \in Reservation /\ ResvOK(v) BY <1>x, <2>4
    <2>6. Outstanding(v, k, d) = Outstanding(resv[r], k, d)
      BY <2>1, <2>2, <2>3, <2>5, SettleOutstanding
    <2>7. Outstanding(v, k, d) \in Nat BY <2>5, OutstandingType
    <2>8. spent'[k][d] = spent[k][d] + (Outstanding(v, k, d) - Outstanding(resv[r], k, d))
      BY <1>t, <2>1, <2>6, <2>7
    <2> QED BY <1>u, <2>1, <2>8
  <1>3. ASSUME NEW r \in Req, Increment(r) PROVE Kept
    <2>1. PICK j \in resv[r].todo :
            /\ LET c == CmdRef(resv[r].refs, j).key
                   e == CmdDim(j)
                   delta == Delta(resv[r].est, resv[r].act)[e]
               IN  spent' = [spent EXCEPT ![c][e] = @ - delta]
            /\ resv' = [resv EXCEPT ![r].todo = @ \ {j}]
      BY <1>3 DEF Increment
    <2> DEFINE c == CmdRef(resv[r].refs, j).key
               e == CmdDim(j)
               delta == Delta(resv[r].est, resv[r].act)
               v == [resv[r] EXCEPT !.todo = @ \ {j}]
    <2>2. resv[r] \in Reservation /\ ResvOK(resv[r]) /\ resv[r].st = "settling"
      BY <1>v, <1>3 DEF Increment
    <2>3. /\ v.st = resv[r].st /\ v.refs = resv[r].refs /\ v.est = resv[r].est
          /\ v.act = resv[r].act /\ v.todo = resv[r].todo \ {j}
      BY <2>2 DEF Reservation
    <2>4. resv' = [resv EXCEPT ![r] = v] /\ born' = born
      BY <1>3, <1>i, <2>1 DEF Reservations, Increment
    <2>5. delta[d] \in Int BY <2>2, ReservationFields DEF Delta
    <2>6. spent' = [spent EXCEPT ![c][e] = @ - delta[e]] BY <2>1
    <2>7. c \in Key /\ e \in Dim BY <2>2, ReservationFields, CmdFacts
    <2> HIDE DEF v, c, e, delta
    <2>8. spent'[k][d] = spent[k][d] - (IF k = c /\ d = e THEN delta[d] ELSE 0)
      <3>1. spent \in [Key -> [Dim -> Int]] BY <1>i DEF Accounts, Amount
      <3> QED BY <1>t, <2>5, <2>6, <2>7, <3>1
    <2>9. Outstanding(v, k, d) = Outstanding(resv[r], k, d)
            - (IF k = c /\ d = e THEN delta[d] ELSE 0)
      BY <2>2, <2>3, IncrementOutstanding DEF c, e, delta
    <2>10. Outstanding(resv[r], k, d) \in Nat BY <2>2, OutstandingType
    <2>11. spent'[k][d] = spent[k][d] + (Outstanding(v, k, d) - Outstanding(resv[r], k, d))
      BY <1>t, <2>5, <2>8, <2>9, <2>10
    <2> QED BY <1>u, <2>4, <2>11
  <1>4. ASSUME NEW r \in Req, Settled(r) \/ Abandon(r) PROVE Kept
    <2> DEFINE s == IF Settled(r) THEN "settled" ELSE "abandoned"
               v == [resv[r] EXCEPT !.st = s]
    <2>1. /\ resv' = [resv EXCEPT ![r] = v] /\ born' = born /\ spent' = spent
          /\ resv[r].st = "settling"
      BY <1>4, <1>i DEF Settled, Abandon, Reservations
    <2>2. s # "held" /\ resv[r] \in Reservation /\ ResvOK(resv[r]) BY <1>v
    <2> HIDE DEF s
    <2>3. /\ v.st = s /\ v.refs = resv[r].refs /\ v.est = resv[r].est
          /\ v.act = resv[r].act /\ v.todo = resv[r].todo
      BY <2>2 DEF Reservation
    <2> HIDE DEF v
    <2>4. Outstanding(v, k, d) = Outstanding(resv[r], k, d)
      BY <2>1, <2>2, <2>3 DEF Outstanding, Unexecuted
    <2>5. Outstanding(resv[r], k, d) \in Nat BY <2>2, OutstandingType
    <2>6. spent'[k][d] = spent[k][d] + (Outstanding(v, k, d) - Outstanding(resv[r], k, d))
      BY <1>t, <2>1, <2>4, <2>5
    <2> QED BY <1>u, <2>1, <2>6
  <1>5. ASSUME NEW r \in Req, NEW refs \in RefLists, NEW want \in Wants,
               LoseReply(r, refs, want)
        PROVE  Kept
    <2>1. Debit(refs, want) /\ resv' = resv /\ born' = born /\ faults' = faults + 1
      BY <1>5 DEF LoseReply, Fault
    <2>2. /\ spent'[k][d] = spent[k][d] + (IF k \in KeysOf(refs) THEN want[d] ELSE 0)
          /\ want[d] \in Nat
      BY <1>d, <2>1
    <2>3. spent'[k][d] \in Int /\ spent'[k][d] >= spent[k][d] /\ faults' # 0
      BY <1>t, <2>1, <2>2
    <2> QED BY <1>s, <2>1, <2>3
  \* The key that expires does not have its first life any more.
  <1>6. ASSUME Tick PROVE Kept
    <2> DEFINE K == {c \in Key : ts[c] # Nil /\ now + 1 >= StoredOr(ts[c], 0) + TTL}
    <2>1. Forget(K, uptime + 1) /\ resv' = resv BY <1>6 DEF Tick
    <2> HIDE DEF K
    <2>2. k \notin K
      <3>1. uptime + 1 # 0 BY <1>t
      <3> QED BY <2>1, <3>1 DEF Forget
    <2>3. spent'[k] = spent[k] /\ born'[k] = born[k] BY <2>1, <2>2 DEF Forget
    <2>4. spent'[k][d] >= spent[k][d] BY <1>t, <2>3
    <2> QED BY <1>s, <1>t, <2>1, <2>3, <2>4
  <1>7. ASSUME StepBack \/ UNCHANGED vars PROVE Kept
    <2>1. resv' = resv /\ born' = born /\ spent' = spent BY <1>7 DEF StepBack, vars
    <2>2. spent'[k][d] >= spent[k][d] BY <1>t, <2>1
    <2> QED BY <1>s, <1>t, <2>1, <2>2
  <1> HIDE DEF Kept
  <1>8. Flush \/ (\E r \in Req : Replay(r)) \/ Kept
    BY <1>1, <1>2, <1>3, <1>4, <1>5, <1>6, <1>7 DEF Next
  <1> QED BY <1>8 DEF Kept

(* At the start nothing is accounted for. *)
LEMMA InitAccounted ==
  ASSUME IsFiniteSet(Req), Init, NEW k \in Key, NEW d \in Dim
  PROVE  spent[k][d] = 0 /\ Accounted(k, d) = 0
  <1> DEFINE f == [r \in Req |-> Outstanding(resv[r], k, d)]
  <1>1. KeysOf(<<>>) = {} BY DEF KeysOf
  <1>2. f = [r \in Req |-> 0] BY <1>1 DEF Init, NoReservation, Outstanding
  <1>3. Accounted(k, d) = SumFunction(f) BY DEF Accounted
  <1> HIDE DEF f
  <1>4. SumFunction(f) = 0 BY <1>2, SumZero
  <1> QED BY <1>3, <1>4 DEF Init, NoAmount

(* What the requests account for is never negative. *)
LEMMA AccountedType ==
  ASSUME IsFiniteSet(Req), NEW w \in [Req -> Reservation], \A r \in Req : ResvOK(w[r]),
         NEW k \in Key, NEW d \in Dim
  PROVE  /\ SumFunction([r \in Req |-> Outstanding(w[r], k, d)]) \in Int
         /\ SumFunction([r \in Req |-> Outstanding(w[r], k, d)]) >= 0
  <1> DEFINE f == [r \in Req |-> Outstanding(w[r], k, d)]
  <1>1. f \in [Req -> Nat] BY OutstandingType
  <1> HIDE DEF f
  <1>2. f \in [Req -> Int] BY <1>1
  <1>3. SumFunction(f) \in Int /\ SumFunction(f) >= 0 BY <1>1, <1>2, SumType
  <1> QED BY <1>3 DEF f

(* The ledger is kept by every step. *)
LEMMA NextLedger ==
  ASSUME IsFiniteSet(Req), IInv, Ledger, [Next]_vars
  PROVE  Ledger'
  <1> SUFFICES ASSUME faults' = 0, NEW k \in Key, NEW d \in Dim, born'[k] = 0
               PROVE  spent'[k][d] = Accounted(k, d)'
    BY DEF Ledger
  <1>1. faults \in Nat BY DEF IInv, TypeOK
  <1>2. ~Flush /\ ~(\E r \in Req : Replay(r)) BY <1>1 DEF Flush, Replay, Fault
  <1>3. born[k] = 0 /\ Excess(k, d)' = Excess(k, d) BY <1>2, StepExcess
  <1>f. faults' = faults \/ faults' = faults + 1
    BY Zenon DEF Next, Reserve, Settle, Increment, Settled, Replay, Abandon, LoseReply, Tick,
                Flush, StepBack, Fault, vars
  <1>4. faults = 0 BY <1>1, <1>f
  <1>5. spent[k][d] = Accounted(k, d) BY <1>3, <1>4 DEF Ledger
  <1>6. Accounted(k, d) \in Int /\ spent[k][d] \in Int
    BY AccountedType DEF IInv, TypeOK, TodoOK, Accounted, Amount
  <1>7. IInv' BY NextIInv
  <1>8. Accounted(k, d)' \in Int /\ spent'[k][d] \in Int
    BY <1>7, AccountedType DEF IInv, TypeOK, TodoOK, Accounted, Amount
  <1> QED BY <1>3, <1>5, <1>6, <1>8 DEF Excess

(* Without faults counted: the charge stays at least what the requests     *)
(* account for.                                                            *)
Covered ==
  \A k \in Key, d \in Dim : born[k] = 0 => spent[k][d] >= Accounted(k, d)

(* A step keeps it so. *)
LEMMA NextCovered ==
  ASSUME IsFiniteSet(Req), "replay" \notin Faults, "flush" \notin Faults,
         IInv, Covered, [Next]_vars
  PROVE  Covered'
  <1> SUFFICES ASSUME NEW k \in Key, NEW d \in Dim, born'[k] = 0
               PROVE  spent'[k][d] >= Accounted(k, d)'
    BY DEF Covered
  <1>1. ~Flush /\ ~(\E r \in Req : Replay(r)) BY DEF Flush, Replay, Fault
  <1>2. born[k] = 0 /\ Excess(k, d)' >= Excess(k, d) BY <1>1, StepExcess
  <1>3. spent[k][d] >= Accounted(k, d) BY <1>2 DEF Covered
  <1>4. Accounted(k, d) \in Int /\ spent[k][d] \in Int
    BY AccountedType DEF IInv, TypeOK, TodoOK, Accounted, Amount
  <1>5. IInv' BY NextIInv
  <1>6. Accounted(k, d)' \in Int /\ spent'[k][d] \in Int
    BY <1>5, AccountedType DEF IInv, TypeOK, TodoOK, Accounted, Amount
  <1> QED BY <1>2, <1>3, <1>4, <1>6 DEF Excess

-----------------------------------------------------------------------------
(* Every unit missing from a bucket belongs to exactly one request, at     *)
(* every moment of every interleaving of checks and half-executed          *)
(* settlements, also when settlements fail and keys expire.                *)
THEOREM LedgerKept ==
  ASSUME IsFiniteSet(Req)
  PROVE  Spec => []Ledger
  <1>1. Init => Ledger BY InitAccounted DEF Ledger
  <1>2. IInv /\ Ledger /\ [Next]_vars => Ledger' BY NextLedger
  <1> QED BY <1>1, <1>2, Inductive, PTL DEF Spec

(* What a request has used is what it accounts for and what no increment   *)
(* has taken of it.                                                        *)
LEMMA UsageOutstanding ==
  ASSUME NEW v \in Reservation, ResvOK(v), NEW k \in Key, NEW d \in Dim
  PROVE  /\ Usage(v, k, d) \in Nat /\ Outstanding(v, k, d) \in Nat /\ Unbilled(v, k, d) \in Nat
         /\ Usage(v, k, d) <= Outstanding(v, k, d) + Unbilled(v, k, d)
  <1>1. v.est[d] \in Nat /\ v.act[d] \in Nat BY ReservationFields
  <1>2. Unbilled(v, k, d) \in Nat BY <1>1 DEF Unbilled
  <1>3. CASE k \notin KeysOf(v.refs) BY <1>2, <1>3 DEF Usage, Outstanding
  <1>4. CASE k \in KeysOf(v.refs) /\ (v.st = "held" \/ ~Enforced(RefOf(v.refs, k), d))
    <2>1. Usage(v, k, d) = v.est[d] /\ Outstanding(v, k, d) = v.est[d]
      BY <1>4 DEF Usage, Outstanding
    <2> QED BY <1>1, <1>2, <2>1
  <1>5. CASE k \in KeysOf(v.refs) /\ v.st # "held" /\ Enforced(RefOf(v.refs, k), d)
    <2>1. Usage(v, k, d) = v.act[d] BY <1>5 DEF Usage
    <2>2. Outstanding(v, k, d) = IF Unexecuted(v, k, d) THEN v.est[d] ELSE v.act[d]
      BY <1>5 DEF Outstanding
    <2>3. Unbilled(v, k, d) = IF Unexecuted(v, k, d) /\ v.act[d] > v.est[d]
                              THEN v.act[d] - v.est[d] ELSE 0
      BY DEF Unbilled
    <2> QED BY <1>1, <1>2, <2>1, <2>2, <2>3
  <1> QED BY <1>3, <1>4, <1>5

(* So a bucket that is charged for what its requests account for is        *)
(* charged for all they have used but what no increment has taken.         *)
LEMMA CoveredUsage ==
  ASSUME IsFiniteSet(Req), IInv, Covered
  PROVE  NeverUndercharged
  <1> SUFFICES ASSUME NEW k \in Key, NEW d \in Dim, born[k] = 0
               PROVE  spent[k][d] + SumFunction([r \in Req |-> Unbilled(resv[r], k, d)])
                        >= SumFunction([r \in Req |-> Usage(resv[r], k, d)])
    BY DEF NeverUndercharged
  <1> DEFINE e == [r \in Req |-> Usage(resv[r], k, d)]
             f == [r \in Req |-> Outstanding(resv[r], k, d)]
             h == [r \in Req |-> Unbilled(resv[r], k, d)]
  <1>1. \A r \in Req : resv[r] \in Reservation /\ ResvOK(resv[r]) BY DEF IInv, TypeOK, TodoOK
  <1>2. /\ e \in [Req -> Nat] /\ f \in [Req -> Nat] /\ h \in [Req -> Nat]
        /\ \A r \in Req : e[r] <= f[r] + h[r]
    BY <1>1, UsageOutstanding
  <1>3. spent[k][d] >= SumFunction(f) /\ spent[k][d] \in Int
    BY DEF Covered, Accounted, IInv, TypeOK, Amount
  <1> HIDE DEF e, f, h
  <1>4. e \in [Req -> Int] /\ f \in [Req -> Int] /\ h \in [Req -> Int] BY <1>2
  <1>5. SumFunction(e) <= SumFunction(f) + SumFunction(h) BY <1>2, <1>4, SumBelow
  <1>6. SumFunction(e) \in Int /\ SumFunction(f) \in Int /\ SumFunction(h) \in Int
    BY <1>4, SumType
  <1>7. spent[k][d] + SumFunction(h) >= SumFunction(e) BY <1>3, <1>5, <1>6
  <1> QED BY <1>7 DEF e, h

(* The charge covers what the requests account for, always. *)
LEMMA AlwaysCovered ==
  ASSUME IsFiniteSet(Req), "replay" \notin Faults, "flush" \notin Faults
  PROVE  Spec => []Covered
  <1>1. Init => Covered BY InitAccounted DEF Covered
  <1>2. IInv /\ Covered /\ [Next]_vars => Covered' BY NextCovered
  <1> QED BY <1>1, <1>2, Inductive, PTL DEF Spec

(* Unless a pipeline is sent again or data is lost, a bucket is charged    *)
(* for all that its requests have used, save what exceeds the estimate of  *)
(* a request whose settlement is under way or has failed: lost replies,    *)
(* failed settlements and steps of the clock never give an estimate away.  *)
THEOREM NoFreeCall ==
  ASSUME IsFiniteSet(Req), "replay" \notin Faults, "flush" \notin Faults
  PROVE  Spec => []NeverUndercharged
  <1>1. IInv /\ Covered => NeverUndercharged BY CoveredUsage
  <1> QED BY <1>1, AlwaysCovered, Inductive, PTL

-----------------------------------------------------------------------------
(* The refill never takes anything away, except what is above the limit.   *)
LEMMA RefilledLow ==
  ASSUME NEW b \in [Dim -> Int \cup {Nil}], NEW t \in Nat \cup {Nil}, NEW n \in Nat,
         NEW ref \in BucketRef, NEW d \in Dim
  PROVE  /\ b[d] = Nil => Refilled(b, t, ref, n, d) >= ref.limit[d]
         /\ b[d] # Nil => \/ Refilled(b, t, ref, n, d) >= b[d]
                          \/ Refilled(b, t, ref, n, d) = ref.limit[d]
  <1> DEFINE e == Elapsed(t, n)
  <1>1. e \in Nat BY ElapsedType
  <1>2. ref.limit[d] \in Nat /\ ref.rate[d] \in Nat BY DEF BucketRef
  <1>3. e * ref.rate[d] \in Nat BY <1>1, <1>2
  <1> HIDE DEF e
  <1>4. Refilled(b, t, ref, n, d) =
          IF ~Enforced(ref, d) THEN StoredOr(b[d], ref.limit[d])
          ELSE IF StoredOr(b[d], ref.limit[d]) + e * ref.rate[d] > ref.limit[d]
               THEN ref.limit[d] ELSE StoredOr(b[d], ref.limit[d]) + e * ref.rate[d]
    BY DEF Refilled, e
  <1>5. b[d] # Nil => StoredOr(b[d], ref.limit[d]) = b[d] /\ b[d] \in Int BY DEF StoredOr
  <1>6. b[d] = Nil => StoredOr(b[d], ref.limit[d]) = ref.limit[d] BY DEF StoredOr
  <1> QED BY <1>2, <1>3, <1>4, <1>5, <1>6

(* What a run of the script does to one balance. *)
LEMMA DebitBalance ==
  ASSUME Accounts, NEW refs \in RefLists, NEW want \in Wants, Debit(refs, want),
         NEW k \in Key, NEW d \in Dim
  PROVE  IF k \in KeysOf(refs)
         THEN /\ bal'[k][d] \in Int /\ want[d] \in Nat
              /\ spent'[k][d] = spent[k][d] + want[d]
              /\ bal[k][d] = Nil => bal'[k][d] >= RefOf(refs, k).limit[d] - want[d]
              /\ bal[k][d] # Nil => \/ bal'[k][d] >= bal[k][d] - want[d]
                                   \/ bal'[k][d] = RefOf(refs, k).limit[d] - want[d]
         ELSE bal'[k][d] = bal[k][d] /\ spent'[k][d] = spent[k][d]
  <1>1. /\ bal \in [Key -> [Dim -> Int \cup {Nil}]] /\ ts \in [Key -> Nat \cup {Nil}]
        /\ now \in Nat /\ spent[k][d] \in Int
    BY DEF Accounts, Amount
  <1>2. CASE k \notin KeysOf(refs)
    <2>1. spent'[k][d] = spent[k][d] + 0 BY <1>2 DEF Debit
    <2>2. bal'[k][d] = bal[k][d] BY <1>2 DEF Debit, Debited
    <2> QED BY <1>1, <1>2, <2>1, <2>2
  <1>3. CASE k \in KeysOf(refs)
    <2> DEFINE ref == RefOf(refs, k)
               R == Refilled(bal[k], ts[k], ref, now, d)
    <2>1. want \in [Dim -> Int] /\ want[d] >= 0
      BY EnforcerAssumption DEF Debit, Sufficient, Amount
    <2>2. ref \in BucketRef /\ ref.limit[d] \in Nat BY <1>3, RefFacts
    <2>3. bal'[k][d] = R - want[d] BY <1>3 DEF Debit, Debited
    <2>4. spent'[k][d] = spent[k][d] + want[d] BY <1>3 DEF Debit
    <2>5. bal[k] \in [Dim -> Int \cup {Nil}] /\ ts[k] \in Nat \cup {Nil} BY <1>1
    <2> HIDE DEF ref
    <2>6. R \in Int BY <1>1, <2>2, <2>5, RefilledFacts
    <2>7. /\ bal[k][d] = Nil => R >= ref.limit[d]
          /\ bal[k][d] # Nil => R >= bal[k][d] \/ R = ref.limit[d]
      BY <1>1, <2>2, <2>5, RefilledLow
    <2>8. bal[k][d] # Nil => bal[k][d] \in Int BY <2>5
    <2> HIDE DEF R
    <2> QED BY <1>3, <2>1, <2>2, <2>3, <2>4, <2>6, <2>7, <2>8 DEF ref
  <1> QED BY <1>2, <1>3

(* The buckets of a reservation exist. *)
Present ==
  \A r \in Req : \A k \in KeysOf(resv[r].refs) : \A d \in Dim :
    born[k] = 0 => bal[k][d] # Nil

(* The keys of a list are keys. *)
LEMMA KeysType ==
  ASSUME NEW refs \in RefLists \cup {<<>>}
  PROVE  KeysOf(refs) \subseteq Key
  <1>1. CASE refs = <<>> BY <1>1 DEF KeysOf
  <1>2. CASE refs \in RefLists
    <2>1. refs \in Seq(BucketRef) BY <1>2, EnforcerAssumption
    <2>2. \A i \in DOMAIN refs : refs[i] \in BucketRef BY <2>1
    <2> QED BY <2>2 DEF KeysOf, BucketRef
  <1> QED BY <1>1, <1>2

(* What the next command of a pipeline does, and to which bucket. *)
LEMMA IncrementFacts ==
  ASSUME Accounts, Reservations, NEW r \in Req, Increment(r)
  PROVE  \E c \in KeysOf(resv[r].refs), e \in Dim, x \in Int :
           /\ c \in Key
           /\ bal' = [bal EXCEPT ![c][e] = StoredOr(@, 0) + x]
           /\ spent' = [spent EXCEPT ![c][e] = @ - x]
           /\ born' = born
           /\ \A q \in Req : resv'[q].refs = resv[q].refs
  <1>1. PICK j \in resv[r].todo :
          /\ LET c == CmdRef(resv[r].refs, j).key
                 e == CmdDim(j)
                 delta == Delta(resv[r].est, resv[r].act)[e]
             IN  /\ bal' = [bal EXCEPT ![c][e] = StoredOr(@, 0) + delta]
                 /\ spent' = [spent EXCEPT ![c][e] = @ - delta]
          /\ resv' = [resv EXCEPT ![r].todo = @ \ {j}]
          /\ born' = born
    BY DEF Increment
  <1> DEFINE c == CmdRef(resv[r].refs, j).key
             e == CmdDim(j)
             x == Delta(resv[r].est, resv[r].act)[e]
  <1>2. resv[r] \in Reservation /\ ResvOK(resv[r]) BY DEF Reservations, TodoOK
  <1>3. /\ j \in 1 .. 2 * Len(resv[r].refs) /\ resv[r].refs \in RefLists \cup {<<>>}
        /\ resv[r].est \in [Dim -> Nat] /\ resv[r].act \in [Dim -> Nat]
    BY <1>2, ReservationFields
  <1>4. resv[r].refs \in RefLists
    <2>1. resv[r].refs = <<>> => 1 .. 2 * Len(resv[r].refs) = {} OBVIOUS
    <2> QED BY <1>3, <2>1
  <1>5. c \in KeysOf(resv[r].refs) BY <1>3, <1>4, CmdRefOf
  <1>6. c \in Key /\ e \in Dim BY <1>3, CmdFacts
  <1>7. x \in Int BY <1>3, <1>6 DEF Delta
  <1>8. \A q \in Req : resv'[q].refs = resv[q].refs
    <2>1. resv' = [resv EXCEPT ![r].todo = @ \ {j}] BY <1>1
    <2> QED BY <2>1, <1>2 DEF Reservations, Reservation
  <1>9. /\ bal' = [bal EXCEPT ![c][e] = StoredOr(@, 0) + x]
        /\ spent' = [spent EXCEPT ![c][e] = @ - x]
        /\ born' = born
    BY <1>1
  <1> HIDE DEF c, e, x
  <1> QED BY <1>5, <1>6, <1>7, <1>8, <1>9

(* A bucket in its first life keeps its fields, the buckets of a           *)
(* reservation exist, and one that exists holds its limit or more if what  *)
(* was taken from it is added.                                             *)
LEMMA NextDestroyed ==
  ASSUME IsFiniteSet(Req), "replay" \notin Faults, "flush" \notin Faults,
         \A l, m \in RefLists : \A i \in DOMAIN l : \A j \in DOMAIN m :
           l[i].key = m[j].key => l[i].limit = m[j].limit,
         IInv, Covered, Present, NothingDestroyed, [Next]_vars
  PROVE  Present' /\ NothingDestroyed'
  <1>i. Accounts /\ Reservations BY IInvParts
  <1>t. /\ bal \in [Key -> [Dim -> Int \cup {Nil}]] /\ uptime \in Nat
        /\ spent \in [Key -> [Dim -> Int]]
    BY <1>i DEF Accounts, Amount
  <1>p. \A r \in Req : \A k \in KeysOf(resv[r].refs) : k \in Key
    <2>1. \A r \in Req : resv[r].refs \in RefLists \cup {<<>>}
      BY <1>i DEF Reservations, Reservation
    <2> QED BY <2>1, KeysType
  <1>n. \A refs \in RefLists : \A i \in DOMAIN refs :
          refs[i].key \in Key /\ refs[i].limit \in [Dim -> Nat]
    <2>1. \A refs \in RefLists : refs \in Seq(BucketRef) BY EnforcerAssumption
    <2>2. \A refs \in RefLists : \A i \in DOMAIN refs : refs[i] \in BucketRef BY <2>1
    <2> QED BY <2>2 DEF BucketRef
  \* In its first life a bucket has been charged for what is not negative.
  <1>z. ASSUME NEW k \in Key, NEW d \in Dim, born[k] = 0 PROVE spent[k][d] >= 0
    <2>1. spent[k][d] >= Accounted(k, d) BY <1>z DEF Covered
    <2>2. Accounted(k, d) \in Int /\ Accounted(k, d) >= 0
      BY AccountedType DEF IInv, TypeOK, TodoOK, Accounted
    <2>3. spent[k][d] \in Int BY <1>t
    <2> QED BY <2>1, <2>2, <2>3
  \* Buckets that are forgotten are not in their first life.
  <1>f. ASSUME NEW K, resv' = resv,
               \A k \in Key \ K : /\ bal'[k] = bal[k] /\ spent'[k] = spent[k]
                                  /\ born'[k] = born[k],
               \A k \in K : born'[k] # 0
        PROVE  Present' /\ NothingDestroyed'
    <2>1. Present' BY <1>f, <1>p DEF Present
    <2>2. NothingDestroyed' BY <1>f, <1>n DEF NothingDestroyed
    <2> QED BY <2>1, <2>2
  <1>k. ASSUME \A r \in Req : resv'[r].refs = resv[r].refs,
               bal' = bal, spent' = spent, born' = born
        PROVE  Present' /\ NothingDestroyed'
    BY <1>k DEF Present, NothingDestroyed
  \* A run of the script.
  <1>d. ASSUME NEW refs \in RefLists, NEW want \in Wants, Debit(refs, want), born' = born
        PROVE  /\ NothingDestroyed'
               /\ \A k \in Key, d \in Dim :
                    k \in KeysOf(refs) \/ bal[k][d] # Nil => bal'[k][d] # Nil
    <2>1. ASSUME NEW k \in Key, NEW d \in Dim, k \in KeysOf(refs) \/ bal[k][d] # Nil
          PROVE  bal'[k][d] # Nil
      BY <1>d, <1>i, <2>1, DebitBalance, BucketAssumption
    <2>2. ASSUME NEW l \in RefLists, NEW i \in DOMAIN l, NEW d \in Dim,
                 born'[l[i].key] = 0, bal'[l[i].key][d] # Nil
          PROVE  bal'[l[i].key][d] + spent'[l[i].key][d] >= l[i].limit[d]
      <3> DEFINE k == l[i].key
                 L == l[i].limit[d]
      <3>1. k \in Key /\ L \in Nat /\ born[k] = 0 BY <1>n, <1>d, <2>2
      <3>2. spent[k][d] \in Int /\ spent[k][d] >= 0 BY <1>t, <1>z, <3>1
      <3>3. bal[k][d] # Nil => bal[k][d] + spent[k][d] >= L
        BY <3>1 DEF NothingDestroyed
      <3>4. k \in KeysOf(refs) => RefOf(refs, k).limit[d] = L
        <4> SUFFICES ASSUME k \in KeysOf(refs) PROVE RefOf(refs, k).limit[d] = L OBVIOUS
        <4>1. PICK j \in DOMAIN refs : RefOf(refs, k) = refs[j] BY RefFacts
        <4>2. RefOf(refs, k).key = k BY RefFacts
        <4> QED BY <4>1, <4>2
      <3>5. bal[k][d] # Nil => bal[k][d] \in Int BY <1>t, <3>1
      <3> HIDE DEF k, L
      <3>6. CASE k \notin KeysOf(refs)
        <4>1. bal'[k][d] = bal[k][d] /\ spent'[k][d] = spent[k][d]
          BY <1>d, <1>i, <3>1, <3>6, DebitBalance
        <4> QED BY <2>2, <3>3, <4>1 DEF k, L
      <3>7. CASE k \in KeysOf(refs)
        <4>1. /\ bal'[k][d] \in Int /\ want[d] \in Nat
              /\ spent'[k][d] = spent[k][d] + want[d]
              /\ bal[k][d] = Nil => bal'[k][d] >= L - want[d]
              /\ bal[k][d] # Nil => bal'[k][d] >= bal[k][d] - want[d] \/ bal'[k][d] = L - want[d]
          BY <1>d, <1>i, <3>1, <3>4, <3>7, DebitBalance
        <4>2. bal'[k][d] + spent'[k][d] >= L
          BY <3>1, <3>2, <3>3, <3>5, <4>1
        <4> QED BY <4>2 DEF k, L
      <3> QED BY <3>6, <3>7
    <2> QED BY <2>1, <2>2 DEF NothingDestroyed
  <1>1. ASSUME NEW r \in Req, NEW refs \in RefLists, NEW want \in Wants,
               Reserve(r, refs, want)
        PROVE  Present' /\ NothingDestroyed'
    <2>1. /\ Debit(refs, want) /\ born' = born
          /\ resv' = [resv EXCEPT ![r] = [st |-> "held", refs |-> refs, est |-> want,
                                          act |-> NoAmount, todo |-> {}]]
      BY <1>1 DEF Reserve
    <2>2. \A q \in Req : resv'[q].refs = IF q = r THEN refs ELSE resv[q].refs
      BY <2>1, <1>i DEF Reservations
    <2>3. NothingDestroyed' BY <1>d, <2>1
    <2>4. \A k \in Key, d \in Dim : k \in KeysOf(refs) \/ bal[k][d] # Nil => bal'[k][d] # Nil
      BY <1>d, <2>1
    <2>5. KeysOf(refs) \subseteq Key BY KeysType
    <2>6. Present' BY <1>p, <2>1, <2>2, <2>4, <2>5 DEF Present
    <2> QED BY <2>3, <2>6
  <1>2. ASSUME NEW r \in Req, NEW refs \in RefLists, NEW want \in Wants,
               LoseReply(r, refs, want)
        PROVE  Present' /\ NothingDestroyed'
    <2>1. Debit(refs, want) /\ born' = born /\ resv' = resv BY <1>2 DEF LoseReply
    <2>2. NothingDestroyed' BY <1>d, <2>1
    <2>3. \A k \in Key, d \in Dim : bal[k][d] # Nil => bal'[k][d] # Nil BY <1>d, <2>1
    <2>4. Present' BY <1>p, <2>1, <2>3 DEF Present
    <2> QED BY <2>2, <2>4
  <1>3. ASSUME NEW r \in Req, Increment(r) PROVE Present' /\ NothingDestroyed'
    <2>1. PICK c \in KeysOf(resv[r].refs), e \in Dim, x \in Int :
            /\ c \in Key
            /\ bal' = [bal EXCEPT ![c][e] = StoredOr(@, 0) + x]
            /\ spent' = [spent EXCEPT ![c][e] = @ - x]
            /\ born' = born
            /\ \A q \in Req : resv'[q].refs = resv[q].refs
      BY <1>i, <1>3, IncrementFacts
    <2>2. born[c] = 0 => bal[c][e] # Nil BY <2>1 DEF Present
    <2>3. bal'[c][e] = StoredOr(bal[c][e], 0) + x /\ spent'[c][e] = spent[c][e] - x
      BY <1>t, <2>1
    <2>4. \A k \in Key, d \in Dim : ~(k = c /\ d = e) =>
            bal'[k][d] = bal[k][d] /\ spent'[k][d] = spent[k][d]
      BY <1>t, <2>1
    <2>5. StoredOr(bal[c][e], 0) \in Int /\ spent[c][e] \in Int
      BY <1>t, <2>1 DEF StoredOr
    <2>6. bal'[c][e] # Nil BY <2>3, <2>5, BucketAssumption
    <2>7. Present' BY <1>p, <2>1, <2>4, <2>6 DEF Present
    <2>8. ASSUME NEW l \in RefLists, NEW i \in DOMAIN l, NEW d \in Dim,
                 born'[l[i].key] = 0, bal'[l[i].key][d] # Nil
          PROVE  bal'[l[i].key][d] + spent'[l[i].key][d] >= l[i].limit[d]
      <3> DEFINE k == l[i].key
                 L == l[i].limit[d]
      <3>1. k \in Key /\ L \in Nat /\ born[k] = 0 BY <1>n, <2>1, <2>8
      <3>2. bal[k][d] # Nil => bal[k][d] + spent[k][d] >= L
        BY <3>1 DEF NothingDestroyed
      <3> HIDE DEF k, L
      <3>3. CASE k = c /\ d = e
        <4>1. bal[k][d] # Nil /\ StoredOr(bal[k][d], 0) = bal[k][d]
          BY <2>2, <3>1, <3>3 DEF StoredOr
        <4>2. bal'[k][d] + spent'[k][d] >= L
          BY <2>3, <2>5, <3>1, <3>2, <3>3, <4>1
        <4> QED BY <4>2 DEF k, L
      <3>4. CASE ~(k = c /\ d = e)
        BY <2>4, <2>8, <3>1, <3>2, <3>4 DEF k, L
      <3> QED BY <3>3, <3>4
    <2>9. NothingDestroyed' BY <2>8 DEF NothingDestroyed
    <2> QED BY <2>7, <2>9
  <1>4. ASSUME NEW r \in Req, NEW act \in Actuals, Settle(r, act)
        PROVE  Present' /\ NothingDestroyed'
    <2>1. resv[r] \in Reservation BY <1>i DEF Reservations
    <2>2. \A q \in Req : resv'[q].refs = resv[q].refs
      BY <1>4, <1>i, <2>1 DEF Settle, Reservations, Reservation
    <2> QED BY <1>4, <1>k, <2>2 DEF Settle
  <1>5. ASSUME NEW r \in Req, Settled(r) \/ Abandon(r) PROVE Present' /\ NothingDestroyed'
    <2>1. resv[r] \in Reservation BY <1>i DEF Reservations
    <2>2. \A q \in Req : resv'[q].refs = resv[q].refs
      BY <1>5, <1>i, <2>1 DEF Settled, Abandon, Reservations, Reservation
    <2> QED BY <1>5, <1>k, <2>2 DEF Settled, Abandon
  <1>6. ASSUME Tick PROVE Present' /\ NothingDestroyed'
    <2> DEFINE K == {c \in Key : ts[c] # Nil /\ now + 1 >= StoredOr(ts[c], 0) + TTL}
    <2>1. Forget(K, uptime + 1) /\ resv' = resv /\ K \subseteq Key BY <1>6 DEF Tick
    <2> HIDE DEF K
    <2>2. uptime + 1 # 0 BY <1>t
    <2>3. \A k \in Key \ K : bal'[k] = bal[k] /\ spent'[k] = spent[k] /\ born'[k] = born[k]
      BY <2>1 DEF Forget
    <2>4. \A k \in K : born'[k] # 0 BY <2>1, <2>2 DEF Forget
    <2> QED BY <1>f, <2>1, <2>3, <2>4
  <1>7. ASSUME StepBack \/ UNCHANGED vars PROVE Present' /\ NothingDestroyed'
    <2>1. resv' = resv /\ bal' = bal /\ spent' = spent /\ born' = born
      BY <1>7 DEF StepBack, vars
    <2> QED BY <1>k, <2>1
  <1>8. ~Flush /\ \A r \in Req : ~Replay(r) BY DEF Flush, Replay, Fault
  <1> QED BY <1>1, <1>2, <1>3, <1>4, <1>5, <1>6, <1>7, <1>8 DEF Next

(* At first nothing is reserved and no bucket exists. *)
LEMMA InitDestroyed == Init => Present /\ NothingDestroyed
  <1> SUFFICES ASSUME Init PROVE Present /\ NothingDestroyed OBVIOUS
  <1>1. KeysOf(<<>>) = {} BY DEF KeysOf
  <1>2. Present BY <1>1 DEF Init, Present, NoReservation
  <1>3. ASSUME NEW refs \in RefLists, NEW i \in DOMAIN refs, NEW d \in Dim
        PROVE  bal[refs[i].key][d] = Nil
    <2>1. refs \in Seq(BucketRef) BY EnforcerAssumption
    <2>2. refs[i] \in BucketRef BY <2>1
    <2>3. refs[i].key \in Key BY <2>2 DEF BucketRef
    <2> QED BY <2>3 DEF Init
  <1> QED BY <1>2, <1>3 DEF NothingDestroyed

(* With one configuration, no data lost and no pipeline sent twice, budget *)
(* is only lost to spending: what a bucket holds and what was taken from   *)
(* it add up to the limit or more.                                         *)
THEOREM BudgetConserved ==
  ASSUME IsFiniteSet(Req), "replay" \notin Faults, "flush" \notin Faults,
         \A l, m \in RefLists : \A i \in DOMAIN l : \A j \in DOMAIN m :
           l[i].key = m[j].key => l[i].limit = m[j].limit
  PROVE  Spec => []NothingDestroyed
  <1>1. Init => Present /\ NothingDestroyed BY InitDestroyed
  <1>2. IInv /\ Covered /\ Present /\ NothingDestroyed /\ [Next]_vars
          => (Present /\ NothingDestroyed)'
    BY NextDestroyed
  <1> QED BY <1>1, <1>2, Inductive, AlwaysCovered, PTL DEF Spec

=============================================================================
