-------------------------- MODULE AuthCacheProofs ---------------------------
(***************************************************************************)
(* The bound on how long a revoked key is served, for every number of      *)
(* requests and keys and every ttl.                                        *)
(***************************************************************************)
EXTENDS AuthCache, TLAPS

(* The initial state satisfies the inductive invariant. *)
LEMMA InitIInv == Init => IInv
  <1> SUFFICES ASSUME Init PROVE IInv OBVIOUS
  <1>1. ASSUME NEW r \in Req PROVE \E k \in ApiKey : call[r] = Idle(k)
    BY DEF Init
  <1>2. TypeOK
    <2>1. \A k \in ApiKey : Idle(k) \in [st : {"idle", "verify", "accepted", "refused"},
                                         key : ApiKey, read : Nat, at : Nat]
      BY DEF Idle
    <2>2. call \in [Req -> [st : {"idle", "verify", "accepted", "refused"},
                            key : ApiKey, read : Nat, at : Nat]]
      BY <2>1 DEF Init
    <2> QED BY <2>2 DEF Init, TypeOK
  <1>3. \A k \in ApiKey : ~Revoked(k) /\ expires[k] = Never
    BY DEF Init, Revoked
  <1>4. ASSUME NEW r \in Req PROVE call[r].st = "idle" /\ call[r].at = 0
    <2>1. PICK k \in ApiKey : call[r] = Idle(k) BY <1>1
    <2> QED BY <2>1 DEF Idle
  <1>5. now = 0 BY DEF Init
  <1> QED BY <1>2, <1>3, <1>4, <1>5
          DEF IInv, RevocationBound, EntryBound, LookupBound

(* Every step preserves it. *)
LEMMA NextIInv == IInv /\ [Next]_vars => IInv'
  <1> SUFFICES ASSUME IInv, [Next]_vars PROVE IInv' OBVIOUS
  <1> USE AuthAssumption
  <1>t. /\ now \in Nat /\ revokedAt \in [ApiKey -> Nat \cup {Never}]
        /\ expires \in [ApiKey -> Nat \cup {Never}]
        /\ call \in [Req -> [st : {"idle", "verify", "accepted", "refused"}, key : ApiKey,
                             read : Nat, at : Nat]]
    BY DEF IInv, TypeOK
  <1> USE DEF IInv, TypeOK, RevocationBound, EntryBound, LookupBound, Revoked
  <1>0. ASSUME NEW r \in Req, NEW c \in [st : {"idle", "verify", "accepted", "refused"},
                                        key : ApiKey, read : Nat, at : Nat],
               call' = [call EXCEPT ![r] = c], c.at <= now,
               UNCHANGED <<now, revokedAt>>,
               expires' \in [ApiKey -> Nat \cup {Never}],
               EntryBound',
               \A k \in ApiKey : expires'[k] # Never => expires'[k] <= now + TTL,
               c.st = "verify" =>
                 /\ c.read <= now /\ now <= c.read + MaxLookup
                 /\ Revoked(c.key) => c.read <= revokedAt[c.key],
               c.st = "accepted" /\ Revoked(c.key) =>
                 c.at < revokedAt[c.key] + MaxLookup + TTL
        PROVE  IInv'
    <2>1. call'[r] = c /\ \A q \in Req : q # r => call'[q] = call[q] BY <1>0, <1>t
    <2>2. TypeOK' BY <1>0, <1>t
    <2>3. RevocationBound' BY <1>0, <2>1
    <2>4. LookupBound' BY <1>0, <2>1
    <2>5. \A q \in Req : call'[q].at <= now' BY <1>0, <2>1
    <2> QED BY <1>0, <2>2, <2>3, <2>4, <2>5
  <1>c. ASSUME NEW r \in Req
        PROVE  /\ call[r].key \in ApiKey /\ call[r].read \in Nat /\ call[r].at \in Nat
               /\ call[r].st \in {"idle", "verify", "accepted", "refused"}
    BY <1>t
  <1>1. ASSUME NEW r \in Req, Hit(r) PROVE IInv'
    <2> DEFINE c == [call[r] EXCEPT !.st = "accepted", !.at = now]
    <2>1. call' = [call EXCEPT ![r] = c] BY <1>1, <1>t DEF Hit
    <2>2. c \in [st : {"idle", "verify", "accepted", "refused"},
                 key : ApiKey, read : Nat, at : Nat] BY <1>t
    <2>3. c.st = "accepted" /\ c.at = now /\ c.key = call[r].key BY <1>t
    <2>4. expires[call[r].key] # Never /\ now < expires[call[r].key] BY <1>1 DEF Hit, Fresh
    <2>5. UNCHANGED <<now, revokedAt, expires>> BY <1>1 DEF Hit
    <2> HIDE DEF c
    <2>6. Revoked(c.key) => c.at < revokedAt[c.key] + MaxLookup + TTL
      BY <1>c, <1>t, <2>3, <2>4
    <2> QED BY <1>0, <1>t, <2>1, <2>2, <2>3, <2>5, <2>6
  <1>2. ASSUME NEW r \in Req, Lookup(r) PROVE IInv'
    <2> DEFINE s == IF Revoked(call[r].key) THEN "refused" ELSE "verify"
               c == [call[r] EXCEPT !.st = s, !.read = now, !.at = now]
    <2>1. call' = [call EXCEPT ![r] = c] BY <1>2, <1>t DEF Lookup
    <2>2. s \in {"refused", "verify"} /\ (s = "verify" => ~Revoked(call[r].key)) OBVIOUS
    <2> HIDE DEF s
    <2>3. c \in [st : {"idle", "verify", "accepted", "refused"},
                 key : ApiKey, read : Nat, at : Nat] BY <1>t, <2>2
    <2>4. c.st = s /\ c.at = now /\ c.read = now /\ c.key = call[r].key BY <1>t
    <2>5. UNCHANGED <<now, revokedAt, expires>> BY <1>2 DEF Lookup
    <2> HIDE DEF c
    <2> QED BY <1>0, <1>t, <2>1, <2>2, <2>3, <2>4, <2>5
  <1>3. ASSUME NEW r \in Req, Store(r) PROVE IInv'
    <2> DEFINE c == [call[r] EXCEPT !.st = "accepted", !.at = now]
               k == call[r].key
    <2>1. call' = [call EXCEPT ![r] = c] BY <1>3, <1>t DEF Store
    <2>2. c \in [st : {"idle", "verify", "accepted", "refused"},
                 key : ApiKey, read : Nat, at : Nat] BY <1>t
    <2>3. c.st = "accepted" /\ c.at = now /\ c.key = k BY <1>t
    <2>4. UNCHANGED <<now, revokedAt>> BY <1>3 DEF Store
    <2>5. expires' = [expires EXCEPT ![k] = now + TTL] BY <1>3 DEF Store
    <2>6. k \in ApiKey BY <1>c
    <2>7. Revoked(k) => now <= revokedAt[k] + MaxLookup
      <3>1. call[r].st = "verify" BY <1>3 DEF Store
      <3> QED BY <1>c, <1>t, <2>6, <3>1
    <2> HIDE DEF c, k
    <2>8. expires' \in [ApiKey -> Nat \cup {Never}] BY <1>t, <2>5, <2>6
    <2>9. expires'[k] = now + TTL /\ \A x \in ApiKey : x # k => expires'[x] = expires[x]
      BY <1>t, <2>5, <2>6
    <2>10. EntryBound' BY <1>t, <2>4, <2>6, <2>7, <2>9
    <2>11. \A x \in ApiKey : expires'[x] # Never => expires'[x] <= now + TTL
      BY <1>t, <2>6, <2>9
    <2>12. Revoked(k) => now < revokedAt[k] + MaxLookup + TTL BY <1>t, <2>6, <2>7
    <2> QED BY <1>0, <1>t, <2>1, <2>2, <2>3, <2>4, <2>8, <2>10, <2>11, <2>12
  <1>4. ASSUME NEW r \in Req, LookupFails(r) PROVE IInv'
    <2> DEFINE c == [call[r] EXCEPT !.st = "refused", !.at = now]
    <2>1. call' = [call EXCEPT ![r] = c] BY <1>4, <1>t DEF LookupFails
    <2>2. c \in [st : {"idle", "verify", "accepted", "refused"},
                 key : ApiKey, read : Nat, at : Nat] BY <1>t
    <2>3. c.st = "refused" /\ c.at = now BY <1>t
    <2>4. UNCHANGED <<now, revokedAt, expires>> BY <1>4 DEF LookupFails
    <2> HIDE DEF c
    <2> QED BY <1>0, <1>t, <2>1, <2>2, <2>3, <2>4
  <1>5. ASSUME NEW r \in Req, NEW k \in ApiKey, Again(r, k) PROVE IInv'
    <2>1. Idle(k) \in [st : {"idle", "verify", "accepted", "refused"},
                       key : ApiKey, read : Nat, at : Nat] BY DEF Idle
    <2>2. Idle(k).st = "idle" /\ Idle(k).at = 0 BY DEF Idle
    <2>3. call' = [call EXCEPT ![r] = Idle(k)] /\ UNCHANGED <<now, revokedAt, expires>>
      BY <1>5 DEF Again
    <2> QED BY <1>0, <1>t, <2>1, <2>2, <2>3
  <1>6. ASSUME Evict PROVE IInv'
    BY <1>6 DEF Evict
  <1>7. ASSUME NEW k \in ApiKey, Revoke(k) PROVE IInv'
    BY <1>7 DEF Revoke
  <1>8. ASSUME Tick PROVE IInv'
    BY <1>8 DEF Tick
  <1>9. ASSUME UNCHANGED vars PROVE IInv'
    BY <1>9 DEF vars
  <1> QED BY <1>1, <1>2, <1>3, <1>4, <1>5, <1>6, <1>7, <1>8, <1>9 DEF Next

(* The inductive invariant holds in every reachable state. *)
THEOREM Inductive == Spec => []IInv
  BY InitIInv, NextIInv, PTL DEF Spec

(* The cache keeps to its types: an entry has a time to live, and a call   *)
(* of Authenticate its key and its two times (auth.go:96-166).             *)
THEOREM CacheTypeCorrect == Spec => []TypeOK
  <1>1. IInv => TypeOK BY DEF IInv
  <1> QED BY <1>1, Inductive, PTL

(* A revoked key is served for less than ttl plus the duration of one      *)
(* lookup after its revocation, however the calls of Authenticate, the     *)
(* eviction and the revocation interleave.                                 *)
THEOREM RevocationTakesEffect == Spec => []RevocationBound
  <1>1. IInv => RevocationBound BY DEF IInv
  <1> QED BY <1>1, Inductive, PTL
=============================================================================
