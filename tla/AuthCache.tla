------------------------------ MODULE AuthCache ------------------------------
(***************************************************************************)
(* The API key cache of the gateway (gateway/internal/auth/auth.go).       *)
(* Authenticate answers from the cache while an entry is fresh; otherwise  *)
(* it reads Postgres, verifies the key with bcrypt, and only then stores   *)
(* an entry that lives for ttl from that later moment.  Requests with the  *)
(* same key, the eviction loop and the control plane's revocation all run  *)
(* concurrently with it.                                                   *)
(*                                                                         *)
(* Keys stand for whole raw keys, and a key's row is the one whose hash    *)
(* matches it.  A lookup takes at most MaxLookup ticks: the statement and  *)
(* the request context of a client that gives up end it (external).        *)
(***************************************************************************)
EXTENDS Naturals

CONSTANTS
  Req,         \* requests
  ApiKey,      \* API keys that were ever issued
  TTL,         \* Store.ttl
  MaxLookup,   \* the longest time from the read to the store
  MaxTime,     \* bound on the clock
  Never        \* no time

ASSUME AuthAssumption ==
  /\ TTL \in Nat \ {0}
  /\ MaxLookup \in Nat
  /\ MaxTime \in Nat
  /\ Never \notin Nat

VARIABLES
  now,         \* time.Now() of the gateway
  revokedAt,   \* revokedAt[k]: api_keys.revoked_at
  expires,     \* expires[k]: expiresAt of k's cache entry, Never without one
  call         \* call[r]: the call of Authenticate for request r

vars == <<now, revokedAt, expires, call>>

(* st: "idle", "verify" between the read and the store, "accepted" or      *)
(* "refused"; read: when the key's row was read; at: when it was answered. *)
Idle(k) == [st |-> "idle", key |-> k, read |-> 0, at |-> 0]

Init ==
  /\ now = 0
  /\ revokedAt = [k \in ApiKey |-> Never]
  /\ expires = [k \in ApiKey |-> Never]
  /\ call \in [Req -> {Idle(k) : k \in ApiKey}]

(* Mutant of Fresh: an entry is used for as long as it is in the cache. *)
FreshUntilEvicted(k) == expires[k] # Never

Fresh(k) == expires[k] # Never /\ now < expires[k]
Revoked(k) == revokedAt[k] # Never

-----------------------------------------------------------------------------
(* Mutant of Hit: every use of an entry prolongs it. *)
HitProlongs(r) ==
  /\ call[r].st = "idle" /\ Fresh(call[r].key)
  /\ expires' = [expires EXCEPT ![call[r].key] = now + TTL]
  /\ call' = [call EXCEPT ![r].st = "accepted", ![r].at = now]
  /\ UNCHANGED <<now, revokedAt>>

(* A cache hit. *)
Hit(r) ==
  /\ call[r].st = "idle" /\ Fresh(call[r].key)
  /\ call' = [call EXCEPT ![r].st = "accepted", ![r].at = now]
  /\ UNCHANGED <<now, revokedAt, expires>>

(* A miss: lookupAndVerify reads the rows that are not revoked. *)
Lookup(r) ==
  /\ call[r].st = "idle" /\ ~Fresh(call[r].key)
  /\ call' = [call EXCEPT ![r].st = IF Revoked(call[r].key) THEN "refused" ELSE "verify",
                          ![r].read = now, ![r].at = now]
  /\ UNCHANGED <<now, revokedAt, expires>>

(* The key matched: the entry is stored and the request authenticated. *)
Store(r) ==
  /\ call[r].st = "verify"
  /\ expires' = [expires EXCEPT ![call[r].key] = now + TTL]
  /\ call' = [call EXCEPT ![r].st = "accepted", ![r].at = now]
  /\ UNCHANGED <<now, revokedAt>>

(* Mutant of LookupFails: an error that is neither a yes nor a no. *)
LookupFailsUnanswered(r) ==
  /\ call[r].st = "verify"
  /\ call' = [call EXCEPT ![r].st = "error", ![r].at = now]
  /\ UNCHANGED <<now, revokedAt, expires>>

(* The lookup fails: Postgres is unavailable or the client left. *)
LookupFails(r) ==
  /\ call[r].st = "verify"
  /\ call' = [call EXCEPT ![r].st = "refused", ![r].at = now]
  /\ UNCHANGED <<now, revokedAt, expires>>

(* The connection's next request, with any key. *)
Again(r, k) ==
  /\ call[r].st \in {"accepted", "refused"}
  /\ call' = [call EXCEPT ![r] = Idle(k)]
  /\ UNCHANGED <<now, revokedAt, expires>>

(* evictExpired *)
Evict ==
  /\ expires' = [k \in ApiKey |-> IF expires[k] # Never /\ now > expires[k]
                                    THEN Never ELSE expires[k]]
  /\ UNCHANGED <<now, revokedAt, call>>

(* The control plane revokes a key. *)
Revoke(k) ==
  /\ ~Revoked(k)
  /\ revokedAt' = [revokedAt EXCEPT ![k] = now]
  /\ UNCHANGED <<now, expires, call>>

Tick ==
  /\ now < MaxTime
  /\ \A r \in Req : call[r].st = "verify" => now < call[r].read + MaxLookup
  /\ now' = now + 1
  /\ UNCHANGED <<revokedAt, expires, call>>

Next ==
  \/ \E r \in Req : Hit(r) \/ Lookup(r) \/ Store(r) \/ LookupFails(r)
  \/ \E r \in Req, k \in ApiKey : Again(r, k)
  \/ Evict
  \/ \E k \in ApiKey : Revoke(k)
  \/ Tick

Spec == Init /\ [][Next]_vars

-----------------------------------------------------------------------------
TypeOK ==
  /\ now \in Nat
  /\ revokedAt \in [ApiKey -> Nat \cup {Never}]
  /\ expires \in [ApiKey -> Nat \cup {Never}]
  /\ call \in [Req -> [st : {"idle", "verify", "accepted", "refused"}, key : ApiKey,
                       read : Nat, at : Nat]]

(* A revoked key is served for less than ttl and one lookup after it was   *)
(* revoked, although the row is read before and the entry is stored after  *)
(* the verification, and requests with the same key race with each other   *)
(* and with the eviction.                                                  *)
RevocationBound ==
  \A r \in Req : call[r].st = "accepted" /\ Revoked(call[r].key) =>
    call[r].at < revokedAt[call[r].key] + MaxLookup + TTL

(* The parts of its inductive invariant: how long an entry can outlive the *)
(* revocation of its key, and how old a lookup under way can be.           *)
EntryBound ==
  \A k \in ApiKey : expires[k] # Never /\ Revoked(k) =>
    expires[k] <= revokedAt[k] + MaxLookup + TTL

LookupBound ==
  \A r \in Req : call[r].st = "verify" =>
    /\ call[r].read <= now /\ now <= call[r].read + MaxLookup
    /\ Revoked(call[r].key) => call[r].read <= revokedAt[call[r].key]

(* The inductive invariant of RevocationBound; an entry of a key that is   *)
(* not revoked lives for at most ttl from now.                             *)
IInv ==
  /\ TypeOK
  /\ RevocationBound
  /\ EntryBound
  /\ LookupBound
  /\ \A k \in ApiKey : expires[k] # Never => expires[k] <= now + TTL
  /\ \A k \in ApiKey : Revoked(k) => revokedAt[k] <= now
  /\ \A r \in Req : call[r].at <= now

=============================================================================
