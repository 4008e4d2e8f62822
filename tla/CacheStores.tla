----------------------------- MODULE CacheStores -----------------------------
(***************************************************************************)
(* The two classes behind the Cache interface.  RedisCache keeps JSON text *)
(* in Redis, which never returns an expired entry and evicts it some time  *)
(* later, and whose commands may fail.  MemoryCache keeps the objects      *)
(* themselves in a Map, and drops an expired one when somebody looks for   *)
(* it.  Their wrap() is the same.                                          *)
(***************************************************************************)
EXTENDS Naturals

CONSTANTS
    Keys, Callers, Ttls, Form, MaxVersion, MaxNow, Absent, Idle,  \* as in Cache
    WholeTtls                                                     \* whole seconds

VARIABLES
    now, source, call, answer, dropped, raced,   \* as in Cache
    backend,                                     \* the class initCache() uses
    entries,                                     \* in Redis, or in the Map
    changed                                      \* keys whose object in the Map somebody changed

vars == <<now, source, call, answer, dropped, raced, backend, entries, changed>>

\* What callers can still read.
Visible ==
    [k \in Keys |-> IF entries[k] # Absent /\ entries[k].expires # 0 /\ entries[k].expires <= now
                    THEN Absent ELSE entries[k]]

Contract == INSTANCE Cache WITH store <- Visible

ASSUME CacheAssumption ==
    /\ Ttls \subseteq Nat /\ MaxVersion \in Nat \ {0} /\ MaxNow \in Nat
    /\ Absent \notin Contract!Entry /\ Idle \notin Contract!Call

\* What a call was told: beside what the contract knows, a value as it was
\* given or as a holder changed it, and that its class refused it.
Answers ==
    [value : Contract!Versions \cup {0},
     as : {"none", "fresh", "copy", "given", "changed", "refused"}]

\* Mutant of Expired: an entry lives through the moment it expires.
ExpiredLater(entry) == entry # Absent /\ entry.expires # 0 /\ entry.expires < now
Expired(entry) == entry # Absent /\ entry.expires # 0 /\ entry.expires <= now

\* Mutant of Deleted: only what has expired is deleted.
DeletedExpired(m) == IF Expired(entries[m.key]) THEN Contract!Without(entries, m) ELSE entries
Deleted(m) == Contract!Without(entries, m)

Init ==
    /\ entries = [k \in Keys |-> Absent]
    /\ Contract!Init
    /\ backend \in {"redis", "memory"}
    /\ changed = {}

-----------------------------------------------------------------------------
Looked(k) == IF Expired(entries[k]) THEN Absent ELSE entries[k]
Finds(c, forms) ==
    /\ call[c].step = "get" /\ Looked(call[c].key) # Absent
    /\ Form[Looked(call[c].key).value] \in forms

\* A get() that meets the Map's own object when JSON's copy would be another:
\* a Date in it, undefined (which wrap() takes for a hit), or a change to it.
MeetsObject(c) ==
    \/ Finds(c, {"rich", "undefined"})
    \/ Finds(c, {"plain"}) /\ call[c].key \in changed

Held(c) ==
    IF MeetsObject(c)
    THEN [value |-> Looked(call[c].key).value,
          as |-> IF call[c].key \in changed THEN "changed" ELSE "given"]
    ELSE Contract!Read(Looked(call[c].key))

MemoryGet(c) ==
    /\ backend = "memory"
    /\ call[c] # Idle
    /\ Contract!Looks(c, Held(c))
    /\ entries' = [entries EXCEPT ![call[c].key] = Looked(call[c].key)]
    /\ changed' = {k \in changed : entries'[k] # Absent}

\* JSON.parse() of the "" that Redis has for undefined, and EX with a fraction.
Refused(c) ==
    \/ Finds(c, {"undefined"})
    \/ call[c].step = "set" /\ call[c].ttl \notin WholeTtls

RedisGet(c) ==
    /\ backend = "redis"
    /\ call[c] # Idle /\ ~Refused(c)
    /\ Contract!Looks(c, Contract!Read(Looked(call[c].key)))
    /\ UNCHANGED <<entries, changed>>

Refuses(c) ==
    /\ backend = "redis"
    /\ call[c] # Idle /\ Refused(c)
    /\ call' = [call EXCEPT ![c] = Idle]
    /\ answer' = [answer EXCEPT ![c] = [value |-> 0, as |-> "refused"]]
    /\ UNCHANGED <<now, source, dropped, raced, entries, changed>>

Set(c) ==
    /\ Contract!Sets(c)
    /\ backend = "redis" => ~Refused(c)
    /\ entries' = Contract!WithStored(entries, call[c])
    /\ changed' = changed \ {call[c].key}

Del(c) ==
    /\ Contract!Deletes(c)
    /\ entries' = Deleted(call[c])
    /\ changed' = changed \ {call[c].key}

\* Whoever gave an object to the Map, or got it from there, changes it.
Mutate(k) ==
    /\ backend = "memory"
    /\ entries[k] # Absent /\ Form[entries[k].value] \in {"plain", "rich"}
    /\ changed' = changed \cup {k}
    /\ UNCHANGED <<now, source, call, answer, dropped, raced, entries>>

\* A command is lost on its way to Redis, or its answer on the way back.
RedisFails(c) ==
    /\ backend = "redis"
    /\ call[c] # Idle /\ call[c].step # "produce"
    /\ Contract!Rejects(c)
    /\ \/ UNCHANGED entries
       \/ call[c].step = "set" /\ ~Refused(c) /\ entries' = Contract!WithStored(entries, call[c])
       \/ call[c].step = "del" /\ entries' = Deleted(call[c])
    /\ UNCHANGED changed

RedisEvicts(k) ==
    /\ backend = "redis"
    /\ Expired(entries[k])
    /\ entries' = [entries EXCEPT ![k] = Absent]
    /\ UNCHANGED <<now, source, call, answer, dropped, raced, changed>>

Next ==
    /\ \/ (Contract!Quiet \/ Contract!TimePasses) /\ UNCHANGED <<entries, changed>>
       \/ \E c \in Callers :
             MemoryGet(c) \/ RedisGet(c) \/ Set(c) \/ Del(c) \/ Refuses(c) \/ RedisFails(c)
       \/ \E k \in Keys : Mutate(k) \/ RedisEvicts(k)
    /\ UNCHANGED backend

Spec == Init /\ [][Next]_vars

-----------------------------------------------------------------------------
\* Every variable has its type, and no entry outlives the ttl it was given.
TypeOK ==
    /\ now \in 0..MaxNow
    /\ source \in [Keys -> Contract!Versions]
    /\ call \in [Callers -> Contract!Call \cup {Idle}]
    /\ answer \in [Callers -> Answers]
    /\ dropped \in [Keys -> 0..MaxVersion]
    /\ raced \subseteq Keys
    /\ backend \in {"redis", "memory"}
    /\ entries \in [Keys -> Contract!Entry \cup {Absent}]
    /\ changed \subseteq Keys
    /\ \A k \in Keys : entries[k] # Absent =>
          entries[k].expires = 0 \/ \E ttl \in Ttls : entries[k].expires <= now + ttl

\* Where a class leaves the contract, and all it may do then: the call ends,
\* with an answer of its own, and nothing else changes.
Differs(c) ==
    /\ call[c] # Idle
    /\ IF backend = "memory" THEN MeetsObject(c) ELSE Refused(c)
    /\ call' = [call EXCEPT ![c] = Idle]
    /\ \E a \in Answers : answer' = [answer EXCEPT ![c] = a]
    /\ UNCHANGED <<now, source, Visible, dropped, raced>>

\* Either class can take the other's place (lib/cache.ts) where it is asked
\* for what both can do: whatever the order of calls and the passing of time,
\* callers see what the contract allows, except when MemoryCache hands out an
\* object that JSON's copy would not equal, and when RedisCache refuses
\* undefined or a ttl that is not whole seconds.
ImplementsCache ==
    Contract!Init /\ [][Contract!Next \/ \E c \in Callers : Differs(c)]_(Contract!vars)

\* A value older than the last del() of its key is there only because it was
\* already on its way to set() when del() came.
InvalidationHolds == Contract!InvalidationHolds
=============================================================================
