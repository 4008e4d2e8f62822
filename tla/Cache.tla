-------------------------------- MODULE Cache --------------------------------
(***************************************************************************)
(* What the Cache interface promises its callers: a key holds its entry    *)
(* until it expires, is deleted or is replaced.  Callers run get(), set(), *)
(* del() and wrap(), a read-through that awaits between its look-up, its   *)
(* producer and its set().                                                 *)
(*                                                                         *)
(* A value is the version of what it was computed from, so that of two     *)
(* values of a key the older one can be told.  What is cached is handed    *)
(* out as a copy, the one JSON makes of it.                                *)
(***************************************************************************)
EXTENDS Naturals

CONSTANTS
    Keys,
    Callers,       \* pending calls, of any process
    Ttls,          \* ttlSeconds of a call; 0: none
    Form,          \* what a version's value is: an object JSON keeps ("plain")
                   \* or changes ("rich": a Date in it), "null" or "undefined"
    MaxVersion,    \* bound on changes of a source
    MaxNow,        \* bound on time
    Absent,        \* no entry
    Idle           \* no call

VARIABLES
    now,
    source,   \* the version each key's producer computes from
    store,    \* the entries
    call,     \* the calls under way
    answer,   \* what each caller's last call returned, till its next
    dropped,  \* the version of a key's source when it was last deleted
    raced     \* keys that had an older value on its way to set() then

vars == <<now, source, store, call, answer, dropped, raced>>

Versions == 1..MaxVersion

\* What a call returned: no value, what its own producer just made, or the
\* copy of what is cached.
Nothing == [value |-> 0, as |-> "none"]
Fresh(version) == [value |-> version, as |-> "fresh"]
Copy(version) == [value |-> version, as |-> "copy"]

Entry == [value : Versions, expires : Nat]
Call  == [op : {"get", "wrap", "set", "del"}, step : {"get", "produce", "set", "del"},
          key : Keys, ttl : Ttls, value : Versions \cup {0}]

-----------------------------------------------------------------------------
\* null and undefined in a cache are no value: stored, and read as a miss.
Read(entry) ==
    IF entry = Absent \/ Form[entry.value] \in {"null", "undefined"} THEN Nothing
    ELSE Copy(entry.value)

\* Mutant of Stored: wrap() stores what it looked up.
StoredLookup(m) == [value |-> 0, expires |-> IF m.ttl > 0 THEN now + m.ttl ELSE 0]
\* What set() stores; without a ttl it does not expire.
Stored(m) == [value |-> m.value, expires |-> IF m.ttl > 0 THEN now + m.ttl ELSE 0]

Over(entry, time) == entry # Absent /\ entry.expires # 0 /\ entry.expires <= time

Init ==
    /\ now = 0
    /\ source = [k \in Keys |-> 1]
    /\ store = [k \in Keys |-> Absent]
    /\ call = [c \in Callers |-> Idle]
    /\ answer = [c \in Callers |-> Nothing]
    /\ dropped = [k \in Keys |-> 0]
    /\ raced = {}

-----------------------------------------------------------------------------
\* get(), wrap() and del() begin; set() begins with a value computed earlier.
Begin(c, k, op, ttl) ==
    /\ call[c] = Idle
    /\ op \in {"get", "del"} => ttl = 0
    /\ call' = [call EXCEPT ![c] =
          [op |-> op, key |-> k, ttl |-> ttl,
           step |-> IF op \in {"get", "wrap"} THEN "get" ELSE op,
           value |-> IF op = "set" THEN source[k] ELSE 0]]
    /\ answer' = [answer EXCEPT ![c] = Nothing]
    /\ UNCHANGED <<now, source, dropped, raced>>

\* A call ends; get() and wrap() return a value.
Ends(c, value) ==
    /\ call' = [call EXCEPT ![c] = Idle]
    /\ answer' = [answer EXCEPT ![c] = IF call[c].op \in {"get", "wrap"} THEN value ELSE @]
    /\ UNCHANGED <<now, source>>

\* The look-up: wrap() goes on to its producer when it finds nothing.
Looks(c, found) ==
    /\ call[c] # Idle /\ call[c].step = "get"
    /\ IF call[c].op = "wrap" /\ found = Nothing
       THEN /\ call' = [call EXCEPT ![c].step = "produce"]
            /\ UNCHANGED <<now, source, answer>>
       ELSE Ends(c, found)
    /\ UNCHANGED <<dropped, raced>>

\* The producer reads its source and resolves; set() is next.
Produce(c) ==
    /\ call[c] # Idle /\ call[c].step = "produce"
    /\ call' = [call EXCEPT ![c].step = "set", ![c].value = source[call[c].key]]
    /\ UNCHANGED <<now, source, answer, dropped, raced>>

Sets(c) ==
    /\ call[c] # Idle /\ call[c].step = "set"
    /\ Ends(c, Fresh(call[c].value))
    /\ UNCHANGED <<dropped, raced>>

Deletes(c) ==
    /\ call[c] # Idle /\ call[c].step = "del"
    /\ LET k == call[c].key
           late == {d \in Callers : call[d] # Idle /\ call[d].step = "set"
                                    /\ call[d].key = k /\ call[d].value < source[k]}
       IN  /\ dropped' = [dropped EXCEPT ![k] = source[k]]
           /\ raced' = IF late = {} THEN raced \ {k} ELSE raced \cup {k}
    /\ Ends(c, Nothing)

\* A call rejects.
Rejects(c) ==
    /\ call' = [call EXCEPT ![c] = Idle]
    /\ UNCHANGED <<now, source, answer, dropped, raced>>

ProducerRejects(c) ==
    /\ call[c] # Idle /\ call[c].step = "produce"
    /\ Rejects(c)

\* What a producer computes from changes.
Changes(k) ==
    /\ source[k] < MaxVersion
    /\ source' = [source EXCEPT ![k] = @ + 1]
    /\ UNCHANGED <<now, call, answer, dropped, raced>>

TimePasses ==
    /\ now < MaxNow
    /\ now' = now + 1
    /\ UNCHANGED <<source, call, answer, dropped, raced>>

-----------------------------------------------------------------------------
Quiet ==
    \/ \E c \in Callers :
          \/ \E k \in Keys, op \in {"get", "wrap", "set", "del"}, ttl \in Ttls :
                Begin(c, k, op, ttl)
          \/ Produce(c) \/ ProducerRejects(c)
    \/ \E k \in Keys : Changes(k)

Get(c) == Looks(c, Read(store[call[c].key])) /\ UNCHANGED store

WithStored(map, m) == [map EXCEPT ![m.key] = Stored(m)]
Set(c) == Sets(c) /\ store' = WithStored(store, call[c])

Without(map, m) == [map EXCEPT ![m.key] = Absent]
Del(c) == Deletes(c) /\ store' = Without(store, call[c])

\* The backend rejects, before or after it did what it was asked.
Fails(c) ==
    /\ call[c] # Idle /\ call[c].step # "produce"
    /\ Rejects(c)
    /\ \/ UNCHANGED store
       \/ call[c].step = "set" /\ store' = WithStored(store, call[c])
       \/ call[c].step = "del" /\ store' = Without(store, call[c])

Tick ==
    /\ TimePasses
    /\ store' = [k \in Keys |-> IF Over(store[k], now + 1) THEN Absent ELSE store[k]]

Next ==
    \/ Quiet /\ UNCHANGED store
    \/ \E c \in Callers : Get(c) \/ Set(c) \/ Del(c) \/ Fails(c)
    \/ Tick

Spec == Init /\ [][Next]_vars

-----------------------------------------------------------------------------
\* A value that is older than the last del() of its key is there only because
\* it was already on its way to set() when del() came.
InvalidationHolds ==
    \A k \in Keys :
        store[k] # Absent /\ store[k].value < dropped[k] => k \in raced
=============================================================================
