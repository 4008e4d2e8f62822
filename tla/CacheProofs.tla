----------------------------- MODULE CacheProofs -----------------------------
(***************************************************************************)
(* Theorems about the two cache classes, for every set of keys, callers,   *)
(* times to live and forms of values.                                      *)
(***************************************************************************)
EXTENDS CacheStores, TLAPS

\* A call on its way to set() has a value.
SetsValues ==
    \A c \in Callers : call[c] # Idle /\ call[c].step = "set"
                          => call[c].value \in Contract!Versions

TypeInv == TypeOK /\ SetsValues

-----------------------------------------------------------------------------
\* What set() stores is an entry, not over yet, that expires in time.
LEMMA StoredFacts ==
    ASSUME NEW m \in Contract!Call, m.value \in Contract!Versions, now \in Nat
    PROVE  /\ Contract!Stored(m) \in Contract!Entry
           /\ Contract!Stored(m).value = m.value
           /\ Contract!Stored(m).expires = 0 \/ Contract!Stored(m).expires = now + m.ttl
           /\ ~(Contract!Stored(m).expires # 0 /\ Contract!Stored(m).expires <= now)
  <1>1. m.ttl \in Nat
    BY CacheAssumption DEF Contract!Call
  <1> QED  BY <1>1 DEF Contract!Stored, Contract!Entry

\* Each step of a call keeps its type.
LEMMA CallFacts ==
    ASSUME NEW m \in Contract!Call
    PROVE  /\ m.key \in Keys /\ m.ttl \in Ttls /\ m # Idle
           /\ [m EXCEPT !.step = "produce"] \in Contract!Call
           /\ [m EXCEPT !.step = "produce"].step = "produce"
           /\ \A v \in Contract!Versions :
                 /\ [m EXCEPT !.step = "set", !.value = v] \in Contract!Call
                 /\ [m EXCEPT !.step = "set", !.value = v].value = v
                 /\ [m EXCEPT !.step = "set", !.value = v].key = m.key
  BY CacheAssumption DEF Contract!Call

\* What the contract tells a caller is an answer.
LEMMA ReadFacts ==
    /\ Contract!Nothing \in Answers
    /\ \A v \in Contract!Versions : Contract!Fresh(v) \in Answers /\ Contract!Copy(v) \in Answers
    /\ \A e \in Contract!Entry \cup {Absent} : Contract!Read(e) \in Answers
  <1>1. Contract!Nothing \in Answers
    BY DEF Contract!Nothing, Answers
  <1>2. \A v \in Contract!Versions : Contract!Fresh(v) \in Answers /\ Contract!Copy(v) \in Answers
    BY DEF Contract!Fresh, Contract!Copy, Answers
  <1>3. ASSUME NEW e \in Contract!Entry \cup {Absent} PROVE Contract!Read(e) \in Answers
    <2>1. CASE e = Absent
      BY <1>1, <2>1 DEF Contract!Read
    <2>2. CASE e \in Contract!Entry
      <3>1. e.value \in Contract!Versions
        BY <2>2 DEF Contract!Entry
      <3> QED  BY <1>1, <1>2, <3>1 DEF Contract!Read
    <2> QED  BY <2>1, <2>2
  <1> QED  BY <1>1, <1>2, <1>3

\* A call that is under way is a Call.
LEMMA UnderWay ==
    ASSUME TypeInv, NEW c \in Callers, call[c] # Idle
    PROVE  call[c] \in Contract!Call
  BY DEF TypeInv, TypeOK

\* A call that moves to a well-formed one, or ends, keeps the calls typed.
LEMMA CallMoves ==
    ASSUME TypeInv, NEW c \in Callers, NEW m \in Contract!Call \cup {Idle},
           call' = [call EXCEPT ![c] = m],
           m # Idle /\ m.step = "set" => m.value \in Contract!Versions
    PROVE  call' \in [Callers -> Contract!Call \cup {Idle}] /\ SetsValues'
  BY DEF TypeInv, TypeOK, SetsValues

\* What get() leaves of an entry, and what it returns.
LEMMA LookedFacts ==
    ASSUME TypeInv, NEW k \in Keys
    PROVE  /\ Looked(k) \in {Absent, entries[k]}
           /\ Looked(k) \in Contract!Entry \cup {Absent}
           /\ Contract!Read(Looked(k)) \in Answers
  <1>1. entries[k] \in Contract!Entry \cup {Absent}
    BY DEF TypeInv, TypeOK
  <1>2. Looked(k) \in {Absent, entries[k]}
    BY DEF Looked
  <1> QED  BY <1>1, <1>2, ReadFacts

\* What MemoryCache hands out of its Map is an answer.
LEMMA HeldFacts ==
    ASSUME TypeInv, NEW c \in Callers, call[c].key \in Keys
    PROVE  Held(c) \in Answers
  <1> DEFINE k == call[c].key
  <1>1. Looked(k) \in Contract!Entry \cup {Absent} /\ Contract!Read(Looked(k)) \in Answers
    BY LookedFacts
  <1>2. CASE MeetsObject(c)
    <2>1. Looked(k) \in Contract!Entry
      BY <1>1, <1>2 DEF MeetsObject, Finds
    <2>2. Looked(k).value \in Contract!Versions
      BY <2>1 DEF Contract!Entry
    <2>3. Held(c) = [value |-> Looked(k).value, as |-> IF k \in changed THEN "changed" ELSE "given"]
      BY <1>2 DEF Held
    <2> QED  BY <2>2, <2>3 DEF Answers
  <1>3. CASE ~MeetsObject(c)
    BY <1>1, <1>3 DEF Held
  <1> QED  BY <1>2, <1>3

\* An entry that is put, or taken, keeps the entries typed.
LEMMA EntryMoves ==
    ASSUME TypeInv, NEW k \in Keys, NEW e \in Contract!Entry \cup {Absent},
           e # Absent => e.expires = 0 \/ \E ttl \in Ttls : e.expires <= now + ttl,
           entries' = [entries EXCEPT ![k] = e], UNCHANGED now
    PROVE  /\ entries' \in [Keys -> Contract!Entry \cup {Absent}]
           /\ \A i \in Keys : entries'[i] # Absent =>
                 entries'[i].expires = 0 \/ \E ttl \in Ttls : entries'[i].expires <= now' + ttl
  BY DEF TypeInv, TypeOK

\* set() puts a well-formed entry.
LEMMA StoreMoves ==
    ASSUME TypeInv, NEW m \in Contract!Call, m.value \in Contract!Versions,
           entries' = Contract!WithStored(entries, m), UNCHANGED now
    PROVE  /\ entries' \in [Keys -> Contract!Entry \cup {Absent}]
           /\ \A i \in Keys : entries'[i] # Absent =>
                 entries'[i].expires = 0 \/ \E ttl \in Ttls : entries'[i].expires <= now' + ttl
  <1> DEFINE e == Contract!Stored(m)
  <1>1. /\ m.key \in Keys /\ m.ttl \in Ttls /\ m.ttl \in Nat
        /\ now \in Nat
    <2>1. Ttls \subseteq Nat /\ MaxNow \in Nat
      BY CacheAssumption
    <2>2. m.key \in Keys /\ m.ttl \in Ttls
      BY DEF Contract!Call
    <2>3. now \in Nat
      BY <2>1 DEF TypeInv, TypeOK
    <2> QED  BY <2>1, <2>2, <2>3
  <1>2. e \in Contract!Entry /\ (e.expires = 0 \/ e.expires = now + m.ttl)
    BY <1>1, StoredFacts
  <1>3. entries' = [entries EXCEPT ![m.key] = e]
    BY DEF Contract!WithStored
  <1> HIDE DEF e
  <1>4. e.expires = 0 \/ \E ttl \in Ttls : e.expires <= now + ttl
    BY <1>1, <1>2
  <1> QED  BY <1>1, <1>2, <1>3, <1>4, EntryMoves

\* del() takes the entry away.
LEMMA DeleteMoves ==
    ASSUME TypeInv, NEW m \in Contract!Call, entries' = Deleted(m), UNCHANGED now
    PROVE  /\ entries' \in [Keys -> Contract!Entry \cup {Absent}]
           /\ \A i \in Keys : entries'[i] # Absent =>
                 entries'[i].expires = 0 \/ \E ttl \in Ttls : entries'[i].expires <= now' + ttl
  <1>1. m.key \in Keys /\ entries' = [entries EXCEPT ![m.key] = Absent]
    BY CallFacts DEF Deleted, Contract!Without
  <1> QED  BY <1>1, EntryMoves

\* Nothing is cached and nobody calls.
LEMMA InitTypeInv == Init => TypeInv
  <1> SUFFICES ASSUME Init PROVE TypeInv
    OBVIOUS
  <1>1. MaxNow \in Nat /\ MaxVersion \in Nat \ {0}
    BY CacheAssumption
  <1>2. TypeOK
    BY <1>1, ReadFacts DEF Init, Contract!Init, TypeOK, Contract!Versions
  <1>3. SetsValues
    BY DEF Init, Contract!Init, SetsValues
  <1> QED  BY <1>2, <1>3 DEF TypeInv

\* A step that leaves the entries alone, or puts or takes one.
LEMMA NextTypeInv == TypeInv /\ [Next]_vars => TypeInv'
  <1> SUFFICES ASSUME TypeInv, [Next]_vars PROVE TypeInv'
    OBVIOUS
  <1> USE DEF TypeInv
  <1>m. MaxNow \in Nat /\ MaxVersion \in Nat \ {0} /\ Ttls \subseteq Nat
    BY CacheAssumption
  <1>1. ASSUME NEW c \in Callers, NEW k \in Keys,
               NEW op \in {"get", "wrap", "set", "del"}, NEW ttl \in Ttls,
               Contract!Begin(c, k, op, ttl), UNCHANGED <<entries, changed, backend>>
        PROVE  TypeInv'
    <2> DEFINE m == [op |-> op, key |-> k, ttl |-> ttl,
                     step |-> IF op \in {"get", "wrap"} THEN "get" ELSE op,
                     value |-> IF op = "set" THEN source[k] ELSE 0]
    <2>1. m \in Contract!Call /\ (m.step = "set" => m.value \in Contract!Versions)
      BY DEF TypeOK, Contract!Call
    <2>2. call' = [call EXCEPT ![c] = m]
      BY <1>1 DEF Contract!Begin
    <2> HIDE DEF m
    <2>3. TypeOK'
      BY <1>1, <2>1, <2>2, ReadFacts DEF Contract!Begin, TypeOK
    <2>4. SetsValues'
      BY <1>1, <2>1, <2>2 DEF Contract!Begin, TypeOK, SetsValues
    <2> QED  BY <2>3, <2>4
  <1>2. ASSUME NEW c \in Callers, Contract!Produce(c), UNCHANGED <<entries, changed, backend>>
        PROVE  TypeInv'
    <2> DEFINE m == [call[c] EXCEPT !.step = "set", !.value = source[call[c].key]]
    <2>1. call[c] \in Contract!Call
      BY <1>2, UnderWay DEF Contract!Produce
    <2>2. source[call[c].key] \in Contract!Versions
      BY <2>1, CallFacts DEF TypeOK
    <2>3. m \in Contract!Call /\ m.value \in Contract!Versions
      BY <2>1, <2>2, CallFacts
    <2>4. call' = [call EXCEPT ![c] = m]
      BY <1>2 DEF Contract!Produce
    <2> HIDE DEF m
    <2>5. TypeOK'
      BY <1>2, <2>3, <2>4 DEF Contract!Produce, TypeOK
    <2>6. SetsValues'
      BY <1>2, <2>3, <2>4 DEF Contract!Produce, TypeOK, SetsValues
    <2> QED  BY <2>5, <2>6
  <1>3. ASSUME NEW c \in Callers, Contract!ProducerRejects(c), UNCHANGED <<entries, changed, backend>>
        PROVE  TypeInv'
    <2>1. TypeOK'
      BY <1>3 DEF Contract!ProducerRejects, Contract!Rejects, TypeOK
    <2>2. SetsValues'
      BY <1>3 DEF Contract!ProducerRejects, Contract!Rejects, TypeOK, SetsValues
    <2> QED  BY <2>1, <2>2
  <1>4. ASSUME NEW k \in Keys, Contract!Changes(k), UNCHANGED <<entries, changed, backend>>
        PROVE  TypeInv'
    <2>1. source[k] + 1 \in Contract!Versions
      BY <1>4, <1>m DEF Contract!Changes, TypeOK, Contract!Versions
    <2>2. TypeOK'
      BY <1>4, <2>1 DEF Contract!Changes, TypeOK
    <2>3. SetsValues'
      BY <1>4 DEF Contract!Changes, SetsValues
    <2> QED  BY <2>2, <2>3
  <1>5. ASSUME Contract!TimePasses, UNCHANGED <<entries, changed, backend>>
        PROVE  TypeInv'
    <2>1. now' \in 0..MaxNow /\ now' = now + 1 /\ now \in Nat
      BY <1>5, <1>m DEF Contract!TimePasses, TypeOK
    <2>2. ASSUME NEW k \in Keys, entries[k] # Absent
          PROVE  entries[k].expires = 0 \/ \E ttl \in Ttls : entries[k].expires <= now' + ttl
      BY <1>m, <2>1, <2>2 DEF TypeOK, Contract!Entry
    <2>3. TypeOK'
      BY <1>5, <2>1, <2>2 DEF Contract!TimePasses, TypeOK
    <2>4. SetsValues'
      BY <1>5 DEF Contract!TimePasses, SetsValues
    <2> QED  BY <2>3, <2>4
  <1>6. ASSUME NEW c \in Callers, NEW found \in Answers, Contract!Looks(c, found),
               entries' = entries \/ entries' = [entries EXCEPT ![call[c].key] = Looked(call[c].key)],
               changed' \subseteq changed, UNCHANGED backend
        PROVE  TypeInv'
    <2> DEFINE k == call[c].key
               m == [call[c] EXCEPT !.step = "produce"]
               miss == call[c].op = "wrap" /\ found = Contract!Nothing
    <2>1. call[c] \in Contract!Call /\ k \in Keys
      BY <1>6, UnderWay, CallFacts DEF Contract!Looks
    <2>2. m \in Contract!Call /\ m.step = "produce"
      BY <2>1, CallFacts
    <2>3. /\ call' = [call EXCEPT ![c] = IF miss THEN m ELSE Idle]
          /\ answer' = answer
             \/ answer' = [answer EXCEPT ![c] = IF call[c].op \in {"get", "wrap"} THEN found ELSE @]
          /\ UNCHANGED <<now, source, dropped, raced>>
      BY <1>6 DEF Contract!Looks, Contract!Ends
    <2>4. entries' = entries \/ entries' = [entries EXCEPT ![k] = Absent]
      BY <1>6, <2>1, LookedFacts DEF TypeOK
    <2> HIDE DEF m, k, miss
    <2>5. call' \in [Callers -> Contract!Call \cup {Idle}] /\ SetsValues'
      <3>1. CASE miss
        BY <2>2, <2>3, <3>1, CallMoves
      <3>2. CASE ~miss
        BY <2>3, <3>2, CallMoves
      <3> QED  BY <3>1, <3>2
    <2>6. answer' \in [Callers -> Answers]
      BY <2>3 DEF TypeOK
    <2>7. /\ entries' \in [Keys -> Contract!Entry \cup {Absent}]
          /\ \A i \in Keys : entries'[i] # Absent =>
                entries'[i].expires = 0 \/ \E ttl \in Ttls : entries'[i].expires <= now' + ttl
      <3>1. CASE entries' = entries
        BY <2>3, <3>1 DEF TypeOK
      <3>2. CASE entries' = [entries EXCEPT ![k] = Absent]
        BY <2>1, <2>3, <3>2, EntryMoves
      <3> QED  BY <2>4, <3>1, <3>2
    <2> QED  BY <1>6, <2>3, <2>5, <2>6, <2>7 DEF TypeOK
  <1>7. ASSUME NEW c \in Callers, Set(c), UNCHANGED backend
        PROVE  TypeInv'
    <2> DEFINE m == call[c]
    <2>1. m \in Contract!Call /\ m.value \in Contract!Versions
      BY <1>7, UnderWay DEF Set, Contract!Sets, SetsValues
    <2>2. /\ call' = [call EXCEPT ![c] = Idle]
          /\ answer' = [answer EXCEPT ![c] = IF m.op \in {"get", "wrap"}
                                             THEN Contract!Fresh(m.value) ELSE @]
          /\ UNCHANGED <<now, source, dropped, raced>>
          /\ entries' = Contract!WithStored(entries, m)
          /\ changed' \subseteq changed
      BY <1>7 DEF Set, Contract!Sets, Contract!Ends
    <2> HIDE DEF m
    <2>3. call' \in [Callers -> Contract!Call \cup {Idle}] /\ SetsValues'
      BY <2>2, CallMoves
    <2>4. Contract!Fresh(m.value) \in Answers
      BY <2>1, ReadFacts
    <2>5. answer' \in [Callers -> Answers]
      BY <2>2, <2>4 DEF TypeOK
    <2>6. /\ entries' \in [Keys -> Contract!Entry \cup {Absent}]
          /\ \A i \in Keys : entries'[i] # Absent =>
                entries'[i].expires = 0 \/ \E ttl \in Ttls : entries'[i].expires <= now' + ttl
      BY <2>1, <2>2, StoreMoves
    <2> QED  BY <1>7, <2>2, <2>3, <2>5, <2>6 DEF TypeOK
  <1>8. ASSUME NEW c \in Callers, Del(c), UNCHANGED backend
        PROVE  TypeInv'
    <2>1. call[c] \in Contract!Call /\ call[c].key \in Keys
      BY <1>8, UnderWay, CallFacts DEF Del, Contract!Deletes
    <2>2. /\ call' = [call EXCEPT ![c] = Idle]
          /\ answer' = [answer EXCEPT ![c] = IF call[c].op \in {"get", "wrap"}
                                             THEN Contract!Nothing ELSE @]
          /\ UNCHANGED <<now, source>>
          /\ dropped' = [dropped EXCEPT ![call[c].key] = source[call[c].key]]
          /\ raced' \in {raced \ {call[c].key}, raced \cup {call[c].key}}
          /\ entries' = Deleted(call[c])
          /\ changed' \subseteq changed
      BY <1>8 DEF Del, Contract!Deletes, Contract!Ends
    <2>3. call' \in [Callers -> Contract!Call \cup {Idle}] /\ SetsValues'
      BY <2>2, CallMoves
    <2>4. answer' \in [Callers -> Answers]
      BY <2>2, ReadFacts DEF TypeOK
    <2>5. dropped' \in [Keys -> 0..MaxVersion] /\ raced' \subseteq Keys
      BY <1>m, <2>1, <2>2 DEF TypeOK, Contract!Versions
    <2>6. /\ entries' \in [Keys -> Contract!Entry \cup {Absent}]
          /\ \A i \in Keys : entries'[i] # Absent =>
                entries'[i].expires = 0 \/ \E ttl \in Ttls : entries'[i].expires <= now' + ttl
      BY <2>1, <2>2, DeleteMoves
    <2> QED  BY <1>8, <2>2, <2>3, <2>4, <2>5, <2>6 DEF TypeOK
  <1>9. ASSUME NEW c \in Callers, RedisFails(c), UNCHANGED backend
        PROVE  TypeInv'
    <2>1. call[c] \in Contract!Call
      BY <1>9, UnderWay DEF RedisFails
    <2>2. /\ call' = [call EXCEPT ![c] = Idle]
          /\ UNCHANGED <<now, source, answer, dropped, raced, changed>>
      BY <1>9 DEF RedisFails, Contract!Rejects
    <2>3. call' \in [Callers -> Contract!Call \cup {Idle}] /\ SetsValues'
      BY <2>2, CallMoves
    <2>4. /\ entries' \in [Keys -> Contract!Entry \cup {Absent}]
          /\ \A i \in Keys : entries'[i] # Absent =>
                entries'[i].expires = 0 \/ \E ttl \in Ttls : entries'[i].expires <= now' + ttl
      <3>1. CASE UNCHANGED entries
        BY <2>2, <3>1 DEF TypeOK
      <3>2. CASE call[c].step = "set" /\ entries' = Contract!WithStored(entries, call[c])
        <4>1. call[c].value \in Contract!Versions
          BY <1>9, <3>2 DEF RedisFails, SetsValues
        <4> QED  BY <2>1, <2>2, <3>2, <4>1, StoreMoves
      <3>3. CASE call[c].step = "del" /\ entries' = Deleted(call[c])
        BY <2>1, <2>2, <3>3, DeleteMoves
      <3> QED  BY <1>9, <3>1, <3>2, <3>3 DEF RedisFails
    <2> QED  BY <1>9, <2>2, <2>3, <2>4 DEF TypeOK
  <1>10. ASSUME NEW k \in Keys, RedisEvicts(k), UNCHANGED backend
         PROVE  TypeInv'
    <2>1. /\ entries' = [entries EXCEPT ![k] = Absent]
          /\ UNCHANGED <<now, source, call, answer, dropped, raced, changed>>
      BY <1>10 DEF RedisEvicts
    <2>2. /\ entries' \in [Keys -> Contract!Entry \cup {Absent}]
          /\ \A i \in Keys : entries'[i] # Absent =>
                entries'[i].expires = 0 \/ \E ttl \in Ttls : entries'[i].expires <= now' + ttl
      BY <2>1, EntryMoves
    <2> QED  BY <1>10, <2>1, <2>2 DEF TypeOK, SetsValues
  <1>11. ASSUME NEW c \in Callers, MemoryGet(c), UNCHANGED backend
         PROVE  TypeInv'
    <2>1. call[c].key \in Keys
      BY <1>11, UnderWay, CallFacts DEF MemoryGet
    <2>2. Held(c) \in Answers
      BY <2>1, HeldFacts
    <2> QED  BY <1>6, <1>11, <2>2 DEF MemoryGet
  <1>12. ASSUME NEW c \in Callers, RedisGet(c), UNCHANGED backend
         PROVE  TypeInv'
    <2>1. call[c].key \in Keys
      BY <1>12, UnderWay, CallFacts DEF RedisGet
    <2>2. Contract!Read(Looked(call[c].key)) \in Answers
      BY <2>1, LookedFacts
    <2> QED  BY <1>6, <1>12, <2>2 DEF RedisGet
  <1>13. ASSUME NEW c \in Callers, Refuses(c), UNCHANGED backend
         PROVE  TypeInv'
    <2>1. /\ call' = [call EXCEPT ![c] = Idle]
          /\ answer' = [answer EXCEPT ![c] = [value |-> 0, as |-> "refused"]]
          /\ UNCHANGED <<now, source, dropped, raced, entries, changed>>
      BY <1>13 DEF Refuses
    <2>2. call' \in [Callers -> Contract!Call \cup {Idle}] /\ SetsValues'
      BY <2>1, CallMoves
    <2>3. [value |-> 0, as |-> "refused"] \in Answers
      BY DEF Answers
    <2> QED  BY <1>13, <2>1, <2>2, <2>3 DEF TypeOK
  <1>14. ASSUME NEW k \in Keys, Mutate(k), UNCHANGED backend
         PROVE  TypeInv'
    BY <1>14 DEF Mutate, TypeOK, SetsValues
  <1>15. CASE UNCHANGED vars
    BY <1>15 DEF vars, TypeOK, SetsValues
  <1> QED  BY <1>1, <1>2, <1>3, <1>4, <1>5, <1>7, <1>8, <1>9, <1>10, <1>11, <1>12, <1>13,
              <1>14, <1>15
           DEF Next, Contract!Quiet

\* Type correctness of both classes, with the bound that matters to callers:
\* an entry expires within the ttl of some call, or was stored without one.
THEOREM CacheTypeCorrect == Spec => []TypeOK
  <1>1. TypeInv => TypeOK
    BY DEF TypeInv
  <1> QED  BY <1>1, InitTypeInv, NextTypeInv, PTL DEF Spec

\* The invariant the other theorems use.
LEMMA CacheTyping == Spec => []TypeInv
  BY InitTypeInv, NextTypeInv, PTL DEF Spec

-----------------------------------------------------------------------------
\* What get() hands to its caller is what the contract's store holds.
LEMMA LookedVisible ==
    \A k \in Keys : Looked(k) = Visible[k]
  BY DEF Looked, Expired, Visible

\* As long as time stands still, unchanged entries look unchanged, and so do
\* entries from which only one that is over went away.
LEMMA SameVisible ==
    ASSUME TypeInv, UNCHANGED now,
           UNCHANGED entries
           \/ \E k \in Keys : entries' = [entries EXCEPT ![k] = Looked(k)]
    PROVE  UNCHANGED Visible
  <1>1. CASE UNCHANGED entries
    BY <1>1 DEF Visible
  <1>2. ASSUME NEW k \in Keys, entries' = [entries EXCEPT ![k] = Looked(k)]
        PROVE  UNCHANGED Visible
    BY <1>2 DEF TypeInv, TypeOK, Looked, Expired, Visible
  <1> QED  BY <1>1, <1>2

\* set() and del() do to what callers see what they do to the entries: what is
\* stored is not over yet.
LEMMA VisibleStored ==
    ASSUME TypeInv, NEW m \in Contract!Call, m.value \in Contract!Versions,
           UNCHANGED now, entries' = Contract!WithStored(entries, m)
    PROVE  Visible' = Contract!WithStored(Visible, m)
  <1> DEFINE e == Contract!Stored(m)
  <1>1. now \in Nat
    BY CacheAssumption DEF TypeInv, TypeOK
  <1>2. ~(e.expires # 0 /\ e.expires <= now)
    BY <1>1, StoredFacts
  <1>3. entries' = [entries EXCEPT ![m.key] = e]
    BY DEF Contract!WithStored
  <1> HIDE DEF e
  <1>4. Visible' = [Visible EXCEPT ![m.key] = e]
    BY <1>2, <1>3 DEF TypeInv, TypeOK, Visible
  <1> QED  BY <1>4 DEF Contract!WithStored, e

\* What is deleted is not seen any more.
LEMMA VisibleDeleted ==
    ASSUME TypeInv, NEW m \in Contract!Call, UNCHANGED now, entries' = Deleted(m)
    PROVE  Visible' = Contract!Without(Visible, m)
  BY DEF TypeInv, TypeOK, Deleted, Contract!Without, Visible

\* Time hides the entries that are over by then.
LEMMA VisibleTicks ==
    ASSUME TypeInv, now' = now + 1, UNCHANGED entries
    PROVE  Visible' = [k \in Keys |-> IF Contract!Over(Visible[k], now + 1)
                                     THEN Absent ELSE Visible[k]]
  <1>1. now \in Nat
    BY CacheAssumption DEF TypeInv, TypeOK
  <1>2. \A k \in Keys : entries[k] # Absent => entries[k].expires \in Nat
    BY DEF TypeInv, TypeOK, Contract!Entry
  <1> QED  BY <1>1, <1>2 DEF Visible, Contract!Over

\* A look-up that finds what the contract's store holds is the contract's.
LEMMA LookImplements ==
    ASSUME TypeInv, NEW c \in Callers, call[c] # Idle,
           Contract!Looks(c, Contract!Read(Looked(call[c].key))),
           UNCHANGED entries
           \/ entries' = [entries EXCEPT ![call[c].key] = Looked(call[c].key)]
    PROVE  Contract!Get(c)
  <1>1. call[c].key \in Keys
    BY UnderWay, CallFacts
  <1>2. UNCHANGED now
    BY DEF Contract!Looks, Contract!Ends
  <1>3. UNCHANGED Visible
    BY <1>1, <1>2, SameVisible
  <1>4. Contract!Looks(c, Contract!Read(Visible[call[c].key]))
    BY <1>1, LookedVisible
  <1> QED  BY <1>3, <1>4 DEF Contract!Get

\* A look-up that meets an object in the Map ends with it.
LEMMA ObjectDiffers ==
    ASSUME TypeInv, NEW c \in Callers, MemoryGet(c), MeetsObject(c)
    PROVE  Differs(c)
  <1>1. call[c].key \in Keys
    BY UnderWay, CallFacts DEF MemoryGet
  <1>2. Held(c) \in Answers /\ answer[c] \in Answers
    BY <1>1, HeldFacts DEF TypeInv, TypeOK
  <1>3. Held(c) # Contract!Nothing
    <2>1. Held(c).as \in {"changed", "given"}
      BY DEF Held
    <2> QED  BY <2>1 DEF Contract!Nothing
  <1>4. /\ call' = [call EXCEPT ![c] = Idle]
        /\ answer' = [answer EXCEPT ![c] = IF call[c].op \in {"get", "wrap"} THEN Held(c) ELSE @]
        /\ UNCHANGED <<now, source, dropped, raced>>
    BY <1>3 DEF MemoryGet, Contract!Looks, Contract!Ends
  <1>5. \E a \in Answers : answer' = [answer EXCEPT ![c] = a]
    BY <1>2, <1>4
  <1>6. UNCHANGED Visible
    BY <1>1, <1>4, SameVisible DEF MemoryGet
  <1> QED  BY <1>4, <1>5, <1>6 DEF MemoryGet, Differs

\* Each step of the classes is a step of the contract, or hidden from it, or
\* the end of a call for which they are known to differ.
LEMMA StepImplements ==
    TypeInv /\ [Next]_vars => [Contract!Next \/ \E c \in Callers : Differs(c)]_(Contract!vars)
  <1> SUFFICES ASSUME TypeInv, [Next]_vars
               PROVE  [Contract!Next \/ \E c \in Callers : Differs(c)]_(Contract!vars)
    OBVIOUS
  <1>1. ASSUME Contract!Quiet, UNCHANGED entries PROVE Contract!Next
    <2>1. UNCHANGED now
      BY <1>1 DEF Contract!Quiet, Contract!Begin, Contract!Produce, Contract!ProducerRejects,
                  Contract!Rejects, Contract!Changes
    <2>2. UNCHANGED Visible
      BY <1>1, <2>1, SameVisible
    <2> QED  BY <1>1, <2>2 DEF Contract!Next
  <1>2. ASSUME Contract!TimePasses, UNCHANGED entries PROVE Contract!Next
    <2>1. now' = now + 1
      BY <1>2 DEF Contract!TimePasses
    <2> QED  BY <1>2, <2>1, VisibleTicks DEF Contract!Next, Contract!Tick
  <1>3. ASSUME NEW c \in Callers, MemoryGet(c), ~MeetsObject(c) PROVE Contract!Next
    <2>1. Held(c) = Contract!Read(Looked(call[c].key))
      BY <1>3 DEF Held
    <2> QED  BY <1>3, <2>1, LookImplements DEF MemoryGet, Contract!Next
  <1>9. ASSUME NEW c \in Callers, RedisGet(c) PROVE Contract!Next
    BY <1>9, LookImplements DEF RedisGet, Contract!Next
  <1>10. ASSUME NEW c \in Callers, Refuses(c) PROVE Differs(c)
    <2>1. [value |-> 0, as |-> "refused"] \in Answers
      BY DEF Answers
    <2>2. UNCHANGED Visible
      BY <1>10, SameVisible DEF Refuses
    <2> QED  BY <1>10, <2>1, <2>2 DEF Refuses, Differs
  <1>11. ASSUME NEW k \in Keys, Mutate(k) PROVE UNCHANGED Contract!vars
    <2>1. UNCHANGED Visible
      BY <1>11, SameVisible DEF Mutate
    <2> QED  BY <1>11, <2>1 DEF Mutate, Contract!vars
  <1>4. ASSUME NEW c \in Callers, Set(c) PROVE Contract!Next
    <2>1. call[c] \in Contract!Call /\ call[c].value \in Contract!Versions
      BY <1>4, UnderWay DEF Set, Contract!Sets, TypeInv, SetsValues
    <2>2. UNCHANGED now
      BY <1>4 DEF Set, Contract!Sets, Contract!Ends
    <2>3. Visible' = Contract!WithStored(Visible, call[c])
      BY <1>4, <2>1, <2>2, VisibleStored DEF Set
    <2> QED  BY <1>4, <2>3 DEF Set, Contract!Next, Contract!Set
  <1>5. ASSUME NEW c \in Callers, Del(c) PROVE Contract!Next
    <2>1. call[c] \in Contract!Call
      BY <1>5, UnderWay DEF Del, Contract!Deletes
    <2>2. UNCHANGED now
      BY <1>5 DEF Del, Contract!Deletes, Contract!Ends
    <2>3. Visible' = Contract!Without(Visible, call[c])
      BY <1>5, <2>1, <2>2, VisibleDeleted DEF Del
    <2> QED  BY <1>5, <2>3 DEF Del, Contract!Next, Contract!Del
  <1>6. ASSUME NEW c \in Callers, RedisFails(c) PROVE Contract!Next
    <2>1. call[c] \in Contract!Call /\ UNCHANGED now
      BY <1>6, UnderWay DEF RedisFails, Contract!Rejects
    <2>2. \/ UNCHANGED Visible
          \/ call[c].step = "set" /\ Visible' = Contract!WithStored(Visible, call[c])
          \/ call[c].step = "del" /\ Visible' = Contract!Without(Visible, call[c])
      <3>1. CASE UNCHANGED entries
        BY <2>1, <3>1, SameVisible
      <3>2. CASE call[c].step = "set" /\ entries' = Contract!WithStored(entries, call[c])
        <4>1. call[c].value \in Contract!Versions
          BY <1>6, <3>2 DEF RedisFails, TypeInv, SetsValues
        <4> QED  BY <2>1, <3>2, <4>1, VisibleStored
      <3>3. CASE call[c].step = "del" /\ entries' = Deleted(call[c])
        BY <2>1, <3>3, VisibleDeleted
      <3> QED  BY <1>6, <3>1, <3>2, <3>3 DEF RedisFails
    <2>3. Contract!Fails(c)
      BY <1>6, <2>2 DEF RedisFails, Contract!Fails
    <2> QED  BY <2>3 DEF Contract!Next
  <1>7. ASSUME NEW k \in Keys, RedisEvicts(k) PROVE UNCHANGED Contract!vars
    <2>1. entries' = [entries EXCEPT ![k] = Looked(k)]
      BY <1>7 DEF RedisEvicts, Looked
    <2>2. UNCHANGED Visible
      BY <1>7, <2>1, SameVisible DEF RedisEvicts
    <2> QED  BY <1>7, <2>2 DEF RedisEvicts, Contract!vars
  <1>8. CASE UNCHANGED vars
    <2>1. UNCHANGED <<now, entries>>
      BY <1>8 DEF vars
    <2>2. UNCHANGED Visible
      BY <2>1, SameVisible
    <2> QED  BY <1>8, <2>2 DEF vars, Contract!vars
  <1> QED  BY <1>1, <1>2, <1>3, <1>4, <1>5, <1>6, <1>7, <1>8, <1>9, <1>10, <1>11, ObjectDiffers
           DEF Next

\* ImplementsCache: RedisCache, with its commands failing half-way and its
\* evictions at any time, and MemoryCache, with its lazy expiry, keep the one
\* contract of the Cache interface, but for calls that end on an object of the
\* Map which JSON's copy would not equal, or that Redis or JSON.parse() refuse.
THEOREM ClassesImplementCache == Spec => ImplementsCache
  <1>1. Init => Contract!Init
    BY DEF Init
  <1> QED  BY <1>1, StepImplements, CacheTyping, PTL DEF Spec, ImplementsCache, Contract!Spec

-----------------------------------------------------------------------------
\* What makes InvalidationHolds inductive: a value on its way to set() that is
\* older than the last del() of its key was on its way then.
DropsNoted ==
    /\ \A k \in Keys : dropped[k] <= source[k]
    /\ \A c \in Callers :
          call[c] # Idle /\ call[c].step = "set" /\ call[c].value < dropped[call[c].key]
             => call[c].key \in raced
    /\ \A k \in Keys : entries[k] # Absent /\ entries[k].value < dropped[k] => k \in raced

\* Nothing is deleted, and nothing on its way.
LEMMA InitDrops == Init => DropsNoted
  BY DEF Init, Contract!Init, DropsNoted

\* A value that set() stores, or that a producer computes, is as old as its
\* source allows; del() notes the older ones that are still on their way.
LEMMA NextDrops == TypeInv /\ DropsNoted /\ [Next]_vars => DropsNoted'
  <1> SUFFICES ASSUME TypeInv, DropsNoted, [Next]_vars PROVE DropsNoted'
    OBVIOUS
  <1> USE DEF DropsNoted
  <1>t. /\ call \in [Callers -> Contract!Call \cup {Idle}]
        /\ entries \in [Keys -> Contract!Entry \cup {Absent}]
        /\ source \in [Keys -> Nat] /\ dropped \in [Keys -> Nat]
    BY DEF TypeInv, TypeOK, Contract!Versions
  <1>1. ASSUME NEW c \in Callers, NEW k \in Keys,
               NEW op \in {"get", "wrap", "set", "del"}, NEW ttl \in Ttls,
               Contract!Begin(c, k, op, ttl), UNCHANGED entries
        PROVE  DropsNoted'
    <2> DEFINE m == [op |-> op, key |-> k, ttl |-> ttl,
                     step |-> IF op \in {"get", "wrap"} THEN "get" ELSE op,
                     value |-> IF op = "set" THEN source[k] ELSE 0]
    <2>1. m.step = "set" => ~(m.value < dropped[m.key])
      BY <1>t
    <2>2. call' = [call EXCEPT ![c] = m] /\ UNCHANGED <<source, dropped, raced>>
      BY <1>1 DEF Contract!Begin
    <2> HIDE DEF m
    <2> QED  BY <1>1, <1>t, <2>1, <2>2
  <1>2. ASSUME NEW c \in Callers, Contract!Produce(c), UNCHANGED entries
        PROVE  DropsNoted'
    <2>1. call[c] \in Contract!Call /\ call[c].key \in Keys
      BY <1>2, UnderWay, CallFacts DEF Contract!Produce
    <2>2. source[call[c].key] \in Contract!Versions
      BY <2>1 DEF TypeInv, TypeOK
    <2> DEFINE m == [call[c] EXCEPT !.step = "set", !.value = source[call[c].key]]
    <2>3. m.value = source[call[c].key] /\ m.key = call[c].key
      BY <2>1, <2>2, CallFacts
    <2>4. ~(m.value < dropped[m.key])
      BY <1>t, <2>1, <2>3
    <2>5. call' = [call EXCEPT ![c] = m] /\ UNCHANGED <<source, dropped, raced>>
      BY <1>2 DEF Contract!Produce
    <2> HIDE DEF m
    <2> QED  BY <1>2, <1>t, <2>4, <2>5
  <1>3. ASSUME NEW c \in Callers, Contract!Rejects(c), UNCHANGED entries
        PROVE  DropsNoted'
    BY <1>3, <1>t DEF Contract!Rejects
  <1>4. ASSUME NEW k \in Keys, Contract!Changes(k), UNCHANGED entries
        PROVE  DropsNoted'
    BY <1>4, <1>t DEF Contract!Changes
  <1>5. ASSUME Contract!TimePasses, UNCHANGED entries
        PROVE  DropsNoted'
    BY <1>5 DEF Contract!TimePasses
  <1>6. ASSUME NEW c \in Callers, NEW found, Contract!Looks(c, found),
               entries' = entries \/ entries' = [entries EXCEPT ![call[c].key] = Looked(call[c].key)]
        PROVE  DropsNoted'
    <2>1. call[c] \in Contract!Call /\ call[c].key \in Keys
      BY <1>6, UnderWay, CallFacts DEF Contract!Looks
    <2>2. /\ UNCHANGED <<source, dropped, raced>>
          /\ \A d \in Callers : call'[d] # Idle /\ call'[d].step = "set" => call'[d] = call[d]
      <3>1. [call[c] EXCEPT !.step = "produce"].step = "produce"
        BY <2>1, CallFacts
      <3>2. /\ UNCHANGED <<source, dropped, raced>>
            /\ call' \in { [call EXCEPT ![c] = [call[c] EXCEPT !.step = "produce"]],
                           [call EXCEPT ![c] = Idle] }
        BY <1>6 DEF Contract!Looks, Contract!Ends
      <3> QED  BY <1>t, <3>1, <3>2
    <2>3. \A k \in Keys : entries'[k] # Absent => entries'[k] = entries[k]
      BY <1>6, <1>t, <2>1 DEF Looked
    <2> QED  BY <2>2, <2>3
  <1>7. ASSUME NEW c \in Callers, call[c] # Idle, call[c].step = "set",
               entries' = Contract!WithStored(entries, call[c]),
               call' = [call EXCEPT ![c] = Idle], UNCHANGED <<source, dropped, raced>>
        PROVE  DropsNoted'
    <2>1. call[c].key \in Keys
      BY <1>7, UnderWay, CallFacts
    <2> DEFINE e == Contract!Stored(call[c])
    <2>2. e.value = call[c].value
      BY DEF Contract!Stored
    <2>3. entries' = [entries EXCEPT ![call[c].key] = e]
      BY <1>7 DEF Contract!WithStored
    <2> HIDE DEF e
    <2> QED  BY <1>7, <1>t, <2>1, <2>2, <2>3
  <1>8. ASSUME NEW c \in Callers, Del(c)
        PROVE  DropsNoted'
    <2> DEFINE k == call[c].key
               Late(d) == call[d] # Idle /\ call[d].step = "set" /\ call[d].key = k
                          /\ call[d].value < source[k]
    <2>1. k \in Keys
      BY <1>8, UnderWay, CallFacts DEF Del, Contract!Deletes
    <2>2. /\ dropped' = [dropped EXCEPT ![k] = source[k]]
          /\ call' = [call EXCEPT ![c] = Idle]
          /\ UNCHANGED source
          /\ entries' = [entries EXCEPT ![k] = Absent]
      BY <1>8 DEF Del, Contract!Deletes, Contract!Ends, Deleted, Contract!Without
    <2>3. raced' = IF \E d \in Callers : Late(d) THEN raced \cup {k} ELSE raced \ {k}
      BY <1>8 DEF Del, Contract!Deletes
    <2> HIDE DEF k
    <2>4. \A i \in Keys : dropped'[i] <= source'[i]
      BY <1>t, <2>1, <2>2
    <2>5. ASSUME NEW d \in Callers, call'[d] # Idle, call'[d].step = "set",
                 call'[d].value < dropped'[call'[d].key]
          PROVE  call'[d].key \in raced'
      <3>1. call'[d] = call[d] /\ call[d].key \in Keys
        BY <1>t, <2>2, <2>5, UnderWay, CallFacts
      <3>2. CASE call[d].key = k
        BY <1>t, <2>1, <2>2, <2>3, <2>5, <3>1, <3>2
      <3>3. CASE call[d].key # k
        BY <1>t, <2>2, <2>3, <2>5, <3>1, <3>3
      <3> QED  BY <3>2, <3>3
    <2>6. ASSUME NEW i \in Keys, entries'[i] # Absent, entries'[i].value < dropped'[i]
          PROVE  i \in raced'
      BY <1>t, <2>1, <2>2, <2>3, <2>6
    <2> QED  BY <2>4, <2>5, <2>6
  <1>9. ASSUME NEW c \in Callers, call[c] # Idle, entries' = Deleted(call[c]),
               call' = [call EXCEPT ![c] = Idle], UNCHANGED <<source, dropped, raced>>
        PROVE  DropsNoted'
    BY <1>9, <1>t DEF Deleted, Contract!Without
  <1>10. ASSUME NEW k \in Keys, RedisEvicts(k)
         PROVE  DropsNoted'
    BY <1>10, <1>t DEF RedisEvicts
  <1>11. CASE UNCHANGED vars
    BY <1>11 DEF vars
  <1>12. ASSUME NEW c \in Callers, RedisFails(c) PROVE DropsNoted'
    BY <1>3, <1>7, <1>9, <1>12 DEF RedisFails, Contract!Rejects
  <1>13. ASSUME NEW c \in Callers, Set(c) PROVE DropsNoted'
    BY <1>7, <1>13 DEF Set, Contract!Sets, Contract!Ends
  <1>14. ASSUME NEW c \in Callers, Contract!ProducerRejects(c), UNCHANGED entries PROVE DropsNoted'
    BY <1>3, <1>14 DEF Contract!ProducerRejects
  <1>15. ASSUME NEW c \in Callers, MemoryGet(c) \/ RedisGet(c) PROVE DropsNoted'
    BY <1>6, <1>15 DEF MemoryGet, RedisGet
  <1>16. ASSUME NEW c \in Callers, Refuses(c) PROVE DropsNoted'
    BY <1>16, <1>t DEF Refuses
  <1>17. ASSUME NEW k \in Keys, Mutate(k) PROVE DropsNoted'
    BY <1>17 DEF Mutate
  <1> HIDE DEF DropsNoted
  <1> QED  BY <1>1, <1>2, <1>4, <1>5, <1>8, <1>10, <1>11, <1>12, <1>13, <1>14, <1>15, <1>16,
              <1>17
           DEF Next, Contract!Quiet

\* InvalidationHolds: what a caller reads after a del() was computed after it,
\* unless an older value was between its producer and its set() at that time.
THEOREM DeletedStaysDeleted == Spec => []InvalidationHolds
  <1>1. DropsNoted => InvalidationHolds
    BY DEF DropsNoted, InvalidationHolds, Contract!InvalidationHolds, Visible
  <1> QED  BY <1>1, InitDrops, NextDrops, CacheTyping, PTL DEF Spec
=============================================================================
