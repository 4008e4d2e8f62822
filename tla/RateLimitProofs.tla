---------------------------- MODULE RateLimitProofs ----------------------------
(***************************************************************************)
(* Theorems about the rate limiter, for every limit, window, set of web    *)
(* processes and set of clients.                                           *)
(***************************************************************************)
EXTENDS RateLimit, TLAPS

\* No process finds Redis connected when it builds its limiter, so each counts
\* in its own memory.
OwnStore ==
    \A p \in Processes :
        /\ proc[p].stage # "serving" => ~proc[p].redis
        /\ proc[p].stage # "down" => proc[p].store = p

\* The admissions a counter stands for: the last ones, at most Limit, of which
\* each came in the counter's window.
InWindow(h) == IF h.total < Limit THEN h.total ELSE Limit

\* A history of admissions and a counter that agree.  Those the counter stands
\* for came in its window; all others came before it began, and those a further
\* Limit back before the window that precedes it.
Agree(a, h) ==
    /\ InWindow(h) <= Len(a)
    /\ \A i \in 1..Len(a) :
          /\ a[i] < h.reset
          /\ i + InWindow(h) > Len(a) => a[i] + Window >= h.reset
          /\ i + InWindow(h) <= Len(a) => a[i] + Window < h.reset
          /\ i + InWindow(h) + Limit <= Len(a) => a[i] + 2 * Window < h.reset
          /\ i + 2 * Limit <= Len(a) => a[i] + Window < a[i + 2 * Limit]

CountersAgree == \A p \in Processes, c \in Clients : Agree(admitted[p][c], hits[p][c])

IInv == RateTypeOK /\ OwnStore /\ CountersAgree

-----------------------------------------------------------------------------
\* A counter that has counted a request is a counter, and its window ends at
\* most Window from now.
LEMMA CountedFacts ==
    ASSUME NEW h \in Counter, h.reset <= now + Window, now \in Nat
    PROVE  Counted(h) \in Counter /\ Counted(h).reset <= now + Window
  BY RateAssumption DEF Counted, Counter

\* A counter that has counted nothing agrees with a history of nothing.
LEMMA FreshAgrees == Agree(<<>>, NoHits)
  <1>1. InWindow(NoHits) = 0
    BY RateAssumption DEF InWindow, NoHits
  <1> QED  BY <1>1 DEF Agree

\* Counting a request that passes, and adding it to the history, keeps the two
\* in agreement.
LEMMA PassAgrees ==
    ASSUME NEW a \in Seq(Nat), NEW h \in Counter, now \in Nat,
           h.reset <= now + Window, Agree(a, h), Counted(h).total <= Limit
    PROVE  Agree(Append(a, now), Counted(h))
  <1> DEFINE n == Len(a)
             b == Append(a, now)
             k == InWindow(h)
             g == Counted(h)
  <1>1. /\ n \in Nat /\ Len(b) = n + 1 /\ b[n + 1] = now
        /\ \A i \in 1..n : b[i] = a[i] /\ a[i] \in Nat
    OBVIOUS
  <1>2. Limit \in Nat /\ Limit >= 1 /\ Window \in Nat /\ Window >= 1
    BY RateAssumption
  <1>3. h.total \in Nat /\ h.reset \in Nat
    BY DEF Counter
  <1>4. k \in Nat /\ k <= Limit /\ k <= n
    BY <1>2, <1>3 DEF Agree, InWindow
  <1>5. \A i \in 1..n :
          /\ a[i] < h.reset
          /\ i + k > n => a[i] + Window >= h.reset
          /\ i + k <= n => a[i] + Window < h.reset
          /\ i + k + Limit <= n => a[i] + 2 * Window < h.reset
          /\ i + 2 * Limit <= n => a[i] + Window < a[i + 2 * Limit]
    BY DEF Agree
  <1>6. /\ h.reset <= now => g.total = 1 /\ g.reset = now + Window /\ InWindow(g) = 1
        /\ h.reset > now => /\ g.total = h.total + 1 /\ g.reset = h.reset
                            /\ k = h.total /\ k < Limit /\ InWindow(g) = k + 1
    BY <1>2, <1>3 DEF Counted, Counter, InWindow
  <1> HIDE DEF b, g, n, k
  <1>7. ASSUME NEW i \in 1..n, i + 2 * Limit <= n + 1, i + 2 * Limit # n + 1
        PROVE  b[i] + Window < b[i + 2 * Limit]
    <2>1. i \in Nat /\ i >= 1 /\ i + 2 * Limit <= n /\ i + 2 * Limit >= 1
      BY <1>1, <1>2, <1>7
    <2>2. i + 2 * Limit \in 1..n
      BY <1>1, <1>2, <2>1
    <2> QED  BY <1>1, <1>5, <2>1, <2>2
  <1>8. CASE h.reset <= now
    <2>1. g.total = 1 /\ g.reset = now + Window /\ InWindow(g) = 1
      BY <1>6, <1>8
    <2>2. ASSUME NEW i \in 1..n
          PROVE  /\ b[i] < g.reset /\ b[i] + Window < g.reset
                 /\ i + 1 + Limit <= n + 1 => b[i] + 2 * Window < g.reset
                 /\ i + 2 * Limit <= n + 1 => b[i] + Window < b[i + 2 * Limit]
      <3>1. /\ a[i] \in Nat /\ b[i] = a[i] /\ a[i] < h.reset
            /\ i + k <= n => a[i] + Window < h.reset
        BY <1>1, <1>5
      <3>2. b[i] < g.reset /\ b[i] + Window < g.reset
        BY <1>1, <1>2, <1>3, <1>8, <2>1, <3>1
      <3>3. i + 1 + Limit <= n + 1 => b[i] + 2 * Window < g.reset
        BY <1>1, <1>2, <1>3, <1>4, <1>8, <2>1, <3>1
      <3>4. ASSUME i + 2 * Limit = n + 1  PROVE b[i] + Window < b[i + 2 * Limit]
        <4>1. i + k <= n
          BY <1>1, <1>2, <1>4, <3>4
        <4>2. b[i + 2 * Limit] = now
          BY <1>1, <3>4
        <4>3. a[i] + Window < now
          BY <1>2, <1>3, <1>8, <3>1, <4>1
        <4> QED  BY <3>1, <4>2, <4>3
      <3> QED  BY <1>7, <3>2, <3>3, <3>4
    <2>3. /\ b[n + 1] < g.reset /\ b[n + 1] + Window >= g.reset
          /\ ~(n + 1 + 2 * Limit <= n + 1) /\ ~(n + 1 + 1 + Limit <= n + 1)
      BY <1>1, <1>2, <2>1
    <2>4. \A i \in 1..(n + 1) : i \in 1..n \/ i = n + 1
      BY <1>1
    <2>5. \A i \in 1..n : ~(i + 1 > n + 1)
      BY <1>1
    <2>6. 1 <= n + 1 /\ ~(n + 1 + 1 <= n + 1)
      BY <1>1
    <2>7. Agree(b, g)
      BY <1>1, <2>1, <2>2, <2>3, <2>4, <2>5, <2>6 DEF Agree
    <2> QED  BY <2>7 DEF b, g
  <1>9. CASE h.reset > now
    <2>1. g.reset = h.reset /\ k < Limit /\ InWindow(g) = k + 1
      BY <1>6, <1>9
    <2>2. ASSUME NEW i \in 1..n
          PROVE  /\ b[i] < g.reset
                 /\ i + k > n => b[i] + Window >= g.reset
                 /\ i + k <= n => b[i] + Window < g.reset
                 /\ i + k + Limit <= n => b[i] + 2 * Window < g.reset
                 /\ i + 2 * Limit <= n + 1 => b[i] + Window < b[i + 2 * Limit]
      <3>1. a[i] \in Nat /\ b[i] = a[i]
        BY <1>1
      <3>2. ASSUME i + 2 * Limit = n + 1  PROVE b[i] + Window < b[i + 2 * Limit]
        <4>1. i + k + Limit <= n
          BY <1>1, <1>2, <1>4, <2>1, <3>2
        <4>2. a[i] + 2 * Window < h.reset
          BY <1>5, <4>1
        <4>3. b[i + 2 * Limit] = now
          BY <1>1, <3>2
        <4>4. a[i] + Window < now
          BY <1>2, <1>3, <3>1, <4>2
        <4> QED  BY <3>1, <4>3, <4>4
      <3> QED  BY <1>5, <1>7, <2>1, <3>1, <3>2
    <2>3. /\ b[n + 1] < g.reset /\ b[n + 1] + Window >= g.reset
          /\ ~(n + 1 + k <= n) /\ ~(n + 1 + 2 * Limit <= n + 1)
          /\ ~(n + 1 + k + Limit <= n)
      BY <1>1, <1>2, <1>3, <1>4, <1>9, <2>1
    <2>4. /\ \A i \in 1..(n + 1) : i \in 1..n \/ i = n + 1
          /\ \A i \in 1..(n + 1) :
                /\ i + (k + 1) > n + 1 <=> i + k > n
                /\ i + (k + 1) <= n + 1 <=> i + k <= n
                /\ i + (k + 1) + Limit <= n + 1 <=> i + k + Limit <= n
          /\ k + 1 <= n + 1
      BY <1>1, <1>2, <1>4
    <2>5. Agree(b, g)
      BY <1>1, <2>1, <2>2, <2>3, <2>4 DEF Agree
    <2> QED  BY <2>5 DEF b, g
  <1> QED  BY <1>3, <1>8, <1>9

\* A request that is turned away came in a window whose Limit is reached, and
\* leaves the counter standing for the same admissions.
LEMMA RefuseAgrees ==
    ASSUME NEW a \in Seq(Nat), NEW h \in Counter, now \in Nat,
           Agree(a, h), ~(Counted(h).total <= Limit)
    PROVE  /\ h.reset > now /\ h.total >= Limit
           /\ Agree(a, Counted(h))
  <1>1. /\ Limit \in Nat /\ Limit >= 1 /\ h.total \in Nat /\ h.reset \in Nat
    BY RateAssumption DEF Counter
  <1>2. /\ h.reset > now /\ h.total >= Limit
        /\ Counted(h).total = h.total + 1 /\ Counted(h).reset = h.reset
    BY <1>1 DEF Counted, Counter
  <1>3. InWindow(Counted(h)) = InWindow(h)
    BY <1>1, <1>2 DEF InWindow
  <1> QED  BY <1>2, <1>3 DEF Agree

\* Then the last Limit admissions came in the counter's window.
LEMMA LastAdmitted ==
    ASSUME NEW a \in Seq(Nat), NEW h \in Counter, now \in Nat,
           Agree(a, h), ~(Counted(h).total <= Limit)
    PROVE  Len(a) >= Limit /\ a[Len(a) + 1 - Limit] + Window > now
  <1>1. h.reset > now /\ h.total >= Limit /\ h.reset \in Nat /\ h.total \in Nat
    BY RefuseAgrees DEF Counter
  <1>2. InWindow(h) = Limit /\ Limit \in Nat /\ Limit >= 1 /\ Window \in Nat
    BY <1>1, RateAssumption DEF InWindow
  <1>3. PICK n \in Nat : n = Len(a)
    OBVIOUS
  <1>4. n >= Limit
    BY <1>2, <1>3 DEF Agree
  <1>5. PICK i \in 1..n : i = n + 1 - Limit
    BY <1>2, <1>4
  <1>6. i + Limit > n
    BY <1>2, <1>5
  <1>7. a[i] \in Nat
    BY <1>3
  <1>8. a[i] + Window >= h.reset
    BY <1>2, <1>3, <1>6 DEF Agree
  <1>9. a[i] + Window > now
    BY <1>1, <1>2, <1>7, <1>8
  <1> QED  BY <1>3, <1>4, <1>5, <1>9

-----------------------------------------------------------------------------
\* At first nothing is counted and nothing runs.
LEMMA InitIInv == RateInit => IInv
  <1> SUFFICES ASSUME RateInit  PROVE IInv
    OBVIOUS
  <1>1. /\ \A s \in Stores, c \in Clients : hits[s][c] = NoHits
        /\ \A p \in Processes, c \in Clients : admitted[p][c] = <<>>
        /\ \A p \in Processes : proc[p] = Down
    BY DEF RateInit, Nobody
  <1>2. NoHits \in Counter /\ NoHits.reset = 0 /\ NoHits.total = 0
    BY DEF NoHits, Counter
  <1>3. Down \in ProcState /\ Down.stage = "down" /\ ~Down.redis
    BY DEF Down, ProcState
  <1>4. RateTypeOK
    <2>1. hits \in [Stores -> [Clients -> Counter]]
      BY <1>2 DEF RateInit
    <2>2. proc \in [Processes -> ProcState]
      BY <1>3 DEF RateInit
    <2>3. admitted \in [Processes -> [Clients -> Seq(Nat)]]
      BY DEF RateInit, Nobody
    <2>4. \A p \in Processes : proc[p].stage # "serving"
      BY <1>1, <1>3
    <2>5. \A s \in Stores, c \in Clients : hits[s][c].reset <= now + Window
      BY <1>1, <1>2, RateAssumption DEF RateInit
    <2> QED  BY <2>1, <2>2, <2>3, <2>4, <2>5 DEF RateTypeOK, RateInit
  <1>5. OwnStore
    BY <1>1, <1>3 DEF OwnStore
  <1>6. CountersAgree
    BY <1>1, FreshAgrees DEF CountersAgree, Stores
  <1> QED  BY <1>4, <1>5, <1>6 DEF IInv

\* What the invariant says of one process and one client.
LEMMA Held ==
    ASSUME IInv, NEW p \in Processes, NEW c \in Clients
    PROVE  /\ p \in Stores /\ now \in Nat
           /\ hits[p][c] \in Counter /\ hits[p][c].reset <= now + Window
           /\ admitted[p][c] \in Seq(Nat)
           /\ Agree(admitted[p][c], hits[p][c])
           /\ proc[p].stage = "serving" => proc[p].store = p
  BY DEF IInv, RateTypeOK, OwnStore, CountersAgree, Stores

\* A boot changes neither counters nor histories, and the limiter is built while
\* Redis is not connected.
LEMMA BootKeeps ==
    ASSUME IInv, NEW p \in Processes, Import(p) \/ Serve(p)
    PROVE  IInv'
  <1>1. /\ now' = now /\ hits' = hits /\ admitted' = admitted
        /\ proc[p] \in ProcState /\ proc \in [Processes -> ProcState]
    BY DEF Import, Serve, IInv, RateTypeOK
  <1>2. /\ proc' \in [Processes -> ProcState]
        /\ proc'[p].stage # "serving" => ~proc'[p].redis
        /\ proc'[p].stage # "down" => proc'[p].store = p
        /\ \A q \in Processes \ {p} : proc'[q] = proc[q]
    <2>1. CASE Import(p)
      <3> DEFINE new == [proc[p] EXCEPT !.stage = "imported", !.store = p]
      <3>1. ~proc[p].redis
        BY <2>1 DEF Import, IInv, OwnStore
      <3>2. StoreFor(p) = p
        BY <3>1 DEF StoreFor
      <3>3. proc' = [proc EXCEPT ![p] = new]
        BY <2>1, <3>2 DEF Import
      <3>4. new \in ProcState /\ new.stage = "imported" /\ new.store = p /\ new.redis = proc[p].redis
        BY <1>1 DEF ProcState, Stores
      <3> HIDE DEF new
      <3> QED  BY <1>1, <3>1, <3>3, <3>4
    <2>2. CASE Serve(p)
      <3> DEFINE new == [proc[p] EXCEPT !.stage = "serving", !.redis = TRUE]
      <3>1. proc[p].store = p
        BY <2>2 DEF Serve, IInv, OwnStore
      <3>2. proc' = [proc EXCEPT ![p] = new]
        BY <2>2 DEF Serve
      <3>3. new \in ProcState /\ new.stage = "serving" /\ new.store = proc[p].store
        BY <1>1 DEF ProcState
      <3> HIDE DEF new
      <3> QED  BY <1>1, <3>1, <3>2, <3>3
    <2> QED  BY <2>1, <2>2
  <1>3. OwnStore'
    BY <1>2 DEF IInv, OwnStore
  <1>4. \A q \in Processes : proc'[q].stage = "serving" => proc'[q].store \in Stores
    BY <1>3 DEF OwnStore, Stores
  <1> QED  BY <1>1, <1>2, <1>3, <1>4 DEF IInv, RateTypeOK, CountersAgree

\* A process that stops loses its counters and, with them, its history.
LEMMA StopKeeps ==
    ASSUME IInv, NEW p \in Processes, Stop(p)
    PROVE  IInv'
  <1>1. /\ now' = now
        /\ proc' = [proc EXCEPT ![p] = Down]
        /\ hits' = [hits EXCEPT ![p] = [c \in Clients |-> NoHits]]
        /\ admitted' = [admitted EXCEPT ![p] = Nobody]
    BY DEF Stop
  <1>2. /\ NoHits \in Counter /\ NoHits.reset = 0
        /\ Down \in ProcState /\ Down.stage = "down" /\ ~Down.redis
    BY DEF NoHits, Counter, Down, ProcState
  <1>3. /\ now \in Nat /\ proc \in [Processes -> ProcState]
        /\ hits \in [Stores -> [Clients -> Counter]]
        /\ admitted \in [Processes -> [Clients -> Seq(Nat)]]
    BY DEF IInv, RateTypeOK
  <1>4. /\ proc' \in [Processes -> ProcState] /\ proc'[p] = Down
        /\ \A q \in Processes \ {p} : proc'[q] = proc[q]
    BY <1>1, <1>2, <1>3
  <1>5. /\ hits' \in [Stores -> [Clients -> Counter]]
        /\ \A c \in Clients : hits'[p][c] = NoHits
        /\ \A s \in Stores \ {p} : hits'[s] = hits[s]
    BY <1>1, <1>2, <1>3 DEF Stores
  <1>6. /\ admitted' \in [Processes -> [Clients -> Seq(Nat)]]
        /\ \A c \in Clients : admitted'[p][c] = <<>>
        /\ \A q \in Processes \ {p} : admitted'[q] = admitted[q]
    BY <1>1, <1>3 DEF Nobody
  <1>7. OwnStore'
    BY <1>2, <1>4 DEF IInv, OwnStore
  <1>8. \A q \in Processes : proc'[q].stage = "serving" => proc'[q].store \in Stores
    BY <1>7 DEF OwnStore, Stores
  <1>9. \A s \in Stores, c \in Clients : hits'[s][c].reset <= now + Window
    <2>1. NoHits.reset <= now + Window
      BY <1>2, <1>3, RateAssumption
    <2>2. \A s \in Stores, c \in Clients : hits[s][c].reset <= now + Window
      BY DEF IInv, RateTypeOK
    <2> QED  BY <1>5, <2>1, <2>2
  <1>10. CountersAgree'
    BY <1>5, <1>6, FreshAgrees DEF IInv, CountersAgree, Stores
  <1> QED  BY <1>1, <1>3, <1>4, <1>5, <1>6, <1>7, <1>8, <1>9, <1>10 DEF IInv, RateTypeOK

\* Counting touches one counter, of the process's own.
LEMMA CountFacts ==
    ASSUME IInv, NEW p \in Processes, NEW c \in Clients, Count(p, c)
    PROVE  /\ CounterOf(p, c) = hits[p][c]
           /\ now' = now /\ proc' = proc
           /\ hits' \in [Stores -> [Clients -> Counter]]
           /\ hits'[p][c] = Counted(hits[p][c])
           /\ \A s \in Stores, d \in Clients : <<s, d>> # <<p, c>> => hits'[s][d] = hits[s][d]
           /\ \A s \in Stores, d \in Clients : hits'[s][d].reset <= now + Window
  <1>1. /\ proc[p].store = p /\ now' = now /\ proc' = proc
        /\ hits' = [hits EXCEPT ![p][c] = Counted(@)]
    BY DEF Count, IInv, OwnStore
  <1>2. Counted(hits[p][c]) \in Counter /\ Counted(hits[p][c]).reset <= now + Window
    BY Held, CountedFacts
  <1>3. hits \in [Stores -> [Clients -> Counter]] /\ p \in Stores
        /\ \A s \in Stores, d \in Clients : hits[s][d].reset <= now + Window
    BY DEF IInv, RateTypeOK, Stores
  <1>4. /\ hits' \in [Stores -> [Clients -> Counter]]
        /\ hits'[p][c] = Counted(hits[p][c])
        /\ \A s \in Stores, d \in Clients : <<s, d>> # <<p, c>> => hits'[s][d] = hits[s][d]
    BY <1>1, <1>2, <1>3
  <1> QED  BY <1>1, <1>2, <1>3, <1>4 DEF CounterOf

\* A request that passes is counted and joins the history.
LEMMA PassKeeps ==
    ASSUME IInv, NEW p \in Processes, NEW c \in Clients, Pass(p, c)
    PROVE  IInv'
  <1>1. Count(p, c) /\ Counted(hits[p][c]).total <= Limit
        /\ admitted' = [admitted EXCEPT ![p][c] = Append(@, now)]
    BY CountFacts DEF Pass, Passes
  <1>2. Agree(Append(admitted[p][c], now), Counted(hits[p][c]))
    BY <1>1, Held, PassAgrees
  <1>3. /\ admitted' \in [Processes -> [Clients -> Seq(Nat)]]
        /\ admitted'[p][c] = Append(admitted[p][c], now)
        /\ \A q \in Processes, d \in Clients :
              <<q, d>> # <<p, c>> => admitted'[q][d] = admitted[q][d]
    <2>1. now \in Nat /\ admitted \in [Processes -> [Clients -> Seq(Nat)]]
          /\ Append(admitted[p][c], now) \in Seq(Nat)
      BY Held DEF IInv, RateTypeOK
    <2> QED  BY <2>1, <1>1
  <1>4. CountersAgree'
    BY <1>1, <1>2, <1>3, CountFacts DEF IInv, CountersAgree, Stores
  <1>5. OwnStore'
    BY <1>1, CountFacts DEF IInv, OwnStore
  <1>6. RateTypeOK'
    BY <1>1, <1>3, CountFacts DEF IInv, RateTypeOK
  <1> QED  BY <1>4, <1>5, <1>6 DEF IInv

\* A request that is turned away is counted only.
LEMMA RefuseKeeps ==
    ASSUME IInv, NEW p \in Processes, NEW c \in Clients, Refuse(p, c)
    PROVE  IInv'
  <1>1. Count(p, c) /\ ~(Counted(hits[p][c]).total <= Limit) /\ admitted' = admitted
    BY CountFacts DEF Refuse, Passes
  <1>2. Agree(admitted[p][c], Counted(hits[p][c]))
    BY <1>1, Held, RefuseAgrees
  <1>3. CountersAgree'
    BY <1>1, <1>2, CountFacts DEF IInv, CountersAgree, Stores
  <1>4. OwnStore'
    BY <1>1, CountFacts DEF IInv, OwnStore
  <1>5. RateTypeOK'
    BY <1>1, CountFacts DEF IInv, RateTypeOK
  <1> QED  BY <1>3, <1>4, <1>5 DEF IInv

\* Every step keeps the invariant.
LEMMA NextIInv == IInv /\ [RateNext]_rateVars => IInv'
  <1> SUFFICES ASSUME IInv, [RateNext]_rateVars  PROVE IInv'
    OBVIOUS
  <1>1. CASE Tick
    <2>1. now' = now + 1 /\ proc' = proc /\ hits' = hits /\ admitted' = admitted
      BY <1>1 DEF Tick
    <2>2. \A s \in Stores, c \in Clients : hits[s][c].reset <= now + 1 + Window
      BY RateAssumption DEF IInv, RateTypeOK, Counter
    <2> QED  BY <2>1, <2>2 DEF IInv, RateTypeOK, OwnStore, CountersAgree
  <1>2. ASSUME NEW p \in Processes, Import(p) \/ Serve(p)  PROVE IInv'
    BY <1>2, BootKeeps
  <1>3. ASSUME NEW p \in Processes, Stop(p)  PROVE IInv'
    BY <1>3, StopKeeps
  <1>4. ASSUME NEW p \in Processes, NEW c \in Clients, Pass(p, c)  PROVE IInv'
    BY <1>4, PassKeeps
  <1>5. ASSUME NEW p \in Processes, NEW c \in Clients, Refuse(p, c)  PROVE IInv'
    BY <1>5, RefuseKeeps
  <1>6. CASE UNCHANGED rateVars
    BY <1>6 DEF rateVars, IInv, RateTypeOK, OwnStore, CountersAgree
  <1> QED  BY <1>1, <1>2, <1>3, <1>4, <1>5, <1>6 DEF RateNext

\* The invariant holds throughout.
LEMMA Invariant == RateSpec => []IInv
  BY InitIInv, NextIInv, PTL DEF RateSpec

-----------------------------------------------------------------------------
\* Every variable has its type, a serving process has a store, and no window
\* ends more than Window from now.
THEOREM RateTypeCorrect == RateSpec => []RateTypeOK
  <1>1. IInv => RateTypeOK
    BY DEF IInv
  <1> QED  BY <1>1, Invariant, PTL

\* Of 2 * Limit + 1 requests of a client that a process lets pass one after the
\* other, the last comes more than a window after the first: the burst around
\* the end of a window is no larger than twice the limit.
THEOREM BurstsBounded == RateSpec => []BurstBounded
  <1>1. IInv => BurstBounded
    <2> SUFFICES ASSUME IInv, NEW p \in Processes, NEW c \in Clients,
                        NEW i \in DOMAIN admitted[p][c],
                        i + 2 * Limit \in DOMAIN admitted[p][c]
                 PROVE  admitted[p][c][i + 2 * Limit] - admitted[p][c][i] > Window
      BY DEF BurstBounded
    <2> DEFINE a == admitted[p][c]
    <2>1. a \in Seq(Nat) /\ Agree(a, hits[p][c])
      BY Held
    <2>2. /\ i \in 1..Len(a) /\ i + 2 * Limit <= Len(a)
          /\ a[i] \in Nat /\ a[i + 2 * Limit] \in Nat
      BY <2>1
    <2>3. a[i] + Window < a[i + 2 * Limit]
      BY <2>1, <2>2 DEF Agree
    <2>4. ASSUME NEW x \in Nat, NEW y \in Nat, x + Window < y  PROVE y - x > Window
      BY <2>4, RateAssumption
    <2> QED  BY <2>2, <2>3, <2>4
  <1> QED  BY <1>1, Invariant, PTL

\* A process that would turn a client away has let Limit of its requests pass
\* within the last window, whatever it turned away meanwhile.
THEOREM RefusalsForCause == RateSpec => []RefusedForCause
  <1>1. IInv => RefusedForCause
    <2> SUFFICES ASSUME IInv, NEW p \in Processes, NEW c \in Clients,
                        proc[p].stage = "serving", ~Passes(p, c)
                 PROVE  LET n == Len(admitted[p][c]) IN
                        n >= Limit /\ admitted[p][c][n + 1 - Limit] + Window > now
      BY DEF RefusedForCause
    <2>1. ~(Counted(hits[p][c]).total <= Limit)
      BY Held DEF Passes, CounterOf
    <2> QED  BY <2>1, Held, LastAdmitted
  <1> QED  BY <1>1, Invariant, PTL
=============================================================================
