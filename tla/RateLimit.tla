------------------------------- MODULE RateLimit -------------------------------
(***************************************************************************)
(* The global rate limiter of the web processes.  Each process builds its  *)
(* limiter, and with it chooses the store of the counters, while it imports *)
(* lib/security.ts; it connects to Redis later, and then serves.  A store  *)
(* counts a client's requests in fixed windows that begin with a request.  *)
(* Time passes in units of which Window is a multiple; PM2 restarts what   *)
(* stops, without the counters it had in memory.                           *)
(***************************************************************************)
EXTENDS Naturals, Sequences, FiniteSets

CONSTANTS
    Processes,  \* web processes of the cluster
    Clients,    \* what the limiter takes for a client, req.ip
    Shared,     \* the counters in Redis
    NoStore,    \* the process has built no limiter
    Limit,      \* RATE_LIMIT_MAX
    Window,     \* RATE_LIMIT_WINDOW_MS
    MaxHits,    \* bound on the requests counted in one window
    MaxNow      \* bound on the time

ASSUME RateAssumption ==
    /\ Shared \notin Processes /\ NoStore \notin Processes /\ Shared # NoStore
    /\ Limit \in Nat \ {0} /\ Window \in Nat \ {0} /\ MaxHits \in Nat /\ MaxNow \in Nat

VARIABLES
    now,
    proc,      \* the web processes
    hits,      \* each store's counters: a process's memory, or Redis
    admitted   \* history: when a process, since its start, let a client pass

rateVars == <<now, proc, hits, admitted>>

Stores == Processes \cup {Shared}
Counter == [total : Nat, reset : Nat]

-----------------------------------------------------------------------------
NoHits == [total |-> 0, reset |-> 0]
Down == [stage |-> "down", redis |-> FALSE, store |-> NoStore]
Nobody == [c \in Clients |-> <<>>]

\* makeStore(): Redis when the process's client is connected, its memory if not.
StoreFor(p) == IF proc[p].redis THEN Shared ELSE p

\* Mutants of Counted: a window that each request begins anew, and one that
\* ends a unit early.
CountedSliding(h) ==
    IF h.reset <= now THEN [total |-> 1, reset |-> now + Window]
                      ELSE [total |-> h.total + 1, reset |-> now + Window]
CountedShort(h) ==
    IF h.reset <= now + 1 THEN [total |-> 1, reset |-> now + Window]
                          ELSE [h EXCEPT !.total = @ + 1]
CountedLate(h) ==
    IF h.reset <= now THEN [total |-> 1, reset |-> now + Window + 1]
                      ELSE [h EXCEPT !.total = @ + 1]

\* The store's increment(): the first request after a window's end begins the
\* next one; a request that is turned away counts too.
Counted(h) ==
    IF h.reset <= now THEN [total |-> 1, reset |-> now + Window]
                      ELSE [h EXCEPT !.total = @ + 1]

\* The counter a request of client c in process p meets, and what becomes of it.
CounterOf(p, c) == hits[proc[p].store][c]
Passes(p, c) == Counted(CounterOf(p, c)).total <= Limit

-----------------------------------------------------------------------------
RateInit ==
    /\ now = 0
    /\ proc = [p \in Processes |-> Down]
    /\ hits = [s \in Stores |-> [c \in Clients |-> NoHits]]
    /\ admitted = [p \in Processes |-> Nobody]

\* The process starts; the limiters are built while its modules are imported.
Import(p) ==
    /\ proc[p].stage = "down"
    /\ proc' = [proc EXCEPT ![p].stage = "imported", ![p].store = StoreFor(p)]
    /\ UNCHANGED <<now, hits, admitted>>

\* bootstrapInfra connects to Redis, and the port opens at the end of the boot.
Serve(p) ==
    /\ proc[p].stage = "imported"
    /\ proc' = [proc EXCEPT ![p].stage = "serving", ![p].redis = TRUE]
    /\ UNCHANGED <<now, hits, admitted>>

\* A request of client c reaches the limiter of process p, which counts it ...
Count(p, c) ==
    /\ proc[p].stage = "serving"
    /\ hits' = [hits EXCEPT ![proc[p].store][c] = Counted(@)]
    /\ UNCHANGED <<now, proc>>

\* ... and lets it pass, or calls the handler, which answers 429.
Pass(p, c) ==
    /\ Count(p, c)
    /\ Passes(p, c)
    /\ admitted' = [admitted EXCEPT ![p][c] = Append(@, now)]

Refuse(p, c) ==
    /\ Count(p, c)
    /\ ~Passes(p, c)
    /\ CounterOf(p, c).total < MaxHits
    /\ UNCHANGED admitted

\* The process ends, at any stage, and its memory with it.
Stop(p) ==
    /\ proc[p].stage # "down"
    /\ proc' = [proc EXCEPT ![p] = Down]
    /\ hits' = [hits EXCEPT ![p] = [c \in Clients |-> NoHits]]
    /\ admitted' = [admitted EXCEPT ![p] = Nobody]
    /\ UNCHANGED now

Tick == now < MaxNow /\ now' = now + 1 /\ UNCHANGED <<proc, hits, admitted>>

RateNext ==
    \/ Tick
    \/ \E p \in Processes :
          \/ Import(p) \/ Serve(p) \/ Stop(p)
          \/ \E c \in Clients : Pass(p, c) \/ Refuse(p, c)

RateSpec == RateInit /\ [][RateNext]_rateVars

-----------------------------------------------------------------------------
ProcState == [stage : {"down", "imported", "serving"}, redis : BOOLEAN,
              store : Stores \cup {NoStore}]

\* Every variable has its type, a serving process has a store, and a window
\* ends at most Window from now.
RateTypeOK ==
    /\ now \in Nat
    /\ proc \in [Processes -> ProcState]
    /\ hits \in [Stores -> [Clients -> Counter]]
    /\ admitted \in [Processes -> [Clients -> Seq(Nat)]]
    /\ \A p \in Processes : proc[p].stage = "serving" => proc[p].store \in Stores
    /\ \A s \in Stores, c \in Clients : hits[s][c].reset <= now + Window

\* Around the end of a window a client may get twice the limit through one
\* process, but no more: of 2 * Limit + 1 requests that a process lets pass, the
\* last comes more than a window after the first.
BurstBounded ==
    \A p \in Processes, c \in Clients :
        \A i \in DOMAIN admitted[p][c] : i + 2 * Limit \in DOMAIN admitted[p][c] =>
            admitted[p][c][i + 2 * Limit] - admitted[p][c][i] > Window

\* A client is turned away only for what it got: a process that would answer
\* 429 now has let Limit of the client's requests pass within the last window.
\* Requests that were turned away do not keep a client out any longer.
RefusedForCause ==
    \A p \in Processes, c \in Clients :
        proc[p].stage = "serving" /\ ~Passes(p, c) =>
            LET n == Len(admitted[p][c]) IN
            n >= Limit /\ admitted[p][c][n + 1 - Limit] + Window > now

\* "Redis-backed store so the limit is shared across PM2 cluster instances.
\* Falls back [...] when Redis isn't connected" (lib/security.ts): while every
\* process that serves is connected to Redis, they let no more than Limit requests
\* of a client pass at one time.
LimitShared ==
    (\A p \in Processes : proc[p].stage = "serving" => proc[p].redis) =>
        \A c \in Clients :
            Cardinality({x \in Processes \X (1..MaxHits * (MaxNow + 1)) :
                            /\ x[2] \in DOMAIN admitted[x[1]][c]
                            /\ admitted[x[1]][c][x[2]] = now}) <= Limit
=============================================================================
