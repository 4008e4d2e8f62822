------------------------------ MODULE Lifecycle ------------------------------
(***************************************************************************)
(* The processes of a deployment from boot to exit: web processes, which   *)
(* serve requests and may run the queue worker inline, and worker          *)
(* processes.  Each opens its clients in order; a signal makes it close    *)
(* them in order once its connections and jobs are done, unless the forced *)
(* exit, PM2's kill or a crash comes first.  A request's handler outlives  *)
(* its connection when the client goes away, and nothing waits for it      *)
(* then.  Handlers enqueue mails; a worker takes them, hands them to the   *)
(* SMTP server and retries; BullMQ gives the job of a process that died to *)
(* another.                                                                *)
(***************************************************************************)
EXTENDS Naturals

CONSTANTS
    Webs,             \* processes of Application.ts
    Inline,           \* those with WORKER_INLINE
    Workers,          \* processes of worker.ts
    NoProcess,        \* no process has the request or the job
    Requests,         \* requests that may be under way at once
    Mails,            \* jobs on the shared queue
    ShutdownTimeout,  \* SHUTDOWN_TIMEOUT_MS, in units of ten seconds
    WebKill,          \* kill_timeout of bp-web
    WorkerKill,       \* kill_timeout of bp-worker
    Attempts,         \* attempts of defaultJobOptions
    MaxStalls,        \* BullMQ's maxStalledCount
    MaxFaults         \* bound on signals, crashes and failed calls together

Processes == Webs \cup Workers
Consumers == Inline \cup Workers

ASSUME ProcessesAssumption ==
    Inline \subseteq Webs /\ Webs \cap Workers = {} /\ NoProcess \notin Processes
ASSUME NumbersAssumption ==
    /\ {ShutdownTimeout, WebKill, WorkerKill, MaxStalls, MaxFaults} \subseteq Nat
    /\ Attempts \in Nat \ {0}

VARIABLES
    stage,    \* how far each process is in its boot or its shutdown
    open,     \* the clients it has open
    elapsed,  \* time since it began to shut down
    req,      \* the process whose handler each request is in
    gone,     \* the requests whose connection ended before their handler
    job,      \* the mails
    faults    \* signals, crashes and failures so far

vars == <<stage, open, elapsed, req, gone, job, faults>>

-----------------------------------------------------------------------------
\* "connect", "connectRedis": bootstrapInfra awaits the connection.  "init":
\* initModules and initI18n.  "binding": listen was called, the port is not
\* open yet.  Without handlers a signal kills the process.
Booting == {"connect", "connectRedis", "init"}
Closing == {"before", "closeWorker", "closeQueue", "disconnectRedis", "disconnect"}
Stages  == {"down", "binding", "ready"} \cup Booting \cup Closing
Clients == {"mongo", "redis", "queue", "mailer", "worker", "http"}

\* The SMTP transaction of an active job: not accepted yet, or accepted.
Active(m)  == m.state \in {"sending", "accepted"}
Settled(m) == m.state \in {"completed", "failed"}

\* A handler runs in the process; a client waits for one of them.
Handles(p) == \E r \in Requests : req[r] = p
Serves(p)  == \E r \in Requests \ gone : req[r] = p
Works(p)  == \E j \in Mails : Active(job[j]) /\ job[j].by = p

\* Mutants of Connected: no initMailer, no startWorker.
ConnectedMailless(p) ==
    {"redis", "queue"} \cup (IF p \in Consumers THEN {"worker"} ELSE {})
ConnectedIdle(p) == {"redis", "queue", "mailer"}

\* What is open once Redis is connected: initCache, setupQueue and initMailer
\* are synchronous, and so is startWorker in a process that runs one.
Connected(p) ==
    {"redis", "queue", "mailer"} \cup (IF p \in Consumers THEN {"worker"} ELSE {})

KillTimeout(p) == IF p \in Webs THEN WebKill ELSE WorkerKill

\* Mutant of Expired: the forced-exit timer is never set.
ExpiredNever(p) == FALSE
Expired(p) == elapsed[p] >= ShutdownTimeout

\* Mutant of Retryable: one attempt too many.
RetryableOnceMore(m) == m.tries < Attempts
\* A job whose attempt fails is tried again.
Retryable(m) == m.tries + 1 < Attempts

\* A worker that takes jobs and looks for stalled ones.
Consuming(p) == "worker" \in open[p] /\ stage[p] # "closeWorker"

\* worker?.close() resolves when the jobs it has are done.
Drained(p) == "worker" \in open[p] => ~Works(p)

-----------------------------------------------------------------------------
Init ==
    /\ stage = [p \in Processes |-> "down"]
    /\ open = [p \in Processes |-> {}]
    /\ elapsed = [p \in Processes |-> 0]
    /\ req = [r \in Requests |-> NoProcess]
    /\ gone = {}
    /\ job = [j \in Mails |-> [state |-> "none", by |-> NoProcess,
                               tries |-> 0, stalls |-> 0, sent |-> 0]]
    /\ faults = 0

Fault == faults < MaxFaults /\ faults' = faults + 1

\* A process goes on to the next stage with these clients open.
Goes(p, from, to, clients) ==
    /\ stage[p] = from
    /\ stage' = [stage EXCEPT ![p] = to]
    /\ open' = [open EXCEPT ![p] = clients]
    /\ UNCHANGED <<elapsed, req, gone, job>>

\* A process ends: its connections break, its handlers are cut, and its jobs
\* stay active in Redis with nobody to work on them.
Exits(p) ==
    /\ stage' = [stage EXCEPT ![p] = "down"]
    /\ open' = [open EXCEPT ![p] = {}]
    /\ elapsed' = [elapsed EXCEPT ![p] = 0]
    /\ req' = [r \in Requests |-> IF req[r] = p THEN NoProcess ELSE req[r]]
    /\ gone' = {r \in gone : req[r] # p}
    /\ job' = [j \in Mails |-> IF job[j].by = p THEN [job[j] EXCEPT !.by = NoProcess]
                               ELSE job[j]]

\* PM2 starts or restarts a process.
Boot(p) == Goes(p, "down", "connect", {}) /\ UNCHANGED faults

Connect(p) == Goes(p, "connect", "connectRedis", {"mongo"}) /\ UNCHANGED faults

\* bootstrapInfra returns; worker.ts is ready, with its handlers installed,
\* before it yields again.
ConnectRedis(p) ==
    /\ Goes(p, "connectRedis", IF p \in Webs THEN "init" ELSE "ready",
            open[p] \cup Connected(p))
    /\ UNCHANGED faults

\* createApp, setupHTTPServer, which installs the handlers, and listen.
InitModules(p) == Goes(p, "init", "binding", open[p]) /\ UNCHANGED faults

Listening(p) == Goes(p, "binding", "ready", open[p] \cup {"http"}) /\ UNCHANGED faults

\* connect, connectRedis or initI18n rejects, or the server emits "error".
BootFails(p) ==
    /\ stage[p] \in Booting \cup {"binding"}
    /\ Exits(p) /\ Fault

\* SIGTERM or SIGINT.  A web process stops listening and waits, a worker has
\* nothing to do before closeInfra.  A second signal changes nothing.
Signal(p) ==
    /\ Goes(p, "ready", IF p \in Webs THEN "before" ELSE "closeWorker", open[p] \ {"http"})
    /\ Fault

\* The default action during the boot; while binding, server.close() rejects
\* because the server is not listening, closeInfra is skipped and it exits.
SignalKills(p) ==
    /\ stage[p] \in Booting \cup {"binding"}
    /\ Exits(p) /\ Fault

\* Mutant of CloseServer: closeInfra does not wait for server.close().
CloseServerAtOnce(p) ==
    /\ Goes(p, "before", "closeWorker", open[p])
    /\ UNCHANGED faults

\* server.close() calls back when the last connection has ended, whatever
\* handlers still run.
CloseServer(p) ==
    /\ ~Serves(p)
    /\ Goes(p, "before", "closeWorker", open[p])
    /\ UNCHANGED faults

CloseWorker(p) ==
    /\ Drained(p)
    /\ Goes(p, "closeWorker", "closeQueue", open[p] \ {"worker"})
    /\ UNCHANGED faults

\* queue?.close(), then closeMailer() without yielding.
CloseQueue(p) ==
    /\ Goes(p, "closeQueue", "disconnectRedis", open[p] \ {"queue", "mailer"})
    /\ UNCHANGED faults

DisconnectRedis(p) ==
    /\ Goes(p, "disconnectRedis", "disconnect", open[p] \ {"redis"})
    /\ UNCHANGED faults

\* disconnect() resolves and the process exits with code 0.
Disconnect(p) ==
    /\ stage[p] = "disconnect"
    /\ Exits(p) /\ UNCHANGED faults

\* A close rejects: the rest is skipped and the process exits with code 1.
CloseFails(p) ==
    /\ stage[p] \in Closing \ {"before"}
    /\ Exits(p) /\ Fault

Tick(p) ==
    /\ stage[p] \in Closing
    /\ elapsed[p] < ShutdownTimeout
    /\ elapsed' = [elapsed EXCEPT ![p] = @ + 1]
    /\ UNCHANGED <<stage, open, req, gone, job, faults>>

ForcedExit(p) ==
    /\ stage[p] \in Closing
    /\ Expired(p)
    /\ Exits(p) /\ UNCHANGED faults

\* PM2's SIGKILL after kill_timeout.
Kill(p) ==
    /\ stage[p] \in Closing
    /\ elapsed[p] >= KillTimeout(p)
    /\ Exits(p) /\ UNCHANGED faults

\* An uncaught exception, the OOM killer, a power cut.
Crash(p) ==
    /\ stage[p] # "down"
    /\ Exits(p) /\ Fault

-----------------------------------------------------------------------------
Arrive(r, p) ==
    /\ req[r] = NoProcess
    /\ "http" \in open[p]
    /\ req' = [req EXCEPT ![r] = p]
    /\ UNCHANGED <<stage, open, elapsed, gone, job, faults>>

\* The connection ends before the handler does: the client goes away, or has
\* its answer while the handler goes on.
Leave(r) ==
    /\ req[r] # NoProcess /\ r \notin gone
    /\ gone' = gone \cup {r}
    /\ UNCHANGED <<stage, open, elapsed, req, job, faults>>

\* The handler ends, with its answer to a client that is still there.
Respond(r) ==
    /\ req[r] # NoProcess
    /\ req' = [req EXCEPT ![r] = NoProcess]
    /\ gone' = gone \ {r}
    /\ UNCHANGED <<stage, open, elapsed, job, faults>>

JobChanges(j, m) ==
    /\ job' = [job EXCEPT ![j] = m]
    /\ UNCHANGED <<stage, open, elapsed, req, gone, faults>>

\* A request's handler calls sendMail() with queueing on.  Once the queue is
\* closed getQueue() throws.
SendMail(r, j) ==
    /\ req[r] # NoProcess
    /\ "queue" \in open[req[r]]
    /\ job[j].state = "none"
    /\ JobChanges(j, [job[j] EXCEPT !.state = "waiting"])

\* A worker takes the job; dispatch() calls deliver().
Dispatch(p, j) ==
    /\ Consuming(p)
    /\ job[j].state = "waiting"
    /\ JobChanges(j, [job[j] EXCEPT !.state = "sending", !.by = p])

Accepted(j) ==
    /\ job[j].state = "sending" /\ job[j].by # NoProcess
    /\ JobChanges(j, [job[j] EXCEPT !.state = "accepted", !.sent = @ + 1])

Completed(j) ==
    /\ job[j].state = "accepted" /\ job[j].by # NoProcess
    /\ JobChanges(j, [job[j] EXCEPT !.state = "completed", !.by = NoProcess])

\* sendMail() of the transport rejects, possibly after the server accepted.
Failed(j) ==
    /\ Active(job[j]) /\ job[j].by # NoProcess
    /\ JobChanges(j, [job[j] EXCEPT !.tries = @ + 1, !.by = NoProcess,
                         !.state = IF Retryable(job[j]) THEN "waiting" ELSE "failed"])

\* A running worker finds the job of a process that is gone.
Stalled(j) ==
    /\ Active(job[j]) /\ job[j].by = NoProcess
    /\ \E p \in Processes : Consuming(p)
    /\ JobChanges(j, [job[j] EXCEPT !.stalls = @ + 1,
                         !.state = IF job[j].stalls < MaxStalls THEN "waiting" ELSE "failed"])

-----------------------------------------------------------------------------
Starts(p) == Boot(p) \/ Connect(p) \/ ConnectRedis(p) \/ InitModules(p) \/ Listening(p)

CloseInfra(p) == CloseWorker(p) \/ CloseQueue(p) \/ DisconnectRedis(p) \/ Disconnect(p)

Deadline(p) == Tick(p) \/ ForcedExit(p)

Process(p) ==
    \/ Starts(p) \/ BootFails(p)
    \/ Signal(p) \/ SignalKills(p) \/ CloseServer(p) \/ CloseInfra(p) \/ CloseFails(p)
    \/ Deadline(p) \/ Kill(p) \/ Crash(p)

Deliver(j) ==
    \/ \E p \in Processes : Dispatch(p, j)
    \/ Accepted(j) \/ Completed(j) \/ Failed(j) \/ Stalled(j)

Next ==
    \/ \E p \in Processes : Process(p)
    \/ \E r \in Requests :
          \/ \E p \in Processes : Arrive(r, p)
          \/ Leave(r) \/ Respond(r) \/ \E j \in Mails : SendMail(r, j)
    \/ \E j \in Mails : Deliver(j)

Spec == Init /\ [][Next]_vars

\* PM2 keeps its processes running, a connection attempt ends, Node's timers
\* fire, and BullMQ and the SMTP server go on.  No client has to leave, no
\* handler to end, and no close to resolve.
FairSpec ==
    /\ Spec
    /\ \A p \in Processes : WF_vars(Starts(p)) /\ WF_vars(Deadline(p))
    /\ \A j \in Mails : WF_vars(Deliver(j))

-----------------------------------------------------------------------------
MailJob == [state : {"none", "waiting", "sending", "accepted", "completed", "failed"},
            by : Processes \cup {NoProcess}, tries : Nat, stalls : Nat, sent : Nat]

\* Every variable has its type, only a job being worked on has a process, and
\* a process is ready when it has opened all of its clients.
TypeOK ==
    /\ stage \in [Processes -> Stages]
    /\ open \in [Processes -> SUBSET Clients]
    /\ elapsed \in [Processes -> 0..ShutdownTimeout]
    /\ req \in [Requests -> Processes \cup {NoProcess}]
    /\ gone \subseteq {r \in Requests : req[r] # NoProcess}
    /\ job \in [Mails -> MailJob]
    /\ faults \in 0..MaxFaults
    /\ \A j \in Mails : job[j].by # NoProcess => Active(job[j])
    /\ \A p \in Processes : stage[p] = "ready" =>
          /\ {"mongo", "redis", "queue", "mailer"} \subseteq open[p]
          /\ "worker" \in open[p] <=> p \in Consumers
          /\ "http" \in open[p] <=> p \in Webs

\* What a handler finds open: it may query, cache, enqueue and mail.
HandlerClients == {"mongo", "redis", "queue", "mailer"}

\* Nothing that someone waits for finds a client of its process closed or not
\* open yet: a request whose client is there may query, cache and enqueue, a
\* job may query, cache and deliver, from the boot of an inline worker to
\* the last moment of a drain.  A handler that its client has left may find
\* one closed, but only once closeInfra has begun, which every client that
\* waits holds up (closeInfra's order, bootstrapInfra's order).
InfraWhileWorking ==
    \A p \in Processes :
        /\ Serves(p) => HandlerClients \subseteq open[p]
        /\ Handles(p) /\ ~(HandlerClients \subseteq open[p])
              => stage[p] \in Closing \ {"before"}
        /\ Works(p) => {"mongo", "redis", "mailer", "worker"} \subseteq open[p]

\* However processes die, a mail is sent again only for a failed attempt or
\* a stalled job, a job that completed was sent, and retries end.
MailAccounted ==
    \A j \in Mails : LET m == job[j] IN
        /\ m.sent <= m.tries + m.stalls + 1
        /\ m.state = "completed" => m.sent > 0
        /\ m.tries <= Attempts /\ m.stalls <= MaxStalls + 1

\* A process that got its signal is gone after a while, whatever its requests,
\* its jobs and its clients do.
SignalledStops ==
    \A p \in Processes : stage[p] \in Closing ~> stage[p] = "down"

\* Every mail that was enqueued is delivered or given up, over any finite
\* number of signals, crashes and failures.
MailSettles == \A j \in Mails : job[j].state = "waiting" ~> Settled(job[j])

\* "give in-flight jobs time to finish before SIGKILL" (ecosystem.config.cjs,
\* at bp-worker's kill_timeout): a shutdown that cuts a job has lasted that
\* long.
JobsGetKillTimeout ==
    [][\A p \in Workers :
          stage[p] \in Closing /\ stage'[p] = "down" /\ Works(p)
              => elapsed[p] >= KillTimeout(p)]_vars
=============================================================================
