--------------------------- MODULE LifecycleProofs ---------------------------
(***************************************************************************)
(* Theorems about the process lifecycle and the shared queue, for every    *)
(* set of processes, requests and mails, every timeout, every number of    *)
(* attempts and every number of faults.                                    *)
(***************************************************************************)
EXTENDS Lifecycle, TLAPS

\* The stages in which a client may wait for a request, a handler run that its
\* client has left, and jobs be under way.
ServingStages == {"ready", "before"}
LeftStages    == {"ready", "before", "closeWorker", "closeQueue", "disconnectRedis",
                  "disconnect"}
WorkingStages == {"init", "binding", "ready", "before", "closeWorker"}
WebStages     == {"init", "binding", "before"}

\* The clients of a process whose boot is over, and of each stage.
Infra(p) == {"mongo"} \cup Connected(p)

ClientsAt(p, s) ==
    CASE s \in {"down", "connect"} -> {}
      [] s = "connectRedis" -> {"mongo"}
      [] s \in {"init", "binding", "before", "closeWorker"} -> Infra(p)
      [] s = "ready" -> Infra(p) \cup (IF p \in Webs THEN {"http"} ELSE {})
      [] s = "closeQueue" -> Infra(p) \ {"worker"}
      [] s = "disconnectRedis" -> {"mongo", "redis"}
      [] s = "disconnect" -> {"mongo"}

Types ==
    /\ stage \in [Processes -> Stages]
    /\ open \in [Processes -> SUBSET Clients]
    /\ elapsed \in [Processes -> 0..ShutdownTimeout]
    /\ req \in [Requests -> Processes \cup {NoProcess}]
    /\ gone \subseteq {r \in Requests : req[r] # NoProcess}
    /\ job \in [Mails -> MailJob]
    /\ faults \in 0..MaxFaults

ClientsByStage ==
    \A p \in Processes : /\ open[p] = ClientsAt(p, stage[p])
                         /\ stage[p] \in WebStages => p \in Webs

HandlerStages(r) == IF r \in gone THEN LeftStages ELSE ServingStages

WorkByStage ==
    /\ \A r \in Requests : req[r] # NoProcess =>
          req[r] \in Webs /\ stage[req[r]] \in HandlerStages(r)
    /\ \A j \in Mails : job[j].by # NoProcess =>
          /\ job[j].by \in Consumers /\ stage[job[j].by] \in WorkingStages
          /\ Active(job[j])

\* Neither TypeOK nor InfraWhileWorking is inductive: that a client is open
\* follows from the stage of its process, and the stage from who works there.
StageInv == Types /\ ClientsByStage /\ WorkByStage

-----------------------------------------------------------------------------
\* What ClientsAt is, stage by stage.
LEMMA ClientsFacts ==
    ASSUME NEW p
    PROVE  /\ ClientsAt(p, "down") = {}
           /\ ClientsAt(p, "connect") = {}
           /\ ClientsAt(p, "connectRedis") = {"mongo"}
           /\ ClientsAt(p, "init") = Infra(p)
           /\ ClientsAt(p, "binding") = Infra(p)
           /\ ClientsAt(p, "before") = Infra(p)
           /\ ClientsAt(p, "closeWorker") = Infra(p)
           /\ ClientsAt(p, "ready") = Infra(p) \cup (IF p \in Webs THEN {"http"} ELSE {})
           /\ ClientsAt(p, "closeQueue") = Infra(p) \ {"worker"}
           /\ ClientsAt(p, "disconnectRedis") = {"mongo", "redis"}
           /\ ClientsAt(p, "disconnect") = {"mongo"}
  BY DEF ClientsAt

\* The clients of a process are clients, and a worker is among them when it
\* consumes.
LEMMA InfraFacts ==
    ASSUME NEW p
    PROVE  /\ Infra(p) \subseteq Clients \ {"http"}
           /\ {"mongo", "redis", "queue", "mailer"} \subseteq Infra(p)
           /\ "worker" \in Infra(p) <=> p \in Consumers
  BY DEF Infra, Connected, Clients

\* The clients of every stage are clients.
LEMMA ClientsTyped ==
    ASSUME NEW p, NEW s \in Stages
    PROVE  ClientsAt(p, s) \subseteq Clients
  BY ClientsFacts, InfraFacts DEF Stages, Booting, Closing, Clients

\* A process that goes to a stage in which what it works on may be under way,
\* with the clients of that stage, keeps StageInv.
LEMMA GoesKeeps ==
    ASSUME StageInv, NEW p \in Processes, NEW from, NEW to \in Stages,
           Goes(p, from, to, ClientsAt(p, to)), faults' \in 0..MaxFaults,
           to \in WebStages => p \in Webs,
           Serves(p) => to \in ServingStages,
           Handles(p) => to \in LeftStages,
           Works(p) => to \in WorkingStages
    PROVE  StageInv'
  <1>1. Types'
    BY ClientsTyped DEF StageInv, Types, Goes
  <1>2. ClientsByStage'
    BY DEF StageInv, Types, ClientsByStage, Goes
  <1>3. ASSUME NEW r \in Requests, req'[r] # NoProcess
        PROVE  req'[r] \in Webs /\ stage'[req'[r]] \in HandlerStages(r)
    <2>1. req[r] \in Webs /\ stage[req[r]] \in HandlerStages(r) /\ req'[r] = req[r]
      BY <1>3 DEF StageInv, WorkByStage, Goes
    <2>2. CASE req[r] = p
      BY <2>1, <2>2 DEF StageInv, Types, Goes, Serves, Handles, HandlerStages
    <2>3. CASE req[r] # p
      BY <2>1, <2>3 DEF StageInv, Types, Goes, Processes
    <2> QED  BY <2>2, <2>3
  <1>4. ASSUME NEW j \in Mails, job'[j].by # NoProcess
        PROVE  /\ job'[j].by \in Consumers /\ stage'[job'[j].by] \in WorkingStages
               /\ Active(job'[j])
    <2>1. /\ job[j].by \in Consumers /\ stage[job[j].by] \in WorkingStages
          /\ Active(job[j]) /\ job'[j] = job[j]
      BY <1>4 DEF StageInv, WorkByStage, Goes
    <2>2. CASE job[j].by = p
      BY <2>1, <2>2 DEF StageInv, Types, Goes, Works
    <2>3. CASE job[j].by # p
      BY <2>1, <2>3, ProcessesAssumption DEF StageInv, Types, Goes, Consumers, Processes
    <2> QED  BY <2>2, <2>3
  <1>5. gone' = gone
    BY DEF Goes
  <1> QED  BY <1>1, <1>2, <1>3, <1>4, <1>5 DEF StageInv, WorkByStage, HandlerStages, Active

\* A process that ends leaves nothing behind that is still being worked on.
LEMMA ExitsKeeps ==
    ASSUME StageInv, NEW p \in Processes, Exits(p), faults' \in 0..MaxFaults
    PROVE  StageInv'
  <1>1. ASSUME NEW j \in Mails
        PROVE  /\ job'[j] \in MailJob
               /\ job'[j].by # NoProcess => job'[j] = job[j] /\ job[j].by # p
    BY DEF StageInv, Types, Exits, MailJob
  <1>2. Types'
    BY <1>1, NumbersAssumption DEF StageInv, Types, Exits, Stages
  <1>3. ClientsByStage'
    BY ClientsFacts DEF StageInv, Types, ClientsByStage, Exits, WebStages
  <1>4. ASSUME NEW r \in Requests, req'[r] # NoProcess
        PROVE  req'[r] \in Webs /\ stage'[req'[r]] \in HandlerStages(r)'
    <2>1. req'[r] = req[r] /\ req[r] # p /\ (r \in gone' <=> r \in gone)
      BY <1>4 DEF StageInv, Types, Exits
    <2> QED  BY <1>4, <2>1 DEF StageInv, Types, WorkByStage, HandlerStages, Exits, Processes
  <1>5. ASSUME NEW j \in Mails, job'[j].by # NoProcess
        PROVE  /\ job'[j].by \in Consumers /\ stage'[job'[j].by] \in WorkingStages
               /\ Active(job'[j])
    BY <1>1, <1>5, ProcessesAssumption
       DEF StageInv, Types, WorkByStage, Exits, Consumers, Processes
  <1> QED  BY <1>2, <1>3, <1>4, <1>5 DEF StageInv, WorkByStage, Active

\* A job that changes, and is given to a worker that may have it.
LEMMA JobKeeps ==
    ASSUME StageInv, NEW j \in Mails, NEW m \in MailJob, JobChanges(j, m),
           m.by # NoProcess => /\ m.by \in Consumers /\ stage[m.by] \in WorkingStages
                               /\ Active(m)
    PROVE  StageInv'
  <1>1. Types'
    BY DEF StageInv, Types, JobChanges
  <1>2. ClientsByStage'
    BY DEF StageInv, ClientsByStage, JobChanges
  <1>3. WorkByStage'
    BY DEF StageInv, Types, WorkByStage, HandlerStages, JobChanges, Active
  <1> QED  BY <1>1, <1>2, <1>3 DEF StageInv

\* Where a process that serves or works is.
LEMMA BusyFacts ==
    ASSUME StageInv, NEW p \in Processes
    PROVE  /\ Serves(p) => p \in Webs /\ stage[p] \in ServingStages
           /\ Handles(p) => p \in Webs /\ stage[p] \in LeftStages
           /\ Works(p) => p \in Consumers /\ stage[p] \in WorkingStages
  <1>1. p # NoProcess
    BY ProcessesAssumption
  <1> QED
    BY <1>1 DEF StageInv, WorkByStage, HandlerStages, ServingStages, LeftStages, Serves,
                Handles, Works

\* Every process is down and nothing is under way.
LEMMA InitStageInv == Init => StageInv
  <1> SUFFICES ASSUME Init PROVE StageInv
    OBVIOUS
  <1>1. Types
    BY NumbersAssumption DEF Init, Types, Stages, MailJob
  <1>2. ClientsByStage
    BY ClientsFacts DEF Init, ClientsByStage, WebStages
  <1>3. WorkByStage
    BY DEF Init, WorkByStage
  <1> QED  BY <1>1, <1>2, <1>3 DEF StageInv

\* A process opens its clients in order.
LEMMA StartsKeep ==
    ASSUME StageInv, NEW p \in Processes, Starts(p)
    PROVE  StageInv'
  <1> USE DEF ServingStages, LeftStages, WorkingStages, WebStages
  <1>1. /\ open[p] = ClientsAt(p, stage[p])
        /\ stage[p] \in WebStages => p \in Webs
        /\ faults \in 0..MaxFaults
    BY DEF StageInv, ClientsByStage, Types
  <1>2. CASE Boot(p)
    <2>1. Goes(p, "down", "connect", ClientsAt(p, "connect")) /\ faults' \in 0..MaxFaults
      BY <1>1, <1>2, ClientsFacts DEF Boot
    <2>2. ~Serves(p) /\ ~Handles(p) /\ ~Works(p)
      BY <2>1, BusyFacts DEF Goes
    <2> QED  BY <2>1, <2>2, GoesKeeps DEF Stages, Booting
  <1>3. CASE Connect(p)
    <2>1. Goes(p, "connect", "connectRedis", ClientsAt(p, "connectRedis"))
          /\ faults' \in 0..MaxFaults
      BY <1>1, <1>3, ClientsFacts DEF Connect
    <2>2. ~Serves(p) /\ ~Handles(p) /\ ~Works(p)
      BY <2>1, BusyFacts DEF Goes
    <2> QED  BY <2>1, <2>2, GoesKeeps DEF Stages, Booting
  <1>4. CASE ConnectRedis(p)
    <2>1. stage[p] = "connectRedis" /\ faults' \in 0..MaxFaults
      BY <1>1, <1>4 DEF ConnectRedis, Goes
    <2>2. open[p] \cup Connected(p) = Infra(p)
      BY <1>1, <2>1, ClientsFacts DEF Infra
    <2>3. ~Serves(p) /\ ~Handles(p) /\ ~Works(p)
      BY <2>1, BusyFacts
    <2>4. CASE p \in Webs
      <3>1. Goes(p, "connectRedis", "init", ClientsAt(p, "init"))
        BY <1>4, <2>2, <2>4, ClientsFacts DEF ConnectRedis
      <3> QED  BY <2>1, <2>3, <2>4, <3>1, GoesKeeps DEF Stages, Booting
    <2>5. CASE p \notin Webs
      <3>1. ClientsAt(p, "ready") = Infra(p)
        BY <2>5, ClientsFacts
      <3>2. Goes(p, "connectRedis", "ready", ClientsAt(p, "ready"))
        BY <1>4, <2>2, <2>5, <3>1 DEF ConnectRedis
      <3> QED  BY <2>1, <2>3, <2>5, <3>2, GoesKeeps DEF Stages
    <2> QED  BY <2>4, <2>5
  <1>5. CASE InitModules(p)
    <2>1. stage[p] = "init" /\ faults' \in 0..MaxFaults
      BY <1>1, <1>5 DEF InitModules, Goes
    <2>2. Goes(p, "init", "binding", ClientsAt(p, "binding"))
      BY <1>1, <1>5, <2>1, ClientsFacts DEF InitModules
    <2>3. ~Serves(p) /\ ~Handles(p)
      BY <2>1, BusyFacts
    <2> QED  BY <1>1, <2>1, <2>2, <2>3, GoesKeeps DEF Stages
  <1>6. CASE Listening(p)
    <2>1. stage[p] = "binding" /\ faults' \in 0..MaxFaults
      BY <1>1, <1>6 DEF Listening, Goes
    <2>2. Goes(p, "binding", "ready", ClientsAt(p, "ready"))
      BY <1>1, <1>6, <2>1, ClientsFacts DEF Listening
    <2> QED  BY <1>1, <2>1, <2>2, GoesKeeps DEF Stages
  <1> QED  BY <1>2, <1>3, <1>4, <1>5, <1>6 DEF Starts

\* A process closes its clients in order, what is under way first.
LEMMA ClosesKeep ==
    ASSUME StageInv, NEW p \in Processes, Signal(p) \/ CloseServer(p) \/ CloseInfra(p)
    PROVE  StageInv'
  <1> USE DEF ServingStages, LeftStages, WorkingStages, WebStages
  <1>1. /\ open[p] = ClientsAt(p, stage[p])
        /\ stage[p] \in WebStages => p \in Webs
        /\ faults \in 0..MaxFaults /\ MaxFaults \in Nat
    BY NumbersAssumption DEF StageInv, ClientsByStage, Types
  <1>2. CASE Signal(p)
    <2>1. stage[p] = "ready" /\ faults' \in 0..MaxFaults
      BY <1>1, <1>2 DEF Signal, Goes, Fault
    <2>2. open[p] \ {"http"} = Infra(p)
      BY <1>1, <2>1, ClientsFacts, InfraFacts
    <2>3. CASE p \in Webs
      <3>1. Goes(p, "ready", "before", ClientsAt(p, "before"))
        BY <1>2, <2>2, <2>3, ClientsFacts DEF Signal
      <3> QED  BY <2>1, <2>3, <3>1, GoesKeeps DEF Stages, Closing
    <2>4. CASE p \notin Webs
      <3>1. Goes(p, "ready", "closeWorker", ClientsAt(p, "closeWorker"))
        BY <1>2, <2>2, <2>4, ClientsFacts DEF Signal
      <3>2. ~Serves(p)
        BY <2>4, BusyFacts
      <3> QED  BY <2>1, <3>1, <3>2, GoesKeeps DEF Stages, Closing
    <2> QED  BY <2>3, <2>4
  <1>3. CASE CloseServer(p)
    <2>1. stage[p] = "before" /\ ~Serves(p) /\ faults' \in 0..MaxFaults
      BY <1>1, <1>3 DEF CloseServer, Goes
    <2>2. Goes(p, "before", "closeWorker", ClientsAt(p, "closeWorker"))
      BY <1>1, <1>3, <2>1, ClientsFacts DEF CloseServer
    <2> QED  BY <2>1, <2>2, GoesKeeps DEF Stages, Closing
  <1>4. CASE CloseWorker(p)
    <2>1. stage[p] = "closeWorker" /\ faults' \in 0..MaxFaults
      BY <1>1, <1>4 DEF CloseWorker, Goes
    <2>2. open[p] = Infra(p)
      BY <1>1, <2>1, ClientsFacts
    <2>3. Goes(p, "closeWorker", "closeQueue", ClientsAt(p, "closeQueue"))
      BY <1>4, <2>2, ClientsFacts DEF CloseWorker
    <2>4. ~Serves(p)
      BY <2>1, BusyFacts
    <2>5. ~Works(p)
      BY <1>4, <2>2, BusyFacts, InfraFacts DEF CloseWorker, Drained
    <2> QED  BY <2>1, <2>3, <2>4, <2>5, GoesKeeps DEF Stages, Closing
  <1>5. CASE CloseQueue(p)
    <2>1. stage[p] = "closeQueue" /\ faults' \in 0..MaxFaults
      BY <1>1, <1>5 DEF CloseQueue, Goes
    <2>2. open[p] \ {"queue", "mailer"} = {"mongo", "redis"}
      BY <1>1, <2>1, ClientsFacts DEF Infra, Connected
    <2>3. Goes(p, "closeQueue", "disconnectRedis", ClientsAt(p, "disconnectRedis"))
      BY <1>5, <2>2, ClientsFacts DEF CloseQueue
    <2>4. ~Serves(p) /\ ~Works(p)
      BY <2>1, BusyFacts
    <2> QED  BY <2>1, <2>3, <2>4, GoesKeeps DEF Stages, Closing
  <1>6. CASE DisconnectRedis(p)
    <2>1. stage[p] = "disconnectRedis" /\ faults' \in 0..MaxFaults
      BY <1>1, <1>6 DEF DisconnectRedis, Goes
    <2>2. open[p] \ {"redis"} = {"mongo"}
      BY <1>1, <2>1, ClientsFacts
    <2>3. Goes(p, "disconnectRedis", "disconnect", ClientsAt(p, "disconnect"))
      BY <1>6, <2>2, ClientsFacts DEF DisconnectRedis
    <2>4. ~Serves(p) /\ ~Works(p)
      BY <2>1, BusyFacts
    <2> QED  BY <2>1, <2>3, <2>4, GoesKeeps DEF Stages, Closing
  <1>7. CASE Disconnect(p)
    BY <1>1, <1>7, ExitsKeeps DEF Disconnect
  <1> QED  BY <1>2, <1>3, <1>4, <1>5, <1>6, <1>7 DEF CloseInfra

\* Every other end of a process, and the time a shutdown takes.
LEMMA EndsKeep ==
    ASSUME StageInv, NEW p \in Processes,
           \/ BootFails(p) \/ SignalKills(p) \/ CloseFails(p)
           \/ Deadline(p) \/ Kill(p) \/ Crash(p)
    PROVE  StageInv'
  <1>1. faults \in 0..MaxFaults /\ MaxFaults \in Nat
    BY NumbersAssumption DEF StageInv, Types
  <1>2. CASE Tick(p)
    <2>1. Types'
      BY <1>2, NumbersAssumption DEF Tick, StageInv, Types
    <2>2. ClientsByStage' /\ WorkByStage'
      BY <1>2 DEF Tick, StageInv, ClientsByStage, WorkByStage, HandlerStages, Active
    <2> QED  BY <2>1, <2>2 DEF StageInv
  <1>3. CASE ~Tick(p)
    <2>1. Exits(p) /\ faults' \in 0..MaxFaults
      BY <1>1, <1>3 DEF BootFails, SignalKills, CloseFails, Deadline, ForcedExit,
                        Kill, Crash, Fault
    <2> QED  BY <2>1, ExitsKeeps
  <1> QED  BY <1>2, <1>3

\* A request comes where a server listens, its client leaves, its handler ends.
LEMMA RequestsKeep ==
    ASSUME StageInv, NEW r \in Requests,
           Leave(r) \/ Respond(r) \/ \E p \in Processes : Arrive(r, p)
    PROVE  StageInv'
  <1>1. CASE Respond(r)
    <2>1. Types' /\ ClientsByStage'
      BY <1>1 DEF Respond, StageInv, Types, ClientsByStage
    <2>2. WorkByStage'
      BY <1>1 DEF Respond, StageInv, Types, WorkByStage, HandlerStages, Active
    <2> QED  BY <2>1, <2>2 DEF StageInv
  <1>3. CASE Leave(r)
    <2>1. Types' /\ ClientsByStage'
      BY <1>3 DEF Leave, StageInv, Types, ClientsByStage
    <2>2. WorkByStage'
      BY <1>3 DEF Leave, StageInv, WorkByStage, HandlerStages, ServingStages, LeftStages, Active
    <2> QED  BY <2>1, <2>2 DEF StageInv
  <1>2. ASSUME NEW p \in Processes, Arrive(r, p)
        PROVE  StageInv'
    <2>1. open[p] = ClientsAt(p, stage[p]) /\ stage[p] \in Stages
      BY DEF StageInv, Types, ClientsByStage
    <2>2. stage[p] = "ready" /\ p \in Webs
      BY <1>2, <2>1, ClientsFacts, InfraFacts DEF Arrive, Stages, Booting, Closing
    <2>3. Types' /\ ClientsByStage'
      BY <1>2 DEF Arrive, StageInv, Types, ClientsByStage
    <2>4. WorkByStage'
      BY <1>2, <2>2 DEF Arrive, StageInv, Types, WorkByStage, HandlerStages, Active,
                        ServingStages
    <2> QED  BY <2>3, <2>4 DEF StageInv
  <1> QED  BY <1>1, <1>2, <1>3

\* A mail is enqueued, taken by a worker, tried, and settled.
LEMMA JobsKeep ==
    ASSUME StageInv, NEW j \in Mails,
           Deliver(j) \/ \E r \in Requests : SendMail(r, j)
    PROVE  StageInv'
  <1>1. job[j] \in MailJob
    BY DEF StageInv, Types
  <1>nat. /\ job[j].tries + 1 \in Nat /\ job[j].stalls + 1 \in Nat
        /\ job[j].sent + 1 \in Nat
    BY <1>1 DEF MailJob
  <1>2. job[j].by # NoProcess => job[j].by \in Consumers /\ stage[job[j].by] \in WorkingStages
    BY DEF StageInv, WorkByStage
  <1>3. ASSUME NEW r \in Requests, SendMail(r, j)
        PROVE  StageInv'
    <2>1. job[j].by = NoProcess
      BY <1>3 DEF SendMail, StageInv, WorkByStage, Active
    <2>2. [job[j] EXCEPT !.state = "waiting"] \in MailJob
      BY <1>1 DEF MailJob
    <2>3. [job[j] EXCEPT !.state = "waiting"].by = NoProcess
      BY <1>1, <2>1 DEF MailJob
    <2> QED  BY <1>3, <2>2, <2>3, JobKeeps DEF SendMail
  <1>4. ASSUME NEW p \in Processes, Dispatch(p, j)
        PROVE  StageInv'
    <2> DEFINE m == [job[j] EXCEPT !.state = "sending", !.by = p]
    <2>1. m \in MailJob /\ m.by = p /\ m.state = "sending"
      BY <1>1 DEF MailJob
    <2>2. open[p] = ClientsAt(p, stage[p]) /\ stage[p] \in Stages
      BY DEF StageInv, Types, ClientsByStage
    <2>3. p \in Consumers /\ stage[p] \in WorkingStages
      BY <1>4, <2>2, ClientsFacts, InfraFacts
         DEF Dispatch, Consuming, Stages, Booting, Closing, WorkingStages
    <2>4. JobChanges(j, m)
      BY <1>4 DEF Dispatch
    <2> HIDE DEF m
    <2> QED  BY <2>1, <2>3, <2>4, JobKeeps DEF Active
  <1>5. CASE Accepted(j)
    <2> DEFINE m == [job[j] EXCEPT !.state = "accepted", !.sent = @ + 1]
    <2>1. m \in MailJob /\ m.by = job[j].by /\ m.state = "accepted"
      BY <1>1, <1>nat DEF MailJob
    <2>2. JobChanges(j, m)
      BY <1>5 DEF Accepted
    <2> HIDE DEF m
    <2> QED  BY <1>2, <2>1, <2>2, JobKeeps DEF Active
  <1>6. CASE Completed(j)
    <2> DEFINE m == [job[j] EXCEPT !.state = "completed", !.by = NoProcess]
    <2>1. m \in MailJob /\ m.by = NoProcess
      BY <1>1 DEF MailJob
    <2>2. JobChanges(j, m)
      BY <1>6 DEF Completed
    <2> HIDE DEF m
    <2> QED  BY <2>1, <2>2, JobKeeps
  <1>7. CASE Failed(j)
    <2> DEFINE m == [job[j] EXCEPT !.tries = @ + 1, !.by = NoProcess,
                         !.state = IF Retryable(job[j]) THEN "waiting" ELSE "failed"]
    <2>1. m \in MailJob /\ m.by = NoProcess
      BY <1>1, <1>nat DEF MailJob
    <2>2. JobChanges(j, m)
      BY <1>7 DEF Failed
    <2> HIDE DEF m
    <2> QED  BY <2>1, <2>2, JobKeeps
  <1>8. CASE Stalled(j)
    <2> DEFINE m == [job[j] EXCEPT !.stalls = @ + 1,
                         !.state = IF job[j].stalls < MaxStalls THEN "waiting" ELSE "failed"]
    <2>1. m \in MailJob /\ m.by = job[j].by
      BY <1>1, <1>nat DEF MailJob
    <2>2. JobChanges(j, m) /\ m.by = NoProcess
      BY <1>8, <2>1 DEF Stalled
    <2> HIDE DEF m
    <2> QED  BY <2>1, <2>2, JobKeeps
  <1> QED  BY <1>3, <1>4, <1>5, <1>6, <1>7, <1>8 DEF Deliver

\* Every step of a process, a request or a job keeps StageInv.
LEMMA NextStageInv == StageInv /\ [Next]_vars => StageInv'
  <1> SUFFICES ASSUME StageInv, [Next]_vars PROVE StageInv'
    OBVIOUS
  <1>1. ASSUME NEW p \in Processes, Process(p)
        PROVE  StageInv'
    BY <1>1, StartsKeep, ClosesKeep, EndsKeep DEF Process
  <1>2. ASSUME NEW r \in Requests, Leave(r) \/ Respond(r) \/ \E p \in Processes : Arrive(r, p)
        PROVE  StageInv'
    BY <1>2, RequestsKeep
  <1>3. ASSUME NEW j \in Mails, Deliver(j) \/ \E r \in Requests : SendMail(r, j)
        PROVE  StageInv'
    BY <1>3, JobsKeep
  <1>4. CASE UNCHANGED vars
    BY <1>4 DEF vars, StageInv, Types, ClientsByStage, WorkByStage, HandlerStages, Active
  <1> QED  BY <1>1, <1>2, <1>3, <1>4 DEF Next

\* Every reachable state is typed, has the clients of each process as its
\* stage asks, and work only where its stage allows: what a client waits for
\* before closeInfra, what its client has left up to the exit.
THEOREM Staging == Spec => []StageInv
  BY InitStageInv, NextStageInv, PTL DEF Spec

\* Every variable keeps its type, only a job being worked on has a process, and
\* a process is ready only with all of its clients open.
THEOREM LifecycleTypeCorrect == Spec => []TypeOK
  <1>1. StageInv => TypeOK
    <2> SUFFICES ASSUME StageInv PROVE TypeOK
      OBVIOUS
    <2>1. Types /\ \A j \in Mails : job[j].by # NoProcess => Active(job[j])
      BY DEF StageInv, WorkByStage
    <2>2. ASSUME NEW p \in Processes, stage[p] = "ready"
          PROVE  /\ {"mongo", "redis", "queue", "mailer"} \subseteq open[p]
                 /\ "worker" \in open[p] <=> p \in Consumers
                 /\ "http" \in open[p] <=> p \in Webs
      <3>1. open[p] = Infra(p) \cup (IF p \in Webs THEN {"http"} ELSE {})
        BY <2>2, ClientsFacts DEF StageInv, ClientsByStage
      <3> QED  BY <3>1, InfraFacts
    <2> QED  BY <2>1, <2>2 DEF Types, TypeOK
  <1> QED  BY <1>1, Staging, PTL

\* No request that its client waits for and no job finds a client of its process
\* closed or not open yet, and no handler that its client has left before
\* closeInfra, in whatever order signals, drains, failures and crashes come.
THEOREM InfraKept == Spec => []InfraWhileWorking
  <1>1. StageInv => InfraWhileWorking
    <2> SUFFICES ASSUME StageInv, NEW p \in Processes
                 PROVE  /\ Serves(p) => HandlerClients \subseteq open[p]
                        /\ Handles(p) /\ ~(HandlerClients \subseteq open[p])
                              => stage[p] \in Closing \ {"before"}
                        /\ Works(p) => {"mongo", "redis", "mailer", "worker"} \subseteq open[p]
      BY DEF InfraWhileWorking
    <2>1. open[p] = ClientsAt(p, stage[p])
      BY DEF StageInv, ClientsByStage
    <2>2. ASSUME stage[p] \in ServingStages \cup WorkingStages
          PROVE  Infra(p) \subseteq open[p]
      BY <2>1, <2>2, ClientsFacts DEF ServingStages, WorkingStages
    <2>3. stage[p] \in LeftStages => stage[p] \in ServingStages \cup (Closing \ {"before"})
      BY DEF LeftStages, ServingStages, Closing
    <2> QED  BY <2>2, <2>3, BusyFacts, InfraFacts DEF HandlerClients
  <1> QED  BY <1>1, Staging, PTL

-----------------------------------------------------------------------------
\* MailAccounted is not inductive: a job that is tried again must have spent
\* its last sending on a failure or a stall, and have some of each left.
Owed(m) == IF m.state \in {"accepted", "completed"} THEN 1 ELSE 0

LedgerOf(m) ==
    /\ m.sent <= m.tries + m.stalls + Owed(m)
    /\ m.state \in {"accepted", "completed"} => m.sent > 0
    /\ m.state # "failed" => m.tries < Attempts /\ m.stalls <= MaxStalls
    /\ m.tries <= Attempts /\ m.stalls <= MaxStalls + 1

Ledger == \A j \in Mails : LedgerOf(job[j])

\* A job keeps its ledger when only its process changes, and when it changes
\* to one that has a ledger.
LEMMA LedgerKept ==
    ASSUME Types, Ledger, Types',
           \A j \in Mails : LedgerOf(job'[j]) \/ \E q : job'[j] = [job[j] EXCEPT !.by = q]
    PROVE  Ledger'
  <1> SUFFICES ASSUME NEW j \in Mails PROVE LedgerOf(job'[j])
    BY DEF Ledger, LedgerOf, Owed
  <1>1. job[j] \in MailJob /\ LedgerOf(job[j])
    BY DEF Types, Ledger
  <1>2. ASSUME NEW q, job'[j] = [job[j] EXCEPT !.by = q]
        PROVE  LedgerOf(job'[j])
    BY <1>1, <1>2 DEF MailJob, LedgerOf, Owed
  <1> QED  BY <1>2

\* A mail that was not enqueued owes nothing.
LEMMA InitLedger == Init => Ledger
  BY NumbersAssumption DEF Init, Ledger, LedgerOf, Owed

\* A mail that is tried, fails or stalls keeps its ledger.
LEMMA JobLedger ==
    ASSUME Types, Ledger, NEW j \in Mails, Deliver(j) \/ \E r \in Requests : SendMail(r, j)
    PROVE  \E m : LedgerOf(m) /\ JobChanges(j, m)
  <1>1. /\ job[j] \in MailJob /\ LedgerOf(job[j])
        /\ Attempts \in Nat /\ MaxStalls \in Nat
    BY NumbersAssumption DEF Types, Ledger
  <1>2. /\ job[j].tries \in Nat /\ job[j].stalls \in Nat /\ job[j].sent \in Nat
    BY <1>1 DEF MailJob
  <1>3. ASSUME NEW r \in Requests, SendMail(r, j)
        PROVE  LedgerOf([job[j] EXCEPT !.state = "waiting"])
    BY <1>1, <1>2, <1>3 DEF SendMail, LedgerOf, Owed, MailJob
  <1>4. ASSUME NEW p \in Processes, Dispatch(p, j)
        PROVE  LedgerOf([job[j] EXCEPT !.state = "sending", !.by = p])
    BY <1>1, <1>2, <1>4 DEF Dispatch, LedgerOf, Owed, MailJob
  <1>5. CASE Accepted(j)
    <2> DEFINE m == [job[j] EXCEPT !.state = "accepted", !.sent = @ + 1]
    <2>1. /\ m.state = "accepted" /\ m.sent = job[j].sent + 1
          /\ m.tries = job[j].tries /\ m.stalls = job[j].stalls
      BY <1>1 DEF MailJob
    <2>2. JobChanges(j, m) /\ job[j].state = "sending"
      BY <1>5 DEF Accepted
    <2> HIDE DEF m
    <2>3. LedgerOf(m)
      BY <1>1, <1>2, <2>1, <2>2 DEF LedgerOf, Owed
    <2> QED  BY <2>2, <2>3
  <1>6. CASE Completed(j)
    <2> DEFINE m == [job[j] EXCEPT !.state = "completed", !.by = NoProcess]
    <2>1. /\ m.state = "completed" /\ m.sent = job[j].sent
          /\ m.tries = job[j].tries /\ m.stalls = job[j].stalls
      BY <1>1 DEF MailJob
    <2>2. JobChanges(j, m) /\ job[j].state = "accepted"
      BY <1>6 DEF Completed
    <2> HIDE DEF m
    <2>3. LedgerOf(m)
      BY <1>1, <1>2, <2>1, <2>2 DEF LedgerOf, Owed
    <2> QED  BY <2>2, <2>3
  <1>7. CASE Failed(j)
    <2> DEFINE s == IF Retryable(job[j]) THEN "waiting" ELSE "failed"
               m == [job[j] EXCEPT !.tries = @ + 1, !.by = NoProcess, !.state = s]
    <2>1. /\ m.state = s /\ m.sent = job[j].sent
          /\ m.tries = job[j].tries + 1 /\ m.stalls = job[j].stalls
      BY <1>1 DEF MailJob
    <2>2. JobChanges(j, m) /\ job[j].state \in {"sending", "accepted"}
      BY <1>7 DEF Failed, Active
    <2>3. (s = "waiting" /\ job[j].tries + 1 < Attempts) \/ s = "failed"
      BY DEF Retryable
    <2> HIDE DEF m, s
    <2>4. LedgerOf(m)
      BY <1>1, <1>2, <2>1, <2>2, <2>3 DEF LedgerOf, Owed
    <2> QED  BY <2>2, <2>4
  <1>8. CASE Stalled(j)
    <2> DEFINE s == IF job[j].stalls < MaxStalls THEN "waiting" ELSE "failed"
               m == [job[j] EXCEPT !.stalls = @ + 1, !.state = s]
    <2>1. /\ m.state = s /\ m.sent = job[j].sent
          /\ m.tries = job[j].tries /\ m.stalls = job[j].stalls + 1
      BY <1>1 DEF MailJob
    <2>2. JobChanges(j, m) /\ job[j].state \in {"sending", "accepted"}
      BY <1>8 DEF Stalled, Active
    <2>3. (s = "waiting" /\ job[j].stalls < MaxStalls) \/ s = "failed"
      OBVIOUS
    <2> HIDE DEF m, s
    <2>4. LedgerOf(m)
      BY <1>1, <1>2, <2>1, <2>2, <2>3 DEF LedgerOf, Owed
    <2> QED  BY <2>2, <2>4
  <1> QED  BY <1>3, <1>4, <1>5, <1>6, <1>7, <1>8 DEF Deliver, SendMail, Dispatch

\* Every step keeps the ledger of every mail: only jobs change it, and the end
\* of a process only takes the process away.
LEMMA NextLedger == StageInv /\ StageInv' /\ Ledger /\ [Next]_vars => Ledger'
  <1> SUFFICES ASSUME StageInv, StageInv', Ledger, [Next]_vars PROVE Ledger'
    OBVIOUS
  <1>1. Types /\ Types'
    BY DEF StageInv
  <1>2. ASSUME NEW j \in Mails, NEW m, LedgerOf(m), JobChanges(j, m)
        PROVE  Ledger'
    <2>1. \A k \in Mails : job'[k] = IF k = j THEN m ELSE job[k]
      BY <1>1, <1>2 DEF JobChanges, Types
    <2> QED  BY <1>1, <1>2, <2>1, LedgerKept DEF Ledger
  <1>3. ASSUME NEW j \in Mails, Deliver(j) \/ \E r \in Requests : SendMail(r, j)
        PROVE  Ledger'
    BY <1>1, <1>2, <1>3, JobLedger
  <1>4. ASSUME NEW p \in Processes, Exits(p)
        PROVE  Ledger'
    <2>1. \A k \in Mails : \/ job'[k] = job[k]
                           \/ job'[k] = [job[k] EXCEPT !.by = NoProcess]
      BY <1>4 DEF Exits
    <2> QED  BY <1>1, <2>1, LedgerKept DEF Ledger
  <1>5. CASE job' = job
    BY <1>5 DEF Ledger, LedgerOf, Owed
  <1>6. ASSUME NEW p \in Processes, Process(p)
        PROVE  job' = job \/ Exits(p)
    BY <1>6 DEF Process, Starts, Boot, Connect, ConnectRedis, InitModules, Listening,
                BootFails, Signal, SignalKills, CloseServer, CloseInfra, CloseWorker,
                CloseQueue, DisconnectRedis, Disconnect, CloseFails, Deadline, Tick,
                ForcedExit, Kill, Crash, Goes
  <1>7. ASSUME NEW r \in Requests, Leave(r) \/ Respond(r) \/ \E p \in Processes : Arrive(r, p)
        PROVE  job' = job
    BY <1>7 DEF Leave, Respond, Arrive
  <1> QED  BY <1>3, <1>4, <1>5, <1>6, <1>7 DEF Next, vars

\* A mail is sent again only for a failed attempt or a stalled job, a completed
\* job was sent, and retries end, for any number of attempts, stalls and faults.
THEOREM MailLedger == Spec => []MailAccounted
  <1>1. StageInv /\ Ledger => MailAccounted
    <2> SUFFICES ASSUME StageInv, Ledger, NEW j \in Mails
                 PROVE  /\ job[j].sent <= job[j].tries + job[j].stalls + 1
                        /\ job[j].state = "completed" => job[j].sent > 0
                        /\ job[j].tries <= Attempts /\ job[j].stalls <= MaxStalls + 1
      BY DEF MailAccounted
    <2>1. /\ job[j].tries \in Nat /\ job[j].stalls \in Nat /\ job[j].sent \in Nat
      BY DEF StageInv, Types, MailJob
    <2> QED  BY <2>1 DEF Ledger, LedgerOf, Owed
  <1>2. Spec => []Ledger
    BY InitLedger, NextLedger, Staging, PTL DEF Spec
  <1> QED  BY <1>1, <1>2, Staging, PTL

=============================================================================
