SPECIFICATION FairSpec
CONSTANTS
    Webs = {"web"}
    Inline = {"web"}
    Workers = {"worker"}
    NoProcess = NoProcess
    Requests = {"r1"}
    Mails = {"m1"}
    ShutdownTimeout = 1
    WebKill = 1
    WorkerKill = 3
    Attempts = 3
    MaxStalls = 1
    MaxFaults = 3
INVARIANTS
    TypeOK
    InfraWhileWorking
    MailAccounted
PROPERTIES
    SignalledStops
    MailSettles
