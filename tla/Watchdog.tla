------------------------------ MODULE Watchdog ------------------------------
(***************************************************************************)
(* The collector as a process (packages/collector/src/main.ts, probe.ts,   *)
(* alerts.ts, health.ts): the head worker may hang without crashing; the   *)
(* probe sees that nothing is ingested while the chain moves, raises an    *)
(* alert and asks the process to stop; whoever does not stop in time is    *)
(* left behind, and the supervisor starts a fresh one.  Time goes in ticks.*)
(***************************************************************************)
EXTENDS Integers

CONSTANTS
    StallAlert, StallRestart,    \* ticks: stallAlertSeconds, stallRestartSeconds (0: never)
    Grace,                       \* ticks a shutdown may take (30 s)
    Repeat,                      \* ticks before an alert is sent again (15 min)
    MaxDogFaults                 \* bound on what hangs or fails

ASSUME WatchdogAssumption ==
    /\ StallAlert \in Nat \ {0} /\ StallRestart \in Nat
    /\ StallRestart # 0 => StallRestart >= StallAlert
    /\ Grace \in Nat \ {0} /\ Repeat \in Nat \ {0} /\ MaxDogFaults \in Nat

VARIABLES
    process,      \* "down", "starting", "up", "stopping"
    headWorker,   \* "working", "hung"
    newBlock,     \* has the chain a block above the known head?
    uningested,   \* ... or the known head one that is not stored?
    sinceIngest, sinceHead,   \* ticks since the last block stored, or the start; since the head moved
    prober,       \* the probe: "sleeping", "judging"
    stallAlert,   \* Alerter.active: ticks since the stall alert went out, NoAlert
    stopFor,      \* ticks since the signal
    dogFaults

dogVars == <<process, headWorker, newBlock, uningested, sinceIngest, sinceHead, prober, stallAlert, stopFor, dogFaults>>

NoAlert == -1
Forever == StallRestart + 1    \* longer than any limit below

WatchdogTypeOK ==
    /\ process \in {"down", "starting", "up", "stopping"}
    /\ headWorker \in {"working", "hung"}
    /\ newBlock \in BOOLEAN /\ uningested \in BOOLEAN
    /\ sinceIngest \in 0..Forever /\ sinceHead \in 0..Forever
    /\ prober \in {"sleeping", "judging"}
    /\ stallAlert \in NoAlert..Repeat
    /\ stopFor \in 0..Grace
    /\ dogFaults \in 0..MaxDogFaults

WatchdogInit ==
    /\ process = "down" /\ headWorker = "working"
    /\ newBlock = FALSE /\ uningested = FALSE
    /\ sinceIngest = 0 /\ sinceHead = Forever
    /\ prober = "sleeping" /\ stallAlert = NoAlert /\ stopFor = 0
    /\ dogFaults = 0

DogFault ==
    /\ dogFaults < MaxDogFaults
    /\ dogFaults' = dogFaults + 1

Older(n, max) == IF n < max THEN n + 1 ELSE max

\* Slip: nobody waits for the shutdown.
OverdueNever == FALSE

\* Is the timer of the shutdown due?
Overdue == process = "stopping" /\ stopFor = Grace

\* A start, or the next block for a worker that works, takes less than
\* StallRestart: a probe is judged and a shutdown ended in time.
Due ==
    \/ process = "starting" /\ sinceIngest = StallRestart - 1
    \/ process = "up" /\ headWorker = "working" /\ (newBlock \/ uningested) /\ sinceIngest >= StallRestart
    \/ process = "stopping" /\ stopFor = Grace
    \/ process = "up" /\ prober = "judging"

Ticks ==
    /\ process # "down" /\ ~Due
    /\ sinceIngest' = Older(sinceIngest, Forever) /\ sinceHead' = Older(sinceHead, Forever)
    /\ stallAlert' = IF stallAlert = NoAlert THEN NoAlert ELSE Older(stallAlert, Repeat)
    /\ stopFor' = IF process = "stopping" THEN stopFor + 1 ELSE 0
    /\ UNCHANGED <<process, headWorker, newBlock, uningested, prober, dogFaults>>

\* The chain has another block.
BlockMade ==
    /\ ~newBlock /\ newBlock' = TRUE
    /\ UNCHANGED <<process, headWorker, uningested, sinceIngest, sinceHead, prober, stallAlert, stopFor, dogFaults>>

-----------------------------------------------------------------------------

\* The supervisor starts it.
Spawned ==
    /\ process = "down" /\ process' = "starting"
    /\ headWorker' = "working" /\ prober' = "sleeping" /\ stallAlert' = NoAlert
    /\ sinceIngest' = 0 /\ sinceHead' = Forever /\ stopFor' = 0
    /\ UNCHANGED <<newBlock, uningested, dogFaults>>

\* The database is migrated, the chain verified, the cursors are read; then the
\* workers go.  Any of it may fail: the process exits.
Started ==
    /\ process = "starting"
    /\ \/ process' = "up" /\ UNCHANGED dogFaults
       \/ process' = "down" /\ DogFault
    /\ UNCHANGED <<headWorker, newBlock, uningested, sinceIngest, sinceHead, prober, stallAlert, stopFor>>

\* The head worker polls the head and stores what is missing.
HeadIngests ==
    /\ process = "up" /\ headWorker = "working" /\ (newBlock \/ uningested)
    /\ sinceIngest' = 0
    /\ sinceHead' = IF newBlock THEN 0 ELSE sinceHead
    /\ newBlock' = FALSE /\ uningested' = FALSE
    /\ UNCHANGED <<process, headWorker, prober, stallAlert, stopFor, dogFaults>>

\* An await of the head worker never returns.
HeadHangs ==
    /\ process = "up" /\ headWorker = "working" /\ DogFault
    /\ headWorker' = "hung"
    /\ UNCHANGED <<process, newBlock, uningested, sinceIngest, sinceHead, prober, stallAlert, stopFor>>

\* Every endpoint is asked for its head.
ProbeAsks ==
    /\ process = "up" /\ prober = "sleeping"
    /\ prober' = "judging"
    /\ sinceHead' = IF newBlock THEN 0 ELSE sinceHead
    /\ newBlock' = FALSE /\ uningested' = (uningested \/ newBlock)
    /\ UNCHANGED <<process, headWorker, sinceIngest, stallAlert, stopFor, dogFaults>>

\* The row of an endpoint cannot be written: this time nothing is judged.
ProbeFails ==
    /\ process = "up" /\ prober = "sleeping" /\ DogFault
    /\ UNCHANGED <<process, headWorker, newBlock, uningested, sinceIngest, sinceHead, prober, stallAlert, stopFor>>

Stalled == sinceIngest > StallAlert /\ sinceHead < StallAlert

\* Slip: the alert is raised, and that is all.
StuckNever == FALSE

Stuck == StallRestart > 0 /\ sinceIngest > StallRestart /\ sinceHead < StallAlert

\* raise and clear of the alert, which repeats while its reason lasts.
Alerted ==
    IF ~Stalled THEN NoAlert
    ELSE IF stallAlert = NoAlert \/ stallAlert = Repeat THEN 0 ELSE stallAlert

\* The alerts are judged, and a process that is stuck is asked to stop.
ProbeJudges ==
    /\ process = "up" /\ prober = "judging"
    /\ prober' = "sleeping"
    /\ stallAlert' = Alerted
    /\ process' = IF Stuck THEN "stopping" ELSE process
    /\ stopFor' = 0
    /\ UNCHANGED <<headWorker, newBlock, uningested, sinceIngest, sinceHead, dogFaults>>

\* The supervisor asks, or somebody does.
Signalled ==
    /\ process = "up" /\ DogFault /\ process' = "stopping" /\ stopFor' = 0
    /\ UNCHANGED <<headWorker, newBlock, uningested, sinceIngest, sinceHead, prober, stallAlert>>

\* Every worker has stopped: the process ends; or the timer ends it.
Stopped ==
    /\ (process = "stopping" /\ headWorker = "working") \/ Overdue
    /\ process' = "down"
    /\ UNCHANGED <<headWorker, newBlock, uningested, sinceIngest, sinceHead, prober, stallAlert, stopFor, dogFaults>>

WatchdogNext ==
    \/ Ticks \/ BlockMade \/ Spawned \/ Started \/ HeadIngests \/ HeadHangs
    \/ ProbeAsks \/ ProbeFails \/ ProbeJudges \/ Signalled \/ Stopped

WatchdogFairness ==
    /\ SF_dogVars(Ticks) /\ WF_dogVars(BlockMade) /\ WF_dogVars(Spawned) /\ WF_dogVars(Started)
    /\ WF_dogVars(HeadIngests) /\ WF_dogVars(ProbeAsks) /\ WF_dogVars(ProbeJudges)
    /\ WF_dogVars(Stopped)

WatchdogSpec == WatchdogInit /\ [][WatchdogNext]_dogVars /\ WatchdogFairness

-----------------------------------------------------------------------------
(* Properties *)

\* "A worker that hangs does not crash, so nothing restarts it" (config.ts): while
\* the chain moves, a process whose head worker hangs is replaced, and blocks are
\* ingested again and again.
Ingesting == process = "up" /\ headWorker = "working" /\ sinceIngest = 0

HungIsRestarted == []<>Ingesting
=============================================================================
