------------------------------ MODULE MCCollector ------------------------------
(***************************************************************************)
(* Runs of the collector: one run, one part at a time.  `running' picks    *)
(* it; the others stay as they start.                                      *)
(***************************************************************************)
EXTENDS Ingest, RpcPool, Watchers, Enrich, Watchdog

CONSTANTS e1, e2, c1, c2

VARIABLE running

collectorVars == <<running, vars, poolVars, watchersVars, enrichVars, dogVars>>

MCPriority == [e \in Endpoints |-> IF e = e1 THEN 0 ELSE 1]
MCOurs == [e \in Endpoints |-> "ours"]
MCNetworks == {[e \in Endpoints |-> IF e = e1 THEN "ours" ELSE k] : k \in {"ours", "other genesis"}}
MCLimit == [e \in Endpoints |-> IF e = e1 THEN 2 ELSE 1]
MCTold == [e \in Endpoints |-> IF e = e1 THEN 2 ELSE 0]
MCExcludes == [c \in Callers |-> IF c = c1 THEN {{}, {e1}} ELSE {{}}]

MCAwake == {{"token"}, {"fx"}, {"payments"}}
MCEvents == [w \in Watchers |-> IF w = "token" THEN {"burn", "payout"} ELSE {"pair"}]
MCFrom == [w \in Watchers |-> 1]

CollectorInit ==
    /\ running \in {"ingest", "pool", "watchers", "enrich", "watchdog"}
    /\ Init
    /\ PoolInit /\ (running # "pool" => serves = MCOurs /\ boundTo = NoChain)
    /\ WatchersInit /\ (running # "watchers" => awake = {"token"} /\ startBlock = 0)
    /\ EnrichInit /\ WatchdogInit

CollectorNext ==
    /\ UNCHANGED running
    /\ \/ /\ running = "ingest" /\ Next
          /\ UNCHANGED <<poolVars, watchersVars, enrichVars, dogVars>>
       \/ /\ running = "pool" /\ PoolNext
          /\ UNCHANGED <<vars, watchersVars, enrichVars, dogVars>>
       \/ /\ running = "watchers" /\ WatchersNext
          /\ UNCHANGED <<vars, poolVars, enrichVars, dogVars>>
       \/ /\ running = "enrich" /\ EnrichNext
          /\ UNCHANGED <<vars, poolVars, watchersVars, dogVars>>
       \/ /\ running = "watchdog" /\ WatchdogNext
          /\ UNCHANGED <<vars, poolVars, watchersVars, enrichVars>>

\* The fairness of each part, while it runs.
CollectorFairness ==
    /\ \A c \in Callers : WF_poolVars(running = "pool" /\ RequestStep(c))
    /\ WF_watchersVars(running = "watchers" /\ HeadPolled)
    /\ WF_watchersVars(running = "watchers" /\ HeadLoads)
    /\ WF_watchersVars(running = "watchers" /\ HeadPasses)
    /\ \A w \in Watchers : WF_watchersVars(running = "watchers" /\ WatchStep(w))
    /\ WF_watchersVars(running = "watchers" /\ PaymentsStep)
    /\ WF_enrichVars(running = "enrich" /\ EnrichStep)
    /\ WF_enrichVars(running = "enrich" /\ CatchesUp)
    /\ SF_dogVars(running = "watchdog" /\ Ticks)
    /\ WF_dogVars(running = "watchdog" /\ BlockMade)
    /\ WF_dogVars(running = "watchdog" /\ ProbeJudges)
    /\ WF_dogVars(running = "watchdog" /\ HeadIngests)
    /\ WF_dogVars(running = "watchdog" /\ ProbeAsks)
    /\ WF_dogVars(running = "watchdog" /\ (Spawned \/ Started \/ Stopped))
    /\ WF_vars(running = "ingest" /\ Boot)
    /\ SF_vars(running = "ingest" /\ PollHead(chain))
    /\ WF_vars(running = "ingest" /\ HeadStep)
    /\ WF_vars(running = "ingest" /\ (PickGap \/ FillStep \/ \E b \in Blocks : FillStore(b)))
    /\ SF_vars(running = "ingest" /\ ReadHoles)
    /\ WF_vars(running = "ingest" /\ ReportHole)
    /\ <>[][~ChunkMissed]_vars

CollectorSpec == CollectorInit /\ [][CollectorNext]_collectorVars /\ CollectorFairness

CollectorTypeOK ==
    /\ TypeOK /\ PoolTypeOK /\ WatchersTypeOK
    /\ EnrichTypeOK /\ WatchdogTypeOK

\* Again and again, whatever failed on the way: every block of the range and
\* every gap is in, every request has its answer, every worker has caught up,
\* every row is enriched, and a fresh process ingests in place of one that hung
\* (EventuallyComplete, RequestsEnd, IndexesCatchUp, EverythingEnriched and
\* HungIsRestarted of the parts).
Settled(c) ==
    CASE running = "ingest" -> Complete
      [] running = "pool" -> Served(c)
      [] running = "watchers" -> AllCaughtUp
      [] running = "enrich" -> AllEnriched
      [] running = "watchdog" -> Ingesting
      [] OTHER -> TRUE

CollectorGoesOn == \A c \in Callers : []<>Settled(c)
================================================================================
