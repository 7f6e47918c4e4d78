------------------------------ MODULE MCServices ------------------------------
(***************************************************************************)
(* Runs of the services that spend and sell: one run, one of them at a     *)
(* time.  `running' picks it; the others stay as they start.               *)
(***************************************************************************)
EXTENDS Think, Facilitator, Lane, Jobs, Catalogue, Storefront, Console

CONSTANTS t0, t1, b1, b2, p1, p2, own, r1, k0, k1, cheap, dear

VARIABLE running

servicesVars == <<running, thinkVars, facVars, laneVars, jobsVars, catVars, shopVars, consoleVars>>

MCPrice == [t \in Tools |-> IF t = t0 THEN 0 ELSE 1]
MCHostings == {{"hired"}, {"timer"}}
MCCircleLists == {<<>>, <<<<k0, cheap>>, <<k1, dear>>>>}
MCAwakenings == {{"market"}, {"market", "search"}, {"circle", "search"}, {"circle", "labels"}}

MCQuotings == {<<10, 10, 10>>, <<10, 11, 0>>, <<20, 20, 20>>, <<0, 10, 0>>}
MCOpenings == {<<{"paid"}, {1}>>, <<{"paid"}, {1, 2}>>, <<{"direct"}, {1}>>, <<{"upto"}, {1}>>,
               <<{"lightning"}, {1, 2}>>, <<{"proxy"}, {1}>>}

\* A shop varies in what its doors and its calls can tell apart.
ShopOpens ==
    /\ \/ running = "shop"
       \/ shop.doors = {"direct"} /\ shop.tag = 1
    /\ shop.doors # {"paid"} \/ shop.calls = {1, 2} => shop.route = "npm"
    /\ shop.doors \in {{"direct"}, {"lightning"}, {"proxy"}} \/ shop.calls = {1, 2} => shop.discovery = "none"
    /\ shop.doors \in {{"direct"}, {"lightning"}} \/ shop.calls = {1, 2} => ~shop.solana
    /\ shop.doors \in {{"lightning"}, {"proxy"}} \/ shop.calls = {1, 2} => shop.tag = 8
    /\ shop.doors = {"proxy"} \/ quotes = <<10, 10, 10>>

ServicesInit ==
    /\ running \in {"think", "facilitator", "lane", "jobs", "catalogue", "shop", "console"}
    /\ ThinkInit /\ (running # "think" => hosted = {"timer"})
    /\ FacInit /\ LaneInit
    /\ JobsInit /\ (running # "jobs" => steady)
    /\ CatInit /\ (running # "catalogue" => about = {"market"}) /\ ("circle" \notin about => circleList # <<>>)
    /\ ShopInit /\ ShopOpens
    /\ ConsoleInit /\ (running # "console" => ~calm)

\* A visitor who wants no motion clicks once.
ServicesNext ==
    /\ UNCHANGED running
    /\ \/ running = "think" /\ ThinkNext /\ UNCHANGED <<facVars, laneVars, jobsVars, catVars, shopVars, consoleVars>>
       \/ running = "facilitator" /\ FacNext /\ UNCHANGED <<thinkVars, laneVars, jobsVars, catVars, shopVars, consoleVars>>
       \/ running = "lane" /\ LaneNext /\ UNCHANGED <<thinkVars, facVars, jobsVars, catVars, shopVars, consoleVars>>
       \/ running = "jobs" /\ JobsNext /\ UNCHANGED <<thinkVars, facVars, laneVars, catVars, shopVars, consoleVars>>
       \/ running = "catalogue" /\ CatNext /\ UNCHANGED <<thinkVars, facVars, laneVars, jobsVars, shopVars, consoleVars>>
       \/ running = "shop" /\ ShopNext /\ UNCHANGED <<thinkVars, facVars, laneVars, jobsVars, catVars, consoleVars>>
       \/ running = "console" /\ ConsoleNext /\ (calm => visits' <= 1) /\ UNCHANGED <<thinkVars, facVars, laneVars, jobsVars, catVars, shopVars>>

\* The fairness of each service, while it runs.
ServicesFairness ==
    /\ \A s \in Services : WF_thinkVars(running = "think" /\ s \in hosted /\ SessionStep(s))
    /\ WF_thinkVars(running = "think" /\ (TimerStarts \/ TimerRecords))
    /\ WF_thinkVars(running = "think" /\ (WorkerReadsWallet \/ WorkerAnswers))
    /\ WF_thinkVars(running = "think" /\ RowAges)
    /\ \A b \in Buyers : WF_thinkVars(running = "think" /\ Settles(b))

ServicesSpec == ServicesInit /\ [][ServicesNext]_servicesVars /\ ServicesFairness

ServicesTypeOK ==
    /\ ThinkTypeOK /\ FacTypeOK /\ LaneTypeOK /\ JobsTypeOK /\ CatTypeOK
    /\ ShopTypeOK /\ ConsoleTypeOK

\* Again and again everything a thinking run began has come to an end.
ServicesGoOn == []<>AllEnded
===============================================================================
