-------------------------------- MODULE Jobs --------------------------------
(***************************************************************************)
(* Paying for work through the ERC-8183 escrow: the job tools of the MCP   *)
(* server (packages/mcp/src/server.ts), the `job' commands of the CLI,     *)
(* which keep no ledger, and the escrow client (packages/escrow).  The     *)
(* contract, the provider and the chain are external.                      *)
(*                                                                         *)
(* Every call to arc_job_fund has its row in the ledger; a call is named   *)
(* by a number, and its row is newer the larger the number.                *)
(***************************************************************************)
EXTENDS Integers, FiniteSets

CONSTANTS
    JobIds,          \* jobs whose client the agent is
    JobCalls,        \* calls to arc_job_fund: 1..n
    Budgets,         \* budgets a provider may set
    JobPaymentCap, JobDayCap,    \* two caps of the policy
    MaxJobFaults

ASSUME JobsAssumption ==
    /\ IsFiniteSet(JobIds) /\ JobCalls \subseteq Nat /\ IsFiniteSet(JobCalls)
    /\ Budgets \subseteq Nat \ {0} /\ IsFiniteSet(Budgets)
    /\ JobPaymentCap \in Nat /\ JobDayCap \in Nat /\ MaxJobFaults \in Nat

NoJob == "no job"
CLI == "cli"

VARIABLES
    job,             \* the contract's jobs
    escrowed,        \* what the contract took of the agent for each job
    approved,        \* the agent's allowance to the contract
    jobCall,         \* calls under way
    jobRow,          \* rail_payments, the escrow rows
    cliFunded,       \* history: jobs funded from the command line
    steady,          \* a run in which nothing fails and no budget moves under a call
    jobFaults

jobsVars == <<job, escrowed, approved, jobCall, jobRow, cliFunded, steady, jobFaults>>

NewCall == [pc |-> "new", job |-> NoJob, seen |-> 0]
NoJobRow == [status |-> "none", job |-> NoJob, amount |-> 0]
JobStatuses == {"Open", "Funded", "Submitted", "Completed", "Rejected", "Expired"}

JobsTypeOK ==
    /\ job \in [JobIds -> [status : JobStatuses, budget : Budgets \cup {0}]]
    /\ escrowed \in [JobIds -> Budgets \cup {0}]
    /\ approved \in Nat
    /\ jobCall \in [JobCalls -> [pc : {"new", "read", "recorded", "funding", "approved", "sent", "failing", "done"},
                                 job : JobIds \cup {NoJob}, seen : Budgets \cup {0}]]
    /\ jobRow \in [JobCalls -> [status : {"none", "rejected", "signed", "settled", "failed"},
                                job : JobIds \cup {NoJob}, amount : Budgets \cup {0}]]
    /\ cliFunded \subseteq JobIds /\ steady \in BOOLEAN /\ jobFaults \in 0..MaxJobFaults

JobsInit ==
    /\ job = [j \in JobIds |-> [status |-> "Open", budget |-> 0]]
    /\ escrowed = [j \in JobIds |-> 0] /\ approved = 0
    /\ jobCall = [c \in JobCalls |-> NewCall] /\ jobRow = [c \in JobCalls |-> NoJobRow]
    /\ cliFunded = {} /\ steady \in BOOLEAN /\ jobFaults = 0

JobFault == ~steady /\ jobFaults < MaxJobFaults /\ jobFaults' = jobFaults + 1

-----------------------------------------------------------------------------
(* The contract *)

\* setBudget, by the provider, as long as the job is open.
ProviderSets(j, b) ==
    /\ job[j].status = "Open" /\ b # job[j].budget
    /\ steady => job[j].budget = 0 /\ \A c \in JobCalls : jobCall[c].job # j
    /\ job' = [job EXCEPT ![j].budget = b]
    /\ UNCHANGED <<escrowed, approved, jobCall, jobRow, cliFunded, steady, jobFaults>>

Submits(j) ==
    /\ job[j].status = "Funded"
    /\ job' = [job EXCEPT ![j].status = "Submitted"]
    /\ UNCHANGED <<escrowed, approved, jobCall, jobRow, cliFunded, steady, jobFaults>>

\* Past its expiry, claimRefund returns what was taken.
Expires(j) ==
    /\ job[j].status \in {"Open", "Funded", "Submitted"} /\ ~steady
    /\ job' = [job EXCEPT ![j].status = "Expired"]
    /\ escrowed' = [escrowed EXCEPT ![j] = 0]
    /\ UNCHANGED <<approved, jobCall, jobRow, cliFunded, steady, jobFaults>>

\* fund, on chain: an open job whose budget the allowance covers.
Fundable(j) == job[j].status = "Open" /\ job[j].budget > 0 /\ job[j].budget <= approved

ContractTakes(j) ==
    /\ Fundable(j)
    /\ job' = [job EXCEPT ![j].status = "Funded"]
    /\ escrowed' = [escrowed EXCEPT ![j] = job[j].budget]
    /\ approved' = approved - job[j].budget

-----------------------------------------------------------------------------
(* arc_job_fund *)

JobSpent ==
    LET counted == {c \in JobCalls : jobRow[c].status \in {"signed", "settled"}}
        units == {u \in counted \X (1..(CHOOSE b \in Budgets : \A o \in Budgets : o <= b)) :
                    u[2] <= jobRow[u[1]].amount}
    IN Cardinality(units)

CallAt(c, pc) == jobCall' = [jobCall EXCEPT ![c].pc = pc]
RowIs(c, status) == jobRow' = [jobRow EXCEPT ![c].status = status]

\* The job is read.
JobRead(c, j) ==
    /\ jobCall[c].pc = "new" /\ \A d \in JobCalls : d < c => jobCall[d].pc # "new"
    /\ jobCall' = [jobCall EXCEPT ![c] = [pc |-> "read", job |-> j, seen |-> job[j].budget]]
    /\ UNCHANGED <<job, escrowed, approved, jobRow, cliFunded, steady, jobFaults>>

\* evaluatePolicy on what the ledger says was spent (the other rules are those
\* of SpendPolicy), and the row: rejected, or signed before anything is sent.
JobDecided(c) ==
    LET b == jobCall[c].seen
        allowed == b <= JobPaymentCap /\ JobSpent + b <= JobDayCap
    IN /\ jobCall[c].pc = "read"
       /\ jobRow' = [jobRow EXCEPT ![c] = [status |-> IF allowed THEN "signed" ELSE "rejected",
                                           job |-> jobCall[c].job, amount |-> b]]
       /\ CallAt(c, IF allowed THEN "recorded" ELSE "done")
       /\ UNCHANGED <<job, escrowed, approved, cliFunded, steady, jobFaults>>

\* EscrowClient.fund reads the job again, refuses one that is not open or has
\* no budget, and approves what is not approved yet.
FundReadsJob(c) ==
    LET j == jobCall[c].job IN
    /\ jobCall[c].pc = "recorded"
    /\ IF job[j].status # "Open" \/ job[j].budget = 0
       THEN CallAt(c, "failing") /\ UNCHANGED approved
       ELSE IF approved < job[j].budget
       THEN approved' = job[j].budget /\ CallAt(c, "approved")
       ELSE UNCHANGED approved /\ CallAt(c, "approved")
    /\ UNCHANGED <<job, escrowed, jobRow, cliFunded, steady, jobFaults>>

\* fund is simulated and sent: what cannot be done fails here.
FundSent(c) ==
    /\ jobCall[c].pc = "approved"
    /\ CallAt(c, IF Fundable(jobCall[c].job) THEN "sent" ELSE "failing")
    /\ UNCHANGED <<job, escrowed, approved, jobRow, cliFunded, steady, jobFaults>>

\* It is mined: taken, or reverted because another call came first.  The
\* receipt may not come, or the row's update fail, although it was taken.
JobMined(c) ==
    /\ jobCall[c].pc = "sent"
    /\ \/ ContractTakes(jobCall[c].job) /\ CallAt(c, "done") /\ UNCHANGED jobFaults
       \/ ContractTakes(jobCall[c].job) /\ CallAt(c, "failing") /\ JobFault
       \/ /\ ~Fundable(jobCall[c].job) /\ CallAt(c, "failing")
          /\ UNCHANGED <<job, escrowed, approved, jobFaults>>
    /\ UNCHANGED <<jobRow, cliFunded, steady>>

\* Any error marks the call's row as failed.
JobFails(c) ==
    /\ jobCall[c].pc = "failing"
    /\ RowIs(c, "failed") /\ CallAt(c, "done")
    /\ UNCHANGED <<job, escrowed, approved, cliFunded, steady, jobFaults>>

\* `job fund' of the command line: no policy, no row.
CliFunds(j) ==
    /\ ~steady /\ job[j].status = "Open" /\ job[j].budget > 0
    /\ job' = [job EXCEPT ![j].status = "Funded"]
    /\ escrowed' = [escrowed EXCEPT ![j] = job[j].budget]
    /\ approved' = IF approved < job[j].budget THEN 0 ELSE approved - job[j].budget
    /\ cliFunded' = cliFunded \cup {j}
    /\ UNCHANGED <<jobCall, jobRow, steady, jobFaults>>

-----------------------------------------------------------------------------
(* arc_job_decide *)

\* Slip: a rejected row of the job is closed as well.
OpenRowAny(j, c) ==
    /\ jobRow[c].job = j
    /\ \A d \in JobCalls : jobRow[d].job = j => d <= c

\* The newest of the last rows that is signed and about this job.
OpenRow(j, c) ==
    /\ jobRow[c].job = j /\ jobRow[c].status = "signed"
    /\ \A d \in JobCalls : jobRow[d].job = j /\ jobRow[d].status = "signed" => d <= c

\* On chain first; the rows are read and the row closed after it, or not, when
\* the receipt does not come.  The CLI's command stops after the chain.
JobDecide(j, complete) ==
    LET closed == IF complete THEN "settled" ELSE "failed" IN
    /\ job[j].status = "Submitted" \/ (~complete /\ job[j].status = "Funded")
    /\ job' = [job EXCEPT ![j].status = IF complete THEN "Completed" ELSE "Rejected"]
    /\ escrowed' = [escrowed EXCEPT ![j] = IF complete THEN @ ELSE 0]
    /\ \/ /\ \E c \in JobCalls : OpenRow(j, c) /\ RowIs(c, closed)
          /\ UNCHANGED jobFaults
       \/ /\ ~\E c \in JobCalls : OpenRow(j, c)
          /\ UNCHANGED <<jobRow, jobFaults>>
       \/ JobFault /\ UNCHANGED jobRow
    /\ UNCHANGED <<approved, jobCall, cliFunded, steady>>

-----------------------------------------------------------------------------
JobsNext ==
    \/ \E j \in JobIds :
         \/ \E b \in Budgets : ProviderSets(j, b)
         \/ Submits(j) \/ Expires(j) \/ CliFunds(j)
         \/ \E complete \in BOOLEAN : JobDecide(j, complete)
    \/ \E c \in JobCalls :
         \/ \E j \in JobIds : JobRead(c, j)
         \/ JobDecided(c) \/ FundReadsJob(c) \/ FundSent(c) \/ JobMined(c) \/ JobFails(c)

JobsSpec == JobsInit /\ [][JobsNext]_jobsVars

-----------------------------------------------------------------------------
(* Properties *)

\* The ledger says of the jobs what the chain says: money the tool put in
\* escrow was allowed by the policy and has its row, a row is settled only when
\* its job was completed and the policy had let it through; and as long as
\* nothing fails and no budget moves, what is in escrow or paid out still
\* counts as spent, however many calls fund the same job at once.
JobsAccounted ==
    LET rows(j) == {c \in JobCalls : jobRow[c].job = j /\ jobRow[c].status # "rejected"}
        counted(j) == {c \in rows(j) : jobRow[c].status \in {"signed", "settled"}}
    IN /\ \A j \in JobIds : escrowed[j] > 0 /\ j \notin cliFunded => rows(j) # {}
       /\ \A c \in JobCalls : jobRow[c].status = "settled" =>
            /\ job[jobRow[c].job].status = "Completed"
            /\ jobRow[c].amount <= JobPaymentCap
       /\ steady => \A j \in JobIds : escrowed[j] > 0 =>
            \E c \in counted(j) : jobRow[c].amount = escrowed[j]
=============================================================================
