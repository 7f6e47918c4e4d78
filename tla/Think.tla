-------------------------------- MODULE Think --------------------------------
(***************************************************************************)
(* The agent that pays for its own thinking (packages/mcp/src/think*.ts)   *)
(* and the two services that run it with one wallet: the timer's run,      *)
(* recorded for the page (`think --record'), and the worker that runs it   *)
(* for buyers of /v1/upto/think (packages/api/src/upto.ts).  A session     *)
(* takes one step per answer it awaits.  Amounts are units of USDC.        *)
(***************************************************************************)
EXTENDS Integers, FiniteSets

CONSTANTS
    Hostings,        \* which services a host runs: a set of sets of Services
    Buyers,
    Tools, Price,    \* what searches can return, and its listed price
    UptoCeiling,     \* THINK_CEILING_USDC
    UptoFee,         \* THINK_FEE_USDC
    TimerBudget,     \* --budget of the timer's run
    ThoughtCeiling,  \* --ceiling
    MaxSteps,
    Deposits,        \* what the wallet may hold at the start
    MaxThinkFaults   \* bound on lost answers, failed writes and crashes

Services == {"hired", "timer"}

\* What a reply of the brain may be, if it names no tool.
Words == {"none", "unreadable", "answer", "search", "other", "bad price"}

ASSUME ThinkAssumption ==
    /\ Hostings \subseteq SUBSET Services
    /\ Price \in [Tools -> Nat]
    /\ UptoFee \in Nat /\ UptoCeiling \in Nat /\ UptoFee <= UptoCeiling
    /\ TimerBudget \in Nat /\ ThoughtCeiling \in Nat \ {0}
    /\ MaxSteps \in Nat \ {0}
    /\ Deposits \subseteq Nat
    /\ MaxThinkFaults \in Nat
    /\ Tools \cap Words = {}

NoTool == "no tool"
Nobody == "nobody"
Unknown == -1

VARIABLES
    hosted,       \* the services of this host, all with the same wallet
    wallet,       \* its balance in Circle Gateway
    session,      \* per service, the run it has under way or ended last
    busy, hirer,  \* the worker's flag, and the buyer whose task it runs
    order,        \* per buyer, the API's side of the request
    row,          \* the row of think_runs the timer's run is kept in
    thinkFaults

thinkVars == <<hosted, wallet, session, busy, hirer, order, row, thinkFaults>>

Ends == {"answered", "budget", "steps", "brain", "time"}
Running == {"loop", "asking", "searching", "fetching", "buying"}
Unread == 0..1

NewSession ==
    [pc |-> "off", thinking |-> 0, tools |-> 0, last |-> 0, found |-> {},
     step |-> 1, unreadable |-> 0, tool |-> NoTool, late |-> FALSE,
     why |-> "none", lost |-> 0]

NoRow == [made |-> FALSE, status |-> "running", shown |-> 0, spent |-> Unknown,
          quiet |-> FALSE, missed |-> FALSE]

NewOrder == [pc |-> "new", bill |-> 0, spent |-> 0]

\* Slip: the agent may spend all the buyer signed for.
WholeCeiling(s) == IF s = "hired" THEN UptoCeiling ELSE TimerBudget

\* What a run may spend: the buyer's ceiling less the fee, or --budget.
Budget(s) == IF s = "hired" THEN UptoCeiling - UptoFee ELSE TimerBudget

Counted(s) == session[s].thinking + session[s].tools

\* Slip: a thought may always cost the ceiling.
CeilingOnly(s) == ThoughtCeiling

Left(s) == Budget(s) - Counted(s)

\* The most the next thought may cost.
Cap(s) == IF Left(s) < ThoughtCeiling THEN Left(s) ELSE ThoughtCeiling

\* What must be left after a purchase, from what the last thought cost.
Reserve(last) == (3 * last) \div 2

ThinkTypeOK ==
    /\ hosted \in Hostings
    /\ wallet \in Nat
    /\ session \in [Services ->
         [pc : {"off", "checking", "starting", "stopped", "threw", "dead", "over"} \cup Running,
          thinking : Nat, tools : Nat, last : Nat, found : SUBSET Tools,
          step : 1..(MaxSteps + 1), unreadable : Unread,
          tool : Tools \cup {NoTool}, late : BOOLEAN,
          why : Ends \cup {"none"}, lost : Nat]]
    /\ busy \in BOOLEAN
    /\ hirer \in Buyers \cup {Nobody}
    /\ order \in [Buyers -> [pc : {"new", "asked", "billed", "settled",
                                   "unsettled", "free", "gone"},
                             bill : Nat, spent : Nat]]
    /\ row \in [made : BOOLEAN, status : Ends \cup {"running", "failed"},
                shown : Nat, spent : Nat \cup {Unknown}, quiet : BOOLEAN,
                missed : BOOLEAN]
    /\ thinkFaults \in 0..MaxThinkFaults

ThinkInit ==
    /\ hosted \in Hostings
    /\ wallet \in Deposits
    /\ session = [s \in Services |-> NewSession]
    /\ busy = FALSE /\ hirer = Nobody
    /\ order = [b \in Buyers |-> NewOrder]
    /\ row = NoRow
    /\ thinkFaults = 0

ThinkFault ==
    /\ thinkFaults < MaxThinkFaults
    /\ thinkFaults' = thinkFaults + 1

-----------------------------------------------------------------------------
(* What the recorder keeps of a run *)

\* One write on the row: done, or reported and skipped.
Write(written) ==
    \/ row' = [written EXCEPT !.quiet = FALSE] /\ UNCHANGED thinkFaults
    \/ row' = [row EXCEPT !.missed = TRUE] /\ ThinkFault

\* A step of the session lands, with what it cost; only the timer records it.
Lands(s, cost) ==
    IF s = "timer" THEN Write([row EXCEPT !.shown = @ + cost])
    ELSE UNCHANGED <<row, thinkFaults>>

\* Slip: a dead run is shown as running for ever.
StatusAsKept(r) == IF r.status \in (Ends \ {"time"}) \cup {"running"} THEN r.status ELSE "failed"

\* How the page shows the row.
StatusShown(r) ==
    IF r.status \notin (Ends \ {"time"}) \cup {"running"} THEN "failed"
    ELSE IF r.status = "running" /\ r.quiet THEN "interrupted" ELSE r.status

\* Slip: the steps are summed, whatever the final count.
SpentSummed(r) == r.shown

SpentShown(r) ==
    IF StatusShown(r) \in {"running", "interrupted"} \/ r.spent = Unknown
    THEN r.shown ELSE r.spent

-----------------------------------------------------------------------------
(* The session: think() *)

Become(s, state) == session' = [session EXCEPT ![s] = state]

Stopped(state, why) == [state EXCEPT !.pc = "stopped", !.why = why]

NextTurn(state) == [state EXCEPT !.pc = "loop", !.step = @ + 1]

\* A turn that starts nothing: steps, budget or time are over.
StopShort(s) ==
    /\ session[s].pc = "loop"
    /\ LET st == session[s] IN
         \/ st.step > MaxSteps /\ Become(s, Stopped(st, "steps"))
         \/ /\ st.step <= MaxSteps /\ Left(s) = 0
            /\ Become(s, Stopped(st, "budget"))
         \/ /\ st.step <= MaxSteps /\ Left(s) > 0 /\ st.late
            /\ Become(s, Stopped(st, "time"))
    /\ UNCHANGED <<hosted, wallet, busy, hirer, order, row, thinkFaults>>

\* The brain is asked; the recorder is told of the call.
AskBrain(s) ==
    /\ session[s].pc = "loop"
    /\ session[s].step <= MaxSteps /\ Left(s) > 0 /\ ~session[s].late
    /\ Become(s, [session[s] EXCEPT !.pc = "asking", !.tool = NoTool])
    /\ Lands(s, 0)
    /\ UNCHANGED <<hosted, wallet, busy, hirer, order>>

\* The rail refuses before signing: the policy, or a price above the cap.
ThoughtRefused(s) ==
    /\ session[s].pc = "asking"
    /\ Become(s, Stopped(session[s], "budget"))
    /\ Lands(s, 0)
    /\ UNCHANGED <<hosted, wallet, busy, hirer, order>>

\* Slip: a purchase may take what the next thought needs.
AffordableNow(s, state, t) == Price[t] <= Budget(s) - (state.thinking + state.tools)

\* Is the listed price within what is left, with a thought in reserve?
Affordable(s, state, t) ==
    Price[t] + Reserve(state.last) <= Budget(s) - (state.thinking + state.tools)

Replies == Words \cup Tools

\* allowedResult: only what a search of this session returned may be bought.
Listed(st, t) == t \in st.found

\* Slip: a reply that cannot be read is asked for twice again.
ToleratedTwice(st) == st.unreadable < 2

\* A reply that cannot be read is asked for once more.
Tolerated(st) == st.unreadable = 0

\* Where the reply of the brain leads: `none' is no completion at all, "bad
\* price" an allowed purchase whose listed price is no amount.
AfterThought(s, st, reply) ==
    CASE reply = "none" \/ (reply = "unreadable" /\ ~Tolerated(st)) -> Stopped(st, "brain")
      [] reply = "unreadable" /\ Tolerated(st) -> NextTurn([st EXCEPT !.unreadable = @ + 1])
      [] reply = "answer" -> Stopped(st, "answered")
      [] reply = "search" -> [st EXCEPT !.pc = "searching", !.unreadable = 0]
      [] reply = "other" -> NextTurn([st EXCEPT !.unreadable = 0])
      [] reply = "bad price" ->
           IF st.found # {} THEN [st EXCEPT !.pc = "threw"] ELSE NextTurn([st EXCEPT !.unreadable = 0])
      [] reply \in Tools ->
           IF ~Listed(st, reply) \/ (Price[reply] > 0 /\ ~Affordable(s, st, reply))
           THEN NextTurn([st EXCEPT !.unreadable = 0])
           ELSE [st EXCEPT !.pc = IF Price[reply] = 0 THEN "fetching" ELSE "buying",
                           !.tool = reply, !.unreadable = 0]

\* The thought is back and cost `paid': nothing when the brain failed.
Thought(s, paid, reply) ==
    /\ session[s].pc = "asking"
    /\ paid <= Cap(s) /\ paid <= wallet
    /\ wallet' = wallet - paid
    /\ LET st == [session[s] EXCEPT !.thinking = @ + paid,
                                    !.last = IF paid > 0 THEN paid ELSE @]
       IN Become(s, AfterThought(s, st, reply))
    /\ Lands(s, paid)
    /\ UNCHANGED <<hosted, busy, hirer, order>>

\* The call threw after the signature was sent: counted as nothing paid,
\* whatever the seller took.
ThoughtLost(s, took) ==
    /\ session[s].pc = "asking"
    /\ took <= Cap(s) /\ took <= wallet
    /\ ThinkFault
    /\ wallet' = wallet - took
    /\ Become(s, Stopped([session[s] EXCEPT !.lost = @ + took], "brain"))
    /\ row' = IF s = "timer" THEN [row EXCEPT !.quiet = FALSE] ELSE row
    /\ UNCHANGED <<hosted, busy, hirer, order>>

Searched(s, hits) ==
    /\ session[s].pc = "searching"
    /\ Become(s, NextTurn([session[s] EXCEPT !.found = @ \cup hits]))
    /\ Lands(s, 0)
    /\ UNCHANGED <<hosted, wallet, busy, hirer, order>>

\* A free public API: answered or not, nothing is paid.
Fetched(s) ==
    /\ session[s].pc = "fetching"
    /\ Become(s, NextTurn([session[s] EXCEPT !.tool = NoTool]))
    /\ Lands(s, 0)
    /\ UNCHANGED <<hosted, wallet, busy, hirer, order>>

\* The seller answered, for at most the listed price; 0 when it charged nothing
\* or the rail refused.
Bought(s, paid) ==
    /\ session[s].pc = "buying"
    /\ paid <= Price[session[s].tool] /\ paid <= wallet
    /\ wallet' = wallet - paid
    /\ Become(s, NextTurn([session[s] EXCEPT !.tools = @ + paid]))
    /\ Lands(s, paid)
    /\ UNCHANGED <<hosted, busy, hirer, order>>

BuyLost(s, took) ==
    /\ session[s].pc = "buying"
    /\ took <= Price[session[s].tool] /\ took <= wallet
    /\ ThinkFault
    /\ wallet' = wallet - took
    /\ Become(s, NextTurn([session[s] EXCEPT !.lost = @ + took]))
    /\ row' = IF s = "timer" THEN [row EXCEPT !.quiet = FALSE] ELSE row
    /\ UNCHANGED <<hosted, busy, hirer, order>>

SessionStep(s) ==
    \/ StopShort(s) \/ AskBrain(s) \/ ThoughtRefused(s) \/ Fetched(s)
    \/ \E paid \in 0..ThoughtCeiling, reply \in Replies : Thought(s, paid, reply)
    \/ \E took \in 0..ThoughtCeiling : ThoughtLost(s, took)
    \/ \E hits \in SUBSET Tools : Searched(s, hits)
    \/ \E paid \in 0..UptoCeiling : Bought(s, paid) \/ BuyLost(s, paid)

-----------------------------------------------------------------------------
(* The timer's run: cra-agent think --record *)

\* The wallet is read: the run is skipped unless it covers the whole budget.
TimerReadsWallet ==
    /\ "timer" \in hosted /\ session["timer"].pc = "off"
    /\ wallet >= TimerBudget
    /\ Become("timer", [NewSession EXCEPT !.pc = "starting"])
    /\ UNCHANGED <<hosted, wallet, busy, hirer, order, row, thinkFaults>>

\* The row is inserted and the session starts.
TimerStarts ==
    /\ session["timer"].pc = "starting"
    /\ Become("timer", [session["timer"] EXCEPT !.pc = "loop"])
    /\ row' = [NoRow EXCEPT !.made = TRUE]
    /\ UNCHANGED <<hosted, wallet, busy, hirer, order, thinkFaults>>

\* recorder.finish or recorder.fail, and the process ends.
TimerRecords ==
    LET t == session["timer"] IN
    /\ t.pc \in {"stopped", "threw"}
    /\ Write(IF t.pc = "threw" THEN [row EXCEPT !.status = "failed"]
             ELSE [row EXCEPT !.status = t.why, !.spent = Counted("timer")])
    /\ Become("timer", [t EXCEPT !.pc = "over"])
    /\ UNCHANGED <<hosted, wallet, busy, hirer, order>>

\* The process is killed: the call that was out may have been paid.
TimerKilled(took) ==
    /\ session["timer"].pc \in Running \cup {"stopped", "threw"}
    /\ took = 0 \/ (session["timer"].pc = "asking" /\ took <= Cap("timer"))
    /\ took <= wallet
    /\ ThinkFault
    /\ wallet' = wallet - took
    /\ Become("timer", [session["timer"] EXCEPT !.pc = "dead", !.lost = @ + took])
    /\ UNCHANGED <<hosted, busy, hirer, order, row>>

\* Ten minutes without a write: only when the process is gone or a write was
\* lost, as every call ends in less.
RowAges ==
    /\ row.made /\ row.status = "running" /\ ~row.quiet
    /\ session["timer"].pc \in {"dead", "over"} \/ row.missed
    /\ row' = [row EXCEPT !.quiet = TRUE]
    /\ UNCHANGED <<hosted, wallet, session, busy, hirer, order, thinkFaults>>

-----------------------------------------------------------------------------
(* The worker: thinkWorker, and the route that hires it: mountUptoRoutes *)

SetOrder(b, o) == order' = [order EXCEPT ![b] = o]

Refused(b) == SetOrder(b, [order[b] EXCEPT !.pc = "free"])

\* Slip: the worker takes a task while it has one.
TakesAny == TRUE

\* busy is read and set with nothing but the parsing of a body already in
\* memory in between: no other request gets in.
TakesTask == ~busy

\* The request, verified by the middleware, reaches the worker.
Hire(b) ==
    /\ "hired" \in hosted /\ order[b].pc = "new"
    /\ IF TakesTask
       THEN /\ SetOrder(b, [order[b] EXCEPT !.pc = "asked"])
            /\ busy' = TRUE /\ hirer' = b
            /\ Become("hired", [NewSession EXCEPT !.pc = "checking"])
       ELSE Refused(b) /\ UNCHANGED <<busy, hirer, session>>
    /\ UNCHANGED <<hosted, wallet, row, thinkFaults>>

\* The task is no task, or the worker does not answer: 400 or 503.
NotHired(b) ==
    /\ "hired" \in hosted /\ order[b].pc = "new"
    /\ Refused(b)
    /\ UNCHANGED <<hosted, wallet, session, busy, hirer, row, thinkFaults>>

\* The answer to the buyer, when the API still waits for it.
Reply(o) ==
    order' = IF hirer # Nobody /\ order[hirer].pc = "asked"
             THEN [order EXCEPT ![hirer] = o] ELSE order

\* The `finally' of the worker.
Free == busy' = FALSE /\ hirer' = Nobody

\* available(): the run starts when the wallet covers its budget.
WorkerReadsWallet ==
    /\ session["hired"].pc = "checking"
    /\ \/ /\ wallet >= Budget("hired")
          /\ Become("hired", [session["hired"] EXCEPT !.pc = "loop"])
          /\ UNCHANGED <<busy, hirer, order>>
       \/ \* less than that, or it could not be read
          /\ Become("hired", NewSession)
          /\ Reply([NewOrder EXCEPT !.pc = "free"])
          /\ Free
    /\ UNCHANGED <<hosted, wallet, row, thinkFaults>>

\* Slip: what the run spent, without the fee.
SpentOnly(spent) == spent

ThinkBill(spent) ==
    IF spent + UptoFee > UptoCeiling THEN UptoCeiling ELSE spent + UptoFee

\* The worker answers, and the API bills what was spent: nothing for an error,
\* nor for a run that spent nothing and found nothing.
WorkerAnswers ==
    LET st == session["hired"] IN
    /\ st.pc \in {"stopped", "threw"}
    /\ Reply(IF st.pc = "threw" \/ (st.why # "answered" /\ Counted("hired") = 0)
             THEN [NewOrder EXCEPT !.pc = "free"]
             ELSE [pc |-> "billed", bill |-> ThinkBill(Counted("hired")),
                   spent |-> Counted("hired")])
    /\ Become("hired", NewSession)
    /\ Free
    /\ UNCHANGED <<hosted, wallet, row, thinkFaults>>

\* The worker's process dies with what it was doing; systemd starts it again.
WorkerKilled(took) ==
    /\ busy
    /\ took = 0 \/ (session["hired"].pc = "asking" /\ took <= Cap("hired"))
    /\ took <= wallet
    /\ ThinkFault
    /\ wallet' = wallet - took
    /\ Reply([NewOrder EXCEPT !.pc = "free"])
    /\ Become("hired", NewSession)
    /\ busy' = FALSE /\ hirer' = Nobody
    /\ UNCHANGED <<hosted, row>>

\* The deadline given to the run passes (150 s).
DeadlinePasses ==
    /\ session["hired"].pc \in Running /\ ~session["hired"].late
    /\ Become("hired", [session["hired"] EXCEPT !.late = TRUE])
    /\ UNCHANGED <<hosted, wallet, busy, hirer, order, row, thinkFaults>>

\* The API waits 30 s longer for the last call, then answers 503, not charged;
\* or it stops, and the request is gone.
GivesUp(b) ==
    /\ order[b].pc = "asked"
    /\ \/ /\ hirer = b /\ session["hired"].late
          /\ Refused(b) /\ UNCHANGED thinkFaults
       \/ SetOrder(b, [order[b] EXCEPT !.pc = "gone"]) /\ ThinkFault
    /\ UNCHANGED <<hosted, wallet, session, busy, hirer, row>>

\* The middleware settles the bill after the handler returned.
Settles(b) ==
    /\ order[b].pc = "billed"
    /\ \E done \in {"settled", "unsettled"} : SetOrder(b, [order[b] EXCEPT !.pc = done])
    /\ UNCHANGED <<hosted, wallet, session, busy, hirer, row, thinkFaults>>

ThinkNext ==
    \/ \E s \in hosted : SessionStep(s)
    \/ TimerReadsWallet \/ TimerStarts \/ TimerRecords \/ RowAges
    \/ WorkerReadsWallet \/ WorkerAnswers \/ DeadlinePasses
    \/ \E took \in 0..ThoughtCeiling : TimerKilled(took) \/ WorkerKilled(took)
    \/ \E b \in Buyers : Hire(b) \/ NotHired(b) \/ GivesUp(b) \/ Settles(b)

\* Calls end, so sessions go on; both processes are loops that answer; and
\* time passes for a row nobody writes.
ThinkFairness ==
    /\ \A s \in Services : WF_thinkVars(s \in hosted /\ SessionStep(s))
    /\ WF_thinkVars(TimerStarts \/ TimerRecords)
    /\ WF_thinkVars(WorkerReadsWallet \/ WorkerAnswers)
    /\ WF_thinkVars(RowAges)
    /\ \A b \in Buyers : WF_thinkVars(Settles(b))

ThinkSpec == ThinkInit /\ [][ThinkNext]_thinkVars /\ ThinkFairness

-----------------------------------------------------------------------------
(* Properties *)

\* A run's thoughts and tools never cost more than its budget: the cap of each
\* thought shrinks with what is left, and a purchase is held to its listed
\* price whatever the seller asks.  And after a purchase there is enough left
\* to think about what it returned.
BudgetKept ==
    \A s \in Services :
        /\ Counted(s) <= Budget(s)
        /\ (session[s].pc = "loop" /\ session[s].tool # NoTool) =>
              Left(s) >= Reserve(session[s].last)

\* A buyer who is charged pays all the run spent and the fee, and the bill is
\* never cut at the ceiling he signed: the budget leaves room for the fee.
BillCoversTheRun ==
    \A b \in Buyers : order[b].pc \in {"billed", "settled"} =>
        /\ order[b].bill >= order[b].spent + UptoFee
        /\ order[b].bill <= UptoCeiling

\* The page never shows more spent than the run counted, and a verdict it
\* shows is how the run ended, with all it spent, whatever write was lost.
ShownIsTrue ==
    LET t == session["timer"] IN
    row.made =>
        /\ SpentShown(row) <= Counted("timer")
        /\ StatusShown(row) \in Ends =>
              StatusShown(row) = t.why /\ SpentShown(row) = Counted("timer")

\* Every task the worker takes has come to an end, whatever it met, its buyer
\* has an answer, and a run whose process died is not shown as running.
AllEnded ==
    /\ ~busy
    /\ \A b \in Buyers : order[b].pc # "asked"
    /\ session["timer"].pc = "dead" => StatusShown(row) # "running"
=============================================================================
