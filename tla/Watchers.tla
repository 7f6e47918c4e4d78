------------------------------ MODULE Watchers ------------------------------
(***************************************************************************)
(* The collector's workers that read the chain by ranges of logs, beside   *)
(* the ingestion of blocks (packages/collector/src/workers): the token and *)
(* the price watcher follow the head with a cursor of their own, and the   *)
(* payments worker fills, once, the blocks stored before payments were     *)
(* extracted from every block.  Each block of the model holds one event of *)
(* every kind.  A step ends where the code awaits.                         *)
(***************************************************************************)
EXTENDS Integers, FiniteSets

CONSTANTS
    Awake,              \* the workers a process runs: a set of sets of Workers
    Events,             \* per watcher, what it records: burns and payouts; pairs
    WatchFrom,          \* per watcher, the cursor of a first start
    Span,               \* blocks of one request for logs (2000)
    WindowMin, WindowMax,  \* of the payments worker (500, 9000)
    StartBlocks,        \* what PAYMENTS_START_BLOCK may say, 0 for nothing
    Collected,          \* blocks stored before payments were extracted
    MaxTip, MaxWatchFaults   \* bounds

Watchers == {"token", "fx"}
Workers == Watchers \cup {"payments"}

ASSUME WatchersAssumption ==
    /\ Awake \subseteq SUBSET Workers
    /\ DOMAIN Events = Watchers
    /\ WatchFrom \in [Watchers -> Nat]
    /\ Span \in Nat \ {0}
    /\ WindowMin \in Nat \ {0} /\ WindowMax \in Nat /\ WindowMin <= WindowMax
    /\ StartBlocks \subseteq Nat
    /\ MaxTip \in Nat /\ Collected \subseteq 0..MaxTip
    /\ MaxWatchFaults \in Nat

NoBlock == -1
NoFill == [from |-> NoBlock, until |-> NoBlock, cursor |-> NoBlock]

VARIABLES
    awake,
    tip,            \* the chain's height
    known,          \* RuntimeState.chainHead
    followed,       \* RuntimeState.headCursor
    followedSaved,  \* the same, in collector_state
    held, paid,     \* blocks in table blocks; with their rows in direct_payments
    watch, watchSaved,   \* per watcher: its locals; its saved cursor
    recorded, unread,    \* per watcher and kind: blocks recorded; whose receipt never came
    filler, fillSaved,     \* the payments worker: its locals; collector_state `direct_payments'
    startBlock,          \* PAYMENTS_START_BLOCK of this process
    watchFaults

chainVars == <<tip, known, followed, followedSaved, held, paid>>
watchVars == <<watch, watchSaved, recorded, unread>>
fillVars  == <<filler, fillSaved, startBlock>>
watchersVars == <<awake, chainVars, watchVars, fillVars, watchFaults>>

Levels == 0..MaxTip
NoWatch == [pc |-> "off", cursor |-> 0, to |-> 0, todo |-> {}]
NoRun == [pc |-> "off", cursor |-> NoBlock, until |-> NoBlock, from |-> NoBlock, window |-> WindowMax, to |-> NoBlock]

Between(a, b) == {h \in Levels : a <= h /\ h <= b}

WatchersTypeOK ==
    /\ awake \in Awake
    /\ tip \in Levels /\ known \in Levels \cup {NoBlock}
    /\ followed \in Levels \cup {NoBlock} /\ followedSaved \in Levels \cup {NoBlock}
    /\ held \subseteq Levels /\ paid \subseteq Levels
    /\ \A w \in Watchers :
         /\ watch[w] \in [pc : {"off", "dead", "idle", "recording", "saving"}, cursor : Nat,
                          to : Levels, todo : SUBSET Events[w]]
         /\ watchSaved[w] \in Nat \cup {NoBlock}
         /\ recorded[w] \in [Events[w] -> SUBSET Levels]
         /\ unread[w] \in [Events[w] -> SUBSET Levels]
    /\ filler \in [pc : {"off", "dead", "plan", "run", "asked", "saving", "done"},
                 from : Int, until : Int, cursor : Int, window : WindowMin..WindowMax, to : Int]
    /\ fillSaved \in [from : Int, until : Int, cursor : Int]
    /\ startBlock \in StartBlocks
    /\ watchFaults \in 0..MaxWatchFaults

LastCollected == IF Collected = {} THEN NoBlock ELSE CHOOSE b \in Collected : \A c \in Collected : c <= b

WatchersInit ==
    /\ awake \in Awake
    /\ tip = IF Collected = {} THEN 0 ELSE LastCollected
    /\ known = NoBlock /\ followed = NoBlock /\ followedSaved = LastCollected
    /\ held = Collected /\ paid = {}
    /\ watch = [w \in Watchers |-> NoWatch]
    /\ watchSaved = [w \in Watchers |-> NoBlock]
    /\ recorded = [w \in Watchers |-> [k \in Events[w] |-> {}]]
    /\ unread = recorded
    /\ filler = NoRun /\ fillSaved = NoFill
    /\ startBlock \in StartBlocks
    /\ watchFaults = 0

WatchFault ==
    /\ watchFaults < MaxWatchFaults
    /\ watchFaults' = watchFaults + 1

-----------------------------------------------------------------------------
(* The chain and the ingestion, as these workers see them *)

\* A block is produced; the known head follows when it is polled.
TipGrows ==
    /\ tip < MaxTip /\ tip' = tip + 1
    /\ UNCHANGED <<awake, known, followed, followedSaved, held, paid, watchVars, fillVars, watchFaults>>

HeadPolled ==
    /\ followed # NoBlock \/ followedSaved = NoBlock
    /\ known < tip /\ known' = tip
    /\ UNCHANGED <<awake, tip, followed, followedSaved, held, paid, watchVars, fillVars, watchFaults>>

\* init of the head worker: the saved cursor, or nothing until the first poll.
HeadLoads ==
    /\ followed = NoBlock
    /\ followed' = IF followedSaved # NoBlock THEN followedSaved ELSE known - 1
    /\ followedSaved # NoBlock \/ known > 0
    /\ followedSaved' = followed'
    /\ UNCHANGED <<awake, tip, known, held, paid, watchVars, fillVars, watchFaults>>

\* The head worker passes a block: stored with its payments, or left as a gap.
HeadPasses ==
    /\ followed # NoBlock /\ followed < known
    /\ followed' = followed + 1 /\ followedSaved' = followed'
    /\ \/ held' = held \cup {followed'} /\ paid' = paid \cup {followed'}
       \/ UNCHANGED <<held, paid>>
    /\ UNCHANGED <<awake, tip, known, watchVars, fillVars, watchFaults>>

\* The backfill stores a block that was missed, or one of the history.
BackfillStores(b) ==
    /\ followed # NoBlock /\ b <= followed /\ b \notin held
    /\ held' = held \cup {b} /\ paid' = paid \cup {b}
    /\ UNCHANGED <<awake, tip, known, followed, followedSaved, watchVars, fillVars, watchFaults>>

-----------------------------------------------------------------------------
(* The token and the price watcher *)

Watch(w, state) == watch' = [watch EXCEPT ![w] = state]

\* The loop starts where it was saved, or where a first start begins.
WatchStarts(w) ==
    /\ w \in awake /\ watch[w].pc = "off"
    /\ Watch(w, [NoWatch EXCEPT !.pc = "idle",
                   !.cursor = IF watchSaved[w] = NoBlock THEN WatchFrom[w] ELSE watchSaved[w]])
    /\ UNCHANGED <<awake, chainVars, watchSaved, recorded, unread, fillVars, watchFaults>>

\* The next range, up to the known head.
WatchAsks(w) ==
    LET c == watch[w].cursor IN
    /\ watch[w].pc = "idle" /\ known # NoBlock /\ c <= known
    /\ Watch(w, [watch[w] EXCEPT !.pc = "recording", !.todo = Events[w],
                   !.to = IF c + Span - 1 < known THEN c + Span - 1 ELSE known])
    /\ UNCHANGED <<awake, chainVars, watchSaved, recorded, unread, fillVars, watchFaults>>

\* Slip: the cursor moves past the head of the moment.
PastHead(t) == known + 1

\* The cursor after a range.
Past(t) == t.to + 1

\* The rows of one kind are written, each once; a price whose receipt does not
\* come back is passed over.
WatchRecords(w, k, missing) ==
    LET t == watch[w] IN
    /\ t.pc = "recording"
    /\ w = "fx" \/ missing = {}
    /\ IF missing = {} THEN UNCHANGED watchFaults ELSE WatchFault
    /\ recorded' = [recorded EXCEPT ![w][k] = @ \cup (Between(t.cursor, t.to) \ missing)]
    /\ unread' = [unread EXCEPT ![w][k] = @ \cup missing]
    /\ Watch(w, IF t.todo = {k} THEN [t EXCEPT !.todo = {}, !.pc = "saving", !.cursor = Past(t)]
                ELSE [t EXCEPT !.todo = @ \ {k}])
    /\ UNCHANGED <<awake, chainVars, watchSaved, fillVars>>

WatchSaves(w) ==
    /\ watch[w].pc = "saving"
    /\ watchSaved' = [watchSaved EXCEPT ![w] = watch[w].cursor]
    /\ Watch(w, [watch[w] EXCEPT !.pc = "idle"])
    /\ UNCHANGED <<awake, chainVars, recorded, unread, fillVars, watchFaults>>

\* Any of the calls fails: the same cursor again, which has moved in memory
\* when it was the save.
WatchFails(w) ==
    /\ watch[w].pc \in {"recording", "saving"} /\ WatchFault
    /\ Watch(w, [watch[w] EXCEPT !.pc = "idle", !.todo = {}])
    /\ UNCHANGED <<awake, chainVars, watchSaved, recorded, unread, fillVars>>

\* The cursor cannot be read at the start: the worker ends, until a restart.
WatchCrashes(w) ==
    /\ w \in awake /\ watch[w].pc = "off" /\ WatchFault
    /\ Watch(w, [NoWatch EXCEPT !.pc = "dead"])
    /\ UNCHANGED <<awake, chainVars, watchSaved, recorded, unread, fillVars>>

WatchStep(w) ==
    \/ WatchStarts(w) \/ WatchAsks(w) \/ WatchSaves(w)
    \/ \E k \in watch[w].todo : \E missing \in SUBSET Between(watch[w].cursor, watch[w].to) : WatchRecords(w, k, missing)

-----------------------------------------------------------------------------
(* The payments worker *)

Lowest == IF held = {} THEN NoBlock ELSE CHOOSE b \in held : \A c \in held : b <= c

Smaller(a, b) == IF a < b THEN a ELSE b

\* Slip: an older fill runs up to where the last one ended, which a fill that
\* was never finished has not reached.
NextFillAlways ==
    IF fillSaved # NoFill
    THEN IF startBlock = 0 \/ startBlock >= fillSaved.from THEN fillSaved
         ELSE [from |-> startBlock, until |-> fillSaved.from, cursor |-> startBlock]
    ELSE LET until == followed + 1
             from == IF startBlock > 0 THEN startBlock ELSE IF Lowest # NoBlock THEN Lowest ELSE until
         IN [from |-> from, until |-> until, cursor |-> Smaller(from, until)]

\* nextFill: go on with the saved one, follow it with an older one, or begin.
NextFill ==
    IF fillSaved # NoFill
    THEN IF fillSaved.cursor < fillSaved.until \/ startBlock = 0 \/ startBlock >= fillSaved.from
         THEN fillSaved
         ELSE [from |-> startBlock, until |-> fillSaved.from, cursor |-> startBlock]
    ELSE LET until == followed + 1
             from == IF startBlock > 0 THEN startBlock ELSE IF Lowest # NoBlock THEN Lowest ELSE until
         IN [from |-> from, until |-> until, cursor |-> Smaller(from, until)]

\* The plan, saved before it starts; a first one waits for the head worker.
FillPlans ==
    LET n == NextFill IN
    /\ "payments" \in awake /\ filler.pc \in {"off", "plan"}
    /\ fillSaved # NoFill \/ followed # NoBlock
    /\ fillSaved' = n
    /\ filler' = [NoRun EXCEPT !.from = n.from, !.until = n.until, !.cursor = n.cursor,
                             !.pc = IF n.cursor < n.until THEN "run" ELSE "done"]
    /\ UNCHANGED <<awake, chainVars, watchVars, startBlock, watchFaults>>

\* Authorizations of a range are asked for; the head comes first.
FillAsks ==
    /\ filler.pc = "run"
    /\ known = followed \/ known = NoBlock \/ followed = NoBlock
    /\ filler' = [filler EXCEPT !.pc = "asked", !.to = Smaller(filler.cursor + filler.window, filler.until) - 1]
    /\ UNCHANGED <<awake, chainVars, watchVars, fillSaved, startBlock, watchFaults>>

\* Every endpoint refuses the range: half of it, or the same again later.
FillRefused ==
    /\ filler.pc = "asked" /\ WatchFault
    /\ filler' = [filler EXCEPT !.pc = "run",
                            !.window = IF filler.window \div 2 < WindowMin THEN WindowMin ELSE filler.window \div 2]
    /\ UNCHANGED <<awake, chainVars, watchVars, fillSaved, startBlock>>

\* The receipts came and their payments are written.
FillWrites ==
    /\ filler.pc = "asked"
    /\ paid' = paid \cup Between(filler.cursor, filler.to)
    /\ filler' = [filler EXCEPT !.pc = "saving", !.cursor = filler.to + 1]
    /\ UNCHANGED <<awake, tip, known, followed, followedSaved, held, watchVars, fillSaved, startBlock, watchFaults>>

\* Slip: one range too many.
EndedLate == filler.cursor > filler.until

Ended == filler.cursor >= filler.until

FillSaves ==
    /\ filler.pc = "saving"
    /\ fillSaved' = [from |-> filler.from, until |-> filler.until, cursor |-> filler.cursor]
    /\ filler' = [filler EXCEPT !.pc = IF Ended THEN "plan" ELSE "run", !.window = Smaller(WindowMax, 2 * filler.window)]
    /\ UNCHANGED <<awake, chainVars, watchVars, startBlock, watchFaults>>

\* A receipt, a write or the save fails: the loop goes on with the cursor in
\* memory, and plans again from the saved one when that has reached the end.
FillFails ==
    /\ filler.pc \in {"asked", "saving"} /\ WatchFault
    /\ filler' = [filler EXCEPT !.pc = IF Ended THEN "plan" ELSE "run"]
    /\ UNCHANGED <<awake, chainVars, watchVars, fillSaved, startBlock>>

\* The plan cannot be read or saved: the worker ends, until a restart.
FillCrashes ==
    /\ "payments" \in awake /\ filler.pc \in {"off", "plan"} /\ WatchFault
    /\ filler' = [NoRun EXCEPT !.pc = "dead"]
    /\ UNCHANGED <<awake, chainVars, watchVars, fillSaved, startBlock>>

PaymentsStep == FillPlans \/ FillAsks \/ FillWrites \/ FillSaves

-----------------------------------------------------------------------------

\* The process stops and starts again, with another PAYMENTS_START_BLOCK maybe.
WatchersRestart ==
    /\ WatchFault
    /\ known' = NoBlock /\ followed' = NoBlock
    /\ watch' = [w \in Watchers |-> NoWatch]
    /\ filler' = NoRun
    /\ startBlock' \in StartBlocks
    /\ UNCHANGED <<awake, tip, followedSaved, held, paid, watchSaved, recorded, unread, fillSaved>>

WatchersNext ==
    \/ TipGrows \/ HeadPolled \/ HeadLoads \/ HeadPasses
    \/ \E b \in Levels : BackfillStores(b)
    \/ \E w \in Watchers : WatchStep(w) \/ WatchFails(w) \/ WatchCrashes(w)
    \/ PaymentsStep \/ FillRefused \/ FillFails \/ FillCrashes
    \/ WatchersRestart

\* The head is polled and passed, and each loop goes on.
WatchersFairness ==
    /\ WF_watchersVars(HeadPolled) /\ WF_watchersVars(HeadLoads) /\ WF_watchersVars(HeadPasses)
    /\ \A w \in Watchers : WF_watchersVars(WatchStep(w))
    /\ WF_watchersVars(PaymentsStep)

WatchersSpec == WatchersInit /\ [][WatchersNext]_watchersVars /\ WatchersFairness

-----------------------------------------------------------------------------
(* Properties *)

\* A saved cursor never passes an event: every block below it has its burns,
\* payouts and prices recorded, but for prices whose receipt never came.
NothingPassedOver ==
    \A w \in Watchers : \A k \in Events[w] :
        \A b \in Between(WatchFrom[w], watchSaved[w] - 1) : b \in recorded[w][k] \cup unread[w][k]

\* What the API says of the index: "from where it began to the last block
\* collected", and "missing" names what is not in yet.
PaymentsIndexed ==
    fillSaved # NoFill =>
        \A b \in Levels :
            (b >= fillSaved.from /\ ~(fillSaved.cursor <= b /\ b < fillSaved.until)) =>
                /\ b < fillSaved.until => b \in paid
                /\ b \in held => b \in paid

\* A worker is done with all there is, or could not even read where it was.
CaughtUp(w) ==
    IF w = "payments" THEN filler.pc \in {"done", "dead"}
    ELSE \/ watch[w].pc = "dead"
         \/ \A k \in Events[w] : Between(WatchFrom[w], tip) \subseteq recorded[w][k] \cup unread[w][k]

\* Every event of the chain is in the end recorded, and the fill ends, however
\* often a range was refused or the process stopped in between: from wherever
\* it is, each worker catches up again.
AllCaughtUp == \A w \in awake : CaughtUp(w)

IndexesCatchUp == []<>AllCaughtUp
=============================================================================
