------------------------------- MODULE Ingest -------------------------------
(***************************************************************************)
(* The collector's block ingestion (packages/collector/src/workers): three *)
(* workers of one process share the blocks table, the table of known gaps  *)
(* and the saved cursors.                                                  *)
(*   - the head worker follows the chain, hands over blocks it cannot get, *)
(*     and jumps to the head when it is too far behind;                    *)
(*   - the backfill worker fills one gap at a time, newest end first, and  *)
(*     walks the history below the start;                                  *)
(*   - the scanner looks for holes between stored blocks.                  *)
(* A step ends where the code awaits the database or the network.  The     *)
(* process may crash between any two steps; the tables survive.            *)
(***************************************************************************)
EXTENDS Integers, FiniteSets, FiniteSetsExt

CONSTANTS
    MaxBlock,     \* bound on the height of the chain
    StartBlock,   \* COLLECTOR_START_BLOCK
    RunUp,        \* blocks jumpToHead leaves to walk before the head (50)
    MaxCatchup,   \* maxCatchupBlocks, 0 = never jump
    LagAlert,     \* lagAlertBlocks: above it the backfill pauses
    Batch,        \* batchBlocks
    HeadWindow,   \* batchBlocks * concurrency
    HistWindow,   \* batchBlocks * backfillConcurrency
    History,      \* backfillHistory
    MaxTries,     \* bound on the attempts counter of a gap row
    MaxFaults     \* bound on crashes and failed head rounds

\* The distance that makes the head worker jump must exceed the run-up, or it
\* jumps without end: the code does not check it (20000 against 50).
ASSUME IngestAssumption ==
    /\ MaxBlock \in Nat
    /\ StartBlock \in 0..MaxBlock
    /\ RunUp \in Nat
    /\ MaxCatchup \in Nat
    /\ MaxCatchup # 0 => MaxCatchup > RunUp
    /\ LagAlert \in Nat
    /\ Batch \in Nat \ {0}
    /\ HeadWindow \in Nat \ {0}
    /\ HistWindow \in Nat \ {0}
    /\ History \in BOOLEAN
    /\ MaxTries \in Nat
    /\ MaxFaults \in Nat

Blocks == 0..MaxBlock
None   == -1           \* no such row, not known, never saved

VARIABLES
    chain,       \* the height of the chain
    stored,      \* table blocks
    gapTo,       \* table block_gaps: to_block of the row with this from_block
    gapTries,    \* its attempts
    savedHead,   \* collector_state `head': [cursor, start]
    savedHist,   \* collector_state `backfill': [cursor, target]
    up,          \* is the process running?
    headStart, headCursor, chainHead,    \* RuntimeState
    hist,        \* RuntimeState.backfill: [cursor, target, active]
    head,        \* the head worker:  [pc, next, to, last, pend]
    fill,        \* the backfill worker: [pc, from, top, tries, low, pend]
    scan,        \* the scanner: holes it has read and not yet reported
    faults

db == <<stored, gapTo, gapTries, savedHead, savedHist>>
memory == <<headStart, headCursor, chainHead, hist>>
vars == <<chain, stored, gapTo, gapTries, savedHead, savedHist, up, headStart,
          headCursor, chainHead, hist, head, fill, scan, faults>>

-----------------------------------------------------------------------------

IdleHead == [pc |-> "idle", next |-> 0, to |-> 0, last |-> 0, pend |-> {}]
IdleFill == [pc |-> "idle", from |-> 0, top |-> 0, tries |-> 0, low |-> 0,
             pend |-> {}]
NoHist   == [cursor |-> 0, target |-> None, active |-> FALSE]

Heights == (-1)..(MaxBlock + 1)

TypeOK ==
    /\ chain \in Blocks
    /\ stored \subseteq Blocks
    /\ gapTo \in [Blocks -> Blocks \cup {None}]
    /\ gapTries \in [Blocks -> 0..MaxTries]
    /\ savedHead \in [cursor : Heights, start : Heights]
    /\ savedHist \in [cursor : Heights, target : Heights]
    /\ up \in BOOLEAN
    /\ headStart \in Heights /\ headCursor \in Heights /\ chainHead \in Heights
    /\ hist \in [cursor : Heights, target : Heights, active : BOOLEAN]
    /\ head \in [pc : {"idle", "jump", "jumped", "catchup", "fetch", "hand"},
                 next : Heights, to : Heights, last : Heights,
                 pend : SUBSET Blocks]
    /\ fill \in [pc : {"idle", "gap", "left", "hist", "fetch", "missed"},
                 from : Heights, top : Heights, tries : 0..MaxTries,
                 low : Heights, pend : SUBSET Blocks]
    /\ scan \subseteq Blocks \X Blocks
    /\ faults \in 0..MaxFaults

\* The first boot found nothing saved.
Init ==
    /\ chain = StartBlock
    /\ stored = {}
    /\ gapTo = [b \in Blocks |-> None]
    /\ gapTries = [b \in Blocks |-> 0]
    /\ savedHead = [cursor |-> None, start |-> None]
    /\ savedHist = [cursor |-> None, target |-> None]
    /\ up = FALSE
    /\ headStart = None /\ headCursor = None /\ chainHead = None
    /\ hist = NoHist
    /\ head = IdleHead /\ fill = IdleFill /\ scan = {}
    /\ faults = 0

ChainGrows ==
    /\ chain < MaxBlock
    /\ chain' = chain + 1
    /\ UNCHANGED <<db, up, memory, head, fill, scan, faults>>

-----------------------------------------------------------------------------
(* The gap table *)

Covers(from, b) == gapTo[from] # None /\ from <= b /\ b <= gapTo[from]
Covered(b) == \E from \in Blocks : Covers(from, b)

\* INSERT ... ON CONFLICT (from_block) DO NOTHING
InsertGap(from, to, tries) ==
    IF gapTo[from] # None THEN UNCHANGED <<gapTo, gapTries>>
    ELSE /\ gapTo' = [gapTo EXCEPT ![from] = to]
         /\ gapTries' = [gapTries EXCEPT ![from] = tries]

\* INSERT ... ON CONFLICT (from_block) DO UPDATE SET to_block = GREATEST(...)
ExtendGap(from, to) ==
    /\ gapTo' = [gapTo EXCEPT ![from] = IF to > @ THEN to ELSE @]
    /\ UNCHANGED gapTries

DeleteGap(from) ==
    /\ gapTo' = [gapTo EXCEPT ![from] = None]
    /\ gapTries' = [gapTries EXCEPT ![from] = 0]

\* UPDATE block_gaps SET to_block = ... WHERE from_block = ...
ShrinkGap(from, to) ==
    /\ gapTo' = [gapTo EXCEPT ![from] = IF @ = None THEN None ELSE to]
    /\ UNCHANGED gapTries

-----------------------------------------------------------------------------
(* Start of the process: head.init and backfill.init *)

Boot ==
    LET highest == IF stored = {} THEN None ELSE Max(stored)
        start   == IF savedHead.start # None THEN savedHead.start
                   ELSE IF highest # None THEN highest + 1 ELSE StartBlock
        cursor  == IF savedHead.start # None THEN savedHead.cursor ELSE start - 1
    IN  /\ ~up
        /\ up' = TRUE
        /\ headStart' = start
        /\ headCursor' = cursor
        /\ savedHead' = [cursor |-> cursor, start |-> start]
        /\ IF savedHist.cursor # None
             THEN /\ hist' = [cursor |-> savedHist.cursor,
                              target |-> savedHist.target,
                              active |-> History /\ savedHist.cursor <= savedHist.target]
                  /\ UNCHANGED savedHist
             ELSE IF start > 0 /\ History
               THEN /\ hist' = [cursor |-> 0, target |-> start - 1, active |-> TRUE]
                    /\ savedHist' = [cursor |-> 0, target |-> start - 1]
               ELSE hist' = NoHist /\ UNCHANGED savedHist
        /\ UNCHANGED <<chain, stored, gapTo, gapTries, chainHead, head, fill,
                       scan, faults>>

Fault == faults < MaxFaults /\ faults' = faults + 1

\* The process dies; what is in the tables stays.
Crash ==
    /\ up
    /\ Fault
    /\ up' = FALSE
    /\ headStart' = None /\ headCursor' = None /\ chainHead' = None
    /\ hist' = NoHist
    /\ head' = IdleHead /\ fill' = IdleFill /\ scan' = {}
    /\ UNCHANGED <<chain, db>>

-----------------------------------------------------------------------------
(* The head worker *)

BlockMax(a, b) == IF a > b THEN a ELSE b

\* pollHead: an endpoint may lag; the highest answer so far is kept.
Polled(n) == BlockMax(chainHead, n)

TooFar(h) == MaxCatchup > 0 /\ h - headCursor > MaxCatchup

\* One turn of the loop: nothing to do, jump, or catch up to the head.
PollHead(n) ==
    LET h == Polled(n)
    IN  /\ up /\ head.pc = "idle"
        /\ n <= chain
        /\ chainHead' = h
        /\ head' = IF h <= headCursor THEN head
                   ELSE [head EXCEPT !.pc = IF TooFar(h) THEN "jump" ELSE "catchup",
                                     !.next = headCursor + 1, !.to = h]
        /\ UNCHANGED <<chain, db, up, headStart, headCursor, hist, fill, scan,
                       faults>>

\* Slip: the run-up is taken from the cursor.
ResumeAtCursor == head.next - 1 - RunUp

ResumeAt == head.to - RunUp

\* jumpToHead: the missed range becomes a gap ...
JumpRecord ==
    /\ up /\ head.pc = "jump"
    /\ ExtendGap(head.next, ResumeAt - 1)
    /\ head' = [head EXCEPT !.pc = "jumped"]
    /\ UNCHANGED <<chain, stored, savedHead, savedHist, up, memory, fill, scan,
                   faults>>

\* ... and then the cursor moves.
JumpMove ==
    /\ up /\ head.pc = "jumped"
    /\ headCursor' = ResumeAt - 1
    /\ savedHead' = [cursor |-> ResumeAt - 1, start |-> headStart]
    /\ head' = IdleHead
    /\ UNCHANGED <<chain, stored, gapTo, gapTries, savedHist, up, headStart,
                   chainHead, hist, fill, scan, faults>>

\* The last block of a window.
WindowEndUncut(top) == head.next + HeadWindow - 1   \* Slip: past the head.

WindowEnd(top) == Min({head.next + HeadWindow - 1, top})

\* catchUp takes the next window of blocks; near the end it polls again.
TakeWindow(n) ==
    LET h    == IF head.next + HeadWindow > head.to THEN Polled(n) ELSE chainHead
        top  == BlockMax(head.to, h)
        last == WindowEnd(top)
    IN  /\ up /\ head.pc = "catchup"
        /\ n <= chain
        /\ chainHead' = h
        /\ head' = [head EXCEPT !.pc = "fetch", !.last = last, !.to = top,
                                !.pend = head.next..last]
        /\ UNCHANGED <<chain, db, up, headStart, headCursor, hist, fill, scan,
                       faults>>

\* writeBundle: a block and all its rows in one transaction, or a no-op.
Store(b) == stored' = stored \cup {b}

HeadStore(b) ==
    /\ up /\ head.pc = "fetch"
    /\ b \in head.pend /\ b <= chain
    /\ Store(b)
    /\ head' = [head EXCEPT !.pend = @ \ {b}]
    /\ UNCHANGED <<chain, gapTo, gapTries, savedHead, savedHist, up, memory,
                   fill, scan, faults>>

\* Every batch was stored or exhausted its retries.
HeadFetched ==
    /\ up /\ head.pc = "fetch"
    /\ head' = [head EXCEPT !.pc = "hand"]
    /\ UNCHANGED <<chain, db, up, memory, fill, scan, faults>>

\* A block that could not be got is handed over as a gap of its own.
HandOver ==
    /\ up /\ head.pc = "hand" /\ head.pend # {}
    /\ LET b == Min(head.pend)
       IN  /\ InsertGap(b, b, 0)
           /\ head' = [head EXCEPT !.pend = @ \ {b}]
    /\ UNCHANGED <<chain, stored, savedHead, savedHist, up, memory, fill, scan,
                   faults>>

\* The cursor moves past the window.
Advance ==
    /\ up /\ head.pc = "hand" /\ head.pend = {}
    /\ headCursor' = head.last
    /\ savedHead' = [cursor |-> head.last, start |-> headStart]
    /\ head' = IF head.last + 1 <= head.to
               THEN [head EXCEPT !.pc = "catchup", !.next = head.last + 1]
               ELSE IdleHead
    /\ UNCHANGED <<chain, stored, gapTo, gapTries, savedHist, up, headStart,
                   chainHead, hist, fill, scan, faults>>

\* The cursor moves in memory but is not saved: the turn ends.
SaveError ==
    /\ up
    /\ \/ head.pc = "jumped" /\ headCursor' = ResumeAt - 1
       \/ head.pc = "hand" /\ head.pend = {} /\ headCursor' = head.last
    /\ Fault
    /\ head' = IdleHead
    /\ UNCHANGED <<chain, db, up, headStart, chainHead, hist, fill, scan>>

\* Another database or polling error ends the turn; the loop starts over.
HeadError ==
    /\ up /\ head.pc # "idle"
    /\ Fault
    /\ head' = IdleHead
    /\ UNCHANGED <<chain, db, up, memory, fill, scan>>

HeadStep ==
    \/ JumpRecord
    \/ JumpMove
    \/ \E n \in Blocks : TakeWindow(n)
    \/ \E b \in Blocks : HeadStore(b)
    \/ HeadFetched
    \/ HandOver
    \/ Advance

-----------------------------------------------------------------------------
(* The backfill worker *)

\* Below this block nothing is a gap: history off, it is a choice.
Floor == IF History THEN 0 ELSE headStart

\* The backfill leaves the RPCs to a head worker that is behind.
Paused == chainHead # None /\ chainHead - headCursor > LagAlert

Rows == {from \in Blocks : gapTo[from] # None}

\* ORDER BY attempts ASC, from_block DESC
Before(a, b) == \/ gapTries[a] < gapTries[b]
                \/ gapTries[a] = gapTries[b] /\ a > b

\* fillOneGap: rows below the floor are dropped, the next row is read and its
\* newest blocks are asked for.
PickGap ==
    LET rows == {from \in Rows : from >= Floor}
        kept(from) == from >= Floor
    IN  /\ up /\ fill.pc = "idle" /\ ~Paused
        /\ gapTo' = [b \in Blocks |-> IF kept(b) THEN gapTo[b] ELSE None]
        /\ gapTries' = [b \in Blocks |-> IF kept(b) THEN gapTries[b] ELSE 0]
        /\ IF rows = {} THEN fill' = [fill EXCEPT !.pc = "hist"]
           ELSE \E from \in rows :
                  /\ \A other \in rows \ {from} : Before(from, other)
                  /\ LET low == BlockMax(from, gapTo[from] - Batch + 1)
                     IN  fill' = [pc |-> "gap", from |-> from, top |-> gapTo[from],
                                  tries |-> gapTries[from], low |-> low,
                                  pend |-> low..gapTo[from]]
        /\ UNCHANGED <<chain, stored, savedHead, savedHist, up, memory, head,
                       scan, faults>>

FillStore(b) ==
    /\ up /\ fill.pc \in {"gap", "fetch"}
    /\ b \in fill.pend /\ b <= chain
    /\ Store(b)
    /\ fill' = [fill EXCEPT !.pend = @ \ {b}]
    /\ UNCHANGED <<chain, gapTo, gapTries, savedHead, savedHist, up, memory,
                   head, scan, faults>>

\* Slip: the row goes with its first chunk.
CloseGapWhole ==
    /\ up /\ fill.pc = "gap" /\ fill.pend = {}
    /\ DeleteGap(fill.from)
    /\ fill' = [IdleFill EXCEPT !.pc = "hist"]
    /\ UNCHANGED <<chain, stored, savedHead, savedHist, up, memory, head, scan,
                   faults>>

\* The chunk is in: the row goes, or shrinks from the top.  The row may have
\* changed since it was read.
CloseGap ==
    /\ up /\ fill.pc = "gap" /\ fill.pend = {}
    /\ IF fill.low = fill.from THEN DeleteGap(fill.from)
       ELSE ShrinkGap(fill.from, fill.low - 1)
    /\ fill' = [IdleFill EXCEPT !.pc = "hist"]
    /\ UNCHANGED <<chain, stored, savedHead, savedHist, up, memory, head, scan,
                   faults>>

\* Part of the chunk came in: the row moves on below it, the rest become
\* rows of their own, one by one.
SplitGap ==
    /\ up /\ fill.pc = "gap" /\ fill.pend # {}
    /\ fill.pend # fill.low..fill.top /\ fill.low > fill.from
    /\ ShrinkGap(fill.from, fill.low - 1)
    /\ fill' = [fill EXCEPT !.pc = "left"]
    /\ UNCHANGED <<chain, stored, savedHead, savedHist, up, memory, head, scan,
                   faults>>

LeaveBlock ==
    /\ up /\ fill.pc = "left"
    /\ LET b == Min(fill.pend)
           tries == IF fill.tries < MaxTries THEN fill.tries + 1 ELSE MaxTries
       IN  /\ InsertGap(b, b, tries)
           /\ fill' = IF fill.pend = {b} THEN [IdleFill EXCEPT !.pc = "hist"]
                      ELSE [fill EXCEPT !.pend = @ \ {b}]
    /\ UNCHANGED <<chain, stored, savedHead, savedHist, up, memory, head, scan,
                   faults>>

\* Nothing came in, or the chunk is the whole row: it is tried again later.
RetryGap ==
    /\ up /\ fill.pc = "gap" /\ fill.pend # {}
    /\ fill.pend = fill.low..fill.top \/ fill.low = fill.from
    /\ gapTries' = [gapTries EXCEPT ![fill.from] =
                        IF gapTo[fill.from] # None /\ @ < MaxTries THEN @ + 1 ELSE @]
    /\ fill' = [IdleFill EXCEPT !.pc = "hist"]
    /\ UNCHANGED <<chain, stored, gapTo, savedHead, savedHist, up, memory, head,
                   scan, faults>>

\* backfillChunk: the next blocks of the history, if there are any.
HistTurn ==
    LET end == Min({hist.cursor + HistWindow - 1, hist.target})
    IN  /\ up /\ fill.pc = "hist"
        /\ IF hist.active /\ hist.cursor <= hist.target
             THEN /\ fill' = [IdleFill EXCEPT !.pc = "fetch", !.top = end,
                                              !.pend = hist.cursor..end]
                  /\ UNCHANGED hist
             ELSE /\ fill' = IdleFill
                  /\ hist' = [hist EXCEPT !.active = FALSE]
        /\ UNCHANGED <<chain, db, up, headStart, headCursor, chainHead, head,
                       scan, faults>>

HistFetched ==
    /\ up /\ fill.pc = "fetch"
    /\ fill' = [fill EXCEPT !.pc = "missed"]
    /\ UNCHANGED <<chain, db, up, memory, head, scan, faults>>

HistMissed ==
    /\ up /\ fill.pc = "missed" /\ fill.pend # {}
    /\ LET b == Min(fill.pend)
       IN  /\ InsertGap(b, b, 0)
           /\ fill' = [fill EXCEPT !.pend = @ \ {b}]
    /\ UNCHANGED <<chain, stored, savedHead, savedHist, up, memory, head, scan,
                   faults>>

HistAdvance ==
    /\ up /\ fill.pc = "missed" /\ fill.pend = {}
    /\ hist' = [hist EXCEPT !.cursor = fill.top + 1]
    /\ savedHist' = [cursor |-> fill.top + 1, target |-> hist.target]
    /\ fill' = IdleFill
    /\ UNCHANGED <<chain, stored, gapTo, gapTries, savedHead, up, headStart,
                   headCursor, chainHead, head, scan, faults>>

\* The history's cursor moves in memory before it is saved, and a database
\* error anywhere ends the turn.
HistSaveError ==
    /\ up /\ fill.pc = "missed" /\ fill.pend = {}
    /\ Fault
    /\ hist' = [hist EXCEPT !.cursor = fill.top + 1]
    /\ fill' = IdleFill
    /\ UNCHANGED <<chain, db, up, headStart, headCursor, chainHead, head, scan>>

FillError ==
    /\ up /\ fill.pc # "idle"
    /\ Fault
    /\ fill' = IdleFill
    /\ UNCHANGED <<chain, db, up, memory, head, scan>>

FillStep ==
    \/ CloseGap \/ SplitGap \/ LeaveBlock \/ RetryGap
    \/ HistTurn \/ HistFetched \/ HistMissed \/ HistAdvance

-----------------------------------------------------------------------------
(* The scanner *)

\* The maximal runs of missing blocks between two stored ones.
Holes ==
    {h \in Blocks \X Blocks :
        /\ h[1] <= h[2]
        /\ h[1] - 1 \in stored /\ h[2] + 1 \in stored
        /\ \A b \in h[1]..h[2] : b \notin stored}

ReadHoles ==
    /\ up /\ scan = {}
    /\ Holes # {}
    /\ scan' = Holes
    /\ UNCHANGED <<chain, db, up, memory, head, fill, faults>>

\* Slip: whatever is below the cursor is the head worker's to fetch.
SkippedBelowHead(h) == h[2] < headCursor

\* Holes the scanner does not report.
Skipped(h) ==
    \/ hist.active /\ h[2] < hist.cursor
    \/ ~History /\ h[1] < headStart

ReportHole ==
    /\ up
    /\ \E h \in scan :
          /\ \A other \in scan : h[1] <= other[1]
          /\ IF Skipped(h) THEN UNCHANGED <<gapTo, gapTries>>
             ELSE InsertGap(h[1], h[2], 0)
          /\ scan' = scan \ {h}
    /\ UNCHANGED <<chain, stored, savedHead, savedHist, up, memory, head, fill,
                   faults>>

ScanError ==
    /\ up /\ scan # {}
    /\ Fault
    /\ scan' = {}
    /\ UNCHANGED <<chain, db, up, memory, head, fill>>

ScanStep == ReadHoles \/ ReportHole

-----------------------------------------------------------------------------

Next ==
    \/ ChainGrows
    \/ Boot
    \/ Crash
    \/ \E n \in Blocks : PollHead(n)
    \/ HeadStep
    \/ SaveError
    \/ HeadError
    \/ PickGap
    \/ \E b \in Blocks : FillStore(b)
    \/ FillStep
    \/ HistSaveError
    \/ FillError
    \/ ScanStep
    \/ ScanError

Spec == Init /\ [][Next]_vars

\* A chunk of a gap that did not come in whole.
ChunkMissed == RetryGap \/ SplitGap

\* Each worker keeps taking its steps, systemd restarts the process, a poll
\* keeps reaching an endpoint at the height of the chain, and the endpoints
\* fail the backfill only finitely often.
IngestFairness ==
    /\ WF_vars(Boot)
    /\ SF_vars(PollHead(chain))
    /\ WF_vars(HeadStep)
    /\ WF_vars(PickGap \/ FillStep \/ \E b \in Blocks : FillStore(b))
    /\ SF_vars(ReadHoles) /\ WF_vars(ReportHole)
    /\ <>[][~ChunkMissed]_vars

FairSpec == Spec /\ IngestFairness

-----------------------------------------------------------------------------
(* Properties *)

\* The blocks the collector has answered for: those of the live range up to
\* the cursor it saved.
Passed(b) == savedHead.start # None /\ savedHead.start <= b /\ b <= savedHead.cursor

\* The first block of the live range is never lost: it is stored or a gap.
\* Every other block then has one below it that the scanner can start from,
\* so a hole left by a lost gap row or by a crash is always found again.
AnchorKept ==
    Passed(savedHead.start) => \/ savedHead.start \in stored
                               \/ Covered(savedHead.start)

\* The cursor only goes back when a restart takes the saved one.
CursorMovesOn == [][up /\ up' => headCursor' >= headCursor]_vars

\* No saved cursor claims a block the chain does not have yet: it would never
\* be asked for again.
CursorBelowHead ==
    savedHead.start # None => savedHead.cursor <= BlockMax(chain, savedHead.start - 1)

\* Every block of the live range, and of the history when it is on, is in
\* the end in the table and no gap stays on the list: whatever failed, jumped,
\* crashed or was lost from the gap table on the way.
CollectedRange == (IF History THEN 0 ELSE StartBlock)..chain

Complete == CollectedRange \subseteq stored /\ Rows = {}

EventuallyComplete == []<>Complete
=============================================================================
