---------------------------- MODULE IngestProofs ----------------------------
(***************************************************************************)
(* The collector's ingestion for every chain, window and batch: types, the *)
(* cursor of the head worker, and the first block of the live range.       *)
(***************************************************************************)
EXTENDS Ingest, FiniteSetTheorems, WellFoundedInduction, TLAPS

\* The first block of the live range is in the table, or a row starts there.
Anchor == StartBlock \in stored \/ gapTo[StartBlock] # None

\* What the process knows of the start and of the cursor.
BootInv ==
    /\ StartBlock <= chain /\ chainHead <= chain
    /\ savedHead.start \in {None, StartBlock}
    /\ savedHead.start = None => stored = {} /\ ~up
    /\ savedHead.start # None =>
         StartBlock - 1 <= savedHead.cursor /\ savedHead.cursor <= chain
    /\ up => /\ headStart = StartBlock /\ savedHead.start = StartBlock
             /\ StartBlock - 1 <= headCursor /\ headCursor <= chain
    /\ ~up => head = IdleHead /\ fill = IdleFill /\ scan = {}

\* The turn of the head worker: it starts above the cursor and ends below the
\* head, and what it asked for is stored or still pending.
HeadInv ==
    /\ head.pc # "idle" =>
         /\ head.next = headCursor + 1
         /\ head.next <= head.to /\ head.to <= chainHead
    /\ head.pc \in {"jump", "jumped"} => head.next <= head.to - RunUp - 1
    /\ head.pc \in {"fetch", "hand"} =>
         /\ head.next <= head.last /\ head.last <= head.to
         /\ head.pend \subseteq head.next..head.last
    /\ head.pc = "fetch" => (head.next..head.last) \ head.pend \subseteq stored

\* The rows of the gap table are ranges, and so are the holes of the scanner.
TableOK ==
    /\ gapTo \in [Blocks -> Blocks \cup {None}]
    /\ gapTries \in [Blocks -> 0..MaxTries]
    /\ \A b \in Blocks : gapTo[b] = None \/ b <= gapTo[b]

FillInv ==
    /\ \A h \in scan : h[1] <= h[2]
    /\ fill.pc = "gap" =>
         /\ fill.from \in Blocks /\ fill.top \in Blocks
         /\ fill.from <= fill.low /\ fill.low <= fill.top
         /\ (fill.low..fill.top) \ fill.pend \subseteq stored
    /\ fill.pc = "left" => fill.pend # {}

HistInv ==
    /\ savedHist.cursor = None \/ /\ savedHist.cursor \in 0..StartBlock
                                  /\ savedHist.target = StartBlock - 1
    /\ hist.cursor \in 0..StartBlock
    /\ hist.active => hist.target = StartBlock - 1
    /\ fill.pc \in {"fetch", "missed"} =>
         fill.top \in 0..(StartBlock - 1) /\ hist.target = StartBlock - 1

\* Whoever passed the first block, in memory or in the saved cursor, left it
\* stored or on the list.
AnchorInv ==
    /\ savedHead.start # None /\ StartBlock <= savedHead.cursor => Anchor
    /\ up /\ StartBlock <= headCursor => Anchor
    /\ head.pc = "jumped" /\ head.next = StartBlock => Anchor
    /\ head.pc = "hand" /\ StartBlock \in (head.next..head.last) \ head.pend => Anchor

IngestInv ==
    TypeOK /\ BootInv /\ HeadInv /\ TableOK /\ FillInv /\ HistInv /\ AnchorInv

-----------------------------------------------------------------------------
(* Smallest elements.  The sets of the form "no greater than an element" are *)
(* finite, and strict inclusion is well founded on them.                     *)

LEMMA LeastOfFinite ==
    ASSUME NEW S \in SUBSET Int, IsFiniteSet(S), S # {}
    PROVE  Min(S) \in S /\ \A y \in S : Min(S) <= y
<1> DEFINE upto(x) == {y \in S : y <= x}
           T == {upto(x) : x \in S}
<1>1. T \subseteq FiniteSubsetsOf(S) /\ T # {}
  <2>1. \A x \in S : upto(x) \in SUBSET S /\ IsFiniteSet(upto(x))
    BY FS_Subset
  <2> QED
    BY <2>1 DEF FiniteSubsetsOf
<1>2. PICK U \in T : \A V \in T : ~ (<<V, U>> \in StrictSubsetOrdering(S))
  <2> HIDE DEF T
  <2> QED
    BY <1>1, FS_StrictSubsetOrderingWellFounded, WFMin
<1>3. PICK x \in S : U = upto(x)
  BY <1>2
<1>4. \A y \in S : x <= y
  <2> SUFFICES ASSUME NEW y \in S, ~(x <= y) PROVE FALSE
    OBVIOUS
  <2>1. y < x
    OBVIOUS
  <2>2. upto(y) \subseteq upto(x) /\ x \in upto(x) /\ x \notin upto(y)
    <3>1. \A z \in Int : z <= y => z <= x
      BY <2>1
    <3>2. x <= x
      OBVIOUS
    <3>3. \A z \in S : z \in Int
      OBVIOUS
    <3> QED
      BY <3>1, <3>2, <3>3
  <2>3. <<upto(y), upto(x)>> \in StrictSubsetOrdering(S)
    <3>1. upto(y) \in SUBSET S /\ upto(x) \in SUBSET S /\ upto(y) # upto(x)
      BY <2>2
    <3> HIDE DEF upto
    <3> QED
      BY <2>2, <3>1 DEF StrictSubsetOrdering
  <2> QED
    BY <1>2, <1>3, <2>3
<1> QED
  BY <1>4 DEF Min

LEMMA MinOfTwo ==
    ASSUME NEW x \in Int, NEW y \in Int
    PROVE  Min({x, y}) \in {x, y} /\ Min({x, y}) <= x /\ Min({x, y}) <= y
<1>1. IsFiniteSet({x} \cup {y}) /\ {x, y} = {x} \cup {y}
  <2>1. IsFiniteSet({x})
    BY FS_Singleton
  <2> QED
    BY <2>1, FS_AddElement
<1>2. {x, y} \in SUBSET Int /\ {x, y} # {} /\ IsFiniteSet({x, y})
  BY <1>1
<1>3. Min({x, y}) \in {x, y} /\ \A z \in {x, y} : Min({x, y}) <= z
  BY <1>2, LeastOfFinite
<1> QED
  BY <1>3

LEMMA LeastPending ==
    ASSUME NEW S \in SUBSET Blocks, S # {}
    PROVE  Min(S) \in S
<1>1. IsFiniteSet(Blocks)
  <2>1. 0 \in Int /\ MaxBlock \in Int
    BY IngestAssumption
  <2> QED
    BY <2>1, FS_Interval DEF Blocks
<1>2. IsFiniteSet(S)
  BY <1>1, FS_Subset
<1>3. S \in SUBSET Int
  BY DEF Blocks
<1> QED
  BY <1>2, <1>3, LeastOfFinite

-----------------------------------------------------------------------------
(* What the statements on the gap table do. *)

\* A row that was there is kept as it was; the new one is there.
LEMMA InsertKeepsTable ==
    ASSUME TableOK, NEW from \in Blocks, NEW to \in Blocks, from <= to,
           NEW tries \in 0..MaxTries, InsertGap(from, to, tries)
    PROVE  /\ TableOK'
           /\ \A b \in Blocks : gapTo[b] # None => gapTo'[b] = gapTo[b]
           /\ gapTo'[from] # None
<1>1. CASE gapTo[from] # None
  BY <1>1 DEF TableOK, InsertGap
<1>2. CASE gapTo[from] = None
  <2>1. /\ gapTo' = [gapTo EXCEPT ![from] = to]
        /\ gapTries' = [gapTries EXCEPT ![from] = tries]
    BY <1>2 DEF InsertGap
  <2>2. to # None
    BY DEF Blocks, None
  <2> QED
    BY <1>2, <2>1, <2>2 DEF TableOK
<1> QED
  BY <1>1, <1>2

LEMMA ExtendKeepsTable ==
    ASSUME TableOK, NEW from \in Blocks, NEW to \in Blocks, from <= to,
           ExtendGap(from, to)
    PROVE  /\ TableOK'
           /\ \A b \in Blocks : gapTo[b] # None => gapTo'[b] # None
           /\ gapTo'[from] # None
BY DEF TableOK, ExtendGap, Blocks, None

LEMMA ShrinkKeepsTable ==
    ASSUME TableOK, NEW from \in Blocks, NEW to \in Blocks, from <= to,
           ShrinkGap(from, to)
    PROVE  /\ TableOK'
           /\ \A b \in Blocks : gapTo[b] # None => gapTo'[b] # None
BY DEF TableOK, ShrinkGap, Blocks, None

LEMMA DeleteKeepsTable ==
    ASSUME TableOK, NEW from \in Blocks, DeleteGap(from)
    PROVE  /\ TableOK'
           /\ \A b \in Blocks : b # from => gapTo'[b] = gapTo[b]
BY IngestAssumption DEF TableOK, DeleteGap, Blocks, None

-----------------------------------------------------------------------------
(* The steps outside the workers. *)

LEMMA GrowStep == ASSUME IngestInv, ChainGrows PROVE IngestInv'
<1>a. UNCHANGED <<stored, gapTo, gapTries, savedHead, savedHist, up, headStart,
                  headCursor, chainHead, hist, head, fill, scan, faults>>
  BY DEF ChainGrows, db, memory
<1>b. /\ chain \in Nat /\ chain' = chain + 1 /\ chain' \in Blocks /\ MaxBlock \in Nat
      /\ chainHead \in Int /\ headCursor \in Int /\ savedHead.cursor \in Int
      /\ StartBlock \in Nat
  BY IngestAssumption DEF IngestInv, TypeOK, Blocks, Heights, ChainGrows
<1>1. TypeOK'
  BY <1>a, <1>b DEF IngestInv, TypeOK
<1>2. BootInv'
  BY <1>a, <1>b DEF IngestInv, BootInv
<1> QED
  BY <1>a, <1>1, <1>2
     DEF IngestInv, HeadInv, TableOK, FillInv, HistInv, AnchorInv, Anchor

LEMMA BootStep == ASSUME IngestInv, Boot PROVE IngestInv'
<1> USE DEF IngestInv
<1>a. /\ head = IdleHead /\ fill = IdleFill /\ scan = {}
      /\ UNCHANGED <<chain, stored, gapTo, gapTries, chainHead, head, fill, scan, faults>>
      /\ up' = TRUE /\ ~up
  BY DEF Boot, BootInv
<1>b. StartBlock \in Nat /\ MaxBlock \in Nat /\ StartBlock <= MaxBlock
  BY IngestAssumption
<1>1. /\ headStart' = StartBlock /\ savedHead' = [cursor |-> headCursor', start |-> StartBlock]
      /\ headCursor' = IF savedHead.start = None THEN StartBlock - 1 ELSE savedHead.cursor
  BY <1>b DEF Boot, BootInv, None
<1>2. /\ StartBlock - 1 <= headCursor' /\ headCursor' <= chain
      /\ headCursor' \in Heights /\ chainHead <= chain
  <2>1. /\ savedHead.cursor \in Heights /\ StartBlock - 1 \in Heights /\ chain \in Nat
        /\ savedHead.start \in {None, StartBlock}
    BY <1>b DEF TypeOK, BootInv, Heights, Blocks
  <2> QED
    BY <1>1, <1>b, <2>1 DEF BootInv
<1>3. HistInv' /\ hist' \in [cursor : Heights, target : Heights, active : BOOLEAN]
       /\ savedHist' \in [cursor : Heights, target : Heights]
  <2>1. 0..StartBlock \subseteq Heights /\ None \in Heights /\ StartBlock - 1 \in Heights
    BY <1>b DEF Heights, None
  <2>2. CASE savedHist.cursor # None
    <3>1. /\ hist' = [cursor |-> savedHist.cursor, target |-> savedHist.target,
                      active |-> History /\ savedHist.cursor <= savedHist.target]
          /\ savedHist' = savedHist
      BY <2>2 DEF Boot
    <3>2. /\ savedHist.cursor \in 0..StartBlock /\ savedHist.target = StartBlock - 1
          /\ savedHist \in [cursor : Heights, target : Heights]
      BY <2>2 DEF HistInv, TypeOK
    <3> QED
      BY <1>a, <2>1, <3>1, <3>2, IngestAssumption DEF HistInv, IdleFill
  <2>3. CASE /\ hist' = [cursor |-> 0, target |-> StartBlock - 1, active |-> TRUE]
             /\ savedHist' = [cursor |-> 0, target |-> StartBlock - 1]
    BY <1>a, <1>b, <2>1, <2>3 DEF HistInv, IdleFill
  <2>4. CASE hist' = NoHist /\ savedHist' = savedHist
    BY <1>a, <1>b, <2>1, <2>4 DEF HistInv, IdleFill, NoHist, TypeOK
  <2> QED
    BY <1>b, <1>1, <2>2, <2>3, <2>4 DEF Boot, BootInv, None
<1>4. TypeOK'
  BY <1>a, <1>b, <1>1, <1>2, <1>3 DEF TypeOK, Heights
<1>5. BootInv'
  BY <1>a, <1>b, <1>1, <1>2 DEF BootInv, None
<1>6. HeadInv' /\ TableOK' /\ FillInv'
  BY <1>a DEF HeadInv, TableOK, FillInv, IdleHead, IdleFill
<1>7. AnchorInv'
  BY <1>a, <1>1, <1>b DEF AnchorInv, Anchor, IdleHead, None, BootInv
<1> QED
  BY <1>3, <1>4, <1>5, <1>6, <1>7

LEMMA IdleTypes ==
    /\ IdleHead \in [pc : {"idle", "jump", "jumped", "catchup", "fetch", "hand"},
                     next : Heights, to : Heights, last : Heights, pend : SUBSET Blocks]
    /\ IdleFill \in [pc : {"idle", "gap", "left", "hist", "fetch", "missed"},
                     from : Heights, top : Heights, tries : 0..MaxTries,
                     low : Heights, pend : SUBSET Blocks]
BY IngestAssumption DEF IdleHead, IdleFill, Heights, Blocks

LEMMA CrashStep == ASSUME IngestInv, Crash PROVE IngestInv'
<1>a. /\ UNCHANGED <<chain, stored, gapTo, gapTries, savedHead, savedHist>> /\ up /\ ~up'
      /\ headStart' = None /\ headCursor' = None /\ chainHead' = None /\ hist' = NoHist
      /\ head' = IdleHead /\ fill' = IdleFill /\ scan' = {} /\ up' = FALSE
      /\ faults < MaxFaults /\ faults' = faults + 1
  BY DEF Crash, db, Fault
<1>b. StartBlock \in Nat /\ MaxBlock \in Nat /\ StartBlock <= MaxBlock /\ MaxFaults \in Nat
  BY IngestAssumption
<1>1. TypeOK'
  <2>1. None \in Heights /\ NoHist \in [cursor : Heights, target : Heights, active : BOOLEAN]
    BY <1>b DEF Heights, None, NoHist
  <2>2. faults' \in 0..MaxFaults
    BY <1>a, <1>b DEF IngestInv, TypeOK
  <2> QED
    BY <1>a, <2>1, <2>2, IdleTypes DEF IngestInv, TypeOK
<1>2. BootInv'
  <2>1. chain \in Nat /\ None <= chain
    BY <1>b DEF IngestInv, TypeOK, Blocks, None
  <2> QED
    BY <1>a, <2>1 DEF IngestInv, BootInv
<1>3. HeadInv' /\ FillInv' /\ HistInv'
  BY <1>a, <1>b DEF IngestInv, HeadInv, FillInv, HistInv, IdleHead, IdleFill, NoHist
<1>4. TableOK' /\ AnchorInv'
  BY <1>a DEF IngestInv, TableOK, AnchorInv, Anchor, IdleHead
<1> QED
  BY <1>1, <1>2, <1>3, <1>4 DEF IngestInv

-----------------------------------------------------------------------------
(* The head worker. *)

\* What a step of the head worker leaves alone.
LEMMA HeadFacts ==
    ASSUME IngestInv
    PROVE  /\ chain \in Nat /\ chain <= MaxBlock /\ MaxBlock \in Nat
           /\ StartBlock \in Nat /\ RunUp \in Nat /\ MaxCatchup \in Nat
           /\ HeadWindow \in Nat \ {0}
           /\ headCursor \in Int /\ chainHead \in Int /\ chainHead <= chain
           /\ head.next \in Int /\ head.to \in Int /\ head.last \in Int
           /\ head.pend \subseteq Blocks
           /\ head.pc # "idle" => up
           /\ up => StartBlock - 1 <= headCursor /\ headCursor <= chain
<1>1. /\ chain \in Nat /\ chain <= MaxBlock /\ MaxBlock \in Nat
      /\ StartBlock \in Nat /\ RunUp \in Nat /\ MaxCatchup \in Nat
      /\ HeadWindow \in Nat \ {0}
  BY IngestAssumption DEF IngestInv, TypeOK, Blocks
<1>2. headCursor \in Int /\ chainHead \in Int
  BY DEF IngestInv, TypeOK, Heights
<1>3. /\ head.next \in Int /\ head.to \in Int /\ head.last \in Int
      /\ head.pend \subseteq Blocks
  BY DEF IngestInv, TypeOK, Heights
<1>4. /\ chainHead <= chain
      /\ head.pc # "idle" => up
      /\ up => StartBlock - 1 <= headCursor /\ headCursor <= chain
  BY DEF IngestInv, BootInv, IdleHead
<1> QED
  BY <1>1, <1>2, <1>3, <1>4

HeadState == [pc : {"idle", "jump", "jumped", "catchup", "fetch", "hand"},
              next : Heights, to : Heights, last : Heights, pend : SUBSET Blocks]

\* A turn that ends, with the cursor where it was.
LEMMA HeadIdles ==
    ASSUME IngestInv, up, head' = IdleHead,
           UNCHANGED <<chain, stored, gapTo, gapTries, savedHead, savedHist, up, headStart,
                       headCursor, chainHead, hist, fill, scan>>,
           faults' \in 0..MaxFaults
    PROVE  IngestInv'
<1>1. TypeOK' /\ BootInv' /\ TableOK' /\ FillInv' /\ HistInv'
  BY IdleTypes DEF IngestInv, TypeOK, BootInv, TableOK, FillInv, HistInv
<1>2. HeadInv' /\ AnchorInv'
  BY DEF IngestInv, HeadInv, AnchorInv, Anchor, IdleHead
<1> QED
  BY <1>1, <1>2 DEF IngestInv

LEMMA PollStep == ASSUME IngestInv, NEW n \in Blocks, PollHead(n) PROVE IngestInv'
<1> DEFINE h == Polled(n)
<1>a. /\ up /\ head.pc = "idle" /\ n <= chain /\ chainHead' = h
      /\ UNCHANGED <<chain, stored, gapTo, gapTries, savedHead, savedHist, up, headStart,
                     headCursor, hist, fill, scan, faults>>
      /\ head' = IF h <= headCursor THEN head
                 ELSE [head EXCEPT !.pc = IF TooFar(h) THEN "jump" ELSE "catchup",
                                   !.next = headCursor + 1, !.to = h]
  BY DEF PollHead, db
<1>b. h \in Int /\ chainHead <= h /\ h <= chain /\ h \in Heights
  BY <1>a, HeadFacts DEF Polled, BlockMax, Blocks, Heights
<1>c. headCursor + 1 \in Heights /\ headCursor \in Int /\ headCursor <= chain
  BY <1>a, HeadFacts DEF Heights
<1>d. h > headCursor /\ TooFar(h) => headCursor + 1 <= h - RunUp - 1
  BY <1>b, HeadFacts, IngestAssumption DEF TooFar
<1>e. /\ head \in HeadState
      /\ \A x \in {"jump", "catchup"} :
           LET new == [head EXCEPT !.pc = x, !.next = headCursor + 1, !.to = h]
           IN  /\ new \in HeadState /\ new.pc = x
               /\ new.next = headCursor + 1 /\ new.to = h
  BY <1>b, <1>c DEF IngestInv, TypeOK, HeadState
<1> HIDE DEF h
<1>1. CASE h <= headCursor
  <2>1. TypeOK' /\ BootInv'
    BY <1>a, <1>b, <1>1 DEF IngestInv, TypeOK, BootInv
  <2> QED
    BY <1>a, <1>1, <2>1
       DEF IngestInv, HeadInv, TableOK, FillInv, HistInv, AnchorInv, Anchor
<1>2. CASE h > headCursor
  <2>0. /\ head' \in HeadState /\ head'.next = headCursor + 1 /\ head'.to = h
        /\ head'.pc = IF TooFar(h) THEN "jump" ELSE "catchup"
    <3> DEFINE x == IF TooFar(h) THEN "jump" ELSE "catchup"
    <3>1. x \in {"jump", "catchup"}
      OBVIOUS
    <3>2. head' = [head EXCEPT !.pc = x, !.next = headCursor + 1, !.to = h]
      BY <1>a, <1>b, <1>c, <1>2
    <3> HIDE DEF x
    <3>3. /\ head' \in HeadState /\ head'.next = headCursor + 1 /\ head'.to = h
          /\ head'.pc = x
      BY <1>e, <3>1, <3>2
    <3> QED
      BY <3>3 DEF x
  <2>1. TypeOK' /\ BootInv'
    BY <1>a, <1>b, <2>0 DEF IngestInv, TypeOK, BootInv, HeadState
  <2>2. HeadInv'
    BY <1>a, <1>b, <1>c, <1>d, <1>2, <2>0 DEF HeadInv
  <2>3. AnchorInv'
    BY <1>a, <2>0 DEF IngestInv, AnchorInv, Anchor
  <2> QED
    BY <1>a, <2>1, <2>2, <2>3 DEF IngestInv, TableOK, FillInv, HistInv
<1> QED
  BY <1>1, <1>2, <1>b, <1>c

LEMMA JumpRecordStep == ASSUME IngestInv, JumpRecord PROVE IngestInv'
<1> DEFINE last == ResumeAt - 1
<1>a. /\ up /\ head.pc = "jump" /\ ExtendGap(head.next, last)
      /\ head' = [head EXCEPT !.pc = "jumped"]
      /\ UNCHANGED <<chain, stored, savedHead, savedHist, up, headStart, headCursor,
                     chainHead, hist, fill, scan, faults>>
  BY DEF JumpRecord, memory
<1>b. head.next \in Blocks /\ last \in Blocks /\ head.next <= last
  BY <1>a, HeadFacts DEF IngestInv, HeadInv, ResumeAt, Blocks
<1>1. /\ TableOK' /\ gapTo'[head.next] # None
      /\ \A b \in Blocks : gapTo[b] # None => gapTo'[b] # None
  BY <1>a, <1>b, ExtendKeepsTable DEF IngestInv
<1>2. /\ head' \in HeadState /\ head'.pc = "jumped" /\ head'.next = head.next
      /\ head'.to = head.to
  BY <1>a DEF IngestInv, TypeOK, HeadState
<1>3. StartBlock \in Blocks
  BY IngestAssumption DEF Blocks
<1>4. Anchor => Anchor'
  BY <1>a, <1>1, <1>3 DEF Anchor
<1>5. TypeOK' /\ BootInv' /\ FillInv' /\ HistInv'
  BY <1>a, <1>1, <1>2 DEF IngestInv, TypeOK, BootInv, FillInv, HistInv, TableOK, HeadState
<1>6. HeadInv'
  BY <1>a, <1>2 DEF IngestInv, HeadInv
<1>7. AnchorInv'
  BY <1>a, <1>1, <1>2, <1>4 DEF IngestInv, AnchorInv, Anchor
<1> QED
  BY <1>1, <1>5, <1>6, <1>7 DEF IngestInv

\* The cursor moves behind what the turn answered for.
LEMMA CursorMoves ==
    ASSUME IngestInv, up, head' = IdleHead \/ head'.pc \in {"idle", "catchup"},
           UNCHANGED <<chain, stored, gapTo, gapTries, savedHist, up, headStart,
                       chainHead, hist, fill, scan>>,
           faults' \in 0..MaxFaults, head' \in HeadState,
           savedHead' = savedHead \/ savedHead' = [cursor |-> headCursor', start |-> headStart],
           headCursor' \in Heights, headCursor <= headCursor', headCursor' <= chain,
           StartBlock <= headCursor' => Anchor,
           HeadInv'
    PROVE  IngestInv'
<1>a. /\ headStart = StartBlock /\ savedHead.start = StartBlock
      /\ headCursor \in Int /\ headCursor' \in Int
      /\ StartBlock - 1 <= headCursor /\ StartBlock \in Nat /\ StartBlock \in Heights
      /\ savedHead \in [cursor : Heights, start : Heights]
      /\ head'.pc \in {"idle", "catchup"}
  BY IngestAssumption DEF IngestInv, BootInv, TypeOK, Heights, IdleHead
<1>1. TypeOK'
  BY <1>a DEF IngestInv, TypeOK, HeadState
<1>2. BootInv'
  <2>1. /\ savedHead'.start = StartBlock
        /\ StartBlock - 1 <= savedHead'.cursor /\ savedHead'.cursor <= chain
    BY <1>a DEF IngestInv, BootInv, None
  <2> QED
    BY <1>a, <2>1 DEF IngestInv, BootInv, None
<1>3. AnchorInv'
  <2>1. StartBlock <= savedHead'.cursor => Anchor
    BY <1>a DEF IngestInv, AnchorInv, None
  <2>2. Anchor => Anchor'
    BY DEF Anchor
  <2> QED
    BY <1>a, <2>1, <2>2 DEF AnchorInv
<1> QED
  BY <1>1, <1>2, <1>3 DEF IngestInv, TableOK, FillInv, HistInv

\* What both ends of a turn have in common.
PassedByJump ==
    /\ ResumeAt - 1 \in Heights /\ headCursor <= ResumeAt - 1 /\ ResumeAt - 1 <= chain
    /\ StartBlock <= ResumeAt - 1 => Anchor

PassedByHand ==
    /\ head.last \in Heights /\ headCursor <= head.last /\ head.last <= chain
    /\ StartBlock <= head.last => Anchor

LEMMA JumpedPast ==
    ASSUME IngestInv, head.pc = "jumped"
    PROVE  PassedByJump
<1>1. /\ head.next = headCursor + 1 /\ head.next <= ResumeAt - 1
      /\ ResumeAt - 1 <= chain /\ ResumeAt - 1 \in Heights
  BY HeadFacts DEF IngestInv, HeadInv, ResumeAt, Heights
<1>2. StartBlock <= headCursor \/ StartBlock = head.next
  BY <1>1, HeadFacts
<1>3. Anchor
  BY <1>2, HeadFacts DEF IngestInv, AnchorInv
<1>4. ResumeAt \in Int
  BY HeadFacts DEF ResumeAt
<1> QED
  BY <1>1, <1>3, <1>4, HeadFacts DEF PassedByJump

LEMMA HandedPast ==
    ASSUME IngestInv, head.pc = "hand", head.pend = {}
    PROVE  PassedByHand
<1>1. /\ head.next = headCursor + 1 /\ head.next <= head.last
      /\ head.last <= chain /\ head.last \in Heights
  BY HeadFacts DEF IngestInv, HeadInv, TypeOK
<1>2. StartBlock <= headCursor \/ StartBlock \in head.next..head.last
  BY <1>1, HeadFacts
<1>3. StartBlock <= head.last => Anchor
  BY <1>2, HeadFacts DEF IngestInv, AnchorInv
<1> QED
  BY <1>1, <1>3, HeadFacts DEF PassedByHand

LEMMA JumpMoveStep == ASSUME IngestInv, JumpMove PROVE IngestInv'
<1>a. /\ up /\ head.pc = "jumped" /\ head' = IdleHead /\ headCursor' = ResumeAt - 1
      /\ savedHead' = [cursor |-> headCursor', start |-> headStart]
      /\ UNCHANGED <<chain, stored, gapTo, gapTries, savedHist, up, headStart,
                     chainHead, hist, fill, scan, faults>>
  BY DEF JumpMove
<1>1. PassedByJump
  BY <1>a, JumpedPast
<1>2. HeadInv' /\ head' \in HeadState /\ faults' \in 0..MaxFaults
  BY <1>a, IdleTypes DEF HeadInv, HeadState, IdleHead, IngestInv, TypeOK
<1> QED
  BY <1>a, <1>1, <1>2, CursorMoves DEF PassedByJump

LEMMA AdvanceStep == ASSUME IngestInv, Advance PROVE IngestInv'
<1>a. /\ up /\ head.pc = "hand" /\ head.pend = {} /\ headCursor' = head.last
      /\ savedHead' = [cursor |-> headCursor', start |-> headStart]
      /\ head' = IF head.last + 1 <= head.to
                 THEN [head EXCEPT !.pc = "catchup", !.next = head.last + 1]
                 ELSE IdleHead
      /\ UNCHANGED <<chain, stored, gapTo, gapTries, savedHist, up, headStart,
                     chainHead, hist, fill, scan, faults>>
  BY DEF Advance
<1>1. PassedByHand
  BY <1>a, HandedPast
<1>2. HeadInv' /\ head' \in HeadState /\ head'.pc \in {"idle", "catchup"}
  <2>1. CASE head.last + 1 <= head.to
    <3>1. head.last + 1 \in Heights /\ head \in HeadState
      BY <1>a, <2>1, HeadFacts DEF IngestInv, HeadInv, TypeOK, HeadState, Heights
    <3>2. /\ head' \in HeadState /\ head'.pc = "catchup" /\ head'.next = head.last + 1
          /\ head'.to = head.to
      BY <1>a, <2>1, <3>1 DEF HeadState
    <3> QED
      BY <1>a, <2>1, <3>2 DEF IngestInv, HeadInv
  <2>2. CASE ~(head.last + 1 <= head.to)
    BY <1>a, <2>2, IdleTypes DEF HeadInv, HeadState, IdleHead
  <2> QED
    BY <2>1, <2>2
<1>3. faults' \in 0..MaxFaults
  BY <1>a DEF IngestInv, TypeOK
<1> QED
  BY <1>a, <1>1, <1>2, <1>3, CursorMoves DEF PassedByHand

LEMMA SaveErrorStep == ASSUME IngestInv, SaveError PROVE IngestInv'
<1>a. /\ up /\ head' = IdleHead
      /\ UNCHANGED <<chain, stored, gapTo, gapTries, savedHead, savedHist, up, headStart,
                     chainHead, hist, fill, scan>>
  BY DEF SaveError, db
<1>1. HeadInv' /\ head' \in HeadState /\ faults' \in 0..MaxFaults
  BY <1>a, IdleTypes, IngestAssumption
     DEF HeadInv, HeadState, IdleHead, IngestInv, TypeOK, SaveError, Fault
<1>2. CASE head.pc = "jumped" /\ headCursor' = ResumeAt - 1
  <2>1. PassedByJump
    BY <1>2, JumpedPast
  <2> QED
    BY <1>a, <1>1, <1>2, <2>1, CursorMoves DEF PassedByJump
<1>3. CASE head.pc = "hand" /\ head.pend = {} /\ headCursor' = head.last
  <2>1. PassedByHand
    BY <1>3, HandedPast
  <2> QED
    BY <1>a, <1>1, <1>3, <2>1, CursorMoves DEF PassedByHand
<1> QED
  BY <1>2, <1>3 DEF SaveError

LEMMA HeadErrorStep == ASSUME IngestInv, HeadError PROVE IngestInv'
<1>1. faults' \in 0..MaxFaults
  BY IngestAssumption DEF HeadError, Fault, IngestInv, TypeOK
<1> QED
  BY <1>1, HeadIdles DEF HeadError, db, memory

LEMMA TakeWindowStep == ASSUME IngestInv, NEW n \in Blocks, TakeWindow(n) PROVE IngestInv'
<1> DEFINE h    == IF head.next + HeadWindow > head.to THEN Polled(n) ELSE chainHead
           top  == BlockMax(head.to, h)
           last == WindowEnd(top)
<1>a. /\ up /\ head.pc = "catchup" /\ n <= chain /\ chainHead' = h
      /\ head' = [head EXCEPT !.pc = "fetch", !.last = last, !.to = top,
                              !.pend = head.next..last]
      /\ UNCHANGED <<chain, stored, gapTo, gapTries, savedHead, savedHist, up, headStart,
                     headCursor, hist, fill, scan, faults>>
  BY DEF TakeWindow, db
<1>b. /\ head.next = headCursor + 1 /\ head.next <= head.to /\ head.to <= chainHead
      /\ 0 <= head.next
  BY <1>a, HeadFacts DEF IngestInv, HeadInv
<1>c. h \in Int /\ chainHead <= h /\ h <= chain /\ n \in Int
  BY <1>a, HeadFacts DEF Polled, BlockMax, Blocks
<1> HIDE DEF h
<1>d. top \in Int /\ head.to <= top /\ top <= h
  BY <1>b, <1>c, HeadFacts DEF BlockMax
<1> HIDE DEF top
<1>e. last \in Int /\ head.next <= last /\ last <= top
  <2> DEFINE x == head.next + HeadWindow - 1
  <2>1. x \in Int /\ head.next <= x
    BY HeadFacts
  <2>2. last = Min({x, top})
    BY DEF WindowEnd
  <2> HIDE DEF x, last
  <2>3. last \in {x, top} /\ last <= x /\ last <= top
    BY <1>d, <2>1, <2>2, MinOfTwo
  <2> QED
    BY <1>b, <1>d, <2>1, <2>3, HeadFacts
<1> HIDE DEF last
<1>f. /\ chainHead' \in Heights /\ top \in Heights /\ last \in Heights
      /\ head.next..last \subseteq Blocks
  BY <1>a, <1>b, <1>c, <1>d, <1>e, HeadFacts DEF Heights, Blocks
<1>1. /\ head' \in HeadState /\ head'.pc = "fetch" /\ head'.next = head.next
      /\ head'.to = top /\ head'.last = last /\ head'.pend = head.next..last
  BY <1>a, <1>f DEF IngestInv, TypeOK, HeadState
<1>2. TypeOK' /\ BootInv'
  BY <1>a, <1>c, <1>f, <1>1 DEF IngestInv, TypeOK, BootInv, HeadState
<1>3. HeadInv'
  <2>1. /\ head'.pc = "fetch" /\ head'.next = headCursor' + 1
        /\ head'.next <= head'.to /\ head'.to <= chainHead'
    BY <1>a, <1>b, <1>c, <1>d, <1>1, HeadFacts
  <2>2. /\ head'.next <= head'.last /\ head'.last <= head'.to
        /\ head'.pend = head'.next..head'.last
    BY <1>e, <1>1
  <2>3. (head'.next..head'.last) \ head'.pend \subseteq stored'
    BY <2>2
  <2> QED
    BY <2>1, <2>2, <2>3 DEF HeadInv
<1>4. AnchorInv'
  BY <1>a, <1>1 DEF IngestInv, AnchorInv, Anchor
<1> QED
  BY <1>a, <1>2, <1>3, <1>4 DEF IngestInv, TableOK, FillInv, HistInv

LEMMA HeadStoreStep == ASSUME IngestInv, NEW b \in Blocks, HeadStore(b) PROVE IngestInv'
<1>a. /\ up /\ head.pc = "fetch" /\ b \in head.pend /\ stored' = stored \cup {b}
      /\ head' = [head EXCEPT !.pend = @ \ {b}]
      /\ UNCHANGED <<chain, gapTo, gapTries, savedHead, savedHist, up, headStart,
                     headCursor, chainHead, hist, fill, scan, faults>>
  BY DEF HeadStore, Store, memory
<1>1. /\ head' \in HeadState /\ head'.pc = "fetch" /\ head'.next = head.next
      /\ head'.to = head.to /\ head'.last = head.last /\ head'.pend = head.pend \ {b}
  BY <1>a DEF IngestInv, TypeOK, HeadState
<1>2. TypeOK' /\ BootInv'
  BY <1>a, <1>1 DEF IngestInv, TypeOK, BootInv, HeadState
<1>3. HeadInv'
  <2>1. (head.next..head.last) \ head.pend \subseteq stored
    BY <1>a DEF IngestInv, HeadInv
  <2>2. (head'.next..head'.last) \ head'.pend \subseteq stored'
    BY <1>a, <1>1, <2>1
  <2>3. head'.pend \subseteq head'.next..head'.last
    BY <1>a, <1>1 DEF IngestInv, HeadInv
  <2> QED
    BY <1>a, <1>1, <2>2, <2>3 DEF IngestInv, HeadInv
<1>4. FillInv'
  BY <1>a DEF IngestInv, FillInv
<1>5. AnchorInv'
  BY <1>a, <1>1 DEF IngestInv, AnchorInv, Anchor
<1> QED
  BY <1>a, <1>2, <1>3, <1>4, <1>5 DEF IngestInv, TableOK, HistInv

LEMMA HeadFetchedStep == ASSUME IngestInv, HeadFetched PROVE IngestInv'
<1>a. /\ up /\ head.pc = "fetch" /\ head' = [head EXCEPT !.pc = "hand"]
      /\ UNCHANGED <<chain, stored, gapTo, gapTries, savedHead, savedHist, up, headStart,
                     headCursor, chainHead, hist, fill, scan, faults>>
  BY DEF HeadFetched, db, memory
<1>1. /\ head' \in HeadState /\ head'.pc = "hand" /\ head'.next = head.next
      /\ head'.to = head.to /\ head'.last = head.last /\ head'.pend = head.pend
  BY <1>a DEF IngestInv, TypeOK, HeadState
<1>2. TypeOK' /\ BootInv'
  BY <1>a, <1>1 DEF IngestInv, TypeOK, BootInv, HeadState
<1>3. HeadInv'
  BY <1>a, <1>1 DEF IngestInv, HeadInv
<1>4. AnchorInv'
  <2>1. StartBlock \in (head.next..head.last) \ head.pend => StartBlock \in stored
    BY <1>a DEF IngestInv, HeadInv
  <2> QED
    BY <1>a, <1>1, <2>1 DEF IngestInv, AnchorInv, Anchor
<1> QED
  BY <1>a, <1>2, <1>3, <1>4 DEF IngestInv, TableOK, FillInv, HistInv

LEMMA HandOverStep == ASSUME IngestInv, HandOver PROVE IngestInv'
<1> DEFINE b == Min(head.pend)
<1>a. /\ up /\ head.pc = "hand" /\ head.pend # {} /\ InsertGap(b, b, 0)
      /\ head' = [head EXCEPT !.pend = @ \ {b}]
      /\ UNCHANGED <<chain, stored, savedHead, savedHist, up, headStart,
                     headCursor, chainHead, hist, fill, scan, faults>>
  BY DEF HandOver, memory
<1>b. b \in head.pend /\ b \in Blocks
  BY <1>a, HeadFacts, LeastPending
<1> HIDE DEF b
<1>1. /\ head' \in HeadState /\ head'.pc = "hand" /\ head'.next = head.next
      /\ head'.to = head.to /\ head'.last = head.last /\ head'.pend = head.pend \ {b}
  BY <1>a DEF IngestInv, TypeOK, HeadState
<1>2. /\ TableOK' /\ gapTo'[b] # None
      /\ \A c \in Blocks : gapTo[c] # None => gapTo'[c] = gapTo[c]
  <2>1. b <= b /\ 0 \in 0..MaxTries
    BY <1>b, IngestAssumption DEF Blocks
  <2> QED
    BY <1>a, <1>b, <2>1, InsertKeepsTable DEF IngestInv
<1>3. TypeOK' /\ BootInv'
  BY <1>a, <1>1, <1>2 DEF IngestInv, TypeOK, BootInv, HeadState, TableOK
<1>4. HeadInv'
  BY <1>a, <1>1 DEF IngestInv, HeadInv
<1>5. AnchorInv'
  <2>1. StartBlock \in Blocks
    BY IngestAssumption DEF Blocks
  <2>2. Anchor => Anchor'
    BY <1>a, <1>2, <2>1 DEF Anchor
  <2>3. StartBlock \in (head'.next..head'.last) \ head'.pend => Anchor'
    BY <1>a, <1>1, <1>2, <2>2 DEF IngestInv, AnchorInv, Anchor
  <2> QED
    BY <1>a, <1>1, <2>2, <2>3 DEF IngestInv, AnchorInv
<1> QED
  BY <1>a, <1>2, <1>3, <1>4, <1>5 DEF IngestInv, FillInv, HistInv

-----------------------------------------------------------------------------
(* The backfill worker and the scanner: they only add blocks, and leave the *)
(* head worker's record and cursors alone.                                  *)

FillState == [pc : {"idle", "gap", "left", "hist", "fetch", "missed"},
              from : Heights, top : Heights, tries : 0..MaxTries,
              low : Heights, pend : SUBSET Blocks]

LEMMA FillMoves ==
    ASSUME IngestInv, up,
           UNCHANGED <<chain, savedHead, up, headStart, headCursor, chainHead, head>>,
           stored \subseteq stored', stored' \subseteq Blocks, TableOK',
           Anchor => Anchor',
           savedHist' \in [cursor : Heights, target : Heights],
           hist' \in [cursor : Heights, target : Heights, active : BOOLEAN],
           fill' \in FillState, scan' \subseteq Blocks \X Blocks, faults' \in 0..MaxFaults,
           FillInv', HistInv'
    PROVE  IngestInv'
<1>1. TypeOK'
  BY DEF IngestInv, TypeOK, TableOK, FillState
<1>2. BootInv'
  BY DEF IngestInv, BootInv
<1>3. HeadInv'
  BY DEF IngestInv, HeadInv
<1>4. AnchorInv'
  BY DEF IngestInv, AnchorInv
<1> QED
  BY <1>1, <1>2, <1>3, <1>4 DEF IngestInv

LEMMA FillFacts ==
    ASSUME IngestInv
    PROVE  /\ StartBlock \in Nat /\ StartBlock \in Blocks /\ MaxBlock \in Nat
           /\ StartBlock <= MaxBlock
           /\ Batch \in Nat \ {0} /\ HistWindow \in Nat \ {0} /\ MaxTries \in Nat
           /\ stored \subseteq Blocks /\ TableOK
           /\ savedHist \in [cursor : Heights, target : Heights]
           /\ hist \in [cursor : Heights, target : Heights, active : BOOLEAN]
           /\ fill \in FillState /\ scan \subseteq Blocks \X Blocks /\ faults \in 0..MaxFaults
           /\ FillInv /\ HistInv
BY IngestAssumption DEF IngestInv, TypeOK, FillState, Blocks

\* The turn is over, or goes on to the history, and nothing else changes.
LEMMA FillIdles ==
    ASSUME IngestInv, up, fill' \in {IdleFill, [IdleFill EXCEPT !.pc = "hist"]},
           UNCHANGED <<chain, savedHead, up, headStart, headCursor, chainHead, head>>,
           stored' = stored, TableOK', Anchor => Anchor',
           UNCHANGED <<savedHist, hist, scan>>, faults' \in 0..MaxFaults
    PROVE  IngestInv'
<1>1. fill' \in FillState /\ fill'.pc \in {"idle", "hist"}
  BY IdleTypes DEF FillState, IdleFill
<1>2. FillInv' /\ HistInv'
  BY <1>1, FillFacts DEF FillInv, HistInv
<1> QED
  BY <1>1, <1>2, FillFacts, FillMoves

LEMMA PickGapStep == ASSUME IngestInv, PickGap PROVE IngestInv'
<1> DEFINE kept(from) == from >= Floor
<1>a. /\ up /\ fill.pc = "idle"
      /\ gapTo' = [b \in Blocks |-> IF kept(b) THEN gapTo[b] ELSE None]
      /\ gapTries' = [b \in Blocks |-> IF kept(b) THEN gapTries[b] ELSE 0]
      /\ UNCHANGED <<chain, stored, savedHead, savedHist, up, headStart, headCursor,
                     chainHead, hist, head, scan, faults>>
  BY DEF PickGap, memory
<1>b. kept(StartBlock)
  BY <1>a, FillFacts DEF Floor, IngestInv, BootInv
<1>1. TableOK'
  <2>1. 0 \in 0..MaxTries
    BY FillFacts
  <2> HIDE DEF kept
  <2> QED
    BY <1>a, <2>1, FillFacts DEF TableOK
<1>2. Anchor => Anchor'
  BY <1>a, <1>b, FillFacts DEF Anchor
<1>3. CASE fill' = [fill EXCEPT !.pc = "hist"]
  <2>1. fill' \in FillState /\ fill'.pc = "hist"
    BY <1>3, FillFacts DEF FillState
  <2>2. FillInv' /\ HistInv'
    BY <1>a, <2>1, FillFacts DEF FillInv, HistInv
  <2> QED
    BY <1>a, <1>1, <1>2, <2>1, <2>2, FillFacts, FillMoves
<1>4. ASSUME NEW from \in Rows,
             LET low == BlockMax(from, gapTo[from] - Batch + 1)
             IN  fill' = [pc |-> "gap", from |-> from, top |-> gapTo[from],
                          tries |-> gapTries[from], low |-> low,
                          pend |-> low..gapTo[from]]
      PROVE  IngestInv'
  <2> DEFINE low == BlockMax(from, gapTo[from] - Batch + 1)
  <2>1. /\ from \in Blocks /\ gapTo[from] \in Blocks /\ from <= gapTo[from]
        /\ gapTries[from] \in 0..MaxTries
    BY FillFacts DEF Rows, TableOK
  <2>2. low \in Blocks /\ from <= low /\ low <= gapTo[from]
    BY <2>1, FillFacts DEF BlockMax, Blocks
  <2>3. fill' = [pc |-> "gap", from |-> from, top |-> gapTo[from],
                 tries |-> gapTries[from], low |-> low, pend |-> low..gapTo[from]]
    BY <1>4
  <2> HIDE DEF low
  <2>4. low..gapTo[from] \subseteq Blocks /\ Blocks \subseteq Heights
    BY <2>1, <2>2, FillFacts DEF Blocks, Heights
  <2>5. fill' \in FillState
    BY <2>1, <2>2, <2>3, <2>4 DEF FillState
  <2>6. FillInv'
    <3>1. (fill'.low..fill'.top) \ fill'.pend = {}
      BY <2>3
    <3> QED
      BY <1>a, <2>1, <2>2, <2>3, <3>1, FillFacts DEF FillInv
  <2>7. HistInv'
    BY <1>a, <2>3, FillFacts DEF HistInv
  <2> QED
    BY <1>a, <1>1, <1>2, <2>5, <2>6, <2>7, FillFacts, FillMoves
<1> QED
  BY <1>3, <1>4 DEF PickGap

LEMMA FillStoreStep == ASSUME IngestInv, NEW b \in Blocks, FillStore(b) PROVE IngestInv'
<1>a. /\ up /\ fill.pc \in {"gap", "fetch"} /\ stored' = stored \cup {b}
      /\ fill' = [fill EXCEPT !.pend = @ \ {b}]
      /\ UNCHANGED <<chain, gapTo, gapTries, savedHead, savedHist, up, headStart,
                     headCursor, chainHead, hist, head, scan, faults>>
  BY DEF FillStore, Store, memory
<1>1. /\ fill' \in FillState /\ fill'.pc = fill.pc /\ fill'.from = fill.from
      /\ fill'.top = fill.top /\ fill'.low = fill.low /\ fill'.pend = fill.pend \ {b}
  BY <1>a, FillFacts DEF FillState
<1>2. FillInv'
  <2>1. fill.pc = "gap" => (fill.low..fill.top) \ fill'.pend \subseteq stored'
    BY <1>a, <1>1, FillFacts DEF FillInv
  <2> QED
    BY <1>a, <1>1, <2>1, FillFacts DEF FillInv
<1>3. HistInv'
  BY <1>a, <1>1, FillFacts DEF HistInv
<1>4. TableOK' /\ (Anchor => Anchor')
  BY <1>a, FillFacts DEF TableOK, Anchor
<1> QED
  BY <1>a, <1>1, <1>2, <1>3, <1>4, FillFacts, FillMoves

LEMMA CloseGapStep == ASSUME IngestInv, CloseGap PROVE IngestInv'
<1>a. /\ up /\ fill.pc = "gap" /\ fill.pend = {} /\ fill' = [IdleFill EXCEPT !.pc = "hist"]
      /\ IF fill.low = fill.from THEN DeleteGap(fill.from)
         ELSE ShrinkGap(fill.from, fill.low - 1)
      /\ UNCHANGED <<chain, stored, savedHead, savedHist, up, headStart, headCursor,
                     chainHead, hist, head, scan, faults>>
  BY DEF CloseGap, memory
<1>b. /\ fill.from \in Blocks /\ fill.top \in Blocks /\ fill.low \in Int
      /\ fill.from <= fill.low /\ fill.low <= fill.top
      /\ fill.low..fill.top \subseteq stored
  <2>1. (fill.low..fill.top) \ {} = fill.low..fill.top
    OBVIOUS
  <2> QED
    BY <1>a, <2>1, FillFacts DEF FillInv, FillState, Heights
<1>1. CASE fill.low = fill.from
  <2>1. TableOK' /\ \A b \in Blocks : b # fill.from => gapTo'[b] = gapTo[b]
    BY <1>a, <1>b, <1>1, FillFacts, DeleteKeepsTable
  <2>2. fill.from \in stored
    BY <1>b, <1>1 DEF Blocks
  <2>3. Anchor => Anchor'
    BY <1>a, <2>1, <2>2, FillFacts DEF Anchor
  <2> QED
    BY <1>a, <2>1, <2>3, FillIdles, FillFacts
<1>2. CASE fill.low # fill.from
  <2>1. fill.low - 1 \in Blocks /\ fill.from <= fill.low - 1
    BY <1>b, <1>2, IngestAssumption DEF Blocks
  <2>2. TableOK' /\ \A b \in Blocks : gapTo[b] # None => gapTo'[b] # None
    BY <1>a, <1>b, <1>2, <2>1, FillFacts, ShrinkKeepsTable
  <2>3. Anchor => Anchor'
    BY <1>a, <2>2, FillFacts DEF Anchor
  <2> QED
    BY <1>a, <2>2, <2>3, FillIdles, FillFacts
<1> QED
  BY <1>1, <1>2

LEMMA SplitGapStep == ASSUME IngestInv, SplitGap PROVE IngestInv'
<1>a. /\ up /\ fill.pc = "gap" /\ fill.pend # {} /\ fill.low > fill.from
      /\ ShrinkGap(fill.from, fill.low - 1)
      /\ fill' = [fill EXCEPT !.pc = "left"]
      /\ UNCHANGED <<chain, stored, savedHead, savedHist, up, headStart, headCursor,
                     chainHead, hist, head, scan, faults>>
  BY DEF SplitGap, memory
<1>b. /\ fill.from \in Blocks /\ fill.top \in Blocks /\ fill.low \in Int
      /\ fill.from <= fill.low /\ fill.low <= fill.top
  BY <1>a, FillFacts DEF FillInv, FillState, Heights
<1>1. fill.low - 1 \in Blocks /\ fill.from <= fill.low - 1
  BY <1>a, <1>b, IngestAssumption DEF Blocks
<1>2. TableOK' /\ \A b \in Blocks : gapTo[b] # None => gapTo'[b] # None
  BY <1>a, <1>b, <1>1, FillFacts, ShrinkKeepsTable
<1>3. Anchor => Anchor'
  BY <1>a, <1>2, FillFacts DEF Anchor
<1>4. fill' \in FillState /\ fill'.pc = "left" /\ fill'.pend = fill.pend
  BY <1>a, FillFacts DEF FillState
<1>5. FillInv' /\ HistInv'
  BY <1>a, <1>4, FillFacts DEF FillInv, HistInv
<1> QED
  BY <1>a, <1>2, <1>3, <1>4, <1>5, FillMoves, FillFacts

LEMMA LeaveBlockStep == ASSUME IngestInv, LeaveBlock PROVE IngestInv'
<1> DEFINE b == Min(fill.pend)
           tries == IF fill.tries < MaxTries THEN fill.tries + 1 ELSE MaxTries
<1>a. /\ up /\ fill.pc = "left" /\ InsertGap(b, b, tries)
      /\ fill' = IF fill.pend = {b} THEN [IdleFill EXCEPT !.pc = "hist"]
                 ELSE [fill EXCEPT !.pend = @ \ {b}]
      /\ UNCHANGED <<chain, stored, savedHead, savedHist, up, headStart, headCursor,
                     chainHead, hist, head, scan, faults>>
  BY DEF LeaveBlock, memory
<1>b. b \in fill.pend /\ b \in Blocks
  <2>1. fill.pend \in SUBSET Blocks /\ fill.pend # {}
    BY <1>a, FillFacts DEF FillInv, FillState
  <2> QED
    BY <2>1, LeastPending
<1>c. tries \in 0..MaxTries
  BY FillFacts DEF FillState
<1> HIDE DEF b, tries
<1>1. TableOK' /\ \A c \in Blocks : gapTo[c] # None => gapTo'[c] = gapTo[c]
  <2>1. b <= b
    BY <1>b DEF Blocks
  <2> QED
    BY <1>a, <1>b, <1>c, <2>1, FillFacts, InsertKeepsTable
<1>2. Anchor => Anchor'
  BY <1>a, <1>1, FillFacts DEF Anchor
<1>3. CASE fill.pend = {b}
  BY <1>a, <1>1, <1>2, <1>3, FillIdles, FillFacts
<1>4. CASE fill.pend # {b}
  <2>1. fill' \in FillState /\ fill'.pc = "left" /\ fill'.pend = fill.pend \ {b}
    BY <1>a, <1>4, FillFacts DEF FillState
  <2>2. fill'.pend # {}
    BY <1>b, <1>4, <2>1
  <2>3. FillInv' /\ HistInv'
    BY <1>a, <2>1, <2>2, FillFacts DEF FillInv, HistInv
  <2> QED
    BY <1>a, <1>1, <1>2, <2>1, <2>3, FillMoves, FillFacts
<1> QED
  BY <1>3, <1>4

LEMMA RetryGapStep == ASSUME IngestInv, RetryGap PROVE IngestInv'
<1>a. /\ up /\ fill.pc = "gap" /\ fill' = [IdleFill EXCEPT !.pc = "hist"]
      /\ gapTries' = [gapTries EXCEPT ![fill.from] =
                        IF gapTo[fill.from] # None /\ @ < MaxTries THEN @ + 1 ELSE @]
      /\ UNCHANGED <<chain, stored, gapTo, savedHead, savedHist, up, headStart,
                     headCursor, chainHead, hist, head, scan, faults>>
  BY DEF RetryGap, memory
<1>1. TableOK'
  <2>1. fill.from \in Blocks
    BY <1>a, FillFacts DEF FillInv
  <2>2. gapTries' \in [Blocks -> 0..MaxTries]
    BY <1>a, <2>1, FillFacts DEF TableOK
  <2> QED
    BY <1>a, <2>2, FillFacts DEF TableOK
<1>2. Anchor => Anchor'
  BY <1>a DEF Anchor
<1> QED
  BY <1>a, <1>1, <1>2, FillIdles, FillFacts

LEMMA HistTurnStep == ASSUME IngestInv, HistTurn PROVE IngestInv'
<1> DEFINE end == Min({hist.cursor + HistWindow - 1, hist.target})
<1>a. /\ up /\ fill.pc = "hist"
      /\ UNCHANGED <<chain, stored, gapTo, gapTries, savedHead, savedHist, up,
                     headStart, headCursor, chainHead, head, scan, faults>>
  BY DEF HistTurn, db
<1>b. TableOK' /\ (Anchor => Anchor')
  BY <1>a, FillFacts DEF TableOK, Anchor
<1>1. CASE hist.active /\ hist.cursor <= hist.target
  <2>1. /\ fill' = [IdleFill EXCEPT !.pc = "fetch", !.top = end, !.pend = hist.cursor..end]
        /\ hist' = hist
    BY <1>1 DEF HistTurn
  <2>2. hist.cursor \in 0..StartBlock /\ hist.target = StartBlock - 1
    BY <1>1, FillFacts DEF HistInv
  <2>3. end \in 0..(StartBlock - 1)
    <3> DEFINE x == hist.cursor + HistWindow - 1
    <3>1. x \in Int /\ hist.cursor <= x /\ hist.target \in Int
      BY <2>2, FillFacts
    <3> HIDE DEF x
    <3>2. Min({x, hist.target}) \in {x, hist.target} /\ Min({x, hist.target}) <= hist.target
      BY <3>1, MinOfTwo
    <3>3. Min({x, hist.target}) \in 0..(StartBlock - 1)
      BY <1>1, <2>2, <3>1, <3>2, FillFacts
    <3> QED
      BY <3>3 DEF x
  <2> HIDE DEF end
  <2>4. hist.cursor..end \subseteq Blocks /\ end \in Heights
    BY <2>2, <2>3, FillFacts DEF Blocks, Heights
  <2>5. fill' \in FillState /\ fill'.pc = "fetch" /\ fill'.top = end
    BY <2>1, <2>4, IdleTypes DEF FillState, IdleFill
  <2>6. FillInv' /\ HistInv'
    BY <1>a, <2>1, <2>2, <2>3, <2>5, FillFacts DEF FillInv, HistInv
  <2> QED
    BY <1>a, <1>b, <2>1, <2>5, <2>6, FillMoves, FillFacts
<1>2. CASE ~(hist.active /\ hist.cursor <= hist.target)
  <2>1. fill' = IdleFill /\ hist' = [hist EXCEPT !.active = FALSE]
    BY <1>2 DEF HistTurn
  <2>2. /\ hist' \in [cursor : Heights, target : Heights, active : BOOLEAN]
        /\ hist'.cursor = hist.cursor /\ hist'.active = FALSE
    BY <2>1, FillFacts
  <2>3. fill' \in FillState /\ fill'.pc = "idle"
    BY <2>1, IdleTypes DEF FillState, IdleFill
  <2>4. FillInv' /\ HistInv'
    BY <1>a, <2>2, <2>3, FillFacts DEF FillInv, HistInv
  <2> QED
    BY <1>a, <1>b, <2>2, <2>3, <2>4, FillMoves, FillFacts
<1> QED
  BY <1>1, <1>2

LEMMA HistFetchedStep == ASSUME IngestInv, HistFetched PROVE IngestInv'
<1>a. /\ up /\ fill.pc = "fetch" /\ fill' = [fill EXCEPT !.pc = "missed"]
      /\ UNCHANGED <<chain, stored, gapTo, gapTries, savedHead, savedHist, up, headStart,
                     headCursor, chainHead, hist, head, scan, faults>>
  BY DEF HistFetched, db, memory
<1>1. fill' \in FillState /\ fill'.pc = "missed" /\ fill'.top = fill.top
  BY <1>a, FillFacts DEF FillState
<1>2. FillInv' /\ HistInv'
  BY <1>a, <1>1, FillFacts DEF FillInv, HistInv
<1>3. TableOK' /\ (Anchor => Anchor')
  BY <1>a, FillFacts DEF TableOK, Anchor
<1> QED
  BY <1>a, <1>1, <1>2, <1>3, FillMoves, FillFacts

LEMMA HistMissedStep == ASSUME IngestInv, HistMissed PROVE IngestInv'
<1> DEFINE b == Min(fill.pend)
<1>a. /\ up /\ fill.pc = "missed" /\ fill.pend # {} /\ InsertGap(b, b, 0)
      /\ fill' = [fill EXCEPT !.pend = @ \ {b}]
      /\ UNCHANGED <<chain, stored, savedHead, savedHist, up, headStart, headCursor,
                     chainHead, hist, head, scan, faults>>
  BY DEF HistMissed, memory
<1>b. b \in Blocks
  <2>1. fill.pend \in SUBSET Blocks /\ fill.pend # {}
    BY <1>a, FillFacts DEF FillState
  <2> QED
    BY <2>1, LeastPending
<1> HIDE DEF b
<1>1. TableOK' /\ \A c \in Blocks : gapTo[c] # None => gapTo'[c] = gapTo[c]
  <2>1. b <= b /\ 0 \in 0..MaxTries
    BY <1>b, FillFacts DEF Blocks
  <2> QED
    BY <1>a, <1>b, <2>1, FillFacts, InsertKeepsTable
<1>2. Anchor => Anchor'
  BY <1>a, <1>1, FillFacts DEF Anchor
<1>3. fill' \in FillState /\ fill'.pc = "missed" /\ fill'.top = fill.top
  BY <1>a, FillFacts DEF FillState
<1>4. FillInv' /\ HistInv'
  BY <1>a, <1>3, FillFacts DEF FillInv, HistInv
<1> QED
  BY <1>a, <1>1, <1>2, <1>3, <1>4, FillMoves, FillFacts

\* The end of a history turn, with its cursor saved or not.
LEMMA HistMovesOn ==
    ASSUME IngestInv, up, fill.pc = "missed", fill' = IdleFill,
           hist' = [hist EXCEPT !.cursor = fill.top + 1],
           \/ savedHist' = savedHist
           \/ savedHist' = [cursor |-> fill.top + 1, target |-> hist.target],
           UNCHANGED <<chain, stored, gapTo, gapTries, savedHead, up, headStart,
                       headCursor, chainHead, head, scan>>,
           faults' \in 0..MaxFaults
    PROVE  IngestInv'
<1>1. fill.top \in 0..(StartBlock - 1) /\ hist.target = StartBlock - 1
  BY FillFacts DEF HistInv
<1>2. /\ fill.top + 1 \in 0..StartBlock /\ fill.top + 1 \in Heights
      /\ StartBlock - 1 \in Heights
  BY <1>1, FillFacts DEF Heights
<1>3. /\ hist' \in [cursor : Heights, target : Heights, active : BOOLEAN]
      /\ hist'.cursor = fill.top + 1 /\ hist'.target = hist.target
      /\ hist'.active = hist.active
  BY <1>2, FillFacts
<1>4. savedHist' \in [cursor : Heights, target : Heights]
  BY <1>1, <1>2, FillFacts
<1>5. fill' \in FillState /\ fill'.pc = "idle"
  BY IdleTypes DEF FillState, IdleFill
<1>6. FillInv'
  BY <1>5, FillFacts DEF FillInv
<1>7. HistInv'
  BY <1>1, <1>2, <1>3, <1>5, FillFacts DEF HistInv
<1>8. TableOK' /\ (Anchor => Anchor')
  BY FillFacts DEF TableOK, Anchor
<1> QED
  BY <1>3, <1>4, <1>5, <1>6, <1>7, <1>8, FillMoves, FillFacts

LEMMA HistAdvanceStep == ASSUME IngestInv, HistAdvance PROVE IngestInv'
BY HistMovesOn, FillFacts DEF HistAdvance

\* A step that uses up one of the bounded faults.
LEMMA FaultTyped == ASSUME IngestInv, Fault PROVE faults' \in 0..MaxFaults
BY IngestAssumption DEF Fault, IngestInv, TypeOK

LEMMA HistSaveErrorStep == ASSUME IngestInv, HistSaveError PROVE IngestInv'
BY HistMovesOn, FaultTyped DEF HistSaveError, db

LEMMA FillErrorStep == ASSUME IngestInv, FillError PROVE IngestInv'
<1>1. TableOK' /\ (Anchor => Anchor')
  BY FillFacts DEF FillError, db, TableOK, Anchor
<1> QED
  BY <1>1, FillIdles, FaultTyped DEF FillError, db, memory

\* The scanner reads and reports; only a new row comes of it.
LEMMA ScanMoves ==
    ASSUME IngestInv, up,
           UNCHANGED <<chain, stored, savedHead, savedHist, up, headStart, headCursor,
                       chainHead, hist, head, fill>>,
           TableOK', Anchor => Anchor', faults' \in 0..MaxFaults,
           scan' \subseteq Blocks \X Blocks, \A h \in scan' : h[1] <= h[2]
    PROVE  IngestInv'
<1>1. FillInv' /\ HistInv'
  BY FillFacts DEF FillInv, HistInv
<1> QED
  BY <1>1, FillFacts, FillMoves

LEMMA ReadHolesStep == ASSUME IngestInv, ReadHoles PROVE IngestInv'
<1>a. /\ up /\ scan' = Holes
      /\ UNCHANGED <<chain, stored, gapTo, gapTries, savedHead, savedHist, up, headStart,
                     headCursor, chainHead, hist, head, fill, faults>>
  BY DEF ReadHoles, db, memory
<1>1. Holes \subseteq Blocks \X Blocks /\ \A h \in Holes : h[1] <= h[2]
  BY DEF Holes
<1>2. TableOK' /\ (Anchor => Anchor')
  BY <1>a, FillFacts DEF TableOK, Anchor
<1> HIDE DEF Holes
<1> QED
  BY <1>a, <1>1, <1>2, FillFacts, ScanMoves

LEMMA ReportHoleStep == ASSUME IngestInv, ReportHole PROVE IngestInv'
<1>a. /\ up
      /\ UNCHANGED <<chain, stored, savedHead, savedHist, up, headStart, headCursor,
                     chainHead, hist, head, fill, faults>>
  BY DEF ReportHole, memory
<1>1. PICK h \in scan :
        /\ IF Skipped(h) THEN UNCHANGED <<gapTo, gapTries>>
           ELSE InsertGap(h[1], h[2], 0)
        /\ scan' = scan \ {h}
  BY DEF ReportHole
<1>2. h[1] \in Blocks /\ h[2] \in Blocks /\ h[1] <= h[2]
  BY FillFacts DEF FillInv
<1>3. TableOK' /\ (Anchor => Anchor')
  <2>1. CASE Skipped(h)
    BY <1>a, <1>1, <2>1, FillFacts DEF TableOK, Anchor
  <2>2. CASE ~Skipped(h)
    <3>1. 0 \in 0..MaxTries
      BY FillFacts
    <3>2. TableOK' /\ \A c \in Blocks : gapTo[c] # None => gapTo'[c] = gapTo[c]
      BY <1>1, <1>2, <2>2, <3>1, FillFacts, InsertKeepsTable
    <3> QED
      BY <1>a, <3>2, FillFacts DEF Anchor
  <2> QED
    BY <2>1, <2>2
<1>4. scan' \subseteq Blocks \X Blocks /\ \A g \in scan' : g[1] <= g[2]
  BY <1>1, FillFacts DEF FillInv
<1> QED
  BY <1>a, <1>3, <1>4, FillFacts, ScanMoves

LEMMA ScanErrorStep == ASSUME IngestInv, ScanError PROVE IngestInv'
<1>1. TableOK' /\ (Anchor => Anchor')
  BY FillFacts DEF ScanError, db, TableOK, Anchor
<1> QED
  BY <1>1, ScanMoves, FaultTyped DEF ScanError, db, memory

-----------------------------------------------------------------------------
(* The invariant, and what follows from it. *)

LEMMA IngestInit == ASSUME Init PROVE IngestInv
<1>1. /\ chain = StartBlock /\ stored = {} /\ up = FALSE /\ scan = {} /\ faults = 0
      /\ gapTo = [b \in Blocks |-> None] /\ gapTries = [b \in Blocks |-> 0]
      /\ savedHead = [cursor |-> None, start |-> None]
      /\ savedHist = [cursor |-> None, target |-> None]
      /\ headStart = None /\ headCursor = None /\ chainHead = None /\ hist = NoHist
      /\ head = IdleHead /\ fill = IdleFill
  BY DEF Init
<1>2. /\ StartBlock \in Blocks /\ StartBlock \in Nat /\ None \in Heights /\ 0 \in Heights
      /\ 0 \in 0..MaxFaults /\ 0 \in 0..MaxTries
  BY IngestAssumption DEF Blocks, Heights, None
<1>3. TypeOK
  BY <1>1, <1>2, IdleTypes DEF TypeOK, NoHist
<1>4. BootInv
  BY <1>1, <1>2 DEF BootInv, None
<1>5. HeadInv /\ TableOK /\ FillInv /\ HistInv /\ AnchorInv
  BY <1>1, <1>2 DEF HeadInv, TableOK, FillInv, HistInv, AnchorInv, IdleHead, IdleFill, NoHist
<1> QED
  BY <1>3, <1>4, <1>5 DEF IngestInv

LEMMA IngestStutter == ASSUME IngestInv, UNCHANGED vars PROVE IngestInv'
BY DEF vars, IngestInv, TypeOK, BootInv, HeadInv, TableOK, FillInv, HistInv, AnchorInv, Anchor

LEMMA IngestStep == ASSUME IngestInv, [Next]_vars PROVE IngestInv'
<1>1. CASE ChainGrows
  BY <1>1, GrowStep
<1>2. CASE Boot
  BY <1>2, BootStep
<1>3. CASE Crash
  BY <1>3, CrashStep
<1>4. ASSUME NEW n \in Blocks, PollHead(n) PROVE IngestInv'
  BY <1>4, PollStep
<1>5. CASE HeadStep
  BY <1>5, JumpRecordStep, JumpMoveStep, TakeWindowStep, HeadStoreStep, HeadFetchedStep,
     HandOverStep, AdvanceStep DEF HeadStep
<1>6. CASE SaveError \/ HeadError
  BY <1>6, SaveErrorStep, HeadErrorStep
<1>7. CASE PickGap
  BY <1>7, PickGapStep
<1>8. ASSUME NEW b \in Blocks, FillStore(b) PROVE IngestInv'
  BY <1>8, FillStoreStep
<1>9. CASE FillStep
  BY <1>9, CloseGapStep, SplitGapStep, LeaveBlockStep, RetryGapStep, HistTurnStep,
     HistFetchedStep, HistMissedStep, HistAdvanceStep DEF FillStep
<1>10. CASE HistSaveError \/ FillError
  BY <1>10, HistSaveErrorStep, FillErrorStep
<1>11. CASE ScanStep \/ ScanError
  BY <1>11, ReadHolesStep, ReportHoleStep, ScanErrorStep DEF ScanStep
<1>12. CASE UNCHANGED vars
  BY <1>12, IngestStutter
<1> QED
  BY <1>1, <1>2, <1>3, <1>4, <1>5, <1>6, <1>7, <1>8, <1>9, <1>10, <1>11, <1>12 DEF Next

LEMMA IngestAlways == Spec => []IngestInv
<1>1. Init => IngestInv
  BY IngestInit
<1>2. IngestInv /\ [Next]_vars => IngestInv'
  BY IngestStep
<1> QED
  BY <1>1, <1>2, PTL DEF Spec

\* Every variable keeps its type, whatever crashed or failed.
THEOREM IngestTypeCorrect == Spec => []TypeOK
<1>1. IngestInv => TypeOK
  BY DEF IngestInv
<1> QED
  BY <1>1, IngestAlways, PTL

\* The saved cursor never claims a block the chain does not have: the windows
\* the head worker takes are cut at the highest answer of an endpoint, and no
\* answer is above the chain.
THEOREM CursorStaysBelowHead == Spec => []CursorBelowHead
<1>1. IngestInv => CursorBelowHead
  BY IngestAssumption
     DEF IngestInv, BootInv, TypeOK, Blocks, Heights, CursorBelowHead, BlockMax
<1> QED
  BY <1>1, IngestAlways, PTL

\* The first block of the live range is in the table or on the list of gaps
\* as soon as the saved cursor has passed it.
THEOREM AnchorHolds == Spec => []AnchorKept
<1>1. IngestInv => AnchorKept
  <2> SUFFICES ASSUME IngestInv, Passed(savedHead.start)
               PROVE  savedHead.start \in stored \/ Covered(savedHead.start)
    BY DEF AnchorKept
  <2>1. savedHead.start = StartBlock /\ StartBlock <= savedHead.cursor
    BY DEF IngestInv, BootInv, Passed
  <2>2. Anchor
    BY <2>1 DEF IngestInv, AnchorInv, Passed
  <2>3. StartBlock \in Blocks /\ StartBlock <= StartBlock
    BY FillFacts
  <2>4. gapTo[StartBlock] # None => Covers(StartBlock, StartBlock)
    BY <2>3, FillFacts DEF Covers, TableOK
  <2> QED
    BY <2>1, <2>2, <2>3, <2>4 DEF Anchor, Covered
<1> QED
  BY <1>1, IngestAlways, PTL

\* As long as the process runs, the head worker's cursor never goes back:
\* neither a jump, nor a late answer of an endpoint, nor a failed save.
THEOREM CursorOnlyMovesOn == Spec => CursorMovesOn
<1>1. IngestInv /\ [Next]_vars => [up /\ up' => headCursor' >= headCursor]_vars
  <2> SUFFICES ASSUME IngestInv, Next, up, up' PROVE headCursor' >= headCursor
    OBVIOUS
  <2>1. headCursor \in Int
    BY HeadFacts
  <2>2. CASE headCursor' = headCursor
    BY <2>1, <2>2
  <2>3. CASE JumpMove
    BY <2>1, <2>3, JumpedPast DEF JumpMove, PassedByJump, Heights
  <2>4. CASE Advance
    BY <2>1, <2>4, HandedPast DEF Advance, PassedByHand, Heights
  <2>5. CASE SaveError
    BY <2>1, <2>5, JumpedPast, HandedPast DEF SaveError, PassedByJump, PassedByHand, Heights
  <2>6. CASE Boot \/ Crash
    BY <2>6 DEF Boot, Crash
  <2> QED
    BY <2>2, <2>3, <2>4, <2>5, <2>6
       DEF Next, HeadStep, FillStep, ScanStep, ChainGrows, PollHead, JumpRecord, TakeWindow,
           HeadStore, HeadFetched, HandOver, HeadError, PickGap, FillStore, CloseGap,
           SplitGap, LeaveBlock, RetryGap, HistTurn, HistFetched, HistMissed, HistAdvance,
           HistSaveError, FillError, ReadHoles, ReportHole, ScanError, memory
<1> QED
  BY <1>1, IngestAlways, PTL DEF Spec, CursorMovesOn
=============================================================================
