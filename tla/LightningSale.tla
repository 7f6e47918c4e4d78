---------------------------- MODULE LightningSale ----------------------------
(***************************************************************************)
(* Selling for sats (packages/lightning, the Lightning part of             *)
(* packages/api): a buyer who paid an invoice sends its proof with the     *)
(* request, the proof is checked and claimed once, and only then the       *)
(* request is served.  Three ways to remember a claim, one per node:       *)
(*   "file"         the proxy's own file (FileReplayStore)                 *)
(*   "postgres"     our API's table (PgReplayStore)                        *)
(*   "facilitator"  the same table, behind our open facilitator            *)
(***************************************************************************)
EXTENDS Integers, FiniteSets

CONSTANTS
    Calls,         \* requests under way at the same time
    Proofs,        \* paid invoices, by payment hash
    Ends,          \* Ends[p]: the last moment p settles (invoice end + skew)
    KeepFor,       \* how long a claim outlives that (3600 s)
    PruneAfter,    \* and how long its row does after that (1 day)
    ClockBack,     \* how far a process's clock may be behind
    MaxDelay,      \* how long a statement may wait for the database
    DayLength,
    DailyCap,      \* the facilitator's dailyCap
    CompactEvery,  \* claims between two rewrites of the file (1000)
    TornWrites,    \* may a write that fails leave half a line?
    MaxTime, MaxFaults   \* bounds

ASSUME SaleAssumption ==
    /\ IsFiniteSet(Calls) /\ Calls # {}
    /\ IsFiniteSet(Proofs)
    /\ Ends \in [Proofs -> Nat]
    /\ KeepFor \in Nat /\ PruneAfter \in Nat
    /\ ClockBack \in 0..KeepFor
    /\ MaxDelay \in Nat /\ ClockBack + MaxDelay <= KeepFor + PruneAfter
    /\ DayLength \in Nat \ {0}
    /\ DailyCap \in Nat
    /\ CompactEvery \in Nat \ {0}
    /\ TornWrites \in BOOLEAN
    /\ MaxTime \in Nat /\ MaxFaults \in Nat

None == -1   \* no claim, not known yet

VARIABLES
    store,      \* how this node's claims are remembered: chosen once
    time,
    up,         \* is the process that settles running?
    keys,       \* FileReplayStore.keys: keep-until time, by proof
    file,       \* the file's readable lines, likewise
    torn,       \* does the file end in half a line?
    since,      \* sinceCompaction
    table,      \* lnbtc_settlements: keep_until, by key
    rows,       \* facilitator_lnbtc: the day of settled_at, by payment hash
    day, today, \* the facilitator's count of the day
    call,       \* a request: [pc, proof, at, won, said]
    honoured,   \* history: how many requests each proof was served for
    claimedOn,  \* history: the day each proof was claimed
    miscounted, \* history: the last day whose first count failed
    faults

fileStore == <<keys, file, torn, since>>
counter   == <<day, today>>
history   == <<honoured, claimedOn, miscounted>>
vars == <<store, time, up, keys, file, torn, since, table, rows, day, today,
          call, honoured, claimedOn, miscounted, faults>>

Times   == 0..MaxTime
Day(t)  == t \div DayLength
Days    == 0..Day(MaxTime)
Answers == {"none", "served", "duplicate", "refused", "unavailable", "lost"}

NoCall == [pc |-> "idle", proof |-> None, at |-> 0, won |-> FALSE, said |-> "none"]

\* Slip: the claim is kept no longer than the proof settles.
KeepUntilInvoiceEnd(p) == Ends[p]

\* The claim's keep-until time: invoiceEnd + skew + 3600.
KeepUntil(p) == Ends[p] + KeepFor

Claims == [Proofs -> {None} \cup {KeepUntil(p) : p \in Proofs}]

TypeOK ==
    /\ store \in {"file", "postgres", "facilitator"}
    /\ time \in Times
    /\ up \in BOOLEAN
    /\ keys \in Claims /\ file \in Claims /\ table \in Claims
    /\ torn \in BOOLEAN
    /\ since \in 0..CompactEvery
    /\ rows \in [Proofs -> Days \cup {None}]
    /\ day \in Days \cup {None}
    /\ today \in 0..Cardinality(Proofs)
    /\ call \in [Calls -> [pc : {"idle", "asked", "claiming", "claimed", "counted"},
                           proof : Proofs \cup {None}, at : Times, won : BOOLEAN,
                           said : Answers]]
    /\ honoured \in [Proofs -> Nat]
    /\ claimedOn \in [Proofs -> Days \cup {None}]
    /\ miscounted \in Days \cup {None}
    /\ faults \in 0..MaxFaults

Init ==
    /\ store \in {"file", "postgres", "facilitator"}
    /\ time = 0
    /\ up = TRUE
    /\ keys = [p \in Proofs |-> None] /\ file = keys /\ table = keys
    /\ torn = FALSE /\ since = 0
    /\ rows = [p \in Proofs |-> None]
    /\ day = None /\ today = 0
    /\ call = [c \in Calls |-> NoCall]
    /\ honoured = [p \in Proofs |-> 0]
    /\ claimedOn = [p \in Proofs |-> None]
    /\ miscounted = None
    /\ faults = 0

-----------------------------------------------------------------------------
(* The request *)

\* What a process may read on its clock.
Now == {t \in Times : time - ClockBack <= t /\ t <= time}

\* Checks 1 to 6 of settleLnbtc do not depend on time: the proof fits the
\* request or Refuse is taken.  Check 7 is the time.
InTime(p, now) == now <= Ends[p]

\* A request comes in with a proof.  A seller settling through the facilitator
\* sends it there whether or not it is up.
Ask(c, p) ==
    /\ call[c].pc = "idle"
    /\ up \/ store = "facilitator"
    /\ call' = [call EXCEPT ![c] = [NoCall EXCEPT !.pc = "asked", !.proof = p]]
    /\ UNCHANGED <<store, time, up, fileStore, table, rows, counter, history, faults>>

\* The end of a request: what the buyer is told, unless the seller has given up.
Told(c, said) ==
    [call[c] EXCEPT !.pc = "idle", !.said = IF @ = "none" THEN said ELSE @]

\* Serving: only an answer that reaches the seller, and only after ok.
Honour(c, said) ==
    honoured' = [honoured EXCEPT ![call[c].proof] =
                    IF said = "served" /\ call[c].said = "none" THEN @ + 1 ELSE @]

\* The request does not fit the proof, or the facilitator paces the seller.
Refuse(c, said) ==
    /\ up /\ call[c].pc = "asked"
    /\ said \in {"refused", "unavailable"}
    /\ call' = [call EXCEPT ![c] = Told(c, said)]
    /\ UNCHANGED <<store, time, up, fileStore, table, rows, counter, history, faults>>

-----------------------------------------------------------------------------
(* The file *)

\* Keys dropped when the file is rewritten.
Kept(claims, now) ==
    [p \in Proofs |-> IF claims[p] < now THEN None ELSE claims[p]]

Append(p) == [file EXCEPT ![p] = IF torn THEN @ ELSE KeepUntil(p)]

\* The check and the claim are one step: there is no await between them.
FileClaim(c, now) ==
    LET p == call[c].proof
        remembered == [keys EXCEPT ![p] = KeepUntil(p)]
    IN  /\ up /\ store = "file" /\ call[c].pc = "asked"
        /\ InTime(p, now)
        /\ IF keys[p] # None
             THEN /\ call' = [call EXCEPT ![c] = Told(c, "duplicate")]
                  /\ UNCHANGED <<fileStore, history>>
             ELSE /\ IF since + 1 >= CompactEvery
                       THEN /\ keys' = Kept(remembered, now)
                            /\ file' = keys' /\ torn' = FALSE /\ since' = 0
                       ELSE /\ keys' = remembered
                            /\ file' = Append(p) /\ torn' = FALSE
                            /\ since' = since + 1
                  /\ call' = [call EXCEPT ![c] = [Told(c, "served") EXCEPT !.won = TRUE]]
                  /\ Honour(c, "served")
                  /\ claimedOn' = [claimedOn EXCEPT ![p] = Day(time)]
        /\ UNCHANGED <<store, time, up, table, rows, counter, miscounted, faults>>

FileLate(c, now) ==
    /\ up /\ store = "file" /\ call[c].pc = "asked"
    /\ ~InTime(call[c].proof, now)
    /\ call' = [call EXCEPT ![c] = Told(c, "refused")]
    /\ UNCHANGED <<store, time, up, fileStore, table, rows, counter, history, faults>>

Fault == faults < MaxFaults /\ faults' = faults + 1

\* The disk is full: the line is not written, or only half of it (TornWrites).
AppendFails(c, now) ==
    LET p == call[c].proof
    IN  /\ Fault
        /\ up /\ store = "file" /\ call[c].pc = "asked"
        /\ InTime(p, now) /\ keys[p] = None
        /\ torn' \in {torn} \cup (IF TornWrites THEN {TRUE} ELSE {})
        /\ call' = [call EXCEPT ![c] = Told(c, "unavailable")]
        /\ UNCHANGED <<store, time, up, keys, file, since, table, rows, counter, history>>

\* The claim is in, but the rewrite that was due after it fails.
CompactFails(c, now) ==
    LET p == call[c].proof
    IN  /\ Fault
        /\ up /\ store = "file" /\ call[c].pc = "asked"
        /\ InTime(p, now) /\ keys[p] = None
        /\ since + 1 >= CompactEvery
        /\ keys' = Kept([keys EXCEPT ![p] = KeepUntil(p)], now)
        /\ file' = Append(p) /\ torn' = FALSE
        /\ since' = CompactEvery
        /\ call' = [call EXCEPT ![c] = [Told(c, "unavailable") EXCEPT !.won = TRUE]]
        /\ claimedOn' = [claimedOn EXCEPT ![p] = Day(time)]
        /\ UNCHANGED <<store, time, up, table, rows, counter, honoured, miscounted>>

-----------------------------------------------------------------------------
(* The table, with or without the facilitator in front of it *)

\* Slip: a restart starts counting at zero.
SettledTodayForgets == IF day = Day(time) THEN today ELSE 0

\* Slip: the rows of the day are added at every call.
SettledTodayRecounts ==
    (IF day = Day(time) THEN today ELSE 0) + Cardinality({p \in Proofs : rows[p] = Day(time)})

\* settledToday: the first count of a process comes from facilitator_lnbtc.
\* No settlement comes between the query and its answer: all wait for it.
SettledToday ==
    IF day = Day(time) THEN today
    ELSE IF day = None THEN Cardinality({p \in Proofs : rows[p] = Day(time)})
    ELSE 0

\* The query of the first count fails: the count starts at zero.
FirstCountFails(c) ==
    /\ Fault
    /\ up /\ store = "facilitator" /\ call[c].pc = "asked"
    /\ day = None
    /\ day' = Day(time) /\ today' = 0
    /\ miscounted' = Day(time)
    /\ UNCHANGED <<store, time, up, fileStore, table, rows, call, honoured, claimedOn>>

\* The day's cap, then the checks; then the claim is on its way.
Admit(c, now) ==
    LET open == store = "facilitator"
        full == open /\ SettledToday >= DailyCap
        ok   == InTime(call[c].proof, now)
    IN  /\ up /\ store # "file" /\ call[c].pc = "asked"
        /\ IF open THEN day' = Day(time) /\ today' = SettledToday
           ELSE UNCHANGED counter
        /\ call' = [call EXCEPT ![c] =
              IF full THEN Told(c, "unavailable")
              ELSE IF ~ok THEN Told(c, "refused")
              ELSE [@ EXCEPT !.pc = "claiming", !.at = time]]
        /\ UNCHANGED <<store, time, up, fileStore, table, rows, history, faults>>

\* INSERT ... ON CONFLICT (key) DO NOTHING
Insert(p) ==
    IF table[p] # None THEN UNCHANGED <<table, claimedOn>>
    ELSE /\ table' = [table EXCEPT ![p] = KeepUntil(p)]
         /\ claimedOn' = [claimedOn EXCEPT ![p] = Day(time)]

Claim(c) ==
    LET p == call[c].proof
    IN  /\ up /\ call[c].pc = "claiming"
        /\ Insert(p)
        /\ call' = [call EXCEPT ![c].pc = "claimed", ![c].won = (table[p] = None)]
        /\ UNCHANGED <<store, time, up, fileStore, rows, counter, honoured, miscounted, faults>>

\* The connection breaks: the row may be there all the same.
ClaimLost(c) ==
    LET p == call[c].proof
    IN  /\ Fault
        /\ up /\ call[c].pc = "claiming"
        /\ \/ /\ Insert(p)
              /\ call' = [call EXCEPT ![c] =
                             [Told(c, "unavailable") EXCEPT !.won = (table[p] = None)]]
           \/ /\ UNCHANGED <<table, claimedOn>>
              /\ call' = [call EXCEPT ![c] = Told(c, "unavailable")]
        /\ UNCHANGED <<store, time, up, fileStore, rows, counter, honoured, miscounted>>

\* Slip: the day's cap is looked at once the proof is claimed.
AnswerCapped(c) ==
    LET full == store = "facilitator" /\ call[c].won /\ SettledToday >= DailyCap
        said == IF full THEN "unavailable"
                ELSE IF call[c].won THEN "served" ELSE "duplicate"
    IN  /\ up /\ call[c].pc = "claimed"
        /\ IF store = "facilitator" /\ call[c].won /\ ~full
             THEN /\ call' = [call EXCEPT ![c].pc = "counted"]
                  /\ day' = Day(time) /\ today' = SettledToday + 1
                  /\ UNCHANGED honoured
             ELSE /\ call' = [call EXCEPT ![c] = Told(c, said)]
                  /\ Honour(c, said)
                  /\ UNCHANGED counter
        /\ UNCHANGED <<store, time, up, fileStore, table, rows, claimedOn, miscounted, faults>>

\* The claim's answer: our own route is served, the facilitator counts first.
Answer(c) ==
    LET said == IF call[c].won THEN "served" ELSE "duplicate"
    IN  /\ up /\ call[c].pc = "claimed"
        /\ IF store = "facilitator" /\ call[c].won
             THEN /\ call' = [call EXCEPT ![c].pc = "counted"]
                  /\ day' = Day(time) /\ today' = SettledToday + 1
                  /\ UNCHANGED honoured
             ELSE /\ call' = [call EXCEPT ![c] = Told(c, said)]
                  /\ Honour(c, said)
                  /\ UNCHANGED counter
        /\ UNCHANGED <<store, time, up, fileStore, table, rows, claimedOn, miscounted, faults>>

\* onSettled writes the row of facilitator_lnbtc, and the seller hears.
Settled(c) ==
    LET p == call[c].proof
    IN  /\ up /\ call[c].pc = "counted"
        /\ \/ rows' = [rows EXCEPT ![p] = IF @ = None THEN Day(time) ELSE @]
              /\ UNCHANGED faults
           \/ Fault /\ UNCHANGED rows
        /\ call' = [call EXCEPT ![c] = Told(c, "served")]
        /\ Honour(c, "served")
        /\ UNCHANGED <<store, time, up, fileStore, table, counter, claimedOn, miscounted>>

\* The seller's call to the facilitator times out, before or after it got there.
GiveUp(c) ==
    /\ store = "facilitator" /\ Fault
    /\ call[c].pc # "idle" /\ call[c].said = "none"
    /\ \/ call' = [call EXCEPT ![c].said = "unavailable"]
       \/ call[c].pc = "asked" /\ call' = [call EXCEPT ![c] = Told(c, "unavailable")]
    /\ UNCHANGED <<store, time, up, fileStore, table, rows, counter, history>>

\* Slip: rows go as soon as their time has passed, not a day later.
PruneAtOnce ==
    /\ up /\ store # "file"
    /\ \E p \in Proofs : table[p] # None /\ table[p] < time
    /\ table' = Kept(table, time)
    /\ UNCHANGED <<store, time, up, fileStore, rows, counter, call, history, faults>>

\* PgReplayStore.prune, by the database's clock.  None, too, is far in the past.
Prune ==
    /\ up /\ store # "file"
    /\ \E p \in Proofs : table[p] # None /\ table[p] + PruneAfter < time
    /\ table' = [p \in Proofs |-> IF table[p] + PruneAfter < time THEN None ELSE table[p]]
    /\ UNCHANGED <<store, time, up, fileStore, rows, counter, call, history, faults>>

-----------------------------------------------------------------------------
(* Time, crashes and restarts *)

Tick ==
    /\ time < MaxTime
    /\ \A c \in Calls : call[c].pc = "claiming" => time + 1 - call[c].at <= MaxDelay
    /\ time' = time + 1
    /\ UNCHANGED <<store, up, fileStore, table, rows, counter, call, history, faults>>

\* No buyer under way gets an answer; a seller at the facilitator sees the
\* connection break.
Hung ==
    [c \in Calls |->
        IF call[c].pc = "idle" THEN call[c]
        ELSE Told(c, IF store = "facilitator" THEN "unavailable" ELSE "lost")]

\* What is in memory goes.  A claim that was being written to the file left a
\* whole line, half a line, or none.
Crash ==
    /\ up /\ Fault
    /\ up' = FALSE
    /\ keys' = [p \in Proofs |-> None] /\ since' = 0
    /\ day' = None /\ today' = 0
    /\ call' = Hung
    /\ \/ UNCHANGED <<file, torn, claimedOn>>
       \/ /\ store = "file"
          /\ \E c \in Calls, now \in Now :
                LET p == call[c].proof
                IN  /\ call[c].pc = "asked" /\ InTime(p, now) /\ keys[p] = None
                    /\ \/ /\ file' = Append(p) /\ torn' = FALSE
                          /\ claimedOn' = [claimedOn EXCEPT ![p] = Day(time)]
                       \/ torn' = TRUE /\ UNCHANGED <<file, claimedOn>>
    /\ UNCHANGED <<store, time, table, rows, honoured, miscounted>>

\* The file is read back and rewritten.
Restart(now) ==
    /\ ~up
    /\ up' = TRUE
    /\ keys' = Kept(file, now)
    /\ file' = keys' /\ torn' = FALSE
    /\ UNCHANGED <<store, time, since, table, rows, counter, call, history, faults>>

CallStep(c) ==
    \/ \E p \in Proofs : Ask(c, p)
    \/ \E said \in Answers : Refuse(c, said)
    \/ \E now \in Now : \/ FileClaim(c, now) \/ FileLate(c, now)
                        \/ AppendFails(c, now) \/ CompactFails(c, now)
                        \/ Admit(c, now)
    \/ FirstCountFails(c)
    \/ Claim(c) \/ ClaimLost(c) \/ Answer(c) \/ Settled(c) \/ GiveUp(c)

Next ==
    \/ \E c \in Calls : CallStep(c)
    \/ Prune
    \/ Tick
    \/ Crash
    \/ \E now \in Now : Restart(now)

Spec == Init /\ [][Next]_vars

-----------------------------------------------------------------------------
(* Properties *)

\* A proof buys one answer: however requests overlap, the process crashes and
\* restarts, the file is rewritten, the table is pruned and clocks disagree.
HonouredOnce == \A p \in Proofs : honoured[p] <= 1

\* A durable claim stays as long as any clock still takes the proof.
Durable == [p \in Proofs |-> IF store = "file" THEN file[p] ELSE table[p]]

ClaimsLast ==
    [][\A p \in Proofs :
          Durable[p] # None /\ time' - ClockBack <= Ends[p] => Durable'[p] # None]_vars

\* A call that claimed the proof and has not answered yet.
Settling(c, p) ==
    call[c].proof = p /\ call[c].won /\ call[c].pc \in {"claimed", "counted"}

\* Without a fault, a claimed proof has bought its answer or is about to: no
\* check that can still refuse comes after the claim.
NoProofWasted ==
    faults = 0 =>
        \A p \in Proofs : claimedOn[p] # None =>
            \/ honoured[p] = 1
            \/ \E c \in Calls : Settling(c, p)

\* The facilitator's cap on a day is passed by no more than the settlements
\* that were under way together and those whose row a fault lost, as long as
\* the count of the day could be read.
Lost(d) ==
    {p \in Proofs : /\ claimedOn[p] = d /\ rows[p] = None
                    /\ ~\E c \in Calls : Settling(c, p)}

DayBounded ==
    store = "facilitator" /\ miscounted # Day(time) =>
        Cardinality({p \in Proofs : claimedOn[p] = Day(time)})
            <= DailyCap + Cardinality(Calls) - 1 + Cardinality(Lost(Day(time)))

\* "Nothing was claimed: the same proof can come back".
UnavailableMeansUnclaimed ==
    \A c \in Calls : call[c].said = "unavailable" => ~call[c].won
=============================================================================
