------------------------- MODULE LightningSaleProofs -------------------------
(***************************************************************************)
(* What a sale for sats promises, for every number of requests and proofs, *)
(* every lifetime of a proof and every bound: a durable claim outlasts the *)
(* proof, a proof buys one answer, without a fault it buys one, and the    *)
(* facilitator's cap on a day holds but for what overlapped or was lost.   *)
(***************************************************************************)
EXTENDS LightningSale, FiniteSetTheorems, TLAPS

CallState == [pc : {"idle", "asked", "claiming", "claimed", "counted"},
              proof : Proofs \cup {None}, at : Nat, won : BOOLEAN, said : Answers]

\* A claim is kept until its time or not at all.
ClaimMap(f) ==
    f \in [Proofs -> Int] /\ \A p \in Proofs : f[p] \in {None, KeepUntil(p)}

TypeInv ==
    /\ store \in {"file", "postgres", "facilitator"}
    /\ time \in Nat
    /\ up \in BOOLEAN /\ torn \in BOOLEAN
    /\ ClaimMap(keys) /\ ClaimMap(file) /\ ClaimMap(table)
    /\ call \in [Calls -> CallState]
    /\ honoured \in [Proofs -> Nat]
    /\ claimedOn \in [Proofs -> Int]
    /\ faults \in Nat

\* No clock takes the proof any more; its row may be pruned.
Expired(p)   == time > Ends[p] + ClockBack
Forgotten(p) == time > Ends[p] + KeepFor + PruneAfter

\* A statement on its way to the table was admitted in time, and not long ago.
CallOK(c) ==
    /\ call[c].pc # "idle" => call[c].proof \in Proofs
    /\ store = "file" => call[c].pc \in {"idle", "asked"}
    /\ call[c].pc = "claiming" =>
         /\ call[c].at <= Ends[call[c].proof] + ClockBack
         /\ time <= call[c].at + MaxDelay
    /\ call[c].pc = "counted" => call[c].won
    /\ faults = 0 /\ call[c].pc # "idle" => call[c].said = "none"

\* The process that is up has in memory what its file says.
KeysOK(p) == up /\ file[p] # None => keys[p] # None \/ Expired(p)

BaseInv ==
    /\ TypeInv
    /\ \A c \in Calls : CallOK(c)
    /\ \A p \in Proofs : KeysOK(p)

\* A proof that has bought its answer, or is about to, is remembered.
Spent(p) == honoured[p] # 0 \/ \E c \in Calls : Settling(c, p)

Remembered(p) ==
    IF store = "file" THEN file[p] # None \/ Expired(p)
    ELSE table[p] # None \/ Forgotten(p)

ProofOK(p) ==
    /\ honoured[p] <= 1
    /\ \A c \in Calls : Settling(c, p) => honoured[p] = 0
    /\ \A c, d \in Calls : Settling(c, p) /\ Settling(d, p) => c = d
    /\ Spent(p) => Remembered(p)
    /\ faults = 0 /\ claimedOn[p] # None => Spent(p)

\* No write is torn: the file of a process that is up ends in a whole line.
OnceInv == (up => torn = FALSE) /\ \A p \in Proofs : ProofOK(p)

-----------------------------------------------------------------------------
(* The figures *)

\* What the constants are worth to the provers.
LEMMA Lengths ==
    /\ ClockBack \in Nat /\ KeepFor \in Nat /\ PruneAfter \in Nat /\ MaxDelay \in Nat
    /\ ClockBack <= KeepFor
    /\ ClockBack + MaxDelay <= KeepFor + PruneAfter
    /\ \A p \in Proofs : /\ Ends[p] \in Nat /\ KeepUntil(p) \in Nat
                         /\ KeepUntil(p) = Ends[p] + KeepFor
                         /\ KeepUntil(p) # None
  BY SaleAssumption DEF SaleAssumption, KeepUntil, None

\* Day(time) is a day.
LEMMA DayIsInt == ASSUME time \in Nat PROVE Day(time) \in Int
  BY SaleAssumption DEF SaleAssumption, Day

\* What a clock may read.
LEMMA NowFacts ==
    ASSUME time \in Nat, NEW now \in Now
    PROVE  now \in Nat /\ now <= time /\ time <= now + ClockBack
  <1>1. now \in Nat
    BY SaleAssumption DEF SaleAssumption, Now, Times
  <1>2. time - ClockBack <= now /\ now <= time
    BY DEF Now
  <1> QED BY <1>1, <1>2, Lengths

\* What is dropped by a rewrite of the file is past its time on every clock.
LEMMA KeptFacts ==
    ASSUME NEW f, ClaimMap(f), time \in Nat, NEW now \in Now
    PROVE  /\ ClaimMap(Kept(f, now))
           /\ \A p \in Proofs : f[p] # None /\ ~Expired(p) => Kept(f, now)[p] # None
  <1>1. now \in Nat /\ now <= time
    BY NowFacts
  <1>2. Kept(f, now) \in [Proofs -> Int]
    BY DEF Kept, ClaimMap, None
  <1>3. ASSUME NEW p \in Proofs PROVE Kept(f, now)[p] \in {None, KeepUntil(p)}
    BY DEF Kept, ClaimMap
  <1>4. ASSUME NEW p \in Proofs, f[p] # None, ~Expired(p)
        PROVE  Kept(f, now)[p] # None
    <2>1. f[p] = Ends[p] + KeepFor
      BY <1>4, Lengths DEF ClaimMap
    <2>2. time <= Ends[p] + ClockBack
      BY <1>4, Lengths DEF Expired
    <2>3. ~(f[p] < now)
      BY <2>1, <2>2, <1>1, Lengths
    <2> QED BY <2>3, <1>4 DEF Kept
  <1> QED BY <1>2, <1>3, <1>4 DEF ClaimMap
-----------------------------------------------------------------------------
(* Every step keeps BaseInv *)

\* A request that ends was open, and is told what it is told.
LEMMA ToldFacts ==
    ASSUME TypeInv, NEW c \in Calls, NEW said \in Answers
    PROVE  /\ Told(c, said) \in CallState
           /\ Told(c, said).pc = "idle"
           /\ Told(c, said).proof = call[c].proof
           /\ Told(c, said).won = call[c].won
  BY DEF TypeInv, Told, CallState

\* The steps that touch neither time, nor a claim, nor what a proof bought.
Quiet(c) ==
    \/ \E p \in Proofs : Ask(c, p)
    \/ \E said \in Answers : Refuse(c, said)
    \/ \E now \in Now : FileLate(c, now) \/ AppendFails(c, now) \/ Admit(c, now)
    \/ FirstCountFails(c)
    \/ GiveUp(c)

QuietFrame(c) ==
    /\ UNCHANGED <<store, time, up, keys, file, table, honoured, claimedOn>>
    /\ faults' \in Nat /\ (faults' = 0 => faults = 0)
    /\ torn' \in BOOLEAN /\ (~TornWrites => torn' = torn)
    /\ call' \in [Calls -> CallState]
    /\ \A d \in Calls \ {c} : call'[d] = call[d]
    /\ CallOK(c)'
    /\ \A p \in Proofs : Settling(c, p)' <=> Settling(c, p)

LEMMA QuietSteps ==
    ASSUME BaseInv, NEW c \in Calls, Quiet(c)
    PROVE  QuietFrame(c)
  <1> USE DEF BaseInv, TypeInv, QuietFrame
  <1>0. call[c] \in CallState /\ CallOK(c)
    OBVIOUS
  <1>1. ASSUME NEW p \in Proofs, Ask(c, p)
        PROVE  QuietFrame(c)
    BY <1>0, <1>1 DEF Ask, CallState, CallOK, Settling, NoCall, Answers,
       fileStore, counter, history
  <1>2. ASSUME NEW said \in Answers, Refuse(c, said)
        PROVE  QuietFrame(c)
    BY <1>0, <1>2, ToldFacts DEF Refuse, CallState, CallOK, Settling, Answers,
       fileStore, counter, history
  <1>3. ASSUME NEW now \in Now, FileLate(c, now)
        PROVE  QuietFrame(c)
    <2>1. "refused" \in Answers
      BY DEF Answers
    <2> QED
      BY <1>0, <1>3, <2>1, ToldFacts DEF FileLate, CallState, CallOK, Settling,
         fileStore, counter, history
  <1>4. ASSUME NEW now \in Now, AppendFails(c, now)
        PROVE  QuietFrame(c)
    <2>1. "unavailable" \in Answers
      BY DEF Answers
    <2>2. torn' \in BOOLEAN /\ (~TornWrites => torn' = torn)
      BY <1>4, Zenon DEF AppendFails
    <2>3. /\ UNCHANGED <<store, time, up, keys, file, table, honoured, claimedOn>>
          /\ faults' = faults + 1
          /\ call' = [call EXCEPT ![c] = Told(c, "unavailable")]
      BY <1>4 DEF AppendFails, Fault, history
    <2>4. /\ call' \in [Calls -> CallState]
          /\ \A d \in Calls \ {c} : call'[d] = call[d]
          /\ call'[c] = Told(c, "unavailable")
      BY <2>1, <2>3, ToldFacts
    <2>5. CallOK(c)' /\ faults' \in Nat /\ faults' # 0
      BY <1>0, <2>1, <2>3, <2>4, ToldFacts DEF CallOK
    <2>6. \A p \in Proofs : ~Settling(c, p) /\ ~Settling(c, p)'
      BY <1>4, <2>1, <2>4, ToldFacts DEF Settling, AppendFails
    <2> QED
      BY <2>2, <2>3, <2>4, <2>5, <2>6, Zenon
  <1>5. ASSUME NEW now \in Now, Admit(c, now)
        PROVE  QuietFrame(c)
    <2>1. "unavailable" \in Answers /\ "refused" \in Answers
      BY DEF Answers
    <2>2. now \in Nat /\ time <= now + ClockBack
      BY NowFacts
    <2>3. /\ call[c].proof \in Proofs /\ call[c].pc = "asked"
          /\ store # "file"
      BY <1>0, <1>5 DEF Admit, CallOK
    <2>4. UNCHANGED <<store, time, up, keys, file, torn, table, honoured, claimedOn, faults>>
      BY <1>5 DEF Admit, fileStore, history
    <2> DEFINE go == [call[c] EXCEPT !.pc = "claiming", !.at = time]
    <2>5. \/ \E said \in Answers : call' = [call EXCEPT ![c] = Told(c, said)]
          \/ InTime(call[c].proof, now) /\ call' = [call EXCEPT ![c] = go]
      BY <1>5, <2>1 DEF Admit
    <2>6. ASSUME NEW said \in Answers, call' = [call EXCEPT ![c] = Told(c, said)]
          PROVE  QuietFrame(c)
      BY <1>0, <2>3, <2>4, <2>6, ToldFacts DEF CallOK, Settling
    <2>7. CASE InTime(call[c].proof, now) /\ call' = [call EXCEPT ![c] = go]
      <3>1. /\ time <= Ends[call[c].proof] + ClockBack
            /\ time <= time + MaxDelay
        BY <2>2, <2>3, <2>7, Lengths DEF InTime
      <3>2. go \in CallState
        BY <1>0 DEF CallState
      <3>3. /\ call'[c] = go /\ go.pc = "claiming" /\ go.at = time
            /\ go.proof = call[c].proof /\ go.said = call[c].said
        BY <2>7, <1>0 DEF CallState
      <3> HIDE DEF go
      <3>4. /\ call' \in [Calls -> CallState]
            /\ \A d \in Calls \ {c} : call'[d] = call[d]
        BY <2>7, <3>2
      <3>5. CallOK(c)'
        BY <1>0, <2>3, <2>4, <3>1, <3>3 DEF CallOK
      <3>6. \A p \in Proofs : ~Settling(c, p) /\ ~Settling(c, p)'
        BY <2>3, <3>3 DEF Settling
      <3> QED BY <2>4, <3>4, <3>5, <3>6
    <2> QED BY <2>5, <2>6, <2>7
  <1>6. ASSUME FirstCountFails(c)
        PROVE  QuietFrame(c)
    BY <1>0, <1>6 DEF FirstCountFails, Fault, CallOK, Settling, fileStore
  <1>7. ASSUME GiveUp(c)
        PROVE  QuietFrame(c)
    <2>1. "unavailable" \in Answers
      BY DEF Answers
    <2> QED
      BY <1>0, <1>7, <2>1, ToldFacts DEF GiveUp, Fault, CallState, CallOK, Settling,
         fileStore, counter, history
  <1> QED
    BY <1>1, <1>2, <1>3, <1>4, <1>5, <1>6, <1>7 DEF Quiet

\* The other requests are as they were.
LEMMA QuietKeepsBase ==
    ASSUME BaseInv, NEW c \in Calls, QuietFrame(c)
    PROVE  BaseInv'
  <1>1. TypeInv'
    BY DEF BaseInv, TypeInv, QuietFrame, ClaimMap
  <1>2. \A d \in Calls : CallOK(d)'
    BY DEF BaseInv, TypeInv, QuietFrame, CallOK
  <1>3. \A p \in Proofs : KeysOK(p)'
    BY DEF BaseInv, QuietFrame, KeysOK, Expired
  <1> QED BY <1>1, <1>2, <1>3 DEF BaseInv

-----------------------------------------------------------------------------
(* The steps that claim, answer, forget or fail *)

\* A request that ends, and the others as they were.
Ends1(c) ==
    /\ \E x \in CallState : x.pc = "idle" /\ call' = [call EXCEPT ![c] = x]
    /\ faults' \in Nat /\ (faults' = 0 => faults = 0)

\* A line of the file: the claim is in memory and, were the last line whole, in
\* the file; nothing is dropped before its time.
TakesLine(c) ==
    LET p == call[c].proof
    IN  /\ p \in Proofs /\ keys[p] = None /\ ~Expired(p)
        /\ store = "file" /\ up /\ call[c].pc = "asked"
        /\ UNCHANGED <<store, time, up, table>>
        /\ ClaimMap(keys') /\ ClaimMap(file') /\ torn' = FALSE
        /\ torn = FALSE => file'[p] # None
        /\ \A q \in Proofs : file[q] # None /\ ~Expired(q) => file'[q] # None
        /\ \A q \in Proofs : file'[q] # None => keys'[q] # None \/ Expired(q)
        /\ claimedOn' = [claimedOn EXCEPT ![p] = Day(time)]

\* The three ways a claim gets into the file: a line, a line and a rewrite, a
\* line whose rewrite fails.
LEMMA LineFacts ==
    ASSUME BaseInv, NEW c \in Calls, NEW now \in Now,
           store = "file", up, call[c].pc = "asked",
           InTime(call[c].proof, now), keys[call[c].proof] = None,
           UNCHANGED <<store, time, up, table>>, torn' = FALSE,
           claimedOn' = [claimedOn EXCEPT ![call[c].proof] = Day(time)],
           LET R == [keys EXCEPT ![call[c].proof] = KeepUntil(call[c].proof)]
           IN  \/ keys' = Kept(R, now) /\ file' = keys'
               \/ keys' = R /\ file' = Append(call[c].proof)
               \/ keys' = Kept(R, now) /\ file' = Append(call[c].proof)
    PROVE  TakesLine(c)
  <1> DEFINE p == call[c].proof
             R == [keys EXCEPT ![p] = KeepUntil(p)]
  <1>1. /\ ClaimMap(keys) /\ ClaimMap(file) /\ ClaimMap(table)
        /\ time \in Nat
        /\ p \in Proofs
        /\ \A q \in Proofs : file[q] # None => keys[q] # None \/ Expired(q)
    BY DEF BaseInv, TypeInv, CallOK, KeysOK
  <1>2. ~Expired(p)
    <2>1. time <= now + ClockBack /\ now \in Nat /\ now <= Ends[p]
      BY <1>1, NowFacts DEF InTime
    <2> QED BY <1>1, <2>1, Lengths DEF Expired
  <1>3. ClaimMap(R)
    BY <1>1, Lengths DEF ClaimMap
  <1>4. /\ R[p] # None
        /\ \A q \in Proofs : keys[q] # None => R[q] # None
    BY <1>1, Lengths DEF ClaimMap
  <1>5. /\ ClaimMap(Append(p))
        /\ \A q \in Proofs : file[q] # None => Append(p)[q] # None
        /\ \A q \in Proofs : q # p => Append(p)[q] = file[q]
        /\ torn = FALSE => Append(p)[p] # None
    BY <1>1, Lengths DEF ClaimMap, Append
  <1>6. /\ ClaimMap(Kept(R, now))
        /\ \A q \in Proofs : R[q] # None /\ ~Expired(q) => Kept(R, now)[q] # None
    <2> HIDE DEF R
    <2> QED BY <1>1, <1>3, KeptFacts
  <1>7. \/ keys' = Kept(R, now) /\ file' = keys'
        \/ keys' = R /\ file' = Append(p)
        \/ keys' = Kept(R, now) /\ file' = Append(p)
    OBVIOUS
  <1> HIDE DEF R
  <1>8. ClaimMap(keys') /\ ClaimMap(file')
    BY <1>3, <1>5, <1>6, <1>7
  <1>9. torn = FALSE => file'[p] # None
    BY <1>1, <1>2, <1>4, <1>5, <1>6, <1>7
  <1>10. \A q \in Proofs : file[q] # None /\ ~Expired(q) => file'[q] # None
    BY <1>1, <1>4, <1>5, <1>6, <1>7
  <1>11. \A q \in Proofs : file'[q] # None => keys'[q] # None \/ Expired(q)
    BY <1>1, <1>4, <1>5, <1>6, <1>7
  <1> QED
    BY <1>1, <1>2, <1>8, <1>9, <1>10, <1>11 DEF TakesLine

\* A claim against the file: answered as a duplicate, or taken and served.
LEMMA FileClaimFacts ==
    ASSUME BaseInv, NEW c \in Calls, NEW now \in Now, FileClaim(c, now)
    PROVE  \/ QuietFrame(c)
           \/ TakesLine(c) /\ Ends1(c) /\ Honour(c, "served") /\ UNCHANGED faults
  <1>1. /\ call \in [Calls -> CallState] /\ CallOK(c) /\ torn \in BOOLEAN
        /\ faults \in Nat
    BY DEF BaseInv, TypeInv
  <1>2. "duplicate" \in Answers /\ "served" \in Answers
    BY DEF Answers
  <1>3. CASE keys[call[c].proof] # None
    <2>1. /\ UNCHANGED <<store, time, up, keys, file, torn, table, honoured,
                         claimedOn, faults>>
          /\ call' = [call EXCEPT ![c] = Told(c, "duplicate")]
          /\ call[c].pc = "asked"
      BY <1>3, FileClaim(c, now) DEF FileClaim, fileStore, history
    <2> QED
      BY <1>1, <1>2, <2>1, ToldFacts DEF BaseInv, TypeInv, QuietFrame, CallOK, Settling
  <1>4. CASE keys[call[c].proof] = None
    <2> DEFINE y == Told(c, "served")
               x == [y EXCEPT !.won = TRUE]
    <2>1. /\ call' = [call EXCEPT ![c] = x]
          /\ faults' = faults
          /\ Honour(c, "served")
      <3>1. call' = [call EXCEPT ![c] = x]
        BY <1>4 DEF FileClaim
      <3>2. faults' = faults
        BY DEF FileClaim
      <3>3. Honour(c, "served")
        BY <1>4 DEF FileClaim
      <3> QED BY <3>1, <3>2, <3>3
    <2>2. x \in CallState /\ x.pc = "idle"
      <3>1. y \in CallState /\ y.pc = "idle"
        BY <1>2, ToldFacts DEF BaseInv
      <3> HIDE DEF y
      <3> QED BY <3>1 DEF CallState
    <2> HIDE DEF x
    <2>3. Ends1(c)
      BY <1>1, <2>1, <2>2 DEF Ends1
    <2>4. /\ store = "file" /\ up /\ call[c].pc = "asked"
          /\ InTime(call[c].proof, now)
          /\ UNCHANGED <<store, time, up, table>> /\ torn' = FALSE
          /\ claimedOn' = [claimedOn EXCEPT ![call[c].proof] = Day(time)]
      BY <1>4 DEF FileClaim
    <2>5. LET R == [keys EXCEPT ![call[c].proof] = KeepUntil(call[c].proof)]
          IN  \/ keys' = Kept(R, now) /\ file' = keys'
              \/ keys' = R /\ file' = Append(call[c].proof)
      BY <1>4 DEF FileClaim
    <2>6. TakesLine(c)
      BY <1>4, <2>4, <2>5, LineFacts
    <2> QED BY <2>1, <2>3, <2>6
  <1> QED BY <1>3, <1>4

LEMMA CompactFailsFacts ==
    ASSUME BaseInv, NEW c \in Calls, NEW now \in Now, CompactFails(c, now)
    PROVE  TakesLine(c) /\ Ends1(c) /\ UNCHANGED honoured /\ faults' # 0
  <1>1. faults \in Nat
    BY DEF BaseInv, TypeInv
  <1>2. "unavailable" \in Answers
    BY DEF Answers
  <1> DEFINE y == Told(c, "unavailable")
             x == [y EXCEPT !.won = TRUE]
  <1>3. x \in CallState /\ x.pc = "idle"
    <2>1. y \in CallState /\ y.pc = "idle"
      BY <1>2, ToldFacts DEF BaseInv
    <2> HIDE DEF y
    <2> QED BY <2>1 DEF CallState
  <1>4. /\ call' = [call EXCEPT ![c] = x] /\ UNCHANGED honoured
        /\ faults' = faults + 1
    BY Zenon DEF CompactFails, Fault
  <1> HIDE DEF x
  <1>5. faults' \in Nat /\ faults' # 0
    BY <1>1, <1>4
  <1>9. Ends1(c)
    BY <1>3, <1>4, <1>5, Zenon DEF Ends1
  <1>6. /\ store = "file" /\ up /\ call[c].pc = "asked"
        /\ InTime(call[c].proof, now) /\ keys[call[c].proof] = None
        /\ UNCHANGED <<store, time, up, table>> /\ torn' = FALSE
        /\ claimedOn' = [claimedOn EXCEPT ![call[c].proof] = Day(time)]
    BY Zenon DEF CompactFails
  <1>7. LET R == [keys EXCEPT ![call[c].proof] = KeepUntil(call[c].proof)]
        IN  keys' = Kept(R, now) /\ file' = Append(call[c].proof)
    BY Zenon DEF CompactFails
  <1>8. TakesLine(c)
    BY <1>6, <1>7, LineFacts
  <1> QED BY <1>4, <1>5, <1>8, <1>9

\* A row of the table: there already, or there now.
LEMMA InsertFacts ==
    ASSUME TypeInv, NEW p \in Proofs, Insert(p)
    PROVE  /\ ClaimMap(table') /\ table'[p] # None
           /\ \A q \in Proofs : table[q] # None => table'[q] # None
           /\ claimedOn' \in [Proofs -> Int]
           /\ \A q \in Proofs \ {p} : claimedOn'[q] = claimedOn[q]
           /\ table[p] # None => claimedOn' = claimedOn
  <1>1. CASE table[p] # None
    BY <1>1 DEF TypeInv, Insert
  <1>2. CASE table[p] = None
    <2>1. /\ table' = [table EXCEPT ![p] = KeepUntil(p)]
          /\ claimedOn' = [claimedOn EXCEPT ![p] = Day(time)]
      BY <1>2 DEF Insert
    <2>2. ClaimMap(table') /\ table'[p] # None
      BY <2>1, Lengths DEF TypeInv, ClaimMap
    <2>3. \A q \in Proofs : table[q] # None => table'[q] # None
      BY <2>1, Lengths DEF TypeInv, ClaimMap
    <2> QED BY <1>2, <2>1, <2>2, <2>3, DayIsInt DEF TypeInv
  <1> QED BY <1>1, <1>2

\* What the statement to the table does to the claims and to the request.
TakesRow(c) ==
    LET p == call[c].proof
    IN  /\ p \in Proofs /\ call[c].pc = "claiming"
        /\ store # "file" /\ up
        /\ UNCHANGED <<store, time, up, keys, file, torn, honoured>>
        /\ faults' \in Nat /\ (faults' = 0 => faults = 0)
        /\ ClaimMap(table') /\ claimedOn' \in [Proofs -> Int]
        /\ \A q \in Proofs : table[q] # None => table'[q] # None
        /\ \A q \in Proofs \ {p} : claimedOn'[q] = claimedOn[q]
        /\ call' \in [Calls -> CallState]
        /\ \A d \in Calls \ {c} : call'[d] = call[d]

LEMMA ClaimFacts ==
    ASSUME BaseInv, NEW c \in Calls, Claim(c)
    PROVE  /\ TakesRow(c) /\ faults' = faults
           /\ call'[c].pc = "claimed" /\ call'[c].proof = call[c].proof
           /\ call'[c].said = call[c].said
           /\ call'[c].won <=> table[call[c].proof] = None
           /\ table'[call[c].proof] # None
           /\ table[call[c].proof] # None => claimedOn' = claimedOn
  <1>1. /\ TypeInv /\ CallOK(c) /\ call[c] \in CallState
        /\ faults \in Nat /\ call \in [Calls -> CallState]
    BY DEF BaseInv, TypeInv
  <1>2. /\ up /\ call[c].pc = "claiming" /\ Insert(call[c].proof)
        /\ call' = [call EXCEPT ![c].pc = "claimed",
                                ![c].won = (table[call[c].proof] = None)]
        /\ UNCHANGED <<store, time, up, keys, file, torn, honoured>>
        /\ faults' = faults
    BY DEF Claim, fileStore
  <1>3. call[c].proof \in Proofs /\ store # "file"
    BY <1>1, <1>2 DEF CallOK
  <1> DEFINE w == table[call[c].proof] = None
             x == [[call[c] EXCEPT !.pc = "claimed"] EXCEPT !.won = w]
  <1>4. call' = [call EXCEPT ![c] = x]
    BY <1>1, <1>2
  <1>5. w \in BOOLEAN
    OBVIOUS
  <1>6. /\ x \in CallState /\ x.pc = "claimed" /\ x.proof = call[c].proof
        /\ x.said = call[c].said
    <2> HIDE DEF w
    <2> QED BY <1>1, <1>5 DEF CallState
  <1>7. x.won = w
    <2> HIDE DEF w
    <2> QED BY <1>1 DEF CallState
  <1> HIDE DEF x
  <1>8. /\ call' \in [Calls -> CallState] /\ call'[c] = x
        /\ \A d \in Calls \ {c} : call'[d] = call[d]
    BY <1>1, <1>4, <1>6
  <1>9. TakesRow(c)
    BY <1>1, <1>2, <1>3, <1>8, InsertFacts DEF TakesRow
  <1>10. call'[c].won <=> table[call[c].proof] = None
    BY <1>7, <1>8
  <1> QED
    BY <1>1, <1>2, <1>3, <1>6, <1>8, <1>9, <1>10, InsertFacts

LEMMA ClaimLostFacts ==
    ASSUME BaseInv, NEW c \in Calls, ClaimLost(c)
    PROVE  TakesRow(c) /\ call'[c].pc = "idle" /\ faults' # 0
  <1>1. /\ TypeInv /\ CallOK(c) /\ call[c] \in CallState
        /\ faults \in Nat /\ call \in [Calls -> CallState]
    BY DEF BaseInv, TypeInv
  <1>2. "unavailable" \in Answers
    BY DEF Answers
  <1> DEFINE y == Told(c, "unavailable")
             w == table[call[c].proof] = None
             x == [y EXCEPT !.won = w]
  <1>3. /\ up /\ call[c].pc = "claiming" /\ faults' = faults + 1
        /\ UNCHANGED <<store, time, up, keys, file, torn, honoured>>
    BY DEF ClaimLost, Fault, fileStore
  <1>4. call[c].proof \in Proofs /\ store # "file"
    BY <1>1, <1>3 DEF CallOK
  <1>5. y \in CallState /\ y.pc = "idle"
    BY <1>1, <1>2, ToldFacts
  <1>6. x \in CallState /\ x.pc = "idle"
    <2>1. w \in BOOLEAN
      OBVIOUS
    <2> HIDE DEF y, w
    <2> QED BY <1>5, <2>1 DEF CallState
  <1>7. \/ Insert(call[c].proof) /\ call' = [call EXCEPT ![c] = x]
        \/ UNCHANGED <<table, claimedOn>> /\ call' = [call EXCEPT ![c] = y]
    BY DEF ClaimLost
  <1> HIDE DEF x, y
  <1>8. /\ call' \in [Calls -> CallState] /\ call'[c].pc = "idle"
        /\ \A d \in Calls \ {c} : call'[d] = call[d]
    BY <1>1, <1>5, <1>6, <1>7
  <1>9. /\ ClaimMap(table') /\ claimedOn' \in [Proofs -> Int]
        /\ \A q \in Proofs : table[q] # None => table'[q] # None
        /\ \A q \in Proofs \ {call[c].proof} : claimedOn'[q] = claimedOn[q]
    BY <1>1, <1>4, <1>7, InsertFacts DEF TypeInv
  <1>10. faults' \in Nat /\ faults' # 0
    BY <1>1, <1>3
  <1>11. TakesRow(c)
    BY <1>3, <1>4, <1>8, <1>9, <1>10 DEF TakesRow
  <1> QED BY <1>8, <1>10, <1>11

\* The answer of a call that knows its claim: a proof it won buys it, once.
Delivers(c) ==
    LET p == call[c].proof
    IN  /\ p \in Proofs /\ store # "file"
        /\ call[c].pc \in {"claimed", "counted"}
        /\ UNCHANGED <<store, time, up, keys, file, torn, table, claimedOn>>
        /\ Ends1(c)
        /\ \/ call[c].won /\ call[c].said = "none"
              /\ honoured' = [honoured EXCEPT ![p] = @ + 1]
           \/ (call[c].said # "none" \/ ~call[c].won) /\ honoured' = honoured

LEMMA AnswerFacts ==
    ASSUME BaseInv, NEW c \in Calls, Answer(c)
    PROVE  QuietFrame(c) \/ Delivers(c)
  <1>1. /\ TypeInv /\ CallOK(c) /\ call[c] \in CallState
        /\ faults \in Nat /\ call \in [Calls -> CallState] /\ torn \in BOOLEAN
        /\ honoured \in [Proofs -> Nat]
    BY DEF BaseInv, TypeInv
  <1>2. /\ call[c].pc = "claimed"
        /\ UNCHANGED <<store, time, up, keys, file, torn, table, claimedOn>>
        /\ faults' = faults
    BY DEF Answer, fileStore
  <1>3. call[c].proof \in Proofs /\ store # "file"
    BY <1>1, <1>2 DEF CallOK
  <1>4. CASE store = "facilitator" /\ call[c].won
    <2>1. call' = [call EXCEPT ![c].pc = "counted"] /\ honoured' = honoured
      BY <1>4 DEF Answer
    <2>2. /\ call' \in [Calls -> CallState]
          /\ \A d \in Calls \ {c} : call'[d] = call[d]
          /\ call'[c].pc = "counted" /\ call'[c].won = call[c].won
          /\ call'[c].proof = call[c].proof /\ call'[c].said = call[c].said
      BY <1>1, <2>1 DEF CallState
    <2>3. CallOK(c)'
      BY <1>1, <1>2, <1>3, <1>4, <2>2 DEF CallOK
    <2>4. \A p \in Proofs : Settling(c, p)' <=> Settling(c, p)
      BY <1>2, <2>2 DEF Settling
    <2> QED BY <1>1, <1>2, <2>1, <2>2, <2>3, <2>4 DEF QuietFrame
  <1>5. CASE ~(store = "facilitator" /\ call[c].won)
    <2> DEFINE said == IF call[c].won THEN "served" ELSE "duplicate"
    <2>1. call' = [call EXCEPT ![c] = Told(c, said)] /\ Honour(c, said)
      BY <1>5 DEF Answer
    <2>2. said \in Answers /\ (said = "served" <=> call[c].won)
      BY DEF Answers
    <2> HIDE DEF said
    <2>3. Ends1(c)
      BY <1>1, <1>2, <2>1, <2>2, ToldFacts DEF Ends1
    <2>4. \/ call[c].won /\ call[c].said = "none"
             /\ honoured' = [honoured EXCEPT ![call[c].proof] = @ + 1]
          \/ (call[c].said # "none" \/ ~call[c].won) /\ honoured' = honoured
      BY <1>1, <1>3, <2>1, <2>2 DEF Honour
    <2> QED BY <1>2, <1>3, <2>3, <2>4 DEF Delivers
  <1> QED BY <1>4, <1>5

LEMMA SettledFacts ==
    ASSUME BaseInv, NEW c \in Calls, Settled(c)
    PROVE  Delivers(c)
  <1>1. /\ TypeInv /\ CallOK(c) /\ call[c] \in CallState
        /\ faults \in Nat /\ call \in [Calls -> CallState]
        /\ honoured \in [Proofs -> Nat]
    BY DEF BaseInv, TypeInv
  <1>2. /\ call[c].pc = "counted"
        /\ UNCHANGED <<store, time, up, keys, file, torn, table, claimedOn>>
        /\ call' = [call EXCEPT ![c] = Told(c, "served")] /\ Honour(c, "served")
    BY DEF Settled, fileStore
  <1>3. faults' \in Nat /\ (faults' = 0 => faults = 0)
    BY <1>1 DEF Settled, Fault
  <1>4. call[c].proof \in Proofs /\ store # "file" /\ call[c].won
    BY <1>1, <1>2 DEF CallOK
  <1>5. Ends1(c)
    <2>1. "served" \in Answers
      BY DEF Answers
    <2> QED BY <1>1, <1>2, <1>3, <2>1, ToldFacts DEF Ends1
  <1>6. \/ call[c].won /\ call[c].said = "none"
           /\ honoured' = [honoured EXCEPT ![call[c].proof] = @ + 1]
        \/ (call[c].said # "none" \/ ~call[c].won) /\ honoured' = honoured
    BY <1>1, <1>2, <1>4 DEF Honour
  <1> QED BY <1>2, <1>4, <1>5, <1>6 DEF Delivers

\* A row goes once no clock and no statement on its way can still bring its
\* proof back.
LEMMA PruneFacts ==
    ASSUME BaseInv, Prune
    PROVE  /\ UNCHANGED <<store, time, up, keys, file, torn, call, honoured, claimedOn, faults>>
           /\ store # "file"
           /\ ClaimMap(table')
           /\ \A p \in Proofs : table[p] # None /\ ~Forgotten(p) => table'[p] # None
  <1>1. /\ UNCHANGED <<store, time, up, keys, file, torn, call, honoured, claimedOn, faults>>
        /\ store # "file"
        /\ table' = [p \in Proofs |-> IF table[p] + PruneAfter < time THEN None ELSE table[p]]
    BY DEF Prune, fileStore, history
  <1>2. ClaimMap(table) /\ time \in Nat
    BY DEF BaseInv, TypeInv
  <1>3. ClaimMap(table')
    BY <1>1, <1>2, Lengths DEF ClaimMap, None
  <1>4. ASSUME NEW p \in Proofs, table[p] # None, ~Forgotten(p)
        PROVE  table'[p] # None
    <2>1. table[p] = Ends[p] + KeepFor
      BY <1>2, <1>4, Lengths DEF ClaimMap
    <2>2. ~(table[p] + PruneAfter < time)
      BY <1>2, <1>4, <2>1, Lengths DEF Forgotten
    <2> QED BY <1>1, <1>4, <2>2
  <1> QED BY <1>1, <1>3, <1>4

\* Every request under way ends; the line being written is there, or half of it.
LEMMA CrashFacts ==
    ASSUME BaseInv, Crash
    PROVE  /\ UNCHANGED <<store, time, table, honoured>>
           /\ up' = FALSE /\ torn' \in BOOLEAN
           /\ faults' \in Nat /\ faults' # 0
           /\ ClaimMap(keys') /\ ClaimMap(file') /\ claimedOn' \in [Proofs -> Int]
           /\ call' \in [Calls -> CallState]
           /\ \A c \in Calls : call'[c].pc = "idle"
           /\ \A p \in Proofs : file[p] # None => file'[p] # None
  <1>1. /\ TypeInv /\ faults \in Nat /\ call \in [Calls -> CallState]
        /\ torn \in BOOLEAN /\ time \in Nat /\ ClaimMap(file)
        /\ claimedOn \in [Proofs -> Int]
        /\ \A c \in Calls : CallOK(c)
    BY DEF BaseInv, TypeInv
  <1>2. /\ UNCHANGED <<store, time, table, honoured>>
        /\ up' = FALSE /\ faults' = faults + 1
        /\ keys' = [p \in Proofs |-> None]
        /\ call' = Hung
    BY DEF Crash, Fault
  <1>3. ASSUME NEW c \in Calls
        PROVE  Hung[c] \in CallState /\ Hung[c].pc = "idle"
    <2>1. "unavailable" \in Answers /\ "lost" \in Answers
      BY DEF Answers
    <2> QED BY <1>1, <2>1, ToldFacts DEF Hung
  <1>4. call' \in [Calls -> CallState] /\ \A c \in Calls : call'[c].pc = "idle"
    BY <1>2, <1>3 DEF Hung
  <1>5. ClaimMap(keys')
    BY <1>2 DEF ClaimMap, None
  <1>6. \/ UNCHANGED <<file, torn, claimedOn>>
        \/ \E c \in Calls :
              LET p == call[c].proof
              IN  /\ call[c].pc = "asked"
                  /\ \/ /\ file' = Append(p) /\ torn' = FALSE
                        /\ claimedOn' = [claimedOn EXCEPT ![p] = Day(time)]
                     \/ torn' = TRUE /\ UNCHANGED <<file, claimedOn>>
    BY DEF Crash
  <1>7. /\ ClaimMap(file') /\ torn' \in BOOLEAN /\ claimedOn' \in [Proofs -> Int]
        /\ \A p \in Proofs : file[p] # None => file'[p] # None
    <2>1. CASE UNCHANGED <<file, torn, claimedOn>>
      BY <1>1, <2>1 DEF ClaimMap
    <2>2. ASSUME NEW c \in Calls, call[c].pc = "asked",
                 file' = Append(call[c].proof), torn' = FALSE,
                 claimedOn' = [claimedOn EXCEPT ![call[c].proof] = Day(time)]
          PROVE  /\ ClaimMap(file') /\ torn' \in BOOLEAN /\ claimedOn' \in [Proofs -> Int]
                 /\ \A p \in Proofs : file[p] # None => file'[p] # None
      <3>1. call[c].proof \in Proofs
        BY <1>1, <2>2 DEF CallOK
      <3>2. /\ ClaimMap(Append(call[c].proof))
            /\ \A p \in Proofs : file[p] # None => Append(call[c].proof)[p] # None
        BY <1>1, <3>1, Lengths DEF ClaimMap, Append
      <3>3. claimedOn' \in [Proofs -> Int]
        BY <1>1, <2>2, DayIsInt
      <3> QED BY <2>2, <3>2, <3>3
    <2>3. ASSUME torn' = TRUE, UNCHANGED <<file, claimedOn>>
          PROVE  /\ ClaimMap(file') /\ torn' \in BOOLEAN /\ claimedOn' \in [Proofs -> Int]
                 /\ \A p \in Proofs : file[p] # None => file'[p] # None
      BY <1>1, <2>3 DEF ClaimMap
    <2> QED BY <1>6, <2>1, <2>2, <2>3
  <1> QED BY <1>1, <1>2, <1>4, <1>5, <1>7

\* The file is read back: what it says is in memory.
LEMMA RestartFacts ==
    ASSUME BaseInv, NEW now \in Now, Restart(now)
    PROVE  /\ UNCHANGED <<store, time, table, call, honoured, claimedOn, faults>>
           /\ up' = TRUE /\ torn' = FALSE
           /\ ClaimMap(keys') /\ file' = keys'
           /\ \A p \in Proofs : file[p] # None /\ ~Expired(p) => file'[p] # None
  <1>1. /\ UNCHANGED <<store, time, table, call, honoured, claimedOn, faults>>
        /\ up' = TRUE /\ torn' = FALSE
        /\ keys' = Kept(file, now) /\ file' = keys'
    BY DEF Restart, history
  <1>2. ClaimMap(file) /\ time \in Nat
    BY DEF BaseInv, TypeInv
  <1> QED BY <1>1, <1>2, KeptFacts

LEMMA TickFacts ==
    ASSUME BaseInv, Tick
    PROVE  /\ UNCHANGED <<store, up, keys, file, torn, table, call, honoured, claimedOn, faults>>
           /\ time' = time + 1
           /\ \A c \in Calls : call[c].pc = "claiming" => time + 1 - call[c].at <= MaxDelay
  BY DEF Tick, fileStore, history

-----------------------------------------------------------------------------
(* BaseInv *)

LEMMA InitBase == Init => BaseInv
  <1> SUFFICES ASSUME Init PROVE BaseInv
    OBVIOUS
  <1>1. \A c \in Calls : call[c] = NoCall
    BY DEF Init
  <1>2. TypeInv
    <2>1. NoCall \in CallState
      BY DEF NoCall, CallState, Answers
    <2>2. ClaimMap(keys) /\ ClaimMap(file) /\ ClaimMap(table)
      BY DEF Init, ClaimMap, None
    <2>3. call \in [Calls -> CallState]
      BY <2>1 DEF Init
    <2>4. claimedOn \in [Proofs -> Int]
      BY DEF Init, None
    <2> QED BY <2>2, <2>3, <2>4 DEF Init, TypeInv
  <1>3. \A c \in Calls : CallOK(c)
    BY <1>1 DEF CallOK, NoCall
  <1>4. \A p \in Proofs : KeysOK(p)
    BY DEF Init, KeysOK
  <1> QED BY <1>2, <1>3, <1>4 DEF BaseInv

LEMMA LineKeepsBase ==
    ASSUME BaseInv, NEW c \in Calls, TakesLine(c), Ends1(c),
           honoured' \in [Proofs -> Nat]
    PROVE  BaseInv'
  <1>1. /\ call \in [Calls -> CallState] /\ claimedOn \in [Proofs -> Int]
        /\ time \in Nat /\ \A d \in Calls : CallOK(d)
    BY DEF BaseInv, TypeInv
  <1>2. /\ call' \in [Calls -> CallState] /\ call'[c].pc = "idle"
        /\ \A d \in Calls \ {c} : call'[d] = call[d]
        /\ faults' \in Nat /\ (faults' = 0 => faults = 0)
    BY <1>1 DEF Ends1
  <1>3. TypeInv'
    <2>1. claimedOn' \in [Proofs -> Int]
      BY <1>1, DayIsInt DEF TakesLine
    <2> QED BY <1>2, <2>1 DEF BaseInv, TypeInv, TakesLine, ClaimMap
  <1>4. \A d \in Calls : CallOK(d)'
    BY <1>1, <1>2 DEF CallOK, TakesLine
  <1>5. \A p \in Proofs : KeysOK(p)'
    BY DEF KeysOK, TakesLine, Expired
  <1> QED BY <1>3, <1>4, <1>5 DEF BaseInv

LEMMA RowKeepsBase ==
    ASSUME BaseInv, NEW c \in Calls, TakesRow(c), CallOK(c)'
    PROVE  BaseInv'
  <1>1. TypeInv'
    BY DEF BaseInv, TypeInv, TakesRow, ClaimMap
  <1>2. \A d \in Calls : CallOK(d)'
    BY DEF BaseInv, CallOK, TakesRow
  <1>3. \A p \in Proofs : KeysOK(p)'
    BY DEF BaseInv, KeysOK, TakesRow, Expired
  <1> QED BY <1>1, <1>2, <1>3 DEF BaseInv

LEMMA DeliversKeepsBase ==
    ASSUME BaseInv, NEW c \in Calls, Delivers(c)
    PROVE  BaseInv'
  <1>1. call \in [Calls -> CallState] /\ honoured \in [Proofs -> Nat]
    BY DEF BaseInv, TypeInv
  <1>2. /\ call' \in [Calls -> CallState] /\ call'[c].pc = "idle"
        /\ \A d \in Calls \ {c} : call'[d] = call[d]
        /\ faults' \in Nat /\ (faults' = 0 => faults = 0)
    BY <1>1 DEF Delivers, Ends1
  <1>3. honoured' \in [Proofs -> Nat]
    BY <1>1 DEF Delivers
  <1>4. TypeInv'
    BY <1>2, <1>3 DEF BaseInv, TypeInv, Delivers, ClaimMap
  <1>5. \A d \in Calls : CallOK(d)'
    BY <1>2 DEF BaseInv, CallOK, Delivers
  <1>6. \A p \in Proofs : KeysOK(p)'
    BY DEF BaseInv, KeysOK, Delivers, Expired
  <1> QED BY <1>4, <1>5, <1>6 DEF BaseInv

LEMMA CallStepCases ==
    ASSUME BaseInv, NEW c \in Calls, CallStep(c)
    PROVE  \/ QuietFrame(c)
           \/ TakesLine(c) /\ Ends1(c) /\ Honour(c, "served") /\ UNCHANGED faults
           \/ TakesLine(c) /\ Ends1(c) /\ UNCHANGED honoured /\ faults' # 0
           \/ Claim(c)
           \/ ClaimLost(c)
           \/ Delivers(c)
  BY QuietSteps, FileClaimFacts, CompactFailsFacts, AnswerFacts, SettledFacts
     DEF CallStep, Quiet

LEMMA NextBase == BaseInv /\ [Next]_vars => BaseInv'
  <1> SUFFICES ASSUME BaseInv, [Next]_vars PROVE BaseInv'
    OBVIOUS
  <1>0. /\ TypeInv /\ time \in Nat /\ honoured \in [Proofs -> Nat]
        /\ call \in [Calls -> CallState]
    BY DEF BaseInv, TypeInv
  <1>1. ASSUME NEW c \in Calls, CallStep(c) PROVE BaseInv'
    <2>1. CASE QuietFrame(c)
      BY <2>1, QuietKeepsBase
    <2>2. CASE TakesLine(c) /\ Ends1(c) /\ Honour(c, "served") /\ UNCHANGED faults
      <3>1. honoured' \in [Proofs -> Nat]
        <4>1. call[c].proof \in Proofs
          BY <2>2 DEF TakesLine
        <4> QED BY <1>0, <2>2, <4>1 DEF Honour
      <3> QED BY <2>2, <3>1, LineKeepsBase
    <2>3. CASE TakesLine(c) /\ Ends1(c) /\ UNCHANGED honoured /\ faults' # 0
      BY <1>0, <2>3, LineKeepsBase
    <2>4. CASE Claim(c)
      <3>1. CallOK(c)'
        BY <2>4, ClaimFacts DEF BaseInv, CallOK, TakesRow
      <3> QED BY <2>4, <3>1, ClaimFacts, RowKeepsBase
    <2>5. CASE ClaimLost(c)
      <3>1. CallOK(c)'
        BY <2>5, ClaimLostFacts DEF CallOK, TakesRow
      <3> QED BY <2>5, <3>1, ClaimLostFacts, RowKeepsBase
    <2>6. CASE Delivers(c)
      BY <2>6, DeliversKeepsBase
    <2> QED BY <1>1, <2>1, <2>2, <2>3, <2>4, <2>5, <2>6, CallStepCases
  <1>2. CASE Prune
    <2>1. TypeInv'
      BY <1>2, PruneFacts DEF BaseInv, TypeInv, ClaimMap
    <2>2. \A c \in Calls : CallOK(c)'
      BY <1>2, PruneFacts DEF BaseInv, CallOK
    <2>3. \A p \in Proofs : KeysOK(p)'
      BY <1>2, PruneFacts DEF BaseInv, KeysOK, Expired
    <2> QED BY <2>1, <2>2, <2>3 DEF BaseInv
  <1>3. CASE Tick
    <2>1. TypeInv'
      BY <1>3, TickFacts DEF BaseInv, TypeInv, ClaimMap
    <2>2. ASSUME NEW c \in Calls PROVE CallOK(c)'
      <3>1. call[c].at \in Nat /\ MaxDelay \in Nat
        BY <1>0, Lengths DEF CallState
      <3>2. call[c].pc = "claiming" => time' <= call[c].at + MaxDelay
        <4>1. call[c].pc = "claiming" => time + 1 - call[c].at <= MaxDelay
          BY <1>3, TickFacts
        <4> QED BY <1>0, <1>3, <3>1, <4>1, TickFacts
      <3> QED BY <1>3, <3>2, TickFacts DEF BaseInv, CallOK
    <2>3. ASSUME NEW p \in Proofs PROVE KeysOK(p)'
      <3>1. Expired(p) => Expired(p)'
        BY <1>0, <1>3, TickFacts, Lengths DEF Expired
      <3> QED BY <1>3, <3>1, TickFacts DEF BaseInv, KeysOK
    <2> QED BY <2>1, <2>2, <2>3 DEF BaseInv
  <1>4. CASE Crash
    <2>1. TypeInv'
      BY <1>4, CrashFacts DEF BaseInv, TypeInv, ClaimMap
    <2>2. \A c \in Calls : CallOK(c)'
      BY <1>4, CrashFacts DEF CallOK
    <2>3. \A p \in Proofs : KeysOK(p)'
      BY <1>4, CrashFacts DEF KeysOK
    <2> QED BY <2>1, <2>2, <2>3 DEF BaseInv
  <1>5. ASSUME NEW now \in Now, Restart(now) PROVE BaseInv'
    <2>1. TypeInv'
      BY <1>5, RestartFacts DEF BaseInv, TypeInv, ClaimMap
    <2>2. \A c \in Calls : CallOK(c)'
      BY <1>5, RestartFacts DEF BaseInv, CallOK
    <2>3. \A p \in Proofs : KeysOK(p)'
      BY <1>5, RestartFacts DEF KeysOK
    <2> QED BY <2>1, <2>2, <2>3 DEF BaseInv
  <1>6. CASE UNCHANGED vars
    BY <1>6 DEF vars, BaseInv, TypeInv, CallOK, KeysOK, Expired, ClaimMap
  <1> QED BY <1>1, <1>2, <1>3, <1>4, <1>5, <1>6 DEF Next

\* Every state of the sale satisfies it.
THEOREM BaseAlways == Spec => []BaseInv
  <1>1. Init => BaseInv
    BY InitBase
  <1>2. BaseInv /\ [Next]_vars => BaseInv'
    BY NextBase
  <1> QED BY <1>1, <1>2, PTL DEF Spec

-----------------------------------------------------------------------------
(* ClaimsLast *)

\* A step drops no claim that a clock still takes; the way claims are
\* remembered is chosen once.
KeepsClaims ==
    /\ store' = store
    /\ \A p \in Proofs : ~Expired(p)' =>
          /\ file[p] # None => file'[p] # None
          /\ store # "file" /\ table[p] # None => table'[p] # None

LEMMA NextKeepsClaims == BaseInv /\ [Next]_vars => KeepsClaims
  <1> SUFFICES ASSUME BaseInv, [Next]_vars PROVE KeepsClaims
    OBVIOUS
  <1>1. ASSUME NEW c \in Calls, CallStep(c) PROVE KeepsClaims
    <2>1. CASE QuietFrame(c)
      BY <2>1 DEF QuietFrame, KeepsClaims
    <2>2. CASE TakesLine(c)
      BY <2>2 DEF TakesLine, KeepsClaims, Expired
    <2>3. CASE TakesRow(c)
      BY <2>3 DEF TakesRow, KeepsClaims
    <2>4. CASE Delivers(c)
      BY <2>4 DEF Delivers, KeepsClaims
    <2> QED BY <1>1, <2>1, <2>2, <2>3, <2>4, CallStepCases, ClaimFacts, ClaimLostFacts
  <1>2. CASE Prune
    <2>1. ASSUME NEW p \in Proofs, ~Expired(p)' PROVE ~Forgotten(p)
      <3>1. time \in Nat /\ time' = time
        BY <1>2, PruneFacts DEF BaseInv, TypeInv
      <3> QED BY <2>1, <3>1, Lengths DEF Expired, Forgotten
    <2> QED BY <1>2, <2>1, PruneFacts DEF KeepsClaims
  <1>3. CASE Tick
    BY <1>3, TickFacts DEF KeepsClaims
  <1>4. CASE Crash
    BY <1>4, CrashFacts DEF KeepsClaims
  <1>5. ASSUME NEW now \in Now, Restart(now) PROVE KeepsClaims
    BY <1>5, RestartFacts DEF KeepsClaims, Expired
  <1>6. CASE UNCHANGED vars
    BY <1>6 DEF vars, KeepsClaims
  <1> QED BY <1>1, <1>2, <1>3, <1>4, <1>5, <1>6 DEF Next

\* A durable claim stays as long as any clock still takes the proof
\* (FileReplayStore's rewrite, PgReplayStore.prune), torn writes included.
THEOREM ClaimsLastAlways == Spec => ClaimsLast
  <1> DEFINE Lasts == \A p \in Proofs :
                Durable[p] # None /\ time' - ClockBack <= Ends[p] => Durable'[p] # None
  <1>1. BaseInv /\ BaseInv' /\ [Next]_vars => Lasts
    <2> SUFFICES ASSUME BaseInv, BaseInv', [Next]_vars,
                        NEW p \in Proofs,
                        Durable[p] # None, time' - ClockBack <= Ends[p]
                 PROVE  Durable'[p] # None
      OBVIOUS
    <2>1. time' \in Nat
      BY DEF BaseInv, TypeInv
    <2>2. ~Expired(p)'
      BY <2>1, Lengths DEF Expired
    <2>3. KeepsClaims
      BY NextKeepsClaims
    <2> QED BY <2>2, <2>3 DEF KeepsClaims, Durable
  <1>2. Spec => []BaseInv
    BY BaseAlways
  <1>3. ClaimsLast <=> [][Lasts]_vars
    BY DEF ClaimsLast
  <1> QED BY <1>1, <1>2, <1>3, PTL DEF Spec

-----------------------------------------------------------------------------
(* HonouredOnce and NoProofWasted, when no write is torn *)

\* A proof a clock still takes, with no claim in memory or in the table, has
\* bought nothing and is about to buy nothing.
LEMMA Unspent ==
    ASSUME BaseInv, OnceInv, NEW p \in Proofs,
           \/ store = "file" /\ up /\ keys[p] = None /\ ~Expired(p)
           \/ store # "file" /\ table[p] = None /\ ~Forgotten(p)
    PROVE  honoured[p] = 0 /\ \A c \in Calls : ~Settling(c, p)
  BY DEF BaseInv, OnceInv, KeysOK, ProofOK, Spent, Remembered

LEMMA InitOnce == Init => OnceInv
  BY DEF Init, OnceInv, ProofOK, Spent, Settling, NoCall

\* What is not the step's own proof keeps its state, whatever else it does.
LEMMA OthersOnce ==
    ASSUME OnceInv, NEW p \in Proofs,
           honoured'[p] = honoured[p],
           claimedOn'[p] # None => claimedOn[p] # None,
           faults' = 0 => faults = 0,
           \A c \in Calls : Settling(c, p)' <=> Settling(c, p),
           Remembered(p) => Remembered(p)'
    PROVE  ProofOK(p)'
  BY DEF OnceInv, ProofOK, Spent

LEMMA QuietOnce ==
    ASSUME OnceInv, TornWrites = FALSE, NEW c \in Calls, QuietFrame(c)
    PROVE  OnceInv'
  <1>1. up' => torn' = FALSE
    BY DEF OnceInv, QuietFrame
  <1>2. ASSUME NEW p \in Proofs PROVE ProofOK(p)'
    <2>1. \A d \in Calls : Settling(d, p)' <=> Settling(d, p)
      <3>1. \A d \in Calls \ {c} : Settling(d, p)' <=> Settling(d, p)
        BY DEF QuietFrame, Settling
      <3> QED BY <3>1 DEF QuietFrame
    <2>2. /\ honoured'[p] = honoured[p] /\ claimedOn'[p] = claimedOn[p]
          /\ Remembered(p) => Remembered(p)'
          /\ faults' = 0 => faults = 0
      BY DEF QuietFrame, Remembered, Expired, Forgotten
    <2> QED BY <2>1, <2>2, OthersOnce
  <1> QED BY <1>1, <1>2 DEF OnceInv

\* A line taken: its proof was unspent, and is remembered from now on.
LEMMA LineOnce ==
    ASSUME BaseInv, OnceInv, NEW c \in Calls, TakesLine(c), Ends1(c),
           \/ Honour(c, "served") /\ faults' = faults
           \/ honoured' = honoured /\ faults' # 0
    PROVE  OnceInv'
  <1>0. PICK p \in Proofs : p = call[c].proof
    BY DEF TakesLine
  <1>1. /\ store = "file" /\ up /\ keys[p] = None /\ ~Expired(p)
        /\ torn = FALSE /\ torn' = FALSE
        /\ call \in [Calls -> CallState] /\ honoured \in [Proofs -> Nat]
        /\ claimedOn \in [Proofs -> Int]
        /\ \A d \in Calls : CallOK(d)
    BY <1>0 DEF TakesLine, OnceInv, BaseInv, TypeInv
  <1>2. honoured[p] = 0
    BY <1>1, Unspent
  <1>3. /\ call'[c].pc = "idle"
        /\ \A d \in Calls \ {c} : call'[d] = call[d]
        /\ faults' = 0 => faults = 0
    BY <1>1 DEF Ends1
  <1>4. \A d \in Calls, q \in Proofs : ~Settling(d, q) /\ ~Settling(d, q)'
    BY <1>1, <1>3 DEF CallOK, Settling
  <1>5. ASSUME NEW q \in Proofs, q # p PROVE ProofOK(q)'
    <2>1. honoured'[q] = honoured[q]
      BY <1>0, <1>1, <1>5 DEF Honour
    <2>2. claimedOn'[q] = claimedOn[q]
      BY <1>0, <1>1, <1>5 DEF TakesLine
    <2>3. Remembered(q) => Remembered(q)'
      BY <1>1 DEF TakesLine, Remembered, Expired
    <2> QED BY <1>3, <1>4, <2>1, <2>2, <2>3, OthersOnce
  <1>6. ProofOK(p)'
    <2>1. Remembered(p)'
      BY <1>0, <1>1 DEF TakesLine, Remembered
    <2>2. honoured'[p] \in {0, 1}
      BY <1>0, <1>1, <1>2 DEF Honour
    <2>3. faults' = 0 => honoured'[p] = 1
      <3> SUFFICES ASSUME faults' = 0 PROVE honoured'[p] = 1
        OBVIOUS
      <3>1. call[c].said = "none"
        <4>1. call[c].pc # "idle"
          BY DEF TakesLine
        <4> QED BY <1>1, <1>3, <4>1 DEF CallOK
      <3> QED BY <1>0, <1>1, <1>2, <3>1 DEF Honour
    <2> QED BY <1>4, <2>1, <2>2, <2>3 DEF ProofOK, Spent
  <1> QED BY <1>1, <1>5, <1>6 DEF OnceInv

\* A row asked for: its proof was unspent if the call won it, and a row that
\* is there makes the call a duplicate.
LEMMA ClaimOnce ==
    ASSUME BaseInv, OnceInv, NEW c \in Calls, Claim(c)
    PROVE  OnceInv'
  <1>0. PICK p \in Proofs : p = call[c].proof
    BY ClaimFacts DEF TakesRow
  <1>1. /\ TakesRow(c) /\ faults' = faults
        /\ call'[c].pc = "claimed" /\ call'[c].proof = p
        /\ call'[c].won <=> table[p] = None
        /\ table'[p] # None
        /\ table[p] # None => claimedOn' = claimedOn
    BY <1>0, ClaimFacts
  <1>2. /\ store # "file" /\ store' = store /\ time' = time
        /\ up' = up /\ torn' = torn /\ honoured' = honoured
        /\ call[c].pc = "claiming"
        /\ \A d \in Calls \ {c} : call'[d] = call[d]
        /\ \A q \in Proofs : table[q] # None => table'[q] # None
        /\ \A q \in Proofs \ {p} : claimedOn'[q] = claimedOn[q]
    BY <1>0, <1>1 DEF TakesRow
  <1>3. \A q \in Proofs : Remembered(q) => Remembered(q)'
    BY <1>2 DEF Remembered, Forgotten
  <1>4. /\ \A q \in Proofs : ~Settling(c, q)
        /\ \A d \in Calls \ {c}, q \in Proofs : Settling(d, q)' <=> Settling(d, q)
        /\ \A q \in Proofs \ {p} : ~Settling(c, q)'
        /\ Settling(c, p)' <=> table[p] = None
    BY <1>0, <1>1, <1>2 DEF Settling
  <1>5. ASSUME NEW q \in Proofs, q # p \/ table[p] # None PROVE ProofOK(q)'
    <2>1. \A d \in Calls : Settling(d, q)' <=> Settling(d, q)
      BY <1>4, <1>5
    <2> QED BY <1>1, <1>2, <1>3, <1>5, <2>1, OthersOnce
  <1>6. ASSUME table[p] = None PROVE ProofOK(p)'
    <2>1. ~Forgotten(p)
      <3>1. /\ call[c].at <= Ends[p] + ClockBack
            /\ time <= call[c].at + MaxDelay
            /\ time \in Nat /\ call[c].at \in Nat
        BY <1>0, <1>2 DEF BaseInv, TypeInv, CallOK, CallState
      <3> QED BY <1>2, <3>1, Lengths DEF Forgotten
    <2>2. honoured[p] = 0 /\ \A d \in Calls : ~Settling(d, p)
      BY <1>2, <1>6, <2>1, Unspent
    <2>3. \A d \in Calls : Settling(d, p)' <=> d = c
      BY <1>4, <1>6, <2>2
    <2>4. Remembered(p)'
      BY <1>1, <1>2 DEF Remembered
    <2> QED BY <1>2, <2>2, <2>3, <2>4 DEF ProofOK, Spent
  <1>7. \A q \in Proofs : ProofOK(q)'
    BY <1>5, <1>6
  <1> QED BY <1>2, <1>7 DEF OnceInv

LEMMA ClaimLostOnce ==
    ASSUME BaseInv, OnceInv, NEW c \in Calls, ClaimLost(c)
    PROVE  OnceInv'
  <1>1. /\ TakesRow(c) /\ call'[c].pc = "idle" /\ faults' # 0
    BY ClaimLostFacts
  <1>2. /\ store # "file" /\ store' = store /\ time' = time
        /\ up' = up /\ torn' = torn /\ honoured' = honoured
        /\ call[c].pc = "claiming"
        /\ \A d \in Calls \ {c} : call'[d] = call[d]
        /\ \A q \in Proofs : table[q] # None => table'[q] # None
    BY <1>1 DEF TakesRow
  <1>3. ASSUME NEW q \in Proofs PROVE ProofOK(q)'
    <2>1. \A d \in Calls : Settling(d, q)' <=> Settling(d, q)
      BY <1>1, <1>2 DEF Settling
    <2>2. Remembered(q) => Remembered(q)'
      BY <1>2 DEF Remembered, Forgotten
    <2> QED BY <1>1, <1>2, <2>1, <2>2 DEF OnceInv, ProofOK, Spent
  <1> QED BY <1>2, <1>3 DEF OnceInv

\* An answer given: the call that had won the proof was the only one.
LEMMA DeliversOnce ==
    ASSUME BaseInv, OnceInv, NEW c \in Calls, Delivers(c)
    PROVE  OnceInv'
  <1>0. PICK p \in Proofs : p = call[c].proof
    BY DEF Delivers
  <1>1. /\ call[c].pc \in {"claimed", "counted"}
        /\ UNCHANGED <<store, time, up, file, torn, table, claimedOn>>
        /\ \/ call[c].won /\ call[c].said = "none"
              /\ honoured' = [honoured EXCEPT ![p] = @ + 1]
           \/ (call[c].said # "none" \/ ~call[c].won) /\ honoured' = honoured
    BY <1>0 DEF Delivers
  <1>2. /\ call \in [Calls -> CallState] /\ honoured \in [Proofs -> Nat]
        /\ CallOK(c)
    BY DEF BaseInv, TypeInv
  <1>3. /\ call'[c].pc = "idle"
        /\ \A d \in Calls \ {c} : call'[d] = call[d]
        /\ faults' = 0 => faults = 0
    BY <1>2 DEF Delivers, Ends1
  <1>4. \A q \in Proofs : Remembered(q) => Remembered(q)'
    BY <1>1 DEF Remembered, Expired, Forgotten
  <1>5. /\ \A q \in Proofs : ~Settling(c, q)'
        /\ \A d \in Calls \ {c}, q \in Proofs : Settling(d, q)' <=> Settling(d, q)
        /\ \A q \in Proofs \ {p} : ~Settling(c, q)
        /\ Settling(c, p) <=> call[c].won
    BY <1>0, <1>1, <1>2, <1>3 DEF Settling, CallState
  <1>6. ASSUME NEW q \in Proofs, q # p \/ ~call[c].won PROVE ProofOK(q)'
    <2>1. honoured'[q] = honoured[q]
      BY <1>1, <1>2, <1>6
    <2>2. \A d \in Calls : Settling(d, q)' <=> Settling(d, q)
      BY <1>5, <1>6
    <2> QED BY <1>1, <1>3, <1>4, <2>1, <2>2, OthersOnce
  <1>7. ASSUME call[c].won PROVE ProofOK(p)'
    <2>1. /\ honoured[p] = 0 /\ Remembered(p)
          /\ \A d \in Calls : Settling(d, p) => d = c
      BY <1>1, <1>5, <1>7 DEF OnceInv, ProofOK, Spent
    <2>2. \A d \in Calls : ~Settling(d, p)'
      BY <1>5, <2>1
    <2>3. honoured'[p] \in {0, 1} /\ (faults' = 0 => honoured'[p] = 1)
      BY <1>1, <1>2, <1>3, <1>7, <2>1 DEF CallOK
    <2> QED BY <1>1, <1>4, <2>1, <2>2, <2>3 DEF ProofOK, Spent
  <1>8. \A q \in Proofs : ProofOK(q)'
    BY <1>6, <1>7
  <1> QED BY <1>1, <1>8 DEF OnceInv

\* When no write is torn, OnceInv too survives every step.
LEMMA NextOnce ==
    ASSUME TornWrites = FALSE
    PROVE  BaseInv /\ OnceInv /\ [Next]_vars => OnceInv'
  <1> SUFFICES ASSUME BaseInv, OnceInv, [Next]_vars PROVE OnceInv'
    OBVIOUS
  <1>1. ASSUME NEW c \in Calls, CallStep(c) PROVE OnceInv'
    <2>1. CASE QuietFrame(c)
      BY <2>1, QuietOnce
    <2>2. CASE TakesLine(c) /\ Ends1(c) /\ Honour(c, "served") /\ UNCHANGED faults
      BY <2>2, LineOnce
    <2>3. CASE TakesLine(c) /\ Ends1(c) /\ UNCHANGED honoured /\ faults' # 0
      BY <2>3, LineOnce
    <2>4. CASE Claim(c)
      BY <2>4, ClaimOnce
    <2>5. CASE ClaimLost(c)
      BY <2>5, ClaimLostOnce
    <2>6. CASE Delivers(c)
      BY <2>6, DeliversOnce
    <2> QED BY <1>1, <2>1, <2>2, <2>3, <2>4, <2>5, <2>6, CallStepCases
  <1>2. CASE Prune
    <2>1. ASSUME NEW p \in Proofs PROVE ProofOK(p)'
      <3>1. Remembered(p) => Remembered(p)'
        BY <1>2, PruneFacts DEF Remembered, Forgotten
      <3>2. \A c \in Calls : Settling(c, p)' <=> Settling(c, p)
        BY <1>2, PruneFacts DEF Settling
      <3> QED BY <1>2, <3>1, <3>2, PruneFacts, OthersOnce
    <2> QED BY <1>2, <2>1, PruneFacts DEF OnceInv
  <1>3. CASE Tick
    <2>1. ASSUME NEW p \in Proofs PROVE ProofOK(p)'
      <3>1. Remembered(p) => Remembered(p)'
        BY <1>3, TickFacts, Lengths DEF BaseInv, TypeInv, Remembered, Expired, Forgotten
      <3>2. \A c \in Calls : Settling(c, p)' <=> Settling(c, p)
        BY <1>3, TickFacts DEF Settling
      <3> QED BY <1>3, <3>1, <3>2, TickFacts, OthersOnce
    <2> QED BY <1>3, <2>1, TickFacts DEF OnceInv
  <1>4. CASE Crash
    <2>1. ASSUME NEW p \in Proofs PROVE ProofOK(p)'
      <3>1. Remembered(p) => Remembered(p)'
        BY <1>4, CrashFacts DEF Remembered, Expired, Forgotten
      <3>2. \A c \in Calls : ~Settling(c, p)'
        BY <1>4, CrashFacts DEF Settling
      <3> QED BY <1>4, <3>1, <3>2, CrashFacts DEF OnceInv, ProofOK, Spent
    <2> QED BY <1>4, <2>1, CrashFacts DEF OnceInv
  <1>5. ASSUME NEW now \in Now, Restart(now) PROVE OnceInv'
    <2>1. ASSUME NEW p \in Proofs PROVE ProofOK(p)'
      <3>1. Remembered(p) => Remembered(p)'
        BY <1>5, RestartFacts DEF Remembered, Expired, Forgotten
      <3>2. \A c \in Calls : Settling(c, p)' <=> Settling(c, p)
        BY <1>5, RestartFacts DEF Settling
      <3> QED BY <1>5, <3>1, <3>2, RestartFacts, OthersOnce
    <2> QED BY <1>5, <2>1, RestartFacts DEF OnceInv
  <1>6. CASE UNCHANGED vars
    BY <1>6 DEF vars, OnceInv, ProofOK, Spent, Settling, Remembered, Expired, Forgotten
  <1> QED BY <1>1, <1>2, <1>3, <1>4, <1>5, <1>6 DEF Next

LEMMA OnceAlways ==
    ASSUME TornWrites = FALSE
    PROVE  Spec => []OnceInv
  <1>1. Init => OnceInv
    BY InitOnce
  <1>2. BaseInv /\ OnceInv /\ [Next]_vars => OnceInv'
    BY NextOnce
  <1>3. Spec => []BaseInv
    BY BaseAlways
  <1> QED BY <1>1, <1>2, <1>3, PTL DEF Spec

\* A proof buys one answer (settleLnbtc), whatever overlaps, crashes, is
\* rewritten or pruned, as long as a write that fails leaves no half line.
THEOREM HonouredOnceAlways ==
    ASSUME TornWrites = FALSE
    PROVE  Spec => []HonouredOnce
  <1>1. OnceInv => HonouredOnce
    BY DEF OnceInv, ProofOK, HonouredOnce
  <1>2. Spec => []OnceInv
    BY OnceAlways
  <1> QED BY <1>1, <1>2, PTL

\* Without a fault a claimed proof has bought its answer or is about to: no
\* check that can still refuse comes after the claim (checks 1 to 8).
THEOREM NoProofWastedAlways ==
    ASSUME TornWrites = FALSE
    PROVE  Spec => []NoProofWasted
  <1>1. BaseInv /\ OnceInv => NoProofWasted
    <2> SUFFICES ASSUME BaseInv, OnceInv, faults = 0,
                        NEW p \in Proofs, claimedOn[p] # None
                 PROVE  honoured[p] = 1 \/ \E c \in Calls : Settling(c, p)
      BY DEF NoProofWasted
    <2>1. Spent(p) /\ honoured[p] <= 1 /\ honoured[p] \in Nat
      BY DEF OnceInv, ProofOK, BaseInv, TypeInv
    <2> QED BY <2>1 DEF Spent
  <1>2. Spec => []OnceInv
    BY OnceAlways
  <1>3. Spec => []BaseInv
    BY BaseAlways
  <1> QED BY <1>1, <1>2, <1>3, PTL

-----------------------------------------------------------------------------
(* TypeOK: the bounds that BaseInv leaves open *)

\* A request is of the time the run has, and waits for its row only where one
\* is written.
Placed(x) == x.at <= MaxTime /\ (x.pc = "counted" => store = "facilitator")

RestInv ==
    /\ time <= MaxTime /\ faults <= MaxFaults /\ since \in 0..CompactEvery
    /\ \A c \in Calls : Placed(call[c])
    /\ \A p \in Proofs : claimedOn[p] \in {None} \cup 0..Day(time)
    /\ miscounted \in {None} \cup 0..Day(time)
    /\ rows \in [Proofs -> Int]
    /\ store # "facilitator" =>
         /\ \A p \in Proofs : rows[p] = None
         /\ day = None /\ today = 0

\* Days follow one another.
LEMMA DaysPass ==
    /\ \A t \in Nat : Day(t) \in Nat
    /\ \A t, u \in Nat : t <= u => Day(t) <= Day(u)
  <1>1. DayLength \in Nat /\ DayLength > 0
    BY SaleAssumption DEF SaleAssumption
  <1>2. ASSUME NEW t \in Nat PROVE Day(t) \in Nat
    BY <1>1 DEF Day
  <1>3. ASSUME NEW t \in Nat, NEW u \in Nat, t <= u PROVE Day(t) <= Day(u)
    <2> DEFINE q == Day(t)
               r == Day(u)
    <2>1. q \in Int /\ DayLength * q <= t
      BY <1>1 DEF Day
    <2>2. r \in Int /\ u < DayLength * (r + 1)
      BY <1>1 DEF Day
    <2> HIDE DEF q, r
    <2>3. SUFFICES ASSUME q > r PROVE FALSE
      BY <2>1, <2>2 DEF q, r
    <2>4. q - (r + 1) \in Nat
      BY <2>1, <2>2, <2>3
    <2>5. DayLength * q = DayLength * (r + 1) + DayLength * (q - (r + 1))
      BY <1>1, <2>1, <2>2
    <2>6. DayLength * (q - (r + 1)) >= 0
      BY <1>1, <2>4
    <2>7. DayLength * (r + 1) \in Int /\ DayLength * (q - (r + 1)) \in Int
      BY <1>1, <2>1, <2>2
    <2> QED BY <1>1, <1>3, <2>1, <2>2, <2>5, <2>6, <2>7
  <1> QED BY <1>2, <1>3

\* What an ended request kept.
LEMMA ToldKeeps ==
    ASSUME TypeInv, NEW c \in Calls, NEW said \in Answers
    PROVE  Told(c, said).at = call[c].at /\ Told(c, said).pc = "idle"
  BY DEF TypeInv, Told, CallState

\* No step but a claim's admission notes the time; it is the time of the step.
LEMMA AtStays ==
    ASSUME BaseInv, RestInv, NEW c \in Calls, CallStep(c)
    PROVE  \A d \in Calls : Placed(call'[d])
  <1>0. /\ TypeInv /\ call \in [Calls -> CallState] /\ call[c] \in CallState
        /\ time \in Nat /\ time <= MaxTime /\ 0 <= MaxTime
        /\ \A d \in Calls : Placed(call[d])
    BY SaleAssumption DEF BaseInv, TypeInv, RestInv, SaleAssumption
  <1>1. \A d \in Calls \ {c} : call'[d] = call[d]
    <2>1. CASE QuietFrame(c)
      BY <2>1 DEF QuietFrame
    <2>2. CASE Ends1(c)
      BY <1>0, <2>2 DEF Ends1
    <2>3. CASE TakesRow(c)
      BY <2>3 DEF TakesRow
    <2> QED BY <2>1, <2>2, <2>3, CallStepCases, ClaimFacts, ClaimLostFacts DEF Delivers
  <1>2. \A said \in Answers : Placed(Told(c, said))
    BY <1>0, ToldKeeps DEF Placed
  <1>3. /\ "refused" \in Answers /\ "unavailable" \in Answers /\ "served" \in Answers
        /\ "duplicate" \in Answers
    BY DEF Answers
  <1>4. \A said \in Answers : Told(c, said) \in CallState
    BY <1>0, ToldFacts
  <1>5. Placed(call'[c])
    <2>1. ASSUME NEW p \in Proofs, Ask(c, p) PROVE Placed(call'[c])
      BY <1>0, <2>1 DEF Ask, NoCall, Placed
    <2>2. ASSUME NEW said \in Answers, Refuse(c, said) PROVE Placed(call'[c])
      BY <1>0, <1>2, <2>2 DEF Refuse
    <2>3. ASSUME NEW now \in Now, FileClaim(c, now) PROVE Placed(call'[c])
      <3>1. CASE keys[call[c].proof] # None
        BY <1>0, <1>2, <1>3, <2>3, <3>1 DEF FileClaim
      <3>2. CASE keys[call[c].proof] = None
        <4> DEFINE y == Told(c, "served")
        <4>1. call' = [call EXCEPT ![c] = [y EXCEPT !.won = TRUE]]
          BY <2>3, <3>2 DEF FileClaim
        <4>2. y \in CallState /\ Placed(y)
          BY <1>2, <1>3, <1>4
        <4> HIDE DEF y
        <4> QED BY <1>0, <4>1, <4>2 DEF CallState, Placed
      <3> QED BY <3>1, <3>2
    <2>4. ASSUME NEW now \in Now, FileLate(c, now) PROVE Placed(call'[c])
      BY <1>0, <1>2, <1>3, <2>4 DEF FileLate
    <2>5. ASSUME NEW now \in Now, AppendFails(c, now) PROVE Placed(call'[c])
      <3>1. call' = [call EXCEPT ![c] = Told(c, "unavailable")]
        BY <2>5 DEF AppendFails
      <3> QED BY <1>0, <1>2, <1>3, <3>1
    <2>6. ASSUME NEW now \in Now, CompactFails(c, now) PROVE Placed(call'[c])
      <3> DEFINE y == Told(c, "unavailable")
      <3>1. call' = [call EXCEPT ![c] = [y EXCEPT !.won = TRUE]]
        BY <2>6, Zenon DEF CompactFails
      <3>2. y \in CallState /\ Placed(y)
        BY <1>2, <1>3, <1>4
      <3> HIDE DEF y
      <3> QED BY <1>0, <3>1, <3>2 DEF CallState, Placed
    <2>7. ASSUME NEW now \in Now, Admit(c, now) PROVE Placed(call'[c])
      <3> DEFINE go == [call[c] EXCEPT !.pc = "claiming", !.at = time]
      <3>1. \/ \E said \in Answers : call' = [call EXCEPT ![c] = Told(c, said)]
            \/ call' = [call EXCEPT ![c] = go]
        BY <1>3, <2>7 DEF Admit
      <3>2. Placed(go)
        BY <1>0 DEF CallState, Placed
      <3> HIDE DEF go
      <3> QED BY <1>0, <1>2, <3>1, <3>2
    <2>8. ASSUME FirstCountFails(c) PROVE Placed(call'[c])
      BY <1>0, <2>8 DEF FirstCountFails
    <2>9. ASSUME Claim(c) PROVE Placed(call'[c])
      <3> DEFINE w == table[call[c].proof] = None
      <3>1. call' = [call EXCEPT ![c].pc = "claimed", ![c].won = w]
        BY <2>9 DEF Claim
      <3> HIDE DEF w
      <3> QED BY <1>0, <3>1 DEF CallState, Placed
    <2>10. ASSUME ClaimLost(c) PROVE Placed(call'[c])
      <3> DEFINE y == Told(c, "unavailable")
                 w == table[call[c].proof] = None
      <3>1. \/ call' = [call EXCEPT ![c] = [y EXCEPT !.won = w]]
            \/ call' = [call EXCEPT ![c] = y]
        BY <2>10 DEF ClaimLost
      <3>2. y \in CallState /\ Placed(y)
        BY <1>2, <1>3, <1>4
      <3> HIDE DEF y, w
      <3> QED BY <1>0, <3>1, <3>2 DEF CallState, Placed
    <2>11. ASSUME Answer(c) PROVE Placed(call'[c])
      <3>1. \/ call' = [call EXCEPT ![c].pc = "counted"]
               /\ store = "facilitator"
            \/ \E said \in Answers : call' = [call EXCEPT ![c] = Told(c, said)]
        BY <1>3, <2>11 DEF Answer
      <3> QED BY <1>0, <1>2, <3>1 DEF CallState, Placed
    <2>12. ASSUME Settled(c) PROVE Placed(call'[c])
      BY <1>0, <1>2, <1>3, <2>12 DEF Settled
    <2>13. ASSUME GiveUp(c) PROVE Placed(call'[c])
      <3>1. \/ call' = [call EXCEPT ![c].said = "unavailable"]
            \/ call' = [call EXCEPT ![c] = Told(c, "unavailable")]
        BY <2>13 DEF GiveUp
      <3> QED BY <1>0, <1>2, <1>3, <3>1 DEF CallState, Placed
    <2> QED BY <2>1, <2>2, <2>3, <2>4, <2>5, <2>6, <2>7, <2>8, <2>9, <2>10, <2>11, <2>12,
               <2>13 DEF CallStep
  <1> QED BY <1>0, <1>1, <1>5

\* What a request's step does to the rest: a day noted is today, and only the
\* facilitator counts.
RestFrame ==
    /\ time' = time /\ store' = store
    /\ faults' <= MaxFaults
    /\ since' \in 0..CompactEvery
    /\ \A p \in Proofs : claimedOn'[p] \in {claimedOn[p], Day(time)}
    /\ miscounted' \in {miscounted, Day(time)}
    /\ rows' \in [Proofs -> Int]
    /\ store # "facilitator" => rows' = rows /\ day' = day /\ today' = today

LEMMA RestSteps ==
    ASSUME BaseInv, RestInv, NEW c \in Calls, CallStep(c)
    PROVE  RestFrame
  <1>0. /\ claimedOn \in [Proofs -> Int] /\ rows \in [Proofs -> Int]
        /\ faults \in Nat /\ faults <= MaxFaults /\ MaxFaults \in Nat
        /\ since \in 0..CompactEvery /\ CompactEvery \in Nat \ {0}
        /\ Day(time) \in Int
    BY DayIsInt, SaleAssumption DEF BaseInv, TypeInv, RestInv, SaleAssumption
  <1>1. Fault => faults' <= MaxFaults
    BY <1>0 DEF Fault
  <1> USE <1>0 DEF RestFrame
  <1>2. ASSUME NEW p \in Proofs, Ask(c, p) PROVE RestFrame
    BY <1>2 DEF Ask, fileStore, counter, history
  <1>3. ASSUME NEW said \in Answers, Refuse(c, said) PROVE RestFrame
    BY <1>3 DEF Refuse, fileStore, counter, history
  <1>4. ASSUME NEW now \in Now, FileClaim(c, now) PROVE RestFrame
    <2>1. /\ time' = time /\ store' = store /\ faults' = faults /\ miscounted' = miscounted
          /\ rows' = rows /\ day' = day /\ today' = today
      BY <1>4 DEF FileClaim, counter
    <2>2. \/ since' = since /\ claimedOn' = claimedOn
          \/ /\ since' = 0 \/ (since' = since + 1 /\ ~(since + 1 >= CompactEvery))
             /\ claimedOn' = [claimedOn EXCEPT ![call[c].proof] = Day(time)]
      BY <1>4 DEF FileClaim, fileStore, history
    <2>3. since' \in 0..CompactEvery
      BY <2>2
    <2> QED BY <2>1, <2>2, <2>3
  <1>5. ASSUME NEW now \in Now, FileLate(c, now) PROVE RestFrame
    BY <1>5 DEF FileLate, fileStore, counter, history
  <1>6. ASSUME NEW now \in Now, AppendFails(c, now) PROVE RestFrame
    <2>1. /\ UNCHANGED <<time, store, since, rows, day, today, claimedOn, miscounted>>
          /\ Fault
      BY <1>6, Zenon DEF AppendFails, counter, history
    <2> QED BY <1>1, <2>1
  <1>7. ASSUME NEW now \in Now, CompactFails(c, now) PROVE RestFrame
    <2>1. /\ UNCHANGED <<time, store, rows, day, today, miscounted>>
          /\ Fault /\ since' = CompactEvery
          /\ claimedOn' = [claimedOn EXCEPT ![call[c].proof] = Day(time)]
      BY <1>7, Zenon DEF CompactFails, counter
    <2> QED BY <1>1, <2>1
  <1>8. ASSUME NEW now \in Now, Admit(c, now) PROVE RestFrame
    <2>1. /\ UNCHANGED <<time, store, since, rows, claimedOn, miscounted, faults>>
          /\ store # "facilitator" => day' = day /\ today' = today
      BY <1>8 DEF Admit, fileStore, counter, history
    <2> QED BY <2>1
  <1>9. ASSUME FirstCountFails(c) PROVE RestFrame
    BY <1>1, <1>9 DEF FirstCountFails, fileStore
  <1>10. ASSUME Claim(c) PROVE RestFrame
    <2>1. /\ UNCHANGED <<time, store, since, rows, day, today, miscounted, faults>>
          /\ Insert(call[c].proof)
      BY <1>10 DEF Claim, fileStore, counter
    <2> QED BY <2>1 DEF Insert
  <1>11. ASSUME ClaimLost(c) PROVE RestFrame
    <2>1. /\ UNCHANGED <<time, store, since, rows, day, today, miscounted>>
          /\ Fault
          /\ Insert(call[c].proof) \/ claimedOn' = claimedOn
      BY <1>11 DEF ClaimLost, fileStore, counter
    <2> QED BY <1>1, <2>1 DEF Insert
  <1>12. ASSUME Answer(c) PROVE RestFrame
    <2>1. /\ UNCHANGED <<time, store, since, rows, claimedOn, miscounted, faults>>
          /\ store # "facilitator" => day' = day /\ today' = today
      BY <1>12 DEF Answer, fileStore, counter
    <2> QED BY <2>1
  <1>13. ASSUME Settled(c) PROVE RestFrame
    <2>1. /\ UNCHANGED <<time, store, since, claimedOn, miscounted, day, today>>
          /\ faults' = faults \/ Fault
      BY <1>13 DEF Settled, fileStore, counter
    <2>2. rows' \in [Proofs -> Int]
      BY <1>13 DEF Settled
    <2>3. store = "facilitator"
      BY <1>13 DEF RestInv, Placed, Settled
    <2> QED BY <1>1, <2>1, <2>2, <2>3
  <1>14. ASSUME GiveUp(c) PROVE RestFrame
    <2>1. /\ UNCHANGED <<time, store, since, rows, day, today, claimedOn, miscounted>>
          /\ Fault
      BY <1>14 DEF GiveUp, fileStore, counter, history
    <2> QED BY <1>1, <2>1
  <1> QED
    BY <1>2, <1>3, <1>4, <1>5, <1>6, <1>7, <1>8, <1>9, <1>10, <1>11, <1>12, <1>13, <1>14
       DEF CallStep

LEMMA InitRest == Init => RestInv
  <1> SUFFICES ASSUME Init PROVE RestInv
    OBVIOUS
  <1>1. MaxTime \in Nat /\ MaxFaults \in Nat /\ CompactEvery \in Nat
    BY SaleAssumption DEF SaleAssumption
  <1>2. \A c \in Calls : Placed(call[c])
    BY <1>1 DEF Init, NoCall, Placed
  <1>3. rows \in [Proofs -> Int]
    BY DEF Init, None
  <1> QED BY <1>1, <1>2, <1>3 DEF Init, RestInv

LEMMA NextRest == BaseInv /\ RestInv /\ [Next]_vars => RestInv'
  <1> SUFFICES ASSUME BaseInv, RestInv, [Next]_vars PROVE RestInv'
    OBVIOUS
  <1>0. /\ time \in Nat /\ Day(time) \in Nat /\ None = -1
        /\ faults \in Nat /\ MaxFaults \in Nat /\ CompactEvery \in Nat
        /\ \A d \in Calls : call[d].at \in Nat
        /\ claimedOn \in [Proofs -> Int]
    BY DaysPass, SaleAssumption DEF BaseInv, TypeInv, SaleAssumption, CallState, None
  <1>1. ASSUME NEW c \in Calls, CallStep(c) PROVE RestInv'
    <2>1. RestFrame /\ \A d \in Calls : Placed(call'[d])
      BY <1>1, RestSteps, AtStays
    <2>2. Day(time)' = Day(time) /\ Day(time) \in 0..Day(time)
      BY <1>0, <2>1 DEF RestFrame, Day
    <2>3. \A d \in Calls : Placed(call[d])'
      BY <2>1 DEF RestFrame, Placed
    <2>4. \A p \in Proofs : claimedOn'[p] \in {None} \cup 0..Day(time)
      BY <2>1, <2>2 DEF RestFrame, RestInv
    <2>5. miscounted' \in {None} \cup 0..Day(time)
      BY <2>1, <2>2 DEF RestFrame, RestInv
    <2>6. /\ time' <= MaxTime /\ faults' <= MaxFaults /\ since' \in 0..CompactEvery
          /\ rows' \in [Proofs -> Int]
          /\ store' # "facilitator" =>
               /\ \A p \in Proofs : rows'[p] = None
               /\ day' = None /\ today' = 0
      BY <2>1 DEF RestFrame, RestInv
    <2> QED BY <2>2, <2>3, <2>4, <2>5, <2>6 DEF RestInv
  <1>2. CASE Prune
    BY <1>2 DEF Prune, RestInv, Placed, Day, fileStore, counter, history
  <1>3. CASE Tick
    <2>1. /\ time' = time + 1 /\ time' <= MaxTime
          /\ UNCHANGED <<store, since, rows, day, today, call, claimedOn, miscounted, faults>>
      BY <1>0, <1>3, SaleAssumption DEF Tick, RestInv, fileStore, counter, history, SaleAssumption
    <2>2. Day(time) <= Day(time + 1) /\ Day(time + 1) \in Nat /\ Day(time)' = Day(time + 1)
      BY <1>0, <2>1, DaysPass DEF Day
    <2>3. \A p \in Proofs : claimedOn'[p] \in {None} \cup 0..Day(time + 1)
      BY <1>0, <2>1, <2>2 DEF RestInv
    <2>4. miscounted' \in {None} \cup 0..Day(time + 1)
      BY <1>0, <2>1, <2>2 DEF RestInv
    <2>5. \A d \in Calls : Placed(call[d])'
      BY <2>1 DEF RestInv, Placed
    <2> QED BY <2>1, <2>2, <2>3, <2>4, <2>5 DEF RestInv
  <1>4. CASE Crash
    <2>1. /\ UNCHANGED <<store, time, rows, miscounted>> /\ faults' = faults + 1
          /\ since' = 0 /\ day' = None /\ today' = 0
          /\ call' = Hung
      BY <1>0, <1>4, Zenon DEF Crash, Fault
    <2>2. faults' <= MaxFaults
      BY <1>0, <1>4 DEF Crash, Fault
    <2>3. \A p \in Proofs : claimedOn'[p] \in {claimedOn[p], Day(time)}
      <3>1. claimedOn' = claimedOn \/ \E q : claimedOn' = [claimedOn EXCEPT ![q] = Day(time)]
        BY <1>4, Zenon DEF Crash
      <3> QED BY <1>0, <3>1
    <2>4. ASSUME NEW d \in Calls PROVE Placed(call[d])'
      <3>1. "unavailable" \in Answers /\ "lost" \in Answers
        BY DEF Answers
      <3>2. Hung[d] = call[d] \/ \E said \in Answers : Hung[d] = Told(d, said)
        BY <3>1 DEF Hung
      <3>3. \A said \in Answers : Told(d, said).at = call[d].at /\ Told(d, said).pc = "idle"
        BY ToldKeeps DEF BaseInv
      <3> QED BY <2>1, <3>2, <3>3 DEF RestInv, Placed
    <2>5. Day(time)' = Day(time) /\ Day(time) \in 0..Day(time)
      BY <1>0, <2>1 DEF Day
    <2> QED BY <1>0, <2>1, <2>2, <2>3, <2>4, <2>5 DEF RestInv
  <1>5. ASSUME NEW now \in Now, Restart(now) PROVE RestInv'
    BY <1>5 DEF Restart, RestInv, Placed, Day, counter, history
  <1>6. CASE UNCHANGED vars
    BY <1>6 DEF vars, RestInv, Placed, Day
  <1> QED BY <1>1, <1>2, <1>3, <1>4, <1>5, <1>6 DEF Next

LEMMA RestAlways == Spec => []RestInv
  <1>1. Init => RestInv
    BY InitRest
  <1>2. BaseInv /\ RestInv /\ [Next]_vars => RestInv'
    BY NextRest
  <1>3. Spec => []BaseInv
    BY BaseAlways
  <1> QED BY <1>1, <1>2, <1>3, PTL DEF Spec

-----------------------------------------------------------------------------
(* DayBounded: what the facilitator has counted *)

Awaited(c, p) == Settling(c, p) /\ call[c].pc = "claimed"
Counted(c, p) == Settling(c, p) /\ call[c].pc = "counted"

\* The proofs claimed today whose settlement is counted; those that are counted
\* or about to be; the requests whose claim is on its way; the proofs claimed
\* and counted or lost, whenever it was.
OnRecord == {p \in Proofs : /\ claimedOn[p] = Day(time)
                            /\ rows[p] # None \/ \E c \in Calls : Counted(c, p)}
Live     == {p \in Proofs : /\ claimedOn[p] = Day(time)
                            /\ rows[p] # None \/ \E c \in Calls : Settling(c, p)}
Coming   == {c \in Calls : call[c].pc = "claiming"}
Answered == {p \in Proofs : claimedOn[p] # None /\ \A c \in Calls : ~Awaited(c, p)}

\* A claim outlives every statement that could claim the proof again; its row
\* is of its day or a later one, and written by the one request that won it.
ClaimFits(p) ==
    /\ claimedOn[p] # None => table[p] # None \/ Forgotten(p)
    /\ rows[p] # None =>
         /\ claimedOn[p] # None /\ claimedOn[p] <= rows[p] /\ rows[p] <= Day(time)
         /\ day = None \/ claimedOn[p] <= day
         /\ \A c \in Calls : ~Settling(c, p)
    /\ \A c \in Calls : Settling(c, p) => claimedOn[p] # None
    /\ \A c \in Calls : Counted(c, p) => day # None /\ claimedOn[p] <= day
    /\ \A c, d \in Calls : Settling(c, p) /\ Settling(d, p) => c = d

RecordInv ==
    /\ \A p \in Proofs : ClaimFits(p)
    /\ day \in {None} \cup 0..Day(time)
    /\ today \in Nat /\ today <= Cardinality(Answered)
    /\ Coming # {} => DailyCap >= 1

\* What is on record has been counted, and a claim on its way has its place
\* under the cap or is one of the requests under way.
SumInv ==
    miscounted # Day(time) =>
      /\ Cardinality(OnRecord) <= SettledToday
      /\ Cardinality(Live) + Cardinality(Coming) <= DailyCap + (Cardinality(Calls) - 1)

CountInv == RecordInv /\ SumInv

\* The facts every step is checked with.
Sound == BaseInv /\ RestInv /\ store = "facilitator" /\ CountInv

LEMMA SetsAreFinite ==
    /\ IsFiniteSet(OnRecord) /\ Cardinality(OnRecord) \in Nat
    /\ IsFiniteSet(Live) /\ Cardinality(Live) \in Nat
    /\ IsFiniteSet(Coming) /\ Cardinality(Coming) \in Nat
    /\ IsFiniteSet(Answered) /\ Cardinality(Answered) \in Nat
    /\ IsFiniteSet(Calls) /\ Cardinality(Calls) \in Nat /\ Cardinality(Calls) >= 1
    /\ IsFiniteSet(Proofs) /\ Cardinality(Proofs) \in Nat
    /\ DailyCap \in Nat
  <1>1. IsFiniteSet(Calls) /\ IsFiniteSet(Proofs) /\ Calls # {} /\ DailyCap \in Nat
    BY SaleAssumption DEF SaleAssumption
  <1>2. /\ OnRecord \in SUBSET Proofs /\ Live \in SUBSET Proofs
        /\ Answered \in SUBSET Proofs /\ Coming \in SUBSET Calls
    BY DEF OnRecord, Live, Answered, Coming
  <1>3. /\ IsFiniteSet(OnRecord) /\ IsFiniteSet(Live) /\ IsFiniteSet(Answered)
        /\ IsFiniteSet(Coming)
    BY <1>1, <1>2, FS_Subset
  <1>4. Cardinality(Calls) \in Nat /\ Cardinality(Calls) # 0
    BY <1>1, FS_EmptySet, FS_CardinalityType
  <1> QED BY <1>1, <1>3, <1>4, FS_CardinalityType

\* A smaller set, and a set with one more member.
LEMMA FewerOrOneMore ==
    ASSUME NEW S, NEW T, IsFiniteSet(S)
    PROVE  /\ T \subseteq S => Cardinality(T) <= Cardinality(S)
           /\ \A x : T \subseteq S \cup {x} => Cardinality(T) <= Cardinality(S) + 1
  <1>1. T \subseteq S => Cardinality(T) <= Cardinality(S)
    BY FS_Subset
  <1>2. ASSUME NEW x, T \subseteq S \cup {x}
        PROVE  Cardinality(T) <= Cardinality(S) + 1
    <2>1. /\ IsFiniteSet(S \cup {x})
          /\ Cardinality(S \cup {x}) \in {Cardinality(S), Cardinality(S) + 1}
      BY FS_AddElement
    <2>2. Cardinality(T) <= Cardinality(S \cup {x})
      BY <1>2, <2>1, FS_Subset
    <2>3. Cardinality(S) \in Nat
      BY FS_CardinalityType
    <2>4. Cardinality(T) \in Nat
      <3>1. IsFiniteSet(T)
        BY <1>2, <2>1, FS_Subset
      <3> QED BY <3>1, FS_CardinalityType
    <2> QED BY <2>1, <2>2, <2>3, <2>4
  <1> QED BY <1>1, <1>2

\* What a first count reads; what it reads is answered.
LEMMA CountIsAnswered ==
    ASSUME Sound
    PROVE  /\ SettledToday \in Nat /\ SettledToday <= Cardinality(Answered)
           /\ day = None => Cardinality(OnRecord) <= SettledToday
  <1> DEFINE R == {p \in Proofs : rows[p] = Day(time)}
  <1>1. Day(time) \in Nat /\ None = -1
    BY DaysPass DEF Sound, BaseInv, TypeInv, None
  <1>2. R \subseteq Answered
    BY <1>1 DEF Answered, Awaited, Sound, CountInv, RecordInv, ClaimFits
  <1>3. IsFiniteSet(R) /\ Cardinality(R) \in Nat /\ Cardinality(R) <= Cardinality(Answered)
    BY <1>2, SetsAreFinite, FS_Subset, FS_CardinalityType
  <1>4. day = None => Cardinality(OnRecord) <= Cardinality(R)
    <2>1. day = None => OnRecord \subseteq R
      BY <1>1 DEF OnRecord, Sound, CountInv, RecordInv, ClaimFits, RestInv
    <2> QED BY <1>3, <2>1, FewerOrOneMore
  <1>5. SettledToday \in {today, Cardinality(R), 0}
    BY DEF SettledToday
  <1>6. day = None => SettledToday = Cardinality(R)
    BY <1>1 DEF SettledToday
  <1> HIDE DEF R
  <1> QED BY <1>3, <1>4, <1>5, <1>6, SetsAreFinite DEF Sound, CountInv, RecordInv

\* The arithmetic of a step: what is on record grows no faster than the count,
\* and the proofs claimed no faster than claims arrive.
LEMMA SumsHold ==
    ASSUME Sound, Day(time)' = Day(time),
           miscounted' # Day(time) => miscounted # Day(time),
           SettledToday' \in Int,
           \/ OnRecord' \subseteq OnRecord /\ SettledToday <= SettledToday'
           \/ SettledToday' = SettledToday + 1 /\ \E p : OnRecord' \subseteq OnRecord \cup {p},
           \/ Live' \subseteq Live /\ Coming' \subseteq Coming
           \/ /\ \E p : Live' \subseteq Live \cup {p}
              /\ \E c \in Coming : Coming' \subseteq Coming \ {c}
    PROVE  SumInv'
  <1>0. SUFFICES ASSUME miscounted # Day(time)
                 PROVE  /\ Cardinality(OnRecord') <= SettledToday'
                        /\ Cardinality(Live') + Cardinality(Coming')
                             <= DailyCap + (Cardinality(Calls) - 1)
    BY DEF SumInv
  <1>1. /\ Cardinality(OnRecord) <= SettledToday
        /\ Cardinality(Live) + Cardinality(Coming) <= DailyCap + (Cardinality(Calls) - 1)
        /\ SettledToday \in Nat
    BY <1>0, CountIsAnswered DEF Sound, CountInv, SumInv
  <1>2. Cardinality(OnRecord') <= SettledToday'
    <2>1. CASE OnRecord' \subseteq OnRecord /\ SettledToday <= SettledToday'
      <3>1. Cardinality(OnRecord') <= Cardinality(OnRecord)
        BY <2>1, SetsAreFinite, FewerOrOneMore
      <3>2. Cardinality(OnRecord') \in Nat
        BY <2>1, SetsAreFinite, FS_Subset, FS_CardinalityType
      <3> QED BY <1>1, <2>1, <3>1, <3>2, SetsAreFinite
    <2>2. CASE SettledToday' = SettledToday + 1 /\ \E p : OnRecord' \subseteq OnRecord \cup {p}
      <3>1. Cardinality(OnRecord') <= Cardinality(OnRecord) + 1
        BY <2>2, SetsAreFinite, FewerOrOneMore
      <3>2. Cardinality(OnRecord') \in Nat
        <4>1. PICK p : OnRecord' \subseteq OnRecord \cup {p}
          BY <2>2
        <4>2. IsFiniteSet(OnRecord \cup {p})
          BY SetsAreFinite, FS_AddElement
        <4> QED BY <4>1, <4>2, FS_Subset, FS_CardinalityType
      <3> QED BY <1>1, <2>2, <3>1, <3>2, SetsAreFinite
    <2> QED BY <2>1, <2>2
  <1>3. Cardinality(Live') + Cardinality(Coming') <= DailyCap + (Cardinality(Calls) - 1)
    <2>1. CASE Live' \subseteq Live /\ Coming' \subseteq Coming
      <3>1. /\ Cardinality(Live') <= Cardinality(Live)
            /\ Cardinality(Coming') <= Cardinality(Coming)
        BY <2>1, SetsAreFinite, FewerOrOneMore
      <3>2. Cardinality(Live') \in Nat /\ Cardinality(Coming') \in Nat
        BY <2>1, SetsAreFinite, FS_Subset, FS_CardinalityType
      <3> QED BY <1>1, <3>1, <3>2, SetsAreFinite
    <2>2. ASSUME NEW p, Live' \subseteq Live \cup {p},
                 NEW c \in Coming, Coming' \subseteq Coming \ {c}
          PROVE  Cardinality(Live') + Cardinality(Coming') <= DailyCap + (Cardinality(Calls) - 1)
      <3>1. Cardinality(Live') <= Cardinality(Live) + 1
        BY <2>2, SetsAreFinite, FewerOrOneMore
      <3>2. /\ IsFiniteSet(Coming \ {c})
            /\ Cardinality(Coming \ {c}) = Cardinality(Coming) - 1
        BY <2>2, SetsAreFinite, FS_RemoveElement
      <3>3. Cardinality(Coming') <= Cardinality(Coming) - 1
        BY <2>2, <3>2, FewerOrOneMore
      <3>4. Cardinality(Live') \in Nat
        <4>1. IsFiniteSet(Live \cup {p})
          BY SetsAreFinite, FS_AddElement
        <4> QED BY <2>2, <4>1, FS_Subset, FS_CardinalityType
      <3>5. Cardinality(Coming') \in Nat
        BY <2>2, <3>2, FS_Subset, FS_CardinalityType
      <3> QED BY <1>1, <3>1, <3>3, <3>4, <3>5, SetsAreFinite
    <2> QED BY <2>1, <2>2
  <1> QED BY <1>2, <1>3

\* A step that moves no request on and counts nothing.
StandsStill(d) ==
    \/ call'[d].pc = call[d].pc /\ call'[d].proof = call[d].proof /\ call'[d].won = call[d].won
    \/ call[d].pc \in {"idle", "asked"} /\ call'[d].pc \in {"idle", "asked"}
    \/ call[d].pc = "claimed" /\ ~call[d].won /\ call'[d].pc = "idle"

LEMMA StillCounts ==
    ASSUME Sound, UNCHANGED <<time, rows, claimedOn, miscounted, day, today>>,
           \A d \in Calls : StandsStill(d),
           \A p \in Proofs : table[p] # None /\ ~Forgotten(p) => table'[p] # None
    PROVE  CountInv'
  <1>1. \A d \in Calls, p \in Proofs : /\ Settling(d, p)' <=> Settling(d, p)
                                       /\ Counted(d, p)' <=> Counted(d, p)
                                       /\ Awaited(d, p)' <=> Awaited(d, p)
    BY DEF StandsStill, Settling, Counted, Awaited
  <1>2. /\ OnRecord' = OnRecord /\ Live' = Live /\ Answered' = Answered
        /\ Coming' = Coming /\ Day(time)' = Day(time)
    <2>1. \A d \in Calls : call'[d].pc = "claiming" <=> call[d].pc = "claiming"
      BY DEF StandsStill
    <2> QED BY <1>1, <2>1 DEF OnRecord, Live, Answered, Coming, Day
  <1>3. SettledToday' = SettledToday
    BY DEF SettledToday, Day
  <1>4. \A p \in Proofs : ClaimFits(p)'
    <2>1. \A p \in Proofs : Forgotten(p)' <=> Forgotten(p)
      BY DEF Forgotten
    <2> QED BY <1>1, <1>2, <2>1 DEF Sound, CountInv, RecordInv, ClaimFits
  <1>5. RecordInv'
    BY <1>2, <1>4 DEF Sound, CountInv, RecordInv
  <1>6. SumInv'
    BY <1>2, <1>3 DEF Sound, CountInv, SumInv
  <1> QED BY <1>5, <1>6 DEF CountInv

\* The first count of a process fails: the day is not bounded.
LEMMA FirstCountCounts ==
    ASSUME Sound, NEW c \in Calls, FirstCountFails(c)
    PROVE  CountInv'
  <1>1. /\ day = None /\ day' = Day(time) /\ today' = 0 /\ miscounted' = Day(time)
        /\ UNCHANGED <<time, table, rows, call, claimedOn>>
    BY DEF FirstCountFails
  <1>2. /\ OnRecord' = OnRecord /\ Answered' = Answered /\ Coming' = Coming
        /\ Day(time)' = Day(time)
        /\ Day(time) \in Nat
        /\ \A d \in Calls, p \in Proofs : /\ Settling(d, p)' <=> Settling(d, p)
                                          /\ Counted(d, p)' <=> Counted(d, p)
    BY <1>1, DaysPass DEF OnRecord, Answered, Coming, Day, Settling, Counted, Awaited,
       Sound, BaseInv, TypeInv
  <1>3. ASSUME NEW p \in Proofs PROVE ClaimFits(p)'
    <2>1. ClaimFits(p) /\ claimedOn[p] \in {None} \cup 0..Day(time) /\ None = -1
      BY DEF Sound, CountInv, RecordInv, RestInv, None
    <2>2. Forgotten(p)' <=> Forgotten(p)
      BY <1>1 DEF Forgotten
    <2> QED BY <1>1, <1>2, <2>1, <2>2 DEF ClaimFits
  <1>4. RecordInv'
    BY <1>1, <1>2, <1>3, SetsAreFinite DEF Sound, CountInv, RecordInv
  <1>5. SumInv'
    BY <1>1, <1>2 DEF SumInv
  <1> QED BY <1>4, <1>5 DEF CountInv

\* The proofs about to be counted have a request each.
LEMMA OneRequestEach ==
    ASSUME Sound
    PROVE  LET W == {c \in Calls : call[c].pc = "claimed"}
           IN  /\ IsFiniteSet(W) /\ Cardinality(W) \in Nat
               /\ Cardinality(Live) <= Cardinality(OnRecord) + Cardinality(W)
  <1> DEFINE W == {c \in Calls : call[c].pc = "claimed"}
             E == Live \ OnRecord
             f == [p \in E |-> CHOOSE c \in Calls : Awaited(c, p)]
  <1>1. IsFiniteSet(W) /\ Cardinality(W) \in Nat
    BY SetsAreFinite, FS_Subset, FS_CardinalityType
  <1>2. IsFiniteSet(E) /\ Cardinality(E) \in Nat
    BY SetsAreFinite, FS_Subset, FS_CardinalityType
  <1>3. ASSUME NEW p \in E PROVE f[p] \in W /\ call[f[p]].proof = p
    <2>1. \E c \in Calls : Awaited(c, p)
      <3>1. p \in Proofs /\ \E c \in Calls : Settling(c, p) /\ ~Counted(c, p)
        BY DEF Live, OnRecord
      <3> QED BY <3>1 DEF Settling, Counted, Awaited
    <2>2. f[p] \in Calls /\ Awaited(f[p], p)
      BY <2>1
    <2> QED BY <2>2 DEF Awaited, Settling
  <1>4. Cardinality(E) <= Cardinality(W)
    <2>1. SUFFICES ASSUME Cardinality(W) < Cardinality(E) PROVE FALSE
      BY <1>1, <1>2
    <2>2. f \in [E -> W]
      BY <1>3
    <2>3. \E p, q \in E : p # q /\ f[p] = f[q]
      <3> HIDE DEF f, E, W
      <3> QED BY <1>1, <1>2, <2>1, <2>2, FS_PigeonHole
    <2> QED BY <1>3, <2>3
  <1>5. Cardinality(Live) <= Cardinality(OnRecord) + Cardinality(E)
    <2>1. OnRecord \subseteq Live
      BY DEF OnRecord, Live, Counted
    <2>2. Live = OnRecord \cup E /\ OnRecord \cap E = {}
      BY <2>1
    <2> HIDE DEF E
    <2>3. /\ Cardinality(OnRecord \cup E)
                = Cardinality(OnRecord) + Cardinality(E) - Cardinality(OnRecord \cap E)
      BY <1>2, SetsAreFinite, FS_Union
    <2>4. Cardinality(OnRecord \cap E) = 0
      BY <2>2, FS_EmptySet
    <2> QED BY <1>2, <2>2, <2>3, <2>4, SetsAreFinite
  <1> QED BY <1>1, <1>2, <1>4, <1>5, SetsAreFinite

\* The day's count is brought up to date; a request let through finds room
\* under the cap.
LEMMA AdmitCounts ==
    ASSUME Sound, NEW c \in Calls, NEW now \in Now, Admit(c, now)
    PROVE  CountInv'
  <1>0. /\ call \in [Calls -> CallState] /\ call[c] \in CallState /\ TypeInv
        /\ Day(time) \in Nat /\ None = -1
    BY DaysPass DEF Sound, BaseInv, TypeInv, None
  <1>1. /\ UNCHANGED <<time, table, rows, claimedOn, miscounted>>
        /\ day' = Day(time) /\ today' = SettledToday
        /\ call[c].pc = "asked"
    BY DEF Admit, Sound, history
  <1>2. /\ \A d \in Calls \ {c} : call'[d] = call[d]
        /\ \/ call'[c].pc = "idle"
           \/ call'[c].pc = "claiming" /\ SettledToday < DailyCap
    <2>1. "unavailable" \in Answers /\ "refused" \in Answers
      BY DEF Answers
    <2> DEFINE go == [call[c] EXCEPT !.pc = "claiming", !.at = time]
    <2>2. \/ \E said \in Answers : call' = [call EXCEPT ![c] = Told(c, said)]
          \/ ~(SettledToday >= DailyCap) /\ call' = [call EXCEPT ![c] = go]
      BY <2>1 DEF Admit, Sound
    <2>3. go.pc = "claiming"
      BY <1>0 DEF CallState
    <2> HIDE DEF go
    <2>4. SettledToday \in Nat /\ DailyCap \in Nat
      BY CountIsAnswered, SetsAreFinite
    <2> QED BY <1>0, <2>2, <2>3, <2>4, ToldFacts
  <1>3. /\ \A d \in Calls, p \in Proofs : /\ Settling(d, p)' <=> Settling(d, p)
                                          /\ Counted(d, p)' <=> Counted(d, p)
                                          /\ Awaited(d, p)' <=> Awaited(d, p)
        /\ Coming' \in {Coming, Coming \cup {c}}
        /\ Coming' # Coming => SettledToday < DailyCap
    <2>1. \A p \in Proofs : ~Settling(c, p) /\ ~Settling(c, p)'
      BY <1>1, <1>2 DEF Settling
    <2>2. \A d \in Calls, p \in Proofs : Settling(d, p)' <=> Settling(d, p)
      BY <1>2, <2>1 DEF Settling
    <2> QED BY <1>1, <1>2, <2>1, <2>2 DEF Counted, Awaited, Coming
  <1>4. /\ OnRecord' = OnRecord /\ Live' = Live /\ Answered' = Answered
        /\ Day(time)' = Day(time)
    BY <1>1, <1>3 DEF OnRecord, Live, Answered, Day
  <1>5. SettledToday' = SettledToday /\ SettledToday \in Nat
    BY <1>1, CountIsAnswered DEF SettledToday, Day
  <1>6. ASSUME NEW p \in Proofs PROVE ClaimFits(p)'
    <2>1. ClaimFits(p) /\ claimedOn[p] \in {None} \cup 0..Day(time)
      BY DEF Sound, CountInv, RecordInv, RestInv
    <2>2. Forgotten(p)' <=> Forgotten(p)
      BY <1>1 DEF Forgotten
    <2> QED BY <1>0, <1>1, <1>3, <1>4, <2>1, <2>2 DEF ClaimFits
  <1>7. RecordInv'
    <2>1. today' \in Nat /\ today' <= Cardinality(Answered')
      BY <1>1, <1>4, CountIsAnswered
    <2>2. Coming' # {} => DailyCap >= 1
      BY <1>3, <1>5, SetsAreFinite DEF Sound, CountInv, RecordInv
    <2> QED BY <1>0, <1>1, <1>4, <1>6, <2>1, <2>2 DEF RecordInv
  <1>8. SumInv'
    <2>1. CASE Coming' = Coming
      BY <1>1, <1>4, <1>5, <2>1 DEF Sound, CountInv, SumInv
    <2>2. CASE Coming' # Coming
      <3> DEFINE W == {d \in Calls : call[d].pc = "claimed"}
      <3>1. Cardinality(Coming') + Cardinality(W) <= Cardinality(Calls)
        <4>1. /\ Coming' \in SUBSET Calls /\ W \in SUBSET Calls /\ Coming' \cap W = {}
          BY <1>1, <1>3 DEF Coming
        <4>2. IsFiniteSet(Coming') /\ IsFiniteSet(W)
          BY <4>1, SetsAreFinite, FS_Subset
        <4> HIDE DEF W
        <4>3. Cardinality(Coming' \cup W)
                = Cardinality(Coming') + Cardinality(W) - Cardinality(Coming' \cap W)
          BY <4>2, FS_Union
        <4>4. Cardinality(Coming' \cap W) = 0
          BY <4>1, FS_EmptySet
        <4>5. Cardinality(Coming' \cup W) <= Cardinality(Calls)
          BY <4>1, SetsAreFinite, FS_Subset
        <4>6. Cardinality(Coming') \in Nat /\ Cardinality(W) \in Nat
          BY <4>2, FS_CardinalityType
        <4> QED BY <4>3, <4>4, <4>5, <4>6
      <3>2. /\ Cardinality(Live) <= Cardinality(OnRecord) + Cardinality(W)
            /\ Cardinality(W) \in Nat
        BY OneRequestEach
      <3>3. SettledToday < DailyCap
        BY <1>3, <2>2
      <3>4. IsFiniteSet(Coming') /\ Cardinality(Coming') \in Nat
        <4>1. Coming' \in SUBSET Calls
          BY <1>3 DEF Coming
        <4> QED BY <4>1, SetsAreFinite, FS_Subset, FS_CardinalityType
      <3> HIDE DEF W
      <3>5. miscounted # Day(time) => Cardinality(OnRecord) <= SettledToday
        BY DEF Sound, CountInv, SumInv
      <3>6. miscounted # Day(time) =>
              Cardinality(Live) + Cardinality(Coming') <= DailyCap + (Cardinality(Calls) - 1)
        BY <1>5, <3>1, <3>2, <3>3, <3>4, <3>5, SetsAreFinite
      <3> QED BY <1>1, <1>4, <1>5, <3>5, <3>6 DEF SumInv
    <2> QED BY <2>1, <2>2
  <1> QED BY <1>7, <1>8 DEF CountInv

\* The statement that claims a proof: it is the only one that ever does.
LEMMA RowCounts ==
    ASSUME Sound, NEW c \in Calls, TakesRow(c),
           UNCHANGED <<rows, day, today, miscounted>>,
           \/ call'[c].pc = "claimed" /\ call'[c].proof = call[c].proof
           \/ call'[c].pc = "idle",
           \/ claimedOn' = claimedOn /\ (call'[c].pc = "idle" \/ ~call'[c].won)
           \/ /\ table[call[c].proof] = None /\ table'[call[c].proof] # None
              /\ claimedOn' = [claimedOn EXCEPT ![call[c].proof] = Day(time)]
    PROVE  CountInv'
  <1>0. PICK p \in Proofs : p = call[c].proof
    BY DEF TakesRow
  <1>1. /\ UNCHANGED <<time, store>> /\ call[c].pc = "claiming"
        /\ \A d \in Calls \ {c} : call'[d] = call[d]
        /\ \A q \in Proofs : table[q] # None => table'[q] # None
        /\ Day(time) \in Nat /\ None = -1 /\ time \in Nat
        /\ claimedOn \in [Proofs -> Int]
        /\ Day(time)' = Day(time)
    BY DaysPass DEF TakesRow, Sound, BaseInv, TypeInv, None, Day
  <1>2. /\ \A d \in Calls \ {c}, q \in Proofs : /\ Settling(d, q)' <=> Settling(d, q)
                                                /\ Counted(d, q)' <=> Counted(d, q)
                                                /\ Awaited(d, q)' <=> Awaited(d, q)
        /\ \A q \in Proofs : /\ ~Settling(c, q) /\ ~Counted(c, q) /\ ~Awaited(c, q)
                             /\ ~Counted(c, q)'
                             /\ q # p => ~Settling(c, q)' /\ ~Awaited(c, q)'
        /\ c \in Coming /\ Coming' \subseteq Coming \ {c}
    BY <1>0, <1>1 DEF Settling, Counted, Awaited, Coming
  <1>3. SettledToday' = SettledToday /\ SettledToday \in Nat
    BY <1>1, CountIsAnswered DEF SettledToday, Day
  <1>4. CASE claimedOn' = claimedOn /\ (call'[c].pc = "idle" \/ ~call'[c].won)
    <2>1. \A q \in Proofs : ~Settling(c, q)' /\ ~Awaited(c, q)'
      BY <1>4 DEF Settling, Awaited
    <2>2. /\ OnRecord' = OnRecord /\ Live' = Live /\ Answered' = Answered
      BY <1>1, <1>2, <1>4, <2>1 DEF OnRecord, Live, Answered
    <2>3. ASSUME NEW q \in Proofs PROVE ClaimFits(q)'
      <3>1. ClaimFits(q) /\ (Forgotten(q)' <=> Forgotten(q))
        BY <1>1 DEF Sound, CountInv, RecordInv, Forgotten
      <3> QED BY <1>1, <1>2, <1>4, <2>1, <3>1 DEF ClaimFits
    <2>4. RecordInv'
      BY <1>1, <1>2, <2>2, <2>3 DEF Sound, CountInv, RecordInv
    <2>5. SumInv'
      BY <1>1, <1>2, <1>3, <2>2, SumsHold, SetsAreFinite
    <2> QED BY <2>4, <2>5 DEF CountInv
  <1>5. CASE /\ table[p] = None /\ table'[p] # None
             /\ claimedOn' = [claimedOn EXCEPT ![p] = Day(time)]
    <2>1. ~Forgotten(p)
      <3>1. /\ call[c].at <= Ends[p] + ClockBack
            /\ time <= call[c].at + MaxDelay
            /\ call[c].at \in Nat
        BY <1>0, <1>1 DEF Sound, BaseInv, TypeInv, CallOK, CallState
      <3> QED BY <1>1, <3>1, Lengths DEF Forgotten
    <2>2. claimedOn[p] = None /\ rows[p] = None /\ \A d \in Calls : ~Settling(d, p)
      BY <1>5, <2>1 DEF Sound, CountInv, RecordInv, ClaimFits
    <2>3. /\ claimedOn'[p] = Day(time) /\ Day(time) # None
          /\ \A q \in Proofs \ {p} : claimedOn'[q] = claimedOn[q]
      BY <1>1, <1>5
    <2>4. /\ OnRecord' \subseteq OnRecord
          /\ Live' \subseteq Live \cup {p}
          /\ Answered \subseteq Answered'
      <3>1. \A d \in Calls : ~Counted(d, p) /\ ~Counted(d, p)'
        BY <1>2, <2>2 DEF Counted
      <3> QED BY <1>1, <1>2, <2>2, <2>3, <3>1 DEF OnRecord, Live, Answered
    <2>5. ASSUME NEW q \in Proofs PROVE ClaimFits(q)'
      <3>1. ClaimFits(q) /\ (Forgotten(q)' <=> Forgotten(q))
        BY <1>1 DEF Sound, CountInv, RecordInv, Forgotten
      <3>2. CASE q # p
        BY <1>1, <1>2, <2>3, <3>1, <3>2 DEF ClaimFits
      <3>3. CASE q = p
        <4>1. \A d \in Calls : Settling(d, p)' => d = c
          BY <1>2, <2>2
        <4>2. \A d \in Calls : ~Counted(d, p)'
          BY <1>2, <2>2 DEF Counted
        <4> QED BY <1>5, <2>2, <2>3, <3>3, <4>1, <4>2 DEF ClaimFits
      <3> QED BY <3>2, <3>3
    <2>6. RecordInv'
      <3>1. Cardinality(Answered) <= Cardinality(Answered') /\ Cardinality(Answered') \in Nat
        <4>1. Answered' \in SUBSET Proofs
          BY DEF Answered
        <4> QED BY <2>4, <4>1, SetsAreFinite, FS_Subset, FS_CardinalityType
      <3>2. today' \in Nat /\ today' <= Cardinality(Answered')
        BY <3>1, SetsAreFinite DEF Sound, CountInv, RecordInv
      <3>3. (Coming' # {} => DailyCap >= 1) /\ day' \in {None} \cup 0..Day(time)'
        BY <1>1, <1>2 DEF Sound, CountInv, RecordInv
      <3> QED BY <2>5, <3>2, <3>3 DEF RecordInv
    <2>7. SumInv'
      BY <1>1, <1>2, <1>3, <2>4, SumsHold, SetsAreFinite
    <2> QED BY <2>6, <2>7 DEF CountInv
  <1> QED BY <1>0, <1>4, <1>5

LEMMA ClaimCounts ==
    ASSUME Sound, NEW c \in Calls, Claim(c) \/ ClaimLost(c)
    PROVE  CountInv'
  <1>0. BaseInv /\ TypeInv
    BY DEF Sound, BaseInv
  <1>1. CASE Claim(c)
    <2>1. /\ TakesRow(c) /\ call'[c].pc = "claimed" /\ call'[c].proof = call[c].proof
          /\ call'[c].won <=> table[call[c].proof] = None
          /\ table'[call[c].proof] # None
      BY <1>0, <1>1, ClaimFacts
    <2>2. UNCHANGED <<rows, day, today, miscounted>> /\ Insert(call[c].proof)
      BY <1>1 DEF Claim, counter
    <2>3. \/ claimedOn' = claimedOn /\ table[call[c].proof] # None
          \/ /\ table[call[c].proof] = None
             /\ claimedOn' = [claimedOn EXCEPT ![call[c].proof] = Day(time)]
      BY <2>2 DEF Insert
    <2> QED BY <2>1, <2>2, <2>3, RowCounts
  <1>2. CASE ClaimLost(c)
    <2>1. TakesRow(c) /\ call'[c].pc = "idle"
      BY <1>0, <1>2, ClaimLostFacts
    <2>2. /\ UNCHANGED <<rows, day, today, miscounted>>
          /\ Insert(call[c].proof) \/ claimedOn' = claimedOn
      BY <1>2 DEF ClaimLost, counter
    <2>3. \/ claimedOn' = claimedOn
          \/ /\ table[call[c].proof] = None /\ table'[call[c].proof] # None
             /\ claimedOn' = [claimedOn EXCEPT ![call[c].proof] = Day(time)]
      <3>1. CASE Insert(call[c].proof)
        <4>1. call[c].proof \in Proofs
          BY <2>1 DEF TakesRow
        <4>2. table'[call[c].proof] # None
          BY <1>0, <3>1, <4>1, InsertFacts
        <4> QED BY <3>1, <4>2 DEF Insert
      <3> QED BY <2>2, <3>1
    <2> QED BY <2>1, <2>2, <2>3, RowCounts
  <1> QED BY <1>1, <1>2

\* A settlement is counted as soon as its claim is known to be won.
LEMMA AnswerCounts ==
    ASSUME Sound, NEW c \in Calls, Answer(c)
    PROVE  CountInv'
  <1>0. /\ call \in [Calls -> CallState] /\ call[c] \in CallState /\ TypeInv /\ CallOK(c)
        /\ Day(time) \in Nat /\ None = -1
        /\ UNCHANGED <<time, table, rows, claimedOn, miscounted>>
        /\ call[c].pc = "claimed" /\ store = "facilitator"
    BY DaysPass DEF Sound, BaseInv, TypeInv, None, Answer
  <1>1. CASE ~call[c].won
    <2>1. call' = [call EXCEPT ![c] = Told(c, "duplicate")] /\ UNCHANGED <<day, today>>
      BY <1>1 DEF Answer, counter
    <2>2. "duplicate" \in Answers
      BY DEF Answers
    <2>3. call'[c].pc = "idle" /\ \A d \in Calls \ {c} : call'[d] = call[d]
      BY <1>0, <2>1, <2>2, ToldFacts
    <2>4. \A d \in Calls : StandsStill(d)
      BY <1>0, <1>1, <2>3 DEF StandsStill
    <2> QED BY <1>0, <2>1, <2>4, StillCounts
  <1>2. CASE call[c].won
    <2>1. /\ call' = [call EXCEPT ![c].pc = "counted"]
          /\ day' = Day(time) /\ today' = SettledToday + 1
      BY <1>0, <1>2 DEF Answer
    <2>2. PICK p \in Proofs : p = call[c].proof
      BY <1>0 DEF CallOK
    <2>3. /\ \A d \in Calls \ {c} : call'[d] = call[d]
          /\ call'[c].pc = "counted" /\ call'[c].proof = p /\ call'[c].won
      BY <1>0, <1>2, <2>1, <2>2 DEF CallState
    <2>4. /\ \A d \in Calls, q \in Proofs : Settling(d, q)' <=> Settling(d, q)
          /\ \A d \in Calls \ {c}, q \in Proofs : /\ Counted(d, q)' <=> Counted(d, q)
                                                  /\ Awaited(d, q)' <=> Awaited(d, q)
          /\ \A q \in Proofs : q # p => ~Counted(c, q)' /\ ~Awaited(c, q)
          /\ \A q \in Proofs : ~Counted(c, q) /\ ~Awaited(c, q)'
          /\ Awaited(c, p)
      <3>1. \A d \in Calls, q \in Proofs : Settling(d, q)' <=> Settling(d, q)
        BY <1>0, <1>2, <2>2, <2>3 DEF Settling
      <3> QED BY <1>0, <1>2, <2>2, <2>3, <3>1 DEF Settling, Counted, Awaited
    <2>5. claimedOn[p] # None /\ \A d \in Calls : Settling(d, p) => d = c
      BY <2>4 DEF Awaited, Sound, CountInv, RecordInv, ClaimFits
    <2>6. /\ OnRecord' \subseteq OnRecord \cup {p}
          /\ Live' = Live /\ Coming' = Coming
          /\ Day(time)' = Day(time)
      BY <1>0, <2>3, <2>4 DEF OnRecord, Live, Coming, Day
    <2>7. Answered' = Answered \cup {p} /\ p \notin Answered
      BY <1>0, <2>4, <2>5 DEF Answered, Awaited
    <2>8. SettledToday' = SettledToday + 1 /\ SettledToday \in Nat
      BY <1>0, <2>1, CountIsAnswered DEF SettledToday, Day
    <2>9. ASSUME NEW q \in Proofs PROVE ClaimFits(q)'
      <3>1. ClaimFits(q) /\ claimedOn[q] \in {None} \cup 0..Day(time)
        BY DEF Sound, CountInv, RecordInv, RestInv
      <3>2. Forgotten(q)' <=> Forgotten(q)
        BY <1>0 DEF Forgotten
      <3> QED BY <1>0, <2>1, <2>4, <2>6, <3>1, <3>2 DEF ClaimFits
    <2>10. RecordInv'
      <3>1. Cardinality(Answered') = Cardinality(Answered) + 1
        BY <2>7, SetsAreFinite, FS_AddElement
      <3>2. today' \in Nat /\ today' <= Cardinality(Answered')
        BY <2>1, <2>8, <3>1, CountIsAnswered, SetsAreFinite
      <3>3. (Coming' # {} => DailyCap >= 1) /\ day' \in {None} \cup 0..Day(time)'
        BY <1>0, <2>1, <2>6 DEF Sound, CountInv, RecordInv
      <3> QED BY <2>9, <3>2, <3>3 DEF RecordInv
    <2>11. SumInv'
      BY <1>0, <2>6, <2>8, SumsHold
    <2> QED BY <2>10, <2>11 DEF CountInv
  <1> QED BY <1>1, <1>2

\* The row is written, or lost: the request that won the proof was the only one.
LEMMA SettledCounts ==
    ASSUME Sound, NEW c \in Calls, Settled(c)
    PROVE  CountInv'
  <1>0. /\ call \in [Calls -> CallState] /\ call[c] \in CallState /\ TypeInv /\ CallOK(c)
        /\ Day(time) \in Nat /\ None = -1
        /\ UNCHANGED <<time, table, day, today, claimedOn, miscounted>>
        /\ call[c].pc = "counted"
        /\ rows \in [Proofs -> Int]
    BY DaysPass DEF Sound, BaseInv, TypeInv, RestInv, None, Settled, counter
  <1>1. PICK p \in Proofs : p = call[c].proof
    BY <1>0 DEF CallOK
  <1>2. /\ Settling(c, p) /\ Counted(c, p)
        /\ claimedOn[p] # None /\ day # None /\ claimedOn[p] <= day
        /\ rows[p] = None
        /\ \A d \in Calls : Settling(d, p) => d = c
    <2>1. Settling(c, p) /\ Counted(c, p)
      BY <1>0, <1>1 DEF CallOK, Settling, Counted
    <2> QED BY <2>1 DEF Sound, CountInv, RecordInv, ClaimFits
  <1>3. /\ \A d \in Calls \ {c} : call'[d] = call[d]
        /\ call'[c].pc = "idle"
    <2>1. "served" \in Answers /\ call' = [call EXCEPT ![c] = Told(c, "served")]
      BY DEF Settled, Answers
    <2> QED BY <1>0, <2>1, ToldFacts
  <1>4. rows' \in {rows, [rows EXCEPT ![p] = Day(time)]}
    BY <1>0, <1>1, <1>2 DEF Settled
  <1>5. /\ \A q \in Proofs \ {p} : rows'[q] = rows[q]
        /\ rows'[p] \in {None, Day(time)}
    BY <1>0, <1>2, <1>4
  <1>6. /\ \A d \in Calls \ {c}, q \in Proofs : /\ Settling(d, q)' <=> Settling(d, q)
                                                /\ Counted(d, q)' <=> Counted(d, q)
                                                /\ Awaited(d, q)' <=> Awaited(d, q)
        /\ \A q \in Proofs : /\ ~Settling(c, q)' /\ ~Counted(c, q)' /\ ~Awaited(c, q)'
                             /\ ~Awaited(c, q)
                             /\ q # p => ~Settling(c, q) /\ ~Counted(c, q)
    BY <1>0, <1>1, <1>3 DEF Settling, Counted, Awaited
  <1>7. /\ OnRecord' \subseteq OnRecord /\ Live' \subseteq Live
        /\ Answered' = Answered /\ Coming' = Coming /\ Day(time)' = Day(time)
    <2>1. Coming' = Coming
      BY <1>0, <1>3 DEF Coming
    <2>2. Day(time)' = Day(time)
      BY <1>0 DEF Day
    <2> QED BY <1>0, <1>2, <1>5, <1>6, <2>1, <2>2 DEF OnRecord, Live, Answered
  <1>8. SettledToday' = SettledToday /\ SettledToday \in Nat
    BY <1>0, <1>2, <1>7, CountIsAnswered DEF SettledToday
  <1>9. ASSUME NEW q \in Proofs PROVE ClaimFits(q)'
    <2>1. ClaimFits(q) /\ claimedOn[q] \in {None} \cup 0..Day(time)
      BY DEF Sound, CountInv, RecordInv, RestInv
    <2>2. Forgotten(q)' <=> Forgotten(q)
      BY <1>0 DEF Forgotten
    <2>3. CASE q # p
      BY <1>0, <1>5, <1>6, <1>7, <2>1, <2>2, <2>3 DEF ClaimFits
    <2>4. CASE q = p
      <3>1. \A d \in Calls : ~Settling(d, p)' /\ ~Counted(d, p)'
        BY <1>2, <1>6 DEF Counted
      <3> QED BY <1>0, <1>2, <1>5, <1>7, <2>1, <2>2, <2>4, <3>1 DEF ClaimFits
    <2> QED BY <2>3, <2>4
  <1>10. RecordInv'
    BY <1>0, <1>7, <1>9 DEF Sound, CountInv, RecordInv
  <1>11. SumInv'
    BY <1>0, <1>7, <1>8, SumsHold
  <1> QED BY <1>10, <1>11 DEF CountInv

\* A day begins with nothing claimed, and with what is under way.
LEMMA TickCounts ==
    ASSUME Sound, Tick
    PROVE  CountInv'
  <1>0. /\ time \in Nat /\ time' = time + 1 /\ None = -1
        /\ UNCHANGED <<table, rows, day, today, call, claimedOn, miscounted>>
        /\ Day(time) \in Nat /\ Day(time') \in Nat /\ Day(time) <= Day(time')
        /\ Day(time)' = Day(time')
    BY DaysPass DEF Sound, BaseInv, TypeInv, Tick, fileStore, counter, history, None, Day
  <1>1. \A d \in Calls, p \in Proofs : /\ Settling(d, p)' <=> Settling(d, p)
                                       /\ Counted(d, p)' <=> Counted(d, p)
                                       /\ Awaited(d, p)' <=> Awaited(d, p)
    BY <1>0 DEF Settling, Counted, Awaited
  <1>2. Answered' = Answered /\ Coming' = Coming
    BY <1>0, <1>1 DEF Answered, Coming
  <1>3. ASSUME NEW p \in Proofs PROVE ClaimFits(p)'
    <2>1. ClaimFits(p) /\ rows[p] \in Int
      BY DEF Sound, CountInv, RecordInv, RestInv
    <2>2. Forgotten(p) => Forgotten(p)'
      BY <1>0, Lengths DEF Forgotten
    <2> QED BY <1>0, <1>1, <2>1, <2>2 DEF ClaimFits
  <1>4. RecordInv'
    BY <1>0, <1>2, <1>3 DEF Sound, CountInv, RecordInv
  <1>5. SumInv'
    <2>1. CASE Day(time') = Day(time)
      <3>1. OnRecord' = OnRecord /\ Live' = Live
        BY <1>0, <1>1, <2>1 DEF OnRecord, Live
      <3>2. SettledToday' = SettledToday
        BY <1>0, <2>1 DEF SettledToday
      <3> QED BY <1>0, <1>2, <2>1, <3>1, <3>2 DEF Sound, CountInv, SumInv
    <2>2. CASE Day(time') # Day(time)
      <3>1. \A p \in Proofs : claimedOn[p] # Day(time')
        BY <1>0, <2>2 DEF Sound, RestInv
      <3>2. OnRecord' = {} /\ Live' = {}
        BY <1>0, <3>1 DEF OnRecord, Live
      <3>3. SettledToday' \in Nat
        <4> DEFINE R == {p \in Proofs : rows'[p] = Day(time')}
        <4>1. IsFiniteSet(R)
          BY SetsAreFinite, FS_Subset
        <4>2. Cardinality(R) \in Nat
          BY <4>1, FS_CardinalityType
        <4>3. SettledToday' \in {today', Cardinality(R), 0}
          BY <1>0 DEF SettledToday
        <4> HIDE DEF R
        <4> QED BY <1>4, <4>2, <4>3 DEF RecordInv
      <3>4. Cardinality(OnRecord') = 0 /\ Cardinality(Live') = 0
        BY <3>2, FS_EmptySet
      <3>5. Cardinality(Coming) <= DailyCap + (Cardinality(Calls) - 1)
        <4>1. CASE Coming = {}
          BY <4>1, SetsAreFinite, FS_EmptySet
        <4>2. CASE Coming # {}
          <5>1. Cardinality(Coming) <= Cardinality(Calls)
            <6>1. Coming \in SUBSET Calls
              BY DEF Coming
            <6> QED BY <6>1, SetsAreFinite, FS_Subset
          <5>2. DailyCap >= 1
            BY <4>2 DEF Sound, CountInv, RecordInv
          <5> QED BY <5>1, <5>2, SetsAreFinite
        <4> QED BY <4>1, <4>2
      <3>6. Cardinality(Live') + Cardinality(Coming') <= DailyCap + (Cardinality(Calls) - 1)
        BY <1>2, <3>4, <3>5, SetsAreFinite
      <3> QED BY <3>3, <3>4, <3>6 DEF SumInv
    <2> QED BY <2>1, <2>2
  <1> QED BY <1>4, <1>5 DEF CountInv

\* A crash ends every request; the next process counts the rows of the day.
LEMMA CrashCounts ==
    ASSUME Sound, Crash
    PROVE  CountInv'
  <1>0. /\ UNCHANGED <<time, table, rows, miscounted, claimedOn>>
        /\ day' = None /\ today' = 0 /\ None = -1
        /\ Day(time) \in Nat /\ Day(time)' = Day(time)
    BY DaysPass DEF Sound, BaseInv, TypeInv, Crash, None, Day
  <1>1. \A d \in Calls : call'[d].pc = "idle"
    BY CrashFacts DEF Sound
  <1>2. \A d \in Calls, p \in Proofs : ~Settling(d, p)' /\ ~Counted(d, p)' /\ ~Awaited(d, p)'
    BY <1>1 DEF Settling, Counted, Awaited
  <1>3. Coming' = {} /\ Live' \subseteq Live
    BY <1>0, <1>1, <1>2 DEF Coming, Live
  <1>4. ASSUME NEW p \in Proofs PROVE ClaimFits(p)'
    <2>1. ClaimFits(p) /\ (Forgotten(p)' <=> Forgotten(p))
      BY <1>0 DEF Sound, CountInv, RecordInv, Forgotten
    <2> QED BY <1>0, <1>2, <2>1 DEF ClaimFits
  <1>5. RecordInv'
    <2>1. IsFiniteSet(Answered') /\ Cardinality(Answered') \in Nat
      <3>1. Answered' \in SUBSET Proofs
        BY DEF Answered
      <3>2. IsFiniteSet(Answered')
        BY <3>1, SetsAreFinite, FS_Subset
      <3> QED BY <3>2, FS_CardinalityType
    <2> QED BY <1>0, <1>3, <1>4, <2>1 DEF RecordInv
  <1>6. SumInv'
    <2> DEFINE R == {p \in Proofs : rows[p] = Day(time)}
    <2>1. OnRecord' \subseteq R
      BY <1>0, <1>2 DEF OnRecord, Sound, CountInv, RecordInv, ClaimFits, RestInv
    <2>2. SettledToday' = Cardinality(R)
      BY <1>0 DEF SettledToday
    <2>3. IsFiniteSet(R)
      BY SetsAreFinite, FS_Subset
    <2> HIDE DEF R
    <2>4. Cardinality(OnRecord') <= SettledToday'
      BY <2>1, <2>2, <2>3, FewerOrOneMore
    <2>5. Cardinality(Live') <= Cardinality(Live) /\ Cardinality(Live') \in Nat
      BY <1>3, SetsAreFinite, FS_Subset, FS_CardinalityType
    <2>6. Cardinality(Coming') = 0
      BY <1>3, FS_EmptySet
    <2> QED BY <1>0, <2>4, <2>5, <2>6, SetsAreFinite DEF Sound, CountInv, SumInv
  <1> QED BY <1>5, <1>6 DEF CountInv

\* The steps that move no request on.
LEMMA OtherCounts ==
    ASSUME Sound, NEW c \in Calls,
           \/ \E p \in Proofs : Ask(c, p)
           \/ \E said \in Answers : Refuse(c, said)
           \/ GiveUp(c)
    PROVE  CountInv'
  <1>0. /\ call \in [Calls -> CallState] /\ call[c] \in CallState /\ TypeInv
        /\ "unavailable" \in Answers
    BY DEF Sound, BaseInv, TypeInv, Answers
  <1>1. UNCHANGED <<time, table, rows, claimedOn, miscounted, day, today>>
    BY DEF Ask, Refuse, GiveUp, counter, history
  <1>2. (\A d \in Calls \ {c} : call'[d] = call[d]) /\ StandsStill(c)
    <2>1. ASSUME NEW p \in Proofs, Ask(c, p)
          PROVE  (\A d \in Calls \ {c} : call'[d] = call[d]) /\ StandsStill(c)
      BY <1>0, <2>1 DEF Ask, NoCall, StandsStill
    <2>2. ASSUME NEW said \in Answers, Refuse(c, said)
          PROVE  (\A d \in Calls \ {c} : call'[d] = call[d]) /\ StandsStill(c)
      BY <1>0, <2>2, ToldFacts DEF Refuse, StandsStill
    <2>3. ASSUME GiveUp(c)
          PROVE  (\A d \in Calls \ {c} : call'[d] = call[d]) /\ StandsStill(c)
      <3>1. CASE call' = [call EXCEPT ![c].said = "unavailable"]
        BY <1>0, <3>1 DEF CallState, StandsStill
      <3>2. CASE call[c].pc = "asked" /\ call' = [call EXCEPT ![c] = Told(c, "unavailable")]
        BY <1>0, <3>2, ToldFacts DEF StandsStill
      <3> QED BY <2>3, <3>1, <3>2 DEF GiveUp
    <2> QED BY <2>1, <2>2, <2>3
  <1>3. \A d \in Calls : StandsStill(d)
    BY <1>2 DEF StandsStill
  <1> QED BY <1>1, <1>3, StillCounts

LEMMA NextCounts == Sound /\ [Next]_vars => CountInv'
  <1> SUFFICES ASSUME Sound, [Next]_vars PROVE CountInv'
    OBVIOUS
  <1>1. ASSUME NEW c \in Calls, CallStep(c) PROVE CountInv'
    <2>1. \A now \in Now : /\ ~FileClaim(c, now) /\ ~FileLate(c, now)
                           /\ ~AppendFails(c, now) /\ ~CompactFails(c, now)
      BY DEF Sound, FileClaim, FileLate, AppendFails, CompactFails
    <2> QED
      BY <1>1, <2>1, OtherCounts, FirstCountCounts, AdmitCounts, ClaimCounts, AnswerCounts,
         SettledCounts DEF CallStep
  <1>2. CASE Prune
    <2>1. /\ UNCHANGED <<time, rows, claimedOn, miscounted, day, today, call>>
      BY <1>2 DEF Prune, counter, history
    <2>2. \A p \in Proofs : table[p] # None /\ ~Forgotten(p) => table'[p] # None
      BY <1>2, PruneFacts DEF Sound
    <2>3. \A d \in Calls : StandsStill(d)
      BY <2>1 DEF StandsStill
    <2> QED BY <2>1, <2>2, <2>3, StillCounts
  <1>3. CASE Tick
    BY <1>3, TickCounts
  <1>4. CASE Crash
    BY <1>4, CrashCounts
  <1>5. ASSUME NEW now \in Now, Restart(now) PROVE CountInv'
    <2>1. /\ UNCHANGED <<time, rows, claimedOn, miscounted, day, today, call, table>>
      BY <1>5 DEF Restart, counter, history
    <2>3. \A d \in Calls : StandsStill(d)
      BY <2>1 DEF StandsStill
    <2> QED BY <2>1, <2>3, StillCounts
  <1>6. CASE UNCHANGED vars
    <2>1. /\ UNCHANGED <<time, rows, claimedOn, miscounted, day, today, call, table>>
      BY <1>6 DEF vars
    <2>3. \A d \in Calls : StandsStill(d)
      BY <2>1 DEF StandsStill
    <2> QED BY <2>1, <2>3, StillCounts
  <1> QED BY <1>1, <1>2, <1>3, <1>4, <1>5, <1>6 DEF Next

LEMMA InitCounts == Init => CountInv
  <1> SUFFICES ASSUME Init PROVE CountInv
    OBVIOUS
  <1>1. /\ \A p \in Proofs : claimedOn[p] = None /\ rows[p] = None
        /\ \A c \in Calls : call[c].pc = "idle"
        /\ day = None /\ today = 0 /\ time = 0 /\ None = -1
    BY DEF Init, NoCall, None
  <1>2. Day(time) \in Nat
    BY <1>1, DaysPass
  <1>3. \A c \in Calls, p \in Proofs : ~Settling(c, p) /\ ~Counted(c, p)
    BY <1>1 DEF Settling, Counted
  <1>4. OnRecord = {} /\ Live = {} /\ Coming = {}
    BY <1>1, <1>2 DEF OnRecord, Live, Coming
  <1>5. \A p \in Proofs : ClaimFits(p)
    BY <1>1, <1>3 DEF ClaimFits
  <1>6. RecordInv
    BY <1>1, <1>4, <1>5, SetsAreFinite DEF RecordInv
  <1>7. SettledToday \in Nat
    <2>1. Cardinality({p \in Proofs : rows[p] = Day(time)}) \in Nat
      <3>1. IsFiniteSet({p \in Proofs : rows[p] = Day(time)})
        BY SetsAreFinite, FS_Subset
      <3> QED BY <3>1, FS_CardinalityType
    <2> QED BY <1>1, <2>1 DEF SettledToday
  <1>8. SumInv
    BY <1>4, <1>7, SetsAreFinite, FS_EmptySet DEF SumInv
  <1> QED BY <1>6, <1>8 DEF CountInv

\* How claims are remembered is chosen once.
CountedHere == store = "facilitator" => CountInv

LEMMA CountAlways == Spec => []CountedHere
  <1>1. Init => CountedHere
    BY InitCounts DEF CountedHere
  <1>2. BaseInv /\ RestInv /\ CountedHere /\ [Next]_vars => CountedHere'
    <2> SUFFICES ASSUME BaseInv, RestInv, CountedHere, [Next]_vars, store' = "facilitator"
                 PROVE  CountInv'
      BY DEF CountedHere
    <2>1. store = "facilitator"
      BY NextKeepsClaims DEF KeepsClaims
    <2> QED BY <2>1, NextCounts DEF Sound, CountedHere
  <1>3. Spec => []BaseInv
    BY BaseAlways
  <1>4. Spec => []RestInv
    BY RestAlways
  <1> QED BY <1>1, <1>2, <1>3, <1>4, PTL DEF Spec

\* The facilitator's cap on a day (settledToday against dailyCap) is passed by
\* no more than the settlements under way together and those whose row a fault
\* lost, whatever crashes, restarts and days come between.
THEOREM DayBoundedAlways == Spec => []DayBounded
  <1>1. BaseInv /\ RestInv /\ CountedHere => DayBounded
    <2> SUFFICES ASSUME BaseInv, RestInv, CountedHere, store = "facilitator",
                        miscounted # Day(time)
                 PROVE  Cardinality({p \in Proofs : claimedOn[p] = Day(time)})
                          <= DailyCap + Cardinality(Calls) - 1 + Cardinality(Lost(Day(time)))
      BY DEF DayBounded
    <2> DEFINE C == {p \in Proofs : claimedOn[p] = Day(time)}
               L == Lost(Day(time))
    <2>1. C = Live \cup L /\ L \in SUBSET Proofs
      BY DEF Live, Lost
    <2>2. IsFiniteSet(L)
      BY <2>1, SetsAreFinite, FS_Subset
    <2>3. Cardinality(L) \in Nat
      BY <2>2, FS_CardinalityType
    <2>4. Cardinality(C) <= Cardinality(Live) + Cardinality(L) /\ Cardinality(C) \in Nat
      <3> HIDE DEF C, L
      <3>1. Cardinality(Live \cup L)
              = Cardinality(Live) + Cardinality(L) - Cardinality(Live \cap L)
        BY <2>2, SetsAreFinite, FS_Union
      <3>2. Cardinality(Live \cap L) \in Nat
        BY <2>2, FS_Intersection, FS_CardinalityType
      <3>3. Cardinality(C) \in Nat
        BY <2>1, <2>2, SetsAreFinite, FS_Union, FS_CardinalityType
      <3> QED BY <2>1, <2>3, <3>1, <3>2, <3>3, SetsAreFinite
    <2>5. Cardinality(Live) <= DailyCap + (Cardinality(Calls) - 1)
      BY SetsAreFinite DEF CountedHere, CountInv, SumInv
    <2> HIDE DEF C, L
    <2>6. Cardinality(C) <= DailyCap + Cardinality(Calls) - 1 + Cardinality(L)
      BY <2>3, <2>4, <2>5, SetsAreFinite
    <2> QED BY <2>6 DEF C, L
  <1>2. Spec => []BaseInv
    BY BaseAlways
  <1>3. Spec => []RestInv
    BY RestAlways
  <1>4. Spec => []CountedHere
    BY CountAlways
  <1> QED BY <1>1, <1>2, <1>3, <1>4, PTL

\* Every variable keeps its type, and the counter of the day never exceeds the
\* proofs there are.
THEOREM SaleTypeCorrect == Spec => []TypeOK
  <1>1. BaseInv /\ RestInv /\ CountedHere => TypeOK
    <2> SUFFICES ASSUME BaseInv, RestInv, CountedHere PROVE TypeOK
      OBVIOUS
    <2>0. /\ None = -1 /\ Day(time) \in Nat /\ Day(MaxTime) \in Nat
          /\ Day(time) <= Day(MaxTime)
          /\ MaxTime \in Nat /\ MaxFaults \in Nat
          /\ time \in Nat /\ time <= MaxTime
      BY DaysPass, SaleAssumption DEF None, SaleAssumption, BaseInv, TypeInv, RestInv
    <2>1. keys \in Claims /\ file \in Claims /\ table \in Claims
      BY DEF BaseInv, TypeInv, ClaimMap, Claims
    <2>2. rows \in [Proofs -> Days \cup {None}]
      <3>1. ASSUME NEW p \in Proofs PROVE rows[p] \in Days \cup {None}
        BY <2>0 DEF RestInv, CountedHere, CountInv, RecordInv, ClaimFits, Days
      <3> QED BY <3>1 DEF RestInv
    <2>3. day \in Days \cup {None}
      BY <2>0 DEF RestInv, CountedHere, CountInv, RecordInv, Days
    <2>4. today \in 0..Cardinality(Proofs)
      <3>1. Cardinality(Answered) <= Cardinality(Proofs)
        BY SetsAreFinite, FewerOrOneMore DEF Answered
      <3> QED BY <3>1, SetsAreFinite DEF RestInv, CountedHere, CountInv, RecordInv
    <2>5. call \in [Calls -> [pc : {"idle", "asked", "claiming", "claimed", "counted"},
                              proof : Proofs \cup {None}, at : Times, won : BOOLEAN,
                              said : Answers]]
      <3>1. ASSUME NEW c \in Calls
            PROVE  call[c] \in [pc : {"idle", "asked", "claiming", "claimed", "counted"},
                                proof : Proofs \cup {None}, at : Times, won : BOOLEAN,
                                said : Answers]
        <4>1. call[c] \in CallState /\ call[c].at <= MaxTime
          BY DEF BaseInv, TypeInv, RestInv, Placed
        <4> QED BY <2>0, <4>1 DEF CallState, Times
      <3> QED BY <3>1 DEF BaseInv, TypeInv
    <2>6. claimedOn \in [Proofs -> Days \cup {None}]
      BY <2>0 DEF BaseInv, TypeInv, RestInv, Days
    <2>7. miscounted \in Days \cup {None}
      BY <2>0 DEF RestInv, Days
    <2>8. /\ store \in {"file", "postgres", "facilitator"}
          /\ up \in BOOLEAN /\ torn \in BOOLEAN
          /\ since \in 0..CompactEvery
          /\ honoured \in [Proofs -> Nat]
      BY DEF BaseInv, TypeInv, RestInv
    <2>9. time \in Times /\ faults \in 0..MaxFaults
      BY <2>0 DEF BaseInv, TypeInv, RestInv, Times
    <2> QED BY <2>1, <2>2, <2>3, <2>4, <2>5, <2>6, <2>7, <2>8, <2>9 DEF TypeOK
  <1>2. Spec => []BaseInv
    BY BaseAlways
  <1>3. Spec => []RestInv
    BY RestAlways
  <1>4. Spec => []CountedHere
    BY CountAlways
  <1> QED BY <1>1, <1>2, <1>3, <1>4, PTL
=============================================================================
