----------------------------- MODULE ServicesProofs -----------------------------
(***************************************************************************)
(* What the services around the rail promise, for every number of buyers,  *)
(* payments, calls and jobs and every bound: a thinking run keeps to the   *)
(* budget it was paid for and says what it spent; the facilitator keeps    *)
(* its books and its sellers; the escrow's rows add up to its jobs; a move *)
(* to Arc loses no dollar; a search shows what was said; the page draws    *)
(* what its run recorded.                                                  *)
(***************************************************************************)
EXTENDS MCServices, FiniteSetTheorems, SequenceTheorems, TLAPS

(***************************************************************************)
(* Thinking runs (Think).  A session between two steps has a purchase under *)
(* way it can afford with a thought in reserve; the row of the timer's run *)
(* is never ahead of its session.                                          *)
(***************************************************************************)

Sessions ==
    [pc : {"off", "checking", "starting", "stopped", "threw", "dead", "over"} \cup Running,
     thinking : Nat, tools : Nat, last : Nat, found : SUBSET Tools,
     step : 1..(MaxSteps + 1), unreadable : Unread,
     tool : Tools \cup {NoTool}, late : BOOLEAN,
     why : Ends \cup {"none"}, lost : Nat]

ThinkRows ==
    [made : BOOLEAN, status : Ends \cup {"running", "failed"},
     shown : Nat, spent : Nat \cup {Unknown}, quiet : BOOLEAN, missed : BOOLEAN]

CountedIn(st) == st.thinking + st.tools

\* A session between two of its steps: a purchase under way is affordable with
\* a thought in reserve, and leaves that reserve.
SessionOK(s, st) ==
    /\ CountedIn(st) <= Budget(s)
    /\ st.pc \in {"asking", "searching", "fetching", "buying"} => st.step <= MaxSteps
    /\ st.pc \in {"off", "checking", "starting", "asking", "searching"} => st.tool = NoTool
    /\ st.pc = "buying" =>
         /\ st.tool \in Tools
         /\ Price[st.tool] + Reserve(st.last) <= Budget(s) - CountedIn(st)
    /\ st.pc = "loop" /\ st.tool # NoTool => Reserve(st.last) <= Budget(s) - CountedIn(st)
    /\ st.pc = "stopped" => st.why \in Ends

\* The row of the timer's run: it has what was counted or less, and a verdict
\* only when the run is over, and then the run's.
RowOK(r, t) ==
    /\ r.shown <= CountedIn(t)
    /\ r.status \in {"running", "failed"} => r.spent = Unknown
    /\ r.status # "running" => t.pc = "over"
    /\ r.status \in Ends => r.status = t.why /\ r.spent = CountedIn(t)
    /\ t.pc \in {"off", "starting"} => r.shown = 0

OrderOK(o) ==
    o.pc \in {"billed", "settled"} => o.bill >= o.spent + UptoFee /\ o.bill <= UptoCeiling

SessionsOK == \A s \in Services : SessionOK(s, session[s])

ThinkInv ==
    /\ ThinkTypeOK
    /\ SessionsOK
    /\ RowOK(row, session["timer"])
    /\ \A b \in Buyers : OrderOK(order[b])

-----------------------------------------------------------------------------
(* Amounts, and new sessions. *)

LEMMA BudgetIsNatural == ASSUME NEW s PROVE Budget(s) \in Nat
<1>1. UptoCeiling - UptoFee \in Nat
  BY ThinkAssumption
<1> QED
  BY <1>1, ThinkAssumption DEF Budget

LEMMA ReserveIsNatural == ASSUME NEW n \in Nat PROVE Reserve(n) \in Nat
BY DEF Reserve

LEMMA TypesOfThink ==
    ASSUME ThinkTypeOK
    PROVE  /\ session \in [Services -> Sessions] /\ row \in ThinkRows
           /\ hosted \subseteq Services
BY ThinkAssumption DEF ThinkTypeOK, Sessions, ThinkRows

\* Nothing is counted in a new session, wherever it is.
LEMMA FreshSession ==
    /\ NewSession \in Sessions /\ NewSession.pc = "off" /\ CountedIn(NewSession) = 0
    /\ NewSession.tool = NoTool
    /\ \A s \in Services : SessionOK(s, NewSession)
<1>1. 1 \in 1..(MaxSteps + 1)
  BY ThinkAssumption
<1>2. 0 \in Unread /\ 0 \in Nat
  BY DEF Unread
<1>3. NewSession \in Sessions
  BY <1>1, <1>2 DEF NewSession, Sessions
<1>4. /\ NewSession.thinking = 0 /\ NewSession.tools = 0 /\ NewSession.tool = NoTool
      /\ NewSession.pc = "off"
  BY DEF NewSession
<1>5. CountedIn(NewSession) = 0
  BY <1>4 DEF CountedIn
<1> QED
  BY <1>3, <1>4, <1>5, BudgetIsNatural DEF SessionOK

LEMMA NewSessionFits ==
    ASSUME NEW s \in Services, NEW pc \in {"checking", "starting", "loop"}
    PROVE  LET st == [NewSession EXCEPT !.pc = pc]
           IN st \in Sessions /\ SessionOK(s, st) /\ CountedIn(st) = 0 /\ st.pc = pc
<1> DEFINE st == [NewSession EXCEPT !.pc = pc]
<1>1. /\ st.thinking = 0 /\ st.tools = 0 /\ st.tool = NoTool
  BY DEF NewSession
<1>2. st \in Sessions /\ st.pc = pc
  BY FreshSession DEF Sessions, Running
<1>3. CountedIn(st) = 0
  BY <1>1 DEF CountedIn
<1> HIDE DEF st
<1>4. SessionOK(s, st)
  BY <1>1, <1>2, <1>3, BudgetIsNatural DEF SessionOK
<1> QED
  BY <1>2, <1>3, <1>4 DEF st

\* One session moves.
LEMMA OneSessionMoves ==
    ASSUME ThinkTypeOK, SessionsOK, NEW s \in Services, NEW st \in Sessions,
           SessionOK(s, st), Become(s, st)
    PROVE  /\ session' \in [Services -> Sessions] /\ session'[s] = st
           /\ \A u \in Services : u # s => session'[u] = session[u]
           /\ SessionsOK'
<1>1. /\ session' \in [Services -> Sessions] /\ session'[s] = st
      /\ \A u \in Services : u # s => session'[u] = session[u]
  BY TypesOfThink DEF Become
<1> QED
  BY <1>1 DEF SessionsOK

\* One write on the row, done or skipped.
LEMMA WriteTypes ==
    ASSUME row \in ThinkRows, thinkFaults \in 0..MaxThinkFaults,
           NEW r \in ThinkRows, Write(r)
    PROVE  /\ row' \in ThinkRows /\ thinkFaults' \in 0..MaxThinkFaults
           /\ \/ row' = [r EXCEPT !.quiet = FALSE]
              \/ row' = [row EXCEPT !.missed = TRUE]
<1>1. CASE row' = [r EXCEPT !.quiet = FALSE] /\ UNCHANGED thinkFaults
  BY <1>1 DEF ThinkRows
<1>2. CASE row' = [row EXCEPT !.missed = TRUE] /\ ThinkFault
  <2>1. thinkFaults' \in 0..MaxThinkFaults
    BY <1>2, ThinkAssumption DEF ThinkFault
  <2> QED
    BY <1>2, <2>1 DEF ThinkRows
<1> QED
  BY <1>1, <1>2 DEF Write

\* A step of a run lands: what is shown grows by at most what is counted.
LEMMA RowFollows ==
    ASSUME ThinkInv, NEW s \in Services, NEW st \in Sessions, NEW cost \in Nat,
           session[s].pc \in Running, st.pc \notin {"off", "starting"},
           CountedIn(st) = CountedIn(session[s]) + cost,
           \/ Lands(s, cost)
           \/ row' \in {row, [row EXCEPT !.quiet = FALSE]} /\ thinkFaults' \in 0..MaxThinkFaults
    PROVE  /\ row' \in ThinkRows /\ thinkFaults' \in 0..MaxThinkFaults
           /\ s # "timer" => RowOK(row', session["timer"])
           /\ s = "timer" => RowOK(row', st)
<1> DEFINE t == session["timer"]
           r == [row EXCEPT !.shown = @ + cost]
<1>1. /\ row \in ThinkRows /\ thinkFaults \in 0..MaxThinkFaults /\ RowOK(row, t)
      /\ t \in Sessions
  BY TypesOfThink DEF ThinkInv, ThinkTypeOK, Services
<1>2. row.shown \in Nat /\ row.shown + cost \in Nat /\ CountedIn(t) \in Nat
  BY <1>1 DEF ThinkRows, Sessions, CountedIn
<1>3. r \in ThinkRows
  BY <1>1, <1>2 DEF ThinkRows
<1>4. /\ row' \in ThinkRows /\ thinkFaults' \in 0..MaxThinkFaults
      /\ \/ row' \in {row, [row EXCEPT !.quiet = FALSE], [row EXCEPT !.missed = TRUE]}
         \/ s = "timer" /\ row' = [r EXCEPT !.quiet = FALSE]
  <2>1. CASE Lands(s, cost)
    <3>1. CASE s = "timer"
      <4>1. Write(r)
        BY <2>1, <3>1 DEF Lands
      <4> HIDE DEF r
      <4> QED
        BY <1>1, <1>3, <3>1, <4>1, WriteTypes
    <3>2. CASE s # "timer"
      BY <1>1, <2>1, <3>2 DEF Lands
    <3> QED
      BY <3>1, <3>2
  <2>2. CASE row' \in {row, [row EXCEPT !.quiet = FALSE]} /\ thinkFaults' \in 0..MaxThinkFaults
    BY <1>1, <2>2 DEF ThinkRows
  <2> QED
    BY <2>1, <2>2
<1>5. /\ row'.status = row.status /\ row'.spent = row.spent
      /\ \/ row'.shown = row.shown
         \/ s = "timer" /\ row'.shown = row.shown + cost
  BY <1>1, <1>4 DEF ThinkRows
<1>6. CASE s # "timer"
  BY <1>1, <1>5, <1>6, <1>4 DEF RowOK
<1>7. CASE s = "timer"
  <2>1. row.status = "running"
    BY <1>1, <1>7 DEF RowOK, Running
  <2>2. row.spent = Unknown
    BY <1>1, <2>1 DEF RowOK
  <2>3. row'.shown <= CountedIn(st)
    BY <1>1, <1>2, <1>5, <1>7 DEF RowOK
  <2> QED
    BY <1>4, <1>5, <1>7, <2>1, <2>2, <2>3 DEF RowOK, Ends
<1> QED
  BY <1>4, <1>6, <1>7

\* A step of a run, whatever it is.
LEMMA RunMoves ==
    ASSUME ThinkInv, NEW s \in Services, NEW st \in Sessions, NEW cost \in Nat,
           session[s].pc \in Running, st.pc \notin {"off", "starting"},
           CountedIn(st) = CountedIn(session[s]) + cost, SessionOK(s, st),
           Become(s, st), wallet' \in Nat, UNCHANGED <<hosted, busy, hirer, order>>,
           \/ Lands(s, cost)
           \/ row' \in {row, [row EXCEPT !.quiet = FALSE]} /\ thinkFaults' \in 0..MaxThinkFaults
    PROVE  ThinkInv'
<1>1. ThinkTypeOK /\ SessionsOK
  BY DEF ThinkInv
<1>2. /\ session' \in [Services -> Sessions] /\ session'[s] = st
      /\ \A u \in Services : u # s => session'[u] = session[u]
      /\ SessionsOK'
  BY <1>1, OneSessionMoves
<1>3. /\ row' \in ThinkRows /\ thinkFaults' \in 0..MaxThinkFaults
      /\ s # "timer" => RowOK(row', session["timer"])
      /\ s = "timer" => RowOK(row', st)
  BY RowFollows
<1>4. RowOK(row', session'["timer"])
  BY <1>2, <1>3 DEF Services
<1>5. ThinkTypeOK'
  BY <1>1, <1>2, <1>3 DEF ThinkTypeOK, Sessions, ThinkRows
<1>6. \A b \in Buyers : OrderOK(order'[b])
  BY DEF ThinkInv
<1> QED
  BY <1>2, <1>4, <1>5, <1>6 DEF ThinkInv

-----------------------------------------------------------------------------
(* The steps of a session. *)

\* A session that ended has nothing left to keep.
LEMMA EndedFits ==
    ASSUME NEW s \in Services, NEW st, CountedIn(st) <= Budget(s),
           st.pc \in {"stopped", "threw", "dead", "over"},
           st.pc = "stopped" => st.why \in Ends
    PROVE  SessionOK(s, st)
BY DEF SessionOK

LEMMA StoppedFits ==
    ASSUME NEW s \in Services, NEW st \in Sessions, CountedIn(st) <= Budget(s), NEW why \in Ends
    PROVE  /\ Stopped(st, why) \in Sessions /\ Stopped(st, why).pc = "stopped"
           /\ CountedIn(Stopped(st, why)) = CountedIn(st)
           /\ SessionOK(s, Stopped(st, why))
<1>1. /\ Stopped(st, why) \in Sessions /\ Stopped(st, why).pc = "stopped"
      /\ Stopped(st, why).thinking = st.thinking /\ Stopped(st, why).tools = st.tools
      /\ Stopped(st, why).why = why
  BY DEF Stopped, Sessions
<1>2. CountedIn(Stopped(st, why)) = CountedIn(st)
  BY <1>1 DEF CountedIn
<1> QED
  BY <1>1, <1>2, EndedFits

\* The next turn begins with the reserve that the last one left.
LEMMA NextTurnFits ==
    ASSUME NEW s \in Services, NEW st \in Sessions, CountedIn(st) <= Budget(s),
           st.step <= MaxSteps,
           st.tool = NoTool \/ Reserve(st.last) <= Budget(s) - CountedIn(st)
    PROVE  /\ NextTurn(st) \in Sessions /\ NextTurn(st).pc = "loop"
           /\ CountedIn(NextTurn(st)) = CountedIn(st)
           /\ SessionOK(s, NextTurn(st))
<1> DEFINE n == st.step + 1
           x == [st EXCEPT !.pc = "loop", !.step = n]
<1>1. n \in 1..(MaxSteps + 1)
  BY ThinkAssumption DEF Sessions
<1>2. NextTurn(st) = x
  BY DEF NextTurn
<1> HIDE DEF n
<1>3. /\ x \in Sessions /\ x.pc = "loop" /\ x.tool = st.tool /\ x.last = st.last
      /\ x.thinking = st.thinking /\ x.tools = st.tools
  BY <1>1 DEF Sessions, Running
<1> HIDE DEF x
<1>4. CountedIn(x) = CountedIn(st)
  BY <1>3 DEF CountedIn
<1>5. SessionOK(s, x)
  BY <1>3, <1>4 DEF SessionOK
<1> QED
  BY <1>2, <1>3, <1>4, <1>5

\* Where a reply leads, a purchase only if it can be afforded.
LEMMA AfterThoughtFits ==
    ASSUME NEW s \in Services, NEW st \in Sessions, CountedIn(st) <= Budget(s),
           st.pc = "asking", st.step <= MaxSteps, st.tool = NoTool, NEW reply \in Replies
    PROVE  LET x == AfterThought(s, st, reply)
           IN /\ x \in Sessions /\ x.pc \notin {"off", "starting"}
              /\ CountedIn(x) = CountedIn(st) /\ SessionOK(s, x)
<1> DEFINE x == AfterThought(s, st, reply)
           Fits(y) == /\ y \in Sessions /\ y.pc \notin {"off", "starting"}
                      /\ CountedIn(y) = CountedIn(st) /\ SessionOK(s, y)
           read == [st EXCEPT !.unreadable = 0]
<1>1. Fits(Stopped(st, "brain")) /\ Fits(Stopped(st, "answered"))
  BY StoppedFits DEF Ends
<1>2. ASSUME NEW n \in Unread PROVE Fits(NextTurn([st EXCEPT !.unreadable = n]))
  <2> DEFINE y == [st EXCEPT !.unreadable = n]
  <2>1. /\ y \in Sessions /\ y.step = st.step /\ y.tool = st.tool
        /\ y.thinking = st.thinking /\ y.tools = st.tools
    BY DEF Sessions
  <2> HIDE DEF y
  <2>2. CountedIn(y) = CountedIn(st)
    BY <2>1 DEF CountedIn
  <2>3. /\ NextTurn(y) \in Sessions /\ NextTurn(y).pc = "loop"
        /\ CountedIn(NextTurn(y)) = CountedIn(y) /\ SessionOK(s, NextTurn(y))
    BY <2>1, <2>2, NextTurnFits
  <2> QED
    BY <2>2, <2>3 DEF y
<1>3. 0 \in Unread /\ (st.unreadable = 0 => st.unreadable + 1 \in Unread)
  BY DEF Unread
<1>4. Fits([st EXCEPT !.pc = "threw"])
  <2> DEFINE y == [st EXCEPT !.pc = "threw"]
  <2>1. y \in Sessions /\ y.pc = "threw" /\ y.thinking = st.thinking /\ y.tools = st.tools
    BY DEF Sessions
  <2> HIDE DEF y
  <2>2. CountedIn(y) = CountedIn(st)
    BY <2>1 DEF CountedIn
  <2>3. SessionOK(s, y)
    BY <2>1, <2>2, EndedFits
  <2> QED
    BY <2>1, <2>2, <2>3 DEF y
<1>5. Fits([st EXCEPT !.pc = "searching", !.unreadable = 0])
  <2> DEFINE y == [st EXCEPT !.pc = "searching", !.unreadable = 0]
  <2>1. /\ y \in Sessions /\ y.pc = "searching" /\ y.step = st.step /\ y.tool = st.tool
        /\ y.thinking = st.thinking /\ y.tools = st.tools
    BY <1>3 DEF Sessions, Running
  <2> HIDE DEF y
  <2>2. CountedIn(y) = CountedIn(st)
    BY <2>1 DEF CountedIn
  <2>3. SessionOK(s, y)
    BY <2>1, <2>2 DEF SessionOK
  <2> QED
    BY <2>1, <2>2, <2>3 DEF y
<1>6. ASSUME reply \in Tools, Price[reply] = 0 \/ Affordable(s, st, reply),
             NEW pc \in {"fetching", "buying"}, pc = "buying" => Price[reply] # 0
      PROVE  Fits([st EXCEPT !.pc = pc, !.tool = reply, !.unreadable = 0])
  <2> DEFINE y == [st EXCEPT !.pc = pc, !.tool = reply, !.unreadable = 0]
  <2>1. /\ y \in Sessions /\ y.pc = pc /\ y.step = st.step /\ y.tool = reply
        /\ y.thinking = st.thinking /\ y.tools = st.tools /\ y.last = st.last
    BY <1>3, <1>6 DEF Sessions, Running
  <2> HIDE DEF y
  <2>2. CountedIn(y) = CountedIn(st)
    BY <2>1 DEF CountedIn
  <2>3. pc = "buying" => Price[reply] + Reserve(st.last) <= Budget(s) - CountedIn(st)
    BY <1>6 DEF Affordable, CountedIn
  <2>4. SessionOK(s, y)
    BY <1>6, <2>1, <2>2, <2>3 DEF SessionOK
  <2> QED
    BY <2>1, <2>2, <2>4 DEF y
<1>7. Price[reply] \in Nat \/ reply \notin Tools
  BY ThinkAssumption
<1>8. \A a \in Words : reply = a => reply \notin Tools
  BY ThinkAssumption
<1> HIDE DEF Fits
<1>9. Fits(x)
  <2>1. CASE reply = "none"
    BY <1>1, <1>8, <2>1 DEF AfterThought, Words
  <2>2. CASE reply = "unreadable"
    BY <1>1, <1>2, <1>3, <1>8, <2>2 DEF AfterThought, Words, Tolerated
  <2>3. CASE reply = "answer"
    BY <1>1, <1>8, <2>3 DEF AfterThought, Words
  <2>4. CASE reply = "search"
    BY <1>5, <1>8, <2>4 DEF AfterThought, Words
  <2>5. CASE reply = "other"
    BY <1>2, <1>3, <1>8, <2>5 DEF AfterThought, Words
  <2>6. CASE reply = "bad price"
    BY <1>2, <1>3, <1>4, <1>8, <2>6 DEF AfterThought, Words
  <2>7. CASE reply \in Tools
    <3> DEFINE pc == IF Price[reply] = 0 THEN "fetching" ELSE "buying"
               y == [st EXCEPT !.pc = pc, !.tool = reply, !.unreadable = 0]
               refused == ~Listed(st, reply) \/ (Price[reply] > 0 /\ ~Affordable(s, st, reply))
    <3>1. reply \notin Words
      BY <1>8, <2>7
    <3>2. x = IF refused THEN NextTurn([st EXCEPT !.unreadable = 0]) ELSE y
      BY <2>7, <3>1 DEF AfterThought, Words
    <3>3. CASE refused
      BY <1>2, <1>3, <3>2, <3>3
    <3>4. CASE ~refused
      <4>1. Price[reply] = 0 \/ Affordable(s, st, reply)
        BY <1>7, <2>7, <3>4
      <4>2. pc \in {"fetching", "buying"} /\ (pc = "buying" => Price[reply] # 0)
        OBVIOUS
      <4> HIDE DEF pc
      <4>3. Fits(y)
        BY <1>6, <2>7, <4>1, <4>2
      <4> HIDE DEF y, refused
      <4> QED
        BY <3>2, <3>4, <4>3
    <3> QED
      BY <3>3, <3>4
  <2> QED
    BY <2>1, <2>2, <2>3, <2>4, <2>5, <2>6, <2>7 DEF Replies, Words
<1> QED
  BY <1>9 DEF Fits

LEMMA SessionFacts ==
    ASSUME ThinkInv, NEW s \in Services
    PROVE  /\ session[s] \in Sessions /\ SessionOK(s, session[s])
           /\ CountedIn(session[s]) \in Nat /\ Budget(s) \in Nat
           /\ CountedIn(session[s]) <= Budget(s)
           /\ Left(s) = Budget(s) - CountedIn(session[s])
           /\ wallet \in Nat /\ thinkFaults \in 0..MaxThinkFaults
<1>1. session[s] \in Sessions
  BY TypesOfThink DEF ThinkInv
<1>2. SessionOK(s, session[s])
  BY DEF ThinkInv, SessionsOK
<1>3. CountedIn(session[s]) \in Nat
  BY <1>1 DEF CountedIn, Sessions
<1>4. Left(s) = Budget(s) - CountedIn(session[s])
  BY DEF Left, Counted, CountedIn
<1> QED
  BY <1>1, <1>2, <1>3, <1>4, BudgetIsNatural DEF SessionOK, ThinkInv, ThinkTypeOK

\* The cap of a thought is within what is left.
LEMMA CapWithinLeft ==
    ASSUME ThinkInv, NEW s \in Services, NEW paid \in Nat, paid <= Cap(s)
    PROVE  CountedIn(session[s]) + paid <= Budget(s)
<1>1. /\ CountedIn(session[s]) \in Nat /\ Budget(s) \in Nat
      /\ Left(s) = Budget(s) - CountedIn(session[s])
  BY SessionFacts
<1>2. Cap(s) <= Left(s)
  BY <1>1, ThinkAssumption DEF Cap
<1>3. Cap(s) \in Int /\ Left(s) \in Int
  BY <1>1, ThinkAssumption DEF Cap
<1> QED
  BY <1>1, <1>2, <1>3

LEMMA FaultTypes ==
    ASSUME thinkFaults \in 0..MaxThinkFaults, ThinkFault
    PROVE  thinkFaults' \in 0..MaxThinkFaults
BY ThinkAssumption DEF ThinkFault

LEMMA ThinkStopShort == ASSUME ThinkInv, NEW s \in Services, StopShort(s) PROVE ThinkInv'
<1> DEFINE st == session[s]
<1>1. /\ st \in Sessions /\ CountedIn(st) \in Nat /\ CountedIn(st) <= Budget(s)
      /\ thinkFaults \in 0..MaxThinkFaults /\ wallet \in Nat
  BY SessionFacts
<1>2. PICK why \in Ends : Become(s, Stopped(st, why))
  BY DEF StopShort, Ends
<1>3. /\ Stopped(st, why) \in Sessions /\ Stopped(st, why).pc = "stopped"
      /\ CountedIn(Stopped(st, why)) = CountedIn(st) + 0 /\ SessionOK(s, Stopped(st, why))
  BY <1>1, StoppedFits
<1>4. /\ st.pc \in Running
      /\ wallet' \in Nat /\ UNCHANGED <<hosted, busy, hirer, order>> /\ row' = row
      /\ thinkFaults' \in 0..MaxThinkFaults
  BY <1>1 DEF StopShort, Running
<1> QED
  BY <1>2, <1>3, <1>4, RunMoves

LEMMA ThinkAskBrain == ASSUME ThinkInv, NEW s \in Services, AskBrain(s) PROVE ThinkInv'
<1> DEFINE st == session[s]
           x == [st EXCEPT !.pc = "asking", !.tool = NoTool]
<1>1. /\ st \in Sessions /\ CountedIn(st) \in Nat /\ CountedIn(st) <= Budget(s)
      /\ wallet \in Nat
  BY SessionFacts
<1>2. /\ x \in Sessions /\ x.pc = "asking" /\ x.tool = NoTool /\ x.step = st.step
      /\ x.thinking = st.thinking /\ x.tools = st.tools
  BY <1>1 DEF Sessions, Running
<1>3. st.pc \in Running /\ st.step <= MaxSteps
  BY DEF AskBrain, Running
<1>4. Become(s, x) /\ Lands(s, 0) /\ UNCHANGED <<hosted, wallet, busy, hirer, order>>
  BY DEF AskBrain
<1> HIDE DEF x
<1>5. CountedIn(x) = CountedIn(st) + 0
  BY <1>1, <1>2 DEF CountedIn
<1>6. SessionOK(s, x)
  BY <1>1, <1>2, <1>3, <1>5 DEF SessionOK
<1> QED
  BY <1>1, <1>2, <1>3, <1>4, <1>5, <1>6, RunMoves

LEMMA ThinkThoughtRefused == ASSUME ThinkInv, NEW s \in Services, ThoughtRefused(s) PROVE ThinkInv'
<1> DEFINE st == session[s]
           x == Stopped(st, "budget")
<1>1. /\ st \in Sessions /\ CountedIn(st) \in Nat /\ CountedIn(st) <= Budget(s)
      /\ wallet \in Nat
  BY SessionFacts
<1>2. /\ x \in Sessions /\ x.pc = "stopped" /\ CountedIn(x) = CountedIn(st) + 0 /\ SessionOK(s, x)
  BY <1>1, StoppedFits DEF Ends
<1>3. st.pc \in Running /\ Become(s, x) /\ Lands(s, 0)
      /\ UNCHANGED <<hosted, wallet, busy, hirer, order>>
  BY DEF ThoughtRefused, Running
<1> HIDE DEF x
<1> QED
  BY <1>1, <1>2, <1>3, RunMoves

LEMMA ThinkThought ==
    ASSUME ThinkInv, NEW s \in Services, NEW paid \in 0..ThoughtCeiling,
           NEW reply \in Replies, Thought(s, paid, reply)
    PROVE  ThinkInv'
<1> DEFINE st == session[s]
           thinking == st.thinking + paid
           last == IF paid > 0 THEN paid ELSE st.last
           y == [st EXCEPT !.thinking = thinking, !.last = last]
           x == AfterThought(s, y, reply)
<1>1. /\ st \in Sessions /\ CountedIn(st) \in Nat /\ Budget(s) \in Nat
      /\ wallet \in Nat /\ SessionOK(s, st)
  BY SessionFacts
<1>2. paid \in Nat /\ paid <= Cap(s) /\ paid <= wallet /\ st.pc = "asking"
  BY ThinkAssumption DEF Thought
<1>3. st.step <= MaxSteps /\ st.tool = NoTool
  BY <1>1, <1>2 DEF SessionOK
<1>4. thinking \in Nat /\ last \in Nat
  BY <1>1, <1>2 DEF Sessions
<1>5. Become(s, x) /\ Lands(s, paid) /\ UNCHANGED <<hosted, busy, hirer, order>>
  BY DEF Thought
<1>6. wallet' \in Nat
  <2>1. wallet' = wallet - paid
    BY DEF Thought
  <2> QED
    BY <1>1, <1>2, <2>1
<1>7. st.thinking \in Nat /\ st.tools \in Nat
  BY <1>1 DEF Sessions
<1>8. CountedIn(st) + paid <= Budget(s)
  BY <1>2, CapWithinLeft
<1>9. thinking + st.tools = CountedIn(st) + paid
  BY <1>2, <1>7 DEF CountedIn
<1> HIDE DEF thinking, last
<1>10. /\ y \in Sessions /\ y.pc = "asking" /\ y.tool = NoTool /\ y.step = st.step
       /\ y.thinking = thinking /\ y.tools = st.tools
  BY <1>1, <1>2, <1>3, <1>4 DEF Sessions
<1> HIDE DEF y
<1>11. CountedIn(y) = CountedIn(st) + paid /\ CountedIn(y) <= Budget(s)
  BY <1>8, <1>9, <1>10 DEF CountedIn
<1>12. /\ x \in Sessions /\ x.pc \notin {"off", "starting"}
       /\ CountedIn(x) = CountedIn(y) /\ SessionOK(s, x)
  BY <1>3, <1>10, <1>11, AfterThoughtFits
<1>13. st.pc \in Running
  BY <1>2 DEF Running
<1> HIDE DEF x
<1> QED
  BY <1>2, <1>5, <1>6, <1>11, <1>12, <1>13, RunMoves

LEMMA ThinkThoughtLost ==
    ASSUME ThinkInv, NEW s \in Services, NEW took \in 0..ThoughtCeiling, ThoughtLost(s, took)
    PROVE  ThinkInv'
<1> DEFINE st == session[s]
           lost == st.lost + took
           y == [st EXCEPT !.lost = lost]
           x == Stopped(y, "brain")
<1>1. /\ st \in Sessions /\ CountedIn(st) \in Nat /\ CountedIn(st) <= Budget(s)
      /\ wallet \in Nat /\ thinkFaults \in 0..MaxThinkFaults
  BY SessionFacts
<1>2. took \in Nat /\ took <= wallet /\ wallet' = wallet - took /\ st.pc \in Running
  BY ThinkAssumption DEF ThoughtLost, Running
<1>3. wallet' \in Nat /\ lost \in Nat
  BY <1>1, <1>2 DEF Sessions
<1>4. /\ Become(s, x) /\ UNCHANGED <<hosted, busy, hirer, order>>
      /\ row' \in {row, [row EXCEPT !.quiet = FALSE]}
  BY DEF ThoughtLost
<1>5. thinkFaults' \in 0..MaxThinkFaults
  BY <1>1, FaultTypes DEF ThoughtLost
<1> HIDE DEF lost
<1>6. y \in Sessions /\ y.thinking = st.thinking /\ y.tools = st.tools
  BY <1>1, <1>3 DEF Sessions
<1> HIDE DEF y
<1>7. CountedIn(y) = CountedIn(st)
  BY <1>6 DEF CountedIn
<1>8. /\ x \in Sessions /\ x.pc = "stopped" /\ CountedIn(x) = CountedIn(st) + 0 /\ SessionOK(s, x)
  BY <1>1, <1>6, <1>7, StoppedFits DEF Ends
<1> HIDE DEF x
<1> QED
  BY <1>2, <1>3, <1>4, <1>5, <1>8, RunMoves

LEMMA ThinkSearched ==
    ASSUME ThinkInv, NEW s \in Services, NEW hits \in SUBSET Tools, Searched(s, hits)
    PROVE  ThinkInv'
<1> DEFINE st == session[s]
           offered == st.found \cup hits
           y == [st EXCEPT !.found = offered]
           x == NextTurn(y)
<1>1. /\ st \in Sessions /\ CountedIn(st) \in Nat /\ CountedIn(st) <= Budget(s)
      /\ wallet \in Nat /\ SessionOK(s, st)
  BY SessionFacts
<1>2. /\ st.pc = "searching" /\ Become(s, x) /\ Lands(s, 0)
      /\ UNCHANGED <<hosted, wallet, busy, hirer, order>>
  BY DEF Searched
<1>3. st.pc \in Running /\ st.step <= MaxSteps /\ st.tool = NoTool
  BY <1>1, <1>2 DEF Running, SessionOK
<1>4. offered \in SUBSET Tools
  BY <1>1 DEF Sessions
<1> HIDE DEF offered
<1>5. /\ y \in Sessions /\ y.thinking = st.thinking /\ y.tools = st.tools
      /\ y.step = st.step /\ y.tool = st.tool
  BY <1>1, <1>4 DEF Sessions
<1> HIDE DEF y
<1>6. CountedIn(y) = CountedIn(st)
  BY <1>5 DEF CountedIn
<1>7. /\ x \in Sessions /\ x.pc = "loop" /\ CountedIn(x) = CountedIn(st) + 0 /\ SessionOK(s, x)
  BY <1>1, <1>3, <1>5, <1>6, NextTurnFits
<1> HIDE DEF x
<1> QED
  BY <1>1, <1>2, <1>3, <1>7, RunMoves

LEMMA ThinkFetched == ASSUME ThinkInv, NEW s \in Services, Fetched(s) PROVE ThinkInv'
<1> DEFINE st == session[s]
           y == [st EXCEPT !.tool = NoTool]
           x == NextTurn(y)
<1>1. /\ st \in Sessions /\ CountedIn(st) \in Nat /\ CountedIn(st) <= Budget(s)
      /\ wallet \in Nat /\ SessionOK(s, st)
  BY SessionFacts
<1>2. /\ st.pc = "fetching" /\ Become(s, x) /\ Lands(s, 0)
      /\ UNCHANGED <<hosted, wallet, busy, hirer, order>>
  BY DEF Fetched
<1>3. st.pc \in Running /\ st.step <= MaxSteps
  BY <1>1, <1>2 DEF Running, SessionOK
<1>4. /\ y \in Sessions /\ y.thinking = st.thinking /\ y.tools = st.tools
      /\ y.step = st.step /\ y.tool = NoTool
  BY <1>1 DEF Sessions
<1> HIDE DEF y
<1>5. CountedIn(y) = CountedIn(st)
  BY <1>4 DEF CountedIn
<1>6. /\ x \in Sessions /\ x.pc = "loop" /\ CountedIn(x) = CountedIn(st) + 0 /\ SessionOK(s, x)
  BY <1>1, <1>3, <1>4, <1>5, NextTurnFits
<1> HIDE DEF x
<1> QED
  BY <1>1, <1>2, <1>3, <1>6, RunMoves

\* A purchase costs at most its listed price, and the reserve is still there.
LEMMA ThinkBought ==
    ASSUME ThinkInv, NEW s \in Services, NEW paid \in 0..UptoCeiling, Bought(s, paid)
    PROVE  ThinkInv'
<1> DEFINE st == session[s]
           tools == st.tools + paid
           y == [st EXCEPT !.tools = tools]
           x == NextTurn(y)
<1>1. /\ st \in Sessions /\ CountedIn(st) \in Nat /\ Budget(s) \in Nat
      /\ wallet \in Nat /\ SessionOK(s, st)
  BY SessionFacts
<1>2. /\ st.pc = "buying" /\ paid <= Price[st.tool] /\ paid <= wallet /\ wallet' = wallet - paid
      /\ Become(s, x) /\ Lands(s, paid) /\ UNCHANGED <<hosted, busy, hirer, order>>
  BY DEF Bought
<1>3. paid \in Nat
  BY ThinkAssumption
<1>4. /\ st.pc \in Running /\ st.step <= MaxSteps /\ st.tool \in Tools
      /\ Price[st.tool] + Reserve(st.last) <= Budget(s) - CountedIn(st)
  BY <1>1, <1>2 DEF Running, SessionOK
<1>5. st.tools \in Nat /\ st.thinking \in Nat /\ st.last \in Nat /\ Price[st.tool] \in Nat
  BY <1>1, <1>4, ThinkAssumption DEF Sessions
<1>6. Reserve(st.last) \in Nat
  BY <1>5, ReserveIsNatural
<1>7. /\ tools \in Nat /\ wallet' \in Nat /\ st.thinking + tools = CountedIn(st) + paid
  BY <1>1, <1>2, <1>3, <1>5 DEF CountedIn
<1>8. /\ CountedIn(st) + paid <= Budget(s)
      /\ Reserve(st.last) <= Budget(s) - (CountedIn(st) + paid)
  BY <1>1, <1>2, <1>3, <1>4, <1>5, <1>6
<1> HIDE DEF tools
<1>9. /\ y \in Sessions /\ y.thinking = st.thinking /\ y.tools = tools
      /\ y.step = st.step /\ y.tool = st.tool /\ y.last = st.last
  BY <1>1, <1>7 DEF Sessions
<1> HIDE DEF y
<1>10. CountedIn(y) = CountedIn(st) + paid
  BY <1>7, <1>9 DEF CountedIn
<1>11. /\ x \in Sessions /\ x.pc = "loop" /\ CountedIn(x) = CountedIn(st) + paid /\ SessionOK(s, x)
  BY <1>4, <1>8, <1>9, <1>10, NextTurnFits
<1> HIDE DEF x
<1> QED
  BY <1>2, <1>3, <1>4, <1>7, <1>11, RunMoves

LEMMA ThinkBuyLost ==
    ASSUME ThinkInv, NEW s \in Services, NEW took \in 0..UptoCeiling, BuyLost(s, took)
    PROVE  ThinkInv'
<1> DEFINE st == session[s]
           lost == st.lost + took
           y == [st EXCEPT !.lost = lost]
           x == NextTurn(y)
<1>1. /\ st \in Sessions /\ CountedIn(st) \in Nat /\ Budget(s) \in Nat
      /\ CountedIn(st) <= Budget(s)
      /\ wallet \in Nat /\ SessionOK(s, st) /\ thinkFaults \in 0..MaxThinkFaults
  BY SessionFacts
<1>2. /\ st.pc = "buying" /\ took <= wallet /\ wallet' = wallet - took
      /\ Become(s, x) /\ UNCHANGED <<hosted, busy, hirer, order>>
      /\ row' \in {row, [row EXCEPT !.quiet = FALSE]}
  BY DEF BuyLost
<1>3. took \in Nat
  BY ThinkAssumption
<1>4. thinkFaults' \in 0..MaxThinkFaults
  BY <1>1, FaultTypes DEF BuyLost
<1>5. /\ st.pc \in Running /\ st.step <= MaxSteps /\ st.tool \in Tools
      /\ Price[st.tool] + Reserve(st.last) <= Budget(s) - CountedIn(st)
  BY <1>1, <1>2 DEF Running, SessionOK
<1>6. st.last \in Nat /\ Price[st.tool] \in Nat /\ st.lost \in Nat
  BY <1>1, <1>5, ThinkAssumption DEF Sessions
<1>7. Reserve(st.last) \in Nat
  BY <1>6, ReserveIsNatural
<1>8. Reserve(st.last) <= Budget(s) - CountedIn(st)
  BY <1>1, <1>5, <1>6, <1>7
<1>9. lost \in Nat /\ wallet' \in Nat
  BY <1>1, <1>2, <1>3, <1>6
<1> HIDE DEF lost
<1>10. /\ y \in Sessions /\ y.thinking = st.thinking /\ y.tools = st.tools
       /\ y.step = st.step /\ y.tool = st.tool /\ y.last = st.last
  BY <1>1, <1>9 DEF Sessions
<1> HIDE DEF y
<1>11. CountedIn(y) = CountedIn(st)
  BY <1>10 DEF CountedIn
<1>12. /\ x \in Sessions /\ x.pc = "loop" /\ CountedIn(x) = CountedIn(st) + 0 /\ SessionOK(s, x)
  BY <1>1, <1>5, <1>8, <1>10, <1>11, NextTurnFits
<1> HIDE DEF x
<1> QED
  BY <1>2, <1>4, <1>5, <1>9, <1>12, RunMoves

-----------------------------------------------------------------------------
(* The timer's process, and the worker. *)

Orders == [pc : {"new", "asked", "billed", "settled", "unsettled", "free", "gone"},
           bill : Nat, spent : Nat]

LEMMA TimerBecomes ==
    ASSUME ThinkInv, NEW st \in Sessions, SessionOK("timer", st), Become("timer", st),
           row' \in ThinkRows, RowOK(row', st), wallet' \in Nat,
           thinkFaults' \in 0..MaxThinkFaults, UNCHANGED <<hosted, busy, hirer, order>>
    PROVE  ThinkInv'
<1>1. ThinkTypeOK /\ SessionsOK /\ "timer" \in Services
  BY DEF ThinkInv, Services
<1>2. session' \in [Services -> Sessions] /\ session'["timer"] = st /\ SessionsOK'
  BY <1>1, OneSessionMoves
<1>3. ThinkTypeOK'
  BY <1>1, <1>2 DEF ThinkTypeOK, Sessions, ThinkRows
<1>4. \A b \in Buyers : OrderOK(order'[b])
  BY DEF ThinkInv
<1> QED
  BY <1>2, <1>3, <1>4 DEF ThinkInv

LEMMA HiredBecomes ==
    ASSUME ThinkInv, NEW st \in Sessions, SessionOK("hired", st), Become("hired", st),
           wallet' \in Nat, thinkFaults' \in 0..MaxThinkFaults,
           busy' \in BOOLEAN, hirer' \in Buyers \cup {Nobody},
           order' \in [Buyers -> Orders], \A b \in Buyers : OrderOK(order'[b]),
           UNCHANGED <<hosted, row>>
    PROVE  ThinkInv'
<1>1. ThinkTypeOK /\ SessionsOK /\ {"hired", "timer"} \subseteq Services
  BY DEF ThinkInv, Services
<1>2. /\ session' \in [Services -> Sessions] /\ SessionsOK'
      /\ session'["timer"] = session["timer"]
  BY <1>1, OneSessionMoves
<1>3. ThinkTypeOK'
  BY <1>1, <1>2 DEF ThinkTypeOK, Sessions, Orders
<1>4. RowOK(row', session'["timer"])
  BY <1>2 DEF ThinkInv
<1> QED
  BY <1>2, <1>3, <1>4 DEF ThinkInv

LEMMA OrderMoves ==
    ASSUME ThinkInv, NEW b \in Buyers, NEW o \in Orders, OrderOK(o), SetOrder(b, o),
           thinkFaults' \in 0..MaxThinkFaults, UNCHANGED <<hosted, wallet, session, busy, hirer, row>>
    PROVE  ThinkInv'
<1>1. order \in [Buyers -> Orders]
  BY DEF ThinkInv, ThinkTypeOK, Orders
<1>2. order' \in [Buyers -> Orders] /\ \A c \in Buyers : OrderOK(order'[c])
  BY <1>1 DEF ThinkInv, SetOrder
<1>3. ThinkTypeOK'
  BY <1>2 DEF ThinkInv, ThinkTypeOK, Orders
<1> QED
  BY <1>2, <1>3 DEF ThinkInv, SessionsOK

\* The answer to the buyer, if he still waits.
LEMMA ReplyFits ==
    ASSUME ThinkInv, NEW o \in Orders, OrderOK(o), Reply(o) \/ UNCHANGED order
    PROVE  order' \in [Buyers -> Orders] /\ \A b \in Buyers : OrderOK(order'[b])
<1>1. order \in [Buyers -> Orders] /\ \A b \in Buyers : OrderOK(order[b])
  BY DEF ThinkInv, ThinkTypeOK, Orders
<1> QED
  BY <1>1 DEF Reply

\* An order for which nothing is charged.
LEMMA FreeOrderFits ==
    LET o == [NewOrder EXCEPT !.pc = "free"] IN o \in Orders /\ OrderOK(o)
BY DEF NewOrder, Orders, OrderOK

LEMMA RowFacts ==
    ASSUME ThinkInv
    PROVE  /\ row \in ThinkRows /\ RowOK(row, session["timer"])
           /\ thinkFaults \in 0..MaxThinkFaults /\ wallet \in Nat
           /\ session["timer"] \in Sessions /\ session["hired"] \in Sessions
           /\ order \in [Buyers -> Orders] /\ busy \in BOOLEAN /\ hirer \in Buyers \cup {Nobody}
           /\ \A b \in Buyers : OrderOK(order[b])
BY TypesOfThink DEF ThinkInv, ThinkTypeOK, Services, Orders

LEMMA ThinkTimerReadsWallet == ASSUME ThinkInv, TimerReadsWallet PROVE ThinkInv'
<1> DEFINE x == [NewSession EXCEPT !.pc = "starting"]
<1>1. x \in Sessions /\ SessionOK("timer", x) /\ CountedIn(x) = 0 /\ x.pc = "starting"
  BY NewSessionFits DEF Services
<1>2. /\ Become("timer", x) /\ session["timer"].pc = "off"
      /\ UNCHANGED <<hosted, wallet, busy, hirer, order, row, thinkFaults>>
  BY DEF TimerReadsWallet
<1> HIDE DEF x
<1>3. /\ row \in ThinkRows /\ RowOK(row, session["timer"])
      /\ wallet \in Nat /\ thinkFaults \in 0..MaxThinkFaults
  BY RowFacts
<1>4. RowOK(row, x)
  BY <1>1, <1>2, <1>3 DEF RowOK, Ends
<1> QED
  BY <1>1, <1>2, <1>3, <1>4, TimerBecomes

LEMMA ThinkTimerStarts == ASSUME ThinkInv, TimerStarts PROVE ThinkInv'
<1> DEFINE st == session["timer"]
           x == [st EXCEPT !.pc = "loop"]
           r == [NoRow EXCEPT !.made = TRUE]
<1>1. /\ st \in Sessions /\ SessionOK("timer", st) /\ CountedIn(st) \in Nat
      /\ CountedIn(st) <= Budget("timer")
      /\ wallet \in Nat /\ thinkFaults \in 0..MaxThinkFaults
  BY SessionFacts DEF Services
<1>2. /\ st.pc = "starting" /\ Become("timer", x) /\ row' = r
      /\ UNCHANGED <<hosted, wallet, busy, hirer, order, thinkFaults>>
  BY DEF TimerStarts
<1>3. st.tool = NoTool
  BY <1>1, <1>2 DEF SessionOK
<1>4. /\ x \in Sessions /\ x.pc = "loop" /\ x.tool = NoTool
      /\ x.thinking = st.thinking /\ x.tools = st.tools
  BY <1>1, <1>3 DEF Sessions, Running
<1>5. r \in ThinkRows /\ r.status = "running" /\ r.shown = 0 /\ r.spent = Unknown
  BY DEF NoRow, ThinkRows
<1> HIDE DEF x, r
<1>6. CountedIn(x) = CountedIn(st)
  BY <1>4 DEF CountedIn
<1>7. SessionOK("timer", x) /\ RowOK(r, x)
  BY <1>1, <1>4, <1>5, <1>6 DEF SessionOK, RowOK, Ends
<1> QED
  BY <1>1, <1>2, <1>4, <1>5, <1>7, TimerBecomes

LEMMA ThinkTimerRecords == ASSUME ThinkInv, TimerRecords PROVE ThinkInv'
<1> DEFINE st == session["timer"]
           x == [st EXCEPT !.pc = "over"]
           failed == [row EXCEPT !.status = "failed"]
           ended == [row EXCEPT !.status = st.why, !.spent = CountedIn(st)]
           r == IF st.pc = "threw" THEN failed ELSE ended
<1>1. /\ st \in Sessions /\ SessionOK("timer", st) /\ CountedIn(st) \in Nat
      /\ CountedIn(st) <= Budget("timer") /\ wallet \in Nat
  BY SessionFacts DEF Services
<1>2. row \in ThinkRows /\ RowOK(row, st) /\ thinkFaults \in 0..MaxThinkFaults
  BY RowFacts
<1>3. Counted("timer") = CountedIn(st)
  BY DEF Counted, CountedIn
<1>4. /\ st.pc \in {"stopped", "threw"} /\ Become("timer", x) /\ Write(r)
      /\ UNCHANGED <<hosted, wallet, busy, hirer, order>>
  BY <1>3 DEF TimerRecords
<1>5. /\ x \in Sessions /\ x.pc = "over" /\ x.why = st.why
      /\ x.thinking = st.thinking /\ x.tools = st.tools
  BY <1>1 DEF Sessions
<1>6. st.pc = "stopped" => st.why \in Ends
  BY <1>1 DEF SessionOK
<1>7. row.status = "running" /\ row.spent = Unknown
  BY <1>2, <1>4 DEF RowOK
<1>8. /\ r \in ThinkRows /\ r.shown = row.shown
      /\ \/ r.status = "failed" /\ r.spent = Unknown
         \/ r.status = st.why /\ r.status \in Ends /\ r.spent = CountedIn(st)
  <2>1. CASE st.pc = "threw"
    BY <1>2, <1>7, <2>1 DEF ThinkRows
  <2>2. CASE st.pc = "stopped"
    BY <1>1, <1>2, <1>6, <2>2 DEF ThinkRows
  <2> QED
    BY <1>4, <2>1, <2>2
<1> HIDE DEF x, r, failed, ended
<1>9. CountedIn(x) = CountedIn(st) /\ SessionOK("timer", x)
  BY <1>1, <1>5, EndedFits DEF CountedIn, Services
<1>10. row.shown <= CountedIn(st)
  BY <1>2 DEF RowOK
<1>11. /\ row' \in ThinkRows /\ thinkFaults' \in 0..MaxThinkFaults
       /\ \/ row' = [r EXCEPT !.quiet = FALSE]
          \/ row' = [row EXCEPT !.missed = TRUE]
  BY <1>2, <1>4, <1>8, WriteTypes
<1>12. /\ row'.shown = row.shown
       /\ \/ row'.status = r.status /\ row'.spent = r.spent
          \/ row'.status = row.status /\ row'.spent = row.spent
  BY <1>2, <1>8, <1>11 DEF ThinkRows
<1>13. "failed" \notin Ends /\ "running" \notin Ends
  BY DEF Ends
<1>14. RowOK(row', x)
  BY <1>5, <1>7, <1>8, <1>9, <1>10, <1>12, <1>13 DEF RowOK
<1> QED
  BY <1>1, <1>4, <1>5, <1>9, <1>11, <1>14, TimerBecomes

LEMMA ThinkTimerKilled ==
    ASSUME ThinkInv, NEW took \in 0..ThoughtCeiling, TimerKilled(took)
    PROVE  ThinkInv'
<1> DEFINE st == session["timer"]
           lost == st.lost + took
           x == [st EXCEPT !.pc = "dead", !.lost = lost]
<1>1. /\ st \in Sessions /\ CountedIn(st) <= Budget("timer") /\ wallet \in Nat
  BY SessionFacts DEF Services
<1>2. row \in ThinkRows /\ RowOK(row, st) /\ thinkFaults \in 0..MaxThinkFaults
  BY RowFacts
<1>3. /\ st.pc \in Running \cup {"stopped", "threw"} /\ took \in Nat /\ took <= wallet
      /\ wallet' = wallet - took /\ Become("timer", x)
      /\ UNCHANGED <<hosted, busy, hirer, order, row>>
  BY ThinkAssumption DEF TimerKilled
<1>4. thinkFaults' \in 0..MaxThinkFaults
  BY <1>2, FaultTypes DEF TimerKilled
<1>5. lost \in Nat /\ wallet' \in Nat
  BY <1>1, <1>3 DEF Sessions
<1> HIDE DEF lost
<1>6. /\ x \in Sessions /\ x.pc = "dead" /\ x.thinking = st.thinking /\ x.tools = st.tools
  BY <1>1, <1>5 DEF Sessions
<1> HIDE DEF x
<1>7. CountedIn(x) = CountedIn(st) /\ SessionOK("timer", x)
  BY <1>1, <1>6, EndedFits DEF CountedIn, Services
<1>8. row.status = "running"
  BY <1>2, <1>3 DEF RowOK, Running
<1>9. RowOK(row', x)
  BY <1>2, <1>3, <1>6, <1>7, <1>8 DEF RowOK, Ends
<1> QED
  BY <1>2, <1>3, <1>4, <1>5, <1>6, <1>7, <1>9, TimerBecomes

LEMMA ThinkRowAges == ASSUME ThinkInv, RowAges PROVE ThinkInv'
<1> DEFINE r == [row EXCEPT !.quiet = TRUE]
<1>1. row \in ThinkRows /\ RowOK(row, session["timer"])
  BY RowFacts
<1>2. row' = r /\ UNCHANGED <<hosted, wallet, session, busy, hirer, order, thinkFaults>>
  BY DEF RowAges
<1>3. /\ r \in ThinkRows /\ r.status = row.status /\ r.shown = row.shown /\ r.spent = row.spent
  BY <1>1 DEF ThinkRows
<1> HIDE DEF r
<1>4. RowOK(row', session'["timer"])
  BY <1>1, <1>2, <1>3 DEF RowOK
<1>5. ThinkTypeOK'
  BY <1>2, <1>3 DEF ThinkInv, ThinkTypeOK, ThinkRows
<1> QED
  BY <1>2, <1>4, <1>5 DEF ThinkInv, SessionsOK, Budget

LEMMA ThinkNotHired ==
    ASSUME ThinkInv, NEW b \in Buyers, Refused(b), thinkFaults' \in 0..MaxThinkFaults,
           UNCHANGED <<hosted, wallet, session, busy, hirer, row>>
    PROVE  ThinkInv'
<1> DEFINE o == [order[b] EXCEPT !.pc = "free"]
<1>1. order[b] \in Orders
  BY RowFacts
<1>2. o \in Orders /\ OrderOK(o) /\ SetOrder(b, o)
  BY <1>1 DEF Orders, OrderOK, Refused
<1> HIDE DEF o
<1> QED
  BY <1>2, OrderMoves

LEMMA ThinkHire == ASSUME ThinkInv, NEW b \in Buyers, Hire(b) PROVE ThinkInv'
<1> DEFINE o == [order[b] EXCEPT !.pc = "asked"]
           x == [NewSession EXCEPT !.pc = "checking"]
<1>1. /\ order \in [Buyers -> Orders] /\ \A c \in Buyers : OrderOK(order[c])
      /\ thinkFaults \in 0..MaxThinkFaults /\ wallet \in Nat
  BY RowFacts
<1>2. UNCHANGED <<hosted, wallet, row, thinkFaults>>
  BY DEF Hire
<1>3. CASE TakesTask
  <2>1. SetOrder(b, o) /\ busy' = TRUE /\ hirer' = b /\ Become("hired", x)
    BY <1>3 DEF Hire
  <2>2. o \in Orders /\ OrderOK(o)
    BY <1>1 DEF Orders, OrderOK
  <2>3. x \in Sessions /\ SessionOK("hired", x)
    BY NewSessionFits DEF Services
  <2> HIDE DEF o, x
  <2>4. order' \in [Buyers -> Orders] /\ \A c \in Buyers : OrderOK(order'[c])
    BY <1>1, <2>1, <2>2 DEF SetOrder
  <2> QED
    BY <1>1, <1>2, <2>1, <2>3, <2>4, HiredBecomes
<1>4. CASE ~TakesTask
  BY <1>1, <1>2, <1>4, ThinkNotHired DEF Hire
<1> QED
  BY <1>3, <1>4

LEMMA ThinkGivesUp == ASSUME ThinkInv, NEW b \in Buyers, GivesUp(b) PROVE ThinkInv'
<1> DEFINE o == [order[b] EXCEPT !.pc = "gone"]
<1>1. order[b] \in Orders /\ thinkFaults \in 0..MaxThinkFaults
  BY RowFacts
<1>2. UNCHANGED <<hosted, wallet, session, busy, hirer, row>>
  BY DEF GivesUp
<1>3. CASE Refused(b) /\ UNCHANGED thinkFaults
  BY <1>1, <1>2, <1>3, ThinkNotHired
<1>4. CASE SetOrder(b, o) /\ ThinkFault
  <2>1. o \in Orders /\ OrderOK(o)
    BY <1>1 DEF Orders, OrderOK
  <2>2. thinkFaults' \in 0..MaxThinkFaults
    BY <1>1, <1>4, FaultTypes
  <2> HIDE DEF o
  <2> QED
    BY <1>2, <1>4, <2>1, <2>2, OrderMoves
<1> QED
  BY <1>3, <1>4 DEF GivesUp

LEMMA ThinkSettles == ASSUME ThinkInv, NEW b \in Buyers, Settles(b) PROVE ThinkInv'
<1>1. /\ order[b] \in Orders /\ OrderOK(order[b])
      /\ thinkFaults \in 0..MaxThinkFaults
  BY RowFacts
<1>2. PICK done \in {"settled", "unsettled"} : SetOrder(b, [order[b] EXCEPT !.pc = done])
  BY DEF Settles
<1> DEFINE o == [order[b] EXCEPT !.pc = done]
<1>3. o \in Orders /\ OrderOK(o)
  BY <1>1 DEF Orders, OrderOK, Settles
<1>4. order[b].pc = "billed" /\ UNCHANGED <<hosted, wallet, session, busy, hirer, row, thinkFaults>>
  BY DEF Settles
<1>5. OrderOK(o)
  <2>1. o.bill = order[b].bill /\ o.spent = order[b].spent
    BY <1>1 DEF Orders
  <2> QED
    BY <1>1, <1>4, <2>1 DEF OrderOK
<1> HIDE DEF o
<1> QED
  BY <1>1, <1>2, <1>3, <1>4, OrderMoves DEF o

LEMMA ThinkWorkerReadsWallet == ASSUME ThinkInv, WorkerReadsWallet PROVE ThinkInv'
<1> DEFINE st == session["hired"]
           o == [NewOrder EXCEPT !.pc = "free"]
<1>1. /\ st \in Sessions /\ SessionOK("hired", st) /\ CountedIn(st) <= Budget("hired")
      /\ wallet \in Nat /\ thinkFaults \in 0..MaxThinkFaults
  BY SessionFacts DEF Services
<1>2. /\ st.pc = "checking" /\ UNCHANGED <<hosted, wallet, row, thinkFaults>>
  BY DEF WorkerReadsWallet
<1>3. /\ order \in [Buyers -> Orders] /\ busy \in BOOLEAN /\ hirer \in Buyers \cup {Nobody}
      /\ \A b \in Buyers : OrderOK(order[b])
  BY RowFacts
<1>4. CASE Become("hired", [st EXCEPT !.pc = "loop"]) /\ UNCHANGED <<busy, hirer, order>>
  <2> DEFINE x == [st EXCEPT !.pc = "loop"]
  <2>1. /\ x \in Sessions /\ x.pc = "loop" /\ x.tool = st.tool
        /\ x.thinking = st.thinking /\ x.tools = st.tools
    BY <1>1 DEF Sessions, Running
  <2>2. Become("hired", x)
    BY <1>4
  <2> HIDE DEF x
  <2>3. CountedIn(x) = CountedIn(st)
    BY <2>1 DEF CountedIn
  <2>4. SessionOK("hired", x)
    BY <1>1, <1>2, <2>1, <2>3 DEF SessionOK
  <2> QED
    BY <1>1, <1>2, <1>3, <1>4, <2>1, <2>2, <2>4, HiredBecomes
<1>5. CASE Become("hired", NewSession) /\ Reply(o) /\ Free
  <2>2. NewSession \in Sessions /\ SessionOK("hired", NewSession)
    BY FreshSession DEF Services
  <2>3. o \in Orders /\ OrderOK(o)
    BY FreeOrderFits
  <2> HIDE DEF o
  <2>4. order' \in [Buyers -> Orders] /\ \A b \in Buyers : OrderOK(order'[b])
    BY <1>5, <2>3, ReplyFits
  <2>5. busy' \in BOOLEAN /\ hirer' \in Buyers \cup {Nobody}
    BY <1>5 DEF Free
  <2> QED
    BY <1>1, <1>2, <1>5, <2>2, <2>4, <2>5, HiredBecomes
<1> QED
  BY <1>4, <1>5 DEF WorkerReadsWallet

\* What the run counted is within its budget, so the bill has the fee too.
LEMMA BillFits ==
    ASSUME NEW n \in Nat, n <= Budget("hired")
    PROVE  /\ ThinkBill(n) \in Nat /\ ThinkBill(n) = n + UptoFee /\ ThinkBill(n) <= UptoCeiling
<1>1. Budget("hired") = UptoCeiling - UptoFee
  BY DEF Budget
<1> QED
  BY <1>1, ThinkAssumption DEF ThinkBill

LEMMA ThinkWorkerAnswers == ASSUME ThinkInv, WorkerAnswers PROVE ThinkInv'
<1> DEFINE st == session["hired"]
           free == [NewOrder EXCEPT !.pc = "free"]
           billed == [pc |-> "billed", bill |-> ThinkBill(CountedIn(st)), spent |-> CountedIn(st)]
<1>1. /\ CountedIn(st) \in Nat /\ CountedIn(st) <= Budget("hired")
      /\ wallet \in Nat /\ thinkFaults \in 0..MaxThinkFaults
  BY SessionFacts DEF Services
<1>2. Counted("hired") = CountedIn(st)
  BY DEF Counted, CountedIn
<1>3. /\ Reply(free) \/ Reply(billed)
      /\ Become("hired", NewSession) /\ Free /\ UNCHANGED <<hosted, wallet, row, thinkFaults>>
  BY <1>2 DEF WorkerAnswers
<1>4. free \in Orders /\ OrderOK(free)
  BY FreeOrderFits
<1>5. /\ ThinkBill(CountedIn(st)) \in Nat /\ ThinkBill(CountedIn(st)) = CountedIn(st) + UptoFee
      /\ ThinkBill(CountedIn(st)) <= UptoCeiling
  BY <1>1, BillFits
<1>6. billed \in Orders
  BY <1>1, <1>5 DEF Orders
<1>7. OrderOK(billed)
  BY <1>1, <1>5, ThinkAssumption DEF OrderOK
<1> HIDE DEF free, billed
<1>8. order' \in [Buyers -> Orders] /\ \A b \in Buyers : OrderOK(order'[b])
  BY <1>3, <1>4, <1>6, <1>7, ReplyFits
<1>9. NewSession \in Sessions /\ SessionOK("hired", NewSession)
  BY FreshSession DEF Services
<1>11. busy' \in BOOLEAN /\ hirer' \in Buyers \cup {Nobody}
  BY <1>3 DEF Free
<1> QED
  BY <1>1, <1>3, <1>8, <1>9, <1>11, HiredBecomes

LEMMA ThinkWorkerKilled ==
    ASSUME ThinkInv, NEW took \in 0..ThoughtCeiling, WorkerKilled(took)
    PROVE  ThinkInv'
<1> DEFINE o == [NewOrder EXCEPT !.pc = "free"]
<1>1. wallet \in Nat /\ thinkFaults \in 0..MaxThinkFaults
  BY RowFacts
<1>2. took \in Nat /\ took <= wallet /\ wallet' = wallet - took
  BY ThinkAssumption DEF WorkerKilled
<1>3. wallet' \in Nat
  BY <1>1, <1>2
<1>4. thinkFaults' \in 0..MaxThinkFaults
  BY <1>1, FaultTypes DEF WorkerKilled
<1>5. /\ Reply(o) /\ Become("hired", NewSession) /\ UNCHANGED <<hosted, row>>
      /\ busy' \in BOOLEAN /\ hirer' \in Buyers \cup {Nobody}
  BY DEF WorkerKilled
<1>6. o \in Orders /\ OrderOK(o)
  BY FreeOrderFits
<1> HIDE DEF o
<1>7. order' \in [Buyers -> Orders] /\ \A b \in Buyers : OrderOK(order'[b])
  BY <1>5, <1>6, ReplyFits
<1>8. NewSession \in Sessions /\ SessionOK("hired", NewSession)
  BY FreshSession DEF Services
<1> QED
  BY <1>3, <1>4, <1>5, <1>7, <1>8, HiredBecomes

LEMMA ThinkDeadlinePasses == ASSUME ThinkInv, DeadlinePasses PROVE ThinkInv'
<1> DEFINE st == session["hired"]
           x == [st EXCEPT !.late = TRUE]
<1>1. /\ st \in Sessions /\ SessionOK("hired", st)
      /\ wallet \in Nat /\ thinkFaults \in 0..MaxThinkFaults
  BY SessionFacts DEF Services
<1>2. /\ Become("hired", x) /\ UNCHANGED <<hosted, wallet, busy, hirer, order, row, thinkFaults>>
  BY DEF DeadlinePasses
<1>3. /\ order \in [Buyers -> Orders] /\ busy \in BOOLEAN /\ hirer \in Buyers \cup {Nobody}
      /\ \A b \in Buyers : OrderOK(order[b])
  BY RowFacts
<1>4. /\ x \in Sessions /\ x.pc = st.pc /\ x.tool = st.tool /\ x.step = st.step
      /\ x.thinking = st.thinking /\ x.tools = st.tools /\ x.last = st.last /\ x.why = st.why
  BY <1>1 DEF Sessions
<1> HIDE DEF x
<1>5. CountedIn(x) = CountedIn(st)
  BY <1>4 DEF CountedIn
<1>6. SessionOK("hired", x)
  BY <1>1, <1>4, <1>5 DEF SessionOK
<1> QED
  BY <1>1, <1>2, <1>3, <1>4, <1>6, HiredBecomes

-----------------------------------------------------------------------------
(* The theorems. *)

LEMMA ThinkStarts == ASSUME ThinkInit PROVE ThinkInv
<1>2. \A s \in Services : NewSession \in Sessions /\ SessionOK(s, NewSession)
                            /\ CountedIn(NewSession) = 0
  BY FreshSession
<1>3. NoRow \in ThinkRows /\ NewOrder \in Orders /\ OrderOK(NewOrder) /\ NewSession.pc = "off"
  BY DEF NoRow, ThinkRows, NewOrder, Orders, OrderOK, NewSession
<1>4. RowOK(NoRow, NewSession)
  BY <1>2, <1>3 DEF RowOK, NoRow, Services, Ends
<1>5. thinkFaults \in 0..MaxThinkFaults /\ wallet \in Nat
  BY ThinkAssumption DEF ThinkInit
<1>6. session \in [Services -> Sessions] /\ SessionsOK /\ session["timer"] = NewSession
  BY <1>2 DEF ThinkInit, SessionsOK, Services
<1>7. order \in [Buyers -> Orders] /\ \A b \in Buyers : OrderOK(order[b])
  BY <1>3 DEF ThinkInit
<1>8. ThinkTypeOK
  BY <1>3, <1>5, <1>6, <1>7 DEF ThinkInit, ThinkTypeOK, Sessions, ThinkRows, Orders
<1> QED
  BY <1>4, <1>6, <1>7, <1>8 DEF ThinkInit, ThinkInv

LEMMA ThinkSessionStep == ASSUME ThinkInv, NEW s \in Services, SessionStep(s) PROVE ThinkInv'
BY ThinkStopShort, ThinkAskBrain, ThinkThoughtRefused, ThinkFetched, ThinkThought,
   ThinkThoughtLost, ThinkSearched, ThinkBought, ThinkBuyLost DEF SessionStep

LEMMA ThinkStep == ThinkInv /\ [ThinkNext]_thinkVars => ThinkInv'
<1> SUFFICES ASSUME ThinkInv, [ThinkNext]_thinkVars PROVE ThinkInv'
  OBVIOUS
<1>1. CASE \E s \in hosted : SessionStep(s)
  BY <1>1, TypesOfThink, ThinkSessionStep DEF ThinkInv
<1>2. CASE TimerReadsWallet \/ TimerStarts \/ TimerRecords \/ RowAges
  BY <1>2, ThinkTimerReadsWallet, ThinkTimerStarts, ThinkTimerRecords, ThinkRowAges
<1>3. CASE WorkerReadsWallet \/ WorkerAnswers \/ DeadlinePasses
  BY <1>3, ThinkWorkerReadsWallet, ThinkWorkerAnswers, ThinkDeadlinePasses
<1>4. CASE \E took \in 0..ThoughtCeiling : TimerKilled(took) \/ WorkerKilled(took)
  BY <1>4, ThinkTimerKilled, ThinkWorkerKilled
<1>5. CASE \E b \in Buyers : Hire(b) \/ NotHired(b) \/ GivesUp(b) \/ Settles(b)
  <2>1. ASSUME NEW b \in Buyers, NotHired(b) PROVE ThinkInv'
    BY <2>1, RowFacts, ThinkNotHired DEF NotHired
  <2> QED
    BY <1>5, <2>1, ThinkHire, ThinkGivesUp, ThinkSettles
<1>6. CASE UNCHANGED thinkVars
  BY <1>6 DEF thinkVars, ThinkInv, ThinkTypeOK, SessionsOK, SessionOK, RowOK, OrderOK, CountedIn,
              Budget, Reserve
<1> QED
  BY <1>1, <1>2, <1>3, <1>4, <1>5, <1>6 DEF ThinkNext

LEMMA ThinkInvHolds == ThinkSpec => []ThinkInv
<1>1. ThinkInit => ThinkInv
  BY ThinkStarts
<1> QED
  BY <1>1, ThinkStep, PTL DEF ThinkSpec

\* Every variable of the thinking runs keeps its type.
THEOREM ThinkTypeCorrect == ThinkSpec => []ThinkTypeOK
<1>1. ThinkInv => ThinkTypeOK
  BY DEF ThinkInv
<1> QED
  BY <1>1, ThinkInvHolds, PTL

\* Whatever the brain replies, whatever sellers ask and whatever is lost, a run
\* counts no more than its budget, and a purchase leaves the next thought paid.
THEOREM RunKeepsItsBudget == ThinkSpec => []BudgetKept
<1>1. ThinkInv => BudgetKept
  <2> SUFFICES ASSUME ThinkInv, NEW s \in Services
               PROVE  /\ Counted(s) <= Budget(s)
                      /\ (session[s].pc = "loop" /\ session[s].tool # NoTool) =>
                            Left(s) >= Reserve(session[s].last)
    BY DEF BudgetKept
  <2>1. /\ session[s] \in Sessions /\ SessionOK(s, session[s])
        /\ CountedIn(session[s]) <= Budget(s) /\ Budget(s) \in Nat
        /\ CountedIn(session[s]) \in Nat
        /\ Left(s) = Budget(s) - CountedIn(session[s])
    BY SessionFacts
  <2>2. Counted(s) = CountedIn(session[s])
    BY DEF Counted, CountedIn
  <2>3. Reserve(session[s].last) \in Nat
    BY <2>1, ReserveIsNatural DEF Sessions
  <2> QED
    BY <2>1, <2>2, <2>3 DEF SessionOK
<1> QED
  BY <1>1, ThinkInvHolds, PTL

\* A charged buyer's bill is all the run spent and the fee, and within what the
\* buyer signed.
THEOREM BillIsWhole == ThinkSpec => []BillCoversTheRun
<1>1. ThinkInv => BillCoversTheRun
  BY DEF ThinkInv, OrderOK, BillCoversTheRun
<1> QED
  BY <1>1, ThinkInvHolds, PTL

\* The page never shows more than was counted, nor an end the run did not have,
\* whichever of the recorder's writes were lost.
THEOREM PageIsTrue == ThinkSpec => []ShownIsTrue
<1>1. ThinkInv => ShownIsTrue
  <2> SUFFICES ASSUME ThinkInv
               PROVE  /\ SpentShown(row) <= Counted("timer")
                      /\ StatusShown(row) \in Ends =>
                            /\ StatusShown(row) = session["timer"].why
                            /\ SpentShown(row) = Counted("timer")
    BY DEF ShownIsTrue
  <2> DEFINE t == session["timer"]
  <2>1. /\ row \in ThinkRows /\ RowOK(row, t) /\ t \in Sessions
    BY RowFacts
  <2>2. Counted("timer") = CountedIn(t) /\ CountedIn(t) \in Nat
    BY <2>1 DEF Counted, CountedIn, Sessions
  <2>3. CASE row.status \in {"running", "failed"}
    BY <2>1, <2>2, <2>3 DEF RowOK, StatusShown, SpentShown, Ends
  <2>4. CASE row.status \in Ends
    <3>1. row.status = t.why /\ row.spent = CountedIn(t) /\ row.shown <= CountedIn(t)
      BY <2>1, <2>4 DEF RowOK
    <3>2. row.spent # Unknown
      BY <2>2, <3>1 DEF Unknown
    <3>3. row.status # "running"
      BY <2>4 DEF Ends
    <3>4. StatusShown(row) \in {"failed", row.status}
      BY <3>3 DEF StatusShown
    <3>5. SpentShown(row) = row.spent
      BY <3>2, <3>3, <3>4, <2>4 DEF SpentShown, Ends
    <3> QED
      BY <2>2, <3>1, <3>4, <3>5 DEF Ends
  <2> QED
    BY <2>1, <2>3, <2>4 DEF ThinkRows
<1> QED
  BY <1>1, ThinkInvHolds, PTL

-----------------------------------------------------------------------------
(***************************************************************************)
(* The facilitator (Facilitator).  A sale's answer follows its transfer; a *)
(* seller is in memory, in the file or about to be written to the table;   *)
(* what a day has counted is what the registry says, less the calls that   *)
(* overlapped.                                                             *)
(***************************************************************************)

Sales ==
    [pc : {"new", "verified", "answered", "settling", "done"},
     seller : FacSellers \cup {NoSale}, upto : BOOLEAN, asked : Nat,
     told : {"none", "refused", "settled", "failed", "not_charged"}]

\* One sale and its transfer: nothing is sent before the seller settles, nor
\* for a call that costs nothing, which only an upto call may.
SaleOK(x, c) ==
    /\ x.asked <= SignedAmount
    /\ x.pc # "done" => x.told = "none"
    /\ c # "none" => x.pc \in {"settling", "done"} /\ x.told \notin {"not_charged", "refused"}
    /\ x.pc = "settling" /\ x.asked = 0 => x.upto
    /\ x.told = "settled" => c = "mined" \/ (x.upto /\ x.asked = 0)

SalesOK == \A p \in Payments : SaleOK(sale[p], chain[p])

LEMMA SettlingIsFinite ==
    ASSUME NEW S
    PROVE  IsFiniteSet(SettlingFor(S)) /\ Cardinality(SettlingFor(S)) \in Nat
<1>1. IsFiniteSet(SettlingFor(S))
  BY FS_Subset, FacilitatorAssumption DEF SettlingFor
<1> QED
  BY <1>1, FS_CardinalityType

LEMMA FreshSale ==
    /\ NewSale \in Sales /\ NewSale.pc = "new" /\ NewSale.told = "none"
    /\ NewSale.asked = 0 /\ NewSale.upto = FALSE /\ NewSale.seller = NoSale
    /\ SaleOK(NewSale, "none")
<1>1. /\ NewSale \in Sales /\ NewSale.pc = "new" /\ NewSale.told = "none"
      /\ NewSale.asked = 0 /\ NewSale.upto = FALSE /\ NewSale.seller = NoSale
  BY DEF NewSale, Sales
<1> QED
  BY <1>1, FacilitatorAssumption DEF SaleOK

\* The day is rolled, or a settlement counted.
LEMMA RolledFits ==
    ASSUME FacTypeOK
    PROVE  /\ Rolled.counts \in [FacSellers -> Nat] /\ Rolled.shared \in Nat
           /\ countsDay = facDay => Rolled.counts = counts /\ Rolled.shared = sharedCount
           /\ countsDay # facDay => Rolled.counts = NoCounts /\ Rolled.shared = 0
BY DEF FacTypeOK, Rolled, NoCounts

TalliesOK ==
    /\ counts \in [FacSellers -> Nat] /\ sharedCount \in Nat
    /\ countsDay \in 0..MaxFacDay

LEMMA HooksFit ==
    ASSUME FacTypeOK, NEW s, NEW g \in GasFigures, HooksRan(s, g)
    PROVE  TalliesOK' /\ gasSeen' \in Nat \cup {NoGasFigure}
<1>1. gasSeen' \in Nat \cup {NoGasFigure}
  BY FacilitatorAssumption DEF HooksRan, GasFigures
<1>2. TalliesOK'
  <2>1. CASE s \in listed
    BY <2>1, RolledFits DEF HooksRan, Roll, TalliesOK, FacTypeOK
  <2>2. CASE s \notin listed
    BY <2>2 DEF HooksRan, TalliesOK, FacTypeOK, tallies
  <2> QED
    BY <2>1, <2>2
<1> QED
  BY <1>1, <1>2

\* A step that moves one sale, its transfer with it or not.
LEMMA SaleMoves ==
    ASSUME FacTypeOK, SalesOK, NEW p \in Payments, NEW x \in Sales, Sale(p, x),
           NEW c \in {"none", "sent", "mined", "reverted"}, chain' = [chain EXCEPT ![p] = c],
           SaleOK(x, c)
    PROVE  /\ sale' \in [Payments -> Sales] /\ chain' \in [Payments -> {"none", "sent", "mined", "reverted"}]
           /\ SalesOK'
BY DEF FacTypeOK, SalesOK, Sale, Sales

LEMMA SaleFacts ==
    ASSUME FacTypeOK, SalesOK, NEW p \in Payments
    PROVE  /\ sale[p] \in Sales /\ chain[p] \in {"none", "sent", "mined", "reverted"}
           /\ SaleOK(sale[p], chain[p])
           /\ chain = [chain EXCEPT ![p] = chain[p]]
           /\ sale = [sale EXCEPT ![p] = sale[p]]
BY DEF FacTypeOK, SalesOK, Sales

FacRest ==
    /\ facUp \in BOOLEAN
    /\ listed \subseteq NewSellers /\ listFile \subseteq NewSellers
    /\ facDay \in 0..MaxFacDay /\ gasLeft \in Nat
    /\ sellersTable \subseteq NewSellers
    /\ registering \in [NewSellers -> {"no", "checked", "inserted", "inactive", "active"}]
    /\ facFaults \in 0..MaxFacFaults

FacHistoryOK ==
    /\ settledOn \in [0..MaxFacDay -> SUBSET Payments]
    /\ together \in [0..MaxFacDay -> Nat]

LEMMA FacTypeParts ==
    /\ FacTypeOK <=>
         /\ FacRest /\ TalliesOK /\ FacHistoryOK /\ gasSeen \in Nat \cup {NoGasFigure}
         /\ sale \in [Payments -> Sales]
         /\ chain \in [Payments -> {"none", "sent", "mined", "reverted"}]
    /\ FacTypeOK' <=>
         /\ FacRest' /\ TalliesOK' /\ FacHistoryOK' /\ gasSeen' \in Nat \cup {NoGasFigure}
         /\ sale' \in [Payments -> Sales]
         /\ chain' \in [Payments -> {"none", "sent", "mined", "reverted"}]
BY DEF FacTypeOK, FacRest, TalliesOK, FacHistoryOK, Sales

LEMMA FacFaultFits ==
    ASSUME FacTypeOK, FacFault PROVE facFaults' \in 0..MaxFacFaults
BY FacilitatorAssumption DEF FacTypeOK, FacFault

FacInv == FacTypeOK /\ SalesOK

LEMMA FacVerify ==
    ASSUME FacInv, NEW p \in Payments, NEW s \in FacSellers, NEW upto \in BOOLEAN,
           NEW g \in GasFigures, Verify(p, s, upto, g)
    PROVE  FacInv'
<1>1. TalliesOK' /\ gasSeen' \in Nat \cup {NoGasFigure}
  BY HooksFit DEF FacInv, Verify
<1>2. /\ sale[p] \in Sales /\ SaleOK(sale[p], chain[p]) /\ sale[p].pc = "new"
      /\ chain' = [chain EXCEPT ![p] = chain[p]] /\ chain[p] = "none"
  BY SaleFacts DEF FacInv, Verify, SaleOK
<1> DEFINE good == [NewSale EXCEPT !.pc = "verified", !.seller = s, !.upto = upto]
           bad == [NewSale EXCEPT !.pc = "done", !.seller = s, !.told = "refused"]
<1>3. Sale(p, good) \/ Sale(p, bad)
  BY DEF Verify
<1>4. /\ good \in Sales /\ bad \in Sales /\ SaleOK(good, "none") /\ SaleOK(bad, "none")
  <2>1. /\ good \in Sales /\ good.asked = 0 /\ good.pc = "verified" /\ good.told = "none"
        /\ bad \in Sales /\ bad.asked = 0 /\ bad.pc = "done" /\ bad.told = "refused"
    BY FreshSale DEF Sales
  <2> HIDE DEF good, bad
  <2> QED
    BY <2>1, FacilitatorAssumption DEF SaleOK
<1> HIDE DEF good, bad
<1>5. /\ sale' \in [Payments -> Sales] /\ chain' \in [Payments -> {"none", "sent", "mined", "reverted"}]
      /\ SalesOK'
  BY <1>2, <1>3, <1>4, SaleMoves DEF FacInv
<1>6. FacRest' /\ FacHistoryOK'
  BY FacTypeParts DEF FacInv, FacRest, FacHistoryOK, Verify, registry, facHistory
<1> QED
  BY <1>1, <1>5, <1>6, FacTypeParts DEF FacInv

LEMMA FacVerifyUnanswered ==
    ASSUME FacInv, NEW p \in Payments, VerifyUnanswered(p) PROVE FacInv'
<1> DEFINE x == [NewSale EXCEPT !.pc = "done", !.told = "refused"]
<1>1. /\ Sale(p, x) /\ sale[p].pc = "new"
      /\ UNCHANGED <<facUp, registry, tallies, facDay, gasLeft, gasSeen, chain, facHistory, facFaults>>
  BY DEF VerifyUnanswered
<1>2. /\ SaleOK(sale[p], chain[p]) /\ chain = [chain EXCEPT ![p] = chain[p]]
      /\ chain[p] \in {"none", "sent", "mined", "reverted"}
  BY SaleFacts DEF FacInv
<1>3. chain[p] = "none"
  BY <1>1, <1>2 DEF SaleOK
<1>4. x \in Sales /\ x.asked = 0 /\ x.pc = "done" /\ x.told = "refused"
  BY FreshSale DEF Sales
<1> HIDE DEF x
<1>5. SaleOK(x, "none")
  BY <1>4, FacilitatorAssumption DEF SaleOK
<1>6. sale' \in [Payments -> Sales] /\ SalesOK'
  BY <1>1, <1>2, <1>3, <1>4, <1>5, SaleMoves DEF FacInv
<1> QED
  BY <1>1, <1>6, FacTypeParts DEF FacInv, FacRest, TalliesOK, FacHistoryOK, registry, tallies, facHistory

\* The handler, and an end of the call that leaves the chain as it is.
LEMMA OnlySaleMoves ==
    ASSUME FacInv, NEW p \in Payments, NEW x \in Sales, Sale(p, x), SaleOK(x, chain[p]),
           UNCHANGED <<facUp, registry, tallies, facDay, gasLeft, gasSeen, chain, facHistory, facFaults>>
    PROVE  FacInv'
<1>1. /\ chain' = [chain EXCEPT ![p] = chain[p]]
      /\ chain[p] \in {"none", "sent", "mined", "reverted"}
  BY SaleFacts DEF FacInv
<1>2. sale' \in [Payments -> Sales] /\ SalesOK'
  BY <1>1, SaleMoves DEF FacInv
<1> QED
  BY <1>2, FacTypeParts DEF FacInv, FacRest, TalliesOK, FacHistoryOK, registry, tallies, facHistory

LEMMA EndedSaleFits ==
    ASSUME NEW x \in Sales, NEW c, SaleOK(x, c), x.pc # "done",
           NEW told \in {"failed", "not_charged"},
           told = "not_charged" => c = "none"
    PROVE  LET y == [x EXCEPT !.pc = "done", !.told = told] IN y \in Sales /\ SaleOK(y, c)
<1> DEFINE y == [x EXCEPT !.pc = "done", !.told = told]
<1>1. /\ y \in Sales /\ y.pc = "done" /\ y.told = told /\ y.asked = x.asked /\ y.upto = x.upto
      /\ y.seller = x.seller
  BY DEF Sales
<1> HIDE DEF y
<1> QED
  BY <1>1 DEF SaleOK, y

LEMMA FacHandlerFails ==
    ASSUME FacInv, NEW p \in Payments, HandlerFails(p) PROVE FacInv'
<1>1. sale[p] \in Sales /\ SaleOK(sale[p], chain[p]) /\ sale[p].pc = "verified"
  BY SaleFacts DEF FacInv, HandlerFails
<1>2. chain[p] = "none"
  BY <1>1 DEF SaleOK
<1> QED
  BY <1>1, <1>2, EndedSaleFits, OnlySaleMoves DEF HandlerFails

LEMMA FacHandlerAnswers ==
    ASSUME FacInv, NEW p \in Payments, NEW asked \in 0..(SignedAmount + 1), HandlerAnswers(p, asked)
    PROVE  FacInv'
<1> DEFINE n == UptoCharge(asked)
           x == [sale[p] EXCEPT !.pc = "answered", !.asked = n]
<1>1. sale[p] \in Sales /\ SaleOK(sale[p], chain[p]) /\ sale[p].pc = "verified" /\ Sale(p, x)
  BY SaleFacts DEF FacInv, HandlerAnswers
<1>2. n \in Nat /\ n <= SignedAmount
  BY FacilitatorAssumption DEF UptoCharge
<1> HIDE DEF n
<1>3. /\ x \in Sales /\ x.asked = n /\ x.pc = "answered" /\ x.told = sale[p].told
  BY <1>1, <1>2 DEF Sales
<1> HIDE DEF x
<1>4. SaleOK(x, chain[p])
  BY <1>1, <1>2, <1>3 DEF SaleOK
<1> QED
  BY <1>1, <1>3, <1>4, OnlySaleMoves DEF HandlerAnswers

LEMMA FacSettleUnanswered ==
    ASSUME FacInv, NEW p \in Payments, SettleUnanswered(p) \/ SettleFails(p) PROVE FacInv'
<1> DEFINE x == [sale[p] EXCEPT !.pc = "done", !.told = "failed"]
<1>1. /\ sale[p] \in Sales /\ SaleOK(sale[p], chain[p]) /\ sale[p].pc # "done"
      /\ Sale(p, x)
      /\ UNCHANGED <<facUp, registry, tallies, facDay, gasLeft, gasSeen, chain, facHistory, facFaults>>
  BY SaleFacts DEF FacInv, SettleUnanswered, SettleFails
<1>2. x \in Sales /\ SaleOK(x, chain[p])
  BY <1>1, EndedSaleFits
<1> HIDE DEF x
<1> QED
  BY <1>1, <1>2, OnlySaleMoves

LEMMA FacSettleStarts ==
    ASSUME FacInv, NEW p \in Payments, NEW g \in GasFigures, SettleStarts(p, g)
    PROVE  FacInv'
<1> DEFINE s == sale[p].seller
           x == [sale[p] EXCEPT !.pc = "settling"]
           y == [sale[p] EXCEPT !.pc = "done", !.told = "failed"]
           c == IF sale[p].asked = 0 THEN "none" ELSE "sent"
<1>1. TalliesOK' /\ gasSeen' \in Nat \cup {NoGasFigure}
  BY HooksFit DEF FacInv, SettleStarts
<1>2. /\ sale[p] \in Sales /\ SaleOK(sale[p], chain[p]) /\ sale[p].pc = "answered"
      /\ chain[p] \in {"none", "sent", "mined", "reverted"}
      /\ chain = [chain EXCEPT ![p] = chain[p]]
  BY SaleFacts DEF FacInv, SettleStarts
<1>3. FacRest' /\ settledOn' = settledOn
  BY FacTypeParts DEF FacInv, FacRest, SettleStarts, registry
<1>4. /\ settledOn \in [0..MaxFacDay -> SUBSET Payments] /\ together \in [0..MaxFacDay -> Nat]
  BY DEF FacInv, FacTypeOK
<1>5. together' \in [0..MaxFacDay -> Nat]
  <2>1. Cardinality(SettlingFor(NewSellers)) + 1 \in Nat
    BY SettlingIsFinite
  <2>2. CASE together' = together
    BY <1>4, <2>2
  <2>3. CASE together' = [together EXCEPT ![facDay] =
                 IF Cardinality(SettlingFor(NewSellers)) + 1 > @
                 THEN Cardinality(SettlingFor(NewSellers)) + 1 ELSE @]
    BY <1>4, <2>1, <2>3
  <2> QED
    BY <2>2, <2>3 DEF SettleStarts
<1>6. sale' \in [Payments -> Sales] /\ SalesOK'
      /\ chain' \in [Payments -> {"none", "sent", "mined", "reverted"}]
  <2>1. CASE Agrees(s, sale[p].asked, sale[p].upto, g)
    <3>1. Sale(p, x) /\ chain' = [chain EXCEPT ![p] = c] /\ GuardPasses(s, sale[p].asked, sale[p].upto)
      BY <2>1 DEF SettleStarts, Agrees
    <3>2. /\ x \in Sales /\ x.pc = "settling" /\ x.asked = sale[p].asked /\ x.upto = sale[p].upto
          /\ x.told = sale[p].told /\ c \in {"none", "sent"}
      BY <1>2 DEF Sales
    <3> HIDE DEF x
    <3>3. SaleOK(x, c)
      BY <1>2, <3>1, <3>2 DEF SaleOK, GuardPasses
    <3> HIDE DEF c
    <3> QED
      BY <3>1, <3>2, <3>3, SaleMoves DEF FacInv
  <2>2. CASE ~Agrees(s, sale[p].asked, sale[p].upto, g)
    <3>1. Sale(p, y) /\ chain' = chain
      BY <2>2 DEF SettleStarts
    <3>2. y \in Sales /\ SaleOK(y, chain[p])
      BY <1>2, EndedSaleFits
    <3> HIDE DEF y
    <3> QED
      BY <1>2, <3>1, <3>2, SaleMoves DEF FacInv
  <2> QED
    BY <2>1, <2>2
<1> QED
  BY <1>1, <1>3, <1>4, <1>5, <1>6, FacTypeParts DEF FacInv, FacHistoryOK

LEMMA FacChainTakes ==
    ASSUME FacInv, NEW p \in Payments, ChainTakes(p) PROVE FacInv'
<1>1. PICK c \in {"mined", "reverted"} : chain' = [chain EXCEPT ![p] = c]
  BY DEF ChainTakes
<1>2. /\ sale[p] \in Sales /\ SaleOK(sale[p], chain[p])
      /\ sale = [sale EXCEPT ![p] = sale[p]]
  BY SaleFacts DEF FacInv
<1>3. gasLeft' \in Nat
  BY DEF FacInv, FacTypeOK, ChainTakes
<1>4. SaleOK(sale[p], c)
  BY <1>2 DEF SaleOK, ChainTakes
<1>5. /\ sale' \in [Payments -> Sales] /\ SalesOK'
      /\ chain' \in [Payments -> {"none", "sent", "mined", "reverted"}]
  <2>1. Sale(p, sale[p])
    BY <1>2 DEF Sale, ChainTakes
  <2>2. c \in {"none", "sent", "mined", "reverted"}
    OBVIOUS
  <2> QED
    BY <1>1, <1>2, <1>4, <2>1, <2>2, SaleMoves DEF FacInv
<1> QED
  BY <1>3, <1>5, FacTypeParts DEF FacInv, FacRest, TalliesOK, FacHistoryOK, ChainTakes, registry,
     tallies, facHistory

LEMMA CountingFits ==
    ASSUME FacInv, NEW p \in Payments, CountSettlement(sale[p].seller) PROVE TalliesOK'
<1>1. /\ Rolled.counts \in [FacSellers -> Nat] /\ Rolled.shared \in Nat
      /\ facDay \in 0..MaxFacDay
  BY RolledFits DEF FacInv, FacTypeOK
<1> DEFINE now == Rolled.counts
           shared == Rolled.shared
           s == sale[p].seller
<1>2. /\ counts' = [now EXCEPT ![s] = @ + 1] /\ countsDay' = facDay
      /\ sharedCount' \in {shared, shared + 1}
  BY DEF CountSettlement
<1>5. now \in [FacSellers -> Nat] /\ shared \in Nat
  BY <1>1
<1> HIDE DEF now, shared, s
<1>3. counts' \in [FacSellers -> Nat]
  <2>1. CASE s \in FacSellers
    BY <1>2, <1>5, <2>1
  <2>2. CASE s \notin FacSellers
    BY <1>2, <1>5, <2>2
  <2> QED
    BY <2>1, <2>2
<1>4. sharedCount' \in Nat
  BY <1>2, <1>5
<1> QED
  BY <1>1, <1>2, <1>3, <1>4 DEF TalliesOK

LEMMA FacSettleReturns ==
    ASSUME FacInv, NEW p \in Payments, SettleReturns(p) PROVE FacInv'
<1>1. PICK told \in {"settled", "failed"} : Sale(p, [sale[p] EXCEPT !.pc = "done", !.told = told])
  BY DEF SettleReturns
<1> DEFINE x == [sale[p] EXCEPT !.pc = "done", !.told = told]
<1>2. /\ sale[p] \in Sales /\ SaleOK(sale[p], chain[p]) /\ sale[p].pc = "settling"
      /\ chain[p] \in {"none", "sent", "mined", "reverted"}
      /\ chain' = [chain EXCEPT ![p] = chain[p]] /\ Succeeded(p)
  BY SaleFacts DEF FacInv, SettleReturns
<1>3. /\ x \in Sales /\ x.pc = "done" /\ x.told = told /\ x.asked = sale[p].asked /\ x.upto = sale[p].upto
  BY <1>2 DEF Sales
<1> HIDE DEF x
<1>4. SaleOK(x, chain[p])
  BY <1>2, <1>3 DEF SaleOK, Succeeded
<1>5. sale' \in [Payments -> Sales] /\ SalesOK'
      /\ chain' \in [Payments -> {"none", "sent", "mined", "reverted"}]
  BY <1>1, <1>2, <1>3, <1>4, SaleMoves DEF FacInv, x
<1>6. TalliesOK'
  BY CountingFits DEF SettleReturns
<1>7. FacHistoryOK'
  BY DEF FacInv, FacTypeOK, FacHistoryOK, SettleReturns
<1>8. facFaults' \in 0..MaxFacFaults
  BY FacFaultFits DEF FacInv, SettleReturns, FacTypeOK
<1>9. FacRest' /\ gasSeen' = gasSeen
  BY <1>8 DEF FacInv, FacTypeOK, FacRest, SettleReturns, registry
<1> QED
  BY <1>5, <1>6, <1>7, <1>9, FacTypeParts DEF FacInv

\* The list of sellers and the table move, the sales do not.
LEMMA RegistryMoves ==
    ASSUME FacInv, listed' \subseteq NewSellers, listFile' \subseteq NewSellers,
           sellersTable' \subseteq NewSellers,
           registering' \in [NewSellers -> {"no", "checked", "inserted", "inactive", "active"}],
           facFaults' \in 0..MaxFacFaults,
           UNCHANGED <<facUp, tallies, facDay, gasLeft, gasSeen, sale, chain, facHistory>>
    PROVE  FacInv'
BY FacTypeParts DEF FacInv, FacRest, TalliesOK, FacHistoryOK, tallies, facHistory, SalesOK

LEMMA FacRegisters ==
    ASSUME FacInv, NEW s \in NewSellers, RegisterCheck(s) \/ RegisterInsert(s) \/ RegisterPush(s)
    PROVE  FacInv'
<1>1. /\ listed \subseteq NewSellers /\ listFile \subseteq NewSellers /\ sellersTable \subseteq NewSellers
      /\ facFaults \in 0..MaxFacFaults
      /\ registering \in [NewSellers -> {"no", "checked", "inserted", "inactive", "active"}]
  BY DEF FacInv, FacTypeOK
<1>2. CASE RegisterCheck(s) \/ RegisterInsert(s)
  <2>1. /\ registering' \in [NewSellers -> {"no", "checked", "inserted", "inactive", "active"}]
        /\ sellersTable' \subseteq NewSellers
    BY <1>1, <1>2 DEF RegisterCheck, RegisterInsert, Registering
  <2> QED
    BY <1>1, <1>2, <2>1, RegistryMoves DEF RegisterCheck, RegisterInsert
<1>3. CASE RegisterPush(s)
  <2>1. registering' \in [NewSellers -> {"no", "checked", "inserted", "inactive", "active"}]
    BY <1>1, <1>3 DEF RegisterPush, Registering
  <2>2. facFaults' \in 0..MaxFacFaults
    BY <1>1, <1>3, FacFaultFits DEF RegisterPush, Add, FacInv
  <2>3. listed' \subseteq NewSellers /\ listFile' \subseteq NewSellers
    BY <1>1, <1>3 DEF RegisterPush, Add
  <2> QED
    BY <1>1, <1>3, <2>1, <2>2, <2>3, RegistryMoves DEF RegisterPush
<1> QED
  BY <1>2, <1>3

LEMMA FacApiSyncs == ASSUME FacInv, ApiSyncs PROVE FacInv'
<1>1. /\ listed \subseteq NewSellers /\ listFile \subseteq NewSellers /\ sellersTable \subseteq NewSellers
      /\ registering \in [NewSellers -> {"no", "checked", "inserted", "inactive", "active"}]
  BY DEF FacInv, FacTypeOK
<1>2. registering' \in [NewSellers -> {"no", "checked", "inserted", "inactive", "active"}]
  BY <1>1 DEF ApiSyncs
<1>3. facFaults' \in 0..MaxFacFaults
  BY FacFaultFits DEF ApiSyncs, FacInv
<1>4. listed' \subseteq NewSellers /\ listFile' \subseteq NewSellers /\ sellersTable' \subseteq NewSellers
  BY <1>1 DEF ApiSyncs
<1> QED
  BY <1>2, <1>3, <1>4, RegistryMoves DEF ApiSyncs

\* What the facilitator was settling when it stopped is over for the sellers.
Cut(p) == IF sale[p].pc = "settling" THEN [sale[p] EXCEPT !.pc = "done", !.told = "failed"] ELSE sale[p]

LEMMA FacFacCrash == ASSUME FacInv, FacCrash PROVE FacInv'
<1>1. /\ sale' = [p \in Payments |-> Cut(p)] /\ chain' = chain /\ facUp' = FALSE
      /\ UNCHANGED <<registry, tallies, facDay, gasLeft, gasSeen, chain, facHistory>>
  BY DEF FacCrash, Cut
<1>2. facFaults' \in 0..MaxFacFaults
  BY FacFaultFits DEF FacCrash, FacInv
<1>3. ASSUME NEW p \in Payments PROVE Cut(p) \in Sales /\ SaleOK(Cut(p), chain[p])
  <2>1. sale[p] \in Sales /\ SaleOK(sale[p], chain[p])
    BY SaleFacts DEF FacInv
  <2>2. CASE sale[p].pc = "settling"
    BY <2>1, <2>2, EndedSaleFits DEF Cut
  <2>3. CASE sale[p].pc # "settling"
    BY <2>1, <2>3 DEF Cut
  <2> QED
    BY <2>2, <2>3
<1>4. sale' \in [Payments -> Sales] /\ SalesOK'
  BY <1>1, <1>3 DEF SalesOK
<1> QED
  BY <1>1, <1>2, <1>4, FacTypeParts DEF FacInv, FacRest, TalliesOK, FacHistoryOK, registry, tallies,
     facHistory

LEMMA FacFacStart == ASSUME FacInv, FacStart PROVE FacInv'
<1>1. TalliesOK' /\ FacHistoryOK' /\ FacRest' /\ gasSeen' \in Nat \cup {NoGasFigure}
  BY DEF FacInv, FacTypeOK, FacStart, TalliesOK, NoCounts, FacHistoryOK, FacRest
<1> QED
  BY <1>1, FacTypeParts DEF FacInv, SalesOK, FacStart

LEMMA FacNextDay == ASSUME FacInv, NextDay PROVE FacInv'
<1>1. facDay + 1 \in 0..MaxFacDay
  BY FacilitatorAssumption DEF FacInv, FacTypeOK, NextDay
<1>2. FacHistoryOK'
  BY SettlingIsFinite DEF FacInv, FacTypeOK, NextDay, FacHistoryOK
<1>3. FacRest' /\ TalliesOK'
  BY <1>1 DEF FacInv, FacTypeOK, FacRest, TalliesOK, NextDay, registry, tallies
<1> QED
  BY <1>2, <1>3, FacTypeParts DEF FacInv, SalesOK, NextDay

LEMMA FacStarts == ASSUME FacInit PROVE FacInv
<1>1. sale \in [Payments -> Sales] /\ SalesOK
  BY FreshSale DEF FacInit, SalesOK
<1>2. FacRest /\ FacHistoryOK /\ TalliesOK /\ gasSeen \in Nat \cup {NoGasFigure}
  BY FacilitatorAssumption DEF FacInit, FacRest, FacHistoryOK, TalliesOK, NoCounts
<1>3. chain \in [Payments -> {"none", "sent", "mined", "reverted"}]
  BY DEF FacInit
<1> QED
  BY <1>1, <1>2, <1>3, FacTypeParts DEF FacInv

LEMMA FacStep == FacInv /\ [FacNext]_facVars => FacInv'
<1> SUFFICES ASSUME FacInv, [FacNext]_facVars PROVE FacInv'
  OBVIOUS
<1>1. CASE UNCHANGED facVars
  BY <1>1, FacTypeParts DEF facVars, FacInv, FacRest, FacHistoryOK, TalliesOK, SalesOK
<1>2. ASSUME NEW p \in Payments,
             \/ \E s \in FacSellers, upto \in BOOLEAN, g \in GasFigures : Verify(p, s, upto, g)
             \/ \E asked \in 0..(SignedAmount + 1) : HandlerAnswers(p, asked)
             \/ \E g \in GasFigures : SettleStarts(p, g)
             \/ VerifyUnanswered(p) \/ HandlerFails(p) \/ ChainTakes(p) \/ SettleReturns(p)
             \/ SettleFails(p) \/ SettleUnanswered(p)
      PROVE  FacInv'
  BY <1>2, FacVerify, FacHandlerAnswers, FacSettleStarts, FacVerifyUnanswered, FacHandlerFails,
     FacChainTakes, FacSettleReturns, FacSettleUnanswered
<1>3. CASE \/ \E s \in NewSellers : RegisterCheck(s) \/ RegisterInsert(s) \/ RegisterPush(s)
           \/ ApiSyncs \/ FacCrash \/ FacStart \/ NextDay
  BY <1>3, FacRegisters, FacApiSyncs, FacFacCrash, FacFacStart, FacNextDay
<1> QED
  BY <1>1, <1>2, <1>3 DEF FacNext

LEMMA FacInvHolds == FacSpec => []FacInv
BY FacStarts, FacStep, PTL DEF FacSpec

\* Every variable of the facilitator and its sellers keeps its type.
THEOREM FacTypeCorrect == FacSpec => []FacTypeOK
<1>1. FacInv => FacTypeOK
  BY DEF FacInv
<1> QED
  BY <1>1, FacInvHolds, PTL

\* Whatever stops, is lost or comes late, what the seller writes down of a sale
\* is what became of its transfer.
THEOREM ReportsAreTrue == FacSpec => []SaleReportsTrue
<1>1. FacInv => SaleReportsTrue
  BY DEF FacInv, SalesOK, SaleOK, SaleReportsTrue
<1> QED
  BY <1>1, FacInvHolds, PTL

-----------------------------------------------------------------------------
(* The list of sellers survives a restart. *)

\* As long as its file can be written, the list in memory is the file's, and
\* has every seller that was told it is active.
KeptInv ==
    /\ listed = listFile
    /\ \A s \in NewSellers : registering[s] = "active" => s \in listFile

LEMMA KeptStep ==
    ASSUME FileFaults = FALSE, FacTypeOK, KeptInv, [FacNext]_facVars PROVE KeptInv'
<1>1. registering \in [NewSellers -> {"no", "checked", "inserted", "inactive", "active"}]
  BY DEF FacTypeOK
<1>2. CASE UNCHANGED registry
  BY <1>2 DEF registry, KeptInv
<1>3. CASE \E s \in NewSellers : RegisterCheck(s) \/ RegisterInsert(s)
  BY <1>1, <1>3 DEF RegisterCheck, RegisterInsert, Registering, KeptInv
<1>4. ASSUME NEW s \in NewSellers, RegisterPush(s) PROVE KeptInv'
  <2>1. CASE Add(s)
    <3>1. listed' = listed \cup {s} /\ listFile' = listed'
      BY <2>1 DEF Add, KeptInv
    <3>2. registering' \in {[registering EXCEPT ![s] = "active"], [registering EXCEPT ![s] = "inactive"]}
      BY <1>4 DEF RegisterPush, Registering
    <3> QED
      BY <1>1, <3>1, <3>2 DEF KeptInv
  <2>2. CASE Registering(s, "inactive") /\ UNCHANGED <<listed, listFile>>
    BY <1>1, <2>2 DEF Registering, KeptInv
  <2> QED
    BY <1>4, <2>1, <2>2 DEF RegisterPush
<1>5. CASE ApiSyncs
  <2>1. \A s \in NewSellers : registering'[s] = "active" => registering[s] = "active"
    BY <1>5 DEF ApiSyncs
  <2>2. listed' = listFile' /\ listFile \subseteq listFile'
    BY <1>5 DEF ApiSyncs, KeptInv
  <2> QED
    BY <2>1, <2>2 DEF KeptInv
<1>6. CASE FacStart
  BY <1>6 DEF FacStart, KeptInv
<1> QED
  BY <1>2, <1>3, <1>4, <1>5, <1>6 DEF FacNext, facVars, registry, Verify, HandlerAnswers, SettleStarts,
     VerifyUnanswered, HandlerFails, ChainTakes, SettleReturns, SettleFails, SettleUnanswered,
     FacCrash, NextDay

\* A seller that was told it is active is on the list whenever the facilitator
\* runs, however often it stops, if its file could be written each time.
THEOREM ListSurvives == ASSUME FileFaults = FALSE PROVE FacSpec => []ActiveSellersKept
<1>1. FacInit => KeptInv
  BY DEF FacInit, KeptInv
<1>2. FacTypeOK /\ KeptInv /\ [FacNext]_facVars => KeptInv'
  BY KeptStep
<1>3. KeptInv => ActiveSellersKept
  BY DEF KeptInv, ActiveSellersKept
<1> QED
  BY <1>1, <1>2, <1>3, FacTypeCorrect, PTL DEF FacSpec

-----------------------------------------------------------------------------
(* The allowances. *)

DoneFor(S) == {p \in settledOn[facDay] : sale[p].seller \in S}

\* The registry counted what was settled today, and what is settling for a
\* registered seller was checked against a list that still has it.
CountInv ==
    /\ countsDay <= facDay
    /\ \A d \in 0..MaxFacDay : d > facDay => settledOn[d] = {}
    /\ \A p \in settledOn[facDay] : sale[p].pc = "done"
    /\ countsDay # facDay => settledOn[facDay] = {}
    /\ countsDay = facDay =>
         /\ \A s \in NewSellers : counts[s] = Cardinality(DoneFor({s}))
         /\ sharedCount = Cardinality(DoneFor(NewSellers))
    /\ \A p \in Payments : sale[p].pc = "settling" /\ sale[p].seller \in NewSellers =>
         facUp /\ sale[p].seller \in listed

\* What was settled and what is settling stay within the allowance together:
\* checked before, counted after.
WithinInv ==
    /\ \A s \in NewSellers :
         Cardinality(DoneFor({s})) + Cardinality(SettlingFor({s})) <= SellerDayCap - 1 + together[facDay]
    /\ Cardinality(DoneFor(NewSellers)) + Cardinality(SettlingFor(NewSellers))
         <= SharedDayCap - 1 + together[facDay]

AllowInv == CountInv /\ WithinInv

LEMMA PaymentsAreFinite ==
    ASSUME NEW T, T \subseteq Payments
    PROVE  IsFiniteSet(T) /\ Cardinality(T) \in Nat
BY FS_Subset, FS_CardinalityType, FacilitatorAssumption

LEMMA OneMorePayment ==
    ASSUME NEW T, T \subseteq Payments, NEW p \in Payments, p \notin T
    PROVE  Cardinality(T \cup {p}) = Cardinality(T) + 1
BY PaymentsAreFinite, FS_AddElement

LEMMA FewerPayments ==
    ASSUME NEW T, T \subseteq Payments, NEW U, U \subseteq T
    PROVE  Cardinality(U) <= Cardinality(T) /\ Cardinality(U) \in Nat /\ Cardinality(T) \in Nat
<1>1. IsFiniteSet(T)
  BY PaymentsAreFinite
<1> QED
  BY <1>1, FS_Subset, FS_CardinalityType

LEMMA NonePaid == Cardinality({}) = 0
BY FS_EmptySet

LEMMA DoneFits ==
    ASSUME FacTypeOK, NEW S
    PROVE  /\ DoneFor(S) \subseteq Payments /\ SettlingFor(S) \subseteq Payments
           /\ Cardinality(DoneFor(S)) \in Nat /\ Cardinality(SettlingFor(S)) \in Nat
           /\ facDay \in 0..MaxFacDay /\ together[facDay] \in Nat
<1>1. DoneFor(S) \subseteq Payments /\ SettlingFor(S) \subseteq Payments
  BY DEF FacTypeOK, DoneFor, SettlingFor
<1> QED
  BY <1>1, PaymentsAreFinite DEF FacTypeOK

\* What a seller counted today, rolled, is what was settled for it today.
LEMMA RolledIsDone ==
    ASSUME FacTypeOK, CountInv
    PROVE  /\ \A s \in NewSellers : Rolled.counts[s] = Cardinality(DoneFor({s}))
           /\ Rolled.shared = Cardinality(DoneFor(NewSellers))
<1>1. CASE countsDay = facDay
  BY <1>1, RolledFits DEF CountInv
<1>2. CASE countsDay # facDay
  <2>1. \A S : DoneFor(S) = {}
    BY <1>2 DEF CountInv, DoneFor
  <2>2. \A s \in NewSellers : NoCounts[s] = 0
    BY DEF NoCounts, FacSellers
  <2> QED
    BY <1>2, <2>1, <2>2, RolledFits, NonePaid
<1> QED
  BY <1>1, <1>2

\* A step in which no settlement begins and none is counted.
LEMMA NothingSettles ==
    ASSUME FacTypeOK, AllowInv,
           \A q \in Payments :
             /\ sale[q].pc = "done" => sale'[q] = sale[q]
             /\ sale'[q].pc = "settling" => sale'[q] = sale[q] /\ facUp' = facUp,
           UNCHANGED <<facDay, facHistory>>, listed \subseteq listed',
           UNCHANGED tallies \/ Roll
    PROVE  AllowInv'
<1>1. /\ settledOn' = settledOn /\ together' = together /\ facDay' = facDay
      /\ settledOn[facDay] \subseteq Payments
  BY DEF facHistory, FacTypeOK
<1>2. \A p \in settledOn[facDay] : sale[p].pc = "done" /\ sale'[p] = sale[p]
  BY <1>1 DEF AllowInv, CountInv
<1>3. ASSUME NEW S PROVE DoneFor(S)' = DoneFor(S)
  BY <1>1, <1>2 DEF DoneFor
<1>4. ASSUME NEW S PROVE SettlingFor(S)' \subseteq SettlingFor(S)
  BY DEF SettlingFor
<1>5. ASSUME NEW S
      PROVE  /\ Cardinality(DoneFor(S)') = Cardinality(DoneFor(S))
             /\ Cardinality(SettlingFor(S)') <= Cardinality(SettlingFor(S))
             /\ Cardinality(SettlingFor(S)') \in Nat /\ Cardinality(SettlingFor(S)) \in Nat
             /\ Cardinality(DoneFor(S)) \in Nat
  BY <1>3, <1>4, DoneFits, FewerPayments
<1>6. together[facDay] \in Nat
  BY DEF FacTypeOK
<1>7. WithinInv'
  <2>1. ASSUME NEW S, NEW cap \in Nat,
               Cardinality(DoneFor(S)) + Cardinality(SettlingFor(S)) <= cap - 1 + together[facDay]
        PROVE  Cardinality(DoneFor(S)') + Cardinality(SettlingFor(S)') <= cap - 1 + together'[facDay']
    <3> DEFINE a == Cardinality(DoneFor(S))
               b == Cardinality(SettlingFor(S))
               c == Cardinality(SettlingFor(S)')
               e == together[facDay]
    <3>1. a \in Nat /\ b \in Nat /\ c \in Nat /\ c <= b /\ e \in Nat
      BY <1>5, <1>6
    <3>2. a + b <= cap - 1 + e
      BY <2>1
    <3> HIDE DEF a, b, c, e
    <3>3. a + c <= cap - 1 + e
      BY <3>1, <3>2
    <3> QED
      BY <1>1, <1>5, <3>3 DEF a, c, e
  <2> QED
    BY <2>1, FacilitatorAssumption DEF AllowInv, WithinInv
<1>8. CountInv'
  <2>1. CASE UNCHANGED tallies
    BY <1>1, <1>2, <1>5, <2>1 DEF AllowInv, CountInv, tallies
  <2>2. CASE Roll
    <3>1. /\ \A s \in NewSellers : counts'[s] = Cardinality(DoneFor({s}))
          /\ sharedCount' = Cardinality(DoneFor(NewSellers)) /\ countsDay' = facDay
      BY <2>2, RolledIsDone DEF Roll, AllowInv
    <3>2. facDay \in Int
      BY DEF FacTypeOK
    <3>3. /\ \A s \in NewSellers : counts'[s] = Cardinality(DoneFor({s})')
          /\ sharedCount' = Cardinality(DoneFor(NewSellers)')
      BY <1>5, <3>1
    <3>4. /\ countsDay' <= facDay' /\ countsDay' = facDay'
          /\ \A d \in 0..MaxFacDay : d > facDay' => settledOn'[d] = {}
          /\ \A p \in settledOn'[facDay'] : sale'[p].pc = "done"
      BY <1>1, <1>2, <3>1, <3>2 DEF AllowInv, CountInv
    <3>5. \A p \in Payments : sale'[p].pc = "settling" /\ sale'[p].seller \in NewSellers =>
            facUp' /\ sale'[p].seller \in listed'
      BY DEF AllowInv, CountInv
    <3> QED
      BY <3>3, <3>4, <3>5 DEF CountInv
  <2> QED
    BY <2>1, <2>2
<1> QED
  BY <1>7, <1>8 DEF AllowInv

\* A sale that moves but does not begin to settle.
LEMMA SaleMovesQuietly ==
    ASSUME FacTypeOK, AllowInv, NEW p \in Payments, sale[p].pc # "done", NEW x, x.pc # "settling",
           Sale(p, x), UNCHANGED <<facUp, facDay, facHistory, listed>>, UNCHANGED tallies \/ Roll
    PROVE  AllowInv'
<1>1. sale' = [sale EXCEPT ![p] = x] /\ sale \in [Payments -> Sales]
  BY FacTypeParts DEF Sale
<1>2. ASSUME NEW q \in Payments
      PROVE  /\ sale[q].pc = "done" => sale'[q] = sale[q]
             /\ sale'[q].pc = "settling" => sale'[q] = sale[q] /\ facUp' = facUp
  BY <1>1
<1> QED
  BY <1>2, NothingSettles

LEMMA AllowQuiet ==
    ASSUME FacInv, AllowInv, NEW p \in Payments,
           \/ \E s \in FacSellers, upto \in BOOLEAN, g \in GasFigures : Verify(p, s, upto, g)
           \/ \E asked \in 0..(SignedAmount + 1) : HandlerAnswers(p, asked)
           \/ VerifyUnanswered(p) \/ HandlerFails(p) \/ SettleFails(p) \/ SettleUnanswered(p)
    PROVE  AllowInv'
<1>1. FacTypeOK /\ sale[p] \in Sales /\ NewSale \in Sales
  BY SaleFacts, FreshSale DEF FacInv
<1>2. ASSUME NEW s \in FacSellers, NEW upto \in BOOLEAN, NEW g \in GasFigures, Verify(p, s, upto, g)
      PROVE  AllowInv'
  <2> DEFINE good == [NewSale EXCEPT !.pc = "verified", !.seller = s, !.upto = upto]
             bad == [NewSale EXCEPT !.pc = "done", !.seller = s, !.told = "refused"]
  <2>1. good.pc = "verified" /\ bad.pc = "done"
    BY <1>1 DEF Sales
  <2>2. Sale(p, good) \/ Sale(p, bad)
    BY <1>2 DEF Verify
  <2>3. /\ sale[p].pc = "new" /\ UNCHANGED <<facUp, facDay, facHistory, listed>>
        /\ UNCHANGED tallies \/ Roll
    BY <1>2 DEF Verify, HooksRan, registry
  <2> HIDE DEF good, bad
  <2> QED
    BY <1>1, <2>1, <2>2, <2>3, SaleMovesQuietly
<1>3. ASSUME NEW asked, HandlerAnswers(p, asked) PROVE AllowInv'
  <2> DEFINE x == [sale[p] EXCEPT !.pc = "answered", !.asked = UptoCharge(asked)]
  <2>1. x.pc = "answered"
    BY <1>1 DEF Sales
  <2>2. Sale(p, x)
    BY <1>3 DEF HandlerAnswers
  <2> HIDE DEF x
  <2> QED
    BY <1>1, <1>3, <2>1, <2>2, SaleMovesQuietly DEF HandlerAnswers, registry
<1>4. CASE VerifyUnanswered(p)
  <2> DEFINE x == [NewSale EXCEPT !.pc = "done", !.told = "refused"]
  <2>1. x.pc = "done"
    BY <1>1 DEF Sales
  <2>2. Sale(p, x)
    BY <1>4 DEF VerifyUnanswered
  <2> HIDE DEF x
  <2> QED
    BY <1>1, <1>4, <2>1, <2>2, SaleMovesQuietly DEF VerifyUnanswered, registry
<1>5. CASE HandlerFails(p) \/ SettleFails(p) \/ SettleUnanswered(p)
  <2>1. PICK told \in {"not_charged", "failed"} : Sale(p, [sale[p] EXCEPT !.pc = "done", !.told = told])
    BY <1>5 DEF HandlerFails, SettleFails, SettleUnanswered
  <2> DEFINE x == [sale[p] EXCEPT !.pc = "done", !.told = told]
  <2>2. x.pc = "done"
    BY <1>1 DEF Sales
  <2>3. Sale(p, x)
    BY <2>1
  <2> HIDE DEF x
  <2> QED
    BY <1>1, <1>5, <2>2, <2>3, SaleMovesQuietly DEF HandlerFails, SettleFails, SettleUnanswered, registry
<1> QED
  BY <1>2, <1>3, <1>4, <1>5

\* The sales stay as they are, or are cut.
LEMMA AllowSameSales ==
    ASSUME FacInv, AllowInv,
           \/ \E p \in Payments : ChainTakes(p)
           \/ \E s \in NewSellers : RegisterCheck(s) \/ RegisterInsert(s) \/ RegisterPush(s)
           \/ ApiSyncs \/ FacCrash
    PROVE  AllowInv'
<1>1. FacTypeOK
  BY DEF FacInv
<1>2. CASE \/ \E p \in Payments : ChainTakes(p)
           \/ \E s \in NewSellers : RegisterCheck(s) \/ RegisterInsert(s) \/ RegisterPush(s)
           \/ ApiSyncs
  <2>1. UNCHANGED <<sale, facUp, facDay, facHistory, tallies>> /\ listed \subseteq listed'
    BY <1>2 DEF ChainTakes, RegisterCheck, RegisterInsert, RegisterPush, Add, ApiSyncs, registry
  <2> QED
    BY <1>1, <2>1, NothingSettles
<1>3. CASE FacCrash
  <2>1. sale' = [p \in Payments |-> Cut(p)] /\ UNCHANGED <<facDay, facHistory, tallies, listed>>
    BY <1>3 DEF FacCrash, Cut, registry
  <2>2. ASSUME NEW q \in Payments
        PROVE  /\ sale[q].pc = "done" => sale'[q] = sale[q]
               /\ sale'[q].pc # "settling"
    <3>1. sale[q] \in Sales /\ sale'[q] = Cut(q)
      BY <2>1, SaleFacts DEF FacInv
    <3> QED
      BY <3>1 DEF Cut, Sales
  <2> QED
    BY <1>1, <2>1, <2>2, NothingSettles
<1> QED
  BY <1>2, <1>3

LEMMA AllowFacStart == ASSUME FacInv, AllowInv, FacStart PROVE AllowInv'
<1>1. FacTypeOK /\ facDay \in 0..MaxFacDay
  BY DEF FacInv, FacTypeOK
<1>2. /\ sale' = sale /\ settledOn' = [settledOn EXCEPT ![facDay] = {}] /\ facDay' = facDay
      /\ together' = together /\ counts' = NoCounts /\ sharedCount' = 0 /\ countsDay' = facDay
      /\ ~facUp
  BY DEF FacStart
<1>3. settledOn'[facDay] = {}
  BY <1>1, <1>2 DEF FacTypeOK
<1>4. ASSUME NEW S PROVE DoneFor(S)' = {}
  BY <1>2, <1>3 DEF DoneFor
<1>5. \A p \in Payments : ~(sale[p].pc = "settling" /\ sale[p].seller \in NewSellers)
  BY <1>2 DEF AllowInv, CountInv
<1>6. ASSUME NEW S, S \subseteq NewSellers PROVE SettlingFor(S)' = {}
  BY <1>2, <1>5, <1>6 DEF SettlingFor
<1>7. WithinInv'
  <2>1. together[facDay] \in Nat
    BY <1>1 DEF FacTypeOK
  <2>2. \A S \in SUBSET NewSellers : Cardinality(DoneFor(S)') = 0 /\ Cardinality(SettlingFor(S)') = 0
    BY <1>4, <1>6, NonePaid
  <2>3. together'[facDay'] \in Nat /\ SellerDayCap - 1 \in Nat /\ SharedDayCap - 1 \in Nat
    BY <1>2, <2>1, FacilitatorAssumption
  <2>4. /\ Cardinality(DoneFor(NewSellers)') = 0 /\ Cardinality(SettlingFor(NewSellers)') = 0
        /\ \A s \in NewSellers : Cardinality(DoneFor({s})') = 0 /\ Cardinality(SettlingFor({s})') = 0
    BY <2>2
  <2> QED
    BY <2>3, <2>4 DEF WithinInv
<1>8. CountInv'
  <2>1. \A s \in NewSellers : NoCounts[s] = 0
    BY DEF NoCounts, FacSellers
  <2>2. \A d \in 0..MaxFacDay : d > facDay' => settledOn'[d] = {}
    BY <1>1, <1>2 DEF AllowInv, CountInv, FacTypeOK
  <2> QED
    BY <1>1, <1>2, <1>3, <1>4, <1>5, <2>1, <2>2, NonePaid DEF CountInv
<1> QED
  BY <1>7, <1>8 DEF AllowInv

LEMMA AllowNextDay == ASSUME FacInv, AllowInv, NextDay PROVE AllowInv'
<1>1. FacTypeOK /\ facDay \in 0..MaxFacDay /\ facDay + 1 \in 0..MaxFacDay /\ countsDay \in Nat
  BY FacilitatorAssumption DEF FacInv, FacTypeOK, NextDay
<1>2. /\ sale' = sale /\ settledOn' = settledOn /\ facDay' = facDay + 1
      /\ together' = [together EXCEPT ![facDay + 1] = Cardinality(SettlingFor(NewSellers))]
      /\ UNCHANGED <<listed, facUp, countsDay>>
  BY DEF NextDay, facHistory, registry, tallies
<1>3. settledOn'[facDay'] = {}
  BY <1>1, <1>2 DEF AllowInv, CountInv
<1>4. ASSUME NEW S PROVE DoneFor(S)' = {}
  BY <1>2, <1>3 DEF DoneFor
<1>5. ASSUME NEW S PROVE SettlingFor(S)' = SettlingFor(S)
  BY <1>2 DEF SettlingFor
<1>6. together'[facDay'] = Cardinality(SettlingFor(NewSellers))
  BY <1>1, <1>2 DEF FacTypeOK
<1>7. WithinInv'
  <2>1. ASSUME NEW s \in NewSellers
        PROVE  Cardinality(DoneFor({s})') + Cardinality(SettlingFor({s})')
                 <= SellerDayCap - 1 + together'[facDay']
    <3>1. SettlingFor({s}) \subseteq SettlingFor(NewSellers)
      BY DEF SettlingFor
    <3>2. /\ Cardinality(SettlingFor({s})) <= Cardinality(SettlingFor(NewSellers))
          /\ Cardinality(SettlingFor({s})) \in Nat /\ Cardinality(SettlingFor(NewSellers)) \in Nat
      BY <1>1, <3>1, FewerPayments, DoneFits
    <3>3. Cardinality(DoneFor({s})') = 0 /\ Cardinality(SettlingFor({s})') = Cardinality(SettlingFor({s}))
      BY <1>4, <1>5, NonePaid
    <3> QED
      BY <1>6, <3>2, <3>3, FacilitatorAssumption
  <2>2. Cardinality(DoneFor(NewSellers)') + Cardinality(SettlingFor(NewSellers)')
          <= SharedDayCap - 1 + together'[facDay']
    <3>1. Cardinality(SettlingFor(NewSellers)) \in Nat
      BY <1>1, DoneFits
    <3>2. /\ Cardinality(DoneFor(NewSellers)') = 0
          /\ Cardinality(SettlingFor(NewSellers)') = Cardinality(SettlingFor(NewSellers))
      BY <1>4, <1>5, NonePaid
    <3> QED
      BY <1>6, <3>1, <3>2, FacilitatorAssumption
  <2> QED
    BY <2>1, <2>2 DEF WithinInv
<1>8. CountInv'
  <2>1. countsDay' <= facDay' /\ countsDay' # facDay'
    BY <1>1, <1>2 DEF AllowInv, CountInv
  <2>2. \A d \in 0..MaxFacDay : d > facDay' => settledOn'[d] = {}
    BY <1>1, <1>2 DEF AllowInv, CountInv
  <2>3. \A p \in Payments : sale'[p].pc = "settling" /\ sale'[p].seller \in NewSellers =>
            facUp' /\ sale'[p].seller \in listed'
    BY <1>2 DEF AllowInv, CountInv
  <2> QED
    BY <1>3, <2>1, <2>2, <2>3 DEF CountInv
<1> QED
  BY <1>7, <1>8 DEF AllowInv

\* A settlement that starts: its seller had allowance left, and what is under
\* way is one more.
LEMMA AllowSettleStarts ==
    ASSUME FacInv, AllowInv, NEW p \in Payments, NEW g \in GasFigures, SettleStarts(p, g)
    PROVE  AllowInv'
<1> DEFINE s == sale[p].seller
           x == [sale[p] EXCEPT !.pc = "settling"]
           y == [sale[p] EXCEPT !.pc = "done", !.told = "failed"]
           more == Cardinality(SettlingFor(NewSellers)) + 1
<1>1. /\ FacTypeOK /\ sale[p] \in Sales /\ sale[p].pc = "answered" /\ sale \in [Payments -> Sales]
      /\ facDay \in 0..MaxFacDay /\ together \in [0..MaxFacDay -> Nat]
      /\ settledOn[facDay] \subseteq Payments
  BY SaleFacts, FacTypeParts DEF FacInv, SettleStarts, FacTypeOK
<1>2. /\ settledOn' = settledOn /\ facDay' = facDay /\ facUp' = facUp /\ listed' = listed
      /\ UNCHANGED tallies \/ Roll
      /\ facUp
  BY DEF SettleStarts, HooksRan, registry
<1>3. CASE ~Agrees(s, sale[p].asked, sale[p].upto, g)
  <2>1. Sale(p, y) /\ UNCHANGED <<facUp, facDay, facHistory, listed>>
    BY <1>3 DEF SettleStarts, facHistory, registry
  <2>2. y.pc = "done"
    BY <1>1 DEF Sales
  <2> HIDE DEF y
  <2> QED
    BY <1>1, <1>2, <2>1, <2>2, SaleMovesQuietly
<1>4. CASE Agrees(s, sale[p].asked, sale[p].upto, g)
  <2>1. /\ sale' = [sale EXCEPT ![p] = x]
        /\ together' = [together EXCEPT ![facDay] = IF more > @ THEN more ELSE @]
    BY <1>4 DEF SettleStarts, Sale
  <2>2. x.pc = "settling" /\ x.seller = s
    BY <1>1 DEF Sales
  <2> HIDE DEF x
  <2>3. sale'[p] = x /\ \A q \in Payments : q # p => sale'[q] = sale[q]
    BY <1>1, <2>1
  <2>4. /\ more \in Nat /\ together'[facDay] \in Nat
        /\ together'[facDay] >= more /\ together'[facDay] >= together[facDay]
    <3>1. more \in Nat
      BY SettlingIsFinite
    <3>2. together[facDay] \in Nat
      BY <1>1
    <3> HIDE DEF more
    <3>3. together'[facDay] = IF more > together[facDay] THEN more ELSE together[facDay]
      BY <1>1, <2>1
    <3> QED
      BY <3>1, <3>2, <3>3
  <2>5. \A q \in settledOn[facDay] : sale[q].pc = "done" /\ q # p /\ q \in Payments /\ sale'[q] = sale[q]
    BY <1>1, <2>3 DEF AllowInv, CountInv
  <2>6. ASSUME NEW S PROVE DoneFor(S)' = DoneFor(S)
    BY <1>2, <2>5 DEF DoneFor
  <2>7. s \in NewSellers =>
          /\ s \in listed
          /\ Cardinality(DoneFor({s})) <= SellerDayCap - 1
          /\ Cardinality(DoneFor(NewSellers)) <= SharedDayCap - 1
    <3> SUFFICES ASSUME s \in NewSellers
                 PROVE  /\ s \in listed
                        /\ Cardinality(DoneFor({s})) <= SellerDayCap - 1
                        /\ Cardinality(DoneFor(NewSellers)) <= SharedDayCap - 1
      OBVIOUS
    <3>1. s \notin OwnSellers
      BY FacilitatorAssumption
    <3>2. s \in listed /\ Allowance(s) = "none"
      BY <1>4, <3>1 DEF Agrees, GuardPasses, MayUseGas
    <3>3. ~(Rolled.counts[s] >= SellerDayCap) /\ ~(Rolled.shared >= SharedDayCap)
      BY <3>2 DEF Allowance
    <3>4. /\ Rolled.counts[s] = Cardinality(DoneFor({s})) /\ Rolled.shared = Cardinality(DoneFor(NewSellers))
      BY <1>1, RolledIsDone DEF AllowInv
    <3>5. Cardinality(DoneFor({s})) \in Nat /\ Cardinality(DoneFor(NewSellers)) \in Nat
      BY <1>1, DoneFits
    <3> HIDE DEF s
    <3> QED
      BY <3>2, <3>3, <3>4, <3>5, FacilitatorAssumption
  <2>8. ASSUME NEW S
        PROVE  /\ s \notin S => SettlingFor(S)' = SettlingFor(S)
               /\ s \in S => SettlingFor(S)' = SettlingFor(S) \cup {p}
               /\ p \notin SettlingFor(S)
    BY <1>1, <2>2, <2>3 DEF SettlingFor
  <2>9. ASSUME NEW S, NEW cap \in Nat \ {0}, S \subseteq NewSellers,
               Cardinality(DoneFor(S)) + Cardinality(SettlingFor(S)) <= cap - 1 + together[facDay],
               s \in S => Cardinality(DoneFor(S)) <= cap - 1
        PROVE  Cardinality(DoneFor(S)') + Cardinality(SettlingFor(S)') <= cap - 1 + together'[facDay']
    <3> DEFINE a == Cardinality(DoneFor(S))
               b == Cardinality(SettlingFor(S))
               c == Cardinality(SettlingFor(NewSellers))
               e == together[facDay]
               f == together'[facDay]
               h == Cardinality(SettlingFor(S)')
    <3>1. a \in Nat /\ b \in Nat /\ c \in Nat /\ e \in Nat /\ SettlingFor(S) \subseteq Payments
      BY <1>1, DoneFits
    <3>2. f \in Nat /\ f >= c + 1 /\ f >= e /\ a + b <= cap - 1 + e
      BY <2>4, <2>9
    <3>3. b <= c
      <4>1. SettlingFor(S) \subseteq SettlingFor(NewSellers)
        BY <2>9 DEF SettlingFor
      <4> QED
        BY <1>1, <4>1, DoneFits, FewerPayments
    <3>4. s \in S => h = b + 1 /\ a <= cap - 1
      BY <2>8, <2>9, <3>1, OneMorePayment
    <3>5. s \notin S => h = b
      BY <2>8
    <3> HIDE DEF a, b, c, e, f, h, s
    <3>6. a + h <= cap - 1 + f
      BY <3>1, <3>2, <3>3, <3>4, <3>5
    <3> QED
      BY <1>2, <2>6, <3>6 DEF a, f, h
  <2>10. WithinInv'
    <3>1. ASSUME NEW u \in NewSellers
          PROVE  Cardinality(DoneFor({u})') + Cardinality(SettlingFor({u})')
                   <= SellerDayCap - 1 + together'[facDay']
      <4>1. Cardinality(DoneFor({u})) + Cardinality(SettlingFor({u})) <= SellerDayCap - 1 + together[facDay]
        BY DEF AllowInv, WithinInv
      <4>2. s \in {u} => Cardinality(DoneFor({u})) <= SellerDayCap - 1
        BY <2>7
      <4> QED
        BY <2>9, <4>1, <4>2, FacilitatorAssumption
    <3>2. Cardinality(DoneFor(NewSellers)') + Cardinality(SettlingFor(NewSellers)')
            <= SharedDayCap - 1 + together'[facDay']
      BY <2>7, <2>9, FacilitatorAssumption DEF AllowInv, WithinInv
    <3> QED
      BY <3>1, <3>2 DEF WithinInv
  <2>11. CountInv'
    <3>1. /\ \A d \in 0..MaxFacDay : d > facDay' => settledOn'[d] = {}
          /\ \A q \in settledOn'[facDay'] : sale'[q].pc = "done"
      BY <1>2, <2>5 DEF AllowInv, CountInv
    <3>2. \A q \in Payments : sale'[q].pc = "settling" /\ sale'[q].seller \in NewSellers =>
            facUp' /\ sale'[q].seller \in listed'
      <4> SUFFICES ASSUME NEW q \in Payments, sale'[q].pc = "settling", sale'[q].seller \in NewSellers
                   PROVE  facUp' /\ sale'[q].seller \in listed'
        OBVIOUS
      <4>1. CASE q = p
        BY <1>2, <2>2, <2>3, <2>7, <4>1
      <4>2. CASE q # p
        BY <1>2, <2>3, <4>2 DEF AllowInv, CountInv
      <4> QED
        BY <4>1, <4>2
    <3>3. /\ countsDay' <= facDay'
          /\ countsDay' # facDay' => settledOn'[facDay'] = {}
          /\ countsDay' = facDay' =>
               /\ \A u \in NewSellers : counts'[u] = Cardinality(DoneFor({u}))
               /\ sharedCount' = Cardinality(DoneFor(NewSellers))
      <4>1. CASE UNCHANGED tallies
        BY <1>2, <4>1 DEF AllowInv, CountInv, tallies
      <4>2. CASE Roll
        BY <1>1, <1>2, <4>2, RolledIsDone DEF Roll, AllowInv
      <4> QED
        BY <1>2, <4>1, <4>2
    <3>4. countsDay' = facDay' =>
               /\ \A u \in NewSellers : counts'[u] = Cardinality(DoneFor({u})')
               /\ sharedCount' = Cardinality(DoneFor(NewSellers)')
      BY <2>6, <3>3
    <3> QED
      BY <3>1, <3>2, <3>3, <3>4 DEF CountInv
  <2> QED
    BY <2>10, <2>11 DEF AllowInv
<1> QED
  BY <1>3, <1>4

\* A settlement that returns is counted once: one less is settling.
LEMMA AllowSettleReturns ==
    ASSUME FacInv, AllowInv, NEW p \in Payments, SettleReturns(p) PROVE AllowInv'
<1>1. PICK told \in {"settled", "failed"} : Sale(p, [sale[p] EXCEPT !.pc = "done", !.told = told])
  BY DEF SettleReturns
<1> DEFINE s == sale[p].seller
           x == [sale[p] EXCEPT !.pc = "done", !.told = told]
<1>2. /\ FacTypeOK /\ sale[p] \in Sales /\ sale[p].pc = "settling" /\ sale \in [Payments -> Sales]
      /\ facDay \in 0..MaxFacDay /\ settledOn \in [0..MaxFacDay -> SUBSET Payments]
      /\ s \in FacSellers \cup {NoSale} /\ listed \subseteq NewSellers
      /\ together[facDay] \in Nat
  BY SaleFacts, FacTypeParts DEF FacInv, SettleReturns, FacTypeOK, Sales
<1>3. /\ settledOn' = [settledOn EXCEPT ![facDay] = @ \cup {p}] /\ facDay' = facDay
      /\ facUp' = facUp /\ listed' = listed /\ together' = together /\ CountSettlement(s)
  BY DEF SettleReturns, registry
<1>4. x.pc = "done" /\ x.seller = s /\ sale' = [sale EXCEPT ![p] = x]
  BY <1>1, <1>2 DEF Sales, Sale
<1> HIDE DEF x
<1>5. sale'[p] = x /\ \A q \in Payments : q # p => sale'[q] = sale[q]
  BY <1>2, <1>4
<1>6. settledOn'[facDay] = settledOn[facDay] \cup {p} /\ settledOn[facDay] \subseteq Payments
  BY <1>2, <1>3
<1>7. \A q \in settledOn[facDay] : sale[q].pc = "done" /\ q # p /\ q \in Payments /\ sale'[q] = sale[q]
  BY <1>2, <1>5, <1>6 DEF AllowInv, CountInv
<1>8. ASSUME NEW S
      PROVE  /\ s \notin S => DoneFor(S)' = DoneFor(S) /\ SettlingFor(S)' = SettlingFor(S)
             /\ s \in S => DoneFor(S)' = DoneFor(S) \cup {p} /\ SettlingFor(S) = SettlingFor(S)' \cup {p}
             /\ p \notin DoneFor(S) /\ p \notin SettlingFor(S)'
             /\ SettlingFor(S)' \subseteq Payments /\ DoneFor(S) \subseteq Payments
  <2>1. s \notin S => DoneFor(S)' = DoneFor(S)
    BY <1>3, <1>4, <1>5, <1>6, <1>7 DEF DoneFor
  <2>2. s \in S => DoneFor(S)' = DoneFor(S) \cup {p}
    BY <1>3, <1>4, <1>5, <1>6, <1>7 DEF DoneFor
  <2>3. /\ s \notin S => SettlingFor(S)' = SettlingFor(S)
        /\ s \in S => SettlingFor(S) = SettlingFor(S)' \cup {p}
        /\ p \notin SettlingFor(S)' /\ SettlingFor(S)' \subseteq Payments
    BY <1>2, <1>4, <1>5 DEF SettlingFor
  <2>4. p \notin DoneFor(S) /\ DoneFor(S) \subseteq Payments
    BY <1>6, <1>7 DEF DoneFor
  <2> QED
    BY <2>1, <2>2, <2>3, <2>4
<1>9. ASSUME NEW S
      PROVE  /\ Cardinality(DoneFor(S)') = IF s \in S THEN Cardinality(DoneFor(S)) + 1 ELSE Cardinality(DoneFor(S))
             /\ Cardinality(DoneFor(S)') + Cardinality(SettlingFor(S)')
                  = Cardinality(DoneFor(S)) + Cardinality(SettlingFor(S))
  <2>1. /\ Cardinality(DoneFor(S)) \in Nat /\ Cardinality(SettlingFor(S)') \in Nat
    BY <1>8, PaymentsAreFinite
  <2>2. CASE s \in S
    <3>1. Cardinality(DoneFor(S)') = Cardinality(DoneFor(S)) + 1
      BY <1>8, <2>2, OneMorePayment
    <3>2. Cardinality(SettlingFor(S)) = Cardinality(SettlingFor(S)') + 1
      BY <1>8, <2>2, OneMorePayment
    <3> QED
      BY <2>1, <2>2, <3>1, <3>2
  <2>3. CASE s \notin S
    BY <1>8, <2>3
  <2> QED
    BY <2>2, <2>3
<1>10. WithinInv'
  <2>1. /\ \A u \in NewSellers : Cardinality(DoneFor({u})') + Cardinality(SettlingFor({u})')
                  = Cardinality(DoneFor({u})) + Cardinality(SettlingFor({u}))
        /\ Cardinality(DoneFor(NewSellers)') + Cardinality(SettlingFor(NewSellers)')
             = Cardinality(DoneFor(NewSellers)) + Cardinality(SettlingFor(NewSellers))
    BY <1>9
  <2> QED
    BY <1>3, <2>1 DEF AllowInv, WithinInv
<1>11. CountInv'
  <2> DEFINE now == Rolled.counts
             shared == Rolled.shared
  <2>1. /\ counts' = [now EXCEPT ![s] = @ + 1] /\ countsDay' = facDay
        /\ sharedCount' = IF s \in listed THEN shared + 1 ELSE shared
    BY <1>3 DEF CountSettlement
  <2>2. /\ now \in [FacSellers -> Nat] /\ shared = Cardinality(DoneFor(NewSellers))
        /\ \A u \in NewSellers : now[u] = Cardinality(DoneFor({u}))
    BY <1>2, RolledFits, RolledIsDone DEF AllowInv
  <2>3. NewSellers \subseteq FacSellers
    BY DEF FacSellers
  <2>4. s \in listed <=> s \in NewSellers
    BY <1>2 DEF AllowInv, CountInv
  <2> HIDE DEF now, shared, s
  <2>5. \A u \in NewSellers : counts'[u] = IF u = s THEN now[u] + 1 ELSE now[u]
    BY <2>1, <2>2, <2>3
  <2>6. ASSUME NEW u \in NewSellers PROVE counts'[u] = Cardinality(DoneFor({u})')
    BY <1>9, <2>2, <2>5
  <2>7. sharedCount' = Cardinality(DoneFor(NewSellers)')
    BY <1>9, <2>1, <2>2, <2>4
  <2>8. /\ \A q \in settledOn'[facDay'] : sale'[q].pc = "done"
        /\ countsDay' <= facDay' /\ countsDay' = facDay'
    BY <1>2, <1>3, <1>4, <1>5, <1>6, <1>7, <2>1
  <2>9. \A d \in 0..MaxFacDay : d > facDay' => settledOn'[d] = {}
    BY <1>2, <1>3 DEF AllowInv, CountInv
  <2>10. \A q \in Payments : sale'[q].pc = "settling" /\ sale'[q].seller \in NewSellers =>
            facUp' /\ sale'[q].seller \in listed'
    BY <1>3, <1>4, <1>5 DEF AllowInv, CountInv
  <2> QED
    BY <2>6, <2>7, <2>8, <2>9, <2>10 DEF CountInv
<1> QED
  BY <1>10, <1>11 DEF AllowInv

LEMMA AllowStarts == ASSUME FacInit PROVE AllowInv
<1>1. \A S : DoneFor(S) = {} /\ SettlingFor(S) = {}
  <2>1. \A p \in Payments : sale[p].pc = "new"
    BY FreshSale DEF FacInit
  <2>2. settledOn[facDay] = {}
    BY FacilitatorAssumption DEF FacInit
  <2> QED
    BY <2>1, <2>2 DEF DoneFor, SettlingFor
<1>2. together[facDay] = 0 /\ facDay = 0 /\ countsDay = 0 /\ sharedCount = 0
      /\ \A s \in NewSellers : counts[s] = 0
  BY FacilitatorAssumption DEF FacInit, NoCounts, FacSellers
<1>3. WithinInv
  <2>1. SellerDayCap - 1 \in Nat /\ SharedDayCap - 1 \in Nat
    BY FacilitatorAssumption
  <2>2. /\ Cardinality(DoneFor(NewSellers)) = 0 /\ Cardinality(SettlingFor(NewSellers)) = 0
        /\ \A s \in NewSellers : Cardinality(DoneFor({s})) = 0 /\ Cardinality(SettlingFor({s})) = 0
    BY <1>1, NonePaid
  <2> QED
    BY <1>2, <2>1, <2>2 DEF WithinInv
<1>4. CountInv
  <2>1. \A d \in 0..MaxFacDay : settledOn[d] = {}
    BY DEF FacInit
  <2>2. \A p \in Payments : sale[p].pc = "new"
    BY FreshSale DEF FacInit
  <2>3. facDay \in 0..MaxFacDay
    BY <1>2, FacilitatorAssumption
  <2>4. /\ sharedCount = Cardinality(DoneFor(NewSellers))
        /\ \A s \in NewSellers : counts[s] = Cardinality(DoneFor({s}))
    <3>1. Cardinality(DoneFor(NewSellers)) = 0 /\ \A s \in NewSellers : Cardinality(DoneFor({s})) = 0
      BY <1>1, NonePaid
    <3> QED
      BY <1>2, <3>1
  <2> QED
    BY <1>2, <2>1, <2>2, <2>3, <2>4 DEF CountInv
<1> QED
  BY <1>3, <1>4 DEF AllowInv

LEMMA AllowStep == FacInv /\ AllowInv /\ [FacNext]_facVars => AllowInv'
<1> SUFFICES ASSUME FacInv, AllowInv, [FacNext]_facVars PROVE AllowInv'
  OBVIOUS
<1>1. CASE UNCHANGED facVars
  <2>1. UNCHANGED <<sale, facUp, facDay, facHistory, tallies>> /\ listed \subseteq listed'
    BY <1>1 DEF facVars, facHistory, tallies
  <2> QED
    BY <2>1, NothingSettles DEF FacInv
<1>2. ASSUME NEW p \in Payments,
             \/ \E s \in FacSellers, upto \in BOOLEAN, g \in GasFigures : Verify(p, s, upto, g)
             \/ \E asked \in 0..(SignedAmount + 1) : HandlerAnswers(p, asked)
             \/ \E g \in GasFigures : SettleStarts(p, g)
             \/ VerifyUnanswered(p) \/ HandlerFails(p) \/ ChainTakes(p) \/ SettleReturns(p)
             \/ SettleFails(p) \/ SettleUnanswered(p)
      PROVE  AllowInv'
  BY <1>2, AllowQuiet, AllowSettleStarts, AllowSameSales, AllowSettleReturns
<1>3. CASE \/ \E s \in NewSellers : RegisterCheck(s) \/ RegisterInsert(s) \/ RegisterPush(s)
           \/ ApiSyncs \/ FacCrash \/ FacStart \/ NextDay
  BY <1>3, AllowSameSales, AllowFacStart, AllowNextDay
<1> QED
  BY <1>1, <1>2, <1>3 DEF FacNext

\* However many settlements run at once and whenever the process stops or the
\* day turns, the allowances are passed by no more than what was under way
\* together, and nobody is refused who has some left today.
THEOREM AllowancesHold == FacSpec => []AllowanceHeld
<1>1. FacInv /\ AllowInv => AllowanceHeld
  <2> SUFFICES ASSUME FacInv, AllowInv PROVE AllowanceHeld
    OBVIOUS
  <2>1. FacTypeOK
    BY DEF FacInv
  <2>2. ASSUME NEW S
        PROVE  /\ SettledToday(S) = Cardinality(DoneFor(S)) /\ SettledToday(S) \in Nat
               /\ Cardinality(SettlingFor(S)) \in Nat
    BY <2>1, DoneFits DEF SettledToday, DoneFor
  <2>3. together[facDay] \in Nat
    BY <2>1, DoneFits
  <2>4. \A s \in NewSellers : SettledToday({s}) <= SellerDayCap - 1 + together[facDay]
    <3> SUFFICES ASSUME NEW s \in NewSellers PROVE SettledToday({s}) <= SellerDayCap - 1 + together[facDay]
      OBVIOUS
    <3>1. SettledToday({s}) + Cardinality(SettlingFor({s})) <= SellerDayCap - 1 + together[facDay]
      BY <2>2 DEF AllowInv, WithinInv
    <3> QED
      BY <2>2, <2>3, <3>1, FacilitatorAssumption
  <2>5. SettledToday(NewSellers) <= SharedDayCap - 1 + together[facDay]
    <3>1. SettledToday(NewSellers) + Cardinality(SettlingFor(NewSellers)) <= SharedDayCap - 1 + together[facDay]
      BY <2>2 DEF AllowInv, WithinInv
    <3> QED
      BY <2>2, <2>3, <3>1, FacilitatorAssumption
  <2>6. ASSUME NEW s \in listed, Allowance(s) # "none"
        PROVE  SettledToday({s}) >= SellerDayCap \/ SettledToday(NewSellers) >= SharedDayCap
    <3>1. s \in NewSellers
      BY <2>1 DEF FacTypeOK
    <3>2. Rolled.counts[s] = SettledToday({s}) /\ Rolled.shared = SettledToday(NewSellers)
      BY <2>1, <2>2, <3>1, RolledIsDone DEF AllowInv
    <3> QED
      BY <2>6, <3>2 DEF Allowance
  <2> QED
    BY <2>4, <2>5, <2>6 DEF AllowanceHeld
<1>2. FacInit => AllowInv
  BY AllowStarts
<1> QED
  BY <1>1, <1>2, AllowStep, FacInvHolds, PTL DEF FacSpec

-----------------------------------------------------------------------------
(***************************************************************************)
(* The escrow (Jobs).  A row is its call's, and what a call has read of a  *)
(* job is the job's budget for as long as no budget moves.                 *)
(***************************************************************************)

JobStates == [status : JobStatuses, budget : Budgets \cup {0}]
JobCallStates == [pc : {"new", "read", "recorded", "funding", "approved", "sent", "failing", "done"},
                  job : JobIds \cup {NoJob}, seen : Budgets \cup {0}]
JobRows == [status : {"none", "rejected", "signed", "settled", "failed"},
            job : JobIds \cup {NoJob}, amount : Budgets \cup {0}]

\* A row that the policy let through, whatever became of it.
LetThrough == {"signed", "settled", "failed"}

JobsTypes ==
    /\ job \in [JobIds -> JobStates] /\ escrowed \in [JobIds -> Budgets \cup {0}]
    /\ jobCall \in [JobCalls -> JobCallStates] /\ jobRow \in [JobCalls -> JobRows]
    /\ steady \in BOOLEAN

\* A row is its call's, and closed early only because the job is decided; what
\* a call has read is the budget, as long as no budget moves.
JobCallFits(c) ==
    LET k == jobCall[c]
        r == jobRow[c]
    IN /\ k.pc # "new" => k.job \in JobIds
       /\ k.pc \in {"new", "read"} => r.status = "none"
       /\ k.pc \in {"recorded", "approved", "sent", "failing"} =>
            r.job = k.job /\ r.status \in LetThrough /\ r.amount = k.seen
       /\ k.pc \in {"recorded", "approved", "sent"} /\ r.status # "signed" => job[k.job].status # "Open"
       /\ r.status \in LetThrough => r.job \in JobIds /\ r.amount <= JobPaymentCap
       /\ r.status = "settled" => job[r.job].status = "Completed"
       /\ steady /\ k.pc # "new" => k.seen = job[k.job].budget

\* What is in escrow was put there by a call, or by the command line.
EscrowFits(j) ==
    escrowed[j] > 0 =>
        /\ j \in cliFunded \/ \E c \in JobCalls : jobRow[c].job = j /\ jobRow[c].status \in LetThrough
        /\ steady => \E c \in JobCalls :
             /\ jobCall[c].pc = "done" /\ jobRow[c].job = j
             /\ jobRow[c].status \in {"signed", "settled"} /\ jobRow[c].amount = escrowed[j]

JobsInv ==
    /\ JobsTypes
    /\ \A c \in JobCalls : JobCallFits(c)
    /\ \A j \in JobIds : EscrowFits(j)

LEMMA JobsStart == JobsInit => JobsInv
<1> SUFFICES ASSUME JobsInit PROVE JobsInv
  OBVIOUS
<1>1. [status |-> "Open", budget |-> 0] \in JobStates /\ NewCall \in JobCallStates /\ NoJobRow \in JobRows
  BY DEF JobStates, JobStatuses, JobCallStates, NewCall, JobRows, NoJobRow
<1>2. JobsTypes
  BY <1>1 DEF JobsInit, JobsTypes
<1>3. ASSUME NEW c \in JobCalls PROVE JobCallFits(c)
  <2>1. jobCall[c].pc = "new" /\ jobRow[c].status = "none"
    BY DEF JobsInit, NewCall, NoJobRow
  <2> QED
    BY <2>1 DEF JobCallFits, LetThrough
<1>4. ASSUME NEW j \in JobIds PROVE EscrowFits(j)
  BY DEF JobsInit, EscrowFits
<1> QED
  BY <1>2, <1>3, <1>4 DEF JobsInv

\* The provider sets a budget before any call of a steady run has read it.
LEMMA ProviderKeeps ==
    ASSUME JobsInv, NEW j \in JobIds, NEW b \in Budgets, ProviderSets(j, b)
    PROVE  JobsInv'
<1>1. /\ job[j] \in JobStates /\ job[j].status = "Open"
      /\ job' = [job EXCEPT ![j].budget = b]
      /\ UNCHANGED <<escrowed, jobCall, jobRow, cliFunded, steady>>
      /\ steady => \A c \in JobCalls : jobCall[c].job # j
  BY DEF JobsInv, JobsTypes, ProviderSets
<1>2. /\ job' \in [JobIds -> JobStates]
      /\ \A i \in JobIds : job'[i].status = job[i].status
      /\ \A i \in JobIds : i # j => job'[i] = job[i]
  BY <1>1 DEF JobsInv, JobsTypes, JobStates
<1>3. JobsTypes'
  BY <1>1, <1>2 DEF JobsInv, JobsTypes, JobStates, JobCallStates, JobRows
<1>4. ASSUME NEW c \in JobCalls PROVE JobCallFits(c)'
  BY <1>1, <1>2 DEF JobsInv, JobCallFits, JobsTypes, LetThrough
<1>5. ASSUME NEW i \in JobIds PROVE EscrowFits(i)'
  BY <1>1 DEF JobsInv, EscrowFits
<1> QED
  BY <1>3, <1>4, <1>5 DEF JobsInv

\* A job that leaves an unfinished state: the rows and calls stay.
LEMMA JobGoesOn ==
    ASSUME JobsInv, NEW j \in JobIds, NEW s \in JobStatuses \ {"Open"},
           job[j].status \notin {"Completed"},
           job' = [job EXCEPT ![j].status = s], NEW e \in [JobIds -> Budgets \cup {0}],
           escrowed' = e, \A i \in JobIds : e[i] = escrowed[i] \/ e[i] = 0,
           UNCHANGED <<jobCall, jobRow, cliFunded, steady>>
    PROVE  JobsInv'
<1>1. /\ job' \in [JobIds -> JobStates]
      /\ \A i \in JobIds : i # j => job'[i] = job[i]
      /\ job'[j].status = s /\ job'[j].budget = job[j].budget
  BY DEF JobsInv, JobsTypes, JobStates
<1>2. JobsTypes'
  BY <1>1 DEF JobsInv, JobsTypes, JobStates, JobCallStates, JobRows
<1>3. ASSUME NEW c \in JobCalls PROVE JobCallFits(c)'
  BY <1>1 DEF JobsInv, JobCallFits, JobsTypes, LetThrough
<1>4. ASSUME NEW i \in JobIds PROVE EscrowFits(i)'
  BY DEF JobsInv, EscrowFits
<1> QED
  BY <1>2, <1>3, <1>4 DEF JobsInv

LEMMA SubmitsKeeps == ASSUME JobsInv, NEW j \in JobIds, Submits(j) PROVE JobsInv'
BY JobGoesOn DEF Submits, JobsInv, JobsTypes, JobStatuses

LEMMA ExpiresKeeps == ASSUME JobsInv, NEW j \in JobIds, Expires(j) PROVE JobsInv'
<1> DEFINE e == [escrowed EXCEPT ![j] = 0]
<1>1. /\ escrowed' = e /\ e \in [JobIds -> Budgets \cup {0}]
      /\ \A i \in JobIds : e[i] = escrowed[i] \/ e[i] = 0
  BY DEF Expires, JobsInv, JobsTypes
<1> HIDE DEF e
<1> QED
  BY <1>1, JobGoesOn DEF Expires, JobStatuses

\* One call moves, with its row; the contract does not.
LEMMA JobCallMoves ==
    ASSUME JobsInv, NEW c \in JobCalls, NEW k \in JobCallStates, NEW r \in JobRows,
           jobCall[c].pc # "done",
           jobCall' = [jobCall EXCEPT ![c] = k], jobRow' = [jobRow EXCEPT ![c] = r],
           UNCHANGED <<job, escrowed, cliFunded, steady>>,
           jobRow[c].status \in LetThrough => r.job = jobRow[c].job /\ r.status \in LetThrough,
           JobCallFits(c)'
    PROVE  JobsInv'
<1>1. /\ jobCall' \in [JobCalls -> JobCallStates] /\ jobRow' \in [JobCalls -> JobRows]
      /\ \A d \in JobCalls : d # c => jobCall'[d] = jobCall[d] /\ jobRow'[d] = jobRow[d]
      /\ jobCall'[c] = k /\ jobRow'[c] = r
  BY DEF JobsInv, JobsTypes
<1>2. JobsTypes'
  BY <1>1 DEF JobsInv, JobsTypes, JobStates, JobCallStates, JobRows
<1>3. ASSUME NEW d \in JobCalls PROVE JobCallFits(d)'
  <2>1. CASE d = c
    BY <2>1
  <2>2. CASE d # c
    BY <2>2, <1>1 DEF JobsInv, JobCallFits
  <2> QED
    BY <2>1, <2>2
<1>4. ASSUME NEW j \in JobIds PROVE EscrowFits(j)'
  <2> SUFFICES ASSUME escrowed[j] > 0
               PROVE  /\ j \in cliFunded \/ \E d \in JobCalls : jobRow'[d].job = j /\ jobRow'[d].status \in LetThrough
                      /\ steady => \E d \in JobCalls :
                           /\ jobCall'[d].pc = "done" /\ jobRow'[d].job = j
                           /\ jobRow'[d].status \in {"signed", "settled"} /\ jobRow'[d].amount = escrowed[j]
    BY DEF EscrowFits
  <2>1. /\ j \in cliFunded \/ \E d \in JobCalls : jobRow[d].job = j /\ jobRow[d].status \in LetThrough
        /\ steady => \E d \in JobCalls :
             /\ jobCall[d].pc = "done" /\ jobRow[d].job = j
             /\ jobRow[d].status \in {"signed", "settled"} /\ jobRow[d].amount = escrowed[j]
    BY DEF JobsInv, EscrowFits
  <2>2. \A d \in JobCalls : jobRow[d].job = j /\ jobRow[d].status \in LetThrough =>
          jobRow'[d].job = j /\ jobRow'[d].status \in LetThrough
    BY <1>1
  <2>3. \A d \in JobCalls : jobCall[d].pc = "done" => jobCall'[d] = jobCall[d] /\ jobRow'[d] = jobRow[d]
    BY <1>1
  <2> QED
    BY <2>1, <2>2, <2>3
<1> QED
  BY <1>2, <1>3, <1>4 DEF JobsInv

LEMMA JobReadKeeps == ASSUME JobsInv, NEW c \in JobCalls, NEW j \in JobIds, JobRead(c, j) PROVE JobsInv'
<1> DEFINE k == [pc |-> "read", job |-> j, seen |-> job[j].budget]
<1>1. k \in JobCallStates /\ k.pc = "read" /\ k.job = j /\ k.seen = job[j].budget
  BY DEF JobsInv, JobsTypes, JobStates, JobCallStates
<1>2. /\ jobCall[c].pc = "new" /\ jobCall' = [jobCall EXCEPT ![c] = k]
      /\ UNCHANGED <<job, escrowed, jobRow, cliFunded, steady>>
  BY DEF JobRead
<1> HIDE DEF k
<1>3. jobRow[c] \in JobRows /\ jobRow' = [jobRow EXCEPT ![c] = jobRow[c]] /\ jobCall'[c] = k
  BY <1>2 DEF JobsInv, JobsTypes
<1>4. JobCallFits(c)'
  BY <1>1, <1>2, <1>3 DEF JobsInv, JobCallFits
<1> QED
  BY <1>1, <1>2, <1>3, <1>4, JobCallMoves

LEMMA JobDecidedKeeps == ASSUME JobsInv, NEW c \in JobCalls, JobDecided(c) PROVE JobsInv'
<1> DEFINE b == jobCall[c].seen
           allowed == b <= JobPaymentCap /\ JobSpent + b <= JobDayCap
           pc == IF allowed THEN "recorded" ELSE "done"
           r == [status |-> IF allowed THEN "signed" ELSE "rejected", job |-> jobCall[c].job, amount |-> b]
           k == [jobCall[c] EXCEPT !.pc = pc]
<1>1. /\ jobCall[c] \in JobCallStates /\ jobCall[c].pc = "read" /\ jobCall[c].job \in JobIds
      /\ jobCall' = [jobCall EXCEPT ![c].pc = pc] /\ jobRow' = [jobRow EXCEPT ![c] = r]
      /\ UNCHANGED <<job, escrowed, cliFunded, steady>>
  BY DEF JobsInv, JobsTypes, JobDecided, CallAt, JobCallFits
<1>2. allowed \in BOOLEAN /\ (allowed => b <= JobPaymentCap)
  OBVIOUS
<1> HIDE DEF allowed
<1>3. /\ k \in JobCallStates /\ k.pc = pc /\ k.job = jobCall[c].job /\ k.seen = b
      /\ pc \in {"recorded", "done"} /\ (pc = "recorded" <=> allowed)
  BY <1>1 DEF JobCallStates
<1>4. /\ r \in JobRows /\ r.job = jobCall[c].job /\ r.amount = b
      /\ r.status = (IF allowed THEN "signed" ELSE "rejected")
  BY <1>1 DEF JobCallStates, JobRows
<1>5. jobCall' = [jobCall EXCEPT ![c] = k]
  BY <1>1
<1> HIDE DEF k, r, pc
<1>6. jobCall'[c] = k /\ jobRow'[c] = r
  BY <1>1, <1>5 DEF JobsInv, JobsTypes
<1> DEFINE s == steady => b = job[jobCall[c].job].budget
<1>7. s
  BY <1>1 DEF JobsInv, JobCallFits
<1>8. JobCallFits(c)'
  BY <1>1, <1>2, <1>3, <1>4, <1>6, <1>7 DEF JobCallFits, LetThrough
<1> HIDE DEF s
<1>9. jobRow[c].status \notin LetThrough
  BY <1>1 DEF JobsInv, JobCallFits, LetThrough
<1> QED
  BY <1>1, <1>3, <1>4, <1>5, <1>8, <1>9, JobCallMoves

\* A call goes on with its row as it is.
LEMMA JobCallSteps ==
    ASSUME JobsInv, NEW c \in JobCalls, NEW pc \in {"approved", "sent", "failing"},
           jobCall[c].pc \in {"recorded", "approved", "sent"}, CallAt(c, pc),
           UNCHANGED <<job, escrowed, jobRow, cliFunded, steady>>
    PROVE  JobsInv'
<1> DEFINE k == [jobCall[c] EXCEPT !.pc = pc]
<1>1. jobCall[c] \in JobCallStates /\ jobCall' = [jobCall EXCEPT ![c] = k]
  BY DEF JobsInv, JobsTypes, CallAt
<1>2. k \in JobCallStates /\ k.pc = pc /\ k.job = jobCall[c].job /\ k.seen = jobCall[c].seen
  BY <1>1 DEF JobCallStates
<1> HIDE DEF k
<1>3. jobRow[c] \in JobRows /\ jobRow' = [jobRow EXCEPT ![c] = jobRow[c]] /\ jobCall'[c] = k
  BY <1>1 DEF JobsInv, JobsTypes
<1>4. JobCallFits(c)
  BY DEF JobsInv
<1>5. JobCallFits(c)'
  BY <1>2, <1>3, <1>4 DEF JobCallFits
<1> QED
  BY <1>1, <1>2, <1>3, <1>5, JobCallMoves

LEMMA FundReadsKeeps == ASSUME JobsInv, NEW c \in JobCalls, FundReadsJob(c) PROVE JobsInv'
<1>1. /\ jobCall[c].pc = "recorded" /\ UNCHANGED <<job, escrowed, jobRow, cliFunded, steady>>
      /\ CallAt(c, "failing") \/ CallAt(c, "approved")
  BY DEF FundReadsJob
<1> QED
  BY <1>1, JobCallSteps

LEMMA FundSentKeeps == ASSUME JobsInv, NEW c \in JobCalls, FundSent(c) PROVE JobsInv'
<1>1. /\ jobCall[c].pc = "approved" /\ UNCHANGED <<job, escrowed, jobRow, cliFunded, steady>>
      /\ CallAt(c, "sent") \/ CallAt(c, "failing")
  BY DEF FundSent
<1> QED
  BY <1>1, JobCallSteps

LEMMA JobFailsKeeps == ASSUME JobsInv, NEW c \in JobCalls, JobFails(c) PROVE JobsInv'
<1> DEFINE k == [jobCall[c] EXCEPT !.pc = "done"]
           r == [jobRow[c] EXCEPT !.status = "failed"]
<1>1. /\ jobCall[c] \in JobCallStates /\ jobRow[c] \in JobRows /\ jobCall[c].pc = "failing"
      /\ jobCall' = [jobCall EXCEPT ![c] = k] /\ jobRow' = [jobRow EXCEPT ![c] = r]
      /\ UNCHANGED <<job, escrowed, cliFunded, steady>> /\ JobCallFits(c)
  BY DEF JobsInv, JobsTypes, JobFails, CallAt, RowIs
<1>2. k \in JobCallStates /\ k.pc = "done" /\ k.job = jobCall[c].job /\ k.seen = jobCall[c].seen
  BY <1>1 DEF JobCallStates
<1>3. r \in JobRows /\ r.status = "failed" /\ r.job = jobRow[c].job /\ r.amount = jobRow[c].amount
  BY <1>1 DEF JobRows
<1> HIDE DEF k, r
<1>4. jobCall'[c] = k /\ jobRow'[c] = r
  BY <1>1 DEF JobsInv, JobsTypes
<1>5. JobCallFits(c)'
  BY <1>1, <1>2, <1>3, <1>4 DEF JobCallFits, LetThrough
<1>6. r.status \in LetThrough
  BY <1>3 DEF LetThrough
<1> QED
  BY <1>1, <1>2, <1>3, <1>5, <1>6, JobCallMoves

\* The contract takes the budget of an open job; the call that paid has its
\* row, and in a steady run the row has the amount.
LEMMA TakenKeeps ==
    ASSUME JobsInv, NEW c \in JobCalls, jobCall[c].pc = "sent", ContractTakes(jobCall[c].job),
           NEW pc \in {"done", "failing"}, CallAt(c, pc), pc = "failing" => ~steady,
           UNCHANGED <<jobRow, cliFunded, steady>>
    PROVE  JobsInv'
<1> DEFINE j == jobCall[c].job
           k == [jobCall[c] EXCEPT !.pc = pc]
           b == job[j].budget
<1>1. /\ jobCall[c] \in JobCallStates /\ jobRow[c] \in JobRows /\ JobCallFits(c)
      /\ jobCall' = [jobCall EXCEPT ![c] = k] /\ j \in JobIds
      /\ job[j] \in JobStates /\ job[j].status = "Open"
      /\ job' = [job EXCEPT ![j].status = "Funded"] /\ escrowed' = [escrowed EXCEPT ![j] = b]
  BY DEF JobsInv, JobsTypes, CallAt, JobCallFits, ContractTakes, Fundable
<1>2. k \in JobCallStates /\ k.pc = pc /\ k.job = j /\ k.seen = jobCall[c].seen
  BY <1>1 DEF JobCallStates
<1> HIDE DEF k
<1>3. b \in Budgets \cup {0}
  BY <1>1 DEF JobStates
<1>4. /\ jobRow[c].job = j /\ jobRow[c].status = "signed"
      /\ steady => jobRow[c].amount = b
  BY <1>1 DEF JobCallFits
<1> HIDE DEF b
<1>5. /\ job' \in [JobIds -> JobStates]
      /\ \A i \in JobIds : i # j => job'[i] = job[i] /\ escrowed'[i] = escrowed[i]
      /\ job'[j].status = "Funded" /\ job'[j].budget = job[j].budget /\ escrowed'[j] = b
      /\ escrowed' \in [JobIds -> Budgets \cup {0}]
  BY <1>1, <1>3 DEF JobsInv, JobsTypes, JobStates, JobStatuses
<1>6. /\ jobCall' \in [JobCalls -> JobCallStates] /\ jobCall'[c] = k
      /\ \A d \in JobCalls : d # c => jobCall'[d] = jobCall[d]
  BY <1>1, <1>2 DEF JobsInv, JobsTypes
<1>7. JobsTypes'
  BY <1>5, <1>6 DEF JobsInv, JobsTypes, JobStates, JobCallStates, JobRows
<1>8. ASSUME NEW d \in JobCalls PROVE JobCallFits(d)'
  <2>1. JobCallFits(d)
    BY DEF JobsInv
  <2>2. CASE d = c
    BY <2>1, <2>2, <1>2, <1>4, <1>5, <1>6 DEF JobCallFits, LetThrough
  <2>3. CASE d # c
    BY <2>1, <2>3, <1>1, <1>5, <1>6 DEF JobCallFits, LetThrough
  <2> QED
    BY <2>2, <2>3
<1>9. ASSUME NEW i \in JobIds PROVE EscrowFits(i)'
  <2>1. CASE i = j
    <3>1. /\ jobRow'[c].job = i /\ jobRow'[c].status \in LetThrough
          /\ steady => /\ jobCall'[c].pc = "done" /\ jobRow'[c].job = i
                       /\ jobRow'[c].status \in {"signed", "settled"} /\ jobRow'[c].amount = escrowed'[i]
      BY <2>1, <1>2, <1>4, <1>5, <1>6 DEF LetThrough
    <3> QED
      BY <3>1 DEF EscrowFits
  <2>2. CASE i # j
    <3>1. \A d \in JobCalls : jobCall[d].pc = "done" => jobCall'[d] = jobCall[d]
      BY <1>6
    <3>2. escrowed'[i] = escrowed[i] /\ EscrowFits(i)
      BY <1>5, <2>2 DEF JobsInv
    <3> QED
      BY <3>1, <3>2 DEF EscrowFits
  <2> QED
    BY <2>1, <2>2
<1> QED
  BY <1>7, <1>8, <1>9 DEF JobsInv

LEMMA JobMinedKeeps == ASSUME JobsInv, NEW c \in JobCalls, JobMined(c) PROVE JobsInv'
<1>1. CASE ContractTakes(jobCall[c].job) /\ CallAt(c, "done")
  BY <1>1, TakenKeeps DEF JobMined
<1>2. CASE ContractTakes(jobCall[c].job) /\ CallAt(c, "failing") /\ JobFault
  BY <1>2, TakenKeeps DEF JobMined, JobFault
<1>3. CASE CallAt(c, "failing") /\ UNCHANGED <<job, escrowed>>
  BY <1>3, JobCallSteps DEF JobMined
<1> QED
  BY <1>1, <1>2, <1>3 DEF JobMined

\* The command line leaves the ledger alone, and is no steady run.
LEMMA CliKeeps == ASSUME JobsInv, NEW j \in JobIds, CliFunds(j) PROVE JobsInv'
<1> DEFINE b == job[j].budget
<1>1. /\ ~steady /\ job[j] \in JobStates /\ job[j].status = "Open"
      /\ job' = [job EXCEPT ![j].status = "Funded"] /\ escrowed' = [escrowed EXCEPT ![j] = b]
      /\ cliFunded' = cliFunded \cup {j} /\ UNCHANGED <<jobCall, jobRow, steady>>
  BY DEF JobsInv, JobsTypes, CliFunds
<1>2. b \in Budgets \cup {0}
  BY <1>1 DEF JobStates
<1> HIDE DEF b
<1>3. /\ job' \in [JobIds -> JobStates]
      /\ \A i \in JobIds : i # j => job'[i] = job[i] /\ escrowed'[i] = escrowed[i]
      /\ job'[j].status = "Funded" /\ job'[j].budget = job[j].budget
      /\ escrowed' \in [JobIds -> Budgets \cup {0}]
  BY <1>1, <1>2 DEF JobsInv, JobsTypes, JobStates, JobStatuses
<1>4. JobsTypes'
  BY <1>1, <1>3 DEF JobsInv, JobsTypes, JobStates, JobCallStates, JobRows
<1>5. ASSUME NEW d \in JobCalls PROVE JobCallFits(d)'
  BY <1>1, <1>3 DEF JobsInv, JobCallFits, LetThrough
<1>6. ASSUME NEW i \in JobIds PROVE EscrowFits(i)'
  BY <1>1, <1>3 DEF JobsInv, EscrowFits
<1> QED
  BY <1>4, <1>5, <1>6 DEF JobsInv

\* The job is decided on chain; a signed row of it is closed, or none.
LEMMA DecideKeeps ==
    ASSUME JobsInv, NEW j \in JobIds, NEW complete \in BOOLEAN, JobDecide(j, complete)
    PROVE  JobsInv'
<1> DEFINE closed == IF complete THEN "settled" ELSE "failed"
           s == IF complete THEN "Completed" ELSE "Rejected"
           e == [escrowed EXCEPT ![j] = IF complete THEN @ ELSE 0]
<1>1. /\ job[j] \in JobStates /\ job[j].status \in {"Submitted", "Funded"}
      /\ job' = [job EXCEPT ![j].status = s] /\ escrowed' = e
      /\ UNCHANGED <<jobCall, cliFunded, steady>>
      /\ s \in JobStatuses \ {"Open"} /\ s = (IF complete THEN "Completed" ELSE "Rejected")
  BY DEF JobsInv, JobsTypes, JobDecide, JobStatuses
<1>2. /\ e \in [JobIds -> Budgets \cup {0}]
      /\ \A i \in JobIds : e[i] = escrowed[i] \/ e[i] = 0
      /\ ~complete => e[j] = 0
      /\ \A i \in JobIds : i # j => e[i] = escrowed[i]
      /\ complete => e[j] = escrowed[j]
  BY DEF JobsInv, JobsTypes
<1> HIDE DEF e, s
<1>3. CASE UNCHANGED jobRow
  BY <1>1, <1>2, <1>3, JobGoesOn
<1>4. ASSUME NEW c \in JobCalls, OpenRow(j, c), RowIs(c, closed) PROVE JobsInv'
  <2> DEFINE r == [jobRow[c] EXCEPT !.status = closed]
  <2>1. jobRow[c] \in JobRows /\ jobRow[c].job = j /\ jobRow[c].status = "signed"
        /\ jobRow' = [jobRow EXCEPT ![c] = r]
    BY <1>4 DEF JobsInv, JobsTypes, OpenRow, RowIs
  <2>2. r \in JobRows /\ r.job = j /\ r.amount = jobRow[c].amount /\ r.status = closed
    BY <2>1 DEF JobRows
  <2> HIDE DEF r
  <2>3. /\ jobRow' \in [JobCalls -> JobRows] /\ jobRow'[c] = r
        /\ \A d \in JobCalls : d # c => jobRow'[d] = jobRow[d]
    BY <2>1, <2>2 DEF JobsInv, JobsTypes
  <2>4. /\ job' \in [JobIds -> JobStates]
        /\ \A i \in JobIds : i # j => job'[i] = job[i]
        /\ job'[j].status = s /\ job'[j].budget = job[j].budget
    BY <1>1 DEF JobsInv, JobsTypes, JobStates
  <2>5. JobsTypes'
    BY <1>1, <1>2, <2>3, <2>4 DEF JobsInv, JobsTypes, JobStates, JobCallStates, JobRows
  <2>6. ASSUME NEW d \in JobCalls PROVE JobCallFits(d)'
    <3>1. JobCallFits(d)
      BY DEF JobsInv
    <3>2. CASE d = c
      BY <3>1, <3>2, <1>1, <2>1, <2>2, <2>3, <2>4 DEF JobCallFits, LetThrough
    <3>3. CASE d # c
      BY <3>1, <3>3, <1>1, <2>3, <2>4 DEF JobCallFits, LetThrough
    <3> QED
      BY <3>2, <3>3
  <2>7. ASSUME NEW i \in JobIds PROVE EscrowFits(i)'
    <3> SUFFICES ASSUME escrowed'[i] > 0
                 PROVE  /\ i \in cliFunded' \/ \E d \in JobCalls : jobRow'[d].job = i /\ jobRow'[d].status \in LetThrough
                        /\ steady' => \E d \in JobCalls :
                             /\ jobCall'[d].pc = "done" /\ jobRow'[d].job = i
                             /\ jobRow'[d].status \in {"signed", "settled"} /\ jobRow'[d].amount = escrowed'[i]
      BY DEF EscrowFits
    <3>1. escrowed'[i] = escrowed[i] /\ (i = j => complete)
      BY <1>1, <1>2
    <3>2. /\ i \in cliFunded \/ \E d \in JobCalls : jobRow[d].job = i /\ jobRow[d].status \in LetThrough
          /\ steady => \E d \in JobCalls :
               /\ jobCall[d].pc = "done" /\ jobRow[d].job = i
               /\ jobRow[d].status \in {"signed", "settled"} /\ jobRow[d].amount = escrowed[i]
      BY <3>1 DEF JobsInv, EscrowFits
    <3>3. \A d \in JobCalls : jobRow'[d].job = jobRow[d].job /\ jobRow'[d].amount = jobRow[d].amount
      BY <2>1, <2>2, <2>3
    <3>4. \A d \in JobCalls : jobRow[d].status \in LetThrough => jobRow'[d].status \in LetThrough
      BY <2>1, <2>2, <2>3 DEF LetThrough
    <3>5. \A d \in JobCalls : jobRow[d].job = i /\ jobRow[d].status \in {"signed", "settled"} =>
            jobRow'[d].status \in {"signed", "settled"}
      BY <2>1, <2>2, <2>3, <3>1
    <3> QED
      BY <3>1, <3>2, <3>3, <3>4, <3>5, <1>1
  <2> QED
    BY <2>5, <2>6, <2>7 DEF JobsInv
<1> QED
  BY <1>3, <1>4 DEF JobDecide

LEMMA JobsSteps == JobsInv /\ [JobsNext]_jobsVars => JobsInv'
<1> SUFFICES ASSUME JobsInv, [JobsNext]_jobsVars PROVE JobsInv'
  OBVIOUS
<1>1. CASE UNCHANGED jobsVars
  BY <1>1 DEF jobsVars, JobsInv, JobsTypes, JobCallFits, EscrowFits, JobStates, JobCallStates, JobRows
<1>2. CASE JobsNext
  BY <1>2, ProviderKeeps, SubmitsKeeps, ExpiresKeeps, CliKeeps, DecideKeeps, JobReadKeeps,
     JobDecidedKeeps, FundReadsKeeps, FundSentKeeps, JobMinedKeeps, JobFailsKeeps DEF JobsNext
<1> QED
  BY <1>1, <1>2

\* What the ledger says of the escrowed jobs is what the chain says, for every
\* number of calls, budgets and caps.
THEOREM EscrowAccounted == JobsSpec => []JobsAccounted
<1>1. JobsInv => JobsAccounted
  <2> SUFFICES ASSUME JobsInv PROVE JobsAccounted
    OBVIOUS
  <2>1. ASSUME NEW j \in JobIds, escrowed[j] > 0, j \notin cliFunded
        PROVE  {c \in JobCalls : jobRow[c].job = j /\ jobRow[c].status # "rejected"} # {}
    BY <2>1 DEF JobsInv, EscrowFits, LetThrough
  <2>2. ASSUME NEW c \in JobCalls, jobRow[c].status = "settled"
        PROVE  job[jobRow[c].job].status = "Completed" /\ jobRow[c].amount <= JobPaymentCap
    BY <2>2 DEF JobsInv, JobCallFits, LetThrough
  <2>3. ASSUME steady, NEW j \in JobIds, escrowed[j] > 0
        PROVE  \E c \in {d \in {c \in JobCalls : jobRow[c].job = j /\ jobRow[c].status # "rejected"} :
                           jobRow[d].status \in {"signed", "settled"}} : jobRow[c].amount = escrowed[j]
    BY <2>3 DEF JobsInv, EscrowFits
  <2> QED
    BY <2>1, <2>2, <2>3 DEF JobsAccounted
<1> QED
  BY <1>1, JobsStart, JobsSteps, PTL DEF JobsSpec

(***************************************************************************)
(* The lane (Lane).  A move is sent only under a quote that was checked,   *)
(* and each intent's units leave the purse, are on their way and come back *)
(* into it, less a fee within the cap.                                     *)
(***************************************************************************)

\* A promise that was checked, and an intent sent under it: the vault is ours,
\* and what is burnt for us costs no more than the cap.
WithinCap(x) ==
    /\ x.ours = TRUE
    /\ x.delivers \in 0..MoveAmount /\ MoveAmount - x.delivers <= MoveFeeCap

IntentFits(x) ==
    /\ WithinCap(x) /\ x.road \in Roads
    /\ x.state \in IntentStates \ {"taken"}

IntentRecords == [state : IntentStates, road : Roads, delivers : Nat, ours : BOOLEAN]

LanePcs == {"idle", "quoting", "checked", "ready", "approved", "tried", "confirming", "waiting",
            "arrived", "depositing", "refused", "failed", "notYet", "kept", "done"}

FundRecords == [pc : LanePcs, road : Roads,
                promise : [least : Nat, delivers : Int, ours : BOOLEAN],
                before : Int, grew : Int, deposit : Int, sent : Nat, runs : Nat]

LaneTypes ==
    /\ fund \in FundRecords
    /\ purse \in [{"source", "arc", "gateway"} -> Int]
    /\ spent \in [{"fees", "gas"} -> Int]
    /\ intents \in Seq(IntentRecords)

\* A quote is sent only as it was checked, and the command keeps back the gas of
\* its own deposit.
CommandFits ==
    /\ fund.pc \in {"checked", "ready", "approved", "tried"} => WithinCap(fund.promise)
    /\ fund.pc = "arrived" => fund.grew >= 0
    /\ fund.pc = "depositing" /\ KeepForGas >= ArcGas => purse.arc >= fund.deposit + ArcGas

\* No dollar is lost, and each move that was burnt cost the cap or less.
BooksBalance ==
    /\ purse.source + OnItsWay + purse.arc + purse.gateway + spent.fees + spent.gas = 2 * MoveAmount
    /\ spent.fees <= MoveFeeCap * Cardinality(InState({"burnt", "landed"}))

LaneInv ==
    /\ LaneTypes /\ CommandFits /\ BooksBalance
    /\ \A i \in DOMAIN intents : IntentFits(intents[i])

\* What the allowance, the command line and the faults are.
JobsRest == approved \in Nat /\ cliFunded \subseteq JobIds /\ jobFaults \in 0..MaxJobFaults

LEMMA JobsRestSteps == JobsInv /\ JobsRest /\ [JobsNext]_jobsVars => JobsRest'
<1> SUFFICES ASSUME JobsInv, JobsRest, [JobsNext]_jobsVars PROVE JobsRest'
  OBVIOUS
<1>1. MaxJobFaults \in Nat /\ \A b \in Budgets \cup {0} : b \in Nat
  BY JobsAssumption
<1>2. \A j \in JobIds : job[j].budget \in Nat
  BY <1>1 DEF JobsInv, JobsTypes, JobStates
<1>3. \A c \in JobCalls : jobCall[c].pc # "new" => jobCall[c].job \in JobIds
  BY DEF JobsInv, JobCallFits
<1>4. CASE UNCHANGED jobsVars
  BY <1>4 DEF jobsVars, JobsRest
<1>5. JobFault => jobFaults' \in 0..MaxJobFaults
  BY <1>1 DEF JobFault, JobsRest
<1>6. ASSUME NEW j \in JobIds, ContractTakes(j) PROVE approved' \in Nat
  BY <1>2, <1>6 DEF ContractTakes, Fundable, JobsRest
<1>7. ASSUME NEW j \in JobIds,
             (\E b \in Budgets : ProviderSets(j, b)) \/ Submits(j) \/ Expires(j)
             \/ \E complete \in BOOLEAN : JobDecide(j, complete)
      PROVE  JobsRest'
  BY <1>5, <1>7 DEF JobsRest, ProviderSets, Submits, Expires, JobDecide
<1>8. ASSUME NEW j \in JobIds, CliFunds(j) PROVE JobsRest'
  BY <1>2, <1>8 DEF JobsRest, CliFunds
<1>9. ASSUME NEW c \in JobCalls,
             (\E j \in JobIds : JobRead(c, j)) \/ JobDecided(c) \/ FundSent(c) \/ JobFails(c)
      PROVE  JobsRest'
  BY <1>9 DEF JobsRest, JobRead, JobDecided, FundSent, JobFails
<1>10. ASSUME NEW c \in JobCalls, FundReadsJob(c) PROVE JobsRest'
  BY <1>2, <1>3, <1>10 DEF JobsRest, FundReadsJob
<1>11. ASSUME NEW c \in JobCalls, JobMined(c) PROVE JobsRest'
  BY <1>3, <1>5, <1>6, <1>11 DEF JobsRest, JobMined
<1> QED BY <1>4, <1>7, <1>8, <1>9, <1>10, <1>11 DEF JobsNext

LEMMA JobsTyped == JobsInv /\ JobsRest => JobsTypeOK
  BY DEF JobsInv, JobsRest, JobsTypes, JobsTypeOK, JobStates, JobCallStates, JobRows

LEMMA JobsRestStarts == JobsInit => JobsRest
  BY JobsAssumption DEF JobsInit, JobsRest

\* The escrow's rows, calls and jobs keep their types, and the allowance is
\* never less than nothing.
THEOREM JobsTypeCorrect == JobsSpec => []JobsTypeOK
<1> QED BY JobsRestStarts, JobsStart, JobsSteps, JobsRestSteps, JobsTyped, PTL DEF JobsSpec

-----------------------------------------------------------------------------
(* What is on its way, unit by unit *)

UnitsOf(s) ==
    {u \in {i \in DOMAIN s : s[i].state \in {"funded", "burnt"}} \X (1..MoveAmount) :
        u[2] <= (IF s[u[1]].state = "funded" THEN MoveAmount ELSE s[u[1]].delivers)}
OtherUnits(s, i) == {u \in UnitsOf(s) : u[1] # i}
Part(x) == IF x.state = "funded" THEN MoveAmount ELSE IF x.state = "burnt" THEN x.delivers ELSE 0
PaidFor(s) == {i \in DOMAIN s : s[i].state \in {"burnt", "landed"}}

LEMMA LaneFigures ==
    /\ MoveAmount \in Nat /\ MoveAmount >= 1 /\ MoveFeeCap \in Nat /\ MoveFeeCap <= MoveAmount
    /\ KeepForGas \in Nat /\ ArcGas \in Nat
  BY LaneAssumption DEF LaneAssumption

\* The units of one intent, apart from the others'.
LEMMA UnitsOfOne ==
    ASSUME NEW s, NEW n \in Nat, DOMAIN s = 1..n,
           \A i \in 1..n : s[i].delivers \in 0..MoveAmount,
           NEW i \in 1..n
    PROVE  /\ Cardinality(OtherUnits(s, i)) \in Nat
           /\ Cardinality(UnitsOf(s)) = Cardinality(OtherUnits(s, i)) + Part(s[i])
  <1> DEFINE w == Part(s[i])
             Own == {i} \X (1..w)
             All == (1..n) \X (1..MoveAmount)
  <1>1. w \in 0..MoveAmount
    BY LaneFigures DEF Part
  <1>2. UnitsOf(s) = OtherUnits(s, i) \cup Own
    <2>1. \A u \in Own : u \in UnitsOf(s)
      <3>1. ASSUME NEW k \in 1..w PROVE <<i, k>> \in UnitsOf(s)
        BY <1>1, <3>1, LaneFigures DEF Part, UnitsOf
      <3> QED BY <3>1
    <2>2. \A u \in UnitsOf(s) : u[1] = i => u \in Own
      BY <1>1, LaneFigures DEF Part, UnitsOf
    <2> QED BY <2>1, <2>2 DEF OtherUnits
  <1>3. OtherUnits(s, i) \cap Own = {}
    BY DEF OtherUnits
  <1>4. IsFiniteSet(Own) /\ Cardinality(Own) = w
    <2>1. IsFiniteSet(1..w) /\ Cardinality(1..w) = w
      <3> HIDE DEF w
      <3>1. w \in Int /\ 1 \in Int
        BY <1>1
      <3>2. IsFiniteSet(1..w) /\ Cardinality(1..w) = IF 1 > w THEN 0 ELSE w - 1 + 1
        BY <3>1, FS_Interval
      <3> QED BY <1>1, <3>2
    <2>2. IsFiniteSet({i}) /\ Cardinality({i}) = 1
      BY FS_Singleton
    <2> HIDE DEF w
    <2>3. IsFiniteSet(Own) /\ Cardinality(Own) = Cardinality({i}) * Cardinality(1..w)
      BY <2>1, <2>2, FS_Product
    <2> QED BY <1>1, <2>1, <2>2, <2>3
  <1>5. IsFiniteSet(OtherUnits(s, i)) /\ Cardinality(OtherUnits(s, i)) \in Nat
    <2>1. IsFiniteSet(1..n) /\ IsFiniteSet(1..MoveAmount)
      BY LaneFigures, FS_Interval
    <2>2. IsFiniteSet(All)
      BY <2>1, FS_Product
    <2>3. OtherUnits(s, i) \in SUBSET All
      BY DEF OtherUnits, UnitsOf
    <2> QED BY <2>2, <2>3, FS_Subset, FS_CardinalityType
  <1> HIDE DEF Own, w
  <1>6. Cardinality(OtherUnits(s, i) \cup Own)
          = Cardinality(OtherUnits(s, i)) + Cardinality(Own) - Cardinality(OtherUnits(s, i) \cap Own)
    BY <1>4, <1>5, FS_Union
  <1>7. Cardinality(OtherUnits(s, i) \cap Own) = 0
    BY <1>3, FS_EmptySet
  <1>8. Cardinality(UnitsOf(s)) = Cardinality(OtherUnits(s, i)) + w
    BY <1>1, <1>2, <1>4, <1>5, <1>6, <1>7
  <1> QED BY <1>5, <1>8 DEF w

\* s and t differ in what state intent i is in.
MovesOne(s, t, n, i) ==
    /\ n \in Nat /\ DOMAIN s = 1..n /\ DOMAIN t = 1..n /\ i \in 1..n
    /\ \A j \in 1..n : s[j].delivers \in 0..MoveAmount
    /\ t[i].delivers = s[i].delivers
    /\ \A j \in 1..n : j # i => t[j] = s[j]

\* A step of one intent leaves the others' units alone.
LEMMA OneIntentMoves ==
    ASSUME NEW s, NEW t, NEW n, NEW i, MovesOne(s, t, n, i)
    PROVE  /\ Cardinality(UnitsOf(t)) \in Nat /\ Cardinality(UnitsOf(s)) \in Nat
           /\ Cardinality(UnitsOf(t)) + Part(s[i]) = Cardinality(UnitsOf(s)) + Part(t[i])
  <1>0. /\ n \in Nat /\ DOMAIN s = 1..n /\ DOMAIN t = 1..n /\ i \in 1..n
        /\ \A j \in 1..n : s[j].delivers \in 0..MoveAmount
        /\ t[i].delivers = s[i].delivers
        /\ \A j \in 1..n : j # i => t[j] = s[j]
    BY DEF MovesOne
  <1>1. \A j \in 1..n : t[j].delivers \in 0..MoveAmount
    BY <1>0
  <1>2. OtherUnits(t, i) = OtherUnits(s, i)
    BY <1>0 DEF OtherUnits, UnitsOf
  <1>3. /\ Cardinality(UnitsOf(s)) = Cardinality(OtherUnits(s, i)) + Part(s[i])
        /\ Cardinality(OtherUnits(s, i)) \in Nat
    BY <1>0, UnitsOfOne
  <1>4. Cardinality(UnitsOf(t)) = Cardinality(OtherUnits(t, i)) + Part(t[i])
    BY <1>0, <1>1, UnitsOfOne
  <1>5. Part(s[i]) \in Nat /\ Part(t[i]) \in Nat
    BY <1>0, <1>1, LaneFigures DEF Part
  <1> QED BY <1>2, <1>3, <1>4, <1>5

LEMMA OnItsWayIs ==
    /\ OnItsWay = Cardinality(UnitsOf(intents))
    /\ InState({"burnt", "landed"}) = PaidFor(intents)
  BY DEF OnItsWay, UnitsOnTheWay, UnitsOf, InState, Worth, PaidFor

-----------------------------------------------------------------------------
(* The quote *)

\* A route has two calls at most; what a call mints is no more than it burns.
LEMMA RouteFacts ==
    ASSUME NEW q \in LaneQuotes, Doable(q)
    PROVE  /\ DOMAIN q.calls \in {{}, {1}, {1, 2}}
           /\ q.calls # <<>> => 1 \in DOMAIN q.calls
           /\ \A i \in {1, 2} : /\ BurnedBy(q.calls, i) \in Nat
                                /\ MintedBy(q.calls, i) \in Nat
                                /\ MintedBy(q.calls, i) <= BurnedBy(q.calls, i)
           /\ q.least \in Nat /\ q.ours \in BOOLEAN
  <1>1. /\ q.calls \in SeqOf(LaneCalls, 2) /\ q.least \in Nat /\ q.ours \in BOOLEAN
    BY LaneFigures DEF LaneQuotes
  <1>2. PICK n \in 0..2 : q.calls \in [1..n -> LaneCalls]
    BY <1>1 DEF SeqOf
  <1>3. DOMAIN q.calls = 1..n /\ \A i \in 1..n : q.calls[i] \in LaneCalls
    BY <1>2
  <1>4. n = 0 \/ n = 1 \/ n = 2
    BY <1>2
  <1>5. DOMAIN q.calls \in {{}, {1}, {1, 2}}
    BY <1>3, <1>4
  <1>6. q.calls # <<>> => 1 \in DOMAIN q.calls
    <2>1. n = 0 => q.calls = <<>>
      BY <1>2
    <2> QED BY <1>3, <1>4, <2>1
  <1>7. ASSUME NEW i \in {1, 2}
        PROVE  /\ BurnedBy(q.calls, i) \in Nat /\ MintedBy(q.calls, i) \in Nat
               /\ MintedBy(q.calls, i) <= BurnedBy(q.calls, i)
    <2>1. CASE i \in DOMAIN q.calls /\ IsBurn(q.calls[i])
      <3>1. q.calls[i] \in LaneCalls
        BY <1>3, <2>1
      <3>2. q.calls[i] \in Burns
        BY <2>1, <3>1 DEF LaneCalls, IsBurn, Burns
      <3>3. q.calls[i].amount \in Nat /\ q.calls[i].fee \in Nat
        BY <3>2, LaneFigures DEF Burns
      <3>4. q.calls[i].amount >= q.calls[i].fee
        BY <2>1 DEF Doable
      <3> QED BY <2>1, <3>3, <3>4 DEF BurnedBy, MintedBy
    <2>2. CASE ~(i \in DOMAIN q.calls /\ IsBurn(q.calls[i]))
      BY <2>2 DEF BurnedBy, MintedBy
    <2> QED BY <2>1, <2>2
  <1> QED BY <1>1, <1>5, <1>6, <1>7

\* What is checked costs no more than the cap, on either road.
LEMMA CheckedQuote ==
    ASSUME NEW q \in LaneQuotes, Doable(q), fund.road \in Roads,
           fund.road = "solana" => q.ours,
           QuoteHolds(q), VaultHolds(q)
    PROVE  /\ q.ours = TRUE
           /\ Delivered(q.calls) \in 0..MoveAmount
           /\ MoveAmount - Delivered(q.calls) <= MoveFeeCap
  <1>1. q.ours = TRUE
    BY RouteFacts DEF VaultHolds, Roads
  <1>2. /\ Delivered(q.calls) \in Nat
        /\ Delivered(q.calls) <= Burned(q.calls) /\ Burned(q.calls) <= MoveAmount
        /\ q.least \in Int
    BY RouteFacts DEF Delivered, Burned, Doable
  <1>3. MoveAmount - q.least <= MoveFeeCap
    BY DEF QuoteHolds, BaseQuoteHolds, SolanaQuoteHolds, PromiseHolds
  <1>4. Delivered(q.calls) >= q.least
    <2>1. CASE fund.road = "base"
      BY <2>1 DEF QuoteHolds, BaseQuoteHolds
    <2>2. CASE fund.road # "base"
      <3>1. SolanaQuoteHolds(q)
        BY <2>2 DEF QuoteHolds
      <3>2. 1 \in DOMAIN q.calls
        BY <3>1, RouteFacts DEF SolanaQuoteHolds, PromiseHolds
      <3>3. MintedBy(q.calls, 1) >= q.least
        BY <3>1, <3>2 DEF SolanaQuoteHolds, MintedBy
      <3> QED BY <1>2, <3>3, RouteFacts DEF Delivered
    <2> QED BY <2>1, <2>2
  <1>5. Delivered(q.calls) <= MoveAmount
    <2>1. Burned(q.calls) \in Nat
      BY RouteFacts DEF Burned
    <2> QED BY <1>2, <2>1, LaneFigures
  <1> QED BY <1>1, <1>2, <1>3, <1>4, <1>5, LaneFigures

-----------------------------------------------------------------------------
(* The command *)

\* The steps that move no money.
Reckons ==
    \/ \E road \in Roads : FundStart(road)
    \/ FundQuoted \/ FundStops \/ FundReads \/ FundApproves \/ FundTries \/ FundConfirms
    \/ FundWaits \/ FundDeposits

LEMMA ReckonsFits ==
    ASSUME LaneInv, Reckons
    PROVE  /\ fund' \in FundRecords /\ CommandFits'
           /\ UNCHANGED <<purse, intents, spent>>
  <1>0. /\ fund \in FundRecords /\ CommandFits
        /\ purse.arc \in Int
    BY DEF LaneInv, LaneTypes
  <1> DEFINE Goal == fund' \in FundRecords /\ CommandFits' /\ UNCHANGED <<purse, intents, spent>>
  <1>a. ASSUME NEW next \in LanePcs, Pc(next), UNCHANGED <<purse, intents, spent>>,
               next \notin {"depositing", "arrived"},
               next \in {"checked", "ready", "approved", "tried"} => WithinCap(fund.promise)
        PROVE  Goal
    <2>1. /\ fund' \in FundRecords /\ fund'.pc = next /\ fund'.promise = fund.promise
      BY <1>0, <1>a DEF Pc, FundRecords
    <2> QED BY <1>a, <2>1 DEF CommandFits
  <1>1. ASSUME NEW road \in Roads, FundStart(road) PROVE Goal
    <2> DEFINE next == IF MoveAmount > purse.source THEN "refused" ELSE "quoting"
    <2>1. fund' = [NoFund EXCEPT !.pc = next, !.road = road, !.runs = fund.runs + 1]
      BY <1>1 DEF FundStart
    <2>2. next \in {"refused", "quoting"}
      OBVIOUS
    <2> HIDE DEF next
    <2>3. NoFund \in FundRecords
      BY DEF NoFund, NoPromise, FundRecords, Roads, LanePcs
    <2>4. fund.runs + 1 \in Nat /\ next \in LanePcs
      BY <1>0, <2>2 DEF FundRecords, LanePcs
    <2>5. fund' \in FundRecords /\ fund'.pc = next
      BY <2>1, <2>3, <2>4 DEF FundRecords
    <2>6. CommandFits' /\ UNCHANGED <<purse, intents, spent>>
      BY <1>1, <2>2, <2>5 DEF CommandFits, FundStart
    <2> QED BY <2>5, <2>6
  <1>2. CASE FundQuoted
    <2>1. PICK q \in LaneQuotes :
             /\ Doable(q) /\ (fund.road = "solana" => q.ours)
             /\ fund' = IF QuoteHolds(q) /\ VaultHolds(q)
                        THEN [fund EXCEPT !.pc = "checked",
                                !.promise = [least |-> q.least, delivers |-> Delivered(q.calls), ours |-> q.ours]]
                        ELSE [fund EXCEPT !.pc = "refused"]
      BY <1>2 DEF FundQuoted
    <2>2. UNCHANGED <<purse, intents, spent>>
      BY <1>2 DEF FundQuoted
    <2>3. CASE QuoteHolds(q) /\ VaultHolds(q)
      <3> DEFINE p == [least |-> q.least, delivers |-> Delivered(q.calls), ours |-> q.ours]
      <3>1. fund' = [fund EXCEPT !.pc = "checked", !.promise = p]
        BY <2>1, <2>3
      <3>2. fund.road \in Roads
        BY <1>0 DEF FundRecords
      <3>3. WithinCap(p) /\ p \in [least : Nat, delivers : Int, ours : BOOLEAN]
        <4>1. /\ q.ours = TRUE /\ q.least \in Nat
              /\ Delivered(q.calls) \in 0..MoveAmount
              /\ MoveAmount - Delivered(q.calls) <= MoveFeeCap
          BY <2>1, <2>3, <3>2, CheckedQuote, RouteFacts
        <4>2. Delivered(q.calls) \in Int
          BY <4>1, LaneFigures
        <4> QED BY <4>1, <4>2 DEF WithinCap
      <3> HIDE DEF p
      <3>4. fund' \in FundRecords /\ fund'.pc = "checked" /\ fund'.promise = p
        BY <1>0, <3>1, <3>3 DEF FundRecords, LanePcs
      <3> QED BY <2>2, <3>3, <3>4 DEF CommandFits
    <2>4. CASE ~(QuoteHolds(q) /\ VaultHolds(q))
      <3>1. Pc("refused")
        BY <2>1, <2>4 DEF Pc
      <3> QED BY <1>a, <2>2, <3>1 DEF LanePcs
    <2> QED BY <2>3, <2>4
  <1>3. CASE FundStops
    BY <1>3, <1>a DEF FundStops, LanePcs
  <1>4. CASE FundReads
    <2> DEFINE next == IF fund.road = "solana" THEN "tried"
                       ELSE IF portalAllowance < MoveAmount THEN "ready" ELSE "approved"
    <2>1. fund' = [fund EXCEPT !.pc = next, !.before = purse.arc] /\ fund.pc = "checked"
          /\ UNCHANGED <<purse, intents, spent>>
      BY <1>4 DEF FundReads
    <2>2. next \in LanePcs /\ next \notin {"depositing", "arrived"}
      BY DEF LanePcs
    <2> HIDE DEF next
    <2>3. fund' \in FundRecords /\ fund'.pc = next /\ fund'.promise = fund.promise
      BY <1>0, <2>1, <2>2 DEF FundRecords
    <2> QED BY <1>0, <2>1, <2>2, <2>3 DEF CommandFits
  <1>5. CASE FundApproves
    <2>1. fund.pc = "ready" /\ UNCHANGED <<purse, intents, spent>>
          /\ (Pc("approved") \/ Pc("refused") \/ Pc("failed"))
      BY <1>5 DEF FundApproves
    <2> QED BY <1>0, <1>a, <2>1 DEF CommandFits, LanePcs
  <1>6. CASE FundTries
    <2>1. fund.pc = "approved" /\ UNCHANGED <<purse, intents, spent>>
          /\ (Pc("tried") \/ Pc("refused"))
      BY <1>6 DEF FundTries
    <2> QED BY <1>0, <1>a, <2>1 DEF CommandFits, LanePcs
  <1>7. CASE FundConfirms
    <2>1. UNCHANGED <<purse, intents, spent>>
          /\ (Pc("waiting") \/ Pc("refused") \/ Pc("failed"))
      BY <1>7 DEF FundConfirms
    <2> QED BY <1>a, <2>1 DEF LanePcs
  <1>8. CASE FundWaits
    <2> DEFINE grew == purse.arc - fund.before
    <2>1. /\ UNCHANGED <<purse, intents, spent>>
          /\ \/ grew >= fund.promise.least /\ fund' = [fund EXCEPT !.pc = "arrived", !.grew = grew]
             \/ Pc("notYet")
      BY <1>8 DEF FundWaits
    <2>2. CASE Pc("notYet")
      BY <1>a, <2>1, <2>2 DEF LanePcs
    <2>3. CASE /\ grew >= fund.promise.least
               /\ fund' = [fund EXCEPT !.pc = "arrived", !.grew = grew]
      <3>1. grew \in Int /\ grew >= 0
        BY <1>0, <2>3 DEF FundRecords
      <3> HIDE DEF grew
      <3>2. fund' \in FundRecords /\ fund'.pc = "arrived" /\ fund'.grew = grew
        BY <1>0, <2>3, <3>1 DEF FundRecords, LanePcs
      <3> QED BY <2>1, <3>1, <3>2 DEF CommandFits
    <2> QED BY <2>1, <2>2, <2>3
  <1>9. CASE FundDeposits
    <2> DEFINE n == DepositAmount(fund.grew, purse.arc)
               next == IF n = 0 THEN "kept" ELSE "depositing"
    <2>1. /\ UNCHANGED <<purse, intents, spent>>
          /\ fund' = [fund EXCEPT !.pc = next, !.deposit = n] \/ Pc("done")
          /\ fund.pc = "arrived"
      BY <1>9 DEF FundDeposits
    <2>2. CASE Pc("done")
      BY <1>a, <2>1, <2>2 DEF LanePcs
    <2>3. CASE fund' = [fund EXCEPT !.pc = next, !.deposit = n]
      <3>1. fund.grew \in Int /\ fund.grew >= 0
        BY <1>0, <2>1 DEF FundRecords, CommandFits
      <3>2. n \in Int
        BY <1>0, <3>1, LaneFigures DEF DepositAmount
      <3>3. n = 0 \/ purse.arc >= n + KeepForGas
        BY <1>0, <3>1, LaneFigures DEF DepositAmount
      <3> HIDE DEF n
      <3>4. next \in {"kept", "depositing"} /\ (next = "depositing" => n # 0)
        OBVIOUS
      <3> HIDE DEF next
      <3>5. fund' \in FundRecords /\ fund'.pc = next /\ fund'.deposit = n
        BY <1>0, <2>3, <3>2, <3>4 DEF FundRecords, LanePcs
      <3>6. next = "depositing" /\ KeepForGas >= ArcGas => purse.arc >= n + ArcGas
        BY <1>0, <3>2, <3>3, <3>4, LaneFigures
      <3> QED BY <2>1, <3>4, <3>5, <3>6 DEF CommandFits
    <2> QED BY <2>1, <2>2, <2>3
  <1> QED BY <1>1, <1>2, <1>3, <1>4, <1>5, <1>6, <1>7, <1>8, <1>9 DEF Reckons

-----------------------------------------------------------------------------
(* The steps that move money *)

Total == purse.source + purse.arc + purse.gateway + spent.fees + spent.gas

\* The books, by what is on its way and what has been paid for.
LEMMA BooksAre ==
    ASSUME LaneInv
    PROVE  /\ Total \in Int /\ Cardinality(UnitsOf(intents)) \in Nat
           /\ Total + Cardinality(UnitsOf(intents)) = 2 * MoveAmount
           /\ spent.fees <= MoveFeeCap * Cardinality(PaidFor(intents))
           /\ IsFiniteSet(PaidFor(intents)) /\ Cardinality(PaidFor(intents)) \in Nat
           /\ \E n \in Nat : DOMAIN intents = 1..n
           /\ \A i \in DOMAIN intents : intents[i].delivers \in 0..MoveAmount
           /\ \A i \in DOMAIN intents : intents[i] \in IntentRecords
  <1>1. PICK n \in Nat : DOMAIN intents = 1..n
    BY DEF LaneInv, LaneTypes
  <1>2. \A i \in DOMAIN intents : intents[i].delivers \in 0..MoveAmount
    BY DEF LaneInv, IntentFits, WithinCap
  <1>3. IsFiniteSet(1..n) /\ IsFiniteSet(1..MoveAmount)
    BY LaneFigures, FS_Interval
  <1>4. IsFiniteSet(PaidFor(intents)) /\ Cardinality(PaidFor(intents)) \in Nat
    <2>1. PaidFor(intents) \in SUBSET (1..n)
      BY <1>1 DEF PaidFor
    <2> QED BY <1>3, <2>1, FS_Subset, FS_CardinalityType
  <1>5. Cardinality(UnitsOf(intents)) \in Nat
    <2>1. IsFiniteSet((1..n) \X (1..MoveAmount))
      BY <1>3, FS_Product
    <2>2. UnitsOf(intents) \in SUBSET ((1..n) \X (1..MoveAmount))
      BY <1>1 DEF UnitsOf
    <2> QED BY <2>1, <2>2, FS_Subset, FS_CardinalityType
  <1>6. /\ purse.source \in Int /\ purse.arc \in Int /\ purse.gateway \in Int
        /\ spent.fees \in Int /\ spent.gas \in Int
    BY DEF LaneInv, LaneTypes
  <1>7. /\ purse.source + OnItsWay + purse.arc + purse.gateway + spent.fees + spent.gas
             = 2 * MoveAmount
        /\ spent.fees <= MoveFeeCap * Cardinality(PaidFor(intents))
    BY OnItsWayIs DEF LaneInv, BooksBalance
  <1>8. Total \in Int /\ Total + Cardinality(UnitsOf(intents)) = 2 * MoveAmount
    <2>1. OnItsWay = Cardinality(UnitsOf(intents))
      BY OnItsWayIs
    <2> QED BY <1>5, <1>6, <1>7, <2>1 DEF Total
  <1>9. \A i \in DOMAIN intents : intents[i] \in IntentRecords
    BY DEF LaneInv, LaneTypes
  <1> QED BY <1>1, <1>2, <1>4, <1>5, <1>7, <1>8, <1>9

\* The books after a step.
LEMMA BooksStay ==
    ASSUME LaneInv, LaneTypes',
           Total' + Cardinality(UnitsOf(intents')) = Total + Cardinality(UnitsOf(intents)),
           Cardinality(UnitsOf(intents')) \in Nat,
           spent.fees' <= MoveFeeCap * Cardinality(PaidFor(intents'))
    PROVE  BooksBalance'
  <1>1. /\ OnItsWay' = Cardinality(UnitsOf(intents'))
        /\ InState({"burnt", "landed"})' = PaidFor(intents')
    BY DEF OnItsWay, UnitsOnTheWay, UnitsOf, InState, Worth, PaidFor
  <1>2. /\ purse'.source \in Int /\ purse'.arc \in Int /\ purse'.gateway \in Int
        /\ spent'.fees \in Int /\ spent'.gas \in Int
    BY DEF LaneTypes
  <1>3. Total' = purse'.source + purse'.arc + purse'.gateway + spent'.fees + spent'.gas
    BY DEF Total
  <1>4. Total' + Cardinality(UnitsOf(intents')) = 2 * MoveAmount
    BY BooksAre
  <1>5. purse'.source + OnItsWay' + purse'.arc + purse'.gateway + spent'.fees + spent'.gas
          = 2 * MoveAmount
    BY <1>1, <1>2, <1>3, <1>4
  <1> QED BY <1>1, <1>5 DEF BooksBalance

\* A new intent brings nothing yet.
LEMMA SendsFits ==
    ASSUME LaneInv, FundSends
    PROVE  LaneInv'
  <1>0. /\ fund \in FundRecords /\ intents \in Seq(IntentRecords) /\ WithinCap(fund.promise)
        /\ UNCHANGED <<purse, spent>> /\ LaneTypes
        /\ \A i \in DOMAIN intents : IntentFits(intents[i])
    BY DEF LaneInv, LaneTypes, CommandFits, FundSends
  <1> DEFINE x == [state |-> "sent", road |-> fund.road,
                   delivers |-> fund.promise.delivers, ours |-> fund.promise.ours]
  <1>1. x \in IntentRecords /\ IntentFits(x) /\ x.state = "sent"
    BY <1>0, LaneFigures DEF FundRecords, IntentRecords, IntentFits, WithinCap, IntentStates
  <1>2. intents' = Append(intents, x)
    BY DEF FundSends
  <1> HIDE DEF x
  <1>3. /\ intents' \in Seq(IntentRecords)
        /\ DOMAIN intents' = 1..(Len(intents) + 1) /\ DOMAIN intents = 1..Len(intents)
        /\ \A i \in 1..Len(intents) : intents'[i] = intents[i]
        /\ intents'[Len(intents) + 1] = x
        /\ Len(intents) \in Nat /\ Len(intents') = Len(intents) + 1
    BY <1>0, <1>1, <1>2
  <1>4. UnitsOf(intents') = UnitsOf(intents) /\ PaidFor(intents') = PaidFor(intents)
    <2> DEFINE s == intents
               t == intents'
               n == Len(intents)
    <2>1. /\ n \in Nat /\ DOMAIN s = 1..n /\ DOMAIN t = 1..(n + 1)
          /\ \A i \in 1..n : t[i] = s[i]
          /\ t[n + 1].state = "sent"
      BY <1>1, <1>3
    <2> HIDE DEF s, t, n
    <2>2. /\ \A i \in DOMAIN s : i \in DOMAIN t /\ t[i] = s[i]
          /\ \A i \in DOMAIN t : t[i].state # "sent" => i \in DOMAIN s /\ t[i] = s[i]
      BY <2>1
    <2>3. UnitsOf(t) = UnitsOf(s)
      BY <2>2 DEF UnitsOf
    <2>4. PaidFor(t) = PaidFor(s)
      BY <2>2 DEF PaidFor
    <2> QED BY <2>3, <2>4 DEF s, t
  <1>5. fund' \in FundRecords /\ fund'.pc \in {"confirming", "failed"}
    <2>1. Len(intents') \in Nat
      BY <1>3
    <2>2. \/ fund' = [fund EXCEPT !.pc = "confirming", !.sent = Len(intents')]
          \/ fund' = [fund EXCEPT !.pc = "failed"]
      BY DEF FundSends, Pc
    <2> DEFINE k == Len(intents')
    <2>3. k \in Nat /\ (\/ fund' = [fund EXCEPT !.pc = "confirming", !.sent = k]
                        \/ fund' = [fund EXCEPT !.pc = "failed"])
      BY <2>1, <2>2
    <2> HIDE DEF k
    <2> QED BY <1>0, <2>3 DEF FundRecords, LanePcs
  <1>6. LaneTypes' /\ CommandFits'
    BY <1>0, <1>3, <1>5 DEF LaneTypes, CommandFits
  <1>7. \A i \in DOMAIN intents' : IntentFits(intents'[i])
    BY <1>0, <1>1, <1>3
  <1>8. Total' = Total /\ spent.fees' = spent.fees
    BY <1>0 DEF Total
  <1>9. BooksBalance'
    BY <1>4, <1>6, <1>8, BooksAre, BooksStay
  <1> QED BY <1>6, <1>7, <1>9 DEF LaneInv

\* Two wallets that change at once.
LEMMA PurseOf ==
    ASSUME NEW p \in [{"source", "arc", "gateway"} -> Int], NEW a \in Int, NEW g \in Int
    PROVE  LET r == [p EXCEPT !.arc = a, !.gateway = g]
           IN  /\ r \in [{"source", "arc", "gateway"} -> Int]
               /\ r.arc = a /\ r.gateway = g /\ r.source = p.source
  <1> DEFINE q == [p EXCEPT !.arc = a]
  <1>1. /\ q \in [{"source", "arc", "gateway"} -> Int]
        /\ q.arc = a /\ q.source = p.source
    OBVIOUS
  <1> HIDE DEF q
  <1> DEFINE r == [q EXCEPT !.gateway = g]
  <1>2. /\ r \in [{"source", "arc", "gateway"} -> Int]
        /\ r.arc = a /\ r.gateway = g /\ r.source = p.source
    BY <1>1
  <1>3. [p EXCEPT !.arc = a, !.gateway = g] = r
    BY DEF q
  <1> HIDE DEF r
  <1> QED BY <1>2, <1>3

\* Money between the wallets, and its gas.
LEMMA DepositFits ==
    ASSUME LaneInv, NEW n \in Int, NEW ended \in LanePcs,
           GatewayTakes(n, ended), UNCHANGED intents,
           ended \notin {"checked", "ready", "approved", "tried", "arrived", "depositing"}
    PROVE  LaneInv'
  <1>0. /\ fund \in FundRecords /\ LaneTypes
        /\ \A i \in DOMAIN intents : IntentFits(intents[i])
    BY DEF LaneInv, LaneTypes
  <1>1. /\ \/ /\ purse' = [purse EXCEPT !.arc = @ - n - ArcGas, !.gateway = @ + n]
              /\ spent' = [spent EXCEPT !.gas = @ + ArcGas]
           \/ UNCHANGED <<purse, spent>>
        /\ Pc(ended) \/ Pc("failed")
    BY DEF GatewayTakes
  <1>2. fund' \in FundRecords /\ fund'.pc \in {ended, "failed"}
    BY <1>0, <1>1 DEF Pc, FundRecords, LanePcs
  <1>3. CommandFits'
    BY <1>2 DEF CommandFits
  <1>4. /\ LaneTypes' /\ Total' = Total /\ spent'.fees = spent.fees
    <2>1. CASE UNCHANGED <<purse, spent>>
      BY <1>0, <1>2, <2>1 DEF LaneTypes, Total
    <2>2. CASE /\ purse' = [purse EXCEPT !.arc = @ - n - ArcGas, !.gateway = @ + n]
               /\ spent' = [spent EXCEPT !.gas = @ + ArcGas]
      <3>1. /\ purse' \in [{"source", "arc", "gateway"} -> Int]
            /\ purse'.arc = purse.arc - n - ArcGas /\ purse'.gateway = purse.gateway + n
            /\ purse'.source = purse.source
        <4> DEFINE a == purse.arc - n - ArcGas
                   g == purse.gateway + n
        <4>1. purse \in [{"source", "arc", "gateway"} -> Int]
          BY <1>0 DEF LaneTypes
        <4>2. a \in Int /\ g \in Int
          BY <4>1, LaneFigures
        <4>3. purse' = [purse EXCEPT !.arc = a, !.gateway = g]
          BY <2>2
        <4> HIDE DEF a, g
        <4>4. /\ purse' \in [{"source", "arc", "gateway"} -> Int]
              /\ purse'.arc = a /\ purse'.gateway = g /\ purse'.source = purse.source
          BY <4>1, <4>2, <4>3, PurseOf
        <4> QED BY <4>4 DEF a, g
      <3>2. /\ spent' \in [{"fees", "gas"} -> Int]
            /\ spent'.gas = spent.gas + ArcGas /\ spent'.fees = spent.fees
        BY <1>0, <2>2, LaneFigures DEF LaneTypes
      <3>3. LaneTypes'
        BY <1>0, <1>2, <3>1, <3>2 DEF LaneTypes
      <3>4. /\ purse.source \in Int /\ purse.arc \in Int /\ purse.gateway \in Int
            /\ spent.fees \in Int /\ spent.gas \in Int
        BY <1>0 DEF LaneTypes
      <3>5. Total' = Total
        BY <3>1, <3>2, <3>4, LaneFigures DEF Total
      <3> QED BY <3>2, <3>3, <3>5
    <2> QED BY <1>1, <2>1, <2>2
  <1>5. BooksBalance'
    BY <1>4, BooksAre, BooksStay
  <1> QED BY <1>0, <1>3, <1>4, <1>5 DEF LaneInv

LEMMA WithdrawFits ==
    ASSUME LaneInv, NEW n \in Nat, OwnerWithdraws(n)
    PROVE  LaneInv'
  <1>0. /\ LaneTypes /\ UNCHANGED <<fund, intents>>
        /\ fund.pc \notin {"checked", "ready", "approved", "tried", "arrived", "depositing"}
        /\ purse' = [purse EXCEPT !.gateway = @ - n, !.arc = @ + n - ArcGas]
        /\ spent' = [spent EXCEPT !.gas = @ + ArcGas]
        /\ purse \in [{"source", "arc", "gateway"} -> Int]
        /\ \A i \in DOMAIN intents : IntentFits(intents[i])
    BY DEF LaneInv, LaneTypes, OwnerWithdraws, Ended
  <1>1. /\ purse' \in [{"source", "arc", "gateway"} -> Int]
        /\ purse'.arc = purse.arc + (n - ArcGas) /\ purse'.gateway = purse.gateway - n
        /\ purse'.source = purse.source
    <2> DEFINE a == purse.arc + n - ArcGas
               g == purse.gateway - n
    <2>0. purse \in [{"source", "arc", "gateway"} -> Int]
      BY <1>0
    <2>1. a \in Int /\ g \in Int
      BY <2>0, LaneFigures
    <2>5. a = purse.arc + (n - ArcGas)
      BY <2>0, LaneFigures
    <2>2. purse' = [purse EXCEPT !.gateway = g, !.arc = a]
      BY <1>0
    <2> HIDE DEF a, g
    <2>3. purse' = [purse EXCEPT !.arc = a, !.gateway = g]
      BY <2>0, <2>2
    <2>4. /\ purse' \in [{"source", "arc", "gateway"} -> Int]
          /\ purse'.arc = a /\ purse'.gateway = g /\ purse'.source = purse.source
      BY <2>0, <2>1, <2>3, PurseOf
    <2> QED BY <2>4, <2>5 DEF g
  <1>2. /\ spent' \in [{"fees", "gas"} -> Int]
        /\ spent'.gas = spent.gas + ArcGas /\ spent'.fees = spent.fees
    BY <1>0, LaneFigures DEF LaneTypes
  <1>3. LaneTypes' /\ CommandFits'
    BY <1>0, <1>1, <1>2 DEF LaneTypes, CommandFits
  <1>4. /\ purse.source \in Int /\ purse.arc \in Int /\ purse.gateway \in Int
        /\ spent.fees \in Int /\ spent.gas \in Int
    BY <1>0 DEF LaneTypes
  <1>5. Total' = Total
    BY <1>1, <1>2, <1>4, LaneFigures DEF Total
  <1>6. BooksBalance'
    BY <1>0, <1>2, <1>3, <1>5, BooksAre, BooksStay
  <1> QED BY <1>0, <1>3, <1>6 DEF LaneInv

\* A step of one intent: what it brings on its way comes out of the purse, or
\* goes into it or into fees, and a fee is within the cap.
LEMMA IntentFitsAgain ==
    ASSUME LaneInv, NEW i \in DOMAIN intents, NEW state \in IntentStates \ {"taken"},
           Intent(i, state), UNCHANGED fund,
           purse' \in [{"source", "arc", "gateway"} -> Int], purse'.arc >= purse.arc,
           spent' \in [{"fees", "gas"} -> Int],
           LET x == [intents[i] EXCEPT !.state = state]
           IN  /\ Total' + Part(x) = Total + Part(intents[i])
               /\ \/ /\ spent'.fees = spent.fees
                     /\ state \in {"burnt", "landed"} <=> intents[i].state \in {"burnt", "landed"}
                  \/ /\ spent'.fees = spent.fees + (MoveAmount - intents[i].delivers)
                     /\ state = "burnt" /\ intents[i].state \notin {"burnt", "landed"}
    PROVE  LaneInv'
  <1> DEFINE x == [intents[i] EXCEPT !.state = state]
  <1>0. /\ LaneTypes /\ CommandFits /\ intents \in Seq(IntentRecords)
        /\ intents[i] \in IntentRecords /\ IntentFits(intents[i])
        /\ \A j \in DOMAIN intents : IntentFits(intents[j])
    BY BooksAre DEF LaneInv, LaneTypes
  <1>1. /\ x \in IntentRecords /\ IntentFits(x) /\ x.state = state
        /\ x.delivers = intents[i].delivers
    <2>1. /\ x \in IntentRecords /\ x.state = state /\ x.delivers = intents[i].delivers
          /\ x.ours = intents[i].ours /\ x.road = intents[i].road
      BY <1>0 DEF IntentRecords
    <2> QED BY <1>0, <2>1 DEF IntentFits, WithinCap
  <1>2. intents' = [intents EXCEPT ![i] = x]
    BY DEF Intent
  <1>a. /\ Total' + Part(x) = Total + Part(intents[i])
        /\ \/ /\ spent'.fees = spent.fees
              /\ state \in {"burnt", "landed"} <=> intents[i].state \in {"burnt", "landed"}
           \/ /\ spent'.fees = spent.fees + (MoveAmount - intents[i].delivers)
              /\ state = "burnt" /\ intents[i].state \notin {"burnt", "landed"}
    OBVIOUS
  <1> HIDE DEF x
  <1>3. /\ intents' \in Seq(IntentRecords) /\ DOMAIN intents' = DOMAIN intents
        /\ intents'[i] = x /\ \A j \in DOMAIN intents : j # i => intents'[j] = intents[j]
    BY <1>0, <1>1, <1>2
  <1>4. LaneTypes' /\ CommandFits'
    <2>1. /\ purse.arc \in Int /\ purse'.arc \in Int /\ fund \in FundRecords
      BY <1>0 DEF LaneTypes
    <2>2. fund.deposit \in Int
      BY <2>1 DEF FundRecords
    <2>3. CommandFits'
      BY <1>0, <2>1, <2>2, LaneFigures DEF CommandFits
    <2> QED BY <1>0, <1>3, <2>3 DEF LaneTypes
  <1>5. \A j \in DOMAIN intents' : IntentFits(intents'[j])
    BY <1>0, <1>1, <1>3
  <1>6. /\ Cardinality(UnitsOf(intents')) \in Nat
        /\ Cardinality(UnitsOf(intents')) + Part(intents[i])
             = Cardinality(UnitsOf(intents)) + Part(x)
    <2>1. PICK n \in Nat : DOMAIN intents = 1..n
      BY BooksAre
    <2>2. \A j \in 1..n : intents[j].delivers \in 0..MoveAmount
      BY <2>1, BooksAre
    <2> DEFINE s == intents
               t == intents'
    <2>3. MovesOne(s, t, n, i) /\ t[i] = x
      BY <1>1, <1>3, <2>1, <2>2 DEF MovesOne
    <2> HIDE DEF s, t
    <2>4. /\ Cardinality(UnitsOf(t)) \in Nat
          /\ Cardinality(UnitsOf(t)) + Part(s[i]) = Cardinality(UnitsOf(s)) + Part(t[i])
      BY <2>3, OneIntentMoves
    <2> QED BY <2>3, <2>4 DEF s, t
  <1>7. /\ Total' \in Int /\ Part(x) \in Int /\ Part(intents[i]) \in Int
    <2>1. /\ purse'.source \in Int /\ purse'.arc \in Int /\ purse'.gateway \in Int
          /\ spent'.fees \in Int /\ spent'.gas \in Int
      BY <1>4 DEF LaneTypes
    <2>2. Total' \in Int
      BY <2>1 DEF Total
    <2>3. x.delivers \in 0..MoveAmount /\ intents[i].delivers \in 0..MoveAmount
      BY <1>0, <1>1 DEF IntentFits, WithinCap
    <2> QED BY <2>2, <2>3, LaneFigures DEF Part
  <1>8. Total' + Cardinality(UnitsOf(intents')) = Total + Cardinality(UnitsOf(intents))
    <2> DEFINE u == Cardinality(UnitsOf(intents))
               v == Cardinality(UnitsOf(intents'))
               before == Total
               after == Total'
    <2>1. u \in Int /\ v \in Int /\ before \in Int /\ after \in Int
      BY <1>6, <1>7, BooksAre
    <2>2. after + Part(x) = before + Part(intents[i]) /\ v + Part(intents[i]) = u + Part(x)
      BY <1>a, <1>6
    <2> HIDE DEF u, v, before, after
    <2>3. after + v = before + u
      BY <1>7, <2>1, <2>2
    <2> QED BY <2>3 DEF u, v, before, after
  <1>9. spent'.fees <= MoveFeeCap * Cardinality(PaidFor(intents'))
    <2>1. CASE /\ spent'.fees = spent.fees
               /\ state \in {"burnt", "landed"} <=> intents[i].state \in {"burnt", "landed"}
      <3>1. PaidFor(intents') = PaidFor(intents)
        BY <1>1, <1>3, <2>1 DEF PaidFor
      <3> QED BY <2>1, <3>1, BooksAre
    <2>2. CASE /\ spent'.fees = spent.fees + (MoveAmount - intents[i].delivers)
               /\ state = "burnt" /\ intents[i].state \notin {"burnt", "landed"}
      <3>1. PaidFor(intents') = PaidFor(intents) \cup {i} /\ i \notin PaidFor(intents)
        BY <1>1, <1>3, <2>2 DEF PaidFor
      <3>2. Cardinality(PaidFor(intents')) = Cardinality(PaidFor(intents)) + 1
        BY <3>1, BooksAre, FS_AddElement
      <3> DEFINE k == Cardinality(PaidFor(intents))
                 d == intents[i].delivers
      <3>3. k \in Nat /\ spent.fees <= MoveFeeCap * k
        BY BooksAre
      <3>4. MoveAmount - d <= MoveFeeCap /\ d \in Int
        BY <1>0, LaneFigures DEF IntentFits, WithinCap
      <3>5. spent.fees \in Int
        BY <1>0 DEF LaneTypes
      <3> HIDE DEF k, d
      <3>6. MoveFeeCap * (k + 1) = MoveFeeCap * k + MoveFeeCap /\ MoveFeeCap * k \in Int
        BY <3>3, LaneFigures
      <3>7. spent'.fees = spent.fees + (MoveAmount - d)
        BY <2>2 DEF d
      <3>8. spent'.fees <= MoveFeeCap * (k + 1)
        BY <3>3, <3>4, <3>5, <3>6, <3>7, LaneFigures
      <3> QED BY <3>2, <3>8 DEF k
    <2> QED BY <1>a, <2>1, <2>2
  <1>10. BooksBalance'
    BY <1>4, <1>6, <1>8, <1>9, BooksStay
  <1> QED BY <1>4, <1>5, <1>10 DEF LaneInv

-----------------------------------------------------------------------------
(* The chains *)

LEMMA ChainsFit ==
    ASSUME LaneInv, NEW i \in DOMAIN intents, PortalFunds(i) \/ SolverBurns(i) \/ Minted(i)
    PROVE  LaneInv'
  <1>0. /\ purse \in [{"source", "arc", "gateway"} -> Int]
        /\ spent \in [{"fees", "gas"} -> Int]
        /\ intents[i] \in IntentRecords /\ IntentFits(intents[i])
    BY BooksAre DEF LaneInv, LaneTypes
  <1>1. /\ intents[i].delivers \in Int /\ intents[i].delivers >= 0 /\ intents[i].ours = TRUE
    BY <1>0, LaneFigures DEF IntentFits, WithinCap
  <1>2. /\ purse.source \in Int /\ purse.arc \in Int /\ purse.gateway \in Int
        /\ spent.fees \in Int /\ spent.gas \in Int
    BY <1>0
  <1>p. ASSUME NEW state \in IntentStates
        PROVE  Part([intents[i] EXCEPT !.state = state])
                 = IF state = "funded" THEN MoveAmount
                   ELSE IF state = "burnt" THEN intents[i].delivers ELSE 0
    BY <1>0 DEF Part, IntentRecords
  <1>3. CASE PortalFunds(i)
    <2>1. /\ intents[i].state = "sent" /\ UNCHANGED <<fund, spent>>
          /\ \/ Purse("source", -MoveAmount) /\ Intent(i, "funded")
             \/ UNCHANGED purse /\ Intent(i, "reverted")
      BY <1>1, <1>3 DEF PortalFunds
    <2>2. Part(intents[i]) = 0
      BY <2>1 DEF Part
    <2>3. CASE Purse("source", -MoveAmount) /\ Intent(i, "funded")
      <3>1. /\ purse' \in [{"source", "arc", "gateway"} -> Int] /\ purse'.arc = purse.arc
            /\ purse'.gateway = purse.gateway /\ purse'.source = purse.source - MoveAmount
        BY <1>0, <1>2, <2>3, LaneFigures DEF Purse
      <3>2. "funded" \in IntentStates \ {"taken"}
        BY DEF IntentStates
      <3>3. Total' + MoveAmount = Total
        BY <1>2, <2>1, <3>1, LaneFigures DEF Total
      <3>4. Part([intents[i] EXCEPT !.state = "funded"]) = MoveAmount
        BY <1>p, <3>2
      <3>5. Total \in Int /\ purse'.arc >= purse.arc
        BY <1>2, <3>1 DEF Total
      <3> QED BY <1>0, <2>1, <2>2, <2>3, <3>1, <3>2, <3>3, <3>4, <3>5, IntentFitsAgain
    <2>4. CASE UNCHANGED purse /\ Intent(i, "reverted")
      <3>2. "reverted" \in IntentStates \ {"taken"}
        BY DEF IntentStates
      <3>3. Total' = Total /\ purse'.arc >= purse.arc
        BY <1>2, <2>1, <2>4 DEF Total
      <3>4. Part([intents[i] EXCEPT !.state = "reverted"]) = 0
        BY <1>p, <3>2
      <3> QED BY <1>0, <2>1, <2>2, <2>4, <3>2, <3>3, <3>4, IntentFitsAgain
    <2> QED BY <2>1, <2>3, <2>4
  <1>4. CASE SolverBurns(i)
    <2> DEFINE fee == MoveAmount - intents[i].delivers
    <2>1. /\ intents[i].state = "funded" /\ UNCHANGED fund
          /\ \/ Intent(i, "burnt") /\ UNCHANGED purse /\ SolverBurns(i)
             \/ Intent(i, "refunded") /\ Purse("source", MoveAmount) /\ UNCHANGED spent
      BY <1>4 DEF SolverBurns
    <2>2. Part(intents[i]) = MoveAmount
      BY <2>1 DEF Part
    <2>3. CASE Intent(i, "burnt") /\ UNCHANGED purse
               /\ spent' = [spent EXCEPT !.fees = @ + MoveAmount - intents[i].delivers]
      <3>0. fee \in Int
        BY <1>1, LaneFigures
      <3>1. /\ spent' \in [{"fees", "gas"} -> Int] /\ spent'.gas = spent.gas
            /\ spent'.fees = spent.fees + fee
        <4> DEFINE f == spent.fees + MoveAmount - intents[i].delivers
        <4>1. f \in Int /\ f = spent.fees + fee
          BY <1>1, <1>2, LaneFigures
        <4>2. spent' = [spent EXCEPT !.fees = f]
          BY <2>3
        <4> HIDE DEF f, fee
        <4> QED BY <1>0, <4>1, <4>2
      <3>2. "burnt" \in IntentStates \ {"taken"}
        BY DEF IntentStates
      <3>3. Total' = Total + fee /\ purse'.arc >= purse.arc
        <4> HIDE DEF fee
        <4> QED BY <1>2, <2>3, <3>0, <3>1 DEF Total
      <3>4. Part([intents[i] EXCEPT !.state = "burnt"]) = intents[i].delivers
        BY <1>p, <3>2
      <3>5. Total \in Int
        BY <1>2 DEF Total
      <3>6. Total' + intents[i].delivers = Total + MoveAmount
        BY <1>1, <3>3, <3>5, LaneFigures
      <3> QED BY <1>0, <2>1, <2>2, <2>3, <3>1, <3>2, <3>3, <3>4, <3>6, IntentFitsAgain
    <2>4. CASE Intent(i, "refunded") /\ Purse("source", MoveAmount) /\ UNCHANGED spent
      <3>1. /\ purse' \in [{"source", "arc", "gateway"} -> Int] /\ purse'.arc = purse.arc
            /\ purse'.gateway = purse.gateway /\ purse'.source = purse.source + MoveAmount
        BY <1>0, <1>2, <2>4, LaneFigures DEF Purse
      <3>2. "refunded" \in IntentStates \ {"taken"}
        BY DEF IntentStates
      <3>3. Total' = Total + MoveAmount
        BY <1>2, <2>4, <3>1, LaneFigures DEF Total
      <3>4. Part([intents[i] EXCEPT !.state = "refunded"]) = 0
        BY <1>p, <3>2
      <3>5. Total \in Int /\ Total' \in Int /\ purse'.arc >= purse.arc
        BY <1>2, <3>1, <3>3, LaneFigures DEF Total
      <3>6. Total' + 0 = Total + MoveAmount
        BY <3>3, <3>5
      <3> QED BY <1>0, <2>1, <2>2, <2>4, <3>1, <3>2, <3>4, <3>5, <3>6, IntentFitsAgain
    <2> QED BY <1>4, <2>3, <2>4 DEF SolverBurns
  <1>5. CASE Minted(i)
    <2>1. /\ intents[i].state = "burnt" /\ UNCHANGED <<fund, spent>>
          /\ Intent(i, "landed") /\ Purse("arc", intents[i].delivers)
      BY <1>5 DEF Minted
    <2>2. Part(intents[i]) = intents[i].delivers
      BY <2>1 DEF Part
    <2>3. /\ purse' \in [{"source", "arc", "gateway"} -> Int]
          /\ purse'.arc = purse.arc + intents[i].delivers
          /\ purse'.gateway = purse.gateway /\ purse'.source = purse.source
      <3> DEFINE d == intents[i].delivers
      <3>1. d \in Int /\ purse' = [purse EXCEPT !.arc = @ + d]
        BY <1>1, <2>1 DEF Purse
      <3> HIDE DEF d
      <3>2. /\ purse' \in [{"source", "arc", "gateway"} -> Int]
            /\ purse'.arc = purse.arc + d
            /\ purse'.gateway = purse.gateway /\ purse'.source = purse.source
        BY <1>0, <1>2, <3>1
      <3> QED BY <3>2 DEF d
    <2>4. "landed" \in IntentStates \ {"taken"}
      BY DEF IntentStates
    <2>5. Total' = Total + intents[i].delivers
      BY <1>1, <1>2, <2>1, <2>3 DEF Total
    <2>6. Part([intents[i] EXCEPT !.state = "landed"]) = 0
      BY <1>p, <2>4
    <2>7. Total \in Int /\ purse'.arc >= purse.arc
      BY <1>1, <1>2, <2>3 DEF Total
    <2>8. Total' + 0 = Total + intents[i].delivers
      BY <1>1, <2>5, <2>7
    <2> QED BY <1>0, <2>1, <2>2, <2>3, <2>4, <2>6, <2>7, <2>8, IntentFitsAgain
  <1> QED BY <1>3, <1>4, <1>5

LEMMA LaneStarts == LaneInit => LaneInv
  <1> SUFFICES ASSUME LaneInit PROVE LaneInv
    OBVIOUS
  <1>1. fund = NoFund /\ intents = <<>>
    BY DEF LaneInit
  <1>2. fund \in FundRecords /\ fund.pc = "idle"
    BY <1>1 DEF NoFund, NoPromise, FundRecords, Roads, LanePcs
  <1>3. LaneTypes
    BY <1>2, LaneFigures DEF LaneInit, LaneTypes
  <1>4. InState({"burnt", "landed"}) = {} /\ UnitsOnTheWay = {}
    BY <1>1 DEF InState, UnitsOnTheWay
  <1>5. Cardinality(InState({"burnt", "landed"})) = 0 /\ OnItsWay = 0
    BY <1>4, FS_EmptySet DEF OnItsWay
  <1>6. BooksBalance
    <2>1. /\ purse.source = 2 * MoveAmount /\ purse.arc = 0 /\ purse.gateway = 0
          /\ spent.fees = 0 /\ spent.gas = 0
      BY DEF LaneInit
    <2> QED BY <1>5, <2>1, LaneFigures DEF BooksBalance
  <1> QED BY <1>1, <1>2, <1>3, <1>6 DEF LaneInv, CommandFits

LEMMA LaneKeeps == LaneInv /\ [LaneNext]_laneVars => LaneInv'
  <1> SUFFICES ASSUME LaneInv, [LaneNext]_laneVars PROVE LaneInv'
    OBVIOUS
  <1>1. CASE Reckons
    <2>1. fund' \in FundRecords /\ CommandFits' /\ UNCHANGED <<purse, intents, spent>>
      BY <1>1, ReckonsFits
    <2>2. LaneTypes' /\ \A i \in DOMAIN intents' : IntentFits(intents'[i])
      BY <2>1 DEF LaneInv, LaneTypes
    <2>3. BooksBalance'
      BY <2>1 DEF LaneInv, BooksBalance, OnItsWay, UnitsOnTheWay, InState, Worth
    <2> QED BY <2>1, <2>2, <2>3 DEF LaneInv
  <1>2. CASE FundSends
    BY <1>2, SendsFits
  <1>3. CASE FundDeposited
    <2>1. GatewayTakes(fund.deposit, "done") /\ UNCHANGED intents
      BY <1>3 DEF FundDeposited
    <2>2. fund.deposit \in Int /\ "done" \in LanePcs
      BY DEF LaneInv, LaneTypes, FundRecords, LanePcs
    <2> QED BY <2>1, <2>2, DepositFits
  <1>4. ASSUME NEW n \in 1..(2 * MoveAmount), OwnerDeposits(n) PROVE LaneInv'
    <2>1. GatewayTakes(n, fund.pc) /\ UNCHANGED intents
          /\ fund.pc \notin {"checked", "ready", "approved", "tried", "arrived", "depositing"}
      BY <1>4 DEF OwnerDeposits, Ended
    <2>2. n \in Int /\ fund.pc \in LanePcs
      BY LaneFigures DEF LaneInv, LaneTypes, FundRecords
    <2> QED BY <2>1, <2>2, DepositFits
  <1>5. ASSUME NEW n \in 1..(2 * MoveAmount), OwnerWithdraws(n) PROVE LaneInv'
    <2>1. n \in Nat
      BY LaneFigures
    <2> QED BY <1>5, <2>1, WithdrawFits
  <1>6. ASSUME NEW i \in DOMAIN intents, PortalFunds(i) \/ SolverBurns(i) \/ Minted(i)
        PROVE  LaneInv'
    BY <1>6, ChainsFit
  <1>7. CASE UNCHANGED laneVars
    <2>1. UNCHANGED <<fund, purse, intents, spent>>
      BY <1>7 DEF laneVars
    <2>2. LaneTypes' /\ CommandFits' /\ \A i \in DOMAIN intents' : IntentFits(intents'[i])
      BY <2>1 DEF LaneInv, LaneTypes, CommandFits
    <2>3. BooksBalance'
      BY <2>1 DEF LaneInv, BooksBalance, OnItsWay, UnitsOnTheWay, InState, Worth
    <2> QED BY <2>2, <2>3 DEF LaneInv
  <1>8. CASE LaneNext
    BY <1>1, <1>2, <1>3, <1>4, <1>5, <1>6, <1>8 DEF LaneNext, Reckons
  <1> QED BY <1>7, <1>8

\* Whatever Eco quotes and wherever a move ends, every unit the owner started
\* with is on the source, on its way, on Arc or in Gateway, or was a fee within
\* the cap; and the command never deposits the gas its own deposit needs.
THEOREM MoneyIsNeverLost == LaneSpec => []MoneyArrives
  <1>1. LaneInv => MoneyArrives
    BY DEF LaneInv, CommandFits, BooksBalance, MoneyArrives
  <1> QED BY <1>1, LaneStarts, LaneKeeps, PTL DEF LaneSpec

\* Each intent is of a run of its own, and what was spent is not given back.
LaneRest ==
    /\ fund.runs <= MaxMoves /\ fund.sent <= fund.runs
    /\ Len(intents) <= fund.runs
    /\ fund.pc \in {"quoting", "checked", "ready", "approved", "tried"} => Len(intents) < fund.runs
    /\ portalAllowance \in {0, MoveAmount}
    /\ spent.fees >= 0 /\ spent.gas >= 0 /\ laneFaults \in 0..MaxLaneFaults

LEMMA LaneRestSteps == LaneInv /\ LaneRest /\ [LaneNext]_laneVars => LaneRest'
<1> SUFFICES ASSUME LaneInv, LaneRest, [LaneNext]_laneVars PROVE LaneRest'
  OBVIOUS
<1>1. /\ MaxMoves \in Nat /\ MaxLaneFaults \in Nat /\ MoveAmount \in Nat /\ ArcGas \in Nat
      /\ fund \in FundRecords /\ fund.runs \in Nat /\ fund.sent \in Nat
      /\ spent \in [{"fees", "gas"} -> Int] /\ spent.fees \in Int /\ spent.gas \in Int
      /\ intents \in Seq(IntentRecords) /\ Len(intents) \in Nat
  BY LaneAssumption DEF LaneInv, LaneTypes, FundRecords
<1>2. LaneFault => laneFaults' \in 0..MaxLaneFaults
  BY <1>1 DEF LaneFault, LaneRest
<1>3. \A next : Pc(next) => fund'.pc = next /\ fund'.runs = fund.runs /\ fund'.sent = fund.sent
  BY <1>1 DEF Pc, FundRecords
<1>4. CASE UNCHANGED laneVars
  BY <1>4 DEF laneVars, LaneRest
<1>5. ASSUME NEW road \in Roads, FundStart(road) PROVE LaneRest'
  <2>1. /\ fund'.runs = fund.runs + 1 /\ fund'.sent = 0 /\ fund.runs < MaxMoves
        /\ UNCHANGED <<portalAllowance, intents, spent, laneFaults>>
    BY <1>1, <1>5 DEF FundStart, NoFund
  <2> QED BY <1>1, <2>1 DEF LaneRest
<1>6. CASE FundQuoted
  <2>1. /\ fund'.runs = fund.runs /\ fund'.sent = fund.sent /\ fund.pc = "quoting"
        /\ UNCHANGED <<portalAllowance, intents, spent, laneFaults>>
    BY <1>1, <1>6 DEF FundQuoted, FundRecords
  <2> QED BY <1>1, <2>1 DEF LaneRest
<1>7. CASE FundStops
  BY <1>1, <1>3, <1>7 DEF FundStops, LaneRest
<1>8. CASE FundReads
  <2>1. /\ fund'.runs = fund.runs /\ fund'.sent = fund.sent /\ fund.pc = "checked"
        /\ UNCHANGED <<portalAllowance, intents, spent, laneFaults>>
    BY <1>1, <1>8 DEF FundReads, FundRecords
  <2> QED BY <1>1, <2>1 DEF LaneRest
<1>9. CASE FundApproves
  BY <1>1, <1>2, <1>3, <1>9 DEF FundApproves, LaneRest
<1>10. CASE FundTries
  BY <1>1, <1>2, <1>3, <1>10 DEF FundTries, LaneRest
<1>11. CASE FundSends
  <2>1. Len(intents') = Len(intents) + 1 /\ fund.pc = "tried"
    BY <1>1, <1>11 DEF FundSends
  <2>2. /\ fund'.runs = fund.runs /\ fund'.sent \in {fund.sent, Len(intents')}
        /\ fund'.pc \in {"confirming", "failed"}
        /\ laneFaults' = laneFaults \/ LaneFault
    BY <1>1, <1>3, <1>11 DEF FundSends, FundRecords
  <2>3. portalAllowance' = portalAllowance /\ spent' = spent
    BY <1>11 DEF FundSends
  <2> QED BY <1>1, <1>2, <2>1, <2>2, <2>3 DEF LaneRest
<1>12. CASE FundConfirms
  <2>1. /\ fund'.pc \in {"waiting", "refused", "failed"} /\ fund'.runs = fund.runs /\ fund'.sent = fund.sent
        /\ laneFaults' = laneFaults \/ LaneFault
        /\ UNCHANGED <<portalAllowance, intents, spent>>
    BY <1>3, <1>12 DEF FundConfirms
  <2> QED BY <1>1, <1>2, <2>1 DEF LaneRest
<1>13. CASE FundWaits
  <2>1. /\ fund'.pc \in {"arrived", "notYet"} /\ fund'.runs = fund.runs /\ fund'.sent = fund.sent
        /\ UNCHANGED <<portalAllowance, intents, spent, laneFaults>>
    BY <1>1, <1>3, <1>13 DEF FundWaits, FundRecords
  <2> QED BY <1>1, <2>1 DEF LaneRest
<1>14. CASE FundDeposits
  <2>1. /\ fund'.pc \in {"kept", "depositing", "done"} /\ fund'.runs = fund.runs /\ fund'.sent = fund.sent
        /\ UNCHANGED <<portalAllowance, intents, spent, laneFaults>>
    BY <1>1, <1>3, <1>14 DEF FundDeposits, FundRecords
  <2> QED BY <1>1, <2>1 DEF LaneRest
<1>15. ASSUME NEW n, NEW ended \in {"idle", "refused", "failed", "notYet", "kept", "done"},
              GatewayTakes(n, ended), UNCHANGED <<portalAllowance, intents>>
       PROVE  LaneRest'
  <2>1. /\ fund'.pc \in {"idle", "refused", "failed", "notYet", "kept", "done"}
        /\ fund'.runs = fund.runs /\ fund'.sent = fund.sent
        /\ laneFaults' = laneFaults \/ LaneFault
        /\ spent' = spent \/ spent' = [spent EXCEPT !.gas = @ + ArcGas]
    BY <1>3, <1>15 DEF GatewayTakes
  <2>2. spent'.fees = spent.fees /\ spent'.gas >= spent.gas
    BY <1>1, <2>1
  <2> QED BY <1>1, <1>2, <1>15, <2>1, <2>2 DEF LaneRest
<1>16. CASE FundDeposited
  BY <1>15, <1>16 DEF FundDeposited
<1>17. ASSUME NEW n \in 1..(2 * MoveAmount), OwnerDeposits(n) PROVE LaneRest'
  BY <1>15, <1>17 DEF OwnerDeposits, Ended
<1>18. ASSUME NEW n \in 1..(2 * MoveAmount), OwnerWithdraws(n) PROVE LaneRest'
  <2>1. /\ UNCHANGED <<fund, portalAllowance, intents>> /\ LaneFault
        /\ spent' = [spent EXCEPT !.gas = @ + ArcGas]
    BY <1>18 DEF OwnerWithdraws
  <2>2. spent'.fees = spent.fees /\ spent'.gas >= spent.gas
    BY <1>1, <2>1
  <2> QED BY <1>1, <1>2, <2>1, <2>2 DEF LaneRest
<1>19. ASSUME NEW i \in DOMAIN intents, PortalFunds(i) \/ SolverBurns(i) \/ Minted(i) PROVE LaneRest'
  <2>1. /\ fund' = fund /\ laneFaults' = laneFaults
        /\ \E state : Intent(i, state)
        /\ portalAllowance' \in {portalAllowance, 0}
        /\ spent' = spent \/ spent' = [spent EXCEPT !.fees = @ + MoveAmount - intents[i].delivers]
    BY <1>19 DEF PortalFunds, SolverBurns, Minted
  <2>2. Len(intents') = Len(intents)
    <3>1. PICK state : intents' = [intents EXCEPT ![i].state = state]
      BY <2>1 DEF Intent
    <3> QED BY <1>1, <3>1
  <2>3. intents[i].delivers \in 0..MoveAmount
    BY DEF LaneInv, IntentFits, WithinCap
  <2>4. spent'.fees >= spent.fees /\ spent'.gas = spent.gas
    BY <1>1, <2>1, <2>3
  <2>5. portalAllowance' \in {0, MoveAmount}
    BY <2>1 DEF LaneRest
  <2>6. spent'.fees >= 0 /\ spent'.gas >= 0
    <3>1. spent'.fees \in Int
      BY <1>1, <2>1, <2>3
    <3> QED BY <1>1, <2>4, <3>1 DEF LaneRest
  <2> QED BY <2>1, <2>2, <2>5, <2>6 DEF LaneRest
<1> QED BY <1>4, <1>5, <1>6, <1>7, <1>8, <1>9, <1>10, <1>11, <1>12, <1>13, <1>14, <1>16, <1>17, <1>18, <1>19 DEF LaneNext

LEMMA LaneTyped == LaneInv /\ LaneRest => LaneTypeOK
<1> SUFFICES ASSUME LaneInv, LaneRest PROVE LaneTypeOK
  OBVIOUS
<1>1. /\ fund.pc \in LanePcs /\ fund.road \in Roads /\ fund.runs \in Nat /\ fund.sent \in Nat
      /\ fund.runs <= MaxMoves /\ fund.sent <= fund.runs /\ MaxMoves \in Nat
  BY LaneAssumption DEF LaneInv, LaneRest, LaneTypes, FundRecords
<1>2. spent \in [{"fees", "gas"} -> Nat]
  BY DEF LaneInv, LaneTypes, LaneRest
<1>3. \A i \in DOMAIN intents :
         /\ intents[i].state \in IntentStates
         /\ intents[i].road \in Roads /\ intents[i].delivers \in Nat /\ intents[i].ours \in BOOLEAN
  <2> TAKE i \in DOMAIN intents
  <2>1. intents[i] \in IntentRecords
    BY DEF LaneInv, LaneTypes
  <2> QED BY <2>1 DEF IntentRecords
<1>4. /\ purse \in [{"source", "arc", "gateway"} -> Int] /\ portalAllowance \in {0, MoveAmount}
      /\ laneFaults \in 0..MaxLaneFaults
  BY DEF LaneInv, LaneTypes, LaneRest
<1>5. fund.runs \in 0..MaxMoves /\ fund.sent \in 0..MaxMoves
  BY <1>1
<1> QED BY <1>1, <1>2, <1>3, <1>4, <1>5 DEF LaneTypeOK, LanePcs

LEMMA LaneRestStarts == LaneInit => LaneRest
  BY LaneAssumption DEF LaneInit, LaneRest, NoFund

\* The lane's command, wallets, allowance and intents keep their types, an
\* intent is of a run, and no fee or gas comes back.
THEOREM LaneTypeCorrect == LaneSpec => []LaneTypeOK
<1> QED BY LaneRestStarts, LaneStarts, LaneKeeps, LaneRestSteps, LaneTyped, PTL DEF LaneSpec

-----------------------------------------------------------------------------
(***************************************************************************)
(* The catalogue (Catalogue).  Terms are kept only of the endpoint that    *)
(* asked for them; a listing stays listed; what has passed the count of a  *)
(* site may still be written; a source that must not be empty is read      *)
(* again rather than replaced by nothing.                                  *)
(***************************************************************************)

Offered == Listable \X Terms
ListingRecords == [terms : Terms \cup {NoTerms}, fails : Int, ok : BOOLEAN]
SubmissionRecords ==
    [pc : {"none", "probing", "counting", "listing", "listed", "refused"},
     call : Listable \cup {NoCall}, read : Terms \cup {NoTerms}]
CheckRecords == [pc : {"none", "probe", "write"}, queue : Seq(Listable), read : Terms \cup {NoTerms}]
FoundRows == [call : Listable, terms : Terms \cup {NoTerms}, online : BOOLEAN]
FoundRecords == [fresh : BOOLEAN, rows : SUBSET FoundRows, circle : SUBSET Entries, shown : SUBSET FoundRows]
CircleRecords == [pc : {"new", "restoring", "idle", "page"}, items : SUBSET Entries, known : BOOLEAN,
                  page : Nat, tries : Nat, got : SUBSET Entries]
SourceNames == {"ours", "circle", "market", "facilitator", "erc8004"}
LabelRecords == [source : SourceNames, of : Listable \cup OtherFacilitators]
LabelerRecords == [pc : {"none", "read", "replace"}, at : 1..5, slow : BOOLEAN, read : SUBSET LabelRecords]
SaidRecords == [offers : SUBSET Offered, circle : SUBSET Entries, held : BOOLEAN,
                labelled : SUBSET SourceNames]

MarketTypes ==
    /\ offers \in [Listable -> Terms \cup {NoTerms}]
    /\ listings \in [Listable -> ListingRecords]
    /\ byAge \in Seq(Listable)
    /\ submission \in [Submissions -> SubmissionRecords]
    /\ check \in CheckRecords /\ found \in FoundRecords

OtherTypes ==
    /\ circle \in CircleRecords /\ circleStore \in SUBSET Entries /\ circleList \in Seq(Entries)
    /\ labels \in [SourceNames -> SUBSET LabelRecords] /\ labeler \in LabelerRecords
    /\ said \in SaidRecords

\* Terms that are kept anywhere were asked for by the endpoint they are kept of.
TermsWereAsked ==
    /\ \A k \in Listable : offers[k] # NoTerms => <<k, offers[k]>> \in said.offers
    /\ \A k \in Listable : IsListed(k) => <<k, listings[k].terms>> \in said.offers
    /\ \A n \in Submissions : submission[n].pc \in {"counting", "listing"} =>
         /\ submission[n].call \in Listable /\ submission[n].read # NoTerms
         /\ <<submission[n].call, submission[n].read>> \in said.offers
    /\ check.pc = "write" /\ check.read # NoTerms => <<Head(check.queue), check.read>> \in said.offers

\* What is in line for a check is listed, and a listing stays.
ListedOnes ==
    /\ \A i \in DOMAIN byAge : IsListed(byAge[i])
    /\ \A i \in DOMAIN check.queue : IsListed(check.queue[i])
    /\ check.pc # "none" => check.queue # <<>>
    /\ overdue \in 0..Len(byAge)

\* Submissions that passed the count may all be listed still.
Passing(sub) == {n \in Submissions : sub[n].pc = "listing"}
SiteIsFull == Len(byAge) + Cardinality(Passing(submission)) <= HostCap + Cardinality(Submissions) - 1

\* The search's copy, and its last answer.
SearchIsTrue ==
    /\ \A r \in found.rows : <<r.call, r.terms>> \in said.offers
    /\ \A r \in found.shown : <<r.call, r.terms>> \in said.offers /\ r.call \notin OurRoutes
    /\ \A e \in found.circle, r \in found.shown : e[1] # r.call

CircleInv ==
    /\ ToSet(circleList) \subseteq said.circle
    /\ circle.items \subseteq said.circle /\ circleStore \subseteq said.circle
    /\ circle.got \subseteq said.circle /\ found.circle \subseteq said.circle
    /\ circle.pc = "page" => circle.page >= 1
    /\ said.held => circle.items # {}

LabelInv ==
    /\ \A s \in said.labelled \cap {"circle", "erc8004"} : labels[s] # {}
    /\ labeler.pc = "replace" /\ Source \in {"circle", "erc8004"} => labeler.read # {}

CatInv ==
    /\ MarketTypes /\ OtherTypes
    /\ TermsWereAsked /\ ListedOnes /\ SiteIsFull /\ SearchIsTrue
    /\ CircleInv /\ LabelInv

-----------------------------------------------------------------------------
LEMMA CatFigures ==
    /\ IsFiniteSet(Submissions) /\ Cardinality(Submissions) \in Nat
    /\ HostCap \in Nat \ {0} /\ CheckBatch \in Nat \ {0} /\ GoneAfter \in Nat /\ OfflineAfter \in Nat
    /\ OurRoutes \subseteq Listable /\ Terms # {}
    /\ \A l \in CircleLists : l \in Seq(Entries)
  <1>1. /\ IsFiniteSet(Submissions)
        /\ HostCap \in Nat \ {0} /\ CheckBatch \in Nat \ {0} /\ GoneAfter \in Nat /\ OfflineAfter \in Nat
        /\ OurRoutes \subseteq Listable /\ Terms # {}
        /\ \A l \in CircleLists : l \in Seq(Entries)
    BY CatalogueAssumption DEF CatalogueAssumption, Entries
  <1> QED BY <1>1, FS_CardinalityType

LEMMA SourcesAre ==
    /\ ToSet(LabelSources) = SourceNames
    /\ \A i \in 1..5 : LabelSources[i] \in SourceNames
  BY DEF ToSet, LabelSources, SourceNames

\* A sequence without one of its places: those behind the one that is removed move up by one.
LEMMA WithoutOne ==
    ASSUME NEW S, NEW s \in Seq(S), NEW i \in DOMAIN s
    PROVE  /\ RemoveAt(s, i) \in Seq(S) /\ Len(RemoveAt(s, i)) = Len(s) - 1
           /\ \A j \in DOMAIN RemoveAt(s, i) :
                \E h \in DOMAIN s : h = (IF j < i THEN j ELSE j + 1) /\ RemoveAt(s, i)[j] = s[h]
  <1>0. i \in 1..Len(s) /\ Len(s) \in Nat /\ DOMAIN s = 1..Len(s)
    OBVIOUS
  <1> DEFINE a == SubSeq(s, 1, i - 1)
             b == SubSeq(s, i + 1, Len(s))
  <1>1. /\ a \in Seq(S) /\ Len(a) = i - 1
        /\ \A j \in 1..(i - 1) : a[j] = s[j]
    BY <1>0
  <1>2. /\ b \in Seq(S) /\ Len(b) = Len(s) - i
        /\ \A j \in 1..(Len(s) - i) : b[j] = s[i + j]
    BY <1>0
  <1>3. RemoveAt(s, i) = a \o b
    BY DEF RemoveAt
  <1> HIDE DEF a, b
  <1>4. a \o b \in Seq(S) /\ Len(a \o b) = Len(s) - 1 /\ DOMAIN (a \o b) = 1..(Len(s) - 1)
    <2>1. a \o b \in Seq(S) /\ Len(a \o b) = Len(a) + Len(b)
      BY <1>1, <1>2, ConcatProperties
    <2>2. Len(a) + Len(b) = Len(s) - 1
      BY <1>0, <1>1, <1>2
    <2> QED BY <2>1, <2>2
  <1>5. \A j \in 1..(Len(a) + Len(b)) :
          (a \o b)[j] = IF j <= Len(a) THEN a[j] ELSE b[j - Len(a)]
    BY <1>1, <1>2, ConcatProperties
  <1>6. ASSUME NEW j \in 1..(Len(s) - 1)
        PROVE  \E h \in DOMAIN s : h = (IF j < i THEN j ELSE j + 1) /\ (a \o b)[j] = s[h]
    <2>1. j \in 1..(Len(a) + Len(b))
      BY <1>0, <1>1, <1>2
    <2>2. CASE j < i
      <3>1. j <= Len(a) /\ j \in 1..(i - 1) /\ j \in DOMAIN s
        BY <1>0, <1>1, <2>2
      <3>2. (a \o b)[j] = a[j]
        BY <1>5, <2>1, <3>1
      <3> QED BY <1>1, <2>2, <3>1, <3>2
    <2>3. CASE ~(j < i)
      <3> DEFINE m == j - Len(a)
      <3>1. m \in 1..(Len(s) - i) /\ i + m = j + 1 /\ j + 1 \in DOMAIN s /\ ~(j <= Len(a))
        BY <1>0, <1>1, <2>3
      <3>2. (a \o b)[j] = b[m]
        BY <1>5, <2>1, <3>1
      <3> HIDE DEF m
      <3>3. b[m] = s[j + 1]
        BY <1>2, <3>1
      <3> QED BY <2>3, <3>1, <3>2, <3>3
    <2> QED BY <2>2, <2>3
  <1> QED BY <1>3, <1>4, <1>6

\* Those that are not removed stay.
LEMMA OthersKeptIn ==
    ASSUME NEW S, NEW s \in Seq(S), NEW i \in DOMAIN s, NEW h \in DOMAIN s, h # i
    PROVE  \E j \in DOMAIN RemoveAt(s, i) : RemoveAt(s, i)[j] = s[h]
  <1>0. i \in 1..Len(s) /\ h \in 1..Len(s) /\ Len(s) \in Nat
    OBVIOUS
  <1> DEFINE a == SubSeq(s, 1, i - 1)
             b == SubSeq(s, i + 1, Len(s))
             n == IF h < i THEN h ELSE h - 1
  <1>1. /\ a \in Seq(S) /\ Len(a) = i - 1
        /\ \A j \in 1..(i - 1) : a[j] = s[j]
    BY <1>0
  <1>2. /\ b \in Seq(S) /\ Len(b) = Len(s) - i
        /\ \A j \in 1..(Len(s) - i) : b[j] = s[i + j]
    BY <1>0
  <1>3. RemoveAt(s, i) = a \o b
    BY DEF RemoveAt
  <1> HIDE DEF a, b
  <1>4. DOMAIN (a \o b) = 1..(Len(s) - 1)
    <2>1. a \o b \in Seq(S) /\ Len(a \o b) = Len(a) + Len(b)
      BY <1>1, <1>2, ConcatProperties
    <2>2. Len(a) + Len(b) = Len(s) - 1
      BY <1>0, <1>1, <1>2
    <2> QED BY <2>1, <2>2
  <1>c. \A j \in 1..(Len(a) + Len(b)) :
          (a \o b)[j] = IF j <= Len(a) THEN a[j] ELSE b[j - Len(a)]
    BY <1>1, <1>2, ConcatProperties
  <1>5. CASE h < i
    <2>1. h \in 1..(Len(a) + Len(b)) /\ h <= Len(a) /\ h \in 1..(i - 1) /\ h \in 1..(Len(s) - 1)
      BY <1>0, <1>1, <1>2, <1>5
    <2>2. (a \o b)[h] = s[h]
      BY <1>1, <1>c, <2>1
    <2> QED BY <1>3, <1>4, <2>1, <2>2
  <1>6. CASE h > i
    <2> DEFINE g == h - 1
               m == h - i
    <2>1. g \in 1..(Len(a) + Len(b)) /\ ~(g <= Len(a)) /\ g \in 1..(Len(s) - 1)
      BY <1>0, <1>1, <1>2, <1>6
    <2>2. m \in 1..(Len(s) - i) /\ i + m = h /\ g - Len(a) = m
      BY <1>0, <1>1, <1>6
    <2> HIDE DEF g, m
    <2>3. (a \o b)[g] = b[m]
      BY <1>c, <2>1, <2>2
    <2>4. b[m] = s[h]
      BY <1>2, <2>2
    <2> QED BY <1>3, <1>4, <2>1, <2>3, <2>4
  <1> QED BY <1>0, <1>5, <1>6

\* A listing that is checked goes to the end of its line.
LEMMA MovedKeeps ==
    ASSUME byAge \in Seq(Listable), overdue \in 0..Len(byAge), NEW k \in Listable, Moved(k)
    PROVE  /\ byAge' \in Seq(Listable) /\ overdue' \in 0..Len(byAge')
           /\ Len(byAge) \in Nat /\ Len(byAge') \in Nat
           /\ Len(byAge') <= Len(byAge) + 1
           /\ IsListed(k) => Len(byAge') = Len(byAge)
           /\ \A j \in DOMAIN byAge' : byAge'[j] = k \/ \E h \in DOMAIN byAge : byAge'[j] = byAge[h]
  <1>1. ASSUME NEW i \in DOMAIN byAge, byAge' = Append(RemoveAt(byAge, i), k)
        PROVE  /\ byAge' \in Seq(Listable)
               /\ Len(byAge) \in Nat /\ Len(byAge') = Len(byAge)
               /\ \A j \in DOMAIN byAge' : byAge'[j] = k \/ \E h \in DOMAIN byAge : byAge'[j] = byAge[h]
    <2> DEFINE r == RemoveAt(byAge, i)
    <2>1. /\ r \in Seq(Listable) /\ Len(r) = Len(byAge) - 1
          /\ \A j \in DOMAIN r : \E h \in DOMAIN byAge : r[j] = byAge[h]
      BY WithoutOne
    <2>2. byAge' = Append(r, k)
      BY <1>1
    <2> HIDE DEF r
    <2>3. /\ byAge' \in Seq(Listable) /\ Len(byAge') = Len(byAge) /\ Len(byAge) \in Nat
      BY <2>1, <2>2
    <2>4. \A j \in DOMAIN byAge' : byAge'[j] = k \/ (j \in DOMAIN r /\ byAge'[j] = r[j])
      BY <2>1, <2>2
    <2> QED BY <2>1, <2>3, <2>4
  <1>2. overdue' \in 0..Len(byAge')
    <2>1. CASE ~IsListed(k) /\ byAge' = Append(byAge, k) /\ UNCHANGED overdue
      <3>1. Len(byAge') = Len(byAge) + 1 /\ Len(byAge) \in Nat
        BY <2>1
      <3> QED BY <2>1, <3>1
    <2>2. ASSUME NEW i \in DOMAIN byAge, byAge' = Append(RemoveAt(byAge, i), k),
                 overdue' = IF i <= overdue THEN overdue - 1 ELSE overdue
          PROVE  overdue' \in 0..Len(byAge')
      <3>1. Len(byAge') = Len(byAge) /\ Len(byAge) \in Nat /\ i \in 1..Len(byAge)
        BY <1>1, <2>2
      <3> QED BY <2>2, <3>1
    <2> QED BY <2>1, <2>2 DEF Moved
  <1>3. CASE ~IsListed(k) /\ byAge' = Append(byAge, k)
    <2>1. /\ byAge' \in Seq(Listable) /\ Len(byAge) \in Nat /\ Len(byAge') = Len(byAge) + 1
          /\ \A j \in DOMAIN byAge' : byAge'[j] = k \/ (j \in DOMAIN byAge /\ byAge'[j] = byAge[j])
      BY <1>3
    <2> QED BY <1>3, <1>2, <2>1
  <1> QED BY <1>1, <1>2, <1>3 DEF Moved

LEMMA PassingFew ==
    ASSUME NEW sub
    PROVE  /\ IsFiniteSet(Passing(sub)) /\ Cardinality(Passing(sub)) \in Nat
           /\ Cardinality(Passing(sub)) <= Cardinality(Submissions)
  <1>1. Passing(sub) \in SUBSET Submissions
    BY DEF Passing
  <1> QED BY <1>1, CatFigures, FS_Subset, FS_CardinalityType

-----------------------------------------------------------------------------
(* The world changes *)

LEMMA WorldKeepsCat ==
    ASSUME CatInv,
           \/ \E k \in Listable, t \in Terms \cup {NoTerms} : OfferChanges(k, t)
           \/ \E l \in CircleLists : CircleChanges(l)
           \/ AnHourPasses
    PROVE  CatInv'
  <1>0. said \in SaidRecords /\ offers \in [Listable -> Terms \cup {NoTerms}]
    BY DEF CatInv, MarketTypes, OtherTypes
  <1>1. ASSUME NEW k \in Listable, NEW t \in Terms \cup {NoTerms}, OfferChanges(k, t)
        PROVE  CatInv'
    <2>1. /\ UNCHANGED <<listings, byAge, submission, check, found, circle, circleStore, circleList,
                         labels, labeler>>
          /\ offers' = [offers EXCEPT ![k] = t] /\ UNCHANGED overdue
          /\ said' = IF t = NoTerms THEN said ELSE [said EXCEPT !.offers = @ \cup {<<k, t>>}]
      BY <1>1 DEF OfferChanges, marketVars, circleVars
    <2>2. /\ said' \in SaidRecords /\ said.offers \subseteq said'.offers
          /\ t # NoTerms => <<k, t>> \in said'.offers
          /\ said'.circle = said.circle /\ said'.held = said.held /\ said'.labelled = said.labelled
      BY <1>0, <2>1 DEF SaidRecords, Offered
    <2>3. MarketTypes' /\ OtherTypes'
      BY <1>0, <2>1, <2>2 DEF CatInv, MarketTypes, OtherTypes
    <2>4. TermsWereAsked'
      <3>1. \A o \in Listable : offers'[o] # NoTerms => <<o, offers'[o]>> \in said'.offers
        BY <1>0, <2>1, <2>2 DEF CatInv, TermsWereAsked
      <3> QED BY <2>1, <2>2, <3>1 DEF CatInv, TermsWereAsked, IsListed
    <2>5. ListedOnes' /\ SiteIsFull'
      BY <2>1 DEF CatInv, ListedOnes, SiteIsFull, IsListed
    <2>6. SearchIsTrue'
      BY <2>1, <2>2 DEF CatInv, SearchIsTrue
    <2>7. CircleInv' /\ LabelInv'
      BY <2>1, <2>2 DEF CatInv, CircleInv, LabelInv, Source
    <2> QED BY <2>3, <2>4, <2>5, <2>6, <2>7 DEF CatInv
  <1>2. ASSUME NEW l \in CircleLists, CircleChanges(l)
        PROVE  CatInv'
    <2>1. /\ UNCHANGED <<offers, listings, byAge, submission, check, found, circle, circleStore,
                         labels, labeler>>
          /\ circleList' = l /\ said' = [said EXCEPT !.circle = @ \cup ToSet(l)] /\ UNCHANGED overdue
      BY <1>2 DEF CircleChanges, marketVars, circleVars
    <2>2. l \in Seq(Entries) /\ ToSet(l) \in SUBSET Entries
      BY CatFigures DEF ToSet
    <2>3. /\ said' \in SaidRecords /\ said.circle \subseteq said'.circle /\ ToSet(l) \subseteq said'.circle
          /\ said'.offers = said.offers /\ said'.held = said.held /\ said'.labelled = said.labelled
      BY <1>0, <2>1, <2>2 DEF SaidRecords
    <2>4. MarketTypes' /\ OtherTypes'
      BY <2>1, <2>2, <2>3 DEF CatInv, MarketTypes, OtherTypes
    <2>5. TermsWereAsked' /\ SearchIsTrue' /\ ListedOnes' /\ SiteIsFull'
      BY <2>1, <2>3 DEF CatInv, TermsWereAsked, SearchIsTrue, ListedOnes, SiteIsFull, IsListed
    <2>6. CircleInv' /\ LabelInv'
      BY <2>1, <2>3 DEF CatInv, CircleInv, LabelInv, Source
    <2> QED BY <2>4, <2>5, <2>6 DEF CatInv
  <1>3. CASE AnHourPasses
    <2>1. UNCHANGED <<offers, said, circleList, listings, byAge, submission, check, found, circle,
                      circleStore, labels, labeler>>
      BY <1>3 DEF AnHourPasses, worldVars, circleVars
    <2>2. overdue' \in 0..Len(byAge')
      <3>1. overdue' = Len(byAge) /\ byAge \in Seq(Listable)
        BY <1>3 DEF AnHourPasses, CatInv, MarketTypes
      <3>2. Len(byAge) \in Nat
        BY <3>1
      <3> QED BY <2>1, <3>1, <3>2
    <2> QED BY <2>1, <2>2 DEF CatInv, MarketTypes, OtherTypes, TermsWereAsked, ListedOnes, SiteIsFull,
                    SearchIsTrue, CircleInv, LabelInv, IsListed, Source
  <1> QED BY <1>1, <1>2, <1>3

-----------------------------------------------------------------------------
(* The market *)

\* What the market's steps leave alone.
RestOfCat == UNCHANGED <<offers, said, circleList, found, circle, circleStore, labels, labeler>>

LEMMA MarketStepKeeps ==
    ASSUME CatInv, RestOfCat,
           listings' \in [Listable -> ListingRecords], byAge' \in Seq(Listable),
           submission' \in [Submissions -> SubmissionRecords], check' \in CheckRecords,
           TermsWereAsked', ListedOnes', SiteIsFull'
    PROVE  CatInv'
  <1>1. MarketTypes' /\ OtherTypes'
    BY DEF CatInv, MarketTypes, OtherTypes, RestOfCat
  <1>2. SearchIsTrue' /\ CircleInv' /\ LabelInv'
    BY DEF CatInv, SearchIsTrue, CircleInv, LabelInv, Source, RestOfCat
  <1> QED BY <1>1, <1>2 DEF CatInv

LEMMA SubmissionKeeps ==
    ASSUME CatInv, NEW n \in Submissions,
           (\E k \in Listable : SubmitProbes(n, k)) \/ SubmitCounts(n) \/ SubmitLists(n)
    PROVE  CatInv'
  <1>0. /\ submission \in [Submissions -> SubmissionRecords] /\ byAge \in Seq(Listable)
        /\ listings \in [Listable -> ListingRecords] /\ check \in CheckRecords
        /\ offers \in [Listable -> Terms \cup {NoTerms}]
        /\ TermsWereAsked /\ ListedOnes /\ SiteIsFull
    BY DEF CatInv, MarketTypes
  <1>f. /\ Len(byAge) \in Nat /\ HostCap \in Nat \ {0} /\ Cardinality(Submissions) \in Nat
        /\ Cardinality(Passing(submission)) \in Nat /\ Cardinality(Passing(submission')) \in Nat
        /\ Cardinality(Passing(submission')) <= Cardinality(Submissions)
        /\ IsFiniteSet(Passing(submission))
    BY <1>0, CatFigures, PassingFew
  <1>1. ASSUME NEW k \in Listable, SubmitProbes(n, k) PROVE CatInv'
    <2>1. /\ RestOfCat /\ UNCHANGED <<listings, byAge, overdue, check>>
      BY <1>1 DEF SubmitProbes, RestOfCat, worldVars, circleVars
    <2>2. PICK read \in Terms \cup {NoTerms} :
             /\ Probed(k, read)
             /\ submission' = [submission EXCEPT ![n] = [pc |-> IF read = NoTerms THEN "refused" ELSE "counting",
                                                     call |-> k, read |-> read]]
      BY <1>1 DEF SubmitProbes
    <2>3. read # NoTerms => <<k, read>> \in said.offers
      BY <1>0, <2>2 DEF Probed, TermsWereAsked
    <2>4. /\ submission' \in [Submissions -> SubmissionRecords]
          /\ submission'[n].pc = (IF read = NoTerms THEN "refused" ELSE "counting")
          /\ submission'[n].call = k /\ submission'[n].read = read
          /\ \A o \in Submissions : o # n => submission'[o] = submission[o]
      BY <1>0, <2>2 DEF SubmissionRecords
    <2>5. TermsWereAsked'
      <3>1. \A o \in Submissions : submission'[o].pc \in {"counting", "listing"} =>
              /\ submission'[o].call \in Listable /\ submission'[o].read # NoTerms
              /\ <<submission'[o].call, submission'[o].read>> \in said.offers
        BY <1>0, <2>3, <2>4 DEF TermsWereAsked
      <3> QED BY <1>0, <2>1, <3>1 DEF TermsWereAsked, RestOfCat, IsListed
    <2>6. Cardinality(Passing(submission')) <= Cardinality(Passing(submission))
      <3>1. Passing(submission') \in SUBSET Passing(submission)
        BY <2>4 DEF Passing
      <3> QED BY <1>f, <3>1, FS_Subset
    <2>7. SiteIsFull' /\ ListedOnes'
      BY <1>0, <1>f, <2>1, <2>6 DEF SiteIsFull, ListedOnes, IsListed
    <2> QED BY <1>0, <2>1, <2>4, <2>5, <2>7, MarketStepKeeps
  <1>2. CASE SubmitCounts(n)
    <2> DEFINE next == IF Len(byAge) >= HostCap THEN "refused" ELSE "listing"
    <2>1. /\ RestOfCat /\ UNCHANGED <<listings, byAge, overdue, check>>
          /\ submission[n].pc = "counting"
          /\ submission' = [submission EXCEPT ![n].pc = next]
      BY <1>2 DEF SubmitCounts, Submission, RestOfCat, worldVars, circleVars
    <2>2. next \in {"refused", "listing"} /\ (next = "listing" => Len(byAge) <= HostCap - 1)
      BY <1>f
    <2> HIDE DEF next
    <2>4. /\ submission' \in [Submissions -> SubmissionRecords]
          /\ submission'[n].pc = next
          /\ submission'[n].call = submission[n].call /\ submission'[n].read = submission[n].read
          /\ \A o \in Submissions : o # n => submission'[o] = submission[o]
      BY <1>0, <2>1, <2>2 DEF SubmissionRecords
    <2>5. TermsWereAsked'
      <3>1. \A o \in Submissions : submission'[o].pc \in {"counting", "listing"} =>
              /\ submission'[o].call \in Listable /\ submission'[o].read # NoTerms
              /\ <<submission'[o].call, submission'[o].read>> \in said.offers
        BY <1>0, <2>1, <2>4 DEF TermsWereAsked
      <3> QED BY <1>0, <2>1, <3>1 DEF TermsWereAsked, RestOfCat, IsListed
    <2>6. Len(byAge) + Cardinality(Passing(submission')) <= HostCap + Cardinality(Submissions) - 1
      <3>1. CASE next = "listing"
        BY <1>f, <2>2, <3>1
      <3>2. CASE next = "refused"
        <4>1. Passing(submission') \in SUBSET Passing(submission)
          BY <2>4, <3>2 DEF Passing
        <4>2. Cardinality(Passing(submission')) <= Cardinality(Passing(submission))
          BY <1>f, <4>1, FS_Subset
        <4> QED BY <1>0, <1>f, <4>2 DEF SiteIsFull
      <3> QED BY <2>2, <3>1, <3>2
    <2>7. SiteIsFull' /\ ListedOnes'
      BY <1>0, <2>1, <2>6 DEF SiteIsFull, ListedOnes, IsListed
    <2> QED BY <1>0, <2>1, <2>4, <2>5, <2>7, MarketStepKeeps
  <1>3. CASE SubmitLists(n)
    <2> DEFINE k == submission[n].call
               terms == submission[n].read
    <2>1. /\ RestOfCat /\ UNCHANGED check /\ submission[n].pc = "listing"
          /\ submission' = [submission EXCEPT ![n].pc = "listed"]
          /\ listings' = [listings EXCEPT ![k] = [terms |-> terms, fails |-> 0, ok |-> TRUE]]
          /\ Moved(k)
      BY <1>3 DEF SubmitLists, Submission, Upserted, RestOfCat, worldVars, circleVars
    <2>2. /\ k \in Listable /\ terms # NoTerms /\ <<k, terms>> \in said.offers
          /\ terms \in Terms \cup {NoTerms}
      BY <1>0, <2>1 DEF TermsWereAsked, SubmissionRecords
    <2> HIDE DEF k, terms
    <2>3. /\ listings' \in [Listable -> ListingRecords]
          /\ listings'[k].terms = terms
          /\ \A o \in Listable : o # k => listings'[o] = listings[o]
      BY <1>0, <2>1, <2>2 DEF ListingRecords
    <2>4. /\ submission' \in [Submissions -> SubmissionRecords] /\ submission'[n].pc = "listed"
          /\ \A o \in Submissions : o # n => submission'[o] = submission[o]
      BY <1>0, <2>1 DEF SubmissionRecords
    <2>5. TermsWereAsked'
      <3>1. \A o \in Submissions : submission'[o].pc \in {"counting", "listing"} =>
              /\ submission'[o].call \in Listable /\ submission'[o].read # NoTerms
              /\ <<submission'[o].call, submission'[o].read>> \in said.offers
        BY <1>0, <2>4 DEF TermsWereAsked
      <3>2. \A o \in Listable : listings'[o].terms # NoTerms => <<o, listings'[o].terms>> \in said.offers
        BY <1>0, <2>2, <2>3 DEF TermsWereAsked, IsListed
      <3> QED BY <1>0, <2>1, <3>1, <3>2 DEF TermsWereAsked, RestOfCat, IsListed
    <2>6. \A o \in Listable : IsListed(o) => listings'[o].terms # NoTerms
      BY <2>2, <2>3 DEF IsListed
    <2>e. overdue \in 0..Len(byAge)
      BY <1>0 DEF ListedOnes
    <2>7. /\ overdue' \in 0..Len(byAge')
          /\ byAge' \in Seq(Listable) /\ Len(byAge') \in Nat /\ Len(byAge') <= Len(byAge) + 1
          /\ \A j \in DOMAIN byAge' : byAge'[j] = k \/ \E h \in DOMAIN byAge : byAge'[j] = byAge[h]
      BY <1>0, <2>1, <2>2, <2>e, MovedKeeps
    <2>8. ListedOnes'
      <3>1. \A j \in DOMAIN byAge' : listings'[byAge'[j]].terms # NoTerms
        <4>1. \A h \in DOMAIN byAge : byAge[h] \in Listable /\ listings'[byAge[h]].terms # NoTerms
          BY <1>0, <2>6 DEF ListedOnes
        <4>2. listings'[k].terms # NoTerms
          BY <2>2, <2>3
        <4>3. \A j \in DOMAIN byAge' : byAge'[j] = k \/ \E h \in DOMAIN byAge : byAge'[j] = byAge[h]
          BY <2>7
        <4> QED BY <4>1, <4>2, <4>3
      <3>2. \A j \in DOMAIN check.queue : listings'[check.queue[j]].terms # NoTerms
        <4>1. \A j \in DOMAIN check.queue : check.queue[j] \in Listable
          BY <1>0 DEF CheckRecords
        <4> QED BY <1>0, <2>6, <4>1 DEF ListedOnes
      <3> QED BY <1>0, <2>1, <2>7, <3>1, <3>2 DEF ListedOnes, IsListed
    <2>9. Cardinality(Passing(submission')) = Cardinality(Passing(submission)) - 1
      <3>1. Passing(submission') = Passing(submission) \ {n} /\ n \in Passing(submission)
        BY <2>1, <2>4 DEF Passing
      <3> QED BY <1>f, <3>1, FS_RemoveElement
    <2>10. SiteIsFull'
      BY <1>0, <1>f, <2>7, <2>9 DEF SiteIsFull
    <2> QED BY <2>1, <1>0, <2>3, <2>4, <2>5, <2>7, <2>8, <2>10, MarketStepKeeps
  <1> QED BY <1>1, <1>2, <1>3

LEMMA CheckKeeps ==
    ASSUME CatInv, PageIsRead \/ CheckProbes \/ CheckWrites
    PROVE  CatInv'
  <1>0. /\ submission \in [Submissions -> SubmissionRecords] /\ byAge \in Seq(Listable)
        /\ listings \in [Listable -> ListingRecords] /\ check \in CheckRecords
        /\ offers \in [Listable -> Terms \cup {NoTerms}]
        /\ TermsWereAsked /\ ListedOnes /\ SiteIsFull
        /\ RestOfCat /\ UNCHANGED submission
    BY DEF CatInv, MarketTypes, PageIsRead, CheckProbes, CheckWrites, RestOfCat, worldVars, circleVars
  <1>n. NoCheck \in CheckRecords /\ NoCheck.pc = "none" /\ NoCheck.queue = <<>>
    BY DEF NoCheck, CheckRecords
  \* A step that writes no row.
  <1>u. ASSUME UNCHANGED <<listings, byAge, overdue>>, check' \in CheckRecords,
               check'.pc = "write" /\ check'.read # NoTerms => <<Head(check'.queue), check'.read>> \in said.offers,
               \A i \in DOMAIN check'.queue : IsListed(check'.queue[i]),
               check'.pc # "none" => check'.queue # <<>>
        PROVE  CatInv'
    <2>1. TermsWereAsked'
      BY <1>0, <1>u DEF TermsWereAsked, RestOfCat, IsListed
    <2>2. ListedOnes' /\ SiteIsFull'
      BY <1>0, <1>u DEF ListedOnes, SiteIsFull, IsListed
    <2> QED BY <1>0, <1>u, <2>1, <2>2, MarketStepKeeps
  <1>1. CASE PageIsRead
    <2> DEFINE n == IF overdue < CheckBatch THEN overdue ELSE CheckBatch
               queue == SubSeq(byAge, 1, n)
    <2>1. /\ UNCHANGED <<listings, byAge, overdue>>
          /\ overdue > 0 /\ check' = [NoCheck EXCEPT !.pc = "probe", !.queue = queue]
      BY <1>1 DEF PageIsRead
    <2>2. overdue \in 0..Len(byAge)
      BY <1>0 DEF ListedOnes
    <2>3. n \in 1..Len(byAge)
      BY <1>0, <2>1, <2>2, CatFigures
    <2> HIDE DEF n
    <2>4. /\ queue \in Seq(Listable) /\ Len(queue) = n
          /\ \A i \in 1..n : queue[i] = byAge[i]
      BY <1>0, <2>3
    <2> HIDE DEF queue
    <2>5. check' \in CheckRecords /\ check'.pc = "probe" /\ check'.queue = queue
      BY <1>n, <2>1, <2>4 DEF CheckRecords
    <2>6. \A i \in DOMAIN queue : IsListed(queue[i])
      BY <1>0, <2>3, <2>4 DEF ListedOnes
    <2>7. queue # <<>>
      BY <2>3, <2>4
    <2> QED BY <1>u, <2>1, <2>5, <2>6, <2>7
  <1>2. CASE CheckProbes
    <2>1. /\ UNCHANGED <<listings, byAge, overdue>> /\ check.pc = "probe"
      BY <1>2 DEF CheckProbes
    <2>2. PICK read \in Terms \cup {NoTerms} :
             Probed(Head(check.queue), read) /\ check' = [check EXCEPT !.pc = "write", !.read = read]
      BY <1>2 DEF CheckProbes
    <2>3. /\ check' \in CheckRecords /\ check'.pc = "write" /\ check'.read = read
          /\ check'.queue = check.queue
      BY <1>0, <2>2 DEF CheckRecords
    <2>4. Head(check.queue) \in Listable /\ check.queue # <<>>
      BY <1>0, <2>1 DEF ListedOnes, CheckRecords
    <2>5. read # NoTerms => <<Head(check.queue), read>> \in said.offers
      BY <1>0, <2>2, <2>4 DEF Probed, TermsWereAsked
    <2> QED BY <1>0, <1>u, <2>1, <2>3, <2>4, <2>5 DEF ListedOnes
  <1>3. CASE CheckWrites
    <2> DEFINE k == Head(check.queue)
    <2>0. /\ check.pc = "write" /\ check.queue # <<>> /\ check.queue \in Seq(Listable)
          /\ check.read \in Terms \cup {NoTerms}
      BY <1>0, <1>3 DEF CheckWrites, ListedOnes, CheckRecords
    <2>1. k \in Listable /\ IsListed(k)
      BY <1>0, <2>0 DEF ListedOnes
    <2>2. ASSUME CheckGoesOn
          PROVE  /\ check' \in CheckRecords /\ check'.pc # "write"
                 /\ check'.pc # "none" => check'.queue # <<>>
                 /\ \A i \in DOMAIN check'.queue : check'.queue[i] \in Listable /\ IsListed(check'.queue[i])
      <3>1. CASE Len(check.queue) > 1
        <4> DEFINE rest == Tail(check.queue)
        <4>1. /\ rest \in Seq(Listable) /\ rest # <<>>
              /\ \A i \in DOMAIN rest : i + 1 \in DOMAIN check.queue /\ rest[i] = check.queue[i + 1]
          <5>1. /\ rest \in Seq(Listable) /\ Len(rest) = Len(check.queue) - 1
                /\ \A i \in 1..Len(rest) : rest[i] = check.queue[i + 1]
                /\ Len(check.queue) \in Nat /\ DOMAIN check.queue = 1..Len(check.queue)
            BY <2>0, HeadTailProperties
          <5> HIDE DEF rest
          <5>2. Len(rest) \in Nat /\ Len(rest) > 0 /\ DOMAIN rest = 1..Len(rest)
            BY <3>1, <5>1
          <5>3. rest # <<>>
            BY <5>2
          <5> QED BY <5>1, <5>2, <5>3
        <4>2. check' = [NoCheck EXCEPT !.pc = "probe", !.queue = rest]
          BY <2>2, <3>1 DEF CheckGoesOn
        <4> HIDE DEF rest
        <4>3. check' \in CheckRecords /\ check'.pc = "probe" /\ check'.queue = rest
          BY <1>n, <4>1, <4>2 DEF CheckRecords
        <4>4. \A i \in DOMAIN rest : rest[i] \in Listable /\ IsListed(rest[i])
          BY <1>0, <4>1 DEF ListedOnes
        <4> QED BY <4>1, <4>3, <4>4
      <3>2. CASE ~(Len(check.queue) > 1)
        <4>1. check' = NoCheck
          BY <2>2, <3>2 DEF CheckGoesOn
        <4> QED BY <1>n, <4>1
      <3> QED BY <3>1, <3>2
    \* A row is written over, or a failure is counted; it stays listed.
    <2>3. ASSUME CheckGoesOn, Moved(k),
                 listings' \in [Listable -> ListingRecords],
                 \A o \in Listable : o # k => listings'[o] = listings[o],
                 listings'[k].terms # NoTerms, <<k, listings'[k].terms>> \in said.offers
          PROVE  CatInv'
      <3>0. overdue \in 0..Len(byAge)
        BY <1>0 DEF ListedOnes
      <3>1. /\ byAge' \in Seq(Listable) /\ Len(byAge') = Len(byAge) /\ overdue' \in 0..Len(byAge')
            /\ \A j \in DOMAIN byAge' : byAge'[j] = k \/ \E h \in DOMAIN byAge : byAge'[j] = byAge[h]
        BY <1>0, <2>1, <2>3, <3>0, MovedKeeps
      <3>2. \A o \in Listable : IsListed(o) => listings'[o].terms # NoTerms
        BY <2>3 DEF IsListed
      <3>3. \A o \in Listable : listings'[o].terms # NoTerms => <<o, listings'[o].terms>> \in said.offers
        BY <1>0, <2>3 DEF TermsWereAsked, IsListed
      <3>4. TermsWereAsked'
        BY <1>0, <2>2, <2>3, <3>3 DEF TermsWereAsked, RestOfCat, IsListed
      <3>5. \A j \in DOMAIN byAge' : listings'[byAge'[j]].terms # NoTerms
        BY <1>0, <2>1, <3>1, <3>2 DEF ListedOnes
      <3>6. ListedOnes'
        BY <2>2, <2>3, <3>1, <3>2, <3>5 DEF ListedOnes, IsListed
      <3>7. SiteIsFull'
        BY <1>0, <3>1 DEF SiteIsFull
      <3> QED BY <1>0, <2>2, <2>3, <3>1, <3>4, <3>6, <3>7, MarketStepKeeps
    <2>4. CASE /\ check.read # NoTerms /\ Upserted(k, check.read) /\ CheckGoesOn
      <3>1. listings' = [listings EXCEPT ![k] = [terms |-> check.read, fails |-> 0, ok |-> TRUE]]
            /\ Moved(k)
        BY <2>4 DEF Upserted
      <3> DEFINE x == [terms |-> check.read, fails |-> 0, ok |-> TRUE]
      <3>2. x \in ListingRecords /\ x.terms = check.read
        BY <2>0 DEF ListingRecords
      <3>3. listings' = [listings EXCEPT ![k] = x]
        BY <3>1
      <3>4. check.read # NoTerms /\ <<k, check.read>> \in said.offers
        BY <1>0, <2>0, <2>4 DEF TermsWereAsked
      <3> HIDE DEF x, k
      <3>5. /\ listings' \in [Listable -> ListingRecords] /\ listings'[k] = x
            /\ \A o \in Listable : o # k => listings'[o] = listings[o]
        BY <1>0, <2>1, <3>2, <3>3
      <3> QED BY <2>3, <2>4, <3>1, <3>2, <3>4, <3>5
    <2>5. CASE /\ check.read = NoTerms /\ CheckGoesOn /\ Moved(k)
               /\ listings' = [listings EXCEPT ![k].fails = IF @ < GoneAfter THEN @ + 1 ELSE @,
                                               ![k].ok = listings[k].fails + 1 < OfflineAfter]
      <3> DEFINE f == IF listings[k].fails < GoneAfter THEN listings[k].fails + 1 ELSE listings[k].fails
                 g == listings[k].fails + 1 < OfflineAfter
                 x == [listings[k] EXCEPT !.fails = f, !.ok = g]
      <3>1. listings[k] \in ListingRecords
        BY <1>0, <2>1
      <3>2. f \in Int /\ g \in BOOLEAN
        BY <3>1, CatFigures DEF ListingRecords
      <3>3. listings' = [listings EXCEPT ![k] = x]
        <4> HIDE DEF k
        <4> QED BY <1>0, <2>1, <2>5
      <3> HIDE DEF f, g
      <3>4. x \in ListingRecords /\ x.terms = listings[k].terms
        BY <3>1, <3>2 DEF ListingRecords
      <3> HIDE DEF x, k
      <3>5. /\ listings' \in [Listable -> ListingRecords] /\ listings'[k] = x
            /\ \A o \in Listable : o # k => listings'[o] = listings[o]
        BY <1>0, <2>1, <3>3, <3>4
      <3>6. listings[k].terms # NoTerms /\ <<k, listings[k].terms>> \in said.offers
        BY <1>0, <2>1 DEF TermsWereAsked, IsListed
      <3> QED BY <2>3, <2>5, <3>4, <3>5, <3>6
    <2>6. CASE check' = NoCheck /\ UNCHANGED <<listings, byAge, overdue>>
      BY <1>n, <1>u, <2>6
    <2> QED BY <1>3, <2>4, <2>5, <2>6 DEF CheckWrites
  <1> QED BY <1>1, <1>2, <1>3

-----------------------------------------------------------------------------
(* Circle's catalogue *)

LEMMA CircleStepKeeps ==
    ASSUME CatInv, UNCHANGED <<offers, listings, byAge, overdue, submission, check, found, circleList, labels, labeler>>,
           circle' \in CircleRecords, circleStore' \in SUBSET Entries,
           said' = [said EXCEPT !.held = said'.held], said'.held \in BOOLEAN,
           circle'.items \subseteq said.circle, circleStore' \subseteq said.circle,
           circle'.got \subseteq said.circle, circle'.pc = "page" => circle'.page >= 1,
           said'.held => circle'.items # {}
    PROVE  CatInv'
  <1>0. said \in SaidRecords
    BY DEF CatInv, OtherTypes
  <1>1. /\ said' \in SaidRecords /\ said'.circle = said.circle
        /\ said'.offers = said.offers /\ said'.labelled = said.labelled
    BY <1>0 DEF SaidRecords
  <1>2. MarketTypes' /\ OtherTypes'
    BY <1>1 DEF CatInv, MarketTypes, OtherTypes
  <1>3. TermsWereAsked' /\ SearchIsTrue' /\ ListedOnes' /\ SiteIsFull'
    BY <1>1 DEF CatInv, TermsWereAsked, SearchIsTrue, ListedOnes, SiteIsFull, IsListed
  <1>4. CircleInv' /\ LabelInv'
    BY <1>1 DEF CatInv, CircleInv, LabelInv, Source
  <1> QED BY <1>2, <1>3, <1>4 DEF CatInv

LEMMA CircleKeepsCat ==
    ASSUME CatInv, CircleRestores \/ CircleReads \/ CircleReadsPage
    PROVE  CatInv'
  <1>0. /\ circle \in CircleRecords /\ circleStore \in SUBSET Entries /\ circleList \in Seq(Entries)
        /\ said \in SaidRecords /\ CircleInv
        /\ UNCHANGED <<offers, listings, byAge, overdue, submission, check, found, circleList, labels, labeler>>
    BY DEF CatInv, OtherTypes, CircleRestores, CircleReads, CircleReadsPage, worldVars, marketVars
  <1>s. \A b \in BOOLEAN : [said EXCEPT !.held = b].held = b
    BY <1>0 DEF SaidRecords
  <1>h. UNCHANGED said => said' = [said EXCEPT !.held = said'.held] /\ said'.held \in BOOLEAN
    BY <1>0 DEF SaidRecords
  <1>c. /\ said.held => circle.items # {}
        /\ circle.items \subseteq said.circle /\ circleStore \subseteq said.circle
        /\ circle.got \subseteq said.circle /\ ToSet(circleList) \subseteq said.circle
    BY <1>0 DEF CircleInv
  <1>1. CASE CircleRestores
    <2>0. UNCHANGED circleStore
      BY <1>1 DEF CircleRestores
    <2>1. CASE /\ circleStore # {}
               /\ circle' = [circle EXCEPT !.pc = "idle", !.items = circleStore, !.known = TRUE]
               /\ said' = [said EXCEPT !.held = TRUE]
      <3>1. /\ circle' \in CircleRecords /\ circle'.pc = "idle" /\ circle'.items = circleStore
            /\ circle'.got = circle.got
        BY <1>0, <2>1 DEF CircleRecords
      <3>2. said'.held = TRUE
        BY <1>s, <2>1
      <3> QED BY <1>0, <1>c, <2>0, <2>1, <3>1, <3>2, CircleStepKeeps
    <2>2. CASE circle' = [circle EXCEPT !.pc = "idle"] /\ UNCHANGED said
      <3>1. /\ circle' \in CircleRecords /\ circle'.pc = "idle" /\ circle'.items = circle.items
            /\ circle'.got = circle.got
        BY <1>0, <2>2 DEF CircleRecords
      <3> QED BY <1>0, <1>c, <1>h, <2>0, <2>2, <3>1, CircleStepKeeps
    <2> QED BY <1>1, <2>1, <2>2 DEF CircleRestores
  <1>2. CASE CircleReads
    <2>1. /\ UNCHANGED <<circleStore, said>>
          /\ circle' = [circle EXCEPT !.pc = "page", !.page = 1, !.tries = 0, !.got = {}]
      BY <1>2 DEF CircleReads, worldVars
    <2>2. /\ circle' \in CircleRecords /\ circle'.page = 1 /\ circle'.items = circle.items
          /\ circle'.got = {}
      BY <1>0, <2>1 DEF CircleRecords
    <2> QED BY <1>0, <1>c, <1>h, <2>1, <2>2, CircleStepKeeps
  <1>3. CASE CircleReadsPage
    <2> DEFINE last == circle.page >= Len(circleList)
               got == IF circle.page > Len(circleList) THEN circle.got ELSE circle.got \cup {circleList[circle.page]}
               kept == CircleKeeps(got, circle.items)
    <2>1. circle.pc = "page" /\ circle.page \in Nat /\ circle.page >= 1
      BY <1>0, <1>3 DEF CircleReadsPage, CircleInv, CircleRecords
    <2>2. got \in SUBSET Entries /\ got \subseteq said.circle
      <3>1. CASE circle.page > Len(circleList)
        BY <1>0, <1>c, <3>1 DEF CircleRecords
      <3>2. CASE ~(circle.page > Len(circleList))
        <4>1. circle.page \in DOMAIN circleList
          BY <1>0, <2>1, <3>2
        <4>2. circleList[circle.page] \in Entries /\ circleList[circle.page] \in said.circle
          BY <1>0, <1>c, <4>1 DEF ToSet
        <4>3. circle.got \in SUBSET Entries
          BY <1>0 DEF CircleRecords
        <4> QED BY <1>c, <3>2, <4>2, <4>3
      <3> QED BY <3>1, <3>2
    <2>3. /\ kept \in SUBSET Entries /\ kept \subseteq said.circle
          /\ got # {} => kept = got
          /\ circle.items # {} => kept # {}
      <3>1. circle.items \in SUBSET Entries
        BY <1>0 DEF CircleRecords
      <3> HIDE DEF got
      <3> QED BY <1>c, <2>2, <3>1 DEF CircleKeeps
    <2>4. \/ circle' = [circle EXCEPT !.page = @ + 1, !.tries = 0, !.got = got] /\ UNCHANGED <<circleStore, said>>
          \/ /\ circle' = [circle EXCEPT !.pc = "idle", !.items = kept, !.page = 0, !.got = {}]
             /\ UNCHANGED <<circleStore, said>>
          \/ /\ got # {} \/ circle.items = {}
             /\ circle' = [circle EXCEPT !.pc = "idle", !.items = kept, !.known = TRUE, !.page = 0, !.got = {}]
             /\ said' = [said EXCEPT !.held = @ \/ got # {}]
             /\ circleStore' \in {circleStore, got}
          \/ circle' = [circle EXCEPT !.tries = @ + 1] /\ UNCHANGED <<circleStore, said>>
          \/ circle' = [circle EXCEPT !.pc = "idle", !.page = 0, !.got = {}] /\ UNCHANGED <<circleStore, said>>
      BY <1>3 DEF CircleReadsPage
    <2> HIDE DEF got, kept
    <2>5. CASE circle' = [circle EXCEPT !.page = @ + 1, !.tries = 0, !.got = got] /\ UNCHANGED <<circleStore, said>>
      <3> DEFINE n == circle.page + 1
      <3>0. n \in Nat /\ n >= 1 /\ circle' = [circle EXCEPT !.page = n, !.tries = 0, !.got = got]
        BY <2>1, <2>5
      <3> HIDE DEF n
      <3>1. /\ circle' \in CircleRecords /\ circle'.page >= 1 /\ circle'.items = circle.items
            /\ circle'.got = got
        BY <1>0, <2>2, <3>0 DEF CircleRecords
      <3> QED BY <1>0, <1>c, <1>h, <2>2, <2>5, <3>1, CircleStepKeeps
    <2>6. CASE /\ circle' = [circle EXCEPT !.pc = "idle", !.items = kept, !.page = 0, !.got = {}]
               /\ UNCHANGED <<circleStore, said>>
      <3>1. /\ circle' \in CircleRecords /\ circle'.pc = "idle" /\ circle'.items = kept
            /\ circle'.got = {}
        BY <1>0, <2>3, <2>6 DEF CircleRecords
      <3> QED BY <1>0, <1>c, <1>h, <2>3, <2>6, <3>1, CircleStepKeeps
    <2>7. CASE /\ got # {} \/ circle.items = {}
               /\ circle' = [circle EXCEPT !.pc = "idle", !.items = kept, !.known = TRUE, !.page = 0, !.got = {}]
               /\ said' = [said EXCEPT !.held = @ \/ got # {}]
               /\ circleStore' \in {circleStore, got}
      <3>1. /\ circle' \in CircleRecords /\ circle'.pc = "idle" /\ circle'.items = kept
            /\ circle'.got = {}
        BY <1>0, <2>3, <2>7 DEF CircleRecords
      <3> DEFINE held == said.held \/ got # {}
      <3>2. held \in BOOLEAN /\ (held => kept # {})
        BY <1>c, <2>3, <2>7
      <3>3. said' = [said EXCEPT !.held = held]
        BY <2>7
      <3> HIDE DEF held
      <3>4. said'.held = held
        BY <1>s, <3>2, <3>3
      <3>5. circleStore' \in SUBSET Entries /\ circleStore' \subseteq said.circle
        BY <1>0, <1>c, <2>2, <2>7
      <3> QED BY <1>0, <1>c, <2>3, <3>1, <3>2, <3>3, <3>4, <3>5, CircleStepKeeps
    <2>8. CASE circle' = [circle EXCEPT !.tries = @ + 1] /\ UNCHANGED <<circleStore, said>>
      <3>1. /\ circle' \in CircleRecords /\ circle'.page = circle.page /\ circle'.items = circle.items
            /\ circle'.got = circle.got
        BY <1>0, <2>8 DEF CircleRecords
      <3> QED BY <1>0, <1>c, <1>h, <2>1, <2>8, <3>1, CircleStepKeeps
    <2>9. CASE circle' = [circle EXCEPT !.pc = "idle", !.page = 0, !.got = {}] /\ UNCHANGED <<circleStore, said>>
      <3>1. /\ circle' \in CircleRecords /\ circle'.pc = "idle" /\ circle'.items = circle.items
            /\ circle'.got = {}
        BY <1>0, <2>9 DEF CircleRecords
      <3> QED BY <1>0, <1>c, <1>h, <2>9, <3>1, CircleStepKeeps
    <2> QED BY <2>4, <2>5, <2>6, <2>7, <2>8, <2>9
  <1> QED BY <1>1, <1>2, <1>3

-----------------------------------------------------------------------------
(* The search and the labels *)

LEMMA SearchKeepsCat ==
    ASSUME CatInv, CatSearched \/ CopyAges
    PROVE  CatInv'
  <1>0. /\ found \in FoundRecords /\ listings \in [Listable -> ListingRecords]
        /\ circle \in CircleRecords /\ circle.items \subseteq said.circle
        /\ SearchIsTrue /\ TermsWereAsked
        /\ UNCHANGED <<offers, said, circleList, listings, byAge, overdue, submission, check, circle, circleStore,
                        labels, labeler>>
    BY DEF CatInv, MarketTypes, OtherTypes, CircleInv, CatSearched, CopyAges, worldVars, marketVars, circleVars
  \* The rest follows from what was found.
  <1>r. ASSUME found' \in FoundRecords, SearchIsTrue', found'.circle \subseteq said.circle
        PROVE  CatInv'
    <2>1. MarketTypes' /\ OtherTypes'
      BY <1>0, <1>r DEF CatInv, MarketTypes, OtherTypes
    <2>2. TermsWereAsked' /\ ListedOnes' /\ SiteIsFull'
      BY <1>0 DEF CatInv, TermsWereAsked, ListedOnes, SiteIsFull, IsListed
    <2>3. CircleInv' /\ LabelInv'
      BY <1>0, <1>r DEF CatInv, CircleInv, LabelInv, Source
    <2> QED BY <1>r, <2>1, <2>2, <2>3 DEF CatInv
  <1>1. CASE CatSearched
    <2> DEFINE circlesOwn == {e \in circle.items : e[1] \notin OurRoutes}
               rows == ListedItems
               circles == {e[1] : e \in circlesOwn}
               market == KeptOfMarket(rows, OurRoutes, circles)
               seen == {r \in market : r.online}
    <2>1. found' = [fresh |-> TRUE, rows |-> rows, circle |-> circlesOwn, shown |-> seen]
      BY <1>1 DEF CatSearched
    <2>2. rows \in SUBSET FoundRows /\ \A r \in rows : <<r.call, r.terms>> \in said.offers
      <3>1. CASE found.fresh
        BY <1>0, <3>1 DEF ListedItems, FoundRecords, SearchIsTrue
      <3>2. CASE ~found.fresh
        <4>1. rows = {[call |-> k, terms |-> listings[k].terms, online |-> listings[k].ok] :
                         k \in {l \in Listable : Shown(l)}}
          BY <3>2 DEF ListedItems
        <4>2. \A k \in Listable : Shown(k) =>
                /\ [call |-> k, terms |-> listings[k].terms, online |-> listings[k].ok] \in FoundRows
                /\ <<k, listings[k].terms>> \in said.offers
          <5> SUFFICES ASSUME NEW k \in Listable, Shown(k)
                       PROVE  /\ [call |-> k, terms |-> listings[k].terms, online |-> listings[k].ok] \in FoundRows
                              /\ <<k, listings[k].terms>> \in said.offers
            OBVIOUS
          <5>1. listings[k] \in ListingRecords /\ IsListed(k)
            BY <1>0 DEF ListingRecords, Shown
          <5>2. listings[k].terms \in Terms /\ listings[k].ok \in BOOLEAN
            BY <5>1 DEF ListingRecords, IsListed
          <5>3. <<k, listings[k].terms>> \in said.offers
            BY <1>0, <5>1 DEF TermsWereAsked
          <5> QED BY <5>2, <5>3 DEF FoundRows
        <4>3. \A r \in rows : r \in FoundRows /\ <<r.call, r.terms>> \in said.offers
          <5> SUFFICES ASSUME NEW r \in rows
                       PROVE  r \in FoundRows /\ <<r.call, r.terms>> \in said.offers
            OBVIOUS
          <5> HIDE DEF rows
          <5>1. PICK k \in {l \in Listable : Shown(l)} :
                       r = [call |-> k, terms |-> listings[k].terms, online |-> listings[k].ok]
            BY <4>1
          <5>2. r \in FoundRows /\ <<k, listings[k].terms>> \in said.offers
            BY <4>2, <5>1
          <5>3. r.call = k /\ r.terms = listings[k].terms
            BY <5>1
          <5> QED BY <5>2, <5>3
        <4> HIDE DEF rows
        <4> QED BY <4>3
      <3> QED BY <3>1, <3>2
    <2>3. circlesOwn \subseteq circle.items /\ circle.items \in SUBSET Entries
      BY <1>0 DEF CircleRecords
    <2>4. /\ seen \subseteq rows
          /\ \A r \in seen : r.call \notin OurRoutes /\ r.call \notin circles
      BY DEF KeptOfMarket
    <2>5. \A e \in circlesOwn : e[1] \in circles
      OBVIOUS
    <2> HIDE DEF circlesOwn, rows, circles, seen, market
    <2>6. found' \in FoundRecords
      BY <2>1, <2>2, <2>3, <2>4 DEF FoundRecords
    <2>7. SearchIsTrue'
      BY <1>0, <2>1, <2>2, <2>4, <2>5 DEF SearchIsTrue
    <2> QED BY <1>0, <1>r, <2>1, <2>3, <2>6, <2>7
  <1>2. CASE CopyAges
    <2>1. found' = [found EXCEPT !.fresh = FALSE]
      BY <1>2 DEF CopyAges
    <2>2. /\ found' \in FoundRecords /\ found'.rows = found.rows /\ found'.circle = found.circle
          /\ found'.shown = found.shown
      BY <1>0, <2>1 DEF FoundRecords
    <2>3. SearchIsTrue' /\ found'.circle \subseteq said.circle
      BY <1>0, <2>2 DEF SearchIsTrue, CatInv, CircleInv
    <2> QED BY <1>r, <2>2, <2>3
  <1> QED BY <1>1, <1>2

LEMMA NextSourceFits ==
    ASSUME labeler \in LabelerRecords, labeler' = NextSource
    PROVE  labeler' \in LabelerRecords /\ labeler'.pc # "replace"
  <1>1. CASE labeler.at = 5 \/ (labeler.at = 3 /\ ~labeler.slow)
    <2> DEFINE b == ~labeler.slow
               n == 1
    <2>1. b \in BOOLEAN /\ n \in 1..5
      OBVIOUS
    <2>2. labeler' = [labeler EXCEPT !.pc = "none", !.at = n, !.slow = b, !.read = {}]
      BY <1>1 DEF NextSource
    <2> HIDE DEF b, n
    <2> QED BY <2>1, <2>2 DEF LabelerRecords
  <1>2. CASE ~(labeler.at = 5 \/ (labeler.at = 3 /\ ~labeler.slow))
    <2> DEFINE n == labeler.at + 1
    <2>1. n \in 1..5
      BY <1>2 DEF LabelerRecords
    <2>2. labeler' = [labeler EXCEPT !.pc = "read", !.at = n, !.read = {}]
      BY <1>2 DEF NextSource
    <2> HIDE DEF n
    <2> QED BY <2>1, <2>2 DEF LabelerRecords
  <1> QED BY <1>1, <1>2

LEMMA LabelerKeepsCat ==
    ASSUME CatInv, LabelerRuns \/ LabelerReads \/ LabelerReplaces
    PROVE  CatInv'
  <1>0. /\ labeler \in LabelerRecords /\ labels \in [SourceNames -> SUBSET LabelRecords]
        /\ said \in SaidRecords /\ LabelInv
        /\ circle.items \subseteq Entries
        /\ UNCHANGED <<offers, circleList, listings, byAge, overdue, submission, check, found, circle, circleStore>>
    BY DEF CatInv, OtherTypes, CircleRecords, LabelerRuns, LabelerReads, LabelerReplaces, worldVars, marketVars,
           circleVars
  <1>s. Source \in SourceNames
    BY <1>0, SourcesAre DEF Source, LabelerRecords
  \* The rest follows from the labels.
  <1>r. ASSUME labeler' \in LabelerRecords, labels' \in [SourceNames -> SUBSET LabelRecords],
               said' \in SaidRecords, said'.offers = said.offers, said'.circle = said.circle,
               said'.held = said.held, LabelInv'
        PROVE  CatInv'
    <2>1. MarketTypes' /\ OtherTypes'
      BY <1>0, <1>r DEF CatInv, MarketTypes, OtherTypes
    <2>2. TermsWereAsked' /\ ListedOnes' /\ SiteIsFull'
      BY <1>0, <1>r DEF CatInv, TermsWereAsked, ListedOnes, SiteIsFull, IsListed
    <2>3. SearchIsTrue' /\ CircleInv'
      BY <1>0, <1>r DEF CatInv, SearchIsTrue, CircleInv
    <2> QED BY <1>r, <2>1, <2>2, <2>3 DEF CatInv
  <1>1. CASE LabelerRuns
    <2>1. labeler' = [labeler EXCEPT !.pc = "read", !.at = 1] /\ UNCHANGED <<labels, said>>
      BY <1>1 DEF LabelerRuns, worldVars
    <2>2. labeler' \in LabelerRecords /\ labeler'.pc = "read"
      <3> DEFINE n == 1
      <3>1. n \in 1..5 /\ labeler' = [labeler EXCEPT !.pc = "read", !.at = n]
        BY <2>1
      <3> HIDE DEF n
      <3> QED BY <1>0, <3>1 DEF LabelerRecords
    <2>3. LabelInv'
      BY <1>0, <2>1, <2>2 DEF LabelInv
    <2> QED BY <1>0, <1>r, <2>1, <2>2, <2>3
  <1>2. CASE LabelerReads
    <2>0. UNCHANGED <<labels, said>>
      BY <1>2 DEF LabelerReads, worldVars
    <2>1. CASE labeler' = NextSource
      <3>1. labeler' \in LabelerRecords /\ labeler'.pc # "replace"
        BY <1>0, <2>1, NextSourceFits
      <3>2. LabelInv'
        BY <1>0, <2>0, <3>1 DEF LabelInv
      <3> QED BY <1>0, <1>r, <2>0, <3>1, <3>2
    <2>2. ASSUME NEW read \in SourceSays(Source), Readable(Source, read),
                 labeler' = [labeler EXCEPT !.pc = "replace", !.read = LabelsOf(read)]
          PROVE  CatInv'
      <3>1. read \subseteq Listable \cup OtherFacilitators
        <4>1. \A e \in circle.items : e[1] \in Listable
          BY <1>0 DEF Entries
        <4>2. OurRoutes \subseteq Listable
          BY CatFigures
        <4>3. CASE Source = "ours"
          BY <2>2, <4>2, <4>3 DEF SourceSays
        <4>4. CASE Source = "circle"
          BY <2>2, <4>1, <4>4 DEF SourceSays
        <4>5. CASE Source = "market"
          BY <2>2, <4>5 DEF SourceSays
        <4>6. CASE Source = "facilitator"
          BY <2>2, <4>6 DEF SourceSays, FacilitatorsSay
        <4>7. CASE Source = "erc8004"
          BY <2>2, <4>7 DEF SourceSays, RegistrySays
        <4> QED BY <1>s, <4>3, <4>4, <4>5, <4>6, <4>7 DEF SourceNames
      <3> DEFINE made == LabelsOf(read)
      <3>2. made \in SUBSET LabelRecords
        BY <1>s, <3>1 DEF LabelsOf, LabelRecords
      <3>3. Source \in {"circle", "erc8004"} => made # {}
        BY <2>2 DEF Readable, LabelsOf
      <3>4. labeler' = [labeler EXCEPT !.pc = "replace", !.read = made]
        BY <2>2
      <3> HIDE DEF made
      <3>5. /\ labeler' \in LabelerRecords /\ labeler'.at = labeler.at /\ labeler'.read = made
        BY <1>0, <3>2, <3>4 DEF LabelerRecords
      <3>6. LabelInv'
        BY <1>0, <2>0, <3>3, <3>5 DEF LabelInv, Source
      <3> QED BY <1>0, <1>r, <2>0, <3>5, <3>6
    <2> QED BY <1>2, <2>1, <2>2 DEF LabelerReads
  <1>3. CASE LabelerReplaces
    <2>0. labeler.pc = "replace" /\ labeler' = NextSource
      BY <1>3 DEF LabelerReplaces
    <2>1. labeler' \in LabelerRecords /\ labeler'.pc # "replace"
      BY <1>0, <2>0, NextSourceFits
    <2>2. CASE UNCHANGED <<labels, said>>
      <3>1. LabelInv'
        BY <1>0, <2>1, <2>2 DEF LabelInv
      <3> QED BY <1>0, <1>r, <2>1, <2>2, <3>1
    <2>3. CASE /\ labels' = [labels EXCEPT ![Source] = labeler.read]
               /\ said' = IF labeler.read = {} THEN said ELSE [said EXCEPT !.labelled = @ \cup {Source}]
      <3>1. labeler.read \in SUBSET LabelRecords
        BY <1>0 DEF LabelerRecords
      <3>2. /\ labels' \in [SourceNames -> SUBSET LabelRecords] /\ labels'[Source] = labeler.read
            /\ \A s \in SourceNames : s # Source => labels'[s] = labels[s]
        BY <1>0, <1>s, <2>3, <3>1
      <3>3. /\ said' \in SaidRecords /\ said'.offers = said.offers /\ said'.circle = said.circle
            /\ said'.held = said.held
            /\ said'.labelled \subseteq said.labelled \cup {Source}
        BY <1>0, <1>s, <2>3 DEF SaidRecords
      <3>4. Source \in {"circle", "erc8004"} => labeler.read # {}
        BY <1>0, <2>0 DEF LabelInv
      <3>5. \A s \in said'.labelled \cap {"circle", "erc8004"} : labels'[s] # {}
        <4> SUFFICES ASSUME NEW s \in said'.labelled, s \in {"circle", "erc8004"} PROVE labels'[s] # {}
          OBVIOUS
        <4>1. s \in SourceNames
          BY DEF SourceNames
        <4>2. CASE s = Source
          BY <3>2, <3>4, <4>2
        <4>3. CASE s # Source
          BY <1>0, <3>2, <3>3, <4>1, <4>3 DEF LabelInv
        <4> QED BY <4>2, <4>3
      <3>6. LabelInv'
        BY <2>1, <3>5 DEF LabelInv
      <3> QED BY <1>r, <2>1, <3>2, <3>3, <3>6
    <2> QED BY <1>3, <2>2, <2>3 DEF LabelerReplaces
  <1> QED BY <1>1, <1>2, <1>3

-----------------------------------------------------------------------------
(* A start, and the whole *)

LEMMA NoneYet ==
    /\ NoSubmission \in SubmissionRecords /\ NoSubmission.pc = "none"
    /\ NoCheck \in CheckRecords /\ NoCheck.pc = "none" /\ NoCheck.queue = <<>>
    /\ NoFound \in FoundRecords /\ NoFound.rows = {} /\ NoFound.circle = {} /\ NoFound.shown = {}
    /\ NoCircle \in CircleRecords /\ NoCircle.pc = "new" /\ NoCircle.items = {} /\ NoCircle.got = {}
    /\ NoLabeler \in LabelerRecords /\ NoLabeler.pc = "none"
  BY DEF NoSubmission, SubmissionRecords, NoCheck, CheckRecords, NoFound, FoundRecords, NoCircle, CircleRecords,
         NoLabeler, LabelerRecords

LEMMA NonePassing ==
    ASSUME NEW sub, \A n \in Submissions : sub[n].pc = "none"
    PROVE  Cardinality(Passing(sub)) = 0
  <1>1. Passing(sub) = {}
    BY DEF Passing
  <1> QED BY <1>1, FS_EmptySet

LEMMA RestartKeepsCat ==
    ASSUME CatInv, ApiRestarts
    PROVE  CatInv'
  <1>0. /\ UNCHANGED <<offers, circleList, listings, byAge, overdue, circleStore, labels>>
        /\ submission' = [n \in Submissions |-> NoSubmission] /\ check' = NoCheck /\ found' = NoFound
        /\ circle' = (IF "circle" \in about THEN NoCircle ELSE circle) /\ labeler' = NoLabeler
        /\ said' = [said EXCEPT !.held = circle'.items # {}]
        /\ said \in SaidRecords /\ circle \in CircleRecords /\ CircleInv
    BY DEF ApiRestarts, CatInv, OtherTypes
  <1>1. /\ circle' \in CircleRecords /\ circle'.items \subseteq said.circle
        /\ circle'.got \subseteq said.circle /\ (circle'.pc = "page" => circle'.page >= 1)
    BY <1>0, NoneYet DEF CircleInv
  <1>2. /\ said' \in SaidRecords /\ said'.held = (circle'.items # {})
        /\ said'.offers = said.offers /\ said'.circle = said.circle /\ said'.labelled = said.labelled
    <2> DEFINE held == circle'.items # {}
    <2>1. held \in BOOLEAN /\ said' = [said EXCEPT !.held = held]
      BY <1>0
    <2> HIDE DEF held
    <2>2. /\ said' \in SaidRecords /\ said'.held = held
          /\ said'.offers = said.offers /\ said'.circle = said.circle /\ said'.labelled = said.labelled
      BY <1>0, <2>1 DEF SaidRecords
    <2> QED BY <2>2 DEF held
  <1>3. MarketTypes' /\ OtherTypes'
    BY <1>0, <1>1, <1>2, NoneYet DEF CatInv, MarketTypes, OtherTypes
  <1>4. \A n \in Submissions : submission'[n].pc = "none"
    BY <1>0, NoneYet
  <1>5. TermsWereAsked' /\ ListedOnes' /\ SearchIsTrue'
    <2>1. check'.pc = "none" /\ check'.queue = <<>>
      BY <1>0, NoneYet
    <2>2. /\ \A k \in Listable : offers'[k] # NoTerms => <<k, offers'[k]>> \in said'.offers
          /\ \A k \in Listable : listings'[k].terms # NoTerms => <<k, listings'[k].terms>> \in said'.offers
      BY <1>0, <1>2 DEF CatInv, TermsWereAsked, IsListed
    <2>3. TermsWereAsked'
      BY <1>4, <2>1, <2>2 DEF TermsWereAsked, IsListed
    <2>4. ListedOnes'
      BY <1>0, <2>1 DEF CatInv, ListedOnes, IsListed
    <2>5. SearchIsTrue'
      BY <1>0, NoneYet DEF SearchIsTrue
    <2> QED BY <2>3, <2>4, <2>5
  <1>6. SiteIsFull'
    <2>1. Cardinality(Passing(submission')) = 0
      BY <1>4, NonePassing
    <2>2. /\ Len(byAge) \in Nat /\ Cardinality(Passing(submission)) \in Nat
          /\ HostCap \in Nat /\ Cardinality(Submissions) \in Nat
      BY CatFigures, PassingFew DEF CatInv, MarketTypes
    <2> QED BY <1>0, <2>1, <2>2 DEF CatInv, SiteIsFull
  <1>7. CircleInv'
    BY <1>0, <1>1, <1>2, NoneYet DEF CircleInv
  <1>8. LabelInv'
    BY <1>0, <1>2, NoneYet DEF CatInv, LabelInv
  <1> QED BY <1>3, <1>5, <1>6, <1>7, <1>8 DEF CatInv

LEMMA CatStarts == CatInit => CatInv
  <1> SUFFICES ASSUME CatInit PROVE CatInv
    OBVIOUS
  <1> DEFINE t == CHOOSE u \in Terms : TRUE
  <1>1. t \in Terms
    BY CatFigures
  <1> HIDE DEF t
  <1>2. /\ offers = [k \in Listable |-> t]
        /\ listings = [k \in Listable |-> NoListing] /\ byAge = <<>> /\ overdue = 0
        /\ submission = [n \in Submissions |-> NoSubmission] /\ check = NoCheck
        /\ found = NoFound
        /\ circleList \in CircleLists /\ circleStore = {}
        /\ circle = IF "circle" \in about THEN NoCircle
                    ELSE [NoCircle EXCEPT !.pc = "idle", !.items = ToSet(circleList), !.known = TRUE]
        /\ labels = [s \in ToSet(LabelSources) |-> {}] /\ labeler = NoLabeler
        /\ said = [offers |-> {<<k, offers[k]>> : k \in Listable}, circle |-> ToSet(circleList),
                   held |-> circle.items # {}, labelled |-> {}]
    BY DEF CatInit, t
  <1>3. circleList \in Seq(Entries) /\ ToSet(circleList) \in SUBSET Entries
    BY <1>2, CatFigures DEF ToSet
  <1>4. /\ circle \in CircleRecords /\ circle.items \subseteq ToSet(circleList)
        /\ circle.got = {} /\ circle.pc # "page"
    <2>1. CASE "circle" \in about
      BY <1>2, <2>1, NoneYet
    <2>2. CASE ~("circle" \in about)
      <3> DEFINE items == ToSet(circleList)
      <3>1. circle = [NoCircle EXCEPT !.pc = "idle", !.items = items, !.known = TRUE]
        BY <1>2, <2>2
      <3>2. items \in SUBSET Entries
        BY <1>3
      <3> HIDE DEF items
      <3>3. circle \in CircleRecords /\ circle.items = items /\ circle.got = {} /\ circle.pc = "idle"
        BY <3>1, <3>2, NoneYet DEF CircleRecords
      <3> QED BY <3>3 DEF items
    <2> QED BY <2>1, <2>2
  <1>5. /\ said \in SaidRecords /\ said.circle = ToSet(circleList) /\ said.labelled = {}
        /\ said.held = (circle.items # {})
        /\ \A k \in Listable : <<k, offers[k]>> \in said.offers
    <2>1. {<<k, offers[k]>> : k \in Listable} \in SUBSET Offered
      BY <1>1, <1>2 DEF Offered
    <2>2. (circle.items # {}) \in BOOLEAN
      OBVIOUS
    <2> QED BY <1>2, <1>3, <2>1, <2>2 DEF SaidRecords
  <1>6. NoListing \in ListingRecords /\ NoListing.terms = NoTerms
    BY DEF NoListing, ListingRecords
  <1>7. MarketTypes
    BY <1>1, <1>2, <1>6, NoneYet DEF MarketTypes
  <1>8. OtherTypes
    BY <1>2, <1>3, <1>4, <1>5, NoneYet, SourcesAre DEF OtherTypes
  <1>9. TermsWereAsked /\ ListedOnes /\ SearchIsTrue
    <2>1. \A n \in Submissions : submission[n].pc = "none"
      BY <1>2, NoneYet
    <2>2. \A k \in Listable : ~IsListed(k)
      BY <1>2, <1>6 DEF IsListed
    <2>3. TermsWereAsked
      BY <1>2, <1>5, <2>1, <2>2, NoneYet DEF TermsWereAsked
    <2>4. ListedOnes
      BY <1>2, NoneYet DEF ListedOnes
    <2> QED BY <1>2, <2>3, <2>4, NoneYet DEF SearchIsTrue
  <1>10. SiteIsFull
    <2>1. \A n \in Submissions : submission[n].pc = "none"
      BY <1>2, NoneYet
    <2>2. Cardinality(Passing(submission)) = 0 /\ Len(byAge) = 0
      BY <1>2, <2>1, NonePassing
    <2> QED BY <2>2, CatFigures DEF SiteIsFull
  <1>11. CircleInv /\ LabelInv
    BY <1>2, <1>4, <1>5, NoneYet DEF CircleInv, LabelInv
  <1> QED BY <1>7, <1>8, <1>9, <1>10, <1>11 DEF CatInv

LEMMA CatKeeps == CatInv /\ [CatNext]_catVars => CatInv'
  <1> SUFFICES ASSUME CatInv, [CatNext]_catVars PROVE CatInv'
    OBVIOUS
  <1>1. CASE CatNext
    BY <1>1, WorldKeepsCat, SubmissionKeeps, CheckKeeps, CircleKeepsCat, SearchKeepsCat, LabelerKeepsCat,
       RestartKeepsCat DEF CatNext
  <1>2. CASE UNCHANGED catVars
    <2>1. UNCHANGED <<offers, listings, byAge, overdue, submission, check, found, circle, circleStore, circleList,
                      labels, labeler, said>>
      BY <1>2 DEF catVars
    <2>2. MarketTypes' /\ OtherTypes'
      BY <2>1 DEF CatInv, MarketTypes, OtherTypes
    <2>3. TermsWereAsked' /\ ListedOnes' /\ SiteIsFull' /\ SearchIsTrue'
      BY <2>1 DEF CatInv, TermsWereAsked, ListedOnes, SiteIsFull, SearchIsTrue, IsListed
    <2>4. CircleInv' /\ LabelInv'
      BY <2>1 DEF CatInv, CircleInv, LabelInv, Source
    <2> QED BY <2>2, <2>3, <2>4 DEF CatInv
  <1> QED BY <1>1, <1>2

\* Whatever endpoints ask for, whatever Circle, the registry and the others
\* answer and whenever the API restarts: a search shows only what was said, no
\* call twice and none of ours as another's; what was read once is not lost to a
\* bad answer; and submissions that overlap are all that fills a site past its cap.
THEOREM CatalogueStaysHonest == CatSpec => []CatalogueHonest
  <1>1. CatInv => CatalogueHonest
    <2> SUFFICES ASSUME CatInv PROVE CatalogueHonest
      OBVIOUS
    <2>1. Len(byAge) <= HostCap + Cardinality(Submissions) - 1
      <3>1. /\ Len(byAge) \in Nat /\ Cardinality(Passing(submission)) \in Nat
            /\ HostCap \in Nat /\ Cardinality(Submissions) \in Nat
        BY CatFigures, PassingFew DEF CatInv, MarketTypes
      <3> QED BY <3>1 DEF CatInv, SiteIsFull
    <2> QED BY <2>1 DEF CatInv, SearchIsTrue, CircleInv, LabelInv, CatalogueHonest
  <1> QED BY <1>1, CatStarts, CatKeeps, PTL DEF CatSpec

\* Each is in line once; as many are as there are places.
Once(s) == \A i, j \in DOMAIN s : s[i] = s[j] => i = j

LEMMA AsManyAsPlaces ==
    ASSUME NEW S, NEW s \in Seq(S), Once(s)
    PROVE  Len(s) = Cardinality(ToSet(s))
  <1>1. Len(s) \in Nat /\ DOMAIN s = 1..Len(s) /\ s \in [1..Len(s) -> S]
    OBVIOUS
  <1>2. s \in [1..Len(s) -> ToSet(s)]
    BY <1>1 DEF ToSet
  <1>3. s \in Bijection(1..Len(s), ToSet(s))
    <2>1. \A t \in ToSet(s) : \E i \in 1..Len(s) : s[i] = t
      BY <1>1 DEF ToSet
    <2>2. IsInjective(s)
      BY <1>1 DEF Once, IsInjective
    <2> QED BY <1>2, <2>1, <2>2 DEF Bijection, Injection, Surjection
  <1>4. ExistsBijection(1..Len(s), ToSet(s))
    BY <1>3 DEF ExistsBijection
  <1> QED BY <1>1, <1>4, FS_CountingElements

\* One that goes from its place to the end is still in line once, and so are
\* the others.
LEMMA ToTheEnd ==
    ASSUME NEW S, NEW s \in Seq(S), NEW i \in DOMAIN s, Once(s)
    PROVE  /\ Once(Append(RemoveAt(s, i), s[i]))
           /\ ToSet(Append(RemoveAt(s, i), s[i])) = ToSet(s)
  <1> DEFINE r == RemoveAt(s, i)
             n == Append(r, s[i])
  <1>0. Len(s) \in Nat /\ DOMAIN s = 1..Len(s) /\ i \in 1..Len(s) /\ s[i] \in S
    OBVIOUS
  <1>1. r \in Seq(S) /\ Len(r) = Len(s) - 1 /\ DOMAIN r = 1..(Len(s) - 1)
    <2>1. r \in Seq(S) /\ Len(r) = Len(s) - 1
      BY WithoutOne
    <2> HIDE DEF r
    <2> QED BY <2>1
  <1>2. \A j \in DOMAIN r :
          \E h \in DOMAIN s : h = (IF j < i THEN j ELSE j + 1) /\ r[j] = s[h]
    BY WithoutOne
  <1>3. \A h \in DOMAIN s : h # i => \E j \in DOMAIN r : r[j] = s[h]
    BY OthersKeptIn
  <1> HIDE DEF r
  <1>4. /\ DOMAIN n = 1..Len(s) /\ n[Len(s)] = s[i]
        /\ \A j \in DOMAIN r : n[j] = r[j]
    <2> DEFINE x == s[i]
    <2>1. x \in S /\ n = Append(r, x)
      BY <1>0
    <2> HIDE DEF n, x
    <2>2. Len(n) = Len(r) + 1 /\ DOMAIN n = 1..Len(n) /\ n[Len(r) + 1] = x /\ \A j \in 1..Len(r) : n[j] = r[j]
      BY <1>1, <2>1
    <2>3. Len(r) + 1 = Len(s)
      BY <1>0, <1>1
    <2> QED BY <1>1, <2>2, <2>3 DEF x
  <1> HIDE DEF n
  <1>5. ASSUME NEW j \in DOMAIN n
        PROVE  \E h \in DOMAIN s :
                  /\ h = (IF j = Len(s) THEN i ELSE IF j < i THEN j ELSE j + 1)
                  /\ n[j] = s[h]
    <2>1. CASE j = Len(s)
      BY <1>0, <1>4, <2>1
    <2>2. CASE j # Len(s)
      <3>1. j \in DOMAIN r
        BY <1>0, <1>1, <1>4, <2>2
      <3> QED BY <1>2, <1>4, <2>2, <3>1
    <2> QED BY <2>1, <2>2
  <1>6. Once(n)
    <2> SUFFICES ASSUME NEW j \in DOMAIN n, NEW m \in DOMAIN n, n[j] = n[m] PROVE j = m
      BY DEF Once
    <2>1. PICK h \in DOMAIN s :
             /\ h = (IF j = Len(s) THEN i ELSE IF j < i THEN j ELSE j + 1)
             /\ n[j] = s[h]
      BY <1>5
    <2>2. PICK g \in DOMAIN s :
             /\ g = (IF m = Len(s) THEN i ELSE IF m < i THEN m ELSE m + 1)
             /\ n[m] = s[g]
      BY <1>5
    <2>3. h = g
      BY <2>1, <2>2 DEF Once
    <2> QED BY <1>0, <1>4, <2>1, <2>2, <2>3
  <1>7. ToSet(n) = ToSet(s)
    <2>1. ASSUME NEW x \in ToSet(n) PROVE x \in ToSet(s)
      BY <1>5 DEF ToSet
    <2>2. ASSUME NEW h \in DOMAIN s PROVE s[h] \in ToSet(n)
      <3>1. CASE h = i
        <4>1. Len(s) \in DOMAIN n
          BY <1>0, <1>4
        <4> QED BY <1>4, <3>1, <4>1 DEF ToSet
      <3>2. CASE h # i
        <4>1. PICK j \in DOMAIN r : r[j] = s[h]
          BY <1>3, <3>2
        <4>2. j \in DOMAIN n
          BY <1>0, <1>1, <1>4
        <4> QED BY <1>4, <4>1, <4>2 DEF ToSet
      <3> QED BY <3>1, <3>2
    <2> QED BY <2>1, <2>2 DEF ToSet
  <1> QED BY <1>6, <1>7 DEF n, r

-----------------------------------------------------------------------------
\* Whoever is listed is in line, once; a failure counts up to what hides one.
LineIsTheListings == Once(byAge) /\ ToSet(byAge) = {k \in Listable : IsListed(k)}

ListingsRest ==
    /\ LineIsTheListings
    /\ \A k \in Listable : listings[k].fails \in 0..GoneAfter
    /\ about \in Awakenings /\ circleList \in CircleLists
    /\ catFaults \in 0..MaxCatalogueFaults /\ offerChanges \in 0..MaxOfferChanges

\* The line after a check or a submission of k.
LEMMA MovedInLine ==
    ASSUME byAge \in Seq(Listable), LineIsTheListings, NEW k \in Listable, Moved(k)
    PROVE  Once(byAge') /\ ToSet(byAge') = ToSet(byAge) \cup {k}
  <1>1. CASE ~IsListed(k) /\ byAge' = Append(byAge, k)
    <2>1. k \notin ToSet(byAge)
      BY <1>1 DEF LineIsTheListings
    <2>2. /\ Len(byAge) \in Nat /\ DOMAIN byAge = 1..Len(byAge)
          /\ DOMAIN byAge' = 1..(Len(byAge) + 1) /\ byAge'[Len(byAge) + 1] = k
          /\ \A j \in DOMAIN byAge : byAge'[j] = byAge[j]
      BY <1>1
    <2>3. \A j \in DOMAIN byAge' : j \in DOMAIN byAge \/ j = Len(byAge) + 1
      BY <2>2
    <2>4. \A j \in DOMAIN byAge : byAge[j] # k
      BY <2>1 DEF ToSet
    <2>5. Once(byAge')
      BY <2>2, <2>3, <2>4 DEF Once, LineIsTheListings
    <2>6. \A j \in DOMAIN byAge : j \in DOMAIN byAge'
      BY <2>2
    <2>7. Len(byAge) + 1 \in DOMAIN byAge'
      BY <2>2
    <2> QED BY <2>2, <2>3, <2>5, <2>6, <2>7 DEF ToSet
  <1>2. ASSUME NEW i \in DOMAIN byAge, byAge[i] = k, byAge' = Append(RemoveAt(byAge, i), k)
        PROVE  Once(byAge') /\ ToSet(byAge') = ToSet(byAge) \cup {k}
    <2>1. Once(byAge') /\ ToSet(byAge') = ToSet(byAge)
      BY <1>2, ToTheEnd DEF LineIsTheListings
    <2>2. k \in ToSet(byAge)
      BY <1>2 DEF ToSet
    <2> QED BY <2>1, <2>2
  <1> QED BY <1>1, <1>2 DEF Moved

\* A row written of k is listed, and k is the last in line.
LEMMA WrittenInLine ==
    ASSUME byAge \in Seq(Listable), listings \in [Listable -> ListingRecords], LineIsTheListings,
           NEW k \in Listable, NEW written, Moved(k), written.terms # NoTerms, listings' = [listings EXCEPT ![k] = written]
    PROVE  LineIsTheListings'
  <1>1. Once(byAge') /\ ToSet(byAge') = ToSet(byAge) \cup {k}
    BY MovedInLine
  <1>2. \A o \in Listable : IsListed(o)' <=> (o = k \/ IsListed(o))
    BY DEF IsListed
  <1> QED BY <1>1, <1>2 DEF LineIsTheListings

LEMMA UpsertedInLine ==
    ASSUME byAge \in Seq(Listable), listings \in [Listable -> ListingRecords], ListingsRest,
           NEW k \in Listable, NEW t \in Terms \cup {NoTerms}, t # NoTerms, Upserted(k, t)
    PROVE  LineIsTheListings' /\ \A o \in Listable : listings'[o].fails \in 0..GoneAfter
  <1> DEFINE written == [terms |-> t, fails |-> 0, ok |-> TRUE]
  <1>1. Moved(k) /\ listings' = [listings EXCEPT ![k] = written]
    BY DEF Upserted
  <1>2. written.terms = t /\ written.fails = 0
    OBVIOUS
  <1> HIDE DEF written
  <1>3. LineIsTheListings'
    BY <1>1, <1>2, WrittenInLine DEF ListingsRest
  <1>4. 0 \in 0..GoneAfter
    BY CatFigures
  <1> QED BY <1>1, <1>2, <1>3, <1>4 DEF ListingsRest

LEMMA ListingsRestSteps == CatInv /\ ListingsRest /\ [CatNext]_catVars => ListingsRest'
  <1> SUFFICES ASSUME CatInv, ListingsRest, [CatNext]_catVars PROVE ListingsRest'
    OBVIOUS
  <1>0. /\ byAge \in Seq(Listable) /\ listings \in [Listable -> ListingRecords] /\ check \in CheckRecords
        /\ submission \in [Submissions -> SubmissionRecords]
        /\ ListedOnes /\ TermsWereAsked
    BY DEF CatInv, MarketTypes
  <1>f. CatFault => catFaults' \in 0..MaxCatalogueFaults
    BY CatalogueAssumption DEF CatFault, ListingsRest
  <1>o. offerChanges < MaxOfferChanges => offerChanges + 1 \in 0..MaxOfferChanges
    BY CatalogueAssumption DEF ListingsRest
  \* A step that writes no row.
  <1>u. ASSUME listings' = listings, byAge' = byAge, about' = about, circleList' \in CircleLists,
               catFaults' = catFaults \/ CatFault, offerChanges' \in 0..MaxOfferChanges
        PROVE  ListingsRest'
    <2>1. LineIsTheListings'
      BY <1>u DEF ListingsRest, LineIsTheListings, IsListed
    <2> QED BY <1>f, <1>u, <2>1 DEF ListingsRest
  <1>r. circleList \in CircleLists /\ offerChanges \in 0..MaxOfferChanges
    BY DEF ListingsRest
  <1>1. CASE UNCHANGED catVars
    BY <1>1, <1>r, <1>u DEF catVars
  <1>2. ASSUME NEW k \in Listable, NEW t, OfferChanges(k, t) PROVE ListingsRest'
    BY <1>2, <1>o, <1>r, <1>u DEF OfferChanges, marketVars
  <1>3. ASSUME NEW l \in CircleLists, CircleChanges(l) PROVE ListingsRest'
    BY <1>3, <1>o, <1>u DEF CircleChanges, marketVars
  <1>4. CASE AnHourPasses \/ PageIsRead
    BY <1>4, <1>r, <1>u DEF AnHourPasses, PageIsRead, worldVars
  <1>5. ASSUME NEW k \in Listable, NEW n \in Submissions, SubmitProbes(n, k) PROVE ListingsRest'
    BY <1>5, <1>r, <1>u DEF SubmitProbes, Probed, NoCatFault, worldVars
  <1>6. ASSUME NEW n \in Submissions, SubmitCounts(n) PROVE ListingsRest'
    BY <1>6, <1>r, <1>u DEF SubmitCounts, worldVars
  <1>7. ASSUME NEW n \in Submissions, SubmitLists(n) PROVE ListingsRest'
    <2> DEFINE k == submission[n].call
               t == submission[n].read
    <2>1. /\ Upserted(k, t) /\ UNCHANGED <<about, circleList, offerChanges, catFaults>>
      BY <1>7 DEF SubmitLists, worldVars
    <2>2. k \in Listable /\ t \in Terms \cup {NoTerms} /\ t # NoTerms
      BY <1>0, <1>7 DEF SubmitLists, TermsWereAsked, SubmissionRecords
    <2> HIDE DEF k, t
    <2>3. LineIsTheListings' /\ \A o \in Listable : listings'[o].fails \in 0..GoneAfter
      BY <1>0, <2>1, <2>2, UpsertedInLine
    <2> QED BY <2>1, <2>3 DEF ListingsRest
  <1>8. CASE CheckProbes
    BY <1>8, <1>r, <1>u DEF CheckProbes, Probed, NoCatFault, worldVars
  <1>9. CASE CheckWrites
    <2> DEFINE k == Head(check.queue)
    <2>0. /\ check.queue # <<>> /\ check.queue \in Seq(Listable) /\ check.read \in Terms \cup {NoTerms}
      BY <1>0, <1>9 DEF CheckWrites, ListedOnes, CheckRecords
    <2>1. k \in Listable /\ IsListed(k)
      BY <1>0, <2>0 DEF ListedOnes
    <2>2. about' = about /\ circleList' = circleList /\ offerChanges' = offerChanges
      BY <1>9 DEF CheckWrites, worldVars
    <2>3. CASE check.read # NoTerms /\ Upserted(k, check.read) /\ NoCatFault
      <3>1. LineIsTheListings' /\ \A o \in Listable : listings'[o].fails \in 0..GoneAfter
        BY <1>0, <2>0, <2>1, <2>3, UpsertedInLine
      <3> QED BY <2>2, <2>3, <3>1 DEF NoCatFault, ListingsRest
    <2>4. CASE /\ Moved(k) /\ NoCatFault
               /\ listings' = [listings EXCEPT ![k].fails = IF @ < GoneAfter THEN @ + 1 ELSE @,
                                               ![k].ok = listings[k].fails + 1 < OfflineAfter]
      <3> DEFINE f == IF listings[k].fails < GoneAfter THEN listings[k].fails + 1 ELSE listings[k].fails
                 live == listings[k].fails + 1 < OfflineAfter
                 written == [listings[k] EXCEPT !.fails = f, !.ok = live]
      <3>1. listings[k] \in ListingRecords /\ listings[k].fails \in 0..GoneAfter /\ GoneAfter \in Nat
        BY <1>0, <2>1, CatFigures DEF ListingsRest
      <3>2. f \in 0..GoneAfter
        BY <3>1
      <3>3. listings' = [listings EXCEPT ![k] = written]
        BY <1>0, <2>1, <2>4, <3>1 DEF ListingRecords
      <3> HIDE DEF f, live
      <3>4. written.terms = listings[k].terms /\ written.fails = f
        BY <3>1 DEF ListingRecords
      <3> HIDE DEF written, k
      <3>5. written.terms # NoTerms
        BY <2>1, <3>4 DEF IsListed
      <3>6. LineIsTheListings'
        BY <1>0, <2>1, <2>4, <3>3, <3>5, WrittenInLine DEF ListingsRest
      <3>7. \A o \in Listable : listings'[o].fails \in 0..GoneAfter
        BY <1>0, <2>1, <3>2, <3>3, <3>4 DEF ListingsRest
      <3> QED BY <2>2, <2>4, <3>6, <3>7 DEF NoCatFault, ListingsRest
    <2>5. CASE CatFault /\ listings' = listings /\ byAge' = byAge
      BY <1>r, <1>u, <2>2, <2>5
    <2> QED BY <1>9, <2>3, <2>4, <2>5 DEF CheckWrites
  <1>10. CASE CircleRestores \/ CircleReads
    BY <1>10, <1>r, <1>u DEF CircleRestores, CircleReads, NoCatFault, marketVars, worldVars
  <1>11. CASE CircleReadsPage
    <2>1. /\ listings' = listings /\ byAge' = byAge /\ about' = about /\ circleList' = circleList
          /\ offerChanges' = offerChanges /\ (catFaults' = catFaults \/ CatFault)
      BY <1>11 DEF CircleReadsPage, NoCatFault, marketVars
    <2> QED BY <1>r, <1>u, <2>1
  <1>12. CASE CatSearched \/ CopyAges
    BY <1>12, <1>r, <1>u DEF CatSearched, CopyAges, marketVars, worldVars
  <1>13. CASE LabelerRuns \/ LabelerReads \/ LabelerReplaces
    BY <1>13, <1>r, <1>u DEF LabelerRuns, LabelerReads, LabelerReplaces, NoCatFault, marketVars, worldVars
  <1>14. CASE ApiRestarts
    BY <1>14, <1>r, <1>u DEF ApiRestarts
  <1> QED BY <1>1, <1>2, <1>3, <1>4, <1>5, <1>6, <1>7, <1>8, <1>9, <1>10, <1>11, <1>12, <1>13, <1>14 DEF CatNext

LEMMA ListingsTyped == CatInv /\ ListingsRest => CatTypeOK
  <1> SUFFICES ASSUME CatInv, ListingsRest PROVE CatTypeOK
    OBVIOUS
  <1>1. listings \in [Listable -> Listing]
    <2>1. \A k \in Listable : listings[k] \in ListingRecords /\ listings[k].fails \in 0..GoneAfter
      BY DEF CatInv, MarketTypes, ListingsRest
    <2>2. \A k \in Listable : listings[k] \in Listing
      BY <2>1 DEF ListingRecords, Listing
    <2> QED BY <2>2 DEF CatInv, MarketTypes
  <1>2. Len(byAge) = Cardinality(ToSet(byAge)) /\ ToSet(byAge) = {k \in Listable : IsListed(k)}
    BY AsManyAsPlaces DEF CatInv, MarketTypes, ListingsRest, LineIsTheListings
  <1>3. /\ submission \in [Submissions -> SubmissionRecords] /\ overdue \in 0..Len(byAge)
        /\ offers \in [Listable -> Terms \cup {NoTerms}]
    BY DEF CatInv, MarketTypes, ListedOnes
  <1>4. check \in CheckRecords /\ found \in FoundRecords /\ circle \in CircleRecords /\ labeler \in LabelerRecords
    BY DEF CatInv, MarketTypes, OtherTypes
  <1>5. /\ check.pc \in {"none", "probe", "write"}
        /\ found.fresh \in BOOLEAN /\ found.circle \subseteq Entries
        /\ circle.pc \in {"new", "restoring", "idle", "page"} /\ circle.items \subseteq Entries
        /\ labeler.pc \in {"none", "read", "replace"} /\ labeler.at \in 1..5
    BY <1>4 DEF CheckRecords, FoundRecords, CircleRecords, LabelerRecords
  <1>6. circleStore \subseteq Entries
    BY DEF CatInv, OtherTypes
  <1>7. /\ about \in Awakenings /\ circleList \in CircleLists
        /\ catFaults \in 0..MaxCatalogueFaults /\ offerChanges \in 0..MaxOfferChanges
    BY DEF ListingsRest
  <1> QED BY <1>1, <1>2, <1>3, <1>5, <1>6, <1>7 DEF CatTypeOK, SubmissionRecords

LEMMA ListingsRestStarts == CatInit => ListingsRest
  <1> SUFFICES ASSUME CatInit PROVE ListingsRest
    OBVIOUS
  <1>1. /\ byAge = <<>> /\ listings = [k \in Listable |-> NoListing] /\ about \in Awakenings
        /\ circleList \in CircleLists /\ catFaults = 0 /\ offerChanges = 0
    BY DEF CatInit
  <1>2. NoListing.terms = NoTerms /\ NoListing.fails = 0
    BY DEF NoListing
  <1>3. \A k \in Listable : ~IsListed(k)
    BY <1>1, <1>2 DEF IsListed
  <1>4. ToSet(byAge) = {} /\ Once(byAge)
    BY <1>1 DEF ToSet, Once
  <1>5. LineIsTheListings
    BY <1>3, <1>4 DEF LineIsTheListings
  <1> QED BY <1>1, <1>2, <1>5, CatFigures, CatalogueAssumption DEF ListingsRest

\* Whoever is listed is in the line of checks, once, and nobody else is; the
\* failures of a listing count up to what hides it; the rest keeps its type.
THEOREM CatTypeCorrect == CatSpec => []CatTypeOK
<1> QED BY ListingsRestStarts, CatStarts, CatKeeps, ListingsRestSteps, ListingsTyped, PTL DEF CatSpec

-----------------------------------------------------------------------------
(***************************************************************************)
(* The page (Console).  What was read of a run was so once, and a run only *)
(* goes on: so a step drawn stays true of the run it was drawn from.  What *)
(* takes an invariant is which run that is, while answers of several loops *)
(* are under way.                                                          *)
(***************************************************************************)

RunRecords == [status : {"none", "running", "over"}, steps : Nat]
Shots == [id : 0..LastRun, status : {"none", "running", "over"}, steps : Nat]
StepsDrawn == [run : 1..LastRun, step : Nat]
LoopRecords == [run : 1..LastRun, pc : {"waiting", "asking", "read"}, got : Shots]

\* Runs begin one after the other.
RunsFit(R) ==
    /\ R \in [1..LastRun -> RunRecords]
    /\ \A r \in 1..LastRun : R[r].status = "none" => R[r].steps = 0
    /\ \E m \in 0..LastRun : {r \in 1..LastRun : R[r].status # "none"} = 1..m

\* What was read of a run was so once: it goes on from there, or it is over.
TrueOf(s, R) ==
    /\ s \in Shots
    /\ s.id = NoRun => s = Nothing
    /\ s.id # NoRun =>
         /\ s.status # "none" /\ R[s.id].status # "none" /\ s.steps <= R[s.id].steps
         /\ s.status = "over" => R[s.id].status = "over" /\ s.steps = R[s.id].steps

\* Steps on a screen happened, and stand in their places.
ScreenTrue(on, R) ==
    /\ on \in Seq(StepsDrawn)
    /\ \A k \in DOMAIN on : on[k].step = k /\ k <= R[on[k].run].steps

Faces ==
    /\ TrueOf(shown, runs) /\ ScreenTrue(screen, runs)
    /\ playing \in [run : Shots, next : Nat] /\ TrueOf(playing.run, runs)
    /\ mode \in {"live", "replay", "done", "empty"}
    /\ label.kind = mode \/ (mode = "empty" /\ label.kind = "loading")
    /\ mode # "done" => answer = NoRun
    /\ playing.next > 0 => mode = "replay"

\* Until a loop's answer comes too late: all that is on the page is of one run,
\* and a replay is where its timer is.
Steady ==
    ~overtaken =>
      /\ \A k \in DOMAIN screen : screen[k].run = shown.id
      /\ mode # "empty" => label.run = shown.id
      /\ bill = [run |-> shown.id, upTo |-> Len(screen)]
      /\ answer \in {NoRun, shown.id}
      /\ answer # NoRun => runs[answer].status = "over" /\ Len(screen) = runs[answer].steps
      /\ mode \in {"replay", "done"} => shown.status # "running"
      /\ playing.next > 0 => playing.run = shown /\ Len(screen) = playing.next - 1

LoopTrue(x, R) ==
    /\ R[x.run].status # "none" /\ TrueOf(x.got, R)
    /\ x.pc = "read" => x.got.id = x.run

LoopsFit ==
    /\ loops \in Seq(LoopRecords)
    /\ \A l \in DOMAIN loops : LoopTrue(loops[l], runs)

AsksFit ==
    /\ \A s \in heard : TrueOf(s, runs)
    /\ asking.run \in 0..LastRun
    /\ asking.what = "pick" => asking.run # NoRun /\ runs[asking.run].status # "none"

\* Whoever looks for the next run: the timer, an answer to it, or a loop that
\* will go on.
Looking ==
    started = "yes" /\ ~picked =>
        \/ idleTimer \/ heard # {}
        \/ mode = "live" /\ \E l \in DOMAIN loops : loops[l].pc = "read" \/ loops[l].run = shown.id

ConInv == RunsFit(runs) /\ Faces /\ Steady /\ LoopsFit /\ AsksFit /\ Looking

-----------------------------------------------------------------------------
(* Runs, and what was read of them *)

\* A run goes on; one that is over stays as it is.
Later(R, Q) ==
    \A r \in 1..LastRun :
        /\ R[r].steps <= Q[r].steps
        /\ R[r].status # "none" => Q[r].status # "none"
        /\ R[r].status = "over" => Q[r] = R[r]

LEMMA StaysTrue ==
    ASSUME NEW R \in [1..LastRun -> RunRecords], NEW Q \in [1..LastRun -> RunRecords], Later(R, Q)
    PROVE  /\ \A s : TrueOf(s, R) => TrueOf(s, Q)
           /\ \A on : ScreenTrue(on, R) => ScreenTrue(on, Q)
           /\ \A x \in LoopRecords : LoopTrue(x, R) => LoopTrue(x, Q)
  <1>1. ASSUME NEW s, TrueOf(s, R) PROVE TrueOf(s, Q)
    <2>1. CASE s.id = NoRun
      BY <1>1, <2>1 DEF TrueOf
    <2>2. CASE s.id # NoRun
      <3>1. s.id \in 1..LastRun /\ s.steps \in Nat
        BY <1>1, <2>2, ConsoleAssumption DEF TrueOf, Shots, NoRun
      <3>2. /\ R[s.id].steps \in Nat /\ Q[s.id].steps \in Nat
            /\ R[s.id].steps <= Q[s.id].steps
            /\ R[s.id].status # "none" => Q[s.id].status # "none"
            /\ R[s.id].status = "over" => Q[s.id] = R[s.id]
        BY <3>1 DEF Later, RunRecords
      <3> QED BY <1>1, <2>2, <3>1, <3>2 DEF TrueOf
    <2> QED BY <2>1, <2>2
  <1>2. ASSUME NEW on, ScreenTrue(on, R) PROVE ScreenTrue(on, Q)
    <2>1. ASSUME NEW k \in DOMAIN on PROVE k <= Q[on[k].run].steps
      <3>1. on[k] \in StepsDrawn /\ k \in Nat
        BY <1>2 DEF ScreenTrue
      <3>2. on[k].run \in 1..LastRun
        BY <3>1 DEF StepsDrawn
      <3>3. R[on[k].run].steps \in Nat /\ Q[on[k].run].steps \in Nat /\ R[on[k].run].steps <= Q[on[k].run].steps
        BY <3>2 DEF Later, RunRecords
      <3>4. k <= R[on[k].run].steps
        BY <1>2 DEF ScreenTrue
      <3> QED BY <3>1, <3>3, <3>4
    <2> QED BY <1>2, <2>1 DEF ScreenTrue
  <1>3. ASSUME NEW x \in LoopRecords, LoopTrue(x, R) PROVE LoopTrue(x, Q)
    BY <1>1, <1>3 DEF LoopTrue, LoopRecords, Later
  <1> QED BY <1>1, <1>2, <1>3

\* What the API answers now is true.
LEMMA ReadIsTrue ==
    ASSUME RunsFit(runs)
    PROVE  /\ \A r \in Begun : r \in 1..LastRun /\ TrueOf(Read(r), runs) /\ Read(r).id = r
           /\ TrueOf(Latest, runs) /\ TrueOf(Nothing, runs)
           /\ Latest.status = "running" => Latest.id # NoRun
  <1>1. TrueOf(Nothing, runs)
    BY ConsoleAssumption DEF TrueOf, Nothing, Shots, NoRun
  <1>2. ASSUME NEW r \in Begun PROVE r \in 1..LastRun /\ TrueOf(Read(r), runs) /\ Read(r).id = r
    <2>1. r \in 1..LastRun /\ runs[r].status # "none" /\ runs[r] \in RunRecords
      BY DEF Begun, RunsFit
    <2>2. r \in 0..LastRun /\ r # 0
      BY <2>1, ConsoleAssumption
    <2>3. Read(r) \in Shots /\ Read(r).id = r /\ Read(r).status = runs[r].status /\ Read(r).steps = runs[r].steps
          /\ runs[r].steps \in Nat
      BY <2>1, <2>2 DEF Read, Shots, RunRecords
    <2> QED BY <2>1, <2>2, <2>3 DEF TrueOf, NoRun
  <1>3. CASE Begun = {}
    BY <1>1, <1>2, <1>3 DEF Latest, Nothing
  <1>4. CASE Begun # {}
    <2>1. PICK m \in 0..LastRun : Begun = 1..m
      BY DEF RunsFit, Begun
    <2>2. m \in Begun /\ \A o \in Begun : o <= m
      BY <1>4, <2>1, ConsoleAssumption
    <2> DEFINE last == CHOOSE r \in Begun : \A o \in Begun : o <= r
    <2>3. last \in Begun
      BY <2>2
    <2>4. Latest = Read(last)
      BY <1>4 DEF Latest
    <2> HIDE DEF last
    <2>5. Read(last).id # NoRun
      BY <1>2, <2>3, ConsoleAssumption DEF NoRun
    <2> QED BY <1>1, <1>2, <2>3, <2>4, <2>5
  <1> QED BY <1>3, <1>4

-----------------------------------------------------------------------------
(* What is drawn *)

LEMMA FunctionIsSeq ==
    ASSUME NEW S, NEW n \in Nat, NEW f \in [1..n -> S]
    PROVE  f \in Seq(S) /\ Len(f) = n
  <1>1. f \in Seq(S)
    BY SeqDef
  <1> QED BY <1>1, LenProperties

LEMMA DrawnTrue ==
    ASSUME NEW R \in [1..LastRun -> RunRecords], NEW on, ScreenTrue(on, R), NEW s, TrueOf(s, R),
           NEW n \in Nat, n <= s.steps
    PROVE  /\ ScreenTrue(Drawn(on, s, n), R) /\ Len(on) \in Nat
           /\ Len(Drawn(on, s, n)) = IF n > Len(on) THEN n ELSE Len(on)
           /\ (\A k \in DOMAIN on : on[k].run = s.id) =>
                \A k \in DOMAIN Drawn(on, s, n) : Drawn(on, s, n)[k].run = s.id
  <1> DEFINE more == IF n > Len(on) THEN n - Len(on) ELSE 0
             rest == [k \in 1..more |-> [run |-> s.id, step |-> Len(on) + k]]
             all == Drawn(on, s, n)
  <1>1. on \in Seq(StepsDrawn) /\ Len(on) \in Nat /\ DOMAIN on = 1..Len(on) /\ more \in Nat
    BY DEF ScreenTrue
  <1>2. ASSUME NEW k \in 1..more
        PROVE  /\ rest[k] = [run |-> s.id, step |-> Len(on) + k] /\ rest[k] \in StepsDrawn
               /\ Len(on) + k <= R[s.id].steps
    <2>1. n > Len(on) /\ Len(on) + k <= n /\ Len(on) + k \in Nat
      BY <1>1
    <2>2. s.steps \in Nat /\ s.steps > 0
      BY <1>1, <2>1 DEF TrueOf, Shots
    <2>3. s.id # NoRun
      BY <2>2 DEF TrueOf, Nothing
    <2>4. s.id \in 1..LastRun /\ s.steps <= R[s.id].steps
      BY <2>3, ConsoleAssumption DEF TrueOf, Shots, NoRun
    <2>5. R[s.id].steps \in Nat
      BY <2>4 DEF RunRecords
    <2>6. rest[k] = [run |-> s.id, step |-> Len(on) + k]
      OBVIOUS
    <2> HIDE DEF rest, more
    <2>7. Len(on) + k <= R[s.id].steps
      BY <2>1, <2>2, <2>4, <2>5
    <2> QED BY <2>1, <2>4, <2>6, <2>7 DEF StepsDrawn
  <1>3. rest \in Seq(StepsDrawn) /\ Len(rest) = more
    <2>1. rest \in [1..more -> StepsDrawn]
      BY <1>2
    <2> HIDE DEF rest, more
    <2> QED BY <1>1, <2>1, FunctionIsSeq
  <1>4. all = on \o rest
    BY DEF Drawn
  <1>5. Len(on) + more = IF n > Len(on) THEN n ELSE Len(on)
    BY <1>1
  <1> HIDE DEF rest, more, all
  <1>6. all \in Seq(StepsDrawn) /\ Len(all) = Len(on) + more /\ DOMAIN all = 1..(Len(on) + more)
    <2>1. on \o rest \in Seq(StepsDrawn) /\ Len(on \o rest) = Len(on) + Len(rest)
      BY <1>1, <1>3, ConcatProperties
    <2> QED BY <1>3, <1>4, <2>1
  <1>7. \A k \in 1..(Len(on) + Len(rest)) : all[k] = IF k <= Len(on) THEN on[k] ELSE rest[k - Len(on)]
    BY <1>1, <1>3, <1>4, ConcatProperties
  <1>8. ASSUME NEW k \in DOMAIN all
        PROVE  /\ all[k].step = k /\ k <= R[all[k].run].steps
               /\ (\A j \in DOMAIN on : on[j].run = s.id) => all[k].run = s.id
    <2>1. k \in 1..(Len(on) + Len(rest)) /\ k \in Nat
      BY <1>1, <1>3, <1>6
    <2>2. CASE k <= Len(on)
      <3>1. k \in DOMAIN on /\ all[k] = on[k]
        BY <1>1, <1>7, <2>1, <2>2
      <3> QED BY <3>1 DEF ScreenTrue
    <2>3. CASE ~(k <= Len(on))
      <3> DEFINE j == k - Len(on)
      <3>1. j \in 1..more /\ Len(on) + j = k
        BY <1>1, <1>3, <2>1, <2>3
      <3>2. all[k] = rest[j]
        BY <1>7, <2>1, <2>3
      <3> HIDE DEF j
      <3>3. rest[j] = [run |-> s.id, step |-> k] /\ k <= R[s.id].steps
        BY <1>2, <3>1
      <3> QED BY <3>2, <3>3
    <2> QED BY <2>2, <2>3
  <1>9. ScreenTrue(all, R)
    BY <1>6, <1>8 DEF ScreenTrue
  <1> QED BY <1>1, <1>5, <1>6, <1>8, <1>9 DEF all

LEMMA NothingDrawn == ASSUME NEW R PROVE ScreenTrue(<<>>, R) /\ Len(<<>>) = 0 /\ DOMAIN <<>> = {}
  BY DEF ScreenTrue

-----------------------------------------------------------------------------
(* The face of the page *)

\* The console is cleared for a run and drawn up to where it was read.
LEMMA FramedFits ==
    ASSUME RunsFit(runs), UNCHANGED runs, NEW run, TrueOf(run, runs), Framed(run, run.steps)
    PROVE  /\ TrueOf(shown, runs)' /\ ScreenTrue(screen, runs)' /\ shown' = run
           /\ playing' \in [run : Shots, next : Nat] /\ TrueOf(playing.run, runs)' /\ playing'.next = 0
           /\ \A k \in DOMAIN screen' : screen'[k].run = run.id
           /\ Len(screen') = run.steps
           /\ bill' = [run |-> run.id, upTo |-> Len(screen')]
  <1>1. /\ shown' = run /\ playing' = NotPlaying /\ screen' = Drawn(<<>>, run, run.steps)
        /\ bill' = [run |-> run.id, upTo |-> run.steps] /\ runs' = runs
    BY DEF Framed, Bill
  <1>2. run.steps \in Nat /\ run.steps <= run.steps /\ runs \in [1..LastRun -> RunRecords]
    BY DEF TrueOf, Shots, RunsFit
  <1>3. ScreenTrue(<<>>, runs) /\ Len(<<>>) = 0 /\ DOMAIN <<>> = {}
    BY NothingDrawn
  <1>4. /\ ScreenTrue(Drawn(<<>>, run, run.steps), runs)
        /\ Len(Drawn(<<>>, run, run.steps)) = IF run.steps > Len(<<>>) THEN run.steps ELSE Len(<<>>)
        /\ \A k \in DOMAIN Drawn(<<>>, run, run.steps) : Drawn(<<>>, run, run.steps)[k].run = run.id
    BY <1>2, <1>3, DrawnTrue
  <1>5. Len(screen') = run.steps
    BY <1>1, <1>2, <1>3, <1>4
  <1>6. TrueOf(Nothing, runs) /\ Nothing \in Shots
    BY ReadIsTrue DEF TrueOf
  <1>7. /\ playing' \in [run : Shots, next : Nat] /\ TrueOf(playing.run, runs)' /\ playing'.next = 0
    BY <1>1, <1>6 DEF NotPlaying
  <1> QED BY <1>1, <1>4, <1>5, <1>7

LEMMA RunDoneFits ==
    ASSUME RunsFit(runs), UNCHANGED runs, NEW run, TrueOf(run, runs), Done(run),
           overtaken' \/ run.status # "running"
    PROVE  Faces' /\ Steady' /\ UNCHANGED loops /\ mode' = "done"
  <1>1. /\ Framed(run, run.steps) /\ mode' = "done" /\ label' = [kind |-> "done", run |-> run.id]
        /\ answer' = run.id /\ UNCHANGED loops /\ runs' = runs
    BY DEF Done, State
  <1>2. /\ TrueOf(shown, runs)' /\ ScreenTrue(screen, runs)' /\ shown' = run
        /\ playing' \in [run : Shots, next : Nat] /\ TrueOf(playing.run, runs)' /\ playing'.next = 0
        /\ \A k \in DOMAIN screen' : screen'[k].run = run.id
        /\ Len(screen') = run.steps
        /\ bill' = [run |-> run.id, upTo |-> Len(screen')]
    BY <1>1, FramedFits
  <1>3. Faces'
    BY <1>1, <1>2 DEF Faces
  <1>4. Steady'
    <2> SUFFICES ASSUME ~overtaken' PROVE Steady'
      BY DEF Steady
    <2>1. run.id # NoRun => run.status = "over"
      BY DEF TrueOf, Shots
    <2>2. answer' # NoRun => runs'[answer'].status = "over" /\ Len(screen') = runs'[answer'].steps
      BY <1>1, <1>2, <2>1 DEF TrueOf
    <2> QED BY <1>1, <1>2, <2>2 DEF Steady
  <1> QED BY <1>1, <1>3, <1>4

LEMMA ReplaysFits ==
    ASSUME RunsFit(runs), UNCHANGED runs, NEW run, TrueOf(run, runs), Replays(run),
           overtaken' \/ run.status # "running"
    PROVE  Faces' /\ Steady' /\ UNCHANGED loops /\ mode' \in {"done", "replay"}
  <1>1. CASE Done(run)
    BY <1>1, RunDoneFits
  <1>2. CASE ~Done(run)
    <2>1. /\ shown' = run /\ screen' = <<>> /\ bill' = [run |-> run.id, upTo |-> 0]
          /\ playing' = [run |-> run, next |-> 1] /\ mode' = "replay"
          /\ label' = [kind |-> "replay", run |-> run.id] /\ answer' = NoRun
          /\ UNCHANGED loops /\ runs' = runs
      BY <1>2 DEF Replays, Bill, State
    <2>2. ScreenTrue(<<>>, runs) /\ Len(<<>>) = 0 /\ DOMAIN <<>> = {} /\ run \in Shots
      BY NothingDrawn DEF TrueOf
    <2>3. playing' \in [run : Shots, next : Nat] /\ playing'.run = run /\ playing'.next = 1
      BY <2>1, <2>2
    <2>4. Faces'
      BY <2>1, <2>2, <2>3 DEF Faces
    <2>5. Steady'
      BY <2>1, <2>2, <2>3 DEF Steady
    <2> QED BY <2>1, <2>4, <2>5
  <1> QED BY <1>1, <1>2

\* A run that goes on is shown with a loop that asks for the rest.
LEMMA LiveFits ==
    ASSUME RunsFit(runs), UNCHANGED runs, LoopsFit, NEW run, TrueOf(run, runs), run.status = "running",
           GoesLive(run)
    PROVE  /\ Faces' /\ Steady' /\ LoopsFit' /\ mode' = "live"
           /\ \E l \in DOMAIN loops' : loops'[l].run = shown'.id
  <1> DEFINE new == [run |-> run.id, pc |-> "waiting", got |-> Nothing]
  <1>1. /\ Framed(run, run.steps) /\ mode' = "live" /\ label' = [kind |-> "live", run |-> run.id]
        /\ answer' = NoRun /\ loops' = Append(loops, new) /\ runs' = runs
    BY DEF GoesLive, State
  <1>2. /\ TrueOf(shown, runs)' /\ ScreenTrue(screen, runs)' /\ shown' = run
        /\ playing' \in [run : Shots, next : Nat] /\ TrueOf(playing.run, runs)' /\ playing'.next = 0
        /\ \A k \in DOMAIN screen' : screen'[k].run = run.id
        /\ bill' = [run |-> run.id, upTo |-> Len(screen')]
    BY <1>1, FramedFits
  <1>3. Faces'
    BY <1>1, <1>2 DEF Faces
  <1>4. Steady'
    BY <1>1, <1>2 DEF Steady
  <1>5. new \in LoopRecords /\ LoopTrue(new, runs) /\ new.run = run.id
    <2>1. run.id # NoRun
      BY DEF TrueOf, Nothing
    <2>2. run.id \in 1..LastRun /\ runs[run.id].status # "none"
      BY <2>1, ConsoleAssumption DEF TrueOf, Shots, NoRun
    <2>3. TrueOf(Nothing, runs) /\ Nothing \in Shots
      BY ReadIsTrue DEF TrueOf
    <2>4. new \in LoopRecords
      BY <2>2, <2>3 DEF LoopRecords
    <2> QED BY <2>2, <2>3, <2>4 DEF LoopTrue
  <1> HIDE DEF new
  <1>6. /\ loops' \in Seq(LoopRecords) /\ DOMAIN loops' = 1..(Len(loops) + 1) /\ Len(loops) \in Nat
        /\ loops'[Len(loops) + 1] = new /\ \A l \in DOMAIN loops : loops'[l] = loops[l]
        /\ DOMAIN loops = 1..Len(loops)
    BY <1>1, <1>5 DEF LoopsFit
  <1>7. LoopsFit'
    <2>1. ASSUME NEW l \in DOMAIN loops' PROVE LoopTrue(loops'[l], runs)
      <3>1. CASE l = Len(loops) + 1
        BY <1>5, <1>6, <3>1
      <3>2. CASE l # Len(loops) + 1
        <4>1. l \in DOMAIN loops
          BY <1>6, <3>2
        <4> QED BY <1>6, <4>1 DEF LoopsFit
      <3> QED BY <3>1, <3>2
    <2> QED BY <1>1, <1>6, <2>1 DEF LoopsFit
  <1>8. Len(loops) + 1 \in DOMAIN loops' /\ loops'[Len(loops) + 1].run = shown'.id
    BY <1>2, <1>5, <1>6
  <1> QED BY <1>1, <1>3, <1>4, <1>7, <1>8

LEMMA ShownFits ==
    ASSUME RunsFit(runs), UNCHANGED runs, LoopsFit, NEW run, TrueOf(run, runs), ShownAsIs(run)
    PROVE  /\ Faces' /\ Steady' /\ LoopsFit'
           /\ run.status = "running" => mode' = "live" /\ \E l \in DOMAIN loops' : loops'[l].run = shown'.id
  <1>1. CASE run.status = "running"
    BY <1>1, LiveFits DEF ShownAsIs
  <1>2. CASE run.status # "running"
    <2>1. Faces' /\ Steady' /\ UNCHANGED loops
      BY <1>2, ReplaysFits DEF ShownAsIs
    <2> QED BY <1>2, <2>1 DEF LoopsFit
  <1> QED BY <1>1, <1>2

-----------------------------------------------------------------------------
(* The loops *)

\* One loop moves or ends, and the others stay.
LEMMA LoopMoves ==
    ASSUME LoopsFit, NEW l \in DOMAIN loops, NEW pc \in {"waiting", "asking", "read", "ended"},
           NEW got \in Shots, Loop(l, pc, got)
    PROVE  /\ loops' \in Seq(LoopRecords)
           /\ \A h \in DOMAIN loops : h # l => \E j \in DOMAIN loops' : loops'[j] = loops[h]
           /\ pc # "ended" => \E j \in DOMAIN loops' : loops'[j] = [run |-> loops[l].run, pc |-> pc, got |-> got]
           /\ \A j \in DOMAIN loops' :
                \/ \E h \in DOMAIN loops : loops'[j] = loops[h]
                \/ pc # "ended" /\ loops'[j] = [run |-> loops[l].run, pc |-> pc, got |-> got]
  <1>0. loops \in Seq(LoopRecords)
    BY DEF LoopsFit
  <1>1. CASE pc = "ended"
    <2>1. loops' = RemoveAt(loops, l)
      BY <1>1 DEF Loop
    <2> QED BY <1>0, <1>1, <2>1, WithoutOne, OthersKeptIn
  <1>2. CASE pc # "ended"
    <2> DEFINE x == [loops[l] EXCEPT !.pc = pc, !.got = got]
    <2>1. loops[l] \in LoopRecords
      BY <1>0
    <2>2. x \in LoopRecords /\ x = [run |-> loops[l].run, pc |-> pc, got |-> got]
      <3>1. pc \in {"waiting", "asking", "read"}
        BY <1>2
      <3>2. x = [run |-> loops[l].run, pc |-> pc, got |-> got]
        <4> DEFINE y == loops[l]
        <4>1. y = [run |-> y.run, pc |-> y.pc, got |-> y.got] /\ x = [y EXCEPT !.pc = pc, !.got = got]
          BY <2>1 DEF LoopRecords
        <4> HIDE DEF x, y
        <4>2. x = [run |-> y.run, pc |-> pc, got |-> got]
          BY <4>1
        <4> QED BY <4>2 DEF y
      <3>3. loops[l].run \in 1..LastRun
        BY <2>1 DEF LoopRecords
      <3> HIDE DEF x
      <3> QED BY <3>1, <3>2, <3>3 DEF LoopRecords
    <2>3. loops' = [loops EXCEPT ![l] = x]
      BY <1>2 DEF Loop
    <2> HIDE DEF x
    <2>4. loops' \in Seq(LoopRecords) /\ DOMAIN loops' = DOMAIN loops /\ loops'[l] = x
          /\ \A h \in DOMAIN loops : h # l => loops'[h] = loops[h]
      BY <1>0, <2>2, <2>3
    <2> QED BY <1>2, <2>2, <2>4
  <1> QED BY <1>1, <1>2

LEMMA LoopMovesFits ==
    ASSUME LoopsFit, UNCHANGED runs, NEW l \in DOMAIN loops, NEW pc \in {"waiting", "asking", "read", "ended"},
           NEW got, TrueOf(got, runs), pc = "read" => got.id = loops[l].run, Loop(l, pc, got)
    PROVE  LoopsFit'
  <1>1. got \in Shots /\ LoopTrue(loops[l], runs) /\ loops[l] \in LoopRecords
    BY DEF TrueOf, LoopsFit
  <1>2. /\ loops' \in Seq(LoopRecords)
        /\ \A j \in DOMAIN loops' :
             \/ \E h \in DOMAIN loops : loops'[j] = loops[h]
             \/ loops'[j] = [run |-> loops[l].run, pc |-> pc, got |-> got]
    BY <1>1, LoopMoves
  <1>3. LoopTrue([run |-> loops[l].run, pc |-> pc, got |-> got], runs)
    BY <1>1 DEF LoopTrue
  <1> QED BY <1>2, <1>3 DEF LoopsFit

-----------------------------------------------------------------------------
(* The steps *)

\* A run begins or goes on.
LEMMA RunsGoOn ==
    ASSUME ConInv, RunBegins \/ \E r \in 1..LastRun : RunSteps1(r)
    PROVE  ConInv'
  <1>0. /\ RunsFit(runs) /\ Faces /\ Steady /\ LoopsFit /\ AsksFit /\ Looking
        /\ runs \in [1..LastRun -> RunRecords]
    BY DEF ConInv, RunsFit
  <1>1. UNCHANGED <<shown, screen, bill, answer, mode, label, playing, picked, loops, idleTimer, heard, asking,
                    started, overtaken>>
    BY DEF RunBegins, RunSteps1, face
  <1>2. ASSUME RunsFit(runs'), Later(runs, runs')
        PROVE  ConInv'
    <2>1. /\ \A s : TrueOf(s, runs) => TrueOf(s, runs')
          /\ \A on : ScreenTrue(on, runs) => ScreenTrue(on, runs')
          /\ \A x \in LoopRecords : LoopTrue(x, runs) => LoopTrue(x, runs')
      <3>1. runs' \in [1..LastRun -> RunRecords]
        BY <1>2 DEF RunsFit
      <3> QED BY <1>0, <1>2, <3>1, StaysTrue
    <2>2. Faces'
      BY <1>0, <1>1, <2>1 DEF Faces
    <2>3. Steady'
      <3>1. ASSUME ~overtaken, answer # NoRun
            PROVE  runs'[answer].status = "over" /\ runs'[answer].steps = runs[answer].steps
        <4>1. answer = shown.id /\ TrueOf(shown, runs) /\ runs[answer].status = "over"
          BY <1>0, <3>1 DEF Steady, Faces
        <4>2. answer \in 1..LastRun
          BY <3>1, <4>1, ConsoleAssumption DEF TrueOf, Shots, NoRun
        <4> QED BY <1>2, <4>1, <4>2 DEF Later
      <3> QED BY <1>0, <1>1, <3>1 DEF Steady
    <2>4. LoopsFit'
      <3>1. \A l \in DOMAIN loops : loops[l] \in LoopRecords
        BY <1>0 DEF LoopsFit
      <3> QED BY <1>0, <1>1, <2>1, <3>1 DEF LoopsFit
    <2>5. AsksFit'
      <3>1. asking.what = "pick" => asking.run \in 1..LastRun
        BY <1>0, ConsoleAssumption DEF AsksFit, NoRun
      <3> QED BY <1>0, <1>1, <1>2, <2>1, <3>1 DEF AsksFit, Later
    <2>6. Looking'
      BY <1>0, <1>1 DEF Looking
    <2> QED BY <1>2, <2>2, <2>3, <2>4, <2>5, <2>6 DEF ConInv
  <1>3. CASE RunBegins
    <2> DEFINE n == Cardinality(Begun) + 1
               new == [status |-> "running", steps |-> 0]
    <2>1. PICK m \in 0..LastRun : Begun = 1..m
      BY <1>0 DEF RunsFit, Begun
    <2>2. m \in Nat /\ Cardinality(Begun) = m
      BY <2>1, FS_Interval, ConsoleAssumption
    <2>3. n = m + 1 /\ n \in 1..LastRun
      BY <1>3, <2>1, <2>2, ConsoleAssumption DEF RunBegins
    <2>4. runs' = [runs EXCEPT ![n] = new] /\ new \in RunRecords
      BY <1>3 DEF RunBegins, RunRecords
    <2> HIDE DEF n
    <2>5. runs' \in [1..LastRun -> RunRecords] /\ runs'[n] = new
          /\ \A r \in 1..LastRun : r # n => runs'[r] = runs[r]
      BY <1>0, <2>3, <2>4
    <2>6. runs[n].status = "none" /\ \A r \in 1..LastRun : runs[r].status # "none" <=> r \in 1..m
      BY <2>1, <2>2, <2>3 DEF Begun
    <2>7. RunsFit(runs')
      <3>1. {r \in 1..LastRun : runs'[r].status # "none"} = 1..(m + 1)
        <4>1. ASSUME NEW r \in 1..LastRun PROVE runs'[r].status # "none" <=> r \in 1..(m + 1)
          BY <2>2, <2>3, <2>5, <2>6
        <4>2. 1..(m + 1) \subseteq 1..LastRun
          BY <2>2, <2>3, ConsoleAssumption
        <4> QED BY <4>1, <4>2
      <3>2. m + 1 \in 0..LastRun
        BY <2>2, <2>3
      <3>3. \A r \in 1..LastRun : runs'[r].status = "none" => runs'[r].steps = 0
        BY <1>0, <2>3, <2>4, <2>5 DEF RunsFit
      <3> QED BY <2>5, <3>1, <3>2, <3>3 DEF RunsFit
    <2>8. Later(runs, runs')
      <3> SUFFICES ASSUME NEW r \in 1..LastRun
                   PROVE  /\ runs[r].steps <= runs'[r].steps
                          /\ runs[r].status # "none" => runs'[r].status # "none"
                          /\ runs[r].status = "over" => runs'[r] = runs[r]
        BY DEF Later
      <3>1. CASE r # n
        BY <1>0, <2>5, <3>1 DEF RunRecords
      <3>2. CASE r = n
        <4>1. runs[n].steps = 0
          BY <1>0, <2>3, <2>6 DEF RunsFit
        <4> QED BY <2>5, <2>6, <3>2, <4>1
      <3> QED BY <3>1, <3>2
    <2> QED BY <1>2, <2>7, <2>8
  <1>4. ASSUME NEW q \in 1..LastRun, RunSteps1(q) PROVE ConInv'
    <2>1. runs[q] \in RunRecords /\ runs[q].status = "running"
      BY <1>0, <1>4 DEF RunSteps1
    <2>2. PICK x \in RunRecords : /\ runs' = [runs EXCEPT ![q] = x]
                                  /\ x.status \in {"running", "over"} /\ runs[q].steps <= x.steps
      <3> DEFINE further == [runs[q] EXCEPT !.steps = @ + 1]
                 ended == [runs[q] EXCEPT !.status = "over"]
      <3>1. /\ further \in RunRecords /\ further.status = "running" /\ further.steps = runs[q].steps + 1
            /\ runs[q].steps \in Nat
        BY <2>1 DEF RunRecords
      <3>2. ended \in RunRecords /\ ended.status = "over" /\ ended.steps = runs[q].steps
        BY <2>1 DEF RunRecords
      <3>3. runs' = [runs EXCEPT ![q] = further] \/ runs' = [runs EXCEPT ![q] = ended]
        BY <1>4 DEF RunSteps1
      <3> HIDE DEF further, ended
      <3> QED BY <3>1, <3>2, <3>3
    <2>3. runs' \in [1..LastRun -> RunRecords] /\ runs'[q] = x
          /\ \A r \in 1..LastRun : r # q => runs'[r] = runs[r]
      BY <1>0, <2>2
    <2>4. {r \in 1..LastRun : runs'[r].status # "none"} = {r \in 1..LastRun : runs[r].status # "none"}
      BY <2>1, <2>2, <2>3
    <2>5. RunsFit(runs')
      <3>1. \A r \in 1..LastRun : runs'[r].status = "none" => runs'[r].steps = 0
        BY <1>0, <2>1, <2>2, <2>3 DEF RunsFit
      <3>2. \E m \in 0..LastRun : {r \in 1..LastRun : runs'[r].status # "none"} = 1..m
        BY <1>0, <2>4 DEF RunsFit
      <3> QED BY <2>3, <3>1, <3>2 DEF RunsFit
    <2>6. Later(runs, runs')
      BY <1>0, <2>1, <2>2, <2>3 DEF Later, RunRecords
    <2> QED BY <1>2, <2>5, <2>6
  <1> QED BY <1>3, <1>4

\* A timer of the replay.
LEMMA PlayGoesOn == ASSUME ConInv, PlaysOn PROVE ConInv'
  <1>0. /\ RunsFit(runs) /\ Faces /\ Steady /\ LoopsFit /\ AsksFit /\ Looking
        /\ playing.next > 0 /\ mode = "replay" /\ playing.next \in Nat
        /\ UNCHANGED <<runs, picked, idleTimer, heard, asking, started, overtaken>>
        /\ TrueOf(playing.run, runs)
    BY DEF ConInv, PlaysOn, Faces
  <1>1. AsksFit' /\ RunsFit(runs')
    BY <1>0 DEF AsksFit
  <1>2. CASE playing.next <= playing.run.steps
    <2> DEFINE n == playing.next + 1
    <2>1. /\ screen' = Drawn(screen, playing.run, playing.next)
          /\ bill' = [run |-> playing.run.id, upTo |-> playing.next]
          /\ playing' = [playing EXCEPT !.next = n]
          /\ UNCHANGED <<shown, answer, mode, label, goLive, loops>>
      BY <1>2 DEF PlaysOn, Bill
    <2>2. /\ ScreenTrue(Drawn(screen, playing.run, playing.next), runs) /\ Len(screen) \in Nat
          /\ Len(Drawn(screen, playing.run, playing.next))
               = IF playing.next > Len(screen) THEN playing.next ELSE Len(screen)
          /\ (\A k \in DOMAIN screen : screen[k].run = playing.run.id) =>
               \A k \in DOMAIN Drawn(screen, playing.run, playing.next) :
                   Drawn(screen, playing.run, playing.next)[k].run = playing.run.id
      BY <1>0, <1>2, DrawnTrue DEF RunsFit, Faces
    <2>3. n \in Nat /\ n > 0 /\ n - 1 = playing.next
      BY <1>0
    <2> HIDE DEF n
    <2>4. playing' \in [run : Shots, next : Nat] /\ playing'.run = playing.run /\ playing'.next = n
      BY <1>0, <2>1, <2>3 DEF Faces
    <2>5. Faces'
      BY <1>0, <2>1, <2>2, <2>4 DEF Faces
    <2>6. Steady'
      <3> SUFFICES ASSUME ~overtaken PROVE Steady'
        BY <1>0 DEF Steady
      <3>1. playing.run = shown /\ Len(screen) = playing.next - 1 /\ \A k \in DOMAIN screen : screen[k].run = shown.id
        BY <1>0 DEF Steady
      <3>2. Len(screen') = playing.next
        BY <1>0, <2>1, <2>2, <3>1
      <3>3. answer = NoRun /\ label.run = shown.id /\ shown.status # "running"
        BY <1>0 DEF Steady, Faces
      <3>4. Len(screen') = playing'.next - 1
        BY <2>3, <2>4, <3>2
      <3> QED BY <1>0, <2>1, <2>2, <2>4, <3>1, <3>2, <3>3, <3>4 DEF Steady
    <2>7. LoopsFit' /\ Looking'
      BY <1>0, <2>1 DEF LoopsFit, Looking
    <2> QED BY <1>1, <2>5, <2>6, <2>7 DEF ConInv
  <1>3. CASE ~(playing.next <= playing.run.steps)
    <2>1. Done(playing.run)
      BY <1>3 DEF PlaysOn
    <2>2. overtaken' \/ playing.run.status # "running"
      BY <1>0 DEF Steady
    <2>3. Faces' /\ Steady' /\ UNCHANGED loops
      BY <1>0, <2>1, <2>2, RunDoneFits
    <2>4. LoopsFit' /\ Looking'
      BY <1>0, <2>3 DEF LoopsFit, Looking
    <2> QED BY <1>1, <2>3, <2>4 DEF ConInv
  <1> QED BY <1>2, <1>3

\* A loop asks, or is answered, and the page stays as it is.
LEMMA LoopGoesOn ==
    ASSUME ConInv, NEW l \in DOMAIN loops, LoopAsks(l) \/ LoopIsRead(l)
    PROVE  ConInv'
  <1>0. /\ RunsFit(runs) /\ Faces /\ Steady /\ LoopsFit /\ AsksFit /\ Looking
        /\ UNCHANGED <<runs, shown, screen, bill, answer, mode, label, playing, picked, idleTimer, heard, asking,
                       started, overtaken>>
    BY DEF ConInv, LoopAsks, LoopIsRead, face
  <1>1. RunsFit(runs') /\ Faces' /\ Steady' /\ AsksFit'
    BY <1>0 DEF Faces, Steady, AsksFit
  <1>2. /\ loops[l].run \in 1..LastRun /\ runs[loops[l].run].status # "none"
        /\ TrueOf(Nothing, runs) /\ Nothing \in Shots
    <2>1. loops[l] \in LoopRecords /\ LoopTrue(loops[l], runs)
      BY <1>0 DEF LoopsFit
    <2> QED BY <1>0, <2>1, ReadIsTrue DEF LoopRecords, LoopTrue, TrueOf
  <1>3. TrueOf(Read(loops[l].run), runs) /\ Read(loops[l].run).id = loops[l].run
    BY <1>0, <1>2, ReadIsTrue DEF Begun
  <1>4. PICK pc \in {"waiting", "asking", "read", "ended"}, got \in {Nothing, Read(loops[l].run)} :
             /\ Loop(l, pc, got)
             /\ pc = "read" => got.id = loops[l].run
             /\ pc = "ended" => loops[l].pc # "read" /\ ~StillOn(l)
    <2>1. CASE LoopAsks(l)
      <3>1. loops[l].pc # "read"
        BY <2>1 DEF LoopAsks
      <3>2. CASE StillOn(l)
        BY <2>1, <3>2 DEF LoopAsks
      <3>3. CASE ~StillOn(l)
        BY <2>1, <3>1, <3>3 DEF LoopAsks
      <3> QED BY <3>2, <3>3
    <2>2. CASE LoopIsRead(l)
      <3>1. loops[l].pc # "read"
        BY <2>2 DEF LoopIsRead
      <3>2. CASE Loop(l, "read", Read(loops[l].run))
        BY <1>3, <3>2
      <3>3. CASE Loop(l, IF StillOn(l) THEN "waiting" ELSE "ended", Nothing)
        <4>1. CASE StillOn(l)
          BY <3>3, <4>1
        <4>2. CASE ~StillOn(l)
          BY <3>1, <3>3, <4>2
        <4> QED BY <4>1, <4>2
      <3> QED BY <2>2, <3>2, <3>3 DEF LoopIsRead
    <2> QED BY <2>1, <2>2
  <1>5. TrueOf(got, runs)
    BY <1>2, <1>3
  <1>6. LoopsFit'
    BY <1>0, <1>4, <1>5, LoopMovesFits
  <1>7. Looking'
    <2> SUFFICES ASSUME started = "yes", ~picked, ~idleTimer, heard = {}
                 PROVE  mode = "live" /\ \E j \in DOMAIN loops' : loops'[j].pc = "read" \/ loops'[j].run = shown.id
      BY <1>0 DEF Looking
    <2>1. PICK h \in DOMAIN loops : mode = "live" /\ (loops[h].pc = "read" \/ loops[h].run = shown.id)
      BY <1>0 DEF Looking
    <2>2. CASE h # l
      <3>1. \E j \in DOMAIN loops' : loops'[j] = loops[h]
        BY <1>0, <1>4, <1>5, <2>2, LoopMoves DEF TrueOf
      <3> QED BY <2>1, <3>1
    <2>3. CASE h = l
      <3>1. pc # "ended" /\ loops[l].run = shown.id
        <4>1. loops[l].pc # "read"
          BY DEF LoopAsks, LoopIsRead
        <4> QED BY <1>4, <2>1, <2>3, <4>1 DEF StillOn
      <3>2. \E j \in DOMAIN loops' : loops'[j] = [run |-> loops[l].run, pc |-> pc, got |-> got]
        BY <1>0, <1>4, <1>5, <3>1, LoopMoves DEF TrueOf
      <3> QED BY <2>1, <3>1, <3>2
    <2> QED BY <2>2, <2>3
  <1> QED BY <1>1, <1>6, <1>7 DEF ConInv

\* A loop's answer is shown.
LEMMA LoopShowsFits == ASSUME ConInv, NEW l \in DOMAIN loops, LoopShows(l) PROVE ConInv'
  <1> DEFINE next == loops[l].got
  <1>0. /\ RunsFit(runs) /\ Faces /\ Steady /\ LoopsFit /\ AsksFit /\ Looking
        /\ UNCHANGED <<runs, picked, heard, asking, started>>
        /\ loops[l].pc = "read" /\ overtaken' = (overtaken \/ ~StillOn(l))
        /\ shown' = next /\ screen' = Drawn(screen, next, next.steps)
        /\ bill' = [run |-> next.id, upTo |-> Len(screen')]
    BY DEF ConInv, LoopShows, Bill
  <1>1. loops[l] \in LoopRecords /\ LoopTrue(loops[l], runs)
    BY <1>0 DEF LoopsFit
  <1>2. /\ next \in Shots /\ TrueOf(next, runs) /\ next.id = loops[l].run /\ next.id \in 1..LastRun
        /\ next.id # NoRun /\ next.steps \in Nat /\ next.steps <= next.steps
        /\ TrueOf(Nothing, runs) /\ Nothing \in Shots
    <2>1. next \in Shots /\ TrueOf(next, runs) /\ next.id = loops[l].run
      BY <1>0, <1>1 DEF LoopTrue, TrueOf
    <2>2. loops[l].run \in 1..LastRun
      BY <1>1 DEF LoopRecords
    <2>3. next.steps \in Nat
      BY <2>1 DEF Shots
    <2> HIDE DEF next
    <2> QED BY <1>0, <2>1, <2>2, <2>3, ReadIsTrue, ConsoleAssumption DEF TrueOf, NoRun
  <1> HIDE DEF next
  <1>3. /\ ScreenTrue(Drawn(screen, next, next.steps), runs) /\ Len(screen) \in Nat
        /\ Len(Drawn(screen, next, next.steps)) = IF next.steps > Len(screen) THEN next.steps ELSE Len(screen)
        /\ (\A k \in DOMAIN screen : screen[k].run = next.id) =>
             \A k \in DOMAIN Drawn(screen, next, next.steps) : Drawn(screen, next, next.steps)[k].run = next.id
    BY <1>0, <1>2, DrawnTrue DEF RunsFit, Faces
  <1>4. AsksFit' /\ RunsFit(runs')
    BY <1>0 DEF AsksFit
  \* Not overtaken: it is the answer for the run on the page.
  <1>5. ASSUME ~overtaken'
        PROVE  /\ ~overtaken /\ mode = "live" /\ shown.id = next.id /\ answer = NoRun
               /\ \A k \in DOMAIN screen' : screen'[k].run = next.id
               /\ label.run = next.id /\ playing.next = 0
    <2>1. ~overtaken /\ mode = "live" /\ shown.id = next.id
      BY <1>0, <1>2, <1>5 DEF StillOn
    <2>2. \A k \in DOMAIN screen' : screen'[k].run = next.id
      BY <1>0, <1>3, <2>1 DEF Steady
    <2>3. playing.next = 0
      BY <1>0, <2>1 DEF Faces
    <2> QED BY <1>0, <2>1, <2>2, <2>3 DEF Steady, Faces
  <1>6. CASE next.status = "running"
    <2>1. /\ Loop(l, IF mode = "live" THEN "waiting" ELSE "ended", Nothing)
          /\ UNCHANGED <<mode, label, answer, playing, idleTimer>>
      BY <1>6 DEF LoopShows, next
    <2>2. Faces'
      BY <1>0, <1>2, <1>3, <2>1 DEF Faces
    <2>3. Steady'
      BY <1>0, <1>5, <1>6, <2>1 DEF Steady
    <2>4. PICK pc \in {"waiting", "ended"} : Loop(l, pc, Nothing) /\ (mode = "live" => pc = "waiting")
      BY <2>1
    <2>5. LoopsFit'
      BY <1>0, <1>2, <2>4, LoopMovesFits
    <2>6. Looking'
      <3> SUFFICES ASSUME started = "yes", ~picked, ~idleTimer, heard = {}
                   PROVE  mode = "live" /\ \E j \in DOMAIN loops' : loops'[j].run = next.id
        BY <1>0, <2>1 DEF Looking
      <3>1. mode = "live"
        BY <1>0 DEF Looking
      <3>2. \E j \in DOMAIN loops' : loops'[j] = [run |-> loops[l].run, pc |-> pc, got |-> Nothing]
        BY <1>0, <1>2, <2>4, <3>1, LoopMoves
      <3> QED BY <1>2, <3>1, <3>2
    <2> QED BY <1>4, <2>2, <2>3, <2>5, <2>6 DEF ConInv
  <1>7. CASE next.status # "running"
    <2>1. /\ Loop(l, "ended", Nothing)
          /\ mode' = "done" /\ label' = [kind |-> "done", run |-> next.id] /\ answer' = next.id
          /\ playing' = NotPlaying /\ idleTimer' = TRUE
      BY <1>7 DEF LoopShows, next, State
    <2>2. playing' \in [run : Shots, next : Nat] /\ playing'.run = Nothing /\ playing'.next = 0
      BY <1>2, <2>1 DEF NotPlaying
    <2>3. Faces'
      BY <1>0, <1>2, <1>3, <2>1, <2>2 DEF Faces
    <2>4. Steady'
      <3> SUFFICES ASSUME ~overtaken' PROVE Steady'
        BY DEF Steady
      <3>1. next.status = "over" /\ runs[next.id].status = "over" /\ next.steps = runs[next.id].steps
        BY <1>2, <1>7 DEF TrueOf, Shots
      <3>2. Len(screen) <= next.steps
        <4>1. CASE Len(screen) = 0
          BY <1>2, <4>1
        <4>2. CASE Len(screen) # 0
          <5>1. Len(screen) \in DOMAIN screen
            BY <1>0, <1>3, <4>2 DEF Faces, ScreenTrue
          <5>2. Len(screen) <= runs[screen[Len(screen)].run].steps /\ screen[Len(screen)].run = next.id
            BY <1>0, <1>5, <5>1 DEF Faces, ScreenTrue, Steady
          <5> QED BY <3>1, <5>2
        <4> QED BY <4>1, <4>2
      <3>3. Len(screen') = next.steps
        BY <1>0, <1>2, <1>3, <3>2
      <3> QED BY <1>0, <1>5, <1>7, <2>1, <2>2, <3>1, <3>3 DEF Steady
    <2>5. LoopsFit'
      <3>1. "ended" \in {"waiting", "asking", "read", "ended"} /\ ("ended" = "read" => Nothing.id = loops[l].run)
        OBVIOUS
      <3> QED BY <1>0, <1>2, <2>1, <3>1, LoopMovesFits
    <2>6. Looking'
      BY <2>1 DEF Looking
    <2> QED BY <1>4, <2>3, <2>4, <2>5, <2>6 DEF ConInv
  <1> QED BY <1>6, <1>7

\* The look for a new run, and its answer.
LEMMA IdleLooks == ASSUME ConInv, IdleReads \/ \E latest \in heard : IdleSees(latest) PROVE ConInv'
  <1>0. /\ RunsFit(runs) /\ Faces /\ Steady /\ LoopsFit /\ AsksFit /\ Looking
        /\ UNCHANGED <<runs, picked, asking, started, overtaken>>
        /\ TrueOf(Latest, runs) /\ TrueOf(Nothing, runs)
    BY ReadIsTrue DEF ConInv, IdleReads, IdleSees
  <1>1. CASE IdleReads
    <2>1. UNCHANGED <<shown, screen, bill, answer, mode, label, playing, loops>>
      BY <1>1 DEF IdleReads, face
    <2>2. PICK s \in {Latest, Nothing} : heard' = heard \cup {s}
      BY <1>1 DEF IdleReads
    <2>3. AsksFit' /\ Looking'
      BY <1>0, <2>2 DEF AsksFit, Looking
    <2>4. Faces' /\ Steady' /\ LoopsFit'
      BY <1>0, <2>1 DEF Faces, Steady, LoopsFit
    <2> QED BY <1>0, <2>3, <2>4 DEF ConInv
  <1>2. ASSUME NEW latest \in heard, IdleSees(latest) PROVE ConInv'
    <2>1. TrueOf(latest, runs) /\ heard' = heard \ {latest}
      BY <1>0, <1>2 DEF AsksFit, IdleSees
    <2>2. AsksFit'
      BY <1>0, <2>1 DEF AsksFit
    <2>3. CASE latest.status = "running" /\ latest.id # shown.id /\ ~picked
      <3>1. GoesLive(latest)
        BY <1>2, <2>3 DEF IdleSees
      <3>2. Faces' /\ Steady' /\ LoopsFit' /\ mode' = "live" /\ \E l \in DOMAIN loops' : loops'[l].run = shown'.id
        BY <1>0, <2>1, <2>3, <3>1, LiveFits
      <3> QED BY <1>0, <2>2, <3>2 DEF ConInv, Looking
    <2>4. CASE ~(latest.status = "running" /\ latest.id # shown.id /\ ~picked)
      <3>1. UNCHANGED <<shown, screen, bill, answer, mode, label, playing, loops>> /\ idleTimer' = TRUE
        BY <1>2, <2>4 DEF IdleSees
      <3>2. Faces' /\ Steady' /\ LoopsFit' /\ Looking'
        BY <1>0, <3>1 DEF Faces, Steady, LoopsFit, Looking
      <3> QED BY <1>0, <2>2, <3>2 DEF ConInv
    <2> QED BY <2>3, <2>4
  <1> QED BY <1>1, <1>2

\* The visitor asks for a run, and gets it.
LEMMA VisitorAsks ==
    ASSUME ConInv,
           ClickAnswered \/ \E r \in 0..LastRun : Clicks("pick", r) \/ Clicks("latest", r)
    PROVE  ConInv'
  <1>0. /\ RunsFit(runs) /\ Faces /\ Steady /\ LoopsFit /\ AsksFit /\ Looking
        /\ UNCHANGED <<runs, idleTimer, heard, started, overtaken>>
        /\ TrueOf(Latest, runs)
    BY ReadIsTrue DEF ConInv, ClickAnswered, Clicks
  <1>1. ASSUME NEW r \in 0..LastRun, NEW what \in {"pick", "latest"}, Clicks(what, r) PROVE ConInv'
    <2>1. /\ UNCHANGED <<shown, screen, bill, answer, mode, label, playing, loops, picked>>
          /\ asking' = [what |-> what, run |-> r]
          /\ what = "pick" => r \in Begun
      BY <1>1 DEF Clicks, face
    <2>2. AsksFit'
      <3>1. r \in Begun => r # NoRun /\ runs[r].status # "none"
        BY ConsoleAssumption DEF Begun, NoRun
      <3> QED BY <1>0, <2>1, <3>1 DEF AsksFit
    <2>3. Faces' /\ Steady' /\ LoopsFit' /\ Looking'
      BY <1>0, <2>1 DEF Faces, Steady, LoopsFit, Looking
    <2> QED BY <1>0, <2>2, <2>3 DEF ConInv
  <1>2. CASE ClickAnswered
    <2>1. AsksFit'
      <3>1. asking' = [what |-> "nothing", run |-> NoRun]
        BY <1>2 DEF ClickAnswered
      <3> QED BY <1>0, <3>1, ConsoleAssumption DEF AsksFit, NoRun
    <2>2. CASE asking.what = "pick" /\ picked' = TRUE /\ ShownAsIs(Read(asking.run))
      <3>1. asking.run \in Begun
        BY <1>0, <2>2, ConsoleAssumption DEF AsksFit, Begun, NoRun
      <3>2. TrueOf(Read(asking.run), runs)
        BY <1>0, <3>1, ReadIsTrue
      <3>3. Faces' /\ Steady' /\ LoopsFit'
        BY <1>0, <2>2, <3>2, ShownFits
      <3> QED BY <1>0, <2>1, <2>2, <3>3 DEF ConInv, Looking
    <2>3. CASE Latest.status = "running" /\ GoesLive(Latest)
      <3>1. Faces' /\ Steady' /\ LoopsFit' /\ mode' = "live" /\ \E l \in DOMAIN loops' : loops'[l].run = shown'.id
        BY <1>0, <2>3, LiveFits
      <3> QED BY <1>0, <2>1, <3>1 DEF ConInv, Looking
    <2>4. CASE UNCHANGED <<face, picked, loops>>
      <3>1. Faces' /\ Steady' /\ LoopsFit' /\ Looking'
        BY <1>0, <2>4 DEF face, Faces, Steady, LoopsFit, Looking
      <3> QED BY <1>0, <2>1, <3>1 DEF ConInv
    <2> QED BY <1>2, <2>2, <2>3, <2>4 DEF ClickAnswered
  <1> QED BY <1>1, <1>2

\* A run that is over is replayed, or shown as it ended.
LEMMA ShownAgain == ASSUME ConInv, ClicksReplay \/ ClicksSkip \/ LogosCome PROVE ConInv'
  <1>0. /\ RunsFit(runs) /\ Faces /\ Steady /\ LoopsFit /\ AsksFit /\ Looking
        /\ UNCHANGED <<runs, picked, idleTimer, heard, asking, started, overtaken>>
        /\ TrueOf(shown, runs)
    BY DEF ConInv, ClicksReplay, ClicksSkip, LogosCome, Faces
  <1>1. mode \in {"done", "replay"}
    BY <1>0 DEF ClicksReplay, ClicksSkip, LogosCome, Faces
  <1>2. overtaken' \/ shown.status # "running"
    BY <1>0, <1>1 DEF Steady
  <1>3. Replays(shown) \/ Done(shown)
    BY DEF ClicksReplay, ClicksSkip, LogosCome
  <1>4. Faces' /\ Steady' /\ UNCHANGED loops
    BY <1>0, <1>2, <1>3, ReplaysFits, RunDoneFits
  <1>5. LoopsFit' /\ AsksFit' /\ Looking'
    BY <1>0, <1>1, <1>4 DEF LoopsFit, AsksFit, Looking
  <1> QED BY <1>0, <1>4, <1>5 DEF ConInv

LEMMA StartFits == ASSUME ConInv, NEW asked, Starts(asked) PROVE ConInv'
  <1> DEFINE run == IF asked # NoRun THEN Read(asked) ELSE Latest
  <1>0. /\ RunsFit(runs) /\ Faces /\ Steady /\ LoopsFit /\ AsksFit
        /\ UNCHANGED <<runs, heard, asking, overtaken>> /\ asked \in Begun \cup {NoRun}
        /\ TrueOf(Latest, runs)
    BY ReadIsTrue DEF ConInv, Starts
  <1>1. TrueOf(run, runs)
    <2>1. asked # NoRun => TrueOf(Read(asked), runs)
      BY <1>0, ReadIsTrue
    <2> QED BY <1>0, <2>1
  <1>2. AsksFit'
    BY <1>0 DEF AsksFit
  <1>3. CASE UNCHANGED <<face, loops>> /\ (started' = "down" \/ idleTimer' = TRUE)
    <2>1. started' = "down" \/ idleTimer' = TRUE
      BY <1>3
    <2>2. Faces' /\ Steady' /\ LoopsFit'
      BY <1>0, <1>3 DEF face, Faces, Steady, LoopsFit
    <2>3. Looking'
      BY <2>1 DEF Looking
    <2> QED BY <1>0, <1>2, <2>2, <2>3 DEF ConInv
  <1>4. CASE ShownAsIs(run) /\ idleTimer' = (run.status # "running")
    <2> HIDE DEF run
    <2>1. /\ Faces' /\ Steady' /\ LoopsFit'
          /\ run.status = "running" => mode' = "live" /\ \E l \in DOMAIN loops' : loops'[l].run = shown'.id
      BY <1>0, <1>1, <1>4, ShownFits
    <2>2. Looking'
      BY <1>4, <2>1 DEF Looking
    <2> QED BY <1>0, <1>2, <2>1, <2>2 DEF ConInv
  <1> QED BY <1>3, <1>4 DEF Starts

LEMMA ConsoleStarts == ConsoleInit => ConInv
  <1> SUFFICES ASSUME ConsoleInit PROVE ConInv
    OBVIOUS
  <1> DEFINE none == [status |-> "none", steps |-> 0]
  <1>1. /\ runs = [r \in 1..LastRun |-> none] /\ none \in RunRecords
        /\ shown = Nothing /\ screen = <<>> /\ bill = [run |-> NoRun, upTo |-> 0] /\ answer = NoRun
        /\ mode = "empty" /\ label = [kind |-> "loading", run |-> NoRun]
        /\ loops = <<>> /\ playing = [run |-> Nothing, next |-> 0]
        /\ heard = {} /\ asking = [what |-> "nothing", run |-> NoRun] /\ started = "no"
    BY DEF ConsoleInit, RunRecords
  <1>2. RunsFit(runs)
    <2>1. {r \in 1..LastRun : runs[r].status # "none"} = 1..0 /\ 0 \in 0..LastRun
      BY <1>1, ConsoleAssumption
    <2>2. \A r \in 1..LastRun : runs[r] = none
      BY <1>1
    <2> QED BY <1>1, <2>1, <2>2 DEF RunsFit
  <1>3. TrueOf(Nothing, runs) /\ Nothing \in Shots /\ Nothing.id = NoRun
    BY <1>2, ReadIsTrue DEF TrueOf, Nothing
  <1>4. ScreenTrue(<<>>, runs) /\ Len(<<>>) = 0 /\ DOMAIN <<>> = {}
    BY NothingDrawn
  <1>5. Faces
    BY <1>1, <1>3, <1>4 DEF Faces
  <1>6. Steady
    BY <1>1, <1>3, <1>4 DEF Steady
  <1>7. LoopsFit /\ AsksFit /\ Looking
    BY <1>1, <1>4, ConsoleAssumption DEF LoopsFit, AsksFit, Looking, NoRun
  <1> QED BY <1>2, <1>5, <1>6, <1>7 DEF ConInv

LEMMA ConsoleKeeps == ConInv /\ [ConsoleNext]_consoleVars => ConInv'
  <1> SUFFICES ASSUME ConInv, [ConsoleNext]_consoleVars PROVE ConInv'
    OBVIOUS
  <1>1. CASE ConsoleNext
    BY <1>1, RunsGoOn, PlayGoesOn, LoopGoesOn, LoopShowsFits, IdleLooks, VisitorAsks, ShownAgain, StartFits
    DEF ConsoleNext
  <1>2. CASE UNCHANGED consoleVars
    <2>1. UNCHANGED <<runs, shown, screen, bill, answer, mode, label, playing, picked, loops, idleTimer, heard, asking,
                      started, overtaken>>
      BY <1>2 DEF consoleVars
    <2> QED BY <2>1 DEF ConInv, Faces, Steady, LoopsFit, AsksFit, Looking
  <1> QED BY <1>1, <1>2

\* Whenever answers come, whatever the visitor clicks and however many loops go
\* on: each step on the page was recorded, in its place; all of them, the bill
\* and the answer are of the run the page names, until a loop's answer comes
\* after the page moved on; and somebody looks for the next run.
THEOREM PageShowsTheRun == ConsoleSpec => []ConsoleHonest
  <1>1. ConInv => ConsoleHonest
    <2> SUFFICES ASSUME ConInv PROVE ConsoleHonest
      OBVIOUS
    <2>1. ScreenIsTheRun
      BY DEF ConInv, Faces, Steady, ScreenTrue, ScreenIsTheRun
    <2>2. SomebodyLooks
      BY DEF ConInv, Looking, SomebodyLooks, StillOn
    <2> QED BY <2>1, <2>2 DEF ConsoleHonest
  <1> QED BY <1>1, ConsoleStarts, ConsoleKeeps, PTL DEF ConsoleSpec

\* A run has no more steps than it may; loops, clicks and unanswered requests
\* stay within their bounds.
PageRest ==
    /\ \A r \in 1..LastRun : runs[r].steps <= RunSteps
    /\ calm \in Reduced /\ picked \in BOOLEAN /\ goLive \in BOOLEAN /\ idleTimer \in BOOLEAN
    /\ Len(loops) <= MaxLoops /\ started \in {"no", "yes", "down"}
    /\ visits \in 0..MaxVisits /\ silences \in 0..MaxSilences

\* What drawing a run does to the page's offer and to its loops.
LEMMA DrawingRest ==
    ASSUME ConInv, PageRest, NEW run, GoesLive(run) \/ Done(run) \/ Replays(run) \/ ShownAsIs(run)
    PROVE  goLive' = FALSE /\ Len(loops') <= MaxLoops
<1>1. MaxLoops \in Nat /\ loops \in Seq(LoopRecords) /\ Len(loops) \in Nat
  BY ConsoleAssumption DEF ConInv, LoopsFit
<1>2. GoesLive(run) => goLive' = FALSE /\ Len(loops') <= MaxLoops
  BY <1>1 DEF GoesLive, Framed
<1>3. Done(run) => goLive' = FALSE /\ loops' = loops
  BY DEF Done, Framed
<1>4. Replays(run) => goLive' = FALSE /\ loops' = loops
  BY <1>3 DEF Replays
<1> QED BY <1>2, <1>3, <1>4 DEF ShownAsIs, PageRest

LEMMA PageRestSteps == ConInv /\ PageRest /\ [ConsoleNext]_consoleVars => PageRest'
<1> SUFFICES ASSUME ConInv, PageRest, [ConsoleNext]_consoleVars PROVE PageRest'
  OBVIOUS
<1>1. /\ MaxLoops \in Nat /\ MaxVisits \in Nat /\ MaxSilences \in Nat /\ RunSteps \in Nat /\ LastRun \in Nat
      /\ loops \in Seq(LoopRecords) /\ Len(loops) \in Nat
      /\ runs \in [1..LastRun -> RunRecords]
  BY ConsoleAssumption DEF ConInv, LoopsFit, RunsFit
<1>2. Silence => silences' \in 0..MaxSilences
  BY <1>1 DEF Silence, PageRest
<1>3. Visit => visits' \in 0..MaxVisits
  BY <1>1 DEF Visit, PageRest
<1>4. CASE UNCHANGED consoleVars
  BY <1>4 DEF consoleVars, PageRest
<1>5. CASE RunBegins
  <2>1. PICK x \in Nat, r0 \in Nat : runs' = [runs EXCEPT ![r0] = [status |-> "running", steps |-> 0]]
    <3>1. Cardinality(Begun) + 1 \in Nat
      <4> DEFINE one == 1
      <4>1. IsFiniteSet(one..LastRun)
        <5>1. one \in Int /\ LastRun \in Int
          BY <1>1
        <5> HIDE DEF one
        <5> QED BY <5>1, FS_Interval
      <4>2. IsFiniteSet(1..LastRun) /\ Begun \subseteq 1..LastRun
        BY <4>1 DEF Begun
      <4>3. IsFiniteSet(Begun)
        BY <4>2, FS_Subset
      <4>4. Cardinality(Begun) \in Nat
        BY <4>3, FS_CardinalityType
      <4> QED BY <4>4
    <3> QED BY <1>5, <3>1 DEF RunBegins
  <2>2. \A r \in 1..LastRun : runs'[r].steps <= RunSteps
    BY <1>1, <2>1 DEF PageRest
  <2>3. UNCHANGED <<calm, picked, goLive, idleTimer, loops, started, visits, silences>>
    BY <1>5 DEF RunBegins, face
  <2> QED BY <2>2, <2>3 DEF PageRest
<1>6. ASSUME NEW r \in 1..LastRun, RunSteps1(r) PROVE PageRest'
  <2>1. \A o \in 1..LastRun : runs'[o].steps <= RunSteps
    <3>1. CASE runs[r].steps < RunSteps /\ runs' = [runs EXCEPT ![r].steps = @ + 1]
      BY <1>1, <3>1 DEF PageRest, RunRecords
    <3>2. CASE runs' = [runs EXCEPT ![r].status = "over"]
      BY <1>1, <3>2 DEF PageRest, RunRecords
    <3> QED BY <1>6, <3>1, <3>2 DEF RunSteps1
  <2>2. UNCHANGED <<calm, picked, goLive, idleTimer, loops, started, visits, silences>>
    BY <1>6 DEF RunSteps1, face
  <2> QED BY <2>1, <2>2 DEF PageRest
<1>7. CASE PlaysOn
  <2>1. goLive' \in BOOLEAN /\ Len(loops') <= MaxLoops
    <3>1. CASE Done(playing.run)
      BY <3>1, DrawingRest
    <3>2. CASE goLive' = goLive /\ loops' = loops
      BY <3>2 DEF PageRest
    <3> QED BY <1>7, <3>1, <3>2 DEF PlaysOn
  <2>2. UNCHANGED <<runs, calm, picked, idleTimer, started, visits, silences>>
    BY <1>7 DEF PlaysOn
  <2> QED BY <2>1, <2>2 DEF PageRest
<1>8. CASE IdleReads
  <2>1. /\ idleTimer' = FALSE /\ (silences' = silences \/ Silence)
        /\ runs' = runs /\ calm' = calm /\ picked' = picked /\ goLive' = goLive /\ loops' = loops
        /\ started' = started /\ visits' = visits
    BY <1>8 DEF IdleReads, face
  <2> QED BY <1>2, <2>1 DEF PageRest
<1>9. ASSUME NEW s \in heard, IdleSees(s) PROVE PageRest'
  <2>1. /\ goLive' \in BOOLEAN /\ Len(loops') <= MaxLoops /\ idleTimer' \in BOOLEAN
    <3>1. CASE GoesLive(s) /\ UNCHANGED idleTimer
      BY <3>1, DrawingRest DEF PageRest
    <3>2. CASE /\ goLive' = (goLive \/ (s.status = "running" /\ s.id # shown.id)) /\ idleTimer' = TRUE
               /\ UNCHANGED loops
      BY <3>2 DEF PageRest
    <3> QED BY <1>9, <3>1, <3>2 DEF IdleSees
  <2>2. UNCHANGED <<runs, calm, picked, started, visits, silences>>
    BY <1>9 DEF IdleSees
  <2> QED BY <2>1, <2>2 DEF PageRest
<1>10. ASSUME NEW l \in DOMAIN loops, LoopAsks(l) \/ LoopIsRead(l) \/ LoopShows(l) PROVE PageRest'
  <2>1. /\ \E pc, got : Loop(l, pc, got)
        /\ silences' = silences \/ Silence
        /\ idleTimer' = idleTimer \/ idleTimer' = TRUE
        /\ UNCHANGED <<runs, calm, picked, goLive, started, visits>>
    BY <1>10 DEF LoopAsks, LoopIsRead, LoopShows, face
  <2>2. Len(loops') <= Len(loops)
    <3>1. PICK pc, got : loops' = IF pc = "ended" THEN RemoveAt(loops, l)
                                  ELSE [loops EXCEPT ![l].pc = pc, ![l].got = got]
      BY <2>1 DEF Loop
    <3>2. CASE pc = "ended"
      BY <1>1, <3>1, <3>2, WithoutOne
    <3>3. CASE pc # "ended"
      BY <1>1, <3>1, <3>3
    <3> QED BY <3>2, <3>3
  <2>3. Len(loops') <= MaxLoops
    <3>1. Len(loops') \in Nat
      <4>1. LoopsFit'
        BY <1>10, LoopGoesOn, LoopShowsFits DEF ConInv
      <4> QED BY <4>1 DEF LoopsFit
    <3> QED BY <1>1, <2>2, <3>1 DEF PageRest
  <2> QED BY <1>2, <2>1, <2>3 DEF PageRest
<1>11. ASSUME NEW what, NEW r, Clicks(what, r) PROVE PageRest'
  <2>1. Visit /\ UNCHANGED <<runs, calm, picked, goLive, idleTimer, loops, started, silences>>
    BY <1>11 DEF Clicks, face
  <2> QED BY <1>3, <2>1 DEF PageRest
<1>12. CASE ClickAnswered
  <2>1. /\ goLive' \in BOOLEAN /\ Len(loops') <= MaxLoops /\ picked' \in BOOLEAN
        /\ silences' = silences \/ Silence
    <3>1. CASE picked' = TRUE /\ ShownAsIs(Read(asking.run)) /\ UNCHANGED silences
      BY <3>1, DrawingRest
    <3>2. CASE picked' = FALSE /\ GoesLive(Latest) /\ UNCHANGED silences
      BY <3>2, DrawingRest
    <3>3. CASE UNCHANGED <<face, picked, loops>> /\ (silences' = silences \/ Silence)
      BY <3>3 DEF face, PageRest
    <3> QED BY <1>12, <3>1, <3>2, <3>3 DEF ClickAnswered
  <2>2. UNCHANGED <<runs, calm, idleTimer, started, visits>>
    BY <1>12 DEF ClickAnswered
  <2> QED BY <1>2, <2>1, <2>2 DEF PageRest
<1>13. CASE ClicksReplay \/ ClicksSkip \/ LogosCome
  <2>1. goLive' = FALSE /\ Len(loops') <= MaxLoops
    BY <1>13, DrawingRest DEF ClicksReplay, ClicksSkip, LogosCome
  <2>2. /\ visits' = visits \/ Visit
        /\ UNCHANGED <<runs, calm, picked, idleTimer, started, silences>>
    BY <1>13 DEF ClicksReplay, ClicksSkip, LogosCome
  <2> QED BY <1>3, <2>1, <2>2 DEF PageRest
<1>14. ASSUME NEW asked, Starts(asked) PROVE PageRest'
  <2>1. /\ goLive' \in BOOLEAN /\ Len(loops') <= MaxLoops
    <3>1. (\E run : ShownAsIs(run)) \/ UNCHANGED <<face, loops>>
      BY <1>14 DEF Starts
    <3> QED BY <3>1, DrawingRest DEF face, PageRest
  <2>2. /\ picked' \in BOOLEAN /\ idleTimer' \in BOOLEAN /\ started' \in {"yes", "down"}
        /\ silences' = silences \/ Silence
        /\ UNCHANGED <<runs, calm, visits>>
    BY <1>14 DEF Starts, PageRest
  <2> QED BY <1>2, <2>1, <2>2 DEF PageRest
<1> QED BY <1>4, <1>5, <1>6, <1>7, <1>8, <1>9, <1>10, <1>11, <1>12, <1>13, <1>14 DEF ConsoleNext

LEMMA PageTyped == ConInv /\ PageRest => ConsoleTypeOK
<1> SUFFICES ASSUME ConInv, PageRest PROVE ConsoleTypeOK
  OBVIOUS
<1>1. /\ LastRun \in Nat /\ RunSteps \in Nat
      /\ runs \in [1..LastRun -> RunRecords] /\ \A r \in 1..LastRun : runs[r].steps <= RunSteps
  BY ConsoleAssumption DEF ConInv, RunsFit, PageRest
<1>2. ASSUME NEW s, TrueOf(s, runs) PROVE s \in Snapshot
  <2>1. s \in Shots /\ s.id \in 0..LastRun /\ s.steps \in Nat
    BY <1>2 DEF TrueOf, Shots
  <2>2. s.steps <= RunSteps
    <3>1. CASE s.id = NoRun
      BY <1>1, <1>2, <3>1 DEF TrueOf, Nothing
    <3>2. CASE s.id # NoRun
      <4>1. s.id \in 1..LastRun
        BY <1>1, <2>1, <3>2 DEF NoRun
      <4>2. s.steps <= runs[s.id].steps /\ runs[s.id].steps \in Nat
        BY <1>1, <1>2, <3>2, <4>1 DEF TrueOf, RunRecords
      <4> QED BY <1>1, <2>1, <4>1, <4>2
    <3> QED BY <3>1, <3>2
  <2> QED BY <1>1, <2>1, <2>2 DEF Shots, Snapshot
<1>3. shown \in Snapshot /\ heard \subseteq Snapshot
  BY <1>2 DEF ConInv, Faces, AsksFit
<1>4. Len(screen) <= RunSteps
  <2>1. screen \in Seq(StepsDrawn) /\ Len(screen) \in Nat
        /\ \A k \in DOMAIN screen : k <= runs[screen[k].run].steps
    BY DEF ConInv, Faces, ScreenTrue
  <2>2. CASE Len(screen) > 0
    <3>1. Len(screen) \in DOMAIN screen
      BY <2>1, <2>2
    <3> DEFINE r == screen[Len(screen)].run
    <3>2. r \in 1..LastRun
      <4>1. screen[Len(screen)] \in StepsDrawn
        BY <2>1, <3>1
      <4> QED BY <4>1 DEF StepsDrawn
    <3>3. Len(screen) <= runs[r].steps
      BY <2>1, <3>1
    <3> HIDE DEF r
    <3>4. runs[r].steps \in Nat /\ runs[r].steps <= RunSteps
      BY <1>1, <3>2 DEF RunRecords
    <3> QED BY <1>1, <2>1, <3>3, <3>4
  <2> QED BY <1>1, <2>1, <2>2
<1> QED BY <1>3, <1>4 DEF ConInv, Faces, PageRest, ConsoleTypeOK

LEMMA PageRestStarts == ConsoleInit => PageRest
<1> SUFFICES ASSUME ConsoleInit PROVE PageRest
  OBVIOUS
<1>1. /\ \A r \in 1..LastRun : runs[r].steps = 0
      /\ loops = <<>> /\ calm \in Reduced /\ picked = FALSE /\ goLive = FALSE /\ idleTimer = FALSE
      /\ started = "no" /\ visits = 0 /\ silences = 0
  BY DEF ConsoleInit
<1>2. /\ calm \in Reduced /\ picked \in BOOLEAN /\ goLive \in BOOLEAN /\ idleTimer \in BOOLEAN
      /\ started \in {"no", "yes", "down"}
  BY <1>1
<1>3. /\ \A r \in 1..LastRun : runs[r].steps <= RunSteps
      /\ Len(loops) <= MaxLoops /\ visits \in 0..MaxVisits /\ silences \in 0..MaxSilences
  BY <1>1, ConsoleAssumption
<1> QED BY <1>2, <1>3 DEF PageRest

\* What the page shows was of a run and no longer than one; its loops, its
\* timer and the visitor's clicks keep their types.
THEOREM PageTypeCorrect == ConsoleSpec => []ConsoleTypeOK
<1> QED BY PageRestStarts, ConsoleStarts, ConsoleKeeps, PageRestSteps, PageTyped, PTL DEF ConsoleSpec

-----------------------------------------------------------------------------
(***************************************************************************)
(* What is sold (Storefront).  The rails of a 402 and a rate follow from   *)
(* how a shop and its tickers are, whatever they are; an order fits where  *)
(* it is, whatever the others do.                                          *)
(***************************************************************************)

\* How a seller is configured, which no step changes.
ShopFits ==
    /\ shop.discovery \in {"none", "open", "cdp"} /\ shop.solana \in BOOLEAN
    /\ shop.openTakes \in {{"base"}, {"base", "solana"}}
    /\ shop.discovery # "open" => shop.openTakes = {"base"}
    /\ shop.tag \in PriceTags /\ shop.route \in ShopRoutes
    /\ shop.calls \subseteq ShopCalls

\* Short lists, joined.
LEMMA TwoJoined ==
    ASSUME NEW a, NEW b
    PROVE  <<a>> \o <<b>> = <<a, b>>
<1> DEFINE S == {a, b} s == <<a>> t == <<b>> u == <<a, b>>
<1>1. /\ s \in Seq(S) /\ t \in Seq(S) /\ u \in Seq(S)
      /\ Len(s) = 1 /\ Len(t) = 1 /\ Len(u) = 2
      /\ s[1] = a /\ t[1] = b /\ u[1] = a /\ u[2] = b
  OBVIOUS
<1> HIDE DEF S, s, t, u
<1>2. /\ s \o t \in Seq(S) /\ Len(s \o t) = Len(s) + Len(t)
      /\ \A i \in 1..(Len(s) + Len(t)) : (s \o t)[i] = IF i <= Len(s) THEN s[i] ELSE t[i - Len(s)]
  BY <1>1, ConcatProperties
<1>3. Len(s \o t) = 2 /\ \A i \in 1..2 : (s \o t)[i] = u[i]
  BY <1>1, <1>2
<1>4. s \o t = u
  BY <1>1, <1>2, <1>3, SeqEqual
<1> QED BY <1>4 DEF s, t, u

LEMMA Joined ==
    ASSUME NEW a, NEW b, NEW c
    PROVE  /\ <<>> \o <<>> \o <<c>> = <<c>>
           /\ <<a>> \o <<>> \o <<c>> = <<a, c>>
           /\ <<>> \o <<b>> \o <<c>> = <<b, c>>
           /\ <<a>> \o <<b>> \o <<c>> = <<a, b, c>>
<1> DEFINE S == {a, b, c}
<1>1. /\ <<>> \in Seq(S) /\ <<a>> \in Seq(S) /\ <<b>> \in Seq(S) /\ <<c>> \in Seq(S)
      /\ <<a, b>> \in Seq(S) /\ <<a, c>> \in Seq(S) /\ <<b, c>> \in Seq(S) /\ <<a, b, c>> \in Seq(S)
  OBVIOUS
<1> HIDE DEF S
<1>2. \A s \in Seq(S) : <<>> \o s = s /\ s \o <<>> = s
  BY ConcatEmptySeq
<1>3. \A s \in Seq(S), t \in Seq(S) :
         /\ s \o t \in Seq(S) /\ Len(s \o t) = Len(s) + Len(t)
         /\ \A i \in 1..(Len(s) + Len(t)) : (s \o t)[i] = IF i <= Len(s) THEN s[i] ELSE t[i - Len(s)]
  BY ConcatProperties
<1>4. \A s \in Seq(S), t \in Seq(S) :
         Len(s) = Len(t) /\ (\A i \in 1..Len(s) : s[i] = t[i]) => s = t
  BY SeqEqual
<1>5. <<a>> \o <<c>> = <<a, c>> /\ <<b>> \o <<c>> = <<b, c>> /\ <<a>> \o <<b>> = <<a, b>>
  BY TwoJoined
<1>6. <<a, b>> \o <<c>> = <<a, b, c>>
  <2>1. Len(<<a, b>>) = 2 /\ Len(<<c>>) = 1 /\ Len(<<a, b, c>>) = 3
    OBVIOUS
  <2> DEFINE s == <<a, b>> t == <<c>> u == <<a, b, c>>
  <2>2. /\ s[1] = a /\ s[2] = b /\ t[1] = c /\ u[1] = a /\ u[2] = b /\ u[3] = c
    OBVIOUS
  <2>3. s \in Seq(S) /\ t \in Seq(S) /\ u \in Seq(S) /\ Len(s) = 2 /\ Len(t) = 1 /\ Len(u) = 3
    BY <1>1, <2>1
  <2> HIDE DEF s, t, u
  <2>4. Len(s \o t) = 3 /\ \A i \in 1..3 : (s \o t)[i] = u[i]
    BY <1>3, <2>2, <2>3
  <2>5. s \o t = u
    BY <1>3, <1>4, <2>3, <2>4
  <2> QED BY <2>5 DEF s, t, u
<1> QED BY <1>1, <1>2, <1>5, <1>6

\* The settler of a network is the first in the list that claims it.
LEMMA SettlerIs ==
    ASSUME NEW door, NEW n, NEW m \in Nat, DOMAIN FacilitatorsOf(door) = 1..m,
           NEW k \in 1..m, n \in ClaimsOf(FacilitatorsOf(door)[k]),
           \A j \in 1..m : j < k => n \notin ClaimsOf(FacilitatorsOf(door)[j])
    PROVE  SettlerOf(door, n) = FacilitatorsOf(door)[k]
<1> DEFINE inOrder == FacilitatorsOf(door)
           claim == {i \in DOMAIN inOrder : n \in ClaimsOf(inOrder[i])}
<1>1. k \in claim /\ \A j \in claim : k <= j /\ j \in 1..m
  OBVIOUS
<1>2. SettlerOf(door, n) = inOrder[CHOOSE i \in claim : \A j \in claim : i <= j]
  BY <1>1 DEF SettlerOf
<1> HIDE DEF claim
<1>3. \A i \in claim : (\A j \in claim : i <= j) => i = k
  BY <1>1
<1>4. (CHOOSE i \in claim : \A j \in claim : i <= j) = k
  BY <1>1, <1>3
<1> QED BY <1>2, <1>4

LEMMA SettlerOfOne ==
    ASSUME NEW door, NEW n, NEW x, FacilitatorsOf(door) = <<x>>, n \in ClaimsOf(x)
    PROVE  SettlerOf(door, n) = x
<1>1. DOMAIN FacilitatorsOf(door) = 1..1 /\ FacilitatorsOf(door)[1] = x
  OBVIOUS
<1>2. /\ 1 \in 1..1 /\ n \in ClaimsOf(FacilitatorsOf(door)[1])
      /\ \A j \in 1..1 : j < 1 => n \notin ClaimsOf(FacilitatorsOf(door)[j])
  BY <1>1
<1>3. SettlerOf(door, n) = FacilitatorsOf(door)[1]
  BY <1>1, <1>2, SettlerIs
<1> QED BY <1>1, <1>3

LEMMA SettlerOfTwo ==
    ASSUME NEW door, NEW n, NEW x, NEW y, FacilitatorsOf(door) = <<x, y>>,
           n \in ClaimsOf(x) \cup ClaimsOf(y)
    PROVE  SettlerOf(door, n) = IF n \in ClaimsOf(x) THEN x ELSE y
<1>1. /\ DOMAIN FacilitatorsOf(door) = 1..2
      /\ FacilitatorsOf(door)[1] = x /\ FacilitatorsOf(door)[2] = y
  OBVIOUS
<1>2. CASE n \in ClaimsOf(x)
  <2>1. /\ 1 \in 1..2 /\ n \in ClaimsOf(FacilitatorsOf(door)[1])
        /\ \A j \in 1..2 : j < 1 => n \notin ClaimsOf(FacilitatorsOf(door)[j])
    BY <1>1, <1>2
  <2>2. SettlerOf(door, n) = FacilitatorsOf(door)[1]
    BY <1>1, <2>1, SettlerIs
  <2> QED BY <1>1, <1>2, <2>2
<1>3. CASE n \notin ClaimsOf(x)
  <2>1. /\ 2 \in 1..2 /\ n \in ClaimsOf(FacilitatorsOf(door)[2])
        /\ \A j \in 1..2 : j < 2 => n \notin ClaimsOf(FacilitatorsOf(door)[j])
    BY <1>1, <1>3
  <2>2. SettlerOf(door, n) = FacilitatorsOf(door)[2]
    BY <1>1, <2>1, SettlerIs
  <2> QED BY <1>1, <1>3, <2>2
<1> QED BY <1>2, <1>3

LEMMA SettlerOfThree ==
    ASSUME NEW door, NEW n, NEW x, NEW y, NEW z, FacilitatorsOf(door) = <<x, y, z>>,
           n \in ClaimsOf(x) \cup ClaimsOf(y) \cup ClaimsOf(z)
    PROVE  SettlerOf(door, n) = IF n \in ClaimsOf(x) THEN x ELSE IF n \in ClaimsOf(y) THEN y ELSE z
<1>1. /\ DOMAIN FacilitatorsOf(door) = 1..3
      /\ FacilitatorsOf(door)[1] = x /\ FacilitatorsOf(door)[2] = y /\ FacilitatorsOf(door)[3] = z
  OBVIOUS
<1>2. CASE n \in ClaimsOf(x)
  <2>1. /\ 1 \in 1..3 /\ n \in ClaimsOf(FacilitatorsOf(door)[1])
        /\ \A j \in 1..3 : j < 1 => n \notin ClaimsOf(FacilitatorsOf(door)[j])
    BY <1>1, <1>2
  <2>2. SettlerOf(door, n) = FacilitatorsOf(door)[1]
    BY <1>1, <2>1, SettlerIs
  <2> QED BY <1>1, <1>2, <2>2
<1>3. CASE n \notin ClaimsOf(x) /\ n \in ClaimsOf(y)
  <2>1. /\ 2 \in 1..3 /\ n \in ClaimsOf(FacilitatorsOf(door)[2])
        /\ \A j \in 1..3 : j < 2 => n \notin ClaimsOf(FacilitatorsOf(door)[j])
    BY <1>1, <1>3
  <2>2. SettlerOf(door, n) = FacilitatorsOf(door)[2]
    BY <1>1, <2>1, SettlerIs
  <2> QED BY <1>1, <1>3, <2>2
<1>4. CASE n \notin ClaimsOf(x) /\ n \notin ClaimsOf(y)
  <2>1. /\ 3 \in 1..3 /\ n \in ClaimsOf(FacilitatorsOf(door)[3])
        /\ \A j \in 1..3 : j < 3 => n \notin ClaimsOf(FacilitatorsOf(door)[j])
    BY <1>1, <1>4
  <2>2. SettlerOf(door, n) = FacilitatorsOf(door)[3]
    BY <1>1, <2>1, SettlerIs
  <2> QED BY <1>1, <1>4, <2>2
<1> QED BY <1>2, <1>3, <1>4

\* assembleServer's lists, by door.
LEMMA FacilitatorsAre ==
    ASSUME ShopFits
    PROVE  /\ FacilitatorsOf("direct") = <<"ours">>
           /\ FacilitatorsOf("proxy") = IF shop.solana THEN <<"payai", "circle">> ELSE <<"circle">>
           /\ FacilitatorsOf("paid") =
                IF shop.discovery = "none" THEN IF shop.solana THEN <<"payai", "circle">> ELSE <<"circle">>
                ELSE IF shop.solana THEN <<shop.discovery, "payai", "circle">> ELSE <<shop.discovery, "circle">>
           /\ FacilitatorsOf("upto") =
                IF shop.discovery # "none" THEN <<shop.discovery, "ours">>
                ELSE IF shop.solana THEN <<"payai", "ours">> ELSE <<"ours">>
<1>1. \A door \in {"direct", "proxy", "paid", "upto"} :
         "solana" \in NetsOf(door) <=> door # "direct" /\ shop.solana
  BY DEF NetsOf, ShopFits
<1>2. \A x, y, z : /\ <<>> \o <<>> \o <<z>> = <<z>>
                  /\ <<x>> \o <<>> \o <<z>> = <<x, z>>
                  /\ <<>> \o <<y>> \o <<z>> = <<y, z>>
                  /\ <<x>> \o <<y>> \o <<z>> = <<x, y, z>>
  <2> TAKE x, y, z
  <2> QED BY Joined
<1>3. \A x : <<x>> # <<>>
  OBVIOUS
<1>4. FacilitatorsOf("direct") = <<"ours">>
  BY <1>1, <1>2 DEF FacilitatorsOf
<1>5. FacilitatorsOf("proxy") = IF shop.solana THEN <<"payai", "circle">> ELSE <<"circle">>
  BY <1>1, <1>2 DEF FacilitatorsOf
<1>6. FacilitatorsOf("paid") =
        IF shop.discovery = "none" THEN IF shop.solana THEN <<"payai", "circle">> ELSE <<"circle">>
        ELSE IF shop.solana THEN <<shop.discovery, "payai", "circle">> ELSE <<shop.discovery, "circle">>
  BY <1>1, <1>2, <1>3 DEF FacilitatorsOf
<1>7. FacilitatorsOf("upto") =
        IF shop.discovery # "none" THEN <<shop.discovery, "ours">>
        ELSE IF shop.solana THEN <<"payai", "ours">> ELSE <<"ours">>
  BY <1>1, <1>2, <1>3 DEF FacilitatorsOf
<1> QED BY <1>4, <1>5, <1>6, <1>7

LEMMA ClaimsAre ==
    /\ ClaimsOf("circle") = {"arc", "base"} /\ ClaimsOf("ours") = {"arc"}
    /\ ClaimsOf("open") = shop.openTakes
    /\ ClaimsOf("cdp") = {"base", "solana"} /\ ClaimsOf("payai") = {"base", "solana"}
  BY DEF ClaimsOf

LEMMA TagIsPositive ==
    ASSUME ShopFits
    PROVE  shop.tag \in Nat /\ shop.tag > 0
<1>1. shop.tag \in PriceTags
  BY DEF ShopFits
<1>2. PriceTags \subseteq Nat \ {0}
  BY StorefrontAssumption
<1>3. \A p \in PriceTags : p \in Nat /\ p > 0
  <2> TAKE p \in PriceTags
  <2>1. p \in Nat /\ p # 0
    BY <1>2
  <2> QED BY <2>1
<1> QED BY <1>1, <1>3

\* What is asked is no less than the price, and enough for who settles it.
LEMMA AskedIsEnough ==
    ASSUME ShopFits, NEW door, NEW n
    PROVE  /\ AskedOn(door, n) \in Nat /\ AskedOn(door, n) > 0
           /\ AskedOn(door, n) >= shop.tag
           /\ \A f \in {"circle", "payai", "open"} : AskedOn(door, n) >= RefusesLessThan(f, door)
           /\ n = "arc" => AskedOn(door, n) >= RefusesLessThan("ours", door)
           /\ n # "arc" /\ door # "proxy" /\ shop.discovery = "cdp"
                => AskedOn(door, n) >= RefusesLessThan("cdp", door)
<1>1. shop.tag \in Nat /\ shop.tag > 0 /\ CdpMin \in Nat /\ DirectFloor \in Nat
  BY StorefrontAssumption, TagIsPositive
<1>2. \A p, m \in Nat : AtLeast(p, m) \in Nat /\ AtLeast(p, m) >= p /\ AtLeast(p, m) >= m
  BY DEF AtLeast
<1>3. /\ AskedOn(door, n) \in Nat /\ AskedOn(door, n) >= shop.tag
      /\ n = "arc" /\ door = "direct" => AskedOn(door, n) >= DirectFloor
      /\ n # "arc" /\ door # "proxy" /\ shop.discovery = "cdp" => AskedOn(door, n) >= CdpMin
  <2> DEFINE tag == shop.tag  direct == AtLeast(tag, DirectFloor)  cdp == AtLeast(tag, CdpMin)
  <2>1. /\ tag \in Nat /\ direct \in Nat /\ direct >= tag /\ direct >= DirectFloor
        /\ cdp \in Nat /\ cdp >= tag /\ cdp >= CdpMin
    BY <1>1, <1>2
  <2>2. /\ n = "arc" => AskedOn(door, n) = IF door = "direct" THEN direct ELSE tag
        /\ n # "arc" => AskedOn(door, n) = IF door # "proxy" /\ shop.discovery = "cdp" THEN cdp ELSE tag
    BY DEF AskedOn
  <2>3. tag >= tag
    BY <2>1
  <2> HIDE DEF tag, direct, cdp
  <2>4. AskedOn(door, n) \in {tag, direct, cdp}
    BY <2>2
  <2>5. \A x \in {tag, direct, cdp} : x \in Nat /\ x >= tag
    BY <2>1, <2>3
  <2>6. AskedOn(door, n) \in Nat /\ AskedOn(door, n) >= tag
    BY <2>4, <2>5
  <2>7. n = "arc" /\ door = "direct" => AskedOn(door, n) >= DirectFloor
    BY <2>1, <2>2
  <2>8. n # "arc" /\ door # "proxy" /\ shop.discovery = "cdp" => AskedOn(door, n) >= CdpMin
    BY <2>1, <2>2
  <2> QED BY <2>6, <2>7, <2>8 DEF tag
<1>4. /\ \A f \in {"circle", "payai", "open"} : RefusesLessThan(f, door) = 0
      /\ RefusesLessThan("cdp", door) = CdpMin
      /\ RefusesLessThan("ours", door) = IF door = "direct" THEN DirectFloor ELSE 0
  BY DEF RefusesLessThan
<1> QED BY <1>1, <1>3, <1>4

LEMMA RailsSettle ==
    ASSUME ShopFits
    PROVE  EveryRailSettles
<1> DEFINE Fits(door, n) ==
             LET f == SettlerOf(door, n) IN
             \/ door = "upto" /\ shop.discovery = "open" /\ n \notin shop.openTakes \cup {"arc"}
             \/ /\ f # "nobody" /\ AskedOn(door, n) >= RefusesLessThan(f, door) /\ AskedOn(door, n) >= shop.tag
                /\ f = IF n = "arc" THEN IF door \in {"direct", "upto"} THEN "ours" ELSE "circle"
                       ELSE IF door # "proxy" /\ shop.discovery # "none" /\ (n = "base" \/ n \in ClaimsOf(shop.discovery))
                            THEN shop.discovery ELSE "payai"
<1>1. \A n \in NetsOf("direct") : Fits("direct", n)
  <2> TAKE n \in NetsOf("direct")
  <2>1. n = "arc"
    BY DEF NetsOf
  <2>2. SettlerOf("direct", n) = "ours"
    BY <2>1, FacilitatorsAre, ClaimsAre, SettlerOfOne
  <2> QED BY <2>1, <2>2, AskedIsEnough
<1>2. \A n \in NetsOf("proxy") : Fits("proxy", n)
  <2> TAKE n \in NetsOf("proxy")
  <2>1. n \in {"arc", "solana"} /\ (n = "solana" => shop.solana)
    BY DEF NetsOf
  <2>2. SettlerOf("proxy", n) = IF n = "arc" THEN "circle" ELSE "payai"
    BY <2>1, FacilitatorsAre, ClaimsAre, SettlerOfOne, SettlerOfTwo DEF ShopFits
  <2> QED BY <2>1, <2>2, AskedIsEnough
<1>3. \A n \in NetsOf("paid") : Fits("paid", n)
  <2> TAKE n \in NetsOf("paid")
  <2>1. /\ n \in {"arc", "base", "solana"} /\ (n = "solana" => shop.solana)
        /\ n = "base" => shop.discovery # "none"
    BY DEF NetsOf
  <2>2. SettlerOf("paid", n) =
          IF n = "arc" THEN "circle"
          ELSE IF shop.discovery # "none" /\ (n = "base" \/ n \in ClaimsOf(shop.discovery)) THEN shop.discovery
          ELSE "payai"
    <3>1. CASE shop.discovery = "none"
      BY <2>1, <3>1, FacilitatorsAre, ClaimsAre, SettlerOfOne, SettlerOfTwo DEF ShopFits
    <3>2. CASE shop.discovery # "none" /\ shop.solana
      <4>1. FacilitatorsOf("paid") = <<shop.discovery, "payai", "circle">>
        BY <3>2, FacilitatorsAre
      <4>2. n \in ClaimsOf(shop.discovery) \cup ClaimsOf("payai") \cup ClaimsOf("circle")
        BY <2>1, ClaimsAre
      <4>3. n = "arc" => n \notin ClaimsOf(shop.discovery) /\ n \notin ClaimsOf("payai")
        BY <3>2, ClaimsAre DEF ShopFits
      <4>4. n = "base" => n \in ClaimsOf(shop.discovery)
        BY <3>2, ClaimsAre DEF ShopFits
      <4>5. n = "solana" => n \in ClaimsOf("payai")
        BY ClaimsAre
      <4>6. SettlerOf("paid", n) = IF n \in ClaimsOf(shop.discovery) THEN shop.discovery
                                   ELSE IF n \in ClaimsOf("payai") THEN "payai" ELSE "circle"
        BY <4>1, <4>2, SettlerOfThree
      <4> QED BY <2>1, <3>2, <4>3, <4>4, <4>5, <4>6
    <3>3. CASE shop.discovery # "none" /\ ~shop.solana
      <4>1. FacilitatorsOf("paid") = <<shop.discovery, "circle">>
        BY <3>3, FacilitatorsAre
      <4>2. n \in {"arc", "base"}
        BY <2>1, <3>3
      <4>3. n = "arc" => n \notin ClaimsOf(shop.discovery) /\ n \in ClaimsOf("circle")
        BY <3>3, ClaimsAre DEF ShopFits
      <4>4. n = "base" => n \in ClaimsOf(shop.discovery)
        BY <3>3, ClaimsAre DEF ShopFits
      <4>6. SettlerOf("paid", n) = IF n \in ClaimsOf(shop.discovery) THEN shop.discovery ELSE "circle"
        BY <4>1, <4>2, <4>3, <4>4, SettlerOfTwo
      <4> QED BY <4>2, <3>3, <4>3, <4>4, <4>6
    <3> QED BY <3>1, <3>2, <3>3
  <2> QED BY <2>1, <2>2, AskedIsEnough DEF ShopFits
<1>4. \A n \in NetsOf("upto") : Fits("upto", n)
  <2> TAKE n \in NetsOf("upto")
  <2>1. /\ n \in {"arc", "base", "solana"} /\ (n = "solana" => shop.solana)
        /\ n = "base" => shop.discovery # "none"
    BY DEF NetsOf
  <2>2. \/ shop.discovery = "open" /\ n \notin shop.openTakes \cup {"arc"}
        \/ SettlerOf("upto", n) = IF n = "arc" THEN "ours"
                                  ELSE IF shop.discovery # "none" THEN shop.discovery ELSE "payai"
    <3>1. CASE shop.discovery = "none"
      BY <2>1, <3>1, FacilitatorsAre, ClaimsAre, SettlerOfOne, SettlerOfTwo DEF ShopFits
    <3>2. CASE shop.discovery # "none"
      <4>1. FacilitatorsOf("upto") = <<shop.discovery, "ours">>
        BY <3>2, FacilitatorsAre
      <4>3. n = "arc" => n \notin ClaimsOf(shop.discovery) /\ n \in ClaimsOf("ours")
        BY <3>2, ClaimsAre DEF ShopFits
      <4>4. \/ shop.discovery = "open" /\ n \notin shop.openTakes \cup {"arc"}
            \/ n = "arc" \/ n \in ClaimsOf(shop.discovery)
        BY <2>1, <3>2, ClaimsAre DEF ShopFits
      <4> QED BY <3>2, <4>1, <4>3, <4>4, SettlerOfTwo
    <3> QED BY <3>1, <3>2
  <2>3. shop.discovery # "none" /\ ~(shop.discovery = "open" /\ n \notin shop.openTakes \cup {"arc"})
          => n \in {"arc", "base"} \cup ClaimsOf(shop.discovery)
    BY <2>1, ClaimsAre DEF ShopFits
  <2> QED BY <2>1, <2>2, <2>3, AskedIsEnough DEF ShopFits
<1> QED BY <1>1, <1>2, <1>3, <1>4 DEF EveryRailSettles, FixedDoors

-----------------------------------------------------------------------------
\* A rate, when there is one, lies between the tickers that answered, and all
\* of these are within the spread of it.
Spread(x, y) == IF x > y THEN x - y ELSE y - x
Said(q) == {i \in 1..3 : q[i] > 0}
Near(q, r) == {i \in 1..3 : q[i] > 0 /\ Spread(q[i], r) * 100 <= r * RateSpread}

LEMMA OneToThree == IsFiniteSet(1..3) /\ Cardinality(1..3) = 3
<1>1. \A n \in Int : IsFiniteSet(1..n) /\ Cardinality(1..n) = IF 1 > n THEN 0 ELSE n - 1 + 1
  BY FS_Interval
<1>2. \A n \in Int : n >= 1 => Cardinality(1..n) = n
  BY <1>1
<1> DEFINE three == 3
<1>3. three \in Int /\ three >= 1
  OBVIOUS
<1> HIDE DEF three
<1>4. IsFiniteSet(1..three) /\ Cardinality(1..three) = three
  BY <1>1, <1>2, <1>3
<1> QED BY <1>4 DEF three

LEMMA RateIsNear ==
    ASSUME NEW q \in [1..3 -> Nat]
    PROVE  /\ ReadRate(q) \in Nat
           /\ ReadRate(q) > 0 => Cardinality(Near(q, ReadRate(q))) >= 2
<1> DEFINE answering == Said(q)
           n == Cardinality(answering)
           all == q[1] + q[2] + q[3]
           hi == CHOOSE v \in {q[i] : i \in answering} : \A i \in answering : q[i] <= v
           lo == CHOOSE v \in {q[i] : i \in answering} : \A i \in answering : q[i] >= v
           mid == IF n = 3 THEN all - hi - lo ELSE all \div 2
<1>1. ReadRate(q) = IF n < 2 \/ (hi - lo) * 100 > mid * RateSpread THEN 0 ELSE mid
  BY DEF ReadRate, Said
<1>2. /\ answering \subseteq 1..3 /\ IsFiniteSet(answering) /\ n \in Nat
      /\ \A i \in 1..3 : i \in answering <=> q[i] > 0
  <2>1. answering \subseteq 1..3 /\ IsFiniteSet(1..3)
    BY OneToThree DEF Said
  <2>2. IsFiniteSet(answering)
    BY <2>1, FS_Subset
  <2> QED BY <2>1, <2>2, FS_CardinalityType DEF Said
<1>3. q[1] \in Nat /\ q[2] \in Nat /\ q[3] \in Nat
  OBVIOUS
<1>4. n >= 2 => \E i, j \in answering : i # j
  <2> SUFFICES ASSUME \A i, j \in answering : i = j PROVE n < 2
    BY <1>2
  <2>1. CASE answering = {}
    BY <2>1, FS_EmptySet
  <2>2. CASE answering # {}
    <3>1. PICK i \in answering : answering = {i}
      BY <2>2
    <3>2. Cardinality({i}) = 1
      BY FS_Singleton
    <3> QED BY <3>1, <3>2
  <2> QED BY <2>1, <2>2
<1>5. n = 3 <=> answering = 1..3
  <2>1. IsFiniteSet(1..3) /\ Cardinality(1..3) = 3
    BY OneToThree
  <2>2. answering # 1..3 => n < 3
    BY <1>2, <2>1, FS_Subset
  <2> QED BY <2>1, <2>2, <1>2
<1> HIDE DEF n, answering
<1>6. CASE n < 2
  BY <1>1, <1>6
<1>7. CASE n >= 2
  <2>1. PICK a \in answering, b \in answering : a # b
    BY <1>4, <1>7
  <2>2. \E i \in answering : \A j \in answering : q[j] <= q[i]
    BY <1>2, <1>3, <2>1
  <2>3. \E i \in answering : \A j \in answering : q[j] >= q[i]
    BY <1>2, <1>3, <2>1
  <2>4. hi \in {q[i] : i \in answering} /\ \A i \in answering : q[i] <= hi
    <3>1. \E v \in {q[i] : i \in answering} : \A i \in answering : q[i] <= v
      BY <2>2
    <3> QED BY <3>1
  <2>5. lo \in {q[i] : i \in answering} /\ \A i \in answering : q[i] >= lo
    <3>1. \E v \in {q[i] : i \in answering} : \A i \in answering : q[i] >= v
      BY <2>3
    <3> QED BY <3>1
  <2> HIDE DEF hi, lo
  <2>6. hi \in Nat /\ lo \in Nat /\ lo <= hi
    BY <1>2, <1>3, <2>1, <2>4, <2>5
  <2>7. mid \in Nat /\ lo <= mid /\ mid <= hi
    <3>1. CASE n = 3
      <4>1. 1 \in answering /\ 2 \in answering /\ 3 \in answering
        BY <1>5, <3>1
      <4>2. /\ q[1] <= hi /\ q[2] <= hi /\ q[3] <= hi /\ lo <= q[1] /\ lo <= q[2] /\ lo <= q[3]
            /\ hi = q[1] \/ hi = q[2] \/ hi = q[3]
            /\ lo = q[1] \/ lo = q[2] \/ lo = q[3]
        BY <1>2, <2>4, <2>5, <4>1
      <4>3. mid = all - hi - lo
        BY <3>1
      <4> QED BY <1>3, <2>6, <4>2, <4>3
    <3>2. CASE n # 3
      <4>1. PICK k \in 1..3 : k \notin answering
        BY <1>2, <1>5, <3>2
      <4>2. a \in 1..3 /\ b \in 1..3 /\ a # k /\ b # k /\ q[k] = 0
        BY <1>2, <1>3, <2>1, <4>1
      <4>3. all = q[a] + q[b]
        BY <1>3, <2>1, <4>2
      <4>4. /\ q[a] \in Nat /\ q[b] \in Nat /\ q[a] <= hi /\ q[b] <= hi /\ lo <= q[a] /\ lo <= q[b]
        BY <1>3, <2>1, <2>4, <2>5, <4>2
      <4>5. mid = (q[a] + q[b]) \div 2
        BY <3>2, <4>3
      <4> QED BY <2>6, <4>4, <4>5
    <3> QED BY <3>1, <3>2
  <2> HIDE DEF mid
  <2>8. CASE (hi - lo) * 100 > mid * RateSpread
    BY <1>1, <1>7, <2>8
  <2>9. CASE ~((hi - lo) * 100 > mid * RateSpread)
    <3>1. ReadRate(q) = mid
      BY <1>1, <1>2, <1>7, <2>9
    <3>2. mid * RateSpread \in Nat
      BY <2>7, StorefrontAssumption
    <3>3. (hi - lo) * 100 <= mid * RateSpread
      BY <2>6, <2>9, <3>2
    <3>4. ASSUME NEW i \in answering PROVE Spread(q[i], mid) * 100 <= mid * RateSpread
      <4>1. q[i] \in Nat /\ lo <= q[i] /\ q[i] <= hi
        BY <1>2, <1>3, <2>4, <2>5
      <4>2. Spread(q[i], mid) \in Nat /\ Spread(q[i], mid) <= hi - lo
        BY <2>6, <2>7, <4>1 DEF Spread
      <4> DEFINE x == mid * RateSpread  y == Spread(q[i], mid)
      <4> HIDE DEF x, y
      <4>3. y * 100 <= x
        BY <2>6, <3>2, <3>3, <4>2 DEF x, y
      <4> QED BY <4>3 DEF x, y
    <3>5. Near(q, mid) = answering
      BY <1>2, <3>4 DEF Near
    <3> QED BY <1>7, <2>7, <3>1, <3>5 DEF n
  <2> QED BY <2>8, <2>9
<1> QED BY <1>2, <1>6, <1>7

-----------------------------------------------------------------------------
\* Rounded up, so nothing is lost by the division.
LEMMA CeilDivides ==
    ASSUME NEW a \in Nat, NEW b \in Nat, b > 0
    PROVE  CeilDiv(a, b) \in Nat /\ CeilDiv(a, b) * b >= a
<1> DEFINE x == a + b - 1
           d == x \div b
<1>1. x \in Nat /\ x + 1 = a + b
  OBVIOUS
<1> HIDE DEF x
<1>2. d \in Nat /\ x < (d + 1) * b
  BY <1>1
<1> HIDE DEF d
<1>3. (d + 1) * b = d * b + b
  BY <1>1, <1>2
<1>4. d * b \in Nat
  BY <1>2
<1>5. d * b >= a
  BY <1>1, <1>2, <1>3, <1>4
<1> QED BY <1>2, <1>5 DEF CeilDiv, d, x

LEMMA TimesKeepsOrder ==
    ASSUME NEW x \in Nat, NEW y \in Nat, NEW z \in Nat, x <= y
    PROVE  x * z <= y * z /\ x * z \in Nat /\ y * z \in Nat
  OBVIOUS

TillFits ==
    /\ quotes \in Quotings
    /\ rateMemo \in [rate : Nat, fresh : BOOLEAN]
    /\ window \in 0..InvoicesPerMinute

LEMMA RateNowIsRead ==
    ASSUME TillFits
    PROVE  RateNow \in Nat
<1>1. quotes \in [1..3 -> Nat]
  BY StorefrontAssumption DEF TillFits
<1>2. ReadRate(quotes) \in Nat
  BY <1>1, RateIsNear
<1>3. rateMemo.rate \in Nat
  BY DEF TillFits
<1> QED BY <1>2, <1>3 DEF RateNow

\* The sats asked for are worth the price.
LEMMA TodayCovers ==
    ASSUME ShopFits, TillFits
    PROVE  /\ TodayMsat \in Nat
           /\ TodayMsat > 0 => TodayMsat * RateNow >= shop.tag * SatScale /\ TodayMsat >= MinMsat
<1> DEFINE r == RateNow
           price == shop.tag * SatScale
           exact == CeilDiv(price, r)
           least == AtLeast(exact, MinMsat)
           steps == CeilDiv(least, StepMsat)
<1>1. r \in Nat /\ price \in Nat /\ MinMsat \in Nat /\ StepMsat \in Nat /\ StepMsat > 0
  <2>1. SatScale \in Nat /\ MinMsat \in Nat /\ StepMsat \in Nat /\ StepMsat > 0
    BY StorefrontAssumption
  <2>2. price \in Nat
    BY <2>1, TagIsPositive
  <2> QED BY <2>1, <2>2, RateNowIsRead
<1>2. TodayMsat = IF r = 0 THEN 0 ELSE steps * StepMsat
  BY DEF TodayMsat, UsdToMsat
<1> HIDE DEF r, price
<1>3. CASE r = 0
  BY <1>2, <1>3
<1>4. CASE r # 0
  <2>1. exact \in Nat /\ exact * r >= price
    BY <1>1, <1>4, CeilDivides
  <2> HIDE DEF exact
  <2>2. least \in Nat /\ exact <= least /\ MinMsat <= least
    BY <1>1, <2>1 DEF AtLeast
  <2> HIDE DEF least
  <2>3. steps \in Nat /\ steps * StepMsat >= least
    BY <1>1, <2>2, CeilDivides
  <2> HIDE DEF steps
  <2> DEFINE t == steps * StepMsat
  <2>4. t \in Nat /\ exact <= t /\ MinMsat <= t
    BY <1>1, <2>1, <2>2, <2>3
  <2> HIDE DEF t
  <2>5. exact * r <= t * r /\ exact * r \in Nat /\ t * r \in Nat
    BY <1>1, <2>1, <2>4, TimesKeepsOrder
  <2>6. t * r >= price
    BY <1>1, <2>1, <2>5
  <2>7. TodayMsat = t
    BY <1>2, <1>4 DEF t
  <2> QED BY <1>1, <2>4, <2>6, <2>7 DEF r, price
<1> QED BY <1>3, <1>4

LEMMA RatesStand ==
    ASSUME ShopFits, TillFits
    PROVE  RateStands
<1>1. ASSUME NEW tickers \in Quotings
      PROVE  ReadRate(tickers) > 0 => Cardinality(Near(tickers, ReadRate(tickers))) >= 2
  <2>1. tickers \in [1..3 -> Nat]
    BY StorefrontAssumption
  <2> QED BY <2>1, RateIsNear
<1>2. \A tickers \in Quotings :
        LET r == ReadRate(tickers) IN
        r > 0 => Cardinality({i \in 1..3 : tickers[i] > 0 /\ (IF tickers[i] > r THEN tickers[i] - r ELSE r - tickers[i]) * 100
                                                             <= r * RateSpread}) >= 2
  BY <1>1 DEF Near, Spread
<1>3. window <= InvoicesPerMinute
  BY StorefrontAssumption DEF TillFits
<1> QED BY <1>2, <1>3, TodayCovers DEF RateStands

-----------------------------------------------------------------------------
Ages == {"none", "payable", "expired", "gone"}
Invoices == [msat : Nat, age : Ages, paid : BOOLEAN]
OrderRecords ==
    [pc : {"new", "offered", "signed", "verified", "answered", "done"},
     door : {"none", "lightning", "upto"} \cup FixedDoors,
     net : {"none", "arc", "base", "solana", "sats"},
     asked : Nat, held : Nat, due : Nat, moved : Nat, whole : BOOLEAN,
     outcome : {"none", "settled", "failed", "not_charged"},
     said : {"none", "stopped", "refused", "error", "delivered", "unavailable"},
     row : {"none", "settled", "failed", "not_charged", "lost"},
     invoice : Invoices, today : Nat]

\* Before its end nothing was said or written of an order; money moves in USDC
\* after the answer, in sats before it; a row says what became of the order.
OpenFits(o) ==
    /\ o.pc \in {"new", "offered"} => o.net = "none" /\ ~o.invoice.paid /\ o.asked = 0
    /\ o.pc # "done" => o.outcome = "none" /\ o.said = "none" /\ o.row = "none"
    /\ o.pc \in {"new", "offered", "signed"} => o.moved = 0 /\ o.held = 0
    /\ o.row \in {"none", "lost", o.outcome}
    /\ o.invoice.age # "none" => o.invoice.msat >= MinMsat

UsdcFits(o) ==
    /\ o.pc \in {"signed", "verified", "answered"} => o.moved = 0 /\ o.asked > 0
    /\ o.pc = "answered" => o.whole /\ o.due > 0 /\ o.due <= o.asked
    /\ o.outcome = "settled" => o.moved = o.due /\ o.whole
    /\ o.outcome = "not_charged" => o.moved = 0
    /\ SoldForUsdc(o)

\* An invoice's order, given whether its proof was claimed.
SatsFits(o, claimed) ==
    /\ o.invoice.paid /\ o.invoice.age # "none"
    /\ o.pc \in {"signed", "verified", "answered", "done"}
    /\ o.outcome \in {"none", "settled"}
    /\ o.pc \in {"verified", "answered"} \/ o.said \in {"delivered", "error"} =>
         claimed /\ o.moved = o.invoice.msat /\ ~PriceMoved(o.moved, o.today)
    /\ o.said = "refused" => o.invoice.age = "gone" \/ PriceMoved(o.invoice.msat, o.today)

OrderFits(o, claimed) ==
    /\ o \in OrderRecords
    /\ OpenFits(o)
    /\ claimed => o.pc \in {"verified", "answered", "done"}
    /\ IF o.net = "sats" THEN SatsFits(o, claimed) ELSE UsdcFits(o)

OrdersFit ==
    /\ orders \in [ShopCalls -> OrderRecords]
    /\ claimedInvoices \subseteq ShopCalls
    /\ \A q \in ShopCalls : OrderFits(orders[q], q \in claimedInvoices)

ShopInv == ShopFits /\ TillFits /\ OrdersFit

LEMMA HonestThen == ShopInv => SoldHonestly
<1> SUFFICES ASSUME ShopInv PROVE SoldHonestly
  OBVIOUS
<1>1. EveryRailSettles /\ RateStands
  BY RailsSettle, RatesStand DEF ShopInv
<1>2. ASSUME NEW q \in ShopCalls
      PROVE  IF orders[q].net = "sats" THEN SoldForSats(q) ELSE SoldForUsdc(orders[q])
  <2> DEFINE o == orders[q]
  <2>1. OrderFits(o, q \in claimedInvoices)
    BY DEF ShopInv, OrdersFit
  <2>2. CASE o.net = "sats"
    <3>1. SatsFits(o, q \in claimedInvoices) /\ o.row \in {"none", "lost", o.outcome}
      BY <2>1, <2>2 DEF OrderFits, OpenFits
    <3>2. o.row \in {"none", "settled", "lost"}
      BY <3>1 DEF SatsFits
    <3> QED BY <2>2, <3>1, <3>2 DEF SatsFits, SoldForSats
  <2>3. CASE o.net # "sats"
    BY <2>1, <2>3 DEF OrderFits, UsdcFits
  <2> QED BY <2>2, <2>3
<1> QED BY <1>1, <1>2 DEF SoldHonestly

\* One order moves; a proof is claimed by no other.
LEMMA OneOneMoves ==
    ASSUME ShopInv, NEW q \in ShopCalls, NEW o, Put(q, o),
           claimedInvoices \subseteq claimedInvoices',
           claimedInvoices' \subseteq claimedInvoices \cup {q},
           OrderFits(o, q \in claimedInvoices')
    PROVE  OrdersFit'
<1>1. o \in OrderRecords /\ orders \in [ShopCalls -> OrderRecords] /\ claimedInvoices \subseteq ShopCalls
  BY DEF OrderFits, ShopInv, OrdersFit
<1>2. orders' \in [ShopCalls -> OrderRecords] /\ claimedInvoices' \subseteq ShopCalls
  BY <1>1 DEF Put
<1>3. ASSUME NEW d \in ShopCalls PROVE OrderFits(orders'[d], d \in claimedInvoices')
  <2>1. CASE d = q
    <3>1. orders'[d] = o
      BY <1>1, <2>1 DEF Put
    <3> QED BY <2>1, <3>1
  <2>2. CASE d # q
    <3>1. orders'[d] = orders[d] /\ (d \in claimedInvoices' <=> d \in claimedInvoices)
      BY <1>1, <2>2 DEF Put
    <3>2. OrderFits(orders[d], d \in claimedInvoices)
      BY DEF ShopInv, OrdersFit
    <3>3. CASE d \in claimedInvoices
      BY <3>1, <3>2, <3>3 DEF OrderFits, SatsFits
    <3>4. CASE d \notin claimedInvoices
      BY <3>1, <3>2, <3>4 DEF OrderFits, SatsFits
    <3> QED BY <3>3, <3>4
  <2> QED BY <2>1, <2>2
<1> QED BY <1>2, <1>3 DEF OrdersFit

\* What an action leaves alone: the shop and the till.
LEMMA OneMoves ==
    ASSUME ShopInv, UNCHANGED <<shop, tillVars>>,
           NEW q \in ShopCalls, NEW o, Put(q, o), OrderFits(o, q \in claimedInvoices)
    PROVE  ShopInv'
<1>1. shop' = shop /\ UNCHANGED tillVars
  OBVIOUS
<1>2. ShopFits'
  BY <1>1 DEF ShopInv, ShopFits
<1>3. TillFits'
  BY <1>1 DEF ShopInv, TillFits, tillVars
<1>4. claimedInvoices' = claimedInvoices
  BY <1>1 DEF tillVars
<1>5. OrderFits(o, q \in claimedInvoices')
  BY <1>4
<1>6. OrdersFit'
  BY <1>4, <1>5, OneOneMoves
<1> QED BY <1>2, <1>3, <1>6 DEF ShopInv


\* A 402 goes out.
LEMMA AskedFits ==
    ASSUME ShopInv, NEW q \in ShopCalls, orders[q].pc = "new", NEW door \in {"upto"} \cup FixedDoors
    PROVE  OrderFits([orders[q] EXCEPT !.pc = "offered", !.door = door], q \in claimedInvoices)
<1> DEFINE o == orders[q]  y == [o EXCEPT !.pc = "offered", !.door = door]
<1>1. o \in OrderRecords /\ OrderFits(o, q \in claimedInvoices)
  BY DEF ShopInv, OrdersFit, OrderFits
<1>2. o.pc = "new" /\ door \in {"upto"} \cup FixedDoors
  OBVIOUS
<1> HIDE DEF o
<1>3. y \in OrderRecords
  BY <1>1, <1>2 DEF OrderRecords
<1>4. /\ y.pc = "offered" /\ y.door = door /\ y.net = o.net /\ y.asked = o.asked
      /\ y.held = o.held /\ y.due = o.due /\ y.moved = o.moved /\ y.whole = o.whole
      /\ y.outcome = o.outcome /\ y.said = o.said /\ y.row = o.row /\ y.invoice = o.invoice
      /\ y.today = o.today
  BY <1>1 DEF OrderRecords
<1> HIDE DEF y
<1>5. OrderFits(y, q \in claimedInvoices)
  BY <1>1, <1>2, <1>3, <1>4 DEF OrderFits, OpenFits, UsdcFits, SatsFits, SoldForUsdc
<1> QED BY <1>5 DEF o, y

\* A buyer signs.
LEMMA SignedFits ==
    ASSUME ShopInv, NEW q \in ShopCalls, orders[q].pc = "offered", NEW n \in {"arc", "base", "solana"}, NEW a \in Nat, a > 0
    PROVE  OrderFits([orders[q] EXCEPT !.pc = "signed", !.net = n, !.asked = a], q \in claimedInvoices)
<1> DEFINE o == orders[q]  y == [o EXCEPT !.pc = "signed", !.net = n, !.asked = a]
<1>1. o \in OrderRecords /\ OrderFits(o, q \in claimedInvoices)
  BY DEF ShopInv, OrdersFit, OrderFits
<1>2. o.pc = "offered" /\ n \in {"arc", "base", "solana"} /\ a \in Nat /\ a > 0
  OBVIOUS
<1> HIDE DEF o
<1>3. y \in OrderRecords
  BY <1>1, <1>2 DEF OrderRecords
<1>4. /\ y.pc = "signed" /\ y.door = o.door /\ y.net = n /\ y.asked = a /\ y.held = o.held
      /\ y.due = o.due /\ y.moved = o.moved /\ y.whole = o.whole /\ y.outcome = o.outcome
      /\ y.said = o.said /\ y.row = o.row /\ y.invoice = o.invoice /\ y.today = o.today
  BY <1>1 DEF OrderRecords
<1> HIDE DEF y
<1>5. OrderFits(y, q \in claimedInvoices)
  BY <1>1, <1>2, <1>3, <1>4 DEF OrderFits, OpenFits, UsdcFits, SatsFits, SoldForUsdc
<1> QED BY <1>5 DEF o, y

\* It ends before anything moved.
LEMMA EndFits ==
    ASSUME ShopInv, NEW q \in ShopCalls, orders[q].pc \in {"new", "offered", "signed"}, orders[q].net # "sats",
           NEW what \in {"stopped", "refused", "unavailable"}
    PROVE  OrderFits(Over(orders[q], "none", what), q \in claimedInvoices)
<1> DEFINE o == orders[q]  y == Over(o, "none", what)
<1>1. o \in OrderRecords /\ OrderFits(o, q \in claimedInvoices)
  BY DEF ShopInv, OrdersFit, OrderFits
<1>2. o.pc \in {"new", "offered", "signed"} /\ o.net # "sats" /\ what \in {"stopped", "refused", "unavailable"}
  OBVIOUS
<1> HIDE DEF o
<1>3. y \in OrderRecords
  BY <1>1, <1>2 DEF OrderRecords, Over
<1>4. /\ y.pc = "done" /\ y.door = o.door /\ y.net = o.net /\ y.asked = o.asked
      /\ y.held = o.held /\ y.due = o.due /\ y.moved = o.moved /\ y.whole = o.whole
      /\ y.outcome = "none" /\ y.said = what /\ y.row = o.row /\ y.invoice = o.invoice
      /\ y.today = o.today
  BY <1>1 DEF OrderRecords, Over
<1> HIDE DEF y
<1>5. OrderFits(y, q \in claimedInvoices)
  BY <1>1, <1>2, <1>3, <1>4 DEF OrderFits, OpenFits, UsdcFits, SatsFits, SoldForUsdc
<1> QED BY <1>5 DEF o, y

\* Its settler checked it.
LEMMA VerifiedFits ==
    ASSUME ShopInv, NEW q \in ShopCalls, orders[q].pc = "signed", orders[q].net # "sats", NEW h \in Nat
    PROVE  OrderFits([orders[q] EXCEPT !.pc = "verified", !.held = h], q \in claimedInvoices)
<1> DEFINE o == orders[q]  y == [o EXCEPT !.pc = "verified", !.held = h]
<1>1. o \in OrderRecords /\ OrderFits(o, q \in claimedInvoices)
  BY DEF ShopInv, OrdersFit, OrderFits
<1>2. o.pc = "signed" /\ o.net # "sats" /\ h \in Nat
  OBVIOUS
<1> HIDE DEF o
<1>3. y \in OrderRecords
  BY <1>1, <1>2 DEF OrderRecords
<1>4. /\ y.pc = "verified" /\ y.door = o.door /\ y.net = o.net /\ y.asked = o.asked /\ y.held = h
      /\ y.due = o.due /\ y.moved = o.moved /\ y.whole = o.whole /\ y.outcome = o.outcome
      /\ y.said = o.said /\ y.row = o.row /\ y.invoice = o.invoice /\ y.today = o.today
  BY <1>1 DEF OrderRecords
<1> HIDE DEF y
<1>5. OrderFits(y, q \in claimedInvoices)
  BY <1>1, <1>2, <1>3, <1>4 DEF OrderFits, OpenFits, UsdcFits, SatsFits, SoldForUsdc
<1> QED BY <1>5 DEF o, y

\* It is answered.
LEMMA AnsweredFits ==
    ASSUME ShopInv, NEW q \in ShopCalls, orders[q].pc = "verified",
           NEW d \in Nat, orders[q].net # "sats" => d > 0 /\ d <= orders[q].asked
    PROVE  OrderFits([orders[q] EXCEPT !.pc = "answered", !.whole = TRUE, !.due = d], q \in claimedInvoices)
<1> DEFINE o == orders[q]  y == [o EXCEPT !.pc = "answered", !.whole = TRUE, !.due = d]
<1>1. o \in OrderRecords /\ OrderFits(o, q \in claimedInvoices)
  BY DEF ShopInv, OrdersFit, OrderFits
<1>2. o.pc = "verified" /\ d \in Nat /\ (o.net # "sats" => d > 0 /\ d <= o.asked)
  OBVIOUS
<1> HIDE DEF o
<1>3. y \in OrderRecords
  BY <1>1, <1>2 DEF OrderRecords
<1>4. /\ y.pc = "answered" /\ y.door = o.door /\ y.net = o.net /\ y.asked = o.asked
      /\ y.held = o.held /\ y.due = d /\ y.moved = o.moved /\ y.whole = TRUE
      /\ y.outcome = o.outcome /\ y.said = o.said /\ y.row = o.row /\ y.invoice = o.invoice
      /\ y.today = o.today
  BY <1>1 DEF OrderRecords
<1> HIDE DEF y
<1>5. OrderFits(y, q \in claimedInvoices)
  BY <1>1, <1>2, <1>3, <1>4 DEF OrderFits, OpenFits, UsdcFits, SatsFits, SoldForUsdc
<1> QED BY <1>5 DEF o, y

\* It failed, and nothing is taken.
LEMMA DroppedFits ==
    ASSUME ShopInv, NEW q \in ShopCalls, orders[q].pc = "verified"
    PROVE  OrderFits(Dropped(orders[q]), q \in claimedInvoices)
<1> DEFINE o == orders[q]  y == Dropped(o)
<1>1. o \in OrderRecords /\ OrderFits(o, q \in claimedInvoices)
  BY DEF ShopInv, OrdersFit, OrderFits
<1>2. o.pc = "verified"
  OBVIOUS
<1> HIDE DEF o
<1>3. y \in OrderRecords
  BY <1>1, <1>2 DEF OrderRecords, Dropped
<1>4. /\ y.pc = "done" /\ y.door = o.door /\ y.net = o.net /\ y.asked = o.asked /\ y.held = 0
      /\ y.due = o.due /\ y.moved = o.moved /\ y.whole = o.whole
      /\ y.outcome = (IF o.net = "sats" THEN "settled" ELSE "not_charged") /\ y.said = "error"
      /\ y.row = o.row /\ y.invoice = o.invoice /\ y.today = o.today
  BY <1>1 DEF OrderRecords, Dropped
<1> HIDE DEF y
<1>5. OrderFits(y, q \in claimedInvoices)
  BY <1>1, <1>2, <1>3, <1>4 DEF OrderFits, OpenFits, UsdcFits, SatsFits, SoldForUsdc
<1> QED BY <1>5 DEF o, y

\* The money moves, whatever is known of it.
LEMMA SettledFits ==
    ASSUME ShopInv, NEW q \in ShopCalls, orders[q].pc = "answered", orders[q].net # "sats",
           NEW outcome \in {"settled", "failed"}, NEW what \in {"delivered", "refused", "stopped"}
    PROVE  OrderFits([Over(orders[q], outcome, what) EXCEPT !.moved = orders[q].due, !.held = 0], q \in claimedInvoices)
<1> DEFINE o == orders[q]  y == [Over(o, outcome, what) EXCEPT !.moved = o.due, !.held = 0]
<1>1. o \in OrderRecords /\ OrderFits(o, q \in claimedInvoices)
  BY DEF ShopInv, OrdersFit, OrderFits
<1>2. o.pc = "answered" /\ o.net # "sats" /\ outcome \in {"settled", "failed"} /\ what \in {"delivered", "refused", "stopped"}
  OBVIOUS
<1> HIDE DEF o
<1>3. y \in OrderRecords
  BY <1>1, <1>2 DEF OrderRecords, Over
<1>4. /\ y.pc = "done" /\ y.door = o.door /\ y.net = o.net /\ y.asked = o.asked /\ y.held = 0
      /\ y.due = o.due /\ y.moved = o.due /\ y.whole = o.whole /\ y.outcome = outcome
      /\ y.said = what /\ y.row = o.row /\ y.invoice = o.invoice /\ y.today = o.today
  BY <1>1 DEF OrderRecords, Over
<1> HIDE DEF y
<1>5. OrderFits(y, q \in claimedInvoices)
  BY <1>1, <1>2, <1>3, <1>4 DEF OrderFits, OpenFits, UsdcFits, SatsFits, SoldForUsdc
<1> QED BY <1>5 DEF o, y

\* It does not.
LEMMA RefusedFits ==
    ASSUME ShopInv, NEW q \in ShopCalls, orders[q].pc = "answered", orders[q].net # "sats"
    PROVE  OrderFits([Over(orders[q], "failed", "refused") EXCEPT !.held = 0], q \in claimedInvoices)
<1> DEFINE o == orders[q]  y == [Over(o, "failed", "refused") EXCEPT !.held = 0]
<1>1. o \in OrderRecords /\ OrderFits(o, q \in claimedInvoices)
  BY DEF ShopInv, OrdersFit, OrderFits
<1>2. o.pc = "answered" /\ o.net # "sats"
  OBVIOUS
<1> HIDE DEF o
<1>3. y \in OrderRecords
  BY <1>1, <1>2 DEF OrderRecords, Over
<1>4. /\ y.pc = "done" /\ y.door = o.door /\ y.net = o.net /\ y.asked = o.asked /\ y.held = 0
      /\ y.due = o.due /\ y.moved = o.moved /\ y.whole = o.whole /\ y.outcome = "failed"
      /\ y.said = "refused" /\ y.row = o.row /\ y.invoice = o.invoice /\ y.today = o.today
  BY <1>1 DEF OrderRecords, Over
<1> HIDE DEF y
<1>5. OrderFits(y, q \in claimedInvoices)
  BY <1>1, <1>2, <1>3, <1>4 DEF OrderFits, OpenFits, UsdcFits, SatsFits, SoldForUsdc
<1> QED BY <1>5 DEF o, y

\* A row is written, or lost.
LEMMA RecordedFits ==
    ASSUME ShopInv, NEW q \in ShopCalls, orders[q].pc = "done", orders[q].row = "none",
           NEW r \in {orders[q].outcome, "lost"}
    PROVE  OrderFits([orders[q] EXCEPT !.row = r], q \in claimedInvoices)
<1> DEFINE o == orders[q]  y == [o EXCEPT !.row = r]
<1>1. o \in OrderRecords /\ OrderFits(o, q \in claimedInvoices)
  BY DEF ShopInv, OrdersFit, OrderFits
<1>2. o.pc = "done" /\ o.row = "none" /\ r \in {o.outcome, "lost"}
  OBVIOUS
<1> HIDE DEF o
<1>3. y \in OrderRecords
  BY <1>1, <1>2 DEF OrderRecords
<1>4. /\ y.pc = o.pc /\ y.door = o.door /\ y.net = o.net /\ y.asked = o.asked /\ y.held = o.held
      /\ y.due = o.due /\ y.moved = o.moved /\ y.whole = o.whole /\ y.outcome = o.outcome
      /\ y.said = o.said /\ y.row = r /\ y.invoice = o.invoice /\ y.today = o.today
  BY <1>1 DEF OrderRecords
<1> HIDE DEF y
<1>5. OrderFits(y, q \in claimedInvoices)
  BY <1>1, <1>2, <1>3, <1>4 DEF OrderFits, OpenFits, UsdcFits, SatsFits, SoldForUsdc
<1> QED BY <1>5 DEF o, y

\* Paid in sats and served.
LEMMA ServedFits ==
    ASSUME ShopInv, NEW q \in ShopCalls, orders[q].pc = "answered", orders[q].net = "sats"
    PROVE  OrderFits(Over(orders[q], "settled", "delivered"), q \in claimedInvoices)
<1> DEFINE o == orders[q]  y == Over(o, "settled", "delivered")
<1>1. o \in OrderRecords /\ OrderFits(o, q \in claimedInvoices)
  BY DEF ShopInv, OrdersFit, OrderFits
<1>2. o.pc = "answered" /\ o.net = "sats"
  OBVIOUS
<1> HIDE DEF o
<1>3. y \in OrderRecords
  BY <1>1, <1>2 DEF OrderRecords, Over
<1>4. /\ y.pc = "done" /\ y.door = o.door /\ y.net = o.net /\ y.asked = o.asked
      /\ y.held = o.held /\ y.due = o.due /\ y.moved = o.moved /\ y.whole = o.whole
      /\ y.outcome = "settled" /\ y.said = "delivered" /\ y.row = o.row /\ y.invoice = o.invoice
      /\ y.today = o.today
  BY <1>1 DEF OrderRecords, Over
<1> HIDE DEF y
<1>5. OrderFits(y, q \in claimedInvoices)
  BY <1>1, <1>2, <1>3, <1>4 DEF OrderFits, OpenFits, UsdcFits, SatsFits, SoldForUsdc
<1> QED BY <1>5 DEF o, y

\* No invoice, so no offer.
LEMMA UninvoicedFits ==
    ASSUME ShopInv, NEW q \in ShopCalls, orders[q].pc = "new"
    PROVE  OrderFits(Over([orders[q] EXCEPT !.door = "lightning"], "none", "unavailable"), q \in claimedInvoices)
<1> DEFINE o == orders[q]  y == Over([o EXCEPT !.door = "lightning"], "none", "unavailable")
<1>1. o \in OrderRecords /\ OrderFits(o, q \in claimedInvoices)
  BY DEF ShopInv, OrdersFit, OrderFits
<1>2. o.pc = "new"
  OBVIOUS
<1> HIDE DEF o
<1>3. y \in OrderRecords
  BY <1>1, <1>2 DEF OrderRecords, Over
<1>4. /\ y.pc = "done" /\ y.door = "lightning" /\ y.net = o.net /\ y.asked = o.asked
      /\ y.held = o.held /\ y.due = o.due /\ y.moved = o.moved /\ y.whole = o.whole
      /\ y.outcome = "none" /\ y.said = "unavailable" /\ y.row = o.row /\ y.invoice = o.invoice
      /\ y.today = o.today
  BY <1>1 DEF OrderRecords, Over
<1> HIDE DEF y
<1>5. OrderFits(y, q \in claimedInvoices)
  BY <1>1, <1>2, <1>3, <1>4 DEF OrderFits, OpenFits, UsdcFits, SatsFits, SoldForUsdc
<1> QED BY <1>5 DEF o, y

\* An invoice is offered.
LEMMA InvoicedFits ==
    ASSUME ShopInv, NEW q \in ShopCalls, orders[q].pc \in {"new", "offered"}, NEW door \in {"lightning", "proxy"},
           NEW m \in Nat, m >= MinMsat
    PROVE  OrderFits([orders[q] EXCEPT !.pc = "offered", !.door = door,
                             !.invoice = [msat |-> m, age |-> "payable", paid |-> FALSE]], q \in claimedInvoices)
<1> DEFINE o == orders[q]  y == [o EXCEPT !.pc = "offered", !.door = door,
                             !.invoice = [msat |-> m, age |-> "payable", paid |-> FALSE]]
<1>1. o \in OrderRecords /\ OrderFits(o, q \in claimedInvoices)
  BY DEF ShopInv, OrdersFit, OrderFits
<1>2. o.pc \in {"new", "offered"} /\ door \in {"lightning", "proxy"} /\ m \in Nat /\ m >= MinMsat
  OBVIOUS
<1> HIDE DEF o
<1>3. y \in OrderRecords
  BY <1>1, <1>2 DEF OrderRecords, Invoices, Ages, FixedDoors
<1>4. /\ y.pc = "offered" /\ y.door = door /\ y.net = o.net /\ y.asked = o.asked
      /\ y.held = o.held /\ y.due = o.due /\ y.moved = o.moved /\ y.whole = o.whole
      /\ y.outcome = o.outcome /\ y.said = o.said /\ y.row = o.row
      /\ y.invoice = [msat |-> m, age |-> "payable", paid |-> FALSE] /\ y.today = o.today
  BY <1>1 DEF OrderRecords, Invoices, Ages, FixedDoors
<1> HIDE DEF y
<1>5. OrderFits(y, q \in claimedInvoices)
  BY <1>1, <1>2, <1>3, <1>4 DEF OrderFits, OpenFits, UsdcFits, SatsFits, SoldForUsdc
<1> QED BY <1>5 DEF o, y

\* It is paid.
LEMMA PaidFits ==
    ASSUME ShopInv, NEW q \in ShopCalls, orders[q].pc = "offered", orders[q].invoice.age = "payable"
    PROVE  OrderFits([orders[q] EXCEPT !.pc = "signed", !.net = "sats", !.invoice.paid = TRUE],
                     q \in claimedInvoices)
<1> DEFINE o == orders[q]  v == [o.invoice EXCEPT !.paid = TRUE]
           y == [o EXCEPT !.pc = "signed", !.net = "sats", !.invoice = v]
<1>1. o \in OrderRecords /\ OrderFits(o, q \in claimedInvoices) /\ o.invoice \in Invoices
  BY DEF ShopInv, OrdersFit, OrderFits, OrderRecords
<1>2. o.pc = "offered" /\ o.invoice.age = "payable"
  OBVIOUS
<1>6. [o EXCEPT !.pc = "signed", !.net = "sats", !.invoice.paid = TRUE] = y
  BY <1>1
<1> HIDE DEF o
<1>7. v \in Invoices /\ v.paid /\ v.age = o.invoice.age /\ v.msat = o.invoice.msat
  BY <1>1 DEF Invoices
<1> HIDE DEF v
<1>3. y \in OrderRecords
  BY <1>1, <1>2, <1>7 DEF OrderRecords
<1>4. /\ y.pc = "signed" /\ y.door = o.door /\ y.net = "sats" /\ y.asked = o.asked
      /\ y.held = o.held /\ y.due = o.due /\ y.moved = o.moved /\ y.whole = o.whole
      /\ y.outcome = o.outcome /\ y.said = o.said /\ y.row = o.row /\ y.invoice = v
      /\ y.today = o.today
  BY <1>1 DEF OrderRecords
<1> HIDE DEF y
<1>5. OrderFits(y, q \in claimedInvoices)
  BY <1>1, <1>2, <1>3, <1>4, <1>7 DEF OrderFits, OpenFits, UsdcFits, SatsFits, SoldForUsdc
<1> QED BY <1>5, <1>6 DEF o

\* It ages.
LEMMA AgedFits ==
    ASSUME ShopInv, NEW q \in ShopCalls, orders[q].pc # "done", orders[q].invoice.age # "none",
           NEW a \in Ages, a # "none"
    PROVE  OrderFits([orders[q] EXCEPT !.invoice.age = a], q \in claimedInvoices)
<1> DEFINE o == orders[q]  v == [o.invoice EXCEPT !.age = a]
           y == [o EXCEPT !.invoice = v]
<1>1. o \in OrderRecords /\ OrderFits(o, q \in claimedInvoices) /\ o.invoice \in Invoices
  BY DEF ShopInv, OrdersFit, OrderFits, OrderRecords
<1>2. o.pc # "done" /\ o.invoice.age # "none" /\ a \in Ages /\ a # "none"
  OBVIOUS
<1>6. [o EXCEPT !.invoice.age = a] = y
  BY <1>1
<1> HIDE DEF o
<1>7. v \in Invoices /\ v.paid = o.invoice.paid /\ v.age = a /\ v.msat = o.invoice.msat
  BY <1>1, <1>2 DEF Invoices
<1> HIDE DEF v
<1>3. y \in OrderRecords
  BY <1>1, <1>2, <1>7 DEF OrderRecords
<1>4. /\ y.pc = o.pc /\ y.door = o.door /\ y.net = o.net /\ y.asked = o.asked /\ y.held = o.held
      /\ y.due = o.due /\ y.moved = o.moved /\ y.whole = o.whole /\ y.outcome = o.outcome
      /\ y.said = o.said /\ y.row = o.row /\ y.invoice = v /\ y.today = o.today
  BY <1>1 DEF OrderRecords
<1> HIDE DEF y
<1>5. OrderFits(y, q \in claimedInvoices)
  BY <1>1, <1>2, <1>3, <1>4, <1>7 DEF OrderFits, OpenFits, UsdcFits, SatsFits, SoldForUsdc
<1> QED BY <1>5, <1>6 DEF o

\* The proof is claimed, at a price of that day.
LEMMA ClaimedFits ==
    ASSUME ShopInv, NEW q \in ShopCalls, orders[q].pc = "signed", orders[q].net = "sats",
           NEW t \in Nat, ~PriceMoved(orders[q].invoice.msat, t)
    PROVE  OrderFits([orders[q] EXCEPT !.pc = "verified", !.moved = orders[q].invoice.msat, !.today = t], TRUE)
<1> DEFINE o == orders[q]
           y == [o EXCEPT !.pc = "verified", !.moved = o.invoice.msat, !.today = t]
<1>1. o \in OrderRecords /\ OrderFits(o, q \in claimedInvoices) /\ o.invoice \in Invoices
  BY DEF ShopInv, OrdersFit, OrderFits, OrderRecords
<1>2. o.pc = "signed" /\ o.net = "sats" /\ t \in Nat /\ ~PriceMoved(o.invoice.msat, t)
  OBVIOUS
<1> HIDE DEF o
<1>6. o.invoice.msat \in Nat
  BY <1>1 DEF Invoices
<1>3. y \in OrderRecords
  BY <1>1, <1>2, <1>6 DEF OrderRecords
<1>4. /\ y.pc = "verified" /\ y.door = o.door /\ y.net = o.net /\ y.asked = o.asked
      /\ y.held = o.held /\ y.due = o.due /\ y.moved = o.invoice.msat /\ y.whole = o.whole
      /\ y.outcome = o.outcome /\ y.said = o.said /\ y.row = o.row /\ y.invoice = o.invoice
      /\ y.today = t
  BY <1>1 DEF OrderRecords
<1> HIDE DEF y
<1>5. OrderFits(y, TRUE)
  BY <1>1, <1>2, <1>3, <1>4 DEF OrderFits, OpenFits, UsdcFits, SatsFits, SoldForUsdc
<1> QED BY <1>5 DEF o, y

\* The proof is refused: too old, or the price moved.
LEMMA TurnedAwayFits ==
    ASSUME ShopInv, NEW q \in ShopCalls, orders[q].pc = "signed", orders[q].net = "sats",
           NEW t \in Nat, orders[q].invoice.age = "gone" \/ PriceMoved(orders[q].invoice.msat, t)
    PROVE  OrderFits([Over(orders[q], "none", "refused") EXCEPT !.today = t], q \in claimedInvoices)
<1> DEFINE o == orders[q]
           y == [Over(o, "none", "refused") EXCEPT !.today = t]
<1>1. o \in OrderRecords /\ OrderFits(o, q \in claimedInvoices)
  BY DEF ShopInv, OrdersFit, OrderFits
<1>2. /\ o.pc = "signed" /\ o.net = "sats" /\ t \in Nat
      /\ o.invoice.age = "gone" \/ PriceMoved(o.invoice.msat, t)
  OBVIOUS
<1> HIDE DEF o
<1>3. y \in OrderRecords
  BY <1>1, <1>2 DEF OrderRecords, Over
<1>4. /\ y.pc = "done" /\ y.door = o.door /\ y.net = o.net /\ y.asked = o.asked
      /\ y.held = o.held /\ y.due = o.due /\ y.moved = o.moved /\ y.whole = o.whole
      /\ y.outcome = "none" /\ y.said = "refused" /\ y.row = o.row /\ y.invoice = o.invoice
      /\ y.today = t
  BY <1>1 DEF OrderRecords, Over
<1> HIDE DEF y
<1>5. OrderFits(y, q \in claimedInvoices)
  BY <1>1, <1>2, <1>3, <1>4 DEF OrderFits, OpenFits, UsdcFits, SatsFits, SoldForUsdc
<1> QED BY <1>5 DEF o, y

-----------------------------------------------------------------------------
LEMMA OrdersStay ==
    ASSUME ShopInv, orders' = orders, claimedInvoices' = claimedInvoices
    PROVE  OrdersFit'
  BY DEF ShopInv, OrdersFit

LEMMA RateStaysRead ==
    ASSUME ShopInv, RateWasRead
    PROVE  rateMemo' \in [rate : Nat, fresh : BOOLEAN]
<1>1. RateNow \in Nat /\ rateMemo \in [rate : Nat, fresh : BOOLEAN]
  BY RateNowIsRead DEF ShopInv, TillFits
<1> QED BY <1>1 DEF RateWasRead

\* What an order is when it is the buyer's turn, or ours.
LEMMA OrderIs ==
    ASSUME ShopInv, NEW q \in ShopCalls
    PROVE  /\ orders[q] \in OrderRecords
           /\ orders[q].pc \in {"new", "offered"} => orders[q].net = "none"
           /\ orders[q].pc = "verified" /\ orders[q].net # "sats" => orders[q].asked > 0
           /\ orders[q].net = "sats" =>
                orders[q].invoice.paid /\ orders[q].invoice.msat >= MinMsat /\ orders[q].invoice.msat \in Nat
<1> DEFINE o == orders[q]
<1>1. o \in OrderRecords /\ OrderFits(o, q \in claimedInvoices)
  BY DEF ShopInv, OrdersFit, OrderFits
<1> HIDE DEF o
<1>2. o.net = "sats" => o.invoice.paid /\ o.invoice.msat >= MinMsat
  BY <1>1 DEF OrderFits, OpenFits, SatsFits
<1>3. o.invoice.msat \in Nat
  BY <1>1 DEF OrderRecords, Invoices
<1>4. o.pc \in {"new", "offered"} => o.net = "none"
  BY <1>1 DEF OrderFits, OpenFits
<1>5. o.pc = "verified" /\ o.net # "sats" => o.asked > 0
  BY <1>1 DEF OrderFits, UsdcFits
<1> QED BY <1>1, <1>2, <1>3, <1>4, <1>5 DEF o

LEMMA AsksKeeps ==
    ASSUME ShopInv, NEW q \in ShopCalls, NEW door \in FixedDoors \cup {"upto"}, Asks(q, door)
    PROVE  ShopInv'
<1>1. orders[q].pc = "new" /\ door \in {"upto"} \cup FixedDoors
  BY DEF Asks
<1>2. OrderFits([orders[q] EXCEPT !.pc = "offered", !.door = door], q \in claimedInvoices)
  BY <1>1, AskedFits
<1>3. /\ UNCHANGED <<shop, tillVars>>
      /\ Put(q, [orders[q] EXCEPT !.pc = "offered", !.door = door])
  BY DEF Asks
<1> QED BY <1>2, <1>3, OneMoves

LEMMA SignsKeeps ==
    ASSUME ShopInv, NEW q \in ShopCalls, NEW n \in {"arc", "base", "solana"}, Signs(q, n)
    PROVE  ShopInv'
<1> DEFINE a == AskedOn(orders[q].door, n)
<1>1. orders[q].pc = "offered"
  BY DEF Signs
<1>2. a \in Nat /\ a > 0
  BY AskedIsEnough DEF ShopInv
<1>3. /\ UNCHANGED <<shop, tillVars>>
      /\ Put(q, [orders[q] EXCEPT !.pc = "signed", !.net = n, !.asked = a])
  BY DEF Signs
<1> HIDE DEF a
<1>4. OrderFits([orders[q] EXCEPT !.pc = "signed", !.net = n, !.asked = a], q \in claimedInvoices)
  BY <1>1, <1>2, SignedFits
<1> QED BY <1>3, <1>4, OneMoves

LEMMA DeclinesKeeps ==
    ASSUME ShopInv, NEW q \in ShopCalls, Declines(q)
    PROVE  ShopInv'
<1>1. orders[q].pc = "offered" /\ orders[q].net # "sats"
  BY OrderIs DEF Declines
<1>2. OrderFits(Over(orders[q], "none", "stopped"), q \in claimedInvoices)
  BY <1>1, EndFits
<1>3. UNCHANGED <<shop, tillVars>> /\ Put(q, Over(orders[q], "none", "stopped"))
  BY DEF Declines
<1> QED BY <1>2, <1>3, OneMoves

LEMMA VerifiesKeeps ==
    ASSUME ShopInv, NEW q \in ShopCalls, Verifies(q)
    PROVE  ShopInv'
<1> DEFINE o == orders[q]
           h == IF o.door = "upto" /\ o.net = "solana" THEN o.asked ELSE 0
<1>1. orders[q].pc = "signed" /\ orders[q].net # "sats" /\ UNCHANGED <<shop, tillVars>>
  BY DEF Verifies
<1>2. \/ Put(q, [orders[q] EXCEPT !.pc = "verified", !.held = h])
      \/ Put(q, Over(orders[q], "none", "refused"))
  BY DEF Verifies
<1>3. h \in Nat
  BY OrderIs DEF OrderRecords
<1> HIDE DEF h
<1>4. OrderFits([orders[q] EXCEPT !.pc = "verified", !.held = h], q \in claimedInvoices)
  BY <1>1, <1>3, VerifiedFits
<1>5. OrderFits(Over(orders[q], "none", "refused"), q \in claimedInvoices)
  BY <1>1, EndFits
<1> QED BY <1>1, <1>2, <1>4, <1>5, OneMoves

\* A route answers, from a copy, anew or by the agent, or it fails.
LEMMA HandlesKeeps ==
    ASSUME ShopInv, NEW q \in ShopCalls,
           AnswersFromCopy(q) \/ AnswersAnew(q) \/ BadInput(q) \/ AgentAnswers(q)
    PROVE  ShopInv'
<1>1. /\ orders[q].pc = "verified" /\ UNCHANGED <<shop, tillVars>>
      /\ \/ Put(q, [orders[q] EXCEPT !.pc = "answered", !.whole = TRUE, !.due = orders[q].asked])
         \/ Put(q, Dropped(orders[q]))
         \/ \E b \in 1..orders[q].asked :
              Put(q, [orders[q] EXCEPT !.pc = "answered", !.whole = TRUE, !.due = b])
  <2>1. CASE AnswersFromCopy(q)
    BY <2>1 DEF AnswersFromCopy
  <2>2. CASE AnswersAnew(q)
    BY <2>2 DEF AnswersAnew
  <2>3. CASE BadInput(q)
    BY <2>3 DEF BadInput
  <2>4. CASE AgentAnswers(q)
    BY <2>4 DEF AgentAnswers
  <2> QED BY <2>1, <2>2, <2>3, <2>4
<1>2. orders[q].asked \in Nat /\ (orders[q].net # "sats" => orders[q].asked > 0)
  BY <1>1, OrderIs DEF OrderRecords
<1>3. \A d \in Nat : (orders[q].net # "sats" => d > 0 /\ d <= orders[q].asked)
        => OrderFits([orders[q] EXCEPT !.pc = "answered", !.whole = TRUE, !.due = d], q \in claimedInvoices)
  BY <1>1, AnsweredFits
<1>4. CASE Put(q, [orders[q] EXCEPT !.pc = "answered", !.whole = TRUE, !.due = orders[q].asked])
  <2> DEFINE d == orders[q].asked
  <2>1. d \in Nat /\ (orders[q].net # "sats" => d > 0 /\ d <= orders[q].asked)
    BY <1>2
  <2>2. OrderFits([orders[q] EXCEPT !.pc = "answered", !.whole = TRUE, !.due = d], q \in claimedInvoices)
    <3> HIDE DEF d
    <3> QED BY <1>3, <2>1
  <2> QED BY <1>1, <1>4, <2>2, OneMoves
<1>5. CASE Put(q, Dropped(orders[q]))
  <2>1. OrderFits(Dropped(orders[q]), q \in claimedInvoices)
    BY <1>1, DroppedFits
  <2> QED BY <1>1, <1>5, <2>1, OneMoves
<1>6. CASE \E b \in 1..orders[q].asked :
              Put(q, [orders[q] EXCEPT !.pc = "answered", !.whole = TRUE, !.due = b])
  <2>1. PICK b \in 1..orders[q].asked :
              Put(q, [orders[q] EXCEPT !.pc = "answered", !.whole = TRUE, !.due = b])
    BY <1>6
  <2>2. b \in Nat /\ b > 0 /\ b <= orders[q].asked
    BY <1>2
  <2>3. OrderFits([orders[q] EXCEPT !.pc = "answered", !.whole = TRUE, !.due = b], q \in claimedInvoices)
    BY <1>3, <2>2
  <2> QED BY <1>1, <2>1, <2>3, OneMoves
<1> QED BY <1>1, <1>4, <1>5, <1>6

LEMMA SettlesAfterKeeps ==
    ASSUME ShopInv, NEW q \in ShopCalls, SettlesAfter(q)
    PROVE  ShopInv'
<1> DEFINE o == orders[q]
           Paid(outcome, what) == [Over(o, outcome, what) EXCEPT !.moved = o.due, !.held = 0]
<1>1. orders[q].pc = "answered" /\ orders[q].net # "sats" /\ UNCHANGED <<shop, tillVars>>
  BY DEF SettlesAfter
<1>2. o \in OrderRecords
  BY OrderIs
<1>3. /\ Settled(o) = Paid("settled", "delivered")
      /\ [Settled(o) EXCEPT !.outcome = "failed", !.said = "refused"] = Paid("failed", "refused")
      /\ [Settled(o) EXCEPT !.said = "stopped"] = Paid("settled", "stopped")
  <2> HIDE DEF o
  <2> QED BY <1>2 DEF Settled, Over, OrderRecords
<1>4. \/ Put(q, Paid("settled", "delivered"))
      \/ Put(q, [Over(o, "failed", "refused") EXCEPT !.held = 0])
      \/ Put(q, Paid("failed", "refused"))
      \/ Put(q, Paid("settled", "stopped"))
  <2>1. \/ Put(q, Settled(o))
        \/ Put(q, [Over(o, "failed", "refused") EXCEPT !.held = 0])
        \/ Put(q, [Settled(o) EXCEPT !.outcome = "failed", !.said = "refused"])
        \/ Put(q, [Settled(o) EXCEPT !.said = "stopped"])
    BY DEF SettlesAfter
  <2> HIDE DEF o, Paid
  <2> QED BY <1>3, <2>1
<1>5. \A outcome \in {"settled", "failed"}, what \in {"delivered", "refused", "stopped"} :
        OrderFits(Paid(outcome, what), q \in claimedInvoices)
  BY <1>1, SettledFits
<1>6. OrderFits([Over(o, "failed", "refused") EXCEPT !.held = 0], q \in claimedInvoices)
  BY <1>1, RefusedFits
<1>7. /\ OrderFits(Paid("settled", "delivered"), q \in claimedInvoices)
      /\ OrderFits(Paid("failed", "refused"), q \in claimedInvoices)
      /\ OrderFits(Paid("settled", "stopped"), q \in claimedInvoices)
  <2> HIDE DEF Paid
  <2> QED BY <1>5
<1> HIDE DEF Paid, o
<1> QED BY <1>1, <1>4, <1>6, <1>7, OneMoves

LEMMA InvoicedKeeps ==
    ASSUME ShopInv, NEW q \in ShopCalls, NEW door \in {"lightning", "proxy"}, Invoiced(q, door),
           orders[q].pc = IF door = "lightning" THEN "new" ELSE "offered"
    PROVE  ShopInv'
<1> DEFINE t == TodayMsat
           unavailable == Over([orders[q] EXCEPT !.door = "lightning"], "none", "unavailable")
           offered == [orders[q] EXCEPT !.pc = "offered", !.door = door,
                                        !.invoice = [msat |-> t, age |-> "payable", paid |-> FALSE]]
<1>1. /\ RateWasRead /\ shop' = shop /\ quotes' = quotes /\ claimedInvoices' = claimedInvoices
      /\ \/ window' = window
         \/ window' = window + 1 /\ window < InvoicesPerMinute
  BY DEF Invoiced
<1>2. \/ door = "lightning" /\ Put(q, unavailable)
      \/ door # "lightning" /\ Put(q, orders[q])
      \/ t > 0 /\ Put(q, offered)
  BY DEF Invoiced
<1>3. t \in Nat /\ (t > 0 => t >= MinMsat)
  BY TodayCovers DEF ShopInv
<1> HIDE DEF t
<1>4. ShopFits' /\ TillFits'
  <2>1. window' \in 0..InvoicesPerMinute
    BY <1>1, StorefrontAssumption DEF ShopInv, TillFits
  <2>2. ShopFits'
    BY <1>1 DEF ShopInv, ShopFits
  <2> QED BY <1>1, <2>1, <2>2, RateStaysRead DEF ShopInv, TillFits
<1>5. door = "lightning" => OrderFits(unavailable, q \in claimedInvoices)
  BY UninvoicedFits
<1>6. t > 0 => OrderFits(offered, q \in claimedInvoices)
  BY <1>3, InvoicedFits
<1>7. OrderFits(orders[q], q \in claimedInvoices)
  BY DEF ShopInv, OrdersFit
<1> HIDE DEF unavailable, offered
<1>8. ASSUME NEW o, Put(q, o), OrderFits(o, q \in claimedInvoices) PROVE OrdersFit'
  <2>1. OrderFits(o, q \in claimedInvoices')
    BY <1>1, <1>8
  <2> QED BY <1>1, <1>8, <2>1, OneOneMoves
<1>9. OrdersFit'
  BY <1>2, <1>5, <1>6, <1>7, <1>8
<1> QED BY <1>4, <1>9 DEF ShopInv

LEMMA PaysKeeps ==
    ASSUME ShopInv, NEW q \in ShopCalls, InvoiceAges(q) \/ PaysInvoice(q)
    PROVE  ShopInv'
<1>1. CASE InvoiceAges(q)
  <2> DEFINE a == IF orders[q].invoice.age = "payable" THEN "expired" ELSE "gone"
  <2>1. /\ orders[q].invoice.age # "none" /\ orders[q].pc # "done" /\ UNCHANGED <<shop, tillVars>>
        /\ Put(q, [orders[q] EXCEPT !.invoice.age = a])
    BY <1>1 DEF InvoiceAges
  <2>2. a \in Ages /\ a # "none"
    BY DEF Ages
  <2> HIDE DEF a
  <2>3. OrderFits([orders[q] EXCEPT !.invoice.age = a], q \in claimedInvoices)
    BY <2>1, <2>2, AgedFits
  <2> QED BY <2>1, <2>3, OneMoves
<1>2. CASE PaysInvoice(q)
  <2>1. /\ orders[q].pc = "offered" /\ orders[q].invoice.age = "payable" /\ UNCHANGED <<shop, tillVars>>
        /\ Put(q, [orders[q] EXCEPT !.pc = "signed", !.net = "sats", !.invoice.paid = TRUE])
    BY <1>2 DEF PaysInvoice
  <2>2. OrderFits([orders[q] EXCEPT !.pc = "signed", !.net = "sats", !.invoice.paid = TRUE], q \in claimedInvoices)
    BY <2>1, PaidFits
  <2> QED BY <2>1, <2>2, OneMoves
<1> QED BY <1>1, <1>2

LEMMA SettlesFirstKeeps ==
    ASSUME ShopInv, NEW q \in ShopCalls, NEW i \in ShopCalls, SettlesFirst(q, i)
    PROVE  ShopInv'
<1> DEFINE o == orders[q]  t == TodayMsat
           served == [o EXCEPT !.pc = "verified", !.moved = o.invoice.msat, !.today = t]
           refused == [Over(o, "none", "refused") EXCEPT !.today = t]
<1>1. /\ orders[q].net = "sats" /\ orders[q].pc = "signed" /\ RateWasRead
      /\ shop' = shop /\ quotes' = quotes /\ window' = window
  BY DEF SettlesFirst
<1>2. \/ ProofHolds(q, q) /\ claimedInvoices' = claimedInvoices \cup {q} /\ Put(q, served)
      \/ /\ ~ProofHolds(q, q) \/ q \in claimedInvoices
         /\ Put(q, refused) /\ claimedInvoices' = claimedInvoices
      \/ orders' = orders /\ claimedInvoices' = claimedInvoices
  <2>1. CASE i = q
    BY <2>1 DEF SettlesFirst
  <2>2. CASE i # q
    BY <2>2 DEF SettlesFirst, ProofHolds
  <2> QED BY <2>1, <2>2
<1>3. t \in Nat /\ o.invoice.msat \in Nat /\ o.invoice.msat >= MinMsat /\ o.invoice.paid
  BY <1>1, TodayCovers, OrderIs DEF ShopInv
<1>4. ShopFits' /\ TillFits'
  <2>1. ShopFits'
    BY <1>1 DEF ShopInv, ShopFits
  <2> QED BY <1>1, <2>1, RateStaysRead DEF ShopInv, TillFits
<1>5. CloseEnough(o.invoice.msat) <=> ~PriceMoved(o.invoice.msat, t)
  <2> DEFINE x == (IF o.invoice.msat > t THEN o.invoice.msat - t ELSE t - o.invoice.msat) * 100
             y == t * PriceTolerance
  <2>1. x \in Nat /\ y \in Nat
    BY <1>3, StorefrontAssumption
  <2>2. CloseEnough(o.invoice.msat) <=> o.invoice.msat >= MinMsat /\ (t = 0 \/ x <= y)
    BY DEF CloseEnough
  <2>3. PriceMoved(o.invoice.msat, t) <=> t > 0 /\ x > y
    BY DEF PriceMoved
  <2> HIDE DEF x, y, t
  <2> QED BY <1>3, <2>1, <2>2, <2>3
<1>6. q \notin claimedInvoices
  <2>1. OrderFits(o, q \in claimedInvoices)
    BY DEF ShopInv, OrdersFit
  <2> QED BY <1>1, <2>1 DEF OrderFits
<1>7. ProofHolds(q, q) <=> o.invoice.age # "gone" /\ ~PriceMoved(o.invoice.msat, t)
  BY <1>3, <1>5 DEF ProofHolds
<1> HIDE DEF t
<1>8. CASE ProofHolds(q, q) /\ claimedInvoices' = claimedInvoices \cup {q} /\ Put(q, served)
  <2>1. OrderFits(served, TRUE)
    BY <1>1, <1>3, <1>7, <1>8, ClaimedFits
  <2>2. (q \in claimedInvoices') = TRUE
    BY <1>8
  <2> HIDE DEF served
  <2>3. OrderFits(served, q \in claimedInvoices')
    BY <2>1, <2>2
  <2>4. OrdersFit'
    BY <1>8, <2>3, OneOneMoves
  <2> QED BY <1>4, <2>4 DEF ShopInv
<1>9. CASE /\ ~ProofHolds(q, q) \/ q \in claimedInvoices
           /\ Put(q, refused) /\ claimedInvoices' = claimedInvoices
  <2>1. OrderFits(refused, q \in claimedInvoices)
    BY <1>1, <1>3, <1>6, <1>7, <1>9, TurnedAwayFits
  <2> HIDE DEF refused
  <2>2. OrderFits(refused, q \in claimedInvoices')
    BY <1>9, <2>1
  <2>3. OrdersFit'
    BY <1>9, <2>2, OneOneMoves
  <2> QED BY <1>4, <2>3 DEF ShopInv
<1>10. CASE orders' = orders /\ claimedInvoices' = claimedInvoices
  <2>1. OrdersFit'
    BY <1>10, OrdersStay
  <2> QED BY <1>4, <2>1 DEF ShopInv
<1> QED BY <1>2, <1>8, <1>9, <1>10

LEMMA ServesKeeps ==
    ASSUME ShopInv, NEW q \in ShopCalls, ServesPaid(q)
    PROVE  ShopInv'
<1>1. /\ orders[q].pc = "answered" /\ orders[q].net = "sats" /\ UNCHANGED <<shop, tillVars>>
      /\ Put(q, Over(orders[q], "settled", "delivered"))
  BY DEF ServesPaid
<1>2. OrderFits(Over(orders[q], "settled", "delivered"), q \in claimedInvoices)
  BY <1>1, ServedFits
<1> QED BY <1>1, <1>2, OneMoves

LEMMA RecordsKeeps ==
    ASSUME ShopInv, NEW q \in ShopCalls, Records(q)
    PROVE  ShopInv'
<1>1. /\ orders[q].pc = "done" /\ orders[q].row = "none" /\ UNCHANGED <<shop, tillVars>>
      /\ \E r \in {orders[q].outcome, "lost"} : Put(q, [orders[q] EXCEPT !.row = r])
  BY DEF Records
<1>2. PICK r \in {orders[q].outcome, "lost"} : Put(q, [orders[q] EXCEPT !.row = r])
  BY <1>1
<1>3. OrderFits([orders[q] EXCEPT !.row = r], q \in claimedInvoices)
  BY <1>1, RecordedFits
<1> QED BY <1>1, <1>2, <1>3, OneMoves

\* Copies age, rates age, minutes pass, prices move.
LEMMA WorldKeeps ==
    ASSUME ShopInv, Connects \/ CopyGoes \/ RateAges \/ NextMinute \/ QuotesMove
    PROVE  ShopInv'
<1>1. /\ shop' = shop /\ orders' = orders /\ claimedInvoices' = claimedInvoices
      /\ quotes' = quotes \/ quotes' \in Quotings
      /\ rateMemo' \in {rateMemo, [rateMemo EXCEPT !.fresh = FALSE]}
      /\ window' \in {window, 0}
  BY DEF Connects, CopyGoes, RateAges, NextMinute, QuotesMove, tillVars
<1>2. ShopFits'
  BY <1>1 DEF ShopInv, ShopFits
<1>3. /\ quotes \in Quotings /\ rateMemo \in [rate : Nat, fresh : BOOLEAN] /\ window \in 0..InvoicesPerMinute
      /\ InvoicesPerMinute \in Nat
  BY StorefrontAssumption DEF ShopInv, TillFits
<1>4. rateMemo' \in [rate : Nat, fresh : BOOLEAN]
  BY <1>1, <1>3
<1>5. window' \in 0..InvoicesPerMinute
  BY <1>1, <1>3
<1>6. TillFits'
  BY <1>1, <1>3, <1>4, <1>5 DEF TillFits
<1>7. OrdersFit'
  BY <1>1, OrdersStay
<1> QED BY <1>2, <1>6, <1>7 DEF ShopInv

LEMMA ShopStarts == ShopInit => ShopInv
<1> SUFFICES ASSUME ShopInit PROVE ShopInv
  OBVIOUS
<1>1. ShopFits
  <2>1. /\ shop.discovery \in {"none", "open", "cdp"} /\ shop.solana \in BOOLEAN
        /\ shop.openTakes \in {{"base"}, {"base", "solana"}} /\ shop.tag \in PriceTags /\ shop.route \in ShopRoutes
        /\ shop.discovery # "open" => shop.openTakes = {"base"}
    BY DEF ShopInit
  <2>2. <<shop.doors, shop.calls>> \in Openings
    BY DEF ShopInit
  <2>3. <<shop.doors, shop.calls>>[2] \subseteq ShopCalls
    BY <2>2, StorefrontAssumption
  <2> QED BY <2>1, <2>3 DEF ShopFits
<1>2. TillFits
  BY StorefrontAssumption DEF ShopInit, TillFits
<1>3. OrdersFit
  <2> DEFINE y == NewOrderOf
  <2>1. y \in OrderRecords
    BY DEF NewOrderOf, NoInvoice, OrderRecords, Invoices, Ages
  <2>2. /\ y.pc = "new" /\ y.net = "none" /\ y.asked = 0 /\ y.held = 0 /\ y.moved = 0 /\ y.outcome = "none"
        /\ y.said = "none" /\ y.row = "none" /\ ~y.invoice.paid /\ y.invoice.age = "none"
    BY DEF NewOrderOf, NoInvoice
  <2>3. claimedInvoices = {} /\ orders = [q \in ShopCalls |-> y]
    BY DEF ShopInit
  <2> HIDE DEF y
  <2>4. OrderFits(y, FALSE)
    BY <2>1, <2>2 DEF OrderFits, OpenFits, UsdcFits, SoldForUsdc
  <2>5. ASSUME NEW q \in ShopCalls PROVE OrderFits(orders[q], q \in claimedInvoices)
    <3>1. orders[q] = y /\ (q \in claimedInvoices) = FALSE
      BY <2>3
    <3> QED BY <2>4, <3>1
  <2> QED BY <2>1, <2>3, <2>5 DEF OrdersFit
<1> QED BY <1>1, <1>2, <1>3 DEF ShopInv

LEMMA ShopKeeps == ShopInv /\ [ShopNext]_shopVars => ShopInv'
<1> SUFFICES ASSUME ShopInv, [ShopNext]_shopVars PROVE ShopInv'
  OBVIOUS
<1>1. \A q \in shop.calls : q \in ShopCalls
  BY DEF ShopInv, ShopFits
<1>2. ASSUME NEW q \in shop.calls, NEW door \in FixedDoors \cup {"upto"}, Asks(q, door) PROVE ShopInv'
  BY <1>1, <1>2, AsksKeeps
<1>3. ASSUME NEW q \in shop.calls, NEW n \in {"arc", "base", "solana"}, Signs(q, n) PROVE ShopInv'
  BY <1>1, <1>3, SignsKeeps
<1>4. ASSUME NEW q \in shop.calls, NEW i \in shop.calls, SettlesFirst(q, i) PROVE ShopInv'
  BY <1>1, <1>4, SettlesFirstKeeps
<1>5. ASSUME NEW q \in shop.calls,
             \/ Declines(q) \/ Verifies(q) \/ AnswersFromCopy(q) \/ AnswersAnew(q) \/ BadInput(q)
             \/ AgentAnswers(q) \/ SettlesAfter(q)
      PROVE  ShopInv'
  BY <1>1, <1>5, DeclinesKeeps, VerifiesKeeps, HandlesKeeps, SettlesAfterKeeps
<1>6. ASSUME NEW q \in shop.calls, AsksForInvoice(q) \/ ProxyAddsInvoice(q) PROVE ShopInv'
  <2>1. CASE AsksForInvoice(q)
    <3>1. Invoiced(q, "lightning") /\ orders[q].pc = "new"
      BY <2>1 DEF AsksForInvoice
    <3> QED BY <1>1, <3>1, InvoicedKeeps
  <2>2. CASE ProxyAddsInvoice(q)
    <3>1. Invoiced(q, "proxy") /\ orders[q].pc = "offered"
      BY <2>2 DEF ProxyAddsInvoice
    <3> QED BY <1>1, <3>1, InvoicedKeeps
  <2> QED BY <1>6, <2>1, <2>2
<1>7. ASSUME NEW q \in shop.calls, InvoiceAges(q) \/ PaysInvoice(q) \/ ServesPaid(q) \/ Records(q) PROVE ShopInv'
  BY <1>1, <1>7, PaysKeeps, ServesKeeps, RecordsKeeps
<1>8. CASE Connects \/ CopyGoes \/ RateAges \/ NextMinute \/ QuotesMove
  BY <1>8, WorldKeeps
<1>9. CASE UNCHANGED shopVars
  <2>1. shop' = shop /\ orders' = orders /\ UNCHANGED tillVars
    BY <1>9 DEF shopVars, tillVars
  <2>2. ShopFits'
    BY <2>1 DEF ShopInv, ShopFits
  <2>3. TillFits' /\ claimedInvoices' = claimedInvoices
    BY <2>1 DEF ShopInv, TillFits, tillVars
  <2> QED BY <2>1, <2>2, <2>3, OrdersStay DEF ShopInv
<1> QED BY <1>2, <1>3, <1>4, <1>5, <1>6, <1>7, <1>8, <1>9 DEF ShopNext

\* For any prices, routes, tickers and number of calls: every rail of a 402 has
\* a facilitator that takes what it asks, a rate is one that two tickers stand
\* by and an invoice worth its price; an order is charged for a whole answer
\* what it cost and nothing for an error, an invoice is served once, for its own
\* request, near the day's price; and a row says what became of the money.
THEOREM NobodyPaysForLess == ShopSpec => []SoldHonestly
<1> QED BY ShopStarts, ShopKeeps, HonestThen, PTL DEF ShopSpec

\* What is counted of the copies, the tickers and the faults.
ShopRest == shelf \in BOOLEAN /\ quoteMoves \in 0..MaxQuoteMoves /\ shopFaults \in 0..MaxShopFaults

LEMMA ShopRestSteps == ShopRest /\ [ShopNext]_shopVars => ShopRest'
<1> SUFFICES ASSUME ShopRest, [ShopNext]_shopVars PROVE ShopRest'
  OBVIOUS
<1>1. MaxQuoteMoves \in Nat /\ MaxShopFaults \in Nat
  BY StorefrontAssumption
<1>2. ShopFault => shopFaults' \in 0..MaxShopFaults
  BY <1>1 DEF ShopFault, ShopRest
<1>3. CASE UNCHANGED shopVars
  BY <1>3 DEF shopVars, ShopRest
<1>4. CASE Connects \/ CopyGoes \/ RateAges \/ NextMinute
  BY <1>4 DEF Connects, CopyGoes, RateAges, NextMinute, tillVars, ShopRest
<1>5. CASE QuotesMove
  BY <1>1, <1>5 DEF QuotesMove, ShopRest
<1>6. ASSUME NEW q \in shop.calls,
             \/ \E door \in FixedDoors \cup {"upto"} : Asks(q, door)
             \/ \E n \in {"arc", "base", "solana"} : Signs(q, n)
             \/ Declines(q) \/ AnswersFromCopy(q) \/ BadInput(q) \/ AgentAnswers(q)
             \/ InvoiceAges(q) \/ PaysInvoice(q) \/ ServesPaid(q)
      PROVE  ShopRest'
  BY <1>6 DEF Asks, Signs, Declines, AnswersFromCopy, BadInput, AgentAnswers, InvoiceAges, PaysInvoice, ServesPaid,
              tillVars, ShopRest
<1>7. ASSUME NEW q \in shop.calls, Verifies(q) \/ SettlesAfter(q) \/ Records(q) PROVE ShopRest'
  <2>1. /\ shelf' = shelf /\ quoteMoves' = quoteMoves /\ (shopFaults' = shopFaults \/ ShopFault)
    BY <1>7 DEF Verifies, SettlesAfter, Records, tillVars
  <2> QED BY <1>2, <2>1 DEF ShopRest
<1>8. ASSUME NEW q \in shop.calls, AnswersAnew(q) PROVE ShopRest'
  <2>1. /\ shelf' \in BOOLEAN /\ UNCHANGED <<quoteMoves, shopFaults>>
    BY <1>8 DEF AnswersAnew, KeepsAnswer, tillVars
  <2> QED BY <2>1 DEF ShopRest
<1>9. ASSUME NEW q \in shop.calls, AsksForInvoice(q) \/ ProxyAddsInvoice(q) PROVE ShopRest'
  <2>1. /\ shelf' = shelf /\ quoteMoves' = quoteMoves /\ (shopFaults' = shopFaults \/ ShopFault)
    BY <1>9 DEF AsksForInvoice, ProxyAddsInvoice, Invoiced
  <2> QED BY <1>2, <2>1 DEF ShopRest
<1>10. ASSUME NEW q \in shop.calls, NEW i \in shop.calls, SettlesFirst(q, i) PROVE ShopRest'
  <2>1. /\ shelf' = shelf /\ quoteMoves' = quoteMoves /\ (shopFaults' = shopFaults \/ ShopFault)
    BY <1>10 DEF SettlesFirst
  <2> QED BY <1>2, <2>1 DEF ShopRest
<1> QED BY <1>3, <1>4, <1>5, <1>6, <1>7, <1>8, <1>9, <1>10 DEF ShopNext

LEMMA ShopTyped == ShopInv /\ ShopRest => ShopTypeOK
<1> SUFFICES ASSUME ShopInv, ShopRest PROVE ShopTypeOK
  OBVIOUS
<1>1. /\ shop.discovery \in {"none", "open", "cdp"} /\ shop.solana \in BOOLEAN
      /\ shop.openTakes \subseteq {"base", "solana"} /\ shop.tag \in PriceTags /\ shop.route \in ShopRoutes
  BY DEF ShopInv, ShopFits
<1>2. \A q \in ShopCalls : orders[q] \in OrderRecords
  BY DEF ShopInv, OrdersFit
<1>3. window \in Nat
  BY StorefrontAssumption DEF ShopInv, TillFits
<1>4. claimedInvoices \subseteq ShopCalls
  BY DEF ShopInv, OrdersFit
<1> QED BY <1>1, <1>2, <1>3, <1>4 DEF ShopRest, ShopTypeOK, OrderRecords

LEMMA ShopRestStarts == ShopInit => ShopRest
<1> SUFFICES ASSUME ShopInit PROVE ShopRest
  OBVIOUS
<1>1. shelf = FALSE /\ quoteMoves = 0 /\ shopFaults = 0
  BY DEF ShopInit
<1>2. shelf \in BOOLEAN
  BY <1>1
<1>3. quoteMoves \in 0..MaxQuoteMoves /\ shopFaults \in 0..MaxShopFaults
  BY <1>1, StorefrontAssumption
<1> QED BY <1>2, <1>3 DEF ShopRest

\* The shop's configuration, its orders, its copies and its till keep their types.
THEOREM ShopTypeCorrect == ShopSpec => []ShopTypeOK
<1> QED BY ShopRestStarts, ShopStarts, ShopKeeps, ShopRestSteps, ShopTyped, PTL DEF ShopSpec

-----------------------------------------------------------------------------
(***************************************************************************)
(* The services beside each other (MCServices): a step is of one of them,  *)
(* so each keeps what it keeps alone.                                      *)
(***************************************************************************)

LEMMA StepIsOfOne ==
    [ServicesNext]_servicesVars =>
      /\ [ThinkNext]_thinkVars /\ [FacNext]_facVars /\ [LaneNext]_laneVars /\ [JobsNext]_jobsVars
      /\ [CatNext]_catVars /\ [ShopNext]_shopVars /\ [ConsoleNext]_consoleVars
<1> SUFFICES ASSUME [ServicesNext]_servicesVars
             PROVE  /\ [ThinkNext]_thinkVars /\ [FacNext]_facVars /\ [LaneNext]_laneVars /\ [JobsNext]_jobsVars
                    /\ [CatNext]_catVars /\ [ShopNext]_shopVars /\ [ConsoleNext]_consoleVars
  OBVIOUS
<1>1. CASE UNCHANGED servicesVars
  <2>1. /\ thinkVars' = thinkVars /\ facVars' = facVars /\ laneVars' = laneVars /\ jobsVars' = jobsVars
        /\ catVars' = catVars /\ shopVars' = shopVars /\ consoleVars' = consoleVars
    BY <1>1 DEF servicesVars
  <2> QED BY <2>1
<1>2. CASE ServicesNext
  BY <1>2 DEF ServicesNext
<1> QED BY <1>1, <1>2

\* Whichever service runs, and from each of its starts, the variables of all of
\* them keep their types.
THEOREM ServicesTypeCorrect == ServicesSpec => []ServicesTypeOK
<1>1. ServicesInit =>
        /\ ThinkInv /\ FacInv /\ LaneInv /\ LaneRest /\ JobsInv /\ JobsRest
        /\ CatInv /\ ListingsRest /\ ShopInv /\ ShopRest /\ ConInv /\ PageRest
  <2> SUFFICES ASSUME ServicesInit
               PROVE  /\ ThinkInv /\ FacInv /\ LaneInv /\ LaneRest /\ JobsInv /\ JobsRest
                      /\ CatInv /\ ListingsRest /\ ShopInv /\ ShopRest /\ ConInv /\ PageRest
    OBVIOUS
  <2>1. ThinkInit /\ FacInit /\ LaneInit /\ JobsInit /\ CatInit /\ ShopInit /\ ConsoleInit
    BY DEF ServicesInit
  <2> QED BY <2>1, ThinkStarts, FacStarts, LaneStarts, LaneRestStarts, JobsStart, JobsRestStarts, CatStarts,
             ListingsRestStarts, ShopStarts, ShopRestStarts, ConsoleStarts, PageRestStarts
<1>2. ThinkInv /\ FacInv => ThinkTypeOK /\ FacTypeOK
  BY DEF ThinkInv, FacInv
<1>3. ThinkTypeOK /\ FacTypeOK /\ LaneTypeOK /\ JobsTypeOK /\ CatTypeOK /\ ShopTypeOK /\ ConsoleTypeOK
      => ServicesTypeOK
  BY DEF ServicesTypeOK
<1> QED BY <1>1, <1>2, <1>3, StepIsOfOne, ThinkStep, FacStep, LaneKeeps, LaneRestSteps, LaneTyped,
           JobsSteps, JobsRestSteps, JobsTyped, CatKeeps, ListingsRestSteps, ListingsTyped,
           ShopKeeps, ShopRestSteps, ShopTyped, ConsoleKeeps, PageRestSteps, PageTyped, PTL DEF ServicesSpec

=============================================================================
