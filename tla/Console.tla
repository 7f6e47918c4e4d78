------------------------------ MODULE Console ------------------------------
(***************************************************************************)
(* The think page (packages/web/src/think.ts): a run of the agent shown    *)
(* live while it goes, asked for once a second, and replayed at its pace   *)
(* when it is over; a look for a new run now and then; past runs to pick.  *)
(* Every answer of the API arrives when it arrives, whatever the visitor   *)
(* did meanwhile.  The API and its runs are external.                      *)
(***************************************************************************)
EXTENDS Integers, SequencesExt, FiniteSets

CONSTANTS
    LastRun,          \* runs, numbered as they start
    RunSteps,         \* steps of a run
    Reduced,          \* may the visitor prefer reduced motion?
    MaxLoops,         \* loops of live() that go on at the same time
    MaxVisits,        \* clicks of the visitor
    MaxSilences       \* requests the API does not answer

ASSUME ConsoleAssumption ==
    /\ LastRun \in Nat \ {0} /\ RunSteps \in Nat \ {0} /\ Reduced \subseteq BOOLEAN /\ Reduced # {}
    /\ MaxLoops \in Nat \ {0} /\ MaxVisits \in Nat /\ MaxSilences \in Nat

VARIABLES
    runs,             \* the API: each run's status and steps
    calm,             \* prefers-reduced-motion
    shown,            \* the run the console is on, as it was last read
    screen,           \* steps on the screen, each with its run
    bill, answer,     \* whose bill, up to which step; whose answer
    mode, label,      \* mode, and what the state line says of which run
    picked, goLive,   \* was a past run picked?  is "go live" on offer?
    loops,            \* the loops of live() that go on
    playing,          \* the timers of a replay
    idleTimer, heard, \* idle(): is its timer set?  answers it is about to see
    asking,           \* a run picked, or "go live", on the way to the API: one at a time
    started,          \* start()
    visits, silences,
    overtaken         \* history: an answer of a loop came after the console had moved on

consoleVars == <<runs, calm, shown, screen, bill, answer, mode, label, picked, goLive, loops,
                 playing, idleTimer, heard, asking, started, visits, silences, overtaken>>
face == <<shown, screen, bill, answer, mode, label, goLive, playing>>

NoRun == 0
Snapshot == [id : 0..LastRun, status : {"none", "running", "over"}, steps : 0..RunSteps]
Nothing == [id |-> NoRun, status |-> "none", steps |-> 0]
Read(r) == [id |-> r, status |-> runs[r].status, steps |-> runs[r].steps]
Begun == {r \in 1..LastRun : runs[r].status # "none"}

\* GET /v1/think/latest
Latest == IF Begun = {} THEN Nothing ELSE Read(CHOOSE r \in Begun : \A o \in Begun : o <= r)

ConsoleTypeOK ==
    /\ shown \in Snapshot /\ calm \in Reduced
    /\ mode \in {"live", "replay", "done", "empty"} /\ picked \in BOOLEAN /\ goLive \in BOOLEAN
    /\ Len(screen) <= RunSteps /\ Len(loops) <= MaxLoops
    /\ idleTimer \in BOOLEAN /\ heard \subseteq Snapshot /\ started \in {"no", "yes", "down"}
    /\ visits \in 0..MaxVisits /\ silences \in 0..MaxSilences

ConsoleInit ==
    /\ runs = [r \in 1..LastRun |-> [status |-> "none", steps |-> 0]]
    /\ calm \in Reduced
    /\ shown = Nothing /\ screen = <<>> /\ bill = [run |-> NoRun, upTo |-> 0] /\ answer = NoRun
    /\ mode = "empty" /\ label = [kind |-> "loading", run |-> NoRun]
    /\ picked = FALSE /\ goLive = FALSE
    /\ loops = <<>> /\ playing = [run |-> Nothing, next |-> 0]
    /\ idleTimer = FALSE /\ heard = {}
    /\ asking = [what |-> "nothing", run |-> NoRun]
    /\ started = "no"
    /\ visits = 0 /\ silences = 0 /\ overtaken = FALSE

NotPlaying == [run |-> Nothing, next |-> 0]
Silence == silences < MaxSilences /\ silences' = silences + 1

-----------------------------------------------------------------------------
(* The runs, as the API has them *)

RunBegins ==
    /\ \A r \in Begun : runs[r].status = "over"
    /\ Cardinality(Begun) < LastRun
    /\ runs' = [runs EXCEPT ![Cardinality(Begun) + 1] = [status |-> "running", steps |-> 0]]
    /\ UNCHANGED <<calm, face, picked, loops, idleTimer, heard, asking, started, visits, silences, overtaken>>

RunSteps1(r) ==
    /\ runs[r].status = "running"
    /\ \/ runs[r].steps < RunSteps /\ runs' = [runs EXCEPT ![r].steps = @ + 1]
       \/ runs' = [runs EXCEPT ![r].status = "over"]
    /\ UNCHANGED <<calm, face, picked, loops, idleTimer, heard, asking, started, visits, silences, overtaken>>

-----------------------------------------------------------------------------
(* What is drawn *)

\* Slip: the steps are drawn from the first again.
DrawnAgain(on, run, upTo) == on \o [k \in 1..upTo |-> [run |-> run.id, step |-> k]]

\* show: the run's steps from those already on the screen up to `upTo'.
Drawn(on, run, upTo) ==
    on \o [k \in 1..(IF upTo > Len(on) THEN upTo - Len(on) ELSE 0) |-> [run |-> run.id, step |-> Len(on) + k]]

\* What the steps on screen cost, and what the state line says.
Bill(run, upTo) == [run |-> run.id, upTo |-> upTo]
State(kind, run) == [kind |-> kind, run |-> run.id]

\* frame: the console is cleared for a run; stopTimers: no replay goes on.
Framed(run, upTo) ==
    /\ shown' = run /\ goLive' = FALSE /\ playing' = NotPlaying
    /\ screen' = Drawn(<<>>, run, upTo)
    /\ bill' = Bill(run, upTo)

\* live: everything so far, and a loop that asks for the rest.
GoesLive(run) ==
    /\ Len(loops) < MaxLoops
    /\ Framed(run, run.steps) /\ mode' = "live" /\ label' = State("live", run) /\ answer' = NoRun
    /\ loops' = Append(loops, [run |-> run.id, pc |-> "waiting", got |-> Nothing])

\* done: the whole run and its answer.
Done(run) ==
    /\ Framed(run, run.steps) /\ mode' = "done" /\ label' = State("done", run) /\ answer' = run.id
    /\ UNCHANGED loops

\* replay: nothing yet, and a timer for each step; done at once without motion.
Replays(run) ==
    IF calm THEN Done(run)
    ELSE /\ shown' = run /\ goLive' = FALSE /\ screen' = <<>> /\ bill' = Bill(run, 0)
         /\ playing' = [run |-> run, next |-> 1]
         /\ mode' = "replay" /\ label' = State("replay", run) /\ answer' = NoRun
         /\ UNCHANGED loops

ShownAsIs(run) == IF run.status = "running" THEN GoesLive(run) ELSE Replays(run)

\* A timer of the replay: the next step, and after the last one the end.
PlaysOn ==
    /\ playing.next > 0
    /\ IF playing.next <= playing.run.steps
       THEN /\ screen' = Drawn(screen, playing.run, playing.next)
            /\ bill' = Bill(playing.run, playing.next)
            /\ playing' = [playing EXCEPT !.next = @ + 1]
            /\ UNCHANGED <<shown, answer, mode, label, goLive, loops>>
       ELSE Done(playing.run)
    /\ UNCHANGED <<runs, calm, picked, idleTimer, heard, asking, started, visits, silences, overtaken>>

-----------------------------------------------------------------------------
(* The loop of live() *)

StillOn(l) == mode = "live" /\ shown.id = loops[l].run
Loop(l, pc, got) ==
    loops' = IF pc = "ended" THEN RemoveAt(loops, l) ELSE [loops EXCEPT ![l].pc = pc, ![l].got = got]

\* A second is over: the loop goes on only if the console is still on its run.
LoopAsks(l) ==
    /\ loops[l].pc = "waiting"
    /\ Loop(l, IF StillOn(l) THEN "asking" ELSE "ended", Nothing)
    /\ UNCHANGED <<runs, calm, face, picked, idleTimer, heard, asking, started, visits, silences, overtaken>>

\* The API reads the run, or does not answer and the loop waits again.
LoopIsRead(l) ==
    /\ loops[l].pc = "asking"
    /\ \/ /\ Loop(l, "read", Read(loops[l].run)) /\ UNCHANGED silences
       \/ /\ Silence /\ Loop(l, IF StillOn(l) THEN "waiting" ELSE "ended", Nothing)
    /\ UNCHANGED <<runs, calm, face, picked, idleTimer, heard, asking, started, visits, overtaken>>

\* Its answer is shown, and ends the run when the run is over.
LoopShows(l) ==
    LET next == loops[l].got IN
    /\ loops[l].pc = "read"
    /\ overtaken' = (overtaken \/ ~StillOn(l))
    /\ shown' = next
    /\ screen' = Drawn(screen, next, next.steps)
    /\ bill' = Bill(next, Len(screen'))
    /\ IF next.status = "running"
       THEN /\ Loop(l, IF mode = "live" THEN "waiting" ELSE "ended", Nothing)
            /\ UNCHANGED <<mode, label, answer, playing, idleTimer>>
       ELSE /\ Loop(l, "ended", Nothing)
            /\ mode' = "done" /\ label' = State("done", next) /\ answer' = next.id
            /\ playing' = NotPlaying
            /\ idleTimer' = TRUE
    /\ UNCHANGED <<runs, calm, picked, goLive, heard, asking, started, visits, silences>>

-----------------------------------------------------------------------------
(* idle(): a new run is looked for now and then *)

IdleReads ==
    /\ idleTimer /\ idleTimer' = FALSE
    /\ \/ /\ heard' = heard \cup {Latest} /\ UNCHANGED silences
       \/ /\ heard' = heard \cup {Nothing} /\ Silence
    /\ UNCHANGED <<runs, calm, face, picked, loops, asking, started, visits, overtaken>>

\* Its answer is gone over to when it is a new run that goes on and no past one
\* was picked; otherwise the timer is set again.
IdleSees(latest) ==
    LET new == latest.status = "running" /\ latest.id # shown.id IN
    /\ latest \in heard /\ heard' = heard \ {latest}
    /\ IF new /\ ~picked
       THEN GoesLive(latest) /\ UNCHANGED idleTimer
       ELSE /\ goLive' = (goLive \/ new) /\ idleTimer' = TRUE
            /\ UNCHANGED <<shown, screen, bill, answer, mode, label, playing, loops>>
    /\ UNCHANGED <<runs, calm, picked, asking, started, visits, silences, overtaken>>

-----------------------------------------------------------------------------
(* The visitor *)

Visit == visits < MaxVisits /\ visits' = visits + 1

\* A row of the history, or "go live", is clicked: the API is asked.
Clicks(what, r) ==
    /\ Visit /\ started # "no" /\ asking.what = "nothing"
    /\ IF what = "pick" THEN r \in Begun ELSE goLive /\ r = NoRun
    /\ asking' = [what |-> what, run |-> r]
    /\ UNCHANGED <<runs, calm, face, picked, loops, idleTimer, heard, started, silences, overtaken>>

\* pick, go live: what was asked for came.
ClickAnswered ==
    /\ asking.what # "nothing"
    /\ asking' = [what |-> "nothing", run |-> NoRun]
    /\ \/ /\ asking.what = "pick" /\ picked' = TRUE
          /\ ShownAsIs(Read(asking.run)) /\ UNCHANGED silences
       \/ /\ asking.what = "latest" /\ Latest.status = "running" /\ picked' = FALSE
          /\ GoesLive(Latest) /\ UNCHANGED silences
       \/ /\ asking.what = "latest" /\ Latest.status # "running"
          /\ UNCHANGED <<face, picked, loops, silences>>
       \/ /\ Silence /\ UNCHANGED <<face, picked, loops>>
    /\ UNCHANGED <<runs, calm, idleTimer, heard, started, visits, overtaken>>

\* "Replay" of a run that is over, "skip" of a replay.
ClicksReplay ==
    /\ Visit /\ label.kind = "done" /\ shown.steps > 0
    /\ Replays(shown)
    /\ UNCHANGED <<runs, calm, picked, idleTimer, heard, asking, started, silences, overtaken>>

ClicksSkip ==
    /\ Visit /\ label.kind = "replay"
    /\ Done(shown)
    /\ UNCHANGED <<runs, calm, picked, idleTimer, heard, asking, started, silences, overtaken>>

-----------------------------------------------------------------------------
(* start(): the run of the address, else the latest, else the example *)

Starts(asked) ==
    LET run == IF asked # NoRun THEN Read(asked) ELSE Latest IN
    /\ started = "no" /\ asked \in Begun \cup {NoRun}
    /\ \/ /\ started' = "yes" /\ picked' = (asked # NoRun) /\ UNCHANGED silences
          /\ IF run = Nothing
             THEN idleTimer' = TRUE /\ UNCHANGED <<face, loops>>
             ELSE ShownAsIs(run) /\ idleTimer' = (run.status # "running")
       \/ /\ Silence /\ started' = "down"
          /\ UNCHANGED <<face, loops, picked, idleTimer>>
    /\ UNCHANGED <<runs, calm, heard, asking, visits, overtaken>>

\* The logos came: a run that is over is drawn again with them.
LogosCome ==
    /\ started # "no" /\ mode = "done" /\ shown # Nothing
    /\ Done(shown)
    /\ UNCHANGED <<runs, calm, picked, idleTimer, heard, asking, started, visits, silences, overtaken>>

ConsoleNext ==
    \/ RunBegins \/ PlaysOn \/ IdleReads \/ ClickAnswered \/ ClicksReplay \/ ClicksSkip \/ LogosCome
    \/ \E r \in 1..LastRun : RunSteps1(r)
    \/ \E latest \in heard : IdleSees(latest)
    \/ \E l \in DOMAIN loops : LoopAsks(l) \/ LoopIsRead(l) \/ LoopShows(l)
    \/ \E r \in 0..LastRun : Clicks("pick", r) \/ Clicks("latest", r) \/ Starts(r)

ConsoleSpec == ConsoleInit /\ [][ConsoleNext]_consoleVars

-----------------------------------------------------------------------------
(* Properties *)

\* "Nothing is animated that did not happen": every step on the screen was
\* recorded, in its place in its run.  They are all of the run the console says
\* it shows, with its bill and no other's answer, unless a loop's answer came
\* after the console had moved on.
ScreenIsTheRun ==
    /\ \A k \in DOMAIN screen : screen[k].step = k /\ k <= runs[screen[k].run].steps
    /\ ~overtaken =>
         /\ \A k \in DOMAIN screen : screen[k].run = shown.id
         /\ mode # "empty" => label.run = shown.id
         /\ bill = [run |-> shown.id, upTo |-> Len(screen)]
         /\ answer \in {NoRun, shown.id}
         /\ answer # NoRun => runs[answer].status = "over" /\ Len(screen) = runs[answer].steps

\* "While nothing is live, look for a new run now and then": a loop goes on or
\* the timer is set, unless the visitor picked a run.
SomebodyLooks ==
    started = "yes" /\ ~picked =>
        \/ idleTimer \/ heard # {}
        \/ \E l \in DOMAIN loops : loops[l].pc = "read" \/ StillOn(l)

ConsoleHonest == ScreenIsTheRun /\ SomebodyLooks
=============================================================================
