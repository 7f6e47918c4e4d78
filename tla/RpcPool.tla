------------------------------- MODULE RpcPool -------------------------------
(***************************************************************************)
(* The collector's JSON-RPC router (packages/collector/src/rpc) and the    *)
(* checks that bind it to one chain (startup.ts).  Several workers share   *)
(* the endpoints' records; a request keeps what it has tried, and reads    *)
(* the records again after every answer it awaits.                         *)
(***************************************************************************)
EXTENDS Integers, FiniteSets, Sequences, SequencesExt

CONSTANTS
    Endpoints, Priority,   \* ARC_RPC_URLS, and the place of each in it
    Networks,              \* which chain each endpoint may serve
    BatchLimit,            \* the largest batch it takes
    LimitTold,             \* the number its refusal names
    Callers,               \* workers with a request
    Sizes,                 \* calls in a request
    Excludes,              \* per caller, what its requests may leave out
    MaxAttempts,
    LagTolerance,
    MaxHeight, MaxPoolFaults   \* bounds

Chains == {"ours", "other id", "other genesis"}
Whole == 1000              \* Number.MAX_SAFE_INTEGER: no limit learned

ASSUME RpcPoolAssumption ==
    /\ IsFiniteSet(Endpoints)
    /\ Priority \in [Endpoints -> Nat]
    /\ \A e, f \in Endpoints : Priority[e] = Priority[f] => e = f
    /\ Networks \subseteq [Endpoints -> Chains]
    /\ Excludes \in [Callers -> SUBSET SUBSET Endpoints]
    /\ BatchLimit \in [Endpoints -> Nat \ {0}] /\ LimitTold \in [Endpoints -> Nat]
    /\ Sizes \subseteq 1..(Whole - 1)
    /\ MaxAttempts \in Nat \ {0}
    /\ LagTolerance \in Nat /\ MaxHeight \in Nat /\ MaxPoolFaults \in Nat

NoChain == "none"
NoEndpoint == "none"
NoHead == -1

VARIABLES
    serves,               \* the chain of each endpoint
    collector,            \* the process: off, checking the chain, running
    checked,              \* per endpoint, what verifyChain found
    boundTo,              \* collector_state `chain'
    endpoint,             \* EndpointState of each
    request,              \* per caller
    poolFaults

poolVars == <<serves, collector, checked, boundTo, endpoint, request, poolFaults>>

NewEndpoint == [cooling |-> FALSE, head |-> NoHead, maxBatch |-> Whole]

NoRequest == [pc |-> "idle", size |-> 1, exclude |-> {}, tried |-> {}, asked |-> {},
              attempt |-> 0, at |-> NoEndpoint, chunk |-> <<>>, got |-> <<>>,
              next |-> 1]

PoolTypeOK ==
    /\ serves \in Networks
    /\ collector \in {"off", "checking", "running"}
    /\ checked \in [Endpoints -> {"not yet", "verified", "disabled", "kept"}]
    /\ boundTo \in Chains \cup {NoChain}
    /\ endpoint \in [Endpoints -> [cooling : BOOLEAN,
                                   head : Nat \cup {NoHead}, maxBatch : 1..Whole]]
    /\ request \in [Callers ->
         [pc : {"idle", "choosing", "chosen", "waiting", "returned", "threw", "exhausted"},
          size : Sizes \cup {1}, exclude : SUBSET Endpoints, tried : SUBSET Endpoints,
          asked : SUBSET Endpoints, attempt : 0..MaxAttempts,
          at : Endpoints \cup {NoEndpoint}, chunk : Seq(Nat), got : Seq(Nat),
          next : Nat]]
    /\ poolFaults \in 0..MaxPoolFaults

PoolInit ==
    /\ serves \in Networks
    /\ collector = "off"
    /\ checked = [e \in Endpoints |-> "not yet"]
    /\ boundTo \in {NoChain, "ours"}
    /\ endpoint = [e \in Endpoints |-> NewEndpoint]
    /\ request = [c \in Callers |-> NoRequest]
    /\ poolFaults = 0

PoolFault ==
    /\ poolFaults < MaxPoolFaults
    /\ poolFaults' = poolFaults + 1

-----------------------------------------------------------------------------
(* Start-up: verifyChain *)

Boots ==
    /\ collector = "off"
    /\ collector' = "checking"
    /\ checked' = [e \in Endpoints |-> "not yet"]
    /\ endpoint' = [e \in Endpoints |-> NewEndpoint]
    /\ UNCHANGED <<serves, boundTo, request, poolFaults>>

\* An endpoint answers its chain id and its genesis, or it does not, and then
\* it is kept: "will be retried by the pool".
CheckEndpoint(e) ==
    /\ collector = "checking" /\ checked[e] = "not yet"
    /\ \/ /\ checked' = [checked EXCEPT ![e] = IF serves[e] = "other id" THEN "disabled" ELSE "verified"]
          /\ UNCHANGED poolFaults
       \/ checked' = [checked EXCEPT ![e] = "kept"] /\ PoolFault
    /\ UNCHANGED <<serves, collector, boundTo, endpoint, request>>

\* The chains of the endpoints that answered.
Geneses == {serves[e] : e \in {f \in Endpoints : checked[f] = "verified"}}

\* Slip: what the database holds is not compared.
AnyGenesis == Cardinality(Geneses) = 1

\* One genesis for all, and the one this database was bound to.
GenesisAgrees == Cardinality(Geneses) = 1 /\ (boundTo = NoChain \/ Geneses = {boundTo})

\* All have answered or failed: the workers start, or the process ends and its
\* supervisor starts it again.
Verified ==
    /\ collector = "checking" /\ \A e \in Endpoints : checked[e] # "not yet"
    /\ \/ /\ GenesisAgrees
          /\ collector' = "running"
          /\ boundTo' = IF boundTo = NoChain THEN CHOOSE g \in Geneses : TRUE ELSE boundTo
          /\ UNCHANGED poolFaults
       \/ /\ ~GenesisAgrees
          /\ PoolFault
          /\ collector' = "off"
          /\ UNCHANGED boundTo
    /\ UNCHANGED <<serves, checked, endpoint, request>>

\* The process stops, with its requests.
Stops ==
    /\ collector = "running" /\ PoolFault
    /\ collector' = "off"
    /\ request' = [c \in Callers |-> NoRequest]
    /\ UNCHANGED <<serves, checked, boundTo, endpoint>>

-----------------------------------------------------------------------------
(* Which endpoint: RpcPool.candidates *)

Heads == {endpoint[e].head : e \in Endpoints}

Lags(e) ==
    LET h == endpoint[e].head IN
    h # NoHead /\ \E best \in Heads : best - h > LagTolerance

Score(e, size) ==
    Priority[e] + (IF endpoint[e].cooling THEN 1000 ELSE 0)
                + (IF Lags(e) THEN 100 ELSE 0)
                + (IF endpoint[e].maxBatch < size THEN 50 ELSE 0)

Usable(r) == {e \in Endpoints : checked[e] # "disabled" /\ e \notin r.exclude}

\* What this request has not tried yet; everything again when it tried all.
Fresh(r) == IF Usable(r) \subseteq r.tried THEN Usable(r) ELSE Usable(r) \ r.tried

Best(S, size) == CHOOSE e \in S : \A f \in S : Score(e, size) <= Score(f, size)

-----------------------------------------------------------------------------
(* A request: RpcPool.batch and execute *)

Req(c, r) == request' = [request EXCEPT ![c] = r]

Asks(c, size, exclude) ==
    /\ collector = "running" /\ request[c].pc = "idle"
    /\ Req(c, [NoRequest EXCEPT !.pc = "choosing", !.size = size, !.exclude = exclude])
    /\ UNCHANGED <<serves, collector, checked, boundTo, endpoint, poolFaults>>

\* The best endpoint not tried yet, then the back-off and the wait for its
\* cooldown; none usable is an error.
Chooses(c) ==
    LET r == request[c] IN
    /\ r.pc = "choosing"
    /\ Req(c, IF Usable(r) = {} THEN [r EXCEPT !.pc = "threw"]
              ELSE [r EXCEPT !.pc = "chosen", !.at = Best(Fresh(r), r.size), !.got = <<>>,
                             !.next = 1,
                             !.tried = IF Usable(r) \subseteq @ THEN {} ELSE @])
    /\ UNCHANGED <<serves, collector, checked, boundTo, endpoint, poolFaults>>

\* The calls from i to j, named by their places.
Calls(i, j) == [k \in 1..(j - i + 1) |-> i + k - 1]

\* The next chunk is sent: all the calls, or as many as the endpoint's limit,
\* read now, allows.
Sends(c) ==
    LET r == request[c]
        limit == endpoint[r.at].maxBatch
        last == IF r.next + limit - 1 < r.size THEN r.next + limit - 1 ELSE r.size
    IN /\ r.pc = "chosen"
       /\ Req(c, [r EXCEPT !.pc = "waiting", !.chunk = Calls(r.next, last),
                           !.asked = @ \cup {r.at}])
       /\ UNCHANGED <<serves, collector, checked, boundTo, endpoint, poolFaults>>

\* Slip: chunks start one call early.
StepShort(r) == r.next + endpoint[r.at].maxBatch - 1

\* Where the next chunk starts: the limit is read again.
Step(r) == r.next + endpoint[r.at].maxBatch

\* Slip: the last chunk is forgotten.
EndsEarly(r) == Step(r) >= r.size

\* All calls have been sent?  A batch sent whole is alone.
Finished(r) == Len(r.chunk) = r.size \/ Step(r) > r.size

\* The chunk is answered, a result or an error the caller sees for each call.
Answers(c) ==
    LET r == request[c]
        got == r.got \o r.chunk
    IN /\ r.pc = "waiting" /\ Len(r.chunk) <= BatchLimit[r.at]
       /\ IF Finished(r)
          THEN /\ Req(c, [r EXCEPT !.pc = "returned", !.got = got, !.chunk = <<>>])
               /\ endpoint' = [endpoint EXCEPT ![r.at].cooling = FALSE]
          ELSE /\ Req(c, [r EXCEPT !.pc = "chosen", !.got = got, !.chunk = <<>>, !.next = Step(r)])
               /\ UNCHANGED endpoint
       /\ UNCHANGED <<serves, collector, checked, boundTo, poolFaults>>

Tried(r) == r.tried \cup {r.at}

\* Slip: the last attempt is never made.
AgainShort(r) ==
    [r EXCEPT !.attempt = @ + 1, !.chunk = <<>>,
              !.pc = IF r.attempt + 2 < MaxAttempts THEN "choosing" ELSE "exhausted"]

\* One attempt is over without an answer.
Again(r) ==
    [r EXCEPT !.attempt = @ + 1, !.chunk = <<>>,
              !.pc = IF r.attempt + 1 < MaxAttempts THEN "choosing" ELSE "exhausted"]

\* No answer, a rate limit, a server error, or nothing but errors worth another
\* endpoint: this one cools down.
Fails(c) ==
    LET r == request[c] IN
    /\ r.pc = "waiting"
    /\ PoolFault
    /\ endpoint' = [endpoint EXCEPT ![r.at].cooling = TRUE]
    /\ Req(c, [Again(r) EXCEPT !.tried = Tried(r)])
    /\ UNCHANGED <<serves, collector, checked, boundTo>>

\* A refusal that no endpoint would lift, such as HTTP 400.
FailsForGood(c) ==
    LET r == request[c] IN
    /\ r.pc = "waiting"
    /\ PoolFault
    /\ endpoint' = [endpoint EXCEPT ![r.at].cooling = TRUE]
    /\ Req(c, [r EXCEPT !.pc = "threw", !.chunk = <<>>])
    /\ UNCHANGED <<serves, collector, checked, boundTo>>

\* Slip: the number in the message is taken as it is.
LimitAsTold(e) == IF LimitTold[e] < endpoint[e].maxBatch THEN LimitTold[e] ELSE endpoint[e].maxBatch

\* The limit learned from a refusal, at least one call.
Learned(e) ==
    LET told == IF LimitTold[e] < 1 THEN 1 ELSE LimitTold[e]
    IN IF told < endpoint[e].maxBatch THEN told ELSE endpoint[e].maxBatch

\* The batch is too large for this endpoint, which says so.
LearnsLimit(c) ==
    LET r == request[c] IN
    /\ r.pc = "waiting" /\ Len(r.chunk) > BatchLimit[r.at]
    /\ endpoint' = [endpoint EXCEPT ![r.at].maxBatch = Learned(r.at)]
    /\ Req(c, Again(r))
    /\ UNCHANGED <<serves, collector, checked, boundTo, poolFaults>>

\* The worker goes on with what it got.
Takes(c) ==
    /\ request[c].pc \in {"returned", "threw", "exhausted"}
    /\ Req(c, NoRequest)
    /\ UNCHANGED <<serves, collector, checked, boundTo, endpoint, poolFaults>>

-----------------------------------------------------------------------------
(* The probe, and time *)

ProbeHead(e, h) ==
    /\ collector = "running" /\ checked[e] # "disabled"
    /\ h > endpoint[e].head
    /\ endpoint' = [endpoint EXCEPT ![e].head = h, ![e].cooling = FALSE]
    /\ UNCHANGED <<serves, collector, checked, boundTo, request, poolFaults>>

CooldownEnds(e) ==
    /\ endpoint[e].cooling
    /\ endpoint' = [endpoint EXCEPT ![e].cooling = FALSE]
    /\ UNCHANGED <<serves, collector, checked, boundTo, request, poolFaults>>

RequestStep(c) ==
    Chooses(c) \/ Sends(c) \/ Answers(c) \/ Fails(c) \/ FailsForGood(c) \/ LearnsLimit(c)

PoolNext ==
    \/ Boots \/ Verified \/ Stops
    \/ \E e \in Endpoints : CheckEndpoint(e) \/ CooldownEnds(e)
    \/ \E e \in Endpoints, h \in 0..MaxHeight : ProbeHead(e, h)
    \/ \E c \in Callers, n \in Sizes : \E x \in Excludes[c] : Asks(c, n, x)
    \/ \E c \in Callers : RequestStep(c) \/ Takes(c)

\* Every call is answered or times out.
PoolFairness == \A c \in Callers : WF_poolVars(RequestStep(c))

PoolSpec == PoolInit /\ [][PoolNext]_poolVars /\ PoolFairness

-----------------------------------------------------------------------------
(* Properties *)

\* What a request returns is one outcome for each of its calls, in the order
\* of the calls, whatever limit was learned meanwhile and however it was cut:
\* as long as an endpoint names the same limit each time.
AnswersInOrder ==
    \A c \in Callers :
        request[c].pc = "returned" => request[c].got = Calls(1, request[c].size)

\* A request gives up only when every endpoint it could use has been asked.
FailsOverBeforeFailing ==
    \A c \in Callers :
        request[c].pc = "exhausted" => Usable(request[c]) \subseteq request[c].asked

\* Has every request of c ended?  Again and again it has: the process never
\* spins on one endpoint.
Served(c) == request[c].pc \notin {"choosing", "chosen", "waiting"}

RequestsEnd == \A c \in Callers : []<>Served(c)

\* The workers never run with endpoints that answered for another chain than
\* the one the database was bound to.
BoundChainKept ==
    collector = "running" =>
        \A e \in Endpoints : checked[e] = "verified" => serves[e] = boundTo
=============================================================================
