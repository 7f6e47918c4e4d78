--------------------------- MODULE CollectorProofs ---------------------------
(***************************************************************************)
(* What the collector's parts may rely on, for every set of endpoints,     *)
(* callers, sizes, events and ranges: the outcomes of a request come in    *)
(* the order of its calls; the endpoints that answered at the start serve  *)
(* the chain the database is bound to; the workers that read logs save no  *)
(* cursor that has passed an event; the payments index holds what the API  *)
(* says it holds; and every variable of the collector keeps its type.      *)
(***************************************************************************)
EXTENDS MCCollector, IngestProofs, SequenceTheorems, FunctionTheorems

\* No endpoint names a smaller limit than the one it has.
HonestLimits ==
    \A e \in Endpoints : BatchLimit[e] <= (IF LimitTold[e] < 1 THEN 1 ELSE LimitTold[e])

\* The calls from i to j are a sequence of j - i + 1 calls.
LEMMA CallsFacts ==
    ASSUME NEW i \in Nat \ {0}, NEW j \in Nat, i <= j + 1
    PROVE  /\ Calls(i, j) \in Seq(Nat)
           /\ Len(Calls(i, j)) = (j + 1) - i
           /\ \A k \in 1..((j + 1) - i) : Calls(i, j)[k] = (i + k) - 1
<1> DEFINE n == (j + 1) - i
<1>1. n \in Nat /\ (j - i) + 1 = n
  OBVIOUS
<1>2. Calls(i, j) = [k \in 1..n |-> (i + k) - 1]
  BY <1>1 DEF Calls
<1>3. \A k \in 1..n : (i + k) - 1 \in Nat
  OBVIOUS
<1> HIDE DEF n
<1> QED
  BY <1>1, <1>2, <1>3 DEF n

\* The first m calls.
LEMMA FirstCalls ==
    ASSUME NEW m \in Nat
    PROVE  /\ Calls(1, m) \in Seq(Nat)
           /\ Len(Calls(1, m)) = m
           /\ \A k \in 1..m : Calls(1, m)[k] = k
<1>1. 1 \in Nat \ {0} /\ 1 <= m + 1 /\ (m + 1) - 1 = m
  OBVIOUS
<1>2. /\ Calls(1, m) \in Seq(Nat)
      /\ Len(Calls(1, m)) = (m + 1) - 1
      /\ \A k \in 1..((m + 1) - 1) : Calls(1, m)[k] = (1 + k) - 1
  BY <1>1, CallsFacts
<1>3. \A k \in 1..m : (1 + k) - 1 = k
  OBVIOUS
<1> QED
  BY <1>1, <1>2, <1>3

\* What was answered so far and the next chunk are the calls up to its end.
LEMMA CallsJoin ==
    ASSUME NEW i \in Nat \ {0}, NEW j \in Nat, i <= j + 1
    PROVE  Calls(1, i - 1) \o Calls(i, j) = Calls(1, j)
<1> DEFINE s == Calls(1, i - 1)
           t == Calls(i, j)
           u == Calls(1, j)
<1>1. /\ s \in Seq(Nat) /\ Len(s) = i - 1
      /\ \A k \in 1..(i - 1) : s[k] = k
  <2>1. i - 1 \in Nat
    OBVIOUS
  <2> QED
    BY <2>1, FirstCalls
<1>2. /\ t \in Seq(Nat) /\ Len(t) = (j + 1) - i
      /\ \A k \in 1..((j + 1) - i) : t[k] = (i + k) - 1
  BY CallsFacts
<1>3. /\ u \in Seq(Nat) /\ Len(u) = j
      /\ \A k \in 1..j : u[k] = k
  BY FirstCalls
<1> HIDE DEF s, t, u
<1>4. /\ s \o t \in Seq(Nat) /\ Len(s \o t) = Len(s) + Len(t)
      /\ \A k \in 1..(Len(s) + Len(t)) :
            (s \o t)[k] = IF k <= Len(s) THEN s[k] ELSE t[k - Len(s)]
  BY <1>1, <1>2, ConcatProperties
<1>5. Len(s) + Len(t) = j
  BY <1>1, <1>2
<1>6. ASSUME NEW k \in 1..j PROVE (s \o t)[k] = u[k]
  <2>1. CASE k <= i - 1
    BY <1>1, <1>3, <1>4, <1>5, <2>1
  <2>2. CASE i <= k
    <3>1. k - Len(s) \in 1..((j + 1) - i) /\ ~(k <= Len(s))
      BY <1>1, <2>2
    <3>2. (i + (k - Len(s))) - 1 = k
      BY <1>1
    <3>3. t[k - Len(s)] = k
      BY <1>2, <3>1, <3>2
    <3> QED
      BY <1>3, <1>4, <1>5, <3>1, <3>3
  <2>3. i - 1 \in Int /\ k \in Int /\ (k <= i - 1 \/ i <= k)
    OBVIOUS
  <2> QED
    BY <2>1, <2>2, <2>3
<1> QED
  BY <1>3, <1>4, <1>5, <1>6, SeqEqual DEF s, t, u

-----------------------------------------------------------------------------
(* The endpoint a request goes to is one of the pool's. *)

\* A score is a number.
LEMMA ScoreIsNumber ==
    ASSUME NEW e \in Endpoints, NEW size
    PROVE  Score(e, size) \in Int
<1> DEFINE a == IF endpoint[e].cooling THEN 1000 ELSE 0
           b == IF Lags(e) THEN 100 ELSE 0
           c == IF endpoint[e].maxBatch < size THEN 50 ELSE 0
<1>1. a \in Int /\ b \in Int /\ c \in Int
  OBVIOUS
<1>2. Priority[e] \in Int
  BY RpcPoolAssumption
<1>3. Score(e, size) = Priority[e] + a + b + c
  BY Zenon DEF Score
<1> HIDE DEF a, b, c
<1> QED
  BY <1>1, <1>2, <1>3

\* The lowest score is some endpoint's.
LEMMA BestIsOneOf ==
    ASSUME NEW S \in SUBSET Endpoints, S # {}, NEW size
    PROVE  Best(S, size) \in S
<1> DEFINE f == [e \in S |-> Score(e, size)]
           T == {f[e] : e \in S}
<1>1. T \in SUBSET Int /\ T # {}
  BY ScoreIsNumber
<1>2. IsFiniteSet(T)
  <2>1. IsFiniteSet(S)
    BY RpcPoolAssumption, FS_Subset
  <2>2. f \in [S -> T] /\ \A t \in T : \E e \in S : f[e] = t
    OBVIOUS
  <2>3. f \in Surjection(S, T)
    <3> HIDE DEF f, T
    <3> QED
      BY <2>2, Fun_IsSurj
  <2> HIDE DEF f, T
  <2> QED
    BY <2>1, <2>3, FS_Surjection
<1>3. Min(T) \in T /\ \A y \in T : Min(T) <= y
  <2> HIDE DEF T
  <2> QED
    BY <1>1, <1>2, LeastOfFinite
<1>4. \E e \in S : \A g \in S : Score(e, size) <= Score(g, size)
  <2>1. PICK e \in S : f[e] = Min(T)
    BY <1>3
  <2>2. \A g \in S : f[g] \in T
    OBVIOUS
  <2>3. \A g \in S : f[e] <= f[g]
    BY <1>3, <2>1, <2>2
  <2> QED
    BY <2>3
<1> QED
  BY <1>4 DEF Best

-----------------------------------------------------------------------------
(* What holds of the endpoints' records E and of a request r, while it runs. *)

EndpointRecords ==
    [Endpoints -> [cooling : BOOLEAN, head : Int, maxBatch : Nat \ {0}]]

Requests ==
    [pc : {"idle", "choosing", "chosen", "waiting", "returned", "threw", "exhausted"},
     size : 1..(Whole - 1), exclude : SUBSET Endpoints, tried : SUBSET Endpoints,
     asked : SUBSET Endpoints, attempt : Nat,
     at : Endpoints \cup {NoEndpoint}, chunk : Seq(Nat), got : Seq(Nat), next : Nat]

\* No limit was learned that refuses a batch the endpoint takes.
LimitsOK(E) ==
    \A e \in Endpoints : \A n \in 1..(Whole - 1) :
        n <= BatchLimit[e] => n <= E[e].maxBatch

\* The chunk on its way goes to the last call, or is as long as the limit was.
ChunkOK(r, E) ==
    \E last \in r.next..r.size :
        /\ r.chunk = Calls(r.next, last)
        /\ last = r.size \/ E[r.at].maxBatch <= (last - r.next) + 1

RequestOK(r, E) ==
    /\ r.pc \in {"chosen", "waiting"} =>
         r.at \in Endpoints /\ r.next \in 1..r.size /\ r.got = Calls(1, r.next - 1)
    /\ r.pc = "waiting" => ChunkOK(r, E)
    /\ r.pc = "returned" => r.got = Calls(1, r.size)

PoolInv ==
    /\ endpoint \in EndpointRecords /\ LimitsOK(endpoint)
    /\ request \in [Callers -> Requests]
    /\ \A c \in Callers : RequestOK(request[c], endpoint)
    /\ collector # "running" => \A c \in Callers : request[c].pc = "idle"

\* A limit learned later is lower, and the chunk on its way keeps its end.
LEMMA RequestKept ==
    ASSUME NEW E \in EndpointRecords, NEW F \in EndpointRecords,
           \A e \in Endpoints : F[e].maxBatch <= E[e].maxBatch,
           NEW r \in Requests, RequestOK(r, E)
    PROVE  RequestOK(r, F)
<1> SUFFICES ASSUME r.pc = "waiting" PROVE ChunkOK(r, F)
  BY DEF RequestOK
<1>1. ChunkOK(r, E) /\ r.at \in Endpoints
  BY DEF RequestOK
<1>2. PICK last \in r.next..r.size :
        /\ r.chunk = Calls(r.next, last)
        /\ last = r.size \/ E[r.at].maxBatch <= (last - r.next) + 1
  BY <1>1 DEF ChunkOK
<1>3. /\ F[r.at].maxBatch \in Int /\ E[r.at].maxBatch \in Int
      /\ F[r.at].maxBatch <= E[r.at].maxBatch
  BY <1>1 DEF EndpointRecords
<1>4. r.next \in Int /\ last \in Int
  BY DEF Requests
<1>5. last = r.size \/ F[r.at].maxBatch <= (last - r.next) + 1
  BY <1>2, <1>3, <1>4
<1> QED
  BY <1>2, <1>5 DEF ChunkOK

\* A request that is not under way has nothing to keep.
LEMMA NothingToKeep ==
    ASSUME NEW r, NEW E, r.pc \in {"idle", "choosing", "threw", "exhausted"}
    PROVE  RequestOK(r, E)
BY DEF RequestOK

LEMMA NoRequestFits == NoRequest \in Requests /\ NoRequest.pc = "idle"
<1>1. <<>> \in Seq(Nat)
  OBVIOUS
<1> QED
  BY <1>1 DEF NoRequest, Requests, Whole, NoEndpoint

LEMMA NewRecordsFit ==
    ASSUME endpoint' = [e \in Endpoints |-> NewEndpoint]
    PROVE  endpoint' \in EndpointRecords /\ LimitsOK(endpoint')
<1>1. endpoint' \in EndpointRecords
  BY DEF EndpointRecords, NewEndpoint, NoHead, Whole
<1>2. \A e \in Endpoints : endpoint'[e].maxBatch = Whole
  BY DEF NewEndpoint
<1>3. LimitsOK(endpoint')
  BY <1>2 DEF LimitsOK, Whole
<1> QED
  BY <1>1, <1>3

\* One request moves while the process runs.
LEMMA OneRequestMoves ==
    ASSUME PoolInv, NEW c \in Callers, NEW s \in Requests, Req(c, s),
           collector = "running", collector' = collector,
           endpoint' \in EndpointRecords, LimitsOK(endpoint'),
           \A e \in Endpoints : endpoint'[e].maxBatch <= endpoint[e].maxBatch,
           RequestOK(s, endpoint')
    PROVE  PoolInv'
<1>1. request' \in [Callers -> Requests] /\ request' = [request EXCEPT ![c] = s]
  BY DEF PoolInv, Req
<1>2. ASSUME NEW d \in Callers PROVE RequestOK(request'[d], endpoint')
  <2>1. CASE d = c
    <3>1. request'[d] = s
      BY <1>1, <2>1 DEF PoolInv
    <3> QED
      BY <3>1
  <2>2. CASE d # c
    <3>1. request'[d] = request[d] /\ request[d] \in Requests
      BY <1>1, <2>2 DEF PoolInv
    <3>2. RequestOK(request[d], endpoint) /\ endpoint \in EndpointRecords
      BY DEF PoolInv
    <3>3. RequestOK(request[d], endpoint')
      BY <3>1, <3>2, RequestKept
    <3> QED
      BY <3>1, <3>3
  <2> QED
    BY <2>1, <2>2
<1> QED
  BY <1>1, <1>2 DEF PoolInv

\* The same, when no record changes but a cooldown.
LEMMA SameLimits ==
    ASSUME PoolInv, NEW e, NEW b \in BOOLEAN,
           endpoint' = [endpoint EXCEPT ![e].cooling = b] \/ UNCHANGED endpoint
    PROVE  /\ endpoint' \in EndpointRecords /\ LimitsOK(endpoint')
           /\ \A f \in Endpoints : endpoint'[f].maxBatch <= endpoint[f].maxBatch
<1>1. endpoint \in EndpointRecords /\ LimitsOK(endpoint)
  BY DEF PoolInv
<1>2. /\ endpoint' \in EndpointRecords
      /\ \A f \in Endpoints : endpoint'[f].maxBatch = endpoint[f].maxBatch
  BY <1>1 DEF EndpointRecords
<1>3. LimitsOK(endpoint')
  BY <1>1, <1>2 DEF LimitsOK
<1>4. \A f \in Endpoints : endpoint[f].maxBatch \in Int
  BY <1>1 DEF EndpointRecords
<1> QED
  BY <1>2, <1>3, <1>4

-----------------------------------------------------------------------------
(* One step, one lemma. *)

LEMMA PoolStarts == PoolInit => PoolInv
<1> SUFFICES ASSUME PoolInit PROVE PoolInv
  OBVIOUS
<1>1. endpoint \in EndpointRecords
  <2>1. NewEndpoint \in [cooling : BOOLEAN, head : Int, maxBatch : Nat \ {0}]
    BY DEF NewEndpoint, NoHead, Whole
  <2>2. endpoint = [e \in Endpoints |-> NewEndpoint]
    BY DEF PoolInit
  <2> QED
    BY <2>1, <2>2 DEF EndpointRecords
<1>2. LimitsOK(endpoint)
  <2>1. \A e \in Endpoints : endpoint[e].maxBatch = Whole
    BY DEF PoolInit, NewEndpoint
  <2> QED
    BY <2>1 DEF LimitsOK, Whole
<1>3. /\ request \in [Callers -> Requests]
      /\ \A c \in Callers : request[c].pc = "idle"
  BY NoRequestFits DEF PoolInit
<1> QED
  BY <1>1, <1>2, <1>3, NothingToKeep DEF PoolInv

\* The process starts or stops: no request is under way.
LEMMA PoolBoots == ASSUME PoolInv, Boots PROVE PoolInv'
<1>1. endpoint' \in EndpointRecords /\ LimitsOK(endpoint')
  BY NewRecordsFit DEF Boots
<1>2. request' = request /\ \A c \in Callers : request[c].pc = "idle"
  BY DEF PoolInv, Boots
<1>3. \A c \in Callers : RequestOK(request'[c], endpoint')
  BY <1>2, NothingToKeep
<1> QED
  BY <1>1, <1>2, <1>3 DEF PoolInv

LEMMA PoolStops == ASSUME PoolInv, Stops PROVE PoolInv'
<1>1. endpoint' = endpoint
  BY DEF Stops
<1>2. /\ request' \in [Callers -> Requests]
      /\ \A c \in Callers : request'[c].pc = "idle"
  BY NoRequestFits DEF Stops
<1>3. \A c \in Callers : RequestOK(request'[c], endpoint')
  BY <1>2, NothingToKeep
<1> QED
  BY <1>1, <1>2, <1>3 DEF PoolInv

\* Neither a request nor a record moves.
LEMMA PoolChecks ==
    ASSUME PoolInv, Verified \/ (\E e \in Endpoints : CheckEndpoint(e))
    PROVE  PoolInv'
<1>1. request' = request /\ endpoint' = endpoint
  BY DEF Verified, CheckEndpoint
<1>2. collector' # "running" => collector # "running"
  BY DEF Verified, CheckEndpoint
<1> QED
  BY <1>1, <1>2 DEF PoolInv

\* A record moves and keeps its limit.
LEMMA PoolWatches ==
    ASSUME PoolInv, NEW e \in Endpoints,
           CooldownEnds(e) \/ (\E h \in 0..MaxHeight : ProbeHead(e, h))
    PROVE  PoolInv'
<1>1. request' = request /\ collector' = collector
  BY DEF CooldownEnds, ProbeHead
<1>2. endpoint \in EndpointRecords /\ LimitsOK(endpoint)
  BY DEF PoolInv
<1>3. /\ endpoint' \in EndpointRecords
      /\ \A f \in Endpoints : endpoint'[f].maxBatch = endpoint[f].maxBatch
  <2>1. CASE CooldownEnds(e)
    BY <1>2, <2>1 DEF CooldownEnds, EndpointRecords
  <2>2. CASE \E h \in 0..MaxHeight : ProbeHead(e, h)
    <3>1. PICK h \in 0..MaxHeight : ProbeHead(e, h)
      BY <2>2
    <3>2. endpoint' = [endpoint EXCEPT ![e].head = h, ![e].cooling = FALSE] /\ h \in Int
      BY <3>1 DEF ProbeHead
    <3> QED
      BY <1>2, <3>2 DEF EndpointRecords
  <2> QED
    BY <2>1, <2>2
<1>4. LimitsOK(endpoint')
  BY <1>2, <1>3 DEF LimitsOK
<1>5. ASSUME NEW c \in Callers PROVE RequestOK(request'[c], endpoint')
  <2>1. RequestOK(request[c], endpoint) /\ request[c] \in Requests
    BY DEF PoolInv
  <2>2. \A f \in Endpoints : endpoint'[f].maxBatch <= endpoint[f].maxBatch
    BY <1>2, <1>3 DEF EndpointRecords
  <2> QED
    BY <1>1, <1>2, <1>3, <2>1, <2>2, RequestKept
<1> QED
  BY <1>1, <1>3, <1>4, <1>5 DEF PoolInv

\* A request begins, or the worker is done with it.
LEMMA PoolAsks ==
    ASSUME PoolInv, NEW c \in Callers, NEW n \in Sizes, NEW x \in Excludes[c], Asks(c, n, x)
    PROVE  PoolInv'
<1> DEFINE s == [NoRequest EXCEPT !.pc = "choosing", !.size = n, !.exclude = x]
<1>1. /\ Req(c, s) /\ collector = "running" /\ collector' = collector
      /\ UNCHANGED endpoint
  BY DEF Asks
<1>2. n \in 1..(Whole - 1) /\ x \in SUBSET Endpoints
  BY RpcPoolAssumption
<1>3. s \in Requests /\ s.pc = "choosing"
  BY <1>2, NoRequestFits DEF Requests
<1>4. /\ endpoint' \in EndpointRecords /\ LimitsOK(endpoint')
      /\ \A f \in Endpoints : endpoint'[f].maxBatch <= endpoint[f].maxBatch
  BY <1>1, SameLimits
<1> HIDE DEF s
<1>5. RequestOK(s, endpoint')
  BY <1>3, NothingToKeep
<1> QED
  BY <1>1, <1>3, <1>4, <1>5, OneRequestMoves

LEMMA PoolTakes == ASSUME PoolInv, NEW c \in Callers, Takes(c) PROVE PoolInv'
<1>1. Req(c, NoRequest) /\ collector' = collector /\ UNCHANGED endpoint
  BY DEF Takes
<1>2. collector = "running"
  BY DEF PoolInv, Takes
<1>3. /\ endpoint' \in EndpointRecords /\ LimitsOK(endpoint')
      /\ \A f \in Endpoints : endpoint'[f].maxBatch <= endpoint[f].maxBatch
  BY <1>1, SameLimits
<1> QED
  BY <1>1, <1>2, <1>3, NoRequestFits, NothingToKeep, OneRequestMoves

\* The endpoint is chosen: nothing of the request is answered yet.
LEMMA PoolChooses == ASSUME PoolInv, NEW c \in Callers, Chooses(c) PROVE PoolInv'
<1> DEFINE r == request[c]
<1>1. r \in Requests /\ r.pc = "choosing" /\ collector' = collector /\ UNCHANGED endpoint
  BY DEF PoolInv, Chooses
<1>2. collector = "running"
  BY <1>1 DEF PoolInv
<1>3. /\ endpoint' \in EndpointRecords /\ LimitsOK(endpoint')
      /\ \A f \in Endpoints : endpoint'[f].maxBatch <= endpoint[f].maxBatch
  BY <1>1, SameLimits
<1>4. CASE Usable(r) = {}
  <2> DEFINE s == [r EXCEPT !.pc = "threw"]
  <2>1. Req(c, s)
    BY <1>4 DEF Chooses
  <2>2. s \in Requests /\ s.pc = "threw"
    BY <1>1 DEF Requests
  <2> HIDE DEF s
  <2>3. RequestOK(s, endpoint')
    BY <2>2, NothingToKeep
  <2> QED
    BY <1>1, <1>2, <1>3, <2>1, <2>2, <2>3, OneRequestMoves
<1>5. CASE Usable(r) # {}
  <2> DEFINE at == Best(Fresh(r), r.size)
             tried == IF Usable(r) \subseteq r.tried THEN {} ELSE r.tried
             s == [r EXCEPT !.pc = "chosen", !.at = at, !.got = <<>>, !.next = 1, !.tried = tried]
  <2>1. Req(c, s)
    BY <1>5 DEF Chooses
  <2>2. at \in Endpoints
    <3>1. Fresh(r) # {} /\ Fresh(r) \subseteq Endpoints
      BY <1>5 DEF Fresh, Usable
    <3> QED
      BY <3>1, BestIsOneOf
  <2>3. tried \in SUBSET Endpoints
    BY <1>1 DEF Requests
  <2> HIDE DEF at, tried
  <2>4. <<>> \in Seq(Nat) /\ 1 \in Nat
    OBVIOUS
  <2>5. /\ s \in Requests /\ s.pc = "chosen" /\ s.at = at /\ s.got = <<>> /\ s.next = 1
        /\ s.size = r.size
    BY <1>1, <2>2, <2>3, <2>4 DEF Requests
  <2> HIDE DEF s
  <2>6. Calls(1, 0) = <<>>
    <3>1. Calls(1, 0) \in Seq(Nat) /\ Len(Calls(1, 0)) = 0
      BY FirstCalls
    <3> QED
      BY <3>1
  <2>7. RequestOK(s, endpoint')
    <3>1. s.next \in 1..s.size /\ s.next - 1 = 0
      <4>1. r.size \in 1..(Whole - 1)
        BY <1>1 DEF Requests
      <4>2. s.next = 1 /\ s.size = r.size
        BY <2>5
      <4>3. \A n \in 1..(Whole - 1) : 1 \in 1..n
        BY DEF Whole
      <4> QED
        BY <4>1, <4>2, <4>3
    <3> QED
      BY <2>2, <2>5, <2>6, <3>1 DEF RequestOK
  <2> QED
    BY <1>1, <1>2, <1>3, <2>1, <2>5, <2>7, OneRequestMoves
<1> QED
  BY <1>4, <1>5

\* The chunk ends with the last call, or is as long as the limit.
LEMMA PoolSends == ASSUME PoolInv, NEW c \in Callers, Sends(c) PROVE PoolInv'
<1> DEFINE r == request[c]
           limit == endpoint[r.at].maxBatch
           last == IF r.next + limit - 1 < r.size THEN r.next + limit - 1 ELSE r.size
           chunk == Calls(r.next, last)
           asked == r.asked \cup {r.at}
           s == [r EXCEPT !.pc = "waiting", !.chunk = chunk, !.asked = asked]
<1>1. r \in Requests /\ r.pc = "chosen" /\ collector' = collector /\ UNCHANGED endpoint
  BY DEF PoolInv, Sends
<1>2. collector = "running"
  BY <1>1 DEF PoolInv
<1>3. /\ endpoint' \in EndpointRecords /\ LimitsOK(endpoint')
      /\ \A f \in Endpoints : endpoint'[f].maxBatch <= endpoint[f].maxBatch
  BY <1>1, SameLimits
<1>4. r.at \in Endpoints /\ r.next \in 1..r.size /\ r.got = Calls(1, r.next - 1)
  <2>1. RequestOK(r, endpoint)
    BY DEF PoolInv
  <2> QED
    BY <1>1, <2>1 DEF RequestOK
<1>5. Req(c, s)
  BY DEF Sends
<1>6. r.next \in Nat \ {0} /\ r.size \in Nat /\ r.next <= r.size
  <2>1. r.size \in 1..(Whole - 1)
    BY <1>1 DEF Requests
  <2>2. \A n \in 1..(Whole - 1) : n \in Nat
    BY DEF Whole
  <2> QED
    BY <1>4, <2>1, <2>2
<1>7. limit \in Nat \ {0}
  BY <1>4 DEF PoolInv, EndpointRecords
<1> HIDE DEF limit
<1>8. last \in r.next..r.size /\ (last = r.size \/ limit <= (last - r.next) + 1)
  BY <1>6, <1>7
<1> HIDE DEF last
<1>9. chunk \in Seq(Nat)
  <2>1. last \in Nat /\ r.next <= last + 1
    BY <1>6, <1>8
  <2> QED
    BY <1>6, <2>1, CallsFacts
<1>10. asked \in SUBSET Endpoints
  BY <1>1, <1>4 DEF Requests
<1> HIDE DEF chunk, asked
<1>11. /\ s \in Requests /\ s.pc = "waiting" /\ s.chunk = chunk
       /\ s.at = r.at /\ s.next = r.next /\ s.size = r.size /\ s.got = r.got
  BY <1>1, <1>9, <1>10 DEF Requests
<1> HIDE DEF s
<1>12. ChunkOK(s, endpoint')
  <2>1. s.chunk = Calls(s.next, last) /\ last \in s.next..s.size
    BY <1>8, <1>11 DEF chunk
  <2>2. last = s.size \/ endpoint'[s.at].maxBatch <= (last - s.next) + 1
    BY <1>1, <1>8, <1>11 DEF limit
  <2> QED
    BY <2>1, <2>2 DEF ChunkOK
<1>13. RequestOK(s, endpoint')
  BY <1>4, <1>11, <1>12 DEF RequestOK
<1> HIDE DEF r
<1> QED
  BY <1>2, <1>1, <1>3, <1>5, <1>11, <1>13, OneRequestMoves

\* The chunk was taken, so it is no longer than the limit; if it does not end
\* with the last call it is as long, and the next one starts right after it.
LEMMA PoolAnswers == ASSUME PoolInv, NEW c \in Callers, Answers(c) PROVE PoolInv'
<1> DEFINE r == request[c]
           limit == endpoint[r.at].maxBatch
           got == r.got \o r.chunk
<1>1. /\ r \in Requests /\ r.pc = "waiting" /\ Len(r.chunk) <= BatchLimit[r.at]
      /\ collector' = collector
  BY DEF PoolInv, Answers
<1>2. collector = "running"
  BY <1>1 DEF PoolInv
<1>3. /\ r.at \in Endpoints /\ r.next \in 1..r.size /\ r.got = Calls(1, r.next - 1)
      /\ ChunkOK(r, endpoint)
  <2>1. RequestOK(r, endpoint)
    BY DEF PoolInv
  <2> QED
    BY <1>1, <2>1 DEF RequestOK
<1>4. /\ endpoint' \in EndpointRecords /\ LimitsOK(endpoint')
      /\ \A f \in Endpoints : endpoint'[f].maxBatch <= endpoint[f].maxBatch
  <2>1. endpoint' = [endpoint EXCEPT ![r.at].cooling = FALSE] \/ UNCHANGED endpoint
    BY DEF Answers
  <2> QED
    BY <2>1, SameLimits
<1>5. /\ r.next \in Nat \ {0} /\ r.size \in Nat /\ r.next <= r.size
      /\ r.size <= Whole - 1
  <2>1. r.size \in 1..(Whole - 1)
    BY <1>1 DEF Requests
  <2>2. \A n \in 1..(Whole - 1) : n \in Nat /\ n <= Whole - 1
    BY DEF Whole
  <2> QED
    BY <1>3, <2>1, <2>2
<1>6. limit \in Nat \ {0}
  BY <1>3 DEF PoolInv, EndpointRecords
<1>7. PICK last \in r.next..r.size :
        /\ r.chunk = Calls(r.next, last)
        /\ last = r.size \/ limit <= (last - r.next) + 1
  BY <1>3 DEF ChunkOK
<1>8. last \in Nat /\ r.next <= last /\ last <= r.size /\ r.next <= last + 1
  BY <1>5, <1>7
<1>9. Len(r.chunk) = (last + 1) - r.next
  <2>1. Len(Calls(r.next, last)) = (last + 1) - r.next
    BY <1>5, <1>8, CallsFacts
  <2> QED
    BY <1>7, <2>1
<1>10. got = Calls(1, last)
  <2>1. Calls(1, r.next - 1) \o Calls(r.next, last) = Calls(1, last)
    BY <1>5, <1>8, CallsJoin
  <2> QED
    BY <1>3, <1>7, <2>1
<1>11. (last + 1) - r.next <= limit
  <2>1. (last + 1) - r.next \in 1..(Whole - 1)
    <3> DEFINE n == (last + 1) - r.next
    <3>1. n \in Int /\ 1 <= n /\ n <= r.size
      BY <1>5, <1>8
    <3> HIDE DEF n
    <3>2. Whole - 1 \in Int
      BY DEF Whole
    <3> QED
      BY <1>5, <3>1, <3>2 DEF n
  <2>2. LimitsOK(endpoint)
    BY DEF PoolInv
  <2> QED
    BY <1>1, <1>3, <1>9, <2>1, <2>2 DEF LimitsOK
<1>12. got \in Seq(Nat) /\ <<>> \in Seq(Nat)
  BY <1>8, <1>10, FirstCalls
<1>13. Step(r) = r.next + limit
  BY DEF Step
<1> HIDE DEF limit
<1>14. CASE last = r.size
  <2> DEFINE s == [r EXCEPT !.pc = "returned", !.got = got, !.chunk = <<>>]
  <2>1. Finished(r)
    BY <1>5, <1>6, <1>8, <1>11, <1>13, <1>14 DEF Finished
  <2>2. Req(c, s)
    BY <2>1 DEF Answers
  <2> HIDE DEF got
  <2>3. s \in Requests /\ s.pc = "returned" /\ s.got = got /\ s.size = r.size
    BY <1>1, <1>12 DEF Requests
  <2> HIDE DEF s
  <2>4. RequestOK(s, endpoint')
    BY <1>10, <1>14, <2>3 DEF RequestOK
  <2> HIDE DEF r
  <2> QED
    BY <1>1, <1>2, <1>4, <2>2, <2>3, <2>4, OneRequestMoves
<1>15. CASE last # r.size
  <2> DEFINE next == Step(r)
             s == [r EXCEPT !.pc = "chosen", !.got = got, !.chunk = <<>>, !.next = next]
  <2>1. next = last + 1 /\ next \in 1..r.size
    BY <1>5, <1>6, <1>7, <1>8, <1>11, <1>13, <1>15
  <2>2. ~Finished(r)
    <3>1. ~(next > r.size)
      BY <1>5, <2>1
    <3>2. Len(r.chunk) # r.size
      BY <1>5, <1>8, <1>9, <1>15
    <3> QED
      BY <3>1, <3>2 DEF Finished
  <2>3. Req(c, s)
    BY <2>2 DEF Answers
  <2>4. next \in Nat /\ next - 1 = last
    BY <1>8, <2>1
  <2> HIDE DEF next, got
  <2>5. /\ s \in Requests /\ s.pc = "chosen" /\ s.got = got /\ s.next = next
        /\ s.size = r.size /\ s.at = r.at
    BY <1>1, <1>12, <2>4 DEF Requests
  <2> HIDE DEF s
  <2>6. RequestOK(s, endpoint')
    BY <1>3, <1>10, <2>1, <2>4, <2>5 DEF RequestOK
  <2> HIDE DEF r
  <2> QED
    BY <1>1, <1>2, <1>4, <2>3, <2>5, <2>6, OneRequestMoves
<1> QED
  BY <1>14, <1>15

\* An attempt is over: the request tries again or gives up, with nothing kept.
LEMMA AgainFits ==
    ASSUME NEW r \in Requests
    PROVE  Again(r) \in Requests /\ Again(r).pc \in {"choosing", "exhausted"}
<1> DEFINE pc == IF r.attempt + 1 < MaxAttempts THEN "choosing" ELSE "exhausted"
           n == r.attempt + 1
<1>1. pc \in {"choosing", "exhausted"} /\ n \in Nat /\ <<>> \in Seq(Nat)
  BY DEF Requests
<1>2. Again(r) = [r EXCEPT !.attempt = n, !.chunk = <<>>, !.pc = pc]
  BY DEF Again
<1> HIDE DEF pc, n
<1>3. [r EXCEPT !.attempt = n, !.chunk = <<>>, !.pc = pc] \in Requests
  BY <1>1 DEF Requests
<1>4. [r EXCEPT !.attempt = n, !.chunk = <<>>, !.pc = pc].pc = pc
  BY DEF Requests
<1> QED
  BY <1>1, <1>2, <1>3, <1>4

LEMMA PoolFails ==
    ASSUME PoolInv, NEW c \in Callers, Fails(c) \/ FailsForGood(c)
    PROVE  PoolInv'
<1> DEFINE r == request[c]
<1>1. r \in Requests /\ r.pc = "waiting" /\ collector' = collector
  BY DEF PoolInv, Fails, FailsForGood
<1>2. collector = "running"
  BY <1>1 DEF PoolInv
<1>3. /\ endpoint' \in EndpointRecords /\ LimitsOK(endpoint')
      /\ \A f \in Endpoints : endpoint'[f].maxBatch <= endpoint[f].maxBatch
  <2>1. endpoint' = [endpoint EXCEPT ![r.at].cooling = TRUE]
    BY DEF Fails, FailsForGood
  <2> QED
    BY <2>1, SameLimits
<1>4. CASE Fails(c)
  <2> DEFINE a == Again(r)
             tried == Tried(r)
             s == [a EXCEPT !.tried = tried]
  <2>1. Req(c, s)
    BY <1>4 DEF Fails
  <2>2. tried \in SUBSET Endpoints
    <3>1. r.at \in Endpoints
      BY <1>1 DEF PoolInv, RequestOK
    <3> QED
      BY <1>1, <3>1 DEF Tried, Requests
  <2>3. a \in Requests /\ a.pc \in {"choosing", "exhausted"}
    BY <1>1, AgainFits
  <2> HIDE DEF a, tried
  <2>4. s \in Requests /\ s.pc = a.pc
    BY <2>2, <2>3 DEF Requests
  <2> HIDE DEF s
  <2>5. RequestOK(s, endpoint')
    BY <2>3, <2>4, NothingToKeep
  <2> QED
    BY <1>1, <1>2, <1>3, <2>1, <2>4, <2>5, OneRequestMoves
<1>5. CASE FailsForGood(c)
  <2> DEFINE s == [r EXCEPT !.pc = "threw", !.chunk = <<>>]
  <2>1. Req(c, s)
    BY <1>5 DEF FailsForGood
  <2>2. <<>> \in Seq(Nat)
    OBVIOUS
  <2>3. s \in Requests /\ s.pc = "threw"
    BY <1>1, <2>2 DEF Requests
  <2> HIDE DEF s
  <2>4. RequestOK(s, endpoint')
    BY <2>3, NothingToKeep
  <2> QED
    BY <1>1, <1>2, <1>3, <2>1, <2>3, <2>4, OneRequestMoves
<1> QED
  BY <1>4, <1>5

\* The limit told is no smaller than what the endpoint takes, so no batch it
\* takes is refused to it from now on.
LEMMA PoolLearns ==
    ASSUME HonestLimits, PoolInv, NEW c \in Callers, LearnsLimit(c)
    PROVE  PoolInv'
<1> DEFINE r == request[c]
           e == r.at
           limit == endpoint[e].maxBatch
           learned == Learned(e)
           s == Again(r)
<1>1. r \in Requests /\ r.pc = "waiting" /\ collector' = collector /\ Req(c, s)
  BY DEF PoolInv, LearnsLimit
<1>2. collector = "running"
  BY <1>1 DEF PoolInv
<1>3. e \in Endpoints
  BY <1>1 DEF PoolInv, RequestOK
<1>4. /\ endpoint \in EndpointRecords /\ LimitsOK(endpoint)
      /\ endpoint' = [endpoint EXCEPT ![e].maxBatch = learned]
  BY DEF PoolInv, LearnsLimit
<1>5. limit \in Nat \ {0} /\ BatchLimit[e] \in Nat \ {0} /\ LimitTold[e] \in Nat
  BY <1>3, <1>4, RpcPoolAssumption DEF EndpointRecords
<1>6. /\ learned \in Nat \ {0} /\ learned <= limit
      /\ learned = limit \/ BatchLimit[e] <= learned
  <2>1. BatchLimit[e] <= (IF LimitTold[e] < 1 THEN 1 ELSE LimitTold[e])
    BY <1>3 DEF HonestLimits
  <2>2. learned = (IF (IF LimitTold[e] < 1 THEN 1 ELSE LimitTold[e]) < limit
                   THEN (IF LimitTold[e] < 1 THEN 1 ELSE LimitTold[e]) ELSE limit)
    BY DEF Learned
  <2> HIDE DEF learned, limit
  <2> QED
    BY <1>5, <2>1, <2>2
<1> HIDE DEF learned
<1>7. /\ endpoint' \in EndpointRecords
      /\ endpoint'[e].maxBatch = learned
      /\ \A f \in Endpoints : f # e => endpoint'[f].maxBatch = endpoint[f].maxBatch
  BY <1>3, <1>4, <1>6 DEF EndpointRecords
<1>8. \A f \in Endpoints : endpoint'[f].maxBatch <= endpoint[f].maxBatch
  <2>1. \A f \in Endpoints : endpoint[f].maxBatch \in Int
    BY <1>4 DEF EndpointRecords
  <2> QED
    BY <1>6, <1>7, <2>1
<1>9. LimitsOK(endpoint')
  <2> SUFFICES ASSUME NEW f \in Endpoints, NEW n \in 1..(Whole - 1), n <= BatchLimit[f]
               PROVE  n <= endpoint'[f].maxBatch
    BY DEF LimitsOK
  <2>1. n <= endpoint[f].maxBatch
    BY <1>4 DEF LimitsOK
  <2>2. CASE f = e
    BY <1>5, <1>6, <1>7, <2>1, <2>2 DEF Whole
  <2>3. CASE f # e
    BY <1>7, <2>1, <2>3
  <2> QED
    BY <2>2, <2>3
<1>10. s \in Requests /\ s.pc \in {"choosing", "exhausted"}
  BY <1>1, AgainFits
<1> HIDE DEF s
<1>11. RequestOK(s, endpoint')
  BY <1>10, NothingToKeep
<1> QED
  BY <1>1, <1>2, <1>7, <1>8, <1>9, <1>10, <1>11, OneRequestMoves

LEMMA PoolSteps == ASSUME HonestLimits PROVE PoolInv /\ [PoolNext]_poolVars => PoolInv'
<1> SUFFICES ASSUME PoolInv, [PoolNext]_poolVars PROVE PoolInv'
  OBVIOUS
<1>1. CASE UNCHANGED poolVars
  BY <1>1 DEF poolVars, PoolInv
<1>2. CASE Boots
  BY <1>2, PoolBoots
<1>3. CASE Verified
  BY <1>3, PoolChecks
<1>4. CASE Stops
  BY <1>4, PoolStops
<1>5. CASE \E e \in Endpoints : CheckEndpoint(e) \/ CooldownEnds(e)
  BY <1>5, PoolChecks, PoolWatches
<1>6. CASE \E e \in Endpoints, h \in 0..MaxHeight : ProbeHead(e, h)
  BY <1>6, PoolWatches
<1>7. CASE \E c \in Callers, n \in Sizes : \E x \in Excludes[c] : Asks(c, n, x)
  BY <1>7, PoolAsks
<1>8. CASE \E c \in Callers : RequestStep(c) \/ Takes(c)
  <2>1. PICK c \in Callers : RequestStep(c) \/ Takes(c)
    BY <1>8
  <2> QED
    BY <2>1, PoolChooses, PoolSends, PoolAnswers, PoolFails, PoolLearns, PoolTakes
    DEF RequestStep
<1> QED
  BY <1>1, <1>2, <1>3, <1>4, <1>5, <1>6, <1>7, <1>8 DEF PoolNext

-----------------------------------------------------------------------------

\* Every answered request holds one outcome for each of its calls, in the order
\* of the calls, however often its endpoint's limit was lowered by others while
\* a chunk was on its way, as long as no endpoint understates what it takes.
THEOREM AnswersComeInOrder ==
    ASSUME HonestLimits
    PROVE  PoolSpec => []AnswersInOrder
<1>1. PoolInit => PoolInv
  BY PoolStarts
<1>2. PoolInv /\ [PoolNext]_poolVars => PoolInv'
  BY HonestLimits, PoolSteps
<1>3. PoolInv => AnswersInOrder
  BY DEF PoolInv, RequestOK, AnswersInOrder
<1> QED
  BY <1>1, <1>2, <1>3, PTL DEF PoolSpec

\* Every endpoint that answered at the start serves the chain the database is
\* bound to, for as long as the workers run: they start only after all of them
\* named one genesis, and it is the one written, then or in an earlier life.
THEOREM WorkersKeepToTheirChain == PoolSpec => []BoundChainKept
<1>1. PoolInit => BoundChainKept
  BY DEF PoolInit, BoundChainKept
<1>2. BoundChainKept /\ [PoolNext]_poolVars => BoundChainKept'
  <2> SUFFICES ASSUME BoundChainKept, [PoolNext]_poolVars PROVE BoundChainKept'
    OBVIOUS
  <2>1. CASE Verified
    <3> SUFFICES ASSUME collector' = "running", NEW e \in Endpoints, checked'[e] = "verified"
                 PROVE  serves'[e] = boundTo'
      BY DEF BoundChainKept
    <3>1. /\ serves' = serves /\ checked' = checked
          /\ GenesisAgrees
          /\ boundTo' = IF boundTo = NoChain THEN CHOOSE g \in Geneses : TRUE ELSE boundTo
      BY <2>1 DEF Verified
    <3>2. serves[e] \in Geneses
      BY <3>1 DEF Geneses
    <3>3. PICK g : Geneses = {g}
      <4> DEFINE S == {f \in Endpoints : checked[f] = "verified"}
                 h == [f \in S |-> serves[f]]
      <4>1. IsFiniteSet(S)
        BY RpcPoolAssumption, FS_Subset
      <4>2. h \in Surjection(S, Geneses)
        <5>1. h \in [S -> Geneses] /\ \A k \in Geneses : \E f \in S : h[f] = k
          BY DEF Geneses
        <5> HIDE DEF S, h
        <5> QED
          BY <5>1, Fun_IsSurj
      <4> HIDE DEF S, h
      <4>3. IsFiniteSet(Geneses)
        BY <4>1, <4>2, FS_Surjection
      <4>4. Cardinality(Geneses) = 1
        BY <3>1 DEF GenesisAgrees
      <4> QED
        BY <4>3, <4>4, FS_Singleton
    <3>4. boundTo' = g
      <4>1. CASE boundTo = NoChain
        BY <3>1, <3>3, <4>1
      <4>2. CASE boundTo # NoChain
        <5>1. boundTo' = boundTo /\ Geneses = {boundTo}
          BY <3>1, <4>2 DEF GenesisAgrees
        <5> QED
          BY <3>3, <5>1
      <4> QED
        BY <4>1, <4>2
    <3> QED
      BY <3>1, <3>2, <3>3, <3>4
  <2>2. CASE Boots \/ Stops
    BY <2>2 DEF Boots, Stops, BoundChainKept
  <2>3. CASE \E e \in Endpoints : CheckEndpoint(e) \/ CooldownEnds(e)
    BY <2>3 DEF CheckEndpoint, CooldownEnds, BoundChainKept
  <2>4. CASE \E e \in Endpoints, h \in 0..MaxHeight : ProbeHead(e, h)
    BY <2>4 DEF ProbeHead, BoundChainKept
  <2>5. CASE \E c \in Callers, n \in Sizes : \E x \in Excludes[c] : Asks(c, n, x)
    BY <2>5 DEF Asks, BoundChainKept
  <2>6. CASE \E c \in Callers : RequestStep(c) \/ Takes(c)
    <3>1. PICK c \in Callers : RequestStep(c) \/ Takes(c)
      BY <2>6
    <3>2. UNCHANGED <<serves, collector, checked, boundTo>>
      BY <3>1 DEF RequestStep, Takes, Chooses, Sends, Answers, Fails, FailsForGood, LearnsLimit
    <3> QED
      BY <3>2 DEF BoundChainKept
  <2>7. CASE UNCHANGED poolVars
    BY <2>7 DEF poolVars, BoundChainKept
  <2> QED
    BY <2>1, <2>2, <2>3, <2>4, <2>5, <2>6, <2>7 DEF PoolNext
<1> QED
  BY <1>1, <1>2, PTL DEF PoolSpec

-----------------------------------------------------------------------------
(* The workers that read logs *)

\* What the proof needs of the types of a watcher's state.
WatchStates(w) ==
    [pc : {"off", "dead", "idle", "recording", "saving"}, cursor : Int, to : Int, todo : SUBSET Events[w]]

WatchTypes ==
    /\ known \in Int
    /\ watch \in [Watchers -> UNION {WatchStates(w) : w \in Watchers}]
    /\ \A w \in Watchers : watch[w] \in WatchStates(w)
    /\ watchSaved \in [Watchers -> Int]
    /\ DOMAIN recorded = Watchers /\ DOMAIN unread = Watchers
    /\ \A w \in Watchers : DOMAIN recorded[w] = Events[w] /\ DOMAIN unread[w] = Events[w]

\* The blocks of one kind that a watcher need not look at again.
Seen(w, k) == recorded[w][k] \cup unread[w][k]

\* All below the cursor is seen, and all of the range under way that was done.
WatchFits(w) ==
    LET t == watch[w] IN
    /\ t.pc \notin {"off", "dead"} =>
         \A k \in Events[w] : Between(WatchFrom[w], t.cursor - 1) \subseteq Seen(w, k)
    /\ t.pc = "recording" =>
         \A k \in Events[w] \ t.todo : Between(t.cursor, t.to) \subseteq Seen(w, k)
    /\ \A k \in Events[w] : Between(WatchFrom[w], watchSaved[w] - 1) \subseteq Seen(w, k)

WatchInv == WatchTypes /\ \A w \in Watchers : WatchFits(w)

\* One watcher moves; what was seen stays seen.
LEMMA OneWatcherMoves ==
    ASSUME WatchInv, NEW w \in Watchers, NEW t \in WatchStates(w), Watch(w, t),
           known' \in Int, watchSaved' \in [Watchers -> Int],
           \A v \in Watchers : v # w => watchSaved'[v] = watchSaved[v],
           DOMAIN recorded' = Watchers, DOMAIN unread' = Watchers,
           \A v \in Watchers : DOMAIN recorded'[v] = Events[v] /\ DOMAIN unread'[v] = Events[v],
           \A v \in Watchers : \A k \in Events[v] : Seen(v, k) \subseteq Seen(v, k)',
           WatchFits(w)'
    PROVE  WatchInv'
<1>1. /\ watch' \in [Watchers -> UNION {WatchStates(v) : v \in Watchers}]
      /\ \A v \in Watchers : watch'[v] \in WatchStates(v)
      /\ \A v \in Watchers : v # w => watch'[v] = watch[v]
  BY DEF WatchInv, WatchTypes, Watch
<1>2. WatchTypes'
  <2>1. \A v \in Watchers : WatchStates(v)' = WatchStates(v)
    BY DEF WatchStates
  <2> QED
    BY <1>1, <2>1 DEF WatchTypes
<1>3. ASSUME NEW v \in Watchers, v # w PROVE WatchFits(v)'
  BY <1>1, <1>3 DEF WatchInv, WatchFits, Between
<1> QED
  BY <1>2, <1>3 DEF WatchInv

\* Nothing of the watchers moves but the head they read up to.
LEMMA WatchersStay ==
    ASSUME WatchInv, UNCHANGED watchVars, known' \in Int PROVE WatchInv'
BY DEF WatchInv, WatchTypes, WatchFits, watchVars, Seen, Between, WatchStates

LEMMA WatcherFacts ==
    ASSUME WatchInv, NEW w \in Watchers
    PROVE  /\ watch[w] \in WatchStates(w) /\ WatchFits(w) /\ known \in Int
           /\ watchSaved[w] \in Int /\ WatchFrom[w] \in Nat
BY WatchersAssumption DEF WatchInv, WatchTypes

LEMMA WatchStartsFits == ASSUME WatchInv, NEW w \in Watchers, WatchStarts(w) PROVE WatchInv'
<1> DEFINE c == IF watchSaved[w] = NoBlock THEN WatchFrom[w] ELSE watchSaved[w]
           t == [NoWatch EXCEPT !.pc = "idle", !.cursor = c]
<1>1. c \in Int
  BY WatcherFacts
<1>2. Watch(w, t) /\ UNCHANGED <<chainVars, watchSaved, recorded, unread>>
  BY DEF WatchStarts
<1>3. NoWatch \in WatchStates(w)
  BY DEF NoWatch, WatchStates
<1>4. t \in WatchStates(w) /\ t.pc = "idle" /\ t.cursor = c
  BY <1>1, <1>3 DEF WatchStates
<1>5. \A k \in Events[w] : Between(WatchFrom[w], c - 1) \subseteq Seen(w, k)
  <2>1. CASE watchSaved[w] = NoBlock
    <3>1. Between(WatchFrom[w], WatchFrom[w] - 1) = {}
      BY WatcherFacts DEF Between, Levels
    <3> QED
      BY <2>1, <3>1
  <2>2. CASE watchSaved[w] # NoBlock
    BY <2>2, WatcherFacts DEF WatchFits
  <2> QED
    BY <2>1, <2>2
<1> HIDE DEF c, t
<1>6. watch'[w] = t
  BY <1>2 DEF Watch, WatchInv, WatchTypes
<1>7. WatchFits(w)'
  BY <1>2, <1>4, <1>5, <1>6, WatcherFacts DEF WatchFits, Seen, Between
<1> QED
  BY <1>2, <1>4, <1>7, OneWatcherMoves DEF WatchInv, WatchTypes, chainVars, Seen

LEMMA WatchAsksFits == ASSUME WatchInv, NEW w \in Watchers, WatchAsks(w) PROVE WatchInv'
<1> DEFINE c == watch[w].cursor
           to == IF c + Span - 1 < known THEN c + Span - 1 ELSE known
           t == [watch[w] EXCEPT !.pc = "recording", !.todo = Events[w], !.to = to]
<1>1. watch[w] \in WatchStates(w) /\ WatchFits(w) /\ known \in Int /\ watch[w].pc = "idle"
  BY WatcherFacts DEF WatchAsks
<1>2. to \in Int
  <2>1. c \in Int /\ Span \in Int
    BY <1>1, WatchersAssumption DEF WatchStates
  <2> QED
    BY <1>1, <2>1
<1>3. Watch(w, t) /\ UNCHANGED <<chainVars, watchSaved, recorded, unread>>
  BY DEF WatchAsks
<1> HIDE DEF to
<1>4. t \in WatchStates(w) /\ t.pc = "recording" /\ t.cursor = watch[w].cursor /\ t.todo = Events[w]
  BY <1>1, <1>2 DEF WatchStates
<1> HIDE DEF t
<1>5. watch'[w] = t
  BY <1>3 DEF Watch, WatchInv, WatchTypes
<1>6. WatchFits(w)'
  BY <1>1, <1>3, <1>4, <1>5 DEF WatchFits, Seen, Between
<1> QED
  BY <1>3, <1>4, <1>6, OneWatcherMoves DEF WatchInv, WatchTypes, chainVars, Seen

\* The blocks of a kind in one range, and those whose price never came.
LEMMA WatchRecordsFits ==
    ASSUME WatchInv, NEW w \in Watchers, NEW k \in watch[w].todo, NEW missing,
           WatchRecords(w, k, missing)
    PROVE  WatchInv'
<1> DEFINE t == watch[w]
           last == [t EXCEPT !.todo = {}, !.pc = "saving", !.cursor = Past(t)]
           next == [t EXCEPT !.todo = @ \ {k}]
           range == Between(t.cursor, t.to)
<1>1. /\ t \in WatchStates(w) /\ WatchFits(w) /\ known \in Int /\ t.pc = "recording"
      /\ k \in Events[w]
  BY WatcherFacts DEF WatchRecords, WatchStates
<1>2. /\ recorded' = [recorded EXCEPT ![w][k] = @ \cup (range \ missing)]
      /\ unread' = [unread EXCEPT ![w][k] = @ \cup missing]
      /\ UNCHANGED <<chainVars, watchSaved>>
      /\ Watch(w, IF t.todo = {k} THEN last ELSE next)
  BY DEF WatchRecords
<1>3. /\ DOMAIN recorded = Watchers /\ DOMAIN unread = Watchers
      /\ \A v \in Watchers : DOMAIN recorded[v] = Events[v] /\ DOMAIN unread[v] = Events[v]
  BY DEF WatchInv, WatchTypes
<1>4. /\ DOMAIN recorded' = Watchers /\ DOMAIN unread' = Watchers
      /\ \A v \in Watchers : DOMAIN recorded'[v] = Events[v] /\ DOMAIN unread'[v] = Events[v]
  BY <1>2, <1>3
<1>5. /\ recorded'[w][k] = recorded[w][k] \cup (range \ missing)
      /\ unread'[w][k] = unread[w][k] \cup missing
      /\ \A v \in Watchers : \A e \in Events[v] : v # w \/ e # k =>
           recorded'[v][e] = recorded[v][e] /\ unread'[v][e] = unread[v][e]
  BY <1>1, <1>2, <1>3
<1> HIDE DEF range
<1>6. range \subseteq Seen(w, k)'
  BY <1>5 DEF Seen
<1>7. \A v \in Watchers : \A e \in Events[v] : Seen(v, e) \subseteq Seen(v, e)'
  BY <1>5 DEF Seen
<1>8. Past(t) \in Int /\ Past(t) - 1 = t.to
  BY <1>1 DEF Past, WatchStates
<1>9. \A e \in Events[w] : Between(WatchFrom[w], watchSaved'[w] - 1) \subseteq Seen(w, e)'
  BY <1>1, <1>2, <1>7 DEF WatchFits
<1>10. CASE t.todo = {k}
  <2>1. last \in WatchStates(w) /\ last.pc = "saving" /\ last.cursor = Past(t)
    BY <1>1, <1>8 DEF WatchStates
  <2> HIDE DEF last
  <2>2. Watch(w, last)
    BY <1>2, <1>10
  <2>3. watch'[w] = last
    BY <2>2 DEF Watch, WatchInv, WatchTypes
  <2>4. \A e \in Events[w] : range \subseteq Seen(w, e)'
    <3>1. \A e \in Events[w] \ {k} : range \subseteq Seen(w, e)
      BY <1>1, <1>10 DEF WatchFits, range
    <3> QED
      BY <3>1, <1>6, <1>7
  <2>5. \A e \in Events[w] : Between(WatchFrom[w], last.cursor - 1) \subseteq Seen(w, e)'
    <3>1. last.cursor - 1 = t.to /\ t.cursor \in Int /\ t.to \in Int
      BY <2>1, <1>8, <1>1 DEF WatchStates
    <3>2. Between(WatchFrom[w], t.to) \subseteq Between(WatchFrom[w], t.cursor - 1) \cup range
      BY <3>1, WatcherFacts DEF Between, Levels, range
    <3>3. \A e \in Events[w] : Between(WatchFrom[w], t.cursor - 1) \subseteq Seen(w, e)'
      BY <1>1, <1>7 DEF WatchFits
    <3> QED
      BY <3>1, <3>2, <3>3, <2>4
  <2>6. WatchFits(w)'
    BY <2>1, <2>3, <2>5, <1>9 DEF WatchFits, Between, Levels
  <2> QED
    BY <2>1, <2>2, <2>6, <1>2, <1>4, <1>7, OneWatcherMoves DEF WatchInv, WatchTypes, chainVars
<1>11. CASE t.todo # {k}
  <2>1. next \in WatchStates(w) /\ next.pc = "recording" /\ next.cursor = t.cursor /\ next.to = t.to
        /\ next.todo = t.todo \ {k}
    BY <1>1 DEF WatchStates
  <2> HIDE DEF next
  <2>2. Watch(w, next)
    BY <1>2, <1>11
  <2>3. watch'[w] = next
    BY <2>2 DEF Watch, WatchInv, WatchTypes
  <2>4. \A e \in Events[w] \ next.todo : Between(next.cursor, next.to) \subseteq Seen(w, e)'
    <3>1. \A e \in Events[w] \ t.todo : range \subseteq Seen(w, e)
      BY <1>1 DEF WatchFits, range
    <3>2. Between(next.cursor, next.to) = range
      BY <2>1 DEF range
    <3> QED
      BY <3>1, <3>2, <2>1, <1>6, <1>7
  <2>5. \A e \in Events[w] : Between(WatchFrom[w], next.cursor - 1) \subseteq Seen(w, e)'
    BY <2>1, <1>1, <1>7 DEF WatchFits
  <2>6. WatchFits(w)'
    BY <2>1, <2>3, <2>4, <2>5, <1>9 DEF WatchFits, Between, Levels
  <2> QED
    BY <2>1, <2>2, <2>6, <1>2, <1>4, <1>7, OneWatcherMoves DEF WatchInv, WatchTypes, chainVars
<1> QED
  BY <1>10, <1>11

\* The cursor is saved where the range ended.
LEMMA WatchSavesFits == ASSUME WatchInv, NEW w \in Watchers, WatchSaves(w) PROVE WatchInv'
<1> DEFINE t == [watch[w] EXCEPT !.pc = "idle"]
<1>1. watch[w] \in WatchStates(w) /\ WatchFits(w) /\ known \in Int /\ watch[w].pc = "saving"
  BY WatcherFacts DEF WatchSaves
<1>2. Watch(w, t) /\ UNCHANGED <<chainVars, recorded, unread>>
      /\ watchSaved' = [watchSaved EXCEPT ![w] = watch[w].cursor]
  BY DEF WatchSaves
<1>3. t \in WatchStates(w) /\ t.pc = "idle" /\ t.cursor = watch[w].cursor
  BY <1>1 DEF WatchStates
<1> HIDE DEF t
<1>4. watch'[w] = t
  BY <1>2 DEF Watch, WatchInv, WatchTypes
<1>5. /\ watchSaved' \in [Watchers -> Int] /\ watchSaved'[w] = watch[w].cursor
      /\ \A v \in Watchers : v # w => watchSaved'[v] = watchSaved[v]
  <2>1. watchSaved \in [Watchers -> Int] /\ watch[w].cursor \in Int
    BY <1>1 DEF WatchInv, WatchTypes, WatchStates
  <2> QED
    BY <1>2, <2>1
<1>6. WatchFits(w)'
  BY <1>1, <1>2, <1>3, <1>4, <1>5 DEF WatchFits, Seen, Between
<1> QED
  BY <1>2, <1>3, <1>5, <1>6, OneWatcherMoves DEF WatchInv, WatchTypes, chainVars, Seen

\* A call fails: the cursor stays what it was in memory.
LEMMA WatchFailsFits == ASSUME WatchInv, NEW w \in Watchers, WatchFails(w) PROVE WatchInv'
<1> DEFINE t == [watch[w] EXCEPT !.pc = "idle", !.todo = {}]
<1>1. watch[w] \in WatchStates(w) /\ WatchFits(w) /\ known \in Int /\ watch[w].pc \in {"recording", "saving"}
  BY WatcherFacts DEF WatchFails
<1>2. Watch(w, t) /\ UNCHANGED <<chainVars, watchSaved, recorded, unread>>
  BY DEF WatchFails
<1>3. t \in WatchStates(w) /\ t.pc = "idle" /\ t.cursor = watch[w].cursor
  BY <1>1 DEF WatchStates
<1> HIDE DEF t
<1>4. watch'[w] = t
  BY <1>2 DEF Watch, WatchInv, WatchTypes
<1>5. WatchFits(w)'
  BY <1>1, <1>2, <1>3, <1>4 DEF WatchFits, Seen, Between
<1> QED
  BY <1>2, <1>3, <1>5, OneWatcherMoves DEF WatchInv, WatchTypes, chainVars, Seen

LEMMA WatchCrashesFits == ASSUME WatchInv, NEW w \in Watchers, WatchCrashes(w) PROVE WatchInv'
<1> DEFINE t == [NoWatch EXCEPT !.pc = "dead"]
<1>1. Watch(w, t) /\ UNCHANGED <<chainVars, watchSaved, recorded, unread>>
  BY DEF WatchCrashes
<1>2. NoWatch \in WatchStates(w)
  BY DEF NoWatch, WatchStates
<1>3. t \in WatchStates(w) /\ t.pc = "dead"
  BY <1>2 DEF WatchStates
<1> HIDE DEF t
<1>4. watch'[w] = t
  BY <1>1 DEF Watch, WatchInv, WatchTypes
<1>5. WatchFits(w)'
  BY <1>1, <1>3, <1>4, WatcherFacts DEF WatchFits, Seen, Between
<1> QED
  BY <1>1, <1>3, <1>5, OneWatcherMoves DEF WatchInv, WatchTypes, chainVars, Seen

\* A new process: what was saved and what was recorded are still there.
LEMMA WatchersRestartFits == ASSUME WatchInv, WatchersRestart PROVE WatchInv'
<1>1. /\ watch' = [w \in Watchers |-> NoWatch] /\ known' = NoBlock
      /\ UNCHANGED <<watchSaved, recorded, unread>>
  BY DEF WatchersRestart
<1>2. \A w \in Watchers : NoWatch \in WatchStates(w) /\ NoWatch.pc = "off"
  BY DEF NoWatch, WatchStates
<1>3. WatchTypes'
  <2>1. /\ watch' \in [Watchers -> UNION {WatchStates(w) : w \in Watchers}]
        /\ \A w \in Watchers : watch'[w] \in WatchStates(w)
    BY <1>1, <1>2
  <2>2. known' \in Int
    BY <1>1 DEF NoBlock
  <2>3. /\ watchSaved' \in [Watchers -> Int]
        /\ DOMAIN recorded' = Watchers /\ DOMAIN unread' = Watchers
        /\ \A w \in Watchers : DOMAIN recorded'[w] = Events[w] /\ DOMAIN unread'[w] = Events[w]
    BY <1>1 DEF WatchInv, WatchTypes
  <2>4. \A w \in Watchers : WatchStates(w)' = WatchStates(w)
    BY DEF WatchStates
  <2> QED
    BY <2>1, <2>2, <2>3, <2>4 DEF WatchTypes
<1>4. ASSUME NEW w \in Watchers PROVE WatchFits(w)'
  <2>1. watch'[w].pc = "off"
    BY <1>1, <1>2
  <2>2. \A k \in Events[w] : Between(WatchFrom[w], watchSaved'[w] - 1) \subseteq Seen(w, k)'
    BY <1>1, WatcherFacts DEF WatchFits, Seen
  <2> QED
    BY <2>1, <2>2 DEF WatchFits, Between, Levels
<1> QED
  BY <1>3, <1>4 DEF WatchInv

LEMMA WatchStarting == WatchersInit => WatchInv
<1> SUFFICES ASSUME WatchersInit PROVE WatchInv
  OBVIOUS
<1>1. \A w \in Watchers : NoWatch \in WatchStates(w) /\ NoWatch.pc = "off"
  BY DEF NoWatch, WatchStates
<1>2. /\ watch = [w \in Watchers |-> NoWatch] /\ watchSaved = [w \in Watchers |-> NoBlock]
      /\ recorded = [w \in Watchers |-> [k \in Events[w] |-> {}]] /\ unread = recorded
      /\ known = NoBlock /\ NoBlock \in Int
  BY DEF WatchersInit, NoBlock
<1>3. WatchTypes
  BY <1>1, <1>2 DEF WatchTypes
<1>4. ASSUME NEW w \in Watchers PROVE WatchFits(w)
  <2>1. Between(WatchFrom[w], watchSaved[w] - 1) = {}
    BY <1>2, WatchersAssumption DEF Between, Levels, NoBlock
  <2>2. watch[w].pc = "off"
    BY <1>1, <1>2
  <2> QED
    BY <2>1, <2>2 DEF WatchFits
<1> QED
  BY <1>3, <1>4 DEF WatchInv

-----------------------------------------------------------------------------
(* The payments worker, and the head it waits for *)

OwnHeights == Levels \cup {NoBlock}
Fills == [from : Int, until : Int, cursor : Int]
Fillers == [pc : {"off", "dead", "plan", "run", "asked", "saving", "done"},
            from : Int, until : Int, cursor : Int, window : Int, to : Int]

\* What was stored before payments were extracted is all below the head's
\* cursor; every other block in the table came with its payments.
HeadFits ==
    /\ tip \in Levels /\ known \in OwnHeights /\ followed \in OwnHeights /\ followedSaved \in OwnHeights
    /\ paid \subseteq Levels /\ held \subseteq paid \cup Collected
    /\ \A b \in Collected : b <= followedSaved /\ (followed # NoBlock => b <= followed)

\* From the first block of a fill on, all below its cursor is indexed, and all
\* that is stored at or above its end.
Filled(f, done, rows) ==
    \A b \in Levels : b >= f.from =>
        /\ b < f.until /\ b < f.cursor => b \in done
        /\ b >= f.until /\ b \in rows => b \in done

\* A fill under way is the saved one, further on maybe.
FillFits ==
    /\ fillSaved \in Fills /\ filler \in Fillers /\ startBlock \in StartBlocks
    /\ fillSaved # NoFill => Filled(fillSaved, paid, held)
    /\ filler.pc \in {"run", "asked", "saving"} =>
         /\ fillSaved # NoFill /\ filler.from = fillSaved.from /\ filler.until = fillSaved.until
         /\ Filled(filler, paid, held)

IndexInv == WatchInv /\ HeadFits /\ FillFits

LEMMA OwnHeightsAreWhole == OwnHeights \subseteq Int /\ Levels \subseteq Nat /\ NoBlock \notin Levels
BY WatchersAssumption DEF OwnHeights, Levels, NoBlock

\* The fill does not move while blocks come in with their payments.
LEMMA FillStays ==
    ASSUME FillFits, UNCHANGED fillVars, paid \subseteq paid', held' \subseteq held \cup paid'
    PROVE  FillFits'
<1>1. fillSaved' = fillSaved /\ filler' = filler /\ startBlock' = startBlock
  BY DEF fillVars
<1>2. ASSUME NEW f, Filled(f, paid, held)
      PROVE  \A b \in Levels : b >= f.from =>
                /\ b < f.until /\ b < f.cursor => b \in paid'
                /\ b >= f.until /\ b \in held' => b \in paid'
  BY <1>2 DEF Filled
<1>3. fillSaved # NoFill => Filled(fillSaved', paid', held')
  <2> SUFFICES ASSUME fillSaved # NoFill PROVE Filled(fillSaved', paid', held')
    OBVIOUS
  <2>1. Filled(fillSaved, paid, held)
    BY DEF FillFits
  <2> QED
    BY <2>1, <1>1, <1>2 DEF Filled
<1>4. filler.pc \in {"run", "asked", "saving"} => Filled(filler', paid', held')
  <2> SUFFICES ASSUME filler.pc \in {"run", "asked", "saving"} PROVE Filled(filler', paid', held')
    OBVIOUS
  <2>1. Filled(filler, paid, held)
    BY DEF FillFits
  <2> QED
    BY <2>1, <1>1, <1>2 DEF Filled
<1> QED
  BY <1>1, <1>3, <1>4 DEF FillFits

\* A fill that has moved, with its plan as it is saved now.
LEMMA FillBecomes ==
    ASSUME NEW f \in Fillers, NEW p \in Fills, NEW s \in StartBlocks,
           filler' = f, fillSaved' = p, startBlock' = s,
           p # NoFill => Filled(p, paid', held'),
           f.pc \in {"run", "asked", "saving"} =>
              p # NoFill /\ f.from = p.from /\ f.until = p.until /\ Filled(f, paid', held')
    PROVE  FillFits'
<1>1. Fillers' = Fillers /\ Fills' = Fills /\ StartBlocks' = StartBlocks /\ NoFill' = NoFill
  BY DEF Fillers, Fills, NoFill
<1>2. fillSaved' # NoFill => Filled(fillSaved', paid', held')
  OBVIOUS
<1>3. filler'.pc \in {"run", "asked", "saving"} =>
         fillSaved' # NoFill /\ filler'.from = fillSaved'.from /\ filler'.until = fillSaved'.until
  OBVIOUS
<1>4. filler'.pc \in {"run", "asked", "saving"} => Filled(filler', paid', held')
  OBVIOUS
<1>5. filler' \in Fillers' /\ fillSaved' \in Fills' /\ startBlock' \in StartBlocks
  BY <1>1
<1>6. (fillSaved # NoFill => Filled(fillSaved, paid, held))'
  BY <1>1, <1>2
<1>7. (fillSaved \in Fills /\ filler \in Fillers /\ startBlock \in StartBlocks)'
  BY <1>1, <1>5
<1>8. (filler.pc \in {"run", "asked", "saving"} =>
         /\ fillSaved # NoFill /\ filler.from = fillSaved.from /\ filler.until = fillSaved.until
         /\ Filled(filler, paid, held))'
  BY <1>1, <1>3, <1>4
<1> QED
  BY <1>6, <1>7, <1>8, Zenon DEF FillFits

LEMMA HeadStays ==
    ASSUME HeadFits, UNCHANGED <<tip, known, followed, followedSaved, held>>, paid \subseteq paid', paid' \subseteq Levels
    PROVE  HeadFits'
BY DEF HeadFits, OwnHeights, Levels

\* The steps of the chain and of the ingestion.
LEMMA ChainKeepsIndex ==
    ASSUME IndexInv, UNCHANGED watchVars, UNCHANGED fillVars,
           TipGrows \/ HeadPolled \/ HeadLoads \/ HeadPasses \/ \E b \in Levels : BackfillStores(b)
    PROVE  IndexInv'
<1>1. HeadFits' /\ paid \subseteq paid' /\ held' \subseteq held \cup paid'
  <2>1. CASE TipGrows
    BY <2>1, WatchersAssumption DEF IndexInv, HeadFits, TipGrows, Levels, OwnHeights
  <2>2. CASE HeadPolled
    BY <2>2, WatchersAssumption DEF IndexInv, HeadFits, HeadPolled, Levels, OwnHeights
  <2>3. CASE HeadLoads
    <3>1. /\ followed = NoBlock /\ followedSaved' = followed' /\ UNCHANGED <<tip, known, held, paid>>
          /\ followed' = IF followedSaved # NoBlock THEN followedSaved ELSE known - 1
          /\ followedSaved # NoBlock \/ known > 0
      BY <2>3 DEF HeadLoads
    <3>2. followed' \in OwnHeights
      <4>1. CASE followedSaved # NoBlock
        BY <3>1, <4>1 DEF IndexInv, HeadFits
      <4>2. CASE followedSaved = NoBlock
        <5>1. known \in OwnHeights /\ known > 0 /\ followed' = known - 1
          BY <3>1, <4>2 DEF IndexInv, HeadFits
        <5>2. known \in Levels
          BY <5>1 DEF OwnHeights, NoBlock
        <5>3. followed' \in Levels
          BY <5>1, <5>2, WatchersAssumption DEF Levels
        <5> QED
          BY <5>3 DEF OwnHeights
      <4> QED
        BY <4>1, <4>2
    <3>3. \A b \in Collected : b <= followed'
      <4>1. CASE followedSaved = NoBlock
        <5>1. Collected = {}
          BY <4>1, WatchersAssumption DEF IndexInv, HeadFits, NoBlock
        <5> QED
          BY <5>1
      <4>2. CASE followedSaved # NoBlock
        BY <4>2, <3>1 DEF IndexInv, HeadFits
      <4> QED
        BY <4>1, <4>2
    <3> QED
      BY <3>1, <3>2, <3>3 DEF IndexInv, HeadFits, OwnHeights, Levels
  <2>4. CASE HeadPasses
    <3>1. /\ followed # NoBlock /\ followed < known /\ followed' = followed + 1 /\ followedSaved' = followed'
          /\ UNCHANGED <<tip, known>>
          /\ \/ held' = held \cup {followed'} /\ paid' = paid \cup {followed'}
             \/ UNCHANGED <<held, paid>>
      BY <2>4 DEF HeadPasses
    <3>2. followed \in Levels /\ known \in Int /\ (known \in Levels \/ known = -1)
      BY <3>1, OwnHeightsAreWhole DEF IndexInv, HeadFits, OwnHeights, NoBlock
    <3>3. followed' \in Levels /\ followed' > followed
      BY <3>1, <3>2, WatchersAssumption DEF Levels
    <3>4. \A b \in Collected : b <= followed'
      <4>1. \A b \in Collected : b <= followed /\ b \in Int
        BY <3>1, WatchersAssumption DEF IndexInv, HeadFits
      <4>2. followed \in Int /\ followed' \in Int
        BY <3>2, <3>3, OwnHeightsAreWhole
      <4> QED
        BY <4>1, <4>2, <3>3
    <3> QED
      BY <3>1, <3>3, <3>4 DEF IndexInv, HeadFits, OwnHeights, Levels
  <2>5. ASSUME NEW b \in Levels, BackfillStores(b)
        PROVE  HeadFits' /\ paid \subseteq paid' /\ held' \subseteq held \cup paid'
    BY <2>5 DEF IndexInv, HeadFits, BackfillStores, OwnHeights, Levels
  <2> QED
    BY <2>1, <2>2, <2>3, <2>4, <2>5
<1>2. WatchInv'
  <2>1. known' \in Int
    BY <1>1, OwnHeightsAreWhole DEF HeadFits, OwnHeights
  <2> QED
    BY <2>1, WatchersStay DEF IndexInv
<1>3. FillFits'
  BY <1>1, FillStays DEF IndexInv
<1> QED
  BY <1>1, <1>2, <1>3 DEF IndexInv

\* A first fill ends above all that was stored without payments; an older one
\* ends where the one before it began, which has reached its own end.
LEMMA NextFillFits ==
    ASSUME HeadFits, FillFits, fillSaved # NoFill \/ followed # NoBlock
    PROVE  NextFill \in Fills /\ Filled(NextFill, paid, held)
<1>1. startBlock \in Nat /\ followed \in Int
  BY WatchersAssumption, OwnHeightsAreWhole DEF FillFits, HeadFits, OwnHeights
<1>2. CASE fillSaved # NoFill
  <2>1. fillSaved \in Fills /\ Filled(fillSaved, paid, held)
    BY <1>2 DEF FillFits
  <2>2. CASE fillSaved.cursor < fillSaved.until \/ startBlock = 0 \/ startBlock >= fillSaved.from
    <3>1. NextFill = fillSaved
      BY <1>2, <2>2 DEF NextFill
    <3> QED
      BY <3>1, <2>1
  <2>3. CASE ~(fillSaved.cursor < fillSaved.until \/ startBlock = 0 \/ startBlock >= fillSaved.from)
    <3> DEFINE n == [from |-> startBlock, until |-> fillSaved.from, cursor |-> startBlock]
    <3>1. NextFill = n
      BY <1>2, <2>3 DEF NextFill
    <3>2. /\ n \in Fills
          /\ n.from = startBlock /\ n.until = fillSaved.from /\ n.cursor = startBlock
      BY <1>1, <2>1 DEF Fills
    <3> HIDE DEF n
    <3>3. /\ fillSaved.from \in Int /\ fillSaved.until \in Int /\ fillSaved.cursor \in Int
          /\ fillSaved.cursor >= fillSaved.until
      BY <2>1, <2>3 DEF Fills
    <3>4. Filled(n, paid, held)
      <4> SUFFICES ASSUME NEW b \in Levels, b >= n.from
                   PROVE  /\ b < n.until /\ b < n.cursor => b \in paid
                          /\ b >= n.until /\ b \in held => b \in paid
        BY DEF Filled
      <4>1. b \in Int
        BY OwnHeightsAreWhole
      <4>2. ~(b < n.cursor)
        BY <4>1, <3>2, <1>1
      <4>3. ASSUME b >= fillSaved.from, b \in held PROVE b \in paid
        <5>1. CASE b < fillSaved.until
          <6>1. b < fillSaved.cursor
            BY <5>1, <3>3, <4>1
          <6> QED
            BY <6>1, <5>1, <4>3, <2>1 DEF Filled
        <5>2. CASE b >= fillSaved.until
          BY <5>2, <4>3, <2>1 DEF Filled
        <5> QED
          BY <5>1, <5>2, <3>3, <4>1
      <4> QED
        BY <4>2, <4>3, <3>2
    <3> QED
      BY <3>1, <3>2, <3>4
  <2> QED
    BY <2>2, <2>3
<1>3. CASE fillSaved = NoFill
  <2> DEFINE until == followed + 1
             from == IF startBlock > 0 THEN startBlock ELSE IF Lowest # NoBlock THEN Lowest ELSE until
             n == [from |-> from, until |-> until, cursor |-> Smaller(from, until)]
  <2>1. NextFill = n
    BY <1>3 DEF NextFill
  <2>2. until \in Int
    BY <1>1
  <2>3. from \in Int
    <3>1. ASSUME held # {} PROVE Lowest \in Int
      <4>1. held \in SUBSET Int /\ IsFiniteSet(held)
        <5>1. 0 \in Int /\ MaxTip \in Int
          BY WatchersAssumption
        <5>2. IsFiniteSet(Levels)
          BY <5>1, FS_Interval DEF Levels
        <5>3. Collected \subseteq Levels /\ held \subseteq Levels
          BY WatchersAssumption DEF HeadFits, Levels
        <5>4. IsFiniteSet(held)
          BY <5>2, <5>3, FS_Subset
        <5>5. held \in SUBSET Int
          BY <5>3, OwnHeightsAreWhole
        <5> QED
          BY <5>4, <5>5
      <4>2. Lowest \in Int
        <5>1. Min(held) \in held
          BY <4>1, <3>1, LeastOfFinite
        <5>2. Lowest = Min(held)
          BY <3>1 DEF Lowest, Min
        <5> QED
          BY <4>1, <5>1, <5>2
      <4> QED
        BY <4>2
    <3> QED
      BY <3>1, <2>2, <1>1 DEF Lowest, NoBlock
  <2> HIDE DEF until, from
  <2>4. /\ n \in Fills /\ n.from = from /\ n.until = until /\ n.cursor <= from
    BY <2>2, <2>3 DEF Fills, Smaller
  <2> HIDE DEF n
  <2>5. Filled(n, paid, held)
    <3> SUFFICES ASSUME NEW b \in Levels, b >= n.from
                 PROVE  /\ b < n.until /\ b < n.cursor => b \in paid
                        /\ b >= n.until /\ b \in held => b \in paid
      BY DEF Filled
    <3>1. b \in Int
      BY OwnHeightsAreWhole
    <3>2. ~(b < n.cursor)
      BY <3>1, <2>3, <2>4 DEF Fills
    <3>3. ASSUME b >= until, b \in held PROVE b \in paid
      <4>1. b \notin Collected
        BY <3>3, <3>1, <1>1, <1>3 DEF HeadFits, until
      <4> QED
        BY <4>1, <3>3 DEF HeadFits
    <3> QED
      BY <3>2, <3>3, <2>4
  <2> QED
    BY <2>1, <2>4, <2>5
<1> QED
  BY <1>2, <1>3

LEMMA FillPlansFits == ASSUME IndexInv, FillPlans PROVE FillFits'
<1> DEFINE n == NextFill
           f == [NoRun EXCEPT !.from = n.from, !.until = n.until, !.cursor = n.cursor,
                              !.pc = IF n.cursor < n.until THEN "run" ELSE "done"]
<1>1. n \in Fills /\ Filled(n, paid, held)
  BY NextFillFits DEF IndexInv, FillPlans
<1> HIDE DEF n
<1>2. NoRun \in Fillers
  BY WatchersAssumption DEF NoRun, Fillers, NoBlock
<1>3. /\ f \in Fillers /\ f.from = n.from /\ f.until = n.until /\ f.cursor = n.cursor
      /\ f.pc \in {"run", "done"} /\ (f.pc = "run" => n.cursor < n.until)
  BY <1>1, <1>2 DEF Fillers, Fills
<1>4. fillSaved' = n /\ filler' = f /\ startBlock' = startBlock /\ paid' = paid /\ held' = held
  BY DEF FillPlans, n, chainVars
<1> HIDE DEF f
<1>5. Filled(n, paid', held') /\ Filled(f, paid', held')
  BY <1>1, <1>3, <1>4 DEF Filled
<1>6. f.pc = "run" => n # NoFill
  BY <1>3 DEF NoFill, NoBlock
<1> QED
  BY <1>1, <1>3, <1>4, <1>5, <1>6, FillBecomes DEF IndexInv, FillFits

\* A step of a fill under way that neither saves nor writes.
LEMMA FillGoesOn ==
    ASSUME FillFits, filler.pc \in {"run", "asked", "saving"},
           NEW f \in Fillers, f.from = filler.from, f.until = filler.until, f.cursor = filler.cursor,
           filler' = f, UNCHANGED <<fillSaved, startBlock, held, paid>>
    PROVE  FillFits'
<1>1. /\ fillSaved \in Fills /\ startBlock \in StartBlocks /\ fillSaved # NoFill
      /\ Filled(fillSaved, paid, held) /\ Filled(filler, paid, held)
      /\ filler.from = fillSaved.from /\ filler.until = fillSaved.until
  BY DEF FillFits
<1>2. Filled(fillSaved, paid', held') /\ Filled(f, paid', held')
  BY <1>1 DEF Filled
<1>3. fillSaved' = fillSaved /\ startBlock' = startBlock
  OBVIOUS
<1> QED
  BY <1>1, <1>2, <1>3, FillBecomes

LEMMA FillerFacts ==
    ASSUME FillFits
    PROVE  /\ filler \in Fillers /\ Smaller(filler.cursor + filler.window, filler.until) - 1 \in Int
           /\ (IF filler.window \div 2 < WindowMin THEN WindowMin ELSE filler.window \div 2) \in Int
           /\ Smaller(WindowMax, 2 * filler.window) \in Int
<1>1. /\ filler \in Fillers /\ filler.cursor \in Int /\ filler.window \in Int /\ filler.until \in Int
  BY DEF FillFits, Fillers
<1>2. \A i, j \in Int : Smaller(i, j) \in Int
  BY DEF Smaller
<1>3. filler.window \div 2 \in Int /\ WindowMin \in Int /\ WindowMax \in Int /\ 2 * filler.window \in Int
  BY <1>1, WatchersAssumption
<1>4. Smaller(filler.cursor + filler.window, filler.until) \in Int
  <2>1. filler.cursor + filler.window \in Int
    BY <1>1
  <2> QED
    BY <1>1, <1>2, <2>1
<1>5. Smaller(filler.cursor + filler.window, filler.until) - 1 \in Int
  BY <1>4
<1> QED
  BY <1>1, <1>2, <1>3, <1>5

LEMMA FillAsksFits == ASSUME IndexInv, FillAsks PROVE FillFits'
<1> DEFINE f == [filler EXCEPT !.pc = "asked", !.to = Smaller(filler.cursor + filler.window, filler.until) - 1]
<1>1. f \in Fillers /\ f.from = filler.from /\ f.until = filler.until /\ f.cursor = filler.cursor
  BY FillerFacts DEF IndexInv, Fillers
<1>2. filler' = f /\ filler.pc = "run" /\ UNCHANGED <<fillSaved, startBlock, held, paid>>
  BY DEF FillAsks, chainVars
<1> HIDE DEF f
<1> QED
  BY <1>1, <1>2, FillGoesOn DEF IndexInv

LEMMA FillRefusedFits == ASSUME IndexInv, FillRefused PROVE FillFits'
<1> DEFINE f == [filler EXCEPT !.pc = "run",
                     !.window = IF filler.window \div 2 < WindowMin THEN WindowMin ELSE filler.window \div 2]
<1>1. f \in Fillers /\ f.from = filler.from /\ f.until = filler.until /\ f.cursor = filler.cursor
  BY FillerFacts DEF IndexInv, Fillers
<1>2. filler' = f /\ filler.pc = "asked" /\ UNCHANGED <<fillSaved, startBlock, held, paid>>
  BY DEF FillRefused, chainVars
<1> HIDE DEF f
<1> QED
  BY <1>1, <1>2, FillGoesOn DEF IndexInv

LEMMA FillFailsFits == ASSUME IndexInv, FillFails PROVE FillFits'
<1> DEFINE f == [filler EXCEPT !.pc = IF Ended THEN "plan" ELSE "run"]
<1>1. f \in Fillers /\ f.from = filler.from /\ f.until = filler.until /\ f.cursor = filler.cursor
  BY FillerFacts DEF IndexInv, Fillers
<1>2. filler' = f /\ filler.pc \in {"asked", "saving"} /\ UNCHANGED <<fillSaved, startBlock, held, paid>>
  BY DEF FillFails, chainVars
<1> HIDE DEF f
<1> QED
  BY <1>1, <1>2, FillGoesOn DEF IndexInv

\* The blocks of the range that was asked for are indexed, up to its end.
LEMMA FillWritesFits == ASSUME IndexInv, FillWrites PROVE FillFits'
<1> DEFINE f == [filler EXCEPT !.pc = "saving", !.cursor = filler.to + 1]
<1>1. /\ filler \in Fillers /\ filler.pc = "asked" /\ filler.to \in Int /\ filler.cursor \in Int
      /\ Filled(filler, paid, held) /\ Filled(fillSaved, paid, held) /\ fillSaved \in Fills /\ fillSaved # NoFill
      /\ startBlock \in StartBlocks
      /\ filler.from = fillSaved.from /\ filler.until = fillSaved.until
  BY DEF IndexInv, FillFits, FillWrites, Fillers
<1>2. /\ f \in Fillers /\ f.from = filler.from /\ f.until = filler.until /\ f.cursor = filler.to + 1
      /\ f.pc = "saving"
  <2> DEFINE above == filler.to + 1
  <2>1. above \in Int
    BY <1>1
  <2> HIDE DEF above
  <2>2. f = [filler EXCEPT !.pc = "saving", !.cursor = above]
    BY DEF above
  <2>3. filler \in Fillers
    BY <1>1
  <2> HIDE DEF f
  <2>4. /\ f \in Fillers /\ f.from = filler.from /\ f.until = filler.until /\ f.cursor = above
        /\ f.pc = "saving"
    BY <2>1, <2>2, <2>3 DEF Fillers
  <2> QED
    BY <2>4 DEF above
<1>3. filler' = f /\ UNCHANGED <<fillSaved, startBlock, held>>
      /\ paid' = paid \cup Between(filler.cursor, filler.to)
  BY DEF FillWrites
<1> HIDE DEF f
<1>4. Filled(fillSaved, paid', held')
  BY <1>1, <1>3 DEF Filled
<1>5. Filled(f, paid', held')
  <2> SUFFICES ASSUME NEW b \in Levels, b >= f.from
               PROVE  /\ b < f.until /\ b < f.cursor => b \in paid'
                      /\ b >= f.until /\ b \in held => b \in paid'
    BY <1>3 DEF Filled
  <2>1. b >= f.until /\ b \in held => b \in paid'
    BY <1>1, <1>2, <1>3 DEF Filled
  <2>2. ASSUME b < f.until, b < f.cursor PROVE b \in paid'
    <3>1. b \in Int /\ b <= filler.to
      BY <2>2, <1>1, <1>2, OwnHeightsAreWhole
    <3>2. CASE b < filler.cursor
      BY <3>2, <2>2, <1>1, <1>2, <1>3 DEF Filled
    <3>3. CASE filler.cursor <= b
      BY <3>1, <3>3, <1>3 DEF Between
    <3> QED
      BY <3>1, <3>2, <3>3, <1>1
  <2> QED
    BY <2>1, <2>2
<1>6. fillSaved' = fillSaved /\ startBlock' = startBlock
  BY <1>3
<1> QED
  BY <1>1, <1>2, <1>4, <1>5, <1>3, <1>6, FillBecomes

LEMMA FillSavesFits == ASSUME IndexInv, FillSaves PROVE FillFits'
<1> DEFINE f == [filler EXCEPT !.pc = IF Ended THEN "plan" ELSE "run", !.window = Smaller(WindowMax, 2 * filler.window)]
           n == [from |-> filler.from, until |-> filler.until, cursor |-> filler.cursor]
<1>1. filler \in Fillers /\ filler.pc = "saving" /\ Filled(filler, paid, held) /\ startBlock \in StartBlocks
  BY DEF IndexInv, FillFits, FillSaves
<1>2. /\ f \in Fillers /\ f.from = filler.from /\ f.until = filler.until /\ f.cursor = filler.cursor
      /\ f.pc \in {"plan", "run"} /\ (f.pc = "run" => ~Ended)
  BY FillerFacts DEF IndexInv, Fillers
<1>3. /\ n \in Fills /\ n.from = filler.from /\ n.until = filler.until /\ n.cursor = filler.cursor
  BY <1>1 DEF Fillers, Fills
<1>4. filler' = f /\ fillSaved' = n /\ UNCHANGED <<startBlock, held, paid>>
  BY DEF FillSaves, chainVars
<1>5. ~Ended => n # NoFill
  <2>1. filler.cursor \in Int /\ filler.until \in Int
    BY <1>1 DEF Fillers
  <2> QED
    BY <2>1, <1>3 DEF Ended, NoFill, NoBlock
<1> HIDE DEF f, n
<1>6. Filled(n, paid', held') /\ Filled(f, paid', held')
  BY <1>1, <1>2, <1>3, <1>4 DEF Filled
<1> QED
  BY <1>1, <1>2, <1>3, <1>4, <1>5, <1>6, FillBecomes

\* A worker that has not planned.
LEMMA FillRests ==
    ASSUME FillFits, NEW f \in Fillers, f.pc \in {"off", "dead"}, filler' = f,
           startBlock' \in StartBlocks, UNCHANGED <<fillSaved, held, paid>>
    PROVE  FillFits'
<1>1. fillSaved \in Fills /\ (fillSaved # NoFill => Filled(fillSaved, paid, held))
  BY DEF FillFits
<1>2. fillSaved # NoFill => Filled(fillSaved, paid', held')
  BY <1>1 DEF Filled
<1>3. fillSaved' = fillSaved
  OBVIOUS
<1> QED
  BY <1>1, <1>2, <1>3, FillBecomes

LEMMA NoRunIsFiller == NoRun \in Fillers /\ NoRun.pc = "off" /\ [NoRun EXCEPT !.pc = "dead"] \in Fillers
BY WatchersAssumption DEF NoRun, Fillers, NoBlock

LEMMA FillCrashesFits == ASSUME IndexInv, FillCrashes PROVE FillFits'
<1> DEFINE f == [NoRun EXCEPT !.pc = "dead"]
<1>1. f \in Fillers /\ f.pc = "dead"
  BY NoRunIsFiller DEF Fillers, NoRun
<1>2. filler' = f /\ UNCHANGED <<fillSaved, startBlock, held, paid>>
  BY DEF FillCrashes, chainVars
<1>3. startBlock' \in StartBlocks
  BY <1>2 DEF IndexInv, FillFits
<1> HIDE DEF f
<1> QED
  BY <1>1, <1>2, <1>3, FillRests DEF IndexInv

LEMMA FillKeepsIndex ==
    ASSUME IndexInv, UNCHANGED watchVars,
           PaymentsStep \/ FillRefused \/ FillFails \/ FillCrashes
    PROVE  IndexInv'
<1>1. /\ UNCHANGED <<tip, known, followed, followedSaved, held>>
      /\ paid \subseteq paid' /\ paid' \subseteq Levels
  <2>1. CASE FillWrites
    BY <2>1 DEF FillWrites, IndexInv, HeadFits, Between
  <2>2. CASE FillPlans \/ FillAsks \/ FillSaves \/ FillRefused \/ FillFails \/ FillCrashes
    BY <2>2 DEF FillPlans, FillAsks, FillSaves, FillRefused, FillFails, FillCrashes, chainVars,
                IndexInv, HeadFits
  <2> QED
    BY <2>1, <2>2 DEF PaymentsStep
<1>2. HeadFits'
  BY <1>1, HeadStays DEF IndexInv
<1>3. WatchInv'
  <2>1. known' \in Int
    BY <1>2, OwnHeightsAreWhole DEF HeadFits, OwnHeights
  <2> QED
    BY <2>1, WatchersStay DEF IndexInv
<1>4. FillFits'
  BY FillPlansFits, FillAsksFits, FillWritesFits, FillSavesFits, FillRefusedFits, FillFailsFits,
     FillCrashesFits DEF PaymentsStep
<1> QED
  BY <1>2, <1>3, <1>4 DEF IndexInv

LEMMA RestartKeepsIndex == ASSUME IndexInv, WatchersRestart PROVE IndexInv'
<1>1. WatchInv'
  BY WatchersRestartFits DEF IndexInv
<1>2. HeadFits'
  BY DEF IndexInv, HeadFits, WatchersRestart, OwnHeights, Levels, NoBlock
<1>3. FillFits'
  <2>1. FillFits /\ filler' = NoRun /\ startBlock' \in StartBlocks /\ UNCHANGED <<fillSaved, held, paid>>
    BY DEF IndexInv, WatchersRestart
  <2> QED
    BY <2>1, NoRunIsFiller, FillRests
<1> QED
  BY <1>1, <1>2, <1>3 DEF IndexInv

LEMMA WatchKeepsIndex ==
    ASSUME IndexInv, NEW w \in Watchers, WatchStep(w) \/ WatchFails(w) \/ WatchCrashes(w)
    PROVE  IndexInv'
<1>1. WatchInv'
  BY WatchStartsFits, WatchAsksFits, WatchSavesFits, WatchRecordsFits, WatchFailsFits, WatchCrashesFits
     DEF WatchStep, IndexInv
<1>2. UNCHANGED <<chainVars, fillVars>>
  <2>1. \A k, missing : WatchRecords(w, k, missing) => UNCHANGED <<chainVars, fillVars>>
    BY DEF WatchRecords
  <2> QED
    BY <2>1 DEF WatchStep, WatchStarts, WatchAsks, WatchSaves, WatchFails, WatchCrashes
<1>3. HeadFits'
  BY <1>2, HeadStays DEF IndexInv, HeadFits, chainVars
<1>4. FillFits'
  BY <1>2, FillStays DEF IndexInv, chainVars
<1> QED
  BY <1>1, <1>3, <1>4 DEF IndexInv

LEMMA IndexStarts == WatchersInit => IndexInv
<1> SUFFICES ASSUME WatchersInit PROVE IndexInv
  OBVIOUS
<1>1. LastCollected \in OwnHeights /\ \A b \in Collected : b <= LastCollected
  <2>1. CASE Collected = {}
    BY <2>1 DEF LastCollected, OwnHeights
  <2>2. CASE Collected # {}
    <3>1. \E b \in Collected : \A c \in Collected : c <= b
      <4> DEFINE S == {c \in Levels : \A b \in Collected : b <= c}
      <4>1. IsFiniteSet(S)
        <5>1. 0 \in Int /\ MaxTip \in Int
          BY WatchersAssumption
        <5>2. IsFiniteSet(Levels)
          BY <5>1, FS_Interval DEF Levels
        <5> QED
          BY <5>2, FS_Subset
      <4>2. S \in SUBSET Int /\ S # {}
        <5>1. MaxTip \in Levels /\ (\A b \in Collected : b <= MaxTip)
          BY WatchersAssumption DEF Levels
        <5>2. MaxTip \in S
          BY <5>1
        <5>3. S \subseteq Levels
          OBVIOUS
        <5>4. Levels \subseteq Int
          BY OwnHeightsAreWhole
        <5> HIDE DEF S
        <5> QED
          BY <5>2, <5>3, <5>4
      <4> HIDE DEF S
      <4>3. PICK y \in S : \A z \in S : y <= z
        BY <4>1, <4>2, LeastOfFinite
      <4>4. y \in Levels /\ \A b \in Collected : b <= y
        BY DEF S
      <4>5. y \in Collected
        <5> SUFFICES ASSUME y \notin Collected PROVE FALSE
          OBVIOUS
        <5>1. \A b \in Collected : b \in Nat /\ b <= y - 1
          <6> SUFFICES ASSUME NEW b \in Collected PROVE b \in Nat /\ b <= y - 1
            OBVIOUS
          <6>1. b \in Nat /\ b <= y /\ b # y /\ y \in Nat
            BY <4>4, WatchersAssumption, OwnHeightsAreWhole
          <6> QED
            BY <6>1
        <5>2. y - 1 \in Levels
          <6>1. PICK b \in Collected : TRUE
            BY <2>2
          <6>2. b \in Nat /\ b <= y - 1
            BY <5>1
          <6> QED
            BY <6>2, <4>4, WatchersAssumption DEF Levels
        <5>3. y - 1 \in S
          BY <5>1, <5>2 DEF S
        <5>4. y \in Int /\ y <= y - 1
          BY <4>3, <5>3, <4>4, OwnHeightsAreWhole
        <5> QED
          BY <5>4
      <4> QED
        BY <4>4, <4>5
    <3>2. LastCollected \in Collected /\ \A c \in Collected : c <= LastCollected
      BY <2>2, <3>1 DEF LastCollected
    <3> QED
      BY <3>2, WatchersAssumption DEF OwnHeights, Levels
  <2> QED
    BY <2>1, <2>2
<1>2. HeadFits
  <2>1. tip \in Levels
    BY <1>1, WatchersAssumption DEF WatchersInit, OwnHeights, Levels, NoBlock, LastCollected
  <2> QED
    BY <1>1, <2>1 DEF WatchersInit, HeadFits, OwnHeights
<1>3. FillFits
  BY NoRunIsFiller DEF WatchersInit, FillFits, NoFill, Fills, NoBlock
<1> QED
  BY <1>2, <1>3, WatchStarting DEF IndexInv

LEMMA IndexNext == IndexInv /\ [WatchersNext]_watchersVars => IndexInv'
<1> SUFFICES ASSUME IndexInv, [WatchersNext]_watchersVars PROVE IndexInv'
  OBVIOUS
<1>1. CASE TipGrows \/ HeadPolled \/ HeadLoads \/ HeadPasses \/ \E b \in Levels : BackfillStores(b)
  <2>1. UNCHANGED watchVars /\ UNCHANGED fillVars
    BY <1>1 DEF TipGrows, HeadPolled, HeadLoads, HeadPasses, BackfillStores
  <2> QED
    BY <1>1, <2>1, ChainKeepsIndex
<1>2. CASE PaymentsStep \/ FillRefused \/ FillFails \/ FillCrashes
  <2>1. UNCHANGED watchVars
    BY <1>2 DEF PaymentsStep, FillPlans, FillAsks, FillWrites, FillSaves, FillRefused, FillFails, FillCrashes
  <2> QED
    BY <1>2, <2>1, FillKeepsIndex
<1>3. CASE UNCHANGED watchersVars
  <2>1. UNCHANGED chainVars /\ UNCHANGED watchVars /\ UNCHANGED fillVars
    BY <1>3 DEF watchersVars
  <2>2. HeadFits'
    BY <2>1, HeadStays DEF IndexInv, HeadFits, chainVars
  <2>3. WatchInv' /\ FillFits'
    BY <2>1, WatchersStay, FillStays DEF IndexInv, WatchInv, WatchTypes, chainVars
  <2> QED
    BY <2>2, <2>3 DEF IndexInv
<1> QED
  BY <1>1, <1>2, <1>3, WatchKeepsIndex, RestartKeepsIndex DEF WatchersNext

\* The token and the price watcher save no cursor that has passed an event:
\* whatever failed, and whenever the process stopped, what lies below it is
\* recorded, or is a price whose receipt never came.
THEOREM NothingIsPassedOver == WatchersSpec => []NothingPassedOver
<1>1. IndexInv => NothingPassedOver
  BY DEF IndexInv, WatchInv, WatchFits, NothingPassedOver, Seen
<1> QED
  BY <1>1, IndexStarts, IndexNext, PTL DEF WatchersSpec

\* What the API says of the payments index is so: every block from where it
\* began is in it, but for those it names as missing.
THEOREM IndexSaysWhatItHolds == WatchersSpec => []PaymentsIndexed
<1>1. IndexInv => PaymentsIndexed
  <2> SUFFICES ASSUME IndexInv, fillSaved # NoFill, NEW b \in Levels, b >= fillSaved.from,
                      ~(fillSaved.cursor <= b /\ b < fillSaved.until)
               PROVE  /\ b < fillSaved.until => b \in paid
                      /\ b \in held => b \in paid
    BY DEF PaymentsIndexed
  <2>1. Filled(fillSaved, paid, held) /\ b \in Int /\ fillSaved.cursor \in Int /\ fillSaved.until \in Int
    BY OwnHeightsAreWhole DEF IndexInv, FillFits, Fills
  <2>2. CASE b < fillSaved.until
    <3>1. b < fillSaved.cursor
      BY <2>1, <2>2
    <3> QED
      BY <2>1, <2>2, <3>1 DEF Filled
  <2>3. CASE b >= fillSaved.until
    <3>1. ~(b < fillSaved.until)
      BY <2>1, <2>3
    <3> QED
      BY <2>1, <2>3, <3>1 DEF Filled
  <2> QED
    BY <2>1, <2>2, <2>3
<1> QED
  BY <1>1, IndexStarts, IndexNext, PTL DEF WatchersSpec
-----------------------------------------------------------------------------
(* A request fails over before it gives up. *)

\* An endpoint's refusal names no more than it takes.
LimitsToldEnough ==
    \A e \in Endpoints : (IF LimitTold[e] < 1 THEN 1 ELSE LimitTold[e]) <= BatchLimit[e]

\* The endpoints whose limit a request may run into.
Narrow == {e \in Endpoints : \E n \in Sizes : BatchLimit[e] < n}

\* The attempts outlast all the other endpoints failing, each after one
\* attempt that only taught its limit.
AttemptsReachAll ==
    \A u \in Endpoints : Cardinality(Endpoints \ {u}) + Cardinality(Narrow \ {u}) < MaxAttempts

\* What a request r spent its attempts on while U are the endpoints it can
\* use: on those it has tried, and on learning the limits of L.
SpentOn(r, E, U, L) ==
    /\ r.tried \subseteq r.asked /\ L \subseteq Narrow
    /\ \A e \in L : E[e].maxBatch <= BatchLimit[e]
    /\ r.attempt <= Cardinality(r.tried) + Cardinality(L)
    /\ r.pc \in {"chosen", "waiting"} => r.at \in U \ r.tried
    /\ r.pc = "waiting" => r.at \in r.asked /\ (BatchLimit[r.at] < Len(r.chunk) => r.at \notin L)
    /\ r.pc = "exhausted" => MaxAttempts <= r.attempt

\* As long as there is one it has not asked.
AttemptsFit(r, E, U) ==
    /\ r.size \in Sizes
    /\ U \subseteq r.asked \/ \E L \in SUBSET r.asked : SpentOn(r, E, U, L)

UsableTo(r) == {e \in Endpoints : checked'[e] # "disabled" /\ e \notin r.exclude}

FailoverInv ==
    /\ PoolInv
    /\ \A c \in Callers :
         request[c].pc # "idle" => AttemptsFit(request[c], endpoint, Usable(request[c]))

LEMMA AskedIsFinite ==
    ASSUME NEW S \in SUBSET Endpoints
    PROVE  IsFiniteSet(S) /\ Cardinality(S) \in Nat
BY RpcPoolAssumption, FS_Subset, FS_CardinalityType

\* A limit learned later is lower.
LEMMA AttemptsKept ==
    ASSUME NEW E \in EndpointRecords, NEW F \in EndpointRecords,
           \A e \in Endpoints : F[e].maxBatch <= E[e].maxBatch,
           NEW r \in Requests, NEW U, AttemptsFit(r, E, U)
    PROVE  AttemptsFit(r, F, U)
<1> SUFFICES ASSUME NEW L \in SUBSET r.asked, SpentOn(r, E, U, L) PROVE SpentOn(r, F, U, L)
  BY DEF AttemptsFit
<1>1. \A e \in L : F[e].maxBatch <= BatchLimit[e]
  <2> SUFFICES ASSUME NEW e \in L PROVE F[e].maxBatch <= BatchLimit[e]
    OBVIOUS
  <2>1. e \in Endpoints /\ E[e].maxBatch <= BatchLimit[e]
    BY DEF SpentOn, Requests
  <2>2. E[e].maxBatch \in Int /\ F[e].maxBatch \in Int /\ BatchLimit[e] \in Int
    BY <2>1, RpcPoolAssumption DEF EndpointRecords
  <2> QED
    BY <2>1, <2>2
<1> QED
  BY <1>1 DEF SpentOn

\* One request moves while the process runs; the others keep what they spent.
LEMMA OneRequestSpends ==
    ASSUME FailoverInv, PoolInv', NEW c \in Callers, NEW s \in Requests, Req(c, s),
           UNCHANGED checked,
           \A e \in Endpoints : endpoint'[e].maxBatch <= endpoint[e].maxBatch,
           s.pc # "idle" => AttemptsFit(s, endpoint', Usable(s))
    PROVE  FailoverInv'
<1>1. ASSUME NEW r PROVE UsableTo(r) = Usable(r)
  BY DEF Usable, UsableTo
<1>2. ASSUME NEW d \in Callers, request'[d].pc # "idle"
      PROVE  AttemptsFit(request'[d], endpoint', UsableTo(request'[d]))
  <2>1. CASE d = c
    <3>1. request'[d] = s
      BY <2>1 DEF Req, FailoverInv, PoolInv
    <3> QED
      BY <3>1, <1>1, <1>2
  <2>2. CASE d # c
    <3>1. request'[d] = request[d] /\ request[d] \in Requests
      BY <2>2 DEF Req, FailoverInv, PoolInv
    <3>2. AttemptsFit(request[d], endpoint, Usable(request[d]))
      BY <3>1, <1>2 DEF FailoverInv
    <3>3. endpoint \in EndpointRecords /\ endpoint' \in EndpointRecords
      BY DEF FailoverInv, PoolInv
    <3>4. AttemptsFit(request[d], endpoint', Usable(request[d]))
      BY <3>1, <3>2, <3>3, AttemptsKept
    <3> QED
      BY <3>1, <3>4, <1>1
  <2> QED
    BY <2>1, <2>2
<1>3. \A d \in Callers : (Usable(request[d]))' = UsableTo(request'[d])
  BY DEF Usable, UsableTo
<1>4. (\A d \in Callers : request[d].pc # "idle" => AttemptsFit(request[d], endpoint, Usable(request[d])))'
  <2> SUFFICES ASSUME NEW d \in Callers, request'[d].pc # "idle"
               PROVE  (AttemptsFit(request[d], endpoint, Usable(request[d])))'
    OBVIOUS
  <2>1. AttemptsFit(request'[d], endpoint', UsableTo(request'[d]))
    BY <1>2
  <2> QED
    BY <2>1 DEF AttemptsFit, SpentOn, Usable, UsableTo
<1> QED
  BY <1>4 DEF FailoverInv

\* What is known of a request that goes on.
LEMMA SpendingFacts ==
    ASSUME FailoverInv, NEW c \in Callers, request[c].pc # "idle"
    PROVE  /\ request[c] \in Requests /\ request[c].size \in Sizes
           /\ AttemptsFit(request[c], endpoint, Usable(request[c]))
           /\ endpoint \in EndpointRecords
           /\ collector = "running"
BY DEF FailoverInv, PoolInv, AttemptsFit

LEMMA SpendAsks ==
    ASSUME FailoverInv, PoolInv', NEW c \in Callers, NEW n \in Sizes, NEW x \in Excludes[c], Asks(c, n, x)
    PROVE  FailoverInv'
<1> DEFINE s == [NoRequest EXCEPT !.pc = "choosing", !.size = n, !.exclude = x]
<1>1. Req(c, s) /\ UNCHANGED <<checked, endpoint>>
  BY DEF Asks
<1>2. n \in 1..(Whole - 1) /\ x \in SUBSET Endpoints
  BY RpcPoolAssumption
<1>3. /\ s \in Requests /\ s.pc = "choosing" /\ s.size = n
      /\ s.tried = {} /\ s.asked = {} /\ s.attempt = 0
  <2>1. NoRequest \in Requests
    BY NoRequestFits
  <2>2. NoRequest.tried = {} /\ NoRequest.asked = {} /\ NoRequest.attempt = 0
    BY DEF NoRequest
  <2> QED
    BY <1>2, <2>1, <2>2 DEF Requests
<1> HIDE DEF s
<1>4. \A e \in Endpoints : endpoint'[e].maxBatch <= endpoint[e].maxBatch
  BY <1>1 DEF FailoverInv, PoolInv, EndpointRecords
<1>5. SpentOn(s, endpoint', Usable(s), {})
  <2>1. Cardinality({}) = 0
    BY FS_EmptySet
  <2>2. s.attempt <= Cardinality(s.tried) + Cardinality({})
    BY <1>3, <2>1
  <2> QED
    BY <1>3, <2>2 DEF SpentOn
<1>6. AttemptsFit(s, endpoint', Usable(s))
  BY <1>3, <1>5 DEF AttemptsFit
<1> QED
  BY <1>1, <1>3, <1>4, <1>6, OneRequestSpends

LEMMA SpendTakes ==
    ASSUME FailoverInv, PoolInv', NEW c \in Callers, Takes(c)
    PROVE  FailoverInv'
<1>1. Req(c, NoRequest) /\ UNCHANGED <<checked, endpoint>>
  BY DEF Takes
<1>2. \A e \in Endpoints : endpoint'[e].maxBatch <= endpoint[e].maxBatch
  BY <1>1 DEF FailoverInv, PoolInv, EndpointRecords
<1> QED
  BY <1>1, <1>2, NoRequestFits, OneRequestSpends

\* As long as an endpoint was not asked, it was not tried either, and the
\* choice falls on one that was not tried.
LEMMA SpendChooses ==
    ASSUME FailoverInv, PoolInv', NEW c \in Callers, Chooses(c)
    PROVE  FailoverInv'
<1> DEFINE r == request[c]
           U == Usable(r)
<1>1. /\ r \in Requests /\ r.pc = "choosing" /\ UNCHANGED <<checked, endpoint>>
      /\ AttemptsFit(r, endpoint, U) /\ r.size \in Sizes
  BY SpendingFacts DEF Chooses
<1>2. \A e \in Endpoints : endpoint'[e].maxBatch <= endpoint[e].maxBatch
  BY <1>1 DEF FailoverInv, PoolInv, EndpointRecords
<1>3. CASE U = {}
  <2> DEFINE s == [r EXCEPT !.pc = "threw"]
  <2>1. Req(c, s)
    BY <1>3 DEF Chooses
  <2>2. s \in Requests /\ s.exclude = r.exclude /\ s.size = r.size
    BY <1>1 DEF Requests
  <2> HIDE DEF s
  <2>3. Usable(s) = {}
    BY <1>3, <2>2 DEF Usable
  <2>4. AttemptsFit(s, endpoint', Usable(s))
    BY <1>1, <2>2, <2>3 DEF AttemptsFit
  <2> QED
    BY <1>1, <1>2, <2>1, <2>2, <2>4, OneRequestSpends
<1>4. CASE U # {}
  <2> DEFINE at == Best(Fresh(r), r.size)
             tried == IF U \subseteq r.tried THEN {} ELSE r.tried
             s == [r EXCEPT !.pc = "chosen", !.at = at, !.got = <<>>, !.next = 1, !.tried = tried]
  <2>1. Req(c, s)
    BY <1>4 DEF Chooses
  <2>2. at \in Fresh(r) /\ at \in Endpoints
    <3>1. Fresh(r) # {} /\ Fresh(r) \subseteq Endpoints
      BY <1>4 DEF Fresh, Usable
    <3> QED
      BY <3>1, BestIsOneOf
  <2>3. tried \in SUBSET Endpoints
    BY <1>1 DEF Requests
  <2>4. ~(U \subseteq r.tried) => at \in U \ r.tried /\ tried = r.tried
    BY <2>2 DEF Fresh
  <2> HIDE DEF at, tried
  <2>5. <<>> \in Seq(Nat) /\ 1 \in Nat
    OBVIOUS
  <2>6. /\ s \in Requests /\ s.pc = "chosen" /\ s.at = at /\ s.tried = tried
        /\ s.size = r.size /\ s.exclude = r.exclude /\ s.asked = r.asked /\ s.attempt = r.attempt
    BY <1>1, <2>2, <2>3, <2>5 DEF Requests
  <2> HIDE DEF s
  <2>7. Usable(s) = U
    BY <2>6 DEF Usable
  <2>8. AttemptsFit(s, endpoint', U)
    <3>1. CASE U \subseteq r.asked
      BY <3>1, <1>1, <2>6 DEF AttemptsFit
    <3>2. CASE ~(U \subseteq r.asked)
      <4>1. PICK L \in SUBSET r.asked : SpentOn(r, endpoint, U, L)
        BY <1>1, <3>2 DEF AttemptsFit
      <4>2. r.tried \subseteq r.asked
        BY <4>1 DEF SpentOn
      <4>3. ~(U \subseteq r.tried)
        BY <3>2, <4>2
      <4>4. SpentOn(s, endpoint, U, L)
        BY <4>1, <4>3, <2>4, <2>6 DEF SpentOn
      <4>5. endpoint' = endpoint
        BY <1>1
      <4> HIDE DEF U, r
      <4> QED
        BY <4>4, <4>5, <1>1, <2>6 DEF AttemptsFit
    <3> QED
      BY <3>1, <3>2
  <2> QED
    BY <1>1, <1>2, <2>1, <2>6, <2>7, <2>8, OneRequestSpends
<1> QED
  BY <1>3, <1>4

\* What is sent is no longer than the limit, so what this request has learned
\* is not refused again.
LEMMA SpendSends ==
    ASSUME FailoverInv, PoolInv', NEW c \in Callers, Sends(c)
    PROVE  FailoverInv'
<1> DEFINE r == request[c]
           U == Usable(r)
           limit == endpoint[r.at].maxBatch
           last == IF r.next + limit - 1 < r.size THEN r.next + limit - 1 ELSE r.size
           chunk == Calls(r.next, last)
           asked == r.asked \cup {r.at}
           s == [r EXCEPT !.pc = "waiting", !.chunk = chunk, !.asked = asked]
<1>1. /\ r \in Requests /\ r.pc = "chosen" /\ UNCHANGED <<checked, endpoint>>
      /\ AttemptsFit(r, endpoint, U) /\ r.size \in Sizes
  BY SpendingFacts DEF Sends
<1>2. \A e \in Endpoints : endpoint'[e].maxBatch <= endpoint[e].maxBatch
  BY <1>1 DEF FailoverInv, PoolInv, EndpointRecords
<1>3. r.at \in Endpoints /\ r.next \in 1..r.size
  <2>1. RequestOK(r, endpoint)
    BY DEF FailoverInv, PoolInv
  <2> QED
    BY <1>1, <2>1 DEF RequestOK
<1>4. Req(c, s)
  BY DEF Sends
<1>5. r.next \in Nat \ {0} /\ r.size \in Nat /\ r.next <= r.size
  <2>1. r.size \in 1..(Whole - 1)
    BY <1>1 DEF Requests
  <2>2. \A n \in 1..(Whole - 1) : n \in Nat
    BY DEF Whole
  <2> QED
    BY <1>3, <2>1, <2>2
<1>6. limit \in Nat \ {0}
  BY <1>3 DEF FailoverInv, PoolInv, EndpointRecords
<1> HIDE DEF limit
<1>7. last \in Nat /\ r.next <= last + 1 /\ (last + 1) - r.next <= limit
  BY <1>5, <1>6
<1> HIDE DEF last
<1>8. chunk \in Seq(Nat) /\ Len(chunk) <= limit
  BY <1>5, <1>7, CallsFacts
<1>9. asked \in SUBSET Endpoints
  BY <1>1, <1>3 DEF Requests
<1> HIDE DEF chunk
<1>10. /\ s \in Requests /\ s.pc = "waiting" /\ s.chunk = chunk /\ s.asked = asked
       /\ s.at = r.at /\ s.tried = r.tried /\ s.attempt = r.attempt
       /\ s.size = r.size /\ s.exclude = r.exclude
  BY <1>1, <1>8, <1>9 DEF Requests
<1> HIDE DEF s
<1>11. Usable(s) = U
  BY <1>10 DEF Usable
<1>12. AttemptsFit(s, endpoint', U)
  <2>1. CASE U \subseteq r.asked
    BY <2>1, <1>1, <1>10 DEF AttemptsFit
  <2>2. CASE ~(U \subseteq r.asked)
    <3>1. PICK L \in SUBSET r.asked : SpentOn(r, endpoint, U, L)
      BY <1>1, <2>2 DEF AttemptsFit
    <3>2. BatchLimit[r.at] < Len(chunk) => r.at \notin L
      <4> SUFFICES ASSUME r.at \in L, BatchLimit[r.at] < Len(chunk) PROVE FALSE
        OBVIOUS
      <4>1. limit <= BatchLimit[r.at]
        BY <3>1 DEF SpentOn, limit
      <4>2. BatchLimit[r.at] \in Int /\ Len(chunk) \in Int
        BY <1>3, <1>8, RpcPoolAssumption
      <4> QED
        BY <4>1, <4>2, <1>6, <1>8
    <3>3. SpentOn(s, endpoint, U, L)
      BY <3>1, <3>2, <1>1, <1>10 DEF SpentOn
    <3>4. endpoint' = endpoint /\ L \in SUBSET s.asked
      BY <1>1, <1>10
    <3> HIDE DEF U, r
    <3> QED
      BY <3>3, <3>4, <1>1, <1>10 DEF AttemptsFit
  <2> QED
    BY <2>1, <2>2
<1> QED
  BY <1>1, <1>2, <1>4, <1>10, <1>11, <1>12, OneRequestSpends

LEMMA SpendAnswers ==
    ASSUME FailoverInv, PoolInv', NEW c \in Callers, Answers(c)
    PROVE  FailoverInv'
<1> DEFINE r == request[c]
           U == Usable(r)
           got == r.got \o r.chunk
           done == [r EXCEPT !.pc = "returned", !.got = got, !.chunk = <<>>]
           more == [r EXCEPT !.pc = "chosen", !.got = got, !.chunk = <<>>, !.next = Step(r)]
           s == request'[c]
<1>1. /\ r \in Requests /\ r.pc = "waiting" /\ UNCHANGED checked
      /\ AttemptsFit(r, endpoint, U) /\ r.size \in Sizes
  BY SpendingFacts DEF Answers
<1>2. \A e \in Endpoints : endpoint'[e].maxBatch <= endpoint[e].maxBatch
  <2>1. endpoint' = [endpoint EXCEPT ![r.at].cooling = FALSE] \/ UNCHANGED endpoint
    BY DEF Answers
  <2> QED
    BY <2>1, SameLimits DEF FailoverInv
<1>3. Req(c, done) \/ Req(c, more)
  BY DEF Answers
<1>4. s = done \/ s = more
  BY <1>3 DEF Req, FailoverInv, PoolInv
<1>5. Req(c, s)
  BY <1>3, <1>4 DEF Req, FailoverInv, PoolInv
<1>6. /\ s.pc \in {"returned", "chosen"}
      /\ s.at = r.at /\ s.tried = r.tried /\ s.attempt = r.attempt /\ s.asked = r.asked
      /\ s.size = r.size /\ s.exclude = r.exclude
  <2>1. CASE s = done
    BY <1>1, <2>1 DEF Requests
  <2>2. CASE s = more
    BY <1>1, <2>2 DEF Requests
  <2> QED
    BY <1>4, <2>1, <2>2
<1>7. s \in Requests
  BY DEF PoolInv
<1> HIDE DEF s, done, more, got
<1>8. Usable(s) = U
  BY <1>6 DEF Usable
<1>9. AttemptsFit(s, endpoint, U)
  BY <1>1, <1>6 DEF AttemptsFit, SpentOn
<1>10. endpoint \in EndpointRecords /\ endpoint' \in EndpointRecords
  BY DEF FailoverInv, PoolInv
<1>11. AttemptsFit(s, endpoint', U)
  BY <1>2, <1>7, <1>9, <1>10, AttemptsKept
<1> QED
  BY <1>1, <1>2, <1>5, <1>7, <1>8, <1>11, OneRequestSpends

\* One more attempt is over: after the last one the request gives up.
LEMMA AgainFacts ==
    ASSUME NEW r \in Requests
    PROVE  /\ Again(r) \in Requests /\ Again(r).pc \in {"choosing", "exhausted"}
           /\ Again(r).attempt = r.attempt + 1
           /\ Again(r).tried = r.tried /\ Again(r).asked = r.asked
           /\ Again(r).size = r.size /\ Again(r).exclude = r.exclude
           /\ Again(r).pc = "exhausted" => MaxAttempts <= r.attempt + 1
<1> DEFINE pc == IF r.attempt + 1 < MaxAttempts THEN "choosing" ELSE "exhausted"
           n == r.attempt + 1
<1>1. /\ pc \in {"choosing", "exhausted"} /\ n \in Nat /\ <<>> \in Seq(Nat)
      /\ pc = "exhausted" => MaxAttempts <= n
  BY RpcPoolAssumption DEF Requests
<1>2. Again(r) = [r EXCEPT !.attempt = n, !.chunk = <<>>, !.pc = pc]
  BY DEF Again
<1> HIDE DEF pc
<1>3. n = r.attempt + 1
  OBVIOUS
<1> HIDE DEF n
<1> DEFINE s == [r EXCEPT !.attempt = n, !.chunk = <<>>, !.pc = pc]
<1>4. /\ s \in Requests /\ s.pc = pc /\ s.attempt = n /\ s.tried = r.tried /\ s.asked = r.asked
      /\ s.size = r.size /\ s.exclude = r.exclude
  BY <1>1 DEF Requests
<1>5. Again(r) = s
  BY <1>2
<1> HIDE DEF s
<1> QED
  BY <1>1, <1>3, <1>4, <1>5

\* A failed attempt has tried one endpoint more.
LEMMA SpendFails ==
    ASSUME FailoverInv, PoolInv', NEW c \in Callers, Fails(c) \/ FailsForGood(c)
    PROVE  FailoverInv'
<1> DEFINE r == request[c]
           U == Usable(r)
<1>1. /\ r \in Requests /\ r.pc = "waiting" /\ UNCHANGED checked
      /\ AttemptsFit(r, endpoint, U) /\ r.size \in Sizes
  BY SpendingFacts DEF Fails, FailsForGood
<1>2. \A e \in Endpoints : endpoint'[e].maxBatch <= endpoint[e].maxBatch
  <2>1. endpoint' = [endpoint EXCEPT ![r.at].cooling = TRUE]
    BY DEF Fails, FailsForGood
  <2> QED
    BY <2>1, SameLimits DEF FailoverInv
<1>3. endpoint \in EndpointRecords /\ endpoint' \in EndpointRecords
  BY DEF FailoverInv, PoolInv
<1>4. CASE Fails(c)
  <2> DEFINE a == Again(r)
             s == [a EXCEPT !.tried = Tried(r)]
  <2>1. Req(c, s)
    BY <1>4 DEF Fails
  <2>2. r.at \in Endpoints
    BY <1>1 DEF FailoverInv, PoolInv, RequestOK
  <2>3. Tried(r) \in SUBSET Endpoints /\ Tried(r) = r.tried \cup {r.at}
    BY <1>1, <2>2 DEF Tried, Requests
  <2>4. /\ a \in Requests /\ a.pc \in {"choosing", "exhausted"}
        /\ a.attempt = r.attempt + 1 /\ a.asked = r.asked
        /\ a.size = r.size /\ a.exclude = r.exclude
        /\ a.pc = "exhausted" => MaxAttempts <= r.attempt + 1
    BY <1>1, AgainFacts
  <2> HIDE DEF a
  <2>5. /\ s \in Requests /\ s.pc = a.pc /\ s.tried = Tried(r) /\ s.attempt = r.attempt + 1
        /\ s.asked = r.asked /\ s.size = r.size /\ s.exclude = r.exclude
    BY <2>3, <2>4 DEF Requests
  <2> HIDE DEF s
  <2>6. Usable(s) = U
    BY <2>5 DEF Usable
  <2>7. AttemptsFit(s, endpoint, U)
    <3>1. CASE U \subseteq r.asked
      BY <3>1, <1>1, <2>5 DEF AttemptsFit
    <3>2. CASE ~(U \subseteq r.asked)
      <4>1. PICK L \in SUBSET r.asked : SpentOn(r, endpoint, U, L)
        BY <1>1, <3>2 DEF AttemptsFit
      <4>2. r.at \notin r.tried /\ r.at \in r.asked /\ r.tried \subseteq r.asked
        BY <4>1, <1>1 DEF SpentOn
      <4>3. r.attempt + 1 <= Cardinality(Tried(r)) + Cardinality(L)
        <5>1. r.tried \in SUBSET Endpoints /\ L \in SUBSET Endpoints /\ r.attempt \in Nat
          BY <1>1 DEF Requests
        <5>2. IsFiniteSet(r.tried) /\ Cardinality(r.tried) \in Nat /\ Cardinality(L) \in Nat
          BY <5>1, AskedIsFinite
        <5>3. Cardinality(r.tried \cup {r.at}) = Cardinality(r.tried) + 1
          BY <4>2, <5>2, FS_AddElement
        <5>4. r.attempt <= Cardinality(r.tried) + Cardinality(L)
          BY <4>1 DEF SpentOn
        <5> QED
          BY <2>3, <5>1, <5>2, <5>3, <5>4
      <4>4. SpentOn(s, endpoint, U, L)
        BY <4>1, <4>2, <4>3, <2>3, <2>4, <2>5 DEF SpentOn
      <4>5. L \in SUBSET s.asked
        BY <2>5
      <4> HIDE DEF U, r
      <4> QED
        BY <4>4, <4>5, <1>1, <2>5 DEF AttemptsFit
    <3> QED
      BY <3>1, <3>2
  <2>8. AttemptsFit(s, endpoint', U)
    BY <1>2, <1>3, <2>5, <2>7, AttemptsKept
  <2> QED
    BY <1>1, <1>2, <2>1, <2>5, <2>6, <2>8, OneRequestSpends
<1>5. CASE FailsForGood(c)
  <2> DEFINE s == [r EXCEPT !.pc = "threw", !.chunk = <<>>]
  <2>1. Req(c, s)
    BY <1>5 DEF FailsForGood
  <2>2. <<>> \in Seq(Nat)
    OBVIOUS
  <2>3. /\ s \in Requests /\ s.pc = "threw" /\ s.tried = r.tried /\ s.attempt = r.attempt
        /\ s.asked = r.asked /\ s.size = r.size /\ s.exclude = r.exclude
    BY <1>1, <2>2 DEF Requests
  <2> HIDE DEF s
  <2>4. Usable(s) = U
    BY <2>3 DEF Usable
  <2>5. AttemptsFit(s, endpoint, U)
    BY <1>1, <2>3 DEF AttemptsFit, SpentOn
  <2>6. AttemptsFit(s, endpoint', U)
    BY <1>2, <1>3, <2>3, <2>5, AttemptsKept
  <2> QED
    BY <1>1, <1>2, <2>1, <2>3, <2>4, <2>6, OneRequestSpends
<1> QED
  BY <1>4, <1>5

\* An attempt that only taught a limit: it was not known to this request, and
\* it is from now on.
LEMMA SpendLearns ==
    ASSUME LimitsToldEnough, FailoverInv, PoolInv', NEW c \in Callers, LearnsLimit(c)
    PROVE  FailoverInv'
<1> DEFINE r == request[c]
           U == Usable(r)
           e == r.at
           limit == endpoint[e].maxBatch
           learned == Learned(e)
           s == Again(r)
<1>1. /\ r \in Requests /\ r.pc = "waiting" /\ UNCHANGED checked
      /\ AttemptsFit(r, endpoint, U) /\ r.size \in Sizes
      /\ BatchLimit[e] < Len(r.chunk)
  <2>1. Len(r.chunk) > BatchLimit[e]
    BY DEF LearnsLimit
  <2> QED
    BY <2>1, SpendingFacts DEF LearnsLimit
<1>2. e \in Endpoints /\ ChunkOK(r, endpoint)
  BY <1>1 DEF FailoverInv, PoolInv, RequestOK
<1>3. endpoint \in EndpointRecords /\ endpoint' \in EndpointRecords
  BY DEF FailoverInv, PoolInv
<1>4. Req(c, s) /\ endpoint' = [endpoint EXCEPT ![e].maxBatch = learned]
  BY DEF LearnsLimit
<1>5. limit \in Nat \ {0} /\ BatchLimit[e] \in Nat \ {0} /\ LimitTold[e] \in Nat
  BY <1>2, <1>3, RpcPoolAssumption DEF EndpointRecords
<1>6. learned \in Nat /\ learned <= limit /\ learned <= BatchLimit[e]
  <2>1. (IF LimitTold[e] < 1 THEN 1 ELSE LimitTold[e]) <= BatchLimit[e]
    BY <1>2 DEF LimitsToldEnough
  <2>2. learned = (IF (IF LimitTold[e] < 1 THEN 1 ELSE LimitTold[e]) < limit
                   THEN (IF LimitTold[e] < 1 THEN 1 ELSE LimitTold[e]) ELSE limit)
    BY DEF Learned
  <2> HIDE DEF learned, limit
  <2> QED
    BY <1>5, <2>1, <2>2
<1> HIDE DEF learned
<1>7. /\ endpoint'[e].maxBatch = learned
      /\ \A f \in Endpoints : endpoint'[f].maxBatch <= endpoint[f].maxBatch
  <2>1. \A f \in Endpoints : endpoint[f].maxBatch \in Int
    BY <1>3 DEF EndpointRecords
  <2>2. /\ endpoint'[e].maxBatch = learned
        /\ \A f \in Endpoints : f # e => endpoint'[f].maxBatch = endpoint[f].maxBatch
    BY <1>2, <1>3, <1>4 DEF EndpointRecords
  <2> QED
    BY <1>6, <2>1, <2>2
<1>8. /\ s \in Requests /\ s.pc \in {"choosing", "exhausted"}
      /\ s.attempt = r.attempt + 1 /\ s.asked = r.asked /\ s.tried = r.tried
      /\ s.size = r.size /\ s.exclude = r.exclude
      /\ s.pc = "exhausted" => MaxAttempts <= r.attempt + 1
  BY <1>1, AgainFacts
<1> HIDE DEF s
<1>9. Usable(s) = U
  BY <1>8 DEF Usable
<1>10. e \in Narrow
  <2>1. PICK last \in r.next..r.size : r.chunk = Calls(r.next, last)
    BY <1>2 DEF ChunkOK
  <2>2. r.next \in Nat \ {0} /\ r.size \in Nat
    <3>1. r.size \in 1..(Whole - 1) /\ r.next \in 1..r.size
      BY <1>1 DEF FailoverInv, PoolInv, RequestOK, Requests
    <3>2. \A n \in 1..(Whole - 1) : n \in Nat
      BY DEF Whole
    <3> QED
      BY <3>1, <3>2
  <2>3. Len(r.chunk) = (last + 1) - r.next
    <3>1. last \in Nat /\ r.next <= last + 1
      BY <2>2
    <3> QED
      BY <2>1, <2>2, <3>1, CallsFacts
  <2>4. BatchLimit[e] < r.size
    BY <1>1, <1>5, <2>2, <2>3
  <2> QED
    BY <1>1, <1>2, <2>4 DEF Narrow
<1>11. AttemptsFit(s, endpoint', U)
  <2>1. CASE U \subseteq r.asked
    BY <2>1, <1>1, <1>8 DEF AttemptsFit
  <2>2. CASE ~(U \subseteq r.asked)
    <3>1. PICK L \in SUBSET r.asked : SpentOn(r, endpoint, U, L)
      BY <1>1, <2>2 DEF AttemptsFit
    <3> DEFINE M == L \cup {e}
    <3>2. e \notin L /\ e \in r.asked
      BY <3>1, <1>1 DEF SpentOn
    <3>3. r.attempt + 1 <= Cardinality(r.tried) + Cardinality(M)
      <4>1. r.tried \in SUBSET Endpoints /\ L \in SUBSET Endpoints /\ r.attempt \in Nat
        BY <1>1 DEF Requests
      <4>2. IsFiniteSet(L) /\ Cardinality(r.tried) \in Nat /\ Cardinality(L) \in Nat
        BY <4>1, AskedIsFinite
      <4>3. Cardinality(M) = Cardinality(L) + 1
        BY <3>2, <4>2, FS_AddElement
      <4>4. r.attempt <= Cardinality(r.tried) + Cardinality(L)
        BY <3>1 DEF SpentOn
      <4> HIDE DEF M
      <4> QED
        BY <4>1, <4>2, <4>3, <4>4
    <3>4. \A f \in M : endpoint'[f].maxBatch <= BatchLimit[f]
      <4> SUFFICES ASSUME NEW f \in M PROVE endpoint'[f].maxBatch <= BatchLimit[f]
        OBVIOUS
      <4>1. CASE f = e
        BY <4>1, <1>6, <1>7
      <4>2. CASE f \in L
        <5>1. f \in Endpoints /\ endpoint[f].maxBatch <= BatchLimit[f]
          BY <4>2, <3>1, <1>1 DEF SpentOn, Requests
        <5>2. endpoint'[f].maxBatch \in Int /\ endpoint[f].maxBatch \in Int /\ BatchLimit[f] \in Int
          BY <5>1, <1>3, RpcPoolAssumption DEF EndpointRecords
        <5>3. endpoint'[f].maxBatch <= endpoint[f].maxBatch
          BY <1>7, <5>1
        <5> QED
          BY <5>1, <5>2, <5>3
      <4> QED
        BY <4>1, <4>2
    <3>5. M \in SUBSET s.asked /\ M \subseteq Narrow
      BY <1>8, <1>10, <3>1, <3>2 DEF SpentOn
    <3> HIDE DEF M
    <3>6. SpentOn(s, endpoint', U, M)
      BY <3>1, <3>3, <3>4, <3>5, <1>8 DEF SpentOn
    <3> HIDE DEF U, r
    <3> QED
      BY <3>5, <3>6, <1>1, <1>8 DEF AttemptsFit
  <2> QED
    BY <2>1, <2>2
<1> QED
  BY <1>1, <1>4, <1>7, <1>8, <1>9, <1>11, OneRequestSpends

\* The records, the chain check and the process.
LEMMA SpendStays ==
    ASSUME FailoverInv, PoolInv', UNCHANGED request,
           \/ UNCHANGED checked /\ \A e \in Endpoints : endpoint'[e].maxBatch <= endpoint[e].maxBatch
           \/ collector # "running"
    PROVE  FailoverInv'
<1>1. CASE collector # "running"
  <2>1. \A c \in Callers : request'[c].pc = "idle"
    BY <1>1 DEF FailoverInv, PoolInv
  <2> QED
    BY <2>1 DEF FailoverInv
<1>2. CASE UNCHANGED checked /\ \A e \in Endpoints : endpoint'[e].maxBatch <= endpoint[e].maxBatch
  <2>1. endpoint \in EndpointRecords /\ endpoint' \in EndpointRecords
    BY DEF FailoverInv, PoolInv
  <2> SUFFICES ASSUME NEW c \in Callers, request[c].pc # "idle"
               PROVE  (AttemptsFit(request[c], endpoint, Usable(request[c])))'
    BY DEF FailoverInv
  <2>2. request[c] \in Requests /\ AttemptsFit(request[c], endpoint, Usable(request[c]))
    BY SpendingFacts
  <2>3. AttemptsFit(request[c], endpoint', Usable(request[c]))
    BY <1>2, <2>1, <2>2, AttemptsKept
  <2> QED
    BY <1>2, <2>3 DEF AttemptsFit, SpentOn, Usable
<1> QED
  BY <1>1, <1>2

LEMMA FailoverSteps ==
    ASSUME HonestLimits, LimitsToldEnough
    PROVE  FailoverInv /\ [PoolNext]_poolVars => FailoverInv'
<1> SUFFICES ASSUME FailoverInv, [PoolNext]_poolVars PROVE FailoverInv'
  OBVIOUS
<1>1. PoolInv'
  BY PoolSteps DEF FailoverInv
<1>2. CASE UNCHANGED poolVars
  <2>1. UNCHANGED <<request, checked, endpoint>>
    BY <1>2 DEF poolVars
  <2>2. \A e \in Endpoints : endpoint'[e].maxBatch <= endpoint[e].maxBatch
    BY <2>1 DEF FailoverInv, PoolInv, EndpointRecords
  <2> QED
    BY <1>1, <2>1, <2>2, SpendStays
<1>3. CASE Boots \/ Verified \/ \E e \in Endpoints : CheckEndpoint(e)
  <2>1. collector # "running" /\ UNCHANGED request
    BY <1>3 DEF Boots, Verified, CheckEndpoint
  <2> QED
    BY <1>1, <2>1, SpendStays
<1>4. CASE Stops
  <2>1. \A c \in Callers : request'[c].pc = "idle"
    BY <1>4, NoRequestFits DEF Stops
  <2> QED
    BY <1>1, <2>1 DEF FailoverInv
<1>5. CASE (\E e \in Endpoints : CooldownEnds(e)) \/ \E e \in Endpoints, h \in 0..MaxHeight : ProbeHead(e, h)
  <2>1. UNCHANGED request /\ UNCHANGED checked
    BY <1>5 DEF CooldownEnds, ProbeHead
  <2>2. \A f \in Endpoints : endpoint'[f].maxBatch <= endpoint[f].maxBatch
    <3>1. endpoint \in EndpointRecords
      BY DEF FailoverInv, PoolInv
    <3>2. ASSUME NEW e \in Endpoints, CooldownEnds(e)
          PROVE  \A f \in Endpoints : endpoint'[f].maxBatch = endpoint[f].maxBatch
      BY <3>1, <3>2 DEF CooldownEnds, EndpointRecords
    <3>3. ASSUME NEW e \in Endpoints, NEW h \in 0..MaxHeight, ProbeHead(e, h)
          PROVE  \A f \in Endpoints : endpoint'[f].maxBatch = endpoint[f].maxBatch
      <4>1. endpoint' = [endpoint EXCEPT ![e].head = h, ![e].cooling = FALSE]
        BY <3>3 DEF ProbeHead
      <4> QED
        BY <3>1, <4>1 DEF EndpointRecords
    <3>4. \A f \in Endpoints : endpoint'[f].maxBatch = endpoint[f].maxBatch
      BY <1>5, <3>2, <3>3
    <3> QED
      BY <3>1, <3>4 DEF EndpointRecords
  <2> QED
    BY <1>1, <2>1, <2>2, SpendStays
<1>6. CASE \E c \in Callers, n \in Sizes : \E x \in Excludes[c] : Asks(c, n, x)
  BY <1>1, <1>6, SpendAsks
<1>7. CASE \E c \in Callers : RequestStep(c) \/ Takes(c)
  <2>1. PICK c \in Callers : RequestStep(c) \/ Takes(c)
    BY <1>7
  <2> QED
    BY <1>1, <2>1, SpendChooses, SpendSends, SpendAnswers, SpendFails, SpendLearns, SpendTakes
    DEF RequestStep
<1> QED
  BY <1>2, <1>3, <1>4, <1>5, <1>6, <1>7 DEF PoolNext

\* A request gives up only when it has asked every endpoint it could use, as
\* long as its attempts are enough for all the others to fail, and to say
\* first how many calls they take; and as long as they say it truly.
THEOREM FailsOverFirst ==
    ASSUME HonestLimits, LimitsToldEnough, AttemptsReachAll
    PROVE  PoolSpec => []FailsOverBeforeFailing
<1>1. PoolInit => FailoverInv
  <2>1. PoolInit => \A c \in Callers : request[c].pc = "idle"
    BY NoRequestFits DEF PoolInit
  <2> QED
    BY <2>1, PoolStarts DEF FailoverInv
<1>2. FailoverInv /\ [PoolNext]_poolVars => FailoverInv'
  BY FailoverSteps
<1>3. FailoverInv => FailsOverBeforeFailing
  <2> SUFFICES ASSUME FailoverInv, NEW c \in Callers, request[c].pc = "exhausted",
                      ~(Usable(request[c]) \subseteq request[c].asked)
               PROVE  FALSE
    BY DEF FailsOverBeforeFailing
  <2> DEFINE r == request[c]
  <2>1. r \in Requests /\ AttemptsFit(r, endpoint, Usable(r))
    BY SpendingFacts
  <2>2. PICK L \in SUBSET r.asked : SpentOn(r, endpoint, Usable(r), L)
    BY <2>1 DEF AttemptsFit
  <2>3. PICK u \in Usable(r) : u \notin r.asked
    OBVIOUS
  <2>4. /\ u \in Endpoints /\ r.tried \subseteq Endpoints \ {u} /\ L \subseteq Narrow \ {u}
        /\ MaxAttempts <= r.attempt /\ r.attempt <= Cardinality(r.tried) + Cardinality(L)
        /\ r.attempt \in Nat
    BY <2>1, <2>2, <2>3 DEF SpentOn, Usable, Requests
  <2>5. /\ IsFiniteSet(Endpoints \ {u}) /\ Cardinality(Endpoints \ {u}) \in Nat
        /\ IsFiniteSet(Narrow \ {u}) /\ Cardinality(Narrow \ {u}) \in Nat
    <3>1. Endpoints \ {u} \in SUBSET Endpoints /\ Narrow \ {u} \in SUBSET Endpoints
      BY DEF Narrow
    <3> QED
      BY <3>1, AskedIsFinite
  <2>6. /\ Cardinality(r.tried) <= Cardinality(Endpoints \ {u}) /\ Cardinality(r.tried) \in Nat
        /\ Cardinality(L) <= Cardinality(Narrow \ {u}) /\ Cardinality(L) \in Nat
    BY <2>4, <2>5, FS_Subset, FS_CardinalityType
  <2>7. Cardinality(Endpoints \ {u}) + Cardinality(Narrow \ {u}) < MaxAttempts
    BY <2>4 DEF AttemptsReachAll
  <2>8. MaxAttempts \in Nat
    BY RpcPoolAssumption
  <2> HIDE DEF r
  <2> QED
    BY <2>4, <2>5, <2>6, <2>7, <2>8
<1> QED
  BY <1>1, <1>2, <1>3, PTL DEF PoolSpec


-----------------------------------------------------------------------------
(* The process and its watchdog *)

\* A limit is no less than where its timer starts.
LEMMA TimersFit ==
    /\ Forever \in Nat /\ Forever >= 1 /\ 0 \in 0..Forever /\ Forever \in 0..Forever
    /\ NoAlert \in NoAlert..Repeat /\ 0 \in NoAlert..Repeat
    /\ 0 \in 0..Grace /\ 0 \in 0..MaxDogFaults
BY WatchdogAssumption DEF Forever, NoAlert

LEMMA WatchdogStarts == WatchdogInit => WatchdogTypeOK
BY TimersFit, Zenon DEF WatchdogInit, WatchdogTypeOK

LEMMA DogFaultCounts ==
    ASSUME dogFaults \in 0..MaxDogFaults, DogFault PROVE dogFaults' \in 0..MaxDogFaults
BY WatchdogAssumption DEF DogFault

LEMMA OlderStays ==
    ASSUME NEW low \in Int, NEW max \in Int, NEW n \in low..max
    PROVE  Older(n, max) \in low..max
BY DEF Older

\* A timer stops at its limit, or what is due comes first.
LEMMA WatchdogSteps == WatchdogTypeOK /\ [WatchdogNext]_dogVars => WatchdogTypeOK'
<1> SUFFICES ASSUME WatchdogTypeOK, [WatchdogNext]_dogVars PROVE WatchdogTypeOK'
  OBVIOUS
<1>1. CASE Ticks
  <2>1. sinceIngest' \in 0..Forever /\ sinceHead' \in 0..Forever
    <3>1. sinceIngest' = Older(sinceIngest, Forever) /\ sinceHead' = Older(sinceHead, Forever)
      BY <1>1 DEF Ticks
    <3>2. sinceIngest \in 0..Forever /\ sinceHead \in 0..Forever /\ Forever \in Int /\ 0 \in Int
      BY TimersFit DEF WatchdogTypeOK
    <3> QED
      BY <3>1, <3>2, OlderStays
  <2>2. stallAlert' \in NoAlert..Repeat
    <3>1. stallAlert' = IF stallAlert = NoAlert THEN NoAlert ELSE Older(stallAlert, Repeat)
      BY <1>1 DEF Ticks
    <3>2. stallAlert \in NoAlert..Repeat /\ Repeat \in Int /\ NoAlert \in Int
      BY WatchdogAssumption DEF WatchdogTypeOK, NoAlert
    <3> QED
      BY <3>1, <3>2, OlderStays, TimersFit
  <2>3. stopFor' \in 0..Grace
    BY <1>1, WatchdogAssumption DEF Ticks, WatchdogTypeOK, Due
  <2> QED
    BY <1>1, <2>1, <2>2, <2>3, Zenon DEF Ticks, WatchdogTypeOK
<1>2. CASE BlockMade \/ Spawned
  BY <1>2, TimersFit, Zenon DEF BlockMade, Spawned, WatchdogTypeOK
<1>3. CASE Started
  BY <1>3, DogFaultCounts, Zenon DEF Started, WatchdogTypeOK
<1>4. CASE HeadIngests
  BY <1>4, TimersFit, Zenon DEF HeadIngests, WatchdogTypeOK
<1>5. CASE HeadHangs \/ ProbeFails \/ Signalled
  BY <1>5, TimersFit, DogFaultCounts, Zenon DEF HeadHangs, ProbeFails, Signalled, WatchdogTypeOK
<1>6. CASE ProbeAsks
  BY <1>6, TimersFit, Zenon DEF ProbeAsks, WatchdogTypeOK
<1>7. CASE ProbeJudges
  <2>1. stallAlert' \in NoAlert..Repeat
    <3>1. stallAlert' \in {NoAlert, 0, stallAlert}
      BY <1>7 DEF ProbeJudges, Alerted
    <3> QED
      BY <3>1, TimersFit DEF WatchdogTypeOK
  <2> QED
    BY <1>7, <2>1, TimersFit, Zenon DEF ProbeJudges, WatchdogTypeOK
<1>8. CASE Stopped
  BY <1>8 DEF Stopped, WatchdogTypeOK
<1>9. CASE UNCHANGED dogVars
  BY <1>9 DEF dogVars, WatchdogTypeOK
<1> QED
  BY <1>1, <1>2, <1>3, <1>4, <1>5, <1>6, <1>7, <1>8, <1>9 DEF WatchdogNext

-----------------------------------------------------------------------------
(* Enrichment *)

\* A strict total order on the rows.
TotalOrder(before) ==
    /\ \A a, b \in RowIds : a # b => <<a, b>> \in before \/ <<b, a>> \in before
    /\ \A a \in RowIds : <<a, a>> \notin before
    /\ \A a, b, c \in RowIds : <<a, b>> \in before /\ <<b, c>> \in before => <<a, c>> \in before

RankIn(S, before, r) == Cardinality({s \in S : <<s, r>> \in before}) + 1

\* Each place from the first to the last is some row's.
LEMMA EveryPlaceIsTaken ==
    ASSUME NEW S \in SUBSET RowIds, NEW before, TotalOrder(before),
           NEW i \in 1..Cardinality(S)
    PROVE  \E r \in S : RankIn(S, before, r) = i
<1> DEFINE under(r) == {s \in S : <<s, r>> \in before}
           n == Cardinality(S)
           f == [r \in S |-> RankIn(S, before, r)]
<1>1. IsFiniteSet(S) /\ n \in Nat
  <2>1. IsFiniteSet(RowIds)
    BY EnrichAssumption, FS_Interval DEF RowIds
  <2> QED
    BY <2>1, FS_Subset, FS_CardinalityType
<1>2. ASSUME NEW r \in S
      PROVE  IsFiniteSet(under(r)) /\ Cardinality(under(r)) \in Nat /\ RankIn(S, before, r) \in 1..n
  <2>1. under(r) \in SUBSET (S \ {r})
    BY DEF TotalOrder
  <2>2. IsFiniteSet(S \ {r}) /\ Cardinality(S \ {r}) = n - 1
    BY <1>1, FS_RemoveElement
  <2>3. IsFiniteSet(under(r)) /\ Cardinality(under(r)) <= n - 1 /\ Cardinality(under(r)) \in Nat
    <3> HIDE DEF n, under
    <3> QED BY <2>1, <2>2, FS_Subset, FS_CardinalityType
  <2>4. RankIn(S, before, r) = Cardinality(under(r)) + 1
    BY DEF RankIn
  <2> HIDE DEF under, n
  <2> QED
    BY <1>1, <2>3, <2>4
<1>3. ASSUME NEW a \in S, NEW b \in S, <<a, b>> \in before
      PROVE  RankIn(S, before, a) < RankIn(S, before, b)
  <2>1. under(a) \cup {a} \in SUBSET under(b) /\ a \notin under(a)
    BY <1>3 DEF TotalOrder
  <2>2. Cardinality(under(a) \cup {a}) = Cardinality(under(a)) + 1
    <3> HIDE DEF under
    <3> QED BY <1>2, <2>1, FS_AddElement
  <2>3. Cardinality(under(a) \cup {a}) <= Cardinality(under(b))
    <3> HIDE DEF under
    <3> QED BY <1>2, <2>1, FS_Subset
  <2>4. RankIn(S, before, a) = Cardinality(under(a)) + 1 /\ RankIn(S, before, b) = Cardinality(under(b)) + 1
    BY DEF RankIn
  <2> HIDE DEF under
  <2> QED
    BY <1>2, <2>2, <2>3, <2>4
<1>4. f \in [S -> 1..n]
  BY <1>2
<1>5. \A a, b \in S : f[a] = f[b] => a = b
  <2> SUFFICES ASSUME NEW a \in S, NEW b \in S, a # b PROVE f[a] # f[b]
    OBVIOUS
  <2>1. <<a, b>> \in before \/ <<b, a>> \in before
    BY DEF TotalOrder
  <2>2. f[a] = RankIn(S, before, a) /\ f[b] = RankIn(S, before, b)
    OBVIOUS
  <2>3. f[a] \in Int /\ f[b] \in Int
    BY <1>4
  <2> HIDE DEF f
  <2> QED
    BY <1>3, <2>1, <2>2, <2>3
<1>6. f \in Injection(S, 1..n)
  <2> HIDE DEF f, n
  <2> QED BY <1>4, <1>5 DEF Injection, IsInjective
<1>7. IsFiniteSet(1..n) /\ Cardinality(1..n) = n
  <2> HIDE DEF n
  <2> QED BY <1>1, FS_Interval
<1>8. f \in Surjection(S, 1..n)
  <2>1. n = Cardinality(S)
    OBVIOUS
  <2> HIDE DEF f, n
  <2> QED BY <1>6, <1>7, <2>1, FS_Injection
<1>9. \E r \in S : f[r] = i
  <2>1. i \in 1..n
    OBVIOUS
  <2> HIDE DEF f, n
  <2> QED BY <1>8, <2>1 DEF Surjection
<1> QED
  BY <1>9

\* The first rows of an order are rows of the set, none of them twice.
LEMMA FirstRowsAreRows ==
    ASSUME NEW S \in SUBSET RowIds, NEW before, TotalOrder(before)
    PROVE  LET rows == FirstRows(S, before) IN
           /\ rows \in Seq(S) /\ Len(rows) <= BatchRows
           /\ \A i, j \in 1..Len(rows) : rows[i] = rows[j] => i = j
<1> DEFINE n == IF Cardinality(S) < BatchRows THEN Cardinality(S) ELSE BatchRows
           of(i) == CHOOSE r \in S : RankIn(S, before, r) = i
           rows == FirstRows(S, before)
<1>1. n \in Nat /\ n <= BatchRows /\ 1..n \subseteq 1..Cardinality(S)
  <2>1. IsFiniteSet(RowIds)
    BY EnrichAssumption, FS_Interval DEF RowIds
  <2>2. Cardinality(S) \in Nat
    BY <2>1, FS_Subset, FS_CardinalityType
  <2> QED
    BY <2>2, EnrichAssumption
<1>2. rows = [i \in 1..n |-> of(i)]
  BY DEF FirstRows, RankIn
<1>3. ASSUME NEW i \in 1..n PROVE of(i) \in S /\ RankIn(S, before, of(i)) = i
  <2>1. \E r \in S : RankIn(S, before, r) = i
    BY <1>1, EveryPlaceIsTaken
  <2> QED
    BY <2>1
<1> HIDE DEF of, n
<1>4. rows \in [1..n -> S] /\ \A i \in 1..n : rows[i] = of(i)
  BY <1>2, <1>3
<1>5. rows \in Seq(S) /\ Len(rows) = n
  BY <1>1, <1>4
<1>6. \A i, j \in 1..n : rows[i] = rows[j] => i = j
  BY <1>3, <1>4
<1> QED
  BY <1>1, <1>5, <1>6

LEMMA ReplaysAreOrdered ==
    ASSUME \A r \in RowIds : replay[r].attempts \in Nat
    PROVE  TotalOrder(ReplaysBefore)
<1>1. \A a, b \in RowIds : <<a, b>> \in ReplaysBefore <=>
         \/ replay[a].attempts < replay[b].attempts
         \/ replay[a].attempts = replay[b].attempts /\ a > b
  BY DEF ReplaysBefore
<1>2. RowIds \subseteq Int
  BY DEF RowIds
<1> HIDE DEF ReplaysBefore
<1> QED
  BY <1>1, <1>2 DEF TotalOrder

LEMMA CodesAreOrdered == TotalOrder(CodesBefore)
<1>1. \A a, b \in RowIds : <<a, b>> \in CodesBefore <=> a > b
  BY DEF CodesBefore
<1>2. RowIds \subseteq Int
  BY DEF RowIds
<1> HIDE DEF CodesBefore
<1> QED
  BY <1>1, <1>2 DEF TotalOrder

\* The rows still in hand were read as open, none of them twice: each gets one
\* attempt of the turn.  An answer that was lost gives it one more.
EnrichInv ==
    /\ replay \in [RowIds -> [status : ReplayStatuses \cup {"none"}, attempts : Nat]]
    /\ \A r \in RowIds : replay[r].attempts <= MaxReplays + enrichFaults
    /\ code \in [RowIds -> {"none", "unknown", "known"}]
    /\ behind \in BOOLEAN
    /\ enricher \in [pc : {"idle", "replaying", "coding"}, rows : Seq(RowIds)]
    /\ Len(enricher.rows) <= BatchRows
    /\ enricher.pc = "replaying" =>
         /\ \A i, j \in 1..Len(enricher.rows) : enricher.rows[i] = enricher.rows[j] => i = j
         /\ \A i \in 1..Len(enricher.rows) : replay[enricher.rows[i]].attempts < MaxReplays
    /\ enrichFaults \in 0..MaxEnrichFaults

LEMMA EnrichTyped == EnrichInv => EnrichTypeOK
<1> SUFFICES ASSUME EnrichInv PROVE EnrichTypeOK
  OBVIOUS
<1>1. \A r \in RowIds : /\ replay[r].status \in ReplayStatuses \cup {"none"}
                         /\ replay[r].attempts \in 0..(MaxReplays + MaxEnrichFaults)
  BY EnrichAssumption DEF EnrichInv
<1>2. \A i \in DOMAIN enricher.rows : enricher.rows[i] \in RowIds
  BY DEF EnrichInv
<1>3. enricher.pc \in {"idle", "replaying", "coding"}
  BY DEF EnrichInv
<1> QED
  BY <1>1, <1>2, <1>3, Zenon DEF EnrichInv, EnrichTypeOK

LEMMA EnrichStarts == EnrichInit => EnrichInv
<1> SUFFICES ASSUME EnrichInit PROVE EnrichInv
  OBVIOUS
<1>1. \A r \in RowIds : replay[r] = NoReplay
  BY DEF EnrichInit
<1>2. NoReplay \in [status : ReplayStatuses \cup {"none"}, attempts : Nat] /\ NoReplay.attempts = 0
  BY DEF NoReplay
<1>3. replay \in [RowIds -> [status : ReplayStatuses \cup {"none"}, attempts : Nat]]
  BY <1>2 DEF EnrichInit
<1>4. \A r \in RowIds : replay[r].attempts <= MaxReplays + enrichFaults
  BY <1>1, <1>2, EnrichAssumption DEF EnrichInit
<1>5. /\ enricher \in [pc : {"idle", "replaying", "coding"}, rows : Seq(RowIds)]
      /\ Len(enricher.rows) <= BatchRows /\ enricher.pc # "replaying"
  BY EnrichAssumption DEF EnrichInit
<1>6. enrichFaults \in 0..MaxEnrichFaults
  BY EnrichAssumption DEF EnrichInit
<1>7. code \in [RowIds -> {"none", "unknown", "known"}] /\ behind \in BOOLEAN
  BY Zenon DEF EnrichInit
<1> QED
  BY <1>3, <1>4, <1>5, <1>6, <1>7, Zenon DEF EnrichInv

LEMMA EnrichFaultCounts ==
    ASSUME EnrichInv, EnrichFault
    PROVE  enrichFaults' \in 0..MaxEnrichFaults /\ enrichFaults' = enrichFaults + 1
BY EnrichAssumption DEF EnrichInv, EnrichFault

\* Only the worker moves.
LEMMA EnricherMoves ==
    ASSUME EnrichInv, NEW pc \in {"idle", "replaying", "coding"}, NEW rows \in Seq(RowIds),
           Enricher(pc, rows), Len(rows) <= BatchRows, UNCHANGED <<replay, behind>>,
           code' \in [RowIds -> {"none", "unknown", "known"}],
           UNCHANGED enrichFaults \/ EnrichFault,
           pc = "replaying" =>
             /\ \A i, j \in 1..Len(rows) : rows[i] = rows[j] => i = j
             /\ \A i \in 1..Len(rows) : replay[rows[i]].attempts < MaxReplays
    PROVE  EnrichInv'
<1>1. enrichFaults' \in 0..MaxEnrichFaults /\ enrichFaults' >= enrichFaults /\ enrichFaults' \in Int /\ enrichFaults \in Int
  BY EnrichFaultCounts, EnrichAssumption DEF EnrichInv
<1>2. \A r \in RowIds : replay'[r].attempts <= MaxReplays + enrichFaults'
  <2>1. \A r \in RowIds : replay[r].attempts \in Nat /\ replay[r].attempts <= MaxReplays + enrichFaults
    BY DEF EnrichInv
  <2> QED
    BY <1>1, <2>1, EnrichAssumption
<1>3. /\ enricher' \in [pc : {"idle", "replaying", "coding"}, rows : Seq(RowIds)]
      /\ enricher'.rows = rows /\ enricher'.pc = pc
  BY DEF Enricher
<1>4. behind' \in BOOLEAN
  BY Zenon DEF EnrichInv
<1>5. replay' = replay
  OBVIOUS
<1>6. replay' \in [RowIds -> [status : ReplayStatuses \cup {"none"}, attempts : Nat]]
  BY <1>5 DEF EnrichInv
<1> QED
  BY <1>1, <1>2, <1>3, <1>4, <1>5, <1>6, Zenon DEF EnrichInv

\* The first row in hand is replayed, for the first time in this turn.
LEMMA FirstIsReplayed ==
    ASSUME EnrichInv, enricher.pc = "replaying", enricher.rows # <<>>,
           Enricher("replaying", Tail(enricher.rows)), UNCHANGED <<code, behind>>,
           NEW s \in ReplayStatuses, NEW k \in 1..2,
           replay' = [replay EXCEPT ![Head(enricher.rows)] = [status |-> s, attempts |-> @.attempts + k]],
           (UNCHANGED enrichFaults /\ k = 1) \/ EnrichFault
    PROVE  EnrichInv'
<1> DEFINE r == Head(enricher.rows)
           rest == Tail(enricher.rows)
           n == Len(enricher.rows)
<1>1. /\ enricher.rows \in Seq(RowIds) /\ r \in RowIds /\ r = enricher.rows[1]
      /\ n \in Nat \ {0} /\ rest \in Seq(RowIds) /\ Len(rest) = n - 1
      /\ \A i \in 1..(n - 1) : rest[i] = enricher.rows[i + 1]
  BY DEF EnrichInv
<1>2. enrichFaults' \in 0..MaxEnrichFaults /\ enrichFaults' + 1 >= enrichFaults + k /\ enrichFaults' \in Nat /\ enrichFaults \in Nat
  BY EnrichFaultCounts, EnrichAssumption DEF EnrichInv
<1>3. replay[r].attempts \in Nat /\ replay[r].attempts < MaxReplays
  BY <1>1 DEF EnrichInv
<1>4. /\ replay' \in [RowIds -> [status : ReplayStatuses \cup {"none"}, attempts : Nat]]
      /\ replay'[r].attempts = replay[r].attempts + k
      /\ \A q \in RowIds : q # r => replay'[q] = replay[q]
  <2> DEFINE new == [status |-> s, attempts |-> replay[r].attempts + k]
  <2>1. new \in [status : ReplayStatuses \cup {"none"}, attempts : Nat] /\ new.attempts = replay[r].attempts + k
    BY <1>3
  <2>2. replay' = [replay EXCEPT ![r] = new]
    OBVIOUS
  <2> HIDE DEF new, r
  <2> QED
    BY <1>1, <2>1, <2>2 DEF EnrichInv
<1> HIDE DEF r
<1>5. ASSUME NEW q \in RowIds PROVE replay'[q].attempts <= MaxReplays + enrichFaults'
  <2>1. CASE q = r
    BY <1>2, <1>3, <1>4, <2>1, EnrichAssumption
  <2>2. CASE q # r
    <3>1. replay[q].attempts \in Nat /\ replay[q].attempts <= MaxReplays + enrichFaults
      BY DEF EnrichInv
    <3>2. enrichFaults' >= enrichFaults
      BY <1>2
    <3>3. replay'[q] = replay[q]
      BY <1>4, <2>2
    <3> QED
      BY <1>2, <3>1, <3>2, <3>3, EnrichAssumption
  <2> QED
    BY <2>1, <2>2
<1>6. /\ enricher' \in [pc : {"idle", "replaying", "coding"}, rows : Seq(RowIds)]
      /\ enricher'.rows = rest
  BY <1>1 DEF Enricher
<1>7. \A i, j \in 1..n : enricher.rows[i] = enricher.rows[j] => i = j
  BY DEF EnrichInv
<1>8. \A i \in 1..n : enricher.rows[i] \in RowIds /\ replay[enricher.rows[i]].attempts < MaxReplays
  BY <1>1 DEF EnrichInv
<1>9. n <= BatchRows
  BY DEF EnrichInv
<1> HIDE DEF rest, n
<1>10. \A i, j \in 1..Len(rest) : rest[i] = rest[j] => i = j
  <2> SUFFICES ASSUME NEW i \in 1..Len(rest), NEW j \in 1..Len(rest), rest[i] = rest[j] PROVE i = j
    OBVIOUS
  <2>1. i + 1 \in 1..n /\ j + 1 \in 1..n /\ enricher.rows[i + 1] = enricher.rows[j + 1]
    BY <1>1
  <2>2. i + 1 = j + 1
    BY <1>7, <2>1
  <2> QED BY <2>2
<1>11. ASSUME NEW i \in 1..Len(rest) PROVE replay'[rest[i]].attempts < MaxReplays
  <2>1. i + 1 \in 1..n /\ rest[i] = enricher.rows[i + 1] /\ i + 1 # 1 /\ 1 \in 1..n
    BY <1>1
  <2>2. enricher.rows[i + 1] # r
    BY <1>1, <1>7, <2>1
  <2> QED
    BY <1>4, <1>8, <2>1, <2>2
<1>12. Len(rest) <= BatchRows
  BY <1>1, <1>9, EnrichAssumption
<1>13. code' \in [RowIds -> {"none", "unknown", "known"}] /\ behind' \in BOOLEAN
  BY Zenon DEF EnrichInv
<1> QED
  BY <1>2, <1>4, <1>5, <1>6, <1>10, <1>11, <1>12, <1>13, Zenon DEF EnrichInv

LEMMA EnrichSteps == EnrichInv /\ [EnrichNext]_enrichVars => EnrichInv'
<1> SUFFICES ASSUME EnrichInv, [EnrichNext]_enrichVars PROVE EnrichInv'
  OBVIOUS
<1>1. \A r \in RowIds : replay[r].attempts \in Nat
  BY DEF EnrichInv
<1>2. /\ code \in [RowIds -> {"none", "unknown", "known"}]
      /\ enricher \in [pc : {"idle", "replaying", "coding"}, rows : Seq(RowIds)]
      /\ Len(enricher.rows) <= BatchRows
  BY Zenon DEF EnrichInv
<1>3. ASSUME NEW r \in RowIds, Ingested(r) PROVE EnrichInv'
  <2> DEFINE new == [replay[r] EXCEPT !.status = "pending"]
  <2>1. /\ new \in [status : ReplayStatuses \cup {"none"}, attempts : Nat]
        /\ new.attempts = replay[r].attempts
    BY DEF EnrichInv, ReplayStatuses
  <2>2. replay' = [replay EXCEPT ![r] = new] /\ enricher' = enricher /\ enrichFaults' = enrichFaults /\ behind' = behind
    BY <1>3 DEF Ingested
  <2> HIDE DEF new
  <2>3. /\ replay' \in [RowIds -> [status : ReplayStatuses \cup {"none"}, attempts : Nat]]
        /\ \A q \in RowIds : replay'[q].attempts = replay[q].attempts
    BY <2>1, <2>2 DEF EnrichInv
  <2>4. code' \in [RowIds -> {"none", "unknown", "known"}]
    BY <1>2, <1>3 DEF Ingested
  <2>5. \A i \in 1..Len(enricher.rows) : enricher.rows[i] \in RowIds
    BY <1>2
  <2>6. behind' \in BOOLEAN
    BY <2>2, Zenon DEF EnrichInv
  <2> QED
    BY <2>2, <2>3, <2>4, <2>5, <2>6, Zenon DEF EnrichInv
<1>4. CASE FallsBehind \/ CatchesUp
  <2>1. /\ enrichFaults' \in 0..MaxEnrichFaults /\ enrichFaults' >= enrichFaults
        /\ enrichFaults' \in Int /\ enrichFaults \in Int
    BY <1>4, EnrichFaultCounts, EnrichAssumption DEF EnrichInv, FallsBehind, CatchesUp
  <2>2. \A r \in RowIds : replay[r].attempts <= MaxReplays + enrichFaults'
    BY <1>1, <2>1, EnrichAssumption DEF EnrichInv
  <2>3. replay' = replay /\ code' = code /\ enricher' = enricher /\ behind' \in BOOLEAN
    BY <1>4, Zenon DEF FallsBehind, CatchesUp
  <2> QED
    BY <2>1, <2>2, <2>3, Zenon DEF EnrichInv
<1>5. CASE EnrichTurns
  <2> DEFINE rows == FirstRows(OpenReplays, ReplaysBefore)
  <2>1. OpenReplays \in SUBSET RowIds /\ \A r \in OpenReplays : replay[r].attempts < MaxReplays
    BY DEF OpenReplays
  <2>2. /\ rows \in Seq(OpenReplays) /\ Len(rows) <= BatchRows
        /\ \A i, j \in 1..Len(rows) : rows[i] = rows[j] => i = j
    BY <1>1, <2>1, ReplaysAreOrdered, FirstRowsAreRows
  <2>3. Enricher("replaying", rows) /\ UNCHANGED <<replay, behind, enrichFaults>> /\ code' = code
    BY <1>5 DEF EnrichTurns
  <2> HIDE DEF rows
  <2>4. rows \in Seq(RowIds) /\ \A i \in 1..Len(rows) : replay[rows[i]].attempts < MaxReplays
    BY <2>1, <2>2
  <2> QED
    BY <1>2, <2>2, <2>3, <2>4, EnricherMoves
<1>6. CASE Replays
  <2>1. /\ enricher.pc = "replaying" /\ enricher.rows # <<>>
        /\ Enricher("replaying", Tail(enricher.rows)) /\ UNCHANGED <<code, behind>>
        /\ \/ \E s \in {"reverted", "succeeded_on_replay"} : Attempted(Head(enricher.rows), s) /\ UNCHANGED enrichFaults
           \/ Attempted(Head(enricher.rows), "rpc_error") /\ EnrichFault
    BY <1>6 DEF Replays
  <2>2. PICK s \in ReplayStatuses : Attempted(Head(enricher.rows), s) /\ (UNCHANGED enrichFaults \/ EnrichFault)
    BY <2>1 DEF ReplayStatuses
  <2>3. replay' = [replay EXCEPT ![Head(enricher.rows)] = [status |-> s, attempts |-> @.attempts + 1]]
    BY <2>2 DEF Attempted
  <2>4. 1 \in 1..2
    OBVIOUS
  <2> QED
    BY <2>1, <2>2, <2>3, <2>4, FirstIsReplayed
<1>7. CASE ReplayAnswerLost
  <2>1. /\ enricher.pc = "replaying" /\ enricher.rows # <<>> /\ EnrichFault
        /\ Enricher("replaying", Tail(enricher.rows)) /\ UNCHANGED <<code, behind>>
        /\ replay' = [replay EXCEPT ![Head(enricher.rows)] = [status |-> "rpc_error", attempts |-> @.attempts + 2]]
    BY <1>7 DEF ReplayAnswerLost
  <2>2. 2 \in 1..2 /\ "rpc_error" \in ReplayStatuses
    BY DEF ReplayStatuses
  <2> QED
    BY <2>1, <2>2, FirstIsReplayed
<1>8. CASE EnrichCodes
  <2> DEFINE unknown == {r \in RowIds : code[r] = "unknown"}
             rows == FirstRows(unknown, CodesBefore)
  <2>1. unknown \in SUBSET RowIds
    OBVIOUS
  <2>2. Enricher("coding", rows) /\ UNCHANGED <<replay, behind, enrichFaults>> /\ code' = code
    BY <1>8 DEF EnrichCodes
  <2> HIDE DEF unknown
  <2>3. rows \in Seq(unknown) /\ Len(rows) <= BatchRows
    BY <2>1, CodesAreOrdered, FirstRowsAreRows
  <2> HIDE DEF rows
  <2>4. rows \in Seq(RowIds)
    BY <2>1, <2>3
  <2> QED
    BY <1>2, <2>2, <2>3, <2>4, EnricherMoves
<1>9. CASE FetchesCode
  <2>1. /\ enricher.rows # <<>> /\ Enricher("coding", Tail(enricher.rows)) /\ UNCHANGED <<replay, behind>>
        /\ UNCHANGED enrichFaults \/ EnrichFault
        /\ code' \in {code, [code EXCEPT ![Head(enricher.rows)] = "known"]}
    BY <1>9 DEF FetchesCode
  <2>2. Tail(enricher.rows) \in Seq(RowIds) /\ Len(Tail(enricher.rows)) <= BatchRows
    BY <1>2, <2>1, EnrichAssumption
  <2>3. code' \in [RowIds -> {"none", "unknown", "known"}]
    BY <1>2, <2>1
  <2> QED
    BY <2>1, <2>2, <2>3, EnricherMoves
<1>10. CASE EnrichEnds \/ EnrichFails
  <2>1. /\ Enricher("idle", <<>>) /\ UNCHANGED <<replay, behind>> /\ code' = code
        /\ UNCHANGED enrichFaults \/ EnrichFault
    BY <1>10 DEF EnrichEnds, EnrichFails
  <2>2. <<>> \in Seq(RowIds) /\ Len(<<>>) <= BatchRows
    BY EnrichAssumption
  <2> QED
    BY <1>2, <2>1, <2>2, EnricherMoves
<1>11. CASE UNCHANGED enrichVars
  <2>1. /\ replay' = replay /\ code' = code /\ behind' = behind /\ enricher' = enricher /\ enrichFaults' = enrichFaults
    BY <1>11 DEF enrichVars
  <2> QED
    BY <2>1, Zenon DEF EnrichInv
<1> QED
  BY <1>3, <1>4, <1>5, <1>6, <1>7, <1>8, <1>9, <1>10, <1>11 DEF EnrichNext, EnrichStep

-----------------------------------------------------------------------------
(* The types of the pool, whatever limits its endpoints name *)

\* A request that is under way has an attempt left; one that goes to an
\* endpoint goes there with a call of its own.
RequestTyped(r) ==
    /\ r.size \in Sizes \cup {1} /\ r.attempt <= MaxAttempts
    /\ r.pc \in {"choosing", "chosen", "waiting"} => r.attempt < MaxAttempts
    /\ r.pc \in {"chosen", "waiting"} => r.at \in Endpoints /\ r.next \in 1..r.size

PoolTypes ==
    /\ serves \in Networks
    /\ collector \in {"off", "checking", "running"}
    /\ checked \in [Endpoints -> {"not yet", "verified", "disabled", "kept"}]
    /\ boundTo \in Chains \cup {NoChain}
    /\ endpoint \in [Endpoints -> [cooling : BOOLEAN, head : Nat \cup {NoHead}, maxBatch : 1..Whole]]
    /\ request \in [Callers -> Requests]
    /\ \A c \in Callers : RequestTyped(request[c])
    /\ poolFaults \in 0..MaxPoolFaults

LEMMA PoolNumbers ==
    /\ MaxPoolFaults \in Nat /\ MaxHeight \in Nat /\ MaxAttempts \in Nat /\ MaxAttempts # 0
    /\ \A n \in Sizes : n \in Nat /\ 1 <= n /\ n <= 999
    /\ Whole = 1000
<1>1. /\ MaxPoolFaults \in Nat /\ MaxHeight \in Nat /\ MaxAttempts \in Nat \ {0}
      /\ Sizes \subseteq 1..(Whole - 1)
  BY RpcPoolAssumption, Zenon
<1> QED
  BY <1>1 DEF Whole

LEMMA RecordKnown ==
    ASSUME PoolTypes, NEW e \in Endpoints
    PROVE  /\ endpoint[e] \in [cooling : BOOLEAN, head : Nat \cup {NoHead}, maxBatch : 1..Whole]
           /\ endpoint[e].maxBatch \in Nat \ {0}
<1>1. endpoint[e] \in [cooling : BOOLEAN, head : Nat \cup {NoHead}, maxBatch : 1..Whole]
  BY DEF PoolTypes
<1>2. endpoint[e].maxBatch \in 1..Whole
  BY <1>1
<1> QED
  BY <1>1, <1>2, PoolNumbers

LEMMA PoolTyped == PoolTypes => PoolTypeOK
<1> SUFFICES ASSUME PoolTypes PROVE PoolTypeOK
  OBVIOUS
<1> DEFINE Typed == [pc : {"idle", "choosing", "chosen", "waiting", "returned", "threw", "exhausted"},
                     size : Sizes \cup {1}, exclude : SUBSET Endpoints, tried : SUBSET Endpoints,
                     asked : SUBSET Endpoints, attempt : 0..MaxAttempts,
                     at : Endpoints \cup {NoEndpoint}, chunk : Seq(Nat), got : Seq(Nat),
                     next : Nat]
<1>1. \A c \in Callers : request[c] \in Typed
  <2> SUFFICES ASSUME NEW c \in Callers PROVE request[c] \in Typed
    OBVIOUS
  <2> DEFINE r == request[c]
  <2>1. r \in Requests /\ RequestTyped(r)
    BY DEF PoolTypes
  <2>2. r.size \in Sizes \cup {1} /\ r.attempt \in 0..MaxAttempts
    BY <2>1, PoolNumbers DEF RequestTyped, Requests
  <2> HIDE DEF r
  <2>3. r \in Typed
    BY <2>1, <2>2 DEF Requests
  <2> QED BY <2>3 DEF r
<1>2. request \in [Callers -> Typed]
  BY <1>1 DEF PoolTypes
<1> QED
  BY <1>2, Zenon DEF PoolTypes, PoolTypeOK

LEMMA NoRequestTyped == NoRequest \in Requests /\ RequestTyped(NoRequest)
<1>1. NoRequest.pc = "idle" /\ NoRequest.size = 1 /\ NoRequest.attempt = 0
  BY DEF NoRequest
<1> QED
  BY <1>1, NoRequestFits, RpcPoolAssumption DEF RequestTyped

LEMMA NewEndpointTyped == NewEndpoint \in [cooling : BOOLEAN, head : Nat \cup {NoHead}, maxBatch : 1..Whole]
BY DEF NewEndpoint, NoHead, Whole

LEMMA PoolTypesStart == PoolInit => PoolTypes
<1> SUFFICES ASSUME PoolInit PROVE PoolTypes
  OBVIOUS
<1>1. request \in [Callers -> Requests] /\ \A c \in Callers : RequestTyped(request[c])
  BY NoRequestTyped DEF PoolInit
<1>2. endpoint \in [Endpoints -> [cooling : BOOLEAN, head : Nat \cup {NoHead}, maxBatch : 1..Whole]]
  BY NewEndpointTyped DEF PoolInit
<1>3. poolFaults \in 0..MaxPoolFaults
  <2>1. poolFaults = 0
    BY DEF PoolInit
  <2> QED BY <2>1, PoolNumbers
<1>4. serves \in Networks /\ collector \in {"off", "checking", "running"} /\ boundTo \in Chains \cup {NoChain}
  BY DEF PoolInit, Chains
<1>5. checked \in [Endpoints -> {"not yet", "verified", "disabled", "kept"}]
  BY DEF PoolInit
<1> QED
  BY <1>1, <1>2, <1>3, <1>4, <1>5, Zenon DEF PoolTypes

LEMMA PoolFaultCounts ==
    ASSUME PoolTypes, PoolFault \/ UNCHANGED poolFaults PROVE poolFaults' \in 0..MaxPoolFaults
<1>1. poolFaults \in 0..MaxPoolFaults
  BY DEF PoolTypes
<1> QED
  BY <1>1, PoolNumbers DEF PoolFault

\* One request moves, and with it maybe the record of an endpoint.
LEMMA RequestMovesTyped ==
    ASSUME PoolTypes, NEW c \in Callers, NEW s \in Requests, RequestTyped(s), Req(c, s),
           UNCHANGED <<serves, collector, checked, boundTo>>,
           endpoint' \in [Endpoints -> [cooling : BOOLEAN, head : Nat \cup {NoHead}, maxBatch : 1..Whole]],
           PoolFault \/ UNCHANGED poolFaults
    PROVE  PoolTypes'
<1>1. request' = [request EXCEPT ![c] = s]
  BY DEF Req
<1>2. request' \in [Callers -> Requests]
  BY <1>1 DEF PoolTypes
<1>3. ASSUME NEW d \in Callers PROVE RequestTyped(request'[d])
  <2>1. request'[d] = s \/ request'[d] = request[d]
    BY <1>1 DEF PoolTypes
  <2>2. RequestTyped(request[d])
    BY DEF PoolTypes
  <2> QED
    BY <2>1, <2>2
<1>4. serves' = serves /\ collector' = collector /\ checked' = checked /\ boundTo' = boundTo
  OBVIOUS
<1> QED
  BY <1>2, <1>3, <1>4, PoolFaultCounts, Zenon DEF PoolTypes

\* The requests stay, or all of them go.
LEMMA RequestsStayTyped ==
    ASSUME PoolTypes, UNCHANGED request \/ request' = [c \in Callers |-> NoRequest]
    PROVE  request' \in [Callers -> Requests] /\ \A c \in Callers : RequestTyped(request'[c])
BY NoRequestTyped DEF PoolTypes

\* An endpoint cools down, or no longer, or learns a head.
LEMMA RecordStays ==
    ASSUME PoolTypes, NEW e, NEW b \in BOOLEAN, NEW h \in Nat,
           \/ endpoint' = [endpoint EXCEPT ![e].cooling = b]
           \/ endpoint' = [endpoint EXCEPT ![e].head = h, ![e].cooling = b]
           \/ UNCHANGED endpoint
    PROVE  endpoint' \in [Endpoints -> [cooling : BOOLEAN, head : Nat \cup {NoHead}, maxBatch : 1..Whole]]
<1> DEFINE Records == [cooling : BOOLEAN, head : Nat \cup {NoHead}, maxBatch : 1..Whole]
           a == [endpoint[e] EXCEPT !.cooling = b]
           z == [endpoint[e] EXCEPT !.head = h, !.cooling = b]
<1>1. endpoint \in [Endpoints -> Records]
  BY DEF PoolTypes
<1>2. ASSUME e \in Endpoints PROVE a \in Records /\ z \in Records
  BY <1>1, <1>2
<1>3. endpoint' = [endpoint EXCEPT ![e] = a] \/ endpoint' = [endpoint EXCEPT ![e] = z] \/ endpoint' = endpoint
  OBVIOUS
<1> HIDE DEF a, z, Records
<1>4. endpoint' \in [Endpoints -> Records]
  BY <1>1, <1>2, <1>3
<1> QED
  BY <1>4 DEF Records

LEMMA RequestKnown ==
    ASSUME PoolTypes, NEW c \in Callers
    PROVE  LET r == request[c] IN
           /\ r \in Requests /\ RequestTyped(r)
           /\ r.size \in Nat \ {0} /\ r.next \in Nat /\ r.attempt \in Nat
           /\ r.chunk \in Seq(Nat) /\ r.got \in Seq(Nat) /\ Len(r.chunk) \in Nat
<1> DEFINE r == request[c]
<1>1. r \in Requests /\ RequestTyped(r)
  BY DEF PoolTypes
<1>2. r.size \in Nat \ {0}
  BY <1>1, PoolNumbers DEF RequestTyped
<1>3. r.next \in Nat /\ r.attempt \in Nat /\ r.chunk \in Seq(Nat) /\ r.got \in Seq(Nat)
  BY <1>1 DEF Requests
<1> HIDE DEF r
<1>4. Len(r.chunk) \in Nat
  BY <1>3
<1> QED
  BY <1>1, <1>2, <1>3, <1>4 DEF r

LEMMA AgainTyped ==
    ASSUME NEW r \in Requests, RequestTyped(r), r.pc = "waiting"
    PROVE  Again(r) \in Requests /\ RequestTyped(Again(r)) /\ Again(r).tried = r.tried
<1>1. <<>> \in Seq(Nat) /\ r.attempt \in Nat /\ r.attempt < MaxAttempts
  BY DEF Requests, RequestTyped
<1> DEFINE pc == IF r.attempt + 1 < MaxAttempts THEN "choosing" ELSE "exhausted"
<1>2. pc \in {"choosing", "exhausted"} /\ (pc = "choosing" => r.attempt + 1 < MaxAttempts)
  OBVIOUS
<1>3. Again(r) = [r EXCEPT !.attempt = @ + 1, !.chunk = <<>>, !.pc = pc]
  BY DEF Again
<1> HIDE DEF pc
<1>4. /\ Again(r) \in Requests /\ Again(r).tried = r.tried /\ Again(r).attempt = r.attempt + 1
      /\ Again(r).pc = pc /\ Again(r).size = r.size
  <2> DEFINE k == r.attempt + 1
  <2>1. k \in Nat /\ Again(r) = [r EXCEPT !.attempt = k, !.chunk = <<>>, !.pc = pc]
    BY <1>1, <1>3
  <2> HIDE DEF k
  <2>2. /\ Again(r) \in Requests /\ Again(r).tried = r.tried /\ Again(r).attempt = k
        /\ Again(r).pc = pc /\ Again(r).size = r.size
    BY <1>1, <1>2, <2>1 DEF Requests
  <2> QED BY <2>2 DEF k
<1>5. Again(r).attempt <= MaxAttempts
  BY <1>1, <1>4, PoolNumbers
<1> QED
  BY <1>1, <1>2, <1>4, <1>5 DEF RequestTyped

LEMMA ChoosesTyped == ASSUME PoolTypes, NEW c \in Callers, Chooses(c) PROVE PoolTypes'
<1> DEFINE r == request[c]
           tried == IF Usable(r) \subseteq r.tried THEN {} ELSE r.tried
           at == Best(Fresh(r), r.size)
           chosen == [r EXCEPT !.pc = "chosen", !.at = at, !.got = <<>>, !.next = 1, !.tried = tried]
           threw == [r EXCEPT !.pc = "threw"]
<1>1. /\ r \in Requests /\ RequestTyped(r) /\ r.size \in Nat \ {0} /\ r.pc = "choosing"
      /\ Req(c, IF Usable(r) = {} THEN threw ELSE chosen)
      /\ UNCHANGED <<serves, collector, checked, boundTo, endpoint, poolFaults>>
  BY RequestKnown DEF Chooses
<1>2. endpoint' \in [Endpoints -> [cooling : BOOLEAN, head : Nat \cup {NoHead}, maxBatch : 1..Whole]]
  BY <1>1 DEF PoolTypes
<1>3. CASE Usable(r) = {}
  <2>1. threw \in Requests /\ RequestTyped(threw)
    BY <1>1 DEF Requests, RequestTyped
  <2>2. Req(c, threw)
    BY <1>1, <1>3
  <2> HIDE DEF threw, chosen, r
  <2> QED
    BY <1>1, <1>2, <2>1, <2>2, RequestMovesTyped
<1>4. CASE Usable(r) # {}
  <2>1. Fresh(r) \in SUBSET Endpoints /\ Fresh(r) # {}
    BY <1>4 DEF Fresh, Usable
  <2>2. at \in Endpoints
    BY <2>1, BestIsOneOf
  <2>3. tried \in SUBSET Endpoints /\ <<>> \in Seq(Nat)
    BY <1>1 DEF Requests
  <2>4. Req(c, chosen)
    BY <1>1, <1>4
  <2> HIDE DEF tried, at
  <2>5. /\ chosen \in Requests /\ chosen.size = r.size /\ chosen.attempt = r.attempt
        /\ chosen.at = at /\ chosen.next = 1
    BY <1>1, <2>2, <2>3 DEF Requests
  <2>6. RequestTyped(chosen)
    BY <1>1, <2>2, <2>5 DEF RequestTyped
  <2> HIDE DEF chosen, r
  <2> QED
    BY <1>1, <1>2, <2>4, <2>5, <2>6, RequestMovesTyped
<1> QED
  BY <1>3, <1>4

LEMMA SendsTyped == ASSUME PoolTypes, NEW c \in Callers, Sends(c) PROVE PoolTypes'
<1> DEFINE r == request[c]
           limit == endpoint[r.at].maxBatch
           last == IF r.next + limit - 1 < r.size THEN r.next + limit - 1 ELSE r.size
           sent == [r EXCEPT !.pc = "waiting", !.chunk = Calls(r.next, last), !.asked = @ \cup {r.at}]
<1>1. /\ r \in Requests /\ RequestTyped(r) /\ r.size \in Nat \ {0} /\ r.pc = "chosen"
      /\ Req(c, sent)
      /\ UNCHANGED <<serves, collector, checked, boundTo, endpoint, poolFaults>>
  BY RequestKnown DEF Sends
<1>2. /\ r.at \in Endpoints /\ r.next \in 1..r.size
      /\ endpoint' \in [Endpoints -> [cooling : BOOLEAN, head : Nat \cup {NoHead}, maxBatch : 1..Whole]]
  BY <1>1 DEF PoolTypes, RequestTyped
<1>3. limit \in Nat \ {0}
  BY <1>2, RecordKnown
<1>4. last \in Nat /\ r.next <= last + 1 /\ r.next \in Nat \ {0}
  <2> HIDE DEF limit
  <2> QED BY <1>1, <1>2, <1>3
<1>5. Calls(r.next, last) \in Seq(Nat)
  <2> HIDE DEF last
  <2> QED BY <1>4, CallsFacts
<1> HIDE DEF last
<1>6. /\ sent \in Requests /\ sent.size = r.size /\ sent.attempt = r.attempt
      /\ sent.at = r.at /\ sent.next = r.next
  BY <1>1, <1>2, <1>5 DEF Requests
<1>7. RequestTyped(sent)
  BY <1>1, <1>2, <1>6 DEF RequestTyped
<1> HIDE DEF sent, r
<1> QED
  BY <1>1, <1>2, <1>6, <1>7, RequestMovesTyped

LEMMA AnswersTyped == ASSUME PoolTypes, NEW c \in Callers, Answers(c) PROVE PoolTypes'
<1> DEFINE r == request[c]
           got == r.got \o r.chunk
           all == [r EXCEPT !.pc = "returned", !.got = got, !.chunk = <<>>]
           more == [r EXCEPT !.pc = "chosen", !.got = got, !.chunk = <<>>, !.next = Step(r)]
<1>1. /\ r \in Requests /\ RequestTyped(r) /\ r.size \in Nat \ {0} /\ r.next \in Nat /\ r.pc = "waiting"
      /\ r.chunk \in Seq(Nat) /\ r.got \in Seq(Nat)
      /\ UNCHANGED <<serves, collector, checked, boundTo, poolFaults>>
      /\ IF Finished(r) THEN Req(c, all) /\ endpoint' = [endpoint EXCEPT ![r.at].cooling = FALSE]
                        ELSE Req(c, more) /\ UNCHANGED endpoint
  BY RequestKnown DEF Answers
<1>2. endpoint' \in [Endpoints -> [cooling : BOOLEAN, head : Nat \cup {NoHead}, maxBatch : 1..Whole]]
  <2>1. 0 \in Nat /\ FALSE \in BOOLEAN
    OBVIOUS
  <2> QED BY <1>1, <2>1, RecordStays
<1>3. got \in Seq(Nat) /\ <<>> \in Seq(Nat)
  BY <1>1
<1> HIDE DEF got
<1>4. CASE Finished(r)
  <2>1. all \in Requests /\ all.size = r.size /\ all.attempt = r.attempt /\ all.pc = "returned"
    BY <1>1, <1>3 DEF Requests
  <2>2. RequestTyped(all)
    BY <1>1, <2>1 DEF RequestTyped
  <2>3. Req(c, all)
    BY <1>1, <1>4
  <2> HIDE DEF all, r, more
  <2> QED
    BY <1>1, <1>2, <2>1, <2>2, <2>3, RequestMovesTyped
<1>5. CASE ~Finished(r)
  <2>1. r.at \in Endpoints /\ r.next \in 1..r.size
    BY <1>1 DEF RequestTyped
  <2>2. endpoint[r.at].maxBatch \in Nat \ {0}
    BY <2>1, RecordKnown
  <2>3. Step(r) \in 1..r.size
    BY <1>1, <1>5, <2>1, <2>2 DEF Finished, Step
  <2>4. /\ more \in Requests /\ more.size = r.size /\ more.attempt = r.attempt
        /\ more.at = r.at /\ more.next = Step(r)
    <3> DEFINE next == Step(r)
    <3>1. next \in Nat
      BY <1>1, <2>3
    <3> HIDE DEF next
    <3> QED BY <1>1, <1>3, <3>1 DEF Requests, next
  <2>5. RequestTyped(more)
    BY <1>1, <2>1, <2>3, <2>4 DEF RequestTyped
  <2>6. Req(c, more)
    BY <1>1, <1>5
  <2> HIDE DEF all, r, more
  <2> QED
    BY <1>1, <1>2, <2>4, <2>5, <2>6, RequestMovesTyped
<1> QED
  BY <1>4, <1>5

LEMMA EndsTyped ==
    ASSUME PoolTypes, NEW c \in Callers, Fails(c) \/ FailsForGood(c) \/ LearnsLimit(c)
    PROVE  PoolTypes'
<1> DEFINE r == request[c]
           failed == [Again(r) EXCEPT !.tried = Tried(r)]
           threw == [r EXCEPT !.pc = "threw", !.chunk = <<>>]
<1>1. /\ r \in Requests /\ RequestTyped(r) /\ r.pc = "waiting"
      /\ UNCHANGED <<serves, collector, checked, boundTo>>
      /\ PoolFault \/ UNCHANGED poolFaults
  BY RequestKnown DEF Fails, FailsForGood, LearnsLimit
<1>2. r.at \in Endpoints
  BY <1>1 DEF RequestTyped
<1>3. /\ Again(r) \in Requests /\ RequestTyped(Again(r))
  <2> HIDE DEF r
  <2> QED BY <1>1, AgainTyped
<1>4. 0 \in Nat /\ TRUE \in BOOLEAN /\ <<>> \in Seq(Nat)
  OBVIOUS
<1>5. CASE Fails(c)
  <2>1. Tried(r) \in SUBSET Endpoints
    BY <1>1, <1>2 DEF Tried, Requests
  <2>2. /\ failed \in Requests /\ failed.size = Again(r).size /\ failed.attempt = Again(r).attempt
        /\ failed.pc = Again(r).pc /\ failed.at = Again(r).at /\ failed.next = Again(r).next
    <3> DEFINE a == Again(r)
               t == Tried(r)
    <3>1. a \in Requests /\ t \in SUBSET Endpoints
      BY <1>3, <2>1
    <3> HIDE DEF a, t
    <3> QED BY <3>1 DEF Requests, a, t
  <2>3. RequestTyped(failed)
    BY <1>3, <2>2 DEF RequestTyped
  <2>4. Req(c, failed) /\ endpoint' = [endpoint EXCEPT ![r.at].cooling = TRUE]
    BY <1>5 DEF Fails
  <2>5. endpoint' \in [Endpoints -> [cooling : BOOLEAN, head : Nat \cup {NoHead}, maxBatch : 1..Whole]]
    BY <1>4, <2>4, RecordStays
  <2> HIDE DEF failed, r
  <2> QED
    BY <1>1, <2>2, <2>3, <2>4, <2>5, RequestMovesTyped
<1>6. CASE FailsForGood(c)
  <2>1. threw \in Requests /\ threw.size = r.size /\ threw.attempt = r.attempt /\ threw.pc = "threw"
    BY <1>1, <1>4 DEF Requests
  <2>2. RequestTyped(threw)
    BY <1>1, <2>1 DEF RequestTyped
  <2>3. Req(c, threw) /\ endpoint' = [endpoint EXCEPT ![r.at].cooling = TRUE]
    BY <1>6 DEF FailsForGood
  <2>4. endpoint' \in [Endpoints -> [cooling : BOOLEAN, head : Nat \cup {NoHead}, maxBatch : 1..Whole]]
    BY <1>4, <2>3, RecordStays
  <2> HIDE DEF threw, r
  <2> QED
    BY <1>1, <2>1, <2>2, <2>3, <2>4, RequestMovesTyped
<1>7. CASE LearnsLimit(c)
  <2>1. Req(c, Again(r)) /\ endpoint' = [endpoint EXCEPT ![r.at].maxBatch = Learned(r.at)]
    BY <1>7 DEF LearnsLimit
  <2>2. Learned(r.at) \in 1..Whole
    <3>1. endpoint[r.at].maxBatch \in 1..Whole /\ LimitTold[r.at] \in Nat
      BY <1>2, RpcPoolAssumption DEF PoolTypes
    <3>2. Whole \in Int
      BY DEF Whole
    <3> HIDE DEF r
    <3> QED BY <3>1, <3>2 DEF Learned
  <2>3. endpoint' \in [Endpoints -> [cooling : BOOLEAN, head : Nat \cup {NoHead}, maxBatch : 1..Whole]]
    <3> DEFINE m == Learned(r.at)
    <3>1. m \in 1..Whole
      BY <2>2
    <3> HIDE DEF m
    <3> QED BY <1>2, <2>1, <3>1 DEF PoolTypes, m
  <2> HIDE DEF r
  <2> QED
    BY <1>1, <1>3, <2>1, <2>3, RequestMovesTyped
<1> QED
  BY <1>5, <1>6, <1>7

LEMMA PoolTypesKept == PoolTypes /\ [PoolNext]_poolVars => PoolTypes'
<1> SUFFICES ASSUME PoolTypes, [PoolNext]_poolVars PROVE PoolTypes'
  OBVIOUS
<1> DEFINE Records == [Endpoints -> [cooling : BOOLEAN, head : Nat \cup {NoHead}, maxBatch : 1..Whole]]
<1>1. CASE Boots
  <2>1. endpoint' \in Records /\ checked' \in [Endpoints -> {"not yet", "verified", "disabled", "kept"}]
    BY <1>1, NewEndpointTyped DEF Boots
  <2>2. serves' = serves /\ boundTo' = boundTo /\ UNCHANGED request /\ UNCHANGED poolFaults /\ collector' = "checking"
    BY <1>1 DEF Boots
  <2> QED
    BY <2>1, <2>2, RequestsStayTyped, PoolFaultCounts, Zenon DEF PoolTypes
<1>2. CASE Verified
  <2>1. /\ serves' = serves /\ checked' = checked /\ endpoint' = endpoint /\ UNCHANGED request
        /\ PoolFault \/ UNCHANGED poolFaults
        /\ collector' \in {"running", "off"}
        /\ boundTo' = boundTo \/ (GenesisAgrees /\ boundTo' = CHOOSE g \in Geneses : TRUE)
    BY <1>2 DEF Verified
  <2>2. boundTo' \in Chains \cup {NoChain}
    <3>1. CASE GenesisAgrees /\ boundTo' = CHOOSE g \in Geneses : TRUE
      <4>1. Cardinality(Geneses) # 0
        BY <3>1 DEF GenesisAgrees
      <4>2. Geneses # {}
        BY <4>1, FS_EmptySet
      <4>3. serves \in [Endpoints -> Chains]
        BY RpcPoolAssumption DEF PoolTypes
      <4>4. Geneses \subseteq Chains
        BY <4>3 DEF Geneses
      <4> QED
        BY <3>1, <4>2, <4>4
    <3>2. CASE boundTo' = boundTo
      BY <3>2 DEF PoolTypes
    <3> QED BY <2>1, <3>1, <3>2
  <2>3. collector' \in {"off", "checking", "running"}
    BY <2>1
  <2> QED
    BY <2>1, <2>2, <2>3, RequestsStayTyped, PoolFaultCounts, Zenon DEF PoolTypes
<1>3. CASE Stops
  <2>1. /\ serves' = serves /\ checked' = checked /\ endpoint' = endpoint /\ boundTo' = boundTo
        /\ PoolFault /\ collector' = "off" /\ request' = [c \in Callers |-> NoRequest]
    BY <1>3 DEF Stops
  <2> QED
    BY <2>1, RequestsStayTyped, PoolFaultCounts, Zenon DEF PoolTypes
<1>4. ASSUME NEW e \in Endpoints, CheckEndpoint(e) PROVE PoolTypes'
  <2>1. /\ serves' = serves /\ collector' = collector /\ endpoint' = endpoint /\ boundTo' = boundTo /\ UNCHANGED request
        /\ PoolFault \/ UNCHANGED poolFaults
    BY <1>4 DEF CheckEndpoint
  <2>2. checked' \in [Endpoints -> {"not yet", "verified", "disabled", "kept"}]
    BY <1>4 DEF CheckEndpoint, PoolTypes
  <2> QED
    BY <2>1, <2>2, RequestsStayTyped, PoolFaultCounts, Zenon DEF PoolTypes
<1>5. ASSUME NEW e \in Endpoints, NEW h \in 0..MaxHeight, CooldownEnds(e) \/ ProbeHead(e, h) PROVE PoolTypes'
  <2>1. /\ serves' = serves /\ collector' = collector /\ checked' = checked /\ boundTo' = boundTo
        /\ UNCHANGED request /\ UNCHANGED poolFaults
        /\ \/ endpoint' = [endpoint EXCEPT ![e].cooling = FALSE]
           \/ endpoint' = [endpoint EXCEPT ![e].head = h, ![e].cooling = FALSE]
    BY <1>5 DEF CooldownEnds, ProbeHead
  <2>2. h \in Nat /\ FALSE \in BOOLEAN
    OBVIOUS
  <2>3. endpoint' \in Records
    BY <2>1, <2>2, RecordStays
  <2> QED
    BY <2>1, <2>3, RequestsStayTyped, PoolFaultCounts, Zenon DEF PoolTypes
<1>6. ASSUME NEW c \in Callers, NEW n \in Sizes, NEW x \in Excludes[c], Asks(c, n, x) PROVE PoolTypes'
  <2> DEFINE s == [NoRequest EXCEPT !.pc = "choosing", !.size = n, !.exclude = x]
  <2>1. n \in 1..(Whole - 1) /\ x \in SUBSET Endpoints
    BY RpcPoolAssumption
  <2>2. /\ s \in Requests /\ s.size = n /\ s.attempt = 0 /\ s.pc = "choosing"
    <3>1. <<>> \in Seq(Nat)
      OBVIOUS
    <3> QED BY <2>1, <3>1 DEF NoRequest, Requests, NoEndpoint
  <2>3. RequestTyped(s)
    BY <2>2, RpcPoolAssumption DEF RequestTyped
  <2>4. Req(c, s) /\ UNCHANGED <<serves, collector, checked, boundTo, endpoint, poolFaults>>
    BY <1>6 DEF Asks
  <2>5. endpoint' \in Records
    BY <2>4 DEF PoolTypes
  <2> HIDE DEF s
  <2> QED
    BY <2>2, <2>3, <2>4, <2>5, RequestMovesTyped
<1>7. ASSUME NEW c \in Callers, Takes(c) PROVE PoolTypes'
  <2>1. Req(c, NoRequest) /\ UNCHANGED <<serves, collector, checked, boundTo, endpoint, poolFaults>>
    BY <1>7 DEF Takes
  <2>2. endpoint' \in Records
    BY <2>1 DEF PoolTypes
  <2> QED
    BY <2>1, <2>2, NoRequestTyped, RequestMovesTyped
<1>8. ASSUME NEW c \in Callers, RequestStep(c) PROVE PoolTypes'
  BY <1>8, ChoosesTyped, SendsTyped, AnswersTyped, EndsTyped DEF RequestStep
<1>9. CASE UNCHANGED poolVars
  <2>1. /\ serves' = serves /\ collector' = collector /\ checked' = checked /\ boundTo' = boundTo
        /\ endpoint' = endpoint /\ request' = request /\ poolFaults' = poolFaults
    BY <1>9 DEF poolVars
  <2> QED
    BY <2>1, Zenon DEF PoolTypes
<1>10. 0 \in 0..MaxHeight
  BY RpcPoolAssumption
<1> QED
  BY <1>1, <1>2, <1>3, <1>4, <1>5, <1>6, <1>7, <1>8, <1>9, <1>10 DEF PoolNext

-----------------------------------------------------------------------------
(* The types of the workers that read logs *)

\* What IndexInv leaves open: a range never ends above the chain, and the
\* window of the fill stays between its limits.
WatcherTyped(w) ==
    /\ watch[w].cursor \in Nat /\ watch[w].to \in Levels
    /\ watchSaved[w] \in Nat \cup {NoBlock}
    /\ recorded[w] \in [Events[w] -> SUBSET Levels] /\ unread[w] \in [Events[w] -> SUBSET Levels]

WatchRest ==
    /\ awake \in Awake
    /\ \A w \in Watchers : WatcherTyped(w)
    /\ filler.window \in WindowMin..WindowMax
    /\ watchFaults \in 0..MaxWatchFaults

LEMMA WatchersTyped == IndexInv /\ WatchRest => WatchersTypeOK
<1> SUFFICES ASSUME IndexInv, WatchRest PROVE WatchersTypeOK
  OBVIOUS
<1>1. /\ tip \in Levels /\ known \in Levels \cup {NoBlock}
      /\ followed \in Levels \cup {NoBlock} /\ followedSaved \in Levels \cup {NoBlock}
      /\ paid \subseteq Levels /\ held \subseteq paid \cup Collected
  BY DEF IndexInv, HeadFits, OwnHeights
<1>2. held \subseteq Levels
  BY <1>1, WatchersAssumption DEF Levels
<1>3. ASSUME NEW w \in Watchers
      PROVE  watch[w] \in [pc : {"off", "dead", "idle", "recording", "saving"}, cursor : Nat,
                           to : Levels, todo : SUBSET Events[w]]
  BY DEF IndexInv, WatchInv, WatchTypes, WatchStates, WatchRest, WatcherTyped
<1>4. filler \in [pc : {"off", "dead", "plan", "run", "asked", "saving", "done"},
                  from : Int, until : Int, cursor : Int, window : WindowMin..WindowMax, to : Int]
  BY DEF IndexInv, FillFits, Fillers, WatchRest
<1>5. fillSaved \in [from : Int, until : Int, cursor : Int] /\ startBlock \in StartBlocks
  BY DEF IndexInv, FillFits, Fills
<1> QED
  BY <1>1, <1>2, <1>3, <1>4, <1>5, Zenon DEF WatchersTypeOK, WatchRest, WatcherTyped

LEMMA NoWatchTyped == NoWatch.cursor = 0 /\ NoWatch.to = 0 /\ 0 \in Levels
BY WatchersAssumption DEF NoWatch, Levels

LEMMA NoRunTyped == NoRun.window \in WindowMin..WindowMax
BY WatchersAssumption DEF NoRun

LEMMA WatchRestStarts == WatchersInit => WatchRest
<1> SUFFICES ASSUME WatchersInit PROVE WatchRest
  OBVIOUS
<1>1. ASSUME NEW w \in Watchers PROVE WatcherTyped(w)
  BY NoWatchTyped DEF WatchersInit, WatcherTyped
<1>2. filler.window \in WindowMin..WindowMax
  BY NoRunTyped DEF WatchersInit
<1>3. watchFaults \in 0..MaxWatchFaults
  BY WatchersAssumption DEF WatchersInit
<1>4. awake \in Awake
  BY DEF WatchersInit
<1> QED
  BY <1>1, <1>2, <1>3, <1>4 DEF WatchRest

LEMMA WatchFaultCounts ==
    ASSUME WatchRest, WatchFault \/ UNCHANGED watchFaults PROVE watchFaults' \in 0..MaxWatchFaults
BY WatchersAssumption DEF WatchRest, WatchFault

\* The watchers stay.
LEMMA WatchersRest ==
    ASSUME WatchRest, UNCHANGED <<awake, watchVars>>, WatchFault \/ UNCHANGED watchFaults,
           filler'.window \in WindowMin..WindowMax
    PROVE  WatchRest'
<1>1. awake' = awake /\ watch' = watch /\ watchSaved' = watchSaved /\ recorded' = recorded /\ unread' = unread
  BY DEF watchVars
<1>2. ASSUME NEW w \in Watchers PROVE WatcherTyped(w)'
  BY <1>1 DEF WatchRest, WatcherTyped
<1> QED
  BY <1>1, <1>2, WatchFaultCounts DEF WatchRest

\* One watcher moves.
LEMMA WatcherMovesTyped ==
    ASSUME IndexInv, WatchRest, NEW w \in Watchers, NEW t, Watch(w, t), UNCHANGED <<awake, filler>>,
           WatchFault \/ UNCHANGED watchFaults, t.cursor \in Nat, t.to \in Levels,
           watchSaved'[w] \in Nat \cup {NoBlock},
           recorded'[w] \in [Events[w] -> SUBSET Levels], unread'[w] \in [Events[w] -> SUBSET Levels],
           \A v \in Watchers : v # w => /\ watchSaved'[v] = watchSaved[v] /\ recorded'[v] = recorded[v]
                                        /\ unread'[v] = unread[v]
    PROVE  WatchRest'
<1>1. watch' = [watch EXCEPT ![w] = t] /\ DOMAIN watch = Watchers
  BY DEF Watch, IndexInv, WatchInv, WatchTypes
<1>2. ASSUME NEW v \in Watchers PROVE WatcherTyped(v)'
  <2>1. CASE v = w
    BY <1>1, <2>1 DEF WatcherTyped
  <2>2. CASE v # w
    <3>1. watch'[v] = watch[v] /\ WatcherTyped(v)
      BY <1>1, <2>2 DEF WatchRest
    <3> QED BY <2>2, <3>1 DEF WatcherTyped
  <2> QED BY <2>1, <2>2
<1> QED
  BY <1>2, WatchFaultCounts DEF WatchRest

LEMMA WatchRecordsTyped ==
    ASSUME IndexInv, WatchRest, NEW w \in Watchers, NEW k \in watch[w].todo,
           NEW missing \in SUBSET Between(watch[w].cursor, watch[w].to), WatchRecords(w, k, missing)
    PROVE  WatchRest'
<1> DEFINE t == watch[w]
           range == Between(t.cursor, t.to) \ missing
           last == [t EXCEPT !.todo = {}, !.pc = "saving", !.cursor = Past(t)]
           next == [t EXCEPT !.todo = @ \ {k}]
<1>1. t \in WatchStates(w) /\ WatcherTyped(w) /\ k \in Events[w]
  BY DEF IndexInv, WatchInv, WatchTypes, WatchStates, WatchRest
<1>2. range \in SUBSET Levels /\ missing \in SUBSET Levels
  BY DEF Between
<1> HIDE DEF range
<1>3. /\ recorded' = [recorded EXCEPT ![w][k] = @ \cup range]
      /\ unread' = [unread EXCEPT ![w][k] = @ \cup missing]
      /\ awake' = awake /\ filler' = filler /\ watchSaved' = watchSaved
      /\ WatchFault \/ UNCHANGED watchFaults
      /\ Watch(w, IF t.todo = {k} THEN last ELSE next)
  BY DEF WatchRecords, fillVars, range
<1>4. DOMAIN recorded = Watchers /\ DOMAIN unread = Watchers
  BY DEF IndexInv, WatchInv, WatchTypes
<1>5. /\ recorded'[w] = [recorded[w] EXCEPT ![k] = @ \cup range]
      /\ unread'[w] = [unread[w] EXCEPT ![k] = @ \cup missing]
      /\ \A v \in Watchers : v # w => recorded'[v] = recorded[v] /\ unread'[v] = unread[v]
  BY <1>3, <1>4
<1>6. recorded'[w] \in [Events[w] -> SUBSET Levels] /\ unread'[w] \in [Events[w] -> SUBSET Levels]
  BY <1>1, <1>2, <1>5 DEF WatcherTyped
<1>7. Past(t) \in Nat
  <2>1. t.to \in Levels
    BY <1>1 DEF WatcherTyped
  <2>2. t.to \in Nat
    BY <2>1, OwnHeightsAreWhole
  <2> QED BY <2>2 DEF Past
<1>8. last.cursor = Past(t) /\ last.to = t.to /\ next.cursor = t.cursor /\ next.to = t.to
  BY <1>1 DEF WatchStates
<1> DEFINE u == IF t.todo = {k} THEN last ELSE next
<1>9. u.cursor \in Nat /\ u.to \in Levels
  BY <1>1, <1>7, <1>8 DEF WatcherTyped
<1>10. watchSaved'[w] \in Nat \cup {NoBlock}
  BY <1>1, <1>3 DEF WatcherTyped
<1>11. Watch(w, u)
  BY <1>3
<1> HIDE DEF u, t
<1> QED
  BY <1>3, <1>5, <1>6, <1>9, <1>10, <1>11, WatcherMovesTyped

LEMMA WatchStepsTyped ==
    ASSUME IndexInv, WatchRest, NEW w \in Watchers, WatchStep(w) \/ WatchFails(w) \/ WatchCrashes(w)
    PROVE  WatchRest'
<1>1. watch[w] \in WatchStates(w) /\ WatcherTyped(w) /\ WatchFrom[w] \in Nat /\ DOMAIN watchSaved = Watchers
  BY WatchersAssumption DEF IndexInv, WatchInv, WatchTypes, WatchRest
<1>2. /\ watch[w].cursor \in Nat /\ watch[w].to \in Levels
      /\ watchSaved[w] \in Nat \cup {NoBlock}
      /\ recorded[w] \in [Events[w] -> SUBSET Levels] /\ unread[w] \in [Events[w] -> SUBSET Levels]
  BY <1>1 DEF WatcherTyped
<1>3. CASE WatchStarts(w)
  <2> DEFINE c == IF watchSaved[w] = NoBlock THEN WatchFrom[w] ELSE watchSaved[w]
             t == [NoWatch EXCEPT !.pc = "idle", !.cursor = c]
  <2>1. c \in Nat
    BY <1>1, <1>2
  <2>2. Watch(w, t) /\ UNCHANGED <<awake, watchSaved, recorded, unread, filler, watchFaults>>
    BY <1>3 DEF WatchStarts, fillVars
  <2> HIDE DEF c
  <2>3. t.cursor = c /\ t.to = 0
    BY DEF NoWatch
  <2> HIDE DEF t
  <2> QED
    BY <1>2, <2>1, <2>2, <2>3, NoWatchTyped, WatcherMovesTyped
<1>4. CASE WatchAsks(w)
  <2> DEFINE c == watch[w].cursor
             to == IF c + Span - 1 < known THEN c + Span - 1 ELSE known
             t == [watch[w] EXCEPT !.pc = "recording", !.todo = Events[w], !.to = to]
  <2>1. Watch(w, t) /\ known # NoBlock /\ c <= known /\ UNCHANGED <<awake, watchSaved, recorded, unread, filler, watchFaults>>
    BY <1>4 DEF WatchAsks, fillVars
  <2>2. known \in Levels
    BY <2>1 DEF IndexInv, HeadFits, OwnHeights
  <2>3. to \in Levels
    <3>1. known \in Nat /\ known <= MaxTip /\ MaxTip \in Nat /\ Span \in Nat \ {0} /\ c \in Nat
      BY <1>2, <2>2, WatchersAssumption DEF Levels
    <3>2. to \in Nat /\ to <= known
      BY <3>1
    <3> HIDE DEF to
    <3> QED BY <3>1, <3>2 DEF Levels
  <2> HIDE DEF to
  <2>4. t.cursor = c /\ t.to = to
    BY <1>1 DEF WatchStates
  <2> HIDE DEF t
  <2> QED
    BY <1>2, <2>1, <2>3, <2>4, WatcherMovesTyped
<1>5. CASE WatchSaves(w)
  <2> DEFINE t == [watch[w] EXCEPT !.pc = "idle"]
  <2>1. /\ Watch(w, t) /\ UNCHANGED <<awake, recorded, unread, filler, watchFaults>>
        /\ watchSaved' = [watchSaved EXCEPT ![w] = watch[w].cursor]
    BY <1>5 DEF WatchSaves, fillVars
  <2>2. t.cursor = watch[w].cursor /\ t.to = watch[w].to
    BY <1>1 DEF WatchStates
  <2>3. watchSaved'[w] = watch[w].cursor /\ \A v \in Watchers : v # w => watchSaved'[v] = watchSaved[v]
    BY <1>1, <2>1
  <2> HIDE DEF t
  <2> QED
    BY <1>2, <2>1, <2>2, <2>3, WatcherMovesTyped
<1>6. CASE WatchFails(w)
  <2> DEFINE t == [watch[w] EXCEPT !.pc = "idle", !.todo = {}]
  <2>1. Watch(w, t) /\ UNCHANGED <<awake, recorded, unread, filler, watchSaved>> /\ WatchFault
    BY <1>6 DEF WatchFails, fillVars
  <2>2. t.cursor = watch[w].cursor /\ t.to = watch[w].to
    BY <1>1 DEF WatchStates
  <2> HIDE DEF t
  <2> QED
    BY <1>2, <2>1, <2>2, WatcherMovesTyped
<1>7. CASE WatchCrashes(w)
  <2> DEFINE t == [NoWatch EXCEPT !.pc = "dead"]
  <2>1. Watch(w, t) /\ UNCHANGED <<awake, recorded, unread, filler, watchSaved>> /\ WatchFault
    BY <1>7 DEF WatchCrashes, fillVars
  <2>2. t.cursor = 0 /\ t.to = 0 /\ 0 \in Nat
    BY DEF NoWatch
  <2> HIDE DEF t
  <2> QED
    BY <1>2, <2>1, <2>2, NoWatchTyped, WatcherMovesTyped
<1>8. ASSUME NEW k \in watch[w].todo, NEW missing \in SUBSET Between(watch[w].cursor, watch[w].to),
             WatchRecords(w, k, missing)
      PROVE  WatchRest'
  BY <1>8, WatchRecordsTyped
<1> QED
  BY <1>3, <1>4, <1>5, <1>6, <1>7, <1>8 DEF WatchStep

LEMMA FillTyped ==
    ASSUME IndexInv, WatchRest, PaymentsStep \/ FillRefused \/ FillFails \/ FillCrashes
    PROVE  WatchRest'
<1>1. filler \in Fillers /\ filler.window \in WindowMin..WindowMax
  BY DEF IndexInv, FillFits, WatchRest
<1>2. UNCHANGED <<awake, watchVars>> /\ (WatchFault \/ UNCHANGED watchFaults)
  BY DEF PaymentsStep, FillPlans, FillAsks, FillWrites, FillSaves, FillRefused, FillFails, FillCrashes
<1>3. filler'.window \in WindowMin..WindowMax
  <2>1. CASE FillPlans \/ FillCrashes
    <3>1. filler'.window = NoRun.window
      BY <2>1 DEF FillPlans, FillCrashes, NoRun
    <3> QED BY <3>1, NoRunTyped
  <2>2. CASE FillAsks \/ FillWrites \/ FillFails
    <3>1. filler'.window = filler.window
      BY <1>1, <2>2 DEF FillAsks, FillWrites, FillFails, Fillers
    <3> QED BY <1>1, <3>1
  <2> DEFINE half == IF filler.window \div 2 < WindowMin THEN WindowMin ELSE filler.window \div 2
             twice == Smaller(WindowMax, 2 * filler.window)
  <2>3. WindowMin \in Nat \ {0} /\ WindowMax \in Nat /\ WindowMin <= WindowMax /\ filler.window \in Nat
    BY <1>1, WatchersAssumption
  <2>4. CASE FillRefused
    <3>1. filler' = [filler EXCEPT !.pc = "run", !.window = half]
      BY <2>4 DEF FillRefused
    <3>2. half \in WindowMin..WindowMax
      BY <1>1, <2>3
    <3> HIDE DEF half
    <3> QED BY <1>1, <3>1, <3>2 DEF Fillers
  <2>5. CASE FillSaves
    <3>1. filler' = [filler EXCEPT !.pc = IF Ended THEN "plan" ELSE "run", !.window = twice]
      BY <2>5 DEF FillSaves
    <3>2. twice \in WindowMin..WindowMax
      BY <1>1, <2>3 DEF Smaller
    <3> HIDE DEF twice
    <3> QED BY <1>1, <3>1, <3>2 DEF Fillers
  <2> QED BY <2>1, <2>2, <2>4, <2>5 DEF PaymentsStep
<1> QED
  BY <1>2, <1>3, WatchersRest

LEMMA WatchRestSteps == IndexInv /\ WatchRest /\ [WatchersNext]_watchersVars => WatchRest'
<1> SUFFICES ASSUME IndexInv, WatchRest, [WatchersNext]_watchersVars PROVE WatchRest'
  OBVIOUS
<1>1. filler.window \in WindowMin..WindowMax
  BY DEF WatchRest
<1>2. CASE \/ TipGrows \/ HeadPolled \/ HeadLoads \/ HeadPasses \/ (\E b \in Levels : BackfillStores(b))
           \/ UNCHANGED watchersVars
  <2>1. UNCHANGED <<awake, watchVars, watchFaults>> /\ filler' = filler
    BY <1>2 DEF TipGrows, HeadPolled, HeadLoads, HeadPasses, BackfillStores, watchersVars, fillVars
  <2> QED BY <1>1, <2>1, WatchersRest
<1>3. CASE \E w \in Watchers : WatchStep(w) \/ WatchFails(w) \/ WatchCrashes(w)
  BY <1>3, WatchStepsTyped
<1>4. CASE PaymentsStep \/ FillRefused \/ FillFails \/ FillCrashes
  BY <1>4, FillTyped
<1>5. CASE WatchersRestart
  <2>1. /\ awake' = awake /\ watchSaved' = watchSaved /\ recorded' = recorded /\ unread' = unread
        /\ watch' = [w \in Watchers |-> NoWatch] /\ filler' = NoRun /\ WatchFault
    BY <1>5 DEF WatchersRestart
  <2>2. ASSUME NEW w \in Watchers PROVE WatcherTyped(w)'
    <3>1. watch'[w] = NoWatch /\ WatcherTyped(w)
      BY <2>1 DEF WatchRest
    <3> QED BY <2>1, <3>1, NoWatchTyped DEF WatcherTyped
  <2>3. filler'.window \in WindowMin..WindowMax
    BY <2>1, NoRunTyped
  <2> QED BY <2>1, <2>2, <2>3, WatchFaultCounts DEF WatchRest
<1> QED
  BY <1>2, <1>3, <1>4, <1>5 DEF WatchersNext

-----------------------------------------------------------------------------
(* The collector *)

\* A step of the collector is a step of one part, and the others stay.
LEMMA StepIsOfOnePart ==
    [CollectorNext]_collectorVars =>
      /\ [Next]_vars /\ [PoolNext]_poolVars /\ [WatchersNext]_watchersVars
      /\ [EnrichNext]_enrichVars /\ [WatchdogNext]_dogVars
<1> SUFFICES ASSUME [CollectorNext]_collectorVars
             PROVE  /\ [Next]_vars /\ [PoolNext]_poolVars /\ [WatchersNext]_watchersVars
                    /\ [EnrichNext]_enrichVars /\ [WatchdogNext]_dogVars
  OBVIOUS
<1>1. CASE UNCHANGED collectorVars
  <2>1. /\ vars' = vars /\ poolVars' = poolVars /\ watchersVars' = watchersVars
        /\ enrichVars' = enrichVars /\ dogVars' = dogVars
    BY <1>1 DEF collectorVars
  <2> QED BY <2>1
<1>2. CASE CollectorNext
  BY <1>2 DEF CollectorNext
<1> QED BY <1>1, <1>2

\* Whichever part of the collector runs, and whatever limits, chains and faults it
\* meets, its variables keep their types: no request has more attempts than it may,
\* no limit learned is below one call, no range ends above the chain, no row is
\* replayed more often than its attempts and the answers lost, and no shutdown
\* lasts longer than its timer (ingestion, rpc, workers, main.ts).
THEOREM CollectorTypeCorrect == CollectorSpec => []CollectorTypeOK
<1>1. CollectorInit => /\ IngestInv /\ PoolTypes /\ IndexInv /\ WatchRest
                       /\ EnrichInv /\ WatchdogTypeOK
  <2> SUFFICES ASSUME CollectorInit
               PROVE  IngestInv /\ PoolTypes /\ IndexInv /\ WatchRest /\ EnrichInv /\ WatchdogTypeOK
    OBVIOUS
  <2>1. Init /\ PoolInit /\ WatchersInit /\ EnrichInit /\ WatchdogInit
    BY DEF CollectorInit
  <2> QED BY <2>1, IngestInit, PoolTypesStart, IndexStarts, WatchRestStarts, EnrichStarts, WatchdogStarts
<1>2. IngestInv /\ [Next]_vars => IngestInv'
  BY IngestStep
<1>3. IngestInv => TypeOK
  BY DEF IngestInv
<1>4. TypeOK /\ PoolTypeOK /\ WatchersTypeOK /\ EnrichTypeOK /\ WatchdogTypeOK => CollectorTypeOK
  BY DEF CollectorTypeOK
<1> QED
  BY <1>1, <1>2, <1>3, <1>4, StepIsOfOnePart, PoolTypesKept, PoolTyped, IndexNext, WatchRestSteps,
     WatchersTyped, EnrichSteps, EnrichTyped, WatchdogSteps, PTL DEF CollectorSpec
=============================================================================
