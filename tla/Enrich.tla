------------------------------- MODULE Enrich -------------------------------
(***************************************************************************)
(* The collector's enrichment (packages/collector/src/workers/enrich.ts):  *)
(* failed transactions are replayed to learn why, new contracts are asked  *)
(* for their code, a few rows a turn, only while the ingestion keeps up.   *)
(* A row is named by the block it comes from.  A step is one row.          *)
(***************************************************************************)
EXTENDS Integers, Sequences, FiniteSets

CONSTANTS
    MaxRow,             \* bound on the blocks with something to enrich
    BatchRows,          \* rows of one turn (10)
    MaxReplays,         \* attempts a row gets (5)
    MaxEnrichFaults     \* bound on what fails

ASSUME EnrichAssumption ==
    /\ MaxRow \in Nat \ {0} /\ BatchRows \in Nat \ {0}
    /\ MaxReplays \in Nat \ {0} /\ MaxEnrichFaults \in Nat

RowIds == 1..MaxRow
ReplayStatuses == {"pending", "rpc_error", "reverted", "succeeded_on_replay"}
NoReplay == [status |-> "none", attempts |-> 0]

VARIABLES
    replay,      \* table tx_reverts
    code,        \* table contract_deploys: "none", "unknown" (NULL), "known"
    behind,      \* is the ingestion behind?
    enricher,    \* the worker: [pc, rows]
    enrichFaults

enrichVars == <<replay, code, behind, enricher, enrichFaults>>

EnrichTypeOK ==
    /\ \A r \in RowIds : /\ replay[r].status \in ReplayStatuses \cup {"none"}
                         /\ replay[r].attempts \in 0..(MaxReplays + MaxEnrichFaults)
    /\ code \in [RowIds -> {"none", "unknown", "known"}]
    /\ behind \in BOOLEAN
    /\ enricher.pc \in {"idle", "replaying", "coding"}
    /\ Len(enricher.rows) <= BatchRows /\ \A i \in DOMAIN enricher.rows : enricher.rows[i] \in RowIds
    /\ enrichFaults \in 0..MaxEnrichFaults

EnrichInit ==
    /\ replay = [r \in RowIds |-> NoReplay]
    /\ code = [r \in RowIds |-> "none"]
    /\ behind = FALSE
    /\ enricher = [pc |-> "idle", rows |-> <<>>]
    /\ enrichFaults = 0

EnrichFault ==
    /\ enrichFaults < MaxEnrichFaults
    /\ enrichFaults' = enrichFaults + 1

-----------------------------------------------------------------------------

\* The ingestion stores a block, which may come from the history, with a failed
\* transaction and a new contract; or it falls behind, or catches up.
Ingested(r) ==
    /\ replay[r].status = "none"
    /\ replay' = [replay EXCEPT ![r].status = "pending"]
    /\ code' = [code EXCEPT ![r] = "unknown"]
    /\ UNCHANGED <<behind, enricher, enrichFaults>>

FallsBehind == ~behind /\ EnrichFault /\ behind' = TRUE /\ UNCHANGED <<replay, code, enricher>>
CatchesUp   == behind /\ behind' = FALSE /\ UNCHANGED <<replay, code, enricher, enrichFaults>>

\* The first BatchRows of S, in an order of rows.
FirstRows(S, before) ==
    LET rank(r) == Cardinality({s \in S : <<s, r>> \in before}) + 1
        n == IF Cardinality(S) < BatchRows THEN Cardinality(S) ELSE BatchRows
    IN [i \in 1..n |-> CHOOSE r \in S : rank(r) = i]

\* Slip: rows are given up before they are tried.
OpenReplaysNever == {r \in RowIds : replay[r].status \in {"pending", "rpc_error"} /\ replay[r].attempts < MaxReplays - 1}

OpenReplays == {r \in RowIds : replay[r].status \in {"pending", "rpc_error"} /\ replay[r].attempts < MaxReplays}

ReplaysBefore ==
    {p \in RowIds \X RowIds :
        \/ replay[p[1]].attempts < replay[p[2]].attempts
        \/ replay[p[1]].attempts = replay[p[2]].attempts /\ p[1] > p[2]}

CodesBefore == {p \in RowIds \X RowIds : p[1] > p[2]}

Enricher(pc, rows) == enricher' = [pc |-> pc, rows |-> rows]

\* A turn of the loop, unless the ingestion is behind: the replays first.
EnrichTurns ==
    /\ enricher.pc = "idle" /\ ~behind
    /\ OpenReplays # {} \/ \E r \in RowIds : code[r] = "unknown"
    /\ Enricher("replaying", FirstRows(OpenReplays, ReplaysBefore))
    /\ UNCHANGED <<replay, code, behind, enrichFaults>>

Attempted(r, status) == replay' = [replay EXCEPT ![r] = [status |-> status, attempts |-> @.attempts + 1]]

\* The replay of one row, at the state before its block: what it shows is kept
\* for good, a node without that state is asked again later.
Replays ==
    LET r == Head(enricher.rows) IN
    /\ enricher.pc = "replaying" /\ enricher.rows # <<>>
    /\ Enricher("replaying", Tail(enricher.rows))
    /\ \/ \E s \in {"reverted", "succeeded_on_replay"} : Attempted(r, s) /\ UNCHANGED enrichFaults
       \/ Attempted(r, "rpc_error") /\ EnrichFault
    /\ UNCHANGED <<code, behind>>

\* The row was written and the answer of the database was lost: the row is
\* written once more, as one that could not be replayed.
ReplayAnswerLost ==
    LET r == Head(enricher.rows) IN
    /\ enricher.pc = "replaying" /\ enricher.rows # <<>> /\ EnrichFault
    /\ Enricher("replaying", Tail(enricher.rows))
    /\ replay' = [replay EXCEPT ![r] = [status |-> "rpc_error", attempts |-> @.attempts + 2]]
    /\ UNCHANGED <<code, behind>>

\* The rows without a code, newest first.
EnrichCodes ==
    LET unknown == {r \in RowIds : code[r] = "unknown"} IN
    /\ enricher.pc = "replaying" /\ enricher.rows = <<>>
    /\ Enricher("coding", FirstRows(unknown, CodesBefore))
    /\ UNCHANGED <<replay, code, behind, enrichFaults>>

\* One code; a failure leaves the row for another turn.
FetchesCode ==
    /\ enricher.pc = "coding" /\ enricher.rows # <<>>
    /\ Enricher("coding", Tail(enricher.rows))
    /\ \/ code' = [code EXCEPT ![Head(enricher.rows)] = "known"] /\ UNCHANGED enrichFaults
       \/ UNCHANGED code /\ EnrichFault
    /\ UNCHANGED <<replay, behind>>

EnrichEnds ==
    /\ enricher.pc = "coding" /\ enricher.rows = <<>>
    /\ Enricher("idle", <<>>)
    /\ UNCHANGED <<replay, code, behind, enrichFaults>>

\* A query fails: the turn ends.  Or the process starts again.
EnrichFails ==
    /\ enricher.pc # "idle" /\ EnrichFault
    /\ Enricher("idle", <<>>)
    /\ UNCHANGED <<replay, code, behind>>

EnrichStep == EnrichTurns \/ Replays \/ EnrichCodes \/ FetchesCode \/ EnrichEnds

EnrichNext ==
    \/ \E r \in RowIds : Ingested(r)
    \/ FallsBehind \/ CatchesUp
    \/ EnrichStep \/ ReplayAnswerLost \/ EnrichFails

EnrichFairness == WF_enrichVars(EnrichStep) /\ WF_enrichVars(CatchesUp)

EnrichSpec == EnrichInit /\ [][EnrichNext]_enrichVars /\ EnrichFairness

-----------------------------------------------------------------------------
(* Properties *)

Explained(r) == replay[r].status \in {"reverted", "succeeded_on_replay"} \/ replay[r].attempts >= MaxReplays

\* However new rows push in front of old ones, every failed transaction is in
\* the end explained or tried as often as a row is tried, and every contract
\* has its code: "retried a few times with backoff, then left".
AllEnriched == \A r \in RowIds : replay[r].status = "none" \/ (Explained(r) /\ code[r] = "known")

EverythingEnriched == []<>AllEnriched
=============================================================================
