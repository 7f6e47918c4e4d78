----------------------------- MODULE BlockReading -----------------------------
(***************************************************************************)
(* What the collector makes of an endpoint's answer: blocks and receipts   *)
(* matched and parsed (collector: parse, fetch), the payments by signed    *)
(* authorization in them (payments) and the rows written (write).  A       *)
(* transaction here is what it DID; the fields and logs an endpoint serves *)
(* follow from that, so the rows can be held against it.  A hash is the    *)
(* identity of what it hashes.                                             *)
(***************************************************************************)
EXTENDS Integers, SequencesExt

CONSTANTS
    Contents,        \* sequences of transactions a block may hold
    Asked            \* numbers of the blocks that exist

Absent == "absent"
NoContract == <<Absent, 0>>
NativeLedger == "native ledger"
OpClasses == {"native_transfer", "erc20_transfer", "contract_call", "deploy"}

\* A token moves what it was authorized to move, maybe after other calls, and
\* in between moves for the same payer only what was authorized before.
Authorizing(deeds) == {j \in DOMAIN deeds : deeds[j].does \in {"pay", "authorize"}}
Moving(deeds) == {j \in DOMAIN deeds : deeds[j].does # "authorize"}
SamePurse(d, e) == d.token = e.token /\ d.payer = e.payer
MovesFor(deeds, moved) ==
    /\ moved \in [Authorizing(deeds) -> Moving(deeds)]
    /\ \A i, j \in Authorizing(deeds) : moved[i] = moved[j] => i = j
    /\ \A j \in Authorizing(deeds) : LET move == deeds[moved[j]] IN
        /\ moved[j] >= j /\ SamePurse(move, deeds[j])
        /\ move.payee = deeds[j].payee /\ move.amount = deeds[j].amount
        /\ \A i \in Moving(deeds) : j <= i /\ i < moved[j] /\ SamePurse(deeds[i], deeds[j]) =>
            \E earlier \in Authorizing(deeds) : earlier < j /\ moved[earlier] = i

\* An authorization names an amount, and its nonce is spent by it.
NoncesSpent(deeds) ==
    \A i, j \in Authorizing(deeds) : SamePurse(deeds[i], deeds[j]) /\ deeds[i].nonce = deeds[j].nonce => i = j

IsTransaction(tx) ==
    /\ tx.did \in OpClasses
    /\ tx.did # "deploy" => tx.to # Absent
    /\ tx.did = "contract_call" => tx.input \notin {"empty", "transfer"}
    /\ tx.deeds \in Seq(ToSet(tx.deeds))
    /\ \A d \in ToSet(tx.deeds) : d.does \in {"pay", "move", "authorize", "transfer"} /\ d.token # NativeLedger /\ d.amount \in Nat
    /\ NoncesSpent(tx.deeds)
    /\ \E moved \in [Authorizing(tx.deeds) -> Moving(tx.deeds)] : MovesFor(tx.deeds, moved)

ASSUME ReadingAssumption ==
    /\ Asked \subseteq Nat \ {0} /\ IsFiniteSet(Asked)
    /\ \A c \in Contents : c \in Seq(ToSet(c)) /\ \A tx \in ToSet(c) : IsTransaction(tx)

VARIABLES
    truth,           \* what happened in each block
    tables           \* the collector's tables

readingVars == <<truth, tables>>

NoRows == [blocks |-> {}, stats |-> {}, deploys |-> {}, payments |-> {},
           transactions |-> {}, receipts |-> {}, logs |-> {}, reverts |-> {}]

ReadingInit ==
    /\ truth \in [Asked -> Contents]
    /\ tables = NoRows

(***************************************************************************)
(* What the chain emits for a deed (external).                             *)
(***************************************************************************)
Authorized(d) == [topic |-> "authorization", address |-> d.token, from |-> d.payer, to |-> d.nonce, value |-> 0, index |-> 0]
Moved(d) == [topic |-> "transfer", address |-> d.token, from |-> d.payer, to |-> d.payee, value |-> d.amount, index |-> 0]
\* USDC mirrors its moves on the native ledger, in 18 decimals.
Mirrored(d) == [Moved(d) EXCEPT !.address = NativeLedger, !.value = @ * 1000]

\* "pay": one authorization and its transfer; "move": a plain transfer;
\* "authorize" and "transfer": the two halves, other logs between them.
LogsOfDeed(d) ==
    CASE d.does = "pay" -> <<Authorized(d), Mirrored(d), Moved(d)>>
      [] d.does \in {"move", "transfer"} -> <<Mirrored(d), Moved(d)>>
      [] d.does = "authorize" -> <<Authorized(d)>>

LogsOfTx(tx) == IF tx.ok THEN FlattenSeq([k \in DOMAIN tx.deeds |-> LogsOfDeed(tx.deeds[k])]) ELSE <<>>
LogsBefore(b, i) == Len(FlattenSeq([k \in 1 .. i - 1 |-> LogsOfTx(truth[b][k])]))

\* A creation calls nobody.
Called(tx) == IF tx.did = "deploy" THEN Absent ELSE tx.to

\* eth_getBlockByNumber and eth_getBlockReceipts of block b, as served.
ServedTx(b, i) ==
    LET tx == truth[b][i] IN
    [hash |-> <<b, i>>, blockHash |-> b, index |-> i, from |-> tx.from, nonce |-> tx.nonce,
     to |-> Called(tx),
     input |-> CASE tx.did = "native_transfer" -> "empty"
                 [] tx.did = "erc20_transfer" -> "transfer"
                 [] OTHER -> tx.input]
ServedReceipt(b, i) ==
    LET tx == truth[b][i] IN
    [txHash |-> <<b, i>>, blockHash |-> b, index |-> i, ok |-> tx.ok, gas |-> tx.gas, price |-> tx.price,
     contract |-> IF tx.did = "deploy" /\ tx.ok THEN <<tx.from, tx.nonce>> ELSE NoContract,
     logs |-> [k \in DOMAIN LogsOfTx(tx) |-> [LogsOfTx(tx)[k] EXCEPT !.index = LogsBefore(b, i) + k]]]
ServedBlock(b) ==
    [is |-> "block", number |-> b, hash |-> b, baseFee |-> "given", objects |-> TRUE,
     txs |-> [i \in DOMAIN truth[b] |-> ServedTx(b, i)]]
ServedReceipts(b) == [is |-> "list", list |-> [i \in DOMAIN truth[b] |-> ServedReceipt(b, i)]]

\* What an endpoint may answer when asked for b.  A header comes with the
\* transactions of its block: one cut short together with its receipts is
\* left out (nothing in the code could tell).
BlockAnswers(b) ==
    LET right == ServedBlock(b) IN
    {ServedBlock(c) : c \in Asked}
    \cup {[right EXCEPT !.is = k] : k \in {Absent, "error"}} \cup {[right EXCEPT !.baseFee = Absent]}
    \cup {[right EXCEPT !.objects = FALSE], [right EXCEPT !.txs = Reverse(@)],
          [right EXCEPT !.txs = [i \in DOMAIN @ |-> [@[i] EXCEPT !.blockHash = 0]]]}
ReceiptAnswers(b) ==
    LET right == ServedReceipts(b) IN
    {ServedReceipts(c) : c \in Asked}
    \cup {[right EXCEPT !.is = k] : k \in {Absent, "error"}}
    \cup {[right EXCEPT !.list = <<>>], [right EXCEPT !.list = Reverse(@)],
          [right EXCEPT !.list = [i \in DOMAIN @ |-> [@[i] EXCEPT !.blockHash = 0]]]}

(***************************************************************************)
(* parse                                                                   *)
(***************************************************************************)
\* The slip of asking the selector before the recipient.
SelectorFirst(t) ==
    IF t.input = "transfer" THEN "erc20_transfer" ELSE IF t.to = Absent THEN "deploy"
    ELSE IF t.input = "empty" THEN "native_transfer" ELSE "contract_call"

ClassifyTx(t) ==
    IF t.to = Absent THEN "deploy"
    ELSE IF t.input = "empty" THEN "native_transfer"
    ELSE IF t.input = "transfer" THEN "erc20_transfer" ELSE "contract_call"

Fee(r) == r.gas * r.price

SumOver(S, f) == FoldFunctionOnSet(LAMBDA x, y : x + y, 0, f, S)

ComputeStats(number, txs, receipts) ==
    LET fee == [i \in DOMAIN receipts |-> Fee(receipts[i])]
        classed(c) == {i \in DOMAIN txs : ClassifyTx(txs[i]) = c}
    IN [block |-> number, txCount |-> Len(txs),
        failed |-> Cardinality({i \in DOMAIN txs : ~receipts[i].ok}),
        counts |-> [c \in OpClasses |-> Cardinality(classed(c))],
        fees |-> [c \in OpClasses |-> SumOver(classed(c), fee)],
        feeTotal |-> SumOver(DOMAIN txs, fee)]

\* The refusals of parseBundle and the headers: what is left matches 1:1.
Matches(block, list) ==
    /\ block.baseFee # Absent
    /\ block.txs = <<>> \/ block.objects
    /\ Len(list) = Len(block.txs)
    /\ \A i \in DOMAIN block.txs :
        /\ block.txs[i].blockHash = block.hash
        /\ list[i].txHash = block.txs[i].hash
        /\ list[i].blockHash = block.hash
        /\ block.txs[i].index = i

ParseTx(t, number) == [block |-> number, index |-> t.index, hash |-> t.hash, from |-> t.from, to |-> t.to, input |-> t.input]
ParseReceipt(r, number) ==
    [block |-> number, index |-> r.index, txHash |-> r.txHash, ok |-> r.ok, gas |-> r.gas, fee |-> Fee(r), logsCount |-> Len(r.logs)]
ParseLogs(r, number, i) ==
    [k \in DOMAIN r.logs |->
        LET l == r.logs[k] IN
        [block |-> number, tx |-> i, index |-> l.index, address |-> l.address, topic |-> l.topic,
         from |-> l.from, to |-> l.to, value |-> l.value]]

\* A creation that failed has no contract address: the one it would have had.
CreatedAt(t, r) == IF r.contract # NoContract THEN r.contract ELSE <<t.from, t.nonce>>

ParseDeploy(t, r, number, i) ==
    [address |-> CreatedAt(t, r), deployer |-> t.from, txHash |-> t.hash, block |-> number, index |-> i, success |-> r.ok]

(***************************************************************************)
(* payments                                                                *)
(***************************************************************************)
\* The slip of any transfer of the payer, whoever's log it is.
AnyTransfer(a, t) == t.tx = a.tx /\ t.index > a.index /\ t.topic = "transfer" /\ t.from = a.from

\* Whether t is a transfer authorization a can have moved.
Transfers(a, t) ==
    /\ t.tx = a.tx /\ t.index > a.index /\ t.topic = "transfer"
    /\ t.address = a.address /\ t.from = a.from

\* Authorization a takes the first of its transfers that none before it took.
Take(acc, logs, a) ==
    LET free == {k \in DOMAIN logs : Transfers(a, logs[k])} \ acc.taken
        t == Min(free)
    IN IF a.topic # "authorization" \/ free = {} THEN acc
       ELSE [taken |-> acc.taken \cup {t},
             found |-> acc.found \cup
                 {[block |-> a.block, logIndex |-> a.index, tx |-> a.tx, token |-> a.address, payer |-> a.from,
                   payee |-> logs[t].to, amount |-> logs[t].value, nonce |-> a.to, relayer |-> Absent, called |-> Absent]}]

\* The payments of a block's logs, each authorization in its turn.
PairAuthorizations(logs) ==
    LET after[k \in 0 .. Len(logs)] ==
            IF k = 0 THEN [taken |-> {}, found |-> {}] ELSE Take(after[k - 1], logs, logs[k])
    IN after[Len(logs)].found

DirectPaymentsInBlock(txs, logs) ==
    {[p EXCEPT !.relayer = txs[p.tx].from, !.called = txs[p.tx].to] : p \in PairAuthorizations(logs)}

\* parseBundle, once the answer matches.
ParseBundle(block, list) ==
    LET n == block.number
        txs == [i \in DOMAIN block.txs |-> ParseTx(block.txs[i], n)]
        logs == FlattenSeq([i \in DOMAIN list |-> ParseLogs(list[i], n, i)])
    IN [block |-> [number |-> n, hash |-> block.hash, txCount |-> Len(block.txs)],
        stats |-> ComputeStats(n, txs, list),
        transactions |-> ToSet(txs),
        receipts |-> {ParseReceipt(list[i], n) : i \in DOMAIN list},
        logs |-> ToSet(logs),
        deploys |-> {ParseDeploy(block.txs[i], list[i], n, i) : i \in {i \in DOMAIN txs : txs[i].to = Absent}},
        reverts |-> {txs[i].hash : i \in {i \in DOMAIN txs : ~list[i].ok}},
        payments |-> DirectPaymentsInBlock(txs, logs)]

(***************************************************************************)
(* fetch and write                                                         *)
(***************************************************************************)
\* What fetchBlocks returns for n, by name or "ok".
FetchOutcome(n, block, receipts) ==
    CASE block.is = "error" -> "block error"
      [] receipts.is = "error" -> "receipts error"
      [] block.is = Absent -> "not available"
      [] receipts.is = Absent -> "no list"
      [] ~Matches(block, receipts.list) -> "refused"
      [] block.number # n -> "another block"
      [] OTHER -> "ok"

\* writeBundle: a block already there is left as it is; a light one brings no
\* transactions, receipts, logs or reverts.
Written(t, bundle, mode) ==
    IF \E b \in t.blocks : b.number = bundle.block.number THEN t
    ELSE LET full(rows) == IF mode = "light" THEN {} ELSE rows IN
         [blocks |-> t.blocks \cup {bundle.block}, stats |-> t.stats \cup {bundle.stats},
          deploys |-> t.deploys \cup bundle.deploys, payments |-> t.payments \cup bundle.payments,
          transactions |-> t.transactions \cup full(bundle.transactions),
          receipts |-> t.receipts \cup full(bundle.receipts),
          logs |-> t.logs \cup full(bundle.logs), reverts |-> t.reverts \cup full(bundle.reverts)]

\* Block n is asked for and answered; it is written when the answer holds.
ReadsBlock(n, mode) ==
    \E block \in BlockAnswers(n), receipts \in ReceiptAnswers(n) :
        /\ FetchOutcome(n, block, receipts) = "ok"
        /\ tables' = Written(tables, ParseBundle(block, receipts.list), mode)
        /\ UNCHANGED truth

ReadingNext == \E n \in Asked, mode \in {"light", "full"} : ReadsBlock(n, mode)

ReadingSpec == ReadingInit /\ [][ReadingNext]_readingVars

(***************************************************************************)
(* Properties                                                              *)
(***************************************************************************)
ReadingTypeOK ==
    /\ truth \in [Asked -> Contents]
    /\ DOMAIN tables = DOMAIN NoRows /\ \A k \in DOMAIN tables : IsFiniteSet(tables[k])

\* What really happened in block b.
Did(b, c) == {i \in DOMAIN truth[b] : truth[b][i].did = c}
TrueFees(b, S) == SumOver(S, [i \in DOMAIN truth[b] |-> truth[b][i].gas * truth[b][i].price])
Paid(b) ==
    UNION {{[block |-> b, tx |-> i, token |-> d.token, payer |-> d.payer, payee |-> d.payee, amount |-> d.amount,
             nonce |-> d.nonce, relayer |-> truth[b][i].from, called |-> Called(truth[b][i])] :
               d \in {d \in ToSet(truth[b][i].deeds) : d.does \in {"pay", "authorize"}}} :
           i \in {i \in DOMAIN truth[b] : truth[b][i].ok}}

\* The counts and fees by kind of operation are those of the transactions.
StatsTrue ==
    \A s \in tables.stats : LET b == s.block IN
        /\ s.txCount = Len(truth[b]) /\ s.feeTotal = TrueFees(b, DOMAIN truth[b])
        /\ s.failed = Cardinality({i \in DOMAIN truth[b] : ~truth[b][i].ok})
        /\ \A c \in OpClasses : s.counts[c] = Cardinality(Did(b, c)) /\ s.fees[c] = TrueFees(b, Did(b, c))

\* Every payment by authorization once, to whom and for how much it was.
PaymentsTrue ==
    /\ {[k \in DOMAIN p \ {"logIndex"} |-> p[k]] : p \in tables.payments} = UNION {Paid(b.number) : b \in tables.blocks}
    /\ \A p, q \in tables.payments : p.block = q.block /\ p.logIndex = q.logIndex => p = q

DeploysTrue ==
    {[block |-> d.block, index |-> d.index, address |-> d.address, success |-> d.success] : d \in tables.deploys} =
    UNION {{[block |-> b.number, index |-> i, address |-> <<truth[b.number][i].from, truth[b.number][i].nonce>>,
             success |-> truth[b.number][i].ok] : i \in Did(b.number, "deploy")} : b \in tables.blocks}

\* A block's details are all there or none is (light mode), and belong to it.
DetailsWhole ==
    \A b \in {b.number : b \in tables.blocks} :
        LET of(rows) == {r \in rows : r.block = b}
            none == of(tables.transactions) = {}
        IN /\ none \/ {<<t.index, t.hash>> : t \in of(tables.transactions)} = {<<i, <<b, i>>>> : i \in DOMAIN truth[b]}
           /\ {<<r.index, r.txHash, r.ok, r.logsCount>> : r \in of(tables.receipts)} =
              {<<t.index, t.hash, truth[b][t.index].ok, Len(LogsOfTx(truth[b][t.index]))>> : t \in of(tables.transactions)}
           /\ Cardinality(of(tables.logs)) = IF none THEN 0 ELSE LogsBefore(b, Len(truth[b]) + 1)
           /\ {i \in DOMAIN truth[b] : <<b, i>> \in tables.reverts} = {i \in DOMAIN truth[b] : ~none /\ ~truth[b][i].ok}

\* Whatever an endpoint mixes up, cuts or leaves out in its answer, the rows
\* kept of a block say what happened in it: its operations and fees, each of
\* its payments once, its contracts, and all of its details or none
\* (parse.ts, fetch.ts, payments.ts, write.ts).
RowsTellTheTruth == StatsTrue /\ PaymentsTrue /\ DeploysTrue /\ DetailsWhole
================================================================================
