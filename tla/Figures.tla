-------------------------------- MODULE Figures --------------------------------
(***************************************************************************)
(* What the API tells of what was collected and sold (packages/api:        *)
(* queries, direct-payments): the totals kept in memory beside a recount,  *)
(* the fees and failures by operation, the direct payments, and the        *)
(* settlements with our own wallets told apart from customers.             *)
(***************************************************************************)
EXTENDS BlockReading

CONSTANTS
    Readers,         \* requests for the totals under way at once
    MaxRecounts,     \* bound: counts of the whole table
    WindowBlocks,    \* blocks of the fee and activity windows
    Buys,            \* sets of purchases that may happen: who, wallet, rail, ends
    OwnPayers,       \* our wallets, as configured (OWN_PAYERS)
    Markets,         \* sets of trades and token events that may have been seen
    Hour, Day,       \* windows, in ticks of the clock
    MaxTicks,        \* bound: how far the clock goes
    NamedSellers     \* addresses a public source names as a seller

Wallet == [kind : {"evm", "solana", "none"}, name : STRING, written : {"mixed", "lower"}]
SameWallet(v, w) == v.kind = w.kind /\ v.name = w.name

\* A customer is no agent of ours and has none of our wallets.
IsCustomer(b, book) ==
    /\ b.agent = "none"
    /\ \A w \in OwnPayers \cup {c.wallet : c \in {c \in book : ~c.customer}} : ~SameWallet(b.wallet, w)

\* Each purchase has an id of its own and is paid from a wallet; over Lightning
\* it names none, and is recorded only once it is settled.
IsBook(book) ==
    /\ \A a, b \in book : a.id = b.id => a = b
    /\ \A b \in book :
        /\ b.id # "none" /\ b.wallet \in Wallet /\ b.ends \in {"settled", "failed", "not_charged"}
        /\ IF b.rail = "lightning" THEN b.ends = "settled" ELSE b.wallet.kind # "none"
        /\ b.customer => IsCustomer(b, book)

\* A trade priced, or tokens burned or paid out, and when.
IsSighting(r) ==
    /\ r.kind \in {"trade", "burn", "payout"} /\ {r.at, r.base, r.usdc} \subseteq Nat
    /\ r.kind = "trade" => r.base > 0

ASSUME FiguresAssumption ==
    /\ IsFiniteSet(Readers) /\ Readers # {}
    /\ MaxRecounts \in Nat /\ WindowBlocks \in Nat \ {0}
    /\ Hour \in Nat \ {0} /\ Day \in Nat /\ MaxTicks \in Nat
    /\ OwnPayers \subseteq Wallet /\ \A book \in Buys : IsBook(book)
    /\ \A m \in Markets : IsFiniteSet(m) /\ \A r \in m : IsSighting(r)

VARIABLES
    totals,          \* blocks, txs, upTo, generation; whole: what the recount saw (history)
    recounting,      \* the recount under way
    reader,          \* each request for the totals
    buys,            \* the purchases of this run
    ledgerRows,      \* rail_payments
    settlements,     \* the table of that name
    seenRows,        \* fx_trades and token_events
    clock

totalsVars == <<totals, recounting, reader>>
salesVars == <<ledgerRows, settlements>>
marketRows == <<seenRows, clock>>
figuresVars == <<truth, tables, totals, recounting, reader, buys, ledgerRows, settlements, seenRows, clock>>

Nobody == [at |-> "idle", generation |-> 0, above |-> 0, seen |-> {}]

FiguresInit ==
    /\ ReadingInit
    /\ totals = [blocks |-> 0, txs |-> 0, upTo |-> 0, generation |-> 0, whole |-> {}]
    /\ recounting = [at |-> "idle", seen |-> {}]
    /\ reader = [r \in Readers |-> Nobody]
    /\ buys \in Buys
    /\ ledgerRows = {} /\ settlements = {}
    /\ seenRows \in Markets /\ clock = 0

(***************************************************************************)
(* blockTotals and recount.  A generation of 0 is "never counted".         *)
(***************************************************************************)
StoredAbove(n) == {b \in tables.blocks : b.number > n}
TxsOf(blocks) == SumFunction([b \in blocks |-> b.txCount])
Newest(blocks, otherwise) == IF blocks = {} THEN otherwise ELSE CHOOSE n \in {b.number : b \in blocks} : \A b \in blocks : b.number <= n

\* A request: the first one waits for a count of everything; ten minutes after
\* one, a request starts the next and does not wait.
AsksTotals(r) ==
    /\ reader[r].at = "idle"
    /\ LET starts == recounting.at = "idle" /\ totals.generation < MaxRecounts IN
       \/ /\ totals.generation = 0 /\ (starts \/ recounting.at # "idle")
          /\ recounting' = IF starts THEN [at |-> "asked", seen |-> {}] ELSE recounting
          /\ reader' = [reader EXCEPT ![r] = [Nobody EXCEPT !.at = "waits"]]
       \/ /\ totals.generation > 0
          /\ recounting' \in {recounting} \cup {[at |-> "asked", seen |-> {}] : d \in {TRUE} \cap {starts}}
          /\ reader' = [reader EXCEPT ![r] = [at |-> "asked", generation |-> totals.generation, above |-> totals.upTo, seen |-> {}]]
    /\ UNCHANGED <<totals, truth, tables, buys, salesVars, marketRows>>

\* The database counts, as the table is at that moment.
RecountReads ==
    /\ recounting.at = "asked"
    /\ recounting' = [at |-> "read", seen |-> tables.blocks]
    /\ UNCHANGED <<totals, reader, truth, tables, buys, salesVars, marketRows>>

\* The count arrives, and those who waited for it go on.
RecountEnds ==
    /\ recounting.at = "read"
    /\ totals' = [blocks |-> Cardinality(recounting.seen), txs |-> TxsOf(recounting.seen), upTo |-> Newest(recounting.seen, 0),
                  generation |-> totals.generation + 1, whole |-> {b.number : b \in recounting.seen}]
    /\ recounting' = [at |-> "idle", seen |-> {}]
    /\ reader' = [r \in Readers |-> IF reader[r].at # "waits" THEN reader[r]
                                    ELSE [at |-> "asked", generation |-> totals'.generation, above |-> totals'.upTo, seen |-> {}]]
    /\ UNCHANGED <<truth, tables, buys, salesVars, marketRows>>

\* It times out: who waited is answered with the error.
RecountFails ==
    /\ recounting.at # "idle"
    /\ recounting' = [at |-> "idle", seen |-> {}]
    /\ reader' = [r \in Readers |-> IF reader[r].at = "waits" THEN Nobody ELSE reader[r]]
    /\ UNCHANGED <<totals, truth, tables, buys, salesVars, marketRows>>

\* The blocks above the last one counted, as the table is at that moment.
TotalsRead(r) ==
    /\ reader[r].at = "asked"
    /\ reader' = [reader EXCEPT ![r].at = "read", ![r].seen = StoredAbove(reader[r].above)]
    /\ UNCHANGED <<totals, recounting, truth, tables, buys, salesVars, marketRows>>

\* The slip of adding them whatever was counted in between.
AddedAnyway(r) ==
    [totals EXCEPT !.blocks = @ + Cardinality(reader[r].seen), !.txs = @ + TxsOf(reader[r].seen),
                   !.upTo = IF Newest(reader[r].seen, 0) > @ THEN Newest(reader[r].seen, 0) ELSE @]

\* They are added, unless a recount that ended meanwhile has them already.
Added(r) ==
    IF reader[r].generation # totals.generation THEN totals
    ELSE [totals EXCEPT !.blocks = @ + Cardinality(reader[r].seen), !.txs = @ + TxsOf(reader[r].seen),
                        !.upTo = IF Newest(reader[r].seen, 0) > @ THEN Newest(reader[r].seen, 0) ELSE @]

TotalsTold(r) ==
    /\ reader[r].at = "read"
    /\ totals' = Added(r)
    /\ reader' = [reader EXCEPT ![r] = Nobody]
    /\ UNCHANGED <<recounting, truth, tables, buys, salesVars, marketRows>>

TotalsStep(r) == AsksTotals(r) \/ TotalsRead(r) \/ TotalsTold(r)

(***************************************************************************)
(* feeSummary, activity and the direct payments, from the stored rows.     *)
(***************************************************************************)
InWindow == {s \in tables.stats : s.block > Newest(tables.blocks, 0) - WindowBlocks}

\* One line for each operation seen; failures are put to the contract calls.
ByOperation ==
    LET count(c) == SumFunction([s \in InWindow |-> s.counts[c]])
        fees(c) == SumFunction([s \in InWindow |-> s.fees[c]])
    IN {[op |-> c, count |-> count(c), avgFee |-> fees(c) \div count(c),
         failed |-> IF c = "contract_call" THEN SumFunction([s \in InWindow |-> s.failed]) ELSE 0] :
            c \in {c \in OpClasses : count(c) > 0}}

Activity == [txCount |-> SumFunction([s \in InWindow |-> s.txCount]), failed |-> SumFunction([s \in InWindow |-> s.failed])]

DirectTally(rows) ==
    [payments |-> Cardinality(rows), payers |-> Cardinality({p.payer : p \in rows}), payees |-> Cardinality({p.payee : p \in rows}),
     relayers |-> Cardinality({p.relayer : p \in rows}), usdc |-> SumFunction([p \in rows |-> p.amount])]

InUsdc == {p \in tables.payments : p.token = "usdc"}

\* directPaymentsSummary: all of them, by payee (and whether it pays too), and
\* those in another token.
DirectPaymentsSummary ==
    [all |-> DirectTally(InUsdc),
     payees |-> {[address |-> a, of |-> DirectTally({p \in InUsdc : p.payee = a}), alsoPays |-> \E q \in InUsdc : q.payer = a] :
                    a \in {p.payee : p \in InUsdc}},
     otherTokens |-> Cardinality(tables.payments \ InUsdc)]

\* directServices: the payees a public source names as sellers.
DirectServices == {s \in DirectPaymentsSummary.payees : s.address \in NamedSellers}

(***************************************************************************)
(* A sale and its two records: ours in settlements, the agent's in its     *)
(* ledger when the buyer is one of our agents.                             *)
(***************************************************************************)
\* An address as written: an EVM one in any case, a Solana one in its own.
NoWallet == [kind |-> "none", name |-> "none", written |-> "lower"]
Lower(w) == [w EXCEPT !.written = "lower"]
CanonicalAddress(w) == IF w.kind = "evm" THEN Lower(w) ELSE w

RowOf(b) == {r \in ledgerRows : r.id = b.id}
Recorded(b) == \E s \in settlements : s.id = b.id

\* An agent of ours signs: the row of its payment, open.
AgentSigns(b) ==
    /\ b.agent # "none" /\ RowOf(b) = {}
    /\ ledgerRows' = ledgerRows \cup {[id |-> b.id, agent |-> b.agent, rail |-> b.rail, payer |-> NoWallet, tx |-> "none", status |-> "signed"]}
    /\ UNCHANGED <<settlements, buys, truth, tables, totalsVars, marketRows>>

\* The payment ended and is recorded; Lightning names no payer.
RecordsSettlement(b) ==
    /\ ~Recorded(b) /\ (b.agent # "none" => RowOf(b) # {})
    /\ settlements' = settlements \cup
          {[id |-> b.id, rail |-> b.rail, outcome |-> b.ends, amount |-> b.amount,
            payer |-> IF b.rail = "lightning" THEN NoWallet ELSE CanonicalAddress(b.wallet),
            tx |-> IF b.ends = "settled" THEN b.id ELSE "none"]}
    /\ UNCHANGED <<ledgerRows, buys, truth, tables, totalsVars, marketRows>>

\* Over Lightning no payer is named, nor when nothing was charged; a failure
\* may name one.
PayersNamed(b) ==
    IF b.rail = "lightning" \/ b.ends = "not_charged" THEN {NoWallet}
    ELSE {b.wallet} \cup {w \in {NoWallet} : b.ends = "failed"}

\* The agent hears how it ended, and closes its row.  (It may crash before.)
AgentCloses(b) ==
    \E r \in RowOf(b) :
        /\ r.status = "signed"
        /\ \E payer \in PayersNamed(b) :
             ledgerRows' = (ledgerRows \ {r}) \cup
                {[r EXCEPT !.status = IF b.ends = "not_charged" THEN "quoted" ELSE b.ends, !.payer = payer,
                           !.tx = IF b.ends = "settled" \/ b.rail = "lightning" THEN b.id ELSE @]}
        /\ UNCHANGED <<settlements, buys, truth, tables, totalsVars, marketRows>>

SalesStep == \E b \in buys : AgentSigns(b) \/ RecordsSettlement(b) \/ AgentCloses(b)

(***************************************************************************)
(* settlementsSummary and selftestSummary                                  *)
(***************************************************************************)
SelftestWallets == {Lower(r.payer) : r \in {r \in ledgerRows : r.agent = "selftest" /\ r.payer # NoWallet}}
Ours == SelftestWallets \cup {CanonicalAddress(w) : w \in OwnPayers}
OwnLightning == {r.tx : r \in {r \in ledgerRows : r.rail = "lightning" /\ r.tx # "none"}}

\* The slip of knowing our payments by their payer alone.
NotOurPayer(s) == s.payer = NoWallet \/ s.payer \notin Ours

External(s) ==
    /\ s.payer = NoWallet \/ s.payer \notin Ours
    /\ s.tx = "none" \/ s.tx \notin OwnLightning

Who(s) ==
    IF s.payer # NoWallet /\ s.payer \in SelftestWallets THEN "self-test"
    ELSE IF (s.payer # NoWallet /\ s.payer \in Ours) \/ (s.tx # "none" /\ s.tx \in OwnLightning) THEN "ours" ELSE "external"

Tally(rows) ==
    LET ended(o) == {s \in rows : s.outcome = o} IN
    [settled |-> Cardinality(ended("settled")), failed |-> Cardinality(ended("failed")), notCharged |-> Cardinality(ended("not_charged")),
     volume |-> SumFunction([s \in ended("settled") |-> s.amount]),
     payers |-> Cardinality({s.payer : s \in ended("settled")} \ {NoWallet})]

SettlementsSummary == [all |-> Tally(settlements), external |-> Tally({s \in settlements : External(s)})]

SelftestSummary ==
    LET runs == {r \in ledgerRows : r.agent = "selftest"}
        ok == {r \in runs : r.status = "settled"}
    IN [runs |-> Cardinality(runs), ok |-> Cardinality(ok), failed |-> Cardinality(runs) - Cardinality(ok)]

(***************************************************************************)
(* fxSummary, marketPrices and tokenSummary, over rows with a time.        *)
(***************************************************************************)
Within(rows, from, to) == {r \in rows : from <= r.at /\ r.at <= to}
SoFar == {r \in seenRows : r.at <= clock}
Trades == {r \in SoFar : r.kind = "trade"}
BaseOf(rows) == SumFunction([r \in rows |-> r.base])
UsdcOf(rows) == SumFunction([r \in rows |-> r.usdc])

\* A rate as a fraction; <<0, 0>> when nothing was traded.
Vwap(rows) == <<UsdcOf(rows), BaseOf(rows)>>

Bucket(t) == CASE t.usdc < 100 -> "<100" [] t.usdc \in 100 .. 999 -> "100-1k" [] t.usdc \in 1000 .. 9999 -> "1k-10k" [] OTHER -> "10k+"

\* The rows of the window, grouped, each with its count and its rate.
Grouped(rows, key) == {[key |-> k, trades |-> Cardinality({r \in rows : key[r] = k}), vwap |-> Vwap({r \in rows : key[r] = k}),
                        usdc |-> UsdcOf({r \in rows : key[r] = k})] : k \in {key[r] : r \in rows}}

FxSummary(window) ==
    LET rows == {t \in Trades : t.at > clock - window} IN
    [last |-> {t \in Trades : \A u \in Trades : u.at <= t.at},
     trades |-> Cardinality(rows), vwap |-> Vwap(rows), base |-> BaseOf(rows), usdc |-> UsdcOf(rows),
     min |-> {t \in rows : \A u \in rows : t.usdc * u.base <= u.usdc * t.base},
     max |-> {t \in rows : \A u \in rows : t.usdc * u.base >= u.usdc * t.base},
     bySize |-> Grouped(rows, [t \in rows |-> Bucket(t)]),
     venues |-> Grouped(rows, [t \in rows |-> t.venue]),
     series |-> Grouped(rows, [t \in rows |-> t.at])]

\* The hour a day earlier, its rates weighted by the USDC.
DayAgo ==
    LET rows == Within(Trades, clock - Day - Hour, clock - Day) IN
    <<SumFunction([t \in rows |-> (t.usdc * t.usdc) \div t.base]), UsdcOf(rows)>>

\* change24hPct: the hour's rate against that one, as the sign of the change;
\* nothing without both.
Change ==
    LET now == FxSummary(Hour).vwap IN
    IF now[2] = 0 \/ DayAgo[1] = 0 THEN {}
    ELSE LET more == now[1] * DayAgo[2] - DayAgo[1] * now[2] IN {IF more > 0 THEN 1 ELSE IF more < 0 THEN -1 ELSE 0}

\* tokenSummary: what was burned and paid out, in all, in a day, by the hour.
TokenSummary ==
    LET of(kind, rows) == SumFunction([r \in {r \in rows : r.kind = kind} |-> r.base])
        events == SoFar \ Trades
        day == {r \in events : r.at > clock - Day}
        charted == {r \in events : r.at > clock - 3 * Day}
        paid == {r \in events : r.kind = "payout"}
    IN [burned |-> of("burn", events), burnedToday |-> of("burn", day), payouts |-> of("payout", events), payoutsToday |-> of("payout", day),
        recipients |-> Cardinality({r.venue : r \in paid}),
        perHour |-> [h \in {r.at : r \in charted} |-> of("burn", {r \in charted : r.at = h}) + of("payout", {r \in charted : r.at = h})]]

\* Time goes on, and the windows with it.
ClockTicks ==
    /\ clock < MaxTicks /\ seenRows # {}
    /\ clock' = clock + 1
    /\ UNCHANGED <<seenRows, buys, truth, tables, totalsVars, salesVars>>

TotalsNext ==
    \/ (\E n \in Asked : ReadsBlock(n, "light")) /\ UNCHANGED <<buys, totalsVars, salesVars, marketRows>>
    \/ (\E r \in Readers : TotalsStep(r))
    \/ RecountReads \/ RecountEnds \/ RecountFails

FiguresNext == TotalsNext \/ SalesStep \/ ClockTicks

FiguresSpec == FiguresInit /\ [][FiguresNext]_figuresVars

(***************************************************************************)
(* Properties                                                              *)
(***************************************************************************)
FiguresTypeOK ==
    /\ totals \in [blocks : Nat, txs : Nat, upTo : Asked \cup {0}, generation : 0 .. MaxRecounts, whole : SUBSET Asked]
    /\ recounting.at \in {"idle", "asked", "read"} /\ recounting.seen \subseteq tables.blocks
    /\ \A r \in Readers : reader[r].at \in {"idle", "waits", "asked", "read"} /\ reader[r].seen \subseteq tables.blocks
    /\ {s.id : s \in settlements} \cup {r.id : r \in ledgerRows} \subseteq {b.id : b \in buys}

\* The totals hold every block the last count of the table saw, and no block it
\* saw twice, however it fell among the requests; one stored since is counted
\* at most once by each request under way (queries.ts, recount and blockTotals).
TotalsHonest ==
    LET newer == {b \in tables.blocks : \A n \in totals.whole : b.number > n}
        of(blocks) == [blocks |-> Cardinality(blocks), txs |-> TxsOf(blocks)]
        whole == of({b \in tables.blocks : b.number \in totals.whole})
    IN \A k \in {"blocks", "txs"} :
        /\ whole[k] <= totals[k]
        /\ totals[k] <= whole[k] + Cardinality(Readers) * of(newer)[k]

\* Each stored block in the window is told in full, by operation and in all,
\* and each stored payment once (queries.ts, feeSummary and activity;
\* direct-payments.ts).
FiguresTrue ==
    LET window == {b \in {b.number : b \in tables.blocks} : \A c \in {c.number : c \in tables.blocks} : b > c - WindowBlocks}
        did(c) == SumFunction([b \in window |-> Cardinality(Did(b, c))])
        paid == UNION {Paid(b.number) : b \in tables.blocks}
    IN /\ \A c \in OpClasses : {o.count : o \in {o \in ByOperation : o.op = c}} = {did(c)} \ {0}
       /\ Activity.txCount = SumFunction([b \in window |-> Len(truth[b])])
       /\ DirectPaymentsSummary.all.payments + DirectPaymentsSummary.otherTokens = Cardinality(paid)
       /\ SumFunction([s \in DirectPaymentsSummary.payees |-> s.of.usdc]) = DirectPaymentsSummary.all.usdc
       /\ \A s \in DirectServices : s.of.payments = Cardinality({p \in paid : p.payee = s.address /\ p.token = "usdc"})

\* Whether our side knows, by now, that purchase b is its own: its wallet is
\* configured, or a settled self-test named it, or its Lightning row is closed.
KnownAsOurs(b) ==
    IF b.rail = "lightning" THEN \E r \in RowOf(b) : r.tx = b.id
    ELSE \/ \E w \in OwnPayers : CanonicalAddress(w) = CanonicalAddress(b.wallet)
         \/ b.wallet.kind = "evm" /\ \E r \in ledgerRows : r.agent = "selftest" /\ r.payer = b.wallet

\* A customer is never taken for one of us, whatever else is bought; a purchase
\* of ours counts as a customer's only until it is known as ours; and the rows
\* shown say what the figures count (queries.ts, settlementsSummary).
CustomersToldApart ==
    \A s \in settlements : \A b \in {b \in buys : b.id = s.id} :
        /\ b.customer => External(s)
        /\ ~b.customer /\ KnownAsOurs(b) => ~External(s)
        /\ External(s) <=> Who(s) = "external"

\* The rate told lies between those of its trades and agrees with the volumes
\* told beside it, which the groups share out whole, and a price that was the same on every trade of its hour is told as
\* it was and moved as it moved; what was burned and paid is told once
\* (queries.ts, fxSummary, marketPrices, tokenSummary).
PricesTrue ==
    LET fx == FxSummary(Hour)
        rated(rows, rate) == \A t \in rows : t.usdc = rate * t.base
        earlier == Within(Trades, clock - Day - Hour, clock - Day)
        lately == {t \in Trades : t.at > clock - Hour}
        summed(groups) == SumFunction([g \in groups |-> g.usdc])
    IN /\ fx.vwap[1] * fx.base = fx.usdc * fx.vwap[2]
       /\ \A t \in fx.min : t.usdc * fx.vwap[2] <= fx.vwap[1] * t.base
       /\ \A t \in fx.max : t.usdc * fx.vwap[2] >= fx.vwap[1] * t.base
       /\ summed(fx.bySize) = fx.usdc /\ summed(fx.venues) = fx.usdc /\ summed(fx.series) = fx.usdc
       /\ \A a, b \in {1, 2} : rated(lately, a) /\ rated(earlier, b) =>
            Change = IF lately = {} \/ earlier = {} THEN {} ELSE {a - b}
       /\ LET t == TokenSummary IN
          /\ t.burnedToday <= t.burned /\ t.payoutsToday <= t.payouts
          /\ SumFunction(t.perHour) \in (t.burnedToday + t.payoutsToday) .. (t.burned + t.payouts)

\* What is told agrees with what was stored, sold and traded.
FiguresHonest == TotalsHonest /\ FiguresTrue /\ CustomersToldApart /\ PricesTrue
================================================================================
