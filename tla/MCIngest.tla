------------------------------- MODULE MCIngest -------------------------------
(***************************************************************************)
(* Runs of what the collector stores and what is told of it: the           *)
(* ingestion of a small chain, the reading of blocks and of swaps, the     *)
(* reference price, and the figures.  `running' picks the part; the others *)
(* stay as they start.                                                     *)
(***************************************************************************)
EXTENDS Ingest, ReferencePrice, SwapReading, Figures

VARIABLE running

recordsVars == <<running, vars, referenceVars, swap, figuresVars>>

\* What a block may hold: transfers, creations, one of which pays, calls that
\* settle payments one by one, and one that authorizes two before it moves
\* either.
MCPay(does, token, from, to, amount, nonce) ==
    [does |-> does, token |-> token, payer |-> from, payee |-> to, amount |-> amount, nonce |-> nonce]
MCTx(did, from, to, input, ok, gas, deeds) ==
    [did |-> did, from |-> from, to |-> to, input |-> input, nonce |-> 7, ok |-> ok, gas |-> gas, price |-> 3, deeds |-> deeds]
MCFirst(does) == MCPay(does, "usdc", "ann", "shop", 5, "n1")
MCSecond(does) == MCPay(does, "usdc", "ann", "bob", 6, "n2")
MCPlain == <<MCTx("native_transfer", "ann", "bob", "other", TRUE, 2, <<>>),
             MCTx("erc20_transfer", "ann", "usdc", "other", FALSE, 4, <<MCFirst("pay")>>)>>
MCContents ==
    {<<>>, MCPlain,
     <<MCTx("deploy", "ann", "nobody", "transfer", FALSE, 2, <<>>), MCTx("deploy", "bob", "nobody", "short", TRUE, 3, <<MCPay("pay", "eurc", "bob", "shop", 4, "n5")>>)>>,
     <<MCTx("contract_call", "hub", "usdc", "other", TRUE, 2, <<MCSecond("move"), MCFirst("pay"), MCSecond("pay")>>),
       MCTx("contract_call", "hub", "eurc", "short", TRUE, 5, <<MCPay("pay", "eurc", "ann", "bob", 4, "n4")>>)>>,
     <<MCTx("contract_call", "hub", "batcher", "other", TRUE, 2,
            <<MCFirst("authorize"), MCSecond("authorize"), MCPay("pay", "usdc", "bob", "shop", 9, "n3"),
              MCFirst("transfer"), MCSecond("transfer")>>)>>}

\* One deal, or two in one receipt: by the same routers to another pool, or
\* beside it by the same or another trader; and one too small to price.
MCDeal == [side : {"sell", "buy"}, trader : {"ann"}, via : {<<>>, <<"r1">>, <<"r1", "r2">>}, venue : {"pool"}, base : {100}, usdc : {200},
           cut : {0, 2}, taxed : BOOLEAN, refunded : BOOLEAN, outFirst : BOOLEAN]
MCElsewhere(d) == [d EXCEPT !.venue = "other pool", !.usdc = 150]
MCDirect == {MCElsewhere([d EXCEPT !.trader = w]) :
                d \in {d \in MCDeal : d.via = <<>> /\ d.cut = 0 /\ ~d.taxed /\ ~d.refunded /\ ~d.outFirst}, w \in {"ann", "bob"}}
MCDeals == {<<d>> : d \in MCDeal} \cup (MCDeal \X MCDirect)
           \cup {<<d, MCElsewhere(d)>> : d \in {d \in MCDeal : d.via # <<>>}}
           \cup {<<[d EXCEPT !.base = 5, !.usdc = 9]>> : d \in MCDirect}

\* Purchases by our agents, by a wallet of ours, and by customers.
MCWallet(kind, name) == [kind |-> kind, name |-> name, written |-> "mixed"]
MCBuy(id, agent, rail, wallet, ends) ==
    [id |-> id, agent |-> agent, rail |-> rail, wallet |-> wallet, ends |-> ends, amount |-> 3, customer |-> wallet.name = "customer"]
MCBuys ==
    {{}, {MCBuy("b1", "selftest", "direct", MCWallet("evm", "test"), "settled"),
          MCBuy("b2", "selftest", "direct", MCWallet("evm", "test"), "failed"),
          MCBuy("b3", "buyer", "lightning", MCWallet("none", "node"), "settled"),
          MCBuy("b4", "none", "solana", MCWallet("solana", "own"), "not_charged"),
          MCBuy("b5", "none", "direct", MCWallet("evm", "customer"), "settled"),
          MCBuy("b6", "none", "lightning", MCWallet("none", "customer"), "settled")}}
MCOwnPayers == {MCWallet("solana", "own")}

\* Trades at either end of a day at one rate, or at several in one hour, and
\* what the token did meanwhile.
MCTrade(at, base, rate, venue) == [kind |-> "trade", at |-> at, base |-> base, usdc |-> base * rate, venue |-> venue]
MCEvent(kind, at, amount, to) == [kind |-> kind, at |-> at, base |-> amount, usdc |-> 0, venue |-> to]
MCMarkets ==
    SUBSET {MCTrade(0, 60, 1, "pool"), MCTrade(1, 600, 2, "pool"), MCTrade(4, 60, 1, "other"), MCTrade(4, 500, 2, "pool"),
            MCTrade(5, 40, 2, "other"), MCEvent("burn", 1, 7, "nobody"), MCEvent("payout", 4, 2, "holder")}

RecordsInit ==
    /\ running \in {"ingest", "reference", "swaps", "blocks", "totals", "sales", "market"}
    /\ Init /\ ReferenceInit /\ SwapInit
    /\ FiguresInit /\ (running # "blocks" => \A b \in Asked : truth[b] = MCPlain)
    /\ buys # {} <=> running = "sales"
    /\ seenRows # {} <=> running = "market"

RecordsNext ==
    /\ UNCHANGED running
    /\ \/ running = "ingest" /\ Next /\ UNCHANGED <<referenceVars, swap, figuresVars>>
       \/ running = "reference" /\ ReferenceNext /\ UNCHANGED <<vars, swap, figuresVars>>
       \/ running = "swaps" /\ SwapNext /\ UNCHANGED <<vars, referenceVars, figuresVars>>
       \/ running = "blocks" /\ ReadingNext /\ UNCHANGED <<vars, referenceVars, swap, buys, totalsVars, salesVars, marketRows>>
       \/ running = "totals" /\ TotalsNext /\ UNCHANGED <<vars, referenceVars, swap>>
       \/ running = "sales" /\ SalesStep /\ UNCHANGED <<vars, referenceVars, swap>>
       \/ running = "market" /\ ClockTicks /\ UNCHANGED <<vars, referenceVars, swap>>

\* The other parts stop when the input they are given is used up.
Rests == running # "ingest" /\ UNCHANGED recordsVars

RecordsSpec == RecordsInit /\ [][RecordsNext \/ Rests]_recordsVars

\* What a reader of the API is told holds: the price and the swaps it comes
\* from (reference.ts, fx.ts), and the figures (queries.ts): PriceHonest,
\* SwapTrue and FiguresHonest of the parts.
ToldHonestly ==
    CASE running = "reference" -> ReferenceTypeOK /\ PriceHonest
      [] running = "swaps" -> SwapTypeOK /\ SwapTrue
      [] running \in {"blocks", "totals", "sales", "market"} -> ReadingTypeOK /\ FiguresTypeOK /\ FiguresHonest
      [] OTHER -> TRUE
================================================================================
