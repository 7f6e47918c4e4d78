--------------------------- MODULE ReferencePrice ---------------------------
(***************************************************************************)
(* The running reference price of a pair and the price watcher that asks   *)
(* it (packages/collector/src/ingest/reference.ts, workers/fx.ts): the     *)
(* median of the last rates taken decides on the next one, and rates that  *)
(* agree with each other fix it when cold or when the market has moved.    *)
(* A range of the chain holds one trade; a range that fails after its      *)
(* trade was judged is read again, and its trade judged again.             *)
(***************************************************************************)
EXTENDS Integers, Sequences, FiniteSets

CONSTANTS
    Quotes,             \* the rates a parsed leg may have, in units of the model
    Deviation,          \* maxDeviation of the pair, in percent
    Window, Warmup,     \* rates remembered (25); rates that fix a price (8)
    MaxReread           \* bound on the ranges that fail and are read again

ASSUME ReferenceAssumption ==
    /\ Quotes \subseteq Nat \ {0} /\ Quotes # {}
    /\ Deviation \in Nat /\ Window \in Nat \ {0}
    /\ Warmup \in Nat \ {0}
    /\ MaxReread \in Nat

VARIABLES
    rates, booting, pending,   \* of the ReferencePrice
    fxTrades,    \* table fx_trades: the last rates recorded
    market,      \* the last trades of the market this process judged
    rereads

referenceVars == <<rates, booting, pending, fxTrades, market, rereads>>

UpTo(n) == UNION {[1..k -> Quotes] : k \in 0..n}

Seen == [rate : Quotes, warm : BOOLEAN, taken : BOOLEAN, far : BOOLEAN]

ReferenceTypeOK ==
    /\ rates \in UpTo(Window) /\ fxTrades \in UpTo(Window)
    /\ Len(booting) < Warmup \/ rates = <<>>
    /\ Len(pending) < Warmup
    /\ Len(market) <= Warmup /\ \A i \in DOMAIN market : market[i] \in Seen
    /\ rereads \in 0..MaxReread

ReferenceInit ==
    /\ rates = <<>> /\ booting = <<>> /\ pending = <<>>
    /\ fxTrades = <<>> /\ market = <<>>
    /\ rereads = 0

-----------------------------------------------------------------------------

LastOf(s, n) == IF Len(s) <= n THEN s ELSE SubSeq(s, Len(s) - n + 1, Len(s))

\* The k-th smallest of s.
Kth(s, k) ==
    CHOOSE v \in {s[i] : i \in DOMAIN s} :
        /\ Cardinality({i \in DOMAIN s : s[i] < v}) < k
        /\ k <= Cardinality({i \in DOMAIN s : s[i] <= v})

\* medianOf, doubled.
TwiceMedian(s) == Kth(s, (Len(s) + 1) \div 2) + Kth(s, Len(s) \div 2 + 1)

\* Is r within the deviation of the median of s?
Near(r, s) ==
    LET m == TwiceMedian(s)
        d == IF 2 * r < m THEN m - 2 * r ELSE 2 * r - m
    IN 100 * d <= Deviation * m

\* Do these rates agree with each other?
Agree(s) == 100 * (Kth(s, Len(s)) - Kth(s, 1)) <= 3 * Deviation * Kth(s, 1)

\* Slip: a rejected rate is forgotten, and the reference stays where it was.
RejectedForgotten(r) == <<>>

\* The rates rejected in a row, with r.
Rejected(r) == Append(pending, r)

\* The rates of s near its median, in their order.
InLine(s) ==
    LET upTo[k \in 0 .. Len(s)] ==
            IF k = 0 THEN <<>> ELSE IF Near(s[k], s) THEN Append(upTo[k - 1], s[k]) ELSE upTo[k - 1]
    IN upTo[Len(s)]

\* What the next rate does to a cold reference ...
ColdStart(r) ==
    LET b == Append(booting, r)
        kept == InLine(b)
    IN IF Len(b) < Warmup
       THEN [ok |-> FALSE, rates |-> <<>>, booting |-> b, pending |-> pending]
       ELSE [ok |-> FALSE, rates |-> LastOf(kept, Window), pending |-> pending,
             booting |-> IF kept = <<>> THEN Tail(b) ELSE <<>>]

\* ... and to a warm one.
Accept(r) ==
    LET p == Rejected(r) IN
    IF rates = <<>> THEN ColdStart(r)
    ELSE IF Near(r, rates)
    THEN [ok |-> TRUE, rates |-> LastOf(Append(rates, r), Window), booting |-> booting, pending |-> <<>>]
    ELSE IF Len(p) < Warmup
    THEN [ok |-> FALSE, rates |-> rates, booting |-> booting, pending |-> p]
    ELSE IF Agree(p)
    THEN [ok |-> TRUE, rates |-> LastOf(p, Window), booting |-> booting, pending |-> <<>>]
    ELSE [ok |-> FALSE, rates |-> rates, booting |-> booting, pending |-> Tail(p)]

Judge(r) ==
    LET a == Accept(r) IN
    /\ rates' = a.rates /\ booting' = a.booting /\ pending' = a.pending

Judged(r) == [rate |-> r, warm |-> rates # <<>>, taken |-> Accept(r).ok,
              far |-> Accept(r).ok /\ ~Near(r, rates)]

\* The next trade of the market is judged, and recorded when it is taken.
Trade(r) ==
    /\ Judge(r)
    /\ market' = LastOf(Append(market, Judged(r)), Warmup)
    /\ fxTrades' = IF Accept(r).ok THEN LastOf(Append(fxTrades, r), Window) ELSE fxTrades
    /\ UNCHANGED rereads

\* The range failed after that, at the next pair or at the cursor:
\* it is read again.  The row of a trade is written once.
Reread ==
    LET n == Len(market)
        t == market[n]
        again == [t EXCEPT !.taken = @ \/ Accept(t.rate).ok, !.far = @ \/ Judged(t.rate).far]
    IN
    /\ n > 0 /\ rereads < MaxReread /\ rereads' = rereads + 1
    /\ Judge(t.rate)
    /\ market' = [market EXCEPT ![n] = again]
    /\ fxTrades' = IF Accept(t.rate).ok /\ ~t.taken THEN LastOf(Append(fxTrades, t.rate), Window) ELSE fxTrades

\* The process starts again: the reference is seeded from the rows recorded.
Reseed ==
    /\ fxTrades # <<>> \/ market # <<>>
    /\ rates' = fxTrades /\ booting' = <<>> /\ pending' = <<>> /\ market' = <<>>
    /\ UNCHANGED <<fxTrades, rereads>>

ReferenceNext == (\E r \in Quotes : Trade(r)) \/ Reread \/ Reseed

ReferenceSpec == ReferenceInit /\ [][ReferenceNext]_referenceVars

-----------------------------------------------------------------------------
(* Properties *)

MarketRates == [i \in DOMAIN market |-> market[i].rate]

FullRow == Len(market) = Warmup /\ \A i \in DOMAIN market : market[i].warm

\* "A price can also move faster than the reference follows, and then ... the
\* reference would stay where it was for good" (reference.ts): of as many trades
\* in a row as fix a price, if they agree, one was taken.
MarketFollowed ==
    FullRow /\ Agree(MarketRates) => \E i \in DOMAIN market : market[i].taken

Overtaken == \E i \in DOMAIN market : i = Len(market) /\ market[i].far

\* "Scattered nonsense never agrees with itself, so it never takes over"
\* (reference.ts): a trade far from the running price is taken only as the last
\* of enough trades of the market that agree.
NoiseNeverTakesOver == Overtaken => Len(market) = Warmup /\ Agree(MarketRates)

\* As long as no range is judged twice, that is so.
PriceHonest == MarketFollowed /\ (rereads = 0 => NoiseNeverTakesOver)
=============================================================================
