------------------------------ MODULE SwapReading ------------------------------
(***************************************************************************)
(* The swap of a token for USDC that the logs of one receipt show          *)
(* (collector: ingest/fx).  A receipt here carries deals; the transfers    *)
(* they emit, with hops, taxes and refunds, follow from them.              *)
(***************************************************************************)
EXTENDS Integers, SequencesExt

CONSTANTS
    Deals,                              \* sequences of deals one transaction may carry
    MinBase, MinUsdc, MinRate, MaxRate  \* PairRules

ASSUME SwapAssumption == {MinBase, MinUsdc, MinRate, MaxRate} \subseteq Nat

Usdc == "usdc"
Base == "base"

VARIABLE
    swap             \* the receipt read last, and the trade made of it if any

SwapInit == swap = [deals |-> <<>>, trade |-> {}]

(***************************************************************************)
(* What a deal emits (external): the base and the USDC go hop by hop       *)
(* between the trader and the venue; the first router keeps `cut' of the   *)
(* USDC; a token with a tax splits its first move; a router may be given   *)
(* too much and hand it back.                                              *)
(***************************************************************************)
Move(token, from, to, value) == [token |-> token, from |-> from, to |-> to, value |-> value]

Route(d) == <<d.trader>> \o d.via \o <<d.venue>>
\* USDC on hop h (between Route[h] and Route[h + 1]): the first router keeps its cut.
UsdcOn(d, h) == IF d.via = <<>> \/ (h = 1) = (d.side = "buy") THEN d.usdc ELSE d.usdc - d.cut

Hops(d) == 1 .. Len(d.via) + 1

BaseMoves(d) ==
    LET r == Route(d)
        hop(h) == IF d.side = "sell" THEN Move(Base, r[h], r[h + 1], d.base) ELSE Move(Base, r[h + 1], r[h], d.base)
        split(m) == <<[m EXCEPT !.value = 1], [m EXCEPT !.value = @ - 1]>>
    IN FlattenSeq([h \in Hops(d) |-> IF d.taxed /\ h = 1 THEN split(hop(h)) ELSE <<hop(h)>>])

UsdcMoves(d) ==
    LET r == Route(d)
        paid(h) == IF d.side = "sell" THEN Move(Usdc, r[h + 1], r[h], UsdcOn(d, h)) ELSE Move(Usdc, r[h], r[h + 1], UsdcOn(d, h))
        more(m) == <<[m EXCEPT !.value = @ + 3], Move(m.token, m.to, m.from, 3)>>
    IN FlattenSeq([h \in Hops(d) |-> IF d.refunded /\ h = 1 THEN more(paid(h)) ELSE <<paid(h)>>])

\* Beside it: a move to oneself, an empty one, one of another token.
Noise(d) == <<Move(Base, d.trader, d.trader, 50), Move(Usdc, d.venue, d.trader, 0), Move("other", d.trader, d.venue, 70)>>

\* What is paid in is logged first, unless the venue pays out first.
MovesOf(d) ==
    Noise(d) \o IF (d.side = "sell") # d.outFirst THEN BaseMoves(d) \o UsdcMoves(d) ELSE UsdcMoves(d) \o BaseMoves(d)
MovesOfAll(deals) == FlattenSeq([k \in DOMAIN deals |-> MovesOf(deals[k])])

(***************************************************************************)
(* fx                                                                      *)
(***************************************************************************)
Counted(m) == m.token \in {Base, Usdc} /\ m.from # m.to /\ m.value # 0

\* What a sent b of the token, less what b sent a.
NetFlow(moves, token, a, b) ==
    LET of(k) == IF moves[k].token # token THEN 0
                 ELSE IF moves[k].from = a /\ moves[k].to = b THEN moves[k].value
                 ELSE IF moves[k].from = b /\ moves[k].to = a THEN -moves[k].value ELSE 0
    IN MapThenSumSet(of, DOMAIN moves)

\* The slip of a hop taken for a pool.
NobodyPassesOn(moves, receiver, peer, received) == FALSE

\* The receiver passes almost all of the base it got on to another than peer.
PassesOn(moves, receiver, peer, received) ==
    LET onward(k) == IF moves[k].token = Base /\ moves[k].from = receiver /\ moves[k].to # peer THEN moves[k].value ELSE 0
    IN MapThenSumSet(onward, DOMAIN moves) * 10 >= received * 9

\* The pair <<giver of the base, giver of the USDC>> swapped, and plausibly.
IsSwap(moves, giver, taker) ==
    LET base == NetFlow(moves, Base, giver, taker)
        usdc == NetFlow(moves, Usdc, taker, giver)
    IN /\ base > 0 /\ usdc > 0
       /\ base >= MinBase /\ usdc >= MinUsdc
       /\ usdc >= MinRate * base /\ usdc <= MaxRate * base
       /\ ~PassesOn(moves, taker, giver, base)

\* extractFxTrade: the swap of most USDC (of equals, whichever), if there is one.
ExtractFxTrade(all) ==
    LET moves == SelectSeq(all, Counted)
        places == {moves[k].from : k \in DOMAIN moves} \cup {moves[k].to : k \in DOMAIN moves}
        swaps == {p \in places \X places : p[1] # p[2] /\ IsSwap(moves, p[1], p[2])}
        usdc(p) == NetFlow(moves, Usdc, p[2], p[1])
        first(p, token) == CHOOSE k \in DOMAIN moves :
            /\ moves[k].token = token /\ {moves[k].from, moves[k].to} = {p[1], p[2]}
            /\ \A j \in 1 .. k - 1 : moves[j].token = token => {moves[j].from, moves[j].to} # {p[1], p[2]}
        best == CHOOSE p \in swaps : \A q \in swaps : usdc(q) <= usdc(p)
        sell == first(best, Base) < first(best, Usdc)
    IN IF swaps = {} THEN {}
       ELSE {[direction |-> IF sell THEN "sell" ELSE "buy", trader |-> best[IF sell THEN 1 ELSE 2],
              venue |-> best[IF sell THEN 2 ELSE 1], base |-> NetFlow(moves, Base, best[1], best[2]), usdc |-> usdc(best)]}

\* A receipt is read for the pair (recordSwaps); one is enough, as none is
\* read in the light of another.
ReadsReceipt ==
    swap.deals = <<>> /\ \E deals \in Deals : swap' = [deals |-> deals, trade |-> ExtractFxTrade(MovesOfAll(deals))]

SwapNext == ReadsReceipt

SwapSpec == SwapInit /\ [][SwapNext]_swap

(***************************************************************************)
(* Properties                                                              *)
(***************************************************************************)
SwapTypeOK == swap.deals \in Deals \cup {<<>>} /\ Cardinality(swap.trade) <= 1

\* Between whom the base moved last, where it stayed: the venue takes what is
\* sold, the trader what is bought.
LastLeg(d) ==
    LET r == Route(d) IN IF d.side = "sell" THEN <<r[Len(r) - 1], r[Len(r)]>> ELSE <<r[2], r[1]>>

\* The deals of one receipt made between the same two.
Beside(k) == {j \in DOMAIN swap.deals : LastLeg(swap.deals[j]) = LastLeg(swap.deals[k])}

\* The amounts kept are those exchanged by the two between whom the base came
\* to rest, never those of a hop, of a taxed piece or of a move that was handed
\* back; and a deal worth pricing is not missed (fx.ts, extractFxTrade).
SwapTrue ==
    /\ \A t \in swap.trade : \E k \in DOMAIN swap.deals :
        /\ t.base = MapThenSumSet(LAMBDA j : swap.deals[j].base, Beside(k))
        /\ t.usdc = MapThenSumSet(LAMBDA j : swap.deals[j].usdc, Beside(k))
    /\ swap.trade = {} => \A k \in DOMAIN swap.deals : swap.deals[k].base < MinBase \/ swap.deals[k].usdc < MinUsdc
================================================================================
