----------------------------- MODULE Storefront -----------------------------
(***************************************************************************)
(* Our own routes for sale (packages/api: paid, upto, tools, lightning;    *)
(* packages/seller: what a route asks and who settles it, the proxy's      *)
(* offer in sats; packages/lightning: the paywall and the price in sats)   *)
(* and the page that buys one with a browser's wallet (packages/web: try). *)
(* A call is asked for, offered, signed or paid, handled, settled and      *)
(* written down.  Facilitators, sources, wallets and our node are external.*)
(***************************************************************************)
EXTENDS Integers, SequencesExt

CONSTANTS
    ShopCalls,        \* calls, each a request of its own
    ShopRoutes,       \* routes that may be asked for
    PriceTags,        \* what a route may cost (on /v1/upto, its ceiling)
    CdpMin,           \* what Coinbase's facilitator refuses less than
    DirectFloor,      \* DIRECT_MIN_PRICE_USDC
    Openings,         \* pairs: the doors that are open, the calls that are made
    RpcEndpoints,     \* number of Arc endpoints a tool may ask
    Quotings,         \* what the three tickers may say, 0 for nothing
    RateSpread, PriceTolerance,   \* in percent
    SatScale, MinMsat, StepMsat,  \* msat a dollar is worth at a rate of one
    InvoicesPerMinute,
    MaxQuoteMoves, MaxShopFaults  \* bounds

ASSUME StorefrontAssumption ==
    /\ IsFiniteSet(ShopCalls) /\ PriceTags \subseteq Nat \ {0}
    /\ CdpMin \in Nat /\ DirectFloor \in Nat
    /\ RpcEndpoints \in Nat \ {0}
    /\ \A o \in Openings : o[2] \subseteq ShopCalls
    /\ \A q \in Quotings : q \in [1..3 -> Nat]
    /\ RateSpread \in Nat /\ PriceTolerance \in Nat
    /\ SatScale \in Nat \ {0} /\ MinMsat \in Nat \ {0} /\ StepMsat \in Nat \ {0}
    /\ InvoicesPerMinute \in Nat \ {0}
    /\ MaxQuoteMoves \in Nat /\ MaxShopFaults \in Nat

VARIABLES
    shop,             \* how the seller is configured, and what is asked for
    orders,            \* each call
    shelf,            \* is there a fresh copy of the route's answer?
    quotes, rateMemo, \* what the tickers say; the rate that was read
    window,           \* invoices counted in this minute
    claimedInvoices,  \* proofs that were claimed
    page,             \* the browser page: its account, its button
    quoteMoves, shopFaults

shopVars == <<shop, orders, shelf, quotes, rateMemo, window, claimedInvoices, page, quoteMoves, shopFaults>>
tillVars == <<quotes, rateMemo, window, claimedInvoices, quoteMoves>>

NoInvoice == [msat |-> 0, age |-> "none", paid |-> FALSE]
NewOrderOf == [pc |-> "new", door |-> "none", net |-> "none", asked |-> 0, held |-> 0, due |-> 0, moved |-> 0,
               whole |-> FALSE, outcome |-> "none", said |-> "none", row |-> "none",
               invoice |-> NoInvoice, today |-> 0]
FixedDoors == {"paid", "direct", "proxy"}

ShopTypeOK ==
    /\ shop.discovery \in {"none", "open", "cdp"} /\ shop.solana \in BOOLEAN
    /\ shop.openTakes \subseteq {"base", "solana"} /\ shop.tag \in PriceTags /\ shop.route \in ShopRoutes
    /\ \A q \in ShopCalls :
         /\ orders[q].pc \in {"new", "offered", "signed", "verified", "answered", "done"}
         /\ orders[q].net \in {"none", "arc", "base", "solana", "sats"}
         /\ orders[q].moved \in Nat /\ orders[q].held \in Nat
    /\ shelf \in BOOLEAN /\ window \in Nat
    /\ claimedInvoices \subseteq ShopCalls
    /\ quoteMoves \in 0..MaxQuoteMoves /\ shopFaults \in 0..MaxShopFaults

ShopInit ==
    /\ shop \in [discovery : {"none", "open", "cdp"}, solana : BOOLEAN, tag : PriceTags, route : ShopRoutes,
                 openTakes : {{"base"}, {"base", "solana"}},
                 doors : {o[1] : o \in Openings}, calls : {o[2] : o \in Openings}]
    /\ <<shop.doors, shop.calls>> \in Openings
    /\ shop.discovery # "open" => shop.openTakes = {"base"}
    /\ orders = [q \in ShopCalls |-> NewOrderOf]
    /\ shelf = FALSE
    /\ quotes \in Quotings /\ rateMemo = [rate |-> 0, fresh |-> FALSE]
    /\ window = 0 /\ claimedInvoices = {}
    /\ page = [account |-> FALSE, button |-> FALSE]
    /\ quoteMoves = 0 /\ shopFaults = 0

ShopFault == shopFaults < MaxShopFaults /\ shopFaults' = shopFaults + 1
Put(q, o) == orders' = [orders EXCEPT ![q] = o]

-----------------------------------------------------------------------------
(* What a route asks for, and who settles it *)

AtLeast(price, min) == IF price >= min THEN price ELSE min

\* buildRoutes, uptoRoute: Arc first, the catalogued rail, then Solana.
NetsOf(door) ==
    {"arc"}
    \cup (IF door \in {"paid", "upto"} /\ shop.discovery # "none" THEN {"base"} ELSE {})
    \cup (IF door \in {"paid", "upto", "proxy"} /\ shop.solana THEN {"solana"} ELSE {})

\* The price, but never below what the rail's facilitator takes, or our gas.
AskedOn(door, n) ==
    IF n = "arc" THEN IF door = "direct" THEN AtLeast(shop.tag, DirectFloor) ELSE shop.tag
    ELSE IF door # "proxy" /\ shop.discovery = "cdp" THEN AtLeast(shop.tag, CdpMin) ELSE shop.tag

\* assembleServer: the facilitators a seller asks, in their order.
FacilitatorsOf(door) ==
    LET catalogued == IF door \in {"paid", "upto"} /\ shop.discovery # "none" THEN <<shop.discovery>> ELSE <<>>
        payai == IF "solana" \in NetsOf(door) /\ (catalogued = <<>> \/ door = "paid") THEN <<"payai">> ELSE <<>>
    IN catalogued \o payai \o (IF door \in {"direct", "upto"} THEN <<"ours">> ELSE <<"circle">>)

ClaimsOf(f) == CASE f = "circle" -> {"arc", "base"}
                 [] f = "ours"   -> {"arc"}
                 [] f = "open"   -> shop.openTakes
                 [] OTHER        -> {"base", "solana"}

\* The first that claims a network settles on it.
SettlerOf(door, n) ==
    LET listed == FacilitatorsOf(door)
        claim == {k \in DOMAIN listed : n \in ClaimsOf(listed[k])}
    IN IF claim = {} THEN "nobody" ELSE listed[CHOOSE k \in claim : \A j \in claim : k <= j]

RefusesLessThan(f, door) == CASE f = "cdp" -> CdpMin
                              [] f = "ours" /\ door = "direct" -> DirectFloor
                              [] OTHER -> 0

-----------------------------------------------------------------------------
(* What the routes answer from: tools.ts and handlersUnder of paid.ts *)

Answers(needs, helps, absent, keeps) == [needs |-> needs, helps |-> helps, absent |-> absent, keeps |-> keeps]

\* The sources each needs and those it can do without, whether "there is no
\* such thing" is an answer, and whether a copy is kept for a while.
ChainTools == [wallet |-> Answers({"rpc"}, {}, FALSE, TRUE),
               token  |-> Answers({"rpc"}, {}, FALSE, TRUE),
               tx     |-> Answers({"rpc"}, {"meta"}, FALSE, FALSE)]
WebTools == [extract |-> Answers({"site"}, {}, FALSE, TRUE), check |-> Answers({"site"}, {}, TRUE, TRUE)]
PackageTools == [npm   |-> Answers({"registry"}, {"downloads"}, FALSE, TRUE),
                 pypi  |-> Answers({"registry"}, {}, FALSE, TRUE),
                 vulns |-> Answers({"osv"}, {}, FALSE, TRUE)]
DomainTools == [dns |-> Answers({"resolver"}, {}, FALSE, TRUE), whois |-> Answers({"rdap"}, {}, TRUE, TRUE)]
MoneyTools == [rates |-> Answers({"ecb"}, {}, FALSE, TRUE), convert |-> Answers({"ecb"}, {}, FALSE, TRUE)]
WikiTools == [wiki |-> Answers({"wikipedia"}, {}, FALSE, TRUE)]
OwnData == [fees |-> Answers({"database"}, {}, FALSE, FALSE), usyc |-> Answers({"rpc"}, {}, FALSE, FALSE),
            fail |-> Answers({"nothing"}, {}, FALSE, FALSE)]
Routes == ChainTools @@ WebTools @@ PackageTools @@ DomainTools @@ MoneyTools @@ WikiTools @@ OwnData
Route == Routes[shop.route]

\* rpcClient: the first endpoint that answers; a revert is the chain's answer.
RpcSays(said) ==
    LET answered == {i \in 1..RpcEndpoints : said[i] # "down"}
    IN IF answered = {} THEN "down"
       ELSE said[CHOOSE i \in answered : \A j \in answered : i <= j]

\* getJson, safeFetch: an answer, "not found", or none.
SourceMaySay(s) ==
    IF s = "nothing" THEN {"down"}
    ELSE IF s = "rpc" THEN {RpcSays(said) : said \in [1..RpcEndpoints -> {"ok", "absent", "down"}]}
    ELSE {"ok", "absent", "down"}

\* Every needed source gave something to sell.
Complete(got) == \A s \in Route.needs : got[s] = "ok" \/ (got[s] = "absent" /\ Route.absent)

-----------------------------------------------------------------------------
(* x402: offered, signed, verified, handled, settled *)

\* The page of try.ts connects a wallet: the account first, then Arc's chain,
\* added when the wallet does not know it; the button with the last.
Connects ==
    /\ "direct" \in shop.doors /\ \A q \in ShopCalls : orders[q].pc \in {"new", "done"}
    /\ \/ \* no wallet, or the visitor says no
          UNCHANGED page
       \/ \* connected, but not to Arc: the button stays as it was
          page' = [page EXCEPT !.account = TRUE]
       \/ page' = [account |-> TRUE, button |-> TRUE]
    /\ UNCHANGED <<shop, orders, shelf, tillVars, shopFaults>>

\* The request without a payment: a 402 with what each rail asks.
Asks(q, door) ==
    /\ orders[q].pc = "new" /\ door \in shop.doors \cap (FixedDoors \cup {"upto"})
    /\ door = "direct" => page.account /\ page.button /\ \A o \in ShopCalls : orders[o].pc \in {"new", "done"}
    /\ Put(q, [orders[q] EXCEPT !.pc = "offered", !.door = door])
    /\ UNCHANGED <<shop, shelf, tillVars, page, shopFaults>>

\* The buyer signs what one of the rails asks; the page takes Arc's.
Signs(q, n) ==
    /\ orders[q].pc = "offered" /\ orders[q].door \in FixedDoors \cup {"upto"} /\ n \in NetsOf(orders[q].door)
    /\ orders[q].door = "direct" => n = "arc"
    /\ Put(q, [orders[q] EXCEPT !.pc = "signed", !.net = n, !.asked = AskedOn(orders[q].door, n)])
    /\ UNCHANGED <<shop, shelf, tillVars, page, shopFaults>>

Over(o, outcome, said) == [o EXCEPT !.pc = "done", !.outcome = outcome, !.said = said]

\* The visitor declines the signature.
Declines(q) ==
    /\ orders[q].pc = "offered" /\ orders[q].door = "direct"
    /\ Put(q, Over(orders[q], "none", "stopped"))
    /\ UNCHANGED <<shop, shelf, tillVars, page, shopFaults>>

\* The settler of the network checks the payment; billed by use on Solana, the
\* ceiling goes into an escrow before the handler runs.
Verifies(q) ==
    LET o == orders[q] f == SettlerOf(o.door, o.net) IN
    /\ o.pc = "signed" /\ o.net # "sats"
    /\ \/ f # "nobody" /\ o.asked >= RefusesLessThan(f, o.door)
          /\ Put(q, [o EXCEPT !.pc = "verified",
                              !.held = IF o.door = "upto" /\ o.net = "solana" THEN o.asked ELSE 0])
          /\ UNCHANGED shopFaults
       \/ (f = "nobody" \/ o.asked < RefusesLessThan(f, o.door)) /\ Put(q, Over(o, "none", "refused"))
          /\ UNCHANGED shopFaults
       \/ ShopFault /\ Put(q, Over(o, "none", "refused"))
    /\ UNCHANGED <<shop, shelf, tillVars, page>>

\* A fresh copy answers.
AnswersFromCopy(q) ==
    /\ orders[q].pc = "verified" /\ orders[q].door # "upto" /\ shelf /\ Route.keeps
    /\ Put(q, [orders[q] EXCEPT !.pc = "answered", !.whole = TRUE, !.due = orders[q].asked])
    /\ UNCHANGED <<shop, shelf, tillVars, page, shopFaults>>

\* The answer failed with 400, 404 or 502: the authorization is dropped, what
\* was in escrow goes back.  In sats, what was paid stays with us.
Dropped(o) == [o EXCEPT !.pc = "done", !.held = 0, !.said = "error",
                        !.outcome = IF o.net = "sats" THEN "settled" ELSE "not_charged"]

\* cached: only an answer that could be made is kept.
KeepsAnswer(got) == shelf \/ (Route.keeps /\ Complete(got))

AnswersAnew(q) ==
    /\ orders[q].pc = "verified" /\ orders[q].door # "upto" /\ ~(shelf /\ Route.keeps)
    /\ \E got \in [Route.needs \cup Route.helps -> {"ok", "absent", "down"}] :
         /\ \A s \in DOMAIN got : got[s] \in SourceMaySay(s)
         /\ shelf' = KeepsAnswer(got)
         /\ Put(q, IF Complete(got)
                   THEN [orders[q] EXCEPT !.pc = "answered", !.whole = TRUE, !.due = orders[q].asked]
                   ELSE Dropped(orders[q]))
    /\ UNCHANGED <<shop, tillVars, page, shopFaults>>

\* A parameter is missing or malformed: 400, before any source is asked.
BadInput(q) ==
    /\ orders[q].pc = "verified"
    /\ Put(q, Dropped(orders[q]))
    /\ UNCHANGED <<shop, shelf, tillVars, page, shopFaults>>

\* The agent worked: the bill, at most the ceiling.  It stopped before it spent
\* anything, was busy or did not answer: 502 or 503.
AgentAnswers(q) ==
    /\ orders[q].pc = "verified" /\ orders[q].door = "upto"
    /\ \/ \E bill \in 1..orders[q].asked :
            Put(q, [orders[q] EXCEPT !.pc = "answered", !.whole = TRUE, !.due = bill])
       \/ Put(q, Dropped(orders[q]))
    /\ UNCHANGED <<shop, shelf, tillVars, page, shopFaults>>

\* Settled after the answer: the money moves and the answer goes out with its
\* receipt; or nothing moves and the buyer gets 402; or the money moves and
\* the facilitator's answer is lost, which looks the same.
Settled(o) == [Over(o, "settled", "delivered") EXCEPT !.moved = o.due, !.held = 0]
SettlesAfter(q) ==
    LET o == orders[q] IN
    /\ o.pc = "answered" /\ o.net # "sats"
    /\ \/ Put(q, Settled(o)) /\ UNCHANGED shopFaults
       \/ ShopFault /\ Put(q, [Over(o, "failed", "refused") EXCEPT !.held = 0])
       \/ ShopFault /\ Put(q, [Settled(o) EXCEPT !.outcome = "failed", !.said = "refused"])
       \/ \* the answer is lost on the way to the page
          o.door = "direct" /\ ShopFault /\ Put(q, [Settled(o) EXCEPT !.said = "stopped"])
    /\ UNCHANGED <<shop, shelf, tillVars, page>>

-----------------------------------------------------------------------------
(* Sats: an invoice with the 402, settled before the call is served *)

CeilDiv(a, b) == (a + b - 1) \div b
UsdToMsat(price, rate) == AtLeast(CeilDiv(price * SatScale, rate), MinMsat)

\* btcUsdRate: the median of two or three that agree; 0 when there is none.
ReadRate(q) ==
    LET said == {i \in 1..3 : q[i] > 0}
        all == q[1] + q[2] + q[3]
        hi == CHOOSE v \in {q[i] : i \in said} : \A i \in said : q[i] <= v
        lo == CHOOSE v \in {q[i] : i \in said} : \A i \in said : q[i] >= v
        mid == IF Cardinality(said) = 3 THEN all - hi - lo ELSE all \div 2
    IN IF Cardinality(said) < 2 \/ (hi - lo) * 100 > mid * RateSpread THEN 0 ELSE mid

RateNow == IF rateMemo.fresh THEN rateMemo.rate ELSE ReadRate(quotes)
RateWasRead == rateMemo' = IF RateNow > 0 THEN [rate |-> RateNow, fresh |-> TRUE] ELSE rateMemo

\* todayMsat: up to a whole step; 0 without a rate.
TodayMsat == IF RateNow = 0 THEN 0 ELSE CeilDiv(UsdToMsat(shop.tag, RateNow), StepMsat) * StepMsat

\* A fresh invoice, if there is a rate and the minute has one left; the node
\* may be down or hand back one that does not fit (issueLnbtcChallenge).  The
\* proxy sends its 402 without one it did not get in time.
Invoiced(q, door) ==
    /\ orders[q].invoice.age = "none" /\ shop.route # "fail"
    /\ RateWasRead
    /\ \/ /\ TodayMsat = 0 \/ window >= InvoicesPerMinute
          /\ Put(q, IF door = "lightning" THEN Over([orders[q] EXCEPT !.door = door], "none", "unavailable") ELSE orders[q])
          /\ UNCHANGED <<window, shopFaults>>
       \/ /\ TodayMsat > 0 /\ window < InvoicesPerMinute
          /\ window' = window + 1
          /\ \/ Put(q, [orders[q] EXCEPT !.pc = "offered", !.door = door,
                                       !.invoice = [msat |-> TodayMsat, age |-> "payable", paid |-> FALSE]])
                /\ UNCHANGED shopFaults
             \/ ShopFault /\ Put(q, IF door = "lightning" THEN Over([orders[q] EXCEPT !.door = door], "none", "unavailable")
                                    ELSE orders[q])
    /\ UNCHANGED <<shop, shelf, quotes, claimedInvoices, quoteMoves, page>>

AsksForInvoice(q) == "lightning" \in shop.doors /\ orders[q].pc = "new" /\ Invoiced(q, "lightning")
ProxyAddsInvoice(q) == orders[q].pc = "offered" /\ orders[q].door = "proxy" /\ Invoiced(q, "proxy")

InvoiceAges(q) ==
    /\ orders[q].invoice.age \in {"payable", "expired"} /\ orders[q].pc # "done"
    /\ Put(q, [orders[q] EXCEPT !.invoice.age = IF @ = "payable" THEN "expired" ELSE "gone"])
    /\ UNCHANGED <<shop, shelf, tillVars, page, shopFaults>>

\* The buyer checks the invoice against its own request and pays it.
PaysInvoice(q) ==
    /\ orders[q].pc = "offered" /\ orders[q].invoice.age = "payable"
    /\ Put(q, [orders[q] EXCEPT !.pc = "signed", !.net = "sats", !.invoice.paid = TRUE])
    /\ UNCHANGED <<shop, shelf, tillVars, page, shopFaults>>

\* Slip: the amount the proof names always stands.
NamedStands(named) == named >= MinMsat

\* paywall.settle: the amount the invoice named stands when it is within the
\* tolerance of today's price, or when there is no price today.
CloseEnough(named) ==
    /\ named >= MinMsat
    /\ TodayMsat = 0 \/ (IF named > TodayMsat THEN named - TodayMsat ELSE TodayMsat - named) * 100
                           <= TodayMsat * PriceTolerance

\* settleLnbtc: paid for this request, of today's amount, not long expired.
ProofHolds(q, i) ==
    /\ i = q /\ orders[i].invoice.paid /\ orders[i].invoice.age # "gone"
    /\ CloseEnough(orders[i].invoice.msat)

\* The retry, with the proof of this call's invoice or another's: checked and
\* claimed before the call is served.  The node or the store may be down: 503,
\* and the same proof may come back.
SettlesFirst(q, i) ==
    /\ orders[q].net = "sats" /\ orders[q].pc = "signed"
    /\ orders[i].invoice.paid
    /\ RateWasRead
    /\ \/ /\ ProofHolds(q, i) /\ i \notin claimedInvoices
          /\ claimedInvoices' = claimedInvoices \cup {i}
          /\ Put(q, [orders[q] EXCEPT !.pc = "verified", !.moved = orders[i].invoice.msat, !.today = TodayMsat])
          /\ UNCHANGED shopFaults
       \/ /\ ~ProofHolds(q, i) \/ i \in claimedInvoices
          /\ IF i = q THEN Put(q, [Over(orders[q], "none", "refused") EXCEPT !.today = TodayMsat]) ELSE UNCHANGED orders
          /\ UNCHANGED <<claimedInvoices, shopFaults>>
       \/ ShopFault /\ UNCHANGED <<orders, claimedInvoices>>
    /\ UNCHANGED <<shop, shelf, quotes, window, quoteMoves, page>>

\* Served whatever the handler answers; onSettled writes it down.
ServesPaid(q) ==
    /\ orders[q].pc = "answered" /\ orders[q].net = "sats"
    /\ Put(q, Over(orders[q], "settled", "delivered"))
    /\ UNCHANGED <<shop, shelf, tillVars, page, shopFaults>>

-----------------------------------------------------------------------------
(* Rows, copies and the world *)

\* recordSettlement, not awaited: the row is written or it is lost.
Records(q) ==
    /\ orders[q].pc = "done" /\ orders[q].outcome # "none" /\ orders[q].row = "none"
    /\ \/ Put(q, [orders[q] EXCEPT !.row = orders[q].outcome]) /\ UNCHANGED shopFaults
       \/ ShopFault /\ Put(q, [orders[q] EXCEPT !.row = "lost"])
    /\ UNCHANGED <<shop, shelf, tillVars, page>>

\* A copy is too old, or the cache is full and cleared.
CopyGoes ==
    /\ shelf /\ shelf' = FALSE
    /\ UNCHANGED <<shop, orders, tillVars, page, shopFaults>>

RateAges ==
    /\ rateMemo.fresh /\ rateMemo' = [rateMemo EXCEPT !.fresh = FALSE]
    /\ UNCHANGED <<shop, orders, shelf, quotes, window, claimedInvoices, quoteMoves, page, shopFaults>>

NextMinute ==
    /\ window > 0 /\ window' = 0
    /\ UNCHANGED <<shop, orders, shelf, quotes, rateMemo, claimedInvoices, quoteMoves, page, shopFaults>>

QuotesMove ==
    /\ shop.doors \cap {"lightning", "proxy"} # {}
    /\ quoteMoves < MaxQuoteMoves /\ quoteMoves' = quoteMoves + 1
    /\ quotes' \in Quotings \ {quotes}
    /\ UNCHANGED <<shop, orders, shelf, rateMemo, window, claimedInvoices, page, shopFaults>>

ShopNext ==
    \/ \E q \in shop.calls :
         \/ \E door \in FixedDoors \cup {"upto"} : Asks(q, door)
         \/ \E n \in {"arc", "base", "solana"} : Signs(q, n)
         \/ \E i \in shop.calls : SettlesFirst(q, i)
         \/ Declines(q) \/ Verifies(q) \/ AnswersFromCopy(q) \/ AnswersAnew(q) \/ BadInput(q)
         \/ AgentAnswers(q) \/ SettlesAfter(q)
         \/ AsksForInvoice(q) \/ ProxyAddsInvoice(q) \/ InvoiceAges(q) \/ PaysInvoice(q) \/ ServesPaid(q)
         \/ Records(q)
    \/ Connects \/ CopyGoes \/ RateAges \/ NextMinute \/ QuotesMove

ShopSpec == ShopInit /\ [][ShopNext]_shopVars

-----------------------------------------------------------------------------
(* Properties *)

\* Every rail of a 402 has a facilitator that settles there and takes the
\* amount it asks; Base and Solana go to the catalogued one when there is one.
\* Billed by use on Solana, an open facilitator must itself settle there.
EveryRailSettles ==
    \A door \in FixedDoors \cup {"upto"} : \A n \in NetsOf(door) :
        LET f == SettlerOf(door, n) IN
        \/ door = "upto" /\ shop.discovery = "open" /\ n \notin shop.openTakes \cup {"arc"}
        \/ /\ f # "nobody" /\ AskedOn(door, n) >= RefusesLessThan(f, door) /\ AskedOn(door, n) >= shop.tag
           /\ f = IF n = "arc" THEN IF door \in {"direct", "upto"} THEN "ours" ELSE "circle"
                  ELSE IF door # "proxy" /\ shop.discovery # "none" /\ (n = "base" \/ n \in ClaimsOf(shop.discovery))
                       THEN shop.discovery ELSE "payai"

\* Signed for USDC: an answer delivered was whole and took exactly what it
\* cost, at most what was asked; an error took nothing and holds nothing; a row
\* says settled or not charged only of what was.
SoldForUsdc(o) ==
    /\ o.moved <= o.asked
    /\ o.said = "delivered" => o.whole /\ o.moved = o.due /\ o.due > 0
    /\ o.said = "error" => o.moved = 0
    /\ o.pc = "done" => o.held = 0
    /\ o.row = "settled" => o.moved = o.due /\ o.whole
    /\ o.row = "not_charged" => o.moved = 0

\* Paid in sats: served only against an invoice of this request, paid, claimed,
\* and within the tolerance of the day's price when it was claimed; refused
\* only when it is long expired or the price moved past the tolerance.
PriceMoved(named, today) ==
    /\ today > 0
    /\ (IF named > today THEN named - today ELSE today - named) * 100 > today * PriceTolerance
SoldForSats(q) ==
    LET o == orders[q] IN
    /\ o.pc \in {"verified", "answered"} \/ o.said \in {"delivered", "error"} =>
         /\ o.invoice.paid /\ q \in claimedInvoices
         /\ o.moved = o.invoice.msat /\ ~PriceMoved(o.moved, o.today)
    /\ o.said = "refused" => o.invoice.age = "gone" \/ PriceMoved(o.invoice.msat, o.today)
    /\ o.row \in {"none", "settled", "lost"}

\* A rate is one that two tickers stand by, and the sats of a dollar price are
\* never less than the price at that rate.
RateStands ==
    /\ \A said \in Quotings :
         LET r == ReadRate(said) IN
         r > 0 => Cardinality({i \in 1..3 : said[i] > 0 /\ (IF said[i] > r THEN said[i] - r ELSE r - said[i]) * 100
                                                              <= r * RateSpread}) >= 2
    /\ TodayMsat > 0 => TodayMsat * RateNow >= shop.tag * SatScale /\ TodayMsat >= MinMsat
    /\ window <= InvoicesPerMinute

\* Nobody pays for less than was sold, and what is written of a sale is so.
SoldHonestly ==
    /\ EveryRailSettles
    /\ RateStands
    /\ \A q \in ShopCalls : IF orders[q].net = "sats" THEN SoldForSats(q) ELSE SoldForUsdc(orders[q])
=============================================================================
