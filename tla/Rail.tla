-------------------------------- MODULE Rail --------------------------------
(***************************************************************************)
(* The buyer's payment rail (packages/router/src/index.ts): rail.fetch,    *)
(* which pays an x402 seller through hooks the x402 client calls, and      *)
(* rail.fetchLightning, which pays a Lightning invoice directly.  Each     *)
(* call is a process; a step ends where the code awaits something.         *)
(*                                                                         *)
(* The hooks are not told which call they serve: they read the variable    *)
(* `current' of the rail, which every fetch overwrites.  With Concurrent   *)
(* = FALSE a call starts only when no other is open (the command line and  *)
(* the thinking loop wait for each answer); with TRUE calls overlap (the   *)
(* MCP server starts a tool call whenever one arrives).                    *)
(***************************************************************************)
EXTENDS SpendPolicy

CONSTANTS
    X402Schemes,   \* the x402 schemes sellers ask for
    Ceilings,      \* values of maxUsdc a caller may pass
    EscrowAbove,   \* thresholds.escrowAbove
    Concurrent,    \* may two calls be open at once?
    MayCrash,      \* may the process stop and be started again?
    MaxTime        \* bound on the clock

\* A call without maxUsdc: no price is above this ceiling.
NoCeiling == MaxPrice

ASSUME RailAssumption ==
    /\ X402Schemes \subseteq {"exact", "upto"}
    /\ Ceilings \subseteq 0..MaxPrice
    /\ EscrowAbove \in Nat
    /\ Concurrent \in BOOLEAN
    /\ MayCrash \in BOOLEAN
    /\ MaxTime \in Nat

NoCall == "no call"

ASSUME NoCallAssumption == NoCall \notin Calls

VARIABLES
    now,      \* the clock both the rail and the ledger read
    book,     \* the ledger: the row each call's own hooks wrote
    current,  \* the rail's InFlight object, by the call that set it
    call,     \* per call: the InFlight fields and the locals of its hooks
    auth,     \* what became of the authorization (or invoice) of a call
    taken,    \* units the seller really took on it
    result    \* what the caller was told

vars == <<now, book, current, call, auth, taken, result>>

-----------------------------------------------------------------------------

Pcs == {"idle", "probing", "hooked", "read", "signing", "recorded", "sent",
        "answered", "failing",
        "ln_probing", "ln_offered", "ln_read", "ln_recorded", "ln_paid",
        "done"}

Results == {"none", "free", "settled", "not_charged", "failed", "no_receipt",
            "rejected", "escrow", "error", "nothing_paid", "crashed"}

NoFigures == [today |-> 0, seller |-> 0, count |-> 0]

CallState ==
    [pc : Pcs, ceiling : Ceilings \cup {NoCeiling},
     seller : Sellers \cup {NoSeller}, price : 0..MaxPrice, scheme : Schemes,
     hook : Calls \cup {NoCall},    \* `inflight' of the hook that is running
     seen : [today : Nat, seller : Nat, count : Nat],
     record : Calls \cup {NoCall},  \* InFlight.record
     rejected : BOOLEAN,            \* InFlight.rejected is set
     escrow : BOOLEAN]              \* InFlight.quote routes to escrow

IdleCall ==
    [pc |-> "idle", ceiling |-> NoCeiling, seller |-> NoSeller, price |-> 0,
     scheme |-> "exact", hook |-> NoCall, seen |-> NoFigures,
     record |-> NoCall, rejected |-> FALSE, escrow |-> FALSE]

TypeOK ==
    /\ now \in Nat
    /\ book \in [Calls -> Row]
    /\ current \in Calls \cup {NoCall}
    /\ call \in [Calls -> CallState]
    /\ auth \in [Calls -> {"none", "out", "void", "taken"}]
    /\ taken \in [Calls -> 0..MaxPrice]
    /\ result \in [Calls -> Results]

Init ==
    /\ now = 0
    /\ book = [c \in Calls |-> NoRow]
    /\ current = NoCall
    /\ call = [c \in Calls |-> IdleCall]
    /\ auth = [c \in Calls |-> "none"]
    /\ taken = [c \in Calls |-> 0]
    /\ result = [c \in Calls |-> "none"]

Open(c) == call[c].pc \notin {"idle", "done"}

MayStart(c) ==
    /\ call[c].pc = "idle"
    /\ Concurrent \/ \A d \in Calls : ~Open(d)

\* A call that ended: its locals are gone.  The terms of a payment it signed
\* stay with the seller.
Ended(c) ==
    IF book[c].status \in {"none", "rejected"} THEN [IdleCall EXCEPT !.pc = "done"]
    ELSE [IdleCall EXCEPT !.pc = "done", !.seller = call[c].seller,
                          !.price = call[c].price, !.scheme = call[c].scheme]

\* The call ends and tells its caller `res'.
Finish(c, res) ==
    /\ call' = [call EXCEPT ![c] = Ended(c)]
    /\ result' = [result EXCEPT ![c] = res]

\* The `finally' of fetch.
Release(c) == current' = IF current = c THEN NoCall ELSE current

-----------------------------------------------------------------------------
(* rail.fetch *)

Start(c, ceiling) ==
    /\ MayStart(c)
    /\ current' = c
    /\ call' = [call EXCEPT ![c] = [@ EXCEPT !.pc = "probing",
                                             !.ceiling = ceiling]]
    /\ UNCHANGED <<now, book, auth, taken, result>>

\* The first answer is not a 402: nothing to pay.
FreeAnswer(c) ==
    /\ call[c].pc = "probing"
    /\ Finish(c, "free")
    /\ Release(c)
    /\ UNCHANGED <<now, book, auth, taken>>

\* The 402 names a price; the before-payment hook starts and takes `current'
\* as the call it serves.
AskPrice(c, seller, price, scheme) ==
    /\ call[c].pc = "probing"
    /\ call' = [call EXCEPT ![c] = [@ EXCEPT !.pc = "hooked",
                                             !.hook = current,
                                             !.seller = seller,
                                             !.price = price,
                                             !.scheme = scheme]]
    /\ UNCHANGED <<now, book, current, auth, taken, result>>

\* The network fails, or the 402 offers nothing the client can pay.
ProbeError(c) ==
    /\ call[c].pc = "probing"
    /\ call' = [call EXCEPT ![c] = [@ EXCEPT !.pc = "failing"]]
    /\ UNCHANGED <<now, book, current, auth, taken, result>>

\* policyContext: the three ledger queries.
ReadLedger(c) ==
    /\ call[c].pc = "hooked"
    /\ call' = [call EXCEPT ![c] = [@ EXCEPT !.pc = "read",
                                             !.seen = Exposure(book, now, call[c].seller)]]
    /\ UNCHANGED <<now, book, current, auth, taken, result>>

\* The ceiling the hook applies: the one of the call it took for its own.
CeilingLost(h) == NoCeiling   \* Slip: the caller's ceiling is never looked at.

CeilingOf(h) == IF h = NoCall THEN NoCeiling ELSE call[h].ceiling

ToEscrow(c) == call[c].price > EscrowAbove

\* Slip: the policy is left to quote(), which the caller may never ask.
HookAllowsUnchecked(c, verified) ==
    /\ ~ToEscrow(c)
    /\ call[c].price <= CeilingOf(call[c].hook)

\* Route, ceiling and policy, as the hook applies them.
HookAllows(c, verified) ==
    LET my == call[c]
    IN  /\ ~ToEscrow(c)
        /\ EvaluatePolicy(my.seller, my.price, my.seen, verified)
        /\ my.price <= CeilingOf(my.hook)

\* The marks the hook leaves on the call it took for its own: quote, rejected.
Marked(c, allowed) ==
    [d \in Calls |->
        IF d # call[c].hook THEN call[d]
        ELSE [call[d] EXCEPT !.escrow = ToEscrow(c),
                             !.rejected = @ \/ (~allowed /\ ~ToEscrow(c))]]

\* The rest of the before-payment hook.  A refusal is written down and aborts
\* the payment.
Decide(c, verified) ==
    LET my      == call[c]
        allowed == HookAllows(c, verified)
    IN  /\ my.pc = "read"
        /\ call' = [Marked(c, allowed) EXCEPT
                       ![c].pc = IF allowed THEN "signing" ELSE "failing"]
        /\ book' = IF allowed THEN book
                   ELSE [book EXCEPT ![c] = NewRow("rejected", my.seller,
                                                my.price, my.scheme, now)]
        /\ UNCHANGED <<now, current, auth, taken, result>>

SignedUnwritten(c) == book    \* Slip: the row waits for the answer.

SignedRow(c) ==
    [book EXCEPT ![c] = NewRow("signed", call[c].seller, call[c].price,
                               call[c].scheme, now)]

\* The payment is signed; the after-payment hook writes the row and hangs it
\* on the call `current' names now.
Sign(c) ==
    /\ call[c].pc = "signing"
    /\ book' = SignedRow(c)
    /\ call' = [d \in Calls |->
                   [call[d] EXCEPT
                      !.pc = IF d = c THEN "recorded" ELSE @,
                      !.record = IF d = current THEN c ELSE @]]
    /\ UNCHANGED <<now, current, auth, taken, result>>

\* The request goes out again with the signature.
Send(c) ==
    /\ call[c].pc = "recorded"
    /\ call' = [call EXCEPT ![c] = [@ EXCEPT !.pc = "sent"]]
    /\ auth' = [auth EXCEPT ![c] = "out"]
    /\ UNCHANGED <<now, book, current, taken, result>>

\* The seller settles: all of an exact payment, part or all of an upto one,
\* or a Lightning payment the wallet had left in flight.
SellerTakes(c, amount) ==
    /\ auth[c] = "out"
    /\ auth' = [auth EXCEPT ![c] = "taken"]
    /\ \/ amount = call[c].price
       \/ call[c].scheme = "upto" /\ amount < call[c].price
    /\ taken' = [taken EXCEPT ![c] = amount]
    /\ UNCHANGED <<now, book, current, call, result>>

\* Slip: a failed handler is taken for a settlement.
ClosedAsPaid(outcome) == IF outcome = "refused" THEN "failed" ELSE "settled"

\* The status the payment-response hook writes: `handler_failed' is an answer
\* with neither a settlement nor an error.
ClosedAs(outcome) ==
    CASE outcome = "settled" -> "settled"
      [] outcome = "refused" -> "failed"
      [] outcome = "handler_failed" -> "quoted"

\* The answer to the paid request, and the payment-response hook: it closes
\* the row hung on `current', if there is one.  `said' is whether the
\* settlement names the amount it took.
Respond(c, outcome, said) ==
    LET rec == IF current = NoCall THEN NoCall ELSE call[current].record
    IN  /\ call[c].pc = "sent"
        /\ IF outcome = "settled"
             THEN auth[c] = "taken" /\ UNCHANGED auth
             ELSE auth[c] = "out" /\ auth' = [auth EXCEPT ![c] = "void"]
        /\ book' = IF rec = NoCall THEN book
                   ELSE [book EXCEPT
                           ![rec].status = ClosedAs(outcome),
                           ![rec].amount =
                              IF /\ outcome = "settled" /\ said
                                 /\ book[rec].scheme = "upto"
                              THEN taken[c] ELSE @]
        /\ call' = [call EXCEPT ![c] = [@ EXCEPT !.pc = "answered"]]
        /\ UNCHANGED <<now, current, taken, result>>

\* The paid request gets no answer.
NetworkError(c) ==
    /\ call[c].pc = "sent"
    /\ call' = [call EXCEPT ![c] = [@ EXCEPT !.pc = "failing"]]
    /\ UNCHANGED <<now, book, current, auth, taken, result>>

\* fetch returns the response and the receipt made from its own record.
Return(c) ==
    LET rec == call[c].record
    IN  /\ call[c].pc = "answered"
        /\ Finish(c, CASE rec = NoCall -> "no_receipt"
                       [] rec # NoCall /\ book[rec].status = "settled" -> "settled"
                       [] rec # NoCall /\ book[rec].status = "quoted" -> "not_charged"
                       [] OTHER -> "failed")
        /\ Release(c)
        /\ UNCHANGED <<now, book, auth, taken>>

CaughtUnwritten(c) == book    \* Slip: the error is passed on, the row forgotten.

\* A payment that was signed and then failed is written down as failed.
CaughtRow(c) ==
    LET my == call[c]
    IN  IF my.rejected \/ my.escrow \/ my.record = NoCall THEN book
        ELSE [book EXCEPT ![my.record].status = "failed"]

\* The catch block.
Catch(c) ==
    LET my == call[c]
    IN  /\ my.pc = "failing"
        /\ Finish(c, CASE my.rejected -> "rejected"
                       [] ~my.rejected /\ my.escrow -> "escrow"
                       [] OTHER -> "error")
        /\ book' = CaughtRow(c)
        /\ Release(c)
        /\ UNCHANGED <<now, auth, taken>>

-----------------------------------------------------------------------------
(* rail.fetchLightning: the same decision, without `current' *)

LnStart(c, ceiling) ==
    /\ MayStart(c)
    /\ call' = [call EXCEPT ![c] = [@ EXCEPT !.pc = "ln_probing",
                                             !.ceiling = ceiling,
                                             !.scheme = "lightning"]]
    /\ UNCHANGED <<now, book, current, auth, taken, result>>

\* No 402, a network failure, or no offer that passes the checks.
LnNoOffer(c, res) ==
    /\ call[c].pc = "ln_probing"
    /\ res \in {"free", "error", "nothing_paid"}
    /\ Finish(c, res)
    /\ UNCHANGED <<now, book, current, auth, taken>>

LnOffer(c, seller, price) ==
    /\ call[c].pc = "ln_probing"
    /\ call' = [call EXCEPT ![c] = [@ EXCEPT !.pc = "ln_offered",
                                             !.seller = seller,
                                             !.price = price]]
    /\ UNCHANGED <<now, book, current, auth, taken, result>>

LnReadLedger(c) ==
    /\ call[c].pc = "ln_offered"
    /\ call' = [call EXCEPT ![c] = [@ EXCEPT !.pc = "ln_read",
                                             !.seen = Exposure(book, now, call[c].seller)]]
    /\ UNCHANGED <<now, book, current, auth, taken, result>>

\* No identity is looked up for a Lightning seller.
LnDecide(c) ==
    LET my  == call[c]
        pay == /\ EvaluatePolicy(my.seller, my.price, my.seen, FALSE)
               /\ my.price <= my.ceiling
    IN  /\ my.pc = "ln_read"
        /\ book' = [book EXCEPT ![c] = NewRow(IF pay THEN "signed" ELSE "rejected",
                                        my.seller, my.price, my.scheme, now)]
        /\ IF pay
             THEN call' = [call EXCEPT ![c] = [@ EXCEPT !.pc = "ln_recorded"]] /\ UNCHANGED result
             ELSE Finish(c, "rejected")
        /\ UNCHANGED <<now, current, auth, taken>>

\* The wallet pays and proves it.
LnPaid(c) ==
    /\ call[c].pc = "ln_recorded"
    /\ call' = [call EXCEPT ![c] = [@ EXCEPT !.pc = "ln_paid"]]
    /\ auth' = [auth EXCEPT ![c] = "taken"]
    /\ taken' = [taken EXCEPT ![c] = call[c].price]
    /\ UNCHANGED <<now, book, current, result>>

\* The wallet does not pay, has not answered yet, or paid without a usable
\* proof.  All three close the row and raise LightningNotPaid.
LnNotPaid(c, fate) ==
    /\ call[c].pc = "ln_recorded"
    /\ fate \in {"void", "out", "taken"}
    /\ auth' = [auth EXCEPT ![c] = fate]
    /\ taken' = [taken EXCEPT ![c] = IF fate = "taken" THEN call[c].price ELSE 0]
    /\ book' = [book EXCEPT ![c].status = "failed"]
    /\ Finish(c, "nothing_paid")
    /\ UNCHANGED <<now, current>>

\* The seller's answer to the proof.
LnRespond(c, outcome) ==
    /\ call[c].pc = "ln_paid"
    /\ outcome \in {"settled", "failed"}
    /\ book' = [book EXCEPT ![c].status = outcome]
    /\ Finish(c, outcome)
    /\ UNCHANGED <<now, current, auth, taken>>

\* No answer to the proof: nothing catches it, the row stays signed.
LnNetworkError(c) ==
    /\ call[c].pc = "ln_paid"
    /\ Finish(c, "error")
    /\ UNCHANGED <<now, book, current, auth, taken>>

-----------------------------------------------------------------------------

\* The process dies with its open calls; the ledger and what was sent stay.
Crash ==
    /\ MayCrash
    /\ \E c \in Calls : Open(c)
    /\ call' = [c \in Calls |->
                  IF Open(c) THEN Ended(c) ELSE call[c]]
    /\ result' = [c \in Calls |-> IF Open(c) THEN "crashed" ELSE result[c]]
    /\ current' = NoCall
    /\ UNCHANGED <<now, book, auth, taken>>

Tick ==
    /\ now < MaxTime
    /\ now' = now + 1
    /\ UNCHANGED <<book, current, call, auth, taken, result>>

\* Every attempt was made and answered.
AllDone ==
    /\ \A c \in Calls : call[c].pc = "done" /\ auth[c] # "out"
    /\ now = MaxTime
    /\ UNCHANGED vars

Fetch(c) ==
    \/ \E ceiling \in Ceilings \cup {NoCeiling} : Start(c, ceiling)
    \/ FreeAnswer(c)
    \/ \E s \in Sellers, p \in Prices, scheme \in X402Schemes :
          AskPrice(c, s, p, scheme)
    \/ ProbeError(c)
    \/ ReadLedger(c)
    \/ \E verified \in BOOLEAN : Decide(c, verified)
    \/ Sign(c)
    \/ Send(c)
    \/ \E outcome \in {"settled", "refused", "handler_failed"}, said \in BOOLEAN :
          Respond(c, outcome, said)
    \/ NetworkError(c)
    \/ Return(c)
    \/ Catch(c)

FetchLightning(c) ==
    \/ \E ceiling \in Ceilings \cup {NoCeiling} : LnStart(c, ceiling)
    \/ \E res \in Results : LnNoOffer(c, res)
    \/ \E s \in Sellers, p \in Prices : LnOffer(c, s, p)
    \/ LnReadLedger(c)
    \/ LnDecide(c)
    \/ LnPaid(c)
    \/ \E fate \in {"void", "out", "taken"} : LnNotPaid(c, fate)
    \/ \E outcome \in {"settled", "failed"} : LnRespond(c, outcome)
    \/ LnNetworkError(c)

Next ==
    \/ \E c \in Calls : Fetch(c)
    \/ \E c \in Calls : FetchLightning(c)
    \/ \E c \in Calls, amount \in Prices : SellerTakes(c, amount)
    \/ Crash
    \/ Tick
    \/ AllDone

Spec == Init /\ [][Next]_vars

\* Every await of an open call ends: node's fetch gives up by itself, the
\* wallet's answer is awaited with a timeout, the database answers or throws.
Progress(c) == Open(c) /\ (Fetch(c) \/ FetchLightning(c))

FairSpec == Spec /\ \A c \in Calls : WF_vars(Progress(c))

-----------------------------------------------------------------------------
(* Properties *)

\* The two caps over the rolling day, on what the ledger counts as spent:
\* whatever the clock, the payments of the last DayWindow stay within them.
\* It depends on nobody writing a row between a call's queries and its own.
SpendWithinCaps ==
    /\ SpentSince(book, now - DayWindow) <= DailyCap
    /\ \A s \in Sellers : SpentWithSince(book, now - DayWindow, s) <= SellerCap

\* The same for the number of payments in the rate window.
RateHeld == CountSince(book, now - RateWindow) <= RateMax

\* The steps at which a payment is about to leave the process.
Leaving(c) == call[c].pc \in {"recorded", "ln_recorded"}

\* No signature leaves, and no invoice is paid, above the ceiling its own
\* caller set (maxUsdc).
CeilingHeld ==
    \A c \in Calls : Leaving(c) => call[c].price <= call[c].ceiling

\* Nothing leaves for a seller the policy excludes, above the cap of one
\* payment, or above the amount that goes to escrow instead, whatever other
\* calls were doing when it was decided.
OnlyAllowedPayments ==
    \A c \in Calls : Leaving(c) =>
        /\ call[c].seller \in Permitted
        /\ call[c].price <= PerPaymentCap
        /\ call[c].scheme # "lightning" => call[c].price <= EscrowAbove

\* Whatever left the process is in the ledger: a row for that seller, and the
\* seller cannot take more than the row was written for.  The row may have
\* been closed since; a crash right after sending does not lose it.
NothingUnrecorded ==
    \A c \in Calls : auth[c] # "none" =>
        /\ book[c].status \notin {"none", "rejected"}
        /\ book[c].payTo = call[c].seller
        /\ book[c].scheme # "upto" => taken[c] <= book[c].amount

\* What a call tells its caller is what happened to its own payment: a
\* receipt says settled or not charged when it is so, and a call that signed
\* never returns without a receipt.
ReceiptTellsTheTruth ==
    \A c \in Calls :
        /\ result[c] = "settled" => auth[c] = "taken" /\ taken[c] <= book[c].amount
        /\ result[c] \in {"settled", "not_charged"} => book[c].status # "signed"
        /\ result[c] = "not_charged" => auth[c] = "void"
        /\ result[c] \in {"free", "no_receipt", "rejected", "escrow"} => auth[c] = "none"

\* The rail is an account that respects the limits at the moment it commits
\* (SpendLimit), although it reads the ledger steps before it signs.
Held == [c \in Calls |-> IF book[c].status \in SPENT
                         THEN [book[c] EXCEPT !.status = "signed"] ELSE NoRow]

Limit == INSTANCE SpendLimit WITH held <- Held

ImplementsSpendLimit == Limit!Spec

\* arc_pay answers "Nothing was paid." whenever Lightning raises
\* LightningNotPaid (packages/mcp/src/server.ts).
NothingPaidMeansNothingPaid ==
    \A c \in Calls : result[c] = "nothing_paid" => taken[c] = 0

\* A signed x402 row does not stay open: unless the process died, its call
\* closes it as settled, failed or not charged.
RowsGetClosed ==
    \A c \in Calls :
        (book[c].status = "signed" /\ book[c].scheme # "lightning")
            ~> (book[c].status # "signed" \/ result[c] = "crashed")
=============================================================================
