---------------------------- MODULE SpendPolicy ----------------------------
(***************************************************************************)
(* The spend control of the buyer's rail: the payment ledger's queries     *)
(* (packages/ledger) and the decision made on them (packages/policy).      *)
(*                                                                         *)
(* The ledger is a function `book' from the identity of a payment attempt  *)
(* to its row.  An amount of k units (a unit stands for one micro-USDC) is *)
(* k elements of a set, so that the SQL `sum(amount)' is a cardinality.    *)
(***************************************************************************)
EXTENDS Integers, FiniteSets

CONSTANTS
    Calls,            \* identities of payment attempts
    Sellers,          \* payTo addresses (with their host and network)
    Permitted,        \* those the networks, allowlist and denylist let through
    MaxPrice,         \* the largest price any seller asks
    PerPaymentCap, DailyCap, SellerCap, RateMax,   \* SpendPolicy limits
    DayWindow,        \* 24 hours, in ticks of the clock
    RateWindow,       \* rateLimit.windowMs, in ticks
    IdentityRequired  \* requireVerifiedIdentity

ASSUME PolicyAssumption ==
    /\ IsFiniteSet(Calls)
    /\ Permitted \subseteq Sellers
    /\ MaxPrice \in Nat \ {0}
    /\ PerPaymentCap \in Nat
    /\ DailyCap \in Nat
    /\ SellerCap \in Nat
    /\ RateMax \in Nat
    /\ DayWindow \in Nat
    /\ RateWindow \in Nat
    /\ RateWindow <= DayWindow
    /\ IdentityRequired \in BOOLEAN

-----------------------------------------------------------------------------
(* The ledger.  A row that was never written has status "none". *)

Prices   == 1..MaxPrice
NoSeller == "no seller"
Schemes  == {"exact", "upto", "lightning"}
Statuses == {"none", "rejected", "quoted", "signed", "settled", "failed"}

Row == [status : Statuses, payTo : Sellers \cup {NoSeller},
        amount : 0..MaxPrice, scheme : Schemes, at : Nat]

NoRow == [status |-> "none", payTo |-> NoSeller, amount |-> 0,
          scheme |-> "exact", at |-> 0]

\* Slip: the row is dated by the start of the window.
NewRowBackdated(status, seller, price, scheme, at) ==
    [status |-> status, payTo |-> seller, amount |-> price,
     scheme |-> scheme, at |-> at - DayWindow]

NewRow(status, seller, price, scheme, at) ==
    [status |-> status, payTo |-> seller, amount |-> price,
     scheme |-> scheme, at |-> at]

\* What counts as spent: a signed authorization is a commitment.
SPENT == {"signed", "settled"}

CountedRows(book, since) ==
    {c \in Calls : book[c].status \in SPENT /\ book[c].at >= since}

UnitsOf(book, rows) ==
    {u \in rows \X Prices : u[2] <= book[u[1]].amount}

SpentSince(book, since) == Cardinality(UnitsOf(book, CountedRows(book, since)))

SpentWithSince(book, since, seller) ==
    Cardinality(UnitsOf(book, {c \in CountedRows(book, since) :
                                   book[c].payTo = seller}))

CountSince(book, since) == Cardinality(CountedRows(book, since))

-----------------------------------------------------------------------------
(* The decision, on figures read from the ledger. *)

\* What the rail asks the ledger for before it decides.
Exposure(book, now, seller) ==
    [today  |-> SpentSince(book, now - DayWindow),
     seller |-> SpentWithSince(book, now - DayWindow, seller),
     count  |-> CountSince(book, now - RateWindow)]

\* Slips: the price itself is not counted against the caps; one payment too
\* many in the rate window.
EvaluatePolicyBeforePrice(seller, price, seen, verified) ==
    /\ seller \in Permitted /\ price <= PerPaymentCap /\ seen.count < RateMax
    /\ seen.today <= DailyCap /\ seen.seller <= SellerCap
    /\ IdentityRequired => verified

EvaluatePolicyRateOff(seller, price, seen, verified) ==
    /\ seller \in Permitted /\ price <= PerPaymentCap /\ seen.count <= RateMax
    /\ seen.today + price <= DailyCap /\ seen.seller + price <= SellerCap
    /\ IdentityRequired => verified

\* evaluatePolicy: TRUE when no rule fires.  Which rule fires first changes
\* the reason written in the row and nothing else.
EvaluatePolicy(seller, price, seen, verified) ==
    /\ seller \in Permitted
    /\ price <= PerPaymentCap
    /\ seen.count < RateMax
    /\ seen.today + price <= DailyCap
    /\ seen.seller + price <= SellerCap
    /\ IdentityRequired => verified
=============================================================================
