----------------------------- MODULE Facilitator -----------------------------
(***************************************************************************)
(* Selling a call for USDC, settled by the project's own facilitator: the  *)
(* seller's middleware and proxy (packages/seller), which verify before    *)
(* the handler and settle after it, the facilitator process                *)
(* (packages/facilitator), which pays the gas, and the registration of     *)
(* sellers in the API (packages/api/src/facilitator.ts).                   *)
(***************************************************************************)
EXTENDS Integers, FiniteSets

CONSTANTS
    Payments,        \* payments under way
    OwnSellers,      \* payout addresses named at start (rules.payTo)
    NewSellers,      \* those that may register
    Strangers,       \* those that never do
    SignedAmount,    \* what a buyer signs: the price, or the ceiling of upto
    SellerDayCap,    \* FACILITATOR_DAILY_CAP
    SharedDayCap,    \* FACILITATOR_SHARED_DAILY_CAP
    GasAtStart, GasReserve,
    MaxSellers,      \* FACILITATOR_MAX_SELLERS
    FileFaults,      \* may writing the list of sellers fail?
    MaxFacDay, MaxFacFaults   \* bounds

FacSellers == OwnSellers \cup NewSellers \cup Strangers

ASSUME FacilitatorAssumption ==
    /\ IsFiniteSet(Payments) /\ IsFiniteSet(NewSellers)
    /\ OwnSellers \cap NewSellers = {} /\ Strangers \cap (OwnSellers \cup NewSellers) = {}
    /\ SignedAmount \in Nat \ {0}
    /\ SellerDayCap \in Nat \ {0} /\ SharedDayCap \in Nat \ {0}
    /\ GasAtStart \in Nat /\ GasReserve \in Nat
    /\ MaxSellers \in Nat /\ FileFaults \in BOOLEAN
    /\ MaxFacDay \in Nat /\ MaxFacFaults \in Nat

NoGasFigure == -1
NoSale == "no seller"

VARIABLES
    facUp,                       \* is the facilitator running?
    listed, listFile,            \* SellerRegistry.sellers, and its file
    counts, sharedCount, countsDay,  \* what the registry counted, and for which day
    facDay,                      \* the UTC day
    gasLeft, gasSeen,            \* the signer's balance; what was last read of it
    sellersTable, registering,   \* facilitator_sellers; registrations under way
    sale, chain,                 \* per payment: the seller's side; the chain's
    settledOn,                   \* history: per day, the payments counted since it started
    together,                    \* history: most settlements under way at once
    facFaults

registry  == <<listed, listFile, sellersTable, registering>>
tallies   == <<counts, sharedCount, countsDay>>
facHistory == <<settledOn, together>>
facVars == <<facUp, listed, listFile, counts, sharedCount, countsDay, facDay,
             gasLeft, gasSeen, sellersTable, registering, sale, chain,
             settledOn, together, facFaults>>

NoCounts == [s \in FacSellers |-> 0]

NewSale == [pc |-> "new", seller |-> NoSale, upto |-> FALSE, asked |-> 0, told |-> "none"]

FacTypeOK ==
    /\ facUp \in BOOLEAN
    /\ listed \subseteq NewSellers /\ listFile \subseteq NewSellers
    /\ counts \in [FacSellers -> Nat] /\ sharedCount \in Nat
    /\ countsDay \in 0..MaxFacDay /\ facDay \in 0..MaxFacDay
    /\ gasLeft \in Nat /\ gasSeen \in Nat \cup {NoGasFigure}
    /\ sellersTable \subseteq NewSellers
    /\ registering \in [NewSellers -> {"no", "checked", "inserted", "inactive", "active"}]
    /\ sale \in [Payments ->
         [pc : {"new", "verified", "answered", "settling", "done"},
          seller : FacSellers \cup {NoSale}, upto : BOOLEAN, asked : Nat,
          told : {"none", "refused", "settled", "failed", "not_charged"}]]
    /\ chain \in [Payments -> {"none", "sent", "mined", "reverted"}]
    /\ settledOn \in [0..MaxFacDay -> SUBSET Payments]
    /\ together \in [0..MaxFacDay -> Nat]
    /\ facFaults \in 0..MaxFacFaults

FacInit ==
    /\ facUp = TRUE
    /\ listed = {} /\ listFile = {}
    /\ counts = NoCounts /\ sharedCount = 0 /\ countsDay = 0 /\ facDay = 0
    /\ gasLeft = GasAtStart /\ gasSeen = NoGasFigure
    /\ sellersTable = {} /\ registering = [s \in NewSellers |-> "no"]
    /\ sale = [p \in Payments |-> NewSale]
    /\ chain = [p \in Payments |-> "none"]
    /\ settledOn = [d \in 0..MaxFacDay |-> {}]
    /\ together = [d \in 0..MaxFacDay |-> 0]
    /\ facFaults = 0

FacFault ==
    /\ facFaults < MaxFacFaults
    /\ facFaults' = facFaults + 1

SettlingFor(s) == {p \in Payments : sale[p].pc = "settling" /\ sale[p].seller \in s}

-----------------------------------------------------------------------------
(* The registry of sellers: sellers.ts *)

\* A day that is over is forgotten before anything is read (rollDay).
Rolled == IF countsDay = facDay
          THEN [counts |-> counts, shared |-> sharedCount]
          ELSE [counts |-> NoCounts, shared |-> 0]

\* Slip: the shared count is read before the day is rolled.
AllowanceUnrolled(s) ==
    IF s \notin listed THEN "none"
    ELSE IF sharedCount >= SharedDayCap THEN "shared allowance used up"
    ELSE IF Rolled.counts[s] >= SellerDayCap THEN "daily allowance reached"
    ELSE "none"

\* SellerRegistry.refuse
Allowance(s) ==
    IF s \notin listed THEN "none"
    ELSE IF Rolled.counts[s] >= SellerDayCap THEN "daily allowance reached"
    ELSE IF Rolled.shared >= SharedDayCap THEN "shared allowance used up"
    ELSE "none"

Roll == counts' = Rolled.counts /\ sharedCount' = Rolled.shared /\ countsDay' = facDay

\* Slip: a settlement is added to yesterday's count.
CountNotRolled(s) ==
    /\ counts' = [counts EXCEPT ![s] = @ + 1]
    /\ sharedCount' = IF s \in listed THEN sharedCount + 1 ELSE sharedCount
    /\ UNCHANGED countsDay

\* SellerRegistry.recordSettlement
CountSettlement(s) ==
    /\ counts' = [Rolled.counts EXCEPT ![s] = @ + 1]
    /\ sharedCount' = IF s \in listed THEN Rolled.shared + 1 ELSE Rolled.shared
    /\ countsDay' = facDay

\* Slip: the file is left as it was.
AddInMemory(s) == listed' = listed \cup {s} /\ UNCHANGED <<listFile, facFaults>>

\* SellerRegistry.add: a new seller is set in memory and the file rewritten
\* through a temporary file and a rename; the write may fail after the first.
Add(s) ==
    \/ /\ listed' = listed \cup {s}
       /\ listFile' = IF s \in listed THEN listFile ELSE listed \cup {s}
       /\ UNCHANGED facFaults
    \/ /\ FileFaults /\ s \notin listed
       /\ FacFault
       /\ listed' = listed \cup {s}
       /\ UNCHANGED listFile

-----------------------------------------------------------------------------
(* What the facilitator agrees to: guard.ts, and the hooks of index.ts *)

\* What is known of the gas when a registered seller asks: the figure of the
\* last minute, a new one, or none when the balance could not be read.
GasFigure(s, g) == IF s \in listed THEN g \in {gasSeen, gasLeft, NoGasFigure} ELSE g = gasSeen

\* guard.ts: the payout address is known, the amount within what was signed and
\* not below the minimum, but for an upto call that cost nothing.
GuardPasses(s, amount, upto) ==
    /\ s \in OwnSellers \cup listed
    /\ amount <= SignedAmount
    /\ (upto /\ amount = 0) \/ amount >= 1

\* allowanceRefusal: a registered seller has its allowance, and a reserve of
\* gas it may not touch; an unknown balance refuses nobody.
MayUseGas(s, g) ==
    s \in OwnSellers \/ (Allowance(s) = "none" /\ (g = NoGasFigure \/ g >= GasReserve))

Agrees(s, amount, upto, g) == GuardPasses(s, amount, upto) /\ MayUseGas(s, g)

\* The hooks ran: the day is rolled if a registered seller's allowance was read.
HooksRan(s, g) ==
    /\ gasSeen' = g
    /\ IF s \in listed THEN Roll ELSE UNCHANGED tallies

-----------------------------------------------------------------------------
(* A call that is paid for: middleware, handler, settlement *)

Sale(p, state) == sale' = [sale EXCEPT ![p] = state]

\* The buyer's payment is verified before the handler runs.
Verify(p, s, upto, g) ==
    /\ sale[p].pc = "new" /\ facUp /\ GasFigure(s, g)
    /\ Sale(p, IF Agrees(s, SignedAmount, upto, g)
               THEN [NewSale EXCEPT !.pc = "verified", !.seller = s, !.upto = upto]
               ELSE [NewSale EXCEPT !.pc = "done", !.seller = s, !.told = "refused"])
    /\ HooksRan(s, g)
    /\ UNCHANGED <<facUp, registry, facDay, gasLeft, chain, facHistory, facFaults>>

\* The facilitator does not answer: the call is not served.
VerifyUnanswered(p) ==
    /\ sale[p].pc = "new" /\ ~facUp
    /\ Sale(p, [NewSale EXCEPT !.pc = "done", !.told = "refused"])
    /\ UNCHANGED <<facUp, registry, tallies, facDay, gasLeft, gasSeen, chain, facHistory, facFaults>>

\* The handler failed, or the API behind the proxy did not answer in time: the
\* authorization is dropped.
HandlerFails(p) ==
    /\ sale[p].pc = "verified"
    /\ Sale(p, [sale[p] EXCEPT !.pc = "done", !.told = "not_charged"])
    /\ UNCHANGED <<facUp, registry, tallies, facDay, gasLeft, gasSeen, chain, facHistory, facFaults>>

\* uptoCharge: what the API behind said, at most the ceiling.
UptoCharge(said) == IF said > SignedAmount THEN SignedAmount ELSE said

\* The handler answered; an upto call says what it cost, or nothing, which
\* takes the whole ceiling.
HandlerAnswers(p, asked) ==
    /\ sale[p].pc = "verified"
    /\ sale[p].upto \/ asked = SignedAmount
    /\ Sale(p, [sale[p] EXCEPT !.pc = "answered", !.asked = UptoCharge(asked)])
    /\ UNCHANGED <<facUp, registry, tallies, facDay, gasLeft, gasSeen, chain, facHistory, facFaults>>

\* Settle: the same hooks, then the transfer is sent; none for an upto call
\* that cost nothing.
SettleStarts(p, g) ==
    LET s == sale[p].seller IN
    /\ sale[p].pc = "answered" /\ facUp /\ GasFigure(s, g)
    /\ HooksRan(s, g)
    /\ IF Agrees(s, sale[p].asked, sale[p].upto, g)
       THEN /\ Sale(p, [sale[p] EXCEPT !.pc = "settling"])
            /\ chain' = [chain EXCEPT ![p] = IF sale[p].asked = 0 THEN "none" ELSE "sent"]
            /\ together' = [together EXCEPT ![facDay] =
                 IF Cardinality(SettlingFor(NewSellers)) + 1 > @
                 THEN Cardinality(SettlingFor(NewSellers)) + 1 ELSE @]
       ELSE /\ Sale(p, [sale[p] EXCEPT !.pc = "done", !.told = "failed"])
            /\ UNCHANGED <<chain, together>>
    /\ UNCHANGED <<facUp, registry, facDay, gasLeft, settledOn, facFaults>>

\* The chain takes the transfer, at some time, if the signer can pay its gas
\* and the buyer has the money.
ChainTakes(p) ==
    /\ chain[p] = "sent"
    /\ \/ gasLeft > 0 /\ gasLeft' = gasLeft - 1 /\ chain' = [chain EXCEPT ![p] = "mined"]
       \/ UNCHANGED gasLeft /\ chain' = [chain EXCEPT ![p] = "reverted"]
    /\ UNCHANGED <<facUp, registry, tallies, facDay, gasSeen, sale, facHistory, facFaults>>

\* Slip: a transfer that is out counts as made.
AnyEnd(p) == TRUE

\* The transfer is on the chain, or there was none to make.
Succeeded(p) == chain[p] = "mined" \/ sale[p].asked = 0

\* The receipt is there: the settlement is counted and the seller told.
SettleReturns(p) ==
    LET s == sale[p].seller IN
    /\ sale[p].pc = "settling" /\ facUp
    /\ Succeeded(p)
    /\ CountSettlement(s)
    /\ settledOn' = [settledOn EXCEPT ![facDay] = @ \cup {p}]
    /\ \/ Sale(p, [sale[p] EXCEPT !.pc = "done", !.told = "settled"]) /\ UNCHANGED facFaults
       \/ \* the answer is lost on the way to the seller
          Sale(p, [sale[p] EXCEPT !.pc = "done", !.told = "failed"]) /\ FacFault
    /\ UNCHANGED <<facUp, registry, facDay, gasLeft, gasSeen, chain, together>>

\* The transfer was refused, or its receipt is not there after 30 s, although
\* it may come.
SettleFails(p) ==
    /\ sale[p].pc = "settling" /\ ~Succeeded(p)
    /\ Sale(p, [sale[p] EXCEPT !.pc = "done", !.told = "failed"])
    /\ UNCHANGED <<facUp, registry, tallies, facDay, gasLeft, gasSeen, chain, facHistory, facFaults>>

\* The facilitator is down when the seller settles.
SettleUnanswered(p) ==
    /\ sale[p].pc = "answered" /\ ~facUp
    /\ Sale(p, [sale[p] EXCEPT !.pc = "done", !.told = "failed"])
    /\ UNCHANGED <<facUp, registry, tallies, facDay, gasLeft, gasSeen, chain, facHistory, facFaults>>

-----------------------------------------------------------------------------
(* Registration: POST /v1/facilitator/sellers of the API *)

Registering(s, stage) == registering' = [registering EXCEPT ![s] = stage]

\* The signature is good and the table has room: read before the row is there.
RegisterCheck(s) ==
    /\ registering[s] \in {"no", "inactive"}
    /\ s \in sellersTable \/ Cardinality(sellersTable) < MaxSellers
    /\ Registering(s, "checked")
    /\ UNCHANGED <<facUp, listed, listFile, sellersTable, tallies, facDay, gasLeft, gasSeen, sale, chain, facHistory, facFaults>>

RegisterInsert(s) ==
    /\ registering[s] = "checked"
    /\ sellersTable' = sellersTable \cup {s}
    /\ Registering(s, "inserted")
    /\ UNCHANGED <<facUp, listed, listFile, tallies, facDay, gasLeft, gasSeen, sale, chain, facHistory, facFaults>>

\* The facilitator is told, best effort, and the seller whether it is active.
RegisterPush(s) ==
    /\ registering[s] = "inserted"
    /\ \/ /\ facUp /\ Add(s)
          /\ Registering(s, IF facFaults' = facFaults THEN "active" ELSE "inactive")
       \/ /\ ~facUp
          /\ Registering(s, "inactive")
          /\ UNCHANGED <<listed, listFile, facFaults>>
    /\ UNCHANGED <<facUp, sellersTable, tallies, facDay, gasLeft, gasSeen, sale, chain, facHistory>>

\* The API starts again and pushes one by one what its table holds; the
\* registrations that were under way are cut.
ApiSyncs ==
    /\ FacFault
    /\ registering' = [s \in NewSellers |->
         IF registering[s] \in {"checked", "inserted"} THEN "inactive" ELSE registering[s]]
    /\ IF facUp
       THEN listed' = listed \cup sellersTable
            /\ listFile' = IF sellersTable \subseteq listed THEN listFile ELSE listed'
       ELSE UNCHANGED <<listed, listFile>>
    /\ UNCHANGED <<facUp, sellersTable, tallies, facDay, gasLeft, gasSeen, sale, chain, facHistory>>

-----------------------------------------------------------------------------
(* The process and the day *)

\* The facilitator stops: what it was settling is lost to the sellers, who are
\* told nothing came back.
FacCrash ==
    /\ facUp /\ FacFault
    /\ facUp' = FALSE
    /\ sale' = [p \in Payments |->
         IF sale[p].pc = "settling" THEN [sale[p] EXCEPT !.pc = "done", !.told = "failed"] ELSE sale[p]]
    /\ UNCHANGED <<registry, tallies, facDay, gasLeft, gasSeen, chain, facHistory>>

\* It starts again: the sellers come from the file, the counts from zero.
FacStart ==
    /\ ~facUp
    /\ facUp' = TRUE
    /\ listed' = listFile
    /\ counts' = NoCounts /\ sharedCount' = 0 /\ countsDay' = facDay
    /\ gasSeen' = NoGasFigure
    /\ settledOn' = [settledOn EXCEPT ![facDay] = {}]
    /\ UNCHANGED <<listFile, sellersTable, registering, facDay, gasLeft, sale, chain, together, facFaults>>

\* Midnight, UTC.  What is under way then belongs to the day it ends in.
NextDay ==
    /\ facDay < MaxFacDay
    /\ facDay' = facDay + 1
    /\ together' = [together EXCEPT ![facDay + 1] = Cardinality(SettlingFor(NewSellers))]
    /\ UNCHANGED <<facUp, registry, tallies, gasLeft, gasSeen, sale, chain, settledOn, facFaults>>

GasFigures == 0..GasAtStart \cup {NoGasFigure}

FacNext ==
    \/ \E p \in Payments :
         \/ \E s \in FacSellers, upto \in BOOLEAN, g \in GasFigures : Verify(p, s, upto, g)
         \/ \E asked \in 0..(SignedAmount + 1) : HandlerAnswers(p, asked)
         \/ \E g \in GasFigures : SettleStarts(p, g)
         \/ VerifyUnanswered(p) \/ HandlerFails(p) \/ ChainTakes(p) \/ SettleReturns(p)
         \/ SettleFails(p) \/ SettleUnanswered(p)
    \/ \E s \in NewSellers : RegisterCheck(s) \/ RegisterInsert(s) \/ RegisterPush(s)
    \/ ApiSyncs \/ FacCrash \/ FacStart \/ NextDay

FacSpec == FacInit /\ [][FacNext]_facVars

-----------------------------------------------------------------------------
(* Properties *)

\* What the seller writes down is what happened: a sale reported settled was
\* taken for no more than the buyer signed, one reported as not charged (the
\* handler failed) or refused never reaches the chain.
SaleReportsTrue ==
    \A p \in Payments :
        /\ sale[p].told = "settled" => chain[p] = "mined" \/ (sale[p].upto /\ sale[p].asked = 0)
        /\ sale[p].told \in {"not_charged", "refused"} => chain[p] = "none"
        /\ chain[p] # "none" => sale[p].asked <= SignedAmount

\* The settlements of the day for some sellers, since the process started.
SettledToday(S) == Cardinality({p \in settledOn[facDay] : sale[p].seller \in S})

\* A day's settlements for a registered seller, and for all of them together,
\* pass the allowance by no more than those that were under way together, as
\* each is checked before and counted after: counted since the process started.
\* Nobody is refused for yesterday: an allowance is used up only when the
\* settlements of this day since the process started used it up.
AllowanceHeld ==
    /\ \A s \in NewSellers : SettledToday({s}) <= SellerDayCap - 1 + together[facDay]
    /\ SettledToday(NewSellers) <= SharedDayCap - 1 + together[facDay]
    /\ facUp => \A s \in listed :
         Allowance(s) # "none" =>
            \/ SettledToday({s}) >= SellerDayCap
            \/ SettledToday(NewSellers) >= SharedDayCap

\* "The list survives a restart in a file": a seller that was told it is active
\* is on the list whenever the facilitator runs.
ActiveSellersKept ==
    facUp => \A s \in NewSellers : registering[s] = "active" => s \in listed
=============================================================================
