-------------------------------- MODULE Lane --------------------------------
(***************************************************************************)
(* Bringing an agent's USDC to Arc: the `fund' command (packages/mcp), the *)
(* roads from Base and from Solana through Eco's Portal and Circle's CCTP  *)
(* (packages/lane), the deposit into and the withdrawal from Circle        *)
(* Gateway (packages/router).  Eco, the chains and Gateway are external.   *)
(***************************************************************************)
EXTENDS Integers, SequencesExt

CONSTANTS
    MoveAmount,      \* what the owner moves, in small units of USDC
    MoveFeeCap,      \* --max-fee
    KeepForGas,      \* --keep
    ArcGas,          \* gas of one deposit or mint on Arc, paid in USDC
    MaxMoves,        \* runs of the command
    MaxLaneFaults

ASSUME LaneAssumption ==
    /\ MoveAmount \in Nat \ {0} /\ MoveFeeCap \in 0..MoveAmount
    /\ KeepForGas \in Nat /\ ArcGas \in Nat
    /\ MaxMoves \in Nat /\ MaxLaneFaults \in Nat

Roads == {"base", "solana"}

VARIABLES
    fund,            \* the command
    purse,           \* the owner's USDC on the source chain, on Arc, in Gateway
    portalAllowance, \* what Eco's Portal may take on Base
    intents,         \* deposits sent to the Portal, and where they stand
    spent,           \* history: fees of the moves, gas on Arc
    laneFaults

laneVars == <<fund, purse, portalAllowance, intents, spent, laneFaults>>

NoPromise == [least |-> 0, delivers |-> 0, ours |-> TRUE]
NoFund == [pc |-> "idle", road |-> "base", promise |-> NoPromise, before |-> 0,
           grew |-> 0, deposit |-> 0, sent |-> 0, runs |-> 0]

\* What may be on its way: one transaction of the Portal.
IntentStates == {"sent", "funded", "burnt", "landed", "refunded", "reverted", "taken"}

LaneTypeOK ==
    /\ fund.pc \in {"idle", "quoting", "checked", "ready", "approving", "approved", "tried",
                    "confirming", "waiting", "arrived", "depositing",
                    "refused", "failed", "notYet", "kept", "done"}
    /\ fund.road \in Roads /\ fund.runs \in 0..MaxMoves /\ fund.sent \in 0..MaxMoves
    /\ purse \in [{"source", "arc", "gateway"} -> Int]
    /\ portalAllowance \in {0, MoveAmount}
    /\ \A i \in DOMAIN intents :
         /\ intents[i].state \in IntentStates
         /\ intents[i].road \in Roads /\ intents[i].delivers \in Nat /\ intents[i].ours \in BOOLEAN
    /\ spent \in [{"fees", "gas"} -> Nat] /\ laneFaults \in 0..MaxLaneFaults

LaneInit ==
    /\ fund = NoFund
    /\ purse = [source |-> 2 * MoveAmount, arc |-> 0, gateway |-> 0]
    /\ portalAllowance = 0 /\ intents = <<>>
    /\ spent = [fees |-> 0, gas |-> 0] /\ laneFaults = 0

LaneFault == laneFaults < MaxLaneFaults /\ laneFaults' = laneFaults + 1

Purse(part, n) == purse' = [purse EXCEPT ![part] = @ + n]

-----------------------------------------------------------------------------
(* The quote: what its transaction says, read from the transaction *)

\* One call of the intent's route.  An approval lets CCTP take the USDC it
\* burns; a burn names how much, the most CCTP may keep, and who is minted to.
Burns == [to : {"burn"}, amount : 1..MoveAmount, fee : 0..MoveAmount, toUs : BOOLEAN]
LaneCalls == Burns \cup {[to |-> k, amount |-> 0, fee |-> 0, toUs |-> FALSE] : k \in {"approve", "other"}}

\* A quote: do its words and its transaction name the chains, the wallets, the
\* deadlines and the amount that were asked?  The least it promises, the calls
\* of its route, and whether the vault it names is this intent's.
LaneQuotes == [asAsked : BOOLEAN, least : 0..(MoveAmount + 1), ours : BOOLEAN,
               calls : SeqOf(LaneCalls, 2)]

IsBurn(c) == c.to = "burn"

\* What the call at place i burns, and what of that is minted.
BurnedBy(calls, i) == IF i \in DOMAIN calls /\ IsBurn(calls[i]) THEN calls[i].amount ELSE 0
MintedBy(calls, i) == IF i \in DOMAIN calls /\ IsBurn(calls[i]) THEN calls[i].amount - calls[i].fee ELSE 0
Burned(calls) == BurnedBy(calls, 1) + BurnedBy(calls, 2)
Delivered(calls) == MintedBy(calls, 1) + MintedBy(calls, 2)

\* What both roads refuse: other words than were asked, a promise that makes no
\* sense, a fee above the cap, no call at all.
PromiseHolds(q) ==
    /\ q.asAsked
    /\ q.least > 0 /\ q.least <= MoveAmount
    /\ MoveAmount - q.least <= MoveFeeCap
    /\ q.calls # <<>>

\* Slip: what CCTP may keep is not counted.
BaseQuoteNoCctpFee(q) ==
    /\ PromiseHolds(q)
    /\ \A i \in DOMAIN q.calls : q.calls[i].to # "other" /\ (IsBurn(q.calls[i]) => q.calls[i].toUs)
    /\ Burned(q.calls) = MoveAmount

\* checkEcoQuoteEvm: nothing but approvals of CCTP and its burns to us, which
\* together burn what was asked and deliver what is promised.
BaseQuoteHolds(q) ==
    /\ PromiseHolds(q)
    /\ \A i \in DOMAIN q.calls : q.calls[i].to # "other" /\ (IsBurn(q.calls[i]) => q.calls[i].toUs)
    /\ Burned(q.calls) = MoveAmount
    /\ Delivered(q.calls) >= q.least

\* checkEcoQuote: nothing but burns to us, each of which delivers the promise.
SolanaQuoteHolds(q) ==
    /\ PromiseHolds(q)
    /\ \A i \in DOMAIN q.calls :
         /\ IsBurn(q.calls[i]) /\ q.calls[i].toUs
         /\ q.calls[i].amount - q.calls[i].fee >= q.least

QuoteHolds(q) == IF fund.road = "base" THEN BaseQuoteHolds(q) ELSE SolanaQuoteHolds(q)

\* A burn of more than the vault holds, or of less than nothing after its fee,
\* cannot be made: the solver would not be paid for such an intent.
Doable(q) ==
    /\ Burned(q.calls) <= MoveAmount
    /\ \A i \in DOMAIN q.calls : q.calls[i].amount >= q.calls[i].fee

-----------------------------------------------------------------------------
(* The command *)

Pc(next) == fund' = [fund EXCEPT !.pc = next]
Ended == fund.pc \in {"idle", "refused", "failed", "notYet", "kept", "done"}

\* move, sweep: the balance of the source is read first.
FundStart(road) ==
    /\ Ended /\ fund.runs < MaxMoves
    /\ fund' = [NoFund EXCEPT !.pc = IF MoveAmount > purse.source THEN "refused" ELSE "quoting",
                              !.road = road, !.runs = fund.runs + 1]
    /\ UNCHANGED <<purse, portalAllowance, intents, spent, laneFaults>>

\* Slip: the vault in the quote is believed.
VaultBelieved(q) == TRUE

\* On Base the vault must be the one the Portal derives for the intent; on
\* Solana it is an account of the program itself.
VaultHolds(q) == fund.road = "base" => q.ours

\* Eco's answer; a quote is dropped at the first thing that differs.  What is
\* beside the instruction on Solana is taken to be what the instruction does.
FundQuoted ==
    /\ fund.pc = "quoting"
    /\ \E q \in LaneQuotes :
         /\ Doable(q) /\ (fund.road = "solana" => q.ours)
         /\ fund' = IF QuoteHolds(q) /\ VaultHolds(q)
                    THEN [fund EXCEPT !.pc = "checked",
                            !.promise = [least |-> q.least, delivers |-> Delivered(q.calls), ours |-> q.ours]]
                    ELSE [fund EXCEPT !.pc = "refused"]
    /\ UNCHANGED <<purse, portalAllowance, intents, spent, laneFaults>>

\* No quote, too little gas on Base, or --dry-run: nothing is signed.
FundStops ==
    /\ \/ fund.pc = "quoting" /\ Pc("refused")
       \/ fund.pc = "checked" /\ fund.road = "base" /\ Pc("refused")
       \/ fund.pc = "checked" /\ Pc("done")
    /\ UNCHANGED <<purse, portalAllowance, intents, spent, laneFaults>>

\* The wallet on Arc is read before anything is signed.
FundReads ==
    /\ fund.pc = "checked"
    /\ fund' = [fund EXCEPT !.pc = IF fund.road = "solana" THEN "tried"
                                   ELSE IF portalAllowance < MoveAmount THEN "ready" ELSE "approved",
                            !.before = purse.arc]
    /\ UNCHANGED <<purse, portalAllowance, intents, spent, laneFaults>>

\* approve, and its receipt: good, reverted, or not there after 90 s although
\* the approval may be.
FundApproves ==
    /\ fund.pc = "ready"
    /\ \/ portalAllowance' = MoveAmount /\ Pc("approved") /\ UNCHANGED laneFaults
       \/ UNCHANGED portalAllowance /\ Pc("refused") /\ LaneFault
       \/ portalAllowance' \in {0, MoveAmount} /\ Pc("failed") /\ LaneFault
    /\ UNCHANGED <<purse, intents, spent>>

\* The transaction is tried without sending: the Portal refuses what is no
\* longer allowed or held, or the node asked has not seen the approval.
FundTries ==
    /\ fund.pc = "approved"
    /\ \/ portalAllowance >= MoveAmount /\ purse.source >= MoveAmount /\ Pc("tried") /\ UNCHANGED laneFaults
       \/ Pc("refused") /\ LaneFault
    /\ UNCHANGED <<purse, portalAllowance, intents, spent>>

\* Signed and sent; the answer of the node may be lost.
FundSends ==
    /\ fund.pc = "tried"
    /\ intents' = Append(intents, [state |-> "sent", road |-> fund.road,
                                  delivers |-> fund.promise.delivers, ours |-> fund.promise.ours])
    /\ \/ fund' = [fund EXCEPT !.pc = "confirming", !.sent = Len(intents')] /\ UNCHANGED laneFaults
       \/ Pc("failed") /\ LaneFault
    /\ UNCHANGED <<purse, portalAllowance, spent>>

\* The receipt: confirmed, failed, or not there after 90 s.
FundConfirms ==
    /\ fund.pc = "confirming"
    /\ LET tx == intents[fund.sent].state IN
       \/ tx \notin {"sent", "reverted"} /\ Pc("waiting") /\ UNCHANGED laneFaults
       \/ tx = "reverted" /\ Pc("refused") /\ UNCHANGED laneFaults
       \/ Pc(IF fund.road = "base" THEN "failed" ELSE "refused") /\ LaneFault
    /\ UNCHANGED <<purse, portalAllowance, intents, spent>>

\* arrivalOnArc: the wallet grew by what was promised, or the time is up.
FundWaits ==
    /\ fund.pc = "waiting"
    /\ LET grew == purse.arc - fund.before IN
       \/ grew >= fund.promise.least /\ fund' = [fund EXCEPT !.pc = "arrived", !.grew = grew]
       \/ grew < fund.promise.least /\ Pc("notYet")
    /\ UNCHANGED <<purse, portalAllowance, intents, spent, laneFaults>>

\* Slip: what arrived is deposited whole.
DepositAll(arrived, walletNow) == arrived

\* depositAmount: what arrived, but never the last `keep' of the wallet.
DepositAmount(arrived, walletNow) ==
    LET spendable == IF walletNow > KeepForGas THEN walletNow - KeepForGas ELSE 0
    IN IF arrived < spendable THEN arrived ELSE spendable

\* The wallet is read again, and what can go into Gateway is; or --no-deposit.
FundDeposits ==
    /\ fund.pc = "arrived"
    /\ LET amount == DepositAmount(fund.grew, purse.arc) IN
       \/ fund' = [fund EXCEPT !.pc = IF amount = 0 THEN "kept" ELSE "depositing", !.deposit = amount]
       \/ Pc("done")
    /\ UNCHANGED <<purse, portalAllowance, intents, spent, laneFaults>>

\* GatewayClient.deposit: the money and its gas leave the wallet, or the
\* wallet cannot pay, or the answer is lost.
GatewayTakes(n, ended) ==
    \/ /\ purse.arc >= n + ArcGas
       /\ purse' = [purse EXCEPT !.arc = @ - n - ArcGas, !.gateway = @ + n]
       /\ spent' = [spent EXCEPT !.gas = @ + ArcGas]
       /\ \/ Pc(ended) /\ UNCHANGED laneFaults
          \/ Pc("failed") /\ LaneFault
    \/ /\ Pc("failed") /\ UNCHANGED <<purse, spent>>
       /\ IF purse.arc >= n + ArcGas THEN LaneFault ELSE UNCHANGED laneFaults

FundDeposited ==
    /\ fund.pc = "depositing"
    /\ GatewayTakes(fund.deposit, "done")
    /\ UNCHANGED <<portalAllowance, intents>>

\* The owner's own deposit, as the note of a move that is late tells him to.
OwnerDeposits(n) ==
    /\ Ended /\ fund.pc # "idle" /\ n <= purse.arc
    /\ GatewayTakes(n, fund.pc)
    /\ UNCHANGED <<portalAllowance, intents>>

\* withdraw: Gateway burns, at most the fee allowed on top, and mints on Arc.
OwnerWithdraws(n) ==
    /\ Ended /\ n <= purse.gateway /\ LaneFault
    /\ purse' = [purse EXCEPT !.gateway = @ - n, !.arc = @ + n - ArcGas]
    /\ n >= ArcGas /\ spent' = [spent EXCEPT !.gas = @ + ArcGas]
    /\ UNCHANGED <<fund, portalAllowance, intents>>

-----------------------------------------------------------------------------
(* Eco, the chains and CCTP *)

Intent(i, state) == intents' = [intents EXCEPT ![i].state = state]

\* The Portal pulls the USDC into the vault the transaction names, on Base out
\* of the allowance.
PortalFunds(i) ==
    LET base == intents[i].road = "base" IN
    /\ intents[i].state = "sent"
    /\ \/ /\ purse.source >= MoveAmount /\ (base => portalAllowance >= MoveAmount)
          /\ Purse("source", -MoveAmount)
          /\ portalAllowance' = IF base THEN 0 ELSE portalAllowance
          /\ Intent(i, IF intents[i].ours THEN "funded" ELSE "taken")
       \/ Intent(i, "reverted") /\ UNCHANGED <<purse, portalAllowance>>
    /\ UNCHANGED <<fund, spent, laneFaults>>

\* A solver burns through CCTP and takes the reward, or nobody does and the
\* vault goes back to its creator.
SolverBurns(i) ==
    /\ intents[i].state = "funded"
    /\ \/ Intent(i, "burnt") /\ spent' = [spent EXCEPT !.fees = @ + MoveAmount - intents[i].delivers] /\ UNCHANGED purse
       \/ Intent(i, "refunded") /\ Purse("source", MoveAmount) /\ UNCHANGED spent
    /\ UNCHANGED <<fund, portalAllowance, laneFaults>>

\* USDC is minted on Arc, soon or late.
Minted(i) ==
    /\ intents[i].state = "burnt"
    /\ Intent(i, "landed") /\ Purse("arc", intents[i].delivers)
    /\ UNCHANGED <<fund, portalAllowance, spent, laneFaults>>

-----------------------------------------------------------------------------
LaneNext ==
    \/ \E road \in Roads : FundStart(road)
    \/ FundQuoted \/ FundStops \/ FundReads \/ FundApproves \/ FundTries \/ FundSends \/ FundConfirms
    \/ FundWaits \/ FundDeposits \/ FundDeposited
    \/ \E n \in 1..(2 * MoveAmount) : OwnerDeposits(n) \/ OwnerWithdraws(n)
    \/ \E i \in DOMAIN intents : PortalFunds(i) \/ SolverBurns(i) \/ Minted(i)

LaneSpec == LaneInit /\ [][LaneNext]_laneVars

-----------------------------------------------------------------------------
(* Properties *)

InState(S) == {i \in DOMAIN intents : intents[i].state \in S}

\* What is between the wallets, in a vault or burnt and not minted yet: one
\* pair for each small unit of each intent.
Worth(i) == IF intents[i].state = "funded" THEN MoveAmount ELSE intents[i].delivers
UnitsOnTheWay ==
    {u \in InState({"funded", "burnt"}) \X (1..MoveAmount) : u[2] <= Worth(u[1])}
OnItsWay == Cardinality(UnitsOnTheWay)

\* Whatever Eco quotes, and whenever the command gives up, the owner's money is
\* on the source, on its way, on Arc or in Gateway: a move never costs more
\* than --max-fee and no dollar goes where nobody minted it.  A deposit of the
\* command never takes the gas it needs itself, if what it keeps covers it.
MoneyArrives ==
    /\ purse.source + OnItsWay + purse.arc + purse.gateway + spent.fees + spent.gas = 2 * MoveAmount
    /\ spent.fees <= MoveFeeCap * Cardinality(InState({"burnt", "landed"}))
    /\ fund.pc = "depositing" /\ KeepForGas >= ArcGas => purse.arc >= fund.deposit + ArcGas
=============================================================================
