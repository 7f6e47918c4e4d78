----------------------------- MODULE SpendLimit -----------------------------
(***************************************************************************)
(* What the rail promises its operator: an account that takes on a payment *)
(* only if, at that very moment, the limits of the policy allow it on top  *)
(* of what is already held, and that afterwards can only hold less for it. *)
(***************************************************************************)
EXTENDS SpendPolicy

VARIABLES
    now,    \* the clock
    held    \* per attempt: what the account holds for it, NoRow if nothing

limitVars == <<now, held>>

Init ==
    /\ now = 0
    /\ held = [c \in Calls |-> NoRow]

\* The payment is taken on: every limit is respected with it included.
Commit(c, seller, price, scheme) ==
    /\ held[c] = NoRow
    /\ EvaluatePolicy(seller, price, Exposure(held, now, seller), TRUE)
    /\ held' = [held EXCEPT ![c] = NewRow("signed", seller, price, scheme, now)]
    /\ UNCHANGED now

\* It cost less than was held, or nothing at all.
Lower(c, amount) ==
    /\ held[c] # NoRow
    /\ amount <= held[c].amount
    /\ held' = [held EXCEPT ![c].amount = amount]
    /\ UNCHANGED now

Drop(c) ==
    /\ held[c] # NoRow
    /\ held' = [held EXCEPT ![c] = NoRow]
    /\ UNCHANGED now

TimePasses ==
    /\ now' = now + 1
    /\ UNCHANGED held

Next ==
    \/ \E c \in Calls, s \in Sellers, p \in Prices, scheme \in Schemes :
          Commit(c, s, p, scheme)
    \/ \E c \in Calls, a \in 0..MaxPrice : Lower(c, a)
    \/ \E c \in Calls : Drop(c)
    \/ TimePasses

Spec == Init /\ [][Next]_limitVars

-----------------------------------------------------------------------------

TypeOK ==
    /\ now \in Nat
    /\ held \in [Calls -> Row]

\* At every moment the payments of the last day stay within both caps and
\* those of the rate window within its maximum.
WithinLimits ==
    /\ SpentSince(held, now - DayWindow) <= DailyCap
    /\ \A s \in Sellers : SpentWithSince(held, now - DayWindow, s) <= SellerCap
    /\ CountSince(held, now - RateWindow) <= RateMax
=============================================================================
