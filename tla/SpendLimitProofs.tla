-------------------------- MODULE SpendLimitProofs --------------------------
(***************************************************************************)
(* The account of SpendLimit keeps its promise for every set of attempts,  *)
(* every limit, every price and without any bound on the clock.            *)
(***************************************************************************)
EXTENDS SpendLimit, SpendPolicyTheorems

\* An empty account shows nothing.
LEMMA NothingHeld ==
    ASSUME NEW book, \A c \in Calls : book[c].status = "none", NEW since \in Int
    PROVE  /\ SpentSince(book, since) = 0
           /\ \A s : SpentWithSince(book, since, s) = 0
           /\ CountSince(book, since) = 0
<1>1. CountedRows(book, since) = {}
  BY DEF CountedRows, SPENT
<1>2. UnitsOf(book, {}) = {}
  BY DEF UnitsOf
<1>3. \A s : {c \in CountedRows(book, since) : book[c].payTo = s} = {}
  BY <1>1
<1> QED
  BY <1>1, <1>2, <1>3, FS_EmptySet DEF SpentSince, SpentWithSince, CountSince

LEMMA NoRowType == NoRow \in Row
BY PolicyAssumption DEF NoRow, Row, Statuses, Schemes

\* Type correctness of the account.
THEOREM LimitTypeCorrect == Spec => []TypeOK
<1>1. Init => TypeOK
  BY NoRowType DEF Init, TypeOK
<1>2. TypeOK /\ [Next]_limitVars => TypeOK'
  <2> SUFFICES ASSUME TypeOK, [Next]_limitVars PROVE TypeOK'
    OBVIOUS
  <2> USE DEF TypeOK
  <2>1. ASSUME NEW c \in Calls, NEW s \in Sellers, NEW p \in Prices,
               NEW scheme \in Schemes, Commit(c, s, p, scheme)
        PROVE  TypeOK'
    <3>1. NewRow("signed", s, p, scheme, now) \in Row
      BY PolicyAssumption DEF NewRow, Row, Statuses, Prices
    <3> QED
      BY <2>1, <3>1 DEF Commit
  <2>2. ASSUME NEW c \in Calls, NEW a \in 0..MaxPrice, Lower(c, a)
        PROVE  TypeOK'
    BY <2>2 DEF Lower, Row
  <2>3. ASSUME NEW c \in Calls, Drop(c) PROVE TypeOK'
    BY <2>3, NoRowType DEF Drop
  <2>4. CASE TimePasses
    BY <2>4 DEF TimePasses
  <2>5. CASE UNCHANGED limitVars
    BY <2>5 DEF limitVars
  <2> QED
    BY <2>1, <2>2, <2>3, <2>4, <2>5 DEF Next
<1> QED
  BY <1>1, <1>2, PTL DEF Spec

LEMMA LaterWindow ==
    ASSUME NEW t \in Nat, NEW u \in Nat, NEW width \in Nat, t <= u
    PROVE  t - width \in Int /\ u - width \in Int /\ t - width <= u - width
OBVIOUS

\* A step that only makes the account lighter, or the clock later, keeps
\* every limit.
LEMMA LighterKeepsLimits ==
    ASSUME TypeOK, TypeOK', WithinLimits, NoHeavier(held', held), now <= now'
    PROVE  WithinLimits'
<1> DEFINE day == now - DayWindow   rate == now - RateWindow
           newDay == now' - DayWindow   newRate == now' - RateWindow
<1>1. /\ day \in Int /\ rate \in Int /\ newDay \in Int /\ newRate \in Int
      /\ day <= newDay /\ rate <= newRate
  <2>1. now \in Nat /\ now' \in Nat
    BY DEF TypeOK
  <2>2. DayWindow \in Nat /\ RateWindow \in Nat
    BY PolicyAssumption
  <2> QED
    BY <2>1, <2>2, LaterWindow
<1>2. /\ SpentSince(held', newDay) <= SpentSince(held, day)
      /\ \A s : SpentWithSince(held', newDay, s) <= SpentWithSince(held, day, s)
  BY <1>1, NoHeavierShowsNoMore DEF TypeOK
<1>3. CountSince(held', newRate) <= CountSince(held, rate)
  BY <1>1, NoHeavierShowsNoMore DEF TypeOK
<1>4. /\ SpentSince(held, day) \in Nat /\ SpentSince(held', newDay) \in Nat
      /\ CountSince(held, rate) \in Nat /\ CountSince(held', newRate) \in Nat
      /\ \A s : SpentWithSince(held, day, s) \in Nat
      /\ \A s : SpentWithSince(held', newDay, s) \in Nat
  BY <1>1, FiguresType DEF TypeOK
<1>5. /\ SpentSince(held, day) <= DailyCap
      /\ \A s \in Sellers : SpentWithSince(held, day, s) <= SellerCap
      /\ CountSince(held, rate) <= RateMax
  BY DEF WithinLimits
<1> HIDE DEF day, rate, newDay, newRate
<1>6. SpentSince(held', newDay) <= DailyCap
  BY <1>2, <1>4, <1>5, PolicyAssumption
<1>7. \A s \in Sellers : SpentWithSince(held', newDay, s) <= SellerCap
  BY <1>2, <1>4, <1>5, PolicyAssumption
<1>8. CountSince(held', newRate) <= RateMax
  BY <1>3, <1>4, <1>5, PolicyAssumption
<1> QED
  BY <1>6, <1>7, <1>8 DEF WithinLimits, newDay, newRate

\* At every moment the payments of the last day stay within both caps and
\* those of the rate window within its maximum.
THEOREM LimitHolds == Spec => []WithinLimits
<1>1. Init => WithinLimits
  <2> SUFFICES ASSUME Init PROVE WithinLimits
    OBVIOUS
  <2>1. \A c \in Calls : held[c].status = "none"
    BY DEF Init, NoRow
  <2>2. now - DayWindow \in Int /\ now - RateWindow \in Int
    BY PolicyAssumption DEF Init
  <2> QED
    BY <2>1, <2>2, NothingHeld, PolicyAssumption DEF WithinLimits
<1>2. TypeOK /\ TypeOK' /\ WithinLimits /\ [Next]_limitVars => WithinLimits'
  <2> SUFFICES ASSUME TypeOK, TypeOK', WithinLimits, [Next]_limitVars
               PROVE  WithinLimits'
    OBVIOUS
  <2>1. ASSUME NEW c \in Calls, NEW s \in Sellers, NEW p \in Prices,
               NEW scheme \in Schemes, Commit(c, s, p, scheme)
        PROVE  WithinLimits'
    <3> DEFINE row  == NewRow("signed", s, p, scheme, now)
               seen == Exposure(held, now, s)
               day  == now - DayWindow
               rate == now - RateWindow
    <3>1. row \in Row /\ row.amount = p /\ row.payTo = s
      BY PolicyAssumption DEF NewRow, Row, Statuses, Prices, TypeOK
    <3>2. day \in Int /\ rate \in Int /\ p \in Nat
      BY PolicyAssumption DEF TypeOK, Prices
    <3>3. /\ SpentSince(held, day) \in Nat /\ SpentSince(held', day) \in Nat
          /\ CountSince(held, rate) \in Nat /\ CountSince(held', rate) \in Nat
          /\ \A z : SpentWithSince(held, day, z) \in Nat
          /\ \A z : SpentWithSince(held', day, z) \in Nat
      BY <3>2, FiguresType DEF TypeOK
    <3>4. /\ SpentSince(held, day) + p <= DailyCap
          /\ SpentWithSince(held, day, s) + p <= SellerCap
          /\ CountSince(held, rate) < RateMax
      BY <2>1 DEF Commit, EvaluatePolicy, Exposure
    <3>5. held' = [held EXCEPT ![c] = row] /\ now' = now
      BY <2>1 DEF Commit
    <3> HIDE DEF row
    <3>6. /\ SpentSince(held', day) <= SpentSince(held, day) + p
          /\ SpentWithSince(held', day, s) <= SpentWithSince(held, day, s) + p
          /\ \A z : z # s => SpentWithSince(held', day, z) <= SpentWithSince(held, day, z)
      BY <3>1, <3>2, <3>5, NewRowShowsItsPrice DEF TypeOK
    <3>7. CountSince(held', rate) <= CountSince(held, rate) + 1
      BY <3>1, <3>2, <3>5, NewRowShowsItsPrice DEF TypeOK
    <3>8. \A z \in Sellers : SpentWithSince(held, day, z) <= SellerCap
      BY DEF WithinLimits
    <3> HIDE DEF day, rate
    <3>9. SpentSince(held', day) <= DailyCap
      BY <3>2, <3>3, <3>4, <3>6, PolicyAssumption
    <3>10. ASSUME NEW z \in Sellers PROVE SpentWithSince(held', day, z) <= SellerCap
      BY <3>2, <3>3, <3>4, <3>6, <3>8, PolicyAssumption
    <3>11. CountSince(held', rate) <= RateMax
      BY <3>3, <3>4, <3>7, PolicyAssumption
    <3> QED
      BY <3>5, <3>9, <3>10, <3>11 DEF WithinLimits, day, rate
  <2>2. ASSUME NEW c \in Calls, NEW a \in 0..MaxPrice, Lower(c, a)
        PROVE  WithinLimits'
    <3>1. NoHeavier(held', held)
      BY <2>2 DEF Lower, NoHeavier, TypeOK, Row
    <3> QED
      BY <2>2, <3>1, LighterKeepsLimits DEF Lower, TypeOK
  <2>3. ASSUME NEW c \in Calls, Drop(c) PROVE WithinLimits'
    <3>1. NoHeavier(held', held)
      BY <2>3 DEF Drop, NoHeavier, TypeOK, Row, NoRow, SPENT
    <3> QED
      BY <2>3, <3>1, LighterKeepsLimits DEF Drop, TypeOK
  <2>4. CASE TimePasses
    <3>1. NoHeavier(held', held)
      BY <2>4 DEF TimePasses, NoHeavier, TypeOK, Row
    <3> QED
      BY <2>4, <3>1, LighterKeepsLimits DEF TimePasses, TypeOK
  <2>5. CASE UNCHANGED limitVars
    BY <2>5 DEF limitVars, WithinLimits
  <2> QED
    BY <2>1, <2>2, <2>3, <2>4, <2>5 DEF Next
<1> QED
  BY <1>1, <1>2, LimitTypeCorrect, PTL DEF Spec
=============================================================================
