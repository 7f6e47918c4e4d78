------------------------- MODULE SpendPolicyTheorems -------------------------
(***************************************************************************)
(* What the ledger's figures do when the ledger changes, for every set of  *)
(* attempts, every limit and every price: the arithmetic the proofs of     *)
(* SpendLimitProofs and RailProofs stand on.                               *)
(***************************************************************************)
EXTENDS SpendPolicy, FiniteSetTheorems, TLAPS

\* The ledger b1 holds no more than b2: what it counts as spent, b2 counts
\* too, at the same moment, for the same seller and for at least the amount.
NoHeavier(b1, b2) ==
    \A c \in Calls : b1[c].status \in SPENT =>
        /\ b2[c].status \in SPENT
        /\ b2[c].payTo = b1[c].payTo
        /\ b2[c].at = b1[c].at
        /\ b1[c].amount <= b2[c].amount

-----------------------------------------------------------------------------

\* The units of a set of rows are finitely many: their number is a sum.
LEMMA UnitsFinite ==
    ASSUME NEW book \in [Calls -> Row], NEW rows \in SUBSET Calls
    PROVE  /\ IsFiniteSet(UnitsOf(book, rows))
           /\ Cardinality(UnitsOf(book, rows)) \in Nat
<1>1. IsFiniteSet(rows)
  BY PolicyAssumption, FS_Subset
<1>2. IsFiniteSet(Prices)
  BY PolicyAssumption, FS_Interval DEF Prices
<1>3. IsFiniteSet(rows \X Prices)
  BY <1>1, <1>2, FS_Product
<1>4. UnitsOf(book, rows) \in SUBSET (rows \X Prices)
  BY DEF UnitsOf
<1>5. IsFiniteSet(UnitsOf(book, rows))
  BY <1>3, <1>4, FS_Subset
<1> QED
  BY <1>5, FS_CardinalityType

LEMMA CountedFinite ==
    ASSUME NEW book \in [Calls -> Row], NEW since \in Int
    PROVE  /\ CountedRows(book, since) \in SUBSET Calls
           /\ IsFiniteSet(CountedRows(book, since))
           /\ CountSince(book, since) \in Nat
<1>1. CountedRows(book, since) \in SUBSET Calls
  BY DEF CountedRows
<1>2. IsFiniteSet(CountedRows(book, since))
  BY <1>1, PolicyAssumption, FS_Subset
<1> QED
  BY <1>1, <1>2, FS_CardinalityType DEF CountSince

\* Every figure the rail asks the ledger for is a number.
LEMMA FiguresType ==
    ASSUME NEW book \in [Calls -> Row], NEW since \in Int
    PROVE  /\ SpentSince(book, since) \in Nat
           /\ \A s : SpentWithSince(book, since, s) \in Nat
           /\ CountSince(book, since) \in Nat
<1>1. SpentSince(book, since) \in Nat
  BY CountedFinite, UnitsFinite DEF SpentSince
<1>2. ASSUME NEW s PROVE SpentWithSince(book, since, s) \in Nat
  <2>1. {c \in CountedRows(book, since) : book[c].payTo = s} \in SUBSET Calls
    BY DEF CountedRows
  <2> QED
    BY <2>1, UnitsFinite DEF SpentWithSince
<1> QED
  BY <1>1, <1>2, CountedFinite

LEMMA ExposureType ==
    ASSUME NEW book \in [Calls -> Row], NEW t \in Nat, NEW seller
    PROVE  Exposure(book, t, seller) \in [today : Nat, seller : Nat, count : Nat]
<1>1. t - DayWindow \in Int /\ t - RateWindow \in Int
  BY PolicyAssumption
<1> QED
  BY <1>1, FiguresType DEF Exposure

\* A ledger that holds no more, looked at from no earlier, shows no more.
LEMMA NoHeavierShowsNoMore ==
    ASSUME NEW b1 \in [Calls -> Row], NEW b2 \in [Calls -> Row],
           NoHeavier(b1, b2), NEW s1 \in Int, NEW s2 \in Int, s2 <= s1
    PROVE  /\ SpentSince(b1, s1) <= SpentSince(b2, s2)
           /\ \A s : SpentWithSince(b1, s1, s) <= SpentWithSince(b2, s2, s)
           /\ CountSince(b1, s1) <= CountSince(b2, s2)
<1> DEFINE with(b, since, s) == {c \in CountedRows(b, since) : b[c].payTo = s}
<1>1. CountedRows(b1, s1) \subseteq CountedRows(b2, s2)
  BY DEF CountedRows, NoHeavier, Row
<1>2. \A c \in CountedRows(b1, s1) : b1[c].amount <= b2[c].amount
  BY DEF CountedRows, NoHeavier
<1>3. ASSUME NEW r1 \in SUBSET CountedRows(b1, s1), NEW r2 \in SUBSET Calls,
             r1 \subseteq r2
      PROVE  Cardinality(UnitsOf(b1, r1)) <= Cardinality(UnitsOf(b2, r2))
  <2>1. UnitsOf(b1, r1) \in SUBSET UnitsOf(b2, r2)
    <3> SUFFICES ASSUME NEW u \in r1 \X Prices, u[2] <= b1[u[1]].amount
                 PROVE  u \in r2 \X Prices /\ u[2] <= b2[u[1]].amount
      BY DEF UnitsOf
    <3>1. u[1] \in CountedRows(b1, s1) /\ u[1] \in Calls /\ u[1] \in r2
      BY <1>3 DEF CountedRows
    <3>2. b1[u[1]].amount <= b2[u[1]].amount
      BY <3>1, <1>2
    <3>3. u[2] \in Int /\ b1[u[1]].amount \in Int /\ b2[u[1]].amount \in Int
      BY <3>1 DEF Prices, Row
    <3> QED
      BY <3>1, <3>2, <3>3
  <2> QED
    BY <2>1, <1>3, UnitsFinite, FS_Subset
<1>4. SpentSince(b1, s1) <= SpentSince(b2, s2)
  BY <1>1, <1>3, CountedFinite DEF SpentSince
<1>5. ASSUME NEW s PROVE SpentWithSince(b1, s1, s) <= SpentWithSince(b2, s2, s)
  <2>1. with(b1, s1, s) \in SUBSET CountedRows(b1, s1)
    OBVIOUS
  <2>2. with(b2, s2, s) \in SUBSET Calls
    BY DEF CountedRows
  <2>3. with(b1, s1, s) \subseteq with(b2, s2, s)
    BY <1>1 DEF CountedRows, NoHeavier
  <2> QED
    BY <2>1, <2>2, <2>3, <1>3 DEF SpentWithSince
<1>6. CountSince(b1, s1) <= CountSince(b2, s2)
  BY <1>1, CountedFinite, FS_Subset DEF CountSince
<1> QED
  BY <1>4, <1>5, <1>6

\* One new row for `price' units shows at most `price' more, and only with
\* its own seller, and at most one payment more.
LEMMA NewRowShowsItsPrice ==
    ASSUME NEW book \in [Calls -> Row], NEW c \in Calls, NEW row \in Row,
           NEW since \in Int
    PROVE  LET new == [book EXCEPT ![c] = row]
           IN  /\ SpentSince(new, since) <= SpentSince(book, since) + row.amount
               /\ SpentWithSince(new, since, row.payTo)
                    <= SpentWithSince(book, since, row.payTo) + row.amount
               /\ \A s : s # row.payTo =>
                    SpentWithSince(new, since, s) <= SpentWithSince(book, since, s)
               /\ CountSince(new, since) <= CountSince(book, since) + 1
<1> DEFINE new == [book EXCEPT ![c] = row]
           own == {c} \X (1..row.amount)
           with(b, s) == {d \in CountedRows(b, since) : b[d].payTo = s}
<1>1. new \in [Calls -> Row]
  OBVIOUS
<1>2. row.amount \in Nat /\ row.amount <= MaxPrice
  BY PolicyAssumption DEF Row
<1>3. IsFiniteSet(own) /\ Cardinality(own) = row.amount
  <2>1. IsFiniteSet({c}) /\ Cardinality({c}) = 1
    BY FS_Singleton
  <2>2. IsFiniteSet(1..row.amount) /\ Cardinality(1..row.amount) = row.amount
    BY <1>2, FS_Interval
  <2> HIDE DEF new
  <2>3. /\ IsFiniteSet({c} \X (1..row.amount))
        /\ Cardinality({c} \X (1..row.amount)) = 1 * row.amount
    BY <2>1, <2>2, FS_Product, Zenon
  <2> QED
    BY <1>2, <2>3
<1>4. CountedRows(new, since) \subseteq CountedRows(book, since) \cup {c}
  BY DEF CountedRows
<1>5. ASSUME NEW r1 \in SUBSET Calls, NEW r2 \in SUBSET Calls, r1 \subseteq r2 \cup {c}
      PROVE  Cardinality(UnitsOf(new, r1)) <= Cardinality(UnitsOf(book, r2)) + row.amount
  <2>1. UnitsOf(new, r1) \in SUBSET (UnitsOf(book, r2) \cup own)
    <3> SUFFICES ASSUME NEW u \in r1 \X Prices, u[2] <= new[u[1]].amount
                 PROVE  u \in UnitsOf(book, r2) \cup own
      BY DEF UnitsOf
    <3>1. CASE u[1] = c
      <4>1. u[2] \in 1..row.amount
        BY <3>1, <1>2 DEF Prices
      <4> QED
        BY <3>1, <4>1
    <3>2. CASE u[1] # c
      <4>1. u[1] \in r2 /\ new[u[1]] = book[u[1]]
        BY <3>2, <1>5
      <4> QED
        BY <4>1 DEF UnitsOf
    <3> QED
      BY <3>1, <3>2
  <2>2. IsFiniteSet(UnitsOf(book, r2)) /\ Cardinality(UnitsOf(book, r2)) \in Nat
    BY UnitsFinite
  <2>3. /\ IsFiniteSet(UnitsOf(book, r2) \cup own)
        /\ Cardinality(UnitsOf(book, r2) \cup own)
             = Cardinality(UnitsOf(book, r2)) + row.amount
                 - Cardinality(UnitsOf(book, r2) \cap own)
    BY <2>2, <1>3, FS_Union
  <2>4. Cardinality(UnitsOf(book, r2) \cap own) \in Nat
    BY <1>3, FS_Intersection, FS_CardinalityType
  <2>5. Cardinality(UnitsOf(new, r1)) <= Cardinality(UnitsOf(book, r2) \cup own)
    BY <2>1, <2>3, FS_Subset
  <2>6. Cardinality(UnitsOf(new, r1)) \in Nat
    BY <1>1, UnitsFinite
  <2> QED
    BY <2>2, <2>3, <2>4, <2>5, <2>6, <1>2
<1>6. SpentSince(new, since) <= SpentSince(book, since) + row.amount
  BY <1>1, <1>4, <1>5, CountedFinite DEF SpentSince
<1>7. SpentWithSince(new, since, row.payTo)
        <= SpentWithSince(book, since, row.payTo) + row.amount
  <2>1. with(new, row.payTo) \in SUBSET Calls /\ with(book, row.payTo) \in SUBSET Calls
    BY DEF CountedRows
  <2>2. with(new, row.payTo) \subseteq with(book, row.payTo) \cup {c}
    BY DEF CountedRows
  <2> QED
    BY <2>1, <2>2, <1>5 DEF SpentWithSince
<1>8. ASSUME NEW s, s # row.payTo
      PROVE  SpentWithSince(new, since, s) <= SpentWithSince(book, since, s)
  <2>1. with(new, s) \in SUBSET Calls /\ with(book, s) \in SUBSET Calls
    BY DEF CountedRows
  <2>2. with(new, s) \subseteq with(book, s)
    BY <1>8 DEF CountedRows
  <2>3. c \notin with(new, s)
    BY <1>8
  <2>4. UnitsOf(new, with(new, s)) \in SUBSET UnitsOf(book, with(book, s))
    BY <2>1, <2>2, <2>3 DEF UnitsOf
  <2> QED
    BY <2>1, <2>4, UnitsFinite, FS_Subset DEF SpentWithSince
<1>9. CountSince(new, since) <= CountSince(book, since) + 1
  <2>1. /\ IsFiniteSet(CountedRows(book, since))
        /\ Cardinality(CountedRows(book, since)) \in Nat
    BY CountedFinite DEF CountSince
  <2>2. /\ IsFiniteSet(CountedRows(book, since) \cup {c})
        /\ Cardinality(CountedRows(book, since) \cup {c})
             <= Cardinality(CountedRows(book, since)) + 1
    BY <2>1, FS_AddElement
  <2>3. /\ Cardinality(CountedRows(new, since)) <= Cardinality(CountedRows(book, since) \cup {c})
        /\ Cardinality(CountedRows(new, since)) \in Nat
    BY <2>2, <1>1, <1>4, CountedFinite, FS_Subset DEF CountSince
  <2>4. Cardinality(CountedRows(book, since) \cup {c}) \in Nat
    BY <2>2, FS_CardinalityType
  <2> QED
    BY <2>1, <2>2, <2>3, <2>4 DEF CountSince
<1> QED
  BY <1>6, <1>7, <1>8, <1>9
=============================================================================
