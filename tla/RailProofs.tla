----------------------------- MODULE RailProofs -----------------------------
(***************************************************************************)
(* The buyer's rail, for every set of calls, sellers, limits and prices:   *)
(* type correctness and what it can let leave the process; and with one    *)
(* call at a time, the limits it keeps and what it tells its caller.       *)
(***************************************************************************)
EXTENDS Rail, SpendPolicyTheorems

LEMMA NoRowType == NoRow \in Row
BY PolicyAssumption DEF NoRow, Row, Statuses, Schemes

LEMMA IdleCallType == IdleCall \in CallState
BY PolicyAssumption, RailAssumption
   DEF IdleCall, CallState, Pcs, NoFigures, Schemes

\* The rows the rail writes are rows.
LEMMA NewRowType ==
    ASSUME NEW status \in Statuses, NEW state \in CallState,
           state.seller \in Sellers, NEW t \in Nat
    PROVE  NewRow(status, state.seller, state.price, state.scheme, t) \in Row
BY DEF NewRow, Row, CallState

LEMMA EndedType ==
    ASSUME TypeOK, NEW c \in Calls
    PROVE  Ended(c) \in CallState /\ Ended(c).pc = "done"
<1>1. call[c] \in CallState
  BY DEF TypeOK
<1>2. CASE book[c].status \in {"none", "rejected"}
  BY <1>2, IdleCallType DEF Ended, CallState, Pcs, IdleCall
<1>3. CASE book[c].status \notin {"none", "rejected"}
  BY <1>1, <1>3, IdleCallType DEF Ended, CallState, Pcs, IdleCall
<1> QED
  BY <1>2, <1>3

\* The calls between the seller's offer and the end know their seller.
Asked == {"hooked", "read", "signing", "recorded", "sent", "answered",
          "ln_offered", "ln_read", "ln_recorded", "ln_paid"}

StateOK(state) ==
    /\ state \in CallState
    /\ state.pc \in Asked => state.seller \in Sellers

TypeInv == TypeOK /\ \A c \in Calls : StateOK(call[c])

\* One call moves to a state that is well formed.
LEMMA CallMoves ==
    ASSUME TypeInv, NEW c \in Calls, NEW state, StateOK(state),
           call' = [call EXCEPT ![c] = state]
    PROVE  /\ call' \in [Calls -> CallState]
           /\ \A d \in Calls : StateOK(call'[d])
BY DEF TypeInv, TypeOK, StateOK

\* A call that ends is well formed too.
LEMMA FinishMoves ==
    ASSUME TypeInv, NEW c \in Calls, NEW res \in Results, Finish(c, res)
    PROVE  /\ call' \in [Calls -> CallState]
           /\ \A d \in Calls : StateOK(call'[d])
           /\ result' \in [Calls -> Results]
<1>1. StateOK(Ended(c))
  BY EndedType DEF TypeInv, StateOK, Asked
<1> QED
  BY <1>1, CallMoves DEF Finish, TypeInv, TypeOK

LEMMA TypeStep ==
    ASSUME TypeInv, [Next]_vars
    PROVE  TypeInv'
<1> USE DEF TypeInv
<1>1. ASSUME NEW c \in Calls, Fetch(c) PROVE TypeInv'
  <2> DEFINE my == call[c]
  <2>a. StateOK(my)
    OBVIOUS
  <2>1. ASSUME NEW ceiling \in Ceilings \cup {NoCeiling}, Start(c, ceiling)
        PROVE  TypeInv'
    <3> DEFINE st == [my EXCEPT !.pc = "probing", !.ceiling = ceiling]
    <3>1. StateOK(st)
      BY <2>a DEF StateOK, CallState, Pcs, Asked
    <3>2. call' = [call EXCEPT ![c] = st]
      BY <2>1 DEF Start
    <3> HIDE DEF st
    <3> QED
      BY <2>1, <3>1, <3>2, CallMoves DEF Start, TypeOK
  <2>2. CASE FreeAnswer(c)
    BY <2>2, FinishMoves DEF FreeAnswer, Release, TypeOK, Results
  <2>3. ASSUME NEW s \in Sellers, NEW p \in Prices, NEW scheme \in X402Schemes,
               AskPrice(c, s, p, scheme)
        PROVE  TypeInv'
    <3> DEFINE st == [my EXCEPT !.pc = "hooked", !.hook = current,
                           !.seller = s, !.price = p, !.scheme = scheme]
    <3>a. p \in 0..MaxPrice /\ scheme \in Schemes /\ current \in Calls \cup {NoCall}
      BY RailAssumption DEF Prices, Schemes, TypeOK
    <3>1. StateOK(st)
      BY <2>a, <3>a DEF StateOK, CallState, Pcs, Asked
    <3>2. call' = [call EXCEPT ![c] = st]
      BY <2>3 DEF AskPrice
    <3> HIDE DEF st
    <3> QED
      BY <2>3, <3>1, <3>2, CallMoves DEF AskPrice, TypeOK
  <2>4. CASE ProbeError(c)
    <3> DEFINE st == [my EXCEPT !.pc = "failing"]
    <3>1. StateOK(st)
      BY <2>a DEF StateOK, CallState, Pcs, Asked
    <3>2. call' = [call EXCEPT ![c] = st]
      BY <2>4 DEF ProbeError
    <3> HIDE DEF st
    <3> QED
      BY <2>4, <3>1, <3>2, CallMoves DEF ProbeError, TypeOK
  <2>5. CASE ReadLedger(c)
    <3> DEFINE st == [my EXCEPT !.pc = "read", !.seen = Exposure(book, now, my.seller)]
    <3>a. Exposure(book, now, my.seller) \in [today : Nat, seller : Nat, count : Nat]
      BY ExposureType DEF TypeOK
    <3>1. StateOK(st)
      BY <2>a, <2>5, <3>a DEF StateOK, CallState, Pcs, Asked, ReadLedger
    <3>2. call' = [call EXCEPT ![c] = st]
      BY <2>5 DEF ReadLedger
    <3> HIDE DEF st
    <3> QED
      BY <2>5, <3>1, <3>2, CallMoves DEF ReadLedger, TypeOK
  <2>6. ASSUME NEW verified \in BOOLEAN, Decide(c, verified) PROVE TypeInv'
    <3> DEFINE allowed == HookAllows(c, verified)
               mark == Marked(c, allowed)
               to == IF allowed THEN "signing" ELSE "failing"
    <3>1. ToEscrow(c) \in BOOLEAN /\ allowed \in BOOLEAN
      BY DEF ToEscrow, HookAllows
    <3>2. ASSUME NEW d \in Calls
          PROVE  mark[d] \in CallState /\ mark[d].pc = call[d].pc
                   /\ mark[d].seller = call[d].seller
      <4>1. call[d] \in CallState
        BY DEF TypeOK
      <4>2. CASE d # my.hook
        BY <4>1, <4>2 DEF Marked
      <4>3. CASE d = my.hook
        <5>1. \A x, y \in BOOLEAN :
                LET m == [call[d] EXCEPT !.escrow = x, !.rejected = y]
                IN  m \in CallState /\ m.pc = call[d].pc /\ m.seller = call[d].seller
          BY <4>1 DEF CallState
        <5>2. call[d].rejected \in BOOLEAN
          BY <4>1 DEF CallState
        <5>3. mark[d] = [call[d] EXCEPT !.escrow = ToEscrow(c),
                             !.rejected = call[d].rejected \/ (~allowed /\ ~ToEscrow(c))]
          BY <4>3 DEF Marked
        <5> QED
          BY <3>1, <5>1, <5>2, <5>3
      <4> QED
        BY <4>2, <4>3
    <3>3. my.pc = "read" /\ my.seller \in Sellers /\ my \in CallState
      BY <2>a, <2>6 DEF Decide, Asked, StateOK
    <3>4. NewRow("rejected", my.seller, my.price, my.scheme, now) \in Row
      BY <3>3, NewRowType DEF TypeOK, Statuses
    <3>5. book' \in [Calls -> Row]
      BY <2>6, <3>4 DEF Decide, TypeOK
    <3>6. call' = [mark EXCEPT ![c].pc = to]
      BY <2>6 DEF Decide
    <3>7. mark = [d \in Calls |-> mark[d]]
      BY DEF Marked
    <3>8. to \in Pcs
      BY DEF Pcs
    <3> HIDE DEF mark, to
    <3>9. ASSUME NEW d \in Calls PROVE StateOK(call'[d])
      <4>1. CASE d # c
        BY <3>2, <3>6, <3>7, <4>1 DEF StateOK
      <4>2. CASE d = c
        <5>1. call'[d] = [mark[c] EXCEPT !.pc = to]
          BY <3>6, <3>7, <4>2
        <5>2. /\ [mark[c] EXCEPT !.pc = to] \in CallState
              /\ [mark[c] EXCEPT !.pc = to].seller = my.seller
          BY <3>2, <3>8 DEF CallState
        <5> QED
          BY <3>3, <5>1, <5>2 DEF StateOK
      <4> QED
        BY <4>1, <4>2
    <3>10. call' \in [Calls -> CallState]
      BY <3>6, <3>7, <3>9 DEF StateOK
    <3> QED
      BY <2>6, <3>5, <3>9, <3>10 DEF Decide, TypeOK
  <2>7. CASE Sign(c)
    <3>1. my.pc = "signing" /\ my.seller \in Sellers /\ my \in CallState
      BY <2>a, <2>7 DEF Sign, Asked, StateOK
    <3>2. NewRow("signed", my.seller, my.price, my.scheme, now) \in Row
      BY <3>1, NewRowType DEF TypeOK, Statuses
    <3>3. book' \in [Calls -> Row]
      BY <2>7, <3>2 DEF Sign, SignedRow, TypeOK
    <3>4. ASSUME NEW d \in Calls PROVE StateOK(call'[d])
      <4> DEFINE x == IF d = c THEN "recorded" ELSE call[d].pc
                 r == IF d = current THEN c ELSE call[d].record
      <4>1. call[d] \in CallState
        BY DEF StateOK
      <4>2. x \in Pcs /\ r \in Calls \cup {NoCall}
        BY <4>1 DEF CallState, Pcs
      <4>3. call'[d] = [call[d] EXCEPT !.pc = x, !.record = r]
        BY <2>7 DEF Sign
      <4>4. x \in Asked => call[d].seller \in Sellers
        BY <3>1 DEF StateOK
      <4> HIDE DEF x, r
      <4>5. /\ call'[d] \in CallState
            /\ call'[d].pc = x /\ call'[d].seller = call[d].seller
        BY <4>1, <4>2, <4>3 DEF CallState
      <4> QED
        BY <4>4, <4>5 DEF StateOK
    <3>5. call' \in [Calls -> CallState]
      BY <2>7, <3>4 DEF Sign, StateOK
    <3> QED
      BY <2>7, <3>3, <3>4, <3>5 DEF Sign, TypeOK
  <2>8. CASE Send(c)
    <3> DEFINE st == [my EXCEPT !.pc = "sent"]
    <3>1. StateOK(st)
      BY <2>a, <2>8 DEF StateOK, CallState, Pcs, Asked, Send
    <3>2. call' = [call EXCEPT ![c] = st]
      BY <2>8 DEF Send
    <3> HIDE DEF st
    <3> QED
      BY <2>8, <3>1, <3>2, CallMoves DEF Send, TypeOK
  <2>9. ASSUME NEW outcome \in {"settled", "refused", "handler_failed"},
               NEW said \in BOOLEAN, Respond(c, outcome, said)
        PROVE  TypeInv'
    <3> DEFINE rec == IF current = NoCall THEN NoCall ELSE call[current].record
               st  == [my EXCEPT !.pc = "answered"]
               to  == ClosedAs(outcome)
               now_taken == IF outcome = "settled" /\ said /\ book[rec].scheme = "upto"
                            THEN taken[c] ELSE book[rec].amount
    <3>1. rec \in Calls \cup {NoCall}
      BY DEF TypeOK, StateOK, CallState
    <3>2. book' \in [Calls -> Row]
      <4>1. CASE rec = NoCall
        BY <2>9, <4>1 DEF Respond, TypeOK
      <4>2. CASE rec # NoCall
        <5>1. rec \in Calls /\ book[rec] \in Row
          BY <3>1, <4>2 DEF TypeOK
        <5>2. book' = [book EXCEPT ![rec].status = to, ![rec].amount = now_taken]
          BY <2>9, <4>2 DEF Respond
        <5>3. to \in Statuses
          BY DEF ClosedAs, Statuses
        <5>4. now_taken \in 0..MaxPrice
          BY <5>1 DEF TypeOK, Row
        <5> HIDE DEF rec, to, now_taken
        <5>5. [book[rec] EXCEPT !.status = to, !.amount = now_taken] \in Row
          BY <5>1, <5>3, <5>4 DEF Row
        <5>6. book' = [book EXCEPT ![rec] =
                          [book[rec] EXCEPT !.status = to, !.amount = now_taken]]
          BY <5>1, <5>2 DEF TypeOK
        <5> QED
          BY <5>1, <5>5, <5>6 DEF TypeOK
      <4> QED
        BY <4>1, <4>2
    <3>3. StateOK(st)
      BY <2>a, <2>9 DEF StateOK, CallState, Pcs, Asked, Respond
    <3>4. call' = [call EXCEPT ![c] = st]
      BY <2>9 DEF Respond
    <3>5. auth' \in [Calls -> {"none", "out", "void", "taken"}]
      BY <2>9 DEF Respond, TypeOK
    <3> HIDE DEF st
    <3> QED
      BY <2>9, <3>2, <3>3, <3>4, <3>5, CallMoves DEF Respond, TypeOK
  <2>10. CASE NetworkError(c)
    <3> DEFINE st == [my EXCEPT !.pc = "failing"]
    <3>1. StateOK(st)
      BY <2>a DEF StateOK, CallState, Pcs, Asked
    <3>2. call' = [call EXCEPT ![c] = st]
      BY <2>10 DEF NetworkError
    <3> HIDE DEF st
    <3> QED
      BY <2>10, <3>1, <3>2, CallMoves DEF NetworkError, TypeOK
  <2>11. CASE Return(c)
    BY <2>11, FinishMoves DEF Return, Release, TypeOK, Results
  <2>12. CASE Catch(c)
    <3>1. CaughtRow(c) \in [Calls -> Row]
      <4>1. my.record = NoCall \/ book[my.record] \in Row
        BY <2>a DEF TypeOK, StateOK, CallState
      <4>2. \A row \in Row : [row EXCEPT !.status = "failed"] \in Row
        BY DEF Row, Statuses
      <4> QED
        BY <4>1, <4>2 DEF CaughtRow, TypeOK
    <3> QED
      BY <2>12, <3>1, FinishMoves DEF Catch, Release, TypeOK, Results
  <2> QED
    BY <1>1, <2>1, <2>2, <2>3, <2>4, <2>5, <2>6, <2>7, <2>8, <2>9, <2>10,
       <2>11, <2>12 DEF Fetch
<1>2. ASSUME NEW c \in Calls, FetchLightning(c) PROVE TypeInv'
  <2> DEFINE my == call[c]
  <2>a. StateOK(my)
    OBVIOUS
  <2>1. ASSUME NEW ceiling \in Ceilings \cup {NoCeiling}, LnStart(c, ceiling)
        PROVE  TypeInv'
    <3> DEFINE st == [my EXCEPT !.pc = "ln_probing", !.ceiling = ceiling,
                           !.scheme = "lightning"]
    <3>1. StateOK(st)
      BY <2>a DEF StateOK, CallState, Pcs, Asked, Schemes
    <3>2. call' = [call EXCEPT ![c] = st]
      BY <2>1 DEF LnStart
    <3> HIDE DEF st
    <3> QED
      BY <2>1, <3>1, <3>2, CallMoves DEF LnStart, TypeOK
  <2>2. ASSUME NEW res \in Results, LnNoOffer(c, res) PROVE TypeInv'
    BY <2>2, FinishMoves DEF LnNoOffer, TypeOK
  <2>3. ASSUME NEW s \in Sellers, NEW p \in Prices, LnOffer(c, s, p)
        PROVE  TypeInv'
    <3> DEFINE st == [my EXCEPT !.pc = "ln_offered", !.seller = s, !.price = p]
    <3>a. p \in 0..MaxPrice
      BY DEF Prices
    <3>1. StateOK(st)
      BY <2>a, <3>a DEF StateOK, CallState, Pcs, Asked
    <3>2. call' = [call EXCEPT ![c] = st]
      BY <2>3 DEF LnOffer
    <3> HIDE DEF st
    <3> QED
      BY <2>3, <3>1, <3>2, CallMoves DEF LnOffer, TypeOK
  <2>4. CASE LnReadLedger(c)
    <3> DEFINE st == [my EXCEPT !.pc = "ln_read", !.seen = Exposure(book, now, my.seller)]
    <3>a. Exposure(book, now, my.seller) \in [today : Nat, seller : Nat, count : Nat]
      BY ExposureType DEF TypeOK
    <3>1. StateOK(st)
      BY <2>a, <2>4, <3>a DEF StateOK, CallState, Pcs, Asked, LnReadLedger
    <3>2. call' = [call EXCEPT ![c] = st]
      BY <2>4 DEF LnReadLedger
    <3> HIDE DEF st
    <3> QED
      BY <2>4, <3>1, <3>2, CallMoves DEF LnReadLedger, TypeOK
  <2>5. CASE LnDecide(c)
    <3>1. my.pc = "ln_read" /\ my.seller \in Sellers /\ my \in CallState
      BY <2>a, <2>5 DEF LnDecide, Asked, StateOK
    <3>2. \A status \in {"signed", "rejected"} :
            NewRow(status, my.seller, my.price, my.scheme, now) \in Row
      BY <3>1, NewRowType DEF TypeOK, Statuses
    <3>3. book' \in [Calls -> Row]
      BY <2>5, <3>2 DEF LnDecide, TypeOK
    <3>4. CASE Finish(c, "rejected")
      BY <2>5, <3>3, <3>4, FinishMoves DEF LnDecide, TypeOK, Results
    <3>5. CASE UNCHANGED result /\ call' = [call EXCEPT ![c] = [my EXCEPT !.pc = "ln_recorded"]]
      <4>1. StateOK([my EXCEPT !.pc = "ln_recorded"])
        BY <3>1 DEF StateOK, CallState, Pcs
      <4> QED
        BY <2>5, <3>3, <3>5, <4>1, CallMoves DEF LnDecide, TypeOK
    <3> QED
      BY <2>5, <3>4, <3>5 DEF LnDecide
  <2>6. CASE LnPaid(c)
    <3> DEFINE st == [my EXCEPT !.pc = "ln_paid"]
    <3>1. StateOK(st)
      BY <2>a, <2>6 DEF StateOK, CallState, Pcs, Asked, LnPaid
    <3>2. call' = [call EXCEPT ![c] = st]
      BY <2>6 DEF LnPaid
    <3> HIDE DEF st
    <3> QED
      <4>1. my.price \in 0..MaxPrice
        BY <2>a DEF StateOK, CallState
      <4> QED
        BY <2>6, <3>1, <3>2, <4>1, CallMoves DEF LnPaid, TypeOK
  <2>7. ASSUME NEW fate \in {"void", "out", "taken"}, LnNotPaid(c, fate) PROVE TypeInv'
    <3>1. book' \in [Calls -> Row]
      BY <2>7 DEF LnNotPaid, TypeOK, Row, Statuses
    <3>2. my.price \in 0..MaxPrice /\ 0 \in 0..MaxPrice
      BY <2>a, PolicyAssumption DEF StateOK, CallState
    <3> QED
      BY <2>7, <3>1, <3>2, FinishMoves DEF LnNotPaid, TypeOK, Results
  <2>8. ASSUME NEW outcome \in {"settled", "failed"}, LnRespond(c, outcome) PROVE TypeInv'
    <3>1. book' \in [Calls -> Row]
      BY <2>8 DEF LnRespond, TypeOK, Row, Statuses
    <3> QED
      BY <2>8, <3>1, FinishMoves DEF LnRespond, TypeOK, Results
  <2>9. CASE LnNetworkError(c)
    BY <2>9, FinishMoves DEF LnNetworkError, TypeOK, Results
  <2> QED
    BY <1>2, <2>1, <2>2, <2>3, <2>4, <2>5, <2>6, <2>7, <2>8, <2>9 DEF FetchLightning
<1>3. ASSUME NEW c \in Calls, NEW amount \in Prices, SellerTakes(c, amount)
      PROVE  TypeInv'
  BY <1>3 DEF SellerTakes, TypeOK, Prices
<1>4. CASE Crash
  <2>1. \A c \in Calls : StateOK(Ended(c))
    BY EndedType DEF StateOK, Asked
  <2> QED
    BY <1>4, <2>1 DEF Crash, TypeOK, Results, StateOK
<1>5. CASE Tick
  BY <1>5 DEF Tick, TypeOK
<1>6. CASE AllDone \/ UNCHANGED vars
  BY <1>6 DEF AllDone, vars, TypeOK
<1> QED
  BY <1>1, <1>2, <1>3, <1>4, <1>5, <1>6 DEF Next

LEMMA RailWellFormed == Spec => []TypeInv
<1>1. Init => TypeInv
  <2>1. StateOK(IdleCall)
    BY IdleCallType DEF StateOK, IdleCall, Asked
  <2> QED
    BY <2>1, NoRowType, PolicyAssumption DEF Init, TypeInv, TypeOK, StateOK, Results
<1>2. TypeInv /\ [Next]_vars => TypeInv'
  BY TypeStep
<1> QED
  BY <1>1, <1>2, PTL DEF Spec

\* Every step keeps every variable of the rail in its type.
THEOREM RailTypeCorrect == Spec => []TypeOK
<1>1. TypeInv => TypeOK
  BY DEF TypeInv
<1> QED
  BY <1>1, RailWellFormed, PTL

-----------------------------------------------------------------------------
(* What leaves the process is in the ledger, whatever overlaps. *)

Undecided == {"idle", "probing", "hooked", "read", "signing", "ln_probing",
              "ln_offered", "ln_read"}
Committed == {"recorded", "sent", "answered", "ln_recorded", "ln_paid"}

Written(c) == book[c].status \notin {"none", "rejected"}

\* The strengthening of NothingUnrecorded.  A row is written before anything
\* leaves, with the terms the call will send; no hook writes it again before
\* that; and only rows that were written are ever closed.
RowMatches(c) ==
    /\ book[c].payTo = call[c].seller
    /\ book[c].scheme = call[c].scheme
    /\ call[c].scheme # "upto" => book[c].amount = call[c].price

RecordOK(c) ==
    /\ call[c].pc \in Undecided => book[c].status = "none" /\ auth[c] = "none"
    /\ call[c].pc \in Committed \/ auth[c] # "none" => Written(c)
    /\ Written(c) => RowMatches(c)
    /\ call[c].record # NoCall => Written(call[c].record)
    /\ auth[c] = "none" => taken[c] = 0
    /\ auth[c] # "none" /\ book[c].scheme # "upto" => taken[c] <= book[c].amount

RecordInv == \A c \in Calls : RecordOK(c)

LEMMA EndedKeepsTerms ==
    ASSUME TypeInv, NEW c \in Calls
    PROVE  /\ Ended(c).pc = "done" /\ Ended(c).record = NoCall
           /\ Ended(c).hook = NoCall
           /\ Written(c) => /\ Ended(c).seller = call[c].seller
                            /\ Ended(c).price = call[c].price
                            /\ Ended(c).scheme = call[c].scheme
BY IdleCallType DEF TypeInv, Ended, Written, CallState, IdleCall

\* What the hooks' own steps do to every call: terms are never touched.
SameTerms(d) ==
    /\ call'[d].seller = call[d].seller /\ call'[d].price = call[d].price
    /\ call'[d].scheme = call[d].scheme /\ call'[d].ceiling = call[d].ceiling
    /\ call'[d].hook = call[d].hook /\ call'[d].seen = call[d].seen

LEMMA DecideShape ==
    ASSUME TypeInv, NEW c \in Calls, NEW verified \in BOOLEAN, Decide(c, verified),
           NEW d \in Calls
    PROVE  /\ SameTerms(d) /\ call'[d].record = call[d].record
           /\ d # c => call'[d].pc = call[d].pc
           /\ call'[c].pc = IF HookAllows(c, verified) THEN "signing" ELSE "failing"
<1> DEFINE allowed == HookAllows(c, verified)
           mark == Marked(c, allowed)
<1>1. \A e \in Calls : call[e] \in CallState
  BY DEF TypeInv, TypeOK
<1>2. \A e \in Calls :
         /\ mark[e] \in [pc : {call[e].pc}, ceiling : {call[e].ceiling},
                seller : {call[e].seller}, price : {call[e].price},
                scheme : {call[e].scheme}, hook : {call[e].hook},
                seen : {call[e].seen}, record : {call[e].record},
                rejected : BOOLEAN, escrow : BOOLEAN]
  <2> SUFFICES ASSUME NEW e \in Calls
               PROVE  mark[e] \in
                        [pc : {call[e].pc}, ceiling : {call[e].ceiling},
                         seller : {call[e].seller}, price : {call[e].price},
                         scheme : {call[e].scheme}, hook : {call[e].hook},
                         seen : {call[e].seen}, record : {call[e].record},
                         rejected : BOOLEAN, escrow : BOOLEAN]
    OBVIOUS
  <2>1. call[e] \in CallState
    BY <1>1
  <2>2. \/ mark[e] = call[e]
        \/ mark[e] = [call[e] EXCEPT !.escrow = ToEscrow(c),
               !.rejected = call[e].rejected \/ (~allowed /\ ~ToEscrow(c))]
    BY DEF Marked
  <2>3. ToEscrow(c) \in BOOLEAN /\ allowed \in BOOLEAN /\ call[e].rejected \in BOOLEAN
    BY <2>1 DEF ToEscrow, HookAllows, CallState
  <2>4. (call[e].rejected \/ (~allowed /\ ~ToEscrow(c))) \in BOOLEAN
    BY <2>3
  <2> QED
    BY <2>1, <2>2, <2>3, <2>4 DEF CallState
<1>3. call' = [mark EXCEPT ![c].pc = IF allowed THEN "signing" ELSE "failing"]
  BY DEF Decide
<1>4. mark = [e \in Calls |-> mark[e]]
  BY DEF Marked
<1> HIDE DEF mark, allowed
<1> QED
  BY <1>2, <1>3, <1>4 DEF SameTerms, allowed

LEMMA SignShape ==
    ASSUME TypeInv, NEW c \in Calls, Sign(c), NEW d \in Calls
    PROVE  /\ SameTerms(d)
           /\ call'[d].record = IF d = current THEN c ELSE call[d].record
           /\ call'[d].pc = IF d = c THEN "recorded" ELSE call[d].pc
<1>1. call[d] \in CallState
  BY DEF TypeInv, TypeOK
<1>2. call'[d] = [call[d] EXCEPT !.pc = IF d = c THEN "recorded" ELSE call[d].pc,
                     !.record = IF d = current THEN c ELSE call[d].record]
  BY DEF Sign
<1> QED
  BY <1>1, <1>2 DEF SameTerms, CallState

\* The record of a call that keeps its terms, its place and its row is kept.
LEMMA RecordStays ==
    ASSUME NEW d \in Calls, RecordOK(d), SameTerms(d), call'[d].pc = call[d].pc,
           book'[d] = book[d], auth'[d] = auth[d], taken'[d] = taken[d],
           call'[d].record = NoCall \/ Written(call[d].record)'
    PROVE  RecordOK(d)'
BY DEF RecordOK, SameTerms, Written, RowMatches

LEMMA RecordStep ==
    ASSUME TypeInv, TypeInv', RecordInv, [Next]_vars
    PROVE  RecordInv'
<1>a. /\ \A d \in Calls : call[d] \in CallState /\ RecordOK(d)
      /\ call \in [Calls -> CallState] /\ book \in [Calls -> Row]
      /\ auth \in [Calls -> {"none", "out", "void", "taken"}]
      /\ taken \in [Calls -> 0..MaxPrice]
  BY DEF TypeInv, TypeOK, StateOK, RecordInv
<1> USE DEF RecordInv
<1>1. ASSUME NEW c \in Calls, Fetch(c) PROVE RecordInv'
  <2>1. ASSUME NEW ceiling \in Ceilings \cup {NoCeiling}, Start(c, ceiling)
        PROVE  RecordInv'
    BY <1>a, <2>1 DEF Start, MayStart, RecordOK, Written, RowMatches, Undecided, Committed, CallState
  <2>2. CASE FreeAnswer(c)
    BY <1>a, <2>2, EndedKeepsTerms DEF FreeAnswer, Finish, RecordOK, Written, RowMatches, Undecided, Committed, CallState
  <2>3. ASSUME NEW s \in Sellers, NEW p \in Prices, NEW scheme \in X402Schemes, AskPrice(c, s, p, scheme)
        PROVE  RecordInv'
    BY <1>a, <2>3 DEF AskPrice, RecordOK, Written, RowMatches, Undecided, Committed, CallState
  <2>4. CASE ProbeError(c)
    BY <1>a, <2>4 DEF ProbeError, RecordOK, Written, RowMatches, Undecided, Committed, CallState
  <2>5. CASE ReadLedger(c)
    BY <1>a, <2>5 DEF ReadLedger, RecordOK, Written, RowMatches, Undecided, Committed, CallState
  <2>6. ASSUME NEW verified \in BOOLEAN, Decide(c, verified)
        PROVE  RecordInv'
    <3>1. book[c].status = "none" /\ auth[c] = "none"
      BY <1>a, <2>6 DEF Decide, RecordOK, Undecided
    <3>2. \A d \in Calls : d # c => book'[d] = book[d]
      BY <1>a, <2>6 DEF Decide
    <3>3. book'[c].status \in {"none", "rejected"}
      BY <1>a, <2>6, <3>1 DEF Decide, NewRow
    <3>4. HookAllows(c, verified) => book'[c].status = "none"
      BY <2>6, <3>1 DEF Decide
    <3>5. \A d \in Calls :
             /\ SameTerms(d) /\ call'[d].record = call[d].record
             /\ d # c => call'[d].pc = call[d].pc
      BY <2>6, DecideShape
    <3>6. call'[c].pc = IF HookAllows(c, verified) THEN "signing" ELSE "failing"
      BY <2>6, DecideShape
    <3>7. UNCHANGED <<auth, taken>>
      BY <2>6 DEF Decide
    <3>8. \A d \in Calls : Written(d) => Written(d)'
      BY <3>1, <3>2 DEF Written
    <3>9. \A d \in Calls : call'[d].record = NoCall \/ Written(call[d].record)'
      BY <1>a, <3>5, <3>8 DEF RecordOK, CallState
    <3>10. ASSUME NEW d \in Calls, d # c PROVE RecordOK(d)'
      BY <1>a, <3>2, <3>5, <3>7, <3>9, <3>10, RecordStays
    <3>11. RecordOK(c)'
      <4>1. ~Written(c)' /\ auth'[c] = "none" /\ taken'[c] = 0
        BY <1>a, <3>1, <3>3, <3>7 DEF Written, RecordOK
      <4>2. call'[c].pc \in Undecided => book'[c].status = "none"
        BY <3>4, <3>6 DEF Undecided
      <4>3. call'[c].pc \notin Committed
        BY <3>6 DEF Committed
      <4> QED
        BY <3>9, <4>1, <4>2, <4>3 DEF RecordOK
    <3> QED
      BY <3>10, <3>11
  <2>7. CASE Sign(c)
    <3>1. \A d \in Calls : d # c => book'[d] = book[d]
      BY <1>a, <2>7 DEF Sign, SignedRow
    <3>2. book'[c] = NewRow("signed", call[c].seller, call[c].price, call[c].scheme, now)
      BY <1>a, <2>7 DEF Sign, SignedRow
    <3>3. Written(c)' /\ RowMatches(c)'
      BY <2>7, <3>2, SignShape DEF NewRow, Written, RowMatches, SameTerms
    <3>4. \A d \in Calls :
             /\ SameTerms(d)
             /\ call'[d].record = IF d = current THEN c ELSE call[d].record
             /\ call'[d].pc = IF d = c THEN "recorded" ELSE call[d].pc
      BY <2>7, SignShape
    <3>5. UNCHANGED <<auth, taken>> /\ call[c].pc = "signing"
      BY <2>7 DEF Sign
    <3>6. \A d \in Calls : Written(d) => Written(d)'
      BY <3>1, <3>3 DEF Written
    <3>7. \A d \in Calls : call'[d].record = NoCall \/ Written(call[d].record)'
      BY <1>a, <3>3, <3>4, <3>6 DEF RecordOK, CallState
    <3>8. ASSUME NEW d \in Calls, d # c PROVE RecordOK(d)'
      BY <1>a, <3>1, <3>4, <3>5, <3>7, <3>8, RecordStays
    <3>9. RecordOK(c)'
      <4>1. auth'[c] = "none" /\ taken'[c] = 0
        BY <1>a, <3>5 DEF RecordOK, Undecided
      <4> QED
        BY <3>3, <3>4, <3>7, <4>1 DEF RecordOK, Undecided
    <3> QED
      BY <3>8, <3>9
  <2>8. CASE Send(c)
    BY <1>a, <2>8 DEF Send, RecordOK, Written, RowMatches, Undecided, Committed, CallState
  <2>9. ASSUME NEW outcome \in {"settled", "refused", "handler_failed"}, NEW said \in BOOLEAN, Respond(c, outcome, said)
        PROVE  RecordInv'
    <3> DEFINE rec == IF current = NoCall THEN NoCall ELSE call[current].record
    <3>1. rec \in Calls \cup {NoCall} /\ (rec # NoCall => Written(rec))
      BY <1>a DEF TypeInv, TypeOK, RecordOK, CallState
    <3>2. ASSUME NEW d \in Calls
          PROVE  /\ book'[d].payTo = book[d].payTo
                 /\ book'[d].scheme = book[d].scheme
                 /\ book[d].scheme # "upto" => book'[d].amount = book[d].amount
                 /\ Written(d)' <=> Written(d)
      <4>1. CASE d # rec
        BY <1>a, <2>9, <3>1, <4>1 DEF Respond, Written
      <4>2. CASE d = rec
        <5>1. rec # NoCall
          BY <4>2, NoCallAssumption
        <5>2. Written(d)
          BY <3>1, <4>2, <5>1
        <5>3. ClosedAs(outcome) \in {"settled", "failed", "quoted"}
          BY DEF ClosedAs
        <5>4. book[d] \in Row
          BY <1>a
        <5>5. book'[d] = [book[d] EXCEPT !.status = ClosedAs(outcome),
                !.amount = IF outcome = "settled" /\ said /\ book[d].scheme = "upto"
                           THEN taken[c] ELSE book[d].amount]
          BY <1>a, <2>9, <4>2, <5>1 DEF Respond
        <5> QED
          BY <5>2, <5>3, <5>4, <5>5 DEF Written, Row
      <4> QED
        BY <4>1, <4>2
    <3>3. \A d \in Calls : /\ call'[d] = IF d = c THEN [call[c] EXCEPT !.pc = "answered"] ELSE call[d]
                           /\ auth'[d] # "none" <=> auth[d] # "none"
                           /\ taken'[d] = taken[d]
      BY <1>a, <2>9 DEF Respond
    <3>4. call[c].pc = "sent"
      BY <2>9 DEF Respond
    <3> SUFFICES ASSUME NEW d \in Calls PROVE RecordOK(d)'
      OBVIOUS
    <3>5. /\ SameTerms(d) /\ call'[d].record = call[d].record
          /\ call'[d].pc = call[d].pc \/ (d = c /\ call'[d].pc = "answered")
      BY <1>a, <3>3 DEF SameTerms, CallState
    <3>6. call'[d].record = NoCall \/ Written(call[d].record)'
      BY <1>a, <3>2, <3>5 DEF RecordOK, CallState
    <3>7. RowMatches(d) => RowMatches(d)'
      BY <1>a, <3>2, <3>5 DEF RowMatches, SameTerms
    <3>8. d = c => Written(d)
      BY <1>a, <3>4 DEF RecordOK, Committed
    <3>9. call[d].pc \in Undecided => d # c /\ ~Written(d)
      BY <1>a, <3>4 DEF RecordOK, Undecided, Written
    <3>10. call'[d].pc \in Undecided => book'[d].status = "none" /\ auth'[d] = "none"
      <4>1. d # rec \/ Written(d)
        BY <3>1, NoCallAssumption
      <4>2. d # rec => book'[d] = book[d]
        BY <1>a, <2>9, <3>1 DEF Respond
      <4> QED
        BY <1>a, <3>3, <3>5, <3>9, <4>1, <4>2 DEF RecordOK, Undecided
    <3> QED
      BY <1>a, <3>2, <3>3, <3>5, <3>6, <3>7, <3>8, <3>10
         DEF RecordOK, Committed
  <2>10. CASE NetworkError(c)
    BY <1>a, <2>10 DEF NetworkError, RecordOK, Written, RowMatches, Undecided, Committed, CallState
  <2>11. CASE Return(c)
    BY <1>a, <2>11, EndedKeepsTerms DEF Return, Finish, RecordOK, Written, RowMatches, Undecided, Committed, CallState
  <2>12. CASE Catch(c)
    BY <1>a, <2>12, EndedKeepsTerms DEF Catch, Finish, CaughtRow, RecordOK, Written, RowMatches, Undecided, Committed, CallState
  <2> QED
    BY <1>1, <2>1, <2>2, <2>3, <2>4, <2>5, <2>6, <2>7, <2>8, <2>9, <2>10,
       <2>11, <2>12 DEF Fetch
<1>2. ASSUME NEW c \in Calls, FetchLightning(c) PROVE RecordInv'
  <2>1. ASSUME NEW ceiling \in Ceilings \cup {NoCeiling}, LnStart(c, ceiling)
        PROVE  RecordInv'
    BY <1>a, <2>1 DEF LnStart, MayStart, RecordOK, Written, RowMatches, Undecided, Committed, CallState
  <2>2. ASSUME NEW res \in Results, LnNoOffer(c, res)
        PROVE  RecordInv'
    BY <1>a, <2>2, EndedKeepsTerms DEF LnNoOffer, Finish, RecordOK, Written, RowMatches, Undecided, Committed, CallState
  <2>3. ASSUME NEW s \in Sellers, NEW p \in Prices, LnOffer(c, s, p)
        PROVE  RecordInv'
    BY <1>a, <2>3 DEF LnOffer, RecordOK, Written, RowMatches, Undecided, Committed, CallState
  <2>4. CASE LnReadLedger(c)
    BY <1>a, <2>4 DEF LnReadLedger, RecordOK, Written, RowMatches, Undecided, Committed, CallState
  <2>5. CASE LnDecide(c)
    <3>1. book[c].status = "none" /\ auth[c] = "none"
      BY <1>a, <2>5 DEF LnDecide, RecordOK, Undecided
    <3>2. \A d \in Calls : d # c => book'[d] = book[d]
      BY <1>a, <2>5 DEF LnDecide
    <3>3. CASE Finish(c, "rejected") /\ book'[c].status = "rejected"
      <4>1. UNCHANGED <<auth, taken>>
        BY <2>5 DEF LnDecide
      <4>2. \A d \in Calls : call'[d] = IF d = c THEN Ended(c) ELSE call[d]
        BY <1>a, <3>3 DEF Finish
      <4>3. \A d \in Calls : Written(d)' <=> Written(d)
        BY <3>1, <3>2, <3>3 DEF Written
      <4>4. ASSUME NEW d \in Calls, d # c PROVE RecordOK(d)'
        <5>1. call'[d] = call[d] /\ book'[d] = book[d]
          BY <3>2, <4>2, <4>4
        <5>2. call'[d].record = NoCall \/ Written(call[d].record)'
          BY <1>a, <4>3, <5>1 DEF RecordOK, CallState
        <5> QED
          BY <1>a, <4>1, <5>1, <5>2, RecordStays DEF SameTerms
      <4>5. RecordOK(c)'
        BY <1>a, <3>1, <3>3, <4>1, <4>2, EndedKeepsTerms
           DEF RecordOK, Written, Undecided, Committed
      <4> QED
        BY <4>4, <4>5
    <3>4. CASE /\ call' = [call EXCEPT ![c] = [@ EXCEPT !.pc = "ln_recorded"]]
               /\ book'[c] = NewRow("signed", call[c].seller, call[c].price,
                                    call[c].scheme, now)
      <4>1. UNCHANGED <<auth, taken>>
        BY <2>5 DEF LnDecide
      <4>2. \A d \in Calls : /\ SameTerms(d) /\ call'[d].record = call[d].record
                             /\ call'[d].pc = IF d = c THEN "ln_recorded" ELSE call[d].pc
        BY <1>a, <3>4 DEF SameTerms, CallState
      <4>3. Written(c)' /\ RowMatches(c)'
        BY <3>4, <4>2 DEF NewRow, Written, RowMatches, SameTerms
      <4>4. \A d \in Calls : call'[d].record = NoCall \/ Written(call[d].record)'
        BY <1>a, <3>2, <4>2, <4>3 DEF RecordOK, CallState, Written
      <4>5. ASSUME NEW d \in Calls, d # c PROVE RecordOK(d)'
        BY <1>a, <3>2, <4>1, <4>2, <4>4, <4>5, RecordStays
      <4>6. RecordOK(c)'
        BY <1>a, <3>1, <4>1, <4>2, <4>3, <4>4 DEF RecordOK, Undecided
      <4> QED
        BY <4>5, <4>6
    <3> QED
      BY <1>a, <2>5, <3>3, <3>4 DEF LnDecide, NewRow
  <2>6. CASE LnPaid(c)
    BY <1>a, <2>6 DEF LnPaid, RecordOK, Written, RowMatches, Undecided, Committed, CallState
  <2>7. ASSUME NEW fate \in {"void", "out", "taken"}, LnNotPaid(c, fate)
        PROVE  RecordInv'
    BY <1>a, <2>7, EndedKeepsTerms DEF LnNotPaid, Finish, RecordOK, Written, RowMatches, Undecided, Committed, CallState
  <2>8. ASSUME NEW outcome \in {"settled", "failed"}, LnRespond(c, outcome)
        PROVE  RecordInv'
    BY <1>a, <2>8, EndedKeepsTerms DEF LnRespond, Finish, RecordOK, Written, RowMatches, Undecided, Committed, CallState
  <2>9. CASE LnNetworkError(c)
    BY <1>a, <2>9, EndedKeepsTerms DEF LnNetworkError, Finish, RecordOK, Written, RowMatches, Undecided, Committed, CallState
  <2> QED
    BY <1>2, <2>1, <2>2, <2>3, <2>4, <2>5, <2>6, <2>7, <2>8, <2>9 DEF FetchLightning
<1>3. ASSUME NEW c \in Calls, NEW amount \in Prices, SellerTakes(c, amount)
      PROVE  RecordInv'
  BY <1>a, <1>3 DEF SellerTakes, RecordOK, Written, RowMatches, Undecided, Committed, CallState
<1>4. CASE Crash
  BY <1>a, <1>4, EndedKeepsTerms DEF Crash, Open, RecordOK, Written, RowMatches, Undecided, Committed, CallState
<1>5. CASE Tick \/ AllDone \/ UNCHANGED vars
  BY <1>a, <1>5 DEF Tick, AllDone, vars, RecordOK, Written, RowMatches, Undecided, Committed, CallState
<1> QED
  BY <1>1, <1>2, <1>3, <1>4, <1>5 DEF Next

\* Whatever left the process has its row in the ledger, and the seller cannot
\* take more than the row says: for every interleaving of every set of calls,
\* with crashes between any two steps.
THEOREM RailRecordsEverything == Spec => []NothingUnrecorded
<1>1. Init => RecordInv
  BY DEF Init, RecordInv, RecordOK, Written, IdleCall, NoRow, Undecided, Committed
<1>2. TypeInv /\ TypeInv' /\ RecordInv /\ [Next]_vars => RecordInv'
  BY RecordStep
<1>3. RecordInv => NothingUnrecorded
  BY DEF RecordInv, RecordOK, Written, RowMatches, NothingUnrecorded
<1> QED
  BY <1>1, <1>2, <1>3, RailWellFormed, PTL DEF Spec

-----------------------------------------------------------------------------
(* What leaves the process was allowed, whatever overlaps. *)

\* The strengthening of OnlyAllowedPayments: the terms a payment leaves with
\* are those its decision was made on.
AllowedOK(c) ==
    /\ call[c].pc \in {"ln_probing", "ln_offered", "ln_read", "ln_recorded"}
         => call[c].scheme = "lightning"
    /\ call[c].pc \in {"signing", "recorded", "ln_recorded"}
         => call[c].seller \in Permitted /\ call[c].price <= PerPaymentCap
    /\ call[c].pc \in {"signing", "recorded"} => call[c].price <= EscrowAbove

AllowedInv == \A c \in Calls : AllowedOK(c)

LEMMA AllowedStays ==
    ASSUME NEW d \in Calls, AllowedOK(d), SameTerms(d), call'[d].pc = call[d].pc
    PROVE  AllowedOK(d)'
BY DEF AllowedOK, SameTerms

LEMMA AllowedStep ==
    ASSUME TypeInv, AllowedInv, [Next]_vars
    PROVE  AllowedInv'
<1>a. /\ \A d \in Calls : call[d] \in CallState /\ AllowedOK(d)
      /\ call \in [Calls -> CallState]
  BY DEF TypeInv, TypeOK, StateOK, AllowedInv
<1> USE DEF AllowedInv
<1>1. ASSUME NEW c \in Calls, Fetch(c) PROVE AllowedInv'
  <2>1. ASSUME NEW ceiling \in Ceilings \cup {NoCeiling},
               Start(c, ceiling)
        PROVE  AllowedInv'
    BY <1>a, <2>1 DEF Start, AllowedOK, CallState
  <2>2. CASE FreeAnswer(c)
    BY <1>a, <2>2, EndedKeepsTerms DEF FreeAnswer, Finish, AllowedOK, CallState
  <2>3. ASSUME NEW s \in Sellers, NEW p \in Prices, NEW scheme \in X402Schemes,
               AskPrice(c, s, p, scheme)
        PROVE  AllowedInv'
    BY <1>a, <2>3 DEF AskPrice, AllowedOK, CallState
  <2>4. CASE ProbeError(c)
    BY <1>a, <2>4 DEF ProbeError, AllowedOK, CallState
  <2>5. CASE ReadLedger(c)
    BY <1>a, <2>5 DEF ReadLedger, AllowedOK, CallState
  <2>6. ASSUME NEW verified \in BOOLEAN, Decide(c, verified) PROVE AllowedInv'
    <3>1. \A d \in Calls : SameTerms(d) /\ (d # c => call'[d].pc = call[d].pc)
      BY <2>6, DecideShape
    <3>2. call'[c].pc = IF HookAllows(c, verified) THEN "signing" ELSE "failing"
      BY <2>6, DecideShape
    <3>3. HookAllows(c, verified) =>
            /\ call[c].seller \in Permitted
            /\ call[c].price <= PerPaymentCap /\ call[c].price <= EscrowAbove
      BY <1>a, RailAssumption DEF HookAllows, EvaluatePolicy, ToEscrow, CallState
    <3>4. AllowedOK(c)'
      BY <3>1, <3>2, <3>3 DEF AllowedOK, SameTerms
    <3> QED
      BY <1>a, <3>1, <3>4, AllowedStays
  <2>7. CASE Sign(c)
    <3>1. \A d \in Calls : /\ SameTerms(d)
                           /\ call'[d].pc = IF d = c THEN "recorded" ELSE call[d].pc
      BY <2>7, SignShape
    <3>2. call[c].pc = "signing"
      BY <2>7 DEF Sign
    <3>3. AllowedOK(c)'
      BY <1>a, <3>1, <3>2 DEF AllowedOK, SameTerms
    <3> QED
      BY <1>a, <3>1, <3>3, AllowedStays
  <2>8. CASE Send(c)
    BY <1>a, <2>8 DEF Send, AllowedOK, CallState
  <2>9. ASSUME NEW outcome \in {"settled", "refused", "handler_failed"}, NEW said \in BOOLEAN,
               Respond(c, outcome, said)
        PROVE  AllowedInv'
    BY <1>a, <2>9 DEF Respond, AllowedOK, CallState
  <2>10. CASE NetworkError(c)
    BY <1>a, <2>10 DEF NetworkError, AllowedOK, CallState
  <2>11. CASE Return(c)
    BY <1>a, <2>11, EndedKeepsTerms DEF Return, Finish, AllowedOK, CallState
  <2>12. CASE Catch(c)
    BY <1>a, <2>12, EndedKeepsTerms DEF Catch, Finish, AllowedOK, CallState
  <2> QED
    BY <1>1, <2>1, <2>2, <2>3, <2>4, <2>5, <2>6, <2>7, <2>8, <2>9, <2>10,
       <2>11, <2>12 DEF Fetch
<1>2. ASSUME NEW c \in Calls, FetchLightning(c) PROVE AllowedInv'
  <2>1. ASSUME NEW ceiling \in Ceilings \cup {NoCeiling},
               LnStart(c, ceiling)
        PROVE  AllowedInv'
    BY <1>a, <2>1 DEF LnStart, AllowedOK, CallState
  <2>2. ASSUME NEW res \in Results,
               LnNoOffer(c, res)
        PROVE  AllowedInv'
    BY <1>a, <2>2, EndedKeepsTerms DEF LnNoOffer, Finish, AllowedOK, CallState
  <2>3. ASSUME NEW s \in Sellers, NEW p \in Prices,
               LnOffer(c, s, p)
        PROVE  AllowedInv'
    BY <1>a, <2>3 DEF LnOffer, AllowedOK, CallState
  <2>4. CASE LnReadLedger(c)
    BY <1>a, <2>4 DEF LnReadLedger, AllowedOK, CallState
  <2>5. CASE LnDecide(c)
    BY <1>a, <2>5, EndedKeepsTerms DEF LnDecide, Finish, EvaluatePolicy, AllowedOK, CallState
  <2>6. CASE LnPaid(c)
    BY <1>a, <2>6 DEF LnPaid, AllowedOK, CallState
  <2>7. ASSUME NEW fate \in {"void", "out", "taken"},
               LnNotPaid(c, fate)
        PROVE  AllowedInv'
    BY <1>a, <2>7, EndedKeepsTerms DEF LnNotPaid, Finish, AllowedOK, CallState
  <2>8. ASSUME NEW outcome \in {"settled", "failed"},
               LnRespond(c, outcome)
        PROVE  AllowedInv'
    BY <1>a, <2>8, EndedKeepsTerms DEF LnRespond, Finish, AllowedOK, CallState
  <2>9. CASE LnNetworkError(c)
    BY <1>a, <2>9, EndedKeepsTerms DEF LnNetworkError, Finish, AllowedOK, CallState
  <2> QED
    BY <1>2, <2>1, <2>2, <2>3, <2>4, <2>5, <2>6, <2>7, <2>8, <2>9 DEF FetchLightning
<1>3. ASSUME NEW c \in Calls, NEW amount \in Prices, SellerTakes(c, amount)
      PROVE  AllowedInv'
  BY <1>a, <1>3 DEF SellerTakes, AllowedOK
<1>4. CASE Crash
  BY <1>a, <1>4, EndedKeepsTerms DEF Crash, Open, AllowedOK
<1>5. CASE Tick \/ AllDone \/ UNCHANGED vars
  BY <1>a, <1>5 DEF Tick, AllDone, vars, AllowedOK
<1> QED
  BY <1>1, <1>2, <1>3, <1>4, <1>5 DEF Next

\* No payment leaves for a seller the policy excludes, above the cap of one
\* payment, or above the escrow threshold.
THEOREM RailPaysOnlyAllowed == Spec => []OnlyAllowedPayments
<1>1. Init => AllowedInv
  BY DEF Init, AllowedInv, AllowedOK, IdleCall
<1>2. TypeInv /\ AllowedInv /\ [Next]_vars => AllowedInv'
  BY AllowedStep
<1>3. AllowedInv => OnlyAllowedPayments
  BY DEF AllowedInv, AllowedOK, OnlyAllowedPayments, Leaving
<1> QED
  BY <1>1, <1>2, <1>3, RailWellFormed, PTL DEF Spec

-----------------------------------------------------------------------------
(***************************************************************************)
(* The rail with one call at a time: what its hooks read on `current' is   *)
(* then their own call, and what they read in the ledger is still true     *)
(* when they sign.  So the caller's ceiling is respected, the rail         *)
(* implements the account of SpendLimit, and the caps and the rate hold:   *)
(* for every number of calls, every limit, and crashes between any steps.  *)
(* And what the rail tells its caller is what happened to the caller's own *)
(* payment: the record it makes the receipt from is its own, and nobody    *)
(* writes on its row between the answer and the receipt.  Overlapping      *)
(* calls may close the row of another.                                     *)
(***************************************************************************)
\* The pcs of an open rail.fetch, during which `current' must be its own.
X402Open == {"probing", "hooked", "read", "signing", "recorded", "sent",
             "answered", "failing"}

Alone == \A c, d \in Calls : Open(c) /\ Open(d) => c = d

\* What the call reads through `current' is its own.
OwnOK(c) ==
    /\ call[c].pc \in X402Open => current = c
    /\ call[c].pc \in {"hooked", "read", "signing"} => call[c].hook = c
    /\ call[c].record \in {NoCall, c}
    /\ call[c].pc \in {"recorded", "sent", "answered"} => call[c].record = c
    /\ call[c].pc \in Asked => call[c].price \in Prices
    /\ call[c].pc \in {"signing", "recorded", "ln_recorded"}
         => call[c].price <= call[c].ceiling

\* Nobody touched its row.
OpenRowOK(c) ==
    /\ call[c].pc \in {"recorded", "sent", "ln_recorded", "ln_paid"}
         => book[c].status = "signed"
    /\ call[c].pc \in {"recorded", "sent"} => book[c].amount = call[c].price
    /\ auth[c] = "taken" => taken[c] <= call[c].price

\* The figures `seen' are not below what the ledger b says at time t.
Covers(seen, b, t, seller) ==
    /\ SpentSince(b, t - DayWindow) <= seen.today
    /\ SpentWithSince(b, t - DayWindow, seller) <= seen.seller
    /\ CountSince(b, t - RateWindow) <= seen.count

Fresh(c) == Covers(call[c].seen, book, now, call[c].seller)

SeenOK(c) ==
    /\ call[c].pc \in {"read", "signing", "ln_read"} => Fresh(c)
    /\ call[c].pc = "signing" =>
         EvaluatePolicy(call[c].seller, call[c].price, call[c].seen, TRUE)

SeqOK(c) == OwnOK(c) /\ OpenRowOK(c) /\ SeenOK(c)

SeqInv == Alone /\ \A c \in Calls : SeqOK(c)

\* Everything that is known of a state of the sequential rail.
Known == TypeInv /\ RecordInv /\ SeqInv

LEMMA KnownTypes ==
    ASSUME Known
    PROVE  /\ call \in [Calls -> CallState] /\ book \in [Calls -> Row]
           /\ auth \in [Calls -> {"none", "out", "void", "taken"}]
           /\ taken \in [Calls -> 0..MaxPrice] /\ now \in Nat
           /\ current \in Calls \cup {NoCall}
           /\ \A d \in Calls : call[d] \in CallState /\ StateOK(call[d])
                                 /\ RecordOK(d) /\ SeqOK(d)
BY DEF Known, TypeInv, TypeOK, RecordInv, SeqInv

\* Whose call it is.
Idle(d) == ~Open(d) /\ ~Open(d)' /\ call'[d] = call[d] /\ book'[d] = book[d]
             /\ auth'[d] = auth[d] /\ taken'[d] = taken[d]

\* A step of one call leaves every other call, which is not open, alone.
LEMMA OthersRest ==
    ASSUME ~Concurrent, Known, NEW c \in Calls, Fetch(c) \/ FetchLightning(c),
           NEW d \in Calls, d # c
    PROVE  Idle(d)
<1>a. /\ call \in [Calls -> CallState] /\ book \in [Calls -> Row]
      /\ auth \in [Calls -> {"none", "out", "void", "taken"}]
      /\ taken \in [Calls -> 0..MaxPrice]
      /\ call[c] \in CallState /\ call[d] \in CallState /\ OwnOK(c) /\ OwnOK(d)
  BY KnownTypes DEF SeqOK
<1>1. ~Open(d)
  <2>1. CASE \E ceiling : Start(c, ceiling) \/ LnStart(c, ceiling)
    BY <2>1 DEF Start, LnStart, MayStart
  <2>2. CASE Open(c)
    BY <2>2 DEF Known, SeqInv, Alone
  <2>3. Open(c) \/ \E ceiling : Start(c, ceiling) \/ LnStart(c, ceiling)
    BY DEF Fetch, FetchLightning, FreeAnswer, AskPrice, ProbeError, ReadLedger,
           Decide, Sign, Send, Respond, NetworkError, Return, Catch, LnNoOffer,
           LnOffer, LnReadLedger, LnDecide, LnPaid, LnNotPaid, LnRespond,
           LnNetworkError, Open
  <2> QED
    BY <2>1, <2>2, <2>3
<1> SUFFICES call'[d] = call[d] /\ book'[d] = book[d] /\ auth'[d] = auth[d]
               /\ taken'[d] = taken[d]
  BY <1>1 DEF Idle, Open
<1>2. CASE Fetch(c)
  <2>1. ASSUME NEW verified \in BOOLEAN, Decide(c, verified)
        PROVE  call'[d] = call[d] /\ book'[d] = book[d]
    <3>1. call[c].hook = c
      BY <1>a, <2>1 DEF Decide, OwnOK
    <3>2. Marked(c, HookAllows(c, verified))[d] = call[d]
      BY <3>1 DEF Marked
    <3> QED
      BY <1>a, <2>1, <3>2 DEF Decide, Marked
  <2>2. CASE Sign(c)
    <3>1. current = c
      BY <1>a, <2>2 DEF Sign, OwnOK, X402Open
    <3>2. call'[d] = [call[d] EXCEPT !.pc = call[d].pc, !.record = call[d].record]
      BY <2>2, <3>1 DEF Sign
    <3>3. call'[d] = call[d]
      BY <1>a, <3>2 DEF CallState
    <3> QED
      BY <1>a, <2>2, <3>3 DEF Sign, SignedRow
  <2>3. ASSUME NEW outcome, NEW said, Respond(c, outcome, said)
        PROVE  call'[d] = call[d] /\ book'[d] = book[d] /\ auth'[d] = auth[d]
    <3>1. current = c /\ call[c].record = c
      BY <1>a, <2>3 DEF Respond, OwnOK, X402Open
    <3> QED
      BY <1>a, <2>3, <3>1, NoCallAssumption DEF Respond
  <2>4. CASE Catch(c)
    BY <1>a, <2>4 DEF Catch, CaughtRow, Finish, OwnOK
  <2> QED
    BY <1>a, <1>2, <2>1, <2>2, <2>3, <2>4
       DEF Fetch, Start, FreeAnswer, AskPrice, ProbeError, ReadLedger, Decide, Sign,
           Send, Respond, NetworkError, Return, Catch, Finish
<1>3. CASE FetchLightning(c)
  BY <1>a, <1>3
     DEF FetchLightning, LnStart, LnNoOffer, LnOffer, LnReadLedger, LnDecide,
         LnPaid, LnNotPaid, LnRespond, LnNetworkError, Finish
<1> QED
  BY <1>2, <1>3

\* A call that is not open keeps what is known of it.
LEMMA RestKnown ==
    ASSUME NEW d \in Calls, SeqOK(d), Idle(d)
    PROVE  SeqOK(d)'
<1>1. call'[d].pc \in {"idle", "done"}
  BY DEF Idle, Open
<1> QED
  BY <1>1 DEF Idle, SeqOK, OwnOK, OpenRowOK, SeenOK, X402Open, Asked

-----------------------------------------------------------------------------
(* A step of a call keeps what is known of the call itself. *)

\* Figures read now are fresh.
LEMMA ReadFresh ==
    ASSUME Known, NEW c \in Calls, call'[c].seen = Exposure(book, now, call[c].seller),
           call'[c].seller = call[c].seller, UNCHANGED <<now, book>>
    PROVE  Fresh(c)'
<1> DEFINE day == now - DayWindow   rate == now - RateWindow
           seen == Exposure(book, now, call[c].seller)
<1>1. day \in Int /\ rate \in Int
  BY KnownTypes, PolicyAssumption
<1>2. /\ SpentSince(book, day) \in Nat /\ CountSince(book, rate) \in Nat
      /\ SpentWithSince(book, day, call[c].seller) \in Nat
  BY <1>1, KnownTypes, FiguresType
<1>3. /\ seen.today = SpentSince(book, day)
      /\ seen.seller = SpentWithSince(book, day, call[c].seller)
      /\ seen.count = CountSince(book, rate)
  BY DEF Exposure
<1>4. Covers(seen, book, now, call[c].seller)
  BY <1>2, <1>3 DEF Covers
<1> HIDE DEF seen
<1>5. call'[c].seen = seen
  BY DEF seen
<1> QED
  BY <1>4, <1>5 DEF Fresh

\* They stay so while the call keeps them and the ledger is not written.
LEMMA StaysFresh ==
    ASSUME NEW c \in Calls, Fresh(c), UNCHANGED <<now, book>>,
           call'[c].seen = call[c].seen, call'[c].seller = call[c].seller
    PROVE  Fresh(c)'
BY DEF Fresh

\* As the clock goes on the windows only leave rows behind.
LEMMA LaterCovers ==
    ASSUME NEW b \in [Calls -> Row], NEW t \in Nat, NEW seller,
           NEW seen \in [today : Nat, seller : Nat, count : Nat],
           Covers(seen, b, t, seller)
    PROVE  Covers(seen, b, t + 1, seller)
<1> DEFINE day == t - DayWindow          rate == t - RateWindow
           newDay == (t + 1) - DayWindow   newRate == (t + 1) - RateWindow
<1>1. /\ day \in Int /\ rate \in Int /\ newDay \in Int /\ newRate \in Int
      /\ day <= newDay /\ rate <= newRate
  BY PolicyAssumption
<1>2. NoHeavier(b, b)
  BY DEF NoHeavier, Row
<1>3. /\ SpentSince(b, newDay) <= SpentSince(b, day)
      /\ \A s : SpentWithSince(b, newDay, s) <= SpentWithSince(b, day, s)
  BY <1>1, <1>2, NoHeavierShowsNoMore
<1>4. CountSince(b, newRate) <= CountSince(b, rate)
  BY <1>1, <1>2, NoHeavierShowsNoMore
<1>5. /\ SpentSince(b, day) \in Nat /\ SpentSince(b, newDay) \in Nat
      /\ CountSince(b, rate) \in Nat /\ CountSince(b, newRate) \in Nat
      /\ \A s : SpentWithSince(b, day, s) \in Nat
      /\ \A s : SpentWithSince(b, newDay, s) \in Nat
  BY <1>1, FiguresType
<1>6. /\ SpentSince(b, day) <= seen.today
      /\ SpentWithSince(b, day, seller) <= seen.seller
      /\ CountSince(b, rate) <= seen.count
  BY DEF Covers
<1> HIDE DEF day, rate, newDay, newRate
<1>7. /\ SpentSince(b, newDay) <= seen.today
      /\ SpentWithSince(b, newDay, seller) <= seen.seller
      /\ CountSince(b, newRate) <= seen.count
  BY <1>3, <1>4, <1>5, <1>6
<1> QED
  BY <1>7 DEF Covers, newDay, newRate

LEMMA LaterStaysFresh ==
    ASSUME Known, NEW c \in Calls, Fresh(c), UNCHANGED <<book, call>>, now' = now + 1
    PROVE  Fresh(c)'
<1>1. call[c].seen \in [today : Nat, seller : Nat, count : Nat]
  BY KnownTypes DEF CallState
<1>2. Covers(call[c].seen, book, now + 1, call[c].seller)
  BY <1>1, KnownTypes, LaterCovers DEF Fresh
<1> QED
  BY <1>2 DEF Fresh

\* What a call that ends must show.
LEMMA EndedOwn ==
    ASSUME Known, NEW c \in Calls, call'[c] = Ended(c),
           auth'[c] = "taken" => taken'[c] <= call[c].price /\ Written(c)
    PROVE  SeqOK(c)'
<1>1. /\ call'[c].pc = "done" /\ call'[c].record = NoCall
      /\ Written(c) => call'[c].price = call[c].price
  BY EndedKeepsTerms DEF Known
<1> QED
  BY <1>1 DEF SeqOK, OwnOK, OpenRowOK, SeenOK, X402Open, Asked

LEMMA FetchOwn ==
    ASSUME Known, NEW c \in Calls, Fetch(c)
    PROVE  SeqOK(c)'
<1>a. /\ call \in [Calls -> CallState] /\ book \in [Calls -> Row]
      /\ auth \in [Calls -> {"none", "out", "void", "taken"}]
      /\ taken \in [Calls -> 0..MaxPrice] /\ current \in Calls \cup {NoCall}
      /\ call[c] \in CallState /\ RecordOK(c)
      /\ OwnOK(c) /\ OpenRowOK(c) /\ SeenOK(c)
  BY KnownTypes DEF SeqOK
<1>b. /\ auth[c] = "taken" => taken[c] <= call[c].price /\ Written(c)
  BY <1>a DEF OpenRowOK, RecordOK
<1> DEFINE pc == call[c].pc
<1>1. ASSUME NEW ceiling \in Ceilings \cup {NoCeiling}, Start(c, ceiling)
      PROVE  SeqOK(c)'
  BY <1>a, <1>1 DEF Start, SeqOK, OwnOK, OpenRowOK, SeenOK, X402Open, Asked, CallState
<1>2. CASE FreeAnswer(c)
  BY <1>a, <1>b, <1>2, EndedOwn DEF FreeAnswer, Finish
<1>3. ASSUME NEW s \in Sellers, NEW p \in Prices, NEW scheme \in X402Schemes,
             AskPrice(c, s, p, scheme)
      PROVE  SeqOK(c)'
  <2>1. current = c /\ auth'[c] # "taken"
    BY <1>a, <1>3 DEF AskPrice, OwnOK, X402Open, RecordOK, Undecided
  <2>2. call'[c] = [call[c] EXCEPT !.pc = "hooked", !.hook = current, !.seller = s,
                                   !.price = p, !.scheme = scheme]
    BY <1>a, <1>3 DEF AskPrice
  <2>3. /\ call'[c].pc = "hooked" /\ call'[c].hook = c /\ call'[c].price = p
        /\ call'[c].record = call[c].record /\ current' = c
    BY <1>a, <1>3, <2>1, <2>2 DEF CallState, AskPrice
  <2> QED
    BY <1>a, <2>1, <2>3 DEF SeqOK, OwnOK, OpenRowOK, SeenOK
<1>4. CASE ProbeError(c)
  BY <1>a, <1>4 DEF ProbeError, SeqOK, OwnOK, OpenRowOK, SeenOK, X402Open, Asked, CallState
<1>5. CASE ReadLedger(c)
  <2>1. call'[c] = [call[c] EXCEPT !.pc = "read",
                                   !.seen = Exposure(book, now, call[c].seller)]
    BY <1>a, <1>5 DEF ReadLedger
  <2>2. /\ call'[c].pc = "read" /\ call'[c].hook = call[c].hook
        /\ call'[c].seen = Exposure(book, now, call[c].seller)
        /\ call'[c].price = call[c].price /\ call'[c].seller = call[c].seller
        /\ call'[c].record = call[c].record
    BY <1>a, <2>1 DEF CallState
  <2>3. Fresh(c)'
    BY <1>5, <2>2, ReadFresh DEF ReadLedger
  <2> QED
    BY <1>a, <1>5, <2>2, <2>3
       DEF ReadLedger, SeqOK, OwnOK, OpenRowOK, SeenOK, X402Open, Asked
<1>6. ASSUME NEW verified \in BOOLEAN, Decide(c, verified) PROVE SeqOK(c)'
  <2>1. /\ SameTerms(c) /\ call'[c].record = call[c].record
        /\ call'[c].pc = IF HookAllows(c, verified) THEN "signing" ELSE "failing"
    BY <1>6, DecideShape DEF Known
  <2>2. pc = "read" /\ UNCHANGED <<now, current, auth, taken>>
    BY <1>6 DEF Decide
  <2>3. OwnOK(c)'
    <3>1. HookAllows(c, verified) => call[c].price <= call[c].ceiling
      BY <1>a, <2>2, NoCallAssumption DEF HookAllows, CeilingOf, OwnOK
    <3> QED
      BY <1>a, <2>1, <2>2, <3>1 DEF OwnOK, X402Open, Asked, SameTerms
  <2>4. OpenRowOK(c)'
    BY <1>a, <2>1, <2>2 DEF OpenRowOK, SameTerms
  <2>5. SeenOK(c)'
    <3>1. CASE HookAllows(c, verified)
      <4>1. book' = book
        BY <1>6, <3>1 DEF Decide
      <4>2. Fresh(c)'
        BY <1>a, <2>1, <2>2, <4>1, StaysFresh DEF SeenOK, SameTerms
      <4>3. EvaluatePolicy(call[c].seller, call[c].price, call[c].seen, TRUE)
        BY <3>1 DEF HookAllows, EvaluatePolicy
      <4>4. EvaluatePolicy(call[c].seller, call[c].price, call[c].seen, TRUE)'
        BY <2>1, <4>3 DEF EvaluatePolicy, SameTerms
      <4> QED
        BY <4>2, <4>4 DEF SeenOK
    <3>2. CASE ~HookAllows(c, verified)
      BY <2>1, <3>2 DEF SeenOK
    <3> QED
      BY <3>1, <3>2
  <2> QED
    BY <2>3, <2>4, <2>5 DEF SeqOK
<1>7. CASE Sign(c)
  <2>1. pc = "signing" /\ current = c /\ UNCHANGED <<current, auth, taken>>
    BY <1>a, <1>7 DEF Sign, OwnOK, X402Open
  <2>2. /\ SameTerms(c) /\ call'[c].pc = "recorded" /\ call'[c].record = c
    BY <1>7, <2>1, SignShape DEF Known
  <2>3. book'[c].status = "signed" /\ book'[c].amount = call[c].price
    BY <1>a, <1>7 DEF Sign, SignedRow, NewRow
  <2> QED
    BY <1>a, <2>1, <2>2, <2>3
       DEF SeqOK, OwnOK, OpenRowOK, SeenOK, SameTerms, X402Open, Asked
<1>8. CASE Send(c)
  BY <1>a, <1>8 DEF Send, SeqOK, OwnOK, OpenRowOK, SeenOK, X402Open, Asked, CallState
<1>9. ASSUME NEW outcome \in {"settled", "refused", "handler_failed"},
             NEW said \in BOOLEAN, Respond(c, outcome, said)
      PROVE  SeqOK(c)'
  <2>1. call'[c] = [call[c] EXCEPT !.pc = "answered"]
    BY <1>a, <1>9 DEF Respond
  <2>2. UNCHANGED <<current, taken>> /\ pc = "sent"
    BY <1>9 DEF Respond
  <2>3. auth'[c] = "taken" => auth[c] = "taken"
    BY <1>a, <1>9 DEF Respond
  <2> QED
    BY <1>a, <2>1, <2>2, <2>3
       DEF SeqOK, OwnOK, OpenRowOK, SeenOK, X402Open, Asked, CallState
<1>10. CASE NetworkError(c)
  BY <1>a, <1>10 DEF NetworkError, SeqOK, OwnOK, OpenRowOK, SeenOK, X402Open, Asked, CallState
<1>11. CASE Return(c)
  BY <1>a, <1>b, <1>11, EndedOwn DEF Return, Finish
<1>12. CASE Catch(c)
  BY <1>a, <1>b, <1>12, EndedOwn DEF Catch, Finish
<1> QED
  BY <1>1, <1>2, <1>3, <1>4, <1>5, <1>6, <1>7, <1>8, <1>9, <1>10, <1>11, <1>12 DEF Fetch

LEMMA FetchLightningOwn ==
    ASSUME Known, NEW c \in Calls, FetchLightning(c)
    PROVE  SeqOK(c)'
<1>a. /\ call \in [Calls -> CallState] /\ book \in [Calls -> Row]
      /\ auth \in [Calls -> {"none", "out", "void", "taken"}]
      /\ taken \in [Calls -> 0..MaxPrice]
      /\ call[c] \in CallState /\ RecordOK(c)
      /\ OwnOK(c) /\ OpenRowOK(c) /\ SeenOK(c)
  BY KnownTypes DEF SeqOK
<1>b. auth[c] = "taken" => taken[c] <= call[c].price /\ Written(c)
  BY <1>a DEF OpenRowOK, RecordOK
<1>c. call[c].price \in Int
  BY <1>a DEF CallState
<1>1. ASSUME NEW ceiling \in Ceilings \cup {NoCeiling}, LnStart(c, ceiling)
      PROVE  SeqOK(c)'
  BY <1>a, <1>1 DEF LnStart, SeqOK, OwnOK, OpenRowOK, SeenOK, X402Open, Asked, CallState
<1>2. ASSUME NEW res \in Results, LnNoOffer(c, res) PROVE SeqOK(c)'
  BY <1>a, <1>b, <1>2, EndedOwn DEF LnNoOffer, Finish
<1>3. ASSUME NEW s \in Sellers, NEW p \in Prices, LnOffer(c, s, p) PROVE SeqOK(c)'
  <2>1. auth'[c] # "taken"
    BY <1>a, <1>3 DEF LnOffer, RecordOK, Undecided
  <2> QED
    BY <1>a, <1>3, <2>1
       DEF LnOffer, SeqOK, OwnOK, OpenRowOK, SeenOK, X402Open, Asked, CallState
<1>4. CASE LnReadLedger(c)
  <2>1. call'[c] = [call[c] EXCEPT !.pc = "ln_read",
                                   !.seen = Exposure(book, now, call[c].seller)]
    BY <1>a, <1>4 DEF LnReadLedger
  <2>2. /\ call'[c].pc = "ln_read"
        /\ call'[c].seen = Exposure(book, now, call[c].seller)
        /\ call'[c].price = call[c].price /\ call'[c].seller = call[c].seller
        /\ call'[c].record = call[c].record
    BY <1>a, <2>1 DEF CallState
  <2>3. Fresh(c)'
    BY <1>4, <2>2, ReadFresh DEF LnReadLedger
  <2> QED
    BY <1>a, <1>4, <2>2, <2>3
       DEF LnReadLedger, SeqOK, OwnOK, OpenRowOK, SeenOK, X402Open, Asked
<1>5. CASE LnDecide(c)
  <2>1. call[c].pc = "ln_read" /\ UNCHANGED <<auth, taken>>
    BY <1>5 DEF LnDecide
  <2>2. CASE Finish(c, "rejected")
    BY <1>a, <1>b, <2>1, <2>2, EndedOwn DEF Finish
  <2>3. CASE /\ call' = [call EXCEPT ![c] = [@ EXCEPT !.pc = "ln_recorded"]]
             /\ book'[c].status = "signed"
             /\ call[c].price <= call[c].ceiling
    BY <1>a, <2>1, <2>3
       DEF SeqOK, OwnOK, OpenRowOK, SeenOK, X402Open, Asked, CallState
  <2> QED
    BY <1>a, <1>5, <2>2, <2>3 DEF LnDecide, NewRow
<1>6. CASE LnPaid(c)
  BY <1>a, <1>c, <1>6 DEF LnPaid, SeqOK, OwnOK, OpenRowOK, SeenOK, X402Open, Asked, CallState
<1>7. ASSUME NEW fate \in {"void", "out", "taken"}, LnNotPaid(c, fate) PROVE SeqOK(c)'
  <2>1. Written(c)
    BY <1>a, <1>7 DEF LnNotPaid, RecordOK, Committed
  <2> QED
    BY <1>a, <1>c, <1>7, <2>1, EndedOwn DEF LnNotPaid, Finish
<1>8. ASSUME NEW outcome \in {"settled", "failed"}, LnRespond(c, outcome) PROVE SeqOK(c)'
  BY <1>a, <1>b, <1>8, EndedOwn DEF LnRespond, Finish
<1>9. CASE LnNetworkError(c)
  BY <1>a, <1>b, <1>9, EndedOwn DEF LnNetworkError, Finish
<1> QED
  BY <1>1, <1>2, <1>3, <1>4, <1>5, <1>6, <1>7, <1>8, <1>9 DEF FetchLightning

-----------------------------------------------------------------------------

LEMMA SeqStep ==
    ASSUME ~Concurrent, Known, [Next]_vars
    PROVE  SeqInv'
<1>a. \A d \in Calls : SeqOK(d) /\ RecordOK(d) /\ call[d] \in CallState
  BY KnownTypes
<1>1. ASSUME NEW c \in Calls, Fetch(c) \/ FetchLightning(c) PROVE SeqInv'
  <2>1. SeqOK(c)'
    BY <1>1, FetchOwn, FetchLightningOwn
  <2>2. \A d \in Calls : d # c => Idle(d)
    BY <1>1, OthersRest
  <2>3. \A d \in Calls : d # c => SeqOK(d)'
    BY <1>a, <2>2, RestKnown
  <2>4. Alone'
    BY <2>2 DEF Idle, Alone
  <2> QED
    BY <2>1, <2>3, <2>4 DEF SeqInv
<1>2. ASSUME NEW c \in Calls, NEW amount \in Prices, SellerTakes(c, amount)
      PROVE  SeqInv'
  <2>1. UNCHANGED <<now, book, call, current>> /\ amount <= call[c].price
    BY <1>a, <1>2 DEF SellerTakes, CallState, Prices
  <2>2. \A d \in Calls : d # c => auth'[d] = auth[d] /\ taken'[d] = taken[d]
    BY <1>2, KnownTypes DEF SellerTakes
  <2>3. taken'[c] <= call[c].price
    BY <1>2, <2>1, KnownTypes DEF SellerTakes
  <2>4. ASSUME NEW d \in Calls PROVE SeqOK(d)'
    <3>1. auth'[d] = "taken" => taken'[d] <= call[d].price
      BY <1>a, <2>2, <2>3 DEF SeqOK, OpenRowOK
    <3>2. Fresh(d) => Fresh(d)'
      BY <2>1 DEF Fresh
    <3> QED
      BY <1>a, <2>1, <3>1, <3>2 DEF SeqOK, OwnOK, OpenRowOK, SeenOK
  <2>5. Alone'
    BY <2>1 DEF Known, SeqInv, Alone, Open
  <2> QED
    BY <2>4, <2>5 DEF SeqInv
<1>3. CASE Crash
  <2>1. UNCHANGED <<book, auth, taken>>
    BY <1>3 DEF Crash
  <2>2. ASSUME NEW d \in Calls PROVE SeqOK(d)' /\ ~Open(d)'
    <3>1. CASE Open(d)
      <4>1. call'[d] = Ended(d)
        BY <1>3, <3>1 DEF Crash
      <4>2. auth[d] = "taken" => taken[d] <= call[d].price /\ Written(d)
        BY <1>a DEF SeqOK, OpenRowOK, RecordOK
      <4>3. SeqOK(d)'
        BY <2>1, <4>1, <4>2, EndedOwn
      <4>4. call'[d].pc = "done"
        BY <4>1, EndedKeepsTerms DEF Known
      <4> QED
        BY <4>3, <4>4 DEF Open
    <3>2. CASE ~Open(d)
      <4>1. call'[d] = call[d]
        BY <1>3, <3>2 DEF Crash
      <4>2. Idle(d)
        BY <2>1, <3>2, <4>1 DEF Idle, Open
      <4> QED
        BY <1>a, <4>2, RestKnown DEF Idle
    <3> QED
      BY <3>1, <3>2
  <2> QED
    BY <2>2 DEF SeqInv, Alone
<1>4. CASE Tick
  <2>1. UNCHANGED <<book, current, call, auth, taken>> /\ now' = now + 1
    BY <1>4 DEF Tick
  <2>2. ASSUME NEW d \in Calls, Fresh(d) PROVE Fresh(d)'
    BY <2>1, <2>2, LaterStaysFresh
  <2>3. \A d \in Calls : SeqOK(d)'
    BY <1>a, <2>1, <2>2 DEF SeqOK, OwnOK, OpenRowOK, SeenOK
  <2> QED
    BY <2>1, <2>3 DEF Known, SeqInv, Alone, Open
<1>5. CASE AllDone \/ UNCHANGED vars
  BY <1>5 DEF AllDone, vars, Known, SeqInv, Alone, Open, SeqOK, OwnOK, OpenRowOK,
              SeenOK, Fresh
<1> QED
  BY <1>1, <1>2, <1>3, <1>4, <1>5 DEF Next

LEMMA SeqKnown == ASSUME ~Concurrent PROVE Spec => []Known
<1>1. Init => SeqInv
  <2> SUFFICES ASSUME Init PROVE SeqInv
    OBVIOUS
  <2>1. \A c \in Calls : /\ call[c].pc = "idle" /\ call[c].record = NoCall
                         /\ auth[c] = "none"
    BY DEF Init, IdleCall
  <2> QED
    BY <2>1 DEF SeqInv, Alone, Open, SeqOK, OwnOK, OpenRowOK, SeenOK, X402Open, Asked
<1>2. Init => RecordInv
  BY DEF Init, RecordInv, RecordOK, Written, IdleCall, NoRow, Undecided, Committed
<1>3. TypeInv /\ TypeInv' /\ RecordInv /\ SeqInv /\ [Next]_vars => RecordInv' /\ SeqInv'
  BY RecordStep, SeqStep DEF Known
<1>4. TypeInv /\ RecordInv /\ SeqInv => Known
  BY DEF Known
<1> QED
  BY <1>1, <1>2, <1>3, <1>4, RailWellFormed, PTL DEF Spec

\* With one call at a time, no payment leaves above the ceiling its own
\* caller set.  (MCRailCeiling shows that overlapping calls break it.)
THEOREM CeilingHolds == ASSUME ~Concurrent PROVE Spec => []CeilingHeld
<1>1. Known => CeilingHeld
  BY DEF Known, SeqInv, SeqOK, OwnOK, CeilingHeld, Leaving
<1> QED
  BY <1>1, SeqKnown, PTL

-----------------------------------------------------------------------------
(* The refinement.  What the account holds is what the ledger counts. *)

\* The operators of the two modules are the same.
LEMMA SameFigures ==
    /\ \A b, t : Limit!SpentSince(b, t) = SpentSince(b, t)
    /\ \A b, t, s : Limit!SpentWithSince(b, t, s) = SpentWithSince(b, t, s)
    /\ \A b, t : Limit!CountSince(b, t) = CountSince(b, t)
BY DEF Limit!SpentSince, SpentSince, Limit!SpentWithSince, SpentWithSince,
       Limit!CountSince, CountSince, Limit!CountedRows, CountedRows,
       Limit!UnitsOf, UnitsOf, Limit!SPENT, SPENT, Limit!Prices, Prices,
       Limit!Cardinality, Cardinality

LEMMA SameOperators ==
    /\ \A b, t, s : Limit!Exposure(b, t, s) = Exposure(b, t, s)
    /\ \A s, p, seen, v : Limit!EvaluatePolicy(s, p, seen, v) <=> EvaluatePolicy(s, p, seen, v)
    /\ \A st, s, p, sch, t : Limit!NewRow(st, s, p, sch, t) = NewRow(st, s, p, sch, t)
    /\ Limit!NoRow = NoRow /\ Limit!Prices = Prices /\ Limit!Schemes = Schemes
<1>1. \A b, t, s : Limit!Exposure(b, t, s) = Exposure(b, t, s)
  BY SameFigures DEF Limit!Exposure, Exposure
<1>2. \A s, p, seen, v :
         Limit!EvaluatePolicy(s, p, seen, v) <=> EvaluatePolicy(s, p, seen, v)
  BY DEF Limit!EvaluatePolicy, EvaluatePolicy
<1>3. \A st, s, p, sch, t : Limit!NewRow(st, s, p, sch, t) = NewRow(st, s, p, sch, t)
  BY DEF Limit!NewRow, NewRow
<1>4. Limit!NoRow = NoRow /\ Limit!Prices = Prices /\ Limit!Schemes = Schemes
  BY DEF Limit!NoRow, NoRow, Limit!NoSeller, NoSeller, Limit!Prices, Prices, Limit!Schemes, Schemes
<1> QED
  BY <1>1, <1>2, <1>3, <1>4

\* What the account holds for a row.
HeldFor(row) == IF row.status \in SPENT THEN [row EXCEPT !.status = "signed"] ELSE NoRow

LEMMA HeldForRow ==
    ASSUME NEW row \in Row
    PROVE  /\ HeldFor(row) \in Row
           /\ HeldFor(row).status \in SPENT <=> row.status \in SPENT
           /\ row.status \in SPENT => /\ HeldFor(row) # NoRow
                                      /\ HeldFor(row).payTo = row.payTo
                                      /\ HeldFor(row).at = row.at
                                      /\ HeldFor(row).amount = row.amount
           /\ row.status \notin SPENT => HeldFor(row) = NoRow
           /\ row.status = "signed" => HeldFor(row) = row
BY NoRowType DEF HeldFor, Row, SPENT, NoRow, Statuses

LEMMA HeldIs ==
    /\ Held = [c \in Calls |-> HeldFor(book[c])]
    /\ Held' = [c \in Calls |-> HeldFor(book'[c])]
BY DEF Held, HeldFor

LEMMA HeldWeighsTheSame ==
    ASSUME book \in [Calls -> Row]
    PROVE  Held \in [Calls -> Row] /\ NoHeavier(Held, book) /\ NoHeavier(book, Held)
<1>1. \A c \in Calls : book[c] \in Row /\ Held[c] = HeldFor(book[c])
  BY HeldIs
<1>2. Held \in [Calls -> Row]
  BY <1>1, HeldIs, HeldForRow
<1>3. NoHeavier(Held, book) /\ NoHeavier(book, Held)
  <2> SUFFICES ASSUME NEW c \in Calls, book[c].status \in SPENT
               PROVE  /\ Held[c].payTo = book[c].payTo /\ Held[c].at = book[c].at
                      /\ Held[c].amount = book[c].amount
                      /\ book[c].amount \in Int /\ Held[c].status \in SPENT
    BY <1>1, HeldForRow DEF NoHeavier
  <2> QED
    BY <1>1, HeldForRow DEF Row
<1> QED
  BY <1>2, <1>3

\* The row is written while the figures it was decided on still stand.
LEMMA SignsAsCommit ==
    ASSUME Known, NEW c \in Calls, Fresh(c), book[c].status = "none",
           call[c].seller \in Sellers, call[c].price \in Prices,
           EvaluatePolicy(call[c].seller, call[c].price, call[c].seen, TRUE),
           book' = [book EXCEPT ![c] = NewRow("signed", call[c].seller, call[c].price,
                                              call[c].scheme, now)],
           now' = now
    PROVE  Limit!Next
<1> DEFINE s == call[c].seller   p == call[c].price   my == call[c].seen
           row == NewRow("signed", s, p, call[c].scheme, now)
           day == now - DayWindow   rate == now - RateWindow
<1>1. /\ book \in [Calls -> Row] /\ call[c] \in CallState
      /\ day \in Int /\ rate \in Int /\ now \in Nat
  BY KnownTypes, PolicyAssumption
<1>2. Held \in [Calls -> Row] /\ NoHeavier(Held, book)
  BY <1>1, HeldWeighsTheSame
<1>3. /\ SpentSince(Held, day) <= SpentSince(book, day)
      /\ SpentWithSince(Held, day, s) <= SpentWithSince(book, day, s)
      /\ CountSince(Held, rate) <= CountSince(book, rate)
  BY <1>1, <1>2, NoHeavierShowsNoMore
<1>4. /\ SpentSince(Held, day) \in Nat /\ SpentWithSince(Held, day, s) \in Nat
      /\ CountSince(Held, rate) \in Nat
      /\ SpentSince(book, day) \in Nat /\ SpentWithSince(book, day, s) \in Nat
      /\ CountSince(book, rate) \in Nat
  BY <1>1, <1>2, FiguresType
<1>5. /\ SpentSince(book, day) <= my.today
      /\ SpentWithSince(book, day, s) <= my.seller
      /\ CountSince(book, rate) <= my.count
  BY DEF Fresh, Covers
<1>6. my.today \in Nat /\ my.seller \in Nat /\ my.count \in Nat /\ p \in Nat
  BY <1>1 DEF CallState, Prices
<1>7. /\ s \in Permitted /\ p <= PerPaymentCap /\ my.count < RateMax
      /\ my.today + p <= DailyCap /\ my.seller + p <= SellerCap
  BY DEF EvaluatePolicy
<1>8. /\ Exposure(Held, now, s).today = SpentSince(Held, day)
      /\ Exposure(Held, now, s).seller = SpentWithSince(Held, day, s)
      /\ Exposure(Held, now, s).count = CountSince(Held, rate)
  BY DEF Exposure
<1>9. row \in Row /\ row.status = "signed"
  BY <1>1, NewRowType DEF Statuses, NewRow
<1>10. Held[c] = NoRow
  BY <1>1, HeldIs, HeldForRow DEF SPENT
<1>11. Held' = [Held EXCEPT ![c] = row]
  <2>1. \A d \in Calls : book'[d] = IF d = c THEN row ELSE book[d]
    BY <1>1
  <2>2. HeldFor(row) = row
    BY <1>9, HeldForRow
  <2> HIDE DEF row
  <2> QED
    BY <2>1, <2>2, HeldIs
<1>12. call[c].scheme \in Schemes
  BY <1>1 DEF CallState
<1> HIDE DEF s, p, my, row, day, rate
<1>13. EvaluatePolicy(s, p, Exposure(Held, now, s), TRUE)
  <2>1. /\ CountSince(Held, rate) < RateMax
        /\ SpentSince(Held, day) + p <= DailyCap
        /\ SpentWithSince(Held, day, s) + p <= SellerCap
    BY <1>3, <1>4, <1>5, <1>6, <1>7, PolicyAssumption
  <2> QED
    BY <1>7, <1>8, <2>1 DEF EvaluatePolicy
<1>14. Limit!Commit(c, s, p, call[c].scheme)
  BY <1>10, <1>11, <1>13, SameOperators DEF Limit!Commit, row
<1> QED
  BY <1>12, <1>14, SameOperators DEF Limit!Next, s, p

\* A step that leaves the other rows alone and the row of c no heavier, with
\* its terms, is a step of the account or none.
LEMMA ClosesAsLimit ==
    ASSUME Known, book' \in [Calls -> Row], NEW c \in Calls, now' = now,
           \A d \in Calls : d # c => book'[d] = book[d],
           \/ book'[c].status \notin SPENT
           \/ /\ book[c].status \in SPENT /\ book'[c].status \in SPENT
              /\ book'[c] = [book[c] EXCEPT !.status = book'[c].status,
                                            !.amount = book'[c].amount]
              /\ book'[c].amount <= book[c].amount
    PROVE  [Limit!Next]_(Limit!limitVars)
<1> DEFINE row == book[c]   new == book'[c]
<1>1. /\ book \in [Calls -> Row] /\ row \in Row /\ new \in Row
  BY KnownTypes
<1>2. /\ Held = [d \in Calls |-> HeldFor(book[d])]
      /\ Held' = [d \in Calls |-> IF d = c THEN HeldFor(new) ELSE HeldFor(book[d])]
  BY HeldIs
<1>3. CASE new.status \notin SPENT
  <2>1. HeldFor(new) = NoRow
    BY <1>1, <1>3, HeldForRow
  <2>2. CASE row.status \in SPENT
    <3>1. Held[c] # NoRow
      BY <1>1, <1>2, <2>2, HeldForRow
    <3> HIDE DEF new
    <3>2. Held' = [Held EXCEPT ![c] = NoRow]
      BY <1>2, <2>1
    <3>3. Limit!Drop(c)
      BY <3>1, <3>2, SameOperators DEF Limit!Drop
    <3> QED
      BY <3>3 DEF Limit!Next
  <2>3. CASE row.status \notin SPENT
    <3>1. HeldFor(row) = NoRow
      BY <1>1, <2>3, HeldForRow
    <3> HIDE DEF new
    <3>2. Held' = Held
      BY <1>2, <2>1, <3>1
    <3> QED
      BY <3>2 DEF Limit!limitVars
  <2> QED
    BY <2>2, <2>3
<1>4. CASE /\ row.status \in SPENT /\ new.status \in SPENT
           /\ new = [row EXCEPT !.status = new.status, !.amount = new.amount]
           /\ new.amount <= row.amount
  <2>1. Held[c] # NoRow /\ Held[c].amount = row.amount
    BY <1>1, <1>2, <1>4, HeldForRow
  <2>2. HeldFor(new) = [HeldFor(row) EXCEPT !.amount = new.amount]
    <3>1. HeldFor(new) = [new EXCEPT !.status = "signed"]
      BY <1>4 DEF HeldFor
    <3>2. HeldFor(row) = [row EXCEPT !.status = "signed"]
      BY <1>4 DEF HeldFor
    <3> HIDE DEF new, row
    <3>3. \A x \in Statuses, a \in 0..MaxPrice :
             [[row EXCEPT !.status = x, !.amount = a] EXCEPT !.status = "signed"]
               = [[row EXCEPT !.status = "signed"] EXCEPT !.amount = a]
      BY <1>1 DEF Row
    <3>4. new.status \in Statuses /\ new.amount \in 0..MaxPrice
      BY <1>1 DEF Row
    <3>5. [[row EXCEPT !.status = new.status, !.amount = new.amount] EXCEPT !.status = "signed"]
            = [[row EXCEPT !.status = "signed"] EXCEPT !.amount = new.amount]
      BY <3>3, <3>4
    <3>6. new = [row EXCEPT !.status = new.status, !.amount = new.amount]
      BY <1>4
    <3>7. [new EXCEPT !.status = "signed"]
            = [[row EXCEPT !.status = "signed"] EXCEPT !.amount = new.amount]
      BY <3>5, <3>6, Zenon
    <3> QED
      BY <3>1, <3>2, <3>7, Zenon
  <2>3. new.amount \in 0..MaxPrice
    BY <1>1 DEF Row
  <2> HIDE DEF new
  <2>4. Held' = [Held EXCEPT ![c].amount = new.amount]
    BY <1>2, <2>2
  <2>5. Limit!Lower(c, new.amount)
    BY <1>4, <2>1, <2>4, SameOperators DEF Limit!Lower
  <2> QED
    BY <2>3, <2>5 DEF Limit!Next
<1> QED
  BY <1>3, <1>4

\* A row closed for the amount it was written for.
LEMMA SameAmount ==
    ASSUME NEW row \in Row, NEW x \in Statuses
    PROVE  /\ [row EXCEPT !.status = x] = [row EXCEPT !.status = x, !.amount = row.amount]
           /\ [row EXCEPT !.status = x].status = x
           /\ [row EXCEPT !.status = x].amount = row.amount
           /\ row.amount <= row.amount
<1>1. [row EXCEPT !.status = x] = [row EXCEPT !.status = x, !.amount = row.amount]
  BY DEF Row
<1>2. /\ [row EXCEPT !.status = x].status = x
      /\ [row EXCEPT !.status = x].amount = row.amount
  BY DEF Row
<1>3. row.amount <= row.amount
  BY DEF Row
<1> QED
  BY <1>1, <1>2, <1>3

LEMMA LimitStep ==
    ASSUME ~Concurrent, Known, TypeInv', [Next]_vars
    PROVE  [Limit!Next]_(Limit!limitVars)
<1>a. /\ call \in [Calls -> CallState] /\ book \in [Calls -> Row]
      /\ book' \in [Calls -> Row] /\ taken \in [Calls -> 0..MaxPrice]
      /\ \A d \in Calls : call[d] \in CallState /\ StateOK(call[d])
                            /\ RecordOK(d) /\ SeqOK(d)
  BY KnownTypes DEF TypeInv, TypeOK
<1>b. UNCHANGED <<now, book>> => UNCHANGED Limit!limitVars
  BY DEF Limit!limitVars, Held
<1>1. ASSUME NEW c \in Calls, Fetch(c) PROVE [Limit!Next]_(Limit!limitVars)
  <2>a. \A d \in Calls : d # c => book'[d] = book[d]
    BY <1>1, OthersRest DEF Idle
  <2>1. ASSUME NEW verified \in BOOLEAN, Decide(c, verified)
        PROVE  [Limit!Next]_(Limit!limitVars)
    <3>1. CASE HookAllows(c, verified)
      BY <1>b, <2>1, <3>1 DEF Decide
    <3>2. CASE ~HookAllows(c, verified)
      <4>1. book'[c].status \notin SPENT /\ now' = now
        BY <1>a, <2>1, <3>2 DEF Decide, NewRow, SPENT
      <4> QED
        BY <1>a, <2>a, <4>1, ClosesAsLimit
    <3> QED
      BY <3>1, <3>2
  <2>2. CASE Sign(c)
    <3>1. /\ Fresh(c) /\ book[c].status = "none"
          /\ call[c].seller \in Sellers /\ call[c].price \in Prices
          /\ EvaluatePolicy(call[c].seller, call[c].price, call[c].seen, TRUE)
      BY <1>a, <2>2 DEF Sign, SeqOK, SeenOK, OwnOK, RecordOK, StateOK, Asked, Undecided
    <3>2. Limit!Next
      BY <2>2, <3>1, SignsAsCommit DEF Sign, SignedRow
    <3> QED
      BY <3>2
  <2>3. ASSUME NEW outcome \in {"settled", "refused", "handler_failed"},
               NEW said \in BOOLEAN, Respond(c, outcome, said)
        PROVE  [Limit!Next]_(Limit!limitVars)
    <3>1. /\ current = c /\ call[c].record = c /\ c # NoCall
          /\ book[c].status = "signed" /\ book[c].amount = call[c].price
      BY <1>a, <2>3, NoCallAssumption DEF Respond, SeqOK, OwnOK, OpenRowOK, X402Open
    <3> DEFINE to == ClosedAs(outcome)
               amount == IF outcome = "settled" /\ said /\ book[c].scheme = "upto"
                         THEN taken[c] ELSE book[c].amount
    <3>2. book'[c] = [book[c] EXCEPT !.status = to, !.amount = amount]
      BY <1>a, <2>3, <3>1 DEF Respond
    <3>3. outcome = "settled" => amount <= book[c].amount
      <4>1. outcome = "settled" => taken[c] <= call[c].price
        BY <1>a, <2>3 DEF Respond, SeqOK, OpenRowOK
      <4>2. book[c].amount \in Int
        BY <1>a DEF Row
      <4> QED
        BY <3>1, <4>1, <4>2
    <3>4. to \in SPENT <=> outcome = "settled"
      BY DEF ClosedAs, SPENT
    <3>5. book[c] \in Row /\ now' = now
      BY <1>a, <2>3 DEF Respond
    <3> HIDE DEF to, amount
    <3>6. book'[c].status = to /\ book'[c].amount = amount
      BY <3>2, <3>5 DEF Row
    <3>7. book[c].status \in SPENT
      BY <3>1 DEF SPENT
    <3> QED
      BY <1>a, <2>a, <3>2, <3>3, <3>4, <3>5, <3>6, <3>7, ClosesAsLimit
  <2>4. CASE Catch(c)
    <3>1. CASE book' = book
      BY <1>b, <2>4, <3>1 DEF Catch
    <3>2. CASE book' # book
      <4>1. call[c].record = c
        BY <1>a, <2>4, <3>2 DEF Catch, CaughtRow, SeqOK, OwnOK
      <4>2. book'[c].status \notin SPENT /\ now' = now
        BY <1>a, <2>4, <3>2, <4>1 DEF Catch, CaughtRow, SPENT, Row
      <4> QED
        BY <1>a, <2>a, <4>2, ClosesAsLimit
    <3> QED
      BY <3>1, <3>2
  <2> QED
    BY <1>b, <1>1, <2>1, <2>2, <2>3, <2>4
       DEF Fetch, Start, FreeAnswer, AskPrice, ProbeError, ReadLedger, Send,
           NetworkError, Return
<1>2. ASSUME NEW c \in Calls, FetchLightning(c) PROVE [Limit!Next]_(Limit!limitVars)
  <2>a. \A d \in Calls : d # c => book'[d] = book[d]
    BY <1>2, OthersRest DEF Idle
  <2>1. CASE LnDecide(c)
    <3>1. /\ Fresh(c) /\ book[c].status = "none" /\ now' = now
          /\ call[c].seller \in Sellers /\ call[c].price \in Prices
      BY <1>a, <2>1 DEF LnDecide, SeqOK, SeenOK, OwnOK, RecordOK, StateOK, Asked, Undecided
    <3>2. CASE /\ EvaluatePolicy(call[c].seller, call[c].price, call[c].seen, FALSE)
               /\ book' = [book EXCEPT ![c] = NewRow("signed", call[c].seller,
                                    call[c].price, call[c].scheme, now)]
      <4>1. EvaluatePolicy(call[c].seller, call[c].price, call[c].seen, TRUE)
        BY <3>2 DEF EvaluatePolicy
      <4>2. Limit!Next
        BY <3>1, <3>2, <4>1, SignsAsCommit
      <4> QED
        BY <4>2
    <3>3. CASE book'[c].status = "rejected"
      <4>1. book'[c].status \notin SPENT
        BY <3>3 DEF SPENT
      <4> QED
        BY <1>a, <2>a, <3>1, <4>1, ClosesAsLimit
    <3> QED
      BY <1>a, <2>1, <3>2, <3>3 DEF LnDecide, NewRow
  <2>2. ASSUME NEW fate \in {"void", "out", "taken"}, LnNotPaid(c, fate)
        PROVE  [Limit!Next]_(Limit!limitVars)
    <3>1. book'[c].status \notin SPENT /\ now' = now
      BY <1>a, <2>2 DEF LnNotPaid, SPENT, Row
    <3> QED
      BY <1>a, <2>a, <3>1, ClosesAsLimit
  <2>3. ASSUME NEW outcome \in {"settled", "failed"}, LnRespond(c, outcome)
        PROVE  [Limit!Next]_(Limit!limitVars)
    <3>1. book[c].status = "signed" /\ now' = now
      BY <1>a, <2>3 DEF LnRespond, SeqOK, OpenRowOK
    <3>2. book[c] \in Row /\ book'[c] = [book[c] EXCEPT !.status = outcome]
      BY <1>a, <2>3 DEF LnRespond
    <3>3. /\ book'[c] = [book[c] EXCEPT !.status = outcome, !.amount = book[c].amount]
          /\ book'[c].status = outcome /\ book'[c].amount = book[c].amount
          /\ book[c].amount <= book[c].amount
      <4> DEFINE row == book[c]   new == book'[c]
      <4>1. outcome \in Statuses
        BY DEF Statuses
      <4>2. row \in Row /\ new = [row EXCEPT !.status = outcome]
        BY <3>2
      <4> HIDE DEF row, new
      <4>3. /\ new = [row EXCEPT !.status = outcome, !.amount = row.amount]
            /\ new.status = outcome /\ new.amount = row.amount
            /\ row.amount <= row.amount
        BY <4>1, <4>2, SameAmount
      <4> QED
        BY <4>3 DEF row, new
    <3>4. book[c].status \in SPENT /\ (outcome \in SPENT \/ outcome \notin SPENT)
      BY <3>1 DEF SPENT
    <3> QED
      BY <1>a, <2>a, <3>1, <3>3, <3>4, ClosesAsLimit
  <2> QED
    BY <1>b, <1>2, <2>1, <2>2, <2>3
       DEF FetchLightning, LnStart, LnNoOffer, LnOffer, LnReadLedger, LnPaid,
           LnNetworkError
<1>3. ASSUME NEW c \in Calls, NEW amount \in Prices, SellerTakes(c, amount)
      PROVE  [Limit!Next]_(Limit!limitVars)
  BY <1>b, <1>3 DEF SellerTakes
<1>4. CASE Crash
  BY <1>b, <1>4 DEF Crash
<1>5. CASE Tick
  <2>1. Held' = Held /\ now' = now + 1
    BY <1>5 DEF Tick, Held
  <2>2. Limit!TimePasses
    BY <2>1 DEF Limit!TimePasses
  <2> QED
    BY <2>2 DEF Limit!Next
<1>6. CASE AllDone \/ UNCHANGED vars
  BY <1>b, <1>6 DEF AllDone, vars
<1> QED
  BY <1>1, <1>2, <1>3, <1>4, <1>5, <1>6 DEF Next

\* With one call at a time the rail is the account of SpendLimit: a row is
\* signed only when the limits allow it at that very moment, although the
\* ledger was read steps before; and no answer, error or crash adds to it.
THEOREM RailImplementsLimit == ASSUME ~Concurrent PROVE Spec => ImplementsSpendLimit
<1>1. Init => Limit!Init
  <2>1. HeldFor(NoRow) = NoRow
    BY DEF HeldFor, NoRow, SPENT
  <2> QED
    BY <2>1, HeldIs, SameOperators DEF Init, Limit!Init
<1>2. Known /\ TypeInv' /\ [Next]_vars => [Limit!Next]_(Limit!limitVars)
  BY LimitStep
<1> QED
  BY <1>1, <1>2, SeqKnown, RailWellFormed, PTL DEF Spec, ImplementsSpendLimit, Limit!Spec

-----------------------------------------------------------------------------
(* What is proved of the account holds of the rail. *)

LimitProofs == INSTANCE SpendLimitProofs WITH held <- Held

\* The figures of the ledger are those of the account.
LEMMA BookWithinLimits ==
    ASSUME TypeOK, Limit!WithinLimits
    PROVE  SpendWithinCaps /\ RateHeld
<1> DEFINE day == now - DayWindow   rate == now - RateWindow
<1>1. day \in Int /\ rate \in Int /\ book \in [Calls -> Row]
  BY PolicyAssumption DEF TypeOK
<1>2. Held \in [Calls -> Row] /\ NoHeavier(book, Held)
  BY <1>1, HeldWeighsTheSame
<1>3. /\ SpentSince(book, day) <= SpentSince(Held, day)
      /\ \A s : SpentWithSince(book, day, s) <= SpentWithSince(Held, day, s)
      /\ CountSince(book, rate) <= CountSince(Held, rate)
  BY <1>1, <1>2, NoHeavierShowsNoMore
<1>4. /\ SpentSince(book, day) \in Nat /\ SpentSince(Held, day) \in Nat
      /\ CountSince(book, rate) \in Nat /\ CountSince(Held, rate) \in Nat
      /\ \A s : SpentWithSince(book, day, s) \in Nat
      /\ \A s : SpentWithSince(Held, day, s) \in Nat
  BY <1>1, <1>2, FiguresType
<1>5. /\ SpentSince(Held, day) <= DailyCap
      /\ \A s \in Sellers : SpentWithSince(Held, day, s) <= SellerCap
      /\ CountSince(Held, rate) <= RateMax
  BY SameFigures DEF Limit!WithinLimits
<1> HIDE DEF day, rate
<1>6. /\ SpentSince(book, day) <= DailyCap
      /\ \A s \in Sellers : SpentWithSince(book, day, s) <= SellerCap
      /\ CountSince(book, rate) <= RateMax
  BY <1>3, <1>4, <1>5, PolicyAssumption
<1> QED
  BY <1>6 DEF SpendWithinCaps, RateHeld, day, rate

\* The third copy of the operators is the same again.
LEMMA ProofsOperators ==
    /\ \A b, t, s : LimitProofs!Exposure(b, t, s) = Limit!Exposure(b, t, s)
    /\ \A s, p, seen, v :
          LimitProofs!EvaluatePolicy(s, p, seen, v) <=> Limit!EvaluatePolicy(s, p, seen, v)
    /\ \A st, s, p, sch, t : LimitProofs!NewRow(st, s, p, sch, t) = Limit!NewRow(st, s, p, sch, t)
    /\ LimitProofs!NoRow = Limit!NoRow /\ LimitProofs!Prices = Limit!Prices
    /\ LimitProofs!Schemes = Limit!Schemes
    /\ LimitProofs!WithinLimits => Limit!WithinLimits
<1>1. /\ \A b, t : LimitProofs!SpentSince(b, t) = Limit!SpentSince(b, t)
      /\ \A b, t, s : LimitProofs!SpentWithSince(b, t, s) = Limit!SpentWithSince(b, t, s)
      /\ \A b, t : LimitProofs!CountSince(b, t) = Limit!CountSince(b, t)
  BY DEF LimitProofs!SpentSince, Limit!SpentSince,
         LimitProofs!SpentWithSince, Limit!SpentWithSince,
         LimitProofs!CountSince, Limit!CountSince,
         LimitProofs!CountedRows, Limit!CountedRows,
         LimitProofs!UnitsOf, Limit!UnitsOf, LimitProofs!SPENT, Limit!SPENT,
         LimitProofs!Prices, Limit!Prices, LimitProofs!Cardinality, Limit!Cardinality
<1>2. \A b, t, s : LimitProofs!Exposure(b, t, s) = Limit!Exposure(b, t, s)
  BY <1>1 DEF LimitProofs!Exposure, Limit!Exposure
<1>3. \A s, p, seen, v :
         LimitProofs!EvaluatePolicy(s, p, seen, v) <=> Limit!EvaluatePolicy(s, p, seen, v)
  BY DEF LimitProofs!EvaluatePolicy, Limit!EvaluatePolicy
<1>4. \A st, s, p, sch, t :
         LimitProofs!NewRow(st, s, p, sch, t) = Limit!NewRow(st, s, p, sch, t)
  BY DEF LimitProofs!NewRow, Limit!NewRow
<1>5. /\ LimitProofs!NoRow = Limit!NoRow /\ LimitProofs!Prices = Limit!Prices
      /\ LimitProofs!Schemes = Limit!Schemes
  BY DEF LimitProofs!NoRow, Limit!NoRow, LimitProofs!NoSeller, Limit!NoSeller,
         LimitProofs!Prices, Limit!Prices, LimitProofs!Schemes, Limit!Schemes
<1>6. LimitProofs!WithinLimits => Limit!WithinLimits
  BY <1>1 DEF LimitProofs!WithinLimits, Limit!WithinLimits
<1> QED
  BY <1>2, <1>3, <1>4, <1>5, <1>6

LEMMA LimitsHold == ASSUME ~Concurrent PROVE Spec => []Limit!WithinLimits
<1>1. Limit!Init => LimitProofs!Init
  BY ProofsOperators DEF Limit!Init, LimitProofs!Init
<1>2. [Limit!Next]_(Limit!limitVars) => [LimitProofs!Next]_(LimitProofs!limitVars)
  BY ProofsOperators
     DEF Limit!Next, LimitProofs!Next, Limit!Commit, LimitProofs!Commit,
         Limit!Lower, LimitProofs!Lower, Limit!Drop, LimitProofs!Drop,
         Limit!TimePasses, LimitProofs!TimePasses, Limit!limitVars, LimitProofs!limitVars
<1>3. LimitProofs!WithinLimits => Limit!WithinLimits
  BY ProofsOperators
<1>4. LimitProofs!PolicyAssumption
  <2>1. LimitProofs!IsFiniteSet(Calls)
    BY PolicyAssumption DEF LimitProofs!IsFiniteSet, IsFiniteSet
  <2> QED
    BY <2>1, PolicyAssumption DEF LimitProofs!PolicyAssumption
<1> QED
  BY <1>1, <1>2, <1>3, <1>4, RailImplementsLimit, LimitProofs!LimitHolds, PTL
     DEF ImplementsSpendLimit, Limit!Spec, LimitProofs!Spec

\* With one call at a time the payments of the last day never exceed the
\* daily cap, nor those with one seller the seller cap.
THEOREM CapsHold == ASSUME ~Concurrent PROVE Spec => []SpendWithinCaps
BY LimitsHold, RailTypeCorrect, BookWithinLimits, PTL

\* Nor their number in the rate window its maximum.
THEOREM RateHolds == ASSUME ~Concurrent PROVE Spec => []RateHeld
BY LimitsHold, RailTypeCorrect, BookWithinLimits, PTL

-----------------------------------------------------------------------------
(* The receipt *)

LnOpen == {"ln_probing", "ln_offered", "ln_read", "ln_recorded", "ln_paid"}

\* The fate of a call's payment, by the place the call has reached.
FateOK(c) ==
    /\ call[c].pc # "done" => result[c] = "none"
    /\ call[c].pc \in {"recorded", "ln_recorded"} => auth[c] = "none"
    /\ call[c].pc = "sent" => auth[c] \in {"out", "taken"}
    /\ call[c].pc = "answered" =>
         /\ book[c].status \in {"settled", "quoted", "failed"}
         /\ book[c].status = "settled" => auth[c] = "taken" /\ taken[c] <= book[c].amount
         /\ book[c].status = "quoted" => auth[c] = "void"
    /\ call[c].pc \in LnOpen => call[c].scheme = "lightning"
    /\ call[c].pc = "ln_paid" => auth[c] = "taken"
    /\ call[c].rejected \/ call[c].escrow => call[c].pc = "failing" /\ auth[c] = "none"

\* What the caller was told of it.
ToldOK(c) ==
    /\ result[c] = "settled" => auth[c] = "taken" /\ taken[c] <= book[c].amount
    /\ result[c] \in {"settled", "not_charged"} => book[c].status # "signed"
    /\ result[c] = "not_charged" => auth[c] = "void"
    /\ result[c] \in {"free", "no_receipt", "rejected", "escrow"} => auth[c] = "none"

ReceiptOK(c) == FateOK(c) /\ ToldOK(c)

ReceiptInv == \A c \in Calls : ReceiptOK(c)

-----------------------------------------------------------------------------

LEMMA EndedMarks ==
    ASSUME NEW c \in Calls
    PROVE  /\ Ended(c).pc = "done"
           /\ Ended(c).rejected = FALSE /\ Ended(c).escrow = FALSE
BY DEF Ended, IdleCall

\* A call that ends keeps its fate, and what it is told is all that counts.
LEMMA EndsTold ==
    ASSUME Known, NEW c \in Calls, NEW res \in Results, Finish(c, res),
           result \in [Calls -> Results],
           ToldOK(c)'
    PROVE  ReceiptOK(c)'
<1>1. call'[c] = Ended(c)
  BY KnownTypes DEF Finish
<1>2. FateOK(c)'
  BY <1>1, EndedMarks DEF FateOK, LnOpen
<1> QED
  BY <1>2 DEF ReceiptOK

\* The hook marks its own call, and only when it does not let it pay.
LEMMA DecideMarks ==
    ASSUME Known, NEW c \in Calls, NEW verified \in BOOLEAN, Decide(c, verified),
           ~call[c].rejected
    PROVE  call'[c].rejected \/ call'[c].escrow => call'[c].pc = "failing"
<1> DEFINE allowed == HookAllows(c, verified)
<1>1. call[c].hook = c /\ call[c] \in CallState
  BY KnownTypes DEF Decide, SeqOK, OwnOK
<1>2. call'[c] = [Marked(c, allowed)[c] EXCEPT
                     !.pc = IF allowed THEN "signing" ELSE "failing"]
  BY DEF Decide, Marked
<1>3. Marked(c, allowed)[c] =
        [call[c] EXCEPT !.escrow = ToEscrow(c),
                        !.rejected = call[c].rejected \/ (~allowed /\ ~ToEscrow(c))]
  BY <1>1 DEF Marked
<1>4. allowed => ~ToEscrow(c)
  BY DEF HookAllows
<1>5. call'[c].pc = IF allowed THEN "signing" ELSE "failing"
  BY DecideShape DEF Known
<1> HIDE DEF allowed
<1>6. allowed => ~call'[c].rejected /\ ~call'[c].escrow
  BY <1>1, <1>2, <1>3, <1>4 DEF CallState
<1> QED
  BY <1>5, <1>6

LEMMA FetchReceipt ==
    ASSUME ~Concurrent, Known, TypeOK', NEW c \in Calls, ReceiptOK(c), Fetch(c)
    PROVE  ReceiptOK(c)'
<1>a. /\ call \in [Calls -> CallState] /\ call[c] \in CallState /\ book \in [Calls -> Row]
      /\ auth \in [Calls -> {"none", "out", "void", "taken"}]
      /\ taken \in [Calls -> 0..MaxPrice] /\ result \in [Calls -> Results]
      /\ OwnOK(c) /\ OpenRowOK(c) /\ RecordOK(c)
  BY KnownTypes DEF Known, TypeInv, TypeOK, SeqOK
<1> USE DEF ReceiptOK
<1>1. ASSUME NEW ceiling \in Ceilings \cup {NoCeiling}, Start(c, ceiling)
      PROVE  ReceiptOK(c)'
  BY <1>a, <1>1 DEF Start, MayStart, FateOK, ToldOK, LnOpen, CallState
<1>2. CASE FreeAnswer(c)
  <2>1. auth[c] = "none"
    BY <1>a, <1>2 DEF FreeAnswer, RecordOK, Undecided
  <2>2. Finish(c, "free") /\ UNCHANGED <<book, auth, taken>>
    BY <1>2 DEF FreeAnswer
  <2>3. result'[c] = "free"
    BY <1>a, <2>2 DEF Finish
  <2> QED
    BY <1>a, <2>1, <2>2, <2>3, EndsTold DEF ToldOK, Results
<1>3. ASSUME NEW s \in Sellers, NEW p \in Prices, NEW scheme \in X402Schemes, AskPrice(c, s, p, scheme)
      PROVE  ReceiptOK(c)'
  BY <1>a, <1>3 DEF AskPrice, FateOK, ToldOK, LnOpen, CallState
<1>4. CASE ProbeError(c)
  BY <1>a, <1>4 DEF ProbeError, FateOK, ToldOK, LnOpen, CallState
<1>5. CASE ReadLedger(c)
  BY <1>a, <1>5 DEF ReadLedger, FateOK, ToldOK, LnOpen, CallState
<1>6. ASSUME NEW verified \in BOOLEAN, Decide(c, verified)
      PROVE  ReceiptOK(c)'
  <2>1. /\ auth[c] = "none" /\ UNCHANGED <<auth, taken, result>>
        /\ result[c] = "none" /\ ~call[c].rejected
    BY <1>a, <1>6 DEF Decide, RecordOK, Undecided, FateOK
  <2>2. call'[c].pc \in {"signing", "failing"}
    BY <1>6, DecideShape DEF Known
  <2>3. call'[c].rejected \/ call'[c].escrow => call'[c].pc = "failing"
    BY <1>6, <2>1, DecideMarks
  <2> QED
    BY <2>1, <2>2, <2>3 DEF FateOK, ToldOK, LnOpen
<1>7. CASE Sign(c)
  <2>1. /\ auth[c] = "none" /\ UNCHANGED <<auth, taken, result>>
        /\ result[c] = "none" /\ ~call[c].rejected /\ ~call[c].escrow
    BY <1>a, <1>7 DEF Sign, RecordOK, Undecided, FateOK
  <2>2. call'[c] = [call[c] EXCEPT !.pc = "recorded",
                       !.record = IF c = current THEN c ELSE call[c].record]
    BY <1>7 DEF Sign
  <2>3. call'[c].pc = "recorded" /\ ~call'[c].rejected /\ ~call'[c].escrow
    BY <1>a, <2>1, <2>2 DEF CallState
  <2> QED
    BY <2>1, <2>3 DEF FateOK, ToldOK, LnOpen
<1>8. CASE Send(c)
  BY <1>a, <1>8 DEF Send, FateOK, ToldOK, LnOpen, CallState
<1>9. ASSUME NEW outcome \in {"settled", "refused", "handler_failed"}, NEW said \in BOOLEAN,
             Respond(c, outcome, said)
      PROVE  ReceiptOK(c)'
  <2>1. /\ current = c /\ call[c].record = c /\ call[c].pc = "sent"
        /\ book[c].amount = call[c].price
        /\ ~call[c].rejected /\ ~call[c].escrow
        /\ result[c] = "none" /\ UNCHANGED <<taken, result>>
    BY <1>a, <1>9 DEF Respond, OwnOK, OpenRowOK, X402Open, FateOK
  <2>2. call'[c] = [call[c] EXCEPT !.pc = "answered"]
    BY <1>a, <1>9 DEF Respond
  <2>3. call'[c].pc = "answered" /\ ~call'[c].rejected /\ ~call'[c].escrow
    BY <1>a, <2>1, <2>2 DEF CallState
  <2>4. book'[c].status = ClosedAs(outcome)
    BY <1>a, <1>9, <2>1, NoCallAssumption DEF Respond, Row
  <2>5. CASE outcome = "settled"
    <3>1. auth[c] = "taken" /\ auth' = auth
      BY <1>9, <2>5 DEF Respond
    <3>2. taken[c] <= book[c].amount /\ taken[c] \in Nat
      BY <1>a, <2>1, <3>1 DEF OpenRowOK, PolicyAssumption
    <3>3. book'[c].amount \in {taken[c], book[c].amount}
      BY <1>a, <1>9, <2>1, NoCallAssumption DEF Respond, Row
    <3>4. taken'[c] <= book'[c].amount
      BY <2>1, <3>2, <3>3
    <3>5. book'[c].status = "settled"
      BY <2>4, <2>5 DEF ClosedAs
    <3> QED
      BY <2>1, <2>3, <3>1, <3>4, <3>5 DEF FateOK, ToldOK, LnOpen
  <2>6. CASE outcome # "settled"
    <3>1. auth'[c] = "void"
      BY <1>a, <1>9, <2>6 DEF Respond
    <3>2. book'[c].status \in {"failed", "quoted"}
      BY <2>4, <2>6 DEF ClosedAs
    <3> QED
      BY <2>1, <2>3, <3>1, <3>2 DEF FateOK, ToldOK, LnOpen
  <2> QED
    BY <2>5, <2>6
<1>10. CASE NetworkError(c)
  BY <1>a, <1>10 DEF NetworkError, FateOK, ToldOK, LnOpen, CallState
<1>11. CASE Return(c)
  <2>1. /\ call[c].pc = "answered" /\ call[c].record = c /\ c # NoCall
        /\ UNCHANGED <<book, auth, taken>>
    BY <1>a, <1>11, NoCallAssumption DEF Return, OwnOK
  <2>2. PICK res \in {"settled", "not_charged", "failed"} :
          /\ Finish(c, res)
          /\ res = "settled" => book[c].status = "settled"
          /\ res = "not_charged" => book[c].status = "quoted"
    BY <1>11, <2>1 DEF Return
  <2>3. result'[c] = res
    BY <1>a, <2>2 DEF Finish
  <2> QED
    BY <1>a, <2>1, <2>2, <2>3, EndsTold DEF FateOK, ToldOK, Results
<1>12. CASE Catch(c)
  <2>1. UNCHANGED <<auth, taken>>
    BY <1>12 DEF Catch
  <2>2. PICK res \in {"rejected", "escrow", "error"} :
          /\ Finish(c, res)
          /\ res # "error" => call[c].rejected \/ call[c].escrow
    BY <1>12 DEF Catch
  <2>3. result'[c] = res
    BY <1>a, <2>2 DEF Finish
  <2> QED
    BY <1>a, <2>1, <2>2, <2>3, EndsTold DEF FateOK, ToldOK, Results
<1> QED
  BY <1>1, <1>2, <1>3, <1>4, <1>5, <1>6, <1>7, <1>8, <1>9, <1>10, <1>11, <1>12 DEF Fetch

LEMMA FetchLightningReceipt ==
    ASSUME ~Concurrent, Known, NEW c \in Calls, ReceiptOK(c), FetchLightning(c)
    PROVE  ReceiptOK(c)'
<1>a. /\ call \in [Calls -> CallState] /\ call[c] \in CallState /\ book \in [Calls -> Row]
      /\ auth \in [Calls -> {"none", "out", "void", "taken"}]
      /\ taken \in [Calls -> 0..MaxPrice] /\ result \in [Calls -> Results]
      /\ OpenRowOK(c) /\ RecordOK(c)
  BY KnownTypes DEF Known, TypeInv, TypeOK, SeqOK
<1> USE DEF ReceiptOK
<1>1. ASSUME NEW ceiling \in Ceilings \cup {NoCeiling}, LnStart(c, ceiling)
      PROVE  ReceiptOK(c)'
  BY <1>a, <1>1 DEF LnStart, MayStart, FateOK, ToldOK, LnOpen, CallState
<1>2. ASSUME NEW res \in Results, LnNoOffer(c, res)
      PROVE  ReceiptOK(c)'
  <2>1. auth[c] = "none"
    BY <1>a, <1>2 DEF LnNoOffer, RecordOK, Undecided
  <2>2. result'[c] = res /\ res \in {"free", "error", "nothing_paid"}
    BY <1>a, <1>2 DEF LnNoOffer, Finish
  <2> QED
    BY <1>a, <1>2, <2>1, <2>2, EndsTold DEF LnNoOffer, ToldOK
<1>3. ASSUME NEW s \in Sellers, NEW p \in Prices, LnOffer(c, s, p)
      PROVE  ReceiptOK(c)'
  BY <1>a, <1>3 DEF LnOffer, FateOK, ToldOK, LnOpen, CallState
<1>4. CASE LnReadLedger(c)
  BY <1>a, <1>4 DEF LnReadLedger, FateOK, ToldOK, LnOpen, CallState
<1>5. CASE LnDecide(c)
  <2>1. auth[c] = "none" /\ UNCHANGED <<auth, taken>> /\ call[c].pc = "ln_read"
    BY <1>a, <1>5 DEF LnDecide, RecordOK, Undecided
  <2>2. \/ call' = [call EXCEPT ![c] = [@ EXCEPT !.pc = "ln_recorded"]] /\ UNCHANGED result
        \/ Finish(c, "rejected")
    BY <1>5 DEF LnDecide
  <2>3. CASE call' = [call EXCEPT ![c] = [@ EXCEPT !.pc = "ln_recorded"]] /\ UNCHANGED result
    <3>1. /\ call'[c].pc = "ln_recorded" /\ call'[c].scheme = call[c].scheme
          /\ call'[c].rejected = call[c].rejected /\ call'[c].escrow = call[c].escrow
      BY <1>a, <2>3 DEF CallState
    <3> QED
      BY <2>1, <2>3, <3>1 DEF FateOK, ToldOK, LnOpen
  <2>4. CASE Finish(c, "rejected")
    <3>1. result'[c] = "rejected"
      BY <1>a, <2>4 DEF Finish
    <3> QED
      BY <1>a, <2>1, <2>4, <3>1, EndsTold DEF ToldOK, Results
  <2> QED
    BY <2>2, <2>3, <2>4
<1>6. CASE LnPaid(c)
  BY <1>a, <1>6 DEF LnPaid, FateOK, ToldOK, LnOpen, CallState
<1>7. ASSUME NEW fate \in {"void", "out", "taken"}, LnNotPaid(c, fate)
      PROVE  ReceiptOK(c)'
  <2>1. Finish(c, "nothing_paid") /\ result'[c] = "nothing_paid"
    BY <1>a, <1>7 DEF LnNotPaid, Finish
  <2> QED
    BY <1>a, <2>1, EndsTold DEF ToldOK, Results
<1>8. ASSUME NEW outcome \in {"settled", "failed"}, LnRespond(c, outcome)
      PROVE  ReceiptOK(c)'
  <2>1. /\ Finish(c, outcome) /\ result'[c] = outcome
        /\ UNCHANGED <<auth, taken>>
        /\ book' = [book EXCEPT ![c].status = outcome]
        /\ call[c].pc = "ln_paid"
    BY <1>a, <1>8 DEF LnRespond, Finish
  <2>2. auth[c] = "taken" /\ call[c].scheme = "lightning"
    BY <2>1 DEF FateOK, LnOpen
  <2>3. taken[c] <= book[c].amount
    <3>1. book[c].scheme = "lightning"
      BY <1>a, <2>2 DEF RecordOK, RowMatches
    <3> QED
      BY <1>a, <2>2, <3>1 DEF RecordOK
  <2>4. book'[c].status = outcome /\ book'[c].amount = book[c].amount
    BY <1>a, <2>1 DEF Row
  <2> QED
    BY <1>a, <2>1, <2>2, <2>3, <2>4, EndsTold DEF ToldOK, Results
<1>9. CASE LnNetworkError(c)
  <2>1. Finish(c, "error") /\ result'[c] = "error"
    BY <1>a, <1>9 DEF LnNetworkError, Finish
  <2> QED
    BY <1>a, <2>1, EndsTold DEF ToldOK, Results
<1> QED
  BY <1>1, <1>2, <1>3, <1>4, <1>5, <1>6, <1>7, <1>8, <1>9 DEF FetchLightning

\* A step of one call tells no other call anything.
LEMMA OthersUntold ==
    ASSUME Known, NEW c \in Calls, Fetch(c) \/ FetchLightning(c),
           NEW d \in Calls, d # c
    PROVE  result'[d] = result[d]
<1>1. result \in [Calls -> Results]
  BY DEF Known, TypeInv, TypeOK
<1> QED
  BY <1>1 DEF Fetch, Start, FreeAnswer, AskPrice, ProbeError, ReadLedger, Decide,
     Sign, Send, Respond, NetworkError, Return, Catch, Finish, FetchLightning,
     LnStart, LnNoOffer, LnOffer, LnReadLedger, LnDecide, LnPaid, LnNotPaid,
     LnRespond, LnNetworkError

LEMMA ReceiptRests ==
    ASSUME NEW d \in Calls, ReceiptOK(d), Idle(d), result'[d] = result[d]
    PROVE  ReceiptOK(d)'
BY DEF ReceiptOK, FateOK, ToldOK, Idle, LnOpen

LEMMA ReceiptStep ==
    ASSUME ~Concurrent, Known, TypeOK', ReceiptInv, [Next]_vars
    PROVE  ReceiptInv'
<1>a. /\ call \in [Calls -> CallState] /\ book \in [Calls -> Row]
      /\ auth \in [Calls -> {"none", "out", "void", "taken"}]
      /\ taken \in [Calls -> 0..MaxPrice] /\ result \in [Calls -> Results]
      /\ \A d \in Calls : ReceiptOK(d)
  BY KnownTypes DEF Known, TypeInv, TypeOK, ReceiptInv
<1>1. ASSUME NEW c \in Calls, Fetch(c) \/ FetchLightning(c) PROVE ReceiptInv'
  <2>1. ReceiptOK(c)'
    BY <1>a, <1>1, FetchReceipt, FetchLightningReceipt
  <2>2. \A d \in Calls : d # c => ReceiptOK(d)'
    BY <1>a, <1>1, OthersRest, OthersUntold, ReceiptRests
  <2> QED
    BY <2>1, <2>2 DEF ReceiptInv
<1>2. ASSUME NEW c \in Calls, NEW amount \in Prices, SellerTakes(c, amount)
      PROVE  ReceiptInv'
  <2>1. /\ UNCHANGED <<book, call, result>> /\ auth[c] = "out" /\ auth'[c] = "taken"
        /\ \A d \in Calls : d # c => auth'[d] = auth[d] /\ taken'[d] = taken[d]
    BY <1>a, <1>2 DEF SellerTakes
  <2>2. \A d \in Calls : ReceiptOK(d)'
    BY <1>a, <2>1 DEF ReceiptOK, FateOK, ToldOK, LnOpen
  <2> QED
    BY <2>2 DEF ReceiptInv
<1>3. CASE Crash
  <2>1. ASSUME NEW d \in Calls PROVE ReceiptOK(d)'
    <3>1. UNCHANGED <<book, auth, taken>>
      BY <1>3 DEF Crash
    <3>2. CASE Open(d)
      <4>1. call'[d] = Ended(d) /\ result'[d] = "crashed"
        BY <1>3, <3>2 DEF Crash
      <4> QED
        BY <4>1, EndedMarks DEF ReceiptOK, FateOK, ToldOK, LnOpen
    <3>3. CASE ~Open(d)
      <4>1. call'[d] = call[d] /\ result'[d] = result[d]
        BY <1>3, <3>3 DEF Crash
      <4>2. Idle(d)
        BY <3>1, <3>3, <4>1 DEF Idle, Open
      <4> QED
        BY <1>a, <4>1, <4>2, ReceiptRests
    <3> QED
      BY <3>2, <3>3
  <2> QED
    BY <2>1 DEF ReceiptInv
<1>4. CASE Tick
  BY <1>a, <1>4 DEF Tick, ReceiptInv, ReceiptOK, FateOK, ToldOK
<1>5. CASE AllDone \/ UNCHANGED vars
  BY <1>a, <1>5 DEF AllDone, vars, ReceiptInv, ReceiptOK, FateOK, ToldOK
<1> QED
  BY <1>1, <1>2, <1>3, <1>4, <1>5 DEF Next

\* With one call at a time the receipt a caller gets says what happened to
\* its own payment: settled when the seller took it and the row covers it, not
\* charged when it can no longer be taken, free or refused when nothing left.
THEOREM ReceiptsHold == ASSUME ~Concurrent PROVE Spec => []ReceiptTellsTheTruth
<1>1. Init => ReceiptInv
  <2> SUFFICES ASSUME Init, NEW c \in Calls PROVE ReceiptOK(c)
    BY DEF ReceiptInv
  <2>1. call[c] = IdleCall /\ auth[c] = "none" /\ result[c] = "none"
    BY DEF Init
  <2> QED
    BY <2>1 DEF ReceiptOK, FateOK, ToldOK, LnOpen, IdleCall
<1>2. Known /\ TypeInv' /\ ReceiptInv /\ [Next]_vars => ReceiptInv'
  BY ReceiptStep DEF TypeInv
<1>3. ReceiptInv => ReceiptTellsTheTruth
  BY DEF ReceiptInv, ReceiptOK, ToldOK, ReceiptTellsTheTruth
<1> QED
  BY <1>1, <1>2, <1>3, SeqKnown, RailWellFormed, PTL DEF Spec
=============================================================================
