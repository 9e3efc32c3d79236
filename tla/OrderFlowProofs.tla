-------------------------- MODULE OrderFlowProofs --------------------------
(***************************************************************************)
(* Proofs about OrderFlow: until an answer is lost or dropped, the real    *)
(* position does not leave the cap, for every cap, order size, number of   *)
(* orders and partial fill.                                                *)
(***************************************************************************)
EXTENDS OrderFlow, WellFoundedInduction, TLAPS

\* The module is long, and what is in scope costs the provers time.
USE SMTT(60), Z3T(60), ZenonT(60)

\* What Total does to the exposure when one entry of _unconfirmed_fills changes.
LEMMA TotalUpdate ==
    ASSUME NEW f \in [Ids -> Holding], NEW id \in Ids, NEW v \in Holding,
           NEW g, g = [f EXCEPT ![id] = v]
    PROVE  /\ Total(f) \in Int
           /\ Total(g) = Total(f) - f[id] + v
  <1>1. Total(f) \in Int
    BY OrderFlowAssumption, Zenon
  <1>2. Total([f EXCEPT ![id] = v]) = Total(f) - f[id] + v
    BY OrderFlowAssumption, Zenon
  <1>3. QED
    BY <1>1, <1>2, Zenon

\* on_fill takes a reported fill off an unconfirmed fill that covers it, and no
\* entry is erased with something left in it.
LEMMA RemainingCovered ==
    ASSUME NEW s \in OrderSides, NEW u \in Holding, NEW n \in Nat, n <= Signed(s, u)
    PROVE  /\ Remaining(u, Signed(s, n)) = u - Signed(s, n)
           /\ Remaining(u, Signed(s, n)) \in Holding
  <1>1. OrderSize \in Nat
    BY OrderFlowAssumption, Zenon
  <1>2. CASE s = "Bid"
    BY <1>1, <1>2 DEF Remaining, Holding, Signed
  <1>3. CASE s = "Ask"
    BY <1>1, <1>3 DEF Remaining, Holding, Signed
  <1>4. QED
    BY <1>2, <1>3, Zenon DEF OrderSides

\* The state of the accounts: types and balances.
Balanced == TypeOK /\ Accounts

\* A bot starts flat, and its accounts agree with the exchange's.
LEMMA InitBalanced ==
    Init => Balanced
  <1> SUFFICES ASSUME Init PROVE Balanced
    BY Zenon
  <1> USE OrderFlowAssumption DEF Init
  <1>1. TypeOK
    BY DEF TypeOK, NoAnswer, OrderSides, Holding, Ids
  <1>2. exposure = 0
    BY DEF exposure
  <1>3. Accounts
    BY <1>2 DEF Accounts, Covered, Signed, Ids
  <1>4. QED
    BY <1>1, <1>3, Zenon DEF Balanced

\* The exchange fills an order: only the order under way can be pending.
LEMMA ExecuteBalanced ==
    ASSUME Balanced, NEW id \in Ids, NEW count \in FillCounts,
           Execute(id, count)
    PROVE  Balanced'
  <1> USE OrderFlowAssumption
  <1>a. id = waiting /\ waiting # 0 /\ UnderWay
    BY ZenonT(60) DEF Balanced, Accounts, Execute, UnderWay, Ids
  <1>b. answer = NoAnswer /\ count \in 0 .. 100 * OrderSize
    BY <1>a, ZenonT(60) DEF Execute, UnderWay
  <1>c. answer' = [kind |-> "order", filled |-> count] /\ pending' = {}
    BY <1>a DEF Execute, UnderWay
  <1>d. exposure' = exposure /\ exposure \in Int
    BY DEF Execute, books, runs, exposure, Balanced, Accounts
  <1>1. TypeOK'
    BY <1>a, <1>b, <1>c DEF Balanced, TypeOK, Execute, books, runs, Signed, Ids
  <1>2. UnderWay'
    <2>1. truth' - carried' = 100 * exposure + Signed(side[waiting], count)
      BY <1>a, <1>b, <1>d DEF UnderWay, Execute, NoAnswer, Signed, Balanced, TypeOK, runs
    <2>2. undelivered'[waiting] = count
      BY <1>a, ZenonT(60) DEF Execute, Balanced, TypeOK
    <2>3. QED
      BY <2>1, <2>2, <1>a, <1>b, <1>c, <1>d DEF UnderWay, Execute, books, runs
  <1>3. \A i \in Ids : i # waiting' => Covered(i)'
    BY <1>a, ZenonT(60) DEF Balanced, Accounts, Covered, Execute, books, runs, TypeOK
  <1>4. \A i \in Ids : i > order_seq' => unconfirmed'[i] = 0 /\ undelivered'[i] = 0
    <2>1. \A i \in Ids : i > order_seq => unconfirmed[i] = 0 /\ undelivered[i] = 0
      BY Zenon DEF Balanced, Accounts
    <2>2. /\ order_seq' = order_seq /\ waiting = order_seq /\ waiting \in Nat
          /\ unconfirmed' = unconfirmed
          /\ \A i \in Ids : i # waiting => undelivered'[i] = undelivered[i]
      BY <1>a DEF Balanced, UnderWay, Execute, books, runs, TypeOK, Ids
    <2>3. QED
      BY <2>1, <2>2 DEF Ids
  <1>5. QED
    BY <1>1, <1>2, <1>3, <1>4, <1>a, <1>d, Zenon DEF Balanced, Accounts, Execute

\* The exchange refuses an order: nothing is owed on it.
LEMMA RejectBalanced ==
    ASSUME Balanced, NEW id \in Ids, Reject(id)
    PROVE  Balanced'
  <1> USE OrderFlowAssumption
  <1>a. id = waiting /\ waiting # 0 /\ UnderWay
    BY ZenonT(60) DEF Balanced, Accounts, Reject, UnderWay, Ids
  <1>b. answer = NoAnswer /\ answer' = [kind |-> "error", filled |-> 0] /\ pending' = {}
    BY <1>a, ZenonT(60) DEF Reject, UnderWay
  <1>c. exposure' = exposure
    BY Zenon DEF Reject, books, runs, exposure
  <1>1. TypeOK'
    <2>1. /\ order_seq' = order_seq /\ waiting' = waiting /\ side' = side
          /\ truth' = truth /\ executed' = executed /\ undelivered' = undelivered
          /\ failures' = failures /\ books' = books /\ runs' = runs
      BY Zenon DEF Reject, books, runs
    <2>2. answer'.filled = 0 /\ pending' \subseteq Ids
      BY <1>b, Zenon
    <2>3. QED
      BY <2>1, <2>2, <1>b DEF Balanced, TypeOK, books, runs
  <1>2. UnderWay'
    BY <1>a, <1>b, <1>c DEF UnderWay, Reject, books, runs, NoAnswer
  <1>3. QED
    BY <1>1, <1>2, <1>a, <1>c, ZenonT(60) DEF Balanced, Accounts, Reject, books, runs, Covered

\* Lost fills stay covered by the unconfirmed fills of their orders.
LEMMA LoseFillsBalanced ==
    ASSUME Balanced, LoseFills
    PROVE  Balanced'
  <1> USE OrderFlowAssumption
  <1>a. exposure' = exposure /\ books' = books /\ side' = side /\ waiting' = waiting
        /\ undelivered' = [id \in Ids |-> 0]
    BY Zenon DEF LoseFills, books, runs, exposure
  <1>1. TypeOK'
    BY <1>a DEF Balanced, TypeOK, LoseFills, books, runs
  <1>2. waiting # 0 => UnderWay'
    BY <1>a DEF Balanced, Accounts, UnderWay, LoseFills, books, runs, TypeOK, NoAnswer
  <1>3. \A i \in Ids : i # waiting' => Covered(i)'
    <2> SUFFICES ASSUME NEW i \in Ids, i # waiting PROVE Covered(i)'
      BY <1>a, Zenon
    <2>1. Signed(side[i], unconfirmed[i]) >= 0 /\ unconfirmed[i] \in Int
      BY DEF Balanced, Accounts, Covered, TypeOK, Holding
    <2>2. QED
      BY <2>1, <1>a DEF Covered, books, runs, Signed
  <1>4. QED
    BY <1>1, <1>2, <1>3, <1>a, ZenonT(60) DEF Balanced, Accounts, LoseFills, books, runs

\* submit sends an order: the position check leaves room for a full fill.
LEMMA SubmitBalanced ==
    ASSUME Balanced, NEW s \in OrderSides, Submit(s)
    PROVE  Balanced'
  <1> USE OrderFlowAssumption
  <1>a. /\ waiting = 0 /\ waiting' = order_seq + 1 /\ order_seq' = order_seq + 1
        /\ order_seq + 1 \in Ids /\ order_seq \in Nat
    BY DEF Submit, Post, Balanced, TypeOK, Ids
  <1>b. answer = NoAnswer /\ pending = {} /\ truth - carried = 100 * exposure
    BY <1>a, Zenon DEF Balanced, Accounts
  <1>c. exposure' = exposure /\ exposure \in -MaxPosition .. MaxPosition
    BY Zenon DEF Submit, Post, books, runs, exposure, Balanced, Accounts
  <1>d. side'[order_seq + 1] = s /\ \A i \in Ids : i # order_seq + 1 => side'[i] = side[i]
    BY <1>a, ZenonT(60) DEF Submit, Post, Balanced, TypeOK
  <1>1. TypeOK'
    BY <1>a DEF Balanced, TypeOK, Submit, Post, books, runs, Ids
  <1>2. UnderWay'
    <2>1. exposure + Signed(s, OrderSize) \in -MaxPosition .. MaxPosition
      BY <1>c DEF Submit, Post, WithinLimit, Signed, OrderSides
    <2>2. unconfirmed[order_seq + 1] = 0 /\ undelivered[order_seq + 1] = 0
      BY <1>a DEF Balanced, Accounts
    <2>3. truth' - carried' = 100 * exposure' + Signed(s, 0)
      BY <1>b, <1>c DEF Submit, Post, Signed, runs, Balanced, TypeOK
    <2>4. QED
      BY <2>1, <2>2, <2>3, <1>a, <1>b, <1>c, <1>d, ZenonT(60) DEF UnderWay, Submit, Post, books, runs, NoAnswer
  <1>3. \A i \in Ids : i # waiting' => Covered(i)'
    BY <1>a, <1>d DEF Balanced, Accounts, Covered, Submit, Post, books, runs, Ids
  <1>4. \A i \in Ids : i > order_seq' => unconfirmed'[i] = 0 /\ undelivered'[i] = 0
    BY <1>a DEF Balanced, Accounts, Submit, Post, books, runs, Ids
  <1>5. QED
    BY <1>1, <1>2, <1>3, <1>4, <1>a, <1>c DEF Balanced, Accounts, Ids

\* submit handles the answer: the fill it reports becomes part of the exposure.
LEMMA OnResponseBalanced ==
    ASSUME Balanced, OnResponse, failures = 0, failures' = 0
    PROVE  Balanced'
  <1> USE OrderFlowAssumption
  <1> DEFINE n == parse_contracts(answer.filled)
             q == Signed(side[waiting], n)
  <1>a. waiting \in Ids /\ waiting # 0 /\ UnderWay /\ answer # NoAnswer
    BY Zenon DEF OnResponse, Balanced, Accounts, TypeOK
  <1>b. waiting' = 0 /\ answer' = NoAnswer /\ pending' = {} /\ order_seq' = order_seq
    BY <1>a, Zenon DEF OnResponse, UnderWay, exchange, runs
  <1>w. IsWhole(answer.filled)
    <2>1. answer.kind = "order" => IsWhole(answer.filled)
      BY DEF OnResponse
    <2>2. answer.kind # "order" => answer.filled = 0
      BY <1>a, Zenon DEF UnderWay
    <2>3. QED
      BY <2>1, <2>2 DEF IsWhole
  <1>c. /\ answer.filled \in 0 .. 100 * OrderSize /\ n \in 0 .. OrderSize
        /\ answer.filled = 100 * n
    <2>1. answer.filled \in 0 .. 100 * OrderSize
      BY Zenon DEF Balanced, TypeOK
    <2>2. QED
      BY <2>1, <1>w DEF IsWhole, parse_contracts
  <1>d. side[waiting] \in OrderSides /\ unconfirmed \in [Ids -> Holding] /\ positions \in Int
    BY <1>a, Zenon DEF Balanced, TypeOK
  <1>e. q \in Holding /\ unconfirmed[waiting] = 0
    BY <1>a, <1>c, <1>d DEF Holding, Signed, UnderWay
  <1>f. unconfirmed' = [unconfirmed EXCEPT ![waiting] = q]
    <2>1. CASE answer.kind = "order"
      BY <2>1, <1>a, <1>d, <1>e, <1>w DEF OnResponse, UnderWay, Holding
    <2>2. CASE answer.kind # "order"
      <3>1. q = 0
        BY <2>2, <1>a, <1>c DEF UnderWay, Signed
      <3>2. unconfirmed' = unconfirmed
        BY <2>2, Zenon DEF OnResponse
      <3>3. QED
        BY <3>1, <3>2, <1>d, <1>e, <1>a, Zenon
    <2>3. QED
      BY <2>1, <2>2, Zenon
  <1> HIDE DEF n, q
  <1>g. exposure' = exposure + q /\ exposure \in Int
    <2>1. /\ Total(unconfirmed') = Total(unconfirmed) - unconfirmed[waiting] + q
          /\ Total(unconfirmed) \in Int
      BY <1>a, <1>d, <1>e, <1>f, TotalUpdate, ZenonT(60)
    <2>2. exposure' = positions + Total(unconfirmed')
      BY Zenon DEF exposure, OnResponse
    <2>3. q \in Int
      BY <1>e DEF Holding
    <2>4. QED
      BY <2>1, <2>2, <2>3, <1>d, <1>e DEF exposure
  <1>1. TypeOK'
    <2>1. orders' \in [Ids -> {"None", "Filled", "Cancelled"}]
      BY <1>a, ZenonT(60) DEF Balanced, TypeOK, OnResponse, Status
    <2>2. QED
      BY <2>1, <1>a, <1>b, <1>d, <1>e, <1>f DEF Balanced, TypeOK, OnResponse, exchange, runs, NoAnswer
  <1>2. truth' - carried' = 100 * exposure'
    BY <1>a, <1>c, <1>d, <1>g DEF UnderWay, OnResponse, exchange, runs, Signed, q, Balanced, TypeOK
  <1>3. exposure' \in -MaxPosition .. MaxPosition
    <2>1. exposure \in -MaxPosition .. MaxPosition
      BY Zenon DEF Balanced, Accounts
    <2>2. QED
      BY <2>1, <1>a, <1>c, <1>d, <1>g DEF UnderWay, Signed, OrderSides, q
  <1>4. \A i \in Ids : i # waiting' => Covered(i)'
    <2> SUFFICES ASSUME NEW i \in Ids PROVE Covered(i)'
      BY Zenon
    <2>1. side' = side /\ undelivered' = undelivered
      BY Zenon DEF OnResponse, exchange, runs
    <2>2. CASE i = waiting
      <3>1. undelivered[i] <= 100 * n /\ unconfirmed'[i] = q
        BY <2>2, <1>a, <1>c, <1>d, <1>f, ZenonT(60) DEF UnderWay, NoAnswer
      <3>2. Signed(side[i], q) = n
        BY <2>2, <1>c, <1>d DEF Signed, q
      <3>3. QED
        BY <2>1, <3>1, <3>2, <1>c DEF Covered
    <2>3. CASE i # waiting
      BY <2>1, <2>3, <1>d, <1>f, ZenonT(60) DEF Balanced, Accounts, Covered
    <2>4. QED
      BY <2>2, <2>3, Zenon
  <1>5. \A i \in Ids : i > order_seq' => unconfirmed'[i] = 0 /\ undelivered'[i] = 0
    BY <1>a, <1>b, <1>d, <1>f DEF Balanced, Accounts, UnderWay, OnResponse, exchange, runs, Ids
  <1>6. QED
    BY <1>1, <1>2, <1>3, <1>4, <1>5, <1>b, Zenon DEF Balanced, Accounts

\* A request that never left the bot is forgotten on both sides.
LEMMA OnSendFailsBalanced ==
    ASSUME Balanced, OnSendFails
    PROVE  Balanced'
  <1> USE OrderFlowAssumption
  <1>a. waiting \in Ids /\ waiting # 0 /\ UnderWay /\ waiting' = 0
    BY Zenon DEF OnSendFails, Balanced, Accounts, TypeOK
  <1>b. /\ answer = NoAnswer /\ answer' = NoAnswer /\ pending' = {}
        /\ undelivered[waiting] = 0 /\ unconfirmed[waiting] = 0
    BY <1>a, ZenonT(60) DEF OnSendFails, UnderWay
  <1>c. exposure' = exposure /\ exposure \in -MaxPosition .. MaxPosition
    BY Zenon DEF OnSendFails, books, runs, exposure, Balanced, Accounts
  <1>1. TypeOK'
    BY <1>a, Zenon DEF Balanced, TypeOK, OnSendFails, books, runs
  <1>2. truth' - carried' = 100 * exposure'
    BY <1>a, <1>b, <1>c DEF UnderWay, OnSendFails, NoAnswer, Signed, runs, Balanced, TypeOK
  <1>3. \A i \in Ids : Covered(i)'
    BY <1>a, <1>b DEF Balanced, Accounts, Covered, OnSendFails, books, runs, Signed
  <1>4. QED
    BY <1>1, <1>2, <1>3, <1>a, <1>b, <1>c, Zenon DEF Balanced, Accounts, OnSendFails, books, runs

\* on_fill moves contracts from the unconfirmed fills to the position.
LEMMA OnFillBalanced ==
    ASSUME Balanced, NEW id \in Ids, NEW count \in TradeCounts,
           OnFill(id, count), IsWhole(count)
    PROVE  Balanced'
  <1> USE OrderFlowAssumption
  <1> DEFINE n == parse_contracts(count)
             q == Signed(side[id], n)
             u == unconfirmed[id]
  <1>a. /\ waiting = 0 /\ waiting' = 0 /\ order_seq' = order_seq /\ side' = side
        /\ answer' = answer /\ pending' = pending /\ truth' = truth
        /\ executed' = executed /\ failures' = failures
        /\ restarts' = restarts /\ carried' = carried
        /\ answer = NoAnswer /\ pending = {} /\ truth - carried = 100 * exposure
    BY Zenon DEF OnFill, runs, Balanced, Accounts
  <1>b. /\ side[id] \in OrderSides /\ unconfirmed \in [Ids -> Holding] /\ positions \in Int
        /\ undelivered \in [Ids -> Nat] /\ u \in Holding
    BY Zenon DEF Balanced, TypeOK
  <1>c. count \in 1 .. 100 * OrderSize /\ IsWhole(count) /\ n \in Nat /\ count = 100 * n
    BY DEF IsWhole, parse_contracts
  <1>d. undelivered[id] >= count /\ undelivered' = [undelivered EXCEPT ![id] = @ - count]
    BY Zenon DEF OnFill
  <1>e. Signed(side[id], u) >= 0 /\ undelivered[id] <= 100 * Signed(side[id], u)
    BY <1>a DEF Balanced, Accounts, Covered, Ids
  <1>f. n <= Signed(side[id], u)
    BY <1>b, <1>c, <1>d, <1>e DEF Signed, Holding
  <1>g. Remaining(u, q) = u - q /\ u - q \in Holding /\ q \in Int
    BY <1>b, <1>c, <1>f, RemainingCovered DEF Signed
  <1>h. positions' = positions + q /\ unconfirmed' = [unconfirmed EXCEPT ![id] = u - q]
    BY <1>c, <1>g, Zenon DEF OnFill
  <1> HIDE DEF n, q, u
  <1>i. exposure' = exposure
    <2>1. /\ Total(unconfirmed') = Total(unconfirmed) - unconfirmed[id] + (u - q)
          /\ Total(unconfirmed) \in Int
      BY <1>b, <1>g, <1>h, TotalUpdate, ZenonT(60)
    <2>2. exposure' = positions + q + Total(unconfirmed')
      BY <1>h, Zenon DEF exposure
    <2>3. unconfirmed[id] = u /\ u \in Int
      BY <1>b DEF u, Holding
    <2>4. QED
      BY <2>1, <2>2, <2>3, <1>b, <1>g DEF exposure
  <1>1. TypeOK'
    <2>1. orders' \in [Ids -> {"None", "Filled", "Cancelled"}]
      BY <1>c, ZenonT(60) DEF Balanced, TypeOK, OnFill
    <2>2. undelivered' \in [Ids -> Nat]
      BY <1>b, <1>c, <1>d
    <2>3. unconfirmed' \in [Ids -> Holding] /\ positions' \in Int
      BY <1>b, <1>g, <1>h
    <2>4. QED
      BY <2>1, <2>2, <2>3, <1>a, Zenon DEF Balanced, TypeOK
  <1>2. \A i \in Ids : Covered(i)'
    <2> SUFFICES ASSUME NEW i \in Ids PROVE Covered(i)'
      BY Zenon
    <2>1. CASE i = id
      <3>1. undelivered'[i] = undelivered[id] - count /\ unconfirmed'[i] = u - q
        BY <2>1, <1>b, <1>d, <1>h, Zenon
      <3>2. Signed(side[id], u - q) = Signed(side[id], u) - n /\ Signed(side[id], u) \in Int
        BY <1>b, <1>c DEF Signed, q, Holding
      <3>3. QED
        BY <2>1, <3>1, <3>2, <1>a, <1>b, <1>c, <1>e, <1>f DEF Covered
    <2>2. CASE i # id
      BY <2>2, <1>a, <1>b, <1>d, <1>h DEF Balanced, Accounts, Covered, Ids
    <2>3. QED
      BY <2>1, <2>2, Zenon
  <1>3. \A i \in Ids : i > order_seq' => unconfirmed'[i] = 0 /\ undelivered'[i] = 0
    <2>1. ~(id > order_seq)
      BY <1>b, <1>c, <1>d DEF Balanced, Accounts
    <2>2. QED
      BY <2>1, <1>a, <1>b, <1>d, <1>h, ZenonT(60) DEF Balanced, Accounts
  <1>4. QED
    BY <1>1, <1>2, <1>3, <1>a, <1>i, Zenon DEF Balanced, Accounts

\* on_fill drops a trade that is not whole: its contracts stay unconfirmed.
LEMMA DroppedFillBalanced ==
    ASSUME Balanced, NEW id \in Ids, NEW count \in TradeCounts,
           OnFill(id, count), ~IsWhole(count)
    PROVE  Balanced'
  <1> USE OrderFlowAssumption
  <1>a. /\ waiting = 0 /\ waiting' = 0 /\ order_seq' = order_seq /\ side' = side
        /\ answer' = answer /\ pending' = pending /\ truth' = truth
        /\ executed' = executed /\ failures' = failures
        /\ restarts' = restarts /\ carried' = carried
        /\ positions' = positions /\ unconfirmed' = unconfirmed /\ orders' = orders
    BY Zenon DEF OnFill, books, runs
  <1>b. exposure' = exposure
    BY <1>a, Zenon DEF exposure
  <1>c. /\ undelivered \in [Ids -> Nat] /\ count \in Nat \ {0} /\ undelivered[id] >= count
        /\ undelivered' = [undelivered EXCEPT ![id] = @ - count]
    BY DEF OnFill, Balanced, TypeOK
  <1>d. /\ undelivered' \in [Ids -> Nat]
        /\ \A i \in Ids : undelivered'[i] <= undelivered[i]
    BY <1>c
  <1>1. TypeOK'
    BY <1>a, <1>d, Zenon DEF Balanced, TypeOK
  <1>2. \A i \in Ids : Covered(i)'
    <2> SUFFICES ASSUME NEW i \in Ids PROVE Covered(i)'
      BY Zenon
    <2>1. Covered(i) /\ unconfirmed[i] \in Int /\ side[i] \in OrderSides
      BY <1>a DEF Balanced, Accounts, TypeOK, Holding, Ids
    <2>2. undelivered'[i] \in Nat /\ undelivered[i] \in Nat /\ undelivered'[i] <= undelivered[i]
      BY <1>c, <1>d, Zenon
    <2>3. QED
      BY <1>a, <2>1, <2>2 DEF Covered, Signed
  <1>3. \A i \in Ids : i > order_seq' => unconfirmed'[i] = 0 /\ undelivered'[i] = 0
    <2>1. \A i \in Ids : i > order_seq => unconfirmed[i] = 0 /\ undelivered[i] = 0
      BY Zenon DEF Balanced, Accounts
    <2>2. QED
      BY <2>1, <1>a, <1>c, <1>d
  <1>4. QED
    BY <1>1, <1>2, <1>3, <1>a, <1>b, Zenon DEF Balanced, Accounts

\* A bot that starts again between orders knows nothing, and owes nothing to its
\* accounts from then on.
LEMMA RestartBalanced ==
    ASSUME Balanced, Restart, failures = 0, failures' = 0
    PROVE  Balanced'
  <1> USE OrderFlowAssumption
  <1>a. waiting = 0 /\ waiting' = 0 /\ answer' = NoAnswer /\ pending = {} /\ pending' = pending
    BY DEF Restart, Balanced, Accounts
  <1>b. /\ positions' = 0 /\ unconfirmed' = [id \in Ids |-> 0]
        /\ orders' = [id \in Ids |-> "None"] /\ undelivered' = [id \in Ids |-> 0]
    BY Zenon DEF Restart, Forget
  <1>c. /\ truth' = truth /\ carried' = truth /\ executed' = executed
        /\ order_seq' = order_seq /\ side' = side
        /\ restarts' \in 0 .. MaxRestarts
    BY DEF Restart, Balanced, TypeOK
  <1>1. exposure' = 0
    BY <1>b DEF exposure
  <1>2. TypeOK'
    BY <1>a, <1>b, <1>c DEF Balanced, TypeOK, NoAnswer, Holding
  <1>3. truth' - carried' = 100 * exposure'
    BY <1>1, <1>c DEF Balanced, TypeOK
  <1>4. \A i \in Ids : Covered(i)'
    BY <1>b DEF Covered, Signed
  <1>5. QED
    BY <1>1, <1>2, <1>3, <1>4, <1>a, <1>b DEF Balanced, Accounts

\* Every step of bot and exchange keeps the accounts balanced, unless it loses or
\* drops an answer.
LEMMA StepBalanced ==
    ASSUME Balanced, [Next]_vars, failures = 0, failures' = 0
    PROVE  Balanced'
  <1>1. CASE \E id \in Ids, count \in FillCounts : Execute(id, count)
    BY <1>1, ExecuteBalanced, Zenon
  <1>2. CASE \E id \in Ids : Reject(id)
    BY <1>2, RejectBalanced, Zenon
  <1>3. CASE LoseFills
    BY <1>3, LoseFillsBalanced, Zenon
  <1>4. CASE \E s \in OrderSides : Submit(s)
    BY <1>4, SubmitBalanced, Zenon
  <1>5. CASE OnResponse
    BY <1>5, OnResponseBalanced, Zenon
  <1>6. CASE OnSendFails
    BY <1>6, OnSendFailsBalanced, Zenon
  <1>7. CASE OnRequestFails
    BY <1>7 DEF OnRequestFails
  <1>8. CASE \E id \in Ids, count \in TradeCounts : OnFill(id, count)
    BY <1>8, OnFillBalanced, DroppedFillBalanced, Zenon
  <1>9. CASE Restart
    BY <1>9, RestartBalanced, Zenon
  <1>10. CASE UNCHANGED vars
    <2>1. exposure' = exposure
      BY <1>10, Zenon DEF vars, books, runs, exposure
    <2>2. QED
      BY <1>10, <2>1, ZenonT(60) DEF vars, exchange, books, runs, Balanced, TypeOK, Accounts, UnderWay, Covered
  <1>11. QED
    BY <1>1, <1>2, <1>3, <1>4, <1>5, <1>6, <1>7, <1>8, <1>9, <1>10, Zenon DEF Next

\* What balanced accounts mean for the real position.
LEMMA BalancedCap ==
    Balanced => (carried = 0 => PositionCap) /\ ExposureIsTruth
  <1> USE OrderFlowAssumption
  <1> SUFFICES ASSUME Balanced PROVE (carried = 0 => PositionCap) /\ ExposureIsTruth
    BY Zenon
  <1>1. exposure \in -MaxPosition .. MaxPosition
    BY Zenon DEF Balanced, Accounts
  <1>2. CASE waiting = 0
    BY <1>1, <1>2 DEF Balanced, Accounts, TypeOK, PositionCap, ExposureIsTruth
  <1>3. CASE waiting # 0
    <2>1. UnderWay /\ side[waiting] \in OrderSides /\ answer.filled \in 0 .. 100 * OrderSize
      BY <1>3, Zenon DEF Balanced, Accounts, TypeOK
    <2>2. QED
      BY <1>1, <1>3, <2>1 DEF UnderWay, Signed, Balanced, TypeOK, PositionCap, ExposureIsTruth
  <1>4. QED
    BY <1>2, <1>3, Zenon

\* The inductive invariant: until the first lost or dropped answer, the accounts
\* balance; after it they never have to again.
Inv == failures \in Nat /\ (failures = 0 => Balanced)

\* The count of failures only grows, and the accounts balance while it is 0.
LEMMA InvHolds ==
    Spec => []Inv
  <1>1. Init => Inv
    BY InitBalanced DEF Inv, Init
  <1>2. ASSUME Inv, [Next]_vars PROVE Inv'
    <2>1. failures' = failures \/ failures' = failures + 1
      BY <1>2 DEF Next, vars, Execute, Reject, LoseFills, Submit, Post, OnResponse, OnSendFails,
                  OnRequestFails, OnFill, Restart
    <2>2. failures \in Nat /\ failures' \in Nat /\ (failures' = 0 => failures = 0)
      BY <1>2, <2>1 DEF Inv
    <2>3. failures' = 0 => Balanced'
      BY <1>2, <2>2, StepBalanced, Zenon DEF Inv
    <2>4. QED
      BY <2>2, <2>3, Zenon DEF Inv
  <1>3. QED
    BY <1>1, <1>2, PTL DEF Spec

\* For every cap, order size and history of partial, fractional, lost and refused
\* fills: as long as no answer was lost or dropped and the bot was not started again
\* with a position, the account's position stays within max_position (strategy.hpp:14),
\* and between orders the exposure handed to the strategy is what was traded since
\* the start.
THEOREM CapHolds ==
    Spec => []((failures = 0 /\ carried = 0 => PositionCap) /\ ExposureIsTruth)
  <1>1. Inv => (failures = 0 /\ carried = 0 => PositionCap) /\ ExposureIsTruth
    BY BalancedCap, Zenon DEF Inv, ExposureIsTruth
  <1>2. QED
    BY <1>1, InvHolds, PTL

\* The types of OrderFlow and the order-by-order accounting behind CapHolds, under
\* the same condition.
THEOREM AccountsBalance ==
    Spec => []((failures = 0 => TypeOK) /\ Accounting)
  <1>1. Inv => (failures = 0 => TypeOK) /\ Accounting
    BY Zenon DEF Inv, Balanced, Accounting
  <1>2. QED
    BY <1>1, InvHolds, PTL

-----------------------------------------------------------------------------
(* What holds whatever is lost: types, and the recorded statuses. *)

\* The order under way is the last one and not yet recorded, and its answer says
\* what was executed of it.
AnswerKnown ==
    /\ waiting # 0 => waiting = order_seq /\ unconfirmed[waiting] = 0 /\ orders[waiting] = "None"
    /\ answer # NoAnswer => waiting # 0 /\ waiting \notin pending
    /\ answer.kind = "order" => answer.filled = executed[waiting]

\* An order not yet matched is neither executed nor recorded; a recorded status
\* agrees with what was executed, and no more is reported than was.
OrderKnown(id) ==
    /\ Signed(side[id], unconfirmed[id]) >= 0
    /\ undelivered[id] <= executed[id]
    /\ id \in pending => executed[id] = 0 /\ orders[id] = "None"
    /\ id > order_seq => id \notin pending /\ unconfirmed[id] = 0 /\ executed[id] = 0
                        /\ orders[id] = "None"
    /\ orders[id] = "Filled" => executed[id] > 0
    /\ orders[id] = "Cancelled" => executed[id] = 0

Known == TypeOK /\ AnswerKnown /\ \A id \in Ids : OrderKnown(id)

\* A bot starts without orders.
LEMMA InitKnown ==
    Init => Known
  <1> USE OrderFlowAssumption
  <1>1. ASSUME Init PROVE TypeOK
    BY <1>1 DEF Init, TypeOK, NoAnswer, OrderSides, Holding, Ids
  <1>2. ASSUME Init PROVE AnswerKnown /\ \A id \in Ids : OrderKnown(id)
    BY <1>2 DEF Init, AnswerKnown, OrderKnown, NoAnswer, Signed
  <1>3. QED
    BY <1>1, <1>2, Zenon DEF Known

\* The exchange matches a pending order.
LEMMA ExecuteKnown ==
    ASSUME Known, NEW id \in Ids, NEW count \in FillCounts, Execute(id, count)
    PROVE  Known'
  <1> USE OrderFlowAssumption
  <1>a. TypeOK /\ AnswerKnown /\ count \in Nat /\ count <= 100 * OrderSize /\ id \in pending
    BY DEF Known, Execute
  <1>b. /\ waiting' = waiting /\ order_seq' = order_seq /\ side' = side /\ positions' = positions
        /\ unconfirmed' = unconfirmed /\ orders' = orders /\ failures' = failures
        /\ restarts' = restarts /\ carried' = carried
    BY Zenon DEF Execute, books, runs
  <1>c. /\ executed' = [executed EXCEPT ![id] = count]
        /\ undelivered' = [undelivered EXCEPT ![id] = count]
        /\ pending' = pending \ {id} /\ truth' = truth + Signed(side[id], count)
    BY Zenon DEF Execute
  <1>d. answer' = IF waiting = id THEN [kind |-> "order", filled |-> count] ELSE answer
    BY Zenon DEF Execute
  <1>1. TypeOK'
    BY <1>a, <1>b, <1>c, <1>d DEF TypeOK, Signed
  <1>2. AnswerKnown'
    <2>1. CASE waiting = id
      BY <2>1, <1>a, <1>b, <1>c, <1>d DEF AnswerKnown, TypeOK, NoAnswer, Ids
    <2>2. CASE waiting # id
      <3>1. answer' = answer /\ (answer.kind = "order" => executed'[waiting] = executed[waiting])
        BY <2>2, <1>a, <1>c, <1>d DEF AnswerKnown, TypeOK, NoAnswer
      <3>2. QED
        BY <3>1, <2>2, <1>a, <1>b, <1>c, Zenon DEF AnswerKnown
    <2>3. QED
      BY <2>1, <2>2, Zenon
  <1>3. ASSUME NEW i \in Ids PROVE OrderKnown(i)'
    <2>1. OrderKnown(i) /\ OrderKnown(id)
      BY Zenon DEF Known
    <2>2. QED
      BY <2>1, <1>a, <1>b, <1>c DEF OrderKnown, TypeOK
  <1>4. QED
    BY <1>1, <1>2, <1>3, Zenon DEF Known

\* The exchange refuses one.
LEMMA RejectKnown ==
    ASSUME Known, NEW id \in Ids, Reject(id)
    PROVE  Known'
  <1>a. TypeOK /\ AnswerKnown /\ id \in pending
    BY Zenon DEF Known, Reject
  <1>b. /\ waiting' = waiting /\ order_seq' = order_seq /\ side' = side /\ positions' = positions
        /\ unconfirmed' = unconfirmed /\ orders' = orders /\ failures' = failures
        /\ restarts' = restarts /\ carried' = carried /\ truth' = truth
        /\ executed' = executed /\ undelivered' = undelivered /\ pending' = pending \ {id}
    BY Zenon DEF Reject, books, runs
  <1>c. answer' = IF waiting = id THEN [kind |-> "error", filled |-> 0] ELSE answer
    BY Zenon DEF Reject
  <1>1. TypeOK'
    <2>1. answer' \in [kind : {"none", "order", "error"}, filled : 0 .. 100 * OrderSize]
      BY <1>a, <1>c, OrderFlowAssumption DEF TypeOK
    <2>2. QED
      BY <2>1, <1>a, <1>b, Zenon DEF TypeOK
  <1>2. AnswerKnown'
    BY <1>a, <1>b, <1>c DEF AnswerKnown, Ids, NoAnswer
  <1>3. ASSUME NEW i \in Ids PROVE OrderKnown(i)'
    <2>1. OrderKnown(i)
      BY Zenon DEF Known
    <2>2. QED
      BY <2>1, <1>b, Zenon DEF OrderKnown
  <1>4. QED
    BY <1>1, <1>2, <1>3, Zenon DEF Known

\* Fills that are lost, or forgotten with everything else by a restart.
LEMMA LoseFillsKnown ==
    ASSUME Known, LoseFills
    PROVE  Known'
  <1>a. /\ waiting' = waiting /\ order_seq' = order_seq /\ side' = side /\ positions' = positions
        /\ unconfirmed' = unconfirmed /\ orders' = orders /\ failures' = failures
        /\ restarts' = restarts /\ carried' = carried /\ truth' = truth /\ answer' = answer
        /\ executed' = executed /\ pending' = pending /\ undelivered' = [id \in Ids |-> 0]
    BY Zenon DEF LoseFills, books, runs
  <1>1. TypeOK'
    BY <1>a, Zenon DEF Known, TypeOK
  <1>2. AnswerKnown'
    BY <1>a, Zenon DEF Known, AnswerKnown
  <1>3. ASSUME NEW i \in Ids PROVE OrderKnown(i)'
    BY <1>a DEF Known, OrderKnown, TypeOK
  <1>4. QED
    BY <1>1, <1>2, <1>3, Zenon DEF Known

LEMMA RestartKnown ==
    ASSUME Known, Restart
    PROVE  Known'
  <1> USE OrderFlowAssumption
  <1>a. /\ waiting' = 0 /\ answer' = NoAnswer /\ order_seq' = order_seq /\ side' = side
        /\ positions' = 0 /\ unconfirmed' = [id \in Ids |-> 0]
        /\ orders' = [id \in Ids |-> "None"] /\ undelivered' = [id \in Ids |-> 0]
        /\ truth' = truth /\ carried' = truth /\ executed' = executed /\ pending' = pending
    BY Zenon DEF Restart, Forget
  <1>b. restarts' \in 0 .. MaxRestarts /\ failures' \in 0 .. MaxFailures
    BY DEF Restart, Known, TypeOK
  <1>1. TypeOK'
    BY <1>a, <1>b DEF Known, TypeOK, NoAnswer, Holding
  <1>2. AnswerKnown'
    BY <1>a, Zenon DEF AnswerKnown, NoAnswer
  <1>3. ASSUME NEW i \in Ids PROVE OrderKnown(i)'
    BY <1>a DEF Known, OrderKnown, TypeOK, Signed
  <1>4. QED
    BY <1>1, <1>2, <1>3, Zenon DEF Known

\* submit uses a new id.
LEMMA SubmitKnown ==
    ASSUME Known, NEW s \in OrderSides, Submit(s)
    PROVE  Known'
  <1> USE OrderFlowAssumption
  <1>a. /\ waiting = 0 /\ order_seq \in Nat /\ order_seq + 1 \in Ids /\ order_seq' = order_seq + 1
        /\ waiting' = order_seq + 1 /\ answer = NoAnswer
    BY DEF Submit, Post, Known, TypeOK, AnswerKnown, Ids
  <1>b. /\ positions' = positions /\ unconfirmed' = unconfirmed /\ orders' = orders
        /\ failures' = failures /\ restarts' = restarts /\ carried' = carried /\ truth' = truth
        /\ executed' = executed /\ undelivered' = undelivered /\ answer' = answer
    BY Zenon DEF Submit, Post, books, runs
  <1>c. /\ side' = [side EXCEPT ![order_seq + 1] = s]
        /\ pending' = pending \union {order_seq + 1}
    BY Zenon DEF Submit, Post
  <1>d. OrderKnown(order_seq + 1)
    BY <1>a, Zenon DEF Known
  <1>1. TypeOK'
    BY <1>a, <1>b, <1>c DEF Known, TypeOK, Ids
  <1>2. AnswerKnown'
    BY <1>a, <1>b, <1>d DEF AnswerKnown, OrderKnown, NoAnswer
  <1>3. ASSUME NEW i \in Ids PROVE OrderKnown(i)'
    <2>1. OrderKnown(i) /\ side \in [Ids -> OrderSides] /\ i \in Nat
      BY DEF Known, TypeOK, Ids
    <2>2. CASE i = order_seq + 1
      BY <2>1, <2>2, <1>a, <1>b, <1>c DEF OrderKnown, Signed
    <2>3. CASE i # order_seq + 1
      BY <2>1, <2>3, <1>a, <1>b, <1>c DEF OrderKnown
    <2>4. QED
      BY <2>2, <2>3, Zenon
  <1>4. QED
    BY <1>1, <1>2, <1>3, Zenon DEF Known

\* submit records the status that the answer implies.
LEMMA OnResponseKnown ==
    ASSUME Known, OnResponse
    PROVE  Known'
  <1> USE OrderFlowAssumption
  <1> DEFINE n == parse_contracts(answer.filled)
  <1>a. waiting \in Ids /\ waiting # 0 /\ answer # NoAnswer /\ TypeOK /\ AnswerKnown
    BY Zenon DEF OnResponse, Known, TypeOK
  <1>b. /\ waiting' = 0 /\ answer' = NoAnswer /\ order_seq' = order_seq /\ side' = side
        /\ positions' = positions /\ restarts' = restarts /\ carried' = carried
        /\ truth' = truth /\ pending' = pending /\ executed' = executed
        /\ undelivered' = undelivered
    BY Zenon DEF OnResponse, exchange, runs
  <1>c. failures' \in 0 .. MaxFailures
    BY <1>a DEF OnResponse, TypeOK
  <1>d. OrderKnown(waiting) /\ waiting \notin pending
    BY <1>a, Zenon DEF Known, AnswerKnown
  <1>e. AnswerKnown'
    BY <1>b, Zenon DEF AnswerKnown, NoAnswer
  <1>1. CASE answer.kind = "order" /\ IsWhole(answer.filled)
    <2>1. /\ orders' = [orders EXCEPT ![waiting] = Status(n)]
          /\ unconfirmed' = [unconfirmed EXCEPT ![waiting] = @ + Signed(side[waiting], n)]
      BY <1>1, Zenon DEF OnResponse
    <2>2. n \in 0 .. OrderSize /\ answer.filled = 100 * n /\ answer.filled = executed[waiting]
      <3>1. answer.filled \in 0 .. 100 * OrderSize /\ answer.filled % 100 = 0
        BY <1>1, <1>a, Zenon DEF TypeOK, IsWhole
      <3>2. QED
        BY <3>1, <1>1, <1>a DEF parse_contracts, AnswerKnown
    <2> HIDE DEF n
    <2>3. /\ unconfirmed[waiting] = 0 /\ side[waiting] \in OrderSides
          /\ Signed(side[waiting], n) \in Holding
      BY <2>2, <1>a DEF AnswerKnown, TypeOK, Signed, Holding
    <2>4. unconfirmed' = [unconfirmed EXCEPT ![waiting] = Signed(side[waiting], n)]
      <3>1. unconfirmed[waiting] + Signed(side[waiting], n) = Signed(side[waiting], n)
        BY <2>3 DEF Holding
      <3>2. QED
        BY <2>1, <3>1, Zenon
    <2>5. TypeOK'
      BY <2>1, <2>3, <2>4, <1>a, <1>b, <1>c DEF TypeOK, Status, NoAnswer
    <2>6. ASSUME NEW i \in Ids PROVE OrderKnown(i)'
      <3>1. OrderKnown(i) /\ i \in Nat
        BY DEF Known, Ids
      <3>2. CASE i = waiting
        <4>1. unconfirmed'[i] = Signed(side[i], n) /\ orders'[i] = Status(n)
          BY <3>2, <2>1, <2>4, <1>a, Zenon DEF TypeOK
        <4>2. Signed(side[i], Signed(side[i], n)) = n
          BY <2>2 DEF Signed
        <4>3. executed[i] = 100 * n /\ ~(i > order_seq)
          BY <3>2, <2>2, <1>a DEF AnswerKnown, TypeOK
        <4>4. QED
          BY <4>1, <4>2, <4>3, <3>1, <3>2, <2>2, <1>b, <1>d DEF OrderKnown, Status
      <3>3. CASE i # waiting
        BY <3>1, <3>3, <2>1, <2>4, <1>a, <1>b, ZenonT(60) DEF OrderKnown, TypeOK
      <3>4. QED
        BY <3>2, <3>3, Zenon
    <2>7. QED
      BY <2>5, <2>6, <1>e, Zenon DEF Known
  <1>2. CASE ~(answer.kind = "order" /\ IsWhole(answer.filled))
    <2>1. orders' = orders /\ unconfirmed' = unconfirmed
      BY <1>2, Zenon DEF OnResponse
    <2>2. TypeOK'
      BY <2>1, <1>a, <1>b, <1>c DEF TypeOK, NoAnswer
    <2>3. ASSUME NEW i \in Ids PROVE OrderKnown(i)'
      BY <2>1, <1>b, ZenonT(60) DEF Known, OrderKnown
    <2>4. QED
      BY <2>2, <2>3, <1>e, Zenon DEF Known
  <1>3. QED
    BY <1>1, <1>2, Zenon

\* A failed request leaves the books alone.
LEMMA RequestFailsKnown ==
    ASSUME Known, OnSendFails \/ OnRequestFails
    PROVE  Known'
  <1> USE OrderFlowAssumption
  <1>a. /\ waiting' = 0 /\ order_seq' = order_seq /\ side' = side /\ positions' = positions
        /\ unconfirmed' = unconfirmed /\ orders' = orders
        /\ restarts' = restarts /\ carried' = carried /\ truth' = truth
        /\ executed' = executed /\ undelivered' = undelivered
        /\ pending' \subseteq pending
    BY Zenon DEF OnSendFails, OnRequestFails, books, exchange, runs
  <1>b. answer' = NoAnswer /\ failures' \in 0 .. MaxFailures
    BY DEF OnSendFails, OnRequestFails, Known, AnswerKnown, TypeOK
  <1>1. TypeOK'
    BY <1>a, <1>b DEF Known, TypeOK, NoAnswer
  <1>2. AnswerKnown'
    BY <1>a, <1>b, Zenon DEF AnswerKnown, NoAnswer
  <1>3. ASSUME NEW i \in Ids PROVE OrderKnown(i)'
    BY <1>a, ZenonT(60) DEF Known, OrderKnown
  <1>4. QED
    BY <1>1, <1>2, <1>3, Zenon DEF Known

\* What on_fill leaves of an unconfirmed fill keeps its sign and does not grow.
LEMMA RemainingShrinks ==
    ASSUME NEW u \in Holding, NEW s \in OrderSides, NEW n \in Nat, Signed(s, u) >= 0
    PROVE  /\ Remaining(u, Signed(s, n)) \in Holding
           /\ Signed(s, Remaining(u, Signed(s, n))) >= 0
  <1> USE OrderFlowAssumption
  <1>1. CASE s = "Bid"
    BY <1>1 DEF Remaining, Signed, Holding
  <1>2. CASE s = "Ask"
    BY <1>2 DEF Remaining, Signed, Holding
  <1>3. QED
    BY <1>1, <1>2, Zenon DEF OrderSides

\* A fill of a recorded order makes it Filled, and it was executed.
LEMMA OnFillKnown ==
    ASSUME Known, NEW id \in Ids, NEW count \in TradeCounts, OnFill(id, count)
    PROVE  Known'
  <1> USE OrderFlowAssumption
  <1> DEFINE n == parse_contracts(count)
             qty == Signed(side[id], n)
             left == Remaining(unconfirmed[id], qty)
  <1>a. count \in 1 .. 100 * OrderSize /\ TypeOK /\ OrderKnown(id) /\ AnswerKnown
    BY Zenon DEF Known
  <1>b. /\ waiting' = waiting /\ waiting = 0 /\ answer' = answer /\ order_seq' = order_seq
        /\ side' = side /\ restarts' = restarts /\ carried' = carried /\ failures' = failures
        /\ truth' = truth /\ pending' = pending /\ executed' = executed
        /\ undelivered[id] >= count
        /\ undelivered' = [undelivered EXCEPT ![id] = @ - count]
    BY Zenon DEF OnFill, runs
  <1>c. /\ undelivered' \in [Ids -> Nat]
        /\ \A i \in Ids : undelivered'[i] <= undelivered[i]
    BY <1>a, <1>b DEF TypeOK
  <1>d. executed[id] > 0 /\ id \notin pending /\ ~(id > order_seq)
    BY <1>a, <1>b DEF OrderKnown, TypeOK
  <1>e. AnswerKnown'
    BY <1>a, <1>b, Zenon DEF AnswerKnown
  <1>1. CASE IsWhole(count)
    <2>1. /\ orders' = [orders EXCEPT ![id] = IF @ = "None" THEN @ ELSE "Filled"]
          /\ positions' = positions + qty
          /\ unconfirmed' = [unconfirmed EXCEPT ![id] = left]
      BY <1>1, Zenon DEF OnFill, books
    <2>2. n \in Nat /\ unconfirmed[id] \in Holding /\ side[id] \in OrderSides
      BY <1>a DEF parse_contracts, TypeOK
    <2>3. qty \in Int
      BY <2>2 DEF Signed
    <2>4. left \in Holding /\ Signed(side[id], left) >= 0
      BY <2>2, <1>a, RemainingShrinks, Zenon DEF OrderKnown
    <2> HIDE DEF left, qty, n
    <2>5. orders' \in [Ids -> {"None", "Filled", "Cancelled"}]
      BY <2>1, <1>a, Zenon DEF TypeOK
    <2>6. TypeOK'
      BY <2>1, <2>3, <2>4, <2>5, <1>a, <1>b, <1>c DEF TypeOK
    <2>7. ASSUME NEW i \in Ids PROVE OrderKnown(i)'
      <3>1. OrderKnown(i) /\ undelivered'[i] <= executed'[i]
        BY <1>a, <1>b, <1>c DEF Known, OrderKnown, TypeOK
      <3>2. CASE i = id
        <4>1. unconfirmed'[i] = left /\ orders'[i] \in {"None", "Filled"}
          BY <3>2, <2>1, <1>a, ZenonT(60) DEF TypeOK
        <4>2. QED
          BY <4>1, <3>1, <3>2, <2>4, <1>b, <1>d, Zenon DEF OrderKnown
      <3>3. CASE i # id
        <4>1. unconfirmed'[i] = unconfirmed[i] /\ orders'[i] = orders[i]
          BY <3>3, <2>1, <1>a, Zenon DEF TypeOK
        <4>2. QED
          BY <4>1, <3>1, <1>b, Zenon DEF OrderKnown
      <3>4. QED
        BY <3>2, <3>3, ZenonT(60)
    <2>8. QED
      BY <2>6, <2>7, <1>e, Zenon DEF Known
  <1>2. CASE ~IsWhole(count)
    <2>1. positions' = positions /\ unconfirmed' = unconfirmed /\ orders' = orders
      BY <1>2, Zenon DEF OnFill, books
    <2>2. TypeOK'
      BY <2>1, <1>a, <1>b, <1>c, Zenon DEF TypeOK
    <2>3. ASSUME NEW i \in Ids PROVE OrderKnown(i)'
      <3>1. OrderKnown(i) /\ undelivered'[i] <= executed'[i]
        BY <1>a, <1>b, <1>c DEF Known, OrderKnown, TypeOK
      <3>2. QED
        BY <3>1, <2>1, <1>b, Zenon DEF OrderKnown
    <2>4. QED
      BY <2>2, <2>3, <1>e, Zenon DEF Known
  <1>3. QED
    BY <1>1, <1>2, Zenon

\* Every step of bot and exchange preserves what is known.
LEMMA KnownStep ==
    Known /\ [Next]_vars => Known'
  <1> SUFFICES ASSUME Known, [Next]_vars PROVE Known'
    BY Zenon
  <1>1. CASE \E id \in Ids, count \in FillCounts : Execute(id, count)
    BY <1>1, ExecuteKnown, Zenon
  <1>2. CASE \E id \in Ids : Reject(id)
    BY <1>2, RejectKnown, Zenon
  <1>3. CASE LoseFills
    BY <1>3, LoseFillsKnown, Zenon
  <1>4. CASE \E s \in OrderSides : Submit(s)
    BY <1>4, SubmitKnown, Zenon
  <1>5. CASE OnResponse
    BY <1>5, OnResponseKnown, Zenon
  <1>6. CASE OnSendFails \/ OnRequestFails
    BY <1>6, RequestFailsKnown, Zenon
  <1>7. CASE \E id \in Ids, count \in TradeCounts : OnFill(id, count)
    BY <1>7, OnFillKnown, Zenon
  <1>8. CASE Restart
    BY <1>8, RestartKnown, Zenon
  <1>9. CASE UNCHANGED vars
    BY <1>9, Zenon DEF vars, exchange, books, runs, Known, TypeOK, AnswerKnown, OrderKnown
  <1>10. QED
    BY <1>1, <1>2, <1>3, <1>4, <1>5, <1>6, <1>7, <1>8, <1>9, Zenon DEF Next

\* Whatever answers, fills and restarts are lost, an order is recorded as Filled only
\* if the exchange filled some of it and as Cancelled only if it filled none
\* (trading_bot.cpp:73-76, 92).
THEOREM StatusesAreTrue ==
    Spec => []StatusIsTruth
  <1>1. Known => StatusIsTruth
    BY Zenon DEF Known, OrderKnown, StatusIsTruth
  <1>2. QED
    BY <1>1, InitKnown, KnownStep, PTL DEF Spec

\* The bot's accounts keep their types, and no order's unconfirmed fill exceeds its
\* size, whatever is lost (trading_bot.cpp:73-100).
THEOREM OrderFlowTypes ==
    Spec => []TypeOK
  <1>1. Known => TypeOK
    BY Zenon DEF Known
  <1>2. QED
    BY <1>1, InitKnown, KnownStep, PTL DEF Spec

-----------------------------------------------------------------------------
(* What lost answers can cost. *)

\* Every non-empty set of natural numbers has a least element.
LEMMA LeastNat ==
    ASSUME NEW T, T \subseteq Nat, T # {}
    PROVE  \E k \in T : \A m \in T : k <= m
  <1>1. PICK k \in T : \A m \in T : ~(<<m, k>> \in OpToRel(<, Nat))
    BY NatLessThanWellFounded, WFMin, Zenon
  <1>2. ASSUME NEW m \in T PROVE k <= m
    <2>1. k \in Nat /\ m \in Nat
      BY Zenon
    <2>2. ~(m < k)
      BY <1>1, <2>1, Zenon DEF OpToRel
    <2>3. QED
      BY <2>1, <2>2
  <1>3. QED
    BY <1>2, Zenon

\* An amount of contracts for every order.
Amounts == [Ids -> 0 .. OrderSize]

\* A sum of amounts is not negative: take a function with a negative sum whose last
\* entry other than 0 comes first; clearing that entry gives an earlier one.
LEMMA TotalNat ==
    ASSUME NEW f \in Amounts
    PROVE  Total(f) \in Nat
  <1> USE OrderFlowAssumption
  <1> DEFINE Ends(g, k) == \A i \in Ids : i > k => g[i] = 0
             Bad == {k \in 0 .. MaxOrders : \E g \in Amounts : Ends(g, k) /\ Total(g) < 0}
  <1>0. Amounts \subseteq [Ids -> Holding]
    BY DEF Amounts, Holding
  <1>1. \A g \in Amounts : Total(g) \in Int
    BY <1>0, Zenon
  <1>2. SUFFICES ASSUME Total(f) < 0 PROVE FALSE
    BY <1>1
  <1>3. MaxOrders \in Bad
    BY <1>2 DEF Ids
  <1>4. Bad \subseteq Nat
    OBVIOUS
  <1>5. PICK k \in Bad : \A m \in Bad : k <= m
    <2> HIDE DEF Bad
    <2> QED
      BY <1>3, <1>4, LeastNat, Zenon
  <1>6. PICK g \in Amounts : Ends(g, k) /\ Total(g) < 0
    BY Zenon
  <1>7. CASE k = 0
    <2>1. \A i \in Ids : g[i] = 0
      BY <1>6, <1>7 DEF Ids
    <2>2. g = [id \in Ids |-> 0]
      BY <2>1, Zenon DEF Amounts
    <2>3. QED
      BY <2>2, <1>6
  <1>8. CASE k # 0
    <2> DEFINE h == [g EXCEPT ![k] = 0]
    <2>1. k \in Ids /\ k - 1 \in 0 .. MaxOrders
      BY <1>8 DEF Ids
    <2>2. h \in Amounts /\ Ends(h, k - 1)
      BY <1>6, <2>1 DEF Amounts, Ids
    <2>3. Total(h) = Total(g) - g[k] + 0
      <3>1. g \in [Ids -> Holding] /\ 0 \in Holding
        BY <1>0 DEF Holding
      <3>2. QED
        BY <3>1, <2>1, TotalUpdate, ZenonT(60)
    <2>4. g[k] \in Nat /\ Total(g) \in Int
      BY <2>1, <1>1 DEF Amounts
    <2>5. Total(h) < 0
      BY <2>3, <2>4, <1>6
    <2>6. k - 1 \in Bad
      <3> HIDE DEF h
      <3> QED
        BY <2>1, <2>2, <2>5, Zenon
    <2>7. QED
      <3> HIDE DEF Bad
      <3> QED
        BY <1>4, <1>5, <2>6
  <1>9. QED
    BY <1>7, <1>8, Zenon

\* The entries of f for the orders on one side, and their sum.
Part(s, sd, f) == [id \in Ids |-> IF sd[id] = s THEN f[id] ELSE 0]
Sum(s, f) == Total(Part(s, side, f))

Opposite(s) == IF s = "Bid" THEN "Ask" ELSE "Bid"

\* f with another amount for one order.
Put(f, id, v) == [f EXCEPT ![id] = v]

LEMMA PutFacts ==
    ASSUME NEW f \in Amounts, NEW id \in Ids, NEW v \in 0 .. OrderSize
    PROVE  /\ Put(f, id, v) \in Amounts
           /\ Put(f, id, v)[id] = v
           /\ \A i \in Ids : i # id => Put(f, id, v)[i] = f[i]
           /\ f[id] \in 0 .. OrderSize
  BY Zenon DEF Put, Amounts

LEMMA NextIsAbove ==
    ASSUME NEW n \in Nat
    PROVE  ~(n + 1 <= n)
  OBVIOUS

LEMMA AmountEnds ==
    0 \in 0 .. OrderSize /\ OrderSize \in 0 .. OrderSize
  BY OrderFlowAssumption

LEMMA WholeContracts ==
    ASSUME NEW f \in 0 .. 100 * OrderSize, f % 100 = 0
    PROVE  f \div 100 \in 0 .. OrderSize /\ f = 100 * (f \div 100)
  BY OrderFlowAssumption

LEMMA PutAt ==
    ASSUME NEW f \in Amounts, NEW id \in Ids, NEW v \in 0 .. OrderSize
    PROVE  Put(f, id, v)[id] = v
  BY PutFacts, ZenonT(60)

\* A side's sum moves with the entries of that side only.
LEMMA PartUpdate ==
    ASSUME NEW s \in OrderSides, NEW sd \in [Ids -> OrderSides], NEW f \in Amounts,
           NEW id \in Ids, NEW v \in 0 .. OrderSize
    PROVE  /\ Put(f, id, v) \in Amounts
           /\ sd[id] = s => Total(Part(s, sd, Put(f, id, v))) = Total(Part(s, sd, f)) + (v - f[id])
           /\ sd[id] # s => Total(Part(s, sd, Put(f, id, v))) = Total(Part(s, sd, f))
  <1> DEFINE g == Put(f, id, v)
  <1>1. g \in Amounts
    BY Zenon DEF Amounts, Put
  <1>2. Part(s, sd, f) \in [Ids -> Holding] /\ Total(Part(s, sd, f)) \in Int
    <2>1. Part(s, sd, f) \in [Ids -> Holding]
      BY OrderFlowAssumption DEF Part, Amounts, Holding
    <2>2. QED
      BY <2>1, OrderFlowAssumption, Zenon
  <1>3. CASE sd[id] = s
    <2>1. Part(s, sd, g) = [Part(s, sd, f) EXCEPT ![id] = v]
      BY <1>3, Zenon DEF Part, Amounts, Put
    <2>2. v \in Holding /\ Part(s, sd, f)[id] = f[id] /\ f[id] \in Int
      BY <1>3, OrderFlowAssumption DEF Part, Amounts, Holding
    <2>3. Total(Part(s, sd, g)) = Total(Part(s, sd, f)) - Part(s, sd, f)[id] + v
      <3> DEFINE P == Part(s, sd, f)
                 Q == Part(s, sd, g)
      <3>1. P \in [Ids -> Holding] /\ v \in Holding /\ Q = [P EXCEPT ![id] = v]
        BY <1>2, <2>1, <2>2, Zenon
      <3> HIDE DEF P, Q
      <3>2. Total(Q) = Total(P) - P[id] + v
        BY <3>1, TotalUpdate, Zenon
      <3>3. QED
        BY <3>2, Zenon DEF P, Q
    <2>4. QED
      BY <1>1, <1>2, <1>3, <2>2, <2>3 DEF Holding
  <1>4. CASE sd[id] # s
    <2>1. Part(s, sd, g) = Part(s, sd, f)
      BY <1>4, Zenon DEF Part, Amounts, Put
    <2>2. QED
      BY <1>1, <1>4, <2>1, Zenon
  <1>5. QED
    BY <1>3, <1>4, Zenon

\* A sum of amounts is a natural number, and 0 over no contracts.
LEMMA PartFacts ==
    ASSUME NEW s \in OrderSides, NEW sd \in [Ids -> OrderSides], NEW f \in Amounts
    PROVE  /\ Total(Part(s, sd, f)) \in Nat
           /\ (\A id \in Ids : f[id] = 0) => Total(Part(s, sd, f)) = 0
  <1>1. Part(s, sd, f) \in Amounts
    BY OrderFlowAssumption DEF Part, Amounts
  <1>2. Total(Part(s, sd, f)) \in Nat
    BY <1>1, TotalNat, Zenon
  <1>3. ASSUME \A id \in Ids : f[id] = 0 PROVE Total(Part(s, sd, f)) = 0
    <2>1. Part(s, sd, f) = [id \in Ids |-> 0]
      BY <1>3, Zenon DEF Part
    <2>2. QED
      BY <2>1, OrderFlowAssumption, Zenon
  <1>4. QED
    BY <1>2, <1>3, Zenon

\* What so many restarts and lost answers may cost, in hundredths.
Allow(r, f) == 100 * (MaxPosition * r + OrderSize * f)

\* One cap more for a restart, one order more for an answer.
Grows(r, f) ==
    /\ Allow(r, f) \in Nat
    /\ Allow(r + 1, f) = Allow(r, f) + 100 * MaxPosition
    /\ Allow(r, f + 1) = Allow(r, f) + 100 * OrderSize

LEMMA AllowGrows ==
    ASSUME NEW r \in Nat, NEW f \in Nat
    PROVE  Grows(r, f)
  BY OrderFlowAssumption DEF Grows, Allow

\* The answer under way says what the fill channel may still report of its order.
Measured ==
    /\ waiting # 0 => undelivered[waiting] <= answer.filled
    /\ answer.kind # "order" => answer.filled = 0

\* The lost orders are those whose outcome the bot did not learn.  Of each, d bounds
\* the contracts it holds without being in the exposure, r those the fill channel may
\* still bring into it, and w those the exchange may yet execute.  Every other order
\* is covered by its unconfirmed fill.
Explained(id, lost, d, w, r) ==
    IF id \in lost
    THEN /\ id <= order_seq /\ id # waiting /\ unconfirmed[id] = 0
         /\ undelivered[id] <= 100 * d[id] /\ undelivered[id] < 100 * (r[id] + 1)
         /\ w[id] = IF id \in pending THEN OrderSize ELSE 0
         /\ id \in pending => d[id] = 0
    ELSE /\ d[id] = 0 /\ w[id] = 0 /\ r[id] = 0
         /\ id # waiting => Covered(id) /\ id \notin pending

\* What the answer under way adds to the position, seen from side s.
Filled(s) == IF waiting = 0 THEN 0 ELSE Signed(s, Signed(side[waiting], answer.filled))

\* The position T is at most what the bot forgot (C), knows (X) and is about to learn
\* (F) and what lost orders hold (D), less the reports still to come for lost orders of
\* the other side (R).  With what may yet be executed (W), all this stays within the
\* allowance A and one cap.
Within(T, C, X, F, A, D, W, R) ==
    /\ T + 100 * R <= C + 100 * (X + D) + F
    /\ C + 100 * (D + W) <= A
    /\ C + 100 * (X + D + W) <= A + 100 * MaxPosition

\* How Within moves: an order's answer is lost, seen from its side and from the other.
LEMMA WithinLost ==
    ASSUME NEW T \in Int, NEW C \in Int, NEW X \in Int, NEW F \in Int,
           NEW A \in Nat, NEW D \in Nat, NEW W \in Nat, NEW R \in Nat,
           NEW dv \in Nat, NEW wv \in Nat, Within(T, C, X, F, A, D, W, R),
           dv + wv = OrderSize, F <= 100 * dv
    PROVE  Within(T, C, X, 0, A + 100 * OrderSize, D + dv, W + wv, R)
  BY OrderFlowAssumption DEF Within

LEMMA WithinLostOther ==
    ASSUME NEW T \in Int, NEW C \in Int, NEW X \in Int, NEW F \in Int,
           NEW A \in Nat, NEW D \in Nat, NEW W \in Nat, NEW R \in Nat,
           NEW c \in Nat, Within(T, C, X, F, A, D, W, R), F + 100 * c <= 0
    PROVE  Within(T, C, X, 0, A + 100 * OrderSize, D, W, R + c)
  BY OrderFlowAssumption DEF Within

\* The answer is counted, or a fill of a lost order is.
LEMMA WithinCounted ==
    ASSUME NEW T \in Int, NEW C \in Int, NEW X \in Int, NEW F \in Int,
           NEW A \in Nat, NEW D \in Nat, NEW W \in Nat, NEW R \in Nat,
           NEW n \in Nat, Within(T, C, X, F, A, D, W, R)
    PROVE  /\ F = 100 * n /\ X + n <= MaxPosition => Within(T, C, X + n, 0, A, D, W, R)
           /\ F = -(100 * n) => Within(T, C, X - n, 0, A, D, W, R)
           /\ F = 0 => Within(T, C, X + n, 0, A, D - n, W, R)
           /\ F = 0 => Within(T, C, X - n, 0, A, D, W, R - n)
  BY OrderFlowAssumption DEF Within

\* A restart forgets the books and, with an order under way, its answer.
LEMMA WithinRestart ==
    ASSUME NEW T \in Int, NEW C \in Int, NEW X \in Int, NEW F \in Int,
           NEW A \in Nat, NEW D \in Nat, NEW W \in Nat, NEW R \in Nat,
           Within(T, C, X, F, A, D, W, R), F = 0
    PROVE  Within(T, T, 0, 0, A + 100 * MaxPosition, 0, W, 0)
  BY OrderFlowAssumption DEF Within

LEMMA WithinRestartWaiting ==
    ASSUME NEW T \in Int, NEW C \in Int, NEW X \in Int, NEW F \in Int,
           NEW A \in Nat, NEW D \in Nat, NEW W \in Nat, NEW R \in Nat,
           NEW W2 \in Nat, Within(T, C, X, F, A, D, W, R),
           F + 100 * W2 <= 100 * W + 100 * OrderSize
    PROVE  Within(T, T, 0, 0, A + 100 * MaxPosition + 100 * OrderSize, 0, W2, 0)
  BY OrderFlowAssumption DEF Within

\* Adding to nothing.
LEMMA FromZero ==
    ASSUME NEW a \in Int, NEW v \in Int, NEW x, x = 0
    PROVE  a + (v - x) = a + v
  OBVIOUS

\* A whole fill within an amount in hundredths.
LEMMA HundredCovers ==
    ASSUME NEW n \in Nat, NEW x \in Nat, NEW y \in Int, 100 * n <= x, x <= 100 * y
    PROVE  n <= y /\ y - n >= 0 /\ x - 100 * n <= 100 * (y - n)
  OBVIOUS

\* A part of an order.
LEMMA PartsOfOrder ==
    /\ OrderSize \in Nat /\ 0 \in 0 .. OrderSize /\ OrderSize \in 0 .. OrderSize
    /\ \A v \in 0 .. OrderSize : v \in Nat
    /\ 0 \notin Ids
  BY OrderFlowAssumption DEF Ids

\* This holds of the position seen from either side.
Bounded(s, d, w, r) ==
    /\ Within(Signed(s, truth), Signed(s, carried), Signed(s, exposure), Filled(s),
              Allow(restarts, failures), Sum(s, d), Sum(s, w), Sum(Opposite(s), r))
    /\ waiting # 0 /\ side[waiting] = s => Signed(s, exposure) + OrderSize <= MaxPosition

Explains(lost, d, w, r) ==
    /\ \A id \in Ids : Explained(id, lost, d, w, r)
    /\ \A s \in OrderSides : Bounded(s, d, w, r)

Explainable == \E lost \in SUBSET Ids, d \in Amounts, w \in Amounts, r \in Amounts : Explains(lost, d, w, r)

\* The numbers in Bounded are numbers.
LEMMA Numbers ==
    ASSUME Known, NEW s \in OrderSides, NEW f \in Amounts
    PROVE  /\ Sum(s, f) \in Nat /\ Sum(Opposite(s), f) \in Nat
           /\ truth \in Int /\ carried \in Int /\ exposure \in Int
           /\ Signed(s, truth) \in Int /\ Signed(s, carried) \in Int /\ Signed(s, exposure) \in Int
           /\ restarts \in Nat /\ failures \in Nat /\ Allow(restarts, failures) \in Nat
           /\ Filled(s) \in Int /\ order_seq \in Nat
           /\ MaxPosition \in Nat /\ OrderSize \in Nat
  <1> USE OrderFlowAssumption
  <1>a. TypeOK
    BY Zenon DEF Known
  <1>1. Sum(s, f) \in Nat /\ Sum(Opposite(s), f) \in Nat
    <2>1. Opposite(s) \in OrderSides /\ side \in [Ids -> OrderSides]
      BY <1>a, Zenon DEF Opposite, OrderSides, TypeOK
    <2>2. \A t \in OrderSides : Total(Part(t, side, f)) \in Nat
      BY <2>1, PartFacts, Zenon
    <2>3. QED
      BY <2>1, <2>2, Zenon DEF Sum
  <1>2. restarts \in Nat /\ failures \in Nat /\ truth \in Int /\ carried \in Int /\ order_seq \in Nat
    BY <1>a DEF TypeOK
  <1>3. Allow(restarts, failures) \in Nat
    <2>1. Grows(restarts, failures)
      BY <1>2, AllowGrows, Zenon
    <2>2. QED
      BY <2>1, Zenon DEF Grows
  <1>4. exposure \in Int
    BY <1>a DEF TypeOK, exposure
  <1>5. Filled(s) \in Int
    BY <1>a DEF TypeOK, Filled, Signed
  <1>6. QED
    BY <1>1, <1>2, <1>3, <1>4, <1>5 DEF Signed

\* Sums follow a change of one order's entry.
SumMoves(s, f, id, v) ==
    /\ side[id] = s => Sum(s, Put(f, id, v)) = Sum(s, f) + (v - f[id])
    /\ side[id] # s => Sum(s, Put(f, id, v)) = Sum(s, f)

LEMMA SumUpdate ==
    ASSUME TypeOK, NEW s \in OrderSides, NEW f \in Amounts, NEW id \in Ids, NEW v \in 0 .. OrderSize
    PROVE  /\ Put(f, id, v) \in Amounts
           /\ f[id] \in 0 .. OrderSize
           /\ SumMoves(s, f, id, v)
  <1>1. side \in [Ids -> OrderSides] /\ f[id] \in 0 .. OrderSize
    BY Zenon DEF TypeOK, Amounts
  <1>2. QED
    BY <1>1, PartUpdate, ZenonT(60) DEF Sum, SumMoves

\* What two sides make of a number.
LEMMA SignedFacts ==
    ASSUME NEW s \in OrderSides, NEW t \in OrderSides, NEW m \in Int, NEW n \in Int
    PROVE  /\ Signed(s, m) \in Int /\ Signed(s, 0) = 0
           /\ Signed(s, m + n) = Signed(s, m) + Signed(s, n)
           /\ s = t => Signed(s, Signed(t, n)) = n
           /\ s # t => Signed(s, Signed(t, n)) = -n
           /\ s = t <=> Opposite(s) # t
           /\ Opposite(s) \in OrderSides
  <1>1. CASE s = "Bid"
    BY <1>1, Zenon DEF Signed, Opposite, OrderSides
  <1>2. CASE s = "Ask"
    <2>1. Opposite(s) = "Bid" /\ (s = t <=> Opposite(s) # t)
      BY <1>2, Zenon DEF Opposite, OrderSides
    <2>2. \A k \in Int : Signed(s, k) = -k
      BY <1>2, Zenon DEF Signed
    <2>3. (s = t => Signed(t, n) = -n) /\ (s # t => Signed(t, n) = n)
      BY <1>2, Zenon DEF Signed, OrderSides
    <2>4. QED
      BY <2>1, <2>2, <2>3 DEF OrderSides
  <1>3. QED
    BY <1>1, <1>2, Zenon DEF OrderSides

LEMMA SignedZero ==
    ASSUME NEW s \in OrderSides
    PROVE  Signed(s, 0) = 0
  <1>1. 0 \in Int
    OBVIOUS
  <1>2. QED
    BY <1>1, SignedFacts, Zenon

\* What an answer of n hundredths for an order of side t means for side s.
LEMMA SignedTwice ==
    ASSUME NEW s \in OrderSides, NEW t \in OrderSides, NEW n \in Int
    PROVE  /\ s = t => Signed(s, Signed(t, n)) = n
           /\ s # t => Signed(s, Signed(t, n)) = -n
  BY SignedFacts

\* The exchange matches an order: the one under way, or one the bot gave up on, which
\* then holds what it might have.
LEMMA ExecuteExplained ==
    ASSUME Known, Measured, NEW id \in Ids, NEW count \in FillCounts, Execute(id, count),
           NEW lost \in SUBSET Ids, NEW d \in Amounts, NEW w \in Amounts, NEW r \in Amounts,
           Explains(lost, d, w, r)
    PROVE  Explainable'
  <1>a. /\ TypeOK /\ id \in pending /\ count \in Nat /\ count <= 100 * OrderSize
        /\ OrderSize \in Nat
    BY OrderFlowAssumption DEF Known, Execute
  <1>b. /\ waiting' = waiting /\ order_seq' = order_seq /\ side' = side /\ positions' = positions
        /\ unconfirmed' = unconfirmed /\ failures' = failures
        /\ restarts' = restarts /\ carried' = carried
    BY Zenon DEF Execute, books, runs
  <1>c. /\ undelivered' = [undelivered EXCEPT ![id] = count]
        /\ pending' = pending \ {id} /\ truth' = truth + Signed(side[id], count)
        /\ answer' = IF waiting = id THEN [kind |-> "order", filled |-> count] ELSE answer
    BY Zenon DEF Execute
  <1>d. exposure' = exposure
    BY <1>b, Zenon DEF exposure
  <1>e. ASSUME NEW t, NEW f PROVE Sum(t, f)' = Sum(t, f)
    BY <1>b, Zenon DEF Sum
  <1>1. CASE waiting = id
    <2>1. id \notin lost /\ answer.filled = 0 /\ waiting # 0
      <3>1. Explained(id, lost, d, w, r) /\ AnswerKnown /\ id # 0
        BY DEF Explains, Known, Ids
      <3>2. QED
        BY <3>1, <1>1, <1>a DEF Explained, AnswerKnown, NoAnswer
    <2>2. ASSUME NEW i \in Ids PROVE Explained(i, lost, d, w, r)'
      <3>1. Explained(i, lost, d, w, r)
        BY Zenon DEF Explains
      <3>2. CASE i = id
        BY <3>1, <3>2, <2>1, <1>1, <1>b, Zenon DEF Explained
      <3>3. CASE i # id
        <4>1. undelivered'[i] = undelivered[i] /\ (i \in pending' <=> i \in pending)
          BY <3>3, <1>a, <1>c, Zenon DEF TypeOK
        <4>2. QED
          BY <4>1, <3>1, <1>b, Zenon DEF Explained, Covered
      <3>4. QED
        BY <3>2, <3>3, Zenon
    <2>3. ASSUME NEW s \in OrderSides PROVE Bounded(s, d, w, r)'
      <3> DEFINE m == Signed(s, Signed(side[id], count))
      <3>1. Bounded(s, d, w, r) /\ side[id] \in OrderSides
        BY <1>a, Zenon DEF Explains, TypeOK
      <3>2. m \in Int /\ Filled(s) = 0 /\ Filled(s)' = m
        <4>1. answer'.filled = count /\ waiting' # 0 /\ side'[waiting'] = side[id]
          <5>1. answer' = [kind |-> "order", filled |-> count]
            BY <1>1, <1>c, Zenon
          <5>2. QED
            BY <5>1, <2>1, <1>1, <1>b, Zenon
        <4>2. m \in Int /\ Signed(s, Signed(side[id], 0)) = 0
          BY <3>1, <1>a, SignedFacts
        <4>3. Filled(s)' = m
          BY <4>1, Zenon DEF Filled
        <4>4. Filled(s) = Signed(s, Signed(side[id], 0))
          BY <2>1, <1>1, Zenon DEF Filled
        <4>5. QED
          BY <4>2, <4>3, <4>4, Zenon
      <3>3. /\ Signed(s, truth) \in Int /\ Signed(s, carried) \in Int /\ Signed(s, exposure) \in Int
            /\ Sum(s, d) \in Nat /\ Sum(s, w) \in Nat /\ Sum(Opposite(s), r) \in Nat /\ truth \in Int
        BY Numbers, Zenon
      <3>4. Signed(s, truth)' = Signed(s, truth) + m
        BY <3>1, <3>3, <1>a, <1>c DEF Signed
      <3> HIDE DEF m
      <3>5. Within(Signed(s, truth) + m, Signed(s, carried), Signed(s, exposure), m,
                   Allow(restarts, failures), Sum(s, d), Sum(s, w), Sum(Opposite(s), r))
        BY <3>1, <3>2, <3>3 DEF Bounded, Within
      <3>6. QED
        BY <3>1, <3>2, <3>4, <3>5, <1>b, <1>d, <1>e, Zenon DEF Bounded, Signed
    <2>4. Explains(lost, d, w, r)'
      BY <2>2, <2>3, Zenon DEF Explains
    <2>5. QED
      BY <2>4, Zenon DEF Explainable
  <1>2. CASE waiting # id
    <2> DEFINE c == count \div 100
               d2 == Put(d, id, OrderSize)
               w2 == Put(w, id, 0)
               r2 == Put(r, id, c)
    <2>1. id \in lost /\ w[id] = OrderSize /\ d[id] = 0 /\ Explained(id, lost, d, w, r)
      <3>1. Explained(id, lost, d, w, r)
        BY Zenon DEF Explains
      <3>2. QED
        BY <3>1, <1>2, <1>a, Zenon DEF Explained
    <2>2. c \in 0 .. OrderSize /\ 100 * c <= count /\ count < 100 * (c + 1)
      BY <1>a
    <2> HIDE DEF c
    <2>3. /\ 0 \in 0 .. OrderSize /\ OrderSize \in 0 .. OrderSize
          /\ side[id] \in OrderSides /\ answer' = answer
      BY <1>2, <1>a, <1>c DEF TypeOK
    <2>4. d2 \in Amounts /\ w2 \in Amounts /\ r2 \in Amounts
      BY <2>2, <2>3, PutFacts, Zenon
    <2>5. ASSUME NEW i \in Ids PROVE Explained(i, lost, d2, w2, r2)'
      <3>1. Explained(i, lost, d, w, r)
        BY Zenon DEF Explains
      <3>2. CASE i = id
        <4>1. /\ undelivered'[i] = count /\ i \notin pending'
              /\ d2[i] = OrderSize /\ w2[i] = 0 /\ r2[i] = c
          <5>1. d2[i] = OrderSize /\ w2[i] = 0 /\ r2[i] = c
            BY <3>2, <2>2, <2>3, PutAt, Zenon
          <5>2. QED
            BY <5>1, <3>2, <1>a, <1>c, Zenon DEF TypeOK
        <4>2. QED
          BY <4>1, <3>2, <2>1, <2>2, <1>a, <1>b, ZenonT(60) DEF Explained
      <3>3. CASE i # id
        <4>1. /\ undelivered'[i] = undelivered[i] /\ (i \in pending' <=> i \in pending)
              /\ d2[i] = d[i] /\ w2[i] = w[i] /\ r2[i] = r[i]
          BY <3>3, <2>2, <2>3, <1>a, <1>c, PutFacts DEF TypeOK
        <4>2. QED
          BY <4>1, <3>1, <1>b, ZenonT(60) DEF Explained, Covered
      <3>4. QED
        BY <3>2, <3>3, Zenon
    <2>6. ASSUME NEW s \in OrderSides PROVE Bounded(s, d2, w2, r2)'
      <3>1. Bounded(s, d, w, r) /\ Filled(s)' = Filled(s)
        BY <2>3, <1>b, Zenon DEF Explains, Filled, Signed
      <3>2. /\ Sum(Opposite(s), r) \in Nat /\ Sum(s, d) \in Nat /\ Sum(s, w) \in Nat
            /\ exposure \in Int /\ carried \in Int /\ truth \in Int /\ Filled(s) \in Int
            /\ Allow(restarts, failures) \in Nat /\ MaxPosition \in Nat
        BY Numbers, Zenon
      <3>3. /\ Signed(s, truth) \in Int /\ Signed(s, carried) \in Int /\ Signed(s, exposure) \in Int
            /\ Signed(s, carried)' = Signed(s, carried) /\ Signed(s, exposure)' = Signed(s, exposure)
            /\ Allow(restarts, failures)' = Allow(restarts, failures)
        BY <3>2, <1>b, <1>d DEF Signed, Allow
      <3>4. /\ s = side[id] => Signed(s, truth)' = Signed(s, truth) + count
            /\ s # side[id] => Signed(s, truth)' = Signed(s, truth) - count
        BY <3>2, <2>3, <1>a, <1>c DEF Signed, OrderSides
      <3>5. /\ Sum(s, d2)' = Sum(s, d2) /\ Sum(s, w2)' = Sum(s, w2)
            /\ Sum(Opposite(s), r2)' = Sum(Opposite(s), r2)
        BY <1>b, ZenonT(60) DEF Sum, Opposite
      <3>6. /\ s = side[id] => /\ Sum(s, d2) = Sum(s, d) + OrderSize
                               /\ Sum(s, w2) = Sum(s, w) - OrderSize
                               /\ Sum(Opposite(s), r2) = Sum(Opposite(s), r)
            /\ s # side[id] => /\ Sum(s, d2) = Sum(s, d) /\ Sum(s, w2) = Sum(s, w)
                               /\ Sum(Opposite(s), r2) <= Sum(Opposite(s), r) + c
        <4>1. Opposite(s) \in OrderSides /\ (s = side[id] <=> Opposite(s) # side[id])
          BY <2>3, Zenon DEF Opposite, OrderSides
        <4>2. /\ side[id] = s => Sum(s, d2) = Sum(s, d) + (OrderSize - d[id])
              /\ side[id] # s => Sum(s, d2) = Sum(s, d)
          <5>1. SumMoves(s, d, id, OrderSize)
            BY <2>3, <1>a, AmountEnds, SumUpdate, Zenon
          <5>2. QED
            BY <5>1, Zenon DEF SumMoves
        <4>3. /\ side[id] = s => Sum(s, w2) = Sum(s, w) + (0 - w[id])
              /\ side[id] # s => Sum(s, w2) = Sum(s, w)
          <5>1. SumMoves(s, w, id, 0)
            BY <2>3, <1>a, AmountEnds, SumUpdate, Zenon
          <5>2. QED
            BY <5>1, Zenon DEF SumMoves
        <4>4. /\ side[id] = Opposite(s) => Sum(Opposite(s), r2) = Sum(Opposite(s), r) + (c - r[id])
              /\ side[id] # Opposite(s) => Sum(Opposite(s), r2) = Sum(Opposite(s), r)
              /\ r[id] \in 0 .. OrderSize
          <5>1. SumMoves(Opposite(s), r, id, c) /\ r[id] \in 0 .. OrderSize
            BY <4>1, <2>2, <1>a, SumUpdate, Zenon
          <5>2. QED
            BY <5>1, Zenon DEF SumMoves
        <4>5. QED
          BY <4>1, <4>2, <4>3, <4>4, <3>2, <2>1, <2>2, <1>a
      <3>n. Sum(s, d2) \in Nat /\ Sum(s, w2) \in Nat /\ Sum(Opposite(s), r2) \in Nat
        BY <2>4, Numbers, ZenonT(60)
      <3> HIDE DEF d2, w2, r2
      <3>7. Within(Signed(s, truth)', Signed(s, carried), Signed(s, exposure), Filled(s),
                   Allow(restarts, failures), Sum(s, d2), Sum(s, w2), Sum(Opposite(s), r2))
        BY <3>1, <3>2, <3>3, <3>4, <3>6, <3>n, <2>2, <1>a DEF Bounded, Within
      <3>8. QED
        BY <3>1, <3>3, <3>5, <3>7, <1>b, Zenon DEF Bounded
    <2>7. Explains(lost, d2, w2, r2)'
      BY <2>5, <2>6, Zenon DEF Explains
    <2>8. QED
      BY <2>4, <2>7, Zenon DEF Explainable
  <1>3. QED
    BY <1>1, <1>2, Zenon

\* The exchange refuses an order: nothing more will come of it.
LEMMA RejectExplained ==
    ASSUME Known, Measured, NEW id \in Ids, Reject(id),
           NEW lost \in SUBSET Ids, NEW d \in Amounts, NEW w \in Amounts, NEW r \in Amounts,
           Explains(lost, d, w, r)
    PROVE  Explainable'
  <1>a. TypeOK /\ id \in pending /\ OrderSize \in Nat /\ 0 \in 0 .. OrderSize
    BY OrderFlowAssumption DEF Known, Reject
  <1>b. /\ waiting' = waiting /\ order_seq' = order_seq /\ side' = side /\ positions' = positions
        /\ unconfirmed' = unconfirmed /\ failures' = failures /\ undelivered' = undelivered
        /\ restarts' = restarts /\ carried' = carried /\ truth' = truth
    BY Zenon DEF Reject, books, runs
  <1>c. /\ pending' = pending \ {id}
        /\ answer' = IF waiting = id THEN [kind |-> "error", filled |-> 0] ELSE answer
    BY Zenon DEF Reject
  <1>d. exposure' = exposure
    BY <1>b, Zenon DEF exposure
  <1>e. ASSUME NEW t, NEW f PROVE Sum(t, f)' = Sum(t, f)
    BY <1>b, Zenon DEF Sum
  <1>f. answer'.filled = answer.filled
    <2>1. CASE waiting = id
      <3>1. answer = NoAnswer /\ answer' = [kind |-> "error", filled |-> 0]
        BY <2>1, <1>a, <1>c, Zenon DEF Known, AnswerKnown
      <3>2. QED
        BY <3>1, Zenon DEF NoAnswer
    <2>2. QED
      BY <2>1, <1>c, Zenon
  <1>g. ASSUME NEW s \in OrderSides PROVE Filled(s)' = Filled(s)
    BY <1>b, <1>f, Zenon DEF Filled
  <1> DEFINE w2 == Put(w, id, 0)
  <1>1. w2 \in Amounts /\ w2[id] = 0 /\ w[id] \in Nat /\ \A i \in Ids : i # id => w2[i] = w[i]
    BY <1>a, PutFacts
  <1>2. ASSUME NEW i \in Ids PROVE Explained(i, lost, d, w2, r)'
    <2>1. Explained(i, lost, d, w, r)
      BY Zenon DEF Explains
    <2>2. CASE i = id
      BY <2>1, <2>2, <1>1, <1>a, <1>b, <1>c, Zenon DEF Explained
    <2>3. CASE i # id
      <3>1. (i \in pending' <=> i \in pending) /\ w2[i] = w[i]
        BY <2>3, <1>1, <1>c, Zenon
      <3> HIDE DEF w2
      <3>2. QED
        BY <3>1, <2>1, <1>b, Zenon DEF Explained, Covered
    <2>4. QED
      BY <2>2, <2>3, Zenon
  <1>3. ASSUME NEW s \in OrderSides PROVE Bounded(s, d, w2, r)'
    <2>1. Bounded(s, d, w, r) /\ Filled(s)' = Filled(s)
      BY <1>g, Zenon DEF Explains
    <2>2. Sum(s, w2) <= Sum(s, w) /\ Sum(s, w2) \in Nat /\ Sum(s, w) \in Nat
      <3>1. Sum(s, w2) \in Nat /\ Sum(s, w) \in Nat
        BY <1>1, Numbers, Zenon
      <3>2. /\ side[id] = s => Sum(s, w2) = Sum(s, w) + (0 - w[id])
            /\ side[id] # s => Sum(s, w2) = Sum(s, w)
        <4>1. SumMoves(s, w, id, 0)
          BY <1>a, AmountEnds, SumUpdate, Zenon
        <4>2. QED
          BY <4>1, Zenon DEF SumMoves
      <3> HIDE DEF w2
      <3>3. QED
        BY <3>1, <3>2, <1>1
    <2>3. /\ Signed(s, truth) \in Int /\ Signed(s, carried) \in Int /\ Signed(s, exposure) \in Int
          /\ Sum(s, d) \in Nat /\ Sum(Opposite(s), r) \in Nat /\ Filled(s) \in Int
          /\ Allow(restarts, failures) \in Nat /\ MaxPosition \in Nat
      BY Numbers, ZenonT(60)
    <2> HIDE DEF w2
    <2>4. Within(Signed(s, truth), Signed(s, carried), Signed(s, exposure), Filled(s),
                 Allow(restarts, failures), Sum(s, d), Sum(s, w2), Sum(Opposite(s), r))
      BY <2>1, <2>2, <2>3 DEF Bounded, Within
    <2>5. QED
      BY <2>1, <2>4, <1>b, <1>d, <1>e, Zenon DEF Bounded
  <1>4. Explains(lost, d, w2, r)'
    BY <1>2, <1>3, Zenon DEF Explains
  <1>5. QED
    BY <1>1, <1>4, Zenon DEF Explainable

\* Lost fills leave less to report.
LEMMA LoseFillsExplained ==
    ASSUME Known, Measured, LoseFills,
           NEW lost \in SUBSET Ids, NEW d \in Amounts, NEW w \in Amounts, NEW r \in Amounts,
           Explains(lost, d, w, r)
    PROVE  Explainable'
  <1>a. /\ waiting' = waiting /\ order_seq' = order_seq /\ side' = side /\ positions' = positions
        /\ unconfirmed' = unconfirmed /\ failures' = failures /\ answer' = answer
        /\ restarts' = restarts /\ carried' = carried /\ truth' = truth /\ pending' = pending
        /\ undelivered' = [id \in Ids |-> 0]
    BY Zenon DEF LoseFills, books, runs
  <1>1. ASSUME NEW i \in Ids PROVE Explained(i, lost, d, w, r)'
    <2>1. Explained(i, lost, d, w, r) /\ d[i] \in Nat /\ r[i] \in Nat /\ undelivered[i] \in Nat
      BY DEF Explains, Amounts, Known, TypeOK
    <2>2. undelivered'[i] = 0 /\ unconfirmed[i] \in Int /\ Signed(side[i], unconfirmed[i]) \in Int
      BY <1>a, OrderFlowAssumption DEF Known, TypeOK, Signed, Holding
    <2>3. QED
      BY <2>1, <2>2, <1>a DEF Explained, Covered
  <1>2. ASSUME NEW s \in OrderSides PROVE Bounded(s, d, w, r)'
    <2>1. Bounded(s, d, w, r)
      BY Zenon DEF Explains
    <2>2. exposure' = exposure /\ Filled(s)' = Filled(s)
      BY <1>a, Zenon DEF exposure, Filled
    <2>3. ASSUME NEW t, NEW f PROVE Sum(t, f)' = Sum(t, f)
      BY <1>a, Zenon DEF Sum
    <2>4. QED
      BY <2>1, <2>2, <2>3, <1>a, Zenon DEF Bounded
  <1>3. Explains(lost, d, w, r)'
    BY <1>1, <1>2, Zenon DEF Explains
  <1>4. QED
    BY <1>3, Zenon DEF Explainable

\* submit admits an order only if a full fill keeps the exposure within the limit.
LEMMA SubmitExplained ==
    ASSUME Known, Measured, NEW t \in OrderSides, Submit(t),
           NEW lost \in SUBSET Ids, NEW d \in Amounts, NEW w \in Amounts, NEW r \in Amounts,
           Explains(lost, d, w, r)
    PROVE  Explainable'
  <1> DEFINE k == order_seq + 1
  <1>a. /\ waiting = 0 /\ order_seq \in Nat /\ k \in Ids /\ order_seq' = k
        /\ waiting' = k /\ answer = NoAnswer /\ WithinLimit(t) /\ k # 0
    BY OrderFlowAssumption DEF Submit, Post, Known, TypeOK, AnswerKnown, Ids
  <1>b. /\ positions' = positions /\ unconfirmed' = unconfirmed /\ undelivered' = undelivered
        /\ failures' = failures /\ restarts' = restarts /\ carried' = carried /\ truth' = truth
        /\ answer' = answer
    BY Zenon DEF Submit, Post, books, runs
  <1>c. side' = [side EXCEPT ![k] = t] /\ pending' = pending \union {k}
    BY Zenon DEF Submit, Post
  <1>d. side \in [Ids -> OrderSides]
    BY Zenon DEF Known, TypeOK
  <1>e. exposure' = exposure
    BY <1>b, Zenon DEF exposure
  <1>f. k \notin lost /\ d[k] = 0 /\ w[k] = 0 /\ r[k] = 0
    <2>1. Explained(k, lost, d, w, r) /\ ~(k <= order_seq)
      BY <1>a, NextIsAbove, Zenon DEF Explains
    <2> HIDE DEF k
    <2>2. QED
      BY <2>1, Zenon DEF Explained
  <1>g. side'[k] = t /\ \A i \in Ids : i # k => side'[i] = side[i]
    BY <1>a, <1>c, <1>d, Zenon
  <1> HIDE DEF k
  <1>1. ASSUME NEW i \in Ids PROVE Explained(i, lost, d, w, r)'
    <2>1. Explained(i, lost, d, w, r) /\ i # 0 /\ i \in Nat
      BY DEF Explains, Ids
    <2>2. CASE i = k
      BY <2>2, <1>a, <1>f, Zenon DEF Explained
    <2>3. CASE i # k
      <3>1. /\ side'[i] = side[i] /\ (i \in pending' <=> i \in pending) /\ i # waiting /\ i # waiting'
            /\ (i <= order_seq => i <= order_seq')
        BY <2>1, <2>3, <1>a, <1>c, <1>g DEF k
      <3>2. QED
        BY <3>1, <2>1, <1>b, Zenon DEF Explained, Covered
    <2>4. QED
      BY <2>2, <2>3, Zenon
  <1>2. ASSUME NEW s \in OrderSides PROVE Bounded(s, d, w, r)'
    <2>1. Bounded(s, d, w, r) /\ Filled(s) = 0
      BY <1>a, Zenon DEF Explains, Filled
    <2>2. Filled(s)' = 0
      <3>1. Filled(s)' = Signed(s, Signed(t, 0))
        BY <1>a, <1>b, <1>g, Zenon DEF Filled, NoAnswer
      <3>2. QED
        BY <3>1, SignedFacts
    <2>3. /\ Sum(s, d)' = Sum(s, d) /\ Sum(s, w)' = Sum(s, w)
          /\ Sum(Opposite(s), r)' = Sum(Opposite(s), r)
      <3>1. /\ Part(s, [side EXCEPT ![k] = t], d) = Part(s, side, d)
            /\ Part(s, [side EXCEPT ![k] = t], w) = Part(s, side, w)
        BY <1>a, <1>d, <1>f, Zenon DEF Part
      <3>2. Opposite(s) \in OrderSides
        BY Zenon DEF Opposite, OrderSides
      <3>3. Part(Opposite(s), [side EXCEPT ![k] = t], r) = Part(Opposite(s), side, r)
        BY <3>2, <1>a, <1>d, <1>f, Zenon DEF Part
      <3>4. QED
        BY <3>1, <3>3, <1>c, Zenon DEF Sum
    <2>4. waiting' # 0 /\ side'[waiting'] = s => Signed(s, exposure) + OrderSize <= MaxPosition
      <3>1. s = t => Signed(s, exposure) + OrderSize <= MaxPosition
        <4>1. exposure \in Int /\ OrderSize \in Nat /\ MaxPosition \in Nat
          BY Numbers, Zenon
        <4>2. QED
          BY <4>1, <1>a DEF WithinLimit, Signed
      <3>2. QED
        BY <3>1, <1>a, <1>g, Zenon
    <2>5. QED
      BY <2>1, <2>2, <2>3, <2>4, <1>b, <1>e, Zenon DEF Bounded
  <1>3. Explains(lost, d, w, r)'
    BY <1>1, <1>2, Zenon DEF Explains
  <1>4. QED
    BY <1>3, ZenonT(60) DEF Explainable

\* The order under way was refused or not sent: it holds nothing.
LEMMA NothingExecuted ==
    ASSUME Known, Measured, waiting # 0, answer.filled = 0,
           waiting' = 0, pending' = pending \ {waiting},
           UNCHANGED <<truth, undelivered, failures, runs, order_seq, side, positions, unconfirmed>>,
           NEW lost \in SUBSET Ids, NEW d \in Amounts, NEW w \in Amounts, NEW r \in Amounts,
           Explains(lost, d, w, r)
    PROVE  Explainable'
  <1>a. /\ order_seq' = order_seq /\ side' = side /\ positions' = positions /\ truth' = truth
        /\ unconfirmed' = unconfirmed /\ failures' = failures /\ undelivered' = undelivered
        /\ restarts' = restarts /\ carried' = carried
    BY Zenon DEF runs
  <1>b. waiting \in Ids /\ unconfirmed[waiting] = 0 /\ undelivered[waiting] <= 0
    BY Zenon DEF Known, TypeOK, AnswerKnown, Measured
  <1>1. ASSUME NEW i \in Ids PROVE Explained(i, lost, d, w, r)'
    <2>1. Explained(i, lost, d, w, r) /\ i # 0
      BY DEF Explains, Ids
    <2>2. CASE i = waiting
      <3>1. Covered(i)'
        BY <2>2, <1>a, <1>b DEF Covered, Signed
      <3>2. QED
        BY <3>1, <2>1, <2>2, Zenon DEF Explained
    <2>3. CASE i # waiting
      BY <2>1, <2>3, <1>a, ZenonT(60) DEF Explained, Covered
    <2>4. QED
      BY <2>2, <2>3, Zenon
  <1>2. ASSUME NEW s \in OrderSides PROVE Bounded(s, d, w, r)'
    <2>1. Bounded(s, d, w, r) /\ exposure' = exposure /\ Filled(s)' = 0
      BY <1>a, Zenon DEF Explains, exposure, Filled
    <2>2. Filled(s) = 0
      <3>1. side[waiting] \in OrderSides /\ Filled(s) = Signed(s, Signed(side[waiting], 0))
        BY <1>b, Zenon DEF Filled, Known, TypeOK
      <3>2. QED
        BY <3>1, SignedFacts
    <2>3. ASSUME NEW t, NEW f PROVE Sum(t, f)' = Sum(t, f)
      BY <1>a, Zenon DEF Sum
    <2>4. QED
      BY <2>1, <2>2, <2>3, <1>a, Zenon DEF Bounded
  <1>3. Explains(lost, d, w, r)'
    BY <1>1, <1>2, Zenon DEF Explains
  <1>4. QED
    BY <1>3, Zenon DEF Explainable

\* Hundredths in whole contracts.
LEMMA WholePart ==
    ASSUME NEW u \in Nat, u <= 100 * OrderSize
    PROVE  \E c \in 0 .. OrderSize : 100 * c <= u /\ u < 100 * (c + 1)
  <1>1. /\ u \div 100 \in 0 .. OrderSize
        /\ 100 * (u \div 100) <= u /\ u < 100 * ((u \div 100) + 1)
    BY OrderFlowAssumption
  <1>2. QED
    BY <1>1, Zenon

\* The answer is lost or dropped: its order becomes one of the lost ones, which may
\* hold what was ordered now or, if it is still pending, later.
LEMMA AnswerLost ==
    ASSUME Known, Measured, NEW id \in Ids, waiting = id, waiting' = 0, failures' = failures + 1,
           UNCHANGED <<exchange, runs, order_seq, side, positions, unconfirmed>>,
           NEW lost \in SUBSET Ids, NEW d \in Amounts, NEW w \in Amounts, NEW r \in Amounts,
           Explains(lost, d, w, r)
    PROVE  Explainable'
  <1>a. /\ order_seq' = order_seq /\ side' = side /\ positions' = positions /\ truth' = truth
        /\ unconfirmed' = unconfirmed /\ undelivered' = undelivered /\ pending' = pending
        /\ restarts' = restarts /\ carried' = carried
    BY ZenonT(60) DEF runs, exchange
  <1>b. /\ id # 0 /\ id = order_seq /\ order_seq \in Nat /\ unconfirmed[id] = 0
        /\ side[id] \in OrderSides /\ undelivered[id] \in Nat /\ undelivered[id] <= answer.filled
        /\ answer.filled \in 0 .. 100 * OrderSize
        /\ (id \in pending => answer.filled = 0) /\ OrderSize \in Nat /\ TypeOK
    <2>1. id \in pending => answer.filled = 0
      BY DEF Known, AnswerKnown, NoAnswer
    <2>2. id # 0
      BY DEF Ids
    <2>3. QED
      BY <2>1, <2>2, OrderFlowAssumption DEF Known, AnswerKnown, Measured, TypeOK
  <1>c. PICK c \in 0 .. OrderSize : 100 * c <= undelivered[id] /\ undelivered[id] < 100 * (c + 1)
    <2>1. undelivered[id] \in Nat /\ undelivered[id] <= 100 * OrderSize
      BY <1>b
    <2>2. QED
      BY <2>1, WholePart, Zenon
  <1>d. PICK dv \in 0 .. OrderSize, wv \in 0 .. OrderSize :
          /\ dv + wv = OrderSize
          /\ IF id \in pending THEN dv = 0 /\ wv = OrderSize ELSE dv = OrderSize /\ wv = 0
    <2>1. 0 \in 0 .. OrderSize /\ OrderSize \in 0 .. OrderSize /\ 0 + OrderSize = OrderSize
          /\ OrderSize + 0 = OrderSize
      BY <1>b
    <2>2. QED
      BY <2>1, Zenon
  <1>g. undelivered[id] <= 100 * dv /\ answer.filled <= 100 * dv
    BY <1>b, <1>d
  <1> DEFINE d2 == Put(d, id, dv)
             w2 == Put(w, id, wv)
             r2 == Put(r, id, c)
             lost2 == lost \union {id}
             t == side[id]
  <1>e. id \notin lost /\ d[id] = 0 /\ w[id] = 0 /\ r[id] = 0
    <2>1. Explained(id, lost, d, w, r)
      BY <1>b, Zenon DEF Explains
    <2>2. QED
      BY <2>1, Zenon DEF Explained
  <1>f. /\ d2 \in Amounts /\ w2 \in Amounts /\ r2 \in Amounts /\ lost2 \in SUBSET Ids
        /\ d2[id] = dv /\ w2[id] = wv /\ r2[id] = c
        /\ \A i \in Ids : i # id => d2[i] = d[i] /\ w2[i] = w[i] /\ r2[i] = r[i]
    <2>1. d2 \in Amounts /\ d2[id] = dv /\ \A i \in Ids : i # id => d2[i] = d[i]
      BY PutFacts
    <2>2. w2 \in Amounts /\ w2[id] = wv /\ \A i \in Ids : i # id => w2[i] = w[i]
      BY PutFacts
    <2>3. r2 \in Amounts /\ r2[id] = c /\ \A i \in Ids : i # id => r2[i] = r[i]
      BY PutFacts
    <2>4. QED
      BY <2>1, <2>2, <2>3, Zenon
  <1>1. ASSUME NEW i \in Ids PROVE Explained(i, lost2, d2, w2, r2)'
    <2>1. Explained(i, lost, d, w, r) /\ i # 0
      BY DEF Explains, Ids
    <2>2. CASE i = id
      <3> HIDE DEF d2, w2, r2
      <3>1. QED
        BY <2>1, <2>2, <1>a, <1>b, <1>c, <1>d, <1>f, <1>g DEF Explained
    <2>3. CASE i # id
      <3>1. (i \in lost2 <=> i \in lost) /\ d2[i] = d[i] /\ w2[i] = w[i] /\ r2[i] = r[i]
        BY <2>3, <1>f, Zenon
      <3> HIDE DEF d2, w2, r2, lost2
      <3>2. QED
        BY <3>1, <2>1, <2>3, <1>a, Zenon DEF Explained, Covered
    <2>4. QED
      BY <2>2, <2>3, Zenon
  <1>2. ASSUME NEW s \in OrderSides PROVE Bounded(s, d2, w2, r2)'
    <2>1. Bounded(s, d, w, r) /\ exposure' = exposure /\ Filled(s)' = 0
      BY <1>a, Zenon DEF Explains, exposure, Filled
    <2>2. /\ s = t => Filled(s) = answer.filled
          /\ s # t => Filled(s) = -answer.filled
      <3>1. Filled(s) = Signed(s, Signed(t, answer.filled)) /\ answer.filled \in Int /\ t \in OrderSides
        BY <1>b DEF Filled
      <3> HIDE DEF t
      <3>2. QED
        BY <3>1, SignedTwice, ZenonT(60)
    <2>3. /\ Signed(s, truth) \in Int /\ Signed(s, carried) \in Int /\ Signed(s, exposure) \in Int
          /\ Sum(s, d) \in Nat /\ Sum(s, w) \in Nat /\ Sum(Opposite(s), r) \in Nat
          /\ Allow(restarts, failures) \in Nat /\ MaxPosition \in Nat
          /\ restarts \in Nat /\ failures \in Nat
      BY Numbers, Zenon
    <2>4. Sum(s, d2) \in Nat /\ Sum(s, w2) \in Nat /\ Sum(Opposite(s), r2) \in Nat
      BY <1>f, Numbers, Zenon
    <2>5. Allow(restarts, failures)' = Allow(restarts, failures) + 100 * OrderSize
      <3>1. Allow(restarts, failures + 1) = Allow(restarts, failures) + 100 * OrderSize
        <4>1. Grows(restarts, failures)
          BY <2>3, AllowGrows, Zenon
        <4>2. QED
          BY <4>1, Zenon DEF Grows
      <3>2. QED
        BY <3>1, <1>a, Zenon DEF Allow
    <2>6. ASSUME NEW x, NEW f PROVE Sum(x, f)' = Sum(x, f)
      BY <1>a, Zenon DEF Sum
    <2>7. Opposite(s) \in OrderSides /\ (s = t <=> Opposite(s) # t)
      BY <1>b, ZenonT(60) DEF Opposite, OrderSides
    <2> HIDE DEF t
    <2>8. /\ t = s => Sum(s, d2) = Sum(s, d) + dv /\ Sum(s, w2) = Sum(s, w) + wv
                      /\ Sum(Opposite(s), r2) = Sum(Opposite(s), r)
          /\ t # s => Sum(s, d2) = Sum(s, d) /\ Sum(s, w2) = Sum(s, w)
                      /\ Sum(Opposite(s), r2) = Sum(Opposite(s), r) + c
      <3>1. /\ t = s => Sum(s, d2) = Sum(s, d) + (dv - d[id])
            /\ t # s => Sum(s, d2) = Sum(s, d)
        <4>1. SumMoves(s, d, id, dv)
          BY <1>b, <1>d, SumUpdate, Zenon
        <4>2. QED
          BY <4>1, Zenon DEF SumMoves, t
      <3>2. /\ t = s => Sum(s, w2) = Sum(s, w) + (wv - w[id])
            /\ t # s => Sum(s, w2) = Sum(s, w)
        <4>1. SumMoves(s, w, id, wv)
          BY <1>b, <1>d, SumUpdate, Zenon
        <4>2. QED
          BY <4>1, Zenon DEF SumMoves, t
      <3>3. /\ t = Opposite(s) => Sum(Opposite(s), r2) = Sum(Opposite(s), r) + (c - r[id])
            /\ t # Opposite(s) => Sum(Opposite(s), r2) = Sum(Opposite(s), r)
        <4>1. SumMoves(Opposite(s), r, id, c)
          BY <2>7, <1>b, <1>c, SumUpdate, Zenon
        <4>2. QED
          BY <4>1, Zenon DEF SumMoves, t
      <3> HIDE DEF d2, w2, r2
      <3>4. /\ Sum(s, d) + (dv - d[id]) = Sum(s, d) + dv /\ Sum(s, w) + (wv - w[id]) = Sum(s, w) + wv
            /\ Sum(Opposite(s), r) + (c - r[id]) = Sum(Opposite(s), r) + c
        <4>1. dv \in Int /\ wv \in Int /\ c \in Int
              /\ Sum(s, d) \in Int /\ Sum(s, w) \in Int /\ Sum(Opposite(s), r) \in Int
          BY <2>3
        <4>2. Sum(s, d) + (dv - d[id]) = Sum(s, d) + dv
          BY <4>1, <1>e, FromZero, ZenonT(60)
        <4>3. Sum(s, w) + (wv - w[id]) = Sum(s, w) + wv
          BY <4>1, <1>e, FromZero, ZenonT(60)
        <4>4. Sum(Opposite(s), r) + (c - r[id]) = Sum(Opposite(s), r) + c
          BY <4>1, <1>e, FromZero, ZenonT(60)
        <4>5. QED
          BY <4>2, <4>3, <4>4, Zenon
      <3>5. CASE t = s
        BY <3>1, <3>2, <3>3, <3>4, <3>5, <2>7, Zenon
      <3>6. CASE t # s
        BY <3>1, <3>2, <3>3, <3>4, <3>6, <2>7, Zenon
      <3>7. QED
        BY <3>5, <3>6, Zenon
    <2> HIDE DEF d2, w2, r2
    <2>9. Within(Signed(s, truth), Signed(s, carried), Signed(s, exposure), 0,
                 Allow(restarts, failures) + 100 * OrderSize,
                 Sum(s, d2), Sum(s, w2), Sum(Opposite(s), r2))
      <3>1. Within(Signed(s, truth), Signed(s, carried), Signed(s, exposure), Filled(s),
                   Allow(restarts, failures), Sum(s, d), Sum(s, w), Sum(Opposite(s), r))
        BY <2>1, Zenon DEF Bounded
      <3>a. dv \in Nat /\ wv \in Nat /\ c \in Nat /\ Filled(s) \in Int
        BY <2>2, <1>b
      <3>2. CASE t = s
        <4>1. Filled(s) <= 100 * dv
          BY <3>2, <2>2, <1>g, ZenonT(60)
        <4>2. Within(Signed(s, truth), Signed(s, carried), Signed(s, exposure), 0,
                     Allow(restarts, failures) + 100 * OrderSize,
                     Sum(s, d) + dv, Sum(s, w) + wv, Sum(Opposite(s), r))
          <5>1. dv + wv = OrderSize
            BY <1>d, Zenon
          <5>2. QED
            BY <5>1, <4>1, <3>a, <3>1, <2>3, OrderFlowAssumption DEF Within
        <4>3. QED
          BY <4>2, <3>2, <2>8, Zenon
      <3>3. CASE t # s
        <4>1. Filled(s) + 100 * c <= 0
          <5>1. answer.filled \in Nat
            BY <1>b
          <5>2. Filled(s) = -answer.filled
            BY <3>3, <2>2, Zenon
          <5>3. 100 * c <= answer.filled
            BY <5>1, <3>a, <1>b, <1>c
          <5>4. QED
            BY <5>1, <5>2, <5>3, <3>a
        <4>2. Within(Signed(s, truth), Signed(s, carried), Signed(s, exposure), 0,
                     Allow(restarts, failures) + 100 * OrderSize,
                     Sum(s, d), Sum(s, w), Sum(Opposite(s), r) + c)
          BY <4>1, <3>a, <3>1, <2>3, WithinLostOther, ZenonT(60)
        <4>3. QED
          BY <4>2, <3>3, <2>8, ZenonT(60)
      <3>4. QED
        BY <3>2, <3>3, Zenon
    <2>10. QED
      BY <2>1, <2>5, <2>6, <2>9, <1>a, Zenon DEF Bounded
  <1> HIDE DEF d2, w2, r2, lost2
  <1>3. Explains(lost2, d2, w2, r2)'
    BY <1>1, <1>2, Zenon DEF Explains
  <1>4. QED
    BY <1>3, <1>f, Zenon DEF Explainable

\* The answer is read: what it says moves from the order under way to the exposure,
\* or it says that nothing was executed, or it is dropped.
LEMMA OnResponseExplained ==
    ASSUME Known, Measured, OnResponse,
           NEW lost \in SUBSET Ids, NEW d \in Amounts, NEW w \in Amounts, NEW r \in Amounts,
           Explains(lost, d, w, r)
    PROVE  Explainable'
  <1>a. PICK id \in Ids : waiting = id
    BY Zenon DEF OnResponse, Known, TypeOK
  <1>b. /\ waiting' = 0 /\ waiting # 0 /\ order_seq' = order_seq /\ side' = side
        /\ positions' = positions /\ restarts' = restarts /\ carried' = carried
        /\ truth' = truth /\ pending' = pending /\ executed' = executed /\ undelivered' = undelivered
    BY Zenon DEF OnResponse, exchange, runs
  <1>c. /\ id \notin pending /\ TypeOK /\ unconfirmed[id] = 0 /\ side[id] \in OrderSides
        /\ answer.filled \in 0 .. 100 * OrderSize /\ OrderSize \in Nat
        /\ undelivered[id] \in Nat /\ undelivered[id] <= answer.filled
    BY <1>a, OrderFlowAssumption, Zenon DEF OnResponse, Known, AnswerKnown, TypeOK, Measured
  <1>1. CASE answer.kind = "order" /\ IsWhole(answer.filled)
    <2>1. PICK n \in 0 .. OrderSize : n = parse_contracts(answer.filled) /\ answer.filled = 100 * n
      <3>1. answer.filled \in 0 .. 100 * OrderSize /\ answer.filled % 100 = 0
        BY <1>1, <1>c, Zenon DEF IsWhole
      <3>2. /\ parse_contracts(answer.filled) \in 0 .. OrderSize
            /\ answer.filled = 100 * parse_contracts(answer.filled)
        BY <3>1, WholeContracts, ZenonT(60) DEF parse_contracts
      <3>3. QED
        BY <3>2, Zenon
    <2>2. Signed(side[id], n) \in Holding /\ Signed(side[id], Signed(side[id], n)) = n
      BY <1>c DEF Signed, Holding
    <2>3. failures' = failures /\ unconfirmed' = [unconfirmed EXCEPT ![id] = Signed(side[id], n)]
      <3>1. /\ failures' = failures
            /\ unconfirmed' = [unconfirmed EXCEPT ![id] = unconfirmed[id] + Signed(side[id], n)]
        BY <1>1, <1>a, <2>1, ZenonT(60) DEF OnResponse
      <3>2. unconfirmed[id] + Signed(side[id], n) = Signed(side[id], n)
        BY <1>c, <2>2 DEF Holding
      <3>3. QED
        BY <3>1, <3>2, Zenon
    <2>4. exposure' = exposure + Signed(side[id], n)
      <3>1. unconfirmed \in [Ids -> Holding] /\ positions \in Int
        BY <1>c, Zenon DEF TypeOK
      <3>2. /\ Total(unconfirmed) \in Int
            /\ Total(unconfirmed') = Total(unconfirmed) - unconfirmed[id] + Signed(side[id], n)
        BY <3>1, <2>2, <2>3, TotalUpdate, ZenonT(60)
      <3>3. QED
        BY <3>1, <3>2, <2>2, <1>b, <1>c DEF exposure, Holding
    <2>5. ASSUME NEW i \in Ids PROVE Explained(i, lost, d, w, r)'
      <3>1. Explained(i, lost, d, w, r) /\ i # 0
        BY DEF Explains, Ids
      <3>2. CASE i = id
        <4>1. unconfirmed'[i] = Signed(side[i], n)
          BY <3>2, <2>3, <1>c, ZenonT(60) DEF TypeOK
        <4>2. Covered(i)'
          BY <4>1, <3>2, <2>1, <2>2, <1>b, <1>c DEF Covered
        <4>3. QED
          BY <4>2, <3>1, <3>2, <1>a, <1>b, <1>c, Zenon DEF Explained
      <3>3. CASE i # id
        <4>1. unconfirmed'[i] = unconfirmed[i]
          BY <3>3, <2>3, <1>c, Zenon DEF TypeOK
        <4>2. QED
          BY <4>1, <3>1, <3>3, <1>a, <1>b, Zenon DEF Explained, Covered
      <3>4. QED
        BY <3>2, <3>3, Zenon
    <2>6. ASSUME NEW s \in OrderSides PROVE Bounded(s, d, w, r)'
      <3>1. Bounded(s, d, w, r) /\ Filled(s)' = 0
        BY <1>b, Zenon DEF Explains, Filled
      <3>2. /\ s = side[id] => Filled(s) = answer.filled
            /\ s # side[id] => Filled(s) = -answer.filled
        <4>1. Filled(s) = Signed(s, Signed(side[id], answer.filled)) /\ answer.filled \in Int
          BY <1>a, <1>b, <1>c DEF Filled
        <4>2. QED
          BY <4>1, <1>c, SignedTwice, ZenonT(60)
      <3>3. /\ Signed(s, truth) \in Int /\ Signed(s, carried) \in Int /\ Signed(s, exposure) \in Int
            /\ Sum(s, d) \in Nat /\ Sum(s, w) \in Nat /\ Sum(Opposite(s), r) \in Nat
            /\ Allow(restarts, failures) \in Nat /\ MaxPosition \in Nat /\ exposure \in Int
        BY Numbers, Zenon
      <3>4. /\ s = side[id] => Signed(s, exposure)' = Signed(s, exposure) + n
            /\ s # side[id] => Signed(s, exposure)' = Signed(s, exposure) - n
        BY <3>3, <2>4, <1>c DEF Signed, OrderSides
      <3>5. ASSUME NEW x, NEW f PROVE Sum(x, f)' = Sum(x, f)
        BY <1>b, Zenon DEF Sum
      <3>6. Within(Signed(s, truth), Signed(s, carried), Signed(s, exposure)', 0,
                   Allow(restarts, failures), Sum(s, d), Sum(s, w), Sum(Opposite(s), r))
        <4>1. Within(Signed(s, truth), Signed(s, carried), Signed(s, exposure), Filled(s),
                     Allow(restarts, failures), Sum(s, d), Sum(s, w), Sum(Opposite(s), r))
          BY <3>1, Zenon DEF Bounded
        <4>2. CASE s = side[id]
          <5>1. Signed(s, exposure) + OrderSize <= MaxPosition
            BY <4>2, <3>1, <1>a, <1>b, ZenonT(60) DEF Bounded
          <5>2. n \in Nat /\ Signed(s, exposure) + n <= MaxPosition
            BY <5>1, <3>3, <1>c
          <5>3. Filled(s) = 100 * n /\ Filled(s) \in Int
            BY <4>2, <3>2, <2>1, <1>c
          <5>4. Within(Signed(s, truth), Signed(s, carried), Signed(s, exposure) + n, 0,
                       Allow(restarts, failures), Sum(s, d), Sum(s, w), Sum(Opposite(s), r))
            BY <5>2, <5>3, <4>1, <3>3, WithinCounted, Zenon
          <5>5. QED
            BY <5>4, <4>2, <3>4, Zenon
        <4>3. CASE s # side[id]
          <5>1. n \in Nat /\ Filled(s) = -(100 * n) /\ Filled(s) \in Int
            BY <4>3, <3>2, <2>1, <1>c
          <5>2. Within(Signed(s, truth), Signed(s, carried), Signed(s, exposure) - n, 0,
                       Allow(restarts, failures), Sum(s, d), Sum(s, w), Sum(Opposite(s), r))
            BY <5>1, <4>1, <3>3, WithinCounted, Zenon
          <5>3. QED
            BY <5>2, <4>3, <3>4, ZenonT(60)
        <4>4. QED
          BY <4>2, <4>3, Zenon
      <3>7. QED
        BY <3>1, <3>5, <3>6, <2>3, <1>b, Zenon DEF Bounded
    <2>7. Explains(lost, d, w, r)'
      BY <2>5, <2>6, Zenon DEF Explains
    <2>8. QED
      BY <2>7, Zenon DEF Explainable
  <1>2. CASE answer.kind = "error"
    <2>1. answer.filled = 0 /\ failures' = failures /\ unconfirmed' = unconfirmed
      BY <1>2, Zenon DEF OnResponse, Measured
    <2>2. pending' = pending \ {waiting}
      BY <1>a, <1>b, <1>c, Zenon
    <2>3. UNCHANGED <<truth, undelivered, failures, runs, order_seq, side, positions, unconfirmed>>
      BY <2>1, <1>b, Zenon DEF runs
    <2>4. QED
      BY <2>1, <2>2, <2>3, <1>b, NothingExecuted, Zenon
  <1>3. CASE ~(answer.kind = "order" /\ IsWhole(answer.filled)) /\ answer.kind # "error"
    <2>1. failures' = failures + 1 /\ unconfirmed' = unconfirmed
      BY <1>3, Zenon DEF OnResponse
    <2>2. UNCHANGED <<exchange, runs, order_seq, side, positions, unconfirmed>>
      BY <2>1, <1>b, Zenon DEF runs, exchange
    <2>3. QED
      BY <2>1, <2>2, <1>a, <1>b, AnswerLost, Zenon
  <1>4. QED
    BY <1>1, <1>2, <1>3, Zenon

\* The request fails, before or after the order was sent.
LEMMA RequestFailsExplained ==
    ASSUME Known, Measured, OnSendFails \/ OnRequestFails,
           NEW lost \in SUBSET Ids, NEW d \in Amounts, NEW w \in Amounts, NEW r \in Amounts,
           Explains(lost, d, w, r)
    PROVE  Explainable'
  <1>1. CASE OnSendFails
    <2>1. /\ waiting # 0 /\ waiting' = 0 /\ pending' = pending \ {waiting}
          /\ UNCHANGED <<truth, undelivered, failures, runs, order_seq, side, positions, unconfirmed>>
      BY <1>1, Zenon DEF OnSendFails, books
    <2>2. answer.filled = 0
      BY <1>1 DEF OnSendFails, Known, AnswerKnown, NoAnswer
    <2>3. QED
      BY <2>1, <2>2, NothingExecuted, Zenon
  <1>2. CASE OnRequestFails
    <2>1. PICK id \in Ids : waiting = id
      BY <1>2, Zenon DEF OnRequestFails, Known, TypeOK
    <2>2. /\ waiting' = 0 /\ failures' = failures + 1
          /\ UNCHANGED <<exchange, runs, order_seq, side, positions, unconfirmed>>
      BY <1>2, Zenon DEF OnRequestFails, books
    <2>3. QED
      BY <2>1, <2>2, AnswerLost, Zenon
  <1>3. QED
    BY <1>1, <1>2, Zenon

\* Fills that leave the exposure alone: of an order with an unconfirmed fill, or not in
\* whole contracts and so dropped.
LEMMA QuietFillExplained ==
    ASSUME Known, NEW id \in Ids, NEW count \in TradeCounts, OnFill(id, count),
           NEW lost \in SUBSET Ids, NEW d \in Amounts, NEW w \in Amounts, NEW r \in Amounts,
           Explains(lost, d, w, r), exposure' = exposure, unconfirmed' \in [Ids -> Int],
           \A i \in Ids : i # id => unconfirmed'[i] = unconfirmed[i],
           IF id \in lost THEN unconfirmed'[id] = 0 ELSE Covered(id)'
    PROVE  Explainable'
  <1>a. /\ waiting = 0 /\ waiting' = 0 /\ order_seq' = order_seq /\ side' = side /\ answer' = answer
        /\ pending' = pending /\ truth' = truth /\ failures' = failures
        /\ restarts' = restarts /\ carried' = carried
        /\ undelivered[id] >= count /\ undelivered' = [undelivered EXCEPT ![id] = @ - count]
    BY Zenon DEF OnFill, runs
  <1>b. undelivered \in [Ids -> Nat] /\ count \in Nat
    BY OrderFlowAssumption DEF Known, TypeOK
  <1>1. ASSUME NEW i \in Ids PROVE Explained(i, lost, d, w, r)'
    <2>1. /\ Explained(i, lost, d, w, r) /\ i # 0
          /\ d[i] \in Nat /\ r[i] \in Nat /\ undelivered[i] \in Nat
      <3>1. Explained(i, lost, d, w, r)
        BY ZenonT(60) DEF Explains
      <3>2. QED
        BY <3>1, <1>b, OrderFlowAssumption DEF Ids, Amounts
    <2>2. CASE i = id
      <3>1. undelivered'[i] \in Nat /\ undelivered'[i] <= undelivered[i]
        BY <2>2, <1>a, <1>b
      <3>2. QED
        BY <3>1, <2>1, <2>2, <1>a DEF Explained
    <2>3. CASE i # id
      <3>1. undelivered'[i] = undelivered[i] /\ unconfirmed'[i] = unconfirmed[i]
        BY <2>3, <1>a, <1>b, Zenon
      <3>2. QED
        BY <3>1, <2>1, <1>a, Zenon DEF Explained, Covered
    <2>4. QED
      BY <2>2, <2>3, Zenon
  <1>2. ASSUME NEW s \in OrderSides PROVE Bounded(s, d, w, r)'
    <2>1. Bounded(s, d, w, r) /\ Filled(s)' = Filled(s)
      BY <1>a, Zenon DEF Explains, Filled
    <2>2. ASSUME NEW t, NEW f PROVE Sum(t, f)' = Sum(t, f)
      BY <1>a, Zenon DEF Sum
    <2>3. QED
      BY <2>1, <2>2, <1>a, Zenon DEF Bounded
  <1>3. Explains(lost, d, w, r)'
    BY <1>1, <1>2, Zenon DEF Explains
  <1>4. QED
    BY <1>3, Zenon DEF Explainable

\* A fill of a lost order brings into the exposure what it held without being in it.
LEMMA LostFillExplained ==
    ASSUME Known, NEW id \in Ids, NEW count \in TradeCounts, OnFill(id, count), IsWhole(count),
           NEW lost \in SUBSET Ids, NEW d \in Amounts, NEW w \in Amounts, NEW r \in Amounts,
           Explains(lost, d, w, r), id \in lost
    PROVE  Explainable'
  <1>a. /\ waiting = 0 /\ waiting' = 0 /\ order_seq' = order_seq /\ side' = side /\ answer' = answer
        /\ pending' = pending /\ truth' = truth /\ failures' = failures
        /\ restarts' = restarts /\ carried' = carried
        /\ undelivered[id] >= count /\ undelivered' = [undelivered EXCEPT ![id] = @ - count]
    BY Zenon DEF OnFill, runs
  <1>b. TypeOK /\ undelivered \in [Ids -> Nat] /\ side[id] \in OrderSides /\ OrderSize \in Nat
    BY OrderFlowAssumption, Zenon DEF Known, TypeOK
  <1>c. PICK n \in Nat : n = parse_contracts(count) /\ count = 100 * n /\ n > 0
    <2>1. count \in 1 .. 100 * OrderSize /\ count % 100 = 0
      BY OrderFlowAssumption, Zenon DEF IsWhole
    <2>2. count \div 100 \in Nat /\ count = 100 * (count \div 100) /\ count \div 100 > 0
      BY <2>1, <1>b
    <2>3. QED
      BY <2>2, Zenon DEF parse_contracts
  <1>d. /\ id <= order_seq /\ unconfirmed[id] = 0 /\ id \notin pending /\ w[id] = 0
        /\ undelivered[id] <= 100 * d[id] /\ undelivered[id] < 100 * (r[id] + 1)
        /\ d[id] \in 0 .. OrderSize /\ r[id] \in 0 .. OrderSize
    <2>1. Explained(id, lost, d, w, r) /\ d[id] \in 0 .. OrderSize /\ r[id] \in 0 .. OrderSize
      BY ZenonT(60) DEF Explains, Amounts
    <2>2. id \notin pending
      BY <2>1, <1>a, <1>b, <1>c DEF Explained
    <2>3. QED
      BY <2>1, <2>2, Zenon DEF Explained
  <1>e. PICK dv \in 0 .. OrderSize, rv \in 0 .. OrderSize : dv = d[id] - n /\ rv = r[id] - n
    <2>1. undelivered[id] \in Nat /\ 100 * n <= undelivered[id]
      BY <1>a, <1>b, <1>c, Zenon
    <2>2. d[id] - n \in 0 .. OrderSize /\ r[id] - n \in 0 .. OrderSize
      BY <2>1, <1>b, <1>c, <1>d
    <2>3. QED
      BY <2>2, Zenon
  <1> DEFINE d2 == Put(d, id, dv)
             r2 == Put(r, id, rv)
  <1>f. /\ d2 \in Amounts /\ r2 \in Amounts /\ d2[id] = dv /\ r2[id] = rv
        /\ \A i \in Ids : i # id => d2[i] = d[i] /\ r2[i] = r[i]
    BY PutFacts
  <1>g. exposure' = exposure + Signed(side[id], n) /\ unconfirmed' = unconfirmed
    <2>1. /\ positions' = positions + Signed(side[id], n)
          /\ unconfirmed' = [unconfirmed EXCEPT ![id] = Remaining(unconfirmed[id], Signed(side[id], n))]
      BY <1>c, Zenon DEF OnFill
    <2>2. unconfirmed' = [unconfirmed EXCEPT ![id] = unconfirmed[id]]
      BY <2>1, <1>d, Zenon DEF Remaining
    <2>3. unconfirmed' = unconfirmed /\ positions \in Int /\ Total(unconfirmed) \in Int
      BY <2>2, <1>b, OrderFlowAssumption, Zenon DEF TypeOK
    <2>4. QED
      BY <2>1, <2>3, <1>c DEF exposure, Signed
  <1>1. ASSUME NEW i \in Ids PROVE Explained(i, lost, d2, w, r2)'
    <2>1. Explained(i, lost, d, w, r) /\ i # 0
      BY DEF Explains, Ids
    <2>2. CASE i = id
      <3>1. undelivered'[i] = undelivered[i] - 100 * n /\ undelivered[i] \in Nat
        BY <2>2, <1>a, <1>b, <1>c, ZenonT(60)
      <3> HIDE DEF d2, r2
      <3>2. undelivered'[i] <= 100 * d2[i] /\ undelivered'[i] < 100 * (r2[i] + 1)
        <4>1. d2[i] = d[i] - n /\ r2[i] = r[i] - n
          BY <2>2, <1>e, <1>f, ZenonT(60)
        <4>2. /\ d[i] \in Nat /\ r[i] \in Nat /\ n \in Nat
              /\ undelivered[i] <= 100 * d[i] /\ undelivered[i] < 100 * (r[i] + 1)
          BY <2>2, <1>d
        <4>3. QED
          BY <4>1, <4>2, <3>1
      <3>3. QED
        BY <3>2, <2>1, <2>2, <1>a, <1>d, <1>g, Zenon DEF Explained
    <2>3. CASE i # id
      <3>1. undelivered'[i] = undelivered[i] /\ d2[i] = d[i] /\ r2[i] = r[i]
        BY <2>3, <1>a, <1>b, <1>f, Zenon
      <3> HIDE DEF d2, r2
      <3>2. QED
        BY <3>1, <2>1, <1>a, <1>g, Zenon DEF Explained, Covered
    <2>4. QED
      BY <2>2, <2>3, Zenon
  <1>2. ASSUME NEW s \in OrderSides PROVE Bounded(s, d2, w, r2)'
    <2>1. Bounded(s, d, w, r) /\ Filled(s)' = 0 /\ Filled(s) = 0
      BY <1>a, Zenon DEF Explains, Filled
    <2>2. /\ Signed(s, truth) \in Int /\ Signed(s, carried) \in Int /\ Signed(s, exposure) \in Int
          /\ Sum(s, d) \in Nat /\ Sum(s, w) \in Nat /\ Sum(Opposite(s), r) \in Nat
          /\ Allow(restarts, failures) \in Nat /\ MaxPosition \in Nat /\ exposure \in Int
      BY Numbers, Zenon
    <2>3. /\ s = side[id] => Signed(s, exposure)' = Signed(s, exposure) + n
          /\ s # side[id] => Signed(s, exposure)' = Signed(s, exposure) - n
      <3>1. Signed(s, exposure)' = Signed(s, exposure + Signed(side[id], n))
        BY <1>g, Zenon DEF Signed
      <3>2. n \in Int /\ Signed(side[id], n) \in Int
        BY <1>b DEF Signed
      <3>3. Signed(s, exposure + Signed(side[id], n)) = Signed(s, exposure) + Signed(s, Signed(side[id], n))
        BY <3>2, <2>2 DEF Signed
      <3>4. /\ s = side[id] => Signed(s, Signed(side[id], n)) = n
            /\ s # side[id] => Signed(s, Signed(side[id], n)) = -n
        BY <3>2, <1>b, SignedTwice, Zenon
      <3>5. QED
        BY <3>1, <3>2, <3>3, <3>4, <2>2, Zenon
    <2>4. ASSUME NEW x, NEW f PROVE Sum(x, f)' = Sum(x, f)
      BY <1>a, Zenon DEF Sum
    <2>5. Opposite(s) \in OrderSides /\ (s = side[id] <=> Opposite(s) # side[id])
      BY <1>b, Zenon DEF Opposite, OrderSides
    <2>6. /\ side[id] = s => /\ Sum(s, d2) = Sum(s, d) - n
                             /\ Sum(Opposite(s), r2) = Sum(Opposite(s), r)
          /\ side[id] # s => /\ Sum(s, d2) = Sum(s, d)
                             /\ Sum(Opposite(s), r2) = Sum(Opposite(s), r) - n
      <3>1. /\ side[id] = s => Sum(s, d2) = Sum(s, d) + (dv - d[id])
            /\ side[id] # s => Sum(s, d2) = Sum(s, d)
        <4>1. SumMoves(s, d, id, dv)
          BY <1>b, SumUpdate, Zenon
        <4>2. QED
          BY <4>1, Zenon DEF SumMoves
      <3>2. /\ side[id] = Opposite(s) => Sum(Opposite(s), r2) = Sum(Opposite(s), r) + (rv - r[id])
            /\ side[id] # Opposite(s) => Sum(Opposite(s), r2) = Sum(Opposite(s), r)
        <4>1. SumMoves(Opposite(s), r, id, rv)
          BY <2>5, <1>b, SumUpdate, ZenonT(60)
        <4>2. QED
          BY <4>1, Zenon DEF SumMoves
      <3> HIDE DEF d2, r2
      <3>3. dv - d[id] = -n /\ rv - r[id] = -n
        BY <1>d, <1>e
      <3>4. QED
        BY <3>1, <3>2, <3>3, <2>2, <2>5, Zenon
    <2> HIDE DEF d2, r2
    <2>7. Within(Signed(s, truth), Signed(s, carried), Signed(s, exposure)', 0,
                 Allow(restarts, failures), Sum(s, d2), Sum(s, w), Sum(Opposite(s), r2))
      <3>1. Within(Signed(s, truth), Signed(s, carried), Signed(s, exposure), 0,
                   Allow(restarts, failures), Sum(s, d), Sum(s, w), Sum(Opposite(s), r))
        BY <2>1, Zenon DEF Bounded
      <3>a. /\ Within(Signed(s, truth), Signed(s, carried), Signed(s, exposure) + n, 0,
                       Allow(restarts, failures), Sum(s, d) - n, Sum(s, w), Sum(Opposite(s), r))
            /\ Within(Signed(s, truth), Signed(s, carried), Signed(s, exposure) - n, 0,
                       Allow(restarts, failures), Sum(s, d), Sum(s, w), Sum(Opposite(s), r) - n)
        <4>1. 0 \in Int
          OBVIOUS
        <4>2. QED
          BY <4>1, <3>1, <2>2, <1>c, WithinCounted, Zenon
      <3>2. CASE side[id] = s
        BY <3>a, <3>2, <2>3, <2>6, Zenon
      <3>3. CASE side[id] # s
        BY <3>a, <3>3, <2>3, <2>6, Zenon
      <3>4. QED
        BY <3>2, <3>3, Zenon
    <2>8. QED
      BY <2>1, <2>4, <2>7, <1>a, Zenon DEF Bounded
  <1> HIDE DEF d2, r2
  <1>3. Explains(lost, d2, w, r2)'
    BY <1>1, <1>2, Zenon DEF Explains
  <1>4. QED
    BY <1>3, <1>f, Zenon DEF Explainable

\* on_fill, whichever fill it is.
LEMMA OnFillExplained ==
    ASSUME Known, NEW id \in Ids, NEW count \in TradeCounts, OnFill(id, count),
           NEW lost \in SUBSET Ids, NEW d \in Amounts, NEW w \in Amounts, NEW r \in Amounts,
           Explains(lost, d, w, r)
    PROVE  Explainable'
  <1> USE OrderFlowAssumption
  <1>a. /\ waiting = 0 /\ side' = side /\ undelivered[id] >= count
        /\ undelivered' = [undelivered EXCEPT ![id] = @ - count]
    BY Zenon DEF OnFill
  <1>b. /\ undelivered \in [Ids -> Nat] /\ side[id] \in OrderSides /\ positions \in Int
        /\ unconfirmed \in [Ids -> Holding] /\ count \in 1 .. 100 * OrderSize
    BY Zenon DEF Known, TypeOK
  <1>c. Explained(id, lost, d, w, r) /\ id # waiting
    BY <1>a DEF Explains, Ids
  <1>1. CASE ~IsWhole(count)
    <2>1. positions' = positions /\ unconfirmed' = unconfirmed
      BY <1>1, Zenon DEF OnFill, books
    <2>2. exposure' = exposure
      BY <2>1, Zenon DEF exposure
    <2>3. IF id \in lost THEN unconfirmed'[id] = 0 ELSE Covered(id)'
      <3>1. CASE id \in lost
        BY <3>1, <2>1, <1>c, ZenonT(60) DEF Explained
      <3>2. CASE id \notin lost
        <4>1. Covered(id) /\ undelivered'[id] <= undelivered[id] /\ undelivered'[id] \in Nat
              /\ undelivered[id] \in Nat /\ Signed(side[id], unconfirmed[id]) \in Int
          BY <3>2, <1>a, <1>b, <1>c DEF Explained, Signed, Holding
        <4>2. QED
          BY <4>1, <3>2, <2>1, <1>a DEF Covered
      <3>3. QED
        BY <3>1, <3>2, Zenon
    <2>4. unconfirmed' \in [Ids -> Int]
      BY <2>1, <1>b DEF Holding
    <2>5. QED
      BY <2>1, <2>2, <2>3, <2>4, QuietFillExplained, Zenon
  <1>2. CASE IsWhole(count) /\ id \in lost
    BY <1>2, LostFillExplained, Zenon
  <1>3. CASE IsWhole(count) /\ id \notin lost
    <2> DEFINE n == parse_contracts(count)
               q == Signed(side[id], n)
               u == unconfirmed[id]
    <2>1. n \in Nat /\ count = 100 * n /\ u \in Holding
      BY <1>3, <1>b DEF IsWhole, parse_contracts
    <2>2. /\ Signed(side[id], u) >= 0 /\ undelivered[id] <= 100 * Signed(side[id], u)
          /\ Signed(side[id], u) \in Int
      <3>1. u \in Int
        BY <2>1 DEF Holding
      <3>2. Signed(side[id], u) \in Int
        BY <3>1, <1>b, SignedFacts, Zenon
      <3>3. QED
        BY <3>2, <1>3, <1>c, ZenonT(60) DEF Explained, Covered
    <2>3. /\ n <= Signed(side[id], u) /\ Signed(side[id], u) - n >= 0
          /\ undelivered[id] - 100 * n <= 100 * (Signed(side[id], u) - n)
      <3> HIDE DEF n, u
      <3>1. 100 * n <= undelivered[id] /\ undelivered[id] \in Nat
        BY <2>1, <1>a, <1>b, ZenonT(60)
      <3>2. QED
        BY <3>1, <2>1, <2>2, HundredCovers, ZenonT(60)
    <2>4. Remaining(u, q) = u - q /\ u - q \in Holding /\ q \in Int
      BY <2>1, <2>3, <1>b, RemainingCovered DEF Signed
    <2>5. positions' = positions + q /\ unconfirmed' = [unconfirmed EXCEPT ![id] = u - q]
      BY <2>4, <1>3, ZenonT(60) DEF OnFill
    <2> HIDE DEF n, q, u
    <2>6. exposure' = exposure
      <3>1. /\ Total(unconfirmed') = Total(unconfirmed) - unconfirmed[id] + (u - q)
            /\ Total(unconfirmed) \in Int
        BY <2>4, <2>5, <1>b, TotalUpdate, ZenonT(60)
      <3>2. exposure' = positions + q + Total(unconfirmed')
        BY <2>5, Zenon DEF exposure
      <3>3. unconfirmed[id] = u /\ u \in Int
        BY <1>b DEF u, Holding
      <3>4. QED
        BY <3>1, <3>2, <3>3, <2>4, <1>b DEF exposure
    <2>7. Covered(id)'
      <3>1. undelivered'[id] = undelivered[id] - count /\ unconfirmed'[id] = u - q
        BY <2>5, <1>a, <1>b, Zenon
      <3>2. Signed(side[id], u - q) = Signed(side[id], u) - n
        BY <2>1, <1>b DEF Signed, q, Holding
      <3>3. undelivered[id] \in Nat
        BY <1>b, Zenon
      <3>4. QED
        BY <3>1, <3>2, <2>1, <2>3, <1>a, ZenonT(60) DEF Covered
    <2>8. /\ unconfirmed' \in [Ids -> Int]
          /\ \A i \in Ids : i # id => unconfirmed'[i] = unconfirmed[i]
      BY <2>4, <2>5, <1>b DEF Holding
    <2>9. QED
      BY <2>6, <2>7, <2>8, <1>3, QuietFillExplained, ZenonT(60)
  <1>4. QED
    BY <1>1, <1>2, <1>3, Zenon

\* A restart forgets what the bot knew: the account's position is carried from there
\* on, and of the lost orders only the pending ones can still move it.
LEMMA RestartExplained ==
    ASSUME Known, Measured, Restart,
           NEW lost \in SUBSET Ids, NEW d \in Amounts, NEW w \in Amounts, NEW r \in Amounts,
           Explains(lost, d, w, r)
    PROVE  Explainable'
  <1>a. /\ waiting' = 0 /\ order_seq' = order_seq /\ side' = side /\ positions' = 0
        /\ unconfirmed' = [id \in Ids |-> 0] /\ undelivered' = [id \in Ids |-> 0]
        /\ truth' = truth /\ carried' = truth /\ pending' = pending
        /\ restarts' = restarts + 1
        /\ failures' = IF waiting = 0 THEN failures ELSE failures + 1
    BY Zenon DEF Restart, Forget
  <1>b. /\ TypeOK /\ OrderSize \in Nat /\ 0 \in 0 .. OrderSize /\ OrderSize \in 0 .. OrderSize
        /\ answer.filled \in 0 .. 100 * OrderSize /\ 0 \notin Ids
        /\ (waiting \in pending => answer.filled = 0)
    <2>1. waiting \in pending => answer.filled = 0
      BY DEF Known, AnswerKnown, NoAnswer
    <2>2. QED
      BY <2>1, PartsOfOrder, Zenon DEF Known, TypeOK
  <1>c. PICK lost2 \in SUBSET Ids : \A i \in Ids : i \in lost2 <=> (i \in lost \/ i = waiting)
    <2>1. {i \in Ids : i \in lost \/ i = waiting} \in SUBSET Ids
      BY Zenon
    <2>2. QED
      BY <2>1, Zenon
  <1>d. PICK w2 \in Amounts :
          /\ \A i \in Ids : w2[i] = IF i = waiting /\ i \in pending THEN OrderSize ELSE w[i]
          /\ \A s \in OrderSides :
                IF waiting \in pending /\ side[waiting] = s
                THEN Sum(s, w2) = Sum(s, w) + OrderSize ELSE Sum(s, w2) = Sum(s, w)
    <2>1. CASE waiting \in pending
      <3>1. waiting \in Ids
        BY <2>1, <1>b, Zenon DEF TypeOK
      <3>2. Explained(waiting, lost, d, w, r)
        BY <3>1, Zenon DEF Explains
      <3>3. w[waiting] = 0
        BY <3>2, Zenon DEF Explained
      <3> DEFINE x == Put(w, waiting, OrderSize)
      <3>4. /\ x \in Amounts /\ x[waiting] = OrderSize
            /\ \A i \in Ids : i # waiting => x[i] = w[i]
        BY <3>1, <1>b, PutFacts
      <3>5. ASSUME NEW s \in OrderSides
            PROVE  IF side[waiting] = s THEN Sum(s, x) = Sum(s, w) + OrderSize ELSE Sum(s, x) = Sum(s, w)
        <4>1. /\ side[waiting] = s => Sum(s, x) = Sum(s, w) + (OrderSize - w[waiting])
              /\ side[waiting] # s => Sum(s, x) = Sum(s, w)
          <5>1. SumMoves(s, w, waiting, OrderSize)
            BY <3>1, <1>b, AmountEnds, SumUpdate, Zenon
          <5>2. QED
            BY <5>1, Zenon DEF SumMoves
        <4>2. OrderSize - w[waiting] = OrderSize
          BY <3>3, <1>b
        <4>3. QED
          BY <4>1, <4>2, Zenon
      <3> HIDE DEF x
      <3>6. QED
        BY <3>4, <3>5, <2>1, Zenon
    <2>2. CASE waiting \notin pending
      BY <2>2, Zenon
    <2>3. QED
      BY <2>1, <2>2, Zenon
  <1> DEFINE none == [id \in Ids |-> 0]
  <1>e. none \in Amounts /\ \A i \in Ids : none[i] = 0
    BY <1>b, Zenon DEF Amounts
  <1> HIDE DEF none
  <1>1. ASSUME NEW i \in Ids PROVE Explained(i, lost2, none, w2, none)'
    <2>1. Explained(i, lost, d, w, r) /\ i # 0 /\ undelivered'[i] = 0 /\ unconfirmed'[i] = 0
      BY <1>a, <1>b, Zenon DEF Explains
    <2>2. Covered(i)'
      BY <2>1 DEF Covered, Signed
    <2>3. CASE i = waiting
      <3>1. i = order_seq /\ order_seq \in Nat
        BY <2>1, <2>3, <1>b DEF Known, AnswerKnown, TypeOK
      <3>2. QED
        <4>1. /\ i \in lost2 /\ none[i] = 0 /\ i <= order_seq' /\ i # waiting'
              /\ w2[i] = IF i \in pending THEN OrderSize ELSE w[i]
          <5>1. i \in lost2 /\ none[i] = 0 /\ i # waiting'
            BY <2>1, <2>3, <1>a, <1>c, <1>e, Zenon
          <5>2. i <= order_seq'
            BY <3>1, <1>a
          <5>3. w2[i] = IF i \in pending THEN OrderSize ELSE w[i]
            BY <2>3, <1>d, Zenon
          <5>4. QED
            BY <5>1, <5>2, <5>3, Zenon
        <4>2. w[i] = 0
          BY <2>1, <2>3, Zenon DEF Explained
        <4>3. w2[i] = IF i \in pending' THEN OrderSize ELSE 0
          BY <4>1, <4>2, <1>a, Zenon
        <4>4. 0 <= 100 * 0 /\ 0 < 100 * (0 + 1)
          OBVIOUS
        <4>5. undelivered'[i] <= 100 * none[i] /\ undelivered'[i] < 100 * (none[i] + 1)
          BY <4>1, <4>4, <2>1, ZenonT(60)
        <4>6. QED
          BY <4>1, <4>3, <4>5, <2>1, Zenon DEF Explained
    <2>4. CASE i # waiting
      <3>1. (i \in lost2 <=> i \in lost) /\ w2[i] = w[i] /\ none[i] = 0
        BY <2>4, <1>c, <1>d, <1>e, Zenon
      <3>2. QED
        BY <3>1, <2>1, <2>2, <2>4, <1>a DEF Explained
    <2>5. QED
      BY <2>3, <2>4, Zenon
  <1>2. ASSUME NEW s \in OrderSides PROVE Bounded(s, none, w2, none)'
    <2>1. Bounded(s, d, w, r)
      BY Zenon DEF Explains
    <2>2. /\ Signed(s, truth) \in Int /\ Signed(s, carried) \in Int /\ Signed(s, exposure) \in Int
          /\ Sum(s, d) \in Nat /\ Sum(s, w) \in Nat /\ Sum(Opposite(s), r) \in Nat
          /\ Allow(restarts, failures) \in Nat /\ MaxPosition \in Nat
          /\ restarts \in Nat /\ failures \in Nat /\ Filled(s) \in Int
      BY Numbers, Zenon
    <2>3. Sum(s, none) = 0 /\ Sum(Opposite(s), none) = 0
      <3>1. Opposite(s) \in OrderSides /\ side \in [Ids -> OrderSides]
        BY <1>b, Zenon DEF Opposite, OrderSides, TypeOK
      <3>2. \A t \in OrderSides : Total(Part(t, side, none)) = 0
        BY <3>1, <1>e, PartFacts, Zenon
      <3>3. QED
        BY <3>1, <3>2, Zenon DEF Sum
    <2>4. ASSUME NEW t, NEW f PROVE Sum(t, f)' = Sum(t, f)
      BY <1>a, Zenon DEF Sum
    <2>5. exposure' = 0 /\ Signed(s, exposure)' = 0 /\ Filled(s)' = 0
      <3>1. exposure' = positions' + Total(unconfirmed') /\ Total(unconfirmed') = 0
        BY <1>a, OrderFlowAssumption, Zenon DEF exposure
      <3>2. exposure' = 0
        BY <3>1, <1>a
      <3>3. Signed(s, 0) = 0 /\ Signed(s, exposure)' = Signed(s, 0)
        BY <3>2, SignedZero, Zenon DEF Signed
      <3>4. Filled(s)' = 0
        BY <1>a, Zenon DEF Filled
      <3>5. QED
        BY <3>2, <3>3, <3>4, Zenon
    <2>6. Allow(restarts, failures)' =
            IF waiting = 0 THEN Allow(restarts, failures) + 100 * MaxPosition
            ELSE Allow(restarts, failures) + 100 * MaxPosition + 100 * OrderSize
      <3>1. /\ Allow(restarts + 1, failures) = Allow(restarts, failures) + 100 * MaxPosition
            /\ Allow(restarts + 1, failures + 1) = Allow(restarts + 1, failures) + 100 * OrderSize
        <4>1. restarts + 1 \in Nat
          BY <2>2
        <4>2. Grows(restarts, failures) /\ Grows(restarts + 1, failures)
          BY <2>2, <4>1, AllowGrows, Zenon
        <4>3. QED
          BY <4>2, Zenon DEF Grows
      <3>2. Allow(restarts, failures)' = Allow(restarts', failures')
        BY Zenon DEF Allow
      <3>3. CASE waiting = 0
        BY <3>1, <3>2, <3>3, <1>a, Zenon
      <3>4. CASE waiting # 0
        BY <3>1, <3>2, <3>4, <1>a, Zenon
      <3>5. QED
        BY <3>3, <3>4, ZenonT(60)
    <2>7. /\ waiting = 0 => Filled(s) = 0 /\ Sum(s, w2) = Sum(s, w)
          /\ waiting # 0 => Filled(s) + 100 * Sum(s, w2) <= 100 * Sum(s, w) + 100 * OrderSize
          /\ Sum(s, w2) \in Nat
      <3>1. Sum(s, w2) \in Nat
        BY <1>d, Numbers, Zenon
      <3>2. CASE waiting = 0
        <4>1. waiting \notin pending
          BY <3>2, <1>b, ZenonT(60) DEF TypeOK
        <4>2. QED
          BY <4>1, <3>1, <3>2, <1>d, Zenon DEF Filled
      <3>3. CASE waiting # 0
        <4>1. side[waiting] \in OrderSides /\ answer.filled \in Int
          BY <3>3, <1>b DEF TypeOK
        <4>2. Filled(s) = Signed(s, Signed(side[waiting], answer.filled))
          BY <3>3, Zenon DEF Filled
        <4>3. /\ s = side[waiting] => Filled(s) = answer.filled
              /\ s # side[waiting] => Filled(s) = -answer.filled
          BY <4>1, <4>2, SignedTwice, ZenonT(60)
        <4>4. QED
          BY <4>3, <3>1, <3>3, <2>2, <1>b, <1>d
      <3>4. QED
        BY <3>2, <3>3, Zenon
    <2>8. Within(Signed(s, truth), Signed(s, truth), 0, 0, Allow(restarts, failures)', 0, Sum(s, w2), 0)
      <3>1. Within(Signed(s, truth), Signed(s, carried), Signed(s, exposure), Filled(s),
                   Allow(restarts, failures), Sum(s, d), Sum(s, w), Sum(Opposite(s), r))
        BY <2>1, Zenon DEF Bounded
      <3>2. CASE waiting = 0
        <4>1. Filled(s) = 0 /\ Filled(s) \in Int
          BY <3>2, <2>7
        <4>2. Within(Signed(s, truth), Signed(s, truth), 0, 0,
                     Allow(restarts, failures) + 100 * MaxPosition, 0, Sum(s, w), 0)
          BY <4>1, <3>1, <2>2, WithinRestart, ZenonT(60)
        <4>3. QED
          BY <4>2, <3>2, <2>6, <2>7, ZenonT(60)
      <3>3. CASE waiting # 0
        <4>1. Filled(s) \in Int
          <5>1. side[waiting] \in OrderSides /\ answer.filled \in Int
            BY <3>3, <1>b DEF TypeOK
          <5>2. QED
            BY <5>1, <3>3 DEF Filled, Signed
        <4>2. Within(Signed(s, truth), Signed(s, truth), 0, 0,
                     Allow(restarts, failures) + 100 * MaxPosition + 100 * OrderSize, 0, Sum(s, w2), 0)
          BY <4>1, <3>1, <3>3, <2>2, <2>7, WithinRestartWaiting, ZenonT(60)
        <4>3. QED
          BY <4>2, <3>3, <2>6, Zenon
      <3>4. QED
        BY <3>2, <3>3, Zenon
    <2>9. Signed(s, truth)' = Signed(s, truth) /\ Signed(s, carried)' = Signed(s, truth)
      BY <1>a, Zenon DEF Signed
    <2>10. QED
      BY <2>3, <2>4, <2>5, <2>8, <2>9, <1>a, Zenon DEF Bounded
  <1>3. Explains(lost2, none, w2, none)'
    BY <1>1, <1>2, Zenon DEF Explains
  <1>4. QED
    BY <1>3, <1>e, Zenon DEF Explainable

\* The answer under way keeps covering what may be reported of its order.
LEMMA MeasuredStep ==
    ASSUME Known, Measured, Next
    PROVE  Measured'
  <1> USE OrderFlowAssumption
  <1>a. TypeOK /\ AnswerKnown /\ 0 \notin Ids
    BY DEF Known, Ids
  <1>1. CASE \E id \in Ids, count \in FillCounts : Execute(id, count)
    <2>1. PICK id \in Ids, count \in FillCounts : Execute(id, count)
      BY <1>1, ZenonT(60)
    <2>2. /\ waiting' = waiting /\ undelivered' = [undelivered EXCEPT ![id] = count]
          /\ undelivered \in [Ids -> Nat] /\ count \in Nat
      BY <2>1, <1>a DEF Execute, TypeOK
    <2>3. CASE waiting = id
      <3>1. answer' = [kind |-> "order", filled |-> count]
        BY <2>1, <2>3, Zenon DEF Execute
      <3>2. answer'.kind = "order" /\ answer'.filled = count /\ undelivered'[waiting'] = count
        BY <3>1, <2>2, <2>3, Zenon
      <3>3. QED
        BY <3>2, <2>2 DEF Measured
    <2>4. CASE waiting # id
      <3>1. answer' = answer /\ (waiting # 0 => undelivered'[waiting'] = undelivered[waiting])
        BY <2>1, <2>2, <2>4, <1>a, Zenon DEF Execute, TypeOK
      <3>2. QED
        BY <3>1, <2>2, Zenon DEF Measured
    <2>5. QED
      BY <2>3, <2>4, Zenon
  <1>2. CASE \E id \in Ids : Reject(id)
    <2>1. PICK id \in Ids : Reject(id)
      BY <1>2, Zenon
    <2>2. waiting' = waiting /\ undelivered' = undelivered /\ id \in pending
      BY <2>1, Zenon DEF Reject
    <2>3. CASE waiting = id
      <3>1. answer' = [kind |-> "error", filled |-> 0]
        BY <2>1, <2>3, Zenon DEF Reject
      <3>2. answer'.filled = 0
        BY <3>1, Zenon
      <3>3. undelivered[id] <= executed[id] /\ executed[id] = 0
        BY <2>2, Zenon DEF Known, OrderKnown
      <3>4. QED
        BY <3>2, <3>3, <2>2, <2>3, Zenon DEF Measured
    <2>4. CASE waiting # id
      BY <2>1, <2>2, <2>4, ZenonT(60) DEF Reject, Measured
    <2>5. QED
      BY <2>3, <2>4, Zenon
  <1>3. CASE LoseFills
    <2>1. /\ waiting' = waiting /\ answer' = answer /\ undelivered' = [id \in Ids |-> 0]
          /\ answer.filled \in 0 .. 100 * OrderSize
      BY <1>3, <1>a, Zenon DEF LoseFills, TypeOK
    <2>2. QED
      BY <2>1, <1>a DEF Measured, TypeOK
  <1>4. CASE \E s \in OrderSides : Submit(s)
    <2>1. /\ answer' = answer /\ answer = NoAnswer /\ undelivered' = undelivered
          /\ waiting' = order_seq + 1 /\ order_seq + 1 \in Ids /\ order_seq \in Nat
      BY <1>4, <1>a DEF Submit, Post, AnswerKnown, TypeOK, Ids
    <2>2. undelivered[order_seq + 1] <= 0
      <3>1. OrderKnown(order_seq + 1) /\ order_seq + 1 > order_seq
        BY <2>1 DEF Known
      <3>2. QED
        BY <3>1, ZenonT(60) DEF OrderKnown
    <2>3. QED
      BY <2>1, <2>2, ZenonT(60) DEF Measured, NoAnswer
  <1>5. CASE OnResponse \/ OnSendFails \/ OnRequestFails \/ Restart
    <2>1. waiting' = 0 /\ answer' = NoAnswer
      BY <1>5, <1>a, Zenon DEF OnResponse, OnSendFails, OnRequestFails, Restart, AnswerKnown
    <2>2. QED
      BY <2>1, Zenon DEF Measured, NoAnswer
  <1>6. CASE \E id \in Ids, count \in TradeCounts : OnFill(id, count)
    <2>1. waiting = 0 /\ waiting' = waiting /\ answer' = answer
      BY <1>6, Zenon DEF OnFill
    <2>2. QED
      BY <2>1, Zenon DEF Measured
  <1>7. QED
    BY <1>1, <1>2, <1>3, <1>4, <1>5, <1>6, Zenon DEF Next

\* The inductive invariant behind OvershootBound.
Overshot == Known /\ Measured /\ Explainable

\* A bot starts without lost orders.
LEMMA InitOvershot ==
    Init => Overshot
  <1> USE OrderFlowAssumption
  <1> SUFFICES ASSUME Init PROVE Overshot
    BY Zenon
  <1>1. Known /\ Measured
    BY InitKnown, Zenon DEF Measured, Init, NoAnswer
  <1> DEFINE none == [id \in Ids |-> 0]
  <1>2. none \in Amounts /\ \A i \in Ids : none[i] = 0
    BY DEF Amounts
  <1> HIDE DEF none
  <1>3. ASSUME NEW i \in Ids PROVE Explained(i, {}, none, none, none)
    BY <1>2 DEF Init, Explained, Covered, Signed
  <1>4. ASSUME NEW s \in OrderSides PROVE Bounded(s, none, none, none)
    <2>1. Opposite(s) \in OrderSides /\ side \in [Ids -> OrderSides]
      BY <1>1, Zenon DEF Opposite, OrderSides, Known, TypeOK
    <2>2. \A t \in OrderSides : Total(Part(t, side, none)) = 0
      BY <2>1, <1>2, PartFacts, Zenon
    <2>3. Sum(s, none) = 0 /\ Sum(Opposite(s), none) = 0
      BY <2>1, <2>2, Zenon DEF Sum
    <2>4. exposure = 0
      BY DEF exposure, Init
    <2>5. /\ Signed(s, truth) = 0 /\ Signed(s, carried) = 0 /\ Signed(s, exposure) = 0
          /\ Filled(s) = 0 /\ waiting = 0
      <3>1. truth = 0 /\ carried = 0 /\ waiting = 0
        BY Zenon DEF Init
      <3>2. Filled(s) = 0
        BY <3>1, Zenon DEF Filled
      <3>3. QED
        BY <3>1, <3>2, <2>4, SignedZero, Zenon
    <2>6. Allow(restarts, failures) \in Nat /\ MaxPosition \in Nat
      BY <1>1, <1>2, Numbers, Zenon
    <2>7. Within(0, 0, 0, 0, Allow(restarts, failures), 0, 0, 0)
      BY <2>6 DEF Within
    <2>8. QED
      BY <2>3, <2>5, <2>7, Zenon DEF Bounded
  <1>5. Explains({}, none, none, none)
    BY <1>3, <1>4, Zenon DEF Explains
  <1>6. QED
    BY <1>1, <1>2, <1>5, Zenon DEF Explainable, Overshot

\* Every step of bot and exchange keeps the position explained.
LEMMA OvershotStep ==
    Overshot /\ [Next]_vars => Overshot'
  <1> SUFFICES ASSUME Overshot, [Next]_vars PROVE Overshot'
    BY Zenon
  <1>a. Known /\ Measured /\ Known'
    BY KnownStep, Zenon DEF Overshot
  <1>1. CASE Next
    <2>1. Measured'
      BY <1>1, <1>a, MeasuredStep, Zenon
    <2>2. PICK lost \in SUBSET Ids, d \in Amounts, w \in Amounts, r \in Amounts : Explains(lost, d, w, r)
      BY Zenon DEF Overshot, Explainable
    <2>3. Explainable'
      <3>1. CASE \E id \in Ids, count \in FillCounts : Execute(id, count)
        BY <2>2, <3>1, <1>a, ExecuteExplained, Zenon
      <3>2. CASE \E id \in Ids : Reject(id)
        BY <2>2, <3>2, <1>a, RejectExplained, Zenon
      <3>3. CASE LoseFills
        BY <2>2, <3>3, <1>a, LoseFillsExplained, Zenon
      <3>4. CASE \E s \in OrderSides : Submit(s)
        BY <2>2, <3>4, <1>a, SubmitExplained, Zenon
      <3>5. CASE OnResponse
        BY <2>2, <3>5, <1>a, OnResponseExplained, Zenon
      <3>6. CASE OnSendFails \/ OnRequestFails
        BY <2>2, <3>6, <1>a, RequestFailsExplained, Zenon
      <3>7. CASE \E id \in Ids, count \in TradeCounts : OnFill(id, count)
        BY <2>2, <3>7, <1>a, OnFillExplained, Zenon
      <3>8. CASE Restart
        BY <2>2, <3>8, <1>a, RestartExplained, Zenon
      <3>9. QED
        BY <1>1, <3>1, <3>2, <3>3, <3>4, <3>5, <3>6, <3>7, <3>8, Zenon DEF Next
    <2>4. QED
      BY <2>1, <2>3, <1>a, Zenon DEF Overshot
  <1>2. CASE UNCHANGED vars
    <2>1. Measured'
      BY <1>2, <1>a, Zenon DEF vars, exchange, Measured
    <2>2. PICK lost \in SUBSET Ids, d \in Amounts, w \in Amounts, r \in Amounts : Explains(lost, d, w, r)
      BY Zenon DEF Overshot, Explainable
    <2>3. /\ waiting' = waiting /\ order_seq' = order_seq /\ side' = side /\ positions' = positions
          /\ unconfirmed' = unconfirmed /\ failures' = failures /\ answer' = answer
          /\ restarts' = restarts /\ carried' = carried /\ truth' = truth /\ pending' = pending
          /\ undelivered' = undelivered
      BY <1>2, Zenon DEF vars, exchange, books, runs
    <2>4. ASSUME NEW i \in Ids PROVE Explained(i, lost, d, w, r)'
      BY <2>2, <2>3, ZenonT(60) DEF Explains, Explained, Covered
    <2>5. ASSUME NEW s \in OrderSides PROVE Bounded(s, d, w, r)'
      <3>1. exposure' = exposure /\ Filled(s)' = Filled(s)
        BY <2>3, Zenon DEF exposure, Filled
      <3>2. ASSUME NEW t, NEW f PROVE Sum(t, f)' = Sum(t, f)
        BY <2>3, Zenon DEF Sum
      <3>3. QED
        BY <3>1, <3>2, <2>2, <2>3, Zenon DEF Explains, Bounded
    <2>6. Explains(lost, d, w, r)'
      BY <2>4, <2>5, Zenon DEF Explains
    <2>7. QED
      BY <2>1, <2>6, <1>a, Zenon DEF Explainable, Overshot
  <1>3. QED
    BY <1>1, <1>2, Zenon

\* What the explanation means for the real position.
LEMMA OvershotBound ==
    Overshot => OvershootBound
  <1> SUFFICES ASSUME Overshot PROVE OvershootBound
    BY Zenon
  <1> USE OrderFlowAssumption
  <1> DEFINE bound == 100 * (MaxPosition * (restarts + 1) + OrderSize * failures)
  <1>a. Known
    BY Zenon DEF Overshot
  <1>1. PICK lost \in SUBSET Ids, d \in Amounts, w \in Amounts, r \in Amounts : Explains(lost, d, w, r)
    BY ZenonT(60) DEF Overshot, Explainable
  <1>2. restarts \in Nat /\ failures \in Nat /\ truth \in Int
    BY <1>a DEF Known, TypeOK
  <1>3. /\ bound = Allow(restarts, failures) + 100 * MaxPosition /\ bound \in Nat
        /\ Allow(restarts, failures) \in Nat
    <2>1. /\ Allow(restarts, failures) \in Nat
          /\ Allow(restarts + 1, failures) = Allow(restarts, failures) + 100 * MaxPosition
      <3> HIDE DEF bound
      <3>1. Grows(restarts, failures)
        BY <1>2, AllowGrows, Zenon
      <3>2. QED
        BY <3>1, Zenon DEF Grows
    <2>2. bound = Allow(restarts + 1, failures)
      BY Zenon DEF Allow
    <2>3. QED
      BY <2>1, <2>2
  <1> HIDE DEF bound
  <1>4. ASSUME NEW s \in OrderSides PROVE Signed(s, truth) <= bound
    <2>1. Bounded(s, d, w, r)
      BY <1>1, Zenon DEF Explains
    <2>2. /\ Signed(s, truth) \in Int /\ Signed(s, carried) \in Int /\ Signed(s, exposure) \in Int
          /\ Sum(s, d) \in Nat /\ Sum(s, w) \in Nat /\ Sum(Opposite(s), r) \in Nat
          /\ MaxPosition \in Nat /\ OrderSize \in Nat
      BY <1>a, Numbers, Zenon
    <2>3. Within(Signed(s, truth), Signed(s, carried), Signed(s, exposure), Filled(s),
                 Allow(restarts, failures), Sum(s, d), Sum(s, w), Sum(Opposite(s), r))
      BY <2>1, Zenon DEF Bounded
    <2>4. CASE waiting = 0
      <3>1. Filled(s) = 0
        BY <2>4, Zenon DEF Filled
      <3>2. QED
        BY <3>1, <2>2, <2>3, <1>3 DEF Within
    <2>5. CASE waiting # 0
      <3>1. side[waiting] \in OrderSides /\ answer.filled \in 0 .. 100 * OrderSize /\ answer.filled \in Int
        BY <2>5, <1>a DEF Known, TypeOK
      <3>2. Filled(s) = Signed(s, Signed(side[waiting], answer.filled))
        BY <2>5, Zenon DEF Filled
      <3>3. /\ s = side[waiting] => Filled(s) = answer.filled
            /\ s # side[waiting] => Filled(s) = -answer.filled
        BY <3>1, <3>2, SignedTwice, ZenonT(60)
      <3>4. CASE s = side[waiting]
        <4>1. Signed(s, exposure) + OrderSize <= MaxPosition
          BY <3>4, <2>1, <2>5, ZenonT(60) DEF Bounded
        <4>2. QED
          BY <4>1, <3>1, <3>3, <3>4, <2>2, <2>3, <1>3 DEF Within
      <3>5. CASE s # side[waiting]
        BY <3>1, <3>3, <3>5, <2>2, <2>3, <1>3 DEF Within
      <3>6. QED
        BY <3>4, <3>5, Zenon
    <2>6. QED
      BY <2>4, <2>5, Zenon
  <1>5. truth <= bound /\ -truth <= bound
    <2>1. Signed("Bid", truth) <= bound /\ Signed("Ask", truth) <= bound
      BY <1>4, Zenon DEF OrderSides
    <2>2. QED
      BY <2>1, <1>2, Zenon DEF Signed
  <1>6. truth \in -bound .. bound
    BY <1>2, <1>3, <1>5
  <1>7. QED
    BY <1>6, Zenon DEF OvershootBound, bound

\* For every cap and order size, however many answers are lost or dropped, however late
\* the exchange executes orders, whatever becomes of their fills and wherever the process
\* was when it ended: the account's position stays within one cap for each run of the bot
\* and one order for each outcome it did not learn (trading_bot.cpp:58-72,
\* trading_bot.hpp:24-27).
THEOREM OvershootIsBounded ==
    Spec => []OvershootBound
  BY InitOvershot, OvershotStep, OvershotBound, PTL DEF Spec
=============================================================================
