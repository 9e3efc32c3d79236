--------------------------- MODULE RunLoopProofs ---------------------------
(***************************************************************************)
(* Proofs about RunLoop, for every limit of the backoff and any number of  *)
(* sessions: what a stop request still lets happen, that nothing else ends *)
(* a bot, and how long it waits between two sessions.                      *)
(***************************************************************************)
EXTENDS RunLoop, WellFoundedInduction, TLAPS

USE SMTT(60), Z3T(60), ZenonT(60)

\* std::min of two numbers.
LEMMA MinOfTwo ==
    ASSUME NEW a \in Int, NEW b \in Int
    PROVE  Min({a, b}) = IF a <= b THEN a ELSE b
  <1> DEFINE m == IF a <= b THEN a ELSE b
  <1>1. m \in {a, b} /\ \A y \in {a, b} : m <= y
    OBVIOUS
  <1>2. \A x \in {a, b} : (\A y \in {a, b} : x <= y) => x = m
    OBVIOUS
  <1> HIDE DEF m
  <1>3. (CHOOSE x \in {a, b} : \A y \in {a, b} : x <= y) = m
    BY <1>1, <1>2
  <1>4. QED
    BY <1>3 DEF Min, m

\* The flags.
Flags == g_running \in BOOLEAN /\ received_data \in BOOLEAN

\* g_running as a number, for the provers' sake.
alive == IF g_running THEN 1 ELSE 0

\* The counters: the wait counts up to the backoff, and a frame is read only by a
\* thread that found the bot running, so none has been handled since a stop request.
\* The places of fund_shard are reached by its command only.
Counters ==
    /\ pc \in Places /\ task \in {"bot", "fund"} /\ code \in {0, 1}
    /\ backoff \in 1 .. kMaxReconnectBackoff
    /\ waited \in 0 .. kMaxReconnectBackoff /\ slept \in 0 .. kMaxReconnectBackoff
    /\ fruitless \in Nat /\ sessions \in 0 .. MaxSessions /\ handled \in 0 .. 1
    /\ pc = "sleep" => slept = waited /\ waited <= backoff
    /\ alive \in {0, 1} /\ (alive = 1 => handled = 0)
    /\ pc \in {"read", "blocked"} => handled = 0
    /\ pc \in {"balance", "transfer", "pause", "balance_again"} => task = "fund"
    /\ pc = "exited" /\ task = "bot" /\ code = 0 => alive = 0

Loop == Flags /\ Counters

Running == Places \ {"balance", "transfer", "pause", "balance_again", "sleep", "exited"}

\* A step within a session that leaves the counters alone.
LEMMA QuietStep ==
    ASSUME Counters,
           task' = task, code' = code, backoff' = backoff, waited' = waited,
           fruitless' = fruitless, slept' = slept, sessions' = sessions, handled' = handled,
           alive' \in {alive, 0},
           pc' \in Running,
           pc' \in {"read", "blocked"} => alive = 1 \/ pc \in {"read", "blocked"}
    PROVE  Counters'
  BY DEF Counters, Running, Places

\* main and fund_shard.
LEMMA MainStep ==
    ASSUME Loop, Main
    PROVE  Loop'
  <1> USE DEF Goto, control, history
  <1>0. g_running' = g_running /\ received_data' = received_data
    BY Zenon DEF Main, LoadFails, TransferFails, FundDone, Exit, Load, FundStep, OpenHttp
  <1>1. /\ task' = task /\ backoff' = backoff /\ waited' = waited
        /\ fruitless' = fruitless /\ slept' = slept /\ sessions' = sessions /\ handled' = handled
    BY Zenon DEF Main, LoadFails, TransferFails, FundDone, Exit, Load, FundStep, OpenHttp
  <1>2. \/ pc = "start" /\ pc' = "exited" /\ code' = 1
        \/ pc = "transfer" /\ pc' = "exited" /\ code' = 1
        \/ pc = "balance_again" /\ pc' = "exited" /\ code' = 0
        \/ pc = "start" /\ pc' = "balance" /\ task = "fund" /\ code' = code
        \/ pc = "start" /\ pc' = "open_http" /\ code' = code
        \/ pc = "balance" /\ pc' = "transfer" /\ code' = code
        \/ pc = "transfer" /\ pc' = "pause" /\ code' = code
        \/ pc = "pause" /\ pc' = "balance_again" /\ code' = code
        \/ pc = "open_http" /\ pc' = "while" /\ code' = code
    BY Zenon DEF Main, LoadFails, TransferFails, FundDone, Exit, Load, FundStep, OpenHttp
  <1>3. Counters /\ Flags
    BY DEF Loop
  <1>4. Counters'
    <2>1. alive' = alive
      BY <1>0, Zenon DEF alive
    <2>2. QED
      BY <1>1, <1>2, <1>3, <2>1 DEF Counters, Places
  <1>5. Flags'
    BY <1>0, <1>3, Zenon DEF Flags
  <1>6. QED
    BY <1>4, <1>5 DEF Loop

\* run_session, from connecting to the end.
LEMMA SessionStep ==
    ASSUME Loop, Session
    PROVE  Loop'
  <1> USE DEF Goto, control, history
  <1>1. /\ task' = task /\ code' = code /\ backoff' = backoff /\ waited' = waited
        /\ fruitless' = fruitless /\ slept' = slept /\ sessions' = sessions /\ handled' = handled
    BY Zenon DEF Session, ConnectFails, Connects, LoopTest, Block, ReceiveFails, FrameEndsSession,
        FrameStopsBot, FrameSkipped, FrameOther, FrameUpdatesBook, OrderDone, Housekeep
  <1>2. /\ g_running' \in {g_running, FALSE}
        /\ received_data' \in {received_data, FALSE}
              \/ \E is_snapshot \in BOOLEAN : received_data' = (received_data \/ is_snapshot)
    BY Zenon DEF Session, ConnectFails, Connects, LoopTest, Block, ReceiveFails, FrameEndsSession,
        FrameStopsBot, FrameSkipped, FrameOther, FrameUpdatesBook, OrderDone, Housekeep
  <1>3. /\ pc' \in {"ended", "loop", "read", "blocked", "order", "housekeep"}
        /\ pc' = "read" => alive = 1
        /\ pc' = "blocked" => pc = "read"
    BY Zenon DEF alive, Session, ConnectFails, Connects, LoopTest, Block, ReceiveFails, FrameEndsSession,
        FrameStopsBot, FrameSkipped, FrameOther, FrameUpdatesBook, OrderDone, Housekeep
  <1>4. alive' \in {alive, 0}
    <2>1. CASE g_running' = g_running
      BY <2>1, Zenon DEF alive
    <2>2. CASE g_running' = FALSE
      BY <2>2, Zenon DEF alive
    <2>3. QED
      BY <1>2, <2>1, <2>2, Zenon
  <1>5. Counters'
    <2>1. pc' \in Running /\ (pc' \in {"read", "blocked"} => alive = 1 \/ pc \in {"read", "blocked"})
      BY <1>3 DEF Running, Places
    <2>2. QED
      BY <1>1, <1>4, <2>1, QuietStep DEF Loop
  <1>6. Flags'
    BY <1>2, Zenon DEF Loop, Flags
  <1>7. QED
    BY <1>5, <1>6 DEF Loop

\* run: the wait between two sessions.
LEMMA OuterStep ==
    ASSUME Loop, Outer
    PROVE  Loop'
  <1> USE RunLoopAssumption DEF Goto, control, history
  <1>0. g_running' = g_running /\ received_data' = received_data
    BY Zenon DEF Outer, WhileTest, AfterSession, SleepOneSecond, EndSleep
  <1>1. task' = task /\ code' = code /\ handled' = handled
    BY Zenon DEF Outer, WhileTest, AfterSession, SleepOneSecond, EndSleep
  <1>2. alive' = alive
    BY <1>0, Zenon DEF alive
  <1>3. Counters
    BY DEF Loop
  <1>4. Flags'
    BY <1>0, Zenon DEF Loop, Flags
  <1>5. CASE WhileTest
    <2>1. /\ (pc' = "connect" \/ (pc' = "exited" /\ alive = 0))
          /\ backoff' = backoff /\ waited' = waited /\ fruitless' = fruitless /\ slept' = slept
          /\ (sessions' = sessions \/ (sessions' = sessions + 1 /\ sessions < MaxSessions))
      BY <1>5, Zenon DEF WhileTest, alive
    <2>2. Counters'
      BY <1>1, <1>2, <1>3, <2>1 DEF Counters, Places
    <2>3. QED
      BY <1>4, <2>2 DEF Loop
  <1>6. CASE AfterSession
    <2>1. /\ (pc' = "sleep" \/ (pc' = "exited" /\ alive = 0))
          /\ backoff' \in {1, backoff} /\ fruitless' \in {0, fruitless}
          /\ waited' = 0 /\ slept' = 0 /\ sessions' = sessions
      BY <1>6, Zenon DEF AfterSession, alive
    <2>2. Counters'
      BY <1>1, <1>2, <1>3, <2>1 DEF Counters, Places
    <2>3. QED
      BY <1>4, <2>2 DEF Loop
  <1>7. CASE SleepOneSecond
    <2>1. /\ pc = "sleep" /\ pc' = pc /\ waited < backoff /\ waited' = waited + 1 /\ slept' = slept + 1
          /\ backoff' = backoff /\ fruitless' = fruitless /\ sessions' = sessions
      BY <1>7, Zenon DEF SleepOneSecond
    <2>2. Counters'
      BY <1>1, <1>2, <1>3, <2>1 DEF Counters, Places
    <2>3. QED
      BY <1>4, <2>2 DEF Loop
  <1>8. CASE EndSleep
    <2>1. /\ pc' = "while" /\ backoff' = NextBackoff /\ fruitless' = fruitless + 1
          /\ waited' = waited /\ slept' = slept /\ sessions' = sessions
      BY <1>8, Zenon DEF EndSleep
    <2>2. backoff \in Int /\ backoff >= 1 /\ backoff * 2 \in Int
      BY <1>3 DEF Counters
    <2>3. NextBackoff = IF backoff * 2 <= kMaxReconnectBackoff THEN backoff * 2 ELSE kMaxReconnectBackoff
      BY <2>2, MinOfTwo DEF NextBackoff
    <2>4. NextBackoff \in 1 .. kMaxReconnectBackoff
      BY <2>2, <2>3
    <2>5. Counters'
      BY <1>1, <1>2, <1>3, <2>1, <2>4 DEF Counters, Places
    <2>6. QED
      BY <1>4, <2>5 DEF Loop
  <1>9. QED
    BY <1>5, <1>6, <1>7, <1>8 DEF Outer

\* A frame, a signal, or nothing.
LEMMA EnvironmentStep ==
    ASSUME Loop, FrameArrives \/ Signal \/ UNCHANGED vars
    PROVE  Loop'
  <1> USE DEF Goto, control, history
  <1>0. Counters /\ Flags
    BY DEF Loop
  <1>1. CASE FrameArrives
    <2>1. /\ pc \in {"read", "blocked"} /\ pc' = "handle"
          /\ (handled' = 0 \/ (handled' = Min({handled + 1, 2}) /\ alive = 0))
          /\ task' = task /\ code' = code /\ backoff' = backoff /\ waited' = waited
          /\ fruitless' = fruitless /\ slept' = slept /\ sessions' = sessions
      BY <1>1, Zenon DEF FrameArrives, alive
    <2>2. g_running' = g_running /\ received_data' = received_data
      BY <1>1, Zenon DEF FrameArrives
    <2>3. handled = 0
      BY <1>0, <2>1 DEF Counters
    <2>4. Min({handled + 1, 2}) = 1
      <3>1. Min({1, 2}) = 1
        BY MinOfTwo
      <3>2. handled + 1 = 1
        BY <2>3
      <3>3. QED
        BY <3>1, <3>2
    <2>5. alive' = alive
      BY <2>2, Zenon DEF alive
    <2>6. Counters'
      BY <1>0, <2>1, <2>4, <2>5, RunLoopAssumption DEF Counters, Places
    <2>7. QED
      BY <1>0, <2>2, <2>6, Zenon DEF Loop, Flags
  <1>2. CASE Signal
    <2>1. /\ (pc' = pc \/ (pc' = "interrupted" /\ pc = "blocked"))
          /\ alive' = 0 /\ task' = task /\ code' = code /\ backoff' = backoff /\ waited' = waited
          /\ fruitless' = fruitless /\ slept' = slept /\ sessions' = sessions /\ handled' = handled
      BY <1>2, Zenon DEF Signal, alive
    <2>2. g_running' = FALSE /\ received_data' = received_data
      BY <1>2, Zenon DEF Signal
    <2>3. Counters'
      BY <1>0, <2>1 DEF Counters, Places
    <2>4. QED
      BY <1>0, <2>2, <2>3, Zenon DEF Loop, Flags
  <1>3. CASE UNCHANGED vars
    BY <1>3, Zenon DEF vars, Loop, Counters, Flags, alive
  <1>4. QED
    BY <1>1, <1>2, <1>3

LEMMA LoopInvariant ==
    Spec => []Loop
  <1>1. Init => Loop
    <2>1. Init => Flags
      BY Zenon DEF Init, Flags
    <2>2. Init => /\ pc = "start" /\ task \in {"bot", "fund"} /\ code = 0 /\ backoff = 1 /\ waited = 0
                  /\ fruitless = 0 /\ slept = 0 /\ sessions = 0 /\ handled = 0 /\ alive = 1
      BY Zenon DEF Init, alive
    <2>3. Init => Counters
      BY <2>2, RunLoopAssumption DEF Counters, Places
    <2>4. QED
      BY <2>1, <2>3 DEF Loop
  <1>2. Loop /\ [Next]_vars => Loop'
    BY MainStep, SessionStep, OuterStep, EnvironmentStep DEF Next
  <1>3. QED
    BY <1>1, <1>2, PTL DEF Spec

\* Wherever a stop request finds the thread, it handles at most one more frame
\* (trading_bot.cpp:156-157).
THEOREM StopIsPrompt ==
    Spec => []OneFrameAfterStop
  <1>1. Loop => OneFrameAfterStop
    BY DEF Loop, Counters, OneFrameAfterStop
  <1>2. QED
    BY <1>1, LoopInvariant, PTL

\* Only a stop request ends a bot that has started (trading_bot.cpp:238-250).
THEOREM OnlyStopEnds ==
    Spec => []RunsUntilStopped
  <1>1. Loop => RunsUntilStopped
    <2>1. Counters /\ pc = "exited" /\ task = "bot" => alive = 0 \/ code = 1
      BY DEF Counters
    <2>2. alive = 0 => ~g_running
      BY DEF alive
    <2>3. QED
      BY <2>1, <2>2, Zenon DEF Loop, RunsUntilStopped
  <1>2. QED
    BY <1>1, LoopInvariant, PTL

\* The wait between two sessions never exceeds the limit (trading_bot.cpp:247-249).
THEOREM BackoffIsLimited ==
    Spec => []TypeOK
  <1>1. Loop => TypeOK
    <2>1. Counters => handled \in 0 .. 2
      BY RunLoopAssumption DEF Counters, Places
    <2>2. QED
      BY <2>1, Zenon DEF Loop, Flags, Counters, TypeOK
  <1>2. QED
    BY <1>1, LoopInvariant, PTL

-----------------------------------------------------------------------------
\* Every non-empty set of natural numbers has a least element.
LEMMA LeastNat ==
    ASSUME NEW T, T \subseteq Nat, T # {}
    PROVE  \E k \in T : \A m \in T : k <= m
  <1>1. PICK k \in T : \A m \in T : ~(<<m, k>> \in OpToRel(<, Nat))
    BY NatLessThanWellFounded, WFMin, Zenon
  <1>2. ASSUME NEW m \in T
        PROVE  k <= m
    <2>1. k \in Nat /\ m \in Nat
      OBVIOUS
    <2>2. ~(m < k)
      BY <1>1, <2>1, Zenon DEF OpToRel
    <2>3. QED
      BY <2>1, <2>2
  <1>3. QED
    BY <1>2

\* g holds the powers of two up to the n-th.
Doubles(g, n) ==
    /\ g \in [0 .. n -> Nat \ {0}] /\ g[0] = 1
    /\ \A i \in 1 .. n : g[i] = 2 * g[i - 1]

\* For every n there is such a function: a least n without one would be 0, or the
\* successor of a number that has one.
LEMMA DoublesExist ==
    \A n \in Nat : \E g : Doubles(g, n)
  <1> DEFINE T == {n \in Nat : ~\E g : Doubles(g, n)}
  <1>1. SUFFICES ASSUME T # {}
                 PROVE  FALSE
    OBVIOUS
  <1>2. T \subseteq Nat
    OBVIOUS
  <1>3. PICK k \in T : \A m \in T : k <= m
    BY <1>1, <1>2, LeastNat, Zenon
  <1>4. CASE k = 0
    <2>1. Doubles([i \in 0 .. 0 |-> 1], 0)
      BY DEF Doubles
    <2>2. QED
      BY <1>4, <2>1
  <1>5. CASE k # 0
    <2>1. k - 1 \in Nat /\ k \in Nat /\ k - 1 \notin T
      BY <1>3, <1>5
    <2>2. PICK g : Doubles(g, k - 1)
      BY <2>1
    <2>3. g[k - 1] \in Nat \ {0}
      BY <2>1, <2>2 DEF Doubles
    <2> DEFINE h == [i \in 0 .. k |-> IF i = k THEN 2 * g[k - 1] ELSE g[i]]
    <2>4. \A i \in 0 .. k : h[i] = IF i = k THEN 2 * g[k - 1] ELSE g[i]
      OBVIOUS
    <2>5. h \in [0 .. k -> Nat \ {0}]
      <3>1. \A i \in 0 .. k : i # k => i \in 0 .. k - 1
        BY <2>1
      <3>2. \A i \in 0 .. k : (IF i = k THEN 2 * g[k - 1] ELSE g[i]) \in Nat \ {0}
        BY <2>1, <2>2, <2>3, <3>1 DEF Doubles
      <3>3. QED
        BY <3>2
    <2> HIDE DEF h
    <2>6. h[0] = 1
      BY <1>5, <2>1, <2>2, <2>4 DEF Doubles
    <2>7. ASSUME NEW i \in 1 .. k
          PROVE  h[i] = 2 * h[i - 1]
      <3>1. i \in 0 .. k /\ i - 1 \in 0 .. k /\ i - 1 # k
        BY <2>1
      <3>2. h[i - 1] = g[i - 1]
        BY <2>4, <3>1
      <3>3. CASE i = k
        BY <2>4, <3>1, <3>2, <3>3
      <3>4. CASE i # k
        <4>1. i \in 1 .. k - 1
          BY <2>1, <3>4
        <4>2. g[i] = 2 * g[i - 1]
          BY <2>2, <4>1 DEF Doubles
        <4>3. QED
          BY <2>4, <3>1, <3>2, <3>4, <4>2
      <3>5. QED
        BY <3>3, <3>4
    <2>8. Doubles(h, k)
      BY <2>5, <2>6, <2>7 DEF Doubles
    <2>9. QED
      BY <2>8
  <1>6. QED
    BY <1>4, <1>5

\* Two such functions agree where both are defined.
LEMMA DoublesAgree ==
    ASSUME NEW n \in Nat, NEW m \in Nat, NEW g, NEW h, Doubles(g, n), Doubles(h, m),
           NEW i \in Nat, i <= n, i <= m
    PROVE  g[i] = h[i]
  <1> DEFINE T == {j \in Nat : j <= n /\ j <= m /\ g[j] # h[j]}
  <1>1. SUFFICES ASSUME T # {}
                 PROVE  FALSE
    OBVIOUS
  <1>2. T \subseteq Nat
    OBVIOUS
  <1>3. PICK k \in T : \A j \in T : k <= j
    BY <1>1, <1>2, LeastNat, Zenon
  <1>4. k \in Nat /\ k # 0 /\ k - 1 \in Nat /\ k - 1 \notin T
    BY <1>3 DEF Doubles
  <1>5. g[k - 1] = h[k - 1] /\ k \in 1 .. n /\ k \in 1 .. m
    BY <1>4
  <1>6. g[k] = 2 * g[k - 1] /\ h[k] = 2 * h[k - 1]
    BY <1>5 DEF Doubles
  <1>7. QED
    BY <1>5, <1>6

\* The definition of Doubled has a solution, so it says what it seems to say.
LEMMA DoubledIs ==
    Doubled = [n \in Nat |-> IF n = 0 THEN 1 ELSE 2 * Doubled[n - 1]]
  <1> DEFINE G(n) == CHOOSE g : Doubles(g, n)
             F == [n \in Nat |-> G(n)[n]]
  <1>1. \A n \in Nat : Doubles(G(n), n)
    BY DoublesExist, Zenon
  <1> HIDE DEF G
  <1>2. ASSUME NEW n \in Nat
        PROVE  F[n] = IF n = 0 THEN 1 ELSE 2 * F[n - 1]
    <2>1. CASE n = 0
      BY <1>1, <2>1 DEF Doubles
    <2>2. CASE n # 0
      <3>1. n - 1 \in Nat /\ n - 1 <= n /\ n - 1 <= n - 1 /\ n \in 1 .. n
        BY <2>2
      <3>2. Doubles(G(n), n) /\ Doubles(G(n - 1), n - 1)
        BY <1>1, <3>1
      <3>3. G(n)[n - 1] = G(n - 1)[n - 1]
        <4> DEFINE m == n - 1
                   g == G(n)
                   h == G(m)
        <4>1. m \in Nat /\ m <= n /\ m <= m /\ Doubles(g, n) /\ Doubles(h, m)
          BY <3>1, <3>2
        <4> HIDE DEF m, g, h
        <4>2. g[m] = h[m]
          BY <4>1, DoublesAgree
        <4>3. QED
          BY <4>2 DEF m, g, h
      <3>4. G(n)[n] = 2 * G(n)[n - 1]
        BY <3>1, <3>2 DEF Doubles
      <3>5. F[n] = G(n)[n] /\ F[n - 1] = G(n - 1)[n - 1]
        BY <3>1
      <3> HIDE DEF F
      <3>6. QED
        BY <2>2, <3>3, <3>4, <3>5
    <2>3. QED
      BY <2>1, <2>2
  <1>3. F = [n \in Nat |-> F[n]]
    OBVIOUS
  <1> HIDE DEF F
  <1>4. F = [n \in Nat |-> IF n = 0 THEN 1 ELSE 2 * F[n - 1]]
    BY <1>2, <1>3, Zenon
  <1>5. QED
    BY <1>4, Zenon DEF Doubled

\* The wait starts at one second and doubles.
LEMMA DoubledFacts ==
    /\ Doubled[0] = 1
    /\ \A n \in Nat : Doubled[n] \in Nat \ {0} /\ Doubled[n + 1] = 2 * Doubled[n]
  <1>1. ASSUME NEW n \in Nat
        PROVE  Doubled[n] = IF n = 0 THEN 1 ELSE 2 * Doubled[n - 1]
    BY DoubledIs, Zenon
  <1>2. Doubled[0] = 1
    BY <1>1
  <1>3. ASSUME NEW n \in Nat
        PROVE  Doubled[n + 1] = 2 * Doubled[n]
    <2>1. n + 1 \in Nat /\ n + 1 # 0 /\ (n + 1) - 1 = n
      OBVIOUS
    <2>2. Doubled[n + 1] = IF n + 1 = 0 THEN 1 ELSE 2 * Doubled[(n + 1) - 1]
      BY <1>1, <2>1
    <2>3. QED
      BY <2>1, <2>2
  <1>4. ASSUME NEW n \in Nat
        PROVE  Doubled[n] \in Nat \ {0}
    <2> DEFINE T == {j \in Nat : Doubled[j] \notin Nat \ {0}}
    <2>1. SUFFICES ASSUME T # {}
                   PROVE  FALSE
      OBVIOUS
    <2>2. T \subseteq Nat
      OBVIOUS
    <2>3. PICK k \in T : \A j \in T : k <= j
      BY <2>1, <2>2, LeastNat, Zenon
    <2>4. k \in Nat /\ k # 0 /\ k - 1 \in Nat /\ k - 1 \notin T
      BY <1>2, <2>3
    <2>5. Doubled[k - 1] \in Nat \ {0} /\ Doubled[(k - 1) + 1] = 2 * Doubled[k - 1]
      BY <1>3, <2>4
    <2>6. (k - 1) + 1 = k
      BY <2>4
    <2>7. QED
      BY <2>5, <2>6
  <1>5. QED
    BY <1>2, <1>3, <1>4

\* The n-th wait: doubled n times, up to the limit.
Wait(n) == Min({Doubled[n], kMaxReconnectBackoff})

\* One doubling of the wait is one more in the count.
LEMMA WaitFacts ==
    /\ Wait(0) = 1
    /\ \A n \in Nat : Wait(n) \in Nat /\ Min({Wait(n) * 2, kMaxReconnectBackoff}) = Wait(n + 1)
  <1> USE RunLoopAssumption
  <1>1. ASSUME NEW n \in Nat
        PROVE  /\ Doubled[n] \in Nat \ {0}
               /\ Wait(n) = IF Doubled[n] <= kMaxReconnectBackoff THEN Doubled[n] ELSE kMaxReconnectBackoff
    <2>1. Doubled[n] \in Nat \ {0}
      BY DoubledFacts
    <2>2. QED
      BY <2>1, MinOfTwo DEF Wait
  <1>2. Wait(0) = 1
    BY <1>1, DoubledFacts
  <1>3. ASSUME NEW n \in Nat
        PROVE  Wait(n) \in Nat /\ Min({Wait(n) * 2, kMaxReconnectBackoff}) = Wait(n + 1)
    <2>1. Wait(n) \in Nat
      BY <1>1
    <2>2. Min({Wait(n) * 2, kMaxReconnectBackoff})
            = IF Wait(n) * 2 <= kMaxReconnectBackoff THEN Wait(n) * 2 ELSE kMaxReconnectBackoff
      BY <2>1, MinOfTwo
    <2>3. Doubled[n + 1] = 2 * Doubled[n] /\ n + 1 \in Nat
      BY DoubledFacts
    <2>4. QED
      BY <1>1, <2>2, <2>3
  <1>4. QED
    BY <1>2, <1>3

\* The last wait was the one that was due.
Waited == fruitless \in Nat \ {0} /\ slept = Wait(fruitless - 1)

\* What FullBackoff needs: backoff counts the fruitless sessions, no session has
\* started before run, and a bot that is still running left the sleep only when
\* the whole wait was over.
Due ==
    /\ backoff = Wait(fruitless)
    /\ pc \in {"start", "balance", "transfer", "pause", "balance_again", "open_http"} => sessions = 0
    /\ pc = "while" /\ alive = 1 /\ sessions > 0 => Waited
    /\ pc = "connect" /\ sessions > 1 => Waited

\* A step that leaves the wait alone and does not lead to the loop's head.
LEMMA DueKept ==
    ASSUME Due, backoff' = backoff, fruitless' = fruitless, slept' = slept, sessions' = sessions,
           alive' \in {alive, 0},
           \/ pc' = pc
           \/ pc' \notin {"start", "balance", "transfer", "pause", "balance_again", "open_http",
                          "while", "connect"}
           \/ pc' # "connect" /\ pc \in {"start", "balance", "transfer", "pause", "balance_again", "open_http"}
    PROVE  Due'
  <1>1. Waited => Waited'
    BY DEF Waited, Wait
  <1>2. alive' = 1 => alive = 1
    OBVIOUS
  <1>3. backoff' = Wait(fruitless')
    BY DEF Due
  <1> DEFINE Early == {"start", "balance", "transfer", "pause", "balance_again", "open_http"}
  <1>4. pc' \in Early => sessions' = 0
    BY DEF Due
  <1>5. pc' = "while" /\ alive' = 1 /\ sessions' > 0 => Waited'
    BY <1>1, <1>2 DEF Due
  <1>6. pc' = "connect" /\ sessions' > 1 => Waited'
    BY <1>1 DEF Due
  <1>7. QED
    BY <1>3, <1>4, <1>5, <1>6, Zenon DEF Due, Wait

\* The steps of run; only they touch the wait.
LEMMA OuterDue ==
    ASSUME Loop, Due, Outer
    PROVE  Due'
  <1> USE DEF Goto, control, history
  <1>0. g_running' = g_running /\ received_data' = received_data
    BY Zenon DEF Outer, WhileTest, AfterSession, SleepOneSecond, EndSleep
  <1>1. alive' = alive
    BY <1>0, Zenon DEF alive
  <1>2. Counters
    BY DEF Loop
  <1>3. CASE WhileTest
    <2>1. /\ pc = "while"
          /\ \/ pc' = "connect" /\ alive = 1 /\ sessions' = sessions + 1
             \/ pc' = "exited" /\ sessions' = sessions
          /\ backoff' = backoff /\ fruitless' = fruitless /\ slept' = slept
      BY <1>3, Zenon DEF WhileTest, alive
    <2>2. Waited => Waited'
      BY <2>1 DEF Waited, Wait
    <2>3. sessions \in Nat
      BY <1>2, RunLoopAssumption DEF Counters
    <2>4. backoff' = Wait(fruitless')
      BY <2>1 DEF Due
    <2>5. pc' = "connect" /\ sessions' > 1 => Waited'
      BY <2>1, <2>2, <2>3 DEF Due
    <2>6. pc' # "while" /\ pc' \notin {"start", "balance", "transfer", "pause", "balance_again", "open_http"}
      BY <2>1
    <2>7. QED
      BY <2>4, <2>5, <2>6, Zenon DEF Due, Wait
  <1>4. CASE AfterSession
    <2>1. /\ pc' \in {"sleep", "exited"}
          /\ (backoff' = 1 /\ fruitless' = 0) \/ (backoff' = backoff /\ fruitless' = fruitless)
      BY <1>4, Zenon DEF AfterSession
    <2>2. backoff' = Wait(fruitless')
      BY <2>1, WaitFacts DEF Due
    <2>3. pc' \notin {"while", "connect", "start", "balance", "transfer", "pause", "balance_again", "open_http"}
      BY <2>1
    <2>4. QED
      BY <2>2, <2>3, Zenon DEF Due, Wait
  <1>5. CASE SleepOneSecond
    <2>1. pc = "sleep" /\ pc' = pc /\ backoff' = backoff /\ fruitless' = fruitless
      BY <1>5, Zenon DEF SleepOneSecond
    <2>2. backoff' = Wait(fruitless')
      BY <2>1 DEF Due
    <2>3. pc' \notin {"while", "connect", "start", "balance", "transfer", "pause", "balance_again", "open_http"}
      BY <2>1
    <2>4. QED
      BY <2>2, <2>3, Zenon DEF Due, Wait
  <1>6. CASE EndSleep
    <2>1. /\ pc = "sleep" /\ pc' = "while" /\ backoff' = NextBackoff /\ fruitless' = fruitless + 1
          /\ slept' = slept /\ sessions' = sessions
      BY <1>6, Zenon DEF EndSleep
    <2>2. alive = 1 => ~(waited < backoff)
      <3>1. g_running => ~(waited < backoff)
        BY <1>6, Zenon DEF EndSleep
      <3>2. alive = 1 => g_running
        BY DEF alive
      <3>3. QED
        BY <3>1, <3>2, Zenon
    <2>3. /\ fruitless \in Nat /\ slept = waited /\ waited <= backoff
          /\ waited \in Int /\ backoff \in Int
      BY <1>2, <2>1, RunLoopAssumption DEF Counters
    <2>4. backoff = Wait(fruitless)
      BY DEF Due
    <2>5. backoff' = Wait(fruitless')
      BY <2>1, <2>3, <2>4, WaitFacts DEF NextBackoff
    <2>6. alive = 1 => Waited'
      <3>1. fruitless' \in Nat \ {0} /\ fruitless' - 1 = fruitless
        BY <2>1, <2>3
      <3>2. alive = 1 => slept' = Wait(fruitless)
        BY <2>1, <2>2, <2>3, <2>4
      <3>3. QED
        BY <3>1, <3>2 DEF Waited, Wait
    <2>7. pc' # "connect" /\ pc' \notin {"start", "balance", "transfer", "pause", "balance_again", "open_http"}
      BY <2>1
    <2>8. QED
      BY <1>1, <2>5, <2>6, <2>7, Zenon DEF Due, Wait
  <1>7. QED
    BY <1>3, <1>4, <1>5, <1>6 DEF Outer

\* The other steps.
LEMMA OtherDue ==
    ASSUME Loop, Due, Main \/ Session \/ FrameArrives \/ Signal \/ UNCHANGED vars
    PROVE  Due'
  <1> USE DEF Goto, control, history
  <1> DEFINE Early == {"start", "balance", "transfer", "pause", "balance_again", "open_http"}
  <1>1. CASE Main
    <2>1. /\ backoff' = backoff /\ fruitless' = fruitless /\ slept' = slept /\ sessions' = sessions
          /\ g_running' = g_running
      BY <1>1, Zenon DEF Main, LoadFails, TransferFails, FundDone, Exit, Load, FundStep, OpenHttp
    <2>2. pc \in Early /\ pc' \in Early \union {"while", "exited"}
      BY <1>1, Zenon DEF Main, LoadFails, TransferFails, FundDone, Exit, Load, FundStep, OpenHttp
    <2>3. alive' = alive
      BY <2>1, Zenon DEF alive
    <2>4. pc' # "connect"
      BY <2>2
    <2>5. QED
      BY <2>1, <2>2, <2>3, <2>4, DueKept
  <1>2. CASE Session
    <2>1. /\ backoff' = backoff /\ fruitless' = fruitless /\ slept' = slept /\ sessions' = sessions
          /\ g_running' \in {g_running, FALSE}
      BY <1>2, Zenon DEF Session, ConnectFails, Connects, LoopTest, Block, ReceiveFails, FrameEndsSession,
          FrameStopsBot, FrameSkipped, FrameOther, FrameUpdatesBook, OrderDone, Housekeep
    <2>2. pc' \in {"ended", "loop", "read", "blocked", "order", "housekeep"}
      BY <1>2, Zenon DEF Session, ConnectFails, Connects, LoopTest, Block, ReceiveFails, FrameEndsSession,
          FrameStopsBot, FrameSkipped, FrameOther, FrameUpdatesBook, OrderDone, Housekeep
    <2>3. alive' \in {alive, 0}
      <3>1. CASE g_running' = g_running
        BY <3>1, Zenon DEF alive
      <3>2. CASE g_running' = FALSE
        BY <3>2, Zenon DEF alive
      <3>3. QED
        BY <2>1, <3>1, <3>2, Zenon
    <2>4. pc' \notin Early \union {"while", "connect"}
      BY <2>2
    <2>5. QED
      BY <2>1, <2>3, <2>4, DueKept
  <1>3. CASE FrameArrives
    <2>1. /\ backoff' = backoff /\ fruitless' = fruitless /\ slept' = slept /\ sessions' = sessions
          /\ g_running' = g_running /\ pc' = "handle"
      BY <1>3, Zenon DEF FrameArrives
    <2>2. alive' = alive
      BY <2>1, Zenon DEF alive
    <2>3. QED
      BY <2>1, <2>2, DueKept
  <1>4. CASE Signal
    <2>1. /\ backoff' = backoff /\ fruitless' = fruitless /\ slept' = slept /\ sessions' = sessions
          /\ alive' = 0 /\ (pc' = pc \/ pc' = "interrupted")
      BY <1>4, Zenon DEF Signal, alive
    <2>2. QED
      BY <2>1, DueKept
  <1>5. CASE UNCHANGED vars
    <2>1. /\ backoff' = backoff /\ fruitless' = fruitless /\ slept' = slept /\ sessions' = sessions
          /\ alive' = alive /\ pc' = pc
      BY <1>5, Zenon DEF vars, alive
    <2>2. QED
      BY <2>1, DueKept
  <1>6. QED
    BY <1>1, <1>2, <1>3, <1>4, <1>5

\* Before every session but the first the bot has slept the whole exponential
\* backoff (trading_bot.cpp:239-249), for every limit and any number of sessions.
THEOREM BackoffIsFull ==
    Spec => []FullBackoff
  <1>1. Init => Due
    <2>1. Init => pc = "start" /\ backoff = 1 /\ fruitless = 0 /\ sessions = 0
      BY Zenon DEF Init
    <2>2. QED
      BY <2>1, WaitFacts DEF Due
  <1>2. Loop /\ Due /\ [Next]_vars => Due'
    BY OuterDue, OtherDue DEF Next
  <1>3. Due => FullBackoff
    BY DEF Due, Waited, Wait, FullBackoff
  <1>4. QED
    BY <1>1, <1>2, <1>3, LoopInvariant, PTL DEF Spec
=============================================================================
