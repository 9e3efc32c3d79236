------------------------------ MODULE RunLoop ------------------------------
(***************************************************************************)
(* The control flow of the program's one thread: main and fund_shard       *)
(* (main.cpp), TradingBot::run and run_session                             *)
(* (src/trading/trading_bot.cpp), with the signal handler that stops them. *)
(*                                                                         *)
(* pc names the places between which a signal can arrive.  The frame's     *)
(* content is abstracted to what it does to the control flow; BookFeed and *)
(* OrderFlow model what it does to the book and to the orders.             *)
(***************************************************************************)
EXTENDS Integers, FiniteSetsExt

CONSTANTS kMaxReconnectBackoff,  \* seconds
          MaxSessions            \* bound: sessions counted

ASSUME RunLoopAssumption ==
    kMaxReconnectBackoff \in Nat \ {0} /\ MaxSessions \in Nat

VARIABLES
    pc,
    task,             \* "bot" or "fund": what the command line asks for
    code,             \* the exit status, once the program has ended
    g_running,
    received_data,
    backoff, waited,  \* seconds
    fruitless,        \* history: sessions in a row that streamed no data
    slept,            \* history: seconds slept since the last session ended
    sessions,         \* history: sessions started
    handled           \* history: frames handled since the stop request, up to 2

control == <<task, code, g_running, received_data>>
history == <<fruitless, slept, sessions, handled>>
vars == <<pc, control, backoff, waited, history>>

Places ==
    {"start", "balance", "transfer", "pause", "balance_again", "open_http", "while",
     "connect", "loop", "read", "blocked", "interrupted", "handle", "order",
     "housekeep", "ended", "sleep", "exited"}

Init ==
    /\ pc = "start" /\ task \in {"bot", "fund"} /\ code = 0
    /\ g_running = TRUE /\ received_data = FALSE
    /\ backoff = 1 /\ waited = 0
    /\ fruitless = 0 /\ slept = 0 /\ sessions = 0 /\ handled = 0

Goto(from, to) == pc = from /\ pc' = to

-----------------------------------------------------------------------------
(* main *)

\* The program ends with status status.
Exit(from, status) ==
    /\ Goto(from, "exited")
    /\ code' = status
    /\ UNCHANGED <<task, g_running, received_data, backoff, waited, history>>

\* No credentials in the environment, or no usable private key.
LoadFails == Exit("start", 1)

Load ==
    /\ Goto("start", IF task = "fund" THEN "balance" ELSE "open_http")
    /\ UNCHANGED <<control, backoff, waited, history>>

\* fund_shard: the balance, the transfer, two seconds, the balance.  Only the transfer
\* has to succeed.
FundStep ==
    /\ \/ Goto("balance", "transfer")
       \/ Goto("transfer", "pause")
       \/ Goto("pause", "balance_again")
    /\ UNCHANGED <<control, backoff, waited, history>>

TransferFails == Exit("transfer", 1)
FundDone == Exit("balance_again", 0)

\* Faulty variant: run returns when the connection for orders cannot be opened.
OpenHttpReturns ==
    \/ Exit("open_http", 0)
    \/ Goto("open_http", "while") /\ UNCHANGED <<control, backoff, waited, history>>

\* run begins by opening the connection for orders, which may fail.
OpenHttp ==
    /\ Goto("open_http", "while")
    /\ UNCHANGED <<control, backoff, waited, history>>

Main == LoadFails \/ Load \/ FundStep \/ TransferFails \/ FundDone \/ OpenHttp

-----------------------------------------------------------------------------
(* run_session *)

\* Connecting or subscribing fails.  received_data is the value returned.
ConnectFails ==
    /\ Goto("connect", "ended")
    /\ received_data' = FALSE
    /\ UNCHANGED <<task, code, g_running, backoff, waited, history>>

Connects ==
    /\ Goto("connect", "loop")
    /\ received_data' = FALSE
    /\ UNCHANGED <<task, code, g_running, backoff, waited, history>>

\* Faulty variant: the loop is not left.
LoopTestMissing ==
    /\ Goto("loop", "read")
    /\ UNCHANGED <<control, backoff, waited, history>>

\* while (g_running), then the call of receive_frame.
LoopTest ==
    /\ Goto("loop", IF g_running THEN "read" ELSE "ended")
    /\ UNCHANGED <<control, backoff, waited, history>>

\* receive_frame blocks in SSL_read, unless the next frame is buffered already.
Block ==
    /\ Goto("read", "blocked")
    /\ UNCHANGED <<control, backoff, waited, history>>

FrameArrives ==
    /\ pc \in {"read", "blocked"} /\ pc' = "handle"
    /\ handled' = IF g_running THEN 0 ELSE Min({handled + 1, 2})
    /\ UNCHANGED <<control, backoff, waited, fruitless, slept, sessions>>

\* Faulty variant: a silent connection is waited on for ever.
ReceiveFailsNoTimeout ==
    /\ pc \in {"read", "interrupted"} /\ pc' = "ended"
    /\ UNCHANGED <<control, backoff, waited, history>>

\* 30 s of silence, end of the connection, a malformed frame, or EINTR.
ReceiveFails ==
    /\ pc \in {"read", "blocked", "interrupted"} /\ pc' = "ended"
    /\ UNCHANGED <<control, backoff, waited, history>>

\* A close frame, a sequence gap, or a delta that is out of sync.
FrameEndsSession ==
    /\ Goto("handle", "ended")
    /\ UNCHANGED <<control, backoff, waited, history>>

\* on_book_error for malformed data.
FrameStopsBot ==
    /\ Goto("handle", "ended")
    /\ g_running' = FALSE
    /\ UNCHANGED <<task, code, received_data, backoff, waited, history>>

\* A frame that cannot be decoded skips the housekeeping.
FrameSkipped ==
    /\ Goto("handle", "loop")
    /\ UNCHANGED <<control, backoff, waited, history>>

\* A snapshot or a delta; the strategy may answer it with an order.
FrameUpdatesBook(is_snapshot) ==
    /\ pc = "handle" /\ pc' \in {"order", "housekeep"}
    /\ received_data' = (received_data \/ is_snapshot)
    /\ UNCHANGED <<task, code, g_running, backoff, waited, history>>

\* A ping (answered or not), a fill, or a message of no interest.
FrameOther ==
    /\ Goto("handle", "housekeep")
    /\ UNCHANGED <<control, backoff, waited, history>>

\* submit returns, with an answer or without.
OrderDone ==
    /\ Goto("order", "housekeep")
    /\ UNCHANGED <<control, backoff, waited, history>>

\* keep_http_warm and the status line.
Housekeep ==
    /\ Goto("housekeep", "loop")
    /\ UNCHANGED <<control, backoff, waited, history>>

-----------------------------------------------------------------------------
(* run *)

WhileTest ==
    /\ sessions < MaxSessions \/ ~g_running
    /\ Goto("while", IF g_running THEN "connect" ELSE "exited")
    /\ sessions' = IF g_running THEN sessions + 1 ELSE sessions
    /\ UNCHANGED <<control, backoff, waited, fruitless, slept, handled>>

\* Faulty variant: a session without data is the last one.
AfterSessionGivesUp ==
    /\ Goto("ended", IF g_running /\ received_data THEN "sleep" ELSE "exited")
    /\ backoff' = IF received_data THEN 1 ELSE backoff
    /\ fruitless' = IF received_data THEN 0 ELSE fruitless
    /\ waited' = 0
    /\ slept' = 0
    /\ UNCHANGED <<control, sessions, handled>>

\* run_session has returned; the wait begins unless the bot is to stop.
AfterSession ==
    /\ Goto("ended", IF g_running THEN "sleep" ELSE "exited")
    /\ backoff' = IF received_data THEN 1 ELSE backoff
    /\ fruitless' = IF received_data THEN 0 ELSE fruitless
    /\ waited' = 0
    /\ slept' = 0
    /\ UNCHANGED <<control, sessions, handled>>

SleepOneSecond ==
    /\ pc = "sleep" /\ waited < backoff /\ g_running
    /\ waited' = waited + 1
    /\ slept' = slept + 1
    /\ UNCHANGED <<pc, control, backoff, fruitless, sessions, handled>>

\* Faulty variant: growth by addition.
NextBackoffLinear == Min({backoff + 1, kMaxReconnectBackoff})

NextBackoff == Min({backoff * 2, kMaxReconnectBackoff})

EndSleep ==
    /\ Goto("sleep", "while")
    /\ ~(waited < backoff /\ g_running)
    /\ backoff' = NextBackoff
    /\ fruitless' = fruitless + 1
    /\ UNCHANGED <<control, waited, slept, sessions, handled>>

-----------------------------------------------------------------------------
(* SIGINT or SIGTERM: handle_signal.  A blocking read returns EINTR. *)

Signal ==
    /\ g_running
    /\ pc # "exited"
    /\ g_running' = FALSE
    /\ pc' = IF pc = "blocked" THEN "interrupted" ELSE pc
    /\ UNCHANGED <<task, code, received_data, backoff, waited, history>>

Session ==
    \/ ConnectFails \/ Connects \/ LoopTest \/ Block \/ ReceiveFails
    \/ FrameEndsSession \/ FrameStopsBot \/ FrameSkipped \/ FrameOther
    \/ \E is_snapshot \in BOOLEAN : FrameUpdatesBook(is_snapshot)
    \/ OrderDone \/ Housekeep

Outer == WhileTest \/ AfterSession \/ SleepOneSecond \/ EndSleep

Next == Main \/ Session \/ Outer \/ FrameArrives \/ Signal

\* Every call of the thread returns: connecting, reading and the requests have
\* timeouts (net_constants.hpp).  Frames and signals need never come.
Spec == Init /\ [][Next]_vars /\ WF_vars(Main \/ Session \/ Outer)

-----------------------------------------------------------------------------
(* Properties *)

\* Types of the variables; the wait never exceeds kMaxReconnectBackoff.
TypeOK ==
    /\ pc \in Places /\ task \in {"bot", "fund"} /\ code \in {0, 1}
    /\ g_running \in BOOLEAN /\ received_data \in BOOLEAN
    /\ backoff \in 1 .. kMaxReconnectBackoff
    /\ waited \in 0 .. kMaxReconnectBackoff /\ slept \in 0 .. kMaxReconnectBackoff
    /\ fruitless \in Nat /\ sessions \in 0 .. MaxSessions /\ handled \in 0 .. 2

\* One second, doubled n times.
Doubled[n \in Nat] == IF n = 0 THEN 1 ELSE 2 * Doubled[n - 1]

\* Before every session but the first the bot has waited the full exponential
\* backoff: one second after a session that streamed data, doubled for each
\* session in a row that did not, up to the limit (trading_bot.cpp:239-249).
FullBackoff ==
    pc = "connect" /\ sessions > 1
        => slept = Min({Doubled[fruitless - 1], kMaxReconnectBackoff})

\* After a stop request at most one more frame is handled, so at most one more
\* order is placed (trading_bot.cpp:156-157), wherever the signal finds the
\* thread.
OneFrameAfterStop == handled <= 1

\* A bot that has started ends for no other reason than a stop request, from a signal
\* or from malformed data: no failure of a connection, a session or an order makes it
\* return from run (main.cpp:62-84, trading_bot.cpp:238-250).
RunsUntilStopped == pc = "exited" /\ task = "bot" => ~g_running \/ code = 1

\* A stop request ends the program, wherever it finds the thread.
StopExits == ~g_running ~> pc = "exited"

\* A session that ends is followed by another one unless the bot is stopped or
\* the count of sessions is exhausted: it reconnects for ever.
Reconnects == pc = "ended" ~> (pc = "connect" \/ ~g_running \/ sessions = MaxSessions)

\* What main.cpp:20 says of the signal handlers: a stop request finds the read
\* interrupted, so that the loop can exit promptly, and never leaves the thread
\* blocked in SSL_read.
PromptExit == ~g_running => pc # "blocked"
=============================================================================
