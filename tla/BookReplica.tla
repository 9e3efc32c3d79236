---------------------------- MODULE BookReplica ----------------------------
(***************************************************************************)
(* What the market-data side of the bot promises, without sessions,        *)
(* sequence numbers or messages: the book it shows is always a book the    *)
(* exchange really had, and it never shows an older one than before, not   *)
(* even across reconnections.  It may show none at all.                    *)
(***************************************************************************)
EXTENDS Naturals, Sequences

CONSTANT NoView      \* the bot shows no book

VARIABLES history,   \* every book the exchange has had, oldest first
          view,      \* the book the bot acts on, or NoView
          at         \* which book of the history was shown last

vars == <<history, view, at>>

Init == Len(history) = 1 /\ view = NoView /\ at = 1

\* The exchange's book changes; the past does not.
Change ==
    /\ Len(history') = Len(history) + 1
    /\ SubSeq(history', 1, Len(history)) = history
    /\ UNCHANGED <<view, at>>

\* The bot shows book i of the history, the same or a later one than before.
Show(i) == i >= at /\ view' = history[i] /\ at' = i /\ UNCHANGED history

Hide == view' = NoView /\ UNCHANGED <<history, at>>

Next == Change \/ Hide \/ \E i \in DOMAIN history : Show(i)

Spec == Init /\ [][Next]_vars
=============================================================================
