---------------------------- MODULE MCWebSocket ----------------------------
(***************************************************************************)
(* The TLC instance of WebSocket: short frames, fragments, frames around   *)
(* the limits of the length encodings, and bytes that are no frame, in     *)
(* every chunking by single bytes and full reads.                          *)
(***************************************************************************)
EXTENDS WebSocket, Bitwise

MCXor(a, b) == a ^^ b

Payload(n) == [i \in 1 .. n |-> (i * 37) % 256]

MCFrames ==
    {Frame(TRUE, Opcode.Text, NoKey, Payload(n)) : n \in {2, 126, 128, 129}}
        \union {Frame(TRUE, Opcode.Ping, NoKey, Payload(n)) : n \in {3, 125, 126}}
        \union {Frame(FALSE, Opcode.Text, NoKey, Payload(1)),
                Frame(TRUE, Opcode.Continuation, NoKey, <<>>),
                Frame(TRUE, Opcode.Close, NoKey, <<>>)}

\* An unknown opcode, reserved bits, an unfinished ping, and two lengths that no
\* buffer can hold, the second one followed by more than the buffer may hold.
MCGarbage ==
    {<<3, 0>>, <<129 + 64, 0>>, <<9, 0>>, <<130, 126, 255, 255>>,
     <<130, 127, 0, 0, 0, 0, 1, 0, 0, 0>> \o [i \in 1 .. 250 |-> 0]}

\* "HTTP/1.1 101", then " OK" and two line ends; or another status.
MCPrefix101 == <<72, 84, 84, 80, 47, 49, 46, 49, 32, 49, 48, 49>>
MCUpgrades ==
    {MCPrefix101 \o <<32, 79, 75, 13, 10, 13, 10>>,
     <<72, 84, 84, 80, 47, 49, 46, 49, 32, 52, 48, 51, 13, 10, 13, 10>>}

MCChunks == {1, kReceiveBufferSize}
MCKeys == {<<0, 255, 17, 64>>}
MCSubscribe == Payload(128)
=============================================================================
