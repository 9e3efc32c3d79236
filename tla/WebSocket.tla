----------------------------- MODULE WebSocket -----------------------------
(***************************************************************************)
(* WebSocket (src/network/web_socket.cpp): a stream of bytes that arrives  *)
(* in arbitrary chunks, cut into frames by receive_frame, and the frames   *)
(* the client sends: the subscription and a pong for every ping.           *)
(***************************************************************************)
EXTENDS FrameParser, FiniteSets

CONSTANTS kReceiveBufferSize,
          Chunks,         \* how many bytes one SSL_read may return
          Prefix101,      \* "HTTP/1.1 101"
          Upgrades,       \* the server's answers to the upgrade request
          ServerFrames,   \* what the server sends
          Garbage,        \* bytes that are no frame
          Keys,           \* masking keys
          Subscribe,      \* payload of the subscription
          MaxFrames       \* bound: frames sent by the server

\* Frames a server may send: not masked, with a known opcode.
WireFrame ==
    [fin_bit : BOOLEAN, op_code : valid_opcodes, mask_key : {NoKey}, payload : Seq(Byte)]

\* The bytes of a line of text.
Text == {9, 10, 13} \union 32 .. 126

ASSUME WebSocketAssumption ==
    /\ kReceiveBufferSize \in Nat /\ MaxFrames \in Nat
    /\ Chunks \subseteq 1 .. kReceiveBufferSize
    /\ Prefix101 \in Seq(Byte)
    /\ Upgrades \subseteq Seq(Text)
    /\ Garbage \subseteq Seq(Byte)
    /\ \A frame \in ServerFrames : frame \in WireFrame /\ Fits31Bits(Len(frame.payload))
    /\ Subscribe \in Seq(Byte) /\ Len(Subscribe) <= kMaxFramePayload
    /\ \A key \in Keys : key \in Seq(Byte) /\ Len(key) = 4
    /\ \A a, b \in Byte : ByteXor(a, b) \in Byte /\ ByteXor(ByteXor(a, b), b) = a

VARIABLES
    status,    \* "new", "connected", "open" or "failed"
    sent,      \* frames the server has sent, ending with Malformed after garbage
    net,       \* bytes under way
    cut,       \* connect returned with part of the server's answer still under way
    buffer,    \* _buffer
    received,  \* the results of receive_frame
    out,       \* what the client has written, frame by frame; NotSent for a failure
    pings      \* pings not answered yet

NotSent == <<>>

vars == <<status, sent, net, cut, buffer, received, out, pings>>

Init ==
    /\ status = "new" /\ cut = FALSE
    /\ sent = <<>> /\ net = <<>> /\ buffer = <<>> /\ received = <<>>
    /\ out = <<>> /\ pings = <<>>

-----------------------------------------------------------------------------
ServerSends(frame) ==
    /\ status = "open" /\ Len(sent) < MaxFrames
    /\ sent' = Append(sent, frame)
    /\ net' = net \o ServerBytes(frame)
    /\ UNCHANGED <<status, cut, buffer, received, out, pings>>

ServerSendsGarbage(bytes) ==
    /\ status = "open" /\ Len(sent) < MaxFrames
    /\ sent' = Append(sent, Malformed)
    /\ net' = net \o bytes
    /\ UNCHANGED <<status, cut, buffer, received, out, pings>>

-----------------------------------------------------------------------------
starts_with(bytes, prefix) ==
    Len(bytes) >= Len(prefix) /\ SubSeq(bytes, 1, Len(prefix)) = prefix

\* connect looks at what one read returns of the server's answer.  What it does not
\* return stays in the stream; the server sends no frame before the subscription.
Connect(answer, n) ==
    /\ status = "new" /\ n <= kReceiveBufferSize
    /\ status' = IF starts_with(SubSeq(answer, 1, n), Prefix101) THEN "connected" ELSE "failed"
    /\ net' = SubSeq(answer, n + 1, Len(answer))
    /\ cut' = (n < Len(answer))
    /\ UNCHANGED <<sent, buffer, received, out, pings>>

\* No signature, no TLS connection, no random key, or a failed write or read.
ConnectFails ==
    /\ status = "new"
    /\ status' = "failed"
    /\ UNCHANGED <<sent, net, cut, buffer, received, out, pings>>

\* send_text, for the subscription.
send_text(key) ==
    /\ status = "connected"
    /\ out' = Append(out, frame_builder(Opcode.Text, Subscribe, key))
    /\ status' = "open"
    /\ UNCHANGED <<sent, net, cut, buffer, received, pings>>

\* receive_frame returns a frame of the buffer.
ReceiveFrame ==
    LET parsed == frame_parser(buffer)
    IN  /\ status = "open" /\ pings = <<>>
        /\ parsed.kind = "Frame"
        /\ buffer' = SubSeq(buffer, parsed.bytes_consumed + 1, Len(buffer))
        /\ received' = Append(received, parsed.frame)
        /\ pings' = IF parsed.frame.op_code = Opcode.Ping THEN <<parsed.frame>> ELSE <<>>
        /\ UNCHANGED <<status, sent, net, cut, out>>

\* receive_frame gives up: the session ends.
ReceiveMalformed ==
    /\ status = "open" /\ pings = <<>>
    /\ frame_parser(buffer) = Malformed
    /\ status' = "failed"
    /\ UNCHANGED <<sent, net, cut, buffer, received, out, pings>>

\* receive_frame reads more bytes.
ReceiveData(n) ==
    /\ status = "open" /\ pings = <<>>
    /\ frame_parser(buffer) = Incomplete
    /\ n <= Len(net)
    /\ buffer' = buffer \o SubSeq(net, 1, n)
    /\ net' = SubSeq(net, n + 1, Len(net))
    /\ UNCHANGED <<status, sent, cut, received, out, pings>>

\* The connection ends, falls silent for 30 s, or the read is interrupted.
ReceiveFails ==
    /\ status = "open" /\ pings = <<>>
    /\ frame_parser(buffer) = Incomplete
    /\ status' = "failed"
    /\ UNCHANGED <<sent, net, cut, buffer, received, out, pings>>

\* send_pong, with the ping's payload.
send_pong(key) ==
    /\ status = "open" /\ pings # <<>>
    /\ pings' = <<>>
    /\ out' = Append(out, frame_builder(Opcode.Pong, pings[1].payload, key))
    /\ UNCHANGED <<status, sent, net, cut, buffer, received>>

\* send_frame fails: no random bytes, or the write failed.  For the subscription
\* this ends the session; for a pong it is only logged.
SendFails ==
    \/ /\ status = "connected"
       /\ status' = "failed"
       /\ UNCHANGED <<sent, net, cut, buffer, received, out, pings>>
    \/ /\ status = "open" /\ pings # <<>>
       /\ pings' = <<>>
       /\ out' = Append(out, NotSent)
       /\ UNCHANGED <<status, sent, net, cut, buffer, received>>

Next ==
    \/ \E frame \in ServerFrames : ServerSends(frame)
    \/ \E bytes \in Garbage : ServerSendsGarbage(bytes)
    \/ \E answer \in Upgrades : \E n \in 1 .. Len(answer) : Connect(answer, n)
    \/ ConnectFails
    \/ \E key \in Keys : send_text(key)
    \/ ReceiveFrame
    \/ ReceiveMalformed
    \/ ReceiveFails
    \/ \E n \in Chunks : ReceiveData(n)
    \/ \E key \in Keys : send_pong(key)
    \/ SendFails

\* The network delivers, and the thread keeps calling receive_frame.
Fairness ==
    /\ WF_vars(ReceiveFrame) /\ WF_vars(ReceiveMalformed)
    /\ WF_vars(\E n \in Chunks : ReceiveData(n))
    /\ WF_vars(SendFails \/ \E key \in Keys : send_pong(key))

Spec == Init /\ [][Next]_vars /\ Fairness

-----------------------------------------------------------------------------
(* Properties *)

\* What frame_parser can return of a frame: the frame, or Malformed if the frame
\* itself breaks a rule.
Acceptable(frame) ==
    /\ Len(frame.payload) <= kMaxFramePayload
    /\ frame.op_code >= 8 => frame.fin_bit /\ Len(frame.payload) <= 125

\* However the stream is cut into chunks, the frames received are the frames
\* sent, in order, none lost, merged or made up (web_socket.cpp:86-104); a frame
\* that is not acceptable, or garbage, is never passed by, and nothing else is
\* ever taken for malformed.
FramesInOrder ==
    /\ Len(received) <= Len(sent)
    /\ \A i \in 1 .. Len(received) :
          received[i] = sent[i] /\ sent[i] # Malformed /\ Acceptable(sent[i])
    /\ frame_parser(buffer) = Malformed /\ ~cut =>
          /\ Len(received) < Len(sent)
          /\ LET next == sent[Len(received) + 1]
             IN  next = Malformed \/ ~Acceptable(next)

\* If the answer to the upgrade request comes in parts, or is longer than one read,
\* connect succeeds with its rest still in the stream (web_socket.cpp:69-81).  That
\* rest is never taken for a frame, nor for the beginning of one: ASCII has reserved
\* bits or an invalid opcode, and a line feed an unfinished control frame
\* (frame_parser.cpp:21-32, 84-88).
UpgradeNeverFramed == cut => received = <<>>

\* The receive buffer never holds more than one incomplete frame and one read:
\* a header that claims more is rejected first (frame_parser.hpp:10-12).
BufferBound == Len(buffer) < kMaxFramePayload + 14 + kReceiveBufferSize

\* The pings among the first n frames received.
Pinged(n) == {j \in 1 .. n : received[j].op_code = Opcode.Ping}

\* What the client writes is, to a peer that follows the same format, the
\* subscription and then, for the k-th ping, one pong with its payload or nothing
\* (web_socket.cpp:106-135).
PongsMatchPings ==
    /\ status = "open" => Len(out) + Len(pings) = 1 + Cardinality(Pinged(Len(received)))
    /\ \A i \in 1 .. Len(out) : out[i] # NotSent =>
          LET parsed == frame_parser(out[i])
          IN  /\ parsed.kind = "Frame" /\ parsed.bytes_consumed = Len(out[i])
              /\ parsed.frame.fin_bit
              /\ IF i = 1
                 THEN parsed.frame.op_code = Opcode.Text /\ parsed.frame.payload = Subscribe
                 ELSE \E j \in Pinged(Len(received)) :
                        /\ Cardinality(Pinged(j)) = i - 1
                        /\ parsed.frame.op_code = Opcode.Pong
                        /\ parsed.frame.payload = received[j].payload

\* Every frame sent is received in the end unless the session fails, and nothing
\* obliges it to fail: receive_frame does not wait for bytes while it holds a
\* complete frame or a malformed one.
AllReceived ==
    \A n \in 1 .. MaxFrames : Len(sent) >= n ~> (Len(received) >= n \/ status = "failed")
=============================================================================
