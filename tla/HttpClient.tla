----------------------------- MODULE HttpClient -----------------------------
(***************************************************************************)
(* HttpClient (src/protocol/http_client.cpp): requests, one at a time, on  *)
(* a kept-alive connection that the server may close at any moment.        *)
(*                                                                         *)
(* A response is a sequence of the units of HttpResponse, which arrive in  *)
(* parts of any size.  Only the current connection's units matter: what is *)
(* on an abandoned one can no longer be read, but a request on it may      *)
(* still be executed.                                                      *)
(***************************************************************************)
EXTENDS HttpResponse

CONSTANTS Responses(_), \* the final responses the server may send to a request
          Interim,      \* an interim (1xx) response
          MaxRequests,  \* bound: requests made
          MaxCloses,    \* bound: connections the server closes
          MaxInterims,  \* bound: interim responses
          MaxErrors     \* bound: failures of the network and of the local calls

ASSUME HttpClientAssumption ==
    /\ MaxRequests \in Nat /\ MaxCloses \in Nat /\ MaxInterims \in Nat /\ MaxErrors \in Nat
    /\ MaxHead \in Nat /\ MaxBody \in Nat /\ MaxLine \in Nat
    /\ \A r \in 1 .. MaxRequests : \A response \in Responses(r) : Len(response) \in Nat
    /\ Len(Interim) \in Nat

Requests == 1 .. MaxRequests

VARIABLES
    \* the client
    pc,        \* where request is: one of Places
    req,       \* the current request; the last one when idle
    reused,
    conn,      \* _tls: the number of the connection, or 0
    opened,    \* _connections_opened
    buffer,    \* _buffer: a sequence of pieces, units with the request they answer
    parsed,    \* what read_response finds in the buffer
    result,    \* what request returned, per request
    \* the server and the network
    wire,      \* pieces under way to the client on the current connection
    closed,    \* the server has closed the current connection
    inbox,     \* requests received and not executed, with their connection
    executed,  \* how often each request was executed
    interim,   \* the connections on which an interim response was sent
    closes, errors

client == <<pc, req, reused, conn, opened, buffer, parsed, result>>
server == <<wire, closed, inbox, executed, interim>>
vars == <<client, server, closes, errors>>

Places == {"idle", "sign", "open", "send", "reopen", "resend", "read"}

NoResult == [kind |-> "none"]

\* A response to request r as pieces, and the units of pieces.
Pieces(r, response) ==
    [i \in 1 .. Len(response) |->
        [req |-> r, unit |-> response[i], last |-> i = Len(response)]]
Units(pieces) == [i \in 1 .. Len(pieces) |-> pieces[i].unit]

Init ==
    /\ pc = "idle" /\ req = 0 /\ reused = FALSE
    /\ conn = 0 /\ opened = 0
    /\ buffer = <<>> /\ parsed = Incomplete
    /\ result = [r \in Requests |-> NoResult]
    /\ wire = <<>> /\ closed = FALSE /\ inbox = {}
    /\ executed = [r \in Requests |-> 0] /\ interim = {}
    /\ closes = 0 /\ errors = 0

-----------------------------------------------------------------------------
(* The server *)

\* The response is lost when its connection is closed or abandoned.
Serve(r, c, response) ==
    /\ <<r, c>> \in inbox
    /\ inbox' = inbox \ {<<r, c>>}
    /\ executed' = [executed EXCEPT ![r] = @ + 1]
    /\ wire' = IF c = conn /\ ~closed THEN wire \o Pieces(r, response) ELSE wire
    /\ UNCHANGED <<client, closed, interim, closes, errors>>

\* An interim response comes ahead of the one that answers the request.
SendInterim(r) ==
    /\ <<r, conn>> \in inbox /\ ~closed
    /\ conn \notin interim /\ Cardinality(interim) < MaxInterims
    /\ interim' = interim \union {conn}
    /\ wire' = wire \o Pieces(r, Interim)
    /\ UNCHANGED <<client, closed, inbox, executed, closes, errors>>

\* What is under way can still be read, unless the connection is reset.
ServerCloses(reset) ==
    /\ conn # 0 /\ ~closed /\ closes < MaxCloses
    /\ closed' = TRUE
    /\ closes' = closes + 1
    /\ wire' = IF reset THEN <<>> ELSE wire
    /\ UNCHANGED <<client, inbox, executed, interim, errors>>

-----------------------------------------------------------------------------
(* The client *)

\* idle_connection_is_dead by poll; the clock may find it dead at any time.
Readable == closed \/ wire # <<>>

\* Faulty variant: the old connection's bytes are kept.
OpensKeepsBuffer(then) ==
    /\ conn' = opened + 1
    /\ opened' = opened + 1
    /\ wire' = <<>> /\ closed' = FALSE
    /\ pc' = then
    /\ UNCHANGED <<req, reused, result, buffer, parsed, inbox, executed, interim, closes, errors>>

\* open_connection; then is where to go on when it succeeds.
Opens(then) ==
    /\ conn' = opened + 1
    /\ opened' = opened + 1
    /\ buffer' = <<>> /\ wire' = <<>> /\ closed' = FALSE
    /\ pc' = then
    /\ UNCHANGED <<req, reused, parsed, result, inbox, executed, interim, closes, errors>>

\* request returns.
Return(res, connection) ==
    /\ result' = [result EXCEPT ![req] = res]
    /\ pc' = "idle" /\ parsed' = Incomplete
    /\ conn' = connection

\* A fault the client survives: of the network, of a system call, of the signer.
Fault == errors < MaxErrors /\ errors' = errors + 1

\* connect, which run calls once, ahead of the first request.
Connect ==
    /\ pc = "idle" /\ req = 0 /\ conn = 0
    /\ Opens("idle")

StartRequest ==
    /\ pc = "idle" /\ req < MaxRequests
    /\ req' = req + 1
    /\ pc' = "sign"
    /\ UNCHANGED <<reused, conn, opened, buffer, parsed, result, server, closes, errors>>

\* Without a signature the connection is not touched.
SignFails ==
    /\ pc = "sign" /\ Fault
    /\ Return(Error, conn)
    /\ UNCHANGED <<req, reused, opened, buffer, server, closes>>

ChooseConnection ==
    /\ pc = "sign"
    /\ \/ conn # 0 /\ ~Readable /\ reused' = TRUE /\ pc' = "send"
       \/ reused' = FALSE /\ pc' = "open"
    /\ UNCHANGED <<req, conn, opened, buffer, parsed, result, server, closes, errors>>

OpenConnection ==
    \/ pc = "open" /\ Opens("send")
    \/ pc = "reopen" /\ Opens("resend")

OpenFails ==
    /\ pc \in {"open", "reopen"} /\ Fault
    /\ Return(Error, 0)
    /\ buffer' = <<>>
    /\ UNCHANGED <<req, reused, opened, server, closes>>

\* A write to a connection the server has closed may still succeed.  read_response
\* begins with what is in the buffer.
SendOk ==
    /\ pc \in {"send", "resend"}
    /\ inbox' = IF closed THEN inbox ELSE inbox \union {<<req, conn>>}
    /\ pc' = "read"
    /\ parsed' = parse_http_response(Units(buffer), FALSE)
    /\ UNCHANGED <<req, reused, conn, opened, buffer, result, wire, closed, executed, interim, closes, errors>>

\* A TLS record that could not be written whole is no request to the server.
SendFails ==
    /\ pc \in {"send", "resend"}
    /\ \/ closed /\ UNCHANGED errors
       \/ Fault
    /\ IF pc = "send" /\ reused
       THEN pc' = "reopen" /\ UNCHANGED <<parsed, result, conn>>
       ELSE Return(Error, 0)
    /\ UNCHANGED <<req, reused, opened, buffer, server, closes>>

\* What is known of a response: whose it was, whether all of it was read, whether
\* its body is exact, and whether its connection had seen no interim response.
Ok(found) ==
    LET read == SubSeq(buffer, 1, found.consumed)
    IN  [kind |-> "ok", req |-> buffer[1].req,
         whole |-> read[found.consumed].last,
         exact |-> found.body = SelectSeq(Units(read), LAMBDA unit : unit = Data),
         clean |-> conn \notin interim]

\* read_response: the buffer holds a response, or something that cannot be one.
ReadResponse ==
    /\ pc = "read" /\ parsed.kind = "response"
    /\ buffer' = SubSeq(buffer, parsed.consumed + 1, Len(buffer))
    /\ Return(Ok(parsed), IF parsed.keep_alive THEN conn ELSE 0)
    /\ UNCHANGED <<req, reused, opened, server, closes, errors>>

ReadMalformed ==
    /\ pc = "read" /\ parsed.kind = "error"
    /\ Return(Error, 0)
    /\ UNCHANGED <<req, reused, opened, buffer, server, closes, errors>>

ReceiveData(n) ==
    /\ pc = "read" /\ parsed = Incomplete /\ n <= Len(wire)
    /\ wire' = SubSeq(wire, n + 1, Len(wire))
    /\ buffer' = buffer \o SubSeq(wire, 1, n)
    /\ parsed' = parse_http_response(Units(buffer'), FALSE)
    /\ UNCHANGED <<pc, req, reused, conn, opened, result, closed, inbox, executed, interim, closes, errors>>

\* The final attempt to make a response of the buffer.
ReturnFinal ==
    \E final \in {parse_http_response(Units(buffer), TRUE)} :
        IF final.kind = "response"
        THEN Return(Ok(final), IF final.keep_alive THEN conn ELSE 0)
        ELSE Return(Error, 0)

\* Faulty variants: a failed read is retried too; only the end of the connection
\* ends a read.
ReceiveFailsRetries ==
    /\ pc = "read" /\ parsed = Incomplete /\ wire = <<>> /\ reused
    /\ pc' = "reopen"
    /\ reused' = FALSE
    /\ UNCHANGED <<req, conn, opened, buffer, parsed, result, server, closes, errors>>
ReceiveFailsNoTimeout ==
    /\ pc = "read" /\ parsed = Incomplete /\ closed /\ wire = <<>>
    /\ UNCHANGED <<req, reused, opened, buffer, server, closes, errors>>
    /\ ReturnFinal

\* The end of the connection, 30 s of silence, EINTR or another error: they are
\* not told apart.
ReceiveFails ==
    /\ pc = "read" /\ parsed = Incomplete
    /\ \/ wire = <<>> /\ UNCHANGED errors
       \/ Fault
    /\ UNCHANGED <<req, reused, opened, buffer, server, closes>>
    /\ ReturnFinal

Request ==
    \/ SignFails \/ ChooseConnection
    \/ OpenConnection \/ OpenFails \/ SendOk \/ SendFails
    \/ ReadResponse \/ ReadMalformed
    \/ \E n \in 1 .. Len(wire) : ReceiveData(n)
    \/ ReceiveFails

Next ==
    \/ \E r \in Requests, c \in 1 .. opened : \E response \in Responses(r) : Serve(r, c, response)
    \/ \E r \in Requests : SendInterim(r)
    \/ \E reset \in BOOLEAN : ServerCloses(reset)
    \/ Connect \/ StartRequest \/ Request

\* The client's calls return: the server's silence ends in a timeout.
Spec == Init /\ [][Next]_vars /\ WF_vars(Request)

-----------------------------------------------------------------------------
(* Properties *)

\* The bytes a request can read are its own response's: none is left over from an
\* earlier request, in the buffer or on the connection, whether that one was
\* answered, timed out or failed (http_client.cpp:12-13, 81, 101-102).  Interim
\* responses, which are taken for the answer (http_response.cpp:181), can spoil that
\* for their own connection only.
OwnBytes ==
    pc = "read" /\ conn \notin interim =>
        /\ \A i \in 1 .. Len(buffer) : buffer[i].req = req
        /\ \A i \in 1 .. Len(wire) : wire[i].req = req

\* A result is the response to the request it is returned for, and its body is what
\* the server sent, without chunk sizes and trailers (http_response.cpp:85-125), on
\* every connection without interim responses.
ResponseMatches ==
    \A r \in Requests : result[r].kind = "ok" /\ result[r].clean =>
                           result[r].req = r /\ result[r].exact

\* In whatever parts a response arrives, it is parsed as if it had arrived at once:
\* what parse_http_response makes of a part, a response or an error, stays when the
\* rest has come (http_response.hpp:23-25).  The code has one exception: a head or a
\* chunk size line whose end has not arrived is refused once it exceeds its limit
\* (http_response.cpp:89-93, 133-135), although the same head, or size line, can be
\* accepted when its end arrives with it.
DeliveryIndependent ==
    parsed \notin {Incomplete, Overlong} => parse_http_response(Units(buffer \o wire), FALSE) = parsed

\* The client implements calls that are executed at most once: resending on a new
\* connection after a failed write never executes an order twice, and an answer
\* means it was executed (http_client.hpp:19-21, http_client.cpp:87-96), unless an
\* interim response was taken for the answer.
RpcState ==
    [r \in Requests |-> IF r > req THEN "new"
                        ELSE IF r = req /\ pc # "idle" THEN "called"
                        ELSE IF result[r].kind = "ok" /\ ~result[r].clean THEN "error"
                        ELSE result[r].kind]
AtMostOnce == INSTANCE Rpc WITH state <- RpcState
RpcSpec == AtMostOnce!Spec

\* Every request returns, whatever the server does: no failure makes the client
\* reconnect or read for ever.
Returns == pc # "idle" ~> pc = "idle"

\* What http_client.cpp:50 says of a failed read: the peer has closed, so a body
\* framed by the end of the connection is complete.
WholeBody ==
    \A r \in Requests : result[r].kind = "ok" => result[r].whole
=============================================================================
