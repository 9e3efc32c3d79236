---------------------------- MODULE HttpResponse ----------------------------
(***************************************************************************)
(* parse_http_response (src/protocol/http_response.cpp), called with what  *)
(* has arrived so far, again and again until there is a response.          *)
(*                                                                         *)
(* Input is a sequence of units.  The text of a line is one unit, whose    *)
(* meaning is what the code makes of it; a carriage return, a line feed, a *)
(* byte of a chunk extension and a byte of a body are units of their own,  *)
(* so that data can end before, within and after every line end and at     *)
(* every limit.                                                            *)
(***************************************************************************)
EXTENDS Integers, Sequences, FiniteSetsExt

CONSTANTS MaxHead,  \* kMaxHttpHeaderBytes, in units
          MaxBody,  \* kMaxHttpBodyBytes
          MaxLine   \* the limit for an unfinished chunk size line

StatusLine(code, http10) == [kind |-> "status", code |-> code, http10 |-> http10]
BadStatus == [kind |-> "status", code |-> 0, http10 |-> FALSE]
ContentLength(n) == [kind |-> "field", name |-> "content-length", length |-> n]
TransferEncoding(value) == [kind |-> "field", name |-> "transfer-encoding", value |-> value]
Connection(value) == [kind |-> "field", name |-> "connection", value |-> value]
OtherField == [kind |-> "field", name |-> "other"]
BadField == [kind |-> "field", name |-> "malformed"]
ChunkSize(n) == [kind |-> "size", n |-> n]
Extension == [kind |-> "extension"]
Data == [kind |-> "data"]
Cr == [kind |-> "cr"]
Lf == [kind |-> "lf"]

NoLength == -1
Error == [kind |-> "error"]
Overlong == [kind |-> "error", why |-> "too long, and its end is not there yet"]
Incomplete == [kind |-> "incomplete"]
Response(status, keep_alive, body, consumed) ==
    [kind |-> "response", status |-> status, keep_alive |-> keep_alive, body |-> body,
     consumed |-> consumed]

\* The first index from pos on where P holds, or 0.
First(data, pos, P(_)) ==
    LET found == {i \in pos .. Len(data) : P(i)}
    IN  IF found = {} THEN 0 ELSE Min(found)

\* A line ends at i; an empty line does.
EndsLine(data, i) == data[i] = Lf /\ data[i - 1] = Cr
EndsEmptyLine(data, i) == EndsLine(data, i) /\ EndsLine(data, i - 2)

-----------------------------------------------------------------------------
(* The head *)

parse_field(h, line) ==
    CASE line.name = "content-length" ->
            [h EXCEPT !.ok = @ /\ h.length \in {NoLength, line.length}, !.length = line.length]
      [] line.name = "transfer-encoding" -> [h EXCEPT !.chunked = line.value = "chunked"]
      [] line.name = "connection" /\ line.value # "other" -> [h EXCEPT !.connection = line.value]
      [] line.name = "malformed" -> [h EXCEPT !.ok = FALSE]
      [] OTHER -> h

\* A head is a status line and fields, with a CRLF between them.
parse_headers(head) ==
    LET none == [ok |-> TRUE, length |-> NoLength, chunked |-> FALSE, connection |-> "none"]
        lines == (Len(head) + 2) \div 3
        line(n) == head[3 * n - 2]
        fields[n \in 1 .. lines] == IF n = 1 THEN none ELSE parse_field(fields[n - 1], line(n))
    IN  IF head # <<>> /\ line(1).kind = "status" /\ line(1).code # 0
              /\ \A n \in 2 .. lines : line(n).kind = "field"
        THEN fields[lines]
        ELSE [none EXCEPT !.ok = FALSE]

-----------------------------------------------------------------------------
(* The body *)

\* Faulty variant: a trailer that has not arrived yet is not waited for.
end_of_trailerEarly(data, pos) == Len(data)

\* The empty line after the last chunk and its trailer fields, or 0.
end_of_trailer(data, pos) == First(data, pos + 1, LAMBDA i : EndsEmptyLine(data, i))

Chunks(kind, pos) == [kind |-> kind, pos |-> pos, body |-> <<>>]

\* A chunk size line from pos to the line end at end: a size, then extensions.
IsSizeLine(data, pos, end) ==
    /\ data[pos].kind = "size"
    /\ \A i \in pos + 1 .. end - 2 : data[i] = Extension

\* One turn of the loop, at pos and after size bytes; rest tells of the turns after it.
ChunkAt(data, rest, pos, size) ==
    LET line == First(data, pos + 1, LAMBDA i : EndsLine(data, i))
        n == data[pos].n
        trailer == end_of_trailer(data, line + 1)
    IN  IF line = 0 THEN Chunks(IF Len(data) - pos < MaxLine THEN "incomplete" ELSE "overlong", pos)
        ELSE IF ~IsSizeLine(data, pos, line) THEN Chunks("error", pos)
        ELSE IF n = 0 THEN Chunks(IF trailer = 0 THEN "incomplete" ELSE "end", trailer)
        ELSE IF n \notin 1 .. MaxBody - size THEN Chunks("error", pos)
        ELSE IF Len(data) - line < n + 2 THEN Chunks("incomplete", pos)
        ELSE IF ~EndsLine(data, line + n + 2) THEN Chunks("error", pos)
        ELSE [rest[<<line + n + 3, size + n>>]
                 EXCEPT !.body = SubSeq(data, line + 1, line + n) \o @]

\* Chunks from start on: a body and where it ends.
decode_chunked(data, start) ==
    LET chunks[at \in Nat \X Nat] == ChunkAt(data, chunks, at[1], at[2])
    IN  chunks[<<start, 0>>]

-----------------------------------------------------------------------------
Bodyless(status) == status < 200 \/ status \in {204, 304}

\* Faulty variant: a length is preferred to chunks.
FramingByLength(h) ==
    IF h.length # NoLength THEN "length"
    ELSE IF h.chunked THEN "chunked"
    ELSE "none"

Framing(h) ==
    IF h.chunked THEN "chunked"
    ELSE IF h.length # NoLength THEN "length"
    ELSE "none"

Unfinished(eof) == IF eof THEN Error ELSE Incomplete

\* A head, then a body framed by chunks, by a length, by its status or by the end of
\* the connection.
parse_http_response(data, eof) ==
    LET end == First(data, 4, LAMBDA i : EndsEmptyLine(data, i))
        h == parse_headers(SubSeq(data, 1, end - 4))
        status == data[1].code
        keep_alive == IF h.connection = "none" THEN ~data[1].http10 ELSE h.connection = "keep-alive"
        rest == SubSeq(data, end + 1, Len(data))
        chunked ==
            LET decoded == decode_chunked(data, end + 1)
            IN  IF decoded.kind = "incomplete" THEN Unfinished(eof)
                ELSE IF decoded.kind = "overlong" THEN Overlong
                ELSE IF decoded.kind = "error" THEN Error
                ELSE Response(status, keep_alive, decoded.body, decoded.pos)
        measured ==
            IF h.length \notin 0 .. MaxBody THEN Error
            ELSE IF Len(rest) < h.length THEN Unfinished(eof)
            ELSE Response(status, keep_alive, SubSeq(rest, 1, h.length), end + h.length)
        until_close ==
            IF ~eof THEN Incomplete
            ELSE IF Len(rest) > MaxBody THEN Error
            ELSE Response(status, FALSE, rest, Len(data))
    IN  IF end = 0 THEN IF Len(data) > MaxHead THEN Overlong ELSE Unfinished(eof)
        ELSE IF end - 4 > MaxHead \/ ~h.ok THEN Error
        ELSE CASE Framing(h) = "chunked" -> chunked
               [] Framing(h) = "length" -> measured
               [] Framing(h) = "none" -> IF Bodyless(status)
                                         THEN Response(status, keep_alive, <<>>, end)
                                         ELSE until_close
=============================================================================
