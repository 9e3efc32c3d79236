---------------------------- MODULE MCHttpClient ----------------------------
(***************************************************************************)
(* HttpClient with one response for each way to frame a body, and the      *)
(* malformed ones the parser knows.                                        *)
(***************************************************************************)
EXTENDS HttpClient

Community == INSTANCE SequencesExt

OkLine == StatusLine(200, FALSE)
Chunked == TransferEncoding("chunked")
Crlf == <<Cr, Lf>>

Ended(line) == <<line>> \o Crlf
HeadOf(lines) == Community!FlattenSeq([i \in 1 .. Len(lines) |-> Ended(lines[i])]) \o Crlf
Chunk(n, data) == Ended(ChunkSize(n)) \o data \o Crlf
LastChunk == Ended(ChunkSize(0))
ChunkedHead == HeadOf(<<OkLine, Chunked>>)

\* WithLength has a head as long as is allowed; WithExtension a size line that is too
\* long until its end has come.
WithLength == HeadOf(<<OkLine, ContentLength(1), ContentLength(1)>>) \o <<Data>>
WithChunks == ChunkedHead \o Chunk(1, <<Data>>) \o Chunk(1, <<Data>>) \o LastChunk \o Crlf
WithExtension == ChunkedHead \o <<ChunkSize(0), Extension, Extension>> \o Crlf \o Ended(OtherField) \o Crlf
WithBoth == HeadOf(<<OkLine, ContentLength(1), Chunked>>) \o LastChunk \o Crlf
WithNothing == HeadOf(<<StatusLine(204, FALSE), Connection("close")>>)
Old == HeadOf(<<StatusLine(304, TRUE), Connection("other")>>)
OldKept == HeadOf(<<StatusLine(200, TRUE), Connection("keep-alive"), ContentLength(0)>>)
UntilClose == HeadOf(<<OkLine>>) \o <<Data, Data>>

Wellformed ==
    {WithLength, WithChunks, WithExtension, WithBoth, WithNothing, Old, OldKept, UntilClose}

Malformed ==
    {HeadOf(<<BadStatus>>),
     HeadOf(<<OkLine, BadField>>),
     HeadOf(<<OkLine, ContentLength(0), ContentLength(1)>>) \o <<Data>>,
     HeadOf(<<OkLine, OtherField, OtherField, OtherField>>),
     HeadOf(<<OkLine, ContentLength(3)>>),
     ChunkedHead \o Chunk(2, <<Data, Data>>) \o Ended(ChunkSize(1)),
     ChunkedHead \o Ended(ChunkSize(1)) \o <<Data, Data, Data>>,
     ChunkedHead \o Ended(Extension),
     ChunkedHead \o <<Data, Data, Data>>,
     HeadOf(<<OkLine>>) \o <<Data, Data, Data>>}

\* Later requests only show what the first one left behind.
ResponsesTo(r) ==
    IF r = 1 THEN Wellformed \union Malformed ELSE {OldKept, UntilClose}
EarlyHints == HeadOf(<<StatusLine(103, FALSE)>>)
=============================================================================
