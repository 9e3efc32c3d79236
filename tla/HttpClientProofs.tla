-------------------------- MODULE HttpClientProofs --------------------------
(***************************************************************************)
(* Proofs about HttpClient, for every number of requests, closed           *)
(* connections, interim responses and failures, and whatever the server    *)
(* sends: in whatever parts a response arrives it is parsed the same.  And *)
(* when a response ends where its framing says, a request reads its own    *)
(* response, and is executed at most once.                                 *)
(*                                                                         *)
(* First parse_http_response, of some data and of more: its loop over the  *)
(* chunks by the least position where a claim about it fails, counted from *)
(* the end of the data.  Then the client.                                  *)
(***************************************************************************)
EXTENDS HttpClient, SequenceTheorems, WellFoundedInduction, TLAPS

USE SMTT(60), Z3T(60), ZenonT(60)

-----------------------------------------------------------------------------
(* Searching *)

\* Every set of natural numbers that is not empty has a least element.
LEMMA LeastNat ==
    ASSUME NEW T, T \subseteq Nat, T # {}
    PROVE  \E k \in T : \A m \in T : k <= m
  <1>1. PICK k \in T : \A m \in T : ~(<<m, k>> \in OpToRel(<, Nat))
    BY NatLessThanWellFounded, WFMin, Zenon
  <1>2. ASSUME NEW m \in T
        PROVE  k <= m
    <2>1. k \in Nat /\ m \in Nat
      OBVIOUS
    <2>2. ~(m < k)
      BY <1>1, <2>1, Zenon DEF OpToRel
    <2>3. QED
      BY <2>1, <2>2
  <1>3. QED
    BY <1>2

\* What First finds, of the set of the places that will do.
LeastOf(found) == IF found = {} THEN 0 ELSE Min(found)

\* The least of some natural numbers is one of them.
LEMMA MinIs ==
    ASSUME NEW T, T \subseteq Nat, T # {}
    PROVE  Min(T) \in T /\ \A m \in T : Min(T) <= m
  <1>1. \E k \in T : \A m \in T : k <= m
    BY LeastNat, Zenon
  <1>2. QED
    BY <1>1, Zenon DEF Min

\* What is found in some data is found when there are more.
UpTo(m, U, D, a) == U = {i \in D : i <= m} /\ D \subseteq Nat /\ \A i \in D : i >= a
FoundUpTo(m, x, y, a) ==
    /\ x # 0 => y = x /\ x \in a .. m
    /\ x = 0 => y = 0 \/ (y \in Nat /\ y > m)

\* The least place up to m is the least of all; when there is none, it is beyond m.
LEMMA LeastOfMore ==
    ASSUME NEW a \in Nat, a # 0, NEW m \in Nat, NEW D, NEW U, UpTo(m, U, D, a)
    PROVE  FoundUpTo(m, LeastOf(U), LeastOf(D), a)
  <1>0. U = {i \in D : i <= m} /\ D \subseteq Nat /\ \A i \in D : i >= a
    BY Zenon DEF UpTo
  <1>1. U \subseteq Nat /\ U \subseteq D
    BY <1>0, Zenon
  <1>2. CASE U = {}
    <2>1. LeastOf(U) = 0
      BY <1>2, Zenon DEF LeastOf
    <2>2. CASE D = {}
      BY <2>1, <2>2, Zenon DEF LeastOf, FoundUpTo
    <2>3. CASE D # {}
      <3>1. LeastOf(D) \in D
        BY <1>0, <2>3, MinIs, Zenon DEF LeastOf
      <3>2. LeastOf(D) \in Nat /\ ~(LeastOf(D) <= m)
        BY <1>0, <3>1, <1>2, Zenon
      <3>3. LeastOf(D) > m
        BY <3>2
      <3>4. QED
        BY <2>1, <3>1, <3>2, <3>3, Zenon DEF FoundUpTo
    <2>4. QED
      BY <2>2, <2>3, Zenon
  <1>3. CASE U # {}
    <2>1. D # {}
      BY <1>1, <1>3, ZenonT(60)
    <2>2. /\ LeastOf(U) = Min(U) /\ LeastOf(D) = Min(D)
      BY <1>3, <2>1, Zenon DEF LeastOf
    <2>3. /\ Min(U) \in U /\ (\A k \in U : Min(U) <= k)
          /\ Min(D) \in D /\ (\A k \in D : Min(D) <= k)
      BY <1>0, <1>1, <1>3, <2>1, MinIs, Zenon
    <2> DEFINE x == Min(U)
               y == Min(D)
    <2> HIDE DEF x, y
    <2>4. x \in U /\ (\A k \in U : x <= k) /\ y \in D /\ (\A k \in D : y <= k)
      BY <2>3, Zenon DEF x, y
    <2>5. x \in D /\ x \in Nat /\ y \in Nat /\ y <= x /\ x <= m /\ x >= a
      BY <1>0, <1>1, <2>4
    <2>6. y \in U
      BY <1>0, <2>4, <2>5
    <2>7. x = y /\ x \in a .. m /\ x # 0
      BY <2>4, <2>5, <2>6
    <2>8. LeastOf(U) = x /\ LeastOf(D) = y
      BY <2>2, Zenon DEF x, y
    <2>9. QED
      BY <2>7, <2>8, Zenon DEF FoundUpTo
  <1>4. QED
    BY <1>2, <1>3, Zenon

\* The data u have arrived of the data d.
Arrived(u, d) ==
    /\ Len(u) \in Nat /\ Len(d) \in Nat /\ Len(u) <= Len(d)
    /\ \A i \in 1 .. Len(u) : u[i] = d[i]

\* The places First looks for, in decode_chunked and parse_http_response.
Lines(data, pos) == {i \in pos .. Len(data) : EndsLine(data, i)}
Ends(data, pos) == {i \in pos .. Len(data) : EndsEmptyLine(data, i)}

\* Lines that end in u end in d.
LEMMA ArrivedEnd ==
    ASSUME NEW u, NEW d, Arrived(u, d), NEW i \in 2 .. Len(u)
    PROVE  EndsLine(d, i) <=> EndsLine(u, i)
  <1>1. i \in 1 .. Len(u) /\ i - 1 \in 1 .. Len(u)
    BY DEF Arrived
  <1>2. d[i] = u[i] /\ d[i - 1] = u[i - 1]
    BY <1>1, Zenon DEF Arrived
  <1>3. QED
    BY <1>2, Zenon DEF EndsLine

\* So do empty lines.
LEMMA ArrivedEmptyEnd ==
    ASSUME NEW u, NEW d, Arrived(u, d), NEW i \in 4 .. Len(u)
    PROVE  EndsEmptyLine(d, i) <=> EndsEmptyLine(u, i)
  <1>1. i \in 2 .. Len(u) /\ i - 2 \in 2 .. Len(u)
    BY DEF Arrived
  <1>2. QED
    BY <1>1, ArrivedEnd, Zenon DEF EndsEmptyLine

\* The lines and the empty lines in u are those of d that are in u.
LEMMA ArrivedLines ==
    ASSUME NEW u, NEW d, Arrived(u, d), NEW pos \in Nat, pos > 1
    PROVE  UpTo(Len(u), Lines(u, pos), Lines(d, pos), pos)
  <1>1. Len(u) \in Nat /\ Len(d) \in Nat /\ Len(u) <= Len(d)
    BY Zenon DEF Arrived
  <1>2. \A i \in pos .. Len(u) : EndsLine(d, i) <=> EndsLine(u, i)
    <2>1. \A i \in pos .. Len(u) : i \in 2 .. Len(u)
      BY <1>1
    <2>2. QED
      BY <2>1, ArrivedEnd, Zenon
  <1>3. QED
    BY <1>1, <1>2 DEF UpTo, Lines

\* The empty lines.
LEMMA ArrivedEnds ==
    ASSUME NEW u, NEW d, Arrived(u, d), NEW pos \in Nat, pos > 3
    PROVE  UpTo(Len(u), Ends(u, pos), Ends(d, pos), pos)
  <1>1. Len(u) \in Nat /\ Len(d) \in Nat /\ Len(u) <= Len(d)
    BY Zenon DEF Arrived
  <1>2. \A i \in pos .. Len(u) : EndsEmptyLine(d, i) <=> EndsEmptyLine(u, i)
    <2>1. \A i \in pos .. Len(u) : i \in 4 .. Len(u)
      BY <1>1
    <2>2. QED
      BY <2>1, ArrivedEmptyEnd, Zenon
  <1>3. QED
    BY <1>1, <1>2 DEF UpTo, Ends

-----------------------------------------------------------------------------
(* decode_chunked *)

\* The parts of a turn of decode_chunked's loop.
Line(data, pos) == LeastOf(Lines(data, pos + 1))
Trailer(data, pos) == LeastOf(Ends(data, Line(data, pos) + 1 + 1))
Size(data, pos) == data[pos].n

Turn(data, rest, pos, size) ==
    IF Line(data, pos) = 0 THEN Chunks(IF Len(data) - pos < MaxLine THEN "incomplete" ELSE "overlong", pos)
    ELSE IF ~IsSizeLine(data, pos, Line(data, pos)) THEN Chunks("error", pos)
    ELSE IF Size(data, pos) = 0
    THEN Chunks(IF Trailer(data, pos) = 0 THEN "incomplete" ELSE "end", Trailer(data, pos))
    ELSE IF Size(data, pos) \notin 1 .. MaxBody - size THEN Chunks("error", pos)
    ELSE IF Len(data) - Line(data, pos) < Size(data, pos) + 2 THEN Chunks("incomplete", pos)
    ELSE IF ~EndsLine(data, Line(data, pos) + Size(data, pos) + 2) THEN Chunks("error", pos)
    ELSE [rest[<<Line(data, pos) + Size(data, pos) + 3, size + Size(data, pos)>>]
             EXCEPT !.body = SubSeq(data, Line(data, pos) + 1, Line(data, pos) + Size(data, pos)) \o @]

\* A turn is made of these parts.
LEMMA TurnIs ==
    ASSUME NEW data, NEW rest, NEW pos, NEW size
    PROVE  ChunkAt(data, rest, pos, size) = Turn(data, rest, pos, size)
  <1>1. First(data, pos + 1, LAMBDA i : EndsLine(data, i)) = Line(data, pos)
    BY Zenon DEF First, Line, Lines, LeastOf
  <1>2. end_of_trailer(data, Line(data, pos) + 1) = Trailer(data, pos)
    BY Zenon DEF First, end_of_trailer, Trailer, Ends, LeastOf
  <1>3. QED
    BY <1>1, <1>2, Zenon DEF ChunkAt, Turn, Size

\* A line that is found is after pos.
LEMMA LineIs ==
    ASSUME NEW data, Len(data) \in Nat, NEW pos \in Nat, Line(data, pos) # 0
    PROVE  Line(data, pos) \in pos + 1 .. Len(data)
  <1>1. Lines(data, pos + 1) \subseteq pos + 1 .. Len(data)
    BY Zenon DEF Lines
  <1>2. Lines(data, pos + 1) \subseteq Nat /\ Lines(data, pos + 1) # {}
    <2>1. \A i \in pos + 1 .. Len(data) : i \in Nat
      OBVIOUS
    <2>2. Lines(data, pos + 1) # {}
      BY Zenon DEF Line, LeastOf
    <2>3. QED
      BY <1>1, <2>1, <2>2, Zenon
  <1>3. Line(data, pos) \in Lines(data, pos + 1)
    BY <1>2, MinIs, Zenon DEF Line, LeastOf
  <1>4. QED
    BY <1>1, <1>3, Zenon

\* A turn depends only on the turns further on.
AgreeAfter(g, h, pos) == \A p, s \in Nat : p > pos => g[<<p, s>>] = h[<<p, s>>]

SameTurn(data, g, h, pos, size) == Turn(data, g, pos, size) = Turn(data, h, pos, size)

\* Functions that agree on the turns further on make the same turn.
LEMMA TurnLooksAhead ==
    ASSUME NEW data, Len(data) \in Nat, NEW g, NEW h, NEW pos \in Nat, NEW size \in Nat, AgreeAfter(g, h, pos)
    PROVE  SameTurn(data, g, h, pos, size)
  <1> DEFINE n == Size(data, pos)
             l == Line(data, pos)
  <1>1. MaxBody \in Nat
    BY HttpClientAssumption, Zenon
  <1>2. CASE n \in 1 .. MaxBody - size /\ l # 0
    <2>0. l \in pos + 1 .. Len(data)
      BY <1>2, LineIs, Zenon
    <2> HIDE DEF n, l
    <2>1. l + n + 3 \in Nat /\ size + n \in Nat /\ l + n + 3 > pos
      BY <1>1, <1>2, <2>0
    <2>2. g[<<l + n + 3, size + n>>] = h[<<l + n + 3, size + n>>]
      BY <2>1, Zenon DEF AgreeAfter
    <2>3. QED
      BY <2>2, Zenon DEF SameTurn, Turn, n, l
  <1>3. CASE ~(n \in 1 .. MaxBody - size /\ l # 0)
    BY <1>3, Zenon DEF SameTurn, Turn
  <1>4. QED
    BY <1>2, <1>3, Zenon

\* After the end of the data there is no chunk.
LEMMA NoLineBeyond ==
    ASSUME NEW data, Len(data) \in Nat, NEW pos \in Nat, pos > Len(data)
    PROVE  Line(data, pos) = 0
  <1>1. ~(Line(data, pos) \in pos + 1 .. Len(data))
    OBVIOUS
  <1>2. QED
    BY <1>1, LineIs, Zenon

\* f tells of the turns from position a on.
Solves(f, data, a) == \A p, s \in Nat : p >= a => f[<<p, s>>] = Turn(data, f, p, s)

\* One turn more.
LEMMA SolvesOneMore ==
    ASSUME NEW data, Len(data) \in Nat, NEW g, NEW a \in Nat, Solves(g, data, a + 1)
    PROVE  \E h : Solves(h, data, a)
  <1> DEFINE h == [at \in Nat \X Nat |-> IF at[1] = a THEN Turn(data, g, at[1], at[2]) ELSE g[at]]
  <1>1. \A p, s \in Nat : h[<<p, s>>] = IF p = a THEN Turn(data, g, p, s) ELSE g[<<p, s>>]
    OBVIOUS
  <1> HIDE DEF h
  <1>2. ASSUME NEW p \in Nat, NEW s \in Nat, p >= a
        PROVE  h[<<p, s>>] = Turn(data, h, p, s)
    <2>1. \A q, t \in Nat : q > p => q # a
      BY <1>2
    <2>2. AgreeAfter(g, h, p)
      BY <1>1, <2>1, Zenon DEF AgreeAfter
    <2>a. SameTurn(data, g, h, p, s)
      BY <2>2, TurnLooksAhead, Zenon
    <2>3. Turn(data, g, p, s) = Turn(data, h, p, s)
      BY <2>a, Zenon DEF SameTurn
    <2>4. CASE p = a
      BY <1>1, <2>3, <2>4, Zenon
    <2>5. CASE p # a
      <3>1. p >= a + 1
        BY <1>2, <2>5
      <3>2. g[<<p, s>>] = Turn(data, g, p, s)
        BY <3>1, Zenon DEF Solves
      <3>3. QED
        BY <1>1, <2>3, <2>5, <3>2, Zenon
    <2>6. QED
      BY <2>4, <2>5, Zenon
  <1>3. Solves(h, data, a)
    BY <1>2, Zenon DEF Solves
  <1>4. QED
    BY <1>3, Zenon

\* From the end of the data backwards, there is a function that tells of all turns.
LEMMA Solvable ==
    ASSUME NEW data, Len(data) \in Nat
    PROVE  \E f : Solves(f, data, 0)
  <1> DEFINE L == Len(data) + 1
             T == {k \in Nat : k <= L /\ ~\E f : Solves(f, data, L - k)}
  <1>1. L \in Nat /\ L - L = 0 /\ L <= L /\ L - 0 = L
    OBVIOUS
  <1>2. SUFFICES ASSUME T # {}
                 PROVE  FALSE
    BY <1>1, Zenon
  <1>3. T \subseteq Nat
    BY Zenon
  <1>4. PICK k \in T : \A m \in T : k <= m
    BY <1>2, <1>3, LeastNat, Zenon
  <1>5. k \in Nat /\ k <= L /\ ~\E f : Solves(f, data, L - k)
    BY <1>4, Zenon
  <1>6. CASE k = 0
    <2> DEFINE f == [at \in Nat \X Nat |-> Turn(data, <<>>, at[1], at[2])]
    <2>1. \A p, s \in Nat : f[<<p, s>>] = Turn(data, <<>>, p, s)
      OBVIOUS
    <2> HIDE DEF f
    <2>2. ASSUME NEW p \in Nat, NEW s \in Nat, p >= L
          PROVE  f[<<p, s>>] = Turn(data, f, p, s)
      <3>1. p > Len(data)
        BY <2>2
      <3>2. Line(data, p) = 0
        BY <3>1, NoLineBeyond, Zenon
      <3>3. Turn(data, <<>>, p, s) = Turn(data, f, p, s)
        BY <3>2, Zenon DEF Turn
      <3>4. QED
        BY <2>1, <3>3, Zenon
    <2>3. Solves(f, data, L)
      BY <2>2, Zenon DEF Solves
    <2>4. QED
      BY <1>1, <1>5, <1>6, <2>3, Zenon
  <1>7. CASE k # 0
    <2>1. k - 1 \in Nat /\ k - 1 <= L /\ ~(k <= k - 1) /\ L - k \in Nat /\ L - (k - 1) = (L - k) + 1
      BY <1>1, <1>5, <1>7
    <2>2. k - 1 \notin T
      BY <1>4, <2>1, Zenon
    <2>3. \E f : Solves(f, data, (L - k) + 1)
      BY <2>1, <2>2, Zenon
    <2>4. \E f : Solves(f, data, L - k)
      BY <2>1, <2>3, SolvesOneMore, Zenon
    <2>5. QED
      BY <1>5, <2>4, Zenon
  <1>8. QED
    BY <1>6, <1>7, Zenon

\* What decode_chunked's loop finds, from every position and after every size.
ChunkLoop(data) == CHOOSE f : f = [at \in Nat \X Nat |-> ChunkAt(data, f, at[1], at[2])]

\* decode_chunked's loop is such a function: its recursion is well-founded.
LEMMA LoopIs ==
    ASSUME NEW data, Len(data) \in Nat
    PROVE  Solves(ChunkLoop(data), data, 0)
  <1>1. PICK g : Solves(g, data, 0)
    BY Solvable, Zenon
  <1> DEFINE f == [at \in Nat \X Nat |-> g[at]]
  <1>2. \A p, s \in Nat : f[<<p, s>>] = g[<<p, s>>]
    OBVIOUS
  <1>3. f = [at \in Nat \X Nat |-> f[at]]
    OBVIOUS
  <1> HIDE DEF f
  <1>4. \A p, s \in Nat : f[<<p, s>>] = ChunkAt(data, f, p, s)
    <2>1. ASSUME NEW p \in Nat, NEW s \in Nat
          PROVE  f[<<p, s>>] = ChunkAt(data, f, p, s)
      <3>1. p >= 0
        OBVIOUS
      <3>2. g[<<p, s>>] = Turn(data, g, p, s)
        BY <1>1, <3>1, Zenon DEF Solves
      <3>a. AgreeAfter(g, f, p)
        BY <1>2, Zenon DEF AgreeAfter
      <3>b. SameTurn(data, g, f, p, s)
        BY <3>a, TurnLooksAhead, Zenon
      <3>3. Turn(data, g, p, s) = Turn(data, f, p, s)
        BY <3>b, Zenon DEF SameTurn
      <3>4. QED
        BY <1>2, <3>2, <3>3, TurnIs, Zenon
    <2>2. QED
      BY <2>1, Zenon
  <1>5. f = [at \in Nat \X Nat |-> ChunkAt(data, f, at[1], at[2])]
    <2>1. \A at \in Nat \X Nat : at[1] \in Nat /\ at[2] \in Nat /\ at = <<at[1], at[2]>>
      OBVIOUS
    <2>2. \A at \in Nat \X Nat : f[at] = ChunkAt(data, f, at[1], at[2])
      BY <1>4, <2>1, ZenonT(60)
    <2>3. QED
      BY <1>3, <2>2, Zenon
  <1> DEFINE l == ChunkLoop(data)
  <1>6. l = [at \in Nat \X Nat |-> ChunkAt(data, l, at[1], at[2])]
    BY <1>5, Zenon DEF ChunkLoop
  <1> HIDE DEF l
  <1>7. \A p, s \in Nat : l[<<p, s>>] = ChunkAt(data, l, p, s)
    BY <1>6
  <1>8. Solves(l, data, 0)
    BY <1>7, TurnIs, Zenon DEF Solves
  <1>9. QED
    BY <1>8, Zenon DEF l

\* decode_chunked is the loop from start on.
LEMMA DecodedIs ==
    ASSUME NEW data, NEW start
    PROVE  decode_chunked(data, start) = ChunkLoop(data)[<<start, 0>>]
  BY Zenon DEF decode_chunked, ChunkLoop

SamePartOf(u, d, a, b) == SubSeq(u, a, b) = SubSeq(d, a, b)

\* A part of what has arrived is the same part of all.
LEMMA SamePart ==
    ASSUME NEW S, NEW u \in Seq(S), NEW d \in Seq(S), Arrived(u, d),
           NEW a \in Nat, a # 0, NEW b \in Nat, b <= Len(u)
    PROVE  SamePartOf(u, d, a, b)
  <1> DEFINE s == SubSeq(u, a, b)
             t == SubSeq(d, a, b)
  <1>1. Len(u) \in Nat /\ Len(d) \in Nat /\ Len(u) <= Len(d) /\ \A i \in 1 .. Len(u) : u[i] = d[i]
    BY DEF Arrived
  <1>2. CASE a <= b
    <2>1. \A i \in a .. b : i \in 1 .. Len(u) /\ i \in 1 .. Len(d)
      BY <1>1, <1>2
    <2>2. /\ s \in Seq(S) /\ Len(s) = b - a + 1 /\ \A i \in 1 .. b - a + 1 : s[i] = u[a + i - 1]
      BY <1>1, <1>2, SubSeqProperties
    <2>3. /\ t \in Seq(S) /\ Len(t) = b - a + 1 /\ \A i \in 1 .. b - a + 1 : t[i] = d[a + i - 1]
      BY <1>1, <1>2, SubSeqProperties
    <2> HIDE DEF s, t
    <2>4. \A i \in 1 .. b - a + 1 : a + i - 1 \in 1 .. Len(u)
      BY <1>1, <1>2
    <2>5. s = t
      BY <1>1, <2>2, <2>3, <2>4, SeqEqual
    <2>6. QED
      BY <2>5, Zenon DEF SamePartOf, s, t
  <1>3. CASE ~(a <= b)
    <2>1. s = <<>> /\ t = <<>>
      BY <1>1, <1>3, SubSeqEmpty
    <2>2. QED
      BY <2>1, Zenon DEF SamePartOf
  <1>4. QED
    BY <1>2, <1>3

\* What decode_chunked returns of the given data.
Result(x, data) ==
    /\ \E kind, pos, body : x = [kind |-> kind, pos |-> pos, body |-> body]
    /\ x.kind \notin {"incomplete", "overlong", "error"} => x.pos \in 1 .. Len(data)

\* It stays when more data have come, unless it was too early to tell, or a size line was
\* too long to wait for its end.
Stays(x, y) == x.kind \in {"incomplete", "overlong"} \/ y = x

\* What a turn that is the last returns is a result.
LEMMA ChunksIs ==
    ASSUME NEW kind, NEW pos, NEW data, kind \notin {"incomplete", "overlong", "error"} => pos \in 1 .. Len(data)
    PROVE  Result(Chunks(kind, pos), data)
  <1>1. Chunks(kind, pos) = [kind |-> kind, pos |-> pos, body |-> <<>>]
    BY Zenon DEF Chunks
  <1>2. Chunks(kind, pos).kind = kind /\ Chunks(kind, pos).pos = pos
    BY <1>1
  <1>3. QED
    BY <1>1, <1>2, Zenon DEF Result

\* Its kind.
LEMMA IncompleteIs ==
    ASSUME NEW pos
    PROVE  Chunks("incomplete", pos).kind = "incomplete" /\ Chunks("overlong", pos).kind = "overlong"
  BY DEF Chunks

\* A chunk before the others.
LEMMA LongerIs ==
    ASSUME NEW x, NEW data, Result(x, data), NEW w
    PROVE  LET z == [x EXCEPT !.body = w \o @]
           IN  Result(z, data) /\ z.kind = x.kind
  <1>1. PICK kind, pos, body : x = [kind |-> kind, pos |-> pos, body |-> body]
    BY Zenon DEF Result
  <1> DEFINE z == [x EXCEPT !.body = w \o @]
  <1> DEFINE c == w \o body
  <1>a. z = [x EXCEPT !.body = c]
    BY <1>1
  <1> HIDE DEF c, z
  <1>b. [[kind |-> kind, pos |-> pos, body |-> body] EXCEPT !.body = c] =
            [kind |-> kind, pos |-> pos, body |-> c]
    OBVIOUS
  <1>2. z = [kind |-> kind, pos |-> pos, body |-> c]
    BY <1>1, <1>a, <1>b, Zenon
  <1>3. z.kind = x.kind /\ z.pos = x.pos
    BY <1>1, <1>2
  <1>4. x.kind \notin {"incomplete", "overlong", "error"} => x.pos \in 1 .. Len(data)
    BY Zenon DEF Result
  <1>5. Result(z, data)
    BY <1>2, <1>3, <1>4, Zenon DEF Result
  <1>6. QED
    BY <1>3, <1>5, Zenon DEF z

\* A size line that has arrived is the same in u and d, and so is the end of the trailer.
SameLine(u, d, pos) ==
    /\ Line(d, pos) = Line(u, pos) /\ Line(u, pos) \in pos + 1 .. Len(u)
    /\ Size(d, pos) = Size(u, pos)
    /\ IsSizeLine(d, pos, Line(u, pos)) <=> IsSizeLine(u, pos, Line(u, pos))
    /\ Trailer(u, pos) # 0 => Trailer(d, pos) = Trailer(u, pos) /\ Trailer(u, pos) \in 1 .. Len(u)

\* What has arrived of it is all of it.
LEMMA LineStays ==
    ASSUME NEW u, NEW d, Arrived(u, d), NEW pos \in Nat, pos # 0, Line(u, pos) # 0
    PROVE  SameLine(u, d, pos)
  <1> DEFINE l == Line(u, pos)
  <1>1. Len(u) \in Nat /\ \A i \in 1 .. Len(u) : u[i] = d[i]
    BY Zenon DEF Arrived
  <1>2. pos + 1 \in Nat /\ pos + 1 > 1 /\ pos + 1 # 0
    OBVIOUS
  <1>3. FoundUpTo(Len(u), Line(u, pos), Line(d, pos), pos + 1)
    BY <1>1, <1>2, ArrivedLines, LeastOfMore, Zenon DEF Line
  <1>4. Line(d, pos) = l /\ l \in pos + 1 .. Len(u)
    BY <1>3, Zenon DEF FoundUpTo
  <1> HIDE DEF l
  <1>5. /\ l + 1 + 1 \in Nat /\ l + 1 + 1 > 3 /\ l + 1 + 1 # 0 /\ pos \in 1 .. Len(u)
        /\ \A i \in pos + 1 .. l - 2 : i \in 1 .. Len(u)
        /\ \A i \in l + 1 + 1 .. Len(u) : i \in 1 .. Len(u)
    BY <1>1, <1>4
  <1>6. Size(d, pos) = Size(u, pos)
    BY <1>1, <1>5, Zenon DEF Size
  <1>7. IsSizeLine(d, pos, l) <=> IsSizeLine(u, pos, l)
    BY <1>1, <1>5, Zenon DEF IsSizeLine
  <1>8. FoundUpTo(Len(u), Trailer(u, pos), Trailer(d, pos), l + 1 + 1)
    BY <1>1, <1>4, <1>5, ArrivedEnds, LeastOfMore, Zenon DEF Trailer, l
  <1>9. Trailer(u, pos) # 0 => Trailer(d, pos) = Trailer(u, pos) /\ Trailer(u, pos) \in 1 .. Len(u)
    BY <1>5, <1>8, Zenon DEF FoundUpTo
  <1>10. QED
    BY <1>4, <1>6, <1>7, <1>9, Zenon DEF SameLine, l

\* f and g tell of the turns after pos, f of the data u and g of more.
Ahead(f, g, u, pos) ==
    \A p, s \in Nat : p > pos => Result(f[<<p, s>>], u) /\ Stays(f[<<p, s>>], g[<<p, s>>])

\* A turn's result is one, and stays.
TurnStays(u, d, f, g, pos, size) ==
    Result(Turn(u, f, pos, size), u) /\ Stays(Turn(u, f, pos, size), Turn(d, g, pos, size))

\* Errors and unfinished data.
LEMMA ErrorStays ==
    ASSUME NEW u, NEW pos
    PROVE  /\ Result(Chunks("error", pos), u) /\ Result(Chunks("incomplete", pos), u)
           /\ Result(Chunks("overlong", pos), u)
           /\ \A y : Stays(Chunks("incomplete", pos), y) /\ Stays(Chunks("overlong", pos), y)
  <1>1. \A kind : kind \in {"incomplete", "overlong", "error"} => Result(Chunks(kind, pos), u)
    BY ChunksIs, Zenon
  <1>2. /\ Result(Chunks("error", pos), u) /\ Result(Chunks("incomplete", pos), u)
        /\ Result(Chunks("overlong", pos), u)
    BY <1>1, Zenon
  <1>3. QED
    BY <1>2, IncompleteIs, Zenon DEF Stays

\* A turn's result stays when those of the turns further on do: a size line, a trailer, a
\* chunk that have arrived whole are the same when more has come.
LEMMA TurnArrived ==
    ASSUME NEW S, NEW u \in Seq(S), NEW d \in Seq(S), Arrived(u, d), NEW f, NEW g,
           NEW pos \in Nat, pos # 0, NEW size \in Nat, Ahead(f, g, u, pos)
    PROVE  TurnStays(u, d, f, g, pos, size)
  <1> DEFINE x == Turn(u, f, pos, size)
             y == Turn(d, g, pos, size)
             n == Size(u, pos)
             l == Line(u, pos)
  <1>1. Len(u) \in Nat /\ Len(d) \in Nat /\ Len(u) <= Len(d) /\ \A i \in 1 .. Len(u) : u[i] = d[i]
    BY Zenon DEF Arrived
  <1>2. MaxBody \in Nat
    BY HttpClientAssumption, Zenon
  <1>3. CASE l = 0
    <2>1. x = Chunks("incomplete", pos) \/ x = Chunks("overlong", pos)
      BY <1>3, Zenon DEF Turn
    <2>2. QED
      BY <2>1, ErrorStays, Zenon DEF TurnStays
  <1>4. CASE l # 0
    <2>1. SameLine(u, d, pos)
      BY <1>4, LineStays, Zenon
    <2>2. Size(d, pos) = n /\ Line(d, pos) = l /\ l \in pos + 1 .. Len(u)
      BY <2>1, Zenon DEF SameLine
    <2>3. CASE ~IsSizeLine(u, pos, l)
      <3>1. x = Chunks("error", pos)
        BY <1>4, <2>3, Zenon DEF Turn
      <3>2. y = Chunks("error", pos)
        BY <1>4, <2>1, <2>2, <2>3, Zenon DEF Turn, SameLine
      <3>3. QED
        BY <3>1, <3>2, ErrorStays, Zenon DEF TurnStays, Stays
    <2>a. CASE IsSizeLine(u, pos, l)
      <3>0. IsSizeLine(d, pos, l)
        BY <2>1, <2>a, Zenon DEF SameLine
      <3>4. CASE n = 0
        <4>1. CASE Trailer(u, pos) = 0
          <5>1. x = Chunks("incomplete", 0)
            BY <1>4, <2>a, <3>4, <4>1, Zenon DEF Turn
          <5>2. QED
            BY <5>1, ErrorStays, Zenon DEF TurnStays
        <4>2. CASE Trailer(u, pos) # 0
          <5>1. Trailer(d, pos) = Trailer(u, pos) /\ Trailer(u, pos) \in 1 .. Len(u)
            BY <2>1, <4>2, Zenon DEF SameLine
          <5>2. x = Chunks("end", Trailer(u, pos))
            BY <1>4, <2>a, <3>4, <4>2, Zenon DEF Turn
          <5>3. y = Chunks("end", Trailer(u, pos))
            BY <1>4, <2>2, <3>0, <3>4, <4>2, <5>1, Zenon DEF Turn
          <5>4. Result(x, u)
            BY <5>1, <5>2, ChunksIs, ZenonT(60)
          <5>5. QED
            BY <5>2, <5>3, <5>4, Zenon DEF TurnStays, Stays
        <4>3. QED
          BY <4>1, <4>2, Zenon
      <3>5. CASE n # 0 /\ n \notin 1 .. MaxBody - size
        <4>1. x = Chunks("error", pos)
          BY <1>4, <2>a, <3>5, Zenon DEF Turn
        <4>2. y = Chunks("error", pos)
          BY <1>4, <2>2, <3>0, <3>5, Zenon DEF Turn
        <4>3. QED
          BY <4>1, <4>2, ErrorStays, Zenon DEF TurnStays, Stays
      <3>6. CASE n # 0 /\ n \in 1 .. MaxBody - size
        <4> HIDE DEF n, l
        <4>1. n \in Nat /\ n >= 1 /\ l \in Nat /\ l > pos
          BY <1>2, <2>2, <3>6
        <4>2. CASE Len(u) - l < n + 2
          <5>1. x = Chunks("incomplete", pos)
            BY <1>4, <2>a, <3>6, <4>2, Zenon DEF Turn, n, l
          <5>2. QED
            BY <5>1, ErrorStays, Zenon DEF TurnStays
        <4>3. CASE ~(Len(u) - l < n + 2)
          <5>1. /\ ~(Len(d) - l < n + 2) /\ l + n + 2 \in 2 .. Len(u)
                /\ l + 1 \in Nat /\ l + 1 # 0 /\ l + n \in Nat /\ l + n <= Len(u)
                /\ l + n + 3 \in Nat /\ size + n \in Nat /\ l + n + 3 > pos
            BY <1>1, <4>1, <4>3
          <5>2. EndsLine(d, l + n + 2) <=> EndsLine(u, l + n + 2)
            BY <5>1, ArrivedEnd, Zenon
          <5>3. CASE ~EndsLine(u, l + n + 2)
            <6>1. x = Chunks("error", pos)
              BY <1>4, <2>a, <3>6, <4>3, <5>3, Zenon DEF Turn, n, l
            <6>2. y = Chunks("error", pos)
              BY <1>4, <2>2, <3>0, <3>6, <5>1, <5>2, <5>3, Zenon DEF Turn
            <6>3. QED
              BY <6>1, <6>2, ErrorStays, Zenon DEF TurnStays, Stays
          <5>4. CASE EndsLine(u, l + n + 2)
            <6> DEFINE w == SubSeq(u, l + 1, l + n)
                       v == f[<<l + n + 3, size + n>>]
                       z == g[<<l + n + 3, size + n>>]
            <6>1. SubSeq(d, l + 1, l + n) = w
              <7>1. SamePartOf(u, d, l + 1, l + n)
                BY <5>1, SamePart, Zenon
              <7>2. QED
                BY <7>1, Zenon DEF SamePartOf
            <6>2. x = [v EXCEPT !.body = w \o @]
              BY <1>4, <2>a, <3>6, <4>3, <5>4, Zenon DEF Turn, n, l
            <6>3. y = [z EXCEPT !.body = SubSeq(d, l + 1, l + n) \o @]
              BY <1>4, <2>2, <3>0, <3>6, <5>1, <5>2, <5>4, Zenon DEF Turn
            <6>4. Result(v, u) /\ Stays(v, z)
              BY <5>1, Zenon DEF Ahead
            <6> HIDE DEF w, v, z, x, y
            <6>5. Result(x, u) /\ x.kind = v.kind
              BY <6>2, <6>4, LongerIs, Zenon
            <6>6. y = [z EXCEPT !.body = w \o @]
              BY <6>1, <6>3, Zenon
            <6>7. Stays(x, y)
              <7>1. CASE v.kind \in {"incomplete", "overlong"}
                BY <6>5, <7>1, Zenon DEF Stays
              <7>2. CASE v.kind \notin {"incomplete", "overlong"}
                <8>1. z = v
                  BY <6>4, <7>2, Zenon DEF Stays
                <8>2. y = x
                  BY <6>2, <6>6, <8>1, Zenon
                <8>3. QED
                  BY <8>2, Zenon DEF Stays
              <7>3. QED
                BY <7>1, <7>2, Zenon
            <6>8. QED
              BY <6>5, <6>7, Zenon DEF TurnStays, x, y
          <5>5. QED
            BY <5>3, <5>4, Zenon
        <4>4. QED
          BY <4>2, <4>3, Zenon
      <3>7. QED
        BY <3>4, <3>5, <3>6, Zenon
    <2>b. QED
      BY <2>3, <2>a, Zenon
  <1>5. QED
    BY <1>3, <1>4, Zenon

\* From some position on, what the loop finds is a result, and stays.
LoopStays(u, d, a) ==
    \A p, s \in Nat : p >= a =>
        /\ Result(ChunkLoop(u)[<<p, s>>], u)
        /\ Stays(ChunkLoop(u)[<<p, s>>], ChunkLoop(d)[<<p, s>>])

\* One turn more.
LEMMA LoopOneMore ==
    ASSUME NEW S, NEW u \in Seq(S), NEW d \in Seq(S), Arrived(u, d), NEW a \in Nat, a # 0,
           LoopStays(u, d, a + 1), NEW s \in Nat
    PROVE  Result(ChunkLoop(u)[<<a, s>>], u) /\ Stays(ChunkLoop(u)[<<a, s>>], ChunkLoop(d)[<<a, s>>])
  <1>0. \A p \in Nat : p > a => p >= a + 1
    OBVIOUS
  <1>1. Ahead(ChunkLoop(u), ChunkLoop(d), u, a)
    BY <1>0, Zenon DEF Ahead, LoopStays
  <1>2. TurnStays(u, d, ChunkLoop(u), ChunkLoop(d), a, s)
    BY <1>1, TurnArrived, Zenon
  <1>3. Len(u) \in Nat /\ Len(d) \in Nat /\ a >= 0
    OBVIOUS
  <1>4. Solves(ChunkLoop(u), u, 0) /\ Solves(ChunkLoop(d), d, 0)
    BY <1>3, LoopIs, Zenon
  <1>5. /\ ChunkLoop(u)[<<a, s>>] = Turn(u, ChunkLoop(u), a, s)
        /\ ChunkLoop(d)[<<a, s>>] = Turn(d, ChunkLoop(d), a, s)
    BY <1>3, <1>4, Zenon DEF Solves
  <1>6. QED
    BY <1>2, <1>5, Zenon DEF TurnStays

\* After the end of the data all is unfinished.
LEMMA TurnBeyond ==
    ASSUME NEW u, Len(u) \in Nat, NEW d, NEW f, NEW g, NEW pos \in Nat, pos > Len(u), NEW size
    PROVE  TurnStays(u, d, f, g, pos, size)
  <1>1. Line(u, pos) = 0
    BY NoLineBeyond, Zenon
  <1>2. Turn(u, f, pos, size) = Chunks("incomplete", pos) \/ Turn(u, f, pos, size) = Chunks("overlong", pos)
    BY <1>1, Zenon DEF Turn
  <1>3. QED
    BY <1>2, ErrorStays, Zenon DEF TurnStays

\* What the loop finds stays, from every position: else there is a last position where
\* it does not.
LEMMA LoopArrived ==
    ASSUME NEW S, NEW u \in Seq(S), NEW d \in Seq(S), Arrived(u, d)
    PROVE  LoopStays(u, d, 1)
  <1> DEFINE L == Len(u) + 1
             T == {k \in Nat : k < L /\ ~LoopStays(u, d, L - k)}
  <1>1. L \in Nat /\ L - Len(u) = 1 /\ Len(u) < L /\ L - 0 = L /\ Len(u) \in Nat /\ Len(d) \in Nat
    OBVIOUS
  <1>2. SUFFICES ASSUME T # {}
                 PROVE  FALSE
    BY <1>1, Zenon
  <1>3. T \subseteq Nat
    BY Zenon
  <1>4. PICK k \in T : \A m \in T : k <= m
    BY <1>2, <1>3, LeastNat, Zenon
  <1>5. k \in Nat /\ k < L /\ ~LoopStays(u, d, L - k)
    BY <1>4, Zenon
  <1>6. CASE k = 0
    <2>1. ASSUME NEW p \in Nat, NEW s \in Nat, p >= L
          PROVE  /\ Result(ChunkLoop(u)[<<p, s>>], u)
                 /\ Stays(ChunkLoop(u)[<<p, s>>], ChunkLoop(d)[<<p, s>>])
      <3>1. p > Len(u) /\ p # 0 /\ p >= 0
        BY <1>1, <2>1
      <3>2. TurnStays(u, d, ChunkLoop(u), ChunkLoop(d), p, s)
        BY <1>1, <3>1, TurnBeyond, Zenon
      <3>3. Solves(ChunkLoop(u), u, 0) /\ Solves(ChunkLoop(d), d, 0)
        BY <1>1, LoopIs, Zenon
      <3>4. /\ ChunkLoop(u)[<<p, s>>] = Turn(u, ChunkLoop(u), p, s)
            /\ ChunkLoop(d)[<<p, s>>] = Turn(d, ChunkLoop(d), p, s)
        BY <3>1, <3>3, Zenon DEF Solves
      <3>5. QED
        BY <3>2, <3>4, Zenon DEF TurnStays
    <2>2. QED
      BY <1>1, <1>5, <1>6, <2>1, Zenon DEF LoopStays
  <1>7. CASE k # 0
    <2> DEFINE a == L - k
    <2>1. /\ k - 1 \in Nat /\ k - 1 < L /\ ~(k <= k - 1) /\ L - (k - 1) = a + 1
          /\ a \in Nat /\ a # 0
      BY <1>1, <1>5, <1>7
    <2>2. k - 1 \notin T
      BY <1>4, <2>1, Zenon
    <2>3. LoopStays(u, d, a + 1)
      BY <2>1, <2>2, Zenon
    <2> HIDE DEF a
    <2>4. \A p \in Nat : p >= a => p = a \/ p >= a + 1
      BY <2>1
    <2>5. LoopStays(u, d, a)
      <3>1. ASSUME NEW s \in Nat
            PROVE  /\ Result(ChunkLoop(u)[<<a, s>>], u)
                   /\ Stays(ChunkLoop(u)[<<a, s>>], ChunkLoop(d)[<<a, s>>])
        BY <2>1, <2>3, LoopOneMore, Zenon
      <3>2. QED
        BY <2>3, <2>4, <3>1, Zenon DEF LoopStays
    <2>6. QED
      BY <1>5, <2>5, Zenon DEF a
  <1>8. QED
    BY <1>6, <1>7, Zenon

-----------------------------------------------------------------------------
(* parse_http_response *)

\* The parts of parse_http_response, with more data to come.
HeadEnd(data) == LeastOf(Ends(data, 4))
Fields(data) == parse_headers(SubSeq(data, 1, HeadEnd(data) - 4))
Body(data) == SubSeq(data, HeadEnd(data) + 1, Len(data))
Keep(data) ==
    IF Fields(data).connection = "none" THEN ~data[1].http10 ELSE Fields(data).connection = "keep-alive"
Decoded(data) == decode_chunked(data, HeadEnd(data) + 1)

Chunked(data) ==
    IF Decoded(data).kind = "incomplete" THEN Incomplete
    ELSE IF Decoded(data).kind = "overlong" THEN Overlong
    ELSE IF Decoded(data).kind = "error" THEN Error
    ELSE Response(data[1].code, Keep(data), Decoded(data).body, Decoded(data).pos)

Measured(data) ==
    IF Fields(data).length \notin 0 .. MaxBody THEN Error
    ELSE IF Len(Body(data)) < Fields(data).length THEN Incomplete
    ELSE Response(data[1].code, Keep(data), SubSeq(Body(data), 1, Fields(data).length),
                  HeadEnd(data) + Fields(data).length)

Bare(data) ==
    IF Bodyless(data[1].code) THEN Response(data[1].code, Keep(data), <<>>, HeadEnd(data)) ELSE Incomplete

Framed(data) ==
    IF Framing(Fields(data)) = "chunked" THEN Chunked(data)
    ELSE IF Framing(Fields(data)) = "length" THEN Measured(data)
    ELSE Bare(data)

Parsed(data) ==
    IF HeadEnd(data) = 0 THEN IF Len(data) > MaxHead THEN Overlong ELSE Incomplete
    ELSE IF HeadEnd(data) - 4 > MaxHead \/ ~Fields(data).ok THEN Error
    ELSE Framed(data)

IsParsed(data) == parse_http_response(data, FALSE) = Parsed(data)

\* parse_http_response is made of these parts.
LEMMA ParsedIs ==
    ASSUME NEW data
    PROVE  IsParsed(data)
  <1>1. First(data, 4, LAMBDA i : EndsEmptyLine(data, i)) = HeadEnd(data)
    BY Zenon DEF First, HeadEnd, Ends, LeastOf
  <1>2. Unfinished(FALSE) = Incomplete
    BY Zenon DEF Unfinished
  <1>3. "chunked" # "length" /\ "chunked" # "none" /\ "length" # "none"
    OBVIOUS
  <1>4. \/ Framing(Fields(data)) = "chunked" \/ Framing(Fields(data)) = "length"
        \/ Framing(Fields(data)) = "none"
    BY Zenon DEF Framing
  <1> DEFINE h == Fields(data)
             end == HeadEnd(data)
  <1> HIDE DEF h, end
  <1>5. /\ h = parse_headers(SubSeq(data, 1, end - 4))
        /\ Keep(data) = IF h.connection = "none" THEN ~data[1].http10 ELSE h.connection = "keep-alive"
    BY Zenon DEF Fields, Keep, h, end
  <1>6. CASE Framing(h) = "chunked"
    BY <1>1, <1>2, <1>3, <1>6, <1>5, ZenonT(60)
       DEF IsParsed, parse_http_response, Parsed, Framed, Chunked, Decoded, h, end
  <1>7. CASE Framing(h) = "length"
    BY <1>1, <1>2, <1>3, <1>7, <1>5, ZenonT(60)
       DEF IsParsed, parse_http_response, Parsed, Framed, Measured, Body, h, end
  <1>8. CASE Framing(h) = "none"
    BY <1>1, <1>2, <1>3, <1>8, <1>5, ZenonT(60)
       DEF IsParsed, parse_http_response, Parsed, Framed, Bare, h, end
  <1>9. QED
    BY <1>4, <1>6, <1>7, <1>8, Zenon DEF h

\* A whole head stays as it is.
HeadStays(u, d) ==
    /\ HeadEnd(u) \in 1 .. Len(u) /\ HeadEnd(d) = HeadEnd(u) /\ Fields(d) = Fields(u)
    /\ d[1] = u[1] /\ Keep(d) = Keep(u)

\* The end of the head, its fields and its first line.
LEMMA HeadArrived ==
    ASSUME NEW S, NEW u \in Seq(S), NEW d \in Seq(S), Arrived(u, d), HeadEnd(u) # 0
    PROVE  HeadStays(u, d)
  <1>1. Len(u) \in Nat /\ 1 \in Nat /\ 1 # 0 /\ 4 \in Nat /\ 4 > 3 /\ 4 # 0
    OBVIOUS
  <1>2. FoundUpTo(Len(u), HeadEnd(u), HeadEnd(d), 4)
    BY <1>1, ArrivedEnds, LeastOfMore, Zenon DEF HeadEnd
  <1>3. HeadEnd(d) = HeadEnd(u) /\ HeadEnd(u) \in 4 .. Len(u)
    BY <1>2, Zenon DEF FoundUpTo
  <1> DEFINE end == HeadEnd(u)
  <1> HIDE DEF end
  <1>4. end \in 4 .. Len(u)
    BY <1>3, Zenon DEF end
  <1>5. end - 4 \in Nat /\ end - 4 <= Len(u) /\ 1 \in 1 .. Len(u) /\ end \in 1 .. Len(u)
    BY <1>1, <1>4
  <1>6. SamePartOf(u, d, 1, end - 4)
    BY <1>1, <1>5, SamePart, Zenon
  <1>7. Fields(d) = Fields(u)
    BY <1>3, <1>6, Zenon DEF SamePartOf, Fields, end
  <1>8. d[1] = u[1]
    BY <1>5, Zenon DEF Arrived
  <1>9. Keep(d) = Keep(u)
    BY <1>7, <1>8, Zenon DEF Keep
  <1>10. QED
    BY <1>3, <1>5, <1>7, <1>8, <1>9, Zenon DEF HeadStays, end

\* What is parsed stays, unless it was too early to tell or too long to wait.
ParsedStays(x, y) == x \in {Incomplete, Overlong} \/ y = x

\* A body framed by chunks.
LEMMA ChunkedArrived ==
    ASSUME NEW S, NEW u \in Seq(S), NEW d \in Seq(S), Arrived(u, d), HeadStays(u, d)
    PROVE  ParsedStays(Chunked(u), Chunked(d))
  <1> DEFINE start == HeadEnd(u) + 1
  <1>1. HeadEnd(u) \in 1 .. Len(u) /\ Len(u) \in Nat
    BY Zenon, LenProperties DEF HeadStays
  <1>2. start \in Nat /\ start >= 1 /\ 0 \in Nat
    BY <1>1
  <1> HIDE DEF start
  <1>3. Stays(ChunkLoop(u)[<<start, 0>>], ChunkLoop(d)[<<start, 0>>])
    BY <1>2, LoopArrived, Zenon DEF LoopStays
  <1>4. Decoded(u) = ChunkLoop(u)[<<start, 0>>] /\ Decoded(d) = ChunkLoop(d)[<<start, 0>>]
    BY DecodedIs, Zenon DEF Decoded, start, HeadStays
  <1>5. Decoded(u).kind \in {"incomplete", "overlong"} \/ Decoded(d) = Decoded(u)
    BY <1>3, <1>4, Zenon DEF Stays
  <1>6. CASE Decoded(u).kind \in {"incomplete", "overlong"}
    BY <1>6, Zenon DEF Chunked, ParsedStays
  <1>7. CASE Decoded(d) = Decoded(u)
    BY <1>7, Zenon DEF Chunked, ParsedStays, HeadStays
  <1>8. QED
    BY <1>5, <1>6, <1>7, Zenon

\* v is what comes after the first m of s.
PartAfter(v, s, m, S) ==
    /\ v \in Seq(S) /\ Len(v) = Len(s) - m
    /\ \A i \in 1 .. Len(s) - m : v[i] = s[m + i]

\* What SubSeq makes of the rest of a sequence.
LEMMA RestAfter ==
    ASSUME NEW S, NEW s \in Seq(S), NEW m \in 0 .. Len(s)
    PROVE  PartAfter(SubSeq(s, m + 1, Len(s)), s, m, S)
  <1>1. Len(s) \in Nat
    OBVIOUS
  <1>2. CASE m = Len(s)
    <2>1. SubSeq(s, m + 1, Len(s)) = <<>>
      BY <1>1, <1>2, SubSeqEmpty
    <2>2. QED
      BY <1>1, <1>2, <2>1 DEF PartAfter
  <1>3. CASE m < Len(s)
    BY <1>1, <1>3, SubSeqProperties DEF PartAfter
  <1>4. QED
    BY <1>1, <1>2, <1>3

\* A body framed by its length.
LEMMA MeasuredArrived ==
    ASSUME NEW S, NEW u \in Seq(S), NEW d \in Seq(S), Arrived(u, d), HeadStays(u, d)
    PROVE  ParsedStays(Measured(u), Measured(d))
  <1> DEFINE end == HeadEnd(u)
             n == Fields(u).length
             v == SubSeq(u, end + 1, Len(u))
             w == SubSeq(d, end + 1, Len(d))
  <1>1. HeadEnd(d) = end /\ Fields(d).length = n /\ d[1] = u[1] /\ Keep(d) = Keep(u) /\ end \in 1 .. Len(u)
    BY Zenon DEF HeadStays
  <1>2. Body(u) = v /\ Body(d) = w
    BY <1>1, Zenon DEF Body
  <1>3. CASE n \notin 0 .. MaxBody
    <2>1. Measured(u) = Error /\ Measured(d) = Error
      BY <1>1, <1>3, Zenon DEF Measured
    <2>2. QED
      BY <2>1, Zenon DEF ParsedStays
  <1>4. CASE n \in 0 .. MaxBody /\ Len(v) < n
    <2>1. Measured(u) = Incomplete
      BY <1>2, <1>4, Zenon DEF Measured
    <2>2. QED
      BY <2>1, Zenon DEF ParsedStays
  <1>5. CASE n \in 0 .. MaxBody /\ ~(Len(v) < n)
    <2>1. MaxBody \in Nat
      BY HttpClientAssumption, Zenon
    <2> HIDE DEF end, n
    <2>2. v \in Seq(S) /\ w \in Seq(S) /\ Arrived(v, w)
      <3>1. Len(u) \in Nat /\ Len(d) \in Nat /\ Len(u) <= Len(d) /\ \A i \in 1 .. Len(u) : u[i] = d[i]
        BY Zenon DEF Arrived
      <3>2. end \in 0 .. Len(u) /\ end \in 0 .. Len(d)
        BY <1>1, <3>1
      <3>3. PartAfter(v, u, end, S) /\ PartAfter(w, d, end, S)
        BY <3>2, RestAfter, Zenon
      <3> HIDE DEF v, w
      <3>4. QED
        BY <3>1, <3>2, <3>3 DEF Arrived, PartAfter
    <2> HIDE DEF v, w
    <2>3. Len(v) \in Nat /\ Len(w) \in Nat /\ Len(v) <= Len(w)
      BY <2>2, Zenon DEF Arrived
    <2>4. n \in Nat /\ n <= Len(v) /\ ~(Len(w) < n) /\ 1 \in Nat /\ 1 # 0
      BY <1>5, <2>1, <2>3
    <2>5. SamePartOf(v, w, 1, n)
      BY <2>2, <2>4, SamePart, Zenon
    <2>6. SubSeq(v, 1, n) = SubSeq(w, 1, n)
      BY <2>5, Zenon DEF SamePartOf
    <2>7. Measured(u) = Response(u[1].code, Keep(u), SubSeq(v, 1, n), end + n)
      BY <1>2, <1>5, Zenon DEF Measured, n, end
    <2>8. Measured(d) = Response(d[1].code, Keep(d), SubSeq(w, 1, n), end + n)
      BY <1>1, <1>2, <1>5, <2>4, Zenon DEF Measured
    <2>9. QED
      BY <1>1, <2>6, <2>7, <2>8, ZenonT(60) DEF ParsedStays
  <1>6. QED
    BY <1>3, <1>4, <1>5, Zenon

\* What parse_http_response makes of some data stays when more have come.
LEMMA ParsedArrived ==
    ASSUME NEW S, NEW u \in Seq(S), NEW d \in Seq(S), Arrived(u, d)
    PROVE  ParsedStays(parse_http_response(u, FALSE), parse_http_response(d, FALSE))
  <1>0. IsParsed(u) /\ IsParsed(d)
    BY ParsedIs, Zenon
  <1>1. SUFFICES ParsedStays(Parsed(u), Parsed(d))
    BY <1>0, Zenon DEF IsParsed
  <1>2. CASE HeadEnd(u) = 0
    BY <1>2, Zenon DEF Parsed, ParsedStays
  <1>3. CASE HeadEnd(u) # 0
    <2>1. HeadStays(u, d)
      BY <1>3, HeadArrived, Zenon
    <2>2. HeadEnd(d) = HeadEnd(u) /\ Fields(d) = Fields(u) /\ d[1] = u[1] /\ Keep(d) = Keep(u)
      BY <2>1, Zenon DEF HeadStays
    <2>3. ParsedStays(Chunked(u), Chunked(d)) /\ ParsedStays(Measured(u), Measured(d))
      BY <2>1, ChunkedArrived, MeasuredArrived, Zenon
    <2>4. ParsedStays(Bare(u), Bare(d))
      BY <2>2, Zenon DEF ParsedStays, Bare
    <2>5. ParsedStays(Framed(u), Framed(d))
      BY <2>2, <2>3, <2>4, Zenon DEF Framed
    <2>6. QED
      BY <1>3, <2>2, <2>5, Zenon DEF Parsed, ParsedStays
  <1>4. QED
    BY <1>2, <1>3, Zenon

Consumes(found, n) == found.consumed = n

\* How much a response has consumed.
LEMMA ResponseConsumes ==
    ASSUME NEW found, NEW code, NEW keep, NEW body, NEW n, found = Response(code, keep, body, n)
    PROVE  Consumes(found, n)
  BY DEF Consumes, Response

\* A response is not longer than what has arrived.
LEMMA ConsumedIs ==
    ASSUME NEW S, NEW u \in Seq(S), NEW found, found = parse_http_response(u, FALSE), found.kind = "response"
    PROVE  found.consumed \in 1 .. Len(u)
  <1>1. IsParsed(u)
    BY ParsedIs, Zenon
  <1>2. found = Parsed(u)
    BY <1>1, Zenon DEF IsParsed
  <1>3. Error.kind # "response" /\ Incomplete.kind # "response" /\ Overlong.kind # "response"
    BY DEF Error, Incomplete, Overlong
  <1>5. HeadEnd(u) # 0 /\ found = Framed(u)
    BY <1>2, <1>3, Zenon DEF Parsed
  <1>6. Len(u) \in Nat /\ Arrived(u, u)
    BY DEF Arrived
  <1>7. HeadStays(u, u)
    BY <1>5, <1>6, HeadArrived, Zenon
  <1>8. HeadEnd(u) \in 1 .. Len(u)
    BY <1>7, Zenon DEF HeadStays
  <1>9. found = Chunked(u) \/ found = Measured(u) \/ found = Bare(u)
    BY <1>5, Zenon DEF Framed
  <1>10. CASE found = Chunked(u)
    <2> DEFINE start == HeadEnd(u) + 1
    <2>1. start \in Nat /\ start >= 1 /\ 0 \in Nat
      BY <1>6, <1>8
    <2>2. LoopStays(u, u, 1)
      BY <1>6, LoopArrived, Zenon
    <2> HIDE DEF start
    <2>3. Result(ChunkLoop(u)[<<start, 0>>], u)
      BY <2>1, <2>2, Zenon DEF LoopStays
    <2>4. Decoded(u) = ChunkLoop(u)[<<start, 0>>]
      BY DecodedIs, Zenon DEF Decoded, start
    <2>5. Decoded(u).kind \notin {"incomplete", "overlong", "error"}
      BY <1>3, <1>10, Zenon DEF Chunked
    <2>6. Decoded(u).pos \in 1 .. Len(u)
      BY <2>3, <2>4, <2>5, Zenon DEF Result
    <2>0. found = Response(u[1].code, Keep(u), Decoded(u).body, Decoded(u).pos)
      BY <1>10, <2>5, Zenon DEF Chunked
    <2>7. Consumes(found, Decoded(u).pos)
      BY <2>0, ResponseConsumes, Zenon
    <2>8. QED
      BY <2>6, <2>7, Zenon DEF Consumes
  <1>11. CASE found = Measured(u)
    <2> DEFINE n == Fields(u).length
               end == HeadEnd(u)
    <2>0. /\ n \in 0 .. MaxBody /\ ~(Len(Body(u)) < n)
          /\ found = Response(u[1].code, Keep(u), SubSeq(Body(u), 1, n), end + n)
      BY <1>3, <1>11, Zenon DEF Measured
    <2>1. Consumes(found, end + n)
      BY <2>0, ResponseConsumes, Zenon
    <2>2. MaxBody \in Nat
      BY HttpClientAssumption, Zenon
    <2> HIDE DEF n, end
    <2>3. end \in 1 .. Len(u) /\ end \in 0 .. Len(u)
      BY <1>6, <1>8 DEF end
    <2>4. PartAfter(Body(u), u, end, S)
      BY <2>3, RestAfter, Zenon DEF Body, end
    <2>5. Len(Body(u)) = Len(u) - end
      BY <2>4, Zenon DEF PartAfter
    <2>6. n \in Nat /\ ~(Len(u) - end < n)
      BY <2>0, <2>2, <2>5
    <2>7. end + n \in 1 .. Len(u)
      BY <1>6, <2>3, <2>6
    <2>8. QED
      BY <2>1, <2>7, Zenon DEF Consumes
  <1>12. CASE found = Bare(u)
    <2>1. found = Response(u[1].code, Keep(u), <<>>, HeadEnd(u))
      BY <1>3, <1>12, Zenon DEF Bare
    <2>2. Consumes(found, HeadEnd(u))
      BY <2>1, ResponseConsumes, Zenon
    <2>3. QED
      BY <1>8, <2>2, Zenon DEF Consumes
  <1>13. QED
    BY <1>9, <1>10, <1>11, <1>12, Zenon

\* Nothing is no response.
LEMMA NothingIsNoResponse ==
    ASSUME NEW eof \in BOOLEAN
    PROVE  parse_http_response(<<>>, eof).kind # "response"
  <1>1. Len(<<>>) = 0 /\ 4 .. 0 = {}
    OBVIOUS
  <1>2. First(<<>>, 4, LAMBDA i : EndsEmptyLine(<<>>, i)) = 0
    <2>1. {i \in 4 .. Len(<<>>) : EndsEmptyLine(<<>>, i)} = {}
      BY <1>1, Zenon
    <2>2. QED
      BY <2>1, Zenon DEF First
  <1>3. parse_http_response(<<>>, eof) \in {Overlong, Unfinished(eof)}
    BY <1>2, Zenon DEF parse_http_response
  <1>4. Overlong.kind # "response" /\ Error.kind # "response" /\ Incomplete.kind # "response"
    BY DEF Overlong, Error, Incomplete
  <1>5. QED
    BY <1>3, <1>4, Zenon DEF Unfinished

\* A response made only by the end of the connection does not keep it.
LEMMA FinalClosesConnection ==
    ASSUME NEW data, parse_http_response(data, FALSE) = Incomplete,
           parse_http_response(data, TRUE).kind = "response"
    PROVE  ~parse_http_response(data, TRUE).keep_alive
  <1> DEFINE end == First(data, 4, LAMBDA i : EndsEmptyLine(data, i))
        h == parse_headers(SubSeq(data, 1, end - 4))
        status == data[1].code
        keep_alive == IF h.connection = "none" THEN ~data[1].http10 ELSE h.connection = "keep-alive"
        rest == SubSeq(data, end + 1, Len(data))
        decoded == decode_chunked(data, end + 1)
        chunked(eof) ==
            IF decoded.kind = "incomplete" THEN Unfinished(eof)
                ELSE IF decoded.kind = "overlong" THEN Overlong
                ELSE IF decoded.kind = "error" THEN Error
                ELSE Response(status, keep_alive, decoded.body, decoded.pos)
        measured(eof) ==
            IF h.length \notin 0 .. MaxBody THEN Error
            ELSE IF Len(rest) < h.length THEN Unfinished(eof)
            ELSE Response(status, keep_alive, SubSeq(rest, 1, h.length), end + h.length)
        until_close(eof) ==
            IF ~eof THEN Incomplete
            ELSE IF Len(rest) > MaxBody THEN Error
            ELSE Response(status, FALSE, rest, Len(data))
        outcome(eof) == IF end = 0 THEN IF Len(data) > MaxHead THEN Overlong ELSE Unfinished(eof)
        ELSE IF end - 4 > MaxHead \/ ~h.ok THEN Error
        ELSE CASE Framing(h) = "chunked" -> chunked(eof)
               [] Framing(h) = "length" -> measured(eof)
               [] Framing(h) = "none" -> IF Bodyless(status)
                                         THEN Response(status, keep_alive, <<>>, end)
                                         ELSE until_close(eof)
  <1>1. parse_http_response(data, FALSE) = outcome(FALSE) /\ parse_http_response(data, TRUE) = outcome(TRUE)
    BY Zenon DEF parse_http_response
  <1>2. Framing(h) \in {"chunked", "length", "none"}
    BY DEF Framing
  <1> HIDE DEF end, h, status, keep_alive, rest, decoded
  <1>3. /\ Error # Incomplete /\ Error.kind # "response" /\ Incomplete.kind # "response"
        /\ Overlong # Incomplete /\ Overlong.kind # "response"
        /\ Unfinished(TRUE) = Error
    BY DEF Incomplete, Error, Overlong, Unfinished
  <1>4. \A k, body, consumed :
            /\ Response(status, k, body, consumed) # Incomplete
            /\ Response(status, k, body, consumed).keep_alive = k
    BY DEF Response, Incomplete
  <1>5. end # 0 /\ ~(end - 4 > MaxHead \/ ~h.ok)
    BY <1>1, <1>3, Zenon
  <1>6. CASE Framing(h) = "chunked"
    <2>1. outcome(FALSE) = chunked(FALSE) /\ outcome(TRUE) = chunked(TRUE)
      BY <1>5, <1>6, Zenon
    <2> HIDE DEF outcome
    <2>2. decoded.kind = "incomplete"
      BY <1>1, <1>3, <1>4, <2>1, Zenon
    <2>3. chunked(TRUE) = Error
      BY <1>3, <2>2, Zenon
    <2>4. QED
      BY <1>1, <1>3, <2>1, <2>3, Zenon
  <1>7. CASE Framing(h) = "length"
    <2>1. outcome(FALSE) = measured(FALSE) /\ outcome(TRUE) = measured(TRUE)
      BY <1>5, <1>7, Zenon
    <2> HIDE DEF outcome
    <2>2. Len(rest) < h.length
      BY <1>1, <1>3, <1>4, <2>1, Zenon
    <2>3. measured(TRUE) = Error
      BY <1>3, <2>2, Zenon
    <2>4. QED
      BY <1>1, <1>3, <2>1, <2>3, ZenonT(60)
  <1>8. CASE Framing(h) = "none"
    <2>1. /\ ~Bodyless(status)
          /\ outcome(TRUE) = until_close(TRUE)
      BY <1>1, <1>3, <1>4, <1>5, <1>8, ZenonT(60)
    <2> HIDE DEF outcome
    <2>2. until_close(TRUE) \in {Error, Response(status, FALSE, rest, Len(data))}
      BY Zenon
    <2>3. until_close(TRUE) # Error
      BY <1>1, <1>3, <2>1, Zenon
    <2>4. parse_http_response(data, TRUE) = Response(status, FALSE, rest, Len(data))
      BY <1>1, <2>1, <2>2, <2>3, Zenon
    <2>5. parse_http_response(data, TRUE).keep_alive = FALSE
      BY <1>4, <2>4, ZenonT(60)
    <2>6. QED
      BY <2>5, Zenon
  <1>9. QED
    BY <1>2, <1>6, <1>7, <1>8, ZenonT(60)

-----------------------------------------------------------------------------
(* Responses on their way *)

\* The first n pieces of a response to request r, and those after them.
FirstOf(r, response, n) == SubSeq(Pieces(r, response), 1, n)
RestOf(r, response, n) == SubSeq(Pieces(r, response), n + 1, Len(response))

\* A response is a sequence of pieces of its request.
LEMMA PiecesOf ==
    ASSUME NEW r \in Requests, NEW response \in Responses(r)
    PROVE  /\ Len(response) \in Nat
           /\ \E S : Pieces(r, response) \in Seq(S)
           /\ Len(Pieces(r, response)) = Len(response)
           /\ \A i \in 1 .. Len(response) : Pieces(r, response)[i].req = r
  <1>1. Len(response) \in Nat
    BY HttpClientAssumption DEF Requests
  <1> DEFINE p == Pieces(r, response)
             S == {p[i] : i \in 1 .. Len(response)}
  <1>2. \A i \in 1 .. Len(response) : p[i].req = r
    BY DEF Pieces
  <1>3. p \in [1 .. Len(response) -> S]
    BY DEF Pieces
  <1> HIDE DEF p, S
  <1>4. p \in Seq(S) /\ Len(p) = Len(response)
    BY <1>1, <1>3
  <1>5. QED
    BY <1>1, <1>2, <1>4, Zenon DEF p

\* What has been read of it.
LEMMA ReadPieces ==
    ASSUME NEW r \in Requests, NEW response \in Responses(r), NEW n \in 0 .. Len(response)
    PROVE  /\ Len(FirstOf(r, response, n)) = n
           /\ \A i \in 1 .. n : FirstOf(r, response, n)[i].req = r
           /\ n = 0 => FirstOf(r, response, n) = <<>>
  <1> DEFINE p == Pieces(r, response)
             read == FirstOf(r, response, n)
  <1>1. PICK S : p \in Seq(S)
    BY PiecesOf, Zenon
  <1>2. Len(response) \in Nat /\ Len(p) = Len(response) /\ \A i \in 1 .. Len(response) : p[i].req = r
    BY PiecesOf, Zenon
  <1> HIDE DEF p
  <1>3. read = SubSeq(p, 1, n)
    BY Zenon DEF FirstOf, p
  <1>4. \A i \in 1 .. Len(response) : p[i] \in S
    BY <1>1, <1>2
  <1>5. Len(read) = n /\ \A i \in 1 .. n : read[i] = p[i]
    BY <1>2, <1>3, <1>4, SubSeqProperties
  <1>6. n = 0 => read = <<>>
    BY <1>2, <1>3, SubSeqEmpty
  <1> HIDE DEF read
  <1>7. \A i \in 1 .. n : read[i].req = r
    BY <1>2, <1>5
  <1>8. QED
    BY <1>5, <1>6, <1>7, Zenon DEF read

\* What has not been read.
LEMMA RestPieces ==
    ASSUME NEW r \in Requests, NEW response \in Responses(r), NEW n \in 0 .. Len(response)
    PROVE  /\ Len(RestOf(r, response, n)) = Len(response) - n
           /\ \A i \in 1 .. Len(RestOf(r, response, n)) : RestOf(r, response, n)[i].req = r
           /\ n = 0 => RestOf(r, response, n) = Pieces(r, response)
           /\ n = Len(response) => RestOf(r, response, n) = <<>>
  <1> DEFINE p == Pieces(r, response)
             rest == RestOf(r, response, n)
  <1>1. PICK S : p \in Seq(S)
    BY PiecesOf, Zenon
  <1>2. Len(response) \in Nat /\ Len(p) = Len(response) /\ \A i \in 1 .. Len(response) : p[i].req = r
    BY PiecesOf, Zenon
  <1> HIDE DEF p
  <1>3. rest = SubSeq(p, n + 1, Len(response))
    BY Zenon DEF RestOf, p
  <1>4. \A i \in 1 .. Len(response) : p[i] \in S
    BY <1>1, <1>2
  <1>5. Len(rest) = Len(response) - n /\ \A i \in 1 .. Len(response) - n : rest[i] = p[n + i]
    BY <1>2, <1>3, <1>4, SubSeqProperties
  <1>6. n = 0 => rest = p
    BY <1>1, <1>2, <1>3, SubSeqFull
  <1>7. n = Len(response) => rest = <<>>
    BY <1>2, <1>3, SubSeqEmpty
  <1> HIDE DEF rest
  <1>8. \A i \in 1 .. Len(rest) : rest[i].req = r
    BY <1>2, <1>5
  <1>9. QED
    BY <1>5, <1>6, <1>7, <1>8, ZenonT(60) DEF p, rest

\* Reading m more of it.
LEMMA MorePieces ==
    ASSUME NEW r \in Requests, NEW response \in Responses(r), NEW n \in 0 .. Len(response),
           NEW m \in 1 .. Len(response) - n, NEW rest, rest = RestOf(r, response, n)
    PROVE  /\ FirstOf(r, response, n) \o SubSeq(rest, 1, m) = FirstOf(r, response, n + m)
           /\ SubSeq(rest, m + 1, Len(rest)) = RestOf(r, response, n + m)
  <1> DEFINE p == Pieces(r, response)
  <1>1. PICK S : p \in Seq(S)
    BY PiecesOf, Zenon
  <1>2. Len(response) \in Nat /\ Len(p) = Len(response)
    BY PiecesOf, Zenon
  <1>3. Len(rest) = Len(response) - n
    BY RestPieces, Zenon
  <1> HIDE DEF p
  <1>4. rest = SubSeq(p, n + 1, Len(response))
    BY Zenon DEF RestOf, p
  <1>5. SubSeq(rest, 1, m) = SubSeq(p, n + 1, n + m)
    BY <1>1, <1>2, <1>4, SubSeqOfSubSeq
  <1>6. SubSeq(p, 1, n) \o SubSeq(p, n + 1, n + m) = SubSeq(p, 1, n + m)
    BY <1>1, <1>2, ConcatAdjacentSubSeq
  <1>7. SubSeq(rest, m + 1, Len(rest)) = SubSeq(p, n + m + 1, Len(response))
    <2>1. CASE m = Len(response) - n
      BY <1>2, <1>3, <2>1, SubSeqEmpty
    <2>2. CASE m < Len(response) - n
      BY <1>1, <1>2, <1>3, <1>4, <2>2, SubSeqOfSubSeq
    <2>3. QED
      BY <1>2, <2>1, <2>2
  <1>8. QED
    BY <1>5, <1>6, <1>7, Zenon DEF p, FirstOf, RestOf

\* The units and pieces the server sends.
Sent == (UNION {Responses(r) : r \in Requests}) \union {Interim}
UnitsOf(response) == {response[i] : i \in 1 .. Len(response)}
SentUnits == UNION {UnitsOf(response) : response \in Sent}
SentPieces == [req : Requests, unit : SentUnits, last : BOOLEAN]

\* What the server sends is made of them.
LEMMA PiecesAreSent ==
    ASSUME NEW r \in Requests, NEW response, response \in Responses(r) \union {Interim}
    PROVE  Pieces(r, response) \in Seq(SentPieces)
  <1>1. Len(response) \in Nat
    BY HttpClientAssumption, Zenon DEF Requests
  <1>2. \A i \in 1 .. Len(response) : response[i] \in SentUnits
    <2>1. response \in Sent
      BY DEF Sent
    <2>2. \A i \in 1 .. Len(response) : response[i] \in UnitsOf(response)
      BY DEF UnitsOf
    <2>3. QED
      BY <2>1, <2>2, Zenon DEF SentUnits
  <1>3. \A i \in 1 .. Len(response) :
            [req |-> r, unit |-> response[i], last |-> i = Len(response)] \in SentPieces
    BY <1>2 DEF SentPieces
  <1>4. Pieces(r, response) \in [1 .. Len(response) -> SentPieces]
    BY <1>3, Zenon DEF Pieces
  <1>5. QED
    BY <1>1, <1>4

\* The units of pieces.
LEMMA UnitsAre ==
    ASSUME NEW s \in Seq(SentPieces)
    PROVE  /\ Units(s) \in Seq(SentUnits) /\ Len(Units(s)) = Len(s)
           /\ \A i \in 1 .. Len(s) : Units(s)[i] = s[i].unit
  <1>1. \A i \in 1 .. Len(s) : s[i] \in SentPieces
    OBVIOUS
  <1>2. \A i \in 1 .. Len(s) : s[i].unit \in SentUnits
    BY <1>1 DEF SentPieces
  <1>3. QED
    BY <1>2 DEF Units

\* In part and in all.
LEMMA UnitsArrived ==
    ASSUME NEW s \in Seq(SentPieces), NEW t \in Seq(SentPieces)
    PROVE  Arrived(Units(s), Units(s \o t))
  <1>1. /\ s \o t \in Seq(SentPieces) /\ Len(s \o t) = Len(s) + Len(t)
        /\ \A i \in 1 .. Len(s) : (s \o t)[i] = s[i]
    OBVIOUS
  <1> DEFINE u == s \o t
  <1> HIDE DEF u
  <1>2. u \in Seq(SentPieces) /\ Len(u) = Len(s) + Len(t) /\ \A i \in 1 .. Len(s) : u[i] = s[i]
    BY <1>1, Zenon DEF u
  <1>3. /\ Len(Units(s)) = Len(s) /\ Len(Units(u)) = Len(u)
        /\ \A i \in 1 .. Len(s) : Units(s)[i] = s[i].unit
        /\ \A i \in 1 .. Len(u) : Units(u)[i] = u[i].unit
    BY <1>2, UnitsAre, ZenonT(60)
  <1>4. Len(s) \in Nat /\ Len(t) \in Nat /\ \A i \in 1 .. Len(s) : i \in 1 .. Len(s) + Len(t)
    OBVIOUS
  <1>5. Arrived(Units(s), Units(u))
    BY <1>2, <1>3, <1>4 DEF Arrived
  <1>6. QED
    BY <1>5, ZenonT(60) DEF u

\* Responses end where their framing says: all of a response is taken for one, when
\* it is one that keeps the connection.
ResponsesFramed ==
    \A r \in Requests : \A response \in Responses(r) :
        LET found == parse_http_response(Units(Pieces(r, response)), FALSE)
        IN  found.kind = "response" /\ found.keep_alive => found.consumed = Len(response)

\* Then no part of it is, and nothing is left of it.
LEMMA NoPartIsFramed ==
    ASSUME ResponsesFramed, NEW r \in Requests, NEW response \in Responses(r), NEW n \in 0 .. Len(response),
           NEW found, found = parse_http_response(Units(FirstOf(r, response, n)), FALSE),
           found.kind = "response", found.keep_alive
    PROVE  n = Len(response) /\ found.consumed = n
  <1> DEFINE p == Pieces(r, response)
             first == SubSeq(p, 1, n)
             rest == SubSeq(p, n + 1, Len(p))
  <1>1. Len(response) \in Nat /\ Len(p) = Len(response) /\ p \in Seq(SentPieces)
    BY PiecesOf, PiecesAreSent, ZenonT(60)
  <1>2. FirstOf(r, response, n) = first
    BY Zenon DEF FirstOf
  <1> HIDE DEF p
  <1>3. first \in Seq(SentPieces) /\ Len(first) = n
    BY <1>1, SubSeqProperties
  <1>4. PartAfter(rest, p, n, SentPieces)
    BY <1>1, RestAfter, Zenon
  <1>5. rest \in Seq(SentPieces)
    BY <1>4, Zenon DEF PartAfter
  <1>6. first \o rest = p
    <2>1. Len(p) \in Nat /\ n \in 0 .. Len(p)
      BY <1>1, Zenon
    <2>2. 1 \in 1 .. Len(p) + 1 /\ n \in 1 - 1 .. Len(p) /\ Len(p) \in n .. Len(p)
      BY <2>1
    <2>3. first \o rest = SubSeq(p, 1, Len(p))
      BY <1>1, <2>2, ConcatAdjacentSubSeq, ZenonT(60)
    <2>4. QED
      BY <1>1, <2>3, SubSeqFull, ZenonT(60)
  <1> HIDE DEF first, rest
  <1>7. Arrived(Units(first), Units(p))
    <2>1. Arrived(Units(first), Units(first \o rest))
      BY <1>3, <1>5, UnitsArrived, ZenonT(60)
    <2>2. QED
      BY <1>6, <2>1, Zenon
  <1>8. /\ Units(first) \in Seq(SentUnits) /\ Units(p) \in Seq(SentUnits)
        /\ Len(Units(first)) = n
    BY <1>1, <1>3, UnitsAre, ZenonT(60)
  <1>9. found = parse_http_response(Units(first), FALSE)
    BY <1>2, Zenon
  <1>10. found # Incomplete /\ found # Overlong
    <2>1. Incomplete.kind # "response" /\ Overlong.kind # "response"
      BY DEF Incomplete, Overlong
    <2>2. QED
      BY <2>1, Zenon
  <1>11. ParsedStays(parse_http_response(Units(first), FALSE), parse_http_response(Units(p), FALSE))
    BY <1>7, <1>8, ParsedArrived, Zenon
  <1>12. parse_http_response(Units(p), FALSE) = found
    BY <1>9, <1>10, <1>11, ZenonT(60) DEF ParsedStays
  <1>13. found.consumed = Len(response)
    BY <1>12, Zenon DEF ResponsesFramed, p
  <1>14. found.consumed \in 1 .. Len(Units(first))
    BY <1>8, <1>9, ConsumedIs, ZenonT(60)
  <1>15. Len(response) \in 1 .. n
    BY <1>8, <1>13, <1>14, ZenonT(60)
  <1>16. n = Len(response)
    BY <1>1, <1>15
  <1>17. QED
    BY <1>13, <1>16, Zenon

-----------------------------------------------------------------------------
(* The inductive invariant *)

\* A request is in the server's inbox only once it was sent, at most once and never
\* again after it was executed; an answer says it was executed.
CallsInv ==
    /\ pc \in Places /\ req \in 0 .. MaxRequests
    /\ opened \in Nat /\ conn \in 0 .. opened /\ interim \subseteq 1 .. opened
    /\ inbox \subseteq Requests \X (1 .. opened)
    /\ executed \in [Requests -> {0, 1}]
    /\ DOMAIN result = Requests
    /\ pc # "idle" => req # 0
    /\ pc \in {"send", "resend", "read"} => conn # 0
    /\ \A r \in Requests, c \in 1 .. opened : <<r, c>> \in inbox =>
           /\ r <= req /\ executed[r] = 0
           /\ r = req => pc \in {"read", "idle"}
           /\ \A d \in 1 .. opened : <<r, d>> \in inbox => d = c
    /\ \A r \in Requests : executed[r] = 1 => r < req \/ (r = req /\ pc \in {"read", "idle"})
    /\ \A r \in Requests :
           IF r > req \/ (r = req /\ pc # "idle")
           THEN result[r] = NoResult
           ELSE \/ result[r].kind = "error"
               \/ /\ result[r].kind = "ok"
                  /\ result[r].clean => executed[r] = 1 /\ result[r].req = r

\* On a connection without interim responses there is nothing before the current
\* request is executed, and then only its response.
BytesInv ==
    conn # 0 /\ conn \notin interim =>
        \/ /\ buffer = <<>> /\ wire = <<>>
           /\ \A r \in Requests : <<r, conn>> \in inbox => pc = "read" /\ r = req
        \/ /\ pc = "read" /\ executed[req] = 1
           /\ \A r \in Requests : <<r, conn>> \notin inbox
           /\ \E response \in Responses(req) : \E n \in 0 .. Len(response) :
                  /\ buffer = FirstOf(req, response, n)
                  /\ \/ wire = RestOf(req, response, n)
                     \/ wire = <<>> /\ closed

\* read_response has looked at all that is in the buffer.
ParsedInv == pc = "read" => parsed = parse_http_response(Units(buffer), FALSE)

ClientInv == CallsInv /\ BytesInv /\ ParsedInv

-----------------------------------------------------------------------------
(* The invariant holds in every step *)

\* It holds at first.
LEMMA InvInit == Init => ClientInv
  <1>1. Init => CallsInv
    BY HttpClientAssumption DEF Init, CallsInv, Places, Requests, NoResult
  <1>2. Init => BytesInv /\ ParsedInv
    BY DEF Init, BytesInv, ParsedInv
  <1>3. QED
    BY <1>1, <1>2 DEF ClientInv

\* What the client takes for a response on a connection without interim responses is
\* its own request's, which has been executed.
LEMMA OwnAnswer ==
    ASSUME ClientInv, pc = "read", conn \notin interim,
           NEW eof \in BOOLEAN,
           parse_http_response(Units(buffer), eof).kind = "response"
    PROVE  req \in Requests /\ executed[req] = 1 /\ buffer[1].req = req
  <1>1. req \in Requests /\ conn # 0
    BY HttpClientAssumption DEF ClientInv, CallsInv, Requests
  <1>2. buffer # <<>>
    <2>1. Units(<<>>) = <<>>
      BY DEF Units
    <2>2. QED
      BY <2>1, NothingIsNoResponse, Zenon
  <1>3. executed[req] = 1
    BY <1>1, <1>2, Zenon DEF ClientInv, BytesInv
  <1>4. PICK response \in Responses(req) : \E n \in 0 .. Len(response) :
            buffer = FirstOf(req, response, n)
    BY <1>1, <1>2, Zenon DEF ClientInv, BytesInv
  <1>5. PICK n \in 0 .. Len(response) : buffer = FirstOf(req, response, n)
    BY <1>4, ZenonT(60)
  <1>6. Len(response) \in Nat
    BY <1>1, PiecesOf
  <1>7. (n = 0 => buffer = <<>>) /\ \A i \in 1 .. n : buffer[i].req = req
    BY <1>1, <1>5, ReadPieces
  <1>8. QED
    BY <1>1, <1>2, <1>3, <1>6, <1>7

\* What request may return: an error, or an answer to the current request that is to
\* be relied on unless an interim response was sent.
MayReturn(res) ==
    \/ res.kind = "error"
    \/ /\ res.kind = "ok"
       /\ res.clean => executed[req] = 1 /\ res.req = req

\* It returns nothing else.
LEMMA AnswerMayReturn ==
    ASSUME ClientInv, pc = "read", NEW eof \in BOOLEAN, NEW found,
           found = parse_http_response(Units(buffer), eof), found.kind = "response"
    PROVE  MayReturn(Ok(found))
  <1>1. /\ Ok(found).kind = "ok" /\ Ok(found).req = buffer[1].req
        /\ Ok(found).clean = (conn \notin interim)
    BY Zenon DEF Ok
  <1>2. conn \notin interim => executed[req] = 1 /\ buffer[1].req = req
    BY OwnAnswer, Zenon
  <1>3. QED
    BY <1>1, <1>2, ZenonT(60) DEF MayReturn

\* Every action that returns does so with what it may return.
LEMMA OnlyMayReturn ==
    ASSUME ClientInv,
           SignFails \/ OpenFails \/ (SendFails /\ pc' # "reopen") \/ ReadResponse \/ ReadMalformed \/ ReceiveFails
    PROVE  /\ pc # "idle"
           /\ UNCHANGED <<req, opened, server>>
           /\ \E res, connection :
                  MayReturn(res) /\ connection \in {0, conn} /\ Return(res, connection)
  <1>0. MayReturn(Error)
    BY DEF MayReturn, Error
  <1>1. CASE SignFails
    BY <1>0, <1>1, ZenonT(60) DEF SignFails
  <1>2. CASE OpenFails
    BY <1>0, <1>2, ZenonT(60) DEF OpenFails
  <1>3. CASE SendFails /\ pc' # "reopen"
    BY <1>0, <1>3, ZenonT(60) DEF SendFails
  <1>4. CASE ReadResponse
    <2>1. /\ pc = "read" /\ parsed.kind = "response" /\ UNCHANGED <<req, opened, server>>
          /\ Return(Ok(parsed), IF parsed.keep_alive THEN conn ELSE 0)
      BY <1>4, Zenon DEF ReadResponse
    <2>2. MayReturn(Ok(parsed))
      BY <2>1, AnswerMayReturn, Zenon DEF ClientInv, ParsedInv
    <2>3. QED
      BY <2>1, <2>2, Zenon
  <1>5. CASE ReadMalformed
    BY <1>0, <1>5, Zenon DEF ReadMalformed
  <1>6. CASE ReceiveFails
    <2> DEFINE final == parse_http_response(Units(buffer), TRUE)
    <2>1. pc = "read" /\ UNCHANGED <<req, opened, server>> /\ ReturnFinal
      BY <1>6, Zenon DEF ReceiveFails
    <2>2. CASE final.kind = "response"
      <3>1. MayReturn(Ok(final))
        BY <2>1, <2>2, AnswerMayReturn, ZenonT(60)
      <3>2. Return(Ok(final), IF final.keep_alive THEN conn ELSE 0)
        BY <2>1, <2>2, Zenon DEF ReturnFinal
      <3>3. QED
        BY <2>1, <3>1, <3>2, ZenonT(60)
    <2>3. CASE final.kind # "response"
      BY <1>0, <2>1, <2>3, ZenonT(60) DEF ReturnFinal
    <2>4. QED
      BY <2>2, <2>3, Zenon
  <1>7. QED
    BY <1>1, <1>2, <1>3, <1>4, <1>5, <1>6, ZenonT(60)

\* The actions of Next that do not return.
LEMMA Steps ==
    ASSUME Next
    PROVE  \/ \E r \in Requests, c \in 1 .. opened : \E response \in Responses(r) : Serve(r, c, response)
           \/ \E r \in Requests : SendInterim(r)
           \/ \E reset \in BOOLEAN : ServerCloses(reset)
           \/ Connect \/ StartRequest \/ ChooseConnection \/ OpenConnection \/ SendOk
           \/ SendFails /\ pc' = "reopen"
           \/ \E n \in 1 .. Len(wire) : ReceiveData(n)
           \/ SignFails \/ OpenFails \/ (SendFails /\ pc' # "reopen")
              \/ ReadResponse \/ ReadMalformed \/ ReceiveFails
  BY Zenon DEF Next, Request

\* The calls.
LEMMA CallsStep ==
    ASSUME ClientInv, Next
    PROVE  CallsInv'
  <1> USE HttpClientAssumption DEF ClientInv, CallsInv, Requests, Places
  <1>1. ASSUME NEW r \in Requests, NEW c \in 1 .. opened, NEW response \in Responses(r), Serve(r, c, response)
        PROVE  CallsInv'
    BY <1>1 DEF Serve, client
  <1>2. ASSUME NEW r \in Requests, SendInterim(r)
        PROVE  CallsInv'
    BY <1>2 DEF SendInterim, client
  <1>3. ASSUME NEW reset \in BOOLEAN, ServerCloses(reset)
        PROVE  CallsInv'
    BY <1>3 DEF ServerCloses, client
  <1>4. CASE Connect
    BY <1>4 DEF Connect, Opens
  <1>5. CASE StartRequest
    BY <1>5 DEF StartRequest, server
  <1>6. CASE ChooseConnection
    BY <1>6 DEF ChooseConnection, server
  <1>7. CASE OpenConnection
    <2>1. CASE pc = "open" /\ Opens("send")
      BY <2>1 DEF Opens
    <2>2. CASE pc = "reopen" /\ Opens("resend")
      BY <2>2 DEF Opens
    <2>3. QED
      BY <1>7, <2>1, <2>2, ZenonT(60) DEF OpenConnection
  <1>8. CASE SendOk
    BY <1>8 DEF SendOk
  <1>9. CASE SendFails /\ pc' = "reopen"
    BY <1>9 DEF SendFails, Return, server
  <1>10. ASSUME NEW n \in 1 .. Len(wire), ReceiveData(n)
         PROVE  CallsInv'
    BY <1>10 DEF ReceiveData
  <1>11. CASE SignFails \/ OpenFails \/ (SendFails /\ pc' # "reopen")
                 \/ ReadResponse \/ ReadMalformed \/ ReceiveFails
    <2>1. pc # "idle" /\ UNCHANGED <<req, opened, server>>
      BY <1>11, OnlyMayReturn, ZenonT(60)
    <2>2. PICK res, connection :
              MayReturn(res) /\ connection \in {0, conn} /\ Return(res, connection)
      BY <1>11, OnlyMayReturn, Zenon
    <2>3. QED
      BY <2>1, <2>2 DEF Return, MayReturn, server
  <1>12. QED
    BY <1>1, <1>2, <1>3, <1>4, <1>5, <1>6, <1>7, <1>8, <1>9, <1>10, <1>11, Steps, ZenonT(60)

\* When the connection is kept, the response has been read to its end.
LEMMA KeptIsEmpty ==
    ASSUME ResponsesFramed, ClientInv, ReadResponse, conn \notin interim, conn' # 0
    PROVE  /\ buffer' = <<>> /\ wire' = <<>>
           /\ \A r \in Requests : <<r, conn>> \notin inbox
  <1>1. /\ pc = "read" /\ parsed.kind = "response" /\ parsed.keep_alive
        /\ wire' = wire /\ buffer' = SubSeq(buffer, parsed.consumed + 1, Len(buffer))
    BY Zenon DEF ReadResponse, Return, server
  <1>2. parsed = parse_http_response(Units(buffer), FALSE)
    BY <1>1, ZenonT(60) DEF ClientInv, ParsedInv
  <1>3. req \in Requests /\ conn # 0
    BY <1>1, HttpClientAssumption DEF ClientInv, CallsInv, Requests
  <1>4. buffer # <<>>
    <2>1. Units(<<>>) = <<>>
      BY DEF Units
    <2>2. QED
      BY <1>1, <1>2, <2>1, NothingIsNoResponse, ZenonT(60)
  <1>5. \A r \in Requests : <<r, conn>> \notin inbox
    BY <1>3, <1>4, Zenon DEF ClientInv, BytesInv
  <1>6. PICK response \in Responses(req) : \E n \in 0 .. Len(response) :
            /\ buffer = FirstOf(req, response, n)
            /\ \/ wire = RestOf(req, response, n)
               \/ wire = <<>> /\ closed
    BY <1>3, <1>4, Zenon DEF ClientInv, BytesInv
  <1>7. PICK n \in 0 .. Len(response) :
            /\ buffer = FirstOf(req, response, n)
            /\ \/ wire = RestOf(req, response, n)
               \/ wire = <<>> /\ closed
    BY <1>6, Zenon
  <1>8. n = Len(response) /\ parsed.consumed = n
    BY <1>1, <1>2, <1>3, <1>7, NoPartIsFramed, ZenonT(60)
  <1>9. Len(response) \in Nat
    BY <1>3, PiecesOf
  <1>10. Len(buffer) = n /\ (n = Len(response) => wire = <<>>)
    BY <1>3, <1>7, ReadPieces, RestPieces
  <1>11. buffer' = <<>>
    BY <1>1, <1>8, <1>9, <1>10, SubSeqEmpty
  <1>12. QED
    BY <1>1, <1>5, <1>8, <1>10, <1>11, ZenonT(60)

\* The bytes: the server answers.
LEMMA ServeBytes ==
    ASSUME ClientInv, NEW r \in Requests, NEW c \in 1 .. opened, NEW response \in Responses(r),
           Serve(r, c, response)
    PROVE  BytesInv'
  <1>1. /\ <<r, c>> \in inbox /\ inbox' = inbox \ {<<r, c>>}
        /\ executed' = [executed EXCEPT ![r] = @ + 1]
        /\ wire' = IF c = conn /\ ~closed THEN wire \o Pieces(r, response) ELSE wire
        /\ UNCHANGED <<pc, req, conn, buffer, closed, interim>>
    BY DEF Serve, client
  <1>2. executed[r] = 0 /\ executed'[r] = 1 /\ \A q \in Requests : q # r => executed'[q] = executed[q]
    BY <1>1 DEF ClientInv, CallsInv
  <1> SUFFICES ASSUME conn # 0, conn \notin interim
               PROVE  BytesInv'
    BY <1>1, ZenonT(60) DEF BytesInv
  <1>3. CASE c # conn
    <2>1. wire' = wire /\ \A q \in Requests : <<q, conn>> \in inbox' <=> <<q, conn>> \in inbox
      BY <1>1, <1>3
    <2>2. pc = "read" /\ executed[req] = 1 => executed'[req] = 1
      BY <1>2, HttpClientAssumption DEF ClientInv, CallsInv, Requests
    <2>3. QED
      BY <1>1, <2>1, <2>2 DEF ClientInv, BytesInv
  <1>4. CASE c = conn
    <2>1. /\ buffer = <<>> /\ wire = <<>> /\ pc = "read" /\ r = req
          /\ \A q \in Requests : <<q, conn>> \in inbox => q = req
      BY <1>1, <1>4, ZenonT(60) DEF ClientInv, BytesInv
    <2>2. \A q \in Requests : <<q, conn>> \notin inbox'
      BY <1>1, <1>4, <2>1
    <2>3. CASE closed
      BY <1>1, <2>1, <2>2, <2>3 DEF BytesInv
    <2>4. CASE ~closed
      <3>1. PICK S : Pieces(req, response) \in Seq(S)
        BY <2>1, PiecesOf, ZenonT(60)
      <3>2. wire' = Pieces(req, response)
        BY <1>1, <1>4, <2>1, <2>4, <3>1, ConcatEmptySeq
      <3>3. Len(response) \in Nat /\ 0 \in 0 .. Len(response)
        BY <2>1, PiecesOf
      <3>4. /\ buffer' = FirstOf(req', response, 0)
            /\ wire' = RestOf(req', response, 0)
        BY <1>1, <2>1, <3>2, <3>3, ReadPieces, RestPieces
      <3>5. response \in Responses(req') /\ pc' = "read" /\ executed'[req'] = 1
        BY <1>1, <1>2, <2>1
      <3>6. QED
        BY <1>1, <2>2, <3>3, <3>4, <3>5, ZenonT(60) DEF BytesInv
    <2>5. QED
      BY <2>3, <2>4
  <1>5. QED
    BY <1>3, <1>4

\* The client reads.
LEMMA ReceiveBytes ==
    ASSUME ClientInv, NEW m \in 1 .. Len(wire), ReceiveData(m)
    PROVE  BytesInv'
  <1>1. /\ pc = "read" /\ m <= Len(wire)
        /\ wire' = SubSeq(wire, m + 1, Len(wire)) /\ buffer' = buffer \o SubSeq(wire, 1, m)
        /\ UNCHANGED <<pc, req, conn, closed, inbox, executed, interim>>
    BY DEF ReceiveData
  <1> SUFFICES ASSUME conn # 0, conn \notin interim
               PROVE  BytesInv'
    BY <1>1, ZenonT(60) DEF BytesInv
  <1>2. req \in Requests
    BY <1>1, HttpClientAssumption DEF ClientInv, CallsInv, Requests
  <1>3. wire # <<>>
    BY <1>1
  <1>4. executed[req] = 1 /\ \A r \in Requests : <<r, conn>> \notin inbox
    BY <1>3, ZenonT(60) DEF ClientInv, BytesInv
  <1>5. PICK response \in Responses(req) : \E n \in 0 .. Len(response) :
            /\ buffer = FirstOf(req, response, n)
            /\ wire = RestOf(req, response, n)
    BY <1>3, Zenon DEF ClientInv, BytesInv
  <1>6. PICK n \in 0 .. Len(response) :
            /\ buffer = FirstOf(req, response, n)
            /\ wire = RestOf(req, response, n)
    BY <1>5, ZenonT(60)
  <1>7. Len(response) \in Nat /\ Len(wire) = Len(response) - n
    BY <1>2, <1>6, PiecesOf, RestPieces
  <1>8. m \in 1 .. Len(response) - n /\ n + m \in 0 .. Len(response)
    BY <1>7
  <1>9. /\ buffer' = FirstOf(req, response, n + m)
        /\ wire' = RestOf(req, response, n + m)
    BY <1>1, <1>2, <1>6, <1>8, MorePieces, ZenonT(60)
  <1>10. QED
    BY <1>1, <1>4, <1>8, <1>9, ZenonT(60) DEF BytesInv

\* Every step.
LEMMA BytesStep ==
    ASSUME ResponsesFramed, ClientInv, Next
    PROVE  BytesInv'
  <1>0. conn \in 0 .. opened /\ opened \in Nat /\ interim \subseteq 1 .. opened
        /\ inbox \subseteq Requests \X (1 .. opened)
    BY DEF ClientInv, CallsInv
  <1>1. ASSUME NEW r \in Requests, SendInterim(r)
        PROVE  BytesInv'
    BY <1>1 DEF SendInterim, client, BytesInv
  <1>2. ASSUME NEW reset \in BOOLEAN, ServerCloses(reset)
        PROVE  BytesInv'
    <2>1. /\ UNCHANGED <<pc, req, conn, buffer, inbox, executed, interim>>
          /\ closed' /\ wire' \in {wire, <<>>}
      BY <1>2 DEF ServerCloses, client
    <2>2. QED
      BY <2>1, ZenonT(60) DEF ClientInv, BytesInv
  <1>3. ASSUME NEW then, Opens(then)
        PROVE  BytesInv'
    BY <1>0, <1>3 DEF Opens, BytesInv
  <1>4. CASE Connect \/ OpenConnection
    BY <1>3, <1>4, ZenonT(60) DEF Connect, OpenConnection
  <1>5. ASSUME pc # "read", UNCHANGED <<conn, buffer, wire, inbox, interim>>
        PROVE  BytesInv'
    <2> SUFFICES ASSUME conn # 0, conn \notin interim
                 PROVE  BytesInv'
      BY <1>5, Zenon DEF BytesInv
    <2>1. buffer = <<>> /\ wire = <<>> /\ \A r \in Requests : <<r, conn>> \notin inbox
      BY <1>5, Zenon DEF ClientInv, BytesInv
    <2>2. QED
      BY <1>5, <2>1, ZenonT(60) DEF BytesInv
  <1>6. CASE StartRequest \/ ChooseConnection \/ SignFails \/ (SendFails /\ pc' = "reopen")
    <2>1. pc # "read" /\ UNCHANGED <<conn, buffer, wire, inbox, interim>>
      BY <1>6 DEF StartRequest, ChooseConnection, SignFails, SendFails, Return, server
    <2>2. QED
      BY <1>5, <2>1
  <1>7. CASE SendOk
    <2>1. /\ pc # "read" /\ pc' = "read"
          /\ UNCHANGED <<req, conn, buffer, wire, interim>>
          /\ inbox' \subseteq inbox \union {<<req, conn>>}
      BY <1>7 DEF SendOk
    <2> SUFFICES ASSUME conn # 0, conn \notin interim
                 PROVE  BytesInv'
      BY <2>1, Zenon DEF BytesInv
    <2>2. buffer = <<>> /\ wire = <<>> /\ \A r \in Requests : <<r, conn>> \notin inbox
      BY <2>1, ZenonT(60) DEF ClientInv, BytesInv
    <2>3. \A r \in Requests : <<r, conn>> \in inbox' => r = req
      BY <2>1, <2>2
    <2>4. QED
      BY <2>1, <2>2, <2>3, ZenonT(60) DEF BytesInv
  <1>8. ASSUME conn' = 0
        PROVE  BytesInv'
    BY <1>8, Zenon DEF BytesInv
  <1>9. CASE OpenFails \/ (SendFails /\ pc' # "reopen") \/ ReadMalformed
    <2>1. conn' = 0
      BY <1>9, Zenon DEF OpenFails, SendFails, ReadMalformed, Return
    <2>2. QED
      BY <1>8, <2>1
  <1>10. CASE ReadResponse
    <2>1. conn' \in {0, conn} /\ interim' = interim /\ inbox' = inbox
      BY <1>10, Zenon DEF ReadResponse, Return, server
    <2>2. CASE conn' # 0 /\ conn \notin interim
      BY <1>10, <2>1, <2>2, KeptIsEmpty, ZenonT(60) DEF BytesInv
    <2>3. CASE conn' = 0 \/ conn \in interim
      BY <2>1, <2>3, ZenonT(60) DEF BytesInv
    <2>4. QED
      BY <2>2, <2>3
  <1>11. CASE ReceiveFails
    <2> DEFINE final == parse_http_response(Units(buffer), TRUE)
    <2>1. pc = "read" /\ parsed = Incomplete /\ ReturnFinal
      BY <1>11, Zenon DEF ReceiveFails
    <2>2. parse_http_response(Units(buffer), FALSE) = Incomplete
      BY <2>1, Zenon DEF ClientInv, ParsedInv
    <2>3. final.kind = "response" => ~final.keep_alive
      BY <2>2, FinalClosesConnection, ZenonT(60)
    <2>4. conn' = 0
      BY <2>1, <2>3, ZenonT(60) DEF ReturnFinal, Return
    <2>5. QED
      BY <1>8, <2>4
  <1>12. QED
    BY <1>1, <1>2, <1>4, <1>6, <1>7, <1>9, <1>10, <1>11, ServeBytes, ReceiveBytes, Steps, Zenon

\* What is parsed.
LEMMA ParsedStep ==
    ASSUME ClientInv, Next
    PROVE  ParsedInv'
  <1>1. SendOk => ParsedInv'
    BY Zenon DEF SendOk, ParsedInv
  <1>2. ASSUME NEW n \in 1 .. Len(wire), ReceiveData(n)
        PROVE  ParsedInv'
    BY <1>2, Zenon DEF ReceiveData, ParsedInv
  <1>3. ASSUME UNCHANGED <<pc, parsed, buffer>>
        PROVE  ParsedInv'
    BY <1>3, Zenon DEF ClientInv, ParsedInv
  <1>4. ASSUME \/ \E r \in Requests, c \in 1 .. opened : \E response \in Responses(r) : Serve(r, c, response)
               \/ \E r \in Requests : SendInterim(r)
               \/ \E reset \in BOOLEAN : ServerCloses(reset)
        PROVE  ParsedInv'
    <2>1. UNCHANGED <<pc, parsed, buffer>>
      BY <1>4, Zenon DEF Serve, SendInterim, ServerCloses, client
    <2>2. QED
      BY <1>3, <2>1
  <1>5. CASE Connect \/ StartRequest \/ ChooseConnection \/ OpenConnection \/ (SendFails /\ pc' = "reopen")
    <2>1. pc' # "read"
      BY <1>5 DEF Connect, StartRequest, ChooseConnection, OpenConnection, Opens
    <2>2. QED
      BY <2>1, ZenonT(60) DEF ParsedInv
  <1>6. CASE SignFails \/ OpenFails \/ (SendFails /\ pc' # "reopen")
                 \/ ReadResponse \/ ReadMalformed \/ ReceiveFails
    <2>1. pc' = "idle"
      BY <1>6, OnlyMayReturn, ZenonT(60) DEF Return
    <2>2. QED
      BY <2>1 DEF ParsedInv
  <1>7. QED
    BY <1>1, <1>2, <1>4, <1>5, <1>6, Steps, ZenonT(60)

\* So it always holds.
LEMMA ClientInvariant ==
    ASSUME ResponsesFramed
    PROVE  Spec => []ClientInv
  <1>1. ClientInv /\ [Next]_vars => ClientInv'
    <2> SUFFICES ASSUME ClientInv, [Next]_vars PROVE ClientInv'
      OBVIOUS
    <2>1. CASE Next
      BY <2>1, CallsStep, BytesStep, ParsedStep, ZenonT(60) DEF ClientInv
    <2>2. CASE UNCHANGED vars
      <3>1. UNCHANGED <<pc, req, conn, opened, buffer, parsed, result>>
        BY <2>2, ZenonT(60) DEF vars, client
      <3>2. UNCHANGED <<wire, closed, inbox, executed, interim>>
        BY <2>2, ZenonT(60) DEF vars, server
      <3>3. CallsInv'
        BY <3>1, <3>2 DEF ClientInv, CallsInv
      <3>4. BytesInv'
        BY <3>1, <3>2, ZenonT(60) DEF ClientInv, BytesInv
      <3>5. ParsedInv'
        BY <3>1, <3>2, ZenonT(60) DEF ClientInv, ParsedInv
      <3>6. QED
        BY <3>3, <3>4, <3>5, ZenonT(60) DEF ClientInv
    <2>3. QED
      BY <2>1, <2>2
  <1>2. QED
    BY <1>1, InvInit, PTL DEF Spec

-----------------------------------------------------------------------------
(* Delivery *)

\* What is in the buffer and on its way is a sequence of pieces, and read_response has
\* looked at all that is in the buffer.
DeliveryInv ==
    /\ buffer \in Seq(SentPieces) /\ wire \in Seq(SentPieces)
    /\ parsed # Incomplete => pc = "read"
    /\ pc = "read" => parsed = parse_http_response(Units(buffer), FALSE)

\* It holds at first.
LEMMA DeliveryInit == Init => DeliveryInv
  BY DEF Init, DeliveryInv

\* What is left of the buffer is a sequence of pieces.
LEMMA LeftInBuffer ==
    ASSUME DeliveryInv, pc = "read", parsed.kind = "response"
    PROVE  SubSeq(buffer, parsed.consumed + 1, Len(buffer)) \in Seq(SentPieces)
  <1>1. buffer \in Seq(SentPieces) /\ parsed = parse_http_response(Units(buffer), FALSE)
    BY Zenon DEF DeliveryInv
  <1>2. Units(buffer) \in Seq(SentUnits) /\ Len(Units(buffer)) = Len(buffer)
    BY <1>1, UnitsAre, ZenonT(60)
  <1>3. parsed.consumed \in 1 .. Len(Units(buffer))
    BY <1>1, <1>2, ConsumedIs, ZenonT(60)
  <1>4. parsed.consumed \in 1 .. Len(buffer)
    BY <1>2, <1>3, ZenonT(60)
  <1>5. parsed.consumed \in 0 .. Len(buffer)
    <2>1. Len(buffer) \in Nat
      BY <1>1, LenProperties
    <2>2. QED
      BY <1>4, <2>1
  <1>6. PartAfter(SubSeq(buffer, parsed.consumed + 1, Len(buffer)), buffer, parsed.consumed, SentPieces)
    BY <1>1, <1>5, RestAfter, ZenonT(60)
  <1>7. QED
    BY <1>6, Zenon DEF PartAfter

\* It holds in every step, whatever the responses are.
LEMMA DeliveryStep ==
    ASSUME DeliveryInv, Next
    PROVE  DeliveryInv'
  <1>0. /\ buffer \in Seq(SentPieces) /\ wire \in Seq(SentPieces) /\ <<>> \in Seq(SentPieces)
        /\ parsed # Incomplete => pc = "read"
        /\ pc = "read" => parsed = parse_http_response(Units(buffer), FALSE)
    <2>1. <<>> \in Seq(SentPieces)
      OBVIOUS
    <2>2. QED
      BY <2>1, ZenonT(60) DEF DeliveryInv
  <1>1. ASSUME NEW r \in Requests, NEW c \in 1 .. opened, NEW response \in Responses(r), Serve(r, c, response)
        PROVE  DeliveryInv'
    <2>1. UNCHANGED <<pc, buffer, parsed>> /\ wire' \in {wire, wire \o Pieces(r, response)}
      BY <1>1, ZenonT(60) DEF Serve, client
    <2>2. Pieces(r, response) \in Seq(SentPieces)
      BY PiecesAreSent, Zenon
    <2>3. wire' \in Seq(SentPieces)
      BY <1>0, <2>1, <2>2, ConcatProperties, ZenonT(60)
    <2>4. QED
      BY <1>0, <2>1, <2>3, ZenonT(60) DEF DeliveryInv
  <1>2. ASSUME NEW r \in Requests, SendInterim(r)
        PROVE  DeliveryInv'
    <2>1. UNCHANGED <<pc, buffer, parsed>> /\ wire' = wire \o Pieces(r, Interim)
      BY <1>2, ZenonT(60) DEF SendInterim, client
    <2>2. Pieces(r, Interim) \in Seq(SentPieces)
      BY PiecesAreSent, ZenonT(60)
    <2>3. wire' \in Seq(SentPieces)
      BY <1>0, <2>1, <2>2, ConcatProperties
    <2>4. QED
      BY <1>0, <2>1, <2>3, ZenonT(60) DEF DeliveryInv
  <1>3. ASSUME NEW reset \in BOOLEAN, ServerCloses(reset)
        PROVE  DeliveryInv'
    <2>1. UNCHANGED <<pc, buffer, parsed>> /\ wire' \in {wire, <<>>}
      BY <1>3, Zenon DEF ServerCloses, client
    <2>2. QED
      BY <1>0, <2>1, ZenonT(60) DEF DeliveryInv
  <1>4. ASSUME NEW then, then # "read", pc # "read", Opens(then)
        PROVE  DeliveryInv'
    <2>1. buffer' = <<>> /\ wire' = <<>> /\ parsed' = parsed /\ pc' # "read" /\ parsed = Incomplete
      BY <1>0, <1>4, Zenon DEF Opens
    <2>2. QED
      BY <1>0, <2>1, ZenonT(60) DEF DeliveryInv
  <1>5. CASE Connect \/ OpenConnection
    <2>1. "idle" # "read" /\ "send" # "read" /\ "resend" # "read" /\ "open" # "read" /\ "reopen" # "read"
      OBVIOUS
    <2>2. \E then : then # "read" /\ pc # "read" /\ Opens(then)
      BY <1>5, <2>1, ZenonT(60) DEF Connect, OpenConnection
    <2>3. QED
      BY <1>4, <2>2, ZenonT(60)
  <1>6. CASE StartRequest \/ ChooseConnection \/ (SendFails /\ pc' = "reopen")
    <2>1. pc # "read" /\ pc' # "read" /\ UNCHANGED <<buffer, wire, parsed>>
      BY <1>6 DEF StartRequest, ChooseConnection, SendFails, Return, server
    <2>2. QED
      BY <1>0, <2>1, ZenonT(60) DEF DeliveryInv
  <1>7. CASE SendOk
    <2>1. pc' = "read" /\ UNCHANGED <<buffer, wire>> /\ parsed' = parse_http_response(Units(buffer), FALSE)
      BY <1>7, Zenon DEF SendOk
    <2>2. QED
      BY <1>0, <2>1, ZenonT(60) DEF DeliveryInv
  <1>8. ASSUME NEW n \in 1 .. Len(wire), ReceiveData(n)
        PROVE  DeliveryInv'
    <2>1. /\ pc' = "read" /\ parsed' = parse_http_response(Units(buffer'), FALSE)
          /\ wire' = SubSeq(wire, n + 1, Len(wire)) /\ buffer' = buffer \o SubSeq(wire, 1, n)
      BY <1>8, ZenonT(60) DEF ReceiveData
    <2>2. Len(wire) \in Nat /\ n \in 0 .. Len(wire)
      BY <1>0
    <2>3. PartAfter(SubSeq(wire, n + 1, Len(wire)), wire, n, SentPieces)
      BY <1>0, <2>2, RestAfter, ZenonT(60)
    <2>4. wire' \in Seq(SentPieces)
      BY <2>1, <2>3, ZenonT(60) DEF PartAfter
    <2>5. SubSeq(wire, 1, n) \in Seq(SentPieces)
      BY <1>0, <2>2, SubSeqProperties
    <2>6. buffer' \in Seq(SentPieces)
      BY <1>0, <2>1, <2>5, ConcatProperties
    <2>7. QED
      BY <2>1, <2>4, <2>6, ZenonT(60) DEF DeliveryInv
  <1>9. ASSUME pc' = "idle", parsed' = Incomplete, wire' = wire, buffer' \in Seq(SentPieces)
        PROVE  DeliveryInv'
    <2>1. pc' # "read"
      BY <1>9
    <2>2. QED
      BY <1>0, <1>9, <2>1, ZenonT(60) DEF DeliveryInv
  <1>10. CASE ReadResponse
    <2>1. /\ pc = "read" /\ parsed.kind = "response"
          /\ buffer' = SubSeq(buffer, parsed.consumed + 1, Len(buffer))
          /\ pc' = "idle" /\ parsed' = Incomplete /\ wire' = wire
      BY <1>10, Zenon DEF ReadResponse, Return, server
    <2>2. buffer' \in Seq(SentPieces)
      BY <2>1, LeftInBuffer, ZenonT(60)
    <2>3. QED
      BY <1>9, <2>1, <2>2
  <1>11. CASE SignFails \/ OpenFails \/ (SendFails /\ pc' # "reopen") \/ ReadMalformed \/ ReceiveFails
    <2>1. pc' = "idle" /\ parsed' = Incomplete /\ wire' = wire /\ buffer' \in {buffer, <<>>}
      BY <1>11, ZenonT(60) DEF SignFails, OpenFails, SendFails, ReadMalformed, ReceiveFails, ReturnFinal, Return, server
    <2>2. QED
      BY <1>0, <1>9, <2>1, ZenonT(60)
  <1>12. QED
    BY <1>1, <1>2, <1>3, <1>5, <1>6, <1>7, <1>8, <1>10, <1>11, Steps, ZenonT(60)

-----------------------------------------------------------------------------
(* Theorems *)

\* In whatever parts a response arrives, it is parsed as if it had arrived at once
\* (http_response.hpp:23-25), whatever the server sends: heads and bodies of every
\* framing, well-formed or not, with interim responses before them; but for a head or a
\* size line that exceeds its limit and has no end yet (http_response.cpp:89-93, 133-135).
THEOREM ParsingIsDeliveryIndependent == Spec => []DeliveryIndependent
  <1>1. DeliveryInv /\ [Next]_vars => DeliveryInv'
    <2> SUFFICES ASSUME DeliveryInv, [Next]_vars PROVE DeliveryInv'
      OBVIOUS
    <2>1. CASE Next
      BY <2>1, DeliveryStep
    <2>2. CASE UNCHANGED vars
      BY <2>2, ZenonT(60) DEF DeliveryInv, vars, client, server
    <2>3. QED
      BY <2>1, <2>2
  <1>2. DeliveryInv => DeliveryIndependent
    <2> SUFFICES ASSUME DeliveryInv, parsed \notin {Incomplete, Overlong}
                 PROVE  parse_http_response(Units(buffer \o wire), FALSE) = parsed
      BY Zenon DEF DeliveryIndependent
    <2>1. /\ buffer \in Seq(SentPieces) /\ wire \in Seq(SentPieces)
          /\ parsed = parse_http_response(Units(buffer), FALSE)
      BY ZenonT(60) DEF DeliveryInv
    <2>2. buffer \o wire \in Seq(SentPieces)
      BY <2>1, ConcatProperties
    <2>3. Units(buffer) \in Seq(SentUnits) /\ Units(buffer \o wire) \in Seq(SentUnits)
      BY <2>1, <2>2, UnitsAre, ZenonT(60)
    <2>4. Arrived(Units(buffer), Units(buffer \o wire))
      BY <2>1, UnitsArrived, ZenonT(60)
    <2>5. ParsedStays(parse_http_response(Units(buffer), FALSE),
                      parse_http_response(Units(buffer \o wire), FALSE))
      BY <2>3, <2>4, ParsedArrived, ZenonT(60)
    <2>6. QED
      BY <2>1, <2>5, ZenonT(60) DEF ParsedStays
  <1>3. QED
    BY <1>1, <1>2, DeliveryInit, PTL DEF Spec

\* A request reads only its own response: HttpClient leaves nothing behind, in its
\* buffer or on a connection it keeps (http_client.cpp:12-13, 81, 101-102), however
\* many requests were answered, timed out or failed before.
THEOREM RequestsReadOwnBytes ==
    ASSUME ResponsesFramed
    PROVE  Spec => []OwnBytes
  <1>1. ClientInv => OwnBytes
    <2> SUFFICES ASSUME ClientInv, pc = "read", conn \notin interim
                 PROVE  /\ \A i \in 1 .. Len(buffer) : buffer[i].req = req
                        /\ \A i \in 1 .. Len(wire) : wire[i].req = req
      BY ZenonT(60) DEF OwnBytes
    <2>1. req \in Requests /\ conn # 0
      BY HttpClientAssumption DEF ClientInv, CallsInv, Requests
    <2>2. CASE buffer = <<>> /\ wire = <<>>
      BY <2>2
    <2>3. CASE ~(buffer = <<>> /\ wire = <<>>)
      <3>1. PICK response \in Responses(req) : \E n \in 0 .. Len(response) :
                /\ buffer = FirstOf(req, response, n)
                /\ \/ wire = RestOf(req, response, n)
                   \/ wire = <<>>
        BY <2>1, <2>3, Zenon DEF ClientInv, BytesInv
      <3>2. PICK n \in 0 .. Len(response) :
                /\ buffer = FirstOf(req, response, n)
                /\ \/ wire = RestOf(req, response, n)
                   \/ wire = <<>>
        BY <3>1, ZenonT(60)
      <3>3. \A i \in 1 .. Len(buffer) : buffer[i].req = req
        BY <2>1, <3>2, ReadPieces
      <3>4. \A i \in 1 .. Len(wire) : wire[i].req = req
        <4>1. CASE wire = <<>>
          BY <4>1
        <4>2. CASE wire = RestOf(req, response, n)
          BY <2>1, <4>2, RestPieces
        <4>3. QED
          BY <3>2, <4>1, <4>2
      <3>5. QED
        BY <3>3, <3>4
    <2>4. QED
      BY <2>2, <2>3
  <1>2. QED
    BY <1>1, ClientInvariant, PTL

\* Whose response a result is: the first half of ResponseMatches.
OwnResponses ==
    \A r \in Requests : result[r].kind = "ok" /\ result[r].clean => result[r].req = r

\* A result is the response to the request it is returned for, whatever became of the
\* requests and connections before it (http_client.cpp:101-102).
THEOREM ResultsAreOwn ==
    ASSUME ResponsesFramed
    PROVE  Spec => []OwnResponses
  <1>1. ClientInv => OwnResponses
    BY DEF ClientInv, CallsInv, OwnResponses, NoResult
  <1>2. QED
    BY <1>1, ClientInvariant, PTL

\* A function that differs from another at one point.
LEMMA DiffersAt ==
    ASSUME NEW S, NEW f, NEW g, NEW x, NEW v,
           f = [q \in S |-> f[q]], g = [q \in S |-> g[q]],
           \A q \in S : g[q] = IF q = x THEN v ELSE f[q]
    PROVE  g = [f EXCEPT ![x] = v]
  OBVIOUS

\* A step of the client is a step of a caller whose calls are executed at most once.
LEMMA RpcStep ==
    ASSUME ClientInv, ClientInv', Next
    PROVE  AtMostOnce!Next \/ UNCHANGED AtMostOnce!vars
  <1>0. /\ RpcState = [q \in Requests |-> RpcState[q]]
        /\ RpcState' = [q \in Requests |-> RpcState'[q]]
    BY Zenon DEF RpcState
  <1>1. ASSUME NEW r \in Requests, NEW c \in 1 .. opened, NEW response \in Responses(r), Serve(r, c, response)
        PROVE  AtMostOnce!Execute(r)
    <2>1. <<r, c>> \in inbox /\ executed' = [executed EXCEPT ![r] = @ + 1] /\ UNCHANGED <<pc, req, result>>
      BY <1>1 DEF Serve, client
    <2>2. r <= req /\ executed[r] = 0
      BY <2>1, HttpClientAssumption DEF ClientInv, CallsInv, Requests
    <2>3. executed' = [executed EXCEPT ![r] = 1]
      BY <2>1, <2>2, HttpClientAssumption DEF ClientInv, CallsInv, Requests
    <2>4. RpcState' = RpcState
      BY <2>1, ZenonT(60) DEF RpcState
    <2>5. RpcState[r] \in {"called", "error"}
      BY <2>2, HttpClientAssumption DEF ClientInv, CallsInv, Requests, RpcState
    <2>6. QED
      BY <2>2, <2>3, <2>4, <2>5, ZenonT(60) DEF AtMostOnce!Execute
  <1>2. ASSUME UNCHANGED <<req, result, executed>>, pc = "idle" <=> pc' = "idle"
        PROVE  UNCHANGED AtMostOnce!vars
    BY <1>2, ZenonT(60) DEF RpcState, AtMostOnce!vars
  <1>3. ASSUME \/ \E r \in Requests : SendInterim(r)
               \/ \E reset \in BOOLEAN : ServerCloses(reset)
               \/ \E n \in 1 .. Len(wire) : ReceiveData(n)
        PROVE  UNCHANGED AtMostOnce!vars
    <2>1. UNCHANGED <<req, result, executed, pc>>
      BY <1>3, Zenon DEF SendInterim, ServerCloses, ReceiveData, client
    <2>2. QED
      BY <1>2, <2>1, ZenonT(60)
  <1>4. CASE Connect \/ ChooseConnection \/ OpenConnection \/ SendOk \/ (SendFails /\ pc' = "reopen")
    <2>1. UNCHANGED <<req, result, executed>> /\ (pc = "idle" <=> pc' = "idle")
      BY <1>4, ZenonT(60) DEF Connect, ChooseConnection, OpenConnection, Opens, SendOk, SendFails, Return, server
    <2>2. QED
      BY <1>2, <2>1, ZenonT(60)
  <1>5. CASE StartRequest
    <2>1. /\ pc = "idle" /\ pc' # "idle" /\ req' = req + 1 /\ req' \in Requests
          /\ UNCHANGED <<result, executed>>
      BY <1>5, HttpClientAssumption DEF ClientInv, CallsInv, Requests, StartRequest, server
    <2>2. RpcState[req'] = "new" /\ \A q \in Requests : RpcState[q] # "called"
      BY <2>1, HttpClientAssumption DEF ClientInv, CallsInv, Requests, RpcState
    <2>3. RpcState' = [RpcState EXCEPT ![req'] = "called"]
      <3>1. \A q \in Requests : RpcState'[q] = IF q = req' THEN "called" ELSE RpcState[q]
        BY <2>1, HttpClientAssumption DEF ClientInv, CallsInv, Requests, RpcState
      <3>2. QED
        BY <1>0, <3>1, DiffersAt, ZenonT(60)
    <2>4. AtMostOnce!Call(req')
      BY <2>1, <2>2, <2>3, ZenonT(60) DEF AtMostOnce!Call
    <2>5. QED
      BY <2>1, <2>4, ZenonT(60) DEF AtMostOnce!Next
  <1>6. CASE SignFails \/ OpenFails \/ (SendFails /\ pc' # "reopen")
                 \/ ReadResponse \/ ReadMalformed \/ ReceiveFails
    <2>1. pc # "idle" /\ UNCHANGED <<req, executed>>
      BY <1>6, OnlyMayReturn, ZenonT(60) DEF server
    <2>2. PICK res, connection : MayReturn(res) /\ Return(res, connection)
      BY <1>6, OnlyMayReturn, ZenonT(60)
    <2>3. pc' = "idle" /\ result' = [result EXCEPT ![req] = res] /\ req \in Requests
      BY <2>1, <2>2, HttpClientAssumption DEF ClientInv, CallsInv, Requests, Return
    <2>4. RpcState[req] = "called"
      BY <2>1, <2>3, HttpClientAssumption DEF ClientInv, CallsInv, Requests, RpcState
    <2>5. CASE res.kind = "ok" /\ res.clean
      <3>1. executed[req] = 1
        BY <2>2, <2>5 DEF MayReturn
      <3>2. RpcState' = [RpcState EXCEPT ![req] = "ok"]
        <4>1. \A q \in Requests : RpcState'[q] = IF q = req THEN "ok" ELSE RpcState[q]
          BY <2>1, <2>3, <2>5, HttpClientAssumption DEF ClientInv, CallsInv, Requests, RpcState
        <4>2. QED
          BY <1>0, <4>1, DiffersAt, ZenonT(60)
      <3>3. AtMostOnce!ReturnOk(req)
        BY <2>1, <2>4, <3>1, <3>2, ZenonT(60) DEF AtMostOnce!ReturnOk
      <3>4. QED
        BY <2>3, <3>3, ZenonT(60) DEF AtMostOnce!Next
    <2>6. CASE ~(res.kind = "ok" /\ res.clean)
      <3>1. RpcState' = [RpcState EXCEPT ![req] = "error"]
        <4>1. \A q \in Requests : RpcState'[q] = IF q = req THEN "error" ELSE RpcState[q]
          BY <2>1, <2>2, <2>3, <2>6, HttpClientAssumption DEF ClientInv, CallsInv, Requests, RpcState, MayReturn
        <4>2. QED
          BY <1>0, <4>1, DiffersAt, ZenonT(60)
      <3>2. AtMostOnce!ReturnError(req)
        BY <2>1, <2>4, <3>1, ZenonT(60) DEF AtMostOnce!ReturnError
      <3>3. QED
        BY <2>3, <3>2, ZenonT(60) DEF AtMostOnce!Next
    <2>7. QED
      BY <2>5, <2>6, ZenonT(60)
  <1>7. QED
    BY <1>1, <1>3, <1>4, <1>5, <1>6, Steps, ZenonT(60) DEF AtMostOnce!Next

\* HttpClient implements Rpc: for every sequence of failures, an order is executed at
\* most once and an answer means that it was, although request sends it again on a
\* new connection after a failed write (http_client.cpp:87-96).
THEOREM ClientImplementsRpc ==
    ASSUME ResponsesFramed
    PROVE  Spec => RpcSpec
  <1>1. Init => AtMostOnce!Init
    <2> SUFFICES ASSUME Init PROVE AtMostOnce!Init
      OBVIOUS
    <2>1. RpcState = [r \in Requests |-> "new"]
      BY HttpClientAssumption DEF Init, RpcState, Requests
    <2>2. QED
      BY <2>1, ZenonT(60) DEF Init, AtMostOnce!Init
  <1>2. ClientInv /\ ClientInv' /\ [Next]_vars => [AtMostOnce!Next]_(AtMostOnce!vars)
    <2> SUFFICES ASSUME ClientInv, ClientInv', [Next]_vars
                 PROVE  AtMostOnce!Next \/ UNCHANGED AtMostOnce!vars
      BY Zenon
    <2>1. CASE Next
      BY <2>1, RpcStep, ZenonT(60)
    <2>2. CASE UNCHANGED vars
      <3>1. UNCHANGED <<pc, req, result, executed>>
        BY <2>2, Zenon DEF vars, client, server
      <3>2. QED
        BY <3>1, ZenonT(60) DEF RpcState, AtMostOnce!vars
    <2>3. QED
      BY <2>1, <2>2
  <1>3. QED
    BY <1>1, <1>2, ClientInvariant, PTL DEF Spec, RpcSpec, AtMostOnce!Spec
=============================================================================
