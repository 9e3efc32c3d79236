------------------------------ MODULE Decoding ------------------------------
(***************************************************************************)
(* Everything between the bytes of a payload and the typed message, put    *)
(* side by side: a specification that builds inputs, so that every value   *)
(* the functions of JsonText, FixedPoint, JsonParser, KalshiMessages and   *)
(* KalshiDecoder have on them is checked against what it should be.        *)
(*                                                                         *)
(* An input is a text, grown unit by unit; or the tokens of a message, in  *)
(* which tokens are replaced, inserted and deleted; or a price.            *)
(***************************************************************************)
EXTENDS JsonText, FixedPoint, KalshiDecoder, FiniteSetsExt

CONSTANTS Alphabets,   \* sets of units, each with the longest text made of them
          Messages,    \* payloads as tokens, each with the edits to make
          Slices       \* what an edit puts in

VARIABLES text, growth,   \* a text, and the alphabet it is made of
          tokens, edits,  \* a payload, and the edits still to make
          price

vars == <<text, growth, tokens, edits, price>>

NoGrowth == [units |-> {}, most |-> 0]

Texts == text = <<>> /\ growth \in Alphabets /\ tokens = <<>> /\ edits = 0 /\ price = 0
Payloads == /\ \E m \in Messages : tokens = m.tokens /\ edits = m.edits
            /\ text = <<>> /\ growth = NoGrowth /\ price = 0
Prices == price \in 1 .. 999 /\ text = <<>> /\ growth = NoGrowth /\ tokens = <<>> /\ edits = 0

Init == Texts \/ Payloads \/ Prices

Grow(unit) ==
    /\ growth.most > 0
    /\ text' = text \o unit
    /\ growth' = [growth EXCEPT !.most = @ - 1]
    /\ UNCHANGED <<tokens, edits, price>>

\* Token i, or nothing, is replaced by a slice.
Edit(i, cut, slice) ==
    /\ edits > 0
    /\ tokens' = SubSeq(tokens, 1, i - 1) \o slice \o SubSeq(tokens, i + cut, Len(tokens))
    /\ edits' = edits - 1
    /\ UNCHANGED <<text, growth, price>>

Next ==
    \/ \E unit \in growth.units : Grow(unit)
    \/ \E i \in DOMAIN tokens, cut \in 0 .. 1, slice \in Slices : Edit(i, cut, slice)

Spec == Init /\ [][Next]_vars

-----------------------------------------------------------------------------
(* Texts *)

\* The grammar of the comment at json_lexer.cpp:85.
AreDigits(s) == s # <<>> /\ \A i \in DOMAIN s : s[i] \in Digit
IsInt(s) == AreDigits(s) /\ (s[1] = 48 => Len(s) = 1)
IsFrac(s) == s = <<>> \/ (s[1] = 46 /\ AreDigits(Tail(s)))
IsExp(s) == \/ s = <<>>
            \/ s[1] \in {69, 101} /\ AreDigits(Tail(s))
            \/ s[1] \in {69, 101} /\ Len(s) > 1 /\ s[2] \in {43, 45} /\ AreDigits(SubSeq(s, 3, Len(s)))
IsNumber(s) ==
    \E a \in 0 .. 1, b, c \in 0 .. Len(s) :
        /\ a = 1 => peek(s, 1) = 45
        /\ IsInt(SubSeq(s, a + 1, b)) /\ IsFrac(SubSeq(s, b + 1, c)) /\ IsExp(SubSeq(s, c + 1, Len(s)))

\* lex_number takes a whole text for a number exactly when it is one
\* (json_lexer.cpp:86-116).
NumberGrammar ==
    LET token == next(text, 1)
    IN  (token.type = "Number" /\ token.text = text) <=> IsNumber(text)

\* Well-formed UTF-8: no overlong form, no surrogate, nothing above U+10FFFF.
RECURSIVE IsUtf8(_)
IsUtf8(s) ==
    LET c == s[1]
        tails(n, low, high) == /\ Len(s) > n /\ s[2] \in low .. high
                               /\ \A i \in 3 .. n + 1 : s[i] \in 128 .. 191
                               /\ IsUtf8(SubSeq(s, n + 2, Len(s)))
    IN  IF s = <<>> THEN TRUE
        ELSE \/ c < 128 /\ IsUtf8(Tail(s))
             \/ c \in 194 .. 223 /\ tails(1, 128, 191)
             \/ c \in 224 .. 239 /\ tails(2, IF c = 224 THEN 160 ELSE 128, IF c = 237 THEN 159 ELSE 191)
             \/ c \in 240 .. 244 /\ tails(3, IF c = 240 THEN 144 ELSE 128, IF c = 244 THEN 143 ELSE 191)

\* The escapes of a string the lexer accepted decode to well-formed UTF-8 or are
\* refused: half a surrogate pair never gets through (json_parser.cpp:158-200).
EscapesAreUtf8 ==
    LET token == next(<<Quote>> \o text \o <<Quote>>, 1)
        decoded == decode_json_string(token.text)
    IN  token.type = "String" /\ (\A i \in DOMAIN text : text[i] < 128) /\ decoded.ok
        => IsUtf8(decoded.text)

\* The number a decimal text denotes, times 10^scale, or NoNumber.
RECURSIVE Number(_)
Number(digits) == IF digits = <<>> THEN 0 ELSE 10 * Number(Front(digits)) + (Last(digits) - 48)
Denoted(s, scale) ==
    LET sign == IF s # <<>> /\ s[1] = 45 THEN -1 ELSE 1
        body == IF sign = -1 THEN Tail(s) ELSE s
        points == {i \in DOMAIN body : body[i] = 46}
        digits == SelectSeq(body, LAMBDA c : c # 46)
        places == IF points = {} THEN 0 ELSE Len(body) - Max(points)
        scaled == Number(digits) * 10 ^ scale
    IN  IF ~AreDigits(digits) \/ Cardinality(points) > 1 THEN NoNumber
        ELSE IF scaled % 10 ^ places # 0 \/ scaled \div 10 ^ places > MaxInt THEN NoNumber
        ELSE sign * (scaled \div 10 ^ places)

\* parse_fixed is exact: it gives the value the text denotes, and nothing when that
\* is no multiple of the unit or does not fit (fixed_point.hpp:6-11).
FixedExact == \A scale \in {0, 2} : parse_fixed(text, scale) = Denoted(text, scale)

\* An order's price is on the wire what it was in the book: price_to_dollars and
\* parse_price are inverse on the prices of the book (market_state.hpp:30).
PriceRoundTrip == price # 0 => parse_fixed(price_to_dollars(price), 3) = price

-----------------------------------------------------------------------------
(* Payloads *)

\* The decoder without a tree accepts what the tree-based path accepts, and makes
\* the same message of it (kalshi_decoder.cpp:8-15).
DecodersAgree == decode_kalshi_message(tokens) = tree_path(tokens)

\* How deep token i is nested, counting brackets.
Nesting(i) ==
    LET count(types) == Cardinality({j \in 1 .. i - 1 : tokens[j].type \in types})
    IN  count({"LeftBrace", "LeftBracket"}) - count({"RightBrace", "RightBracket"})

\* What is nested deeper than the limit is rejected, by both decoders, and so is
\* never recursed into (json_parser.cpp:45-46, kalshi_decoder.cpp:145-146, 169-177, 226-227).
NestingBounded ==
    parse_json(tokens).ok \/ decode(tokens).status = "ok"
    => \A i \in 1 .. Len(tokens) + 1 : Nesting(i) <= kMaxJsonDepth

\* The text of the first member of the root with this key, by brackets.
FirstText(key) ==
    LET keys == {i \in DOMAIN tokens : /\ tokens[i].type = "String" /\ string_value(tokens[i]) = key
                                       /\ Nesting(i) = 1 /\ TokenAt(tokens, i + 1).type = "Colon"}
        value == TokenAt(tokens, Min(keys) + 2)
    IN  IF keys = {} \/ ~is_text(value.type) THEN nullopt ELSE string_value(value)

\* An answer to an order is read from the first member with each name, and only an
\* answer that has them all is taken for one: what else is in the body, repeated
\* names included, is ignored (kalshi_messages.cpp:268-295).
AnswerIsFirst ==
    LET json == parse_json(tokens)
        answer == parse_order_response(json.value)
        complete == /\ \A key \in OrderText : FirstText(key) # nullopt
                    /\ FirstText("ts_ms") # nullopt /\ Uint64(FirstText("ts_ms")) # nullopt
    IN  json.ok /\ json.value.kind = "object" =>
        /\ answer.ok <=> complete
        /\ answer.ok => \A key \in OrderText : answer.text[key] = FirstText(key)
=============================================================================
