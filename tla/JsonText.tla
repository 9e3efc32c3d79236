------------------------------ MODULE JsonText ------------------------------
(***************************************************************************)
(* JSON as bytes: the lexer (src/encoding/json_lexer.cpp) and the decoding *)
(* of escape sequences (src/encoding/json_parser.cpp).  A text is a        *)
(* sequence of byte values; positions count from 1.                        *)
(***************************************************************************)
EXTENDS Integers, Sequences, SequencesExt

Quote == 34
Backslash == 92
LetterU == 117
Whitespace == {32, 10, 13, 9}
Digit == 48 .. 57
HexDigit == Digit \union (65 .. 70) \union (97 .. 102)

\* What follows a backslash, with the byte it stands for: " \ / b f n r t.
Escape == [c \in {34, 92, 47, 98, 102, 110, 114, 116} |->
              CASE c = 98 -> 8 [] c = 102 -> 12 [] c = 110 -> 10
                [] c = 114 -> 13 [] c = 116 -> 9 [] OTHER -> c]

\* The byte at position i, 0 past the end.
peek(s, i) == IF i <= Len(s) THEN s[i] ELSE 0

\* The first position from i on whose byte is not in the set.
Skip(s, i, set) ==
    CHOOSE j \in i .. Len(s) + 1 : /\ \A k \in i .. j - 1 : s[k] \in set
                                   /\ peek(s, j) \notin set

-----------------------------------------------------------------------------
(* The lexer.  A token has the position at which the next one starts. *)

Lexeme(type, s, first, last, has_escapes, pos) ==
    [type |-> type, text |-> SubSeq(s, first, last), has_escapes |-> has_escapes, pos |-> pos]

LexError(i) == Lexeme("Error", <<>>, 1, 0, FALSE, i)

\* Whether a \u escape with its four digits starts at the backslash at i.
IsUnicodeEscape(s, i) ==
    peek(s, i + 1) = LetterU /\ \A k \in 2 .. 5 : peek(s, i + k) \in HexDigit

\* start is the position after the opening quote.
lex_string(s, start) ==
    LET RECURSIVE Scan(_, _)
        Scan(i, has_escapes) ==
            IF i > Len(s) \/ peek(s, i) < 32 THEN LexError(i)
            ELSE IF s[i] = Quote THEN Lexeme("String", s, start, i - 1, has_escapes, i + 1)
            ELSE IF s[i] # Backslash THEN Scan(i + 1, has_escapes)
            ELSE IF peek(s, i + 1) \in DOMAIN Escape THEN Scan(i + 2, TRUE)
            ELSE IF IsUnicodeEscape(s, i) THEN Scan(i + 6, TRUE)
            ELSE LexError(i)
    IN  Scan(start, FALSE)

\* Faulty variant: digits need not follow the decimal point.
lex_numberBarePoint(s, start) ==
    LET first == IF peek(s, start) = 45 THEN start + 1 ELSE start
        int   == IF peek(s, first) = 48 THEN first + 1 ELSE Skip(s, first, Digit)
        frac  == IF peek(s, int) = 46 THEN Skip(s, int + 1, Digit) ELSE int
    IN  IF int = first THEN LexError(start)
        ELSE Lexeme("Number", s, start, frac - 1, FALSE, frac)

\* Sign, integer part, fraction and exponent; each variable is the position
\* after that part.
lex_number(s, start) ==
    LET first == IF peek(s, start) = 45 THEN start + 1 ELSE start
        int   == IF peek(s, first) = 48 THEN first + 1 ELSE Skip(s, first, Digit)
        frac  == IF peek(s, int) = 46 THEN Skip(s, int + 1, Digit) ELSE int
        sign  == IF peek(s, frac) \notin {69, 101} THEN frac
                 ELSE IF peek(s, frac + 1) \in {43, 45} THEN frac + 2 ELSE frac + 1
        exp   == IF sign = frac THEN frac ELSE Skip(s, sign, Digit)
    IN  IF int = first \/ frac = int + 1 \/ (sign > frac /\ exp = sign) THEN LexError(start)
        ELSE Lexeme("Number", s, start, exp - 1, FALSE, exp)

Single == [c \in {123, 125, 91, 93, 58, 44} |->
              CASE c = 123 -> "LeftBrace" [] c = 125 -> "RightBrace" [] c = 91 -> "LeftBracket"
                [] c = 93 -> "RightBracket" [] c = 58 -> "Colon" [] c = 44 -> "Comma"]

Words == [True |-> <<116, 114, 117, 101>>, False |-> <<102, 97, 108, 115, 101>>,
          Null |-> <<110, 117, 108, 108>>]

\* JsonLexer::next, for a lexer that stands at position from.
next(s, from) ==
    LET i == Skip(s, from, Whitespace)
        words == {w \in DOMAIN Words : IsPrefix(Words[w], SubSeq(s, i, Len(s)))}
    IN  IF i > Len(s) THEN Lexeme("End", s, 1, 0, FALSE, i)
        ELSE IF s[i] \in DOMAIN Single THEN Lexeme(Single[s[i]], s, i, i, FALSE, i + 1)
        ELSE IF s[i] = Quote THEN lex_string(s, i + 1)
        ELSE IF words # {} THEN LET w == CHOOSE w \in words : TRUE
                                    last == i + Len(Words[w]) - 1
                                IN  Lexeme(w, s, i, last, FALSE, last + 1)
        ELSE IF s[i] = 45 \/ s[i] \in Digit THEN lex_number(s, i)
        ELSE LexError(i)

-----------------------------------------------------------------------------
(* Escape sequences *)

HexValue(c) == IF c \in Digit THEN c - 48 ELSE IF c >= 97 THEN c - 87 ELSE c - 55
hex4(s, i) ==
    4096 * HexValue(s[i]) + 256 * HexValue(s[i + 1]) + 16 * HexValue(s[i + 2]) + HexValue(s[i + 3])

\* The UTF-8 encoding of a code point.
append_utf8(out, cp) ==
    LET tail(shift) == 128 + ((cp \div shift) % 64)
    IN  out \o (IF cp < 128 THEN <<cp>>
                ELSE IF cp < 2048 THEN <<192 + cp \div 64, tail(1)>>
                ELSE IF cp < 65536 THEN <<224 + cp \div 4096, tail(64), tail(1)>>
                ELSE <<240 + cp \div 262144, tail(4096), tail(64), tail(1)>>)

HighSurrogate == 55296 .. 56319
LowSurrogate == 56320 .. 57343

Undecodable == [ok |-> FALSE, text |-> <<>>]

\* Faulty variant: surrogates are encoded one by one.
decode_json_stringLoneSurrogates(raw) ==
    LET RECURSIVE Decode(_, _)
        Decode(i, out) ==
            IF i > Len(raw) THEN [ok |-> TRUE, text |-> out]
            ELSE IF raw[i] # Backslash THEN Decode(i + 1, Append(out, raw[i]))
            ELSE IF peek(raw, i + 1) \in DOMAIN Escape
                 THEN Decode(i + 2, Append(out, Escape[raw[i + 1]]))
            ELSE IF peek(raw, i + 1) # LetterU \/ i + 5 > Len(raw) THEN Undecodable
            ELSE Decode(i + 6, append_utf8(out, hex4(raw, i + 2)))
    IN  Decode(1, <<>>)

decode_json_string(raw) ==
    LET RECURSIVE Decode(_, _)
        Decode(i, out) ==
            IF i > Len(raw) THEN [ok |-> TRUE, text |-> out]
            ELSE IF raw[i] # Backslash THEN Decode(i + 1, Append(out, raw[i]))
            ELSE IF peek(raw, i + 1) \in DOMAIN Escape
                 THEN Decode(i + 2, Append(out, Escape[raw[i + 1]]))
            ELSE IF peek(raw, i + 1) # LetterU \/ i + 5 > Len(raw) THEN Undecodable
            ELSE LET cp == hex4(raw, i + 2)
                 IN  IF cp \in LowSurrogate THEN Undecodable
                     ELSE IF cp \notin HighSurrogate THEN Decode(i + 6, append_utf8(out, cp))
                     ELSE IF i + 11 > Len(raw) \/ raw[i + 6] # Backslash \/ raw[i + 7] # LetterU
                          THEN Undecodable
                     ELSE LET low == hex4(raw, i + 8)
                          IN  IF low \notin LowSurrogate THEN Undecodable
                              ELSE Decode(i + 12, append_utf8(out, 65536 + (cp - 55296) * 1024
                                                                   + (low - 56320)))
    IN  Decode(1, <<>>)

=============================================================================
