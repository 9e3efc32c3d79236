----------------------------- MODULE JsonParser -----------------------------
(***************************************************************************)
(* The recursive-descent JSON parser (src/encoding/json_parser.cpp) over   *)
(* the tokens of the lexer.                                                *)
(*                                                                         *)
(* A payload is the sequence of its tokens; the End token is implicit, and *)
(* a token of type Error stands for whatever the lexer rejects.            *)
(***************************************************************************)
EXTENDS Integers, Sequences, SequencesExt, TLC

CONSTANTS kMaxJsonDepth,
          Decoded(_),    \* decode_json_string of the text of an escaped token
          nullopt        \* an empty optional

Token(type, text, has_escapes) == [type |-> type, text |-> text, has_escapes |-> has_escapes]
Punct(type) == Token(type, "", FALSE)

\* JsonLexer::next at token i.
TokenAt(tokens, i) == IF i \in DOMAIN tokens THEN tokens[i] ELSE Punct("End")

\* Values: numbers are kept as text.
Value(kind, text, items, members) ==
    [kind |-> kind, text |-> text, items |-> items, members |-> members]
Text(text) == Value("text", text, <<>>, <<>>)
Word(type) == Value(type, "", <<>>, <<>>)
Array(items) == Value("array", "", items, <<>>)
Object(members) == Value("object", "", <<>>, members)

Parsed(value, i) == [ok |-> TRUE, value |-> value, pos |-> i]
Failed == [ok |-> FALSE, value |-> Word("Null"), pos |-> 0]

string_value(token) == IF token.has_escapes THEN Decoded(token.text) ELSE token.text

\* Faulty variant: a repeated key replaces the member.
EmplaceReplaces(members, key, value) == (key :> value) @@ members

\* flat_map::emplace: a repeated key leaves the first member in place.
Emplace(members, key, value) == members @@ (key :> value)

\* Faulty variant: the limit is passed by one.
TooDeepLate(depth) == depth > kMaxJsonDepth

TooDeep(depth) == depth >= kMaxJsonDepth

RECURSIVE parse_value(_, _, _)
RECURSIVE Members(_, _, _, _)
RECURSIVE Elements(_, _, _, _)

\* The loop of parse_object, from the key at token i on.
Members(tokens, i, depth, members) ==
    LET token == TokenAt(tokens, i)
        key == string_value(token)
        value == parse_value(tokens, i + 2, depth)
        grown == Emplace(members, key, value.value)
        sep == TokenAt(tokens, value.pos).type
    IN  IF token.type # "String" \/ key = nullopt \/ TokenAt(tokens, i + 1).type # "Colon" THEN Failed
        ELSE IF ~value.ok THEN Failed
        ELSE IF sep = "RightBrace" THEN Parsed(Object(grown), value.pos + 1)
        ELSE IF sep = "Comma" THEN Members(tokens, value.pos + 1, depth, grown)
        ELSE Failed

parse_object(tokens, i, depth) ==
    IF TokenAt(tokens, i).type = "RightBrace" THEN Parsed(Object(<<>>), i + 1)
    ELSE Members(tokens, i, depth, <<>>)

\* The loop of parse_array, from the element at token i on.
Elements(tokens, i, depth, items) ==
    LET value == parse_value(tokens, i, depth)
        grown == Append(items, value.value)
        sep == TokenAt(tokens, value.pos).type
    IN  IF ~value.ok THEN Failed
        ELSE IF sep = "RightBracket" THEN Parsed(Array(grown), value.pos + 1)
        ELSE IF sep = "Comma" THEN Elements(tokens, value.pos + 1, depth, grown)
        ELSE Failed

parse_array(tokens, i, depth) ==
    IF TokenAt(tokens, i).type = "RightBracket" THEN Parsed(Array(<<>>), i + 1)
    ELSE Elements(tokens, i, depth, <<>>)

parse_value(tokens, i, depth) ==
    LET token == TokenAt(tokens, i)
    IN  CASE token.type \in {"LeftBrace", "LeftBracket"} ->
                IF TooDeep(depth) THEN Failed
                ELSE IF token.type = "LeftBrace" THEN parse_object(tokens, i + 1, depth + 1)
                ELSE parse_array(tokens, i + 1, depth + 1)
          [] token.type = "String" ->
                IF string_value(token) = nullopt THEN Failed ELSE Parsed(Text(string_value(token)), i + 1)
          [] token.type = "Number" -> Parsed(Text(token.text), i + 1)
          [] token.type \in {"True", "False", "Null"} -> Parsed(Word(token.type), i + 1)
          [] OTHER -> Failed

\* One value, and nothing after it.
parse_json(tokens) ==
    LET value == parse_value(tokens, 1, 0)
    IN  IF value.ok /\ TokenAt(tokens, value.pos).type = "End" THEN value ELSE Failed

=============================================================================
