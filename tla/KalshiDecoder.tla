--------------------------- MODULE KalshiDecoder ----------------------------
(***************************************************************************)
(* decode_kalshi_message (src/protocol/kalshi_decoder.cpp): one walk over  *)
(* the tokens that records the fields messages use, without a JSON tree.   *)
(*                                                                         *)
(* The callbacks that for_each_member and for_each_element are given are   *)
(* named by where the walk is: "root", "msg", the key of a side's levels,  *)
(* "level" inside one level, and "skip" inside a value that is ignored.    *)
(***************************************************************************)
EXTENDS KalshiMessages

RootScalars == {"type", "sid", "seq"}
MsgScalars == {"market_ticker", "market_id", "price_dollars", "delta_fp", "side", "ts", "ts_ms",
               "order_id", "count_fp", "action"}
LevelKeys == {"yes_dollars_fp", "no_dollars_fp"}

Fields == [msg_seen |-> FALSE, msg_is_object |-> FALSE,
           scalar |-> [k \in RootScalars \union MsgScalars |-> [seen |-> FALSE, value |-> nullopt]],
           levels |-> [k \in LevelKeys |-> [seen |-> FALSE, present |-> FALSE, valid |-> TRUE, levels |-> <<>>]],
           level |-> <<>>]     \* the elements of the level being read

\* Decoder::next: a string with escapes stops the walk, whatever was expected.
IsEscaped(token) == token.type = "String" /\ token.has_escapes
NextAt(tokens, i) ==
    IF IsEscaped(TokenAt(tokens, i)) THEN Punct("Escaped") ELSE TokenAt(tokens, i)
TypeAt(tokens, i) == NextAt(tokens, i).type

\* The walk goes on at token i, or stops there.
Goes(i, f) == [status |-> "ok", pos |-> i, f |-> f]
Stops(tokens, i, f) ==
    [status |-> IF IsEscaped(TokenAt(tokens, i)) THEN "fallback" ELSE "error", pos |-> i, f |-> f]

is_text(type) == type \in {"String", "Number"}

\* What a callback makes of the value before it: the fields, and the callback for what
\* is inside it.
Enter(into, f) == [into |-> into, f |-> f]

\* Faulty variant: the first text wins, not the first occurrence.
scalarFirstText(key, token, f) ==
    Enter("skip", IF f.scalar[key].value # nullopt \/ ~is_text(token.type) THEN f
                  ELSE [f EXCEPT !.scalar[key] = [seen |-> TRUE, value |-> token.text]])

\* The first occurrence of a key counts, whatever its type.
scalar(key, token, f) ==
    Enter("skip", IF f.scalar[key].seen THEN f
                  ELSE [f EXCEPT !.scalar[key] =
                            [seen |-> TRUE, value |-> IF is_text(token.type) THEN token.text ELSE nullopt]])

levels(key, token, f) ==
    IF f.levels[key].seen \/ token.type # "LeftBracket"
    THEN Enter("skip", [f EXCEPT !.levels[key].seen = TRUE])
    ELSE Enter(key, [f EXCEPT !.levels[key].seen = TRUE, !.levels[key].present = TRUE])

\* One element of a side's levels, before and after its own elements were read.
BeginLevel(key, token, f) ==
    IF token.type = "LeftBracket" THEN Enter("level", [f EXCEPT !.level = <<>>])
    ELSE Enter("skip", [f EXCEPT !.levels[key].valid = FALSE])
EndLevel(key, f) ==
    IF Len(f.level) = 2 /\ \A j \in 1 .. 2 : f.level[j] # nullopt
    THEN [f EXCEPT !.levels[key].levels = Append(@, f.level)]
    ELSE [f EXCEPT !.levels[key].valid = FALSE]

msg_member(key, token, f) ==
    IF key \in MsgScalars THEN scalar(key, token, f)
    ELSE IF key \in LevelKeys THEN levels(key, token, f)
    ELSE Enter("skip", f)

root_member(key, token, f) ==
    IF key \in RootScalars THEN scalar(key, token, f)
    ELSE IF key # "msg" \/ f.msg_seen THEN Enter("skip", f)
    ELSE IF token.type # "LeftBrace" THEN Enter("skip", [f EXCEPT !.msg_seen = TRUE])
    ELSE Enter("msg", [f EXCEPT !.msg_seen = TRUE, !.msg_is_object = TRUE])

OnValue(where, key, token, f) ==
    CASE where = "root" -> root_member(key, token, f)
      [] where = "msg" -> msg_member(key, token, f)
      [] where \in LevelKeys -> BeginLevel(where, token, f)
      [] where = "level" ->
            Enter("skip", [f EXCEPT !.level = Append(@, IF is_text(token.type) THEN token.text ELSE nullopt)])
      [] where = "skip" -> Enter("skip", f)

RECURSIVE for_each(_, _, _, _, _, _)

\* The value at token i, with what is inside it.
take_value(tokens, i, depth, enter) ==
    LET type == TypeAt(tokens, i)
    IN  CASE type \in {"String", "Number", "True", "False", "Null"} -> Goes(i + 1, enter.f)
          [] type \in {"LeftBrace", "LeftBracket"} /\ depth < kMaxJsonDepth ->
                LET close == IF type = "LeftBrace" THEN "RightBrace" ELSE "RightBracket"
                IN  IF TypeAt(tokens, i + 1) = close THEN Goes(i + 2, enter.f)
                    ELSE for_each(tokens, i + 1, depth + 1, close, enter.into, enter.f)
          [] OTHER -> Stops(tokens, i, enter.f)

\* The loops of for_each_member, from the key at token i on, and of for_each_element.
for_each(tokens, i, depth, close, where, f) ==
    LET keyed == close = "RightBrace"
        at == IF keyed THEN i + 2 ELSE i
        enter == OnValue(where, NextAt(tokens, i).text, NextAt(tokens, at), f)
        value == take_value(tokens, at, depth, enter)
        after == IF enter.into = "level" THEN EndLevel(where, value.f) ELSE value.f
        sep == TypeAt(tokens, value.pos)
    IN  IF keyed /\ TypeAt(tokens, i) # "String" THEN Stops(tokens, i, f)
        ELSE IF keyed /\ TypeAt(tokens, i + 1) # "Colon" THEN Stops(tokens, i + 1, f)
        ELSE IF value.status # "ok" THEN value
        ELSE IF sep = close THEN Goes(value.pos + 1, after)
        ELSE IF sep = "Comma" THEN for_each(tokens, value.pos + 1, depth, close, where, after)
        ELSE Stops(tokens, value.pos, after)

\* The whole payload is read; a root that is no object is an error in any case.
decode(tokens) ==
    LET object == TypeAt(tokens, 1) = "LeftBrace"
        walk == take_value(tokens, 1, 0, Enter(IF object THEN "root" ELSE "skip", Fields))
    IN  IF walk.status # "ok" THEN walk
        ELSE IF TypeAt(tokens, walk.pos) = "End" /\ object THEN walk
        ELSE Stops(tokens, walk.pos, walk.f)

\* The message the fields make.
build(f) ==
    LET value(key) == f.scalar[key].value
        number(key) == IF value(key) = nullopt THEN nullopt ELSE Uint64(value(key))
        has(keys) == \A key \in keys : value(key) # nullopt
        text(keys) == [key \in keys |-> value(key)]
        good(key) == f.levels[key].present => f.levels[key].valid
        side(key) == IF f.levels[key].present THEN f.levels[key].levels ELSE <<>>
        make(payload) == Message(value("type"), uint32(number("sid")), uint32(number("seq")), payload)
        delta == IF has(DeltaText) /\ number("ts_ms") # nullopt
                 THEN [ok |-> TRUE, text |-> text(DeltaText), ts_ms |-> number("ts_ms")] ELSE Refused
        snapshot == IF has(SnapshotText) /\ good("yes_dollars_fp") /\ good("no_dollars_fp")
                    THEN [ok |-> TRUE, text |-> text(SnapshotText),
                          yes |-> side("yes_dollars_fp"), no |-> side("no_dollars_fp")] ELSE Refused
        fill == IF has(FillText) /\ value("action") \in {"buy", "sell"}
                THEN [ok |-> TRUE, text |-> text(FillText), action |-> value("action")] ELSE Refused
    IN  CASE value("type") = "subscribed" -> make([ok |-> TRUE])
          [] value("type") = "orderbook_delta" /\ f.msg_is_object -> make(delta)
          [] value("type") = "orderbook_snapshot" /\ f.msg_is_object -> make(snapshot)
          [] value("type") = "fill" /\ f.msg_is_object -> make(fill)
          [] OTHER -> Refused

decode_kalshi_message(tokens) ==
    LET walk == decode(tokens)
    IN  CASE walk.status = "ok" -> build(walk.f)
          [] walk.status = "fallback" -> tree_path(tokens)
          [] OTHER -> Refused
=============================================================================
