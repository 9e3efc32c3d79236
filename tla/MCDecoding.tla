----------------------------- MODULE MCDecoding -----------------------------
(***************************************************************************)
(* TLC instances of Decoding: texts of number characters and of string     *)
(* characters, one message of each type with every token edited once, a    *)
(* short one with two edits, and an answer to an order.                    *)
(***************************************************************************)
EXTENDS Decoding

\* 0 1 - . e +
NumberUnits == {<<48>>, <<49>>, <<45>>, <<46>>, <<101>>, <<43>>}
\* " \ n \u d83d de00 00e9 20ac, control characters, a byte above 127, { and words
StringUnits == {<<34>>, <<92>>, <<110>>, <<92, 117>>, <<100, 56, 51, 100>>, <<100, 69, 48, 48>>,
                <<48, 48, 101, 57>>, <<50, 48, 97, 99>>, <<1>>, <<10>>, <<200>>, <<123>>,
                <<116, 114, 117, 101>>, <<32>>}
MCAlphabets == {[units |-> NumberUnits, most |-> 6], [units |-> StringUnits, most |-> 4]}

\* Escaped tokens by what they decode to; a lone surrogate does not decode.
MCDecoded(t) == CASE t = "\\u0073ide" -> "side" [] t = "\\u0074ype" -> "type" [] OTHER -> nullopt
MCUint64(t) == CASE t = "5" -> 5 [] t = "13" -> 13 [] OTHER -> nullopt

S(t) == Token("String", t, FALSE)
N(t) == Token("Number", t, FALSE)
E(t) == Token("String", t, TRUE)
Sep == Punct("Comma")
Listed(parts) == FlattenSeq([i \in DOMAIN parts |-> IF i = 1 THEN parts[i] ELSE <<Sep>> \o parts[i]])
Field(key, value) == <<S(key), Punct("Colon")>> \o value
Obj(fields) == <<Punct("LeftBrace")>> \o Listed(fields) \o <<Punct("RightBrace")>>
Arr(items) == <<Punct("LeftBracket")>> \o Listed(items) \o <<Punct("RightBracket")>>
Strs(keys) == [i \in DOMAIN keys |-> Field(keys[i], <<S("x")>>)]
Msg(type, fields) == Obj(<<Field("type", <<S(type)>>), Field("seq", <<N("13")>>), Field("msg", Obj(fields))>>)

Subscribed == Obj(<<Field("type", <<S("subscribed")>>), Field("sid", <<N("5")>>)>>)
Snapshot ==
    Msg("orderbook_snapshot",
        Strs(<<"market_ticker", "market_id">>)
        \o <<Field("yes_dollars_fp", Arr(<<Arr(<<<<S("1")>>, <<S("2")>>>>), Arr(<<<<S("3")>>, <<N("5")>>>>)>>))>>)
Delta == Msg("orderbook_delta",
             Strs(<<"market_ticker", "market_id", "price_dollars", "delta_fp", "side", "ts">>)
             \o <<Field("ts_ms", <<N("5")>>)>>)
Fill == Msg("fill", Strs(<<"order_id", "market_ticker", "count_fp">>) \o <<Field("action", <<S("buy")>>)>>)
Answer == Obj(Strs(<<"order_id", "fill_count", "remaining_count">>) \o <<Field("ts_ms", <<N("5")>>)>>)

MCMessages == {[tokens |-> Subscribed, edits |-> 2]}
              \union {[tokens |-> m, edits |-> 1] : m \in {Snapshot, Delta, Fill, Answer}}

MCSlices ==
    {<<>>}
    \union {<<Punct(t)>> : t \in {"LeftBrace", "RightBrace", "LeftBracket", "RightBracket", "Colon",
                                  "Comma", "Null", "Error"}}
    \union {<<S("type")>>, <<S("fill")>>, <<N("13")>>, <<E("\\u0073ide")>>, <<E("\\ud800")>>}
    \union {Field(k, <<v>>) \o <<Sep>> : k \in {"type", "side", "fill_count", "yes_dollars_fp"},
                                         v \in {S("y"), Punct("Null")}}
    \union {<<E("\\u0074ype"), Punct("Colon"), S("fill"), Sep>>,
            Field("msg", Obj(<<>>)) \o <<Sep>>, Field("yes_dollars_fp", Arr(<<>>)) \o <<Sep>>,
            Arr(<<Arr(<<>>)>>), Arr(<<<<S("1")>>, <<Punct("True")>>>>)}
=============================================================================
