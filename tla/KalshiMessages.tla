--------------------------- MODULE KalshiMessages ---------------------------
(***************************************************************************)
(* Typed messages out of a JSON tree: parse_kalshi_message and             *)
(* parse_order_response (src/protocol/kalshi_messages.cpp).                *)
(***************************************************************************)
EXTENDS JsonParser

CONSTANTS Uint64(_),    \* std::from_chars of a whole text as uint64_t, or nullopt
          Uint32Modulus \* 2^32

Refused == [ok |-> FALSE]

member(obj, key, kind) == key \in DOMAIN obj /\ obj[key].kind = kind

get_string(obj, key) == IF member(obj, key, "text") THEN obj[key].text ELSE nullopt
get_object(obj, key) == IF member(obj, key, "object") THEN obj[key].members ELSE nullopt
get_array(obj, key) == IF member(obj, key, "array") THEN obj[key].items ELSE nullopt
get_uint64(obj, key) == IF get_string(obj, key) = nullopt THEN nullopt ELSE Uint64(get_string(obj, key))

\* static_cast<uint32_t>(n.value_or(0))
uint32(n) == IF n = nullopt THEN 0 ELSE n % Uint32Modulus

DeltaText == {"market_ticker", "market_id", "price_dollars", "delta_fp", "side", "ts"}
SnapshotText == {"market_ticker", "market_id"}
FillText == {"order_id", "market_ticker", "count_fp"}
OrderText == {"order_id", "fill_count", "remaining_count"}

\* The fields of a set, all of which must be there as text.
Has(obj, keys) == \A key \in keys : get_string(obj, key) # nullopt
Strings(obj, keys) == [key \in keys |-> get_string(obj, key)]

parse_delta(obj) ==
    IF Has(obj, DeltaText) /\ get_uint64(obj, "ts_ms") # nullopt
    THEN [ok |-> TRUE, text |-> Strings(obj, DeltaText), ts_ms |-> get_uint64(obj, "ts_ms")]
    ELSE Refused

IsLevel(item) == /\ item.kind = "array" /\ Len(item.items) = 2
                 /\ \A j \in 1 .. 2 : item.items[j].kind = "text"

\* Levels that are no array count as none.
parse_price_levels(items) ==
    IF items = nullopt THEN [ok |-> TRUE, levels |-> <<>>]
    ELSE IF \A i \in DOMAIN items : IsLevel(items[i])
    THEN [ok |-> TRUE, levels |-> [i \in DOMAIN items |-> <<items[i].items[1].text, items[i].items[2].text>>]]
    ELSE [ok |-> FALSE, levels |-> <<>>]

parse_snapshot(obj) ==
    LET yes == parse_price_levels(get_array(obj, "yes_dollars_fp"))
        no  == parse_price_levels(get_array(obj, "no_dollars_fp"))
    IN  IF Has(obj, SnapshotText) /\ yes.ok /\ no.ok
        THEN [ok |-> TRUE, text |-> Strings(obj, SnapshotText), yes |-> yes.levels, no |-> no.levels]
        ELSE Refused

parse_fill(obj) ==
    IF Has(obj, FillText) /\ get_string(obj, "action") \in {"buy", "sell"}
    THEN [ok |-> TRUE, text |-> Strings(obj, FillText), action |-> get_string(obj, "action")]
    ELSE Refused

\* make, for a payload that parsed.
Message(type, sid, seq, payload) ==
    IF payload.ok THEN [ok |-> TRUE, type |-> type, sid |-> sid, seq |-> seq, msg |-> payload] ELSE Refused

parse_kalshi_message(json) ==
    LET root == json.members
        type == get_string(root, "type")
        msg  == get_object(root, "msg")
        make(payload) == Message(type, uint32(get_uint64(root, "sid")),
                                 uint32(get_uint64(root, "seq")), payload)
    IN  CASE json.kind # "object" -> Refused
          [] json.kind = "object" /\ type = "subscribed" -> make([ok |-> TRUE])
          [] OTHER -> IF type = nullopt \/ msg = nullopt THEN Refused
                      ELSE CASE type = "orderbook_delta" -> make(parse_delta(msg))
                             [] type = "orderbook_snapshot" -> make(parse_snapshot(msg))
                             [] type = "fill" -> make(parse_fill(msg))
                             [] OTHER -> Refused

parse_order_response(json) ==
    LET root == json.members
    IN  IF json.kind = "object" /\ Has(root, OrderText) /\ get_uint64(root, "ts_ms") # nullopt
        THEN [ok |-> TRUE, text |-> Strings(root, OrderText), ts_ms |-> get_uint64(root, "ts_ms"),
              client_order_id |-> IF get_string(root, "client_order_id") = nullopt THEN ""
                                  ELSE get_string(root, "client_order_id")]
        ELSE Refused

\* parse_json(bytes).and_then(parse_kalshi_message)
tree_path(tokens) ==
    LET json == parse_json(tokens)
    IN  IF json.ok THEN parse_kalshi_message(json.value) ELSE Refused
=============================================================================
