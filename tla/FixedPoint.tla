----------------------------- MODULE FixedPoint -----------------------------
(***************************************************************************)
(* Decimal strings as integers (include/fixed_point.hpp) and prices as     *)
(* decimal strings (include/market_state.hpp).                             *)
(***************************************************************************)
EXTENDS Integers, Sequences

CONSTANTS MaxInt,     \* INT64_MAX
          NoNumber    \* std::nullopt

\* Where parse_fixed stands after some of the characters.
Start == [ok |-> TRUE, value |-> 0, digits |-> 0, frac_digits |-> 0, seen_point |-> FALSE]
Reject == [Start EXCEPT !.ok = FALSE]

\* Faulty variant: superfluous digits are dropped instead of rejected.
StepTruncating(st, c, scale) ==
    IF c = 46 THEN IF st.seen_point THEN Reject ELSE [st EXCEPT !.seen_point = TRUE]
    ELSE IF c \notin 48 .. 57 THEN Reject
    ELSE IF st.seen_point /\ st.frac_digits = scale THEN [st EXCEPT !.digits = @ + 1]
    ELSE IF st.value > (MaxInt - (c - 48)) \div 10 THEN Reject
    ELSE [st EXCEPT !.value = @ * 10 + (c - 48), !.digits = @ + 1,
                    !.frac_digits = IF st.seen_point THEN @ + 1 ELSE @]

\* One round of its loop.
Step(st, c, scale) ==
    IF c = 46 THEN IF st.seen_point THEN Reject ELSE [st EXCEPT !.seen_point = TRUE]
    ELSE IF c \notin 48 .. 57 THEN Reject
    ELSE IF st.seen_point /\ st.frac_digits = scale
         THEN IF c = 48 THEN [st EXCEPT !.digits = @ + 1] ELSE Reject
    ELSE IF st.value > (MaxInt - (c - 48)) \div 10 THEN Reject
    ELSE [st EXCEPT !.value = @ * 10 + (c - 48), !.digits = @ + 1,
                    !.frac_digits = IF st.seen_point THEN @ + 1 ELSE @]

\* The loop that supplies the missing fraction digits.
ScaleUp(value, n) ==
    IF \E k \in 0 .. n - 1 : value * 10 ^ k > MaxInt \div 10 THEN NoNumber ELSE value * 10 ^ n

parse_fixed(s, scale) ==
    LET negative == s # <<>> /\ s[1] = 45
        RECURSIVE Run(_, _)
        Run(i, st) == IF i > Len(s) \/ ~st.ok THEN st ELSE Run(i + 1, Step(st, s[i], scale))
        end == Run(IF negative THEN 2 ELSE 1, Start)
        value == ScaleUp(end.value, scale - end.frac_digits)
    IN  IF ~end.ok \/ end.digits = 0 \/ value = NoNumber THEN NoNumber
        ELSE IF negative THEN -value ELSE value

\* Faulty variant: the fraction is not padded with zeroes.
price_to_dollarsUnpadded(price) ==
    LET digit(n) == 48 + (n % 10)
    IN  <<48 + price \div 1000, 46>> \o (IF price % 1000 < 10 THEN <<digit(price)>>
                                         ELSE <<digit(price \div 100), digit(price \div 10), digit(price)>>)

\* "{}.{:03}0" of the dollars and the thousandths.
price_to_dollars(price) ==
    LET digit(n) == 48 + (n % 10)
    IN  <<48 + price \div 1000, 46,
          digit(price \div 100), digit(price \div 10), digit(price), 48>>
=============================================================================
