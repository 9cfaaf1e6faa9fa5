---------------------------- MODULE UrlEncoding ----------------------------
(***************************************************************************)
(* What leaves in a URL or a form (url_encoding.cpp) and what comes back   *)
(* in the target of the loopback callback (loopback_authorization_server   *)
(* .cpp): percent_encode and form_encode on one side, parse_query and      *)
(* decode_query_value on the other, over bytes.                            *)
(***************************************************************************)
EXTENDS Naturals, Sequences, SequencesExt

Space == 32
Hash == 35
Percent == 37
Ampersand == 38
Plus == 43
Slash == 47
Equals == 61
Question == 63

\* "code", "state" and "error", in bytes.
Code == <<99, 111, 100, 101>>
State == <<115, 116, 97, 116, 101>>
Error == <<101, 114, 114, 111, 114>>

\* Mutant: a plus is left as it is.
is_unreserved_Plus(byte) ==
    \/ byte \in 65..90 \/ byte \in 97..122 \/ byte \in 48..57
    \/ byte \in {43, 45, 46, 95, 126}

is_unreserved(byte) ==
    \/ byte \in 65..90 \/ byte \in 97..122 \/ byte \in 48..57
    \/ byte \in {45, 46, 95, 126}

HexDigit(n) == IF n < 10 THEN 48 + n ELSE 55 + n

percent_encode(value) ==
    FlattenSeq([i \in DOMAIN value |->
        IF is_unreserved(value[i]) THEN <<value[i]>>
        ELSE <<Percent, HexDigit(value[i] \div 16), HexDigit(value[i] % 16)>>])

form_encode(fields) ==
    FlattenSeq([i \in DOMAIN fields |->
        (IF i = 1 THEN << >> ELSE <<Ampersand>>)
            \o percent_encode(fields[i].name) \o <<Equals>> \o percent_encode(fields[i].value)])

-----------------------------------------------------------------------------

IsHex(byte) == byte \in 48..57 \/ byte \in 65..70 \/ byte \in 97..102

hex_value(byte) ==
    IF byte \in 48..57 THEN byte - 48
    ELSE IF byte \in 65..70 THEN byte - 55 ELSE byte - 87

\* Is there an escape at position i?  Both its digits must be inside the value.
EscapeAt(value, i) ==
    /\ value[i] = Percent
    /\ i + 2 <= Len(value)
    /\ IsHex(value[i + 1]) /\ IsHex(value[i + 2])

\* The bytes from position i on; what is no escape stands for itself.
decode_query_value(value) ==
    LET from[i \in 1..(Len(value) + 3)] ==
            IF i > Len(value) THEN << >>
            ELSE IF value[i] = Plus THEN <<Space>> \o from[i + 1]
            ELSE IF EscapeAt(value, i)
                 THEN <<16 * hex_value(value[i + 1]) + hex_value(value[i + 2])>> \o from[i + 3]
                 ELSE <<value[i]>> \o from[i + 1]
    IN  from[1]

Before(text, at) == IF at = 0 THEN text ELSE SubSeq(text, 1, at - 1)
After(text, at) == IF at = 0 THEN << >> ELSE SubSeq(text, at + 1, Len(text))

\* What a piece of a query stands for; one without '=' is dropped.
FieldOf(piece) ==
    LET equals == SelectInSeq(piece, LAMBDA b : b = Equals)
    IN  IF equals = 0 THEN << >>
        ELSE <<[name |-> decode_query_value(Before(piece, equals)),
                value |-> decode_query_value(After(piece, equals))]>>

\* The fields of a query, those of its last n bytes at a time.
QueryFields(query) ==
    LET last[n \in 0..Len(query)] ==
            IF n = 0 THEN << >>
            ELSE LET rest == SubSeq(query, Len(query) - n + 1, Len(query))
                     separator == SelectInSeq(rest, LAMBDA b : b = Ampersand)
                 IN  FieldOf(Before(rest, separator))
                         \o last[IF separator = 0 THEN 0 ELSE n - separator]
    IN  last[Len(query)]

\* Mutant: a fragment is taken for a part of the query.
parse_query_Fragment(target) ==
    QueryFields(After(target, SelectInSeq(target, LAMBDA b : b = Question)))

parse_query(target) ==
    LET query == After(target, SelectInSeq(target, LAMBDA b : b = Question))
    IN  QueryFields(Before(query, SelectInSeq(query, LAMBDA b : b = Hash)))

\* Of several fields with one name the last counts.
LastValue(fields, name) ==
    LET i == SelectLastInSeq(fields, LAMBDA f : f.name = name)
    IN  IF i = 0 THEN << >> ELSE fields[i].value

callback_from_target(target) ==
    LET fields == parse_query(target)
    IN  [code |-> LastValue(fields, Code), state |-> LastValue(fields, State),
         error |-> LastValue(fields, Error)]
=============================================================================
