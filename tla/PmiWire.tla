------------------------------ MODULE PmiWire -------------------------------
(***************************************************************************)
(* The text that PMI clients exchange with the process manager.  PMI-2     *)
(* writes key=value; pairs, a semicolon of a value doubled, and allocates  *)
(* its table of pairs from a first pass that only counts them              *)
(* (pmi2_api.c).  PMI-1 separates pairs by blanks and escapes nothing      *)
(* (simple_pmiutil.c), which LCI's bootstrap satisfies by publishing       *)
(* addresses as hexadecimal digits (bootstrap.cpp).  Strings are sequences *)
(* of characters.                                                          *)
(***************************************************************************)
EXTENDS Integers, SequencesExt

CONSTANTS
    Chars,     \* the characters of values
    MaxLen,    \* bound on the length of a value
    MaxPairs   \* bound on the pairs of a message

-----------------------------------------------------------------------------
Escape(v) == FlattenSeq([i \in DOMAIN v |-> IF v[i] = ";" THEN <<";", ";">> ELSE <<v[i]>>])

\* The command, without its length and its first pair.
PMIi_WriteSimpleCommand(pairs) ==
    FlattenSeq([i \in DOMAIN pairs |-> pairs[i].key \o <<"=">> \o Escape(pairs[i].val) \o <<";">>])

\* The character at i; the buffer ends in a null.
At(s, i) == IF i <= Len(s) THEN s[i] ELSE "null"

\* num_pairs, counted from position i; what no semicolon ends is counted, too.
RECURSIVE CountPairs(_, _)
CountPairs(s, i) ==
    IF i > Len(s) THEN 0
    ELSE LET k == Min({j \in i..(Len(s) + 1) : At(s, j) \in {";", "null"}}) IN
         IF At(s, k) = ";" /\ At(s, k + 1) = ";" THEN CountPairs(s, k + 2)
         ELSE 1 + CountPairs(s, k + 1)

\* The value from position i on, what follows it, and whether it was ended.
RECURSIVE ParseValue(_, _, _)
ParseValue(s, i, val) ==
    IF i > Len(s) THEN [ok |-> FALSE, val |-> val, next |-> i]
    ELSE IF s[i] = ";" /\ At(s, i + 1) # ";" THEN [ok |-> TRUE, val |-> val, next |-> i + 1]
    ELSE IF s[i] = ";" THEN ParseValue(s, i + 2, Append(val, ";"))
    ELSE ParseValue(s, i + 1, Append(val, s[i]))

\* parse_keyval and create_keyval, over and over; a pair without "=" is an error.
RECURSIVE parse_keyvals(_, _)
parse_keyvals(s, i) ==
    IF i > Len(s) THEN <<>>
    ELSE LET eqs == {j \in i..Len(s) : s[j] = "="} IN
         IF eqs = {} THEN <<"bad_keyval">>
         ELSE LET eq == CHOOSE j \in eqs : \A k \in eqs : j <= k
                  v == ParseValue(s, eq + 1, <<>>) IN
              IF ~v.ok THEN <<"bad_keyval">>
              ELSE <<[key |-> SubSeq(s, i, eq - 1), val |-> v.val]>> \o parse_keyvals(s, v.next)

\* getval: the first pair with the key.
getval(pairs, key) ==
    LET at == {i \in DOMAIN pairs : pairs[i].key = key} IN
    IF at = {} THEN {} ELSE {pairs[CHOOSE i \in at : \A j \in at : i <= j].val}

-----------------------------------------------------------------------------
\* A PMI-1 line of one pair after its command.
PMI1_Line(key, val) == key \o <<"=">> \o val \o <<"newline">>

\* PMIU_parse_keyvals: the pairs from position i on; an error ends them.
RECURSIVE PMIU_parse_keyvals(_, _)
PMIU_parse_keyvals(s, i) ==
    LET ends(j, stops) == CHOOSE k \in j..(Len(s) + 1) :
            At(s, k) \in stops /\ \A l \in j..(k - 1) : At(s, l) \notin stops IN
    IF At(s, i) = " " THEN PMIU_parse_keyvals(s, i + 1)
    ELSE IF At(s, i) \in {"newline", "null"} THEN <<>>
    ELSE LET e == ends(i, {" ", "=", "newline", "null"}) IN
         IF At(s, i) = "=" \/ At(s, e) # "=" THEN <<"error">>
         ELSE LET f == ends(e + 1, {" ", "newline", "null"}) IN
              <<[key |-> SubSeq(s, i, e - 1), val |-> SubSeq(s, e + 1, f - 1)]>>
                  \o PMIU_parse_keyvals(s, f)

HEX_CHARS == <<"0", "1", "2", "3", "4", "5", "6", "7", "8", "9", "a", "b", "c", "d", "e", "f">>
hexCharToValue(c) == (CHOOSE d \in 0..15 : HEX_CHARS[d + 1] = c)

encode_value(bytes) ==
    FlattenSeq([i \in DOMAIN bytes |-> <<HEX_CHARS[((bytes[i] \div 16) % 16) + 1],
                                         HEX_CHARS[(bytes[i] % 16) + 1]>>])
decode_value(s, nbytes) ==
    [i \in 1..nbytes |-> 16 * hexCharToValue(s[2 * i - 1]) + hexCharToValue(s[2 * i])]

-----------------------------------------------------------------------------
Strings == UNION {[1..n -> Chars] : n \in 0..MaxLen}
KeyOf(i) == <<"k", ToString(i)>>

\* The messages to check: keys all different, any values.
Messages ==
    {[i \in DOMAIN vals |-> [key |-> KeyOf(i), val |-> vals[i]]] :
        vals \in UNION {[1..n -> Strings] : n \in 0..MaxPairs}}

\* What PMIi_ReadCommand parses is what PMIi_WriteSimpleCommand was given, whatever
\* semicolons the values hold and wherever, and every key finds its value.
RoundTrip(pairs) ==
    LET s == PMIi_WriteSimpleCommand(pairs) IN
    /\ parse_keyvals(s, 1) = pairs
    /\ \A i \in DOMAIN pairs : getval(parse_keyvals(s, 1), pairs[i].key) = {pairs[i].val}

\* The table that PMIi_ReadCommand allocates has room for exactly the pairs it
\* then stores.
TableFits(pairs) == CountPairs(PMIi_WriteSimpleCommand(pairs), 1) = Len(pairs)

\* An address survives the bootstrap over PMI-1: encoded, published on a line,
\* parsed and decoded.
AddressSurvives(bytes) ==
    LET line == PMIU_parse_keyvals(PMI1_Line(<<"value">>, encode_value(bytes)), 1) IN
    bytes # <<>> => decode_value(line[1].val, Len(bytes)) = bytes
=============================================================================
