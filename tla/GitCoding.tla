----------------------------- MODULE GitCoding -----------------------------
(***************************************************************************)
(* How a protocol message becomes MessagePack and back                     *)
(* (tools/agent/src/git/msgpack.rs, codec_fields.rs): a positional          *)
(* envelope, maps with numbered fields, and byte strings for the text the   *)
(* application holds in base64.  Nothing in the bytes says which mode a     *)
(* value was written in: both sides derive it from the key or the column    *)
(* that leads to it.  A value is a pair of its type and what it holds.      *)
(***************************************************************************)
EXTENDS Naturals, Sequences, FiniteSets, SequencesExt

CONSTANTS MaxDepth,    \* values nested deeper are refused (32 in the code)
          WireRows     \* how many values one array of an instance may hold

VARIABLES message, frame, decoded
codingVars == <<message, frame, decoded>>

Refused == <<"refused">>

\* codec_fields.rs: the keys that have a number; any other key is sent by name.
FieldId == [id |-> 1, bytesB64 |-> 14, lines |-> 114]
FieldName(n) == CHOOSE key \in DOMAIN FieldId : FieldId[key] = n
OtherKey == "extension"
Keys == DOMAIN FieldId \cup {OtherKey}
WireKey(key) == IF key \in DOMAIN FieldId THEN <<"int", FieldId[key]>> ELSE <<"str", key>>
KeyOf(wire) == IF wire[1] = "int" THEN FieldName(wire[2]) ELSE wire[2]

\* Mode::field and Mode::item: bytes are expected under a key named for them,
\* and in column 7 of a row of a difference's lines.
FieldMode(key) == CASE key = "bytesB64" -> "binary" [] key = "lines" -> "lines" [] OTHER -> "normal"
ItemMode(mode, index) ==
    IF mode = "lines" THEN "line" ELSE IF mode = "line" /\ index = 7 THEN "binary" ELSE "normal"

AnyRefused(values) == \E i \in DOMAIN values : values[i] = Refused

\* BodyRef::serialize.  Text is "base64", canonical as the strict decoder
\* demands, or "text".
RECURSIVE Encode(_, _, _)
Encode(v, mode, depth) ==
    IF depth > MaxDepth THEN Refused
    ELSE CASE v[1] \in {"null", "number"} -> v
           [] v[1] = "base64" -> <<IF mode = "binary" THEN "bytes" ELSE "str", v[2]>>
           [] v[1] = "text" -> IF mode = "binary" THEN Refused ELSE <<"str", v[2]>>
           [] v[1] = "array" ->
                LET items == [i \in DOMAIN v[2] |-> Encode(v[2][i], ItemMode(mode, i - 1), depth + 1)]
                IN IF AnyRefused(items) THEN Refused ELSE <<"array", items>>
           [] v[1] = "object" ->
                LET fields == [key \in DOMAIN v[2] |-> Encode(v[2][key], FieldMode(key), depth + 1)]
                IN IF AnyRefused(fields) THEN Refused
                   ELSE <<"map", {<<WireKey(key), fields[key]>> : key \in DOMAIN fields}>>

\* The application's text of a string that came as it is, or as bytes.
TextOf(s) == IF s = "Zm9v" THEN <<"base64", s>> ELSE <<"text", s>>

\* Mutant: the reader refuses the deepest value the writer sends.
DepthRefusedEarly(depth) == depth >= MaxDepth
DepthRefused(depth) == depth > MaxDepth
\* BodySeed: bytes outside a byte field, a field twice and a value nested too
\* deep are refused.
RECURSIVE Decode(_, _, _)
Decode(w, mode, depth) ==
    IF DepthRefused(depth) THEN Refused
    ELSE CASE w[1] \in {"null", "number"} -> w
           [] w[1] = "str" -> TextOf(w[2])
           [] w[1] = "bytes" -> IF mode = "binary" THEN <<"base64", w[2]>> ELSE Refused
           [] w[1] = "array" ->
                LET items == [i \in DOMAIN w[2] |-> Decode(w[2][i], ItemMode(mode, i - 1), depth + 1)]
                IN IF AnyRefused(items) THEN Refused ELSE <<"array", items>>
           [] w[1] = "map" ->
                LET keys == {KeyOf(f[1]) : f \in w[2]}
                    fields == [key \in keys |->
                        Decode((CHOOSE f \in w[2] : KeyOf(f[1]) = key)[2], FieldMode(key), depth + 1)]
                IN IF Cardinality(keys) # Cardinality(w[2]) \/ AnyRefused(fields) THEN Refused
                   ELSE <<"object", fields>>

-----------------------------------------------------------------------------
(* The envelope: a tag and the message's fields by position.  A "body" is   *)
(* coded as above, everything else as it is.                                *)

Envelope == [hello |-> <<"plain", "plain", "plain", "body">>,
             initialize |-> <<"plain", "plain", "plain", "plain", "plain">>,
             ready |-> <<"plain", "plain", "body">>,
             request |-> <<"plain", "plain", "body">>,
             result |-> <<"plain", "body">>, error |-> <<"plain", "plain">>,
             log |-> <<"plain", "plain">>, ping |-> <<"plain">>, pong |-> <<"plain">>,
             begin |-> <<"plain", "plain", "plain">>,
             chunk |-> <<"plain", "plain", "plain", "plain">>, ack |-> <<"plain", "plain">>]
Tags == <<"hello", "initialize", "ready", "request", "result", "error", "log", "ping", "pong",
          "begin", "chunk", "ack">>
TagOf(type) == CHOOSE n \in 0..11 : Tags[n + 1] = type

Fields(body, type) ==
    [i \in DOMAIN Envelope[type] |-> IF Envelope[type][i] = "body" THEN body ELSE <<"number", i>>]

EncodeMessage(m) ==
    LET fields == [i \in DOMAIN m.fields |-> IF Envelope[m.type][i] = "body"
                                            THEN Encode(m.fields[i], "normal", 0) ELSE m.fields[i]]
    IN IF AnyRefused(fields) THEN Refused ELSE <<TagOf(m.type)>> \o fields

DecodeMessage(f) ==
    IF f = Refused \/ f[1] \notin 0..11 THEN Refused
    ELSE LET type == Tags[f[1] + 1]
             rest == Tail(f)
             fields == [i \in DOMAIN rest |-> IF Envelope[type][i] = "body"
                                              THEN Decode(rest[i], "normal", 0) ELSE rest[i]]
         IN IF Len(rest) # Len(Envelope[type]) \/ AnyRefused(fields) THEN Refused
            ELSE [type |-> type, fields |-> fields]

-----------------------------------------------------------------------------
(* The bodies of an instance: every value of three levels, wrapped deeper,  *)
(* and the rows of a difference's lines.                                    *)

Leaves == {<<"null", 0>>, <<"number", 7>>, <<"text", "+">>, <<"base64", "Zm9v">>}
Over(values) ==
    values \cup {<<"array", items>> : items \in BoundedSeq(values, WireRows)}
           \cup {<<"object", fields>> : fields \in UNION {[{key} -> values] : key \in Keys}}
Wrapped(v) == <<"array", <<v>> >>

\* A row: its place, whether it is complete, its origin, its numbers, its content
\* and, in a working difference, its id: a hash in hexadecimal or nothing.
LineRow(last) == <<"array", <<<<"number", 0>>, <<"number", 0>>, <<"number", 1>>, <<"text", "+">>,
                          <<"null", 0>>, <<"number", 7>>, <<"base64", "Zm9v">>>> \o last>>
LineRows == {LineRow(last) : last \in {<<>>, << <<"null", 0>> >>, << <<"base64", "Zm9v">> >>, << <<"text", "+">> >>}}
Bodies ==
    LET three == Over(Over(Leaves))
    IN three \cup {Wrapped(v) : v \in three} \cup {Wrapped(Wrapped(v)) : v \in three}
       \cup {<<"object", [lines |-> <<"array", <<row>> >>]>> : row \in LineRows}

CodingInit ==
    /\ message \in {[type |-> type, fields |-> Fields(<<"null", 0>>, type)] : type \in DOMAIN Envelope}
                   \cup {[type |-> "result", fields |-> Fields(body, "result")] : body \in Bodies}
    /\ frame = <<>> /\ decoded = Refused

Transmit ==
    /\ frame = <<>>
    /\ frame' = EncodeMessage(message)
    /\ decoded' = DecodeMessage(EncodeMessage(message))
    /\ UNCHANGED message
CodingAgain == frame # <<>> /\ UNCHANGED codingVars
CodingNext == Transmit \/ CodingAgain

-----------------------------------------------------------------------------
\* What a body has to be for the wire: no deeper than the limit, and base64
\* wherever the code expects bytes (the key's name, or column 7 of a line).
RECURSIVE Sendable(_, _, _)
Sendable(v, mode, room) ==
    /\ room >= 0 /\ ~(v[1] = "text" /\ mode = "binary")
    /\ v[1] = "array" => \A i \in DOMAIN v[2] : Sendable(v[2][i], ItemMode(mode, i - 1), room - 1)
    /\ v[1] = "object" => \A key \in DOMAIN v[2] : Sendable(v[2][key], FieldMode(key), room - 1)

\* Every message whose body fits arrives as it was sent, and no other leaves:
\* the modes both sides derive agree, the numbers of the fields and the tags of
\* the messages name one thing each, and what the writer accepts the reader
\* accepts (msgpack.rs).
CodingExact ==
    frame # <<>> =>
        IF \A i \in DOMAIN message.fields :
               Envelope[message.type][i] = "body" => Sendable(message.fields[i], "normal", MaxDepth)
        THEN decoded = message
        ELSE frame = Refused
=============================================================================
