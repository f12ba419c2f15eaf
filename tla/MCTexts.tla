-------------------------------- MODULE MCTexts --------------------------------
(***************************************************************************)
(* The readers of text, each over all inputs of a bounded size: the        *)
(* decoder of the server, the client's readers of a message's body and of  *)
(* an events file, and what it writes of a JSON value.                     *)
(***************************************************************************)
EXTENDS StompEncoderDecoder, Event, JsonSerializer, EventsFile

CONSTANTS k1, k2, v1, v2 \* keys and values of headers

VARIABLE reader

vars == <<reader, codecVars, eventVars, lexerVars, parserVars, serializerVars, fileVars>>

-----------------------------------------------------------------------------
(* Any message, then any text between, then a message; the keys with and   *)
(* without a colon of their own.                                           *)
Maps == UNION {[ks -> {v1, v2}] : ks \in SUBSET {k1, k2}}
Texts == {NoBody, <<>>, <<Word("w")>>, <<Pair(k1, v2), NL, NL, Word("w")>>, <<NL, Word("w"), NL>>}
AllMessages == [kind : {"message"}, command : {<<Word("SEND")>>}, headers : Maps, body : Texts]
FewMessages == {m \in AllMessages : m.body \in {NoBody, <<Word("w")>>}}
Exchanges == [first : AllMessages, between : {<<>>, <<NL>>, <<Word("w"), NUL>>},
                second : FewMessages]
MCKeyOf == [k \in {k2} |-> v1]

AnExchange == CHOOSE w \in Exchanges : DOMAIN w.first.headers = {} /\ DOMAIN w.second.headers = {}

(* All bodies of up to four lines, with two keys that differ in the first  *)
(* character only.                                                         *)
EventLines ==
    {<<"no colon">>, <<"user", "x">>, <<"channel name", "x">>, <<"city", "x">>,
     <<"city", "x", "y">>, <<"event name", "x">>, <<"date time", "7">>, <<"date time", "x">>,
     <<"general information", "">>, <<"\tactive", "x">>, <<" active", "y">>, <<"", "x">>,
     <<"description", "x">>}
Bodies == UNION {[1 .. n -> EventLines] : n \in 0 .. 4}
MCstoi == [v \in {"7"} |-> 7]

-----------------------------------------------------------------------------
(* The characters the scanner tells apart, and the first and last of each  *)
(* range of bytes it tests.                                                *)
MCChars == {-1, 0, 10, 31, 32, 34, 43, 45, 46, 47, 48, 49, 50, 69, 92, 93, 97, 101, 108, 110, 117,
            127, 128, 143, 144, 159, 160, 187, 191, 193, 194, 224, 237, 239, 240, 244, 245}

(* 007F 0080 07ff 0800 D7FF D800 DBFF DC00 dfff E000 FFFF 000G             *)
MCQuads == {<<48, 48, 55, 70>>, <<48, 48, 56, 48>>, <<48, 55, 102, 102>>, <<48, 56, 48, 48>>,
            <<68, 55, 70, 70>>, <<68, 56, 48, 48>>, <<68, 66, 70, 70>>, <<68, 67, 48, 48>>,
            <<100, 102, 102, 102>>, <<69, 48, 48, 48>>, <<70, 70, 70, 70>>, <<48, 48, 48, 71>>}

(* Bytes of every class, and the ends of what is escaped.                  *)
MCBytes == {8, 31, 34, 65, 92, 127, 128, 143, 144, 159, 160, 191, 193, 194, 224, 225, 237, 240, 241,
            244, 245}

(* Integers of 1 to 6 digits, the least and the greatest among them.       *)
MCIntegers == -1001 .. 1001 \cup {9999, 10000, 99999, 100000, 199999, -9999, -10000, -99999, -100000}

(* Two strings, a number, and one that strtod cannot represent.            *)
A(type, value) == [type |-> type, value |-> value]
MCStrings == {A("value_string", "a"), A("value_string", "b")}
MCScalars == MCStrings \cup {A("value_unsigned", 1), [type |-> "overflow"]}

-----------------------------------------------------------------------------
(* Files of up to two events: every mixture of dates and general           *)
(* information, an event that lacks one of its members, or is none.        *)
Object(members) == [type |-> "object", members |-> members]
Array(items)    == [type |-> "array", items |-> items]
Empty == Object([k \in {} |-> NullValue])
Infos == {Object(("k1" :> A("string", "v")) @@ ("k2" :> A("boolean", TRUE))), A("string", "v"),
          Array(<<A("number", 1), A("string", "v")>>), NullValue}
Dates == {A("number", n) : n \in {0, 1, -2, -3, 2, 7}} \cup {A("float", n) : n \in {1, 3}}
         \cup {A("string", "23/12/24 19:00"), A("boolean", TRUE), NullValue}
Members(date, info) ==
    ("event_name" :> A("string", "n")) @@ ("city" :> A("string", "c"))
    @@ ("description" :> A("string", "d")) @@ ("date_time" :> date)
    @@ ("general_information" :> info)
Lacking(key) == LET all == Members(A("number", 1), Empty)
                IN  Object([k \in DOMAIN all \ {key} |-> all[k]])
SomeEvents == {Object(Members(d, i)) : d \in Dates, i \in Infos}
              \cup {Lacking(k) : k \in DOMAIN Members(NullValue, NullValue)}
              \cup {NullValue, A("string", "n"), Array(<<>>)}
Files == {Object(("channel_name" :> c) @@ ("events" :> es)) :
            c \in {A("string", "police"), A("number", 1)},
            es \in {Array(<<e>>) : e \in SomeEvents} \cup {Array(<<e, f>>) : e, f \in SomeEvents}
                   \cup {Object("k1" :> e) : e \in SomeEvents}
                   \cup {Array(<<>>), NullValue, A("string", "x")}}
         \cup {Object("channel_name" :> A("string", "police")), Empty, NullValue, A("number", 1)}
FileValues == Files \cup SomeEvents \cup Infos \cup Dates
              \cup {Object("k1" :> e) : e \in SomeEvents} \cup {Array(<<e>>) : e \in SomeEvents}
              \cup {Array(<<e, f>>) : e, f \in SomeEvents}
              \cup {Empty, Array(<<>>), A("number", 1)}
              \cup {A("string", x) : x \in {"police", "x", "n", "c", "d", "v"}}

ASSUME FilesAreValues == Values(FileValues)
MCKeyOrder == <<"channel_name", "city", "date_time", "description", "event_name", "events",
                "general_information", "k1", "k2">>

-----------------------------------------------------------------------------
(* One reader at a time; the others do not start.                          *)
Init ==
    /\ reader \in {"decoder", "event", "lexer", "parser", "serializer", "file"}
    /\ \E w \in IF reader = "decoder" THEN Exchanges ELSE {AnExchange} : CodecStart(w)
    /\ \E b \in IF reader = "event" THEN Bodies ELSE {<<>>} : EventStart(b)
    /\ LexerInit /\ (reader # "lexer" => scanner = "scan")
    /\ ParserInit
    /\ SerializerInit
    /\ \E f \in IF reader = "file" THEN Files ELSE {NullValue} : FileStart(f)

Next ==
    /\ UNCHANGED reader
    /\ \/ /\ reader = "decoder" /\ DecodeNextByte
          /\ UNCHANGED <<eventVars, lexerVars, parserVars, serializerVars, fileVars>>
       \/ /\ reader = "event" /\ EventNext
          /\ UNCHANGED <<codecVars, lexerVars, parserVars, serializerVars, fileVars>>
       \/ /\ reader = "lexer" /\ LexerNext
          /\ UNCHANGED <<codecVars, eventVars, parserVars, serializerVars, fileVars>>
       \/ /\ reader = "parser" /\ ParserNext
          /\ UNCHANGED <<codecVars, eventVars, lexerVars, serializerVars, fileVars>>
       \/ /\ reader = "serializer"
          /\ (SerializerNext /\ UNCHANGED lexerVars) \/ ReadAgain
          /\ UNCHANGED <<codecVars, eventVars, parserVars, fileVars>>
       \/ /\ reader = "file" /\ FileNext
          /\ UNCHANGED <<codecVars, eventVars, lexerVars, parserVars, serializerVars>>

Spec == Init /\ [][Next]_vars

================================================================================
