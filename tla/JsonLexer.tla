------------------------------- MODULE JsonLexer -------------------------------
(***************************************************************************)
(* The scanner the client reads its event files with: the lexer of         *)
(* include/json.hpp, from one call of scan() to the token it returns.      *)
(*                                                                         *)
(* A character is its byte, and -1 the end of the input.  A string's text  *)
(* is kept in units, its opening quote and then one for each character it  *)
(* stands for; the four digits of a \u escape are read in one step.        *)
(***************************************************************************)
EXTENDS Integers, Sequences, SequencesExt

CONSTANTS Chars,     \* the characters the input may hold
          Quads,     \* what may follow \u, as four characters
          ULLMax,    \* what strtoull and strtoll convert
          LLMax,
          MaxString, \* a string of so many bytes gets no further character
          MaxNumber  \* bound on the characters of a number

ASSUME LexerAssumption ==
    /\ Chars \subseteq -1 .. 255 /\ Quads \subseteq [1 .. 4 -> 0 .. 255]
    /\ ULLMax \in Nat /\ LLMax \in Nat /\ MaxString \in Nat /\ MaxNumber \in Nat

VARIABLES scanner,      \* where scan() is
          read,         \* the text of the token: its units
          number_type,
          token_buffer,
          ranges,       \* what next_byte_in_range has still to read
          codepoint1,   \* a high surrogate that waits for a low one
          ungot,        \* the character that was put back
          token         \* what scan() has returned

lexerVars == <<scanner, read, number_type, token_buffer, ranges, codepoint1, ungot, token>>

Eof == -1
Unscanned == [type |-> "uninitialized"]
Error     == [type |-> "parse_error"]

(* The first call of scan() looks for a byte order mark.                   *)
LexerInit ==
    /\ scanner \in {"bom", "scan"}
    /\ read = <<>>
    /\ number_type = "value_unsigned"
    /\ token_buffer = <<>>
    /\ ranges = <<>>
    /\ codepoint1 = 0
    /\ ungot = {}
    /\ token = Unscanned

Quote     == 34
Plus      == 43
Minus     == 45
Dot       == 46
Solidus   == 47
Backslash == 92
LetterU   == 117
ByteOrderMark == <<239, 187, 191>>
Zero    == {48}
NonZero == 49 .. 57
Digits  == 48 .. 57
LetterE == {69, 101}
Space   == {32, 9, 10, 13}

(* What the one-letter escapes stand for.                                  *)
Escapes == [c \in {Quote, Backslash, Solidus, 98, 102, 110, 114, 116} |->
              CASE c = 98  -> 8
                [] c = 102 -> 12
                [] c = 110 -> 10
                [] c = 114 -> 13
                [] c = 116 -> 9
                [] c \in {Quote, Backslash, Solidus} -> c]

Structural == [c \in {91, 93, 123, 125, 58, 44} |->
                 CASE c = 91  -> "begin_array"
                   [] c = 93  -> "end_array"
                   [] c = 123 -> "begin_object"
                   [] c = 125 -> "end_object"
                   [] c = 58  -> "name_separator"
                   [] c = 44  -> "value_separator"]

(* true, false and null, by their first letter.                            *)
Literals == [c \in {116, 102, 110} |->
               CASE c = 116 -> [type |-> "literal_true",  text |-> <<116, 114, 117, 101>>]
                 [] c = 102 -> [type |-> "literal_false", text |-> <<102, 97, 108, 115, 101>>]
                 [] c = 110 -> [type |-> "literal_null",  text |-> <<110, 117, 108, 108>>]]

Return(t) == token' = t /\ scanner' = "scanned"

(* The character joins the unit being read, or starts one.                 *)
Joins(c) == read' = [read EXCEPT ![Len(read)] = Append(@, c)]
Starts(c) == read' = Append(read, <<c>>)

-----------------------------------------------------------------------------
(* skip_bom: a text may start with the mark, or with none of its bytes.    *)
SkipBom(c) ==
    /\ \/ scanner = "bom" /\ c = ByteOrderMark[1] /\ scanner' = "bom 2" /\ UNCHANGED token
       \/ scanner = "bom 2" /\ c = ByteOrderMark[2] /\ scanner' = "bom 3" /\ UNCHANGED token
       \/ scanner = "bom 3" /\ c = ByteOrderMark[3] /\ scanner' = "scan" /\ UNCHANGED token
       \/ scanner = "bom 2" /\ c # ByteOrderMark[2] /\ Return(Error)
       \/ scanner = "bom 3" /\ c # ByteOrderMark[3] /\ Return(Error)
    /\ UNCHANGED <<read, number_type, token_buffer, ranges, codepoint1, ungot>>

(* scan: white space is passed over, then the first character decides.     *)
Dispatch(c) ==
    /\ scanner = "scan" \/ (scanner = "bom" /\ c # ByteOrderMark[1])
    /\ \/ /\ c \in Space /\ scanner' = "scan"
          /\ UNCHANGED <<read, number_type, token_buffer, token>>
       \/ /\ c \in DOMAIN Structural
          /\ Return([type |-> Structural[c]])
          /\ UNCHANGED <<read, number_type, token_buffer>>
       \/ /\ c \in DOMAIN Literals \/ c = Quote
          /\ scanner' = IF c = Quote THEN "string" ELSE "literal"
          /\ Starts(c)
          /\ UNCHANGED <<number_type, token_buffer, token>>
       \/ /\ c = Minus \/ c \in Digits
          /\ scanner' = IF c = Minus THEN "minus" ELSE IF c \in Zero THEN "zero" ELSE "any1"
          /\ number_type' = IF c = Minus THEN "value_integer" ELSE "value_unsigned"
          /\ token_buffer' = <<c>>
          /\ Starts(c)
          /\ UNCHANGED token
       \/ /\ c \in {0, Eof}
          /\ Return([type |-> "end_of_input"])
          /\ UNCHANGED <<read, number_type, token_buffer>>
       \/ /\ c \notin Space \cup DOMAIN Structural \cup DOMAIN Literals \cup Digits
                        \cup {Quote, Minus, 0, Eof}
          /\ Return(Error)
          /\ UNCHANGED <<read, number_type, token_buffer>>
    /\ UNCHANGED <<ranges, codepoint1, ungot>>

(* scan_literal.                                                           *)
LiteralChar(c) ==
    /\ scanner = "literal"
    /\ LET literal == Literals[read[1][1]]
           n == Len(read[1]) + 1
       IN  \/ /\ c = literal.text[n] /\ n < Len(literal.text)
              /\ UNCHANGED <<scanner, token>>
           \/ c = literal.text[n] /\ n = Len(literal.text) /\ Return([type |-> literal.type])
           \/ c # literal.text[n] /\ Return(Error)
    /\ Joins(c)
    /\ UNCHANGED <<number_type, token_buffer, ranges, codepoint1, ungot>>

-----------------------------------------------------------------------------
(* scan_number: its labels and gotos.                                      *)

(* Mutant: a zero may be followed by digits.                               *)
IntegerGotosLeadingZero == {
    <<"minus", Digits, "any1">>,
    <<"zero", {Dot}, "decimal1">>, <<"zero", LetterE, "exponent">>, <<"zero", Digits, "any1">>,
    <<"any1", Digits, "any1">>, <<"any1", {Dot}, "decimal1">>, <<"any1", LetterE, "exponent">>}

IntegerGotos == {
    <<"minus", Zero, "zero">>, <<"minus", NonZero, "any1">>,
    <<"zero", {Dot}, "decimal1">>, <<"zero", LetterE, "exponent">>,
    <<"any1", Digits, "any1">>, <<"any1", {Dot}, "decimal1">>, <<"any1", LetterE, "exponent">>}

FractionGotos == {
    <<"decimal1", Digits, "decimal2">>,
    <<"decimal2", Digits, "decimal2">>, <<"decimal2", LetterE, "exponent">>}

ExponentGotos == {
    <<"exponent", {Plus, Minus}, "sign">>, <<"exponent", Digits, "any2">>,
    <<"sign", Digits, "any2">>, <<"any2", Digits, "any2">>}

Gotos == IntegerGotos \cup FractionGotos \cup ExponentGotos
NumberLabels == {g[1] : g \in Gotos}
ToDone == {"zero", "any1", "decimal2", "any2"}

NumberChar(c) ==
    /\ scanner \in NumberLabels
    /\ \E g \in Gotos :
         /\ g[1] = scanner /\ c \in g[2]
         /\ scanner' = g[3]
         /\ number_type' = IF g[3] \in {"decimal1", "exponent"} THEN "value_float" ELSE number_type
    /\ Joins(c)
    /\ token_buffer' = Append(token_buffer, c)
    /\ UNCHANGED <<ranges, codepoint1, ungot, token>>

(* The number that digits, after a sign or none, are read as.              *)
DecimalValue(t) ==
    LET value[n \in 0 .. Len(t)] ==
          IF n = 0 THEN 0
          ELSE IF t[n] = Minus THEN value[n - 1] ELSE 10 * value[n - 1] + (t[n] - 48)
    IN  value[Len(t)]

(* What the buffer is converted to: an integer that strtoull, or strtoll,  *)
(* cannot represent becomes a float.                                       *)
Number ==
    LET n == IF token_buffer[1] = Minus THEN -DecimalValue(token_buffer)
                                        ELSE DecimalValue(token_buffer)
        Float == [type |-> "value_float"]
    IN  CASE number_type = "value_unsigned" ->
               IF n <= ULLMax THEN [type |-> number_type, value |-> n] ELSE Float
          [] number_type = "value_integer" ->
               IF n \in -LLMax - 1 .. LLMax THEN [type |-> number_type, value |-> n] ELSE Float
          [] number_type = "value_float" -> Float

(* A character no goto is for ends the number and is put back, or is an    *)
(* error.                                                                  *)
NumberEnds(c) ==
    /\ scanner \in NumberLabels
    /\ \A g \in Gotos : g[1] = scanner => c \notin g[2]
    /\ \/ scanner \in ToDone /\ ungot' = {c} /\ Return(Number) /\ UNCHANGED read
       \/ scanner \notin ToDone /\ Return(Error) /\ Joins(c) /\ UNCHANGED ungot
    /\ UNCHANGED <<number_type, token_buffer, ranges, codepoint1>>

-----------------------------------------------------------------------------
(* scan_string: one character, escape or first byte of UTF-8.              *)

Continuation == <<128, 191>>

(* Mutant: the encodings of surrogates pass.                               *)
RangesSurrogates(c) ==
    CASE c \in 194 .. 223             -> <<Continuation>>
      [] c = 224                      -> <<<<160, 191>>, Continuation>>
      [] c \in 225 .. 239             -> <<Continuation, Continuation>>
      [] c = 240                      -> <<<<144, 191>>, Continuation, Continuation>>
      [] c \in 241 .. 243             -> <<Continuation, Continuation, Continuation>>
      [] c = 244                      -> <<<<128, 143>>, Continuation, Continuation>>

(* What has to follow the first byte of an encoding.                       *)
Ranges(c) ==
    CASE c \in 194 .. 223             -> <<Continuation>>
      [] c = 224                      -> <<<<160, 191>>, Continuation>>
      [] c \in 225 .. 239 \ {237}     -> <<Continuation, Continuation>>
      [] c = 237                      -> <<<<128, 159>>, Continuation>>
      [] c = 240                      -> <<<<144, 191>>, Continuation, Continuation>>
      [] c \in 241 .. 243             -> <<Continuation, Continuation, Continuation>>
      [] c = 244                      -> <<<<128, 143>>, Continuation, Continuation>>

PlainChars   == 32 .. 127 \ {Quote, Backslash}
ControlChars == 0 .. 31
IllFormed    == 128 .. 193 \cup 245 .. 255

StringChar(c) ==
    /\ scanner = "string"
    /\ \/ c = Quote /\ Return([type |-> "value_string", value |-> token_buffer])
          /\ UNCHANGED <<read, token_buffer, ranges>>
       \/ /\ c \in PlainChars
          /\ Starts(c) /\ token_buffer' = Append(token_buffer, c)
          /\ UNCHANGED <<scanner, token, ranges>>
       \/ /\ c = Backslash /\ Starts(c) /\ scanner' = "escape"
          /\ UNCHANGED <<token, token_buffer, ranges>>
       \/ /\ c \in 194 .. 244
          /\ Starts(c) /\ token_buffer' = Append(token_buffer, c)
          /\ ranges' = Ranges(c)
          /\ scanner' = "bytes"
          /\ UNCHANGED token
       \/ /\ c \in {Eof} \cup ControlChars \cup IllFormed
          /\ Starts(c) /\ Return(Error)
          /\ UNCHANGED <<token_buffer, ranges>>
    /\ UNCHANGED <<number_type, codepoint1, ungot>>

(* next_byte_in_range.                                                     *)
NextByte(c) ==
    /\ scanner = "bytes"
    /\ Joins(c)
    /\ \/ /\ c \in Head(ranges)[1] .. Head(ranges)[2]
          /\ token_buffer' = Append(token_buffer, c)
          /\ ranges' = Tail(ranges)
          /\ scanner' = IF Len(ranges) = 1 THEN "string" ELSE "bytes"
          /\ UNCHANGED token
       \/ /\ c \notin Head(ranges)[1] .. Head(ranges)[2] /\ Return(Error)
          /\ UNCHANGED <<token_buffer, ranges>>
    /\ UNCHANGED <<number_type, codepoint1, ungot>>

Escape(c) ==
    /\ scanner = "escape"
    /\ Joins(c)
    /\ \/ c \in DOMAIN Escapes /\ token_buffer' = Append(token_buffer, Escapes[c])
          /\ scanner' = "string" /\ UNCHANGED token
       \/ c = LetterU /\ scanner' = "u" /\ UNCHANGED <<token_buffer, token>>
       \/ c \notin DOMAIN Escapes \cup {LetterU} /\ Return(Error) /\ UNCHANGED token_buffer
    /\ UNCHANGED <<number_type, ranges, codepoint1, ungot>>

(* get_codepoint: the number of four hexadecimal digits, or -1.            *)
Codepoint(quad) ==
    LET Digit(c) == CASE c \in 48 .. 57  -> c - 48
                      [] c \in 65 .. 70  -> c - 55
                      [] c \in 97 .. 102 -> c - 87
                      [] OTHER           -> -1
    IN  IF \E i \in 1 .. 4 : Digit(quad[i]) = -1 THEN -1
        ELSE 4096 * Digit(quad[1]) + 256 * Digit(quad[2]) + 16 * Digit(quad[3]) + Digit(quad[4])

High == 55296 .. 56319
Low  == 56320 .. 57343

(* The bytes a code point is translated into.                              *)
Utf8(n) ==
    LET Bits(m) == 128 + (m % 64)
    IN  CASE n < 128                   -> <<n>>
          [] 128 <= n /\ n <= 2047     -> <<192 + (n \div 64), Bits(n)>>
          [] 2048 <= n /\ n <= 65535   -> <<224 + (n \div 4096), Bits(n \div 64), Bits(n)>>
          [] 65536 <= n -> <<240 + (n \div 262144), Bits(n \div 4096), Bits(n \div 64), Bits(n)>>

JoinsQuad(quad) == read' = [read EXCEPT ![Len(read)] = @ \o quad]

UnicodeEscape(quad) ==
    LET n == Codepoint(quad) IN
    /\ scanner = "u"
    /\ JoinsQuad(quad)
    /\ \/ n \in High /\ codepoint1' = n /\ scanner' = "pair" /\ UNCHANGED <<token_buffer, token>>
       \/ n \in Low \cup {-1} /\ Return(Error) /\ UNCHANGED <<token_buffer, codepoint1>>
       \/ /\ n \notin High \cup Low \cup {-1}
          /\ token_buffer' = token_buffer \o Utf8(n) /\ scanner' = "string"
          /\ UNCHANGED <<codepoint1, token>>
    /\ UNCHANGED <<number_type, ranges, ungot>>

(* The \u that has to follow a high surrogate, and the low one.            *)
PairEscape(c) ==
    /\ scanner \in {"pair", "pair u"}
    /\ Joins(c)
    /\ LET expected == IF scanner = "pair" THEN Backslash ELSE LetterU IN
         \/ /\ c = expected
            /\ scanner' = (IF scanner = "pair" THEN "pair u" ELSE "low")
            /\ UNCHANGED token
         \/ c # expected /\ Return(Error)
    /\ UNCHANGED <<number_type, token_buffer, ranges, codepoint1, ungot>>

Combined(high, low) == high * 1024 + low - 56613888

LowSurrogate(quad) ==
    LET n == Codepoint(quad) IN
    /\ scanner = "low"
    /\ JoinsQuad(quad)
    /\ \/ /\ n \in Low
          /\ token_buffer' = token_buffer \o Utf8(Combined(codepoint1, n))
          /\ scanner' = "string" /\ UNCHANGED token
       \/ n \notin Low /\ Return(Error) /\ UNCHANGED token_buffer
    /\ UNCHANGED <<number_type, ranges, codepoint1, ungot>>

-----------------------------------------------------------------------------
(* Beyond the bounds, only what ends the token is read.                    *)
InBounds(c) ==
    /\ scanner = "string" /\ Len(token_buffer) >= MaxString => c = Quote
    /\ scanner \in NumberLabels /\ Len(read[1]) >= MaxNumber => c = Eof

LexerNext ==
    \/ \E c \in Chars :
         /\ InBounds(c)
         /\ \/ SkipBom(c) \/ Dispatch(c) \/ LiteralChar(c) \/ NumberChar(c) \/ NumberEnds(c)
            \/ StringChar(c) \/ NextByte(c) \/ Escape(c) \/ PairEscape(c)
    \/ \E quad \in Quads : UnicodeEscape(quad) \/ LowSurrogate(quad)

-----------------------------------------------------------------------------
(* The grammar of numbers (RFC 8259, section 6), part by part.             *)
DigitsAt(t, first, last) == first <= last /\ \A i \in first .. last : t[i] \in Digits

IntegerAt(t, first, last) == DigitsAt(t, first, last) /\ (t[first] \in Zero => first = last)

FractionAt(t, first, last) ==
    first <= last => t[first] = Dot /\ DigitsAt(t, first + 1, last)

ExponentAt(t, first, last) ==
    LET signed == first < last /\ t[first + 1] \in {Plus, Minus}
    IN  first <= last => /\ t[first] \in LetterE
                         /\ DigitsAt(t, IF signed THEN first + 2 ELSE first + 1, last)

IsNumber(t) ==
    \E i \in {0, 1} : \E j \in i + 1 .. Len(t) : \E k \in j .. Len(t) :
      /\ i = 1 => t[1] = Minus
      /\ IntegerAt(t, i + 1, j)
      /\ FractionAt(t, j + 1, k)
      /\ ExponentAt(t, k + 1, Len(t))

StartsANumber(t) == IsNumber(t) \/ IsNumber(Append(t, 48))

(* Its value: the digits from the last, each with its power of ten.        *)
IsInteger(t) == \A i \in 1 .. Len(t) : t[i] \in Digits \cup {Minus}
IntegerOf(t) ==
    LET power[k \in 0 .. Len(t)] == IF k = 0 THEN 1 ELSE 10 * power[k - 1]
        sum[k \in 0 .. Len(t)] ==
          IF k = 0 THEN 0
          ELSE LET c == t[Len(t) + 1 - k]
               IN  IF c = Minus THEN sum[k - 1] ELSE sum[k - 1] + (c - 48) * power[k - 1]
    IN  IF t[1] = Minus THEN -sum[Len(t)] ELSE sum[Len(t)]

ReadsANumber == scanner = "scanned" /\ read # <<>> /\ read[1][1] \in Digits \cup {Minus}

(* A number token is all that belongs to the number and nothing more, what *)
(* follows is still there for the next token, and an integer keeps its     *)
(* value or, out of range, becomes a float.  An error means that no number *)
(* starts that way.                                                        *)
NumberAsWritten ==
    ReadsANumber =>
      LET t == read[1]
          inRange == IF t[1] = Minus THEN -LLMax - 1 .. 0 ELSE 0 .. ULLMax
      IN  IF token = Error THEN ~StartsANumber(t)
          ELSE /\ IsNumber(t)
               /\ ungot # {} /\ \A c \in ungot : ~StartsANumber(Append(t, c))
               /\ IF IsInteger(t) /\ IntegerOf(t) \in inRange
                    THEN token.type # "value_float" /\ token.value = IntegerOf(t)
                    ELSE token.type = "value_float"

(* What a unit of a string stands for: itself, if it is the UTF-8 of a     *)
(* code point, shortest form and no surrogate, or what is escaped.         *)
Scalar(n) == 0 <= n /\ n <= 1114111 /\ n \notin High \cup Low

Decoded(u) ==
    LET Bits(i) == u[i] - 128
    IN  CASE Len(u) = 1 -> u[1]
          [] Len(u) = 2 -> 64 * (u[1] - 192) + Bits(2)
          [] Len(u) = 3 -> 4096 * (u[1] - 224) + 64 * Bits(2) + Bits(3)
          [] Len(u) = 4 -> 262144 * (u[1] - 240) + 4096 * Bits(2) + 64 * Bits(3) + Bits(4)

IsUtf8(u) == Len(u) \in 1 .. 4 /\ Scalar(Decoded(u)) /\ Utf8(Decoded(u)) = u

HexAt(u, i) == Codepoint([j \in 1 .. 4 |-> u[i + j]])

IsEscape(u)    == Len(u) = 2 /\ u[1] = Backslash /\ u[2] \in DOMAIN Escapes
IsCodepoint(u) == Len(u) = 6 /\ u[1] = Backslash /\ u[2] = LetterU /\ Scalar(HexAt(u, 2))
IsPair(u)      == /\ Len(u) = 12 /\ u[1] = Backslash /\ u[2] = LetterU /\ HexAt(u, 2) \in High
                  /\ u[7] = Backslash /\ u[8] = LetterU /\ HexAt(u, 8) \in Low
IsPlain(u)     == IsUtf8(u) /\ Decoded(u) >= 32 /\ Decoded(u) \notin {Quote, Backslash}

IsCharacter(u) == IsPlain(u) \/ IsEscape(u) \/ IsCodepoint(u) \/ IsPair(u)
CharacterOf(u) ==
    CASE IsPlain(u)     -> Decoded(u)
      [] IsEscape(u)    -> Escapes[u[2]]
      [] IsCodepoint(u) -> HexAt(u, 2)
      [] IsPair(u)      -> 65536 + (HexAt(u, 2) - 55296) * 1024 + (HexAt(u, 8) - 56320)

(* The rest of any unit, for what may begin it.                            *)
DC00 == <<68, 67, 48, 48>>
Endings == (UNION {[1 .. n -> {128, 144, 160}] : n \in 0 .. 3})
           \cup {<<Backslash, LetterU>> \o DC00, <<LetterU>> \o DC00, DC00}
StartsAUnit(u) == \E e \in Endings : IsCharacter(u \o e)

(* A string token is made of characters only, and its value is well-formed *)
(* UTF-8: the encoding of what they stand for.  An error means that no     *)
(* character starts that way.                                              *)
StringAsWritten ==
    scanner = "scanned" /\ read # <<>> /\ read[1] = <<Quote>> =>
      IF token = Error THEN ~StartsAUnit(Last(read))
      ELSE /\ \A i \in 2 .. Len(read) : IsCharacter(read[i])
           /\ token.value =
                FlattenSeq([i \in 1 .. Len(read) - 1 |-> Utf8(CharacterOf(read[i + 1]))])

================================================================================
