----------------------------- MODULE JsonSerializer -----------------------------
(***************************************************************************)
(* dump(), which the client calls on general information that is no        *)
(* string: the serializer of include/json.hpp, without indentation, with   *)
(* characters beyond ASCII as they are and ill-formed UTF-8 an exception.  *)
(*                                                                         *)
(* Its parts are dump on values, dump_escaped on the bytes of a string,    *)
(* one step per byte, and dump_integer, one step per write of digits.      *)
(***************************************************************************)
EXTENDS JsonLexer, JsonParser

CONSTANTS Bytes,     \* the bytes a string may hold
          MaxBytes,  \* bound on their number
          Numbers,   \* the integers to write
          IntegerMax, \* the greatest number_integer_t
          BufferSize \* of string_buffer

ASSUME SerializerAssumption ==
    /\ Bytes \subseteq 0 .. 255 /\ MaxBytes \in Nat
    /\ IntegerMax \in Nat /\ Numbers \subseteq -(IntegerMax + 1) .. 2 * IntegerMax + 1
    /\ BufferSize \in Nat /\ BufferSize >= 13

VARIABLES dumping,       \* where the serializer is
          text,          \* the bytes read of the string
          utf8,          \* the state of the decoder
          codepoint,
          string_buffer, \* what it holds: the first bytes of it
          output,        \* what was written to o
          number,        \* the integer that is written
          abs_value,
          number_buffer, \* its first n_chars
          buffer_ptr     \* how many of them are still to be filled

serializerVars == <<dumping, text, utf8, codepoint, string_buffer, output, number, abs_value,
                    number_buffer, buffer_ptr>>
stringVars == <<text, utf8, codepoint, string_buffer>>
numberVars == <<number, abs_value, number_buffer, buffer_ptr>>

SerializerInit ==
    /\ dumping = "start"
    /\ text = <<>> /\ utf8 = 0 /\ codepoint = 0 /\ string_buffer = <<>>
    /\ output = <<>>
    /\ number = 0 /\ abs_value = 0 /\ number_buffer = <<>> /\ buffer_ptr = 0

-----------------------------------------------------------------------------
(* dump, from a value to tokens: those of its parts between commas.        *)

(* Mutant: a comma behind the last part too.                               *)
CommasTrailing(ts) == FlattenSeq([i \in DOMAIN ts |-> Append(ts[i], Sign("value_separator"))])

Commas(ts) ==
    FlattenSeq([i \in DOMAIN ts |-> IF i < Len(ts) THEN Append(ts[i], Sign("value_separator"))
                                                   ELSE ts[i]])

(* The tokens of a node, from those of the nodes below it.                 *)
DumpOf(dump, n) ==
    LET v == nodes[n]
        keys == SetToSeq(DOMAIN v.members)
        Member(k) == <<k, Sign("name_separator")>> \o dump[v.members[k]]
    IN  CASE v.type = "object" -> <<Sign("begin_object")>>
                                    \o Commas([i \in DOMAIN keys |-> Member(keys[i])])
                                    \o <<Sign("end_object")>>
          [] v.type = "array"  -> <<Sign("begin_array")>>
                                    \o Commas([i \in DOMAIN v.items |-> dump[v.items[i]]])
                                    \o <<Sign("end_array")>>
          [] OTHER -> <<v>>
Dump == LET dump[n \in DOMAIN nodes] == DumpOf(dump, n) IN dump[1]

-----------------------------------------------------------------------------
(* The decoder of dump_escaped: utf8d, as the class of each byte and the   *)
(* state each class leads to.  0 is UTF8_ACCEPT and 1 UTF8_REJECT.         *)

ClassOf(b) ==
    CASE b \in 0 .. 127                       -> 0
      [] b \in 128 .. 143                     -> 1
      [] b \in 144 .. 159                     -> 9
      [] b \in 160 .. 191                     -> 7
      [] b \in 192 .. 193 \cup 245 .. 255     -> 8
      [] b \in 194 .. 223                     -> 2
      [] b = 224                              -> 10
      [] b \in 225 .. 236 \cup 238 .. 239     -> 3
      [] b = 237                              -> 4
      [] b = 240                              -> 11
      [] b \in 241 .. 243                     -> 6
      [] b = 244                              -> 5

Row0 == <<0, 1, 2, 3, 5, 8, 7, 1, 1, 1, 4, 6>>

NextUtf8(class) ==
    CASE utf8 = 0                          -> Row0[class + 1]
      [] utf8 = 2 /\ class \in {1, 7, 9} -> 0
      [] utf8 = 3 /\ class \in {1, 7, 9} -> 2
      [] utf8 = 4 /\ class = 7            -> 2
      [] utf8 = 5 /\ class \in {1, 9}     -> 2
      [] utf8 = 6 /\ class \in {7, 9}     -> 3
      [] utf8 = 7 /\ class \in {1, 7, 9} -> 3
      [] utf8 = 8 /\ class = 1            -> 3
      [] OTHER -> 1

(* 0xFF >> class, the bits a first byte of that class has for its number.  *)
Mask[class \in 0 .. 11] == IF class = 0 THEN 255 ELSE Mask[class - 1] \div 2

(* The low six bits of a further byte, what its class leaves of a first.   *)
NextCodepoint(class, b) ==
    IF utf8 # 0 THEN codepoint * 64 + (b % 64) ELSE b % (Mask[class] + 1)

Hex(d) == IF d < 10 THEN 48 + d ELSE 87 + d

(* Mutant: the last control character is written as it is.                 *)
WrittenAsUpTo30(n, b) ==
    CASE n \in {8, 9, 10, 12, 13, Quote, Backslash} ->
           <<Backslash, CHOOSE e \in DOMAIN Escapes : Escapes[e] = n>>
      [] n \in 0 .. 30 \ {8, 9, 10, 12, 13} ->
           <<Backslash, LetterU, 48, 48, Hex(n \div 16), Hex(n % 16)>>
      [] OTHER -> <<b>>

(* What is written of a code point when its last byte b has been read.     *)
WrittenAs(n, b) ==
    CASE n \in {8, 9, 10, 12, 13, Quote, Backslash} ->
           <<Backslash, CHOOSE e \in DOMAIN Escapes : Escapes[e] = n>>
      [] n \in 0 .. 31 \ {8, 9, 10, 12, 13} ->
           <<Backslash, LetterU, 48, 48, Hex(n \div 16), Hex(n % 16)>>
      [] OTHER -> <<b>>

DumpString ==
    /\ dumping = "start"
    /\ dumping' = "string"
    /\ output' = <<Quote>>
    /\ UNCHANGED <<stringVars, numberVars>>

(* The buffer is written out as soon as fewer than 13 bytes are left.      *)
DumpByte(b) ==
    /\ dumping = "string"
    /\ text' = Append(text, b)
    /\ utf8' = NextUtf8(ClassOf(b))
    /\ codepoint' = NextCodepoint(ClassOf(b), b)
    /\ \/ /\ utf8' = 0
          /\ LET filled == string_buffer \o WrittenAs(codepoint', b)
                 full   == BufferSize - Len(filled) < 13
             IN  /\ output' = IF full THEN output \o filled ELSE output
                 /\ string_buffer' = IF full THEN <<>> ELSE filled
          /\ UNCHANGED dumping
       \/ utf8' = 1 /\ dumping' = "threw" /\ UNCHANGED <<output, string_buffer>>
       \/ /\ utf8' \notin {0, 1}
          /\ string_buffer' = Append(string_buffer, b)
          /\ UNCHANGED <<output, dumping>>
    /\ UNCHANGED numberVars

EndString ==
    /\ dumping = "string"
    /\ \/ utf8 = 0 /\ output' = output \o string_buffer \o <<Quote>> /\ dumping' = "written"
       \/ utf8 # 0 /\ dumping' = "threw" /\ UNCHANGED output
    /\ UNCHANGED <<stringVars, numberVars>>

-----------------------------------------------------------------------------
(* dump_integer.                                                           *)

(* Mutant: ten has one digit.                                              *)
CountDigitsTen(n) == CHOOSE k \in 1 .. 10 : n <= 10^k /\ (k = 1 \/ n > 10^(k - 1))

(* count_digits, in steps of four.                                         *)
CountDigits(n) ==
    LET count[x \in 0 .. n] == IF x < 10 THEN 1 ELSE IF x < 100 THEN 2 ELSE IF x < 1000 THEN 3
                               ELSE IF x < 10000 THEN 4 ELSE count[x \div 10000] + 4
    IN  count[n]

Longs == -(IntegerMax + 1) .. IntegerMax

(* -n for an n of Longs.  An overflow is undefined: it may be any of them. *)
Negated(n) == IF -n \in Longs THEN {-n} ELSE Longs

(* static_cast<number_unsigned_t>(n)                                       *)
Unsigned(n) == IF n < 0 THEN n + 2 * (IntegerMax + 1) ELSE n

(* Mutant: the sign removed at once.                                       *)
RemoveSignPlain(n) == {Unsigned(m) : m \in Negated(n)}

RemoveSign(n) == {Unsigned(m) + 1 : m \in Negated(n + 1)}

DumpInteger(n) ==
    /\ dumping = "start"
    /\ number' = n
    /\ \/ /\ n = 0
          /\ output' = <<48>> /\ dumping' = "number"
          /\ UNCHANGED <<abs_value, number_buffer, buffer_ptr>>
       \/ /\ n # 0
          /\ abs_value' \in IF n < 0 THEN RemoveSign(n) ELSE {n}
          /\ buffer_ptr' = CountDigits(abs_value') + (IF n < 0 THEN 1 ELSE 0)
          /\ number_buffer' = [i \in 1 .. buffer_ptr' |-> IF n < 0 /\ i = 1 THEN Minus ELSE 0]
          /\ dumping' = "integer" /\ UNCHANGED output
    /\ UNCHANGED stringVars

TwoDigits(n) == <<48 + (n \div 10), 48 + (n % 10)>>

(* The digits of n, at the end of what is still to be filled.              *)
Fill(digits) ==
    /\ buffer_ptr' = buffer_ptr - Len(digits)
    /\ number_buffer' = [i \in DOMAIN number_buffer |->
                           IF i \in buffer_ptr' + 1 .. buffer_ptr THEN digits[i - buffer_ptr']
                                                                  ELSE number_buffer[i]]

DumpDigits ==
    /\ dumping = "integer"
    /\ \/ /\ abs_value >= 100
          /\ Fill(TwoDigits(abs_value % 100))
          /\ abs_value' = abs_value \div 100
          /\ UNCHANGED <<dumping, output>>
       \/ /\ abs_value < 100
          /\ Fill(IF abs_value >= 10 THEN TwoDigits(abs_value) ELSE <<48 + abs_value>>)
          /\ output' = number_buffer' /\ dumping' = "number"
          /\ UNCHANGED abs_value
    /\ UNCHANGED <<stringVars, number>>

SerializerNext ==
    \/ DumpString \/ EndString \/ DumpDigits
    \/ \E b \in Bytes : Len(text) < MaxBytes /\ DumpByte(b)
    \/ \E n \in Numbers : DumpInteger(n)

(* What was written of a string is read again by the scanner.              *)
ReadAgain ==
    /\ dumping = "written" /\ scanner # "scanned" /\ output # <<>>
    /\ \/ /\ scanner = "u"
          /\ UnicodeEscape(SubSeq(output, 1, 4))
          /\ output' = SubSeq(output, 5, Len(output))
       \/ /\ scanner # "u"
          /\ LET c == Head(output) IN Dispatch(c) \/ StringChar(c) \/ NextByte(c) \/ Escape(c)
          /\ output' = Tail(output)
    /\ UNCHANGED <<dumping, stringVars, numberVars>>

-----------------------------------------------------------------------------
(* Well-formed UTF-8: some cuts make the encodings of code points of it.   *)
WellFormed(t) ==
    \E cuts \in SUBSET (1 .. Len(t) - 1) :
      \A i \in {0} \cup cuts :
        LET u == SubSeq(t, i + 1, Min({j \in cuts \cup {Len(t)} : j > i}))
        IN  IsUtf8(u)

(* A string that is well-formed is written so that the scanner reads the   *)
(* same string again, to its end, whatever it holds and wherever the       *)
(* buffer was full; the exception is for a string that is not.  The buffer *)
(* never runs over.                                                        *)
EscapedIsReadBack ==
    /\ dumping # "start" => Len(string_buffer) <= BufferSize
    /\ dumping = "threw" => ~WellFormed(text)
    /\ dumping = "written" /\ scanner = "scanned" =>
         output = <<>> /\ token = [type |-> "value_string", value |-> text]

(* The tokens dump makes of a value that was read stand for that value.    *)
DumpedAsParsed ==
    result = "value" => Text(Append(Dump, Sign("end_of_input")), ValueAt) \in Sentences

(* What dump_integer writes is a number of the grammar that means the      *)
(* integer: all its digits, no other, and no zero in front.                *)
IntegerAsWritten ==
    dumping = "number" => IsNumber(output) /\ IsInteger(output) /\ IntegerOf(output) = number

(* Both: what stands for a string or an integer in the output is read as   *)
(* that string or integer (serializer::dump, dump_escaped, dump_integer).  *)
ScalarsReadBack == EscapedIsReadBack /\ IntegerAsWritten

=================================================================================
