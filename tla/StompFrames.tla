------------------------------ MODULE StompFrames ------------------------------
(***************************************************************************)
(* STOMP frames as text: how StompEncoderDecoder.java makes a Message of a *)
(* frame and a frame of a Message.                                         *)
(*                                                                         *)
(* A text is a sequence of tokens: the two bytes the code looks for, a     *)
(* newline and a null, and what stands between them, a word without a      *)
(* colon or a key and a value with one.  A line holds one token at most    *)
(* and no white space at its ends, so trim() changes nothing.              *)
(***************************************************************************)
EXTENDS Naturals, Sequences, SequencesExt, FiniteSetsExt

CONSTANTS NoBody,  \* a null body
          KeyOf    \* a key with a colon in it -> what stands before the colon

NL         == [kind |-> "newline"]
NUL        == [kind |-> "null"]
Word(w)    == [kind |-> "word", word |-> w]
Pair(k, v) == [kind |-> "pair", key |-> k, value |-> v]

(* A header as it is written: a key that holds a colon is read back as the *)
(* part before it, and the colon goes to the value.                        *)
AsWritten(k, v) == IF k \in DOMAIN KeyOf THEN Pair(KeyOf[k], [colon |-> v]) ELSE Pair(k, v)

Positions(text, token) == {i \in DOMAIN text : text[i] = token}

Malformed == [kind |-> "IllegalArgumentException"]

(* The HashMap of the header lines: a line without a colon is passed over, *)
(* and the last header of a key replaces the earlier ones.                 *)
Headers(head) ==
    LET At(k) == {i \in DOMAIN head : head[i].kind = "pair" /\ head[i].key = k}
    IN  [k \in {p.key : p \in {x \in Range(head) : x.kind = "pair"}} |-> head[Max(At(k))].value]

(* parseFrame.  The first empty line behind the command's newline splits   *)
(* the headers from the body.                                              *)
ParseFrame(text) ==
    IF NL \notin Range(text) THEN Malformed
    ELSE LET first == Min(Positions(text, NL))
             blank == {i \in first + 1 .. Len(text) - 1 : text[i] = NL /\ text[i + 1] = NL}
             end   == IF blank = {} THEN Len(text) + 1 ELSE Min(blank)
         IN  [kind    |-> "message",
              command |-> SubSeq(text, 1, first - 1),
              headers |-> Headers(SubSeq(text, first + 1, end - 1)),
              body    |-> IF blank = {} THEN NoBody ELSE SubSeq(text, end + 2, Len(text))]

(* encode, with the headers in some order of the map's keys.               *)
Encode(m, keys) ==
    m.command \o <<NL>>
        \o FlattenSeq([i \in DOMAIN keys |-> <<AsWritten(keys[i], m.headers[keys[i]]), NL>>])
        \o <<NL>> \o (IF m.body = NoBody THEN <<>> ELSE m.body) \o <<NUL>>

================================================================================
