-------------------------- MODULE StompEncoderDecoder --------------------------
(***************************************************************************)
(* The decoder of one connection (StompEncoderDecoder.java), fed with what *)
(* its peer writes, byte by byte.                                          *)
(***************************************************************************)
EXTENDS StompFrames

CONSTANT Size \* of the array the buffer starts with

ASSUME CodecAssumption == Size \in Nat \ {0}

VARIABLES written,  \* what the peer writes: a message, a text, a message
          toRead,   \* what of it the socket will still deliver
          bytes,    \* the array, and how much of it is filled
          len,
          messages, \* what decodeNextByte has returned so far
          refused   \* its exception has ended the connection

codecVars == <<written, toRead, bytes, len, messages, refused>>

Zeros(n) == [i \in 1 .. n |-> NUL]

(* A HashMap may give its entries in any order.                            *)
EncodingsOf(m) == {Encode(m, keys) : keys \in SetToSeqs(DOMAIN m.headers)}

CodecStart(exchange) ==
    /\ written = exchange
    /\ toRead \in {first \o written.between \o second :
                     first \in EncodingsOf(written.first), second \in EncodingsOf(written.second)}
    /\ bytes = Zeros(Size)
    /\ len = 0
    /\ messages = <<>>
    /\ refused = FALSE

(* Mutant: a full array is not enlarged, and its last byte replaced.       *)
PushByteFull(b) ==
    /\ len' = IF len < Len(bytes) THEN len + 1 ELSE len
    /\ bytes' = [bytes EXCEPT ![len'] = b]

(* The array is doubled when it is full.                                   *)
PushByte(b) ==
    /\ len' = len + 1
    /\ bytes' = [IF len < Len(bytes) THEN bytes ELSE bytes \o Zeros(Len(bytes))
                    EXCEPT ![len'] = b]

(* The array keeps its bytes; only the length is reset.                    *)
PopString == len' = 0 /\ UNCHANGED bytes

DecodeNextByte ==
    /\ toRead # <<>> /\ ~refused
    /\ toRead' = Tail(toRead)
    /\ \/ /\ Head(toRead) # NUL
          /\ PushByte(Head(toRead))
          /\ UNCHANGED <<messages, refused>>
       \/ /\ Head(toRead) = NUL
          /\ LET m == ParseFrame(SubSeq(bytes, 1, len)) IN
               /\ refused' = (m = Malformed)
               /\ messages' = IF m = Malformed THEN messages ELSE Append(messages, m)
          /\ PopString
    /\ UNCHANGED written

-----------------------------------------------------------------------------
(* What a reader gets of a message: an absent body as an empty one, and    *)
(* the keys up to their colon.                                             *)
Reread(m) ==
    LET Header(k) == AsWritten(k, m.headers[k])
        keys == DOMAIN m.headers
    IN  [m EXCEPT !.headers = [name \in {Header(k).key : k \in keys} |->
                                 Header(CHOOSE k \in keys : Header(k).key = name).value],
                  !.body = IF @ = NoBody THEN <<>> ELSE @]

(* A message that has headers is read back whole; one without is read back *)
(* as one message, with its command, but its body may be taken for headers *)
(* (a body that starts with an empty line moves up).                       *)
ReadAs(m, r) ==
    /\ r.command = m.command
    /\ DOMAIN m.headers # {} => r = Reread(m)

(* Frames that follow each other are read back one by one, whatever their  *)
(* bodies hold and however often the buffer was enlarged or reused.  A     *)
(* newline between two frames costs the second one its command, and only   *)
(* that; a frame without any newline ends the connection after what came   *)
(* before it was read.                                                     *)
ReadBack ==
    LET second == IF written.between = <<NL>> THEN [written.second EXCEPT !.command = <<>>]
                                              ELSE written.second
    IN  /\ refused =>
            written.between \notin {<<>>, <<NL>>} /\ Len(messages) = 1 /\ ReadAs(written.first, messages[1])
        /\ toRead = <<>> /\ ~refused =>
            /\ written.between \in {<<>>, <<NL>>}
            /\ Len(messages) = 2
            /\ ReadAs(written.first, messages[1]) /\ ReadAs(second, messages[2])

================================================================================
