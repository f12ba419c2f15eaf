------------------------------ MODULE StompClient ------------------------------
(***************************************************************************)
(* The C++ client: main (StompClient.cpp), the thread that reads the       *)
(* keyboard (keyboardInput.cpp) and the thread that reads the socket       *)
(* (netWorkThread.cpp), over the lines of ConnectionHandler.cpp.           *)
(*                                                                         *)
(* The actions that touch the socket take what its other end does as       *)
(* arguments: stream is all the text the server has written so far, closed *)
(* whether it has closed its end.                                          *)
(*                                                                         *)
(* isActive is a plain bool that both threads read and write.  Between two *)
(* tests of it a thread makes calls the compiler cannot look into, so each *)
(* test reads the memory, and is one step.                                 *)
(***************************************************************************)
EXTENDS StompFrames, TLC

CONSTANTS TypedLines, \* what a user may type, as the words of a line
          MaxTyped    \* bound on the lines a user types

ASSUME ClientAssumption == MaxTyped \in Nat

VARIABLES main, keyboard, network, \* where the three threads are
          isActive,
          stdin,          \* "open" or "eof"
          typed,          \* how many lines were typed
          userInput,      \* the words of the line that was read last
          recipt_id,
          subscriptionId,
          wire,           \* text written to the socket, not yet read there
          frames,         \* every frame written, up to its null
          taken,          \* how much of stream has been read
          serverMessage   \* the line of it that was read last

clientVars == <<main, keyboard, network, isActive, stdin, typed, userInput, recipt_id,
                subscriptionId, wire, frames, taken, serverMessage>>

ClientInit ==
    /\ main = "connect" /\ keyboard = "none" /\ network = "none"
    /\ isActive = TRUE
    /\ stdin = "open" /\ typed = 0 /\ userInput = <<>>
    /\ recipt_id = 0 /\ subscriptionId = 1
    /\ wire = <<>> /\ frames = <<>>
    /\ taken = 0 /\ serverMessage = <<>>

(* The variables of one thread only.                                       *)
keyboardVars == <<keyboard, stdin, typed, userInput, recipt_id, subscriptionId, wire, frames>>
networkVars  == <<network, taken, serverMessage>>

-----------------------------------------------------------------------------
(* main: connect, start both threads, wait for the keyboard's, then for    *)
(* the network's, close.                                                   *)

Connect ==
    /\ main = "connect"
    /\ \/ main' = "refused" /\ UNCHANGED <<keyboard, network>>
       \/ main' = "joinKeyboard" /\ keyboard' = "test" /\ network' = "test"
    /\ UNCHANGED <<isActive, stdin, typed, userInput, recipt_id, subscriptionId, wire, frames,
                   taken, serverMessage>>

JoinKeyboard ==
    /\ main = "joinKeyboard" /\ keyboard = "done"
    /\ main' = "joinNetwork"
    /\ UNCHANGED <<keyboardVars, networkVars, isActive>>

JoinNetwork ==
    /\ main = "joinNetwork" /\ network = "done"
    /\ main' = "close"
    /\ UNCHANGED <<keyboardVars, networkVars, isActive>>

(* close() of the socket.                                                  *)
CloseSocket ==
    /\ main = "close"
    /\ main' = "done"
    /\ UNCHANGED <<keyboardVars, networkVars, isActive>>

-----------------------------------------------------------------------------
(* The keyboard thread.                                                    *)

(* Mutant: the loop does not look at isActive.                             *)
KeyboardTestNever ==
    /\ keyboard = "test"
    /\ keyboard' = "getline"
    /\ UNCHANGED <<stdin, typed, userInput, recipt_id, subscriptionId, wire, frames>>

KeyboardTest ==
    /\ keyboard = "test"
    /\ keyboard' = IF isActive THEN "getline" ELSE "done"
    /\ UNCHANGED <<stdin, typed, userInput, recipt_id, subscriptionId, wire, frames>>

(* A command that sends nothing (exit, summary, report, an unknown one)    *)
(* goes back to the test.                                                  *)
Obey(line) ==
    /\ userInput' = line
    /\ keyboard' = IF line # <<>> /\ line[1] \in {"login", "join", "logout"} THEN "write" ELSE "test"

Type ==
    /\ keyboard = "getline" /\ stdin = "open" /\ typed < MaxTyped
    /\ \E line \in TypedLines : Obey(line)
    /\ typed' = typed + 1
    /\ UNCHANGED <<stdin, recipt_id, subscriptionId, wire, frames>>

(* The user ends the input, which shows when the thread reads it.          *)
EndInput ==
    /\ keyboard = "getline" /\ stdin = "open"
    /\ stdin' = "eof"
    /\ UNCHANGED <<keyboard, typed, userInput, recipt_id, subscriptionId, wire, frames>>

(* getline at the end of the input leaves an empty line, an unknown        *)
(* command, and returns at once.                                           *)
GetlineAtEnd ==
    /\ keyboard = "getline" /\ stdin = "eof"
    /\ Obey(<<>>)
    /\ UNCHANGED <<stdin, typed, recipt_id, subscriptionId, wire, frames>>

(* The words a command did not get are empty strings.                      *)
Argument(i) == IF i <= Len(userInput) THEN userInput[i] ELSE ""

Header(k, v) == <<Pair(k, v), NL>>

(* The texts of the three frames, with their null.  A logout's receipt id  *)
(* is a line of its own, without a key.                                    *)
Frame ==
    CASE userInput[1] = "login" ->
            <<Word("CONNECT"), NL>> \o Header("accept-version", "1.2")
                \o Header("host", "stomp.cs.bgu.ac.il") \o Header("login", Argument(3))
                \o Header("passcode", Argument(4)) \o <<NUL>>
      [] userInput[1] = "join" ->
            <<Word("SUBSCRIBE"), NL>> \o Header("destination", "/" \o Argument(2))
                \o Header("id", ToString(subscriptionId)) \o Header("receipt", ToString(recipt_id))
                \o <<NUL>>
      [] userInput[1] = "logout" ->
            <<Word("DISCONNECT"), NL, Word(ToString(recipt_id)), NL, NUL>>

(* Mutant: the newline goes in front of the frame.                         *)
SendFrameNewlineFirst ==
    /\ wire' = wire \o <<NL>> \o Frame
    /\ frames' = Append(frames, Front(Frame))

(* sendLine's first write.                                                 *)
SendFrame ==
    /\ wire' = wire \o Frame
    /\ frames' = Append(frames, Front(Frame))

(* Mutant: a send that failed is tried again.                              *)
WriteRetried(closed) ==
    /\ keyboard = "write"
    /\ \/ SendFrame /\ keyboard' = "delimiter" /\ UNCHANGED isActive
       \/ closed /\ UNCHANGED <<keyboard, isActive, wire, frames>>
    /\ recipt_id' = IF userInput[1] \in {"join", "logout"} THEN recipt_id + 1 ELSE recipt_id
    /\ subscriptionId' = IF userInput[1] = "join" THEN subscriptionId + 1 ELSE subscriptionId
    /\ UNCHANGED <<stdin, typed, userInput>>

(* The ids are counted whether or not the frame is sent.                   *)
Write(closed) ==
    /\ keyboard = "write"
    /\ \/ SendFrame /\ keyboard' = "delimiter" /\ UNCHANGED isActive
       \/ closed /\ isActive' = FALSE /\ keyboard' = "test" /\ UNCHANGED <<wire, frames>>
    /\ recipt_id' = IF userInput[1] \in {"join", "logout"} THEN recipt_id + 1 ELSE recipt_id
    /\ subscriptionId' = IF userInput[1] = "join" THEN subscriptionId + 1 ELSE subscriptionId
    /\ UNCHANGED <<stdin, typed, userInput>>

(* Mutant: a logout leaves the other thread to end the client.             *)
WriteDelimiterLogoutActive(closed) ==
    /\ keyboard = "delimiter"
    /\ \/ wire' = Append(wire, NL) /\ UNCHANGED isActive
       \/ closed /\ isActive' = FALSE /\ UNCHANGED wire
    /\ keyboard' = "test"
    /\ UNCHANGED <<stdin, typed, userInput, recipt_id, subscriptionId, frames>>

(* sendLine's second write: the newline behind the null.  A failed send    *)
(* clears isActive, and so does a logout in any case.                      *)
WriteDelimiter(closed) ==
    /\ keyboard = "delimiter"
    /\ \/ /\ wire' = Append(wire, NL)
          /\ isActive' = (isActive /\ userInput[1] # "logout")
       \/ closed /\ isActive' = FALSE /\ UNCHANGED wire
    /\ keyboard' = "test"
    /\ UNCHANGED <<stdin, typed, userInput, recipt_id, subscriptionId, frames>>

-----------------------------------------------------------------------------
(* The network thread.                                                     *)

NetworkTest ==
    /\ network = "test"
    /\ network' = IF isActive THEN "getLine" ELSE "done"
    /\ UNCHANGED <<isActive, taken, serverMessage>>

(* Mutant: a lost connection is only reported.                             *)
GetLineFailsOn(closed) ==
    /\ network = "getLine" /\ closed
    /\ network' = "test"
    /\ UNCHANGED <<isActive, taken, serverMessage>>

WithoutNulls(text) ==
    FlattenSeq([i \in DOMAIN text |-> IF text[i] = NUL THEN <<>> ELSE <<text[i]>>])

(* getLine reads up to a newline and leaves nulls out, so the rest of a    *)
(* frame behind its last newline waits for the next frame.                 *)
GetLine(stream) ==
    /\ network = "getLine"
    /\ \E end \in taken + 1 .. Len(stream) :
         /\ stream[end] = NL /\ \A i \in taken + 1 .. end - 1 : stream[i] # NL
         /\ serverMessage' = WithoutNulls(SubSeq(stream, taken + 1, end - 1))
         /\ taken' = end
    /\ network' = "handle"
    /\ UNCHANGED isActive

(* A server that closes its end without having read the last newline       *)
(* resets the connection: getLine may fail although there is text to read. *)
GetLineFails(closed) ==
    /\ network = "getLine" /\ closed
    /\ isActive' = FALSE
    /\ network' = "done"
    /\ UNCHANGED <<taken, serverMessage>>

Finds(text, w) == Word(w) \in Range(text)

(* Mutant: any message ends the client.                                    *)
HandleLineEnding ==
    /\ network = "handle"
    /\ isActive' = FALSE
    /\ network' = "test"
    /\ UNCHANGED <<taken, serverMessage>>

(* The order of the tests: only a line without RECEIPT and MESSAGE counts  *)
(* as an ERROR.                                                            *)
HandleLine ==
    /\ network = "handle"
    /\ isActive' = (isActive /\ ~(/\ ~Finds(serverMessage, "RECEIPT")
                                  /\ ~Finds(serverMessage, "MESSAGE")
                                  /\ Finds(serverMessage, "ERROR")))
    /\ network' = "test"
    /\ UNCHANGED <<taken, serverMessage>>

-----------------------------------------------------------------------------
Main == Connect \/ JoinKeyboard \/ JoinNetwork

(* What the keyboard thread does by itself.                                *)
Keyboard(closed) ==
    /\ \/ (KeyboardTest \/ GetlineAtEnd) /\ UNCHANGED isActive
       \/ Write(closed) \/ WriteDelimiter(closed)
    /\ UNCHANGED <<networkVars, main>>

User == (Type \/ EndInput) /\ UNCHANGED <<networkVars, main, isActive>>

Network(stream, closed) ==
    /\ NetworkTest \/ GetLine(stream) \/ GetLineFails(closed) \/ HandleLine
    /\ UNCHANGED <<keyboardVars, main>>

================================================================================
