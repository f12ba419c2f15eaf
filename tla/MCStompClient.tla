----------------------------- MODULE MCStompClient -----------------------------
(***************************************************************************)
(* An instance of StompClientServer for TLC.                               *)
(***************************************************************************)
EXTENDS StompClientServer

(* A user who logs in, joins, logs out, or types what sends nothing.       *)
MCTypedLines == {<<"login", "host", "ann", "secret">>, <<"join", "police">>, <<"logout">>,
                 <<"summary", "police">>}

(* What the server makes of the first of these lines, and of a later one.  *)
Plain(command) ==
    [command |-> command, destination |-> None, id |-> None, login |-> None, passcode |-> None,
     version |-> None, receipt |-> FALSE]
Login(command, p) == [Plain(command) EXCEPT !.login = "ann", !.passcode = p, !.version = "1.2"]
Join(command, i)  == [Plain(command) EXCEPT !.destination = "/police", !.id = i, !.receipt = TRUE]
Typed == {Login(k, p) : k \in {"CONNECT", "other"}, p \in Passcodes}
         \cup {Join(k, i) : k \in {"SUBSCRIBE", "other"}, i \in SubIds}
         \cup {Plain("DISCONNECT"), Plain("other")}

(* The other connection publishes once.                                    *)
MCScript == <<{[Plain("SEND") EXCEPT !.destination = "/police"]}, Typed>>
MCBudget == <<1, MaxTyped>>
MCBodySent == <<Word("ERROR"), NL, Word("end")>>
MCKeyOf == [k \in {"message:", "subscription:", "message-id: "} |-> k]

================================================================================
