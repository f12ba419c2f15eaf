--------------------------------- MODULE Event ---------------------------------
(***************************************************************************)
(* The Event that the client makes of the body of a message (event.cpp,    *)
(* event.h): the constructor Event(frame_body), one step per line.         *)
(*                                                                         *)
(* A line is the sequence of the texts between its colons.  split_str,     *)
(* which the repository declares nowhere, is taken to return them.  A text *)
(* is a string, which is a sequence of its characters.                     *)
(***************************************************************************)
EXTENDS Integers, Sequences, FiniteSetsExt

CONSTANT stoi \* what std::stoi makes of the values it accepts

VARIABLES body,                 \* frame_body, as a sequence of lines
          ss,                   \* the lines the stringstream still holds
          event,                \* the fields of the object
          inGeneralInformation,
          state                 \* "reading", "built", or "threw"

eventVars == <<body, ss, event, inGeneralInformation, state>>

NoInformation == [k \in {} |-> ""]

NewEvent == [channel_name |-> "", city |-> "", name |-> "", date_time |-> 0,
             description |-> <<>>, general_information |-> NoInformation, eventOwnerUser |-> ""]

EventStart(frame_body) ==
    /\ body = frame_body
    /\ ss = body
    /\ event = NewEvent
    /\ inGeneralInformation = FALSE
    /\ state = "reading"

HasColon(line) == Len(line) > 1
Key(line) == line[1]

(* A value with a colon in it is lost.                                     *)
Val(line) == IF Len(line) = 2 THEN line[2] ELSE ""

(* Mutant: the key as it stands, with the tab of an indented line.         *)
EntryWhole(key) == key

(* key.substr(1), whatever the first character is: keys that differ in     *)
(* nothing else are one entry.                                             *)
Entry(key) == Tail(key)

(* general_information_from_string[key.substr(1)] = val                    *)
WithEntry(information, line) ==
    [k \in DOMAIN information \cup {Entry(Key(line))} |->
        IF k = Entry(Key(line)) THEN Val(line) ELSE information[k]]

(* stoi refuses a value that is no number, substr an empty key.            *)
Throws(line) ==
    \/ Key(line) = "date time" /\ Val(line) \notin DOMAIN stoi
    \/ Key(line) = "" /\ inGeneralInformation

-----------------------------------------------------------------------------
PlainLine ==
    /\ ~HasColon(Head(ss))
    /\ ss' = Tail(ss)
    /\ UNCHANGED <<event, inGeneralInformation, state>>

(* Mutant: the key of the section is an entry of it.                       *)
GeneralInformationLineKept ==
    /\ HasColon(Head(ss)) /\ Key(Head(ss)) = "general information"
    /\ inGeneralInformation' = TRUE
    /\ event' = [event EXCEPT !.general_information = WithEntry(@, Head(ss))]
    /\ ss' = Tail(ss)
    /\ UNCHANGED state

GeneralInformationLine ==
    /\ HasColon(Head(ss)) /\ Key(Head(ss)) = "general information"
    /\ inGeneralInformation' = TRUE
    /\ ss' = Tail(ss)
    /\ UNCHANGED <<event, state>>

(* A field takes its value wherever its line stands; inside the section    *)
(* every line is an entry as well.  A description takes all that follows.  *)
FieldLine ==
    LET line == Head(ss)
        Set(key, old) == IF Key(line) = key THEN Val(line) ELSE old
    IN
    /\ HasColon(line) /\ Key(line) # "general information" /\ ~Throws(line)
    /\ event' = [event EXCEPT
           !.eventOwnerUser = Set("user", @),
           !.channel_name = Set("channel name", @),
           !.city = Set("city", @),
           !.name = Set("event name", @),
           !.date_time = IF Key(line) = "date time" THEN stoi[Val(line)] ELSE @,
           !.description = IF Key(line) = "description" THEN Tail(ss) ELSE @,
           !.general_information = IF inGeneralInformation THEN WithEntry(@, line) ELSE @]
    /\ ss' = IF Key(line) = "description" THEN <<>> ELSE Tail(ss)
    /\ UNCHANGED <<inGeneralInformation, state>>

ThrowingLine ==
    /\ HasColon(Head(ss)) /\ Key(Head(ss)) # "general information" /\ Throws(Head(ss))
    /\ state' = "threw"
    /\ UNCHANGED <<ss, event, inGeneralInformation>>

Built ==
    /\ state = "reading" /\ ss = <<>>
    /\ state' = "built"
    /\ UNCHANGED <<ss, event, inGeneralInformation>>

ReadLine ==
    /\ state = "reading" /\ ss # <<>>
    /\ PlainLine \/ GeneralInformationLine \/ FieldLine \/ ThrowingLine

EventNext == (ReadLine \/ Built) /\ UNCHANGED body

-----------------------------------------------------------------------------
(* What the fields of the object are, said without reading line by line.   *)

Keyed(ls, keys) == {i \in DOMAIN ls : HasColon(ls[i]) /\ Key(ls[i]) \in keys}

(* The lines up to the description, which is the last one to be parsed.    *)
Parsed(ls) ==
    LET d == Keyed(ls, {"description"})
    IN  IF d = {} THEN ls ELSE SubSeq(ls, 1, Min(d))

(* The last line of a key before or at the description gives the field.    *)
FieldOf(ls, key, absent) ==
    LET at == Keyed(Parsed(ls), {key})
    IN  IF at = {} THEN absent ELSE Val(ls[Max(at)])

(* The lines below the first "general information", other than those that  *)
(* repeat it.                                                              *)
Section(ls) ==
    LET g == Keyed(Parsed(ls), {"general information"})
    IN  {i \in DOMAIN Parsed(ls) : /\ HasColon(ls[i])
                                   /\ g # {} /\ i > Min(g)
                                   /\ Key(ls[i]) # "general information"}

(* Each entry of the section has the name behind the first character of    *)
(* its line; of several lines with one name the last counts, as for        *)
(* "\tactive" and " active".                                               *)
LinesNamed(ls, k) == {i \in Section(ls) : Tail(Key(ls[i])) = k}
InformationOf(ls) ==
    [k \in {Tail(Key(ls[i])) : i \in Section(ls)} |-> Val(ls[Max(LinesNamed(ls, k))])]

Unreadable(ls) ==
    \/ \E i \in Keyed(Parsed(ls), {"date time"}) : Val(ls[i]) \notin DOMAIN stoi
    \/ \E i \in Section(ls) : Key(ls[i]) = ""

(* The object that was built holds what the body says of each field; none  *)
(* is built of a body with a date that is no number, or with an entry of   *)
(* the section that has no key.                                            *)
BuiltAsWritten ==
    /\ state = "built" =>
         /\ ~Unreadable(body)
         /\ event.eventOwnerUser = FieldOf(body, "user", "")
         /\ event.channel_name = FieldOf(body, "channel name", "")
         /\ event.city = FieldOf(body, "city", "")
         /\ event.name = FieldOf(body, "event name", "")
         /\ event.date_time = IF Keyed(Parsed(body), {"date time"}) = {} THEN 0
                              ELSE stoi[FieldOf(body, "date time", "")]
         /\ event.description = SubSeq(body, Len(Parsed(body)) + 1, Len(body))
         /\ event.general_information = InformationOf(body)
    /\ state = "threw" => Unreadable(body)

================================================================================
