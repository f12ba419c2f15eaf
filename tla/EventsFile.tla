------------------------------- MODULE EventsFile -------------------------------
(***************************************************************************)
(* The client's parseEventsFile (event.cpp): from the value the parser     *)
(* made of a file to the events in it, one step per event.  The accesses   *)
(* to the value are those of include/json.hpp, which convert silently      *)
(* where they can and throw where they cannot.                             *)
(***************************************************************************)
EXTENDS Integers, Sequences, SequencesExt

CONSTANTS IntMax,   \* the greatest int
          KeyOrder  \* the keys a file may hold, in the order of std::map

ASSUME EventsFileAssumption == IntMax \in Nat /\ KeyOrder \in Seq(STRING)

VARIABLES data,   \* the value of the file
          next,   \* the event the loop is at
          events,
          outcome \* "reading", "returned", or "threw"

fileVars == <<data, next, events, outcome>>

FileStart(value) ==
    /\ data = value
    /\ next = 0
    /\ events = <<>>
    /\ outcome = "reading"

IsNull(v)   == v.type = "null"
IsObject(v) == v.type = "object"
NullValue   == [type |-> "null"]

(* operator[]: only an object has members, and a null becomes one; a key   *)
(* that is missing is added with a null.                                   *)
Subscripts(v) == IsObject(v) \/ IsNull(v)
At(v, key) == IF IsObject(v) /\ key \in DOMAIN v.members THEN v.members[key] ELSE NullValue

(* What a loop over a value sees: nothing of a null, and a value that is   *)
(* no structure as the only element of itself.                             *)
KeysOf(v) ==
    FlattenSeq([i \in DOMAIN KeyOrder |->
                  IF KeyOrder[i] \in DOMAIN v.members THEN <<KeyOrder[i]>> ELSE <<>>])

Elements(v) ==
    CASE v.type = "array"  -> v.items
      [] v.type = "object" -> [i \in DOMAIN KeysOf(v) |-> v.members[KeysOf(v)[i]]]
      [] v.type = "null"   -> <<>>
      [] OTHER             -> <<v>>

(* key() of items(): the index in an array, empty for what is no structure.*)
Name(v, i) ==
    CASE v.type = "array"  -> [index |-> i - 1]
      [] v.type = "object" -> KeysOf(v)[i]
      [] OTHER             -> ""

(* The conversions to a string and to an int.  An integer is cut to the    *)
(* width of an int; a float loses its fraction, and what is beyond an int  *)
(* is undefined.                                                           *)
IsString(v) == v.type = "string"
IsNumeric(v) == v.type \in {"number", "float", "boolean"}
IntMin == -IntMax - 1
IntCount == 2 * (IntMax + 1)
Wrapped(n) == ((n - IntMin) % IntCount) + IntMin

(* Mutant: an int as wide as the number.                                   *)
IntOfWide(v) == IF v.type = "boolean" THEN IF v.value THEN {1} ELSE {0} ELSE {v.value}

IntOf(v) ==
    CASE v.type = "number"  -> {Wrapped(v.value)}
      [] v.type = "float"   -> IF v.value \in IntMin .. IntMax THEN {v.value} ELSE IntMin .. IntMax
      [] v.type = "boolean" -> IF v.value THEN {1} ELSE {0}

(* dump() of what is no string.                                            *)
Shown(v) == IF IsString(v) THEN v.value ELSE [dump |-> v]

Information(v) ==
    [n \in {Name(v, i) : i \in DOMAIN Elements(v)} |->
       Shown(Elements(v)[CHOOSE i \in DOMAIN Elements(v) : Name(v, i) = n])]

-----------------------------------------------------------------------------
Throw == outcome' = "threw" /\ UNCHANGED <<next, events>>

ReadChannel ==
    /\ next = 0
    /\ IF Subscripts(data) /\ IsString(At(data, "channel_name"))
         THEN next' = 1 /\ UNCHANGED <<events, outcome>>
         ELSE Throw

EventOf(e, date) ==
    [channel_name |-> At(data, "channel_name").value, name |-> At(e, "event_name").value,
     city |-> At(e, "city").value, description |-> At(e, "description").value,
     date_time |-> date, general_information |-> Information(At(e, "general_information")),
     eventOwnerUser |-> ""]

Events == Elements(At(data, "events"))

Converts(e) ==
    /\ Subscripts(e)
    /\ \A key \in {"event_name", "city", "description"} : IsString(At(e, key))
    /\ IsNumeric(At(e, "date_time"))

(* The loop's body.  An event that does not convert ends the call, and the *)
(* events before it are lost with it.                                      *)
ReadEvent ==
    /\ next \in DOMAIN Events
    /\ IF Converts(Events[next])
         THEN /\ \E date \in IntOf(At(Events[next], "date_time")) :
                   events' = Append(events, EventOf(Events[next], date))
              /\ next' = next + 1
              /\ UNCHANGED outcome
         ELSE Throw

ReturnEvents ==
    /\ next = Len(Events) + 1
    /\ outcome' = "returned"
    /\ UNCHANGED <<next, events>>

FileNext ==
    /\ outcome = "reading"
    /\ ReadChannel \/ ReadEvent \/ ReturnEvents
    /\ UNCHANGED data

-----------------------------------------------------------------------------
(* Values of which a file may consist: a null among them, and with an      *)
(* object its members, under keys of KeyOrder, with an array its items.    *)
Values(S) ==
    /\ NullValue \in S
    /\ \A v \in S :
         /\ IsObject(v) => /\ DOMAIN v.members \subseteq Range(KeyOrder)
                           /\ \A k \in DOMAIN v.members : v.members[k] \in S
         /\ v.type = "array" => v.items \in Seq(S)
         /\ v.type = "number" => v.value \in Int

(* The form of a file: an object with a channel and an array of events.    *)
HasForm(v, strings) == IsObject(v) /\ \A k \in strings : k \in DOMAIN v.members /\ IsString(v.members[k])

IsEvent(e) ==
    /\ HasForm(e, {"event_name", "city", "description"})
    /\ "date_time" \in DOMAIN e.members /\ e.members["date_time"].type = "number"
    /\ "general_information" \in DOMAIN e.members /\ IsObject(e.members["general_information"])

IsEventsFile(v) ==
    /\ HasForm(v, {"channel_name"})
    /\ "events" \in DOMAIN v.members /\ v.members["events"].type = "array"
    /\ \A i \in DOMAIN v.members["events"].items : IsEvent(v.members["events"].items[i])

(* What else is let through: no events at all, events under keys, a date   *)
(* that is a float or a boolean, and general information of any form.      *)
Coerced(e) ==
    LET Member(k, absent) == IF k \in DOMAIN e.members THEN e.members[k] ELSE absent
        date == Member("date_time", NullValue)
    IN  [type    |-> "object",
         members |-> [k \in DOMAIN e.members \cup {"general_information", "date_time"} |->
           CASE k = "general_information" -> [type |-> "object", members |-> [l \in {} |-> NullValue]]
             [] k = "date_time" -> IF date.type \in {"float", "boolean"}
                                     THEN [type |-> "number", value |-> 0] ELSE date
             [] OTHER -> e.members[k]]]

IsLooseFile(v) ==
    /\ HasForm(v, {"channel_name"})
    /\ "events" \in DOMAIN v.members =>
         LET es == v.members["events"]
             list == IF es.type = "array" THEN Range(es.items)
                     ELSE IF IsObject(es) THEN Range(es.members) ELSE {}
         IN  /\ es.type \in {"array", "object", "null"}
             /\ \A e \in list : IsObject(e) /\ IsEvent(Coerced(e))

(* A file of the right form is read whole: every event, in order, with its *)
(* date if an int can hold it.  No other file is read, but for those that  *)
(* the library makes fit; one event that does not convert costs them all.  *)
FileAsWritten ==
    /\ IsEventsFile(data) =>
         /\ outcome # "threw"
         /\ outcome = "returned" => Len(events) = Len(data.members["events"].items)
         /\ \A i \in DOMAIN events :
              LET e == data.members["events"].items[i].members
                  info == e["general_information"].members
              IN  /\ events[i].name = e["event_name"].value /\ events[i].city = e["city"].value
                  /\ events[i].description = e["description"].value
                  /\ IF e["date_time"].value \in IntMin .. IntMax
                       THEN events[i].date_time = e["date_time"].value
                       ELSE /\ events[i].date_time \in IntMin .. IntMax
                            /\ (events[i].date_time - e["date_time"].value) % IntCount = 0
                  /\ events[i].general_information = [k \in DOMAIN info |-> Shown(info[k])]
    /\ outcome = "returned" => IsLooseFile(data)
    /\ outcome = "threw" => ~IsLooseFile(data)

================================================================================
