------------------------------ MODULE JsonParser ------------------------------
(***************************************************************************)
(* The parser the client reads its event files with: parser and            *)
(* json_sax_dom_parser of include/json.hpp, from tokens to a value.        *)
(*                                                                         *)
(* A step reads at most one token: the loop of sax_parse_internal is cut   *)
(* at its calls of get_token().  The objects a value is made of are nodes; *)
(* a pointer is the number of a node.                                      *)
(***************************************************************************)
EXTENDS Naturals, Sequences, SequencesExt, FiniteSetsExt, TLC

CONSTANTS Scalars,  \* tokens that are a value by themselves, strings too
          Strings,  \* those of them that are strings
          MaxTokens \* bound on the tokens of a text

(* The types of the tokens that are no values.                             *)
Signs == {"begin_object", "end_object", "begin_array", "end_array", "name_separator",
          "value_separator", "end_of_input", "parse_error"}

ASSUME ParserAssumption ==
    /\ Strings \subseteq Scalars /\ MaxTokens \in Nat
    /\ \A t \in Scalars : t.type \notin Signs \cup {"array", "object"}

VARIABLES got,            \* the tokens read so far
          at,             \* where the loop is
          states,         \* the stack: "array" or "object"
          nodes,          \* the values made so far; the first is the root
          ref_stack,      \* the arrays and objects being read
          object_element, \* the value of the last key
          result          \* "parsing", "value", or the exception

parserVars == <<got, at, states, nodes, ref_stack, object_element, result>>

Sign(s) == [type |-> s]
Tokens == Scalars \cup {Sign(s) : s \in Signs}

Null == [type |-> "null"]
NoMembers == [k \in {} |-> Null]

(* f with v at k; what f has and, where it has nothing, what g has.        *)
Put(f, k, v) == [i \in DOMAIN f \cup {k} |-> IF i = k THEN v ELSE f[i]]
Over(f, g)   == [i \in DOMAIN f \cup DOMAIN g |-> IF i \in DOMAIN f THEN f[i] ELSE g[i]]

ParserInit ==
    /\ got = <<>>
    /\ at = "first token"
    /\ states = <<>>
    /\ nodes = <<>>
    /\ ref_stack = <<>>
    /\ object_element = 0
    /\ result = "parsing"

get_token(t) == Len(got) < MaxTokens /\ got' = Append(got, t)

Fails == result' = "parse_error" /\ at' = "end" /\ UNCHANGED <<states, nodes, ref_stack, object_element>>

-----------------------------------------------------------------------------
(* json_sax_dom_parser.                                                    *)

Top == nodes[Last(ref_stack)]

(* Where handle_value puts a value: the root, the end of the array, or the *)
(* value of the object's last key.                                         *)
ValueNode ==
    CASE ref_stack = <<>>     -> 1
      [] ref_stack # <<>> /\ Top.type = "array"  -> Len(nodes) + 1
      [] ref_stack # <<>> /\ Top.type = "object" -> object_element

HandleValue(v) ==
    LET n == ValueNode
        InParent == IF ref_stack # <<>> /\ Top.type = "array"
                      THEN [nodes EXCEPT ![Last(ref_stack)].items = Append(@, n)]
                      ELSE nodes
    IN  nodes' = IF n > Len(nodes) THEN Append(InParent, v) ELSE [InParent EXCEPT ![n] = v]

Start(v) ==
    /\ HandleValue(v)
    /\ ref_stack' = Append(ref_stack, ValueNode)
    /\ UNCHANGED object_element

(* Mutant: the first of two members with one key is kept.                  *)
SetKeyFresh(k) ==
    /\ object_element' = Len(nodes) + 1
    /\ nodes' = Append(IF k \in DOMAIN Top.members THEN nodes
                       ELSE [nodes EXCEPT ![Last(ref_stack)].members = Put(@, k, Len(nodes) + 1)], Null)
    /\ UNCHANGED ref_stack

(* key(): the key's node, a null when the key is new.                      *)
SetKey(k) ==
    /\ IF k \in DOMAIN Top.members
         THEN object_element' = Top.members[k] /\ UNCHANGED nodes
         ELSE /\ object_element' = Len(nodes) + 1
              /\ nodes' = Append([nodes EXCEPT ![Last(ref_stack)].members = Put(@, k, Len(nodes) + 1)], Null)
    /\ UNCHANGED ref_stack

End == ref_stack' = Front(ref_stack) /\ UNCHANGED <<nodes, object_element>>

-----------------------------------------------------------------------------
(* parser: the token a value starts with.  Only a finite number is one.    *)

FirstToken ==
    /\ at = "first token"
    /\ \E t \in Tokens : get_token(t)
    /\ at' = "value"
    /\ UNCHANGED <<states, nodes, ref_stack, object_element, result>>

Value ==
    /\ at = "value"
    /\ LET t == Last(got) IN
         \/ /\ t = Sign("begin_object")
            /\ Start([type |-> "object", members |-> NoMembers])
            /\ at' = "first key" /\ UNCHANGED <<states, result>>
         \/ /\ t = Sign("begin_array")
            /\ Start([type |-> "array", items |-> <<>>])
            /\ at' = "first item" /\ UNCHANGED <<states, result>>
         \/ /\ t \in Scalars /\ t.type # "overflow"
            /\ HandleValue(t)
            /\ at' = "evaluation" /\ UNCHANGED <<states, ref_stack, object_element, result>>
         \/ /\ t.type = "overflow"
            /\ result' = "out_of_range" /\ at' = "end"
            /\ UNCHANGED <<states, nodes, ref_stack, object_element>>
         \/ t \notin Scalars \cup {Sign("begin_object"), Sign("begin_array")} /\ Fails
    /\ UNCHANGED got

(* Behind {: the end, or the first key.                                    *)
FirstKey ==
    /\ at = "first key"
    /\ \E t \in Tokens :
         /\ get_token(t)
         /\ \/ /\ t = Sign("end_object") /\ End
               /\ at' = "evaluation" /\ UNCHANGED <<states, result>>
            \/ /\ t \in Strings /\ SetKey(t)
               /\ states' = Append(states, "object")
               /\ at' = "name separator" /\ UNCHANGED result
            \/ t \notin Strings \cup {Sign("end_object")} /\ Fails

(* Behind [: the end, or the first value.                                  *)
FirstItem ==
    /\ at = "first item"
    /\ \E t \in Tokens :
         /\ get_token(t)
         /\ \/ t = Sign("end_array") /\ End /\ at' = "evaluation" /\ UNCHANGED states
            \/ /\ t # Sign("end_array")
               /\ states' = Append(states, "array") /\ at' = "value"
               /\ UNCHANGED <<nodes, ref_stack, object_element>>
    /\ UNCHANGED result

(* The colon behind a key, and the token behind a colon or a comma.        *)
NameSeparator ==
    /\ at = "name separator"
    /\ \E t \in Tokens :
         /\ get_token(t)
         /\ \/ /\ t = Sign("name_separator") /\ at' = "next token"
               /\ UNCHANGED <<states, nodes, ref_stack, object_element, result>>
            \/ t # Sign("name_separator") /\ Fails

NextToken ==
    /\ at = "next token"
    /\ \E t \in Tokens : get_token(t)
    /\ at' = "value"
    /\ UNCHANGED <<states, nodes, ref_stack, object_element, result>>

(* A value is complete: the structure around it goes on, or ends, which    *)
(* completes a value again.                                                *)
InArray ==
    /\ at = "evaluation" /\ states # <<>> /\ Last(states) = "array"
    /\ \E t \in Tokens :
         /\ get_token(t)
         /\ \/ /\ t = Sign("value_separator") /\ at' = "next token"
               /\ UNCHANGED <<states, nodes, ref_stack, object_element, result>>
            \/ /\ t = Sign("end_array") /\ End
               /\ states' = Front(states) /\ UNCHANGED <<at, result>>
            \/ t \notin {Sign("value_separator"), Sign("end_array")} /\ Fails

InObject ==
    /\ at = "evaluation" /\ states # <<>> /\ Last(states) = "object"
    /\ \E t \in Tokens :
         /\ get_token(t)
         /\ \/ /\ t = Sign("value_separator") /\ at' = "next key"
               /\ UNCHANGED <<states, nodes, ref_stack, object_element, result>>
            \/ /\ t = Sign("end_object") /\ End
               /\ states' = Front(states) /\ UNCHANGED <<at, result>>
            \/ t \notin {Sign("value_separator"), Sign("end_object")} /\ Fails

NextKey ==
    /\ at = "next key"
    /\ \E t \in Tokens :
         /\ get_token(t)
         /\ \/ t \in Strings /\ SetKey(t) /\ at' = "name separator" /\ UNCHANGED <<states, result>>
            \/ t \notin Strings /\ Fails

(* parse(): nothing may follow the value.                                  *)
EndOfInput ==
    /\ at = "evaluation" /\ states = <<>>
    /\ \E t \in Tokens :
         /\ get_token(t)
         /\ \/ /\ t = Sign("end_of_input")
               /\ result' = "value" /\ at' = "end"
               /\ UNCHANGED <<states, nodes, ref_stack, object_element>>
            \/ t # Sign("end_of_input") /\ Fails

ParserNext ==
    \/ FirstToken \/ Value \/ FirstKey \/ FirstItem \/ NameSeparator \/ NextToken
    \/ InArray \/ InObject \/ NextKey \/ EndOfInput

ParserSpec == ParserInit /\ [][ParserNext]_parserVars

-----------------------------------------------------------------------------
(* JSON, said by its grammar (RFC 8259, sections 2 to 5): every text of n  *)
(* tokens, with the value it stands for.                                   *)

Text(t, v) == [text |-> t, value |-> v]

Scalar1 == {Text(<<t>>, t) : t \in {s \in Scalars : s.type # "overflow"}}

(* What the grammar makes of the shorter texts G[1], G[2], .. for n tokens *)
(* the values, and the items and the members, one or more between commas.  *)
ValuesFrom(G, n) == IF n < 1 THEN {} ELSE G[n].values
Within(G, n)     == IF n < 2 THEN [items |-> {}, members |-> {}] ELSE G[n - 2]
Nothing(n, v)     == IF n = 2 THEN {Text(<<>>, v)} ELSE {}

Around(open, x, close, v) == Text(<<Sign(open)>> \o x \o <<Sign(close)>>, v)
ArrayOf(x)   == Around("begin_array", x.text, "end_array", [type |-> "array", items |-> x.value])
ObjectOf(x)  == Around("begin_object", x.text, "end_object", [type |-> "object", members |-> x.value])
MemberOf(k, v) == Text(<<k, Sign("name_separator")>> \o v.text, Put(NoMembers, k, v.value))

Comma == <<Sign("value_separator")>>
MoreItems(X, V)   == {Text(x.text \o Comma \o v.text, Append(x.value, v.value)) : x \in X, v \in V}
MoreMembers(X, M) == {Text(x.text \o Comma \o m.text, Over(m.value, x.value)) : x \in X, m \in M}

ValueTexts(G, n) ==
    (IF n = 1 THEN Scalar1 ELSE {})
    \cup {ArrayOf(x) : x \in Within(G, n).items \cup Nothing(n, <<>>)}
    \cup {ObjectOf(x) : x \in Within(G, n).members \cup Nothing(n, NoMembers)}
ItemTexts(G, n) ==
    {Text(v.text, <<v.value>>) : v \in ValueTexts(G, n)}
    \cup UNION {MoreItems(G[k].items, ValuesFrom(G, n - k - 1)) : k \in 1 .. n - 2}
SingleTexts(G, n) == {MemberOf(k, v) : k \in Strings, v \in ValuesFrom(G, n - 2)}
MemberTexts(G, n) ==
    SingleTexts(G, n)
    \cup UNION {MoreMembers(G[k].members, SingleTexts(G, n - k - 1)) : k \in 1 .. n - 2}

Productions(G, n) ==
    IF n = 0 THEN [values |-> {}, items |-> {}, members |-> {}]
    ELSE [values |-> ValueTexts(G, n), items |-> ItemTexts(G, n), members |-> MemberTexts(G, n)]

Grammar[n \in 0 .. MaxTokens] == Productions(Grammar, n)

Sentences == UNION {{Text(Append(v.text, Sign("end_of_input")), v.value) : v \in Grammar[n].values} :
                    n \in 1 .. MaxTokens - 1}
Beginnings == UNION {{SubSeq(s.text, 1, k) : k \in 0 .. Len(s.text)} : s \in Sentences}

(* The value a node is the root of, from those of the nodes below it.      *)
ValueOf(tree, n) ==
    CASE nodes[n].type = "array"  -> [nodes[n] EXCEPT !.items = [i \in DOMAIN @ |-> tree[@[i]]]]
      [] nodes[n].type = "object" -> [nodes[n] EXCEPT !.members = [k \in DOMAIN @ |-> tree[@[k]]]]
      [] OTHER -> nodes[n]
ValueAt == LET tree[n \in DOMAIN nodes] == ValueOf(tree, n) IN tree[1]

(* What parse() returns is the value the text stands for, the last of two  *)
(* members with one key counting; what it refuses is no beginning of a     *)
(* text.                                                                   *)
ParsedAsWritten ==
    /\ result = "value" => Text(got, ValueAt) \in Sentences
    /\ result # "value" /\ got \in Beginnings => result = "parsing"

================================================================================
