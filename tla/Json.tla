-------------------------------- MODULE Json --------------------------------
(***************************************************************************)
(* nlohmann::json, as the records of the program use it: values with a     *)
(* type, and the accessors at, value, get and the range for.               *)
(*                                                                         *)
(* An operation that can throw returns a set: {result}, or {} when it      *)
(* throws.  A number asked of a boolean (0 or 1) and a range over an       *)
(* object are left out.                                                    *)
(***************************************************************************)
EXTENDS Sequences

Null == [type |-> "null"]
Other == [type |-> "other"]     \* of a type nobody asks for in its place
String(text) == [type |-> "string", string |-> text]
Number(n) == [type |-> "number", number |-> n]
Boolean(b) == [type |-> "boolean", boolean |-> b]
Array(elements) == [type |-> "array", array |-> elements]
Object(members) == [type |-> "object", object |-> members]

\* get converts nothing to anything else: another type throws.
get(json, type) == IF json.type = type THEN {json[type]} ELSE {}

at(json, member) ==
    IF json.type = "object" /\ member \in DOMAIN json.object THEN {json.object[member]} ELSE {}

get_at(json, member, type) == UNION {get(m, type) : m \in at(json, member)}

\* The default is for a member that is not there: one of another type throws,
\* and so does a json that is no object.
value(json, member, type, default) ==
    IF json.type # "object" THEN {}
    ELSE IF member \in DOMAIN json.object THEN get(json.object[member], type) ELSE {default}

\* What a range for over value(member, Json::array()) visits: that overload does
\* not look at the type, null has no elements and a scalar is its own.
elements(json, member) ==
    IF json.type # "object" THEN {}
    ELSE IF member \notin DOMAIN json.object \/ json.object[member].type = "null" THEN {<< >>}
    ELSE IF json.object[member].type = "array" THEN {json.object[member].array}
    ELSE {<<json.object[member]>>}

\* The results of converting the elements of a sequence, as one: all of them, or
\* the exception of the first that cannot be converted.
each(converted) ==
    IF \E i \in DOMAIN converted : converted[i] = {} THEN {}
    ELSE {[i \in DOMAIN converted |-> CHOOSE x \in converted[i] : TRUE]}
=============================================================================
