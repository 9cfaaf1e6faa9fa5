-------------------------- MODULE DocumentsProofs --------------------------
(***************************************************************************)
(* Proofs about the documents of Encodings: for every record that can be   *)
(* saved and any number of damages, what is saved is what is loaded, and   *)
(* a damage is rejected or loses only what was damaged.                    *)
(***************************************************************************)
EXTENDS Encodings, FiniteSetTheorems, TLAPS

(***************************************************************************)
(* Worn1 .. Worn5: what any number of damages can make of a value of so    *)
(* many levels.  A value that is neither object nor array stays as it is:  *)
(* what replaces it is a matter of the object it is a member of.           *)
(***************************************************************************)
Shrunk(was, json) ==
    /\ was.type = "object"
    /\ json.type = "object"
    /\ DOMAIN json.object \subseteq DOMAIN was.object

Kept(was, json) ==
    /\ was.type = "array"
    /\ json.type = "array"
    /\ DOMAIN json.array = DOMAIN was.array
    /\ json.array = [i \in DOMAIN json.array |-> json.array[i]]

Worn1(was, json) ==
    \/ json = was
    \/ /\ Shrunk(was, json)
       /\ \A m \in DOMAIN json.object : json.object[m] \in Odd(m) \cup {was.object[m]}

Worn2(was, json) ==
    \/ json = was
    \/ /\ Shrunk(was, json)
       /\ \A m \in DOMAIN json.object :
            json.object[m] \in Odd(m) \/ Worn1(was.object[m], json.object[m])
    \/ Kept(was, json) /\ \A i \in DOMAIN json.array : Worn1(was.array[i], json.array[i])

Worn3(was, json) ==
    \/ json = was
    \/ /\ Shrunk(was, json)
       /\ \A m \in DOMAIN json.object :
            json.object[m] \in Odd(m) \/ Worn2(was.object[m], json.object[m])
    \/ Kept(was, json) /\ \A i \in DOMAIN json.array : Worn2(was.array[i], json.array[i])

Worn4(was, json) ==
    \/ json = was
    \/ /\ Shrunk(was, json)
       /\ \A m \in DOMAIN json.object :
            json.object[m] \in Odd(m) \/ Worn3(was.object[m], json.object[m])
    \/ Kept(was, json) /\ \A i \in DOMAIN json.array : Worn3(was.array[i], json.array[i])

Worn5(was, json) ==
    \/ json = was
    \/ /\ Shrunk(was, json)
       /\ \A m \in DOMAIN json.object :
            json.object[m] \in Odd(m) \/ Worn4(was.object[m], json.object[m])
    \/ Kept(was, json) /\ \A i \in DOMAIN json.array : Worn4(was.array[i], json.array[i])

\* What replaces a member has no parts to be damaged.
LEMMA OddIsWhole ==
    ASSUME NEW m, NEW json \in Odd(m)
    PROVE  json.type \notin {"object", "array"}
BY DEF Odd, Null, Other, String

\* One damage of a value, when the values inside[p] are the damages of its part p.
LEMMA OneDamageOfObject ==
    ASSUME NEW json, json.type = "object", NEW inside, NEW next \in OneDamage(json, inside)
    PROVE  /\ next.type = "object"
           /\ \E m \in DOMAIN json.object :
                \/ /\ DOMAIN next.object = DOMAIN json.object \ {m}
                   /\ \A n \in DOMAIN next.object : next.object[n] = json.object[n]
                \/ /\ DOMAIN next.object = DOMAIN json.object
                   /\ next.object[m] \in Odd(m) \cup inside[m]
                   /\ \A n \in DOMAIN next.object \ {m} : next.object[n] = json.object[n]
<1>1. PICK m \in DOMAIN json.object :
          \/ next = Object([n \in DOMAIN json.object \ {m} |-> json.object[n]])
          \/ \E d \in Odd(m) \cup inside[m] : next = Object([json.object EXCEPT ![m] = d])
  BY DEF OneDamage
<1>2. CASE next = Object([n \in DOMAIN json.object \ {m} |-> json.object[n]])
  BY <1>1, <1>2 DEF Object
<1>3. CASE \E d \in Odd(m) \cup inside[m] : next = Object([json.object EXCEPT ![m] = d])
  BY <1>1, <1>3 DEF Object
<1> QED BY <1>1, <1>2, <1>3

LEMMA OneDamageOfArray ==
    ASSUME NEW json, json.type = "array", NEW inside, NEW next \in OneDamage(json, inside)
    PROVE  /\ next.type = "array"
           /\ next.array = [i \in DOMAIN next.array |-> next.array[i]]
           /\ DOMAIN next.array = DOMAIN json.array
BY DEF OneDamage, Array

LEMMA OneDamageOfElement ==
    ASSUME NEW json, json.type = "array", NEW inside, NEW next \in OneDamage(json, inside)
    PROVE  \E i \in DOMAIN json.array :
              /\ next.array[i] \in inside[i]
              /\ \A n \in DOMAIN json.array \ {i} : next.array[n] = json.array[n]
<1>1. PICK i \in DOMAIN json.array : \E d \in inside[i] : next = Array([json.array EXCEPT ![i] = d])
  BY DEF OneDamage
<1> QED BY <1>1 DEF Array

LEMMA WholeIsUndamaged ==
    ASSUME NEW json, json.type \notin {"object", "array"}, NEW inside
    PROVE  OneDamage(json, inside) = {}
BY DEF OneDamage

LEMMA Wear1 ==
    ASSUME NEW was, NEW json, Worn1(was, json), NEW next \in Damaged1(json)
    PROVE  Worn1(was, next)
<1>1. next \in OneDamage(json, [p \in DOMAIN Parts(json) |-> {}])
  BY DEF Damaged1
<1>2. CASE json.type = "object"
  BY <1>1, <1>2, OneDamageOfObject DEF Parts, Worn1, Shrunk
<1>3. CASE json.type = "array"
  BY <1>1, <1>3, OneDamageOfElement DEF Parts
<1> QED BY <1>1, <1>2, <1>3, WholeIsUndamaged

LEMMA Wear2 ==
    ASSUME NEW was, NEW json, Worn2(was, json), NEW next \in Damaged2(json)
    PROVE  Worn2(was, next)
<1>1. next \in OneDamage(json, [p \in DOMAIN Parts(json) |-> Damaged1(Parts(json)[p])])
  BY DEF Damaged2
<1>2. \A x : Worn1(x, x)
  BY DEF Worn1
<1>3. CASE json.type = "object"
  <2>1. DOMAIN json.object \subseteq DOMAIN was.object /\ was.type = "object"
    BY <1>3 DEF Worn2, Shrunk, Kept
  <2>2. \A m \in DOMAIN json.object :
            json.object[m] \in Odd(m) \/ Worn1(was.object[m], json.object[m])
    BY <1>2, <1>3 DEF Worn2, Kept
  <2>3. \A m \in DOMAIN json.object : \A d \in Damaged1(json.object[m]) :
            Worn1(was.object[m], d)
    BY <2>2, Wear1, OddIsWhole, WholeIsUndamaged DEF Damaged1
  <2>4. Shrunk(was, next)
    BY <1>1, <1>3, <2>1, OneDamageOfObject DEF Shrunk
  <2>5. \A m \in DOMAIN next.object :
            next.object[m] \in Odd(m) \/ Worn1(was.object[m], next.object[m])
    BY <1>1, <1>3, <2>2, <2>3, OneDamageOfObject DEF Parts
  <2> QED BY <2>4, <2>5 DEF Worn2
<1>4. CASE json.type = "array"
  <2>1. DOMAIN json.array = DOMAIN was.array /\ was.type = "array"
    BY <1>4 DEF Worn2, Shrunk, Kept
  <2>2. \A i \in DOMAIN json.array : Worn1(was.array[i], json.array[i])
    BY <1>2, <1>4 DEF Worn2, Shrunk
  <2>3. \A i \in DOMAIN json.array : \A d \in Damaged1(json.array[i]) : Worn1(was.array[i], d)
    BY <2>2, Wear1
  <2>4. Kept(was, next)
    BY <1>1, <1>4, <2>1, OneDamageOfArray DEF Kept
  <2>5. DOMAIN next.array = DOMAIN json.array
    BY <1>1, <1>4, OneDamageOfArray
  <2> DEFINE inside == [p \in DOMAIN Parts(json) |-> Damaged1(Parts(json)[p])]
  <2>6. \A i \in DOMAIN json.array : inside[i] = Damaged1(json.array[i])
    BY <1>4 DEF Parts
  <2>7. next \in OneDamage(json, inside)
    BY <1>1
  <2> HIDE DEF inside
  <2>8. PICK i \in DOMAIN json.array :
            /\ next.array[i] \in inside[i]
            /\ \A n \in DOMAIN json.array \ {i} : next.array[n] = json.array[n]
    BY <1>4, <2>7, OneDamageOfElement
  <2>9. \A n \in DOMAIN next.array : Worn1(was.array[n], next.array[n])
    BY <2>2, <2>3, <2>5, <2>6, <2>8
  <2> QED BY <2>4, <2>9 DEF Worn2
<1> QED BY <1>1, <1>3, <1>4, WholeIsUndamaged

LEMMA Wear3 ==
    ASSUME NEW was, NEW json, Worn3(was, json), NEW next \in Damaged3(json)
    PROVE  Worn3(was, next)
<1>1. next \in OneDamage(json, [p \in DOMAIN Parts(json) |-> Damaged2(Parts(json)[p])])
  BY DEF Damaged3
<1>2. \A x : Worn2(x, x)
  BY DEF Worn2
<1>3. CASE json.type = "object"
  <2>1. DOMAIN json.object \subseteq DOMAIN was.object /\ was.type = "object"
    BY <1>3 DEF Worn3, Shrunk, Kept
  <2>2. \A m \in DOMAIN json.object :
            json.object[m] \in Odd(m) \/ Worn2(was.object[m], json.object[m])
    BY <1>2, <1>3 DEF Worn3, Kept
  <2>3. \A m \in DOMAIN json.object : \A d \in Damaged2(json.object[m]) :
            Worn2(was.object[m], d)
    BY <2>2, Wear2, OddIsWhole, WholeIsUndamaged DEF Damaged2
  <2>4. Shrunk(was, next)
    BY <1>1, <1>3, <2>1, OneDamageOfObject DEF Shrunk
  <2>5. \A m \in DOMAIN next.object :
            next.object[m] \in Odd(m) \/ Worn2(was.object[m], next.object[m])
    BY <1>1, <1>3, <2>2, <2>3, OneDamageOfObject DEF Parts
  <2> QED BY <2>4, <2>5 DEF Worn3
<1>4. CASE json.type = "array"
  <2>1. DOMAIN json.array = DOMAIN was.array /\ was.type = "array"
    BY <1>4 DEF Worn3, Shrunk, Kept
  <2>2. \A i \in DOMAIN json.array : Worn2(was.array[i], json.array[i])
    BY <1>2, <1>4 DEF Worn3, Shrunk
  <2>3. \A i \in DOMAIN json.array : \A d \in Damaged2(json.array[i]) : Worn2(was.array[i], d)
    BY <2>2, Wear2
  <2>4. Kept(was, next)
    BY <1>1, <1>4, <2>1, OneDamageOfArray DEF Kept
  <2>5. DOMAIN next.array = DOMAIN json.array
    BY <1>1, <1>4, OneDamageOfArray
  <2> DEFINE inside == [p \in DOMAIN Parts(json) |-> Damaged2(Parts(json)[p])]
  <2>6. \A i \in DOMAIN json.array : inside[i] = Damaged2(json.array[i])
    BY <1>4 DEF Parts
  <2>7. next \in OneDamage(json, inside)
    BY <1>1
  <2> HIDE DEF inside
  <2>8. PICK i \in DOMAIN json.array :
            /\ next.array[i] \in inside[i]
            /\ \A n \in DOMAIN json.array \ {i} : next.array[n] = json.array[n]
    BY <1>4, <2>7, OneDamageOfElement
  <2>9. \A n \in DOMAIN next.array : Worn2(was.array[n], next.array[n])
    BY <2>2, <2>3, <2>5, <2>6, <2>8
  <2> QED BY <2>4, <2>9 DEF Worn3
<1> QED BY <1>1, <1>3, <1>4, WholeIsUndamaged

LEMMA Wear4 ==
    ASSUME NEW was, NEW json, Worn4(was, json), NEW next \in Damaged4(json)
    PROVE  Worn4(was, next)
<1>1. next \in OneDamage(json, [p \in DOMAIN Parts(json) |-> Damaged3(Parts(json)[p])])
  BY DEF Damaged4
<1>2. \A x : Worn3(x, x)
  BY DEF Worn3
<1>3. CASE json.type = "object"
  <2>1. DOMAIN json.object \subseteq DOMAIN was.object /\ was.type = "object"
    BY <1>3 DEF Worn4, Shrunk, Kept
  <2>2. \A m \in DOMAIN json.object :
            json.object[m] \in Odd(m) \/ Worn3(was.object[m], json.object[m])
    BY <1>2, <1>3 DEF Worn4, Kept
  <2>3. \A m \in DOMAIN json.object : \A d \in Damaged3(json.object[m]) :
            Worn3(was.object[m], d)
    BY <2>2, Wear3, OddIsWhole, WholeIsUndamaged DEF Damaged3
  <2>4. Shrunk(was, next)
    BY <1>1, <1>3, <2>1, OneDamageOfObject DEF Shrunk
  <2>5. \A m \in DOMAIN next.object :
            next.object[m] \in Odd(m) \/ Worn3(was.object[m], next.object[m])
    BY <1>1, <1>3, <2>2, <2>3, OneDamageOfObject DEF Parts
  <2> QED BY <2>4, <2>5 DEF Worn4
<1>4. CASE json.type = "array"
  <2>1. DOMAIN json.array = DOMAIN was.array /\ was.type = "array"
    BY <1>4 DEF Worn4, Shrunk, Kept
  <2>2. \A i \in DOMAIN json.array : Worn3(was.array[i], json.array[i])
    BY <1>2, <1>4 DEF Worn4, Shrunk
  <2>3. \A i \in DOMAIN json.array : \A d \in Damaged3(json.array[i]) : Worn3(was.array[i], d)
    BY <2>2, Wear3
  <2>4. Kept(was, next)
    BY <1>1, <1>4, <2>1, OneDamageOfArray DEF Kept
  <2>5. DOMAIN next.array = DOMAIN json.array
    BY <1>1, <1>4, OneDamageOfArray
  <2> DEFINE inside == [p \in DOMAIN Parts(json) |-> Damaged3(Parts(json)[p])]
  <2>6. \A i \in DOMAIN json.array : inside[i] = Damaged3(json.array[i])
    BY <1>4 DEF Parts
  <2>7. next \in OneDamage(json, inside)
    BY <1>1
  <2> HIDE DEF inside
  <2>8. PICK i \in DOMAIN json.array :
            /\ next.array[i] \in inside[i]
            /\ \A n \in DOMAIN json.array \ {i} : next.array[n] = json.array[n]
    BY <1>4, <2>7, OneDamageOfElement
  <2>9. \A n \in DOMAIN next.array : Worn3(was.array[n], next.array[n])
    BY <2>2, <2>3, <2>5, <2>6, <2>8
  <2> QED BY <2>4, <2>9 DEF Worn4
<1> QED BY <1>1, <1>3, <1>4, WholeIsUndamaged

LEMMA Wear5 ==
    ASSUME NEW was, NEW json, Worn5(was, json), NEW next \in Damaged(json)
    PROVE  Worn5(was, next)
<1>1. next \in OneDamage(json, [p \in DOMAIN Parts(json) |-> Damaged4(Parts(json)[p])])
  BY DEF Damaged
<1>2. \A x : Worn4(x, x)
  BY DEF Worn4
<1>3. CASE json.type = "object"
  <2>1. DOMAIN json.object \subseteq DOMAIN was.object /\ was.type = "object"
    BY <1>3 DEF Worn5, Shrunk, Kept
  <2>2. \A m \in DOMAIN json.object :
            json.object[m] \in Odd(m) \/ Worn4(was.object[m], json.object[m])
    BY <1>2, <1>3 DEF Worn5, Kept
  <2>3. \A m \in DOMAIN json.object : \A d \in Damaged4(json.object[m]) :
            Worn4(was.object[m], d)
    BY <2>2, Wear4, OddIsWhole, WholeIsUndamaged DEF Damaged4
  <2>4. Shrunk(was, next)
    BY <1>1, <1>3, <2>1, OneDamageOfObject DEF Shrunk
  <2>5. \A m \in DOMAIN next.object :
            next.object[m] \in Odd(m) \/ Worn4(was.object[m], next.object[m])
    BY <1>1, <1>3, <2>2, <2>3, OneDamageOfObject DEF Parts
  <2> QED BY <2>4, <2>5 DEF Worn5
<1>4. CASE json.type = "array"
  <2>1. DOMAIN json.array = DOMAIN was.array /\ was.type = "array"
    BY <1>4 DEF Worn5, Shrunk, Kept
  <2>2. \A i \in DOMAIN json.array : Worn4(was.array[i], json.array[i])
    BY <1>2, <1>4 DEF Worn5, Shrunk
  <2>3. \A i \in DOMAIN json.array : \A d \in Damaged4(json.array[i]) : Worn4(was.array[i], d)
    BY <2>2, Wear4
  <2>4. Kept(was, next)
    BY <1>1, <1>4, <2>1, OneDamageOfArray DEF Kept
  <2>5. DOMAIN next.array = DOMAIN json.array
    BY <1>1, <1>4, OneDamageOfArray
  <2> DEFINE inside == [p \in DOMAIN Parts(json) |-> Damaged4(Parts(json)[p])]
  <2>6. \A i \in DOMAIN json.array : inside[i] = Damaged4(json.array[i])
    BY <1>4 DEF Parts
  <2>7. next \in OneDamage(json, inside)
    BY <1>1
  <2> HIDE DEF inside
  <2>8. PICK i \in DOMAIN json.array :
            /\ next.array[i] \in inside[i]
            /\ \A n \in DOMAIN json.array \ {i} : next.array[n] = json.array[n]
    BY <1>4, <2>7, OneDamageOfElement
  <2>9. \A n \in DOMAIN next.array : Worn4(was.array[n], next.array[n])
    BY <2>2, <2>3, <2>5, <2>6, <2>8
  <2> QED BY <2>4, <2>9 DEF Worn5
<1> QED BY <1>1, <1>3, <1>4, WholeIsUndamaged

-----------------------------------------------------------------------------

(***************************************************************************)
(* What the accessors find in a worn object: the member there was, or      *)
(* nothing; a default only when the member is missing.                     *)
(***************************************************************************)
Frayed(was, json) ==
    /\ json.type = "object"
    /\ DOMAIN json.object \subseteq DOMAIN was.object
    /\ \A m \in DOMAIN json.object :
        was.object[m].type \notin {"object", "array"} => json.object[m] \in Odd(m) \cup {was.object[m]}

LEMMA WornIsFrayed ==
    ASSUME NEW was, was.type = "object", NEW json,
           \/ Worn1(was, json) \/ Worn2(was, json) \/ Worn3(was, json)
           \/ Worn4(was, json) \/ Worn5(was, json)
    PROVE  Frayed(was, json)
<1>1. CASE Worn1(was, json)
  BY <1>1 DEF Worn1, Shrunk, Frayed
<1>2. CASE Worn2(was, json)
  BY <1>2 DEF Worn1, Worn2, Shrunk, Kept, Frayed
<1>3. CASE Worn3(was, json)
  BY <1>3 DEF Worn2, Worn3, Shrunk, Kept, Frayed
<1>4. CASE Worn4(was, json)
  BY <1>4 DEF Worn3, Worn4, Shrunk, Kept, Frayed
<1>5. CASE Worn5(was, json)
  BY <1>5 DEF Worn4, Worn5, Shrunk, Kept, Frayed
<1> QED BY <1>1, <1>2, <1>3, <1>4, <1>5

Scalar == {"string", "number", "boolean"}

LEMMA GetAtFrayed ==
    ASSUME NEW was, NEW json, Frayed(was, json), NEW type \in Scalar,
           NEW m, m # "kind", was.object[m].type = type
    PROVE  get_at(json, m, type) \subseteq {was.object[m][type]}
BY DEF Frayed, get_at, at, get, Scalar, Odd, Null, Other

LEMMA ValueFrayed ==
    ASSUME NEW was, NEW json, Frayed(was, json), NEW type \in Scalar,
           NEW m, m # "kind", was.object[m].type = type, NEW default
    PROVE  /\ m \in DOMAIN json.object => value(json, m, type, default) \subseteq {was.object[m][type]}
           /\ m \notin DOMAIN json.object => value(json, m, type, default) = {default}
           /\ value(json, m, type, default) \subseteq {was.object[m][type], default}
BY DEF Frayed, value, get, Scalar, Odd, Null, Other

\* An odd value is no record.
LEMMA OddIsNoObject ==
    ASSUME NEW m, NEW json \in Odd(m)
    PROVE  json.type # "object"
BY DEF Odd, Null, Other, String

LEMMA NothingAtNoObject ==
    ASSUME NEW json, json.type # "object"
    PROVE  /\ \A m : at(json, m) = {}
           /\ \A m, type : get_at(json, m, type) = {}
           /\ \A m, type, default : value(json, m, type, default) = {}
BY DEF at, get_at, value

LEMMA MeetingIdReads ==
    ASSUME NEW id \in MeetingId
    PROVE  id \in meeting_id_from_json(meeting_id_to_json(id))
<1> DEFINE json == meeting_id_to_json(id)
<1>1. /\ id.calendar_id \in get_at(json, "calendar_id", "string")
      /\ id.event_id \in get_at(json, "event_id", "string")
      /\ id.instance_id \in get_at(json, "instance_id", "string")
  BY DEF meeting_id_to_json, get_at, at, get, String, Object
<1> HIDE DEF json
<1> QED BY <1>1 DEF meeting_id_from_json, MeetingId, json

LEMMA MeetingIdWorn ==
    ASSUME NEW id \in MeetingId, NEW json, NEW m,
           json \in Odd(m) \/ Frayed(meeting_id_to_json(id), json)
    PROVE  meeting_id_from_json(json) \subseteq {id}
<1>1. CASE json \in Odd(m)
  BY <1>1, OddIsNoObject, NothingAtNoObject DEF meeting_id_from_json
<1>2. CASE Frayed(meeting_id_to_json(id), json)
  <2> DEFINE was == meeting_id_to_json(id)
  <2>1. /\ was.type = "object"
        /\ \A f \in {"calendar_id", "event_id", "instance_id"} :
            was.object[f].type = "string" /\ was.object[f]["string"] = id[f]
    BY DEF meeting_id_to_json, Object, String
  <2>2. Frayed(was, json)
    BY <1>2
  <2> HIDE DEF was
  <2>3. \A f \in {"calendar_id", "event_id", "instance_id"} : get_at(json, f, "string") \subseteq {id[f]}
    BY <2>1, <2>2, GetAtFrayed DEF Scalar
  <2> QED BY <2>3 DEF meeting_id_from_json, MeetingId
<1> QED BY <1>1, <1>2

LEMMA KindReads ==
    ASSUME NEW kind \in DOMAIN KindText
    PROVE  reminder_kind_from_json(String(KindText[kind])) = {kind}
BY DEF reminder_kind_from_json, KindText, get, String

LEMMA KindWorn ==
    ASSUME NEW kind \in DOMAIN KindText, NEW json \in Odd("kind") \cup {String(KindText[kind])}
    PROVE  reminder_kind_from_json(json) \subseteq {kind}
<1>1. CASE json \in Odd("kind")
  BY <1>1 DEF reminder_kind_from_json, KindText, get, Odd, Null, Other, String
<1> QED BY <1>1, KindReads

LEMMA KeyReads ==
    ASSUME NEW key \in ReminderKey
    PROVE  key \in reminder_key_from_json(reminder_key_to_json(key))
<1> DEFINE json == reminder_key_to_json(key)
<1>1. /\ meeting_id_to_json(key.meeting_id) \in at(json, "meeting_id")
      /\ String(KindText[key.kind]) \in at(json, "kind")
  BY DEF reminder_key_to_json, at, Object
<1>2. key.meeting_id \in MeetingId /\ key.kind \in DOMAIN KindText
  BY DEF ReminderKey
<1> HIDE DEF json
<1>3. /\ key.meeting_id \in UNION {meeting_id_from_json(m) : m \in at(json, "meeting_id")}
      /\ key.kind \in UNION {reminder_kind_from_json(m) : m \in at(json, "kind")}
  BY <1>1, <1>2, MeetingIdReads, KindReads
<1> QED BY <1>3 DEF reminder_key_from_json, ReminderKey, json

LEMMA KeyWorn ==
    ASSUME NEW key \in ReminderKey, NEW json, NEW f,
           json \in Odd(f) \/ Worn2(reminder_key_to_json(key), json)
    PROVE  reminder_key_from_json(json) \subseteq {key}
<1>1. CASE json.type # "object"
  BY <1>1, NothingAtNoObject DEF reminder_key_from_json
<1>2. CASE json.type = "object"
  <2> DEFINE was == reminder_key_to_json(key)
  <2>1. /\ was.type = "object"
        /\ was.object["meeting_id"] = meeting_id_to_json(key.meeting_id)
        /\ was.object["kind"] = String(KindText[key.kind])
        /\ was.object["kind"].type = "string"
    BY DEF reminder_key_to_json, Object, String
  <2>2. key.meeting_id \in MeetingId /\ key.kind \in DOMAIN KindText
    BY DEF ReminderKey
  <2>3. Worn2(was, json)
    BY <1>2, OddIsNoObject
  <2> HIDE DEF was
  <2>4. \A m \in at(json, "meeting_id") :
            m \in Odd("meeting_id") \/ Frayed(meeting_id_to_json(key.meeting_id), m)
    <3>1. \A m \in at(json, "meeting_id") :
            m \in Odd("meeting_id") \/ Worn1(meeting_id_to_json(key.meeting_id), m)
      BY <2>1, <2>3 DEF Worn2, Shrunk, Kept, Worn1, at
    <3>2. meeting_id_to_json(key.meeting_id).type = "object"
      BY DEF meeting_id_to_json, Object
    <3> QED BY <3>1, <3>2, WornIsFrayed
  <2>5. \A m \in at(json, "kind") : m \in Odd("kind") \cup {String(KindText[key.kind])}
    BY <2>1, <2>3, WornIsFrayed DEF Frayed, at
  <2>6. /\ UNION {meeting_id_from_json(m) : m \in at(json, "meeting_id")} \subseteq {key.meeting_id}
        /\ UNION {reminder_kind_from_json(m) : m \in at(json, "kind")} \subseteq {key.kind}
    BY <2>2, <2>4, <2>5, MeetingIdWorn, KindWorn
  <2> QED BY <2>6 DEF reminder_key_from_json, ReminderKey
<1> QED BY <1>1, <1>2

Times == {"fired_at_epoch_seconds", "dismissed_at_epoch_seconds", "snoozed_until_epoch_seconds"}

LEMMA EntryReads ==
    ASSUME NEW entry \in Entry, NEW time \in Times
    PROVE  entry \in entry_from_json(entry_to_json(entry, time), time)
<1> DEFINE json == entry_to_json(entry, time)
<1>1. reminder_key_to_json(entry.key) \in at(json, "key")
  BY DEF entry_to_json, at, Object
<1>2. entry.at \in get_at(json, time, "number")
  BY DEF entry_to_json, get_at, at, get, Object, Number, Times
<1>3. entry.key \in ReminderKey
  BY DEF Entry
<1> HIDE DEF json
<1>4. entry.key \in UNION {reminder_key_from_json(m) : m \in at(json, "key")}
  BY <1>1, <1>3, KeyReads
<1> QED BY <1>2, <1>4 DEF entry_from_json, Entry, json

LEMMA EntryWorn ==
    ASSUME NEW entry \in Entry, NEW time \in Times, NEW json, Worn3(entry_to_json(entry, time), json)
    PROVE  entry_from_json(json, time) \subseteq {entry}
<1> DEFINE was == entry_to_json(entry, time)
<1>1. /\ was.type = "object"
      /\ was.object["key"] = reminder_key_to_json(entry.key)
      /\ was.object[time].type = "number" /\ was.object[time]["number"] = entry.at
  BY DEF entry_to_json, Object, Number, Times
<1>2. Worn3(was, json)
  OBVIOUS
<1> HIDE DEF was
<1>3. get_at(json, time, "number") \subseteq {entry.at}
  BY <1>1, <1>2, WornIsFrayed, GetAtFrayed DEF Scalar, Times
<1>4. \A m \in at(json, "key") : m \in Odd("key") \/ Worn2(reminder_key_to_json(entry.key), m)
  BY <1>1, <1>2 DEF Worn3, Shrunk, Kept, Worn2, at
<1>5. UNION {reminder_key_from_json(m) : m \in at(json, "key")} \subseteq {entry.key}
  BY <1>4, KeyWorn DEF Entry
<1> QED BY <1>3, <1>5 DEF entry_from_json, Entry

-----------------------------------------------------------------------------

\* Conversions that fail or give the elements of a sequence, as one.
LEMMA EachOfSame ==
    ASSUME NEW T, NEW was \in Seq(T), NEW converted,
           DOMAIN converted = DOMAIN was, \A i \in DOMAIN was : converted[i] \subseteq {was[i]}
    PROVE  /\ each(converted) \subseteq {was}
           /\ (\A i \in DOMAIN was : was[i] \in converted[i]) => each(converted) = {was}
<1> SUFFICES ASSUME \A i \in DOMAIN was : converted[i] # {}
             PROVE  each(converted) = {was}
  BY DEF each
<1>1. \A i \in DOMAIN was : (CHOOSE x \in converted[i] : TRUE) = was[i]
  OBVIOUS
<1>2. was = [i \in DOMAIN was |-> was[i]]
  OBVIOUS
<1>3. [i \in DOMAIN converted |-> CHOOSE x \in converted[i] : TRUE] = was
  BY <1>1, <1>2
<1> QED BY <1>3 DEF each

LEMMA EachOfNone ==
    ASSUME NEW converted, DOMAIN converted = {}
    PROVE  each(converted) = {<< >>}
BY DEF each

LEMMA EntriesRead ==
    ASSUME NEW entries \in Seq(Entry), NEW time \in Times, NEW list, NEW json,
           json.type = "object", list \in DOMAIN json.object,
           json.object[list] = entries_to_json(entries, time)
    PROVE  entries_from_json(json, list, time) = {entries}
<1> DEFINE found == [i \in DOMAIN entries |-> entry_to_json(entries[i], time)]
           converted == [i \in DOMAIN found |-> entry_from_json(found[i], time)]
<1>1. elements(json, list) = {found}
  BY DEF elements, entries_to_json, Array
<1>2. \A i \in DOMAIN entries : converted[i] = {entries[i]}
  BY EntryReads, EntryWorn DEF Worn3
<1>3. DOMAIN converted = DOMAIN entries
  OBVIOUS
<1>4. each(converted) = {entries}
  <2> HIDE DEF converted
  <2> QED BY <1>2, <1>3, EachOfSame
<1> HIDE DEF found
<1> QED BY <1>1, <1>4 DEF entries_from_json

LEMMA EntriesWorn ==
    ASSUME NEW entries \in Seq(Entry), NEW time \in Times, NEW list, list # "kind", NEW json,
           json.type = "object",
           list \in DOMAIN json.object =>
               \/ json.object[list] \in Odd(list)
               \/ Worn4(entries_to_json(entries, time), json.object[list])
    PROVE  entries_from_json(json, list, time) \subseteq {entries, << >>}
<1>1. CASE list \notin DOMAIN json.object \/ json.object[list] = Null
  <2>1. elements(json, list) = {<< >>}
    BY <1>1 DEF elements, Null
  <2>2. each([i \in DOMAIN << >> |-> entry_from_json(<< >>[i], time)]) = {<< >>}
    BY EachOfNone
  <2> QED BY <2>1, <2>2 DEF entries_from_json
<1>2. CASE list \in DOMAIN json.object /\ json.object[list] = Other
  <2>1. elements(json, list) = {<<Other>>}
    BY <1>2 DEF elements, Other
  <2>2. entry_from_json(Other, time) = {}
    BY NothingAtNoObject DEF entry_from_json, Other
  <2>3. each([i \in DOMAIN <<Other>> |-> entry_from_json(<<Other>>[i], time)]) = {}
    BY <2>2 DEF each
  <2> QED BY <2>1, <2>3 DEF entries_from_json
<1>3. CASE list \in DOMAIN json.object /\ Worn4(entries_to_json(entries, time), json.object[list])
  <2> DEFINE found == json.object[list].array
             converted == [i \in DOMAIN found |-> entry_from_json(found[i], time)]
  <2>1. /\ json.object[list].type = "array" /\ DOMAIN found = DOMAIN entries
        /\ \A i \in DOMAIN entries : Worn3(entry_to_json(entries[i], time), found[i])
    <3> DEFINE was == entries_to_json(entries, time)
    <3>1. /\ was.type = "array" /\ DOMAIN was.array = DOMAIN entries
          /\ \A i \in DOMAIN entries : was.array[i] = entry_to_json(entries[i], time)
      BY DEF entries_to_json, Array
    <3>2. Worn4(was, json.object[list])
      BY <1>3
    <3>3. \A x : Worn3(x, x)
      BY DEF Worn3
    <3> HIDE DEF was
    <3> QED BY <3>1, <3>2, <3>3 DEF Worn4, Shrunk, Kept
  <2>2. elements(json, list) = {found}
    BY <1>3, <2>1 DEF elements
  <2>3. \A i \in DOMAIN entries : converted[i] \subseteq {entries[i]}
    BY <2>1, EntryWorn
  <2>4. DOMAIN converted = DOMAIN entries
    BY <2>1
  <2>5. each(converted) \subseteq {entries}
    <3> HIDE DEF converted
    <3> QED BY <2>3, <2>4, EachOfSame
  <2> HIDE DEF found
  <2> QED BY <2>2, <2>5 DEF entries_from_json
<1> QED BY <1>1, <1>2, <1>3 DEF Odd

LEMMA MeetingReads ==
    ASSUME NEW meeting \in Meeting
    PROVE  meeting_from_json(meeting_to_json(meeting)) = {meeting}
<1> DEFINE json == meeting_to_json(meeting)
<1>1. /\ at(json, "id") = {meeting_id_to_json(meeting.id)}
      /\ value(json, "title", "string", "") = {meeting.title}
      /\ get_at(json, "starts_at_epoch_seconds", "number") = {meeting.starts_at}
      /\ get_at(json, "ends_at_epoch_seconds", "number") = {meeting.ends_at}
      /\ value(json, "join_url", "string", "") = {meeting.join_url}
      /\ value(json, "cancelled", "boolean", FALSE) = {meeting.cancelled}
  BY DEF meeting_to_json, at, get_at, value, get, Object, String, Number, Boolean
<1>2. meeting_id_from_json(meeting_id_to_json(meeting.id)) = {meeting.id}
  <2>1. meeting.id \in MeetingId
    BY DEF Meeting
  <2>2. Frayed(meeting_id_to_json(meeting.id), meeting_id_to_json(meeting.id))
    BY DEF Frayed, meeting_id_to_json, Object
  <2> QED BY <2>1, <2>2, MeetingIdReads, MeetingIdWorn
<1> HIDE DEF json
<1>3. UNION {meeting_id_from_json(m) : m \in at(json, "id")} = {meeting.id}
  BY <1>1, <1>2, ZenonT(30)
<1>4. meeting \in meeting_from_json(json)
  BY <1>1, <1>3 DEF meeting_from_json, Meeting
<1>5. ASSUME NEW x \in meeting_from_json(json)
      PROVE  x = meeting
  <2> DEFINE fields == {"id", "title", "starts_at", "ends_at", "join_url", "cancelled"}
  <2>1. x = [f \in fields |-> x[f]] /\ meeting = [f \in fields |-> meeting[f]]
    BY <1>5 DEF meeting_from_json, Meeting
  <2>2. /\ x["id"] = meeting["id"] /\ x["title"] = meeting["title"]
        /\ x["starts_at"] = meeting["starts_at"] /\ x["ends_at"] = meeting["ends_at"]
        /\ x["join_url"] = meeting["join_url"]
    BY <1>1, <1>3, <1>5 DEF meeting_from_json
  <2>3. x["cancelled"] = meeting["cancelled"]
    BY <1>1, <1>5 DEF meeting_from_json
  <2>4. \A f \in fields : x[f] = meeting[f]
    BY <2>2, <2>3
  <2> HIDE DEF fields
  <2> QED BY <2>1, <2>4
<1> QED BY <1>4, <1>5 DEF json

LEMMA MeetingWorn ==
    ASSUME NEW meeting \in Meeting, NEW json, Worn3(meeting_to_json(meeting), json),
           NEW loaded \in meeting_from_json(json)
    PROVE  OnlyDefaults(meeting, loaded, NewRecord.meeting)
<1> DEFINE was == meeting_to_json(meeting)
<1>1. /\ was.type = "object"
      /\ was.object["id"] = meeting_id_to_json(meeting.id)
      /\ was.object["title"].type = "string" /\ was.object["title"]["string"] = meeting.title
      /\ was.object["join_url"].type = "string" /\ was.object["join_url"]["string"] = meeting.join_url
      /\ was.object["cancelled"].type = "boolean"
      /\ was.object["cancelled"]["boolean"] = meeting.cancelled
      /\ was.object["starts_at_epoch_seconds"].type = "number"
      /\ was.object["starts_at_epoch_seconds"]["number"] = meeting.starts_at
      /\ was.object["ends_at_epoch_seconds"].type = "number"
      /\ was.object["ends_at_epoch_seconds"]["number"] = meeting.ends_at
  BY DEF meeting_to_json, Object, String, Number, Boolean
<1>2. Worn3(was, json)
  OBVIOUS
<1> HIDE DEF was
<1>3. Frayed(was, json)
  BY <1>1, <1>2, WornIsFrayed
<1>4. /\ get_at(json, "starts_at_epoch_seconds", "number") \subseteq {meeting.starts_at}
      /\ get_at(json, "ends_at_epoch_seconds", "number") \subseteq {meeting.ends_at}
  BY <1>1, <1>3, GetAtFrayed DEF Scalar
<1>5. /\ value(json, "title", "string", "") \subseteq {meeting.title, ""}
      /\ value(json, "join_url", "string", "") \subseteq {meeting.join_url, ""}
      /\ value(json, "cancelled", "boolean", FALSE) \subseteq {meeting.cancelled, FALSE}
  <2>1. value(json, "title", "string", "") \subseteq {was.object["title"]["string"], ""}
    BY <1>1, <1>3, ValueFrayed DEF Scalar
  <2>2. value(json, "join_url", "string", "") \subseteq {was.object["join_url"]["string"], ""}
    BY <1>1, <1>3, ValueFrayed DEF Scalar
  <2>3. value(json, "cancelled", "boolean", FALSE) \subseteq {was.object["cancelled"]["boolean"], FALSE}
    BY <1>1, <1>3, ValueFrayed DEF Scalar
  <2> QED BY <1>1, <2>1, <2>2, <2>3
<1>6. \A m \in at(json, "id") : m \in Odd("id") \/ Frayed(meeting_id_to_json(meeting.id), m)
  <2>1. \A m \in at(json, "id") : m \in Odd("id") \/ Worn2(meeting_id_to_json(meeting.id), m)
    BY <1>1, <1>2, ZenonT(30) DEF Worn3, Shrunk, Kept, Worn2, at
  <2>2. meeting_id_to_json(meeting.id).type = "object"
    BY DEF meeting_id_to_json, Object
  <2> QED BY <2>1, <2>2, WornIsFrayed
<1>7. UNION {meeting_id_from_json(m) : m \in at(json, "id")} \subseteq {meeting.id}
  BY <1>6, MeetingIdWorn DEF Meeting
<1>8. /\ loaded.id = meeting.id
      /\ loaded.starts_at = meeting.starts_at
      /\ loaded.ends_at = meeting.ends_at
      /\ loaded.title \in {meeting.title, ""}
      /\ loaded.join_url \in {meeting.join_url, ""}
      /\ loaded.cancelled \in {meeting.cancelled, FALSE}
  BY <1>4, <1>5, <1>7 DEF meeting_from_json
<1>9. DOMAIN meeting = {"id", "title", "starts_at", "ends_at", "join_url", "cancelled"}
  BY DEF Meeting
<1>10. Changed(meeting, loaded) \subseteq {"title", "join_url", "cancelled"}
  BY <1>8, <1>9 DEF Changed
<1>11. /\ DOMAIN NewRecord.meeting = {"title", "join_url", "cancelled"}
       /\ NewRecord.meeting["title"] = "" /\ NewRecord.meeting["join_url"] = ""
       /\ NewRecord.meeting["cancelled"] = FALSE
  BY DEF NewRecord
<1> QED BY <1>8, <1>10, <1>11 DEF OnlyDefaults, Changed

-----------------------------------------------------------------------------

(***************************************************************************)
(* Touched: the members of the document written that are missing from the  *)
(* one read, or not what they were.  Contained: what a damaged document is *)
(* loaded as - the fields of untouched members are what they were, and all *)
(* others that too, or what a new record holds.                            *)
(***************************************************************************)
Touched(was, json) ==
    {m \in DOMAIN was.object : m \notin DOMAIN json.object \/ json.object[m] # was.object[m]}

MemberOf(kind) ==
    CASE kind = "settings" ->
            [schema_version |-> "schema_version", poll_interval |-> "poll_interval_seconds",
             stale_cache_tolerance |-> "stale_cache_tolerance_seconds",
             default_snooze_duration |-> "default_snooze_seconds"]
      [] kind = "reminder_state" ->
            [fired_reminders |-> "fired_reminders", dismissed_reminders |-> "dismissed_reminders",
             snoozed_reminders |-> "snoozed_reminders"]
      [] kind = "event_cache" ->
            [schema_version |-> "schema_version", cached_at |-> "cached_at_epoch_seconds",
             meetings |-> "meetings"]
      [] kind = "credentials" ->
            [schema_version |-> "schema_version", access_token |-> "access_token",
             refresh_token |-> "refresh_token", token_type |-> "token_type",
             expires_at |-> "expires_at_epoch_seconds", scopes |-> "scopes"]

IsDefault(kind, f, x) == f \in DOMAIN DefaultOf(kind) /\ x = DefaultOf(kind)[f]

Contained(kind, record, json, loaded) ==
    /\ loaded = [f \in DOMAIN record |-> loaded[f]]
    /\ \A f \in DOMAIN record :
        /\ MemberOf(kind)[f] \notin Touched(to_json(kind, record), json) => loaded[f] = record[f]
        /\ \/ loaded[f] = record[f]
           \/ IsDefault(kind, f, loaded[f])
           \/ kind = "event_cache" /\ f = "meetings" /\ SameMeetings(record.meetings, loaded.meetings)

LEMMA GetAtField ==
    ASSUME NEW was, NEW json, Frayed(was, json), NEW type \in Scalar,
           NEW m, m # "kind", was.object[m].type = type, NEW x \in get_at(json, m, type)
    PROVE  x = was.object[m][type]
BY GetAtFrayed

LEMMA ValueField ==
    ASSUME NEW was, NEW json, Frayed(was, json), NEW type \in Scalar,
           NEW m, m \in DOMAIN was.object, m # "kind", was.object[m].type = type,
           NEW default, NEW x \in value(json, m, type, default)
    PROVE  /\ m \notin Touched(was, json) => x = was.object[m][type]
           /\ x = was.object[m][type] \/ x = default
BY ValueFrayed DEF Touched

LEMMA SettingsRead ==
    ASSUME NEW record \in Settings
    PROVE  record \in settings_from_json(settings_to_json(record))
<1> DEFINE json == settings_to_json(record)
<1>1. /\ record.schema_version \in value(json, "schema_version", "number", 1)
      /\ record.poll_interval \in value(json, "poll_interval_seconds", "number", 300)
      /\ record.stale_cache_tolerance \in value(json, "stale_cache_tolerance_seconds", "number", 3600)
      /\ record.default_snooze_duration \in value(json, "default_snooze_seconds", "number", 300)
  BY DEF settings_to_json, value, get, Object, Number
<1> HIDE DEF json
<1> QED BY <1>1 DEF settings_from_json, Settings, json

LEMMA SettingsContained ==
    ASSUME NEW record \in Settings, NEW json, Frayed(settings_to_json(record), json),
           NEW loaded \in settings_from_json(json)
    PROVE  Contained("settings", record, json, loaded)
<1> DEFINE was == settings_to_json(record)
<1>1. /\ was.type = "object"
      /\ DOMAIN was.object = {"schema_version", "poll_interval_seconds",
                              "stale_cache_tolerance_seconds", "default_snooze_seconds"}
      /\ \A m \in DOMAIN was.object : was.object[m].type = "number"
      /\ was.object["schema_version"]["number"] = record.schema_version
      /\ was.object["poll_interval_seconds"]["number"] = record.poll_interval
      /\ was.object["stale_cache_tolerance_seconds"]["number"] = record.stale_cache_tolerance
      /\ was.object["default_snooze_seconds"]["number"] = record.default_snooze_duration
  BY DEF settings_to_json, Object, Number
<1>2. Frayed(was, json)
  OBVIOUS
<1>3. to_json("settings", record) = was
  BY DEF to_json
<1> HIDE DEF was
<1>4. /\ loaded.schema_version \in value(json, "schema_version", "number", 1)
      /\ loaded.poll_interval \in value(json, "poll_interval_seconds", "number", 300)
      /\ loaded.stale_cache_tolerance \in value(json, "stale_cache_tolerance_seconds", "number", 3600)
      /\ loaded.default_snooze_duration \in value(json, "default_snooze_seconds", "number", 300)
      /\ loaded = [f \in {"schema_version", "poll_interval", "stale_cache_tolerance",
                          "default_snooze_duration"} |-> loaded[f]]
  BY DEF settings_from_json
<1>5. /\ "schema_version" \notin Touched(was, json) => loaded.schema_version = record.schema_version
      /\ loaded.schema_version = record.schema_version \/ loaded.schema_version = 1
  BY <1>1, <1>2, <1>4, ValueField DEF Scalar
<1>6. /\ "poll_interval_seconds" \notin Touched(was, json) => loaded.poll_interval = record.poll_interval
      /\ loaded.poll_interval = record.poll_interval \/ loaded.poll_interval = 300
  BY <1>1, <1>2, <1>4, ValueField DEF Scalar
<1>7. /\ "stale_cache_tolerance_seconds" \notin Touched(was, json) =>
            loaded.stale_cache_tolerance = record.stale_cache_tolerance
      /\ loaded.stale_cache_tolerance = record.stale_cache_tolerance \/ loaded.stale_cache_tolerance = 3600
  BY <1>1, <1>2, <1>4, ValueField DEF Scalar
<1>8. /\ "default_snooze_seconds" \notin Touched(was, json) =>
            loaded.default_snooze_duration = record.default_snooze_duration
      /\ loaded.default_snooze_duration = record.default_snooze_duration
            \/ loaded.default_snooze_duration = 300
  BY <1>1, <1>2, <1>4, ValueField DEF Scalar
<1>9. DOMAIN record = {"schema_version", "poll_interval", "stale_cache_tolerance", "default_snooze_duration"}
  BY DEF Settings
<1>10. MemberOf("settings") =
            [schema_version |-> "schema_version", poll_interval |-> "poll_interval_seconds",
             stale_cache_tolerance |-> "stale_cache_tolerance_seconds",
             default_snooze_duration |-> "default_snooze_seconds"]
  BY DEF MemberOf
<1>11. DefaultOf("settings") = [schema_version |-> 1, poll_interval |-> 300,
                   stale_cache_tolerance |-> 3600, default_snooze_duration |-> 300]
  BY DEF DefaultOf, NewRecord
<1> QED BY <1>3, <1>4, <1>5, <1>6, <1>7, <1>8, <1>9, <1>10, <1>11 DEF Contained, IsDefault

-----------------------------------------------------------------------------

\* The lists of a reminder state, the meetings of a cache and the scopes of a
\* credential record, each read from a worn document.
LEMMA EntriesField ==
    ASSUME NEW entries \in Seq(Entry), NEW time \in Times, NEW was, NEW json, Worn5(was, json),
           was.type = "object", json.type = "object", NEW list \in DOMAIN was.object, list # "kind",
           was.object[list] = entries_to_json(entries, time)
    PROVE  \A x \in entries_from_json(json, list, time) :
              /\ list \notin Touched(was, json) => x = entries
              /\ x = entries \/ x = << >>
<1>1. list \notin Touched(was, json) => entries_from_json(json, list, time) = {entries}
  BY EntriesRead DEF Touched
<1>2. list \in DOMAIN json.object =>
          json.object[list] \in Odd(list) \/ Worn4(entries_to_json(entries, time), json.object[list])
  BY DEF Worn5, Worn4, Shrunk, Kept
<1>3. entries_from_json(json, list, time) \subseteq {entries, << >>}
  BY <1>2, EntriesWorn
<1> QED BY <1>1, <1>3

LEMMA EachMembers ==
    ASSUME NEW converted, NEW x \in each(converted)
    PROVE  DOMAIN x = DOMAIN converted /\ \A i \in DOMAIN converted : x[i] \in converted[i]
BY DEF each

Meetings(found) == each([i \in DOMAIN found |-> meeting_from_json(found[i])])

LEMMA MeetingsField ==
    ASSUME NEW meetings \in Seq(Meeting), NEW was, NEW json, Worn5(was, json),
           was.type = "object", json.type = "object", NEW list \in DOMAIN was.object, list # "kind",
           was.object[list] = Array([i \in DOMAIN meetings |-> meeting_to_json(meetings[i])]),
           NEW found \in elements(json, list)
    PROVE  \A x \in Meetings(found) :
              /\ list \notin Touched(was, json) => x = meetings
              /\ x = meetings \/ x = << >> \/ SameMeetings(meetings, x)
<1> SUFFICES ASSUME NEW x \in Meetings(found)
             PROVE  /\ list \notin Touched(was, json) => x = meetings
                    /\ x = meetings \/ x = << >> \/ SameMeetings(meetings, x)
  OBVIOUS
<1> DEFINE converted == [i \in DOMAIN found |-> meeting_from_json(found[i])]
<1>1. CASE list \notin DOMAIN json.object \/ json.object[list] = Null
  <2>1. found = << >>
    BY <1>1 DEF elements, Null
  <2>2. x = << >>
    BY <2>1, EachOfNone DEF Meetings
  <2>3. list \in Touched(was, json)
    BY <1>1 DEF Touched, Null, Array
  <2> QED BY <2>2, <2>3
<1>2. CASE list \in DOMAIN json.object /\ json.object[list] = Other
  <2>1. found = <<Other>>
    BY <1>2 DEF elements, Other
  <2>2. meeting_from_json(Other) = {}
    <3>1. get_at(Other, "starts_at_epoch_seconds", "number") = {}
      BY NothingAtNoObject DEF Other
    <3> QED BY <3>1 DEF meeting_from_json
  <2> QED BY <2>1, <2>2, EachMembers DEF Meetings
<1>3. CASE list \in DOMAIN json.object /\ json.object[list] \notin Odd(list)
  <2>1. Worn4(was.object[list], json.object[list])
    BY <1>3 DEF Worn5, Worn4, Shrunk, Kept
  <2>2. /\ json.object[list].type = "array" /\ DOMAIN json.object[list].array = DOMAIN meetings
        /\ \A i \in DOMAIN meetings : Worn3(meeting_to_json(meetings[i]), json.object[list].array[i])
    <3>1. /\ was.object[list].type = "array" /\ DOMAIN was.object[list].array = DOMAIN meetings
          /\ \A i \in DOMAIN meetings : was.object[list].array[i] = meeting_to_json(meetings[i])
      BY DEF Array
    <3>2. \A y : Worn3(y, y)
      BY DEF Worn3
    <3> QED BY <2>1, <3>1, <3>2 DEF Worn4, Shrunk, Kept
  <2>3. found = json.object[list].array
    BY <1>3, <2>2 DEF elements
  <2>4. DOMAIN x = DOMAIN meetings /\ \A i \in DOMAIN meetings : x[i] \in meeting_from_json(found[i])
    BY <2>2, <2>3, EachMembers DEF Meetings
  <2>5. SameMeetings(meetings, x)
    <3>1. \A i \in DOMAIN meetings : meetings[i] \in Meeting
      OBVIOUS
    <3> QED BY <2>2, <2>3, <2>4, <3>1, MeetingWorn DEF SameMeetings
  <2>6. ASSUME list \notin Touched(was, json)
        PROVE  x = meetings
    <3>1. \A i \in DOMAIN meetings : found[i] = meeting_to_json(meetings[i])
      BY <2>3, <2>6 DEF Touched, Array
    <3>2. \A i \in DOMAIN meetings : converted[i] = {meetings[i]}
      BY <2>2, <2>3, <3>1, MeetingReads
    <3>3. DOMAIN converted = DOMAIN meetings
      BY <2>2, <2>3
    <3>4. x \in each(converted)
      BY DEF Meetings
    <3> HIDE DEF converted
    <3> QED BY <3>2, <3>3, <3>4, EachOfSame
  <2> QED BY <2>5, <2>6
<1> QED BY <1>1, <1>2, <1>3 DEF Odd

LEMMA StringsField ==
    ASSUME NEW texts \in Seq(STRING), NEW was, NEW json, Worn5(was, json),
           was.type = "object", json.type = "object", NEW list \in DOMAIN was.object, list # "kind",
           was.object[list] = Array([i \in DOMAIN texts |-> String(texts[i])])
    PROVE  \A x \in strings(json, list) :
              /\ list \notin Touched(was, json) => x = texts
              /\ x = texts \/ x = << >>
<1> SUFFICES ASSUME NEW x \in strings(json, list)
             PROVE  /\ list \notin Touched(was, json) => x = texts
                    /\ x = texts \/ x = << >>
  OBVIOUS
<1>1. PICK found \in value(json, list, "array", << >>) :
          x \in each([i \in DOMAIN found |-> get(found[i], "string")])
  BY DEF strings
<1>2. CASE list \notin DOMAIN json.object
  <2>1. found = << >>
    BY <1>1, <1>2 DEF value
  <2> QED BY <1>1, <1>2, <2>1, EachOfNone DEF Touched
<1>3. CASE list \in DOMAIN json.object
  <2>1. json.object[list] \notin Odd(list) /\ found = json.object[list].array
    BY <1>1, <1>3 DEF value, get, Odd, Null, Other
  <2>2. Worn4(was.object[list], json.object[list])
    BY <1>3, <2>1 DEF Worn5, Worn4, Shrunk, Kept
  <2>3. /\ was.object[list].type = "array" /\ DOMAIN was.object[list].array = DOMAIN texts
        /\ \A i \in DOMAIN texts : was.object[list].array[i] = String(texts[i])
    BY DEF Array
  <2>4. DOMAIN found = DOMAIN texts /\ \A i \in DOMAIN texts : Worn3(String(texts[i]), found[i])
    <3>1. \A y : Worn3(y, y)
      BY DEF Worn3
    <3> QED BY <2>1, <2>2, <2>3, <3>1 DEF Worn4, Shrunk, Kept
  <2>5. \A i \in DOMAIN texts : found[i] = String(texts[i])
    BY <2>4 DEF Worn3, Shrunk, Kept, String
  <2> DEFINE converted == [i \in DOMAIN found |-> get(found[i], "string")]
  <2>6. DOMAIN converted = DOMAIN texts /\ \A i \in DOMAIN texts : converted[i] = {texts[i]}
    BY <2>4, <2>5 DEF get, String
  <2>7. x \in each(converted)
    BY <1>1
  <2> HIDE DEF converted
  <2> QED BY <2>6, <2>7, EachOfSame
<1> QED BY <1>2, <1>3

-----------------------------------------------------------------------------

LEMMA ReminderStateRead ==
    ASSUME NEW record \in ReminderState
    PROVE  record \in reminder_state_from_json(reminder_state_to_json(record))
<1> DEFINE json == reminder_state_to_json(record)
<1>1. /\ json.type = "object"
      /\ {"fired_reminders", "dismissed_reminders", "snoozed_reminders"} \subseteq DOMAIN json.object
      /\ json.object["fired_reminders"] = entries_to_json(record.fired_reminders, "fired_at_epoch_seconds")
      /\ json.object["dismissed_reminders"] =
            entries_to_json(record.dismissed_reminders, "dismissed_at_epoch_seconds")
      /\ json.object["snoozed_reminders"] =
            entries_to_json(record.snoozed_reminders, "snoozed_until_epoch_seconds")
  BY DEF reminder_state_to_json, Object
<1>2. /\ record.fired_reminders \in Seq(Entry) /\ record.dismissed_reminders \in Seq(Entry)
      /\ record.snoozed_reminders \in Seq(Entry)
  BY DEF ReminderState
<1> HIDE DEF json
<1>3. entries_from_json(json, "fired_reminders", "fired_at_epoch_seconds") = {record.fired_reminders}
  BY <1>1, <1>2, EntriesRead DEF Times
<1>4. entries_from_json(json, "dismissed_reminders", "dismissed_at_epoch_seconds") =
          {record.dismissed_reminders}
  BY <1>1, <1>2, EntriesRead DEF Times
<1>5. entries_from_json(json, "snoozed_reminders", "snoozed_until_epoch_seconds") =
          {record.snoozed_reminders}
  BY <1>1, <1>2, EntriesRead DEF Times
<1> QED BY <1>3, <1>4, <1>5 DEF reminder_state_from_json, ReminderState, json

LEMMA ReminderStateContained ==
    ASSUME NEW record \in ReminderState, NEW json, json.type = "object",
           Worn5(reminder_state_to_json(record), json),
           NEW loaded \in reminder_state_from_json(json)
    PROVE  Contained("reminder_state", record, json, loaded)
<1> DEFINE was == reminder_state_to_json(record)
<1>1. /\ was.type = "object"
      /\ {"fired_reminders", "dismissed_reminders", "snoozed_reminders"} \subseteq DOMAIN was.object
      /\ was.object["fired_reminders"] = entries_to_json(record.fired_reminders, "fired_at_epoch_seconds")
      /\ was.object["dismissed_reminders"] =
            entries_to_json(record.dismissed_reminders, "dismissed_at_epoch_seconds")
      /\ was.object["snoozed_reminders"] =
            entries_to_json(record.snoozed_reminders, "snoozed_until_epoch_seconds")
  BY DEF reminder_state_to_json, Object
<1>2. /\ record.fired_reminders \in Seq(Entry) /\ record.dismissed_reminders \in Seq(Entry)
      /\ record.snoozed_reminders \in Seq(Entry)
  BY DEF ReminderState
<1>3. Worn5(was, json) /\ to_json("reminder_state", record) = was
  BY DEF to_json
<1> HIDE DEF was
<1>4. /\ loaded.fired_reminders \in entries_from_json(json, "fired_reminders", "fired_at_epoch_seconds")
      /\ loaded.dismissed_reminders \in
            entries_from_json(json, "dismissed_reminders", "dismissed_at_epoch_seconds")
      /\ loaded.snoozed_reminders \in
            entries_from_json(json, "snoozed_reminders", "snoozed_until_epoch_seconds")
      /\ loaded = [f \in {"fired_reminders", "dismissed_reminders", "snoozed_reminders"} |-> loaded[f]]
  BY DEF reminder_state_from_json
<1>5. /\ "fired_reminders" \notin Touched(was, json) => loaded.fired_reminders = record.fired_reminders
      /\ loaded.fired_reminders = record.fired_reminders \/ loaded.fired_reminders = << >>
  <2>0. /\ record.fired_reminders \in Seq(Entry) /\ "fired_at_epoch_seconds" \in Times
        /\ Worn5(was, json) /\ was.type = "object" /\ json.type = "object"
        /\ "fired_reminders" \in DOMAIN was.object /\ "fired_reminders" # "kind"
        /\ was.object["fired_reminders"] = entries_to_json(record.fired_reminders, "fired_at_epoch_seconds")
    BY <1>1, <1>2, <1>3 DEF Times
  <2>1. \A x \in entries_from_json(json, "fired_reminders", "fired_at_epoch_seconds") :
            /\ "fired_reminders" \notin Touched(was, json) => x = record.fired_reminders
            /\ x = record.fired_reminders \/ x = << >>
    BY <2>0, EntriesField, Zenon
  <2> QED BY <1>4, <2>1
<1>6. /\ "dismissed_reminders" \notin Touched(was, json) =>
            loaded.dismissed_reminders = record.dismissed_reminders
      /\ loaded.dismissed_reminders = record.dismissed_reminders \/ loaded.dismissed_reminders = << >>
  <2>0. /\ record.dismissed_reminders \in Seq(Entry) /\ "dismissed_at_epoch_seconds" \in Times
        /\ Worn5(was, json) /\ was.type = "object" /\ json.type = "object"
        /\ "dismissed_reminders" \in DOMAIN was.object /\ "dismissed_reminders" # "kind"
        /\ was.object["dismissed_reminders"] = entries_to_json(record.dismissed_reminders, "dismissed_at_epoch_seconds")
    BY <1>1, <1>2, <1>3 DEF Times
  <2>1. \A x \in entries_from_json(json, "dismissed_reminders", "dismissed_at_epoch_seconds") :
            /\ "dismissed_reminders" \notin Touched(was, json) => x = record.dismissed_reminders
            /\ x = record.dismissed_reminders \/ x = << >>
    BY <2>0, EntriesField, Zenon
  <2> QED BY <1>4, <2>1
<1>7. /\ "snoozed_reminders" \notin Touched(was, json) =>
            loaded.snoozed_reminders = record.snoozed_reminders
      /\ loaded.snoozed_reminders = record.snoozed_reminders \/ loaded.snoozed_reminders = << >>
  <2>0. /\ record.snoozed_reminders \in Seq(Entry) /\ "snoozed_until_epoch_seconds" \in Times
        /\ Worn5(was, json) /\ was.type = "object" /\ json.type = "object"
        /\ "snoozed_reminders" \in DOMAIN was.object /\ "snoozed_reminders" # "kind"
        /\ was.object["snoozed_reminders"] = entries_to_json(record.snoozed_reminders, "snoozed_until_epoch_seconds")
    BY <1>1, <1>2, <1>3 DEF Times
  <2>1. \A x \in entries_from_json(json, "snoozed_reminders", "snoozed_until_epoch_seconds") :
            /\ "snoozed_reminders" \notin Touched(was, json) => x = record.snoozed_reminders
            /\ x = record.snoozed_reminders \/ x = << >>
    BY <2>0, EntriesField, Zenon
  <2> QED BY <1>4, <2>1
<1>8. MemberOf("reminder_state") =
          [fired_reminders |-> "fired_reminders", dismissed_reminders |-> "dismissed_reminders",
           snoozed_reminders |-> "snoozed_reminders"]
  BY DEF MemberOf
<1>9. DefaultOf("reminder_state") =
          [fired_reminders |-> << >>, dismissed_reminders |-> << >>, snoozed_reminders |-> << >>]
  BY DEF DefaultOf, NewRecord
<1>10. DOMAIN record = {"fired_reminders", "dismissed_reminders", "snoozed_reminders"}
  BY DEF ReminderState
<1>11. \A f \in DOMAIN record :
            MemberOf("reminder_state")[f] \notin Touched(was, json) => loaded[f] = record[f]
  BY <1>5, <1>6, <1>7, <1>8, <1>10
<1>12. \A f \in DOMAIN record : loaded[f] = record[f] \/ IsDefault("reminder_state", f, loaded[f])
  BY <1>5, <1>6, <1>7, <1>9, <1>10 DEF IsDefault
<1> QED BY <1>3, <1>4, <1>10, <1>11, <1>12 DEF Contained

LEMMA EventCacheRead ==
    ASSUME NEW record \in EventCache
    PROVE  record \in event_cache_from_json(event_cache_to_json(record))
<1> DEFINE json == event_cache_to_json(record)
           found == [i \in DOMAIN record.meetings |-> meeting_to_json(record.meetings[i])]
<1>1. /\ record.schema_version \in value(json, "schema_version", "number", 1)
      /\ record.cached_at \in get_at(json, "cached_at_epoch_seconds", "number")
  BY DEF event_cache_to_json, value, get_at, at, get, Object, Number
<1>2. found \in elements(json, "meetings")
  BY DEF event_cache_to_json, elements, Object, Array
<1>3. record.meetings \in each([i \in DOMAIN found |-> meeting_from_json(found[i])])
  <2> DEFINE converted == [i \in DOMAIN found |-> meeting_from_json(found[i])]
  <2>1. record.meetings \in Seq(Meeting)
    BY DEF EventCache
  <2>2. DOMAIN converted = DOMAIN record.meetings
    OBVIOUS
  <2>3. \A i \in DOMAIN record.meetings : record.meetings[i] \in Meeting
    BY <2>1
  <2>4. \A i \in DOMAIN record.meetings : converted[i] = {record.meetings[i]}
    BY <2>3, MeetingReads
  <2>5. each(converted) = {record.meetings}
    <3> HIDE DEF converted
    <3> QED BY <2>1, <2>2, <2>4, EachOfSame
  <2> QED BY <2>5
<1> HIDE DEF json, found
<1> QED BY <1>1, <1>2, <1>3 DEF event_cache_from_json, EventCache, json

LEMMA EventCacheContained ==
    ASSUME NEW record \in EventCache, NEW json, json.type = "object",
           Worn5(event_cache_to_json(record), json), NEW loaded \in event_cache_from_json(json)
    PROVE  Contained("event_cache", record, json, loaded)
<1> DEFINE was == event_cache_to_json(record)
<1>1. /\ was.type = "object"
      /\ {"schema_version", "meetings"} \subseteq DOMAIN was.object
      /\ was.object["schema_version"].type = "number"
      /\ was.object["schema_version"]["number"] = record.schema_version
      /\ was.object["cached_at_epoch_seconds"].type = "number"
      /\ was.object["cached_at_epoch_seconds"]["number"] = record.cached_at
      /\ was.object["meetings"] =
            Array([i \in DOMAIN record.meetings |-> meeting_to_json(record.meetings[i])])
  BY DEF event_cache_to_json, Object, Number
<1>2. record.meetings \in Seq(Meeting)
  BY DEF EventCache
<1>3. Worn5(was, json) /\ to_json("event_cache", record) = was
  BY DEF to_json
<1> HIDE DEF was
<1>4. Frayed(was, json)
  BY <1>1, <1>3, WornIsFrayed
<1>5. /\ loaded.schema_version \in value(json, "schema_version", "number", 1)
      /\ loaded.cached_at \in get_at(json, "cached_at_epoch_seconds", "number")
      /\ \E found \in elements(json, "meetings") : loaded.meetings \in Meetings(found)
      /\ loaded = [f \in {"schema_version", "cached_at", "meetings"} |-> loaded[f]]
  BY DEF event_cache_from_json, Meetings
<1>6. /\ "schema_version" \notin Touched(was, json) => loaded.schema_version = record.schema_version
      /\ loaded.schema_version = record.schema_version \/ loaded.schema_version = 1
  BY <1>1, <1>4, <1>5, ValueField DEF Scalar
<1>7. loaded.cached_at = record.cached_at
  BY <1>1, <1>4, <1>5, GetAtField DEF Scalar
<1>8. /\ "meetings" \notin Touched(was, json) => loaded.meetings = record.meetings
      /\ \/ loaded.meetings = record.meetings \/ loaded.meetings = << >>
         \/ SameMeetings(record.meetings, loaded.meetings)
  <2>1. PICK found \in elements(json, "meetings") : loaded.meetings \in Meetings(found)
    BY <1>5
  <2>2. /\ record.meetings \in Seq(Meeting)
        /\ Worn5(was, json) /\ was.type = "object" /\ json.type = "object"
        /\ "meetings" \in DOMAIN was.object /\ "meetings" # "kind"
        /\ was.object["meetings"] =
                Array([i \in DOMAIN record.meetings |-> meeting_to_json(record.meetings[i])])
    BY <1>1, <1>2, <1>3
  <2> QED BY <2>1, <2>2, MeetingsField, Zenon
<1>9. MemberOf("event_cache") =
          [schema_version |-> "schema_version", cached_at |-> "cached_at_epoch_seconds",
           meetings |-> "meetings"]
  BY DEF MemberOf
<1>10. DefaultOf("event_cache") = [schema_version |-> 1, meetings |-> << >>]
  BY DEF DefaultOf, NewRecord
<1>11. DOMAIN record = {"schema_version", "cached_at", "meetings"}
  BY DEF EventCache
<1>12. \A f \in DOMAIN record :
            MemberOf("event_cache")[f] \notin Touched(was, json) => loaded[f] = record[f]
  BY <1>6, <1>7, <1>8, <1>9, <1>11
<1>13. \A f \in DOMAIN record :
            \/ loaded[f] = record[f]
            \/ IsDefault("event_cache", f, loaded[f])
            \/ f = "meetings" /\ SameMeetings(record.meetings, loaded.meetings)
  BY <1>6, <1>7, <1>8, <1>10, <1>11 DEF IsDefault
<1> QED BY <1>3, <1>5, <1>11, <1>12, <1>13 DEF Contained

LEMMA CredentialRead ==
    ASSUME NEW record \in CredentialRecord
    PROVE  record \in credential_from_json(credential_to_json(record))
<1> DEFINE json == credential_to_json(record)
           found == [i \in DOMAIN record.scopes |-> String(record.scopes[i])]
<1>1. /\ record.schema_version \in value(json, "schema_version", "number", 1)
      /\ record.access_token \in value(json, "access_token", "string", "")
      /\ record.refresh_token \in value(json, "refresh_token", "string", "")
      /\ record.token_type \in value(json, "token_type", "string", "Bearer")
      /\ record.expires_at \in get_at(json, "expires_at_epoch_seconds", "number")
  BY DEF credential_to_json, value, get_at, at, get, Object, Number, String
<1>2. found \in value(json, "scopes", "array", << >>)
  BY DEF credential_to_json, value, get, Object, Array
<1>3. record.scopes \in each([i \in DOMAIN found |-> get(found[i], "string")])
  <2> DEFINE converted == [i \in DOMAIN found |-> get(found[i], "string")]
  <2>1. record.scopes \in Seq(STRING)
    BY DEF CredentialRecord
  <2>2. DOMAIN converted = DOMAIN record.scopes
    OBVIOUS
  <2>3. \A i \in DOMAIN record.scopes : converted[i] = {record.scopes[i]}
    BY DEF get, String
  <2>4. each(converted) = {record.scopes}
    <3> HIDE DEF converted
    <3> QED BY <2>1, <2>2, <2>3, EachOfSame
  <2> QED BY <2>4
<1> HIDE DEF json, found
<1>4. record.scopes \in strings(json, "scopes")
  BY <1>2, <1>3 DEF strings
<1> QED BY <1>1, <1>4 DEF credential_from_json, CredentialRecord, json

LEMMA CredentialContained ==
    ASSUME NEW record \in CredentialRecord, NEW json, json.type = "object",
           Worn5(credential_to_json(record), json), NEW loaded \in credential_from_json(json)
    PROVE  Contained("credentials", record, json, loaded)
<1> DEFINE was == credential_to_json(record)
           empty == ""
<1>1. /\ was.type = "object"
      /\ {"schema_version", "access_token", "refresh_token", "token_type", "scopes"}
            \subseteq DOMAIN was.object
      /\ was.object["schema_version"].type = "number"
      /\ was.object["schema_version"]["number"] = record.schema_version
      /\ was.object["access_token"].type = "string"
      /\ was.object["access_token"]["string"] = record.access_token
      /\ was.object["refresh_token"].type = "string"
      /\ was.object["refresh_token"]["string"] = record.refresh_token
      /\ was.object["token_type"].type = "string"
      /\ was.object["token_type"]["string"] = record.token_type
      /\ was.object["expires_at_epoch_seconds"].type = "number"
      /\ was.object["expires_at_epoch_seconds"]["number"] = record.expires_at
  BY DEF credential_to_json, Object, Number, String
<1>2. /\ was.object["scopes"] = Array([i \in DOMAIN record.scopes |-> String(record.scopes[i])])
      /\ record.scopes \in Seq(STRING)
  BY DEF credential_to_json, CredentialRecord, Object
<1>3. Worn5(was, json) /\ to_json("credentials", record) = was
  BY DEF to_json
<1>4. /\ loaded.schema_version \in value(json, "schema_version", "number", 1)
      /\ loaded.access_token \in value(json, "access_token", "string", empty)
      /\ loaded.refresh_token \in value(json, "refresh_token", "string", empty)
      /\ loaded.token_type \in value(json, "token_type", "string", "Bearer")
      /\ loaded.expires_at \in get_at(json, "expires_at_epoch_seconds", "number")
      /\ loaded.scopes \in strings(json, "scopes")
      /\ loaded = [f \in {"schema_version", "access_token", "refresh_token", "token_type",
                          "expires_at", "scopes"} |-> loaded[f]]
  BY DEF credential_from_json
<1>5. DefaultOf("credentials") =
            [schema_version |-> 1, access_token |-> empty, refresh_token |-> empty,
             token_type |-> "Bearer", scopes |-> << >>]
  BY DEF DefaultOf, NewRecord
<1> HIDE DEF was, empty
<1>6. Frayed(was, json)
  BY <1>1, <1>3, WornIsFrayed
<1>7. /\ "schema_version" \notin Touched(was, json) => loaded.schema_version = record.schema_version
      /\ loaded.schema_version = record.schema_version \/ loaded.schema_version = 1
  <2>1. /\ "schema_version" \in DOMAIN was.object /\ was.object["schema_version"].type = "number"
        /\ was.object["schema_version"]["number"] = record.schema_version
    BY <1>1
  <2>2. loaded.schema_version \in value(json, "schema_version", "number", 1)
    BY <1>4
  <2> QED BY <1>6, <2>1, <2>2, ValueField DEF Scalar
<1>8. /\ "access_token" \notin Touched(was, json) => loaded.access_token = record.access_token
      /\ loaded.access_token = record.access_token \/ loaded.access_token = empty
  <2>1. /\ "access_token" \in DOMAIN was.object /\ was.object["access_token"].type = "string"
        /\ was.object["access_token"]["string"] = record.access_token
    BY <1>1
  <2>2. loaded.access_token \in value(json, "access_token", "string", empty)
    BY <1>4
  <2> QED BY <1>6, <2>1, <2>2, ValueField DEF Scalar
<1>9. /\ "refresh_token" \notin Touched(was, json) => loaded.refresh_token = record.refresh_token
      /\ loaded.refresh_token = record.refresh_token \/ loaded.refresh_token = empty
  <2>1. /\ "refresh_token" \in DOMAIN was.object /\ was.object["refresh_token"].type = "string"
        /\ was.object["refresh_token"]["string"] = record.refresh_token
    BY <1>1
  <2>2. loaded.refresh_token \in value(json, "refresh_token", "string", empty)
    BY <1>4
  <2> QED BY <1>6, <2>1, <2>2, ValueField DEF Scalar
<1>10. /\ "token_type" \notin Touched(was, json) => loaded.token_type = record.token_type
       /\ loaded.token_type = record.token_type \/ loaded.token_type = "Bearer"
  <2>1. /\ "token_type" \in DOMAIN was.object /\ was.object["token_type"].type = "string"
        /\ was.object["token_type"]["string"] = record.token_type
    BY <1>1
  <2>2. loaded.token_type \in value(json, "token_type", "string", "Bearer")
    BY <1>4
  <2> QED BY <1>6, <2>1, <2>2, ValueField DEF Scalar
<1>11. loaded.expires_at = record.expires_at
  BY <1>1, <1>6, <1>4, GetAtField DEF Scalar
<1>12. /\ "scopes" \notin Touched(was, json) => loaded.scopes = record.scopes
       /\ loaded.scopes = record.scopes \/ loaded.scopes = << >>
  <2>1. Worn5(was, json) /\ was.type = "object" /\ json.type = "object"
        /\ "scopes" \in DOMAIN was.object /\ "scopes" # "kind"
    BY <1>1, <1>3
  <2>2. loaded.scopes \in strings(json, "scopes")
    BY <1>4
  <2> QED BY <1>2, <2>1, <2>2, StringsField
<1>13. MemberOf("credentials") =
            [schema_version |-> "schema_version", access_token |-> "access_token",
             refresh_token |-> "refresh_token", token_type |-> "token_type",
             expires_at |-> "expires_at_epoch_seconds", scopes |-> "scopes"]
  BY DEF MemberOf
<1>14. DOMAIN record = {"schema_version", "access_token", "refresh_token", "token_type",
                        "expires_at", "scopes"}
  BY DEF CredentialRecord
<1>15. \A f \in DOMAIN record :
            MemberOf("credentials")[f] \notin Touched(was, json) => loaded[f] = record[f]
  <2> SUFFICES ASSUME NEW f \in DOMAIN record, MemberOf("credentials")[f] \notin Touched(was, json)
               PROVE  loaded[f] = record[f]
    OBVIOUS
  <2>1. CASE f \in {"schema_version", "access_token", "refresh_token"}
    BY <1>7, <1>8, <1>9, <1>13, <2>1
  <2>2. CASE f \in {"token_type", "expires_at", "scopes"}
    BY <1>10, <1>11, <1>12, <1>13, <2>2
  <2> QED BY <1>14, <2>1, <2>2
<1>16. \A f \in DOMAIN record : loaded[f] = record[f] \/ IsDefault("credentials", f, loaded[f])
  BY <1>7, <1>8, <1>9, <1>10, <1>11, <1>12, <1>5, <1>14 DEF IsDefault
<1> QED BY <1>3, <1>4, <1>14, <1>15, <1>16 DEF Contained

-----------------------------------------------------------------------------

(***************************************************************************)
(* Every kind of document at once.                                         *)
(***************************************************************************)
Kinds == {"settings", "reminder_state", "event_cache", "credentials"}

LEMMA KindsOfRecords ==
    ASSUME NEW kind \in DOMAIN Records, NEW record \in Records[kind]
    PROVE  /\ kind \in Kinds
           /\ kind = "settings" => record \in Settings
           /\ kind = "reminder_state" => record \in ReminderState
           /\ kind = "event_cache" => record \in EventCache
           /\ kind = "credentials" => record \in CredentialRecord
<1>1. kind \in DOMAIN RecordType /\ record \in RecordType[kind]
  BY RecordsAssumption
<1> QED BY <1>1 DEF RecordType, Kinds

LEMMA RecordRead ==
    ASSUME NEW kind \in DOMAIN Records, NEW record \in Records[kind]
    PROVE  record \in from_json(kind, to_json(kind, record))
<1>1. CASE kind = "settings"
  BY <1>1, KindsOfRecords, SettingsRead DEF from_json, to_json
<1>2. CASE kind = "reminder_state"
  BY <1>2, KindsOfRecords, ReminderStateRead DEF from_json, to_json
<1>3. CASE kind = "event_cache"
  BY <1>3, KindsOfRecords, EventCacheRead DEF from_json, to_json
<1>4. CASE kind = "credentials"
  BY <1>4, KindsOfRecords, CredentialRead DEF from_json, to_json
<1> QED BY <1>1, <1>2, <1>3, <1>4, KindsOfRecords DEF Kinds

LEMMA SevenAreFinite ==
    ASSUME NEW a, NEW b, NEW c, NEW d, NEW e, NEW f, NEW g, NEW S, S = {a, b, c, d, e, f, g}
    PROVE  IsFiniteSet(S)
<1>1. IsFiniteSet({a} \cup {b})
  BY FS_Singleton, FS_AddElement
<1>2. IsFiniteSet(({a} \cup {b}) \cup {c})
  BY <1>1, FS_AddElement
<1>3. IsFiniteSet((({a} \cup {b}) \cup {c}) \cup {d})
  BY <1>2, FS_AddElement
<1>4. IsFiniteSet(((({a} \cup {b}) \cup {c}) \cup {d}) \cup {e})
  BY <1>3, FS_AddElement
<1>5. IsFiniteSet((((({a} \cup {b}) \cup {c}) \cup {d}) \cup {e}) \cup {f})
  BY <1>4, FS_AddElement
<1>6. IsFiniteSet(((((({a} \cup {b}) \cup {c}) \cup {d}) \cup {e}) \cup {f}) \cup {g})
  BY <1>5, FS_AddElement
<1>7. S = ((((({a} \cup {b}) \cup {c}) \cup {d}) \cup {e}) \cup {f}) \cup {g}
  OBVIOUS
<1> QED BY <1>6, <1>7

LEMMA FourAreFinite ==
    ASSUME NEW a, NEW b, NEW c, NEW d, NEW S, S = {a, b, c, d}
    PROVE  IsFiniteSet(S)
<1>1. S = {a, b, c, d, d, d, d}
  OBVIOUS
<1> QED BY <1>1, SevenAreFinite

\* Every document is an object with a finite number of members, in which every
\* field of its record has one of its own.
LEMMA WrittenIsAnObject ==
    ASSUME NEW kind \in Kinds, NEW record
    PROVE  /\ to_json(kind, record).type = "object"
           /\ IsFiniteSet(DOMAIN to_json(kind, record).object)
           /\ \A f \in DOMAIN MemberOf(kind) : MemberOf(kind)[f] \in DOMAIN to_json(kind, record).object
<1> DEFINE members == DOMAIN to_json(kind, record).object
<1>1. CASE kind = "settings"
  <2>1. members = {"schema_version", "poll_interval_seconds", "stale_cache_tolerance_seconds",
                   "default_snooze_seconds"}
    BY <1>1 DEF to_json, settings_to_json, Object
  <2>2. IsFiniteSet(members)
    BY <2>1, FourAreFinite
  <2> QED BY <1>1, <2>1, <2>2 DEF to_json, settings_to_json, Object, MemberOf
<1>2. CASE kind = "reminder_state"
  <2>1. members = {"schema_version", "fired_reminders", "dismissed_reminders", "snoozed_reminders"}
    BY <1>2 DEF to_json, reminder_state_to_json, Object
  <2>2. IsFiniteSet(members)
    BY <2>1, FourAreFinite
  <2> QED BY <1>2, <2>1, <2>2 DEF to_json, reminder_state_to_json, Object, MemberOf
<1>3. CASE kind = "event_cache"
  <2>1. members = {"schema_version", "cached_at_epoch_seconds", "meetings"}
    BY <1>3 DEF to_json, event_cache_to_json, Object
  <2>2. IsFiniteSet(members)
    <3>1. members = {"schema_version", "cached_at_epoch_seconds", "meetings", "meetings"}
      BY <2>1
    <3> QED BY <3>1, FourAreFinite
  <2> QED BY <1>3, <2>1, <2>2 DEF to_json, event_cache_to_json, Object, MemberOf
<1>4. CASE kind = "credentials"
  <2>1. members = {"schema_version", "development_plaintext_credentials", "access_token",
                   "refresh_token", "token_type", "expires_at_epoch_seconds", "scopes"}
    BY <1>4 DEF to_json, credential_to_json, Object
  <2>2. IsFiniteSet(members)
    BY <2>1, SevenAreFinite
  <2>3. \A f \in DOMAIN MemberOf(kind) : MemberOf(kind)[f] \in members
    BY <1>4, <2>1 DEF MemberOf
  <2>4. to_json(kind, record).type = "object"
    BY <1>4 DEF to_json, credential_to_json, Object
  <2> QED BY <2>2, <2>3, <2>4
<1> QED BY <1>1, <1>2, <1>3, <1>4 DEF Kinds

LEMMA RecordContained ==
    ASSUME NEW kind \in DOMAIN Records, NEW record \in Records[kind], NEW json,
           json.type = "object", Worn5(to_json(kind, record), json), NEW loaded \in from_json(kind, json)
    PROVE  Contained(kind, record, json, loaded)
<1>1. CASE kind = "settings"
  <2>1. Frayed(settings_to_json(record), json)
    BY <1>1, KindsOfRecords, WornIsFrayed, WrittenIsAnObject DEF to_json
  <2> QED BY <1>1, <2>1, KindsOfRecords, SettingsContained DEF from_json
<1>2. CASE kind = "reminder_state"
  BY <1>2, KindsOfRecords, ReminderStateContained DEF from_json, to_json
<1>3. CASE kind = "event_cache"
  BY <1>3, KindsOfRecords, EventCacheContained DEF from_json, to_json
<1>4. CASE kind = "credentials"
  BY <1>4, KindsOfRecords, CredentialContained DEF from_json, to_json
<1> QED BY <1>1, <1>2, <1>3, <1>4, KindsOfRecords DEF Kinds

LEMMA FieldsHaveTheirOwn ==
    ASSUME NEW kind \in DOMAIN Records, NEW record \in Records[kind]
    PROVE  /\ DOMAIN record = DOMAIN MemberOf(kind)
           /\ \A f, g \in DOMAIN record : MemberOf(kind)[f] = MemberOf(kind)[g] => f = g
<1>1. CASE kind = "settings"
  BY <1>1, KindsOfRecords DEF MemberOf, Settings
<1>2. CASE kind = "reminder_state"
  BY <1>2, KindsOfRecords DEF MemberOf, ReminderState
<1>3. CASE kind = "event_cache"
  BY <1>3, KindsOfRecords DEF MemberOf, EventCache
<1>4. CASE kind = "credentials"
  <2>1. record \in CredentialRecord
    BY <1>4, KindsOfRecords
  <2>2. DOMAIN record = DOMAIN MemberOf(kind)
    BY <1>4, <2>1 DEF MemberOf, CredentialRecord
  <2>3. \A f, g \in DOMAIN MemberOf(kind) : MemberOf(kind)[f] = MemberOf(kind)[g] => f = g
    BY <1>4 DEF MemberOf
  <2> QED BY <2>2, <2>3
<1> QED BY <1>1, <1>2, <1>3, <1>4, KindsOfRecords DEF Kinds

\* No more fields change than members were touched: each field has one of its own.
LEMMA ChangedIsTouched ==
    ASSUME NEW kind \in DOMAIN Records, NEW record \in Records[kind], NEW json, NEW loaded,
           Contained(kind, record, json, loaded)
    PROVE  /\ IsFiniteSet(Changed(record, loaded))
           /\ Cardinality(Changed(record, loaded)) <= Cardinality(Touched(to_json(kind, record), json))
<1> DEFINE touched == Touched(to_json(kind, record), json)
           changed == Changed(record, loaded)
           f == [x \in changed |-> MemberOf(kind)[x]]
<1>1. kind \in Kinds
  BY KindsOfRecords
<1>2. touched \subseteq DOMAIN to_json(kind, record).object
  BY DEF Touched
<1>3. IsFiniteSet(touched)
  BY <1>1, <1>2, WrittenIsAnObject, FS_Subset
<1>4. \A x \in changed : x \in DOMAIN record /\ MemberOf(kind)[x] \in touched
  BY DEF Contained, Changed
<1>5. \A x, y \in changed : MemberOf(kind)[x] = MemberOf(kind)[y] => x = y
  BY <1>4, FieldsHaveTheirOwn
<1> HIDE DEF touched, changed
<1>6. f \in Injection(changed, touched)
  BY <1>4, <1>5 DEF Injection, IsInjective
<1>7. IsFiniteSet(changed) /\ Cardinality(changed) <= Cardinality(touched)
  BY <1>3, <1>6, FS_Injection
<1> QED BY <1>7 DEF touched, changed

LEMMA OthersAreDefaults ==
    ASSUME NEW kind \in DOMAIN Records, NEW record \in Records[kind], NEW json, NEW loaded,
           Contained(kind, record, json, loaded)
    PROVE  LET same == IF kind = "event_cache" /\ loaded.meetings # << >>
                          /\ SameMeetings(record.meetings, loaded.meetings)
                       THEN [loaded EXCEPT !.meetings = record.meetings] ELSE loaded
           IN  OnlyDefaults(record, same, DefaultOf(kind))
<1> DEFINE apart == kind = "event_cache" /\ loaded.meetings # << >>
                        /\ SameMeetings(record.meetings, loaded.meetings)
           same == IF apart THEN [loaded EXCEPT !.meetings = record.meetings] ELSE loaded
<1> SUFFICES ASSUME NEW f \in DOMAIN record, same[f] # record[f]
             PROVE  IsDefault(kind, f, same[f])
  BY DEF OnlyDefaults, Changed, IsDefault
<1>1. CASE apart
  <2>1. f # "meetings" /\ same[f] = loaded[f]
    BY <1>1 DEF Contained
  <2> QED BY <2>1 DEF Contained
<1>2. CASE ~ apart
  <2>1. CASE kind = "event_cache" /\ f = "meetings" /\ loaded.meetings = << >>
    BY <1>2, <2>1 DEF IsDefault, DefaultOf, NewRecord
  <2>2. CASE ~ (kind = "event_cache" /\ f = "meetings" /\ loaded.meetings = << >>)
    BY <1>2, <2>2 DEF Contained
  <2> QED BY <2>1, <2>2
<1> QED BY <1>1, <1>2

-----------------------------------------------------------------------------

(***************************************************************************)
(* The inductive invariant: a document is what its record was written as,  *)
(* worn, and no more of its members are touched than it was damaged times. *)
(***************************************************************************)
Written == to_json(document.kind, document.record)

DocumentInv ==
    document # NoDocument =>
        /\ document = [kind |-> document.kind, record |-> document.record, json |-> document.json,
                       damages |-> document.damages]
        /\ document.kind \in DOMAIN Records
        /\ document.record \in Records[document.kind]
        /\ document.damages \in Nat
        /\ document.json.type = "object"
        /\ Worn5(Written, document.json)
        /\ document.damages = 0 => document.json = Written
        /\ IsFiniteSet(Touched(Written, document.json))
        /\ Cardinality(Touched(Written, document.json)) <= document.damages

LEMMA UntouchedAsWritten ==
    ASSUME NEW json
    PROVE  Touched(json, json) = {}
BY DEF Touched

LEMMA OneTouch ==
    ASSUME NEW was, NEW json, json.type = "object", IsFiniteSet(Touched(was, json)),
           NEW next \in Damaged(json)
    PROVE  /\ next.type = "object"
           /\ IsFiniteSet(Touched(was, next))
           /\ Cardinality(Touched(was, next)) <= Cardinality(Touched(was, json)) + 1
<1> DEFINE inside == [p \in DOMAIN Parts(json) |-> Damaged4(Parts(json)[p])]
<1>1. next \in OneDamage(json, inside)
  BY DEF Damaged
<1> HIDE DEF inside
<1>2. PICK m \in DOMAIN json.object :
          /\ DOMAIN json.object \ {m} \subseteq DOMAIN next.object
          /\ DOMAIN next.object \subseteq DOMAIN json.object
          /\ \A n \in DOMAIN next.object \ {m} : next.object[n] = json.object[n]
  BY <1>1, OneDamageOfObject
<1>3. Touched(was, next) \subseteq Touched(was, json) \cup {m}
  BY <1>2 DEF Touched
<1>4. /\ IsFiniteSet(Touched(was, json) \cup {m})
      /\ Cardinality(Touched(was, json) \cup {m}) <= Cardinality(Touched(was, json)) + 1
      /\ Cardinality(Touched(was, json) \cup {m}) \in Nat
  <2>1. Cardinality(Touched(was, json)) \in Nat
    BY FS_CardinalityType
  <2>2. IsFiniteSet(Touched(was, json) \cup {m})
    BY FS_AddElement
  <2>3. Cardinality(Touched(was, json) \cup {m}) =
            IF m \in Touched(was, json) THEN Cardinality(Touched(was, json))
            ELSE Cardinality(Touched(was, json)) + 1
    BY FS_AddElement
  <2> QED BY <2>1, <2>2, <2>3
<1>5. /\ IsFiniteSet(Touched(was, next))
      /\ Cardinality(Touched(was, next)) <= Cardinality(Touched(was, json) \cup {m})
      /\ Cardinality(Touched(was, next)) \in Nat
  BY <1>3, <1>4, FS_Subset, FS_CardinalityType
<1>6. next.type = "object"
  BY <1>1, OneDamageOfObject
<1>7. Cardinality(Touched(was, json)) \in Nat
  BY FS_CardinalityType
<1> QED BY <1>4, <1>5, <1>6, <1>7

LEMMA DocumentInit == Init => DocumentInv
BY DEF Init, DocumentInv

LEMMA DocumentStep == DocumentInv /\ [Next]_vars => DocumentInv'
<1> SUFFICES ASSUME DocumentInv, [Next]_vars
             PROVE  DocumentInv'
  OBVIOUS
<1>1. CASE UNCHANGED document
  BY <1>1 DEF DocumentInv, Written
<1>2. CASE Store
  <2>1. PICK kind \in DOMAIN Records : \E record \in Records[kind] :
            document' = [kind |-> kind, record |-> record, json |-> to_json(kind, record),
                         damages |-> 0]
    BY <1>2 DEF Store
  <2>2. PICK record \in Records[kind] :
            document' = [kind |-> kind, record |-> record, json |-> to_json(kind, record),
                         damages |-> 0]
    BY <2>1
  <2>3. /\ to_json(kind, record).type = "object"
        /\ Worn5(to_json(kind, record), to_json(kind, record))
        /\ Touched(to_json(kind, record), to_json(kind, record)) = {}
    BY KindsOfRecords, WrittenIsAnObject, UntouchedAsWritten DEF Worn5
  <2>4. IsFiniteSet({}) /\ Cardinality({}) = 0
    BY FS_EmptySet
  <2> QED BY <2>2, <2>3, <2>4 DEF DocumentInv, Written
<1>3. CASE Damage
  <2>1. document # NoDocument
    BY <1>3 DEF Damage
  <2>2. PICK next \in Damaged(document.json) :
            document' = [document EXCEPT !.json = next, !.damages = @ + 1]
    BY <1>3 DEF Damage
  <2>3. /\ document'.kind = document.kind /\ document'.record = document.record
        /\ document'.json = next /\ document'.damages = document.damages + 1
        /\ document' = [kind |-> document'.kind, record |-> document'.record,
                        json |-> document'.json, damages |-> document'.damages]
    BY <2>1, <2>2 DEF DocumentInv
  <2>4. Written' = Written
    BY <2>3 DEF Written
  <2>5. Worn5(Written, next)
    BY <2>1, Wear5 DEF DocumentInv
  <2>6. /\ next.type = "object"
        /\ IsFiniteSet(Touched(Written, next))
        /\ Cardinality(Touched(Written, next)) <= Cardinality(Touched(Written, document.json)) + 1
    BY <2>1, OneTouch DEF DocumentInv
  <2>7. /\ Cardinality(Touched(Written, next)) \in Nat
        /\ Cardinality(Touched(Written, document.json)) \in Nat
    BY <2>1, <2>6, FS_CardinalityType DEF DocumentInv
  <2>8. /\ Cardinality(Touched(Written, next)) <= document.damages + 1
        /\ document.damages + 1 \in Nat /\ document.damages + 1 # 0
    BY <2>1, <2>6, <2>7 DEF DocumentInv
  <2> QED BY <2>1, <2>3, <2>4, <2>5, <2>6, <2>8 DEF DocumentInv
<1> QED BY <1>1, <1>2, <1>3 DEF Next, AddField, AddToField, AddByte, Grow, vars

(***************************************************************************)
(* Every document is what its record was written as, worn by no more       *)
(* damages than it had, whatever records there are and however often a     *)
(* document is damaged.                                                    *)
(***************************************************************************)
THEOREM SpecDocumentInv == Spec => []DocumentInv
<1>1. Init => DocumentInv
  BY DocumentInit
<1>2. DocumentInv /\ [Next]_vars => DocumentInv'
  BY DocumentStep
<1> QED BY <1>1, <1>2, PTL DEF Spec

LEMMA WrittenIsLoaded == DocumentInv => RecordsSurvive
<1> SUFFICES ASSUME DocumentInv, document # NoDocument, document.damages = 0
             PROVE  Loaded = {document.record}
  BY DEF RecordsSurvive
<1> DEFINE kind == document.kind
           record == document.record
<1>1. kind \in DOMAIN Records /\ record \in Records[kind] /\ document.json = to_json(kind, record)
  BY DEF DocumentInv, Written
<1>2. record \in from_json(kind, to_json(kind, record))
  BY <1>1, RecordRead
<1>3. ASSUME NEW loaded \in from_json(kind, to_json(kind, record))
      PROVE  loaded = record
  <2>1. to_json(kind, record).type = "object" /\ Worn5(to_json(kind, record), to_json(kind, record))
    BY <1>1, KindsOfRecords, WrittenIsAnObject DEF Worn5
  <2>2. Contained(kind, record, to_json(kind, record), loaded)
    BY <1>1, <1>3, <2>1, RecordContained
  <2>3. \A f \in DOMAIN record : loaded[f] = record[f]
    BY <2>2, UntouchedAsWritten DEF Contained
  <2>4. record = [f \in DOMAIN record |-> record[f]]
    BY <1>1, RecordsAssumption
       DEF RecordType, Settings, ReminderState, EventCache, CredentialRecord
  <2> QED BY <2>2, <2>3, <2>4 DEF Contained
<1> QED BY <1>1, <1>2, <1>3 DEF Loaded

(***************************************************************************)
(* What is saved is what is loaded (..._to_json and ..._from_json of both  *)
(* stores), for all records of all four kinds.                             *)
(***************************************************************************)
THEOREM SpecRecordsSurvive == Spec => []RecordsSurvive
BY SpecDocumentInv, WrittenIsLoaded, PTL

LEMMA WornIsContained == DocumentInv => DamageIsContained
<1> SUFFICES ASSUME DocumentInv, document # NoDocument, NEW loaded \in Loaded
             PROVE  LET record == document.record
                        same == IF document.kind = "event_cache" /\ loaded.meetings # << >>
                                   /\ SameMeetings(record.meetings, loaded.meetings)
                                THEN [loaded EXCEPT !.meetings = record.meetings] ELSE loaded
                    IN  /\ Cardinality(Changed(record, loaded)) <= document.damages
                        /\ OnlyDefaults(record, same, DefaultOf(document.kind))
  BY DEF DamageIsContained
<1> DEFINE kind == document.kind
           record == document.record
<1>1. /\ kind \in DOMAIN Records /\ record \in Records[kind] /\ document.json.type = "object"
      /\ Worn5(to_json(kind, record), document.json) /\ document.damages \in Nat
      /\ IsFiniteSet(Touched(to_json(kind, record), document.json))
      /\ Cardinality(Touched(to_json(kind, record), document.json)) <= document.damages
  BY DEF DocumentInv, Written
<1>2. loaded \in from_json(kind, document.json)
  BY DEF Loaded
<1> HIDE DEF kind, record
<1>3. Contained(kind, record, document.json, loaded)
  BY <1>1, <1>2, RecordContained
<1>4. /\ IsFiniteSet(Changed(record, loaded))
      /\ Cardinality(Changed(record, loaded)) <= Cardinality(Touched(to_json(kind, record), document.json))
  BY <1>1, <1>3, ChangedIsTouched
<1>5. Cardinality(Changed(record, loaded)) <= document.damages
  <2>1. Cardinality(Touched(to_json(kind, record), document.json)) \in Nat
    BY <1>1, FS_CardinalityType
  <2>2. Cardinality(Changed(record, loaded)) \in Nat
    BY <1>4, FS_CardinalityType
  <2> QED BY <1>1, <1>4, <2>1, <2>2
<1> QED BY <1>1, <1>3, <1>5, OthersAreDefaults DEF kind, record

(***************************************************************************)
(* A damaged document is rejected or loses only what was damaged, for all  *)
(* records and any number of damages.                                      *)
(***************************************************************************)
THEOREM SpecDamageIsContained == Spec => []DamageIsContained
BY SpecDocumentInv, WornIsContained, PTL
=============================================================================
