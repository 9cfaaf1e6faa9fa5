----------------------------- MODULE Encodings -----------------------------
(***************************************************************************)
(* The encodings of UrlEncoding, GoogleRequests, Pkce and JsonRecords,     *)
(* held against what they are defined to do on every input within bounds.  *)
(* The inputs grow a step at a time, one of them in a behaviour: a form, a *)
(* sequence of bytes to encode, the size of a message to hash, or a JSON   *)
(* document, written by this program and then damaged or written by        *)
(* another version of it: members are missing or have another type.        *)
(***************************************************************************)
EXTENDS GoogleRequests, Pkce, JsonRecords, FiniteSets

CONSTANTS
    Names,      \* names of form fields
    FormBytes,  \* the bytes values of form fields are made of
    MaxFields,  \* bound: fields of a form
    MaxLength,  \* bound: bytes of all values of a form together
    InputBytes, \* the bytes base64 inputs are made of
    MaxInput,   \* bound: bytes of a base64 input
    MaxSize,    \* bound: size of a hashed message
    Records,    \* the records saved: for each kind of document a set of them
    MaxDamages  \* bound: damages of a document

\* The bytes and the names are bytes, and text made of them.
ASSUME BytesAssumption ==
    /\ FormBytes \subseteq 0..255 /\ InputBytes \subseteq 0..255
    /\ \A name \in Names : name \in Seq(0..255)

ASSUME RecordsAssumption ==
    \A kind \in DOMAIN Records : kind \in DOMAIN RecordType /\ Records[kind] \subseteq RecordType[kind]

VARIABLES form, input, size, document

vars == <<form, input, size, document>>

NoDocument == [kind |-> "none"]

Init ==
    /\ form = << >>
    /\ input = << >>
    /\ size = 0
    /\ document = NoDocument

AddField ==
    /\ input = << >> /\ size = 0 /\ document = NoDocument
    /\ Len(form) < MaxFields
    /\ \E name \in Names : form' = Append(form, [name |-> name, value |-> << >>])
    /\ UNCHANGED <<input, size, document>>

Length == Len(FlattenSeq([i \in DOMAIN form |-> form[i].value]))

AddToField ==
    /\ form # << >> /\ Length < MaxLength
    /\ \E byte \in FormBytes : form' = [form EXCEPT ![Len(form)].value = Append(@, byte)]
    /\ UNCHANGED <<input, size, document>>

AddByte ==
    /\ form = << >> /\ size = 0 /\ document = NoDocument
    /\ Len(input) < MaxInput
    /\ \E byte \in InputBytes : input' = Append(input, byte)
    /\ UNCHANGED <<form, size, document>>

Grow ==
    /\ form = << >> /\ input = << >> /\ document = NoDocument
    /\ size < MaxSize
    /\ size' = size + 1
    /\ UNCHANGED <<form, input, document>>

to_json(kind, record) ==
    CASE kind = "settings" -> settings_to_json(record)
      [] kind = "reminder_state" -> reminder_state_to_json(record)
      [] kind = "event_cache" -> event_cache_to_json(record)
      [] kind = "credentials" -> credential_to_json(record)

from_json(kind, json) ==
    CASE kind = "settings" -> settings_from_json(json)
      [] kind = "reminder_state" -> reminder_state_from_json(json)
      [] kind = "event_cache" -> event_cache_from_json(json)
      [] kind = "credentials" -> credential_from_json(json)

Store ==
    /\ form = << >> /\ input = << >> /\ size = 0 /\ document = NoDocument
    /\ \E kind \in DOMAIN Records : \E record \in Records[kind] :
        document' = [kind |-> kind, record |-> record, json |-> to_json(kind, record),
                     damages |-> 0]
    /\ UNCHANGED <<form, input, size>>

\* The members of an object, the elements of an array.
Parts(json) ==
    IF json.type = "object" THEN json.object
    ELSE IF json.type = "array" THEN json.array ELSE << >>

\* What a member may hold after a damage: null, another type, an unknown kind.
Odd(m) == {Null, Other} \cup (IF m = "kind" THEN {String("unknown")} ELSE {})

\* The values that differ from json in one member, which is missing or odd, or
\* within its part p, which is then one of inside[p].
OneDamage(json, inside) ==
    IF json.type = "object"
    THEN UNION {{Object([n \in DOMAIN json.object \ {m} |-> json.object[n]])}
                  \cup {Object([json.object EXCEPT ![m] = d]) : d \in Odd(m) \cup inside[m]} :
                    m \in DOMAIN json.object}
    ELSE IF json.type = "array"
    THEN UNION {{Array([json.array EXCEPT ![i] = d]) : d \in inside[i]} : i \in DOMAIN json.array}
    ELSE {}

\* A value of so many levels, damaged in one member at any of them.  A reminder
\* state has most: its lists, their entries, keys, meeting ids and their members.
Damaged1(json) == OneDamage(json, [p \in DOMAIN Parts(json) |-> {}])
Damaged2(json) == OneDamage(json, [p \in DOMAIN Parts(json) |-> Damaged1(Parts(json)[p])])
Damaged3(json) == OneDamage(json, [p \in DOMAIN Parts(json) |-> Damaged2(Parts(json)[p])])
Damaged4(json) == OneDamage(json, [p \in DOMAIN Parts(json) |-> Damaged3(Parts(json)[p])])
Damaged(json) == OneDamage(json, [p \in DOMAIN Parts(json) |-> Damaged4(Parts(json)[p])])

Damage ==
    /\ document # NoDocument
    /\ document.damages < MaxDamages
    /\ \E json \in Damaged(document.json) :
        document' = [document EXCEPT !.json = json, !.damages = @ + 1]
    /\ UNCHANGED <<form, input, size>>

Next == AddField \/ AddToField \/ AddByte \/ Grow \/ Store \/ Damage

Spec == Init /\ [][Next]_vars

-----------------------------------------------------------------------------

Target == <<Slash, Question>> \o form_encode(form)

(***************************************************************************)
(* Every form survives: whatever bytes names and values are made of (the   *)
(* separators, the escapes and the bytes above 127 included), the loopback *)
(* server parses back exactly the fields that were form-encoded.           *)
(***************************************************************************)
RoundTrip == parse_query(Target) = form

(***************************************************************************)
(* A redirect's fields reach the callback: each member holds the value of  *)
(* the last field with its name, also when the browser adds a fragment,    *)
(* and no other field of the query can reach it.                           *)
(***************************************************************************)
CallbackFaithful ==
    \A tail \in {<< >>, <<Hash>> \o Code \o <<Equals, Hash>>} :
        callback_from_target(Target \o tail) =
            [code |-> LastValue(form, Code), state |-> LastValue(form, State),
             error |-> LastValue(form, Error)]

\* Bit n of the input, most significant first; zero past its end.
Bit(n) ==
    IF n < 8 * Len(input) THEN (input[n \div 8 + 1] \div 2^(7 - (n % 8))) % 2 ELSE 0

(***************************************************************************)
(* base64url_encode is RFC 4648's encoding without padding: its i-th       *)
(* character stands for the i-th six bits of the input, zeros added at the *)
(* end - although bits of earlier bytes stay in the buffer and are shifted *)
(* out of its top.                                                         *)
(***************************************************************************)
EncodesTheBits ==
    base64url_encode(input) =
        [i \in 1..((8 * Len(input) + 5) \div 6) |->
            32 * Bit(6 * i - 6) + 16 * Bit(6 * i - 5) + 8 * Bit(6 * i - 4)
                + 4 * Bit(6 * i - 3) + 2 * Bit(6 * i - 2) + Bit(6 * i - 1)]

(***************************************************************************)
(* A padded message is the least number of whole 64-byte chunks that hold  *)
(* the input, the 0x80 byte and the length, for every input size around a  *)
(* chunk boundary: the loop over chunks never reads past its end.          *)
(***************************************************************************)
PaddingFillsChunks ==
    /\ PaddedSize(size) % 64 = 0
    /\ PaddedSize(size) >= size + 9
    /\ PaddedSize(size) < size + 9 + 64

\* Requests made of the values of the form.
Value(n) == IF n \in DOMAIN form THEN form[n].value ELSE << >>

AuthorizationRequest ==
    [client_id |-> Value(1), redirect_uri |-> Value(2), state |-> Value(1),
     code_challenge |-> Value(2), code_challenge_method |-> Value(1),
     scopes |-> [i \in DOMAIN form |-> form[i].value]]

EventsRequest ==
    [calendar_id |-> Value(1), time_min |-> Value(2), time_max |-> Value(1),
     page_token |-> {form[i].value : i \in DOMAIN form \cap {2}}]

(***************************************************************************)
(* The URLs say what was asked for, and nothing more: whatever bytes ids,  *)
(* states, scopes, times and page tokens are made of, their query is       *)
(* parsed into exactly the fields of the request - a calendar id with a    *)
(* '?' in it does not begin the query - and a scope that is a word is one  *)
(* of those the token response is split into.                              *)
(***************************************************************************)
UrlsSayTheRequest ==
    /\ parse_query(authorization_url(AuthorizationRequest))
           = AuthorizationFields(AuthorizationRequest)
    /\ parse_query(calendar_events_url(EventsRequest)) = EventsFields(EventsRequest)
    /\ LET scopes == AuthorizationRequest.scopes
           IsWord(scope) == scope # << >> /\ \A i \in DOMAIN scope : ~ IsSpace(scope[i])
       IN  (\A i \in DOMAIN scopes : IsWord(scopes[i]))
               => split_scopes(join_scopes(scopes)) = scopes

Loaded == from_json(document.kind, document.json)

(***************************************************************************)
(* What is saved is what is loaded, for every kind of document: no member  *)
(* is lost, swapped or changed on the way through JSON, and of several     *)
(* snoozes of a reminder the first stays the first.                        *)
(***************************************************************************)
RecordsSurvive ==
    document # NoDocument /\ document.damages = 0 => Loaded = {document.record}

\* What a new record holds: the default member initializers of the headers.
NewRecord ==
    [settings |-> [schema_version |-> 1, poll_interval |-> 300,
                   stale_cache_tolerance |-> 3600, default_snooze_duration |-> 300],
     reminders |-> [fired_reminders |-> << >>, dismissed_reminders |-> << >>,
                    snoozed_reminders |-> << >>],
     cache |-> [schema_version |-> 1, meetings |-> << >>],
     credentials |-> [schema_version |-> 1, access_token |-> "", refresh_token |-> "",
                      token_type |-> "Bearer", scopes |-> << >>],
     meeting |-> [title |-> "", join_url |-> "", cancelled |-> FALSE]]

DefaultOf(kind) ==
    CASE kind = "settings" -> NewRecord.settings
      [] kind = "reminder_state" -> NewRecord.reminders
      [] kind = "event_cache" -> NewRecord.cache
      [] kind = "credentials" -> NewRecord.credentials

Changed(record, loaded) == {f \in DOMAIN record : loaded[f] # record[f]}

\* Is loaded the record, but for members that hold what they hold in a new one?
OnlyDefaults(record, loaded, default) ==
    \A f \in Changed(record, loaded) : f \in DOMAIN default /\ loaded[f] = default[f]

SameMeetings(saved, loaded) ==
    /\ DOMAIN loaded = DOMAIN saved
    /\ \A i \in DOMAIN saved : OnlyDefaults(saved[i], loaded[i], NewRecord.meeting)

(***************************************************************************)
(* A damaged document is rejected or loses only what was damaged: a record *)
(* that loads holds, in no more members than were damaged, what a new      *)
(* record holds, and in all others what was saved.  In particular no       *)
(* reminder is loaded that was not saved: a list of a reminder state is    *)
(* whole or empty, and a meeting keeps its identity and its times.         *)
(***************************************************************************)
DamageIsContained ==
    document # NoDocument =>
        \A loaded \in Loaded :
            LET record == document.record
                same == IF document.kind = "event_cache" /\ loaded.meetings # << >>
                           /\ SameMeetings(record.meetings, loaded.meetings)
                        THEN [loaded EXCEPT !.meetings = record.meetings] ELSE loaded
            IN  /\ Cardinality(Changed(record, loaded)) <= document.damages
                /\ OnlyDefaults(record, same, DefaultOf(document.kind))
=============================================================================
