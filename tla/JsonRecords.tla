---------------------------- MODULE JsonRecords ----------------------------
(***************************************************************************)
(* The records the program keeps in JSON documents (json_persistence.cpp   *)
(* and credential_store.cpp): ..._to_json, and ..._from_json, which throws *)
(* ({}) or returns a record ({record}): a set of records is empty as soon  *)
(* as one of its members is.  Times are in epoch seconds.                  *)
(***************************************************************************)
EXTENDS Json, Integers

KindText == [StartsSoon |-> "starts-soon", StartsNow |-> "starts-now"]

MeetingId == [calendar_id : STRING, event_id : STRING, instance_id : STRING]

ReminderKey == [meeting_id : MeetingId, kind : DOMAIN KindText]

Meeting == [id : MeetingId, title : STRING, starts_at : Int, ends_at : Int,
            join_url : STRING, cancelled : BOOLEAN]

\* An entry of one of the three lists of a reminder state: a key and a time.
Entry == [key : ReminderKey, at : Int]

Settings == [schema_version : Int, poll_interval : Int, stale_cache_tolerance : Int,
             default_snooze_duration : Int]

ReminderState == [fired_reminders : Seq(Entry), dismissed_reminders : Seq(Entry),
                  snoozed_reminders : Seq(Entry)]

EventCache == [schema_version : Int, cached_at : Int, meetings : Seq(Meeting)]

CredentialRecord == [schema_version : Int, access_token : STRING, refresh_token : STRING,
                     token_type : STRING, expires_at : Int, scopes : Seq(STRING)]

\* The kinds of document, and the record each of them holds.
RecordType ==
    [kind \in {"settings", "reminder_state", "event_cache", "credentials"} |->
        CASE kind = "settings" -> Settings
          [] kind = "reminder_state" -> ReminderState
          [] kind = "event_cache" -> EventCache
          [] kind = "credentials" -> CredentialRecord]

-----------------------------------------------------------------------------

meeting_id_to_json(id) ==
    Object([calendar_id |-> String(id.calendar_id), event_id |-> String(id.event_id),
            instance_id |-> String(id.instance_id)])

\* Mutant: a member that is not there is an empty string.
meeting_id_from_json_Defaulted(json) ==
    [calendar_id : get_at(json, "calendar_id", "string"),
     event_id : get_at(json, "event_id", "string"),
     instance_id : value(json, "instance_id", "string", "")]

meeting_id_from_json(json) ==
    [calendar_id : get_at(json, "calendar_id", "string"),
     event_id : get_at(json, "event_id", "string"),
     instance_id : get_at(json, "instance_id", "string")]

reminder_kind_from_json(json) ==
    {kind \in DOMAIN KindText : KindText[kind] \in get(json, "string")}

reminder_key_to_json(key) ==
    Object([meeting_id |-> meeting_id_to_json(key.meeting_id), kind |-> String(KindText[key.kind])])

reminder_key_from_json(json) ==
    [meeting_id : UNION {meeting_id_from_json(m) : m \in at(json, "meeting_id")},
     kind : UNION {reminder_kind_from_json(m) : m \in at(json, "kind")}]

meeting_to_json(meeting) ==
    Object([id |-> meeting_id_to_json(meeting.id),
            title |-> String(meeting.title),
            starts_at_epoch_seconds |-> Number(meeting.starts_at),
            ends_at_epoch_seconds |-> Number(meeting.ends_at),
            join_url |-> String(meeting.join_url),
            cancelled |-> Boolean(meeting.cancelled)])

meeting_from_json(json) ==
    [id : UNION {meeting_id_from_json(m) : m \in at(json, "id")},
     title : value(json, "title", "string", ""),
     starts_at : get_at(json, "starts_at_epoch_seconds", "number"),
     ends_at : get_at(json, "ends_at_epoch_seconds", "number"),
     join_url : value(json, "join_url", "string", ""),
     cancelled : value(json, "cancelled", "boolean", FALSE)]

-----------------------------------------------------------------------------

settings_to_json(settings) ==
    Object([schema_version |-> Number(settings.schema_version),
            poll_interval_seconds |-> Number(settings.poll_interval),
            stale_cache_tolerance_seconds |-> Number(settings.stale_cache_tolerance),
            default_snooze_seconds |-> Number(settings.default_snooze_duration)])

settings_from_json(json) ==
    [schema_version : value(json, "schema_version", "number", 1),
     poll_interval : value(json, "poll_interval_seconds", "number", 300),
     stale_cache_tolerance : value(json, "stale_cache_tolerance_seconds", "number", 3600),
     default_snooze_duration : value(json, "default_snooze_seconds", "number", 300)]

entry_to_json(entry, member) ==
    Object([m \in {"key", member} |->
                IF m = "key" THEN reminder_key_to_json(entry.key) ELSE Number(entry.at)])

entry_from_json(json, member) ==
    [key : UNION {reminder_key_from_json(m) : m \in at(json, "key")},
     at : get_at(json, member, "number")]

entries_to_json(entries, member) ==
    Array([i \in DOMAIN entries |-> entry_to_json(entries[i], member)])

entries_from_json(json, list, member) ==
    UNION {each([i \in DOMAIN found |-> entry_from_json(found[i], member)]) :
               found \in elements(json, list)}

\* The version of the schema is written, and not read.
reminder_state_to_json(state) ==
    Object([schema_version |-> Number(1),
            fired_reminders |-> entries_to_json(state.fired_reminders, "fired_at_epoch_seconds"),
            dismissed_reminders |->
                entries_to_json(state.dismissed_reminders, "dismissed_at_epoch_seconds"),
            snoozed_reminders |->
                entries_to_json(state.snoozed_reminders, "snoozed_until_epoch_seconds")])

\* Mutant: the dismissed reminders are read from the fired ones.
reminder_state_from_json_Mixed(json) ==
    [fired_reminders : entries_from_json(json, "fired_reminders", "fired_at_epoch_seconds"),
     dismissed_reminders : entries_from_json(json, "fired_reminders", "fired_at_epoch_seconds"),
     snoozed_reminders : entries_from_json(json, "snoozed_reminders", "snoozed_until_epoch_seconds")]

reminder_state_from_json(json) ==
    [fired_reminders : entries_from_json(json, "fired_reminders", "fired_at_epoch_seconds"),
     dismissed_reminders : entries_from_json(json, "dismissed_reminders", "dismissed_at_epoch_seconds"),
     snoozed_reminders : entries_from_json(json, "snoozed_reminders", "snoozed_until_epoch_seconds")]

event_cache_to_json(cache) ==
    Object([schema_version |-> Number(cache.schema_version),
            cached_at_epoch_seconds |-> Number(cache.cached_at),
            meetings |-> Array([i \in DOMAIN cache.meetings |-> meeting_to_json(cache.meetings[i])])])

event_cache_from_json(json) ==
    [schema_version : value(json, "schema_version", "number", 1),
     cached_at : get_at(json, "cached_at_epoch_seconds", "number"),
     meetings : UNION {each([i \in DOMAIN found |-> meeting_from_json(found[i])]) :
                          found \in elements(json, "meetings")}]

credential_to_json(credentials) ==
    Object([schema_version |-> Number(credentials.schema_version),
            development_plaintext_credentials |-> Boolean(TRUE),
            access_token |-> String(credentials.access_token),
            refresh_token |-> String(credentials.refresh_token),
            token_type |-> String(credentials.token_type),
            expires_at_epoch_seconds |-> Number(credentials.expires_at),
            scopes |-> Array([i \in DOMAIN credentials.scopes |-> String(credentials.scopes[i])])])

\* A list of strings; a member that is not there is an empty one.
strings(json, member) ==
    UNION {each([i \in DOMAIN found |-> get(found[i], "string")]) :
               found \in value(json, member, "array", << >>)}

credential_from_json(json) ==
    [schema_version : value(json, "schema_version", "number", 1),
     access_token : value(json, "access_token", "string", ""),
     refresh_token : value(json, "refresh_token", "string", ""),
     token_type : value(json, "token_type", "string", "Bearer"),
     expires_at : get_at(json, "expires_at_epoch_seconds", "number"),
     scopes : strings(json, "scopes")]
=============================================================================
