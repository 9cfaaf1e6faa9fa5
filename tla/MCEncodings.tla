---------------------------- MODULE MCEncodings ----------------------------
(***************************************************************************)
(* Forms of up to two fields and three bytes, over every byte with a role: *)
(* % & + = ? # and space, a hexadecimal digit, a letter that is none, 0    *)
(* and 255; one name is "code" and one is made of separators.  Inputs of   *)
(* up to five bytes, and messages past two chunk boundaries.  The buffer   *)
(* has 22 bits, all TLC's integers can shift a byte into: like the 32 of   *)
(* the code it overflows on an input of this length.  Of every kind of     *)
(* document one record with no member equal to its default or to another,  *)
(* and two snoozes of one reminder; two damages.                           *)
(***************************************************************************)
EXTENDS Encodings

MCNames == {Code, State, <<Ampersand, Equals>>, << >>}
MCFormBytes == {Percent, Ampersand, Plus, Equals, Question, Hash, Space, 50, 65, 122, 0, 255}
MCId(e) == [calendar_id |-> "c", event_id |-> e, instance_id |-> "i"]
MCEntry(kind, time) == [key |-> [meeting_id |-> MCId("e"), kind |-> kind], at |-> time]
MCMeeting(e) == [id |-> MCId(e), title |-> "t", starts_at |-> 5, ends_at |-> 6,
                 join_url |-> "u", cancelled |-> TRUE]

MCRecords ==
    [kind \in {"settings", "reminder_state", "event_cache", "credentials"} |->
        CASE kind = "settings" ->
                {[schema_version |-> 2, poll_interval |-> 60, stale_cache_tolerance |-> 61,
                  default_snooze_duration |-> 62]}
          [] kind = "reminder_state" ->
                {[fired_reminders |-> <<MCEntry("StartsSoon", 1)>>,
                  dismissed_reminders |-> <<MCEntry("StartsNow", 2)>>,
                  snoozed_reminders |-> <<MCEntry("StartsSoon", 4), MCEntry("StartsSoon", 3)>>]}
          [] kind = "event_cache" ->
                {[schema_version |-> 2, cached_at |-> 7,
                  meetings |-> <<MCMeeting("e"), MCMeeting("f")>>]}
          [] kind = "credentials" ->
                {[schema_version |-> 2, access_token |-> "a", refresh_token |-> "r",
                  token_type |-> "b", expires_at |-> 8, scopes |-> <<"s", "t">>]}]

MCInputBytes == {0, 1, 85, 128, 170, 255}
=============================================================================
