--------------------------- MODULE ReminderEngine ---------------------------
(***************************************************************************)
(* The decision function of src/core/reminder_engine.cpp.                  *)
(*                                                                         *)
(* evaluate_reminders is pure: from the meetings, the persisted reminder   *)
(* state and the current time it computes one trace per meeting and        *)
(* reminder kind, and a decision for every trace whose action is Emit.     *)
(* Titles, end times and join URLs are carried through and never read, so  *)
(* they are left out; time is UtcTime, in seconds.                         *)
(***************************************************************************)
EXTENDS Integers, Sequences

CONSTANTS
    StartsSoonOffset,       \* ReminderEngineConfig::starts_soon_offset
    StartsNowLateWindow     \* ReminderEngineConfig::starts_now_late_window

ASSUME ConfigAssumption ==
    /\ StartsSoonOffset \in Nat
    /\ StartsNowLateWindow \in Nat

ReminderKind == {"StartsSoon", "StartsNow"}
EventDataSource == {"Fresh", "StaleCache"}

ReminderReasonCode ==
    {"DueStartsSoon", "DueStartsNow", "DueSnoozeElapsed",
     "SkippedCancelled", "SkippedDismissed", "SkippedSnoozed",
     "SkippedAlreadyFired", "SkippedBeforeWindow", "SkippedAfterWindow"}

\* The meetings of a calendar whose instance ids are in Ids.
MeetingInstance(Ids) == [id : Ids, starts_at : Int, cancelled : BOOLEAN]

\* A reminder is named by the meeting instance and the kind alone: neither
\* the start time nor the title of the meeting is part of the key.
ReminderKey(Ids) == Ids \X ReminderKind

reminder_key(meeting, kind) == <<meeting.id, kind>>

(***************************************************************************)
(* The persisted inputs.  was_fired and was_dismissed only test whether    *)
(* some entry has the key, so those vectors are sets of keys.  find_snooze *)
(* returns the FIRST entry with the key: the snoozes of a key are the      *)
(* sequence of their snoozed_until, in vector order (the order of entries  *)
(* of different keys is never observed).                                   *)
(***************************************************************************)
ReminderState(Ids) ==
    [fired : SUBSET ReminderKey(Ids),
     dismissed : SUBSET ReminderKey(Ids),
     snoozed : [ReminderKey(Ids) -> Seq(Int)]]

EmptyState(Ids) ==
    [fired |-> {}, dismissed |-> {},
     snoozed |-> [key \in ReminderKey(Ids) |-> << >>]]

was_fired(state, key) == key \in state.fired
was_dismissed(state, key) == key \in state.dismissed
is_snoozed(state, key) == state.snoozed[key] # << >>
find_snooze(state, key) == Head(state.snoozed[key])

-----------------------------------------------------------------------------

due_at_for(meeting, kind) ==
    IF kind = "StartsSoon"
    THEN meeting.starts_at - StartsSoonOffset
    ELSE meeting.starts_at

BeforeWindow(meeting, kind, now) == now < due_at_for(meeting, kind)

\* Mutants of AfterWindow: the closed and the half-open end exchanged.
AfterWindow_LateEndOpen(meeting, kind, now) ==
    IF kind = "StartsSoon"
    THEN now >= meeting.starts_at
    ELSE now >= meeting.starts_at + StartsNowLateWindow

AfterWindow_SoonEndClosed(meeting, kind, now) ==
    IF kind = "StartsSoon"
    THEN now > meeting.starts_at
    ELSE now > meeting.starts_at + StartsNowLateWindow

AfterWindow(meeting, kind, now) ==
    IF kind = "StartsSoon"
    THEN now >= meeting.starts_at
    ELSE now > meeting.starts_at + StartsNowLateWindow

Due(kind) == IF kind = "StartsSoon" THEN "DueStartsSoon" ELSE "DueStartsNow"

Ordinary(meeting, kind, now) ==
    IF BeforeWindow(meeting, kind, now) THEN "SkippedBeforeWindow"
    ELSE IF AfterWindow(meeting, kind, now) THEN "SkippedAfterWindow"
    ELSE Due(kind)

\* Mutant: a snooze is over before its time has come.
WhenSnoozed_NotCompared(state, key, now) == "DueSnoozeElapsed"

WhenSnoozed(state, key, now) ==
    IF now < find_snooze(state, key) THEN "SkippedSnoozed" ELSE "DueSnoozeElapsed"

\* Mutants of ReasonFor: the fired state is not looked at; it is looked at
\* before the snooze; the snooze is looked at before the dismissal.
ReasonFor_FiredIgnored(meeting, kind, state, now) ==
    LET key == reminder_key(meeting, kind)
    IN  IF meeting.cancelled THEN "SkippedCancelled"
        ELSE IF was_dismissed(state, key) THEN "SkippedDismissed"
        ELSE IF is_snoozed(state, key) THEN WhenSnoozed(state, key, now)
        ELSE Ordinary(meeting, kind, now)

ReasonFor_FiredFirst(meeting, kind, state, now) ==
    LET key == reminder_key(meeting, kind)
    IN  IF meeting.cancelled THEN "SkippedCancelled"
        ELSE IF was_dismissed(state, key) THEN "SkippedDismissed"
        ELSE IF was_fired(state, key) THEN "SkippedAlreadyFired"
        ELSE IF is_snoozed(state, key) THEN WhenSnoozed(state, key, now)
        ELSE Ordinary(meeting, kind, now)

ReasonFor_SnoozeFirst(meeting, kind, state, now) ==
    LET key == reminder_key(meeting, kind)
    IN  IF meeting.cancelled THEN "SkippedCancelled"
        ELSE IF is_snoozed(state, key) THEN WhenSnoozed(state, key, now)
        ELSE IF was_dismissed(state, key) THEN "SkippedDismissed"
        ELSE IF was_fired(state, key) THEN "SkippedAlreadyFired"
        ELSE Ordinary(meeting, kind, now)

(***************************************************************************)
(* The early returns of evaluate_key, in their order: a cancelled meeting  *)
(* beats a dismissal, a dismissal beats a snooze, a snooze (waiting or     *)
(* elapsed) beats the fired state, and only a key without any of them is   *)
(* held against its window.                                                *)
(***************************************************************************)
ReasonFor(meeting, kind, state, now) ==
    LET key == reminder_key(meeting, kind)
    IN  IF meeting.cancelled THEN "SkippedCancelled"
        ELSE IF was_dismissed(state, key) THEN "SkippedDismissed"
        ELSE IF is_snoozed(state, key) THEN WhenSnoozed(state, key, now)
        ELSE IF was_fired(state, key) THEN "SkippedAlreadyFired"
        ELSE Ordinary(meeting, kind, now)

\* add_decision is called exactly for the Due... reasons, skip for the others.
Emits(reason) == reason \in {"DueStartsSoon", "DueStartsNow", "DueSnoozeElapsed"}

evaluate_key(meeting, kind, state, now, source) ==
    LET key == reminder_key(meeting, kind)
        reason == ReasonFor(meeting, kind, state, now)
    IN  [key |-> key,
         action |-> IF Emits(reason) THEN "Emit" ELSE "Skip",
         due_at |-> IF reason \in {"SkippedSnoozed", "DueSnoozeElapsed"}
                    THEN find_snooze(state, key)
                    ELSE due_at_for(meeting, kind),
         reason |-> reason,
         event_source |-> source]

\* The traces of one evaluation: two for every entry of the span of meetings
\* (any indexed family of instances), one per kind.
evaluate_reminders(meetings, state, now, source) ==
    [entry \in (DOMAIN meetings) \X ReminderKind |->
        evaluate_key(meetings[entry[1]], entry[2], state, now, source)]

\* The entries of an evaluation that carry a decision.
decisions(traces) == {entry \in DOMAIN traces : traces[entry].action = "Emit"}

\* The overload without dismissals and snoozes.
due_reminders(Ids, meetings, fired, now) ==
    decisions(evaluate_reminders(meetings, [EmptyState(Ids) EXCEPT !.fired = fired],
                                 now, "Fresh"))
=============================================================================
