------------------------- MODULE ReminderLifecycle -------------------------
(***************************************************************************)
(* The reminders of a calendar over time: the engine of ReminderEngine     *)
(* evaluated again and again, by a caller that feeds what it decides and   *)
(* what the user answers back into the ReminderState the engine reads.     *)
(*                                                                         *)
(* The repository has the engine, the state it reads and the promises made *)
(* for the whole (docs/ROADMAP.md R-003, R-005, R-007); the caller is not  *)
(* written yet.  It is modelled from the contract of the engine's inputs:  *)
(* a decision shown to the user is recorded as fired, Snooze appends a     *)
(* SnoozedReminder, Dismiss a DismissedReminder, and a poll comes at least *)
(* every PollInterval, on whatever the calendar then says or, when the     *)
(* fetch failed, on the cached meetings.                                   *)
(***************************************************************************)
EXTENDS ReminderEngine

CONSTANTS
    MeetingIds,
    StartTimes,         \* the start times the calendar may give a meeting
    PollInterval,       \* Settings::poll_interval
    SnoozeDuration,     \* Settings::default_snooze_duration
    Callers,            \* the callers considered: erasing honoured snoozes (TRUE), or not
    MaxSnoozes,         \* bound: snoozes the user may ask for, per reminder
    MaxAlerts,          \* bound: how often a reminder may be shown
    Horizon             \* bound: the last instant

ASSUME LifecycleAssumption ==
    /\ StartTimes \subseteq Int
    /\ PollInterval \in Nat \ {0}
    /\ SnoozeDuration \in Nat \ {0}
    /\ Callers \subseteq BOOLEAN
    /\ MaxSnoozes \in Nat
    /\ MaxAlerts \in Nat
    /\ Horizon \in Nat

VARIABLES
    clears,     \* does the caller erase the snooze it has honoured?
    now,        \* the clock handed to evaluate_reminders
    calendar,   \* what the last successful fetch said of every meeting
    since,      \* when the caller first held that description of the meeting
    state,      \* the ReminderState
    lastPoll,   \* when the engine was last evaluated
    popups,     \* the reminders on the screen
    alerts,     \* how often each reminder has been shown
    granted     \* how many snoozes of each reminder the user asked for

vars == <<clears, now, calendar, since, state, lastPoll, popups, alerts, granted>>

Keys == ReminderKey(MeetingIds)

\* A meeting the fetch did not return, and one it did.
Unlisted == [starts_at |-> 0, status |-> "unlisted"]
Listing == {Unlisted} \cup [starts_at : StartTimes, status : {"confirmed", "cancelled"}]

Active(id) == calendar[id].status = "confirmed"

\* The span of meetings of a calendar.
Meetings(cal) ==
    [id \in {i \in MeetingIds : cal[i] # Unlisted} |->
        [id |-> id, starts_at |-> cal[id].starts_at,
         cancelled |-> cal[id].status = "cancelled"]]

TypeOK ==
    /\ clears \in Callers
    /\ now \in 0..Horizon
    /\ calendar \in [MeetingIds -> Listing]
    /\ since \in [MeetingIds -> 0..Horizon]
    /\ state \in ReminderState(MeetingIds)
    /\ lastPoll \in Int
    /\ popups \in SUBSET Keys
    /\ alerts \in [Keys -> Nat]
    /\ granted \in [Keys -> 0..MaxSnoozes]

\* The first poll is due at once.
Init ==
    /\ clears \in Callers
    /\ now = 0
    /\ calendar = [id \in MeetingIds |-> Unlisted]
    /\ since = [id \in MeetingIds |-> 0]
    /\ state = EmptyState(MeetingIds)
    /\ lastPoll = -PollInterval
    /\ popups = {}
    /\ alerts = [key \in Keys |-> 0]
    /\ granted = [key \in Keys |-> 0]

-----------------------------------------------------------------------------

\* Time does not run past the moment the next poll is due.
Tick ==
    /\ now < Horizon
    /\ now - lastPoll < PollInterval
    /\ now' = now + 1
    /\ UNCHANGED <<clears, calendar, since, state, lastPoll, popups, alerts, granted>>

\* The reminders a poll of calendar cal raises now.
Raised(cal, source) == decisions(evaluate_reminders(Meetings(cal), state, now, source))

(***************************************************************************)
(* A poll: evaluate, show every decision, record it as fired.  A caller    *)
(* that clears also erases the snoozes of what it has shown.               *)
(***************************************************************************)
Poll(cal, source) ==
    LET raised == Raised(cal, source)
    IN  /\ \A key \in raised : alerts[key] < MaxAlerts
        /\ state' = [state EXCEPT
                        !.fired = @ \cup raised,
                        !.snoozed = [key \in Keys |->
                            IF clears /\ key \in raised THEN << >> ELSE @[key]]]
        /\ popups' = popups \cup raised
        /\ alerts' = [key \in Keys |-> alerts[key] + (IF key \in raised THEN 1 ELSE 0)]
        /\ lastPoll' = now
        /\ calendar' = cal
        /\ since' = [id \in MeetingIds |-> IF cal[id] = calendar[id] THEN since[id] ELSE now]
        /\ UNCHANGED <<clears, now, granted>>

\* The fetch succeeded: any meeting may have been added, moved, cancelled or removed.
PollFresh == \E cal \in [MeetingIds -> Listing] : Poll(cal, "Fresh")

\* The fetch failed: the cached meetings are evaluated.
PollStaleCache == Poll(calendar, "StaleCache")

\* The user's answers to a popup; each of them closes it.
Snooze(key) ==
    /\ key \in popups
    /\ granted[key] < MaxSnoozes
    /\ state' = [state EXCEPT !.snoozed[key] = Append(@, now + SnoozeDuration)]
    /\ granted' = [granted EXCEPT ![key] = @ + 1]
    /\ popups' = popups \ {key}
    /\ UNCHANGED <<clears, now, calendar, since, lastPoll, alerts>>

\* Mutant: the meeting is dismissed, not the reminder.
Dismiss_Meeting(key) ==
    /\ key \in popups
    /\ state' = [state EXCEPT !.dismissed = @ \cup {key[1]}]
    /\ popups' = popups \ {key}
    /\ UNCHANGED <<clears, now, calendar, since, lastPoll, alerts, granted>>

Dismiss(key) ==
    /\ key \in popups
    /\ state' = [state EXCEPT !.dismissed = @ \cup {key}]
    /\ popups' = popups \ {key}
    /\ UNCHANGED <<clears, now, calendar, since, lastPoll, alerts, granted>>

Next ==
    \/ Tick
    \/ PollFresh
    \/ PollStaleCache
    \/ \E key \in Keys : Snooze(key) \/ Dismiss(key)

Spec == Init /\ [][Next]_vars

-----------------------------------------------------------------------------

(***************************************************************************)
(* "Duplicate reminders are prevented": across any number of polls,        *)
(* reschedules, cancellations and reinstatements of the meeting, a         *)
(* reminder is shown once, and once more for every snooze the user asked   *)
(* for, by a caller that erases the snoozes it has honoured.               *)
(***************************************************************************)
NoDuplicateAlert == clears => \A key \in Keys : alerts[key] <= 1 + granted[key]

(***************************************************************************)
(* "... using persisted fired-state inputs": the same, promised to every   *)
(* caller that records what it has shown as fired.                         *)
(***************************************************************************)
FiredPreventsDuplicates == \A key \in Keys : alerts[key] <= 1 + granted[key]

(***************************************************************************)
(* A dismissed reminder is never shown again, whatever the calendar does   *)
(* to the meeting and whatever snoozes are still recorded for it: no step  *)
(* raises the alert count of a key that was dismissed before the step.     *)
(***************************************************************************)
DismissedStaysSilent ==
    [][\A key \in state.dismissed : alerts'[key] = alerts[key]]_vars

\* The number of seconds at which a reminder of this kind can become due, and
\* the last of them.
WindowLength(kind) ==
    IF kind = "StartsSoon" THEN StartsSoonOffset ELSE StartsNowLateWindow + 1

DueAt(key) ==
    IF key[2] = "StartsSoon"
    THEN calendar[key[1]].starts_at - StartsSoonOffset
    ELSE calendar[key[1]].starts_at

LastDue(key) == DueAt(key) + WindowLength(key[2]) - 1

(***************************************************************************)
(* No reminder is missed: when polls are no further apart than the window  *)
(* is long, a meeting whose description reached the engine while its       *)
(* window was not over is never let through the window in silence.  The    *)
(* window is half-open for StartsSoon and closed for StartsNow, so the     *)
(* default poll interval of 300 s is one second inside the StartsNow limit.*)
(***************************************************************************)
NoMissedWindow ==
    \A key \in Keys :
        /\ PollInterval <= WindowLength(key[2])
        /\ Active(key[1])
        /\ since[key[1]] <= LastDue(key)
        /\ now > LastDue(key)
        => key \in state.fired

(***************************************************************************)
(* A snooze comes back in time: while the meeting stands and the reminder  *)
(* is not dismissed, a recorded snooze is never more than one poll         *)
(* interval past its snoozed_until - even when the reminder has fired and  *)
(* its ordinary window is long over.                                       *)
(***************************************************************************)
SnoozeNotOverdue ==
    \A key \in Keys :
        /\ clears
        /\ Active(key[1])
        /\ ~ was_dismissed(state, key)
        /\ is_snoozed(state, key)
        => now < find_snooze(state, key) + PollInterval

(***************************************************************************)
(* A snooze holds: by a caller that erases the snoozes it has honoured, no *)
(* reminder is shown again before every snooze recorded for it is over -   *)
(* neither by its window, which may still be open, nor by a new start      *)
(* time, nor by an earlier snooze that find_snooze would take for the one  *)
(* the user asked for last.                                                *)
(***************************************************************************)
SnoozeHolds ==
    [][clears => \A key \in Keys :
          alerts'[key] # alerts[key] =>
              \A i \in DOMAIN state.snoozed[key] : now >= state.snoozed[key][i]]_vars

(***************************************************************************)
(* The windows of the two kinds meet without a gap and without an overlap: *)
(* for a meeting nothing has been recorded of, due_reminders finds one     *)
(* reminder, never two, from starts_at - offset to starts_at + late window.*)
(***************************************************************************)
OneReminderAtATime ==
    \A id \in MeetingIds :
        LET start == calendar[id].starts_at
            due == due_reminders(MeetingIds, Meetings(calendar), {}, now)
        IN  Active(id) =>
                IF now \in (start - StartsSoonOffset)..(start + StartsNowLateWindow)
                THEN \E kind \in ReminderKind : due \cap ({id} \X ReminderKind) = {<<id, kind>>}
                ELSE due \cap ({id} \X ReminderKind) = {}
=============================================================================
