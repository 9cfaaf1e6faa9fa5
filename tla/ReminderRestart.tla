--------------------------- MODULE ReminderRestart ---------------------------
(***************************************************************************)
(* The reminders of a program that ends and starts again: the engine of    *)
(* ReminderEngine, a caller that polls it and takes the user's answers,    *)
(* and the reminder state on disk, which is a DocumentRegister -           *)
(* save_reminder_state and load_reminder_state with all they can do when   *)
(* a call fails (JsonFile implements it).                                  *)
(*                                                                         *)
(* The caller is not written yet.  Two are considered: one records what is *)
(* due, saves it and then shows it; the other shows it first.  Both erase  *)
(* the snooze they have honoured, keep an answer in memory when saving it  *)
(* fails, and start empty or not at all when the state cannot be read.     *)
(***************************************************************************)
EXTENDS ReminderEngine

CONSTANTS
    MeetingIds,
    StartTimes,         \* of the meetings
    SnoozeDuration,
    Orders,             \* the callers considered, of "SaveFirst" and "ShowFirst"
    Faults,             \* the calls of a save or load that may fail unnoticed
    Missing, Torn,      \* a document that is not there, one that cannot be read
    MaxSnoozes,         \* bound: snoozes of a reminder
    MaxCrashes,         \* bound: ends of the program
    Horizon             \* bound: the last instant

ASSUME RestartAssumption ==
    /\ StartTimes \subseteq Int
    /\ SnoozeDuration \in Nat \ {0}
    /\ Orders \subseteq {"SaveFirst", "ShowFirst"}
    /\ MaxSnoozes \in Nat /\ MaxCrashes \in Nat /\ Horizon \in Nat

ASSUME DocumentAssumption ==
    /\ Faults \subseteq {"close", "rename", "open"}
    /\ Missing # Torn
    /\ Missing \notin ReminderState(MeetingIds) /\ Torn \notin ReminderState(MeetingIds)

VARIABLES
    order,      \* which caller it is
    now,
    meetings,   \* the meetings of the calendar
    phase,      \* what the program is doing
    state,      \* the ReminderState in memory
    due,        \* the reminders to show when the save has returned
    popups,     \* the reminders on the screen
    value, call, arg, failed,   \* the document, as DocumentRegister has it
    alerts,     \* how often each reminder has been shown
    granted,    \* how many snoozes of each the user asked for
    silenced,   \* the reminders whose dismissal was saved
    crashes     \* how often the program has ended

disk == <<value, call, arg, failed>>
history == <<alerts, granted, silenced, crashes>>
vars == <<order, now, meetings, phase, state, due, popups, disk, history>>

Keys == ReminderKey(MeetingIds)
App == "app"
Disk == INSTANCE DocumentRegister WITH Procs <- {App}, Docs <- ReminderState(MeetingIds)

TypeOK ==
    /\ order \in Orders
    /\ now \in 0..Horizon
    /\ meetings \in [MeetingIds -> MeetingInstance(MeetingIds)]
    /\ phase \in {"down", "starting", "ready", "saving", "saved"}
    /\ state \in ReminderState(MeetingIds)
    /\ due \subseteq Keys
    /\ popups \subseteq Keys
    /\ Disk!TypeOK
    /\ alerts \in [Keys -> Nat]
    /\ granted \in [Keys -> 0..MaxSnoozes]
    /\ silenced \subseteq Keys
    /\ crashes \in 0..MaxCrashes

Init ==
    /\ order \in Orders
    /\ now = 0
    /\ \E start \in [MeetingIds -> StartTimes] :
        meetings = [id \in MeetingIds |->
                        [id |-> id, starts_at |-> start[id], cancelled |-> FALSE]]
    /\ phase = "down"
    /\ state = EmptyState(MeetingIds)
    /\ due = {}
    /\ popups = {}
    /\ value = Missing
    /\ call = [p \in {App} |-> "idle"]
    /\ arg = [p \in {App} |-> Missing]
    /\ failed = {}
    /\ alerts = [key \in Keys |-> 0]
    /\ granted = [key \in Keys |-> 0]
    /\ silenced = {}
    /\ crashes = 0

-----------------------------------------------------------------------------

Tick ==
    /\ now < Horizon
    /\ now' = now + 1
    /\ UNCHANGED <<order, meetings, phase, state, due, popups, disk, history>>

\* The program starts and loads the reminder state.
Start ==
    /\ phase = "down"
    /\ phase' = "starting"
    /\ Disk!Load(App)
    /\ UNCHANGED <<order, now, meetings, state, due, popups, history>>

\* Mutant: the state is loaded and not used.
Loaded_Unused ==
    /\ phase = "starting"
    /\ phase' = "ready"
    /\ state' = EmptyState(MeetingIds)
    /\ Disk!Leave(App)
    /\ UNCHANGED <<order, now, meetings, due, popups, history>>

\* load_reminder_state returns; on a torn document it throws, and the program
\* goes on with nothing or ends.
Loaded ==
    /\ phase = "starting"
    /\ IF arg[App] = Torn THEN phase' \in {"ready", "down"} ELSE phase' = "ready"
    /\ state' = IF arg[App] \in {Missing, Torn} THEN EmptyState(MeetingIds) ELSE arg[App]
    /\ Disk!Leave(App)
    /\ UNCHANGED <<order, now, meetings, due, popups, history>>

Show(keys) ==
    /\ alerts' = [key \in Keys |-> alerts[key] + (IF key \in keys THEN 1 ELSE 0)]
    /\ popups' = popups \cup keys

\* Mutant: the reminders of the last poll alone.
Recorded_Last(old, keys) ==
    [fired |-> keys,
     dismissed |-> old.dismissed,
     snoozed |-> [key \in Keys |-> IF key \in keys THEN << >> ELSE old.snoozed[key]]]

\* The state once these reminders have fired: their snoozes are honoured.
Recorded(old, keys) ==
    [fired |-> old.fired \cup keys,
     dismissed |-> old.dismissed,
     snoozed |-> [key \in Keys |-> IF key \in keys THEN << >> ELSE old.snoozed[key]]]

\* save_reminder_state is called.
Save(new) ==
    /\ phase' = "saving"
    /\ Disk!Save(App, new)

Raised == decisions(evaluate_reminders(meetings, state, now, "Fresh"))

\* Mutant: a caller that would save first shows at once.
Poll_ShownAtOnce ==
    /\ phase = "ready"
    /\ IF Raised = {} THEN UNCHANGED vars
       ELSE /\ Save(Recorded(state, Raised))
            /\ due' = {} /\ state' = Recorded(state, Raised) /\ Show(Raised)
            /\ UNCHANGED <<order, now, meetings, granted, silenced, crashes>>

\* Mutant: both callers save first.
Poll_SavedFirst ==
    /\ phase = "ready"
    /\ IF Raised = {} THEN UNCHANGED vars
       ELSE /\ Save(Recorded(state, Raised))
            /\ due' = Raised
            /\ UNCHANGED <<order, now, meetings, state, popups, history>>

Poll ==
    /\ phase = "ready"
    /\ IF Raised = {} THEN UNCHANGED vars
       ELSE /\ Save(Recorded(state, Raised))
            /\ IF order = "SaveFirst"
               THEN due' = Raised /\ UNCHANGED <<state, alerts, popups>>
               ELSE due' = {} /\ state' = Recorded(state, Raised) /\ Show(Raised)
            /\ UNCHANGED <<order, now, meetings, granted, silenced, crashes>>

\* The save returns, which it also does when a fault went unnoticed.
SaveReturns ==
    /\ phase = "saving"
    /\ Disk!Commit(App)
    /\ phase' = "saved"
    /\ state' = Recorded(state, due)
    /\ silenced' = silenced \cup state.dismissed
    /\ UNCHANGED <<order, now, meetings, due, popups, alerts, granted, crashes>>

\* What was due is shown when it is saved.
Saved ==
    /\ phase = "saved"
    /\ phase' = "ready"
    /\ Show(due)
    /\ due' = {}
    /\ UNCHANGED <<order, now, meetings, state, disk, granted, silenced, crashes>>

\* The save throws: what was due is not shown, and due again at the next poll.
SaveThrows ==
    /\ phase = "saving"
    /\ Disk!Leave(App)
    /\ phase' = "ready"
    /\ due' = {}
    /\ UNCHANGED <<order, now, meetings, state, popups, history>>

\* The faults of a save nobody notices, and its fallback.
SaveFaults ==
    /\ phase = "saving"
    /\ Disk!Spoil(App) \/ Disk!Stumble(App) \/ Disk!Vanish(App)
    /\ UNCHANGED <<order, now, meetings, phase, state, due, popups, history>>

\* The user's answers; each of them closes the popup and is saved.
Answer(key, new) ==
    /\ phase = "ready" /\ key \in popups
    /\ popups' = popups \ {key}
    /\ state' = new
    /\ Save(new)
    /\ UNCHANGED <<order, now, meetings, due, alerts, silenced, crashes>>

Snooze(key) ==
    /\ granted[key] < MaxSnoozes
    /\ Answer(key, [state EXCEPT !.snoozed[key] = Append(@, now + SnoozeDuration)])
    /\ granted' = [granted EXCEPT ![key] = @ + 1]

\* Mutant: the meeting is dismissed, not the reminder.
Dismiss_Meeting(key) ==
    /\ Answer(key, [state EXCEPT !.dismissed = @ \cup {key[1]}])
    /\ UNCHANGED granted

Dismiss(key) ==
    /\ Answer(key, [state EXCEPT !.dismissed = @ \cup {key}])
    /\ UNCHANGED granted

\* The program ends, at any step; the document stays.
Crash ==
    /\ phase # "down"
    /\ crashes < MaxCrashes
    /\ crashes' = crashes + 1
    /\ phase' = "down"
    /\ state' = EmptyState(MeetingIds)
    /\ due' = {}
    /\ popups' = {}
    /\ Disk!Leave(App) \/ (call[App] = "idle" /\ UNCHANGED disk)
    /\ UNCHANGED <<order, now, meetings, alerts, granted, silenced>>

Next ==
    \/ Tick
    \/ Start \/ Loaded
    \/ Poll
    \/ SaveReturns \/ Saved \/ SaveThrows \/ SaveFaults
    \/ \E key \in Keys : Snooze(key) \/ Dismiss(key)
    \/ Crash

Spec == Init /\ [][Next]_vars

-----------------------------------------------------------------------------

(***************************************************************************)
(* "Restart does not duplicate already fired reminders": a caller that     *)
(* saves before it shows shows every reminder once, and once more for each *)
(* snooze, wherever the program ends and whichever saves throw - as long   *)
(* as no fault goes unnoticed.                                             *)
(***************************************************************************)
NoDuplicateAfterRestart ==
    order = "SaveFirst" /\ failed = {} => \A key \in Keys : alerts[key] <= 1 + granted[key]

(***************************************************************************)
(* Whatever fails, and whichever caller it is, a restart costs each        *)
(* reminder at most one more alert: within a run of the program the state  *)
(* in memory keeps it from being shown twice, also when no save succeeds.  *)
(***************************************************************************)
OneRepeatPerRestart == \A key \in Keys : alerts[key] <= 1 + granted[key] + crashes

(***************************************************************************)
(* A caller that shows first never loses a reminder: what is recorded as   *)
(* fired, in memory or on disk, has been on the screen.                    *)
(***************************************************************************)
RecordedMeansShown ==
    order = "ShowFirst" =>
        \A key \in Keys :
            \/ key \in state.fired
            \/ value \notin {Missing, Torn} /\ key \in value.fired
            => alerts[key] > 0

(***************************************************************************)
(* A dismissal that was saved is final, over restarts too: no step of any  *)
(* later run shows the reminder, unless a fault has gone unnoticed.        *)
(***************************************************************************)
DismissalSurvives ==
    [][failed = {} => \A key \in silenced : alerts'[key] = alerts[key]]_vars
=============================================================================
