----------------------- MODULE ReminderRestartProofs -----------------------
(***************************************************************************)
(* The properties of ReminderRestart for any meetings, windows, snoozes,   *)
(* faults and number of restarts.                                          *)
(***************************************************************************)
EXTENDS ReminderRestart, TLAPS

States == ReminderState(MeetingIds)

\* What a document is loaded as.
Held(doc) == IF doc \in {Missing, Torn} THEN EmptyState(MeetingIds) ELSE doc

\* Whether a program with this state may show the reminder once more.
Owes(s, key) == IF key \in s.fired /\ ~ is_snoozed(s, key) THEN 0 ELSE 1

\* Whether it is about to be shown, and already recorded.
Waiting(key) == IF phase = "saved" /\ key \in due THEN 1 ELSE 0

Running == phase \in {"ready", "saving", "saved"}

\* Every meeting of the calendar is listed under its id.
CalendarKept == \A id \in MeetingIds : meetings[id].id = id

\* What the program does, what it asks of the disk, and what it has in hand.
CallShape ==
    /\ phase \in {"down", "ready", "saved"} => call[App] = "idle"
    /\ phase = "starting" => call[App] = "loading"
    /\ phase = "saving" => call[App] \in {"saving", "replacing"}
    /\ phase \in {"down", "starting"} => state = EmptyState(MeetingIds)
    /\ phase \in {"down", "starting", "ready"} => due = {}
    /\ order = "ShowFirst" => due = {}
    /\ \A key \in due : key \notin state.dismissed
    /\ phase = "saving" => \A key \in due : Owes(state, key) = 1

\* Without an unnoticed fault the disk has and gives back what was saved.
DiskFaithful ==
    failed = {} =>
        /\ value # Torn
        /\ call[App] # "replacing"
        /\ phase = "starting" => arg[App] = value
        /\ phase = "saving" => arg[App] = Recorded(state, due)

\* Every alert so far, and every one the state in memory still allows, is paid
\* for by the first showing, a granted snooze or the end of a run.
RunsPaidFor ==
    \A key \in Keys :
        alerts[key] + Owes(state, key) + Waiting(key) <= 1 + granted[key] + crashes

\* For a caller that saves first the document allows no alert either that is
\* not paid for, so that a restart costs nothing.
DiskPaidFor ==
    order = "SaveFirst" /\ failed = {} =>
        \A key \in Keys :
            /\ alerts[key] + Owes(Held(value), key) + Waiting(key) <= 1 + granted[key]
            /\ Running => alerts[key] + Owes(state, key) + Waiting(key) <= 1 + granted[key]

\* For a caller that shows first nothing is recorded that was not shown.
ShownBefore ==
    order = "ShowFirst" =>
        \A key \in Keys :
            \/ key \in state.fired
            \/ key \in Held(value).fired
            \/ key \in Held(arg[App]).fired
            => alerts[key] > 0

\* Saved dismissals are on disk, and in memory while the program runs.
SilencedHeld ==
    failed = {} =>
        /\ silenced \subseteq Held(value).dismissed
        /\ Running => silenced \subseteq state.dismissed

IInv ==
    /\ TypeOK
    /\ CalendarKept
    /\ CallShape
    /\ DiskFaithful
    /\ RunsPaidFor
    /\ DiskPaidFor
    /\ ShownBefore
    /\ SilencedHeld

-----------------------------------------------------------------------------

\* The components of a state in which some reminders are recorded as fired.
LEMMA RecordedParts ==
    ASSUME NEW s \in States, NEW keys \in SUBSET Keys
    PROVE  /\ Recorded(s, keys) \in States
           /\ Recorded(s, keys).fired = s.fired \cup keys
           /\ Recorded(s, keys).dismissed = s.dismissed
           /\ Recorded(s, keys).snoozed =
                 [key \in Keys |-> IF key \in keys THEN << >> ELSE s.snoozed[key]]
<1>1. /\ s.fired \in SUBSET Keys
      /\ s.dismissed \in SUBSET Keys
      /\ s.snoozed \in [Keys -> Seq(Int)]
  BY DEF States, ReminderState, Keys
<1>2. [key \in Keys |-> IF key \in keys THEN << >> ELSE s.snoozed[key]] \in [Keys -> Seq(Int)]
  BY <1>1
<1> QED
  BY <1>1, <1>2 DEF Recorded, States, ReminderState, Keys

LEMMA RecordedNone ==
    ASSUME NEW s \in States
    PROVE  Recorded(s, {}) = s
<1>1. [key \in Keys |-> s.snoozed[key]] = s.snoozed
  BY DEF States, ReminderState, Keys
<1>2. Recorded(s, {}) = [fired |-> s.fired, dismissed |-> s.dismissed, snoozed |-> s.snoozed]
  BY <1>1 DEF Recorded
<1> QED
  BY <1>2 DEF States, ReminderState

LEMMA EmptyParts ==
    /\ EmptyState(MeetingIds) \in States
    /\ EmptyState(MeetingIds).fired = {}
    /\ EmptyState(MeetingIds).dismissed = {}
    /\ \A key \in Keys : Owes(EmptyState(MeetingIds), key) = 1
  BY DEF EmptyState, States, ReminderState, Owes

LEMMA HeldIsState ==
    ASSUME NEW doc \in States \cup {Missing, Torn}
    PROVE  Held(doc) \in States /\ (doc \in States => Held(doc) = doc)
  BY EmptyParts, DocumentAssumption DEF Held, States

LEMMA OwesOne == \A s, key : Owes(s, key) \in {0, 1}
  BY DEF Owes

\* Recording a reminder settles it, and leaves the others as they were.
LEMMA RecordedOwes ==
    ASSUME NEW s \in States, NEW keys \in SUBSET Keys, NEW key \in Keys
    PROVE  Owes(Recorded(s, keys), key) = IF key \in keys THEN 0 ELSE Owes(s, key)
<1>1. key \in Recorded(s, keys).fired <=> key \in s.fired \/ key \in keys
  BY DEF Recorded
<1>2. is_snoozed(Recorded(s, keys), key) <=> key \notin keys /\ is_snoozed(s, key)
  BY DEF Recorded, is_snoozed
<1> QED
  BY <1>1, <1>2 DEF Owes

\* A reminder is raised only if it is not dismissed and not yet settled.
LEMMA RaisedOwes ==
    ASSUME TypeOK, CalendarKept
    PROVE  /\ Raised \in SUBSET Keys
           /\ \A key \in Raised : key \notin state.dismissed /\ Owes(state, key) = 1
<1> DEFINE traces == evaluate_reminders(meetings, state, now, "Fresh")
<1>1. DOMAIN meetings = MeetingIds
  BY DEF TypeOK
<1>2. Raised = {entry \in MeetingIds \X ReminderKind : traces[entry].action = "Emit"}
  BY <1>1 DEF Raised, decisions, evaluate_reminders
<1>3. Raised \in SUBSET Keys
  BY <1>2 DEF Keys, ReminderKey
<1>4. ASSUME NEW id \in MeetingIds, NEW kind \in ReminderKind, <<id, kind>> \in Raised
      PROVE  <<id, kind>> \notin state.dismissed /\ Owes(state, <<id, kind>>) = 1
  <2> DEFINE meeting == meetings[id]
             key == <<id, kind>>
  <2>1. traces[key] = evaluate_key(meetings[id], kind, state, now, "Fresh")
    BY <1>1 DEF evaluate_reminders
  <2>2. Emits(ReasonFor(meeting, kind, state, now))
    BY <1>2, <1>4, <2>1 DEF evaluate_key
  <2>3. reminder_key(meeting, kind) = key
    BY DEF CalendarKept, reminder_key
  <2> QED
    BY <2>2, <2>3 DEF ReasonFor, Emits, was_dismissed, was_fired, Owes
<1> QED
  BY <1>2, <1>3, <1>4

-----------------------------------------------------------------------------

\* What the counters are.
LEMMA Numbers ==
    ASSUME TypeOK
    PROVE  /\ \A key \in Keys : alerts[key] \in Nat /\ granted[key] \in Nat
           /\ crashes \in Nat
  BY RestartAssumption DEF TypeOK

\* The contents of the disk are states or no document.
LEMMA OnDisk ==
    ASSUME TypeOK
    PROVE  /\ value \in States \cup {Missing, Torn}
           /\ arg[App] \in States \cup {Missing, Torn}
           /\ call = [p \in {App} |-> call[App]]
           /\ arg = [p \in {App} |-> arg[App]]
  BY DEF TypeOK, Disk!TypeOK, States

LEMMA RestartInit == Init => IInv
<1> SUFFICES ASSUME Init PROVE IInv
  OBVIOUS
<1> USE RestartAssumption
<1>1. /\ state = EmptyState(MeetingIds) /\ Held(value) = EmptyState(MeetingIds)
      /\ Held(arg[App]) = EmptyState(MeetingIds)
  BY DEF Init, Held
<1>0. PICK start \in [MeetingIds -> StartTimes] :
          meetings = [id \in MeetingIds |->
                        [id |-> id, starts_at |-> start[id], cancelled |-> FALSE]]
  BY DEF Init
<1>2. TypeOK
  <2>1. meetings \in [MeetingIds -> MeetingInstance(MeetingIds)]
    <3>1. \A id \in MeetingIds : start[id] \in Int
      OBVIOUS
    <3> QED
      BY <1>0, <3>1 DEF MeetingInstance
  <2>2. state \in ReminderState(MeetingIds)
    BY <1>1, EmptyParts DEF States
  <2>3. Disk!TypeOK
    BY DEF Init, Disk!TypeOK
  <2>4. alerts \in [Keys -> Nat] /\ granted \in [Keys -> 0..MaxSnoozes]
    BY DEF Init
  <2>5. now \in 0..Horizon /\ crashes \in 0..MaxCrashes
    BY DEF Init
  <2> QED
    BY <2>1, <2>2, <2>3, <2>4, <2>5 DEF Init, TypeOK
<1>3. CalendarKept /\ CallShape /\ DiskFaithful
  <2>1. CalendarKept
    BY <1>0 DEF CalendarKept
  <2>2. CallShape
    BY <1>1 DEF Init, CallShape
  <2>3. DiskFaithful
    BY DocumentAssumption DEF Init, DiskFaithful
  <2> QED
    BY <2>1, <2>2, <2>3
<1>4. RunsPaidFor /\ DiskPaidFor
  <2>1. \A key \in Keys : /\ alerts[key] = 0 /\ granted[key] = 0 /\ Waiting(key) = 0
                          /\ Owes(state, key) = 1 /\ Owes(Held(value), key) = 1
    BY <1>1, EmptyParts DEF Init, Waiting
  <2> QED
    BY <2>1 DEF Init, RunsPaidFor, DiskPaidFor
<1>5. ShownBefore /\ SilencedHeld
  BY <1>1, EmptyParts DEF Init, ShownBefore, SilencedHeld
<1> QED
  BY <1>2, <1>3, <1>4, <1>5 DEF IInv

LEMMA TickStep == IInv /\ Tick => IInv'
<1> SUFFICES ASSUME IInv, Tick PROVE IInv'
  OBVIOUS
<1> USE RestartAssumption DEF Tick, disk, history
<1>1. TypeOK'
  <2>1. Disk!TypeOK'
    BY DEF IInv, TypeOK, Disk!TypeOK
  <2>2. now' \in 0..Horizon
    BY DEF IInv, TypeOK
  <2> QED
    BY <2>1, <2>2 DEF IInv, TypeOK
<1>2. CalendarKept' /\ CallShape' /\ DiskFaithful'
  BY DEF IInv, CalendarKept, CallShape, DiskFaithful, Owes, is_snoozed
<1>3. RunsPaidFor' /\ DiskPaidFor'
  BY DEF IInv, RunsPaidFor, DiskPaidFor, Waiting, Running
<1>4. ShownBefore' /\ SilencedHeld'
  BY DEF IInv, ShownBefore, SilencedHeld, Running
<1> QED
  BY <1>1, <1>2, <1>3, <1>4 DEF IInv

LEMMA StartStep == IInv /\ Start => IInv'
<1> SUFFICES ASSUME IInv, Start PROVE IInv'
  OBVIOUS
<1> USE RestartAssumption DEF Start, disk, history
<1>1. TypeOK
  BY DEF IInv
<1>2. /\ call[App]' = "loading"
      /\ value' = value
      /\ \/ arg[App]' = value /\ failed' = failed
         \/ arg[App]' = arg[App] /\ failed' # {}
  BY <1>1, OnDisk DEF TypeOK, Disk!TypeOK, Disk!Load, Disk!Fails
<1>3. TypeOK'
  BY <1>1 DEF TypeOK, Disk!TypeOK, Disk!Load, Disk!Fails
<1>4. CalendarKept' /\ CallShape' /\ DiskFaithful'
  BY <1>2 DEF IInv, CalendarKept, CallShape, DiskFaithful
<1>5. RunsPaidFor' /\ DiskPaidFor'
  BY <1>2 DEF IInv, RunsPaidFor, DiskPaidFor, Waiting, Running, Disk!Load, Disk!Fails
<1>6. ShownBefore' /\ SilencedHeld'
  BY <1>2 DEF IInv, ShownBefore, SilencedHeld, Running, Disk!Load, Disk!Fails
<1> QED
  BY <1>3, <1>4, <1>5, <1>6 DEF IInv

LEMMA LoadedStep == IInv /\ Loaded => IInv'
<1> SUFFICES ASSUME IInv, Loaded PROVE IInv'
  OBVIOUS
<1> USE RestartAssumption
<1>1. /\ TypeOK
      /\ phase = "starting" /\ call[App] = "loading" /\ due = {}
      /\ state = EmptyState(MeetingIds)
  BY DEF IInv, Loaded, CallShape
<1>2. /\ state' = Held(arg[App])
      /\ phase' \in {"ready", "down"}
      /\ phase' = "down" => arg[App] = Torn
      /\ call'[App] = "idle" /\ arg'[App] = Missing
      /\ value' = value /\ failed' = failed
  BY <1>1, OnDisk DEF Loaded, Held, Disk!Leave
<1>3. state' \in States /\ Held(value) \in States /\ Held(arg'[App]) = EmptyState(MeetingIds)
  BY <1>1, <1>2, OnDisk, HeldIsState DEF Held
<1>4. TypeOK'
  <2>1. Disk!TypeOK'
    BY <1>1 DEF TypeOK, Loaded, Disk!TypeOK, Disk!Leave
  <2> QED
    BY <1>1, <1>2, <1>3, <2>1 DEF TypeOK, Loaded, history, States
<1>5. CalendarKept'
  BY DEF IInv, CalendarKept, Loaded
<1>6. CallShape'
  BY <1>1, <1>2 DEF CallShape, Loaded, Held
<1>7. DiskFaithful'
  BY <1>1, <1>2 DEF IInv, DiskFaithful
<1>8. RunsPaidFor'
  <2>1. ASSUME NEW key \in Keys
        PROVE  alerts[key] + Owes(state', key) <= 1 + granted[key] + crashes
    BY <1>1, EmptyParts, OwesOne, Numbers DEF IInv, RunsPaidFor, Waiting
  <2> QED
    BY <1>1, <1>2, <2>1, Numbers, OwesOne DEF RunsPaidFor, Waiting, Loaded, history
<1>9. DiskPaidFor'
  <2>1. failed = {} => state' = Held(value)
    BY <1>1, <1>2 DEF IInv, DiskFaithful
  <2> QED
    BY <1>1, <1>2, <2>1 DEF IInv, DiskPaidFor, Waiting, Loaded, history
<1>10. ShownBefore'
  BY <1>2, <1>3, EmptyParts DEF IInv, ShownBefore, Loaded, history
<1>11. SilencedHeld'
  BY <1>1, <1>2 DEF IInv, SilencedHeld, DiskFaithful, Loaded, history
<1> QED
  BY <1>4, <1>5, <1>6, <1>7, <1>8, <1>9, <1>10, <1>11 DEF IInv

LEMMA StutterStep == IInv /\ UNCHANGED vars => IInv'
<1> SUFFICES ASSUME IInv, UNCHANGED vars PROVE IInv'
  OBVIOUS
<1> USE DEF IInv, vars, disk, history
<1>1. TypeOK' /\ CalendarKept'
  BY DEF TypeOK, Disk!TypeOK, CalendarKept
<1>2. CallShape' /\ DiskFaithful'
  BY DEF CallShape, DiskFaithful, Owes, is_snoozed
<1>3. RunsPaidFor' /\ DiskPaidFor'
  BY DEF RunsPaidFor, DiskPaidFor, Waiting, Running
<1>4. ShownBefore' /\ SilencedHeld'
  BY DEF ShownBefore, SilencedHeld, Running
<1> QED
  BY <1>1, <1>2, <1>3, <1>4

\* A poll that raises nothing changes nothing; one that does starts a save.
LEMMA PollStep == IInv /\ Poll => IInv'
<1> SUFFICES ASSUME IInv, Poll, Raised # {} PROVE IInv'
  BY StutterStep DEF Poll
<1> USE RestartAssumption
<1>1. /\ TypeOK
      /\ phase = "ready" /\ due = {}
      /\ state \in States /\ Held(value) \in States
      /\ Raised \in SUBSET Keys
      /\ \A key \in Raised : key \notin state.dismissed /\ Owes(state, key) = 1
  BY RaisedOwes, OnDisk, HeldIsState DEF IInv, Poll, CallShape, TypeOK, States
<1> DEFINE new == Recorded(state, Raised)
<1>2. /\ new \in States
      /\ new.fired = state.fired \cup Raised
      /\ new.dismissed = state.dismissed
      /\ Recorded(new, {}) = new
      /\ \A key \in Keys : Owes(new, key) = IF key \in Raised THEN 0 ELSE Owes(state, key)
  BY <1>1, RecordedParts, RecordedNone, RecordedOwes
<1>3. /\ phase' = "saving"
      /\ call'[App] = "saving" /\ arg'[App] = new
      /\ value' = value /\ failed' = failed
      /\ UNCHANGED <<order, now, meetings, granted, silenced, crashes>>
  BY <1>1, OnDisk DEF Poll, Save, Disk!Save
<1>4. \/ /\ order = "SaveFirst"
         /\ due' = Raised /\ UNCHANGED <<state, alerts, popups>>
      \/ /\ order = "ShowFirst"
         /\ due' = {} /\ state' = new
         /\ popups' = popups \cup Raised
         /\ alerts' = [key \in Keys |-> alerts[key] + (IF key \in Raised THEN 1 ELSE 0)]
  BY <1>1 DEF Poll, Show, TypeOK
<1>5. TypeOK'
  <2>1. Disk!TypeOK'
    BY <1>1, <1>2 DEF TypeOK, Poll, Save, Disk!TypeOK, Disk!Save, States
  <2>2. alerts' \in [Keys -> Nat]
    BY <1>1, <1>4 DEF TypeOK
  <2>3. state' \in States /\ due' \subseteq Keys /\ popups' \subseteq Keys
    BY <1>1, <1>2, <1>4 DEF TypeOK
  <2> QED
    BY <1>1, <1>3, <2>1, <2>2, <2>3 DEF TypeOK, States
<1>6. CalendarKept'
  BY <1>3 DEF IInv, CalendarKept
<1>7. CallShape'
  BY <1>1, <1>3, <1>4 DEF CallShape
<1>8. DiskFaithful'
  BY <1>2, <1>3, <1>4 DEF IInv, DiskFaithful
<1>9. RunsPaidFor'
  <2>1. ASSUME NEW key \in Keys
        PROVE  alerts'[key] + Owes(state', key) <= 1 + granted[key] + crashes
    BY <1>1, <1>2, <1>4, OwesOne, Numbers DEF IInv, RunsPaidFor, Waiting
  <2>2. \A key \in Keys : alerts'[key] \in Nat /\ Waiting(key)' = 0
    BY <1>3, <1>5 DEF TypeOK, Waiting
  <2> QED
    BY <1>3, <2>1, <2>2, OwesOne DEF RunsPaidFor
<1>10. DiskPaidFor'
  BY <1>1, <1>3, <1>4 DEF IInv, DiskPaidFor, Waiting, Running
<1>11. ShownBefore'
  <2> SUFFICES ASSUME order = "ShowFirst", NEW key \in Keys,
                      key \in new.fired \/ key \in Held(value).fired
               PROVE  alerts'[key] > 0
    BY <1>2, <1>3, <1>4, HeldIsState DEF ShownBefore
  <2>1. key \in Raised \/ alerts[key] > 0
    BY <1>2 DEF IInv, ShownBefore
  <2> QED
    BY <1>1, <1>4, <2>1, Numbers
<1>12. SilencedHeld'
  BY <1>1, <1>2, <1>3, <1>4 DEF IInv, SilencedHeld, Running
<1> QED
  BY <1>5, <1>6, <1>7, <1>8, <1>9, <1>10, <1>11, <1>12 DEF IInv

LEMMA SaveReturnsStep == IInv /\ SaveReturns => IInv'
<1> SUFFICES ASSUME IInv, SaveReturns PROVE IInv'
  OBVIOUS
<1> USE RestartAssumption
<1>1. /\ TypeOK
      /\ phase = "saving"
      /\ state \in States /\ Held(value) \in States
      /\ due \in SUBSET Keys
      /\ \A key \in due : key \notin state.dismissed /\ Owes(state, key) = 1
  BY OnDisk, HeldIsState DEF IInv, SaveReturns, CallShape, TypeOK, States
<1>2. /\ state' \in States
      /\ state' = Recorded(state, due)
      /\ state'.fired = state.fired \cup due
      /\ state'.dismissed = state.dismissed
      /\ \A key \in Keys : Owes(state', key) = IF key \in due THEN 0 ELSE Owes(state, key)
  <2>1. state' = Recorded(state, due)
    BY DEF SaveReturns
  <2>2. /\ Recorded(state, due) \in States
        /\ Recorded(state, due).fired = state.fired \cup due
        /\ Recorded(state, due).dismissed = state.dismissed
    BY <1>1, RecordedParts
  <2>3. \A key \in Keys :
            Owes(Recorded(state, due), key) = IF key \in due THEN 0 ELSE Owes(state, key)
    BY <1>1, RecordedOwes
  <2> QED
    BY <2>1, <2>2, <2>3
<1>3. /\ phase' = "saved"
      /\ value' = arg[App] /\ failed' = failed
      /\ call'[App] = "idle" /\ arg'[App] = Missing
      /\ silenced' = silenced \cup state.dismissed
      /\ UNCHANGED <<order, now, meetings, due, popups, alerts, granted, crashes>>
  BY <1>1, OnDisk DEF SaveReturns, Disk!Commit
<1>4. failed = {} => value' = state' /\ Held(value') = state'
  BY <1>1, <1>2, <1>3, HeldIsState DEF IInv, DiskFaithful
<1>5. TypeOK'
  <2>1. Disk!TypeOK'
    BY <1>1 DEF TypeOK, SaveReturns, Disk!TypeOK, Disk!Commit
  <2>2. silenced' \subseteq Keys
    BY <1>1, <1>3 DEF TypeOK, States, ReminderState, Keys
  <2> QED
    BY <1>1, <1>2, <1>3, <2>1, <2>2 DEF TypeOK, States
<1>6. CalendarKept'
  BY <1>3 DEF IInv, CalendarKept
<1>7. CallShape'
  BY <1>1, <1>2, <1>3 DEF IInv, CallShape
<1>8. DiskFaithful'
  BY <1>2, <1>3, <1>4, DocumentAssumption DEF IInv, DiskFaithful, States
<1>9. \A key \in Keys : /\ Waiting(key) = 0
                        /\ Waiting(key)' = IF key \in due THEN 1 ELSE 0
                        /\ Owes(state', key) + Waiting(key)' = Owes(state, key)
  BY <1>1, <1>2, <1>3, OwesOne DEF Waiting
<1>10. RunsPaidFor'
  <2> SUFFICES ASSUME NEW key \in Keys
               PROVE  alerts[key] + Owes(state', key) + Waiting(key)' <= 1 + granted[key] + crashes
    BY <1>3 DEF RunsPaidFor
  <2>1. alerts[key] + Owes(state, key) <= 1 + granted[key] + crashes
    BY <1>1, <1>9, OwesOne, Numbers DEF IInv, RunsPaidFor
  <2> QED
    BY <1>1, <1>2, <1>9, <2>1, OwesOne, Numbers
<1>11. DiskPaidFor'
  <2> SUFFICES ASSUME order = "SaveFirst", failed = {}, NEW key \in Keys
               PROVE  alerts[key] + Owes(state', key) + Waiting(key)' <= 1 + granted[key]
    BY <1>3, <1>4 DEF DiskPaidFor
  <2>1. alerts[key] + Owes(state, key) <= 1 + granted[key]
    BY <1>1, <1>9, OwesOne, Numbers DEF IInv, DiskPaidFor, Running
  <2> QED
    BY <1>1, <1>2, <1>9, <2>1, OwesOne, Numbers
<1>12. ShownBefore'
  <2> SUFFICES ASSUME order = "ShowFirst", NEW key \in Keys,
                      key \in state'.fired \/ key \in Held(arg[App]).fired
               PROVE  alerts[key] > 0
    BY <1>3, EmptyParts DEF ShownBefore, Held
  <2>1. state'.fired = state.fired
    BY <1>2 DEF IInv, CallShape
  <2> QED
    BY <2>1 DEF IInv, ShownBefore
<1>13. SilencedHeld'
  BY <1>1, <1>2, <1>3, <1>4 DEF IInv, SilencedHeld, Running
<1> QED
  BY <1>5, <1>6, <1>7, <1>8, <1>10, <1>11, <1>12, <1>13 DEF IInv

LEMMA SavedStep == IInv /\ Saved => IInv'
<1> SUFFICES ASSUME IInv, Saved PROVE IInv'
  OBVIOUS
<1> USE RestartAssumption
<1>1. /\ TypeOK
      /\ phase = "saved" /\ phase' = "ready" /\ due' = {}
      /\ alerts' = [key \in Keys |-> alerts[key] + (IF key \in due THEN 1 ELSE 0)]
      /\ popups' = popups \cup due
      /\ UNCHANGED <<order, now, meetings, state, granted, silenced, crashes>>
      /\ UNCHANGED <<value, call, arg, failed>>
  BY DEF IInv, Saved, Show, disk
<1>2. TypeOK'
  <2>1. Disk!TypeOK'
    BY <1>1 DEF TypeOK, Disk!TypeOK
  <2>2. alerts' \in [Keys -> Nat]
    BY <1>1 DEF TypeOK
  <2> QED
    BY <1>1, <2>1, <2>2 DEF TypeOK
<1>3. CalendarKept' /\ CallShape' /\ DiskFaithful'
  BY <1>1 DEF IInv, CalendarKept, CallShape, DiskFaithful
<1>4. \A key \in Keys : /\ Waiting(key)' = 0
                        /\ alerts'[key] = alerts[key] + Waiting(key)
                        /\ alerts[key] \in Nat /\ Waiting(key) \in Nat
  BY <1>1, Numbers DEF Waiting
<1>5. RunsPaidFor' /\ DiskPaidFor'
  BY <1>1, <1>4, OwesOne, Numbers DEF IInv, RunsPaidFor, DiskPaidFor, Running
<1>6. ShownBefore'
  BY <1>1, <1>4 DEF IInv, ShownBefore
<1>7. SilencedHeld'
  BY <1>1 DEF IInv, SilencedHeld, Running
<1> QED
  BY <1>2, <1>3, <1>5, <1>6, <1>7 DEF IInv

LEMMA SaveThrowsStep == IInv /\ SaveThrows => IInv'
<1> SUFFICES ASSUME IInv, SaveThrows PROVE IInv'
  OBVIOUS
<1> USE RestartAssumption
<1>1. /\ TypeOK
      /\ phase = "saving" /\ phase' = "ready" /\ due' = {}
      /\ call'[App] = "idle" /\ arg'[App] = Missing
      /\ UNCHANGED <<order, now, meetings, state, popups, alerts, granted, silenced, crashes>>
      /\ UNCHANGED <<value, failed>>
  BY OnDisk DEF IInv, SaveThrows, Disk!Leave, history
<1>2. TypeOK'
  <2>1. Disk!TypeOK'
    BY <1>1 DEF TypeOK, SaveThrows, Disk!TypeOK, Disk!Leave
  <2> QED
    BY <1>1, <2>1 DEF TypeOK
<1>3. CalendarKept' /\ CallShape' /\ DiskFaithful'
  BY <1>1 DEF IInv, CalendarKept, CallShape, DiskFaithful
<1>4. RunsPaidFor' /\ DiskPaidFor'
  BY <1>1 DEF IInv, RunsPaidFor, DiskPaidFor, Waiting, Running
<1>5. ShownBefore'
  BY <1>1, EmptyParts DEF IInv, ShownBefore, Held
<1>6. SilencedHeld'
  BY <1>1 DEF IInv, SilencedHeld, Running
<1> QED
  BY <1>2, <1>3, <1>4, <1>5, <1>6 DEF IInv

LEMMA SaveFaultsStep == IInv /\ SaveFaults => IInv'
<1> SUFFICES ASSUME IInv, SaveFaults PROVE IInv'
  OBVIOUS
<1> USE RestartAssumption
<1>1. /\ TypeOK
      /\ phase = "saving" /\ phase' = "saving"
      /\ failed' # {}
      /\ value' \in {value, Missing} /\ arg'[App] \in {arg[App], Torn}
      /\ call'[App] \in {"saving", "replacing"}
      /\ UNCHANGED <<order, now, meetings, state, due, popups, alerts, granted, silenced, crashes>>
  BY OnDisk DEF IInv, SaveFaults, CallShape, DiskFaithful, history,
                Disk!Spoil, Disk!Stumble, Disk!Vanish, Disk!Fails
<1>2. TypeOK'
  <2>1. Disk!TypeOK'
    BY <1>1 DEF TypeOK, SaveFaults, Disk!TypeOK,
                Disk!Spoil, Disk!Stumble, Disk!Vanish, Disk!Fails
  <2> QED
    BY <1>1, <2>1 DEF TypeOK
<1>3. CalendarKept' /\ DiskFaithful' /\ DiskPaidFor' /\ SilencedHeld'
  BY <1>1 DEF IInv, CalendarKept, DiskFaithful, DiskPaidFor, SilencedHeld
<1>4. CallShape'
  BY <1>1 DEF IInv, CallShape, Owes, is_snoozed
<1>5. RunsPaidFor'
  BY <1>1 DEF IInv, RunsPaidFor, Waiting
<1>6. ShownBefore'
  BY <1>1, EmptyParts DEF IInv, ShownBefore, Held
<1> QED
  BY <1>2, <1>3, <1>4, <1>5, <1>6 DEF IInv

\* An answer that records no reminder and pays for what it allows.
LEMMA AnswerStep ==
    ASSUME IInv, NEW key \in Keys, NEW new \in States, Answer(key, new),
           new.fired = state.fired, state.dismissed \subseteq new.dismissed,
           granted' \in [Keys -> 0..MaxSnoozes],
           \A k \in Keys : /\ granted[k] <= granted'[k]
                           /\ Owes(new, k) + granted[k] <= Owes(state, k) + granted'[k]
    PROVE  IInv'
<1> USE RestartAssumption
<1>1. /\ TypeOK
      /\ phase = "ready" /\ due = {} /\ phase' = "saving"
      /\ state' = new
      /\ call'[App] = "saving" /\ arg'[App] = new
      /\ popups' = popups \ {key}
      /\ UNCHANGED <<order, now, meetings, due, alerts, silenced, crashes>>
      /\ UNCHANGED <<value, failed>>
  BY OnDisk DEF IInv, Answer, Save, CallShape, Disk!Save
<1>2. TypeOK'
  <2>1. Disk!TypeOK'
    BY <1>1 DEF TypeOK, Answer, Save, Disk!TypeOK, Disk!Save, States
  <2> QED
    BY <1>1, <2>1 DEF TypeOK, States
<1>3. CalendarKept' /\ CallShape'
  BY <1>1 DEF IInv, CalendarKept, CallShape
<1>4. DiskFaithful'
  BY <1>1, RecordedNone DEF IInv, DiskFaithful
<1>5. \A k \in Keys : /\ Waiting(k) = 0 /\ Waiting(k)' = 0
                      /\ alerts[k] \in Nat /\ granted[k] \in Nat /\ granted'[k] \in Nat
  BY <1>1, Numbers DEF Waiting
<1>6. RunsPaidFor'
  <2> SUFFICES ASSUME NEW k \in Keys
               PROVE  alerts[k] + Owes(new, k) <= 1 + granted'[k] + crashes
    BY <1>1, <1>5, OwesOne, Numbers DEF RunsPaidFor
  <2>1. alerts[k] + Owes(state, k) <= 1 + granted[k] + crashes
    BY <1>5, OwesOne, Numbers DEF IInv, RunsPaidFor
  <2> QED
    BY <1>1, <1>5, <2>1, OwesOne, Numbers
<1>7. DiskPaidFor'
  <2> SUFFICES ASSUME order = "SaveFirst", failed = {}, NEW k \in Keys
               PROVE  /\ alerts[k] + Owes(Held(value), k) <= 1 + granted'[k]
                      /\ alerts[k] + Owes(new, k) <= 1 + granted'[k]
    BY <1>1, <1>5, OwesOne, Numbers DEF DiskPaidFor
  <2>1. /\ alerts[k] + Owes(Held(value), k) <= 1 + granted[k]
        /\ alerts[k] + Owes(state, k) <= 1 + granted[k]
    BY <1>1, <1>5, OwesOne, Numbers DEF IInv, DiskPaidFor, Running
  <2> QED
    BY <1>1, <1>5, <2>1, OwesOne, Numbers
<1>8. ShownBefore'
  BY <1>1, HeldIsState DEF IInv, ShownBefore
<1>9. SilencedHeld'
  BY <1>1 DEF IInv, SilencedHeld, Running
<1> QED
  BY <1>2, <1>3, <1>4, <1>6, <1>7, <1>8, <1>9 DEF IInv

LEMMA SnoozeStep == ASSUME IInv, NEW key \in Keys, Snooze(key) PROVE IInv'
<1> USE RestartAssumption
<1> DEFINE new == [state EXCEPT !.snoozed[key] = Append(@, now + SnoozeDuration)]
<1>1. TypeOK /\ state \in States /\ Answer(key, new)
  BY DEF IInv, TypeOK, States, Snooze
<1>2. /\ granted' = [granted EXCEPT ![key] = @ + 1]
      /\ granted[key] < MaxSnoozes
      /\ granted \in [Keys -> 0..MaxSnoozes]
  BY <1>1 DEF Snooze, TypeOK
<1>3. now + SnoozeDuration \in Int
  BY <1>1 DEF TypeOK
<1>4. /\ state.snoozed \in [Keys -> Seq(Int)]
      /\ state.fired \in SUBSET Keys /\ state.dismissed \in SUBSET Keys
  BY <1>1 DEF States, ReminderState, Keys
<1>5. /\ new.fired = state.fired
      /\ new.dismissed = state.dismissed
      /\ new.snoozed = [state.snoozed EXCEPT ![key] = Append(@, now + SnoozeDuration)]
  BY <1>1 DEF States, ReminderState, Keys
<1>6. new.snoozed \in [Keys -> Seq(Int)]
  BY <1>3, <1>4, <1>5
<1>7. new \in States
  <2>1. PICK n : n = new
    OBVIOUS
  <2>2. n = [fired |-> n.fired, dismissed |-> n.dismissed, snoozed |-> n.snoozed]
    BY <1>1, <2>1 DEF States, ReminderState
  <2> QED
    BY <1>4, <1>5, <1>6, <2>1, <2>2 DEF States, ReminderState, Keys
<1>8. granted' \in [Keys -> 0..MaxSnoozes]
  BY <1>2
<1>9. ASSUME NEW k \in Keys
      PROVE  /\ granted[k] <= granted'[k]
             /\ Owes(new, k) + granted[k] <= Owes(state, k) + granted'[k]
  <2>1. granted[k] \in Nat /\ granted'[k] = IF k = key THEN granted[k] + 1 ELSE granted[k]
    BY <1>2
  <2>2. k # key => Owes(new, k) = Owes(state, k)
    BY <1>4, <1>5 DEF Owes, is_snoozed
  <2> QED
    BY <2>1, <2>2, OwesOne
<1> HIDE DEF new
<1> QED
  BY <1>1, <1>5, <1>7, <1>8, <1>9, AnswerStep

LEMMA DismissStep == ASSUME IInv, NEW key \in Keys, Dismiss(key) PROVE IInv'
<1> DEFINE new == [state EXCEPT !.dismissed = @ \cup {key}]
<1>1. TypeOK /\ state \in States /\ Answer(key, new) /\ granted' = granted
  BY DEF IInv, TypeOK, States, Dismiss
<1>2. /\ new.fired = state.fired
      /\ new.dismissed = state.dismissed \cup {key}
      /\ new.snoozed = state.snoozed
      /\ new \in States
  BY <1>1 DEF States, ReminderState, Keys
<1>3. /\ granted' \in [Keys -> 0..MaxSnoozes]
      /\ \A k \in Keys : granted[k] \in Nat
  BY <1>1, Numbers DEF TypeOK
<1>4. \A k \in Keys : Owes(new, k) = Owes(state, k)
  BY <1>2 DEF Owes, is_snoozed
<1> HIDE DEF new
<1>5. \A k \in Keys : /\ granted[k] <= granted'[k]
                      /\ Owes(new, k) + granted[k] <= Owes(state, k) + granted'[k]
  BY <1>1, <1>3, <1>4, OwesOne
<1> QED
  BY <1>1, <1>2, <1>3, <1>5, AnswerStep

LEMMA CrashStep == IInv /\ Crash => IInv'
<1> SUFFICES ASSUME IInv, Crash PROVE IInv'
  OBVIOUS
<1> USE RestartAssumption
<1>1. /\ TypeOK
      /\ phase' = "down" /\ due' = {} /\ popups' = {}
      /\ state' = EmptyState(MeetingIds)
      /\ crashes \in Nat /\ crashes' = crashes + 1 /\ crashes < MaxCrashes
      /\ call'[App] = "idle" /\ arg'[App] \in {arg[App], Missing}
      /\ UNCHANGED <<order, now, meetings, alerts, granted, silenced>>
      /\ UNCHANGED <<value, failed>>
  BY OnDisk, Numbers DEF IInv, Crash, Disk!Leave, disk
<1>2. TypeOK'
  <2>1. Disk!TypeOK'
    BY <1>1 DEF TypeOK, Crash, Disk!TypeOK, Disk!Leave, disk
  <2>2. state' \in ReminderState(MeetingIds)
    BY <1>1, EmptyParts DEF States
  <2>3. crashes' \in 0..MaxCrashes
    BY <1>1
  <2> QED
    BY <1>1, <2>1, <2>2, <2>3 DEF TypeOK
<1>3. CalendarKept' /\ CallShape' /\ DiskFaithful'
  BY <1>1 DEF IInv, CalendarKept, CallShape, DiskFaithful
<1>4. \A key \in Keys : /\ Waiting(key)' = 0 /\ Waiting(key) \in Nat
                        /\ Owes(state', key) = 1
                        /\ alerts[key] \in Nat /\ granted[key] \in Nat
  BY <1>1, EmptyParts, Numbers DEF Waiting
<1>5. RunsPaidFor'
  <2> SUFFICES ASSUME NEW key \in Keys
               PROVE  alerts[key] + 1 <= 1 + granted[key] + crashes + 1
    BY <1>1, <1>4 DEF RunsPaidFor
  <2>1. alerts[key] + Owes(state, key) + Waiting(key) <= 1 + granted[key] + crashes
    BY DEF IInv, RunsPaidFor
  <2> QED
    BY <1>1, <1>4, <2>1, OwesOne
<1>6. DiskPaidFor'
  <2> SUFFICES ASSUME order = "SaveFirst", failed = {}, NEW key \in Keys
               PROVE  alerts[key] + Owes(Held(value), key) <= 1 + granted[key]
    BY <1>1, <1>4, OwesOne DEF DiskPaidFor, Running
  <2>1. alerts[key] + Owes(Held(value), key) + Waiting(key) <= 1 + granted[key]
    BY DEF IInv, DiskPaidFor
  <2> QED
    BY <1>4, <2>1, OwesOne
<1>7. ShownBefore'
  BY <1>1, EmptyParts DEF IInv, ShownBefore, Held
<1>8. SilencedHeld'
  BY <1>1 DEF IInv, SilencedHeld, Running
<1> QED
  BY <1>2, <1>3, <1>5, <1>6, <1>7, <1>8 DEF IInv

LEMMA InvStep == IInv /\ [Next]_vars => IInv'
  BY TickStep, StartStep, LoadedStep, PollStep, SaveReturnsStep, SavedStep, SaveThrowsStep,
     SaveFaultsStep, SnoozeStep, DismissStep, CrashStep, StutterStep DEF Next

\* The inductive invariant holds of every reachable state.
THEOREM Inductive == Spec => []IInv
<1> QED
  BY RestartInit, InvStep, PTL DEF Spec

-----------------------------------------------------------------------------

\* Type correctness of the program together with its document.
THEOREM TypeCorrect == Spec => []TypeOK
<1>1. IInv => TypeOK
  BY DEF IInv
<1> QED
  BY <1>1, Inductive, PTL

\* A caller that saves before it shows repeats no reminder, however often the
\* program ends and whichever saves throw, while no fault goes unnoticed.
THEOREM NoDuplicates == Spec => []NoDuplicateAfterRestart
<1>1. IInv => NoDuplicateAfterRestart
  <2> SUFFICES ASSUME IInv, order = "SaveFirst", failed = {}, NEW key \in Keys
               PROVE  alerts[key] <= 1 + granted[key]
    BY DEF NoDuplicateAfterRestart
  <2>1. alerts[key] \in Nat /\ granted[key] \in Nat /\ Waiting(key) \in Nat
    BY Numbers DEF IInv, Waiting
  <2>2. alerts[key] + Owes(Held(value), key) + Waiting(key) <= 1 + granted[key]
    BY DEF IInv, DiskPaidFor
  <2> QED
    BY <2>1, <2>2, OwesOne
<1> QED
  BY <1>1, Inductive, PTL

\* Whatever fails, the end of a run costs a reminder at most one more alert.
THEOREM OneRepeat == Spec => []OneRepeatPerRestart
<1>1. IInv => OneRepeatPerRestart
  <2> SUFFICES ASSUME IInv, NEW key \in Keys
               PROVE  alerts[key] <= 1 + granted[key] + crashes
    BY DEF OneRepeatPerRestart
  <2>1. /\ alerts[key] \in Nat /\ granted[key] \in Nat /\ crashes \in Nat
        /\ Waiting(key) \in Nat
    BY Numbers DEF IInv, Waiting
  <2>2. alerts[key] + Owes(state, key) + Waiting(key) <= 1 + granted[key] + crashes
    BY DEF IInv, RunsPaidFor
  <2> QED
    BY <2>1, <2>2, OwesOne
<1> QED
  BY <1>1, Inductive, PTL

\* A caller that shows first has shown whatever it has recorded as fired.
THEOREM NothingLost == Spec => []RecordedMeansShown
<1>1. IInv => RecordedMeansShown
  BY DEF IInv, ShownBefore, Held, RecordedMeansShown
<1> QED
  BY <1>1, Inductive, PTL

\* No step of any run shows a reminder whose dismissal was saved, while no fault
\* goes unnoticed.
THEOREM DismissalIsFinal == Spec => DismissalSurvives
<1>1. IInv /\ [Next]_vars =>
          [failed = {} => \A key \in silenced : alerts'[key] = alerts[key]]_vars
  <2> SUFFICES ASSUME IInv, Next, failed = {}, NEW key \in silenced
               PROVE  alerts'[key] = alerts[key]
    OBVIOUS
  <2>1. key \in Keys /\ alerts[key] \in Nat
    BY Numbers DEF IInv, TypeOK
  <2>2. CASE Poll
    <3>1. key \in state.dismissed
      BY <2>2 DEF IInv, SilencedHeld, Running, Poll
    <3>2. key \notin Raised
      BY <3>1, RaisedOwes DEF IInv
    <3> QED
      BY <2>1, <2>2, <3>2 DEF Poll, Show, vars, history
  <2>3. CASE Saved
    <3>1. key \in state.dismissed
      BY <2>3 DEF IInv, SilencedHeld, Running, Saved
    <3>2. key \notin due
      BY <3>1 DEF IInv, CallShape
    <3> QED
      BY <2>1, <2>3, <3>2 DEF Saved, Show
  <2> QED
    BY <2>2, <2>3 DEF Next, Tick, Start, Loaded, SaveReturns, SaveThrows, SaveFaults,
                      Snooze, Dismiss, Answer, Crash, history
<1> QED
  BY <1>1, Inductive, PTL DEF Spec, DismissalSurvives
=============================================================================
