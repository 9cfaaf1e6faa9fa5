---------------------- MODULE ReminderLifecycleProofs ----------------------
(***************************************************************************)
(* The properties of ReminderLifecycle for every set of meetings, start    *)
(* times, windows, poll interval and snooze duration.                      *)
(***************************************************************************)
EXTENDS ReminderLifecycle, TLAPS

\* Whatever has been on the screen has been recorded as fired.
ShownIsFired ==
    /\ state.dismissed \subseteq state.fired
    /\ popups \subseteq state.fired
    /\ \A key \in Keys : is_snoozed(state, key) => key \in state.fired
    /\ \A key \in Keys : alerts[key] > 0 => key \in state.fired

\* The alerts a reminder may still cause are paid for: a recorded snooze
\* holds one of them, and only a reminder off the screen can hold one.
AlertsPaidFor ==
    \A key \in Keys :
        /\ key \in popups => ~ is_snoozed(state, key)
        /\ alerts[key] + (IF is_snoozed(state, key) THEN 1 ELSE 0) <= 1 + granted[key]

PollOnTime == lastPoll <= now /\ now - lastPoll <= PollInterval

\* What a poll at or after the opening of a window leaves behind.
WindowCovered ==
    \A key \in Keys :
        /\ PollInterval <= WindowLength(key[2])
        /\ Active(key[1])
        /\ since[key[1]] <= LastDue(key)
        /\ lastPoll >= DueAt(key)
        => key \in state.fired

\* Every recorded snooze of a standing reminder was in the future at the last poll.
SnoozeAhead ==
    \A key \in Keys :
        /\ Active(key[1])
        /\ ~ was_dismissed(state, key)
        /\ is_snoozed(state, key)
        => lastPoll < find_snooze(state, key)

IInv ==
    /\ TypeOK
    /\ ShownIsFired
    /\ PollOnTime
    /\ WindowCovered
    /\ clears => AlertsPaidFor /\ SnoozeAhead

-----------------------------------------------------------------------------

\* A poll raises reminders of the meetings in MeetingIds only.
LEMMA RaisedAreKeys ==
    ASSUME NEW cal, NEW source
    PROVE  Raised(cal, source) \subseteq Keys
  BY DEF Raised, decisions, evaluate_reminders, Meetings, Keys, ReminderKey

\* A poll raises exactly the listed reminders whose reason is one of the Due... reasons.
LEMMA RaisedForAReason ==
    ASSUME NEW cal, NEW source, NEW id \in MeetingIds, NEW kind \in ReminderKind
    PROVE  <<id, kind>> \in Raised(cal, source) <=>
              /\ cal[id] # Unlisted
              /\ Emits(ReasonFor(Meetings(cal)[id], kind, state, now))
<1> DEFINE listed == {i \in MeetingIds : cal[i] # Unlisted}
           traces == evaluate_reminders(Meetings(cal), state, now, source)
<1>1. DOMAIN Meetings(cal) = listed
  BY DEF Meetings
<1>2. DOMAIN traces = listed \X ReminderKind
  BY <1>1 DEF evaluate_reminders
<1>3. Raised(cal, source) = {entry \in DOMAIN traces : traces[entry].action = "Emit"}
  BY DEF Raised, decisions
<1>4. CASE cal[id] = Unlisted
  BY <1>2, <1>3, <1>4
<1>5. CASE cal[id] # Unlisted
  <2>1. <<id, kind>> \in DOMAIN traces
    BY <1>2, <1>5
  <2>2. traces[<<id, kind>>] = evaluate_key(Meetings(cal)[id], kind, state, now, source)
    BY <2>1 DEF evaluate_reminders
  <2>3. traces[<<id, kind>>].action = "Emit" <=>
            Emits(ReasonFor(Meetings(cal)[id], kind, state, now))
    BY <2>2 DEF evaluate_key
  <2> QED
    BY <1>3, <1>5, <2>1, <2>3
<1> QED
  BY <1>4, <1>5

\* What the early returns of evaluate_key say of a confirmed meeting.
LEMMA RaisedWhenDue ==
    ASSUME TypeOK, NEW cal \in [MeetingIds -> Listing], NEW source,
           NEW id \in MeetingIds, NEW kind \in ReminderKind,
           cal[id].status = "confirmed"
    PROVE  LET key == <<id, kind>>
               due == IF kind = "StartsSoon" THEN cal[id].starts_at - StartsSoonOffset
                                             ELSE cal[id].starts_at
           IN  /\ /\ ~ was_dismissed(state, key)
                  /\ is_snoozed(state, key)
                  => (key \in Raised(cal, source) <=> now >= find_snooze(state, key))
               /\ /\ ~ was_dismissed(state, key)
                  /\ ~ is_snoozed(state, key)
                  /\ key \notin state.fired
                  => (key \in Raised(cal, source) <=> now \in due..(due + WindowLength(kind) - 1))
<1> DEFINE meeting == Meetings(cal)[id]
           key == <<id, kind>>
<1>1. cal[id] # Unlisted
  BY DEF Unlisted
<1>2. meeting = [id |-> id, starts_at |-> cal[id].starts_at, cancelled |-> FALSE]
  BY <1>1 DEF Meetings
<1>3. key \in Keys /\ reminder_key(meeting, kind) = key
  BY <1>2 DEF Keys, ReminderKey, reminder_key
<1>4. /\ cal[id].starts_at \in Int
      /\ now \in Int
      /\ state.snoozed \in [Keys -> Seq(Int)]
  <2>1. cal[id] \in Listing
    OBVIOUS
  <2>2. cal[id].starts_at \in StartTimes
    BY <1>1, <2>1 DEF Listing
  <2>3. cal[id].starts_at \in Int
    BY <2>2, LifecycleAssumption
  <2>4. now \in Int
    BY LifecycleAssumption DEF TypeOK
  <2>5. state.snoozed \in [Keys -> Seq(Int)]
    BY DEF TypeOK, ReminderState, Keys
  <2> QED
    BY <2>3, <2>4, <2>5
<1>5. key \in Raised(cal, source) <=> Emits(ReasonFor(meeting, kind, state, now))
  BY <1>1, RaisedForAReason
<1>6. ASSUME ~ was_dismissed(state, key), is_snoozed(state, key)
      PROVE  Emits(ReasonFor(meeting, kind, state, now)) <=> now >= find_snooze(state, key)
  <2>1. find_snooze(state, key) \in Int
    BY <1>3, <1>4, <1>6 DEF is_snoozed, find_snooze
  <2>2. ReasonFor(meeting, kind, state, now) =
            IF now < find_snooze(state, key) THEN "SkippedSnoozed" ELSE "DueSnoozeElapsed"
    BY <1>2, <1>3, <1>6 DEF ReasonFor, WhenSnoozed
  <2> QED
    BY <1>4, <2>1, <2>2 DEF Emits
<1>7. ASSUME ~ was_dismissed(state, key), ~ is_snoozed(state, key), key \notin state.fired
      PROVE  Emits(ReasonFor(meeting, kind, state, now)) <=>
                ~ BeforeWindow(meeting, kind, now) /\ ~ AfterWindow(meeting, kind, now)
  BY <1>2, <1>3, <1>7 DEF ReasonFor, Ordinary, Emits, Due, was_fired
<1>8. (~ BeforeWindow(meeting, kind, now) /\ ~ AfterWindow(meeting, kind, now)) <=>
         LET due == IF kind = "StartsSoon" THEN cal[id].starts_at - StartsSoonOffset
                                           ELSE cal[id].starts_at
         IN  now \in due..(due + WindowLength(kind) - 1)
  BY <1>2, <1>4, ConfigAssumption
     DEF BeforeWindow, AfterWindow, due_at_for, WindowLength, ReminderKind
<1> QED
  BY <1>5, <1>6, <1>7, <1>8

\* Dismissed reminders are never raised, nor those waiting for a snooze, nor those
\* that have fired and were not snoozed.
LEMMA NotRaised ==
    ASSUME TypeOK, NEW cal \in [MeetingIds -> Listing], NEW source, NEW key \in Keys,
           \/ was_dismissed(state, key)
           \/ was_fired(state, key) /\ ~ is_snoozed(state, key)
    PROVE  key \notin Raised(cal, source)
<1>1. PICK id \in MeetingIds, kind \in ReminderKind : key = <<id, kind>>
  BY DEF Keys, ReminderKey
<1> DEFINE meeting == Meetings(cal)[id]
<1>2. SUFFICES ASSUME cal[id] # Unlisted
               PROVE  ~ Emits(ReasonFor(meeting, kind, state, now))
  BY <1>1, RaisedForAReason
<1>3. reminder_key(meeting, kind) = key
  BY <1>1, <1>2 DEF Meetings, reminder_key
<1> QED
  BY <1>3 DEF ReasonFor, Emits

-----------------------------------------------------------------------------

\* The components of a poll's new state, for use without the record update.
LEMMA PollState ==
    ASSUME TypeOK, NEW cal \in [MeetingIds -> Listing], NEW source, Poll(cal, source)
    PROVE  /\ state'.fired = state.fired \cup Raised(cal, source)
           /\ state'.dismissed = state.dismissed
           /\ state'.snoozed = [key \in Keys |->
                 IF clears /\ key \in Raised(cal, source)
                 THEN << >> ELSE state.snoozed[key]]
           /\ state' \in ReminderState(MeetingIds)
<1>1. state.snoozed \in [Keys -> Seq(Int)] /\ state.fired \subseteq Keys
  BY DEF TypeOK, ReminderState, Keys
<1>2. /\ state'.fired = state.fired \cup Raised(cal, source)
      /\ state'.dismissed = state.dismissed
      /\ state'.snoozed = [key \in Keys |->
            IF clears /\ key \in Raised(cal, source)
            THEN << >> ELSE state.snoozed[key]]
  BY DEF TypeOK, ReminderState, Poll
<1>3. state'.snoozed \in [Keys -> Seq(Int)]
  BY <1>1, <1>2
<1>4. state'.fired \subseteq Keys
  BY <1>1, <1>2, RaisedAreKeys
<1>5. state' = [fired |-> state'.fired, dismissed |-> state'.dismissed,
                snoozed |-> state'.snoozed]
  BY DEF TypeOK, ReminderState, Poll
<1> QED
  BY <1>2, <1>3, <1>4, <1>5 DEF TypeOK, ReminderState, Keys

\* ... and of the state the user's answers leave.
LEMMA SnoozeState ==
    ASSUME TypeOK, NEW key \in Keys, Snooze(key)
    PROVE  /\ state'.fired = state.fired
           /\ state'.dismissed = state.dismissed
           /\ state'.snoozed = [state.snoozed EXCEPT ![key] = Append(@, now + SnoozeDuration)]
           /\ state' \in ReminderState(MeetingIds)
<1>1. state.snoozed \in [Keys -> Seq(Int)]
  BY DEF TypeOK, ReminderState, Keys
<1>2. now + SnoozeDuration \in Int
  BY LifecycleAssumption DEF TypeOK
<1>3. /\ state'.fired = state.fired
      /\ state'.dismissed = state.dismissed
      /\ state'.snoozed = [state.snoozed EXCEPT ![key] = Append(@, now + SnoozeDuration)]
  BY DEF TypeOK, ReminderState, Snooze
<1>4. state'.snoozed \in [Keys -> Seq(Int)]
  BY <1>1, <1>2, <1>3
<1>5. state' = [fired |-> state'.fired, dismissed |-> state'.dismissed,
                snoozed |-> state'.snoozed]
  BY DEF TypeOK, ReminderState, Snooze
<1> QED
  BY <1>3, <1>4, <1>5 DEF TypeOK, ReminderState, Keys

LEMMA DismissState ==
    ASSUME TypeOK, NEW key \in Keys, Dismiss(key)
    PROVE  /\ state'.fired = state.fired
           /\ state'.dismissed = state.dismissed \cup {key}
           /\ state'.snoozed = state.snoozed
           /\ state' \in ReminderState(MeetingIds)
  BY DEF TypeOK, ReminderState, Dismiss, Keys

\* Type correctness.
LEMMA TypeStep == TypeOK /\ [Next]_vars => TypeOK'
<1> SUFFICES ASSUME TypeOK, [Next]_vars PROVE TypeOK'
  OBVIOUS
<1> USE LifecycleAssumption
<1>1. CASE Tick
  BY <1>1 DEF TypeOK, Tick
<1>2. ASSUME NEW cal \in [MeetingIds -> Listing], NEW source, Poll(cal, source)
      PROVE  TypeOK'
  <2>1. state' \in ReminderState(MeetingIds)
    BY <1>2, PollState
  <2>2. popups' \in SUBSET Keys
    BY <1>2, RaisedAreKeys DEF TypeOK, Poll
  <2>3. alerts' \in [Keys -> Nat]
    BY <1>2 DEF TypeOK, Poll
  <2>4. since' \in [MeetingIds -> 0..Horizon]
    BY <1>2 DEF TypeOK, Poll
  <2> QED
    BY <1>2, <2>1, <2>2, <2>3, <2>4 DEF TypeOK, Poll
<1>3. ASSUME NEW key \in Keys, Snooze(key)
      PROVE  TypeOK'
  <2>1. state' \in ReminderState(MeetingIds)
    BY <1>3, SnoozeState
  <2>2. granted' \in [Keys -> 0..MaxSnoozes]
    BY <1>3 DEF TypeOK, Snooze
  <2> QED
    BY <1>3, <2>1, <2>2 DEF TypeOK, Snooze
<1>4. ASSUME NEW key \in Keys, Dismiss(key)
      PROVE  TypeOK'
  BY <1>4, DismissState DEF TypeOK, Dismiss
<1>5. CASE UNCHANGED vars
  BY <1>5 DEF TypeOK, vars
<1>6. calendar \in [MeetingIds -> Listing]
  BY DEF TypeOK
<1> QED
  BY <1>1, <1>2, <1>3, <1>4, <1>5, <1>6 DEF Next, PollFresh, PollStaleCache

LEMMA TypeInit == Init => TypeOK
<1> SUFFICES ASSUME Init PROVE TypeOK
  OBVIOUS
<1>1. state \in ReminderState(MeetingIds)
  BY DEF Init, EmptyState, ReminderState
<1> QED
  BY <1>1, LifecycleAssumption DEF Init, TypeOK, Listing

\* TypeOK holds of every reachable state.
THEOREM TypeCorrect == Spec => []TypeOK
<1> QED
  BY TypeInit, TypeStep, PTL DEF Spec

-----------------------------------------------------------------------------

LEMMA InvInit == Init => IInv
<1> SUFFICES ASSUME Init PROVE IInv
  OBVIOUS
<1>1. TypeOK
  BY TypeInit
<1>2. \A key \in Keys : ~ is_snoozed(state, key)
  BY DEF Init, EmptyState, is_snoozed, Keys
<1>3. \A id \in MeetingIds : ~ Active(id)
  BY DEF Init, Unlisted, Active
<1>4. ShownIsFired
  <2>1. state.dismissed = {} /\ popups = {} /\ \A key \in Keys : alerts[key] = 0
    BY DEF Init, EmptyState
  <2> QED
    BY <1>2, <2>1 DEF ShownIsFired
<1>5. PollOnTime
  <2>1. now = 0 /\ lastPoll = -PollInterval /\ PollInterval \in Nat
    BY LifecycleAssumption DEF Init
  <2> QED
    BY <2>1 DEF PollOnTime
<1>6. WindowCovered /\ SnoozeAhead
  <2>1. \A key \in Keys : ~ Active(key[1])
    BY <1>3 DEF Keys, ReminderKey
  <2> QED
    BY <2>1 DEF WindowCovered, SnoozeAhead
<1>7. AlertsPaidFor
  BY <1>2 DEF Init, AlertsPaidFor
<1> QED
  BY <1>1, <1>4, <1>5, <1>6, <1>7 DEF IInv

\* A step that leaves calendar and state alone disturbs only what mentions the clock.
LEMMA TickStep == IInv /\ Tick => IInv'
<1> SUFFICES ASSUME IInv, Tick PROVE IInv'
  OBVIOUS
<1>1. TypeOK'
  BY TypeStep DEF IInv, Next
<1>2. PollOnTime'
  <2>1. now \in Int /\ lastPoll \in Int /\ PollInterval \in Int
    BY LifecycleAssumption DEF IInv, TypeOK
  <2> QED
    BY <2>1 DEF IInv, PollOnTime, Tick
<1>3. ShownIsFired'
  BY DEF IInv, ShownIsFired, Tick, is_snoozed
<1>4. WindowCovered'
  BY DEF IInv, WindowCovered, Tick, Active, LastDue, DueAt
<1>5. AlertsPaidFor => AlertsPaidFor'
  BY DEF AlertsPaidFor, Tick, is_snoozed
<1>6. SnoozeAhead => SnoozeAhead'
  BY DEF SnoozeAhead, Tick, Active, was_dismissed, is_snoozed, find_snooze
<1> QED
  BY <1>1, <1>2, <1>3, <1>4, <1>5, <1>6 DEF IInv, Tick

LEMMA PollStep ==
    ASSUME IInv, NEW cal \in [MeetingIds -> Listing], NEW source, Poll(cal, source), TypeOK'
    PROVE  IInv'
<1> DEFINE raised == Raised(cal, source)
<1>0. /\ TypeOK
      /\ state'.fired = state.fired \cup raised
      /\ state'.dismissed = state.dismissed
      /\ state'.snoozed = [key \in Keys |->
            IF clears /\ key \in raised THEN << >> ELSE state.snoozed[key]]
  BY PollState DEF IInv
<1>1. \A key \in Keys : is_snoozed(state, key)' =>
          is_snoozed(state, key) /\ ~ (clears /\ key \in raised)
                                 /\ find_snooze(state, key)' = find_snooze(state, key)
  BY <1>0 DEF is_snoozed, find_snooze
<1>2. ShownIsFired'
  <2>1. (state.dismissed \subseteq state.fired)'
    BY <1>0 DEF IInv, ShownIsFired
  <2>2. (popups \subseteq state.fired)'
    BY <1>0 DEF IInv, ShownIsFired, Poll
  <2>3. \A key \in Keys : is_snoozed(state, key)' => key \in state'.fired
    BY <1>0, <1>1 DEF IInv, ShownIsFired
  <2>4. \A key \in Keys : alerts'[key] > 0 => key \in state'.fired
    BY <1>0 DEF IInv, ShownIsFired, Poll, TypeOK
  <2> QED
    BY <2>1, <2>2, <2>3, <2>4 DEF ShownIsFired, is_snoozed
<1>3. PollOnTime'
  BY LifecycleAssumption, <1>0 DEF PollOnTime, Poll, TypeOK
<1>4. WindowCovered'
  <2> SUFFICES ASSUME NEW id \in MeetingIds, NEW kind \in ReminderKind,
                      PollInterval <= WindowLength(kind),
                      Active(id)',
                      since'[id] <= LastDue(<<id, kind>>)',
                      lastPoll' >= DueAt(<<id, kind>>)'
               PROVE  <<id, kind>> \in state'.fired
    BY DEF WindowCovered, Keys, ReminderKey
  <2> DEFINE key == <<id, kind>>
             due == IF kind = "StartsSoon" THEN cal[id].starts_at - StartsSoonOffset
                                           ELSE cal[id].starts_at
  <2>1. key \in Keys
    BY DEF Keys, ReminderKey
  <2>2. /\ calendar' = cal
        /\ lastPoll' = now
        /\ since'[id] = IF cal[id] = calendar[id] THEN since[id] ELSE now
    BY DEF Poll
  <2>3. cal[id].status = "confirmed" /\ DueAt(key)' = due
    BY <2>2 DEF Active, DueAt
  <2>4. /\ due \in Int /\ now \in Int /\ lastPoll \in Int /\ PollInterval \in Int
        /\ WindowLength(kind) \in Int
        /\ lastPoll <= now /\ now - lastPoll <= PollInterval
    <3>1. cal[id] \in [starts_at : StartTimes, status : {"confirmed", "cancelled"}]
      BY <2>3 DEF Listing, Unlisted
    <3>2. cal[id].starts_at \in Int
      BY <3>1, LifecycleAssumption
    <3>3. due \in Int /\ WindowLength(kind) \in Int
      BY <3>2, ConfigAssumption DEF WindowLength
    <3> QED
      BY <1>0, <3>3, LifecycleAssumption DEF IInv, PollOnTime, TypeOK
  <2>5. now >= due
    BY <2>2, <2>3
  <2>6. LastDue(key)' = due + WindowLength(kind) - 1
    BY <2>3 DEF LastDue, WindowLength
  <2>7. CASE cal[id] = calendar[id] /\ lastPoll >= due
    <3>1. Active(id) /\ DueAt(key) = due
      BY <2>3, <2>7 DEF Active, DueAt
    <3>2. since[id] <= LastDue(key)
      BY <2>2, <2>6, <2>7, <3>1 DEF LastDue, WindowLength
    <3>3. key \in state.fired
      BY <2>1, <2>7, <3>1, <3>2 DEF IInv, WindowCovered
    <3> QED
      BY <1>0, <3>3
  <2>8. CASE ~ (cal[id] = calendar[id] /\ lastPoll >= due)
    <3>1. now \in due..(due + WindowLength(kind) - 1)
      <4>1. CASE cal[id] = calendar[id]
        BY <2>4, <2>5, <2>8, <4>1
      <4>2. CASE cal[id] # calendar[id]
        BY <2>2, <2>4, <2>5, <2>6, <4>2
      <4> QED
        BY <4>1, <4>2
    <3>2. CASE was_dismissed(state, key) \/ is_snoozed(state, key) \/ key \in state.fired
      BY <1>0, <2>1, <3>2 DEF IInv, ShownIsFired, was_dismissed
    <3>3. CASE ~ was_dismissed(state, key) /\ ~ is_snoozed(state, key) /\ key \notin state.fired
      BY <1>0, <2>3, <3>1, <3>3, RaisedWhenDue
    <3> QED
      BY <3>2, <3>3
  <2> QED
    BY <2>7, <2>8
<1>5. ASSUME clears, AlertsPaidFor
      PROVE  AlertsPaidFor'
  <2> SUFFICES ASSUME NEW key \in Keys
               PROVE  /\ key \in popups' => ~ is_snoozed(state, key)'
                      /\ alerts'[key] + (IF is_snoozed(state, key)' THEN 1 ELSE 0)
                            <= 1 + granted'[key]
    BY DEF AlertsPaidFor, is_snoozed
  <2>1. /\ alerts[key] \in Nat /\ granted[key] \in Nat
        /\ granted' = granted
        /\ alerts'[key] = alerts[key] + (IF key \in raised THEN 1 ELSE 0)
        /\ popups' = popups \cup raised
    BY <1>0, LifecycleAssumption DEF TypeOK, Poll
  <2>2. /\ key \in popups => ~ is_snoozed(state, key)
        /\ alerts[key] + (IF is_snoozed(state, key) THEN 1 ELSE 0) <= 1 + granted[key]
    BY <1>5 DEF AlertsPaidFor
  <2>3. key \in popups' => ~ is_snoozed(state, key)'
    BY <1>1, <1>5, <2>1, <2>2
  <2>4. CASE key \notin raised
    BY <1>1, <2>1, <2>2, <2>3, <2>4
  <2>5. CASE key \in raised
    <3>1. ~ is_snoozed(state, key)'
      BY <1>1, <1>5, <2>5
    <3>2. is_snoozed(state, key) \/ key \notin state.fired
      BY <1>0, <2>5, NotRaised DEF was_fired
    <3>3. CASE is_snoozed(state, key)
      BY <2>1, <2>2, <2>3, <2>5, <3>1, <3>3
    <3>4. CASE key \notin state.fired
      <4>1. alerts[key] = 0
        BY <2>1, <3>4 DEF IInv, ShownIsFired
      <4> QED
        BY <2>1, <2>3, <2>5, <3>1, <4>1
    <3> QED
      BY <3>2, <3>3, <3>4
  <2> QED
    BY <2>4, <2>5
<1>6. ASSUME clears
      PROVE  SnoozeAhead'
  <2> SUFFICES ASSUME NEW id \in MeetingIds, NEW kind \in ReminderKind,
                      Active(id)',
                      ~ was_dismissed(state, <<id, kind>>)',
                      is_snoozed(state, <<id, kind>>)'
               PROVE  lastPoll' < find_snooze(state, <<id, kind>>)'
    BY DEF SnoozeAhead, Keys, ReminderKey, was_dismissed, is_snoozed, find_snooze
  <2> DEFINE key == <<id, kind>>
  <2>1. key \in Keys
    BY DEF Keys, ReminderKey
  <2>2. /\ is_snoozed(state, key) /\ key \notin raised
        /\ find_snooze(state, key)' = find_snooze(state, key)
    BY <1>1, <1>6, <2>1
  <2>3. ~ was_dismissed(state, key) /\ cal[id].status = "confirmed" /\ lastPoll' = now
    BY <1>0 DEF was_dismissed, Active, Poll
  <2>4. ~ (now >= find_snooze(state, key))
    BY <1>0, <2>2, <2>3, RaisedWhenDue
  <2>5. find_snooze(state, key) \in Int /\ now \in Int
    BY <1>0, <2>1, <2>2 DEF TypeOK, ReminderState, Keys, is_snoozed, find_snooze
  <2> QED
    BY <2>2, <2>3, <2>4, <2>5
<1>7. clears' = clears
  BY DEF Poll
<1> QED
  BY <1>2, <1>3, <1>4, <1>5, <1>6, <1>7 DEF IInv

LEMMA SnoozeStep ==
    ASSUME IInv, NEW key \in Keys, Snooze(key), TypeOK'
    PROVE  IInv'
<1>0. /\ TypeOK
      /\ state'.fired = state.fired
      /\ state'.dismissed = state.dismissed
      /\ state'.snoozed = [state.snoozed EXCEPT ![key] = Append(@, now + SnoozeDuration)]
      /\ state.snoozed \in [Keys -> Seq(Int)]
      /\ now \in Int /\ now + SnoozeDuration \in Int /\ lastPoll \in Int
  <2>1. TypeOK
    BY DEF IInv
  <2>2. state.snoozed \in [Keys -> Seq(Int)]
    BY <2>1 DEF TypeOK, ReminderState, Keys
  <2>3. now \in Int /\ now + SnoozeDuration \in Int /\ lastPoll \in Int
    BY <2>1, LifecycleAssumption DEF TypeOK
  <2> QED
    BY <2>1, <2>2, <2>3, SnoozeState
<1>1. \A k \in Keys : k # key => state'.snoozed[k] = state.snoozed[k]
  BY <1>0
<1>2. key \in state.fired
  BY DEF IInv, ShownIsFired, Snooze
<1>3. ShownIsFired'
  BY <1>0, <1>1, <1>2 DEF IInv, ShownIsFired, Snooze, is_snoozed
<1>4. PollOnTime'
  BY DEF IInv, PollOnTime, Snooze
<1>5. WindowCovered'
  BY <1>0 DEF IInv, WindowCovered, Snooze, Active, LastDue, DueAt
<1>6. ASSUME AlertsPaidFor
      PROVE  AlertsPaidFor' /\ state'.snoozed[key] = << now + SnoozeDuration >>
  <2>1. state.snoozed[key] = << >>
    BY <1>6 DEF AlertsPaidFor, Snooze, is_snoozed
  <2>2. state'.snoozed[key] = << now + SnoozeDuration >>
    BY <1>0, <2>1
  <2>3. /\ \A k \in Keys : alerts[k] \in Nat /\ granted[k] \in Nat
        /\ granted' = [granted EXCEPT ![key] = @ + 1]
        /\ granted \in [Keys -> Nat]
        /\ alerts' = alerts
        /\ popups' = popups \ {key}
    BY <1>0, LifecycleAssumption DEF TypeOK, Snooze
  <2>4. ASSUME NEW k \in Keys
        PROVE  /\ k \in popups' => ~ is_snoozed(state, k)'
               /\ alerts'[k] + (IF is_snoozed(state, k)' THEN 1 ELSE 0) <= 1 + granted'[k]
    <3>1. /\ k \in popups => ~ is_snoozed(state, k)
          /\ alerts[k] + (IF is_snoozed(state, k) THEN 1 ELSE 0) <= 1 + granted[k]
      BY <1>6 DEF AlertsPaidFor
    <3>2. CASE k = key
      <4>1. ~ is_snoozed(state, k) /\ is_snoozed(state, k)' /\ granted'[k] = granted[k] + 1
        <5>1. << now + SnoozeDuration >> # << >>
          OBVIOUS
        <5>2. granted'[k] = granted[k] + 1
          BY <2>3, <3>2
        <5> QED
          BY <2>1, <2>2, <3>2, <5>1, <5>2 DEF is_snoozed
      <4> QED
        BY <2>3, <3>1, <3>2, <4>1
    <3>3. CASE k # key
      <4>1. (is_snoozed(state, k)' <=> is_snoozed(state, k)) /\ granted'[k] = granted[k]
        BY <1>1, <2>3, <3>3 DEF is_snoozed
      <4> QED
        BY <2>3, <3>1, <3>3, <4>1
    <3> QED
      BY <3>2, <3>3
  <2> QED
    BY <2>2, <2>4 DEF AlertsPaidFor, is_snoozed
<1>7. ASSUME clears
      PROVE  SnoozeAhead'
  <2>1. AlertsPaidFor /\ SnoozeAhead
    BY <1>7 DEF IInv
  <2>2. state'.snoozed[key] = << now + SnoozeDuration >>
    BY <1>6, <2>1
  <2>3. lastPoll < find_snooze(state, key)'
    <3>1. Head(<< now + SnoozeDuration >>) = now + SnoozeDuration
      OBVIOUS
    <3>2. lastPoll \in Int /\ now \in Int /\ lastPoll <= now /\ SnoozeDuration > 0
      BY LifecycleAssumption DEF IInv, TypeOK, PollOnTime
    <3>3. lastPoll < now + SnoozeDuration
      BY <3>2, LifecycleAssumption
    <3> QED
      BY <2>2, <3>1, <3>3 DEF find_snooze
  <2> SUFFICES ASSUME NEW k \in Keys,
                      Active(k[1])',
                      ~ was_dismissed(state, k)',
                      is_snoozed(state, k)'
               PROVE  lastPoll' < find_snooze(state, k)'
    BY DEF SnoozeAhead, was_dismissed, is_snoozed, find_snooze
  <2>4. lastPoll' = lastPoll /\ Active(k[1]) /\ ~ was_dismissed(state, k)
    BY <1>0 DEF Snooze, Active, was_dismissed
  <2>5. CASE k = key
    BY <2>3, <2>4, <2>5
  <2>6. CASE k # key
    BY <1>1, <2>1, <2>4, <2>6 DEF SnoozeAhead, is_snoozed, find_snooze
  <2> QED
    BY <2>5, <2>6
<1>8. clears' = clears
  BY DEF Snooze
<1> QED
  BY <1>3, <1>4, <1>5, <1>6, <1>7, <1>8 DEF IInv

LEMMA DismissStep ==
    ASSUME IInv, NEW key \in Keys, Dismiss(key), TypeOK'
    PROVE  IInv'
<1>0. /\ state'.fired = state.fired
      /\ state'.dismissed = state.dismissed \cup {key}
      /\ state'.snoozed = state.snoozed
  BY DismissState DEF IInv
<1>1. ShownIsFired'
  BY <1>0 DEF IInv, ShownIsFired, Dismiss, is_snoozed
<1>2. PollOnTime'
  BY DEF IInv, PollOnTime, Dismiss
<1>3. WindowCovered'
  BY <1>0 DEF IInv, WindowCovered, Dismiss, Active, LastDue, DueAt
<1>4. AlertsPaidFor => AlertsPaidFor'
  BY <1>0 DEF AlertsPaidFor, Dismiss, is_snoozed
<1>5. SnoozeAhead => SnoozeAhead'
  BY <1>0 DEF SnoozeAhead, Dismiss, Active, was_dismissed, is_snoozed, find_snooze
<1> QED
  BY <1>1, <1>2, <1>3, <1>4, <1>5 DEF IInv, Dismiss

LEMMA InvStep == IInv /\ [Next]_vars => IInv'
<1> SUFFICES ASSUME IInv, [Next]_vars PROVE IInv'
  OBVIOUS
<1>1. TypeOK /\ TypeOK'
  BY TypeStep DEF IInv
<1>2. CASE Tick
  BY <1>2, TickStep
<1>3. CASE PollFresh
  BY <1>1, <1>3, PollStep DEF PollFresh
<1>4. CASE PollStaleCache
  BY <1>1, <1>4, PollStep DEF PollStaleCache, TypeOK
<1>5. CASE \E key \in Keys : Snooze(key) \/ Dismiss(key)
  BY <1>1, <1>5, SnoozeStep, DismissStep
<1>6. CASE UNCHANGED vars
  <2>1. ShownIsFired' /\ PollOnTime'
    BY <1>6 DEF vars, IInv, ShownIsFired, PollOnTime, is_snoozed
  <2>2. WindowCovered'
    BY <1>6 DEF vars, IInv, WindowCovered, Active, LastDue, DueAt
  <2>3. AlertsPaidFor => AlertsPaidFor'
    BY <1>6 DEF vars, AlertsPaidFor, is_snoozed
  <2>4. SnoozeAhead => SnoozeAhead'
    BY <1>6 DEF vars, SnoozeAhead, Active, was_dismissed, is_snoozed, find_snooze
  <2> QED
    BY <1>1, <1>6, <2>1, <2>2, <2>3, <2>4 DEF IInv, vars
<1> QED
  BY <1>2, <1>3, <1>4, <1>5, <1>6 DEF Next

\* The inductive invariant holds of every reachable state.
THEOREM Inductive == Spec => []IInv
<1> QED
  BY InvInit, InvStep, PTL DEF Spec

-----------------------------------------------------------------------------

\* A caller that erases the snoozes it has honoured shows a reminder once, and once
\* more for every snooze the user asked for.
THEOREM NoDuplicates == Spec => []NoDuplicateAlert
<1>1. IInv => NoDuplicateAlert
  <2> SUFFICES ASSUME IInv, clears, NEW key \in Keys
               PROVE  alerts[key] <= 1 + granted[key]
    BY DEF NoDuplicateAlert
  <2>1. alerts[key] \in Nat /\ granted[key] \in Nat
    <3>1. alerts \in [Keys -> Nat] /\ granted \in [Keys -> 0..MaxSnoozes]
      BY DEF IInv, TypeOK
    <3> QED
      BY <3>1, LifecycleAssumption
  <2>2. alerts[key] + (IF is_snoozed(state, key) THEN 1 ELSE 0) <= 1 + granted[key]
    BY DEF IInv, AlertsPaidFor
  <2> QED
    BY <2>1, <2>2
<1> QED
  BY <1>1, Inductive, PTL

\* No window passes in silence when polls are no further apart than it is long.
THEOREM NothingMissed == Spec => []NoMissedWindow
<1>1. IInv => NoMissedWindow
  <2> SUFFICES ASSUME IInv, NEW id \in MeetingIds, NEW kind \in ReminderKind,
                      PollInterval <= WindowLength(kind),
                      Active(id),
                      since[id] <= LastDue(<<id, kind>>),
                      now > LastDue(<<id, kind>>)
               PROVE  <<id, kind>> \in state.fired
    BY DEF NoMissedWindow, Keys, ReminderKey
  <2> DEFINE key == <<id, kind>>
  <2>1. key \in Keys
    BY DEF Keys, ReminderKey
  <2>2. calendar[id] \in [starts_at : StartTimes, status : {"confirmed", "cancelled"}]
    BY DEF IInv, TypeOK, Listing, Unlisted, Active
  <2>3. calendar[id].starts_at \in Int
    BY <2>2, LifecycleAssumption
  <2>4. DueAt(key) \in Int /\ WindowLength(kind) \in Int
    BY <2>3, ConfigAssumption DEF DueAt, WindowLength
  <2>5. now \in Int /\ lastPoll \in Int /\ PollInterval \in Int /\ now - lastPoll <= PollInterval
    BY LifecycleAssumption DEF IInv, TypeOK, PollOnTime
  <2>6. lastPoll >= DueAt(key)
    BY <2>4, <2>5 DEF LastDue
  <2> QED
    BY <2>1, <2>6 DEF IInv, WindowCovered
<1> QED
  BY <1>1, Inductive, PTL

\* A snooze of a standing reminder is honoured within one poll interval.
THEOREM SnoozesOnTime == Spec => []SnoozeNotOverdue
<1>1. IInv => SnoozeNotOverdue
  <2> SUFFICES ASSUME IInv, clears, NEW key \in Keys,
                      Active(key[1]),
                      ~ was_dismissed(state, key),
                      is_snoozed(state, key)
               PROVE  now < find_snooze(state, key) + PollInterval
    BY DEF SnoozeNotOverdue
  <2>1. find_snooze(state, key) \in Int
    BY DEF IInv, TypeOK, ReminderState, Keys, is_snoozed, find_snooze
  <2>2. now \in Int /\ lastPoll \in Int /\ PollInterval \in Int /\ now - lastPoll <= PollInterval
    BY LifecycleAssumption DEF IInv, TypeOK, PollOnTime
  <2>3. lastPoll < find_snooze(state, key)
    BY DEF IInv, SnoozeAhead
  <2> QED
    BY <2>1, <2>2, <2>3
<1> QED
  BY <1>1, Inductive, PTL

\* No step raises a reminder that was dismissed before it.
THEOREM DismissalIsFinal == Spec => DismissedStaysSilent
<1>1. TypeOK /\ [Next]_vars => [\A key \in state.dismissed : alerts'[key] = alerts[key]]_vars
  <2> SUFFICES ASSUME TypeOK, Next, NEW key \in state.dismissed
               PROVE  alerts'[key] = alerts[key]
    OBVIOUS
  <2>1. key \in Keys /\ alerts[key] \in Nat
    BY DEF TypeOK, ReminderState, Keys
  <2>2. ASSUME NEW cal \in [MeetingIds -> Listing], NEW source, Poll(cal, source)
        PROVE  alerts'[key] = alerts[key]
    <3>1. key \notin Raised(cal, source)
      BY <2>1, NotRaised DEF was_dismissed
    <3> QED
      BY <2>1, <2>2, <3>1 DEF Poll
  <2> QED
    BY <2>2 DEF Next, Tick, PollFresh, PollStaleCache, Snooze, Dismiss, TypeOK
<1> QED
  BY <1>1, TypeCorrect, PTL DEF Spec, DismissedStaysSilent

-----------------------------------------------------------------------------

\* A reminder that is snoozed is raised when its first snooze is over, not before.
LEMMA RaisedAfterSnooze ==
    ASSUME TypeOK, NEW cal \in [MeetingIds -> Listing], NEW source, NEW key \in Keys,
           is_snoozed(state, key), key \in Raised(cal, source)
    PROVE  now >= find_snooze(state, key)
<1>1. PICK id \in MeetingIds, kind \in ReminderKind : key = <<id, kind>>
  BY DEF Keys, ReminderKey
<1> DEFINE meeting == Meetings(cal)[id]
<1>2. cal[id] # Unlisted /\ Emits(ReasonFor(meeting, kind, state, now))
  BY <1>1, RaisedForAReason
<1>3. reminder_key(meeting, kind) = key
  BY <1>1, <1>2 DEF Meetings, reminder_key
<1> HIDE DEF meeting
<1>4. Emits(WhenSnoozed(state, key, now))
  BY <1>2, <1>3 DEF ReasonFor, Emits
<1>5. ~ (now < find_snooze(state, key))
  BY <1>4 DEF WhenSnoozed, Emits
<1>6. now \in Int /\ find_snooze(state, key) \in Int
  BY LifecycleAssumption DEF TypeOK, ReminderState, Keys, is_snoozed, find_snooze
<1> QED
  BY <1>5, <1>6

\* A snooze is asked for in answer to a popup, and a reminder on the screen has none.
OneSnooze ==
    clears => \A key \in Keys : \A i \in DOMAIN state.snoozed[key] : i = 1

LEMMA OneSnoozeInit == Init => OneSnooze
  BY DEF Init, OneSnooze, EmptyState, Keys

LEMMA OneSnoozeStep == IInv /\ OneSnooze /\ [Next]_vars => OneSnooze'
<1> SUFFICES ASSUME IInv, OneSnooze, [Next]_vars, clears'
             PROVE  \A key \in Keys : \A i \in DOMAIN state'.snoozed[key] : i = 1
  BY DEF OneSnooze
<1>1. clears /\ TypeOK /\ AlertsPaidFor
  BY DEF Next, Tick, PollFresh, PollStaleCache, Poll, Snooze, Dismiss, vars, IInv
<1>2. \A key \in Keys : \A i \in DOMAIN state.snoozed[key] : i = 1
  BY <1>1 DEF OneSnooze
<1>3. ASSUME NEW cal \in [MeetingIds -> Listing], NEW source, Poll(cal, source), NEW key \in Keys
      PROVE  \A i \in DOMAIN state'.snoozed[key] : i = 1
  <2>1. state'.snoozed[key] = << >> \/ state'.snoozed[key] = state.snoozed[key]
    BY <1>1, <1>3, PollState
  <2> QED
    BY <1>2, <2>1
<1>4. ASSUME NEW k \in Keys, Snooze(k), NEW key \in Keys
      PROVE  \A i \in DOMAIN state'.snoozed[key] : i = 1
  <2>1. /\ state'.snoozed = [state.snoozed EXCEPT ![k] = Append(@, now + SnoozeDuration)]
        /\ state.snoozed \in [Keys -> Seq(Int)]
    BY <1>1, <1>4, SnoozeState DEF TypeOK, ReminderState, Keys
  <2>2. CASE key # k
    BY <1>2, <2>1, <2>2
  <2>3. CASE key = k
    <3>1. state.snoozed[k] = << >>
      BY <1>1, <1>4 DEF AlertsPaidFor, Snooze, is_snoozed
    <3>2. state'.snoozed[key] = << now + SnoozeDuration >>
      BY <2>1, <2>3, <3>1
    <3> QED
      BY <3>2
  <2> QED
    BY <2>2, <2>3
<1>5. ASSUME NEW k \in Keys, Dismiss(k) PROVE state'.snoozed = state.snoozed
  BY <1>1, <1>5, DismissState
<1>6. CASE Tick \/ UNCHANGED vars
  BY <1>2, <1>6 DEF Tick, vars
<1>7. calendar \in [MeetingIds -> Listing]
  BY <1>1 DEF TypeOK
<1> QED
  BY <1>2, <1>3, <1>4, <1>5, <1>6, <1>7 DEF Next, PollFresh, PollStaleCache

\* A caller that erases the snoozes it has honoured shows no reminder before the last
\* snooze asked for is over, in its window or out of it.
THEOREM SnoozesHold == Spec => SnoozeHolds
<1>1. Spec => []OneSnooze
  BY OneSnoozeInit, OneSnoozeStep, Inductive, PTL DEF Spec
<1>2. IInv /\ OneSnooze /\ [Next]_vars =>
         [clears => \A key \in Keys :
             alerts'[key] # alerts[key] =>
                 \A i \in DOMAIN state.snoozed[key] : now >= state.snoozed[key][i]]_vars
  <2> SUFFICES ASSUME IInv, OneSnooze, Next, clears, NEW key \in Keys,
                      alerts'[key] # alerts[key], NEW i \in DOMAIN state.snoozed[key]
               PROVE  now >= state.snoozed[key][i]
    OBVIOUS
  <2>1. TypeOK /\ alerts[key] \in Nat /\ calendar \in [MeetingIds -> Listing]
    BY DEF IInv, TypeOK
  <2>2. PICK cal \in [MeetingIds -> Listing], source \in {"Fresh", "StaleCache"} :
           Poll(cal, source)
    BY <2>1 DEF Next, PollFresh, PollStaleCache, Tick, Snooze, Dismiss
  <2>3. key \in Raised(cal, source)
    BY <2>1, <2>2 DEF Poll
  <2>4. i = 1 /\ is_snoozed(state, key)
    BY DEF OneSnooze, is_snoozed
  <2>5. state.snoozed[key] \in Seq(Int)
    BY <2>1 DEF TypeOK, ReminderState, Keys
  <2>6. find_snooze(state, key) = state.snoozed[key][i]
    BY <2>4, <2>5 DEF find_snooze, is_snoozed
  <2> QED
    BY <2>1, <2>2, <2>3, <2>4, <2>6, RaisedAfterSnooze
<1> QED
  BY <1>1, <1>2, Inductive, PTL DEF Spec, SnoozeHolds

-----------------------------------------------------------------------------

\* With nothing recorded, a confirmed meeting's reminder is due in its window alone.
LEMMA DueInWindow ==
    ASSUME NEW time \in Int, NEW id \in MeetingIds, NEW kind \in ReminderKind,
           calendar[id].status = "confirmed", calendar[id].starts_at \in Int
    PROVE  <<id, kind>> \in due_reminders(MeetingIds, Meetings(calendar), {}, time) <=>
              IF kind = "StartsSoon"
              THEN calendar[id].starts_at - StartsSoonOffset <= time
                      /\ time < calendar[id].starts_at
              ELSE calendar[id].starts_at <= time
                      /\ time <= calendar[id].starts_at + StartsNowLateWindow
<1> DEFINE nothing == [EmptyState(MeetingIds) EXCEPT !.fired = {}]
           meeting == Meetings(calendar)[id]
           traces == evaluate_reminders(Meetings(calendar), nothing, time, "Fresh")
           key == <<id, kind>>
<1>1. calendar[id] # Unlisted
  BY DEF Unlisted
<1>2. meeting = [id |-> id, starts_at |-> calendar[id].starts_at, cancelled |-> FALSE]
  BY <1>1 DEF Meetings
<1>3. key \in Keys /\ reminder_key(meeting, kind) = key
  BY <1>2 DEF Keys, ReminderKey, reminder_key
<1>4. ~ was_dismissed(nothing, key) /\ ~ was_fired(nothing, key) /\ ~ is_snoozed(nothing, key)
  BY <1>3 DEF EmptyState, was_dismissed, was_fired, is_snoozed, Keys
<1>5. ReasonFor(meeting, kind, nothing, time) = Ordinary(meeting, kind, time)
  BY <1>2, <1>3, <1>4 DEF ReasonFor
<1>6. Emits(Ordinary(meeting, kind, time)) <=>
         ~ BeforeWindow(meeting, kind, time) /\ ~ AfterWindow(meeting, kind, time)
  BY DEF Ordinary, Emits, Due
<1>7. key \in DOMAIN traces /\ traces[key] = evaluate_key(meeting, kind, nothing, time, "Fresh")
  BY <1>1 DEF evaluate_reminders, Meetings
<1>8. key \in decisions(traces) <=> Emits(ReasonFor(meeting, kind, nothing, time))
  BY <1>7 DEF decisions, evaluate_key
<1>9. due_reminders(MeetingIds, Meetings(calendar), {}, time) = decisions(traces)
  BY DEF due_reminders
<1>10. meeting.starts_at = calendar[id].starts_at
  BY <1>2
<1> HIDE DEF nothing, meeting, traces
<1>11. ~ BeforeWindow(meeting, kind, time) /\ ~ AfterWindow(meeting, kind, time) <=>
          IF kind = "StartsSoon"
          THEN calendar[id].starts_at - StartsSoonOffset <= time
                  /\ time < calendar[id].starts_at
          ELSE calendar[id].starts_at <= time
                  /\ time <= calendar[id].starts_at + StartsNowLateWindow
  BY <1>10, ConfigAssumption DEF BeforeWindow, AfterWindow, due_at_for
<1> QED
  BY <1>5, <1>6, <1>8, <1>9, <1>11

\* The two windows of a meeting meet without a gap and without an overlap, whatever
\* the offset and the late window are.
THEOREM WindowsMeet == Spec => []OneReminderAtATime
<1>1. TypeOK => OneReminderAtATime
  <2> SUFFICES ASSUME TypeOK, NEW id \in MeetingIds, Active(id)
               PROVE  LET start == calendar[id].starts_at
                          due == due_reminders(MeetingIds, Meetings(calendar), {}, now)
                      IN  IF now \in (start - StartsSoonOffset)..(start + StartsNowLateWindow)
                          THEN \E kind \in ReminderKind :
                                  due \cap ({id} \X ReminderKind) = {<<id, kind>>}
                          ELSE due \cap ({id} \X ReminderKind) = {}
    BY DEF OneReminderAtATime
  <2> DEFINE start == calendar[id].starts_at
             due == due_reminders(MeetingIds, Meetings(calendar), {}, now)
  <2>1. calendar[id].status = "confirmed" /\ start \in Int
    <3>1. calendar[id] \in [starts_at : StartTimes, status : {"confirmed", "cancelled"}]
      BY DEF TypeOK, Listing, Unlisted, Active
    <3> QED
      BY <3>1, LifecycleAssumption DEF Active
  <2>2. now \in Int
    BY LifecycleAssumption DEF TypeOK
  <2>3. <<id, "StartsSoon">> \in due <=> start - StartsSoonOffset <= now /\ now < start
    BY <2>1, <2>2, DueInWindow DEF ReminderKind
  <2>4. <<id, "StartsNow">> \in due <=> start <= now /\ now <= start + StartsNowLateWindow
    BY <2>1, <2>2, DueInWindow DEF ReminderKind
  <2>5. {id} \X ReminderKind = {<<id, "StartsSoon">>, <<id, "StartsNow">>}
    BY DEF ReminderKind
  <2> HIDE DEF start, due
  <2>6. CASE start - StartsSoonOffset <= now /\ now < start
    <3>1. due \cap ({id} \X ReminderKind) = {<<id, "StartsSoon">>}
      BY <2>1, <2>2, <2>3, <2>4, <2>5, <2>6
    <3>2. now \in (start - StartsSoonOffset)..(start + StartsNowLateWindow)
      BY <2>1, <2>2, <2>6, ConfigAssumption
    <3> QED
      BY <3>1, <3>2 DEF start, due, ReminderKind
  <2>7. CASE start <= now /\ now <= start + StartsNowLateWindow
    <3>1. due \cap ({id} \X ReminderKind) = {<<id, "StartsNow">>}
      BY <2>1, <2>2, <2>3, <2>4, <2>5, <2>7
    <3>2. now \in (start - StartsSoonOffset)..(start + StartsNowLateWindow)
      BY <2>1, <2>2, <2>7, ConfigAssumption
    <3> QED
      BY <3>1, <3>2 DEF start, due, ReminderKind
  <2>8. CASE ~ (start - StartsSoonOffset <= now /\ now <= start + StartsNowLateWindow)
    <3>1. due \cap ({id} \X ReminderKind) = {}
      BY <2>1, <2>2, <2>3, <2>4, <2>5, <2>8, ConfigAssumption
    <3>2. now \notin (start - StartsSoonOffset)..(start + StartsNowLateWindow)
      BY <2>1, <2>2, <2>8, ConfigAssumption
    <3> QED
      BY <3>1, <3>2 DEF start, due
  <2> QED
    BY <2>1, <2>2, <2>6, <2>7, <2>8
<1> QED
  BY <1>1, TypeCorrect, PTL
=============================================================================
