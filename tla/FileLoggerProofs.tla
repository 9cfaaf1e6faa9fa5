-------------------------- MODULE FileLoggerProofs --------------------------
(***************************************************************************)
(* The safety properties of FileLogger for any number of threads and       *)
(* entries, and any faults.                                                *)
(***************************************************************************)
EXTENDS FileLogger, FiniteSetTheorems, SequenceTheorems, TLAPS

\* TypeOK without its bound, and without what was thrown.
Types ==
    /\ log \in Seq(Entries \cup {Newline, Scrap})
    /\ pc \in [Threads -> {"idle", "opening", "writing", "closing"}]
    /\ entry \in [Threads -> Entries \cup {Nothing}]
    /\ acked \subseteq used /\ used \subseteq Entries
    /\ mishaps \in Nat

\* Every thread in append has an entry of its own, that nobody else logs.
Owners ==
    /\ \A t \in Threads :
          /\ pc[t] = "idle" <=> entry[t] = Nothing
          /\ pc[t] # "idle" => entry[t] \in used \ acked
    /\ \A t, u \in Threads : entry[t] = entry[u] => t = u \/ pc[t] = "idle"

\* An entry is in the file when it was logged; in that of a thread still in append
\* when it has written all but the newline.
Written ==
    \A i \in 1..Len(log) :
        log[i] \in Entries =>
            /\ log[i] \in used
            /\ \A t \in Threads : log[i] = entry[t] => MidLine(t)

\* The entries of which the text has been written and the newline not yet.
Unfinished == {entry[t] : t \in {u \in Threads : MidLine(u)}}

\* Alone on its line: a finished one if its append has returned, the last one if not.
Fine(e) ==
    \E i \in 1..Len(log) :
        /\ log[i] = e
        /\ i = 1 \/ log[i - 1] = Newline
        /\ IF e \in acked THEN i < Len(log) /\ log[i + 1] = Newline ELSE i = Len(log)
        /\ \A j \in 1..Len(log) : log[j] = e => j = i

Damaged == {e \in acked \cup Unfinished : ~ Fine(e)}

\* A line that was begun, and that nobody is going to finish, awaits the next entry.
Trap == log # << >> /\ log[Len(log)] # Newline /\ Unfinished = {}

\* Every mishap damages two entries, or one and leaves a trap for another.
Counted == Cardinality(Damaged) + (IF Trap THEN 1 ELSE 0) <= 2 * mishaps

IInv ==
    /\ Types
    /\ IsFiniteSet(used)
    /\ Owners
    /\ Written
    /\ Counted
-----------------------------------------------------------------------------

\* A step in which t may write, and nobody else does.
Logging(t) ==
    /\ log' \in Seq(Entries \cup {Newline, Scrap})
    /\ Len(log) <= Len(log')
    /\ \A i \in 1..Len(log) : log'[i] = log[i]
    /\ \A i \in 1..Len(log') : i > Len(log) => log'[i] \in {entry[t], Newline, Scrap}

\* A step in which t may finish its entry, or begin to write it.
Appending(t) ==
    /\ pc[t] # "idle"
    /\ acked \subseteq acked' /\ acked' \subseteq acked \cup {entry[t]}
    /\ Unfinished' \subseteq Unfinished \cup {entry[t]}

LEMMA EntryFacts ==
    ASSUME IInv
    PROVE  /\ log \in Seq(Entries \cup {Newline, Scrap}) /\ Len(log) \in Nat
           /\ mishaps \in Nat
           /\ Newline \notin Entries /\ Scrap \notin Entries
           /\ acked \subseteq Entries /\ Unfinished \subseteq used \ acked
           /\ \A t \in Threads : pc[t] # "idle" => entry[t] \in Entries /\ entry[t] \notin acked
           /\ \A t \in Threads : pc[t] # "idle" /\ entry[t] \in Unfinished => MidLine(t)
           /\ Damaged \subseteq used /\ IsFiniteSet(Damaged) /\ Cardinality(Damaged) \in Nat
<1> USE DEF IInv
<1>1. log \in Seq(Entries \cup {Newline, Scrap}) /\ mishaps \in Nat
  BY DEF Types
<1>2. Len(log) \in Nat
  BY <1>1, LenProperties
<1>3. Newline \notin Entries /\ Scrap \notin Entries
  BY LoggerAssumption
<1>4. acked \subseteq used /\ used \subseteq Entries
  BY DEF Types
<1>5. \A t \in Threads : MidLine(t) => pc[t] # "idle"
  BY DEF MidLine
<1>6. Unfinished \subseteq used \ acked
  BY <1>5 DEF Unfinished, Owners
<1>7. \A t \in Threads : pc[t] # "idle" => entry[t] \in Entries /\ entry[t] \notin acked
  BY <1>4 DEF Owners
<1>8. ASSUME NEW t \in Threads, pc[t] # "idle", entry[t] \in Unfinished
      PROVE  MidLine(t)
  <2>1. PICK u \in Threads : MidLine(u) /\ entry[t] = entry[u]
    BY <1>8 DEF Unfinished
  <2>2. t = u
    BY <1>8, <2>1 DEF Owners
  <2> QED
    BY <2>1, <2>2
<1>9. Damaged \subseteq used
  BY <1>4, <1>6 DEF Damaged
<1>10. IsFiniteSet(Damaged) /\ Cardinality(Damaged) \in Nat
  BY <1>9, FS_Subset, FS_CardinalityType
<1> QED
  BY <1>1, <1>2, <1>3, <1>4, <1>6, <1>7, <1>8, <1>9, <1>10

\* What was fine stays fine, but for an entry whose newline is still to come.
LEMMA OthersStay ==
    ASSUME IInv, NEW t \in Threads, Logging(t), Appending(t),
           NEW e \in acked' \cup Unfinished', e # entry[t]
    PROVE  /\ e \in acked \cup Unfinished
           /\ Fine(e) /\ (e \in acked \/ log' = log) => Fine(e)'
           /\ Fine(e) => e \in acked \/ e = log[Len(log)]
<1>1. e \in acked \cup Unfinished
  BY DEF Appending
<1>2. e \in Entries /\ e \notin {entry[t], Newline, Scrap}
  BY <1>1, EntryFacts DEF IInv, Types
<1>3. (e \in acked)' <=> e \in acked
  BY DEF Appending
<1>4. Len(log) \in Nat /\ Len(log') \in Nat
  BY EntryFacts, LenProperties DEF Logging
<1>5. ASSUME Fine(e), e \in acked PROVE Fine(e)'
  <2>1. PICK i \in 1..Len(log) :
           /\ log[i] = e
           /\ i = 1 \/ log[i - 1] = Newline
           /\ i < Len(log) /\ log[i + 1] = Newline
           /\ \A j \in 1..Len(log) : log[j] = e => j = i
    BY <1>5 DEF Fine
  <2>2. i \in 1..Len(log') /\ i < Len(log')
    BY <1>4, <2>1 DEF Logging
  <2>3. log'[i] = e /\ log'[i + 1] = Newline
    BY <1>4, <2>1 DEF Logging
  <2>4. i = 1 \/ log'[i - 1] = Newline
    <3>1. CASE i = 1
      BY <3>1
    <3>2. CASE i # 1
      <4>1. i - 1 \in 1..Len(log) /\ log[i - 1] = Newline
        BY <1>4, <2>1, <3>2
      <4> QED
        BY <4>1 DEF Logging
    <3> QED
      BY <3>1, <3>2
  <2>5. \A j \in 1..Len(log') : log'[j] = e => j = i
    <3> SUFFICES ASSUME NEW j \in 1..Len(log'), log'[j] = e PROVE j = i
      OBVIOUS
    <3>1. j <= Len(log)
      BY <1>2, <1>4 DEF Logging
    <3>2. j \in 1..Len(log) /\ log[j] = e
      BY <1>4, <3>1 DEF Logging
    <3> QED
      BY <2>1, <3>2
  <2> QED
    BY <1>3, <1>5, <2>2, <2>3, <2>4, <2>5 DEF Fine
<1>6. ASSUME Fine(e), log' = log PROVE Fine(e)'
  BY <1>3, <1>6 DEF Fine
<1>7. ASSUME Fine(e), e \notin acked PROVE e = log[Len(log)]
  BY <1>7 DEF Fine
<1> QED
  BY <1>1, <1>5, <1>6, <1>7

\* At most two entries are damaged in a step, and at most the writer's own when no
\* other is waiting for its newline.
LEMMA DamageSpread ==
    ASSUME IInv, NEW t \in Threads, Logging(t), Appending(t)
    PROVE  /\ Damaged' \subseteq Damaged \cup {entry[t], log[Len(log)]}
           /\ Unfinished' \subseteq {entry[t]} => Damaged' \subseteq Damaged \cup {entry[t]}
<1> SUFFICES ASSUME NEW e, e \in Damaged', e \notin Damaged, e # entry[t]
             PROVE  e = log[Len(log)] /\ ~ (Unfinished' \subseteq {entry[t]})
  OBVIOUS
<1>1. e \in acked' \cup Unfinished' /\ ~ Fine(e)'
  BY DEF Damaged
<1>2. Fine(e) /\ e \in acked \cup Unfinished
  BY <1>1, OthersStay DEF Damaged
<1>3. e \notin acked /\ e = log[Len(log)]
  BY <1>1, <1>2, OthersStay
<1>4. e \in Unfinished'
  BY <1>1, <1>3 DEF Appending
<1> QED
  BY <1>3, <1>4

LEMMA OneMore ==
    ASSUME NEW S, NEW T, NEW a, IsFiniteSet(S), T \subseteq S \cup {a}
    PROVE  /\ IsFiniteSet(T) /\ Cardinality(T) \in Nat /\ Cardinality(S) \in Nat
           /\ Cardinality(T) <= Cardinality(S) + 1
<1>1. IsFiniteSet(S \cup {a}) /\ Cardinality(S \cup {a}) <= Cardinality(S) + 1
  <2>1. /\ IsFiniteSet(S \cup {a})
        /\ Cardinality(S \cup {a}) = IF a \in S THEN Cardinality(S) ELSE Cardinality(S) + 1
    BY FS_AddElement
  <2>2. Cardinality(S) \in Nat
    BY FS_CardinalityType
  <2> QED
    BY <2>1, <2>2
<1>2. IsFiniteSet(T) /\ Cardinality(T) <= Cardinality(S \cup {a})
  BY <1>1, FS_Subset
<1>3. Cardinality(T) \in Nat /\ Cardinality(S) \in Nat /\ Cardinality(S \cup {a}) \in Nat
  BY <1>1, <1>2, FS_CardinalityType
<1> QED
  BY <1>1, <1>2, <1>3

LEMMA TwoMore ==
    ASSUME NEW S, NEW T, NEW a, NEW b, IsFiniteSet(S), T \subseteq S \cup {a, b}
    PROVE  /\ Cardinality(T) \in Nat /\ Cardinality(S) \in Nat
           /\ Cardinality(T) <= Cardinality(S) + 2
<1> DEFINE U == S \cup {a}
<1>1. IsFiniteSet(U) /\ Cardinality(U) \in Nat /\ Cardinality(U) <= Cardinality(S) + 1
  BY OneMore
<1>2. T \subseteq U \cup {b}
  OBVIOUS
<1> HIDE DEF U
<1>3. Cardinality(T) \in Nat /\ Cardinality(T) <= Cardinality(U) + 1
  BY <1>1, <1>2, OneMore
<1>4. Cardinality(S) \in Nat
  BY FS_CardinalityType
<1> QED
  BY <1>1, <1>3, <1>4
-----------------------------------------------------------------------------

\* A mishap pays for two.
LEMMA MishapCounted ==
    ASSUME IInv, NEW t \in Threads, Logging(t), Appending(t), mishaps' = mishaps + 1
    PROVE  Counted'
<1> DEFINE d == Cardinality(Damaged)  dd == Cardinality(Damaged')
<1>1. d \in Nat /\ mishaps \in Nat /\ IsFiniteSet(Damaged)
  BY EntryFacts
<1>2. d + (IF Trap THEN 1 ELSE 0) <= 2 * mishaps
  BY DEF IInv, Counted
<1>3. dd \in Nat /\ dd <= d + 2
  BY <1>1, DamageSpread, TwoMore
<1>4. CASE Trap'
  <2>1. Damaged' \subseteq Damaged \cup {entry[t]}
    BY <1>4, DamageSpread DEF Trap
  <2>2. dd <= d + 1
    BY <1>1, <2>1, OneMore
  <2>3. dd + 1 <= 2 * (mishaps + 1)
    <3> HIDE DEF d, dd
    <3> QED
      BY <1>1, <1>2, <1>3, <2>2
  <2> QED
    BY <1>4, <2>3 DEF Counted
<1>5. CASE ~ Trap'
  <2>1. dd + 0 <= 2 * (mishaps + 1)
    <3> HIDE DEF d, dd
    <3> QED
      BY <1>1, <1>2, <1>3
  <2> QED
    BY <1>5, <2>1 DEF Counted
<1> QED
  BY <1>4, <1>5

\* Without one, an entry is damaged only by a trap, which it closes.
LEMMA WriteCounted ==
    ASSUME IInv, NEW t \in Threads, Logging(t), Appending(t), mishaps' = mishaps,
           Unfinished' \subseteq {entry[t]}, ~ Trap',
           ~ Trap /\ entry[t] \in Damaged' => entry[t] \in Damaged
    PROVE  Counted'
<1> DEFINE d == Cardinality(Damaged)  dd == Cardinality(Damaged')
<1>1. d \in Nat /\ mishaps \in Nat /\ IsFiniteSet(Damaged)
  BY EntryFacts
<1>2. d + (IF Trap THEN 1 ELSE 0) <= 2 * mishaps
  BY DEF IInv, Counted
<1>3. Damaged' \subseteq Damaged \cup {entry[t]}
  BY DamageSpread
<1>4. dd \in Nat /\ dd <= d + 1
  BY <1>1, <1>3, OneMore
<1>5. ~ Trap => dd <= d
  BY <1>1, <1>3, FS_Subset
<1>6. dd + 0 <= 2 * mishaps
  <2> HIDE DEF d, dd
  <2> QED
    BY <1>1, <1>2, <1>4, <1>5
<1> QED
  BY <1>6 DEF Counted

\* And nothing changes in a step that writes nothing.
LEMMA NothingCounted ==
    ASSUME IInv, UNCHANGED <<log, acked, mishaps>>, Unfinished' = Unfinished
    PROVE  Counted'
<1>1. Damaged' = Damaged
  BY DEF Damaged, Fine
<1>2. Trap' <=> Trap
  BY DEF Trap
<1> QED
  BY <1>1, <1>2 DEF IInv, Counted
-----------------------------------------------------------------------------

\* What is written is the writer's entry, a newline, or a scrap.
LEMMA Writes ==
    ASSUME IInv, NEW t \in Threads, pc[t] # "idle"
    PROVE  /\ log' = log => Logging(t)
           /\ log' = Append(log, Scrap) => Logging(t)
           /\ \A text \in {entry[t], Newline} : log' = log \o <<text>> =>
                 /\ Logging(t) /\ Len(log') = Len(log) + 1 /\ log'[Len(log) + 1] = text
           /\ log' = log \o <<entry[t], Newline>> =>
                 /\ Logging(t) /\ Len(log') = Len(log) + 2
                 /\ log'[Len(log) + 1] = entry[t] /\ log'[Len(log) + 2] = Newline
<1> DEFINE Texts == Entries \cup {Newline, Scrap}
<1>1. log \in Seq(Texts) /\ Len(log) \in Nat /\ entry[t] \in Texts
  BY EntryFacts
<1>2. CASE log' = log
  BY <1>1, <1>2 DEF Logging
<1>3. ASSUME NEW text \in {entry[t], Newline, Scrap}, log' = log \o <<text>>
      PROVE  Logging(t) /\ Len(log') = Len(log) + 1 /\ log'[Len(log) + 1] = text
  <2>1. <<text>> \in Seq(Texts) /\ Len(<<text>>) = 1 /\ <<text>>[1] = text
    BY <1>1
  <2>2. /\ log' \in Seq(Texts) /\ Len(log') = Len(log) + 1
        /\ \A i \in 1..Len(log) : log'[i] = log[i]
        /\ log'[Len(log) + 1] = text
    BY <1>1, <1>3, <2>1, ConcatProperties
  <2>3. \A i \in 1..Len(log') : i > Len(log) => i = Len(log) + 1
    BY <1>1, <2>2
  <2> QED
    BY <1>1, <2>2, <2>3 DEF Logging
<1>4. ASSUME log' = log \o <<entry[t], Newline>>
      PROVE  /\ Logging(t) /\ Len(log') = Len(log) + 2
             /\ log'[Len(log) + 1] = entry[t] /\ log'[Len(log) + 2] = Newline
  <2> DEFINE s == <<entry[t], Newline>>
  <2>1. s \in Seq(Texts) /\ Len(s) = 2 /\ s[1] = entry[t] /\ s[2] = Newline
    BY <1>1
  <2> HIDE DEF s
  <2>2. /\ log' \in Seq(Texts) /\ Len(log') = Len(log) + 2
        /\ \A i \in 1..Len(log) : log'[i] = log[i]
        /\ log'[Len(log) + 1] = entry[t] /\ log'[Len(log) + 2] = Newline
    <3>1. log' = log \o s
      BY <1>4 DEF s
    <3>2. /\ log' \in Seq(Texts) /\ Len(log') = Len(log) + Len(s)
          /\ \A i \in 1..Len(log) + Len(s) :
                log'[i] = IF i <= Len(log) THEN log[i] ELSE s[i - Len(log)]
      BY <1>1, <2>1, <3>1, ConcatProperties
    <3> QED
      BY <1>1, <2>1, <3>2
  <2>3. \A i \in 1..Len(log') : i > Len(log) => i \in {Len(log) + 1, Len(log) + 2}
    BY <1>1, <2>2
  <2> QED
    BY <1>1, <2>2, <2>3 DEF Logging
<1>5. log' = Append(log, Scrap) => log' = log \o <<Scrap>>
  BY <1>1
<1> QED
  BY <1>2, <1>3, <1>4, <1>5

\* A thread leaves append, whatever it has written.
LEMMA LeaveStep ==
    ASSUME IInv, NEW t \in Threads, pc[t] # "idle", Logging(t), Leave(t), used' = used,
           acked' = acked \/ acked' = acked \cup {entry[t]}, mishaps' \in Nat
    PROVE  /\ Types' /\ IsFiniteSet(used') /\ Owners' /\ Written'
           /\ Appending(t) /\ Unfinished' = Unfinished \ {entry[t]}
<1>1. /\ pc' = [pc EXCEPT ![t] = "idle"] /\ entry' = [entry EXCEPT ![t] = Nothing]
      /\ pc \in [Threads -> {"idle", "opening", "writing", "closing"}]
      /\ entry \in [Threads -> Entries \cup {Nothing}]
      /\ acked \subseteq used /\ used \subseteq Entries
  BY DEF Leave, Go, IInv, Types
<1>2. /\ pc'[t] = "idle" /\ entry'[t] = Nothing
      /\ \A u \in Threads : u # t => pc'[u] = pc[u] /\ entry'[u] = entry[u]
  BY <1>1
<1>3. entry[t] \in used \ acked
  BY DEF IInv, Owners
<1>4. Types'
  BY <1>1, <1>3 DEF Types, Logging
<1>5. \A u \in Threads : u # t /\ pc[u] # "idle" => entry[u] # entry[t]
  BY DEF IInv, Owners
<1>6. Owners'
  <2>1. \A u \in Threads : /\ pc'[u] = "idle" <=> entry'[u] = Nothing
                           /\ pc'[u] # "idle" => entry'[u] \in used \ acked'
    BY <1>2, <1>5 DEF IInv, Owners
  <2>2. \A u, v \in Threads : entry'[u] = entry'[v] => u = v \/ pc'[u] = "idle"
    BY <1>2 DEF IInv, Owners
  <2> QED
    BY <2>1, <2>2 DEF Owners
<1>7. \A u \in Threads : MidLine(u)' <=> u # t /\ MidLine(u)
  BY <1>2 DEF MidLine, WrittenAtOnce
<1>8. Unfinished' = Unfinished \ {entry[t]}
  <2>1. \A u \in Threads : MidLine(u) => pc[u] # "idle"
    BY DEF MidLine
  <2>2. \A u \in Threads : u # t /\ MidLine(u) => entry[u] # entry[t]
    BY <1>5, <2>1
  <2> QED
    BY <1>2, <1>7, <2>2 DEF Unfinished
<1>9. Written'
  <2> SUFFICES ASSUME NEW i \in 1..Len(log'), log'[i] \in Entries
               PROVE  /\ log'[i] \in used
                      /\ \A u \in Threads : log'[i] = entry'[u] => MidLine(u)'
    BY DEF Written
  <2>1. CASE i <= Len(log)
    <3>1. i \in 1..Len(log) /\ log'[i] = log[i]
      BY <2>1, EntryFacts DEF Logging
    <3>2. log[i] \in used /\ \A u \in Threads : log[i] = entry[u] => MidLine(u)
      BY <3>1 DEF IInv, Written
    <3>3. log'[i] # entry'[t]
      BY <1>2, EntryFacts DEF Nothing
    <3> QED
      BY <1>2, <1>7, <3>1, <3>2, <3>3
  <2>2. CASE i > Len(log)
    <3>1. log'[i] = entry[t]
      BY <2>2, EntryFacts DEF Logging
    <3>2. \A u \in Threads : entry'[u] # entry[t]
      <4>1. entry[t] \in Entries
        BY EntryFacts
      <4>2. \A u \in Threads : u # t => entry[u] # entry[t]
        BY DEF IInv, Owners
      <4> QED
        BY <1>2, <4>1, <4>2, EntryFacts DEF Nothing
    <3> QED
      BY <1>3, <3>1, <3>2
  <2>3. i \in Nat /\ Len(log) \in Nat
    BY EntryFacts, LenProperties DEF Logging
  <2> QED
    BY <2>1, <2>2, <2>3
<1>10. Appending(t) /\ IsFiniteSet(used')
  BY <1>8 DEF Appending, IInv
<1> QED
  BY <1>4, <1>6, <1>8, <1>9, <1>10

\* append ends without a write: it throws before, or is killed with nothing begun.
LEMMA LeavesQuietly ==
    ASSUME IInv, NEW t \in Threads, pc[t] # "idle", ~ MidLine(t), Leave(t),
           UNCHANGED <<log, used, acked, mishaps>>
    PROVE  IInv'
<1>1. Logging(t) /\ mishaps' \in Nat
  BY Writes, EntryFacts
<1>2. Types' /\ IsFiniteSet(used') /\ Owners' /\ Written' /\ Unfinished' = Unfinished \ {entry[t]}
  BY <1>1, LeaveStep
<1>3. entry[t] \notin Unfinished
  BY EntryFacts
<1>4. Counted'
  BY <1>2, <1>3, NothingCounted
<1> QED
  BY <1>2, <1>4 DEF IInv

\* append ends in a mishap.
LEMMA LeavesDamage ==
    ASSUME IInv, NEW t \in Threads, pc[t] # "idle", Logging(t), Leave(t), used' = used,
           acked' = acked \/ acked' = acked \cup {entry[t]}, mishaps' = mishaps + 1
    PROVE  IInv'
<1>1. mishaps' \in Nat
  BY EntryFacts
<1>2. Types' /\ IsFiniteSet(used') /\ Owners' /\ Written' /\ Appending(t)
  BY <1>1, LeaveStep
<1>3. Counted'
  BY <1>2, MishapCounted
<1> QED
  BY <1>2, <1>3 DEF IInv

\* No other thread is between its two writes.
LEMMA Alone ==
    ASSUME NEW t \in Threads, ~ \E u \in Threads \ {t} : MidLine(u)
    PROVE  Unfinished \subseteq {entry[t]}
  BY DEF Unfinished

LEMMA BrokenWriteLogs ==
    ASSUME IInv, NEW t \in Threads, pc[t] # "idle", NEW text, BrokenWrite(text)
    PROVE  Logging(t) /\ mishaps' = mishaps + 1
<1>1. log' = log \/ log' = Append(log, Scrap)
  BY DEF BrokenWrite
<1>2. Logging(t)
  BY <1>1, Writes
<1> QED
  BY <1>2 DEF BrokenWrite

\* A text that begins a line is fine.
LEMMA BegunWell ==
    ASSUME IInv, NEW t \in Threads, pc[t] # "idle", ~ MidLine(t), Logging(t),
           NEW e, e = entry[t],
           log = << >> \/ log[Len(log)] = Newline,
           log'[Len(log) + 1] = e,
           \/ e \notin acked' /\ Len(log') = Len(log) + 1
           \/ e \in acked' /\ Len(log') = Len(log) + 2 /\ log'[Len(log) + 2] = Newline
    PROVE  Fine(e)'
<1> DEFINE k == Len(log) + 1
<1>1. e \in Entries /\ Newline \notin Entries /\ Len(log) \in Nat
  BY EntryFacts
<1>2. k \in 1..Len(log') /\ log'[k] = e
  BY <1>1
<1>3. k = 1 \/ log'[k - 1] = Newline
  <2>1. CASE log = << >>
    BY <2>1
  <2>2. CASE Len(log) # 0
    <3>1. Len(log) \in 1..Len(log) /\ k - 1 = Len(log)
      BY <1>1, <2>2
    <3>2. log # << >>
      BY <2>2
    <3> QED
      BY <3>1, <3>2 DEF Logging
  <2>3. Len(log) = 0 => log = << >>
    BY EntryFacts, EmptySeq
  <2> QED
    BY <2>1, <2>2, <2>3
<1>4. \A j \in 1..Len(log') : log'[j] = e => j = k
  <2> SUFFICES ASSUME NEW j \in 1..Len(log'), log'[j] = e PROVE j = k
    OBVIOUS
  <2>1. ~ (j \in 1..Len(log))
    <3>1. ASSUME j \in 1..Len(log) PROVE FALSE
      <4>1. log[j] = e
        BY <3>1 DEF Logging
      <4> QED
        BY <1>1, <3>1, <4>1 DEF IInv, Written
    <3> QED
      BY <3>1
  <2>2. j = k \/ (j = k + 1 /\ Len(log') = Len(log) + 2 /\ log'[k + 1] = Newline)
    BY <1>1, <2>1
  <2> QED
    BY <1>1, <2>2
<1>5. IF e \in acked' THEN k < Len(log') /\ log'[k + 1] = Newline ELSE k = Len(log')
  BY <1>1
<1> QED
  BY <1>2, <1>3, <1>4, <1>5 DEF Fine

\* A text that was fine without its newline is fine with it.
LEMMA EndedWell ==
    ASSUME IInv, NEW e \in Entries, e \notin acked, Fine(e), e \in acked',
           NEW t, Logging(t), Len(log') = Len(log) + 1, log'[Len(log) + 1] = Newline
    PROVE  Fine(e)'
<1>1. Len(log) \in Nat /\ Newline \notin Entries
  BY EntryFacts
<1>2. /\ Len(log) \in 1..Len(log) /\ log[Len(log)] = e
      /\ Len(log) = 1 \/ log[Len(log) - 1] = Newline
      /\ \A j \in 1..Len(log) : log[j] = e => j = Len(log)
  BY DEF Fine
<1>3. Len(log) \in 1..Len(log') /\ Len(log) < Len(log') /\ log'[Len(log)] = e
  BY <1>1, <1>2 DEF Logging
<1>4. Len(log) = 1 \/ log'[Len(log) - 1] = Newline
  <2>1. CASE Len(log) # 1
    <3>1. Len(log) - 1 \in 1..Len(log)
      <4>1. Len(log) >= 1
        BY <1>2
      <4>2. \A n \in Nat : n >= 1 /\ n # 1 => n - 1 \in 1..n
        OBVIOUS
      <4> QED
        BY <1>1, <2>1, <4>1, <4>2
    <3> QED
      BY <1>2, <2>1, <3>1 DEF Logging
  <2> QED
    BY <2>1
<1>5. \A j \in 1..Len(log') : log'[j] = e => j = Len(log)
  <2> SUFFICES ASSUME NEW j \in 1..Len(log'), log'[j] = e PROVE j = Len(log)
    OBVIOUS
  <2>1. j # Len(log) + 1
    BY <1>1
  <2>2. j \in 1..Len(log)
    BY <1>1, <2>1
  <2>3. log[j] = e
    BY <2>2 DEF Logging
  <2> QED
    BY <1>2, <2>2, <2>3
<1> QED
  BY <1>3, <1>4, <1>5 DEF Fine

\* The newline, with the text if that is still in the buffer, goes out.
LEMMA CloseStep == ASSUME IInv, NEW t \in Threads, CloseStream(t) PROVE IInv'
<1>0. PICK e : e = entry[t]
  OBVIOUS
<1>1. /\ pc[t] = "closing" /\ pc[t] # "idle" /\ Leave(t)
      /\ acked' = acked \cup {e} /\ used' = used
  BY <1>0 DEF CloseStream
<1>2. e \in Entries /\ e \notin acked /\ mishaps \in Nat
  BY <1>0, <1>1, EntryFacts
<1>3. CASE BrokenWrite(Buffered(e))
  <2>1. Logging(t) /\ mishaps' = mishaps + 1
    BY <1>0, <1>1, <1>3, BrokenWriteLogs
  <2> QED
    BY <1>0, <1>1, <2>1, LeavesDamage
<1>4. CASE AppendToLog(t, Buffered(e))
  <2>1. log' = log \o Buffered(e)
    BY <1>0, <1>4 DEF AppendToLog
  <2>2. /\ Logging(t) /\ log'[Len(log')] = Newline
        /\ ~ Trap /\ Unfinished \subseteq {e} => (e \in Damaged' => e \in Damaged)
    <3>1. CASE e \in Long
      <4>1. log' = log \o <<Newline>>
        BY <1>0, <2>1, <3>1 DEF Buffered, WrittenAtOnce
      <4>2. Logging(t) /\ Len(log') = Len(log) + 1 /\ log'[Len(log) + 1] = Newline
        BY <1>0, <1>1, <4>1, Writes
      <4>3. e \in Unfinished
        BY <1>0, <1>1, <3>1 DEF Unfinished, MidLine, WrittenAtOnce
      <4>4. Fine(e) => Fine(e)'
        BY <1>0, <1>2, <4>2, EndedWell, <1>1
      <4> QED
        BY <4>2, <4>3, <4>4 DEF Damaged
    <3>2. CASE e \notin Long
      <4>1. log' = log \o <<e, Newline>>
        BY <1>0, <2>1, <3>2 DEF Buffered, WrittenAtOnce
      <4>2. /\ Logging(t) /\ Len(log') = Len(log) + 2
            /\ log'[Len(log) + 1] = e /\ log'[Len(log) + 2] = Newline
        BY <1>0, <1>1, <4>1, Writes
      <4>3. ~ MidLine(t) /\ e \notin Unfinished
        BY <1>0, <1>1, <3>2, EntryFacts DEF MidLine, WrittenAtOnce
      <4>4. ~ Trap /\ Unfinished \subseteq {e} => log = << >> \/ log[Len(log)] = Newline
        BY <4>3 DEF Trap
      <4>5. ~ Trap /\ Unfinished \subseteq {e} => Fine(e)'
        BY <1>0, <1>1, <4>2, <4>3, <4>4, BegunWell
      <4> QED
        BY <4>2, <4>5 DEF Damaged
    <3> QED
      BY <3>1, <3>2
  <2>3. CASE \E u \in Threads \ {t} : MidLine(u)
    <3>1. mishaps' = mishaps + 1
      BY <1>4, <2>3 DEF AppendToLog
    <3> QED
      BY <1>0, <1>1, <2>2, <3>1, LeavesDamage
  <2>4. CASE ~ \E u \in Threads \ {t} : MidLine(u)
    <3>1. mishaps' = mishaps
      BY <1>0, <1>2, <1>4, <2>4 DEF AppendToLog
    <3>2. Unfinished \subseteq {e}
      BY <1>0, <2>4, Alone
    <3>3. /\ Types' /\ IsFiniteSet(used') /\ Owners' /\ Written' /\ Appending(t)
          /\ Unfinished' = Unfinished \ {e}
      BY <1>0, <1>1, <1>2, <2>2, <3>1, LeaveStep
    <3>4. ~ Trap'
      BY <2>2 DEF Trap
    <3>5. Counted'
      BY <1>0, <2>2, <3>1, <3>2, <3>3, <3>4, WriteCounted
    <3> QED
      BY <3>3, <3>5 DEF IInv
  <2> QED
    BY <2>3, <2>4
<1> QED
  BY <1>0, <1>3, <1>4 DEF CloseStream

\* append is called.
LEMMA BeginStep ==
    ASSUME IInv, NEW t \in Threads, NEW e \in Entries, BeginAppend(t, e)
    PROVE  IInv'
<1>1. /\ pc[t] = "idle" /\ e \notin used /\ used' = used \cup {e}
      /\ pc' = [pc EXCEPT ![t] = "opening"] /\ entry' = [entry EXCEPT ![t] = e]
      /\ UNCHANGED <<log, acked, mishaps>>
      /\ pc \in [Threads -> {"idle", "opening", "writing", "closing"}]
      /\ entry \in [Threads -> Entries \cup {Nothing}]
  BY DEF BeginAppend, Go, IInv, Types
<1>2. /\ pc'[t] = "opening" /\ entry'[t] = e
      /\ \A u \in Threads : u # t => pc'[u] = pc[u] /\ entry'[u] = entry[u]
  BY <1>1
<1>3. Types' /\ IsFiniteSet(used')
  BY <1>1, FS_AddElement DEF IInv, Types
<1>4. e # Nothing /\ acked \subseteq used
  BY LoggerAssumption DEF Nothing, IInv, Types
<1>5. \A u \in Threads : entry[u] # e
  <2>1. \A u \in Threads : entry[u] = Nothing \/ entry[u] \in used
    BY DEF IInv, Owners
  <2> QED
    BY <1>1, <1>4, <2>1
<1>6. Owners'
  <2>1. \A u \in Threads : /\ pc'[u] = "idle" <=> entry'[u] = Nothing
                           /\ pc'[u] # "idle" => entry'[u] \in used' \ acked'
    BY <1>1, <1>2, <1>4 DEF IInv, Owners
  <2>2. \A u, v \in Threads : entry'[u] = entry'[v] => u = v \/ pc'[u] = "idle"
    BY <1>2, <1>5 DEF IInv, Owners
  <2> QED
    BY <2>1, <2>2 DEF Owners
<1>7. \A u \in Threads : /\ MidLine(u)' <=> MidLine(u)
                         /\ MidLine(u) => entry'[u] = entry[u]
  BY <1>1, <1>2 DEF MidLine, WrittenAtOnce
<1>8. Written'
  BY <1>1, <1>2, <1>7 DEF IInv, Written
<1>9. Unfinished' = Unfinished
  BY <1>7 DEF Unfinished
<1>10. Counted'
  BY <1>1, <1>9, NothingCounted
<1> QED
  BY <1>3, <1>6, <1>8, <1>10 DEF IInv

\* The log is open, or the entry has been given to the stream.
LEMMA GoStep ==
    ASSUME IInv, NEW t \in Threads, pc[t] \in {"opening", "writing"},
           NEW step \in {"writing", "closing"}, Go(t, step), Logging(t),
           log' = log \/ (step = "closing" /\ entry[t] \in Long),
           UNCHANGED <<entry, used, acked>>, mishaps' \in Nat
    PROVE  /\ Types' /\ IsFiniteSet(used') /\ Owners' /\ Written'
           /\ Unfinished' = Unfinished \cup
                 (IF step = "closing" /\ entry[t] \in Long THEN {entry[t]} ELSE {})
<1>1. /\ pc' = [pc EXCEPT ![t] = step]
      /\ pc \in [Threads -> {"idle", "opening", "writing", "closing"}]
      /\ acked \subseteq used /\ used \subseteq Entries
  BY DEF Go, IInv, Types
<1>2. pc'[t] = step /\ \A u \in Threads : u # t => pc'[u] = pc[u]
  BY <1>1
<1>3. Types' /\ IsFiniteSet(used')
  BY <1>1 DEF IInv, Types, Logging
<1>4. Owners'
  BY <1>2 DEF IInv, Owners
<1>5. /\ ~ MidLine(t) /\ (MidLine(t)' <=> step = "closing" /\ entry[t] \in Long)
      /\ \A u \in Threads : u # t => (MidLine(u)' <=> MidLine(u))
  BY <1>2 DEF MidLine, WrittenAtOnce
<1>6. Unfinished' = Unfinished \cup
         (IF step = "closing" /\ entry[t] \in Long THEN {entry[t]} ELSE {})
  <2>1. CASE step = "closing" /\ entry[t] \in Long
    BY <1>5, <2>1 DEF Unfinished
  <2>2. CASE ~ (step = "closing" /\ entry[t] \in Long)
    BY <1>5, <2>2 DEF Unfinished
  <2> QED
    BY <2>1, <2>2
<1>7. Written'
  <2> SUFFICES ASSUME NEW i \in 1..Len(log'), log'[i] \in Entries
               PROVE  /\ log'[i] \in used
                      /\ \A u \in Threads : log'[i] = entry[u] => MidLine(u)'
    BY DEF Written
  <2>1. CASE i \in 1..Len(log)
    <3>1. log'[i] = log[i]
      BY <2>1 DEF Logging
    <3>2. log[i] \in used /\ \A u \in Threads : log[i] = entry[u] => MidLine(u)
      BY <2>1, <3>1 DEF IInv, Written
    <3> QED
      BY <1>5, <3>1, <3>2
  <2>2. CASE ~ (i \in 1..Len(log))
    <3>1. i > Len(log) /\ log' # log
      BY <2>2, EntryFacts, LenProperties DEF Logging
    <3>2. log'[i] = entry[t] /\ entry[t] \in used
      BY <3>1, EntryFacts DEF Logging, IInv, Owners
    <3>3. \A u \in Threads : entry[t] = entry[u] => u = t
      BY DEF IInv, Owners
    <3> QED
      BY <1>5, <3>1, <3>2, <3>3
  <2> QED
    BY <2>1, <2>2
<1> QED
  BY <1>3, <1>4, <1>6, <1>7

LEMMA OpenStep == ASSUME IInv, NEW t \in Threads, Open(t) PROVE IInv'
<1>1. /\ pc[t] = "opening" /\ Go(t, "writing")
      /\ UNCHANGED <<log, entry, used, acked, mishaps>>
  BY DEF Open
<1>2. Logging(t) /\ mishaps' \in Nat
  BY <1>1, Writes, EntryFacts
<1>3. Types' /\ IsFiniteSet(used') /\ Owners' /\ Written' /\ Unfinished' = Unfinished
  BY <1>1, <1>2, GoStep
<1>4. Counted'
  BY <1>1, <1>3, NothingCounted
<1> QED
  BY <1>3, <1>4 DEF IInv

\* A short entry stays in the buffer, a long one is written but for its newline.
LEMMA WriteStep == ASSUME IInv, NEW t \in Threads, Write(t) PROVE IInv'
<1>0. PICK e : e = entry[t]
  OBVIOUS
<1>1. /\ pc[t] = "writing" /\ pc[t] # "idle" /\ Go(t, "closing")
      /\ UNCHANGED <<entry, used, acked>>
  BY DEF Write
<1>2. ~ MidLine(t) /\ e \notin Unfinished /\ e \in Entries /\ e \notin acked /\ mishaps \in Nat
  BY <1>0, <1>1, EntryFacts DEF MidLine
<1>3. CASE e \notin Long
  <2>1. UNCHANGED <<log, mishaps>>
    BY <1>0, <1>3 DEF Write, WrittenAtOnce
  <2>2. Logging(t) /\ mishaps' \in Nat
    BY <1>1, <1>2, <2>1, Writes
  <2>3. Types' /\ IsFiniteSet(used') /\ Owners' /\ Written' /\ Unfinished' = Unfinished
    BY <1>0, <1>1, <1>3, <2>1, <2>2, GoStep
  <2>4. Counted'
    BY <1>1, <2>1, <2>3, NothingCounted
  <2> QED
    BY <2>3, <2>4 DEF IInv
<1>4. CASE e \in Long
  <2>1. AppendToLog(t, <<e>>)
    BY <1>0, <1>4 DEF Write, WrittenAtOnce
  <2>2. Logging(t) /\ Len(log') = Len(log) + 1 /\ log'[Len(log) + 1] = e
    BY <1>0, <1>1, <2>1, Writes DEF AppendToLog
  <2>3. mishaps' = mishaps + 1 \/ (mishaps' = mishaps /\ ~ \E u \in Threads \ {t} : MidLine(u))
    BY <1>2, <2>1 DEF AppendToLog
  <2>4. mishaps' \in Nat
    BY <1>2, <2>3
  <2>5. /\ Types' /\ IsFiniteSet(used') /\ Owners' /\ Written'
        /\ Unfinished' = Unfinished \cup {e}
    BY <1>0, <1>1, <1>4, <2>2, <2>4, GoStep
  <2>6. Appending(t)
    BY <1>0, <1>1, <2>5 DEF Appending
  <2>7. CASE mishaps' = mishaps + 1
    <3>1. Counted'
      BY <2>2, <2>6, <2>7, MishapCounted
    <3> QED
      BY <2>5, <3>1 DEF IInv
  <2>8. CASE mishaps' = mishaps /\ ~ \E u \in Threads \ {t} : MidLine(u)
    <3>1. Unfinished = {} /\ Unfinished' = {e}
      BY <1>0, <1>2, <2>5, <2>8, Alone
    <3>2. ~ Trap'
      BY <3>1 DEF Trap
    <3>3. ~ Trap => Fine(e)'
      <4>1. ~ Trap => log = << >> \/ log[Len(log)] = Newline
        BY <3>1 DEF Trap
      <4>2. e \notin acked'
        BY <1>1, <1>2
      <4> QED
        BY <1>0, <1>1, <1>2, <2>2, <4>1, <4>2, BegunWell
    <3>4. ~ Trap /\ e \in Damaged' => e \in Damaged
      BY <3>3 DEF Damaged
    <3>5. Counted'
      BY <1>0, <2>2, <2>6, <2>8, <3>1, <3>2, <3>4, WriteCounted
    <3> QED
      BY <2>5, <3>5 DEF IInv
  <2> QED
    BY <2>3, <2>7, <2>8
<1> QED
  BY <1>3, <1>4

\* The process ends, between the two writes of an entry if it comes to the worst.
LEMMA CrashStep == ASSUME IInv, NEW t \in Threads, Crash(t) PROVE IInv'
<1>1. /\ pc[t] # "idle" /\ Leave(t) /\ UNCHANGED <<log, used, acked>>
      /\ mishaps' = mishaps + (IF MidLine(t) THEN 1 ELSE 0)
  BY DEF Crash
<1>2. CASE MidLine(t)
  <2>1. Logging(t) /\ mishaps' = mishaps + 1
    BY <1>1, <1>2, Writes
  <2> QED
    BY <1>1, <2>1, LeavesDamage
<1>3. CASE ~ MidLine(t)
  <2>1. mishaps' = mishaps
    BY <1>1, <1>3, EntryFacts
  <2> QED
    BY <1>1, <1>3, <2>1, LeavesQuietly
<1> QED
  BY <1>2, <1>3

LEMMA LoggerInit == Init => IInv
<1> SUFFICES ASSUME Init PROVE IInv
  OBVIOUS
<1>1. log = << >> /\ Len(log) = 0 /\ log \in Seq(Entries \cup {Newline, Scrap})
  BY DEF Init
<1>2. Types /\ IsFiniteSet(used)
  BY <1>1, FS_EmptySet DEF Init, Types
<1>3. Owners /\ Written
  BY <1>1 DEF Init, Owners, Written
<1>4. Counted
  <2>1. Unfinished = {} /\ acked = {}
    BY DEF Init, Unfinished, MidLine
  <2>2. Damaged = {} /\ ~ Trap
    BY <1>1, <2>1 DEF Damaged, Trap
  <2>3. Cardinality({}) = 0 /\ mishaps = 0
    BY FS_EmptySet DEF Init
  <2> QED
    BY <2>2, <2>3 DEF Counted
<1> QED
  BY <1>2, <1>3, <1>4 DEF IInv

LEMMA LoggerInductive == Spec => []IInv
<1>1. Init => IInv
  BY LoggerInit
<1>2. IInv /\ [Next]_vars => IInv'
  <2> SUFFICES ASSUME IInv, [Next]_vars PROVE IInv'
    OBVIOUS
  <2>1. ASSUME NEW t \in Threads, NEW e \in Entries, BeginAppend(t, e)
        PROVE  IInv'
    BY <2>1, BeginStep
  <2>2. ASSUME NEW t \in Threads, Open(t) PROVE IInv'
    BY <2>2, OpenStep
  <2>3. ASSUME NEW t \in Threads, OpenFails(t) \/ DumpThrows(t) PROVE IInv'
    <3>1. /\ pc[t] # "idle" /\ ~ MidLine(t) /\ Leave(t)
          /\ UNCHANGED <<log, used, acked, mishaps>>
      BY <2>3 DEF OpenFails, DumpThrows, Throw, MidLine
    <3> QED
      BY <3>1, LeavesQuietly
  <2>4. ASSUME NEW t \in Threads, Write(t) PROVE IInv'
    BY <2>4, WriteStep
  <2>5. ASSUME NEW t \in Threads, WriteFails(t) PROVE IInv'
    <3>1. /\ pc[t] # "idle" /\ BrokenWrite(<<entry[t]>>) /\ Leave(t)
          /\ UNCHANGED <<used, acked>>
      BY <2>5 DEF WriteFails, Throw
    <3>2. Logging(t) /\ mishaps' = mishaps + 1
      BY <3>1, BrokenWriteLogs
    <3> QED
      BY <3>1, <3>2, LeavesDamage
  <2>6. ASSUME NEW t \in Threads, CloseStream(t) PROVE IInv'
    BY <2>6, CloseStep
  <2>7. ASSUME NEW t \in Threads, Crash(t) PROVE IInv'
    BY <2>7, CrashStep
  <2>8. CASE UNCHANGED vars
    <3>1. UNCHANGED <<log, pc, entry, used, acked, mishaps>>
      BY <2>8 DEF vars
    <3>2. \A t \in Threads : MidLine(t)' <=> MidLine(t)
      BY <3>1 DEF MidLine
    <3>3. Types' /\ IsFiniteSet(used') /\ Owners'
      BY <3>1 DEF IInv, Types, Owners
    <3>4. Written'
      BY <3>1, <3>2 DEF IInv, Written
    <3>5. Unfinished' = Unfinished
      BY <3>1, <3>2 DEF Unfinished
    <3>6. Counted'
      BY <3>1, <3>5, NothingCounted
    <3> QED
      BY <3>3, <3>4, <3>6 DEF IInv
  <2> QED
    BY <2>1, <2>2, <2>3, <2>4, <2>5, <2>6, <2>7, <2>8 DEF Next
<1> QED
  BY <1>1, <1>2, PTL DEF Spec
-----------------------------------------------------------------------------

\* The entries being appended.
Active == {entry[t] : t \in {u \in Threads : pc[u] # "idle"}}

\* Two texts for an entry whose append has ended, one for a line that is begun.
Room == Len(log) <= 2 * Cardinality(used \ Active) + Cardinality(Unfinished)

\* What was thrown away is not in the log, and nobody is going to write it.
Absent ==
    /\ thrown \subseteq used
    /\ \A t \in Threads : pc[t] # "idle" => entry[t] \notin thrown
    /\ \A e \in thrown : \A i \in 1..Len(log) : log[i] # e

LEMMA RoomFacts ==
    ASSUME IInv
    PROVE  /\ IsFiniteSet(used \ Active) /\ Cardinality(used \ Active) \in Nat
           /\ IsFiniteSet(Unfinished) /\ Cardinality(Unfinished) \in Nat
           /\ Unfinished \subseteq Active
<1>1. IsFiniteSet(used) /\ used \ Active \subseteq used /\ Unfinished \subseteq used
  BY EntryFacts DEF IInv
<1>2. IsFiniteSet(used \ Active) /\ IsFiniteSet(Unfinished)
  BY <1>1, FS_Subset
<1>3. Unfinished \subseteq Active
  BY DEF Unfinished, Active, MidLine
<1> QED
  BY <1>2, <1>3, FS_CardinalityType

\* An append that ends has room for a text and a newline, less what it has written.
LEMMA RoomToLeave ==
    ASSUME IInv, Room, NEW t \in Threads, pc[t] # "idle", Leave(t), used' = used,
           Unfinished' = Unfinished \ {entry[t]},
           Len(log') <= Len(log) + (IF entry[t] \in Unfinished THEN 1 ELSE 2),
           Len(log') \in Nat
    PROVE  Room'
<1> DEFINE e == entry[t]
           spare == used \ Active
           s == Cardinality(spare)  u == Cardinality(Unfinished)
<1>1. /\ pc' = [pc EXCEPT ![t] = "idle"] /\ entry' = [entry EXCEPT ![t] = Nothing]
      /\ pc \in [Threads -> {"idle", "opening", "writing", "closing"}]
      /\ entry \in [Threads -> Entries \cup {Nothing}]
  BY DEF Leave, Go, IInv, Types
<1>2. /\ pc'[t] = "idle"
      /\ \A v \in Threads : v # t => pc'[v] = pc[v] /\ entry'[v] = entry[v]
  BY <1>1
<1>3. \A v \in Threads : v # t /\ pc[v] # "idle" => entry[v] # e
  BY DEF IInv, Owners
<1>4. Active' = Active \ {e} /\ e \in Active /\ e \in used
  <2>1. Active' = {entry[v] : v \in {w \in Threads : w # t /\ pc[w] # "idle"}}
    BY <1>2 DEF Active
  <2>2. e \in Active /\ e \in used
    BY DEF Active, IInv, Owners
  <2> QED
    BY <1>3, <2>1, <2>2 DEF Active
<1>5. (used \ Active)' = spare \cup {e} /\ e \notin spare
  BY <1>4
<1>6. /\ IsFiniteSet(spare) /\ s \in Nat /\ IsFiniteSet(Unfinished) /\ u \in Nat
      /\ Len(log) \in Nat
  BY RoomFacts, EntryFacts
<1> HIDE DEF spare, e
<1>7. Cardinality(spare \cup {e}) = s + 1
  BY <1>5, <1>6, FS_AddElement
<1>8. Cardinality(Unfinished \ {e}) = IF e \in Unfinished THEN u - 1 ELSE u
  BY <1>6, FS_RemoveElement
<1>9. Len(log) <= 2 * s + u
  BY DEF Room, spare
<1>10. Len(log') <= Len(log) + (IF e \in Unfinished THEN 1 ELSE 2)
  BY DEF e
<1>11. Len(log') <= 2 * (s + 1) + (IF e \in Unfinished THEN u - 1 ELSE u)
  <2> HIDE DEF s, u
  <2> QED
    BY <1>6, <1>9, <1>10
<1>12. Unfinished' = Unfinished \ {e}
  BY DEF e
<1> QED
  BY <1>5, <1>7, <1>8, <1>11, <1>12 DEF Room

\* An entry is in the log only with the consent of its append.
LEMMA AbsentToLeave ==
    ASSUME IInv, Absent, NEW t \in Threads, pc[t] # "idle", Logging(t), Leave(t), used' = used,
           \/ thrown' = thrown
           \/ /\ thrown' = thrown \cup {entry[t]}
              /\ ~ MidLine(t)
              /\ \A i \in 1..Len(log') : i > Len(log) => log'[i] # entry[t]
    PROVE  Absent'
<1>1. /\ pc' = [pc EXCEPT ![t] = "idle"] /\ entry' = [entry EXCEPT ![t] = Nothing]
      /\ pc \in [Threads -> {"idle", "opening", "writing", "closing"}]
      /\ entry \in [Threads -> Entries \cup {Nothing}]
  BY DEF Leave, Go, IInv, Types
<1>2. /\ pc'[t] = "idle"
      /\ \A v \in Threads : v # t => pc'[v] = pc[v] /\ entry'[v] = entry[v]
  BY <1>1
<1>3. \A v \in Threads : v # t /\ pc[v] # "idle" => entry[v] # entry[t]
  BY DEF IInv, Owners
<1>4. entry[t] \in used /\ entry[t] \notin thrown
  BY DEF IInv, Owners, Absent
<1>5. thrown' \subseteq used'
  BY <1>4 DEF Absent
<1>6. \A v \in Threads : pc'[v] # "idle" => entry'[v] \notin thrown'
  BY <1>2, <1>3 DEF Absent
<1>7. ASSUME NEW e \in thrown', NEW i \in 1..Len(log'), log'[i] = e PROVE FALSE
  <2>1. e \in Entries /\ Newline \notin Entries /\ Scrap \notin Entries
    BY <1>5, EntryFacts DEF IInv, Types
  <2>2. i \in Nat /\ Len(log) \in Nat
    BY EntryFacts, LenProperties DEF Logging
  <2>3. CASE i \in 1..Len(log)
    <3>1. log[i] = e
      BY <1>7, <2>3 DEF Logging
    <3>2. e \notin thrown
      BY <2>3, <3>1 DEF Absent
    <3>3. e = entry[t] /\ ~ MidLine(t)
      BY <3>2
    <3> QED
      BY <2>1, <2>3, <3>1, <3>3 DEF IInv, Written
  <2>4. CASE ~ (i \in 1..Len(log))
    <3>1. i > Len(log)
      BY <2>2, <2>4
    <3>2. e = entry[t]
      BY <1>7, <2>1, <3>1 DEF Logging
    <3> QED
      BY <1>4, <1>7, <3>1, <3>2
  <2> QED
    BY <2>3, <2>4
<1> QED
  BY <1>5, <1>6, <1>7 DEF Absent

\* append ends: its entry is spare now, and has written no more than its two texts.
LEMMA EndedAppend ==
    ASSUME IInv, IInv', Room, Absent, NEW t \in Threads, pc[t] # "idle", Logging(t),
           Leave(t), used' = used, acked' = acked \/ acked' = acked \cup {entry[t]},
           Len(log') <= Len(log) + (IF entry[t] \in Unfinished THEN 1 ELSE 2),
           \/ thrown' = thrown
           \/ /\ thrown' = thrown \cup {entry[t]}
              /\ ~ MidLine(t)
              /\ \A i \in 1..Len(log') : i > Len(log) => log'[i] # entry[t]
    PROVE  Room' /\ Absent'
<1>1. mishaps' \in Nat /\ Len(log') \in Nat
  BY LenProperties DEF IInv, Types
<1>2. Unfinished' = Unfinished \ {entry[t]}
  BY <1>1, LeaveStep
<1> QED
  BY <1>1, <1>2, RoomToLeave, AbsentToLeave

LEMMA BrokenWriteAbsent ==
    ASSUME IInv, NEW t \in Threads, pc[t] # "idle", NEW text, BrokenWrite(text)
    PROVE  /\ Len(log') <= Len(log) + 1
           /\ \A i \in 1..Len(log') : i > Len(log) => log'[i] # entry[t]
<1>1. /\ log \in Seq(Entries \cup {Newline, Scrap}) /\ Len(log) \in Nat
      /\ entry[t] # Scrap
  BY EntryFacts
<1>2. CASE log' = log
  BY <1>1, <1>2
<1>3. CASE log' = Append(log, Scrap)
  <2>1. Len(log') = Len(log) + 1 /\ log'[Len(log) + 1] = Scrap
    BY <1>1, <1>3
  <2>2. \A i \in 1..Len(log') : i > Len(log) => i = Len(log) + 1
    BY <1>1, <2>1
  <2> QED
    BY <1>1, <2>1, <2>2
<1> QED
  BY <1>2, <1>3 DEF BrokenWrite

LEMMA BeginSafe ==
    ASSUME IInv, Room, Absent, NEW t \in Threads, NEW e \in Entries, BeginAppend(t, e)
    PROVE  Room' /\ Absent'
<1>1. /\ pc[t] = "idle" /\ e \notin used /\ used' = used \cup {e}
      /\ pc' = [pc EXCEPT ![t] = "opening"] /\ entry' = [entry EXCEPT ![t] = e]
      /\ UNCHANGED <<log, thrown>>
      /\ pc \in [Threads -> {"idle", "opening", "writing", "closing"}]
      /\ entry \in [Threads -> Entries \cup {Nothing}]
  BY DEF BeginAppend, Go, IInv, Types
<1>2. /\ pc'[t] = "opening" /\ entry'[t] = e
      /\ \A u \in Threads : u # t => pc'[u] = pc[u] /\ entry'[u] = entry[u]
  BY <1>1
<1>3. (used \ Active)' = used \ Active
  <2>1. Active' = Active \cup {e}
    BY <1>1, <1>2 DEF Active
  <2> QED
    BY <1>1, <2>1
<1>4. Unfinished' = Unfinished
  <2>1. \A u \in Threads : /\ MidLine(u)' <=> MidLine(u)
                           /\ MidLine(u) => entry'[u] = entry[u]
    BY <1>1, <1>2 DEF MidLine, WrittenAtOnce
  <2> QED
    BY <2>1 DEF Unfinished
<1>5. Room'
  BY <1>1, <1>3, <1>4 DEF Room
<1>6. Absent'
  BY <1>1, <1>2 DEF Absent
<1> QED
  BY <1>5, <1>6

LEMMA OpenSafe ==
    ASSUME IInv, Room, Absent, NEW t \in Threads, Open(t)
    PROVE  Room' /\ Absent'
<1>1. /\ pc[t] = "opening" /\ pc' = [pc EXCEPT ![t] = "writing"]
      /\ pc \in [Threads -> {"idle", "opening", "writing", "closing"}]
      /\ UNCHANGED <<log, entry, used, thrown>>
  BY DEF Open, Go, IInv, Types
<1>2. \A u \in Threads : /\ pc'[u] # "idle" <=> pc[u] # "idle"
                         /\ MidLine(u)' <=> MidLine(u)
  BY <1>1 DEF MidLine, WrittenAtOnce
<1>3. Active' = Active /\ Unfinished' = Unfinished
  BY <1>1, <1>2 DEF Active, Unfinished
<1> QED
  BY <1>1, <1>2, <1>3 DEF Room, Absent

\* The text of a long entry is one more, and so is the line it begins.
LEMMA WriteSafe ==
    ASSUME IInv, IInv', Room, Absent, NEW t \in Threads, Write(t)
    PROVE  Room' /\ Absent'
<1>0. PICK e : e = entry[t]
  OBVIOUS
<1>1. /\ pc[t] = "writing" /\ pc[t] # "idle" /\ Go(t, "closing")
      /\ pc' = [pc EXCEPT ![t] = "closing"]
      /\ pc \in [Threads -> {"idle", "opening", "writing", "closing"}]
      /\ UNCHANGED <<entry, used, acked, thrown>> /\ mishaps' \in Nat
  BY DEF Write, Go, IInv, Types
<1>2. e \notin Unfinished /\ e \notin thrown /\ Len(log) \in Nat
  BY <1>0, <1>1, EntryFacts DEF MidLine, Absent
<1>3. Active' = Active
  <2>1. \A u \in Threads : pc'[u] # "idle" <=> pc[u] # "idle"
    BY <1>1
  <2> QED
    BY <1>1, <2>1 DEF Active
<1>4. \A u \in Threads : pc'[u] # "idle" => entry'[u] \notin thrown'
  BY <1>1 DEF Absent
<1>5. CASE e \notin Long
  <2>1. log' = log
    BY <1>0, <1>5 DEF Write, WrittenAtOnce
  <2>2. Logging(t)
    BY <1>1, <2>1, Writes
  <2>3. Unfinished' = Unfinished
    BY <1>0, <1>1, <1>5, <2>1, <2>2, GoStep
  <2>4. Room'
    BY <1>1, <1>3, <2>1, <2>3 DEF Room
  <2>5. Absent'
    BY <1>1, <1>4, <2>1 DEF Absent
  <2> QED
    BY <2>4, <2>5
<1>6. CASE e \in Long
  <2>1. log' = log \o <<e>>
    BY <1>0, <1>6 DEF Write, WrittenAtOnce, AppendToLog
  <2>2. Logging(t) /\ Len(log') = Len(log) + 1 /\ log'[Len(log) + 1] = e
    BY <1>0, <1>1, <2>1, Writes
  <2>3. Unfinished' = Unfinished \cup {e}
    BY <1>0, <1>1, <1>6, <2>2, GoStep
  <2>4. Room'
    <3> DEFINE s == Cardinality(used \ Active)  u == Cardinality(Unfinished)
    <3>1. s \in Nat /\ u \in Nat /\ Cardinality(Unfinished') = u + 1
      BY <1>2, <2>3, RoomFacts, FS_AddElement
    <3>2. Len(log) <= 2 * s + u
      BY DEF Room
    <3>3. Len(log') <= 2 * s + (u + 1)
      <4> HIDE DEF s, u
      <4> QED
        BY <1>2, <2>2, <3>1, <3>2
    <3> QED
      BY <1>1, <1>3, <3>1, <3>3 DEF Room
  <2>5. ASSUME NEW x \in thrown', NEW i \in 1..Len(log') PROVE log'[i] # x
    <3>1. CASE i \in 1..Len(log)
      BY <1>1, <2>2, <3>1 DEF Logging, Absent
    <3>2. CASE i = Len(log) + 1
      BY <1>1, <1>2, <2>2, <3>2
    <3> QED
      BY <1>2, <2>2, <3>1, <3>2
  <2>6. Absent'
    BY <1>1, <1>4, <2>5 DEF Absent
  <2> QED
    BY <2>4, <2>6
<1> QED
  BY <1>5, <1>6

LEMMA CloseSafe ==
    ASSUME IInv, IInv', Room, Absent, NEW t \in Threads, CloseStream(t)
    PROVE  Room' /\ Absent'
<1>0. PICK e : e = entry[t]
  OBVIOUS
<1>1. /\ pc[t] = "closing" /\ pc[t] # "idle" /\ Leave(t)
      /\ acked' = acked \cup {entry[t]} /\ used' = used /\ thrown' = thrown
  BY DEF CloseStream
<1>2. Len(log) \in Nat
  BY EntryFacts
<1>3. e \in Unfinished <=> e \in Long
  <2>1. e \in Long => e \in Unfinished
    BY <1>0, <1>1 DEF Unfinished, MidLine, WrittenAtOnce
  <2>2. e \in Unfinished => MidLine(t)
    BY <1>0, <1>1, EntryFacts
  <2> QED
    BY <1>0, <2>1, <2>2 DEF MidLine, WrittenAtOnce
<1>4. Logging(t) /\ Len(log') <= Len(log) + (IF e \in Unfinished THEN 1 ELSE 2)
  <2>1. CASE BrokenWrite(Buffered(e))
    <3>1. Logging(t) /\ Len(log') <= Len(log) + 1
      BY <1>1, <2>1, BrokenWriteLogs, BrokenWriteAbsent
    <3>2. Len(log') \in Nat
      BY <3>1, LenProperties DEF Logging
    <3> QED
      BY <1>2, <3>1, <3>2
  <2>2. CASE AppendToLog(t, Buffered(e)) /\ e \in Long
    <3>1. log' = log \o <<Newline>>
      BY <2>2 DEF AppendToLog, Buffered, WrittenAtOnce
    <3>2. Logging(t) /\ Len(log') = Len(log) + 1
      BY <1>1, <3>1, Writes
    <3> QED
      BY <1>2, <1>3, <2>2, <3>2
  <2>3. CASE AppendToLog(t, Buffered(e)) /\ e \notin Long
    <3>1. log' = log \o <<e, Newline>>
      BY <2>3 DEF AppendToLog, Buffered, WrittenAtOnce
    <3>2. Logging(t) /\ Len(log') = Len(log) + 2
      BY <1>0, <1>1, <3>1, Writes
    <3> QED
      BY <1>2, <1>3, <2>3, <3>2
  <2>4. AppendToLog(t, Buffered(e)) \/ BrokenWrite(Buffered(e))
    BY <1>0 DEF CloseStream
  <2> QED
    BY <2>1, <2>2, <2>3, <2>4
<1> QED
  BY <1>0, <1>1, <1>4, EndedAppend

LEMMA LoggerSafe == Spec => [](Room /\ Absent)
<1>1. Init => Room /\ Absent
  <2> SUFFICES ASSUME Init PROVE Room /\ Absent
    OBVIOUS
  <2>1. Len(log) = 0 /\ Active = {} /\ Unfinished = {} /\ used = {} /\ thrown = {}
    BY DEF Init, Active, Unfinished, MidLine
  <2>2. Cardinality(used \ Active) = 0 /\ Cardinality(Unfinished) = 0
    BY <2>1, FS_EmptySet
  <2> QED
    BY <2>1, <2>2 DEF Room, Absent
<1>2. IInv /\ IInv' /\ Room /\ Absent /\ [Next]_vars => (Room /\ Absent)'
  <2> SUFFICES ASSUME IInv, IInv', Room, Absent, [Next]_vars PROVE Room' /\ Absent'
    OBVIOUS
  <2>1. ASSUME NEW t \in Threads, NEW e \in Entries, BeginAppend(t, e)
        PROVE  Room' /\ Absent'
    BY <2>1, BeginSafe
  <2>2. ASSUME NEW t \in Threads, Open(t) PROVE Room' /\ Absent'
    BY <2>2, OpenSafe
  <2>3. ASSUME NEW t \in Threads, OpenFails(t) \/ DumpThrows(t) PROVE Room' /\ Absent'
    <3>1. /\ pc[t] # "idle" /\ ~ MidLine(t) /\ Leave(t) /\ thrown' = thrown \cup {entry[t]}
          /\ UNCHANGED <<log, used, acked>>
      BY <2>3 DEF OpenFails, DumpThrows, Throw, MidLine
    <3>2. Logging(t) /\ Len(log) \in Nat
      BY <3>1, Writes, EntryFacts
    <3>3. /\ Len(log') <= Len(log) + (IF entry[t] \in Unfinished THEN 1 ELSE 2)
          /\ \A i \in 1..Len(log') : i > Len(log) => log'[i] # entry[t]
      BY <3>1, <3>2
    <3> QED
      BY <3>1, <3>2, <3>3, EndedAppend
  <2>4. ASSUME NEW t \in Threads, Write(t) PROVE Room' /\ Absent'
    BY <2>4, WriteSafe
  <2>5. ASSUME NEW t \in Threads, WriteFails(t) PROVE Room' /\ Absent'
    <3>1. /\ pc[t] # "idle" /\ ~ MidLine(t) /\ Leave(t) /\ thrown' = thrown \cup {entry[t]}
          /\ UNCHANGED <<used, acked>> /\ BrokenWrite(<<entry[t]>>)
      BY <2>5 DEF WriteFails, Throw, MidLine
    <3>2. /\ Logging(t) /\ Len(log) \in Nat /\ Len(log') \in Nat
          /\ Len(log') <= Len(log) + 1
          /\ \A i \in 1..Len(log') : i > Len(log) => log'[i] # entry[t]
      BY <3>1, BrokenWriteLogs, BrokenWriteAbsent, EntryFacts, LenProperties DEF Logging
    <3>3. Len(log') <= Len(log) + (IF entry[t] \in Unfinished THEN 1 ELSE 2)
      BY <3>2
    <3> QED
      BY <3>1, <3>2, <3>3, EndedAppend
  <2>6. ASSUME NEW t \in Threads, CloseStream(t) PROVE Room' /\ Absent'
    BY <2>6, CloseSafe
  <2>7. ASSUME NEW t \in Threads, Crash(t) PROVE Room' /\ Absent'
    <3>1. /\ pc[t] # "idle" /\ Leave(t) /\ UNCHANGED <<log, used, acked, thrown>>
      BY <2>7 DEF Crash
    <3>2. Logging(t) /\ Len(log) \in Nat
      BY <3>1, Writes, EntryFacts
    <3>3. Len(log') <= Len(log) + (IF entry[t] \in Unfinished THEN 1 ELSE 2)
      BY <3>1, <3>2
    <3> QED
      BY <3>1, <3>2, <3>3, EndedAppend
  <2>8. CASE UNCHANGED vars
    <3>1. UNCHANGED <<log, pc, entry, used, thrown>>
      BY <2>8 DEF vars
    <3>2. Active' = Active /\ Unfinished' = Unfinished
      BY <3>1 DEF Active, Unfinished, MidLine
    <3> QED
      BY <3>1, <3>2 DEF Room, Absent
  <2> QED
    BY <2>1, <2>2, <2>3, <2>4, <2>5, <2>6, <2>7, <2>8 DEF Next
<1> QED
  BY <1>1, <1>2, LoggerInductive, PTL DEF Spec
-----------------------------------------------------------------------------

(***************************************************************************)
(* The state of the loggers and of the log is typed, and the log holds no  *)
(* more than two texts, a line and its end, for every entry that some      *)
(* append was called with.                                                 *)
(***************************************************************************)
THEOREM TypeCorrect == Spec => []TypeOK
<1>1. IInv /\ Room /\ Absent => TypeOK
  <2> SUFFICES ASSUME IInv, Room, Absent PROVE TypeOK
    OBVIOUS
  <2> DEFINE n == Cardinality(used)
             spare == used \ Active
             s == Cardinality(spare)  u == Cardinality(Unfinished)
  <2>1. IsFiniteSet(used) /\ n \in Nat /\ Unfinished \subseteq used
    BY EntryFacts, FS_CardinalityType DEF IInv
  <2>2. IsFiniteSet(spare) /\ IsFiniteSet(Unfinished) /\ s \in Nat /\ u \in Nat
    BY RoomFacts
  <2>3. spare \cap Unfinished = {} /\ spare \cup Unfinished \subseteq used
    BY <2>1, RoomFacts
  <2> HIDE DEF spare
  <2>4. Cardinality(spare \cup Unfinished) = s + u
    <3>1. Cardinality(spare \cup Unfinished) = s + u - Cardinality(spare \cap Unfinished)
      BY <2>2, FS_Union
    <3>2. Cardinality(spare \cap Unfinished) = 0
      BY <2>3, FS_EmptySet
    <3> QED
      BY <2>2, <3>1, <3>2
  <2>5. s + u <= n
    BY <2>1, <2>3, <2>4, FS_Subset
  <2>6. Len(log) \in Nat /\ Len(log) <= 2 * s + u
    BY EntryFacts DEF Room, spare
  <2>7. Len(log) <= 2 * n
    <3> HIDE DEF n, s, u
    <3> QED
      BY <2>1, <2>2, <2>5, <2>6
  <2> QED
    BY <2>7 DEF TypeOK, IInv, Types, Absent
<1> QED
  BY <1>1, LoggerInductive, LoggerSafe, PTL

(***************************************************************************)
(* An entry whose append threw is not in the log, and never will be: a     *)
(* caller that is told of the failure is told the truth.                   *)
(***************************************************************************)
THEOREM ThrownIsAbsent == Spec => []ThrownMeansAbsent
<1>1. IInv /\ Absent => ThrownMeansAbsent
  <2> SUFFICES ASSUME IInv, Absent PROVE ThrownMeansAbsent
    OBVIOUS
  <2>1. DOMAIN log = 1..Len(log)
    BY EntryFacts, LenProperties
  <2> QED
    BY <2>1 DEF ThrownMeansAbsent, Absent
<1> QED
  BY <1>1, LoggerInductive, LoggerSafe, PTL

(***************************************************************************)
(* However many threads and processes log, an interleaved, failed or       *)
(* killed write costs at most two of the entries whose append returned;    *)
(* with none of them, every such entry is on a line of its own, once.      *)
(***************************************************************************)
THEOREM DamageStaysLocal == Spec => []DamageIsLocal
<1>1. IInv => DamageIsLocal
  <2> SUFFICES ASSUME IInv PROVE DamageIsLocal
    OBVIOUS
  <2> DEFINE lost == {e \in acked : ~ Readable(e)}
  <2>1. DOMAIN log = 1..Len(log)
    BY EntryFacts, LenProperties
  <2>2. \A e \in acked : Fine(e) => Readable(e)
    BY <2>1 DEF Fine, Readable, OnItsOwnLine
  <2>3. lost \subseteq Damaged
    BY <2>2 DEF Damaged
  <2> HIDE DEF lost
  <2>4. Cardinality(lost) <= Cardinality(Damaged) /\ IsFiniteSet(lost)
    BY <2>3, EntryFacts, FS_Subset
  <2>5. Cardinality(lost) \in Nat /\ Cardinality(Damaged) \in Nat /\ mishaps \in Nat
    BY <2>4, EntryFacts, FS_CardinalityType
  <2>6. Cardinality(Damaged) <= 2 * mishaps
    BY <2>5 DEF IInv, Counted
  <2>7. Cardinality(lost) <= 2 * mishaps
    BY <2>4, <2>5, <2>6
  <2> QED
    BY <2>7 DEF DamageIsLocal, lost
<1> QED
  BY <1>1, LoggerInductive, PTL
=============================================================================
