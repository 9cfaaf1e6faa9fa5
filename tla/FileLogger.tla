----------------------------- MODULE FileLogger -----------------------------
(***************************************************************************)
(* FileLogger::append: every entry opens the log with O_APPEND, writes one *)
(* line of JSON through a buffered stream and closes it.  What reaches the *)
(* file, and in how many write calls, is up to the stream: an entry that   *)
(* fits its buffer goes out, newline included, in the one write of the     *)
(* destructor; the text of a longer one goes out at once and its newline   *)
(* in the destructor.  Whole write calls do not interleave.                *)
(*                                                                         *)
(* An entry is one value; log_polling, log_error and the others only make  *)
(* entries.  Loggers share nothing but the file, so a thread stands for a  *)
(* thread of one process or for another process.                           *)
(***************************************************************************)
EXTENDS Naturals, Sequences, FiniteSets

CONSTANTS
    Threads,
    Entries,    \* the entries to be logged, each of them once
    Long,       \* those that do not fit the stream's buffer
    Faults,     \* "crash": the process may end; "full": a write may fail
    Newline,
    Scrap       \* what a write that failed half way has left

ASSUME LoggerAssumption ==
    /\ Long \subseteq Entries
    /\ Newline \notin Entries /\ Scrap \notin Entries /\ Scrap # Newline
    /\ Faults \subseteq {"crash", "full"}

VARIABLES
    log,        \* the file: texts of entries, and newlines
    pc,         \* where each thread is in append
    entry,      \* the entry it is appending
    used,       \* entries some append was called with
    acked,      \* entries whose append returned
    thrown,     \* entries whose append threw
    mishaps     \* how often a line was left, or written on, unfinished

vars == <<log, pc, entry, used, acked, thrown, mishaps>>

Nothing == Newline      \* not an entry

\* A file of lines: a text and a newline for every entry, at most.
TypeOK ==
    /\ log \in Seq(Entries \cup {Newline, Scrap})
    /\ Len(log) <= 2 * Cardinality(used)
    /\ pc \in [Threads -> {"idle", "opening", "writing", "closing"}]
    /\ entry \in [Threads -> Entries \cup {Nothing}]
    /\ acked \subseteq used /\ thrown \subseteq used /\ used \subseteq Entries
    /\ mishaps \in Nat

Init ==
    /\ log = << >>
    /\ pc = [t \in Threads |-> "idle"]
    /\ entry = [t \in Threads |-> Nothing]
    /\ used = {}
    /\ acked = {}
    /\ thrown = {}
    /\ mishaps = 0

Go(t, step) == pc' = [pc EXCEPT ![t] = step]

Leave(t) ==
    /\ Go(t, "idle")
    /\ entry' = [entry EXCEPT ![t] = Nothing]

Throw(t) ==
    /\ thrown' = thrown \cup {entry[t]}
    /\ Leave(t)

BeginAppend(t, e) ==
    /\ pc[t] = "idle"
    /\ e \notin used
    /\ used' = used \cup {e}
    /\ entry' = [entry EXCEPT ![t] = e]
    /\ Go(t, "opening")
    /\ UNCHANGED <<log, acked, thrown, mishaps>>

Open(t) ==
    /\ pc[t] = "opening"
    /\ Go(t, "writing")
    /\ UNCHANGED <<log, entry, used, acked, thrown, mishaps>>

\* "failed to open log file for append"
OpenFails(t) ==
    /\ pc[t] = "opening"
    /\ Throw(t)
    /\ UNCHANGED <<log, used, acked, mishaps>>

\* dump throws on a message or field that is not UTF-8; nothing has been written.
DumpThrows(t) ==
    /\ pc[t] = "writing"
    /\ Throw(t)
    /\ UNCHANGED <<log, used, acked, mishaps>>

\* Does the text of the entry leave the buffer before the stream is closed?
WrittenAtOnce(e) == e \in Long

\* The text has been written and the newline not yet.
MidLine(t) == pc[t] = "closing" /\ WrittenAtOnce(entry[t])

\* A write, on a line that somebody else has begun if there is one.
AppendToLog(t, texts) ==
    /\ log' = log \o texts
    /\ mishaps' = mishaps + (IF \E u \in Threads \ {t} : MidLine(u) THEN 1 ELSE 0)

\* output << text << '\n': the text of a long entry is written, the rest buffered.
Write(t) ==
    /\ pc[t] = "writing"
    /\ IF WrittenAtOnce(entry[t]) THEN AppendToLog(t, <<entry[t]>>)
                                  ELSE UNCHANGED <<log, mishaps>>
    /\ Go(t, "closing")
    /\ UNCHANGED <<entry, used, acked, thrown>>

\* A write of some text on a full device leaves nothing, or a part of it.
BrokenWrite(text) ==
    /\ "full" \in Faults
    /\ log' \in {log} \cup (IF text = <<Newline>> THEN {} ELSE {Append(log, Scrap)})
    /\ mishaps' = mishaps + 1

\* Mutant: the newline is flushed with the text, which is there when that fails.
WriteFails_Flushed(t) ==
    /\ pc[t] = "writing"
    /\ "full" \in Faults
    /\ AppendToLog(t, <<entry[t]>>)
    /\ Throw(t)
    /\ UNCHANGED <<used, acked>>

\* "failed to append log file": only a write made before the check can fail it.
WriteFails(t) ==
    /\ pc[t] = "writing"
    /\ WrittenAtOnce(entry[t])
    /\ BrokenWrite(<<entry[t]>>)
    /\ Throw(t)
    /\ UNCHANGED <<used, acked>>

\* Mutant: no newline is written after the text.
Buffered_NoNewline(e) == IF WrittenAtOnce(e) THEN << >> ELSE <<e>>

\* Mutant: a newline and std::endl, for an empty line after every entry.
Buffered_BlankLine(e) ==
    IF WrittenAtOnce(e) THEN <<Newline, Newline>> ELSE <<e, Newline, Newline>>

Buffered(e) == IF WrittenAtOnce(e) THEN <<Newline>> ELSE <<e, Newline>>

\* The destructor writes what is buffered, after append has looked at the stream.
CloseStream(t) ==
    /\ pc[t] = "closing"
    /\ \/ AppendToLog(t, Buffered(entry[t]))
       \/ BrokenWrite(Buffered(entry[t]))
    /\ acked' = acked \cup {entry[t]}
    /\ Leave(t)
    /\ UNCHANGED <<used, thrown>>

Crash(t) ==
    /\ "crash" \in Faults
    /\ pc[t] # "idle"
    /\ Leave(t)
    /\ mishaps' = mishaps + (IF MidLine(t) THEN 1 ELSE 0)
    /\ UNCHANGED <<log, used, acked, thrown>>

Next ==
    \E t \in Threads :
        \/ \E e \in Entries : BeginAppend(t, e)
        \/ Open(t) \/ OpenFails(t)
        \/ DumpThrows(t) \/ Write(t) \/ WriteFails(t)
        \/ CloseStream(t)
        \/ Crash(t)

Spec == Init /\ [][Next]_vars

-----------------------------------------------------------------------------

\* The text at position i is alone on its line.
OnItsOwnLine(i) ==
    /\ i = 1 \/ log[i - 1] = Newline
    /\ i < Len(log) /\ log[i + 1] = Newline

Readable(e) ==
    \E i \in DOMAIN log :
        /\ log[i] = e /\ OnItsOwnLine(i)
        /\ \A j \in DOMAIN log : log[j] = e => j = i

(***************************************************************************)
(* Damage does not spread: a write that fails, a logger that dies between  *)
(* the two writes of an entry, or a write between those of another logger, *)
(* costs at most two entries whose append returned; without any of them    *)
(* the log reads as JSON lines and loses nothing it was told, whoever else *)
(* was logging.                                                            *)
(***************************************************************************)
DamageIsLocal == Cardinality({e \in acked : ~ Readable(e)}) <= 2 * mishaps

(***************************************************************************)
(* An append that throws has left no whole text of its entry in the log,   *)
(* and none appears later, whatever the other loggers do: the caller knows *)
(* that the entry is lost, and logging it again cannot make it appear      *)
(* twice.  (A scrap of it may be there.)                                   *)
(***************************************************************************)
ThrownMeansAbsent == \A e \in thrown : \A i \in DOMAIN log : log[i] # e
=============================================================================
