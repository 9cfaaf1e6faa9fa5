-------------------------- MODULE DocumentRegister --------------------------
(***************************************************************************)
(* What one persisted document (settings, reminder state, event cache or   *)
(* credentials) promises the program: save replaces it in one step or not  *)
(* at all, load returns what it was at some instant of the call, clear     *)
(* removes it.  A reported failure or the end of the process leaves the    *)
(* whole old document or the whole new one.                                *)
(*                                                                         *)
(* Three faults weaken the promise: a flush that fails makes a save take   *)
(* effect with a Torn document, a rename that fails makes the old document *)
(* go before the new one is there, and a document that cannot be opened is *)
(* loaded as Missing.                                                      *)
(***************************************************************************)
CONSTANTS
    Procs,      \* the processes that use the document
    Docs,       \* its possible contents
    Missing,    \* what load makes of a document that is not there
    Torn,       \* a document no load can read: it throws
    Faults      \* which of "close", "rename" and "open" may fail

VARIABLES
    value,      \* the document, or Missing, or Torn
    call,       \* what each process is doing
    arg,        \* the document it is saving, or the one it has loaded
    failed      \* the faults that have occurred

vars == <<value, call, arg, failed>>

TypeOK ==
    /\ value \in Docs \cup {Missing, Torn}
    /\ call \in [Procs -> {"idle", "saving", "replacing", "loading"}]
    /\ arg \in [Procs -> Docs \cup {Missing, Torn}]
    /\ failed \subseteq Faults

Init ==
    /\ value \in Docs \cup {Missing}
    /\ call = [p \in Procs |-> "idle"]
    /\ arg = [p \in Procs |-> Missing]
    /\ failed = {}

Fails(fault) == fault \in Faults /\ failed' = failed \cup {fault}

Save(p, doc) ==
    /\ call[p] = "idle"
    /\ call' = [call EXCEPT ![p] = "saving"]
    /\ arg' = [arg EXCEPT ![p] = doc]
    /\ UNCHANGED <<value, failed>>

\* The save takes effect, and returns.
Commit(p) ==
    /\ call[p] \in {"saving", "replacing"}
    /\ value' = arg[p]
    /\ call' = [call EXCEPT ![p] = "idle"]
    /\ arg' = [arg EXCEPT ![p] = Missing]
    /\ UNCHANGED failed

\* The document to be saved is not written out, and nobody notices.
Spoil(p) ==
    /\ call[p] = "saving"
    /\ Fails("close")
    /\ arg' = [arg EXCEPT ![p] = Torn]
    /\ UNCHANGED <<value, call>>

\* The old document cannot be replaced; it is removed to make room.
Stumble(p) ==
    /\ call[p] = "saving"
    /\ Fails("rename")
    /\ call' = [call EXCEPT ![p] = "replacing"]
    /\ UNCHANGED <<value, arg>>

Vanish(p) ==
    /\ call[p] = "replacing"
    /\ value' = Missing
    /\ UNCHANGED <<call, arg, failed>>

Load(p) ==
    /\ call[p] = "idle"
    /\ call' = [call EXCEPT ![p] = "loading"]
    /\ \/ arg' = [arg EXCEPT ![p] = value] /\ UNCHANGED failed
       \/ Fails("open") /\ UNCHANGED arg
    /\ UNCHANGED value

\* A load returns; a call fails; the process ends.
Leave(p) ==
    /\ call[p] # "idle"
    /\ call' = [call EXCEPT ![p] = "idle"]
    /\ arg' = [arg EXCEPT ![p] = Missing]
    /\ UNCHANGED <<value, failed>>

Clear(p) ==
    /\ call[p] = "idle"
    /\ value' = Missing
    /\ UNCHANGED <<call, arg, failed>>

Next ==
    \E p \in Procs :
        \/ \E doc \in Docs : Save(p, doc)
        \/ Commit(p)
        \/ Spoil(p) \/ Stumble(p) \/ Vanish(p)
        \/ Load(p)
        \/ Leave(p)
        \/ Clear(p)

Spec == Init /\ [][Next]_vars
=============================================================================
