------------------------------ MODULE JsonFile ------------------------------
(***************************************************************************)
(* write_json_file and read_json_file, call by call on the file system.    *)
(* The document at path is replaced by writing path.tmp and renaming it;   *)
(* when the rename fails, path is removed and the rename tried again.      *)
(* json_persistence.cpp and credential_store.cpp hold the same code, for   *)
(* settings, reminder state, event cache and credentials; clear is         *)
(* PlaintextCredentialStore's.                                             *)
(*                                                                         *)
(* A document is one value.  A file that has been truncated and not        *)
(* written to its end is Torn: `input >> json` throws on it.  Processes    *)
(* may end at any step; the file system itself survives.                   *)
(***************************************************************************)
CONSTANTS
    Procs,      \* the processes that use the document
    Writers,    \* those among them that save or clear it
    Docs,       \* documents
    Inodes,     \* files
    Faults,     \* which calls may fail besides opening and writing path.tmp
    Missing,    \* read_json_file's nullopt: the caller's defaults
    Torn,       \* contents that are not a whole document
    None        \* no file

ASSUME FileAssumption ==
    /\ Writers \subseteq Procs
    /\ Missing \notin Docs
    /\ Torn \notin Docs
    /\ Torn # Missing
    /\ None \notin Inodes
    /\ Faults \subseteq {"close", "rename", "open"}

Steps == {"idle", "opening", "writing", "closing", "renaming", "removing",
          "renaming again", "reading"}

VARIABLES
    path,       \* the file the document's name stands for, or None
    tmp,        \* the same for the name with .tmp appended
    data,       \* the contents of the files
    pc,         \* the call each process is about to make
    fd,         \* the file it has open
    doc,        \* the document it is saving
    acked,      \* the document of the last save or clear that returned
    pending,    \* those of saves and clears begun since that did not return
    failed      \* which of Faults have occurred

files == <<path, tmp, data>>
vars == <<path, tmp, data, pc, fd, doc, acked, pending, failed>>

TypeOK ==
    /\ path \in Inodes \cup {None}
    /\ tmp \in Inodes \cup {None}
    /\ data \in [Inodes -> Docs \cup {Torn}]
    /\ pc \in [Procs -> Steps]
    /\ fd \in [Procs -> Inodes \cup {None}]
    /\ doc \in [Procs -> Docs \cup {Missing}]
    /\ acked \in Docs \cup {Missing}
    /\ pending \subseteq Docs \cup {Missing}
    /\ failed \subseteq Faults

Init ==
    /\ path = None
    /\ tmp = None
    /\ data = [i \in Inodes |-> Torn]
    /\ pc = [p \in Procs |-> "idle"]
    /\ fd = [p \in Procs |-> None]
    /\ doc = [p \in Procs |-> Missing]
    /\ acked = Missing
    /\ pending = {}
    /\ failed = {}

Go(p, step) == pc' = [pc EXCEPT ![p] = step]

\* The call returns, throws or dies with its process: its stream is closed.
Done(p) ==
    /\ Go(p, "idle")
    /\ fd' = [fd EXCEPT ![p] = None]
    /\ doc' = [doc EXCEPT ![p] = Missing]

\* A call returns normally, having made the document d (or Missing); only the
\* saves other processes are in the middle of may still change it.
Acknowledge(p, d) ==
    /\ acked' = d
    /\ pending' = {doc[q] : q \in {r \in Procs \ {p} : pc[r] \notin {"idle", "reading"}}}

\* A fault of the environment, remembered.
Fails(fault) == fault \in Faults /\ failed' = failed \cup {fault}

Throw(p) == Done(p) /\ UNCHANGED <<acked, pending, failed>>

-----------------------------------------------------------------------------

Save(p, d) ==
    /\ pc[p] = "idle"
    /\ Go(p, "opening")
    /\ doc' = [doc EXCEPT ![p] = d]
    /\ pending' = pending \cup {d}
    /\ UNCHANGED <<files, fd, acked, failed>>

\* A file nobody names and nobody has open.
Unused == Inodes \ ({path, tmp} \cup {fd[p] : p \in Procs})

\* Mutants: the document itself is opened; path.tmp is opened without trunc.
OpenTmp_InPlace(p) ==
    /\ pc[p] = "opening"
    /\ \E i \in IF path = None THEN Unused ELSE {path} :
        /\ path' = i
        /\ data' = [data EXCEPT ![i] = Torn]
        /\ fd' = [fd EXCEPT ![p] = i]
    /\ Go(p, "writing")
    /\ UNCHANGED <<tmp, doc, acked, pending, failed>>

OpenTmp_NotTruncated(p) ==
    /\ pc[p] = "opening"
    /\ \E i \in IF tmp = None THEN Unused ELSE {tmp} :
        /\ tmp' = i
        /\ fd' = [fd EXCEPT ![p] = i]
    /\ Go(p, "writing")
    /\ UNCHANGED <<path, data, doc, acked, pending, failed>>

\* Opening path.tmp for writing truncates the file it names, or creates one.
OpenTmp(p) ==
    /\ pc[p] = "opening"
    /\ \E i \in IF tmp = None THEN Unused ELSE {tmp} :
        /\ tmp' = i
        /\ data' = [data EXCEPT ![i] = Torn]
        /\ fd' = [fd EXCEPT ![p] = i]
    /\ Go(p, "writing")
    /\ UNCHANGED <<path, doc, acked, pending, failed>>

OpenTmpFails(p) ==
    /\ pc[p] = "opening"
    /\ Throw(p)
    /\ UNCHANGED files

\* The serialized text goes to the stream's buffer, and what does not fit there
\* to the file; dump, or a write, may fail, and then the call throws.
Write(p) ==
    /\ pc[p] = "writing"
    /\ Go(p, "closing")
    /\ UNCHANGED <<files, fd, doc, acked, pending, failed>>

\* Mutant: the error is not thrown.
WriteFails_Swallowed(p) ==
    /\ pc[p] = "writing"
    /\ fd' = [fd EXCEPT ![p] = None]
    /\ Go(p, "renaming")
    /\ UNCHANGED <<files, doc, acked, pending, failed>>

WriteFails(p) ==
    /\ pc[p] = "writing"
    /\ Throw(p)
    /\ UNCHANGED files

\* The stream's destructor writes the rest of the buffer.  Nobody looks at the
\* outcome: with the fault "close" the rename goes ahead on a Torn file.
Close(p) ==
    /\ pc[p] = "closing"
    /\ \/ data' = [data EXCEPT ![fd[p]] = doc[p]] /\ UNCHANGED failed
       \/ Fails("close") /\ UNCHANGED data
    /\ fd' = [fd EXCEPT ![p] = None]
    /\ Go(p, "renaming")
    /\ UNCHANGED <<path, tmp, doc, acked, pending>>

MoveTmp ==
    /\ tmp # None
    /\ path' = tmp
    /\ tmp' = None
    /\ UNCHANGED data

Rename(p) ==
    /\ pc[p] = "renaming"
    /\ MoveTmp
    /\ Acknowledge(p, doc[p])
    /\ Done(p)
    /\ UNCHANGED failed

\* Mutant: the document is removed before the first rename, not after it failed.
RenameFails_RemoveFirst(p) ==
    /\ pc[p] = "renaming"
    /\ Go(p, "removing")
    /\ UNCHANGED <<files, fd, doc, acked, pending, failed>>

RenameFails(p) ==
    /\ pc[p] = "renaming"
    /\ \/ tmp = None /\ UNCHANGED failed
       \/ Fails("rename")
    /\ Go(p, "removing")
    /\ UNCHANGED <<files, fd, doc, acked, pending>>

\* Removing a name that is not there is no error.
RemovePath(p) ==
    /\ pc[p] = "removing"
    /\ path' = None
    /\ Go(p, "renaming again")
    /\ UNCHANGED <<tmp, data, fd, doc, acked, pending, failed>>

RemovePathFails(p) ==
    /\ pc[p] = "removing"
    /\ Throw(p)
    /\ UNCHANGED files

RenameAgain(p) ==
    /\ pc[p] = "renaming again"
    /\ MoveTmp
    /\ Acknowledge(p, doc[p])
    /\ Done(p)
    /\ UNCHANGED failed

RenameAgainFails(p) ==
    /\ pc[p] = "renaming again"
    /\ Throw(p)
    /\ UNCHANGED files

-----------------------------------------------------------------------------

\* Mutant: the wrong file is removed.
Clear_Temporary(p) ==
    /\ pc[p] = "idle"
    /\ tmp' = None
    /\ Acknowledge(p, Missing)
    /\ UNCHANGED <<path, data, pc, fd, doc, failed>>

\* PlaintextCredentialStore::clear removes path, not path.tmp (or it throws and
\* changes nothing).
Clear(p) ==
    /\ pc[p] = "idle"
    /\ path' = None
    /\ Acknowledge(p, Missing)
    /\ UNCHANGED <<tmp, data, pc, fd, doc, failed>>

\* A load that finds no file returns at once; one that does reads it to the end.
LoadOpen(p) ==
    /\ pc[p] = "idle"
    /\ Go(p, "reading")
    /\ fd' = [fd EXCEPT ![p] = path]
    /\ UNCHANGED <<files, doc, acked, pending, failed>>

\* A file that is there and cannot be opened is taken for one that is not.
LoadOpenFails(p) ==
    /\ pc[p] = "idle"
    /\ Fails("open")
    /\ Go(p, "reading")
    /\ UNCHANGED <<files, fd, doc, acked, pending>>

\* The document is returned, or a Torn one throws.
LoadRead(p) ==
    /\ pc[p] = "reading"
    /\ Throw(p)
    /\ UNCHANGED files

Crash(p) ==
    /\ pc[p] # "idle"
    /\ Throw(p)
    /\ UNCHANGED files

Next ==
    \E p \in Procs :
        \/ p \in Writers /\ ((\E d \in Docs : Save(p, d)) \/ Clear(p))
        \/ OpenTmp(p) \/ OpenTmpFails(p)
        \/ Write(p) \/ WriteFails(p)
        \/ Close(p)
        \/ Rename(p) \/ RenameFails(p)
        \/ RemovePath(p) \/ RemovePathFails(p)
        \/ RenameAgain(p) \/ RenameAgainFails(p)
        \/ LoadOpen(p) \/ LoadOpenFails(p) \/ LoadRead(p)
        \/ Crash(p)

Spec == Init /\ [][Next]_vars

-----------------------------------------------------------------------------

\* What the document's name stands for now: what the next start would load.
Visible == IF path = None THEN Missing ELSE data[path]

(***************************************************************************)
(* Neither the document nor a file a load has already opened is ever half  *)
(* written: no interleaving of a save with a load, no failed rename and no *)
(* end of the process makes read_json_file throw on a partial document.    *)
(* Only a flush that fails unnoticed does.                                 *)
(***************************************************************************)
NoTornRead ==
    "close" \notin failed =>
        /\ Visible # Torn
        /\ \A p \in Procs : pc[p] = "reading" /\ fd[p] # None => data[fd[p]] # Torn

(***************************************************************************)
(* "Fired reminder state persists across restarts", as the roadmap has it: *)
(* when no process is in a call, the document is what the last save (or    *)
(* clear) to return made it, or what a later save that did not return      *)
(* wanted it to be.                                                        *)
(***************************************************************************)
StatePersists ==
    (\A p \in Procs : pc[p] = "idle") => Visible \in {acked} \cup pending

(***************************************************************************)
(* What a restart finds: the same, as long as the file system flushes and  *)
(* renames what it is asked to - whatever ends or throws in between.       *)
(***************************************************************************)
SavedStateSurvives == failed \cap {"close", "rename"} = {} => StatePersists

(***************************************************************************)
(* "failed to write JSON file": write_json_file throws when it cannot      *)
(* write, so after a normal return, and until the next save begins, the    *)
(* document is the one that was saved.                                     *)
(***************************************************************************)
SaveReportsFailure == pending = {} => Visible = acked

(***************************************************************************)
(* A save that returns has written, as long as no flush fails: also when   *)
(* it had to fall back to removing the document and renaming again.        *)
(***************************************************************************)
AckedIsWritten == "close" \notin failed => SaveReportsFailure

(***************************************************************************)
(* Whatever fails, no save or clear that returned is undone: the document  *)
(* may be lost or torn, but it never goes back to contents older than the  *)
(* last acknowledged ones (a .tmp file left by a crash is not picked up by *)
(* a later save).                                                          *)
(***************************************************************************)
NeverReverts == Visible \in {acked, Missing, Torn} \cup pending

(***************************************************************************)
(* With one writer, the calls on path and path.tmp implement a document    *)
(* that changes in one step: the rename is the moment a save takes effect, *)
(* the open that of a load.  A flush, a rename and an open that fail are   *)
(* the failures DocumentRegister names.                                    *)
(***************************************************************************)
Retrying == {"removing", "renaming again"}

Register ==
    INSTANCE DocumentRegister WITH
        value <- Visible,
        call <- [p \in Procs |->
                    IF pc[p] = "idle" THEN "idle"
                    ELSE IF pc[p] = "reading" THEN "loading"
                    ELSE IF pc[p] \in Retrying THEN "replacing" ELSE "saving"],
        arg <- [p \in Procs |->
                    IF pc[p] = "reading" /\ fd[p] # None THEN data[fd[p]]
                    ELSE IF pc[p] \in {"renaming"} \cup Retrying /\ tmp # None THEN data[tmp]
                    ELSE doc[p]]

Implements == Register!Spec
=============================================================================
