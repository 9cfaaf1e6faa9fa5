--------------------------- MODULE JsonFileProofs ---------------------------
(***************************************************************************)
(* JsonFile, when one process saves the document, for any number of        *)
(* readers, documents and files and whatever calls fail: what is on disk   *)
(* is the last acknowledged document unless a named fault has occurred,    *)
(* and the calls implement DocumentRegister.                               *)
(***************************************************************************)
EXTENDS JsonFile, TLAPS

Saving == {"opening", "writing", "closing", "renaming"} \cup Retrying

\* Where every call stands: only a writer saves, and what it has open and holds.
CallShape ==
    \A p \in Procs :
        /\ pc[p] \in {"idle", "reading"} \cup Saving
        /\ pc[p] \in Saving => p \in Writers /\ doc[p] \in Docs /\ pending # {}
        /\ pc[p] \in {"idle", "reading"} => doc[p] = Missing
        /\ pc[p] \in {"idle", "opening", "renaming"} \cup Retrying => fd[p] = None
        /\ pc[p] \in {"writing", "closing"} => tmp # None /\ fd[p] = tmp /\ data[tmp] = Torn
        /\ pc[p] \in {"renaming"} \cup Retrying =>
              /\ tmp # None
              /\ data[tmp] = doc[p] \/ ("close" \in failed /\ data[tmp] = Torn)
        /\ pc[p] \in Retrying => "rename" \in failed

\* The file being written is neither the document nor one a load has open.
TmpIsPrivate ==
    /\ path # None => path # tmp
    /\ \A p \in Procs : pc[p] = "reading" /\ fd[p] # None => fd[p] # tmp

\* The document is the acknowledged one, or a fault has hit it.
Document ==
    \/ Visible = acked
    \/ "close" \in failed /\ Visible = Torn
    \/ "rename" \in failed /\ Visible = Missing /\ pending # {}

SInv ==
    /\ TypeOK
    /\ CallShape
    /\ TmpIsPrivate
    /\ NoTornRead
    /\ Document

SingleWriter == \A p, q \in Writers : p = q

-----------------------------------------------------------------------------

LEMMA FileInit == Init => SInv
<1> SUFFICES ASSUME Init PROVE SInv
  OBVIOUS
<1> USE FileAssumption
<1>1. TypeOK
  BY DEF Init, TypeOK, Steps
<1>2. CallShape
  BY DEF Init, CallShape, Saving, Retrying
<1>3. TmpIsPrivate /\ NoTornRead /\ Document
  BY DEF Init, TmpIsPrivate, NoTornRead, Document, Visible
<1> QED
  BY <1>1, <1>2, <1>3 DEF SInv

\* A call that ends without having touched the file system.
LEMMA ThrowStep ==
    ASSUME SInv, NEW p \in Procs, Throw(p), UNCHANGED files
    PROVE  SInv'
<1> USE FileAssumption
<1>1. TypeOK'
  BY DEF SInv, TypeOK, Throw, Done, Go, files, Steps
<1>2. CallShape'
  BY DEF SInv, TypeOK, CallShape, Throw, Done, Go, files, Saving, Retrying
<1>3. TmpIsPrivate'
  BY DEF SInv, TypeOK, TmpIsPrivate, Throw, Done, Go, files
<1>4. NoTornRead' /\ Document'
  BY DEF SInv, TypeOK, NoTornRead, Document, Visible, Throw, Done, Go, files
<1> QED
  BY <1>1, <1>2, <1>3, <1>4 DEF SInv

LEMMA SaveStep ==
    ASSUME SInv, NEW p \in Writers, NEW d \in Docs, Save(p, d)
    PROVE  SInv'
<1> USE FileAssumption
<1>1. TypeOK'
  BY DEF SInv, TypeOK, Save, Go, files, Steps
<1>2. CallShape'
  BY DEF SInv, TypeOK, CallShape, Save, Go, files, Saving, Retrying
<1>3. TmpIsPrivate'
  BY DEF SInv, TypeOK, TmpIsPrivate, Save, Go, files
<1>4. NoTornRead' /\ Document'
  BY DEF SInv, TypeOK, NoTornRead, Document, Visible, Save, Go, files
<1> QED
  BY <1>1, <1>2, <1>3, <1>4 DEF SInv

LEMMA OpenTmpStep ==
    ASSUME SInv, SingleWriter, NEW p \in Procs, OpenTmp(p)
    PROVE  SInv'
<1> USE FileAssumption
<1>0. PICK i \in IF tmp = None THEN Unused ELSE {tmp} :
          tmp' = i /\ data' = [data EXCEPT ![i] = Torn] /\ fd' = [fd EXCEPT ![p] = i]
  BY DEF OpenTmp
<1>1. /\ i \in Inodes /\ i # None
      /\ i # path
      /\ \A q \in Procs : pc[q] = "reading" => fd[q] # i
  <2>1. CASE tmp = None
    BY <1>0, <2>1 DEF Unused
  <2>2. CASE tmp # None
    BY <1>0, <2>2 DEF SInv, TypeOK, TmpIsPrivate
  <2> QED
    BY <2>1, <2>2
<1>2. \A q \in Procs : q # p => pc[q] \in {"idle", "reading"}
  BY DEF SInv, CallShape, OpenTmp, SingleWriter, Saving, Retrying
<1>3. TypeOK'
  BY <1>0, <1>1 DEF SInv, TypeOK, OpenTmp, Go, Steps
<1>4. CallShape'
  BY <1>0, <1>1, <1>2 DEF SInv, TypeOK, CallShape, OpenTmp, Go, Saving, Retrying
<1>5. TmpIsPrivate'
  BY <1>0, <1>1, <1>2 DEF SInv, TypeOK, TmpIsPrivate, OpenTmp, Go
<1>6. NoTornRead' /\ Document'
  BY <1>0, <1>1, <1>2 DEF SInv, TypeOK, NoTornRead, Document, Visible, OpenTmp, Go
<1> QED
  BY <1>3, <1>4, <1>5, <1>6 DEF SInv

LEMMA WriteStep ==
    ASSUME SInv, NEW p \in Procs, Write(p)
    PROVE  SInv'
<1> USE FileAssumption
<1>1. TypeOK'
  BY DEF SInv, TypeOK, Write, Go, files, Steps
<1>2. CallShape'
  BY DEF SInv, TypeOK, CallShape, Write, Go, files, Saving, Retrying
<1>3. TmpIsPrivate'
  BY DEF SInv, TypeOK, TmpIsPrivate, Write, Go, files
<1>4. NoTornRead' /\ Document'
  BY DEF SInv, TypeOK, NoTornRead, Document, Visible, Write, Go, files
<1> QED
  BY <1>1, <1>2, <1>3, <1>4 DEF SInv

LEMMA CloseStep ==
    ASSUME SInv, SingleWriter, NEW p \in Procs, Close(p)
    PROVE  SInv'
<1> USE FileAssumption
<1>0. /\ tmp # None /\ fd[p] = tmp /\ doc[p] \in Docs
      /\ \/ data' = [data EXCEPT ![tmp] = doc[p]] /\ failed' = failed
         \/ "close" \in Faults /\ failed' = failed \cup {"close"} /\ data' = data
  BY DEF SInv, CallShape, Saving, Close, Fails
<1>1. \A q \in Procs : q # p => pc[q] \in {"idle", "reading"}
  BY DEF SInv, CallShape, Close, SingleWriter, Saving, Retrying
<1>2. TypeOK'
  BY <1>0 DEF SInv, TypeOK, Close, Go, Steps
<1>3. CallShape'
  <2>1. data'[tmp] = doc[p] \/ ("close" \in failed' /\ data'[tmp] \in {doc[p], Torn})
    <3>1. CASE data' = [data EXCEPT ![tmp] = doc[p]]
      BY <1>0, <3>1 DEF SInv, TypeOK
    <3>2. CASE "close" \in failed' /\ data' = data
      BY <1>0, <3>2 DEF SInv, CallShape, Close
    <3> QED
      BY <1>0, <3>1, <3>2
  <2> QED
    BY <1>0, <1>1, <2>1 DEF SInv, TypeOK, CallShape, Close, Go, Saving, Retrying
<1>4. TmpIsPrivate'
  BY <1>0, <1>1 DEF SInv, TypeOK, TmpIsPrivate, Close, Go
<1>5. NoTornRead'
  BY <1>0, <1>1 DEF SInv, TypeOK, TmpIsPrivate, NoTornRead, Visible, Close, Go
<1>6. Document'
  <2>1. Visible' = Visible /\ acked' = acked /\ pending' = pending /\ failed \subseteq failed'
    BY <1>0 DEF SInv, TypeOK, TmpIsPrivate, Visible, Close
  <2> QED
    BY <2>1 DEF SInv, Document
<1> QED
  BY <1>2, <1>3, <1>4, <1>5, <1>6 DEF SInv

\* The first rename, and the one after the document was removed.
LEMMA RenameStep ==
    ASSUME SInv, SingleWriter, NEW p \in Procs, Rename(p) \/ RenameAgain(p)
    PROVE  SInv'
<1> USE FileAssumption
<1>0. /\ tmp # None /\ doc[p] \in Docs
      /\ data[tmp] = doc[p] \/ ("close" \in failed /\ data[tmp] = Torn)
  BY DEF SInv, CallShape, Saving, Retrying, Rename, RenameAgain
<1>1. \A q \in Procs : q # p => pc[q] \in {"idle", "reading"}
  BY DEF SInv, CallShape, Rename, RenameAgain, SingleWriter, Saving, Retrying
<1>2. /\ path' = tmp /\ tmp' = None /\ data' = data /\ failed' = failed
      /\ pc' = [pc EXCEPT ![p] = "idle"]
      /\ fd' = [fd EXCEPT ![p] = None]
      /\ doc' = [doc EXCEPT ![p] = Missing]
      /\ acked' = doc[p]
      /\ pending' = {doc[q] : q \in {r \in Procs \ {p} : pc[r] \notin {"idle", "reading"}}}
  BY DEF Rename, RenameAgain, MoveTmp, Acknowledge, Done, Go
<1>3. TypeOK'
  <2>1. pending' \subseteq Docs \cup {Missing} /\ acked' \in Docs
    BY <1>0, <1>2 DEF SInv, TypeOK
  <2>2. /\ pc' \in [Procs -> Steps] /\ fd' \in [Procs -> Inodes \cup {None}]
        /\ doc' \in [Procs -> Docs \cup {Missing}]
    BY <1>2 DEF SInv, TypeOK, Steps
  <2> QED
    BY <1>0, <1>2, <2>1, <2>2 DEF SInv, TypeOK
<1>4. CallShape'
  BY <1>0, <1>1, <1>2 DEF SInv, TypeOK, CallShape, Saving, Retrying
<1>5. TmpIsPrivate'
  BY <1>0, <1>1, <1>2 DEF SInv, TypeOK, TmpIsPrivate
<1>6. NoTornRead' /\ Document'
  <2>1. \A q \in Procs : pc'[q] = "reading" => pc[q] = "reading" /\ fd'[q] = fd[q]
    BY <1>2 DEF SInv, TypeOK
  <2>2. Visible' = data[tmp]
    BY <1>0, <1>2 DEF Visible
  <2> QED
    BY <1>0, <1>2, <2>1, <2>2 DEF SInv, NoTornRead, Document
<1> QED
  BY <1>3, <1>4, <1>5, <1>6 DEF SInv

LEMMA RenameFailsStep ==
    ASSUME SInv, NEW p \in Procs, RenameFails(p)
    PROVE  SInv'
<1> USE FileAssumption
<1>0. /\ UNCHANGED <<path, tmp, data, fd, doc, acked, pending>>
      /\ pc[p] = "renaming" /\ pc' = [pc EXCEPT ![p] = "removing"]
      /\ "rename" \in Faults /\ failed' = failed \cup {"rename"}
  BY DEF SInv, CallShape, RenameFails, Go, Fails, files
<1>1. TypeOK'
  BY <1>0 DEF SInv, TypeOK, Steps
<1>2. CallShape'
  BY <1>0 DEF SInv, TypeOK, CallShape, Saving, Retrying
<1>3. TmpIsPrivate'
  BY <1>0 DEF SInv, TypeOK, TmpIsPrivate
<1>4. NoTornRead' /\ Document'
  BY <1>0 DEF SInv, TypeOK, NoTornRead, Document, Visible
<1> QED
  BY <1>1, <1>2, <1>3, <1>4 DEF SInv

LEMMA RemovePathStep ==
    ASSUME SInv, NEW p \in Procs, RemovePath(p)
    PROVE  SInv'
<1> USE FileAssumption
<1>0. /\ UNCHANGED <<tmp, data, fd, doc, acked, pending, failed>>
      /\ path' = None
      /\ pc[p] = "removing" /\ pc' = [pc EXCEPT ![p] = "renaming again"]
      /\ "rename" \in failed /\ pending # {}
  BY DEF SInv, CallShape, RemovePath, Go, Saving, Retrying
<1>1. TypeOK'
  BY <1>0 DEF SInv, TypeOK, Steps
<1>2. CallShape'
  BY <1>0 DEF SInv, TypeOK, CallShape, Saving, Retrying
<1>3. TmpIsPrivate'
  BY <1>0 DEF SInv, TypeOK, TmpIsPrivate
<1>4. NoTornRead' /\ Document'
  BY <1>0 DEF SInv, TypeOK, NoTornRead, Document, Visible
<1> QED
  BY <1>1, <1>2, <1>3, <1>4 DEF SInv

LEMMA ClearStep ==
    ASSUME SInv, SingleWriter, NEW p \in Writers, Clear(p)
    PROVE  SInv'
<1> USE FileAssumption
<1>0. \A q \in Procs : pc[q] \in {"idle", "reading"}
  BY ZenonT(30) DEF SInv, CallShape, Clear, SingleWriter, Saving, Retrying
<1>1. TypeOK'
  BY DEF SInv, TypeOK, Clear, Acknowledge
<1>2. CallShape' /\ TmpIsPrivate'
  BY <1>0 DEF SInv, CallShape, TmpIsPrivate, Clear, Saving, Retrying
<1>3. NoTornRead' /\ Document'
  BY DEF SInv, NoTornRead, Document, Visible, Clear, Acknowledge
<1> QED
  BY <1>1, <1>2, <1>3 DEF SInv

\* A load reads the document, or takes it for one that is not there.
LEMMA LoadOpenStep ==
    ASSUME SInv, NEW p \in Procs, LoadOpen(p) \/ LoadOpenFails(p)
    PROVE  SInv'
<1> USE FileAssumption
<1>0. /\ UNCHANGED <<path, tmp, data, doc, acked, pending>>
      /\ pc[p] = "idle" /\ pc' = [pc EXCEPT ![p] = "reading"]
      /\ \/ fd' = [fd EXCEPT ![p] = path] /\ failed' = failed
         \/ "open" \in Faults /\ fd' = fd /\ failed' = failed \cup {"open"}
  BY DEF LoadOpen, LoadOpenFails, Go, Fails, files
<1>1. TypeOK'
  BY <1>0 DEF SInv, TypeOK, Steps
<1>2. CallShape'
  BY <1>0 DEF SInv, TypeOK, CallShape, Saving, Retrying
<1>3. TmpIsPrivate'
  BY <1>0 DEF SInv, TypeOK, CallShape, TmpIsPrivate
<1>4. NoTornRead' /\ Document'
  BY <1>0 DEF SInv, TypeOK, CallShape, NoTornRead, Document, Visible
<1> QED
  BY <1>1, <1>2, <1>3, <1>4 DEF SInv

LEMMA FileStep == ASSUME SingleWriter PROVE SInv /\ [Next]_vars => SInv'
<1> SUFFICES ASSUME SInv, [Next]_vars PROVE SInv'
  OBVIOUS
<1>1. ASSUME NEW p \in Procs,
             \/ p \in Writers /\ ((\E d \in Docs : Save(p, d)) \/ Clear(p))
             \/ OpenTmp(p) \/ OpenTmpFails(p)
             \/ Write(p) \/ WriteFails(p)
             \/ Close(p)
             \/ Rename(p) \/ RenameFails(p)
             \/ RemovePath(p) \/ RemovePathFails(p)
             \/ RenameAgain(p) \/ RenameAgainFails(p)
             \/ LoadOpen(p) \/ LoadOpenFails(p) \/ LoadRead(p)
             \/ Crash(p)
      PROVE  SInv'
  <2>1. CASE p \in Writers /\ ((\E d \in Docs : Save(p, d)) \/ Clear(p))
    BY <2>1, SaveStep, ClearStep
  <2>2. CASE OpenTmp(p)
    BY <2>2, OpenTmpStep
  <2>3. CASE \/ OpenTmpFails(p) \/ WriteFails(p) \/ RemovePathFails(p)
             \/ RenameAgainFails(p) \/ LoadRead(p) \/ Crash(p)
    BY <2>3, ThrowStep
       DEF OpenTmpFails, WriteFails, RemovePathFails, RenameAgainFails, LoadRead, Crash
  <2>4. CASE Write(p)
    BY <2>4, WriteStep
  <2>5. CASE Close(p)
    BY <2>5, CloseStep
  <2>6. CASE Rename(p) \/ RenameAgain(p)
    BY <2>6, RenameStep
  <2>7. CASE RenameFails(p)
    BY <2>7, RenameFailsStep
  <2>8. CASE RemovePath(p)
    BY <2>8, RemovePathStep
  <2>9. CASE LoadOpen(p) \/ LoadOpenFails(p)
    BY <2>9, LoadOpenStep
  <2> QED
    BY <1>1, <2>1, <2>2, <2>3, <2>4, <2>5, <2>6, <2>7, <2>8, <2>9
<1>2. CASE UNCHANGED vars
  BY <1>2 DEF vars, files, SInv, TypeOK, CallShape, TmpIsPrivate, NoTornRead, Document, Visible
<1> QED
  BY <1>1, <1>2 DEF Next

LEMMA FileInductive == ASSUME SingleWriter PROVE Spec => []SInv
<1> QED
  BY FileInit, FileStep, PTL DEF Spec

-----------------------------------------------------------------------------

\* Unless a flush fails, no load ever meets a partial document.
THEOREM NeverTorn ==
    ASSUME SingleWriter
    PROVE  Spec => []NoTornRead
<1>1. SInv => NoTornRead
  BY DEF SInv
<1> QED
  BY <1>1, FileInductive, PTL

\* Unless a flush or a rename fails, a restart finds what was last acknowledged,
\* or a save that did not return.
THEOREM Survives ==
    ASSUME SingleWriter
    PROVE  Spec => []SavedStateSurvives
<1>1. SInv => SavedStateSurvives
  BY DEF SInv, Document, SavedStateSurvives, StatePersists
<1> QED
  BY <1>1, FileInductive, PTL

\* Unless a flush fails, a save that returned has written.
THEOREM Acknowledged ==
    ASSUME SingleWriter
    PROVE  Spec => []AckedIsWritten
<1>1. SInv => AckedIsWritten
  BY DEF SInv, Document, AckedIsWritten, SaveReportsFailure
<1> QED
  BY <1>1, FileInductive, PTL

\* Whatever fails, the document never goes back to an older one.
THEOREM NoReversal ==
    ASSUME SingleWriter
    PROVE  Spec => []NeverReverts
<1>1. SInv => NeverReverts
  BY DEF SInv, Document, NeverReverts
<1> QED
  BY <1>1, FileInductive, PTL

-----------------------------------------------------------------------------

\* The abstract state of the calls, as Implements maps it.
absCall == [p \in Procs |->
              IF pc[p] = "idle" THEN "idle"
              ELSE IF pc[p] = "reading" THEN "loading"
              ELSE IF pc[p] \in Retrying THEN "replacing" ELSE "saving"]
absArg == [p \in Procs |->
              IF pc[p] = "reading" /\ fd[p] # None THEN data[fd[p]]
              ELSE IF pc[p] \in {"renaming"} \cup Retrying /\ tmp # None THEN data[tmp]
              ELSE doc[p]]

LEMMA RegisterInit == Init => Register!Init
  BY FileAssumption DEF Init, Register!Init, Visible, Retrying

\* Opening path.tmp and writing it leave the register alone ...
LEMMA StutterSteps ==
    ASSUME SInv, SingleWriter, NEW p \in Procs, OpenTmp(p) \/ Write(p)
    PROVE  UNCHANGED <<Visible, absCall, absArg, failed>>
<1> USE FileAssumption
<1>1. \A q \in Procs : q # p => pc[q] \in {"idle", "reading"}
  BY DEF SInv, CallShape, OpenTmp, Write, SingleWriter, Saving, Retrying
<1>2. CASE OpenTmp(p)
  <2>0. PICK i \in IF tmp = None THEN Unused ELSE {tmp} :
            data' = [data EXCEPT ![i] = Torn] /\ fd' = [fd EXCEPT ![p] = i]
    BY <1>2 DEF OpenTmp
  <2>1. /\ i # path
        /\ \A q \in Procs : pc[q] = "reading" => fd[q] # i
    <3>1. CASE tmp = None
      BY <2>0, <3>1 DEF Unused
    <3>2. CASE tmp # None
      BY <2>0, <3>2 DEF SInv, TypeOK, TmpIsPrivate
    <3> QED
      BY <3>1, <3>2
  <2>2. /\ path' = path /\ doc' = doc /\ failed' = failed
        /\ pc' = [pc EXCEPT ![p] = "writing"] /\ pc[p] = "opening"
    BY <1>2 DEF OpenTmp, Go
  <2>3. Visible' = Visible
    BY <2>0, <2>1, <2>2 DEF SInv, TypeOK, Visible
  <2>4. absCall' = absCall
    BY <2>2 DEF SInv, TypeOK, absCall, Retrying
  <2>5. absArg' = absArg
    BY <1>1, <2>0, <2>1, <2>2 DEF SInv, TypeOK, absArg, Retrying
  <2> QED
    BY <2>2, <2>3, <2>4, <2>5
<1>3. CASE Write(p)
  BY <1>3 DEF SInv, TypeOK, Write, Go, files, Visible, absCall, absArg, Retrying
<1> QED
  BY <1>2, <1>3

\* ... so does a flush that succeeds; one that fails spoils what is being saved ...
LEMMA CloseSteps ==
    ASSUME SInv, SingleWriter, NEW p \in Procs, Close(p)
    PROVE  UNCHANGED <<Visible, absCall, absArg, failed>> \/ Register!Spoil(p)
<1> USE FileAssumption
<1>1. \A q \in Procs : q # p => pc[q] \in {"idle", "reading"}
  BY DEF SInv, CallShape, Close, SingleWriter, Saving, Retrying
<1>2. /\ tmp # None /\ tmp \in Inodes /\ fd[p] = tmp
      /\ fd' = [fd EXCEPT ![p] = None]
      /\ pc[p] = "closing" /\ pc' = [pc EXCEPT ![p] = "renaming"]
      /\ path' = path /\ tmp' = tmp /\ doc' = doc
  BY DEF SInv, TypeOK, CallShape, Close, Go
<1>3. absCall' = absCall /\ absCall[p] = "saving"
  BY <1>2 DEF SInv, TypeOK, absCall, Retrying
<1>4. CASE data' = [data EXCEPT ![tmp] = doc[p]] /\ failed' = failed
  <2>1. Visible' = Visible
    BY <1>2, <1>4 DEF SInv, TypeOK, TmpIsPrivate, Visible
  <2>2. absArg' = absArg
    BY <1>1, <1>2, <1>4 DEF SInv, TypeOK, TmpIsPrivate, absArg, Retrying
  <2> QED
    BY <1>3, <1>4, <2>1, <2>2
<1>5. CASE Fails("close") /\ data' = data
  <2>1. Visible' = Visible
    BY <1>2, <1>5 DEF Visible
  <2>2. absArg' = [absArg EXCEPT ![p] = data[tmp]]
    BY <1>1, <1>2, <1>5 DEF SInv, TypeOK, absArg, Retrying
  <2>3. data[tmp] = Torn
    BY <1>2 DEF SInv, CallShape
  <2>4. Register!Fails("close")
    BY <1>5 DEF Fails, Register!Fails
  <2> QED
    BY <1>3, <2>1, <2>2, <2>3, <2>4 DEF Register!Spoil, absCall, absArg
<1> QED
  BY <1>2, <1>4, <1>5 DEF Close

\* ... a rename that fails is a stumble, after which the document may vanish ...
LEMMA FallbackSteps ==
    ASSUME SInv, NEW p \in Procs
    PROVE  /\ RenameFails(p) => Register!Stumble(p)
           /\ RemovePath(p) => Register!Vanish(p)
<1> USE FileAssumption
<1>1. ASSUME RenameFails(p) PROVE Register!Stumble(p)
  <2>1. /\ UNCHANGED <<path, tmp, data, fd, doc>>
        /\ pc[p] = "renaming" /\ pc' = [pc EXCEPT ![p] = "removing"]
        /\ Fails("rename")
    BY <1>1 DEF SInv, CallShape, RenameFails, Go, files
  <2>2. absCall[p] = "saving" /\ absCall' = [absCall EXCEPT ![p] = "replacing"]
    BY <2>1 DEF SInv, TypeOK, absCall, Retrying
  <2>3. absArg' = absArg /\ Visible' = Visible
    BY <2>1 DEF SInv, TypeOK, absArg, Visible, Retrying
  <2>4. Register!Fails("rename")
    BY <2>1 DEF Fails, Register!Fails
  <2> QED
    BY <2>2, <2>3, <2>4 DEF Register!Stumble, absCall, absArg
<1>2. ASSUME RemovePath(p) PROVE Register!Vanish(p)
  <2>1. /\ UNCHANGED <<tmp, data, fd, doc, failed>> /\ path' = None
        /\ pc[p] = "removing" /\ pc' = [pc EXCEPT ![p] = "renaming again"]
    BY <1>2 DEF RemovePath, Go
  <2>2. absCall[p] = "replacing" /\ absCall' = absCall
    BY <2>1 DEF SInv, TypeOK, absCall, Retrying
  <2>3. absArg' = absArg /\ Visible' = Missing
    BY <2>1 DEF SInv, TypeOK, absArg, Visible, Retrying
  <2> QED
    BY <2>1, <2>2, <2>3 DEF Register!Vanish, absCall, absArg
<1> QED
  BY <1>1, <1>2

\* ... the rename is the step the register takes ...
LEMMA CommitStep ==
    ASSUME SInv, SingleWriter, NEW p \in Procs, Rename(p) \/ RenameAgain(p)
    PROVE  Register!Commit(p)
<1> USE FileAssumption
<1>1. tmp # None /\ fd[p] = None /\ pc[p] \in {"renaming"} \cup Retrying
  BY DEF SInv, CallShape, Rename, RenameAgain, Retrying
<1>2. /\ path' = tmp /\ data' = data /\ failed' = failed
      /\ pc' = [pc EXCEPT ![p] = "idle"]
      /\ fd' = [fd EXCEPT ![p] = None] /\ doc' = [doc EXCEPT ![p] = Missing]
  BY DEF Rename, RenameAgain, MoveTmp, Done, Go
<1>3. \A q \in Procs : q # p => pc[q] \in {"idle", "reading"}
  BY DEF SInv, CallShape, Rename, RenameAgain, SingleWriter, Saving, Retrying
<1>4. absCall[p] \in {"saving", "replacing"} /\ absArg[p] = data[tmp] /\ Visible' = data[tmp]
  BY <1>1, <1>2 DEF absCall, absArg, Visible, Retrying
<1>5. absCall' = [absCall EXCEPT ![p] = "idle"]
  BY <1>2 DEF SInv, TypeOK, absCall, Retrying
<1>6. absArg' = [absArg EXCEPT ![p] = Missing]
  BY <1>2, <1>3 DEF SInv, TypeOK, absArg, Retrying
<1> QED
  BY <1>2, <1>4, <1>5, <1>6 DEF Register!Commit, absCall, absArg

\* ... and a call that ends otherwise leaves it as it was.
LEMMA LeaveStep ==
    ASSUME SInv, NEW p \in Procs, pc[p] # "idle", Throw(p), UNCHANGED files
    PROVE  Register!Leave(p)
<1> USE FileAssumption
<1>1. /\ path' = path /\ data' = data /\ tmp' = tmp /\ failed' = failed
      /\ pc' = [pc EXCEPT ![p] = "idle"]
      /\ fd' = [fd EXCEPT ![p] = None] /\ doc' = [doc EXCEPT ![p] = Missing]
  BY DEF Throw, Done, Go, files
<1>2. absCall[p] # "idle" /\ Visible' = Visible
  BY <1>1 DEF absCall, Visible, Retrying
<1>3. absCall' = [absCall EXCEPT ![p] = "idle"]
  BY <1>1 DEF SInv, TypeOK, absCall, Retrying
<1>4. absArg' = [absArg EXCEPT ![p] = Missing]
  BY <1>1 DEF SInv, TypeOK, absArg, Retrying
<1> QED
  BY <1>1, <1>2, <1>3, <1>4 DEF Register!Leave, absCall, absArg

LEMMA SaveBegins ==
    ASSUME SInv, NEW p \in Procs, NEW d \in Docs, Save(p, d)
    PROVE  Register!Save(p, d)
<1> USE FileAssumption
<1>1. /\ UNCHANGED <<path, tmp, data, fd, failed>>
      /\ pc[p] = "idle" /\ pc' = [pc EXCEPT ![p] = "opening"]
      /\ doc' = [doc EXCEPT ![p] = d]
  BY DEF Save, Go, files
<1>2. absCall[p] = "idle" /\ Visible' = Visible
  BY <1>1 DEF absCall, Visible
<1>3. absCall' = [absCall EXCEPT ![p] = "saving"]
  BY <1>1 DEF SInv, TypeOK, absCall, Retrying
<1>4. absArg' = [absArg EXCEPT ![p] = d]
  BY <1>1 DEF SInv, TypeOK, absArg, Retrying
<1> QED
  BY <1>1, <1>2, <1>3, <1>4 DEF Register!Save, absCall, absArg

LEMMA LoadBegins ==
    ASSUME SInv, NEW p \in Procs, LoadOpen(p) \/ LoadOpenFails(p)
    PROVE  Register!Load(p)
<1> USE FileAssumption
<1>1. /\ UNCHANGED <<path, tmp, data, doc>>
      /\ pc[p] = "idle" /\ pc' = [pc EXCEPT ![p] = "reading"]
      /\ doc[p] = Missing /\ fd[p] = None
  BY DEF SInv, CallShape, LoadOpen, LoadOpenFails, Go, files
<1>2. absCall[p] = "idle" /\ Visible' = Visible
  BY <1>1 DEF absCall, Visible
<1>3. absCall' = [absCall EXCEPT ![p] = "loading"]
  BY <1>1 DEF SInv, TypeOK, absCall, Retrying
<1>4. CASE fd' = [fd EXCEPT ![p] = path] /\ failed' = failed
  <2>1. absArg' = [absArg EXCEPT ![p] = Visible]
    BY <1>1, <1>4 DEF SInv, TypeOK, absArg, Visible, Retrying
  <2> QED
    BY <1>2, <1>3, <1>4, <2>1 DEF Register!Load, absCall, absArg
<1>5. CASE fd' = fd /\ Fails("open")
  <2>1. absArg' = absArg
    BY <1>1, <1>5 DEF SInv, TypeOK, absArg, Retrying
  <2>2. Register!Fails("open")
    BY <1>5 DEF Fails, Register!Fails
  <2> QED
    BY <1>2, <1>3, <2>1, <2>2 DEF Register!Load, absCall, absArg
<1> QED
  BY <1>4, <1>5 DEF LoadOpen, LoadOpenFails

LEMMA ClearCommits ==
    ASSUME SInv, NEW p \in Procs, Clear(p)
    PROVE  Register!Clear(p)
<1>1. /\ UNCHANGED <<tmp, data, pc, fd, doc, failed>>
      /\ pc[p] = "idle" /\ path' = None
  BY DEF Clear
<1>2. absCall[p] = "idle" /\ Visible' = Missing /\ absCall' = absCall /\ absArg' = absArg
  BY <1>1 DEF SInv, TypeOK, absCall, absArg, Visible
<1> QED
  BY <1>1, <1>2 DEF Register!Clear, absCall, absArg

\* The calls on the file system implement the document, faults included.
THEOREM FileImplementsRegister ==
    ASSUME SingleWriter
    PROVE  Spec => Implements
<1>1. SInv /\ [Next]_vars => [Register!Next]_(Register!vars)
  <2> SUFFICES ASSUME SInv, [Next]_vars PROVE [Register!Next]_(Register!vars)
    OBVIOUS
  <2>1. ASSUME NEW p \in Procs, p \in Writers, NEW d \in Docs, Save(p, d)
        PROVE  Register!Next
    BY <2>1, SaveBegins DEF Register!Next
  <2>2. ASSUME NEW p \in Procs, Clear(p) PROVE Register!Next
    BY <2>2, ClearCommits DEF Register!Next
  <2>3. ASSUME NEW p \in Procs, OpenTmp(p) \/ Write(p)
        PROVE  UNCHANGED Register!vars
    BY <2>3, StutterSteps DEF Register!vars, absCall, absArg
  <2>4. ASSUME NEW p \in Procs, Close(p)
        PROVE  Register!Next \/ UNCHANGED Register!vars
    <3>1. CASE UNCHANGED <<Visible, absCall, absArg, failed>>
      BY <3>1 DEF Register!vars, absCall, absArg
    <3>2. CASE Register!Spoil(p)
      BY <3>2 DEF Register!Next
    <3> QED
      BY <2>4, <3>1, <3>2, CloseSteps
  <2>5. ASSUME NEW p \in Procs,
               \/ OpenTmpFails(p) \/ WriteFails(p) \/ RemovePathFails(p)
               \/ RenameAgainFails(p) \/ LoadRead(p) \/ Crash(p)
        PROVE  Register!Next
    <3>1. Register!Leave(p)
      BY <2>5, LeaveStep
         DEF OpenTmpFails, WriteFails, RemovePathFails, RenameAgainFails, LoadRead, Crash
    <3> QED
      BY <3>1 DEF Register!Next
  <2>6. ASSUME NEW p \in Procs, Rename(p) \/ RenameAgain(p) PROVE Register!Next
    BY <2>6, CommitStep DEF Register!Next
  <2>7. ASSUME NEW p \in Procs, RenameFails(p) \/ RemovePath(p) PROVE Register!Next
    BY <2>7, FallbackSteps DEF Register!Next
  <2>8. ASSUME NEW p \in Procs, LoadOpen(p) \/ LoadOpenFails(p) PROVE Register!Next
    BY <2>8, LoadBegins DEF Register!Next
  <2>9. CASE UNCHANGED vars
    BY <2>9 DEF vars, Register!vars, Visible, files
  <2> QED
    BY <2>1, <2>2, <2>3, <2>4, <2>5, <2>6, <2>7, <2>8, <2>9 DEF Next
<1> QED
  BY <1>1, RegisterInit, FileInductive, PTL DEF Spec, Implements, Register!Spec
=============================================================================
