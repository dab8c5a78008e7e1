----------------------- MODULE PersistenceWal_proofs -----------------------
(***************************************************************************)
(* Proofs about PersistenceWal for every number of tasks, admissions,      *)
(* kills and failures.                                                     *)
(***************************************************************************)
EXTENDS PersistenceWal, TLAPS

(* The operators on files build files: what append, the repair of a failure *)
(* make of a file is a file.                                               *)
LEMMA FileOperators ==
    ASSUME NEW file \in Files, NEW f \in Frame
    PROVE  /\ Synced(file) \in Files
           /\ \A t \in Tails : Extended(file, t) \in Files
           /\ Appended(file, f) \in Files
           /\ Unfinished(file, f) \subseteq Files
           /\ Readable(file) \subseteq Frame
<1>1. ASSUME NEW g \in Files PROVE Synced(g) \in Files
  BY DEF Synced, Files, Tails, NoTail, Tail, TailKinds
<1>2. \A t \in Tails : Extended(file, t) \in Files
  BY DEF Extended, Files, Tails, Torn, Garbled, Tail, TailKinds
<1>3. {Torn, Garbled, Tail("whole", {f}), Tail("unsynced", {f}), NoTail} \subseteq Tails
  BY DEF Tails, Torn, Garbled, NoTail, Tail, TailKinds
<1>4. Appended(file, f) \in Files
  BY <1>1, <1>2, <1>3 DEF Appended
<1>5. Unfinished(file, f) \subseteq Files
  BY <1>2, <1>3 DEF Unfinished
<1>7. Readable(file) \subseteq Frame
  BY DEF Readable, Files, Tails
<1> QED
  BY <1>1, <1>2, <1>4, <1>5, <1>7

LEMMA KilledFile ==
    ASSUME NEW file \in Files
    PROVE  AfterKill(file) \subseteq Files
<1>1. Synced(file) \in Files
  BY DEF Synced, Files, Tails, NoTail, Tail, TailKinds
<1>2. {Torn, Garbled, NoTail} \subseteq Tails
  BY DEF Tails, Torn, Garbled, NoTail, Tail, TailKinds
<1> QED
  BY <1>1, <1>2 DEF AfterKill, Files

LEMMA FileOfFrames ==
    ASSUME NEW S \in SUBSET Frame
    PROVE  FileOf(S) \in Files
BY DEF FileOf, EmptyFile, NoFile, Files, Tails, NoTail, Tail, TailKinds

LEMMA NoFileIsFile == NoFile \in Files
BY DEF NoFile, Files, Tails, NoTail, Tail, TailKinds

LEMMA TypeInit == Init => TypeOK
<1> SUFFICES ASSUME Init PROVE TypeOK
  OBVIOUS
<1>1. wal \in Files
  BY NoFileIsFile DEF Init
<1>2. marker \in Markers
  BY DEF Init, Markers, NoMarker
<1>3. next \in 1..(MaxAdmissions + 1) /\ crashes \in 0..MaxCrashes
        /\ faults \in 0..MaxFaults /\ disasters \in 0..MaxDisasters
  BY WalAssumption DEF Init
<1>4. /\ accepted \subseteq Ids /\ refused \subseteq Ids /\ closing \subseteq Ids
      /\ acked \subseteq Ids /\ view \subseteq Ids
  BY DEF Init, Ledger!LedgerInit
<1>5. gate \in Tasks \cup {NoTask} /\ pc \in [Tasks -> {"idle", "admit", "marker", "ack", "clean"}]
  BY DEF Init
<1>6. arg \in [Tasks -> Ids \cup {0}]
  BY DEF Init
<1> QED
  BY <1>1, <1>2, <1>3, <1>4, <1>5, <1>6 DEF Init, TypeOK, Reasons

LEMMA MarkersAreTyped ==
    /\ NoMarker \in Markers
    /\ \A c \in BOOLEAN, n \in Nat : Marker(c, n) \in Markers
    /\ \A m \in Markers : m.max \in Nat /\ [m EXCEPT !.clean = FALSE] \in Markers
BY DEF Markers, NoMarker, Marker

LEMMA FramesAreTyped ==
    /\ \A i \in Ids, n \in Nat : Admission(i, n) \in Frame
    /\ \A i \in Ids : Ack(i) \in Frame
    /\ \A S \in SUBSET Frame : Pending(S) \in SUBSET Frame /\ IdsOf(Pending(S)) \subseteq Ids
BY DEF Admission, Ack, Frame, Pending, IdsOf

LEMMA DieIsTyped ==
    ASSUME TypeOK, Die
    PROVE  /\ phase' = "down" /\ wasEmpty' \in BOOLEAN /\ admitSeq' \in Nat
           /\ degraded' \subseteq Reasons /\ gate' \in Tasks \cup {NoTask}
           /\ pc' \in [Tasks -> {"idle", "admit", "marker", "ack", "clean"}]
           /\ arg' \in [Tasks -> Ids \cup {0}]
           /\ \A t \in Tasks : pc'[t] = "idle"
           /\ crashes' \in 0..MaxCrashes
<1>1. crashes' \in 0..MaxCrashes
  BY WalAssumption DEF Die, TypeOK
<1> QED
  BY <1>1 DEF Die

LEMMA TypeStep == TypeOK /\ [Next]_vars => TypeOK'
<1> SUFFICES ASSUME TypeOK, [Next]_vars PROVE TypeOK'
  OBVIOUS
<1> USE DEF TypeOK
<1>r. Readable(wal) \in SUBSET Frame /\ wal.frames \in SUBSET Frame
  BY DEF Readable, Files, Tails
<1>1. CASE BootRefuse
  BY <1>1, WalAssumption DEF BootRefuse, Fail, diskVars, taskVars, obsVars
<1>2. CASE BootWithoutFile
  <2>1. wal' \in Files /\ marker' \in Markers /\ admitSeq' \in Nat
    BY <1>2, NoFileIsFile, MarkersAreTyped DEF BootWithoutFile, FileRead
  <2> QED
    BY <1>2, <2>1 DEF BootWithoutFile, taskVars, countVars
<1>3. CASE BootRead
  <2>1. wal' \in Files /\ wasEmpty' \in BOOLEAN
    BY <1>3, <1>r, FileOfFrames DEF BootRead, Repaired, IsEmpty, Files
  <2> QED
    BY <1>3, <2>1 DEF BootRead, taskVars, countVars, obsVars
<1>4. CASE BootFirstMarker
  <2>1. marker' \in Markers
    BY <1>4, MarkersAreTyped DEF BootFirstMarker
  <2> QED
    BY <1>4, <2>1 DEF BootFirstMarker, procVars, taskVars, countVars, obsVars
<1>5. CASE BootFinalMarker
  <2>1. admitSeq' \in Nat
    BY <1>5, <1>r, MarkersAreTyped DEF BootFinalMarker, Restored, Admitted, Frame
  <2>2. marker' \in Markers
    BY <1>5, <2>1, MarkersAreTyped DEF BootFinalMarker
  <2>3. view' \subseteq Ids
    BY <1>5, <1>r, FramesAreTyped DEF BootFinalMarker
  <2> QED
    BY <1>5, <2>1, <2>2, <2>3, WalAssumption DEF BootFinalMarker, Fail, taskVars
<1>6. ASSUME NEW t \in Tasks, AdmitCheck(t) PROVE TypeOK'
  <2>1. arg' \in [Tasks -> Ids \cup {0}] /\ next \in Ids
    BY <1>6, WalAssumption DEF AdmitCheck, Ids
  <2> QED
    BY <1>6, <2>1, WalAssumption DEF AdmitCheck, Goto, diskVars, procVars, countVars, obsVars
<1>7. ASSUME NEW t \in Tasks, AdmitAppend(t) PROVE TypeOK'
  <2>1. wal' \in Files
    BY <1>7, FileOperators, FramesAreTyped DEF AdmitAppend
  <2> QED
    BY <1>7, <2>1 DEF AdmitAppend, Goto, countVars, obsVars
<1>8. ASSUME NEW t \in Tasks, AdmitRejected(t) PROVE TypeOK'
  <2>1. wal' \in Files
    BY <1>8 DEF AdmitRejected, Files
  <2> QED
    BY <1>8, <2>1, WalAssumption DEF AdmitRejected, Fail, Goto, procVars
<1>9. ASSUME NEW t \in Tasks, AdmitFatal(t) PROVE TypeOK'
  <2>0. Admission(arg[t], admitSeq + 1) \in Frame
    BY <1>9, FramesAreTyped DEF AdmitFatal
  <2>1. wal' \in Files
    BY <1>9, <2>0, FileOperators DEF AdmitFatal
  <2> QED
    BY <1>9, <2>1, WalAssumption DEF AdmitFatal, Fail, Goto, obsVars, Reasons
<1>10. ASSUME NEW t \in Tasks, AdmitMarker(t) PROVE TypeOK'
  <2>1. ActiveMarker \in Markers
    BY MarkersAreTyped DEF ActiveMarker
  <2>2. marker' \in Markers /\ degraded' \subseteq Reasons
    BY <1>10, <2>1 DEF AdmitMarker, Reasons
  <2> QED
    BY <1>10, <2>2, WalAssumption DEF AdmitMarker, Fail, Goto
<1>11. ASSUME NEW t \in Tasks, AckCheck(t) PROVE TypeOK'
  <2> QED
    BY <1>11 DEF AckCheck, Goto, diskVars, procVars, countVars, obsVars
<1>12. ASSUME NEW t \in Tasks, AckAppend(t) PROVE TypeOK'
  <2>1. wal' \in Files
    BY <1>12, FileOperators, FramesAreTyped DEF AckAppend
  <2> QED
    BY <1>12, <2>1 DEF AckAppend, Goto, procVars, countVars
<1>13. ASSUME NEW t \in Tasks, AckRejected(t) PROVE TypeOK'
  <2>1. wal' \in Files
    BY <1>13 DEF AckRejected, Files
  <2> QED
    BY <1>13, <2>1, WalAssumption DEF AckRejected, Fail, Goto, procVars, obsVars
<1>14. ASSUME NEW t \in Tasks, AckFatal(t) PROVE TypeOK'
  <2>1. wal' \in Files
    BY <1>14, FileOperators, FramesAreTyped DEF AckFatal
  <2> QED
    BY <1>14, <2>1, WalAssumption DEF AckFatal, Fail, Goto, Reasons
<1>15. ASSUME NEW t \in Tasks, CompactRefuse(t) PROVE TypeOK'
  <2> QED
    BY <1>15 DEF CompactRefuse, diskVars, taskVars, countVars, obsVars, Reasons
<1>16. ASSUME NEW t \in Tasks, CompactRewrite(t) PROVE TypeOK'
  <2>1. wal' \in Files /\ degraded' \subseteq Reasons
    BY <1>16, <1>r, FileOfFrames, FramesAreTyped DEF CompactRewrite, Reasons
  <2> QED
    BY <1>16, <2>1, WalAssumption DEF CompactRewrite, Fail, taskVars, obsVars
<1>17. ASSUME NEW t \in Tasks, CompactRemove(t) PROVE TypeOK'
  <2>1. wal' \in Files
    BY <1>17, NoFileIsFile DEF CompactRemove
  <2> QED
    BY <1>17, <2>1, WalAssumption DEF CompactRemove, Fail, Goto, procVars, obsVars
<1>18. ASSUME NEW t \in Tasks, CompactMarker(t) PROVE TypeOK'
  <2>1. marker' \in Markers /\ degraded' \subseteq Reasons
    BY <1>18, MarkersAreTyped DEF CompactMarker, Reasons
  <2>a. \/ faults' = faults
        \/ faults < MaxFaults /\ faults' = faults + 1
    BY <1>18 DEF CompactMarker, Fail
  <2>2. faults' \in 0..MaxFaults
    BY <2>a, WalAssumption
  <2>3. /\ gate' = NoTask /\ pc' = [pc EXCEPT ![t] = "idle"]
        /\ UNCHANGED <<wal, phase, wasEmpty, admitSeq, arg, next, crashes, disasters, obsVars>>
    BY <1>18 DEF CompactMarker, Goto
  <2> QED
    BY <2>1, <2>2, <2>3 DEF obsVars
<1>19. ASSUME NEW t \in Tasks, CrashInAppend(t) PROVE TypeOK'
  <2>1. FrameOf(t) \in Frame
    BY <1>19, FramesAreTyped DEF CrashInAppend, FrameOf
  <2>2. wal' \in Files
    BY <1>19, <2>1, FileOperators, KilledFile DEF CrashInAppend
  <2>3. closing' \subseteq Ids
    BY <1>19 DEF CrashInAppend
  <2>4. CrashInAppend(t) => Die
    BY DEF CrashInAppend
  <2> QED
    BY <1>19, <2>2, <2>3, <2>4, DieIsTyped DEF CrashInAppend
<1>20. CASE ListPending
  <2>1. view' \subseteq Ids /\ degraded' \subseteq Reasons
    BY <1>20, <1>r, FramesAreTyped DEF ListPending, Reasons
  <2> QED
    BY <1>20, <2>1 DEF ListPending, diskVars, taskVars, countVars
<1>21. CASE Crash
  <2>2. wal' \in Files
    BY <1>21, KilledFile DEF Crash
  <2> QED
    BY <1>21, <2>2, DieIsTyped DEF Crash, obsVars
<1>22. CASE Disaster
  <2>1. wal' \in Files /\ marker' \in Markers
    BY <1>22, NoFileIsFile, MarkersAreTyped DEF Disaster, EmptyFile, Files
  <2> QED
    BY <1>22, <2>1, WalAssumption DEF Disaster, procVars, taskVars, obsVars
<1>23. CASE UNCHANGED vars
  BY <1>23 DEF vars, diskVars, procVars, taskVars, countVars, obsVars
<1> QED
  BY <1>1, <1>2, <1>3, <1>4, <1>5, <1>6, <1>7, <1>8, <1>9, <1>10, <1>11, <1>12, <1>13, <1>14,
     <1>15, <1>16, <1>17, <1>18, <1>19, <1>20, <1>21, <1>22, <1>23 DEF Next, TaskStep

(* Every variable keeps its type, whatever is offered, fails or is killed. *)
THEOREM TypeCorrect == Spec => []TypeOK
<1>1. Init => TypeOK
  BY TypeInit
<1>2. TypeOK /\ [Next]_vars => TypeOK'
  BY TypeStep
<1> QED
  BY <1>1, <1>2, PTL DEF Spec

-----------------------------------------------------------------------------
(* What the operations on files do to the frames *)

LEMMA AppendFacts ==
    ASSUME NEW file \in Files, NEW f \in Frame, file.tail = NoTail, ~file.broken
    PROVE  /\ Appended(file, f).frames = file.frames \cup {f}
           /\ Readable(Appended(file, f)) = file.frames \cup {f}
           /\ Appended(file, f).tail = NoTail
           /\ Appended(file, f).present /\ ~Appended(file, f).broken
BY DEF Appended, Extended, Synced, Readable, NoTail, Tail, Files

LEMMA KillFacts ==
    ASSUME NEW file \in Files, NEW h \in AfterKill(file)
    PROVE  /\ h.broken = file.broken
           /\ h.present = file.present
           /\ file.frames \subseteq h.frames
           /\ Readable(h) \subseteq Readable(file)
           /\ file.tail = NoTail => h = file
<1>1. CASE file.tail.kind = "none"
  BY <1>1 DEF AfterKill
<1>2. CASE file.tail.kind # "none"
  <2>1. file.tail # NoTail
    BY <1>2 DEF NoTail, Tail
  <2>2. h = Synced(file) \/ \E t \in {NoTail, Torn, Garbled} : h = [file EXCEPT !.tail = t]
    BY <1>2 DEF AfterKill
  <2>3. CASE h = Synced(file)
    BY <2>1, <2>3 DEF Synced, Readable, NoTail, Tail, Files
  <2>4. ASSUME NEW t \in {NoTail, Torn, Garbled}, h = [file EXCEPT !.tail = t]
        PROVE  /\ h.broken = file.broken /\ h.present = file.present
               /\ h.frames = file.frames /\ h.tail.held = {}
    BY <2>4 DEF NoTail, Torn, Garbled, Tail, Files
  <2> QED
    BY <2>1, <2>2, <2>3, <2>4 DEF Readable
<1> QED
  BY <1>1, <1>2

LEMMA UnfinishedFacts ==
    ASSUME NEW file \in Files, NEW f \in Frame, file.tail = NoTail, ~file.broken,
           NEW g \in Unfinished(file, f), g # file
    PROVE  /\ g.present /\ ~g.broken
           /\ g.frames = file.frames
           /\ Readable(g) \subseteq file.frames \cup {f}
<1> DEFINE left == {Torn, Garbled, Tail("whole", {f}), Tail("unsynced", {f})}
<1>1. PICK t \in left : g = Extended(file, t)
  BY DEF Unfinished
<1>2. t.held \subseteq {f}
  BY DEF Torn, Garbled, Tail
<1>3. file.tail.kind = "none"
  BY DEF NoTail, Tail
<1>4. /\ g.present /\ g.broken = file.broken
      /\ g.frames = file.frames
      /\ g.tail = t
  BY <1>1, <1>3 DEF Extended, Files
<1> QED
  BY <1>2, <1>4 DEF Readable

LEMMA ReadableOfSynced ==
    ASSUME NEW file \in Files, file.tail = NoTail
    PROVE  Readable(file) = file.frames
BY DEF Readable, NoTail, Tail, Files

LEMMA FileOfFacts ==
    ASSUME NEW S \in SUBSET Frame
    PROVE  /\ FileOf(S).present /\ ~FileOf(S).broken
           /\ FileOf(S).frames = S /\ FileOf(S).tail = NoTail /\ Readable(FileOf(S)) = S
BY DEF FileOf, EmptyFile, NoFile, Readable, NoTail, Tail

LEMMA NoFileFacts ==
    /\ ~NoFile.present /\ ~NoFile.broken
    /\ NoFile.frames = {} /\ NoFile.tail = NoTail /\ Readable(NoFile) = {}
BY DEF NoFile, Readable, NoTail, Tail

(* What they do to the admitted events *)

LEMMA AdmittedIds ==
    /\ \A S, T : S \subseteq T => IdsOf(Admitted(S)) \subseteq IdsOf(Admitted(T))
    /\ \A S, i, n : IdsOf(Admitted(S \cup {Admission(i, n)})) = IdsOf(Admitted(S)) \cup {i}
    /\ \A S, i : IdsOf(Admitted(S \cup {Ack(i)})) = IdsOf(Admitted(S))
    /\ IdsOf(Admitted({})) = {}
<1>1. \A i, n : Admission(i, n).type = "admission" /\ Admission(i, n).id = i /\ Ack(i).type = "ack"
  BY DEF Admission, Ack
<1> QED
  BY <1>1 DEF IdsOf, Admitted

LEMMA PendingIds ==
    ASSUME NEW S \in SUBSET Frame
    PROVE  /\ IdsOf(Pending(S)) = {i \in IdsOf(Admitted(S)) : Ack(i) \notin S}
           /\ IdsOf(Admitted(Pending(S))) = IdsOf(Pending(S))
           /\ \A f \in Pending(S) : f.type = "admission"
           /\ Pending(S) \subseteq S
BY DEF Pending, Admitted, IdsOf

LEMMA AckFacts == \A i : Ack(i).type = "ack" /\ Ack(i).id = i
BY DEF Ack

LEMMA AdmissionFacts == \A i, n : Admission(i, n).type = "admission" /\ Admission(i, n).id = i
BY DEF Admission

-----------------------------------------------------------------------------
(* The inductive invariant *)

(* No append leaves an unknown tail, and the log file is only touched by   *)
(* the process (the operator may remove the marker).                       *)
Mendable == "fatal" \notin Faults /\ Disasters \subseteq {"reset"}

(* io_gate is held exactly between the two halves of admit and of compact. *)
LEMMA GateStep ==
    ASSUME TypeOK, GateInv, [Next]_vars
    PROVE  GateInv'
<1> USE DEF GateInv
<1>1. CASE BootRefuse
  BY <1>1, NoTaskAssumption DEF TypeOK, BootRefuse, Fail, Goto, Die, diskVars, procVars, taskVars, countVars, obsVars
<1>2. CASE BootWithoutFile
  BY <1>2, NoTaskAssumption DEF TypeOK, BootWithoutFile, Fail, Goto, Die, diskVars, procVars, taskVars, countVars, obsVars
<1>3. CASE BootRead
  BY <1>3, NoTaskAssumption DEF TypeOK, BootRead, Fail, Goto, Die, diskVars, procVars, taskVars, countVars, obsVars
<1>4. CASE BootFirstMarker
  BY <1>4, NoTaskAssumption DEF TypeOK, BootFirstMarker, Fail, Goto, Die, diskVars, procVars, taskVars, countVars, obsVars
<1>5. CASE BootFinalMarker
  BY <1>5, NoTaskAssumption DEF TypeOK, BootFinalMarker, Fail, Goto, Die, diskVars, procVars, taskVars, countVars, obsVars
<1>6. ASSUME NEW u \in Tasks, AdmitCheck(u) PROVE GateInv'
  BY <1>6, NoTaskAssumption DEF TypeOK, AdmitCheck, Fail, Goto, Die, diskVars, procVars, taskVars, countVars, obsVars
<1>7. ASSUME NEW u \in Tasks, AdmitAppend(u) PROVE GateInv'
  BY <1>7, NoTaskAssumption DEF TypeOK, AdmitAppend, Fail, Goto, Die, diskVars, procVars, taskVars, countVars, obsVars
<1>8. ASSUME NEW u \in Tasks, AdmitRejected(u) PROVE GateInv'
  BY <1>8, NoTaskAssumption DEF TypeOK, AdmitRejected, Fail, Goto, Die, diskVars, procVars, taskVars, countVars, obsVars
<1>9. ASSUME NEW u \in Tasks, AdmitFatal(u) PROVE GateInv'
  BY <1>9, NoTaskAssumption DEF TypeOK, AdmitFatal, Fail, Goto, Die, diskVars, procVars, taskVars, countVars, obsVars
<1>10. ASSUME NEW u \in Tasks, AdmitMarker(u) PROVE GateInv'
  BY <1>10, NoTaskAssumption DEF TypeOK, AdmitMarker, Fail, Goto, Die, diskVars, procVars, taskVars, countVars, obsVars
<1>11. ASSUME NEW u \in Tasks, AckCheck(u) PROVE GateInv'
  BY <1>11, NoTaskAssumption DEF TypeOK, AckCheck, Fail, Goto, Die, diskVars, procVars, taskVars, countVars, obsVars
<1>12. ASSUME NEW u \in Tasks, AckAppend(u) PROVE GateInv'
  BY <1>12, NoTaskAssumption DEF TypeOK, AckAppend, Fail, Goto, Die, diskVars, procVars, taskVars, countVars, obsVars
<1>13. ASSUME NEW u \in Tasks, AckRejected(u) PROVE GateInv'
  BY <1>13, NoTaskAssumption DEF TypeOK, AckRejected, Fail, Goto, Die, diskVars, procVars, taskVars, countVars, obsVars
<1>14. ASSUME NEW u \in Tasks, AckFatal(u) PROVE GateInv'
  BY <1>14, NoTaskAssumption DEF TypeOK, AckFatal, Fail, Goto, Die, diskVars, procVars, taskVars, countVars, obsVars
<1>15. ASSUME NEW u \in Tasks, CompactRefuse(u) PROVE GateInv'
  BY <1>15, NoTaskAssumption DEF TypeOK, CompactRefuse, Fail, Goto, Die, diskVars, procVars, taskVars, countVars, obsVars
<1>16. ASSUME NEW u \in Tasks, CompactRewrite(u) PROVE GateInv'
  BY <1>16, NoTaskAssumption DEF TypeOK, CompactRewrite, Fail, Goto, Die, diskVars, procVars, taskVars, countVars, obsVars
<1>17. ASSUME NEW u \in Tasks, CompactRemove(u) PROVE GateInv'
  BY <1>17, NoTaskAssumption DEF TypeOK, CompactRemove, Fail, Goto, Die, diskVars, procVars, taskVars, countVars, obsVars
<1>18. ASSUME NEW u \in Tasks, CompactMarker(u) PROVE GateInv'
  BY <1>18, NoTaskAssumption DEF TypeOK, CompactMarker, Fail, Goto, Die, diskVars, procVars, taskVars, countVars, obsVars
<1>19. ASSUME NEW u \in Tasks, CrashInAppend(u) PROVE GateInv'
  BY <1>19, NoTaskAssumption DEF TypeOK, CrashInAppend, Fail, Goto, Die, diskVars, procVars, taskVars, countVars, obsVars
<1>20. CASE ListPending
  BY <1>20, NoTaskAssumption DEF TypeOK, ListPending, Fail, Goto, Die, diskVars, procVars, taskVars, countVars, obsVars
<1>21. CASE Crash
  BY <1>21, NoTaskAssumption DEF TypeOK, Crash, Fail, Goto, Die, diskVars, procVars, taskVars, countVars, obsVars
<1>22. CASE Disaster
  BY <1>22, NoTaskAssumption DEF TypeOK, Disaster, Fail, Goto, Die, diskVars, procVars, taskVars, countVars, obsVars
<1>23. CASE UNCHANGED vars
  BY <1>23, NoTaskAssumption DEF vars, diskVars, procVars, taskVars, countVars, obsVars
<1> QED
  BY <1>1, <1>2, <1>3, <1>4, <1>5, <1>6, <1>7, <1>8, <1>9, <1>10, <1>11, <1>12, <1>13, <1>14, <1>15, <1>16, <1>17, <1>18, <1>19, <1>20, <1>21, <1>22, <1>23 DEF Next, TaskStep

(* What each step that writes the file makes of it. *)
LEMMA AppendStep ==
    ASSUME IInv, NEW u \in Tasks, NEW f \in Frame,
           pc[u] \in {"admit", "ack"}, wal' = Appended(wal, f)
    PROVE  /\ wal'.frames = wal.frames \cup {f} /\ Readable(wal') = wal.frames \cup {f}
           /\ Readable(wal) = wal.frames
           /\ wal'.tail = NoTail /\ wal'.present /\ ~wal'.broken
<1>1. wal \in Files /\ wal.tail = NoTail /\ ~wal.broken
  BY DEF IInv, TypeOK, GateInv, FileInv
<1> QED
  BY <1>1, AppendFacts, ReadableOfSynced

LEMMA RejectedStep ==
    ASSUME IInv, wal' = wal \/ wal' = [wal EXCEPT !.present = TRUE]
    PROVE  /\ wal'.frames = wal.frames /\ Readable(wal') = Readable(wal)
           /\ wal'.tail = wal.tail /\ wal'.broken = wal.broken
           /\ ~wal'.present => wal' = wal
BY DEF IInv, TypeOK, Files, Readable

LEMMA RepairStep ==
    ASSUME IInv, BootRead
    PROVE  /\ wal'.present /\ ~wal'.broken /\ wal'.tail = NoTail
           /\ wal'.frames = Readable(wal) /\ Readable(wal') = Readable(wal)
<1>1. Readable(wal) \in SUBSET Frame
  BY DEF IInv, TypeOK, Readable, Files, Tails
<1> QED
  BY <1>1, FileOfFacts DEF BootRead, Repaired

LEMMA BootEmptyStep ==
    ASSUME IInv, BootWithoutFile
    PROVE  wal' = NoFile /\ wal.frames = {}
BY NoFileFacts DEF BootWithoutFile, FileRead, IsEmpty, IInv, FileInv

LEMMA RewriteStep ==
    ASSUME IInv, NEW u \in Tasks, CompactRewrite(u), wal' # wal
    PROVE  /\ wal'.present /\ ~wal'.broken /\ wal'.tail = NoTail
           /\ wal'.frames = Pending(Readable(wal)) /\ Readable(wal') = Pending(Readable(wal))
           /\ Readable(wal) \in SUBSET Frame
<1>1. Readable(wal) \in SUBSET Frame /\ Pending(Readable(wal)) \in SUBSET Frame
  BY DEF IInv, TypeOK, Readable, Files, Tails, Pending
<1> QED
  BY <1>1, FileOfFacts DEF CompactRewrite

LEMMA KillStep ==
    ASSUME IInv, wal' \in AfterKill(wal)
    PROVE  /\ ~wal'.broken
           /\ ~wal'.present => wal' = NoFile
           /\ wal.frames \subseteq wal'.frames
           /\ Readable(wal') \subseteq Readable(wal)
<1>1. wal \in Files /\ ~wal.broken /\ (~wal.present => wal = NoFile)
  BY DEF IInv, TypeOK, FileInv
<1> QED
  BY <1>1, KillFacts, NoFileFacts

LEMMA KillInAppendStep ==
    ASSUME IInv, NEW u \in Tasks, CrashInAppend(u)
    PROVE  /\ FrameOf(u) \in Frame
           /\ ~wal'.broken
           /\ ~wal'.present => wal' = NoFile
           /\ wal.frames \subseteq wal'.frames
           /\ Readable(wal) = wal.frames
           /\ Readable(wal') \subseteq wal.frames \cup {FrameOf(u)}
<1>1. wal \in Files /\ wal.tail = NoTail /\ ~wal.broken /\ (~wal.present => wal = NoFile)
  BY DEF IInv, TypeOK, GateInv, FileInv, CrashInAppend
<1>2. FrameOf(u) \in Frame
  BY FramesAreTyped DEF CrashInAppend, FrameOf, IInv, TypeOK
<1>3. PICK g \in Unfinished(wal, FrameOf(u)) : wal' \in AfterKill(g)
  BY DEF CrashInAppend
<1>4. Readable(wal) = wal.frames
  BY <1>1, ReadableOfSynced
<1>5. CASE g = wal
  BY <1>1, <1>2, <1>3, <1>4, <1>5, KillFacts
<1>6. CASE g # wal
  <2>1. g \in Files
    BY <1>1, <1>2, FileOperators
  <2> QED
    BY <1>1, <1>2, <1>3, <1>4, <1>6, <2>1, UnfinishedFacts, KillFacts
<1> QED
  BY <1>5, <1>6

(* A file that is being appended to ends in a complete, synced line. *)
LEMMA FileStep ==
    ASSUME Mendable, IInv, [Next]_vars
    PROVE  FileInv'
<1> USE DEF FileInv, GateInv
<1>1. CASE BootRefuse
  BY <1>1 DEF IInv, TypeOK, Mendable, BootRefuse, Fail, Goto, Die, diskVars, procVars, taskVars, countVars, obsVars
<1>2. CASE BootWithoutFile
  BY <1>2, BootEmptyStep, NoFileFacts DEF BootWithoutFile
<1>3. CASE BootRead
  BY <1>3, RepairStep
<1>4. CASE BootFirstMarker
  BY <1>4 DEF IInv, TypeOK, Mendable, BootFirstMarker, Fail, Goto, Die, diskVars, procVars, taskVars, countVars, obsVars
<1>5. CASE BootFinalMarker
  BY <1>5 DEF IInv, TypeOK, Mendable, BootFinalMarker, Fail, Goto, Die, diskVars, procVars, taskVars, countVars, obsVars
<1>6. ASSUME NEW u \in Tasks, AdmitCheck(u) PROVE FileInv'
  BY <1>6 DEF IInv, TypeOK, Mendable, AdmitCheck, Fail, Goto, Die, diskVars, procVars, taskVars, countVars, obsVars
<1>7. ASSUME NEW u \in Tasks, AdmitAppend(u) PROVE FileInv'
  <2>1. Admission(arg[u], admitSeq + 1) \in Frame
    BY <1>7, FramesAreTyped DEF AdmitAppend, IInv, TypeOK
  <2> QED
    BY <1>7, <2>1, AppendStep DEF AdmitAppend
<1>8. ASSUME NEW u \in Tasks, AdmitRejected(u) PROVE FileInv'
  BY <1>8, RejectedStep DEF IInv, AdmitRejected, procVars
<1>9. ASSUME NEW u \in Tasks, AdmitFatal(u) PROVE FileInv'
  BY <1>9 DEF IInv, TypeOK, Mendable, AdmitFatal, Fail, Goto, Die, diskVars, procVars, taskVars, countVars, obsVars
<1>10. ASSUME NEW u \in Tasks, AdmitMarker(u) PROVE FileInv'
  BY <1>10 DEF IInv, TypeOK, Mendable, AdmitMarker, Fail, Goto, Die, diskVars, procVars, taskVars, countVars, obsVars
<1>11. ASSUME NEW u \in Tasks, AckCheck(u) PROVE FileInv'
  BY <1>11 DEF IInv, TypeOK, Mendable, AckCheck, Fail, Goto, Die, diskVars, procVars, taskVars, countVars, obsVars
<1>12. ASSUME NEW u \in Tasks, AckAppend(u) PROVE FileInv'
  <2>1. Ack(arg[u]) \in Frame
    BY <1>12, FramesAreTyped DEF AckAppend, IInv, TypeOK
  <2> QED
    BY <1>12, <2>1, AppendStep DEF AckAppend
<1>13. ASSUME NEW u \in Tasks, AckRejected(u) PROVE FileInv'
  BY <1>13, RejectedStep DEF IInv, AckRejected, procVars
<1>14. ASSUME NEW u \in Tasks, AckFatal(u) PROVE FileInv'
  BY <1>14 DEF IInv, TypeOK, Mendable, AckFatal, Fail, Goto, Die, diskVars, procVars, taskVars, countVars, obsVars
<1>15. ASSUME NEW u \in Tasks, CompactRefuse(u) PROVE FileInv'
  BY <1>15 DEF IInv, TypeOK, Mendable, CompactRefuse, Fail, Goto, Die, diskVars, procVars, taskVars, countVars, obsVars
<1>16. ASSUME NEW u \in Tasks, CompactRewrite(u) PROVE FileInv'
  BY <1>16, RewriteStep DEF IInv, CompactRewrite
<1>17. ASSUME NEW u \in Tasks, CompactRemove(u) PROVE FileInv'
  BY <1>17, NoFileFacts DEF IInv, CompactRemove, procVars
<1>18. ASSUME NEW u \in Tasks, CompactMarker(u) PROVE FileInv'
  BY <1>18 DEF IInv, TypeOK, Mendable, CompactMarker, Fail, Goto, Die, diskVars, procVars, taskVars, countVars, obsVars
<1>19. ASSUME NEW u \in Tasks, CrashInAppend(u) PROVE FileInv'
  BY <1>19, KillInAppendStep DEF CrashInAppend, Die
<1>20. CASE ListPending
  BY <1>20 DEF IInv, TypeOK, Mendable, ListPending, Fail, Goto, Die, diskVars, procVars, taskVars, countVars, obsVars
<1>21. CASE Crash
  BY <1>21, KillStep DEF Crash, Die
<1>22. CASE Disaster
  BY <1>22 DEF IInv, Mendable, Disaster, procVars
<1>23. CASE UNCHANGED vars
  BY <1>23 DEF IInv, vars, diskVars, procVars, taskVars, countVars, obsVars
<1> QED
  BY <1>1, <1>2, <1>3, <1>4, <1>5, <1>6, <1>7, <1>8, <1>9, <1>10, <1>11, <1>12, <1>13, <1>14, <1>15, <1>16, <1>17, <1>18, <1>19, <1>20, <1>21, <1>22, <1>23 DEF Next, TaskStep

(* What is owed stays in the synced part of the file. *)
LEMMA KeptStep ==
    ASSUME Mendable, IInv, [Next]_vars
    PROVE  KeptInv'
<1> USE DEF KeptInv
<1>1. CASE BootRefuse
  BY <1>1 DEF IInv, TypeOK, Mendable, BootRefuse, Fail, Goto, Die, diskVars, procVars, taskVars, countVars, obsVars
<1>2. CASE BootWithoutFile
  BY <1>2, BootEmptyStep, NoFileFacts, AdmittedIds DEF IInv, BootWithoutFile, taskVars
<1>3. CASE BootRead
  <2>1. wal.frames \subseteq Readable(wal)
    BY DEF Readable
  <2> QED
    BY <1>3, <2>1, RepairStep, AdmittedIds DEF IInv, BootRead, taskVars, obsVars
<1>4. CASE BootFirstMarker
  BY <1>4 DEF IInv, TypeOK, Mendable, BootFirstMarker, Fail, Goto, Die, diskVars, procVars, taskVars, countVars, obsVars
<1>5. CASE BootFinalMarker
  BY <1>5 DEF IInv, TypeOK, Mendable, BootFinalMarker, Fail, Goto, Die, diskVars, procVars, taskVars, countVars, obsVars
<1>6. ASSUME NEW u \in Tasks, AdmitCheck(u) PROVE KeptInv'
  BY <1>6 DEF IInv, TypeOK, Mendable, AdmitCheck, Fail, Goto, Die, diskVars, procVars, taskVars, countVars, obsVars
<1>7. ASSUME NEW u \in Tasks, AdmitAppend(u) PROVE KeptInv'
  <2>1. Admission(arg[u], admitSeq + 1) \in Frame
    BY <1>7, FramesAreTyped DEF AdmitAppend, IInv, TypeOK
  <2>2. /\ wal'.frames = wal.frames \cup {Admission(arg[u], admitSeq + 1)}
        /\ Readable(wal') = Readable(wal) \cup {Admission(arg[u], admitSeq + 1)}
    BY <1>7, <2>1, AppendStep DEF AdmitAppend
  <2>3. IdsOf(Admitted(wal'.frames)) = IdsOf(Admitted(wal.frames)) \cup {arg[u]}
    BY <2>2, AdmittedIds
  <2> QED
    BY <1>7, <2>2, <2>3, AdmissionFacts DEF IInv, TypeOK, AdmitAppend, Goto, obsVars
<1>8. ASSUME NEW u \in Tasks, AdmitRejected(u) PROVE KeptInv'
  BY <1>8, RejectedStep DEF IInv, TypeOK, AdmitRejected, Goto, obsVars
<1>9. ASSUME NEW u \in Tasks, AdmitFatal(u) PROVE KeptInv'
  BY <1>9 DEF IInv, TypeOK, Mendable, AdmitFatal, Fail, Goto, Die, diskVars, procVars, taskVars, countVars, obsVars
<1>10. ASSUME NEW u \in Tasks, AdmitMarker(u) PROVE KeptInv'
  BY <1>10 DEF IInv, TypeOK, AdmitMarker, Goto
<1>11. ASSUME NEW u \in Tasks, AckCheck(u) PROVE KeptInv'
  BY <1>11 DEF IInv, TypeOK, Mendable, AckCheck, Fail, Goto, Die, diskVars, procVars, taskVars, countVars, obsVars
<1>12. ASSUME NEW u \in Tasks, AckAppend(u) PROVE KeptInv'
  <2>1. Ack(arg[u]) \in Frame
    BY <1>12, FramesAreTyped DEF AckAppend, IInv, TypeOK
  <2>2. /\ wal'.frames = wal.frames \cup {Ack(arg[u])}
        /\ Readable(wal') = Readable(wal) \cup {Ack(arg[u])}
    BY <1>12, <2>1, AppendStep DEF AckAppend
  <2>3. IdsOf(Admitted(wal'.frames)) = IdsOf(Admitted(wal.frames))
    BY <2>2, AdmittedIds
  <2> QED
    BY <1>12, <2>2, <2>3, AckFacts DEF IInv, TypeOK, AckAppend, Goto
<1>13. ASSUME NEW u \in Tasks, AckRejected(u) PROVE KeptInv'
  BY <1>13, RejectedStep DEF IInv, TypeOK, AckRejected, Goto, obsVars
<1>14. ASSUME NEW u \in Tasks, AckFatal(u) PROVE KeptInv'
  BY <1>14 DEF IInv, TypeOK, Mendable, AckFatal, Fail, Goto, Die, diskVars, procVars, taskVars, countVars, obsVars
<1>15. ASSUME NEW u \in Tasks, CompactRefuse(u) PROVE KeptInv'
  BY <1>15 DEF IInv, TypeOK, Mendable, CompactRefuse, Fail, Goto, Die, diskVars, procVars, taskVars, countVars, obsVars
<1>16. ASSUME NEW u \in Tasks, CompactRewrite(u) PROVE KeptInv'
  <2>0. CASE wal' = wal
    BY <1>16, <2>0 DEF IInv, CompactRewrite, taskVars, obsVars
  <2>1. CASE wal' # wal
    <3>1. wal.frames \subseteq Readable(wal)
      BY DEF Readable
    <3>2. accepted \ closing \subseteq IdsOf(Admitted(Readable(wal)))
      BY <3>1, AdmittedIds DEF IInv
    <3>3. \A i \in accepted \ closing : Ack(i) \notin Readable(wal)
      BY AckFacts DEF IInv
    <3>4. /\ wal'.frames = Pending(Readable(wal)) /\ Readable(wal') = Pending(Readable(wal))
          /\ Readable(wal) \in SUBSET Frame
      BY <1>16, <2>1, RewriteStep
    <3>5. accepted \ closing \subseteq IdsOf(Admitted(wal'.frames))
      BY <3>2, <3>3, <3>4, PendingIds
    <3>6. \A f \in Readable(wal') : f.type = "ack" => f.id \in closing
      BY <3>4, PendingIds
    <3>7. \A t \in Tasks : pc[t] # "marker"
      BY <1>16, NoTaskAssumption DEF IInv, GateInv, CompactRewrite
    <3> QED
      BY <1>16, <3>5, <3>6, <3>7 DEF CompactRewrite, taskVars, obsVars
  <2> QED
    BY <2>0, <2>1
<1>17. ASSUME NEW u \in Tasks, CompactRemove(u) PROVE KeptInv'
  <2>1. \A t \in Tasks : pc[t] # "marker"
    BY <1>17, NoTaskAssumption DEF IInv, GateInv, CompactRemove
  <2>2. Readable(wal) \in SUBSET Frame /\ wal.frames \subseteq Readable(wal)
    BY DEF IInv, TypeOK, Readable, Files, Tails
  <2>3. accepted \ closing = {}
    <3>1. accepted \ closing \subseteq IdsOf(Admitted(Readable(wal)))
      BY <2>2, AdmittedIds DEF IInv
    <3>2. \A i \in accepted \ closing : Ack(i) \notin Readable(wal)
      BY AckFacts DEF IInv
    <3>3. IdsOf(Pending(Readable(wal))) = {}
      BY <1>17 DEF CompactRemove, IdsOf
    <3> QED
      BY <2>2, <3>1, <3>2, <3>3, PendingIds
  <2>4. Readable(wal') \subseteq Readable(wal)
    BY <1>17, NoFileFacts DEF CompactRemove
  <2>5. UNCHANGED <<accepted, closing>> /\ \A t \in Tasks : pc'[t] # "marker"
    BY <1>17, <2>1 DEF CompactRemove, Goto, obsVars, IInv, TypeOK
  <2> QED
    BY <2>3, <2>4, <2>5 DEF IInv
<1>18. ASSUME NEW u \in Tasks, CompactMarker(u) PROVE KeptInv'
  BY <1>18 DEF IInv, TypeOK, CompactMarker, Goto, obsVars
<1>19. ASSUME NEW u \in Tasks, CrashInAppend(u) PROVE KeptInv'
  <2>1. /\ wal.frames \subseteq wal'.frames /\ Readable(wal) = wal.frames
        /\ Readable(wal') \subseteq wal.frames \cup {FrameOf(u)}
    BY <1>19, KillInAppendStep
  <2>2. accepted' = accepted /\ closing \subseteq closing' /\ \A t \in Tasks : pc'[t] = "idle"
    BY <1>19 DEF CrashInAppend, Die
  <2>3. FrameOf(u).type = "ack" => FrameOf(u).id \in closing'
    BY <1>19, AdmissionFacts, AckFacts DEF CrashInAppend, FrameOf
  <2>4. accepted' \ closing' \subseteq IdsOf(Admitted(wal'.frames))
    BY <2>1, <2>2, AdmittedIds DEF IInv
  <2> QED
    BY <2>1, <2>2, <2>3, <2>4 DEF IInv
<1>20. CASE ListPending
  BY <1>20 DEF IInv, TypeOK, Mendable, ListPending, Fail, Goto, Die, diskVars, procVars, taskVars, countVars, obsVars
<1>21. CASE Crash
  <2>1. wal.frames \subseteq wal'.frames /\ Readable(wal') \subseteq Readable(wal)
    BY <1>21, KillStep DEF Crash
  <2>2. UNCHANGED obsVars /\ \A t \in Tasks : pc'[t] = "idle"
    BY <1>21 DEF Crash, Die
  <2> QED
    BY <2>1, <2>2, AdmittedIds DEF IInv, obsVars
<1>22. CASE Disaster
  BY <1>22 DEF IInv, Mendable, Disaster, taskVars, obsVars
<1>23. CASE UNCHANGED vars
  BY <1>23 DEF IInv, vars, diskVars, procVars, taskVars, countVars, obsVars
<1> QED
  BY <1>1, <1>2, <1>3, <1>4, <1>5, <1>6, <1>7, <1>8, <1>9, <1>10, <1>11, <1>12, <1>13, <1>14, <1>15, <1>16, <1>17, <1>18, <1>19, <1>20, <1>21, <1>22, <1>23 DEF Next, TaskStep

(* What somebody has heard of once stays known. *)
LEMMA KnownStep ==
    ASSUME Mendable, IInv, [Next]_vars
    PROVE  Known \subseteq Known'
<1> USE DEF Known
<1>1. CASE BootRefuse
  BY <1>1 DEF IInv, TypeOK, Mendable, BootRefuse, Fail, Goto, Die, diskVars, procVars, taskVars, countVars, obsVars
<1>2. CASE BootWithoutFile
  BY <1>2 DEF IInv, TypeOK, Mendable, BootWithoutFile, Fail, Goto, Die, diskVars, procVars, taskVars, countVars, obsVars
<1>3. CASE BootRead
  BY <1>3 DEF IInv, TypeOK, Mendable, BootRead, Fail, Goto, Die, diskVars, procVars, taskVars, countVars, obsVars
<1>4. CASE BootFirstMarker
  BY <1>4 DEF IInv, TypeOK, Mendable, BootFirstMarker, Fail, Goto, Die, diskVars, procVars, taskVars, countVars, obsVars
<1>5. CASE BootFinalMarker
  BY <1>5 DEF IInv, TypeOK, Mendable, BootFinalMarker, Fail, Goto, Die, diskVars, procVars, taskVars, countVars, obsVars
<1>6. ASSUME NEW u \in Tasks, AdmitCheck(u) PROVE Known \subseteq Known'
  <2>1. next' = next + 1 /\ arg' = [arg EXCEPT ![u] = next] /\ next \in Nat
    BY <1>6 DEF AdmitCheck, IInv, TypeOK
  <2>2. pc' = [pc EXCEPT ![u] = "admit"]
    BY <1>6 DEF AdmitCheck, Goto
  <2>3. \A i \in Ids : i < next => i < next + 1 /\ i # next
    BY <2>1 DEF Ids
  <2> QED
    BY <2>1, <2>2, <2>3 DEF IInv, TypeOK
<1>7. ASSUME NEW u \in Tasks, AdmitAppend(u) PROVE Known \subseteq Known'
  BY <1>7 DEF IInv, TypeOK, AdmitAppend, Goto
<1>8. ASSUME NEW u \in Tasks, AdmitRejected(u) PROVE Known \subseteq Known'
  BY <1>8 DEF IInv, TypeOK, AdmitRejected, Goto
<1>9. ASSUME NEW u \in Tasks, AdmitFatal(u) PROVE Known \subseteq Known'
  BY <1>9 DEF IInv, TypeOK, AdmitFatal, Goto
<1>10. ASSUME NEW u \in Tasks, AdmitMarker(u) PROVE Known \subseteq Known'
  BY <1>10 DEF IInv, TypeOK, AdmitMarker, Goto
<1>11. ASSUME NEW u \in Tasks, AckCheck(u) PROVE Known \subseteq Known'
  BY <1>11 DEF IInv, TypeOK, Mendable, AckCheck, Fail, Goto, Die, diskVars, procVars, taskVars, countVars, obsVars
<1>12. ASSUME NEW u \in Tasks, AckAppend(u) PROVE Known \subseteq Known'
  BY <1>12 DEF IInv, TypeOK, AckAppend, Goto
<1>13. ASSUME NEW u \in Tasks, AckRejected(u) PROVE Known \subseteq Known'
  BY <1>13 DEF IInv, TypeOK, AckRejected, Goto
<1>14. ASSUME NEW u \in Tasks, AckFatal(u) PROVE Known \subseteq Known'
  BY <1>14 DEF IInv, TypeOK, AckFatal, Goto
<1>15. ASSUME NEW u \in Tasks, CompactRefuse(u) PROVE Known \subseteq Known'
  BY <1>15 DEF IInv, TypeOK, Mendable, CompactRefuse, Fail, Goto, Die, diskVars, procVars, taskVars, countVars, obsVars
<1>16. ASSUME NEW u \in Tasks, CompactRewrite(u) PROVE Known \subseteq Known'
  BY <1>16 DEF IInv, TypeOK, Mendable, CompactRewrite, Fail, Goto, Die, diskVars, procVars, taskVars, countVars, obsVars
<1>17. ASSUME NEW u \in Tasks, CompactRemove(u) PROVE Known \subseteq Known'
  BY <1>17 DEF IInv, TypeOK, CompactRemove, Goto
<1>18. ASSUME NEW u \in Tasks, CompactMarker(u) PROVE Known \subseteq Known'
  BY <1>18 DEF IInv, TypeOK, CompactMarker, Goto
<1>19. ASSUME NEW u \in Tasks, CrashInAppend(u) PROVE Known \subseteq Known'
  BY <1>19 DEF CrashInAppend, Die
<1>20. CASE ListPending
  BY <1>20 DEF IInv, TypeOK, Mendable, ListPending, Fail, Goto, Die, diskVars, procVars, taskVars, countVars, obsVars
<1>21. CASE Crash
  BY <1>21 DEF Crash, Die
<1>22. CASE Disaster
  BY <1>22 DEF IInv, TypeOK, Mendable, Disaster, Fail, Goto, Die, diskVars, procVars, taskVars, countVars, obsVars
<1>23. CASE UNCHANGED vars
  BY <1>23 DEF IInv, vars, diskVars, procVars, taskVars, countVars, obsVars
<1> QED
  BY <1>1, <1>2, <1>3, <1>4, <1>5, <1>6, <1>7, <1>8, <1>9, <1>10, <1>11, <1>12, <1>13, <1>14, <1>15, <1>16, <1>17, <1>18, <1>19, <1>20, <1>21, <1>22, <1>23 DEF Next, TaskStep

LEMMA LeavesAdmit ==
    ASSUME IInv, NEW u \in Tasks, pc[u] = "admit", next' = next,
           \A t \in Tasks : pc'[t] = "admit" => t # u /\ pc[t] = "admit" /\ arg'[t] = arg[t]
    PROVE  arg[u] \in Known'
BY DEF Known, IInv, FreshInv

(* An event on its way to its append is known nowhere else. *)
LEMMA FreshStep ==
    ASSUME Mendable, IInv, [Next]_vars
    PROVE  FreshInv'
<1> USE DEF FreshInv
<1>1. CASE BootRefuse
  BY <1>1, KnownStep DEF IInv, TypeOK, Mendable, BootRefuse, Fail, Goto, Die, diskVars, procVars, taskVars, countVars, obsVars
<1>2. CASE BootWithoutFile
  BY <1>2, KnownStep, BootEmptyStep, NoFileFacts, AdmittedIds DEF IInv, BootWithoutFile, taskVars, countVars
<1>3. CASE BootRead
  BY <1>3, KnownStep, RepairStep DEF IInv, BootRead, taskVars, countVars, obsVars
<1>4. CASE BootFirstMarker
  BY <1>4, KnownStep DEF IInv, TypeOK, Mendable, BootFirstMarker, Fail, Goto, Die, diskVars, procVars, taskVars, countVars, obsVars
<1>5. CASE BootFinalMarker
  <2>1. Readable(wal) \in SUBSET Frame /\ wal.frames \subseteq Readable(wal)
    BY DEF IInv, TypeOK, Readable, Files, Tails
  <2>2. IdsOf(Pending(wal.frames)) \subseteq IdsOf(Admitted(Readable(wal)))
    BY <2>1, PendingIds, AdmittedIds
  <2> QED
    BY <1>5, <2>2, KnownStep DEF IInv, BootFinalMarker, taskVars
<1>6. ASSUME NEW u \in Tasks, AdmitCheck(u) PROVE FreshInv'
  <2>1. next' = next + 1 /\ arg' = [arg EXCEPT ![u] = next] /\ next \in Nat /\ next <= MaxAdmissions
    BY <1>6 DEF AdmitCheck, IInv, TypeOK
  <2>2. pc' = [pc EXCEPT ![u] = "admit"]
    BY <1>6 DEF AdmitCheck, Goto
  <2>3. UNCHANGED <<wal, accepted, refused, acked, view>>
    BY <1>6 DEF AdmitCheck, diskVars, obsVars
  <2>4. next \in Ids /\ \A i \in Ids : i < next => i < next' /\ i # next
    BY <2>1, WalAssumption DEF Ids, IInv, TypeOK
  <2>5. next < next'
    BY <2>1
  <2> QED
    BY <2>1, <2>2, <2>3, <2>4, <2>5, KnownStep DEF IInv, TypeOK
<1>7. ASSUME NEW u \in Tasks, AdmitAppend(u) PROVE FreshInv'
  <2>1. Admission(arg[u], admitSeq + 1) \in Frame
    BY <1>7, FramesAreTyped DEF AdmitAppend, IInv, TypeOK
  <2>2. IdsOf(Admitted(Readable(wal'))) = IdsOf(Admitted(Readable(wal))) \cup {arg[u]}
    BY <1>7, <2>1, AppendStep, AdmittedIds DEF AdmitAppend
  <2>3. /\ UNCHANGED <<arg, next, accepted, refused, acked, view>> /\ pc[u] = "admit"
        /\ pc' = [pc EXCEPT ![u] = "marker"]
    BY <1>7 DEF AdmitAppend, Goto, obsVars
  <2>4. arg[u] \in Known'
    BY <2>3, LeavesAdmit DEF IInv, TypeOK
  <2>5. arg[u] \notin Known
    BY <2>3 DEF Known
  <2> QED
    BY <2>2, <2>3, <2>4, <2>5, KnownStep DEF IInv, TypeOK
<1>8. ASSUME NEW u \in Tasks, AdmitRejected(u) PROVE FreshInv'
  <2>2. Readable(wal') = Readable(wal)
    BY <1>8, RejectedStep DEF AdmitRejected
  <2>3. /\ UNCHANGED <<arg, next, accepted, acked, view>> /\ pc[u] = "admit"
        /\ pc' = [pc EXCEPT ![u] = "idle"] /\ refused' = refused \cup {arg[u]}
    BY <1>8 DEF AdmitRejected, Goto
  <2>4. arg[u] \in Known' /\ arg[u] \notin Known
    BY <2>3, LeavesAdmit DEF IInv, TypeOK, Known
  <2> QED
    BY <2>2, <2>3, <2>4, KnownStep DEF IInv, TypeOK
<1>9. ASSUME NEW u \in Tasks, AdmitFatal(u) PROVE FreshInv'
  BY <1>9, KnownStep DEF IInv, TypeOK, Mendable, AdmitFatal, Fail, Goto, Die, diskVars, procVars, taskVars, countVars, obsVars
<1>10. ASSUME NEW u \in Tasks, AdmitMarker(u) PROVE FreshInv'
  <2>1. /\ UNCHANGED <<wal, arg, next, refused, acked, view>> /\ pc[u] = "marker"
        /\ pc' = [pc EXCEPT ![u] = "idle"] /\ accepted' = accepted \cup {arg[u]}
    BY <1>10 DEF AdmitMarker, Goto
  <2>2. \A t \in Tasks : t # u => pc[t] # "marker"
    BY <2>1, NoTaskAssumption DEF IInv, GateInv
  <2> QED
    BY <2>1, <2>2, KnownStep DEF IInv, TypeOK
<1>11. ASSUME NEW u \in Tasks, AckCheck(u) PROVE FreshInv'
  <2>1. PICK i \in accepted \cup view : arg' = [arg EXCEPT ![u] = i]
    BY <1>11 DEF AckCheck
  <2>2. i \in Known \ refused
    BY <2>1 DEF SettledInv, IInv
  <2> QED
    BY <1>11, <2>1, <2>2, KnownStep DEF IInv, TypeOK, AckCheck, Goto, diskVars, obsVars
<1>12. ASSUME NEW u \in Tasks, AckAppend(u) PROVE FreshInv'
  <2>1. Ack(arg[u]) \in Frame
    BY <1>12, FramesAreTyped DEF AckAppend, IInv, TypeOK
  <2>2. IdsOf(Admitted(Readable(wal'))) = IdsOf(Admitted(Readable(wal)))
    BY <1>12, <2>1, AppendStep, AdmittedIds DEF AckAppend
  <2> QED
    BY <1>12, <2>2, KnownStep DEF IInv, TypeOK, AckAppend, Goto
<1>13. ASSUME NEW u \in Tasks, AckRejected(u) PROVE FreshInv'
  <2>2. Readable(wal') = Readable(wal)
    BY <1>13, RejectedStep DEF AckRejected
  <2> QED
    BY <1>13, <2>2, KnownStep DEF IInv, TypeOK, AckRejected, Goto, obsVars
<1>14. ASSUME NEW u \in Tasks, AckFatal(u) PROVE FreshInv'
  BY <1>14, KnownStep DEF IInv, TypeOK, Mendable, AckFatal, Fail, Goto, Die, diskVars, procVars, taskVars, countVars, obsVars
<1>15. ASSUME NEW u \in Tasks, CompactRefuse(u) PROVE FreshInv'
  BY <1>15, KnownStep DEF IInv, TypeOK, Mendable, CompactRefuse, Fail, Goto, Die, diskVars, procVars, taskVars, countVars, obsVars
<1>16. ASSUME NEW u \in Tasks, CompactRewrite(u) PROVE FreshInv'
  <2>1. IdsOf(Admitted(Readable(wal'))) \subseteq IdsOf(Admitted(Readable(wal)))
    BY <1>16, RewriteStep, PendingIds, AdmittedIds
  <2> QED
    BY <1>16, <2>1, KnownStep DEF IInv, CompactRewrite, taskVars, obsVars
<1>17. ASSUME NEW u \in Tasks, CompactRemove(u) PROVE FreshInv'
  <2>1. Readable(wal') \subseteq Readable(wal)
    BY <1>17, NoFileFacts DEF CompactRemove
  <2> QED
    BY <1>17, <2>1, KnownStep, AdmittedIds DEF IInv, TypeOK, CompactRemove, Goto, obsVars
<1>18. ASSUME NEW u \in Tasks, CompactMarker(u) PROVE FreshInv'
  BY <1>18, KnownStep DEF IInv, TypeOK, CompactMarker, Goto, obsVars
<1>19. ASSUME NEW u \in Tasks, CrashInAppend(u) PROVE FreshInv'
  <2>1. /\ UNCHANGED <<next, accepted, refused, acked, view>>
        /\ pc[u] \in {"admit", "ack"} /\ \A t \in Tasks : pc'[t] = "idle"
    BY <1>19 DEF CrashInAppend, Die
  <2>2. Readable(wal') \subseteq Readable(wal) \cup {FrameOf(u)}
    BY <1>19, KillInAppendStep
  <2>3. CASE pc[u] = "admit"
    <3>1. arg[u] \in Known'
      BY <2>1, <2>3, LeavesAdmit
    <3>2. FrameOf(u) = Admission(arg[u], admitSeq + 1)
      BY <2>3 DEF FrameOf
    <3>3. IdsOf(Admitted(Readable(wal'))) \subseteq
              IdsOf(Admitted(Readable(wal) \cup {Admission(arg[u], admitSeq + 1)}))
      BY <2>2, <3>2, AdmittedIds
    <3>4. IdsOf(Admitted(Readable(wal'))) \subseteq IdsOf(Admitted(Readable(wal))) \cup {arg[u]}
      BY <3>3, AdmittedIds
    <3> QED
      BY <2>1, <3>1, <3>4, KnownStep DEF IInv
  <2>4. CASE pc[u] = "ack"
    <3>2. FrameOf(u) = Ack(arg[u])
      BY <2>4 DEF FrameOf
    <3>3. IdsOf(Admitted(Readable(wal'))) \subseteq IdsOf(Admitted(Readable(wal) \cup {Ack(arg[u])}))
      BY <2>2, <3>2, AdmittedIds
    <3>4. IdsOf(Admitted(Readable(wal'))) \subseteq IdsOf(Admitted(Readable(wal)))
      BY <3>3, AdmittedIds
    <3> QED
      BY <2>1, <3>4, KnownStep DEF IInv
  <2> QED
    BY <2>1, <2>3, <2>4
<1>20. CASE ListPending
  <2>1. Readable(wal) \in SUBSET Frame
    BY DEF IInv, TypeOK, Readable, Files, Tails
  <2>2. IdsOf(Pending(Readable(wal))) \subseteq IdsOf(Admitted(Readable(wal)))
    BY <2>1, PendingIds
  <2> QED
    BY <1>20, <2>2, KnownStep DEF IInv, ListPending, taskVars, diskVars
<1>21. CASE Crash
  <2>1. Readable(wal') \subseteq Readable(wal)
    BY <1>21, KillStep DEF Crash
  <2>2. UNCHANGED obsVars /\ next' = next /\ \A t \in Tasks : pc'[t] = "idle"
    BY <1>21 DEF Crash, Die
  <2> QED
    BY <2>1, <2>2, AdmittedIds, KnownStep DEF IInv, obsVars
<1>22. CASE Disaster
  BY <1>22, KnownStep DEF IInv, TypeOK, Mendable, Disaster, Fail, Goto, Die, diskVars, procVars, taskVars, countVars, obsVars
<1>23. CASE UNCHANGED vars
  BY <1>23, KnownStep DEF IInv, vars, diskVars, procVars, taskVars, countVars, obsVars
<1> QED
  BY <1>1, <1>2, <1>3, <1>4, <1>5, <1>6, <1>7, <1>8, <1>9, <1>10, <1>11, <1>12, <1>13, <1>14, <1>15, <1>16, <1>17, <1>18, <1>19, <1>20, <1>21, <1>22, <1>23 DEF Next, TaskStep

(* Refused and acknowledged events stay that way. *)
LEMMA SettledStep ==
    ASSUME Mendable, IInv, [Next]_vars
    PROVE  SettledInv'
<1> USE DEF SettledInv
<1>1. CASE BootRefuse
  BY <1>1 DEF IInv, TypeOK, Mendable, BootRefuse, Fail, Goto, Die, diskVars, procVars, taskVars, countVars, obsVars
<1>2. CASE BootWithoutFile
  BY <1>2, BootEmptyStep, NoFileFacts, AdmittedIds DEF IInv, BootWithoutFile
<1>3. CASE BootRead
  <2>1. wal.frames \subseteq Readable(wal)
    BY DEF Readable
  <2> QED
    BY <1>3, <2>1, RepairStep DEF IInv, BootRead, obsVars
<1>4. CASE BootFirstMarker
  BY <1>4 DEF IInv, TypeOK, Mendable, BootFirstMarker, Fail, Goto, Die, diskVars, procVars, taskVars, countVars, obsVars
<1>5. CASE BootFinalMarker
  <2>1. Readable(wal) \in SUBSET Frame /\ wal.frames \subseteq Readable(wal)
    BY DEF IInv, TypeOK, Readable, Files, Tails
  <2>2. IdsOf(Pending(wal.frames)) \subseteq IdsOf(Admitted(Readable(wal)))
    BY <2>1, PendingIds, AdmittedIds
  <2> QED
    BY <1>5, <2>2 DEF IInv, BootFinalMarker
<1>6. ASSUME NEW u \in Tasks, AdmitCheck(u) PROVE SettledInv'
  BY <1>6 DEF IInv, TypeOK, Mendable, AdmitCheck, Fail, Goto, Die, diskVars, procVars, taskVars, countVars, obsVars
<1>7. ASSUME NEW u \in Tasks, AdmitAppend(u) PROVE SettledInv'
  <2>1. Admission(arg[u], admitSeq + 1) \in Frame
    BY <1>7, FramesAreTyped DEF AdmitAppend, IInv, TypeOK
  <2>2. /\ IdsOf(Admitted(Readable(wal'))) = IdsOf(Admitted(Readable(wal))) \cup {arg[u]}
        /\ wal.frames \subseteq wal'.frames
    BY <1>7, <2>1, AppendStep, AdmittedIds DEF AdmitAppend
  <2>3. UNCHANGED <<accepted, refused, acked, view>> /\ pc[u] = "admit"
    BY <1>7 DEF AdmitAppend, obsVars
  <2>4. arg[u] \notin Known
    BY <2>3 DEF Known
  <2> QED
    BY <2>2, <2>3, <2>4 DEF IInv, FreshInv
<1>8. ASSUME NEW u \in Tasks, AdmitRejected(u) PROVE SettledInv'
  <2>1. Readable(wal') = Readable(wal) /\ wal'.frames = wal.frames
    BY <1>8, RejectedStep DEF AdmitRejected
  <2>2. /\ UNCHANGED <<accepted, acked, view>> /\ pc[u] = "admit"
        /\ refused' = refused \cup {arg[u]}
    BY <1>8 DEF AdmitRejected
  <2>3. arg[u] \notin Known
    BY <2>2 DEF Known
  <2> QED
    BY <2>1, <2>2, <2>3 DEF IInv, FreshInv
<1>9. ASSUME NEW u \in Tasks, AdmitFatal(u) PROVE SettledInv'
  BY <1>9 DEF IInv, TypeOK, Mendable, AdmitFatal, Fail, Goto, Die, diskVars, procVars, taskVars, countVars, obsVars
<1>10. ASSUME NEW u \in Tasks, AdmitMarker(u) PROVE SettledInv'
  BY <1>10 DEF IInv, FreshInv, AdmitMarker
<1>11. ASSUME NEW u \in Tasks, AckCheck(u) PROVE SettledInv'
  BY <1>11 DEF IInv, TypeOK, Mendable, AckCheck, Fail, Goto, Die, diskVars, procVars, taskVars, countVars, obsVars
<1>12. ASSUME NEW u \in Tasks, AckAppend(u) PROVE SettledInv'
  <2>1. Ack(arg[u]) \in Frame
    BY <1>12, FramesAreTyped DEF AckAppend, IInv, TypeOK
  <2>2. /\ IdsOf(Admitted(Readable(wal'))) = IdsOf(Admitted(Readable(wal)))
        /\ wal'.frames = wal.frames \cup {Ack(arg[u])}
    BY <1>12, <2>1, AppendStep, AdmittedIds DEF AckAppend
  <2> QED
    BY <1>12, <2>2 DEF IInv, AckAppend
<1>13. ASSUME NEW u \in Tasks, AckRejected(u) PROVE SettledInv'
  <2>1. Readable(wal') = Readable(wal) /\ wal'.frames = wal.frames
    BY <1>13, RejectedStep DEF AckRejected
  <2> QED
    BY <1>13, <2>1 DEF IInv, AckRejected, obsVars
<1>14. ASSUME NEW u \in Tasks, AckFatal(u) PROVE SettledInv'
  BY <1>14 DEF IInv, TypeOK, Mendable, AckFatal, Fail, Goto, Die, diskVars, procVars, taskVars, countVars, obsVars
<1>15. ASSUME NEW u \in Tasks, CompactRefuse(u) PROVE SettledInv'
  BY <1>15 DEF IInv, TypeOK, Mendable, CompactRefuse, Fail, Goto, Die, diskVars, procVars, taskVars, countVars, obsVars
<1>16. ASSUME NEW u \in Tasks, CompactRewrite(u) PROVE SettledInv'
  <2>1. UNCHANGED obsVars
    BY <1>16 DEF CompactRewrite
  <2>2. CASE wal' = wal
    BY <2>1, <2>2 DEF IInv, obsVars
  <2>3. CASE wal' # wal
    <3>1. /\ wal'.frames = Pending(Readable(wal)) /\ Readable(wal') = Pending(Readable(wal))
          /\ Readable(wal) \in SUBSET Frame
      BY <1>16, <2>3, RewriteStep
    <3>2. wal.frames \subseteq Readable(wal)
      BY DEF Readable
    <3>3. IdsOf(Admitted(Readable(wal'))) =
              {i \in IdsOf(Admitted(Readable(wal))) : Ack(i) \notin Readable(wal)}
      BY <3>1, PendingIds
    <3> QED
      BY <2>1, <3>2, <3>3 DEF IInv, obsVars
  <2> QED
    BY <2>2, <2>3
<1>17. ASSUME NEW u \in Tasks, CompactRemove(u) PROVE SettledInv'
  <2>1. CASE wal' = wal
    BY <1>17, <2>1 DEF IInv, CompactRemove, obsVars
  <2>2. CASE wal' = NoFile
    BY <1>17, <2>2, NoFileFacts, AdmittedIds DEF IInv, CompactRemove, obsVars
  <2> QED
    BY <1>17, <2>1, <2>2 DEF CompactRemove
<1>18. ASSUME NEW u \in Tasks, CompactMarker(u) PROVE SettledInv'
  BY <1>18 DEF IInv, TypeOK, Mendable, CompactMarker, Fail, Goto, Die, diskVars, procVars, taskVars, countVars, obsVars
<1>19. ASSUME NEW u \in Tasks, CrashInAppend(u) PROVE SettledInv'
  <2>1. UNCHANGED <<accepted, refused, acked, view>> /\ pc[u] \in {"admit", "ack"}
    BY <1>19 DEF CrashInAppend
  <2>2. /\ Readable(wal') \subseteq Readable(wal) \cup {FrameOf(u)}
        /\ wal.frames \subseteq wal'.frames
    BY <1>19, KillInAppendStep
  <2>3. CASE pc[u] = "admit"
    <3>1. arg[u] \notin Known
      BY <2>3 DEF Known
    <3>2. FrameOf(u) = Admission(arg[u], admitSeq + 1)
      BY <2>3 DEF FrameOf
    <3>3. IdsOf(Admitted(Readable(wal'))) \subseteq
              IdsOf(Admitted(Readable(wal) \cup {Admission(arg[u], admitSeq + 1)}))
      BY <2>2, <3>2, AdmittedIds
    <3>4. IdsOf(Admitted(Readable(wal'))) \subseteq IdsOf(Admitted(Readable(wal))) \cup {arg[u]}
      BY <3>3, AdmittedIds
    <3> QED
      BY <2>1, <2>2, <3>1, <3>4 DEF IInv, FreshInv
  <2>4. CASE pc[u] = "ack"
    <3>2. FrameOf(u) = Ack(arg[u])
      BY <2>4 DEF FrameOf
    <3>3. IdsOf(Admitted(Readable(wal'))) \subseteq IdsOf(Admitted(Readable(wal) \cup {Ack(arg[u])}))
      BY <2>2, <3>2, AdmittedIds
    <3>4. IdsOf(Admitted(Readable(wal'))) \subseteq IdsOf(Admitted(Readable(wal)))
      BY <3>3, AdmittedIds
    <3> QED
      BY <2>1, <2>2, <3>4 DEF IInv
  <2> QED
    BY <2>1, <2>3, <2>4
<1>20. CASE ListPending
  <2>1. Readable(wal) \in SUBSET Frame
    BY DEF IInv, TypeOK, Readable, Files, Tails
  <2>2. IdsOf(Pending(Readable(wal))) \subseteq IdsOf(Admitted(Readable(wal)))
    BY <2>1, PendingIds
  <2> QED
    BY <1>20, <2>2 DEF IInv, ListPending, diskVars
<1>21. CASE Crash
  <2>1. wal.frames \subseteq wal'.frames /\ Readable(wal') \subseteq Readable(wal)
    BY <1>21, KillStep DEF Crash
  <2>2. IdsOf(Admitted(Readable(wal'))) \subseteq IdsOf(Admitted(Readable(wal)))
    BY <2>1, AdmittedIds
  <2> QED
    BY <1>21, <2>1, <2>2 DEF IInv, Crash, obsVars
<1>22. CASE Disaster
  BY <1>22 DEF IInv, TypeOK, Mendable, Disaster, Fail, Goto, Die, diskVars, procVars, taskVars, countVars, obsVars
<1>23. CASE UNCHANGED vars
  BY <1>23 DEF IInv, vars, diskVars, procVars, taskVars, countVars, obsVars
<1> QED
  BY <1>1, <1>2, <1>3, <1>4, <1>5, <1>6, <1>7, <1>8, <1>9, <1>10, <1>11, <1>12, <1>13, <1>14, <1>15, <1>16, <1>17, <1>18, <1>19, <1>20, <1>21, <1>22, <1>23 DEF Next, TaskStep

LEMMA InvariantInit == Init => IInv
<1> SUFFICES ASSUME Init PROVE IInv
  OBVIOUS
<1>1. TypeOK
  BY TypeInit
<1>2. GateInv /\ FileInv
  BY NoFileFacts, NoTaskAssumption DEF Init, GateInv, FileInv
<1>3. accepted = {} /\ refused = {} /\ closing = {} /\ acked = {} /\ view = {}
  BY DEF Init, Ledger!LedgerInit
<1>4. Readable(wal) = {} /\ IdsOf(Admitted(Readable(wal))) = {}
  BY NoFileFacts, AdmittedIds DEF Init
<1>5. KeptInv /\ FreshInv /\ SettledInv
  BY <1>3, <1>4 DEF Init, KeptInv, FreshInv, SettledInv
<1> QED
  BY <1>1, <1>2, <1>5 DEF IInv

LEMMA InvariantStep == Mendable /\ IInv /\ [Next]_vars => IInv'
BY TypeStep, GateStep, FileStep, KeptStep, FreshStep, SettledStep DEF IInv

(* The inductive invariant holds for every number of tasks, admissions,    *)
(* kills, failures and marker removals (admit, ack, compact, replay).      *)
THEOREM InductiveInvariant == ASSUME Mendable PROVE Spec => []IInv
<1>1. Init => IInv
  BY InvariantInit
<1>2. IInv /\ [Next]_vars => IInv'
  BY InvariantStep
<1> QED
  BY <1>1, <1>2, PTL DEF Spec

LEMMA KeptIsPending == IInv => NoLoss
<1> SUFFICES ASSUME IInv PROVE NoLoss
  OBVIOUS
<1>1. Readable(wal) \in SUBSET Frame /\ wal.frames \subseteq Readable(wal)
  BY DEF IInv, TypeOK, Readable, Files, Tails
<1>2. accepted \ closing \subseteq IdsOf(Admitted(Readable(wal)))
  BY <1>1, AdmittedIds DEF IInv, KeptInv
<1>3. \A i \in accepted \ closing : Ack(i) \notin Readable(wal)
  BY AckFacts DEF IInv, KeptInv
<1> QED
  BY <1>1, <1>2, <1>3, PendingIds DEF NoLoss

LEMMA SettledIsNoGhost == IInv => NoGhost
<1> SUFFICES ASSUME IInv PROVE NoGhost
  OBVIOUS
<1>1. Readable(wal) \in SUBSET Frame /\ wal.frames \subseteq Readable(wal)
  BY DEF IInv, TypeOK, Readable, Files, Tails
<1>2. IdsOf(Pending(Readable(wal))) =
          {i \in IdsOf(Admitted(Readable(wal))) : Ack(i) \notin Readable(wal)}
  BY <1>1, PendingIds
<1> QED
  BY <1>1, <1>2 DEF IInv, SettledInv, NoGhost

(* An admitted event that nobody tried to acknowledge is a readable,       *)
(* pending frame of the log in every state, through rollbacks, torn tails, *)
(* compactions, kills and repairs (wal/mod.rs admit, ack, compact, replay).*)
THEOREM NothingLost == ASSUME Mendable PROVE Spec => []NoLoss
BY InductiveInvariant, KeptIsPending, PTL

(* An event whose caller was told it failed is in no frame, and an event   *)
(* whose ACK was confirmed is not pending again (append_frame_inner, ack,  *)
(* compact).                                                               *)
THEOREM NothingResurrected == ASSUME Mendable PROVE Spec => []NoGhost
BY InductiveInvariant, SettledIsNoGhost, PTL

(* Every step of the log is a step of its promise *)

LEMMA ReportIsStep ==
    ASSUME NEW S \in SUBSET Ids, accepted \ closing \subseteq S,
           S \cap (refused \cup acked) = {}, view' = S,
           UNCHANGED <<accepted, refused, closing, acked>>
    PROVE  Ledger!LedgerNext
BY DEF Ledger!LedgerNext, Ledger!Report

LEMMA ReportOfPending ==
    ASSUME IInv, view' = IdsOf(Pending(Readable(wal))),
           UNCHANGED <<accepted, refused, closing, acked>>
    PROVE  Ledger!LedgerNext
<1> DEFINE S == IdsOf(Pending(Readable(wal)))
<1>1. Readable(wal) \in SUBSET Frame
  BY DEF IInv, TypeOK, Readable, Files, Tails
<1>2. S \subseteq Ids /\ S \subseteq IdsOf(Admitted(Readable(wal)))
  BY <1>1, FramesAreTyped, PendingIds
<1>3. accepted \ closing \subseteq S
  BY KeptIsPending DEF NoLoss
<1>4. S \cap (refused \cup acked) = {}
  BY <1>2, SettledIsNoGhost DEF NoGhost, IInv, SettledInv
<1> QED
  BY <1>2, <1>3, <1>4, ReportIsStep

(* A step of the log is a step of the ledger or leaves it alone. *)
LEMMA StepRefines ==
    ASSUME Mendable, IInv, [Next]_vars
    PROVE  [Ledger!LedgerNext]_(Ledger!ledgerVars)
<1>1. CASE BootRefuse
  BY <1>1 DEF BootRefuse, obsVars, Ledger!ledgerVars
<1>2. CASE BootWithoutFile
  <2>1. accepted \ closing = {}
    BY <1>2, BootEmptyStep, AdmittedIds DEF IInv, KeptInv
  <2> QED
    BY <1>2, <2>1, ReportIsStep DEF BootWithoutFile
<1>3. CASE BootRead
  BY <1>3 DEF BootRead, obsVars, Ledger!ledgerVars
<1>4. CASE BootFirstMarker
  BY <1>4 DEF BootFirstMarker, obsVars, Ledger!ledgerVars
<1>5. CASE BootFinalMarker
  <2>1. CASE UNCHANGED view
    BY <1>5, <2>1 DEF BootFinalMarker, Ledger!ledgerVars
  <2>2. CASE view' = IdsOf(Pending(wal.frames))
    <3>1. Readable(wal) = wal.frames
      BY <1>5, ReadableOfSynced DEF BootFinalMarker, IInv, TypeOK, FileInv
    <3> QED
      BY <1>5, <2>2, <3>1, ReportOfPending DEF BootFinalMarker
  <2> QED
    BY <1>5, <2>1, <2>2 DEF BootFinalMarker
<1>6. ASSUME NEW u \in Tasks, AdmitCheck(u) PROVE [Ledger!LedgerNext]_(Ledger!ledgerVars)
  BY <1>6 DEF AdmitCheck, obsVars, Ledger!ledgerVars
<1>7. ASSUME NEW u \in Tasks, AdmitAppend(u) PROVE [Ledger!LedgerNext]_(Ledger!ledgerVars)
  BY <1>7 DEF AdmitAppend, obsVars, Ledger!ledgerVars
<1>8. ASSUME NEW u \in Tasks, AdmitRejected(u) PROVE [Ledger!LedgerNext]_(Ledger!ledgerVars)
  <2>1. arg[u] \in Ids /\ arg[u] \notin Known
    BY <1>8 DEF AdmitRejected, IInv, TypeOK, Known
  <2>2. Ledger!Refuse(arg[u])
    BY <1>8, <2>1 DEF AdmitRejected, IInv, FreshInv, Ledger!Refuse
  <2> QED
    BY <2>1, <2>2 DEF Ledger!LedgerNext
<1>9. ASSUME NEW u \in Tasks, AdmitFatal(u) PROVE [Ledger!LedgerNext]_(Ledger!ledgerVars)
  BY <1>9 DEF AdmitFatal, Fail, Mendable
<1>10. ASSUME NEW u \in Tasks, AdmitMarker(u) PROVE [Ledger!LedgerNext]_(Ledger!ledgerVars)
  <2>1. arg[u] \in Ids /\ arg[u] \notin accepted \cup refused
    BY <1>10 DEF AdmitMarker, IInv, TypeOK, FreshInv
  <2>2. Ledger!Accept(arg[u])
    BY <1>10, <2>1 DEF AdmitMarker, Ledger!Accept
  <2> QED
    BY <2>1, <2>2 DEF Ledger!LedgerNext
<1>11. ASSUME NEW u \in Tasks, AckCheck(u) PROVE [Ledger!LedgerNext]_(Ledger!ledgerVars)
  BY <1>11 DEF AckCheck, obsVars, Ledger!ledgerVars
<1>12. ASSUME NEW u \in Tasks, AckAppend(u) PROVE [Ledger!LedgerNext]_(Ledger!ledgerVars)
  <2>1. arg[u] \in Ids /\ arg[u] \notin refused
    BY <1>12 DEF AckAppend, IInv, TypeOK, FreshInv
  <2>2. Ledger!Close(arg[u])
    BY <1>12, <2>1 DEF AckAppend, Ledger!Close
  <2> QED
    BY <2>1, <2>2 DEF Ledger!LedgerNext
<1>13. ASSUME NEW u \in Tasks, AckRejected(u) PROVE [Ledger!LedgerNext]_(Ledger!ledgerVars)
  BY <1>13 DEF AckRejected, obsVars, Ledger!ledgerVars
<1>14. ASSUME NEW u \in Tasks, AckFatal(u) PROVE [Ledger!LedgerNext]_(Ledger!ledgerVars)
  BY <1>14 DEF AckFatal, Fail, Mendable
<1>15. ASSUME NEW u \in Tasks, CompactRefuse(u) PROVE [Ledger!LedgerNext]_(Ledger!ledgerVars)
  BY <1>15 DEF CompactRefuse, obsVars, Ledger!ledgerVars
<1>16. ASSUME NEW u \in Tasks, CompactRewrite(u) PROVE [Ledger!LedgerNext]_(Ledger!ledgerVars)
  BY <1>16 DEF CompactRewrite, obsVars, Ledger!ledgerVars
<1>17. ASSUME NEW u \in Tasks, CompactRemove(u) PROVE [Ledger!LedgerNext]_(Ledger!ledgerVars)
  BY <1>17 DEF CompactRemove, obsVars, Ledger!ledgerVars
<1>18. ASSUME NEW u \in Tasks, CompactMarker(u) PROVE [Ledger!LedgerNext]_(Ledger!ledgerVars)
  BY <1>18 DEF CompactMarker, obsVars, Ledger!ledgerVars
<1>19. ASSUME NEW u \in Tasks, CrashInAppend(u) PROVE [Ledger!LedgerNext]_(Ledger!ledgerVars)
  <2>1. CASE pc[u] = "ack"
    <3>1. arg[u] \in Ids /\ arg[u] \notin refused
      BY <2>1 DEF IInv, TypeOK, FreshInv
    <3>2. Ledger!TryClose(arg[u])
      BY <1>19, <2>1, <3>1 DEF CrashInAppend, Ledger!TryClose
    <3> QED
      BY <3>1, <3>2 DEF Ledger!LedgerNext
  <2>2. CASE pc[u] # "ack"
    BY <1>19, <2>2 DEF CrashInAppend, Ledger!ledgerVars
  <2> QED
    BY <2>1, <2>2
<1>20. CASE ListPending
  <2>1. CASE UNCHANGED view
    BY <1>20, <2>1 DEF ListPending, Ledger!ledgerVars
  <2>2. CASE view' = IdsOf(Pending(Readable(wal)))
    BY <1>20, <2>2, ReportOfPending DEF ListPending
  <2> QED
    BY <1>20, <2>1, <2>2 DEF ListPending
<1>21. CASE Crash
  BY <1>21 DEF Crash, obsVars, Ledger!ledgerVars
<1>22. CASE Disaster
  BY <1>22 DEF Disaster, obsVars, Ledger!ledgerVars
<1>23. CASE UNCHANGED vars
  BY <1>23 DEF vars, obsVars, Ledger!ledgerVars
<1> QED
  BY <1>1, <1>2, <1>3, <1>4, <1>5, <1>6, <1>7, <1>8, <1>9, <1>10, <1>11, <1>12, <1>13, <1>14, <1>15, <1>16, <1>17, <1>18, <1>19, <1>20, <1>21, <1>22, <1>23 DEF Next, TaskStep

(* The log keeps the promises of AdmissionLedger to its callers, whatever  *)
(* the number of tasks, admissions, kills, I/O failures and marker         *)
(* removals (wal/mod.rs admit, ack, compact, replay, list_pending).        *)
THEOREM Refinement == ASSUME Mendable PROVE Spec => ImplementsLedger
<1>1. Init => Ledger!LedgerInit
  BY DEF Init
<1>2. IInv /\ [Next]_vars => [Ledger!LedgerNext]_(Ledger!ledgerVars)
  BY StepRefines
<1> QED
  BY <1>1, <1>2, InductiveInvariant, PTL DEF Spec, ImplementsLedger, Ledger!LedgerSpec

-----------------------------------------------------------------------------
(* The sequences *)

(* The sequences of the frames a replay would read are distinct, and a     *)
(* process that admits knows the highest of them.                          *)
SeqInv ==
    /\ SequencesDistinct
    /\ phase = "up" => \A f \in Admitted(Readable(wal)) : f.seq <= admitSeq

LEMMA SeqInit == Init => SeqInv
BY NoFileFacts DEF Init, SeqInv, SequencesDistinct, Admitted

(* Steps that add no admission, by a process that keeps its count. *)
LEMMA SeqKept ==
    ASSUME SeqInv, Admitted(Readable(wal')) \subseteq Admitted(Readable(wal)),
           phase' = "up" => phase = "up" /\ admitSeq' = admitSeq
    PROVE  SeqInv'
BY DEF SeqInv, SequencesDistinct

(* Admissions get the next sequence, whose frame counts even if its caller *)
(* hears nothing; a start counts the frames it found.                      *)
LEMMA SeqStep ==
    ASSUME Mendable, IInv, SeqInv, [Next]_vars
    PROVE  SeqInv'
<1> DEFINE Old == Admitted(Readable(wal))
<1>0. Readable(wal) \in SUBSET Frame /\ admitSeq \in Nat /\ Old \in SUBSET Frame
  BY DEF IInv, TypeOK, Readable, Files, Tails, Admitted
<1>1. CASE UNCHANGED <<wal, phase, admitSeq>>
  BY <1>1, SeqKept
<1>2. CASE BootRefuse
  BY <1>2, SeqKept DEF BootRefuse, diskVars
<1>3. CASE BootWithoutFile
  <2>1. Admitted(Readable(wal')) = {}
    BY <1>3, BootEmptyStep, NoFileFacts DEF Admitted
  <2> QED
    BY <2>1 DEF SeqInv, SequencesDistinct
<1>4. CASE BootRead
  BY <1>4, RepairStep, SeqKept DEF BootRead
<1>5. CASE BootFirstMarker
  BY <1>1, <1>5 DEF BootFirstMarker, procVars
<1>6. CASE BootFinalMarker
  <2>1. wal' = wal /\ Readable(wal) = wal.frames
    BY <1>6, ReadableOfSynced DEF BootFinalMarker, IInv, TypeOK, FileInv
  <2>2. \A f \in Admitted(wal.frames) : f.seq <= admitSeq'
    BY <1>6 DEF BootFinalMarker, Restored
  <2> QED
    BY <2>1, <2>2 DEF SeqInv, SequencesDistinct
<1>7. ASSUME NEW u \in Tasks, AdmitAppend(u) PROVE SeqInv'
  <2> DEFINE f == Admission(arg[u], admitSeq + 1)
  <2>1. f \in Frame
    BY <1>7, FramesAreTyped DEF AdmitAppend, IInv, TypeOK
  <2>2. Readable(wal') = Readable(wal) \cup {f}
    BY <1>7, <2>1, AppendStep DEF AdmitAppend
  <2>3. Admitted(Readable(wal')) \subseteq Old \cup {f} /\ f.seq = admitSeq + 1
    BY <2>2 DEF Admitted, Admission
  <2>4. phase = "up" /\ admitSeq' = admitSeq + 1
    BY <1>7 DEF AdmitAppend, IInv, GateInv
  <2>5. \A g \in Old : g.seq \in Nat /\ g.seq <= admitSeq
    BY <1>0, <2>4 DEF SeqInv, Frame
  <2> HIDE DEF f, Old
  <2>6. \A g \in Admitted(Readable(wal')) : g.seq <= admitSeq + 1
    BY <1>0, <2>3, <2>5
  <2>7. ASSUME NEW g \in Admitted(Readable(wal')), NEW h \in Admitted(Readable(wal')),
               g.seq = h.seq
        PROVE  g = h
    BY <1>0, <2>3, <2>5, <2>7 DEF SeqInv, SequencesDistinct, Old
  <2> QED
    BY <2>4, <2>6, <2>7 DEF SeqInv, SequencesDistinct
<1>8. ASSUME NEW u \in Tasks, AckAppend(u) PROVE SeqInv'
  <2>1. Ack(arg[u]) \in Frame
    BY <1>8, FramesAreTyped DEF AckAppend, IInv, TypeOK
  <2>2. Readable(wal') = Readable(wal) \cup {Ack(arg[u])}
    BY <1>8, <2>1, AppendStep DEF AckAppend
  <2>3. Admitted(Readable(wal')) = Old
    BY <2>2, AckFacts DEF Admitted
  <2> QED
    BY <1>8, <2>3, SeqKept DEF AckAppend, procVars
<1>9. ASSUME NEW u \in Tasks, AdmitRejected(u) \/ AckRejected(u) PROVE SeqInv'
  BY <1>9, RejectedStep, SeqKept DEF AdmitRejected, AckRejected, procVars
<1>10. ASSUME NEW u \in Tasks, CompactRewrite(u) PROVE SeqInv'
  <2>1. Readable(wal') \subseteq Readable(wal)
    BY <1>10, RewriteStep, PendingIds
  <2> QED
    BY <1>10, <2>1, SeqKept DEF CompactRewrite, Admitted
<1>11. ASSUME NEW u \in Tasks, CompactRemove(u) PROVE SeqInv'
  <2>1. Readable(wal') \subseteq Readable(wal)
    BY <1>11, NoFileFacts DEF CompactRemove
  <2> QED
    BY <1>11, <2>1, SeqKept DEF CompactRemove, procVars, Admitted
<1>12. ASSUME NEW u \in Tasks, CrashInAppend(u) PROVE SeqInv'
  <2>1. Readable(wal') \subseteq Readable(wal) \cup {FrameOf(u)} /\ FrameOf(u) \in Frame
    BY <1>12, KillInAppendStep
  <2>2. phase' = "down" /\ phase = "up"
    BY <1>12 DEF CrashInAppend, Die, IInv, GateInv
  <2>3. CASE pc[u] = "admit"
    <3>1. FrameOf(u).seq = admitSeq + 1
      BY <2>3 DEF FrameOf, Admission
    <3>2. \A g \in Old : g.seq \in Nat /\ g.seq <= admitSeq
      BY <1>0, <2>2 DEF SeqInv, Frame
    <3>3. Admitted(Readable(wal')) \subseteq Old \cup {FrameOf(u)}
      BY <2>1 DEF Admitted
    <3> HIDE DEF Old
    <3>4. ASSUME NEW g \in Admitted(Readable(wal')), NEW h \in Admitted(Readable(wal')),
                 g.seq = h.seq
          PROVE  g = h
      BY <1>0, <3>1, <3>2, <3>3, <3>4 DEF SeqInv, SequencesDistinct, Old
    <3> QED
      BY <2>2, <3>4 DEF SeqInv, SequencesDistinct
  <2>4. CASE pc[u] # "admit"
    <3>1. FrameOf(u).type = "ack"
      BY <2>4, AckFacts DEF FrameOf
    <3>2. Admitted(Readable(wal')) \subseteq Old
      BY <2>1, <3>1 DEF Admitted
    <3> QED
      BY <2>2, <3>2, SeqKept
  <2> QED
    BY <2>3, <2>4
<1>13. CASE Crash
  <2>1. Readable(wal') \subseteq Readable(wal)
    BY <1>13, KillStep DEF Crash
  <2> QED
    BY <1>13, <2>1, SeqKept DEF Crash, Die, Admitted
<1>14. CASE Disaster
  BY <1>1, <1>14 DEF Disaster, Mendable, procVars
<1>15. ASSUME NEW u \in Tasks,
              \/ AdmitCheck(u) \/ AdmitMarker(u) \/ AckCheck(u)
              \/ CompactRefuse(u) \/ CompactMarker(u)
       PROVE  SeqInv'
  BY <1>1, <1>15 DEF AdmitCheck, AdmitMarker, AckCheck, CompactRefuse, CompactMarker,
                     diskVars, procVars
<1>16. ASSUME NEW u \in Tasks, AdmitFatal(u) \/ AckFatal(u) PROVE SeqInv'
  BY <1>16 DEF AdmitFatal, AckFatal, Fail, Mendable
<1>17. CASE ListPending
  BY <1>1, <1>17 DEF ListPending, diskVars
<1>18. CASE UNCHANGED vars
  BY <1>1, <1>18 DEF vars, diskVars, procVars
<1> QED
  BY <1>2, <1>3, <1>4, <1>5, <1>6, <1>7, <1>8, <1>9, <1>10, <1>11, <1>12, <1>13, <1>14,
     <1>15, <1>16, <1>17, <1>18 DEF Next, TaskStep

(* Two admissions in the file never carry the same sequence, however many  *)
(* tasks admit, and over kills between the append and the count, repairs   *)
(* and compactions (wal/mod.rs admit, replay, compact).                    *)
THEOREM SequencesStayDistinct == ASSUME Mendable PROVE Spec => []SequencesDistinct
<1>1. Init => IInv /\ SeqInv
  BY InvariantInit, SeqInit
<1>2. (IInv /\ SeqInv) /\ [Next]_vars => (IInv /\ SeqInv)'
  BY InvariantStep, SeqStep
<1>3. IInv /\ SeqInv => SequencesDistinct
  BY DEF SeqInv
<1> QED
  BY <1>1, <1>2, <1>3, PTL DEF Spec

-----------------------------------------------------------------------------
(* The clean marker *)

(* The marker is written when it has to be, and removed by nobody; the log *)
(* file may be lost while the process is down. An append that ends in an   *)
(* unknown tail is not followed by one that was already on its way.        *)
Guarded ==
    /\ "marker" \notin Faults
    /\ Disasters \subseteq {"vanish"}
    /\ "fatal" \notin Faults \/ \A t, u \in Tasks : t = u

(* A file that is appended to ends in a complete, synced line, and one     *)
(* that does not is only read and compacted until the next start.          *)
TailInv ==
    /\ ~wal.broken
    /\ ~wal.present => wal = NoFile
    /\ phase = "marking" => wal.present /\ wal.tail = NoTail
    /\ phase = "up" /\ wal.tail # NoTail =>
           "CORRUPTION" \in degraded /\ \A t \in Tasks : pc[t] \notin {"admit", "ack"}

(* What is owed is in the synced part of the file, as long as there is one *)
(* and wherever a process works.                                           *)
OwedInv ==
    /\ wal.present => accepted \ closing \subseteq IdsOf(Admitted(wal.frames))
    /\ ~wal.present /\ phase = "up" => accepted \subseteq closing
    /\ \A f \in Readable(wal) : f.type = "ack" => f.id \in closing
    /\ \A t \in Tasks : pc[t] = "marker" => arg[t] \in IdsOf(Admitted(wal.frames))

(* A clean marker vouches that nothing is owed, also the one that is about *)
(* to be written; there is no marker only before the first admission.      *)
VouchInv ==
    /\ marker.present /\ marker.clean => accepted \subseteq closing
    /\ ~marker.present => accepted = {}
    /\ phase = "marking" /\ wasEmpty => accepted \subseteq closing
    /\ \A t \in Tasks : pc[t] = "clean" => accepted \subseteq closing

MarkerInv == TypeOK /\ GateInv /\ TailInv /\ OwedInv /\ VouchInv

LEMMA MarkerInit == Init => MarkerInv
<1> SUFFICES ASSUME Init PROVE MarkerInv
  OBVIOUS
<1>1. TypeOK /\ GateInv /\ accepted = {} /\ closing = {}
  BY InvariantInit DEF IInv, Init, Ledger!LedgerInit
<1>2. ~marker.present
  BY DEF Init, NoMarker
<1> QED
  BY <1>1, <1>2, NoFileFacts DEF Init, MarkerInv, TailInv, OwedInv, VouchInv

(* What each step that writes the file makes of it. *)
LEMMA GuardedAppend ==
    ASSUME MarkerInv, NEW u \in Tasks, NEW f \in Frame,
           pc[u] \in {"admit", "ack"}, wal' = Appended(wal, f)
    PROVE  /\ wal'.frames = wal.frames \cup {f} /\ Readable(wal') = Readable(wal) \cup {f}
           /\ wal'.tail = NoTail /\ wal'.present /\ ~wal'.broken
<1>1. wal \in Files /\ wal.tail = NoTail /\ ~wal.broken
  BY DEF MarkerInv, TypeOK, GateInv, TailInv
<1> QED
  BY <1>1, AppendFacts, ReadableOfSynced

LEMMA GuardedUnfinished ==
    ASSUME MarkerInv, NEW u \in Tasks, NEW f \in Frame,
           pc[u] \in {"admit", "ack"}, NEW g \in Unfinished(wal, f)
    PROVE  /\ g \in Files /\ ~g.broken
           /\ g.frames = wal.frames
           /\ Readable(g) \subseteq Readable(wal) \cup {f}
           /\ g = wal \/ g.present
<1>1. wal \in Files /\ wal.tail = NoTail /\ ~wal.broken
  BY DEF MarkerInv, TypeOK, GateInv, TailInv
<1>2. Readable(wal) = wal.frames
  BY <1>1, ReadableOfSynced
<1>3. g \in Files
  BY <1>1, FileOperators
<1>4. CASE g = wal
  BY <1>1, <1>3, <1>4
<1>5. CASE g # wal
  BY <1>1, <1>2, <1>3, <1>5, UnfinishedFacts
<1> QED
  BY <1>4, <1>5

LEMMA GuardedKillInAppend ==
    ASSUME MarkerInv, NEW u \in Tasks, CrashInAppend(u)
    PROVE  /\ ~wal'.broken
           /\ ~wal'.present => wal' = NoFile /\ ~wal.present
           /\ wal.frames \subseteq wal'.frames
           /\ Readable(wal') \subseteq Readable(wal) \cup {FrameOf(u)}
<1>1. wal \in Files /\ wal.tail = NoTail /\ ~wal.broken /\ (~wal.present => wal = NoFile)
  BY DEF MarkerInv, TypeOK, GateInv, TailInv, CrashInAppend
<1>2. FrameOf(u) \in Frame
  BY FramesAreTyped DEF CrashInAppend, FrameOf, MarkerInv, TypeOK
<1>3. PICK g \in Unfinished(wal, FrameOf(u)) : wal' \in AfterKill(g)
  BY DEF CrashInAppend
<1>4. /\ g \in Files /\ ~g.broken /\ g.frames = wal.frames
      /\ Readable(g) \subseteq Readable(wal) \cup {FrameOf(u)}
      /\ g = wal \/ g.present
  BY <1>2, GuardedUnfinished DEF CrashInAppend
<1>5. wal'.broken = g.broken /\ wal'.present = g.present /\ g.frames \subseteq wal'.frames
      /\ Readable(wal') \subseteq Readable(g) /\ (g.tail = NoTail => wal' = g)
  BY <1>3, <1>4, KillFacts
<1> QED
  BY <1>1, <1>4, <1>5

LEMMA GuardedRewrite ==
    ASSUME MarkerInv, NEW u \in Tasks, CompactRewrite(u), wal' # wal
    PROVE  /\ wal'.present /\ ~wal'.broken /\ wal'.tail = NoTail
           /\ wal'.frames = Pending(Readable(wal)) /\ Readable(wal') = Pending(Readable(wal))
<1>1. Readable(wal) \in SUBSET Frame /\ Pending(Readable(wal)) \in SUBSET Frame
  BY DEF MarkerInv, TypeOK, Readable, Files, Tails, Pending
<1> QED
  BY <1>1, FileOfFacts DEF CompactRewrite

(* What is owed and readable is pending. *)
LEMMA OwedIsPending ==
    ASSUME MarkerInv, wal.present
    PROVE  /\ accepted \ closing \subseteq IdsOf(Pending(Readable(wal)))
           /\ Readable(wal) \in SUBSET Frame /\ wal.frames \subseteq Readable(wal)
<1>1. Readable(wal) \in SUBSET Frame /\ wal.frames \subseteq Readable(wal)
  BY DEF MarkerInv, TypeOK, Readable, Files, Tails
<1>2. accepted \ closing \subseteq IdsOf(Admitted(Readable(wal)))
  BY <1>1, AdmittedIds DEF MarkerInv, OwedInv
<1>3. \A i \in accepted \ closing : Ack(i) \notin Readable(wal)
  BY AckFacts DEF MarkerInv, OwedInv
<1> QED
  BY <1>1, <1>2, <1>3, PendingIds

(* Nothing is owed when compaction finds nothing pending. *)
LEMMA NothingPending ==
    ASSUME MarkerInv, NEW u \in Tasks, CompactRemove(u)
    PROVE  accepted \subseteq closing
<1>1. wal.present /\ IdsOf(Pending(Readable(wal))) = {}
  BY DEF CompactRemove, IdsOf
<1> QED
  BY <1>1, OwedIsPending

LEMMA TailStep ==
    ASSUME Guarded, MarkerInv, [Next]_vars
    PROVE  TailInv'
<1> USE DEF TailInv
<1>1. CASE BootRefuse
  BY <1>1 DEF MarkerInv, BootRefuse, diskVars
<1>2. CASE BootWithoutFile
  BY <1>2, NoFileFacts DEF BootWithoutFile, FileRead, IsEmpty, MarkerInv
<1>3. CASE BootRead
  <2>1. Readable(wal) \in SUBSET Frame
    BY DEF MarkerInv, TypeOK, Readable, Files, Tails
  <2> QED
    BY <1>3, <2>1, FileOfFacts DEF BootRead, Repaired
<1>4. CASE BootFirstMarker
  BY <1>4 DEF MarkerInv, BootFirstMarker, procVars
<1>5. CASE BootFinalMarker
  BY <1>5 DEF MarkerInv, BootFinalMarker
<1>6. ASSUME NEW u \in Tasks, AdmitCheck(u) \/ AckCheck(u) PROVE TailInv'
  BY <1>6 DEF MarkerInv, TypeOK, AdmitCheck, AckCheck, Fatal, Goto, diskVars, procVars
<1>7. ASSUME NEW u \in Tasks, AdmitAppend(u) PROVE TailInv'
  <2>1. Admission(arg[u], admitSeq + 1) \in Frame
    BY <1>7, FramesAreTyped DEF AdmitAppend, MarkerInv, TypeOK
  <2> QED
    BY <1>7, <2>1, GuardedAppend DEF AdmitAppend
<1>8. ASSUME NEW u \in Tasks, AckAppend(u) PROVE TailInv'
  <2>1. Ack(arg[u]) \in Frame
    BY <1>8, FramesAreTyped DEF AckAppend, MarkerInv, TypeOK
  <2> QED
    BY <1>8, <2>1, GuardedAppend DEF AckAppend
<1>9. ASSUME NEW u \in Tasks, AdmitRejected(u) \/ AckRejected(u) PROVE TailInv'
  BY <1>9 DEF MarkerInv, TypeOK, GateInv, Files, AdmitRejected, AckRejected, procVars, Goto
<1>10. ASSUME NEW u \in Tasks, AdmitFatal(u) \/ AckFatal(u) PROVE TailInv'
  <2>1. Admission(arg[u], admitSeq + 1) \in Frame /\ Ack(arg[u]) \in Frame
    BY <1>10, FramesAreTyped DEF AdmitFatal, AckFatal, MarkerInv, TypeOK
  <2>2. ~wal'.broken /\ (wal' = wal \/ wal'.present)
    BY <1>10, <2>1, GuardedUnfinished DEF AdmitFatal, AckFatal
  <2>3. \A t \in Tasks : t = u
    BY <1>10 DEF AdmitFatal, AckFatal, Fail, Guarded
  <2>4. "CORRUPTION" \in degraded' /\ pc'[u] = "idle" /\ phase = "up" /\ phase' = phase
    BY <1>10 DEF AdmitFatal, AckFatal, Goto, MarkerInv, TypeOK, GateInv
  <2> QED
    BY <2>2, <2>3, <2>4 DEF MarkerInv
<1>11. ASSUME NEW u \in Tasks, AdmitMarker(u) \/ CompactRefuse(u) \/ CompactMarker(u) PROVE TailInv'
  BY <1>11 DEF MarkerInv, TypeOK, AdmitMarker, CompactRefuse, CompactMarker, Goto, diskVars, taskVars
<1>12. ASSUME NEW u \in Tasks, CompactRewrite(u) PROVE TailInv'
  BY <1>12, GuardedRewrite DEF MarkerInv, CompactRewrite, taskVars
<1>13. ASSUME NEW u \in Tasks, CompactRemove(u) PROVE TailInv'
  BY <1>13, NoFileFacts DEF MarkerInv, TypeOK, CompactRemove, procVars, Goto
<1>14. ASSUME NEW u \in Tasks, CrashInAppend(u) PROVE TailInv'
  BY <1>14, GuardedKillInAppend DEF CrashInAppend, Die
<1>15. CASE ListPending
  BY <1>15 DEF MarkerInv, ListPending, diskVars, taskVars
<1>16. CASE Crash
  <2>1. wal \in Files /\ ~wal.broken /\ (~wal.present => wal = NoFile)
    BY DEF MarkerInv, TypeOK
  <2> QED
    BY <1>16, <2>1, KillFacts, NoFileFacts DEF Crash, Die
<1>17. CASE Disaster
  BY <1>17, NoFileFacts DEF MarkerInv, Guarded, Disaster, procVars, taskVars
<1>18. CASE UNCHANGED vars
  BY <1>18 DEF MarkerInv, vars, diskVars, procVars, taskVars
<1> QED
  BY <1>1, <1>2, <1>3, <1>4, <1>5, <1>6, <1>7, <1>8, <1>9, <1>10, <1>11, <1>12, <1>13, <1>14,
     <1>15, <1>16, <1>17, <1>18 DEF Next, TaskStep

(* The file keeps what is owed; a lost file is not worked with again while *)
(* something is.                                                           *)
LEMMA OwedStep ==
    ASSUME Guarded, MarkerInv, [Next]_vars
    PROVE  OwedInv'
<1> USE DEF OwedInv
<1>0. wal.frames \subseteq Readable(wal)
  BY DEF Readable
<1>1. CASE BootRefuse
  BY <1>1 DEF MarkerInv, BootRefuse, diskVars, taskVars, obsVars
<1>2. CASE BootWithoutFile
  <2>1. wal' = NoFile
    BY <1>2 DEF BootWithoutFile, FileRead, MarkerInv, TailInv
  <2>2. accepted \subseteq closing
    BY <1>2 DEF BootWithoutFile, FileRead, Consistent, MarkerInv, VouchInv
  <2>3. \A t \in Tasks : pc'[t] # "marker"
    BY <1>2 DEF BootWithoutFile, MarkerInv, GateInv, taskVars
  <2> QED
    BY <1>2, <2>1, <2>2, <2>3, NoFileFacts DEF BootWithoutFile
<1>3. CASE BootRead
  <2>1. Readable(wal) \in SUBSET Frame
    BY DEF MarkerInv, TypeOK, Readable, Files, Tails
  <2>2. wal'.frames = Readable(wal) /\ Readable(wal') = Readable(wal) /\ wal'.present
    BY <1>3, <2>1, FileOfFacts DEF BootRead, Repaired
  <2>3. wal.present
    BY <1>3 DEF BootRead, FileRead, NoFile
  <2> QED
    BY <1>3, <1>0, <2>2, <2>3, AdmittedIds DEF MarkerInv, BootRead, taskVars, obsVars
<1>4. CASE BootFirstMarker
  BY <1>4 DEF MarkerInv, BootFirstMarker, procVars, taskVars, obsVars
<1>5. CASE BootFinalMarker
  BY <1>5 DEF MarkerInv, TailInv, BootFinalMarker, taskVars
<1>6. ASSUME NEW u \in Tasks, AdmitCheck(u) \/ AckCheck(u) PROVE OwedInv'
  BY <1>6 DEF MarkerInv, TypeOK, AdmitCheck, AckCheck, Goto, diskVars, procVars, obsVars
<1>7. ASSUME NEW u \in Tasks, AdmitAppend(u) PROVE OwedInv'
  <2>1. Admission(arg[u], admitSeq + 1) \in Frame
    BY <1>7, FramesAreTyped DEF AdmitAppend, MarkerInv, TypeOK
  <2>2. /\ wal'.frames = wal.frames \cup {Admission(arg[u], admitSeq + 1)} /\ wal'.present
        /\ Readable(wal') = Readable(wal) \cup {Admission(arg[u], admitSeq + 1)}
    BY <1>7, <2>1, GuardedAppend DEF AdmitAppend
  <2>3. IdsOf(Admitted(wal'.frames)) = IdsOf(Admitted(wal.frames)) \cup {arg[u]}
    BY <2>2, AdmittedIds
  <2>4. phase = "up"
    BY <1>7 DEF AdmitAppend, MarkerInv, GateInv
  <2> QED
    BY <1>7, <2>2, <2>3, <2>4, AdmissionFacts DEF MarkerInv, TypeOK, AdmitAppend, Goto, obsVars
<1>8. ASSUME NEW u \in Tasks, AckAppend(u) PROVE OwedInv'
  <2>1. Ack(arg[u]) \in Frame
    BY <1>8, FramesAreTyped DEF AckAppend, MarkerInv, TypeOK
  <2>2. /\ wal'.frames = wal.frames \cup {Ack(arg[u])} /\ wal'.present
        /\ Readable(wal') = Readable(wal) \cup {Ack(arg[u])}
    BY <1>8, <2>1, GuardedAppend DEF AckAppend
  <2>3. IdsOf(Admitted(wal'.frames)) = IdsOf(Admitted(wal.frames))
    BY <2>2, AdmittedIds
  <2>4. phase = "up"
    BY <1>8 DEF AckAppend, MarkerInv, GateInv
  <2> QED
    BY <1>8, <2>2, <2>3, <2>4, AckFacts DEF MarkerInv, TypeOK, AckAppend, Goto
<1>9. ASSUME NEW u \in Tasks, AdmitRejected(u) \/ AckRejected(u) PROVE OwedInv'
  <2>1. wal'.frames = wal.frames /\ Readable(wal') = Readable(wal)
    BY <1>9 DEF AdmitRejected, AckRejected, MarkerInv, TypeOK, Files, Readable
  <2>2. wal' = wal \/ wal'.present
    BY <1>9 DEF AdmitRejected, AckRejected, MarkerInv, TypeOK, Files
  <2>3. phase = "up"
    BY <1>9 DEF AdmitRejected, AckRejected, MarkerInv, GateInv
  <2> QED
    BY <1>9, <2>1, <2>2, <2>3 DEF MarkerInv, TypeOK, AdmitRejected, AckRejected, Goto, procVars, obsVars
<1>10. ASSUME NEW u \in Tasks, AdmitFatal(u) \/ AckFatal(u) PROVE OwedInv'
  <2> DEFINE f == IF pc[u] = "admit" THEN Admission(arg[u], admitSeq + 1) ELSE Ack(arg[u])
  <2>1. f \in Frame /\ wal' \in Unfinished(wal, f) /\ (f.type = "ack" => f.id \in closing')
    BY <1>10, FramesAreTyped, AdmissionFacts, AckFacts DEF AdmitFatal, AckFatal, MarkerInv, TypeOK
  <2>2. pc[u] \in {"admit", "ack"} /\ phase = "up" /\ accepted' = accepted /\ closing \subseteq closing'
    BY <1>10 DEF AdmitFatal, AckFatal, obsVars, MarkerInv, GateInv
  <2> HIDE DEF f
  <2>3. /\ wal'.frames = wal.frames /\ Readable(wal') \subseteq Readable(wal) \cup {f}
        /\ wal' = wal \/ wal'.present
    BY <2>1, <2>2, GuardedUnfinished
  <2>4. \A t \in Tasks : pc'[t] = "marker" => pc[t] = "marker" /\ arg'[t] = arg[t]
    BY <1>10 DEF AdmitFatal, AckFatal, Goto, MarkerInv, TypeOK
  <2> QED
    BY <2>1, <2>2, <2>3, <2>4, <1>10 DEF MarkerInv, AdmitFatal, AckFatal
<1>11. ASSUME NEW u \in Tasks, AdmitMarker(u) PROVE OwedInv'
  <2>1. wal.present
    BY <1>11, NoFileFacts, AdmittedIds DEF AdmitMarker, MarkerInv, TailInv
  <2> QED
    BY <1>11, <2>1 DEF MarkerInv, TypeOK, AdmitMarker, Goto
<1>12. ASSUME NEW u \in Tasks, CompactRefuse(u) \/ CompactMarker(u) PROVE OwedInv'
  BY <1>12 DEF MarkerInv, TypeOK, CompactRefuse, CompactMarker, Goto, diskVars, taskVars, obsVars
<1>13. ASSUME NEW u \in Tasks, CompactRewrite(u) PROVE OwedInv'
  <2>0. CASE wal' = wal
    BY <1>13, <2>0 DEF MarkerInv, CompactRewrite, taskVars, obsVars
  <2>1. CASE wal' # wal
    <3>1. /\ wal'.frames = Pending(Readable(wal)) /\ Readable(wal') = Pending(Readable(wal))
          /\ wal'.present
      BY <1>13, <2>1, GuardedRewrite
    <3>2. wal.present /\ \A t \in Tasks : pc[t] # "marker"
      BY <1>13, NoTaskAssumption DEF MarkerInv, GateInv, CompactRewrite
    <3>3. accepted \ closing \subseteq IdsOf(Admitted(wal'.frames))
      BY <3>1, <3>2, OwedIsPending, PendingIds
    <3>4. \A f \in Readable(wal') : f.type = "ack" => f.id \in closing
      BY <3>1, <3>2, OwedIsPending, PendingIds
    <3> QED
      BY <1>13, <3>1, <3>2, <3>3, <3>4 DEF CompactRewrite, taskVars, obsVars
  <2> QED
    BY <2>0, <2>1
<1>14. ASSUME NEW u \in Tasks, CompactRemove(u) PROVE OwedInv'
  <2>1. accepted \subseteq closing
    BY <1>14, NothingPending
  <2>2. \A t \in Tasks : pc[t] # "marker"
    BY <1>14, NoTaskAssumption DEF MarkerInv, GateInv, CompactRemove
  <2>3. Readable(wal') \subseteq Readable(wal)
    BY <1>14, NoFileFacts DEF CompactRemove
  <2>4. UNCHANGED <<accepted, closing>> /\ \A t \in Tasks : pc'[t] # "marker"
    BY <1>14, <2>2 DEF CompactRemove, Goto, obsVars, MarkerInv, TypeOK
  <2> QED
    BY <2>1, <2>3, <2>4 DEF MarkerInv
<1>15. ASSUME NEW u \in Tasks, CrashInAppend(u) PROVE OwedInv'
  <2>1. /\ wal.frames \subseteq wal'.frames
        /\ Readable(wal') \subseteq Readable(wal) \cup {FrameOf(u)}
        /\ ~wal'.present => wal' = NoFile /\ ~wal.present
    BY <1>15, GuardedKillInAppend
  <2>2. accepted' = accepted /\ closing \subseteq closing' /\ \A t \in Tasks : pc'[t] = "idle"
    BY <1>15 DEF CrashInAppend, Die
  <2>3. FrameOf(u).type = "ack" => FrameOf(u).id \in closing'
    BY <1>15, AdmissionFacts, AckFacts DEF CrashInAppend, FrameOf
  <2>4. phase' = "down" /\ phase = "up"
    BY <1>15 DEF CrashInAppend, Die, MarkerInv, GateInv
  <2>5. wal'.present => accepted' \ closing' \subseteq IdsOf(Admitted(wal'.frames))
    BY <2>1, <2>2, <2>4, AdmittedIds DEF MarkerInv
  <2> QED
    BY <2>1, <2>2, <2>3, <2>4, <2>5 DEF MarkerInv
<1>16. CASE ListPending
  BY <1>16 DEF MarkerInv, ListPending, diskVars, taskVars
<1>17. CASE Crash
  <2>1. wal.frames \subseteq wal'.frames /\ Readable(wal') \subseteq Readable(wal)
        /\ wal'.present = wal.present
    BY <1>17, KillFacts DEF Crash, MarkerInv, TypeOK
  <2>2. UNCHANGED obsVars /\ phase' = "down" /\ \A t \in Tasks : pc'[t] = "idle"
    BY <1>17 DEF Crash, Die
  <2> QED
    BY <2>1, <2>2, AdmittedIds DEF MarkerInv, obsVars
<1>18. CASE Disaster
  <2>1. wal' = NoFile /\ UNCHANGED <<procVars, taskVars, obsVars>> /\ phase = "down"
    BY <1>18 DEF Disaster, Guarded
  <2>2. \A t \in Tasks : pc[t] # "marker"
    BY <2>1 DEF MarkerInv, GateInv
  <2> QED
    BY <2>1, <2>2, NoFileFacts DEF procVars, taskVars
<1>19. CASE UNCHANGED vars
  BY <1>19 DEF MarkerInv, vars, diskVars, procVars, taskVars, obsVars
<1> QED
  BY <1>1, <1>2, <1>3, <1>4, <1>5, <1>6, <1>7, <1>8, <1>9, <1>10, <1>11, <1>12, <1>13, <1>14,
     <1>15, <1>16, <1>17, <1>18, <1>19 DEF Next, TaskStep

(* A marker becomes clean only where nothing is owed, and an admission is  *)
(* not confirmed before the marker is active.                              *)
LEMMA VouchStep ==
    ASSUME Guarded, MarkerInv, [Next]_vars
    PROVE  VouchInv'
<1> USE DEF VouchInv
<1>1. CASE BootRefuse
  BY <1>1 DEF MarkerInv, BootRefuse, diskVars, taskVars, obsVars
<1>2. CASE BootWithoutFile
  BY <1>2 DEF MarkerInv, BootWithoutFile, Marker, taskVars
<1>3. CASE BootRead
  <2>1. IsEmpty(wal) => ~marker.present
    BY <1>3 DEF BootRead, FileRead, NoFile
  <2> QED
    BY <1>3, <2>1 DEF MarkerInv, BootRead, taskVars, obsVars
<1>4. CASE BootFirstMarker
  BY <1>4 DEF MarkerInv, BootFirstMarker, Marker, procVars, taskVars, obsVars
<1>5. CASE BootFinalMarker
  BY <1>5 DEF MarkerInv, BootFinalMarker, Marker, taskVars
<1>6. ASSUME NEW u \in Tasks, AdmitCheck(u) \/ AckCheck(u) PROVE VouchInv'
  BY <1>6 DEF MarkerInv, TypeOK, AdmitCheck, AckCheck, Goto, diskVars, procVars, obsVars
<1>7. ASSUME NEW u \in Tasks, AdmitAppend(u) \/ AdmitRejected(u) \/ AdmitFatal(u) PROVE VouchInv'
  BY <1>7 DEF MarkerInv, TypeOK, AdmitAppend, AdmitRejected, AdmitFatal, Goto, procVars, obsVars
<1>8. ASSUME NEW u \in Tasks, AckAppend(u) \/ AckRejected(u) \/ AckFatal(u) PROVE VouchInv'
  BY <1>8 DEF MarkerInv, TypeOK, AckAppend, AckRejected, AckFatal, Goto, procVars, obsVars
<1>9. ASSUME NEW u \in Tasks, AdmitMarker(u) PROVE VouchInv'
  <2>1. marker' = ActiveMarker
    BY <1>9 DEF AdmitMarker, Fail, Guarded
  <2>2. marker'.present /\ ~marker'.clean
    BY <2>1 DEF ActiveMarker, Marker, MarkerInv, TypeOK, Markers
  <2>3. phase' = "up" /\ \A t \in Tasks : pc'[t] # "clean"
    BY <1>9 DEF AdmitMarker, MarkerInv, GateInv, TypeOK, Goto
  <2> QED
    BY <2>2, <2>3
<1>10. ASSUME NEW u \in Tasks, CompactRefuse(u) \/ CompactRewrite(u) PROVE VouchInv'
  BY <1>10 DEF MarkerInv, CompactRefuse, CompactRewrite, diskVars, taskVars, obsVars
<1>11. ASSUME NEW u \in Tasks, CompactRemove(u) PROVE VouchInv'
  BY <1>11, NothingPending DEF MarkerInv, TypeOK, CompactRemove, Goto, procVars, obsVars
<1>12. ASSUME NEW u \in Tasks, CompactMarker(u) PROVE VouchInv'
  BY <1>12 DEF MarkerInv, TypeOK, CompactMarker, Marker, Goto, obsVars
<1>13. ASSUME NEW u \in Tasks, CrashInAppend(u) PROVE VouchInv'
  BY <1>13 DEF MarkerInv, CrashInAppend, Die
<1>14. CASE ListPending
  BY <1>14 DEF MarkerInv, ListPending, diskVars, taskVars
<1>15. CASE Crash
  BY <1>15 DEF MarkerInv, Crash, Die, obsVars
<1>16. CASE Disaster
  BY <1>16 DEF MarkerInv, Guarded, Disaster, procVars, taskVars, obsVars
<1>17. CASE UNCHANGED vars
  BY <1>17 DEF MarkerInv, vars, diskVars, procVars, taskVars, obsVars
<1> QED
  BY <1>1, <1>2, <1>3, <1>4, <1>5, <1>6, <1>7, <1>8, <1>9, <1>10, <1>11, <1>12, <1>13, <1>14,
     <1>15, <1>16, <1>17 DEF Next, TaskStep

(* A clean marker next to no file means that nothing is owed, also when    *)
(* the log file is lost while the process is down and when an append ends  *)
(* in an unknown tail (mark_marker_active, compact, replay).               *)
THEOREM CleanMarkerVouches == ASSUME Guarded PROVE Spec => []CleanMarkerOwesNothing
<1>1. Init => MarkerInv
  BY MarkerInit
<1>2. MarkerInv /\ [Next]_vars => MarkerInv'
  BY TypeStep, GateStep, TailStep, OwedStep, VouchStep DEF MarkerInv
<1>3. MarkerInv => CleanMarkerOwesNothing
  BY DEF MarkerInv, VouchInv, CleanMarkerOwesNothing
<1> QED
  BY <1>1, <1>2, <1>3, PTL DEF Spec

=============================================================================
