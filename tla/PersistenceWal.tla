-------------------------- MODULE PersistenceWal ---------------------------
(***************************************************************************)
(* The write-ahead log of the persistence worker:                          *)
(* phira-mp-plus-server/src/persistence/wal/mod.rs and marker.rs.          *)
(*                                                                         *)
(* The file is a set of intact frames (their order carries no meaning: an  *)
(* admission and its ACK are matched by id) followed by a tail, what the   *)
(* last append left behind when it did not finish cleanly.  Next to it is  *)
(* the instance marker.  Tasks admit, acknowledge, compact and list under  *)
(* one mutex, io_gate; the admission policy is read BEFORE the mutex is    *)
(* taken, so it is a step of its own.  The process may be killed at any    *)
(* point and is started again with replay.                                 *)
(***************************************************************************)
EXTENDS Naturals, FiniteSets

CONSTANTS
    Tasks,          \* the asynchronous tasks that call the log
    MaxAdmissions,  \* events offered over all runs of the process
    MaxCrashes,     \* kills of the process
    MaxFaults,      \* I/O failures
    Faults,         \* which calls may fail, a subset of FaultKinds
    MaxDisasters,   \* interventions from outside while the process is down
    Disasters       \* which of them, a subset of DisasterKinds

FaultKinds == {"append", "fatal", "marker", "compact", "boot"}
DisasterKinds == {"vanish", "empty", "reset"}

ASSUME WalAssumption ==
    /\ MaxAdmissions \in Nat
    /\ MaxCrashes \in Nat
    /\ MaxFaults \in Nat
    /\ MaxDisasters \in Nat
    /\ Faults \subseteq FaultKinds
    /\ Disasters \subseteq DisasterKinds

Ids == 1..MaxAdmissions
NoTask == "no task"
ASSUME NoTaskAssumption == NoTask \notin Tasks

-----------------------------------------------------------------------------
(* Frames, the tail and the file *)

Frame == [type : {"admission", "ack"}, id : Ids, seq : Nat]

Admission(i, s) == [type |-> "admission", id |-> i, seq |-> s]
Ack(i) == [type |-> "ack", id |-> i, seq |-> 0]

(* Tails: nothing; a torn frame without newline; a whole frame whose       *)
(* newline is missing; a whole terminated frame whose sync was not         *)
(* confirmed; a terminated line that does not parse or fails its checksum. *)
TailKinds == {"none", "torn", "whole", "unsynced", "garbled"}
Tail(k, held) == [kind |-> k, held |-> held]
NoTail == Tail("none", {})
Torn == Tail("torn", {})
Garbled == Tail("garbled", {})
Tails == [kind : TailKinds, held : SUBSET Frame]

(* "broken": a corrupt line that is not the last one. *)
Files == [present : BOOLEAN, frames : SUBSET Frame, tail : Tails, broken : BOOLEAN]
NoFile == [present |-> FALSE, frames |-> {}, tail |-> NoTail, broken |-> FALSE]
EmptyFile == [NoFile EXCEPT !.present = TRUE]
FileOf(frames) == [EmptyFile EXCEPT !.frames = frames]

(* Confirmed by sync_data: what was written is on the disk. *)
Synced(file) ==
    IF file.tail.kind = "unsynced"
    THEN [file EXCEPT !.frames = @ \cup file.tail.held, !.tail = NoTail]
    ELSE file

(* Bytes t written at the end.  After an unterminated tail the new bytes   *)
(* continue that line, and the two frames merge into one corrupt line.     *)
Extended(file, t) ==
    [present |-> TRUE,
     frames  |-> file.frames \cup (IF file.tail.kind = "unsynced" THEN file.tail.held ELSE {}),
     broken  |-> file.broken \/ file.tail.kind = "garbled",
     tail    |-> IF file.tail.kind \notin {"torn", "whole"} THEN t
                 ELSE IF t.kind \in {"torn", "whole"} THEN Torn ELSE Garbled]

Appended(file, f) == Synced(Extended(file, Tail("unsynced", {f})))

(* What an append of f that did not finish can leave in the file. *)
Unfinished(file, f) ==
    {file} \cup {Extended(file, t) :
                    t \in {Torn, Garbled, Tail("whole", {f}), Tail("unsynced", {f})}}

(* What is left of a file after a kill: only an unconfirmed tail can change. *)
AfterKill(file) ==
    IF file.tail.kind = "none" THEN {file}
    ELSE {Synced(file)} \cup {[file EXCEPT !.tail = t] : t \in {NoTail, Torn, Garbled}}

Readable(file) == file.frames \cup file.tail.held
Pending(frames) ==
    {f \in frames : f.type = "admission" /\ Ack(f.id) \notin frames}
IdsOf(frames) == {f.id : f \in frames}
Admitted(frames) == {f \in frames : f.type = "admission"}

IsEmpty(file) == file.present /\ file.frames = {} /\ file.tail = NoTail /\ ~file.broken

Markers == [present : BOOLEAN, clean : BOOLEAN, max : Nat]
NoMarker == [present |-> FALSE, clean |-> FALSE, max |-> 0]
Marker(clean, max) == [present |-> TRUE, clean |-> clean, max |-> max]

Reasons == {"CORRUPTION", "MARKER", "COMPACT"}

-----------------------------------------------------------------------------
VARIABLES
    wal,        \* the log file
    marker,     \* the instance marker
    phase,      \* the process: down, marking (in replay), up, failed (replay refused)
    wasEmpty,   \* replay: the file was empty when it was read
    admitSeq,   \* admit_sequence
    degraded,   \* the degraded bits
    gate,       \* holder of io_gate
    pc,         \* what each task is about to do
    arg,        \* the event a task works on
    next,       \* the next event to be offered
    crashes, faults, disasters,         \* how much of each bound is used
    accepted, refused, closing, acked, view     \* as in AdmissionLedger

diskVars == <<wal, marker>>
procVars == <<phase, wasEmpty, admitSeq, degraded>>
taskVars == <<gate, pc, arg>>
countVars == <<crashes, faults, disasters>>
obsVars == <<accepted, refused, closing, acked, view>>
vars == <<diskVars, procVars, taskVars, next, countVars, obsVars>>

Ledger == INSTANCE AdmissionLedger

Init ==
    /\ wal = NoFile
    /\ marker = NoMarker
    /\ phase = "down"
    /\ wasEmpty = FALSE
    /\ admitSeq = 0
    /\ degraded = {}
    /\ gate = NoTask
    /\ pc = [t \in Tasks |-> "idle"]
    /\ arg = [t \in Tasks |-> 0]
    /\ next = 1
    /\ crashes = 0 /\ faults = 0 /\ disasters = 0
    /\ Ledger!LedgerInit

Fatal == degraded \cap {"CORRUPTION", "COMPACT"} # {}

(* An I/O call of kind k fails. *)
Fail(k) ==
    /\ k \in Faults
    /\ faults < MaxFaults
    /\ faults' = faults + 1

Goto(t, where) == pc' = [pc EXCEPT ![t] = where]

-----------------------------------------------------------------------------
(* replay *)

(* check_instance_consistency: a marker that is not clean vouches for a    *)
(* file with content.                                                      *)
Consistent == marker.present /\ ~marker.clean => wal.present /\ ~IsEmpty(wal)

(* The file replay reads: an empty file under a clean marker is removed. *)
FileRead == IF marker.present /\ IsEmpty(wal) THEN NoFile ELSE wal

(* A corrupt line is forgiven only as the last one, after another line. *)
Replayable(file) ==
    /\ ~file.broken
    /\ file.tail.kind = "garbled" => file.frames # {}

(* Mutant: a whole frame is kept, but its newline is not written. *)
Repaired_KeepsUnterminated(file) ==
    IF file.tail.kind = "whole" THEN file ELSE FileOf(Readable(file))

(* The tail is terminated when it is a whole frame, cut off when not. *)
Repaired(file) == FileOf(Readable(file))

BootRefuse ==
    /\ phase = "down"
    /\ phase' = "failed"
    /\ \/ (~Consistent \/ (FileRead.present /\ ~Replayable(FileRead))) /\ UNCHANGED faults
       \/ Fail("boot")
    /\ UNCHANGED <<diskVars, wasEmpty, admitSeq, degraded, taskVars, next,
                   crashes, disasters, obsVars>>

BootWithoutFile ==
    /\ phase = "down" /\ Consistent
    /\ ~FileRead.present
    /\ wal' = FileRead
    /\ marker' = IF marker.present THEN marker ELSE Marker(TRUE, 0)
    /\ admitSeq' = marker.max
    /\ phase' = "up"
    /\ view' = {}
    /\ UNCHANGED <<wasEmpty, degraded, taskVars, next, countVars,
                   accepted, refused, closing, acked>>

BootRead ==
    /\ phase = "down" /\ Consistent
    /\ FileRead.present /\ Replayable(wal)
    /\ wal' = Repaired(wal)
    /\ wasEmpty' = IsEmpty(wal)
    /\ phase' = "marking"
    /\ UNCHANGED <<marker, admitSeq, degraded, taskVars, next, countVars, obsVars>>

(* write_instance_marker *)
BootFirstMarker ==
    /\ phase = "marking" /\ ~marker.present
    /\ marker' = Marker(TRUE, admitSeq)
    /\ UNCHANGED <<wal, procVars, taskVars, next, countVars, obsVars>>

(* Mutant: sequences of acknowledged admissions are not counted. *)
Restored_FromPending ==
    LET seen == {marker.max} \cup {f.seq : f \in Pending(wal.frames)}
    IN {s \in seen : \A r \in seen : r <= s}

(* The higher of the marker's high-water mark and the file's sequences.    *)
Restored ==
    LET seen == {marker.max} \cup {f.seq : f \in Admitted(wal.frames)}
    IN {s \in seen : \A r \in seen : r <= s}

BootFinalMarker ==
    /\ phase = "marking" /\ marker.present
    /\ admitSeq' \in Restored
    /\ \/ /\ marker' = Marker(wasEmpty, admitSeq')
          /\ phase' = "up"
          /\ view' = IdsOf(Pending(wal.frames))
          /\ UNCHANGED faults
       \/ /\ Fail("boot")
          /\ phase' = "failed"
          /\ UNCHANGED <<marker, view>>
    /\ UNCHANGED <<wal, wasEmpty, degraded, taskVars, next, crashes, disasters,
                   accepted, refused, closing, acked>>

-----------------------------------------------------------------------------
(* admit *)

(* Mutant: the degraded mask is not read. *)
AdmitCheck_IgnoresMask(t) ==
    /\ phase = "up"
    /\ pc[t] = "idle"
    /\ next <= MaxAdmissions
    /\ next' = next + 1
    /\ arg' = [arg EXCEPT ![t] = next]
    /\ Goto(t, "admit")
    /\ UNCHANGED <<diskVars, procVars, gate, countVars, obsVars>>

(* The admission policy, read before io_gate is taken. *)
AdmitCheck(t) ==
    /\ phase = "up" /\ ~Fatal
    /\ pc[t] = "idle"
    /\ next <= MaxAdmissions
    /\ next' = next + 1
    /\ arg' = [arg EXCEPT ![t] = next]
    /\ Goto(t, "admit")
    /\ UNCHANGED <<diskVars, procVars, gate, countVars, obsVars>>

(* Mutant: the marker is written after io_gate is released. *)
AdmitAppend_ReleasesGate(t) ==
    /\ pc[t] = "admit" /\ gate = NoTask
    /\ wal' = Appended(wal, Admission(arg[t], admitSeq + 1))
    /\ admitSeq' = admitSeq + 1
    /\ Goto(t, "marker")
    /\ UNCHANGED <<marker, phase, wasEmpty, degraded, gate, arg, next, countVars, obsVars>>

(* Under io_gate: the sequence is consumed only by a durable frame. *)
AdmitAppend(t) ==
    /\ pc[t] = "admit" /\ gate = NoTask
    /\ wal' = Appended(wal, Admission(arg[t], admitSeq + 1))
    /\ admitSeq' = admitSeq + 1
    /\ gate' = t
    /\ Goto(t, "marker")
    /\ UNCHANGED <<marker, phase, wasEmpty, degraded, arg, next, countVars, obsVars>>

(* Mutant: the failed frame is not rolled back. *)
AdmitRejected_NoRollback(t) ==
    /\ pc[t] = "admit" /\ gate = NoTask
    /\ Fail("append")
    /\ wal' \in Unfinished(wal, Admission(arg[t], admitSeq + 1))
    /\ refused' = refused \cup {arg[t]}
    /\ Goto(t, "idle")
    /\ UNCHANGED <<marker, procVars, gate, arg, next, crashes, disasters,
                   accepted, closing, acked, view>>

(* The file could not be opened, or the partial frame was rolled back. *)
AdmitRejected(t) ==
    /\ pc[t] = "admit" /\ gate = NoTask
    /\ Fail("append")
    /\ \/ wal' = [wal EXCEPT !.present = TRUE]
       \/ UNCHANGED wal
    /\ refused' = refused \cup {arg[t]}
    /\ Goto(t, "idle")
    /\ UNCHANGED <<marker, procVars, gate, arg, next, crashes, disasters,
                   accepted, closing, acked, view>>

(* FatalUnknown: the tail cannot be classified, synced or rolled back. *)
AdmitFatal(t) ==
    /\ pc[t] = "admit" /\ gate = NoTask
    /\ Fail("fatal")
    /\ wal' \in Unfinished(wal, Admission(arg[t], admitSeq + 1))
    /\ degraded' = degraded \cup {"CORRUPTION"}
    /\ Goto(t, "idle")
    /\ UNCHANGED <<marker, phase, wasEmpty, admitSeq, gate, arg, next,
                   crashes, disasters, obsVars>>

(* mark_marker_active *)
ActiveMarker ==
    IF ~marker.present THEN Marker(FALSE, admitSeq)
    ELSE [marker EXCEPT !.clean = FALSE]

(* A failed marker write may still have renamed the marker into place. *)
AdmitMarker(t) ==
    /\ pc[t] = "marker"
    /\ \/ /\ marker' = ActiveMarker
          /\ degraded' = degraded \ {"MARKER"}
          /\ UNCHANGED faults
       \/ /\ Fail("marker")
          /\ marker' \in {marker, ActiveMarker}
          /\ degraded' = degraded \cup {"MARKER"}
    /\ accepted' = accepted \cup {arg[t]}
    /\ gate' = NoTask
    /\ Goto(t, "idle")
    /\ UNCHANGED <<wal, phase, wasEmpty, admitSeq, arg, next, crashes, disasters,
                   refused, closing, acked, view>>

-----------------------------------------------------------------------------
(* ack *)

AckCheck(t) ==
    /\ phase = "up" /\ ~Fatal
    /\ pc[t] = "idle"
    /\ \E i \in accepted \cup view : arg' = [arg EXCEPT ![t] = i]
    /\ Goto(t, "ack")
    /\ UNCHANGED <<diskVars, procVars, gate, next, countVars, obsVars>>

(* Mutant: the ACK is reported before its sync. *)
AckAppend_Unsynced(t) ==
    /\ pc[t] = "ack" /\ gate = NoTask
    /\ wal' = Extended(wal, Tail("unsynced", {Ack(arg[t])}))
    /\ closing' = closing \cup {arg[t]}
    /\ acked' = acked \cup {arg[t]}
    /\ Goto(t, "idle")
    /\ UNCHANGED <<marker, procVars, gate, arg, next, countVars, accepted, refused, view>>

AckAppend(t) ==
    /\ pc[t] = "ack" /\ gate = NoTask
    /\ wal' = Appended(wal, Ack(arg[t]))
    /\ closing' = closing \cup {arg[t]}
    /\ acked' = acked \cup {arg[t]}
    /\ Goto(t, "idle")
    /\ UNCHANGED <<marker, procVars, gate, arg, next, countVars, accepted, refused, view>>

(* Mutant: the log itself latches a reason that belongs to the worker. *)
AckRejected_MarksAck(t) ==
    /\ pc[t] = "ack" /\ gate = NoTask
    /\ Fail("append")
    /\ degraded' = degraded \cup {"ACK"}
    /\ Goto(t, "idle")
    /\ UNCHANGED <<diskVars, phase, wasEmpty, admitSeq, gate, arg, next,
                   crashes, disasters, obsVars>>

AckRejected(t) ==
    /\ pc[t] = "ack" /\ gate = NoTask
    /\ Fail("append")
    /\ \/ wal' = [wal EXCEPT !.present = TRUE]
       \/ UNCHANGED wal
    /\ Goto(t, "idle")
    /\ UNCHANGED <<marker, procVars, gate, arg, next, crashes, disasters, obsVars>>

AckFatal(t) ==
    /\ pc[t] = "ack" /\ gate = NoTask
    /\ Fail("fatal")
    /\ wal' \in Unfinished(wal, Ack(arg[t]))
    /\ degraded' = degraded \cup {"CORRUPTION"}
    /\ closing' = closing \cup {arg[t]}
    /\ Goto(t, "idle")
    /\ UNCHANGED <<marker, phase, wasEmpty, admitSeq, gate, arg, next,
                   crashes, disasters, accepted, refused, acked, view>>

-----------------------------------------------------------------------------
(* compact: called whether or not replay succeeded *)

CompactReadable == ~wal.broken /\ wal.tail.kind # "garbled"

(* Mutant: a missing file under an active marker is recorded as clean. *)
CompactRefuse_Cleans(t) ==
    /\ phase \in {"up", "failed"} /\ pc[t] = "idle" /\ gate = NoTask
    /\ ~wal.present /\ marker.present /\ ~marker.clean
    /\ marker' = Marker(TRUE, admitSeq)
    /\ UNCHANGED <<wal, procVars, taskVars, next, countVars, obsVars>>

CompactRefuse(t) ==
    /\ phase \in {"up", "failed"} /\ pc[t] = "idle" /\ gate = NoTask
    /\ \/ /\ ~wal.present /\ marker.present /\ ~marker.clean
          /\ degraded' = degraded \cup {"COMPACT"}
       \/ /\ wal.present /\ ~CompactReadable
          /\ degraded' = degraded \cup {"CORRUPTION"}
    /\ UNCHANGED <<diskVars, phase, wasEmpty, admitSeq, taskVars, next, countVars, obsVars>>

(* Rewrite the pending admissions to a temporary file and rename it.  The  *)
(* directory sync after the rename may be what fails.                      *)
CompactRewrite(t) ==
    /\ phase \in {"up", "failed"} /\ pc[t] = "idle" /\ gate = NoTask
    /\ wal.present /\ CompactReadable
    /\ LET pending == Pending(Readable(wal))
       IN /\ pending # {}
          /\ \/ /\ wal' = FileOf(pending)
                /\ degraded' = degraded \ {"COMPACT"}
                /\ UNCHANGED faults
             \/ /\ Fail("compact")
                /\ wal' \in {wal, FileOf(pending)}
                /\ degraded' = degraded \cup {"COMPACT"}
    /\ UNCHANGED <<marker, phase, wasEmpty, admitSeq, taskVars, next,
                   crashes, disasters, obsVars>>

(* Nothing pending: remove the file (a failure is ignored) ... *)
CompactRemove(t) ==
    /\ phase \in {"up", "failed"} /\ pc[t] = "idle" /\ gate = NoTask
    /\ wal.present /\ CompactReadable
    /\ Pending(Readable(wal)) = {}
    /\ \/ wal' = NoFile /\ UNCHANGED faults
       \/ Fail("compact") /\ UNCHANGED wal
    /\ gate' = t
    /\ Goto(t, "clean")
    /\ UNCHANGED <<marker, procVars, arg, next, crashes, disasters, obsVars>>

(* ... then record a clean marker with the high-water sequence. *)
CompactMarker(t) ==
    /\ pc[t] = "clean"
    /\ \/ /\ marker' = Marker(TRUE, admitSeq)
          /\ degraded' = degraded \ {"COMPACT"}
          /\ UNCHANGED faults
       \/ /\ Fail("compact")
          /\ marker' \in {marker, Marker(TRUE, admitSeq)}
          /\ degraded' = degraded \cup {"COMPACT"}
    /\ gate' = NoTask
    /\ Goto(t, "idle")
    /\ UNCHANGED <<wal, phase, wasEmpty, admitSeq, arg, next, crashes, disasters, obsVars>>

-----------------------------------------------------------------------------
(* list_pending: replay's leniency about the tail, without repairing it *)

ListPending ==
    /\ phase = "up" /\ gate = NoTask
    /\ IF Replayable(wal)
       THEN view' = IdsOf(Pending(Readable(wal))) /\ UNCHANGED degraded
       ELSE degraded' = degraded \cup {"CORRUPTION"} /\ UNCHANGED view
    /\ UNCHANGED <<diskVars, phase, wasEmpty, admitSeq, taskVars, next, countVars,
                   accepted, refused, closing, acked>>

-----------------------------------------------------------------------------
(* The process is killed, possibly in the middle of an append *)

FrameOf(t) == IF pc[t] = "admit" THEN Admission(arg[t], admitSeq + 1) ELSE Ack(arg[t])

Die ==
    /\ crashes < MaxCrashes
    /\ crashes' = crashes + 1
    /\ phase' = "down"
    /\ wasEmpty' = FALSE
    /\ admitSeq' = 0
    /\ degraded' = {}
    /\ gate' = NoTask
    /\ pc' = [t \in Tasks |-> "idle"]
    /\ arg' = [t \in Tasks |-> 0]

Crash ==
    /\ phase # "down"
    /\ Die
    /\ wal' \in AfterKill(wal)
    /\ UNCHANGED <<marker, next, faults, disasters, obsVars>>

CrashInAppend(t) ==
    /\ pc[t] \in {"admit", "ack"} /\ gate = NoTask
    /\ Die
    /\ \E file \in Unfinished(wal, FrameOf(t)) : wal' \in AfterKill(file)
    /\ closing' = IF pc[t] = "ack" THEN closing \cup {arg[t]} ELSE closing
    /\ UNCHANGED <<marker, next, faults, disasters, accepted, refused, acked, view>>

(* Interventions from outside while the process is down. *)
Disaster ==
    /\ phase = "down"
    /\ disasters < MaxDisasters
    /\ disasters' = disasters + 1
    /\ \/ /\ "vanish" \in Disasters /\ wal.present      \* the log file is lost
          /\ wal' = NoFile /\ UNCHANGED marker
       \/ /\ "empty" \in Disasters /\ wal.present       \* the log file is cut to nothing
          /\ wal' = EmptyFile /\ UNCHANGED marker
       \/ /\ "reset" \in Disasters /\ marker.present    \* the operator removes the marker
          /\ marker' = NoMarker /\ UNCHANGED wal
    /\ UNCHANGED <<procVars, taskVars, next, crashes, faults, obsVars>>

-----------------------------------------------------------------------------
TaskStep(t) ==
    \/ AdmitCheck(t) \/ AdmitAppend(t) \/ AdmitRejected(t) \/ AdmitFatal(t) \/ AdmitMarker(t)
    \/ AckCheck(t) \/ AckAppend(t) \/ AckRejected(t) \/ AckFatal(t)
    \/ CompactRefuse(t) \/ CompactRewrite(t) \/ CompactRemove(t) \/ CompactMarker(t)
    \/ CrashInAppend(t)

Next ==
    \/ BootRefuse \/ BootWithoutFile \/ BootRead \/ BootFirstMarker \/ BootFinalMarker
    \/ \E t \in Tasks : TaskStep(t)
    \/ ListPending
    \/ Crash
    \/ Disaster

Spec == Init /\ [][Next]_vars

-----------------------------------------------------------------------------
(* Properties *)

(* Every variable has its type: the shape of the file, the marker and the  *)
(* tasks, over admit, ack, compact, replay and kills.                      *)
TypeOK ==
    /\ wal \in Files
    /\ marker \in Markers
    /\ phase \in {"down", "marking", "up", "failed"}
    /\ wasEmpty \in BOOLEAN
    /\ admitSeq \in Nat
    /\ degraded \subseteq Reasons
    /\ gate \in Tasks \cup {NoTask}
    /\ pc \in [Tasks -> {"idle", "admit", "marker", "ack", "clean"}]
    /\ arg \in [Tasks -> Ids \cup {0}]
    /\ \A t \in Tasks : pc[t] \in {"admit", "marker", "ack"} => arg[t] \in Ids
    /\ next \in 1..(MaxAdmissions + 1)
    /\ crashes \in 0..MaxCrashes
    /\ faults \in 0..MaxFaults
    /\ disasters \in 0..MaxDisasters
    /\ accepted \subseteq Ids /\ refused \subseteq Ids /\ closing \subseteq Ids
    /\ acked \subseteq Ids /\ view \subseteq Ids

(* An admitted event that nobody tried to acknowledge is a readable,       *)
(* pending frame of the file, at every moment: through rollbacks, torn     *)
(* tails, compactions, kills and repairs (admit, compact, replay).         *)
NoLoss == accepted \ closing \subseteq IdsOf(Pending(Readable(wal)))

(* An event whose caller was told it failed is in no frame, so that no     *)
(* replay executes it; an event whose ACK was confirmed is not pending     *)
(* again (append_frame_inner, ack, compact).                               *)
NoGhost ==
    /\ refused \cap IdsOf(Admitted(Readable(wal))) = {}
    /\ acked \cap IdsOf(Pending(Readable(wal))) = {}

(* Two admissions in the file never carry the same sequence: the worker    *)
(* keys its gate and its buffer by it (admit, replay, compact).            *)
SequencesDistinct ==
    \A f, g \in Admitted(Readable(wal)) : f.seq = g.seq => f = g

(* The log keeps the promises of AdmissionLedger to its callers.           *)
ImplementsLedger == Ledger!LedgerSpec

(* A clean marker next to no pending frame means that nothing is owed: the *)
(* deletion guard never vouches for a log that lost an admitted event      *)
(* (mark_marker_active, compact, replay).                                  *)
CleanMarkerOwesNothing ==
    marker.present /\ marker.clean /\ ~wal.present => accepted \subseteq closing

(* marker.rs:3: "records the max_sequence high-water mark so admission     *)
(* sequence numbers never regress across restarts/compactions".  A process *)
(* that comes up knows every sequence a caller was ever given; one         *)
(* admission is accepted per sequence.                                     *)
SequencesNeverRegress ==
    phase = "up" => admitSeq >= Cardinality(accepted)

(* wal/mod.rs ack: "no WAL append of any kind is permitted, including      *)
(* ACKs" once corruption is latched: a file with an uncertain tail is not  *)
(* appended to.                                                            *)
NoAppendAfterCorruption ==
    [][\A t \in Tasks :
          "CORRUPTION" \in degraded => ~AdmitAppend(t) /\ ~AckAppend(t)]_vars

(* wal/mod.rs compact: "remove the WAL file and record a clean marker so   *)
(* that the next startup does not treat the missing WAL as accidental      *)
(* deletion".  After kills alone a start refuses only a corrupt line.      *)
KillsRefuseOnlyCorruption ==
    phase = "failed" => wal.present /\ ~Replayable(wal)

-----------------------------------------------------------------------------
(* The inductive invariant behind NoLoss, NoGhost and ImplementsLedger:    *)
(* what holds when no append ends in an unknown tail and nobody touches    *)
(* the files while the process is down.                                    *)

(* io_gate is held exactly between the two halves of admit and of compact, *)
(* and tasks only work in a running process.                               *)
GateInv ==
    \A t \in Tasks :
        /\ gate = t <=> pc[t] \in {"marker", "clean"}
        /\ pc[t] \in {"admit", "ack", "marker"} => phase = "up"
        /\ pc[t] = "clean" => phase \in {"up", "failed"}

(* A file that is being appended to ends in a complete, synced line. *)
FileInv ==
    /\ ~wal.broken
    /\ ~wal.present => wal = NoFile
    /\ phase \in {"up", "marking"} => wal.tail = NoTail

(* What is owed is in the synced part of the file. *)
KeptInv ==
    /\ accepted \ closing \subseteq IdsOf(Admitted(wal.frames))
    /\ \A f \in Readable(wal) : f.type = "ack" => f.id \in closing
    /\ \A t \in Tasks : pc[t] = "marker" => arg[t] \in IdsOf(Admitted(wal.frames))

(* The events somebody has heard of: offered, and past their append. *)
Known == {i \in Ids : i < next /\ \A t \in Tasks : pc[t] = "admit" => arg[t] # i}

(* An event on its way to its append is known nowhere else. *)
FreshInv ==
    /\ accepted \cup refused \cup acked \cup view \subseteq Known
    /\ IdsOf(Admitted(Readable(wal))) \subseteq Known
    /\ \A t \in Tasks :
          /\ pc[t] = "admit" => arg[t] \in Ids /\ arg[t] < next
          /\ pc[t] \in {"marker", "ack"} => arg[t] \in Known \ refused
          /\ pc[t] = "marker" => arg[t] \notin accepted
    /\ \A t, u \in Tasks : pc[t] = "admit" /\ pc[u] = "admit" /\ t # u => arg[t] # arg[u]

(* Refused and acked events stay that way. *)
SettledInv ==
    /\ refused \cap (accepted \cup view \cup IdsOf(Admitted(Readable(wal)))) = {}
    /\ \A i \in acked : i \in IdsOf(Admitted(Readable(wal))) => Ack(i) \in wal.frames

(* The file, the gate and what callers were told agree at every step of    *)
(* admit, ack, compact and replay, also when a kill cuts them off.         *)
IInv == TypeOK /\ GateInv /\ FileInv /\ KeptInv /\ FreshInv /\ SettledInv

=============================================================================
