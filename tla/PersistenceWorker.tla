------------------------- MODULE PersistenceWorker -------------------------
(***************************************************************************)
(* The persistence worker of the server:                                   *)
(* phira-mp-plus-server/src/persistence/worker.rs, process.rs, control.rs. *)
(*                                                                         *)
(* Callers admit an event to the write-ahead log and queue it; one worker  *)
(* takes queued events in the order of their log sequences through the     *)
(* database (or the dead-letter journal) and acknowledges them; a scanner  *)
(* queues what is pending in the log and not in flight; callers of flush   *)
(* and shutdown send a control message behind the events.  The log is what *)
(* AdmissionLedger promises of it: the sequences of the admissions, and    *)
(* which of them have no ACK.  Kills restart the process with a replay.    *)
(***************************************************************************)
EXTENDS Integers, Sequences, FiniteSetsExt

CONSTANTS
    Callers,        \* callers of flush and shutdown
    Kinds,          \* what they call, a subset of ControlKinds
    MaxEvents,      \* events admitted over all runs of the process
    Capacity,       \* room in the channel
    MaxCrashes,     \* kills of the process
    MaxFaults,      \* failures of a kind in Faults
    Faults,         \* a subset of FaultKinds
    Deadlines       \* whether the deadlines of callers may pass

ControlKinds == {"flush", "shutdown"}
FaultKinds == {"db", "ack", "fatal", "read"}

ASSUME WorkerAssumption ==
    /\ Kinds \subseteq ControlKinds
    /\ MaxEvents \in Nat /\ Capacity \in Nat \ {0}
    /\ MaxCrashes \in Nat /\ MaxFaults \in Nat
    /\ Faults \subseteq FaultKinds
    /\ Deadlines \in BOOLEAN

Ids == 1..MaxEvents      \* in the order of admission
Nobody == "nobody"
Enqueuer == "enqueuer"
ASSUME NamesAssumption == {Nobody, Enqueuer} \cap Callers = {}

VARIABLES
    seq,            \* log: the sequence of each admitted event, 0 if not admitted
    unacked,        \* log: admitted events without an ACK
    highest,        \* log: the highest sequence in the file
    marked,         \* log: the high-water mark in the instance marker
    done,           \* events committed to the database or dead-lettered
    admitSeq, fatal,        \* the log's counter and its fatal bits
    holder,         \* who holds send_gate
    moving,         \* the event the enqueuer has admitted and not yet queued
    closed, channel, inFlight,
    worker,         \* where the worker is in its loop
    cur, serving,   \* the event, the caller the worker is busy with
    nextExpected, buffer, pendingAcks, deferred, replayPending, drained,
    scan, found,    \* the scanner, and the entries it has left to look at
    caller, kind, target, expired,  \* callers of flush and shutdown
    next, crashes, faults,
    behind,         \* events queued behind a shutdown message
    cover,          \* events admitted before a caller of flush or shutdown got the gate
    booted          \* events admitted before the last start

logVars == <<seq, unacked, highest, marked, done, admitSeq, fatal>>
sendVars == <<holder, moving, closed, channel>>
loopVars == <<cur, serving, nextExpected, buffer, pendingAcks, deferred, replayPending, drained>>
scanVars == <<scan, found>>
callVars == <<caller, kind, target, expired, cover, booted>>
countVars == <<next, crashes, faults>>
vars == <<logVars, sendVars, inFlight, worker, loopVars, scanVars, callVars, countVars, behind>>

Event(e) == [kind |-> "event", of |-> e]
Control(k, c) == [kind |-> k, of |-> c]

(* What a process starts with: the replayed events go into the buffer and  *)
(* the gate opens at the lowest of them.                                   *)
Started ==
    /\ fatal' = FALSE
    /\ holder' = Nobody /\ moving' = 0
    /\ closed' = FALSE /\ channel' = <<>>
    /\ inFlight' = unacked
    /\ worker' = "control"
    /\ cur' = 0 /\ serving' = Nobody
    /\ buffer' = unacked
    /\ nextExpected' = IF unacked = {} THEN 0 ELSE Min({seq[e] : e \in unacked})
    /\ pendingAcks' = <<>> /\ deferred' = Nobody
    /\ replayPending' = unacked
    /\ drained' = (unacked = {})
    /\ scan' = "idle" /\ found' = {}
    /\ caller' = [c \in Callers |-> "idle"]
    /\ kind' = [c \in Callers |-> "flush"]
    /\ target' = [c \in Callers |-> 0]
    /\ expired' = {}
    /\ behind' = {}
    /\ cover' = [c \in Callers |-> 0]
    /\ booted' = next - 1

Init ==
    /\ seq = [e \in Ids |-> 0]
    /\ unacked = {} /\ highest = 0 /\ marked = 0 /\ done = {}
    /\ admitSeq = 0 /\ fatal = FALSE
    /\ holder = Nobody /\ moving = 0 /\ closed = FALSE /\ channel = <<>> /\ inFlight = {}
    /\ worker = "control"
    /\ cur = 0 /\ serving = Nobody /\ nextExpected = 0 /\ buffer = {}
    /\ pendingAcks = <<>> /\ deferred = Nobody /\ replayPending = {} /\ drained = TRUE
    /\ scan = "idle" /\ found = {}
    /\ caller = [c \in Callers |-> "idle"]
    /\ kind = [c \in Callers |-> "flush"]
    /\ target = [c \in Callers |-> 0]
    /\ expired = {}
    /\ next = 1 /\ crashes = 0 /\ faults = 0
    /\ behind = {} /\ cover = [c \in Callers |-> 0] /\ booted = 0

(* Kill and start: replay restores the counter from the marker and the file. *)
Restart ==
    /\ crashes < MaxCrashes
    /\ crashes' = crashes + 1
    /\ admitSeq' = Max({marked, highest})
    /\ Started
    /\ UNCHANGED <<seq, unacked, highest, marked, done, next, faults>>

Fail(k) ==
    /\ k \in Faults
    /\ faults < MaxFaults
    /\ faults' = faults + 1

Running == worker # "stopped"
Room == Len(channel) < Capacity /\ Running
UpTo(s) == {e \in Ids : e \in unacked /\ seq[e] <= s}

Acknowledge(e) == unacked' = unacked \ {e} /\ inFlight' = inFlight \ {e}

(* compact drops acknowledged frames; only an empty log is recorded in the *)
(* marker.                                                                 *)
Compact ==
    IF unacked = {}
    THEN highest' = 0 /\ marked' = admitSeq
    ELSE highest' = Max({seq[e] : e \in unacked}) /\ UNCHANGED marked

-----------------------------------------------------------------------------
(* enqueue, under send_gate *)

EnqueueAdmit ==
    /\ holder = Nobody /\ ~closed /\ ~fatal
    /\ next <= MaxEvents
    /\ next' = next + 1
    /\ holder' = Enqueuer /\ moving' = next
    /\ admitSeq' = admitSeq + 1 /\ highest' = admitSeq + 1
    /\ seq' = [seq EXCEPT ![next] = admitSeq + 1]
    /\ unacked' = unacked \cup {next}
    /\ UNCHANGED <<marked, done, fatal, closed, channel, inFlight, worker, loopVars,
                   scanVars, callVars, crashes, faults, behind>>

ShutdownQueued ==
    \/ \E i \in DOMAIN channel : channel[i].kind = "shutdown"
    \/ deferred # Nobody /\ kind[deferred] = "shutdown"

(* Mutant: the message is pushed without a permit. *)
EnqueueSend_NoPermit ==
    /\ holder = Enqueuer /\ Running
    /\ holder' = Nobody /\ moving' = 0
    /\ inFlight' = inFlight \cup {moving}
    /\ channel' = Append(channel, Event(moving))
    /\ behind' = IF ShutdownQueued THEN behind \cup {moving} ELSE behind
    /\ UNCHANGED <<logVars, closed, worker, loopVars, scanVars, callVars, countVars>>

EnqueueSend ==
    /\ holder = Enqueuer /\ Room
    /\ holder' = Nobody /\ moving' = 0
    /\ inFlight' = inFlight \cup {moving}
    /\ channel' = Append(channel, Event(moving))
    /\ behind' = IF ShutdownQueued THEN behind \cup {moving} ELSE behind
    /\ UNCHANGED <<logVars, closed, worker, loopVars, scanVars, callVars, countVars>>

(* WalOnly: no room within 100 ms, or no worker. *)
EnqueueWalOnly ==
    /\ holder = Enqueuer /\ ~Room
    /\ holder' = Nobody /\ moving' = 0
    /\ UNCHANGED <<logVars, closed, channel, inFlight, worker, loopVars, scanVars,
                   callVars, countVars, behind>>

-----------------------------------------------------------------------------
(* flush and shutdown: send_gate, then the sequence, then the message *)

Answer(c, a) == caller' = [caller EXCEPT ![c] = a]

(* Mutant: the target is read after the gate was released. *)
ControlBegin_EarlyTarget(c) ==
    /\ holder = Nobody /\ caller[c] = "idle"
    /\ \E k \in Kinds :
        /\ kind' = [kind EXCEPT ![c] = k]
        /\ IF closed
           THEN /\ Answer(c, IF k = "flush" THEN "error" ELSE "closed")
                /\ UNCHANGED <<target, closed, holder>>
           ELSE /\ Answer(c, "sending")
                /\ target' = [target EXCEPT ![c] = IF admitSeq = 0 THEN 0 ELSE admitSeq - 1]
                /\ closed' = (k = "shutdown")
                /\ holder' = c
    /\ cover' = [cover EXCEPT ![c] = next - 1]
    /\ UNCHANGED <<logVars, moving, channel, inFlight, worker, loopVars, scanVars,
                   expired, booted, countVars, behind>>

(* A second shutdown is told Ok at once ("closed" here). *)
ControlBegin(c) ==
    /\ holder = Nobody /\ caller[c] = "idle"
    /\ \E k \in Kinds :
        /\ kind' = [kind EXCEPT ![c] = k]
        /\ IF closed
           THEN /\ Answer(c, IF k = "flush" THEN "error" ELSE "closed")
                /\ UNCHANGED <<target, closed, holder>>
           ELSE /\ Answer(c, "sending")
                /\ target' = [target EXCEPT ![c] = admitSeq]
                /\ closed' = (k = "shutdown")
                /\ holder' = c
    /\ cover' = [cover EXCEPT ![c] = next - 1]
    /\ UNCHANGED <<logVars, moving, channel, inFlight, worker, loopVars, scanVars,
                   expired, booted, countVars, behind>>

ControlSend(c) ==
    /\ holder = c /\ Room
    /\ holder' = Nobody
    /\ channel' = Append(channel, Control(kind[c], c))
    /\ Answer(c, "waiting")
    /\ UNCHANGED <<logVars, moving, closed, inFlight, worker, loopVars, scanVars,
                   kind, target, expired, cover, booted, countVars, behind>>

(* An error releases the closed latch, so that shutdown can be retried. *)
Reopened(c) == closed' = (closed /\ kind[c] # "shutdown")

ControlUnsent(c) ==
    /\ holder = c /\ (c \in expired \/ ~Running)
    /\ holder' = Nobody
    /\ Reopened(c)
    /\ Answer(c, "error")
    /\ UNCHANGED <<logVars, moving, channel, inFlight, worker, loopVars, scanVars,
                   kind, target, expired, cover, booted, countVars, behind>>

(* The deadline passes: the caller gives up if it is waiting for the reply. *)
DeadlinePasses(c) ==
    /\ Deadlines
    /\ caller[c] \in {"sending", "waiting"} /\ c \notin expired
    /\ expired' = expired \cup {c}
    /\ IF caller[c] = "waiting"
       THEN Answer(c, "timeout") /\ Reopened(c)
       ELSE UNCHANGED <<caller, closed>>
    /\ UNCHANGED <<logVars, holder, moving, channel, inFlight, worker, loopVars, scanVars,
                   kind, target, cover, booted, countVars, behind>>

(* The caller reads the reply; after an Ok it compacts the log. *)
ControlReturn(c) ==
    /\ \/ /\ caller[c] = "replied ok" /\ Answer(c, "ok")
          /\ (Compact \/ (Deadlines /\ UNCHANGED <<highest, marked>>))
          /\ UNCHANGED closed
       \/ /\ caller[c] \in {"replied error", "dropped"} /\ Answer(c, "error")
          /\ Reopened(c) /\ UNCHANGED <<highest, marked>>
    /\ UNCHANGED <<seq, unacked, done, admitSeq, fatal, holder, moving, channel, inFlight,
                   worker, loopVars, scanVars, kind, target, expired, cover, booted, countVars, behind>>

(* What a caller sees of a reply: nothing once it gave up.  A sender that  *)
(* goes away without a reply is seen as "dropped".                         *)
Replies(answers) ==
    caller' = [c \in Callers |->
        IF c \in DOMAIN answers /\ caller[c] = "waiting" THEN answers[c] ELSE caller[c]]
Reply(c, a) == Replies([d \in {c} |-> a])
Drops(cs) == Replies([c \in cs |-> "dropped"])

-----------------------------------------------------------------------------
(* The worker loop *)

(* The worker answers c and breaks its loop: what is in the channel goes   *)
(* away with it.                                                           *)
Stop(c, a) ==
    /\ worker' = "stopped"
    /\ channel' = <<>>
    /\ LET unheard == {channel[i].of : i \in {j \in DOMAIN channel : channel[j].kind # "event"}}
       IN Replies([d \in {c, deferred} \cup unheard |-> IF d = c THEN a ELSE "dropped"])

(* Flush and shutdown are done when nothing up to their target is left. *)
Ready(c) ==
    /\ pendingAcks = <<>>
    /\ \A e \in buffer : seq[e] > target[c]
    /\ UpTo(target[c]) = {}

AfterCheck == IF pendingAcks = <<>> THEN "fetch" ELSE "retry"

(* The deferred control message is looked at first. *)
CheckDeferred ==
    /\ worker = "control"
    /\ LET c == deferred
           reply(a) == IF kind[c] = "shutdown" THEN Stop(c, a)
                       ELSE Reply(c, a) /\ worker' = AfterCheck /\ UNCHANGED channel
       IN \/ /\ c # Nobody => ~Ready(c) /\ c \notin expired
             /\ worker' = AfterCheck
             /\ UNCHANGED <<channel, caller, deferred, faults>>
          \/ /\ c # Nobody /\ (Ready(c) \/ c \in expired)
             /\ reply(IF Ready(c) THEN "replied ok" ELSE "replied error")
             /\ deferred' = Nobody
             /\ UNCHANGED faults
          \/ /\ c # Nobody
             /\ Fail("read")
             /\ reply("replied error")
             /\ deferred' = Nobody
    /\ UNCHANGED <<logVars, holder, moving, closed, inFlight, cur, serving, nextExpected, buffer,
                   pendingAcks, replayPending, drained, scanVars, kind, target, expired,
                   cover, booted, next, crashes, behind>>

(* One ACK of the retry queue is tried per iteration. *)
RetryAck ==
    /\ worker = "retry"
    /\ IF fatal
       THEN worker' = "halted" /\ UNCHANGED <<unacked, inFlight, pendingAcks, fatal, faults>>
       ELSE /\ worker' = "fetch"
            /\ \/ /\ Acknowledge(Head(pendingAcks))
                  /\ pendingAcks' = Tail(pendingAcks)
                  /\ UNCHANGED <<fatal, faults>>
               \/ /\ Fail("ack")
                  /\ pendingAcks' = Append(Tail(pendingAcks), Head(pendingAcks))
                  /\ UNCHANGED <<unacked, inFlight, fatal>>
    /\ UNCHANGED <<seq, highest, marked, done, admitSeq, sendVars, cur, serving, nextExpected,
                   buffer, deferred, replayPending, drained, scanVars, callVars, next,
                   crashes, behind>>

Expected == {e \in buffer : seq[e] = nextExpected}

Process(e) == worker' = "exec" /\ cur' = e

FetchBuffered ==
    /\ worker = "fetch"
    /\ \E e \in Expected : Process(e) /\ buffer' = buffer \ {e}
    /\ UNCHANGED <<logVars, sendVars, inFlight, serving, nextExpected, pendingAcks, deferred,
                   replayPending, drained, scanVars, callVars, countVars, behind>>

(* Nothing arrives within 100 ms while there is deferred work. *)
FetchTimeout ==
    /\ worker = "fetch" /\ Expected = {} /\ channel = <<>>
    /\ deferred # Nobody \/ pendingAcks # <<>>
    /\ worker' = "control"
    /\ UNCHANGED <<logVars, sendVars, inFlight, loopVars, scanVars, callVars, countVars, behind>>

Receives(k) ==
    /\ worker = "fetch" /\ Expected = {} /\ channel # <<>>
    /\ (Head(channel).kind = "event") = (k = "event")
    /\ channel' = Tail(channel)

(* The first event opens the gate at the lowest pending sequence. *)
GateFor(e) ==
    IF nextExpected # 0 THEN nextExpected
    ELSE IF unacked = {} THEN seq[e] ELSE Min({seq[u] : u \in unacked})

(* Mutant: an event behind the gate is processed. *)
ReceiveEvent_NotStale ==
    /\ Receives("event")
    /\ LET e == Head(channel).of
           g == GateFor(e)
       IN /\ nextExpected' = g
          /\ \/ seq[e] <= g /\ Process(e) /\ UNCHANGED buffer
             \/ seq[e] > g /\ buffer' = buffer \cup {e} /\ worker' = "control" /\ UNCHANGED cur
    /\ UNCHANGED <<logVars, holder, moving, closed, inFlight, serving, pendingAcks, deferred,
                   replayPending, drained, scanVars, callVars, countVars, behind>>

(* In order, early (buffered), or behind the gate (skipped). *)
ReceiveEvent ==
    /\ Receives("event")
    /\ LET e == Head(channel).of
           g == GateFor(e)
       IN /\ nextExpected' = g
          /\ \/ seq[e] = g /\ Process(e) /\ UNCHANGED buffer
             \/ seq[e] > g /\ buffer' = buffer \cup {e} /\ worker' = "control" /\ UNCHANGED cur
             \/ seq[e] < g /\ worker' = "control" /\ UNCHANGED <<cur, buffer>>
    /\ UNCHANGED <<logVars, holder, moving, closed, inFlight, serving, pendingAcks, deferred,
                   replayPending, drained, scanVars, callVars, countVars, behind>>

(* The log cannot be read to open the gate: the event is dropped. *)
ReceiveUnread ==
    /\ Receives("event") /\ nextExpected = 0
    /\ Fail("read")
    /\ worker' = "control"
    /\ UNCHANGED <<logVars, holder, moving, closed, inFlight, loopVars, scanVars, callVars,
                   next, crashes, behind>>

ReceiveControl ==
    /\ Receives("control")
    /\ serving' = Head(channel).of
    /\ worker' = "drain"
    /\ UNCHANGED <<logVars, holder, moving, closed, inFlight, cur, nextExpected, buffer,
                   pendingAcks, deferred, replayPending, drained, scanVars, callVars,
                   countVars, behind>>

Draining == pendingAcks # <<>> /\ serving \notin expired /\ ~fatal

(* drain_pending_acks *)
Drain ==
    /\ worker = "drain" /\ Draining
    /\ \/ /\ Acknowledge(Head(pendingAcks))
          /\ pendingAcks' = Tail(pendingAcks)
          /\ UNCHANGED <<fatal, faults>>
       \/ /\ Fail("ack")
          /\ pendingAcks' = Append(Tail(pendingAcks), Head(pendingAcks))
          /\ UNCHANGED <<unacked, inFlight, fatal>>
       \/ /\ Fail("fatal")
          /\ fatal' = TRUE
          /\ pendingAcks' = Tail(pendingAcks)
          /\ UNCHANGED <<unacked, inFlight>>
    /\ UNCHANGED <<seq, highest, marked, done, admitSeq, sendVars, worker, cur, serving,
                   nextExpected, buffer, deferred, replayPending, drained, scanVars, callVars,
                   next, crashes, behind>>

(* A message that is not ready is deferred, in the place of one deferred   *)
(* before, whose caller is never answered.                                 *)
ServeControl ==
    /\ worker = "drain" /\ ~Draining
    /\ serving' = Nobody
    /\ LET c == serving
           reply(a) == /\ IF kind[c] = "shutdown" THEN Stop(c, a)
                          ELSE Reply(c, a) /\ worker' = "control" /\ UNCHANGED channel
                       /\ UNCHANGED deferred
       IN \/ /\ Ready(c) \/ c \in expired
             /\ reply(IF Ready(c) THEN "replied ok" ELSE "replied error")
             /\ UNCHANGED faults
          \/ /\ ~Ready(c) /\ c \notin expired
             /\ deferred' = c /\ Drops({deferred} \ {Nobody})
             /\ worker' = "control" /\ UNCHANGED <<channel, faults>>
          \/ /\ Fail("read")
             /\ reply("replied error")
    /\ UNCHANGED <<logVars, holder, moving, closed, inFlight, cur, nextExpected, buffer,
                   pendingAcks, replayPending, drained, scanVars, kind, target, expired,
                   cover, booted, next, crashes, behind>>

-----------------------------------------------------------------------------
(* process_event_through_pipeline *)

(* Committed to the database after up to five attempts, or dead-lettered. *)
Commit ==
    /\ worker = "exec"
    /\ done' = done \cup {cur}
    /\ worker' = "ack"
    /\ UNCHANGED <<seq, unacked, highest, marked, admitSeq, fatal, sendVars, inFlight, loopVars,
                   scanVars, callVars, countVars, behind>>

(* Mutant: the event stays in flight. *)
NotDurable_StaysInFlight ==
    /\ worker = "exec"
    /\ Fail("db")
    /\ cur' = 0
    /\ worker' = "control"
    /\ UNCHANGED <<logVars, sendVars, inFlight, serving, nextExpected, buffer, pendingAcks,
                   deferred, replayPending, drained, scanVars, callVars, next, crashes, behind>>

(* RetryableFailure: neither; the gate stays and the scanner queues it again. *)
NotDurable ==
    /\ worker = "exec"
    /\ Fail("db")
    /\ inFlight' = inFlight \ {cur}
    /\ cur' = 0
    /\ worker' = "control"
    /\ UNCHANGED <<logVars, sendVars, serving, nextExpected, buffer, pendingAcks, deferred,
                   replayPending, drained, scanVars, callVars, next, crashes, behind>>

(* Mutant: a failed ACK is not queued for a retry. *)
AckEvent_Forgets ==
    /\ worker = "ack"
    /\ \/ Acknowledge(cur) /\ UNCHANGED faults
       \/ Fail("ack") /\ UNCHANGED <<unacked, inFlight>>
    /\ worker' = "advance"
    /\ UNCHANGED <<seq, highest, marked, done, admitSeq, fatal, sendVars, loopVars, scanVars,
                   callVars, next, crashes, behind>>

AckEvent ==
    /\ worker = "ack"
    /\ \/ /\ Acknowledge(cur)
          /\ worker' = "advance"
          /\ UNCHANGED <<pendingAcks, fatal, faults>>
       \/ /\ Fail("ack")
          /\ pendingAcks' = Append(pendingAcks, cur)
          /\ worker' = "advance"
          /\ UNCHANGED <<unacked, inFlight, fatal>>
       \/ /\ Fail("fatal")
          /\ fatal' = TRUE
          /\ worker' = "halted"
          /\ UNCHANGED <<unacked, inFlight, pendingAcks>>
    /\ UNCHANGED <<seq, highest, marked, done, admitSeq, sendVars, cur, serving, nextExpected,
                   buffer, deferred, replayPending, drained, scanVars, callVars, next,
                   crashes, behind>>

Buffered == {seq[e] : e \in buffer}

(* Mutant: the log is not asked. *)
GateAfter_IgnoresLog(base) ==
    IF base \in Buffered \/ \A s \in Buffered : s < base THEN base
    ELSE Min({s \in Buffered : s > base})

(* Sequences neither buffered nor pending in the log are skipped, but only *)
(* when something higher is buffered.                                      *)
GateAfter(base) ==
    IF base \in Buffered \/ \A s \in Buffered : s < base THEN base
    ELSE Min({s \in Buffered : s > base}
             \cup {seq[e] : e \in {u \in unacked : seq[u] >= base}})

(* Mutant: the replay counts as drained once it was handed to the buffer. *)
Advance_DrainsEarly ==
    /\ worker = "advance"
    /\ LET base == seq[cur] + 1
       IN \/ nextExpected' = GateAfter(base) /\ UNCHANGED faults
          \/ Fail("read") /\ nextExpected' = base
    /\ replayPending' = replayPending \ {cur}
    /\ drained' = TRUE
    /\ Compact \/ UNCHANGED <<highest, marked>>
    /\ cur' = 0
    /\ worker' = "control"
    /\ UNCHANGED <<seq, unacked, done, admitSeq, fatal, sendVars, inFlight, serving, buffer,
                   pendingAcks, deferred, scanVars, callVars, next, crashes, behind>>

(* The gate moves on; the log may be compacted. *)
Advance ==
    /\ worker = "advance"
    /\ LET base == seq[cur] + 1
       IN \/ nextExpected' = GateAfter(base) /\ UNCHANGED faults
          \/ Fail("read") /\ nextExpected' = base
    /\ replayPending' = replayPending \ {cur}
    /\ drained' = (drained \/ replayPending = {cur})
    /\ Compact \/ UNCHANGED <<highest, marked>>
    /\ cur' = 0
    /\ worker' = "control"
    /\ UNCHANGED <<seq, unacked, done, admitSeq, fatal, sendVars, inFlight, serving, buffer,
                   pendingAcks, deferred, scanVars, callVars, next, crashes, behind>>

(* process_degraded_worker_loop, entered with a fatal log *)
Halted ==
    /\ worker = "halted" /\ channel # <<>>
    /\ LET m == Head(channel)
       IN CASE m.kind = "event" -> channel' = Tail(channel) /\ UNCHANGED <<worker, caller>>
            [] m.kind = "flush" -> /\ channel' = Tail(channel)
                                   /\ Reply(m.of, "replied error")
                                   /\ UNCHANGED worker
            [] OTHER -> Stop(m.of, "replied error")
    /\ UNCHANGED <<logVars, holder, moving, closed, inFlight, loopVars, scanVars, kind, target,
                   expired, cover, booted, countVars, behind>>

-----------------------------------------------------------------------------
(* wal_recovery_scanner *)

ScanList ==
    /\ scan = "idle"
    /\ found' = unacked
    /\ scan' = "listed"
    /\ UNCHANGED <<logVars, sendVars, inFlight, worker, loopVars, callVars, countVars, behind>>

(* Entries in flight that the list does not have are forgotten; those it   *)
(* has are skipped.                                                        *)
ScanPrune ==
    /\ scan = "listed"
    /\ inFlight' = inFlight \cap found
    /\ found' = found \ inFlight
    /\ scan' = IF found' = {} THEN "idle" ELSE "queueing"
    /\ UNCHANGED <<logVars, sendVars, worker, loopVars, callVars, countVars, behind>>

(* Mutant: a full channel ends the scanner. *)
ScanQueue_EndsWhenFull ==
    /\ scan = "queueing"
    /\ LET e == Min(found)
       IN IF holder = Nobody /\ Room
          THEN /\ inFlight' = inFlight \cup {e}
               /\ channel' = Append(channel, Event(e))
               /\ found' = found \ {e}
               /\ scan' = IF found' = {} THEN "idle" ELSE "queueing"
          ELSE /\ found' = {}
               /\ scan' = IF holder = Nobody THEN "ended" ELSE "idle"
               /\ UNCHANGED <<inFlight, channel>>
    /\ UNCHANGED <<logVars, holder, moving, closed, worker, loopVars, callVars, countVars, behind>>

(* try_lock and try_send: given up for this round when either fails. *)
ScanQueue ==
    /\ scan = "queueing"
    /\ LET e == Min(found)
       IN IF holder = Nobody /\ Room
          THEN /\ inFlight' = inFlight \cup {e}
               /\ channel' = Append(channel, Event(e))
               /\ found' = found \ {e}
               /\ scan' = IF found' = {} THEN "idle" ELSE "queueing"
          ELSE /\ found' = {}
               /\ scan' = IF holder = Nobody /\ ~Running THEN "ended" ELSE "idle"
               /\ UNCHANGED <<inFlight, channel>>
    /\ UNCHANGED <<logVars, holder, moving, closed, worker, loopVars, callVars, countVars, behind>>

-----------------------------------------------------------------------------
EnqueueStep == EnqueueSend \/ EnqueueWalOnly
CallerStep(c) == ControlSend(c) \/ ControlUnsent(c) \/ ControlReturn(c)
WorkerStep ==
    \/ CheckDeferred \/ RetryAck
    \/ FetchBuffered \/ FetchTimeout \/ ReceiveEvent \/ ReceiveUnread \/ ReceiveControl
    \/ Drain \/ ServeControl
    \/ Commit \/ NotDurable \/ AckEvent \/ Advance \/ Halted
ScanStep == ScanList \/ ScanPrune \/ ScanQueue

Next ==
    \/ EnqueueAdmit \/ EnqueueStep
    \/ \E c \in Callers : ControlBegin(c) \/ CallerStep(c) \/ DeadlinePasses(c)
    \/ WorkerStep
    \/ ScanStep
    \/ Restart

Spec == Init /\ [][Next]_vars

(* Tasks that can run are run: the runtime polls every woken task. *)
FairSpec ==
    /\ Spec
    /\ WF_vars(EnqueueStep) /\ WF_vars(WorkerStep) /\ WF_vars(ScanStep)
    /\ \A c \in Callers : WF_vars(CallerStep(c))

-----------------------------------------------------------------------------
(* Properties *)

(* The types of the worker's state. *)
TypeOK ==
    /\ seq \in [Ids -> 0..MaxEvents]
    /\ unacked \subseteq Ids /\ done \subseteq Ids /\ inFlight \subseteq Ids
    /\ buffer \subseteq Ids /\ replayPending \subseteq Ids /\ found \subseteq Ids
    /\ behind \subseteq Ids
    /\ {highest, marked, admitSeq} \subseteq 0..MaxEvents
    /\ nextExpected \in 0..(MaxEvents + 1)
    /\ {fatal, closed, drained} \subseteq BOOLEAN
    /\ {holder, deferred, serving} \subseteq Callers \cup {Nobody, Enqueuer}
    /\ moving \in Ids \cup {0} /\ cur \in Ids \cup {0}
    /\ channel \in Seq([kind : {"event"}, of : Ids] \cup [kind : ControlKinds, of : Callers])
    /\ Len(channel) <= Capacity
    /\ pendingAcks \in Seq(Ids)
    /\ worker \in {"control", "retry", "fetch", "drain", "exec", "ack", "advance",
                   "halted", "stopped"}
    /\ scan \in {"idle", "listed", "queueing", "ended"}
    /\ caller \in [Callers -> {"idle", "sending", "waiting", "replied ok", "replied error",
                               "dropped", "timeout", "ok", "error", "closed"}]
    /\ expired \subseteq Callers

(* Events reach the database in the order in which they were admitted,     *)
(* through a full channel, failed writes, the scanner and restarts: what   *)
(* is done is a prefix of the admissions (the sequence gate).              *)
InOrder == \A f \in done : 1..f \subseteq done

(* An event is executed a second time only as a replay after a kill, and   *)
(* only once per start, however often it was queued (the gate against the  *)
(* scanner, which may queue what is in the channel already).               *)
RepeatedOnlyByReplay ==
    [][\A e \in done : cur' = e /\ cur # e => e \in replayPending]_vars

(* A flush or shutdown that returns Ok covers every event admitted before  *)
(* it was called, those that are only in the log included.                 *)
FlushFence ==
    \A c \in Callers :
        caller[c] \in {"replied ok", "ok"} => 1..cover[c] \subseteq done \ unacked

(* The worker reports its replay as drained only when every event of the   *)
(* processes before is in the database (is_healthy).                       *)
DrainedMeansReplayed == drained => 1..booted \subseteq done

(* worker.rs, RetryableFailure: an event must not be "stuck forever        *)
(* (in_flight, not in channel, scanner skips it)".                         *)
NobodyIsStuck ==
    worker \notin {"halted", "stopped"} =>
        \A e \in (inFlight \cap unacked) \ done :
            \/ e \in buffer \/ cur = e
            \/ \E i \in DOMAIN channel : channel[i] = Event(e)

(* Every admitted event is processed in this run of the process. *)
AdmittedIsProcessed ==
    \A e \in Ids : (e \in unacked) ~> (e \in done)

(* A flush is answered without its deadline. *)
FlushCompletes ==
    \A c \in Callers : (caller[c] = "waiting") ~> (caller[c] # "waiting")

(* control.rs: a deferred message keeps its reply sender until it is ready *)
(* or expired, "otherwise ... the caller receives 'acknowledgement was     *)
(* dropped' instead of a result".                                          *)
RepliesAreKept ==
    \A c \in Callers : caller[c] = "dropped" => worker = "stopped"

(* worker.rs, send_gate: "nothing can be accepted behind a Shutdown marker *)
(* and then remain unprocessed".                                           *)
NothingBehindShutdown == worker = "stopped" => behind \subseteq done

=============================================================================
