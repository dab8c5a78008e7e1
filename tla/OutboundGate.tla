---------------------------- MODULE OutboundGate ----------------------------
(* What a player hears who authenticates while his room goes on             *)
(* (session.rs, room.rs, room_actor/handler.rs).                             *)
(*                                                                           *)
(* The room actor takes a snapshot of the room, the new session is bound to  *)
(* the user, and Authenticate(Ok) with the snapshot is put on the outbound   *)
(* queue of the session.  Whatever the room says to the user from then on    *)
(* goes through the same queue.  One task takes the queue: until it is told  *)
(* to activate it puts events in a bounded buffer, the gate; on activation   *)
(* it sends the buffer, one event after the other and without what the       *)
(* snapshot has, and then lets everything through.                           *)
EXTENDS Integers, Sequences

CONSTANTS MaxEvents,      \* what happens in the room, at most (a bound of the model)
          MaxPending,     \* gate_max_pending_events
          Capacity,       \* OUTBOUND_CHANNEL_CAPACITY
          Overlaps        \* the sets of overlaps a behaviour may have, see below

(* "gap": the room changes between the snapshot and the binding.             *)
(* "leave": a player leaves without the actor, whose sequence stays.         *)
(* "flood": more happens during authentication than the gate holds.          *)
VARIABLES overlaps,   \* those of this behaviour
          room,       \* the version of each part of the room's state, and of its talk
          roomSeq,    \* room_event_seq, with its mirror last_room_seq
          phase,      \* how far the authentication is
          snap,       \* the versions in the snapshot
          bound,      \* the session is its user's
          queue,      \* outbound_tx
          pending,    \* GatePending.events
          cutover,    \* GatePending.cutover_seq
          overflowed, \* an event that no empty buffer can take
          draining,   \* the outbound task is in activate
          active,     \* the outbound task lets everything through
          wire,       \* what was written to the socket
          open        \* the transport

gate == <<pending, cutover, overflowed, draining, active>>
vars == <<overlaps, room, roomSeq, phase, snap, bound, queue, pending, cutover,
          overflowed, draining, active, wire, open>>

Parts   == {"host", "members", "chat"}
Covered == {"host", "members"}      \* GateEventClass::SnapshotCovered

Event(part, size, stamp) ==
    [kind |-> "packet", part |-> part, version |-> room[part] + 1, size |-> size,
     stamp |-> IF part \in Covered THEN stamp ELSE 0]

Happened == room["host"] + room["members"] + room["chat"]

TypeOK ==
    /\ room \in [Parts -> Nat] /\ snap \in [Parts -> Nat]
    /\ {roomSeq, cutover} \subseteq Nat
    /\ phase \in {"accepted", "snapped", "bound", "sending", "flushed", "activating",
                  "active", "failed"}
    /\ {bound, overflowed, draining, active, open} \subseteq BOOLEAN
    /\ Len(queue) <= Capacity /\ Len(pending) <= MaxPending

Init ==
    /\ overlaps \in Overlaps
    /\ room = [p \in Parts |-> 0] /\ snap = room /\ roomSeq = 0
    /\ phase = "accepted"
    /\ bound = FALSE /\ overflowed = FALSE /\ draining = FALSE /\ active = FALSE /\ open = TRUE
    /\ queue = <<>> /\ pending = <<>> /\ wire = <<>>
    /\ cutover = 0
-----------------------------------------------------------------------------
(* The room speaks.                                                          *)

\* User::try_send finds this session, and its transport is there.
Reaches == bound /\ open

\* Session::try_send: the queue takes the event, or the client is too slow and
\* is disconnected.  A user without this session has another one, or none.
TrySend(event) ==
    IF Reaches
    THEN IF Len(queue) < Capacity
         THEN queue' = Append(queue, event) /\ UNCHANGED open
         ELSE open' = FALSE /\ UNCHANGED queue
    ELSE UNCHANGED <<queue, open>>

MayHappen ==
    /\ Happened < MaxEvents
    /\ phase # "snapped" \/ "gap" \in overlaps
    /\ "flood" \in overlaps \/ Len(pending) + Len(queue) < MaxPending \/ active

Says(part, size, stamp) ==
    /\ MayHappen
    /\ room' = [room EXCEPT ![part] = @ + 1]
    /\ TrySend(Event(part, size, stamp))
    /\ UNCHANGED <<overlaps, phase, snap, bound, gate, wire>>

BumpRoomSeq == roomSeq' = roomSeq + 1

\* A command of the room's actor: bump_room_seq, the change, its broadcast.
Command(part) == Says(part, 1, roomSeq + 1) /\ BumpRoomSeq

\* Room::on_user_leave, from a kick or a timer: the mirror is read, not bumped.
Leave == "leave" \in overlaps /\ Says("members", 1, roomSeq) /\ UNCHANGED roomSeq

\* Talk; a message may be larger than the whole buffer.
Talk(size) ==
    /\ size = 1 \/ "flood" \in overlaps
    /\ Says("chat", size, 0)
    /\ UNCHANGED roomSeq
-----------------------------------------------------------------------------
(* The authentication task.                                                  *)

\* begin_room_cutover, with the sequence the snapshot came with.
BeginRoomCutover == cutover' = roomSeq

\* BindAndSnapshot, a turn of the room's actor, and what is done with it.
Snapshot ==
    /\ phase = "accepted"
    /\ phase' = "snapped" /\ snap' = room /\ BeginRoomCutover
    /\ UNCHANGED <<overlaps, room, roomSeq, bound, queue, pending, overflowed, draining, active, wire,
                   open>>

SetSession ==
    /\ phase = "snapped"
    /\ phase' = "bound" /\ bound' = TRUE
    /\ UNCHANGED <<overlaps, room, roomSeq, snap, queue, gate, wire, open>>

\* What the outbound task is asked to do besides sending packets.
Item(kind) == [kind |-> kind]

Ask(from, to, kind) ==
    /\ phase = from /\ Len(queue) < Capacity
    /\ phase' = to /\ queue' = Append(queue, Item(kind))
    /\ UNCHANGED <<overlaps, room, roomSeq, snap, bound, gate, wire, open>>

SendAuthenticate == Ask("bound", "sending", "authenticate")
AskActivation    == Ask("flushed", "activating", "activate")

\* A deadline passes, or the peer is gone: the binding is given up and the
\* transport closed.  After Active the connection may be lost too.
Fail ==
    /\ phase \notin {"accepted", "failed"}
    /\ phase' = "failed" /\ bound' = FALSE /\ open' = FALSE
    /\ UNCHANGED <<overlaps, room, roomSeq, snap, queue, gate, wire>>
-----------------------------------------------------------------------------
(* The outbound task.                                                        *)

SnapshotHas(event) == event.part \in Covered /\ event.stamp <= cutover

\* push_bounded: the oldest events make room for a new one; an event that does
\* not fit into an empty buffer makes the activation impossible.
PushBounded(event) ==
    IF event.size > MaxPending
    THEN pending' = <<>> /\ overflowed' = TRUE
    ELSE /\ pending' = IF Len(pending) < MaxPending THEN Append(pending, event)
                       ELSE Append(Tail(pending), event)
         /\ UNCHANGED overflowed

\* The task serves the queue unless it is emptying the gate.
Takes(kind) ==
    /\ ~draining /\ queue # <<>> /\ Head(queue).kind = kind
    /\ queue' = Tail(queue)

Write(item) == wire' = IF open THEN Append(wire, item) ELSE wire

\* A slip: without the gate what comes before the answer goes out before it.
TakePacket_NoGate ==
    /\ Takes("packet") /\ Write(Head(queue))
    /\ UNCHANGED <<overlaps, room, roomSeq, phase, snap, bound, gate, open>>

\* Before activation into the gate, afterwards to the socket.
TakePacket ==
    /\ Takes("packet")
    /\ IF active
       THEN Write(Head(queue)) /\ UNCHANGED <<pending, overflowed>>
       ELSE PushBounded(Head(queue)) /\ UNCHANGED wire
    /\ UNCHANGED <<overlaps, room, roomSeq, phase, snap, bound, cutover, draining, active, open>>

\* A critical response: written and flushed, and the flush is answered.
TakeAuthenticate ==
    /\ Takes("authenticate") /\ Write(Head(queue))
    /\ phase' = IF open /\ phase = "sending" THEN "flushed" ELSE phase
    /\ UNCHANGED <<overlaps, room, roomSeq, snap, bound, gate, open>>

\* activate: an overflow is a refusal.
TakeActivate ==
    /\ Takes("activate")
    /\ IF overflowed
       THEN pending' = <<>> /\ UNCHANGED draining
       ELSE draining' = TRUE /\ UNCHANGED pending
    /\ UNCHANGED <<overlaps, room, roomSeq, phase, snap, bound, cutover, overflowed, active, wire,
                   open>>

\* The first event of the buffer is left out or sent; what cannot be sent ends
\* the activation.
Drain ==
    /\ draining /\ pending # <<>>
    /\ IF SnapshotHas(Head(pending)) \/ open
       THEN pending' = Tail(pending) /\ UNCHANGED draining
       ELSE pending' = <<>> /\ draining' = FALSE
    /\ wire' = IF ~SnapshotHas(Head(pending)) /\ open THEN Append(wire, Head(pending)) ELSE wire
    /\ UNCHANGED <<overlaps, room, roomSeq, phase, snap, bound, queue, cutover, overflowed, active,
                   open>>

Activated ==
    /\ draining /\ pending = <<>>
    /\ draining' = FALSE /\ active' = TRUE
    /\ phase' = IF phase = "activating" THEN "active" ELSE phase
    /\ UNCHANGED <<overlaps, room, roomSeq, snap, bound, queue, pending, cutover, overflowed, wire,
                   open>>

Next ==
    \/ \E p \in Covered : Command(p)
    \/ Leave
    \/ \E size \in {1, MaxPending + 1} : Talk(size)
    \/ Snapshot \/ SetSession \/ SendAuthenticate \/ AskActivation \/ Fail
    \/ TakePacket \/ TakeAuthenticate \/ TakeActivate \/ Drain \/ Activated

Spec == Init /\ [][Next]_vars
-----------------------------------------------------------------------------
(* Properties.                                                               *)

\* Where an event of this part of the room is in a sequence of items.
Places(items, part) == {i \in DOMAIN items : items[i].kind = "packet" /\ items[i].part = part}

Increasing(items, part) ==
    \A i, j \in Places(items, part) : i < j => items[i].version < items[j].version

(* Whatever overlaps, a client hears Authenticate before anything else, and  *)
(* of each part of the room only what is newer than its snapshot, in order.  *)
HeardInOrder ==
    /\ wire # <<>> => wire[1].kind = "authenticate"
    /\ \A p \in Parts :
          Increasing(wire, p) /\ \A i \in Places(wire, p) : wire[i].version > snap[p]

Settled == phase = "active" /\ open /\ queue = <<>>

(* "An incomplete connection is never activated": with everything delivered, *)
(* a client in service has heard every change of every part of the room that *)
(* its snapshot does not have.                                               *)
Complete ==
    Settled => \A p \in Parts :
                  {wire[i].version : i \in Places(wire, p)} = snap[p] + 1 .. room[p]

(* So it is when nothing overlaps that the code does not provide for.        *)
CompleteIfCalm == overlaps = {} => Complete
=============================================================================
