----------------------------- MODULE PluginTcp -----------------------------
(* The TCP connections of one plugin (plugin_tcp): the actor that owns the   *)
(* handles and their quota, a read task for every connection, and workers    *)
(* that deliver the events of a connection from its mailbox, one at a time.  *)
(* `trouble' is the set of things that may happen at an awkward time:        *)
(*   "early"  the peer closes before the actor knows of the connection       *)
(*   "late"   a read that was throttled ends after the handle was closed     *)
(*   "close"  the plugin closes a handle while a callback for it runs        *)
EXTENDS Naturals, Sequences, FiniteSets

CONSTANTS Handles, Workers, MaxConns, MaxPending, MaxReads, Troubles

VARIABLES trouble,
          task,        \* of each handle: "none", "connecting", "reading", "ended"
          unreported,  \* connected, but the actor has not been told
          inbox,       \* internal messages to the actor
          pending,     \* pending_connects
          connections, \* the handles the actor has
          slots,       \* plugin_connections of the plugin
          closing,     \* close_tx of the handle was sent or dropped
          box, gen,    \* mailbox: its events, and which of that handle it is
          active,      \* handles claimed by a worker
          running,     \* callback each worker runs
          buffered,    \* handle_read_bytes
          bytes,       \* plugin_read_bytes of the plugin
          reads, gone  \* reads so far; handles whose disconnect was delivered

vars == <<trouble, task, unreported, inbox, pending, connections, slots, closing, box, gen,
          active, running, buffered, bytes, reads, gone>>

Idle == [handle |-> "", gen |-> 0, event |-> ""]

Init ==
    /\ trouble \in Troubles
    /\ task = [h \in Handles |-> "none"] /\ unreported = {} /\ inbox = <<>> /\ pending = {}
    /\ connections = {} /\ slots = 0 /\ closing = {}
    /\ box = [h \in Handles |-> <<>>] /\ gen = [h \in Handles |-> 1]
    /\ active = {} /\ running = [w \in Workers |-> Idle]
    /\ buffered = [h \in Handles |-> 0] /\ bytes = 0 /\ reads = 0 /\ gone = {}

owned == <<pending, connections, slots, closing>>
events == <<box, gen, active, running, gone>>
buffers == <<buffered, bytes, reads>>

Runs(h) == \E w \in Workers : running[w].handle = h
Queued == {q \in Handles \X (1..MaxPending) : q[2] \in DOMAIN box[q[1]]}
Full == Cardinality(Queued) >= MaxPending
-----------------------------------------------------------------------------
\* push: a received chunk joins the last one, or is dropped in a full channel.
PushReceive(h) ==
    \/ box[h] # <<>> /\ box[h][Len(box[h])] = "receive" /\ UNCHANGED box
    \/ box' = IF Full THEN box ELSE [box EXCEPT ![h] = Append(@, "receive")]

\* evict_receive_events: one that is first in a mailbox nobody has claimed.
Evictable == {h \in Handles \ active : box[h] # <<>> /\ box[h][1] = "receive"}

Fits == ~Full \/ Evictable # {}

PushLifecycle(h, event) ==
    IF ~Full THEN box' = [box EXCEPT ![h] = Append(@, event)]
    ELSE \E v \in Evictable :
           box' = LET b == [box EXCEPT ![v] = Tail(@)] IN [b EXCEPT ![h] = Append(@, event)]

\* close_handle: with what was buffered of it.
Forget(h) ==
    /\ connections' = connections \ {h}
    /\ slots' = IF h \in connections THEN slots - 1 ELSE slots
    /\ closing' = IF h \in connections THEN closing \cup {h} ELSE closing
    /\ buffered' = [buffered EXCEPT ![h] = 0]
    /\ bytes' = IF h \in connections THEN bytes - buffered[h] ELSE bytes

\* remove_connection: the mailbox goes; the next one has a lock of its own.
Drop(h) ==
    /\ box' = [box EXCEPT ![h] = <<>>] /\ gen' = [gen EXCEPT ![h] = @ + 1]
    /\ active' = active \ {h}
-----------------------------------------------------------------------------
\* count_plugin_connections
HasSlot == slots < MaxConns

Connect(h) ==
    /\ task[h] = "none" /\ HasSlot
    /\ task' = [task EXCEPT ![h] = "connecting"]
    /\ pending' = pending \cup {h} /\ slots' = slots + 1
    /\ UNCHANGED <<trouble, unreported, inbox, connections, closing, events, buffers>>

\* tcp_connect starts the read task before the actor is told.
Connected(h) ==
    /\ task[h] = "connecting"
    /\ \/ task' = [task EXCEPT ![h] = "reading"] /\ unreported' = unreported \cup {h} /\ UNCHANGED inbox
       \/ /\ task' = [task EXCEPT ![h] = "ended"] /\ UNCHANGED unreported
          /\ inbox' = Append(inbox, [what |-> "failed", handle |-> h])
    /\ UNCHANGED <<trouble, owned, events, buffers>>

Report(h) ==
    /\ h \in unreported /\ unreported' = unreported \ {h}
    /\ inbox' = Append(inbox, [what |-> "connected", handle |-> h])
    /\ UNCHANGED <<trouble, task, owned, events, buffers>>

\* tcp_accept_loop: the task of a connection waits for the word of the actor.
ReadsIf(h, taken) == task' = [task EXCEPT ![h] = IF taken THEN "reading" ELSE "ended"]

\* A connection a listener accepts reads once the actor has taken it, if there
\* is a slot and the plugin can be told.
Accepted(h) ==
    /\ task[h] = "none"
    /\ ReadsIf(h, HasSlot /\ Fits)
    /\ IF HasSlot /\ Fits
       THEN /\ connections' = connections \cup {h} /\ slots' = slots + 1
            /\ PushLifecycle(h, "accept")
       ELSE UNCHANGED <<connections, slots, box>>
    /\ UNCHANGED <<trouble, unreported, inbox, pending, closing, gen, active, running, gone, buffers>>

Receive(h) ==
    /\ task[h] = "reading" /\ reads < MaxReads
    /\ h \in closing => "late" \in trouble
    /\ reads' = reads + 1
    /\ buffered' = [buffered EXCEPT ![h] = @ + 1] /\ bytes' = bytes + 1
    /\ PushReceive(h)
    /\ UNCHANGED <<trouble, task, unreported, inbox, owned, gen, active, running, gone>>

PeerCloses(h) ==
    /\ task[h] = "reading" /\ h \notin closing
    /\ (h \in pending) => "early" \in trouble
    /\ task' = [task EXCEPT ![h] = "ended"]
    /\ inbox' = Append(inbox, [what |-> "disconnected", handle |-> h])
    /\ UNCHANGED <<trouble, unreported, owned, events, buffers>>

SeesClose(h) ==
    /\ task[h] = "reading" /\ h \in closing
    /\ task' = [task EXCEPT ![h] = "ended"]
    /\ UNCHANGED <<trouble, unreported, inbox, owned, events, buffers>>
-----------------------------------------------------------------------------
Got(what, h) == inbox # <<>> /\ Head(inbox) = [what |-> what, handle |-> h] /\ inbox' = Tail(inbox)

OnConnected(h) ==
    /\ Got("connected", h)
    /\ pending' = pending \ {h} /\ connections' = connections \cup {h}
    /\ UNCHANGED <<trouble, task, unreported, slots, closing, events, buffers>>

(* Mutant: the slot of a connection that failed is kept. *)
OnFailed_KeepsSlot(h) ==
    /\ Got("failed", h)
    /\ pending' = pending \ {h}
    /\ UNCHANGED <<trouble, task, unreported, slots, connections, closing, events, buffers>>

OnFailed(h) ==
    /\ Got("failed", h)
    /\ pending' = pending \ {h} /\ slots' = slots - 1
    /\ UNCHANGED <<trouble, task, unreported, connections, closing, events, buffers>>

\* A disconnect nobody can be told of removes the mailbox.
OnDisconnected(h) ==
    /\ Got("disconnected", h) /\ Forget(h)
    /\ IF Fits THEN PushLifecycle(h, "disconnect") /\ UNCHANGED <<gen, active>> ELSE Drop(h)
    /\ UNCHANGED <<trouble, task, unreported, pending, running, gone, reads>>

\* The plugin closes a handle it has, or reads what is buffered.
Close(h) ==
    /\ h \in connections
    /\ Runs(h) => "close" \in trouble
    /\ Forget(h) /\ Drop(h)
    /\ UNCHANGED <<trouble, task, unreported, inbox, pending, running, gone, reads>>

Recv(h) ==
    /\ h \in connections /\ buffered[h] > 0
    /\ buffered' = [buffered EXCEPT ![h] = 0] /\ bytes' = bytes - buffered[h]
    /\ UNCHANGED <<trouble, task, unreported, inbox, owned, events, reads>>
-----------------------------------------------------------------------------
\* The loop of a worker: it takes the first event and runs the callback.
Begin(w, h) ==
    /\ active' = active \cup {h}
    /\ box' = [box EXCEPT ![h] = Tail(@)]
    /\ running' = [running EXCEPT ![w] = [handle |-> h, gen |-> gen[h], event |-> Head(box[h])]]
    /\ gone' = IF Head(box[h]) = "disconnect" THEN gone \cup {h} ELSE gone

(* Mutant: a worker looks at the mailbox only. *)
Claim_Unguarded(w, h) ==
    /\ running[w] = Idle /\ box[h] # <<>>
    /\ Begin(w, h)
    /\ UNCHANGED <<trouble, task, unreported, inbox, owned, gen, buffers>>

\* claim_handle, the lock of the mailbox, pop_event: a callback begins.
Claim(w, h) ==
    /\ running[w] = Idle /\ box[h] # <<>> /\ h \notin active
    /\ ~\E v \in Workers : running[v].handle = h /\ running[v].gen = gen[h]
    /\ Begin(w, h)
    /\ UNCHANGED <<trouble, task, unreported, inbox, owned, gen, buffers>>

\* It ends, or is given up after its time; the mailbox goes with a disconnect.
CallbackEnds(w) ==
    LET r == running[w] IN
    /\ r # Idle /\ running' = [running EXCEPT ![w] = Idle]
    /\ IF r.event = "disconnect" THEN Drop(r.handle)
       ELSE active' = active \ {r.handle} /\ UNCHANGED <<box, gen>>
    /\ UNCHANGED <<trouble, task, unreported, inbox, owned, buffers, gone>>

Next ==
    \/ \E h \in Handles :
         \/ Connect(h) \/ Connected(h) \/ Report(h) \/ Accepted(h) \/ Receive(h)
         \/ PeerCloses(h) \/ SeesClose(h) \/ OnConnected(h) \/ OnFailed(h) \/ OnDisconnected(h)
         \/ Close(h) \/ Recv(h)
         \/ \E w \in Workers : Claim(w, h)
    \/ \E w \in Workers : CallbackEnds(w)

Spec == Init /\ [][Next]_vars
-----------------------------------------------------------------------------
(* The callbacks of a connection do not overlap, and none begins after that  *)
(* of its disconnect (comment of PluginEventChannel).                        *)
OneAtATime == \A v, w \in Workers : running[v] # Idle /\ running[v].handle = running[w].handle => v = w
NothingAfterDisconnect == \A w \in Workers : running[w].handle \in gone => running[w].event = "disconnect"
Delivery == OneAtATime /\ NothingAfterDisconnect
DeliveryIfCalm == trouble = {} => Delivery

(* A slot of the quota is held by a connection, or by an attempt, that can   *)
(* still end, and the bytes counted are those buffered for open handles.     *)
Kept == {q \in Handles \X (1..MaxReads) : q[2] <= buffered[q[1]]}
Live(h) == task[h] \in {"connecting", "reading"} \/ \E i \in DOMAIN inbox : inbox[i].handle = h
Quota ==
    /\ slots = Cardinality(pending) + Cardinality(connections)
    /\ \A h \in connections : Live(h)
    /\ bytes = Cardinality(Kept)
    /\ \A h \in Handles : buffered[h] > 0 => h \in connections \cup pending
QuotaIfCalm == trouble = {} => Quota
=============================================================================
