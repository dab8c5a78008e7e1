--------------------------- MODULE PluginRuntime ---------------------------
(***************************************************************************)
(* The plugin manager (plugin.rs) with the part of the WASM host that      *)
(* plugins leave traces in (wasm_host.rs, wit_host): the queue of events   *)
(* and its dispatcher, the blocking calls into the plugins with their      *)
(* deadlines, the execution permit and the quarantine of a plugin, calls   *)
(* of a plugin's API, switching plugins on and off, removing and reloading *)
(* them, and the handlers they register.                                   *)
(*                                                                         *)
(* A call is a thread of the blocking pool: nobody can stop it once it has *)
(* begun.  Call 0 of a plugin is a call of its API, call n > 0 runs event  *)
(* n.  One administrator gives one command after another.                  *)
(*                                                                         *)
(* trouble is fixed at the start.  "api": the API is called while events   *)
(* are run.  "slow": the deadline of an event or an init passes.      *)
(* "stall": a thread is held up between its look at the permits and its    *)
(* claim.  "fails": a plugin returns an error.  "busy": a plugin is        *)
(* removed or reloaded during a call.  "renamed": the name a plugin        *)
(* reports is not that of its file.                                        *)
(***************************************************************************)
EXTENDS Naturals, Sequences, FiniteSets

CONSTANTS Order,        \* the plugins, in the order of their files
          Concurrency,  \* max_event_concurrency
          QueueSize,    \* event_queue_capacity
          MaxEvents,    \* bound: the events that are told
          MaxCommands,  \* bound: the commands of the administrator
          Troubles      \* the sets of troubles to start with

Plugins == {Order[i] : i \in DOMAIN Order}
Events  == 1 .. MaxEvents
Calls   == 0 .. MaxEvents

VARIABLES trouble,
          queue,    \* the messages on their way to the dispatcher
          gate,     \* who holds event_send_gate: "free", "flush", "stop"
          closed,   \* dispatcher_closed
          next,     \* the number of the next event
          accepted, \* the events that got into the queue
          turn,     \* the event the dispatcher runs, 0 for none
          slots,    \* the plugins of the registry, in order
          host,     \* of each plugin: enabled, quarantined, live
          call,     \* how far each call has come
          heard,    \* history: the events each plugin was given, in order
          missed,   \* history: the events kept from a plugin that was there
          flush,    \* the flush: none, asked, acked
          owed,     \* history: the events accepted before the flush
          handler,  \* the plugins with a handler in the shared registry
          init,     \* the initialisation of each plugin: none, running, late
          task,     \* what the administrator is doing, and to whom
          commands  \* how many commands he has given

vars == <<trouble, queue, gate, closed, next, accepted, turn, slots, host,
          call, heard, missed, flush, owed, handler, init, task, commands>>

dispatch == <<queue, gate, closed, next, accepted, flush, owed>>
admin    == <<slots, init, task, commands>>

Has(t)    == t \in trouble
There     == {slots[i] : i \in DOMAIN slots}
Inflight(p) == {n \in Calls : call[p][n] \in {"permitted", "running"}}
LockFree(p) == \A n \in Calls : call[p][n] # "running"
Alive(n)  == {p \in Plugins : call[p][n] # "none"}
Fresh     == [enabled |-> TRUE, quarantined |-> FALSE, live |-> TRUE]
NewTurn(n) == [event |-> n, pending |-> slots, slots |-> There]
NoTurn    == [event |-> 0, pending |-> <<>>, slots |-> {}]
Idle      == [does |-> "idle", to |-> {}]

Init ==
  /\ trouble \in Troubles
  /\ queue = <<>> /\ gate = "free" /\ closed = FALSE
  /\ next = 1 /\ accepted = {} /\ turn = NoTurn
  /\ slots = Order
  /\ host = [p \in Plugins |-> Fresh]
  /\ call = [p \in Plugins |-> [n \in Calls |-> "none"]]
  /\ heard = [p \in Plugins |-> <<>>] /\ missed = {}
  /\ flush = "none" /\ owed = {}
  /\ handler = Plugins
  /\ init = [p \in Plugins |-> "none"]
  /\ task = Idle /\ commands = 0

(***************************************************************************)
(* The senders.                                                            *)
(***************************************************************************)
Message(kind, n) == [kind |-> kind, event |-> n]

\* dispatch_event: an event that finds the queue full is dropped.
DispatchEvent ==
  /\ gate = "free" /\ ~closed
  /\ next \in Events
  /\ next' = next + 1
  /\ \/ /\ Len(queue) < QueueSize
        /\ queue' = Append(queue, Message("event", next))
        /\ accepted' = accepted \cup {next}
     \/ Len(queue) >= QueueSize /\ UNCHANGED <<queue, accepted>>
  /\ UNCHANGED <<gate, closed, flush, owed, turn, host, call, heard, missed,
                 handler, trouble, admin>>

\* flush_events and shutdown_event_dispatcher: they keep the gate while the
\* queue is full.
TakesGate(kind) ==
  /\ gate = "free" /\ ~closed
  /\ gate' = kind
  /\ \/ kind = "flush" /\ flush = "none" /\ owed' = accepted /\ UNCHANGED closed
     \/ kind = "stop" /\ closed' = TRUE /\ UNCHANGED owed
  /\ UNCHANGED <<queue, next, accepted, flush, turn, host, call, heard, missed,
                 handler, trouble, admin>>

ControlEnters ==
  /\ gate # "free"
  /\ Len(queue) < QueueSize
  /\ queue' = Append(queue, Message(gate, 0))
  /\ flush' = IF gate = "flush" THEN "asked" ELSE flush
  /\ gate' = "free"
  /\ UNCHANGED <<closed, next, accepted, owed, turn, host, call, heard, missed,
                 handler, trouble, admin>>

(***************************************************************************)
(* The dispatcher runs one event at a time: trigger takes the registry as  *)
(* it is, and keeps up to Concurrency calls going until the list is done   *)
(* or the one deadline of all of them has passed.                          *)
(***************************************************************************)
TakeMessage ==
  /\ turn.event = 0 /\ queue # <<>>
  /\ queue' = Tail(queue)
  /\ LET m == Head(queue) IN
       /\ turn' = IF m.kind = "event" THEN NewTurn(m.event) ELSE turn
       /\ flush' = IF m.kind = "flush" THEN "acked" ELSE flush
  /\ UNCHANGED <<gate, closed, next, accepted, owed, host, call, heard, missed,
                 handler, trouble, admin>>

SpawnOne ==
  /\ turn.event # 0 /\ turn.pending # <<>>
  /\ Cardinality(Alive(turn.event)) < Concurrency
  /\ call' = [call EXCEPT ![Head(turn.pending)][turn.event] = "spawned"]
  /\ turn' = [turn EXCEPT !.pending = Tail(@)]
  /\ UNCHANGED <<dispatch, host, heard, missed, handler, trouble, admin>>

\* Mutant: the plugins beyond the first batch are not waited for.
TurnEnds_AfterBatch ==
  /\ turn.event # 0
  /\ Alive(turn.event) = {}
  /\ turn' = NoTurn
  /\ UNCHANGED <<dispatch, host, call, heard, missed, handler, trouble, admin>>

TurnEnds ==
  /\ turn.event # 0 /\ turn.pending = <<>>
  /\ Alive(turn.event) = {}
  /\ turn' = NoTurn
  /\ UNCHANGED <<dispatch, host, call, heard, missed, handler, trouble, admin>>

\* The deadline: every plugin of the list with a call in flight is
\* quarantined, whichever call that is, and threads that have not begun are
\* not begun any more.
EventDeadline ==
  /\ Has("slow") /\ turn.event # 0 /\ Alive(turn.event) # {}
  /\ LET n      == turn.event
         unborn == {p \in Plugins : call[p][n] = "spawned"}
         rest   == {turn.pending[i] : i \in DOMAIN turn.pending}
     IN /\ host' = [p \in Plugins |->
                      [host[p] EXCEPT !.quarantined =
                         @ \/ (p \in turn.slots /\ Inflight(p) # {})]]
        /\ call' = [p \in Plugins |->
                      [call[p] EXCEPT ![n] = IF p \in unborn THEN "none" ELSE @]]
        /\ missed' = missed \cup (((unborn \cup rest) \cap There) \X {n})
  /\ turn' = NoTurn
  /\ UNCHANGED <<dispatch, heard, handler, trouble, admin>>

(***************************************************************************)
(* The threads.                                                            *)
(***************************************************************************)
\* Mutant: the number of calls in flight is not asked.
Admits_AnyNumber(p) == ~host[p].quarantined

\* try_execution, with the one concurrent call every plugin has.
Admits(p) == ~host[p].quarantined /\ Inflight(p) = {}

\* The permit is given back when its holder goes, however the call ended.
Released(p, n) == call' = [call EXCEPT ![p][n] = "none"]

\* A plugin that has been taken out of the registry misses nothing.
Kept(p, n) == IF n = 0 \/ p \notin There THEN missed ELSE missed \cup {<<p, n>>}

\* wait_for_execution_until: it waits only for an error that try_execution
\* does not return; any other error is the end of the call.
TryExecution(p, n) ==
  /\ call[p][n] = "spawned"
  /\ \/ /\ Admits(p)
        /\ \E to \in {"permitted"} \cup (IF Has("stall") THEN {"looked"} ELSE {}) :
             call' = [call EXCEPT ![p][n] = to]
        /\ UNCHANGED missed
     \/ /\ ~Admits(p)
        /\ Released(p, n)
        /\ missed' = Kept(p, n)
  /\ UNCHANGED <<dispatch, turn, host, heard, handler, trouble, admin>>

\* The exchange of a thread that was held up compares only the number.
ClaimLate(p, n) ==
  /\ call[p][n] = "looked"
  /\ \/ /\ Inflight(p) = {}
        /\ call' = [call EXCEPT ![p][n] = "permitted"] /\ UNCHANGED missed
     \/ /\ Inflight(p) # {}
        /\ Released(p, n) /\ missed' = Kept(p, n)
  /\ UNCHANGED <<dispatch, turn, host, heard, handler, trouble, admin>>

\* The thread gets the lock of the host and asks once more whether the
\* plugin is enabled.
EnterGuest(p, n) ==
  /\ call[p][n] = "permitted" /\ LockFree(p)
  /\ \/ /\ host[p].enabled /\ host[p].live
        /\ call' = [call EXCEPT ![p][n] = "running"]
        /\ heard' = IF n = 0 THEN heard ELSE [heard EXCEPT ![p] = Append(@, n)]
        /\ UNCHANGED host
     \/ /\ ~(host[p].enabled /\ host[p].live)
        /\ Released(p, n)
        /\ host' = IF n = 0 THEN host ELSE [host EXCEPT ![p].enabled = FALSE]
        /\ UNCHANGED heard
  /\ UNCHANGED <<dispatch, turn, missed, handler, trouble, admin>>

\* A plugin whose event returns an error is switched off.
GuestReturns(p, n) ==
  /\ call[p][n] = "running"
  /\ Released(p, n)
  /\ \/ UNCHANGED host
     \/ Has("fails") /\ n # 0 /\ host' = [host EXCEPT ![p].enabled = FALSE]
  /\ UNCHANGED <<dispatch, turn, heard, missed, handler, trouble, admin>>

\* register_handler out of a call; unregister_handler is the reverse.
GuestRegisters(p, n) ==
  /\ call[p][n] = "running"
  /\ \/ p \notin handler /\ handler' = handler \cup {p}
     \/ p \in handler /\ handler' = handler \ {p}
  /\ UNCHANGED <<dispatch, turn, host, call, heard, missed, trouble, admin>>

\* call_plugin_api: the caller gives up at the deadline, the thread goes on.
\* (Only the first plugin has an API, and it is called once at a time.)
CallApi(p) ==
  /\ Has("api") /\ p = Order[1] /\ p \in There /\ call[p][0] = "none"
  /\ call' = [call EXCEPT ![p][0] = "spawned"]
  /\ UNCHANGED <<dispatch, turn, host, heard, missed, handler, trouble, admin>>

ApiDeadline(p) ==
  /\ call[p][0] # "none"
  /\ host' = [host EXCEPT ![p].quarantined = TRUE]
  /\ UNCHANGED <<dispatch, turn, call, heard, missed, handler, trouble, admin>>

(***************************************************************************)
(* The administrator.                                                      *)
(***************************************************************************)
Command == task = Idle /\ commands < MaxCommands /\ commands' = commands + 1

\* set_enabled: refused while a call has the lock; enabling ends a
\* quarantine.
SetEnabled(p, on) ==
  /\ Command /\ p \in There /\ LockFree(p)
  /\ host' = [host EXCEPT ![p].enabled = on,
                          ![p].quarantined = @ /\ ~on]
  /\ UNCHANGED <<dispatch, turn, call, heard, missed, handler, trouble, slots,
                 init, task>>

\* The clean-up of one host: left out when a call has the lock.
CleanedUp(p) ==
  IF LockFree(p) THEN [host[p] EXCEPT !.live = FALSE]
                 ELSE [host[p] EXCEPT !.quarantined = TRUE]

\* A plugin that nothing is done with; removing others needs "busy".
Quiet(p) == turn.event = 0 /\ \A n \in Calls : call[p][n] = "none"

\* retain: every slot but the one that was found.
Without(i) == SubSeq(slots, 1, i - 1) \o SubSeq(slots, i + 1, Len(slots))

RemoveMarks(p) ==
  /\ Command /\ p \in There
  /\ Quiet(p) \/ Has("busy")
  /\ host' = [host EXCEPT ![p] = IF LockFree(p)
                                   THEN [CleanedUp(p) EXCEPT !.enabled = FALSE]
                                   ELSE CleanedUp(p)]
  /\ \E i \in DOMAIN slots : slots[i] = p /\ slots' = Without(i)
  /\ task' = [does |-> "remove", to |-> {p}]
  /\ UNCHANGED <<dispatch, turn, call, heard, missed, handler, trouble, init>>

\* Mutant: the registry is left as it is.
RemoveForgets_Nothing ==
  /\ task.does = "remove"
  /\ task' = Idle
  /\ UNCHANGED <<dispatch, turn, host, call, heard, missed, handler, slots,
                 trouble, init, commands>>

\* The handlers are looked up under the name the plugin reports, while they
\* were registered under the name of its file.
RemoveForgets ==
  /\ task.does = "remove"
  /\ handler' = IF Has("renamed") THEN handler ELSE handler \ task.to
  /\ task' = Idle
  /\ UNCHANGED <<dispatch, turn, host, call, heard, missed, slots, trouble, init,
                 commands>>

\* reload_plugins: cleanup_all takes the registry, cleans up every plugin,
\* clears every registration, and load_plugins starts over from the files.
ReloadTakes ==
  /\ Command
  /\ (\A p \in Plugins : Quiet(p)) \/ Has("busy")
  /\ slots' = <<>>
  /\ host' = [p \in Plugins |->
                IF p \in There THEN [CleanedUp(p) EXCEPT !.quarantined = TRUE]
                               ELSE host[p]]
  /\ task' = [does |-> "clear", to |-> Plugins]
  /\ UNCHANGED <<dispatch, turn, call, heard, missed, handler, trouble, init>>

ReloadClears ==
  /\ task.does = "clear"
  /\ handler' = {}
  /\ task' = [task EXCEPT !.does = "load"]
  /\ UNCHANGED <<dispatch, turn, host, call, heard, missed, slots, trouble, init,
                 commands>>

\* load_plugin for the next file: the init of the guest runs on a thread.
\* (An old instance that still runs a call keeps to itself; the model waits
\* for it, since both would share one entry of host.)
FirstOf(S) == Order[CHOOSE i \in DOMAIN Order :
                      Order[i] \in S /\ \A j \in 1 .. i - 1 : Order[j] \notin S]

\* call_init of the guest.
InitStarts(p) == init' = [init EXCEPT ![p] = "running"]

LoadBegins ==
  /\ task.does = "load" /\ task.to # {}
  /\ LET p == FirstOf(task.to) IN
       /\ init[p] = "none"
       /\ \A n \in Calls : call[p][n] = "none"
       /\ InitStarts(p)
  /\ UNCHANGED <<dispatch, turn, host, call, heard, missed, handler, slots,
                 trouble, task, commands>>

InitRegisters(p) ==
  /\ init[p] # "none" /\ p \notin handler
  /\ handler' = handler \cup {p}
  /\ UNCHANGED <<dispatch, turn, host, call, heard, missed, trouble, admin>>

\* The init ends well and the plugin is published, or it fails, and only the
\* capabilities are taken back.
LoadEnds(p) ==
  /\ init[p] = "running"
  /\ \/ slots' = Append(slots, p) /\ host' = [host EXCEPT ![p] = Fresh]
     \/ Has("fails") /\ UNCHANGED <<slots, host>>
  /\ init' = [init EXCEPT ![p] = "none"]
  /\ task' = [task EXCEPT !.to = @ \ {p}]
  /\ UNCHANGED <<dispatch, turn, call, heard, missed, handler, trouble, commands>>

\* The loader gives up; the thread goes on, and drops the plugin at its end.
LoadDeadline(p) ==
  /\ Has("slow") /\ init[p] = "running"
  /\ init' = [init EXCEPT ![p] = "late"]
  /\ task' = [task EXCEPT !.to = @ \ {p}]
  /\ UNCHANGED <<dispatch, turn, host, call, heard, missed, handler, slots, trouble,
                 commands>>

LateInitEnds(p) ==
  /\ init[p] = "late"
  /\ init' = [init EXCEPT ![p] = "none"]
  /\ UNCHANGED <<dispatch, turn, host, call, heard, missed, handler, slots,
                 trouble, task, commands>>

LoadDone ==
  /\ task.does = "load" /\ task.to = {}
  /\ task' = Idle
  /\ UNCHANGED <<dispatch, turn, host, call, heard, missed, handler, slots,
                 trouble, init, commands>>

Thread(p, n) ==
  \/ TryExecution(p, n) \/ ClaimLate(p, n)
  \/ EnterGuest(p, n) \/ GuestReturns(p, n) \/ GuestRegisters(p, n)

Next ==
  \/ DispatchEvent \/ TakesGate("flush") \/ TakesGate("stop") \/ ControlEnters
  \/ TakeMessage \/ SpawnOne \/ TurnEnds \/ EventDeadline
  \/ \E p \in Plugins : \E n \in Calls : Thread(p, n)
  \/ \E p \in Plugins : CallApi(p) \/ ApiDeadline(p)
  \/ \E p \in Plugins : \E on \in BOOLEAN : SetEnabled(p, on)
  \/ \E p \in Plugins : RemoveMarks(p) \/ InitRegisters(p) \/ LoadEnds(p)
  \/ \E p \in Plugins : LoadDeadline(p) \/ LateInitEnds(p)
  \/ RemoveForgets \/ ReloadTakes \/ ReloadClears \/ LoadBegins \/ LoadDone

Spec == Init /\ [][Next]_vars

(***************************************************************************)
(* Properties.                                                             *)
(***************************************************************************)
\* A plugin is given the events in the order in which they were told, even
\* after a deadline, when the call of an older event is still running, and
\* next to calls of its API.  Only a thread that is held up right before its
\* claim can be overtaken (finding "stall").
EventsInOrder ==
  Has("stall") \/ \A p \in Plugins :
    \A i, j \in DOMAIN heard[p] : i < j => heard[p][i] < heard[p][j]

\* An acknowledged flush: of every event accepted before it no call is left,
\* no plugin that was there had one kept from it, and a plugin that nobody
\* touched and that did not fail has been given all of them.  It takes calm:
\* an API call makes its plugin miss the event (it does not wait for its
\* permit), and a deadline makes plugins that had not had their turn miss it.
Given(p, n) == \E i \in DOMAIN heard[p] : heard[p][i] = n
FlushMeansHeard ==
  flush = "acked" => \A n \in owed : \A p \in Plugins :
                       /\ call[p][n] = "none" /\ <<p, n>> \notin missed
                       /\ commands = 0 /\ host[p].enabled => Given(p, n)
FlushMeansHeardIfCalm == trouble \cap {"api", "slow", "stall"} = {} => FlushMeansHeard

\* A plugin that is not in the registry, that nobody is loading or removing
\* and that has no call left has no handler either, so requests for its methods are not
\* forwarded to nobody.  It takes calm: an init that fails or is late, a
\* removal during a call and a reported name of its own leave handlers.
NothingLeftBehind ==
  \A p \in handler : p \in There \/ task # Idle \/ init[p] # "none"
                     \/ \E n \in Calls : call[p][n] # "none"
NothingLeftBehindIfCalm ==
  trouble \cap {"slow", "fails", "busy", "renamed"} = {} => NothingLeftBehind
=============================================================================
