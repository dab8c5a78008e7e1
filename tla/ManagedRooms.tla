---------------------------- MODULE ManagedRooms ----------------------------
(* A room the operator defines (managed_rooms_runtime.rs): its definition is *)
(* in a table of the database if it is hosted, in the map managed_rooms, and *)
(* in the live room's actor.  managed_room_ops, the gate, is held by one     *)
(* operation at a time; what players do to the live room does not ask for    *)
(* it.  One room id.  `trouble' is the set of things that may go wrong:      *)
(*   "overlap"  players act, or a request is prepared, while one is handled  *)
(*   "refused"  the actor refuses or loses a command                         *)
(*   "unsaved"  the database fails where the code only logs or reports it    *)
(*   "cycle"    the host is passed on at the end of a round                  *)
(*   "console"  the console, the socket or a plugin sets the live room's host  *)
(*              or chart, knowing nothing of managed rooms                   *)
EXTENDS Naturals

CONSTANTS Users, NoOne, Charts, MaxMade, MaxTells, Troubles

VARIABLES trouble,
          def,       \* managed_rooms: None or [kind, host, chart, pool]
          live,      \* rooms and its actor: None or [gen, host, chart, chosen, people]
          row,       \* mp_managed_rooms where not deleted: None or like def
          op,        \* who holds the gate, how far it is, new and old definition
          patch,     \* a definition an HTTP handler has read to change it
          tells,     \* tasks that wait to persist a change of host
          advance,   \* a task that waits to choose the next chart of the pool
          timers,    \* [why, gen, due] of a reserved room
          made, told \* rooms made so far; tasks of players so far

vars == <<trouble, def, live, row, op, patch, tells, advance, timers, made, told>>

None == [kind |-> "none"]
Idle == [what |-> "idle", at |-> "", new |-> None, old |-> None]

Init ==
    /\ trouble \in Troubles
    /\ def = None /\ live = None /\ row = None /\ op = Idle /\ patch = None
    /\ tells = {} /\ advance = FALSE /\ timers = {} /\ made = 0 /\ told = 0

Hosted == def.kind = "hosted"
\* pool: the chart is chosen from a pool (POOL_RANDOM), not by the host.
Definition(k, h, c, p) == [kind |-> k, host |-> h, chart |-> c, pool |-> p]
Settings(d) == Definition("hosted", d.host, d.chart, d.pool)

\* upsert_hosted_room_definition: the row comes back if it had been deleted.
Upsert(d) == row' = Settings(d)

\* create_empty_room_with_capacity, and its actor; chosen: by the host.
NewRoom(k, h, c) == [kind |-> k, gen |-> made + 1, host |-> h, chart |-> c,
                     chosen |-> FALSE, people |-> FALSE]

Go(what, at, new, old) == op' = [what |-> what, at |-> at, new |-> new, old |-> old]
Free == op = Idle
At(what, at) == op.what = what /\ op.at = at

\* Players, timers and handlers do not wait for the gate; in the calm they
\* happen to come one after the other.
Calm == "overlap" \in trouble \/ (Free /\ tells = {} /\ ~advance /\ patch = None)
-----------------------------------------------------------------------------
\* create: nothing of that name; the room is there as soon as it is installed.
CreateBegin(kind, h, c, pool) ==
    /\ kind = "reserved" => ~pool
    /\ Free /\ Calm /\ made < MaxMade
    /\ def = None /\ live = None
    /\ made' = made + 1
    /\ live' = NewRoom(kind, h, c)
    /\ Go("create", "def", Definition(kind, h, c, pool), None)
    /\ UNCHANGED <<trouble, def, row, patch, tells, advance, timers, told>>

\* install_definition: the actor takes every command, or the room is removed.
Install ==
    /\ At("create", "def")
    /\ \/ /\ def' = op.new
          /\ IF op.new.kind = "hosted"
             THEN Go("create", "row", op.new, None) /\ UNCHANGED timers
             ELSE op' = Idle /\ timers' = timers \cup {[why |-> "expiry", gen |-> made, due |-> FALSE]}
          /\ UNCHANGED live
       \/ /\ live' = None /\ op' = Idle
          /\ UNCHANGED <<def, timers>>
    /\ UNCHANGED <<trouble, row, patch, tells, advance, made, told>>

CreateRow ==
    /\ At("create", "row") /\ op' = Idle
    /\ \/ Upsert(def) /\ UNCHANGED <<def, live>>
       \/ def' = None /\ live' = None /\ UNCHANGED row
    /\ UNCHANGED <<trouble, patch, tells, advance, timers, made, told>>
-----------------------------------------------------------------------------
\* patch_hosted_room: the definition is read before the gate is asked for.
PatchRead ==
    /\ Calm /\ Hosted /\ patch = None
    /\ patch' = def
    /\ UNCHANGED <<trouble, def, live, row, op, tells, advance, timers, made, told>>

\* update_hosted: of a hosted room in which a chart is being selected; the
\* request may change host, chart and mode at once.
UpdateBegin(h, c, pool) ==
    /\ Free /\ patch # None
    /\ patch' = None
    /\ IF Hosted /\ live # None
       THEN Go("update", "host", Definition("hosted", h, c, pool), def)
       ELSE UNCHANGED op
    /\ UNCHANGED <<trouble, def, live, row, tells, advance, timers, made, told>>

\* SetHost and SetChart: what is set is not the host's choice any more.
HostIs(h) == [live EXCEPT !.host = h]
ChartIs(c) == [live EXCEPT !.chart = c, !.chosen = FALSE]

UpdateSet(field, next, room) ==
    /\ At("update", field)
    /\ \/ /\ live' = IF op.new[field] = op.old[field] THEN live ELSE room
          /\ Go("update", next, op.new, op.old)
       \/ /\ "refused" \in trouble /\ op.new[field] # op.old[field]
          /\ op' = Idle /\ UNCHANGED live
    /\ UNCHANGED <<trouble, def, row, patch, tells, advance, timers, made, told>>

UpdateHost == UpdateSet("host", "chart", HostIs(op.new.host))
UpdateChart == UpdateSet("chart", "row", ChartIs(op.new.chart))

(* Mutant: an update that was not stored is not undone. *)
UpdateRow_NoUndo ==
    /\ At("update", "row")
    /\ \/ Upsert(op.new) /\ Go("update", "def", op.new, op.old)
       \/ op' = Idle /\ UNCHANGED row
    /\ UNCHANGED <<trouble, def, live, patch, tells, advance, timers, made, told>>

UpdateRow ==
    /\ At("update", "row")
    /\ \/ Upsert(op.new) /\ Go("update", "def", op.new, op.old)
       \/ Go("update", "undo", op.new, op.old) /\ UNCHANGED row
    /\ UNCHANGED <<trouble, def, live, patch, tells, advance, timers, made, told>>

UpdateDef ==
    /\ At("update", "def")
    /\ def' = op.new /\ op' = Idle
    /\ UNCHANGED <<trouble, live, row, patch, tells, advance, timers, made, told>>

\* What was changed is set back, if the actor takes it.
UpdateUndo ==
    /\ At("update", "undo") /\ op' = Idle
    /\ LET changed(field) == op.new[field] # op.old[field] IN
         \/ live' = [live EXCEPT !.host = IF changed("host") THEN op.old.host ELSE @,
                                 !.chart = IF changed("chart") THEN op.old.chart ELSE @,
                                 !.chosen = ~changed("chart") /\ @]
         \/ "refused" \in trouble /\ UNCHANGED live
    /\ UNCHANGED <<trouble, def, row, patch, tells, advance, timers, made, told>>
-----------------------------------------------------------------------------
\* RemoveUser of the host: the next one, or the system, and a task to tell.
HostLeaves(h) ==
    /\ Calm /\ told < MaxTells
    /\ Hosted /\ live # None /\ live.host # NoOne /\ h # live.host
    /\ live' = [live EXCEPT !.host = h]
    /\ tells' = tells \cup {h} /\ told' = told + 1
    /\ UNCHANGED <<trouble, def, row, op, patch, advance, timers, made>>

\* AddUser: without a host the first to come is; join_room has him persisted,
\* and again the host who comes back.
HostJoins(h) ==
    /\ Calm /\ told < MaxTells
    /\ Hosted /\ live # None /\ live.host \in {NoOne, h}
    /\ live' = HostIs(h)
    /\ tells' = tells \cup {h} /\ told' = told + 1
    /\ UNCHANGED <<trouble, def, row, op, patch, advance, timers, made>>

\* SetChart of a host: refused in a reserved room, and if there is a pool.
SelectChart(c) ==
    /\ Calm /\ told < MaxTells
    /\ live # None /\ live.host # NoOne
    /\ def # None => Hosted /\ ~def.pool
    /\ live' = [live EXCEPT !.chart = c, !.chosen = TRUE] /\ told' = told + 1
    /\ UNCHANGED <<trouble, def, row, op, patch, tells, advance, timers, made>>

ConsoleSets(h, c) ==
    /\ "console" \in trouble /\ Calm /\ live # None
    /\ live' \in {HostIs(h), ChartIs(c)}
    /\ UNCHANGED <<trouble, def, row, op, patch, tells, advance, timers, made, told>>

\* check_all_ready with cycle: nobody is told.
Cycle(h) ==
    /\ "cycle" \in trouble /\ Calm
    /\ live # None /\ live.host # NoOne /\ h \notin {live.host, NoOne}
    /\ live' = [live EXCEPT !.host = h]
    /\ UNCHANGED <<trouble, def, row, op, patch, tells, advance, timers, made, told>>

\* persist_host_change, when the gate is free: the definition as it is by then.
PersistHost(h) ==
    /\ Free /\ h \in tells
    /\ tells' = tells \ {h}
    /\ IF Hosted
       THEN def' = [def EXCEPT !.host = h] /\ Go("save", "row", def', None)
       ELSE UNCHANGED <<def, op>>
    /\ UNCHANGED <<trouble, live, row, patch, advance, timers, made, told>>

\* The end of a round: the next chart of the pool, or the room has served.
RoundEnds ==
    /\ Calm /\ told < MaxTells /\ live # None /\ def # None
    /\ told' = told + 1
    /\ IF Hosted THEN advance' = TRUE /\ UNCHANGED timers
       ELSE timers' = timers \cup {[why |-> "postgame", gen |-> live.gen, due |-> FALSE]} /\ UNCHANGED advance
    /\ UNCHANGED <<trouble, def, live, row, op, patch, tells, made>>

\* advance_pool_after_round: if there is a pool by then, and the actor takes it.
Advance(c) ==
    /\ Free /\ advance /\ advance' = FALSE
    /\ \/ /\ Hosted /\ def.pool /\ live # None
          /\ live' = ChartIs(c) /\ def' = [def EXCEPT !.chart = c]
          /\ Go("save", "row", def', None)
       \/ UNCHANGED <<live, def, op>>
    /\ UNCHANGED <<trouble, row, patch, tells, timers, made, told>>

SaveRow ==
    /\ At("save", "row") /\ op' = Idle
    /\ \/ Upsert(op.new)
       \/ "unsaved" \in trouble /\ UNCHANGED row
    /\ UNCHANGED <<trouble, def, live, patch, tells, advance, timers, made, told>>
-----------------------------------------------------------------------------
Disband ==
    /\ Free /\ live # None
    /\ live' = None /\ def' = None
    /\ IF Hosted THEN Go("disband", "row", None, def) ELSE op' = Idle
    /\ UNCHANGED <<trouble, row, patch, tells, advance, made, told>>

Disbands == Calm /\ Disband /\ UNCHANGED timers

DisbandRow ==
    /\ At("disband", "row") /\ op' = Idle
    /\ \/ row' = None
       \/ "unsaved" \in trouble /\ UNCHANGED row
    /\ UNCHANGED <<trouble, def, live, patch, tells, advance, timers, made, told>>

\* Players come into a reserved room, which goes with the last of them.
Join ==
    /\ live # None /\ def.kind = "reserved" /\ ~live.people
    /\ live' = [live EXCEPT !.people = TRUE]
    /\ UNCHANGED <<trouble, def, row, op, patch, tells, advance, timers, made, told>>

LastLeaves ==
    /\ live # None /\ def.kind = "reserved" /\ live.people
    /\ live' = None /\ def' = None
    /\ UNCHANGED <<trouble, row, op, patch, tells, advance, timers, made, told>>

\* A timer looks whether the room is empty, or reserved, and then asks for the
\* gate.  It knows the room by its name.
TimerLooks(t) ==
    /\ t \in timers /\ ~t.due
    /\ timers' = (timers \ {t}) \cup
         (IF CASE t.why = "expiry" -> live # None /\ ~live.people
               [] t.why = "postgame" -> def.kind = "reserved"
          THEN {[t EXCEPT !.due = TRUE]} ELSE {})
    /\ UNCHANGED <<trouble, def, live, row, op, patch, tells, advance, made, told>>

TimerDisbands(t) ==
    /\ t \in timers /\ t.due /\ Free
    /\ timers' = timers \ {t}
    /\ IF live # None THEN Disband
       ELSE UNCHANGED <<trouble, def, live, row, op, patch, tells, advance, made, told>>

\* The process starts again: restore_hosted_rooms.
Restart ==
    /\ made > 0 /\ made < MaxMade
    /\ made' = made + 1
    /\ def' = row
    /\ live' = IF row = None THEN None
               ELSE NewRoom("hosted", row.host, row.chart)
    /\ op' = Idle /\ patch' = None /\ tells' = {} /\ advance' = FALSE /\ timers' = {}
    /\ UNCHANGED <<trouble, row, told>>

Next ==
    \/ \E kind \in {"hosted", "reserved"}, h \in Users \cup {NoOne}, c \in Charts, pool \in BOOLEAN :
          CreateBegin(kind, h, c, pool)
    \/ Install \/ CreateRow \/ PatchRead
    \/ \E h \in Users \cup {NoOne}, c \in Charts, pool \in BOOLEAN : UpdateBegin(h, c, pool)
    \/ UpdateHost \/ UpdateChart \/ UpdateRow \/ UpdateDef \/ UpdateUndo
    \/ \E h \in Users \cup {NoOne} : HostLeaves(h) \/ Cycle(h) \/ PersistHost(h)
    \/ \E h \in Users : HostJoins(h)
    \/ RoundEnds \/ SaveRow
    \/ \E c \in Charts : SelectChart(c) \/ Advance(c)
    \/ \E h \in Users \cup {NoOne}, c \in Charts : ConsoleSets(h, c)
    \/ Disbands \/ DisbandRow \/ Join \/ LastLeaves
    \/ \E t \in timers : TimerLooks(t) \/ TimerDisbands(t)
    \/ Restart

Spec == Init /\ [][Next]_vars
-----------------------------------------------------------------------------
(* While nothing is under way, the map, the table and the live room say the  *)
(* same, but for a chart that the host has chosen, which is the live room's  *)
(* alone: also after an update that could not be stored, and after a restart *)
(* at any point of an operation.                                             *)
Agree ==
    (Free /\ tells = {} /\ ~advance) =>
        IF Hosted
        THEN /\ row = Settings(def)
             /\ live # None /\ live.host = def.host
             /\ ~live.chosen => live.chart = def.chart
        ELSE row = None

AgreeIfCalm == trouble = {} => Agree

(* The live room has the chart of the table: it has not, once the host has   *)
(* chosen another, and a restart takes it back.                              *)
ChartIsKept == Free /\ Hosted /\ tells = {} /\ ~advance => live.chart = row.chart

(* The timer of a reserved room that expires takes an empty room, its own.   *)
ExpiryTakesItsOwn ==
    [][\A t \in timers : (t.why = "expiry" /\ t.due /\ t \notin timers' /\ live # None /\ live' = None /\ made' = made)
            => live.gen = t.gen /\ ~live.people]_vars
=============================================================================
