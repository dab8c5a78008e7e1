-------------------------------- MODULE Room --------------------------------
(***************************************************************************)
(* One room of the server: the room actor (room_actor/handler.rs), which   *)
(* owns the round, the ready set and the host and runs one command at a    *)
(* time; its lifecycle maintenance (room_actor/mailbox.rs), which starts a *)
(* round when the ready countdown ends and ends it when the playing        *)
(* deadline passes; the connection registry of room.rs, which the actor    *)
(* and the sessions both write; and the steps of a join (session_room.rs), *)
(* whose actor half and registry half are two separate operations.         *)
(*                                                                         *)
(* A command is one action, except where it waits: opening a round waits   *)
(* for the round store, and ending one by timeout reads the registry       *)
(* twice.  Between those halves the actor is busy and only the sessions    *)
(* move.  A command refused by its deadline or by a stale origin changes   *)
(* nothing and is not an action; the one refusal that does change the      *)
(* room, a late result, is SubmitLate.                                     *)
(*                                                                         *)
(* The room is one that is not managed (no entry in managed_rooms).        *)
(***************************************************************************)
EXTENDS Integers, Sequences, FiniteSets, Functions

CONSTANTS
    Users,        \* accounts that may enter the room
    Creator,      \* the account that created it
    NoUser,       \* host_id = None
    Scores,       \* what a play record can say
    Modes,        \* the control flags the room may be given
    MaxUsers,     \* control.max_users
    MaxRounds,    \* bound: round ids drawn
    MaxOpenFaults,\* bound: round-store writes that do not answer Ok
    MaxRemovals,  \* bound: administrative removals of a player
    MaxLostJoins  \* bound: joins cut off between their two halves

ASSUME UserAssumption == Creator \in Users /\ NoUser \notin Users
ASSUME ModeAssumption ==
    Modes \subseteq [cycle : BOOLEAN, tournament : BOOLEAN, persistent : BOOLEAN]
ASSUME BoundAssumption ==
    /\ MaxUsers \in Nat \ {0}
    /\ MaxRounds \in Nat /\ MaxOpenFaults \in Nat
    /\ MaxRemovals \in Nat /\ MaxLostJoins \in Nat

VARIABLES
    room,       \* the actor's RoomState (see RoomRecord)
    mode,       \* control.cycle, control.tournament, control.persistent_empty
    members,    \* state.members.users, as the number of entries each user has
    degraded,   \* state.degraded
    busy,       \* the await the actor is suspended in
    registry,   \* Room.users, in order
    session,    \* what each user's session is waiting for (see SessionStates)
    undoing,    \* users whose cancelled join a spawned task is undoing
    listed,     \* the room is in the server's rooms map
    stopped,    \* the mailbox task has ended
    drawn,      \* round ids drawn so far
    opened,     \* rounds the round store holds
    settled,    \* the round of each RoundCompleted handed to persistence
    event,      \* the last of them
    openFaults, removals, lostJoins,
    begun,      \* history: rounds that reached Playing
    accepted,   \* history: players of the last round whose result was taken
    raced       \* history: users registered while a timeout was ending a round

roomVars == <<room, mode, members, degraded, busy>>
sideVars == <<registry, session, undoing, listed, stopped>>
storeVars == <<drawn, opened, settled, event>>
histVars == <<openFaults, removals, lostJoins, begun, accepted, raced>>
vars == <<roomVars, sideVars, storeVars, histVars>>

NoRound == 0
Rounds == 1 .. MaxRounds
Present == {registry[i] : i \in 1 .. Len(registry)}
In(reg) == {reg[i] : i \in 1 .. Len(reg)}
Without(reg, u) == SelectSeq(reg, LAMBDA v : v # u)

Results == UNION {[d -> Scores] : d \in SUBSET Users}

RoomRecord ==
    [phase : {"select", "ready", "playing"},
     started : SUBSET Users, admin : BOOLEAN,
     results : Results,
     aborted : SUBSET Users,
     chart : BOOLEAN, host : Users \cup {NoUser}, system : BOOLEAN,
     pending : BOOLEAN, countdown : BOOLEAN, deadline : BOOLEAN,
     round : 0 .. MaxRounds]

\* "none": nothing, it may send a command; "starting": its request_start passed
\* the host check and is queued; "left": it was kicked with a command queued;
\* the others are the steps of join_room.
SessionStates == {"none", "starting", "left", "late", "checked", "added", "refused"}

Idle == [act |-> "idle", late |-> {}, countdown |-> FALSE, pending |-> FALSE]
Opening(by, late, r) ==
    [act |-> by, late |-> late, countdown |-> r.countdown, pending |-> r.pending]
Ending == [Idle EXCEPT !.act = "ending"]

NoEvent == [results |-> <<>>, aborted |-> {}]

Init ==
    /\ room = [phase |-> "select", started |-> {}, admin |-> FALSE,
               results |-> <<>>, aborted |-> {}, chart |-> FALSE,
               host |-> Creator, system |-> FALSE, pending |-> FALSE,
               countdown |-> FALSE, deadline |-> FALSE, round |-> NoRound]
    /\ mode \in Modes
    /\ members = [u \in Users |-> 0]
    /\ degraded = FALSE
    /\ busy = Idle
    /\ registry = <<Creator>>
    /\ session = [u \in Users |-> "none"] /\ undoing = {}
    /\ listed = TRUE /\ stopped = FALSE
    /\ drawn = 0 /\ opened = {} /\ settled = <<>>
    /\ event = NoEvent
    /\ openFaults = 0 /\ removals = 0 /\ lostJoins = 0
    /\ begun = {} /\ accepted = {} /\ raced = {}

-----------------------------------------------------------------------------
\* What the handlers share.

AllReady(r, reg) == r.admin \/ In(reg) \subseteq r.started
Finished(r) == DOMAIN r.results \cup r.aborted
AllFinished(r, reg) == In(reg) \subseteq Finished(r)

\* round.round_id.unwrap_or_else(Uuid::new_v4)
RoundOf(r) == IF r.round = NoRound THEN drawn + 1 ELSE r.round
MayDraw(r) == r.round # NoRound \/ drawn < MaxRounds

\* save_round_history: the round's results go to the persistence worker.
Settle(r) ==
    /\ settled' = Append(settled, r.round)
    /\ event' = [results |-> r.results, aborted |-> r.aborted]

(* Mutant: a finished round leaves its id behind. *)
Cleared_KeepsRound(r) ==
    [r EXCEPT !.phase = "select", !.countdown = FALSE,
              !.deadline = FALSE, !.results = <<>>, !.aborted = {},
              !.started = {}, !.admin = FALSE]

\* The fields a finished round leaves behind in the actor.
Cleared(r) ==
    [r EXCEPT !.phase = "select", !.round = NoRound, !.countdown = FALSE,
              !.deadline = FALSE, !.results = <<>>, !.aborted = {},
              !.started = {}, !.admin = FALSE]

\* Cycle mode: the next registered player after the host, else the first.
NextHost(h, reg) ==
    IF \E i \in 1 .. Len(reg) : reg[i] = h
    THEN LET i == CHOOSE i \in 1 .. Len(reg) : reg[i] = h
         IN  reg[(i % Len(reg)) + 1]
    ELSE reg[1]

Rotated(r, reg) ==
    IF mode.cycle /\ ~r.system /\ ~mode.tournament /\ reg # <<>>
    THEN [r EXCEPT !.host = NextHost(r.host, reg)]
    ELSE r

\* check_all_ready on the room r the calling handler leaves, with the
\* registry reg it leaves: start opening a round, settle the current one, or
\* nothing.
CheckAllReady(r, reg) ==
    IF r.phase = "ready" /\ AllReady(r, reg) THEN
        /\ MayDraw(r)
        /\ room' = [r EXCEPT !.countdown = FALSE,
                             !.pending = @ /\ ~r.admin,
                             !.round = RoundOf(r)]
        /\ busy' = Opening("opening", {}, r)
        /\ drawn' = IF r.round = NoRound THEN drawn + 1 ELSE drawn
        /\ UNCHANGED <<settled, event>>
    ELSE IF r.phase = "playing" /\ AllFinished(r, reg) THEN
        /\ Settle(r)
        /\ room' = Rotated(Cleared(r), reg)
        /\ UNCHANGED <<busy, drawn>>
    ELSE
        /\ room' = r
        /\ UNCHANGED <<busy, settled, event, drawn>>

\* The actor runs a command: the mailbox is found through the rooms map.
Command == listed /\ ~stopped /\ busy.act = "idle"

\* What a command that touches only the actor's record leaves alone.
OnlyActor == UNCHANGED <<mode, members, degraded, registry, undoing, listed,
                         stopped, opened>>
OnlyRoom == OnlyActor /\ UNCHANGED <<session, histVars>>

\* A player's own command: its session found user.room = this room when it
\* queued it, and the actor does not look again.
PlayerCommand(u) ==
    /\ Command
    /\ (u \in Present /\ session[u] = "none") \/ session[u] = "left"
    /\ session' = [session EXCEPT ![u] = "none"]

-----------------------------------------------------------------------------
\* Choosing the chart and starting.

SetChart ==
    /\ Command /\ room.phase = "select"
    /\ room' = [room EXCEPT !.chart = TRUE]
    /\ UNCHANGED <<busy, drawn, settled, event>> /\ OnlyRoom

CanStart == room.phase = "select" /\ ~room.pending /\ room.chart

\* request_start: the session checks on the snapshot that it is the host's ...
RequestStart(u) ==
    /\ listed /\ u \in Present /\ session[u] = "none"
    /\ room.host = u /\ CanStart
    /\ session' = [session EXCEPT ![u] = "starting"]
    /\ UNCHANGED <<roomVars, registry, undoing, listed, stopped, storeVars, histVars>>

\* ... and the actor starts the game for whoever asked.
HostStart(u) ==
    /\ Command /\ session[u] = "starting"
    /\ session' = [session EXCEPT ![u] = "none"]
    /\ OnlyActor /\ UNCHANGED histVars
    /\ IF CanStart
       THEN CheckAllReady([room EXCEPT !.phase = "ready", !.started = {u},
                                       !.countdown = TRUE], registry)
       ELSE UNCHANGED <<room, busy, drawn, settled, event>>

\* Administrative start: nobody is asked to be ready.
StartRoom ==
    /\ Command /\ CanStart
    /\ CheckAllReady([room EXCEPT !.phase = "ready", !.started = {},
                                  !.admin = TRUE, !.pending = TRUE,
                                  !.countdown = TRUE], registry)
    /\ OnlyRoom

\* Administrative ready phase: the host counts as ready, nothing is checked.
EnterReadyPhase ==
    /\ Command /\ CanStart
    /\ room' = [room EXCEPT !.phase = "ready",
                            !.started = {room.host} \ {NoUser},
                            !.countdown = TRUE]
    /\ UNCHANGED <<busy, drawn, settled, event>> /\ OnlyRoom

(* Mutant: an administrative cancel does not look at the phase. *)
CancelStart_AnyPhase ==
    /\ Command /\ room.phase # "select"
    /\ room' = [Cleared(room) EXCEPT !.pending = FALSE]
    /\ UNCHANGED <<busy, drawn, settled, event>> /\ OnlyRoom

CancelStart ==
    /\ Command /\ room.phase = "ready"
    /\ room' = [Cleared(room) EXCEPT !.pending = FALSE]
    /\ UNCHANGED <<busy, drawn, settled, event>> /\ OnlyRoom

\* By the player himself, or by an operator, who may name anybody.
SetReady(u) ==
    /\ PlayerCommand(u) \/ (Command /\ UNCHANGED session)
    /\ room.phase = "ready" /\ u \notin room.started
    /\ CheckAllReady([room EXCEPT !.started = @ \cup {u}], registry)
    /\ OnlyActor /\ UNCHANGED histVars

\* The host's CancelReady calls the game off; anybody else's is a withdrawal.
CancelReady(u) ==
    /\ PlayerCommand(u) /\ room.phase = "ready" /\ u \in room.started
    /\ room' = IF room.host = u
               THEN [Cleared(room) EXCEPT !.pending = FALSE]
               ELSE [room EXCEPT !.started = @ \ {u}]
    /\ UNCHANGED <<busy, drawn, settled, event>> /\ OnlyActor /\ UNCHANGED histVars

-----------------------------------------------------------------------------
\* The round store's answer to open_round.

(* Mutant: only a start by consent sets the playing deadline. *)
OpenSucceeds_ForcedHasNoDeadline ==
    /\ busy.act \in {"opening", "forcing"} /\ ~stopped
    /\ opened' = opened \cup {room.round}
    /\ begun' = begun \cup {room.round}
    /\ room' = [room EXCEPT !.phase = "playing", !.started = {},
                            !.admin = FALSE, !.results = <<>>,
                            !.aborted = busy.late,
                            !.deadline = busy.act = "opening"]
    /\ busy' = Idle
    /\ event' = NoEvent /\ accepted' = {}
    /\ UNCHANGED <<mode, members, degraded, sideVars, drawn, settled,
                   openFaults, removals, lostJoins, raced>>

OpenSucceeds ==
    /\ busy.act \in {"opening", "forcing"} /\ ~stopped
    /\ opened' = opened \cup {room.round}
    /\ begun' = begun \cup {room.round}
    /\ room' = [room EXCEPT !.phase = "playing", !.started = {},
                            !.admin = FALSE, !.results = <<>>,
                            !.aborted = busy.late, !.deadline = TRUE]
    /\ busy' = Idle
    /\ event' = NoEvent /\ accepted' = {}
    /\ UNCHANGED <<mode, members, degraded, sideVars, drawn, settled,
                   openFaults, removals, lostJoins, raced>>

(* Mutant: the game starts although the store did not answer Ok. *)
OpenFails_PlaysAnyway(written) ==
    /\ busy.act \in {"opening", "forcing"} /\ ~stopped
    /\ openFaults < MaxOpenFaults
    /\ openFaults' = openFaults + 1
    /\ opened' = IF written THEN opened \cup {room.round} ELSE opened
    /\ room' = [room EXCEPT !.phase = "playing", !.started = {}]
    /\ busy' = Idle
    /\ UNCHANGED <<mode, members, degraded, sideVars, drawn, settled, event,
                   removals, lostJoins, begun, accepted, raced>>

\* An error, or a timeout, which does not say whether the row was written.
\* check_all_ready restores what it took, force_start_playing does not.
OpenFails(written) ==
    /\ busy.act \in {"opening", "forcing"} /\ ~stopped
    /\ openFaults < MaxOpenFaults
    /\ openFaults' = openFaults + 1
    /\ opened' = IF written THEN opened \cup {room.round} ELSE opened
    /\ room' = [room EXCEPT !.started = {}, !.admin = FALSE,
                            !.round = NoRound,
                            !.pending = IF busy.act = "opening"
                                        THEN busy.pending ELSE @,
                            !.countdown = busy.act = "opening" /\ busy.countdown]
    /\ busy' = Idle
    /\ UNCHANGED <<mode, members, degraded, sideVars, drawn, settled, event,
                   removals, lostJoins, begun, accepted, raced>>

-----------------------------------------------------------------------------
\* Playing.

(* Mutant: a result is confirmed to the player before it is stored. *)
SubmitResult_Unrecorded(u, s) ==
    /\ PlayerCommand(u) /\ room.phase = "playing" /\ u \notin Finished(room)
    /\ accepted' = accepted \cup {u}
    /\ CheckAllReady(room, registry)
    /\ OnlyActor /\ UNCHANGED <<openFaults, removals, lostJoins, begun, raced>>

SubmitResult(u, s) ==
    /\ PlayerCommand(u) /\ room.phase = "playing" /\ u \notin room.aborted
    /\ LET r == [room EXCEPT !.results =
                   [v \in DOMAIN room.results \cup {u} |->
                       IF v = u THEN s ELSE room.results[v]]]
       IN  \/ \* results.insert answered None
              /\ u \notin DOMAIN room.results
              /\ accepted' = accepted \cup {u}
              /\ CheckAllReady(r, registry)
           \/ \* "already uploaded": refused, the record is replaced all the same
              /\ u \in DOMAIN room.results
              /\ room' = r
              /\ UNCHANGED <<accepted, busy, drawn, settled, event>>
    /\ OnlyActor /\ UNCHANGED <<openFaults, removals, lostJoins, begun, raced>>

\* A result whose deadline has passed is refused and the player is aborted.
SubmitLate(u) ==
    /\ PlayerCommand(u) /\ room.phase = "playing" /\ u \notin Finished(room)
    /\ CheckAllReady([room EXCEPT !.aborted = @ \cup {u}], registry)
    /\ OnlyActor /\ UNCHANGED histVars

(* Mutant: giving up after the result was taken. *)
AbortRound_AfterResult(u) ==
    /\ PlayerCommand(u) /\ room.phase = "playing" /\ u \notin room.aborted
    /\ CheckAllReady([room EXCEPT !.aborted = @ \cup {u}], registry)
    /\ OnlyActor /\ UNCHANGED histVars

AbortRound(u) ==
    /\ PlayerCommand(u) /\ room.phase = "playing" /\ u \notin Finished(room)
    /\ CheckAllReady([room EXCEPT !.aborted = @ \cup {u}], registry)
    /\ OnlyActor /\ UNCHANGED histVars

-----------------------------------------------------------------------------
\* Lifecycle maintenance: once a second, and after a command when it is due.

\* The ready countdown ends: whoever is not ready is aborted from the start.
ForceStart ==
    /\ Command /\ room.phase = "ready" /\ room.countdown /\ ~mode.tournament
    /\ MayDraw(room)
    /\ busy' = Opening("forcing", Present \ room.started, room)
    /\ room' = [room EXCEPT !.countdown = FALSE,
                            !.pending = @ /\ ~room.admin,
                            !.round = RoundOf(room)]
    /\ drawn' = IF room.round = NoRound THEN drawn + 1 ELSE drawn
    /\ UNCHANGED <<settled, event>> /\ OnlyRoom

\* The playing deadline passes: everyone unfinished is aborted ...
ForceEnd ==
    /\ Command /\ room.phase = "playing" /\ room.deadline
    /\ room' = [room EXCEPT !.deadline = FALSE,
                            !.aborted = @ \cup (Present \ DOMAIN room.results)]
    /\ busy' = Ending
    /\ UNCHANGED <<drawn, settled, event>> /\ OnlyRoom

\* ... and, if the registry read again agrees, the round is settled.
ForceSettle ==
    /\ busy.act = "ending" /\ ~stopped
    /\ busy' = Idle
    /\ IF AllFinished(room, registry)
       THEN /\ Settle(room)
            /\ room' = Cleared(room)
       ELSE UNCHANGED <<settled, event, room>>
    /\ UNCHANGED drawn /\ OnlyRoom

\* The actor of a room that is no longer in the rooms map ends.
StopStale ==
    /\ ~listed /\ ~stopped /\ busy.act = "idle"
    /\ stopped' = TRUE
    /\ UNCHANGED <<roomVars, registry, session, undoing, listed, storeVars, histVars>>

-----------------------------------------------------------------------------
\* Leaving.

\* Where the host goes when u leaves the registry reg behind.
Heir(r, u, reg) ==
    IF r.host # u THEN r
    ELSE IF reg # <<>> THEN [r EXCEPT !.host = reg[1], !.system = FALSE]
    ELSE IF mode.persistent THEN [r EXCEPT !.host = NoUser, !.system = TRUE]
    ELSE r

(* Mutant: a player who leaves takes his result with him. *)
Departure_TakesResult(u) ==
    LET reg == Without(registry, u)
        drop == reg = <<>> /\ ~mode.persistent
        r == [room EXCEPT !.results = Restrict(@, DOMAIN @ \ {u})]
    IN  /\ registry' = reg
        /\ listed' = ~drop
        /\ CheckAllReady(IF drop \/ mode.tournament THEN r
                         ELSE Heir(r, u, reg), reg)

\* RemoveUser once the player is found in the registry: he leaves it, the
\* room is dropped if nobody is left, the host passes on, and the rest may
\* now be all ready or all finished.
Departure(u) ==
    LET reg == Without(registry, u)
        drop == reg = <<>> /\ ~mode.persistent
    IN  /\ registry' = reg
        /\ listed' = ~drop
        /\ CheckAllReady(IF drop \/ mode.tournament THEN room
                         ELSE Heir(room, u, reg), reg)

\* RemoveUser of a registered player: a LeaveRoom command, the end of a
\* disconnected player's grace, or a move to another room.
\* Of a player who is no longer registered, it removes the member alone.
Removal(u) ==
    /\ Command
    /\ members' = [members EXCEPT ![u] = 0]
    /\ IF u \in Present
       THEN Departure(u)
       ELSE UNCHANGED <<room, busy, registry, listed, drawn, settled, event>>

RemoveUser(u) ==
    /\ PlayerCommand(u) /\ Removal(u)
    /\ UNCHANGED <<mode, degraded, undoing, stopped, opened, histVars>>

\* KickUser: no member entry is removed and nothing is checked afterwards.
KickUser(u) ==
    /\ Command /\ u \in Present /\ removals < MaxRemovals
    /\ removals' = removals + 1
    /\ \/ /\ session[u] = "none"
          /\ session' \in {session, [session EXCEPT ![u] = "left"]}
       \/ session[u] = "starting" /\ UNCHANGED session
    /\ LET reg == Without(registry, u)
           drop == reg = <<>> /\ ~mode.persistent
       IN  /\ registry' = reg
           /\ listed' = ~drop
           /\ stopped' = drop
           /\ room' = IF drop THEN room ELSE Heir(room, u, reg)
    /\ UNCHANGED <<mode, members, degraded, busy, undoing, storeVars,
                   openFaults, lostJoins, begun, accepted, raced>>

\* A server-wide kick, or a disconnect while playing with no grace: the
\* player leaves the registry and the actor is not told.
LeaveAround(u) ==
    /\ u \in Present /\ removals < MaxRemovals
    /\ session[u] \in {"none", "starting"}
    /\ session' = [session EXCEPT ![u] = "none"]
    /\ removals' = removals + 1
    /\ registry' = Without(registry, u)
    /\ listed' = (listed /\ registry' # <<>>)
    /\ UNCHANGED <<roomVars, undoing, stopped, storeVars, openFaults, lostJoins,
                   begun, accepted, raced>>

CloseRoom ==
    /\ Command /\ removals < MaxRemovals
    /\ removals' = removals + 1
    /\ listed' = FALSE /\ stopped' = TRUE
    /\ UNCHANGED <<roomVars, registry, session, undoing, storeVars, openFaults, lostJoins, begun,
                   accepted, raced>>

-----------------------------------------------------------------------------
\* Joining: join_room checks, the actor adds, the registry adds.

Population == FoldFunction(LAMBDA x, y : x + y, 0, members)

\* The checks made before anything is changed, on the actor's snapshot.  A
\* round being played lets a late player in once he has asked twice.
JoinCheck(u) ==
    /\ listed /\ u \notin Present /\ session[u] \in {"none", "left"}
    /\ \/ /\ room.phase # "playing" /\ Len(registry) < MaxUsers
          /\ session' = [session EXCEPT ![u] = "checked"]
       \/ /\ room.phase = "playing" /\ ~mode.tournament
          /\ session' = [session EXCEPT ![u] = "late"]
    /\ UNCHANGED <<roomVars, registry, undoing, listed, stopped, storeVars, histVars>>

\* A late player is aborted in the running round before he is added.
JoinAbort(u) ==
    /\ Command /\ session[u] = "late"
    /\ CheckAllReady(IF room.phase = "playing" /\ u \notin Finished(room)
                     THEN [room EXCEPT !.aborted = @ \cup {u}] ELSE room,
                     registry)
    /\ session' = [session EXCEPT ![u] = IF Len(registry) < MaxUsers
                                       THEN "checked" ELSE "none"]
    /\ UNCHANGED <<mode, members, degraded, registry, undoing, listed, stopped,
                   opened, histVars>>

\* A deadline, a superseded session, a full or degraded room, no mailbox.
GivesUp(u) ==
    /\ session[u] \in {"checked", "late", "starting", "left"}
    /\ session' = [session EXCEPT ![u] = "none"]
    /\ UNCHANGED <<roomVars, registry, undoing, listed, stopped, storeVars, histVars>>

(* Mutant: AddUser lets one player too many in. *)
JoinAdd_OffByOne(u) ==
    /\ Command /\ session[u] = "checked" /\ ~degraded
    /\ Population <= MaxUsers
    /\ members' = [members EXCEPT ![u] = @ + 1]
    /\ session' = [session EXCEPT ![u] = "added"]
    /\ UNCHANGED <<room, mode, degraded, busy, registry, undoing, listed,
                   stopped, storeVars, histVars>>

\* AddUser: the actor commits the member.
JoinAdd(u) ==
    /\ Command /\ session[u] = "checked" /\ ~degraded
    /\ Population < MaxUsers
    /\ members' = [members EXCEPT ![u] = @ + 1]
    /\ session' = [session EXCEPT ![u] = "added"]
    /\ UNCHANGED <<room, mode, degraded, busy, registry, undoing, listed,
                   stopped, storeVars, histVars>>

\* Room::add_user: the session puts the connection into the registry,
\* whatever the actor or the rooms map have done meanwhile.
JoinRegister(u) ==
    /\ session[u] = "added"
    /\ IF Len(registry) < MaxUsers
       THEN /\ registry' = Append(registry, u)
            /\ session' = [session EXCEPT ![u] = "none"]
            /\ raced' = IF busy.act = "ending" THEN raced \cup {u} ELSE raced
       ELSE /\ session' = [session EXCEPT ![u] = "refused"]
            /\ UNCHANGED <<registry, raced>>
    /\ UNCHANGED <<roomVars, undoing, listed, stopped, storeVars, openFaults,
                   removals, lostJoins, begun, accepted>>

LoseJoin ==
    /\ lostJoins < MaxLostJoins
    /\ lostJoins' = lostJoins + 1
    /\ UNCHANGED <<openFaults, removals, begun, accepted, raced>>

\* The reply to AddUser misses its deadline: the join fails, the member stays.
JoinUnanswered(u) ==
    /\ session[u] = "added"
    /\ session' = [session EXCEPT ![u] = "none"]
    /\ LoseJoin
    /\ UNCHANGED <<roomVars, registry, undoing, listed, stopped, storeVars>>

\* The join is cancelled at its deadline: its guard spawns a compensation.
JoinCancelled(u) ==
    /\ session[u] = "added"
    /\ session' = [session EXCEPT ![u] = "none"]
    /\ undoing' = undoing \cup {u}
    /\ LoseJoin
    /\ UNCHANGED <<roomVars, registry, listed, stopped, storeVars>>

Compensating(u) == session[u] = "refused" \/ u \in undoing

Compensated(u) ==
    /\ undoing' = undoing \ {u}
    /\ session' = [session EXCEPT ![u] = IF @ = "refused" THEN "none" ELSE @]

\* The compensation is a RemoveUser: of the member alone, or, if the player
\* has joined again before it is run, of the player.
Compensate(u) ==
    /\ Compensating(u) /\ Removal(u)
    /\ Compensated(u)
    /\ UNCHANGED <<mode, degraded, stopped, opened, histVars>>

\* The compensation is refused: the room takes no more players until an
\* operator says so.
CompensateFails(u) ==
    /\ Compensating(u)
    /\ degraded' = (degraded \/ Command)
    /\ Compensated(u)
    /\ UNCHANGED <<room, mode, members, busy, registry, listed, stopped,
                   storeVars, histVars>>

ClearDegraded ==
    /\ Command /\ degraded
    /\ degraded' = FALSE
    /\ UNCHANGED <<room, mode, members, busy, sideVars, storeVars, histVars>>

-----------------------------------------------------------------------------
\* Settings.

\* An operator may name anybody.
SetHost(h) ==
    /\ Command
    /\ room' = [room EXCEPT !.host = h, !.system = (h = NoUser)]
    /\ UNCHANGED <<busy, drawn, settled, event>> /\ OnlyRoom

\* SetCycle, SetTournament, SetPersistentEmpty: each assigns its own flag.
SetMode(m) ==
    /\ Command /\ m # mode
    /\ mode' = m
    /\ UNCHANGED <<room, members, degraded, busy, sideVars, storeVars, histVars>>

Maintenance == ForceStart \/ ForceEnd \/ StopStale
StoreAnswers == OpenSucceeds \/ \E written \in BOOLEAN : OpenFails(written)

Next ==
    \/ SetChart \/ StartRoom \/ EnterReadyPhase \/ CancelStart
    \/ StoreAnswers \/ ForceSettle \/ Maintenance
    \/ CloseRoom \/ ClearDegraded
    \/ \E h \in Users \cup {NoUser} : SetHost(h)
    \/ \E m \in Modes : SetMode(m)
    \/ \E u \in Users :
         \/ RequestStart(u) \/ HostStart(u) \/ SetReady(u) \/ CancelReady(u)
         \/ \E s \in Scores : SubmitResult(u, s)
         \/ SubmitLate(u) \/ AbortRound(u)
         \/ RemoveUser(u) \/ KickUser(u) \/ LeaveAround(u)
         \/ JoinCheck(u) \/ JoinAbort(u) \/ GivesUp(u) \/ JoinAdd(u)
         \/ JoinRegister(u) \/ JoinUnanswered(u) \/ JoinCancelled(u)
         \/ Compensate(u) \/ CompensateFails(u)

\* The timers of the runtime and the answer of the store always come; what
\* players and administrators do is not assumed.
Fairness ==
    /\ WF_vars(ForceEnd) /\ WF_vars(ForceSettle) /\ WF_vars(StopStale)
    /\ WF_vars(StoreAnswers)

Spec == Init /\ [][Next]_vars /\ Fairness

-----------------------------------------------------------------------------
\* The room's record is well formed and its parts agree with its phase.
TypeOK ==
    /\ room \in RoomRecord
    /\ mode \in Modes
    /\ members \in [Users -> 0 .. MaxUsers] /\ degraded \in BOOLEAN
    /\ busy.act \in {"idle", "opening", "forcing", "ending"}
    /\ busy.late \subseteq Users
    /\ registry \in Seq(Users) /\ Cardinality(Present) = Len(registry)
    /\ session \in [Users -> SessionStates]
    /\ undoing \subseteq Users
    /\ listed \in BOOLEAN /\ stopped \in BOOLEAN
    /\ drawn \in 0 .. MaxRounds /\ opened \subseteq Rounds
    /\ settled \in Seq(Rounds)
    /\ event.results \in Results /\ event.aborted \subseteq Users
    /\ begun \subseteq Rounds /\ accepted \subseteq Users
    /\ raced \subseteq Users

SettledRounds == {settled[i] : i \in 1 .. Len(settled)}

\* A room plays only a round that the round store holds and that has not
\* been settled (open_round comes before Playing, the settlement leaves it),
\* through failed opens, retries and rounds called off.
PlayingIsOpen ==
    room.phase = "playing" =>
        room.round \in (opened \cap begun) \ SettledRounds

\* A round that reached Playing is settled, or it is the one being played,
\* as long as the actor runs: no command, departure or timeout between its
\* start and its end makes the room forget it.
NoRoundDropped ==
    ~stopped => \A n \in begun \ SettledRounds :
                   room.phase = "playing" /\ room.round = n

\* Only what was played is settled, and once: one RoundCompleted per round.
SettledOnce ==
    /\ SettledRounds \subseteq begun
    /\ Cardinality(SettledRounds) = Len(settled)

\* A result the player was told was taken is in the RoundCompleted of its
\* round, even if the player has left, was kicked, or the deadline passed.
AcceptedResultsSettle ==
    [][settled' # settled => accepted' \subseteq DOMAIN event'.results]_vars

\* Nobody is both finished and aborted, whatever the order of a result, a
\* late result, an abort, a timeout and a second join.
ResultOrAbort ==
    /\ DOMAIN room.results \cap room.aborted = {}
    /\ DOMAIN event.results \cap event.aborted = {}

\* Playing ends: by its deadline if nothing else.  The exception is a player
\* who came into the registry between the two readings of it that the
\* timeout makes; the deadline is not set again for him.
GameEnds ==
    room.phase = "playing" ~> (room.phase # "playing" \/ stopped \/ raced # {})

\* When the host leaves the room, the room has another host, or none
\* (handler.rs: every removal path funnels through RemoveUser).
HostHandedOver ==
    [][(room.host \in Present /\ room.host \notin In(registry'))
         => (~listed' \/ mode.tournament \/ room'.host # room.host)]_vars

\* The score a player was told was taken is the one that is settled.  The
\* code does not keep it: a second result is refused after it was stored.
AcceptedScoreStands ==
    [][\A u \in Users :
         (/\ room.phase = "playing" /\ room'.phase = "playing"
          /\ u \in accepted /\ room.round = room'.round)
           => room'.results[u] = room.results[u]]_vars

\* No game starts in a room where nobody is registered.  The code starts one
\* when the last player leaves during the ready phase.
NoGameInAnEmptyRoom ==
    [][room.phase = "ready" /\ room'.phase = "playing" => registry # <<>>]_vars

\* When everybody is ready something will start the game.  The code leaves
\* such a room alone after a kick that follows a failed forced start.
NoFullReadyDeadState ==
    (room.phase = "ready" /\ busy = Idle /\ ~stopped /\ registry # <<>>
       /\ AllReady(room, registry)) => room.countdown

-----------------------------------------------------------------------------
\* The inductive invariant behind the properties of a round.

Fields == {"phase", "started", "admin", "results", "aborted", "chart", "host",
           "system", "pending", "countdown", "deadline", "round"}

\* What the store holds and what was handed to persistence: rounds are drawn
\* before they are opened, opened before they begin, and settled once.
StoreInv ==
    /\ drawn \in Nat
    /\ opened \subseteq 1 .. drawn
    /\ begun \subseteq opened
    /\ settled \in Seq(Nat)
    /\ SettledRounds \subseteq begun
    /\ IsFiniteSet(SettledRounds) /\ Cardinality(SettledRounds) = Len(settled)
    /\ DOMAIN event.results \cap event.aborted = {}

\* The record r follows its round: in Playing it is the one round that began
\* and is not settled, with the results taken (taken) among those it keeps;
\* in every other phase all that began are settled and r names none of them.
Follows(r, taken) ==
    /\ r = [f \in Fields |-> r[f]]
    /\ r.phase \in {"select", "ready", "playing"}
    /\ r.round \in 0 .. drawn
    /\ DOMAIN r.results \cap r.aborted = {}
    /\ r.phase = "playing" => /\ r.round \in begun \ SettledRounds
                              /\ begun \ SettledRounds = {r.round}
                              /\ taken \subseteq DOMAIN r.results
    /\ r.phase # "playing" => /\ r.round \notin begun
                              /\ begun \subseteq SettledRounds

\* The actor waits for the store with a round of its own and out of Playing,
\* and for the registry in Playing.
BusyInv ==
    /\ busy.act \in {"idle", "opening", "forcing", "ending"}
    /\ busy.act \in {"opening", "forcing"} =>
           room.phase = "ready" /\ room.round # NoRound
    /\ busy.act = "ending" => room.phase = "playing"

\* The round the actor names, the rounds the store holds and the rounds that
\* were settled agree, also while the actor waits in the middle of a command.
IInv == StoreInv /\ Follows(room, accepted) /\ BusyInv
=============================================================================
