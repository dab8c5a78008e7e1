------------------------------ MODULE Presence ------------------------------
(* What the database knows of one user: whether he is online, how often he   *)
(* came, when he was last seen to leave and how long he played               *)
(* (persistence/users.rs, playtime in internal_hooks.rs).  The connection    *)
(* code sends the events through the log; time is counted in ticks.          *)
(* `trouble' says what may go wrong: "late", an event the database does not  *)
(* take is a dead letter until the next start; "waits", the task that gives  *)
(* an authentication to the log is late: other events may overtake it, it    *)
(* may be refused, and a crash loses it; "kicked", an administrator removes  *)
(* a user who has no connection.                                             *)
EXTENDS Naturals, Sequences, FiniteSets

CONSTANTS MaxSessions, MaxTime, MaxCrashes, MaxLetters, Troubles

VARIABLES trouble,
          clock, up,
          inst, alive,      \* this server instance; last heartbeat of each
          session, linked,  \* session of the user (0: none); has it a connection
          waits,            \* was it lost in a game, and waits to come back
          losing,           \* dangle has begun for its connection
          made,             \* sessions so far
          inroom, entered,  \* in a room; since when, as ROOM_ENTER_AT has it
          due,              \* authentications the log has still to be given
          log, letters,     \* events to be written; dead letters
          total,            \* playtime.total_secs
          row,              \* playtime: the session that is online, or Offline
          visits, logins,   \* mp_user_visits in order; mp_users.login_count
          left,             \* mp_users.last_disconnected_at
          lived, played,    \* ticks with a session; ticks in a room
          parted            \* when the user was last taken to be lost

vars == <<trouble, clock, up, inst, alive, session, linked, losing, waits, made, inroom, entered,
          due, log, letters, total, row, visits, logins, left, lived, played, parted>>

Never == MaxTime + 1
Offline == [session |-> 0, start |-> 0, inst |-> 0]
Instances == 1..MaxCrashes + 1

Init ==
    /\ trouble \in Troubles
    /\ clock = 0 /\ up = TRUE /\ inst = 1 /\ alive = [i \in Instances |-> 0]
    /\ session = 0 /\ linked = FALSE /\ losing = FALSE /\ waits = FALSE /\ made = 0
    /\ inroom = FALSE /\ entered = Never
    /\ due = {} /\ log = <<>> /\ letters = <<>> /\ total = 0 /\ row = Offline
    /\ visits = <<>> /\ logins = 0 /\ left = 0 /\ lived = 0 /\ played = 0 /\ parted = 0

link == <<session, linked, losing, waits>>
user == <<link, made, inroom, entered>>
queue == <<due, log, letters>>
table == <<total, row, visits, logins, left>>
time == <<lived, played>>
truth == <<time, parted>>
server == <<up, inst, alive>>

Event(kind, s) == [kind |-> kind, session |-> s, at |-> clock, inst |-> inst]

Send(events) == log' = log \o events /\ UNCHANGED <<due, letters>>

\* add_playtime_seconds and the statements like it.
AddPlaytime(n) == total' = total + n

\* playtime_room_enter; a room the user creates himself is not counted.
Enter == entered' \in {clock, Never}

\* register_server_instance: a new instance with a first sign of life.
NewInstance == inst' = inst + 1 /\ alive' = [alive EXCEPT ![inst + 1] = clock]

\* The row of playtime that an authentication writes.
Online(e) == [session |-> e.session, start |-> e.at, inst |-> e.inst]

Since(t) == IF clock > t THEN clock - t ELSE 0
-----------------------------------------------------------------------------
Tick ==
    /\ clock < MaxTime /\ clock' = clock + 1
    /\ lived' = IF session # 0 THEN lived + 1 ELSE lived
    /\ played' = IF inroom THEN played + 1 ELSE played
    /\ UNCHANGED <<trouble, server, user, queue, table, parted>>

Heartbeat ==
    /\ up /\ alive' = [alive EXCEPT ![inst] = clock]
    /\ UNCHANGED <<trouble, clock, up, inst, user, queue, table, truth>>

\* A new session, which may take the place of one that lost its connection, is
\* about to or has it still; the user stays in his room.  A bound: so many of
\* the tasks that give authentications to the log may wait.
Authenticate ==
    /\ up /\ made < MaxSessions /\ Cardinality(due) < MaxLetters
    /\ made' = made + 1 /\ session' = made + 1
    /\ linked' = TRUE /\ losing' = FALSE /\ waits' = FALSE
    /\ LET e == Event("authenticated", made + 1) IN
         IF "waits" \in trouble THEN due' = due \cup {e} /\ UNCHANGED <<log, letters>>
                                ELSE Send(<<e>>)
    /\ UNCHANGED <<trouble, clock, server, inroom, entered, table, truth>>

\* join_room, or create_room.
Join ==
    /\ up /\ linked /\ ~inroom
    /\ inroom' = TRUE /\ Enter
    /\ UNCHANGED <<trouble, clock, server, link, made, queue, table, truth>>

\* playtime_room_leave: an update of the row the user has, if he has one.
Accrue ==
    /\ IF entered # Never /\ visits # <<>> THEN AddPlaytime(Since(entered)) ELSE UNCHANGED total
    /\ entered' = Never /\ UNCHANGED <<row, visits, logins, left>>

Leave ==
    /\ up /\ linked /\ inroom
    /\ inroom' = FALSE /\ Accrue
    /\ UNCHANGED <<trouble, clock, server, link, made, queue, truth>>

\* dangle ends the room time and then waits for the gate of authentications; if
\* one has the gate, the connection is no longer the user's and nothing follows.
DangleBegins ==
    /\ up /\ linked /\ ~losing
    /\ losing' = TRUE /\ Accrue
    /\ UNCHANGED <<trouble, clock, server, session, linked, waits, made, inroom, queue, truth>>

\* dangle has the gate: the session waits for its grace.
Lose ==
    /\ up /\ linked /\ losing
    /\ linked' = FALSE /\ losing' = FALSE
    /\ Send(<<Event("disconnect", session)>>) /\ parted' = clock
    /\ UNCHANGED <<trouble, clock, server, session, waits, made, inroom, entered, table, time>>

\* In a game no event says so: the player may be back before the grace is over.
LosePlaying ==
    /\ up /\ linked /\ losing /\ inroom
    /\ linked' = FALSE /\ losing' = FALSE /\ waits' = TRUE
    /\ UNCHANGED <<trouble, clock, server, session, made, inroom, entered, queue, table, truth>>

Gone ==
    /\ session' = 0 /\ linked' = FALSE /\ losing' = FALSE /\ waits' = FALSE
    /\ inroom' = FALSE

Parted(s) == Send(<<Event("disconnect", s), Event("offline", s)>>) /\ parted' = clock

\* In a game, on a server that gives no grace.
LoseAtOnce ==
    /\ up /\ linked /\ losing /\ inroom
    /\ Gone /\ Accrue /\ Parted(session)
    /\ UNCHANGED <<trouble, clock, server, made, time>>

\* run_admin_kick_user: a user whose connection is lost has no session that could
\* be named.
Kick ==
    /\ up /\ session # 0
    /\ LET named == linked /\ ~losing IN
         /\ named \/ "kicked" \in trouble
         /\ Gone /\ Accrue /\ Parted(IF named THEN session ELSE 0)
    /\ UNCHANGED <<trouble, clock, server, made, time>>

GraceEnds ==
    /\ up /\ session # 0 /\ ~linked
    /\ Gone /\ Accrue
    /\ IF waits THEN Parted(session) ELSE Send(<<Event("offline", session)>>) /\ UNCHANGED parted
    /\ UNCHANGED <<trouble, clock, server, made, time>>

\* The task started by an authentication reads the clock and gives it to the
\* log; a refusal is a line in the server's log and nothing more.
Admit ==
    /\ up /\ \E e \in due :
                 /\ due' = due \ {e}
                 /\ log' = Append(log, [e EXCEPT !.at = clock]) \/ UNCHANGED log
    /\ UNCHANGED <<trouble, clock, server, user, letters, table, truth>>

Crash ==
    /\ up /\ inst <= MaxCrashes
    /\ up' = FALSE /\ NewInstance
    /\ Gone /\ entered' = Never /\ due' = {}
    /\ UNCHANGED <<trouble, clock, made, log, letters, table, truth>>
-----------------------------------------------------------------------------
(* Mutant: an event that was written already counts again. *)
Authenticated_Twice(e) ==
    /\ visits' = Append(visits, e.session) /\ logins' = logins + 1
    /\ row' = Online(e)
    /\ UNCHANGED <<total, left>>

\* commit_user_authenticated: an event that was written already changes nothing.
Authenticated(e) ==
    IF \E i \in DOMAIN visits : visits[i] = e.session THEN UNCHANGED table
    ELSE /\ visits' = Append(visits, e.session) /\ logins' = logins + 1
         /\ row' = Online(e)
         /\ UNCHANGED <<total, left>>

\* record_user_disconnect: of the latest visit only, or of no session at all.
Disconnected(e) ==
    /\ left' = IF /\ e.session = 0 \/ (visits # <<>> /\ visits[Len(visits)] = e.session)
                  /\ e.at > left THEN e.at ELSE left
    /\ UNCHANGED <<total, row, visits, logins>>

\* set_offline: of the session that is online only.
WentOffline(e) ==
    IF row.session = e.session /\ row.inst = e.inst
    THEN /\ AddPlaytime(IF e.at > row.start THEN e.at - row.start ELSE 0) /\ row' = Offline
         /\ UNCHANGED <<visits, logins, left>>
    ELSE UNCHANGED table

\* The worker writes the first event of the log; a crash before the log is
\* told makes it write it again.
Write ==
    /\ log # <<>>
    /\ LET e == Head(log) IN
         CASE e.kind = "authenticated" -> Authenticated(e)
           [] e.kind = "disconnect" -> Disconnected(e)
           [] e.kind = "offline" -> WentOffline(e)
    /\ log' = Tail(log) \/ (inst <= MaxCrashes /\ log' = log)
    /\ UNCHANGED <<trouble, clock, server, user, due, letters, truth>>

GiveUp ==
    /\ "late" \in trouble /\ up /\ log # <<>> /\ Len(letters) < MaxLetters
    /\ letters' = Append(letters, Head(log)) /\ log' = Tail(log)
    /\ UNCHANGED <<trouble, clock, server, user, due, table, truth>>

\* Recovery: the log, then the dead letters, then what is online still.
Replay ==
    /\ ~up /\ log = <<>> /\ letters # <<>>
    /\ log' = letters /\ letters' = <<>>
    /\ UNCHANGED <<trouble, clock, server, user, due, table, truth>>

(* Mutant: the session is taken to have lasted until now. *)
CloseStale_Now ==
    /\ ~up /\ log = <<>> /\ letters = <<>> /\ up' = TRUE
    /\ IF row = Offline THEN UNCHANGED table
       ELSE /\ AddPlaytime(Since(row.start)) /\ row' = Offline
            /\ UNCHANGED <<visits, logins, left>>
    /\ UNCHANGED <<trouble, clock, inst, alive, user, queue, truth>>

\* close_all_stale_sessions: until the last heartbeat of their instance.
CloseStale ==
    /\ ~up /\ log = <<>> /\ letters = <<>> /\ up' = TRUE
    /\ IF row = Offline THEN UNCHANGED table
       ELSE /\ row' = Offline
            /\ IF alive[row.inst] > row.start THEN AddPlaytime(alive[row.inst] - row.start)
                                              ELSE UNCHANGED total
            /\ UNCHANGED <<visits, logins, left>>
    /\ UNCHANGED <<trouble, clock, inst, alive, user, queue, truth>>

Next ==
    \/ Tick \/ Heartbeat \/ Authenticate \/ Join \/ Leave
    \/ DangleBegins \/ Lose \/ LosePlaying \/ LoseAtOnce \/ Kick \/ GraceEnds
    \/ Admit \/ Crash \/ Write \/ GiveUp \/ Replay \/ CloseStale

Spec == Init /\ [][Next]_vars
-----------------------------------------------------------------------------
Calm == trouble = {}
Settled == up /\ due = {} /\ log = <<>> /\ letters = <<>>

(* When nothing waits to be written, the database has the session that there *)
(* is, every session as one login, and the last time the user was taken to   *)
(* be lost.                                                                  *)
PresenceSettles ==
    Settled => /\ row.session = session
               /\ logins = made
               /\ left = parted

PresenceSettlesIfCalm == Calm => PresenceSettles

(* The total is at most the time with a session and the time in rooms: the   *)
(* time the server was down is not play (comment of close_all_stale_sessions)*)
TimeIsLived == total <= lived + played

TimeIsLivedIfCalm == Calm => TimeIsLived

(* The total is time in rooms (comment of commit_user_authenticated).        *)
TimeIsInRooms == total <= played

(* Time in a room is counted once the user has left.                         *)
RoomTimeIsCounted == (Settled /\ inst = 1 /\ ~inroom) => total >= played
=============================================================================
