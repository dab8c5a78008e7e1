------------------------------ MODULE SessionAuth ------------------------------
(***************************************************************************)
(* The sessions of one account: the authentication of a player in the      *)
(* handler of his connection (session.rs), the binding of his User object  *)
(* to a session and the grace timers (session_lifecycle.rs), the task that *)
(* accepted the connection (server/accept.rs), the worker for lost         *)
(* connections (server/init.rs) and the administrator's kick               *)
(* (server/disconnect.rs).                                                 *)
(*                                                                         *)
(* An authentication is split where it waits for something that lets       *)
(* another task change what it relies on.  Its lookup in users runs under  *)
(* user_registration_gate, and so do the decision to dangle, the end of a  *)
(* grace period and a kick; binding the session, which comes later, does   *)
(* not.  `races' names the steps that may fall between that lookup and the *)
(* end of the authentication.                                              *)
(*                                                                         *)
(* A User object is named after the session that created it.  Time is left *)
(* out: a deadline may end an authentication at any step, and a grace      *)
(* period may end at any moment.                                           *)
(***************************************************************************)
EXTENDS Integers, FiniteSets

CONSTANTS
    Sessions,   \* connections of the account
    None,       \* no session, no user
    Environments\* what may overlap an authentication: sets of AllRaces

AllRaces == {"auth", "timer", "kick", "dangle", "slow"}

ASSUME NoneAssumption == None \notin Sessions
ASSUME EnvironmentAssumption == Environments \subseteq SUBSET AllRaces

VARIABLES
    races,     \* the environment of this run
    phase,     \* how far each session's authentication is
    user,      \* the User object of each session
    fresh,     \* newly_created
    prev,      \* (previous_session, previous_generation)
    bound,     \* bound_generation, 0 before it is set
    users,     \* server.users at this account's id
    binding,   \* of each User object: its generation and its session
    mark,      \* dangle_mark of each User object: the session it was made for
    timers,    \* grace timers that are running: the User object and its mark
    deciding,  \* the session for which the lost-connection worker is in dangle
    open,      \* the session's stream is not closed
    awaited,   \* sessions whose accept task waits for active_notify
    sessions,  \* server.sessions
    lost,      \* notices in lost_con_tx
    seated,    \* User objects that are in a room
    kicked     \* sessions a kick took out of sessions and has not closed yet

authVars == <<phase, user, fresh, prev, bound>>
userVars == <<users, binding, mark, timers, seated>>
connVars == <<open, awaited, sessions, lost, kicked>>
vars == <<authVars, userVars, connVars, deciding, races>>

Unbound == [session |-> None, generation |-> 0]
Idle == [who |-> None, at |-> "idle"]

Init ==
    /\ races \in Environments
    /\ phase = [s \in Sessions |-> "idle"]
    /\ user = [s \in Sessions |-> None]
    /\ fresh = [s \in Sessions |-> FALSE]
    /\ prev = [s \in Sessions |-> Unbound]
    /\ bound = [s \in Sessions |-> 0]
    /\ users = None
    /\ binding = [u \in Sessions |-> Unbound]
    /\ mark = [u \in Sessions |-> None]
    /\ timers = {} /\ deciding = Idle /\ seated = {}
    /\ open = [s \in Sessions |-> FALSE]
    /\ awaited = {} /\ sessions = {} /\ lost = {} /\ kicked = {}

\* The authentication of s runs in its handler task.
Authenticating(s) ==
    phase[s] \in {"found", "bound", "flushed", "undoing", "closing"}

\* Until its session is published, too, a kick does not find it.
HandshakeOf(s) == Authenticating(s) \/ s \in awaited

Quiet(race) == race \in races \/ \A s \in Sessions : ~HandshakeOf(s)

\* The gate is held by dangle between its look at the binding and its end.
GateFree == deciding.at # "marking"

\* Weak::upgrade succeeds: the handler, the table, the accept task, the worker
\* or an authentication that is to replace s keeps it alive.
Alive(s) ==
    \/ open[s] /\ phase[s] # "idle"
    \/ s \in awaited \cup sessions \cup kicked
    \/ deciding.who = s
    \/ \E t \in Sessions : Authenticating(t) /\ prev[t].session = s

Bound(u, s, g) == binding[u] = [session |-> s, generation |-> g]

-----------------------------------------------------------------------------
\* The User object.

\* set_session
SetSession(u, s) ==
    /\ binding' = [binding EXCEPT ![u] = [session |-> s, generation |-> @.generation + 1]]
    /\ bound' = [bound EXCEPT ![s] = binding[u].generation + 1]
    /\ mark' = [mark EXCEPT ![u] = None]

\* clear_session
ClearSession(u) ==
    /\ binding' = [binding EXCEPT ![u] = [session |-> None, generation |-> @.generation + 1]]
    /\ mark' = [mark EXCEPT ![u] = None]

\* clear_session_if_matches
ClearIfMatches(u, s) ==
    IF Bound(u, s, bound[s]) THEN ClearSession(u) ELSE UNCHANGED <<binding, mark>>

(* Mutant: the restored session gets a generation of its own. *)
ReplaceIfMatches_Bumps(u, s, old) ==
    IF Bound(u, s, bound[s])
    THEN /\ binding' = [binding EXCEPT ![u] = [old EXCEPT !.generation = bound[s] + 1]]
         /\ mark' = [mark EXCEPT ![u] = None]
    ELSE UNCHANGED <<binding, mark>>

\* replace_binding_if_matches
ReplaceIfMatches(u, s, old) ==
    IF Bound(u, s, bound[s])
    THEN /\ binding' = [binding EXCEPT ![u] = old]
         /\ mark' = [mark EXCEPT ![u] = None]
    ELSE UNCHANGED <<binding, mark>>

\* users.remove, if it still holds u
Unregister(u) == users' = IF users = u THEN None ELSE users

-----------------------------------------------------------------------------
\* Authentication.

\* Banned, refused by the web service, not accepting, a bad token: the session
\* is never built.
Refuse(s) ==
    /\ phase[s] = "idle"
    /\ phase' = [phase EXCEPT ![s] = "failed"]
    /\ UNCHANGED <<user, fresh, prev, bound, userVars, connVars, deciding>>

\* The section under user_registration_gate.
LookUp(s) ==
    /\ phase[s] = "idle" /\ GateFree /\ Quiet("auth")
    /\ phase' = [phase EXCEPT ![s] = "found"]
    /\ open' = [open EXCEPT ![s] = TRUE]
    /\ awaited' = awaited \cup {s}
    /\ \/ /\ users # None
          /\ user' = [user EXCEPT ![s] = users]
          /\ prev' = [prev EXCEPT ![s] =
                 LET b == binding[users] IN
                 IF b.session # None /\ Alive(b.session) THEN b ELSE Unbound]
          /\ UNCHANGED <<fresh, users>>
       \/ /\ users = None
          /\ user' = [user EXCEPT ![s] = s]
          /\ fresh' = [fresh EXCEPT ![s] = TRUE]
          /\ users' = s
          /\ UNCHANGED prev
    /\ UNCHANGED <<bound, binding, mark, timers, seated, sessions, lost, kicked, deciding>>

\* set_session, once the room gave its snapshot.
Bind(s) ==
    /\ phase[s] = "found"
    /\ phase' = [phase EXCEPT ![s] = "bound"]
    /\ SetSession(user[s], s)
    /\ UNCHANGED <<user, fresh, prev, users, timers, seated, connVars, deciding>>

\* Authenticate(Ok) is on the wire.
Flush(s) ==
    /\ phase[s] = "bound"
    /\ phase' = [phase EXCEPT ![s] = "flushed"]
    /\ UNCHANGED <<user, fresh, prev, bound, userVars, connVars, deciding>>

\* The gate is drained; the session that was replaced is closed, with its
\* handler, and the accept task is woken.
Activate(s) ==
    LET p == prev[s].session IN
    /\ phase[s] = "flushed"
    /\ phase' = [t \in Sessions |-> IF t = s THEN "active"
                                    ELSE IF t = p /\ Authenticating(t) THEN "failed"
                                    ELSE phase[t]]
    /\ prev' = [prev EXCEPT ![s] = Unbound]
    /\ IF p = None THEN UNCHANGED <<open, lost>>
       ELSE open' = [open EXCEPT ![p] = FALSE] /\ lost' = lost \cup {p}
    /\ UNCHANGED <<user, fresh, bound, userVars, awaited, sessions, kicked, deciding>>

(* Mutant: an authentication that fails forgets the session it replaced. *)
Fail_KeepsBinding(s) ==
    /\ phase[s] \in {"found", "bound", "flushed"}
    /\ phase' = [phase EXCEPT ![s] = IF fresh[s] THEN "undoing" ELSE "closing"]
    /\ IF phase[s] = "found" THEN UNCHANGED <<binding, mark>> ELSE ClearIfMatches(user[s], s)
    /\ UNCHANGED <<user, fresh, prev, bound, users, timers, seated, connVars, deciding>>

\* rollback_failed_auth, its first part: no snapshot, a deadline, a response
\* that could not be flushed, a gate that could not be drained.
Fail(s) ==
    /\ phase[s] \in {"found", "bound", "flushed"}
    /\ phase' = [phase EXCEPT ![s] = IF fresh[s] THEN "undoing" ELSE "closing"]
    /\ IF phase[s] = "found" THEN UNCHANGED <<binding, mark>>
       ELSE IF prev[s].session # None THEN ReplaceIfMatches(user[s], s, prev[s])
       ELSE ClearIfMatches(user[s], s)
    /\ UNCHANGED <<user, fresh, prev, bound, users, timers, seated, connVars, deciding>>

\* Its second part: the user this authentication registered goes, unless
\* another session has taken it.
Undo(s) ==
    LET now == binding[user[s]].session IN
    /\ phase[s] = "undoing"
    /\ phase' = [phase EXCEPT ![s] = "closing"]
    /\ IF now \in {None, s} \/ ~Alive(now) THEN Unregister(user[s]) ELSE UNCHANGED users
    /\ UNCHANGED <<user, fresh, prev, bound, binding, mark, timers, seated, connVars, deciding>>

\* Its last part.
CloseFailed(s) ==
    /\ phase[s] = "closing"
    /\ phase' = [phase EXCEPT ![s] = "failed"]
    /\ prev' = [prev EXCEPT ![s] = Unbound]
    /\ open' = [open EXCEPT ![s] = FALSE]
    /\ lost' = lost \cup {s}
    /\ UNCHANGED <<user, fresh, bound, userVars, awaited, sessions, kicked, deciding>>

\* The client's outbound queue is full while it authenticates: its stream is
\* closed, and the handler is aborted where it stands.
CutOff(s) ==
    /\ "slow" \in races
    /\ phase[s] \in {"bound", "flushed"}
    /\ phase' = [phase EXCEPT ![s] = "failed"]
    /\ prev' = [prev EXCEPT ![s] = Unbound]
    /\ open' = [open EXCEPT ![s] = FALSE]
    /\ lost' = lost \cup {s}
    /\ UNCHANGED <<user, fresh, bound, userVars, awaited, sessions, kicked, deciding>>

Authenticate(s) ==
    Refuse(s) \/ LookUp(s) \/ Bind(s) \/ Flush(s) \/ Activate(s)
    \/ Fail(s) \/ Undo(s) \/ CloseFailed(s) \/ CutOff(s)

-----------------------------------------------------------------------------
\* The accept task.

\* It wakes and publishes the session.
Publish(s) ==
    /\ s \in awaited /\ phase[s] = "active"
    /\ awaited' = awaited \ {s}
    /\ sessions' = sessions \cup {s}
    /\ UNCHANGED <<authVars, userVars, open, lost, kicked, deciding>>

\* Two seconds past the deadline of the authentication.
GiveUp(s) ==
    /\ s \in awaited /\ phase[s] = "failed"
    /\ awaited' = awaited \ {s}
    /\ ClearIfMatches(user[s], s)
    /\ open' = [open EXCEPT ![s] = FALSE]
    /\ lost' = lost \cup {s}
    /\ UNCHANGED <<authVars, users, timers, seated, sessions, kicked, deciding>>

-----------------------------------------------------------------------------
\* A session in service.

\* Whether commands of s are taken: CommandOrigin::is_current.
InService(s) == phase[s] = "active" /\ open[s] /\ Bound(user[s], s, bound[s])

Enter(s) ==
    /\ InService(s)
    /\ seated' = seated \cup {user[s]}
    /\ UNCHANGED <<authVars, users, binding, mark, timers, connVars, deciding>>

\* The peer is gone.  Nobody is told until the heartbeat is missed.
PeerGone(s) ==
    /\ phase[s] = "active" /\ open[s]
    /\ open' = [open EXCEPT ![s] = FALSE]
    /\ UNCHANGED <<authVars, userVars, awaited, sessions, lost, kicked, deciding>>

\* The server closes it: its queue is full, a command failed, it was banned.
Drop(s) ==
    /\ phase[s] = "active" /\ open[s]
    /\ open' = [open EXCEPT ![s] = FALSE]
    /\ lost' = lost \cup {s}
    /\ UNCHANGED <<authVars, userVars, awaited, sessions, kicked, deciding>>

(* Mutant: only a session that is in service is watched. *)
Heartbeat_OfBound(s) ==
    /\ s \in sessions /\ ~open[s] /\ s \notin lost /\ Bound(user[s], s, bound[s])
    /\ lost' = lost \cup {s}
    /\ UNCHANGED <<authVars, userVars, open, awaited, sessions, kicked, deciding>>

\* The monitor task; it ends with the session and is longer than any
\* authentication.
Heartbeat(s) ==
    /\ s \in sessions /\ ~open[s] /\ s \notin lost
    /\ lost' = lost \cup {s}
    /\ UNCHANGED <<authVars, userVars, open, awaited, sessions, kicked, deciding>>

-----------------------------------------------------------------------------
\* The worker for lost connections, which runs dangle itself.

TakeNotice(s) ==
    /\ s \in lost /\ deciding = Idle
    /\ lost' = lost \ {s}
    /\ sessions' = sessions \ {s}
    /\ IF s \in sessions
       THEN /\ open' = [open EXCEPT ![s] = FALSE]
            /\ deciding' = IF binding[user[s]].session = s
                           THEN [who |-> s, at |-> "waiting"] ELSE Idle
       ELSE UNCHANGED <<open, deciding>>
    /\ UNCHANGED <<authVars, userVars, awaited, kicked>>

\* Under the gate: is it still the session of its user?
DangleBegin ==
    LET s == deciding.who IN
    /\ deciding.at = "waiting"
    /\ Quiet("dangle")
    /\ deciding' = IF binding[user[s]].session = s THEN [who |-> s, at |-> "marking"] ELSE Idle
    /\ UNCHANGED <<authVars, userVars, connVars>>

\* The timer of the grace period that begins when s is lost.
Timer(s) == [user |-> user[s], mark |-> s]

\* Its mark is still there: nobody has come back.
Expired(t) == mark[t.user] = t.mark

\* A grace period begins.
DangleMark ==
    LET s == deciding.who IN
    /\ deciding.at = "marking" /\ deciding' = Idle
    /\ mark' = [mark EXCEPT ![user[s]] = s]
    /\ timers' = timers \cup {Timer(s)}
    /\ UNCHANGED <<authVars, users, binding, seated, connVars>>

\* In a game, with no grace period configured, the player is removed at once.
DangleRemove ==
    LET u == user[deciding.who] IN
    /\ deciding.at = "marking" /\ deciding' = Idle
    /\ u \in seated
    /\ seated' = seated \ {u}
    /\ Unregister(u)
    /\ UNCHANGED <<authVars, binding, mark, timers, connVars>>

(* Mutant: a timer does not ask whether its mark is still there. *)
GraceOver_Unchecked(t) ==
    /\ t \in timers /\ GateFree /\ Quiet("timer")
    /\ timers' = timers \ {t}
    /\ mark' = [mark EXCEPT ![t.user] = None]
    /\ seated' = seated \ {t.user}
    /\ Unregister(t.user)
    /\ UNCHANGED <<authVars, binding, connVars, deciding>>

\* The end of a grace period.
GraceOver(t) ==
    /\ t \in timers /\ GateFree /\ Quiet("timer")
    /\ timers' = timers \ {t}
    /\ IF Expired(t)
       THEN /\ mark' = [mark EXCEPT ![t.user] = None]
            /\ seated' = seated \ {t.user}
            /\ Unregister(t.user)
       ELSE UNCHANGED <<mark, seated, users>>
    /\ UNCHANGED <<authVars, binding, connVars, deciding>>

-----------------------------------------------------------------------------
\* run_admin_kick_user

Kick ==
    /\ users # None /\ GateFree /\ Quiet("kick")
    /\ seated' = seated \ {users}
    /\ \/ \E s \in sessions : sessions' = sessions \ {s} /\ kicked' = kicked \cup {s}
       \/ sessions = {} /\ UNCHANGED <<sessions, kicked>>
    /\ ClearSession(users)
    /\ users' = None
    /\ UNCHANGED <<authVars, timers, open, awaited, lost, deciding>>

\* The player has been told why, or the time for it is over.
CloseKicked(s) ==
    /\ s \in kicked
    /\ kicked' = kicked \ {s}
    /\ open' = [open EXCEPT ![s] = FALSE]
    /\ UNCHANGED <<authVars, userVars, awaited, sessions, lost, deciding>>

-----------------------------------------------------------------------------
Accept(s) == Publish(s) \/ GiveUp(s)
Serve(s) == Enter(s) \/ PeerGone(s) \/ Drop(s) \/ Heartbeat(s)
Dangle == DangleBegin \/ DangleMark \/ DangleRemove
Worker == (\E s \in Sessions : TakeNotice(s)) \/ Dangle
Progress(s) == Bind(s) \/ Flush(s) \/ Activate(s) \/ Fail(s) \/ Undo(s) \/ CloseFailed(s)

Step ==
    \/ \E s \in Sessions : Authenticate(s) \/ Accept(s) \/ Serve(s) \/ CloseKicked(s)
    \/ Worker
    \/ \E t \in timers : GraceOver(t)
    \/ Kick

Next == Step /\ UNCHANGED races

\* Every step of an authentication has a deadline, tokio runs the tasks that
\* can run, the timers fire and the worker goes on with the notice it has.
\* Nothing makes a client connect or leave.
Fairness ==
    /\ \A s \in Sessions :
        /\ WF_vars(Progress(s) /\ UNCHANGED races)
        /\ WF_vars(Accept(s) /\ UNCHANGED races)
        /\ WF_vars(Heartbeat(s) /\ UNCHANGED races)
        /\ WF_vars(CloseKicked(s) /\ UNCHANGED races)
        /\ WF_vars(TakeNotice(s) /\ UNCHANGED races)
        /\ \A u \in Sessions : WF_vars(GraceOver([user |-> u, mark |-> s]) /\ UNCHANGED races)
    /\ WF_vars(Dangle /\ UNCHANGED races)

Spec == Init /\ [][Next]_vars /\ Fairness

-----------------------------------------------------------------------------
\* Properties.

Phases == {"idle", "found", "bound", "flushed", "undoing", "closing", "active", "failed"}
Maybe == Sessions \cup {None}
Bindings == [session : Maybe, generation : Nat]

TypeOK ==
    /\ races \in SUBSET AllRaces
    /\ phase \in [Sessions -> Phases]
    /\ user \in [Sessions -> Maybe]
    /\ fresh \in [Sessions -> BOOLEAN]
    /\ prev \in [Sessions -> Bindings]
    /\ bound \in [Sessions -> Nat]
    /\ users \in Maybe
    /\ binding \in [Sessions -> Bindings]
    /\ mark \in [Sessions -> Maybe]
    /\ timers \subseteq [user : Sessions, mark : Sessions]
    /\ deciding = Idle \/ deciding \in [who : Sessions, at : {"waiting", "marking"}]
    /\ open \in [Sessions -> BOOLEAN]
    /\ awaited \subseteq Sessions /\ sessions \subseteq Sessions
    /\ lost \subseteq Sessions /\ kicked \subseteq Sessions
    /\ seated \subseteq Sessions

(* A session is bound under the generation it was told, however many were
   bound, restored and cleared before; else its commands are refused as
   stale for as long as it lives (CommandOrigin, replace_binding_if_matches). *)
BoundAsTold ==
    \A s \in Sessions :
        \A u \in Sessions : binding[u].session = s =>
            user[s] = u /\ binding[u].generation = bound[s]

(* The player whose commands are taken is the one the server knows, and whoever
   sits in a room is a player the server knows: the gate "prevents a reconnect
   from racing an offline transition" (session_lifecycle.rs:303). *)
PresenceAgrees ==
    /\ \A s \in Sessions : InService(s) => users = user[s]
    /\ seated \subseteq {users}

(* A player the server knows is connecting, is connected, has a notice under
   way that he is not, or has a grace period running ("a player who reconnects
   within this time is restored", deployment.md:435). *)
AbsenceIsTimed ==
    users # None =>
        \/ \E s \in Sessions : HandshakeOf(s) \/ deciding.who = s
        \/ \E s \in Sessions : binding[users].session = s /\ (open[s] \/ s \in sessions)
        \/ mark[users] # None /\ [user |-> users, mark |-> mark[users]] \in timers

(* A session that is closed is let go by the table and by the accept task, even
   if it was closed before it was published (accept.rs, the monitor task). *)
ClosedIsLetGo ==
    \A s \in Sessions :
        (phase[s] # "idle" /\ ~open[s]) ~> (s \notin sessions \cup awaited \cup kicked)

\* In service, or replaced by an authentication that may still give it back.
Serves(s) ==
    /\ phase[s] = "active" /\ open[s]
    /\ \/ Bound(user[s], s, bound[s])
       \/ \E t \in Sessions :
            /\ phase[t] \in {"bound", "flushed"}
            /\ Bound(user[s], t, bound[t])
            /\ prev[t] = [session |-> s, generation |-> bound[s]]

Handover == INSTANCE SessionHandover WITH
    serving <- {s \in Sessions : Serves(s)},
    past <- {s \in Sessions : phase[s] = "active"},
    connected <- {s \in Sessions : phase[s] = "active" /\ open[s]},
    online <- \E s \in Sessions : phase[s] = "active" /\ user[s] = users,
    abrupt <- "slow" \in races

(* One session serves; a failed authentication gives the account back to the
   session it had bound over, and one that succeeds takes it for good
   (rollback_failed_auth; features.md:78). *)
ImplementsHandover == Handover!Init /\ [][Handover!Next]_(Handover!vars)
=============================================================================
