----------------------------- MODULE CommandPath -----------------------------
(* The way of a player's command and of its answer (session.rs,             *)
(* session_dispatch.rs, session_actor.rs, room_actor/mailbox.rs).            *)
(*                                                                           *)
(* The dispatch task of the connection takes one command at a time, puts it  *)
(* into the mailbox of the session and waits for the answer.  The worker of  *)
(* the mailbox runs the handler; most handlers put a command into the        *)
(* mailbox of the room and wait for its actor.  A command has two deadlines: *)
(* nothing may be committed after the first, and the answer must be out by   *)
(* the second.  Meanwhile the player may reconnect, which makes this session *)
(* the origin of nothing any more.                                           *)
EXTENDS Naturals, FiniteSets

CONSTANTS Commands,     \* the commands of one connection
          Environments  \* whether the deadline may pass while a room is at a command

VARIABLES overtaken,    \* this behaviour's choice among Environments
          kind,         \* of each command: what its handler does
          due,          \* how far its time has run
          dispatch,     \* what the dispatch task does with it
          worker,       \* what the worker of the session's mailbox does with it
          room,         \* what the actor of the room does with it
          reply,        \* what the worker answered, or "none"
          effect,       \* of each command: done, nothing, or something on the side
          told,         \* what the client heard
          alive,        \* the mailbox's worker runs
          current,      \* the session is its user's current one
          open          \* its transport

vars == <<overtaken, kind, due, dispatch, worker, room, reply, effect, told, alive,
          current, open>>

\* Chat and creating a room are done by the handler itself.  A "ready" may open
\* the round (StartGame, Ready), or have nothing to do; a "result" is a score of
\* the game; a "console" line is a room name of an administrator.
Kinds == {"chat", "change", "ready", "result", "join", "console"}

\* A console line is run and always answered by an error.
OfHandler == {"chat", "console"}

\* What an error may leave changed: a round that cannot open sends everybody back
\* to getting ready; a late score gives its player up, and a second one replaces
\* the first; a late join gives up the player's part in the running game, and a
\* join that fails half-way is taken back.
LeavesTraces == {"ready", "result", "join", "console"}

\* CommandMeta: before the commit deadline, between the two, after the response deadline.
Deadlines == {"ample", "reserve", "over"}

\* What a handler answers; a join has delivered its answer itself.
Replies == {"ok", "err", "delivered"}

TypeOK ==
    /\ kind \in [Commands -> Kinds]
    /\ due \in [Commands -> Deadlines]
    /\ dispatch \in [Commands -> {"new", "asked", "waiting", "answering", "done"}]
    /\ worker \in [Commands -> {"none", "queued", "running", "gateway", "joining", "done"}]
    /\ room \in [Commands -> {"none", "queued", "running", "ok", "err"}]
    /\ reply \in [Commands -> Replies \cup {"none"}]
    /\ effect \in [Commands -> {"none", "side", "done"}]
    /\ told \in [Commands -> {"nothing", "ok", "err"}]
    /\ {alive, current, open} \subseteq BOOLEAN

Init ==
    /\ overtaken \in Environments
    /\ kind \in [Commands -> Kinds]
    /\ due = [c \in Commands |-> "ample"]
    /\ dispatch = [c \in Commands |-> "new"]
    /\ worker = [c \in Commands |-> "none"] /\ room = worker
    /\ reply = [c \in Commands |-> "none"]
    /\ effect = [c \in Commands |-> "none"]
    /\ told = [c \in Commands |-> "nothing"]
    /\ alive = TRUE /\ current = TRUE /\ open = TRUE

At(f, c, value) == f' = [f EXCEPT ![c] = value]

\* CommandOrigin: an answer may be sent over the transport a command came by
\* only while its session is still the current one.
OriginServes == open /\ current

\* What the worker of the mailbox asks before a command, and the room before its own.
WorkerShouldRun == current
OriginStale == ~current

\* CommandOrigin::close_uncertain: the transport of this session, no other.
CloseUncertain == open' = FALSE
-----------------------------------------------------------------------------
(* Time, and the other connection of the same player.                        *)

InProgress(c) == dispatch[c] \notin {"new", "done"} \/ worker[c] \notin {"none", "done"}

\* The commit deadline and the response deadline pass.
TimePasses(c) ==
    /\ InProgress(c) /\ due[c] # "over"
    /\ room[c] = "running" => overtaken
    /\ At(due, c, IF due[c] = "ample" THEN "reserve" ELSE "over")
    /\ UNCHANGED <<overtaken, kind, dispatch, worker, room, reply, effect, told, alive,
                   current, open>>

\* The player's new session is bound; the old one is closed when the new one is active.
Reconnect ==
    /\ current /\ current' = FALSE
    /\ UNCHANGED <<overtaken, kind, due, dispatch, worker, room, reply, effect, told, alive, open>>

Replaced ==
    /\ ~current /\ open /\ open' = FALSE
    /\ UNCHANGED <<overtaken, kind, due, dispatch, worker, room, reply, effect, told, alive,
                   current>>
-----------------------------------------------------------------------------
(* The dispatch task; it ends with its transport.                            *)

Receive(c) ==
    /\ open /\ dispatch[c] = "new"
    /\ \A d \in Commands : dispatch[d] \in {"new", "done"}
    /\ At(dispatch, c, "asked")
    /\ UNCHANGED <<overtaken, kind, due, worker, room, reply, effect, told, alive, current, open>>

\* route_chat and the others: the command is about to be put into the mailbox.
AtRouter(c) == open /\ dispatch[c] = "asked"

\* is_command_permitted, which the model leaves to chance.
MayBeDenied(c) == AtRouter(c) /\ due[c] = "ample"

\* A rate limit or a missing permission: an error without any further step.
Refuse(c) ==
    /\ MayBeDenied(c)
    /\ At(dispatch, c, "answering") /\ At(reply, c, "err")
    /\ UNCHANGED <<overtaken, kind, due, worker, room, effect, told, alive, current, open>>

Enqueue(c) ==
    /\ AtRouter(c) /\ alive /\ due[c] # "over"
    /\ At(dispatch, c, "waiting") /\ At(worker, c, "queued")
    /\ UNCHANGED <<overtaken, kind, due, room, reply, effect, told, alive, current, open>>

\* Surely not enqueued: the client is told, unless it is the old connection.
NotEnqueued(c) ==
    /\ AtRouter(c) /\ (~alive \/ due[c] = "over")
    /\ IF current THEN At(dispatch, c, "answering") /\ At(reply, c, "err")
                  ELSE At(dispatch, c, "done") /\ UNCHANGED reply
    /\ UNCHANGED <<overtaken, kind, due, worker, room, effect, told, alive, current, open>>

Hear(c) ==
    /\ open /\ dispatch[c] = "waiting" /\ reply[c] # "none"
    /\ At(dispatch, c, IF reply[c] = "delivered" THEN "done" ELSE "answering")
    /\ UNCHANGED <<overtaken, kind, due, worker, room, reply, effect, told, alive, current, open>>

\* A slip: the outcome is uncertain, and nobody is told.
GiveUp_Silent(c) ==
    /\ open /\ dispatch[c] = "waiting" /\ reply[c] = "none"
    /\ due[c] = "over" \/ (~alive /\ worker[c] = "done")
    /\ At(dispatch, c, "done")
    /\ UNCHANGED <<overtaken, kind, due, worker, room, reply, effect, told, alive, current, open>>

\* The answer is late, or its sender is gone: the outcome is uncertain.
GiveUp(c) ==
    /\ open /\ dispatch[c] = "waiting" /\ reply[c] = "none"
    /\ due[c] = "over" \/ (~alive /\ worker[c] = "done")
    /\ CloseUncertain /\ At(dispatch, c, "done")
    /\ UNCHANGED <<overtaken, kind, due, worker, room, reply, effect, told, alive, current>>

\* send_dispatch_response: flushed within the response deadline, or the
\* connection is given up.
Answer(c) ==
    /\ open /\ dispatch[c] = "answering"
    /\ At(dispatch, c, "done")
    /\ \/ due[c] # "over" /\ At(told, c, reply[c]) /\ UNCHANGED open
       \/ open' = FALSE /\ UNCHANGED told
    /\ UNCHANGED <<overtaken, kind, due, worker, room, reply, effect, alive, current>>
-----------------------------------------------------------------------------
(* The worker of the session's mailbox.                                      *)

Busy == \E d \in Commands : worker[d] \in {"running", "gateway", "joining"}

\* A command of a superseded session stops the worker; what is queued is gone.
Take(c) ==
    /\ alive /\ worker[c] = "queued" /\ ~Busy
    /\ \/ /\ ~WorkerShouldRun
          /\ alive' = FALSE
          /\ worker' = [d \in Commands |-> IF worker[d] = "queued" THEN "done" ELSE worker[d]]
          /\ UNCHANGED reply
       \/ /\ WorkerShouldRun /\ due[c] # "ample"
          /\ At(worker, c, "done") /\ At(reply, c, "err")
          /\ UNCHANGED alive
       \/ /\ WorkerShouldRun /\ due[c] = "ample"
          /\ At(worker, c, "running")
          /\ UNCHANGED <<alive, reply>>
    /\ UNCHANGED <<overtaken, kind, due, dispatch, room, effect, told, current, open>>

Finish(c, result) == At(worker, c, "done") /\ At(reply, c, result)

\* The handler looked at the deadline some awaits before.
Chat(c) ==
    /\ worker[c] = "running" /\ kind[c] = "chat"
    /\ \/ At(effect, c, "done") /\ Finish(c, "ok")
       \/ due[c] # "ample" /\ Finish(c, "err") /\ UNCHANGED effect
    /\ UNCHANGED <<overtaken, kind, due, dispatch, room, told, alive, current, open>>

\* A console line runs; a late joiner gives up his part in the running game, before
\* it is known whether he may join (the way to the room and back as one step).
Sidestep(c) ==
    /\ worker[c] = "running" /\ kind[c] \in {"console", "join"} /\ effect[c] = "none"
    /\ due[c] = "ample" /\ ~OriginStale
    /\ At(effect, c, "side")
    /\ UNCHANGED <<overtaken, kind, due, dispatch, worker, room, reply, told, alive, current, open>>

\* The handler refuses by itself: no room, a closed one, not the host.
HandlerRefuses(c) ==
    /\ worker[c] = "running"
    /\ Finish(c, "err")
    /\ UNCHANGED <<overtaken, kind, due, dispatch, room, effect, told, alive, current, open>>

\* room_mailbox: enqueue before the commit deadline, or not at all.
SendToRoom(c) ==
    /\ worker[c] = "running" /\ kind[c] \notin OfHandler /\ due[c] = "ample"
    /\ At(worker, c, "gateway") /\ At(room, c, "queued")
    /\ UNCHANGED <<overtaken, kind, due, dispatch, reply, effect, told, alive, current, open>>

NotSentToRoom(c) ==
    /\ worker[c] = "running" /\ kind[c] \notin OfHandler /\ due[c] # "ample"
    /\ Finish(c, "err")
    /\ UNCHANGED <<overtaken, kind, due, dispatch, room, effect, told, alive, current, open>>

\* The room's answer arrives.  A player it has added has the rest of join_room
\* still to do.
RoomAnswers(c) ==
    /\ worker[c] = "gateway" /\ room[c] \in {"ok", "err"}
    /\ IF room[c] = "ok" /\ kind[c] = "join"
       THEN At(worker, c, "joining") /\ UNCHANGED reply
       ELSE Finish(c, room[c])
    /\ UNCHANGED <<overtaken, kind, due, dispatch, room, effect, told, alive, current, open>>

\* The commit deadline passes first: MailboxAttempt::Uncertain, an error like
\* any other from there on.
RoomTooLate(c) ==
    /\ worker[c] = "gateway" /\ room[c] \notin {"ok", "err"} /\ due[c] # "ample"
    /\ Finish(c, "err")
    /\ UNCHANGED <<overtaken, kind, due, dispatch, room, effect, told, alive, current, open>>

\* join_room sends its own answer, by the response deadline; else it closes.
JoinAnswers(c) ==
    /\ worker[c] = "joining"
    /\ \/ /\ OriginServes /\ due[c] # "over"
          /\ At(told, c, "ok") /\ Finish(c, "delivered")
          /\ UNCHANGED open
       \/ CloseUncertain /\ Finish(c, "err") /\ UNCHANGED told
    /\ UNCHANGED <<overtaken, kind, due, dispatch, room, effect, alive, current>>

\* The registry of connections refuses the player: the room takes him out again,
\* or if it cannot (OriginStale, for one) the transport is closed.
JoinRefused(c) ==
    /\ worker[c] = "joining" /\ Finish(c, "err")
    /\ \/ ~OriginStale /\ At(effect, c, "side") /\ UNCHANGED open
       \/ CloseUncertain /\ UNCHANGED effect
    /\ UNCHANGED <<overtaken, kind, due, dispatch, room, told, alive, current>>

\* run_or_deadline: the handler is cut off at the response deadline.
CutOff(c) ==
    /\ worker[c] \in {"running", "gateway", "joining"} /\ due[c] = "over"
    /\ CloseUncertain /\ Finish(c, "err")
    /\ UNCHANGED <<overtaken, kind, due, dispatch, room, effect, told, alive, current>>

-----------------------------------------------------------------------------
(* The actor of the room.                                                    *)

\* A slip: the deadline is not looked at, only the origin.
RoomTakes_Late(c) ==
    /\ room[c] = "queued"
    /\ At(room, c, IF ~OriginStale THEN "running" ELSE "err") /\ UNCHANGED effect
    /\ UNCHANGED <<overtaken, kind, due, dispatch, worker, reply, told, alive, current, open>>

\* It looks at the deadline and at the origin when it takes the command.  A late
\* score is refused, but the game must not wait for it: its player is given up.
RoomTakes(c) ==
    /\ room[c] = "queued"
    /\ At(room, c, IF due[c] = "ample" /\ ~OriginStale THEN "running" ELSE "err")
    /\ \/ UNCHANGED effect
       \/ kind[c] = "result" /\ due[c] # "ample" /\ At(effect, c, "side")
    /\ UNCHANGED <<overtaken, kind, due, dispatch, worker, reply, told, alive, current, open>>

\* It does what it is asked; finds it impossible; opens no round for it, or puts
\* a second score in place of the first; or has nothing to do for a Ready.
RoomRuns(c) ==
    /\ room[c] = "running"
    /\ \/ At(room, c, "ok") /\ At(effect, c, "done")
       \/ At(room, c, "err") /\ UNCHANGED effect
       \/ kind[c] \in {"ready", "result"} /\ At(room, c, "err") /\ At(effect, c, "side")
       \/ kind[c] = "ready" /\ At(room, c, "ok") /\ UNCHANGED effect
    /\ UNCHANGED <<overtaken, kind, due, dispatch, worker, reply, told, alive, current, open>>

DispatchStep(c) == Receive(c) \/ Refuse(c) \/ Enqueue(c) \/ NotEnqueued(c) \/ Hear(c) \/ GiveUp(c)
                   \/ Answer(c)
WorkerStep(c) == Take(c) \/ Chat(c) \/ Sidestep(c) \/ HandlerRefuses(c) \/ SendToRoom(c)
                 \/ NotSentToRoom(c) \/ RoomAnswers(c) \/ RoomTooLate(c) \/ JoinAnswers(c)
                 \/ JoinRefused(c) \/ CutOff(c)
RoomStep(c) == RoomTakes(c) \/ RoomRuns(c)

Next ==
    \/ \E c \in Commands : TimePasses(c) \/ DispatchStep(c) \/ WorkerStep(c) \/ RoomStep(c)
    \/ Reconnect \/ Replaced

\* Clocks run, and the two tasks of the connection do what they can.
Fairness == \A c \in Commands : WF_vars(TimePasses(c)) /\ WF_vars(DispatchStep(c))
                                /\ WF_vars(WorkerStep(c)) /\ WF_vars(RoomStep(c))

Spec == Init /\ [][Next]_vars /\ Fairness
-----------------------------------------------------------------------------
(* Properties.                                                               *)

(* A client that is told of an error might think that nothing happened.      *)
ErrorMeansNothingHappened ==
    \A c \in Commands : told[c] = "err" /\ open => effect[c] = "none"

(* On a connection that goes on, a command whose client is told of an error  *)
(* was not done and will not be, and has left nothing behind, except what    *)
(* its kind may leave.                                                       *)
ErrorMeansNotDone ==
    \A c \in Commands : told[c] = "err" /\ open =>
        effect[c] = "none" \/ (effect[c] = "side" /\ kind[c] \in LeavesTraces)

(* So it is unless the deadline passes while the room is at the command.     *)
ErrorMeansNotDoneInTime == ~overtaken => ErrorMeansNotDone

(* What a client is told was done, was done; a Ready may have had nothing to *)
(* do.                                                                       *)
OkMeansDone == \A c \in Commands : told[c] = "ok" => effect[c] = "done" \/ kind[c] = "ready"

(* Nothing of a session that was replaced, and nothing after its deadline,   *)
(* is begun by the actor of a room; all that a late command does to a room   *)
(* that takes it up is to give up the player whose score it was.             *)
NothingStaleBegins ==
    [][\A c \in Commands : room[c] = "queued" /\ room'[c] # "queued" =>
         /\ room'[c] = "running" => current /\ due[c] = "ample"
         /\ effect'[c] # effect[c] => kind[c] = "result" /\ due[c] # "ample"]_vars

(* "A silent drop" is no answer: a command that was taken is answered, or    *)
(* its connection is closed.                                                 *)
EveryCommandIsAnswered ==
    \A c \in Commands : dispatch[c] = "asked" ~> told[c] # "nothing" \/ ~open \/ ~current
=============================================================================
