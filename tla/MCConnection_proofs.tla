-------------------------- MODULE MCConnection_proofs --------------------------
(***************************************************************************)
(* What is proved of a component holds of it in the composite: whatever    *)
(* the others do, its own state changes only by its own steps. The names   *)
(* of what is defined here begin with that of the component: of the        *)
(* commands (CommandPath) an answer says what became of the command,       *)
(* however many a connection sends and however often their deadlines pass  *)
(* between two steps. Of the Phira client, a call says when its attempt    *)
(* may begin at the latest, so that no deadline is missed by more than one *)
(* request. Of the gate, what the client heard is older than what the      *)
(* buffer keeps, and that older than what the room has queued, part by     *)
(* part.                                                                   *)
(***************************************************************************)
EXTENDS MCConnection, Sequences, FiniteSetTheorems, TLAPS

-----------------------------------------------------------------------------
\* The types the argument needs.
CommandTypes ==
    /\ kind \in [Commands -> Command!Kinds]
    /\ due \in [Commands -> Command!Deadlines]
    /\ dispatch \in [Commands -> {"new", "asked", "waiting", "answering", "done"}]
    /\ worker \in [Commands -> {"none", "queued", "running", "gateway", "joining", "done"}]
    /\ room \in [Commands -> {"none", "queued", "running", "ok", "err"}]
    /\ reply \in [Commands -> Command!Replies \cup {"none"}]
    /\ effect \in [Commands -> {"none", "side", "done"}]
    /\ told \in [Commands -> {"nothing", "ok", "err"}]

\* Once there is an answer the handler is done, and a client who heard of a
\* refusal heard it from there.
CommandAnswered ==
    \A c \in Commands :
        /\ reply[c] # "none" => worker[c] \in {"none", "done"}
        /\ reply[c] # "none" /\ worker[c] = "none" => dispatch[c] \in {"answering", "done"}
        /\ worker[c] # "none" => dispatch[c] \notin {"new", "asked"}
        /\ dispatch[c] \in {"new", "asked"} => reply[c] = "none"
        /\ told[c] = "err" => reply[c] = "err" /\ dispatch[c] = "done"

\* A room is asked by the handler only, and who does it is the room, or the
\* handler of a chat. A join that goes on and an answer that says ok are about
\* what was done, and only some kinds of commands do something on the side.
CommandEffects ==
    \A c \in Commands :
        /\ worker[c] \in {"none", "queued", "running"} => room[c] = "none"
        /\ worker[c] \in {"none", "queued"} => effect[c] = "none"
        /\ room[c] # "none" => kind[c] \notin Command!OfHandler
        /\ effect[c] = "done" => room[c] = "ok" \/ (kind[c] = "chat" /\ worker[c] = "done")
        /\ effect[c] = "side" => kind[c] \in Command!LeavesTraces
        /\ room[c] = "ok" /\ ~(kind[c] = "join" /\ worker[c] = "done")
                => effect[c] = "done" \/ kind[c] = "ready"
        /\ worker[c] = "joining" => room[c] = "ok" /\ kind[c] = "join" /\ effect[c] = "done"
        /\ dispatch[c] = "answering" => reply[c] \in {"ok", "err"}
        /\ told[c] = "ok" \/ reply[c] = "ok" => worker[c] = "done" /\ (effect[c] = "done" \/ kind[c] = "ready")

\* An error on a connection that goes on is final: the command is not done, and
\* its room, if it still has it, will find it late.
CommandFinal ==
    ~overtaken => \A c \in Commands :
        /\ room[c] = "running" => due[c] = "ample"
        /\ open /\ reply[c] = "err" =>
              /\ effect[c] # "done"
              /\ room[c] \in {"none", "ok", "err"} \/ (room[c] = "queued" /\ due[c] # "ample")

CommandIInv == CommandTypes /\ CommandAnswered /\ CommandEffects /\ CommandFinal /\ Command!OkMeansDone
-----------------------------------------------------------------------------
(* The dispatch task answers only what it was told. *)
LEMMA CommandDispatchKeeps ==
  ASSUME CommandIInv, NEW c \in Commands, Command!DispatchStep(c)
  PROVE  CommandIInv'
  <1> USE DEF CommandIInv, CommandTypes, CommandAnswered, CommandEffects, CommandFinal, Command!OkMeansDone, Command!At, Command!Kinds, Command!Deadlines, Command!Replies, Command!OfHandler, Command!LeavesTraces
  <1>1. CASE Command!Receive(c)
    BY <1>1 DEF Command!Receive
  <1>2. CASE Command!Refuse(c)
    BY <1>2 DEF Command!Refuse, Command!MayBeDenied, Command!AtRouter
  <1>3. CASE Command!Enqueue(c)
    BY <1>3 DEF Command!Enqueue, Command!AtRouter
  <1>4. CASE Command!NotEnqueued(c)
    BY <1>4 DEF Command!NotEnqueued, Command!AtRouter
  <1>5. CASE Command!Hear(c)
    BY <1>5 DEF Command!Hear
  <1>6. CASE Command!GiveUp(c)
    BY <1>6 DEF Command!GiveUp, Command!CloseUncertain
  <1>7. CASE Command!Answer(c)
    <2>1. /\ dispatch[c] = "answering" /\ dispatch' = [dispatch EXCEPT ![c] = "done"]
          /\ UNCHANGED <<overtaken, kind, due, worker, room, reply, effect>>
      BY <1>7 DEF Command!Answer
    <2>2. CASE told' = [told EXCEPT ![c] = reply[c]] /\ UNCHANGED open
      BY <2>1, <2>2
    <2>3. CASE open' = FALSE /\ UNCHANGED told
      BY <2>1, <2>3
    <2> QED BY <1>7, <2>2, <2>3 DEF Command!Answer
  <1> QED BY <1>1, <1>2, <1>3, <1>4, <1>5, <1>6, <1>7 DEF Command!DispatchStep

(* The worker of the mailbox answers each command once, and says ok of what  *)
(* was done.                                                                 *)
LEMMA CommandWorkerKeeps ==
  ASSUME CommandIInv, NEW c \in Commands, Command!WorkerStep(c)
  PROVE  CommandIInv'
  <1> USE DEF CommandIInv, CommandTypes, CommandAnswered, CommandEffects, CommandFinal, Command!OkMeansDone, Command!At, Command!Kinds, Command!Deadlines, Command!Replies, Command!OfHandler, Command!LeavesTraces
  <1>1. CASE Command!Take(c)
    <2>1. /\ worker[c] = "queued"
          /\ UNCHANGED <<overtaken, kind, due, dispatch, room, effect, told, open>>
      BY <1>1 DEF Command!Take
    <2>2. CASE /\ worker' = [d \in Commands |-> IF worker[d] = "queued" THEN "done" ELSE worker[d]]
               /\ UNCHANGED reply
      BY <2>1, <2>2
    <2>3. CASE Command!At(worker, c, "done") /\ Command!At(reply, c, "err")
      BY <2>1, <2>3
    <2>4. CASE Command!At(worker, c, "running") /\ UNCHANGED reply
      BY <2>1, <2>4
    <2> QED BY <1>1, <2>2, <2>3, <2>4 DEF Command!Take
  <1>2. CASE Command!Chat(c)
    BY <1>2 DEF Command!Chat, Command!Finish
  <1>3. CASE Command!HandlerRefuses(c)
    BY <1>3 DEF Command!HandlerRefuses, Command!Finish
  <1>10. CASE Command!Sidestep(c)
    BY <1>10 DEF Command!Sidestep, Command!OriginStale
  <1>4. CASE Command!SendToRoom(c)
    BY <1>4 DEF Command!SendToRoom
  <1>5. CASE Command!NotSentToRoom(c)
    BY <1>5 DEF Command!NotSentToRoom, Command!Finish
  <1>6. CASE Command!RoomAnswers(c)
    BY <1>6 DEF Command!RoomAnswers, Command!Finish
  <1>7. CASE Command!RoomTooLate(c)
    BY <1>7 DEF Command!RoomTooLate, Command!Finish
  <1>8. CASE Command!JoinAnswers(c)
    BY <1>8 DEF Command!JoinAnswers, Command!Finish, Command!CloseUncertain
  <1>11. CASE Command!JoinRefused(c)
    BY <1>11 DEF Command!JoinRefused, Command!Finish, Command!CloseUncertain, Command!OriginStale
  <1>9. CASE Command!CutOff(c)
    BY <1>9 DEF Command!CutOff, Command!Finish, Command!CloseUncertain
  <1> QED BY <1>1, <1>2, <1>3, <1>4, <1>5, <1>6, <1>7, <1>8, <1>9, <1>10, <1>11 DEF Command!WorkerStep

(* The room begins nothing late, and what it is at has time. *)
LEMMA CommandRoomKeeps ==
  ASSUME CommandIInv, NEW c \in Commands, Command!RoomStep(c)
  PROVE  CommandIInv'
  <1> USE DEF CommandIInv, CommandTypes, CommandAnswered, CommandEffects, CommandFinal, Command!OkMeansDone, Command!At, Command!Kinds, Command!Deadlines, Command!Replies, Command!OfHandler, Command!LeavesTraces
  <1>1. CASE Command!RoomTakes(c)
    BY <1>1 DEF Command!RoomTakes
  <1>2. CASE Command!RoomRuns(c)
    BY <1>2 DEF Command!RoomRuns
  <1> QED BY <1>1, <1>2 DEF Command!RoomStep

(* Time, and the other connection. *)
LEMMA CommandOthersKeep ==
  ASSUME CommandIInv, (\E c \in Commands : Command!TimePasses(c)) \/ Command!Reconnect \/ Command!Replaced \/ UNCHANGED Command!vars
  PROVE  CommandIInv'
  <1> USE DEF CommandIInv, CommandTypes, CommandAnswered, CommandEffects, CommandFinal, Command!OkMeansDone, Command!At, Command!Kinds, Command!Deadlines, Command!Replies, Command!OfHandler, Command!LeavesTraces
  <1>1. ASSUME NEW c \in Commands, Command!TimePasses(c) PROVE CommandIInv'
    BY <1>1 DEF Command!TimePasses, Command!InProgress
  <1>2. CASE Command!Reconnect \/ Command!Replaced
    BY <1>2 DEF Command!Reconnect, Command!Replaced
  <1>3. CASE UNCHANGED Command!vars
    BY <1>3 DEF Command!vars
  <1> QED BY <1>1, <1>2, <1>3

(* The path begins as the argument needs it. *)
LEMMA CommandInitHolds == Command!Init => CommandIInv
  BY DEF Command!Init, CommandIInv, CommandTypes, CommandAnswered, CommandEffects,
         CommandFinal, Command!OkMeansDone, Command!Deadlines, Command!Replies, Command!OfHandler, Command!LeavesTraces

(* Every step of the path keeps the invariant. *)
LEMMA CommandNextKeeps == CommandIInv /\ [Command!Next]_(Command!vars) => CommandIInv'
  BY CommandDispatchKeeps, CommandWorkerKeeps, CommandRoomKeeps, CommandOthersKeep
     DEF Command!Next

(* What a client is told follows from the invariant. *)
LEMMA CommandInvariantTells == CommandIInv => Command!ErrorMeansNotDoneInTime /\ Command!OkMeansDone
  BY DEF CommandIInv, CommandTypes, CommandAnswered, CommandEffects, CommandFinal, Command!OkMeansDone,
         Command!ErrorMeansNotDoneInTime, Command!ErrorMeansNotDone

(* Only the actor of the room takes up a command: it begins it when it is    *)
(* neither of a replaced session nor late, and else gives up, at most, the   *)
(* player of a late score.                                                   *)
LEMMA CommandBeginsInTime ==
  ASSUME CommandIInv, Command!Next, NEW c \in Commands, room[c] = "queued", room'[c] # "queued"
  PROVE  /\ room'[c] = "running" => current /\ due[c] = "ample"
         /\ effect'[c] # effect[c] => kind[c] = "result" /\ due[c] # "ample"
  <1> USE DEF CommandIInv, CommandTypes, Command!At
  <1>1. ASSUME NEW d \in Commands, Command!RoomTakes(d)
        PROVE  /\ room'[c] = "running" => current /\ due[c] = "ample"
               /\ effect'[c] # effect[c] => kind[c] = "result" /\ due[c] # "ample"
    BY <1>1 DEF Command!RoomTakes, Command!OriginStale
  <1>2. ASSUME NEW d \in Commands, Command!SendToRoom(d) \/ Command!RoomRuns(d) PROVE FALSE
    BY <1>2 DEF Command!SendToRoom, Command!RoomRuns
  <1>3. room' # room
    OBVIOUS
  <1>4. \E d \in Commands : Command!RoomTakes(d) \/ Command!RoomRuns(d) \/ Command!SendToRoom(d)
    BY <1>3 DEF Command!Next, Command!TimePasses, Command!DispatchStep, Command!Receive,
           Command!Refuse, Command!Enqueue, Command!NotEnqueued, Command!Hear, Command!GiveUp,
           Command!Answer, Command!WorkerStep, Command!Take, Command!Chat, Command!Sidestep,
           Command!HandlerRefuses, Command!NotSentToRoom, Command!RoomAnswers,
           Command!RoomTooLate, Command!JoinAnswers, Command!JoinRefused, Command!CutOff,
           Command!RoomStep, Command!Reconnect, Command!Replaced
  <1> QED BY <1>1, <1>2, <1>4

(* A client who is told ok has got what it asked for. What one who is told   *)
(* err on a connection that stays open has asked for is not done and will    *)
(* not be, and only some kinds of commands leave a trace; unless a deadline  *)
(* passed while a room was at the command (session_actor.rs, handler.rs).    *)
THEOREM AnswersAreTrue == Command!Spec => [](Command!ErrorMeansNotDoneInTime /\ Command!OkMeansDone)
  BY CommandInitHolds, CommandNextKeeps, CommandInvariantTells, PTL DEF Command!Spec

(* Nothing of a session that was replaced, and nothing after its commit      *)
(* deadline, is begun by a room (room_actor/mailbox.rs).                     *)
THEOREM NothingStale == Command!Spec => Command!NothingStaleBegins
  <1>1. CommandIInv /\ [Command!Next]_(Command!vars) =>
           [\A c \in Commands : room[c] = "queued" /\ room'[c] # "queued" =>
                /\ room'[c] = "running" => current /\ due[c] = "ample"
                /\ effect'[c] # effect[c] => kind[c] = "result" /\ due[c] # "ample"]_(Command!vars)
    BY CommandBeginsInTime
  <1> QED BY CommandInitHolds, CommandNextKeeps, <1>1, PTL DEF Command!Spec,
                 Command!NothingStaleBegins

(* A step of the composite is one of the commands, or leaves them alone. *)
LEMMA CommandStep == [Next]_vars => [Command!Next]_(Command!vars)
  BY DEF Next, vars, OfCommands, OfGate, OfMonitors, OfPhira, OfServer, commandVars,
         Command!vars

-----------------------------------------------------------------------------
\* One authentication at a time; nobody is in service as the room monitor while
\* another is on his way to it, and whoever has been bound as it is in the slot.
MonitorsInTurn ==
    ~overlap =>
        /\ \A m, n \in Monitors : Monitor!UnderWay(m) /\ Monitor!UnderWay(n) => m = n
        /\ \A m, n \in Monitors :
              Monitor!UnderWay(m) /\ as[m] = "room" => ~Monitor!InService(n, "room")
        /\ \A m \in Monitors :
              as[m] = "room" /\ step[m] \in {"bound", "flushed"} => slot = m

MonitorSteps == {"new", "checked", "refused", "bound", "flushed", "active", "failed", "closed", "gone"}

MonitorInv ==
    /\ step \in [Monitors -> MonitorSteps]
    /\ \A m \in lost : step[m] = "closed"
    /\ lost \subseteq Monitors
    /\ MonitorsInTurn /\ Monitor!OneRoomMonitorInTurn

(* What a step does to one connection keeps the others apart. *)
LEMMA MonitorsKeep ==
  ASSUME NoOne \notin Monitors, MonitorInv, [Monitor!Next]_(Monitor!vars)
  PROVE  MonitorInv'
  <1> USE DEF MonitorInv, MonitorsInTurn, MonitorSteps, Monitor!OneRoomMonitorInTurn,
              Monitor!OneRoomMonitor, Monitor!InService, Monitor!UnderWay, Monitor!Goes
  <1>1. ASSUME NEW m \in Monitors, Monitor!Check(m) PROVE MonitorInv'
    BY <1>1, ZenonT(40) DEF Monitor!Check, Monitor!Alive
  <1>2. ASSUME NEW m \in Monitors, Monitor!Flush(m) \/ Monitor!Activate(m) PROVE MonitorInv'
    BY <1>2 DEF Monitor!Flush, Monitor!Activate
  <1>3. ASSUME NEW m \in Monitors, Monitor!BindConsole(m) \/ Monitor!BindRoom(m) \/ Monitor!BindGame(m) PROVE MonitorInv'
    BY <1>3 DEF Monitor!BindConsole, Monitor!BindRoom, Monitor!BindGame, Monitor!BindAs
  <1>4. ASSUME NEW m \in Monitors, Monitor!FailConsole(m) \/ Monitor!FailRoom(m) \/ Monitor!FailGame(m) PROVE MonitorInv'
    BY <1>4 DEF Monitor!FailConsole, Monitor!FailRoom, Monitor!FailGame, Monitor!FailAs
  <1>5. ASSUME NEW m \in Monitors, Monitor!Disconnect(m) \/ Monitor!Dangle(m) PROVE MonitorInv'
    BY <1>5, ZenonT(40) DEF Monitor!Disconnect, Monitor!Dangle
  <1>6. CASE UNCHANGED Monitor!vars
    BY <1>6 DEF Monitor!vars
  <1> QED BY <1>1, <1>2, <1>3, <1>4, <1>5, <1>6 DEF Monitor!Next

(* Nobody is under way or in service at the start. *)
LEMMA MonitorsInit == Monitor!Init => MonitorInv
  BY DEF Monitor!Init, MonitorInv, MonitorsInTurn, MonitorSteps, Monitor!OneRoomMonitorInTurn,
         Monitor!OneRoomMonitor, Monitor!InService, Monitor!UnderWay

-----------------------------------------------------------------------------
(* The commands of a connection are answered truly, in whatever order their  *)
(* deadlines, the mailbox and the room act, and nothing of a replaced        *)
(* session or after its deadline begins (session_actor.rs, mailbox.rs).      *)
THEOREM CommandAnswersHold == Spec => CommandAnswersAreTrue
  <1>1. Init => CommandIInv
    BY CommandInitHolds DEF Init
  <1>2. CommandIInv /\ [Next]_vars => CommandIInv'
    BY CommandStep, CommandNextKeeps
  <1>3. CommandIInv => Command!ErrorMeansNotDoneInTime /\ Command!OkMeansDone
    BY CommandInvariantTells
  <1>4. CommandIInv /\ [Next]_vars =>
          [\A c \in Commands : room[c] = "queued" /\ room'[c] # "queued" =>
               /\ room'[c] = "running" => current /\ due[c] = "ample"
               /\ effect'[c] # effect[c] => kind[c] = "result" /\ due[c] # "ample"]_(Command!vars)
    BY CommandStep, CommandBeginsInTime
  <1> QED BY <1>1, <1>2, <1>3, <1>4, PTL DEF Spec, CommandAnswersAreTrue,
                 Command!NothingStaleBegins

(* Whoever is in service as the room monitor is the one the server sends to, *)
(* if authentications come one after another (session.rs, room_monitor).     *)
THEOREM OneRoomMonitorHolds ==
  ASSUME NoOne \notin Monitors
  PROVE  Spec => []OneRoomMonitorInTurn
  <1>1. Init => MonitorInv
    BY MonitorsInit DEF Init
  <1>2. MonitorInv /\ [Next]_vars => MonitorInv'
    <2>1. [Next]_vars => [Monitor!Next]_(Monitor!vars)
      BY DEF Next, vars, OfCommands, OfGate, OfMonitors, OfPhira, OfServer, monitorVars,
             Monitor!vars
    <2> QED BY <2>1, MonitorsKeep
  <1>3. MonitorInv => OneRoomMonitorInTurn
    BY DEF MonitorInv, OneRoomMonitorInTurn
  <1> QED BY <1>1, <1>2, <1>3, PTL DEF Spec

-----------------------------------------------------------------------------
(* Times, numbers and the limits of the Phira client. *)
PhiraLimits ==
    /\ {MaxRetries, Timeout, BaseBackoff, MaxBackoff, Threshold, OpenFor, Budget, MaxTime} \subseteq Nat
    /\ IsFiniteSet(Calls)

PhiraCalls == [stage : {"new", "trying", "sent", "resting", "tripping", "done"}, attempt : Nat,
               deadline : Nat, at : Nat, asked : Nat]

PhiraTypes ==
    /\ Phira!Policy /\ Phira!BreakerPolicy
    /\ phiraOverlaps \in BOOLEAN
    /\ now \in 1..(MaxTime + 1)
    /\ call \in [Calls -> PhiraCalls]
    /\ failures \in Nat /\ openUntil \in Nat
    /\ tally \in [requests : Nat, successes : Nat, failures : Nat, dropped : Nat]

\* When a call may begin its attempt a: after that many requests and pauses.
PhiraBegins(x, a) == x.asked + a * (Timeout + MaxBackoff)

\* What the record of a call says of the time.  A request and a pause end by
\* the time they are due, and no request begins after the deadline.
PhiraInTime(x) ==
    /\ x.attempt <= MaxRetries
    /\ x.stage = "trying" => now <= x.deadline + Timeout /\ now <= PhiraBegins(x, x.attempt)
    /\ x.stage = "sent" => /\ now <= x.at + Timeout /\ x.at < x.deadline
                           /\ x.at <= PhiraBegins(x, x.attempt)
    /\ x.stage = "resting" => /\ now <= x.at /\ x.at <= x.deadline + Timeout
                              /\ x.attempt < MaxRetries /\ x.at <= PhiraBegins(x, x.attempt + 1)
    /\ x.stage = "tripping" => now <= x.deadline + Timeout
                               /\ now <= PhiraBegins(x, x.attempt) + Timeout

\* Calls that do not overlap: the breaker let the one under way in, and nobody
\* has touched it since.
PhiraAlone ==
    ~phiraOverlaps => /\ \A c, d \in Calls : Phira!UnderWay(c) /\ Phira!UnderWay(d) => c = d
                      /\ \A c \in Calls : Phira!UnderWay(c) => openUntil <= now

PhiraCounted ==
    tally.requests = tally.successes + tally.failures + tally.dropped
                     + Cardinality({c \in Calls : Phira!UnderWay(c)})

PhiraInv ==
    PhiraTypes /\ (\A c \in Calls : PhiraInTime(call[c])) /\ PhiraAlone /\ PhiraCounted

-----------------------------------------------------------------------------
LEMMA PhiraProducts ==
  ASSUME NEW a \in Nat, NEW b \in Nat, NEW d \in Nat
  PROVE  a * d \in Nat /\ (a + 1) * d = a * d + d /\ (a <= b => a * d <= b * d)
  <1>1. a * d \in Nat /\ (a + 1) * d = a * d + d
    OBVIOUS
  <1>2. ASSUME a <= b PROVE a * d <= b * d
    <2>1. PICK e \in Nat : b = a + e
      BY <1>2, b - a \in Nat
    <2>2. b * d = a * d + e * d /\ e * d \in Nat
      BY <2>1
    <2> QED BY <1>1, <2>2
  <1> QED BY <1>1, <1>2

(* The times at which attempts may begin. *)
LEMMA PhiraTimes ==
  ASSUME PhiraLimits, NEW x \in PhiraCalls, NEW a \in Nat
  PROVE  /\ PhiraBegins(x, 0) = x.asked
         /\ PhiraBegins(x, a) \in Nat
         /\ PhiraBegins(x, a + 1) = PhiraBegins(x, a) + Timeout + MaxBackoff
         /\ a <= MaxRetries => PhiraBegins(x, a) + Timeout
                                 <= x.asked + (MaxRetries + 1) * Timeout + MaxRetries * MaxBackoff
  <1> DEFINE D == Timeout + MaxBackoff
  <1>1. x.asked \in Nat /\ D \in Nat /\ MaxRetries \in Nat /\ Timeout \in Nat /\ MaxBackoff \in Nat
    BY DEF PhiraLimits, PhiraCalls
  <1>2. MaxRetries * D \in Nat /\ a * D \in Nat /\ (a + 1) * D = a * D + D
    <2> HIDE DEF D
    <2> QED BY <1>1, PhiraProducts
  <1>3. a <= MaxRetries => a * D <= MaxRetries * D
    <2> HIDE DEF D
    <2> QED BY <1>1, PhiraProducts
  <1>4. MaxRetries * D + Timeout = (MaxRetries + 1) * Timeout + MaxRetries * MaxBackoff
    BY <1>1
  <1>5. 0 * D = 0
    BY <1>1
  <1>6. /\ MaxRetries * Timeout \in Nat /\ MaxRetries * MaxBackoff \in Nat
        /\ (MaxRetries + 1) * Timeout \in Nat
    BY <1>1, PhiraProducts
  <1>7. \A k : PhiraBegins(x, k) = x.asked + k * D
    BY DEF PhiraBegins
  <1> HIDE DEF D
  <1>8. D = Timeout + MaxBackoff
    BY DEF D
  <1> QED
    <2> DEFINE P == (MaxRetries + 1) * Timeout
               Q == MaxRetries * MaxBackoff
               R == MaxRetries * D
               A == a * D
               B == (a + 1) * D
    <2>1. P \in Nat /\ Q \in Nat /\ R \in Nat /\ A \in Nat /\ B = A + D /\ R + Timeout = P + Q
      BY <1>2, <1>4, <1>6
    <2>2. /\ PhiraBegins(x, 0) = x.asked + 0 /\ PhiraBegins(x, a) = x.asked + A
          /\ PhiraBegins(x, a + 1) = x.asked + B
      BY <1>5, <1>7
    <2>3. a <= MaxRetries => A <= R
      BY <1>3
    <2> HIDE DEF P, Q, R, A, B
    <2>4. a <= MaxRetries => x.asked + A + Timeout <= x.asked + P + Q
      BY <1>1, <2>1, <2>3
    <2>5. x.asked + B = x.asked + A + Timeout + MaxBackoff /\ x.asked + A \in Nat
      BY <1>1, <1>8, <2>1
    <2> QED BY <1>1, <2>2, <2>4, <2>5 DEF P, Q

-----------------------------------------------------------------------------
PhiraBusy(x) == x.stage \notin {"new", "done"}

(* The number of calls under way, when one of them changes. *)
LEMMA PhiraCount ==
  ASSUME PhiraLimits, PhiraTypes, NEW c \in Calls, NEW y \in PhiraCalls,
         call' = [call EXCEPT ![c] = y]
  PROVE  LET S == {d \in Calls : Phira!UnderWay(d)}
         IN  /\ Cardinality(S) \in Nat
             /\ c \in S <=> PhiraBusy(call[c])
             /\ Cardinality(S') = IF PhiraBusy(y)
                                  THEN IF c \in S THEN Cardinality(S) ELSE Cardinality(S) + 1
                                  ELSE IF c \in S THEN Cardinality(S) - 1 ELSE Cardinality(S)
  <1> DEFINE S == {d \in Calls : Phira!UnderWay(d)}
  <1>1. IsFiniteSet(S)
    BY FS_Subset DEF PhiraLimits
  <1>2. c \in S <=> PhiraBusy(call[c])
    BY DEF Phira!UnderWay, PhiraBusy
  <1>3. S' = IF PhiraBusy(y) THEN S \cup {c} ELSE S \ {c}
    BY DEF Phira!UnderWay, PhiraBusy, PhiraTypes
  <1>4. Cardinality(S) \in Nat
    BY <1>1, FS_CardinalityType
  <1> HIDE DEF S
  <1>5. /\ Cardinality(S \cup {c}) = IF c \in S THEN Cardinality(S) ELSE Cardinality(S) + 1
        /\ Cardinality(S \ {c}) = IF c \in S THEN Cardinality(S) - 1 ELSE Cardinality(S)
    BY <1>1, FS_AddElement, FS_RemoveElement
  <1>6. Cardinality(S') = IF PhiraBusy(y)
                          THEN IF c \in S THEN Cardinality(S) ELSE Cardinality(S) + 1
                          ELSE IF c \in S THEN Cardinality(S) - 1 ELSE Cardinality(S)
    BY <1>3, <1>5
  <1> QED BY <1>2, <1>4, <1>6 DEF S

\* A step of a call, at one moment of time.
PhiraMoves(c, y) ==
    /\ call' = [call EXCEPT ![c] = y] /\ now' = now /\ phiraOverlaps' = phiraOverlaps
    /\ call[c].stage # "done" /\ y.stage # "new"
    /\ failures' \in Nat

\* It touches the breaker only as its last one, and begins alone, let in by it.
PhiraAdmitted(c, y) ==
    /\ openUntil' \in Nat
    /\ openUntil' = openUntil \/ (PhiraBusy(call[c]) /\ ~PhiraBusy(y))
    /\ PhiraBusy(y) /\ ~PhiraBusy(call[c]) =>
           openUntil <= now /\ (phiraOverlaps \/ \A d \in Calls : ~Phira!UnderWay(d))

\* The counters follow it.
PhiraTallied(c, y) ==
    /\ tally' \in [requests : Nat, successes : Nat, failures : Nat, dropped : Nat]
    /\ tally'.requests = tally.requests + (IF call[c].stage = "new" THEN 1 ELSE 0)
    /\ tally'.successes + tally'.failures + tally'.dropped
           = tally.successes + tally.failures + tally.dropped + (IF y.stage = "done" THEN 1 ELSE 0)

(* A step that keeps to this keeps the invariant. *)
LEMMA PhiraKeeps ==
  ASSUME PhiraLimits, PhiraInv, NEW c \in Calls, NEW y \in PhiraCalls, PhiraInTime(y),
         PhiraMoves(c, y), PhiraAdmitted(c, y), PhiraTallied(c, y)
  PROVE  PhiraInv'
  <1> DEFINE S == {d \in Calls : Phira!UnderWay(d)}
  <1>1. PhiraTypes /\ PhiraTypes'
    BY DEF PhiraInv, PhiraTypes, PhiraMoves, PhiraAdmitted, PhiraTallied, Phira!Policy,
           Phira!BreakerPolicy
  <1>2. \A d \in Calls : call'[d] = IF d = c THEN y ELSE call[d]
    BY <1>1 DEF PhiraTypes, PhiraMoves
  <1>3. ASSUME NEW d \in Calls PROVE PhiraInTime(call[d])'
    <2>1. CASE d = c
      BY <1>2, <2>1 DEF PhiraInTime, PhiraBegins, PhiraMoves
    <2>2. CASE d # c
      BY <1>2, <2>2 DEF PhiraInv, PhiraInTime, PhiraBegins, PhiraMoves
    <2> QED BY <2>1, <2>2
  <1>4. PhiraAlone'
    BY <1>2 DEF PhiraInv, PhiraAlone, Phira!UnderWay, PhiraBusy, PhiraMoves, PhiraAdmitted
  <1>5. PhiraCounted'
    <2>1. /\ Cardinality(S) \in Nat /\ (c \in S <=> PhiraBusy(call[c]))
          /\ Cardinality(S') = IF PhiraBusy(y)
                               THEN IF c \in S THEN Cardinality(S) ELSE Cardinality(S) + 1
                               ELSE IF c \in S THEN Cardinality(S) - 1 ELSE Cardinality(S)
      BY <1>1, PhiraCount DEF PhiraMoves
    <2>2. tally.requests = tally.successes + tally.failures + tally.dropped + Cardinality(S)
      BY DEF PhiraInv, PhiraCounted
    <2>3. call[c].stage = "new" \/ PhiraBusy(call[c])
      BY <1>1 DEF PhiraTypes, PhiraBusy, PhiraCalls, PhiraMoves
    <2>4. y.stage = "done" \/ PhiraBusy(y)
      BY DEF PhiraBusy, PhiraMoves
    <2>5. PhiraBusy(call[c]) => call[c].stage # "new"
      BY DEF PhiraBusy
    <2>6. PhiraBusy(y) => y.stage # "done"
      BY DEF PhiraBusy
    <2>7. /\ tally.requests \in Nat /\ tally.successes \in Nat /\ tally.failures \in Nat
          /\ tally'.requests \in Nat /\ tally'.successes \in Nat /\ tally'.failures \in Nat
          /\ tally.dropped \in Nat /\ tally'.dropped \in Nat
      BY <1>1 DEF PhiraTypes
    <2>9. PhiraTallied(c, y)
      OBVIOUS
    <2>8. tally'.requests = tally'.successes + tally'.failures + tally'.dropped + Cardinality(S')
      <3> HIDE DEF S
      <3> QED BY ONLY <2>1, <2>2, <2>3, <2>4, <2>5, <2>6, <2>7, <2>9 DEF PhiraTallied
    <2> QED BY <2>8 DEF PhiraCounted
  <1> QED BY <1>1, <1>3, <1>4, <1>5 DEF PhiraInv

-----------------------------------------------------------------------------
LEMMA PhiraInit == ASSUME PhiraLimits PROVE Phira!Init => PhiraInv
  <1> SUFFICES ASSUME Phira!Init PROVE PhiraInv OBVIOUS
  <1>1. PhiraTypes
    BY DEF Phira!Init, PhiraTypes, PhiraLimits, PhiraCalls, Phira!Call, Phira!None,
           Phira!Counters
  <1>2. \A c \in Calls : call[c].stage = "new" /\ call[c].attempt = 0
    BY DEF Phira!Init, Phira!Call
  <1>3. {c \in Calls : Phira!UnderWay(c)} = {}
    BY <1>2 DEF Phira!UnderWay
  <1>4. PhiraCounted
    BY <1>3, FS_EmptySet DEF Phira!Init, Phira!Counters, PhiraCounted
  <1> QED BY <1>1, <1>2, <1>4 DEF PhiraInv, PhiraInTime, PhiraAlone, Phira!UnderWay, PhiraLimits

(* A call that ends keeps nothing of its times. *)
LEMMA PhiraDone ==
  ASSUME PhiraLimits
  PROVE  /\ Phira!Call("done") \in PhiraCalls /\ PhiraInTime(Phira!Call("done"))
         /\ Phira!Call("done").stage = "done" /\ ~PhiraBusy(Phira!Call("done"))
  BY DEF PhiraLimits, PhiraCalls, Phira!Call, Phira!None, PhiraInTime, PhiraBusy

LEMMA PhiraAskKeeps ==
  ASSUME PhiraLimits, PhiraInv, NEW c \in Calls, NEW deadline \in {Phira!None, now + Budget},
         Phira!Ask(c, deadline)
  PROVE  PhiraInv'
  <1> USE DEF PhiraCalls
  <1>1. PhiraTypes
    BY DEF PhiraInv
  <1>2. deadline \in Nat /\ now <= deadline /\ now \in Nat
    BY <1>1 DEF PhiraTypes, PhiraLimits, Phira!None
  <1>3. CASE Phira!Admits
    <2> DEFINE y == [call[c] EXCEPT !.stage = "trying", !.deadline = deadline, !.asked = now]
    <2>1. y \in PhiraCalls /\ y.stage = "trying" /\ y.attempt = call[c].attempt
          /\ y.deadline = deadline /\ y.asked = now
      BY <1>1, <1>2 DEF PhiraTypes
    <2>2. PhiraBegins(y, y.attempt) \in Nat /\ y.asked <= PhiraBegins(y, y.attempt)
      <3> HIDE DEF y
      <3>1. y.attempt \in Nat /\ y.asked \in Nat
        BY <2>1
      <3>2. y.attempt * (Timeout + MaxBackoff) \in Nat
        BY <3>1, PhiraProducts DEF PhiraLimits
      <3> QED BY <3>1, <3>2 DEF PhiraBegins
    <2>3. y.attempt <= MaxRetries
      BY <2>1 DEF PhiraInv, PhiraInTime
    <2>4. call' = [call EXCEPT ![c] = y] /\ call[c].stage = "new"
      BY <1>3, <1>1 DEF Phira!Ask, PhiraTypes
    <2> HIDE DEF y
    <2>5. PhiraInTime(y)
      BY <1>2, <2>1, <2>2, <2>3 DEF PhiraInTime, PhiraLimits
    <2>moves. PhiraMoves(c, y)
      BY <1>1, <1>3, <2>1, <2>4 DEF PhiraMoves, Phira!Ask, Phira!breaker, Phira!Admits,
             Phira!Allowed, PhiraTypes, PhiraBusy
    <2>counts. tally' = [tally EXCEPT !.requests = @ + 1]
      BY <1>1, <1>3 DEF Phira!Ask, PhiraTypes
    <2>admitted. PhiraAdmitted(c, y)
      BY <1>1, <1>3, <2>1, <2>4 DEF PhiraAdmitted, Phira!Ask, Phira!breaker, Phira!Admits,
             Phira!Allowed, PhiraTypes, PhiraBusy
    <2>tallied. PhiraTallied(c, y)
      BY <1>1, <2>1, <2>4, <2>counts DEF PhiraTallied, PhiraTypes
    <2> QED BY ONLY PhiraLimits, PhiraInv, c \in Calls, <2>1, <2>5, <2>moves, <2>admitted,
               <2>tallied, PhiraKeeps
  <1>4. CASE ~Phira!Admits
    <2>moves. PhiraMoves(c, Phira!Call("done"))
      BY <1>1, <1>4, PhiraDone DEF PhiraMoves, Phira!Ask, Phira!breaker, Phira!Ends, PhiraTypes,
             PhiraBusy
    <2>admitted. PhiraAdmitted(c, Phira!Call("done"))
      BY <1>1, <1>4, PhiraDone DEF PhiraAdmitted, Phira!Ask, Phira!breaker, Phira!Ends,
             PhiraTypes, PhiraBusy
    <2>counts. tally' = [tally EXCEPT !.requests = @ + 1, !.failures = @ + 1] /\ call[c].stage = "new"
      BY <1>4 DEF Phira!Ask
    <2>tallied. PhiraTallied(c, Phira!Call("done"))
      <3>1. /\ tally' \in [requests : Nat, successes : Nat, failures : Nat, dropped : Nat]
            /\ tally'.requests = tally.requests + 1 /\ tally'.successes = tally.successes
            /\ tally'.failures = tally.failures + 1 /\ tally'.dropped = tally.dropped
        <4> DEFINE t == [tally EXCEPT !.requests = tally.requests + 1]
        <4>1. /\ t \in [requests : Nat, successes : Nat, failures : Nat, dropped : Nat]
              /\ t.requests = tally.requests + 1 /\ t.successes = tally.successes
              /\ t.failures = tally.failures /\ t.dropped = tally.dropped
          BY <1>1 DEF PhiraTypes
        <4>2. tally' = [t EXCEPT !.failures = tally.failures + 1]
          BY <1>1, <2>counts DEF PhiraTypes
        <4>3. tally.failures + 1 \in Nat
          BY <1>1 DEF PhiraTypes
        <4> HIDE DEF t
        <4> QED BY <4>1, <4>2, <4>3
      <3>2. tally.successes \in Nat /\ tally.failures \in Nat /\ tally.dropped \in Nat
        BY <1>1 DEF PhiraTypes
      <3> QED BY <2>counts, <3>1, <3>2, PhiraDone DEF PhiraTallied
    <2> QED BY <2>moves, <2>admitted, <2>tallied, PhiraDone, PhiraKeeps
  <1> QED BY <1>3, <1>4

LEMMA PhiraTryKeeps ==
  ASSUME PhiraLimits, PhiraInv, NEW c \in Calls, Phira!Try(c)
  PROVE  PhiraInv'
  <1>1. PhiraTypes /\ call[c].stage = "trying" /\ call[c] \in PhiraCalls /\ now \in Nat
    BY DEF PhiraInv, PhiraTypes, PhiraLimits, Phira!Try
  <1>2. CASE Phira!Elapsed(c)
    <2>moves. PhiraMoves(c, Phira!Call("done"))
      BY <1>1, <1>2, PhiraDone DEF PhiraMoves, Phira!Try, Phira!breaker, Phira!Ends,
             Phira!Fails, PhiraTypes, PhiraBusy
    <2>admitted. PhiraAdmitted(c, Phira!Call("done"))
      BY <1>1, <1>2, PhiraDone DEF PhiraAdmitted, Phira!Try, Phira!breaker, Phira!Ends,
             Phira!Fails, PhiraTypes, PhiraBusy
    <2>tallied. PhiraTallied(c, Phira!Call("done"))
      BY <1>1, <1>2, PhiraDone DEF PhiraTallied, Phira!Try, Phira!breaker, Phira!Ends,
             Phira!Fails, PhiraTypes, PhiraBusy
    <2> QED BY <2>moves, <2>admitted, <2>tallied, PhiraDone, PhiraKeeps
  <1>3. CASE ~Phira!Elapsed(c)
    <2> DEFINE y == [call[c] EXCEPT !.stage = "sent", !.at = now]
    <2>1. /\ y \in PhiraCalls /\ y.stage = "sent" /\ y.at = now /\ y.attempt = call[c].attempt
          /\ y.deadline = call[c].deadline /\ y.asked = call[c].asked
      BY <1>1 DEF PhiraTypes, PhiraCalls, PhiraLimits
    <2>2. PhiraInTime(call[c])
      BY DEF PhiraInv
    <2>3. call' = [call EXCEPT ![c] = y]
      BY <1>3 DEF Phira!Try
    <2> HIDE DEF y
    <2>4. PhiraInTime(y)
      BY <1>1, <1>3, <2>1, <2>2 DEF PhiraInTime, PhiraBegins, Phira!Elapsed, PhiraTypes,
             PhiraLimits, PhiraCalls
    <2>moves. PhiraMoves(c, y)
      BY <1>1, <1>3, <2>1, <2>3 DEF PhiraMoves, Phira!Try, Phira!breaker, PhiraTypes, PhiraBusy
    <2>admitted. PhiraAdmitted(c, y)
      BY <1>1, <1>3, <2>1, <2>3 DEF PhiraAdmitted, Phira!Try, Phira!breaker, PhiraTypes,
             PhiraBusy
    <2>tallied. PhiraTallied(c, y)
      BY <1>1, <1>3, <2>1, <2>3 DEF PhiraTallied, Phira!Try, Phira!breaker, PhiraTypes,
             PhiraBusy
    <2> QED BY <2>1, <2>4, <2>moves, <2>admitted, <2>tallied, PhiraKeeps
  <1> QED BY <1>2, <1>3

LEMMA PhiraRetryKeeps ==
  ASSUME PhiraLimits, PhiraInv, NEW c \in Calls, Phira!Retry(c)
  PROVE  PhiraInv'
  <1>1. PhiraTypes /\ call[c].stage = "sent" /\ call[c] \in PhiraCalls /\ call[c].attempt < MaxRetries
    BY DEF PhiraInv, PhiraTypes, Phira!Retry
  <1>2. PhiraInTime(call[c])
    BY DEF PhiraInv
  <1> DEFINE pause == Phira!Backoff(c)
             y == [call[c] EXCEPT !.stage = "resting", !.at = pause]
  <1>3. /\ pause \in Nat /\ now <= pause /\ pause <= now + MaxBackoff
        /\ pause <= call[c].deadline \/ pause = now
    <2> DEFINE delay == BaseBackoff * (call[c].attempt + 1)
    <2>1. delay \in Nat
      BY <1>1, PhiraProducts DEF PhiraLimits, PhiraCalls
    <2>2. pause = now + (IF call[c].deadline <= now THEN 0
                         ELSE Phira!Smaller(Phira!Smaller(delay, MaxBackoff), call[c].deadline - now))
      BY DEF Phira!Backoff
    <2>3. now \in Nat /\ MaxBackoff \in Nat /\ call[c].deadline \in Nat
      BY <1>1 DEF PhiraTypes, PhiraLimits, PhiraCalls
    <2> HIDE DEF delay, pause
    <2> QED BY <2>1, <2>2, <2>3 DEF Phira!Smaller
  <1>4. /\ y \in PhiraCalls /\ y.stage = "resting" /\ y.at = pause /\ y.attempt = call[c].attempt
        /\ y.deadline = call[c].deadline /\ y.asked = call[c].asked
    BY <1>1, <1>3 DEF PhiraCalls
  <1>5. call' = [call EXCEPT ![c] = y]
    BY DEF Phira!Retry
  <1>6. /\ PhiraBegins(y, y.attempt) \in Nat
        /\ PhiraBegins(y, y.attempt + 1) = PhiraBegins(y, y.attempt) + Timeout + MaxBackoff
    <2>1. y.attempt \in Nat
      BY <1>4 DEF PhiraCalls
    <2> HIDE DEF y
    <2> QED BY <1>4, <2>1, PhiraTimes
  <1> HIDE DEF y, pause
  <1>7. PhiraInTime(y)
    BY <1>1, <1>2, <1>3, <1>4, <1>6 DEF PhiraInTime, PhiraBegins, PhiraTypes, PhiraLimits,
           PhiraCalls
  <1>moves. PhiraMoves(c, y)
    BY <1>1, <1>4, <1>5 DEF PhiraMoves, Phira!Retry, Phira!breaker, PhiraTypes, PhiraBusy
  <1>admitted. PhiraAdmitted(c, y)
    BY <1>1, <1>4, <1>5 DEF PhiraAdmitted, Phira!Retry, Phira!breaker, PhiraTypes, PhiraBusy
  <1>tallied. PhiraTallied(c, y)
    BY <1>1, <1>4, <1>5 DEF PhiraTallied, Phira!Retry, Phira!breaker, PhiraTypes, PhiraBusy
  <1> QED BY <1>4, <1>7, <1>moves, <1>admitted, <1>tallied, PhiraKeeps

LEMMA PhiraWakeKeeps ==
  ASSUME PhiraLimits, PhiraInv, NEW c \in Calls, Phira!Wake(c)
  PROVE  PhiraInv'
  <1>1. PhiraTypes /\ call[c].stage = "resting" /\ call[c] \in PhiraCalls
    BY DEF PhiraInv, PhiraTypes, Phira!Wake
  <1>2. PhiraInTime(call[c]) /\ call[c].attempt \in Nat /\ call[c].attempt + 1 \in Nat
    BY <1>1 DEF PhiraInv, PhiraCalls
  <1> DEFINE y == [call[c] EXCEPT !.stage = "trying", !.attempt = call[c].attempt + 1]
  <1>3. /\ y \in PhiraCalls /\ y.stage = "trying" /\ y.attempt = call[c].attempt + 1
        /\ y.deadline = call[c].deadline /\ y.asked = call[c].asked
    BY <1>1, <1>2 DEF PhiraCalls
  <1>4. call' = [call EXCEPT ![c] = y]
    BY <1>1, <1>2 DEF Phira!Wake, PhiraCalls, PhiraTypes
  <1>5. PhiraBegins(y, y.attempt) = PhiraBegins(call[c], call[c].attempt + 1)
    BY <1>3 DEF PhiraBegins
  <1>6. PhiraBegins(call[c], call[c].attempt + 1) \in Nat
    BY <1>1, PhiraTimes DEF PhiraCalls
  <1> HIDE DEF y
  <1>7. PhiraInTime(y)
    BY <1>1, <1>2, <1>3, <1>5, <1>6 DEF PhiraInTime, PhiraTypes, PhiraLimits, PhiraCalls
  <1>moves. PhiraMoves(c, y)
    BY <1>1, <1>3, <1>4 DEF PhiraMoves, Phira!Wake, Phira!breaker, PhiraTypes, PhiraBusy
  <1>admitted. PhiraAdmitted(c, y)
    BY <1>1, <1>3, <1>4 DEF PhiraAdmitted, Phira!Wake, Phira!breaker, PhiraTypes, PhiraBusy
  <1>tallied. PhiraTallied(c, y)
    BY <1>1, <1>3, <1>4 DEF PhiraTallied, Phira!Wake, Phira!breaker, PhiraTypes, PhiraBusy
  <1> QED BY <1>3, <1>7, <1>moves, <1>admitted, <1>tallied, PhiraKeeps

LEMMA PhiraFailKeeps ==
  ASSUME PhiraLimits, PhiraInv, NEW c \in Calls, Phira!Fail(c)
  PROVE  PhiraInv'
  <1>1. PhiraTypes /\ call[c].stage = "sent" /\ call[c] \in PhiraCalls
    BY DEF PhiraInv, PhiraTypes, Phira!Fail
  <1>2. PhiraInTime(call[c])
    BY DEF PhiraInv
  <1> DEFINE probe == openUntil > 0 /\ openUntil <= now
             y == [call[c] EXCEPT !.stage = "tripping", !.at = now + OpenFor]
  <1>3. failures' \in Nat
    BY <1>1 DEF Phira!Fail, PhiraTypes
  <1>4. CASE probe \/ failures + 1 >= Threshold
    <2>1. /\ y \in PhiraCalls /\ y.stage = "tripping" /\ y.attempt = call[c].attempt
          /\ y.deadline = call[c].deadline /\ y.asked = call[c].asked
      <3>1. now + OpenFor \in Nat
        BY <1>1 DEF PhiraTypes, PhiraLimits
      <3> QED BY <1>1, <3>1 DEF PhiraCalls
    <2>2. call' = [call EXCEPT ![c] = y]
      BY <1>4 DEF Phira!Fail
    <2>3. PhiraBegins(y, y.attempt) = PhiraBegins(call[c], call[c].attempt)
      BY <2>1 DEF PhiraBegins
    <2>4. PhiraBegins(call[c], call[c].attempt) \in Nat
      BY <1>1, PhiraTimes DEF PhiraCalls
    <2> HIDE DEF y
    <2>5. PhiraInTime(y)
      BY <1>1, <1>2, <2>1, <2>3, <2>4 DEF PhiraInTime, PhiraTypes, PhiraLimits, PhiraCalls
    <2>6. /\ now' = now /\ phiraOverlaps' = phiraOverlaps /\ openUntil' = openUntil
          /\ tally' = tally
      BY <1>4 DEF Phira!Fail
    <2>moves. PhiraMoves(c, y)
      BY <1>1, <1>3, <2>1, <2>2, <2>6 DEF PhiraMoves, PhiraTypes, PhiraBusy
    <2>admitted. PhiraAdmitted(c, y)
      BY <1>1, <1>3, <2>1, <2>2, <2>6 DEF PhiraAdmitted, PhiraTypes, PhiraBusy
    <2>tallied. PhiraTallied(c, y)
      BY <1>1, <1>3, <2>1, <2>2, <2>6 DEF PhiraTallied, PhiraTypes, PhiraBusy
    <2> QED BY <2>1, <2>5, <2>moves, <2>admitted, <2>tallied, PhiraKeeps
  <1>5. CASE ~(probe \/ failures + 1 >= Threshold)
    <2>1. /\ now' = now /\ phiraOverlaps' = phiraOverlaps /\ openUntil' = openUntil
          /\ Phira!Ends(c) /\ Phira!Fails
      BY <1>5 DEF Phira!Fail
    <2>moves. PhiraMoves(c, Phira!Call("done"))
      BY <1>1, <1>3, <2>1, PhiraDone DEF PhiraMoves, Phira!Ends, Phira!Fails, PhiraTypes,
             PhiraBusy
    <2>admitted. PhiraAdmitted(c, Phira!Call("done"))
      BY <1>1, <1>3, <2>1, PhiraDone DEF PhiraAdmitted, Phira!Ends, Phira!Fails, PhiraTypes,
             PhiraBusy
    <2>tallied. PhiraTallied(c, Phira!Call("done"))
      BY <1>1, <1>3, <2>1, PhiraDone DEF PhiraTallied, Phira!Ends, Phira!Fails, PhiraTypes,
             PhiraBusy
    <2> QED BY <2>moves, <2>admitted, <2>tallied, PhiraDone, PhiraKeeps
  <1> QED BY <1>4, <1>5

LEMMA PhiraEndKeeps ==
  ASSUME PhiraLimits, PhiraInv, NEW c \in Calls,
         Phira!Succeed(c) \/ Phira!Refuse(c) \/ Phira!Trip(c) \/ Phira!Dropped(c)
  PROVE  PhiraInv'
  <1>1. PhiraTypes /\ PhiraBusy(call[c]) /\ call[c] \in PhiraCalls /\ call[c].stage # "new" /\ call[c].stage # "done"
    BY DEF PhiraInv, PhiraTypes, Phira!Succeed, Phira!Refuse, Phira!Trip, Phira!Dropped, PhiraBusy
  <1>2. /\ call' = [call EXCEPT ![c] = Phira!Call("done")] /\ now' = now /\ phiraOverlaps' = phiraOverlaps
        /\ failures' \in Nat /\ openUntil' \in Nat
    BY <1>1 DEF Phira!Succeed, Phira!Refuse, Phira!Trip, Phira!Dropped, Phira!Ends,
                Phira!breaker, PhiraTypes, PhiraCalls
  <1>3. /\ tally' \in [requests : Nat, successes : Nat, failures : Nat, dropped : Nat]
        /\ tally'.requests = tally.requests
        /\ tally'.successes + tally'.failures + tally'.dropped
               = tally.successes + tally.failures + tally.dropped + 1
    <2>1. CASE Phira!Succeed(c)
      BY <1>1, <2>1 DEF Phira!Succeed, PhiraTypes
    <2>2. CASE Phira!Refuse(c) \/ Phira!Trip(c)
      BY <1>1, <2>2 DEF Phira!Refuse, Phira!Trip, Phira!Fails, PhiraTypes
    <2>3. CASE Phira!Dropped(c)
      BY <1>1, <2>3 DEF Phira!Dropped, PhiraTypes
    <2> QED BY <2>1, <2>2, <2>3
  <1>4. tally.requests \in Nat
    BY <1>1 DEF PhiraTypes
  <1>moves. PhiraMoves(c, Phira!Call("done"))
    BY <1>1, <1>2, <1>3, <1>4, PhiraDone DEF PhiraMoves, PhiraTypes
  <1>admitted. PhiraAdmitted(c, Phira!Call("done"))
    BY <1>1, <1>2, <1>3, <1>4, PhiraDone DEF PhiraAdmitted, PhiraTypes
  <1>tallied. PhiraTallied(c, Phira!Call("done"))
    BY <1>1, <1>2, <1>3, <1>4, PhiraDone DEF PhiraTallied, PhiraTypes
  <1> QED BY <1>moves, <1>admitted, <1>tallied, PhiraDone, PhiraKeeps

(* Time goes on only while every call may wait. *)
LEMMA PhiraTickKeeps ==
  ASSUME PhiraLimits, PhiraInv, Phira!Tick
  PROVE  PhiraInv'
  <1>1. PhiraTypes /\ PhiraTypes' /\ now' = now + 1 /\ call' = call
    BY DEF PhiraInv, PhiraTypes, Phira!Tick, Phira!breaker, PhiraLimits, Phira!Policy,
           Phira!BreakerPolicy
  <1>2. ASSUME NEW c \in Calls PROVE PhiraInTime(call[c])'
    <2>1. PhiraInTime(call[c]) /\ Phira!Waits(c) /\ call[c] \in PhiraCalls
      BY <1>1 DEF PhiraInv, Phira!Tick, PhiraTypes
    <2> QED BY <1>1, <2>1 DEF PhiraInTime, PhiraBegins, Phira!Waits, PhiraTypes, PhiraLimits,
                   PhiraCalls
  <1>3. PhiraAlone'
    BY <1>1 DEF PhiraInv, PhiraAlone, PhiraTypes, Phira!UnderWay, Phira!Tick, Phira!breaker
  <1>4. PhiraCounted'
    BY DEF PhiraInv, PhiraCounted, Phira!UnderWay, Phira!Tick
  <1> QED BY <1>1, <1>2, <1>3, <1>4 DEF PhiraInv

LEMMA PhiraNextKeeps ==
  ASSUME PhiraLimits, PhiraInv, [Phira!Next]_(Phira!vars)
  PROVE  PhiraInv'
  <1>1. CASE UNCHANGED Phira!vars
    BY <1>1 DEF Phira!vars, PhiraInv, PhiraTypes, PhiraInTime, PhiraBegins, PhiraAlone,
           PhiraCounted, Phira!UnderWay, Phira!Policy, Phira!BreakerPolicy
  <1> QED
    BY <1>1, PhiraAskKeeps, PhiraTryKeeps, PhiraRetryKeeps, PhiraWakeKeeps, PhiraFailKeeps,
       PhiraEndKeeps, PhiraTickKeeps DEF Phira!Next

(* The bounds that a caller counts on, of a call that is under way. *)
LEMMA PhiraInvTells ==
  ASSUME PhiraLimits, PhiraInv
  PROVE  Phira!AtMostOneRequestOver
  <1> SUFFICES ASSUME NEW c \in Calls, Phira!UnderWay(c)
               PROVE  /\ now <= call[c].deadline + Timeout
                      /\ now <= call[c].asked + (MaxRetries + 1) * Timeout + MaxRetries * MaxBackoff
    BY DEF Phira!AtMostOneRequestOver
  <1> DEFINE x == call[c]
             limit == x.asked + (MaxRetries + 1) * Timeout + MaxRetries * MaxBackoff
  <1>1. PhiraInTime(x) /\ x \in PhiraCalls /\ now \in Nat /\ x.stage \notin {"new", "done"}
    BY DEF PhiraInv, PhiraTypes, Phira!UnderWay, PhiraLimits
  <1>2. x.attempt \in Nat /\ x.attempt + 1 \in Nat /\ x.at \in Nat /\ x.deadline \in Nat
        /\ Timeout \in Nat /\ MaxBackoff \in Nat /\ MaxRetries \in Nat
    BY <1>1 DEF PhiraCalls, PhiraLimits
  <1> HIDE DEF x
  <1>3. /\ PhiraBegins(x, x.attempt) \in Nat
        /\ x.attempt <= MaxRetries => PhiraBegins(x, x.attempt) + Timeout <= limit
    BY <1>1, <1>2, PhiraTimes
  <1>4. /\ PhiraBegins(x, x.attempt + 1) \in Nat
        /\ x.attempt + 1 <= MaxRetries => PhiraBegins(x, x.attempt + 1) + Timeout <= limit
    BY <1>1, <1>2, PhiraTimes
  <1>5. limit \in Nat
    <2>1. (MaxRetries + 1) * Timeout \in Nat /\ MaxRetries * MaxBackoff \in Nat /\ x.asked \in Nat
      BY <1>1, <1>2, PhiraProducts DEF PhiraCalls
    <2> QED BY <2>1
  <1> HIDE DEF limit
  <1>6. now <= x.deadline + Timeout /\ now <= limit
    BY <1>1, <1>2, <1>3, <1>4, <1>5 DEF PhiraInTime, PhiraCalls
  <1> QED BY <1>6 DEF x, limit

(* A request goes out only past the breaker, if no calls overlap. *)
LEMMA PhiraSendsAllowed ==
  ASSUME PhiraInv, [Phira!Next]_(Phira!vars), ~phiraOverlaps, NEW c \in Calls,
         call[c].stage = "trying", call'[c].stage = "sent"
  PROVE  Phira!Allowed
  BY DEF PhiraInv, PhiraAlone, Phira!UnderWay, Phira!Allowed

LEMMA PhiraStep == [Next]_vars => [Phira!Next]_(Phira!vars)
  BY DEF Next, vars, OfCommands, OfGate, OfMonitors, OfPhira, OfServer, phiraVars, Phira!vars

(* Whatever the service does and however its callers interleave, a call is   *)
(* over one request after its deadline at the latest, and within the time of *)
(* its attempts and pauses; and if no calls overlap, an open breaker lets    *)
(* nothing through, and each call is counted once (phira_client.rs).         *)
THEOREM PhiraIfCalmHolds ==
  ASSUME PhiraLimits
  PROVE  Spec => PhiraIfCalm
  <1>1. Init => PhiraInv
    BY PhiraInit DEF Init
  <1>2. PhiraInv /\ [Next]_vars => PhiraInv'
    BY PhiraStep, PhiraNextKeeps
  <1>3. PhiraInv => Phira!AtMostOneRequestOver
    BY PhiraInvTells
  <1>4. PhiraInv /\ PhiraInv' /\ [Next]_vars =>
          [/\ ~phiraOverlaps => \A c \in Calls :
                  call[c].stage = "trying" /\ call'[c].stage = "sent" => Phira!Allowed
           /\ tally'.requests = tally'.successes + tally'.failures + tally'.dropped
                 + Phira!Cardinality({c \in Calls : Phira!UnderWay(c)'})]_(Phira!vars)
    <2> SUFFICES ASSUME PhiraInv, PhiraInv', [Next]_vars
                 PROVE /\ ~phiraOverlaps => \A c \in Calls :
                            call[c].stage = "trying" /\ call'[c].stage = "sent" => Phira!Allowed
                       /\ tally'.requests = tally'.successes + tally'.failures + tally'.dropped
                             + Phira!Cardinality({c \in Calls : Phira!UnderWay(c)'})
      OBVIOUS
    <2>1. \A S : Phira!Cardinality(S) = Cardinality(S)
      BY Zenon DEF Phira!Cardinality, Cardinality
    <2>2. ~phiraOverlaps => \A c \in Calls :
              call[c].stage = "trying" /\ call'[c].stage = "sent" => Phira!Allowed
      BY PhiraStep, PhiraSendsAllowed
    <2>3. tally'.requests = tally'.successes + tally'.failures + tally'.dropped
                              + Cardinality({c \in Calls : Phira!UnderWay(c)'})
      BY DEF PhiraInv, PhiraCounted
    <2> QED BY <2>1, <2>2, <2>3
  <1> QED BY <1>1, <1>2, <1>3, <1>4, PTL DEF Spec, PhiraIfCalm, Phira!RestsIfCalm

-----------------------------------------------------------------------------
(* The gate. What it keeps is limited; that its overlaps are sets of names   *)
(* and the other bounds are numbers is not needed.                           *)
GateLimits == MaxPending \in Nat

GatePackets  == [kind : {"packet"}, part : Gate!Parts, version : Nat, size : Nat \ {0},
                 stamp : Nat]
GateControls == [kind : {"authenticate", "activate"}]
GateItems    == GatePackets \cup GateControls

GateTypes ==
    /\ gateRoom \in [Gate!Parts -> Nat] /\ snap \in [Gate!Parts -> Nat]
    /\ roomSeq \in Nat /\ cutover \in Nat
    /\ phase \in {"accepted", "snapped", "bound", "sending", "flushed", "activating", "active",
                  "failed"}
    /\ queue \in Seq(GateItems) /\ pending \in Seq(GatePackets) /\ wire \in Seq(GateItems)

\* Nothing is said to a session that is not bound yet, and it is bound from
\* then on until it fails. Its task lets everything through when the buffer is
\* empty, and is not asked to before the answer is on the wire.
GatePhases ==
    /\ phase \in {"accepted", "snapped"} =>
          /\ queue = <<>> /\ pending = <<>> /\ wire = <<>>
          /\ ~draining /\ ~active /\ ~overflowed
    /\ bound <=> phase \notin {"accepted", "snapped", "failed"}
    /\ active => pending = <<>>
    /\ phase = "active" => active /\ bound
    /\ active \/ draining \/ phase \in {"flushed", "activating", "active"} => wire # <<>>
    /\ (\E i \in DOMAIN queue : queue[i].kind = "activate") => wire # <<>>
    /\ wire # <<>> => wire[1].kind = "authenticate"

\* The versions of a part of the room that a sequence of items tells, or one item.
GateTold(items, p) == {items[i].version : i \in Gate!Places(items, p)}

GateSays(item, p) == IF item.kind = "packet" /\ item.part = p THEN {item.version} ELSE {}

GateBefore(first, second) == \A v \in first, w \in second : v < w

\* What was written is older than what is kept, and that than what is queued;
\* all of it is newer than the snapshot, and none is ahead of the room.
GateOrderOf(p) ==
    /\ snap[p] <= gateRoom[p]
    /\ Gate!Increasing(wire, p) /\ Gate!Increasing(pending, p) /\ Gate!Increasing(queue, p)
    /\ \A v \in GateTold(wire, p) \cup GateTold(pending, p) \cup GateTold(queue, p) :
          snap[p] < v /\ v <= gateRoom[p]
    /\ GateBefore(GateTold(wire, p), GateTold(pending, p))
    /\ GateBefore(GateTold(wire, p), GateTold(queue, p))
    /\ GateBefore(GateTold(pending, p), GateTold(queue, p))

GateOrder == \A p \in Gate!Parts : GateOrderOf(p)

\* In calm the snapshot is what the room was when the session was bound, and
\* everything on its way is newer than the cut-over and of the least size.
GateFresh(items) ==
    \A i \in DOMAIN items :
        items[i].kind = "packet" =>
            items[i].size = 1 /\ (items[i].part \in Gate!Covered => items[i].stamp > cutover)

\* The one thing the task is asked for is in the queue, or nothing is.
GateAsked(items, what) ==
    \E c \in DOMAIN items :
        items[c].kind = what /\ \A i \in DOMAIN items \ {c} : items[i].kind = "packet"

GateNotAsked(items) == \A i \in DOMAIN items : items[i].kind = "packet"

\* The buffer has room for all the events that come before it is emptied.
GateRoomy ==
    /\ phase \in {"bound", "flushed"} =>
          /\ GateNotAsked(queue) /\ ~draining /\ ~active
          /\ Len(pending) + Len(queue) <= MaxPending
    /\ phase = "sending" =>
          /\ GateAsked(queue, "authenticate") /\ ~draining /\ ~active
          /\ Len(pending) + Len(queue) <= MaxPending + 1
    /\ phase = "activating" =>
          /\ ~active /\ (draining => GateNotAsked(queue))
          /\ ~draining => /\ GateAsked(queue, "activate")
                          /\ Len(pending) + Len(queue) <= MaxPending + 1
    /\ phase = "active" => GateNotAsked(queue) /\ ~draining

\* Nothing the snapshot lacks is lost: it is written, kept, or on its way.
GateWhole ==
    \A p \in Gate!Parts :
        snap[p] + 1 .. gateRoom[p]
            \subseteq GateTold(wire, p) \cup GateTold(pending, p) \cup GateTold(queue, p)

GateCurrent ==
    /\ phase = "snapped" => gateRoom = snap
    /\ cutover <= roomSeq
    /\ GateFresh(pending) /\ GateFresh(queue)

GateCalm ==
    gateOverlaps = {} =>
        /\ GateCurrent
        /\ bound /\ gateOpen => ~overflowed /\ GateRoomy /\ GateWhole

GateInv == GateTypes /\ GatePhases /\ GateOrder /\ GateCalm
-----------------------------------------------------------------------------
(* What the two ends of a sequence of items are. *)
LEMMA GateAppends ==
  ASSUME NEW s \in Seq(GateItems), NEW e \in GateItems
  PROVE  /\ Append(s, e) \in Seq(GateItems) /\ Append(s, e) # <<>>
         /\ Len(Append(s, e)) = Len(s) + 1
         /\ DOMAIN Append(s, e) = DOMAIN s \cup {Len(s) + 1} /\ Len(s) + 1 \notin DOMAIN s
         /\ \A i \in DOMAIN s : Append(s, e)[i] = s[i]
         /\ Append(s, e)[Len(s) + 1] = e
         /\ Append(s, e)[1] = IF s = <<>> THEN e ELSE s[1]
  <1>1. /\ Append(s, e) \in Seq(GateItems) /\ Append(s, e) # <<>>
        /\ Len(Append(s, e)) = Len(s) + 1
        /\ DOMAIN Append(s, e) = DOMAIN s \cup {Len(s) + 1} /\ Len(s) + 1 \notin DOMAIN s
        /\ \A i \in DOMAIN s : Append(s, e)[i] = s[i]
        /\ Append(s, e)[Len(s) + 1] = e
    OBVIOUS
  <1>2. s # <<>> => 1 \in DOMAIN s
    OBVIOUS
  <1>3. s = <<>> => Len(s) + 1 = 1
    OBVIOUS
  <1> QED BY <1>1, <1>2, <1>3, Zenon

LEMMA GateTails ==
  ASSUME NEW s \in Seq(GateItems), s # <<>>
  PROVE  /\ Tail(s) \in Seq(GateItems) /\ Head(s) = s[1] /\ 1 \in DOMAIN s
         /\ Len(s) \in Nat /\ Len(Tail(s)) = Len(s) - 1
         /\ \A i \in DOMAIN Tail(s) : i \in Nat \ {0} /\ i + 1 \in DOMAIN s /\ Tail(s)[i] = s[i + 1]
         /\ \A i \in DOMAIN s : i = 1 \/ (i - 1 \in DOMAIN Tail(s) /\ Tail(s)[i - 1] = s[i])
  OBVIOUS

(* What an item at either end of a sequence changes in what it tells. *)
LEMMA GateToldAppend ==
  ASSUME NEW s \in Seq(GateItems), NEW e \in GateItems, NEW p \in Gate!Parts
  PROVE  GateTold(Append(s, e), p) = GateTold(s, p) \cup GateSays(e, p)
  <1>1. /\ DOMAIN Append(s, e) = DOMAIN s \cup {Len(s) + 1}
        /\ \A i \in DOMAIN s : Append(s, e)[i] = s[i]
        /\ Append(s, e)[Len(s) + 1] = e
    OBVIOUS
  <1>2. Gate!Places(Append(s, e), p) =
            Gate!Places(s, p) \cup (IF e.kind = "packet" /\ e.part = p THEN {Len(s) + 1} ELSE {})
    BY <1>1 DEF Gate!Places
  <1>3. \A i \in Gate!Places(s, p) : Append(s, e)[i] = s[i]
    BY <1>1 DEF Gate!Places
  <1>4. CASE e.kind = "packet" /\ e.part = p
    <2>1. Gate!Places(Append(s, e), p) = Gate!Places(s, p) \cup {Len(s) + 1} /\ GateSays(e, p) = {e.version}
      BY <1>2, <1>4 DEF GateSays
    <2>2. Append(s, e)[Len(s) + 1].version = e.version
      BY <1>1
    <2> QED BY <1>3, <2>1, <2>2 DEF GateTold
  <1>5. CASE ~(e.kind = "packet" /\ e.part = p)
    <2>1. Gate!Places(Append(s, e), p) = Gate!Places(s, p) /\ GateSays(e, p) = {}
      BY <1>2, <1>5 DEF GateSays
    <2> QED BY <1>3, <2>1 DEF GateTold
  <1> QED BY <1>4, <1>5

LEMMA GateToldTail ==
  ASSUME NEW s \in Seq(GateItems), s # <<>>, NEW p \in Gate!Parts
  PROVE  GateTold(s, p) = GateSays(Head(s), p) \cup GateTold(Tail(s), p)
  <1>1. /\ Head(s) = s[1] /\ 1 \in DOMAIN s
        /\ \A i \in DOMAIN Tail(s) : i + 1 \in DOMAIN s /\ Tail(s)[i] = s[i + 1]
        /\ \A i \in DOMAIN s : i = 1 \/ (i - 1 \in DOMAIN Tail(s) /\ Tail(s)[i - 1] = s[i])
    OBVIOUS
  <1>2. \A i \in Gate!Places(s, p) :
            \/ i = 1 /\ s[i].version \in GateSays(Head(s), p)
            \/ i - 1 \in Gate!Places(Tail(s), p) /\ Tail(s)[i - 1].version = s[i].version
    BY <1>1 DEF Gate!Places, GateSays
  <1>3. \A i \in Gate!Places(Tail(s), p) :
            i + 1 \in Gate!Places(s, p) /\ Tail(s)[i].version = s[i + 1].version
    BY <1>1 DEF Gate!Places
  <1>4. \A v \in GateSays(Head(s), p) : 1 \in Gate!Places(s, p) /\ v = s[1].version
    BY <1>1 DEF Gate!Places, GateSays
  <1>5. GateTold(s, p) \subseteq GateSays(Head(s), p) \cup GateTold(Tail(s), p)
    BY <1>2 DEF GateTold
  <1>6. GateSays(Head(s), p) \cup GateTold(Tail(s), p) \subseteq GateTold(s, p)
    <2>1. GateSays(Head(s), p) \subseteq GateTold(s, p)
      BY <1>4 DEF GateTold
    <2>2. \A i \in Gate!Places(Tail(s), p) : Tail(s)[i].version \in GateTold(s, p)
      BY <1>3 DEF GateTold
    <2> QED BY <2>1, <2>2 DEF GateTold
  <1> QED BY <1>5, <1>6

(* Order at both ends. *)
LEMMA GateAppendIncreases ==
  ASSUME NEW s \in Seq(GateItems), NEW e \in GateItems, NEW p \in Gate!Parts,
         Gate!Increasing(s, p), GateBefore(GateTold(s, p), GateSays(e, p))
  PROVE  Gate!Increasing(Append(s, e), p)
  <1> SUFFICES ASSUME NEW i \in Gate!Places(Append(s, e), p), NEW j \in Gate!Places(Append(s, e), p),
                      i < j
               PROVE  Append(s, e)[i].version < Append(s, e)[j].version
    BY DEF Gate!Increasing
  <1>1. /\ DOMAIN Append(s, e) = DOMAIN s \cup {Len(s) + 1}
        /\ \A k \in DOMAIN s : Append(s, e)[k] = s[k]
        /\ Append(s, e)[Len(s) + 1] = e
        /\ DOMAIN s = 1..Len(s) /\ Len(s) \in Nat
    OBVIOUS
  <1>2. i \in DOMAIN s
    BY <1>1 DEF Gate!Places
  <1>3. i \in Gate!Places(s, p)
    BY <1>1, <1>2 DEF Gate!Places
  <1>4. CASE j \in DOMAIN s
    <2>1. j \in Gate!Places(s, p)
      BY <1>1, <1>4 DEF Gate!Places
    <2> QED BY <1>1, <1>2, <1>3, <1>4, <2>1 DEF Gate!Increasing
  <1>5. CASE j = Len(s) + 1
    <2>1. e.version \in GateSays(e, p)
      BY <1>1, <1>5 DEF Gate!Places, GateSays
    <2>2. s[i].version \in GateTold(s, p)
      BY <1>3 DEF GateTold
    <2> QED BY <1>1, <1>2, <1>5, <2>1, <2>2 DEF GateBefore
  <1> QED BY <1>1, <1>4, <1>5 DEF Gate!Places

LEMMA GateTailIncreases ==
  ASSUME NEW s \in Seq(GateItems), s # <<>>, NEW p \in Gate!Parts, Gate!Increasing(s, p)
  PROVE  /\ Gate!Increasing(Tail(s), p)
         /\ GateBefore(GateSays(Head(s), p), GateTold(Tail(s), p))
  <1>1. /\ Head(s) = s[1] /\ 1 \in DOMAIN s
        /\ \A i \in DOMAIN Tail(s) : i \in Nat \ {0} /\ i + 1 \in DOMAIN s /\ Tail(s)[i] = s[i + 1]
    OBVIOUS
  <1>2. \A i \in Gate!Places(Tail(s), p) :
            /\ i \in Nat \ {0} /\ i + 1 \in Gate!Places(s, p)
            /\ Tail(s)[i].version = s[i + 1].version
    BY <1>1 DEF Gate!Places
  <1>3. \A v \in GateSays(Head(s), p) : 1 \in Gate!Places(s, p) /\ v = s[1].version
    BY <1>1 DEF Gate!Places, GateSays
  <1>4. Gate!Increasing(Tail(s), p)
    <2> SUFFICES ASSUME NEW i \in Gate!Places(Tail(s), p), NEW j \in Gate!Places(Tail(s), p), i < j
                 PROVE  Tail(s)[i].version < Tail(s)[j].version
      BY DEF Gate!Increasing
    <2>1. /\ i + 1 \in Gate!Places(s, p) /\ Tail(s)[i].version = s[i + 1].version
          /\ j + 1 \in Gate!Places(s, p) /\ Tail(s)[j].version = s[j + 1].version
          /\ i \in Nat \ {0} /\ j \in Nat \ {0}
      BY <1>2, Zenon
    <2>2. i + 1 < j + 1
      BY <2>1
    <2>3. s[i + 1].version < s[j + 1].version
      BY <2>1, <2>2 DEF Gate!Increasing
    <2> QED BY <2>1, <2>3
  <1>5. \A v \in GateSays(Head(s), p), i \in Gate!Places(Tail(s), p) : v < Tail(s)[i].version
    <2> SUFFICES ASSUME NEW v \in GateSays(Head(s), p), NEW i \in Gate!Places(Tail(s), p)
                 PROVE  v < Tail(s)[i].version
      OBVIOUS
    <2>1. /\ i + 1 \in Gate!Places(s, p) /\ Tail(s)[i].version = s[i + 1].version
          /\ 1 \in Gate!Places(s, p) /\ v = s[1].version /\ i \in Nat \ {0}
      BY <1>2, <1>3, Zenon
    <2>2. 1 < i + 1
      BY <2>1
    <2>3. s[1].version < s[i + 1].version
      BY <2>1, <2>2 DEF Gate!Increasing
    <2> QED BY <2>1, <2>3
  <1> QED BY <1>4, <1>5 DEF GateBefore, GateTold

(* An empty sequence tells nothing. *)
LEMMA GateEmpty ==
  ASSUME NEW p \in Gate!Parts
  PROVE  GateTold(<<>>, p) = {} /\ Gate!Increasing(<<>>, p)
  BY DEF GateTold, Gate!Increasing, Gate!Places

(* Versions are numbers. *)
LEMMA GateToldNumbers ==
  ASSUME NEW s \in Seq(GateItems), NEW p \in Gate!Parts
  PROVE  \A v \in GateTold(s, p) : v \in Nat
  BY DEF GateTold, Gate!Places, GateItems, GatePackets, GateControls

-----------------------------------------------------------------------------
\* What all that the room says has in common.
GateSpoken(e) ==
    /\ e.version = gateRoom[e.part] + 1
    /\ gateRoom' = [gateRoom EXCEPT ![e.part] = @ + 1]
    /\ Gate!TrySend(e)
    /\ roomSeq' \in Nat /\ roomSeq <= roomSeq'
    /\ gateOverlaps = {} =>
          /\ phase # "snapped" /\ (Len(pending) + Len(queue) < MaxPending \/ active)
          /\ e.size = 1 /\ (e.part \in Gate!Covered => e.stamp = roomSeq + 1)
    /\ UNCHANGED <<gateOverlaps, phase, snap, bound, pending, cutover, overflowed, draining, active,
                   wire>>

(* A command, a leave and talk are of that kind. *)
LEMMA GateSpeaks ==
  ASSUME GateLimits, GateTypes,
         (\E p \in Gate!Covered : Gate!Command(p)) \/ Gate!Leave
             \/ (\E size \in {1, MaxPending + 1} : Gate!Talk(size))
  PROVE  \E e \in GatePackets : GateSpoken(e)
  <1> USE DEF GateTypes, Gate!Parts, Gate!Covered
  <1>1. ASSUME NEW p \in Gate!Parts, NEW size \in Nat \ {0}, NEW stamp \in Nat
        PROVE  /\ Gate!Event(p, size, stamp) \in GatePackets
               /\ Gate!Event(p, size, stamp).version = gateRoom[p] + 1
               /\ Gate!Event(p, size, stamp).part = p
               /\ Gate!Event(p, size, stamp).size = size
               /\ p \in Gate!Covered => Gate!Event(p, size, stamp).stamp = stamp
    BY DEF Gate!Event, GatePackets
  <1>2. ASSUME NEW p \in Gate!Covered, Gate!Command(p)
        PROVE  GateSpoken(Gate!Event(p, 1, roomSeq + 1))
    <2>1. /\ Gate!MayHappen /\ roomSeq' = roomSeq + 1
          /\ gateRoom' = [gateRoom EXCEPT ![p] = @ + 1]
          /\ Gate!TrySend(Gate!Event(p, 1, roomSeq + 1))
          /\ UNCHANGED <<gateOverlaps, phase, snap, bound, pending, cutover, overflowed, draining,
                         active, wire>>
      BY <1>2 DEF Gate!Command, Gate!BumpRoomSeq, Gate!Says, Gate!gate
    <2> DEFINE e == Gate!Event(p, 1, roomSeq + 1)
    <2>3. /\ e.version = gateRoom[p] + 1 /\ e.part = p /\ e.size = 1
          /\ p \in Gate!Covered => e.stamp = roomSeq + 1
          /\ Gate!TrySend(e)
      BY <1>1, <2>1
    <2> HIDE DEF e
    <2>4. GateSpoken(e)
      BY <2>1, <2>3 DEF Gate!MayHappen, GateSpoken
    <2> QED BY <2>4 DEF e
  <1>3. ASSUME Gate!Leave PROVE GateSpoken(Gate!Event("members", 1, roomSeq))
    <2>1. /\ gateOverlaps # {} /\ UNCHANGED roomSeq
          /\ gateRoom' = [gateRoom EXCEPT !["members"] = @ + 1]
          /\ Gate!TrySend(Gate!Event("members", 1, roomSeq))
          /\ UNCHANGED <<gateOverlaps, phase, snap, bound, pending, cutover, overflowed, draining,
                         active, wire>>
      BY <1>3 DEF Gate!Leave, Gate!Says, Gate!gate
    <2> DEFINE e == Gate!Event("members", 1, roomSeq)
    <2>3. /\ e.version = gateRoom["members"] + 1 /\ e.part = "members" /\ e.size = 1
          /\ "members" \in Gate!Covered => e.stamp = roomSeq
          /\ Gate!TrySend(e)
      BY <1>1, <2>1
    <2> HIDE DEF e
    <2>4. GateSpoken(e)
      BY <2>1, <2>3 DEF GateSpoken
    <2> QED BY <2>4 DEF e
  <1>4. ASSUME NEW size \in {1, MaxPending + 1}, Gate!Talk(size)
        PROVE  GateSpoken(Gate!Event("chat", size, 0))
    <2>1. /\ Gate!MayHappen /\ UNCHANGED roomSeq /\ (gateOverlaps = {} => size = 1)
          /\ gateRoom' = [gateRoom EXCEPT !["chat"] = @ + 1]
          /\ Gate!TrySend(Gate!Event("chat", size, 0))
          /\ UNCHANGED <<gateOverlaps, phase, snap, bound, pending, cutover, overflowed, draining,
                         active, wire>>
      BY <1>4 DEF Gate!Talk, Gate!Says, Gate!gate
    <2>2. size \in Nat \ {0}
      BY DEF GateLimits
    <2> DEFINE e == Gate!Event("chat", size, 0)
    <2>3. /\ e.version = gateRoom["chat"] + 1 /\ e.part = "chat" /\ e.size = size
          /\ "chat" \in Gate!Covered => e.stamp = 0
          /\ Gate!TrySend(e)
      BY <1>1, <2>1, <2>2
    <2> HIDE DEF e
    <2>4. GateSpoken(e)
      BY <2>1, <2>3 DEF Gate!MayHappen, GateSpoken
    <2> QED BY <2>4 DEF e
  <1>5. \A p \in Gate!Covered : Gate!Event(p, 1, roomSeq + 1) \in GatePackets
    BY <1>1
  <1>6. \A size \in {1, MaxPending + 1} : Gate!Event("chat", size, 0) \in GatePackets
    BY <1>1 DEF GateLimits
  <1>7. Gate!Event("members", 1, roomSeq) \in GatePackets
    BY <1>1
  <1> QED BY <1>2, <1>3, <1>4, <1>5, <1>6, <1>7

\* What the task takes from the queue.
LEMMA GateTakes ==
  ASSUME GateTypes, NEW what, Gate!Takes(what)
  PROVE  /\ ~draining /\ queue # <<>> /\ queue' = Tail(queue) /\ queue' \in Seq(GateItems)
         /\ Head(queue) \in GateItems /\ Head(queue).kind = what /\ Head(queue) = queue[1]
         /\ 1 \in DOMAIN queue
         /\ what = "packet" => Head(queue) \in GatePackets
  BY DEF Gate!Takes, GateTypes, GateItems, GateControls, GatePackets

(* push_bounded appends, perhaps after dropping the oldest, or clears. *)
LEMMA GatePushes ==
  ASSUME GateLimits, GateTypes, NEW e \in GatePackets, Gate!PushBounded(e)
  PROVE  /\ pending' \in Seq(GatePackets)
         /\ \/ pending' = <<>> /\ e.size > MaxPending
            \/ pending' = Append(pending, e) /\ UNCHANGED overflowed
            \/ /\ pending # <<>> /\ pending' = Append(Tail(pending), e) /\ UNCHANGED overflowed
               /\ Len(pending) >= MaxPending
  <1>1. CASE e.size > MaxPending
    <2>1. pending' = <<>>
      BY <1>1 DEF Gate!PushBounded
    <2> QED BY <1>1, <2>1
  <1>2. CASE ~(e.size > MaxPending)
    <2>1. MaxPending > 0
      BY <1>2 DEF GatePackets, GateLimits
    <2>2. CASE Len(pending) < MaxPending
      <3>1. pending \in Seq(GatePackets)
        BY DEF GateTypes
      <3>2. pending' = Append(pending, e) /\ UNCHANGED overflowed
        BY <1>2, <2>2, <3>1 DEF Gate!PushBounded
      <3>3. pending' \in Seq(GatePackets)
        BY <3>1, <3>2
      <3> QED BY <3>2, <3>3
    <2>3. CASE ~(Len(pending) < MaxPending)
      <3>1. pending # <<>> /\ Tail(pending) \in Seq(GatePackets) /\ Len(pending) >= MaxPending
        BY <2>1, <2>3 DEF GateTypes, GateLimits
      <3>2. pending' = Append(Tail(pending), e) /\ UNCHANGED overflowed
        BY <1>2, <2>3, <3>1 DEF Gate!PushBounded, GateTypes
      <3>3. pending' \in Seq(GatePackets)
        BY <3>1, <3>2
      <3> QED BY <3>1, <3>2, <3>3
    <2> QED BY <2>2, <2>3
  <1> QED BY <1>1, <1>2

(* One event of the buffer goes out or is left out, or all of it goes. *)
LEMMA GateDrains ==
  ASSUME GateTypes, Gate!Drain
  PROVE  /\ draining /\ pending # <<>> /\ Head(pending) \in GatePackets
         /\ \/ pending' = Tail(pending) /\ UNCHANGED draining
            \/ pending' = <<>> /\ draining' = FALSE /\ ~gateOpen
         /\ \/ UNCHANGED wire
            \/ wire' = Append(wire, Head(pending)) /\ pending' = Tail(pending)
         /\ ~Gate!SnapshotHas(Head(pending)) /\ gateOpen => wire' = Append(wire, Head(pending))
         /\ pending' \in Seq(GatePackets) /\ wire' \in Seq(GateItems)
         /\ UNCHANGED <<gateOverlaps, gateRoom, roomSeq, phase, snap, bound, queue, cutover, overflowed,
                        active, gateOpen>>
  <1>1. /\ draining /\ pending # <<>> /\ pending \in Seq(GatePackets) /\ wire \in Seq(GateItems)
        /\ UNCHANGED <<gateOverlaps, gateRoom, roomSeq, phase, snap, bound, queue, cutover, overflowed,
                       active, gateOpen>>
    BY DEF Gate!Drain, GateTypes
  <1>2. Head(pending) \in GatePackets /\ Tail(pending) \in Seq(GatePackets)
    BY <1>1
  <1>3. CASE Gate!SnapshotHas(Head(pending))
    <2>1. pending' = Tail(pending) /\ UNCHANGED <<draining, wire>>
      BY <1>3 DEF Gate!Drain
    <2> QED BY <1>1, <1>2, <1>3, <2>1
  <1>4. CASE ~Gate!SnapshotHas(Head(pending)) /\ gateOpen
    <2>1. pending' = Tail(pending) /\ UNCHANGED draining /\ wire' = Append(wire, Head(pending))
      BY <1>4 DEF Gate!Drain
    <2>2. wire' \in Seq(GateItems)
      BY <1>1, <1>2, <2>1 DEF GateItems
    <2> QED BY <1>1, <1>2, <2>1, <2>2
  <1>5. CASE ~Gate!SnapshotHas(Head(pending)) /\ ~gateOpen
    <2>1. pending' = <<>> /\ draining' = FALSE /\ UNCHANGED wire
      BY <1>5 DEF Gate!Drain
    <2>2. pending' \in Seq(GatePackets) /\ wire' \in Seq(GateItems)
      BY <1>1, <2>1
    <2> QED BY <1>1, <1>2, <1>5, <2>1, <2>2
  <1> QED BY <1>3, <1>4, <1>5

-----------------------------------------------------------------------------
(* A step keeps the types. *)
LEMMA GateTypesKept ==
  ASSUME GateLimits, GateTypes, [Gate!Next]_(Gate!vars)
  PROVE  GateTypes'
  <1>1. ASSUME NEW e \in GatePackets, GateSpoken(e) PROVE GateTypes'
    <2>1. e.part \in Gate!Parts /\ e \in GateItems
      BY DEF GatePackets, GateItems
    <2>2. gateRoom' \in [Gate!Parts -> Nat]
      BY <1>1, <2>1 DEF GateTypes, GateSpoken
    <2>3. queue' \in Seq(GateItems)
      <3>1. queue' = Append(queue, e) \/ queue' = queue
        BY <1>1 DEF GateSpoken, Gate!TrySend
      <3>2. queue \in Seq(GateItems)
        BY DEF GateTypes
      <3> QED BY <2>1, <3>1, <3>2, GateAppends
    <2> QED BY <1>1, <2>2, <2>3 DEF GateTypes, GateSpoken
  <1>2. CASE Gate!Snapshot
    BY <1>2 DEF GateTypes, Gate!Snapshot, Gate!BeginRoomCutover
  <1>3. CASE Gate!SetSession
    BY <1>3 DEF GateTypes, Gate!SetSession, Gate!gate
  <1>4. ASSUME NEW from, NEW to \in {"sending", "activating"}, NEW what \in {"authenticate", "activate"},
               Gate!Ask(from, to, what)
        PROVE  GateTypes'
    <2>1. Gate!Item(what) \in GateItems
      BY DEF Gate!Item, GateItems, GateControls
    <2>2. queue' \in Seq(GateItems)
      BY <1>4, <2>1 DEF GateTypes, Gate!Ask
    <2> QED BY <1>4, <2>2 DEF GateTypes, Gate!Ask, Gate!gate
  <1>5. CASE Gate!Fail
    BY <1>5 DEF GateTypes, Gate!Fail, Gate!gate
  <1>6. CASE Gate!TakePacket
    <2>1. /\ queue' \in Seq(GateItems) /\ Head(queue) \in GatePackets /\ Head(queue) \in GateItems
      BY <1>6, GateTakes DEF Gate!TakePacket
    <2>2. pending' \in Seq(GatePackets)
      BY <1>6, <2>1, GatePushes DEF Gate!TakePacket, GateTypes
    <2>3. wire' \in Seq(GateItems)
      <3>1. wire' = Append(wire, Head(queue)) \/ wire' = wire
        BY <1>6 DEF Gate!TakePacket, Gate!Write
      <3>2. wire \in Seq(GateItems)
        BY DEF GateTypes
      <3> QED BY <2>1, <3>1, <3>2, GateAppends
    <2> QED BY <1>6, <2>1, <2>2, <2>3 DEF GateTypes, Gate!TakePacket
  <1>7. CASE Gate!TakeAuthenticate
    <2>1. /\ queue' \in Seq(GateItems) /\ Head(queue) \in GateItems
      BY <1>7, GateTakes DEF Gate!TakeAuthenticate
    <2>2. wire' \in Seq(GateItems)
      BY <1>7, <2>1 DEF Gate!TakeAuthenticate, Gate!Write, GateTypes
    <2> QED BY <1>7, <2>1, <2>2 DEF GateTypes, Gate!TakeAuthenticate, Gate!gate
  <1>8. CASE Gate!TakeActivate
    <2>1. queue' \in Seq(GateItems)
      BY <1>8, GateTakes DEF Gate!TakeActivate
    <2>2. pending' = <<>> \/ UNCHANGED pending
      BY <1>8 DEF Gate!TakeActivate
    <2>3. pending' \in Seq(GatePackets)
      <3>1. pending \in Seq(GatePackets) /\ <<>> \in Seq(GatePackets)
        BY DEF GateTypes
      <3> QED BY <2>2, <3>1
    <2> QED BY <1>8, <2>1, <2>3 DEF GateTypes, Gate!TakeActivate
  <1>9. CASE Gate!Drain
    BY <1>9, GateDrains DEF GateTypes
  <1>10. CASE Gate!Activated
    BY <1>10 DEF GateTypes, Gate!Activated
  <1>11. CASE UNCHANGED Gate!vars
    BY <1>11 DEF GateTypes, Gate!vars
  <1> QED BY <1>1, <1>2, <1>3, <1>4, <1>5, <1>6, <1>7, <1>8, <1>9, <1>10, <1>11, GateSpeaks
          DEF Gate!Next, Gate!SendAuthenticate, Gate!AskActivation

(* Each phase has what the ones before it left. *)
LEMMA GatePhasesKept ==
  ASSUME GateLimits, GateTypes, GatePhases, [Gate!Next]_(Gate!vars)
  PROVE  GatePhases'
  <1> USE DEF GatePhases
  <1>1. ASSUME NEW e \in GatePackets, GateSpoken(e) PROVE GatePhases'
    <2>1. bound \/ UNCHANGED queue
      BY <1>1 DEF GateSpoken, Gate!TrySend, Gate!Reaches
    <2>2. \A i \in DOMAIN queue' : (i \in DOMAIN queue /\ queue'[i] = queue[i]) \/ queue'[i] = e
      <3>1. queue' = Append(queue, e) \/ queue' = queue
        BY <1>1 DEF GateSpoken, Gate!TrySend
      <3>2. queue \in Seq(GateItems) /\ e \in GateItems
        BY DEF GateTypes, GateItems
      <3> QED BY <3>1, <3>2, GateAppends
    <2>3. e.kind # "activate"
      BY DEF GatePackets
    <2> QED BY <1>1, <2>1, <2>2, <2>3 DEF GateSpoken
  <1>2. CASE Gate!Snapshot
    BY <1>2 DEF Gate!Snapshot
  <1>3. CASE Gate!SetSession
    BY <1>3 DEF Gate!SetSession, Gate!gate
  <1>4. ASSUME NEW from, NEW to, NEW what, Gate!Ask(from, to, what),
               \/ from = "bound" /\ to = "sending" /\ what = "authenticate"
               \/ from = "flushed" /\ to = "activating" /\ what = "activate"
        PROVE  GatePhases'
    <2>1. \A i \in DOMAIN queue' :
              (i \in DOMAIN queue /\ queue'[i] = queue[i]) \/ queue'[i] = Gate!Item(what)
      BY <1>4 DEF Gate!Ask, GateTypes
    <2>2. Gate!Item(what).kind = what
      BY DEF Gate!Item
    <2> QED BY <1>4, <2>1, <2>2 DEF Gate!Ask, Gate!gate
  <1>5. CASE Gate!Fail
    BY <1>5 DEF Gate!Fail, Gate!gate
  <1>6. ASSUME NEW what, Gate!Takes(what)
        PROVE  /\ queue # <<>> /\ queue[1].kind = what /\ 1 \in DOMAIN queue
               /\ \A i \in DOMAIN queue' : i + 1 \in DOMAIN queue /\ queue'[i] = queue[i + 1]
    <2>1. queue \in Seq(GateItems) /\ queue # <<>> /\ queue' = Tail(queue) /\ queue[1].kind = what
      BY <1>6, GateTakes DEF GateTypes
    <2> QED BY <2>1, GateTails
  <1>7. ASSUME NEW item \in GateItems, Gate!Write(item), wire # <<>> \/ item.kind = "authenticate"
        PROVE  /\ wire # <<>> => wire' # <<>>
               /\ wire' # <<>> => wire'[1].kind = "authenticate"
               /\ gateOpen => wire' # <<>>
    <2>1. (gateOpen /\ wire' = Append(wire, item)) \/ (~gateOpen /\ wire' = wire)
      BY <1>7 DEF Gate!Write
    <2> QED BY <1>7, <2>1, GateAppends DEF GateTypes
  <1>8. CASE Gate!TakePacket
    <2>1. Head(queue) \in GateItems
      BY <1>8, GateTakes DEF Gate!TakePacket
    <2>2. CASE active
      BY <1>6, <1>7, <1>8, <2>1, <2>2 DEF Gate!TakePacket
    <2>3. CASE ~active
      BY <1>6, <1>8, <2>3 DEF Gate!TakePacket
    <2> QED BY <2>2, <2>3
  <1>9. CASE Gate!TakeAuthenticate
    <2>1. Head(queue) \in GateItems /\ Head(queue).kind = "authenticate"
      BY <1>9, GateTakes DEF Gate!TakeAuthenticate
    <2> QED BY <1>6, <1>7, <1>9, <2>1 DEF Gate!TakeAuthenticate, Gate!gate
  <1>10. CASE Gate!TakeActivate
    BY <1>6, <1>10 DEF Gate!TakeActivate
  <1>11. CASE Gate!Drain
    <2>1. wire' # <<>> /\ wire'[1].kind = "authenticate"
      <3>1. Head(pending) \in GateItems /\ (wire' = Append(wire, Head(pending)) \/ wire' = wire)
        BY <1>11, GateDrains DEF GateItems
      <3>2. wire # <<>> /\ wire \in Seq(GateItems)
        BY <1>11, GateDrains DEF GateTypes
      <3> QED BY <3>1, <3>2, GateAppends
    <2> QED BY <1>11, <2>1, GateDrains
  <1>12. CASE Gate!Activated
    BY <1>12 DEF Gate!Activated
  <1>13. CASE UNCHANGED Gate!vars
    BY <1>13 DEF Gate!vars
  <1> QED BY <1>1, <1>2, <1>3, <1>4, <1>5, <1>8, <1>9, <1>10, <1>11, <1>12, <1>13, GateSpeaks
          DEF Gate!Next, Gate!SendAuthenticate, Gate!AskActivation

-----------------------------------------------------------------------------
\* What a step does to what is told of a part, without the sequences.
LEMMA GateOrderKept ==
  ASSUME GateLimits, GateTypes, GatePhases, GateOrder, [Gate!Next]_(Gate!vars)
  PROVE  GateOrder'
  <1> SUFFICES ASSUME NEW p \in Gate!Parts PROVE GateOrderOf(p)'
    BY DEF GateOrder
  <1> USE DEF GateOrderOf, GateBefore
  <1>1. GateOrderOf(p)
    BY DEF GateOrder
  <1>2. /\ wire \in Seq(GateItems) /\ pending \in Seq(GateItems) /\ queue \in Seq(GateItems)
        /\ snap[p] \in Nat /\ gateRoom[p] \in Nat
    BY DEF GateTypes, GateItems
  <1>3. ASSUME NEW s \in Seq(GateItems), s # <<>>
        PROVE  /\ GateTold(s, p) = GateSays(Head(s), p) \cup GateTold(Tail(s), p)
               /\ Tail(s) \in Seq(GateItems) /\ Head(s) \in GateItems
    BY <1>3, GateToldTail
  <1>4. \A v \in GateTold(wire, p) \cup GateTold(pending, p) \cup GateTold(queue, p) : v \in Nat
    BY <1>2, GateToldNumbers
  <1>5. ASSUME NEW e \in GatePackets, GateSpoken(e) PROVE GateOrderOf(p)'
    <2>1. /\ e \in GateItems /\ e.part \in Gate!Parts /\ e.kind = "packet"
          /\ UNCHANGED <<snap, wire, pending>>
      BY <1>5 DEF GateItems, GatePackets, GateSpoken
    <2>2. /\ gateRoom'[p] \in Nat /\ gateRoom[p] <= gateRoom'[p]
          /\ \A v \in GateSays(e, p) : v = gateRoom[p] + 1 /\ v = gateRoom'[p]
      BY <1>2, <1>5, <2>1 DEF GateSays, GateSpoken, GateTypes
    <2>3. CASE queue' = queue
      BY <1>1, <1>2, <1>4, <2>1, <2>2, <2>3
    <2>4. CASE queue' = Append(queue, e)
      <3>1. GateTold(queue', p) = GateTold(queue, p) \cup GateSays(e, p)
        BY <1>2, <2>1, <2>4, GateToldAppend
      <3>2. GateBefore(GateTold(queue, p), GateSays(e, p))
        BY <1>1, <1>2, <1>4, <2>2
      <3>3. Gate!Increasing(queue', p)
        BY <1>1, <1>2, <2>1, <2>4, <3>2, GateAppendIncreases
      <3> QED BY <1>1, <1>2, <1>4, <2>1, <2>2, <3>1, <3>3
    <2> QED BY <1>5, <2>3, <2>4 DEF GateSpoken, Gate!TrySend
  <1>6. CASE Gate!Snapshot
    <2>1. wire = <<>> /\ pending = <<>> /\ queue = <<>>
      BY <1>6 DEF Gate!Snapshot, GatePhases
    <2>2. UNCHANGED <<wire, pending, queue>> /\ snap'[p] = gateRoom'[p] /\ gateRoom'[p] = gateRoom[p]
      BY <1>6 DEF Gate!Snapshot
    <2> QED BY <1>2, <2>1, <2>2, GateEmpty
  <1>7. CASE Gate!SetSession \/ Gate!Fail \/ Gate!Activated
    BY <1>1, <1>7 DEF Gate!SetSession, Gate!Fail, Gate!Activated, Gate!gate
  <1>8. ASSUME NEW from, NEW to, NEW what \in {"authenticate", "activate"}, Gate!Ask(from, to, what)
        PROVE  GateOrderOf(p)'
    <2> DEFINE e == Gate!Item(what)
    <2>1. e \in GateItems /\ e.kind # "packet"
      BY DEF Gate!Item, GateItems, GateControls
    <2> HIDE DEF e
    <2>2. GateSays(e, p) = {}
      BY <2>1 DEF GateSays
    <2>3. queue' = Append(queue, e) /\ UNCHANGED <<snap, gateRoom, wire, pending>>
      BY <1>8 DEF Gate!Ask, Gate!gate, e
    <2>4. GateTold(queue', p) = GateTold(queue, p)
      <3>1. GateTold(queue', p) = GateTold(queue, p) \cup GateSays(e, p)
        BY <1>2, <2>1, <2>3, GateToldAppend
      <3> QED BY <2>2, <3>1
    <2>5. Gate!Increasing(queue', p)
      BY <1>1, <1>2, <2>1, <2>2, <2>3, GateAppendIncreases
    <2> QED BY <1>1, <2>3, <2>4, <2>5
  <1>9. ASSUME NEW what, Gate!Takes(what)
        PROVE  /\ Head(queue) \in GateItems
               /\ GateTold(queue, p) = GateSays(Head(queue), p) \cup GateTold(queue', p)
               /\ Gate!Increasing(queue', p)
               /\ GateBefore(GateSays(Head(queue), p), GateTold(queue', p))
    <2>1. queue # <<>> /\ queue' = Tail(queue)
      BY <1>9, GateTakes
    <2> QED BY <1>1, <1>2, <1>3, <2>1, GateTailIncreases
  <1>10. ASSUME NEW what, Gate!Takes(what), Gate!Write(Head(queue)), pending = <<>>,
                UNCHANGED <<snap, gateRoom, pending>>
         PROVE  GateOrderOf(p)'
    <2>1. GateTold(pending, p) = {} /\ Gate!Increasing(pending, p)
      BY <1>10, GateEmpty
    <2>2. CASE UNCHANGED wire
      BY <1>1, <1>2, <1>9, <1>10, <2>1, <2>2
    <2>3. CASE wire' = Append(wire, Head(queue))
      <3>1. /\ GateTold(wire', p) = GateTold(wire, p) \cup GateSays(Head(queue), p)
            /\ Gate!Increasing(wire', p)
        BY <1>1, <1>2, <1>9, <1>10, <2>3, GateToldAppend, GateAppendIncreases
      <3> QED BY <1>1, <1>2, <1>9, <1>10, <2>1, <3>1
    <2> QED BY <1>10, <2>2, <2>3 DEF Gate!Write
  <1>11. CASE Gate!TakePacket
    <2>1. Gate!Takes("packet") /\ UNCHANGED <<snap, gateRoom>>
      BY <1>11 DEF Gate!TakePacket
    <2>2. CASE active
      BY <1>10, <1>11, <2>1, <2>2 DEF Gate!TakePacket, GatePhases
    <2>3. CASE ~active
      <3>1. Gate!PushBounded(Head(queue)) /\ UNCHANGED wire
        BY <1>11, <2>3 DEF Gate!TakePacket
      <3> DEFINE e == Head(queue)
      <3>2. e \in GatePackets /\ e \in GateItems
        BY <2>1, GateTakes DEF GateItems
      <3>3. /\ GateTold(queue, p) = GateSays(e, p) \cup GateTold(queue', p)
            /\ Gate!Increasing(queue', p) /\ GateBefore(GateSays(e, p), GateTold(queue', p))
        BY <1>9, <2>1
      <3>4. \/ pending' = <<>>
            \/ pending' = Append(pending, e)
            \/ pending # <<>> /\ pending' = Append(Tail(pending), e)
        BY <3>1, <3>2, GatePushes
      <3> HIDE DEF e
      <3>5. CASE pending' = <<>>
        BY <1>1, <2>1, <3>1, <3>3, <3>5, GateEmpty
      <3>6. ASSUME NEW s \in Seq(GateItems), pending' = Append(s, e), Gate!Increasing(s, p),
                   GateTold(s, p) \subseteq GateTold(pending, p)
            PROVE  GateOrderOf(p)'
        <4>1. GateTold(pending', p) = GateTold(s, p) \cup GateSays(e, p)
          BY <3>2, <3>6, GateToldAppend
        <4>2. GateBefore(GateTold(s, p), GateSays(e, p))
          BY <1>1, <3>3, <3>6
        <4>3. Gate!Increasing(pending', p)
          BY <3>2, <3>6, <4>2, GateAppendIncreases
        <4> QED BY <1>1, <2>1, <3>1, <3>3, <3>6, <4>1, <4>3
      <3>7. CASE pending' = Append(pending, e)
        BY <1>1, <1>2, <3>6, <3>7
      <3>8. CASE pending # <<>> /\ pending' = Append(Tail(pending), e)
        <4>1. /\ Tail(pending) \in Seq(GateItems) /\ Gate!Increasing(Tail(pending), p)
              /\ GateTold(Tail(pending), p) \subseteq GateTold(pending, p)
          BY <1>1, <1>2, <1>3, <3>8, GateTailIncreases
        <4> QED BY <3>6, <3>8, <4>1
      <3> QED BY <3>4, <3>5, <3>7, <3>8
    <2> QED BY <2>2, <2>3
  <1>12. CASE Gate!TakeAuthenticate
    <2>1. /\ Gate!Takes("authenticate") /\ Gate!Write(Head(queue))
          /\ UNCHANGED <<snap, gateRoom, pending>>
      BY <1>12 DEF Gate!TakeAuthenticate, Gate!gate
    <2> DEFINE e == Head(queue)
    <2>2. e \in GateItems /\ GateSays(e, p) = {}
      BY <2>1, GateTakes DEF GateSays
    <2>3. GateTold(queue, p) = GateTold(queue', p) /\ Gate!Increasing(queue', p)
      BY <1>9, <2>1, <2>2
    <2>4. wire' = Append(wire, e) \/ wire' = wire
      BY <2>1 DEF Gate!Write
    <2> HIDE DEF e
    <2>5. GateTold(wire', p) = GateTold(wire, p) /\ Gate!Increasing(wire', p)
      <3>1. CASE wire' = Append(wire, e)
        <4>1. GateTold(wire', p) = GateTold(wire, p) \cup GateSays(e, p)
          BY <1>2, <2>2, <3>1, GateToldAppend
        <4>2. Gate!Increasing(wire', p)
          BY <1>1, <1>2, <2>2, <3>1, GateAppendIncreases
        <4> QED BY <2>2, <4>1, <4>2
      <3> QED BY <1>1, <2>4, <3>1
    <2> QED BY <1>1, <2>1, <2>3, <2>5
  <1>13. CASE Gate!TakeActivate
    <2>1. /\ Gate!Takes("activate") /\ UNCHANGED <<snap, gateRoom, wire>>
          /\ pending' = <<>> \/ pending' = pending
      BY <1>13 DEF Gate!TakeActivate
    <2>2. /\ GateTold(pending', p) \subseteq GateTold(pending, p) /\ Gate!Increasing(pending', p)
      BY <1>1, <2>1, GateEmpty
    <2>3. GateTold(queue', p) \subseteq GateTold(queue, p) /\ Gate!Increasing(queue', p)
      BY <1>9, <2>1
    <2> QED BY <1>1, <2>1, <2>2, <2>3
  <1>14. CASE Gate!Drain
    <2> DEFINE e == Head(pending)
    <2>1. /\ pending # <<>> /\ e \in GateItems
          /\ UNCHANGED <<snap, gateRoom, queue>>
          /\ \/ (pending' = Tail(pending) \/ pending' = <<>>) /\ UNCHANGED wire
             \/ pending' = Tail(pending) /\ wire' = Append(wire, e)
      BY <1>14, GateDrains DEF GateItems
    <2>2. /\ GateTold(pending, p) = GateSays(e, p) \cup GateTold(Tail(pending), p)
          /\ Gate!Increasing(Tail(pending), p)
          /\ GateBefore(GateSays(e, p), GateTold(Tail(pending), p))
      BY <1>1, <1>2, <1>3, <2>1, GateTailIncreases
    <2> HIDE DEF e
    <2>3. CASE pending' = Tail(pending) /\ UNCHANGED wire
      BY <1>1, <2>1, <2>2, <2>3
    <2>4. CASE pending' = <<>> /\ UNCHANGED wire
      BY <1>1, <2>1, <2>4, GateEmpty
    <2>5. CASE pending' = Tail(pending) /\ wire' = Append(wire, e)
      <3>1. GateTold(wire', p) = GateTold(wire, p) \cup GateSays(e, p) /\ Gate!Increasing(wire', p)
        BY <1>1, <1>2, <2>1, <2>2, <2>5, GateToldAppend, GateAppendIncreases
      <3> QED BY <1>1, <2>1, <2>2, <2>5, <3>1
    <2> QED BY <2>1, <2>3, <2>4, <2>5
  <1>15. CASE UNCHANGED Gate!vars
    BY <1>1, <1>15 DEF Gate!vars
  <1> QED BY <1>5, <1>6, <1>7, <1>8, <1>11, <1>12, <1>13, <1>14, <1>15, GateSpeaks
          DEF Gate!Next, Gate!SendAuthenticate, Gate!AskActivation

-----------------------------------------------------------------------------
(* Both ends of a sequence of fresh events. *)
LEMMA GateFreshEnds ==
  ASSUME NEW s \in Seq(GateItems), GateFresh(s)
  PROVE  /\ \A e \in GateItems :
               (e.kind = "packet" => e.size = 1 /\ (e.part \in Gate!Covered => e.stamp > cutover))
               => GateFresh(Append(s, e))
         /\ s # <<>> =>
               /\ GateFresh(Tail(s))
               /\ Head(s).kind = "packet" =>
                     Head(s).size = 1 /\ (Head(s).part \in Gate!Covered => Head(s).stamp > cutover)
  <1>1. ASSUME NEW e \in GateItems,
               e.kind = "packet" => e.size = 1 /\ (e.part \in Gate!Covered => e.stamp > cutover)
        PROVE  GateFresh(Append(s, e))
    <2>1. \A i \in DOMAIN Append(s, e) :
              (i \in DOMAIN s /\ Append(s, e)[i] = s[i]) \/ Append(s, e)[i] = e
      BY GateAppends
    <2> QED BY <1>1, <2>1 DEF GateFresh
  <1>2. ASSUME s # <<>>
        PROVE  /\ GateFresh(Tail(s))
               /\ Head(s).kind = "packet" =>
                     Head(s).size = 1 /\ (Head(s).part \in Gate!Covered => Head(s).stamp > cutover)
    <2>1. /\ Head(s) = s[1] /\ 1 \in DOMAIN s
          /\ \A i \in DOMAIN Tail(s) : i + 1 \in DOMAIN s /\ Tail(s)[i] = s[i + 1]
      BY <1>2, GateTails
    <2> QED BY <2>1 DEF GateFresh
  <1> QED BY <1>1, <1>2

(* What is asked of the task, when the queue takes or gives an item. *)
LEMMA GateAskedAppend ==
  ASSUME NEW s \in Seq(GateItems), NEW e \in GateItems
  PROVE  /\ GateNotAsked(s) /\ e.kind = "packet" => GateNotAsked(Append(s, e))
         /\ GateNotAsked(s) => GateAsked(Append(s, e), e.kind)
         /\ \A what : GateAsked(s, what) /\ e.kind = "packet" => GateAsked(Append(s, e), what)
  <1>1. /\ DOMAIN Append(s, e) = DOMAIN s \cup {Len(s) + 1} /\ Len(s) + 1 \notin DOMAIN s
        /\ \A i \in DOMAIN s : Append(s, e)[i] = s[i]
        /\ Append(s, e)[Len(s) + 1] = e
    BY GateAppends
  <1> HIDE DEF GateItems
  <1>2. GateNotAsked(s) /\ e.kind = "packet" => GateNotAsked(Append(s, e))
    BY <1>1, Zenon DEF GateNotAsked
  <1>3. ASSUME GateNotAsked(s) PROVE GateAsked(Append(s, e), e.kind)
    <2>1. \A i \in DOMAIN Append(s, e) \ {Len(s) + 1} : Append(s, e)[i].kind = "packet"
      BY <1>1, <1>3, Zenon DEF GateNotAsked
    <2>2. Len(s) + 1 \in DOMAIN Append(s, e) /\ Append(s, e)[Len(s) + 1].kind = e.kind
      BY <1>1, Zenon
    <2> QED BY <2>1, <2>2, Zenon DEF GateAsked
  <1>4. ASSUME NEW what, GateAsked(s, what), e.kind = "packet" PROVE GateAsked(Append(s, e), what)
    <2>1. PICK c \in DOMAIN s : s[c].kind = what /\ \A i \in DOMAIN s \ {c} : s[i].kind = "packet"
      BY <1>4 DEF GateAsked
    <2>2. /\ c \in DOMAIN Append(s, e) /\ Append(s, e)[c].kind = what
          /\ \A i \in DOMAIN Append(s, e) \ {c} : Append(s, e)[i].kind = "packet"
      BY <1>1, <1>4, <2>1, Zenon
    <2> QED BY <2>2, Zenon DEF GateAsked
  <1> QED BY <1>2, <1>3, <1>4, Zenon

LEMMA GateAskedTail ==
  ASSUME NEW s \in Seq(GateItems), s # <<>>
  PROVE  /\ GateNotAsked(s) => GateNotAsked(Tail(s)) /\ Head(s).kind = "packet"
         /\ \A what : GateAsked(s, what) /\ what # "packet" =>
               IF Head(s).kind = "packet" THEN GateAsked(Tail(s), what) /\ Len(s) >= 2
               ELSE GateNotAsked(Tail(s)) /\ Head(s).kind = what
  <1>1. /\ Head(s) = s[1] /\ 1 \in DOMAIN s
        /\ \A i \in DOMAIN Tail(s) : i \in Nat \ {0} /\ i + 1 \in DOMAIN s /\ Tail(s)[i] = s[i + 1]
        /\ \A i \in DOMAIN s : i = 1 \/ (i - 1 \in DOMAIN Tail(s) /\ Tail(s)[i - 1] = s[i])
        /\ \A i \in DOMAIN s : i \in Nat \ {0} /\ i <= Len(s)
    BY GateTails
  <1>2. \A i \in DOMAIN Tail(s) : i + 1 # 1
    BY <1>1
  <1>3. ASSUME GateNotAsked(s) PROVE GateNotAsked(Tail(s)) /\ Head(s).kind = "packet"
    BY <1>1, <1>3, ZenonT(40) DEF GateNotAsked
  <1>4. ASSUME NEW what, GateAsked(s, what), what # "packet"
        PROVE  IF Head(s).kind = "packet" THEN GateAsked(Tail(s), what) /\ Len(s) >= 2
               ELSE GateNotAsked(Tail(s)) /\ Head(s).kind = what
    <2>1. PICK c \in DOMAIN s : s[c].kind = what /\ \A i \in DOMAIN s \ {c} : s[i].kind = "packet"
      BY <1>4 DEF GateAsked
    <2>2. CASE c = 1
      <3>1. \A i \in DOMAIN Tail(s) : Tail(s)[i].kind = "packet"
        <4> TAKE i \in DOMAIN Tail(s)
        <4>1. i + 1 \in DOMAIN s /\ i + 1 # c /\ Tail(s)[i] = s[i + 1]
          BY <1>1, <1>2, <2>2, Zenon
        <4>2. i + 1 \in DOMAIN s \ {c}
          BY <4>1
        <4> QED BY <2>1, <4>1, <4>2, Zenon
      <3> QED BY <1>1, <1>4, <2>1, <2>2, <3>1, Zenon DEF GateNotAsked
    <2>3. CASE c # 1
      <3>1. Head(s).kind = "packet"
        BY <1>1, <2>1, <2>3, Zenon
      <3>2. c - 1 \in DOMAIN Tail(s) /\ Tail(s)[c - 1].kind = what
        BY <1>1, <2>1, <2>3, Zenon
      <3>3. ASSUME NEW i \in DOMAIN Tail(s) \ {c - 1} PROVE Tail(s)[i].kind = "packet"
        <4>1. i + 1 \in DOMAIN s /\ Tail(s)[i] = s[i + 1]
          BY <1>1, Zenon
        <4>2. i + 1 # c
          <5>1. i \in Nat /\ i # c - 1
            BY <1>1, Zenon
          <5>2. c \in Nat
            BY <1>1, Zenon
          <5> QED BY <5>1, <5>2
        <4>3. i + 1 \in DOMAIN s \ {c}
          BY <4>1, <4>2
        <4> QED BY <2>1, <4>1, <4>3, Zenon
      <3>4. Len(s) >= 2
        <4>1. c \in Nat \ {0} /\ c <= Len(s) /\ Len(s) \in Nat
          BY <1>1, GateTails
        <4> QED BY <2>3, <4>1
      <3>5. GateAsked(Tail(s), what)
        BY <3>2, <3>3, Zenon DEF GateAsked
      <3> QED BY <3>1, <3>4, <3>5
    <2> QED BY <2>2, <2>3
  <1> QED BY <1>3, <1>4, Zenon

(* In calm whatever is said after the snapshot is above its sequence. *)
LEMMA GateCurrentKept ==
  ASSUME GateLimits, GateTypes, GatePhases, GateCurrent, gateOverlaps = {}, [Gate!Next]_(Gate!vars)
  PROVE  GateCurrent'
  <1> USE DEF GateCurrent
  <1>1. /\ pending \in Seq(GateItems) /\ queue \in Seq(GateItems)
        /\ roomSeq \in Nat /\ cutover \in Nat
    BY DEF GateTypes, GateItems
  <1>2. GateFresh(<<>>)
    BY DEF GateFresh
  <1>3. ASSUME UNCHANGED cutover, NEW s, GateFresh(s) PROVE GateFresh(s)'
    BY <1>3 DEF GateFresh
  <1>4. ASSUME NEW e \in GatePackets, GateSpoken(e) PROVE GateCurrent'
    <2>1. /\ e \in GateItems /\ e.size = 1 /\ (e.part \in Gate!Covered => e.stamp = roomSeq + 1)
          /\ phase # "snapped" /\ UNCHANGED <<cutover, phase, pending>> /\ cutover <= roomSeq'
      BY <1>1, <1>4 DEF GateSpoken, GateItems
    <2>2. e.part \in Gate!Covered => e.stamp > cutover
      BY <1>1, <2>1
    <2>3. queue' = Append(queue, e) \/ queue' = queue
      BY <1>4 DEF GateSpoken, Gate!TrySend
    <2>4. GateFresh(Append(queue, e))
      BY <1>1, <2>1, <2>2, GateFreshEnds
    <2>5. GateFresh(queue')
      BY <2>3, <2>4
    <2> QED BY <2>1, <2>5 DEF GateFresh
  <1>5. CASE Gate!Snapshot
    <2>1. /\ queue' = <<>> /\ pending' = <<>> /\ gateRoom' = gateRoom /\ snap' = gateRoom
          /\ cutover' = roomSeq /\ roomSeq' = roomSeq
      BY <1>5 DEF Gate!Snapshot, GatePhases, Gate!BeginRoomCutover
    <2> QED BY <1>1, <2>1 DEF GateFresh
  <1>6. CASE Gate!SetSession \/ Gate!Fail \/ Gate!Activated \/ UNCHANGED Gate!vars
    BY <1>6 DEF Gate!SetSession, Gate!Fail, Gate!Activated, Gate!gate, Gate!vars, GateFresh
  <1>7. ASSUME NEW from, NEW to \in {"sending", "activating"}, NEW what \in {"authenticate", "activate"},
               Gate!Ask(from, to, what)
        PROVE  GateCurrent'
    <2> DEFINE e == Gate!Item(what)
    <2>1. e \in GateItems /\ e.kind # "packet"
      BY DEF Gate!Item, GateItems, GateControls
    <2> HIDE DEF e
    <2>2. /\ queue' = Append(queue, e) /\ phase' # "snapped"
          /\ UNCHANGED <<cutover, roomSeq, pending>>
      BY <1>7 DEF Gate!Ask, Gate!gate, e
    <2>3. GateFresh(queue')
      BY <1>1, <2>1, <2>2, GateFreshEnds
    <2> QED BY <2>2, <2>3 DEF GateFresh
  <1>8. ASSUME NEW what, Gate!Takes(what), what # "packet" => pending' = pending \/ pending' = <<>>,
               what = "packet" => Gate!TakePacket,
               UNCHANGED <<cutover, roomSeq, gateRoom, snap>>, phase' = "snapped" => phase = "snapped"
        PROVE  GateCurrent'
    <2>1. /\ queue # <<>> /\ queue' = Tail(queue)
          /\ what = "packet" => Head(queue) \in GatePackets /\ Head(queue) \in GateItems
          /\ Head(queue).kind = what
      BY <1>8, GateTakes DEF GateItems
    <2>2. GateFresh(queue')
      BY <1>1, <2>1, GateFreshEnds
    <2>3. GateFresh(pending')
      <3>1. CASE pending' = pending \/ pending' = <<>>
        BY <1>2, <3>1
      <3>2. CASE what = "packet" /\ ~active
        <4>1. Gate!PushBounded(Head(queue))
          BY <1>8, <3>2 DEF Gate!TakePacket
        <4>2. /\ Head(queue).kind = "packet" => Head(queue).size = 1
              /\ Head(queue).kind = "packet" /\ Head(queue).part \in Gate!Covered
                     => Head(queue).stamp > cutover
          BY <1>1, <2>1, GateFreshEnds
        <4> DEFINE e == Head(queue)
        <4>3. /\ e \in GateItems /\ e \in GatePackets /\ e.size = 1
              /\ e.part \in Gate!Covered => e.stamp > cutover
          BY <2>1, <3>2, <4>2
        <4>4. \/ pending' = <<>>
              \/ pending' = Append(pending, e)
              \/ pending # <<>> /\ pending' = Append(Tail(pending), e)
          BY <2>1, <3>2, <4>1, GatePushes
        <4> HIDE DEF e
        <4>5. CASE pending' = Append(pending, e)
          BY <1>1, <4>3, <4>5, GateFreshEnds
        <4>6. CASE pending # <<>> /\ pending' = Append(Tail(pending), e)
          <5>1. Tail(pending) \in Seq(GateItems) /\ GateFresh(Tail(pending))
            BY <1>1, <4>6, GateFreshEnds, GateTails
          <5> QED BY <4>3, <4>6, <5>1, GateFreshEnds
        <4> QED BY <1>2, <4>4, <4>5, <4>6
      <3>3. CASE what = "packet" /\ active
        BY <1>8, <3>1, <3>3 DEF Gate!TakePacket
      <3> QED BY <1>8, <3>1, <3>2, <3>3
    <2> QED BY <1>8, <2>2, <2>3 DEF GateFresh
  <1>9. CASE Gate!TakePacket
    BY <1>8, <1>9 DEF Gate!TakePacket
  <1>10. CASE Gate!TakeAuthenticate
    BY <1>8, <1>10 DEF Gate!TakeAuthenticate, Gate!gate
  <1>11. CASE Gate!TakeActivate
    BY <1>8, <1>11 DEF Gate!TakeActivate
  <1>12. CASE Gate!Drain
    <2>1. /\ pending # <<>> /\ (pending' = Tail(pending) \/ pending' = <<>>)
          /\ UNCHANGED <<cutover, roomSeq, gateRoom, snap, phase, queue>>
      BY <1>12, GateDrains
    <2>2. GateFresh(pending')
      BY <1>1, <1>2, <2>1, GateFreshEnds
    <2> QED BY <2>1, <2>2 DEF GateFresh
  <1> QED BY <1>4, <1>5, <1>6, <1>7, <1>9, <1>10, <1>11, <1>12, GateSpeaks
          DEF Gate!Next, Gate!SendAuthenticate, Gate!AskActivation

(* In calm the gate never has to drop the oldest event for a new one. *)
LEMMA GateRoomLeft ==
  ASSUME GateLimits, GateTypes, GatePhases, GateCurrent, GateRoomy, bound, ~active, Gate!TakePacket
  PROVE  Head(queue).size = 1 /\ Len(pending) < MaxPending
  <1>1. /\ pending \in Seq(GateItems) /\ queue \in Seq(GateItems)
        /\ Len(pending) \in Nat /\ Len(queue) \in Nat /\ MaxPending \in Nat
    BY DEF GateTypes, GateItems, GateLimits
  <1>2. queue # <<>> /\ Head(queue).kind = "packet" /\ ~draining
    BY GateTakes DEF Gate!TakePacket
  <1>3. Head(queue).size = 1
    BY <1>1, <1>2, GateFreshEnds DEF GateCurrent
  <1>4. phase \in {"bound", "sending", "flushed", "activating"}
    BY DEF GatePhases, GateTypes
  <1>5. CASE phase \in {"bound", "flushed"}
    <2>1. Len(pending) + Len(queue) <= MaxPending /\ Len(queue) >= 1
      BY <1>1, <1>2, <1>5, GateTails DEF GateRoomy
    <2> QED BY <1>1, <1>3, <2>1
  <1>6. CASE phase \in {"sending", "activating"}
    <2>1. /\ Len(pending) + Len(queue) <= MaxPending + 1
          /\ \E w \in {"authenticate", "activate"} : GateAsked(queue, w)
      BY <1>2, <1>6 DEF GateRoomy
    <2>2. Len(queue) >= 2
      BY <1>1, <1>2, <2>1, GateAskedTail
    <2> QED BY <1>1, <1>3, <2>1, <2>2
  <1> QED BY <1>4, <1>5, <1>6

(* What the queue holds before the buffer is emptied still fits into it. *)
LEMMA GateRoomyKept ==
  ASSUME GateLimits, GateTypes, GatePhases, GateCurrent, gateOverlaps = {},
         bound /\ gateOpen => ~overflowed /\ GateRoomy, [Gate!Next]_(Gate!vars), bound', gateOpen'
  PROVE  ~overflowed' /\ GateRoomy'
  <1> USE DEF GateRoomy
  <1>1. /\ pending \in Seq(GateItems) /\ queue \in Seq(GateItems)
        /\ Len(pending) \in Nat /\ Len(queue) \in Nat /\ MaxPending \in Nat
    BY DEF GateTypes, GateItems, GateLimits
  <1>2. ASSUME NEW e \in GatePackets, GateSpoken(e) PROVE ~overflowed' /\ GateRoomy'
    <2>1. /\ e \in GateItems /\ e.kind = "packet" /\ bound /\ gateOpen
          /\ UNCHANGED <<phase, pending, overflowed, draining, active>>
          /\ Len(pending) + Len(queue) < MaxPending \/ active
      BY <1>2 DEF GateSpoken, GateItems, GatePackets, Gate!TrySend
    <2>2. queue' = Append(queue, e)
      BY <1>2, <2>1 DEF GateSpoken, Gate!TrySend, Gate!Reaches
    <2>3. /\ GateNotAsked(queue) => GateNotAsked(queue')
          /\ \A what : GateAsked(queue, what) => GateAsked(queue', what)
          /\ Len(queue') = Len(queue) + 1
      BY <1>1, <2>1, <2>2, GateAskedAppend, GateAppends
    <2> HIDE DEF GateRoomy
    <2>4. ~overflowed /\ GateRoomy
      BY <2>1
    <2> QED BY <1>1, <2>1, <2>3, <2>4 DEF GateRoomy
  <1>3. CASE Gate!Snapshot \/ Gate!Fail
    BY <1>3 DEF Gate!Snapshot, Gate!Fail, GatePhases
  <1>4. CASE Gate!SetSession
    <2>1. /\ queue' = <<>> /\ pending' = <<>> /\ ~draining' /\ ~active' /\ ~overflowed' /\ phase' = "bound"
      BY <1>4 DEF Gate!SetSession, Gate!gate, GatePhases
    <2>2. Len(queue') = 0 /\ Len(pending') = 0 /\ GateNotAsked(queue')
      BY <2>1 DEF GateNotAsked
    <2> QED BY <1>1, <2>1, <2>2
  <1>5. ASSUME NEW from, NEW to, NEW what, Gate!Ask(from, to, what),
               \/ from = "bound" /\ to = "sending" /\ what = "authenticate"
               \/ from = "flushed" /\ to = "activating" /\ what = "activate"
        PROVE  ~overflowed' /\ GateRoomy'
    <2> DEFINE e == Gate!Item(what)
    <2>1. e \in GateItems /\ e.kind = what
      BY <1>5 DEF Gate!Item, GateItems, GateControls
    <2> HIDE DEF e
    <2>2. /\ queue' = Append(queue, e) /\ phase = from /\ phase' = to /\ bound /\ gateOpen
          /\ UNCHANGED <<pending, overflowed, draining, active>>
      BY <1>5 DEF Gate!Ask, Gate!gate, e
    <2>3. GateNotAsked(queue) => GateAsked(queue', what)
      BY <1>1, <2>1, <2>2, GateAskedAppend
    <2>4. Len(queue') = Len(queue) + 1
      BY <1>1, <2>1, <2>2, GateAppends
    <2> QED BY <1>1, <1>5, <2>2, <2>3, <2>4
  <1>6. ASSUME NEW what \in {"packet", "authenticate", "activate"}, Gate!Takes(what)
        PROVE  /\ Head(queue).kind = what /\ Len(queue') = Len(queue) - 1 /\ ~draining
               /\ GateNotAsked(queue) => what = "packet" /\ GateNotAsked(queue')
               /\ \A w \in {"authenticate", "activate"} : GateAsked(queue, w) =>
                     IF what = "packet" THEN GateAsked(queue', w) /\ Len(queue) >= 2
                     ELSE GateNotAsked(queue') /\ what = w
    <2>1. /\ queue # <<>> /\ queue' = Tail(queue) /\ Head(queue).kind = what /\ ~draining
      BY <1>6, GateTakes
    <2> QED BY <1>1, <2>1, GateAskedTail, GateTails
  <1>7. CASE Gate!TakePacket
    <2>1. /\ Gate!Takes("packet") /\ bound /\ gateOpen /\ UNCHANGED <<phase, draining, active>>
          /\ Head(queue) \in GatePackets
      BY <1>7, GateTakes DEF Gate!TakePacket
    <2>2. ~overflowed /\ GateRoomy
      BY <2>1
    <2>3. CASE active
      <3>1. UNCHANGED <<overflowed, pending>>
        BY <1>7, <2>3 DEF Gate!TakePacket
      <3> QED BY <1>6, <2>1, <2>2, <2>3, <3>1
    <2>4. CASE ~active
      <3>1. Gate!PushBounded(Head(queue))
        BY <1>7, <2>4 DEF Gate!TakePacket
      <3>2. Head(queue).size = 1 /\ Len(pending) < MaxPending
        BY <1>7, <2>1, <2>2, <2>4, GateRoomLeft
      <3>3. phase \in {"bound", "sending", "flushed", "activating"}
        BY <2>1, <2>2, <2>4 DEF GatePhases, GateTypes
      <3>5. pending' = Append(pending, Head(queue)) /\ UNCHANGED overflowed
        <4> DEFINE e == Head(queue)
        <4>1. e \in GatePackets /\ e.size = 1 /\ Gate!PushBounded(e)
          BY <2>1, <3>1, <3>2
        <4> HIDE DEF e
        <4>2. /\ ~(e.size > MaxPending) /\ ~(Len(pending) >= MaxPending)
          BY <1>1, <3>2, <4>1
        <4>3. pending' = Append(pending, e) /\ UNCHANGED overflowed
          BY <4>1, <4>2, GatePushes
        <4> QED BY <4>3 DEF e
      <3>6. Len(pending') = Len(pending) + 1
        BY <1>1, <2>1, <3>5, GateAppends DEF GateItems
      <3> HIDE DEF GateRoomy
      <3>7. Len(pending') + Len(queue') = Len(pending) + Len(queue)
        BY <1>1, <1>6, <2>1, <3>6
      <3> QED BY <1>6, <2>1, <2>2, <2>4, <3>3, <3>5, <3>7 DEF GateRoomy
    <2> QED BY <2>3, <2>4
  <1>8. CASE Gate!TakeAuthenticate
    <2>1. /\ Gate!Takes("authenticate") /\ bound /\ gateOpen /\ ~overflowed /\ GateRoomy
          /\ UNCHANGED <<pending, overflowed, draining, active>>
          /\ phase' = IF phase = "sending" THEN "flushed" ELSE phase
      BY <1>8 DEF Gate!TakeAuthenticate, Gate!gate
    <2>2. phase = "sending"
      BY <1>6, <2>1 DEF GatePhases, GateTypes
    <2> QED BY <1>1, <1>6, <2>1, <2>2
  <1>9. CASE Gate!TakeActivate
    <2>1. /\ Gate!Takes("activate") /\ bound /\ gateOpen /\ ~overflowed /\ GateRoomy
          /\ UNCHANGED <<phase, overflowed, active>>
      BY <1>9 DEF Gate!TakeActivate
    <2>2. phase = "activating"
      BY <1>6, <2>1 DEF GatePhases, GateTypes
    <2>3. draining'
      BY <1>9, <2>1 DEF Gate!TakeActivate
    <2> QED BY <1>6, <2>1, <2>2, <2>3
  <1>10. CASE Gate!Drain
    <2>1. /\ draining /\ UNCHANGED <<phase, bound, overflowed, queue, active, gateOpen>>
      BY <1>10, GateDrains
    <2>2. UNCHANGED draining
      BY <1>10, <2>1, GateDrains
    <2>3. phase = "activating"
      BY <2>1 DEF GatePhases, GateTypes
    <2> QED BY <2>1, <2>2, <2>3
  <1>11. CASE Gate!Activated
    <2>1. /\ draining /\ ~draining' /\ active' /\ UNCHANGED <<queue, pending, overflowed>>
          /\ phase' = IF phase = "activating" THEN "active" ELSE phase
          /\ ~overflowed /\ GateRoomy /\ bound
      BY <1>11 DEF Gate!Activated
    <2>2. phase = "activating"
      BY <2>1 DEF GatePhases, GateTypes
    <2> QED BY <2>1, <2>2
  <1>12. CASE UNCHANGED Gate!vars
    BY <1>12 DEF Gate!vars
  <1> QED BY <1>2, <1>3, <1>4, <1>5, <1>7, <1>8, <1>9, <1>10, <1>11, <1>12, GateSpeaks
          DEF Gate!Next, Gate!SendAuthenticate, Gate!AskActivation

\* What is told of a part, wherever it is.
GateAll(p) == GateTold(wire, p) \cup GateTold(pending, p) \cup GateTold(queue, p)

(* In calm a step that writes, keeps or queues an event loses none. *)
LEMMA GateWholeKept ==
  ASSUME GateLimits, GateTypes, GatePhases, GateCurrent, gateOverlaps = {},
         bound /\ gateOpen => ~overflowed /\ GateRoomy /\ GateWhole, [Gate!Next]_(Gate!vars),
         bound', gateOpen', ~overflowed'
  PROVE  GateWhole'
  <1> SUFFICES ASSUME NEW p \in Gate!Parts PROVE (snap[p] + 1 .. gateRoom[p])' \subseteq GateAll(p)'
    BY DEF GateWhole, GateAll
  <1> USE DEF GateAll
  <1>1. /\ wire \in Seq(GateItems) /\ pending \in Seq(GateItems) /\ queue \in Seq(GateItems)
        /\ pending \in Seq(GatePackets) /\ snap[p] \in Nat /\ gateRoom[p] \in Nat
        /\ roomSeq \in Nat /\ cutover \in Nat /\ MaxPending \in Nat
    BY DEF GateTypes, GateItems, GateLimits
  <1>2. bound /\ gateOpen => (snap[p] + 1 .. gateRoom[p]) \subseteq GateAll(p)
    BY DEF GateWhole
  <1>3. ASSUME UNCHANGED <<snap, gateRoom>>, bound, gateOpen, GateAll(p) \subseteq GateAll(p)'
        PROVE  (snap[p] + 1 .. gateRoom[p])' \subseteq GateAll(p)'
    BY <1>2, <1>3
  <1>4. ASSUME NEW e \in GatePackets, GateSpoken(e)
        PROVE  (snap[p] + 1 .. gateRoom[p])' \subseteq GateAll(p)'
    <2>1. /\ e \in GateItems /\ e.kind = "packet" /\ bound /\ gateOpen /\ e.part \in Gate!Parts
          /\ UNCHANGED <<snap, wire, pending>> /\ e.version = gateRoom[e.part] + 1
          /\ gateRoom' = [gateRoom EXCEPT ![e.part] = @ + 1]
      BY <1>4 DEF GateSpoken, GateItems, GatePackets, Gate!TrySend
    <2>2. queue' = Append(queue, e)
      BY <1>4, <2>1 DEF GateSpoken, Gate!TrySend, Gate!Reaches
    <2>3. GateTold(queue', p) = GateTold(queue, p) \cup GateSays(e, p)
      BY <1>1, <2>1, <2>2, GateToldAppend
    <2>4. \/ gateRoom'[p] = gateRoom[p]
          \/ gateRoom'[p] = gateRoom[p] + 1 /\ gateRoom[p] + 1 \in GateSays(e, p)
      BY <1>1, <2>1 DEF GateTypes, GateSays
    <2>5. GateAll(p)' = GateAll(p) \cup GateSays(e, p)
      BY <2>1, <2>3
    <2> HIDE DEF GateAll
    <2>6. \A v \in (snap[p] + 1 .. gateRoom[p])' :
              v \in snap[p] + 1 .. gateRoom[p] \/ v \in GateSays(e, p)
      BY <1>1, <2>1, <2>4
    <2> QED BY <1>2, <2>1, <2>5, <2>6
  <1>5. CASE Gate!Snapshot \/ Gate!Fail
    BY <1>5 DEF Gate!Snapshot, Gate!Fail, GatePhases
  <1>6. CASE Gate!SetSession
    <2>1. gateRoom = snap /\ UNCHANGED <<gateRoom, snap>>
      BY <1>6 DEF Gate!SetSession, GateCurrent
    <2>2. \A v : v \notin (snap[p] + 1 .. gateRoom[p])'
      BY <1>1, <2>1
    <2> QED BY <2>2
  <1>7. ASSUME NEW from, NEW to, NEW what \in {"authenticate", "activate"}, Gate!Ask(from, to, what)
        PROVE  (snap[p] + 1 .. gateRoom[p])' \subseteq GateAll(p)'
    <2> DEFINE e == Gate!Item(what)
    <2>1. e \in GateItems
      BY DEF Gate!Item, GateItems, GateControls
    <2> HIDE DEF e
    <2>2. /\ queue' = Append(queue, e) /\ bound /\ gateOpen
          /\ UNCHANGED <<snap, gateRoom, wire, pending>>
      BY <1>7 DEF Gate!Ask, Gate!gate, e
    <2>3. GateTold(queue', p) = GateTold(queue, p) \cup GateSays(e, p)
      BY <1>1, <2>1, <2>2, GateToldAppend
    <2> QED BY <1>3, <2>2, <2>3
  <1>8. ASSUME NEW what, Gate!Takes(what)
        PROVE  /\ Head(queue) \in GateItems /\ Head(queue).kind = what
               /\ GateTold(queue, p) = GateSays(Head(queue), p) \cup GateTold(queue', p)
               /\ what # "packet" => GateSays(Head(queue), p) = {}
    <2>1. /\ queue # <<>> /\ queue' = Tail(queue) /\ Head(queue) \in GateItems
          /\ Head(queue).kind = what
      BY <1>8, GateTakes
    <2> QED BY <1>1, <2>1, GateToldTail DEF GateSays
  <1>9. CASE Gate!TakePacket
    <2> DEFINE e == Head(queue)
    <2>1. /\ Gate!Takes("packet") /\ bound /\ gateOpen /\ UNCHANGED <<snap, gateRoom>>
          /\ e \in GatePackets /\ e \in GateItems
      BY <1>9, GateTakes DEF Gate!TakePacket, GateItems
    <2>2. GateTold(queue, p) = GateSays(e, p) \cup GateTold(queue', p)
      BY <1>8, <2>1
    <2>3. CASE active
      <3>1. wire' = Append(wire, e) /\ UNCHANGED pending
        BY <1>9, <2>1, <2>3 DEF Gate!TakePacket, Gate!Write
      <3> HIDE DEF e
      <3>2. GateTold(wire', p) = GateTold(wire, p) \cup GateSays(e, p)
        BY <1>1, <2>1, <3>1, GateToldAppend
      <3>3. GateAll(p) \subseteq GateAll(p)'
        BY <2>2, <3>1, <3>2
      <3> QED BY <1>3, <2>1, <3>3
    <2>4. CASE ~active
      <3>1. /\ pending' = Append(pending, e) /\ UNCHANGED wire
        <4>1. Gate!PushBounded(e) /\ UNCHANGED wire /\ ~overflowed
          BY <1>9, <2>1, <2>4 DEF Gate!TakePacket
        <4>2. Len(pending) < MaxPending /\ e.size = 1
          BY <1>9, <2>1, <2>4, GateRoomLeft
        <4> HIDE DEF e
        <4>3. ~(e.size > MaxPending) /\ ~(Len(pending) >= MaxPending)
          <5>1. Len(pending) \in Nat
            BY <1>1
          <5> QED BY <1>1, <4>2, <5>1
        <4> QED BY <2>1, <4>1, <4>3, GatePushes
      <3> HIDE DEF e
      <3>2. GateTold(pending', p) = GateTold(pending, p) \cup GateSays(e, p)
        BY <1>1, <2>1, <3>1, GateToldAppend
      <3>3. GateAll(p) \subseteq GateAll(p)'
        BY <2>2, <3>1, <3>2
      <3> QED BY <1>3, <2>1, <3>3
    <2> QED BY <2>3, <2>4
  <1>10. CASE Gate!TakeAuthenticate
    <2> DEFINE e == Head(queue)
    <2>1. /\ Gate!Takes("authenticate") /\ bound /\ gateOpen
          /\ UNCHANGED <<snap, gateRoom, pending>>
      BY <1>10 DEF Gate!TakeAuthenticate, Gate!gate
    <2>2. /\ e \in GateItems /\ GateTold(queue, p) = GateSays(e, p) \cup GateTold(queue', p)
      BY <1>8, <2>1
    <2>3. wire' = Append(wire, e)
      BY <1>10, <2>1 DEF Gate!TakeAuthenticate, Gate!Write
    <2> HIDE DEF e
    <2>4. GateTold(wire', p) = GateTold(wire, p) \cup GateSays(e, p)
      BY <1>1, <2>2, <2>3, GateToldAppend
    <2> QED BY <1>3, <2>1, <2>2, <2>4
  <1>11. CASE Gate!TakeActivate
    <2>1. /\ Gate!Takes("activate") /\ bound /\ gateOpen /\ ~overflowed
          /\ UNCHANGED <<snap, gateRoom, wire>>
      BY <1>11 DEF Gate!TakeActivate
    <2>2. UNCHANGED pending
      BY <1>11, <2>1 DEF Gate!TakeActivate
    <2>3. GateTold(queue, p) \subseteq GateTold(queue', p)
      BY <1>8, <2>1
    <2> QED BY <1>3, <2>1, <2>2, <2>3
  <1>12. CASE Gate!Drain
    <2> DEFINE e == Head(pending)
    <2>1. /\ pending # <<>> /\ e \in GatePackets /\ e \in GateItems /\ bound /\ gateOpen
          /\ UNCHANGED <<snap, gateRoom, queue>>
      BY <1>12, GateDrains DEF GateItems
    <2>2. ~Gate!SnapshotHas(e)
      <3>1. GateFresh(pending) /\ e.kind = "packet" /\ e.stamp \in Nat
        BY <2>1 DEF GateCurrent, GatePackets
      <3>2. e.part \in Gate!Covered => e.stamp > cutover
        BY <1>1, <2>1, <3>1, GateFreshEnds
      <3> HIDE DEF e
      <3> QED BY <1>1, <3>1, <3>2 DEF Gate!SnapshotHas
    <2>3. wire' = Append(wire, e) /\ pending' = Tail(pending)
      <3>1. pending' = Tail(pending)
        BY <1>12, <2>1 DEF Gate!Drain
      <3> QED BY <1>12, <2>1, <2>2, <3>1, GateDrains
    <2>4. GateTold(pending, p) = GateSays(e, p) \cup GateTold(pending', p)
      BY <1>1, <2>1, <2>3, GateToldTail
    <2> HIDE DEF e
    <2>5. GateTold(wire', p) = GateTold(wire, p) \cup GateSays(e, p)
      BY <1>1, <2>1, <2>3, GateToldAppend
    <2> QED BY <1>3, <2>1, <2>4, <2>5
  <1>13. CASE Gate!Activated
    BY <1>3, <1>13 DEF Gate!Activated
  <1>14. CASE UNCHANGED Gate!vars
    BY <1>3, <1>14 DEF Gate!vars
  <1> QED BY <1>4, <1>5, <1>6, <1>7, <1>9, <1>10, <1>11, <1>12, <1>13, <1>14, GateSpeaks
          DEF Gate!Next, Gate!SendAuthenticate, Gate!AskActivation

-----------------------------------------------------------------------------
(* Nothing has been said at the start. *)
LEMMA GateInit == GateLimits /\ Gate!Init => GateInv
  <1> SUFFICES ASSUME GateLimits, Gate!Init PROVE GateInv
    OBVIOUS
  <1>1. /\ queue = <<>> /\ pending = <<>> /\ wire = <<>> /\ phase = "accepted" /\ ~bound
        /\ gateRoom = [p \in Gate!Parts |-> 0] /\ snap = gateRoom /\ roomSeq = 0 /\ cutover = 0
        /\ ~draining /\ ~active /\ ~overflowed
    BY DEF Gate!Init
  <1>2. GateTypes
    <2>1. queue \in Seq(GateItems) /\ pending \in Seq(GatePackets) /\ wire \in Seq(GateItems)
      BY <1>1
    <2> QED BY <1>1, <2>1 DEF GateTypes
  <1>3. GatePhases
    BY <1>1 DEF GatePhases
  <1>4. GateOrder
    BY <1>1, GateEmpty DEF GateOrder, GateOrderOf, GateBefore
  <1>5. GateCalm
    BY <1>1 DEF GateCalm, GateCurrent, GateFresh
  <1> QED BY <1>2, <1>3, <1>4, <1>5 DEF GateInv

(* The parts together. *)
LEMMA GateKept ==
  ASSUME GateLimits, GateInv, [Gate!Next]_(Gate!vars)
  PROVE  GateInv'
  <1> USE DEF GateInv
  <1>1. GateTypes' /\ GatePhases' /\ GateOrder'
    BY GateTypesKept, GatePhasesKept, GateOrderKept
  <1>2. UNCHANGED gateOverlaps
    BY DEF Gate!Next, Gate!vars, Gate!Command, Gate!Leave, Gate!Talk, Gate!Says, Gate!Snapshot,
           Gate!SetSession, Gate!SendAuthenticate, Gate!AskActivation, Gate!Ask, Gate!Fail,
           Gate!TakePacket, Gate!TakeAuthenticate, Gate!TakeActivate, Gate!Drain, Gate!Activated
  <1>3. ASSUME gateOverlaps = {}
        PROVE  GateCurrent' /\ (bound' /\ gateOpen' => ~overflowed' /\ GateRoomy' /\ GateWhole')
    BY <1>3, GateCurrentKept, GateRoomyKept, GateWholeKept DEF GateCalm
  <1> QED BY <1>1, <1>2, <1>3 DEF GateCalm

(* When everything is delivered, all of it is on the wire. *)
LEMMA GateInvTells == GateInv => GateIfCalm
  <1> SUFFICES ASSUME GateInv PROVE GateIfCalm
    OBVIOUS
  <1> USE DEF GateInv
  <1>1. ASSUME NEW p \in Gate!Parts
        PROVE  /\ Gate!Increasing(wire, p)
               /\ \A i \in Gate!Places(wire, p) : wire[i].version > snap[p]
    <2>1. \A i \in Gate!Places(wire, p) : wire[i].version \in GateTold(wire, p)
      BY DEF GateTold
    <2>2. \A v \in GateTold(wire, p) : v \in Nat
      BY GateToldNumbers DEF GateTypes
    <2> QED BY <2>1, <2>2 DEF GateOrder, GateOrderOf, GateTypes
  <1>2. Gate!HeardInOrder
    BY <1>1 DEF Gate!HeardInOrder, GatePhases
  <1>3. ASSUME gateOverlaps = {}, Gate!Settled, NEW p \in Gate!Parts
        PROVE  {wire[i].version : i \in Gate!Places(wire, p)} = snap[p] + 1 .. gateRoom[p]
    <2>1. bound /\ gateOpen /\ queue = <<>> /\ pending = <<>>
      BY <1>3 DEF Gate!Settled, GatePhases
    <2>2. GateTold(queue, p) = {} /\ GateTold(pending, p) = {}
      BY <2>1, GateEmpty
    <2>3. snap[p] + 1 .. gateRoom[p] \subseteq GateTold(wire, p)
      BY <1>3, <2>1, <2>2 DEF GateCalm, GateWhole
    <2>4. \A v \in GateTold(wire, p) : v \in snap[p] + 1 .. gateRoom[p]
      <3>1. \A v \in GateTold(wire, p) : v \in Nat
        BY GateToldNumbers DEF GateTypes
      <3> QED BY <3>1 DEF GateOrder, GateOrderOf, GateTypes
    <2> QED BY <2>3, <2>4 DEF GateTold
  <1> QED BY <1>2, <1>3 DEF GateIfCalm, Gate!CompleteIfCalm, Gate!Complete

(* Whatever overlaps, a client hears Authenticate first and of each part of  *)
(* its room only what is newer than its snapshot, in order; and all of it,   *)
(* if the room does not change between the snapshot and the binding, nobody  *)
(* leaves behind the actor, and the buffer is large enough (session.rs).     *)
THEOREM GateIfCalmHolds ==
  ASSUME GateLimits
  PROVE  Spec => []GateIfCalm
  <1>1. Init => GateInv
    BY GateInit DEF Init
  <1>2. GateInv /\ [Next]_vars => GateInv'
    <2>1. [Next]_vars => [Gate!Next]_(Gate!vars)
      BY DEF Next, vars, OfCommands, OfGate, OfMonitors, OfPhira, OfServer, gateVars, Gate!vars
    <2> QED BY <2>1, GateKept
  <1>3. GateInv => GateIfCalm
    BY GateInvTells
  <1> QED BY <1>1, <1>2, <1>3, PTL DEF Spec
=============================================================================
