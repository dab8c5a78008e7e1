----------------------------- MODULE MCConnection -----------------------------
(***************************************************************************)
(* What surrounds one connection, one component at a time: the commands it *)
(* sends, the gate of what it hears, the monitors, the requests to the     *)
(* Phira service, and the tasks of the server with its shutdown.  They     *)
(* share no variable here, so a behaviour is one of the component that     *)
(* `focus' names, while the others stay where they began.                  *)
(***************************************************************************)
EXTENDS Naturals

CONSTANTS Commands, MaxEvents, MaxPending, Capacity, Monitors, NoOne,
          GateOverlaps, Calls, MaxRetries, Timeout, BaseBackoff, MaxBackoff, Threshold,
          OpenFor, Budget, MaxTime, Tasks, Critical, Ordered

VARIABLES focus

\* CommandPath
VARIABLES overtaken, kind, due, dispatch, worker, room, reply, effect, told,
          alive, current, open
commandVars == <<overtaken, kind, due, dispatch, worker, room, reply,
                 effect, told, alive, current, open>>
Command == INSTANCE CommandPath WITH Environments <- BOOLEAN

\* OutboundGate
VARIABLES gateOverlaps, gateRoom, roomSeq, phase, snap, bound, queue, pending,
          cutover, overflowed, draining, active, wire, gateOpen
gateVars == <<gateOverlaps, gateRoom, roomSeq, phase, snap, bound, queue,
              pending, cutover, overflowed, draining, active, wire,
              gateOpen>>
Gate == INSTANCE OutboundGate WITH
            Overlaps <- GateOverlaps, overlaps <- gateOverlaps, room <- gateRoom, open <- gateOpen

\* MonitorAuth
VARIABLES overlap, as, step, slot, users, table, lost
monitorVars == <<overlap, as, step, slot, users, table, lost>>
Monitor == INSTANCE MonitorAuth WITH Overlaps <- BOOLEAN

\* PhiraClient
VARIABLES phiraOverlaps, now, call, failures, openUntil, tally
phiraVars == <<phiraOverlaps, now, call, failures, openUntil, tally>>
Phira == INSTANCE PhiraClient WITH Overlaps <- BOOLEAN, overlaps <- phiraOverlaps

\* Shutdown
VARIABLES life, held, mail, sup, phaseFlag, counted, stage, left, owed,
          persistenceOk
serverVars == <<life, held, mail, sup, phaseFlag, counted, stage, left, owed,
                persistenceOk>>
Server == INSTANCE Shutdown

vars == <<focus, commandVars, gateVars, monitorVars, phiraVars, serverVars>>

Foci == {"commands", "gate", "monitors", "phira", "server"}

\* A bound: one command of any kind, among ordinary ones.
OneOfInterest == \E c \in Commands : \A d \in Commands \ {c} : kind[d] = "change"

\* A component that is not in focus is in one of its initial states.
Init ==
    /\ focus \in Foci
    /\ Command!Init /\ OneOfInterest
    /\ focus # "commands" => /\ ~overtaken
                             /\ kind = [c \in Commands |-> "change"]
    /\ Gate!Init /\ (focus # "gate" => gateOverlaps = {})
    /\ Monitor!Init
    /\ focus # "monitors" => ~overlap /\ as = [m \in Monitors |-> "room"]
    /\ Phira!Init /\ (focus # "phira" => ~phiraOverlaps)
    /\ Server!Init

OfCommands(A) ==
    focus = "commands" /\ A /\ UNCHANGED <<focus, gateVars, monitorVars, phiraVars, serverVars>>
OfGate ==
    focus = "gate" /\ Gate!Next
    /\ UNCHANGED <<focus, commandVars, monitorVars, phiraVars, serverVars>>
OfMonitors ==
    focus = "monitors" /\ Monitor!Next
    /\ UNCHANGED <<focus, commandVars, gateVars, phiraVars, serverVars>>
OfPhira ==
    focus = "phira" /\ Phira!Next
    /\ UNCHANGED <<focus, commandVars, gateVars, monitorVars, serverVars>>
OfServer(A) ==
    focus = "server" /\ A /\ UNCHANGED <<focus, commandVars, gateVars, monitorVars, phiraVars>>

Next == OfCommands(Command!Next) \/ OfGate \/ OfMonitors \/ OfPhira \/ OfServer(Server!Next)

\* The fairness of CommandPath and of Shutdown, for the one in focus.
Fairness ==
    /\ \A c \in Commands :
          /\ WF_vars(OfCommands(Command!TimePasses(c)))
          /\ WF_vars(OfCommands(Command!DispatchStep(c)))
          /\ WF_vars(OfCommands(Command!WorkerStep(c)))
          /\ WF_vars(OfCommands(Command!RoomStep(c)))
    /\ WF_vars(OfServer(~Server!Exited /\ Server!TakeRegister))
    /\ WF_vars(OfServer(~Server!Exited /\ Server!TakeShutdown))
    /\ WF_vars(OfServer(~Server!Exited /\ Server!Reap))
    /\ \A t \in Tasks : WF_vars(OfServer(~Server!Exited /\ Server!Register(t)))
    /\ WF_vars(OfServer(~Server!Exited /\ Server!Phase))
    /\ WF_vars(OfServer(~Server!Exited /\ Server!PassOver))
    /\ WF_vars(OfServer(~Server!Exited /\ Server!StopTasks))
    /\ WF_vars(OfServer(~Server!Exited /\ Server!TasksStopped))

Spec == Init /\ [][Next]_vars /\ Fairness
-----------------------------------------------------------------------------
(* An error means that the command was not done and will not be, though some *)
(* kinds leave traces, an agreement that it was done, and nothing of a       *)
(* replaced session or after its deadline begins in a room (session_actor.rs,*)
(* room_actor/handler.rs).                                                   *)
CommandAnswersAreTrue ==
    /\ [](Command!ErrorMeansNotDoneInTime /\ Command!OkMeansDone)
    /\ Command!NothingStaleBegins

(* A command that was taken is answered, or its connection closed            *)
(* (session_actor.rs: no "silent drop").                                     *)
EveryCommandIsAnswered == Command!EveryCommandIsAnswered

(* A client hears Authenticate first, then of each part of its room what the *)
(* snapshot lacks: in order, and all of it where nothing overlaps that the   *)
(* gate does not provide for (session.rs, OutboundGate).                     *)
GateIfCalm == Gate!HeardInOrder /\ Gate!CompleteIfCalm

(* There is one room monitor, if authentications do not overlap (session.rs, *)
(* the check of room_monitor).                                               *)
OneRoomMonitorInTurn == Monitor!OneRoomMonitorInTurn

(* A call to Phira is over one request after its deadline at the latest, an  *)
(* open breaker lets nothing through where no calls overlap, and each is     *)
(* counted once, unless its caller dropped it (phira_client.rs).             *)
PhiraIfCalm == []Phira!AtMostOneRequestOver /\ Phira!RestsIfCalm

(* The end of a critical task while the server serves is noticed             *)
(* (supervisor_actor.rs).                                                    *)
CriticalEndsAreCounted == Server!CriticalEndsAreCounted
=============================================================================
