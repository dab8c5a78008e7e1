----------------------------- MODULE MonitorAuth -----------------------------
(* The sessions that are no players (session.rs): the room monitor, which    *)
(* knows a shared key and is one for the server; the game monitors, which    *)
(* stand under the negated id of an account; and the console.  The way of    *)
(* their authentication is that of a player without the log.  `overlap'      *)
(* tells whether a second one may begin while one is under way.              *)
EXTENDS FiniteSets

CONSTANTS Monitors, NoOne, Overlaps

VARIABLES overlap,
          as,        \* what each connection asks to be: "room", "game" or "console"
          step,      \* how far each is
          slot,      \* room_monitor, a Weak
          users,     \* server.users at the negated id: whose User object
          table,     \* game_monitors at it, a Weak
          lost       \* notices for the lost-connection worker

vars == <<overlap, as, step, slot, users, table, lost>>

Init ==
    /\ overlap \in Overlaps
    /\ as \in [Monitors -> {"room", "game", "console"}]
    /\ step = [m \in Monitors |-> "new"]
    /\ slot = NoOne /\ users = NoOne /\ table = NoOne
    /\ lost = {}

UnderWay(m) == step[m] \in {"checked", "bound", "flushed"}

\* Weak::upgrade succeeds until the session is out of the table of sessions.
Alive(m) == m # NoOne /\ (step[m] \in {"bound", "flushed", "active"} \/ m \in lost)

Goes(m, there) == step' = [step EXCEPT ![m] = there]

(* Mutant: the answer of the lookup is not looked at. *)
Check_Blind(m) ==
    /\ step[m] = "new"
    /\ overlap \/ ~(\E other \in Monitors : UnderWay(other))
    /\ Goes(m, "checked") \/ Goes(m, "refused")
    /\ UNCHANGED <<overlap, as, slot, users, table, lost>>

\* "more than one room monitor"; or a key, a token or the web service that
\* says no.
Check(m) ==
    /\ step[m] = "new"
    /\ overlap \/ ~(\E other \in Monitors : UnderWay(other))
    /\ \/ ~(as[m] = "room" /\ Alive(slot)) /\ Goes(m, "checked")
       \/ Goes(m, "refused")
    /\ UNCHANGED <<overlap, as, slot, users, table, lost>>

\* After the session is built it is bound, and entered where its kind belongs:
\* a console nowhere, the room monitor in its slot whoever stands there, a
\* game monitor in users and in game_monitors.
BindAs(m, kind) == as[m] = kind /\ step[m] = "checked" /\ Goes(m, "bound")

BindConsole(m) ==
    /\ BindAs(m, "console")
    /\ UNCHANGED <<overlap, as, slot, users, table, lost>>

BindRoom(m) ==
    /\ BindAs(m, "room")
    /\ slot' = m
    /\ UNCHANGED <<overlap, as, users, table, lost>>

BindGame(m) ==
    /\ BindAs(m, "game")
    /\ users' = m /\ table' = m
    /\ UNCHANGED <<overlap, as, slot, lost>>

\* Authenticate(Ok) is on the wire; then the gate is open.
Flush(m) ==
    /\ step[m] = "bound" /\ Goes(m, "flushed")
    /\ UNCHANGED <<overlap, as, slot, users, table, lost>>

Activate(m) ==
    /\ step[m] = "flushed" /\ Goes(m, "active")
    /\ UNCHANGED <<overlap, as, slot, users, table, lost>>

\* A deadline, the time of the gate, the flush or the draining: the slot and
\* the table are cleared whoever stands there, users only of its own object.
FailAs(m, kind) == as[m] = kind /\ step[m] \in {"bound", "flushed"} /\ Goes(m, "failed")

FailConsole(m) ==
    /\ FailAs(m, "console")
    /\ UNCHANGED <<overlap, as, slot, users, table, lost>>

FailRoom(m) ==
    /\ FailAs(m, "room")
    /\ slot' = NoOne
    /\ UNCHANGED <<overlap, as, users, table, lost>>

FailGame(m) ==
    /\ FailAs(m, "game")
    /\ table' = NoOne
    /\ users' = IF users = m THEN NoOne ELSE users
    /\ UNCHANGED <<overlap, as, slot, lost>>

\* The connection ends; the worker finds out and forgets the session.
Disconnect(m) ==
    /\ step[m] = "active"
    /\ Goes(m, "closed") /\ lost' = lost \cup {m}
    /\ UNCHANGED <<overlap, as, slot, users, table>>

Dangle(m) ==
    /\ m \in lost /\ lost' = lost \ {m}
    /\ Goes(m, "gone")
    /\ users' = IF as[m] = "game" /\ users = m THEN NoOne ELSE users
    /\ table' = IF as[m] = "game" /\ table = m THEN NoOne ELSE table
    /\ UNCHANGED <<overlap, as, slot>>

Next == \E m \in Monitors : \/ Check(m) \/ Flush(m) \/ Activate(m)
                            \/ BindConsole(m) \/ BindRoom(m) \/ BindGame(m)
                            \/ FailConsole(m) \/ FailRoom(m) \/ FailGame(m)
                            \/ Disconnect(m) \/ Dangle(m)

Spec == Init /\ [][Next]_vars
-----------------------------------------------------------------------------
InService(m, kind) == as[m] = kind /\ step[m] = "active"

(* Whoever is in service as the room monitor is the one the server sends to, *)
(* so there is one: also after others were refused, failed or left.          *)
OneRoomMonitor == \A m \in Monitors : InService(m, "room") => slot = m

\* So it is while authentications do not overlap.
OneRoomMonitorInTurn == ~overlap => OneRoomMonitor
=============================================================================
