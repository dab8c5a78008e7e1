--------------------------- MODULE RoomDirectory ---------------------------
(* Who is where: the rooms map of the server, by id; of every room made (a   *)
(* generation) the members its actor keeps and the connections of room.rs;   *)
(* and the room each user's pointer names.  Players create, join and leave,  *)
(* an administrator moves, kicks, closes, and makes empty rooms.  A command  *)
(* goes to the mailbox of the room its id names when it is sent.  The rooms  *)
(* are not persistent; who may join, and a full room, are Room's.            *)
(* `trouble' is the set of things that may meet at an awkward time:          *)
(*   "overlap"   the administrator acts on a player in the middle of a       *)
(*               command of his own                                          *)
(*   "crossing"  two operations on rooms of one id                           *)
(*   "refused"   an actor refuses a new member                               *)
EXTENDS Naturals, Sequences, FiniteSets

CONSTANTS Users, Admin, Ids, MaxRooms, Troubles

VARIABLES trouble,
          rooms,     \* the rooms map: of each id the listed room, or None
          idOf,      \* ids of the rooms made so far
          members,   \* of each room: the actor's members
          users,     \* of each room: its connections
          at,        \* user.room
          mailbox,   \* of each room: commands not yet run
          stopped,   \* rooms whose mailbox has stopped
          op         \* what each player, and the administrator, is doing

vars == <<trouble, rooms, idOf, members, users, at, mailbox, stopped, op>>

None == 0
Made == DOMAIN idOf
NoOp == [kind |-> "none", stage |-> "", user |-> Admin, from |-> None, to |-> None,
         ids |-> {}, ok |-> FALSE, dropped |-> FALSE]

Init ==
    /\ trouble \in Troubles
    /\ rooms = [i \in Ids |-> None] /\ idOf = <<>> /\ members = <<>> /\ users = <<>>
    /\ at = [u \in Users |-> None] /\ mailbox = <<>> /\ stopped = {}
    /\ op = [p \in Users \cup {Admin} |-> NoOp]

places == <<rooms, idOf, members, users, at>>

\* Room::add_user: the room has the user's connection.
Register(r, u) == users' = [users EXCEPT ![r] = @ \cup {u}]

\* should_stop_room_mailbox: a close, or a kick that ended the room.
StopsIf(r, over) == stopped' = IF over THEN stopped \cup {r} ELSE stopped

Listed(r) == r # None /\ rooms[idOf[r]] = r
Busy(p) == op[p].kind # "none"
\* join_room holds the pointer's lock to its end.
Locked(u) == op[u].kind = "join"

\* Operations that may not meet in the calm.
MayStart(p, u, ids) ==
    /\ ~Busy(p)
    /\ \A q \in DOMAIN op : Busy(q) =>
        /\ op[q].user = u /\ u # Admin => "overlap" \in trouble
        /\ op[q].ids \cap ids # {} => "crossing" \in trouble

Does(p, o) == op' = [op EXCEPT ![p] = o]
Stage(p, s) == op[p].stage = s
Goes(p, s) == Does(p, [op[p] EXCEPT !.stage = s])
Ends(p) == Does(p, NoOp)

\* room_mailbox_sender: nothing is sent when the id names no room.
Reaches(i) == rooms[i] # None
Send(p, i, what) ==
    mailbox' = [mailbox EXCEPT ![rooms[i]] = Append(@, [by |-> p, what |-> what, user |-> op[p].user])]
-----------------------------------------------------------------------------
NewRoom(i, inside) ==
    /\ rooms[i] = None /\ Len(idOf) < MaxRooms
    /\ rooms' = [rooms EXCEPT ![i] = Len(idOf) + 1]
    /\ idOf' = Append(idOf, i)
    /\ members' = Append(members, {}) /\ users' = Append(users, inside)
    /\ mailbox' = Append(mailbox, <<>>)

CreateRoom(u, i) ==
    /\ MayStart(u, u, {i}) /\ at[u] = None
    /\ NewRoom(i, {u}) /\ at' = [at EXCEPT ![u] = Len(idOf) + 1]
    /\ UNCHANGED <<trouble, stopped, op>>

JoinLook(u, i) ==
    /\ MayStart(u, u, {i}) /\ at[u] = None /\ rooms[i] # None
    /\ Does(u, [NoOp EXCEPT !.kind = "join", !.stage = "looked", !.user = u, !.to = rooms[i], !.ids = {i}])
    /\ UNCHANGED <<trouble, stopped, places, mailbox>>

JoinSend(u) ==
    /\ op[u].kind = "join" /\ Stage(u, "looked")
    /\ LET i == idOf[op[u].to]
       IN IF Reaches(i) THEN Send(u, i, "add") /\ Goes(u, "adding")
                        ELSE Ends(u) /\ UNCHANGED mailbox
    /\ UNCHANGED <<trouble, stopped, places>>

\* The room it looked up takes the connection, and becomes the user's.
JoinEnds(u) ==
    /\ op[u].kind = "join" /\ Stage(u, "answered") /\ Ends(u)
    /\ IF op[u].ok THEN /\ Register(op[u].to, u)
                        /\ at' = [at EXCEPT ![u] = op[u].to]
                   ELSE UNCHANGED <<users, at>>
    /\ UNCHANGED <<trouble, stopped, rooms, idOf, members, mailbox>>

LeaveRoom(u) ==
    /\ at[u] # None /\ MayStart(u, u, {idOf[at[u]]}) /\ Reaches(idOf[at[u]])
    /\ Does(u, [NoOp EXCEPT !.kind = "leave", !.stage = "adding", !.user = u, !.ids = {idOf[at[u]]}])
    /\ mailbox' = [mailbox EXCEPT ![rooms[idOf[at[u]]]] = Append(@, [by |-> u, what |-> "remove", user |-> u])]
    /\ UNCHANGED <<trouble, stopped, places>>

LeaveEnds(u) ==
    /\ op[u].kind = "leave" /\ Stage(u, "answered") /\ Ends(u)
    /\ UNCHANGED <<trouble, stopped, places, mailbox>>
-----------------------------------------------------------------------------
\* The actor of room r runs a command and answers it.
Runs(r, what) == r \notin stopped /\ mailbox[r] # <<>> /\ Head(mailbox[r]).what = what
Answers(r, ok, dropped) ==
    /\ mailbox' = [mailbox EXCEPT ![r] = Tail(@)]
    /\ LET p == Head(mailbox[r]).by
       IN Does(p, [op[p] EXCEPT !.stage = "answered", !.ok = ok, !.dropped = @ \/ dropped])

AddUser(r) ==
    /\ Runs(r, "add")
    /\ \/ members' = [members EXCEPT ![r] = @ \cup {Head(mailbox[r]).user}] /\ Answers(r, TRUE, FALSE)
       \/ "refused" \in trouble /\ Answers(r, FALSE, FALSE) /\ UNCHANGED members
    /\ UNCHANGED <<trouble, stopped, rooms, idOf, users, at>>

(* Mutant: the user's pointer is left where it was. *)
Leaves_KeepsPointer(r, u) ==
    /\ users' = [users EXCEPT ![r] = @ \ {u}] /\ UNCHANGED at
    /\ rooms' = IF users[r] \subseteq {u} THEN [rooms EXCEPT ![idOf[r]] = None] ELSE rooms

\* on_user_leave, and the room goes with its last player: whatever the id names.
Leaves(r, u) ==
    /\ users' = [users EXCEPT ![r] = @ \ {u}] /\ at' = [at EXCEPT ![u] = None]
    /\ rooms' = IF users[r] \subseteq {u} THEN [rooms EXCEPT ![idOf[r]] = None] ELSE rooms

\* A member without a connection is only taken from the members.
RemoveUser(r) ==
    /\ Runs(r, "remove")
    /\ LET u == Head(mailbox[r]).user
       IN /\ members' = [members EXCEPT ![r] = @ \ {u}]
          /\ \/ /\ u \in users[r] /\ ~Locked(u) /\ Leaves(r, u)
                /\ Answers(r, TRUE, users[r] \subseteq {u})
             \/ /\ u \notin users[r] /\ Answers(r, u \in members[r], FALSE)
                /\ UNCHANGED <<users, at, rooms>>
    /\ UNCHANGED <<trouble, stopped, idOf>>

\* A kick leaves the actor's member where it is.  A room that ends by it, or is
\* closed, stops; one that ends with a departure goes on.
KickUser(r) ==
    /\ Runs(r, "kick")
    /\ LET u == Head(mailbox[r]).user
       IN IF u \in users[r]
          THEN /\ ~Locked(u) /\ Leaves(r, u) /\ Answers(r, TRUE, FALSE)
               /\ StopsIf(r, users[r] = {u})
          ELSE Answers(r, FALSE, FALSE) /\ UNCHANGED <<users, at, rooms, stopped>>
    /\ UNCHANGED <<trouble, idOf, members>>

CloseRoom(r) ==
    /\ Runs(r, "close") /\ \A u \in users[r] : ~Locked(u)
    /\ at' = [u \in Users |-> IF u \in users[r] THEN None ELSE at[u]]
    /\ rooms' = [rooms EXCEPT ![idOf[r]] = None]
    /\ Answers(r, TRUE, TRUE) /\ StopsIf(r, TRUE)
    /\ UNCHANGED <<trouble, idOf, members, users>>

\* run_lifecycle_maintenance: the room of its id is another, or none.
StopStale(r) ==
    /\ ~Listed(r) /\ r \notin stopped /\ stopped' = stopped \cup {r}
    /\ UNCHANGED <<trouble, places, mailbox, op>>

\* Nobody will run it: its sender hears that the mailbox is gone.
Lost(r) ==
    /\ r \in stopped /\ mailbox[r] # <<>> /\ Answers(r, FALSE, FALSE)
    /\ UNCHANGED <<trouble, stopped, places>>
-----------------------------------------------------------------------------
\* Commands of the administrator that one actor command carries out.
Orders(what, u, i) ==
    /\ MayStart(Admin, u, {i}) /\ Reaches(i)
    /\ Does(Admin, [NoOp EXCEPT !.kind = what, !.stage = "adding", !.user = u, !.ids = {i}])
    /\ mailbox' = [mailbox EXCEPT ![rooms[i]] = Append(@, [by |-> Admin, what |-> what, user |-> u])]
    /\ UNCHANGED <<trouble, stopped, places>>

OrderEnds ==
    /\ op[Admin].kind \in {"kick", "close"} /\ Stage(Admin, "answered") /\ Ends(Admin)
    /\ UNCHANGED <<trouble, stopped, places, mailbox>>

\* run_admin_kick_user goes round the actor.
KickFromServer(u) ==
    /\ at[u] # None /\ MayStart(Admin, u, {idOf[at[u]]}) /\ ~Locked(u)
    /\ Leaves(at[u], u)
    /\ UNCHANGED <<trouble, stopped, idOf, members, mailbox, op>>

\* create_empty_room inserts the room first, and takes it out again when its
\* actor does not answer: whatever the id names by then.
CreateEmpty(i) ==
    /\ MayStart(Admin, Admin, {i}) /\ NewRoom(i, {})
    /\ Does(Admin, [NoOp EXCEPT !.kind = "empty", !.ids = {i}])
    /\ UNCHANGED <<trouble, stopped, at>>

EmptyIsMade ==
    /\ op[Admin].kind = "empty" /\ Ends(Admin)
    /\ \/ UNCHANGED rooms
       \/ rooms' = [i \in Ids |-> IF i \in op[Admin].ids THEN None ELSE rooms[i]]
    /\ UNCHANGED <<trouble, stopped, idOf, members, users, at, mailbox>>
-----------------------------------------------------------------------------
\* force_move_user_to_room; a move within a room goes straight to its end.
Move(u, i) ==
    LET from == at[u]
        ids == {i} \cup (IF from = None THEN {} ELSE {idOf[from]})
    IN /\ MayStart(Admin, u, ids) /\ Reaches(i) /\ ~Locked(u)
       /\ Does(Admin, [NoOp EXCEPT !.kind = "move", !.user = u, !.from = from, !.to = rooms[i], !.ids = ids,
                         !.stage = IF from = None THEN "removed"
                                   ELSE IF idOf[from] = i THEN "added" ELSE "leaving"])
       /\ UNCHANGED <<trouble, stopped, places, mailbox>>

Moving(stage) == op[Admin].kind = "move" /\ Stage(Admin, stage)

MoveRemoves ==
    /\ Moving("leaving")
    /\ IF Reaches(idOf[op[Admin].from])
       THEN Send(Admin, idOf[op[Admin].from], "remove")
            /\ Does(Admin, [op[Admin] EXCEPT !.kind = "move-removes", !.stage = "adding"])
       ELSE Ends(Admin) /\ UNCHANGED mailbox
    /\ UNCHANGED <<trouble, stopped, places>>

MoveRemoved ==
    /\ op[Admin].kind = "move-removes" /\ Stage(Admin, "answered")
    /\ IF op[Admin].ok THEN Does(Admin, [op[Admin] EXCEPT !.kind = "move", !.stage = "removed"])
                       ELSE Ends(Admin)
    /\ UNCHANGED <<trouble, stopped, places, mailbox>>

MoveAdds ==
    /\ Moving("removed")
    /\ IF Reaches(idOf[op[Admin].to]) THEN Send(Admin, idOf[op[Admin].to], "add") /\ Goes(Admin, "adding")
                                      ELSE Goes(Admin, "undo") /\ UNCHANGED mailbox
    /\ UNCHANGED <<trouble, stopped, places>>

MoveAdded ==
    /\ Moving("answered")
    /\ Does(Admin, IF op[Admin].ok THEN [op[Admin] EXCEPT !.stage = "added"]
                   ELSE [op[Admin] EXCEPT !.stage = "undo"])
    /\ UNCHANGED <<trouble, stopped, places, mailbox>>

\* force_add_user, then the pointer.
MoveRegisters ==
    /\ Moving("added") /\ Goes(Admin, "point")
    /\ Register(op[Admin].to, op[Admin].user)
    /\ UNCHANGED <<trouble, stopped, rooms, idOf, members, at, mailbox>>

MovePoints ==
    /\ Moving("point") /\ ~Locked(op[Admin].user) /\ Ends(Admin)
    /\ at' = [at EXCEPT ![op[Admin].user] = op[Admin].to]
    /\ UNCHANGED <<trouble, stopped, rooms, idOf, members, users, mailbox>>

\* The undoing asks the old actor, and nobody asks the old connections.
MoveUndoes ==
    /\ Moving("undo")
    /\ LET old == op[Admin].from
       IN IF old # None /\ ~op[Admin].dropped /\ Reaches(idOf[old])
          THEN /\ Send(Admin, idOf[old], "add")
               /\ Does(Admin, [op[Admin] EXCEPT !.kind = "move-undoes", !.stage = "adding"])
          ELSE Does(Admin, [op[Admin] EXCEPT !.kind = "move-undoes", !.stage = "answered"])
               /\ UNCHANGED mailbox
    /\ UNCHANGED <<trouble, stopped, places>>

MoveUndone ==
    /\ op[Admin].kind = "move-undoes" /\ Stage(Admin, "answered")
    /\ LET o == op[Admin]
       IN at' = IF o.from = None THEN at
                ELSE [at EXCEPT ![o.user] = IF o.dropped THEN None ELSE o.from]
    /\ ~Locked(op[Admin].user) /\ Ends(Admin)
    /\ UNCHANGED <<trouble, stopped, rooms, idOf, members, users, mailbox>>
-----------------------------------------------------------------------------
Next ==
    \/ \E u \in Users : \/ \E i \in Ids : CreateRoom(u, i) \/ JoinLook(u, i) \/ Move(u, i)
                        \/ \E i \in Ids : Orders("kick", u, i)
                        \/ JoinSend(u) \/ JoinEnds(u) \/ LeaveRoom(u) \/ LeaveEnds(u) \/ KickFromServer(u)
    \/ \E i \in Ids : Orders("close", Admin, i) \/ CreateEmpty(i)
    \/ \E r \in Made : AddUser(r) \/ RemoveUser(r) \/ KickUser(r) \/ CloseRoom(r)
                        \/ StopStale(r) \/ Lost(r)
    \/ OrderEnds \/ EmptyIsMade
    \/ MoveRemoves \/ MoveRemoved \/ MoveAdds \/ MoveAdded \/ MoveRegisters \/ MovePoints
    \/ MoveUndoes \/ MoveUndone

Spec == Init /\ [][Next]_vars
-----------------------------------------------------------------------------
Settled(u) == \A p \in DOMAIN op : op[p].user # u
Inside(u) == {r \in Made : Listed(r) /\ u \in users[r]}

\* A user who is not on his way is in one room at most, the one his pointer
\* names, and that room can be found: he can leave it, or join another.
PlacesAgree == \A u \in Users : Settled(u) => Inside(u) = {at[u]} \ {None}

\* So it is while nothing meets at an awkward time.
PlacesAgreeIfCalm == trouble = {} => PlacesAgree

\* Nobody hears two rooms, also when an actor refuses, or operations on a room
\* cross: a move takes the user out before it puts him in.
OneRoomIfApart ==
    "overlap" \notin trouble => \A u \in Users : Cardinality(Inside(u)) <= 1
=============================================================================
