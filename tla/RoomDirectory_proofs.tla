-------------------------- MODULE RoomDirectory_proofs --------------------------
(***************************************************************************)
(* However many players, rooms and ids there are: unless the administrator *)
(* acts on a player in the middle of a command of his own, a player hears  *)
(* one room at most, and in the calm a player at rest is in the room that  *)
(* his pointer names.                                                      *)
(*                                                                         *)
(* The invariant has two layers.  Sound holds whenever nobody is acted on  *)
(* by two at once: each letter in a mailbox is what one party waits for,   *)
(* and for each step of an operation it says where its user may still be.  *)
(* Calmly adds what holds if no two operations meet on an id and no actor  *)
(* refuses: a room that an operation counts on stays in the map, because   *)
(* who takes it out holds its id.                                          *)
(***************************************************************************)
EXTENDS RoomDirectory, FiniteSetTheorems, TLAPS

(* The administrator is not a player. *)
Apart == Admin \notin Users

Parties == Users \cup {Admin}

Kinds == {"none", "join", "leave", "kick", "close", "empty", "move", "move-removes", "move-undoes"}
Stages == {"", "looked", "adding", "answered", "leaving", "removed", "added", "point", "undo"}
Ops == [kind : Kinds, stage : Stages, user : Parties, from : Nat, to : Nat, ids : SUBSET Ids,
        ok : BOOLEAN, dropped : BOOLEAN]
Posts == [by : Parties, what : {"add", "remove", "kick", "close"}, user : Parties]

Types ==
    /\ idOf \in Seq(Ids) /\ users \in Seq(SUBSET Users) /\ Len(users) = Len(idOf)
    /\ rooms \in [Ids -> Nat] /\ at \in [Users -> Nat] /\ op \in [Parties -> Ops]
    /\ \A i \in Ids : rooms[i] # None => rooms[i] \in Made /\ idOf[rooms[i]] = i
    /\ \A u \in Users : at[u] # None => at[u] \in Made

(* What a party may be doing. *)
Fits(p, o) ==
    /\ o.from # None => o.from \in Made
    /\ o.kind = "none" => o = NoOp
    /\ o.kind \in {"join", "leave"} => p \in Users /\ o.user = p
    /\ o.kind \notin {"none", "join", "leave"} => p = Admin
    /\ o.kind \in {"kick", "move", "move-removes", "move-undoes"} => o.user \in Users
    /\ o.kind \in {"join", "move", "move-removes"} => o.to \in Made
    /\ o.kind = "join" => o.stage \in {"looked", "adding", "answered"}
    /\ o.kind \in {"leave", "kick", "close", "move-removes", "move-undoes"} => o.stage \in {"adding", "answered"}
    /\ o.kind = "move" => o.stage \in {"leaving", "removed", "adding", "answered", "added", "point", "undo"}
    /\ o.kind = "empty" => o.stage = ""
    /\ o.kind = "move-removes" \/ o.stage = "leaving" => o.from # None

Asks(kind) == CASE kind \in {"join", "move", "move-undoes"} -> "add"
                [] kind \in {"leave", "move-removes"} -> "remove"
                [] OTHER -> kind

Stops == \A r \in stopped : r \in Made /\ ~Listed(r)

Exclusive == \A p, q \in Parties : Busy(p) /\ Busy(q) /\ op[p].user = op[q].user /\ op[p].user # Admin => p = q

IsIn(u, r) == r \in Made /\ Listed(r) /\ u \in users[r]
Only(u, r) == \A s \in Made : IsIn(u, s) => s = r

(* What is in a mailbox is what somebody waits for, and is there once.  Who   *)
(* is to be taken out of a room is in no other.                               *)
Letter(r, c) ==
    /\ op[c.by].stage = "adding" /\ op[c.by].user = c.user /\ c.what = Asks(op[c.by].kind)
    /\ c.what = "remove" \/ (c.what = "kick" /\ c.user \in users[r]) => Only(c.user, r)
    /\ c.what \in {"remove", "kick"} /\ c.user \in users[r] => at[c.user] \in {r, None}
    /\ c.what = "close" => \A v \in users[r] : at[v] = r
Posted ==
    /\ mailbox \in Seq(Seq(Posts)) /\ Len(mailbox) = Len(idOf)
    /\ \A r \in Made : \A k \in DOMAIN mailbox[r] : Letter(r, mailbox[r][k])
    /\ \A r, s \in Made : \A k \in DOMAIN mailbox[r], m \in DOMAIN mailbox[s] :
         mailbox[r][k].by = mailbox[s][m].by => r = s /\ k = m

Out(o) == \/ o.kind = "move" /\ o.stage \in {"removed", "adding", "answered", "undo"}
          \/ o.kind = "move-undoes"
          \/ o.kind = "move-removes" /\ o.stage = "answered" /\ o.ok

(* Where somebody may still be whom an operation is about. *)
Placed(o) ==
    /\ o.kind = "join" => at[o.user] = None
    /\ o.stage = "leaving" => Only(o.user, o.from)
    /\ Out(o) => Only(o.user, None)
    /\ o.stage \in {"added", "point"} => Only(o.user, o.to)

Pointing(u) == op[Admin].stage = "point" /\ op[Admin].user = u

Where ==
    /\ \A p \in Parties : Fits(p, op[p]) /\ Placed(op[p])
    /\ \A u \in Users : ~Pointing(u) => Only(u, at[u])
Sound == Types /\ Posted /\ Stops /\ Exclusive /\ Where

(* Nothing crosses. *)
Kept(o) ==
    /\ o.kind \in {"join", "move", "move-removes"} => Listed(o.to) /\ idOf[o.to] \in o.ids
    /\ o.kind = "move-removes" \/ o.stage = "leaving" => idOf[o.from] # idOf[o.to] /\ idOf[o.from] \in o.ids
    /\ o.stage = "point" => o.user \in users[o.to]
    /\ o.kind # "move-undoes" /\ o.stage # "undo"
    /\ o.kind = "move" /\ o.stage = "answered" => o.ok
    /\ o.kind = "empty" => \A i \in o.ids : rooms[i] # None => users[rooms[i]] = {}
Disjoint == \A p, q \in Parties : p # q => op[p].ids \cap op[q].ids = {}
Arrives(r, o) == Listed(r) /\ idOf[r] \in o.ids /\ (o.kind = "move-removes" => idOf[r] = idOf[o.from])
Arriving == \A r \in Made : \A k \in DOMAIN mailbox[r] : Arrives(r, op[mailbox[r][k].by])
Present == \A u \in Users : at[u] # None => IsIn(u, at[u])
Calmly == Disjoint /\ (\A p \in Parties : Kept(op[p])) /\ Arriving /\ Present

IInv == "overlap" \notin trouble => Sound /\ (trouble = {} => Calmly)

-----------------------------------------------------------------------------
(* What the steps make of an operation. *)
LEMMA NoOpIs ==
  /\ NoOp \in Ops /\ NoOp.kind = "none" /\ NoOp.stage = "" /\ NoOp.user = Admin /\ NoOp.ids = {}
  /\ NoOp.from = None /\ NoOp.to = None /\ ~NoOp.dropped /\ ~NoOp.ok
  BY DEF NoOp, Ops, Kinds, Stages, None, Parties

LEMMA StageIs ==
  ASSUME NEW o \in Ops, NEW s \in Stages
  PROVE  LET n == [o EXCEPT !.stage = s] IN
         /\ n \in Ops /\ n.stage = s /\ n.kind = o.kind /\ n.user = o.user /\ n.from = o.from
         /\ n.to = o.to /\ n.ids = o.ids /\ n.ok = o.ok /\ n.dropped = o.dropped
  BY DEF Ops

LEMMA TypesIs ==
  ASSUME Types
  PROVE  /\ Made = 1..Len(idOf) /\ Len(idOf) \in Nat /\ DOMAIN users = Made
         /\ \A r \in Made : r \in Nat /\ r # None /\ idOf[r] \in Ids /\ users[r] \in SUBSET Users
         /\ \A p \in Parties : op[p] \in Ops
         /\ DOMAIN op = Parties /\ Admin \in Parties /\ Users \subseteq Parties
  BY DEF Types, Made, None, Parties

(* A room that is made stays; nobody comes into one. *)
LEMMA StaysIs ==
  ASSUME Types, UNCHANGED places
  PROVE  /\ Made' = Made /\ \A r : Listed(r)' <=> Listed(r)
         /\ \A u, r : Only(u, r)' <=> Only(u, r)
  BY DEF places, Made, Listed, Only, IsIn

-----------------------------------------------------------------------------
(***************************************************************************)
(* How kinds of steps keep the sound layer: a step of an operation alone,  *)
(* one that sends a letter, one that answers one, one with which a user    *)
(* comes somewhere, one with which he goes, and one that makes a room.     *)
(***************************************************************************)
(* An operation that is carried on, where nothing else changes. *)
LEMMA OpKeeps ==
  ASSUME Apart, Types, Stops, Exclusive, Where, NEW p \in Parties, NEW o \in Ops, Does(p, o),
         op[p].stage # "point", o.stage # "point", Fits(p, o), Placed(o),
         o.user # Admin => \A q \in Parties \ {p} : Busy(q) => op[q].user # o.user,
         UNCHANGED <<trouble, stopped, places>>
  PROVE  /\ Types' /\ Stops' /\ Exclusive' /\ Where'
         /\ op'[p] = o /\ \A q \in Parties \ {p} : op'[q] = op[q]
  <1>1. op' \in [Parties -> Ops] /\ op'[p] = o /\ \A q \in Parties \ {p} : op'[q] = op[q]
    BY DEF Does, Types
  <1>2. Types'
    BY <1>1, StaysIs DEF Types, places
  <1>3. Stops'
    BY StaysIs DEF Stops
  <1>4. Exclusive'
    <2> SUFFICES ASSUME NEW q \in Parties, NEW s \in Parties, Busy(q)', Busy(s)',
                        op'[q].user = op'[s].user, op'[q].user # Admin
                 PROVE  q = s
      BY DEF Exclusive
    <2>1. CASE q = p \/ s = p
      BY <1>1, <2>1 DEF Busy
    <2>2. CASE q # p /\ s # p
      BY <1>1, <2>2 DEF Exclusive, Busy
    <2> QED BY <2>1, <2>2
  <1>5. Where'
    <2>1. ASSUME NEW q \in Parties PROVE Fits(q, op[q])'
      <3>1. Fits(p, o)'
        BY StaysIs DEF Fits
      <3>2. CASE q # p
        <4>1. Fits(q, op[q]) /\ op'[q] = op[q] /\ Made' = Made
          BY <1>1, <3>2, StaysIs DEF Where
        <4> QED BY <4>1 DEF Fits
      <3> QED BY <1>1, <3>1, <3>2 DEF Fits
    <2>2. ASSUME NEW q \in Parties PROVE Placed(op[q])'
      <3>1. CASE q = p
        BY <1>1, <3>1, StaysIs DEF Placed, Out, places
      <3>2. CASE q # p
        BY <1>1, <3>2, StaysIs DEF Where, Placed, Out, places
      <3> QED BY <3>1, <3>2
    <2>3. ASSUME NEW u \in Users, ~Pointing(u)' PROVE Only(u, at[u])'
      <3>1. ~Pointing(u)
        BY <1>1, <2>3, TypesIs DEF Pointing
      <3>2. Only(u, at[u])
        BY <3>1 DEF Where
      <3> QED BY <3>2, StaysIs DEF places
    <2> QED BY <2>1, <2>2, <2>3 DEF Where
  <1> QED BY <1>1, <1>2, <1>3, <1>4, <1>5

LEMMA LetterIs ==
  ASSUME Sound, NEW r \in Made
  PROVE  /\ mailbox[r] \in Seq(Posts)
         /\ \A k \in DOMAIN mailbox[r] : /\ Letter(r, mailbox[r][k]) /\ mailbox[r][k] \in Posts
                                        /\ mailbox[r][k].by \in Parties /\ mailbox[r][k].user \in Parties
  <1>1. mailbox \in Seq(Seq(Posts)) /\ r \in 1..Len(mailbox)
    BY TypesIs DEF Sound, Posted
  <1>2. mailbox[r] \in Seq(Posts)
    BY <1>1
  <1>3. \A k \in DOMAIN mailbox[r] : mailbox[r][k] \in Posts
    BY <1>2
  <1>4. \A k \in DOMAIN mailbox[r] : Letter(r, mailbox[r][k])
    BY DEF Sound, Posted
  <1> QED BY <1>2, <1>3, <1>4 DEF Posts

(* An operation with no letter on the way. *)
LEMMA DoesKeeps ==
  ASSUME Apart, Sound, NEW p \in Parties, NEW o \in Ops, Does(p, o),
         op[p].stage \notin {"adding", "point"}, o.stage # "point", Fits(p, o), Placed(o),
         o.user # Admin => \A q \in Parties \ {p} : Busy(q) => op[q].user # o.user,
         UNCHANGED <<trouble, stopped, places, mailbox>>
  PROVE  Sound'
  <1>1. /\ Types' /\ Stops' /\ Exclusive' /\ Where'
        /\ op'[p] = o /\ \A q \in Parties \ {p} : op'[q] = op[q]
    BY OpKeeps DEF Sound
  <1>2. Types /\ Made' = Made
    BY StaysIs DEF Sound
  <1>3. ASSUME NEW r \in Made, NEW k \in DOMAIN mailbox[r] PROVE Letter(r, mailbox[r][k])'
    <2>1. Letter(r, mailbox[r][k]) /\ mailbox[r][k].by \in Parties
      BY LetterIs
    <2>2. mailbox[r][k].by # p
      BY <2>1 DEF Letter
    <2> QED BY <1>1, <1>2, <2>1, <2>2, StaysIs DEF Letter, places
  <1>4. Posted'
    BY <1>2, <1>3 DEF Sound, Posted, places
  <1> QED BY <1>1, <1>4 DEF Sound

(* One that sends a letter. *)
LEMMA SendKeeps ==
  ASSUME Apart, Sound, NEW p \in Parties, NEW o \in Ops, Does(p, o),
         op[p].stage \notin {"adding", "point"}, o.stage = "adding", Fits(p, o), Placed(o),
         o.user # Admin => \A q \in Parties \ {p} : Busy(q) => op[q].user # o.user,
         UNCHANGED <<trouble, stopped, places>>,
         NEW r \in Made, NEW what \in {"add", "remove", "kick", "close"}, what = Asks(o.kind),
         what \in {"remove", "kick"} => Only(o.user, r) \/ (what = "kick" /\ o.user \notin users[r]),
         what \in {"remove", "kick"} /\ o.user \in users[r] => at[o.user] = r,
         what = "close" => \A v \in users[r] : at[v] = r,
         mailbox' = [mailbox EXCEPT ![r] = Append(@, [by |-> p, what |-> what, user |-> o.user])]
  PROVE  Sound'
  <1> DEFINE c == [by |-> p, what |-> what, user |-> o.user]
  <1>1. /\ Types' /\ Stops' /\ Exclusive' /\ Where'
        /\ op'[p] = o /\ \A q \in Parties \ {p} : op'[q] = op[q]
    BY OpKeeps DEF Sound
  <1>2. Types /\ Made' = Made
    BY StaysIs DEF Sound
  <1>3. c \in Posts /\ c.by = p /\ c.what = what /\ c.user = o.user
    BY DEF Posts, Ops
  <1> HIDE DEF c
  <1>4. /\ mailbox' \in Seq(Seq(Posts)) /\ Len(mailbox') = Len(idOf)
        /\ \A s \in Made : s # r => mailbox'[s] = mailbox[s]
        /\ mailbox'[r] = Append(mailbox[r], c)
        /\ mailbox[r] \in Seq(Posts)
    <2>1. mailbox \in Seq(Seq(Posts)) /\ r \in 1..Len(mailbox) /\ mailbox[r] \in Seq(Posts)
      BY <1>2, TypesIs DEF Sound, Posted
    <2>2. mailbox' = [mailbox EXCEPT ![r] = Append(mailbox[r], c)]
      BY DEF c
    <2>3. Append(mailbox[r], c) \in Seq(Posts)
      BY <1>3, <2>1
    <2> QED BY <1>2, <2>1, <2>2, <2>3, TypesIs DEF Sound, Posted
  <1>5. \A s \in Made : \A k \in DOMAIN mailbox'[s] :
          \/ k \in DOMAIN mailbox[s] /\ mailbox'[s][k] = mailbox[s][k]
          \/ s = r /\ k = Len(mailbox[r]) + 1 /\ mailbox'[s][k] = c
    BY <1>4
  <1>6. ASSUME NEW s \in Made, NEW k \in DOMAIN mailbox[s] PROVE Letter(s, mailbox[s][k]) /\ mailbox[s][k].by \in Parties \ {p}
    BY LetterIs DEF Letter
  <1>7. ASSUME NEW s \in Made, NEW k \in DOMAIN mailbox'[s] PROVE Letter(s, mailbox[s][k])'
    <2>1. CASE k \in DOMAIN mailbox[s] /\ mailbox'[s][k] = mailbox[s][k]
      BY <1>1, <1>2, <1>6, <2>1, StaysIs DEF Letter, places
    <2>2. CASE s = r /\ k = Len(mailbox[r]) + 1 /\ mailbox'[s][k] = c
      BY <1>1, <1>2, <1>3, <2>2, StaysIs DEF Letter, places
    <2> QED BY <1>5, <2>1, <2>2
  <1>8. \A s, t \in Made : \A k \in DOMAIN mailbox'[s], m \in DOMAIN mailbox'[t] :
          mailbox'[s][k].by = mailbox'[t][m].by => s = t /\ k = m
    <2> TAKE s, t \in Made
    <2> TAKE k \in DOMAIN mailbox'[s], m \in DOMAIN mailbox'[t]
    <2>1. CASE k \in DOMAIN mailbox[s] /\ mailbox'[s][k] = mailbox[s][k] /\ m \in DOMAIN mailbox[t] /\ mailbox'[t][m] = mailbox[t][m]
      BY <2>1 DEF Sound, Posted
    <2> QED BY <1>3, <1>5, <1>6, <2>1
  <1>9. Posted'
    BY <1>2, <1>4, <1>7, <1>8 DEF Posted, places
  <1> QED BY <1>1, <1>9 DEF Sound

(* Rooms that lose their place or their players. *)
LEMMA ShrinksIs ==
  ASSUME Types, idOf' = idOf, \A i \in Ids : rooms'[i] \in {rooms[i], None},
         \A s \in Made : users'[s] \subseteq users[s]
  PROVE  /\ Made' = Made /\ \A s \in Made : Listed(s)' => Listed(s)
         /\ \A v, s : Only(v, s) => Only(v, s)'
  <1>1. Made' = Made
    BY DEF Made
  <1>2. \A s \in Made : Listed(s)' => Listed(s)
    BY <1>1, TypesIs DEF Listed
  <1>3. \A v, s : Only(v, s) => Only(v, s)'
    BY <1>1, <1>2 DEF Only, IsIn
  <1> QED BY <1>1, <1>2, <1>3

LEMMA AnswersKeeps ==
  ASSUME Apart, Sound, NEW r \in Made, mailbox[r] # <<>>, NEW ok \in BOOLEAN, NEW dropped \in BOOLEAN,
         Answers(r, ok, dropped), idOf' = idOf, Stops',
         rooms' \in [Ids -> Nat], \A i \in Ids : rooms'[i] \in {rooms[i], None},
         users' \in Seq(SUBSET Users), Len(users') = Len(users), \A s \in Made : users'[s] \subseteq users[s],
         at' \in [Users -> Nat], \A v \in Users : at'[v] = at[v] \/ (at'[v] = None /\ Only(v, None)'),
         \A s \in Made : \A v \in users'[s] : at[v] = s => at'[v] = s \/ Head(mailbox[r]).what = "close",
         NEW x, x = Head(mailbox[r]).user,
         op[Head(mailbox[r]).by].kind = "move-removes" /\ ok => Only(x, None)'
  PROVE  Sound'
  <1>1. PICK p \in Parties : p = Head(mailbox[r]).by
    BY LetterIs
  <1>2. /\ 1 \in DOMAIN mailbox[r] /\ Head(mailbox[r]) = mailbox[r][1]
        /\ op[p].stage = "adding" /\ op[p].user = x
    BY <1>1, LetterIs DEF Letter
  <1>3. Made' = Made /\ \A v, s : Only(v, s) => Only(v, s)'
    BY ShrinksIs DEF Sound
  <1> DEFINE answered == [op[p] EXCEPT !.stage = "answered", !.ok = ok, !.dropped = @ \/ dropped]
  <1>0. /\ answered \in Ops /\ answered.stage = "answered" /\ answered.kind = op[p].kind
        /\ answered.user = op[p].user /\ answered.from = op[p].from
        /\ answered.to = op[p].to /\ answered.ids = op[p].ids /\ answered.ok = ok
    <2>1. op[p] \in Ops
      BY TypesIs DEF Sound
    <2> QED BY <2>1 DEF answered, Ops, Stages
  <1>a. op' = [op EXCEPT ![p] = answered]
    BY <1>1 DEF Answers, Does
  <1> HIDE DEF answered
  <1>4. PICK n \in Ops : n = answered
    BY <1>0
  <1>5. /\ n.stage = "answered" /\ n.kind = op[p].kind /\ n.user = op[p].user /\ n.from = op[p].from
        /\ n.to = op[p].to /\ n.ids = op[p].ids /\ n.ok = ok
    BY <1>0, <1>4
  <1>6. op' \in [Parties -> Ops] /\ op'[p] = n /\ \A q \in Parties \ {p} : op'[q] = op[q]
    BY <1>a, <1>4 DEF Sound, Types
  <1>7. Types'
    BY <1>3, <1>6 DEF Sound, Types
  <1>8. \A q \in Parties : op'[q].kind = op[q].kind /\ op'[q].user = op[q].user
    BY <1>5, <1>6
  <1>9. Exclusive'
    BY <1>8 DEF Sound, Exclusive, Busy
  <1>10. Where'
    <2>1. ASSUME NEW q \in Parties PROVE Fits(q, op[q])'
      <3>1. Fits(q, op[q])
        BY DEF Sound, Where
      <3>2. CASE q = p
        <4>1. n.kind # "none"
          BY <1>2, <1>5, <3>1, <3>2, NoOpIs DEF Fits
        <4> QED BY <1>2, <1>3, <1>5, <1>6, <3>1, <3>2, <4>1 DEF Fits
      <3>3. CASE q # p
        <4>1. op'[q] = op[q]
          BY <1>6, <3>3
        <4> QED BY <1>3, <3>1, <4>1 DEF Fits
      <3> QED BY <3>2, <3>3
    <2>2. ASSUME NEW q \in Parties PROVE Placed(op[q])'
      <3>1. Placed(op[q])
        BY DEF Sound, Where
      <3>2. \A v \in Users : at[v] = None => at'[v] = None
        OBVIOUS
      <3>3. op[q].kind = "join" => op[q].user \in Users
        BY DEF Sound, Where, Fits
      <3>4. CASE q = p
        <4>1. n.kind = "join" => at'[n.user] = None
          BY <1>5, <3>1, <3>2, <3>3, <3>4 DEF Placed
        <4>2. Out(n) => Only(n.user, None)'
          <5>1. CASE n.kind = "move-removes"
            BY <1>1, <1>2, <1>5, <5>1 DEF Out
          <5>2. CASE n.kind # "move-removes"
            BY <1>2, <1>3, <1>5, <3>1, <3>4, <5>2 DEF Placed, Out
          <5> QED BY <5>1, <5>2
        <4> QED BY <1>5, <1>6, <3>4, <4>1, <4>2 DEF Placed, Out
      <3>5. CASE q # p
        <4>1. op'[q] = op[q]
          BY <1>6, <3>5
        <4> QED BY <1>3, <3>1, <3>2, <3>3, <4>1 DEF Placed, Out
      <3> QED BY <3>4, <3>5
    <2>3. ASSUME NEW u \in Users, ~Pointing(u)' PROVE Only(u, at[u])'
      <3>1. ~Pointing(u)
        BY <1>2, <1>6, <2>3, TypesIs DEF Pointing, Sound
      <3>2. Only(u, at[u])
        BY <3>1 DEF Sound, Where
      <3>3. CASE at'[u] = at[u]
        BY <1>3, <3>2, <3>3
      <3>4. CASE at'[u] = None /\ Only(u, None)'
        BY <3>4
      <3> QED BY <3>3, <3>4
    <2> QED BY <2>1, <2>2, <2>3 DEF Where
  <1>11. Posted'
    <2>1. /\ mailbox' \in Seq(Seq(Posts)) /\ Len(mailbox') = Len(idOf)
          /\ mailbox'[r] = Tail(mailbox[r]) /\ \A s \in Made \ {r} : mailbox'[s] = mailbox[s]
      <3>1. mailbox \in Seq(Seq(Posts)) /\ Len(mailbox) = Len(idOf) /\ r \in 1..Len(mailbox) /\ mailbox[r] \in Seq(Posts)
        BY LetterIs, TypesIs DEF Sound, Posted
      <3>2. Tail(mailbox[r]) \in Seq(Posts)
        BY <3>1
      <3>3. mailbox' = [mailbox EXCEPT ![r] = Tail(mailbox[r])]
        BY DEF Answers
      <3> QED BY <3>1, <3>2, <3>3, TypesIs DEF Sound
    <2>a. \A s \in Made : mailbox'[s] \in Seq(Posts)
      BY <2>1, TypesIs DEF Sound
    <2>2. \A s \in Made : \A k \in DOMAIN mailbox'[s] :
            \E j \in DOMAIN mailbox[s] : /\ mailbox'[s][k] = mailbox[s][j]
                                         /\ j = IF s = r THEN k + 1 ELSE k
      <3> SUFFICES ASSUME NEW k \in DOMAIN Tail(mailbox[r])
                   PROVE  k + 1 \in DOMAIN mailbox[r] /\ Tail(mailbox[r])[k] = mailbox[r][k + 1]
        BY <2>1
      <3> QED BY LetterIs
    <2>3. \A s, t \in Made : \A k \in DOMAIN mailbox'[s], m \in DOMAIN mailbox'[t] :
            mailbox'[s][k].by = mailbox'[t][m].by => s = t /\ k = m
      <3> TAKE s, t \in Made
      <3> TAKE k \in DOMAIN mailbox'[s], m \in DOMAIN mailbox'[t]
      <3> HAVE mailbox'[s][k].by = mailbox'[t][m].by
      <3>1. PICK j \in DOMAIN mailbox[s] : mailbox'[s][k] = mailbox[s][j] /\ j = IF s = r THEN k + 1 ELSE k
        BY <2>2
      <3>2. PICK l \in DOMAIN mailbox[t] : mailbox'[t][m] = mailbox[t][l] /\ l = IF t = r THEN m + 1 ELSE m
        BY <2>2
      <3>3. s = t /\ j = l
        BY <3>1, <3>2 DEF Sound, Posted
      <3>4. k \in Nat /\ m \in Nat
        BY <2>a
      <3> QED BY <3>1, <3>2, <3>3, <3>4
    <2>4. ASSUME NEW s \in Made, NEW k \in DOMAIN mailbox'[s] PROVE Letter(s, mailbox[s][k])'
      <3>1. PICK j \in DOMAIN mailbox[s] : mailbox'[s][k] = mailbox[s][j] /\ j = IF s = r THEN k + 1 ELSE k
        BY <2>2
      <3>2. PICK c \in Posts : c = mailbox[s][j]
        BY LetterIs
      <3>3. Letter(s, c) /\ c.by \in Parties
        BY <3>2, LetterIs
      <3>4. c.by # p
        <4>1. CASE s = r
          <5>1. j # 1
            BY <2>a, <3>1, <4>1
          <5> QED BY <1>1, <1>2, <3>2, <4>1, <5>1 DEF Sound, Posted
        <4>2. CASE s # r
          BY <1>1, <1>2, <3>2, <4>2 DEF Sound, Posted
        <4> QED BY <4>1, <4>2
      <3>5. op'[c.by] = op[c.by]
        BY <1>6, <3>3, <3>4
      <3>6. c.what = "close" => \A v \in users'[s] : at'[v] = s
        <4> SUFFICES ASSUME c.what = "close", Head(mailbox[r]).what = "close" PROVE FALSE
          BY <3>3 DEF Letter
        <4>1. \A k2 \in Kinds : Asks(k2) = "close" => k2 = "close"
          BY DEF Asks, Kinds
        <4>2. op[c.by].kind \in Kinds /\ op[p].kind \in Kinds
          BY <3>3, TypesIs DEF Sound, Ops
        <4>3. op[c.by].kind = "close" /\ op[p].kind = "close"
          BY <1>1, <1>2, <3>3, <4>1, <4>2, LetterIs DEF Letter
        <4>4. Fits(c.by, op[c.by]) /\ Fits(p, op[p])
          BY <3>3 DEF Sound, Where
        <4> QED BY <3>4, <4>3, <4>4 DEF Fits
      <3>7. c.user \in users'[s] /\ c.what \in {"remove", "kick"} => at'[c.user] \in {s, None}
        <4> SUFFICES ASSUME c.user \in users'[s], c.what \in {"remove", "kick"} PROVE at'[c.user] \in {s, None}
          OBVIOUS
        <4>1. c.user \in users[s] /\ c.user \in Users
          BY TypesIs DEF Sound
        <4> QED BY <3>3, <4>1 DEF Letter
      <3>8. Letter(s, c)'
        BY <1>3, <3>3, <3>5, <3>6, <3>7 DEF Letter
      <3> QED BY <3>1, <3>2, <3>8
    <2> QED BY <1>3, <2>1, <2>3, <2>4 DEF Posted
  <1> QED BY <1>7, <1>9, <1>10, <1>11 DEF Sound

(* Who is nobody's, or nothing's, is in no way of an operation. *)
LEMMA AdminIs ==
  ASSUME Apart, NEW p, NEW o, Fits(p, o), o.user = Admin
  PROVE  /\ o.kind \in Kinds => o.kind \in {"none", "close", "empty"}
         /\ o.kind = "none" => o.stage = ""
  BY NoOpIs DEF Fits, Apart, Kinds

(* The user whom an operation is about comes somewhere, at the end of it. *)
LEMMA ComesKeeps ==
  ASSUME Apart, Sound, NEW p \in Parties, NEW o \in Ops, Does(p, o), Busy(p),
         op[p].stage # "adding",
         Fits(p, o), o.kind = "none" \/ o.user = op[p].user, NEW w \in Users, w = op[p].user,
         UNCHANGED <<trouble, stopped, rooms, idOf, mailbox>>,
         users' \in Seq(SUBSET Users), Len(users') = Len(users),
         \A s \in Made, v \in Users : v \in users'[s] => v \in users[s] \/ v = w,
         at' \in [Users -> Nat], at'[w] # None => at'[w] \in Made,
         \A v \in Users : v # w => at'[v] = at[v],
         p = Admin \/ (at[w] = None /\ \A s \in Made : w \in users'[s] => w \in users[s] \/ at'[w] = s),
         Placed(o)', ~(o.stage = "point" /\ p = Admin) => Only(w, at[w])'
  PROVE  Sound'
  <1>1. op' \in [Parties -> Ops] /\ op'[p] = o /\ \A q \in Parties \ {p} : op'[q] = op[q]
    BY DEF Does, Sound, Types
  <1>2. Made' = Made /\ \A r : Listed(r)' <=> Listed(r)
    BY DEF Made, Listed
  <1>3. \A v \in Users : \A s : v # w /\ Only(v, s) => Only(v, s)'
    BY <1>2 DEF Only, IsIn
  <1>4. \A q \in Parties \ {p} : Busy(q) => op[q].user # w
    BY DEF Sound, Exclusive, Apart
  <1>5. Types'
    BY <1>1, <1>2 DEF Sound, Types
  <1>6. Stops'
    BY <1>2 DEF Sound, Stops
  <1>7. Exclusive'
    <2> SUFFICES ASSUME NEW q \in Parties, NEW s \in Parties, Busy(q)', Busy(s)',
                        op'[q].user = op'[s].user, op'[q].user # Admin
                 PROVE  q = s
      BY DEF Exclusive
    <2>1. CASE q = p \/ s = p
      BY <1>1, <1>4, <2>1 DEF Busy
    <2>2. CASE q # p /\ s # p
      BY <1>1, <2>2 DEF Sound, Exclusive, Busy
    <2> QED BY <2>1, <2>2
  <1>8. ASSUME NEW q \in Parties \ {p} PROVE Fits(q, op[q])' /\ Placed(op[q])'
    <2>1. Fits(q, op[q]) /\ Placed(op[q]) /\ op'[q] = op[q] /\ op[q] \in Ops
      BY <1>1, TypesIs DEF Sound, Where
    <2>2. Fits(q, op[q])'
      BY <1>2, <2>1 DEF Fits
    <2>3. CASE op[q].user = Admin
      <3>1. op[q].kind \in {"none", "close", "empty"} /\ (op[q].kind = "none" => op[q].stage = "")
        BY <2>1, <2>3, AdminIs DEF Ops
      <3>2. op[q].stage \notin {"leaving", "added", "point"}
        BY <2>1, <3>1 DEF Fits
      <3> QED BY <2>1, <2>2, <3>1, <3>2 DEF Placed, Out
    <2>4. CASE op[q].user # Admin
      <3>1. op[q].user \in Users /\ op[q].user # w
        <4>1. op[q].user \in Users
          BY <2>1, <2>4 DEF Ops, Parties
        <4>2. Busy(q)
          BY <2>1, <2>4, NoOpIs DEF Busy, Fits
        <4> QED BY <1>4, <4>1, <4>2
      <3>2. at'[op[q].user] = at[op[q].user]
        BY <3>1
      <3>3. \A s : Only(op[q].user, s) => Only(op[q].user, s)'
        BY <1>3, <2>1, <3>1
      <3> QED BY <2>1, <2>2, <3>2, <3>3 DEF Placed, Out
    <2> QED BY <2>2, <2>3, <2>4
  <1>9. Fits(p, o)'
    BY <1>2 DEF Fits
  <1>10. ASSUME NEW u \in Users, ~Pointing(u)' PROVE Only(u, at[u])'
    <2>1. CASE u = w
      <3>1. ~(o.stage = "point" /\ p = Admin)
        <4> SUFFICES ASSUME o.stage = "point", p = Admin PROVE FALSE
          OBVIOUS
        <4>1. o.kind # "none"
          BY NoOpIs DEF Fits
        <4> QED BY <1>1, <1>10, <2>1, <4>1 DEF Pointing
      <3> QED BY <2>1, <3>1
    <2>2. CASE u # w
      <3>1. ~Pointing(u)
        BY <1>1, <1>10, <2>2, TypesIs DEF Pointing, Sound
      <3>2. Only(u, at[u])
        BY <3>1 DEF Sound, Where
      <3> QED BY <1>3, <2>2, <3>2
    <2> QED BY <2>1, <2>2
  <1>11. Where'
    BY <1>1, <1>8, <1>9, <1>10 DEF Where
  <1>12. ASSUME NEW s \in Made, NEW k \in DOMAIN mailbox[s] PROVE Letter(s, mailbox[s][k])'
    <2>1. PICK c \in Posts : c = mailbox[s][k]
      BY LetterIs
    <2>2. Letter(s, c) /\ c.by \in Parties
      BY <2>1, LetterIs
    <2>3. c.by # p /\ op'[c.by] = op[c.by] /\ Fits(c.by, op[c.by])
      BY <1>1, <2>2 DEF Letter, Sound, Where
    <2>4. c.what \in {"remove", "kick"} => c.user \in Users /\ c.user # w
      <3>1. op[c.by].kind \in Kinds /\ op[c.by].stage = "adding" /\ op[c.by].user = c.user
            /\ c.what = Asks(op[c.by].kind)
        BY <2>2, TypesIs DEF Sound, Letter, Ops
      <3>2. Busy(c.by)
        BY <2>3, <3>1, NoOpIs DEF Fits, Busy
      <3>3. c.what \in {"remove", "kick"} => op[c.by].kind \in {"leave", "kick", "move-removes"}
        BY <3>1 DEF Asks, Kinds
      <3> QED BY <1>4, <2>2, <2>3, <3>1, <3>2, <3>3 DEF Fits
    <2>5. c.what = "close" => \A v \in users'[s] : at'[v] = s
      <3> SUFFICES ASSUME c.what = "close", NEW v \in users'[s] PROVE at'[v] = s
        OBVIOUS
      <3>1. p # Admin
        <4>1. op[c.by].kind = "close"
          BY <2>2, TypesIs DEF Sound, Letter, Ops, Asks, Kinds
        <4> QED BY <2>3, <4>1 DEF Fits
      <3>2. v \in Users /\ (v \in users[s] => at[v] = s) /\ s # None
        <4>1. users' \in Seq(SUBSET Users) /\ s \in DOMAIN users'
          BY TypesIs DEF Sound, Types
        <4>2. v \in Users
          BY <4>1
        <4> QED BY <2>2, <4>2, TypesIs DEF Letter, Sound
      <3> QED BY <3>1, <3>2
    <2>6. Letter(s, c)'
      BY <1>3, <2>2, <2>3, <2>4, <2>5 DEF Letter
    <2> QED BY <2>1, <2>6
  <1>13. Posted'
    BY <1>2, <1>12 DEF Sound, Posted
  <1> QED BY <1>5, <1>6, <1>7, <1>11, <1>13 DEF Sound

(* Rooms lose their place or their players, and nobody is told. *)
LEMMA GoesKeeps ==
  ASSUME Apart, Sound, op' = op \/ Ends(Admin), op[Admin].stage \notin {"adding", "point"},
         idOf' = idOf, mailbox' = mailbox, Stops',
         rooms' \in [Ids -> Nat], \A i \in Ids : rooms'[i] \in {rooms[i], None},
         users' \in Seq(SUBSET Users), Len(users') = Len(users), \A s \in Made : users'[s] \subseteq users[s],
         at' \in [Users -> Nat], \A v \in Users : at'[v] = at[v] \/ (at'[v] = None /\ Only(v, None)')
  PROVE  Sound'
  <1>1. op' \in [Parties -> Ops] /\ \A q \in Parties : op'[q] = op[q] \/ (op'[q] = NoOp /\ q = Admin)
    BY NoOpIs DEF Ends, Does, Sound, Types
  <1>2. Made' = Made /\ \A v, s : Only(v, s) => Only(v, s)'
    BY ShrinksIs DEF Sound
  <1>3. Types'
    BY <1>1, <1>2 DEF Sound, Types
  <1>4. Exclusive'
    BY <1>1, NoOpIs DEF Sound, Exclusive, Busy
  <1>5. ASSUME NEW q \in Parties PROVE Fits(q, op[q])' /\ Placed(op[q])'
    <2>1. CASE op'[q] = NoOp
      BY <2>1, NoOpIs DEF Fits, Placed, Out, None
    <2>2. CASE op'[q] = op[q]
      <3>1. Fits(q, op[q]) /\ Placed(op[q])
        BY DEF Sound, Where
      <3>2. op[q].kind = "join" => op[q].user \in Users
        BY <3>1 DEF Fits
      <3> QED BY <1>2, <2>2, <3>1, <3>2 DEF Fits, Placed
    <2> QED BY <1>1, <2>1, <2>2
  <1>6. ASSUME NEW u \in Users, ~Pointing(u)' PROVE Only(u, at[u])'
    <2>1. ~Pointing(u)
      BY <1>1, <1>6, TypesIs DEF Pointing, Sound, Ends, Does
    <2>2. Only(u, at[u])
      BY <2>1 DEF Sound, Where
    <2>3. CASE at'[u] = at[u]
      BY <1>2, <2>2, <2>3
    <2>4. CASE at'[u] = None /\ Only(u, None)'
      BY <2>4
    <2> QED BY <2>3, <2>4
  <1>7. Where'
    BY <1>5, <1>6 DEF Where
  <1>8. ASSUME NEW s \in Made, NEW k \in DOMAIN mailbox[s] PROVE Letter(s, mailbox[s][k])'
    <2>1. PICK c \in Posts : c = mailbox[s][k]
      BY LetterIs
    <2>2. Letter(s, c) /\ c.by \in Parties
      BY <2>1, LetterIs
    <2>3. op'[c.by] = op[c.by]
      BY <1>1, <2>2, TypesIs DEF Letter, Ends, Does, Sound, Types
    <2>4. c.what # "close"
      <3>1. op[c.by].kind \in Kinds /\ op[c.by].stage = "adding" /\ c.what = Asks(op[c.by].kind)
            /\ Fits(c.by, op[c.by])
        BY <2>2, TypesIs DEF Sound, Letter, Ops, Where
      <3>2. c.what = "close" => op[c.by].kind = "close"
        BY <3>1 DEF Asks, Kinds
      <3> QED BY <3>1, <3>2 DEF Fits
    <2>5. c.user \in users'[s] /\ c.what \in {"remove", "kick"} => at'[c.user] \in {s, None}
      <3> SUFFICES ASSUME c.user \in users'[s], c.what \in {"remove", "kick"} PROVE at'[c.user] \in {s, None}
        OBVIOUS
      <3>1. c.user \in users[s] /\ c.user \in Users
        BY TypesIs DEF Sound
      <3> QED BY <2>2, <3>1 DEF Letter
    <2>6. Letter(s, c)'
      BY <1>2, <2>2, <2>3, <2>4, <2>5 DEF Letter
    <2> QED BY <2>1, <2>6
  <1>9. Posted'
    BY <1>2, <1>8 DEF Sound, Posted
  <1> QED BY <1>3, <1>4, <1>7, <1>9 DEF Sound

LEMMA NothingIs == DOMAIN <<>> = {}
  OBVIOUS

(* A room is made, with nobody or its maker in it. *)
LEMMA NewRoomIs ==
  ASSUME Types, Stops, Posted, NEW i \in Ids, NEW inside \in SUBSET Users, NewRoom(i, inside),
         NEW n, n = Len(idOf) + 1
  PROVE  /\ Made' = Made \cup {n} /\ n \notin Made /\ n # None /\ n \in Nat
         /\ idOf' \in Seq(Ids) /\ users' \in Seq(SUBSET Users) /\ Len(users') = Len(idOf')
         /\ mailbox' \in Seq(Seq(Posts)) /\ Len(mailbox') = Len(idOf')
         /\ idOf'[n] = i /\ users'[n] = inside /\ mailbox'[n] = <<>>
         /\ \A s \in Made : idOf'[s] = idOf[s] /\ users'[s] = users[s] /\ mailbox'[s] = mailbox[s]
         /\ rooms' \in [Ids -> Nat] /\ rooms'[i] = n /\ \A j \in Ids : j # i => rooms'[j] = rooms[j]
         /\ \A s \in Made : Listed(s)' <=> Listed(s)
  <1>1. /\ Made' = Made \cup {n} /\ n \notin Made /\ n # None /\ n \in Nat
        /\ idOf' \in Seq(Ids) /\ Len(idOf') = n /\ idOf'[n] = i /\ \A s \in Made : idOf'[s] = idOf[s]
    BY DEF NewRoom, Types, Made, None
  <1>2. /\ users' \in Seq(SUBSET Users) /\ Len(users') = n /\ users'[n] = inside
        /\ \A s \in Made : users'[s] = users[s]
    BY DEF NewRoom, Types, Made
  <1>3. /\ mailbox' \in Seq(Seq(Posts)) /\ Len(mailbox') = n /\ mailbox'[n] = <<>>
        /\ \A s \in Made : mailbox'[s] = mailbox[s]
    <2>1. <<>> \in Seq(Posts)
      OBVIOUS
    <2>2. mailbox \in Seq(Seq(Posts)) /\ Len(mailbox) = Len(idOf) /\ mailbox' = Append(mailbox, <<>>)
      BY DEF NewRoom, Posted
    <2> QED BY <2>1, <2>2 DEF Types, Made
  <1>4. /\ rooms' \in [Ids -> Nat] /\ rooms'[i] = n /\ rooms[i] = None
        /\ \A j \in Ids : j # i => rooms'[j] = rooms[j]
    BY <1>1 DEF NewRoom, Types
  <1>5. \A s \in Made : Listed(s)' <=> Listed(s)
    BY <1>1, <1>4, TypesIs DEF Listed
  <1> QED BY <1>1, <1>2, <1>3, <1>4, <1>5

LEMMA NewRoomKeeps ==
  ASSUME Apart, Sound, NEW i \in Ids, NEW inside \in SUBSET Users, NewRoom(i, inside),
         NEW n, n = Len(idOf) + 1, UNCHANGED <<trouble, stopped>>,
         \/ op' = op
         \/ \E o \in Ops : Does(Admin, o) /\ ~Busy(Admin) /\ o.kind = "empty" /\ o.stage = "" /\ o.user = Admin /\ o.from = None,
         at' \in [Users -> Nat],
         \A v \in Users : IF v \in inside THEN at'[v] = n /\ at[v] = None /\ Only(v, None) /\ \A q \in Parties : op[q].user # v
                                          ELSE at'[v] = at[v]
  PROVE  Sound'
  <1>a. Types /\ Stops /\ Posted /\ Exclusive /\ Where
    BY DEF Sound
  <1>0. /\ Made' = Made \cup {n} /\ n \notin Made /\ n # None /\ n \in Nat
        /\ idOf' \in Seq(Ids) /\ users' \in Seq(SUBSET Users) /\ Len(users') = Len(idOf')
        /\ mailbox' \in Seq(Seq(Posts)) /\ Len(mailbox') = Len(idOf')
        /\ idOf'[n] = i /\ users'[n] = inside /\ mailbox'[n] = <<>>
        /\ \A s \in Made : idOf'[s] = idOf[s] /\ users'[s] = users[s] /\ mailbox'[s] = mailbox[s]
        /\ rooms' \in [Ids -> Nat] /\ rooms'[i] = n /\ \A j \in Ids : j # i => rooms'[j] = rooms[j]
        /\ \A s \in Made : Listed(s)' <=> Listed(s)
    BY ONLY <1>a, NewRoomIs, i \in Ids, inside \in SUBSET Users, NewRoom(i, inside),
       n = Len(idOf) + 1
  <1>1. PICK o \in Ops : op' = op \/ (Does(Admin, o) /\ ~Busy(Admin) /\ o.kind = "empty" /\ o.stage = "" /\ o.user = Admin /\ o.from = None)
    BY NoOpIs
  <1>2. /\ op' \in [Parties -> Ops]
        /\ \A q \in Parties : op'[q] = op[q] \/ (q = Admin /\ op'[q] = o /\ op[q] = NoOp)
        /\ (\E q \in Parties : op'[q] # op[q]) => o.kind = "empty" /\ o.stage = "" /\ o.user = Admin /\ o.from = None
    <2>1. CASE op' = op
      BY <1>a, <2>1 DEF Types
    <2>2. CASE op' # op
      <3>1. op' = [op EXCEPT ![Admin] = o]
        BY <1>1, <2>2 DEF Does
      <3>2. op[Admin] = NoOp
        BY <1>1, <1>a, <2>2, TypesIs DEF Busy, Where, Fits
      <3> QED BY <1>1, <1>a, <2>2, <3>1, <3>2 DEF Types
    <2> QED BY <2>1, <2>2
  <1>3. Types'
    <2>1. \A j \in Ids : rooms'[j] # None => rooms'[j] \in Made' /\ idOf'[rooms'[j]] = j
      <3> TAKE j \in Ids
      <3>1. CASE j = i
        BY <1>0, <3>1
      <3>2. CASE j # i
        <4>1. rooms'[j] = rooms[j] /\ (rooms[j] # None => rooms[j] \in Made /\ idOf[rooms[j]] = j)
          BY <1>a, <1>0, <3>2 DEF Types
        <4>2. rooms[j] # None => idOf'[rooms[j]] = j
          BY <1>0, <4>1
        <4> QED BY <1>0, <4>1, <4>2
      <3> QED BY <3>1, <3>2
    <2>2. \A u \in Users : at'[u] # None => at'[u] \in Made'
      BY <1>a, <1>0 DEF Types
    <2> QED BY <1>2, <2>1, <2>2, <1>a, <1>0 DEF Types
  <1>4. Stops'
    BY <1>a, <1>0 DEF Stops
  <1>5. Exclusive'
    <2>1. \A q \in Parties : op'[q].user # Admin => op'[q] = op[q]
      BY <1>2
    <2> QED BY <1>a, <2>1 DEF Exclusive, Busy
  <1>6. \A v : \A s : v \notin inside /\ Only(v, s) => Only(v, s)'
    BY <1>a, <1>0 DEF Only, IsIn
  <1>7. \A v : Only(v, None) => Only(v, n)'
    BY <1>a, <1>0, TypesIs DEF Only, IsIn
  <1>8. ASSUME NEW q \in Parties PROVE Fits(q, op[q])' /\ Placed(op[q])'
    <2>1. CASE op'[q] = op[q]
      <3>1. Fits(q, op[q]) /\ Placed(op[q]) /\ op[q] \in Ops
        BY <1>a, TypesIs DEF Where
      <3>2. Fits(q, op[q])'
        BY <2>1, <3>1, <1>a, <1>0 DEF Fits
      <3>3. CASE op[q].user \in Users
        <4>1. op[q].user \notin inside
          BY <3>3
        <4>2. at'[op[q].user] = at[op[q].user]
          BY <3>3, <4>1
        <4> QED BY <1>6, <2>1, <3>1, <3>2, <4>1, <4>2 DEF Placed, Out
      <3>4. CASE op[q].user = Admin
        <4>1. op[q].kind \in {"none", "close", "empty"} /\ (op[q].kind = "none" => op[q].stage = "")
          BY <3>1, <3>4, AdminIs DEF Ops
        <4>2. op[q].stage \notin {"leaving", "added", "point"}
          BY <3>1, <4>1 DEF Fits
        <4> QED BY <2>1, <3>2, <4>1, <4>2 DEF Placed, Out
      <3> QED BY <3>1, <3>3, <3>4 DEF Ops, Parties
    <2>2. CASE op'[q] # op[q]
      <3>1. q = Admin /\ op'[q] = o /\ o.kind = "empty" /\ o.stage = "" /\ o.user = Admin /\ o.from = None
        BY <1>2, <2>2
      <3> QED BY <3>1, NoOpIs DEF Fits, Placed, Out
    <2> QED BY <2>1, <2>2
  <1>9. ASSUME NEW u \in Users, ~Pointing(u)' PROVE Only(u, at[u])'
    <2>1. CASE u \in inside
      BY <1>7, <2>1
    <2>2. CASE u \notin inside
      <3>1. ~Pointing(u)
        BY <1>2, <1>9, <1>a, NoOpIs, TypesIs DEF Pointing
      <3> QED BY <1>6, <2>2, <3>1, <1>a DEF Where
    <2> QED BY <2>1, <2>2
  <1>10. Where'
    BY <1>8, <1>9 DEF Where
  <1>11. Posted'
    <2>1. \A s \in Made' : \A k \in DOMAIN mailbox'[s] : s \in Made /\ k \in DOMAIN mailbox[s] /\ mailbox'[s][k] = mailbox[s][k]
      <3> TAKE s \in Made'
      <3> TAKE k \in DOMAIN mailbox'[s]
      <3>1. s # n
        <4>1. mailbox'[n] = <<>>
          BY <1>0
        <4> QED BY ONLY <4>1, NothingIs, k \in DOMAIN mailbox'[s]
      <3> QED BY <1>0, <3>1
    <2>2. ASSUME NEW s \in Made', NEW k \in DOMAIN mailbox'[s] PROVE Letter(s, mailbox[s][k])'
      <3>1. s \in Made /\ k \in DOMAIN mailbox[s] /\ mailbox'[s][k] = mailbox[s][k]
        BY <2>1
      <3>2. PICK c \in Posts : c = mailbox[s][k]
        BY <3>1, LetterIs
      <3>3. Letter(s, c) /\ c.by \in Parties /\ c.user \in Parties
        BY <3>1, <3>2, LetterIs
      <3>4. op'[c.by] = op[c.by] /\ op[c.by].user = c.user
        BY <1>2, <3>3, NoOpIs DEF Letter
      <3>5. c.user \notin inside
        BY <3>3, <3>4
      <3>6. users'[s] = users[s]
        BY <3>1, <1>0
      <3>7. \A v \in users[s] : v \in Users /\ (at[v] = s => at'[v] = s)
        BY <1>a, <3>1, TypesIs
      <3>8. c.user \in users[s] => at'[c.user] = at[c.user]
        BY <3>5, <3>7
      <3>9. Letter(s, c)'
        BY <1>6, <3>3, <3>4, <3>5, <3>6, <3>7, <3>8 DEF Letter
      <3> QED BY <3>1, <3>2, <3>9
    <2>3. \A s, t \in Made' : \A k \in DOMAIN mailbox'[s], m \in DOMAIN mailbox'[t] :
            mailbox'[s][k].by = mailbox'[t][m].by => s = t /\ k = m
      <3> TAKE s, t \in Made'
      <3> TAKE k \in DOMAIN mailbox'[s], m \in DOMAIN mailbox'[t]
      <3>1. /\ s \in Made /\ k \in DOMAIN mailbox[s] /\ mailbox'[s][k] = mailbox[s][k]
            /\ t \in Made /\ m \in DOMAIN mailbox[t] /\ mailbox'[t][m] = mailbox[t][m]
        BY <2>1
      <3>2. mailbox[s][k].by = mailbox[t][m].by => s = t /\ k = m
        BY ONLY <1>a, <3>1 DEF Posted
      <3> QED BY <3>1, <3>2
    <2> QED BY <2>2, <2>3, <1>a, <1>0 DEF Posted
  <1> QED BY <1>3, <1>4, <1>5, <1>10, <1>11 DEF Sound

LEMMA NowhereIs == ASSUME Types, NEW v, Only(v, None) PROVE \A s : Only(v, s)
  BY TypesIs DEF Only, IsIn

-----------------------------------------------------------------------------
(***************************************************************************)
(* The actions, one by one, keep the sound layer.                          *)
(***************************************************************************)
(* Who starts something has nobody in the way. *)
LEMMA FreeIs ==
  ASSUME Apart, Sound, "overlap" \notin trouble, NEW p \in Parties, NEW u \in Parties, NEW ids,
         MayStart(p, u, ids)
  PROVE  /\ op[p] = NoOp /\ (u \in Users => \A q \in Parties : op[q].user # u)
         /\ (u \in Users => Only(u, at[u]))
  <1>1. \A q \in Parties : Busy(q) \/ op[q] = NoOp
    BY DEF Sound, Where, Fits, Busy
  <1>2. op[p] = NoOp
    BY <1>1 DEF MayStart
  <1>3. u \in Users => \A q \in Parties : op[q].user # u
    BY <1>1, NoOpIs, TypesIs DEF MayStart, Apart, Sound
  <1>4. u \in Users => Only(u, at[u])
    BY <1>3, TypesIs DEF Sound, Where, Pointing
  <1> QED BY <1>2, <1>3, <1>4

(* The room that an id names. *)
LEMMA ReachesIs ==
  ASSUME Types, NEW i \in Ids, Reaches(i)
  PROVE  /\ rooms[i] \in Made /\ idOf[rooms[i]] = i /\ Listed(rooms[i]) /\ rooms[i] \in Nat
         /\ \A u, s : Only(u, s) /\ s \in Made /\ idOf[s] = i => Only(u, rooms[i])
  BY TypesIs DEF Reaches, Types, Listed, Only, IsIn

LEMMA EndsKeeps ==
  ASSUME Apart, Sound, NEW p \in Parties, Ends(p), op[p].stage \notin {"adding", "point"},
         UNCHANGED <<trouble, stopped, places, mailbox>>
  PROVE  Sound'
  <1>1. Fits(p, NoOp) /\ Placed(NoOp)
    BY NoOpIs DEF Fits, Placed, Out, None
  <1> QED BY <1>1, NoOpIs, DoesKeeps DEF Ends

LEMMA CreateRoomKeeps ==
  ASSUME Apart, Sound, "overlap" \notin trouble, NEW u \in Users, NEW i \in Ids, CreateRoom(u,
         i)
  PROVE  Sound'
  <1>1. PICK n : n = Len(idOf) + 1
    OBVIOUS
  <1>2. /\ \A q \in Parties : op[q].user # u
        /\ Only(u, None) /\ at[u] = None
    BY FreeIs, TypesIs DEF CreateRoom, Sound
  <1>3. NewRoom(i, {u}) /\ {u} \in SUBSET Users /\ UNCHANGED <<trouble, stopped, op>>
        /\ at' = [at EXCEPT ![u] = n]
    BY <1>1 DEF CreateRoom
  <1>4. at' \in [Users -> Nat] /\ at'[u] = n /\ \A v \in Users : v # u => at'[v] = at[v]
    BY <1>1, <1>3 DEF Sound, Types
  <1>5. \A v \in Users : IF v \in {u} THEN at'[v] = n /\ at[v] = None /\ Only(v, None) /\ \A q \in Parties : op[q].user # v
                                      ELSE at'[v] = at[v]
    BY <1>2, <1>4
  <1> QED BY <1>1, <1>3, <1>4, <1>5, NewRoomKeeps

LEMMA JoinLookKeeps ==
  ASSUME Apart, Sound, "overlap" \notin trouble, NEW u \in Users, NEW i \in Ids, JoinLook(u, i)
  PROVE  Sound'
  <1> DEFINE joining == [NoOp EXCEPT !.kind = "join", !.stage = "looked", !.user = u, !.to = rooms[i], !.ids = {i}]
  <1>1. rooms[i] \in Made /\ rooms[i] \in Nat /\ {i} \in SUBSET Ids /\ u \in Parties
    BY ReachesIs, TypesIs DEF Reaches, JoinLook, Sound
  <1>2. /\ joining \in Ops /\ joining.kind = "join" /\ joining.stage = "looked" /\ joining.user = u
        /\ joining.to = rooms[i] /\ joining.from = None
    BY <1>1, TypesIs DEF NoOp, Ops, Kinds, Stages, None, Parties
  <1>3. Does(u, joining) /\ at[u] = None /\ UNCHANGED <<trouble, stopped, places, mailbox>>
    BY DEF JoinLook
  <1> HIDE DEF joining
  <1>4. PICK o \in Ops : o = joining
    BY <1>2
  <1>5. op[u] = NoOp /\ \A q \in Parties : op[q].user # u
    BY <1>1, FreeIs DEF JoinLook
  <1>6. Fits(u, o) /\ Placed(o)
    BY <1>1, <1>2, <1>3, <1>4 DEF Fits, Placed, Out
  <1> QED BY <1>1, <1>2, <1>3, <1>4, <1>5, <1>6, NoOpIs, DoesKeeps

LEMMA JoinSendKeeps == ASSUME Apart, Sound, NEW u \in Users, JoinSend(u) PROVE Sound'
  <1> DEFINE i == idOf[op[u].to]
             adding == [op[u] EXCEPT !.stage = "adding"]
  <1>1. /\ op[u] \in Ops /\ u \in Parties /\ op[u].kind = "join" /\ op[u].stage = "looked"
        /\ Fits(u, op[u]) /\ Placed(op[u]) /\ i \in Ids
    BY TypesIs DEF JoinSend, Stage, Sound, Where, Fits
  <1>2. UNCHANGED <<trouble, stopped, places>>
    BY DEF JoinSend
  <1>3. CASE Reaches(i)
    <2>1. /\ adding \in Ops /\ adding.kind = "join" /\ adding.stage = "adding" /\ adding.user = op[u].user
          /\ adding.to = op[u].to /\ adding.from = op[u].from
      BY <1>1, StageIs DEF Stages
    <2>2. Does(u, adding) /\ mailbox' = [mailbox EXCEPT ![rooms[i]] = Append(@, [by |-> u, what |-> "add", user |-> op[u].user])]
      BY <1>3 DEF JoinSend, Goes, Send
    <2>3. rooms[i] \in Made
      BY <1>1, <1>3, ReachesIs DEF Sound
    <2> HIDE DEF adding
    <2>4. PICK o \in Ops, r \in Made : o = adding /\ r = rooms[i]
      BY <2>1, <2>3
    <2>5. Fits(u, o) /\ Placed(o) /\ o.user = u
      BY <1>1, <2>1, <2>4 DEF Fits, Placed, Out
    <2>6. \A q \in Parties \ {u} : Busy(q) => op[q].user # o.user
      BY <1>1, <2>5, <2>1, <2>4 DEF Sound, Exclusive, Busy, Apart
    <2>7. mailbox' = [mailbox EXCEPT ![r] = Append(@, [by |-> u, what |-> "add", user |-> o.user])]
      BY <2>1, <2>2, <2>4
    <2>8. Asks(o.kind) = "add" /\ o.stage = "adding" /\ Does(u, o)
      BY <2>1, <2>2, <2>4 DEF Asks
    <2> QED BY <1>1, <1>2, <2>4, <2>5, <2>6, <2>7, <2>8, SendKeeps
  <1>4. CASE ~Reaches(i)
    <2>1. Ends(u) /\ UNCHANGED mailbox
      BY <1>4 DEF JoinSend
    <2> QED BY <1>1, <1>2, <2>1, EndsKeeps
  <1> QED BY <1>3, <1>4

LEMMA JoinEndsKeeps == ASSUME Apart, Sound, NEW u \in Users, JoinEnds(u) PROVE Sound'
  <1>1. /\ op[u] \in Ops /\ u \in Parties /\ op[u].kind = "join" /\ op[u].stage = "answered"
        /\ Fits(u, op[u]) /\ Placed(op[u]) /\ Ends(u)
    BY TypesIs DEF JoinEnds, Stage, Sound, Where
  <1>2. CASE op[u].ok
    <2>1. PICK r \in Made : r = op[u].to
      BY <1>1 DEF Fits
    <2>2. /\ op[u].user = u /\ at[u] = None /\ Busy(u)
      BY <1>1 DEF Fits, Placed, Busy
    <2>3. ~Pointing(u)
      <3> SUFFICES ASSUME Pointing(u) PROVE FALSE
        OBVIOUS
      <3>1. Busy(Admin) /\ op[Admin].user = u /\ u # Admin
        BY NoOpIs, TypesIs DEF Pointing, Busy, Sound, Where, Fits, Apart
      <3> QED BY <2>2, <3>1, TypesIs DEF Sound, Exclusive
    <2>4. Only(u, None)
      BY <2>2, <2>3 DEF Sound, Where
    <2>5. /\ users' = [users EXCEPT ![r] = users[r] \cup {u}] /\ at' = [at EXCEPT ![u] = r]
          /\ UNCHANGED <<trouble, stopped, rooms, idOf, mailbox>>
      BY <1>2, <2>1 DEF JoinEnds, Register
    <2>6. /\ users' \in Seq(SUBSET Users) /\ Len(users') = Len(users)
          /\ users'[r] = users[r] \cup {u} /\ \A s \in Made : s # r => users'[s] = users[s]
      BY <2>5, TypesIs DEF Sound, Types
    <2>7. at' \in [Users -> Nat] /\ at'[u] = r /\ \A v \in Users : v # u => at'[v] = at[v]
      BY <2>5, TypesIs DEF Sound, Types
    <2>8. Only(u, r)'
      BY <2>4, <2>5, <2>6, TypesIs DEF Only, IsIn, Listed, Made, Sound
    <2>9. Fits(u, NoOp) /\ Placed(NoOp)' /\ NoOp \in Ops /\ NoOp.kind = "none" /\ u # Admin /\ Does(u, NoOp)
      BY <1>1, NoOpIs DEF Fits, Placed, Out, None, Apart, Ends
    <2>10. at'[u] \in Made /\ Only(u, at[u])'
      BY <2>7, <2>8
    <2>11. \A s \in Made, v \in Users : v \in users'[s] => v \in users[s] \/ v = u
      BY <2>6
    <2>12. \A s \in Made : u \in users'[s] => u \in users[s] \/ at'[u] = s
      BY <2>6, <2>7
    <2> QED BY <1>1, <2>2, <2>5, <2>6, <2>7, <2>9, <2>10, <2>11, <2>12, ComesKeeps
  <1>3. CASE ~op[u].ok
    BY <1>1, <1>3, EndsKeeps DEF JoinEnds, places
  <1> QED BY <1>2, <1>3

LEMMA LeaveRoomKeeps ==
  ASSUME Apart, Sound, "overlap" \notin trouble, NEW u \in Users, LeaveRoom(u)
  PROVE  Sound'
  <1> DEFINE i == idOf[at[u]]
             leaving == [NoOp EXCEPT !.kind = "leave", !.stage = "adding", !.user = u, !.ids = {i}]
  <1>1. at[u] \in Made /\ i \in Ids /\ u \in Parties /\ Reaches(i)
    BY TypesIs DEF LeaveRoom, Sound, Types
  <1>2. /\ leaving \in Ops /\ leaving.kind = "leave" /\ leaving.stage = "adding" /\ leaving.user = u
        /\ leaving.from = None
    BY <1>1, TypesIs DEF NoOp, Ops, Kinds, Stages, None, Parties
  <1>3. /\ Does(u, leaving) /\ UNCHANGED <<trouble, stopped, places>>
        /\ mailbox' = [mailbox EXCEPT ![rooms[i]] = Append(@, [by |-> u, what |-> "remove", user |-> u])]
    BY DEF LeaveRoom
  <1> HIDE DEF leaving
  <1>4. op[u] = NoOp /\ (\A q \in Parties : op[q].user # u) /\ Only(u, at[u])
    BY <1>1, FreeIs DEF LeaveRoom
  <1>5. rooms[i] \in Made /\ Only(u, rooms[i]) /\ (u \in users[rooms[i]] => at[u] = rooms[i])
    BY <1>1, <1>4, ReachesIs DEF Sound, Only, IsIn
  <1>6. PICK o \in Ops, r \in Made : o = leaving /\ r = rooms[i]
    BY <1>2, <1>5
  <1>7. Fits(u, o) /\ Placed(o) /\ o.user = u
    BY <1>1, <1>2, <1>6 DEF Fits, Placed, Out
  <1>8. Asks(o.kind) = "remove" /\ o.stage = "adding" /\ Does(u, o) /\ Only(u, r)
    BY <1>2, <1>3, <1>5, <1>6 DEF Asks
  <1>9. mailbox' = [mailbox EXCEPT ![r] = Append(@, [by |-> u, what |-> "remove", user |-> o.user])]
    BY <1>3, <1>6, <1>7
  <1>10. op[u].stage \notin {"adding", "point"} /\ Only(o.user, r) /\ (o.user \in users[r] => at[o.user] = r)
         /\ \A q \in Parties \ {u} : Busy(q) => op[q].user # o.user
    BY <1>4, <1>5, <1>6, <1>7, <1>8, NoOpIs
  <1>11. Fits(u, o) /\ Placed(o) /\ u \in Parties /\ UNCHANGED <<trouble, stopped, places>>
    BY <1>1, <1>3, <1>7
  <1> QED BY ONLY Apart, Sound, <1>6, <1>8, <1>9, <1>10, <1>11, SendKeeps

(* What a command finds at the head of a mailbox. *)
LEMMA HeadIs ==
  ASSUME Sound, NEW r \in Made, NEW what, Runs(r, what)
  PROVE  /\ mailbox[r] # <<>> /\ r \notin stopped
         /\ LET c == Head(mailbox[r]) IN
              /\ c \in Posts /\ c.what = what /\ c.by \in Parties /\ Letter(r, c) /\ Fits(c.by, op[c.by])
              /\ op[c.by].kind \in Kinds
  <1>1. mailbox[r] # <<>> /\ r \notin stopped /\ Head(mailbox[r]).what = what
    BY DEF Runs
  <1>2. 1 \in DOMAIN mailbox[r] /\ Head(mailbox[r]) = mailbox[r][1]
    BY <1>1, LetterIs
  <1>3. LET c == Head(mailbox[r]) IN c \in Posts /\ c.by \in Parties /\ Letter(r, c)
    BY <1>2, LetterIs
  <1> QED BY <1>1, <1>3, TypesIs DEF Sound, Where, Ops

LEMMA AddUserKeeps == ASSUME Apart, Sound, NEW r \in Made, AddUser(r) PROVE Sound'
  <1>1. /\ Runs(r, "add") /\ UNCHANGED <<trouble, stopped, rooms, idOf, users, at>>
        /\ Answers(r, TRUE, FALSE) \/ Answers(r, FALSE, FALSE)
    BY DEF AddUser
  <1>2. op[Head(mailbox[r]).by].kind # "move-removes"
    BY <1>1, HeadIs DEF Letter, Asks
  <1>3. Stops'
    BY <1>1 DEF Sound, Stops, Listed, Made
  <1>4. /\ rooms' \in [Ids -> Nat] /\ users' \in Seq(SUBSET Users) /\ Len(users') = Len(users)
        /\ at' \in [Users -> Nat]
    BY <1>1 DEF Sound, Types
  <1>5. mailbox[r] # <<>>
    BY <1>1, HeadIs
  <1>6. PICK x : x = Head(mailbox[r]).user
    OBVIOUS
  <1> QED BY <1>1, <1>2, <1>3, <1>4, <1>5, <1>6, AnswersKeeps

LEMMA LostKeeps == ASSUME Apart, Sound, NEW r \in Made, Lost(r) PROVE Sound'
  <1>1. /\ mailbox[r] # <<>> /\ UNCHANGED <<trouble, stopped, places>> /\ Answers(r, FALSE, FALSE)
    BY DEF Lost
  <1>2. UNCHANGED <<rooms, idOf, users, at>>
    BY <1>1 DEF places
  <1>3. Stops'
    BY <1>1, <1>2 DEF Sound, Stops, Listed, Made
  <1>4. /\ rooms' \in [Ids -> Nat] /\ users' \in Seq(SUBSET Users) /\ Len(users') = Len(users)
        /\ at' \in [Users -> Nat]
    BY <1>2 DEF Sound, Types
  <1>5. PICK x : x = Head(mailbox[r]).user
    OBVIOUS
  <1> QED BY <1>1, <1>2, <1>3, <1>4, <1>5, AnswersKeeps

(* A player who is taken out of the one room he may be in is in none. *)
LEMMA LeavesIs ==
  ASSUME Sound, NEW r \in Made, NEW u \in Users, Leaves(r, u), idOf' = idOf
  PROVE  /\ rooms' \in [Ids -> Nat] /\ \A i \in Ids : rooms'[i] \in {rooms[i], None}
         /\ users' \in Seq(SUBSET Users) /\ Len(users') = Len(users) /\ \A s \in Made : users'[s] \subseteq users[s]
         /\ at' \in [Users -> Nat] /\ at'[u] = None /\ \A v \in Users : v # u => at'[v] = at[v]
         /\ Only(u, r) => Only(u, None)'
         /\ users[r] \subseteq {u} => ~Listed(r)'
         /\ \A s \in Made : Listed(s)' => Listed(s)
  <1>1. r \in Nat /\ idOf[r] \in Ids /\ Made' = Made
    BY TypesIs DEF Sound, Made
  <1>2. rooms' \in [Ids -> Nat] /\ (\A i \in Ids : rooms'[i] \in {rooms[i], None})
        /\ (users[r] \subseteq {u} => rooms'[idOf[r]] = None)
    <2>1. CASE users[r] \subseteq {u}
      BY <1>1, <2>1 DEF Leaves, Sound, Types, None
    <2>2. CASE ~(users[r] \subseteq {u})
      BY <2>2 DEF Leaves, Sound, Types
    <2> QED BY <2>1, <2>2
  <1>3. /\ users' \in Seq(SUBSET Users) /\ Len(users') = Len(users)
        /\ users'[r] = users[r] \ {u} /\ \A s \in Made : s # r => users'[s] = users[s]
    <2>1. users' = [users EXCEPT ![r] = users[r] \ {u}] /\ users \in Seq(SUBSET Users) /\ r \in DOMAIN users
          /\ users[r] \ {u} \in SUBSET Users
      BY TypesIs DEF Leaves, Sound, Types
    <2> QED BY <2>1, TypesIs DEF Sound
  <1>4. at' \in [Users -> Nat] /\ at'[u] = None /\ \A v \in Users : v # u => at'[v] = at[v]
    BY DEF Leaves, Sound, Types, None
  <1>5. \A s \in Made : Listed(s)' => Listed(s)
    BY <1>2, <1>3, ShrinksIs DEF Sound
  <1>6. Only(u, r) => Only(u, None)'
    BY <1>1, <1>3, <1>5 DEF Only, IsIn
  <1>7. users[r] \subseteq {u} => ~Listed(r)'
    BY <1>1, <1>2 DEF Listed
  <1> QED BY <1>2, <1>3, <1>4, <1>5, <1>6, <1>7

LEMMA InIs == ASSUME NEW x, NEW S PROVE (x \in S) \in BOOLEAN
  OBVIOUS

(* A player who is taken out of a room does not have his pointer in another. *)
LEMMA LeftIs ==
  ASSUME Sound, NEW r \in Made, NEW x \in Users, Leaves(r, x), at[x] \in {r, None}
  PROVE  \A s \in Made : \A v \in users'[s] : at[v] = s => at'[v] = s
  <1> SUFFICES ASSUME NEW s \in Made, NEW v \in users'[s], at[v] = s PROVE at'[v] = s
    OBVIOUS
  <1>1. users \in Seq(SUBSET Users) /\ s \in DOMAIN users /\ r \in DOMAIN users /\ s # None
    BY TypesIs DEF Sound, Types
  <1>2. users' = [users EXCEPT ![r] = users[r] \ {x}]
    BY DEF Leaves
  <1>3. v \in users[s] /\ ~(s = r /\ v = x)
    BY <1>1, <1>2
  <1>4. v \in Users /\ v # x
    BY <1>1, <1>3
  <1> QED BY <1>4 DEF Leaves, Sound, Types

LEMMA RemoveUserKeeps == ASSUME Apart, Sound, NEW r \in Made, RemoveUser(r) PROVE Sound'
  <1>1. PICK x : x = Head(mailbox[r]).user
    OBVIOUS
  <1>2. Runs(r, "remove") /\ UNCHANGED <<trouble, stopped, idOf>>
    BY DEF RemoveUser
  <1>3. /\ mailbox[r] # <<>> /\ x \in Users /\ Only(x, r) /\ r \notin stopped
        /\ (x \in users[r] => at[x] \in {r, None})
    <2>1. op[Head(mailbox[r]).by].kind \in {"leave", "move-removes"}
      BY <1>2, HeadIs DEF Letter, Asks, Kinds
    <2> QED BY <1>1, <1>2, <2>1, HeadIs DEF Letter, Fits
  <1>4. CASE x \in users[r] /\ Leaves(r, x) /\ Answers(r, TRUE, users[r] \subseteq {x})
    <2>1. PICK dropped \in BOOLEAN : dropped = (users[r] \subseteq {x})
      OBVIOUS
    <2>2. /\ rooms' \in [Ids -> Nat] /\ \A i \in Ids : rooms'[i] \in {rooms[i], None}
          /\ users' \in Seq(SUBSET Users) /\ Len(users') = Len(users) /\ \A s \in Made : users'[s] \subseteq users[s]
          /\ at' \in [Users -> Nat] /\ at'[x] = None /\ \A v \in Users : v # x => at'[v] = at[v]
          /\ Only(x, None)' /\ \A s \in Made : Listed(s)' => Listed(s)
      BY <1>2, <1>3, <1>4, LeavesIs
    <2>3. Stops'
      BY <1>2, <2>2 DEF Sound, Stops, Made
    <2>4. \A v \in Users : at'[v] = at[v] \/ (at'[v] = None /\ Only(v, None)')
      BY <2>2
    <2>5. Answers(r, TRUE, dropped)
      BY <1>4, <2>1
    <2>6. \A s \in Made : \A v \in users'[s] : at[v] = s => at'[v] = s
      BY <1>3, <1>4, <2>2, LeftIs
    <2> QED BY <1>1, <1>2, <1>3, <2>2, <2>3, <2>4, <2>5, <2>6, AnswersKeeps
  <1>5. CASE x \notin users[r] /\ Answers(r, x \in members[r], FALSE) /\ UNCHANGED <<users, at, rooms>>
    <2>1. PICK ok \in BOOLEAN : ok = (x \in members[r])
      BY InIs
    <2>2. /\ rooms' \in [Ids -> Nat] /\ users' \in Seq(SUBSET Users) /\ Len(users') = Len(users)
          /\ at' \in [Users -> Nat]
      BY <1>5 DEF Sound, Types
    <2>3. Stops'
      BY <1>2, <1>5 DEF Sound, Stops, Listed, Made
    <2>4. Only(x, None)'
      BY <1>2, <1>3, <1>5 DEF Only, IsIn, Listed, Made
    <2>5. Answers(r, ok, FALSE)
      BY <1>5, <2>1
    <2> QED BY <1>1, <1>2, <1>3, <1>5, <2>2, <2>3, <2>4, <2>5, AnswersKeeps
  <1> QED BY <1>1, <1>4, <1>5 DEF RemoveUser

LEMMA KickUserKeeps == ASSUME Apart, Sound, NEW r \in Made, KickUser(r) PROVE Sound'
  <1>1. PICK x : x = Head(mailbox[r]).user
    OBVIOUS
  <1>2. Runs(r, "kick") /\ UNCHANGED <<trouble, idOf>>
    BY DEF KickUser
  <1>3. /\ mailbox[r] # <<>> /\ x \in Users /\ (x \in users[r] => Only(x, r)) /\ r \notin stopped
        /\ (x \in users[r] => at[x] \in {r, None})
        /\ op[Head(mailbox[r]).by].kind = "kick"
    <2>1. op[Head(mailbox[r]).by].kind = "kick"
      BY <1>2, HeadIs DEF Letter, Asks, Kinds
    <2> QED BY <1>1, <1>2, <2>1, HeadIs DEF Letter, Fits
  <1>4. CASE x \in users[r] /\ Leaves(r, x) /\ Answers(r, TRUE, FALSE) /\ StopsIf(r, users[r] = {x})
    <2>1. /\ rooms' \in [Ids -> Nat] /\ \A i \in Ids : rooms'[i] \in {rooms[i], None}
          /\ users' \in Seq(SUBSET Users) /\ Len(users') = Len(users) /\ \A s \in Made : users'[s] \subseteq users[s]
          /\ at' \in [Users -> Nat] /\ at'[x] = None /\ \A v \in Users : v # x => at'[v] = at[v]
          /\ Only(x, None)' /\ (\A s \in Made : Listed(s)' => Listed(s))
          /\ (users[r] \subseteq {x} => ~Listed(r)')
      BY <1>2, <1>3, <1>4, LeavesIs
    <2>2. Stops'
      BY <1>2, <1>4, <2>1 DEF Sound, Stops, StopsIf, Made
    <2>3. \A v \in Users : at'[v] = at[v] \/ (at'[v] = None /\ Only(v, None)')
      BY <2>1
    <2>4. \A s \in Made : \A v \in users'[s] : at[v] = s => at'[v] = s
      BY <1>3, <1>4, <2>1, LeftIs
    <2> QED BY <1>1, <1>2, <1>3, <1>4, <2>1, <2>2, <2>3, <2>4, AnswersKeeps
  <1>5. CASE Answers(r, FALSE, FALSE) /\ UNCHANGED <<users, at, rooms, stopped>>
    <2>1. /\ rooms' \in [Ids -> Nat] /\ users' \in Seq(SUBSET Users) /\ Len(users') = Len(users)
          /\ at' \in [Users -> Nat]
      BY <1>5 DEF Sound, Types
    <2>2. Stops'
      BY <1>2, <1>5 DEF Sound, Stops, Listed, Made
    <2> QED BY <1>1, <1>2, <1>3, <1>5, <2>1, <2>2, AnswersKeeps
  <1> QED BY <1>1, <1>4, <1>5 DEF KickUser

LEMMA ClosingIs ==
  ASSUME Sound, NEW r \in Made, Runs(r, "close")
  PROVE  op[Admin].stage = "adding"
  <1>1. PICK p \in Parties : p = Head(mailbox[r]).by
    BY HeadIs
  <1>2. op[p].kind = "close" /\ op[p].stage = "adding" /\ Fits(p, op[p])
    BY <1>1, HeadIs DEF Letter, Asks, Kinds
  <1> QED BY <1>2 DEF Fits

LEMMA CloseRoomKeeps == ASSUME Apart, Sound, NEW r \in Made, CloseRoom(r) PROVE Sound'
  <1>1. PICK x : x = Head(mailbox[r]).user
    OBVIOUS
  <1>2. /\ Runs(r, "close") /\ UNCHANGED <<trouble, idOf, members, users>>
        /\ at' = [u \in Users |-> IF u \in users[r] THEN None ELSE at[u]]
        /\ rooms' = [rooms EXCEPT ![idOf[r]] = None] /\ Answers(r, TRUE, TRUE)
        /\ stopped' = stopped \cup {r}
    BY DEF CloseRoom, StopsIf
  <1>3. /\ mailbox[r] # <<>> /\ op[Head(mailbox[r]).by].kind # "move-removes"
    BY <1>2, HeadIs DEF Letter, Asks
  <1>4. idOf[r] \in Ids /\ r # None /\ Made' = Made
    BY <1>2, TypesIs DEF Sound, Made
  <1>5. rooms' \in [Ids -> Nat] /\ (\A i \in Ids : rooms'[i] \in {rooms[i], None}) /\ ~Listed(r)'
        /\ at' \in [Users -> Nat]
    BY <1>2, <1>4 DEF Sound, Types, None, Listed
  <1>6. (\A s \in Made : Listed(s)' => Listed(s)) /\ \A v, s : Only(v, s) => Only(v, s)'
    BY <1>2, <1>5, ShrinksIs DEF Sound
  <1>7. Stops'
    BY <1>2, <1>4, <1>5, <1>6 DEF Sound, Stops
  <1>8. \A v \in Users : at'[v] = at[v] \/ (at'[v] = None /\ Only(v, None)')
    <2> SUFFICES ASSUME NEW v \in Users, v \in users[r] PROVE at'[v] = None /\ Only(v, None)'
      BY <1>2
    <2>1. at[v] = r
      BY <1>2, HeadIs DEF Letter
    <2>2. ~Pointing(v)
      BY <1>2, ClosingIs DEF Pointing
    <2>3. Only(v, r)
      BY <2>1, <2>2 DEF Sound, Where
    <2>4. Only(v, None)'
      BY <1>2, <1>4, <1>5, <1>6, <2>3 DEF Only, IsIn
    <2> QED BY <1>2, <2>4
  <1>9. users' \in Seq(SUBSET Users) /\ Len(users') = Len(users)
    BY <1>2 DEF Sound, Types
  <1>10. Head(mailbox[r]).what = "close"
    BY <1>2 DEF Runs
  <1> QED BY <1>1, <1>2, <1>3, <1>5, <1>7, <1>8, <1>9, <1>10, AnswersKeeps

LEMMA LeaveEndsKeeps == ASSUME Apart, Sound, NEW u \in Users, LeaveEnds(u) PROVE Sound'
  <1>1. u \in Parties /\ Ends(u) /\ op[u].stage = "answered" /\ UNCHANGED <<trouble, stopped, places, mailbox>>
    BY TypesIs DEF LeaveEnds, Stage, Sound
  <1> QED BY <1>1, EndsKeeps

LEMMA OrderEndsKeeps == ASSUME Apart, Sound, OrderEnds PROVE Sound'
  <1>1. Ends(Admin) /\ op[Admin].stage = "answered" /\ UNCHANGED <<trouble, stopped, places, mailbox>>
    BY DEF OrderEnds, Stage
  <1> QED BY <1>1, EndsKeeps, TypesIs DEF Sound

LEMMA StopStaleKeeps == ASSUME Apart, Sound, NEW r \in Made, StopStale(r) PROVE Sound'
  <1>1. ~Listed(r) /\ stopped' = stopped \cup {r} /\ UNCHANGED <<trouble, places, mailbox, op>>
    BY DEF StopStale
  <1>2. /\ Made' = Made /\ (\A s : Listed(s)' <=> Listed(s)) /\ \A u, s : Only(u, s)' <=> Only(u, s)
    BY <1>1, StaysIs DEF Sound
  <1>3. UNCHANGED <<rooms, idOf, users, at, mailbox, op>>
    BY <1>1 DEF places
  <1>4. Types' /\ Exclusive'
    BY <1>2, <1>3 DEF Sound, Types, Exclusive, Busy
  <1>5. Stops'
    BY <1>1, <1>2 DEF Sound, Stops
  <1>6. Posted'
    BY <1>2, <1>3 DEF Sound, Posted, Letter
  <1>7. Where'
    <2>1. ASSUME NEW p \in Parties PROVE Fits(p, op[p])' /\ Placed(op[p])'
      BY <1>2, <1>3 DEF Sound, Where, Fits, Placed, Out
    <2>2. ASSUME NEW u \in Users, ~Pointing(u)' PROVE Only(u, at[u])'
      BY <1>2, <1>3, <2>2 DEF Sound, Where, Pointing
    <2> QED BY <2>1, <2>2 DEF Where
  <1> QED BY <1>4, <1>5, <1>6, <1>7 DEF Sound

LEMMA OrdersKeeps ==
  ASSUME Apart, Sound, "overlap" \notin trouble, NEW what \in {"kick", "close"}, NEW u \in Parties, NEW i \in Ids,
         Orders(what, u, i), what = "kick" => u \in Users, what = "close" => u = Admin
  PROVE  Sound'
  <1> DEFINE ordering == [NoOp EXCEPT !.kind = what, !.stage = "adding", !.user = u, !.ids = {i}]
  <1>1. Reaches(i) /\ Admin \in Parties /\ UNCHANGED <<trouble, stopped, places>>
    BY TypesIs DEF Orders, Sound
  <1>2. /\ ordering \in Ops /\ ordering.kind = what /\ ordering.stage = "adding" /\ ordering.user = u
        /\ ordering.from = None
    BY <1>1 DEF NoOp, Ops, Kinds, Stages, None, Parties
  <1>3. /\ Does(Admin, ordering)
        /\ mailbox' = [mailbox EXCEPT ![rooms[i]] = Append(@, [by |-> Admin, what |-> what, user |-> u])]
    BY DEF Orders
  <1> HIDE DEF ordering
  <1>4. op[Admin] = NoOp /\ (u \in Users => \A q \in Parties : op[q].user # u)
    BY <1>1, FreeIs DEF Orders
  <1>5. PICK o \in Ops, r \in Made : o = ordering /\ r = rooms[i]
    BY <1>1, <1>2, ReachesIs DEF Sound
  <1>6. o.kind = what /\ o.stage = "adding" /\ o.user = u /\ o.from = None /\ Does(Admin, o)
    BY <1>2, <1>3, <1>5
  <1>7. Fits(Admin, o) /\ Placed(o)
    BY <1>6 DEF Fits, Placed, Out
  <1>8. Asks(o.kind) = what /\ what \in {"add", "remove", "kick", "close"}
    BY <1>6 DEF Asks
  <1>9. mailbox' = [mailbox EXCEPT ![r] = Append(@, [by |-> Admin, what |-> what, user |-> o.user])]
    BY <1>3, <1>5, <1>6
  <1>10. \A v \in users[r] : at[v] = r /\ Only(v, r)
    <2> TAKE v \in users[r]
    <2>1. v \in Users /\ Listed(r)
      BY <1>1, <1>5, ReachesIs, TypesIs DEF Sound
    <2>2. ~Pointing(v)
      BY <1>4, NoOpIs DEF Pointing
    <2>3. Only(v, at[v])
      BY <2>1, <2>2 DEF Sound, Where
    <2>4. IsIn(v, r)
      BY <2>1 DEF IsIn
    <2> QED BY <2>3, <2>4 DEF Only
  <1>11. op[Admin].stage \notin {"adding", "point"}
         /\ (o.user # Admin => \A q \in Parties \ {Admin} : Busy(q) => op[q].user # o.user)
         /\ (what \in {"remove", "kick"} => Only(o.user, r) \/ (what = "kick" /\ o.user \notin users[r]))
         /\ (what \in {"remove", "kick"} /\ o.user \in users[r] => at[o.user] = r)
         /\ (what = "close" => \A v \in users[r] : at[v] = r)
    BY <1>4, <1>6, <1>10, NoOpIs
  <1>12. Does(Admin, o) /\ o.stage = "adding" /\ what = Asks(o.kind) /\ what \in {"add", "remove", "kick", "close"}
         /\ Admin \in Parties
    BY <1>1, <1>6, <1>8
  <1> QED BY ONLY Apart, Sound, <1>1, <1>7, <1>9, <1>11, <1>12, SendKeeps

LEMMA KickFromServerKeeps ==
  ASSUME Apart, Sound, "overlap" \notin trouble, NEW u \in Users, KickFromServer(u)
  PROVE  Sound'
  <1>1. /\ at[u] \in Made /\ Leaves(at[u], u) /\ UNCHANGED <<trouble, stopped, idOf, members, mailbox, op>>
        /\ MayStart(Admin, u, {idOf[at[u]]}) /\ Admin \in Parties /\ u \in Parties
    BY TypesIs DEF KickFromServer, Sound, Types
  <1>2. PICK r \in Made : r = at[u]
    BY <1>1
  <1>3. op[Admin] = NoOp /\ Only(u, r)
    BY <1>1, <1>2, FreeIs
  <1>4. /\ rooms' \in [Ids -> Nat] /\ (\A i \in Ids : rooms'[i] \in {rooms[i], None})
        /\ users' \in Seq(SUBSET Users) /\ Len(users') = Len(users) /\ (\A s \in Made : users'[s] \subseteq users[s])
        /\ at' \in [Users -> Nat] /\ at'[u] = None /\ (\A v \in Users : v # u => at'[v] = at[v])
        /\ Only(u, None)' /\ \A s \in Made : Listed(s)' => Listed(s)
    BY <1>1, <1>2, <1>3, LeavesIs
  <1>5. Stops'
    BY <1>1, <1>4 DEF Sound, Stops, Made
  <1>6. (\A v \in Users : at'[v] = at[v] \/ (at'[v] = None /\ Only(v, None)')) /\ op[Admin].stage \notin {"adding", "point"}
    BY <1>3, <1>4, NoOpIs
  <1> QED BY <1>1, <1>4, <1>5, <1>6, GoesKeeps

LEMMA CreateEmptyKeeps ==
  ASSUME Apart, Sound, "overlap" \notin trouble, NEW i \in Ids, CreateEmpty(i)
  PROVE  Sound'
  <1> DEFINE making == [NoOp EXCEPT !.kind = "empty", !.ids = {i}]
  <1>1. PICK n : n = Len(idOf) + 1
    OBVIOUS
  <1>2. NewRoom(i, {}) /\ {} \in SUBSET Users /\ Does(Admin, making) /\ ~Busy(Admin) /\ UNCHANGED <<trouble, stopped, at>>
    BY DEF CreateEmpty, MayStart
  <1>3. /\ making \in Ops /\ making.kind = "empty" /\ making.stage = "" /\ making.user = Admin
        /\ making.from = None
    BY DEF NoOp, Ops, Kinds, Stages, None, Parties
  <1> HIDE DEF making
  <1>4. \E o \in Ops : Does(Admin, o) /\ ~Busy(Admin) /\ o.kind = "empty" /\ o.stage = "" /\ o.user = Admin /\ o.from = None
    BY <1>2, <1>3
  <1>5. at' \in [Users -> Nat]
    BY <1>2 DEF Sound, Types
  <1>6. \A v \in Users : IF v \in {} THEN at'[v] = n /\ at[v] = None /\ Only(v, None) /\ \A q \in Parties : op[q].user # v
                                     ELSE at'[v] = at[v]
    BY <1>2
  <1> QED BY ONLY Apart, Sound, i \in Ids, <1>1, <1>2, <1>4, <1>5, <1>6, NewRoomKeeps

LEMMA EmptyIsMadeKeeps == ASSUME Apart, Sound, EmptyIsMade PROVE Sound'
  <1>1. /\ op[Admin].kind = "empty" /\ Ends(Admin) /\ UNCHANGED <<trouble, stopped, idOf, members, users, at, mailbox>>
        /\ \/ UNCHANGED rooms
           \/ rooms' = [i \in Ids |-> IF i \in op[Admin].ids THEN None ELSE rooms[i]]
    BY DEF EmptyIsMade
  <1>2. op[Admin].stage = ""
    BY <1>1, TypesIs DEF Sound, Where, Fits
  <1>3. rooms' \in [Ids -> Nat] /\ \A i \in Ids : rooms'[i] \in {rooms[i], None}
    BY <1>1 DEF Sound, Types, None
  <1>4. users' \in Seq(SUBSET Users) /\ Len(users') = Len(users) /\ at' \in [Users -> Nat]
    BY <1>1 DEF Sound, Types
  <1>5. \A s \in Made : Listed(s)' => Listed(s)
    BY <1>1, <1>3, ShrinksIs DEF Sound
  <1>6. Stops'
    BY <1>1, <1>5 DEF Sound, Stops, Made
  <1> QED BY <1>1, <1>2, <1>3, <1>4, <1>6, GoesKeeps

(* What the steps of a move start from. *)
LEMMA MovingIs ==
  ASSUME Apart, Sound, op[Admin].kind \in {"move", "move-removes", "move-undoes"}
  PROVE  /\ op[Admin] \in Ops /\ Admin \in Parties /\ Busy(Admin) /\ op[Admin].user \in Users
         /\ Fits(Admin, op[Admin]) /\ Placed(op[Admin])
         /\ \A q \in Parties \ {Admin} : Busy(q) => op[q].user # op[Admin].user
         /\ op[Admin].from # None => op[Admin].from \in Made /\ idOf[op[Admin].from] \in Ids
         /\ op[Admin].kind # "move-undoes" => op[Admin].to \in Made /\ idOf[op[Admin].to] \in Ids
  <1>1. op[Admin] \in Ops /\ Admin \in Parties /\ Busy(Admin) /\ Fits(Admin, op[Admin]) /\ Placed(op[Admin])
    BY TypesIs DEF Sound, Where, Busy
  <1>2. op[Admin].user \in Users
    BY <1>1 DEF Fits
  <1>3. \A q \in Parties \ {Admin} : Busy(q) => op[q].user # op[Admin].user
    BY <1>1, <1>2 DEF Sound, Exclusive, Apart
  <1> QED BY <1>1, <1>2, <1>3, TypesIs DEF Fits, Sound

LEMMA MoveKeeps ==
  ASSUME Apart, Sound, "overlap" \notin trouble, NEW u \in Users, NEW i \in Ids, Move(u, i)
  PROVE  Sound'
  <1> DEFINE from == at[u]
             ids == {i} \cup (IF from = None THEN {} ELSE {idOf[from]})
             stage == IF from = None THEN "removed" ELSE IF idOf[from] = i THEN "added" ELSE "leaving"
             moving == [NoOp EXCEPT !.kind = "move", !.user = u, !.from = from, !.to = rooms[i], !.ids = ids,
                                    !.stage = stage]
  <1>1. /\ Reaches(i) /\ Does(Admin, moving) /\ UNCHANGED <<trouble, stopped, places, mailbox>>
        /\ MayStart(Admin, u, ids)
    BY DEF Move
  <1>2. rooms[i] \in Made /\ rooms[i] \in Nat /\ u \in Parties /\ Admin \in Parties
    BY <1>1, ReachesIs, TypesIs DEF Sound
  <1>3. from \in Nat /\ (from # None => from \in Made /\ idOf[from] \in Ids)
    BY TypesIs DEF Sound, Types
  <1>4. ids \in SUBSET Ids
    BY <1>3
  <1>5. stage \in Stages
    BY DEF Stages
  <1> HIDE DEF ids
  <1>6. /\ moving \in Ops /\ moving.kind = "move" /\ moving.stage = stage /\ moving.user = u
        /\ moving.to = rooms[i] /\ moving.from = from
    <2> HIDE DEF stage, from
    <2> QED BY <1>2, <1>3, <1>4, <1>5 DEF NoOp, Ops, Kinds, None
  <1> HIDE DEF moving
  <1>7. PICK o \in Ops : o = moving
    BY <1>6
  <1>8. op[Admin] = NoOp /\ (\A q \in Parties : op[q].user # u) /\ Only(u, from)
    BY <1>1, <1>2, FreeIs
  <1>9. Fits(Admin, o)
    BY <1>2, <1>3, <1>6, <1>7 DEF Fits
  <1>10. Placed(o)
    <2>1. from # None /\ idOf[from] = i => Only(u, rooms[i])
      BY <1>1, <1>3, <1>8, ReachesIs DEF Sound
    <2> QED BY <1>6, <1>7, <1>8, <2>1 DEF Placed, Out
  <1> QED BY <1>1, <1>2, <1>6, <1>7, <1>8, <1>9, <1>10, NoOpIs, DoesKeeps

LEMMA MoveRemovesKeeps == ASSUME Apart, Sound, MoveRemoves PROVE Sound'
  <1> DEFINE i == idOf[op[Admin].from]
             asking == [op[Admin] EXCEPT !.kind = "move-removes", !.stage = "adding"]
  <1>1. op[Admin].kind = "move" /\ op[Admin].stage = "leaving" /\ UNCHANGED <<trouble, stopped, places>>
    BY DEF MoveRemoves, Moving, Stage
  <1>2. /\ op[Admin] \in Ops /\ Admin \in Parties /\ op[Admin].user \in Users
        /\ Fits(Admin, op[Admin]) /\ Placed(op[Admin])
        /\ (\A q \in Parties \ {Admin} : Busy(q) => op[q].user # op[Admin].user)
        /\ op[Admin].from \in Made /\ i \in Ids /\ op[Admin].from # None
    BY <1>1, MovingIs DEF Fits
  <1>3. CASE Reaches(i)
    <2>1. /\ asking \in Ops /\ asking.kind = "move-removes" /\ asking.stage = "adding"
          /\ asking.user = op[Admin].user /\ asking.to = op[Admin].to /\ asking.from = op[Admin].from
      BY <1>2 DEF Ops, Stages, Kinds
    <2>2. /\ Does(Admin, asking)
          /\ mailbox' = [mailbox EXCEPT ![rooms[i]] = Append(@, [by |-> Admin, what |-> "remove", user |-> op[Admin].user])]
      BY <1>3 DEF MoveRemoves, Send
    <2>3. rooms[i] \in Made /\ Listed(rooms[i]) /\ Only(op[Admin].user, rooms[i])
      BY <1>1, <1>2, <1>3, ReachesIs DEF Sound, Placed
    <2> HIDE DEF asking
    <2>4. PICK o \in Ops, r \in Made : o = asking /\ r = rooms[i]
      BY <2>1, <2>3
    <2>5. Fits(Admin, o) /\ Placed(o) /\ o.user = op[Admin].user /\ o.user \in Users
      BY <1>1, <1>2, <2>1, <2>4 DEF Fits, Placed, Out
    <2>6. Only(o.user, r) /\ (o.user \in users[r] => at[o.user] = r)
      <3>1. Only(o.user, at[o.user])
        BY <1>1, <2>5 DEF Sound, Where, Pointing
      <3> QED BY <2>3, <2>4, <2>5, <3>1 DEF Only, IsIn
    <2>7. mailbox' = [mailbox EXCEPT ![r] = Append(@, [by |-> Admin, what |-> "remove", user |-> o.user])]
      BY <2>2, <2>4, <2>5
    <2>8. Asks(o.kind) = "remove" /\ o.stage = "adding" /\ Does(Admin, o) /\ op[Admin].stage \notin {"adding", "point"}
      BY <1>1, <2>1, <2>2, <2>4 DEF Asks
    <2>9. \A q \in Parties \ {Admin} : Busy(q) => op[q].user # o.user
      BY <1>2, <2>5
    <2>10. Fits(Admin, o) /\ Placed(o) /\ Admin \in Parties /\ UNCHANGED <<trouble, stopped, places>>
      BY <1>1, <1>2, <2>5
    <2> QED BY ONLY Apart, Sound, <2>4, <2>6, <2>7, <2>8, <2>9, <2>10, SendKeeps
  <1>4. CASE ~Reaches(i)
    <2>1. Ends(Admin) /\ UNCHANGED mailbox
      BY <1>4 DEF MoveRemoves
    <2> QED BY <1>1, <1>2, <2>1, EndsKeeps
  <1> QED BY <1>3, <1>4

LEMMA MoveRemovedKeeps == ASSUME Apart, Sound, MoveRemoved PROVE Sound'
  <1> DEFINE removed == [op[Admin] EXCEPT !.kind = "move", !.stage = "removed"]
  <1>1. /\ op[Admin].kind = "move-removes" /\ op[Admin].stage = "answered"
        /\ UNCHANGED <<trouble, stopped, places, mailbox>>
    BY DEF MoveRemoved, Stage
  <1>2. /\ op[Admin] \in Ops /\ Admin \in Parties /\ Fits(Admin, op[Admin]) /\ Placed(op[Admin])
        /\ (\A q \in Parties \ {Admin} : Busy(q) => op[q].user # op[Admin].user)
    BY <1>1, MovingIs
  <1>3. CASE op[Admin].ok
    <2>1. /\ removed \in Ops /\ removed.kind = "move" /\ removed.stage = "removed"
          /\ removed.user = op[Admin].user /\ removed.to = op[Admin].to /\ removed.from = op[Admin].from
      BY <1>2 DEF Ops, Stages, Kinds
    <2>2. Does(Admin, removed)
      BY <1>3 DEF MoveRemoved
    <2> HIDE DEF removed
    <2>3. PICK o \in Ops : o = removed
      BY <2>1
    <2>4. Fits(Admin, o) /\ Placed(o)
      BY <1>1, <1>2, <1>3, <2>1, <2>3 DEF Fits, Placed, Out
    <2> QED BY <1>1, <1>2, <2>1, <2>2, <2>3, <2>4, DoesKeeps
  <1>4. CASE ~op[Admin].ok
    BY <1>1, <1>2, <1>4, EndsKeeps DEF MoveRemoved
  <1> QED BY <1>3, <1>4

LEMMA MoveAddsKeeps == ASSUME Apart, Sound, MoveAdds PROVE Sound'
  <1> DEFINE i == idOf[op[Admin].to]
             adding == [op[Admin] EXCEPT !.stage = "adding"]
             undoing == [op[Admin] EXCEPT !.stage = "undo"]
  <1>1. op[Admin].kind = "move" /\ op[Admin].stage = "removed" /\ UNCHANGED <<trouble, stopped, places>>
    BY DEF MoveAdds, Moving, Stage
  <1>2. /\ op[Admin] \in Ops /\ Admin \in Parties /\ op[Admin].user \in Users
        /\ Fits(Admin, op[Admin]) /\ Placed(op[Admin]) /\ i \in Ids
        /\ (\A q \in Parties \ {Admin} : Busy(q) => op[q].user # op[Admin].user)
    BY <1>1, MovingIs
  <1>3. CASE Reaches(i)
    <2>1. /\ adding \in Ops /\ adding.kind = "move" /\ adding.stage = "adding"
          /\ adding.user = op[Admin].user /\ adding.to = op[Admin].to /\ adding.from = op[Admin].from
      BY <1>1, <1>2 DEF Ops, Stages
    <2>2. /\ Does(Admin, adding)
          /\ mailbox' = [mailbox EXCEPT ![rooms[i]] = Append(@, [by |-> Admin, what |-> "add", user |-> op[Admin].user])]
      BY <1>3 DEF MoveAdds, Send, Goes
    <2>3. rooms[i] \in Made
      BY <1>2, <1>3, ReachesIs DEF Sound
    <2> HIDE DEF adding
    <2>4. PICK o \in Ops, r \in Made : o = adding /\ r = rooms[i]
      BY <2>1, <2>3
    <2>5. Fits(Admin, o) /\ Placed(o) /\ o.user = op[Admin].user /\ o.user \in Users
      BY <1>1, <1>2, <2>1, <2>4 DEF Fits, Placed, Out
    <2>6. /\ mailbox' = [mailbox EXCEPT ![r] = Append(@, [by |-> Admin, what |-> "add", user |-> o.user])]
          /\ Does(Admin, o) /\ o.stage = "adding" /\ Asks(o.kind) = "add"
          /\ o.user # Admin => \A q \in Parties \ {Admin} : Busy(q) => op[q].user # o.user
      BY <1>2, <2>1, <2>2, <2>4, <2>5 DEF Asks
    <2>7. op[Admin].stage \notin {"adding", "point"}
      BY <1>1
    <2> QED BY <1>1, <1>2, <2>4, <2>5, <2>6, <2>7, SendKeeps
  <1>4. CASE ~Reaches(i)
    <2>1. /\ undoing \in Ops /\ undoing.kind = "move" /\ undoing.stage = "undo"
          /\ undoing.user = op[Admin].user /\ undoing.to = op[Admin].to /\ undoing.from = op[Admin].from
      BY <1>1, <1>2 DEF Ops, Stages
    <2>2. Does(Admin, undoing) /\ UNCHANGED mailbox
      BY <1>4 DEF MoveAdds, Goes
    <2> HIDE DEF undoing
    <2>3. PICK o \in Ops : o = undoing
      BY <2>1
    <2>4. Fits(Admin, o) /\ Placed(o)
      BY <1>1, <1>2, <2>1, <2>3 DEF Fits, Placed, Out
    <2> QED BY <1>1, <1>2, <2>1, <2>2, <2>3, <2>4, DoesKeeps
  <1> QED BY <1>3, <1>4

LEMMA MoveAddedKeeps == ASSUME Apart, Sound, MoveAdded PROVE Sound'
  <1>1. /\ op[Admin].kind = "move" /\ op[Admin].stage = "answered"
        /\ UNCHANGED <<trouble, stopped, places, mailbox>>
    BY DEF MoveAdded, Moving, Stage
  <1>2. /\ op[Admin] \in Ops /\ Admin \in Parties /\ Fits(Admin, op[Admin]) /\ Placed(op[Admin])
        /\ (\A q \in Parties \ {Admin} : Busy(q) => op[q].user # op[Admin].user)
    BY <1>1, MovingIs
  <1>3. \E s \in {"added", "undo"} : Does(Admin, [op[Admin] EXCEPT !.stage = s])
    BY DEF MoveAdded
  <1>4. PICK s \in {"added", "undo"} : Does(Admin, [op[Admin] EXCEPT !.stage = s])
    BY <1>3
  <1> DEFINE added == [op[Admin] EXCEPT !.stage = s]
  <1>5. /\ added \in Ops /\ added.kind = "move" /\ added.stage = s
        /\ added.user = op[Admin].user /\ added.to = op[Admin].to /\ added.from = op[Admin].from
    BY <1>1, <1>2 DEF Ops, Stages
  <1>6. Does(Admin, added)
    BY <1>4
  <1> HIDE DEF added
  <1>7. PICK o \in Ops : o = added
    BY <1>5
  <1>8. Only(o.user, None) /\ Only(o.user, o.to)
    BY <1>1, <1>2, <1>5, <1>7, NowhereIs DEF Placed, Out, Sound
  <1>9. Fits(Admin, o) /\ Placed(o)
    BY <1>1, <1>2, <1>5, <1>7, <1>8 DEF Fits, Placed, Out
  <1>10. Does(Admin, o) /\ o.stage # "point" /\ o.user = op[Admin].user
    BY <1>5, <1>6, <1>7
  <1> QED BY <1>1, <1>2, <1>9, <1>10, DoesKeeps

LEMMA MoveRegistersKeeps == ASSUME Apart, Sound, MoveRegisters PROVE Sound'
  <1> DEFINE pointing == [op[Admin] EXCEPT !.stage = "point"]
  <1>1. /\ op[Admin].kind = "move" /\ op[Admin].stage = "added" /\ Does(Admin, pointing)
        /\ users' = [users EXCEPT ![op[Admin].to] = @ \cup {op[Admin].user}]
        /\ UNCHANGED <<trouble, stopped, rooms, idOf, at, mailbox>>
    BY DEF MoveRegisters, Moving, Stage, Goes, Register
  <1>2. /\ op[Admin] \in Ops /\ Admin \in Parties /\ Fits(Admin, op[Admin]) /\ Placed(op[Admin])
        /\ op[Admin].user \in Users /\ Busy(Admin) /\ op[Admin].to \in Made
    BY <1>1, MovingIs
  <1>3. /\ pointing \in Ops /\ pointing.kind = "move" /\ pointing.stage = "point"
        /\ pointing.user = op[Admin].user /\ pointing.to = op[Admin].to /\ pointing.from = op[Admin].from
    BY <1>1, <1>2 DEF Ops, Stages
  <1> HIDE DEF pointing
  <1>4. PICK o \in Ops, w \in Users, r \in Made : o = pointing /\ w = op[Admin].user /\ r = op[Admin].to
    BY <1>2, <1>3
  <1>5. /\ users' = [users EXCEPT ![r] = users[r] \cup {w}] /\ Only(w, r)
    BY <1>1, <1>2, <1>4 DEF Placed
  <1>6. /\ users' \in Seq(SUBSET Users) /\ Len(users') = Len(users)
        /\ users'[r] = users[r] \cup {w} /\ \A s \in Made : s # r => users'[s] = users[s]
    BY <1>5, TypesIs DEF Sound, Types
  <1>7. Only(w, r)'
    BY <1>1, <1>5, <1>6 DEF Only, IsIn, Listed, Made
  <1>8. Fits(Admin, o) /\ o.user = w /\ o.to = r /\ o.stage = "point" /\ o.kind = "move" /\ Does(Admin, o)
    BY <1>1, <1>2, <1>3, <1>4 DEF Fits
  <1>9. Placed(o)'
    BY <1>7, <1>8 DEF Placed, Out
  <1>10. at' \in [Users -> Nat] /\ (at'[w] # None => at'[w] \in Made) /\ \A v \in Users : at'[v] = at[v]
    BY <1>1 DEF Sound, Types
  <1>11. \A s \in Made, v \in Users : v \in users'[s] => v \in users[s] \/ v = w
    BY <1>6
  <1> QED BY <1>1, <1>2, <1>4, <1>6, <1>8, <1>9, <1>10, <1>11, ComesKeeps

(* The pointer comes after. *)
LEMMA PointsKeeps ==
  ASSUME Apart, Sound, op[Admin].kind \in {"move", "move-undoes"}, op[Admin].stage # "adding", Ends(Admin),
         NEW w \in Users, w = op[Admin].user, NEW x \in Nat, x # None => x \in Made, Only(w, x),
         at' = [at EXCEPT ![w] = x], UNCHANGED <<trouble, stopped, rooms, idOf, users, mailbox>>
  PROVE  Sound'
  <1>1. Admin \in Parties /\ Busy(Admin)
    BY MovingIs
  <1>2. at' \in [Users -> Nat] /\ at'[w] = x /\ \A v \in Users : v # w => at'[v] = at[v]
    BY DEF Sound, Types
  <1>3. Only(w, at[w])'
    BY <1>2 DEF Only, IsIn, Listed, Made
  <1>4. Fits(Admin, NoOp) /\ Placed(NoOp)' /\ NoOp \in Ops /\ NoOp.kind = "none" /\ Does(Admin, NoOp)
    BY NoOpIs DEF Fits, Placed, Out, None, Ends
  <1>5. users' \in Seq(SUBSET Users) /\ Len(users') = Len(users) /\ \A s \in Made : users'[s] = users[s]
    BY DEF Sound, Types
  <1> QED BY <1>1, <1>2, <1>3, <1>4, <1>5, ComesKeeps

LEMMA MovePointsKeeps == ASSUME Apart, Sound, MovePoints PROVE Sound'
  <1>1. /\ op[Admin].kind = "move" /\ op[Admin].stage = "point" /\ Ends(Admin)
        /\ at' = [at EXCEPT ![op[Admin].user] = op[Admin].to]
        /\ UNCHANGED <<trouble, stopped, rooms, idOf, users, mailbox>>
    BY DEF MovePoints, Moving, Stage
  <1>2. op[Admin].user \in Users /\ op[Admin].to \in Made /\ Placed(op[Admin])
    BY <1>1, MovingIs
  <1>3. op[Admin].to \in Nat /\ Only(op[Admin].user, op[Admin].to)
    BY <1>1, <1>2, TypesIs DEF Placed, Sound
  <1> QED BY <1>1, <1>2, <1>3, PointsKeeps

LEMMA MoveUndoesKeeps == ASSUME Apart, Sound, MoveUndoes PROVE Sound'
  <1> DEFINE old == op[Admin].from
             asking == [op[Admin] EXCEPT !.kind = "move-undoes", !.stage = "adding"]
             undone == [op[Admin] EXCEPT !.kind = "move-undoes", !.stage = "answered"]
  <1>1. /\ op[Admin].kind = "move" /\ op[Admin].stage = "undo" /\ UNCHANGED <<trouble, stopped, places>>
    BY DEF MoveUndoes, Moving, Stage
  <1>2. /\ op[Admin] \in Ops /\ Admin \in Parties /\ Fits(Admin, op[Admin]) /\ Placed(op[Admin])
        /\ (\A q \in Parties \ {Admin} : Busy(q) => op[q].user # op[Admin].user)
        /\ op[Admin].user \in Users /\ (old # None => old \in Made /\ idOf[old] \in Ids)
    BY <1>1, MovingIs
  <1>3. CASE old # None /\ ~op[Admin].dropped /\ Reaches(idOf[old])
    <2>1. /\ asking \in Ops /\ asking.kind = "move-undoes" /\ asking.stage = "adding"
          /\ asking.user = op[Admin].user /\ asking.from = op[Admin].from
      BY <1>2 DEF Ops, Stages, Kinds
    <2>2. /\ Does(Admin, asking)
          /\ mailbox' = [mailbox EXCEPT ![rooms[idOf[old]]] =
                           Append(@, [by |-> Admin, what |-> "add", user |-> op[Admin].user])]
      BY <1>3 DEF MoveUndoes, Send
    <2>3. rooms[idOf[old]] \in Made
      BY <1>2, <1>3, ReachesIs DEF Sound
    <2> HIDE DEF asking
    <2>4. PICK o \in Ops, r \in Made : o = asking /\ r = rooms[idOf[old]]
      BY <2>1, <2>3
    <2>5. Fits(Admin, o) /\ Placed(o) /\ o.user = op[Admin].user /\ o.user \in Users
      BY <1>1, <1>2, <2>1, <2>4 DEF Fits, Placed, Out
    <2>6. /\ mailbox' = [mailbox EXCEPT ![r] = Append(@, [by |-> Admin, what |-> "add", user |-> o.user])]
          /\ Does(Admin, o) /\ o.stage = "adding" /\ Asks(o.kind) = "add"
          /\ o.user # Admin => \A q \in Parties \ {Admin} : Busy(q) => op[q].user # o.user
      BY <1>2, <2>1, <2>2, <2>4, <2>5 DEF Asks
    <2>7. op[Admin].stage \notin {"adding", "point"}
      BY <1>1
    <2> QED BY <1>1, <1>2, <2>4, <2>5, <2>6, <2>7, SendKeeps
  <1>4. CASE ~(old # None /\ ~op[Admin].dropped /\ Reaches(idOf[old]))
    <2>1. /\ undone \in Ops /\ undone.kind = "move-undoes" /\ undone.stage = "answered"
          /\ undone.user = op[Admin].user /\ undone.from = op[Admin].from
      BY <1>2 DEF Ops, Stages, Kinds
    <2>2. Does(Admin, undone) /\ UNCHANGED mailbox
      BY <1>4 DEF MoveUndoes
    <2> HIDE DEF undone
    <2>3. PICK o \in Ops : o = undone
      BY <2>1
    <2>4. Fits(Admin, o) /\ Placed(o)
      BY <1>1, <1>2, <2>1, <2>3 DEF Fits, Placed, Out
    <2> QED BY <1>1, <1>2, <2>1, <2>2, <2>3, <2>4, DoesKeeps
  <1> QED BY <1>3, <1>4

LEMMA MoveUndoneKeeps == ASSUME Apart, Sound, MoveUndone PROVE Sound'
  <1>1. /\ op[Admin].kind = "move-undoes" /\ op[Admin].stage = "answered" /\ Ends(Admin)
        /\ UNCHANGED <<trouble, stopped, rooms, idOf, users, mailbox>>
        /\ at' = IF op[Admin].from = None THEN at
                 ELSE [at EXCEPT ![op[Admin].user] = IF op[Admin].dropped THEN None ELSE op[Admin].from]
    BY DEF MoveUndone, Stage
  <1>2. /\ op[Admin].user \in Users /\ Placed(op[Admin]) /\ op[Admin] \in Ops
        /\ op[Admin].from # None => op[Admin].from \in Made
    BY <1>1, MovingIs
  <1>3. PICK w \in Users : w = op[Admin].user
    BY <1>2
  <1>4. \A s : Only(w, s)
    BY <1>1, <1>2, <1>3, NowhereIs DEF Placed, Out, Sound
  <1>5. at \in [Users -> Nat] /\ at[w] \in Nat /\ (at[w] # None => at[w] \in Made) /\ at = [at EXCEPT ![w] = at[w]]
    BY DEF Sound, Types
  <1>6. \E x \in Nat : at' = [at EXCEPT ![w] = x] /\ (x # None => x \in Made)
    <2>1. CASE op[Admin].from = None
      BY <1>1, <1>5, <2>1
    <2>2. CASE op[Admin].from # None /\ op[Admin].dropped
      BY <1>1, <1>3, <2>2 DEF None
    <2>3. CASE op[Admin].from # None /\ ~op[Admin].dropped
      <3>1. at' = [at EXCEPT ![w] = op[Admin].from] /\ op[Admin].from \in Nat
        BY <1>1, <1>2, <1>3, <2>3 DEF Ops
      <3> QED BY <1>2, <2>3, <3>1
    <2> QED BY <2>1, <2>2, <2>3
  <1> QED BY <1>1, <1>3, <1>4, <1>6, PointsKeeps

(* Nobody does anything at the start. *)
LEMMA InitSound == Init => Sound /\ Calmly
  <1> SUFFICES ASSUME Init PROVE Sound /\ Calmly
    OBVIOUS
  <1>1. Made = {} /\ idOf = <<>> /\ users = <<>> /\ mailbox = <<>> /\ stopped = {}
    BY NothingIs DEF Init, Made
  <1>2. op = [p \in Parties |-> NoOp] /\ at = [u \in Users |-> None] /\ rooms = [i \in Ids |-> None]
    BY DEF Init, Parties
  <1>3. Types
    <2>1. idOf \in Seq(Ids) /\ users \in Seq(SUBSET Users) /\ Len(users) = Len(idOf)
      BY <1>1
    <2>2. rooms \in [Ids -> Nat] /\ at \in [Users -> Nat]
      BY <1>2 DEF None
    <2> QED BY <1>1, <1>2, <2>1, <2>2, NoOpIs DEF Types
  <1>4. Posted
    <2>1. mailbox \in Seq(Seq(Posts)) /\ Len(mailbox) = Len(idOf)
      BY <1>1
    <2> QED BY <1>1, <2>1 DEF Posted
  <1>5. Stops /\ Exclusive
    BY <1>1, <1>2, NoOpIs DEF Stops, Exclusive, Busy
  <1>6. Where
    BY <1>1, <1>2, NoOpIs DEF Where, Fits, Placed, Out, Only, IsIn, None
  <1>7. Calmly
    BY <1>1, <1>2, NoOpIs DEF Calmly, Disjoint, Arriving, Present, Kept
  <1> QED BY <1>3, <1>4, <1>5, <1>6, <1>7 DEF Sound

-----------------------------------------------------------------------------
(* Every step keeps the sound layer. *)
LEMMA SoundStep == ASSUME Apart, Sound, "overlap" \notin trouble, Next PROVE Sound'
  <1>1. ASSUME NEW u \in Users, NEW i \in Ids,
               CreateRoom(u, i) \/ JoinLook(u, i) \/ Move(u, i) \/ Orders("kick", u, i)
        PROVE  Sound'
    <2>1. u \in Parties /\ u # Admin
      BY TypesIs DEF Sound, Apart
    <2>2. Orders("kick", u, i) => Sound'
      BY <2>1, OrdersKeeps
    <2> QED BY <1>1, <2>2, CreateRoomKeeps, JoinLookKeeps, MoveKeeps
  <1>2. ASSUME NEW u \in Users,
               JoinSend(u) \/ JoinEnds(u) \/ LeaveRoom(u) \/ LeaveEnds(u) \/ KickFromServer(u)
        PROVE  Sound'
    BY <1>2, JoinSendKeeps, JoinEndsKeeps, LeaveRoomKeeps, LeaveEndsKeeps, KickFromServerKeeps
  <1>3. ASSUME NEW i \in Ids, Orders("close", Admin, i) \/ CreateEmpty(i)
        PROVE  Sound'
    <2>1. Admin \in Parties
      BY TypesIs DEF Sound
    <2>2. Orders("close", Admin, i) => Sound'
      BY <2>1, OrdersKeeps
    <2> QED BY <1>3, <2>2, CreateEmptyKeeps
  <1>4. ASSUME NEW r \in Made,
               AddUser(r) \/ RemoveUser(r) \/ KickUser(r) \/ CloseRoom(r) \/ StopStale(r) \/ Lost(r)
        PROVE  Sound'
    BY <1>4, AddUserKeeps, RemoveUserKeeps, KickUserKeeps, CloseRoomKeeps, StopStaleKeeps,
       LostKeeps
  <1>5. OrderEnds \/ EmptyIsMade => Sound'
    BY OrderEndsKeeps, EmptyIsMadeKeeps
  <1>6. MoveRemoves \/ MoveRemoved \/ MoveAdds \/ MoveAdded => Sound'
    BY MoveRemovesKeeps, MoveRemovedKeeps, MoveAddsKeeps, MoveAddedKeeps
  <1>7. MoveRegisters \/ MovePoints \/ MoveUndoes \/ MoveUndone => Sound'
    BY MoveRegistersKeeps, MovePointsKeeps, MoveUndoesKeeps, MoveUndoneKeeps
  <1> QED BY <1>1, <1>2, <1>3, <1>4, <1>5, <1>6, <1>7 DEF Next

(* The environment is chosen once. *)
LEMMA TroubleStays == [Next]_vars => trouble' = trouble
  <1> SUFFICES ASSUME Next PROVE trouble' = trouble
    BY DEF vars
  <1> QED BY DEF Next, CreateRoom, JoinLook, Move, Orders, JoinSend, JoinEnds, LeaveRoom,
                 LeaveEnds, KickFromServer, CreateEmpty, AddUser, RemoveUser, KickUser,
                 CloseRoom, StopStale, Lost, OrderEnds, EmptyIsMade, MoveRemoves, MoveRemoved,
                 MoveAdds, MoveAdded, MoveRegisters, MovePoints, MoveUndoes, MoveUndone

LEMMA UnchangedIs == ASSUME Sound, UNCHANGED vars PROVE Sound' /\ (Calmly => Calmly')
  <1>1. UNCHANGED <<rooms, idOf, users, at, mailbox, stopped, op>> /\ Made' = Made
    BY DEF vars, Made
  <1>2. /\ (\A s : Listed(s)' <=> Listed(s)) /\ (\A u, s : Only(u, s)' <=> Only(u, s))
        /\ \A u, s : IsIn(u, s)' <=> IsIn(u, s)
    BY <1>1 DEF Listed, Only, IsIn
  <1>3. Types' /\ Exclusive' /\ Stops'
    BY <1>1, <1>2 DEF Sound, Types, Exclusive, Busy, Stops
  <1>4. Posted'
    BY <1>1, <1>2 DEF Sound, Posted, Letter
  <1>5. Where'
    <2>1. ASSUME NEW p \in Parties PROVE Fits(p, op[p])' /\ Placed(op[p])'
      BY <1>1, <1>2 DEF Sound, Where, Fits, Placed, Out
    <2>2. ASSUME NEW u \in Users, ~Pointing(u)' PROVE Only(u, at[u])'
      BY <1>1, <1>2, <2>2 DEF Sound, Where, Pointing
    <2> QED BY <2>1, <2>2 DEF Where
  <1>6. ASSUME Calmly PROVE Calmly'
    <2>1. Disjoint' /\ Arriving' /\ Present'
      BY <1>1, <1>2, <1>6 DEF Calmly, Disjoint, Arriving, Arrives, Present
    <2>2. \A p \in Parties : Kept(op[p])'
      BY <1>1, <1>2, <1>6 DEF Calmly, Kept
    <2> QED BY <2>1, <2>2 DEF Calmly
  <1> QED BY <1>3, <1>4, <1>5, <1>6 DEF Sound

-----------------------------------------------------------------------------
(***************************************************************************)
(* The calm layer: what no step of another disturbs, then action by action.*)
(***************************************************************************)
(* In the calm: what a step leaves alone stays kept. *)
LEMMA KeptStays ==
  ASSUME Types, NEW p \in Parties, Fits(p, op[p]), Kept(op[p]),
         \A s \in Made : idOf'[s] = idOf[s],
         \A i \in op[p].ids : rooms'[i] = rooms[i] /\ \A s \in Made : idOf[s] = i => users'[s] = users[s]
  PROVE  Kept(op[p])'  \/ op'[p] # op[p]
  <1> SUFFICES ASSUME NEW o \in Ops, o = op[p] PROVE Kept(o)'
    BY TypesIs DEF Kept
  <1>1. o.kind \in {"join", "move", "move-removes"} => Listed(o.to)' /\ idOf'[o.to] \in o.ids
    BY DEF Kept, Fits, Listed
  <1>2. o.kind = "move-removes" \/ o.stage = "leaving" => idOf'[o.from] # idOf'[o.to] /\ idOf'[o.from] \in o.ids
    <2>1. o.stage = "leaving" => o.kind = "move"
      BY NoOpIs DEF Fits, Ops, Kinds
    <2> QED BY <2>1 DEF Kept, Fits
  <1>3. o.stage = "point" => o.user \in users'[o.to]
    <2>1. o.stage = "point" => o.kind = "move"
      BY NoOpIs DEF Fits, Ops, Kinds
    <2> QED BY <2>1 DEF Kept, Fits
  <1>4. o.kind = "empty" => \A i \in o.ids : rooms'[i] # None => users'[rooms'[i]] = {}
    <2> SUFFICES ASSUME o.kind = "empty", NEW i \in o.ids, rooms'[i] # None
                 PROVE  users'[rooms'[i]] = {}
      OBVIOUS
    <2>1. i \in Ids /\ rooms'[i] = rooms[i] /\ users[rooms[i]] = {}
      BY DEF Kept, Ops
    <2>2. rooms[i] \in Made /\ idOf[rooms[i]] = i
      BY <2>1 DEF Types
    <2> QED BY <2>1, <2>2
  <1> QED BY <1>1, <1>2, <1>3, <1>4 DEF Kept

LEMMA CalmKeeps ==
  ASSUME Sound, Sound', Calmly, NEW p \in Parties, \A q \in Parties \ {p} : op'[q] = op[q],
         \A s \in Made : s \in Made' /\ idOf'[s] = idOf[s],
         \A q \in Parties \ {p} : op'[p].ids \cap op[q].ids = {},
         \A q \in Parties \ {p} : \A i \in op[q].ids :
           rooms'[i] = rooms[i] /\ \A s \in Made : idOf[s] = i => users'[s] = users[s],
         Kept(op[p])', Present',
         \A s \in Made' : \A k \in DOMAIN mailbox'[s] :
           \/ s \in Made /\ \E j \in DOMAIN mailbox[s] : mailbox'[s][k] = mailbox[s][j]
           \/ mailbox'[s][k].by = p,
         op'[p].stage = "adding" =>
           \A s \in Made' : \A k \in DOMAIN mailbox'[s] : mailbox'[s][k].by = p => Arrives(s, op[p])'
  PROVE  Calmly'
  <1>1. Disjoint'
    BY DEF Calmly, Disjoint
  <1>2. ASSUME NEW q \in Parties PROVE Kept(op[q])'
    <2>1. CASE q = p
      BY <2>1
    <2>2. CASE q # p
      <3>1. Types /\ Fits(q, op[q]) /\ Kept(op[q]) /\ op'[q] = op[q]
        BY <2>2 DEF Sound, Where, Calmly
      <3>2. \A i \in op[q].ids : rooms'[i] = rooms[i] /\ \A s \in Made : idOf[s] = i => users'[s] = users[s]
        BY <2>2
      <3> QED BY <3>1, <3>2, KeptStays
    <2> QED BY <2>1, <2>2
  <1>3. Arriving'
    <2> SUFFICES ASSUME NEW s \in Made', NEW k \in DOMAIN mailbox'[s]
                 PROVE  Arrives(s, op[mailbox[s][k].by])'
      BY DEF Arriving
    <2>1. PICK q : q = mailbox'[s][k].by
      OBVIOUS
    <2>2. op'[q].stage = "adding"
      BY <2>1 DEF Sound, Posted, Letter
    <2>3. CASE q = p
      BY <2>1, <2>2, <2>3
    <2>4. CASE q # p
      <3>1. PICK j \in DOMAIN mailbox[s] : mailbox'[s][k] = mailbox[s][j] /\ s \in Made
        BY <2>1, <2>4
      <3>2. q \in Parties /\ mailbox[s][j].by = q
        BY <2>1, <3>1, LetterIs
      <3>3. Arrives(s, op[q]) /\ op'[q] = op[q] /\ Fits(q, op[q])
        BY <2>4, <3>1, <3>2 DEF Calmly, Arriving, Sound, Where
      <3>4. op[q].kind = "move-removes" => op[q].from \in Made
        BY <3>3 DEF Fits
      <3> QED BY <2>1, <2>4, <3>1, <3>2, <3>3, <3>4 DEF Arrives, Listed
    <2> QED BY <2>3, <2>4
  <1> QED BY <1>1, <1>2, <1>3 DEF Calmly

(* Steps that leave everybody where he is. *)
LEMMA DoesCalm ==
  ASSUME Sound, Sound', Calmly, NEW p \in Parties, NEW o \in Ops, Does(p, o), UNCHANGED places,
         Kept(o),
         \A q \in Parties \ {p} : o.ids \cap op[q].ids = {}, mailbox' = mailbox, o.stage # "adding"
  PROVE  Calmly'
  <1>1. op'[p] = o /\ \A q \in Parties \ {p} : op'[q] = op[q]
    BY DEF Does, Sound, Types
  <1>2. UNCHANGED <<rooms, idOf, users, at>> /\ Made' = Made /\ \A s : Listed(s)' <=> Listed(s)
    BY DEF places, Made, Listed
  <1>3. Kept(op[p])'
    BY <1>1, <1>2 DEF Kept
  <1>4. Present'
    BY <1>2 DEF Calmly, Present, IsIn
  <1> QED BY <1>1, <1>2, <1>3, <1>4, CalmKeeps

LEMMA EndsCalm ==
  ASSUME Sound, Sound', Calmly, NEW p \in Parties, Ends(p), UNCHANGED <<places, mailbox>>
  PROVE  Calmly'
  <1>1. Kept(NoOp) /\ NoOp \in Ops /\ NoOp.ids = {} /\ NoOp.stage # "adding"
    BY NoOpIs DEF Kept
  <1> QED BY <1>1, DoesCalm DEF Ends

LEMMA SendCalm ==
  ASSUME Sound, Sound', Calmly, NEW p \in Parties, NEW o \in Ops, Does(p, o), UNCHANGED places,
         Kept(o),
         \A q \in Parties \ {p} : o.ids \cap op[q].ids = {}, op[p].stage # "adding",
         NEW r \in Made, NEW c, mailbox' = [mailbox EXCEPT ![r] = Append(@, c)], c.by = p, Arrives(r, o)
  PROVE  Calmly'
  <1>1. op'[p] = o /\ \A q \in Parties \ {p} : op'[q] = op[q]
    BY DEF Does, Sound, Types
  <1>2. UNCHANGED <<rooms, idOf, users, at>> /\ Made' = Made /\ \A s : Listed(s)' <=> Listed(s)
    BY DEF places, Made, Listed
  <1>3. Kept(op[p])'
    BY <1>1, <1>2 DEF Kept
  <1>4. Present'
    BY <1>2 DEF Calmly, Present, IsIn
  <1>5. \A s \in Made : \A k \in DOMAIN mailbox'[s] :
          \/ k \in DOMAIN mailbox[s] /\ mailbox'[s][k] = mailbox[s][k]
          \/ s = r /\ mailbox'[s][k] = c
    <2>1. mailbox[r] \in Seq(Posts) /\ DOMAIN mailbox = Made
      BY LetterIs, TypesIs DEF Sound, Posted
    <2> QED BY <2>1
  <1>6. \A s \in Made : \A k \in DOMAIN mailbox[s] : mailbox[s][k].by # p
    BY LetterIs DEF Letter
  <1>7. \A s \in Made' : \A k \in DOMAIN mailbox'[s] :
          /\ \/ s \in Made /\ \E j \in DOMAIN mailbox[s] : mailbox'[s][k] = mailbox[s][j]
             \/ mailbox'[s][k].by = p
          /\ mailbox'[s][k].by = p => s = r
    BY <1>2, <1>5, <1>6
  <1>8. Arrives(r, op[p])'
    BY <1>1, <1>2 DEF Arrives
  <1>9. \A s \in Made' : \A k \in DOMAIN mailbox'[s] : mailbox'[s][k].by = p => Arrives(s, op[p])'
    BY <1>7, <1>8 DEF Arrives, Listed
  <1>10. /\ \A s \in Made : s \in Made' /\ idOf'[s] = idOf[s]
         /\ \A q \in Parties \ {p} : op'[p].ids \cap op[q].ids = {}
         /\ \A q \in Parties \ {p} : \A i \in op[q].ids :
              rooms'[i] = rooms[i] /\ \A s \in Made : idOf[s] = i => users'[s] = users[s]
    BY <1>1, <1>2
  <1> QED BY ONLY Sound, Sound', Calmly, p \in Parties, <1>1, <1>3, <1>4, <1>7, <1>9, <1>10,
             CalmKeeps

(* Who starts something has its ids to himself. *)
LEMMA AloneIs ==
  ASSUME Sound, trouble = {}, NEW p \in Parties, NEW u, NEW ids, MayStart(p, u, ids)
  PROVE  \A q \in Parties : ids \cap op[q].ids = {}
  <1> SUFFICES ASSUME NEW q \in Parties PROVE ids \cap op[q].ids = {}
    OBVIOUS
  <1>1. CASE Busy(q)
    BY <1>1, TypesIs DEF MayStart, Sound
  <1>2. CASE ~Busy(q)
    BY <1>2, NoOpIs DEF Busy, Sound, Where, Fits
  <1> QED BY <1>1, <1>2

LEMMA JoinLookCalm ==
  ASSUME Apart, Sound, Sound', Calmly, trouble = {}, NEW u \in Users, NEW i \in Ids, JoinLook(u,
         i)
  PROVE  Calmly'
  <1> DEFINE joining == [NoOp EXCEPT !.kind = "join", !.stage = "looked", !.user = u, !.to = rooms[i], !.ids = {i}]
  <1>1. /\ rooms[i] \in Made /\ rooms[i] \in Nat /\ {i} \in SUBSET Ids /\ u \in Parties
        /\ idOf[rooms[i]] = i /\ Listed(rooms[i])
    BY ReachesIs, TypesIs DEF Reaches, JoinLook, Sound
  <1>2. /\ joining \in Ops /\ joining.kind = "join" /\ joining.stage = "looked" /\ joining.user = u
        /\ joining.to = rooms[i] /\ joining.from = None /\ joining.ids = {i}
    BY <1>1, TypesIs DEF NoOp, Ops, Kinds, Stages, None, Parties
  <1>3. Does(u, joining) /\ UNCHANGED places /\ mailbox' = mailbox
    BY DEF JoinLook
  <1> HIDE DEF joining
  <1>4. PICK o \in Ops : o = joining
    BY <1>2
  <1>5. \A q \in Parties : o.ids \cap op[q].ids = {}
    BY <1>1, <1>2, <1>4, AloneIs DEF JoinLook
  <1>6. Kept(o)
    BY <1>1, <1>2, <1>4 DEF Kept
  <1> QED BY <1>1, <1>2, <1>3, <1>4, <1>5, <1>6, DoesCalm

LEMMA JoinSendCalm ==
  ASSUME Apart, Sound, Sound', Calmly, NEW u \in Users, JoinSend(u)
  PROVE  Calmly'
  <1> DEFINE i == idOf[op[u].to]
             adding == [op[u] EXCEPT !.stage = "adding"]
  <1>1. /\ op[u] \in Ops /\ u \in Parties /\ op[u].kind = "join" /\ op[u].stage = "looked"
        /\ i \in op[u].ids /\ i \in Ids /\ Kept(op[u])
        /\ \A q \in Parties \ {u} : op[u].ids \cap op[q].ids = {}
    <2>1. op[u] \in Ops /\ u \in Parties /\ Fits(u, op[u]) /\ Kept(op[u])
      BY TypesIs DEF Sound, Where, Calmly
    <2> QED BY <2>1, TypesIs DEF JoinSend, Stage, Kept, Fits, Calmly, Disjoint, Sound
  <1>2. UNCHANGED places
    BY DEF JoinSend
  <1>3. CASE Reaches(i)
    <2>1. /\ adding \in Ops /\ adding.kind = "join" /\ adding.stage = "adding" /\ adding.user = op[u].user
          /\ adding.to = op[u].to /\ adding.from = op[u].from /\ adding.ids = op[u].ids
      BY <1>1 DEF Ops, Stages
    <2>2. /\ Does(u, adding)
          /\ mailbox' = [mailbox EXCEPT ![rooms[i]] = Append(@, [by |-> u, what |-> "add", user |-> op[u].user])]
      BY <1>3 DEF JoinSend, Goes, Send
    <2>3. rooms[i] \in Made /\ Listed(rooms[i]) /\ idOf[rooms[i]] = i
      BY <1>1, <1>3, ReachesIs DEF Sound
    <2> HIDE DEF adding
    <2>4. PICK o \in Ops, r \in Made : o = adding /\ r = rooms[i]
      BY <2>1, <2>3
    <2>5. PICK c : c = [by |-> u, what |-> "add", user |-> op[u].user]
      OBVIOUS
    <2>6. mailbox' = [mailbox EXCEPT ![r] = Append(@, c)] /\ c.by = u
      BY <2>2, <2>4, <2>5
    <2>7. Kept(o) /\ Arrives(r, o) /\ Does(u, o) /\ op[u].stage # "adding"
          /\ \A q \in Parties \ {u} : o.ids \cap op[q].ids = {}
      BY <1>1, <2>1, <2>2, <2>3, <2>4 DEF Kept, Arrives
    <2> QED BY <1>1, <1>2, <2>4, <2>6, <2>7, SendCalm
  <1>4. CASE ~Reaches(i)
    <2>1. Ends(u) /\ mailbox' = mailbox
      BY <1>4 DEF JoinSend
    <2> QED BY <1>1, <1>2, <2>1, EndsCalm
  <1> QED BY <1>3, <1>4

LEMMA LeaveRoomCalm ==
  ASSUME Apart, Sound, Sound', Calmly, trouble = {}, NEW u \in Users, LeaveRoom(u)
  PROVE  Calmly'
  <1> DEFINE i == idOf[at[u]]
             leaving == [NoOp EXCEPT !.kind = "leave", !.stage = "adding", !.user = u, !.ids = {i}]
  <1>1. at[u] \in Made /\ i \in Ids /\ u \in Parties /\ Reaches(i)
    BY TypesIs DEF LeaveRoom, Sound, Types
  <1>2. /\ leaving \in Ops /\ leaving.kind = "leave" /\ leaving.stage = "adding" /\ leaving.user = u
        /\ leaving.ids = {i}
    BY <1>1, TypesIs DEF NoOp, Ops, Kinds, Stages, None, Parties
  <1>3. /\ Does(u, leaving) /\ UNCHANGED places
        /\ mailbox' = [mailbox EXCEPT ![rooms[i]] = Append(@, [by |-> u, what |-> "remove", user |-> u])]
    BY DEF LeaveRoom
  <1>4. op[u] = NoOp
    <2>1. ~Busy(u)
      BY DEF LeaveRoom, MayStart
    <2> QED BY <1>1, <2>1 DEF Busy, Sound, Where, Fits
  <1>5. \A q \in Parties : {i} \cap op[q].ids = {}
    BY <1>1, AloneIs DEF LeaveRoom
  <1>6. rooms[i] \in Made /\ Listed(rooms[i]) /\ idOf[rooms[i]] = i
    BY <1>1, ReachesIs DEF Sound
  <1> HIDE DEF leaving
  <1>7. PICK o \in Ops, r \in Made : o = leaving /\ r = rooms[i]
    BY <1>2, <1>6
  <1>8. PICK c : c = [by |-> u, what |-> "remove", user |-> u]
    OBVIOUS
  <1>9. mailbox' = [mailbox EXCEPT ![r] = Append(@, c)] /\ c.by = u
    BY <1>3, <1>7, <1>8
  <1>10. Kept(o) /\ Arrives(r, o) /\ Does(u, o) /\ op[u].stage # "adding"
         /\ \A q \in Parties \ {u} : o.ids \cap op[q].ids = {}
    BY <1>2, <1>3, <1>4, <1>5, <1>6, <1>7, NoOpIs DEF Kept, Arrives
  <1> QED BY <1>1, <1>3, <1>7, <1>9, <1>10, SendCalm

LEMMA OrdersCalm ==
  ASSUME Apart, Sound, Sound', Calmly, trouble = {}, NEW what \in {"kick", "close"}, NEW u \in Parties,
         NEW i \in Ids, Orders(what, u, i)
  PROVE  Calmly'
  <1> DEFINE ordering == [NoOp EXCEPT !.kind = what, !.stage = "adding", !.user = u, !.ids = {i}]
  <1>1. Reaches(i) /\ Admin \in Parties /\ UNCHANGED places
    BY TypesIs DEF Orders, Sound
  <1>2. /\ ordering \in Ops /\ ordering.kind = what /\ ordering.stage = "adding" /\ ordering.user = u
        /\ ordering.ids = {i}
    BY <1>1 DEF NoOp, Ops, Kinds, Stages, None, Parties
  <1>3. /\ Does(Admin, ordering)
        /\ mailbox' = [mailbox EXCEPT ![rooms[i]] = Append(@, [by |-> Admin, what |-> what, user |-> u])]
    BY DEF Orders
  <1>4. op[Admin] = NoOp
    <2>1. ~Busy(Admin)
      BY DEF Orders, MayStart
    <2> QED BY <1>1, <2>1 DEF Busy, Sound, Where, Fits
  <1>5. \A q \in Parties : {i} \cap op[q].ids = {}
    BY <1>1, AloneIs DEF Orders
  <1>6. rooms[i] \in Made /\ Listed(rooms[i]) /\ idOf[rooms[i]] = i
    BY <1>1, ReachesIs DEF Sound
  <1> HIDE DEF ordering
  <1>7. PICK o \in Ops, r \in Made : o = ordering /\ r = rooms[i]
    BY <1>2, <1>6
  <1>8. PICK c : c = [by |-> Admin, what |-> what, user |-> u]
    OBVIOUS
  <1>9. mailbox' = [mailbox EXCEPT ![r] = Append(@, c)] /\ c.by = Admin
    BY <1>3, <1>7, <1>8
  <1>10. Kept(o) /\ Arrives(r, o) /\ Does(Admin, o) /\ op[Admin].stage # "adding"
         /\ \A q \in Parties \ {Admin} : o.ids \cap op[q].ids = {}
    BY <1>2, <1>3, <1>4, <1>5, <1>6, <1>7, NoOpIs DEF Kept, Arrives
  <1> QED BY <1>1, <1>3, <1>7, <1>9, <1>10, SendCalm

LEMMA MoveCalm ==
  ASSUME Apart, Sound, Sound', Calmly, trouble = {}, NEW u \in Users, NEW i \in Ids, Move(u, i)
  PROVE  Calmly'
  <1> DEFINE from == at[u]
             ids == {i} \cup (IF from = None THEN {} ELSE {idOf[from]})
             stage == IF from = None THEN "removed" ELSE IF idOf[from] = i THEN "added" ELSE "leaving"
             moving == [NoOp EXCEPT !.kind = "move", !.user = u, !.from = from, !.to = rooms[i], !.ids = ids,
                                    !.stage = stage]
  <1>1. /\ Reaches(i) /\ Does(Admin, moving) /\ UNCHANGED places /\ mailbox' = mailbox
        /\ MayStart(Admin, u, ids)
    BY DEF Move
  <1>2. /\ rooms[i] \in Made /\ rooms[i] \in Nat /\ u \in Parties /\ Admin \in Parties
        /\ Listed(rooms[i]) /\ idOf[rooms[i]] = i
    BY <1>1, ReachesIs, TypesIs DEF Sound
  <1>3. from \in Nat /\ (from # None => from \in Made /\ idOf[from] \in Ids)
    BY TypesIs DEF Sound, Types
  <1>4. ids \in SUBSET Ids /\ i \in ids /\ (from # None => idOf[from] \in ids)
    BY <1>3
  <1>5. /\ stage \in Stages /\ stage \in {"removed", "added", "leaving"}
        /\ stage = "leaving" => from # None /\ idOf[from] # i
    BY DEF Stages
  <1> HIDE DEF ids
  <1>6. /\ moving \in Ops /\ moving.kind = "move" /\ moving.stage = stage /\ moving.user = u
        /\ moving.to = rooms[i] /\ moving.from = from /\ moving.ids = ids
    <2> HIDE DEF stage, from
    <2> QED BY <1>2, <1>3, <1>4, <1>5 DEF NoOp, Ops, Kinds, None
  <1> HIDE DEF moving, stage
  <1>7. PICK o \in Ops : o = moving
    BY <1>6
  <1>8. \A q \in Parties : ids \cap op[q].ids = {}
    BY <1>1, <1>2, AloneIs
  <1>9. Kept(o)
    BY <1>2, <1>4, <1>5, <1>6, <1>7 DEF Kept
  <1>10. Does(Admin, o) /\ o.stage # "adding" /\ \A q \in Parties \ {Admin} : o.ids \cap op[q].ids = {}
    BY <1>1, <1>5, <1>6, <1>7, <1>8
  <1> QED BY <1>1, <1>2, <1>7, <1>9, <1>10, DoesCalm

LEMMA MovingCalm ==
  ASSUME Apart, Sound, Calmly, op[Admin].kind \in {"move", "move-removes", "move-undoes"}
  PROVE  /\ Kept(op[Admin]) /\ op[Admin].kind \in {"move", "move-removes"}
         /\ Listed(op[Admin].to) /\ idOf[op[Admin].to] \in op[Admin].ids /\ Reaches(idOf[op[Admin].to])
         /\ rooms[idOf[op[Admin].to]] = op[Admin].to
         /\ \A q \in Parties \ {Admin} : op[Admin].ids \cap op[q].ids = {}
  <1>1. Kept(op[Admin]) /\ Admin \in Parties
    BY MovingIs DEF Calmly
  <1>2. op[Admin].kind \in {"move", "move-removes"} /\ op[Admin].to \in Made
    BY <1>1, MovingIs DEF Kept
  <1>3. Listed(op[Admin].to) /\ idOf[op[Admin].to] \in op[Admin].ids
    BY <1>1, <1>2 DEF Kept
  <1> QED BY <1>1, <1>2, <1>3, TypesIs DEF Listed, Reaches, Calmly, Disjoint, Sound

LEMMA MoveRemovesCalm == ASSUME Apart, Sound, Sound', Calmly, MoveRemoves PROVE Calmly'
  <1> DEFINE i == idOf[op[Admin].from]
             asking == [op[Admin] EXCEPT !.kind = "move-removes", !.stage = "adding"]
  <1>1. op[Admin].kind = "move" /\ op[Admin].stage = "leaving" /\ UNCHANGED places
    BY DEF MoveRemoves, Moving, Stage
  <1>2. /\ op[Admin] \in Ops /\ Admin \in Parties /\ i \in Ids /\ op[Admin].from # None
        /\ Fits(Admin, op[Admin])
    BY <1>1, MovingIs DEF Fits
  <1>3. /\ Kept(op[Admin]) /\ \A q \in Parties \ {Admin} : op[Admin].ids \cap op[q].ids = {}
    BY <1>1, MovingCalm
  <1>4. CASE Reaches(i)
    <2>1. /\ asking \in Ops /\ asking.kind = "move-removes" /\ asking.stage = "adding"
          /\ asking.user = op[Admin].user /\ asking.to = op[Admin].to /\ asking.from = op[Admin].from
          /\ asking.ids = op[Admin].ids
      BY <1>2 DEF Ops, Stages, Kinds
    <2>2. /\ Does(Admin, asking)
          /\ mailbox' = [mailbox EXCEPT ![rooms[i]] = Append(@, [by |-> Admin, what |-> "remove", user |-> op[Admin].user])]
      BY <1>4 DEF MoveRemoves, Send
    <2>3. rooms[i] \in Made /\ Listed(rooms[i]) /\ idOf[rooms[i]] = i
      BY <1>2, <1>4, ReachesIs DEF Sound
    <2> HIDE DEF asking
    <2>4. PICK o \in Ops, r \in Made : o = asking /\ r = rooms[i]
      BY <2>1, <2>3
    <2>5. PICK c : c = [by |-> Admin, what |-> "remove", user |-> op[Admin].user]
      OBVIOUS
    <2>6. mailbox' = [mailbox EXCEPT ![r] = Append(@, c)] /\ c.by = Admin
      BY <2>2, <2>4, <2>5
    <2>7. Kept(o) /\ Arrives(r, o) /\ Does(Admin, o) /\ op[Admin].stage # "adding"
          /\ \A q \in Parties \ {Admin} : o.ids \cap op[q].ids = {}
      BY <1>1, <1>3, <2>1, <2>2, <2>3, <2>4 DEF Kept, Arrives
    <2> QED BY <1>1, <1>2, <2>4, <2>6, <2>7, SendCalm
  <1>5. CASE ~Reaches(i)
    <2>1. Ends(Admin) /\ UNCHANGED mailbox
      BY <1>5 DEF MoveRemoves
    <2> QED BY <1>1, <1>2, <2>1, EndsCalm
  <1> QED BY <1>4, <1>5

LEMMA MoveRemovedCalm == ASSUME Apart, Sound, Sound', Calmly, MoveRemoved PROVE Calmly'
  <1> DEFINE removed == [op[Admin] EXCEPT !.kind = "move", !.stage = "removed"]
  <1>1. op[Admin].kind = "move-removes" /\ UNCHANGED places /\ mailbox' = mailbox
    BY DEF MoveRemoved, Stage
  <1>2. /\ op[Admin] \in Ops /\ Admin \in Parties /\ Kept(op[Admin])
        /\ \A q \in Parties \ {Admin} : op[Admin].ids \cap op[q].ids = {}
    BY <1>1, MovingIs, MovingCalm
  <1>3. CASE op[Admin].ok
    <2>1. /\ removed \in Ops /\ removed.kind = "move" /\ removed.stage = "removed"
          /\ removed.to = op[Admin].to /\ removed.ids = op[Admin].ids
      BY <1>2 DEF Ops, Stages, Kinds
    <2>2. Does(Admin, removed)
      BY <1>3 DEF MoveRemoved
    <2> HIDE DEF removed
    <2>3. PICK o \in Ops : o = removed
      BY <2>1
    <2>4. Kept(o)
      BY <1>1, <1>2, <2>1, <2>3 DEF Kept
    <2> QED BY <1>1, <1>2, <2>1, <2>2, <2>3, <2>4, DoesCalm
  <1>4. CASE ~op[Admin].ok
    <2>1. Ends(Admin)
      BY <1>4 DEF MoveRemoved
    <2> QED BY <1>1, <1>2, <2>1, EndsCalm
  <1> QED BY <1>3, <1>4

LEMMA MoveAddsCalm == ASSUME Apart, Sound, Sound', Calmly, MoveAdds PROVE Calmly'
  <1> DEFINE i == idOf[op[Admin].to]
             adding == [op[Admin] EXCEPT !.stage = "adding"]
  <1>1. op[Admin].kind = "move" /\ op[Admin].stage = "removed" /\ UNCHANGED places
    BY DEF MoveAdds, Moving, Stage
  <1>2. /\ op[Admin] \in Ops /\ Admin \in Parties /\ i \in Ids /\ Kept(op[Admin])
        /\ (\A q \in Parties \ {Admin} : op[Admin].ids \cap op[q].ids = {})
        /\ Reaches(i) /\ i \in op[Admin].ids
    BY <1>1, MovingIs, MovingCalm
  <1>3. /\ adding \in Ops /\ adding.kind = "move" /\ adding.stage = "adding"
        /\ adding.to = op[Admin].to /\ adding.ids = op[Admin].ids
    BY <1>1, <1>2 DEF Ops, Stages
  <1>4. /\ Does(Admin, adding)
        /\ mailbox' = [mailbox EXCEPT ![rooms[i]] = Append(@, [by |-> Admin, what |-> "add", user |-> op[Admin].user])]
    BY <1>2 DEF MoveAdds, Send, Goes
  <1>5. rooms[i] \in Made /\ Listed(rooms[i]) /\ idOf[rooms[i]] = i
    BY <1>2, ReachesIs DEF Sound
  <1> HIDE DEF adding
  <1>6. PICK o \in Ops, r \in Made : o = adding /\ r = rooms[i]
    BY <1>3, <1>5
  <1>7. PICK c : c = [by |-> Admin, what |-> "add", user |-> op[Admin].user]
    OBVIOUS
  <1>8. mailbox' = [mailbox EXCEPT ![r] = Append(@, c)] /\ c.by = Admin
    BY <1>4, <1>6, <1>7
  <1>9. Kept(o) /\ Arrives(r, o) /\ Does(Admin, o) /\ op[Admin].stage # "adding"
        /\ \A q \in Parties \ {Admin} : o.ids \cap op[q].ids = {}
    BY <1>1, <1>2, <1>3, <1>4, <1>5, <1>6 DEF Kept, Arrives
  <1> QED BY <1>1, <1>2, <1>6, <1>8, <1>9, SendCalm

LEMMA MoveAddedCalm == ASSUME Apart, Sound, Sound', Calmly, MoveAdded PROVE Calmly'
  <1> DEFINE added == [op[Admin] EXCEPT !.stage = "added"]
  <1>1. op[Admin].kind = "move" /\ op[Admin].stage = "answered" /\ UNCHANGED places /\ mailbox' = mailbox
    BY DEF MoveAdded, Moving, Stage
  <1>2. /\ op[Admin] \in Ops /\ Admin \in Parties /\ Kept(op[Admin])
        /\ \A q \in Parties \ {Admin} : op[Admin].ids \cap op[q].ids = {}
    BY <1>1, MovingIs, MovingCalm
  <1>3. op[Admin].ok
    BY <1>1, <1>2 DEF Kept
  <1>4. Does(Admin, added)
    BY <1>3 DEF MoveAdded
  <1>5. /\ added \in Ops /\ added.kind = "move" /\ added.stage = "added"
        /\ added.to = op[Admin].to /\ added.ids = op[Admin].ids
    BY <1>1, <1>2 DEF Ops, Stages
  <1> HIDE DEF added
  <1>6. PICK o \in Ops : o = added
    BY <1>5
  <1>7. Kept(o)
    BY <1>1, <1>2, <1>5, <1>6 DEF Kept
  <1> QED BY <1>1, <1>2, <1>4, <1>5, <1>6, <1>7, DoesCalm

(* Somebody comes into the room that an operation is about. *)
LEMMA ComesCalm ==
  ASSUME Sound, Sound', Calmly, NEW p \in Parties, NEW o \in Ops, Does(p, o), o.stage # "adding",
         \A q \in Parties \ {p} : o.ids \cap op[q].ids = {}, Kept(o)', NEW w \in Users,
         NEW r \in Made, Listed(r), idOf[r] \in op[p].ids,
         UNCHANGED <<rooms, idOf, mailbox>>,
         \A s \in Made : s # r => users'[s] = users[s],
         users'[r] = users[r] \cup {w},
         \A v \in Users : at'[v] = at[v] \/ (v = w /\ at'[v] = r)
  PROVE  Calmly'
  <1>1. op'[p] = o /\ \A q \in Parties \ {p} : op'[q] = op[q]
    BY DEF Does, Sound, Types
  <1>2. Made' = Made /\ \A s : Listed(s)' <=> Listed(s)
    BY DEF Made, Listed
  <1>3. Present'
    <2> SUFFICES ASSUME NEW v \in Users, at'[v] # None PROVE IsIn(v, at[v])'
      BY DEF Present
    <2>1. CASE at'[v] = at[v]
      <3>1. IsIn(v, at[v])
        BY <2>1 DEF Calmly, Present
      <3>2. users[at[v]] \subseteq users'[at[v]]
        BY <3>1 DEF IsIn
      <3> QED BY <1>2, <2>1, <3>1, <3>2 DEF IsIn
    <2>2. CASE v = w /\ at'[v] = r
      BY <1>2, <2>2 DEF IsIn
    <2> QED BY <2>1, <2>2
  <1>4. \A q \in Parties \ {p} : \A i \in op[q].ids :
          rooms'[i] = rooms[i] /\ \A s \in Made : idOf[s] = i => users'[s] = users[s]
    <2> SUFFICES ASSUME NEW q \in Parties \ {p}, NEW i \in op[q].ids, NEW s \in Made,
                        idOf[s] = i
                 PROVE  s # r
      OBVIOUS
    <2>1. op[p].ids \cap op[q].ids = {}
      BY DEF Calmly, Disjoint
    <2> QED BY <2>1
  <1>5. Kept(op[p])'
    BY <1>1 DEF Kept
  <1> QED BY <1>1, <1>2, <1>3, <1>4, <1>5, CalmKeeps

LEMMA JoinEndsCalm ==
  ASSUME Apart, Sound, Sound', Calmly, NEW u \in Users, JoinEnds(u)
  PROVE  Calmly'
  <1>1. op[u].kind = "join" /\ Ends(u) /\ UNCHANGED <<rooms, idOf, members, mailbox>> /\ u \in Parties
    BY TypesIs DEF JoinEnds, Sound
  <1>2. op[u].to \in Made /\ Listed(op[u].to) /\ idOf[op[u].to] \in op[u].ids
    BY <1>1 DEF Sound, Where, Fits, Calmly, Kept
  <1>3. CASE op[u].ok
    <2>1. PICK r \in Made : r = op[u].to
      BY <1>2
    <2>2. users' = [users EXCEPT ![r] = users[r] \cup {u}] /\ at' = [at EXCEPT ![u] = r]
      BY <1>3, <2>1 DEF JoinEnds, Register
    <2>3. users'[r] = users[r] \cup {u} /\ \A s \in Made : s # r => users'[s] = users[s]
      BY <2>2, TypesIs DEF Sound, Types
    <2>4. \A v \in Users : at'[v] = at[v] \/ (v = u /\ at'[v] = r)
      BY <2>2 DEF Sound, Types
    <2>5. NoOp \in Ops /\ NoOp.ids = {} /\ NoOp.stage # "adding" /\ Kept(NoOp)' /\ Does(u, NoOp)
      BY <1>1, NoOpIs DEF Kept, Ends
    <2> QED BY <1>1, <1>2, <2>1, <2>3, <2>4, <2>5, ComesCalm
  <1>4. CASE ~op[u].ok
    <2>1. UNCHANGED <<places, mailbox>>
      BY <1>1, <1>4 DEF JoinEnds, places
    <2> QED BY <1>1, <2>1, EndsCalm
  <1> QED BY <1>3, <1>4

LEMMA MoveRegistersCalm == ASSUME Apart, Sound, Sound', Calmly, MoveRegisters PROVE Calmly'
  <1> DEFINE pointing == [op[Admin] EXCEPT !.stage = "point"]
  <1>1. /\ op[Admin].kind = "move" /\ op[Admin].stage = "added" /\ Does(Admin, pointing)
        /\ users' = [users EXCEPT ![op[Admin].to] = @ \cup {op[Admin].user}]
        /\ UNCHANGED <<rooms, idOf, at, mailbox>>
    BY DEF MoveRegisters, Moving, Stage, Goes, Register
  <1>2. /\ op[Admin] \in Ops /\ Admin \in Parties /\ op[Admin].user \in Users /\ op[Admin].to \in Made
        /\ Listed(op[Admin].to) /\ idOf[op[Admin].to] \in op[Admin].ids
        /\ \A q \in Parties \ {Admin} : op[Admin].ids \cap op[q].ids = {}
    BY <1>1, MovingIs, MovingCalm
  <1>3. /\ pointing \in Ops /\ pointing.kind = "move" /\ pointing.stage = "point"
        /\ pointing.user = op[Admin].user /\ pointing.to = op[Admin].to /\ pointing.ids = op[Admin].ids
    BY <1>1, <1>2 DEF Ops, Stages
  <1> HIDE DEF pointing
  <1>4. PICK o \in Ops, w \in Users, r \in Made : o = pointing /\ w = op[Admin].user /\ r = op[Admin].to
    BY <1>2, <1>3
  <1>5. users'[r] = users[r] \cup {w} /\ \A s \in Made : s # r => users'[s] = users[s]
    <2>1. users' = [users EXCEPT ![r] = users[r] \cup {w}]
      BY <1>1, <1>4
    <2> QED BY <2>1, TypesIs DEF Sound, Types
  <1>6. Kept(o)'
    <2>1. o.kind = "move" /\ o.stage = "point" /\ o.to = r /\ o.user = w /\ idOf[r] \in o.ids /\ Listed(r)'
      BY <1>1, <1>2, <1>3, <1>4 DEF Listed
    <2> QED BY <1>1, <1>5, <2>1 DEF Kept
  <1>7. Does(Admin, o) /\ o.stage # "adding" /\ \A q \in Parties \ {Admin} : o.ids \cap op[q].ids = {}
    BY <1>1, <1>2, <1>3, <1>4
  <1> QED BY <1>1, <1>2, <1>4, <1>5, <1>6, <1>7, ComesCalm

LEMMA MovePointsCalm == ASSUME Apart, Sound, Sound', Calmly, MovePoints PROVE Calmly'
  <1>1. /\ op[Admin].kind = "move" /\ op[Admin].stage = "point" /\ Ends(Admin)
        /\ at' = [at EXCEPT ![op[Admin].user] = op[Admin].to]
        /\ UNCHANGED <<rooms, idOf, users, mailbox>>
    BY DEF MovePoints, Moving, Stage
  <1>2. /\ Admin \in Parties /\ op[Admin].user \in Users /\ op[Admin].to \in Made
        /\ Listed(op[Admin].to) /\ idOf[op[Admin].to] \in op[Admin].ids /\ Kept(op[Admin])
    BY <1>1, MovingIs, MovingCalm
  <1>3. PICK w \in Users, r \in Made : w = op[Admin].user /\ r = op[Admin].to
    BY <1>2
  <1>4. users[r] = users[r] \cup {w}
    BY <1>1, <1>2, <1>3 DEF Kept
  <1>5. \A v \in Users : at'[v] = at[v] \/ (v = w /\ at'[v] = r)
    BY <1>1, <1>3 DEF Sound, Types
  <1>6. NoOp \in Ops /\ NoOp.ids = {} /\ NoOp.stage # "adding" /\ Kept(NoOp)' /\ Does(Admin, NoOp)
    BY <1>1, NoOpIs DEF Kept, Ends
  <1> QED BY <1>1, <1>2, <1>3, <1>4, <1>5, <1>6, ComesCalm

LEMMA UndoNever == ASSUME Apart, Sound, Calmly PROVE ~MoveUndoes /\ ~MoveUndone
  <1>1. op[Admin].kind # "move-undoes" /\ op[Admin].stage # "undo"
    BY TypesIs DEF Sound, Calmly, Kept
  <1> QED BY <1>1 DEF MoveUndoes, MoveUndone, Moving, Stage

(* A new room disturbs nothing. *)
LEMMA NewRoomCalm ==
  ASSUME Apart, Sound, Sound', Calmly, trouble = {}, NEW i \in Ids, NEW inside \in SUBSET Users,
         NewRoom(i, inside), NEW p \in Parties, \A q \in Parties \ {p} : op'[q] = op[q],
         \A q \in Parties : i \notin op[q].ids, op[p] = NoOp, op'[p].stage # "adding", op'[p].ids \subseteq {i},
         Kept(op[p])',
         \A v \in Users : at'[v] = at[v] \/ (v \in inside /\ at'[v] = Len(idOf) + 1)
  PROVE  Calmly'
  <1>1. PICK n : n = Len(idOf) + 1
    OBVIOUS
  <1>2. /\ Made' = Made \cup {n} /\ n \notin Made /\ n # None
        /\ idOf'[n] = i /\ users'[n] = inside /\ mailbox'[n] = <<>>
        /\ \A s \in Made : idOf'[s] = idOf[s] /\ users'[s] = users[s] /\ mailbox'[s] = mailbox[s]
        /\ rooms'[i] = n /\ (\A j \in Ids : j # i => rooms'[j] = rooms[j])
        /\ \A s \in Made : Listed(s)' <=> Listed(s)
    <2>1. Types /\ Stops /\ Posted
      BY DEF Sound
    <2> QED BY ONLY <1>1, <2>1, NewRoomIs, i \in Ids, inside \in SUBSET Users, NewRoom(i,
               inside)
  <1>3. Present'
    <2> SUFFICES ASSUME NEW v \in Users, at'[v] # None PROVE IsIn(v, at[v])'
      BY DEF Present
    <2>1. CASE at'[v] = at[v]
      BY <1>2, <2>1 DEF Calmly, Present, IsIn
    <2>2. CASE v \in inside /\ at'[v] = n
      BY <1>2, <2>2 DEF IsIn, Listed
    <2> QED BY <1>1, <2>1, <2>2
  <1>4. \A s \in Made' : \A k \in DOMAIN mailbox'[s] : s \in Made /\ \E j \in DOMAIN mailbox[s] : mailbox'[s][k] = mailbox[s][j]
    <2> TAKE s \in Made'
    <2> TAKE k \in DOMAIN mailbox'[s]
    <2>1. s # n
      <3>1. mailbox'[n] = <<>>
        BY <1>2
      <3> QED BY ONLY <3>1, NothingIs, k \in DOMAIN mailbox'[s]
    <2> QED BY <1>2, <2>1
  <1>5. \A q \in Parties \ {p} : op'[p].ids \cap op[q].ids = {}
    OBVIOUS
  <1>6. \A q \in Parties \ {p} : \A j \in op[q].ids :
          rooms'[j] = rooms[j] /\ \A s \in Made : idOf[s] = j => users'[s] = users[s]
    <2> SUFFICES ASSUME NEW q \in Parties \ {p}, NEW j \in op[q].ids PROVE j \in Ids /\ j # i
      BY <1>2
    <2> QED BY TypesIs DEF Sound, Ops
  <1>7. /\ \A s \in Made : s \in Made' /\ idOf'[s] = idOf[s]
        /\ \A q \in Parties \ {p} : op'[q] = op[q]
        /\ op'[p].stage # "adding" /\ Kept(op[p])'
    BY <1>2
  <1> QED BY ONLY Sound, Sound', Calmly, p \in Parties, <1>3, <1>4, <1>5, <1>6, <1>7, CalmKeeps

LEMMA CreateRoomCalm ==
  ASSUME Apart, Sound, Sound', Calmly, trouble = {}, NEW u \in Users, NEW i \in Ids,
         CreateRoom(u, i)
  PROVE  Calmly'
  <1>1. /\ NewRoom(i, {u}) /\ op' = op /\ at' = [at EXCEPT ![u] = Len(idOf) + 1] /\ u \in Parties
        /\ MayStart(u, u, {i})
    BY TypesIs DEF CreateRoom, Sound
  <1>2. op[u] = NoOp
    BY <1>1 DEF MayStart, Busy, Sound, Where, Fits
  <1>3. \A q \in Parties : i \notin op[q].ids
    BY <1>1, AloneIs
  <1>4. Kept(op[u])' /\ op'[u].stage # "adding" /\ op'[u].ids \subseteq {i}
    BY <1>1, <1>2, NoOpIs DEF Kept
  <1>5. \A v \in Users : at'[v] = at[v] \/ (v \in {u} /\ at'[v] = Len(idOf) + 1)
    BY <1>1 DEF Sound, Types
  <1>6. {u} \in SUBSET Users
    OBVIOUS
  <1> QED BY <1>1, <1>2, <1>3, <1>4, <1>5, <1>6, NewRoomCalm

LEMMA CreateEmptyCalm ==
  ASSUME Apart, Sound, Sound', Calmly, trouble = {}, NEW i \in Ids, CreateEmpty(i)
  PROVE  Calmly'
  <1> DEFINE making == [NoOp EXCEPT !.kind = "empty", !.ids = {i}]
  <1>1. /\ NewRoom(i, {}) /\ Does(Admin, making) /\ at' = at /\ Admin \in Parties
        /\ MayStart(Admin, Admin, {i})
    BY TypesIs DEF CreateEmpty, Sound
  <1>2. op[Admin] = NoOp
    BY <1>1 DEF MayStart, Busy, Sound, Where, Fits
  <1>3. \A q \in Parties : i \notin op[q].ids
    BY <1>1, AloneIs
  <1>4. /\ making \in Ops /\ making.kind = "empty" /\ making.stage = "" /\ making.ids = {i}
    BY DEF NoOp, Ops, Kinds, Stages, None, Parties
  <1> HIDE DEF making
  <1>5. op'[Admin] = making /\ \A q \in Parties \ {Admin} : op'[q] = op[q]
    BY <1>1 DEF Does, Sound, Types
  <1>6. rooms'[i] = Len(idOf) + 1 /\ users'[Len(idOf) + 1] = {}
    <2>1. Types /\ Stops /\ Posted /\ {} \in SUBSET Users
      BY DEF Sound
    <2>2. PICK n : n = Len(idOf) + 1
      OBVIOUS
    <2>3. rooms'[i] = n /\ users'[n] = {}
      BY ONLY <1>1, <2>1, <2>2, NewRoomIs, i \in Ids
    <2> QED BY <2>2, <2>3
  <1>7. Kept(op[Admin])' /\ op'[Admin].stage # "adding" /\ op'[Admin].ids \subseteq {i}
    BY <1>4, <1>5, <1>6 DEF Kept
  <1>8. {} \in SUBSET Users /\ \A v \in Users : at'[v] = at[v]
    BY <1>1
  <1> QED BY <1>1, <1>2, <1>3, <1>5, <1>7, <1>8, NewRoomCalm

(* A command is answered, in a room of its sender's id. *)
LEMMA TailIs ==
  ASSUME Sound, NEW r \in Made, mailbox[r] # <<>>, mailbox' = [mailbox EXCEPT ![r] = Tail(@)]
  PROVE  \A s \in Made : \A k \in DOMAIN mailbox'[s] : \E j \in DOMAIN mailbox[s] : mailbox'[s][k] = mailbox[s][j]
  <1>1. mailbox \in Seq(Seq(Posts)) /\ r \in DOMAIN mailbox /\ mailbox[r] \in Seq(Posts)
    BY LetterIs, TypesIs DEF Sound, Posted
  <1>2. mailbox'[r] = Tail(mailbox[r]) /\ \A s \in Made : s # r => mailbox'[s] = mailbox[s]
    BY <1>1, TypesIs DEF Sound, Posted
  <1>3. \A k \in DOMAIN Tail(mailbox[r]) : k + 1 \in DOMAIN mailbox[r] /\ Tail(mailbox[r])[k] = mailbox[r][k + 1]
    BY <1>1
  <1> QED BY <1>2, <1>3

LEMMA AnswersCalm ==
  ASSUME Apart, Sound, Sound', Calmly, NEW r \in Made, mailbox[r] # <<>>,
         NEW ok \in BOOLEAN, NEW dropped \in BOOLEAN, Answers(r, ok, dropped),
         NEW p \in Parties, p = Head(mailbox[r]).by, op[p].kind = "move" => ok,
         idOf' = idOf, \A j \in Ids : j # idOf[r] => rooms'[j] = rooms[j],
         \A s \in Made : s # r => users'[s] = users[s], Present',
         op[p].kind \in {"join", "move"} => rooms' = rooms
  PROVE  Calmly'
  <1>1. Arrives(r, op[p]) /\ Fits(p, op[p]) /\ Kept(op[p]) /\ op[p].stage = "adding"
    <2>1. 1 \in DOMAIN mailbox[r] /\ Head(mailbox[r]) = mailbox[r][1]
      BY LetterIs
    <2> QED BY <2>1, LetterIs DEF Calmly, Arriving, Letter, Sound, Where
  <1> DEFINE answered == [op[p] EXCEPT !.stage = "answered", !.ok = ok, !.dropped = @ \/ dropped]
  <1>2. /\ answered \in Ops /\ answered.stage = "answered" /\ answered.kind = op[p].kind
        /\ answered.user = op[p].user /\ answered.from = op[p].from
        /\ answered.to = op[p].to /\ answered.ids = op[p].ids /\ answered.ok = ok
    <2>1. op[p] \in Ops
      BY TypesIs DEF Sound
    <2> QED BY <2>1 DEF answered, Ops, Stages
  <1>3. op' = [op EXCEPT ![p] = answered]
    BY DEF Answers, Does
  <1> HIDE DEF answered
  <1>4. op'[p] = answered /\ \A q \in Parties \ {p} : op'[q] = op[q]
    BY <1>3 DEF Sound, Types
  <1>5. Made' = Made
    BY DEF Made
  <1>6. \A q \in Parties \ {p} : op[p].ids \cap op[q].ids = {}
    BY DEF Calmly, Disjoint
  <1>7. \A q \in Parties \ {p} : \A i \in op[q].ids :
          rooms'[i] = rooms[i] /\ \A s \in Made : idOf[s] = i => users'[s] = users[s]
    <2> TAKE q \in Parties \ {p}
    <2> TAKE i \in op[q].ids
    <2>1. i # idOf[r] /\ i \in Ids
      BY <1>1, <1>6, TypesIs DEF Arrives, Sound, Ops
    <2> QED BY <2>1
  <1>8. Kept(op[p])'
    <2>1. op[p].kind \in {"join", "move", "move-removes"} => Listed(op[p].to)'
      <3>1. CASE op[p].kind \in {"join", "move"}
        BY <1>1, <1>2, <1>4, <3>1 DEF Kept, Listed
      <3>2. CASE op[p].kind = "move-removes"
        <4>1. idOf[op[p].to] # idOf[r] /\ op[p].to \in Made /\ Listed(op[p].to)
          BY <1>1, <3>2 DEF Kept, Arrives, Fits
        <4>2. PICK t \in Made : t = op[p].to
          BY <4>1
        <4>3. idOf[t] \in Ids /\ idOf[t] # idOf[r] /\ t # None /\ rooms[idOf[t]] = t
          BY <4>1, <4>2, TypesIs DEF Listed, Sound
        <4>4. rooms'[idOf'[t]] = t
          BY <4>3
        <4>5. op'[p].to = t
          BY <1>2, <1>4, <4>2
        <4> QED BY <4>3, <4>4, <4>5 DEF Listed
      <3> QED BY <3>1, <3>2
    <2>2. op[p].kind # "empty"
      BY <1>1 DEF Fits
    <2>3. /\ op'[p].stage = "answered" /\ op'[p].kind = op[p].kind
          /\ op'[p].user = op[p].user /\ op'[p].from = op[p].from
          /\ op'[p].to = op[p].to /\ op'[p].ids = op[p].ids /\ op'[p].ok = ok
      BY <1>2, <1>4
    <2> QED BY <1>1, <2>1, <2>2, <2>3 DEF Kept
  <1>9. \A s \in Made' : \A k \in DOMAIN mailbox'[s] : s \in Made /\ \E j \in DOMAIN mailbox[s] : mailbox'[s][k] = mailbox[s][j]
    BY <1>5, TailIs DEF Answers
  <1>10. /\ op'[p].stage # "adding" /\ \A q \in Parties \ {p} : op'[p].ids \cap op[q].ids = {}
         /\ \A s \in Made : s \in Made' /\ idOf'[s] = idOf[s]
    BY <1>2, <1>4, <1>5, <1>6
  <1> QED BY <1>4, <1>7, <1>8, <1>9, <1>10, CalmKeeps

LEMMA AddUserCalm ==
  ASSUME Apart, Sound, Sound', Calmly, trouble = {}, NEW r \in Made, AddUser(r)
  PROVE  Calmly'
  <1>1. /\ Runs(r, "add") /\ Answers(r, TRUE, FALSE) /\ UNCHANGED <<rooms, idOf, users, at>>
        /\ mailbox[r] # <<>>
    BY DEF AddUser, Runs
  <1>2. PICK p \in Parties : p = Head(mailbox[r]).by
    BY <1>1, HeadIs
  <1>3. Present'
    BY <1>1 DEF Calmly, Present, IsIn, Listed, Made
  <1> QED BY <1>1, <1>2, <1>3, AnswersCalm

LEMMA LostNever == ASSUME Sound, Calmly, NEW r \in Made PROVE ~Lost(r)
  <1> SUFFICES ASSUME Lost(r) PROVE FALSE
    OBVIOUS
  <1>1. r \in stopped /\ mailbox[r] # <<>>
    BY DEF Lost
  <1>2. 1 \in DOMAIN mailbox[r]
    BY <1>1, LetterIs
  <1>3. Listed(r)
    BY <1>2 DEF Calmly, Arriving, Arrives
  <1> QED BY <1>1, <1>3 DEF Sound, Stops

(* Who is in no room that a step takes away stays where he is. *)
LEMMA LeavesCalm ==
  ASSUME Sound, Calmly, NEW r \in Made, Listed(r), NEW x \in Users, Leaves(r, x), idOf' = idOf,
         at[x] \in {r, None}
  PROVE  /\ Present' /\ \A j \in Ids : j # idOf[r] => rooms'[j] = rooms[j]
         /\ \A s \in Made : s # r => users'[s] = users[s]
  <1>1. /\ users' = [users EXCEPT ![r] = users[r] \ {x}] /\ at' = [at EXCEPT ![x] = None]
        /\ rooms' = IF users[r] \subseteq {x} THEN [rooms EXCEPT ![idOf[r]] = None] ELSE rooms
    BY DEF Leaves
  <1>2. users'[r] = users[r] \ {x} /\ \A s \in Made : s # r => users'[s] = users[s]
    BY <1>1, TypesIs DEF Sound
  <1>3. \A j \in Ids : j # idOf[r] => rooms'[j] = rooms[j]
    BY <1>1 DEF Sound, Types
  <1>4. Made' = Made
    BY DEF Made
  <1>5. Present'
    <2> SUFFICES ASSUME NEW v \in Users, at'[v] # None PROVE IsIn(v, at[v])'
      BY DEF Present
    <2>1. v # x /\ at'[v] = at[v]
      BY <1>1 DEF Sound, Types
    <2>2. PICK s \in Made : s = at[v] /\ Listed(s) /\ v \in users[s]
      BY <2>1 DEF Calmly, Present, IsIn
    <2>3. idOf[s] \in Ids /\ s # None
      BY TypesIs DEF Sound
    <2>4. CASE s = r
      BY <1>1, <1>2, <1>4, <2>1, <2>2, <2>4 DEF IsIn, Listed
    <2>5. CASE s # r
      <3>1. idOf[s] # idOf[r]
        BY <2>2, <2>5 DEF Listed
      <3>2. rooms'[idOf'[s]] = s /\ v \in users'[s]
        BY <1>2, <1>3, <2>2, <2>3, <2>5, <3>1 DEF Listed
      <3> QED BY <1>4, <2>1, <2>2, <2>3, <3>2 DEF IsIn, Listed
    <2> QED BY <2>4, <2>5
  <1> QED BY <1>2, <1>3, <1>5

LEMMA RemoveUserCalm ==
  ASSUME Apart, Sound, Sound', Calmly, NEW r \in Made, RemoveUser(r)
  PROVE  Calmly'
  <1>1. PICK x, p \in Parties : x = Head(mailbox[r]).user /\ p = Head(mailbox[r]).by
    BY HeadIs DEF RemoveUser, Posts
  <1>2. Runs(r, "remove") /\ idOf' = idOf /\ mailbox[r] # <<>>
    BY DEF RemoveUser, Runs
  <1>3. x \in Users /\ (x \in users[r] => at[x] \in {r, None}) /\ op[p].kind \in {"leave", "move-removes"} /\ Listed(r)
    <2>1. op[p].kind \in {"leave", "move-removes"}
      BY <1>1, <1>2, HeadIs DEF Letter, Asks, Kinds
    <2>2. x \in Users /\ (x \in users[r] => at[x] \in {r, None})
      BY <1>1, <1>2, <2>1, HeadIs DEF Letter, Fits
    <2>3. 1 \in DOMAIN mailbox[r]
      BY <1>2, LetterIs
    <2> QED BY <2>1, <2>2, <2>3 DEF Calmly, Arriving, Arrives
  <1>4. CASE x \in users[r] /\ Leaves(r, x) /\ Answers(r, TRUE, users[r] \subseteq {x})
    <2>1. PICK dropped \in BOOLEAN : dropped = (users[r] \subseteq {x})
      OBVIOUS
    <2>2. Answers(r, TRUE, dropped)
      BY <1>4, <2>1
    <2>3. /\ Present' /\ (\A j \in Ids : j # idOf[r] => rooms'[j] = rooms[j])
          /\ \A s \in Made : s # r => users'[s] = users[s]
      BY <1>2, <1>3, <1>4, LeavesCalm
    <2> QED BY <1>1, <1>2, <1>3, <2>2, <2>3, AnswersCalm
  <1>5. CASE x \notin users[r] /\ Answers(r, x \in members[r], FALSE) /\ UNCHANGED <<users, at, rooms>>
    <2>1. PICK ok \in BOOLEAN : ok = (x \in members[r])
      BY InIs
    <2>2. Answers(r, ok, FALSE)
      BY <1>5, <2>1
    <2>3. Present'
      BY <1>2, <1>5 DEF Calmly, Present, IsIn, Listed, Made
    <2> QED BY <1>1, <1>2, <1>3, <1>5, <2>2, <2>3, AnswersCalm
  <1> QED BY <1>1, <1>4, <1>5 DEF RemoveUser

LEMMA KickUserCalm ==
  ASSUME Apart, Sound, Sound', Calmly, NEW r \in Made, KickUser(r)
  PROVE  Calmly'
  <1>1. PICK x, p \in Parties : x = Head(mailbox[r]).user /\ p = Head(mailbox[r]).by
    BY HeadIs DEF KickUser, Posts
  <1>2. Runs(r, "kick") /\ idOf' = idOf /\ mailbox[r] # <<>>
    BY DEF KickUser, Runs
  <1>3. x \in Users /\ (x \in users[r] => at[x] \in {r, None}) /\ op[p].kind = "kick" /\ Listed(r)
    <2>1. op[p].kind = "kick"
      BY <1>1, <1>2, HeadIs DEF Letter, Asks, Kinds
    <2>2. x \in Users /\ (x \in users[r] => at[x] \in {r, None})
      BY <1>1, <1>2, <2>1, HeadIs DEF Letter, Fits
    <2>3. 1 \in DOMAIN mailbox[r]
      BY <1>2, LetterIs
    <2> QED BY <2>1, <2>2, <2>3 DEF Calmly, Arriving, Arrives
  <1>4. CASE x \in users[r] /\ Leaves(r, x) /\ Answers(r, TRUE, FALSE)
    <2>1. /\ Present' /\ (\A j \in Ids : j # idOf[r] => rooms'[j] = rooms[j])
          /\ \A s \in Made : s # r => users'[s] = users[s]
      BY <1>2, <1>3, <1>4, LeavesCalm
    <2> QED BY <1>1, <1>2, <1>3, <1>4, <2>1, AnswersCalm
  <1>5. CASE Answers(r, FALSE, FALSE) /\ UNCHANGED <<users, at, rooms>>
    <2>1. Present'
      BY <1>2, <1>5 DEF Calmly, Present, IsIn, Listed, Made
    <2> QED BY <1>1, <1>2, <1>3, <1>5, <2>1, AnswersCalm
  <1> QED BY <1>1, <1>4, <1>5 DEF KickUser

LEMMA CloseRoomCalm ==
  ASSUME Apart, Sound, Sound', Calmly, NEW r \in Made, CloseRoom(r)
  PROVE  Calmly'
  <1>1. PICK p \in Parties : p = Head(mailbox[r]).by
    BY HeadIs DEF CloseRoom
  <1>2. /\ Runs(r, "close") /\ mailbox[r] # <<>> /\ UNCHANGED <<idOf, users>>
        /\ at' = [u \in Users |-> IF u \in users[r] THEN None ELSE at[u]]
        /\ rooms' = [rooms EXCEPT ![idOf[r]] = None] /\ Answers(r, TRUE, TRUE)
    BY DEF CloseRoom, Runs
  <1>3. op[p].kind = "close"
    BY <1>1, <1>2, HeadIs DEF Letter, Asks, Kinds
  <1>4. Listed(r)
    <2>1. 1 \in DOMAIN mailbox[r]
      BY <1>2, LetterIs
    <2> QED BY <2>1 DEF Calmly, Arriving, Arrives
  <1>5. \A j \in Ids : j # idOf[r] => rooms'[j] = rooms[j]
    BY <1>2 DEF Sound, Types
  <1>6. Present'
    <2> SUFFICES ASSUME NEW v \in Users, at'[v] # None PROVE IsIn(v, at[v])'
      BY DEF Present
    <2>1. v \notin users[r] /\ at'[v] = at[v]
      BY <1>2
    <2>2. PICK s \in Made : s = at[v] /\ Listed(s) /\ v \in users[s]
      BY <2>1 DEF Calmly, Present, IsIn
    <2>3. idOf[s] \in Ids /\ s # None /\ s # r
      BY <2>1, <2>2, TypesIs DEF Sound
    <2>4. idOf[s] # idOf[r]
      BY <1>4, <2>2, <2>3 DEF Listed
    <2>5. rooms'[idOf'[s]] = s /\ Made' = Made
      BY <1>2, <1>5, <2>2, <2>3, <2>4 DEF Listed, Made
    <2> QED BY <1>2, <2>1, <2>2, <2>3, <2>5 DEF IsIn, Listed
  <1> QED BY <1>1, <1>2, <1>3, <1>5, <1>6, AnswersCalm

(* Steps of the administrator that tell no actor. *)
LEMMA QuietCalm ==
  ASSUME Sound, Sound', Calmly, op' = op \/ Ends(Admin), idOf' = idOf, mailbox' = mailbox, op[Admin].stage # "adding",
         NEW ids, \A q \in Parties \ {Admin} : ids \cap op[q].ids = {},
         \A j \in Ids \ ids : rooms'[j] = rooms[j],
         \A s \in Made : idOf[s] \notin ids => users'[s] = users[s],
         Present', op' = op => op[Admin] = NoOp
  PROVE  Calmly'
  <1>1. Admin \in Parties /\ Made' = Made
    BY TypesIs DEF Sound, Made
  <1>2. op'[Admin] = NoOp /\ \A q \in Parties \ {Admin} : op'[q] = op[q]
    BY <1>1 DEF Ends, Does, Sound, Types
  <1>3. Kept(op[Admin])' /\ op'[Admin].ids = {} /\ op'[Admin].stage # "adding"
    BY <1>2, NoOpIs DEF Kept
  <1>4. \A q \in Parties \ {Admin} : \A i \in op[q].ids :
          rooms'[i] = rooms[i] /\ \A s \in Made : idOf[s] = i => users'[s] = users[s]
    BY TypesIs DEF Sound, Ops
  <1> QED BY <1>1, <1>2, <1>3, <1>4, CalmKeeps

LEMMA KickFromServerCalm ==
  ASSUME Apart, Sound, Sound', Calmly, trouble = {}, NEW u \in Users, KickFromServer(u)
  PROVE  Calmly'
  <1>1. /\ at[u] \in Made /\ Leaves(at[u], u) /\ UNCHANGED <<idOf, mailbox, op>>
        /\ MayStart(Admin, u, {idOf[at[u]]}) /\ Admin \in Parties /\ u \in Parties
    BY TypesIs DEF KickFromServer, Sound, Types
  <1>2. PICK r \in Made : r = at[u]
    BY <1>1
  <1>3. op[Admin] = NoOp
    BY <1>1 DEF MayStart, Busy, Sound, Where, Fits
  <1>4. Listed(r)
    BY <1>2, TypesIs DEF Calmly, Present, IsIn, Sound
  <1>5. /\ Present' /\ (\A j \in Ids : j # idOf[r] => rooms'[j] = rooms[j])
        /\ \A s \in Made : s # r => users'[s] = users[s]
    BY <1>1, <1>2, <1>4, LeavesCalm
  <1>6. PICK ids : ids = {idOf[r]}
    OBVIOUS
  <1>7. \A q \in Parties : ids \cap op[q].ids = {}
    BY <1>1, <1>2, <1>6, AloneIs
  <1>8. (\A j \in Ids \ ids : rooms'[j] = rooms[j]) /\ \A s \in Made : idOf[s] \notin ids => users'[s] = users[s]
    BY <1>5, <1>6
  <1> QED BY <1>1, <1>3, <1>5, <1>7, <1>8, NoOpIs, QuietCalm

LEMMA EmptyIsMadeCalm == ASSUME Apart, Sound, Sound', Calmly, EmptyIsMade PROVE Calmly'
  <1>1. /\ op[Admin].kind = "empty" /\ Ends(Admin) /\ UNCHANGED <<idOf, users, at, mailbox>>
        /\ \/ UNCHANGED rooms
           \/ rooms' = [i \in Ids |-> IF i \in op[Admin].ids THEN None ELSE rooms[i]]
    BY DEF EmptyIsMade
  <1>2. op[Admin].stage = "" /\ Admin \in Parties /\ Kept(op[Admin])
    BY <1>1, TypesIs DEF Sound, Where, Fits, Calmly
  <1>3. PICK ids : ids = op[Admin].ids
    OBVIOUS
  <1>4. \A q \in Parties \ {Admin} : ids \cap op[q].ids = {}
    BY <1>2, <1>3 DEF Calmly, Disjoint
  <1>5. \A j \in Ids \ ids : rooms'[j] = rooms[j]
    BY <1>1, <1>3
  <1>6. Present'
    <2> SUFFICES ASSUME NEW v \in Users, at'[v] # None PROVE IsIn(v, at[v])'
      BY DEF Present
    <2>1. PICK s \in Made : s = at[v] /\ Listed(s) /\ v \in users[s]
      BY <1>1 DEF Calmly, Present, IsIn
    <2>2. idOf[s] \in Ids /\ s # None
      BY TypesIs DEF Sound
    <2>3. idOf[s] \notin ids
      BY <1>1, <1>2, <1>3, <2>1, <2>2 DEF Kept, Listed
    <2>4. rooms'[idOf'[s]] = s /\ Made' = Made
      BY <1>1, <1>5, <2>1, <2>2, <2>3 DEF Listed, Made
    <2> QED BY <1>1, <2>1, <2>2, <2>4 DEF IsIn, Listed
  <1>7. \A s \in Made : idOf[s] \notin ids => users'[s] = users[s]
    BY <1>1
  <1>8. op' = op => op[Admin] = NoOp
    BY <1>1, <1>2 DEF Ends, Does, Sound, Types
  <1> QED BY <1>1, <1>2, <1>4, <1>5, <1>6, <1>7, <1>8, QuietCalm

LEMMA StopStaleCalm == ASSUME Sound, Calmly, NEW r \in Made, StopStale(r) PROVE Calmly'
  <1>1. UNCHANGED <<rooms, idOf, users, at, mailbox, op>> /\ Made' = Made
    BY DEF StopStale, places, Made
  <1>2. (\A s : Listed(s)' <=> Listed(s)) /\ \A u, s : IsIn(u, s)' <=> IsIn(u, s)
    BY <1>1 DEF Listed, IsIn
  <1>3. Disjoint' /\ Arriving' /\ Present'
    BY <1>1, <1>2 DEF Calmly, Disjoint, Arriving, Arrives, Present
  <1>4. \A p \in Parties : Kept(op[p])'
    BY <1>1, <1>2 DEF Calmly, Kept
  <1> QED BY <1>3, <1>4 DEF Calmly

(* Every step keeps the calm layer. *)
LEMMA CalmStep == ASSUME Apart, Sound, Sound', Calmly, trouble = {}, Next PROVE Calmly'
  <1>1. ASSUME NEW u \in Users, NEW i \in Ids,
               CreateRoom(u, i) \/ JoinLook(u, i) \/ Move(u, i) \/ Orders("kick", u, i)
        PROVE  Calmly'
    <2>1. u \in Parties
      BY TypesIs DEF Sound
    <2>2. Orders("kick", u, i) => Calmly'
      BY <2>1, OrdersCalm
    <2> QED BY <1>1, <2>2, CreateRoomCalm, JoinLookCalm, MoveCalm
  <1>2. ASSUME NEW u \in Users,
               JoinSend(u) \/ JoinEnds(u) \/ LeaveRoom(u) \/ LeaveEnds(u) \/ KickFromServer(u)
        PROVE  Calmly'
    <2>1. LeaveEnds(u) => Calmly'
      BY EndsCalm, TypesIs DEF LeaveEnds, Sound
    <2> QED BY <1>2, <2>1, JoinSendCalm, JoinEndsCalm, LeaveRoomCalm, KickFromServerCalm
  <1>3. ASSUME NEW i \in Ids, Orders("close", Admin, i) \/ CreateEmpty(i)
        PROVE  Calmly'
    <2>1. Admin \in Parties
      BY TypesIs DEF Sound
    <2>2. Orders("close", Admin, i) => Calmly'
      BY <2>1, OrdersCalm
    <2> QED BY <1>3, <2>2, CreateEmptyCalm
  <1>4. ASSUME NEW r \in Made,
               AddUser(r) \/ RemoveUser(r) \/ KickUser(r) \/ CloseRoom(r) \/ StopStale(r) \/ Lost(r)
        PROVE  Calmly'
    BY <1>4, AddUserCalm, RemoveUserCalm, KickUserCalm, CloseRoomCalm, StopStaleCalm, LostNever
  <1>5. OrderEnds \/ EmptyIsMade => Calmly'
    <2>1. OrderEnds => Calmly'
      BY EndsCalm, TypesIs DEF OrderEnds, Sound
    <2> QED BY <2>1, EmptyIsMadeCalm
  <1>6. MoveRemoves \/ MoveRemoved \/ MoveAdds \/ MoveAdded => Calmly'
    BY MoveRemovesCalm, MoveRemovedCalm, MoveAddsCalm, MoveAddedCalm
  <1>7. MoveRegisters \/ MovePoints \/ MoveUndoes \/ MoveUndone => Calmly'
    BY MoveRegistersCalm, MovePointsCalm, UndoNever
  <1> QED BY <1>1, <1>2, <1>3, <1>4, <1>5, <1>6, <1>7 DEF Next

-----------------------------------------------------------------------------
(* A set with at most one member. *)
LEMMA AtMostOne == ASSUME NEW S, NEW x, S \subseteq {x} PROVE Cardinality(S) <= 1
  <1>1. IsFiniteSet({x}) /\ Cardinality({x}) = 1
    BY FS_Singleton
  <1>2. Cardinality(S) \in Nat /\ Cardinality(S) <= Cardinality({x})
    BY <1>1, FS_Subset, FS_CardinalityType
  <1> QED BY <1>1, <1>2

LEMMA InitInv == Init => IInv
  BY InitSound DEF IInv

(* The invariant is inductive, and tells where the players are. *)
LEMMA NextInv == Apart /\ IInv /\ [Next]_vars => IInv'
  <1> SUFFICES ASSUME Apart, IInv, [Next]_vars, "overlap" \notin trouble
               PROVE  Sound' /\ (trouble = {} => Calmly')
    BY TroubleStays DEF IInv
  <1>1. Sound /\ (trouble = {} => Calmly)
    BY DEF IInv
  <1>2. CASE Next
    BY <1>1, <1>2, SoundStep, CalmStep
  <1>3. CASE UNCHANGED vars
    BY <1>1, <1>3, UnchangedIs
  <1> QED BY <1>2, <1>3

LEMMA InvTells == Apart /\ IInv => PlacesAgreeIfCalm /\ OneRoomIfApart
  <1> SUFFICES ASSUME Apart, IInv PROVE PlacesAgreeIfCalm /\ OneRoomIfApart
    OBVIOUS
  <1>1. "overlap" \notin trouble => Sound /\ (trouble = {} => Calmly)
    BY DEF IInv
  <1>2. ASSUME "overlap" \notin trouble, NEW u \in Users PROVE Cardinality(Inside(u)) <= 1
    <2>1. \E x : Inside(u) \subseteq {x}
      <3>1. CASE Pointing(u)
        <4>1. Only(u, op[Admin].to)
          BY <1>1, <1>2, <3>1, TypesIs DEF Pointing, Sound, Where, Placed
        <4> QED BY <4>1 DEF Only, IsIn, Inside
      <3>2. CASE ~Pointing(u)
        <4>1. Only(u, at[u])
          BY <1>1, <1>2, <3>2 DEF Sound, Where
        <4> QED BY <4>1 DEF Only, IsIn, Inside
      <3> QED BY <3>1, <3>2
    <2> QED BY <2>1, AtMostOne
  <1>3. ASSUME trouble = {}, NEW u \in Users, Settled(u) PROVE Inside(u) = {at[u]} \ {None}
    <2>1. Sound /\ Calmly
      BY <1>1, <1>3
    <2>2. ~Pointing(u)
      BY <1>3, <2>1, TypesIs DEF Settled, Pointing, Sound
    <2>3. Only(u, at[u]) /\ (at[u] # None => IsIn(u, at[u]))
      BY <2>1, <2>2 DEF Sound, Where, Calmly, Present
    <2> QED BY <2>1, <2>3, TypesIs DEF Only, IsIn, Inside, Sound
  <1> QED BY <1>2, <1>3 DEF PlacesAgreeIfCalm, PlacesAgree, OneRoomIfApart

(* Unless the administrator acts on a player in the middle of a command of   *)
(* his own, a player hears one room at most; and if nothing meets, a player  *)
(* at rest is in the room his pointer names, and it is in the map            *)
(* (session_room.rs, server/rooms.rs, room_actor/handlers).                  *)
THEOREM PlacesHold == ASSUME Apart PROVE Spec => [](PlacesAgreeIfCalm /\ OneRoomIfApart)
  BY InitInv, NextInv, InvTells, PTL DEF Spec
=============================================================================
