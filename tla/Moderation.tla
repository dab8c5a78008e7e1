----------------------------- MODULE Moderation -----------------------------
(***************************************************************************)
(* Bans, blacklists and whitelists (ban.rs) on the extension store they    *)
(* are kept in (extensions.rs): administrators who edit them at the        *)
(* console, over the socket or through a plugin, the file the store is     *)
(* written to after each edit and once a minute, crashes, and a client of  *)
(* a user who is banned while he comes in.                                 *)
(*                                                                         *)
(* The three lists are edited in the same manner: the list is read, a copy *)
(* is changed, the copy is put back.  A behaviour is about one of them     *)
(* (kind) and about the ban of one user, which is a single write.          *)
(*                                                                         *)
(* trouble is fixed at the start.  "racing": two administrators work at    *)
(* the same time.  "torn": the server dies while the file is not whole.    *)
(* "unwritten": the file cannot be written, or not to its end.             *)
(* "joining": the user is banned while his client is being let in.         *)
(* "plugin": a plugin bans him.                                            *)
(***************************************************************************)
EXTENDS Naturals, FiniteSets

CONSTANTS Admins,       \* those who give commands
          Entries,      \* the entries of the list
          User,         \* the user who is banned
          MaxCommands,  \* bound: commands
          MaxCrashes,   \* bound: crashes
          Troubles      \* the sets of troubles to start with

Kinds  == {"ip", "blacklist", "whitelist"}
Things == Entries \cup {User}
Timer  == "timer"       \* the task auth-cache-persist

VARIABLES trouble, kind,
          up,       \* the server runs
          list,     \* the list of the store, in memory
          banned,   \* the ban status of the user, in memory
          file,     \* what the file holds, and whether it is whole
          writers,  \* who is writing the file, with the store locked for reading
          command,  \* what each administrator is doing
          told,     \* history: what was acknowledged last for each thing
          client,   \* the user's client: out, checked, in
          commands, crashes

vars == <<trouble, kind, up, list, banned, file, writers, command, told, client,
          commands, crashes>>

Has(t) == t \in trouble
Contents(l, b) == [is |-> "whole", list |-> l, banned |-> b]
Torn   == [is |-> "torn", list |-> {}, banned |-> FALSE]
Cut    == [Torn EXCEPT !.is = "cut"]
Idle   == [does |-> "nothing", to |-> {}, at |-> "done", copy |-> {}]
Busy(a) == command[a] # Idle
Touched == UNION {command[a].to : a \in Admins}
Step(a, at) == command' = [command EXCEPT ![a].at = at]

Init ==
  /\ trouble \in Troubles /\ kind \in Kinds
  /\ up = TRUE /\ list = {} /\ banned = FALSE
  /\ file = Contents({}, FALSE)
  /\ writers = {} /\ command = [a \in Admins |-> Idle]
  /\ told = [x \in Things |-> "nothing"]
  /\ client = "out" /\ commands = 0 /\ crashes = 0

(***************************************************************************)
(* An edit of a list reads it first.  Nobody else works on the same entry. *)
(***************************************************************************)
Begins(a, does, to) ==
  /\ up /\ ~Busy(a) /\ commands < MaxCommands
  /\ to \cap Touched = {}
  /\ (\A b \in Admins : ~Busy(b)) \/ Has("racing")
  /\ command' = [command EXCEPT ![a] =
                   [does |-> does, to |-> to, at |-> "read", copy |-> list]]
  /\ commands' = commands + 1
  /\ UNCHANGED <<trouble, kind, up, list, banned, file, writers, told, client, crashes>>

\* ban_ip and whitelist_add_user refuse an entry that is there;
\* room_ban_user gives it a new reason.
BanIp(a, x)        == kind = "ip" /\ x \notin list /\ Begins(a, "add", {x})
RoomBanUser(a, x)  == kind = "blacklist" /\ Begins(a, "add", {x})
WhitelistAdd(a, x) == kind = "whitelist" /\ x \notin list /\ Begins(a, "add", {x})

\* The reverse refuses an entry that is not there.
UnbanIp(a, x)         == kind = "ip" /\ x \in list /\ Begins(a, "remove", {x})
RoomUnbanUser(a, x)   == kind = "blacklist" /\ x \in list /\ Begins(a, "remove", {x})
WhitelistRemove(a, x) == kind = "whitelist" /\ x \in list /\ Begins(a, "remove", {x})

\* clear_room_whitelist reads nothing.
ClearWhitelist(a) == kind = "whitelist" /\ Begins(a, "remove", Entries)

BanUser(a) ==
  /\ client # "checked" \/ Has("joining")
  /\ \/ Begins(a, "ban", {User})
     \/ Has("plugin") /\ Begins(a, "plugin ban", {User})
UnbanUser(a) == Begins(a, "unban", {User})

(***************************************************************************)
(* The copy, or the one record of a user, goes back into the store, under  *)
(* the write lock.                                                         *)
(***************************************************************************)
Bans(does) == does \in {"ban", "plugin ban"}

\* set_ban_record
Record(does, to) == banned' = IF to = {User} THEN Bans(does) ELSE banned

PutBack(a) ==
  /\ Busy(a) /\ command[a].at = "read" /\ writers = {}
  /\ LET c == command[a] IN
       /\ list' = CASE c.does = "add"    -> c.copy \cup c.to
                    [] c.does = "remove" -> c.copy \ c.to
                    [] OTHER             -> list
       /\ Record(c.does, c.to)
  /\ Step(a, "stored")
  /\ UNCHANGED <<trouble, kind, up, file, writers, told, client, commands, crashes>>

(***************************************************************************)
(* persist: the file is truncated and written anew under the read lock.    *)
(* One that cannot be opened stays as it is, and one that cannot be        *)
(* written to its end is left cut; what is in memory stays.                *)
(***************************************************************************)
Persists(who) == up /\ who \notin writers /\ (who # Timer => command[who].at = "stored")
Reaches(who, at) == IF who = Timer THEN UNCHANGED command ELSE Step(who, at)

WriteBegins(who) ==
  /\ Persists(who) /\ Reaches(who, "writing")
  /\ writers' = writers \cup {who}
  /\ file' = Torn
  /\ UNCHANGED <<trouble, kind, up, list, banned, told, client, commands, crashes>>

CannotOpen(who) ==
  /\ Has("unwritten") /\ Persists(who) /\ Reaches(who, "failed")
  /\ UNCHANGED <<trouble, kind, up, list, banned, file, writers, told, client, commands, crashes>>

\* Of a file that another writer has cut it is not known who wrote last.
WriteEnds(who) ==
  /\ who \in writers
  /\ writers' = writers \ {who}
  /\ file' \in IF writers' # {} THEN {file}
               ELSE {Contents(list, banned)} \cup ({file} \cap {Cut})
  /\ Reaches(who, "written")
  /\ UNCHANGED <<trouble, kind, up, list, banned, told, client, commands, crashes>>

WriteFails(who) ==
  /\ Has("unwritten") /\ who \in writers
  /\ writers' = writers \ {who}
  /\ file' = Cut
  /\ Reaches(who, "failed")
  /\ UNCHANGED <<trouble, kind, up, list, banned, told, client, commands, crashes>>

\* Mutant: the answer does not wait for the file.
Written_Stored(a) == Busy(a) /\ command[a].at \in {"stored", "written"}

Written(a) == Busy(a) /\ command[a].at = "written"

\* Mutant: the session of the banned user is left alone.
Disconnects_Nobody(does) == FALSE

\* disconnect_banned_user; a plugin's ban does without it.
Disconnects(does) == does = "ban"

Answers(a) ==
  /\ Written(a)
  /\ LET c == command[a] IN
       /\ told' = [x \in Things |->
                     IF x \notin c.to THEN told[x]
                     ELSE IF c.does = "add" \/ Bans(c.does) THEN "in" ELSE "out"]
       /\ client' = IF Disconnects(c.does) /\ client = "in" THEN "out" ELSE client
  /\ command' = [command EXCEPT ![a] = Idle]
  /\ UNCHANGED <<trouble, kind, up, list, banned, file, writers, commands, crashes>>

\* The error of a write says nothing of what is in memory, which is changed;
\* nobody is disconnected.
AnswersError(a) ==
  /\ command[a].at = "failed"
  /\ told' = [x \in Things |-> IF x \in command[a].to THEN "nothing" ELSE told[x]]
  /\ command' = [command EXCEPT ![a] = Idle]
  /\ UNCHANGED <<trouble, kind, up, list, banned, file, writers, client, commands, crashes>>

(***************************************************************************)
(* The client: authentication asks for a ban, and lets the client into the *)
(* table of sessions some time later.                                      *)
(***************************************************************************)
MayEnter == up /\ client = "out" /\ ~banned

Checked ==
  /\ MayEnter
  /\ ~(\E a \in Admins : Bans(command[a].does)) \/ Has("joining")
  /\ client' = "checked"
  /\ UNCHANGED <<trouble, kind, up, list, banned, file, writers, command, told,
                 commands, crashes>>

Registered ==
  /\ client = "checked"
  /\ client' = "in"
  /\ UNCHANGED <<trouble, kind, up, list, banned, file, writers, command, told,
                 commands, crashes>>

Leaves ==
  /\ client # "out" /\ client' = "out"
  /\ UNCHANGED <<trouble, kind, up, list, banned, file, writers, command, told,
                 commands, crashes>>

(***************************************************************************)
(* Crashes.  What was being done to a thing is not known any more.         *)
(***************************************************************************)
Crash ==
  /\ up /\ crashes < MaxCrashes
  /\ file.is = "whole" \/ Has("torn")
  /\ crashes' = crashes + 1
  /\ up' = FALSE /\ writers' = {} /\ client' = "out"
  /\ list' = {} /\ banned' = FALSE
  /\ command' = [a \in Admins |-> Idle]
  /\ told' = [x \in Things |-> IF x \in Touched THEN "nothing" ELSE told[x]]
  /\ UNCHANGED <<trouble, kind, file, commands>>

\* ExtensionManager::new: a file that is not whole is read as an empty store.
Start ==
  /\ ~up
  /\ up' = TRUE
  /\ list' = file.list /\ banned' = file.banned
  /\ UNCHANGED <<trouble, kind, file, writers, command, told, client, commands, crashes>>

Next ==
  \/ \E a \in Admins : \E x \in Entries :
       \/ BanIp(a, x) \/ RoomBanUser(a, x) \/ WhitelistAdd(a, x)
       \/ UnbanIp(a, x) \/ RoomUnbanUser(a, x) \/ WhitelistRemove(a, x)
  \/ \E a \in Admins : \/ ClearWhitelist(a) \/ BanUser(a) \/ UnbanUser(a)
                       \/ PutBack(a) \/ Answers(a) \/ AnswersError(a)
  \/ \E who \in Admins \cup {Timer} : \/ WriteBegins(who) \/ CannotOpen(who)
                                     \/ WriteEnds(who) \/ WriteFails(who)
  \/ Checked \/ Registered \/ Leaves \/ Crash \/ Start

Spec == Init /\ [][Next]_vars

(***************************************************************************)
(* Properties.                                                             *)
(***************************************************************************)
\* What an administrator was told without an error holds for as long as
\* nobody works on the same thing, also after restarts and over writes that
\* fail.  It takes calm: two edits of a list at the same time lose one of
\* them, and a crash while the file is not whole empties every list.
InForce(x) == IF x = User THEN banned ELSE x \in list
AnswersHold ==
  up => \A x \in Things \ Touched : /\ told[x] = "in"  => InForce(x)
                                    /\ told[x] = "out" => ~InForce(x)
AnswersHoldIfCalm == trouble \cap {"racing", "torn"} = {} => AnswersHold

\* A user whose ban has been acknowledged has no session.  It takes calm: a
\* client that is past the check, but not yet in the table, is not found, and
\* a plugin's ban looks for nobody.
BannedIsOut == told[User] = "in" /\ User \notin Touched => client # "in"
BannedIsOutIfCalm ==
  trouble \cap {"joining", "plugin", "torn"} = {} => BannedIsOut

\* An administrator who is told of an error finds the lists as they were.  He
\* does not when the file cannot be written: the edit is in force already.
ErrorChangesNothing ==
  \A a \in Admins : command[a].at = "failed" =>
    \A x \in command[a].to \cap Entries : x \in list <=> x \in command[a].copy
=============================================================================
