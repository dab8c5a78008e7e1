------------------------------ MODULE AutoUpdate ------------------------------
(***************************************************************************)
(* The server replaces its own executable (auto_update.rs and the `update' *)
(* commands).  The executor carries out a reservation once nobody is       *)
(* online; a console command updates at once.  Both run apply, which       *)
(* resumes the download in one .part file, compares it with the manifest,  *)
(* and moves it by two renames over the executable; then a new process is  *)
(* started and this one exits.                                             *)
(*                                                                         *)
(* A file is a list of chunks <<version, index>>.  Names refer to inodes,  *)
(* since an open file follows its inode through a rename.  Left out: the   *)
(* number of attempts, the interval of the checks, the notice that the new *)
(* process prints, versions that cannot be parsed.                         *)
(***************************************************************************)
EXTENDS Naturals, Sequences, FiniteSetsExt

CONSTANTS
    Console,      \* a console session that issues update commands
    Bot,          \* a player whom filtered_player_ids names stays online
    Executor,     \* run_checker
    MaxReleases,  \* bound: releases during the run
    Chunks,       \* chunks of an asset
    MaxCrashes,   \* bound: crashes of the process
    Troubles      \* what may go wrong: a set of subsets of {"both", "joining"}

Appliers == {Console, Executor}
Versions == 0..MaxReleases
Inodes == 1..6

VARIABLES
    trouble,   \* what may go wrong in this run
    latest,    \* the newest release
    running,   \* the version of this process
    players,   \* "some" are online, all left only "recently", or "none"
    pending,   \* pending_update, 0 for none
    applied,   \* LAST_APPLIED_TAG, 0 for none
    told,      \* the version the last successful update named
    disk,      \* the contents of the inodes
    files,     \* the inodes of part, tmp and the executable, 0 for none
    task,      \* what each applier does
    thrown,    \* an update that was to wait for players has thrown one out
    crashes

vars == <<trouble, latest, running, players, pending, applied, told,
          disk, files, task, thrown, crashes>>

Whole(v) == [i \in 1..Chunks |-> <<v, i>>]
IsWhole(i) == \E v \in Versions : disk[i] = Whole(v)
VersionOf(i) == CHOOSE v \in Versions : disk[i] = Whole(v)

Nothing == [at |-> "no", want |-> 0, polite |-> FALSE, inode |-> 0,
            pos |-> 0, next |-> 0]

Init ==
    /\ trouble \in Troubles
    /\ latest = 0 /\ running = 0 /\ players = "some" /\ pending = 0
    /\ applied = 0 /\ told = 0 /\ thrown = FALSE /\ crashes = 0
    /\ disk = [i \in Inodes |-> IF i = 1 THEN Whole(0) ELSE <<>>]
    /\ files = [part |-> 0, tmp |-> 0, exe |-> 1]
    /\ task = [t \in Appliers |-> Nothing]

Used(fs, ts) == {fs.part, fs.tmp, fs.exe} \cup {ts[t].inode : t \in Appliers}
Unused == Min(Inodes \ Used(files, task))

\* An inode without a name and without an open file is gone.
DiskBecomes(d) ==
    disk' = [i \in Inodes |-> IF i \in Used(files', task') THEN d[i] ELSE <<>>]

At(t, place) == task[t].at = place
Goes(t, place) == task' = [task EXCEPT ![t].at = place]
Fails(t) == task' = [task EXCEPT ![t] = Nothing]

server == <<trouble, latest, running, players, pending, applied, told,
            thrown, crashes>>

-----------------------------------------------------------------------------
(* apply *)

\* Mutant: the executor asks whether anyone is online after the reservation,
\* not the console command.
NobodyIsOn_ForExecutor(t) == t = Executor => players = "none" /\ ~Bot

NobodyIsOn(t) == players = "none" /\ (t = Executor => ~Bot)

\* `update apply', unlike `update force', minds the players and what was done.
MayApply(t, force) == ~force => NobodyIsOn(t) /\ applied # latest

\* The executor looks at the players and then forces apply; a console command
\* has apply look at them, or forces it.
Begin(t, force) ==
    /\ At(t, "no")
    /\ "both" \in trouble \/ \A o \in Appliers : At(o, "no")
    /\ latest > running
    /\ t = Executor => pending # 0 /\ ~force
    /\ MayApply(t, force)
    /\ task' = [task EXCEPT ![t] = [Nothing EXCEPT !.at = "request",
                                    !.want = latest, !.polite = ~force]]
    /\ UNCHANGED <<server, disk, files>>

\* download_asset_to_part opens the file for one attempt, at its end when the
\* server resumes, empty when it does not.
Request(t) ==
    LET existing == IF files.part = 0 THEN 0 ELSE Len(disk[files.part]) IN
    /\ At(t, "request")
    /\ \/ /\ files' = [files EXCEPT !.part = IF @ = 0 THEN Unused ELSE @]
          /\ task' = [task EXCEPT ![t].at = "stream", ![t].inode = files'.part,
                                  ![t].pos = 0, ![t].next = 1]
          /\ DiskBecomes([disk EXCEPT ![files'.part] = <<>>])
       \/ /\ existing \in 1..(Chunks - 1)
          /\ task' = [task EXCEPT ![t].at = "stream", ![t].inode = files.part,
                                  ![t].pos = Chunks + 1, ![t].next = existing + 1]
          /\ UNCHANGED <<disk, files>>
       \/ /\ existing >= Chunks
          /\ files' = [files EXCEPT !.part = 0]
          /\ UNCHANGED task /\ DiskBecomes(disk)
       \/ Fails(t) /\ UNCHANGED <<disk, files>>
    /\ UNCHANGED server

\* A write at pos leaves a hole where the file has become shorter; a file
\* that was opened to append is always written at its end.
Written(content, pos, chunk) ==
    IF pos > Chunks THEN Append(content, chunk)
    ELSE [i \in 1..(IF Len(content) > pos THEN Len(content) ELSE pos + 1) |->
            IF i = pos + 1 THEN chunk
            ELSE IF i <= Len(content) THEN content[i] ELSE <<0, 0>>]

Chunk(t) ==
    LET me == task[t] IN
    /\ At(t, "stream") /\ me.next <= Chunks
    /\ Len(disk[me.inode]) < 2 * Chunks
    /\ task' = [task EXCEPT ![t].next = @ + 1,
                            ![t].pos = IF @ > Chunks THEN @ ELSE @ + 1]
    /\ UNCHANGED <<server, files>>
    /\ DiskBecomes([disk EXCEPT ![me.inode] =
                      Written(@, me.pos, <<me.want, me.next>>)])

\* The stream ends, or breaks off and is asked for again.
StreamEnds(t) ==
    /\ At(t, "stream")
    /\ task' = [task EXCEPT ![t].inode = 0, ![t].pos = 0, ![t].next = 0,
           ![t].at = IF task[t].next > Chunks /\ files.part # 0
                     THEN "verify" ELSE "request"]
    /\ UNCHANGED <<server, files>>
    /\ DiskBecomes(disk)

\* Mutant: the checksum is not compared.
Verify_Not(t) ==
    /\ At(t, "verify") /\ files.part # 0
    /\ Goes(t, "activate") /\ UNCHANGED <<server, disk, files>>

Verify(t) ==
    /\ At(t, "verify")
    /\ IF files.part # 0 /\ disk[files.part] = Whole(task[t].want)
       THEN Goes(t, "activate") /\ UNCHANGED <<disk, files>>
       ELSE /\ Fails(t) /\ files' = [files EXCEPT !.part = 0]
            /\ DiskBecomes(disk)
    /\ UNCHANGED server

Activate(t) ==
    /\ At(t, "activate")
    /\ IF files.part # 0
       THEN /\ files' = [files EXCEPT !.tmp = files.part, !.part = 0]
            /\ Goes(t, "replace")
       ELSE Fails(t) /\ UNCHANGED files
    /\ DiskBecomes(disk)
    /\ UNCHANGED server

\* replace_executable: a rename, or a copy and a rename when the executable
\* is on another file system.
Replace(t) ==
    /\ At(t, "replace")
    /\ \/ /\ files.tmp # 0 /\ Goes(t, "spawn")
          /\ files' = [files EXCEPT !.exe = files.tmp, !.tmp = 0]
          /\ DiskBecomes(disk)
       \/ /\ files.tmp # 0 /\ Goes(t, "spawn")
          /\ files' = [files EXCEPT !.exe = Unused]
          /\ DiskBecomes([disk EXCEPT ![Unused] = disk[files.tmp]])
       \/ Fails(t) /\ UNCHANGED <<files, disk>>
    /\ UNCHANGED server

\* A new process runs the executable as it is now.
Starts ==
    /\ IsWhole(files.exe)
    /\ running' = VersionOf(files.exe)
    /\ players' = "recent" /\ pending' = 0 /\ applied' = 0
    /\ task' = [t \in Appliers |-> Nothing]
    /\ UNCHANGED <<trouble, latest, files>>
    /\ DiskBecomes(disk)

\* The marker with the version for the new process to announce.
Announces(t) == told' = task[t].want

TakesOver(t) ==
    /\ At(t, "spawn")
    /\ Announces(t)
    /\ thrown' = (thrown \/ (task[t].polite /\ players = "some"))
    /\ Starts /\ UNCHANGED crashes

SpawnFails(t) ==
    /\ At(t, "spawn")
    /\ Announces(t) /\ applied' = task[t].want /\ Fails(t)
    /\ pending' = IF t = Executor THEN 0 ELSE pending
    /\ UNCHANGED <<trouble, latest, running, players, thrown, crashes,
                   disk, files>>

Crash ==
    /\ crashes < MaxCrashes /\ crashes' = crashes + 1
    /\ Starts /\ UNCHANGED <<told, thrown>>

-----------------------------------------------------------------------------
(* Reservations, releases and players *)

\* `update schedule' finds a release that is neither installed nor reserved.
Reservable == latest > running /\ latest > pending

\* check_once and `update schedule'
Schedule ==
    /\ Reservable /\ pending' = latest
    /\ UNCHANGED <<trouble, latest, running, players, applied, told, disk,
                   files, task, thrown, crashes>>

\* `update cancel', and an executor that finds nothing left to update
Cancel ==
    /\ pending # 0 /\ pending' = 0
    /\ UNCHANGED <<trouble, latest, running, players, applied, told, disk,
                   files, task, thrown, crashes>>

Release ==
    /\ latest < MaxReleases /\ latest' = latest + 1
    /\ UNCHANGED <<trouble, running, players, pending, applied, told, disk,
                   files, task, thrown, crashes>>

PlayersChange ==
    /\ \/ /\ players = "some" /\ players' = "recent"
       \/ /\ players = "recent" /\ players' = "none"
       \/ /\ players # "some" /\ players' = "some"
          /\ "joining" \in trouble \/ \A t \in Appliers : ~task[t].polite
    /\ UNCHANGED <<trouble, latest, running, pending, applied, told, disk,
                   files, task, thrown, crashes>>

Apply(t) ==
    \/ \E force \in BOOLEAN : Begin(t, force)
    \/ Request(t) \/ Chunk(t) \/ StreamEnds(t) \/ Verify(t) \/ Activate(t)
    \/ Replace(t) \/ TakesOver(t) \/ SpawnFails(t)

Next ==
    \/ \E t \in Appliers : Apply(t)
    \/ Crash \/ Schedule \/ Cancel \/ Release \/ PlayersChange

Spec == Init /\ [][Next]_vars

-----------------------------------------------------------------------------
(* The executable is at all times a whole release, and not an older one than
   the last update announced.  "guarantees that the replacement is atomic"
   (replace_executable). *)
ExeIsSound ==
    \E v \in Versions : disk[files.exe] = Whole(v) /\ v >= told

\* It is while only one update is in progress, whatever breaks off.
ExeIsSoundIfCalm == "both" \notin trouble => ExeIsSound

(* An update that waits until nobody is online throws nobody out. *)
NobodyIsThrownOut == ~thrown

\* It throws nobody out when nobody comes while it downloads.
NobodyIsThrownOutIfCalm == "joining" \notin trouble => NobodyIsThrownOut
=============================================================================
