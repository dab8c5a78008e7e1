------------------------------ MODULE Recovery ------------------------------
(* Start-up recovery (server/recovery.rs) over what outlives a crash: the    *)
(* table of rounds, the log, the dead-letter file with the files set aside   *)
(* to be replayed, and the stored settings of one persistent room.  Two      *)
(* kinds of event: the completion of a round, and a snapshot of the settings *)
(* of the room, numbered in the order they were made (0 is the default): its *)
(* lock, cycle, visibility, chart and host.  The mode of a tournament, which *)
(* a snapshot has too and nothing reads, is kept apart.                      *)
(* `trouble' is the set of things that may go wrong:                         *)
(*   "twice"  what start-up replays cannot be written again                  *)
(*   "stale"  a snapshot cannot be written and later ones can                *)
(*   "slow"   the snapshot of the room just made is due before the stored    *)
(*            one has been read                                              *)
(*   "torn"   an append to the dead-letter file fails, or a crash ends it, in *)
(*            the middle of its line                                         *)
EXTENDS Naturals, FiniteSets

CONSTANTS Rounds, MaxChanges, MaxCrashes, MaxLetters, Troubles

VARIABLES trouble,
          stage,     \* of recover_state; "up" once connections are accepted
          table,     \* mp_rounds: "none", "open", "done" or "aborted"
          log,       \* events pending in the log
          letters,   \* the active dead-letter file
          torn,      \* whether it ends in the middle of a line
          parked,    \* what is in the *.replaying-* files
          reading,   \* what of it has not been enqueued again
          replayed,  \* what was enqueued again by this start
          refused,   \* what the log did not admit at this start
          saved,     \* mp_room_snapshots
          live, due, \* settings of the room; a debounced snapshot
          contest,   \* its tournament mode, live and as it was last set
          accepted,  \* rounds whose completion the log has admitted
          kept,      \* newest settings that were ever stored
          crashes

vars == <<trouble, stage, table, log, letters, torn, parked, reading, replayed, refused,
          saved, live, due, contest, accepted, kept, crashes>>

Nothing == MaxChanges + 1
Round(r) == <<"round_completed", r>>
Snap(v) == <<"room_snapshot", v>>
Completions == {Round(r) : r \in Rounds}
Snaps == {Snap(v) : v \in 0..MaxChanges}

Init ==
    /\ trouble \in Troubles
    /\ stage = "up" /\ table = [r \in Rounds |-> "none"]
    /\ log = {} /\ letters = {} /\ torn = FALSE /\ parked = {} /\ reading = {} /\ replayed = {} /\ refused = {}
    /\ saved = 0 /\ live = 0 /\ due = Nothing /\ contest = [live |-> FALSE, set |-> FALSE]
    /\ accepted = {} /\ kept = 0 /\ crashes = 0

files == <<letters, torn, parked>>
start == <<reading, replayed, refused>>
room == <<saved, live, due, contest, kept>>
-----------------------------------------------------------------------------
\* open_round, before a round is played; its completion goes through the log.
Open(r) ==
    /\ stage = "up" /\ table[r] = "none"
    /\ table' = [table EXCEPT ![r] = "open"]
    /\ UNCHANGED <<trouble, stage, log, files, start, room, accepted, crashes>>

Complete(r) ==
    /\ stage = "up" /\ table[r] = "open" /\ r \notin accepted
    /\ accepted' = accepted \cup {r} /\ log' = log \cup {Round(r)}
    /\ UNCHANGED <<trouble, stage, table, files, start, room, crashes>>

\* The actor carries a command out; a later one restarts the debounce.
Change ==
    /\ stage = "up" /\ live < MaxChanges
    /\ live' = live + 1 /\ due' = live + 1
    /\ UNCHANGED <<trouble, stage, table, log, files, start, saved, contest, accepted, kept, crashes>>

SetTournament ==
    /\ stage = "up"
    /\ \E on \in BOOLEAN : contest' = [live |-> on, set |-> on]
    /\ due' = live
    /\ UNCHANGED <<trouble, stage, table, log, files, start, saved, live, accepted, kept, crashes>>

Snapshot ==
    /\ due # Nothing /\ (stage = "rooms" => "slow" \in trouble)
    /\ log' = log \cup {Snap(due)} /\ due' = Nothing
    /\ UNCHANGED <<trouble, stage, table, files, start, saved, live, contest, accepted, kept, crashes>>

\* The worker writes the snapshots of a room in the order of the log.
InTurn(e) == e \in Snaps => \A f \in log \cap Snaps : e[2] <= f[2]

\* One transaction, which also clears `aborted'; again, it has no effect.
CommitRound(r) == table' = [table EXCEPT ![r] = "done"] /\ UNCHANGED <<saved, kept>>

\* Nothing compares the snapshot with the one that is stored.
StoreSnapshot(v) == saved' = v /\ kept' = (IF v > kept THEN v ELSE kept) /\ UNCHANGED table

Write(e) ==
    /\ e \in log /\ InTurn(e)
    /\ log' = log \ {e}
    /\ IF e \in Completions THEN CommitRound(e[2]) ELSE StoreSnapshot(e[2])
    /\ UNCHANGED <<trouble, stage, files, start, live, due, contest, accepted, crashes>>

\* A bound: so many snapshots may be set aside at a time.
MaySetAside(e) == Cardinality(Snaps \cap (letters \cup parked \cup {e})) <= MaxLetters

\* Five attempts have failed.
Fails(e) ==
    /\ e \in log /\ InTurn(e)
    /\ e \in Snaps => "stale" \in trouble /\ MaySetAside(e)
    /\ e \in replayed => "twice" \in trouble

\* append_dead_letter does not look at what the file ends with: behind a torn line
\* a letter becomes part of it, which process_dlq_file will set aside as malformed.
Append(e) == letters' = (IF torn THEN letters ELSE letters \cup {e}) /\ torn' = FALSE

\* The event moves to the dead-letter file; it stays in the log too if syncing
\* the file fails, or a crash comes before the log is told.
GiveUp(e) ==
    /\ Fails(e) /\ Append(e)
    /\ log' \in {log \ {e}, log}
    /\ UNCHANGED <<trouble, stage, table, parked, start, room, accepted, crashes>>

Tear(e) ==
    /\ Fails(e) /\ "torn" \in trouble
    /\ torn' = TRUE
    /\ UNCHANGED <<trouble, stage, table, log, letters, parked, start, room, accepted, crashes>>

\* A crash, or a recovery that failed: what is in memory is lost.
Restart ==
    /\ stage' = "wal" /\ reading' = {} /\ replayed' = {} /\ refused' = {}
    /\ live' = 0 /\ due' = Nothing /\ contest' = [contest EXCEPT !.live = FALSE]
    /\ crashes' = crashes + 1
    /\ UNCHANGED <<trouble, table, log, files, saved, accepted, kept>>

Crash == crashes < MaxCrashes /\ Restart
-----------------------------------------------------------------------------
To(s) == stage' = s

(* Mutant: the log is not waited for. *)
WalDrained_Unasked ==
    /\ stage = "wal" /\ To("dlq")
    /\ UNCHANGED <<trouble, table, log, files, start, room, accepted, crashes>>

\* is_healthy: the log that was found has been written.
WalDrained ==
    /\ stage = "wal" /\ log = {} /\ To("dlq")
    /\ UNCHANGED <<trouble, table, log, files, start, room, accepted, crashes>>

\* Files that an earlier start left behind are read with the one renamed now.
Park ==
    /\ stage = "dlq"
    /\ parked' = parked \cup letters /\ letters' = {} /\ torn' = FALSE
    /\ reading' = parked \cup letters
    /\ To("read")
    /\ UNCHANGED <<trouble, table, log, replayed, refused, room, accepted, crashes>>

Enqueue(e) ==
    /\ stage = "read" /\ e \in reading
    /\ reading' = reading \ {e}
    /\ \/ log' = log \cup {e} /\ replayed' = replayed \cup {e} /\ UNCHANGED refused
       \/ refused' = refused \cup {e} /\ UNCHANGED <<log, replayed>>
    /\ UNCHANGED <<trouble, stage, table, files, room, accepted, crashes>>

(* Mutant: the files are deleted though an event was not admitted. *)
Flushed_Deletes ==
    /\ stage = "read" /\ reading = {}
    /\ replayed # {} => log = {}
    /\ parked' = {} /\ To("rounds")
    /\ UNCHANGED <<trouble, table, log, letters, torn, start, room, accepted, crashes>>

\* The files are deleted only when all of them has been admitted.
Kept == IF refused = {} THEN {} ELSE parked

\* Files are kept if anything in them was not admitted.
Flushed ==
    /\ stage = "read" /\ reading = {}
    /\ replayed # {} => log = {}
    /\ refused \cap Completions = {}
    /\ parked' = Kept
    /\ To("rounds")
    /\ UNCHANGED <<trouble, table, log, letters, torn, start, room, accepted, crashes>>

\* A completion that was not admitted ends the start.
Refuse ==
    /\ stage = "read" /\ reading = {} /\ refused \cap Completions # {}
    /\ crashes < MaxCrashes /\ Restart

\* abort_round: of a row that has no end.
AbortRound(r) == table[r] = "open" /\ table' = [table EXCEPT ![r] = "aborted"]

\* abort_unfinished_rounds
Abort(r) ==
    /\ stage = "rounds" /\ AbortRound(r)
    /\ UNCHANGED <<trouble, stage, log, files, start, room, accepted, crashes>>

\* restore_persistent_rooms: the room is made with the default settings, and
\* its actor is told what was stored.
MakeRoom ==
    /\ stage = "rounds" /\ \A r \in Rounds : table[r] # "open"
    /\ live' = 0 /\ due' = 0 /\ contest' = [contest EXCEPT !.live = FALSE] /\ To("rooms")
    /\ UNCHANGED <<trouble, table, log, files, start, saved, accepted, kept, crashes>>

(* Mutant: the room keeps the settings it was made with. *)
ApplySaved_Not ==
    /\ stage = "rooms" /\ To("up")
    /\ UNCHANGED <<trouble, table, log, files, start, room, accepted, crashes>>

\* get_latest_room_snapshot
LatestSnapshot == saved

ApplySaved ==
    /\ stage = "rooms"
    /\ live' = LatestSnapshot /\ due' = live' /\ To("up")
    /\ UNCHANGED <<trouble, table, log, files, start, saved, contest, accepted, kept, crashes>>

Next ==
    \/ \E r \in Rounds : Open(r) \/ Complete(r) \/ Abort(r)
    \/ Change \/ SetTournament \/ Snapshot
    \/ \E e \in Completions \cup Snaps : Write(e) \/ GiveUp(e) \/ Tear(e) \/ Enqueue(e)
    \/ Crash \/ WalDrained \/ Park \/ Flushed \/ Refuse \/ MakeRoom \/ ApplySaved

Spec == Init /\ [][Next]_vars
-----------------------------------------------------------------------------
(* A completion the log has admitted is somewhere from where it will be      *)
(* written, or is written, whatever fails and wherever a crash falls.        *)
NothingForgotten ==
    \A r \in accepted : Round(r) \in log \cup letters \cup parked \/ table[r] = "done"

(* The same, when no append to the dead-letter file stops in the middle.     *)
NothingForgottenIfCalm == "torn" \notin trouble => NothingForgotten

(* Recovery aborts rounds "only if truly unfinished" (recovery.rs, list of   *)
(* stages): one whose completion was admitted is never marked as aborted.    *)
AbortedOnlyUnfinished == \A r \in accepted : table[r] # "aborted"

(* The same, when also what start-up replays is not refused by the database  *)
(* again.                                                                    *)
AbortedOnlyUnfinishedIfCalm == trouble \cap {"twice", "torn"} = {} => AbortedOnlyUnfinished

(* A persistent room comes back with the newest lock, cycle, visibility,     *)
(* chart and host that were stored.                                          *)
RestoredAsStored == stage = "up" => live >= kept

(* The same, when no snapshot is overtaken and no default is due too early.  *)
RestoredAsStoredIfCalm == trouble \subseteq {"twice", "torn"} => RestoredAsStored

(* A room is in the tournament mode in which it was before: it is not, since *)
(* recovery leaves this setting alone.                                       *)
ModeRestored == stage = "up" => contest.live = contest.set
=============================================================================
