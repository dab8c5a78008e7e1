----------------------------- MODULE MCRecords -----------------------------
(***************************************************************************)
(* What the server records, one component at a time: the rounds it         *)
(* recovers, the telemetry, who was present and for how long, the hosted   *)
(* rooms, the bans, and where the players are. They share no variable      *)
(* here, so a behaviour is one of the component that `focus' names, while  *)
(* the others stay where they began.                                       *)
(***************************************************************************)
EXTENDS Naturals

CONSTANTS Rounds, MaxChanges, MaxItems, QueueSize, OverflowSize, BatchSize,
          MaxRetries, MaxFlushes, MaxSessions, MaxTime, Players, NoOne,
          Charts, MaxMade, MaxTells, Admins, Entries, Banned, MaxCommands,
          Admin, Ids, MaxRooms, RecoveryCrashes, PresenceCrashes,
          ModerationCrashes, MaxLetters

\* The sets of troubles the components may start with.
CONSTANTS RecoveryTroubles, PresenceTroubles, ManagedTroubles,
          ModerationTroubles, DirectoryTroubles

VARIABLES focus

\* Recovery
VARIABLES recoveryTrouble, stage, table, log, letters, torn, parked,
          reading, replayed, refused, saved, live, due, contest, accepted,
          kept, crashes
recoveryVars == <<recoveryTrouble, stage, table, log, letters, torn,
                  parked, reading, replayed, refused, saved, live, due,
                  contest, accepted, kept, crashes>>
Recovery == INSTANCE Recovery WITH
            MaxCrashes <- RecoveryCrashes, Troubles <- RecoveryTroubles,
            trouble <- recoveryTrouble

\* HighFrequency
VARIABLES admission, telemetryAccepted, main, overflow, batch, committed,
          dropped, copies, gate, closed, shut, shutLate, verdict, worker,
          flight, flush, gone
telemetryVars == <<admission, telemetryAccepted, main, overflow, batch,
                   committed, dropped, copies, gate, closed, shut, shutLate,
                   verdict, worker, flight, flush, gone>>
Telemetry == INSTANCE HighFrequency WITH
            accepted <- telemetryAccepted

\* Presence
VARIABLES presenceTrouble, clock, up, inst, alive, session, linked, losing,
          waits, made, inroom, entered, presenceDue, presenceLog,
          presenceLetters, total, row, visits, logins, left, lived, played,
          parted
presenceVars == <<presenceTrouble, clock, up, inst, alive, session, linked,
                  losing, waits, made, inroom, entered, presenceDue,
                  presenceLog, presenceLetters, total, row, visits, logins,
                  left, lived, played, parted>>
Presence == INSTANCE Presence WITH
            MaxCrashes <- PresenceCrashes, Troubles <- PresenceTroubles,
            trouble <- presenceTrouble, due <- presenceDue,
            log <- presenceLog, letters <- presenceLetters

\* ManagedRooms
VARIABLES managedTrouble, def, managedLive, managedRow, op, patch, tells,
          advance, timers, managedMade, told
managedVars == <<managedTrouble, def, managedLive, managedRow, op, patch,
                 tells, advance, timers, managedMade, told>>
Managed == INSTANCE ManagedRooms WITH
            Users <- Players, Troubles <- ManagedTroubles,
            trouble <- managedTrouble, live <- managedLive,
            row <- managedRow, made <- managedMade

\* Moderation
VARIABLES moderationTrouble, kind, moderationUp, list, banned, file, writers,
          command, moderationTold, client, commands, moderationCrashes
moderationVars == <<moderationTrouble, kind, moderationUp, list, banned, file,
                    writers, command, moderationTold, client, commands,
                    moderationCrashes>>
Moderation == INSTANCE Moderation WITH
            User <- Banned, MaxCrashes <- ModerationCrashes,
            Troubles <- ModerationTroubles,
            trouble <- moderationTrouble, up <- moderationUp,
            told <- moderationTold, crashes <- moderationCrashes

\* RoomDirectory
VARIABLES directoryTrouble, rooms, idOf, members, users, at, mailbox, stopped,
          directoryOp
directoryVars == <<directoryTrouble, rooms, idOf, members, users, at, mailbox,
                   stopped, directoryOp>>
Directory == INSTANCE RoomDirectory WITH
            Users <- Players, Troubles <- DirectoryTroubles,
            trouble <- directoryTrouble, op <- directoryOp

vars == <<focus, recoveryVars, telemetryVars, presenceVars, managedVars,
          moderationVars, directoryVars>>

\* A component that is not in focus is in one of its initial states.
Init ==
    /\ focus \in {"recovery", "telemetry", "presence", "managed",
                  "moderation", "directory"}
    /\ Recovery!Init /\ (focus # "recovery" => recoveryTrouble = {})
    /\ Telemetry!Init
    /\ Presence!Init /\ (focus # "presence" => presenceTrouble = {})
    /\ Managed!Init /\ (focus # "managed" => managedTrouble = {})
    /\ Moderation!Init /\ (focus # "moderation" => moderationTrouble = {} /\ kind = "ip")
    /\ Directory!Init /\ (focus # "directory" => directoryTrouble = {})

OfRecovery ==
    /\ focus = "recovery" /\ Recovery!Next
    /\ UNCHANGED <<focus, telemetryVars, presenceVars, managedVars,
                   moderationVars, directoryVars>>
OfTelemetry ==
    /\ focus = "telemetry" /\ Telemetry!Next
    /\ UNCHANGED <<focus, recoveryVars, presenceVars, managedVars,
                   moderationVars, directoryVars>>
OfPresence ==
    /\ focus = "presence" /\ Presence!Next
    /\ UNCHANGED <<focus, recoveryVars, telemetryVars, managedVars,
                   moderationVars, directoryVars>>
OfManaged ==
    /\ focus = "managed" /\ Managed!Next
    /\ UNCHANGED <<focus, recoveryVars, telemetryVars, presenceVars,
                   moderationVars, directoryVars>>
OfModeration ==
    /\ focus = "moderation" /\ Moderation!Next
    /\ UNCHANGED <<focus, recoveryVars, telemetryVars, presenceVars,
                   managedVars, directoryVars>>
OfDirectory ==
    /\ focus = "directory" /\ Directory!Next
    /\ UNCHANGED <<focus, recoveryVars, telemetryVars, presenceVars,
                   managedVars, moderationVars>>

Next == OfRecovery \/ OfTelemetry \/ OfPresence \/ OfManaged \/ OfModeration \/ OfDirectory

Spec == Init /\ [][Next]_vars
-----------------------------------------------------------------------------
(* The completion of a round that the log has admitted is not forgotten over *)
(* crashes and failures; a round is aborted at start-up only if it was not   *)
(* finished, and a room gets back what was stored of its lock, cycle,        *)
(* visibility, chart and host, each unless one of the troubles of Recovery   *)
(* that it names strikes (server/recovery.rs).                               *)
RecoveryIfCalm ==
    /\ Recovery!NothingForgottenIfCalm
    /\ Recovery!AbortedOnlyUnfinishedIfCalm
    /\ Recovery!RestoredAsStoredIfCalm

(* A flush or a shutdown that reports success has stored what it stands for, *)
(* one that reports a loss has accounted for each item, and a write that is  *)
(* tried again stores nothing twice (high_frequency/writer.rs, postgres.rs). *)
TelemetryIsTrue == Telemetry!ReportsAreTrue /\ Telemetry!StoredOnce

(* When nothing waits to be written, the tables have the session that there  *)
(* is, every login and the last time the user was taken to be lost, and the  *)
(* play time is never more than what was spent online and in rooms           *)
(* (persistence/users.rs), unless a trouble of Presence strikes.             *)
PresenceIfCalm == Presence!PresenceSettlesIfCalm /\ Presence!TimeIsLivedIfCalm

(* The map, the table and the live room of a hosted room agree whenever      *)
(* nothing is under way, but for a chart that the host has chosen            *)
(* (managed_rooms_runtime.rs).                                               *)
ManagedAgreeIfCalm == Managed!AgreeIfCalm

(* What an administrator was told of a ban holds, and a banned user is out   *)
(* (ban.rs, extensions.rs).                                                  *)
ModerationIfCalm == Moderation!AnswersHoldIfCalm /\ Moderation!BannedIsOutIfCalm

(* Pointer, registry and actors agree on the room of a player at rest, and   *)
(* he is in one room at most (session_room.rs, server/rooms.rs).             *)
DirectoryIfCalm == Directory!PlacesAgreeIfCalm /\ Directory!OneRoomIfApart
=============================================================================
