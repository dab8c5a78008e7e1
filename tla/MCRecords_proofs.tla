--------------------------- MODULE MCRecords_proofs ---------------------------
(***************************************************************************)
(* The components of the composite change only by their own steps, so an   *)
(* invariant of a component is one of the composite.  The places of the    *)
(* players are proved about in RoomDirectory_proofs; the definitions and   *)
(* lemmas about the recovery, the telemetry, the presence, the hosted      *)
(* rooms and the moderation are here, and begin with the component's name. *)
(***************************************************************************)
EXTENDS MCRecords, SequenceTheorems, FiniteSetTheorems, WellFoundedInduction, TLAPS

-----------------------------------------------------------------------------
(***************************************************************************)
(* The recovery.                                                           *)
(***************************************************************************)
\* Where an event may be found.
RecoveryTypes ==
    /\ stage \in {"wal", "dlq", "read", "rounds", "rooms", "up"}
    /\ table \in [Rounds -> {"none", "open", "done", "aborted"}]
    /\ \A S \in {log, letters, parked, reading, replayed, refused} : S \subseteq Recovery!Completions \cup Recovery!Snaps
    /\ {saved, live, kept} \subseteq 0..MaxChanges
    /\ due \in 0..MaxChanges \cup {Recovery!Nothing}
    /\ accepted \subseteq Rounds
    /\ torn => "torn" \in recoveryTrouble

\* What was put aside and has not been enqueued again is still to be read, or
\* was refused, or has been written since, if no letter is torn.
RecoveryParkedIsKept ==
    "torn" \notin recoveryTrouble /\ stage = "read" => \A r \in accepted :
        Recovery!Round(r) \in parked => \/ Recovery!Round(r) \in reading \cup refused \cup log \cup letters
                               \/ table[r] = "done"

\* The completions of unfinished rounds, when nothing fails twice or is torn: the log has
\* none of them before the files are read, the new dead letters have none
\* while they are, and none is left when rounds are aborted.
RecoveryInStages ==
    recoveryTrouble \cap {"twice", "torn"} = {} =>
        /\ stage = "dlq" => log \cap Recovery!Completions = {}
        /\ stage = "read" => /\ log \cap Recovery!Completions \subseteq replayed
                             /\ letters \cap Recovery!Completions = {}
        /\ stage = "rounds" => \A r \in accepted : table[r] = "done"

\* Snapshots are stored in the order they were made, and the settings of the
\* live room are never older than one that is on its way.
RecoverySnapshotsInOrder ==
    recoveryTrouble \subseteq {"twice", "torn"} =>
        /\ saved = kept
        /\ (letters \cup parked \cup reading) \cap Recovery!Snaps = {}
        /\ \A v \in 0..MaxChanges : Recovery!Snap(v) \in log =>
              /\ saved <= v
              /\ stage \in {"wal", "up"}
              /\ stage = "up" => v <= live /\ (due # Recovery!Nothing => v <= due)
        /\ stage = "up" => saved <= live /\ (due # Recovery!Nothing => due = live)
        /\ stage \notin {"up", "rooms"} => due = Recovery!Nothing

RecoveryIInv ==
    /\ RecoveryTypes /\ Recovery!NothingForgottenIfCalm /\ RecoveryParkedIsKept /\ RecoveryInStages
    /\ Recovery!AbortedOnlyUnfinishedIfCalm /\ RecoverySnapshotsInOrder

-----------------------------------------------------------------------------
(* The two kinds of event do not meet, and an event says what it is about. *)
LEMMA RecoveryEvents ==
    /\ \A r, q : Recovery!Round(r) = Recovery!Round(q) => r = q
    /\ \A v, w : Recovery!Snap(v) = Recovery!Snap(w) => v = w
    /\ \A r, v : Recovery!Round(r) # Recovery!Snap(v)
    /\ \A r : Recovery!Round(r)[2] = r
    /\ \A v : Recovery!Snap(v)[2] = v
  BY DEF Recovery!Round, Recovery!Snap

(* A server that starts for the first time has nothing to recover. *)
LEMMA RecoveryInitInv == ASSUME MaxChanges \in Nat, Recovery!Init PROVE RecoveryIInv
  BY DEF Recovery!Init, RecoveryIInv, RecoveryTypes, Recovery!Nothing,
         Recovery!NothingForgottenIfCalm,
           Recovery!NothingForgotten, RecoveryParkedIsKept, RecoveryInStages,
         Recovery!AbortedOnlyUnfinishedIfCalm, Recovery!AbortedOnlyUnfinished,
         RecoverySnapshotsInOrder

(* Every step keeps the types. *)
LEMMA RecoveryTypesKept ==
  ASSUME MaxChanges \in Nat, RecoveryIInv, [Recovery!Next]_(Recovery!vars)
  PROVE  RecoveryTypes'
  <1> USE RecoveryEvents DEF Recovery!files, Recovery!start, Recovery!room, RecoveryIInv
  <1>1. ASSUME NEW r \in Rounds, Recovery!Open(r) PROVE RecoveryTypes'
    BY <1>1 DEF Recovery!Open, RecoveryTypes, Recovery!Completions, Recovery!Snaps,
           Recovery!Nothing
  <1>2. ASSUME NEW r \in Rounds, Recovery!Complete(r) PROVE RecoveryTypes'
    BY <1>2 DEF Recovery!Complete, RecoveryTypes, Recovery!Completions, Recovery!Snaps,
           Recovery!Nothing
  <1>3. ASSUME NEW r \in Rounds, Recovery!Abort(r) PROVE RecoveryTypes'
    BY <1>3 DEF Recovery!Abort, RecoveryTypes, Recovery!Completions, Recovery!Snaps,
           Recovery!Nothing, Recovery!AbortRound
  <1>4. ASSUME Recovery!Change PROVE RecoveryTypes'
    BY <1>4 DEF Recovery!Change, RecoveryTypes, Recovery!Completions, Recovery!Snaps,
           Recovery!Nothing
  <1>5. ASSUME Recovery!Snapshot PROVE RecoveryTypes'
    BY <1>5 DEF Recovery!Snapshot, RecoveryTypes, Recovery!Completions, Recovery!Snaps,
           Recovery!Nothing
  <1>6. ASSUME NEW e \in Recovery!Completions \cup Recovery!Snaps, Recovery!Write(e)
        PROVE  RecoveryTypes'
    BY <1>6 DEF Recovery!Write, RecoveryTypes, Recovery!Completions, Recovery!Snaps,
           Recovery!Nothing, Recovery!CommitRound, Recovery!StoreSnapshot
  <1>7. ASSUME NEW e \in Recovery!Completions \cup Recovery!Snaps, Recovery!GiveUp(e)
        PROVE  RecoveryTypes'
    BY <1>7 DEF Recovery!GiveUp, Recovery!Fails, Recovery!Append, RecoveryTypes, Recovery!Completions, Recovery!Snaps,
           Recovery!Nothing
  <1>8. ASSUME NEW e \in Recovery!Completions \cup Recovery!Snaps, Recovery!Enqueue(e)
        PROVE  RecoveryTypes'
    BY <1>8 DEF Recovery!Enqueue, RecoveryTypes, Recovery!Completions, Recovery!Snaps,
           Recovery!Nothing
  <1>9. ASSUME Recovery!Restart PROVE RecoveryTypes'
    BY <1>9 DEF Recovery!Restart, RecoveryTypes, Recovery!Completions, Recovery!Snaps,
           Recovery!Nothing
  <1>10. ASSUME Recovery!WalDrained PROVE RecoveryTypes'
    BY <1>10 DEF Recovery!WalDrained, RecoveryTypes, Recovery!Completions, Recovery!Snaps,
           Recovery!Nothing, Recovery!To
  <1>11. ASSUME Recovery!Park PROVE RecoveryTypes'
    BY <1>11 DEF Recovery!Park, RecoveryTypes, Recovery!Completions, Recovery!Snaps,
           Recovery!Nothing, Recovery!To
  <1>12. ASSUME Recovery!Flushed PROVE RecoveryTypes'
    BY <1>12 DEF Recovery!Flushed, RecoveryTypes, Recovery!Completions, Recovery!Snaps,
           Recovery!Nothing, Recovery!To, Recovery!Kept
  <1>13. ASSUME Recovery!MakeRoom PROVE RecoveryTypes'
    BY <1>13 DEF Recovery!MakeRoom, RecoveryTypes, Recovery!Completions, Recovery!Snaps,
           Recovery!Nothing, Recovery!To
  <1>14. ASSUME Recovery!ApplySaved PROVE RecoveryTypes'
    BY <1>14 DEF Recovery!ApplySaved, RecoveryTypes, Recovery!Completions, Recovery!Snaps,
           Recovery!Nothing, Recovery!To, Recovery!LatestSnapshot
  <1>15. CASE UNCHANGED Recovery!vars
    BY <1>15 DEF Recovery!vars, RecoveryTypes, Recovery!Completions, Recovery!Snaps,
           Recovery!Nothing
  <1>16. ASSUME Recovery!SetTournament PROVE RecoveryTypes'
    BY <1>16 DEF Recovery!SetTournament, RecoveryTypes, Recovery!Completions, Recovery!Snaps,
           Recovery!Nothing
  <1>17. ASSUME NEW e \in Recovery!Completions \cup Recovery!Snaps, Recovery!Tear(e)
        PROVE  RecoveryTypes'
    BY <1>17 DEF Recovery!Tear, Recovery!Fails, RecoveryTypes, Recovery!Completions, Recovery!Snaps,
           Recovery!Nothing
  <1> QED BY <1>1, <1>2, <1>3, <1>4, <1>5, <1>6, <1>7, <1>8, <1>9, <1>10, <1>11, <1>12, <1>13,
             <1>14, <1>15, <1>16, <1>17 DEF Recovery!Next, Recovery!Crash, Recovery!Refuse

(* No step forgets an admitted completion. *)
LEMMA RecoveryForgottenKept ==
  ASSUME MaxChanges \in Nat, RecoveryIInv, [Recovery!Next]_(Recovery!vars)
  PROVE  Recovery!NothingForgottenIfCalm'
  <1> USE RecoveryEvents DEF Recovery!files, Recovery!start, Recovery!room, RecoveryIInv
  <1>1. ASSUME NEW r \in Rounds, Recovery!Open(r) PROVE Recovery!NothingForgottenIfCalm'
    BY <1>1 DEF Recovery!Open, RecoveryTypes, Recovery!NothingForgottenIfCalm,
           Recovery!NothingForgotten
  <1>2. ASSUME NEW r \in Rounds, Recovery!Complete(r) PROVE Recovery!NothingForgottenIfCalm'
    BY <1>2 DEF Recovery!Complete, RecoveryTypes, Recovery!NothingForgottenIfCalm,
           Recovery!NothingForgotten
  <1>3. ASSUME NEW r \in Rounds, Recovery!Abort(r) PROVE Recovery!NothingForgottenIfCalm'
    BY <1>3 DEF Recovery!Abort, RecoveryTypes, Recovery!NothingForgottenIfCalm,
           Recovery!NothingForgotten, Recovery!AbortRound
  <1>4. ASSUME Recovery!Change PROVE Recovery!NothingForgottenIfCalm'
    BY <1>4 DEF Recovery!Change, RecoveryTypes, Recovery!NothingForgottenIfCalm,
           Recovery!NothingForgotten
  <1>5. ASSUME Recovery!Snapshot PROVE Recovery!NothingForgottenIfCalm'
    BY <1>5 DEF Recovery!Snapshot, RecoveryTypes, Recovery!NothingForgottenIfCalm,
           Recovery!NothingForgotten
  <1>6. ASSUME NEW e \in Recovery!Completions \cup Recovery!Snaps, Recovery!Write(e)
        PROVE  Recovery!NothingForgottenIfCalm'
    BY <1>6 DEF Recovery!Write, RecoveryTypes, Recovery!NothingForgottenIfCalm,
           Recovery!NothingForgotten, Recovery!CommitRound,
           Recovery!StoreSnapshot, Recovery!Completions, Recovery!Snaps
  <1>7. ASSUME NEW e \in Recovery!Completions \cup Recovery!Snaps, Recovery!GiveUp(e)
        PROVE  Recovery!NothingForgottenIfCalm'
    BY <1>7 DEF Recovery!GiveUp, Recovery!Fails, Recovery!Append, RecoveryTypes, Recovery!NothingForgottenIfCalm,
           Recovery!NothingForgotten
  <1>8. ASSUME NEW e \in Recovery!Completions \cup Recovery!Snaps, Recovery!Enqueue(e)
        PROVE  Recovery!NothingForgottenIfCalm'
    BY <1>8 DEF Recovery!Enqueue, RecoveryTypes, Recovery!NothingForgottenIfCalm,
           Recovery!NothingForgotten
  <1>9. ASSUME Recovery!Restart PROVE Recovery!NothingForgottenIfCalm'
    BY <1>9 DEF Recovery!Restart, RecoveryTypes, Recovery!NothingForgottenIfCalm,
           Recovery!NothingForgotten
  <1>10. ASSUME Recovery!WalDrained PROVE Recovery!NothingForgottenIfCalm'
    BY <1>10 DEF Recovery!WalDrained, RecoveryTypes, Recovery!NothingForgottenIfCalm,
           Recovery!NothingForgotten, Recovery!To
  <1>11. ASSUME Recovery!Park PROVE Recovery!NothingForgottenIfCalm'
    BY <1>11 DEF Recovery!Park, RecoveryTypes, Recovery!NothingForgottenIfCalm,
           Recovery!NothingForgotten, Recovery!To
  <1>12. ASSUME Recovery!Flushed PROVE Recovery!NothingForgottenIfCalm'
    BY <1>12 DEF Recovery!Flushed, RecoveryTypes, Recovery!NothingForgottenIfCalm,
           Recovery!NothingForgotten, Recovery!To,
           Recovery!Kept, RecoveryParkedIsKept
  <1>13. ASSUME Recovery!MakeRoom PROVE Recovery!NothingForgottenIfCalm'
    BY <1>13 DEF Recovery!MakeRoom, RecoveryTypes, Recovery!NothingForgottenIfCalm,
           Recovery!NothingForgotten, Recovery!To
  <1>14. ASSUME Recovery!ApplySaved PROVE Recovery!NothingForgottenIfCalm'
    BY <1>14 DEF Recovery!ApplySaved, RecoveryTypes, Recovery!NothingForgottenIfCalm,
           Recovery!NothingForgotten, Recovery!To
  <1>15. CASE UNCHANGED Recovery!vars
    BY <1>15 DEF Recovery!vars, RecoveryTypes, Recovery!NothingForgottenIfCalm,
           Recovery!NothingForgotten
  <1>16. ASSUME Recovery!SetTournament PROVE Recovery!NothingForgottenIfCalm'
    BY <1>16 DEF Recovery!SetTournament, RecoveryTypes, Recovery!NothingForgottenIfCalm,
           Recovery!NothingForgotten
  <1>17. ASSUME NEW e \in Recovery!Completions \cup Recovery!Snaps, Recovery!Tear(e)
        PROVE  Recovery!NothingForgottenIfCalm'
    BY <1>17 DEF Recovery!Tear, Recovery!Fails, RecoveryTypes, Recovery!NothingForgottenIfCalm,
           Recovery!NothingForgotten
  <1> QED BY <1>1, <1>2, <1>3, <1>4, <1>5, <1>6, <1>7, <1>8, <1>9, <1>10, <1>11, <1>12, <1>13,
             <1>14, <1>15, <1>16, <1>17 DEF Recovery!Next, Recovery!Crash, Recovery!Refuse

(* What is put aside is read, unless it is written first. *)
LEMMA RecoveryParkedKept ==
  ASSUME MaxChanges \in Nat, RecoveryIInv, [Recovery!Next]_(Recovery!vars)
  PROVE  RecoveryParkedIsKept'
  <1> USE RecoveryEvents DEF Recovery!files, Recovery!start, Recovery!room, RecoveryIInv
  <1>1. ASSUME NEW r \in Rounds, Recovery!Open(r) PROVE RecoveryParkedIsKept'
    BY <1>1 DEF Recovery!Open, RecoveryTypes, RecoveryParkedIsKept
  <1>2. ASSUME NEW r \in Rounds, Recovery!Complete(r) PROVE RecoveryParkedIsKept'
    BY <1>2 DEF Recovery!Complete, RecoveryTypes, RecoveryParkedIsKept
  <1>3. ASSUME NEW r \in Rounds, Recovery!Abort(r) PROVE RecoveryParkedIsKept'
    BY <1>3 DEF Recovery!Abort, RecoveryTypes, RecoveryParkedIsKept, Recovery!AbortRound
  <1>4. ASSUME Recovery!Change PROVE RecoveryParkedIsKept'
    BY <1>4 DEF Recovery!Change, RecoveryTypes, RecoveryParkedIsKept
  <1>5. ASSUME Recovery!Snapshot PROVE RecoveryParkedIsKept'
    BY <1>5 DEF Recovery!Snapshot, RecoveryTypes, RecoveryParkedIsKept
  <1>6. ASSUME NEW e \in Recovery!Completions \cup Recovery!Snaps, Recovery!Write(e)
        PROVE  RecoveryParkedIsKept'
    BY <1>6 DEF Recovery!Write, RecoveryTypes, RecoveryParkedIsKept, Recovery!CommitRound,
           Recovery!StoreSnapshot, Recovery!Completions, Recovery!Snaps
  <1>7. ASSUME NEW e \in Recovery!Completions \cup Recovery!Snaps, Recovery!GiveUp(e)
        PROVE  RecoveryParkedIsKept'
    BY <1>7 DEF Recovery!GiveUp, Recovery!Fails, Recovery!Append, RecoveryTypes, RecoveryParkedIsKept
  <1>8. ASSUME NEW e \in Recovery!Completions \cup Recovery!Snaps, Recovery!Enqueue(e)
        PROVE  RecoveryParkedIsKept'
    BY <1>8 DEF Recovery!Enqueue, RecoveryTypes, RecoveryParkedIsKept
  <1>9. ASSUME Recovery!Restart PROVE RecoveryParkedIsKept'
    BY <1>9 DEF Recovery!Restart, RecoveryTypes, RecoveryParkedIsKept
  <1>10. ASSUME Recovery!WalDrained PROVE RecoveryParkedIsKept'
    BY <1>10 DEF Recovery!WalDrained, RecoveryTypes, RecoveryParkedIsKept, Recovery!To
  <1>11. ASSUME Recovery!Park PROVE RecoveryParkedIsKept'
    BY <1>11 DEF Recovery!Park, RecoveryTypes, RecoveryParkedIsKept, Recovery!To
  <1>12. ASSUME Recovery!Flushed PROVE RecoveryParkedIsKept'
    BY <1>12 DEF Recovery!Flushed, RecoveryTypes, RecoveryParkedIsKept, Recovery!To
  <1>13. ASSUME Recovery!MakeRoom PROVE RecoveryParkedIsKept'
    BY <1>13 DEF Recovery!MakeRoom, RecoveryTypes, RecoveryParkedIsKept, Recovery!To
  <1>14. ASSUME Recovery!ApplySaved PROVE RecoveryParkedIsKept'
    BY <1>14 DEF Recovery!ApplySaved, RecoveryTypes, RecoveryParkedIsKept, Recovery!To
  <1>15. CASE UNCHANGED Recovery!vars
    BY <1>15 DEF Recovery!vars, RecoveryTypes, RecoveryParkedIsKept
  <1>16. ASSUME Recovery!SetTournament PROVE RecoveryParkedIsKept'
    BY <1>16 DEF Recovery!SetTournament, RecoveryTypes, RecoveryParkedIsKept
  <1>17. ASSUME NEW e \in Recovery!Completions \cup Recovery!Snaps, Recovery!Tear(e)
        PROVE  RecoveryParkedIsKept'
    BY <1>17 DEF Recovery!Tear, Recovery!Fails, RecoveryTypes, RecoveryParkedIsKept
  <1> QED BY <1>1, <1>2, <1>3, <1>4, <1>5, <1>6, <1>7, <1>8, <1>9, <1>10, <1>11, <1>12, <1>13,
             <1>14, <1>15, <1>16, <1>17 DEF Recovery!Next, Recovery!Crash, Recovery!Refuse

(* Each stage leaves to the next what that one relies on. *)
LEMMA RecoveryStagesKept ==
  ASSUME MaxChanges \in Nat, RecoveryIInv, [Recovery!Next]_(Recovery!vars)
  PROVE  RecoveryInStages'
  <1> USE RecoveryEvents DEF Recovery!files, Recovery!start, Recovery!room, RecoveryIInv
  <1>1. ASSUME NEW r \in Rounds, Recovery!Open(r) PROVE RecoveryInStages'
    BY <1>1 DEF Recovery!Open, RecoveryTypes, RecoveryInStages
  <1>2. ASSUME NEW r \in Rounds, Recovery!Complete(r) PROVE RecoveryInStages'
    BY <1>2 DEF Recovery!Complete, RecoveryTypes, RecoveryInStages
  <1>3. ASSUME NEW r \in Rounds, Recovery!Abort(r) PROVE RecoveryInStages'
    BY <1>3 DEF Recovery!Abort, RecoveryTypes, RecoveryInStages, Recovery!AbortRound
  <1>4. ASSUME Recovery!Change PROVE RecoveryInStages'
    BY <1>4 DEF Recovery!Change, RecoveryTypes, RecoveryInStages
  <1>5. ASSUME Recovery!Snapshot PROVE RecoveryInStages'
    BY <1>5 DEF Recovery!Snapshot, RecoveryTypes, RecoveryInStages, Recovery!Completions,
           Recovery!Snaps
  <1>6. ASSUME NEW e \in Recovery!Completions \cup Recovery!Snaps, Recovery!Write(e)
        PROVE  RecoveryInStages'
    BY <1>6 DEF Recovery!Write, RecoveryTypes, RecoveryInStages, Recovery!CommitRound,
           Recovery!StoreSnapshot, Recovery!Completions, Recovery!Snaps
  <1>7. ASSUME NEW e \in Recovery!Completions \cup Recovery!Snaps, Recovery!GiveUp(e)
        PROVE  RecoveryInStages'
    BY <1>7 DEF Recovery!GiveUp, Recovery!Fails, Recovery!Append, RecoveryTypes, RecoveryInStages
  <1>8. ASSUME NEW e \in Recovery!Completions \cup Recovery!Snaps, Recovery!Enqueue(e)
        PROVE  RecoveryInStages'
    BY <1>8 DEF Recovery!Enqueue, RecoveryTypes, RecoveryInStages
  <1>9. ASSUME Recovery!Restart PROVE RecoveryInStages'
    BY <1>9 DEF Recovery!Restart, RecoveryTypes, RecoveryInStages
  <1>10. ASSUME Recovery!WalDrained PROVE RecoveryInStages'
    BY <1>10 DEF Recovery!WalDrained, RecoveryTypes, RecoveryInStages, Recovery!To
  <1>11. ASSUME Recovery!Park PROVE RecoveryInStages'
    BY <1>11 DEF Recovery!Park, RecoveryTypes, RecoveryInStages, Recovery!To
  <1>12. ASSUME Recovery!Flushed PROVE RecoveryInStages'
    BY <1>12 DEF Recovery!Flushed, RecoveryTypes, RecoveryInStages, Recovery!To,
           Recovery!NothingForgottenIfCalm,
           Recovery!NothingForgotten, RecoveryParkedIsKept, Recovery!Completions
  <1>13. ASSUME Recovery!MakeRoom PROVE RecoveryInStages'
    BY <1>13 DEF Recovery!MakeRoom, RecoveryTypes, RecoveryInStages, Recovery!To
  <1>14. ASSUME Recovery!ApplySaved PROVE RecoveryInStages'
    BY <1>14 DEF Recovery!ApplySaved, RecoveryTypes, RecoveryInStages, Recovery!To
  <1>15. CASE UNCHANGED Recovery!vars
    BY <1>15 DEF Recovery!vars, RecoveryTypes, RecoveryInStages
  <1>16. ASSUME Recovery!SetTournament PROVE RecoveryInStages'
    BY <1>16 DEF Recovery!SetTournament, RecoveryTypes, RecoveryInStages
  <1>17. ASSUME NEW e \in Recovery!Completions \cup Recovery!Snaps, Recovery!Tear(e)
        PROVE  RecoveryInStages'
    BY <1>17 DEF Recovery!Tear, Recovery!Fails, RecoveryTypes, RecoveryInStages
  <1> QED BY <1>1, <1>2, <1>3, <1>4, <1>5, <1>6, <1>7, <1>8, <1>9, <1>10, <1>11, <1>12, <1>13,
             <1>14, <1>15, <1>16, <1>17 DEF Recovery!Next, Recovery!Crash, Recovery!Refuse

(* No step aborts a round whose completion was admitted. *)
LEMMA RecoveryAbortedKept ==
  ASSUME MaxChanges \in Nat, RecoveryIInv, [Recovery!Next]_(Recovery!vars)
  PROVE  Recovery!AbortedOnlyUnfinishedIfCalm'
  <1> USE RecoveryEvents DEF Recovery!files, Recovery!start, Recovery!room, RecoveryIInv
  <1>1. ASSUME NEW r \in Rounds, Recovery!Open(r) PROVE Recovery!AbortedOnlyUnfinishedIfCalm'
    BY <1>1 DEF Recovery!Open, RecoveryTypes, Recovery!AbortedOnlyUnfinishedIfCalm,
           Recovery!AbortedOnlyUnfinished
  <1>2. ASSUME NEW r \in Rounds, Recovery!Complete(r)
        PROVE  Recovery!AbortedOnlyUnfinishedIfCalm'
    BY <1>2 DEF Recovery!Complete, RecoveryTypes, Recovery!AbortedOnlyUnfinishedIfCalm,
           Recovery!AbortedOnlyUnfinished
  <1>3. ASSUME NEW r \in Rounds, Recovery!Abort(r) PROVE Recovery!AbortedOnlyUnfinishedIfCalm'
    BY <1>3 DEF Recovery!Abort, RecoveryTypes, Recovery!AbortedOnlyUnfinishedIfCalm,
           Recovery!AbortedOnlyUnfinished, Recovery!AbortRound, RecoveryInStages
  <1>4. ASSUME Recovery!Change PROVE Recovery!AbortedOnlyUnfinishedIfCalm'
    BY <1>4 DEF Recovery!Change, RecoveryTypes, Recovery!AbortedOnlyUnfinishedIfCalm,
           Recovery!AbortedOnlyUnfinished
  <1>5. ASSUME Recovery!Snapshot PROVE Recovery!AbortedOnlyUnfinishedIfCalm'
    BY <1>5 DEF Recovery!Snapshot, RecoveryTypes, Recovery!AbortedOnlyUnfinishedIfCalm,
           Recovery!AbortedOnlyUnfinished
  <1>6. ASSUME NEW e \in Recovery!Completions \cup Recovery!Snaps, Recovery!Write(e)
        PROVE  Recovery!AbortedOnlyUnfinishedIfCalm'
    BY <1>6 DEF Recovery!Write, RecoveryTypes, Recovery!AbortedOnlyUnfinishedIfCalm,
           Recovery!AbortedOnlyUnfinished, Recovery!CommitRound, Recovery!StoreSnapshot,
           Recovery!Completions, Recovery!Snaps
  <1>7. ASSUME NEW e \in Recovery!Completions \cup Recovery!Snaps, Recovery!GiveUp(e)
        PROVE  Recovery!AbortedOnlyUnfinishedIfCalm'
    BY <1>7 DEF Recovery!GiveUp, Recovery!Fails, Recovery!Append, RecoveryTypes, Recovery!AbortedOnlyUnfinishedIfCalm,
           Recovery!AbortedOnlyUnfinished
  <1>8. ASSUME NEW e \in Recovery!Completions \cup Recovery!Snaps, Recovery!Enqueue(e)
        PROVE  Recovery!AbortedOnlyUnfinishedIfCalm'
    BY <1>8 DEF Recovery!Enqueue, RecoveryTypes, Recovery!AbortedOnlyUnfinishedIfCalm,
           Recovery!AbortedOnlyUnfinished
  <1>9. ASSUME Recovery!Restart PROVE Recovery!AbortedOnlyUnfinishedIfCalm'
    BY <1>9 DEF Recovery!Restart, RecoveryTypes, Recovery!AbortedOnlyUnfinishedIfCalm,
           Recovery!AbortedOnlyUnfinished
  <1>10. ASSUME Recovery!WalDrained PROVE Recovery!AbortedOnlyUnfinishedIfCalm'
    BY <1>10 DEF Recovery!WalDrained, RecoveryTypes, Recovery!AbortedOnlyUnfinishedIfCalm,
           Recovery!AbortedOnlyUnfinished, Recovery!To
  <1>11. ASSUME Recovery!Park PROVE Recovery!AbortedOnlyUnfinishedIfCalm'
    BY <1>11 DEF Recovery!Park, RecoveryTypes, Recovery!AbortedOnlyUnfinishedIfCalm,
           Recovery!AbortedOnlyUnfinished, Recovery!To
  <1>12. ASSUME Recovery!Flushed PROVE Recovery!AbortedOnlyUnfinishedIfCalm'
    BY <1>12 DEF Recovery!Flushed, RecoveryTypes, Recovery!AbortedOnlyUnfinishedIfCalm,
           Recovery!AbortedOnlyUnfinished, Recovery!To
  <1>13. ASSUME Recovery!MakeRoom PROVE Recovery!AbortedOnlyUnfinishedIfCalm'
    BY <1>13 DEF Recovery!MakeRoom, RecoveryTypes, Recovery!AbortedOnlyUnfinishedIfCalm,
           Recovery!AbortedOnlyUnfinished, Recovery!To
  <1>14. ASSUME Recovery!ApplySaved PROVE Recovery!AbortedOnlyUnfinishedIfCalm'
    BY <1>14 DEF Recovery!ApplySaved, RecoveryTypes, Recovery!AbortedOnlyUnfinishedIfCalm,
           Recovery!AbortedOnlyUnfinished, Recovery!To
  <1>15. CASE UNCHANGED Recovery!vars
    BY <1>15 DEF Recovery!vars, RecoveryTypes, Recovery!AbortedOnlyUnfinishedIfCalm,
           Recovery!AbortedOnlyUnfinished
  <1>16. ASSUME Recovery!SetTournament PROVE Recovery!AbortedOnlyUnfinishedIfCalm'
    BY <1>16 DEF Recovery!SetTournament, RecoveryTypes, Recovery!AbortedOnlyUnfinishedIfCalm,
           Recovery!AbortedOnlyUnfinished
  <1>17. ASSUME NEW e \in Recovery!Completions \cup Recovery!Snaps, Recovery!Tear(e)
        PROVE  Recovery!AbortedOnlyUnfinishedIfCalm'
    BY <1>17 DEF Recovery!Tear, Recovery!Fails, RecoveryTypes, Recovery!AbortedOnlyUnfinishedIfCalm,
           Recovery!AbortedOnlyUnfinished
  <1> QED BY <1>1, <1>2, <1>3, <1>4, <1>5, <1>6, <1>7, <1>8, <1>9, <1>10, <1>11, <1>12, <1>13,
             <1>14, <1>15, <1>16, <1>17 DEF Recovery!Next, Recovery!Crash, Recovery!Refuse

(* Snapshots stay in order. *)
LEMMA RecoverySnapshotsKept ==
  ASSUME MaxChanges \in Nat, RecoveryIInv, [Recovery!Next]_(Recovery!vars)
  PROVE  RecoverySnapshotsInOrder'
  <1> USE RecoveryEvents DEF Recovery!files, Recovery!start, Recovery!room, RecoveryIInv
  <1>1. ASSUME NEW r \in Rounds, Recovery!Open(r) PROVE RecoverySnapshotsInOrder'
    BY <1>1 DEF Recovery!Open, RecoveryTypes, RecoverySnapshotsInOrder, Recovery!Nothing
  <1>2. ASSUME NEW r \in Rounds, Recovery!Complete(r) PROVE RecoverySnapshotsInOrder'
    BY <1>2 DEF Recovery!Complete, RecoveryTypes, RecoverySnapshotsInOrder, Recovery!Nothing,
           Recovery!Snaps
  <1>3. ASSUME NEW r \in Rounds, Recovery!Abort(r) PROVE RecoverySnapshotsInOrder'
    BY <1>3 DEF Recovery!Abort, RecoveryTypes, RecoverySnapshotsInOrder, Recovery!Nothing,
           Recovery!AbortRound
  <1>4. ASSUME Recovery!Change PROVE RecoverySnapshotsInOrder'
    BY <1>4 DEF Recovery!Change, RecoveryTypes, RecoverySnapshotsInOrder, Recovery!Nothing
  <1>5. ASSUME Recovery!Snapshot PROVE RecoverySnapshotsInOrder'
    BY <1>5 DEF Recovery!Snapshot, RecoveryTypes, RecoverySnapshotsInOrder, Recovery!Nothing,
           Recovery!Snaps
  <1>6. ASSUME NEW e \in Recovery!Completions \cup Recovery!Snaps, Recovery!Write(e)
        PROVE  RecoverySnapshotsInOrder'
    BY <1>6 DEF Recovery!Write, RecoveryTypes, RecoverySnapshotsInOrder, Recovery!Nothing,
           Recovery!CommitRound, Recovery!StoreSnapshot, Recovery!Completions, Recovery!Snaps,
           Recovery!InTurn
  <1>7. ASSUME NEW e \in Recovery!Completions \cup Recovery!Snaps, Recovery!GiveUp(e)
        PROVE  RecoverySnapshotsInOrder'
    BY <1>7 DEF Recovery!GiveUp, Recovery!Fails, Recovery!Append, RecoveryTypes, RecoverySnapshotsInOrder, Recovery!Nothing,
           Recovery!Snaps, Recovery!Completions
  <1>8. ASSUME NEW e \in Recovery!Completions \cup Recovery!Snaps, Recovery!Enqueue(e)
        PROVE  RecoverySnapshotsInOrder'
    BY <1>8 DEF Recovery!Enqueue, RecoveryTypes, RecoverySnapshotsInOrder, Recovery!Nothing,
           Recovery!Snaps
  <1>9. ASSUME Recovery!Restart PROVE RecoverySnapshotsInOrder'
    BY <1>9 DEF Recovery!Restart, RecoveryTypes, RecoverySnapshotsInOrder, Recovery!Nothing
  <1>10. ASSUME Recovery!WalDrained PROVE RecoverySnapshotsInOrder'
    BY <1>10 DEF Recovery!WalDrained, RecoveryTypes, RecoverySnapshotsInOrder, Recovery!Nothing,
           Recovery!To
  <1>11. ASSUME Recovery!Park PROVE RecoverySnapshotsInOrder'
    BY <1>11 DEF Recovery!Park, RecoveryTypes, RecoverySnapshotsInOrder, Recovery!Nothing,
           Recovery!To
  <1>12. ASSUME Recovery!Flushed PROVE RecoverySnapshotsInOrder'
    BY <1>12 DEF Recovery!Flushed, RecoveryTypes, RecoverySnapshotsInOrder, Recovery!Nothing,
           Recovery!To, Recovery!Kept
  <1>13. ASSUME Recovery!MakeRoom PROVE RecoverySnapshotsInOrder'
    BY <1>13 DEF Recovery!MakeRoom, RecoveryTypes, RecoverySnapshotsInOrder, Recovery!Nothing,
           Recovery!To
  <1>14. ASSUME Recovery!ApplySaved PROVE RecoverySnapshotsInOrder'
    BY <1>14 DEF Recovery!ApplySaved, RecoveryTypes, RecoverySnapshotsInOrder, Recovery!Nothing,
           Recovery!To, Recovery!LatestSnapshot
  <1>15. CASE UNCHANGED Recovery!vars
    BY <1>15 DEF Recovery!vars, RecoveryTypes, RecoverySnapshotsInOrder, Recovery!Nothing
  <1>16. ASSUME Recovery!SetTournament PROVE RecoverySnapshotsInOrder'
    BY <1>16 DEF Recovery!SetTournament, RecoveryTypes, RecoverySnapshotsInOrder, Recovery!Nothing
  <1>17. ASSUME NEW e \in Recovery!Completions \cup Recovery!Snaps, Recovery!Tear(e)
        PROVE  RecoverySnapshotsInOrder'
    BY <1>17 DEF Recovery!Tear, Recovery!Fails, RecoveryTypes, RecoverySnapshotsInOrder, Recovery!Nothing,
           Recovery!Snaps, Recovery!Completions
  <1> QED BY <1>1, <1>2, <1>3, <1>4, <1>5, <1>6, <1>7, <1>8, <1>9, <1>10, <1>11, <1>12, <1>13,
             <1>14, <1>15, <1>16, <1>17 DEF Recovery!Next, Recovery!Crash, Recovery!Refuse

(* Every step of the recovery keeps the invariant. *)
LEMMA RecoveryNextKeeps ==
  ASSUME MaxChanges \in Nat, RecoveryIInv, [Recovery!Next]_(Recovery!vars)
  PROVE  RecoveryIInv'
  BY RecoveryTypesKept, RecoveryForgottenKept, RecoveryParkedKept, RecoveryStagesKept,
     RecoveryAbortedKept, RecoverySnapshotsKept DEF RecoveryIInv

(* The invariant is what recovery promises, and more. *)
LEMMA RecoveryInvariantTells ==
  RecoveryIInv => /\ Recovery!NothingForgottenIfCalm
                  /\ Recovery!AbortedOnlyUnfinishedIfCalm
                  /\ Recovery!RestoredAsStoredIfCalm
  BY DEF RecoveryIInv, Recovery!RestoredAsStoredIfCalm, Recovery!RestoredAsStored,
         RecoverySnapshotsInOrder

(* Recovery keeps its promises over any number of rounds, snapshots and      *)
(* crashes (server/recovery.rs): if no dead letter is torn, the completion   *)
(* of a round that was admitted is not forgotten; if start-up does not fail  *)
(* a second time either, no such round is aborted; and with snapshots in     *)
(* order a persistent room gets back the newest lock, cycle, visibility,     *)
(* chart and host.                                                           *)
THEOREM RecoveryKeeps ==
  ASSUME MaxChanges \in Nat
  PROVE  Recovery!Spec => [](/\ Recovery!NothingForgottenIfCalm
                             /\ Recovery!AbortedOnlyUnfinishedIfCalm
                             /\ Recovery!RestoredAsStoredIfCalm)
  <1>1. RecoveryIInv /\ [Recovery!Next]_(Recovery!vars) => RecoveryIInv'
    BY RecoveryNextKeeps
  <1> QED BY RecoveryInitInv, <1>1, RecoveryInvariantTells, PTL DEF Recovery!Spec

(* A step of the composite is one of the recovery, or leaves it alone. *)
LEMMA RecoveryStep == [Next]_vars => [Recovery!Next]_(Recovery!vars)
  BY DEF Next, vars, OfRecovery, OfTelemetry, OfPresence, OfManaged, OfModeration,
         OfDirectory, recoveryVars, Recovery!vars

(* A round whose completion the log has admitted is not forgotten if no dead *)
(* letter is torn; if nothing fails twice either it is not aborted, and if   *)
(* snapshots stay in order a persistent room gets back what was stored of    *)
(* its lock, cycle, visibility, chart and host (server/recovery.rs).         *)
THEOREM RecoveryIfCalmHolds ==
  ASSUME MaxChanges \in Nat
  PROVE  Spec => []RecoveryIfCalm
  <1>1. Init => RecoveryIInv
    BY RecoveryInitInv DEF Init
  <1>2. RecoveryIInv /\ [Next]_vars => RecoveryIInv'
    BY RecoveryStep, RecoveryNextKeeps
  <1>3. RecoveryIInv => RecoveryIfCalm
    BY RecoveryInvariantTells DEF RecoveryIfCalm
  <1> QED BY <1>1, <1>2, <1>3, PTL DEF Spec

-----------------------------------------------------------------------------
(***************************************************************************)
(* The telemetry.  MaxItems bounds the items of a behaviour.               *)
(***************************************************************************)
TelemetryMessages == [kind : {"item"}, n : Telemetry!Items] \cup [kind : {"flush", "shutdown"}, n : 0..MaxItems]

(* Where an item may be, and what an answer may be. *)
TelemetryTypes ==
    /\ admission \in 1..(MaxItems + 1) /\ telemetryAccepted \in 0..(admission - 1)
    /\ main \in Seq(TelemetryMessages)
    /\ overflow \in Seq(Telemetry!Items)
    /\ \A S \in {batch, flight, committed, dropped} : S \subseteq Telemetry!Items
    /\ copies \in [Telemetry!Items -> {0, 1}]
    /\ gate \in {"free", "enqueue", "shutdown"}
    /\ worker \in [at : {"idle", "write", "flush"}, why : {"none", "items", "interval", "flush", "shutdown"},
                   tries : Nat]
    /\ flush \in [at : {"none", "sending", "waiting", "ok", "err"}, target : 0..MaxItems,
                  late : BOOLEAN, calls : Nat]

(* An item that was admitted is on its way, committed or dropped. *)
TelemetryAccounted ==
    \A n \in 1..(admission - 1) :
        \/ n \in batch \cup flight \cup committed \cup dropped
        \/ \E i \in DOMAIN overflow : overflow[i] = n
        \/ \E i \in DOMAIN main : main[i].kind = "item" /\ main[i].n = n

TelemetryNoItem(i) == \A j \in DOMAIN main : j > i => main[j].kind # "item"

(* Once the shutdown is asked for nothing is admitted, so no item is behind *)
(* its message, and what it waits for is all there is.                      *)
TelemetryClosing ==
    /\ closed => gate # "enqueue"
    /\ \A i \in DOMAIN main : main[i].kind = "shutdown" => closed /\ TelemetryNoItem(i)
    /\ worker.why = "shutdown" =>
           closed /\ overflow = <<>> /\ TelemetryNoItem(0) /\ worker.at = "write"
    /\ worker.at # "write" => flight = {}
    /\ flight # {} => batch = {}
    /\ verdict # "none" \/ shut # "open" => closed
    /\ verdict # "none" => gone
    /\ gone => worker = Telemetry!Idle
    /\ shut \in {"clean", "loss"} => verdict = shut

(* What is committed is stored, and an answer says what is committed. *)
TelemetryTold ==
    /\ \A s \in committed : copies[s] > 0
    /\ flush.at = "ok" => 1..flush.target \subseteq committed
    /\ verdict = "clean" => 1..telemetryAccepted \subseteq committed
    /\ verdict \in {"clean", "loss"} => 1..(admission - 1) \subseteq committed \cup dropped

TelemetryIInv == TelemetryTypes /\ TelemetryAccounted /\ TelemetryClosing /\ TelemetryTold

TelemetryLimits == MaxItems \in Nat /\ BatchSize \in Nat

-----------------------------------------------------------------------------
(* Numbers and queues *)

Less == {p \in Nat \X Nat : p[1] < p[2]}

LEMMA LeastExists ==
  ASSUME NEW S \in SUBSET Nat, S # {}
  PROVE  \E m \in S : \A x \in S : m <= x
  <1>1. IsWellFoundedOn(Less, Nat)
    BY NatLessThanWellFounded DEF OpToRel, Less
  <1>2. PICK m \in S : \A x \in S : ~(<<x, m>> \in Less)
    BY <1>1, WFMin
  <1>3. ASSUME NEW x \in S PROVE m <= x
    <2>1. x \in Nat /\ m \in Nat /\ <<x, m>> \in Nat \X Nat
      OBVIOUS
    <2>2. ~(x < m)
      BY <1>2, <2>1 DEF Less
    <2> QED BY <2>1, <2>2
  <1> QED BY <1>3

LEMMA MaxIsGreatest ==
  ASSUME NEW B \in Nat, NEW S \in SUBSET (0..B), S # {}
  PROVE  Telemetry!Max(S) \in S /\ \A x \in S : x <= Telemetry!Max(S)
  <1> DEFINE T == {B - x : x \in S}
  <1>1. \A x \in S : B - x \in Nat
    OBVIOUS
  <1>2. T \in SUBSET Nat /\ T # {}
    BY <1>1
  <1>3. PICK m \in T : \A x \in T : m <= x
    BY <1>2, LeastExists
  <1>4. PICK g \in S : m = B - g
    BY <1>3
  <1>5. \A x \in S : B - g <= B - x
    BY <1>3, <1>4
  <1>6. \A x \in S : g >= x
    BY <1>5
  <1> QED BY <1>6 DEF Telemetry!Max

(* Everything up to the watermark is committed. *)
LEMMA TelemetryWatermarkIsCommitted ==
  ASSUME TelemetryLimits
  PROVE  Telemetry!Watermark \in 0..MaxItems /\ 1..Telemetry!Watermark \subseteq committed
  <1> DEFINE S == {n \in 0..MaxItems : 1..n \subseteq committed}
  <1>1. 0 \in S /\ S \in SUBSET (0..MaxItems)
    BY DEF TelemetryLimits
  <1>2. Telemetry!Max(S) \in S
    BY <1>1, MaxIsGreatest DEF TelemetryLimits
  <1> QED BY <1>2 DEF Telemetry!Watermark

LEMMA Appended ==
  ASSUME NEW S, NEW q \in Seq(S), NEW x \in S
  PROVE  /\ Append(q, x) \in Seq(S) /\ DOMAIN Append(q, x) = 1..(Len(q) + 1)
         /\ DOMAIN q = 1..Len(q) /\ Len(q) \in Nat
         /\ \A i \in 1..Len(q) : Append(q, x)[i] = q[i]
         /\ Append(q, x)[Len(q) + 1] = x
  OBVIOUS

LEMMA Taken ==
  ASSUME NEW S, NEW q \in Seq(S), q # <<>>
  PROVE  /\ Tail(q) \in Seq(S) /\ DOMAIN Tail(q) = 1..(Len(q) - 1) /\ Len(q) \in Nat \ {0}
         /\ DOMAIN q = 1..Len(q) /\ Head(q) = q[1]
         /\ \A i \in 1..(Len(q) - 1) : Tail(q)[i] = q[i + 1]
  OBVIOUS

LEMMA Cut ==
  ASSUME NEW S, NEW q \in Seq(S), NEW k \in 0..Len(q)
  PROVE  LET r == SubSeq(q, k + 1, Len(q)) IN
         /\ r \in Seq(S) /\ Len(r) = Len(q) - k /\ DOMAIN r = 1..(Len(q) - k)
         /\ \A i \in 1..(Len(q) - k) : r[i] = q[k + i]
  OBVIOUS

(* What is drained from the overflow has expired, or is in the batch. *)
LEMMA TelemetryDrained ==
  ASSUME TelemetryTypes, NEW b \in SUBSET Telemetry!Items, NEW limit \in Nat, Telemetry!Drain(b, limit)
  PROVE  /\ overflow' \in Seq(Telemetry!Items) /\ batch' \subseteq Telemetry!Items /\ dropped' \subseteq Telemetry!Items
         /\ b \subseteq batch' /\ dropped \subseteq dropped'
         /\ \A i \in DOMAIN overflow :
                \/ overflow[i] \in dropped' \cup batch'
                \/ \E j \in DOMAIN overflow' : overflow'[j] = overflow[i]
         /\ limit = Len(overflow) => overflow' = <<>>
  <1>1. PICK expired \in 0..Len(overflow) :
          LET rest == SubSeq(overflow, expired + 1, Len(overflow))
              taken == IF Len(rest) < limit THEN Len(rest) ELSE limit
          IN  /\ Telemetry!Dropping({overflow[i] : i \in 1..expired})
              /\ overflow' = SubSeq(rest, taken + 1, Len(rest))
              /\ batch' = b \cup {rest[i] : i \in 1..taken}
    BY DEF Telemetry!Drain
  <1> DEFINE rest == SubSeq(overflow, expired + 1, Len(overflow))
             taken == IF Len(rest) < limit THEN Len(rest) ELSE limit
  <1>2. overflow \in Seq(Telemetry!Items) /\ dropped \subseteq Telemetry!Items
    BY DEF TelemetryTypes
  <1>3. /\ rest \in Seq(Telemetry!Items) /\ Len(rest) = Len(overflow) - expired
        /\ DOMAIN overflow = 1..Len(overflow)
        /\ \A i \in 1..(Len(overflow) - expired) : rest[i] = overflow[expired + i]
    BY <1>1, <1>2, Cut
  <1>4. /\ overflow' = SubSeq(rest, taken + 1, Len(rest))
        /\ dropped' = dropped \cup {overflow[i] : i \in 1..expired}
        /\ batch' = b \cup {rest[i] : i \in 1..taken}
    BY <1>1 DEF Telemetry!Dropping
  <1>5. /\ taken \in 0..Len(rest) /\ Len(overflow) \in Nat /\ Len(rest) \in Nat
        /\ limit = Len(overflow) => taken = Len(rest)
    <2> HIDE DEF rest
    <2>1. Len(overflow) \in Nat /\ Len(rest) \in Nat /\ Len(rest) <= Len(overflow)
      BY <1>2, <1>3
    <2> QED BY <2>1
  <1> HIDE DEF rest, taken
  <1>6. /\ overflow' \in Seq(Telemetry!Items) /\ Len(overflow') = Len(rest) - taken
        /\ DOMAIN overflow' = 1..(Len(rest) - taken)
        /\ \A i \in 1..(Len(rest) - taken) : overflow'[i] = rest[taken + i]
    BY <1>3, <1>4, <1>5, Cut
  <1>7. dropped' \subseteq Telemetry!Items /\ batch' \subseteq Telemetry!Items
    <2>1. \A i \in 1..expired : overflow[i] \in Telemetry!Items
      BY <1>2, <1>3, <1>5
    <2>2. \A i \in 1..taken : rest[i] \in Telemetry!Items
      BY <1>3, <1>5
    <2> QED BY <1>2, <1>4, <2>1, <2>2
  <1>8. ASSUME NEW i \in DOMAIN overflow
        PROVE  \/ overflow[i] \in dropped' \cup batch'
               \/ \E j \in DOMAIN overflow' : overflow'[j] = overflow[i]
    <2>0. i \in 1..Len(overflow) /\ expired \in Nat
      BY <1>3
    <2>1. CASE i <= expired
      BY <1>4, <2>0, <2>1
    <2>2. CASE i > expired /\ i - expired <= taken
      <3>1. rest[i - expired] = overflow[i] /\ i - expired \in 1..taken
        BY <1>3, <1>5, <2>0, <2>2
      <3> QED BY <1>4, <3>1
    <2>3. CASE i > expired /\ i - expired > taken
      <3> DEFINE j == i - expired - taken
      <3>1. j \in 1..(Len(rest) - taken) /\ taken + j = i - expired
        BY <1>3, <1>5, <2>0, <2>3
      <3>2. overflow'[j] = rest[i - expired] /\ rest[i - expired] = overflow[i]
        <4>1. overflow'[j] = rest[taken + j]
          BY <1>6, <3>1
        <4>2. i - expired \in 1..(Len(overflow) - expired) /\ expired + (i - expired) = i
          BY <1>5, <2>0, <2>3
        <4> QED BY <1>3, <3>1, <4>1, <4>2
      <3> QED BY <1>6, <3>1, <3>2
    <2> QED BY <1>5, <2>0, <2>1, <2>2, <2>3
  <1>9. limit = Len(overflow) => overflow' = <<>>
    BY <1>5, <1>6
  <1> QED BY <1>4, <1>6, <1>7, <1>8, <1>9

-----------------------------------------------------------------------------
(* The steps *)

LEMMA TelemetryInitInv == ASSUME TelemetryLimits PROVE Telemetry!Init => TelemetryIInv
  BY DEF TelemetryLimits, Telemetry!Init, TelemetryIInv, TelemetryTypes, TelemetryAccounted, TelemetryClosing, TelemetryTold, TelemetryNoItem, Telemetry!Items

(* The callers that leave the queues alone. *)
LEMMA TelemetryCallsKeep ==
  ASSUME TelemetryLimits, TelemetryIInv,
         Telemetry!Count \/ Telemetry!FlushCall \/ Telemetry!FlushLate \/ Telemetry!ShutRequest \/ Telemetry!ShutLate \/ Telemetry!ShutReturns
  PROVE  TelemetryIInv'
  <1> USE DEF TelemetryLimits, TelemetryIInv
  <1>0. UNCHANGED <<admission, main, overflow, batch, committed, dropped, copies, verdict, worker, flight, gone>>
    BY DEF Telemetry!Count, Telemetry!FlushCall, Telemetry!FlushLate, Telemetry!ShutRequest, Telemetry!ShutLate, Telemetry!ShutReturns
  <1>1. TelemetryTypes'
    <2>1. CASE Telemetry!Count
      <3>1. {telemetryAccepted, admission - 1} \in SUBSET (0..MaxItems) /\ admission - 1 \in 0..MaxItems
        BY DEF TelemetryTypes
      <3>2. Telemetry!Max({telemetryAccepted, admission - 1}) = admission - 1
        <4>1. /\ Telemetry!Max({telemetryAccepted, admission - 1}) \in {telemetryAccepted, admission - 1}
              /\ admission - 1 <= Telemetry!Max({telemetryAccepted, admission - 1})
          BY <3>1, MaxIsGreatest
        <4>2. telemetryAccepted <= admission - 1
          BY DEF TelemetryTypes
        <4> QED BY <3>1, <4>1, <4>2
      <3> QED BY <2>1, <3>1, <3>2 DEF Telemetry!Count, TelemetryTypes
    <2>2. CASE Telemetry!FlushCall
      BY <2>2 DEF Telemetry!FlushCall, TelemetryTypes
    <2>3. CASE Telemetry!FlushLate
      BY <2>3 DEF Telemetry!FlushLate, TelemetryTypes
    <2>4. CASE Telemetry!ShutRequest \/ Telemetry!ShutLate \/ Telemetry!ShutReturns
      BY <2>4 DEF Telemetry!ShutRequest, Telemetry!ShutLate, Telemetry!ShutReturns, TelemetryTypes
    <2> QED BY <2>1, <2>2, <2>3, <2>4
  <1>2. TelemetryAccounted'
    BY <1>0 DEF TelemetryAccounted
  <1>3. TelemetryClosing'
    BY <1>0 DEF Telemetry!Count, Telemetry!FlushCall, Telemetry!FlushLate, Telemetry!ShutRequest, Telemetry!ShutLate, Telemetry!ShutReturns, TelemetryClosing, TelemetryNoItem, Telemetry!Classified
  <1>4. TelemetryTold'
    <2>1. CASE Telemetry!Count
      BY <1>0, <2>1 DEF Telemetry!Count, TelemetryClosing, TelemetryTold
    <2>2. CASE ~Telemetry!Count
      <3>1. telemetryAccepted' = telemetryAccepted /\ (flush'.at = "ok" => flush' = flush)
        <4>1. CASE Telemetry!FlushCall \/ Telemetry!FlushLate
          <5>1. CASE Telemetry!FlushCall
            BY <5>1 DEF Telemetry!FlushCall
          <5>2. CASE Telemetry!FlushLate
            <6>1. flush' = [flush EXCEPT !.late = TRUE, !.at = "err"] /\ telemetryAccepted' = telemetryAccepted
              BY <5>2 DEF Telemetry!FlushLate
            <6>2. flush'.at = "err"
              BY <6>1 DEF TelemetryTypes
            <6> QED BY <6>1, <6>2
          <5> QED BY <4>1, <5>1, <5>2
        <4> QED BY <2>2, <4>1 DEF Telemetry!ShutRequest, Telemetry!ShutLate, Telemetry!ShutReturns
      <3> QED BY <1>0, <3>1 DEF TelemetryTold
    <2> QED BY <2>1, <2>2
  <1> QED BY <1>1, <1>2, <1>3, <1>4

(* An item that is admitted is queued or dropped. *)
LEMMA TelemetryEnqueueKeeps == ASSUME TelemetryLimits, TelemetryIInv, Telemetry!Enqueue PROVE TelemetryIInv'
  <1> USE DEF TelemetryLimits, TelemetryIInv
  <1>0. /\ ~closed /\ admission \in 1..MaxItems /\ admission' = admission + 1
        /\ UNCHANGED <<telemetryAccepted, batch, committed, copies, closed, shut, verdict, worker, flight, flush, gone>>
    BY DEF Telemetry!Enqueue, Telemetry!Offered, TelemetryTypes
  <1>1. CASE main' = Append(main, Telemetry!Msg("item", admission)) /\ gate' = "enqueue" /\ UNCHANGED <<overflow, dropped>>
    <2>1. /\ main' \in Seq(TelemetryMessages)
          /\ DOMAIN main' = 1..(Len(main) + 1) /\ DOMAIN main = 1..Len(main) /\ Len(main) \in Nat
          /\ \A i \in 1..Len(main) : main'[i] = main[i]
          /\ main'[Len(main) + 1] = Telemetry!Msg("item", admission)
      BY <1>0, <1>1, Appended DEF TelemetryTypes, Telemetry!Msg, TelemetryMessages, Telemetry!Items
    <2>2. TelemetryTypes'
      BY <1>0, <1>1, <2>1 DEF TelemetryTypes
    <2>3. TelemetryAccounted'
      <3>1. \A i \in DOMAIN main : main'[i] = main[i] /\ i \in DOMAIN main'
        BY <2>1
      <3>2. main'[Len(main) + 1].kind = "item" /\ main'[Len(main) + 1].n = admission
        BY <2>1 DEF Telemetry!Msg
      <3>3. \A n \in 1..(admission' - 1) : n = admission \/ n \in 1..(admission - 1)
        BY <1>0
      <3>4. Len(main) + 1 \in DOMAIN main'
        BY <2>1
      <3> SUFFICES ASSUME NEW n \in 1..(admission' - 1)
                   PROVE  \/ n \in batch' \cup flight' \cup committed' \cup dropped'
                          \/ \E i \in DOMAIN overflow' : overflow'[i] = n
                          \/ \E i \in DOMAIN main' : main'[i].kind = "item" /\ main'[i].n = n
        BY DEF TelemetryAccounted
      <3>5. CASE n = admission
        BY <3>2, <3>4, <3>5
      <3>6. CASE n \in 1..(admission - 1)
        BY <1>0, <1>1, <3>1, <3>6 DEF TelemetryAccounted
      <3> QED BY <3>3, <3>5, <3>6
    <2>4. TelemetryClosing'
      BY <1>0, <1>1, <2>1 DEF TelemetryClosing, TelemetryNoItem, Telemetry!Msg
    <2>5. TelemetryTold'
      BY <1>0, <1>1 DEF TelemetryTold, TelemetryClosing
    <2> QED BY <2>2, <2>3, <2>4, <2>5
  <1>2. CASE overflow' = Append(overflow, admission) /\ gate' = "enqueue" /\ UNCHANGED <<main, dropped>>
    <2>1. /\ overflow' \in Seq(Telemetry!Items)
          /\ DOMAIN overflow' = 1..(Len(overflow) + 1) /\ DOMAIN overflow = 1..Len(overflow)
          /\ Len(overflow) \in Nat
          /\ \A i \in 1..Len(overflow) : overflow'[i] = overflow[i]
          /\ overflow'[Len(overflow) + 1] = admission
      BY <1>0, <1>2, Appended DEF TelemetryTypes, Telemetry!Items
    <2>2. TelemetryTypes'
      BY <1>0, <1>2, <2>1 DEF TelemetryTypes
    <2>3. TelemetryAccounted'
      <3>1. \A i \in DOMAIN overflow : overflow'[i] = overflow[i] /\ i \in DOMAIN overflow'
        BY <2>1
      <3>2. overflow'[Len(overflow) + 1] = admission /\ Len(overflow) + 1 \in DOMAIN overflow'
        BY <2>1
      <3>3. \A n \in 1..(admission' - 1) : n = admission \/ n \in 1..(admission - 1)
        BY <1>0
      <3> QED BY <1>0, <1>2, <3>1, <3>2, <3>3 DEF TelemetryAccounted
    <2>4. TelemetryClosing' /\ TelemetryTold'
      BY <1>0, <1>2 DEF TelemetryClosing, TelemetryNoItem, TelemetryTold
    <2> QED BY <2>2, <2>3, <2>4
  <1>3. CASE Telemetry!Dropping({admission}) /\ UNCHANGED <<main, overflow, gate>>
    <2>1. dropped' = dropped \cup {admission} /\ admission \in Telemetry!Items
      BY <1>0, <1>3 DEF Telemetry!Dropping, Telemetry!Items
    <2>2. TelemetryTypes'
      BY <1>0, <1>3, <2>1 DEF TelemetryTypes
    <2>3. TelemetryAccounted'
      <3>1. \A n \in 1..(admission' - 1) : n = admission \/ n \in 1..(admission - 1)
        BY <1>0
      <3> QED BY <1>0, <1>3, <2>1, <3>1 DEF TelemetryAccounted
    <2>4. TelemetryClosing' /\ TelemetryTold'
      BY <1>0, <1>3, <2>1 DEF TelemetryClosing, TelemetryNoItem, TelemetryTold
    <2> QED BY <2>2, <2>3, <2>4
  <1> QED BY <1>1, <1>2, <1>3 DEF Telemetry!Enqueue

(* A message that is no item is queued. *)
LEMMA TelemetrySendsKeep == ASSUME TelemetryLimits, TelemetryIInv, Telemetry!FlushSend \/ Telemetry!ShutSend PROVE TelemetryIInv'
  <1> USE DEF TelemetryLimits, TelemetryIInv
  <1>0. /\ UNCHANGED <<admission, telemetryAccepted, overflow, batch, committed, dropped, copies, gate, closed,
                       verdict, worker, flight, gone>>
        /\ flush' = flush \/ flush' = [flush EXCEPT !.at = "waiting"]
        /\ shut' = shut \/ (shut' = "sent" /\ shut = "requested")
    BY DEF Telemetry!FlushSend, Telemetry!ShutSend
  <1>1. PICK m \in [kind : {"flush", "shutdown"}, n : 0..MaxItems] :
          main' = Append(main, m) /\ (m.kind = "shutdown" => shut = "requested")
    BY DEF Telemetry!FlushSend, Telemetry!ShutSend, Telemetry!Msg, TelemetryTypes
  <1>2. m.kind = "shutdown" => closed
    BY <1>1 DEF TelemetryClosing
  <1>3. /\ main' \in Seq(TelemetryMessages)
        /\ DOMAIN main' = 1..(Len(main) + 1) /\ DOMAIN main = 1..Len(main) /\ Len(main) \in Nat
        /\ \A i \in 1..Len(main) : main'[i] = main[i]
        /\ main'[Len(main) + 1] = m
    BY <1>1, Appended DEF TelemetryTypes, TelemetryMessages
  <1>4. TelemetryTypes'
    BY <1>0, <1>3 DEF TelemetryTypes
  <1>5. TelemetryAccounted'
    BY <1>0, <1>1, <1>3 DEF TelemetryAccounted
  <1>6. TelemetryClosing'
    <2>1. \A i \in DOMAIN main' : TelemetryNoItem(i)' <=> \A j \in DOMAIN main : j > i => main[j].kind # "item"
      BY <1>1, <1>3 DEF TelemetryNoItem
    <2>2. TelemetryNoItem(0) => TelemetryNoItem(0)'
      BY <1>1, <1>3 DEF TelemetryNoItem
    <2>3. \A i \in DOMAIN main' : main'[i].kind = "shutdown" => closed /\ TelemetryNoItem(i)'
      <3> SUFFICES ASSUME NEW i \in DOMAIN main', main'[i].kind = "shutdown"
                   PROVE  closed /\ TelemetryNoItem(i)'
        OBVIOUS
      <3>1. CASE i \in DOMAIN main
        BY <1>3, <2>1, <3>1 DEF TelemetryClosing, TelemetryNoItem
      <3>2. CASE i = Len(main) + 1
        BY <1>2, <1>3, <2>1, <3>2
      <3> QED BY <1>3, <3>1, <3>2
    <2> QED BY <1>0, <1>1, <1>2, <2>2, <2>3 DEF TelemetryClosing
  <1>7. TelemetryTold'
    BY <1>0 DEF TelemetryTold, TelemetryTypes
  <1> QED BY <1>4, <1>5, <1>6, <1>7

(* A turn of the worker that writes nothing: what it takes from the queues  *)
(* is in the batch or dropped.                                              *)
LEMMA TelemetryTurnKeeps ==
  ASSUME TelemetryLimits, TelemetryIInv, ~gone, flight = {},
         UNCHANGED <<admission, telemetryAccepted, gate, closed, shut, committed, copies, flight>>,
         overflow' \in Seq(Telemetry!Items), batch' \subseteq Telemetry!Items, dropped' \subseteq Telemetry!Items,
         batch \subseteq batch', dropped \subseteq dropped',
         \A i \in DOMAIN overflow : \/ overflow[i] \in dropped' \cup batch'
                                    \/ \E j \in DOMAIN overflow' : overflow'[j] = overflow[i],
         main' \in Seq(TelemetryMessages),
         \A i \in DOMAIN main : main[i].kind = "item" =>
             main[i].n \in batch' \/ \E j \in DOMAIN main' : main'[j] = main[i],
         \A i \in DOMAIN main' : main'[i].kind = "shutdown" => closed /\ TelemetryNoItem(i)',
         worker' \in [at : {"idle", "write", "flush"}, why : {"none", "items", "interval", "flush", "shutdown"},
                      tries : Nat],
         worker'.why = "shutdown" => closed /\ overflow' = <<>> /\ TelemetryNoItem(0)' /\ worker'.at = "write",
         flush' \in [at : {"none", "sending", "waiting", "ok", "err"}, target : 0..MaxItems,
                     late : BOOLEAN, calls : Nat],
         flush'.at = "ok" => flush' = flush \/ 1..flush'.target \subseteq committed,
         gone' => worker' = Telemetry!Idle,
         verdict' = verdict
            \/ /\ closed /\ gone'
               /\ verdict' = "clean" => 1..telemetryAccepted \subseteq committed
               /\ verdict' \in {"clean", "loss"} => 1..(admission - 1) \subseteq committed \cup dropped'
  PROVE  TelemetryIInv'
  <1> USE DEF TelemetryLimits, TelemetryIInv
  <1>1. verdict = "none" /\ shut \notin {"clean", "loss"}
    BY DEF TelemetryClosing
  <1>2. TelemetryTypes'
    BY DEF TelemetryTypes
  <1>3. TelemetryAccounted'
    <2> SUFFICES ASSUME NEW n \in 1..(admission - 1)
                 PROVE  \/ n \in batch' \cup flight' \cup committed' \cup dropped'
                        \/ \E i \in DOMAIN overflow' : overflow'[i] = n
                        \/ \E i \in DOMAIN main' : main'[i].kind = "item" /\ main'[i].n = n
      BY DEF TelemetryAccounted
    <2>1. CASE n \in batch \cup flight \cup committed \cup dropped
      BY <2>1
    <2>2. CASE \E i \in DOMAIN overflow : overflow[i] = n
      BY <2>2
    <2>3. CASE \E i \in DOMAIN main : main[i].kind = "item" /\ main[i].n = n
      BY <2>3
    <2> QED BY <2>1, <2>2, <2>3 DEF TelemetryAccounted
  <1>4. TelemetryClosing'
    BY <1>1 DEF TelemetryClosing
  <1>5. TelemetryTold'
    BY <1>1 DEF TelemetryTold
  <1> QED BY <1>2, <1>3, <1>4, <1>5

(* The queue from which the worker has taken a message. *)
LEMMA TelemetryTookMessage ==
  ASSUME TelemetryIInv, main # <<>>, main' = Tail(main), UNCHANGED closed
  PROVE  /\ main' \in Seq(TelemetryMessages) /\ Head(main) = main[1] /\ 1 \in DOMAIN main
         /\ \A i \in DOMAIN main : i = 1 \/ \E j \in DOMAIN main' : main'[j] = main[i]
         /\ \A i \in DOMAIN main' : main'[i].kind = "shutdown" => closed /\ TelemetryNoItem(i)'
         /\ main[1].kind = "shutdown" => closed /\ TelemetryNoItem(0)'
  <1>1. /\ Head(main) = main[1] /\ main' \in Seq(TelemetryMessages)
        /\ DOMAIN main' = 1..(Len(main) - 1) /\ Len(main) \in Nat \ {0} /\ DOMAIN main = 1..Len(main)
        /\ \A i \in 1..(Len(main) - 1) : main'[i] = main[i + 1]
    BY Taken DEF TelemetryIInv, TelemetryTypes
  <1>2. ASSUME NEW i \in DOMAIN main, i # 1 PROVE \E j \in DOMAIN main' : main'[j] = main[i]
    <2>1. i - 1 \in DOMAIN main' /\ (i - 1) + 1 = i
      BY <1>1, <1>2
    <2> QED BY <1>1, <2>1
  <1>3. ASSUME NEW i \in DOMAIN main', main'[i].kind = "shutdown" PROVE closed /\ TelemetryNoItem(i)'
    <2>1. i + 1 \in DOMAIN main /\ main[i + 1].kind = "shutdown"
      BY <1>1, <1>3
    <2>2. closed /\ TelemetryNoItem(i + 1)
      BY <2>1 DEF TelemetryIInv, TelemetryClosing
    <2>3. ASSUME NEW j \in DOMAIN main', j > i PROVE main'[j].kind # "item"
      <3>1. j + 1 \in DOMAIN main /\ j + 1 > i + 1 /\ main'[j] = main[j + 1]
        BY <1>1, <2>3
      <3> QED BY <2>2, <3>1 DEF TelemetryNoItem
    <2> QED BY <2>2, <2>3 DEF TelemetryNoItem
  <1>4. ASSUME main[1].kind = "shutdown" PROVE closed /\ TelemetryNoItem(0)'
    <2>1. closed /\ TelemetryNoItem(1)
      BY <1>1, <1>4 DEF TelemetryIInv, TelemetryClosing
    <2>2. ASSUME NEW j \in DOMAIN main' PROVE main'[j].kind # "item"
      <3>1. j + 1 \in DOMAIN main /\ j + 1 > 1 /\ main'[j] = main[j + 1]
        BY <1>1
      <3> QED BY <2>1, <3>1 DEF TelemetryNoItem
    <2> QED BY <2>1, <2>2 DEF TelemetryNoItem
  <1> QED BY <1>1, <1>2, <1>3, <1>4

LEMMA TelemetryFiniteBatch == ASSUME TelemetryLimits, NEW b \in SUBSET Telemetry!Items PROVE Telemetry!Cardinality(b) \in Nat
  <1>1. IsFiniteSet(Telemetry!Items)
    BY FS_Interval DEF Telemetry!Items, TelemetryLimits
  <1>2. Telemetry!Cardinality(b) = Cardinality(b)
    BY Zenon DEF Telemetry!Cardinality, Cardinality
  <1> QED BY <1>1, <1>2, FS_Subset, FS_CardinalityType

LEMMA TelemetryTakeItemKeeps == ASSUME TelemetryLimits, TelemetryIInv, Telemetry!TakeItem PROVE TelemetryIInv'
  <1> DEFINE b == batch \cup {Head(main).n}
             limit == IF Telemetry!Cardinality(b) < BatchSize THEN BatchSize - Telemetry!Cardinality(b) ELSE 0
  <1>1. /\ ~gone /\ worker = Telemetry!Idle /\ main # <<>> /\ Head(main).kind = "item" /\ main' = Tail(main)
        /\ UNCHANGED <<admission, telemetryAccepted, gate, closed, shut, committed, copies, flight, verdict,
                       flush, gone>>
        /\ Telemetry!Drain(b, limit)
        /\ worker' = worker \/ worker' = Telemetry!Idle \/ worker' = [at |-> "write", why |-> "items", tries |-> 0]
    BY DEF Telemetry!TakeItem, Telemetry!Calls, Telemetry!WriteOrIdle
  <1>2. /\ main' \in Seq(TelemetryMessages) /\ Head(main) = main[1] /\ 1 \in DOMAIN main
        /\ \A i \in DOMAIN main : i = 1 \/ \E j \in DOMAIN main' : main'[j] = main[i]
        /\ \A i \in DOMAIN main' : main'[i].kind = "shutdown" => closed /\ TelemetryNoItem(i)'
    BY <1>1, TelemetryTookMessage
  <1>3. Head(main).n \in Telemetry!Items
    BY <1>1, <1>2 DEF TelemetryIInv, TelemetryTypes, TelemetryMessages
  <1>4. b \in SUBSET Telemetry!Items /\ limit \in Nat
    <2>1. b \in SUBSET Telemetry!Items
      BY <1>3 DEF TelemetryIInv, TelemetryTypes
    <2>2. Telemetry!Cardinality(b) \in Nat
      BY <2>1, TelemetryFiniteBatch
    <2> HIDE DEF b
    <2>3. limit \in Nat
      BY <2>2 DEF TelemetryLimits
    <2> QED BY <2>1, <2>3
  <1>5. /\ overflow' \in Seq(Telemetry!Items) /\ batch' \subseteq Telemetry!Items /\ dropped' \subseteq Telemetry!Items
        /\ b \subseteq batch' /\ dropped \subseteq dropped'
        /\ \A i \in DOMAIN overflow : \/ overflow[i] \in dropped' \cup batch'
                                      \/ \E j \in DOMAIN overflow' : overflow'[j] = overflow[i]
    <2> HIDE DEF b, limit
    <2> QED BY <1>1, <1>4, TelemetryDrained DEF TelemetryIInv
  <1>6. batch \subseteq batch' /\ main[1].n \in batch'
    BY <1>2, <1>5
  <1>7. flight = {} /\ worker'.why # "shutdown"
        /\ worker' \in [at : {"idle", "write", "flush"},
                        why : {"none", "items", "interval", "flush", "shutdown"}, tries : Nat]
    BY <1>1 DEF TelemetryIInv, TelemetryClosing, Telemetry!Idle
  <1> HIDE DEF b, limit
  <1>8. flush \in [at : {"none", "sending", "waiting", "ok", "err"}, target : 0..MaxItems,
                   late : BOOLEAN, calls : Nat]
    BY DEF TelemetryIInv, TelemetryTypes
  <1> QED BY <1>1, <1>2, <1>5, <1>6, <1>7, <1>8, TelemetryTurnKeeps

LEMMA TelemetryTickKeeps == ASSUME TelemetryLimits, TelemetryIInv, Telemetry!Tick PROVE TelemetryIInv'
  <1>1. /\ ~gone /\ worker = Telemetry!Idle /\ Telemetry!Drain(batch, BatchSize)
        /\ UNCHANGED <<admission, telemetryAccepted, gate, closed, shut, committed, copies, flight, verdict,
                       flush, gone, main>>
        /\ worker' = Telemetry!Idle \/ worker' = [at |-> "write", why |-> "interval", tries |-> 0]
    BY DEF Telemetry!Tick, Telemetry!Calls, Telemetry!WriteOrIdle
  <1>2. /\ overflow' \in Seq(Telemetry!Items) /\ batch' \subseteq Telemetry!Items /\ dropped' \subseteq Telemetry!Items
        /\ batch \subseteq batch' /\ dropped \subseteq dropped'
        /\ \A i \in DOMAIN overflow : \/ overflow[i] \in dropped' \cup batch'
                                      \/ \E j \in DOMAIN overflow' : overflow'[j] = overflow[i]
    BY <1>1, TelemetryDrained DEF TelemetryIInv, TelemetryTypes, TelemetryLimits
  <1>3. flight = {} /\ worker'.why # "shutdown"
        /\ worker' \in [at : {"idle", "write", "flush"},
                        why : {"none", "items", "interval", "flush", "shutdown"}, tries : Nat]
    BY <1>1 DEF TelemetryIInv, TelemetryClosing, Telemetry!Idle
  <1>4. /\ flush \in [at : {"none", "sending", "waiting", "ok", "err"}, target : 0..MaxItems,
                      late : BOOLEAN, calls : Nat]
        /\ main \in Seq(TelemetryMessages)
    BY DEF TelemetryIInv, TelemetryTypes
  <1>5. \A i \in DOMAIN main' : main'[i].kind = "shutdown" => closed /\ TelemetryNoItem(i)'
    BY <1>1 DEF TelemetryIInv, TelemetryClosing, TelemetryNoItem
  <1> QED BY <1>1, <1>2, <1>3, <1>4, <1>5, TelemetryTurnKeeps

LEMMA TelemetryTakeFlushKeeps == ASSUME TelemetryLimits, TelemetryIInv, Telemetry!TakeFlush PROVE TelemetryIInv'
  <1>1. /\ ~gone /\ worker = Telemetry!Idle /\ main # <<>> /\ Head(main).kind = "flush" /\ main' = Tail(main)
        /\ UNCHANGED <<admission, telemetryAccepted, gate, closed, shut, committed, copies, flight, verdict,
                       flush, gone, overflow, batch, dropped>>
        /\ worker' = [at |-> "flush", why |-> "none", tries |-> 0]
    BY DEF Telemetry!TakeFlush, Telemetry!Calls, Telemetry!Idle
  <1>2. /\ main' \in Seq(TelemetryMessages) /\ Head(main) = main[1] /\ 1 \in DOMAIN main
        /\ \A i \in DOMAIN main : i = 1 \/ \E j \in DOMAIN main' : main'[j] = main[i]
        /\ \A i \in DOMAIN main' : main'[i].kind = "shutdown" => closed /\ TelemetryNoItem(i)'
    BY <1>1, TelemetryTookMessage
  <1>3. flight = {} /\ worker'.why # "shutdown"
        /\ worker' \in [at : {"idle", "write", "flush"},
                        why : {"none", "items", "interval", "flush", "shutdown"}, tries : Nat]
    BY <1>1 DEF TelemetryIInv, TelemetryClosing, Telemetry!Idle
  <1>4. /\ flush \in [at : {"none", "sending", "waiting", "ok", "err"}, target : 0..MaxItems,
                      late : BOOLEAN, calls : Nat]
        /\ overflow \in Seq(Telemetry!Items) /\ batch \subseteq Telemetry!Items /\ dropped \subseteq Telemetry!Items
    BY DEF TelemetryIInv, TelemetryTypes
  <1> QED BY <1>1, <1>2, <1>3, <1>4, TelemetryTurnKeeps

(* A flush is answered with success when the watermark has reached it.      *)
LEMMA TelemetryFlushTurnKeeps == ASSUME TelemetryLimits, TelemetryIInv, Telemetry!FlushTurn PROVE TelemetryIInv'
  <1>1. /\ worker.at = "flush"
        /\ UNCHANGED <<admission, telemetryAccepted, gate, closed, shut, committed, copies, flight, verdict,
                       gone, main>>
    BY DEF Telemetry!FlushTurn, Telemetry!Calls
  <1>2. ~gone /\ flight = {}
    BY <1>1 DEF TelemetryIInv, TelemetryClosing, Telemetry!Idle
  <1>3. \/ UNCHANGED <<batch, overflow, dropped>> /\ worker' = Telemetry!Idle
        \/ /\ Telemetry!Drain(batch, BatchSize)
           /\ worker' = Telemetry!Idle \/ worker' = [at |-> "write", why |-> "flush", tries |-> 0]
    BY DEF Telemetry!FlushTurn, Telemetry!WriteOrIdle
  <1>4. /\ overflow' \in Seq(Telemetry!Items) /\ batch' \subseteq Telemetry!Items /\ dropped' \subseteq Telemetry!Items
        /\ batch \subseteq batch' /\ dropped \subseteq dropped'
        /\ \A i \in DOMAIN overflow : \/ overflow[i] \in dropped' \cup batch'
                                      \/ \E j \in DOMAIN overflow' : overflow'[j] = overflow[i]
    <2>1. CASE UNCHANGED <<batch, overflow, dropped>>
      BY <2>1 DEF TelemetryIInv, TelemetryTypes
    <2>2. CASE Telemetry!Drain(batch, BatchSize)
      BY <2>2, TelemetryDrained DEF TelemetryIInv, TelemetryTypes, TelemetryLimits
    <2> QED BY <1>3, <2>1, <2>2
  <1>5. worker'.why # "shutdown"
        /\ worker' \in [at : {"idle", "write", "flush"},
                        why : {"none", "items", "interval", "flush", "shutdown"}, tries : Nat]
    BY <1>3 DEF Telemetry!Idle
  <1>6. /\ flush' \in [at : {"none", "sending", "waiting", "ok", "err"}, target : 0..MaxItems,
                       late : BOOLEAN, calls : Nat]
        /\ flush'.at = "ok" => flush' = flush \/ 1..flush'.target \subseteq committed
    <2>1. flush' = flush \/ flush' = [flush EXCEPT !.at = "err"]
          \/ (flush' = [flush EXCEPT !.at = "ok"] /\ Telemetry!Watermark >= flush.target)
      BY DEF Telemetry!FlushTurn, Telemetry!Reply
    <2>2. Telemetry!Watermark \in Nat /\ 1..Telemetry!Watermark \subseteq committed
      BY TelemetryWatermarkIsCommitted DEF TelemetryLimits
    <2>3. flush \in [at : {"none", "sending", "waiting", "ok", "err"}, target : 0..MaxItems,
                     late : BOOLEAN, calls : Nat]
      BY DEF TelemetryIInv, TelemetryTypes
    <2>4. CASE flush' = [flush EXCEPT !.at = "err"]
      BY <2>3, <2>4
    <2>5. CASE flush' = [flush EXCEPT !.at = "ok"] /\ Telemetry!Watermark >= flush.target
      <3>1. flush'.target = flush.target /\ flush.target \in Nat
        BY <2>3, <2>5 DEF TelemetryLimits
      <3>2. 1..flush.target \subseteq 1..Telemetry!Watermark
        BY <2>2, <2>5, <3>1
      <3> QED BY <2>2, <2>3, <2>5, <3>1, <3>2
    <2> QED BY <2>1, <2>3, <2>4, <2>5
  <1>7. main \in Seq(TelemetryMessages) /\ \A i \in DOMAIN main' : main'[i].kind = "shutdown" => closed /\ TelemetryNoItem(i)'
    BY <1>1 DEF TelemetryIInv, TelemetryTypes, TelemetryClosing, TelemetryNoItem
  <1> QED BY <1>1, <1>2, <1>4, <1>5, <1>6, <1>7, TelemetryTurnKeeps

(* The shutdown is answered at once only if nothing waits to be written.    *)
LEMMA TelemetryTakeShutdownKeeps == ASSUME TelemetryLimits, TelemetryIInv, Telemetry!TakeShutdown PROVE TelemetryIInv'
  <1>1. /\ ~gone /\ worker = Telemetry!Idle /\ main # <<>> /\ Head(main).kind = "shutdown" /\ main' = Tail(main)
        /\ UNCHANGED <<admission, telemetryAccepted, gate, closed, shut, committed, copies, flight, flush>>
    BY DEF Telemetry!TakeShutdown, Telemetry!Calls
  <1>2. /\ main' \in Seq(TelemetryMessages) /\ Head(main) = main[1] /\ 1 \in DOMAIN main
        /\ \A i \in DOMAIN main : i = 1 \/ \E j \in DOMAIN main' : main'[j] = main[i]
        /\ \A i \in DOMAIN main' : main'[i].kind = "shutdown" => closed /\ TelemetryNoItem(i)'
        /\ closed /\ TelemetryNoItem(0)'
    BY <1>1, TelemetryTookMessage
  <1>3. flight = {} /\ verdict = "none"
    BY <1>1 DEF TelemetryIInv, TelemetryClosing, Telemetry!Idle
  <1>4. /\ flush \in [at : {"none", "sending", "waiting", "ok", "err"}, target : 0..MaxItems,
                      late : BOOLEAN, calls : Nat]
        /\ overflow \in Seq(Telemetry!Items) /\ batch \subseteq Telemetry!Items /\ dropped \subseteq Telemetry!Items
    BY DEF TelemetryIInv, TelemetryTypes
  <1>5. CASE shutLate
    <2>1. /\ gone' = TRUE /\ verdict' = "failed" /\ UNCHANGED <<worker, batch, overflow, dropped>>
      BY <1>5 DEF Telemetry!TakeShutdown
    <2>2. worker' = Telemetry!Idle /\ worker'.why # "shutdown"
          /\ worker' \in [at : {"idle", "write", "flush"},
                          why : {"none", "items", "interval", "flush", "shutdown"}, tries : Nat]
      BY <1>1, <2>1 DEF Telemetry!Idle
    <2> QED BY <1>1, <1>2, <1>3, <1>4, <2>1, <2>2, TelemetryTurnKeeps
  <1>6. CASE ~shutLate
    <2>1. /\ Telemetry!Drain(batch, Len(overflow)) /\ gone' = (batch' = {})
          /\ IF batch' = {} THEN worker' = Telemetry!Idle
             ELSE worker' = [at |-> "write", why |-> "shutdown", tries |-> 0]
          /\ IF batch' = {} THEN verdict' = IF dropped' = dropped THEN Telemetry!Verdict(committed) ELSE "loss"
             ELSE UNCHANGED verdict
      BY <1>6 DEF Telemetry!TakeShutdown, Telemetry!WriteOrIdle
    <2>2. /\ overflow' = <<>> /\ overflow' \in Seq(Telemetry!Items) /\ batch' \subseteq Telemetry!Items /\ dropped' \subseteq Telemetry!Items
          /\ batch \subseteq batch' /\ dropped \subseteq dropped'
          /\ \A i \in DOMAIN overflow : \/ overflow[i] \in dropped' \cup batch'
                                        \/ \E j \in DOMAIN overflow' : overflow'[j] = overflow[i]
      <3>1. Len(overflow) \in Nat
        BY <1>4
      <3> QED BY <1>4, <2>1, <3>1, TelemetryDrained DEF TelemetryIInv
    <2>3. /\ worker' \in [at : {"idle", "write", "flush"},
                          why : {"none", "items", "interval", "flush", "shutdown"}, tries : Nat]
          /\ worker'.why = "shutdown" => worker'.at = "write"
          /\ gone' => worker' = Telemetry!Idle
      <3>1. CASE batch' = {}
        BY <2>1, <3>1 DEF Telemetry!Idle
      <3>2. CASE batch' # {}
        <4>1. ~gone'
          BY <2>1, <3>2, Zenon
        <4> QED BY <2>1, <3>2, <4>1
      <3> QED BY <3>1, <3>2
    <2>4. \A i \in DOMAIN main : main[i].kind # "item"
      <3> SUFFICES ASSUME NEW i \in DOMAIN main, main[i].kind = "item" PROVE FALSE
        OBVIOUS
      <3>1. PICK j \in DOMAIN main' : main'[j] = main[i]
        BY <1>1, <1>2
      <3>2. DOMAIN main' = 1..Len(main')
        BY <1>2
      <3> QED BY <1>2, <3>1, <3>2 DEF TelemetryNoItem
    <2>5. batch' = {} => 1..(admission - 1) \subseteq committed \cup dropped'
      <3> SUFFICES ASSUME batch' = {}, NEW n \in 1..(admission - 1) PROVE n \in committed \cup dropped'
        OBVIOUS
      <3>1. DOMAIN overflow' = {}
        BY <2>2
      <3> QED BY <1>3, <2>2, <2>4, <3>1 DEF TelemetryIInv, TelemetryAccounted
    <2>6. Telemetry!Verdict(committed) = "clean" => 1..telemetryAccepted \subseteq committed
      BY DEF Telemetry!Verdict, TelemetryIInv, TelemetryTypes
    <2>7. verdict' = verdict
             \/ /\ closed /\ gone'
                /\ verdict' = "clean" => 1..telemetryAccepted \subseteq committed
                /\ verdict' \in {"clean", "loss"} => 1..(admission - 1) \subseteq committed \cup dropped'
      BY <1>2, <2>1, <2>5, <2>6
    <2>8. \A i \in DOMAIN main : main[i].kind = "item" =>
             main[i].n \in batch' \/ \E j \in DOMAIN main' : main'[j] = main[i]
      BY <2>4
    <2> QED BY <1>1, <1>2, <1>3, <1>4, <2>2, <2>3, <2>7, <2>8, TelemetryTurnKeeps
  <1> QED BY <1>5, <1>6

LEMMA TelemetryBeginWriteKeeps == ASSUME TelemetryLimits, TelemetryIInv, Telemetry!BeginWrite PROVE TelemetryIInv'
  <1> USE DEF TelemetryIInv
  <1>1. /\ worker.at = "write" /\ flight = {} /\ flight' = batch /\ batch' = {}
        /\ UNCHANGED <<admission, telemetryAccepted, gate, closed, shut, main, overflow, committed, dropped, copies,
                       verdict, worker, flush, gone>>
    BY DEF Telemetry!BeginWrite, Telemetry!Calls
  <1>2. TelemetryTypes' /\ TelemetryAccounted'
    BY <1>1 DEF TelemetryTypes, TelemetryAccounted
  <1>3. TelemetryClosing' /\ TelemetryTold'
    BY <1>1 DEF TelemetryClosing, TelemetryNoItem, TelemetryTold
  <1> QED BY <1>2, <1>3

(* A write ends: what was written is stored, or dropped, and the shutdown   *)
(* that waited for it is answered.                                          *)
LEMMA TelemetryWriteKeeps == ASSUME TelemetryLimits, TelemetryIInv, Telemetry!WriteSucceeds \/ Telemetry!WriteRetried \/ Telemetry!WriteDropped PROVE TelemetryIInv'
  <1> USE DEF TelemetryIInv
  <1>1. /\ worker.at = "write" /\ flight # {} /\ batch = {} /\ ~gone /\ verdict = "none"
        /\ UNCHANGED <<admission, telemetryAccepted, gate, closed, shut, main, overflow, batch>>
    BY DEF Telemetry!WriteSucceeds, Telemetry!WriteRetried, Telemetry!WriteDropped, Telemetry!Calls, TelemetryClosing, Telemetry!Idle
  <1>2. copies' \in [Telemetry!Items -> {0, 1}] /\ \A s \in Telemetry!Items : copies[s] > 0 => copies'[s] > 0
    BY DEF Telemetry!WriteSucceeds, Telemetry!WriteRetried, Telemetry!WriteDropped, Telemetry!StoredOrNot, Telemetry!Store, Telemetry!IsNew, TelemetryTypes
  <1>3. CASE Telemetry!WriteRetried
    <2>1. /\ UNCHANGED <<committed, dropped, verdict, flight, flush, gone>>
          /\ worker' = [worker EXCEPT !.tries = @ + 1]
      BY <1>3 DEF Telemetry!WriteRetried
    <2>2. worker'.at = "write" /\ worker'.why = worker.why
          /\ worker' \in [at : {"idle", "write", "flush"},
                          why : {"none", "items", "interval", "flush", "shutdown"}, tries : Nat]
      BY <1>1, <2>1, SMTT(30) DEF TelemetryTypes
    <2>3. TelemetryTypes' /\ TelemetryAccounted'
      BY <1>1, <1>2, <2>1, <2>2 DEF TelemetryTypes, TelemetryAccounted
    <2>4. TelemetryClosing' /\ TelemetryTold'
      BY <1>1, <1>2, <2>1, <2>2 DEF TelemetryClosing, TelemetryNoItem, TelemetryTold, TelemetryTypes
    <2> QED BY <2>3, <2>4
  <1>4. worker.why = "shutdown" => 1..(admission - 1) \subseteq committed \cup dropped \cup flight
    <2> SUFFICES ASSUME worker.why = "shutdown", NEW n \in 1..(admission - 1)
                 PROVE  n \in committed \cup dropped \cup flight
      OBVIOUS
    <2>1. overflow = <<>> /\ TelemetryNoItem(0) /\ DOMAIN main = 1..Len(main)
      BY DEF TelemetryClosing, TelemetryTypes
    <2>2. \A i \in DOMAIN main : main[i].kind # "item"
      BY <2>1 DEF TelemetryNoItem
    <2> QED BY <1>1, <2>1, <2>2 DEF TelemetryAccounted
  <1>5. CASE Telemetry!WriteSucceeds
    <2>1. /\ committed' = committed \cup flight /\ flight' = {} /\ UNCHANGED <<dropped, flush>>
          /\ copies' = Telemetry!Store(flight)
          /\ worker' = IF worker.why = "flush" THEN [at |-> "flush", why |-> "none", tries |-> 0] ELSE Telemetry!Idle
          /\ gone' = (worker.why = "shutdown")
          /\ verdict' = IF worker.why = "shutdown" THEN Telemetry!Verdict(committed') ELSE verdict
      BY <1>5 DEF Telemetry!WriteSucceeds, Telemetry!Idle
    <2>2. worker'.why = "none" /\ (gone' => worker' = Telemetry!Idle)
          /\ worker' \in [at : {"idle", "write", "flush"},
                          why : {"none", "items", "interval", "flush", "shutdown"}, tries : Nat]
      BY <2>1 DEF Telemetry!Idle
    <2>3. TelemetryTypes' /\ TelemetryAccounted'
      BY <1>1, <1>2, <2>1, <2>2 DEF TelemetryTypes, TelemetryAccounted
    <2>4. TelemetryClosing'
      <3>1. CASE worker.why = "shutdown"
        <4>1. gone' = TRUE
          BY <2>1, <3>1, Zenon
        <4> QED BY <1>1, <2>1, <2>2, <3>1, <4>1 DEF TelemetryClosing, TelemetryNoItem
      <3>2. CASE worker.why # "shutdown"
        BY <1>1, <2>1, <2>2, <3>2 DEF TelemetryClosing, TelemetryNoItem
      <3> QED BY <3>1, <3>2
    <2>5. TelemetryTold'
      <3>1. \A s \in committed' : copies'[s] > 0
        BY <1>2, <2>1 DEF TelemetryTold, Telemetry!Store, Telemetry!IsNew, TelemetryTypes
      <3>2. verdict' = "clean" => 1..telemetryAccepted \subseteq committed'
        <4>1. Telemetry!Verdict(committed') = "clean" => telemetryAccepted = 0 \/ 1..telemetryAccepted \subseteq committed'
          BY DEF Telemetry!Verdict
        <4> QED BY <1>1, <2>1, <4>1
      <3>3. verdict' \in {"clean", "loss"} => 1..(admission - 1) \subseteq committed' \cup dropped
        BY <1>1, <1>4, <2>1
      <3> QED BY <1>1, <2>1, <3>1, <3>2, <3>3 DEF TelemetryTold
    <2> QED BY <2>3, <2>4, <2>5
  <1>6. CASE Telemetry!WriteDropped
    <2>1. /\ dropped' = dropped \cup flight /\ flight' = {} /\ UNCHANGED committed /\ worker' = Telemetry!Idle
          /\ flush' = flush \/ flush' = [flush EXCEPT !.at = "err"]
          /\ gone' = (worker.why = "shutdown")
          /\ verdict' = IF worker.why = "shutdown" THEN "failed" ELSE verdict
      BY <1>6 DEF Telemetry!WriteDropped, Telemetry!Dropping, Telemetry!Reply
    <2>2. worker'.why = "none"
          /\ worker' \in [at : {"idle", "write", "flush"},
                          why : {"none", "items", "interval", "flush", "shutdown"}, tries : Nat]
      BY <2>1 DEF Telemetry!Idle
    <2>3. /\ flush' \in [at : {"none", "sending", "waiting", "ok", "err"}, target : 0..MaxItems,
                         late : BOOLEAN, calls : Nat]
          /\ flush'.at = "ok" => flush' = flush
      BY <2>1 DEF TelemetryTypes
    <2>4. TelemetryTypes' /\ TelemetryAccounted'
      BY <1>1, <1>2, <2>1, <2>2, <2>3 DEF TelemetryTypes, TelemetryAccounted
    <2>5. TelemetryClosing'
      <3>1. CASE worker.why = "shutdown"
        <4>1. gone' = TRUE
          BY <2>1, <3>1, Zenon
        <4> QED BY <1>1, <2>1, <2>2, <3>1, <4>1 DEF TelemetryClosing, TelemetryNoItem
      <3>2. CASE worker.why # "shutdown"
        BY <1>1, <2>1, <2>2, <3>2 DEF TelemetryClosing, TelemetryNoItem
      <3> QED BY <3>1, <3>2
    <2>6. TelemetryTold'
      BY <1>1, <1>2, <2>1, <2>3 DEF TelemetryTold, TelemetryTypes
    <2> QED BY <2>4, <2>5, <2>6
  <1> QED BY <1>3, <1>5, <1>6

LEMMA TelemetryNextInv == ASSUME TelemetryLimits, TelemetryIInv, [Telemetry!Next]_(Telemetry!vars) PROVE TelemetryIInv'
  <1>1. CASE UNCHANGED Telemetry!vars
    BY <1>1 DEF Telemetry!vars, TelemetryIInv, TelemetryTypes, TelemetryAccounted, TelemetryClosing, TelemetryNoItem, TelemetryTold
  <1> QED BY <1>1, TelemetryCallsKeep, TelemetryEnqueueKeeps, TelemetrySendsKeep, TelemetryTakeItemKeeps, TelemetryTickKeeps, TelemetryTakeFlushKeeps,
             TelemetryFlushTurnKeeps, TelemetryTakeShutdownKeeps, TelemetryBeginWriteKeeps, TelemetryWriteKeeps DEF Telemetry!Next

LEMMA TelemetryInvTells == ASSUME TelemetryLimits, TelemetryIInv PROVE Telemetry!ReportsAreTrue /\ Telemetry!StoredOnce
  <1>1. shut = "clean" => \A s \in 1..telemetryAccepted : copies[s] > 0
    BY DEF TelemetryIInv, TelemetryClosing, TelemetryTold
  <1>2. flush.at = "ok" => \A s \in 1..flush.target : copies[s] > 0
    BY DEF TelemetryIInv, TelemetryTold
  <1>3. shut \in {"clean", "loss"} => 1..(admission - 1) \subseteq committed \cup dropped
    BY DEF TelemetryIInv, TelemetryClosing, TelemetryTold
  <1>4. Telemetry!StoredOnce
    BY DEF TelemetryIInv, TelemetryTypes, Telemetry!StoredOnce
  <1> QED BY <1>1, <1>2, <1>3, <1>4 DEF Telemetry!ReportsAreTrue

LEMMA TelemetryStep == [Next]_vars => [Telemetry!Next]_(Telemetry!vars)
  BY DEF Next, vars, OfRecovery, OfTelemetry, OfPresence, OfManaged, OfModeration,
         OfDirectory, telemetryVars, Telemetry!vars

(* A flush or a shutdown that reports success has stored what it stands for, *)
(* one that reports a loss has accounted for each item that was admitted,    *)
(* and nothing is stored twice, whatever the retries and the drops           *)
(* (high_frequency/writer.rs, postgres.rs).                                  *)
THEOREM TelemetryIsTrueHolds ==
  ASSUME TelemetryLimits
  PROVE  Spec => []TelemetryIsTrue
  <1>1. Init => TelemetryIInv
    BY TelemetryInitInv DEF Init
  <1>2. TelemetryIInv /\ [Next]_vars => TelemetryIInv'
    BY TelemetryStep, TelemetryNextInv
  <1>3. TelemetryIInv => TelemetryIsTrue
    BY TelemetryInvTells DEF TelemetryIsTrue
  <1> QED BY <1>1, <1>2, <1>3, PTL DEF Spec

-----------------------------------------------------------------------------
(***************************************************************************)
(* Presence.  The tables between the events of the log are a chain c: each *)
(* is what its event makes of the one before, the first is the table now   *)
(* and the last the table once the log is written.  What has to be true in *)
(* the end is true of the last one all the time.                           *)
(***************************************************************************)
PresenceLimits == MaxTime \in Nat /\ MaxSessions \in Nat /\ PresenceCrashes \in Nat

PresenceRows == [session : Nat, start : Nat, inst : Nat]
PresenceTables == [total : Nat, row : PresenceRows, logins : Nat, left : Nat]
PresenceEvents == [kind : {"authenticated", "disconnect", "offline"}, session : Nat \ {0}, at : Nat, inst : Presence!Instances]

(* The table after an event. *)
PresenceApply(e, t) ==
    CASE e.kind = "authenticated" ->
             IF e.session <= t.logins THEN t
             ELSE [total |-> t.total, row |-> Presence!Online(e), logins |-> t.logins + 1, left |-> t.left]
      [] e.kind = "disconnect" ->
             IF t.logins = e.session /\ e.at > t.left THEN [t EXCEPT !.left = e.at] ELSE t
      [] e.kind = "offline" ->
             IF t.row.session = e.session /\ t.row.inst = e.inst
             THEN [total |-> t.total + (e.at - t.row.start), row |-> Presence!Offline,
                   logins |-> t.logins, left |-> t.left]
             ELSE t

(* An event that a table may meet, when m sessions were made and it is k. *)
PresenceFits(e, t, m, k) ==
    /\ e.session <= m /\ e.at <= k /\ t.row.start <= e.at
    /\ e.kind = "authenticated" => e.session <= t.logins + 1

(* A table that says nothing of what is still to come. *)
PresenceSound(t, m, k) ==
    t.row = Presence!Offline \/ (t.row.session \in 1..m /\ t.row.start <= k /\ t.row.inst \in Presence!Instances)

(* c has the tables between the events of q. *)
PresenceFollows(c, q, m, k) ==
    /\ q \in Seq(PresenceEvents) /\ c \in [0..Len(q) -> PresenceTables]
    /\ \A i \in 1..Len(q) : c[i] = PresenceApply(q[i], c[i - 1])
       /\ PresenceFits(q[i], c[i - 1], m, k)
    /\ \A i \in 0..Len(q) : PresenceSound(c[i], m, k) /\ c[i].total <= c[Len(q)].total

PresenceLater(t, x) == [t EXCEPT !.total = @ + x]

LEMMA PresenceApplyTells ==
  ASSUME PresenceLimits, NEW m \in Nat, NEW k \in Nat, NEW e \in PresenceEvents,
         NEW t \in PresenceTables, PresenceFits(e, t, m, k), PresenceSound(t, m, k)
  PROVE  /\ PresenceApply(e, t) \in PresenceTables /\ PresenceSound(PresenceApply(e, t), m, k)
         /\ t.total <= PresenceApply(e, t).total
         /\ PresenceFits(e, PresenceApply(e, t), m, k)
            /\ PresenceApply(e, PresenceApply(e, t)) = PresenceApply(e, t)
  <1>1. CASE e.kind = "authenticated"
    <2>1. CASE e.session <= t.logins
      <3>1. PresenceApply(e, t) = t
        BY <1>1, <2>1 DEF PresenceApply
      <3> QED BY <3>1 DEF PresenceTables
    <2>2. CASE ~(e.session <= t.logins)
      <3> DEFINE r == [total |-> t.total, row |-> Presence!Online(e), logins |-> t.logins + 1, left |-> t.left]
      <3>1. PresenceApply(e, t) = r
        BY <1>1, <2>2 DEF PresenceApply
      <3>2. /\ r \in PresenceTables /\ r.total = t.total /\ r.logins = t.logins + 1
               /\ r.left = t.left
            /\ r.row = [session |-> e.session, start |-> e.at, inst |-> e.inst]
        <4>1. Presence!Online(e) = [session |-> e.session, start |-> e.at, inst |-> e.inst]
          BY DEF Presence!Online
        <4>2. e.session \in Nat /\ e.at \in Nat /\ e.inst \in Nat
          BY DEF PresenceEvents, Presence!Instances, PresenceLimits
        <4>3. Presence!Online(e) \in PresenceRows
          BY <4>1, <4>2 DEF PresenceRows
        <4>5. t.total \in Nat /\ t.logins + 1 \in Nat /\ t.left \in Nat
          BY DEF PresenceTables
        <4> QED BY <4>1, <4>3, <4>5 DEF PresenceTables
      <3>3. e.session <= r.logins
        BY <1>1, <3>2 DEF PresenceFits, PresenceTables, PresenceEvents
      <3>4. PresenceApply(e, r) = r
        BY <1>1, <3>3 DEF PresenceApply
      <3>5. PresenceSound(r, m, k)
        BY <3>2 DEF PresenceSound, PresenceFits, PresenceEvents
      <3>6. PresenceFits(e, r, m, k)
        BY <3>2, <3>3 DEF PresenceFits, PresenceEvents, PresenceTables
      <3> QED BY <3>1, <3>2, <3>4, <3>5, <3>6 DEF PresenceTables
    <2> QED BY <2>1, <2>2
  <1>2. CASE e.kind = "disconnect"
    <2>1. CASE ~(t.logins = e.session /\ e.at > t.left)
      BY <1>2, <2>1 DEF PresenceApply, PresenceTables
    <2>2. CASE t.logins = e.session /\ e.at > t.left
      <3> DEFINE r == [t EXCEPT !.left = e.at]
      <3>1. PresenceApply(e, t) = r
        BY <1>2, <2>2 DEF PresenceApply
      <3>2. /\ r \in PresenceTables /\ r.total = t.total /\ r.logins = t.logins /\ r.left = e.at
            /\ r.row = t.row
        BY DEF PresenceTables, PresenceEvents
      <3>3. PresenceApply(e, r) = r
        BY <1>2, <3>2 DEF PresenceApply, PresenceEvents
      <3> QED BY <3>1, <3>2, <3>3 DEF PresenceSound, PresenceFits, PresenceTables
    <2> QED BY <2>1, <2>2
  <1>3. CASE e.kind = "offline"
    <2>1. CASE ~(t.row.session = e.session /\ t.row.inst = e.inst)
      BY <1>3, <2>1 DEF PresenceApply, PresenceTables
    <2>2. CASE t.row.session = e.session /\ t.row.inst = e.inst
      <3> DEFINE r == [total |-> t.total + (e.at - t.row.start), row |-> Presence!Offline, logins |-> t.logins, left |-> t.left]
      <3>1. PresenceApply(e, t) = r
        BY <1>3, <2>2 DEF PresenceApply
      <3>2. e.at - t.row.start \in Nat
        BY DEF PresenceFits, PresenceTables, PresenceRows, PresenceEvents
      <3>3. /\ r \in PresenceTables /\ r.total = t.total + (e.at - t.row.start)
               /\ r.logins = t.logins
            /\ r.left = t.left /\ r.row = Presence!Offline /\ t.total <= r.total
        <4>1. Presence!Offline \in PresenceRows
          BY DEF Presence!Offline, PresenceRows
        <4>2. t.total \in Nat /\ t.total + (e.at - t.row.start) \in Nat
          BY <3>2 DEF PresenceTables
        <4> HIDE DEF Presence!Offline
        <4>4. t.logins \in Nat /\ t.left \in Nat
          BY DEF PresenceTables
        <4> QED BY <3>2, <4>1, <4>2, <4>4 DEF PresenceTables
      <3>4. PresenceApply(e, r) = r
        BY <1>3, <3>3 DEF PresenceApply, PresenceEvents, Presence!Offline
      <3>5. PresenceFits(e, r, m, k)
        BY <1>3, <3>3 DEF PresenceFits, Presence!Offline, PresenceEvents
      <3> QED BY <3>1, <3>3, <3>4, <3>5 DEF PresenceSound
    <2> QED BY <2>1, <2>2
  <1> QED BY <1>1, <1>2, <1>3 DEF PresenceEvents

LEMMA PresenceLaterTells ==
  ASSUME NEW t \in PresenceTables, NEW x \in Nat
  PROVE  /\ PresenceLater(t, x) \in PresenceTables /\ PresenceLater(t, x).total = t.total + x
         /\ PresenceLater(t, x).row = t.row /\ PresenceLater(t, x).logins = t.logins
            /\ PresenceLater(t, x).left = t.left
  BY DEF PresenceLater, PresenceTables

LEMMA PresenceApplyLater ==
  ASSUME NEW e \in PresenceEvents, NEW t \in PresenceTables, NEW x \in Nat, t.row.start <= e.at
  PROVE  PresenceApply(e, PresenceLater(t, x)) = PresenceLater(PresenceApply(e, t), x)
  <1> DEFINE u == PresenceLater(t, x)
  <1>0. u \in PresenceTables /\ u.total = t.total + x /\ u.row = t.row
        /\ u.logins = t.logins /\ u.left = t.left
    BY PresenceLaterTells
  <1>1. CASE e.kind = "authenticated"
    <2>1. CASE e.session <= t.logins
      BY <1>0, <1>1, <2>1 DEF PresenceApply
    <2>2. CASE ~(e.session <= t.logins)
      <3>1. PresenceApply(e, u) = [total |-> u.total, row |-> Presence!Online(e), logins |-> u.logins + 1, left |-> u.left]
            /\ PresenceApply(e, t) = [total |-> t.total, row |-> Presence!Online(e), logins |-> t.logins + 1, left |-> t.left]
        BY <1>0, <1>1, <2>2 DEF PresenceApply
      <3> QED BY <3>1 DEF PresenceLater, PresenceTables
    <2> QED BY <2>1, <2>2
  <1>2. CASE e.kind = "disconnect"
    <2>1. CASE ~(t.logins = e.session /\ e.at > t.left)
      BY <1>0, <1>2, <2>1 DEF PresenceApply
    <2>2. CASE t.logins = e.session /\ e.at > t.left
      <3>1. PresenceApply(e, u) = [u EXCEPT !.left = e.at]
            /\ PresenceApply(e, t) = [t EXCEPT !.left = e.at]
        BY <1>0, <1>2, <2>2 DEF PresenceApply
      <3> QED BY <3>1 DEF PresenceLater, PresenceTables
    <2> QED BY <2>1, <2>2
  <1>3. CASE e.kind = "offline"
    <2>1. CASE ~(t.row.session = e.session /\ t.row.inst = e.inst)
      BY <1>0, <1>3, <2>1 DEF PresenceApply
    <2>2. CASE t.row.session = e.session /\ t.row.inst = e.inst
      <3>1. /\ PresenceApply(e, u) = [total |-> u.total + (e.at - t.row.start), row |-> Presence!Offline, logins |-> u.logins, left |-> u.left]
            /\ PresenceApply(e, t) = [total |-> t.total + (e.at - t.row.start), row |-> Presence!Offline, logins |-> t.logins, left |-> t.left]
        BY <1>0, <1>3, <2>2 DEF PresenceApply
      <3>2. u.total + (e.at - t.row.start) = (t.total + (e.at - t.row.start)) + x
        BY <1>0 DEF PresenceTables, PresenceRows, PresenceEvents
      <3> QED BY <3>1, <3>2 DEF PresenceLater, PresenceTables
    <2> QED BY <2>1, <2>2
  <1> QED BY <1>1, <1>2, <1>3 DEF PresenceEvents

LEMMA PresenceWeaker ==
  ASSUME NEW m \in Nat, NEW k \in Nat, NEW n \in Nat, NEW l \in Nat, m <= n, k <= l,
         NEW q, NEW c, PresenceFollows(c, q, m, k)
  PROVE  PresenceFollows(c, q, n, l)
  <1>1. \A i \in 1..Len(q) : PresenceFits(q[i], c[i - 1], n, l)
    <2> TAKE i \in 1..Len(q)
    <2>1. q[i] \in PresenceEvents /\ PresenceFits(q[i], c[i - 1], m, k)
      BY DEF PresenceFollows
    <2>2. q[i].session \in Nat /\ q[i].at \in Nat
      BY <2>1 DEF PresenceEvents
    <2> QED BY <2>1, <2>2 DEF PresenceFits
  <1>2. \A i \in 0..Len(q) : PresenceSound(c[i], n, l)
    <2> TAKE i \in 0..Len(q)
    <2>1. c[i] \in PresenceTables /\ PresenceSound(c[i], m, k)
      BY DEF PresenceFollows
    <2>2. c[i].row.session \in Nat /\ c[i].row.start \in Nat
      BY <2>1 DEF PresenceTables, PresenceRows
    <2> QED BY <2>1, <2>2 DEF PresenceSound
  <1> QED BY <1>1, <1>2 DEF PresenceFollows

LEMMA PresenceExtended ==
  ASSUME PresenceLimits, NEW m \in Nat, NEW k \in Nat, NEW q, NEW c, PresenceFollows(c, q, m,
         k),
         NEW e \in PresenceEvents, PresenceFits(e, c[Len(q)], m, k)
  PROVE  \E d : /\ PresenceFollows(d, Append(q, e), m, k) /\ d[0] = c[0]
                /\ d[Len(Append(q, e))] = PresenceApply(e, c[Len(q)])
  <1> DEFINE n == Len(q)
             z == PresenceApply(e, c[n])
             d == [i \in 0..(n + 1) |-> IF i <= n THEN c[i] ELSE z]
             p == Append(q, e)
  <1>1. n \in Nat /\ q \in Seq(PresenceEvents) /\ c \in [0..n -> PresenceTables]
        /\ c[n] \in PresenceTables
    BY DEF PresenceFollows
  <1>2. z \in PresenceTables /\ PresenceSound(z, m, k) /\ c[n].total <= z.total
    BY <1>1, PresenceApplyTells DEF PresenceFollows
  <1>3. p \in Seq(PresenceEvents) /\ Len(p) = n + 1 /\ p[n + 1] = e
        /\ \A i \in 1..n : p[i] = q[i]
    BY <1>1
  <1>4. d \in [0..(n + 1) -> PresenceTables] /\ d[n + 1] = z /\ \A i \in 0..n : d[i] = c[i]
    BY <1>1, <1>2
  <1> HIDE DEF d, z, p
  <1>5. \A i \in 1..(n + 1) : d[i] = PresenceApply(p[i], d[i - 1])
        /\ PresenceFits(p[i], d[i - 1], m, k)
    <2> TAKE i \in 1..(n + 1)
    <2>1. CASE i = n + 1
      <3>1. d[i - 1] = c[n]
        BY <2>1, <1>1, <1>4
      <3> QED BY <2>1, <3>1, <1>3, <1>4 DEF z
    <2>2. CASE i # n + 1
      <3>1. i \in 1..n /\ i - 1 \in 0..n
        BY <2>2, <1>1
      <3>2. d[i] = c[i] /\ d[i - 1] = c[i - 1] /\ p[i] = q[i]
        BY <3>1, <1>3, <1>4, <1>1
      <3> QED BY <3>1, <3>2 DEF PresenceFollows
    <2> QED BY <2>1, <2>2
  <1>6. \A i \in 0..(n + 1) : PresenceSound(d[i], m, k) /\ d[i].total <= z.total
    <2> TAKE i \in 0..(n + 1)
    <2>1. CASE i = n + 1
      BY <2>1, <1>2, <1>4 DEF PresenceTables
    <2>2. CASE i # n + 1
      <3>1. i \in 0..n
        BY <2>2, <1>1
      <3>2. d[i] = c[i] /\ c[i].total <= c[n].total /\ PresenceSound(c[i], m, k)
            /\ c[i] \in PresenceTables
        BY <3>1, <1>1, <1>4 DEF PresenceFollows
      <3> QED BY <3>2, <1>1, <1>2 DEF PresenceTables
    <2> QED BY <2>1, <2>2
  <1>7. PresenceFollows(d, p, m, k)
    BY <1>3, <1>4, <1>5, <1>6 DEF PresenceFollows
  <1>8. d[0] = c[0] /\ d[Len(p)] = z
    BY <1>1, <1>3, <1>4
  <1> QED BY <1>7, <1>8 DEF p, z

LEMMA PresenceWritten ==
  ASSUME PresenceLimits, NEW m \in Nat, NEW k \in Nat, NEW q, NEW c, PresenceFollows(c, q, m,
         k), q # <<>>
  PROVE  \E d : /\ PresenceFollows(d, Tail(q), m, k) /\ d[0] = PresenceApply(q[1], c[0])
                /\ d[Len(Tail(q))] = c[Len(q)]
  <1> DEFINE n == Len(q)
             d == [i \in 0..(n - 1) |-> c[i + 1]]
             p == Tail(q)
  <1>1. n \in Nat \ {0} /\ q \in Seq(PresenceEvents) /\ c \in [0..n -> PresenceTables]
    BY DEF PresenceFollows
  <1>3. p \in Seq(PresenceEvents) /\ Len(p) = n - 1 /\ \A i \in 1..(n - 1) : p[i] = q[i + 1]
    BY <1>1
  <1>4. d \in [0..(n - 1) -> PresenceTables] /\ \A i \in 0..(n - 1) : d[i] = c[i + 1]
    BY <1>1
  <1> HIDE DEF d, p
  <1>5. \A i \in 1..(n - 1) : d[i] = PresenceApply(p[i], d[i - 1])
        /\ PresenceFits(p[i], d[i - 1], m, k)
    <2> TAKE i \in 1..(n - 1)
    <2>1. i + 1 \in 1..n /\ i - 1 \in 0..(n - 1) /\ i \in 0..(n - 1) /\ (i + 1) - 1 = i
          /\ (i - 1) + 1 = i
      BY <1>1
    <2>2. d[i] = c[i + 1] /\ d[i - 1] = c[i] /\ p[i] = q[i + 1]
      BY <2>1, <1>3, <1>4
    <2>3. c[i + 1] = PresenceApply(q[i + 1], c[(i + 1) - 1])
          /\ PresenceFits(q[i + 1], c[(i + 1) - 1], m, k)
      BY <2>1 DEF PresenceFollows
    <2> QED BY <2>1, <2>2, <2>3
  <1>6. d[n - 1] = c[n]
    BY <1>1, <1>4
  <1>7. \A i \in 0..(n - 1) : PresenceSound(d[i], m, k) /\ d[i].total <= c[n].total
    <2> TAKE i \in 0..(n - 1)
    <2>1. i + 1 \in 0..n
      BY <1>1
    <2> QED BY <2>1, <1>4 DEF PresenceFollows
  <1>8. PresenceFollows(d, p, m, k)
    BY <1>3, <1>4, <1>5, <1>6, <1>7 DEF PresenceFollows
  <1>9. d[0] = PresenceApply(q[1], c[0])
    BY <1>1, <1>4 DEF PresenceFollows
  <1> QED BY <1>3, <1>6, <1>8, <1>9 DEF p

LEMMA PresenceWrittenAgain ==
  ASSUME PresenceLimits, NEW m \in Nat, NEW k \in Nat, NEW q, NEW c, PresenceFollows(c, q, m,
         k), q # <<>>
  PROVE  \E d : /\ PresenceFollows(d, q, m, k) /\ d[0] = PresenceApply(q[1], c[0])
                /\ d[Len(q)] = c[Len(q)]
  <1> DEFINE n == Len(q)
             d == [i \in 0..n |-> IF i = 0 THEN c[1] ELSE c[i]]
  <1>1. n \in Nat \ {0} /\ q \in Seq(PresenceEvents) /\ c \in [0..n -> PresenceTables]
        /\ q[1] \in PresenceEvents
        /\ c[0] \in PresenceTables
    BY DEF PresenceFollows
  <1>2. c[1] = PresenceApply(q[1], c[0]) /\ PresenceFits(q[1], c[0], m, k)
        /\ PresenceSound(c[0], m, k)
    BY <1>1 DEF PresenceFollows
  <1>3. PresenceFits(q[1], c[1], m, k) /\ PresenceApply(q[1], c[1]) = c[1]
    BY <1>1, <1>2, PresenceApplyTells
  <1>4. d \in [0..n -> PresenceTables] /\ d[0] = c[1] /\ \A i \in 1..n : d[i] = c[i]
    BY <1>1
  <1> HIDE DEF d
  <1>5. \A i \in 1..n : d[i] = PresenceApply(q[i], d[i - 1])
        /\ PresenceFits(q[i], d[i - 1], m, k)
    <2> TAKE i \in 1..n
    <2>1. CASE i = 1
      BY <2>1, <1>1, <1>3, <1>4
    <2>2. CASE i # 1
      <3>1. i - 1 \in 1..n
        BY <2>2, <1>1
      <3> QED BY <3>1, <1>4 DEF PresenceFollows
    <2> QED BY <2>1, <2>2
  <1>6. \A i \in 0..n : PresenceSound(d[i], m, k) /\ d[i].total <= c[n].total
    <2> TAKE i \in 0..n
    <2>1. CASE i = 0
      <3>1. 1 \in 0..n
        BY <1>1
      <3> QED BY <2>1, <3>1, <1>4 DEF PresenceFollows
    <2>2. CASE i # 0
      BY <2>2, <1>1, <1>4 DEF PresenceFollows
    <2> QED BY <2>1, <2>2
  <1>7. d[n] = c[n]
    BY <1>1, <1>4
  <1> QED BY <1>1, <1>2, <1>4, <1>5, <1>6, <1>7 DEF PresenceFollows

LEMMA PresenceAccrued ==
  ASSUME NEW m \in Nat, NEW k \in Nat, NEW q, NEW c, PresenceFollows(c, q, m, k), NEW x \in Nat
  PROVE  \E d : /\ PresenceFollows(d, q, m, k) /\ d[0] = PresenceLater(c[0], x)
                /\ d[Len(q)] = PresenceLater(c[Len(q)], x)
  <1> DEFINE n == Len(q)
             d == [i \in 0..n |-> PresenceLater(c[i], x)]
  <1>1. n \in Nat /\ q \in Seq(PresenceEvents) /\ c \in [0..n -> PresenceTables]
    BY DEF PresenceFollows
  <1>2. \A i \in 0..n : PresenceLater(c[i], x) \in PresenceTables
    BY <1>1, PresenceLaterTells
  <1>3. d \in [0..n -> PresenceTables] /\ \A i \in 0..n : d[i] = PresenceLater(c[i], x)
    BY <1>2
  <1> HIDE DEF d
  <1>4. \A i \in 1..n : d[i] = PresenceApply(q[i], d[i - 1])
        /\ PresenceFits(q[i], d[i - 1], m, k)
    <2> TAKE i \in 1..n
    <2>1. i - 1 \in 0..n /\ i \in 0..n /\ q[i] \in PresenceEvents /\ c[i - 1] \in PresenceTables
      BY <1>1
    <2>2. c[i] = PresenceApply(q[i], c[i - 1]) /\ PresenceFits(q[i], c[i - 1], m, k)
      BY DEF PresenceFollows
    <2>3. PresenceApply(q[i], PresenceLater(c[i - 1], x)) = PresenceLater(PresenceApply(q[i], c[i - 1]), x)
      BY <2>1, <2>2, PresenceApplyLater DEF PresenceFits
    <2>4. PresenceFits(q[i], PresenceLater(c[i - 1], x), m, k)
      BY <2>1, <2>2, PresenceLaterTells DEF PresenceFits
    <2> QED BY <2>1, <2>2, <2>3, <2>4, <1>3
  <1>5. \A i \in 0..n : PresenceSound(d[i], m, k) /\ d[i].total <= d[n].total
    <2> TAKE i \in 0..n
    <2>1. n \in 0..n
      BY <1>1
    <2>2. /\ d[i].row = c[i].row /\ d[i].total = c[i].total + x
          /\ d[n].total = c[n].total + x
      <3>1. c[i] \in PresenceTables /\ c[n] \in PresenceTables
            /\ d[i] = PresenceLater(c[i], x) /\ d[n] = PresenceLater(c[n], x)
        BY <2>1, <1>1, <1>3
      <3>2. \A t \in PresenceTables : PresenceLater(t, x).row = t.row
            /\ PresenceLater(t, x).total = t.total + x
        BY PresenceLaterTells
      <3> QED BY <3>1, <3>2
    <2>3. PresenceSound(c[i], m, k) /\ c[i].total <= c[n].total
      BY DEF PresenceFollows
    <2>4. c[i].total \in Nat /\ c[n].total \in Nat
      BY <2>1, <1>1 DEF PresenceTables
    <2> QED BY <2>2, <2>3, <2>4 DEF PresenceSound
  <1>6. 0 \in 0..n /\ n \in 0..n
    BY <1>1
  <1> QED BY <1>1, <1>3, <1>4, <1>5, <1>6 DEF PresenceFollows

LEMMA PresenceAlone ==
  ASSUME NEW m \in Nat, NEW k \in Nat, NEW t \in PresenceTables, PresenceSound(t, m, k)
  PROVE  \E d : PresenceFollows(d, <<>>, m, k) /\ d[0] = t
  <1> DEFINE d == [i \in 0..0 |-> t]
  <1>1. d \in [0..0 -> PresenceTables] /\ d[0] = t /\ \A i \in 0..0 : d[i] = t
    OBVIOUS
  <1> HIDE DEF d
  <1>2. PresenceFollows(d, <<>>, m, k)
    BY <1>1 DEF PresenceFollows, PresenceTables
  <1> QED BY <1>1, <1>2

-----------------------------------------------------------------------------
PresenceNow == [total |-> total, row |-> row, logins |-> logins, left |-> left]

PresenceTyped ==
    /\ clock \in Nat /\ made \in Nat /\ total \in Nat /\ lived \in Nat /\ played \in Nat
    /\ up \in BOOLEAN /\ linked \in BOOLEAN /\ inroom \in BOOLEAN
    /\ losing \in BOOLEAN /\ waits \in BOOLEAN /\ presenceDue = {}
    /\ inst \in Presence!Instances /\ alive \in [Presence!Instances -> Nat]
       /\ \A i \in Presence!Instances : alive[i] <= clock
    /\ session \in {0, made} /\ (linked \/ inroom => session # 0) /\ (~up => session = 0)
    /\ entered \in Nat /\ (entered # Presence!Never => inroom /\ entered <= clock)
    /\ parted \in Nat /\ parted <= clock
    /\ presenceLetters = <<>>
    /\ visits \in Seq(Nat) /\ Len(visits) = logins /\ \A i \in 1..logins : visits[i] = i

(* What is still to be added to the total, for the room and for the session. *)
PresenceRoomTime == IF entered # Presence!Never THEN clock - entered ELSE 0

PresenceOnlineTime(z) ==
    IF up THEN IF session # 0 THEN clock - z.row.start ELSE 0
    ELSE IF z.row # Presence!Offline /\ alive[z.row.inst] > z.row.start
         THEN alive[z.row.inst] - z.row.start ELSE 0

(* The table once the log is written, and r is still to be added for rooms. *)
PresenceOwes(z, r) ==
    /\ z.logins = made /\ z.left = parted
    /\ up => z.row.session = session /\ (session # 0 => z.row.inst = inst)
    /\ z.total + r + PresenceOnlineTime(z) <= lived + played

PresenceAtEnd(z) == PresenceOwes(z, PresenceRoomTime)

PresenceSettling ==
    /\ PresenceTyped
    /\ \E c, z : /\ PresenceFollows(c, presenceLog, made, clock)
                 /\ c[0] = PresenceNow /\ c[Len(presenceLog)] = z /\ PresenceAtEnd(z)

PresenceIInv == Presence!Calm => PresenceSettling

LEMMA PresenceEnds ==
  ASSUME NEW c, NEW q, NEW m, NEW k, PresenceFollows(c, q, m, k)
  PROVE  c[Len(q)] \in PresenceTables /\ PresenceSound(c[Len(q)], m, k) /\ Len(q) \in Nat
         /\ q \in Seq(PresenceEvents)
         /\ c[0] \in PresenceTables /\ c[0].total <= c[Len(q)].total
  BY DEF PresenceFollows

(* The session that is online has a row that is not in the future. *)
LEMMA PresenceRowIsPast ==
  ASSUME PresenceLimits, PresenceTyped, NEW z \in PresenceTables, PresenceSound(z, made,
         clock), PresenceAtEnd(z)
  PROVE  /\ z.row.start \in Nat /\ z.row.session \in Nat /\ z.total \in Nat
         /\ z.row.start <= clock
         /\ up /\ session # 0 => z.row # Presence!Offline /\ z.row.inst = inst
         /\ up /\ session = 0 => z.row = Presence!Offline
         /\ z.row # Presence!Offline => z.row.inst \in Presence!Instances
  <1>1. z.row.start \in Nat /\ z.row.session \in Nat /\ z.total \in Nat /\ z.row.inst \in Nat
    BY DEF PresenceTables, PresenceRows
  <1> QED BY <1>1 DEF PresenceSound, PresenceAtEnd, PresenceOwes, PresenceTyped, Presence!Offline

(* Both times are numbers. *)
LEMMA PresenceTimesAreNat ==
  ASSUME PresenceLimits, PresenceTyped, NEW z \in PresenceTables, PresenceSound(z, made,
         clock), PresenceAtEnd(z)
  PROVE  PresenceRoomTime \in Nat /\ PresenceOnlineTime(z) \in Nat
  <1>1. z.row.start \in Nat /\ z.row.start <= clock
        /\ (z.row # Presence!Offline => z.row.inst \in Presence!Instances)
    BY PresenceRowIsPast
  <1>2. clock \in Nat /\ (entered # Presence!Never => entered \in Nat /\ entered <= clock)
        /\ \A i \in Presence!Instances : alive[i] \in Nat
    BY DEF PresenceTyped
  <1>3. PresenceRoomTime \in Nat
    BY <1>2 DEF PresenceRoomTime
  <1>4. PresenceOnlineTime(z) \in Nat
    BY <1>1, <1>2 DEF PresenceOnlineTime
  <1> QED BY <1>3, <1>4

LEMMA PresenceInitInv == ASSUME PresenceLimits PROVE Presence!Init => PresenceIInv
  <1> SUFFICES ASSUME Presence!Init PROVE PresenceSettling
    BY DEF PresenceIInv
  <1> DEFINE t == [total |-> 0, row |-> Presence!Offline, logins |-> 0, left |-> 0]
  <1>1. t \in PresenceTables /\ PresenceNow = t /\ t.row = Presence!Offline
        /\ t.total = 0 /\ t.logins = 0 /\ t.left = 0
    BY DEF PresenceTables, PresenceRows, Presence!Offline, PresenceNow, Presence!Init
  <1> HIDE DEF t
  <1>2. made = 0 /\ clock = 0 /\ presenceLog = <<>> /\ Len(presenceLog) = 0
    BY DEF Presence!Init
  <1>3. PICK d : PresenceFollows(d, <<>>, 0, 0) /\ d[0] = t
    <2>1. PresenceSound(t, 0, 0)
      BY <1>1 DEF PresenceSound
    <2>2. 0 \in Nat
      OBVIOUS
    <2> QED BY ONLY <1>1, <2>1, <2>2, PresenceAlone
  <1>4. PresenceTyped
    <2>1. inst \in Presence!Instances /\ alive \in [Presence!Instances -> Nat]
          /\ \A i \in Presence!Instances : alive[i] <= clock
      BY DEF Presence!Init, PresenceLimits, Presence!Instances
    <2>2. visits \in Seq(Nat) /\ Len(visits) = logins /\ \A i \in 1..logins : visits[i] = i
      BY DEF Presence!Init
    <2>3. entered \in Nat /\ entered = Presence!Never
      BY DEF Presence!Init, Presence!Never, PresenceLimits
    <2> QED BY <2>1, <2>2, <2>3 DEF Presence!Init, PresenceTyped
  <1>5. PresenceAtEnd(t)
    <2>1. PresenceRoomTime = 0
      BY DEF PresenceRoomTime, Presence!Init
    <2>2. PresenceOnlineTime(t) = 0
      BY DEF PresenceOnlineTime, Presence!Init
    <2> QED BY <1>1, <2>1, <2>2 DEF PresenceAtEnd, PresenceOwes, Presence!Init, Presence!Offline
  <1> QED BY <1>1, <1>2, <1>3, <1>4, <1>5 DEF PresenceSettling

LEMMA PresenceTickKeeps ==
  ASSUME PresenceLimits, PresenceSettling, Presence!Tick
  PROVE  PresenceSettling'
  <1>1. PICK c, z : PresenceFollows(c, presenceLog, made, clock) /\ c[0] = PresenceNow
        /\ c[Len(presenceLog)] = z /\ PresenceAtEnd(z)
    BY DEF PresenceSettling
  <1>2. z \in PresenceTables /\ PresenceSound(z, made, clock)
    BY <1>1, PresenceEnds
  <1>3. PresenceTyped'
    BY DEF PresenceSettling, PresenceTyped, Presence!Tick, Presence!queue, Presence!user,
       Presence!link, Presence!table,
       Presence!server, Presence!truth, Presence!time, Presence!Never
  <1>4. PresenceFollows(c, presenceLog', made', clock') /\ c[0] = PresenceNow'
        /\ c[Len(presenceLog')] = z
    <2>1. clock \in Nat /\ clock' = clock + 1 /\ made \in Nat
      BY DEF PresenceSettling, PresenceTyped, Presence!Tick, Presence!queue
    <2>2. PresenceFollows(c, presenceLog, made, clock')
      BY <1>1, <2>1, PresenceWeaker
    <2> QED BY <1>1, <2>2 DEF Presence!Tick, Presence!queue, Presence!user, Presence!link,
       Presence!table, PresenceNow
  <1>5. PresenceAtEnd(z)'
    <2>1. z.row.start \in Nat /\ z.total \in Nat /\ z.row.start <= clock
      BY <1>1, <1>2, PresenceRowIsPast DEF PresenceSettling
    <2>2. PresenceOnlineTime(z) \in Nat /\ PresenceRoomTime \in Nat
      BY <1>1, <1>2, PresenceTimesAreNat DEF PresenceSettling
    <2>3. PresenceOnlineTime(z)' = IF session # 0 THEN PresenceOnlineTime(z) + 1 ELSE PresenceOnlineTime(z)
      <3>1. up \in BOOLEAN /\ (~up => session = 0) /\ UNCHANGED <<up, session, alive>>
        BY DEF Presence!Tick, Presence!queue, Presence!user, Presence!link, Presence!server,
           PresenceSettling, PresenceTyped
      <3>2. CASE session = 0
        BY <3>1, <3>2 DEF PresenceOnlineTime
      <3>3. CASE session # 0
        <4>1. up /\ up' /\ session' # 0
          BY <3>1, <3>3
        <4>2. PresenceOnlineTime(z) = clock - z.row.start
          BY <3>3, <4>1 DEF PresenceOnlineTime
        <4>3. PresenceOnlineTime(z)' = clock' - z.row.start
          BY <4>1 DEF PresenceOnlineTime
        <4>4. clock \in Nat /\ clock' = clock + 1
          BY DEF Presence!Tick, Presence!queue, PresenceSettling, PresenceTyped
        <4>5. (clock + 1) - z.row.start = (clock - z.row.start) + 1
          BY <2>1, <4>4
        <4> QED BY <3>3, <4>2, <4>3, <4>4, <4>5
      <3> QED BY <3>2, <3>3
    <2>4. PresenceRoomTime' = PresenceRoomTime \/ (inroom /\ PresenceRoomTime' = PresenceRoomTime + 1)
      BY DEF PresenceRoomTime, Presence!Tick, Presence!queue, Presence!user, Presence!link,
         PresenceSettling, PresenceTyped,
         Presence!Never
    <2>5. lived' = (IF session # 0 THEN lived + 1 ELSE lived)
          /\ played' = (IF inroom THEN played + 1 ELSE played)
          /\ UNCHANGED <<made, parted, up, session, inst>> /\ lived \in Nat /\ played \in Nat
      BY DEF Presence!Tick, Presence!queue, Presence!user, Presence!link, Presence!server,
         PresenceSettling, PresenceTyped
    <2>6. z.total + PresenceRoomTime + PresenceOnlineTime(z) <= lived + played
      BY <1>1 DEF PresenceAtEnd, PresenceOwes
    <2>7. z.total + PresenceRoomTime' + PresenceOnlineTime(z)' <= lived' + played'
      BY <2>1, <2>2, <2>3, <2>4, <2>5, <2>6
    <2> QED BY <1>1, <2>5, <2>7 DEF PresenceAtEnd, PresenceOwes
  <1> QED BY <1>3, <1>4, <1>5 DEF PresenceSettling

LEMMA PresenceHeartbeatKeeps ==
  ASSUME PresenceLimits, PresenceSettling, Presence!Heartbeat
  PROVE  PresenceSettling'
  <1>1. PICK c, z : PresenceFollows(c, presenceLog, made, clock) /\ c[0] = PresenceNow
        /\ c[Len(presenceLog)] = z /\ PresenceAtEnd(z)
    BY DEF PresenceSettling
  <1>3. PresenceTyped'
    BY DEF PresenceSettling, PresenceTyped, Presence!Heartbeat, Presence!queue, Presence!user,
       Presence!link, Presence!table,
       Presence!server, Presence!truth, Presence!time, Presence!Never
  <1>4. PresenceFollows(c, presenceLog', made', clock') /\ c[0] = PresenceNow'
        /\ c[Len(presenceLog')] = z
    BY <1>1 DEF Presence!Heartbeat, Presence!queue, Presence!user, Presence!link,
       Presence!table, PresenceNow
  <1>5. PresenceAtEnd(z)'
    <2>1. PresenceRoomTime' = PresenceRoomTime /\ PresenceOnlineTime(z)' = PresenceOnlineTime(z)
      BY DEF PresenceRoomTime, PresenceOnlineTime, Presence!Heartbeat, Presence!queue,
         Presence!user, Presence!link,
         Presence!Never
    <2> QED BY <1>1, <2>1 DEF PresenceAtEnd, PresenceOwes, Presence!Heartbeat, Presence!queue,
       Presence!user, Presence!link, Presence!truth, Presence!time
  <1> QED BY <1>3, <1>4, <1>5 DEF PresenceSettling

LEMMA PresenceJoinKeeps ==
  ASSUME PresenceLimits, PresenceSettling, Presence!Join
  PROVE  PresenceSettling'
  <1>1. PICK c, z : PresenceFollows(c, presenceLog, made, clock) /\ c[0] = PresenceNow
        /\ c[Len(presenceLog)] = z /\ PresenceAtEnd(z)
    BY DEF PresenceSettling
  <1>3. PresenceTyped'
    BY DEF PresenceSettling, PresenceTyped, Presence!Join, Presence!link, Presence!queue,
       Presence!Enter, Presence!table,
       Presence!server, Presence!truth, Presence!time, Presence!Never, PresenceLimits
  <1>4. PresenceFollows(c, presenceLog', made', clock') /\ c[0] = PresenceNow'
        /\ c[Len(presenceLog')] = z
    BY <1>1 DEF Presence!Join, Presence!link, Presence!queue, Presence!table, PresenceNow
  <1>5. PresenceAtEnd(z)'
    <2>1. PresenceOnlineTime(z)' = PresenceOnlineTime(z)
      BY DEF PresenceOnlineTime, Presence!Join, Presence!link, Presence!queue, Presence!server
    <2>2. PresenceRoomTime = 0 /\ PresenceRoomTime' = 0
      <3>1. entered = Presence!Never /\ clock' = clock /\ clock \in Nat
            /\ entered' \in {clock, Presence!Never}
        BY DEF Presence!Join, Presence!link, Presence!queue, Presence!Enter, PresenceSettling,
           PresenceTyped
      <3>2. PresenceRoomTime' = IF entered' # Presence!Never THEN clock' - entered' ELSE 0
        BY DEF PresenceRoomTime, Presence!Never
      <3>3. PresenceRoomTime = 0
        BY <3>1 DEF PresenceRoomTime
      <3>4. clock - clock = 0
        BY <3>1
      <3> HIDE DEF Presence!Never
      <3>5. CASE entered' = clock
        BY <3>1, <3>2, <3>3, <3>4, <3>5
      <3>6. CASE entered' = Presence!Never
        BY <3>2, <3>3, <3>6
      <3> QED BY <3>1, <3>5, <3>6
    <2> QED BY <1>1, <2>1, <2>2 DEF PresenceAtEnd, PresenceOwes, Presence!Join, Presence!link,
       Presence!queue, Presence!server,
               Presence!truth, Presence!time
  <1> QED BY <1>3, <1>4, <1>5 DEF PresenceSettling

(* A task that gives the log one event, or two. *)
LEMMA PresenceAppends ==
  ASSUME NEW q \in Seq(PresenceEvents), NEW e \in PresenceEvents, NEW f \in PresenceEvents
  PROVE  /\ q \o <<e>> = Append(q, e)
         /\ q \o <<e, f>> = Append(Append(q, e), f)
  <1>1. /\ q \o <<e>> \in Seq(PresenceEvents) /\ Append(q, e) \in Seq(PresenceEvents)
        /\ q \o <<e, f>> \in Seq(PresenceEvents)
        /\ Append(Append(q, e), f) \in Seq(PresenceEvents)
    OBVIOUS
  <1>2. Len(q \o <<e>>) = Len(q) + 1 /\ Len(Append(q, e)) = Len(q) + 1
        /\ \A i \in 1..(Len(q) + 1) : (q \o <<e>>)[i] = Append(q, e)[i]
    OBVIOUS
  <1>3. Len(q \o <<e, f>>) = Len(q) + 2 /\ Len(Append(Append(q, e), f)) = Len(q) + 2
        /\ \A i \in 1..(Len(q) + 2) : (q \o <<e, f>>)[i] = Append(Append(q, e), f)[i]
    OBVIOUS
  <1> QED BY <1>1, <1>2, <1>3, SeqEqual

(* The room time of a player who leaves is added, or dropped if he has no row. *)
LEMMA PresenceAccrueAdds ==
  ASSUME PresenceLimits, PresenceSettling, Presence!Accrue
  PROVE  \E d, y : /\ PresenceFollows(d, presenceLog, made, clock) /\ d[0] = PresenceNow'
                   /\ d[Len(presenceLog)] = y /\ PresenceOwes(y, 0)
                   /\ total' \in Nat
  <1>0. PICK c, z : PresenceFollows(c, presenceLog, made, clock) /\ c[0] = PresenceNow
        /\ c[Len(presenceLog)] = z /\ PresenceAtEnd(z)
    BY DEF PresenceSettling
  <1>1. total \in Nat /\ clock \in Nat /\ made \in Nat /\ entered \in Nat
        /\ PresenceRoomTime \in Nat
    BY DEF PresenceSettling, PresenceTyped, PresenceRoomTime
  <1>2. PICK x \in Nat : x <= PresenceRoomTime /\ total' = total + x
    <2>1. CASE entered # Presence!Never /\ visits # <<>>
      <3>1. Presence!Since(entered) = PresenceRoomTime
        BY <2>1, <1>1 DEF Presence!Since, PresenceRoomTime, PresenceSettling, PresenceTyped
      <3> QED BY <2>1, <3>1, <1>1 DEF Presence!Accrue, Presence!AddPlaytime
    <2>2. CASE ~(entered # Presence!Never /\ visits # <<>>)
      BY <2>2, <1>1 DEF Presence!Accrue
    <2> QED BY <2>1, <2>2
  <1>3. PICK d : /\ PresenceFollows(d, presenceLog, made, clock)
                    /\ d[0] = PresenceLater(c[0], x)
                 /\ d[Len(presenceLog)] = PresenceLater(c[Len(presenceLog)], x)
    <2>1. made \in Nat /\ clock \in Nat /\ x \in Nat
          /\ PresenceFollows(c, presenceLog, made, clock)
      BY <1>0, <1>1, <1>2
    <2> QED BY ONLY <2>1, PresenceAccrued
  <1>4. PresenceNow' = PresenceLater(c[0], x)
    BY <1>0, <1>2 DEF PresenceNow, PresenceLater, Presence!Accrue
  <1>5. total' \in Nat
    BY <1>1, <1>2
  <1> DEFINE y == PresenceLater(z, x)
  <1>6. z \in PresenceTables /\ PresenceSound(z, made, clock)
    BY <1>0, PresenceEnds
  <1>7. y.total = z.total + x /\ y.row = z.row /\ y.logins = z.logins /\ y.left = z.left
        /\ z.total \in Nat
    BY <1>2, <1>6, PresenceLaterTells DEF PresenceTables
  <1> HIDE DEF y
  <1>8. PresenceOwes(y, 0)
    <2>0. PresenceTyped
      BY DEF PresenceSettling
    <2>1. PresenceOnlineTime(y) = PresenceOnlineTime(z) /\ PresenceOnlineTime(z) \in Nat
      <3>1. PresenceOnlineTime(y) = PresenceOnlineTime(z)
        BY <1>7 DEF PresenceOnlineTime
      <3>2. PresenceOnlineTime(z) \in Nat
        BY <1>0, <1>6, <2>0, PresenceRowIsPast DEF PresenceOnlineTime, PresenceTyped
      <3> QED BY <3>1, <3>2
    <2>2. z.total + PresenceRoomTime + PresenceOnlineTime(z) <= lived + played
          /\ lived \in Nat /\ played \in Nat
      BY <1>0 DEF PresenceAtEnd, PresenceOwes, PresenceSettling, PresenceTyped
    <2>3. y.total + 0 + PresenceOnlineTime(y) <= lived + played
      BY <1>1, <1>2, <1>7, <2>1, <2>2
    <2> QED BY <1>0, <1>7, <2>3 DEF PresenceAtEnd, PresenceOwes
  <1>9. d[0] = PresenceNow' /\ d[Len(presenceLog)] = y
    BY <1>0, <1>3, <1>4 DEF y
  <1> QED BY <1>3, <1>5, <1>8, <1>9, Zenon

(* What the steps that end the room time do to the types. *)
LEMMA PresenceAccrueTyped ==
  ASSUME PresenceLimits, PresenceSettling, Presence!Accrue,
         UNCHANGED <<clock, up, inst, alive, made, presenceDue, presenceLetters, lived, played>>,
         session' \in {0, session}, linked' \in BOOLEAN, linked' => linked /\ session' = session,
         losing' \in BOOLEAN, waits' \in BOOLEAN, inroom' \in BOOLEAN, inroom' => session' # 0,
         parted' \in {parted, clock}
  PROVE  PresenceTyped'
  <1>0. PICK d, y : total' \in Nat
    BY PresenceAccrueAdds
  <1>1. Presence!Never \in Nat /\ entered' = Presence!Never
        /\ Presence!Never' = Presence!Never
    BY DEF Presence!Accrue, Presence!Never, PresenceLimits
  <1>2. UNCHANGED <<visits, logins>>
    BY DEF Presence!Accrue
  <1> HIDE DEF Presence!Never
  <1>3. clock' \in Nat /\ parted' \in Nat /\ parted' <= clock'
    BY DEF PresenceSettling, PresenceTyped
  <1>4. /\ alive' \in [Presence!Instances -> Nat]
           /\ \A i \in Presence!Instances : alive'[i] <= clock'
        /\ visits' \in Seq(Nat) /\ Len(visits') = logins'
           /\ \A i \in 1..logins' : visits'[i] = i
    BY <1>2 DEF PresenceSettling, PresenceTyped
  <1>5. /\ made' \in Nat /\ lived' \in Nat /\ played' \in Nat /\ up' \in BOOLEAN
        /\ inst' \in Presence!Instances /\ presenceLetters' = <<>> /\ presenceDue' = {}
        /\ session' \in {0, made'} /\ (~up' => session' = 0)
        /\ (linked' \/ inroom' => session' # 0)
    BY DEF PresenceSettling, PresenceTyped
  <1> QED BY <1>0, <1>1, <1>3, <1>4, <1>5 DEF PresenceTyped

(* Nothing is logged, and the session goes on. *)
LEMMA PresenceAccrueSettles ==
  ASSUME PresenceLimits, PresenceSettling, Presence!Accrue, PresenceTyped',
         UNCHANGED <<clock, up, inst, alive, session, made, presenceLog, lived, played, parted>>
  PROVE  PresenceSettling'
  <1>1. PICK d, y : /\ PresenceFollows(d, presenceLog, made, clock) /\ d[0] = PresenceNow'
                    /\ d[Len(presenceLog)] = y /\ PresenceOwes(y, 0)
    BY PresenceAccrueAdds
  <1>2. PresenceRoomTime' = 0
    BY DEF PresenceRoomTime, Presence!Accrue, Presence!Never
  <1>3. PresenceAtEnd(y)'
    <2>1. PresenceOnlineTime(y)' = PresenceOnlineTime(y)
      BY DEF PresenceOnlineTime
    <2> QED BY <1>1, <1>2, <2>1 DEF PresenceAtEnd, PresenceOwes
  <1> QED BY <1>1, <1>3 DEF PresenceSettling

LEMMA PresenceLeaveKeeps ==
  ASSUME PresenceLimits, PresenceSettling, Presence!Leave
  PROVE  PresenceSettling'
  <1>1. UNCHANGED <<clock, up, inst, alive, session, linked, losing, waits, made, presenceDue,
                    presenceLog, presenceLetters, lived, played, parted>>
        /\ inroom' = FALSE /\ Presence!Accrue
    BY DEF Presence!Leave, Presence!link, Presence!queue, Presence!server, Presence!truth,
       Presence!time
  <1>2. linked \in BOOLEAN /\ losing \in BOOLEAN /\ waits \in BOOLEAN
    BY DEF PresenceSettling, PresenceTyped
  <1>3. PresenceTyped'
    BY <1>1, <1>2, PresenceAccrueTyped
  <1> QED BY <1>1, <1>3, PresenceAccrueSettles

LEMMA PresenceDangleBeginsKeeps ==
  ASSUME PresenceLimits, PresenceSettling, Presence!DangleBegins
  PROVE  PresenceSettling'
  <1>1. UNCHANGED <<clock, up, inst, alive, session, linked, waits, made, inroom, presenceDue,
                    presenceLog, presenceLetters, lived, played, parted>>
        /\ losing' = TRUE /\ Presence!Accrue
    BY DEF Presence!DangleBegins, Presence!queue, Presence!server, Presence!truth,
       Presence!time
  <1>2. linked \in BOOLEAN /\ waits \in BOOLEAN /\ inroom \in BOOLEAN /\ (inroom => session # 0)
    BY DEF PresenceSettling, PresenceTyped
  <1>3. PresenceTyped'
    BY <1>1, <1>2, PresenceAccrueTyped
  <1> QED BY <1>1, <1>3, PresenceAccrueSettles

LEMMA PresenceLosePlayingKeeps ==
  ASSUME PresenceLimits, PresenceSettling, Presence!LosePlaying
  PROVE  PresenceSettling'
  <1>1. PICK c, z : PresenceFollows(c, presenceLog, made, clock) /\ c[0] = PresenceNow
        /\ c[Len(presenceLog)] = z /\ PresenceAtEnd(z)
    BY DEF PresenceSettling
  <1>2. UNCHANGED <<clock, up, inst, alive, session, made, inroom, entered, presenceDue,
                    presenceLog, presenceLetters, total, row, visits, logins, left,
                    lived, played, parted>>
        /\ linked' = FALSE /\ losing' = FALSE /\ waits' = TRUE
    BY DEF Presence!LosePlaying, Presence!queue, Presence!server, Presence!table,
       Presence!truth, Presence!time
  <1>3. PresenceTyped'
    BY <1>2 DEF PresenceSettling, PresenceTyped, Presence!Never
  <1>4. PresenceAtEnd(z)' /\ PresenceNow' = PresenceNow
    BY <1>1, <1>2 DEF PresenceAtEnd, PresenceOwes, PresenceRoomTime, PresenceOnlineTime,
       PresenceNow, Presence!Never
  <1> QED BY <1>1, <1>2, <1>3, <1>4 DEF PresenceSettling

LEMMA PresenceAuthenticateKeeps ==
  ASSUME PresenceLimits, PresenceSettling, Presence!Calm, Presence!Authenticate
  PROVE  PresenceSettling'
  <1>1. PICK c, z : PresenceFollows(c, presenceLog, made, clock) /\ c[0] = PresenceNow
        /\ c[Len(presenceLog)] = z /\ PresenceAtEnd(z)
    BY DEF PresenceSettling
  <1>2. z \in PresenceTables /\ PresenceSound(z, made, clock)
        /\ presenceLog \in Seq(PresenceEvents)
    BY <1>1, PresenceEnds
  <1> DEFINE e == Presence!Event("authenticated", made + 1)
  <1> PICK y : y = PresenceApply(e, z)
    OBVIOUS
  <1>4. made \in Nat /\ made' = made + 1 /\ clock \in Nat /\ clock' = clock
        /\ e \in PresenceEvents /\ e.session = made + 1 /\ e.at = clock
           /\ e.kind = "authenticated" /\ e.inst = inst
    BY DEF PresenceSettling, PresenceTyped, Presence!Authenticate, PresenceEvents,
       Presence!Event
  <1>3. presenceLog' = presenceLog \o <<e>> /\ UNCHANGED <<presenceDue, presenceLetters>>
    BY DEF Presence!Authenticate, Presence!Calm, Presence!Send
  <1> HIDE DEF e
  <1>0. presenceLog' = Append(presenceLog, e)
    BY <1>2, <1>3, <1>4, PresenceAppends
  <1>12. PresenceTyped'
    <2>1. UNCHANGED <<clock, up, inst, alive, inroom, entered, presenceDue, presenceLetters, total,
                      visits, logins, lived, played, parted>>
          /\ session' = made' /\ linked' = TRUE /\ losing' = FALSE /\ waits' = FALSE /\ up
      BY <1>3, <1>4 DEF Presence!Authenticate, Presence!table, Presence!server, Presence!truth,
         Presence!time
    <2>2. made' \in Nat /\ session' # 0
      BY <1>4, <2>1 DEF PresenceSettling, PresenceTyped
    <2>3. entered' # Presence!Never' => inroom' /\ entered' <= clock'
      BY <2>1 DEF PresenceSettling, PresenceTyped, Presence!Never
    <2> QED BY <2>1, <2>2, <2>3 DEF PresenceSettling, PresenceTyped
  <1>5. z.logins = made /\ z.row.start <= clock /\ z.row.start \in Nat /\ z.total \in Nat
    BY <1>1, <1>2, PresenceRowIsPast DEF PresenceAtEnd, PresenceOwes, PresenceSettling
  <1>6. PresenceFollows(c, presenceLog, made', clock')
    BY <1>1, <1>4, PresenceWeaker
  <1>7. PresenceFits(e, z, made', clock')
    BY <1>4, <1>5 DEF PresenceFits
  <1>8. PICK d : PresenceFollows(d, presenceLog', made', clock') /\ d[0] = c[0]
        /\ d[Len(presenceLog')] = y
    BY <1>0, <1>1, <1>4, <1>6, <1>7, PresenceExtended
  <1>9. y = [total |-> z.total, row |-> Presence!Online(e), logins |-> made + 1, left |-> z.left]
    BY <1>4, <1>5 DEF PresenceApply
  <1>10. PresenceAtEnd(y)'
    <2>1. y.row = [session |-> made + 1, start |-> clock, inst |-> inst] /\ y.total = z.total
          /\ y.logins = made' /\ y.left = z.left
      BY <1>4, <1>9 DEF Presence!Online
    <2>2. PresenceOnlineTime(y)' = 0 /\ PresenceRoomTime' = PresenceRoomTime
      <3>1. session' # 0 /\ up' /\ entered' = entered
        BY <1>4 DEF Presence!Authenticate, Presence!server
      <3> QED BY <1>4, <2>1, <3>1 DEF PresenceOnlineTime, PresenceRoomTime, Presence!Never
    <2>3. PresenceRoomTime \in Nat /\ PresenceOnlineTime(z) \in Nat
      BY <1>1, <1>2, PresenceTimesAreNat DEF PresenceSettling
    <2>4. z.total + PresenceRoomTime + PresenceOnlineTime(z) <= lived + played
          /\ lived \in Nat /\ played \in Nat
      BY <1>1 DEF PresenceAtEnd, PresenceOwes, PresenceSettling, PresenceTyped
    <2>5. y.total + PresenceRoomTime' + PresenceOnlineTime(y)' <= lived + played
      BY <1>5, <2>1, <2>2, <2>3, <2>4
    <2> QED BY <1>1, <2>1, <2>5 DEF PresenceAtEnd, PresenceOwes, Presence!Authenticate,
               Presence!server, Presence!truth, Presence!time
  <1>11. c[0] = PresenceNow'
    BY <1>1 DEF Presence!Authenticate, Presence!table, PresenceNow
  <1> QED BY <1>12, <1>8, <1>10, <1>11 DEF PresenceSettling

(* The log is told that the session lost its connection. *)
LEMMA PresenceDisconnects ==
  ASSUME PresenceLimits, PresenceSettling, up, session # 0, NEW r \in Nat,
         NEW d, NEW y, PresenceFollows(d, presenceLog, made, clock),
         d[Len(presenceLog)] = y, PresenceOwes(y, r)
  PROVE  LET q == Append(presenceLog, Presence!Event("disconnect", session)) IN
         \E g, w : /\ PresenceFollows(g, q, made, clock) /\ g[0] = d[0] /\ g[Len(q)] = w
                   /\ w.total = y.total /\ w.row = y.row /\ w.logins = made /\ w.left = clock
  <1> DEFINE e == Presence!Event("disconnect", session)
  <1>1. y \in PresenceTables /\ PresenceSound(y, made, clock)
    BY PresenceEnds
  <1>2. made \in Nat /\ clock \in Nat /\ session = made /\ parted \in Nat /\ parted <= clock
        /\ inst \in Presence!Instances
    BY DEF PresenceSettling, PresenceTyped
  <1>3. e \in PresenceEvents /\ e.session = made /\ e.at = clock /\ e.kind = "disconnect"
        /\ e.inst = inst
    BY <1>2 DEF PresenceEvents, Presence!Event
  <1> HIDE DEF e
  <1>4. y.logins = made /\ y.left = parted /\ y.row.session = made /\ y.row.inst = inst
    BY <1>2 DEF PresenceOwes
  <1>5. y.row.start <= clock
    BY <1>1, <1>2, <1>4 DEF PresenceSound, Presence!Offline
  <1>6. PresenceFits(e, y, made, clock)
    BY <1>2, <1>3, <1>5 DEF PresenceFits
  <1> PICK w : w = PresenceApply(e, y)
    OBVIOUS
  <1>7. PICK g : PresenceFollows(g, Append(presenceLog, e), made, clock) /\ g[0] = d[0]
        /\ g[Len(Append(presenceLog, e))] = w
    BY <1>2, <1>3, <1>6, PresenceExtended
  <1>8. w.total = y.total /\ w.row = y.row /\ w.logins = made /\ w.left = clock
    <2>1. CASE clock > y.left
      <3>1. w = [y EXCEPT !.left = clock]
        BY <2>1, <1>3, <1>4 DEF PresenceApply
      <3> QED BY <3>1, <1>1, <1>4 DEF PresenceTables
    <2>2. CASE ~(clock > y.left)
      <3>1. w = y
        BY <2>2, <1>3, <1>4 DEF PresenceApply
      <3> QED BY <2>2, <3>1, <1>2, <1>4
    <2> QED BY <2>1, <2>2
  <1> QED BY <1>7, <1>8 DEF e

(* The log is told that the session is over. *)
LEMMA PresenceGoesOffline ==
  ASSUME PresenceLimits, PresenceSettling, up, session # 0, NEW r \in Nat, NEW q,
         NEW d, NEW y, PresenceFollows(d, q, made, clock), d[Len(q)] = y,
         y.logins = made, y.row.session = session, y.row.inst = inst,
         y.total + r + PresenceOnlineTime(y) <= lived + played
  PROVE  LET p == Append(q, Presence!Event("offline", session)) IN
         \E g, w : /\ PresenceFollows(g, p, made, clock) /\ g[0] = d[0] /\ g[Len(p)] = w
                   /\ w.row = Presence!Offline /\ w.logins = made /\ w.left = y.left
                   /\ w.total + r <= lived + played
  <1> DEFINE e == Presence!Event("offline", session)
  <1>1. y \in PresenceTables /\ PresenceSound(y, made, clock)
    BY PresenceEnds
  <1>2. made \in Nat /\ clock \in Nat /\ session = made /\ inst \in Presence!Instances
        /\ lived \in Nat /\ played \in Nat
    BY DEF PresenceSettling, PresenceTyped
  <1>3. e \in PresenceEvents /\ e.session = made /\ e.at = clock /\ e.kind = "offline"
        /\ e.inst = inst
    BY <1>2 DEF PresenceEvents, Presence!Event
  <1> HIDE DEF e
  <1>5. y.row.start <= clock /\ y.row.start \in Nat /\ y.total \in Nat
    BY <1>1, <1>2 DEF PresenceSound, Presence!Offline, PresenceTables, PresenceRows
  <1>6. PresenceFits(e, y, made, clock)
    BY <1>2, <1>3, <1>5 DEF PresenceFits
  <1> PICK w : w = PresenceApply(e, y)
    OBVIOUS
  <1>7. PICK g : PresenceFollows(g, Append(q, e), made, clock) /\ g[0] = d[0]
        /\ g[Len(Append(q, e))] = w
    BY <1>2, <1>3, <1>6, PresenceExtended
  <1>8. w = [total |-> y.total + (clock - y.row.start), row |-> Presence!Offline,
             logins |-> y.logins, left |-> y.left]
    BY <1>2, <1>3 DEF PresenceApply
  <1>9. PresenceOnlineTime(y) = clock - y.row.start
    BY DEF PresenceOnlineTime
  <1>10. w.row = Presence!Offline /\ w.logins = made /\ w.left = y.left
         /\ w.total = y.total + (clock - y.row.start)
    BY <1>8
  <1>11. w.total + r <= lived + played
    BY <1>2, <1>5, <1>9, <1>10
  <1> QED BY <1>7, <1>10, <1>11 DEF e

LEMMA PresenceLoseKeeps ==
  ASSUME PresenceLimits, PresenceSettling, Presence!Lose
  PROVE  PresenceSettling'
  <1>1. UNCHANGED <<clock, up, inst, alive, session, waits, made, inroom, entered, presenceDue,
                    presenceLetters, total, row, visits, logins, left, lived, played>>
        /\ linked' = FALSE /\ losing' = FALSE /\ parted' = clock /\ up /\ linked
        /\ presenceLog' = presenceLog \o <<Presence!Event("disconnect", session)>>
    BY DEF Presence!Lose, Presence!Send, Presence!server, Presence!table, Presence!time
  <1>2. session # 0 /\ clock \in Nat /\ PresenceRoomTime \in Nat
    BY <1>1 DEF PresenceSettling, PresenceTyped, PresenceRoomTime
  <1>3. PresenceTyped'
    <2>1. parted' \in Nat /\ parted' <= clock'
      BY <1>1, <1>2
    <2>2. entered' # Presence!Never' => inroom' /\ entered' <= clock'
      BY <1>1 DEF PresenceSettling, PresenceTyped, Presence!Never
    <2> QED BY <1>1, <1>2, <2>1, <2>2 DEF PresenceSettling, PresenceTyped
  <1>4. PICK c, z : PresenceFollows(c, presenceLog, made, clock) /\ c[0] = PresenceNow
        /\ c[Len(presenceLog)] = z /\ PresenceAtEnd(z)
    BY DEF PresenceSettling
  <1> DEFINE p == Append(presenceLog, Presence!Event("disconnect", session))
  <1>5. PICK g, w : /\ PresenceFollows(g, p, made, clock) /\ g[0] = c[0] /\ g[Len(p)] = w
                    /\ w.total = z.total /\ w.row = z.row /\ w.logins = made /\ w.left = clock
    BY <1>1, <1>2, <1>4, PresenceDisconnects DEF PresenceAtEnd
  <1>6. presenceLog' = p
    <2>1. Presence!Event("disconnect", session) \in PresenceEvents
      BY <1>2 DEF PresenceSettling, PresenceTyped, PresenceEvents, Presence!Event
    <2> QED BY <1>1, <1>4, <2>1, PresenceEnds, PresenceAppends
  <1> HIDE DEF p
  <1>7. PresenceAtEnd(w)' /\ PresenceNow' = PresenceNow
    <2>1. PresenceRoomTime' = PresenceRoomTime
      BY <1>1 DEF PresenceRoomTime, Presence!Never
    <2>2. PresenceOnlineTime(w)' = PresenceOnlineTime(z)
      BY <1>1, <1>5 DEF PresenceOnlineTime
    <2> QED BY <1>1, <1>4, <1>5, <2>1, <2>2 DEF PresenceAtEnd, PresenceOwes, PresenceNow
  <1> QED BY <1>1, <1>3, <1>4, <1>5, <1>6, <1>7 DEF PresenceSettling

(* A session that is lost and over at once. *)
LEMMA PresenceParts ==
  ASSUME PresenceLimits, PresenceSettling, up, session # 0, PresenceTyped',
         UNCHANGED <<clock, made, up, lived, played>>, Presence!Gone, Presence!Parted(session),
         entered' = Presence!Never,
         NEW d, NEW y, PresenceFollows(d, presenceLog, made, clock),
         d[Len(presenceLog)] = y, d[0] = PresenceNow', PresenceOwes(y, 0)
  PROVE  PresenceSettling'
  <1> DEFINE e == Presence!Event("disconnect", session)
             f == Presence!Event("offline", session)
             q == Append(presenceLog, e)
             p == Append(q, f)
  <1>1. PICK h, v : /\ PresenceFollows(h, q, made, clock) /\ h[0] = d[0] /\ h[Len(q)] = v
                    /\ v.total = y.total /\ v.row = y.row /\ v.logins = made /\ v.left = clock
    BY PresenceDisconnects
  <1>2. PresenceOnlineTime(v) = PresenceOnlineTime(y)
    BY <1>1 DEF PresenceOnlineTime
  <1>3. PICK g, w : /\ PresenceFollows(g, p, made, clock) /\ g[0] = h[0] /\ g[Len(p)] = w
                    /\ w.row = Presence!Offline /\ w.logins = made /\ w.left = clock
                    /\ w.total + 0 <= lived + played
    <2>1. v.row.session = session /\ v.row.inst = inst
          /\ v.total + 0 + PresenceOnlineTime(v) <= lived + played
      BY <1>1, <1>2 DEF PresenceOwes
    <2> HIDE DEF q
    <2> QED BY <1>1, <2>1, PresenceGoesOffline
  <1>4. presenceLog' = p
    <2>1. e \in PresenceEvents /\ f \in PresenceEvents
      BY DEF PresenceSettling, PresenceTyped, PresenceEvents, Presence!Event
    <2>2. presenceLog' = presenceLog \o <<e, f>>
      BY DEF Presence!Parted, Presence!Send
    <2>3. presenceLog \in Seq(PresenceEvents)
      BY PresenceEnds
    <2> HIDE DEF e, f
    <2> QED BY <2>1, <2>2, <2>3, PresenceAppends
  <1> HIDE DEF p, q
  <1>5. PresenceAtEnd(w)'
    <2>1. PresenceRoomTime' = 0
      BY DEF PresenceRoomTime, Presence!Never
    <2>2. PresenceOnlineTime(w)' = 0 /\ session' = 0 /\ parted' = clock
      BY DEF PresenceOnlineTime, Presence!Gone, Presence!Parted
    <2>3. w.total \in Nat
      BY <1>3, PresenceEnds DEF PresenceTables
    <2>4. w.total + PresenceRoomTime' + PresenceOnlineTime(w)' <= lived' + played'
      BY <1>3, <2>1, <2>2, <2>3
    <2>5. w.row.session = 0
      BY <1>3 DEF Presence!Offline
    <2> QED BY <1>3, <2>2, <2>4, <2>5 DEF PresenceAtEnd, PresenceOwes
  <1> QED BY <1>1, <1>3, <1>4, <1>5 DEF PresenceSettling

(* Both ways to be removed at once. *)
LEMMA PresenceRemovedKeeps ==
  ASSUME PresenceLimits, PresenceSettling, Presence!Calm, Presence!LoseAtOnce \/ Presence!Kick
  PROVE  PresenceSettling'
  <1>1. /\ UNCHANGED <<clock, up, inst, alive, made, presenceDue, presenceLetters, lived, played>>
        /\ Presence!Gone /\ Presence!Accrue /\ up /\ linked
    BY DEF Presence!LoseAtOnce, Presence!Kick, Presence!Calm, Presence!Parted, Presence!Send,
       Presence!server, Presence!time
  <1>2. session # 0
    BY <1>1 DEF PresenceSettling, PresenceTyped
  <1>3. Presence!Parted(session)
    BY DEF Presence!LoseAtOnce, Presence!Kick, Presence!Calm
  <1>4. PresenceTyped'
    <2>1. session' = 0 /\ linked' = FALSE /\ losing' = FALSE /\ waits' = FALSE
          /\ inroom' = FALSE /\ parted' = clock
      BY <1>1, <1>3 DEF Presence!Gone, Presence!Parted
    <2> QED BY <1>1, <2>1, PresenceAccrueTyped
  <1>5. PICK d, y : /\ PresenceFollows(d, presenceLog, made, clock) /\ d[0] = PresenceNow'
                    /\ d[Len(presenceLog)] = y /\ PresenceOwes(y, 0)
    BY <1>1, PresenceAccrueAdds
  <1>6. entered' = Presence!Never
    BY <1>1 DEF Presence!Accrue
  <1> QED BY <1>1, <1>2, <1>3, <1>4, <1>5, <1>6, PresenceParts

LEMMA PresenceGraceEndsKeeps ==
  ASSUME PresenceLimits, PresenceSettling, Presence!GraceEnds
  PROVE  PresenceSettling'
  <1>0. /\ UNCHANGED <<clock, up, inst, alive, made, presenceDue, presenceLetters, lived, played>>
        /\ Presence!Gone /\ Presence!Accrue /\ up /\ session # 0 /\ parted' \in {parted, clock}
    BY DEF Presence!GraceEnds, Presence!Parted, Presence!Send, Presence!server, Presence!time
  <1>1. PICK c, z : /\ PresenceFollows(c, presenceLog, made, clock) /\ c[0] = PresenceNow'
                    /\ c[Len(presenceLog)] = z /\ PresenceOwes(z, 0)
    BY <1>0, PresenceAccrueAdds
  <1>2. presenceLog \in Seq(PresenceEvents)
    BY <1>1, PresenceEnds
  <1>3. PresenceTyped'
    <2>1. session' = 0 /\ linked' = FALSE /\ losing' = FALSE /\ waits' = FALSE
          /\ inroom' = FALSE
      BY <1>0 DEF Presence!Gone
    <2> QED BY <1>0, <2>1, PresenceAccrueTyped
  <1>4. entered' = Presence!Never /\ Presence!Never' = Presence!Never
    BY <1>0 DEF Presence!Accrue, Presence!Never
  <1>6. CASE waits
    <2>1. Presence!Parted(session)
      BY <1>6 DEF Presence!GraceEnds
    <2>2. UNCHANGED <<clock, made, up, lived, played>>
      BY <1>0
    <2> QED BY <1>0, <1>1, <1>3, <1>4, <2>1, <2>2, PresenceParts
  <1>7. CASE ~waits
    <2> DEFINE e == Presence!Event("offline", session)
               p == Append(presenceLog, e)
    <2>1. presenceLog' = presenceLog \o <<e>> /\ parted' = parted
      BY <1>7 DEF Presence!GraceEnds, Presence!Send
    <2>2. e \in PresenceEvents
      BY <1>0 DEF PresenceSettling, PresenceTyped, PresenceEvents, Presence!Event
    <2>3. presenceLog' = p
      BY <1>2, <2>1, <2>2, PresenceAppends
    <2>4. PICK g, w : /\ PresenceFollows(g, p, made, clock) /\ g[0] = c[0] /\ g[Len(p)] = w
                      /\ w.row = Presence!Offline /\ w.logins = made /\ w.left = z.left
                      /\ w.total + 0 <= lived + played
      <3>1. z.logins = made /\ z.row.session = session /\ z.row.inst = inst
            /\ z.total + 0 + PresenceOnlineTime(z) <= lived + played
        BY <1>0, <1>1 DEF PresenceOwes
      <3> QED BY <1>0, <1>1, <3>1, PresenceGoesOffline
    <2> HIDE DEF p
    <2>5. PresenceAtEnd(w)'
      <3>1. PresenceRoomTime' = 0
        BY <1>4 DEF PresenceRoomTime
      <3>2. PresenceOnlineTime(w)' = 0 /\ session' = 0
        BY <1>0 DEF PresenceOnlineTime, Presence!Gone
      <3>3. w.total \in Nat
        BY <2>4, PresenceEnds DEF PresenceTables
      <3>4. w.total + PresenceRoomTime' + PresenceOnlineTime(w)' <= lived' + played'
        BY <1>0, <2>4, <3>1, <3>2, <3>3
      <3>5. w.row.session = 0
        BY <2>4 DEF Presence!Offline
      <3> QED BY <1>0, <1>1, <2>1, <2>4, <3>2, <3>4, <3>5 DEF PresenceAtEnd, PresenceOwes
    <2> QED BY <1>0, <1>1, <1>3, <2>3, <2>4, <2>5 DEF PresenceSettling
  <1> QED BY <1>6, <1>7

LEMMA PresenceCrashKeeps ==
  ASSUME PresenceLimits, PresenceSettling, Presence!Crash
  PROVE  PresenceSettling'
  <1>1. PICK c, z : PresenceFollows(c, presenceLog, made, clock) /\ c[0] = PresenceNow
        /\ c[Len(presenceLog)] = z /\ PresenceAtEnd(z)
    BY DEF PresenceSettling
  <1>2. z \in PresenceTables /\ PresenceSound(z, made, clock)
    BY <1>1, PresenceEnds
  <1>0. inst \in Presence!Instances /\ inst + 1 \in Presence!Instances /\ inst + 1 # inst
    BY DEF PresenceSettling, PresenceTyped, Presence!Crash, Presence!Gone, Presence!Instances,
       PresenceLimits
  <1>3. PresenceTyped'
    <2>1. Presence!Never \in Nat /\ entered' = Presence!Never
          /\ Presence!Never' = Presence!Never
      BY DEF Presence!Crash, Presence!Gone, Presence!Never, PresenceLimits
    <2>2. alive' \in [Presence!Instances -> Nat]
          /\ \A i \in Presence!Instances : alive'[i] <= clock
      BY <1>0 DEF PresenceSettling, PresenceTyped, Presence!Crash, Presence!Gone,
         Presence!NewInstance
    <2>3. inst' \in Presence!Instances
      BY <1>0 DEF Presence!Crash, Presence!Gone, Presence!NewInstance
    <2> QED BY <2>1, <2>2, <2>3 DEF PresenceSettling, PresenceTyped, Presence!Crash,
               Presence!Gone, Presence!table, Presence!truth, Presence!time
  <1>4. PresenceFollows(c, presenceLog', made', clock') /\ c[0] = PresenceNow'
        /\ c[Len(presenceLog')] = z
    BY <1>1 DEF Presence!Crash, Presence!Gone, Presence!table, PresenceNow
  <1>5. PresenceAtEnd(z)'
    <2>1. PresenceRoomTime' = 0 /\ PresenceRoomTime \in Nat
      BY DEF PresenceRoomTime, Presence!Crash, Presence!Gone, Presence!Never, PresenceSettling,
         PresenceTyped
    <2>2. z.row.start \in Nat /\ z.total \in Nat /\ z.row.start <= clock
      BY <1>1, <1>2, PresenceRowIsPast DEF PresenceSettling
    <2>3. PresenceOnlineTime(z)' <= PresenceOnlineTime(z)
          /\ PresenceOnlineTime(z) \in Nat /\ PresenceOnlineTime(z)' \in Nat
      <3>1. CASE session = 0
        <4>1. z.row = Presence!Offline
          BY <1>1, <1>2, <3>1, PresenceRowIsPast DEF PresenceSettling, Presence!Crash
        <4> QED BY <3>1, <4>1 DEF PresenceOnlineTime, Presence!Crash, Presence!Gone
      <3>2. CASE session # 0
        <4>1. z.row # Presence!Offline /\ z.row.inst = inst
          BY <1>1, <1>2, <3>2, PresenceRowIsPast DEF PresenceSettling, Presence!Crash
        <4>2. alive'[inst] = alive[inst] /\ alive[inst] \in Nat /\ alive[inst] <= clock
          BY <1>0 DEF PresenceSettling, PresenceTyped, Presence!Crash, Presence!Gone,
             Presence!NewInstance
        <4> QED BY <2>2, <3>2, <4>1, <4>2, SMTT(30) DEF PresenceOnlineTime, Presence!Crash, Presence!Gone,
                   PresenceSettling, PresenceTyped
      <3> QED BY <3>1, <3>2
    <2>4. z.total + PresenceRoomTime + PresenceOnlineTime(z) <= lived + played
          /\ lived \in Nat /\ played \in Nat
      BY <1>1 DEF PresenceAtEnd, PresenceOwes, PresenceSettling, PresenceTyped
    <2>5. z.total + PresenceRoomTime' + PresenceOnlineTime(z)' <= lived + played
      BY <2>1, <2>2, <2>3, <2>4
    <2> QED BY <1>1, <2>5 DEF PresenceAtEnd, PresenceOwes, Presence!Crash, Presence!Gone,
       Presence!truth, Presence!time
  <1> QED BY <1>3, <1>4, <1>5 DEF PresenceSettling

LEMMA PresenceCloseStaleKeeps ==
  ASSUME PresenceLimits, PresenceSettling, Presence!CloseStale
  PROVE  PresenceSettling'
  <1>1. PICK c, z : PresenceFollows(c, presenceLog, made, clock) /\ c[0] = PresenceNow
        /\ c[Len(presenceLog)] = z /\ PresenceAtEnd(z)
    BY DEF PresenceSettling
  <1>2. z \in PresenceTables /\ PresenceSound(z, made, clock) /\ z = PresenceNow
    BY <1>1, PresenceEnds DEF Presence!CloseStale, Presence!queue
  <1>0. z.row = row /\ z.total = total /\ z.logins = logins /\ z.left = left
    BY <1>2 DEF PresenceNow
  <1> PICK y : y = PresenceNow'
    OBVIOUS
  <1>3. total' = total + PresenceOnlineTime(z) /\ row' = Presence!Offline
        /\ logins' = logins /\ left' = left
        /\ visits' = visits /\ PresenceOnlineTime(z) \in Nat /\ total \in Nat
    <2>1. CASE row = Presence!Offline
      BY <1>0, <2>1 DEF Presence!CloseStale, Presence!queue, PresenceOnlineTime, Presence!table,
         PresenceSettling, PresenceTyped
    <2>2. CASE row # Presence!Offline
      <3>1. row.start \in Nat /\ row.inst \in Presence!Instances
        BY <1>0, <1>1, <1>2, <2>2, PresenceRowIsPast DEF PresenceSettling
      <3>2. alive[row.inst] \in Nat
        BY <3>1 DEF PresenceSettling, PresenceTyped
      <3> QED BY <1>0, <2>2, <3>1, <3>2 DEF Presence!CloseStale, Presence!queue,
         PresenceOnlineTime,
                 Presence!AddPlaytime, PresenceSettling, PresenceTyped
    <2> QED BY <2>1, <2>2
  <1>4. y.total = z.total + PresenceOnlineTime(z) /\ y.row = Presence!Offline
        /\ y.logins = z.logins /\ y.left = z.left
        /\ y \in PresenceTables
    <2>1. Presence!Offline \in PresenceRows
      BY DEF Presence!Offline, PresenceRows
    <2>2. z.logins \in Nat /\ z.left \in Nat
      BY <1>2 DEF PresenceTables
    <2> QED BY <1>0, <1>3, <2>1, <2>2 DEF PresenceNow, PresenceTables
  <1>5. PresenceTyped'
    BY <1>3 DEF PresenceSettling, PresenceTyped, Presence!CloseStale, Presence!queue,
       Presence!user, Presence!link,
       Presence!truth, Presence!time, Presence!Never
  <1>6. PresenceAtEnd(y)'
    <2>1. PresenceRoomTime' = 0 /\ PresenceRoomTime = 0 /\ session = 0 /\ session' = 0
          /\ PresenceOnlineTime(y)' = 0
      BY DEF PresenceRoomTime, PresenceOnlineTime, Presence!CloseStale, Presence!queue,
         Presence!user, Presence!link,
         Presence!Never, PresenceSettling, PresenceTyped
    <2>2. z.total \in Nat
      BY <1>2 DEF PresenceTables
    <2>3. y.total + PresenceRoomTime' + PresenceOnlineTime(y)' <= lived + played
      BY <1>1, <1>3, <1>4, <2>1, <2>2 DEF PresenceAtEnd, PresenceOwes, PresenceSettling,
         PresenceTyped
    <2>4. Presence!Offline.session = 0
      BY DEF Presence!Offline
    <2> QED BY <1>1, <1>4, <2>1, <2>3, <2>4 DEF PresenceAtEnd, PresenceOwes,
       Presence!CloseStale, Presence!queue,
               Presence!user, Presence!link, Presence!truth, Presence!time
  <1>7. PICK d : PresenceFollows(d, <<>>, made, clock) /\ d[0] = y
    <2>1. made \in Nat /\ clock \in Nat /\ PresenceSound(y, made, clock)
      BY <1>4 DEF PresenceSettling, PresenceTyped, PresenceSound
    <2> QED BY <1>4, <2>1, PresenceAlone
  <1>8. presenceLog' = <<>> /\ Len(presenceLog') = 0 /\ made' = made /\ clock' = clock
    BY DEF Presence!CloseStale, Presence!queue, Presence!user, Presence!link
  <1> QED BY <1>5, <1>6, <1>7, <1>8 DEF PresenceSettling

(* The database does with the first event what Apply says. *)
LEMMA PresenceWriteApplies ==
  ASSUME PresenceLimits, PresenceSettling, Presence!Write, NEW c, PresenceFollows(c,
         presenceLog, made, clock), c[0] = PresenceNow
  PROVE  /\ PresenceNow' = PresenceApply(presenceLog[1], c[0])
            /\ PresenceNow' \in PresenceTables
         /\ visits' \in Seq(Nat) /\ Len(visits') = logins'
            /\ \A i \in 1..logins' : visits'[i] = i
  <1> DEFINE e == presenceLog[1]
  <1>1. e = Head(presenceLog) /\ e \in PresenceEvents /\ PresenceNow \in PresenceTables
        /\ PresenceFits(e, PresenceNow, made, clock)
        /\ PresenceSound(PresenceNow, made, clock)
    BY DEF Presence!Write, PresenceFollows
  <1>2. PresenceApply(e, PresenceNow) \in PresenceTables
    BY <1>1, PresenceApplyTells DEF PresenceSettling, PresenceTyped
  <1>3. PresenceNow.total = total /\ PresenceNow.row = row /\ PresenceNow.logins = logins
        /\ PresenceNow.left = left
        /\ logins \in Nat /\ e.session \in Nat \ {0}
    BY <1>1 DEF PresenceNow, PresenceTables, PresenceEvents
  <1>4. visits \in Seq(Nat) /\ Len(visits) = logins /\ DOMAIN visits = 1..logins
        /\ \A i \in 1..logins : visits[i] = i
    BY DEF PresenceSettling, PresenceTyped
  <1> HIDE DEF e
  <1>5. CASE e.kind = "authenticated"
    <2>1. Presence!Authenticated(e)
      BY <1>1, <1>5 DEF Presence!Write
    <2>2. CASE e.session <= logins
      <3>1. UNCHANGED Presence!table
        <4>1. e.session \in DOMAIN visits /\ visits[e.session] = e.session
          BY <1>3, <1>4, <2>2
        <4> QED BY <2>1, <4>1 DEF Presence!Authenticated
      <3>2. PresenceApply(e, PresenceNow) = PresenceNow
        BY <1>3, <1>5, <2>2 DEF PresenceApply
      <3> QED BY <1>1, <1>4, <3>1, <3>2 DEF Presence!table, PresenceNow, e
    <2>3. CASE ~(e.session <= logins)
      <3>1. e.session = logins + 1
        BY <1>1, <1>3, <1>5, <2>3 DEF PresenceFits
      <3>2. /\ visits' = Append(visits, e.session) /\ logins' = logins + 1
            /\ row' = Presence!Online(e) /\ UNCHANGED <<total, left>>
        BY <1>3, <1>4, <2>1, <2>3 DEF Presence!Authenticated
      <3>3. PresenceApply(e, PresenceNow) = [total |-> total, row |-> Presence!Online(e), logins |-> logins + 1, left |-> left]
        BY <1>3, <1>5, <2>3 DEF PresenceApply
      <3>4. PresenceNow' = PresenceApply(e, PresenceNow)
        BY <3>2, <3>3 DEF PresenceNow
      <3>5. visits' \in Seq(Nat) /\ Len(visits') = logins'
            /\ \A i \in 1..logins' : visits'[i] = i
        BY <1>3, <1>4, <3>1, <3>2
      <3> QED BY <1>2, <3>4, <3>5 DEF e
    <2> QED BY <2>2, <2>3
  <1>6. CASE e.kind = "disconnect"
    <2>1. Presence!Disconnected(e)
      BY <1>1, <1>6 DEF Presence!Write
    <2>2. (visits # <<>> /\ visits[Len(visits)] = e.session) <=> logins = e.session
      BY <1>3, <1>4
    <2>3. left' = (IF logins = e.session /\ e.at > left THEN e.at ELSE left)
          /\ UNCHANGED <<total, row, visits, logins>>
      BY <1>3, <2>1, <2>2 DEF Presence!Disconnected
    <2>4. CASE logins = e.session /\ e.at > left
      <3>1. PresenceApply(e, PresenceNow) = [PresenceNow EXCEPT !.left = e.at]
        BY <1>3, <1>6, <2>4 DEF PresenceApply
      <3>2. PresenceNow' = PresenceApply(e, PresenceNow)
        BY <2>3, <2>4, <3>1 DEF PresenceNow
      <3> QED BY <1>2, <1>4, <2>3, <3>2 DEF e
    <2>5. CASE ~(logins = e.session /\ e.at > left)
      <3>1. PresenceApply(e, PresenceNow) = PresenceNow
        BY <1>3, <1>6, <2>5 DEF PresenceApply
      <3>2. PresenceNow' = PresenceNow
        BY <2>3, <2>5 DEF PresenceNow
      <3> QED BY <1>2, <1>4, <2>3, <3>1, <3>2 DEF e
    <2> QED BY <2>4, <2>5
  <1>7. CASE e.kind = "offline"
    <2>1. Presence!WentOffline(e)
      BY <1>1, <1>7 DEF Presence!Write
    <2>2. CASE row.session = e.session /\ row.inst = e.inst
      <3>1. PresenceApply(e, PresenceNow) = [total |-> total + (e.at - row.start), row |-> Presence!Offline, logins |-> logins, left |-> left]
        BY <1>3, <1>7, <2>2 DEF PresenceApply
      <3>2. total' = total + (e.at - row.start) /\ row' = Presence!Offline
            /\ UNCHANGED <<visits, logins, left>>
        <4>1. row.start <= e.at /\ row.start \in Nat /\ e.at \in Nat
          BY <1>1, <1>3 DEF PresenceFits, PresenceTables, PresenceRows, PresenceEvents
        <4>2. (IF e.at > row.start THEN e.at - row.start ELSE 0) = e.at - row.start
          BY <4>1
        <4> QED BY <2>1, <2>2, <4>2 DEF Presence!WentOffline, Presence!AddPlaytime
      <3>3. PresenceNow' = PresenceApply(e, PresenceNow)
        BY <3>1, <3>2 DEF PresenceNow
      <3> QED BY <1>2, <1>4, <3>2, <3>3 DEF e
    <2>3. CASE ~(row.session = e.session /\ row.inst = e.inst)
      <3>1. PresenceApply(e, PresenceNow) = PresenceNow
        BY <1>3, <1>7, <2>3 DEF PresenceApply
      <3>2. UNCHANGED Presence!table
        BY <2>1, <2>3 DEF Presence!WentOffline
      <3> QED BY <1>1, <1>4, <3>1, <3>2 DEF Presence!table, PresenceNow, e
    <2> QED BY <2>2, <2>3
  <1> QED BY <1>1, <1>5, <1>6, <1>7 DEF PresenceEvents

LEMMA PresenceWriteKeeps ==
  ASSUME PresenceLimits, PresenceSettling, Presence!Write
  PROVE  PresenceSettling'
  <1>1. PICK c, z : PresenceFollows(c, presenceLog, made, clock) /\ c[0] = PresenceNow
        /\ c[Len(presenceLog)] = z /\ PresenceAtEnd(z)
    BY DEF PresenceSettling
  <1>2. /\ PresenceNow' = PresenceApply(presenceLog[1], c[0]) /\ PresenceNow' \in PresenceTables
        /\ visits' \in Seq(Nat) /\ Len(visits') = logins'
           /\ \A i \in 1..logins' : visits'[i] = i
    BY <1>1, PresenceWriteApplies
  <1>3. PICK d : PresenceFollows(d, presenceLog', made, clock) /\ d[0] = PresenceNow'
        /\ d[Len(presenceLog')] = z
    <2>0. made \in Nat /\ clock \in Nat /\ presenceLog # <<>>
      BY DEF PresenceSettling, PresenceTyped, Presence!Write
    <2>1. CASE presenceLog' = Tail(presenceLog)
      BY <1>1, <1>2, <2>0, <2>1, PresenceWritten
    <2>2. CASE presenceLog' = presenceLog
      BY <1>1, <1>2, <2>0, <2>2, PresenceWrittenAgain
    <2> QED BY <2>1, <2>2 DEF Presence!Write
  <1>4. PresenceTyped'
    <2>1. total' = PresenceNow'.total /\ PresenceNow'.total \in Nat
      BY <1>2 DEF PresenceNow, PresenceTables
    <2> QED BY <1>2, <2>1 DEF PresenceSettling, PresenceTyped, Presence!Write, Presence!user,
       Presence!link,
               Presence!server, Presence!truth, Presence!time, Presence!Never
  <1>5. PresenceAtEnd(z)'
    <2>1. PresenceRoomTime' = PresenceRoomTime /\ PresenceOnlineTime(z)' = PresenceOnlineTime(z)
      BY DEF PresenceRoomTime, PresenceOnlineTime, Presence!Write, Presence!user, Presence!link,
         Presence!server, Presence!Never
    <2> QED BY <1>1, <2>1 DEF PresenceAtEnd, PresenceOwes, Presence!Write, Presence!user,
       Presence!link, Presence!server,
               Presence!truth, Presence!time
  <1>6. made' = made /\ clock' = clock
    BY DEF Presence!Write, Presence!user, Presence!link
  <1> QED BY <1>3, <1>4, <1>5, <1>6 DEF PresenceSettling

LEMMA PresenceNextInv ==
  ASSUME PresenceLimits, PresenceIInv, [Presence!Next]_(Presence!vars)
  PROVE  PresenceIInv'
  <1>1. Presence!Calm' => Presence!Calm
    BY DEF Presence!Calm, Presence!Next, Presence!vars, Presence!Tick, Presence!Heartbeat,
       Presence!Authenticate, Presence!Join, Presence!Leave, Presence!Lose,
       Presence!DangleBegins, Presence!LosePlaying, Presence!LoseAtOnce, Presence!Kick,
       Presence!GraceEnds, Presence!Admit, Presence!Crash, Presence!Write, Presence!GiveUp,
       Presence!Replay, Presence!CloseStale
  <1> SUFFICES ASSUME Presence!Calm PROVE PresenceSettling'
    BY <1>1 DEF PresenceIInv
  <1>2. PresenceSettling
    BY DEF PresenceIInv
  <1>3. CASE UNCHANGED Presence!vars
    BY <1>2, <1>3 DEF Presence!vars, PresenceSettling, PresenceTyped, PresenceAtEnd, PresenceOwes,
       PresenceRoomTime, PresenceOnlineTime, PresenceNow, Presence!Never
  <1>4. ~Presence!GiveUp
    BY DEF Presence!GiveUp, Presence!Calm
  <1>5. ~Presence!Replay
    BY <1>2 DEF Presence!Replay, PresenceSettling, PresenceTyped
  <1>6. ~Presence!Admit
    BY <1>2 DEF Presence!Admit, PresenceSettling, PresenceTyped
  <1>7. CASE Presence!LoseAtOnce \/ Presence!Kick
    BY <1>2, <1>7, PresenceRemovedKeeps
  <1> QED BY <1>2, <1>3, <1>4, <1>5, <1>6, <1>7, PresenceTickKeeps, PresenceHeartbeatKeeps,
             PresenceAuthenticateKeeps, PresenceJoinKeeps, PresenceLeaveKeeps,
             PresenceLoseKeeps, PresenceDangleBeginsKeeps, PresenceLosePlayingKeeps,
             PresenceGraceEndsKeeps, PresenceCrashKeeps, PresenceWriteKeeps,
             PresenceCloseStaleKeeps DEF Presence!Next

LEMMA PresenceInvTells ==
  ASSUME PresenceLimits, PresenceIInv
  PROVE  Presence!PresenceSettlesIfCalm /\ Presence!TimeIsLivedIfCalm
  <1> SUFFICES ASSUME Presence!Calm PROVE Presence!PresenceSettles /\ Presence!TimeIsLived
    BY DEF Presence!PresenceSettlesIfCalm, Presence!TimeIsLivedIfCalm
  <1>1. PICK c, z : PresenceFollows(c, presenceLog, made, clock) /\ c[0] = PresenceNow
        /\ c[Len(presenceLog)] = z /\ PresenceAtEnd(z)
    BY DEF PresenceIInv, PresenceSettling
  <1>2. z \in PresenceTables /\ PresenceSound(z, made, clock) /\ c[0].total <= z.total
    BY <1>1, PresenceEnds
  <1>3. Presence!TimeIsLived
    <2>0. PresenceTyped
      BY DEF PresenceIInv, PresenceSettling
    <2>1. PresenceOnlineTime(z) \in Nat /\ PresenceRoomTime \in Nat
      BY <1>1, <1>2, <2>0, PresenceRowIsPast DEF PresenceOnlineTime, PresenceRoomTime,
         PresenceTyped
    <2>2. total = PresenceNow.total /\ total \in Nat /\ z.total \in Nat /\ lived \in Nat
          /\ played \in Nat
      BY <1>2 DEF PresenceNow, PresenceTables, PresenceIInv, PresenceSettling, PresenceTyped
    <2> QED BY <1>1, <1>2, <2>1, <2>2 DEF Presence!TimeIsLived, PresenceAtEnd, PresenceOwes
  <1>4. Presence!PresenceSettles
    <2> SUFFICES ASSUME Presence!Settled PROVE row.session = session /\ logins = made
        /\ left = parted
      BY DEF Presence!PresenceSettles
    <2>1. z = PresenceNow
      BY <1>1 DEF Presence!Settled
    <2> QED BY <1>1, <2>1 DEF PresenceAtEnd, PresenceOwes, PresenceNow, Presence!Settled
  <1> QED BY <1>3, <1>4

LEMMA PresenceStep == [Next]_vars => [Presence!Next]_(Presence!vars)
  BY DEF Next, vars, OfRecovery, OfTelemetry, OfPresence, OfManaged, OfModeration,
         OfDirectory, presenceVars, Presence!vars

(* Over crashes and events written twice, unless an event becomes a dead      *)
(* letter, an authentication reaches the log late or not at all, or a user    *)
(* without a connection is kicked: once the log is written the tables have    *)
(* the session that there is, every login and the last time the user was      *)
(* taken to be lost, and the play time they have is never more than the time  *)
(* really spent (persistence/users.rs, session_lifecycle.rs, disconnect.rs).  *)
THEOREM PresenceIfCalmHolds ==
  ASSUME PresenceLimits
  PROVE  Spec => []PresenceIfCalm
  <1>1. Init => PresenceIInv
    BY PresenceInitInv DEF Init
  <1>2. PresenceIInv /\ [Next]_vars => PresenceIInv'
    BY PresenceStep, PresenceNextInv
  <1>3. PresenceIInv => PresenceIfCalm
    BY PresenceInvTells DEF PresenceIfCalm
  <1> QED BY <1>1, <1>2, <1>3, PTL DEF Spec

-----------------------------------------------------------------------------
(***************************************************************************)
(* Managed rooms.  The invariant says what the map, the table and the live *)
(* room have at each point of an operation that holds the gate.            *)
(***************************************************************************)
ManagedHosts == Players \cup {NoOne}
ManagedDefinitions ==
    [kind : {"hosted", "reserved"}, host : ManagedHosts, chart : Charts, pool : BOOLEAN]
ManagedSettled == [kind : {"hosted"}, host : ManagedHosts, chart : Charts, pool : BOOLEAN]
ManagedLiveRooms ==
    [kind : {"hosted", "reserved"}, gen : Nat, host : ManagedHosts, chart : Charts,
     chosen : BOOLEAN, people : BOOLEAN]

(* The chart of the live room is c, or the choice of its host. *)
ManagedChart(c) == ~managedLive.chosen => managedLive.chart = c

(* The live room has the host and the chart of a definition. *)
ManagedHas(d) ==
    managedLive # Managed!None /\ managedLive.host = d.host /\ ManagedChart(d.chart)

ManagedTypes ==
    /\ def \in ManagedDefinitions \cup {Managed!None}
       /\ managedLive \in ManagedLiveRooms \cup {Managed!None}
    /\ managedRow \in ManagedSettled \cup {Managed!None}
       /\ patch \in ManagedSettled \cup {Managed!None}
    /\ managedMade \in Nat /\ advance \in BOOLEAN /\ tells \subseteq ManagedHosts

(* At most one task is under way, and none while an operation is, except the *)
(* ones of a room that is taken away.                                        *)
ManagedOneTask ==
    /\ advance => tells = {} /\ patch = Managed!None
    /\ tells # {} => patch = Managed!None
    /\ \A h, k \in tells : h = k
    /\ ~Managed!Free /\ ~Managed!At("disband", "row") => tells = {} /\ ~advance
       /\ patch = Managed!None

(* What the map, the table and the live room say at each point of an operation. *)
ManagedResting ==
    Managed!Free => IF Managed!Hosted
            THEN /\ managedRow = def /\ managedLive # Managed!None /\ ManagedChart(def.chart)
                 /\ tells = {} => managedLive.host = def.host
                 /\ \A h \in tells : managedLive.host = h
            ELSE managedRow = Managed!None

ManagedCreating ==
    /\ Managed!At("create", "def") => def = Managed!None /\ managedRow = Managed!None
       /\ op.new \in ManagedDefinitions /\ ManagedHas(op.new)
    /\ Managed!At("create", "row") => Managed!Hosted /\ managedRow = Managed!None
       /\ ManagedHas(def)

ManagedUpdating ==
    op.what = "update" =>
        /\ op.at \in {"host", "chart", "row", "def", "undo"}
        /\ op.new \in ManagedSettled /\ op.old = def /\ Managed!Hosted
           /\ managedLive # Managed!None
        /\ managedRow = IF op.at = "def" THEN op.new ELSE def
        /\ managedLive.host = IF op.at = "host" THEN def.host ELSE op.new.host
        /\ ManagedChart(IF op.at \in {"host", "chart"} THEN def.chart ELSE op.new.chart)

ManagedEnding ==
    /\ op.what = "save" => op.at = "row" /\ op.new = def /\ Managed!Hosted /\ ManagedHas(def)
    /\ op.what = "disband" => op.at = "row" /\ def = Managed!None /\ managedLive = Managed!None
    /\ op.what = "create" => op.at \in {"def", "row"}
    /\ Managed!Free \/ op.what \in {"create", "update", "save", "disband"}

ManagedAgreeing == ManagedTypes /\ ManagedOneTask /\ ManagedResting /\ ManagedCreating
/\ ManagedUpdating /\ ManagedEnding
ManagedIInv == managedTrouble = {} => ManagedAgreeing

LEMMA ManagedNoneIsNone ==
  /\ Managed!None.kind = "none" /\ Managed!None \notin ManagedDefinitions
     /\ Managed!None \notin ManagedLiveRooms /\ Managed!None \notin ManagedSettled
  /\ \A d \in ManagedDefinitions : d.kind = "hosted" <=> d \in ManagedSettled
  /\ \A d \in ManagedSettled : d \in ManagedDefinitions /\ d.kind = "hosted"
     /\ Managed!Settings(d) = d
  BY DEF Managed!None, ManagedDefinitions, ManagedLiveRooms, ManagedSettled, Managed!Settings,
     Managed!Definition

(* Who holds the gate is not idle. *)
LEMMA ManagedBusy == ASSUME op.what # "idle" PROVE ~Managed!Free
  <1>1. Managed!Idle.what = "idle"
    BY DEF Managed!Idle
  <1> QED BY <1>1 DEF Managed!Free

LEMMA ManagedInitInv == Managed!Init => ManagedIInv
  <1> SUFFICES ASSUME Managed!Init PROVE ManagedAgreeing
    BY DEF ManagedIInv
  <1>1. op.what = "idle" /\ Managed!Free /\ ~Managed!Hosted /\ managedRow = Managed!None
    BY ManagedNoneIsNone DEF Managed!Init, Managed!Free, Managed!Idle, Managed!Hosted
  <1>2. ManagedTypes
    BY DEF Managed!Init, ManagedTypes
  <1>3. ManagedOneTask
    BY <1>1 DEF Managed!Init, ManagedOneTask
  <1> QED BY <1>1, <1>2, <1>3 DEF ManagedAgreeing, ManagedResting, ManagedCreating,
             ManagedUpdating, ManagedEnding, ManagedChart, Managed!At

(* In the calm an operation begins when nothing is under way. *)
LEMMA ManagedQuiet ==
  ASSUME managedTrouble = {}, ManagedAgreeing, Managed!Calm
  PROVE  /\ Managed!Free /\ tells = {} /\ ~advance /\ patch = Managed!None
         /\ IF Managed!Hosted THEN def \in ManagedSettled /\ managedRow = def /\ managedLive \in ManagedLiveRooms /\ ManagedHas(def) ELSE managedRow = Managed!None
  BY ManagedNoneIsNone DEF Managed!Calm, ManagedAgreeing, ManagedTypes, ManagedResting,
     ManagedHas, ManagedChart, Managed!Hosted

LEMMA ManagedCreateKeeps ==
  ASSUME managedTrouble = {}, ManagedAgreeing,
         \/ \E k \in {"hosted", "reserved"}, h \in ManagedHosts, c \in Charts, p \in BOOLEAN :
               Managed!CreateBegin(k, h, c, p)
         \/ Managed!Install \/ Managed!CreateRow
  PROVE  ManagedAgreeing'
  <1>1. ASSUME NEW k \in {"hosted", "reserved"}, NEW h \in ManagedHosts, NEW c \in Charts,
               NEW p \in BOOLEAN, Managed!CreateBegin(k, h, c, p)
        PROVE  ManagedAgreeing'
    <2>1. /\ Managed!Free /\ tells = {} /\ ~advance /\ patch = Managed!None
             /\ def = Managed!None /\ managedRow = Managed!None
          /\ UNCHANGED <<managedTrouble, def, managedRow, patch, tells, advance, timers, told>>
      BY <1>1, ManagedQuiet, ManagedNoneIsNone DEF Managed!CreateBegin, Managed!Hosted
    <2>2. managedLive' \in ManagedLiveRooms /\ managedLive'.host = h
          /\ managedLive'.chart = c /\ managedLive'.chosen = FALSE /\ managedMade' \in Nat
      BY <1>1 DEF Managed!CreateBegin, Managed!NewRoom, ManagedLiveRooms, ManagedAgreeing,
         ManagedTypes
    <2>3. op' = [what |-> "create", at |-> "def",
                 new |-> [kind |-> k, host |-> h, chart |-> c, pool |-> p], old |-> Managed!None]
      BY <1>1 DEF Managed!CreateBegin, Managed!Go, Managed!Definition
    <2>4. ~Managed!Free'
      BY <2>3 DEF Managed!Free, Managed!Idle
    <2> QED BY <2>1, <2>2, <2>3, <2>4, ManagedNoneIsNone
            DEF ManagedAgreeing, ManagedTypes, ManagedOneTask, ManagedResting,
                ManagedCreating, ManagedUpdating, ManagedEnding, ManagedHas, ManagedChart, Managed!At,
                ManagedDefinitions
  <1>2. CASE Managed!Install
    <2>1. Managed!At("create", "def") /\ def = Managed!None /\ managedRow = Managed!None
          /\ op.new \in ManagedDefinitions /\ ManagedHas(op.new)
          /\ UNCHANGED <<managedTrouble, managedRow, patch, tells, advance, managedMade, told>> /\ ~Managed!Free
      BY <1>2, ManagedBusy DEF Managed!Install, ManagedAgreeing, ManagedCreating, Managed!At
    <2>2. tells = {} /\ ~advance /\ patch = Managed!None
      BY <2>1 DEF ManagedAgreeing, ManagedOneTask, Managed!At
    <2>3. CASE def' = op.new /\ op.new.kind = "hosted"
               /\ Managed!Go("create", "row", op.new, Managed!None) /\ UNCHANGED managedLive
      <3>1. ~Managed!Free' /\ op'.what = "create" /\ op'.at = "row"
        BY <2>3 DEF Managed!Free, Managed!Idle, Managed!Go
      <3> QED BY <2>1, <2>2, <2>3, <3>1 DEF ManagedAgreeing, ManagedTypes, ManagedOneTask,
                 ManagedResting, ManagedCreating, ManagedUpdating, ManagedEnding, ManagedHas, ManagedChart,
                 Managed!At, Managed!Hosted
    <2>4. CASE def' = op.new /\ op.new.kind # "hosted" /\ op' = Managed!Idle
               /\ UNCHANGED managedLive
      BY <2>1, <2>2, <2>4 DEF ManagedAgreeing, ManagedTypes, ManagedOneTask, ManagedResting,
         ManagedCreating, ManagedUpdating, ManagedEnding, ManagedHas, ManagedChart, Managed!At,
         Managed!Hosted, Managed!Free, Managed!Idle
    <2>5. CASE managedLive' = Managed!None /\ op' = Managed!Idle /\ UNCHANGED <<def, timers>>
      BY <2>1, <2>2, <2>5, ManagedNoneIsNone DEF ManagedAgreeing, ManagedTypes,
         ManagedOneTask, ManagedResting, ManagedCreating, ManagedUpdating, ManagedEnding,
         ManagedHas, ManagedChart, Managed!At, Managed!Hosted, Managed!Free, Managed!Idle
    <2> QED BY <1>2, <2>3, <2>4, <2>5 DEF Managed!Install
  <1>3. CASE Managed!CreateRow
    <2>1. Managed!At("create", "row") /\ def \in ManagedSettled
          /\ managedRow = Managed!None /\ ManagedHas(def) /\ op' = Managed!Idle
          /\ UNCHANGED <<managedTrouble, patch, tells, advance, timers, managedMade, told>> /\ ~Managed!Free
      <3>1. op.what = "create" /\ op.at = "row" /\ op' = Managed!Idle
        BY <1>3 DEF Managed!CreateRow, Managed!At
      <3>2. Managed!Hosted /\ managedRow = Managed!None /\ ManagedHas(def)
            /\ def \in ManagedDefinitions \cup {Managed!None}
        BY <3>1 DEF ManagedAgreeing, ManagedCreating, Managed!At, ManagedTypes
      <3>3. def \in ManagedSettled
        BY <3>2, ManagedNoneIsNone DEF Managed!Hosted
      <3> QED BY <1>3, <3>1, <3>2, <3>3, ManagedBusy DEF Managed!CreateRow, Managed!At
    <2>2. tells = {} /\ ~advance /\ patch = Managed!None
      BY <2>1 DEF ManagedAgreeing, ManagedOneTask, Managed!At
    <2>3. CASE managedRow' = def /\ UNCHANGED <<def, managedLive>>
      BY <2>1, <2>2, <2>3 DEF ManagedAgreeing, ManagedTypes, ManagedOneTask, ManagedResting,
         ManagedCreating, ManagedUpdating, ManagedEnding, ManagedHas, ManagedChart, Managed!At,
         Managed!Hosted, Managed!Free, Managed!Idle
    <2>4. CASE def' = Managed!None /\ managedLive' = Managed!None /\ UNCHANGED managedRow
      BY <2>1, <2>2, <2>4, ManagedNoneIsNone DEF ManagedAgreeing, ManagedTypes,
         ManagedOneTask, ManagedResting, ManagedCreating, ManagedUpdating, ManagedEnding,
         ManagedHas, ManagedChart, Managed!At, Managed!Hosted, Managed!Free, Managed!Idle
    <2> QED BY <1>3, <2>1, <2>3, <2>4, ManagedNoneIsNone DEF Managed!CreateRow, Managed!Upsert
  <1> QED BY <1>1, <1>2, <1>3

LEMMA ManagedPatchReadKeeps ==
  ASSUME managedTrouble = {}, ManagedAgreeing, Managed!PatchRead
  PROVE  ManagedAgreeing'
  <1>1. /\ Managed!Free /\ tells = {} /\ ~advance /\ Managed!Hosted /\ patch' = def
        /\ UNCHANGED <<managedTrouble, def, managedLive, managedRow, op, tells, advance, timers,
                       managedMade, told>>
    BY ManagedQuiet DEF Managed!PatchRead
  <1>2. patch' \in ManagedSettled
    BY <1>1, ManagedQuiet DEF Managed!PatchRead
  <1>3. ManagedTypes'
    BY <1>1, <1>2 DEF ManagedAgreeing, ManagedTypes
  <1>4. ManagedOneTask'
    BY <1>1 DEF ManagedOneTask, Managed!Free
  <1>5. ManagedResting'
    BY <1>1 DEF ManagedAgreeing, ManagedResting, ManagedChart, Managed!Free, Managed!Hosted
  <1>6. ManagedCreating'
    BY <1>1 DEF ManagedAgreeing, ManagedCreating, ManagedHas, ManagedChart, Managed!At,
       Managed!Hosted
  <1>7. ManagedUpdating' /\ ManagedEnding'
    BY <1>1 DEF ManagedAgreeing, ManagedUpdating, ManagedEnding, ManagedHas, ManagedChart,
       Managed!Hosted, Managed!Free
  <1> QED BY <1>3, <1>4, <1>5, <1>6, <1>7 DEF ManagedAgreeing

LEMMA ManagedUpdateBeginKeeps ==
  ASSUME managedTrouble = {}, ManagedAgreeing, NEW h \in ManagedHosts, NEW c \in Charts,
         NEW p \in BOOLEAN, Managed!UpdateBegin(h, c, p)
  PROVE  ManagedAgreeing'
  <1>1. /\ Managed!Free /\ patch \in ManagedSettled /\ tells = {} /\ ~advance
           /\ patch' = Managed!None
        /\ UNCHANGED <<managedTrouble, def, managedLive, managedRow, tells, advance, timers, managedMade, told>>
    BY ManagedNoneIsNone DEF Managed!UpdateBegin, ManagedAgreeing, ManagedTypes, ManagedOneTask
  <1>2. CASE Managed!Hosted /\ managedLive # Managed!None
    <2> PICK d : d = Managed!Definition("hosted", h, c, p)
      OBVIOUS
    <2>1. d \in ManagedSettled
      BY DEF ManagedSettled, Managed!Definition
    <2>2. op' = [what |-> "update", at |-> "host", new |-> d, old |-> def]
      BY <1>2 DEF Managed!UpdateBegin, Managed!Go
    <2>3. ~Managed!Free'
      BY <2>2 DEF Managed!Free, Managed!Idle
    <2>4. managedRow = def /\ ManagedChart(def.chart) /\ managedLive.host = def.host
      BY <1>1, <1>2 DEF ManagedAgreeing, ManagedResting
    <2> QED BY <1>1, <1>2, <2>1, <2>2, <2>3, <2>4
            DEF ManagedAgreeing, ManagedTypes, ManagedOneTask, ManagedResting,
                ManagedCreating, ManagedUpdating, ManagedEnding, ManagedChart, Managed!At, Managed!Hosted
  <1>3. CASE ~(Managed!Hosted /\ managedLive # Managed!None)
    BY <1>1, <1>3 DEF Managed!UpdateBegin, ManagedAgreeing, ManagedTypes, ManagedOneTask,
       ManagedResting, ManagedCreating, ManagedUpdating, ManagedEnding, Managed!At,
       Managed!Hosted, ManagedHas, ManagedChart, Managed!Free
  <1> QED BY <1>2, <1>3

LEMMA ManagedPending ==
  ASSUME ManagedAgreeing, op.what = "update"
  PROVE  /\ ~Managed!Free /\ tells = {} /\ ~advance /\ patch = Managed!None
         /\ def \in ManagedSettled /\ op.new \in ManagedSettled /\ op.old = def
            /\ managedLive \in ManagedLiveRooms
  <1>1. ~Managed!Free
    BY ManagedBusy
  <1>2. def \in ManagedSettled /\ op.new \in ManagedSettled /\ op.old = def
        /\ managedLive \in ManagedLiveRooms
    BY ManagedNoneIsNone DEF ManagedAgreeing, ManagedTypes, ManagedUpdating, Managed!Hosted
  <1> QED BY <1>1, <1>2 DEF ManagedAgreeing, ManagedOneTask, Managed!At

LEMMA ManagedUpdateSetKeeps ==
  ASSUME managedTrouble = {}, ManagedAgreeing, Managed!UpdateHost \/ Managed!UpdateChart
  PROVE  ManagedAgreeing'
  <1>1. CASE Managed!UpdateHost
    <2>1. /\ op.what = "update" /\ op.at = "host"
             /\ UNCHANGED <<managedTrouble, def, managedRow, patch, tells, advance, timers, managedMade, told>>
          /\ managedLive' = IF op.new.host = op.old.host THEN managedLive
                            ELSE [managedLive EXCEPT !.host = op.new.host]
          /\ op' = [what |-> "update", at |-> "chart", new |-> op.new, old |-> op.old]
      BY <1>1 DEF Managed!UpdateHost, Managed!UpdateSet, Managed!HostIs, Managed!At, Managed!Go
    <2>2. managedLive' \in ManagedLiveRooms /\ managedLive'.host = op.new.host
          /\ managedLive'.chart = managedLive.chart /\ managedLive'.chosen = managedLive.chosen
      BY <2>1, ManagedPending DEF ManagedAgreeing, ManagedUpdating, ManagedLiveRooms,
         ManagedSettled
    <2>3. ~Managed!Free'
      BY <2>1 DEF Managed!Free, Managed!Idle
    <2> QED BY <2>1, <2>2, <2>3, ManagedPending, ManagedNoneIsNone
            DEF ManagedAgreeing, ManagedTypes, ManagedOneTask, ManagedResting,
                ManagedCreating, ManagedUpdating, ManagedEnding, ManagedChart, Managed!At, Managed!Hosted
  <1>2. CASE Managed!UpdateChart
    <2>1. /\ op.what = "update" /\ op.at = "chart"
             /\ UNCHANGED <<managedTrouble, def, managedRow, patch, tells, advance, timers, managedMade, told>>
          /\ managedLive' = IF op.new.chart = op.old.chart THEN managedLive
                            ELSE [managedLive EXCEPT !.chart = op.new.chart, !.chosen = FALSE]
          /\ op' = [what |-> "update", at |-> "row", new |-> op.new, old |-> op.old]
      BY <1>2 DEF Managed!UpdateChart, Managed!UpdateSet, Managed!ChartIs, Managed!At, Managed!Go
    <2>2. managedLive' \in ManagedLiveRooms /\ managedLive'.host = managedLive.host
          /\ (~managedLive'.chosen => managedLive'.chart = op.new.chart)
      BY <2>1, ManagedPending DEF ManagedAgreeing, ManagedUpdating, ManagedLiveRooms,
         ManagedSettled, ManagedChart
    <2>3. ~Managed!Free'
      BY <2>1 DEF Managed!Free, Managed!Idle
    <2> QED BY <2>1, <2>2, <2>3, ManagedPending, ManagedNoneIsNone
            DEF ManagedAgreeing, ManagedTypes, ManagedOneTask, ManagedResting,
                ManagedCreating, ManagedUpdating, ManagedEnding, ManagedChart, Managed!At, Managed!Hosted
  <1> QED BY <1>1, <1>2

LEMMA ManagedUpdateKeeps ==
  ASSUME managedTrouble = {}, ManagedAgreeing,
         Managed!UpdateRow \/ Managed!UpdateDef \/ Managed!UpdateUndo
  PROVE  ManagedAgreeing'
  <1>1. CASE Managed!UpdateRow
    <2>1. /\ op.what = "update" /\ op.at = "row"
             /\ UNCHANGED <<managedTrouble, def, managedLive, patch, tells, advance, timers, managedMade, told>>
          /\ \/ managedRow' = op.new /\ op' = [what |-> "update", at |-> "def", new |-> op.new, old |-> op.old]
             \/ managedRow' = managedRow /\ op' = [what |-> "update", at |-> "undo", new |-> op.new, old |-> op.old]
      BY <1>1, ManagedPending, ManagedNoneIsNone DEF Managed!UpdateRow, Managed!At,
         Managed!Go, Managed!Upsert
    <2>2. ~Managed!Free'
      <3>1. op'.what = "update"
        BY <2>1
      <3>2. Managed!Idle'.what = "idle"
        BY DEF Managed!Idle
      <3> QED BY <3>1, <3>2 DEF Managed!Free
    <2> QED BY <2>1, <2>2, ManagedPending
            DEF ManagedAgreeing, ManagedTypes, ManagedOneTask, ManagedResting,
                ManagedCreating, ManagedUpdating, ManagedEnding, ManagedChart, Managed!At, Managed!Hosted
  <1>2. CASE Managed!UpdateDef
    <2>1. /\ op.what = "update" /\ op.at = "def" /\ def' = op.new /\ op' = Managed!Idle
          /\ UNCHANGED <<managedTrouble, managedLive, managedRow, patch, tells, advance, timers, managedMade, told>>
      BY <1>2 DEF Managed!UpdateDef, Managed!At
    <2> QED BY <2>1, ManagedPending, ManagedNoneIsNone
            DEF ManagedAgreeing, ManagedTypes, ManagedOneTask, ManagedResting,
                ManagedCreating, ManagedUpdating, ManagedEnding, ManagedChart, Managed!At, Managed!Hosted,
                Managed!Free, Managed!Idle
  <1>3. CASE Managed!UpdateUndo
    <2>1. /\ op.what = "update" /\ op.at = "undo" /\ op' = Managed!Idle
          /\ UNCHANGED <<managedTrouble, def, managedRow, patch, tells, advance, timers, managedMade, told>>
          /\ managedLive' = [managedLive EXCEPT
                !.host = IF op.new.host # op.old.host THEN op.old.host ELSE @,
                !.chart = IF op.new.chart # op.old.chart THEN op.old.chart ELSE @,
                !.chosen = ~(op.new.chart # op.old.chart) /\ @]
      BY <1>3 DEF Managed!UpdateUndo, Managed!At
    <2>2. managedLive.host = op.new.host /\ ManagedChart(op.new.chart) /\ managedRow = def
      BY <2>1 DEF ManagedAgreeing, ManagedUpdating
    <2>3. managedLive' \in ManagedLiveRooms /\ managedLive'.host = def.host
          /\ (~managedLive'.chosen => managedLive'.chart = def.chart)
      <3>0. managedLive \in ManagedLiveRooms /\ op.old = def /\ def \in ManagedSettled
            /\ op.new \in ManagedSettled
        BY <2>1, ManagedPending
      <3>1. CASE op.new.chart = op.old.chart
        <4>1. managedLive'.chosen = managedLive.chosen /\ managedLive'.chart = managedLive.chart
          BY <2>1, <3>0, <3>1 DEF ManagedLiveRooms
        <4>2. managedLive' \in ManagedLiveRooms /\ managedLive'.host = def.host
          BY <2>1, <2>2, <3>0, <3>1, <4>1 DEF ManagedLiveRooms, ManagedSettled
        <4> QED BY <2>2, <3>0, <3>1, <4>1, <4>2 DEF ManagedChart
      <3>2. CASE op.new.chart # op.old.chart
        BY <2>1, <2>2, <3>0, <3>2 DEF ManagedLiveRooms, ManagedSettled
      <3> QED BY <3>1, <3>2
    <2> QED BY <2>1, <2>2, <2>3, ManagedPending, ManagedNoneIsNone
            DEF ManagedAgreeing, ManagedTypes, ManagedOneTask, ManagedResting,
                ManagedCreating, ManagedUpdating, ManagedEnding, ManagedChart, Managed!At, Managed!Hosted,
                Managed!Free, Managed!Idle
  <1> QED BY <1>1, <1>2, <1>3

LEMMA ManagedHostKeeps ==
  ASSUME managedTrouble = {}, ManagedAgreeing, NEW h \in ManagedHosts,
         \/ Managed!HostLeaves(h) \/ Managed!Cycle(h) \/ Managed!PersistHost(h)
         \/ Managed!HostJoins(h)
  PROVE  ManagedAgreeing'
  <1>1. CASE Managed!HostLeaves(h)
    <2>1. /\ Managed!Free /\ tells = {} /\ ~advance /\ patch = Managed!None /\ Managed!Hosted
          /\ def \in ManagedSettled /\ managedRow = def
             /\ managedLive \in ManagedLiveRooms /\ ManagedChart(def.chart)
      BY <1>1, ManagedQuiet DEF Managed!HostLeaves, ManagedHas
    <2>2. /\ managedLive' = [managedLive EXCEPT !.host = h] /\ tells' = {h}
          /\ UNCHANGED <<managedTrouble, def, managedRow, op, patch, advance, timers, managedMade>>
      BY <1>1, <2>1 DEF Managed!HostLeaves
    <2>3. managedLive' \in ManagedLiveRooms /\ managedLive'.host = h
          /\ managedLive'.chart = managedLive.chart /\ managedLive'.chosen = managedLive.chosen
      BY <2>1, <2>2 DEF ManagedLiveRooms
    <2> QED BY <2>1, <2>2, <2>3, ManagedNoneIsNone
            DEF ManagedAgreeing, ManagedTypes, ManagedOneTask, ManagedResting,
                ManagedCreating, ManagedUpdating, ManagedEnding, ManagedChart, Managed!At, Managed!Hosted,
                Managed!Free, Managed!Idle
  <1>2. ~Managed!Cycle(h)
    BY DEF Managed!Cycle
  <1>3. CASE Managed!PersistHost(h)
    <2>1. /\ Managed!Free /\ h \in tells /\ tells = {h} /\ ~advance
             /\ patch = Managed!None /\ tells' = {}
          /\ UNCHANGED <<managedTrouble, managedLive, managedRow, patch, advance, timers, managedMade, told>>
      BY <1>3 DEF Managed!PersistHost, ManagedAgreeing, ManagedOneTask
    <2>2. CASE Managed!Hosted
      <3>1. /\ def \in ManagedSettled /\ managedLive \in ManagedLiveRooms
               /\ ManagedChart(def.chart) /\ managedLive.host = h
        BY <2>1, <2>2, ManagedNoneIsNone DEF ManagedAgreeing, ManagedTypes, ManagedResting,
           Managed!Hosted
      <3>2. def' = [def EXCEPT !.host = h]
            /\ op' = [what |-> "save", at |-> "row", new |-> def', old |-> Managed!None]
        BY <1>3, <2>2 DEF Managed!PersistHost, Managed!Go
      <3>3. def' \in ManagedSettled /\ def'.host = h /\ def'.chart = def.chart
        BY <3>1, <3>2 DEF ManagedSettled
      <3>4. ~Managed!Free'
        BY <3>2 DEF Managed!Free, Managed!Idle
      <3> QED BY <2>1, <3>1, <3>2, <3>3, <3>4, ManagedNoneIsNone
              DEF ManagedAgreeing, ManagedTypes, ManagedOneTask, ManagedResting,
                  ManagedCreating, ManagedUpdating, ManagedEnding, ManagedChart, Managed!At, Managed!Hosted,
                  ManagedHas
    <2>3. CASE ~Managed!Hosted
      BY <1>3, <2>1, <2>3
         DEF Managed!PersistHost, ManagedAgreeing, ManagedTypes, ManagedOneTask,
             ManagedResting, ManagedCreating, ManagedUpdating, ManagedEnding, Managed!At,
             Managed!Hosted, ManagedHas, ManagedChart, Managed!Free
    <2> QED BY <2>2, <2>3
  <1>4. CASE Managed!HostJoins(h)
    <2>1. /\ Managed!Free /\ tells = {} /\ ~advance /\ patch = Managed!None /\ Managed!Hosted
          /\ managedRow = def /\ managedLive \in ManagedLiveRooms /\ ManagedHas(def)
      BY <1>4, ManagedQuiet DEF Managed!HostJoins
    <2>2. /\ tells' = {h} /\ managedLive' = [managedLive EXCEPT !.host = h]
          /\ UNCHANGED <<managedTrouble, def, managedRow, op, patch, advance, timers,
                         managedMade>>
      BY <1>4, <2>1 DEF Managed!HostJoins, Managed!HostIs
    <2>3. managedLive' \in ManagedLiveRooms /\ managedLive'.host = h
          /\ managedLive'.chart = managedLive.chart /\ managedLive'.chosen = managedLive.chosen
      BY <2>1, <2>2 DEF ManagedLiveRooms
    <2> QED BY <2>1, <2>2, <2>3, ManagedNoneIsNone
            DEF ManagedAgreeing, ManagedTypes, ManagedOneTask, ManagedResting,
                ManagedCreating, ManagedUpdating, ManagedEnding, ManagedHas, ManagedChart,
                Managed!At, Managed!Hosted, Managed!Free, Managed!Idle
  <1> QED BY <1>1, <1>2, <1>3, <1>4

LEMMA ManagedSelectKeeps ==
  ASSUME managedTrouble = {}, ManagedAgreeing, NEW c \in Charts,
         Managed!SelectChart(c) \/ \E h \in ManagedHosts : Managed!ConsoleSets(h, c)
  PROVE  ManagedAgreeing'
  <1>1. Managed!SelectChart(c)
    BY DEF Managed!ConsoleSets
  <1>2. /\ Managed!Free /\ tells = {} /\ ~advance /\ patch = Managed!None
        /\ managedLive \in ManagedLiveRooms
    BY <1>1, ManagedQuiet DEF Managed!SelectChart, ManagedAgreeing, ManagedTypes
  <1>3. /\ managedLive' = [managedLive EXCEPT !.chart = c, !.chosen = TRUE]
        /\ UNCHANGED <<managedTrouble, def, managedRow, op, patch, tells, advance, timers,
                       managedMade>>
    BY <1>1 DEF Managed!SelectChart
  <1>4. managedLive' \in ManagedLiveRooms /\ managedLive'.host = managedLive.host
        /\ managedLive'.chosen
    BY <1>2, <1>3 DEF ManagedLiveRooms
  <1> QED BY <1>2, <1>3, <1>4, ManagedNoneIsNone
          DEF ManagedAgreeing, ManagedTypes, ManagedOneTask, ManagedResting,
              ManagedCreating, ManagedUpdating, ManagedEnding, ManagedHas, ManagedChart,
              Managed!At, Managed!Hosted, Managed!Free, Managed!Idle

LEMMA ManagedRoundKeeps ==
  ASSUME managedTrouble = {}, ManagedAgreeing,
         Managed!RoundEnds \/ (\E c \in Charts : Managed!Advance(c)) \/ Managed!SaveRow
  PROVE  ManagedAgreeing'
  <1>1. CASE Managed!RoundEnds
    <2>1. /\ Managed!Free /\ tells = {} /\ ~advance /\ patch = Managed!None
          /\ UNCHANGED <<managedTrouble, def, managedLive, managedRow, op, patch, tells, managedMade>> /\ advance' \in BOOLEAN
      BY <1>1, ManagedQuiet DEF Managed!RoundEnds, ManagedAgreeing, ManagedTypes
    <2> QED BY <2>1 DEF ManagedAgreeing, ManagedTypes, ManagedOneTask, ManagedResting,
               ManagedCreating, ManagedUpdating, ManagedEnding, ManagedChart, Managed!At, Managed!Hosted,
               Managed!Free, ManagedHas
  <1>2. ASSUME NEW c \in Charts, Managed!Advance(c) PROVE ManagedAgreeing'
    <2>1. /\ Managed!Free /\ advance /\ advance' = FALSE /\ tells = {} /\ patch = Managed!None
          /\ UNCHANGED <<managedTrouble, managedRow, patch, tells, timers, managedMade, told>>
      BY <1>2 DEF Managed!Advance, ManagedAgreeing, ManagedOneTask
    <2>2. CASE Managed!Hosted /\ managedLive # Managed!None /\ managedLive' = Managed!ChartIs(c)
               /\ def' = [def EXCEPT !.chart = c] /\ Managed!Go("save", "row", def', Managed!None)
      <3>1. /\ def \in ManagedSettled /\ managedLive \in ManagedLiveRooms
               /\ managedLive.host = def.host
        BY <2>1, <2>2, ManagedNoneIsNone DEF ManagedAgreeing, ManagedTypes, ManagedResting,
           Managed!Hosted
      <3>2. /\ def' = [def EXCEPT !.chart = c]
               /\ managedLive' = [managedLive EXCEPT !.chart = c, !.chosen = FALSE]
            /\ op' = [what |-> "save", at |-> "row", new |-> def', old |-> Managed!None]
        BY <2>2 DEF Managed!ChartIs, Managed!Go
      <3>3. def' \in ManagedSettled /\ def'.chart = c /\ def'.host = def.host
        BY <3>1, <3>2 DEF ManagedSettled
      <3>5. managedLive' \in ManagedLiveRooms /\ managedLive'.chart = c
            /\ managedLive'.host = managedLive.host
        BY <3>1, <3>2 DEF ManagedLiveRooms
      <3>4. ~Managed!Free'
        BY <3>2 DEF Managed!Free, Managed!Idle
      <3> QED BY <2>1, <3>1, <3>2, <3>3, <3>4, <3>5, ManagedNoneIsNone
              DEF ManagedAgreeing, ManagedTypes, ManagedOneTask, ManagedResting,
                  ManagedCreating, ManagedUpdating, ManagedEnding, ManagedChart, Managed!At, Managed!Hosted,
                  ManagedHas
    <2>3. CASE UNCHANGED <<managedLive, def, op>>
      BY <2>1, <2>3
         DEF ManagedAgreeing, ManagedTypes, ManagedOneTask, ManagedResting,
             ManagedCreating, ManagedUpdating, ManagedEnding, Managed!At, Managed!Hosted,
             ManagedHas, ManagedChart, Managed!Free
    <2> QED BY <1>2, <2>2, <2>3 DEF Managed!Advance
  <1>3. CASE Managed!SaveRow
    <2>1. /\ op.what = "save" /\ op.at = "row" /\ op' = Managed!Idle
             /\ managedRow' = Managed!Settings(op.new)
          /\ UNCHANGED <<managedTrouble, def, managedLive, patch, tells, advance, timers, managedMade, told>>
      BY <1>3 DEF Managed!SaveRow, Managed!Upsert, Managed!At
    <2>2. def \in ManagedSettled /\ op.new = def /\ ManagedHas(def) /\ tells = {}
          /\ ~advance /\ patch = Managed!None
      <3>1. ~Managed!Free
        BY <2>1, ManagedBusy
      <3>2. def \in ManagedSettled /\ op.new = def /\ ManagedHas(def)
        BY <2>1, ManagedNoneIsNone DEF ManagedAgreeing, ManagedEnding, ManagedChart, ManagedTypes,
           Managed!Hosted
      <3> QED BY <2>1, <3>1, <3>2 DEF ManagedAgreeing, ManagedOneTask, Managed!At
    <2> QED BY <2>1, <2>2, ManagedNoneIsNone
            DEF ManagedAgreeing, ManagedTypes, ManagedOneTask, ManagedResting,
                ManagedCreating, ManagedUpdating, ManagedEnding, Managed!At, Managed!Hosted,
                ManagedHas, ManagedChart, Managed!Free, Managed!Idle
  <1> QED BY <1>1, <1>2, <1>3

LEMMA ManagedDisbandKeeps ==
  ASSUME managedTrouble = {}, ManagedAgreeing, Managed!Disband \/ Managed!DisbandRow
  PROVE  ManagedAgreeing'
  <1>1. CASE Managed!Disband
    <2>1. /\ Managed!Free /\ managedLive' = Managed!None /\ def' = Managed!None
             /\ UNCHANGED <<managedTrouble, managedRow, patch, tells, advance, managedMade, told>>
          /\ \/ Managed!Hosted /\ op' = [what |-> "disband", at |-> "row", new |-> Managed!None, old |-> def]
             \/ ~Managed!Hosted /\ op' = Managed!Idle
      BY <1>1 DEF Managed!Disband, Managed!Go
    <2>2. CASE Managed!Hosted
               /\ op' = [what |-> "disband", at |-> "row", new |-> Managed!None, old |-> def]
      <3>1. ~Managed!Free'
        BY <2>2 DEF Managed!Free, Managed!Idle
      <3> QED BY <2>1, <2>2, <3>1, ManagedNoneIsNone
              DEF ManagedAgreeing, ManagedTypes, ManagedOneTask, ManagedResting,
                  ManagedCreating, ManagedUpdating, ManagedEnding, ManagedChart, Managed!At, ManagedHas
    <2>3. CASE ~Managed!Hosted /\ op' = Managed!Idle
      BY <2>1, <2>3, ManagedNoneIsNone
         DEF ManagedAgreeing, ManagedTypes, ManagedOneTask, ManagedResting, ManagedCreating,
             ManagedUpdating, ManagedEnding, Managed!At, Managed!Hosted, ManagedHas, ManagedChart,
             Managed!Free, Managed!Idle
    <2> QED BY <2>1, <2>2, <2>3
  <1>2. CASE Managed!DisbandRow
    <2>1. /\ op.what = "disband" /\ op' = Managed!Idle /\ managedRow' = Managed!None
             /\ def = Managed!None
          /\ UNCHANGED <<managedTrouble, def, managedLive, patch, tells, advance, timers, managedMade, told>>
      BY <1>2 DEF Managed!DisbandRow, Managed!At, ManagedAgreeing, ManagedEnding
    <2> QED BY <2>1, ManagedNoneIsNone
            DEF ManagedAgreeing, ManagedTypes, ManagedOneTask, ManagedResting,
                ManagedCreating, ManagedUpdating, ManagedEnding, Managed!At, Managed!Hosted,
                ManagedHas, ManagedChart, Managed!Free, Managed!Idle
  <1> QED BY <1>1, <1>2

LEMMA ManagedReservedKeeps ==
  ASSUME managedTrouble = {}, ManagedAgreeing, Managed!Join \/ Managed!LastLeaves
  PROVE  ManagedAgreeing'
  <1>0. Managed!Free /\ managedLive \in ManagedLiveRooms /\ ~Managed!Hosted
        /\ managedRow = Managed!None /\ def.kind = "reserved"
    BY ManagedNoneIsNone DEF Managed!Join, Managed!LastLeaves, ManagedAgreeing, ManagedTypes,
       ManagedCreating, ManagedUpdating, ManagedEnding, ManagedChart, ManagedResting, Managed!Hosted,
       Managed!At
  <1>1. CASE Managed!Join
    <2>1. managedLive' = [managedLive EXCEPT !.people = TRUE]
          /\ UNCHANGED <<managedTrouble, def, managedRow, op, patch, tells, advance, timers, managedMade, told>>
      BY <1>1 DEF Managed!Join
    <2>2. managedLive' \in ManagedLiveRooms
      BY <1>0, <2>1 DEF ManagedLiveRooms
    <2> QED BY <1>0, <2>1, <2>2, ManagedNoneIsNone
            DEF ManagedAgreeing, ManagedTypes, ManagedOneTask, ManagedResting,
                ManagedCreating, ManagedUpdating, ManagedEnding, Managed!At, Managed!Hosted,
                ManagedHas, ManagedChart, Managed!Free, Managed!Idle
  <1>2. CASE Managed!LastLeaves
    BY <1>0, <1>2, ManagedNoneIsNone
       DEF Managed!LastLeaves, ManagedAgreeing, ManagedTypes, ManagedOneTask, ManagedResting,
           ManagedCreating, ManagedUpdating, ManagedEnding, Managed!At, Managed!Hosted,
           ManagedHas, ManagedChart, Managed!Free, Managed!Idle
  <1> QED BY <1>1, <1>2

LEMMA ManagedRestartKeeps ==
  ASSUME managedTrouble = {}, ManagedAgreeing, Managed!Restart
  PROVE  ManagedAgreeing'
  <1>1. /\ managedRow \in ManagedSettled \cup {Managed!None}
           /\ UNCHANGED <<managedTrouble, managedRow, told>>
              /\ managedMade' = managedMade + 1 /\ managedMade \in Nat
        /\ def' = managedRow /\ op' = Managed!Idle /\ patch' = Managed!None
           /\ tells' = {} /\ advance' = FALSE /\ timers' = {}
    BY DEF Managed!Restart, ManagedAgreeing, ManagedTypes
  <1>4. op'.what = "idle" /\ Managed!Free'
    BY <1>1 DEF Managed!Free, Managed!Idle
  <1>5. managedMade' \in Nat /\ advance' \in BOOLEAN
    <2>1. managedMade' \in Nat
      BY <1>1
    <2>2. advance' \in BOOLEAN
      BY <1>1, Zenon
    <2> QED BY <2>1, <2>2
  <1>2. CASE managedRow = Managed!None
    <2>1. managedLive' = Managed!None /\ def' = Managed!None /\ ~Managed!Hosted'
      BY <1>1, <1>2, ManagedNoneIsNone DEF Managed!Restart, Managed!Hosted
    <2>2. ManagedTypes'
      <3>1. /\ def' = Managed!None /\ managedLive' = Managed!None
               /\ managedRow' = Managed!None /\ patch' = Managed!None /\ tells' = {}
        BY <1>1, <1>2, <2>1
      <3> QED BY <1>5, <3>1 DEF ManagedTypes
    <2>3. ManagedOneTask'
      BY <1>1, <1>4 DEF ManagedOneTask
    <2> QED BY <1>1, <1>2, <1>4, <2>1, <2>2, <2>3
            DEF ManagedAgreeing, ManagedResting, ManagedCreating, ManagedUpdating,
                ManagedEnding, ManagedChart, Managed!At
  <1>3. CASE managedRow # Managed!None
    <2>1. managedLive' = [kind |-> "hosted", gen |-> managedMade + 1, host |-> managedRow.host,
                          chart |-> managedRow.chart, chosen |-> FALSE, people |-> FALSE]
      BY <1>3 DEF Managed!Restart, Managed!NewRoom
    <2>2. managedLive' \in ManagedLiveRooms /\ managedLive'.host = managedRow.host
          /\ managedLive'.chart = managedRow.chart
      BY <1>1, <1>3, <2>1 DEF ManagedLiveRooms, ManagedSettled
    <2>3. managedRow \in ManagedSettled /\ def' \in ManagedSettled /\ Managed!Hosted'
          /\ def' \in ManagedDefinitions
      BY <1>1, <1>3, ManagedNoneIsNone DEF Managed!Hosted
    <2>4. ManagedTypes'
      <3>1. /\ managedRow' = managedRow /\ patch' = Managed!None /\ tells' = {}
        BY <1>1
      <3> QED BY <1>5, <2>2, <2>3, <3>1 DEF ManagedTypes
    <2>5. ManagedOneTask'
      BY <1>1, <1>4 DEF ManagedOneTask
    <2>6. managedLive' # Managed!None
      BY <2>2, ManagedNoneIsNone
    <2> QED BY <1>1, <1>4, <2>2, <2>3, <2>4, <2>5, <2>6
            DEF ManagedAgreeing, ManagedResting, ManagedCreating, ManagedUpdating,
                ManagedEnding, ManagedChart, Managed!At
  <1> QED BY <1>2, <1>3

LEMMA ManagedTimersKeep ==
  ASSUME managedTrouble = {}, ManagedAgreeing,
         \E t \in timers : Managed!TimerLooks(t) \/ Managed!TimerDisbands(t)
  PROVE  ManagedAgreeing'
  <1>1. PICK t \in timers : Managed!TimerLooks(t) \/ Managed!TimerDisbands(t)
    OBVIOUS
  <1>2. CASE Managed!Disband
    BY <1>2, ManagedDisbandKeeps
  <1>3. CASE ~Managed!Disband
    <2>1. UNCHANGED <<managedTrouble, def, managedLive, managedRow, op, patch, tells, advance, managedMade, told>>
      BY <1>1, <1>3 DEF Managed!TimerLooks, Managed!TimerDisbands
    <2> QED BY <2>1 DEF ManagedAgreeing, ManagedTypes, ManagedOneTask, ManagedResting,
               ManagedCreating, ManagedUpdating, ManagedEnding, Managed!At, Managed!Hosted,
               ManagedHas, ManagedChart, Managed!Free
  <1> QED BY <1>2, <1>3

LEMMA ManagedNextInv == ASSUME ManagedIInv, [Managed!Next]_(Managed!vars) PROVE ManagedIInv'
  <1>1. managedTrouble' = managedTrouble
    BY DEF Managed!vars, Managed!Next, Managed!CreateBegin, Managed!Install,
       Managed!CreateRow, Managed!PatchRead, Managed!UpdateBegin, Managed!UpdateHost,
       Managed!UpdateChart,
           Managed!UpdateSet, Managed!UpdateRow, Managed!UpdateDef, Managed!UpdateUndo,
           Managed!HostLeaves, Managed!HostJoins, Managed!SelectChart, Managed!ConsoleSets,
           Managed!Cycle, Managed!PersistHost, Managed!RoundEnds,
           Managed!Advance,
           Managed!SaveRow, Managed!Disband, Managed!Disbands, Managed!DisbandRow,
           Managed!Join, Managed!LastLeaves, Managed!TimerLooks, Managed!TimerDisbands,
           Managed!Restart
  <1> SUFFICES ASSUME managedTrouble = {} PROVE ManagedAgreeing'
    BY <1>1 DEF ManagedIInv
  <1>2. ManagedAgreeing
    BY DEF ManagedIInv
  <1>3. CASE UNCHANGED Managed!vars
    BY <1>2, <1>3 DEF Managed!vars, ManagedAgreeing, ManagedTypes, ManagedOneTask,
       ManagedResting, ManagedCreating, ManagedUpdating, ManagedEnding, Managed!At,
       Managed!Hosted, ManagedHas, ManagedChart, Managed!Free
  <1> QED BY <1>2, <1>3, ManagedCreateKeeps, ManagedPatchReadKeeps, ManagedUpdateBeginKeeps,
             ManagedUpdateSetKeeps, ManagedUpdateKeeps, ManagedHostKeeps, ManagedSelectKeeps,
             ManagedRoundKeeps, ManagedDisbandKeeps, ManagedReservedKeeps,
             ManagedRestartKeeps, ManagedTimersKeep DEF Managed!Next, ManagedHosts,
             Managed!Disbands

LEMMA ManagedInvTells == ManagedIInv => Managed!AgreeIfCalm
  BY ManagedNoneIsNone DEF ManagedIInv, ManagedAgreeing, ManagedTypes, ManagedResting, ManagedChart,
     Managed!AgreeIfCalm, Managed!Agree, Managed!Hosted

LEMMA ManagedStep == [Next]_vars => [Managed!Next]_(Managed!vars)
  BY DEF Next, vars, OfRecovery, OfTelemetry, OfPresence, OfManaged, OfModeration,
         OfDirectory, managedVars, Managed!vars

(* The map, the table and the live room of a hosted room agree whenever no   *)
(* operation is under way, but for a chart that the host has chosen, which   *)
(* no operation keeps: after updates that fail at any point and are set      *)
(* back, rooms that timers take away, and restarts in the middle of an       *)
(* operation (managed_rooms_runtime.rs).                                     *)
THEOREM ManagedAgreeIfCalmHolds == Spec => []ManagedAgreeIfCalm
  <1>1. Init => ManagedIInv
    BY ManagedInitInv DEF Init
  <1>2. ManagedIInv /\ [Next]_vars => ManagedIInv'
    BY ManagedStep, ManagedNextInv
  <1>3. ManagedIInv => ManagedAgreeIfCalm
    BY ManagedInvTells DEF ManagedAgreeIfCalm
  <1> QED BY <1>1, <1>2, <1>3, PTL DEF Spec

-----------------------------------------------------------------------------
(***************************************************************************)
(* Moderation.  What was answered holds in the store and, when it is       *)
(* whole, in the file, of everything that no command has in hand; of       *)
(* the list that takes one command at a time, of the ban of the user (one  *)
(* write) in any case.                                                     *)
(***************************************************************************)
(* The names are apart. *)
ModerationApart == Banned \notin Entries /\ Moderation!Timer \notin Admins

ModerationCommands == [does : {"nothing", "add", "remove", "ban", "plugin ban", "unban"},
             to : SUBSET Moderation!Things,
             at : {"done", "read", "stored", "writing", "written", "failed"}, copy : SUBSET Entries]

ModerationTypes ==
    /\ client \in {"out", "checked", "in"}
    /\ list \in SUBSET Entries /\ moderationUp \in BOOLEAN
    /\ file.list \in SUBSET Entries
    /\ writers \subseteq Admins \cup {Moderation!Timer}
    /\ command \in [Admins -> ModerationCommands]
    /\ moderationTold \in [Moderation!Things -> {"nothing", "in", "out"}]

(* A command edits entries of the list, or the user. *)
ModerationShapes ==
    \A a \in Admins : Moderation!Busy(a) =>
        /\ command[a].at # "done"
        /\ \/ command[a].does \in {"add", "remove"} /\ command[a].to \subseteq Entries
           \/ command[a].does \in {"ban", "plugin ban", "unban"} /\ command[a].to = {Banned}

ModerationInHand(x) == \E a \in Admins : x \in command[a].to

(* Two commands have nothing in common; without a race there is one. *)
ModerationExclusive ==
    /\ \A a, b \in Admins : a # b => command[a].to \cap command[b].to = {}
    /\ ~Moderation!Has("racing") =>
           /\ \A a, b \in Admins : Moderation!Busy(a) /\ Moderation!Busy(b) => a = b
           /\ \A a \in Admins : command[a].at = "read" => command[a].copy = list

ModerationRunning ==
    /\ ~moderationUp => file.is = "whole" /\ \A a \in Admins : ~Moderation!Busy(a)
    /\ file.is = "whole" => writers = {}
    /\ \A a \in Admins : a \in writers <=> command[a].at = "writing"

(* The things an edit of which is not lost to another. *)
ModerationSafe == IF Moderation!Has("racing") THEN {Banned} ELSE Moderation!Things

ModerationHolds(x, l, b) == IF x = Banned THEN b ELSE x \in l

(* What was answered holds in l and b, of what nobody has in hand. *)
ModerationAgreed(l, b) ==
    \A x \in ModerationSafe : ~ModerationInHand(x) =>
        /\ moderationTold[x] = "in" => ModerationHolds(x, l, b)
        /\ moderationTold[x] = "out" => ~ModerationHolds(x, l, b)

(* What a command was given for is done in l and b. *)
ModerationEffect(c) == c.does \in {"add", "ban", "plugin ban"}
ModerationDone(c, l, b) ==
    \A x \in ModerationSafe \cap c.to : ModerationHolds(x, l, b) <=> ModerationEffect(c)

ModerationKept ==
    /\ moderationUp => ModerationAgreed(list, banned)
    /\ file.is = "whole" => ModerationAgreed(file.list, file.banned)
    /\ \A a \in Admins : command[a].at \in {"stored", "writing", "written", "failed"} =>
           ModerationDone(command[a], list, banned)
    /\ \A a \in Admins : command[a].at = "written" /\ file.is = "whole" =>
           ModerationDone(command[a], file.list, file.banned)

(* A client that is past the check is not one of somebody who is being banned. *)
ModerationEntering ==
    moderationTrouble \cap {"joining", "plugin"} = {} =>
        /\ moderationTold[Banned] = "in" /\ ~ModerationInHand(Banned) => client = "out"
        /\ client = "checked" => \A a \in Admins : ~Moderation!Bans(command[a].does)
        /\ \A a \in Admins : command[a].does # "plugin ban"

ModerationSound == ModerationTypes /\ ModerationShapes /\ ModerationExclusive
             /\ ModerationRunning /\ ModerationKept /\ ModerationEntering
ModerationIInv == ~Moderation!Has("torn") => ModerationSound

LEMMA ModerationIdleIs ==
  /\ Moderation!Idle.does = "nothing" /\ Moderation!Idle.to = {}
  /\ Moderation!Idle.at = "done" /\ Moderation!Idle \in ModerationCommands
  BY DEF Moderation!Idle, ModerationCommands

LEMMA ModerationTouchedIs == \A x : x \in Moderation!Touched <=> ModerationInHand(x)
  BY DEF Moderation!Touched, ModerationInHand

LEMMA ModerationInitInv == ASSUME ModerationApart PROVE Moderation!Init => ModerationIInv
  <1> SUFFICES ASSUME Moderation!Init PROVE ModerationSound
    BY DEF ModerationIInv
  <1>1. \A a \in Admins : command[a] = Moderation!Idle
    BY DEF Moderation!Init
  <1>2. ModerationTypes
    BY ModerationIdleIs DEF Moderation!Init, ModerationTypes, Moderation!Contents
  <1>3. moderationTold[Banned] = "nothing" /\ \A x \in Moderation!Things : moderationTold[x] = "nothing"
    BY DEF Moderation!Init, Moderation!Things
  <1>4. ModerationSafe \subseteq Moderation!Things
    BY DEF ModerationSafe, Moderation!Things
  <1>5. ModerationKept
    BY <1>1, <1>3, <1>4, ModerationIdleIs DEF ModerationKept, ModerationAgreed
  <1>6. ModerationShapes /\ ModerationExclusive
    BY <1>1, ModerationIdleIs DEF ModerationShapes, ModerationExclusive, Moderation!Busy
  <1>7. ModerationRunning /\ ModerationEntering
    BY <1>1, <1>3, ModerationIdleIs DEF ModerationRunning, ModerationEntering, Moderation!Init,
           Moderation!Bans
  <1> QED BY <1>2, <1>5, <1>6, <1>7 DEF ModerationSound

(* While commands have the same things in hand, and nothing else is changed, *)
(* what was agreed is.                                                       *)
LEMMA ModerationBeginsKeeps ==
  ASSUME ModerationApart, ~Moderation!Has("torn"), ModerationSound, NEW a \in Admins,
         NEW does \in {"add", "remove", "ban", "plugin ban", "unban"},
         NEW to \in SUBSET Moderation!Things, Moderation!Begins(a, does, to),
         \/ does \in {"add", "remove"} /\ to \subseteq Entries
         \/ /\ does \in {"ban", "plugin ban", "unban"} /\ to = {Banned}
            /\ does # "unban" => client # "checked" \/ Moderation!Has("joining")
            /\ does = "plugin ban" => Moderation!Has("plugin")
  PROVE  ModerationSound'
  <1> DEFINE c == [does |-> does, to |-> to, at |-> "read", copy |-> list]
  <1>1. /\ moderationUp /\ ~Moderation!Busy(a) /\ to \cap Moderation!Touched = {}
        /\ (\A b \in Admins : ~Moderation!Busy(b)) \/ Moderation!Has("racing")
        /\ command' = [command EXCEPT ![a] = c]
        /\ UNCHANGED <<moderationTrouble, kind, moderationUp, list, banned,
                       file, writers, moderationTold, client, moderationCrashes>>
    BY DEF Moderation!Begins
  <1>2. /\ c \in ModerationCommands /\ c # Moderation!Idle
        /\ c.does = does /\ c.to = to /\ c.at = "read" /\ c.copy = list
    <2>1. list \in SUBSET Entries
      BY DEF ModerationSound, ModerationTypes
    <2>2. c \in ModerationCommands
      BY <2>1 DEF ModerationCommands
    <2>3. c.at # Moderation!Idle.at
      BY ModerationIdleIs
    <2> QED BY <2>2, <2>3
  <1> HIDE DEF c
  <1>3. /\ command' \in [Admins -> ModerationCommands] /\ command'[a] = c
        /\ \A b \in Admins \ {a} : command'[b] = command[b]
    BY <1>1, <1>2 DEF ModerationSound, ModerationTypes
  <1>4. command[a] = Moderation!Idle /\ command[a].to = {}
    BY <1>1, ModerationIdleIs DEF Moderation!Busy
  <1>5. \A x \in to : ~ModerationInHand(x)
    BY <1>1, ModerationTouchedIs
  <1>6. ModerationTypes'
    BY <1>1, <1>3 DEF ModerationSound, ModerationTypes
  <1>7. \A x : ModerationInHand(x)' <=> ModerationInHand(x) \/ x \in to
    BY <1>2, <1>3, <1>4 DEF ModerationInHand
  <1>8. ModerationSafe' = ModerationSafe
    BY <1>1 DEF ModerationSafe, Moderation!Has
  <1>9. ModerationShapes'
    <2> SUFFICES \A b \in Admins : Moderation!Busy(b)' =>
                   /\ command'[b].at # "done"
                   /\ \/ command'[b].does \in {"add", "remove"} /\ command'[b].to \subseteq Entries
                      \/ command'[b].does \in {"ban", "plugin ban", "unban"} /\ command'[b].to = {Banned}
      BY DEF ModerationShapes
    <2> TAKE b \in Admins
    <2>1. CASE b = a
      BY <1>2, <1>3, <2>1 DEF Moderation!Busy
    <2>2. CASE b # a
      BY <1>3, <2>2 DEF ModerationSound, ModerationShapes, Moderation!Busy
    <2> QED BY <2>1, <2>2
  <1>10. ModerationExclusive'
    <2>1. \A b \in Admins \ {a} : to \cap command[b].to = {}
      BY <1>5 DEF ModerationInHand
    <2>2. \A b, d \in Admins : b # d => command'[b].to \cap command'[d].to = {}
      <3> TAKE b, d \in Admins
      <3>1. CASE b = a \/ d = a
        BY <1>2, <1>3, <2>1, <3>1
      <3>2. CASE b # a /\ d # a
        BY <1>3, <3>2 DEF ModerationSound, ModerationExclusive
      <3> QED BY <3>1, <3>2
    <2>3. ASSUME ~Moderation!Has("racing")
          PROVE  \A b \in Admins \ {a} : command'[b] = Moderation!Idle
      BY <1>1, <1>3, <2>3 DEF Moderation!Busy
    <2> SUFFICES ASSUME ~Moderation!Has("racing")
                 PROVE  /\ \A b, d \in Admins : Moderation!Busy(b)' /\ Moderation!Busy(d)' => b = d
                        /\ \A b \in Admins : command'[b].at = "read" => command'[b].copy = list'
      BY <1>1, <2>2 DEF ModerationExclusive, Moderation!Has
    <2>4. \A b \in Admins : b # a => ~Moderation!Busy(b)' /\ command'[b].at # "read"
      BY <2>3, ModerationIdleIs DEF Moderation!Busy
    <2> QED BY <1>1, <1>2, <1>3, <2>4
  <1>11. ModerationRunning'
    <2>1. \A b \in Admins : b \in writers' <=> command'[b].at = "writing"
      <3> TAKE b \in Admins
      <3>1. CASE b = a
        <4>1. a \notin writers
          BY <1>4, ModerationIdleIs DEF ModerationSound, ModerationRunning
        <4> QED BY <1>1, <1>2, <1>3, <3>1, <4>1
      <3>2. CASE b # a
        BY <1>1, <1>3, <3>2 DEF ModerationSound, ModerationRunning
      <3> QED BY <3>1, <3>2
    <2> QED BY <1>1, <2>1 DEF ModerationSound, ModerationRunning
  <1>12. ModerationKept'
    <2>1. ASSUME NEW l, NEW b, ModerationAgreed(l, b) PROVE ModerationAgreed(l, b)'
      BY <1>1, <1>7, <1>8, <2>1 DEF ModerationAgreed
    <2>2. moderationUp' => ModerationAgreed(list, banned)'
      BY <1>1, <2>1 DEF ModerationSound, ModerationKept, ModerationAgreed
    <2>3. file'.is = "whole" => ModerationAgreed(file.list, file.banned)'
      BY <1>1, <2>1 DEF ModerationSound, ModerationKept, ModerationAgreed
    <2>4. \A d \in Admins : command'[d].at \in {"stored", "writing", "written", "failed"} =>
            /\ d # a /\ command'[d] = command[d]
      BY <1>2, <1>3
    <2>5. \A d \in Admins : command'[d].at \in {"stored", "writing", "written", "failed"} =>
            ModerationDone(command[d], list, banned)'
      BY <1>1, <1>8, <2>4 DEF ModerationSound, ModerationKept, ModerationDone
    <2>6. \A d \in Admins : command'[d].at = "written" /\ file'.is = "whole" =>
            ModerationDone(command[d], file.list, file.banned)'
      BY <1>1, <1>8, <2>4 DEF ModerationSound, ModerationKept, ModerationDone
    <2> QED BY <2>2, <2>3, <2>5, <2>6 DEF ModerationKept
  <1>13. ModerationEntering'
    <2> SUFFICES ASSUME moderationTrouble \cap {"joining", "plugin"} = {}
                 PROVE  /\ moderationTold'[Banned] = "in" /\ ~ModerationInHand(Banned)' => client' = "out"
                        /\ client' = "checked" => \A b \in Admins : ~Moderation!Bans(command'[b].does)
                        /\ \A b \in Admins : command'[b].does # "plugin ban"
      BY <1>1 DEF ModerationEntering
    <2>1. ~Moderation!Has("joining") /\ ~Moderation!Has("plugin")
      BY DEF Moderation!Has
    <2>2. moderationTold'[Banned] = "in" /\ ~ModerationInHand(Banned)' => client' = "out"
      BY <1>1, <1>7 DEF ModerationSound, ModerationEntering
    <2>3. \A b \in Admins : b # a => command'[b] = command[b]
      BY <1>3
    <2>4. does # "plugin ban" /\ (client = "checked" => ~Moderation!Bans(does))
      BY <2>1 DEF Moderation!Bans
    <2>5. \A b \in Admins : command'[b].does # "plugin ban"
      BY <1>2, <1>3, <2>3, <2>4 DEF ModerationSound, ModerationEntering
    <2>6. client' = "checked" => \A b \in Admins : ~Moderation!Bans(command'[b].does)
      BY <1>1, <1>2, <1>3, <2>3, <2>4 DEF ModerationSound, ModerationEntering
    <2> QED BY <2>2, <2>5, <2>6
  <1> QED BY <1>6, <1>9, <1>10, <1>11, <1>12, <1>13 DEF ModerationSound

(* A command that goes on has the same things in hand. *)
LEMMA ModerationStepIs ==
  ASSUME ModerationSound, NEW a \in Admins, NEW s \in {"stored", "writing", "written", "failed"}, Moderation!Step(a, s)
  PROVE  /\ command' \in [Admins -> ModerationCommands]
         /\ command'[a].does = command[a].does /\ command'[a].to = command[a].to /\ command'[a].at = s
         /\ \A b \in Admins \ {a} : command'[b] = command[b]
         /\ \A b \in Admins : command'[b].does = command[b].does /\ command'[b].to = command[b].to
                              /\ command'[b].copy = command[b].copy
         /\ \A x : ModerationInHand(x)' <=> ModerationInHand(x)
  <1> DEFINE d == [command[a] EXCEPT !.at = s]
  <1>1. command[a] \in ModerationCommands
    BY DEF ModerationSound, ModerationTypes
  <1>2. d \in ModerationCommands /\ d.does = command[a].does /\ d.to = command[a].to /\ d.at = s /\ d.copy = command[a].copy
    BY <1>1 DEF ModerationCommands
  <1>3. command' = [command EXCEPT ![a] = d] /\ command \in [Admins -> ModerationCommands]
    BY DEF Moderation!Step, ModerationSound, ModerationTypes
  <1> HIDE DEF d
  <1>4. /\ command' \in [Admins -> ModerationCommands] /\ command'[a] = d
        /\ \A b \in Admins \ {a} : command'[b] = command[b]
    BY <1>2, <1>3
  <1>5. \A b \in Admins : command'[b].does = command[b].does /\ command'[b].to = command[b].to
                          /\ command'[b].copy = command[b].copy
    BY <1>2, <1>4
  <1> QED BY <1>2, <1>4, <1>5 DEF ModerationInHand

LEMMA ModerationStepKeeps ==
  ASSUME ModerationSound, NEW a \in Admins, NEW s \in {"stored", "writing", "written", "failed"}, Moderation!Step(a, s),
         command[a].at # "done", UNCHANGED moderationTrouble
  PROVE  /\ ModerationShapes' /\ \A b \in Admins : Moderation!Busy(b)' => Moderation!Busy(b)
         /\ list' = list \/ command[a].at = "read" => ModerationExclusive'
  <1>1. Moderation!Busy(a)
    BY ModerationIdleIs DEF Moderation!Busy
  <1>2. \A b \in Admins : Moderation!Busy(b)' => Moderation!Busy(b)
    BY <1>1, ModerationStepIs DEF Moderation!Busy
  <1>3. ModerationShapes'
    <2> SUFFICES ASSUME NEW b \in Admins, Moderation!Busy(b)'
                 PROVE  /\ command'[b].at # "done"
                        /\ \/ command'[b].does \in {"add", "remove"} /\ command'[b].to \subseteq Entries
                           \/ command'[b].does \in {"ban", "plugin ban", "unban"} /\ command'[b].to = {Banned}
      BY DEF ModerationShapes
    <2>1. Moderation!Busy(b)
      BY <1>2
    <2> QED BY <2>1, ModerationStepIs DEF ModerationSound, ModerationShapes
  <1>4. ASSUME ~Moderation!Has("racing"), command[a].at = "read", NEW b \in Admins
        PROVE  command'[b].at # "read"
    <2>1. CASE b = a
      BY <2>1, ModerationStepIs
    <2>2. CASE b # a
      <3>1. ~Moderation!Busy(b)
        BY <1>1, <1>4, <2>2 DEF ModerationSound, ModerationExclusive
      <3> QED BY <2>2, <3>1, ModerationStepIs, ModerationIdleIs DEF Moderation!Busy
    <2> QED BY <2>1, <2>2
  <1>5. ASSUME list' = list \/ command[a].at = "read" PROVE ModerationExclusive'
    <2>1. \A b, d \in Admins : b # d => command'[b].to \cap command'[d].to = {}
      BY ModerationStepIs DEF ModerationSound, ModerationExclusive
    <2> SUFFICES ASSUME ~Moderation!Has("racing")
                 PROVE  /\ \A b, d \in Admins : Moderation!Busy(b)' /\ Moderation!Busy(d)' => b = d
                        /\ \A b \in Admins : command'[b].at = "read" => command'[b].copy = list'
      BY <2>1 DEF ModerationExclusive, Moderation!Has
    <2>2. \A b, d \in Admins : Moderation!Busy(b)' /\ Moderation!Busy(d)' => b = d
      BY <1>2 DEF ModerationSound, ModerationExclusive
    <2>3. \A b \in Admins : command'[b].at = "read" => command'[b].copy = list'
      BY <1>4, <1>5, ModerationStepIs DEF ModerationSound, ModerationExclusive
    <2> QED BY <2>2, <2>3
  <1> QED BY <1>2, <1>3, <1>4, <1>5

LEMMA ModerationPutBackKeeps ==
  ASSUME ModerationApart, ~Moderation!Has("torn"), ModerationSound, NEW a \in Admins,
         Moderation!PutBack(a)
  PROVE  ModerationSound'
  <1> DEFINE c == command[a]
  <1>1. /\ Moderation!Busy(a) /\ c.at = "read" /\ writers = {}
        /\ list' = CASE c.does = "add" -> c.copy \cup c.to [] c.does = "remove" -> c.copy \ c.to [] OTHER -> list
        /\ banned' = IF c.to = {Banned} THEN c.does \in {"ban", "plugin ban"} ELSE banned
        /\ Moderation!Step(a, "stored")
        /\ UNCHANGED <<moderationTrouble, kind, moderationUp,
                       file, writers, moderationTold, client, commands, moderationCrashes>>
    BY DEF Moderation!PutBack, Moderation!Record, Moderation!Bans
  <1>2. /\ c \in ModerationCommands
        /\ \/ c.does \in {"add", "remove"} /\ c.to \subseteq Entries /\ c.to # {Banned}
           \/ c.does \in {"ban", "plugin ban", "unban"} /\ c.to = {Banned}
    BY <1>1 DEF ModerationSound, ModerationTypes, ModerationShapes, ModerationApart
  <1>3. ModerationTypes'
    <2>1. list' \in SUBSET Entries
      BY <1>1, <1>2 DEF ModerationSound, ModerationTypes, ModerationCommands
    <2> QED BY <1>1, <2>1, ModerationStepIs DEF ModerationSound, ModerationTypes
  <1>4. ModerationSafe' = ModerationSafe /\ ModerationSafe \subseteq Moderation!Things
    BY <1>1 DEF ModerationSafe, Moderation!Has, Moderation!Things
  <1>5. ModerationShapes' /\ ModerationRunning'
    <2>1. \A b \in Admins : b \in writers' <=> command'[b].at = "writing"
      BY <1>1, ModerationStepIs DEF ModerationSound, ModerationRunning
    <2>2. moderationUp
      BY <1>1 DEF ModerationSound, ModerationRunning
    <2> QED BY <1>1, <2>1, <2>2, ModerationStepKeeps DEF ModerationRunning
  <1>6. ModerationExclusive'
    BY <1>1, ModerationStepKeeps
  <1>7. \A x \in ModerationSafe \cap c.to : ModerationHolds(x, list', banned') <=> ModerationEffect(c)
    <2>1. CASE c.does = "add" /\ c.to \subseteq Entries
      BY <1>1, <2>1 DEF ModerationHolds, ModerationEffect, ModerationApart
    <2>2. CASE c.does = "remove" /\ c.to \subseteq Entries
      BY <1>1, <2>2 DEF ModerationHolds, ModerationEffect, ModerationApart
    <2>3. CASE c.does \in {"ban", "plugin ban", "unban"} /\ c.to = {Banned}
      BY <1>1, <2>3 DEF ModerationHolds, ModerationEffect
    <2> QED BY <1>2, <2>1, <2>2, <2>3
  <1>8. \A x \in ModerationSafe \ c.to : ModerationHolds(x, list', banned') <=> ModerationHolds(x, list, banned)
    <2>1. CASE Moderation!Has("racing")
      BY <1>1, <1>2, <2>1 DEF ModerationSafe, ModerationHolds
    <2>2. CASE ~Moderation!Has("racing")
      <3>1. c.copy = list
        BY <1>1, <2>2 DEF ModerationSound, ModerationExclusive
      <3> QED BY <1>1, <1>2, <3>1 DEF ModerationHolds
    <2> QED BY <2>1, <2>2
  <1>9. ModerationKept'
    <2>1. moderationUp' => ModerationAgreed(list, banned)'
      <3>1. \A x : ~ModerationInHand(x) => x \notin c.to
        BY DEF ModerationInHand
      <3> QED BY <1>1, <1>4, <1>8, <3>1, ModerationStepIs DEF ModerationSound, ModerationKept,
                     ModerationAgreed
    <2>2. file'.is = "whole" => ModerationAgreed(file.list, file.banned)'
      BY <1>1, <1>4, ModerationStepIs DEF ModerationSound, ModerationKept, ModerationAgreed
    <2>3. \A b \in Admins : command'[b].at \in {"stored", "writing", "written", "failed"} =>
            ModerationDone(command[b], list, banned)'
      <3> TAKE b \in Admins
      <3>1. CASE b = a
        BY <1>1, <1>4, <1>7, <3>1, ModerationStepIs DEF ModerationDone, ModerationEffect
      <3>2. CASE b # a
        <4>1. command[b].to \cap c.to = {}
          BY <3>2 DEF ModerationSound, ModerationExclusive
        <4> QED BY <1>1, <1>4, <1>8, <3>2, <4>1, ModerationStepIs
                   DEF ModerationSound, ModerationKept, ModerationDone
      <3> QED BY <3>1, <3>2
    <2>4. \A b \in Admins : command'[b].at = "written" /\ file'.is = "whole" =>
            ModerationDone(command[b], file.list, file.banned)'
      <3> TAKE b \in Admins
      <3>1. CASE b = a
        BY <1>1, <3>1, ModerationStepIs
      <3>2. CASE b # a
        BY <1>1, <1>4, <3>2, ModerationStepIs DEF ModerationSound, ModerationKept,
               ModerationDone
      <3> QED BY <3>1, <3>2
    <2> QED BY <2>1, <2>2, <2>3, <2>4 DEF ModerationKept
  <1>10. ModerationEntering'
    BY <1>1, ModerationStepIs DEF ModerationSound, ModerationEntering
  <1> QED BY <1>3, <1>5, <1>6, <1>9, <1>10 DEF ModerationSound

(* Whoever writes the file, or fails to, leaves what is in memory alone, and *)
(* what he leaves whole is that, or what was there before he failed.         *)
LEMMA ModerationWriterKeeps ==
  ASSUME ModerationApart, ModerationSound, moderationUp,
         NEW who \in Admins \cup {Moderation!Timer}, NEW s \in {"writing", "written", "failed"},
         Moderation!Reaches(who, s),
         who \in Admins => command[who].at \in {"stored", "writing"},
         writers' = IF s = "writing" THEN writers \cup {who} ELSE writers \ {who},
         file'.list \in SUBSET Entries, file'.is = "whole" => writers' = {},
         \/ file'.is # "whole"
         \/ file'.list = list /\ file'.banned = banned
         \/ file' = file /\ s = "failed",
         UNCHANGED <<moderationTrouble, kind, moderationUp, list, banned, moderationTold,
                     client, commands, moderationCrashes>>
  PROVE  ModerationSound'
  <1>1. ModerationSafe' = ModerationSafe
    BY DEF ModerationSafe, Moderation!Has
  <1>2. CASE who = Moderation!Timer
    <2>1. command' = command
      BY <1>2 DEF Moderation!Reaches
    <2>2. ModerationTypes'
      BY <1>2, <2>1 DEF ModerationSound, ModerationTypes
    <2>3. ModerationShapes' /\ ModerationExclusive'
      BY <2>1 DEF ModerationSound, ModerationShapes, ModerationExclusive, Moderation!Busy,
             Moderation!Has
    <2>4. ModerationRunning'
      BY <1>2, <2>1 DEF ModerationSound, ModerationRunning, Moderation!Busy, ModerationApart
    <2>5. ModerationKept'
      BY <1>1, <2>1 DEF ModerationSound, ModerationKept, ModerationInHand, ModerationAgreed,
             ModerationDone
    <2>6. ModerationEntering'
      BY <2>1 DEF ModerationSound, ModerationEntering, ModerationInHand
    <2> QED BY <2>2, <2>3, <2>4, <2>5, <2>6 DEF ModerationSound
  <1>3. CASE who # Moderation!Timer
    <2>1. who \in Admins /\ command[who].at \in {"stored", "writing"} /\ Moderation!Step(who, s)
      BY <1>3 DEF Moderation!Reaches
    <2>2. ModerationTypes'
      BY <2>1, ModerationStepIs DEF ModerationSound, ModerationTypes
    <2>3. ModerationShapes' /\ ModerationRunning'
      <3>1. \A b \in Admins : b \in writers' <=> command'[b].at = "writing"
        BY <2>1, ModerationStepIs DEF ModerationSound, ModerationRunning
      <3> QED BY <2>1, <3>1, ModerationStepKeeps DEF ModerationRunning
    <2>4. ModerationExclusive'
      BY <2>1, ModerationStepKeeps
    <2>5. ModerationAgreed(list, banned)'
      BY <1>1, <2>1, ModerationStepIs DEF ModerationSound, ModerationKept, ModerationAgreed
    <2>6. \A b \in Admins : command'[b].at \in {"stored", "writing", "written", "failed"} =>
            ModerationDone(command[b], list, banned)'
      <3> SUFFICES ASSUME NEW b \in Admins,
                          command'[b].at \in {"stored", "writing", "written", "failed"}
                   PROVE  ModerationDone(command[b], list, banned)'
        OBVIOUS
      <3>1. command[b].at \in {"stored", "writing", "written", "failed"}
        BY <2>1, ModerationStepIs DEF ModerationSound
      <3>2. ModerationDone(command[b], list, banned)
        BY <3>1 DEF ModerationSound, ModerationKept
      <3>3. command'[b].does = command[b].does /\ command'[b].to = command[b].to
        BY <2>1, ModerationStepIs DEF ModerationSound
      <3>4. ModerationEffect(command[b])' <=> ModerationEffect(command[b])
        BY <3>3, Zenon DEF ModerationEffect
      <3>5. \A x : ModerationHolds(x, list, banned)' <=> ModerationHolds(x, list, banned)
        BY DEF ModerationHolds
      <3> QED BY <1>1, <3>2, <3>3, <3>4, <3>5 DEF ModerationDone
    <2>7. ModerationKept'
      <3>1. CASE file' = file /\ s = "failed"
        <4>1. file'.is = "whole" => ModerationAgreed(file.list, file.banned)'
          BY <1>1, <2>1, <3>1, ModerationStepIs DEF ModerationSound, ModerationKept,
                 ModerationAgreed
        <4>2. \A b \in Admins : command'[b].at = "written" /\ file'.is = "whole" =>
                ModerationDone(command[b], file.list, file.banned)'
          BY <1>1, <2>1, <3>1, ModerationStepIs DEF ModerationSound, ModerationKept,
                 ModerationDone, ModerationEffect
        <4> QED BY <2>5, <2>6, <4>1, <4>2 DEF ModerationKept
      <3>2. CASE file'.is # "whole" \/ (file'.list = list /\ file'.banned = banned)
        BY <2>5, <2>6, <3>2 DEF ModerationKept, ModerationAgreed, ModerationDone
      <3> QED BY <3>1, <3>2
    <2>8. ModerationEntering'
      BY <2>1, ModerationStepIs DEF ModerationSound, ModerationEntering
    <2> QED BY <2>2, <2>3, <2>4, <2>7, <2>8 DEF ModerationSound
  <1> QED BY <1>2, <1>3

LEMMA ModerationWritesKeep ==
  ASSUME ModerationApart, ModerationSound, NEW who \in Admins \cup {Moderation!Timer},
         \/ Moderation!WriteBegins(who) \/ Moderation!CannotOpen(who)
         \/ Moderation!WriteEnds(who) \/ Moderation!WriteFails(who)
  PROVE  ModerationSound'
  <1>1. CASE Moderation!WriteBegins(who)
    <2>1. /\ moderationUp /\ Moderation!Reaches(who, "writing")
          /\ who \in Admins => command[who].at = "stored"
          /\ writers' = writers \cup {who} /\ file'.list = {} /\ file'.is = "torn"
          /\ UNCHANGED <<moderationTrouble, kind, moderationUp, list, banned, moderationTold,
                         client, commands, moderationCrashes>>
      BY <1>1 DEF Moderation!WriteBegins, Moderation!Persists, Moderation!Torn, ModerationApart
    <2> QED BY <2>1, ModerationWriterKeeps
  <1>2. CASE Moderation!CannotOpen(who)
    <2>1. /\ moderationUp /\ Moderation!Reaches(who, "failed") /\ who \notin writers
          /\ who \in Admins => command[who].at = "stored"
          /\ UNCHANGED <<moderationTrouble, kind, moderationUp, list, banned, file, writers,
                         moderationTold, client, commands, moderationCrashes>>
      BY <1>2 DEF Moderation!CannotOpen, Moderation!Persists, ModerationApart
    <2>2. writers' = writers \ {who}
      BY <2>1
    <2>3. file'.list \in SUBSET Entries /\ (file'.is = "whole" => writers' = {})
      BY <2>1 DEF ModerationSound, ModerationTypes, ModerationRunning
    <2> QED BY <2>1, <2>2, <2>3, ModerationWriterKeeps
  <1>3. CASE Moderation!WriteEnds(who) \/ Moderation!WriteFails(who)
    <2>1. /\ who \in writers /\ writers' = writers \ {who}
          /\ UNCHANGED <<moderationTrouble, kind, moderationUp, list, banned, moderationTold,
                         client, commands, moderationCrashes>>
      BY <1>3 DEF Moderation!WriteEnds, Moderation!WriteFails
    <2>2. file.is # "whole" /\ moderationUp
      BY <2>1 DEF ModerationSound, ModerationRunning
    <2>3. who \in Admins => command[who].at = "writing"
      BY <2>1 DEF ModerationSound, ModerationRunning
    <2>4. Moderation!Cut.list = {} /\ Moderation!Cut.is = "cut"
      BY DEF Moderation!Cut, Moderation!Torn
    <2>5. CASE Moderation!WriteFails(who)
      <3>1. Moderation!Reaches(who, "failed") /\ file'.list = {} /\ file'.is = "cut"
        BY <2>4, <2>5 DEF Moderation!WriteFails
      <3> QED BY <2>1, <2>2, <2>3, <3>1, ModerationWriterKeeps
    <2>6. CASE Moderation!WriteEnds(who)
      <3>1. Moderation!Reaches(who, "written")
        BY <2>6 DEF Moderation!WriteEnds
      <3>2. CASE writers' # {}
        <4>1. file' = file
          BY <2>6, <3>2 DEF Moderation!WriteEnds
        <4>2. file'.list \in SUBSET Entries
          BY <4>1 DEF ModerationSound, ModerationTypes
        <4> QED BY <2>1, <2>2, <2>3, <3>1, <4>1, <4>2, ModerationWriterKeeps
      <3>3. CASE writers' = {}
        <4>1. file' = Moderation!Contents(list, banned) \/ file' = Moderation!Cut
          BY <2>6, <3>3 DEF Moderation!WriteEnds
        <4>2. /\ file'.list \in SUBSET Entries
              /\ file'.is # "whole" \/ (file'.list = list /\ file'.banned = banned)
          BY <2>4, <4>1 DEF ModerationSound, ModerationTypes, Moderation!Contents
        <4> QED BY <2>1, <2>2, <2>3, <3>1, <3>3, <4>2, ModerationWriterKeeps
      <3> QED BY <3>2, <3>3
    <2> QED BY <1>3, <2>5, <2>6
  <1> QED BY <1>1, <1>2, <1>3

LEMMA ModerationAnswersKeeps ==
  ASSUME ModerationApart, ~Moderation!Has("torn"), ModerationSound, NEW a \in Admins,
         Moderation!Answers(a)
  PROVE  ModerationSound'
  <1> DEFINE c == command[a]
  <1>1. /\ Moderation!Busy(a) /\ c.at = "written" /\ command' = [command EXCEPT ![a] = Moderation!Idle]
        /\ moderationTold' = [x \in Moderation!Things |-> IF x \notin c.to THEN moderationTold[x]
                                    ELSE IF ModerationEffect(c) THEN "in" ELSE "out"]
        /\ client' = IF c.does = "ban" /\ client = "in" THEN "out" ELSE client
        /\ UNCHANGED <<moderationTrouble, kind, moderationUp, list, banned,
                       file, writers, commands, moderationCrashes>>
        /\ ModerationSafe' = ModerationSafe
    BY DEF Moderation!Answers, Moderation!Written, Moderation!Bans, ModerationEffect,
           Moderation!Disconnects, ModerationSafe, Moderation!Has
  <1>2. /\ command' \in [Admins -> ModerationCommands] /\ command'[a] = Moderation!Idle
        /\ \A b \in Admins \ {a} : command'[b] = command[b]
    BY <1>1, ModerationIdleIs DEF ModerationSound, ModerationTypes
  <1>3. ModerationTypes'
    BY <1>1, <1>2 DEF ModerationSound, ModerationTypes
  <1>4. ModerationShapes' /\ \A b \in Admins : Moderation!Busy(b)' => Moderation!Busy(b)
    BY <1>1, <1>2 DEF ModerationSound, ModerationShapes, Moderation!Busy
  <1>5. ModerationRunning'
    BY <1>1, <1>2, ModerationIdleIs DEF ModerationSound, ModerationRunning, Moderation!Busy
  <1>6. ModerationExclusive'
    BY <1>1, <1>2, <1>4, ModerationIdleIs DEF ModerationSound, ModerationExclusive,
           Moderation!Has
  <1>7. \A x : ModerationInHand(x)' <=> ModerationInHand(x) /\ x \notin c.to
    BY <1>2, ModerationIdleIs DEF ModerationInHand, ModerationSound, ModerationExclusive
  <1>8. \A x \in c.to : x \in Moderation!Things /\ ModerationInHand(x)
    BY DEF ModerationInHand, ModerationSound, ModerationTypes, ModerationCommands
  <1>9. \A l, b : ModerationAgreed(l, b) /\ ModerationDone(c, l, b) => ModerationAgreed(l, b)'
    BY <1>1, <1>7, <1>8 DEF ModerationAgreed, ModerationDone, ModerationSafe, Moderation!Things
  <1>10. ModerationKept'
    <2>1. \A d, l, b : ModerationDone(d, l, b)' <=> ModerationDone(d, l, b)
      BY <1>1 DEF ModerationDone
    <2> QED BY <1>1, <1>2, <1>9, <2>1, ModerationIdleIs DEF ModerationSound, ModerationKept
  <1>11. ModerationEntering'
    <2> SUFFICES ASSUME moderationTrouble \cap {"joining", "plugin"} = {}
                 PROVE  /\ moderationTold'[Banned] = "in" /\ ~ModerationInHand(Banned)' => client' = "out"
                        /\ client' = "checked" => \A b \in Admins : ~Moderation!Bans(command'[b].does)
                        /\ \A b \in Admins : command'[b].does # "plugin ban"
      BY <1>1 DEF ModerationEntering
    <2>1. \A b \in Admins : command'[b].does \in {command[b].does, "nothing"}
      BY <1>2, ModerationIdleIs
    <2>2. ASSUME moderationTold'[Banned] = "in", ~ModerationInHand(Banned)'
          PROVE  client' = "out"
      <3>1. CASE Banned \in c.to
        <4>1. ModerationEffect(c) /\ c.does = "ban"
          BY <1>1, <2>2, <3>1 DEF ModerationSound, ModerationShapes, ModerationEntering,
                 Moderation!Things, ModerationEffect, ModerationApart
        <4>2. client # "checked"
          BY <4>1 DEF ModerationSound, ModerationEntering, Moderation!Bans
        <4> QED BY <1>1, <4>1, <4>2 DEF ModerationSound, ModerationTypes
      <3>2. CASE Banned \notin c.to
        BY <1>1, <1>7, <2>2, <3>2 DEF ModerationSound, ModerationEntering, Moderation!Things
      <3> QED BY <3>1, <3>2
    <2> QED BY <1>1, <2>1, <2>2 DEF ModerationSound, ModerationEntering, Moderation!Bans
  <1> QED BY <1>3, <1>4, <1>5, <1>6, <1>10, <1>11 DEF ModerationSound

LEMMA ModerationAnswersErrorKeeps ==
  ASSUME ModerationApart, ModerationSound, NEW a \in Admins, Moderation!AnswersError(a)
  PROVE  ModerationSound'
  <1> DEFINE c == command[a]
  <1>1. /\ c.at = "failed" /\ command' = [command EXCEPT ![a] = Moderation!Idle]
        /\ moderationTold' = [x \in Moderation!Things |->
                                IF x \in c.to THEN "nothing" ELSE moderationTold[x]]
        /\ UNCHANGED <<moderationTrouble, kind, moderationUp, list, banned,
                       file, writers, client, commands, moderationCrashes>>
        /\ ModerationSafe' = ModerationSafe
    BY DEF Moderation!AnswersError, ModerationSafe, Moderation!Has
  <1>2. /\ command' \in [Admins -> ModerationCommands] /\ command'[a] = Moderation!Idle
        /\ \A b \in Admins \ {a} : command'[b] = command[b]
    BY <1>1, ModerationIdleIs DEF ModerationSound, ModerationTypes
  <1>3. ModerationTypes'
    BY <1>1, <1>2 DEF ModerationSound, ModerationTypes
  <1>4. ModerationShapes' /\ \A b \in Admins : Moderation!Busy(b)' => Moderation!Busy(b)
    BY <1>1, <1>2 DEF ModerationSound, ModerationShapes, Moderation!Busy
  <1>5. ModerationRunning'
    BY <1>1, <1>2, ModerationIdleIs DEF ModerationSound, ModerationRunning, Moderation!Busy
  <1>6. ModerationExclusive'
    BY <1>1, <1>2, <1>4, ModerationIdleIs DEF ModerationSound, ModerationExclusive,
           Moderation!Has
  <1>7. \A x : ModerationInHand(x)' <=> ModerationInHand(x) /\ x \notin c.to
    BY <1>2, ModerationIdleIs DEF ModerationInHand, ModerationSound, ModerationExclusive
  <1>8. \A l, b : ModerationAgreed(l, b) => ModerationAgreed(l, b)'
    BY <1>1, <1>7 DEF ModerationAgreed, ModerationSafe, Moderation!Things
  <1>9. ModerationKept'
    <2>1. \A d, l, b : ModerationDone(d, l, b)' <=> ModerationDone(d, l, b)
      BY <1>1 DEF ModerationDone
    <2> QED BY <1>1, <1>2, <1>8, <2>1, ModerationIdleIs DEF ModerationSound, ModerationKept
  <1>10. ModerationEntering'
    <2>1. \A b \in Admins : command'[b].does \in {command[b].does, "nothing"}
      BY <1>2, ModerationIdleIs
    <2>2. Banned \in Moderation!Things
      BY DEF Moderation!Things
    <2> QED BY <1>1, <1>7, <2>1, <2>2 DEF ModerationSound, ModerationEntering, Moderation!Bans
  <1> QED BY <1>3, <1>4, <1>5, <1>6, <1>9, <1>10 DEF ModerationSound

LEMMA ModerationClientKeeps ==
  ASSUME ModerationApart, ~Moderation!Has("torn"), ModerationSound,
         Moderation!Checked \/ Moderation!Registered \/ Moderation!Leaves
  PROVE  ModerationSound'
  <1>1. UNCHANGED <<moderationTrouble, kind, moderationUp, list, banned, file, writers,
                    command, moderationTold, commands, moderationCrashes>>
    BY DEF Moderation!Checked, Moderation!Registered, Moderation!Leaves
  <1>2. ModerationTypes' /\ ModerationShapes' /\ ModerationExclusive' /\ ModerationRunning' /\ ModerationKept'
    <2>1. client' \in {"out", "checked", "in"}
      BY DEF Moderation!Checked, Moderation!Registered, Moderation!Leaves
    <2>2. ModerationTypes'
      BY <1>1, <2>1 DEF ModerationSound, ModerationTypes
    <2>3. ModerationShapes' /\ ModerationExclusive' /\ ModerationRunning'
      BY <1>1 DEF ModerationSound, ModerationShapes, ModerationExclusive, ModerationRunning,
             Moderation!Busy, Moderation!Has
    <2>4. ModerationKept'
      BY <1>1 DEF ModerationSound, ModerationKept, ModerationInHand, ModerationAgreed,
             ModerationDone, ModerationSafe, Moderation!Has
    <2> QED BY <2>2, <2>3, <2>4
  <1>3. ModerationEntering'
    <2>1. CASE Moderation!Checked
      <3>1. moderationTold[Banned] = "in" /\ ~ModerationInHand(Banned) => banned
        <4>1. Banned \in ModerationSafe
          BY DEF ModerationSafe, Moderation!Things
        <4> QED BY <2>1, <4>1 DEF Moderation!Checked, Moderation!MayEnter, ModerationSound,
                       ModerationKept, ModerationAgreed, ModerationHolds
      <3>2. moderationTrouble \cap {"joining", "plugin"} = {} => \A a \in Admins : ~Moderation!Bans(command[a].does)
        BY <2>1 DEF Moderation!Checked, Moderation!Has
      <3> QED BY <1>1, <2>1, <3>1, <3>2 DEF Moderation!Checked, Moderation!MayEnter,
                     ModerationSound, ModerationEntering, ModerationInHand
    <2>2. CASE Moderation!Registered \/ Moderation!Leaves
      BY <1>1, <2>2 DEF Moderation!Registered, Moderation!Leaves, ModerationSound,
             ModerationEntering, ModerationInHand
    <2> QED BY <2>1, <2>2
  <1> QED BY <1>2, <1>3 DEF ModerationSound

LEMMA ModerationCrashKeeps ==
  ASSUME ModerationApart, ~Moderation!Has("torn"), ModerationSound, Moderation!Crash
  PROVE  ModerationSound'
  <1>1. /\ file.is = "whole" /\ moderationUp' = FALSE /\ writers' = {} /\ client' = "out" /\ list' = {} /\ banned' = FALSE
        /\ command' = [a \in Admins |-> Moderation!Idle]
        /\ moderationTold' = [x \in Moderation!Things |-> IF ModerationInHand(x) THEN "nothing" ELSE moderationTold[x]]
        /\ UNCHANGED <<moderationTrouble, kind, file, commands>> /\ ModerationSafe' = ModerationSafe
    BY ModerationTouchedIs DEF Moderation!Crash, ModerationSafe, Moderation!Has
  <1>2. \A a \in Admins : command'[a] = Moderation!Idle
    BY <1>1
  <1>3. ModerationTypes'
    BY <1>1, ModerationIdleIs DEF ModerationSound, ModerationTypes
  <1>4. ModerationShapes' /\ ModerationExclusive' /\ ModerationRunning'
    BY <1>1, <1>2, ModerationIdleIs DEF ModerationShapes, ModerationExclusive,
           ModerationRunning, Moderation!Busy
  <1>5. ModerationAgreed(file.list, file.banned) => ModerationAgreed(file.list, file.banned)'
    BY <1>1 DEF ModerationAgreed, ModerationSafe, Moderation!Things
  <1>6. ModerationKept'
    BY <1>1, <1>2, <1>5, ModerationIdleIs DEF ModerationSound, ModerationKept
  <1>7. ModerationEntering'
    BY <1>1, <1>2, ModerationIdleIs DEF ModerationEntering, Moderation!Bans
  <1> QED BY <1>3, <1>4, <1>6, <1>7 DEF ModerationSound

LEMMA ModerationStartKeeps ==
  ASSUME ModerationApart, ~Moderation!Has("torn"), ModerationSound, Moderation!Start
  PROVE  ModerationSound'
  <1>1. /\ ~moderationUp /\ moderationUp' = TRUE /\ list' = file.list /\ banned' = file.banned
        /\ UNCHANGED <<moderationTrouble, kind,
                       file, writers, command, moderationTold, client, commands, moderationCrashes>>
        /\ ModerationSafe' = ModerationSafe
    BY DEF Moderation!Start, ModerationSafe, Moderation!Has
  <1>2. file.is = "whole" /\ writers = {} /\ \A a \in Admins : command[a] = Moderation!Idle
    BY <1>1 DEF ModerationSound, ModerationRunning, Moderation!Busy
  <1>3. ModerationTypes'
    BY <1>1 DEF ModerationSound, ModerationTypes
  <1>4. ModerationShapes' /\ ModerationExclusive' /\ ModerationRunning'
    BY <1>1, <1>2, ModerationIdleIs DEF ModerationShapes, ModerationExclusive,
           ModerationRunning, Moderation!Busy
  <1>5. ModerationKept'
    BY <1>1, <1>2, ModerationIdleIs DEF ModerationSound, ModerationKept, ModerationAgreed,
           ModerationInHand
  <1>6. ModerationEntering'
    BY <1>1 DEF ModerationSound, ModerationEntering, ModerationInHand
  <1> QED BY <1>3, <1>4, <1>5, <1>6 DEF ModerationSound

LEMMA ModerationNextInv ==
  ASSUME ModerationApart, ModerationIInv, [Moderation!Next]_(Moderation!vars)
  PROVE  ModerationIInv'
  <1>1. moderationTrouble' = moderationTrouble
    BY DEF Moderation!vars, Moderation!Next, Moderation!BanIp, Moderation!RoomBanUser,
           Moderation!WhitelistAdd, Moderation!UnbanIp, Moderation!RoomUnbanUser,
           Moderation!WhitelistRemove, Moderation!ClearWhitelist, Moderation!BanUser,
           Moderation!UnbanUser, Moderation!Begins, Moderation!PutBack, Moderation!WriteBegins,
           Moderation!CannotOpen, Moderation!WriteEnds, Moderation!WriteFails,
           Moderation!Answers, Moderation!AnswersError, Moderation!Checked, Moderation!Registered,
           Moderation!Leaves, Moderation!Crash, Moderation!Start
  <1> SUFFICES ASSUME ~Moderation!Has("torn") PROVE ModerationSound'
    BY <1>1 DEF ModerationIInv, Moderation!Has
  <1>2. ModerationSound
    BY DEF ModerationIInv
  <1>3. CASE UNCHANGED Moderation!vars
    <2>1. ModerationTypes' /\ ModerationShapes' /\ ModerationExclusive' /\ ModerationRunning'
      BY <1>2, <1>3 DEF Moderation!vars, ModerationSound, ModerationTypes, ModerationShapes,
             ModerationExclusive, ModerationRunning, Moderation!Busy, Moderation!Has
    <2>2. ModerationKept'
      BY <1>2, <1>3 DEF Moderation!vars, ModerationSound, ModerationKept, ModerationInHand,
             ModerationAgreed, ModerationDone, ModerationSafe, Moderation!Has
    <2>3. ModerationEntering'
      BY <1>2, <1>3 DEF Moderation!vars, ModerationSound, ModerationEntering, ModerationInHand
    <2> QED BY <2>1, <2>2, <2>3 DEF ModerationSound
  <1>4. ASSUME NEW a \in Admins, NEW x \in Entries,
               \/ Moderation!BanIp(a, x) \/ Moderation!RoomBanUser(a, x) \/ Moderation!WhitelistAdd(a, x)
               \/ Moderation!UnbanIp(a, x) \/ Moderation!RoomUnbanUser(a, x) \/ Moderation!WhitelistRemove(a, x)
        PROVE  ModerationSound'
    <2>1. {x} \in SUBSET Moderation!Things /\ {x} \subseteq Entries
      BY DEF Moderation!Things
    <2>2. Moderation!Begins(a, "add", {x}) \/ Moderation!Begins(a, "remove", {x})
      BY <1>4 DEF Moderation!BanIp, Moderation!RoomBanUser, Moderation!WhitelistAdd,
             Moderation!UnbanIp, Moderation!RoomUnbanUser, Moderation!WhitelistRemove
    <2> QED BY <1>2, <2>1, <2>2, ModerationBeginsKeeps
  <1>5. ASSUME NEW a \in Admins,
               Moderation!ClearWhitelist(a) \/ Moderation!BanUser(a) \/ Moderation!UnbanUser(a)
        PROVE  ModerationSound'
    <2>1. Entries \in SUBSET Moderation!Things /\ {Banned} \in SUBSET Moderation!Things
      BY DEF Moderation!Things
    <2>2. CASE Moderation!ClearWhitelist(a)
      <3>1. Moderation!Begins(a, "remove", Entries)
        BY <2>2 DEF Moderation!ClearWhitelist
      <3> QED BY <1>2, <2>1, <3>1, ModerationBeginsKeeps
    <2>3. CASE Moderation!BanUser(a)
      <3>1. client # "checked" \/ Moderation!Has("joining")
        BY <2>3 DEF Moderation!BanUser
      <3>2. CASE Moderation!Begins(a, "ban", {Banned})
        BY <1>2, <2>1, <3>1, <3>2, ModerationBeginsKeeps
      <3>3. CASE Moderation!Has("plugin") /\ Moderation!Begins(a, "plugin ban", {Banned})
        BY <1>2, <2>1, <3>1, <3>3, ModerationBeginsKeeps
      <3> QED BY <2>3, <3>2, <3>3 DEF Moderation!BanUser
    <2>4. CASE Moderation!UnbanUser(a)
      <3>1. Moderation!Begins(a, "unban", {Banned})
        BY <2>4 DEF Moderation!UnbanUser
      <3> QED BY <1>2, <2>1, <3>1, ModerationBeginsKeeps
    <2> QED BY <1>5, <2>2, <2>3, <2>4
  <1> QED BY <1>2, <1>3, <1>4, <1>5, ModerationPutBackKeeps, ModerationAnswersKeeps,
             ModerationAnswersErrorKeeps, ModerationWritesKeep, ModerationClientKeeps,
             ModerationCrashKeeps, ModerationStartKeeps DEF Moderation!Next

LEMMA ModerationInvTells ==
  ASSUME ModerationApart, ModerationIInv
  PROVE  Moderation!AnswersHoldIfCalm /\ Moderation!BannedIsOutIfCalm
  <1>1. Moderation!AnswersHoldIfCalm
    <2> SUFFICES ASSUME ~Moderation!Has("racing"), ~Moderation!Has("torn"), moderationUp,
                        NEW x \in Moderation!Things, ~ModerationInHand(x)
                 PROVE  /\ moderationTold[x] = "in" => Moderation!InForce(x)
                        /\ moderationTold[x] = "out" => ~Moderation!InForce(x)
      BY ModerationTouchedIs DEF Moderation!AnswersHoldIfCalm, Moderation!AnswersHold,
             Moderation!Has
    <2> QED BY DEF ModerationIInv, ModerationSound, ModerationKept, ModerationAgreed,
                   ModerationSafe, ModerationHolds, Moderation!InForce
  <1>2. Moderation!BannedIsOutIfCalm
    <2> SUFFICES ASSUME moderationTrouble \cap {"joining", "plugin"} = {}, ~Moderation!Has("torn"),
                     moderationTold[Banned] = "in", ~ModerationInHand(Banned)
                 PROVE  client # "in"
      BY ModerationTouchedIs DEF Moderation!BannedIsOutIfCalm, Moderation!BannedIsOut,
             Moderation!Has
    <2> QED BY DEF ModerationIInv, ModerationSound, ModerationEntering
  <1> QED BY <1>1, <1>2

LEMMA ModerationStep == [Next]_vars => [Moderation!Next]_(Moderation!vars)
  BY DEF Next, vars, OfRecovery, OfTelemetry, OfPresence, OfManaged, OfModeration,
         OfDirectory, moderationVars, Moderation!vars

(* What an administrator was told without an error of a list or a ban holds  *)
(* for as long as nobody edits the same thing, over restarts and failing     *)
(* writes too, and a user whose ban was answered has no session, unless one  *)
(* of the troubles that the properties of Moderation name strikes (ban.rs,   *)
(* extensions.rs).                                                           *)
THEOREM ModerationIfCalmHolds == ASSUME ModerationApart PROVE Spec => []ModerationIfCalm
  <1>1. Init => ModerationIInv
    BY ModerationInitInv DEF Init
  <1>2. ModerationIInv /\ [Next]_vars => ModerationIInv'
    BY ModerationStep, ModerationNextInv
  <1>3. ModerationIInv => ModerationIfCalm
    BY ModerationInvTells DEF ModerationIfCalm
  <1> QED BY <1>1, <1>2, <1>3, PTL DEF Spec

-----------------------------------------------------------------------------
(***************************************************************************)
(* The places of the players, of which RoomDirectory_proofs tells.         *)
(***************************************************************************)
DirectoryProofs == INSTANCE RoomDirectory_proofs WITH
            Users <- Players, Troubles <- DirectoryTroubles,
            trouble <- directoryTrouble, op <- directoryOp

(* A step of the composite is one of the rooms, or leaves them alone. *)
LEMMA DirectoryStep == [Next]_vars => [DirectoryProofs!Next]_(DirectoryProofs!vars)
  <1>1. Directory!Next => DirectoryProofs!Next
    BY DEF Directory!None, DirectoryProofs!None, Directory!Made, DirectoryProofs!Made,
           Directory!NoOp, DirectoryProofs!NoOp, Directory!places, DirectoryProofs!places,
           Directory!Register, DirectoryProofs!Register, Directory!StopsIf,
           DirectoryProofs!StopsIf, Directory!Listed, DirectoryProofs!Listed, Directory!Busy,
           DirectoryProofs!Busy, Directory!Locked, DirectoryProofs!Locked, Directory!MayStart,
           DirectoryProofs!MayStart, Directory!Does, DirectoryProofs!Does, Directory!Stage,
           DirectoryProofs!Stage, Directory!Goes, DirectoryProofs!Goes, Directory!Ends,
           DirectoryProofs!Ends, Directory!Reaches, DirectoryProofs!Reaches, Directory!Send,
           DirectoryProofs!Send, Directory!NewRoom, DirectoryProofs!NewRoom,
           Directory!CreateRoom, DirectoryProofs!CreateRoom, Directory!JoinLook,
           DirectoryProofs!JoinLook, Directory!JoinSend, DirectoryProofs!JoinSend,
           Directory!JoinEnds, DirectoryProofs!JoinEnds, Directory!LeaveRoom,
           DirectoryProofs!LeaveRoom, Directory!LeaveEnds, DirectoryProofs!LeaveEnds,
           Directory!Runs, DirectoryProofs!Runs, Directory!Answers, DirectoryProofs!Answers,
           Directory!AddUser, DirectoryProofs!AddUser, Directory!Leaves, DirectoryProofs!Leaves,
           Directory!RemoveUser, DirectoryProofs!RemoveUser, Directory!KickUser,
           DirectoryProofs!KickUser, Directory!CloseRoom, DirectoryProofs!CloseRoom,
           Directory!StopStale, DirectoryProofs!StopStale, Directory!Lost, DirectoryProofs!Lost,
           Directory!Orders, DirectoryProofs!Orders, Directory!OrderEnds,
           DirectoryProofs!OrderEnds, Directory!KickFromServer, DirectoryProofs!KickFromServer,
           Directory!CreateEmpty, DirectoryProofs!CreateEmpty, Directory!EmptyIsMade,
           DirectoryProofs!EmptyIsMade, Directory!Move, DirectoryProofs!Move, Directory!Moving,
           DirectoryProofs!Moving, Directory!MoveRemoves, DirectoryProofs!MoveRemoves,
           Directory!MoveRemoved, DirectoryProofs!MoveRemoved, Directory!MoveAdds,
           DirectoryProofs!MoveAdds, Directory!MoveAdded, DirectoryProofs!MoveAdded,
           Directory!MoveRegisters, DirectoryProofs!MoveRegisters, Directory!MovePoints,
           DirectoryProofs!MovePoints, Directory!MoveUndoes, DirectoryProofs!MoveUndoes,
           Directory!MoveUndone, DirectoryProofs!MoveUndone, Directory!Next,
           DirectoryProofs!Next
  <1> QED BY <1>1 DEF Next, vars, OfRecovery, OfTelemetry, OfPresence, OfManaged, OfModeration,
                      OfDirectory, directoryVars, DirectoryProofs!vars

(* A player hears one room at most, and if nothing meets at an awkward time  *)
(* a player at rest is in the room that his pointer names                    *)
(* (session_room.rs, server/rooms.rs).                                       *)
THEOREM DirectoryIfCalmHolds == ASSUME Admin \notin Players PROVE Spec => []DirectoryIfCalm
  <1>1. DirectoryProofs!Apart
    BY DEF DirectoryProofs!Apart
  <1>2. Init => DirectoryProofs!IInv
    <2>1. Directory!Init => DirectoryProofs!Init
      BY DEF Directory!Init, DirectoryProofs!Init, Directory!None, DirectoryProofs!None,
             Directory!NoOp, DirectoryProofs!NoOp
    <2> QED BY <2>1, DirectoryProofs!InitInv DEF Init
  <1>3. DirectoryProofs!IInv /\ [Next]_vars => DirectoryProofs!IInv'
    BY <1>1, DirectoryStep, DirectoryProofs!NextInv
  <1>4. DirectoryProofs!IInv => DirectoryIfCalm
    <2>1. \A S : Directory!Cardinality(S) = DirectoryProofs!Cardinality(S)
      BY Zenon DEF Directory!Cardinality, DirectoryProofs!Cardinality
    <2> QED BY <1>1, <2>1, DirectoryProofs!InvTells
        DEF DirectoryIfCalm,
            Directory!PlacesAgreeIfCalm, DirectoryProofs!PlacesAgreeIfCalm,
            Directory!PlacesAgree, DirectoryProofs!PlacesAgree, Directory!OneRoomIfApart,
            DirectoryProofs!OneRoomIfApart, Directory!Settled, DirectoryProofs!Settled,
            Directory!Inside, DirectoryProofs!Inside, Directory!Listed, DirectoryProofs!Listed,
            Directory!None, DirectoryProofs!None, Directory!Made, DirectoryProofs!Made
  <1> QED BY <1>2, <1>3, <1>4, PTL DEF Spec
=============================================================================
