------------------------- MODULE MCExtensions_proofs --------------------------
(***************************************************************************)
(* What is proved of the components that MCExtensions puts side by side.   *)
(* Each changes its state only by its own steps. The names of what is      *)
(* defined here begin with that of the component: of the update            *)
(* (AutoUpdate), that the executable stays whole whatever breaks off, and  *)
(* what each applier has reached makes that inductive; of the connections  *)
(* of a plugin (PluginTcp), that callbacks do not overlap and that the     *)
(* quota is right, from what may be said of a connection at each stage.    *)
(* Of the plugins (PluginRuntime) it has three parts: that they hear the   *)
(* events in order, what a flush waits for, and what they leave behind.    *)
(***************************************************************************)
EXTENDS MCExtensions, Sequences, FiniteSetTheorems, TLAPS

-----------------------------------------------------------------------------
(***************************************************************************)
(* The update.                                                             *)
(***************************************************************************)
UpdateLimits == MaxReleases \in Nat /\ Chunks \in Nat

UpdateTasks == [at : {"no", "request", "stream", "verify", "activate", "replace", "spawn"},
                want : Update!Versions, polite : BOOLEAN, inode : 0..6, pos : Nat, next : Nat]

UpdateFiles == [part : 0..6, tmp : 0..6, exe : Update!Inodes]

UpdateTypes ==
    /\ latest \in Update!Versions /\ told \in Update!Versions /\ told <= latest
    /\ disk = [i \in Update!Inodes |-> disk[i]]
    /\ files \in UpdateFiles
    /\ updateTask \in [Update!Appliers -> UpdateTasks]
    /\ \A t \in Update!Appliers : updateTask[t].want <= latest

\* Nobody comes while an update that minds the players is at work.
UpdatePolite ==
    "joining" \notin updateTrouble =>
        ~thrown /\ \A t \in Update!Appliers : updateTask[t].polite => players # "some"

\* What an applier has reached: it writes to a file nobody runs, and what it
\* has verified is what it moves.
UpdateReached(x, tl, fs, ds) ==
    /\ x.inode # 0 => x.at = "stream" /\ x.inode # fs.exe
    /\ x.at # "no" => tl <= x.want
    /\ x.at = "activate" /\ fs.part # 0 => ds[fs.part] = Update!Whole(x.want)
    /\ x.at = "replace" /\ fs.tmp # 0 => ds[fs.tmp] = Update!Whole(x.want)
    /\ x.at = "spawn" => ds[fs.exe] = Update!Whole(x.want)

\* The executable is whole and recent, and its inode has no other name.
UpdateApart(fs) ==
    fs.exe # fs.part /\ fs.exe # fs.tmp /\ (fs.part # 0 => fs.part # fs.tmp)

UpdateExe(tl, fs, ds) ==
    /\ UpdateApart(fs)
    /\ \E v \in Update!Versions : ds[fs.exe] = Update!Whole(v) /\ v >= tl

UpdateAlone ==
    \A s, t \in Update!Appliers : updateTask[s].at # "no" /\ updateTask[t].at # "no" => s = t

UpdateSound ==
    "both" \notin updateTrouble =>
        /\ UpdateAlone
        /\ UpdateExe(told, files, disk)
        /\ \A t \in Update!Appliers : UpdateReached(updateTask[t], told, files, disk)

UpdateInv == UpdateTypes /\ UpdatePolite /\ UpdateSound

-----------------------------------------------------------------------------
LEMMA UpdateInitInv == ASSUME UpdateLimits PROVE Update!Init => UpdateInv
  <1> SUFFICES ASSUME Update!Init PROVE UpdateInv OBVIOUS
  <1>1. 0 \in Update!Versions
    BY DEF UpdateLimits, Update!Versions
  <1>2. Update!Nothing \in UpdateTasks /\ Update!Nothing.at = "no" /\ Update!Nothing.want = 0
        /\ ~Update!Nothing.polite /\ Update!Nothing.inode = 0
    BY <1>1 DEF Update!Nothing, UpdateTasks
  <1>3. UpdateTypes
    BY <1>1, <1>2 DEF Update!Init, UpdateTypes, UpdateFiles, Update!Inodes
  <1>4. UpdatePolite
    BY <1>2 DEF Update!Init, UpdatePolite
  <1>5. UpdateExe(told, files, disk)
    BY <1>1 DEF Update!Init, UpdateExe, UpdateApart, Update!Inodes
  <1>6. UpdateSound
    BY <1>2, <1>5 DEF Update!Init, UpdateSound, UpdateAlone, UpdateReached
  <1> QED BY <1>3, <1>4, <1>6 DEF UpdateInv

(* There is always an inode left: five may be in use.                        *)
LEMMA UpdateUnused ==
  ASSUME UpdateTypes
  PROVE  /\ Update!Unused \in Update!Inodes
         /\ Update!Unused \notin Update!Used(files, updateTask)
  <1> DEFINE U == Update!Used(files, updateTask)
             S == Update!Inodes \ U
  <1>1. U = {files.part, files.tmp, files.exe, updateTask[Console].inode, updateTask[Executor].inode}
    BY DEF Update!Used, Update!Appliers
  <1>2. \E i \in Update!Inodes : i \notin U
    <2> HIDE DEF U
    <2> DEFINE a == files.part
               b == files.tmp
               c == files.exe
               d == updateTask[Console].inode
               e == updateTask[Executor].inode
    <2>1. U = {a, b, c, d, e}
      BY <1>1
    <2> HIDE DEF a, b, c, d, e
    <2> QED BY <2>1 DEF Update!Inodes
  <1>3. \E i \in S : \A j \in S : i <= j
    <2> HIDE DEF U
    <2> QED BY <1>2 DEF Update!Inodes
  <1>4. Update!Unused \in S
    BY <1>3 DEF Update!Unused, Update!Min
  <1> QED BY <1>4

(* What is kept of the disk: every inode that has a name or is open. *)
LEMMA UpdateDisk ==
  ASSUME NEW d, Update!DiskBecomes(d)
  PROVE  /\ disk' = [i \in Update!Inodes |-> disk'[i]]
         /\ \A i \in Update!Inodes \cap {files'.part, files'.tmp, files'.exe} : disk'[i] = d[i]
  BY DEF Update!DiskBecomes, Update!Used

(* Who is at work is alone at it, and nobody else has a file open. *)
LEMMA UpdateOthers ==
  ASSUME UpdateInv, "both" \notin updateTrouble, NEW t \in Update!Appliers, updateTask[t].at # "no",
         NEW s \in Update!Appliers, s # t
  PROVE  updateTask[s].at = "no" /\ updateTask[s].inode = 0
  BY DEF UpdateInv, UpdateSound, UpdateAlone, UpdateReached

(* A step of an applier in the same process, what it may change, and what it *)
(* owes while only one update is in progress.                                *)
UpdateMoves(t, y) ==
    /\ updateTask' = [updateTask EXCEPT ![t] = y] /\ updateTrouble' = updateTrouble /\ latest' = latest
    /\ players' = players /\ thrown' = thrown /\ y.want <= latest
    /\ y.polite => updateTask[t].polite \/ players # "some"
    /\ told' \in Update!Versions /\ told' <= latest
    /\ files' \in UpdateFiles /\ disk' = [i \in Update!Inodes |-> disk'[i]]

UpdateOwes(t, y) ==
    "both" \notin updateTrouble =>
        /\ updateTask[t].at # "no" \/ \A s \in Update!Appliers : updateTask[s].at = "no"
        /\ UpdateExe(told', files', disk')
        /\ UpdateReached(y, told', files', disk')

LEMMA UpdateKeeps ==
  ASSUME UpdateLimits, UpdateInv, NEW t \in Update!Appliers, NEW y \in UpdateTasks, UpdateMoves(t, y),
         UpdateOwes(t, y)
  PROVE  UpdateInv'
  <1>1. UpdateTypes
    BY DEF UpdateInv
  <1>2. \A s \in Update!Appliers : updateTask'[s] = IF s = t THEN y ELSE updateTask[s]
    BY <1>1 DEF UpdateTypes, UpdateMoves
  <1>3. UpdateTypes'
    BY <1>1, <1>2 DEF UpdateTypes, UpdateMoves, Update!Appliers, Update!Versions, Update!Inodes,
                      UpdateFiles, UpdateTasks
  <1>4. UpdatePolite'
    BY <1>2 DEF UpdateInv, UpdatePolite, UpdateMoves, Update!Appliers
  <1>5. ASSUME "both" \notin updateTrouble PROVE UpdateSound'
    <2>1. ASSUME NEW s \in Update!Appliers, s # t
          PROVE  updateTask[s].at = "no" /\ updateTask[s].inode = 0
      BY <1>5, <2>1, UpdateOthers DEF UpdateInv, UpdateSound, UpdateReached, UpdateOwes
    <2>2. UpdateAlone'
      BY <1>2, <2>1 DEF UpdateAlone, Update!Appliers
    <2>3. ASSUME NEW s \in Update!Appliers PROVE UpdateReached(updateTask'[s], told', files', disk')
      <3>1. CASE s = t
        BY <1>2, <1>5, <3>1 DEF UpdateOwes
      <3>2. CASE s # t
        BY <1>2, <2>1, <3>2 DEF UpdateReached
      <3> QED BY <3>1, <3>2
    <2>4. UpdateExe(told', files', disk')
      BY <1>5 DEF UpdateOwes
    <2> QED BY <2>2, <2>3, <2>4 DEF UpdateSound, Update!Appliers
  <1>6. ASSUME "both" \in updateTrouble PROVE UpdateSound'
    <2>1. "both" \in updateTrouble'
      BY <1>6 DEF UpdateMoves
    <2> QED BY <2>1 DEF UpdateSound
  <1> QED BY <1>3, <1>4, <1>5, <1>6 DEF UpdateInv

(* The record of one who has nothing to do. *)
LEMMA UpdateIdle ==
  ASSUME UpdateLimits
  PROVE  /\ Update!Nothing \in UpdateTasks /\ Update!Nothing.at = "no" /\ Update!Nothing.want = 0
         /\ ~Update!Nothing.polite
         /\ \A tl, fs, ds : UpdateReached(Update!Nothing, tl, fs, ds)
  <1>1. 0 \in Update!Versions
    BY DEF UpdateLimits, Update!Versions
  <1> QED BY <1>1 DEF Update!Nothing, UpdateTasks, UpdateReached

LEMMA UpdateBeginKeeps ==
  ASSUME UpdateLimits, UpdateInv, NEW t \in Update!Appliers, NEW force \in BOOLEAN,
         Update!Begin(t, force)
  PROVE  UpdateInv'
  <1> DEFINE y == [Update!Nothing EXCEPT !.at = "request", !.want = latest, !.polite = ~force]
  <1>1. UpdateTypes /\ latest \in Update!Versions /\ told <= latest
    BY DEF UpdateInv, UpdateTypes
  <1>2. /\ y \in UpdateTasks /\ y.at = "request" /\ y.want = latest /\ y.polite = ~force
        /\ y.inode = 0
    BY <1>1, UpdateIdle DEF Update!Nothing, UpdateTasks
  <1> HIDE DEF y
  <1>3. updateTask' = [updateTask EXCEPT ![t] = y]
    BY DEF Update!Begin, y
  <1>4. UpdateMoves(t, y)
    <2>1. y.polite => players # "some"
      BY <1>2 DEF Update!Begin, Update!MayApply, Update!NobodyIsOn
    <2>2. latest <= latest
      BY <1>1 DEF Update!Versions, UpdateLimits
    <2> QED BY <1>1, <1>2, <1>3, <2>1, <2>2 DEF UpdateMoves, Update!Begin, Update!server, UpdateTypes
  <1>5. ASSUME "both" \notin updateTrouble
        PROVE  /\ updateTask[t].at # "no" \/ \A s \in Update!Appliers : updateTask[s].at = "no"
               /\ UpdateExe(told', files', disk')
               /\ UpdateReached(y, told', files', disk')
    <2>1. /\ files' = files /\ disk' = disk /\ told' = told
          /\ \A s \in Update!Appliers : updateTask[s].at = "no"
      BY <1>5 DEF Update!Begin, Update!server, Update!At
    <2>2. UpdateExe(told, files, disk)
      BY <1>5 DEF UpdateInv, UpdateSound
    <2> QED BY <1>1, <1>2, <2>1, <2>2 DEF UpdateReached
  <1>6. UpdateOwes(t, y)
    BY <1>5 DEF UpdateOwes
  <1> QED BY ONLY UpdateLimits, UpdateInv, t \in Update!Appliers, <1>2, <1>4, <1>6, UpdateKeeps

LEMMA UpdateChunkKeeps ==
  ASSUME UpdateLimits, UpdateInv, NEW t \in Update!Appliers, Update!Chunk(t)
  PROVE  UpdateInv'
  <1> DEFINE x == updateTask[t]
             to == IF x.pos > Chunks THEN x.pos ELSE x.pos + 1
             y == [x EXCEPT !.next = x.next + 1, !.pos = to]
  <1>1. UpdateTypes /\ x \in UpdateTasks /\ x.at = "stream"
    BY DEF UpdateInv, UpdateTypes, Update!Chunk, Update!At
  <1>2. x.next + 1 \in Nat /\ to \in Nat
    BY <1>1 DEF UpdateTasks, UpdateLimits
  <1>3. /\ y \in UpdateTasks /\ y.at = "stream" /\ y.want = x.want /\ y.polite = x.polite
        /\ y.inode = x.inode
    BY <1>1, <1>2 DEF UpdateTasks
  <1>4. updateTask' = [updateTask EXCEPT ![t] = y]
    BY <1>1 DEF Update!Chunk, UpdateTypes, UpdateTasks
  <1> HIDE DEF y, to
  <1> DEFINE d == [disk EXCEPT ![x.inode] = Update!Written(disk[x.inode], x.pos, <<x.want, x.next>>)]
  <1>5. Update!DiskBecomes(d)
    BY DEF Update!Chunk
  <1>6. /\ files' = files /\ UNCHANGED Update!server
    BY DEF Update!Chunk
  <1> HIDE DEF d
  <1>0. /\ disk' = [i \in Update!Inodes |-> disk'[i]]
        /\ \A i \in Update!Inodes \cap {files'.part, files'.tmp, files'.exe} : disk'[i] = d[i]
    BY <1>5, UpdateDisk
  <1>7. UpdateMoves(t, y)
    BY <1>0, <1>1, <1>3, <1>4, <1>6 DEF UpdateMoves, Update!server, UpdateTypes
  <1>8. ASSUME "both" \notin updateTrouble
        PROVE  /\ UpdateExe(told', files', disk') /\ UpdateReached(y, told', files', disk')
    <2>1. UpdateExe(told, files, disk) /\ UpdateReached(x, told, files, disk)
      BY <1>8 DEF UpdateInv, UpdateSound
    <2>2. files.exe \in Update!Inodes
      BY <1>1 DEF UpdateTypes, UpdateFiles
    <2>3. x.inode # files.exe
      BY <1>1, <2>1, <2>2 DEF UpdateReached, Update!Inodes
    <2>4. d[files.exe] = disk[files.exe]
      BY <1>1, <2>2, <2>3 DEF UpdateTypes, d
    <2>5. disk'[files.exe] = disk[files.exe]
      BY <1>0, <1>6, <2>2, <2>4
    <2>6. told' = told
      BY <1>6 DEF Update!server
    <2>7. UpdateExe(told', files', disk')
      BY <1>6, <2>1, <2>5, <2>6 DEF UpdateExe, UpdateApart
    <2> QED BY <1>1, <1>3, <1>6, <2>1, <2>3, <2>6, <2>7 DEF UpdateReached
  <1>9. UpdateOwes(t, y)
    BY <1>1, <1>8 DEF UpdateOwes
  <1> QED BY ONLY UpdateLimits, UpdateInv, t \in Update!Appliers, <1>3, <1>7, <1>9, UpdateKeeps

LEMMA UpdateRequestKeeps ==
  ASSUME UpdateLimits, UpdateInv, NEW t \in Update!Appliers, Update!Request(t)
  PROVE  UpdateInv'
  <1> DEFINE x == updateTask[t]
  <1>1. /\ UpdateTypes /\ x \in UpdateTasks /\ x.at = "request" /\ files \in UpdateFiles
        /\ files.exe \in Update!Inodes /\ x.want <= latest
    BY DEF UpdateInv, UpdateTypes, Update!Request, Update!At, UpdateFiles
  <1>2. UNCHANGED Update!server /\ told' = told
    BY DEF Update!Request, Update!server
  <1>3. ASSUME "both" \notin updateTrouble
        PROVE  /\ UpdateExe(told, files, disk) /\ UpdateReached(x, told, files, disk)
               /\ files.exe # files.part
    BY <1>3 DEF UpdateInv, UpdateSound, UpdateExe, UpdateApart
  <1>4. /\ Update!Unused \in Update!Inodes
        /\ Update!Unused # files.part /\ Update!Unused # files.tmp /\ Update!Unused # files.exe
    BY <1>1, UpdateUnused DEF Update!Used
  <1>a. ASSUME files' = [files EXCEPT !.part = IF @ = 0 THEN Update!Unused ELSE @],
               updateTask' = [updateTask EXCEPT ![t].at = "stream", ![t].inode = files'.part,
                                                ![t].pos = 0, ![t].next = 1],
               Update!DiskBecomes([disk EXCEPT ![files'.part] = <<>>])
        PROVE  UpdateInv'
    <2> DEFINE n == files'.part
               y == [x EXCEPT !.at = "stream", !.inode = n, !.pos = 0, !.next = 1]
               d == [disk EXCEPT ![n] = <<>>]
    <2>1. /\ files' \in UpdateFiles /\ n \in Update!Inodes /\ files'.exe = files.exe
          /\ files'.tmp = files.tmp
          /\ n = (IF files.part = 0 THEN Update!Unused ELSE files.part)
      BY <1>1, <1>4, <1>a DEF UpdateFiles, Update!Inodes
    <2>2. Update!DiskBecomes(d)
      BY <1>a
    <2> HIDE DEF d
    <2>9. updateTask' = [updateTask EXCEPT ![t].at = "stream", ![t].inode = n, ![t].pos = 0, ![t].next = 1]
      BY <1>a
    <2> HIDE DEF n
    <2>3. /\ y \in UpdateTasks /\ y.at = "stream" /\ y.want = x.want /\ y.polite = x.polite
          /\ y.inode = n
      <3>1. n \in 0..6 /\ 0 \in Nat /\ 1 \in Nat
        BY <2>1 DEF Update!Inodes
      <3> HIDE DEF x
      <3> QED BY <1>1, <3>1 DEF UpdateTasks
    <2>4. updateTask' = [updateTask EXCEPT ![t] = y]
      BY <1>1, <2>9 DEF UpdateTypes, UpdateTasks
    <2> HIDE DEF y
    <2>5. /\ disk' = [i \in Update!Inodes |-> disk'[i]]
          /\ \A i \in Update!Inodes \cap {files'.part, files'.tmp, files'.exe} : disk'[i] = d[i]
      BY <2>2, UpdateDisk
    <2>6. UpdateMoves(t, y)
      BY <1>1, <1>2, <2>1, <2>3, <2>4, <2>5 DEF UpdateMoves, Update!server, UpdateTypes
    <2>7. ASSUME "both" \notin updateTrouble
          PROVE  UpdateExe(told', files', disk') /\ UpdateReached(y, told', files', disk')
      <3>1. n # files.exe
        BY <1>3, <1>4, <2>1, <2>7
      <3>2. d[files.exe] = disk[files.exe]
        BY <1>1, <3>1 DEF UpdateTypes, d
      <3>3. disk'[files'.exe] = disk[files.exe]
        BY <1>1, <2>1, <2>5, <3>2
      <3>4. UpdateExe(told', files', disk')
        <4>1. UpdateApart(files')
          BY <1>1, <1>3, <1>4, <2>1, <2>7, <3>1 DEF UpdateExe, UpdateApart, n
        <4> QED BY <1>2, <1>3, <2>7, <3>3, <4>1 DEF UpdateExe
      <3> QED BY <1>1, <1>2, <1>3, <2>1, <2>3, <2>7, <3>1, <3>4 DEF UpdateReached
    <2>8. UpdateOwes(t, y)
      BY <1>1, <2>7 DEF UpdateOwes
    <2> QED BY ONLY UpdateLimits, UpdateInv, t \in Update!Appliers, <2>3, <2>6, <2>8, UpdateKeeps
  <1>b. ASSUME updateTask' = [updateTask EXCEPT ![t].at = "stream", ![t].inode = files.part,
                  ![t].pos = Chunks + 1, ![t].next = (IF files.part = 0 THEN 0 ELSE Len(disk[files.part])) + 1],
               (IF files.part = 0 THEN 0 ELSE Len(disk[files.part])) \in 1..(Chunks - 1),
               UNCHANGED <<disk, files>>
        PROVE  UpdateInv'
    <2> DEFINE l == IF files.part = 0 THEN 0 ELSE Len(disk[files.part])
               n == l + 1
               p == Chunks + 1
               y == [x EXCEPT !.at = "stream", !.inode = files.part, !.pos = p, !.next = n]
    <2>1. l \in 1..(Chunks - 1)
      BY <1>b
    <2> HIDE DEF l
    <2>2. n \in Nat /\ p \in Nat
      BY <2>1 DEF UpdateLimits
    <2>3. updateTask' = [updateTask EXCEPT ![t] = y]
      BY <1>b, <1>1 DEF UpdateTypes, UpdateTasks, l
    <2> HIDE DEF n, p
    <2>4. /\ y \in UpdateTasks /\ y.at = "stream" /\ y.want = x.want /\ y.polite = x.polite
          /\ y.inode = files.part
      BY <1>1, <2>2 DEF UpdateTasks, UpdateFiles
    <2> HIDE DEF y
    <2>5. UpdateMoves(t, y)
      BY <1>1, <1>2, <1>b, <2>3, <2>4 DEF UpdateMoves, Update!server, UpdateTypes
    <2>6. UpdateOwes(t, y)
      BY <1>1, <1>2, <1>3, <1>b, <2>4 DEF UpdateOwes, UpdateReached
    <2> QED BY ONLY UpdateLimits, UpdateInv, t \in Update!Appliers, <2>4, <2>5, <2>6, UpdateKeeps
  <1>c. ASSUME files' = [files EXCEPT !.part = 0], UNCHANGED updateTask, Update!DiskBecomes(disk)
        PROVE  UpdateInv'
    <2>1. /\ files' \in UpdateFiles /\ files'.exe = files.exe /\ files'.tmp = files.tmp /\ files'.part = 0
      BY <1>1, <1>c DEF UpdateFiles
    <2>2. updateTask' = [updateTask EXCEPT ![t] = x]
      BY <1>1, <1>c DEF UpdateTypes
    <2>3. /\ disk' = [i \in Update!Inodes |-> disk'[i]]
          /\ \A i \in Update!Inodes \cap {files'.part, files'.tmp, files'.exe} : disk'[i] = disk[i]
      BY <1>c, UpdateDisk
    <2>4. UpdateMoves(t, x)
      BY <1>1, <1>2, <2>1, <2>2, <2>3 DEF UpdateMoves, Update!server, UpdateTypes
    <2>5. UpdateOwes(t, x)
      <3>1. disk'[files'.exe] = disk[files.exe]
        BY <1>1, <2>1, <2>3
      <3>2. files'.exe # files'.part
        BY <1>1, <2>1 DEF Update!Inodes
      <3>3. ASSUME "both" \notin updateTrouble
            PROVE  UpdateExe(told', files', disk') /\ UpdateReached(x, told', files', disk')
        <4>1. UpdateExe(told', files', disk')
          BY <1>2, <1>3, <2>1, <3>1, <3>2, <3>3 DEF UpdateExe, UpdateApart
        <4> QED BY <1>1, <1>2, <1>3, <3>3, <4>1 DEF UpdateReached
      <3> QED BY <1>1, <3>3 DEF UpdateOwes
    <2> HIDE DEF x
    <2> QED BY ONLY UpdateLimits, UpdateInv, t \in Update!Appliers, <1>1, <2>4, <2>5, UpdateKeeps
  <1>d. ASSUME Update!Fails(t), UNCHANGED <<disk, files>>
        PROVE  UpdateInv'
    <2> DEFINE y == Update!Nothing
    <2>1. /\ y \in UpdateTasks /\ y.at = "no" /\ y.want = 0 /\ ~y.polite
          /\ UpdateReached(y, told', files', disk')
      BY UpdateIdle
    <2>2. updateTask' = [updateTask EXCEPT ![t] = y]
      BY <1>d DEF Update!Fails
    <2> HIDE DEF y
    <2>3. UpdateMoves(t, y)
      BY <1>1, <1>2, <1>d, <2>1, <2>2
      DEF UpdateMoves, Update!server, UpdateTypes, Update!Versions, UpdateLimits
    <2>4. UpdateOwes(t, y)
      BY <1>1, <1>2, <1>3, <1>d, <2>1 DEF UpdateOwes
    <2> QED BY ONLY UpdateLimits, UpdateInv, t \in Update!Appliers, <2>1, <2>3, <2>4, UpdateKeeps
  <1> QED BY ONLY <1>a, <1>b, <1>c, <1>d, Update!Request(t) DEF Update!Request

(* An applier that is done, whatever became of it. *)
LEMMA UpdateDoneKeeps ==
  ASSUME UpdateLimits, UpdateInv, NEW t \in Update!Appliers, updateTask[t].at # "no",
         UpdateMoves(t, Update!Nothing),
         "both" \notin updateTrouble => UpdateExe(told', files', disk')
  PROVE  UpdateInv'
  <1> DEFINE y == Update!Nothing
  <1>1. y \in UpdateTasks /\ UpdateReached(y, told', files', disk')
    BY UpdateIdle
  <1>2. UpdateOwes(t, y)
    BY <1>1 DEF UpdateOwes
  <1> QED BY ONLY UpdateLimits, UpdateInv, t \in Update!Appliers, UpdateMoves(t, Update!Nothing),
               <1>1, <1>2, UpdateKeeps

(* What an applier at work knows. *)
LEMMA UpdateKnows ==
  ASSUME UpdateInv, NEW t \in Update!Appliers
  PROVE  /\ UpdateTypes /\ updateTask[t] \in UpdateTasks /\ files \in UpdateFiles
         /\ files.exe \in Update!Inodes /\ files.exe # 0 /\ updateTask[t].want <= latest
         /\ "both" \notin updateTrouble =>
               UpdateExe(told, files, disk) /\ UpdateReached(updateTask[t], told, files, disk)
  BY DEF UpdateInv, UpdateTypes, UpdateFiles, UpdateSound, Update!Inodes

LEMMA UpdateStreamEndsKeeps ==
  ASSUME UpdateLimits, UpdateInv, NEW t \in Update!Appliers, Update!StreamEnds(t)
  PROVE  UpdateInv'
  <1> DEFINE x == updateTask[t]
             a == IF x.next > Chunks /\ files.part # 0 THEN "verify" ELSE "request"
             y == [x EXCEPT !.inode = 0, !.pos = 0, !.next = 0, !.at = a]
  <1>1. /\ UpdateTypes /\ x \in UpdateTasks /\ x.at = "stream" /\ files.exe \in Update!Inodes
        /\ x.want <= latest
        /\ "both" \notin updateTrouble =>
              UpdateExe(told, files, disk) /\ UpdateReached(x, told, files, disk)
    BY UpdateKnows DEF Update!StreamEnds, Update!At
  <1>2. /\ files' = files /\ UNCHANGED Update!server /\ Update!DiskBecomes(disk) /\ told' = told
    BY DEF Update!StreamEnds, Update!server
  <1>3. a \in {"verify", "request"}
    OBVIOUS
  <1>4. updateTask' = [updateTask EXCEPT ![t] = y]
    BY <1>1 DEF Update!StreamEnds, UpdateTypes, UpdateTasks
  <1> HIDE DEF a
  <1>5. /\ y \in UpdateTasks /\ y.at = a /\ y.want = x.want /\ y.polite = x.polite /\ y.inode = 0
    <2>1. 0 \in Nat /\ 0 \in 0..6 /\ x \in UpdateTasks
      BY <1>1
    <2> HIDE DEF x
    <2> QED BY <1>3, <2>1 DEF UpdateTasks
  <1> HIDE DEF y
  <1>6. /\ disk' = [i \in Update!Inodes |-> disk'[i]]
        /\ \A i \in Update!Inodes \cap {files'.part, files'.tmp, files'.exe} : disk'[i] = disk[i]
    BY <1>2, UpdateDisk
  <1>7. disk'[files'.exe] = disk[files.exe]
    BY <1>1, <1>2, <1>6
  <1>8. UpdateMoves(t, y)
    BY <1>1, <1>2, <1>4, <1>5, <1>6 DEF UpdateMoves, Update!server, UpdateTypes
  <1>9. UpdateOwes(t, y)
    BY <1>1, <1>2, <1>3, <1>5, <1>7 DEF UpdateOwes, UpdateExe, UpdateApart, UpdateReached
  <1> QED BY ONLY UpdateLimits, UpdateInv, t \in Update!Appliers, <1>5, <1>8, <1>9, UpdateKeeps

LEMMA UpdateVerifyKeeps ==
  ASSUME UpdateLimits, UpdateInv, NEW t \in Update!Appliers, Update!Verify(t)
  PROVE  UpdateInv'
  <1> DEFINE x == updateTask[t]
  <1>1. /\ UpdateTypes /\ x \in UpdateTasks /\ x.at = "verify" /\ files \in UpdateFiles
        /\ files.exe \in Update!Inodes /\ files.exe # 0 /\ x.want <= latest
        /\ "both" \notin updateTrouble =>
              UpdateExe(told, files, disk) /\ UpdateReached(x, told, files, disk)
    BY UpdateKnows DEF Update!Verify, Update!At
  <1>2. UNCHANGED Update!server /\ told' = told
    BY DEF Update!Verify, Update!server
  <1>a. ASSUME files.part # 0, disk[files.part] = Update!Whole(x.want), Update!Goes(t, "activate"),
               UNCHANGED <<disk, files>>
        PROVE  UpdateInv'
    <2> DEFINE y == [x EXCEPT !.at = "activate"]
    <2>1. updateTask' = [updateTask EXCEPT ![t] = y]
      BY <1>1, <1>a DEF Update!Goes, UpdateTypes, UpdateTasks
    <2>2. /\ y \in UpdateTasks /\ y.at = "activate" /\ y.want = x.want /\ y.polite = x.polite
          /\ y.inode = x.inode
      BY <1>1 DEF UpdateTasks
    <2> HIDE DEF y
    <2>3. UpdateMoves(t, y)
      BY <1>1, <1>2, <1>a, <2>1, <2>2 DEF UpdateMoves, Update!server, UpdateTypes
    <2>4. UpdateOwes(t, y)
      BY <1>1, <1>2, <1>a, <2>2 DEF UpdateOwes, UpdateReached
    <2> QED BY ONLY UpdateLimits, UpdateInv, t \in Update!Appliers, <2>2, <2>3, <2>4, UpdateKeeps
  <1>b. ASSUME Update!Fails(t), files' = [files EXCEPT !.part = 0], Update!DiskBecomes(disk)
        PROVE  UpdateInv'
    <2>1. /\ files' \in UpdateFiles /\ files'.exe = files.exe /\ files'.tmp = files.tmp /\ files'.part = 0
      BY <1>1, <1>b DEF UpdateFiles
    <2>2. /\ disk' = [i \in Update!Inodes |-> disk'[i]]
          /\ \A i \in Update!Inodes \cap {files'.part, files'.tmp, files'.exe} : disk'[i] = disk[i]
      BY <1>b, UpdateDisk
    <2>3. UpdateMoves(t, Update!Nothing)
      BY <1>1, <1>2, <1>b, <2>1, <2>2, UpdateIdle
      DEF UpdateMoves, Update!server, UpdateTypes, Update!Fails, Update!Versions
    <2>4. disk'[files'.exe] = disk[files.exe]
      BY <1>1, <2>1, <2>2
    <2>5. "both" \notin updateTrouble => UpdateExe(told', files', disk')
      BY <1>1, <1>2, <2>1, <2>4 DEF UpdateExe, UpdateApart
    <2>6. updateTask[t].at # "no"
      BY <1>1
    <2> QED BY ONLY UpdateLimits, UpdateInv, t \in Update!Appliers, <2>3, <2>5, <2>6, UpdateDoneKeeps
  <1> QED BY ONLY <1>a, <1>b, Update!Verify(t) DEF Update!Verify

LEMMA UpdateActivateKeeps ==
  ASSUME UpdateLimits, UpdateInv, NEW t \in Update!Appliers, Update!Activate(t)
  PROVE  UpdateInv'
  <1> DEFINE x == updateTask[t]
  <1>1. /\ UpdateTypes /\ x \in UpdateTasks /\ x.at = "activate" /\ files \in UpdateFiles
        /\ files.exe \in Update!Inodes /\ files.exe # 0 /\ x.want <= latest
        /\ "both" \notin updateTrouble =>
              UpdateExe(told, files, disk) /\ UpdateReached(x, told, files, disk)
    BY UpdateKnows DEF Update!Activate, Update!At
  <1>2. UNCHANGED Update!server /\ told' = told /\ Update!DiskBecomes(disk)
    BY DEF Update!Activate, Update!server
  <1>3. /\ disk' = [i \in Update!Inodes |-> disk'[i]]
        /\ \A i \in Update!Inodes \cap {files'.part, files'.tmp, files'.exe} : disk'[i] = disk[i]
    BY <1>2, UpdateDisk
  <1>a. ASSUME files.part # 0, files' = [files EXCEPT !.tmp = files.part, !.part = 0],
               Update!Goes(t, "replace")
        PROVE  UpdateInv'
    <2> DEFINE y == [x EXCEPT !.at = "replace"]
    <2>1. updateTask' = [updateTask EXCEPT ![t] = y]
      BY <1>1, <1>a DEF Update!Goes, UpdateTypes, UpdateTasks
    <2>2. /\ y \in UpdateTasks /\ y.at = "replace" /\ y.want = x.want /\ y.polite = x.polite
          /\ y.inode = x.inode
      BY <1>1 DEF UpdateTasks
    <2> HIDE DEF y
    <2>3. /\ files' \in UpdateFiles /\ files'.exe = files.exe /\ files'.tmp = files.part /\ files'.part = 0
          /\ files.part \in Update!Inodes
      <3> DEFINE f == [files EXCEPT !.tmp = files.part]
      <3>1. f \in UpdateFiles /\ f.exe = files.exe /\ f.tmp = files.part
        BY <1>1 DEF UpdateFiles
      <3>2. files' = [f EXCEPT !.part = 0]
        BY <1>1, <1>a DEF UpdateFiles
      <3> HIDE DEF f
      <3>3. files.part \in Update!Inodes
        BY <1>1, <1>a DEF UpdateFiles, Update!Inodes
      <3> QED BY <3>1, <3>2, <3>3 DEF UpdateFiles
    <2>4. disk'[files'.exe] = disk[files.exe] /\ disk'[files'.tmp] = disk[files.part]
      BY <1>1, <1>3, <2>3
    <2>5. UpdateMoves(t, y)
      BY <1>1, <1>2, <1>3, <2>1, <2>2, <2>3 DEF UpdateMoves, Update!server, UpdateTypes
    <2>6. UpdateOwes(t, y)
      BY <1>1, <1>2, <1>a, <2>2, <2>3, <2>4 DEF UpdateOwes, UpdateReached, UpdateExe, UpdateApart
    <2> QED BY ONLY UpdateLimits, UpdateInv, t \in Update!Appliers, <2>2, <2>5, <2>6, UpdateKeeps
  <1>b. ASSUME Update!Fails(t), UNCHANGED files
        PROVE  UpdateInv'
    <2>1. UpdateMoves(t, Update!Nothing)
      BY <1>1, <1>2, <1>3, <1>b, UpdateIdle
      DEF UpdateMoves, Update!server, UpdateTypes, Update!Fails, Update!Versions
    <2>2. disk'[files'.exe] = disk[files.exe]
      BY <1>1, <1>3, <1>b
    <2>3. "both" \notin updateTrouble => UpdateExe(told', files', disk')
      BY <1>1, <1>2, <1>b, <2>2 DEF UpdateExe, UpdateApart
    <2>4. updateTask[t].at # "no"
      BY <1>1
    <2> QED BY ONLY UpdateLimits, UpdateInv, t \in Update!Appliers, <2>1, <2>3, <2>4, UpdateDoneKeeps
  <1> QED BY ONLY <1>a, <1>b, Update!Activate(t) DEF Update!Activate

LEMMA UpdateReplaceKeeps ==
  ASSUME UpdateLimits, UpdateInv, NEW t \in Update!Appliers, Update!Replace(t)
  PROVE  UpdateInv'
  <1> DEFINE x == updateTask[t]
             y == [x EXCEPT !.at = "spawn"]
  <1>1. /\ UpdateTypes /\ x \in UpdateTasks /\ x.at = "replace" /\ files \in UpdateFiles
        /\ files.exe \in Update!Inodes /\ files.exe # 0 /\ x.want <= latest
        /\ "both" \notin updateTrouble =>
              UpdateExe(told, files, disk) /\ UpdateReached(x, told, files, disk)
    BY UpdateKnows DEF Update!Replace, Update!At
  <1>2. UNCHANGED Update!server /\ told' = told
    BY DEF Update!Replace, Update!server
  <1>3. /\ y \in UpdateTasks /\ y.at = "spawn" /\ y.want = x.want /\ y.polite = x.polite
        /\ y.inode = x.inode
    BY <1>1 DEF UpdateTasks
  <1>4. Update!Goes(t, "spawn") => updateTask' = [updateTask EXCEPT ![t] = y]
    BY <1>1 DEF Update!Goes, UpdateTypes, UpdateTasks
  <1>5. x.want \in Update!Versions /\ x.want >= x.want
    BY <1>1 DEF UpdateTasks, Update!Versions, UpdateLimits
  <1> HIDE DEF y
  \* The executable is what was verified, and nobody has it open to write.
  <1>6. ASSUME Update!Goes(t, "spawn"), files' \in UpdateFiles,
               disk' = [i \in Update!Inodes |-> disk'[i]],
               disk'[files'.exe] = disk[files.tmp], files.tmp # 0,
               "both" \notin updateTrouble => UpdateApart(files')
        PROVE  UpdateInv'
    <2>1. UpdateMoves(t, y)
      BY <1>1, <1>2, <1>3, <1>4, <1>6 DEF UpdateMoves, Update!server, UpdateTypes
    <2>2. ASSUME "both" \notin updateTrouble
          PROVE  UpdateExe(told', files', disk') /\ UpdateReached(y, told', files', disk')
      <3>1. disk'[files'.exe] = Update!Whole(x.want) /\ told' <= x.want /\ x.inode = 0
        BY <1>1, <1>2, <1>6, <2>2 DEF UpdateReached
      <3>2. x.want >= told'
        BY <1>1, <1>2, <1>5, <3>1 DEF UpdateTypes, Update!Versions, UpdateLimits
      <3>3. UpdateExe(told', files', disk')
        BY <1>5, <1>6, <2>2, <3>1, <3>2 DEF UpdateExe, UpdateApart
      <3> QED BY <1>3, <3>1, <3>3 DEF UpdateReached
    <2>3. UpdateOwes(t, y)
      BY <1>1, <2>2 DEF UpdateOwes
    <2> QED BY ONLY UpdateLimits, UpdateInv, t \in Update!Appliers, <1>3, <2>1, <2>3, UpdateKeeps
  <1>a. ASSUME files.tmp # 0, Update!Goes(t, "spawn"), Update!DiskBecomes(disk),
               files' = [files EXCEPT !.exe = files.tmp, !.tmp = 0]
        PROVE  UpdateInv'
    <2> DEFINE f == [files EXCEPT !.exe = files.tmp]
    <2>1. f \in UpdateFiles /\ f.exe = files.tmp /\ f.part = files.part /\ files.tmp \in Update!Inodes
      BY <1>1, <1>a DEF UpdateFiles, Update!Inodes
    <2>2. files' = [f EXCEPT !.tmp = 0]
      BY <1>1, <1>a DEF UpdateFiles
    <2> HIDE DEF f
    <2>3. /\ files' \in UpdateFiles /\ files'.exe = files.tmp /\ files'.part = files.part /\ files'.tmp = 0
      BY <2>1, <2>2 DEF UpdateFiles
    <2>4. /\ disk' = [i \in Update!Inodes |-> disk'[i]]
          /\ \A i \in Update!Inodes \cap {files'.part, files'.tmp, files'.exe} : disk'[i] = disk[i]
      BY <1>a, UpdateDisk
    <2>5. disk'[files'.exe] = disk[files.tmp]
      BY <2>1, <2>3, <2>4
    <2>6. ASSUME "both" \notin updateTrouble
          PROVE  UpdateApart(files')
      BY <1>1, <1>a, <2>3, <2>6 DEF UpdateExe, UpdateApart
    <2> QED BY ONLY <1>6, <1>a, <2>3, <2>4, <2>5, <2>6
  <1>b. ASSUME files.tmp # 0, Update!Goes(t, "spawn"), files' = [files EXCEPT !.exe = Update!Unused],
               Update!DiskBecomes([disk EXCEPT ![Update!Unused] = disk[files.tmp]])
        PROVE  UpdateInv'
    <2> DEFINE n == Update!Unused
               d == [disk EXCEPT ![n] = disk[files.tmp]]
    <2>1. /\ n \in Update!Inodes
          /\ n # files.part /\ n # files.tmp /\ n # files.exe
      BY <1>1, UpdateUnused DEF Update!Used
    <2>2. Update!DiskBecomes(d)
      BY <1>b
    <2>3. d[n] = disk[files.tmp]
      BY <1>1, <2>1 DEF UpdateTypes
    <2> HIDE DEF d
    <2>4. /\ files' \in UpdateFiles /\ files'.exe = n /\ files'.part = files.part
          /\ files'.tmp = files.tmp
      BY <1>1, <1>b, <2>1 DEF UpdateFiles
    <2>5. /\ disk' = [i \in Update!Inodes |-> disk'[i]]
          /\ \A i \in Update!Inodes \cap {files'.part, files'.tmp, files'.exe} : disk'[i] = d[i]
      BY <2>2, UpdateDisk
    <2>6. disk'[files'.exe] = disk[files.tmp]
      BY <2>1, <2>3, <2>4, <2>5
    <2>7. ASSUME "both" \notin updateTrouble
          PROVE  UpdateApart(files')
      BY <1>1, <2>1, <2>4, <2>7 DEF UpdateExe, UpdateApart
    <2> QED BY ONLY <1>6, <1>b, <2>4, <2>5, <2>6, <2>7
  <1>c. ASSUME Update!Fails(t), UNCHANGED <<files, disk>>
        PROVE  UpdateInv'
    <2>1. UpdateMoves(t, Update!Nothing)
      BY <1>1, <1>2, <1>c, UpdateIdle
      DEF UpdateMoves, Update!server, UpdateTypes, Update!Fails, Update!Versions
    <2>2. "both" \notin updateTrouble => UpdateExe(told', files', disk')
      BY <1>1, <1>2, <1>c
    <2>3. updateTask[t].at # "no"
      BY <1>1
    <2> QED BY ONLY UpdateLimits, UpdateInv, t \in Update!Appliers, <2>1, <2>2, <2>3, UpdateDoneKeeps
  <1> QED BY ONLY <1>a, <1>b, <1>c, Update!Replace(t) DEF Update!Replace

LEMMA UpdateSpawnFailsKeeps ==
  ASSUME UpdateLimits, UpdateInv, NEW t \in Update!Appliers, Update!SpawnFails(t)
  PROVE  UpdateInv'
  <1> DEFINE x == updateTask[t]
  <1>1. /\ UpdateTypes /\ x \in UpdateTasks /\ x.at = "spawn" /\ files \in UpdateFiles
        /\ x.want <= latest
        /\ "both" \notin updateTrouble =>
              UpdateExe(told, files, disk) /\ UpdateReached(x, told, files, disk)
    BY UpdateKnows DEF Update!SpawnFails, Update!At
  <1>2. x.want \in Update!Versions /\ x.want >= x.want
    BY <1>1 DEF UpdateTasks, Update!Versions, UpdateLimits
  <1>3. told' = x.want /\ files' = files /\ disk' = disk
    BY DEF Update!SpawnFails, Update!Announces
  <1>4. UpdateMoves(t, Update!Nothing)
    BY <1>1, <1>2, <1>3, UpdateIdle
    DEF UpdateMoves, Update!SpawnFails, UpdateTypes, Update!Fails, Update!Versions
  <1>5. "both" \notin updateTrouble => UpdateExe(told', files', disk')
    BY <1>1, <1>2, <1>3 DEF UpdateExe, UpdateReached
  <1>6. updateTask[t].at # "no"
    BY <1>1
  <1> QED BY ONLY UpdateLimits, UpdateInv, t \in Update!Appliers, <1>4, <1>5, <1>6, UpdateDoneKeeps

(* A new process: nobody is at work, the files are as they were. *)
LEMMA UpdateStartsKeeps ==
  ASSUME UpdateLimits, UpdateInv, Update!Starts, told' \in Update!Versions, told' <= latest,
         "joining" \notin updateTrouble => ~thrown',
         "both" \notin updateTrouble => UpdateExe(told', files, disk)
  PROVE  UpdateInv'
  <1>1. /\ UpdateTypes /\ files \in UpdateFiles /\ files.exe \in Update!Inodes
    BY DEF UpdateInv, UpdateTypes, UpdateFiles
  <1>2. /\ updateTask' = [t \in Update!Appliers |-> Update!Nothing]
        /\ updateTrouble' = updateTrouble /\ latest' = latest /\ files' = files
        /\ Update!DiskBecomes(disk)
    BY DEF Update!Starts
  <1>3. /\ disk' = [i \in Update!Inodes |-> disk'[i]]
        /\ \A i \in Update!Inodes \cap {files'.part, files'.tmp, files'.exe} : disk'[i] = disk[i]
    BY <1>2, UpdateDisk
  <1>4. disk'[files'.exe] = disk[files.exe]
    BY <1>1, <1>2, <1>3
  <1> DEFINE n == Update!Nothing
  <1>5. /\ n \in UpdateTasks /\ n.at = "no" /\ n.want = 0 /\ ~n.polite
        /\ \A tl, fs, ds : UpdateReached(n, tl, fs, ds)
    BY UpdateIdle
  <1>6. \A t \in Update!Appliers : updateTask'[t] = n
    BY <1>2
  <1>7. updateTask' \in [Update!Appliers -> UpdateTasks]
    BY <1>2, <1>5
  <1> HIDE DEF n
  <1>8. UpdateTypes'
    BY <1>1, <1>2, <1>3, <1>5, <1>6, <1>7
    DEF UpdateTypes, Update!Versions, UpdateLimits, Update!Appliers, Update!Inodes,
        UpdateFiles, UpdateTasks
  <1>9. UpdatePolite'
    BY <1>2, <1>5, <1>6 DEF UpdatePolite, Update!Appliers
  <1>10. UpdateSound'
    <2>1. ASSUME "both" \notin updateTrouble PROVE UpdateExe(told', files', disk')
      BY <1>2, <1>4, <2>1 DEF UpdateExe
    <2>2. UpdateAlone'
      BY <1>5, <1>6 DEF UpdateAlone, Update!Appliers
    <2>3. \A t \in Update!Appliers : UpdateReached(updateTask'[t], told', files', disk')
      BY <1>5, <1>6
    <2>4. CASE "both" \in updateTrouble
      <3>1. "both" \in updateTrouble'
        BY <1>2, <2>4
      <3> QED BY <3>1 DEF UpdateSound
    <2> QED BY <2>1, <2>2, <2>3, <2>4 DEF UpdateSound, Update!Appliers
  <1> QED BY <1>8, <1>9, <1>10 DEF UpdateInv

LEMMA UpdateTakesOverKeeps ==
  ASSUME UpdateLimits, UpdateInv, NEW t \in Update!Appliers, Update!TakesOver(t)
  PROVE  UpdateInv'
  <1> DEFINE x == updateTask[t]
  <1>1. /\ UpdateTypes /\ x \in UpdateTasks /\ x.at = "spawn" /\ x.want <= latest
        /\ "both" \notin updateTrouble =>
              UpdateExe(told, files, disk) /\ UpdateReached(x, told, files, disk)
    BY UpdateKnows DEF Update!TakesOver, Update!At
  <1>2. x.want \in Update!Versions /\ x.want >= x.want
    BY <1>1 DEF UpdateTasks, Update!Versions, UpdateLimits
  <1>3. told' = x.want /\ Update!Starts
    BY DEF Update!TakesOver, Update!Announces
  <1>4. told' \in Update!Versions /\ told' <= latest
    BY <1>1, <1>2, <1>3
  <1>5. "joining" \notin updateTrouble => ~thrown'
    BY DEF Update!TakesOver, UpdateInv, UpdatePolite
  <1>6. "both" \notin updateTrouble => UpdateExe(told', files, disk)
    BY <1>1, <1>2, <1>3 DEF UpdateExe, UpdateReached
  <1> QED BY ONLY UpdateLimits, UpdateInv, <1>3, <1>4, <1>5, <1>6, UpdateStartsKeeps

LEMMA UpdateCrashKeeps ==
  ASSUME UpdateLimits, UpdateInv, Update!Crash
  PROVE  UpdateInv'
  <1>1. /\ told' = told /\ thrown' = thrown /\ Update!Starts /\ told \in Update!Versions
        /\ told <= latest
    BY DEF Update!Crash, UpdateInv, UpdateTypes
  <1>2. "joining" \notin updateTrouble => ~thrown'
    BY <1>1 DEF UpdateInv, UpdatePolite
  <1>3. "both" \notin updateTrouble => UpdateExe(told', files, disk)
    BY <1>1 DEF UpdateInv, UpdateSound
  <1>4. told' \in Update!Versions /\ told' <= latest
    BY <1>1
  <1> QED BY ONLY UpdateLimits, UpdateInv, <1>1, <1>2, <1>3, <1>4, UpdateStartsKeeps

(* Reservations, releases and players leave the files and the appliers alone. *)
LEMMA UpdateOutsideKeeps ==
  ASSUME UpdateLimits, UpdateInv,
         Update!Schedule \/ Update!Cancel \/ Update!Release \/ Update!PlayersChange
  PROVE  UpdateInv'
  <1>1. /\ updateTask' = updateTask /\ updateTrouble' = updateTrouble /\ files' = files
        /\ disk' = disk /\ told' = told /\ thrown' = thrown
    BY DEF Update!Schedule, Update!Cancel, Update!Release, Update!PlayersChange
  <1>2. latest' \in Update!Versions /\ latest <= latest'
    BY DEF Update!Schedule, Update!Cancel, Update!Release, Update!PlayersChange, UpdateInv, UpdateTypes,
           Update!Versions, UpdateLimits
  <1>3. "joining" \notin updateTrouble /\ players' = "some" /\ players # "some" =>
           \A t \in Update!Appliers : ~updateTask[t].polite
    BY DEF Update!Schedule, Update!Cancel, Update!Release, Update!PlayersChange
  <1>4. \A t \in Update!Appliers : updateTask[t].want \in Update!Versions
    BY DEF UpdateInv, UpdateTypes, UpdateTasks
  <1>5. UpdateTypes'
    <2>1. told <= latest' /\ \A t \in Update!Appliers : updateTask[t].want <= latest'
      BY <1>2, <1>4 DEF UpdateInv, UpdateTypes, Update!Versions, UpdateLimits
    <2> QED BY <1>1, <1>2, <2>1 DEF UpdateInv, UpdateTypes, Update!Appliers, Update!Versions,
                 Update!Inodes, UpdateFiles, UpdateTasks
  <1>6. UpdatePolite'
    BY <1>1, <1>3 DEF UpdateInv, UpdatePolite, Update!Appliers
  <1>7. UpdateSound'
    BY <1>1 DEF UpdateInv, UpdateSound, UpdateAlone, UpdateReached, UpdateExe, Update!Appliers,
                Update!Versions, Update!Whole
  <1> QED BY <1>5, <1>6, <1>7 DEF UpdateInv

LEMMA UpdateStutters ==
  ASSUME UpdateLimits, UpdateInv, UNCHANGED Update!vars
  PROVE  UpdateInv'
  <1>1. /\ updateTask' = updateTask /\ updateTrouble' = updateTrouble /\ files' = files
        /\ disk' = disk /\ told' = told /\ thrown' = thrown /\ latest' = latest /\ players' = players
    BY DEF Update!vars
  <1>2. UpdateTypes'
    BY <1>1 DEF UpdateInv, UpdateTypes, Update!Appliers, Update!Versions, Update!Inodes, UpdateFiles,
                UpdateTasks
  <1>3. UpdatePolite'
    BY <1>1 DEF UpdateInv, UpdatePolite, Update!Appliers
  <1>4. UpdateSound'
    BY <1>1 DEF UpdateInv, UpdateSound, UpdateAlone, UpdateReached, UpdateExe, Update!Appliers,
                Update!Versions, Update!Whole
  <1> QED BY <1>2, <1>3, <1>4 DEF UpdateInv

LEMMA UpdateStep ==
  ASSUME UpdateLimits, UpdateInv, [Update!Next]_(Update!vars) PROVE UpdateInv'
  <1>1. ASSUME NEW t \in Update!Appliers, Update!Apply(t) PROVE UpdateInv'
    BY ONLY UpdateLimits, UpdateInv, <1>1, UpdateBeginKeeps, UpdateRequestKeeps, UpdateChunkKeeps,
       UpdateStreamEndsKeeps, UpdateVerifyKeeps, UpdateActivateKeeps, UpdateReplaceKeeps,
       UpdateTakesOverKeeps, UpdateSpawnFailsKeeps DEF Update!Apply
  <1> QED BY ONLY UpdateLimits, UpdateInv, [Update!Next]_(Update!vars), <1>1, UpdateCrashKeeps,
             UpdateOutsideKeeps, UpdateStutters DEF Update!Next

LEMMA UpdateOnly == [Next]_vars => [Update!Next]_(Update!vars)
  BY DEF Next, vars, OfPlugins, OfTcp, OfUpdate, updateVars, Update!vars

(* While one update is in progress the executable is always a whole release, *)
(* and not an older one than was announced; while nobody comes, no update    *)
(* that minds the players throws one out (auto_update.rs).                   *)
THEOREM UpdateIfCalmHolds == ASSUME UpdateLimits PROVE Spec => []UpdateIfCalm
  <1>1. Init => UpdateInv
    BY UpdateInitInv DEF Init
  <1>2. UpdateInv /\ [Next]_vars => UpdateInv'
    BY ONLY UpdateLimits, UpdateStep, UpdateOnly
  <1>3. UpdateInv => UpdateIfCalm
    BY DEF UpdateInv, UpdateSound, UpdatePolite, UpdateExe, UpdateIfCalm, Update!ExeIsSoundIfCalm,
           Update!ExeIsSound, Update!NobodyIsThrownOutIfCalm, Update!NobodyIsThrownOut
  <1> QED BY <1>1, <1>2, <1>3, PTL DEF Spec

-----------------------------------------------------------------------------
(***************************************************************************)
(* The connections of a plugin.                                            *)
(***************************************************************************)
TcpLimits == IsFiniteSet(Handles) /\ "" \notin Handles /\ MaxReads \in Nat

TcpKinds == {"connected", "failed", "disconnected"}
TcpMessages == [what : TcpKinds, handle : Handles]
TcpEvents == {"accept", "receive", "disconnect"}
TcpCalls == [handle : Handles, gen : Nat, event : TcpEvents] \cup {Tcp!Idle}

\* The messages on their way to the actor, and those about one handle.
TcpPost == {inbox[i] : i \in DOMAIN inbox}
TcpWord(h) == {k \in TcpKinds : [what |-> k, handle |-> h] \in TcpPost}

TcpTypes ==
    /\ tcpTask \in [Handles -> {"none", "connecting", "reading", "ended"}]
    /\ unreported \subseteq Handles /\ pending \subseteq Handles
    /\ connections \subseteq Handles /\ closing \subseteq Handles
    /\ inbox \in Seq(TcpMessages)
    /\ \A i, j \in DOMAIN inbox : inbox[i] = inbox[j] => i = j
    /\ buffered \in [Handles -> Nat]
    /\ \A h \in Handles : buffered[h] <= reads
    /\ reads \in 0..MaxReads

\* The life of a connection: what its read task, the actor and the messages
\* between them may say of it at the same time.
TcpStage(t, u, p, c, z, m, b) ==
    \/ t = "none" /\ ~u /\ ~p /\ ~c /\ ~z /\ m = {} /\ b = 0
    \/ t = "connecting" /\ ~u /\ p /\ ~c /\ ~z /\ m = {} /\ b = 0
    \/ t = "reading" /\ p /\ ~c /\ ~z /\ (IF u THEN m = {} ELSE m = {"connected"})
    \/ t = "reading" /\ ~u /\ ~p /\ m = {} /\ (c <=> ~z) /\ (~c => b = 0)
    \/ t = "ended" /\ ~u /\ p /\ ~c /\ m = {"failed"} /\ b = 0
    \/ t = "ended" /\ ~u /\ ~p /\ m = {"disconnected"} /\ (~c => b = 0)
    \/ t = "ended" /\ ~u /\ ~p /\ ~c /\ m = {} /\ b = 0

TcpLife ==
    \A h \in Handles : TcpStage(tcpTask[h], h \in unreported, h \in pending, h \in connections,
                                h \in closing, TcpWord(h), buffered[h])

TcpSound == TcpTypes /\ TcpLife

-----------------------------------------------------------------------------
LEMMA TcpPosts ==
  ASSUME TcpTypes, NEW k \in TcpKinds, NEW h \in Handles, k \notin TcpWord(h),
         inbox' = Append(inbox, [what |-> k, handle |-> h])
  PROVE  /\ inbox' \in Seq(TcpMessages) /\ \A i, j \in DOMAIN inbox' : inbox'[i] = inbox'[j] => i = j
         /\ TcpWord(h)' = TcpWord(h) \cup {k}
         /\ \A g \in Handles : g # h => TcpWord(g)' = TcpWord(g)
  <1> DEFINE m == [what |-> k, handle |-> h]
  <1>1. m \in TcpMessages /\ m.what = k /\ m.handle = h /\ inbox \in Seq(TcpMessages)
    BY DEF TcpMessages, TcpTypes
  <1>2. m \notin TcpPost
    BY DEF TcpWord
  <1>3. \A g, l : [what |-> l, handle |-> g] = m <=> l = k /\ g = h
    BY <1>1
  <1>4. inbox' = Append(inbox, m)
    OBVIOUS
  <1> HIDE DEF m
  <1>5. /\ inbox' \in Seq(TcpMessages) /\ Len(inbox') = Len(inbox) + 1
        /\ \A i \in 1..Len(inbox) : inbox'[i] = inbox[i]
        /\ inbox'[Len(inbox) + 1] = m /\ DOMAIN inbox' = 1..(Len(inbox) + 1)
        /\ DOMAIN inbox = 1..Len(inbox) /\ Len(inbox) \in Nat
    BY <1>1, <1>4
  <1>6. TcpPost' = TcpPost \cup {m}
    BY <1>5 DEF TcpPost
  <1>7. \A i, j \in DOMAIN inbox' : inbox'[i] = inbox'[j] => i = j
    BY <1>2, <1>5 DEF TcpTypes, TcpPost
  <1> QED BY <1>3, <1>5, <1>6, <1>7 DEF TcpWord

LEMMA TcpGets ==
  ASSUME TcpTypes, NEW k \in TcpKinds, NEW h \in Handles, Tcp!Got(k, h)
  PROVE  /\ inbox' \in Seq(TcpMessages) /\ \A i, j \in DOMAIN inbox' : inbox'[i] = inbox'[j] => i = j
         /\ k \in TcpWord(h) /\ TcpWord(h)' = TcpWord(h) \ {k}
         /\ \A g \in Handles : g # h => TcpWord(g)' = TcpWord(g)
  <1> DEFINE m == [what |-> k, handle |-> h]
  <1>1. m.what = k /\ m.handle = h /\ inbox \in Seq(TcpMessages)
    BY DEF TcpTypes
  <1>2. inbox # <<>> /\ Head(inbox) = m /\ inbox' = Tail(inbox)
    BY DEF Tcp!Got
  <1>3. \A g, l : [what |-> l, handle |-> g] = m <=> l = k /\ g = h
    BY <1>1
  <1> HIDE DEF m
  <1>5. /\ inbox' \in Seq(TcpMessages) /\ Len(inbox') = Len(inbox) - 1
        /\ \A i \in 1..Len(inbox') : inbox'[i] = inbox[i + 1]
        /\ inbox[1] = m /\ DOMAIN inbox' = 1..Len(inbox')
        /\ DOMAIN inbox = 1..Len(inbox) /\ Len(inbox) \in Nat \ {0}
    BY <1>1, <1>2
  <1>6. TcpPost' = TcpPost \ {m} /\ m \in TcpPost
    <2>1. ASSUME NEW i \in DOMAIN inbox' PROVE inbox'[i] \in TcpPost /\ inbox'[i] # m
      <3>1. i + 1 \in DOMAIN inbox /\ i + 1 # 1 /\ 1 \in DOMAIN inbox /\ inbox'[i] = inbox[i + 1]
        BY <1>5
      <3> QED BY <1>5, <3>1 DEF TcpTypes, TcpPost
    <2>2. ASSUME NEW i \in DOMAIN inbox, inbox[i] # m PROVE inbox[i] \in TcpPost'
      <3>1. i # 1 /\ i - 1 \in DOMAIN inbox' /\ inbox'[i - 1] = inbox[i]
        BY <1>5, <2>2
      <3> QED BY <3>1 DEF TcpPost
    <2>3. m \in TcpPost
      BY <1>5 DEF TcpPost
    <2> QED BY <2>1, <2>2, <2>3 DEF TcpPost
  <1>7. ASSUME NEW i \in DOMAIN inbox', NEW j \in DOMAIN inbox', inbox'[i] = inbox'[j] PROVE i = j
    <2>1. /\ i + 1 \in DOMAIN inbox /\ j + 1 \in DOMAIN inbox /\ inbox[i + 1] = inbox[j + 1]
          /\ i \in Nat /\ j \in Nat
      BY <1>5, <1>7
    <2>2. i + 1 = j + 1
      BY <2>1 DEF TcpTypes
    <2> QED BY <2>1, <2>2
  <1> QED BY <1>3, <1>5, <1>6, <1>7 DEF TcpWord

\* A step of one connection leaves the others what they are.
TcpOthers(h) ==
    \A g \in Handles \ {h} :
        /\ tcpTask'[g] = tcpTask[g] /\ buffered'[g] = buffered[g] /\ TcpWord(g)' = TcpWord(g)
        /\ (g \in unreported') <=> (g \in unreported)
        /\ (g \in pending') <=> (g \in pending)
        /\ (g \in connections') <=> (g \in connections)
        /\ (g \in closing') <=> (g \in closing)

TcpNextStage(h) ==
    TcpStage(tcpTask'[h], h \in unreported', h \in pending', h \in connections', h \in closing',
             TcpWord(h)', buffered'[h])

LEMMA TcpLives ==
  ASSUME TcpSound, NEW h \in Handles, TcpOthers(h), TcpNextStage(h), TcpTypes'
  PROVE  TcpSound'
  <1>1. ASSUME NEW g \in Handles PROVE TcpNextStage(g)
    <2>1. CASE g = h
      BY <2>1
    <2>2. CASE g # h
      <3> DEFINE t == tcpTask[g]
                 b == buffered[g]
                 m == TcpWord(g)
      <3>1. TcpStage(t, g \in unreported, g \in pending, g \in connections, g \in closing, m, b)
        BY DEF TcpSound, TcpLife
      <3>2. /\ tcpTask'[g] = t /\ buffered'[g] = b /\ TcpWord(g)' = m
            /\ (g \in unreported') <=> (g \in unreported)
            /\ (g \in pending') <=> (g \in pending)
            /\ (g \in connections') <=> (g \in connections)
            /\ (g \in closing') <=> (g \in closing)
        BY <2>2 DEF TcpOthers
      <3> HIDE DEF t, b, m
      <3> QED BY <3>1, <3>2 DEF TcpStage, TcpNextStage
    <2> QED BY <2>1, <2>2
  <1> QED BY <1>1 DEF TcpSound, TcpLife, TcpNextStage

\* What is known of a connection before a step.
LEMMA TcpKnows ==
  ASSUME TcpSound, NEW h \in Handles
  PROVE  /\ TcpTypes
         /\ TcpStage(tcpTask[h], h \in unreported, h \in pending, h \in connections, h \in closing,
                     TcpWord(h), buffered[h])
  BY DEF TcpSound, TcpLife

LEMMA TcpWordStays == inbox' = inbox => \A g : TcpWord(g)' = TcpWord(g)
  BY DEF TcpWord, TcpPost

LEMMA TcpConnectKeeps ==
  ASSUME TcpLimits, TcpSound, NEW h \in Handles, Tcp!Connect(h) PROVE TcpSound'
  <1>1. TcpTypes'
    BY DEF TcpSound, TcpTypes, Tcp!Connect, Tcp!buffers
  <1>2. TcpOthers(h)
    BY TcpWordStays DEF TcpSound, TcpTypes, TcpOthers, Tcp!Connect, Tcp!buffers
  <1>3. TcpNextStage(h)
    BY TcpKnows, TcpWordStays DEF TcpTypes, TcpStage, TcpNextStage, Tcp!Connect, Tcp!buffers
  <1> QED BY <1>1, <1>2, <1>3, TcpLives

LEMMA TcpConnectedKeeps ==
  ASSUME TcpLimits, TcpSound, NEW h \in Handles, Tcp!Connected(h) PROVE TcpSound'
  <1>0. /\ buffered' = buffered /\ reads' = reads /\ pending' = pending /\ connections' = connections
        /\ closing' = closing /\ tcpTask[h] = "connecting"
    BY DEF Tcp!Connected, Tcp!owned, Tcp!buffers
  <1>1. CASE inbox' = inbox /\ tcpTask' = [tcpTask EXCEPT ![h] = "reading"]
             /\ unreported' = unreported \cup {h}
    <2>1. TcpTypes'
      BY <1>0, <1>1 DEF TcpSound, TcpTypes
    <2>2. TcpOthers(h)
      BY <1>0, <1>1, TcpWordStays DEF TcpSound, TcpTypes, TcpOthers
    <2>3. TcpNextStage(h)
      BY <1>0, <1>1, TcpKnows, TcpWordStays DEF TcpTypes, TcpStage, TcpNextStage
    <2> QED BY <2>1, <2>2, <2>3, TcpLives
  <1>2. CASE inbox' = Append(inbox, [what |-> "failed", handle |-> h]) /\ unreported' = unreported
             /\ tcpTask' = [tcpTask EXCEPT ![h] = "ended"]
    <2>0. TcpTypes /\ "failed" \notin TcpWord(h) /\ "failed" \in TcpKinds
      BY <1>0, TcpKnows DEF TcpStage, TcpKinds
    <2>4. /\ inbox' \in Seq(TcpMessages) /\ \A i, j \in DOMAIN inbox' : inbox'[i] = inbox'[j] => i = j
          /\ TcpWord(h)' = TcpWord(h) \cup {"failed"}
          /\ \A g \in Handles : g # h => TcpWord(g)' = TcpWord(g)
      BY ONLY <1>2, <2>0, h \in Handles, TcpPosts
    <2>1. TcpTypes'
      BY <1>0, <1>2, <2>4 DEF TcpSound, TcpTypes
    <2>2. TcpOthers(h)
      BY <1>0, <1>2, <2>4 DEF TcpSound, TcpTypes, TcpOthers
    <2>3. TcpNextStage(h)
      BY <1>0, <1>2, <2>4, TcpKnows DEF TcpTypes, TcpStage, TcpNextStage
    <2> QED BY <2>1, <2>2, <2>3, TcpLives
  <1> QED BY <1>1, <1>2 DEF Tcp!Connected

LEMMA TcpReportKeeps ==
  ASSUME TcpLimits, TcpSound, NEW h \in Handles, Tcp!Report(h) PROVE TcpSound'
  <1>0. /\ buffered' = buffered /\ reads' = reads /\ pending' = pending /\ connections' = connections
        /\ closing' = closing /\ tcpTask' = tcpTask /\ h \in unreported
        /\ unreported' = unreported \ {h}
        /\ inbox' = Append(inbox, [what |-> "connected", handle |-> h])
    BY DEF Tcp!Report, Tcp!owned, Tcp!buffers
  <1>1. TcpTypes /\ "connected" \notin TcpWord(h) /\ "connected" \in TcpKinds
    BY <1>0, TcpKnows DEF TcpStage, TcpKinds
  <1>2. /\ inbox' \in Seq(TcpMessages) /\ \A i, j \in DOMAIN inbox' : inbox'[i] = inbox'[j] => i = j
        /\ TcpWord(h)' = TcpWord(h) \cup {"connected"}
        /\ \A g \in Handles : g # h => TcpWord(g)' = TcpWord(g)
    BY ONLY <1>0, <1>1, h \in Handles, TcpPosts
  <1>3. TcpTypes'
    BY <1>0, <1>2 DEF TcpSound, TcpTypes
  <1>4. TcpOthers(h)
    BY <1>0, <1>2 DEF TcpSound, TcpTypes, TcpOthers
  <1>5. TcpNextStage(h)
    BY <1>0, <1>2, TcpKnows DEF TcpTypes, TcpStage, TcpNextStage
  <1> QED BY <1>3, <1>4, <1>5, TcpLives

LEMMA TcpAcceptedKeeps ==
  ASSUME TcpLimits, TcpSound, NEW h \in Handles, Tcp!Accepted(h) PROVE TcpSound'
  <1>0. /\ buffered' = buffered /\ reads' = reads /\ pending' = pending /\ closing' = closing
        /\ unreported' = unreported /\ inbox' = inbox /\ tcpTask[h] = "none"
        /\ \/ tcpTask' = [tcpTask EXCEPT ![h] = "reading"] /\ connections' = connections \cup {h}
           \/ tcpTask' = [tcpTask EXCEPT ![h] = "ended"] /\ connections' = connections
    BY DEF Tcp!Accepted, Tcp!ReadsIf, Tcp!buffers
  <1>1. TcpTypes'
    BY <1>0 DEF TcpSound, TcpTypes
  <1>2. TcpOthers(h)
    BY <1>0, TcpWordStays DEF TcpSound, TcpTypes, TcpOthers
  <1>3. TcpNextStage(h)
    BY <1>0, TcpKnows, TcpWordStays DEF TcpTypes, TcpStage, TcpNextStage
  <1> QED BY <1>1, <1>2, <1>3, TcpLives

LEMMA TcpReceiveKeeps ==
  ASSUME TcpLimits, TcpSound, NEW h \in Handles, tcpTrouble = {}, Tcp!Receive(h) PROVE TcpSound'
  <1>0. /\ pending' = pending /\ closing' = closing /\ connections' = connections
        /\ unreported' = unreported /\ inbox' = inbox /\ tcpTask' = tcpTask
        /\ tcpTask[h] = "reading" /\ h \notin closing
        /\ reads < MaxReads /\ reads' = reads + 1
        /\ buffered' = [buffered EXCEPT ![h] = @ + 1]
    BY DEF Tcp!Receive, Tcp!owned
  <1>1. TcpTypes'
    <2>0. TcpTypes /\ reads \in Nat /\ reads' \in 0..MaxReads
      <3>1. MaxReads \in Nat
        BY DEF TcpLimits
      <3> QED BY <1>0, <3>1 DEF TcpSound, TcpTypes
    <2>1. /\ TcpTypes /\ reads \in Nat /\ reads' \in 0..MaxReads /\ buffered[h] + 1 \in Nat
          /\ buffered' \in [Handles -> Nat]
      BY <1>0, <2>0 DEF TcpTypes
    <2>2. ASSUME NEW g \in Handles PROVE buffered'[g] <= reads'
      <3>1. buffered[g] \in Nat /\ buffered[g] <= reads
        BY <2>1 DEF TcpTypes
      <3>2. buffered'[g] = IF g = h THEN buffered[g] + 1 ELSE buffered[g]
        BY <1>0, <2>1 DEF TcpTypes
      <3> QED BY <1>0, <2>1, <3>1, <3>2
    <2> QED BY <1>0, <2>1, <2>2 DEF TcpTypes
  <1>2. TcpOthers(h)
    BY <1>0, TcpWordStays DEF TcpSound, TcpTypes, TcpOthers
  <1>3. TcpNextStage(h)
    BY <1>0, TcpKnows, TcpWordStays DEF TcpTypes, TcpStage, TcpNextStage
  <1> QED BY <1>1, <1>2, <1>3, TcpLives

LEMMA TcpPeerClosesKeeps ==
  ASSUME TcpLimits, TcpSound, NEW h \in Handles, tcpTrouble = {}, Tcp!PeerCloses(h) PROVE TcpSound'
  <1>0. /\ pending' = pending /\ closing' = closing /\ connections' = connections
        /\ unreported' = unreported /\ buffered' = buffered /\ reads' = reads
        /\ tcpTask[h] = "reading" /\ h \notin closing /\ h \notin pending
        /\ tcpTask' = [tcpTask EXCEPT ![h] = "ended"]
        /\ inbox' = Append(inbox, [what |-> "disconnected", handle |-> h])
    BY DEF Tcp!PeerCloses, Tcp!owned, Tcp!buffers
  <1>1. TcpTypes /\ "disconnected" \notin TcpWord(h) /\ "disconnected" \in TcpKinds
    BY <1>0, TcpKnows DEF TcpStage, TcpKinds
  <1>2. /\ inbox' \in Seq(TcpMessages) /\ \A i, j \in DOMAIN inbox' : inbox'[i] = inbox'[j] => i = j
        /\ TcpWord(h)' = TcpWord(h) \cup {"disconnected"}
        /\ \A g \in Handles : g # h => TcpWord(g)' = TcpWord(g)
    BY ONLY <1>0, <1>1, h \in Handles, TcpPosts
  <1>3. TcpTypes'
    BY <1>0, <1>2 DEF TcpSound, TcpTypes
  <1>4. TcpOthers(h)
    BY <1>0, <1>2 DEF TcpSound, TcpTypes, TcpOthers
  <1>5. TcpNextStage(h)
    BY <1>0, <1>2, TcpKnows DEF TcpTypes, TcpStage, TcpNextStage
  <1> QED BY <1>3, <1>4, <1>5, TcpLives

LEMMA TcpSeesCloseKeeps ==
  ASSUME TcpLimits, TcpSound, NEW h \in Handles, Tcp!SeesClose(h) PROVE TcpSound'
  <1>0. /\ pending' = pending /\ closing' = closing /\ connections' = connections
        /\ unreported' = unreported /\ buffered' = buffered /\ reads' = reads /\ inbox' = inbox
        /\ tcpTask[h] = "reading" /\ h \in closing
        /\ tcpTask' = [tcpTask EXCEPT ![h] = "ended"]
    BY DEF Tcp!SeesClose, Tcp!owned, Tcp!buffers
  <1>1. TcpTypes'
    BY <1>0 DEF TcpSound, TcpTypes
  <1>2. TcpOthers(h)
    BY <1>0, TcpWordStays DEF TcpSound, TcpTypes, TcpOthers
  <1>3. TcpNextStage(h)
    BY <1>0, TcpKnows, TcpWordStays DEF TcpTypes, TcpStage, TcpNextStage
  <1> QED BY <1>1, <1>2, <1>3, TcpLives

LEMMA TcpOnConnectedKeeps ==
  ASSUME TcpLimits, TcpSound, NEW h \in Handles, Tcp!OnConnected(h) PROVE TcpSound'
  <1>0. /\ buffered' = buffered /\ reads' = reads /\ closing' = closing /\ tcpTask' = tcpTask
        /\ unreported' = unreported /\ Tcp!Got("connected", h)
        /\ pending' = pending \ {h} /\ connections' = connections \cup {h}
    BY DEF Tcp!OnConnected, Tcp!buffers
  <1>1. TcpTypes /\ "connected" \in TcpKinds
    BY TcpKnows DEF TcpKinds
  <1>2. /\ inbox' \in Seq(TcpMessages) /\ \A i, j \in DOMAIN inbox' : inbox'[i] = inbox'[j] => i = j
        /\ "connected" \in TcpWord(h) /\ TcpWord(h)' = TcpWord(h) \ {"connected"}
        /\ \A g \in Handles : g # h => TcpWord(g)' = TcpWord(g)
    BY ONLY <1>0, <1>1, h \in Handles, TcpGets
  <1>3. TcpTypes'
    BY <1>0, <1>2 DEF TcpSound, TcpTypes
  <1>4. TcpOthers(h)
    BY <1>0, <1>2 DEF TcpSound, TcpTypes, TcpOthers
  <1>5. TcpNextStage(h)
    BY <1>0, <1>2, TcpKnows DEF TcpTypes, TcpStage, TcpNextStage
  <1> QED BY <1>3, <1>4, <1>5, TcpLives

LEMMA TcpOnFailedKeeps ==
  ASSUME TcpLimits, TcpSound, NEW h \in Handles, Tcp!OnFailed(h) PROVE TcpSound'
  <1>0. /\ buffered' = buffered /\ reads' = reads /\ closing' = closing /\ tcpTask' = tcpTask
        /\ unreported' = unreported /\ connections' = connections
        /\ pending' = pending \ {h} /\ Tcp!Got("failed", h)
    BY DEF Tcp!OnFailed, Tcp!buffers
  <1>1. TcpTypes /\ "failed" \in TcpKinds
    BY TcpKnows DEF TcpKinds
  <1>2. /\ inbox' \in Seq(TcpMessages) /\ \A i, j \in DOMAIN inbox' : inbox'[i] = inbox'[j] => i = j
        /\ "failed" \in TcpWord(h) /\ TcpWord(h)' = TcpWord(h) \ {"failed"}
        /\ \A g \in Handles : g # h => TcpWord(g)' = TcpWord(g)
    BY ONLY <1>0, <1>1, h \in Handles, TcpGets
  <1>3. TcpTypes'
    BY <1>0, <1>2 DEF TcpSound, TcpTypes
  <1>4. TcpOthers(h)
    BY <1>0, <1>2 DEF TcpSound, TcpTypes, TcpOthers
  <1>5. TcpNextStage(h)
    BY <1>0, <1>2, TcpKnows DEF TcpTypes, TcpStage, TcpNextStage
  <1> QED BY <1>3, <1>4, <1>5, TcpLives

\* What close_handle does to the life of a connection.
TcpForgets(h) ==
    /\ connections' = connections \ {h} /\ buffered' = [buffered EXCEPT ![h] = 0]
    /\ closing' = IF h \in connections THEN closing \cup {h} ELSE closing

LEMMA TcpForgetKeeps ==
  ASSUME TcpSound, NEW h \in Handles, TcpForgets(h), reads' = reads, pending' = pending,
         unreported' = unreported, tcpTask' = tcpTask,
         inbox' \in Seq(TcpMessages), \A i, j \in DOMAIN inbox' : inbox'[i] = inbox'[j] => i = j,
         \A g \in Handles : g # h => TcpWord(g)' = TcpWord(g),
         \/ TcpWord(h)' = TcpWord(h) /\ h \in connections
         \/ TcpWord(h)' = TcpWord(h) \ {"disconnected"} /\ "disconnected" \in TcpWord(h)
  PROVE  TcpSound'
  <1>1. TcpTypes'
    <2>1. TcpTypes /\ 0 \in Nat /\ reads \in Nat /\ buffered' \in [Handles -> Nat]
      BY DEF TcpSound, TcpTypes, TcpForgets
    <2>2. \A g \in Handles : buffered'[g] = IF g = h THEN 0 ELSE buffered[g]
      BY <2>1 DEF TcpForgets, TcpTypes
    <2>3. ASSUME NEW g \in Handles PROVE buffered'[g] <= reads'
      <3>1. buffered[g] \in Nat /\ buffered[g] <= reads
        BY <2>1 DEF TcpTypes
      <3> QED BY <2>1, <2>2, <3>1
    <2> QED BY <2>1, <2>3 DEF TcpForgets, TcpTypes
  <1>2. TcpOthers(h)
    BY DEF TcpSound, TcpTypes, TcpOthers, TcpForgets
  <1>3. TcpNextStage(h)
    BY TcpKnows DEF TcpTypes, TcpStage, TcpNextStage, TcpForgets
  <1> QED BY <1>1, <1>2, <1>3, TcpLives

LEMMA TcpOnDisconnectedKeeps ==
  ASSUME TcpLimits, TcpSound, NEW h \in Handles, Tcp!OnDisconnected(h) PROVE TcpSound'
  <1>0. /\ reads' = reads /\ tcpTask' = tcpTask /\ pending' = pending
        /\ unreported' = unreported /\ Tcp!Got("disconnected", h) /\ TcpForgets(h)
    BY DEF Tcp!OnDisconnected, Tcp!Forget, TcpForgets
  <1>1. TcpTypes /\ "disconnected" \in TcpKinds
    BY TcpKnows DEF TcpKinds
  <1>2. /\ inbox' \in Seq(TcpMessages) /\ \A i, j \in DOMAIN inbox' : inbox'[i] = inbox'[j] => i = j
        /\ "disconnected" \in TcpWord(h) /\ TcpWord(h)' = TcpWord(h) \ {"disconnected"}
        /\ \A g \in Handles : g # h => TcpWord(g)' = TcpWord(g)
    BY ONLY <1>0, <1>1, h \in Handles, TcpGets
  <1> QED BY ONLY TcpSound, h \in Handles, <1>0, <1>2, TcpForgetKeeps

LEMMA TcpCloseKeeps ==
  ASSUME TcpLimits, TcpSound, NEW h \in Handles, Tcp!Close(h) PROVE TcpSound'
  <1>0. /\ reads' = reads /\ tcpTask' = tcpTask /\ pending' = pending
        /\ unreported' = unreported /\ inbox' = inbox /\ TcpForgets(h) /\ h \in connections
    BY DEF Tcp!Close, Tcp!Forget, TcpForgets
  <1>1. /\ inbox' \in Seq(TcpMessages) /\ \A i, j \in DOMAIN inbox' : inbox'[i] = inbox'[j] => i = j
        /\ TcpWord(h)' = TcpWord(h)
        /\ \A g \in Handles : g # h => TcpWord(g)' = TcpWord(g)
    BY <1>0, TcpWordStays DEF TcpSound, TcpTypes
  <1> QED BY ONLY TcpSound, h \in Handles, <1>0, <1>1, TcpForgetKeeps

LEMMA TcpRecvKeeps ==
  ASSUME TcpLimits, TcpSound, NEW h \in Handles, Tcp!Recv(h) PROVE TcpSound'
  <1>0. /\ reads' = reads /\ tcpTask' = tcpTask /\ pending' = pending /\ connections' = connections
        /\ unreported' = unreported /\ inbox' = inbox /\ closing' = closing /\ h \in connections
        /\ buffered' = [buffered EXCEPT ![h] = 0]
    BY DEF Tcp!Recv, Tcp!owned
  <1>1. TcpTypes'
    <2>1. TcpTypes /\ 0 \in Nat /\ reads \in Nat /\ buffered' \in [Handles -> Nat]
      BY <1>0 DEF TcpSound, TcpTypes
    <2>2. \A g \in Handles : buffered'[g] = IF g = h THEN 0 ELSE buffered[g]
      BY <1>0, <2>1 DEF TcpTypes
    <2>3. \A g \in Handles : buffered'[g] <= reads'
      BY <1>0, <2>1, <2>2 DEF TcpTypes
    <2> QED BY <1>0, <2>1, <2>3 DEF TcpTypes
  <1>2. TcpOthers(h)
    BY <1>0, TcpWordStays DEF TcpSound, TcpTypes, TcpOthers
  <1>3. TcpNextStage(h)
    BY <1>0, TcpKnows, TcpWordStays DEF TcpTypes, TcpStage, TcpNextStage
  <1> QED BY <1>1, <1>2, <1>3, TcpLives

\* The callbacks do not touch it.
LEMMA TcpIdleKeeps ==
  ASSUME TcpSound, UNCHANGED <<tcpTask, unreported, inbox, pending, connections, closing, buffered, reads>>
  PROVE  TcpSound'
  <1>1. TcpTypes'
    BY DEF TcpSound, TcpTypes
  <1>2. ASSUME NEW g \in Handles PROVE TcpNextStage(g)
    BY TcpWordStays DEF TcpSound, TcpLife, TcpNextStage
  <1> QED BY <1>1, <1>2 DEF TcpSound, TcpLife, TcpNextStage

LEMMA TcpSoundStep ==
  ASSUME TcpLimits, TcpSound, tcpTrouble = {}, [Tcp!Next]_(Tcp!vars) PROVE TcpSound'
  <1>1. ASSUME NEW h \in Handles, NEW w \in Workers, Tcp!Claim(w, h) PROVE TcpSound'
    BY <1>1, TcpIdleKeeps DEF Tcp!Claim, Tcp!owned, Tcp!buffers
  <1>2. ASSUME NEW w \in Workers, Tcp!CallbackEnds(w) PROVE TcpSound'
    BY <1>2, TcpIdleKeeps DEF Tcp!CallbackEnds, Tcp!owned, Tcp!buffers
  <1>3. ASSUME UNCHANGED Tcp!vars PROVE TcpSound'
    BY <1>3, TcpIdleKeeps DEF Tcp!vars
  <1> QED BY ONLY TcpLimits, TcpSound, tcpTrouble = {}, [Tcp!Next]_(Tcp!vars), <1>1, <1>2, <1>3,
             TcpConnectKeeps, TcpConnectedKeeps, TcpReportKeeps, TcpAcceptedKeeps, TcpReceiveKeeps,
             TcpPeerClosesKeeps, TcpSeesCloseKeeps, TcpOnConnectedKeeps, TcpOnFailedKeeps,
             TcpOnDisconnectedKeeps, TcpCloseKeeps, TcpRecvKeeps DEF Tcp!Next

LEMMA TcpSoundInit == ASSUME TcpLimits PROVE Tcp!Init => TcpSound
  <1> SUFFICES ASSUME Tcp!Init PROVE TcpSound
    OBVIOUS
  <1>1. TcpTypes
    <2>1. inbox \in Seq(TcpMessages) /\ \A i, j \in DOMAIN inbox : inbox[i] = inbox[j] => i = j
      BY DEF Tcp!Init
    <2>2. reads = 0 /\ 0 \in 0..MaxReads /\ 0 \in Nat
      <3>1. MaxReads \in Nat
        BY DEF TcpLimits
      <3> QED BY <3>1 DEF Tcp!Init
    <2>3. buffered \in [Handles -> Nat] /\ \A h \in Handles : buffered[h] <= reads
      BY <2>2 DEF Tcp!Init
    <2> QED BY <2>1, <2>2, <2>3 DEF Tcp!Init, TcpTypes
  <1>2. \A h : TcpWord(h) = {}
    BY DEF Tcp!Init, TcpWord, TcpPost
  <1>3. TcpLife
    BY <1>2 DEF Tcp!Init, TcpLife, TcpStage
  <1> QED BY <1>1, <1>3 DEF TcpSound

-----------------------------------------------------------------------------
\* What is counted is what is there.
TcpCounted ==
    /\ tcpSlots = Cardinality(pending) + Cardinality(connections)
    /\ bytes = Cardinality(Tcp!Kept)

TcpReads == Handles \X (1..MaxReads)

LEMMA TcpFinite ==
  ASSUME TcpLimits PROVE IsFiniteSet(TcpReads) /\ \A S \in SUBSET Handles : IsFiniteSet(S)
  <1>1. IsFiniteSet(Handles) /\ MaxReads \in Nat
    BY DEF TcpLimits
  <1>2. IsFiniteSet(1..MaxReads)
    BY <1>1, FS_Interval
  <1>3. IsFiniteSet(TcpReads)
    BY <1>1, <1>2, FS_Product DEF TcpReads
  <1> QED BY <1>1, <1>3, FS_Subset

\* One read more of a connection, or none left of it.
LEMMA TcpKeptMore ==
  ASSUME TcpLimits, TcpTypes, NEW h \in Handles, reads < MaxReads,
         buffered' = [buffered EXCEPT ![h] = @ + 1]
  PROVE  Cardinality(Tcp!Kept') = Cardinality(Tcp!Kept) + 1
  <1> DEFINE K == Tcp!Kept
             q == <<h, buffered[h] + 1>>
  <1>1. MaxReads \in Nat
    BY DEF TcpLimits
  <1>2. /\ \A g \in Handles : buffered[g] \in Nat /\ buffered[g] <= reads
        /\ \A g \in Handles : buffered'[g] = IF g = h THEN buffered[g] + 1 ELSE buffered[g]
        /\ reads \in Nat /\ buffered[h] + 1 \in 1..MaxReads
    BY <1>1 DEF TcpTypes
  <1>3. K \in SUBSET TcpReads
    BY DEF Tcp!Kept, TcpReads
  <1>4. IsFiniteSet(K)
    BY <1>3, TcpFinite, FS_Subset
  <1>5. q \notin K
    BY <1>2 DEF Tcp!Kept
  <1>6. Tcp!Kept' = K \cup {q}
    <2>1. ASSUME NEW g \in Handles, NEW i \in 1..MaxReads
          PROVE  i <= buffered'[g] <=> i <= buffered[g] \/ (g = h /\ i = buffered[h] + 1)
      <3>1. i \in Nat /\ buffered[g] \in Nat
        BY <1>1, <1>2
      <3> QED BY <1>2, <3>1
    <2>2. \A p : p \in Tcp!Kept' <=>
             \E g \in Handles : \E i \in 1..MaxReads : p = <<g, i>> /\ i <= buffered'[g]
      BY DEF Tcp!Kept
    <2>3. \A p : p \in Tcp!Kept <=>
             \E g \in Handles : \E i \in 1..MaxReads : p = <<g, i>> /\ i <= buffered[g]
      BY DEF Tcp!Kept
    <2> QED BY <1>2, <2>1, <2>2, <2>3
  <1> HIDE DEF K, q
  <1> QED BY <1>4, <1>5, <1>6, FS_AddElement DEF K

LEMMA TcpKeptNone ==
  ASSUME TcpLimits, TcpTypes, NEW h \in Handles, buffered' = [buffered EXCEPT ![h] = 0]
  PROVE  Cardinality(Tcp!Kept') = Cardinality(Tcp!Kept) - buffered[h]
  <1> DEFINE K == Tcp!Kept
             n == buffered[h]
             D == {h} \X (1..n)
  <1>1. MaxReads \in Nat
    BY DEF TcpLimits
  <1>2. /\ \A g \in Handles : buffered[g] \in Nat /\ buffered[g] <= MaxReads
        /\ \A g \in Handles : buffered'[g] = IF g = h THEN 0 ELSE buffered[g]
        /\ n \in Nat /\ n <= MaxReads
    BY <1>1 DEF TcpTypes
  <1>3. K \in SUBSET TcpReads /\ Tcp!Kept' \in SUBSET TcpReads
    BY DEF Tcp!Kept, TcpReads
  <1>4. IsFiniteSet(K) /\ IsFiniteSet(Tcp!Kept')
    BY <1>3, TcpFinite, FS_Subset
  <1>5. IsFiniteSet(D) /\ Cardinality(D) = n
    <2>1. IsFiniteSet({h}) /\ Cardinality({h}) = 1
      BY FS_Singleton
    <2>2. IsFiniteSet(1..n) /\ Cardinality(1..n) = n
      <3>1. 1 \in Int /\ n \in Int /\ n \in Nat
        BY <1>2
      <3> HIDE DEF n
      <3>2. IsFiniteSet(1..n) /\ Cardinality(1..n) = IF 1 > n THEN 0 ELSE n - 1 + 1
        BY <3>1, FS_Interval
      <3> QED BY <3>1, <3>2
    <2>3. IsFiniteSet(D) /\ Cardinality(D) = 1 * n
      BY <2>1, <2>2, FS_Product
    <2> QED BY <1>2, <2>3
  <1>6. K = Tcp!Kept' \cup D /\ Tcp!Kept' \cap D = {}
    <2>1. \A p : p \in Tcp!Kept' <=>
             \E g \in Handles : \E i \in 1..MaxReads : p = <<g, i>> /\ i <= buffered'[g]
      BY DEF Tcp!Kept
    <2>2. \A p : p \in Tcp!Kept <=>
             \E g \in Handles : \E i \in 1..MaxReads : p = <<g, i>> /\ i <= buffered[g]
      BY DEF Tcp!Kept
    <2>3. \A p : p \in D <=> \E i \in 1..n : p = <<h, i>>
      OBVIOUS
    <2>4. ASSUME NEW g \in Handles, NEW i \in 1..MaxReads
          PROVE  (i <= buffered[g] <=> i <= buffered'[g] \/ (g = h /\ i \in 1..n))
                 /\ ~(i <= buffered'[g] /\ g = h)
      <3>1. i \in Nat /\ i >= 1 /\ buffered[g] \in Nat
        BY <1>1, <1>2
      <3> QED BY <1>2, <3>1
    <2>5. 1..n \subseteq 1..MaxReads
      BY <1>1, <1>2
    <2> HIDE DEF n, D
    <2>6. K = Tcp!Kept' \cup D
      BY <2>1, <2>2, <2>3, <2>4, <2>5
    <2>7. Tcp!Kept' \cap D = {}
      BY <2>1, <2>3, <2>4, <2>5
    <2> QED BY <2>6, <2>7
  <1> HIDE DEF K, n, D
  <1>7. Cardinality(K) = Cardinality(Tcp!Kept') + n - Cardinality(Tcp!Kept' \cap D)
    BY <1>4, <1>5, <1>6, FS_Union
  <1>8. Cardinality(K) \in Nat /\ Cardinality(Tcp!Kept') \in Nat /\ n \in Nat
    BY <1>2, <1>4, FS_CardinalityType
  <1>9. Cardinality(Tcp!Kept') = Cardinality(K) - n
    <2>1. Cardinality(Tcp!Kept' \cap D) = 0
      BY <1>6, FS_EmptySet
    <2> QED BY <1>7, <1>8, <2>1
  <1> QED BY <1>9 DEF K, n

\* A connection that comes or goes, in either of the two sets.
LEMMA TcpCardinals ==
  ASSUME TcpLimits, NEW S \in SUBSET Handles, NEW h \in Handles
  PROVE  /\ Cardinality(S) \in Nat
         /\ Cardinality(S \cup {h}) = IF h \in S THEN Cardinality(S) ELSE Cardinality(S) + 1
         /\ Cardinality(S \ {h}) = IF h \in S THEN Cardinality(S) - 1 ELSE Cardinality(S)
  BY TcpFinite, FS_CardinalityType, FS_AddElement, FS_RemoveElement

LEMMA TcpKeptStays == buffered' = buffered => Tcp!Kept' = Tcp!Kept
  BY DEF Tcp!Kept

LEMMA TcpForgetCounted ==
  ASSUME TcpLimits, TcpSound, TcpCounted, NEW h \in Handles, Tcp!Forget(h), pending' = pending,
         h \in connections \/ buffered[h] = 0
  PROVE  TcpCounted'
  <1>1. TcpTypes /\ connections \in SUBSET Handles /\ pending \in SUBSET Handles /\ buffered[h] \in Nat
    BY DEF TcpSound, TcpTypes
  <1>2. Cardinality(Tcp!Kept') = Cardinality(Tcp!Kept) - buffered[h]
    BY <1>1, TcpKeptNone DEF Tcp!Forget
  <1>3. IsFiniteSet(Tcp!Kept)
    BY TcpFinite, FS_Subset DEF Tcp!Kept, TcpReads
  <1>4. /\ Cardinality(Tcp!Kept) \in Nat /\ Cardinality(pending) \in Nat
        /\ Cardinality(connections) \in Nat
        /\ Cardinality(connections \ {h}) =
              IF h \in connections THEN Cardinality(connections) - 1 ELSE Cardinality(connections)
    BY <1>1, <1>3, TcpCardinals, FS_CardinalityType
  <1>5. /\ tcpSlots = Cardinality(pending) + Cardinality(connections)
        /\ bytes = Cardinality(Tcp!Kept)
    BY DEF TcpCounted
  <1>6. /\ connections' = connections \ {h}
        /\ tcpSlots' = (IF h \in connections THEN tcpSlots - 1 ELSE tcpSlots)
        /\ bytes' = (IF h \in connections THEN bytes - buffered[h] ELSE bytes)
    BY DEF Tcp!Forget
  <1>7. tcpSlots' = Cardinality(pending) + Cardinality(connections \ {h})
    BY <1>4, <1>5, <1>6
  <1>8. bytes' = Cardinality(Tcp!Kept')
    BY <1>1, <1>2, <1>4, <1>5, <1>6
  <1> QED BY <1>6, <1>7, <1>8 DEF TcpCounted

LEMMA TcpCountedStays ==
  ASSUME TcpCounted, UNCHANGED <<pending, connections, tcpSlots, buffered, bytes>> PROVE TcpCounted'
  BY TcpKeptStays DEF TcpCounted

LEMMA TcpCountedStep ==
  ASSUME TcpLimits, TcpSound, TcpCounted, [Tcp!Next]_(Tcp!vars) PROVE TcpCounted'
  <1>0. /\ TcpTypes /\ connections \in SUBSET Handles /\ pending \in SUBSET Handles
        /\ tcpSlots = Cardinality(pending) + Cardinality(connections)
        /\ bytes = Cardinality(Tcp!Kept)
    BY DEF TcpSound, TcpTypes, TcpCounted
  <1>00. Cardinality(Tcp!Kept) \in Nat
    BY TcpFinite, FS_Subset, FS_CardinalityType DEF Tcp!Kept, TcpReads
  <1>1. ASSUME NEW h \in Handles, Tcp!Connect(h) PROVE TcpCounted'
    <2>1. h \notin pending
      BY <1>1, TcpKnows DEF TcpStage, Tcp!Connect
    <2>2. /\ pending' = pending \cup {h} /\ tcpSlots' = tcpSlots + 1 /\ connections' = connections
          /\ buffered' = buffered /\ bytes' = bytes
      BY <1>1 DEF Tcp!Connect, Tcp!buffers
    <2>3. tcpSlots' = Cardinality(pending \cup {h}) + Cardinality(connections)
      <3>1. /\ Cardinality(pending) \in Nat /\ Cardinality(connections) \in Nat
            /\ Cardinality(pending \cup {h}) = Cardinality(pending) + 1
        BY <1>0, <2>1, TcpCardinals
      <3> QED BY <1>0, <2>2, <3>1
    <2> QED BY <1>0, <2>2, <2>3, TcpKeptStays DEF TcpCounted
  <1>2. ASSUME NEW h \in Handles, Tcp!Accepted(h) PROVE TcpCounted'
    <2>1. h \notin connections
      BY <1>2, TcpKnows DEF TcpStage, Tcp!Accepted
    <2>2. pending' = pending /\ buffered' = buffered /\ bytes' = bytes
      BY <1>2 DEF Tcp!Accepted, Tcp!buffers
    <2>3. CASE connections' = connections \cup {h} /\ tcpSlots' = tcpSlots + 1
      <3>1. tcpSlots' = Cardinality(pending) + Cardinality(connections \cup {h})
        <4>1. /\ Cardinality(pending) \in Nat /\ Cardinality(connections) \in Nat
              /\ Cardinality(connections \cup {h}) = Cardinality(connections) + 1
          BY <1>0, <2>1, TcpCardinals
        <4> QED BY <1>0, <2>3, <4>1
      <3> QED BY <1>0, <2>2, <2>3, <3>1, TcpKeptStays DEF TcpCounted
    <2>4. CASE connections' = connections /\ tcpSlots' = tcpSlots
      BY <2>2, <2>4, TcpCountedStays
    <2> QED BY <1>2, <2>3, <2>4 DEF Tcp!Accepted
  <1>3. ASSUME NEW h \in Handles, Tcp!Receive(h) PROVE TcpCounted'
    <2>1. /\ pending' = pending /\ connections' = connections /\ tcpSlots' = tcpSlots
          /\ bytes' = bytes + 1 /\ reads < MaxReads /\ buffered' = [buffered EXCEPT ![h] = @ + 1]
      BY <1>3 DEF Tcp!Receive, Tcp!owned
    <2>2. Cardinality(Tcp!Kept') = Cardinality(Tcp!Kept) + 1
      BY <1>0, <2>1, TcpKeptMore
    <2> QED BY <1>0, <2>1, <2>2 DEF TcpCounted
  <1>4. ASSUME NEW h \in Handles, Tcp!OnConnected(h) PROVE TcpCounted'
    <2>1. "connected" \in TcpWord(h)
      BY <1>0, <1>4, TcpGets DEF Tcp!OnConnected, TcpKinds
    <2>2. h \in pending /\ h \notin connections
      BY <2>1, TcpKnows DEF TcpStage
    <2>3. /\ pending' = pending \ {h} /\ tcpSlots' = tcpSlots /\ connections' = connections \cup {h}
          /\ buffered' = buffered /\ bytes' = bytes
      BY <1>4 DEF Tcp!OnConnected, Tcp!buffers
    <2>4. tcpSlots' = Cardinality(pending \ {h}) + Cardinality(connections \cup {h})
      <3>1. /\ Cardinality(pending) \in Nat /\ Cardinality(connections) \in Nat
            /\ Cardinality(pending \ {h}) = Cardinality(pending) - 1
            /\ Cardinality(connections \cup {h}) = Cardinality(connections) + 1
        BY <1>0, <2>2, TcpCardinals
      <3> QED BY <1>0, <2>3, <3>1
    <2> QED BY <1>0, <2>3, <2>4, TcpKeptStays DEF TcpCounted
  <1>5. ASSUME NEW h \in Handles, Tcp!OnFailed(h) PROVE TcpCounted'
    <2>1. "failed" \in TcpWord(h)
      BY <1>0, <1>5, TcpGets DEF Tcp!OnFailed, TcpKinds
    <2>2. h \in pending
      BY <2>1, TcpKnows DEF TcpStage
    <2>3. /\ pending' = pending \ {h} /\ tcpSlots' = tcpSlots - 1 /\ connections' = connections
          /\ buffered' = buffered /\ bytes' = bytes
      BY <1>5 DEF Tcp!OnFailed, Tcp!buffers
    <2>4. tcpSlots' = Cardinality(pending \ {h}) + Cardinality(connections)
      <3>1. /\ Cardinality(pending) \in Nat /\ Cardinality(connections) \in Nat
            /\ Cardinality(pending \ {h}) = Cardinality(pending) - 1
        BY <1>0, <2>2, TcpCardinals
      <3> QED BY <1>0, <2>3, <3>1
    <2> QED BY <1>0, <2>3, <2>4, TcpKeptStays DEF TcpCounted
  <1>6. ASSUME NEW h \in Handles, Tcp!OnDisconnected(h) PROVE TcpCounted'
    <2>1. "disconnected" \in TcpWord(h)
      BY <1>0, <1>6, TcpGets DEF Tcp!OnDisconnected, TcpKinds
    <2>2. h \in connections \/ buffered[h] = 0
      BY <2>1, TcpKnows DEF TcpStage
    <2>3. Tcp!Forget(h) /\ pending' = pending
      BY <1>6 DEF Tcp!OnDisconnected
    <2> QED BY <2>2, <2>3, TcpForgetCounted
  <1>7. ASSUME NEW h \in Handles, Tcp!Close(h) PROVE TcpCounted'
    <2>1. h \in connections /\ Tcp!Forget(h) /\ pending' = pending
      BY <1>7 DEF Tcp!Close
    <2> QED BY <2>1, TcpForgetCounted
  <1>8. ASSUME NEW h \in Handles, Tcp!Recv(h) PROVE TcpCounted'
    <2>1. /\ pending' = pending /\ connections' = connections /\ tcpSlots' = tcpSlots
          /\ bytes' = bytes - buffered[h] /\ buffered' = [buffered EXCEPT ![h] = 0]
      BY <1>8 DEF Tcp!Recv, Tcp!owned
    <2>2. Cardinality(Tcp!Kept') = Cardinality(Tcp!Kept) - buffered[h]
      BY <1>0, <2>1, TcpKeptNone
    <2> QED BY <1>0, <2>1, <2>2 DEF TcpCounted
  <1>9. ASSUME NEW h \in Handles,
               Tcp!Connected(h) \/ Tcp!Report(h) \/ Tcp!PeerCloses(h) \/ Tcp!SeesClose(h)
        PROVE  TcpCounted'
    BY <1>9, TcpCountedStays
    DEF Tcp!Connected, Tcp!Report, Tcp!PeerCloses, Tcp!SeesClose, Tcp!owned, Tcp!buffers
  <1>10. ASSUME NEW h \in Handles, NEW w \in Workers, Tcp!Claim(w, h) PROVE TcpCounted'
    BY <1>10, TcpCountedStays DEF Tcp!Claim, Tcp!owned, Tcp!buffers
  <1>11. ASSUME NEW w \in Workers, Tcp!CallbackEnds(w) PROVE TcpCounted'
    BY <1>11, TcpCountedStays DEF Tcp!CallbackEnds, Tcp!owned, Tcp!buffers
  <1>12. ASSUME UNCHANGED Tcp!vars PROVE TcpCounted'
    BY <1>12, TcpCountedStays DEF Tcp!vars
  <1> QED BY ONLY [Tcp!Next]_(Tcp!vars), <1>1, <1>2, <1>3, <1>4, <1>5, <1>6, <1>7, <1>8, <1>9, <1>10,
             <1>11, <1>12 DEF Tcp!Next

LEMMA TcpCountedInit == ASSUME TcpLimits PROVE Tcp!Init => TcpCounted
  <1> SUFFICES ASSUME Tcp!Init PROVE TcpCounted
    OBVIOUS
  <1>1. Tcp!Kept = {}
    BY DEF Tcp!Init, Tcp!Kept
  <1>2. Cardinality({}) = 0 /\ 0 + 0 = 0
    BY FS_EmptySet
  <1> QED BY <1>1, <1>2 DEF Tcp!Init, TcpCounted

-----------------------------------------------------------------------------
\* Nothing more will be pushed for a connection that is silent, and no
\* callback begins for one that is over.
TcpSilent(h) ==
    /\ tcpTask[h] = "ended" \/ (tcpTask[h] = "reading" /\ h \in closing)
    /\ "disconnected" \notin TcpWord(h)
TcpOver(h) == box[h] = <<>> /\ TcpSilent(h)

TcpBoxes ==
    /\ box \in [Handles -> Seq(TcpEvents)] /\ active \subseteq Handles /\ gone \subseteq Handles
    /\ gen \in [Handles -> Nat] /\ running \in [Workers -> TcpCalls]
    /\ \A h \in Handles : \A i \in DOMAIN box[h] :
          box[h][i] = "disconnect" => i = Len(box[h]) /\ TcpSilent(h)

\* A callback that no claim stands for any more has no successor.
TcpDelivered ==
    /\ Tcp!Delivery
    /\ \A w \in Workers : \A h \in Handles :
          running[w].handle = h => h \in active \/ TcpOver(h)
    /\ \A h \in gone : TcpOver(h)

LEMMA TcpSilentStays ==
  ASSUME TcpLimits, TcpSound, tcpTrouble = {}, [Tcp!Next]_(Tcp!vars), NEW g \in Handles, TcpSilent(g)
  PROVE  TcpSilent(g)'
  <1>0. TcpTypes
    BY DEF TcpSound
  <1>1. CASE inbox' = inbox /\ tcpTask' = tcpTask /\ closing \subseteq closing'
    BY <1>1, TcpWordStays DEF TcpSilent
  <1>2. ASSUME NEW h \in Handles, Tcp!Connect(h) PROVE TcpSilent(g)'
    BY <1>0, <1>2, TcpWordStays DEF TcpSilent, Tcp!Connect, TcpTypes
  <1>3. ASSUME NEW h \in Handles, Tcp!Connected(h) PROVE TcpSilent(g)'
    <2>1. CASE inbox' = inbox
      BY <1>0, <1>3, <2>1, TcpWordStays DEF TcpSilent, Tcp!Connected, Tcp!owned, TcpTypes
    <2>2. CASE inbox' = Append(inbox, [what |-> "failed", handle |-> h])
      <3>1. "failed" \in TcpKinds /\ "failed" \notin TcpWord(h)
        BY <1>3, TcpKnows DEF TcpStage, TcpKinds, Tcp!Connected
      <3>2. "disconnected" \notin TcpWord(g)'
        BY <1>0, <2>2, <3>1, TcpPosts DEF TcpSilent
      <3> QED BY <1>0, <1>3, <3>2 DEF TcpSilent, Tcp!Connected, Tcp!owned, TcpTypes
    <2> QED BY <1>3, <2>1, <2>2 DEF Tcp!Connected
  <1>4. ASSUME NEW h \in Handles, Tcp!Report(h) PROVE TcpSilent(g)'
    <2>1. "connected" \in TcpKinds /\ "connected" \notin TcpWord(h)
      BY <1>4, TcpKnows DEF TcpStage, TcpKinds, Tcp!Report
    <2>2. "disconnected" \notin TcpWord(g)'
      BY <1>0, <1>4, <2>1, TcpPosts DEF TcpSilent, Tcp!Report
    <2> QED BY <1>4, <2>2 DEF TcpSilent, Tcp!Report, Tcp!owned
  <1>5. ASSUME NEW h \in Handles, Tcp!Accepted(h) PROVE TcpSilent(g)'
    BY <1>0, <1>5, TcpWordStays DEF TcpSilent, Tcp!Accepted, Tcp!ReadsIf, TcpTypes
  <1>6. ASSUME NEW h \in Handles, Tcp!PeerCloses(h) PROVE TcpSilent(g)'
    <2>1. "disconnected" \in TcpKinds /\ "disconnected" \notin TcpWord(h)
      BY <1>6, TcpKnows DEF TcpStage, TcpKinds, Tcp!PeerCloses
    <2>2. g # h
      BY <1>6 DEF TcpSilent, Tcp!PeerCloses
    <2>3. "disconnected" \notin TcpWord(g)'
      BY <1>0, <1>6, <2>1, <2>2, TcpPosts DEF TcpSilent, Tcp!PeerCloses
    <2> QED BY <1>0, <1>6, <2>2, <2>3 DEF TcpSilent, Tcp!PeerCloses, Tcp!owned, TcpTypes
  <1>7. ASSUME NEW h \in Handles, Tcp!SeesClose(h) PROVE TcpSilent(g)'
    BY <1>0, <1>7, TcpWordStays DEF TcpSilent, Tcp!SeesClose, Tcp!owned, TcpTypes
  <1>8. ASSUME NEW h \in Handles, NEW k \in TcpKinds, Tcp!Got(k, h), tcpTask' = tcpTask,
               closing \subseteq closing'
        PROVE  TcpSilent(g)'
    <2>1. "disconnected" \notin TcpWord(g)'
      BY <1>0, <1>8, TcpGets DEF TcpSilent
    <2> QED BY <1>8, <2>1 DEF TcpSilent
  <1>9. ASSUME NEW h \in Handles,
               Tcp!OnConnected(h) \/ Tcp!OnFailed(h) \/ Tcp!OnDisconnected(h)
        PROVE  TcpSilent(g)'
    BY <1>8, <1>9 DEF Tcp!OnConnected, Tcp!OnFailed, Tcp!OnDisconnected, Tcp!Forget, TcpKinds
  <1>10. ASSUME NEW h \in Handles,
                \/ Tcp!Receive(h) \/ Tcp!Close(h) \/ Tcp!Recv(h) \/ \E w \in Workers : Tcp!Claim(w, h)
         PROVE  TcpSilent(g)'
    BY <1>1, <1>10 DEF Tcp!Receive, Tcp!Close, Tcp!Recv, Tcp!Claim, Tcp!Forget, Tcp!owned
  <1>11. ASSUME NEW w \in Workers, Tcp!CallbackEnds(w) PROVE TcpSilent(g)'
    BY <1>1, <1>11 DEF Tcp!CallbackEnds, Tcp!owned
  <1>12. ASSUME UNCHANGED Tcp!vars PROVE TcpSilent(g)'
    BY <1>1, <1>12 DEF Tcp!vars
  <1> QED BY ONLY [Tcp!Next]_(Tcp!vars), <1>2, <1>3, <1>4, <1>5, <1>6, <1>7, <1>9, <1>10, <1>11, <1>12
          DEF Tcp!Next

\* An event may push out one that is not claimed, and comes last.
TcpPushed(h, e) ==
    /\ box' = [g \in Handles |-> box'[g]]
    /\ \A g \in Handles : \E b \in {box[g], Tail(box[g])} :
          /\ b = box[g] \/ box[g] # <<>>
          /\ box'[g] = b \/ (g = h /\ box'[g] = Append(b, e))

LEMMA TcpPushes ==
  ASSUME TcpBoxes, NEW h \in Handles, NEW e \in TcpEvents,
         Tcp!PushLifecycle(h, e) \/ (e = "receive" /\ Tcp!PushReceive(h))
  PROVE  TcpPushed(h, e)
  <1>1. box \in [Handles -> Seq(TcpEvents)]
    BY DEF TcpBoxes
  <1>2. CASE box' = box
    BY <1>1, <1>2 DEF TcpPushed
  <1>3. CASE box' = [box EXCEPT ![h] = Append(@, e)]
    BY <1>1, <1>3 DEF TcpPushed
  <1>4. ASSUME NEW v \in Tcp!Evictable,
               box' = LET b == [box EXCEPT ![v] = Tail(@)] IN [b EXCEPT ![h] = Append(@, e)]
        PROVE  TcpPushed(h, e)
    <2>1. v \in Handles /\ box[v] # <<>>
      BY DEF Tcp!Evictable
    <2>2. box' = [[box EXCEPT ![v] = Tail(@)] EXCEPT ![h] = Append(@, e)]
      BY <1>4
    <2>3. \A g \in Handles : box'[g] =
             LET b == IF g = v THEN Tail(box[g]) ELSE box[g] IN IF g = h THEN Append(b, e) ELSE b
      BY <1>1, <2>1, <2>2
    <2>4. box' = [g \in Handles |-> box'[g]]
      BY <1>1, <2>1, <2>2
    <2> QED BY <2>1, <2>3, <2>4 DEF TcpPushed
  <1> QED BY <1>2, <1>3, <1>4 DEF Tcp!PushLifecycle, Tcp!PushReceive

LEMMA TcpPushKeeps ==
  ASSUME TcpBoxes, TcpDelivered, NEW h \in Handles, NEW e \in TcpEvents, TcpPushed(h, e),
         UNCHANGED <<active, running, gone, gen>>, ~TcpSilent(h),
         e = "disconnect" => TcpSilent(h)', \A g \in Handles : TcpSilent(g) => TcpSilent(g)'
  PROVE  TcpBoxes' /\ TcpDelivered'
  <1>1. ASSUME NEW g \in Handles
        PROVE  /\ box'[g] \in Seq(TcpEvents)
               /\ \A i \in DOMAIN box'[g] :
                     box'[g][i] = "disconnect" => i = Len(box'[g]) /\ TcpSilent(g)'
               /\ box[g] = <<>> /\ TcpSilent(g) => box'[g] = <<>>
    <2>0. /\ box[g] \in Seq(TcpEvents)
          /\ \A i \in DOMAIN box[g] : box[g][i] = "disconnect" => i = Len(box[g]) /\ TcpSilent(g)
      BY DEF TcpBoxes
    <2>1. PICK b \in {box[g], Tail(box[g])} :
             /\ b = box[g] \/ box[g] # <<>>
             /\ box'[g] = b \/ (g = h /\ box'[g] = Append(b, e))
      BY DEF TcpPushed
    <2>2. /\ b \in Seq(TcpEvents)
          /\ \A i \in DOMAIN b : b[i] = "disconnect" => i = Len(b) /\ TcpSilent(g)
          /\ box[g] = <<>> => b = <<>>
      <3>1. CASE b = box[g]
        BY <2>0, <3>1
      <3>2. CASE b = Tail(box[g]) /\ box[g] # <<>>
        <4>1. /\ b \in Seq(TcpEvents) /\ Len(b) = Len(box[g]) - 1 /\ Len(box[g]) \in Nat \ {0}
              /\ \A i \in 1..Len(b) : b[i] = box[g][i + 1]
              /\ DOMAIN b = 1..Len(b) /\ DOMAIN box[g] = 1..Len(box[g])
          BY <2>0, <3>2
        <4> QED BY <2>0, <3>2, <4>1
      <3> QED BY <2>1, <3>1, <3>2
    <2>3. CASE box'[g] = b
      BY <2>2, <2>3
    <2>4. CASE g = h /\ box'[g] = Append(b, e)
      <3>1. /\ box'[g] \in Seq(TcpEvents) /\ Len(box'[g]) = Len(b) + 1 /\ Len(b) \in Nat
            /\ \A i \in 1..Len(b) : box'[g][i] = b[i]
            /\ box'[g][Len(b) + 1] = e
            /\ DOMAIN b = 1..Len(b) /\ DOMAIN box'[g] = 1..(Len(b) + 1)
        BY <2>2, <2>4
      <3> QED BY <2>2, <2>4, <3>1
    <2> QED BY <2>1, <2>3, <2>4
  <1>2. TcpBoxes'
    BY <1>1 DEF TcpBoxes, TcpPushed
  <1>3. ASSUME NEW g \in Handles, TcpOver(g) PROVE TcpOver(g)'
    BY <1>1, <1>3 DEF TcpOver
  <1>5. Tcp!Delivery'
    BY DEF TcpDelivered, Tcp!Delivery, Tcp!OneAtATime, Tcp!NothingAfterDisconnect
  <1>6. \A g \in gone : TcpOver(g)'
    BY <1>3 DEF TcpDelivered, TcpBoxes
  <1>7. \A w \in Workers : \A g \in Handles :
           running'[w].handle = g => g \in active' \/ TcpOver(g)'
    BY <1>3 DEF TcpDelivered
  <1> QED BY <1>2, <1>5, <1>6, <1>7 DEF TcpDelivered

\* Nothing happens to the mailboxes.
LEMMA TcpQuietKeeps ==
  ASSUME TcpBoxes, TcpDelivered, UNCHANGED <<box, active, running, gone, gen>>,
         \A g \in Handles : TcpSilent(g) => TcpSilent(g)'
  PROVE  TcpBoxes' /\ TcpDelivered'
  <1>1. TcpBoxes'
    BY DEF TcpBoxes
  <1>2. \A g \in Handles : TcpOver(g) => TcpOver(g)'
    BY DEF TcpOver
  <1>4. Tcp!Delivery'
    BY DEF TcpDelivered, Tcp!Delivery, Tcp!OneAtATime, Tcp!NothingAfterDisconnect
  <1>5. \A g \in gone : TcpOver(g)'
    BY <1>2 DEF TcpDelivered, TcpBoxes
  <1>6. \A w \in Workers : \A g \in Handles :
           running'[w].handle = g => g \in active' \/ TcpOver(g)'
    BY <1>2 DEF TcpDelivered
  <1> QED BY <1>1, <1>4, <1>5, <1>6 DEF TcpDelivered

\* A mailbox goes: nobody runs for it, or nothing more will come.
LEMMA TcpDropKeeps ==
  ASSUME TcpBoxes, TcpDelivered, NEW h \in Handles, Tcp!Drop(h), UNCHANGED <<running, gone>>,
         ~Tcp!Runs(h) \/ TcpSilent(h)', \A g \in Handles : TcpSilent(g) => TcpSilent(g)'
  PROVE  TcpBoxes' /\ TcpDelivered'
  <1>1. \A g \in Handles : box'[g] = IF g = h THEN <<>> ELSE box[g]
    BY DEF Tcp!Drop, TcpBoxes
  <1>2. TcpBoxes'
    <2>1. /\ box' \in [Handles -> Seq(TcpEvents)] /\ gen' \in [Handles -> Nat]
          /\ active' \subseteq Handles
      BY DEF Tcp!Drop, TcpBoxes
    <2>2. ASSUME NEW g \in Handles, NEW i \in DOMAIN box'[g], box'[g][i] = "disconnect"
          PROVE  i = Len(box'[g]) /\ TcpSilent(g)'
      BY <1>1, <2>2 DEF TcpBoxes
    <2> QED BY <2>1, <2>2 DEF TcpBoxes
  <1>3. \A g \in Handles : TcpOver(g) => TcpOver(g)'
    BY <1>1 DEF TcpOver
  <1>5. Tcp!Delivery'
    BY DEF TcpDelivered, Tcp!Delivery, Tcp!OneAtATime, Tcp!NothingAfterDisconnect
  <1>6. \A g \in gone : TcpOver(g)'
    BY <1>3 DEF TcpDelivered, TcpBoxes
  <1>7. ASSUME NEW w \in Workers, NEW g \in Handles, running'[w].handle = g
        PROVE  g \in active' \/ TcpOver(g)'
    <2>1. CASE g = h
      BY <1>1, <1>7, <2>1 DEF Tcp!Runs, TcpOver
    <2>2. CASE g # h
      BY <1>3, <1>7, <2>2 DEF TcpDelivered, Tcp!Drop
    <2> QED BY <2>1, <2>2
  <1> QED BY <1>2, <1>5, <1>6, <1>7 DEF TcpDelivered

LEMMA TcpClaimKeeps ==
  ASSUME TcpLimits, TcpBoxes, TcpDelivered, NEW h \in Handles, NEW w \in Workers, Tcp!Claim(w, h),
         \A g \in Handles : TcpSilent(g) => TcpSilent(g)'
  PROVE  TcpBoxes' /\ TcpDelivered'
  <1> DEFINE e == Head(box[h])
             c == [handle |-> h, gen |-> gen[h], event |-> e]
             r == Tail(box[h])
  <1>1. /\ running[w] = Tcp!Idle /\ box[h] # <<>> /\ h \notin active
        /\ active' = active \cup {h} /\ box' = [box EXCEPT ![h] = r]
        /\ running' = [running EXCEPT ![w] = c] /\ gen' = gen
        /\ gone' = IF e = "disconnect" THEN gone \cup {h} ELSE gone
    BY DEF Tcp!Claim, Tcp!Begin
  <1>2. /\ box[h] \in Seq(TcpEvents) /\ e \in TcpEvents /\ r \in Seq(TcpEvents)
        /\ e = box[h][1] /\ 1 \in DOMAIN box[h] /\ Len(box[h]) \in Nat \ {0}
        /\ Len(r) = Len(box[h]) - 1 /\ Len(r) \in Nat /\ DOMAIN r = 1..Len(r)
        /\ DOMAIN box[h] = 1..Len(box[h])
        /\ \A i \in 1..Len(r) : r[i] = box[h][i + 1]
    BY <1>1 DEF TcpBoxes
  <1>3. c \in TcpCalls /\ c.handle = h /\ c.event = e /\ c # Tcp!Idle
    <2>1. gen[h] \in Nat /\ h # ""
      BY DEF TcpBoxes, TcpLimits
    <2> QED BY <1>2, <2>1 DEF TcpCalls, Tcp!Idle
  <1> HIDE DEF c, e
  <1>4. /\ \A v \in Workers : running'[v] = IF v = w THEN c ELSE running[v]
        /\ \A g \in Handles : box'[g] = IF g = h THEN r ELSE box[g]
    BY <1>1 DEF TcpBoxes
  <1> HIDE DEF r
  <1>5. TcpBoxes'
    <2>1. /\ box' \in [Handles -> Seq(TcpEvents)] /\ gen' \in [Handles -> Nat] /\ gone' \subseteq Handles
          /\ active' \subseteq Handles /\ running' \in [Workers -> TcpCalls]
      BY <1>1, <1>2, <1>3 DEF TcpBoxes
    <2>2. ASSUME NEW g \in Handles, NEW i \in DOMAIN box'[g], box'[g][i] = "disconnect"
          PROVE  i = Len(box'[g]) /\ TcpSilent(g)'
      <3>1. CASE g # h
        BY <1>4, <2>2, <3>1 DEF TcpBoxes
      <3>2. CASE g = h
        <4>1. /\ i \in 1..Len(r) /\ i + 1 \in DOMAIN box[h]
              /\ box[h][i + 1] = "disconnect"
          BY <1>2, <1>4, <2>2, <3>2
        <4>2. i + 1 = Len(box[h]) /\ TcpSilent(h)
          BY <4>1 DEF TcpBoxes
        <4> QED BY <1>2, <1>4, <3>2, <4>1, <4>2
      <3> QED BY <3>1, <3>2
    <2> QED BY <2>1, <2>2 DEF TcpBoxes
  <1>6. ASSUME NEW g \in Handles, TcpOver(g) PROVE TcpOver(g)' /\ g # h
    BY <1>1, <1>4, <1>6 DEF TcpOver
  <1>7. ASSUME NEW v \in Workers, NEW g \in Handles, running[v].handle = g
        PROVE  g # h /\ v # w /\ running[v] # Tcp!Idle
    <2>1. g # ""
      BY DEF TcpLimits
    <2>0. Tcp!Idle.handle = ""
      BY DEF Tcp!Idle
    <2>2. running[v] # Tcp!Idle
      BY <1>7, <2>0, <2>1
    <2>3. g \in active \/ TcpOver(g)
      BY <1>7 DEF TcpDelivered
    <2> QED BY <1>1, <1>6, <2>2, <2>3
  <1>70. \A v \in Workers : running[v] # Tcp!Idle => running[v].handle \in Handles
    BY DEF TcpBoxes, TcpCalls
  <1>8. Tcp!OneAtATime /\ Tcp!NothingAfterDisconnect
    BY DEF TcpDelivered, Tcp!Delivery
  <1>9. Tcp!OneAtATime'
    <2>1. ASSUME NEW v \in Workers, NEW u \in Workers, running'[v] # Tcp!Idle,
                 running'[v].handle = running'[u].handle
          PROVE  v = u
      <3>1. running'[v].handle \in Handles
        BY <1>3, <1>4, <1>70, <2>1
      <3>2. CASE v # w /\ u # w
        BY <1>4, <1>8, <2>1, <3>2 DEF Tcp!OneAtATime
      <3>3. CASE v = w \/ u = w
        BY <1>3, <1>4, <1>7, <2>1, <3>1, <3>3
      <3> QED BY <3>2, <3>3
    <2> QED BY <2>1 DEF Tcp!OneAtATime
  <1>10. h \notin gone
    BY <1>6 DEF TcpDelivered, TcpBoxes
  <1>11. ASSUME e = "disconnect" PROVE TcpOver(h)'
    <2>1. 1 = Len(box[h]) /\ TcpSilent(h)
      BY <1>2, <1>11 DEF TcpBoxes
    <2>2. Len(r) = 0 /\ r \in Seq(TcpEvents)
      BY <1>2, <2>1
    <2>3. r = <<>>
      BY <2>2
    <2> QED BY <1>4, <2>1, <2>3 DEF TcpOver
  <1>12. Tcp!NothingAfterDisconnect'
    <2>1. ASSUME NEW v \in Workers, running'[v].handle \in gone' PROVE running'[v].event = "disconnect"
      <3>1. CASE v = w
        BY <1>1, <1>3, <1>4, <1>10, <2>1, <3>1
      <3>2. CASE v # w
        <4>1. running[v].handle \in gone' /\ running'[v] = running[v]
          BY <1>4, <2>1, <3>2
        <4>2. running[v].handle \in Handles
          BY <4>1, <1>1 DEF TcpBoxes
        <4>4. running[v].handle \in gone
          BY <1>1, <1>7, <4>1, <4>2
        <4> QED BY <1>8, <4>1, <4>4 DEF Tcp!NothingAfterDisconnect
      <3> QED BY <3>1, <3>2
    <2> QED BY <2>1 DEF Tcp!NothingAfterDisconnect
  <1>13. \A g \in gone' : TcpOver(g)'
    BY <1>1, <1>6, <1>11 DEF TcpDelivered, TcpBoxes
  <1>14. ASSUME NEW v \in Workers, NEW g \in Handles, running'[v].handle = g
         PROVE  g \in active' \/ TcpOver(g)'
    <2>1. CASE v = w
      BY <1>1, <1>3, <1>4, <1>14, <2>1
    <2>2. CASE v # w
      BY <1>1, <1>4, <1>6, <1>14, <2>2 DEF TcpDelivered
    <2> QED BY <2>1, <2>2
  <1> QED BY <1>5, <1>9, <1>12, <1>13, <1>14 DEF TcpDelivered, Tcp!Delivery

LEMMA TcpEndKeeps ==
  ASSUME TcpLimits, TcpBoxes, TcpDelivered, NEW w \in Workers, Tcp!CallbackEnds(w),
         \A g \in Handles : TcpSilent(g) => TcpSilent(g)'
  PROVE  TcpBoxes' /\ TcpDelivered'
  <1> DEFINE h == running[w].handle
  <1>1. /\ running[w] # Tcp!Idle /\ running' = [running EXCEPT ![w] = Tcp!Idle]
        /\ gone' = gone /\ active' = active \ {h}
        /\ \/ box' = [box EXCEPT ![h] = <<>>] /\ gen' = [gen EXCEPT ![h] = @ + 1]
           \/ box' = box /\ gen' = gen
    BY DEF Tcp!CallbackEnds, Tcp!Drop
  <1>2. h \in Handles /\ h # ""
    BY <1>1 DEF TcpBoxes, TcpCalls, TcpLimits
  <1>3. Tcp!Idle.handle = "" /\ Tcp!Idle \in TcpCalls
    BY DEF Tcp!Idle, TcpCalls
  <1> HIDE DEF h
  <1>4. \A v \in Workers : running'[v] = IF v = w THEN Tcp!Idle ELSE running[v]
    BY <1>1 DEF TcpBoxes
  <1>5. \A g \in Handles : box'[g] = box[g] \/ (g = h /\ box'[g] = <<>>)
    BY <1>1 DEF TcpBoxes
  <1>6. \A v \in Workers \ {w} : running[v].handle # h
    BY <1>1, <1>2 DEF TcpDelivered, Tcp!Delivery, Tcp!OneAtATime, h
  <1>7. TcpBoxes'
    <2>1. running' \in [Workers -> TcpCalls]
      BY <1>1, <1>3 DEF TcpBoxes
    <2>2. box' \in [Handles -> Seq(TcpEvents)] /\ gen' \in [Handles -> Nat] /\ active' \subseteq Handles
      <3>0. gen[h] \in Nat
        BY <1>2 DEF TcpBoxes
      <3>1. gen[h] + 1 \in Nat /\ <<>> \in Seq(TcpEvents)
        BY <3>0
      <3> QED BY <1>1, <1>2, <3>1 DEF TcpBoxes
    <2>3. ASSUME NEW g \in Handles, NEW i \in DOMAIN box'[g], box'[g][i] = "disconnect"
          PROVE  i = Len(box'[g]) /\ TcpSilent(g)'
      BY <1>5, <2>3 DEF TcpBoxes
    <2> QED BY <1>1, <2>1, <2>2, <2>3 DEF TcpBoxes
  <1>8. ASSUME NEW g \in Handles, TcpOver(g) PROVE TcpOver(g)'
    BY <1>5, <1>8 DEF TcpOver
  <1>9. Tcp!OneAtATime'
    <2>1. ASSUME NEW v \in Workers, NEW u \in Workers, running'[v] # Tcp!Idle,
                 running'[v].handle = running'[u].handle
          PROVE  v = u
      <3>1. v # w /\ running'[v] = running[v]
        BY <1>4, <2>1
      <3>2. running[v].handle \in Handles /\ running[v].handle # ""
        BY <2>1, <3>1 DEF TcpBoxes, TcpCalls, TcpLimits
      <3>3. u # w
        BY <1>3, <1>4, <2>1, <3>1, <3>2
      <3> QED BY <1>4, <2>1, <3>1, <3>3 DEF TcpDelivered, Tcp!Delivery, Tcp!OneAtATime
    <2> QED BY <2>1 DEF Tcp!OneAtATime
  <1>10. Tcp!NothingAfterDisconnect'
    <2>1. ASSUME NEW v \in Workers, running'[v].handle \in gone' PROVE running'[v].event = "disconnect"
      <3>1. running'[v].handle # ""
        BY <1>1, <2>1 DEF TcpBoxes, TcpLimits
      <3>2. v # w
        BY <1>3, <1>4, <3>1
      <3> QED BY <1>1, <1>4, <2>1, <3>2 DEF TcpDelivered, Tcp!Delivery, Tcp!NothingAfterDisconnect
    <2> QED BY <2>1 DEF Tcp!NothingAfterDisconnect
  <1>11. \A g \in gone' : TcpOver(g)'
    BY <1>1, <1>8 DEF TcpDelivered, TcpBoxes
  <1>12. ASSUME NEW v \in Workers, NEW g \in Handles, running'[v].handle = g
         PROVE  g \in active' \/ TcpOver(g)'
    <2>1. v # w
      BY <1>3, <1>4, <1>12 DEF TcpLimits
    <2>2. running[v].handle = g /\ g # h
      BY <1>4, <1>6, <1>12, <2>1
    <2>3. g \in active \/ TcpOver(g)
      BY <2>2 DEF TcpDelivered
    <2> QED BY <1>1, <1>8, <2>2, <2>3
  <1> QED BY <1>7, <1>9, <1>10, <1>11, <1>12 DEF TcpDelivered, Tcp!Delivery

LEMMA TcpDeliveredStep ==
  ASSUME TcpLimits, TcpSound, TcpBoxes, TcpDelivered, tcpTrouble = {}, [Tcp!Next]_(Tcp!vars)
  PROVE  TcpBoxes' /\ TcpDelivered'
  <1>0. \A g \in Handles : TcpSilent(g) => TcpSilent(g)'
    BY TcpSilentStays
  <1>1. ASSUME UNCHANGED <<box, active, running, gone, gen>> PROVE TcpBoxes' /\ TcpDelivered'
    BY <1>0, <1>1, TcpQuietKeeps
  <1>2. ASSUME NEW h \in Handles, Tcp!Accepted(h) PROVE TcpBoxes' /\ TcpDelivered'
    <2>1. CASE Tcp!PushLifecycle(h, "accept")
      <3>1. "accept" \in TcpEvents /\ "accept" # "disconnect"
        BY DEF TcpEvents
      <3>2. TcpPushed(h, "accept")
        BY <2>1, <3>1, TcpPushes
      <3>3. ~TcpSilent(h) /\ UNCHANGED <<active, running, gone, gen>>
        BY <1>2 DEF TcpSilent, Tcp!Accepted
      <3> QED BY ONLY TcpBoxes, TcpDelivered, h \in Handles, <1>0, <3>1, <3>2, <3>3, TcpPushKeeps
    <2>2. CASE box' = box
      BY <1>1, <1>2, <2>2 DEF Tcp!Accepted
    <2> QED BY <1>2, <2>1, <2>2 DEF Tcp!Accepted
  <1>3. ASSUME NEW h \in Handles, Tcp!Receive(h) PROVE TcpBoxes' /\ TcpDelivered'
    <2>1. "receive" \in TcpEvents /\ "receive" # "disconnect"
      BY DEF TcpEvents
    <2>2. TcpPushed(h, "receive")
      BY <1>3, <2>1, TcpPushes DEF Tcp!Receive
    <2>3. ~TcpSilent(h) /\ UNCHANGED <<active, running, gone, gen>>
      BY <1>3 DEF TcpSilent, Tcp!Receive
    <2> QED BY ONLY TcpBoxes, TcpDelivered, h \in Handles, <1>0, <2>1, <2>2, <2>3, TcpPushKeeps
  <1>4. ASSUME NEW h \in Handles, Tcp!OnDisconnected(h) PROVE TcpBoxes' /\ TcpDelivered'
    <2>0. TcpTypes /\ "disconnected" \in TcpKinds
      BY DEF TcpSound, TcpKinds
    <2>1. "disconnected" \in TcpWord(h) /\ TcpWord(h)' = TcpWord(h) \ {"disconnected"}
      BY <1>4, <2>0, TcpGets DEF Tcp!OnDisconnected
    <2>2. ~TcpSilent(h)
      BY <2>1 DEF TcpSilent
    <2>3. TcpSilent(h)'
      BY <1>4, <2>1, TcpKnows DEF TcpStage, TcpSilent, Tcp!OnDisconnected
    <2>4. CASE Tcp!PushLifecycle(h, "disconnect") /\ UNCHANGED <<gen, active>>
      <3>1. "disconnect" \in TcpEvents
        BY DEF TcpEvents
      <3>2. TcpPushed(h, "disconnect")
        BY <2>4, <3>1, TcpPushes
      <3>3. UNCHANGED <<active, running, gone, gen>>
        BY <1>4, <2>4 DEF Tcp!OnDisconnected
      <3> QED BY ONLY TcpBoxes, TcpDelivered, h \in Handles, <1>0, <2>2, <2>3, <3>1, <3>2, <3>3,
                 TcpPushKeeps
    <2>5. CASE Tcp!Drop(h)
      <3>1. UNCHANGED <<running, gone>>
        BY <1>4 DEF Tcp!OnDisconnected
      <3> QED BY ONLY TcpBoxes, TcpDelivered, h \in Handles, <1>0, <2>3, <2>5, <3>1, TcpDropKeeps
    <2> QED BY <1>4, <2>4, <2>5 DEF Tcp!OnDisconnected
  <1>5. ASSUME NEW h \in Handles, Tcp!Close(h) PROVE TcpBoxes' /\ TcpDelivered'
    <2>1. Tcp!Drop(h) /\ ~Tcp!Runs(h) /\ UNCHANGED <<running, gone>>
      BY <1>5 DEF Tcp!Close
    <2> QED BY ONLY TcpBoxes, TcpDelivered, h \in Handles, <1>0, <2>1, TcpDropKeeps
  <1>6. ASSUME NEW h \in Handles, NEW w \in Workers, Tcp!Claim(w, h) PROVE TcpBoxes' /\ TcpDelivered'
    BY <1>0, <1>6, TcpClaimKeeps
  <1>7. ASSUME NEW w \in Workers, Tcp!CallbackEnds(w) PROVE TcpBoxes' /\ TcpDelivered'
    BY <1>0, <1>7, TcpEndKeeps
  <1>8. ASSUME NEW h \in Handles,
               \/ Tcp!Connect(h) \/ Tcp!Connected(h) \/ Tcp!Report(h) \/ Tcp!PeerCloses(h)
               \/ Tcp!SeesClose(h) \/ Tcp!OnConnected(h) \/ Tcp!OnFailed(h) \/ Tcp!Recv(h)
        PROVE  TcpBoxes' /\ TcpDelivered'
    BY <1>1, <1>8 DEF Tcp!Connect, Tcp!Connected, Tcp!Report, Tcp!PeerCloses, Tcp!SeesClose,
                      Tcp!OnConnected, Tcp!OnFailed, Tcp!Recv, Tcp!events
  <1>9. ASSUME UNCHANGED Tcp!vars PROVE TcpBoxes' /\ TcpDelivered'
    BY <1>1, <1>9 DEF Tcp!vars
  <1> QED BY ONLY [Tcp!Next]_(Tcp!vars), <1>2, <1>3, <1>4, <1>5, <1>6, <1>7, <1>8, <1>9 DEF Tcp!Next

LEMMA TcpDeliveredInit == ASSUME TcpLimits PROVE Tcp!Init => TcpBoxes /\ TcpDelivered
  <1> SUFFICES ASSUME Tcp!Init PROVE TcpBoxes /\ TcpDelivered
    OBVIOUS
  <1>1. TcpBoxes
    BY DEF Tcp!Init, TcpBoxes, TcpCalls
  <1>2. \A h \in Handles : h # Tcp!Idle.handle
    BY DEF Tcp!Idle, TcpLimits
  <1>3. TcpDelivered
    BY <1>2 DEF Tcp!Init, TcpDelivered, Tcp!Delivery, Tcp!OneAtATime, Tcp!NothingAfterDisconnect
  <1> QED BY <1>1, <1>3

-----------------------------------------------------------------------------
TcpInv == tcpTrouble = {} => TcpSound /\ TcpCounted /\ TcpBoxes /\ TcpDelivered

LEMMA TcpStep ==
  ASSUME TcpLimits, TcpInv, [Tcp!Next]_(Tcp!vars) PROVE TcpInv'
  <1>1. tcpTrouble' = tcpTrouble
    <2>1. ASSUME NEW h \in Handles, NEW w \in Workers, Tcp!Claim(w, h) PROVE tcpTrouble' = tcpTrouble
      BY <2>1 DEF Tcp!Claim
    <2>2. ASSUME NEW w \in Workers, Tcp!CallbackEnds(w) PROVE tcpTrouble' = tcpTrouble
      BY <2>2 DEF Tcp!CallbackEnds
    <2> QED BY <2>1, <2>2
        DEF Tcp!Next, Tcp!vars, Tcp!Connect, Tcp!Connected, Tcp!Report, Tcp!Accepted, Tcp!Receive,
            Tcp!PeerCloses, Tcp!SeesClose, Tcp!OnConnected, Tcp!OnFailed, Tcp!OnDisconnected,
            Tcp!Close, Tcp!Recv
  <1>2. ASSUME tcpTrouble = {} PROVE TcpSound' /\ TcpCounted' /\ TcpBoxes' /\ TcpDelivered'
    <2>1. TcpSound /\ TcpCounted /\ TcpBoxes /\ TcpDelivered
      BY <1>2 DEF TcpInv
    <2>2. TcpSound'
      BY ONLY TcpLimits, [Tcp!Next]_(Tcp!vars), <1>2, <2>1, TcpSoundStep
    <2>3. TcpCounted'
      BY ONLY TcpLimits, [Tcp!Next]_(Tcp!vars), <2>1, TcpCountedStep
    <2>4. TcpBoxes' /\ TcpDelivered'
      BY ONLY TcpLimits, [Tcp!Next]_(Tcp!vars), <1>2, <2>1, TcpDeliveredStep
    <2> QED BY <2>2, <2>3, <2>4
  <1> QED BY <1>1, <1>2 DEF TcpInv

LEMMA TcpOnly == [Next]_vars => [Tcp!Next]_(Tcp!vars)
  BY DEF Next, vars, OfPlugins, OfTcp, OfUpdate, tcpVars, Tcp!vars

LEMMA TcpShows == ASSUME TcpLimits, TcpInv PROVE TcpIfCalm
  <1>1. ASSUME tcpTrouble = {} PROVE Tcp!Delivery /\ Tcp!Quota
    <2>1. TcpSound /\ TcpCounted /\ TcpDelivered
      BY <1>1 DEF TcpInv
    <2>2. ASSUME NEW h \in Handles, h \in connections PROVE Tcp!Live(h)
      <3>1. tcpTask[h] = "reading" \/ "disconnected" \in TcpWord(h)
        BY <2>1, <2>2, TcpKnows DEF TcpStage
      <3>2. CASE "disconnected" \in TcpWord(h)
        <4>1. PICK i \in DOMAIN inbox : inbox[i] = [what |-> "disconnected", handle |-> h]
          BY <3>2 DEF TcpWord, TcpPost
        <4>2. inbox[i].handle = h
          BY <4>1
        <4> QED BY <4>2 DEF Tcp!Live
      <3> QED BY <3>1, <3>2 DEF Tcp!Live
    <2>3. ASSUME NEW h \in Handles, buffered[h] > 0 PROVE h \in connections \cup pending
      BY <2>1, <2>3, TcpKnows DEF TcpStage
    <2>4. connections \subseteq Handles
      BY <2>1 DEF TcpSound, TcpTypes
    <2>5. Tcp!Quota
      <3>1. \A S : Tcp!Cardinality(S) = Cardinality(S)
        BY Zenon DEF Tcp!Cardinality, Cardinality
      <3>2. /\ tcpSlots = Tcp!Cardinality(pending) + Tcp!Cardinality(connections)
            /\ bytes = Tcp!Cardinality(Tcp!Kept)
        BY <2>1, <3>1 DEF TcpCounted
      <3> QED BY <2>2, <2>3, <2>4, <3>2 DEF Tcp!Quota
    <2> QED BY <2>1, <2>5 DEF TcpDelivered
  <1> QED BY <1>1 DEF TcpIfCalm, Tcp!DeliveryIfCalm, Tcp!QuotaIfCalm

(* While none of the awkward things happens, the callbacks of a connection   *)
(* do not overlap and none follows that of its end, a plugin is charged for  *)
(* the connections and attempts that it has and for the bytes that are       *)
(* buffered, and each of them can still end (plugin_tcp).                    *)
THEOREM TcpIfCalmHolds == ASSUME TcpLimits PROVE Spec => []TcpIfCalm
  <1>1. Init => TcpInv
    BY TcpSoundInit, TcpCountedInit, TcpDeliveredInit DEF Init, TcpInv
  <1>2. TcpInv /\ [Next]_vars => TcpInv'
    BY ONLY TcpLimits, TcpStep, TcpOnly
  <1>3. TcpInv => TcpIfCalm
    BY ONLY TcpLimits, TcpShows
  <1> QED BY <1>1, <1>2, <1>3, PTL DEF Spec

-----------------------------------------------------------------------------
(***************************************************************************)
(* The plugin manager.                                                     *)
(***************************************************************************)
PluginLimits == alpha # beta /\ MaxEvents \in Nat

PluginMessages == [kind : {"event", "flush", "stop"}, event : 0..MaxEvents]
PluginTurns == [event : 0..MaxEvents, pending : Seq(Plugins!Plugins), slots : SUBSET Plugins!Plugins]
PluginHosts == [enabled : BOOLEAN, quarantined : BOOLEAN, live : BOOLEAN]
PluginTasks == [does : {"idle", "remove", "clear", "load"}, to : SUBSET Plugins!Plugins]

PluginTypes ==
    /\ queue \in Seq(PluginMessages) /\ gate \in {"free", "flush", "stop"} /\ next \in Nat
    /\ accepted \subseteq Plugins!Events /\ flush \in {"none", "asked", "acked"}
    /\ turn \in PluginTurns /\ slots \in Seq(Plugins!Plugins)
    /\ host \in [Plugins!Plugins -> PluginHosts]
    /\ call \in [Plugins!Plugins -> [Plugins!Calls -> {"none", "spawned", "looked", "permitted", "running"}]]
    /\ heard \in [Plugins!Plugins -> Seq(Plugins!Events)]
    /\ init \in [Plugins!Plugins -> {"none", "running", "late"}]
    /\ task \in PluginTasks /\ commands \in Nat

\* What holds whatever goes wrong: the events in the queue are in order, no
\* plugin is in a list twice, and one that is being loaded is not there yet.
PluginQueued ==
    /\ \A i, j \in DOMAIN queue :
          i < j /\ queue[i].kind = "event" /\ queue[j].kind = "event" => queue[i].event < queue[j].event
    /\ \A i \in DOMAIN queue : queue[i].kind = "event" => queue[i].event \in 1..(next - 1)

PluginListed ==
    /\ \A i, j \in DOMAIN slots : slots[i] = slots[j] => i = j
    /\ \A i, j \in DOMAIN turn.pending : turn.pending[i] = turn.pending[j] => i = j
    /\ turn.event = 0 => turn.pending = <<>>
    /\ \A p \in Plugins!Plugins : init[p] = "running" => task.does = "load" /\ p \in task.to
    /\ task.does \in {"clear", "load"} => \A p \in task.to : p \notin Plugins!There

PluginOrder == PluginQueued /\ PluginListed

-----------------------------------------------------------------------------
LEMMA PluginNames ==
  ASSUME PluginLimits
  PROVE  /\ Plugins!Plugins = {alpha, beta} /\ MaxEvents \in Nat
         /\ \A n \in Plugins!Events : n \in Plugins!Calls /\ n \in Nat /\ n # 0 /\ n \in 0..MaxEvents
         /\ 0 \in Plugins!Calls /\ 0 \in 0..MaxEvents
  BY DEF PluginLimits, Plugins!Plugins, Plugins!Events, Plugins!Calls

(* The first of the plugins that are still to be loaded is one of them. *)
LEMMA PluginFirst ==
  ASSUME PluginLimits, NEW S \in SUBSET Plugins!Plugins, S # {}
  PROVE  Plugins!FirstOf(S) \in S
  <1> DEFINE O == <<alpha, beta>>
             P(i) == O[i] \in S /\ \A j \in 1..(i - 1) : O[j] \notin S
  <1>1. DOMAIN O = {1, 2} /\ O[1] = alpha /\ O[2] = beta
    OBVIOUS
  <1>2. S \subseteq {alpha, beta}
    BY PluginNames
  <1>3. \E i \in DOMAIN O : P(i)
    <2>1. CASE alpha \in S
      BY <1>1, <2>1
    <2>2. CASE alpha \notin S
      <3>1. beta \in S /\ 1..(2 - 1) = {1}
        BY <1>2, <2>2
      <3> QED BY <1>1, <2>2, <3>1
    <2> QED BY <2>1, <2>2
  <1>4. Plugins!FirstOf(S) = O[CHOOSE i \in DOMAIN O : P(i)]
    BY DEF Plugins!FirstOf
  <1> HIDE DEF O, P
  <1>5. P(CHOOSE i \in DOMAIN O : P(i))
    BY <1>3
  <1> QED BY <1>4, <1>5 DEF P

(* Concatenation, element by element. *)
LEMMA PluginJoined ==
  ASSUME NEW S, NEW a \in Seq(S), NEW b \in Seq(S)
  PROVE  /\ a \o b \in Seq(S) /\ Len(a \o b) = Len(a) + Len(b)
         /\ \A j \in 1..(Len(a) + Len(b)) : (a \o b)[j] = IF j <= Len(a) THEN a[j] ELSE b[j - Len(a)]
  OBVIOUS

(* The registry without one slot. *)
LEMMA PluginWithout ==
  ASSUME PluginTypes, PluginOrder, NEW i \in DOMAIN slots
  PROVE  /\ Plugins!Without(i) \in Seq(Plugins!Plugins)
         /\ \A j, k \in DOMAIN Plugins!Without(i) : Plugins!Without(i)[j] = Plugins!Without(i)[k] => j = k
         /\ {Plugins!Without(i)[j] : j \in DOMAIN Plugins!Without(i)} = Plugins!There \ {slots[i]}
  <1> DEFINE s == slots
             w == Plugins!Without(i)
             a == SubSeq(s, 1, i - 1)
             b == SubSeq(s, i + 1, Len(s))
  <1>1. /\ s \in Seq(Plugins!Plugins) /\ DOMAIN s = 1..Len(s) /\ Len(s) \in Nat /\ i \in 1..Len(s)
        /\ \A j, k \in DOMAIN s : s[j] = s[k] => j = k
    BY DEF PluginTypes, PluginOrder, PluginListed
  <1>2. w = a \o b
    BY DEF Plugins!Without
  <1>3. Plugins!There = {s[j] : j \in 1..Len(s)}
    BY <1>1 DEF Plugins!There
  <1> HIDE DEF w, s
  <1>4. /\ a \in Seq(Plugins!Plugins) /\ Len(a) = i - 1
        /\ \A j \in 1..(i - 1) : a[j] = s[j]
    BY <1>1
  <1>5. /\ b \in Seq(Plugins!Plugins) /\ Len(b) = Len(s) - i
        /\ \A j \in 1..(Len(s) - i) : b[j] = s[i + j]
    BY <1>1
  <1> HIDE DEF a, b
  <1>6. /\ w \in Seq(Plugins!Plugins) /\ Len(w) = Len(s) - 1 /\ DOMAIN w = 1..(Len(s) - 1)
        /\ \A j \in 1..(Len(s) - 1) : w[j] = IF j < i THEN s[j] ELSE s[j + 1]
    <2>1. /\ Len(a) \in Nat /\ Len(b) \in Nat /\ Len(a) + Len(b) = Len(s) - 1
      BY <1>1, <1>4, <1>5
    <2>2. /\ w \in Seq(Plugins!Plugins) /\ Len(w) = Len(a) + Len(b)
          /\ \A j \in 1..(Len(a) + Len(b)) : w[j] = IF j <= Len(a) THEN a[j] ELSE b[j - Len(a)]
      BY ONLY <1>2, <1>4, <1>5, PluginJoined
    <2>3. DOMAIN w = 1..Len(w)
      BY <2>2
    <2>4. ASSUME NEW j \in 1..(Len(s) - 1) PROVE w[j] = IF j < i THEN s[j] ELSE s[j + 1]
      <3>1. CASE j < i
        BY <1>1, <1>4, <2>1, <2>2, <3>1
      <3>2. CASE ~(j < i)
        <4>1. j - (i - 1) \in 1..(Len(s) - i) /\ i + (j - (i - 1)) = j + 1
          BY <1>1, <3>2
        <4>2. j \in 1..(Len(a) + Len(b)) /\ ~(j <= Len(a)) /\ j - Len(a) = j - (i - 1)
          BY <1>1, <1>4, <2>1, <3>2
        <4>3. w[j] = b[j - (i - 1)]
          BY ONLY <2>2, <4>2
        <4>4. b[j - (i - 1)] = s[j + 1]
          BY <1>5, <4>1
        <4> QED BY <3>2, <4>3, <4>4
      <3> QED BY <3>1, <3>2
    <2> QED BY <2>1, <2>2, <2>3, <2>4
  <1>7. ASSUME NEW j \in DOMAIN w, NEW k \in DOMAIN w, w[j] = w[k] PROVE j = k
    BY <1>1, <1>6, <1>7
  <1>8. {w[j] : j \in DOMAIN w} = {s[j] : j \in 1..Len(s)} \ {s[i]}
    <2>1. ASSUME NEW j \in DOMAIN w PROVE \E k \in 1..Len(s) : w[j] = s[k] /\ s[k] # s[i]
      <3>1. CASE j < i
        BY <1>1, <1>6, <3>1
      <3>2. CASE ~(j < i)
        <4>1. j + 1 \in 1..Len(s) /\ j + 1 # i /\ w[j] = s[j + 1]
          BY <1>1, <1>6, <3>2
        <4> QED BY <1>1, <4>1
      <3> QED BY <3>1, <3>2
    <2>2. ASSUME NEW k \in 1..Len(s), s[k] # s[i] PROVE \E j \in DOMAIN w : w[j] = s[k]
      <3>1. CASE k < i
        BY <1>1, <1>6, <3>1
      <3>2. CASE k > i
        <4>1. k - 1 \in 1..(Len(s) - 1) /\ ~(k - 1 < i) /\ (k - 1) + 1 = k
          BY <1>1, <3>2
        <4> QED BY <1>6, <4>1
      <3> QED BY <1>1, <2>2, <3>1, <3>2
    <2> QED BY <2>1, <2>2
  <1> QED BY <1>3, <1>6, <1>7, <1>8 DEF w, s

-----------------------------------------------------------------------------
LEMMA PluginAppended ==
  ASSUME NEW S, NEW q \in Seq(S), NEW x \in S
  PROVE  /\ Append(q, x) \in Seq(S) /\ DOMAIN Append(q, x) = 1..(Len(q) + 1)
         /\ DOMAIN q = 1..Len(q) /\ Len(q) \in Nat
         /\ \A i \in 1..Len(q) : Append(q, x)[i] = q[i]
         /\ Append(q, x)[Len(q) + 1] = x
  OBVIOUS

LEMMA PluginTailIs ==
  ASSUME NEW S, NEW q \in Seq(S), q # <<>>
  PROVE  /\ Tail(q) \in Seq(S) /\ DOMAIN Tail(q) = 1..(Len(q) - 1)
         /\ DOMAIN q = 1..Len(q) /\ Len(q) \in Nat /\ Len(q) >= 1
         /\ Head(q) = q[1] /\ q[1] \in S
         /\ \A i \in 1..(Len(q) - 1) : Tail(q)[i] = q[i + 1]
  OBVIOUS

\* The steps, as they are named below.
PluginAdmin ==
    \/ \E p \in Plugins!Plugins : \E on \in BOOLEAN : Plugins!SetEnabled(p, on)
    \/ \E p \in Plugins!Plugins : Plugins!RemoveMarks(p) \/ Plugins!LoadEnds(p)
    \/ \E p \in Plugins!Plugins : Plugins!LoadDeadline(p) \/ Plugins!LateInitEnds(p)
    \/ Plugins!RemoveForgets \/ Plugins!ReloadTakes \/ Plugins!ReloadClears \/ Plugins!LoadBegins
    \/ Plugins!LoadDone

LEMMA PluginSenders ==
  ASSUME PluginLimits, PluginTypes, PluginOrder,
         Plugins!DispatchEvent \/ Plugins!TakesGate("flush") \/ Plugins!TakesGate("stop") \/ Plugins!ControlEnters
  PROVE  PluginTypes' /\ PluginOrder'
  <1> USE PluginNames
  <1>0. UNCHANGED <<turn, slots, host, call, heard, init, task, commands>>
    BY DEF Plugins!DispatchEvent, Plugins!TakesGate, Plugins!ControlEnters, Plugins!admin
  <1>l. PluginListed'
    BY <1>0 DEF PluginOrder, PluginListed, Plugins!There
  <1>1. CASE UNCHANGED <<queue, next, accepted>>
    <2>1. gate' \in {"free", "flush", "stop"} /\ flush' \in {"none", "asked", "acked"}
      BY <1>1 DEF Plugins!DispatchEvent, Plugins!TakesGate, Plugins!ControlEnters, PluginTypes
    <2>2. PluginTypes'
      BY <1>0, <1>1, <2>1 DEF PluginTypes
    <2>3. PluginOrder'
      BY <1>l, <1>1 DEF PluginOrder, PluginQueued
    <2> QED BY <2>2, <2>3
  <1>2. CASE Plugins!DispatchEvent
    <2>1. /\ next \in Plugins!Events /\ next' = next + 1 /\ UNCHANGED <<gate, flush>>
          /\ \/ queue' = Append(queue, Plugins!Message("event", next)) /\ accepted' = accepted \cup {next}
             \/ UNCHANGED <<queue, accepted>>
      BY <1>2 DEF Plugins!DispatchEvent
    <2>2. Plugins!Message("event", next) \in PluginMessages /\ queue \in Seq(PluginMessages) /\ next \in Nat
      BY <2>1 DEF Plugins!Message, PluginMessages, PluginTypes
    <2>3. PluginTypes'
      <3>1. queue' \in Seq(PluginMessages)
        BY <2>1, <2>2, PluginAppended
      <3>2. accepted' \subseteq Plugins!Events
        BY <2>1 DEF PluginTypes
      <3> QED BY <1>0, <2>1, <2>2, <3>1, <3>2 DEF PluginTypes
    <2>4. CASE UNCHANGED queue
      <3>1. \A i \in DOMAIN queue : queue[i].kind = "event" => queue[i].event \in 1..(next' - 1)
        BY <2>1, <2>2 DEF PluginOrder, PluginQueued
      <3>2. PluginQueued'
        BY <2>4, <3>1 DEF PluginOrder, PluginQueued
      <3> QED BY <1>l, <2>1, <2>3, <3>2 DEF PluginOrder, PluginQueued
    <2>5. CASE queue' = Append(queue, Plugins!Message("event", next))
      <3>1. /\ DOMAIN queue' = 1..(Len(queue) + 1) /\ DOMAIN queue = 1..Len(queue) /\ Len(queue) \in Nat
            /\ \A i \in 1..Len(queue) : queue'[i] = queue[i]
            /\ queue'[Len(queue) + 1].event = next
        BY <2>2, <2>5, PluginAppended DEF Plugins!Message
      <3>2. \A i \in DOMAIN queue' : queue'[i].kind = "event" => queue'[i].event \in 1..(next' - 1)
        <4> TAKE i \in DOMAIN queue'
        <4>1. CASE i \in DOMAIN queue
          BY <2>1, <2>2, <3>1, <4>1 DEF PluginOrder, PluginQueued
        <4>2. CASE i = Len(queue) + 1
          BY <2>1, <2>2, <3>1, <4>2
        <4> QED BY <3>1, <4>1, <4>2
      <3>3. ASSUME NEW i \in DOMAIN queue', NEW j \in DOMAIN queue', i < j,
                   queue'[i].kind = "event", queue'[j].kind = "event"
            PROVE  queue'[i].event < queue'[j].event
        <4>0. i \in DOMAIN queue /\ queue'[i] = queue[i]
          BY <3>1, <3>3
        <4>1. CASE j \in DOMAIN queue
          BY <3>1, <3>3, <4>0, <4>1 DEF PluginOrder, PluginQueued
        <4>2. CASE j = Len(queue) + 1
          <5>1. queue[i].event \in 1..(next - 1)
            BY <3>3, <4>0 DEF PluginOrder, PluginQueued
          <5> QED BY <2>2, <3>1, <4>0, <4>2, <5>1
        <4> QED BY <3>1, <4>1, <4>2
      <3> QED BY <1>l, <2>3, <3>2, <3>3 DEF PluginOrder, PluginQueued
    <2> QED BY <2>1, <2>3, <2>4, <2>5
  <1>3. CASE Plugins!ControlEnters
    <2>1. /\ queue' = Append(queue, Plugins!Message(gate, 0)) /\ gate \in {"flush", "stop"}
          /\ gate' = "free" /\ flush' \in {flush, "asked"} /\ UNCHANGED <<next, accepted>>
      BY <1>3 DEF Plugins!ControlEnters, PluginTypes
    <2>2. Plugins!Message(gate, 0) \in PluginMessages /\ queue \in Seq(PluginMessages)
          /\ Plugins!Message(gate, 0).kind # "event"
      BY <2>1 DEF Plugins!Message, PluginMessages, PluginTypes
    <2>3. /\ queue' \in Seq(PluginMessages)
          /\ DOMAIN queue' = 1..(Len(queue) + 1) /\ DOMAIN queue = 1..Len(queue) /\ Len(queue) \in Nat
          /\ \A i \in 1..Len(queue) : queue'[i] = queue[i]
          /\ queue'[Len(queue) + 1].kind # "event"
      BY <2>1, <2>2, PluginAppended
    <2>4. PluginTypes'
      BY <1>0, <2>1, <2>3 DEF PluginTypes
    <2>5. \A i \in DOMAIN queue' : queue'[i].kind = "event" => i \in DOMAIN queue /\ queue'[i] = queue[i]
      BY <2>3
    <2> QED BY <1>l, <2>1, <2>4, <2>5 DEF PluginOrder, PluginQueued
  <1> QED BY <1>1, <1>2, <1>3 DEF Plugins!TakesGate

LEMMA PluginTakes ==
  ASSUME PluginLimits, PluginTypes, PluginOrder, Plugins!TakeMessage
  PROVE  /\ PluginTypes' /\ PluginOrder' /\ turn.event = 0
         /\ UNCHANGED <<slots, host, call, heard, init, task, commands, gate, next, accepted>>
         /\ DOMAIN queue = 1..Len(queue) /\ Len(queue) \in Nat /\ 1 \in DOMAIN queue
         /\ DOMAIN queue' = 1..(Len(queue) - 1)
         /\ \A i \in DOMAIN queue' : i + 1 \in DOMAIN queue /\ queue'[i] = queue[i + 1]
         /\ IF queue[1].kind = "event"
            THEN /\ turn' = Plugins!NewTurn(queue[1].event) /\ queue[1].event \in 1..(next - 1)
                 /\ \A i \in DOMAIN queue' : queue'[i].kind = "event" => queue[1].event < queue'[i].event
            ELSE turn' = turn
         /\ flush' = IF queue[1].kind = "flush" THEN "acked" ELSE flush
  <1>1. /\ turn.event = 0 /\ queue # <<>> /\ queue' = Tail(queue)
        /\ turn' = IF Head(queue).kind = "event" THEN Plugins!NewTurn(Head(queue).event) ELSE turn
        /\ flush' = IF Head(queue).kind = "flush" THEN "acked" ELSE flush
        /\ UNCHANGED <<slots, host, call, heard, init, task, commands, gate, next, accepted>>
    BY DEF Plugins!TakeMessage, Plugins!admin
  <1>2. /\ queue' \in Seq(PluginMessages) /\ DOMAIN queue' = 1..(Len(queue) - 1)
        /\ DOMAIN queue = 1..Len(queue) /\ Len(queue) \in Nat /\ Len(queue) >= 1
        /\ Head(queue) = queue[1] /\ queue[1] \in PluginMessages
        /\ \A i \in 1..(Len(queue) - 1) : queue'[i] = queue[i + 1]
    BY <1>1, PluginTailIs DEF PluginTypes
  <1>3. /\ 1 \in DOMAIN queue
        /\ \A i \in DOMAIN queue' : i + 1 \in DOMAIN queue /\ queue'[i] = queue[i + 1] /\ 1 < i + 1
    BY <1>2
  <1>4. queue[1].kind = "event" =>
           /\ queue[1].event \in 1..(next - 1)
           /\ \A i \in DOMAIN queue' : queue'[i].kind = "event" => queue[1].event < queue'[i].event
    BY <1>3 DEF PluginOrder, PluginQueued
  <1>5. PluginTypes'
    <2>1. Plugins!There \subseteq Plugins!Plugins /\ slots \in Seq(Plugins!Plugins)
      BY DEF PluginTypes, Plugins!There
    <2>2. turn' \in PluginTurns
      BY <1>1, <1>2, <2>1 DEF PluginTypes, PluginTurns, PluginMessages, Plugins!NewTurn
    <2> QED BY <1>1, <1>2, <2>2 DEF PluginTypes
  <1>6. PluginOrder'
    <2>1. /\ \A i, j \in DOMAIN turn'.pending : turn'.pending[i] = turn'.pending[j] => i = j
          /\ turn'.event = 0 => turn'.pending = <<>>
      BY <1>1, <1>2, <1>4 DEF PluginOrder, PluginListed, Plugins!NewTurn, PluginTypes
    <2>2. /\ \A i, j \in DOMAIN queue' :
               i < j /\ queue'[i].kind = "event" /\ queue'[j].kind = "event" => queue'[i].event < queue'[j].event
          /\ \A i \in DOMAIN queue' : queue'[i].kind = "event" => queue'[i].event \in 1..(next' - 1)
      <3>1. ASSUME NEW i \in DOMAIN queue', NEW j \in DOMAIN queue', i < j,
                   queue'[i].kind = "event", queue'[j].kind = "event"
            PROVE  queue'[i].event < queue'[j].event
        <4>1. i + 1 < j + 1
          BY <1>2, <3>1
        <4> QED BY <1>3, <3>1, <4>1 DEF PluginOrder, PluginQueued
      <3>2. ASSUME NEW i \in DOMAIN queue', queue'[i].kind = "event" PROVE queue'[i].event \in 1..(next' - 1)
        BY <1>1, <1>3, <3>2 DEF PluginOrder, PluginQueued
      <3> QED BY <3>1, <3>2
    <2> QED BY <1>1, <2>1, <2>2 DEF PluginOrder, PluginListed, PluginQueued, Plugins!There
  <1> QED BY <1>1, <1>2, <1>3, <1>4, <1>5, <1>6

-----------------------------------------------------------------------------
\* The plugins whose turn has not come, and the events a plugin was given.
PluginWaits == {turn.pending[i] : i \in DOMAIN turn.pending}
PluginGiven(p) == {heard[p][i] : i \in DOMAIN heard[p]}

LEMMA PluginSpawns ==
  ASSUME PluginLimits, PluginTypes, PluginOrder, Plugins!SpawnOne
  PROVE  /\ PluginTypes' /\ PluginOrder' /\ turn.event # 0 /\ turn.event \in Plugins!Events
         /\ UNCHANGED <<queue, gate, next, accepted, flush, slots, host, heard, init, task, commands>>
         /\ turn'.event = turn.event
         /\ \E p \in Plugins!Plugins : p \in PluginWaits /\ PluginWaits' = PluginWaits \ {p}
                                       /\ call' = [call EXCEPT ![p][turn.event] = "spawned"]
  <1> DEFINE p == Head(turn.pending)
  <1>1. /\ turn.event # 0 /\ turn.pending # <<>> /\ turn.pending \in Seq(Plugins!Plugins)
        /\ turn' = [turn EXCEPT !.pending = Tail(turn.pending)]
        /\ call' = [call EXCEPT ![p][turn.event] = "spawned"]
        /\ UNCHANGED <<queue, gate, next, accepted, flush, slots, host, heard, init, task, commands>>
    BY DEF Plugins!SpawnOne, Plugins!dispatch, Plugins!admin, PluginTypes, PluginTurns
  <1>2. /\ Tail(turn.pending) \in Seq(Plugins!Plugins)
        /\ DOMAIN Tail(turn.pending) = 1..(Len(turn.pending) - 1)
        /\ DOMAIN turn.pending = 1..Len(turn.pending) /\ Len(turn.pending) \in Nat /\ Len(turn.pending) >= 1
        /\ p = turn.pending[1] /\ p \in Plugins!Plugins
        /\ \A i \in 1..(Len(turn.pending) - 1) : Tail(turn.pending)[i] = turn.pending[i + 1]
    BY <1>1, PluginTailIs
  <1>3. turn'.event = turn.event /\ turn'.pending = Tail(turn.pending) /\ turn' \in PluginTurns
    BY <1>1, <1>2 DEF PluginTypes, PluginTurns
  <1>4. turn.event \in Plugins!Events
    BY <1>1 DEF PluginTypes, PluginTurns, Plugins!Events
  <1> HIDE DEF p
  <1>5. PluginTypes'
    <2>1. turn.event \in Plugins!Calls
      BY <1>4, PluginNames
    <2>2. call' \in [Plugins!Plugins -> [Plugins!Calls -> {"none", "spawned", "looked", "permitted", "running"}]]
      BY <1>1, <1>2, <2>1 DEF PluginTypes
    <2> QED BY <1>1, <1>3, <2>2 DEF PluginTypes
  <1>6. \A i, j \in DOMAIN turn'.pending : turn'.pending[i] = turn'.pending[j] => i = j
    <2>1. \A i \in DOMAIN turn'.pending : i + 1 \in DOMAIN turn.pending /\ turn'.pending[i] = turn.pending[i + 1]
                                          /\ i \in Int
      BY <1>2, <1>3
    <2> QED BY <2>1 DEF PluginOrder, PluginListed
  <1>7. PluginOrder'
    BY <1>1, <1>3, <1>6 DEF PluginOrder, PluginListed, PluginQueued, Plugins!There
  <1>8. p \in PluginWaits
    BY <1>2 DEF PluginWaits
  <1>9. PluginWaits' = PluginWaits \ {p}
    <2>0. PluginWaits' = {turn'.pending[i] : i \in DOMAIN turn'.pending}
      BY DEF PluginWaits
    <2>1. ASSUME NEW i \in DOMAIN turn'.pending PROVE turn'.pending[i] \in PluginWaits \ {p}
      <3>1. i + 1 \in DOMAIN turn.pending /\ i + 1 # 1 /\ 1 \in DOMAIN turn.pending
            /\ turn'.pending[i] = turn.pending[i + 1]
        BY <1>2, <1>3
      <3> QED BY <1>2, <3>1 DEF PluginWaits, PluginOrder, PluginListed
    <2>2. ASSUME NEW i \in DOMAIN turn.pending, turn.pending[i] # p
          PROVE  \E j \in DOMAIN turn'.pending : turn'.pending[j] = turn.pending[i]
      <3>0. i # 1
        BY <1>2, <2>2
      <3>1. i - 1 \in 1..(Len(turn.pending) - 1) /\ (i - 1) + 1 = i
        BY <1>2, <3>0
      <3>2. turn'.pending[i - 1] = turn.pending[i]
        BY <1>2, <1>3, <3>1
      <3> QED BY <1>2, <1>3, <3>1, <3>2
    <2> QED BY <2>0, <2>1, <2>2 DEF PluginWaits
  <1> QED BY <1>1, <1>2, <1>3, <1>4, <1>5, <1>7, <1>8, <1>9

LEMMA PluginTurnEnds ==
  ASSUME PluginLimits, PluginTypes, PluginOrder, Plugins!TurnEnds \/ Plugins!EventDeadline
  PROVE  /\ PluginTypes' /\ PluginOrder' /\ turn' = Plugins!NoTurn /\ turn.event # 0 /\ turn.event \in Plugins!Events
         /\ PluginWaits' = {}
         /\ UNCHANGED <<queue, gate, next, accepted, flush, slots, heard, init, task, commands>>
         /\ \A q \in Plugins!Plugins : \A n \in Plugins!Calls :
               call'[q][n] = IF n = turn.event /\ call[q][n] = "spawned" THEN "none" ELSE call[q][n]
  <1>1. /\ turn.event # 0 /\ turn' = Plugins!NoTurn
        /\ UNCHANGED <<queue, gate, next, accepted, flush, slots, heard, init, task, commands>>
    BY DEF Plugins!TurnEnds, Plugins!EventDeadline, Plugins!dispatch, Plugins!admin
  <1>2. turn.event \in Plugins!Events /\ turn.event \in Plugins!Calls
    BY <1>1, PluginNames DEF PluginTypes, PluginTurns, Plugins!Events
  <1>3. /\ call' \in [Plugins!Plugins -> [Plugins!Calls -> {"none", "spawned", "looked", "permitted", "running"}]]
        /\ host' \in [Plugins!Plugins -> PluginHosts]
        /\ \A q \in Plugins!Plugins : \A n \in Plugins!Calls :
               call'[q][n] = IF n = turn.event /\ call[q][n] = "spawned" THEN "none" ELSE call[q][n]
    <2>1. CASE Plugins!TurnEnds
      <3>1. call' = call /\ host' = host /\ \A q \in Plugins!Plugins : call[q][turn.event] = "none"
        BY <2>1 DEF Plugins!TurnEnds, Plugins!Alive
      <3> QED BY <3>1 DEF PluginTypes
    <2>2. CASE Plugins!EventDeadline
      <3>1. /\ call' = [p \in Plugins!Plugins |-> [call[p] EXCEPT ![turn.event] =
                           IF p \in {q \in Plugins!Plugins : call[q][turn.event] = "spawned"} THEN "none" ELSE @]]
            /\ host' = [p \in Plugins!Plugins |-> [host[p] EXCEPT !.quarantined =
                           @ \/ (p \in turn.slots /\ Plugins!Inflight(p) # {})]]
        BY <2>2 DEF Plugins!EventDeadline
      <3>2. host' \in [Plugins!Plugins -> PluginHosts]
        <4>1. ASSUME NEW p \in Plugins!Plugins PROVE host'[p] \in PluginHosts
          <5>1. host[p] \in PluginHosts
            BY DEF PluginTypes
          <5>2. host'[p] = [host[p] EXCEPT !.quarantined =
                               host[p].quarantined \/ (p \in turn.slots /\ Plugins!Inflight(p) # {})]
            BY <3>1
          <5> QED BY <5>1, <5>2 DEF PluginHosts
        <4> QED BY <3>1, <4>1
      <3>3. ASSUME NEW q \in Plugins!Plugins
            PROVE  call'[q] = [call[q] EXCEPT ![turn.event] = IF call[q][turn.event] = "spawned" THEN "none" ELSE call[q][turn.event]]
        BY <3>1
      <3>4. ASSUME NEW q \in Plugins!Plugins
            PROVE  /\ call'[q] \in [Plugins!Calls -> {"none", "spawned", "looked", "permitted", "running"}]
                   /\ \A n \in Plugins!Calls :
                        call'[q][n] = IF n = turn.event /\ call[q][n] = "spawned" THEN "none" ELSE call[q][n]
        <4>1. call[q] \in [Plugins!Calls -> {"none", "spawned", "looked", "permitted", "running"}]
          BY DEF PluginTypes
        <4> QED BY <1>2, <3>3, <4>1
      <3> QED BY <3>1, <3>2, <3>4
    <2> QED BY <2>1, <2>2
  <1>4. Plugins!NoTurn \in PluginTurns /\ Plugins!NoTurn.pending = <<>> /\ Plugins!NoTurn.event = 0
    BY PluginNames DEF Plugins!NoTurn, PluginTurns
  <1>5. PluginTypes'
    BY <1>1, <1>3, <1>4 DEF PluginTypes
  <1>6. PluginOrder'
    BY <1>1, <1>4 DEF PluginOrder, PluginListed, PluginQueued, Plugins!There
  <1>7. PluginWaits' = {}
    BY <1>1, <1>4 DEF PluginWaits
  <1> QED BY <1>1, <1>2, <1>3, <1>5, <1>6, <1>7

(* What one thread, or a call of the API, does to a call. *)
LEMMA PluginCalls ==
  ASSUME PluginLimits, PluginTypes, PluginOrder, NEW p \in Plugins!Plugins, NEW n \in Plugins!Calls,
         Plugins!Thread(p, n) \/ (n = 0 /\ (Plugins!CallApi(p) \/ Plugins!ApiDeadline(p)))
  PROVE  /\ PluginTypes' /\ PluginOrder'
         /\ UNCHANGED <<queue, gate, next, accepted, flush, turn, slots, init, task, commands>>
         /\ PluginWaits' = PluginWaits /\ Plugins!There' = Plugins!There
         /\ \A q \in Plugins!Plugins : \A m \in Plugins!Calls : q # p \/ m # n => call'[q][m] = call[q][m]
         /\ \A q \in Plugins!Plugins \ {p} : heard'[q] = heard[q] /\ host'[q] = host[q]
         /\ \/ heard' = heard
            \/ /\ n # 0 /\ call[p][n] = "permitted" /\ call'[p][n] = "running"
               /\ heard'[p] = Append(heard[p], n)
         /\ host'[p].enabled => host[p].enabled
  <1>0. UNCHANGED <<queue, gate, next, accepted, flush, turn, slots, init, task, commands>>
    BY DEF Plugins!Thread, Plugins!TryExecution, Plugins!ClaimLate, Plugins!EnterGuest, Plugins!GuestReturns,
           Plugins!GuestRegisters, Plugins!CallApi, Plugins!ApiDeadline, Plugins!dispatch, Plugins!admin
  <1>1. \E to \in {"none", "spawned", "looked", "permitted", "running"} : call' = [call EXCEPT ![p][n] = to]
    <2>1. call' = call => call' = [call EXCEPT ![p][n] = call[p][n]]
      BY DEF PluginTypes
    <2>2. call[p][n] \in {"none", "spawned", "looked", "permitted", "running"}
      BY DEF PluginTypes
    <2> QED BY <2>1, <2>2
            DEF Plugins!Thread, Plugins!TryExecution, Plugins!ClaimLate, Plugins!EnterGuest, Plugins!GuestReturns,
                Plugins!GuestRegisters, Plugins!CallApi, Plugins!ApiDeadline, Plugins!Released
  <1>2. /\ call' \in [Plugins!Plugins -> [Plugins!Calls -> {"none", "spawned", "looked", "permitted", "running"}]]
        /\ \A q \in Plugins!Plugins : \A m \in Plugins!Calls : q # p \/ m # n => call'[q][m] = call[q][m]
    BY <1>1 DEF PluginTypes
  <1>3. \/ host' = host \/ host' = [host EXCEPT ![p].enabled = FALSE] \/ host' = [host EXCEPT ![p].quarantined = TRUE]
    BY DEF Plugins!Thread, Plugins!TryExecution, Plugins!ClaimLate, Plugins!EnterGuest, Plugins!GuestReturns,
           Plugins!GuestRegisters, Plugins!CallApi, Plugins!ApiDeadline
  <1>4. /\ host' \in [Plugins!Plugins -> PluginHosts] /\ \A q \in Plugins!Plugins \ {p} : host'[q] = host[q]
        /\ host'[p].enabled => host[p].enabled
    <2>1. host \in [Plugins!Plugins -> PluginHosts] /\ host[p] \in PluginHosts
      BY DEF PluginTypes
    <2>2. CASE host' = [host EXCEPT ![p].enabled = FALSE]
      BY <2>1, <2>2 DEF PluginHosts
    <2>3. CASE host' = [host EXCEPT ![p].quarantined = TRUE]
      BY <2>1, <2>3 DEF PluginHosts
    <2> QED BY <1>3, <2>1, <2>2, <2>3
  <1>5. \/ heard' = heard
        \/ /\ n # 0 /\ call[p][n] = "permitted" /\ call'[p][n] = "running"
           /\ heard' = [heard EXCEPT ![p] = Append(heard[p], n)]
    BY DEF Plugins!Thread, Plugins!TryExecution, Plugins!ClaimLate, Plugins!EnterGuest, Plugins!GuestReturns,
           Plugins!GuestRegisters, Plugins!CallApi, Plugins!ApiDeadline, PluginTypes
  <1>6. /\ heard' \in [Plugins!Plugins -> Seq(Plugins!Events)]
        /\ \A q \in Plugins!Plugins \ {p} : heard'[q] = heard[q]
        /\ heard' # heard => heard'[p] = Append(heard[p], n)
    <2>1. n # 0 => n \in Plugins!Events
      BY PluginNames DEF Plugins!Calls, Plugins!Events
    <2>2. heard[p] \in Seq(Plugins!Events) /\ (n # 0 => Append(heard[p], n) \in Seq(Plugins!Events))
      BY <2>1 DEF PluginTypes
    <2> QED BY <1>5, <2>2 DEF PluginTypes
  <1>7. PluginTypes'
    BY <1>0, <1>2, <1>4, <1>6 DEF PluginTypes
  <1>8. PluginOrder' /\ PluginWaits' = PluginWaits /\ Plugins!There' = Plugins!There
    BY <1>0 DEF PluginOrder, PluginListed, PluginQueued, Plugins!There, PluginWaits
  <1> QED BY <1>0, <1>2, <1>4, <1>5, <1>6, <1>7, <1>8

-----------------------------------------------------------------------------
(* The administrator and the loading. *)
LEMMA PluginAdmins ==
  ASSUME PluginLimits, PluginTypes, PluginOrder, PluginAdmin \/ \E p \in Plugins!Plugins : Plugins!InitRegisters(p)
  PROVE  /\ PluginTypes' /\ PluginOrder' /\ PluginWaits' = PluginWaits
         /\ UNCHANGED <<queue, gate, next, accepted, flush, owed, turn, call, heard, missed>>
  <1>0. UNCHANGED <<queue, gate, next, accepted, flush, owed, turn, call, heard, missed>>
    BY DEF PluginAdmin, Plugins!SetEnabled, Plugins!RemoveMarks, Plugins!LoadEnds, Plugins!LoadDeadline,
           Plugins!LateInitEnds, Plugins!RemoveForgets, Plugins!ReloadTakes, Plugins!ReloadClears,
           Plugins!LoadBegins, Plugins!LoadDone, Plugins!InitRegisters, Plugins!dispatch
  <1>w. PluginWaits' = PluginWaits
    BY <1>0 DEF PluginWaits
  <1>q. PluginQueued'
    BY <1>0 DEF PluginOrder, PluginQueued
  <1>t. ASSUME slots' \in Seq(Plugins!Plugins), host' \in [Plugins!Plugins -> PluginHosts],
               init' \in [Plugins!Plugins -> {"none", "running", "late"}], task' \in PluginTasks, commands' \in Nat
        PROVE  PluginTypes'
    BY <1>0, <1>t DEF PluginTypes
  <1>o. ASSUME \A i, j \in DOMAIN slots' : slots'[i] = slots'[j] => i = j,
               \A p \in Plugins!Plugins : init'[p] = "running" => task'.does = "load" /\ p \in task'.to,
               task'.does \in {"clear", "load"} => \A p \in task'.to : p \notin Plugins!There'
        PROVE  PluginOrder'
    BY <1>0, <1>q, <1>o DEF PluginOrder, PluginListed
  <1>c. Plugins!Command => commands' \in Nat /\ task = Plugins!Idle
    BY DEF Plugins!Command, PluginTypes
  <1>i. Plugins!Idle \in PluginTasks /\ Plugins!Idle.does = "idle" /\ Plugins!Idle.to = {}
    BY DEF Plugins!Idle, PluginTasks
  <1>u. ASSUME UNCHANGED <<slots, init, task>>, commands' \in Nat, host' \in [Plugins!Plugins -> PluginHosts]
        PROVE  PluginTypes' /\ PluginOrder'
    <2>1. PluginTypes'
      BY <1>t, <1>u DEF PluginTypes
    <2>2. PluginOrder'
      BY <1>o, <1>u DEF PluginOrder, PluginListed, Plugins!There
    <2> QED BY <2>1, <2>2
  <1>x. ASSUME NEW p \in Plugins!Plugins
        PROVE  Plugins!CleanedUp(p) \in PluginHosts /\ [Plugins!CleanedUp(p) EXCEPT !.enabled = FALSE] \in PluginHosts
               /\ [Plugins!CleanedUp(p) EXCEPT !.quarantined = TRUE] \in PluginHosts
    BY DEF Plugins!CleanedUp, PluginTypes, PluginHosts
  <1>1. ASSUME NEW p \in Plugins!Plugins, NEW on \in BOOLEAN, Plugins!SetEnabled(p, on) PROVE PluginTypes' /\ PluginOrder'
    <2>1. /\ host' = [host EXCEPT ![p].enabled = on, ![p].quarantined = @ /\ ~on]
          /\ UNCHANGED <<slots, init, task>> /\ Plugins!Command
      BY <1>1 DEF Plugins!SetEnabled
    <2>2. host' \in [Plugins!Plugins -> PluginHosts]
      BY <2>1 DEF PluginTypes, PluginHosts
    <2> QED BY <1>c, <1>u, <2>1, <2>2
  <1>2. ASSUME NEW p \in Plugins!Plugins, Plugins!RemoveMarks(p) PROVE PluginTypes' /\ PluginOrder'
    <2>1. /\ Plugins!Command /\ task' = [does |-> "remove", to |-> {p}] /\ UNCHANGED init
          /\ host' = [host EXCEPT ![p] = IF Plugins!LockFree(p) THEN [Plugins!CleanedUp(p) EXCEPT !.enabled = FALSE]
                                         ELSE Plugins!CleanedUp(p)]
      BY <1>2 DEF Plugins!RemoveMarks
    <2>2. PICK i \in DOMAIN slots : slots' = Plugins!Without(i)
      BY <1>2 DEF Plugins!RemoveMarks
    <2>3. slots' \in Seq(Plugins!Plugins) /\ \A j, k \in DOMAIN slots' : slots'[j] = slots'[k] => j = k
      BY <2>2, PluginWithout
    <2>4. host' \in [Plugins!Plugins -> PluginHosts]
      BY <1>x, <2>1 DEF PluginTypes
    <2>5. task' \in PluginTasks /\ task'.does = "remove"
      BY <2>1 DEF PluginTasks
    <2>6. \A q \in Plugins!Plugins : init[q] # "running"
      BY <1>c, <1>i, <2>1 DEF PluginOrder, PluginListed
    <2>7. PluginTypes'
      BY <1>c, <1>t, <2>1, <2>3, <2>4, <2>5 DEF PluginTypes
    <2>8. PluginOrder'
      BY <1>o, <2>1, <2>3, <2>5, <2>6
    <2> QED BY <2>7, <2>8
  <1>3. ASSUME NEW p \in Plugins!Plugins, Plugins!LoadEnds(p) PROVE PluginTypes' /\ PluginOrder'
    <2>1. /\ init[p] = "running" /\ init' = [init EXCEPT ![p] = "none"]
          /\ task' = [task EXCEPT !.to = task.to \ {p}] /\ commands' = commands
          /\ \/ slots' = Append(slots, p) /\ host' = [host EXCEPT ![p] = Plugins!Fresh]
             \/ UNCHANGED <<slots, host>>
      BY <1>3 DEF Plugins!LoadEnds
    <2>2. task.does = "load" /\ p \in task.to /\ p \notin Plugins!There
      BY <2>1 DEF PluginOrder, PluginListed
    <2>3. task' \in PluginTasks /\ task'.does = "load" /\ task'.to = task.to \ {p}
      BY <2>1, <2>2 DEF PluginTypes, PluginTasks
    <2>4. /\ slots' \in Seq(Plugins!Plugins) /\ Plugins!There' \subseteq Plugins!There \cup {p}
          /\ \A i, j \in DOMAIN slots' : slots'[i] = slots'[j] => i = j
      <3>1. CASE slots' = slots
        BY <3>1 DEF Plugins!There, PluginTypes, PluginOrder, PluginListed
      <3>2. CASE slots' = Append(slots, p)
        <4>1. slots \in Seq(Plugins!Plugins)
          BY DEF PluginTypes
        <4>2. /\ slots' \in Seq(Plugins!Plugins) /\ DOMAIN slots' = 1..(Len(slots) + 1)
              /\ DOMAIN slots = 1..Len(slots) /\ Len(slots) \in Nat
              /\ \A i \in 1..Len(slots) : slots'[i] = slots[i]
              /\ slots'[Len(slots) + 1] = p
          BY <3>2, <4>1, PluginAppended
        <4>3. \A i \in DOMAIN slots' : \/ i \in DOMAIN slots /\ slots'[i] = slots[i] /\ slots[i] # p
                                       \/ i = Len(slots) + 1 /\ i \notin DOMAIN slots /\ slots'[i] = p
          BY <2>2, <4>2 DEF Plugins!There
        <4>4. Plugins!There' = {slots'[i] : i \in DOMAIN slots'}
          BY DEF Plugins!There
        <4> QED BY <4>2, <4>3, <4>4 DEF Plugins!There, PluginOrder, PluginListed
      <3> QED BY <2>1, <3>1, <3>2
    <2>5. host' \in [Plugins!Plugins -> PluginHosts]
      <3>1. Plugins!Fresh \in PluginHosts
        BY DEF PluginHosts, Plugins!Fresh
      <3> QED BY <2>1, <3>1 DEF PluginTypes
    <2>6. init' \in [Plugins!Plugins -> {"none", "running", "late"}]
          /\ \A q \in Plugins!Plugins : init'[q] = "running" => q # p /\ init[q] = "running"
      BY <2>1 DEF PluginTypes
    <2>7. PluginTypes'
      BY <1>t, <2>1, <2>3, <2>4, <2>5, <2>6 DEF PluginTypes
    <2>8. PluginOrder'
      <3>1. \A q \in Plugins!Plugins : init'[q] = "running" => task'.does = "load" /\ q \in task'.to
        BY <2>3, <2>6 DEF PluginOrder, PluginListed
      <3>2. \A q \in task'.to : q \notin Plugins!There'
        BY <2>2, <2>3, <2>4 DEF PluginOrder, PluginListed
      <3> QED BY <1>o, <2>4, <3>1, <3>2
    <2> QED BY <2>7, <2>8
  <1>4. ASSUME NEW p \in Plugins!Plugins, Plugins!LoadDeadline(p) \/ Plugins!LateInitEnds(p) PROVE PluginTypes' /\ PluginOrder'
    <2>1. /\ \E to \in {"late", "none"} : init' = [init EXCEPT ![p] = to]
          /\ \/ task' = [task EXCEPT !.to = task.to \ {p}]
             \/ task' = task
          /\ UNCHANGED <<slots, host, commands>>
      BY <1>4 DEF Plugins!LoadDeadline, Plugins!LateInitEnds
    <2>2. task' \in PluginTasks /\ task'.does = task.does /\ task'.to \subseteq task.to /\ task.to \ {p} \subseteq task'.to
      BY <2>1 DEF PluginTypes, PluginTasks
    <2>3. /\ init' \in [Plugins!Plugins -> {"none", "running", "late"}]
          /\ \A q \in Plugins!Plugins : init'[q] = "running" => q # p /\ init[q] = "running"
      BY <2>1 DEF PluginTypes
    <2>4. PluginTypes'
      BY <1>t, <2>1, <2>2, <2>3 DEF PluginTypes
    <2>5. \A q \in Plugins!Plugins : init'[q] = "running" => task'.does = "load" /\ q \in task'.to
      BY <2>2, <2>3 DEF PluginOrder, PluginListed
    <2>6. Plugins!There' = Plugins!There
      BY <2>1 DEF Plugins!There
    <2>7. PluginOrder'
      BY <1>o, <2>1, <2>2, <2>5, <2>6 DEF PluginOrder, PluginListed
    <2> QED BY <2>4, <2>7
  <1>5. CASE Plugins!RemoveForgets \/ Plugins!LoadDone
    <2>1. task' = Plugins!Idle /\ UNCHANGED <<slots, host, init, commands>>
      BY <1>5 DEF Plugins!RemoveForgets, Plugins!LoadDone
    <2>2. \A q \in Plugins!Plugins : init[q] # "running"
      BY <1>5 DEF Plugins!RemoveForgets, Plugins!LoadDone, PluginOrder, PluginListed
    <2>3. PluginTypes'
      BY <1>i, <1>t, <2>1 DEF PluginTypes
    <2>4. PluginOrder'
      BY <1>i, <1>o, <2>1, <2>2 DEF PluginOrder, PluginListed
    <2> QED BY <1>0, <1>w, <2>3, <2>4
  <1>6. CASE Plugins!ReloadTakes
    <2>1. /\ Plugins!Command /\ slots' = <<>> /\ UNCHANGED init
          /\ task' = [does |-> "clear", to |-> Plugins!Plugins]
          /\ host' = [p \in Plugins!Plugins |-> IF p \in Plugins!There
                        THEN [Plugins!CleanedUp(p) EXCEPT !.quarantined = TRUE] ELSE host[p]]
      BY <1>6 DEF Plugins!ReloadTakes
    <2>2. host' \in [Plugins!Plugins -> PluginHosts]
      BY <1>x, <2>1 DEF PluginTypes
    <2>3. task' \in PluginTasks /\ Plugins!There' = {} /\ slots' \in Seq(Plugins!Plugins) /\ DOMAIN slots' = {}
      BY <2>1 DEF PluginTasks, Plugins!There
    <2>4. \A q \in Plugins!Plugins : init[q] # "running"
      BY <1>c, <1>i, <2>1 DEF PluginOrder, PluginListed
    <2>5. PluginTypes'
      BY <1>c, <1>t, <2>1, <2>2, <2>3 DEF PluginTypes
    <2>6. PluginOrder'
      BY <1>o, <2>1, <2>3, <2>4
    <2> QED BY <1>0, <1>w, <2>5, <2>6
  <1>7. CASE Plugins!ReloadClears
    <2>1. task.does = "clear" /\ task' = [task EXCEPT !.does = "load"] /\ UNCHANGED <<slots, host, init, commands>>
      BY <1>7 DEF Plugins!ReloadClears
    <2>2. task' \in PluginTasks /\ task'.to = task.to
      BY <2>1 DEF PluginTypes, PluginTasks
    <2>3. PluginTypes'
      BY <1>t, <2>1, <2>2 DEF PluginTypes
    <2>4. PluginOrder'
      BY <1>o, <2>1, <2>2 DEF PluginOrder, PluginListed, Plugins!There
    <2> QED BY <1>0, <1>w, <2>3, <2>4
  <1>8. CASE Plugins!LoadBegins
    <2>1. /\ task.does = "load" /\ task.to # {} /\ UNCHANGED <<slots, host, task, commands>>
          /\ init' = [init EXCEPT ![Plugins!FirstOf(task.to)] = "running"]
      BY <1>8 DEF Plugins!LoadBegins, Plugins!InitStarts
    <2>2. task.to \subseteq Plugins!Plugins
      BY DEF PluginTypes, PluginTasks
    <2>3. Plugins!FirstOf(task.to) \in task.to
      BY <2>1, <2>2, PluginFirst
    <2>4. PluginTypes'
      BY <1>t, <2>1, <2>2, <2>3 DEF PluginTypes
    <2>5. \A q \in Plugins!Plugins : init'[q] = "running" => task'.does = "load" /\ q \in task'.to
      BY <2>1, <2>2, <2>3 DEF PluginTypes, PluginOrder, PluginListed
    <2>6. Plugins!There' = Plugins!There
      BY <2>1 DEF Plugins!There
    <2>7. PluginOrder'
      BY <1>o, <2>1, <2>5, <2>6 DEF PluginOrder, PluginListed
    <2> QED BY <1>0, <1>w, <2>4, <2>7
  <1>9. ASSUME NEW p \in Plugins!Plugins, Plugins!InitRegisters(p) PROVE PluginTypes' /\ PluginOrder'
    BY <1>9, <1>u DEF Plugins!InitRegisters, Plugins!admin, PluginTypes
  <1> QED BY <1>0, <1>w, <1>1, <1>2, <1>3, <1>4, <1>5, <1>6, <1>7, <1>8, <1>9 DEF PluginAdmin

-----------------------------------------------------------------------------
\* The event has been taken out of the queue, before all that are in it.
PluginPast(n) == n < next /\ \A i \in DOMAIN queue : queue[i].kind = "event" => n < queue[i].event

\* Events are run in order: no call is of a later event than the one of the
\* turn, a plugin that waits for its turn has heard only of earlier ones, and
\* so has one that is about to be told.
PluginAhead ==
    /\ PluginPast(turn.event)
    /\ \A p \in Plugins!Plugins : \A n \in Plugins!Calls : call[p][n] # "none" =>
           PluginPast(n) /\ call[p][n] # "looked" /\ (turn.event # 0 => n <= turn.event)
    /\ \A p \in Plugins!Plugins : \A n \in Plugins!Calls : call[p][n] = "spawned" /\ n # 0 => n = turn.event
    /\ \A p \in Plugins!Plugins : \A k \in PluginGiven(p) :
           PluginPast(k) /\ k \in Nat /\ (turn.event # 0 => k <= turn.event)
    /\ \A p \in PluginWaits : call[p][turn.event] = "none" /\ \A k \in PluginGiven(p) : k < turn.event
    /\ \A p \in Plugins!Plugins : \A n \in Plugins!Calls :
           n # 0 /\ call[p][n] \in {"spawned", "permitted"} => \A k \in PluginGiven(p) : k < n
    /\ \A p \in Plugins!Plugins : \A m, n \in Plugins!Inflight(p) : m = n
    /\ \A p \in Plugins!Plugins : \A i, j \in DOMAIN heard[p] : i < j => heard[p][i] < heard[p][j]

(* Only the queue moves. *)
LEMMA PluginAheadQueues ==
  ASSUME PluginLimits, PluginTypes, PluginAhead, UNCHANGED <<turn, call, heard>>,
         \A n \in Nat : PluginPast(n) => PluginPast(n)'
  PROVE  PluginAhead'
  <1>1. /\ PluginWaits' = PluginWaits /\ \A p \in Plugins!Plugins : PluginGiven(p)' = PluginGiven(p)
        /\ \A p \in Plugins!Plugins : Plugins!Inflight(p)' = Plugins!Inflight(p)
        /\ turn' = turn /\ call' = call /\ heard' = heard
    BY DEF PluginWaits, PluginGiven, Plugins!Inflight
  <1>2. turn.event \in Nat /\ \A n \in Plugins!Calls : n \in Nat
    BY PluginNames DEF PluginTypes, PluginTurns, Plugins!Calls
  <1>3. PluginPast(turn.event)'
    BY <1>1, <1>2 DEF PluginAhead, PluginPast
  <1>4. ASSUME NEW p \in Plugins!Plugins, NEW n \in Plugins!Calls, call'[p][n] # "none"
        PROVE  PluginPast(n)' /\ call'[p][n] # "looked" /\ (turn'.event # 0 => n <= turn'.event)
    BY <1>1, <1>2, <1>4 DEF PluginAhead
  <1>5. ASSUME NEW p \in Plugins!Plugins, NEW k \in PluginGiven(p)'
        PROVE  PluginPast(k)' /\ k \in Nat /\ (turn'.event # 0 => k <= turn'.event)
    BY <1>1, <1>2, <1>5 DEF PluginAhead
  <1>6. \A p \in Plugins!Plugins : \A n \in Plugins!Calls : call'[p][n] = "spawned" /\ n # 0 => n = turn'.event
    BY <1>1 DEF PluginAhead
  <1>7. \A p \in PluginWaits' : call'[p][turn'.event] = "none" /\ \A k \in PluginGiven(p)' : k < turn'.event
    <2>1. PluginWaits \subseteq Plugins!Plugins
      BY DEF PluginTypes, PluginTurns, PluginWaits
    <2> QED BY <1>1, <2>1 DEF PluginAhead
  <1>8. \A p \in Plugins!Plugins : \A n \in Plugins!Calls :
           n # 0 /\ call'[p][n] \in {"spawned", "permitted"} => \A k \in PluginGiven(p)' : k < n
    BY <1>1 DEF PluginAhead
  <1>9. /\ \A p \in Plugins!Plugins : \A m, n \in Plugins!Inflight(p)' : m = n
        /\ \A p \in Plugins!Plugins : \A i, j \in DOMAIN heard'[p] : i < j => heard'[p][i] < heard'[p][j]
    BY <1>1 DEF PluginAhead
  <1> QED BY <1>3, <1>4, <1>5, <1>6, <1>7, <1>8, <1>9 DEF PluginAhead

LEMMA PluginAheadSenders ==
  ASSUME PluginLimits, PluginTypes, PluginOrder, PluginAhead,
         Plugins!DispatchEvent \/ Plugins!TakesGate("flush") \/ Plugins!TakesGate("stop") \/ Plugins!ControlEnters
  PROVE  PluginAhead'
  <1>1. UNCHANGED <<turn, call, heard>>
    BY DEF Plugins!DispatchEvent, Plugins!TakesGate, Plugins!ControlEnters
  <1>2. ASSUME NEW n \in Nat, PluginPast(n) PROVE PluginPast(n)'
    <2>1. CASE UNCHANGED <<queue, next>>
      BY <1>2, <2>1 DEF PluginPast
    <2>2. CASE Plugins!DispatchEvent
      <3>1. /\ next' = next + 1 /\ next \in Nat /\ next \in 0..MaxEvents
            /\ queue' = queue \/ queue' = Append(queue, Plugins!Message("event", next))
        BY <2>2, PluginNames DEF Plugins!DispatchEvent, PluginTypes
      <3>2. n < next'
        BY <1>2, <3>1 DEF PluginPast
      <3>3. CASE queue' = queue
        BY <1>2, <3>2, <3>3 DEF PluginPast
      <3>4. CASE queue' = Append(queue, Plugins!Message("event", next))
        <4>1. queue \in Seq(PluginMessages) /\ Plugins!Message("event", next) \in PluginMessages
          BY <3>1 DEF PluginTypes, PluginMessages, Plugins!Message
        <4>2. \A i \in DOMAIN queue' : queue'[i].event = next \/ (i \in DOMAIN queue /\ queue'[i] = queue[i])
          BY <3>4, <4>1, PluginAppended DEF Plugins!Message
        <4> QED BY <1>2, <3>2, <4>2 DEF PluginPast
      <3> QED BY <3>1, <3>3, <3>4
    <2>3. CASE Plugins!ControlEnters
      <3>1. next' = next /\ queue' = Append(queue, Plugins!Message(gate, 0)) /\ gate \in {"flush", "stop"}
        BY <2>3 DEF Plugins!ControlEnters, PluginTypes
      <3>2. queue \in Seq(PluginMessages) /\ Plugins!Message(gate, 0) \in PluginMessages
            /\ Plugins!Message(gate, 0).kind # "event"
        BY <3>1, PluginNames DEF PluginTypes, PluginMessages, Plugins!Message
      <3>3. \A i \in DOMAIN queue' : queue'[i].kind = "event" => i \in DOMAIN queue /\ queue'[i] = queue[i]
        BY <3>1, <3>2, PluginAppended
      <3> QED BY <1>2, <3>1, <3>3 DEF PluginPast
    <2> QED BY <2>1, <2>2, <2>3 DEF Plugins!TakesGate
  <1> QED BY <1>1, <1>2, PluginAheadQueues

LEMMA PluginAheadTakes ==
  ASSUME PluginLimits, PluginTypes, PluginOrder, PluginAhead, Plugins!TakeMessage
  PROVE  PluginAhead'
  <1>1. /\ turn.event = 0 /\ UNCHANGED <<call, heard, next, slots>>
        /\ \A i \in DOMAIN queue' : i + 1 \in DOMAIN queue /\ queue'[i] = queue[i + 1]
        /\ 1 \in DOMAIN queue
        /\ IF queue[1].kind = "event"
            THEN /\ turn' = Plugins!NewTurn(queue[1].event) /\ queue[1].event \in 1..(next - 1)
                 /\ \A i \in DOMAIN queue' : queue'[i].kind = "event" => queue[1].event < queue'[i].event
            ELSE turn' = turn
    BY PluginTakes
  <1>2. ASSUME NEW n \in Nat, PluginPast(n) PROVE PluginPast(n)'
    BY <1>1, <1>2 DEF PluginPast
  <1>3. CASE queue[1].kind # "event"
    <2>1. UNCHANGED <<turn, call, heard>>
      BY <1>1, <1>3
    <2> QED BY <1>2, <2>1, PluginAheadQueues
  <1>4. CASE queue[1].kind = "event"
    <2>0. PICK n \in Nat : n = queue[1].event
      BY <1>1, <1>4 DEF PluginTypes
    <2>1. turn'.event = n /\ n \in 1..(next - 1) /\ n \in Nat /\ n # 0 /\ n < next'
          /\ PluginWaits' \subseteq Plugins!Plugins
      <3>1. turn' = Plugins!NewTurn(n) /\ n \in 1..(next - 1) /\ next \in Nat /\ slots \in Seq(Plugins!Plugins)
        BY <1>1, <1>4, <2>0 DEF PluginTypes
      <3>2. turn'.event = n /\ turn'.pending = slots
        BY <3>1 DEF Plugins!NewTurn
      <3>3. PluginWaits' = {slots[i] : i \in DOMAIN slots}
        BY <3>2 DEF PluginWaits
      <3> QED BY <1>1, <3>1, <3>2, <3>3
    <2>2. \A k \in Nat : PluginPast(k) => k < n
      BY <1>1, <1>4, <2>0 DEF PluginPast
    <2>3. PluginPast(n)'
      BY <1>1, <1>4, <2>0, <2>1 DEF PluginPast
    <2>4. \A k \in Plugins!Calls : k \in Nat
      BY PluginNames DEF Plugins!Calls
    <2>5. ASSUME NEW p \in Plugins!Plugins, NEW k \in Plugins!Calls, call[p][k] # "none"
          PROVE  PluginPast(k)' /\ call[p][k] # "looked" /\ k < n /\ (k # 0 => call[p][k] # "spawned")
      BY <1>1, <1>2, <2>2, <2>4, <2>5 DEF PluginAhead
    <2>6. \A p \in Plugins!Plugins : PluginGiven(p)' = PluginGiven(p) /\ Plugins!Inflight(p)' = Plugins!Inflight(p)
      BY <1>1 DEF PluginGiven, Plugins!Inflight
    <2>7. ASSUME NEW p \in Plugins!Plugins, NEW k \in PluginGiven(p)
          PROVE  PluginPast(k)' /\ k \in Nat /\ k < n
      BY <1>2, <2>2, <2>7 DEF PluginAhead
    <2>8. call' = call /\ heard' = heard
      BY <1>1
    <2>9. \A p \in Plugins!Plugins : call[p][n] = "none"
      <3>1. n \in Plugins!Calls
        <4>1. queue[1] \in PluginMessages
          BY <1>1 DEF PluginTypes
        <4> QED BY <2>0, <4>1, PluginNames DEF PluginMessages, Plugins!Calls
      <3> QED BY <2>1, <2>5, <3>1
    <2>a. PluginPast(turn.event)'
      BY <2>1, <2>3 DEF PluginPast
    <2>b. \A p \in Plugins!Plugins : \A k \in Plugins!Calls : call'[p][k] # "none" =>
             PluginPast(k)' /\ call'[p][k] # "looked" /\ (turn'.event # 0 => k <= turn'.event)
      BY <2>1, <2>4, <2>5, <2>8
    <2>c. \A p \in Plugins!Plugins : \A k \in Plugins!Calls : call'[p][k] = "spawned" /\ k # 0 => k = turn'.event
      BY <2>5, <2>8
    <2>d. \A p \in Plugins!Plugins : \A k \in PluginGiven(p)' :
             PluginPast(k)' /\ k \in Nat /\ (turn'.event # 0 => k <= turn'.event)
      BY <2>1, <2>6, <2>7
    <2>e. \A p \in PluginWaits' : call'[p][turn'.event] = "none" /\ \A k \in PluginGiven(p)' : k < turn'.event
      BY <2>1, <2>6, <2>7, <2>8, <2>9
    <2>f. \A p \in Plugins!Plugins : \A k \in Plugins!Calls :
             k # 0 /\ call'[p][k] \in {"spawned", "permitted"} => \A l \in PluginGiven(p)' : l < k
      BY <2>6, <2>8 DEF PluginAhead
    <2>g. /\ \A p \in Plugins!Plugins : \A k, m \in Plugins!Inflight(p)' : k = m
          /\ \A p \in Plugins!Plugins : \A i, j \in DOMAIN heard'[p] : i < j => heard'[p][i] < heard'[p][j]
      BY <2>6, <2>8 DEF PluginAhead
    <2> QED BY <2>a, <2>b, <2>c, <2>d, <2>e, <2>f, <2>g DEF PluginAhead
  <1> QED BY <1>3, <1>4

(* The queue rests. *)
LEMMA PluginAheadTurns ==
  ASSUME PluginLimits, PluginTypes, PluginAhead, UNCHANGED <<queue, next>>,
         turn'.event = turn.event \/ turn'.event = 0, turn' \in PluginTurns,
         PluginWaits' \subseteq PluginWaits, turn'.event = 0 => PluginWaits' = {},
         \A p \in Plugins!Plugins : \A n \in Plugins!Calls :
             \/ call'[p][n] = call[p][n]
             \/ call'[p][n] = "none"
             \/ /\ n = turn.event /\ n # 0 /\ call[p][n] = "none" /\ call'[p][n] = "spawned"
                /\ p \in PluginWaits \ PluginWaits'
             \/ n = 0 /\ call[p][n] = "none" /\ call'[p][n] = "spawned"
             \/ /\ call[p][n] = "spawned" /\ call'[p][n] = "permitted" /\ Plugins!Inflight(p) = {}
                /\ \A m \in Plugins!Calls \ {n} : call'[p][m] = call[p][m]
             \/ /\ call[p][n] = "permitted" /\ call'[p][n] = "running"
                /\ \A m \in Plugins!Calls \ {n} : call'[p][m] = call[p][m],
         turn'.event = 0 /\ turn.event # 0 => \A p \in Plugins!Plugins : call'[p][turn.event] # "spawned",
         \A p \in Plugins!Plugins :
             \/ heard'[p] = heard[p]
             \/ \E n \in Plugins!Calls : /\ n # 0 /\ call[p][n] = "permitted" /\ call'[p][n] = "running"
                                         /\ heard'[p] = Append(heard[p], n) /\ turn'.event = turn.event
  PROVE  PluginAhead'
  <1>1. \A n : PluginPast(n)' <=> PluginPast(n)
    BY DEF PluginPast
  <1>2. turn.event \in Nat /\ turn.event \in Plugins!Calls /\ PluginPast(0) /\ PluginWaits \subseteq Plugins!Plugins
        /\ \A n \in Plugins!Calls : n \in Nat
    <2>1. turn.event \in 0..MaxEvents /\ next \in Nat
      BY DEF PluginTypes, PluginTurns
    <2>2. PluginPast(turn.event)
      BY DEF PluginAhead
    <2>3. PluginPast(0)
      <3>1. 0 < next
        BY <2>1, <2>2 DEF PluginPast
      <3>2. ASSUME NEW i \in DOMAIN queue, queue[i].kind = "event" PROVE 0 < queue[i].event
        <4>1. queue[i] \in PluginMessages
          BY DEF PluginTypes
        <4>2. turn.event < queue[i].event /\ queue[i].event \in Nat
          BY <2>2, <3>2, <4>1, PluginNames DEF PluginPast, PluginMessages
        <4> QED BY <2>1, <4>2, PluginNames
      <3> QED BY <3>1, <3>2 DEF PluginPast
    <2>4. PluginWaits \subseteq Plugins!Plugins
      BY DEF PluginTypes, PluginTurns, PluginWaits
    <2> QED BY <2>1, <2>3, <2>4, PluginNames DEF Plugins!Calls
  <1>3. PluginPast(turn.event)'
    <2>1. PluginPast(turn.event) /\ PluginPast(0)
      BY <1>2 DEF PluginAhead
    <2>2. \E n \in {0, turn.event} : n = turn'.event
      OBVIOUS
    <2>3. PICK n \in {0, turn.event} : n = turn'.event
      BY <2>2
    <2>4. PluginPast(n)'
      BY <1>1, <2>1
    <2> QED BY <2>3, <2>4 DEF PluginPast
  <1>4. ASSUME NEW p \in Plugins!Plugins, NEW n \in Plugins!Calls, call'[p][n] # "none"
        PROVE  PluginPast(n)' /\ call'[p][n] # "looked" /\ (turn'.event # 0 => n <= turn'.event)
    <2>1. CASE call[p][n] # "none"
      <3>1. PluginPast(n) /\ call[p][n] # "looked" /\ (turn.event # 0 => n <= turn.event)
        BY <2>1 DEF PluginAhead
      <3>2. call'[p][n] # "looked"
        BY <1>4, <3>1
      <3> QED BY <1>1, <3>1, <3>2
    <2>2. CASE call[p][n] = "none"
      <3>1. call'[p][n] = "spawned" /\ n \in {0, turn.event} /\ (turn'.event = 0 => n = 0)
        BY <1>2, <1>4, <2>2
      <3>2. PluginPast(n)
        BY <1>2, <3>1 DEF PluginAhead
      <3> QED BY <1>1, <1>2, <3>1, <3>2
    <2> QED BY <2>1, <2>2
  <1>5. ASSUME NEW p \in Plugins!Plugins, NEW n \in Plugins!Calls, call'[p][n] = "spawned", n # 0
        PROVE  n = turn'.event
    <2>1. call[p][n] = "spawned" \/ n = turn.event
      BY <1>5
    <2>2. n = turn.event
      BY <1>5, <2>1 DEF PluginAhead
    <2> QED BY <1>5, <2>2
  <1>6. ASSUME NEW p \in Plugins!Plugins, NEW k \in PluginGiven(p)'
        PROVE  \/ k \in PluginGiven(p)
               \/ /\ k \in Plugins!Calls /\ k # 0 /\ call[p][k] = "permitted" /\ call'[p][k] = "running"
                  /\ turn'.event = turn.event
    <2>1. CASE heard'[p] = heard[p]
      BY <1>6, <2>1 DEF PluginGiven
    <2>2. CASE heard'[p] # heard[p]
      <3>1. PICK n \in Plugins!Calls : /\ n # 0 /\ call[p][n] = "permitted" /\ call'[p][n] = "running"
                                       /\ heard'[p] = Append(heard[p], n) /\ turn'.event = turn.event
        BY <2>2
      <3>2. heard[p] \in Seq(Plugins!Events) /\ n \in Plugins!Events
        BY <3>1, PluginNames DEF PluginTypes, Plugins!Calls, Plugins!Events
      <3>3. \A i \in DOMAIN heard'[p] : heard'[p][i] = n \/ (i \in DOMAIN heard[p] /\ heard'[p][i] = heard[p][i])
        BY <3>1, <3>2, PluginAppended
      <3> QED BY <1>6, <3>1, <3>3 DEF PluginGiven
    <2> QED BY <2>1, <2>2
  <1>7. ASSUME NEW p \in Plugins!Plugins, NEW k \in PluginGiven(p)'
        PROVE  PluginPast(k)' /\ k \in Nat /\ (turn'.event # 0 => k <= turn'.event)
    <2>1. PluginPast(k) /\ k \in Nat /\ (turn.event # 0 => k <= turn.event)
      BY <1>2, <1>6, <1>7 DEF PluginAhead
    <2> QED BY <1>1, <2>1
  <1>8. ASSUME NEW p \in PluginWaits'
        PROVE  call'[p][turn'.event] = "none" /\ \A k \in PluginGiven(p)' : k < turn'.event
    <2>1. p \in PluginWaits /\ p \in Plugins!Plugins /\ turn'.event = turn.event /\ turn.event # 0
      BY <1>2, <1>8
    <2>2. call[p][turn.event] = "none" /\ \A k \in PluginGiven(p) : k < turn.event
      BY <2>1 DEF PluginAhead
    <2>3. call'[p][turn.event] = "none"
      BY <1>2, <1>8, <2>1, <2>2
    <2>4. ASSUME NEW k \in PluginGiven(p)' PROVE k < turn.event
      <3>1. CASE k \in PluginGiven(p)
        BY <2>2, <3>1
      <3>2. CASE k \in Plugins!Calls /\ k # 0 /\ call[p][k] = "permitted"
        <4>1. k <= turn.event /\ k # turn.event
          BY <2>1, <2>2, <3>2 DEF PluginAhead
        <4> QED BY <1>2, <3>2, <4>1
      <3> QED BY <1>6, <2>1, <3>1, <3>2
    <2> QED BY <2>1, <2>3, <2>4
  <1>9. ASSUME NEW p \in Plugins!Plugins, NEW n \in Plugins!Calls, n # 0, call'[p][n] \in {"spawned", "permitted"},
               NEW k \in PluginGiven(p)'
        PROVE  k < n
    <2>1. CASE call[p][n] = "none"
      <3>1. n = turn.event /\ p \in PluginWaits
        BY <1>9, <2>1
      <3>2. call[p][turn.event] = "none" /\ \A l \in PluginGiven(p) : l < turn.event
        BY <3>1 DEF PluginAhead
      <3>3. CASE k \in PluginGiven(p)
        BY <3>1, <3>2, <3>3
      <3>4. CASE k \in Plugins!Calls /\ k # 0 /\ call[p][k] = "permitted"
        <4>1. k <= turn.event /\ k # turn.event
          BY <1>9, <3>1, <3>2, <3>4 DEF PluginAhead
        <4> QED BY <1>2, <3>1, <3>4, <4>1
      <3> QED BY <1>6, <1>9, <3>3, <3>4
    <2>2. CASE call[p][n] # "none"
      <3>1. call[p][n] \in {"spawned", "permitted"}
        BY <1>9, <2>2
      <3>2. CASE k \in PluginGiven(p)
        BY <1>9, <3>1, <3>2 DEF PluginAhead
      <3>3. CASE k \in Plugins!Calls /\ k # 0 /\ call[p][k] = "permitted" /\ call'[p][k] = "running"
        <4>1. k # n
          BY <1>9, <3>3
        <4>2. call[p][n] = "spawned" => k < n
          <5>1. call[p][n] = "spawned" => n = turn.event /\ k <= turn.event
            BY <1>9, <3>3 DEF PluginAhead
          <5> QED BY <1>2, <3>3, <4>1, <5>1
        <4>3. call[p][n] # "permitted"
          BY <3>3, <4>1 DEF PluginAhead, Plugins!Inflight
        <4> QED BY <3>1, <4>2, <4>3
      <3> QED BY <1>6, <1>9, <3>2, <3>3
    <2> QED BY <2>1, <2>2
  <1>a. ASSUME NEW p \in Plugins!Plugins, NEW m \in Plugins!Inflight(p)', NEW n \in Plugins!Inflight(p)', m # n PROVE FALSE
    <2>0. m \in Plugins!Calls /\ n \in Plugins!Calls /\ call'[p][m] \in {"permitted", "running"}
          /\ call'[p][n] \in {"permitted", "running"}
      BY DEF Plugins!Inflight
    <2>1. \A l \in Plugins!Calls : call'[p][l] \in {"permitted", "running"} /\ l \notin Plugins!Inflight(p) =>
              Plugins!Inflight(p) = {} /\ \A k \in Plugins!Calls \ {l} : call'[p][k] = call[p][k]
      BY DEF Plugins!Inflight
    <2>2. m \in Plugins!Inflight(p) /\ n \in Plugins!Inflight(p)
      <3>1. CASE m \notin Plugins!Inflight(p)
        <4>1. call'[p][n] = call[p][n] /\ Plugins!Inflight(p) = {}
          BY <1>a, <2>0, <2>1, <3>1
        <4> QED BY <2>0, <4>1 DEF Plugins!Inflight
      <3>2. CASE n \notin Plugins!Inflight(p)
        <4>1. call'[p][m] = call[p][m] /\ Plugins!Inflight(p) = {}
          BY <1>a, <2>0, <2>1, <3>2
        <4> QED BY <2>0, <4>1 DEF Plugins!Inflight
      <3> QED BY <3>1, <3>2
    <2> QED BY <1>a, <2>2 DEF PluginAhead
  <1>b. ASSUME NEW p \in Plugins!Plugins, NEW i \in DOMAIN heard'[p], NEW j \in DOMAIN heard'[p], i < j
        PROVE  heard'[p][i] < heard'[p][j]
    <2>1. CASE heard'[p] = heard[p]
      BY <1>b, <2>1 DEF PluginAhead
    <2>2. CASE heard'[p] # heard[p]
      <3>1. PICK n \in Plugins!Calls : n # 0 /\ call[p][n] = "permitted" /\ heard'[p] = Append(heard[p], n)
        BY <2>2
      <3>2. heard[p] \in Seq(Plugins!Events) /\ n \in Plugins!Events
        BY <3>1, PluginNames DEF PluginTypes, Plugins!Calls, Plugins!Events
      <3>3. /\ DOMAIN heard'[p] = 1..(Len(heard[p]) + 1)
            /\ DOMAIN heard[p] = 1..Len(heard[p]) /\ Len(heard[p]) \in Nat
            /\ \A l \in 1..Len(heard[p]) : heard'[p][l] = heard[p][l]
            /\ heard'[p][Len(heard[p]) + 1] = n
        BY <3>1, <3>2, PluginAppended
      <3>4. i \in DOMAIN heard[p] /\ heard'[p][i] = heard[p][i] /\ heard[p][i] \in PluginGiven(p)
        BY <1>b, <3>3 DEF PluginGiven
      <3>5. CASE j \in DOMAIN heard[p]
        BY <1>b, <3>3, <3>4, <3>5 DEF PluginAhead
      <3>6. CASE j = Len(heard[p]) + 1
        BY <3>1, <3>3, <3>4, <3>6 DEF PluginAhead
      <3> QED BY <3>3, <3>5, <3>6
    <2> QED BY <2>1, <2>2
  <1> QED BY <1>3, <1>4, <1>5, <1>7, <1>8, <1>9, <1>a, <1>b DEF PluginAhead

LEMMA PluginAheadStep ==
  ASSUME PluginLimits, PluginTypes, PluginOrder, PluginAhead, ~Plugins!Has("stall"), [Plugins!Next]_(Plugins!vars)
  PROVE  PluginAhead'
  <1>1. CASE Plugins!DispatchEvent \/ Plugins!TakesGate("flush") \/ Plugins!TakesGate("stop") \/ Plugins!ControlEnters
    BY <1>1, PluginAheadSenders
  <1>2. CASE Plugins!TakeMessage
    BY <1>2, PluginAheadTakes
  <1>3. CASE Plugins!SpawnOne
    <2>1. PICK p \in Plugins!Plugins : p \in PluginWaits /\ PluginWaits' = PluginWaits \ {p}
                                       /\ call' = [call EXCEPT ![p][turn.event] = "spawned"]
      BY <1>3, PluginSpawns
    <2>2. /\ turn.event # 0 /\ turn'.event = turn.event /\ UNCHANGED <<queue, next, heard>> /\ turn' \in PluginTurns
          /\ turn.event \in Plugins!Calls
      BY <1>3, PluginSpawns, PluginNames DEF PluginTypes
    <2>3. call[p][turn.event] = "none"
      BY <2>1 DEF PluginAhead
    <2>4. \A q \in Plugins!Plugins : \A n \in Plugins!Calls :
             call'[q][n] = IF q = p /\ n = turn.event THEN "spawned" ELSE call[q][n]
      BY <2>1, <2>2 DEF PluginTypes
    <2>5. p \in PluginWaits \ PluginWaits' /\ PluginWaits' \subseteq PluginWaits
      BY <2>1
    <2>6. \A q \in Plugins!Plugins : heard'[q] = heard[q]
      BY <2>2
    <2>7. \A q \in Plugins!Plugins : \A n \in Plugins!Calls :
             \/ call'[q][n] = call[q][n]
             \/ /\ n = turn.event /\ n # 0 /\ call[q][n] = "none" /\ call'[q][n] = "spawned"
                /\ q \in PluginWaits \ PluginWaits'
      BY <2>2, <2>3, <2>4, <2>5
    <2> QED BY ONLY PluginLimits, PluginTypes, PluginAhead, <2>2, <2>5, <2>6, <2>7, PluginAheadTurns
  <1>4. CASE Plugins!TurnEnds \/ Plugins!EventDeadline
    <2>1. /\ turn'.event = 0 /\ turn' \in PluginTurns /\ PluginWaits' = {} /\ UNCHANGED <<queue, next, heard>>
          /\ turn.event \in Plugins!Calls
          /\ \A q \in Plugins!Plugins : \A n \in Plugins!Calls :
               call'[q][n] = IF n = turn.event /\ call[q][n] = "spawned" THEN "none" ELSE call[q][n]
      BY <1>4, PluginTurnEnds, PluginNames DEF PluginTypes, Plugins!NoTurn
    <2>2. PluginWaits' \subseteq PluginWaits /\ \A q \in Plugins!Plugins : heard'[q] = heard[q]
      BY <2>1
    <2>3. /\ \A q \in Plugins!Plugins : call'[q][turn.event] # "spawned"
          /\ \A q \in Plugins!Plugins : \A n \in Plugins!Calls : call'[q][n] = call[q][n] \/ call'[q][n] = "none"
      BY <2>1
    <2> QED BY ONLY PluginLimits, PluginTypes, PluginAhead, <2>1, <2>2, <2>3, PluginAheadTurns
  <1>5. ASSUME NEW p \in Plugins!Plugins, NEW n \in Plugins!Calls,
               Plugins!Thread(p, n) \/ (n = 0 /\ (Plugins!CallApi(p) \/ Plugins!ApiDeadline(p)))
        PROVE  PluginAhead'
    <2>1. /\ UNCHANGED <<queue, next, turn>> /\ PluginWaits' = PluginWaits
          /\ \A q \in Plugins!Plugins : \A m \in Plugins!Calls : q # p \/ m # n => call'[q][m] = call[q][m]
          /\ \A q \in Plugins!Plugins \ {p} : heard'[q] = heard[q]
          /\ \/ heard' = heard
             \/ /\ n # 0 /\ call[p][n] = "permitted" /\ call'[p][n] = "running"
                /\ heard'[p] = Append(heard[p], n)
      BY <1>5, PluginCalls
    <2>2. call[p][n] # "looked"
      BY DEF PluginAhead
    <2>3. call' = call \/ \E to \in {"none", "spawned", "permitted", "running"} :
             /\ call' = [call EXCEPT ![p][n] = to]
             /\ to = "spawned" => n = 0 /\ call[p][n] = "none"
             /\ to = "permitted" => call[p][n] = "spawned" /\ Plugins!Inflight(p) = {}
             /\ to = "running" => call[p][n] = "permitted"
      BY <1>5, <2>2 DEF Plugins!Thread, Plugins!TryExecution, Plugins!ClaimLate, Plugins!EnterGuest,
           Plugins!GuestReturns, Plugins!GuestRegisters, Plugins!CallApi, Plugins!ApiDeadline,
           Plugins!Released, Plugins!Admits
    <2>4. /\ \A m \in Plugins!Calls \ {n} : call'[p][m] = call[p][m]
          /\ \/ call'[p][n] = call[p][n]
             \/ call'[p][n] = "none"
             \/ n = 0 /\ call[p][n] = "none" /\ call'[p][n] = "spawned"
             \/ call[p][n] = "spawned" /\ call'[p][n] = "permitted" /\ Plugins!Inflight(p) = {}
             \/ call[p][n] = "permitted" /\ call'[p][n] = "running"
      BY <2>1, <2>3 DEF PluginTypes
    <2>5. turn' \in PluginTurns /\ turn'.event = turn.event
      BY <2>1 DEF PluginTypes
    <2>6. turn'.event = 0 => PluginWaits' = {}
      BY <2>1 DEF PluginOrder, PluginListed, PluginWaits
    <2>7. \A q \in Plugins!Plugins : \A m \in Plugins!Calls :
             \/ call'[q][m] = call[q][m]
             \/ call'[q][m] = "none"
             \/ m = 0 /\ call[q][m] = "none" /\ call'[q][m] = "spawned"
             \/ /\ call[q][m] = "spawned" /\ call'[q][m] = "permitted" /\ Plugins!Inflight(q) = {}
                /\ \A k \in Plugins!Calls \ {m} : call'[q][k] = call[q][k]
             \/ /\ call[q][m] = "permitted" /\ call'[q][m] = "running"
                /\ \A k \in Plugins!Calls \ {m} : call'[q][k] = call[q][k]
      BY <2>1, <2>4
    <2>8. \A q \in Plugins!Plugins :
             \/ heard'[q] = heard[q]
             \/ \E m \in Plugins!Calls : /\ m # 0 /\ call[q][m] = "permitted" /\ call'[q][m] = "running"
                                         /\ heard'[q] = Append(heard[q], m) /\ turn'.event = turn.event
      BY <2>1, <2>5
    <2>9. UNCHANGED <<queue, next>> /\ PluginWaits' \subseteq PluginWaits
          /\ ~(turn'.event = 0 /\ turn.event # 0)
      BY <2>1, <2>5
    <2> QED BY ONLY PluginLimits, PluginTypes, PluginAhead, <2>5, <2>6, <2>7, <2>8, <2>9, PluginAheadTurns
  <1>6. CASE PluginAdmin \/ (\E p \in Plugins!Plugins : Plugins!InitRegisters(p)) \/ UNCHANGED Plugins!vars
    <2>1. UNCHANGED <<queue, next, turn, call, heard>>
      BY <1>6, PluginAdmins DEF Plugins!vars
    <2>2. \A n \in Nat : PluginPast(n) => PluginPast(n)'
      BY <2>1 DEF PluginPast
    <2> QED BY <2>1, <2>2, PluginAheadQueues
  <1>7. 0 \in Plugins!Calls
    BY PluginNames
  <1> QED BY <1>1, <1>2, <1>3, <1>4, <1>5, <1>6, <1>7 DEF Plugins!Next, PluginAdmin

-----------------------------------------------------------------------------
\* Where nothing is called beside the events and no deadline passes.
PluginCalm == pluginTrouble \cap {"api", "slow", "stall"} = {}

PluginQueues(n) == \E i \in DOMAIN queue : queue[i].kind = "event" /\ queue[i].event = n

\* Only the event of the turn is run.
PluginAlone ==
    \A p \in Plugins!Plugins : \A n \in Plugins!Calls :
        call[p][n] # "none" => n # 0 /\ n = turn.event /\ call[p][n] # "looked"

\* Nothing is kept from a plugin, and until the first command all are there.
PluginThere ==
    /\ missed = {}
    /\ \A p \in Plugins!There : ~host[p].quarantined
    /\ commands = 0 => /\ task = Plugins!Idle
                       /\ \A p \in Plugins!Plugins : init[p] = "none" /\ p \in Plugins!There

\* An event that was accepted is in the queue, at work, or has been heard by
\* the plugins that nobody touched and that did not fail.
PluginHears(p, n) == commands = 0 /\ host[p].enabled => n \in PluginGiven(p)
PluginServing ==
    /\ turn.event # 0 => \A p \in Plugins!Plugins :
           p \in PluginWaits \/ call[p][turn.event] \in {"spawned", "permitted"} \/ PluginHears(p, turn.event)
    /\ \A n \in accepted : PluginQueues(n) \/ n = turn.event \/ \A p \in Plugins!Plugins : PluginHears(p, n)

\* The events a flush waits for are before its message.
PluginFlushing ==
    /\ \A n \in accepted : n < next
    /\ owed \subseteq accepted
    /\ gate = "flush" => flush = "none"
    /\ flush = "none" => \A i \in DOMAIN queue : queue[i].kind # "flush"
    /\ \A i, j \in DOMAIN queue :
           queue[i].kind = "flush" /\ queue[j].kind = "event" /\ queue[j].event \in owed => j < i
    /\ flush = "acked" => \A n \in owed : ~PluginQueues(n) /\ n # turn.event

PluginSteady == PluginAlone /\ PluginThere /\ PluginServing /\ PluginFlushing

-----------------------------------------------------------------------------
LEMMA PluginFlushingStep ==
  ASSUME PluginLimits, PluginTypes, PluginOrder, PluginCalm, PluginFlushing, [Plugins!Next]_(Plugins!vars)
  PROVE  PluginFlushing'
  <1> USE PluginNames
  <1>1. CASE Plugins!DispatchEvent
    <2>1. /\ next \in Plugins!Events /\ next' = next + 1 /\ next \in Nat /\ UNCHANGED <<gate, flush, owed, turn>>
          /\ \/ queue' = Append(queue, Plugins!Message("event", next)) /\ accepted' = accepted \cup {next}
             \/ UNCHANGED <<queue, accepted>>
          /\ accepted \subseteq Nat /\ gate = "free"
      BY <1>1 DEF Plugins!DispatchEvent, PluginTypes
    <2>2. ASSUME NEW n \in accepted' PROVE n < next'
      <3>1. n = next \/ n \in accepted
        BY <2>1
      <3>2. n \in accepted => n < next /\ n \in Nat
        BY <2>1 DEF PluginFlushing
      <3> QED BY <2>1, <3>1, <3>2
    <2>3. owed' \subseteq accepted' /\ next \notin owed
      BY <2>1 DEF PluginFlushing
    <2>4. CASE queue' = queue
      BY <2>1, <2>2, <2>3, <2>4 DEF PluginFlushing, PluginQueues
    <2>5. CASE queue' = Append(queue, Plugins!Message("event", next))
      <3>1. queue \in Seq(PluginMessages) /\ Plugins!Message("event", next) \in PluginMessages
        BY <2>1 DEF PluginTypes, PluginMessages, Plugins!Message
      <3>2. /\ DOMAIN queue' = 1..(Len(queue) + 1) /\ DOMAIN queue = 1..Len(queue)
            /\ \A i \in 1..Len(queue) : queue'[i] = queue[i]
            /\ queue'[Len(queue) + 1].event = next /\ queue'[Len(queue) + 1].kind = "event" /\ Len(queue) \in Nat
        BY <2>5, <3>1, PluginAppended DEF Plugins!Message
      <3>3. \A i \in DOMAIN queue' : queue'[i].kind = "flush" \/ queue'[i].event \in owed =>
                i \in DOMAIN queue /\ queue'[i] = queue[i]
        BY <2>3, <3>2
      <3>4. \A i, j \in DOMAIN queue' :
               queue'[i].kind = "flush" /\ queue'[j].kind = "event" /\ queue'[j].event \in owed => j < i
        BY <3>3 DEF PluginFlushing
      <3>5. flush = "acked" => \A n \in owed : ~PluginQueues(n)' /\ n # turn.event
        BY <2>1, <3>3 DEF PluginFlushing, PluginQueues
      <3>6. flush = "none" => \A i \in DOMAIN queue' : queue'[i].kind # "flush"
        BY <3>3 DEF PluginFlushing
      <3> QED BY <2>1, <2>2, <2>3, <3>4, <3>5, <3>6 DEF PluginFlushing
    <2> QED BY <2>1, <2>4, <2>5
  <1>2. CASE Plugins!TakesGate("flush") \/ Plugins!TakesGate("stop")
    <2>1. /\ UNCHANGED <<queue, next, accepted, flush, turn>> /\ (owed' = owed \/ (owed' = accepted /\ flush = "none"))
          /\ gate' = "flush" => flush = "none"
      BY <1>2 DEF Plugins!TakesGate
    <2> QED BY <2>1 DEF PluginFlushing, PluginQueues
  <1>3. CASE Plugins!ControlEnters
    <2>1. /\ queue' = Append(queue, Plugins!Message(gate, 0)) /\ gate \in {"flush", "stop"} /\ gate' = "free"
          /\ flush' = (IF gate = "flush" THEN "asked" ELSE flush) /\ UNCHANGED <<next, accepted, owed, turn>>
      BY <1>3 DEF Plugins!ControlEnters, PluginTypes
    <2>2. queue \in Seq(PluginMessages) /\ Plugins!Message(gate, 0) \in PluginMessages
      BY <2>1 DEF PluginTypes, PluginMessages, Plugins!Message
    <2>3. /\ DOMAIN queue' = 1..(Len(queue) + 1) /\ DOMAIN queue = 1..Len(queue)
          /\ \A i \in 1..Len(queue) : queue'[i] = queue[i]
          /\ queue'[Len(queue) + 1].kind = gate /\ Len(queue) \in Nat
      BY <2>1, <2>2, PluginAppended DEF Plugins!Message
    <2>4. \A j \in DOMAIN queue' : queue'[j].kind = "event" => j \in DOMAIN queue /\ queue'[j] = queue[j]
      BY <2>1, <2>3
    <2>5. \A i, j \in DOMAIN queue' :
             queue'[i].kind = "flush" /\ queue'[j].kind = "event" /\ queue'[j].event \in owed => j < i
      <3> SUFFICES ASSUME NEW i \in DOMAIN queue', NEW j \in DOMAIN queue', queue'[i].kind = "flush",
                          queue'[j].kind = "event", queue'[j].event \in owed
                   PROVE  j < i
        OBVIOUS
      <3>1. j \in DOMAIN queue /\ queue'[j] = queue[j]
        BY <2>4
      <3>2. CASE i \in DOMAIN queue
        BY <2>3, <3>1, <3>2 DEF PluginFlushing
      <3>3. CASE i = Len(queue) + 1
        BY <2>3, <3>1, <3>3
      <3> QED BY <2>3, <3>2, <3>3
    <2>6. flush' = "none" => \A i \in DOMAIN queue' : queue'[i].kind # "flush"
      <3>1. \A i \in DOMAIN queue' : queue'[i].kind = gate \/ (i \in DOMAIN queue /\ queue'[i] = queue[i])
        BY <2>3
      <3> QED BY <2>1, <3>1 DEF PluginFlushing
    <2>7. flush' = "acked" => \A n \in owed : ~PluginQueues(n)' /\ n # turn.event
      BY <2>1, <2>4 DEF PluginFlushing, PluginQueues
    <2> QED BY <2>1, <2>5, <2>6, <2>7 DEF PluginFlushing
  <1>4. CASE Plugins!TakeMessage
    <2>0. owed' = owed
      BY <1>4 DEF Plugins!TakeMessage
    <2>1. /\ UNCHANGED <<gate, next, accepted>> /\ turn.event = 0
          /\ DOMAIN queue = 1..Len(queue) /\ Len(queue) \in Nat /\ 1 \in DOMAIN queue
          /\ DOMAIN queue' = 1..(Len(queue) - 1)
          /\ \A i \in DOMAIN queue' : i + 1 \in DOMAIN queue /\ queue'[i] = queue[i + 1]
          /\ IF queue[1].kind = "event"
             THEN /\ turn' = Plugins!NewTurn(queue[1].event) /\ queue[1].event \in 1..(next - 1)
             ELSE turn' = turn
          /\ flush' = IF queue[1].kind = "flush" THEN "acked" ELSE flush
      BY <1>4, PluginTakes
    <2>2. ASSUME NEW i \in DOMAIN queue', NEW j \in DOMAIN queue', queue'[i].kind = "flush",
                 queue'[j].kind = "event", queue'[j].event \in owed
          PROVE  j < i
      <3>1. j + 1 < i + 1
        BY <2>1, <2>2 DEF PluginFlushing
      <3> QED BY <2>1, <3>1
    <2>3. flush' = "none" => \A i \in DOMAIN queue' : queue'[i].kind # "flush"
      BY <2>1 DEF PluginFlushing
    <2>4. ASSUME flush' = "acked", NEW n \in owed PROVE ~PluginQueues(n)' /\ n # turn'.event
      <3>1. n \in Plugins!Events /\ n # 0
        BY DEF PluginFlushing, PluginTypes
      <3>2. ~PluginQueues(n)
        <4>1. CASE queue[1].kind = "flush"
          <5>1. ASSUME NEW j \in DOMAIN queue, queue[j].kind = "event", queue[j].event = n PROVE FALSE
            <6>1. j < 1
              BY <2>1, <2>4, <4>1, <5>1 DEF PluginFlushing
            <6> QED BY <2>1, <6>1
          <5> QED BY <5>1 DEF PluginQueues
        <4>2. CASE queue[1].kind # "flush"
          BY <2>1, <2>4, <4>2 DEF PluginFlushing
        <4> QED BY <4>1, <4>2
      <3>3. ~PluginQueues(n)'
        BY <2>1, <3>2 DEF PluginQueues
      <3>4. n # turn'.event
        BY <2>1, <3>1, <3>2 DEF PluginQueues, Plugins!NewTurn
      <3> QED BY <3>3, <3>4
    <2> QED BY <2>0, <2>1, <2>2, <2>3, <2>4 DEF PluginFlushing
  <1>5. CASE Plugins!SpawnOne \/ Plugins!TurnEnds
    <2>1. UNCHANGED <<queue, gate, next, accepted, flush, owed>> /\ turn'.event \in {turn.event, 0}
      BY <1>5, PluginSpawns DEF Plugins!SpawnOne, Plugins!TurnEnds, Plugins!dispatch, Plugins!NoTurn
    <2>2. 0 \notin owed
      BY DEF PluginFlushing, PluginTypes, Plugins!Events
    <2> QED BY <2>1, <2>2 DEF PluginFlushing, PluginQueues
  <1>6. ASSUME UNCHANGED <<queue, gate, next, accepted, flush, owed, turn>> PROVE PluginFlushing'
    BY <1>6 DEF PluginFlushing, PluginQueues
  <1>7. CASE \/ \E p \in Plugins!Plugins : \E n \in Plugins!Calls : Plugins!Thread(p, n)
             \/ \E p \in Plugins!Plugins : Plugins!CallApi(p) \/ Plugins!ApiDeadline(p)
    BY <1>6, <1>7 DEF Plugins!Thread, Plugins!TryExecution, Plugins!ClaimLate, Plugins!EnterGuest,
           Plugins!GuestReturns, Plugins!GuestRegisters, Plugins!CallApi, Plugins!ApiDeadline, Plugins!dispatch
  <1>8. CASE PluginAdmin \/ (\E p \in Plugins!Plugins : Plugins!InitRegisters(p)) \/ UNCHANGED Plugins!vars
    <2>1. UNCHANGED <<queue, gate, next, accepted, flush, owed, turn>>
      BY <1>8, PluginAdmins DEF Plugins!vars
    <2> QED BY <1>6, <2>1
  <1>9. ~Plugins!EventDeadline
    BY DEF PluginCalm, Plugins!EventDeadline, Plugins!Has
  <1> QED BY <1>1, <1>2, <1>3, <1>4, <1>5, <1>7, <1>8, <1>9 DEF Plugins!Next, PluginAdmin

(* The administrator has given a command. *)
LEMMA PluginCommands ==
  ASSUME PluginTypes, PluginOrder, PluginThere, PluginAdmin
  PROVE  commands' # 0
  <1>1. Plugins!Command => commands' # 0
    BY DEF Plugins!Command, PluginTypes
  <1>2. /\ Plugins!Idle.does = "idle"
        /\ commands = 0 => task.does = "idle" /\ \A p \in Plugins!Plugins : init[p] = "none"
    BY DEF PluginThere, Plugins!Idle
  <1>3. ASSUME NEW p \in Plugins!Plugins, Plugins!LoadEnds(p) \/ Plugins!LoadDeadline(p) \/ Plugins!LateInitEnds(p)
        PROVE  commands' # 0
    BY <1>2, <1>3 DEF Plugins!LoadEnds, Plugins!LoadDeadline, Plugins!LateInitEnds
  <1>4. CASE Plugins!RemoveForgets \/ Plugins!ReloadClears \/ Plugins!LoadBegins \/ Plugins!LoadDone
    BY <1>2, <1>4 DEF Plugins!RemoveForgets, Plugins!ReloadClears, Plugins!LoadBegins, Plugins!LoadDone
  <1> QED BY <1>1, <1>3, <1>4 DEF PluginAdmin, Plugins!SetEnabled, Plugins!RemoveMarks, Plugins!ReloadTakes

(* What a thread may do in calm. *)
LEMMA PluginThreads ==
  ASSUME PluginLimits, PluginTypes, PluginOrder, PluginCalm, PluginAlone, PluginThere,
         NEW p \in Plugins!Plugins, NEW n \in Plugins!Calls, Plugins!Thread(p, n)
  PROVE  /\ n # 0 /\ n = turn.event /\ call[p][n] # "none" /\ missed' = missed
         /\ \A q \in Plugins!Plugins : \A m \in Plugins!Calls : q # p \/ m # n => call'[q][m] = call[q][m]
         /\ \/ call'[p][n] = call[p][n] /\ UNCHANGED <<heard, host>>
            \/ call[p][n] = "spawned" /\ call'[p][n] = "permitted" /\ UNCHANGED <<heard, host>>
            \/ call[p][n] = "spawned" /\ call'[p][n] = "none" /\ p \notin Plugins!There /\ UNCHANGED <<heard, host>>
            \/ call[p][n] = "permitted" /\ call'[p][n] = "running" /\ heard' = [heard EXCEPT ![p] = Append(heard[p], n)]
               /\ UNCHANGED host
            \/ call[p][n] = "permitted" /\ call'[p][n] = "none" /\ UNCHANGED heard
               /\ host' = [host EXCEPT ![p].enabled = FALSE]
            \/ call[p][n] = "running" /\ call'[p][n] = "none" /\ UNCHANGED heard
               /\ (host' = host \/ host' = [host EXCEPT ![p].enabled = FALSE])
  <1>1. call[p][n] # "none"
    BY DEF Plugins!Thread, Plugins!TryExecution, Plugins!ClaimLate, Plugins!EnterGuest, Plugins!GuestReturns,
           Plugins!GuestRegisters
  <1>2. n # 0 /\ n = turn.event /\ call[p][n] # "looked" /\ ~Plugins!ClaimLate(p, n)
    BY <1>1 DEF PluginAlone, Plugins!ClaimLate
  <1>3. \A q \in Plugins!Plugins : \A m \in Plugins!Calls : q # p \/ m # n => call'[q][m] = call[q][m]
    BY PluginCalls
  <1>r. \A to : call' = [call EXCEPT ![p][n] = to] => call'[p][n] = to
    BY DEF PluginTypes
  <1>4. CASE Plugins!TryExecution(p, n)
    <2>0. call[p][n] = "spawned" /\ UNCHANGED <<heard, host>>
      BY <1>4 DEF Plugins!TryExecution
    <2>1. Plugins!Inflight(p) = {}
      BY <1>2, <2>0 DEF PluginAlone, Plugins!Inflight
    <2>2. CASE Plugins!Admits(p)
      <3>1. call' = [call EXCEPT ![p][n] = "permitted"] /\ missed' = missed
        BY <1>4, <2>2 DEF Plugins!TryExecution, PluginCalm, Plugins!Has
      <3>2. call'[p][n] = "permitted"
        BY <1>r, <3>1
      <3> QED BY <1>1, <1>2, <1>3, <2>0, <3>1, <3>2
    <2>3. CASE ~Plugins!Admits(p)
      <3>1. p \notin Plugins!There
        BY <2>1, <2>3 DEF Plugins!Admits, PluginThere
      <3>2. call' = [call EXCEPT ![p][n] = "none"] /\ missed' = missed
        BY <1>4, <2>3, <3>1 DEF Plugins!TryExecution, Plugins!Released, Plugins!Kept
      <3>3. call'[p][n] = "none"
        BY <1>r, <3>2
      <3> QED BY <1>1, <1>2, <1>3, <2>0, <3>1, <3>2, <3>3
    <2> QED BY <2>2, <2>3
  <1>5. CASE Plugins!EnterGuest(p, n)
    <2>0. call[p][n] = "permitted" /\ missed' = missed
      BY <1>5 DEF Plugins!EnterGuest
    <2>1. CASE host[p].enabled /\ host[p].live
      <3>1. /\ call' = [call EXCEPT ![p][n] = "running"] /\ host' = host
            /\ heard' = [heard EXCEPT ![p] = Append(heard[p], n)]
        BY <1>2, <1>5, <2>1 DEF Plugins!EnterGuest
      <3>2. call'[p][n] = "running"
        BY <1>r, <3>1
      <3> QED BY <1>1, <1>2, <1>3, <2>0, <3>1, <3>2
    <2>2. CASE ~(host[p].enabled /\ host[p].live)
      <3>1. /\ call' = [call EXCEPT ![p][n] = "none"] /\ heard' = heard
            /\ host' = [host EXCEPT ![p].enabled = FALSE]
        BY <1>2, <1>5, <2>2 DEF Plugins!EnterGuest, Plugins!Released
      <3>2. call'[p][n] = "none"
        BY <1>r, <3>1
      <3> QED BY <1>1, <1>2, <1>3, <2>0, <3>1, <3>2
    <2> QED BY <2>1, <2>2
  <1>6. CASE Plugins!GuestReturns(p, n)
    <2>1. /\ call[p][n] = "running" /\ call' = [call EXCEPT ![p][n] = "none"] /\ UNCHANGED <<heard, missed>>
          /\ host' = host \/ host' = [host EXCEPT ![p].enabled = FALSE]
      BY <1>6 DEF Plugins!GuestReturns, Plugins!Released
    <2>2. call'[p][n] = "none"
      BY <1>r, <2>1
    <2> QED BY <1>1, <1>2, <1>3, <2>1, <2>2
  <1>7. CASE Plugins!GuestRegisters(p, n)
    <2>1. UNCHANGED <<call, heard, host, missed>>
      BY <1>7 DEF Plugins!GuestRegisters
    <2> QED BY <1>1, <1>2, <1>3, <2>1
  <1> QED BY <1>2, <1>4, <1>5, <1>6, <1>7 DEF Plugins!Thread

LEMMA PluginAloneStep ==
  ASSUME PluginLimits, PluginTypes, PluginOrder, PluginCalm, PluginAlone, PluginThere, [Plugins!Next]_(Plugins!vars)
  PROVE  PluginAlone'
  <1>1. ASSUME UNCHANGED call, turn'.event = turn.event PROVE PluginAlone'
    BY <1>1 DEF PluginAlone
  <1>2. CASE \/ Plugins!DispatchEvent \/ Plugins!TakesGate("flush") \/ Plugins!TakesGate("stop") \/ Plugins!ControlEnters
             \/ UNCHANGED Plugins!vars
    <2>1. UNCHANGED <<call, turn>>
      BY <1>2 DEF Plugins!DispatchEvent, Plugins!TakesGate, Plugins!ControlEnters, Plugins!vars
    <2> QED BY <1>1, <2>1
  <1>3. CASE Plugins!TakeMessage
    <2>1. turn.event = 0 /\ call' = call
      BY <1>3, PluginTakes
    <2> QED BY <2>1 DEF PluginAlone
  <1>4. CASE Plugins!SpawnOne
    <2>1. PICK p \in Plugins!Plugins : call' = [call EXCEPT ![p][turn.event] = "spawned"]
      BY <1>4, PluginSpawns
    <2>2. turn.event # 0 /\ turn'.event = turn.event /\ turn.event \in Plugins!Calls
      BY <1>4, PluginSpawns, PluginNames
    <2>3. \A q \in Plugins!Plugins : \A n \in Plugins!Calls :
             call'[q][n] = IF q = p /\ n = turn.event THEN "spawned" ELSE call[q][n]
      BY <2>1, <2>2 DEF PluginTypes
    <2> QED BY <2>2, <2>3 DEF PluginAlone
  <1>5. CASE Plugins!TurnEnds
    <2>1. call' = call /\ \A q \in Plugins!Plugins : call[q][turn.event] = "none"
      BY <1>5 DEF Plugins!TurnEnds, Plugins!Alive
    <2> QED BY <2>1 DEF PluginAlone
  <1>6. ASSUME NEW p \in Plugins!Plugins, NEW n \in Plugins!Calls, Plugins!Thread(p, n) PROVE PluginAlone'
    <2>1. /\ n # 0 /\ n = turn.event /\ call'[p][n] # "looked"
          /\ \A q \in Plugins!Plugins : \A m \in Plugins!Calls : q # p \/ m # n => call'[q][m] = call[q][m]
      <3>1. call[p][n] # "looked"
        BY DEF PluginAlone
      <3> QED BY <1>6, <3>1, PluginThreads
    <2>2. turn' = turn
      BY <1>6, PluginCalls
    <2> QED BY <2>1, <2>2 DEF PluginAlone
  <1>7. CASE PluginAdmin \/ \E p \in Plugins!Plugins : Plugins!InitRegisters(p)
    BY <1>1, <1>7, PluginAdmins
  <1>8. ~Plugins!EventDeadline /\ \A p \in Plugins!Plugins : ~Plugins!CallApi(p) /\ ~Plugins!ApiDeadline(p)
    BY PluginNames DEF PluginCalm, Plugins!EventDeadline, Plugins!Has, Plugins!CallApi, Plugins!ApiDeadline, PluginAlone
  <1> QED BY <1>2, <1>3, <1>4, <1>5, <1>6, <1>7, <1>8 DEF Plugins!Next, PluginAdmin

(* Who is in the registry. *)
LEMMA PluginRegistry ==
  ASSUME PluginLimits, PluginTypes, PluginOrder
  PROVE  /\ \A p \in Plugins!Plugins : Plugins!RemoveMarks(p) => Plugins!There' = Plugins!There \ {p}
         /\ \A p \in Plugins!Plugins : slots' = Append(slots, p) => Plugins!There' = Plugins!There \cup {p}
         /\ Plugins!ReloadTakes => Plugins!There' = {}
         /\ slots' = slots => Plugins!There' = Plugins!There
         /\ Plugins!There \subseteq Plugins!Plugins
  <1>1. ASSUME NEW p \in Plugins!Plugins, Plugins!RemoveMarks(p) PROVE Plugins!There' = Plugins!There \ {p}
    <2>1. PICK i \in DOMAIN slots : slots[i] = p /\ slots' = Plugins!Without(i)
      BY <1>1 DEF Plugins!RemoveMarks
    <2>2. {Plugins!Without(i)[j] : j \in DOMAIN Plugins!Without(i)} = Plugins!There \ {slots[i]}
      BY PluginWithout
    <2>3. Plugins!There' = {slots'[j] : j \in DOMAIN slots'}
      BY DEF Plugins!There
    <2> QED BY <2>1, <2>2, <2>3
  <1>2. ASSUME NEW p \in Plugins!Plugins, slots' = Append(slots, p) PROVE Plugins!There' = Plugins!There \cup {p}
    <2>1. slots \in Seq(Plugins!Plugins)
      BY DEF PluginTypes
    <2>2. /\ DOMAIN slots' = 1..(Len(slots) + 1) /\ DOMAIN slots = 1..Len(slots) /\ Len(slots) \in Nat
          /\ \A i \in 1..Len(slots) : slots'[i] = slots[i]
          /\ slots'[Len(slots) + 1] = p
      BY <1>2, <2>1, PluginAppended
    <2>3. Plugins!There' = {slots'[j] : j \in DOMAIN slots'}
      BY DEF Plugins!There
    <2>4. DOMAIN slots' = DOMAIN slots \cup {Len(slots) + 1}
      BY <2>2
    <2> QED BY <2>2, <2>3, <2>4 DEF Plugins!There
  <1>3. Plugins!ReloadTakes => Plugins!There' = {}
    <2>1. Plugins!There' = {slots'[j] : j \in DOMAIN slots'} /\ DOMAIN (<<>>) = {}
      BY DEF Plugins!There
    <2> QED BY <2>1 DEF Plugins!ReloadTakes
  <1>4. slots' = slots => Plugins!There' = Plugins!There
    BY DEF Plugins!There
  <1>5. Plugins!There \subseteq Plugins!Plugins
    BY DEF Plugins!There, PluginTypes
  <1> QED BY <1>1, <1>2, <1>3, <1>4, <1>5

LEMMA PluginThereStep ==
  ASSUME PluginLimits, PluginTypes, PluginOrder, PluginCalm, PluginAlone, PluginThere, [Plugins!Next]_(Plugins!vars)
  PROVE  PluginThere'
  <1>1. ASSUME UNCHANGED <<missed, slots, task, init, commands>>,
               \A p \in Plugins!There : host'[p].quarantined = host[p].quarantined
        PROVE  PluginThere'
    <2>1. Plugins!There' = Plugins!There
      BY <1>1 DEF Plugins!There
    <2>2. /\ missed' = {}
          /\ \A p \in Plugins!There' : ~host'[p].quarantined
          /\ commands' = 0 => task' = Plugins!Idle
                              /\ \A p \in Plugins!Plugins : init'[p] = "none" /\ p \in Plugins!There'
      BY <1>1, <2>1 DEF PluginThere
    <2> QED BY <2>2 DEF PluginThere, Plugins!Idle
  <1>2. CASE \/ Plugins!DispatchEvent \/ Plugins!TakesGate("flush") \/ Plugins!TakesGate("stop") \/ Plugins!ControlEnters
             \/ Plugins!TakeMessage \/ Plugins!SpawnOne \/ Plugins!TurnEnds \/ UNCHANGED Plugins!vars
    <2>1. UNCHANGED <<missed, slots, task, init, commands, host>>
      BY <1>2 DEF Plugins!DispatchEvent, Plugins!TakesGate, Plugins!ControlEnters, Plugins!TakeMessage,
                  Plugins!SpawnOne, Plugins!TurnEnds, Plugins!vars, Plugins!admin
    <2> QED BY <1>1, <2>1
  <1>3. ASSUME NEW p \in Plugins!Plugins, NEW n \in Plugins!Calls, Plugins!Thread(p, n) PROVE PluginThere'
    <2>1. missed' = missed /\ (host' = host \/ host' = [host EXCEPT ![p].enabled = FALSE])
      BY <1>3, PluginThreads
    <2>2. UNCHANGED <<slots, task, init, commands>>
      BY <1>3, PluginCalls
    <2>3. ASSUME NEW q \in Plugins!Plugins PROVE host'[q].quarantined = host[q].quarantined
      <3>1. host \in [Plugins!Plugins -> PluginHosts] /\ host[q] \in PluginHosts
        BY DEF PluginTypes
      <3>2. CASE host' = [host EXCEPT ![p].enabled = FALSE]
        BY <3>1, <3>2 DEF PluginHosts
      <3> QED BY <2>1, <3>2
    <2> QED BY <1>1, <2>1, <2>2, <2>3, PluginRegistry
  <1>4. CASE PluginAdmin
    <2>1. commands' # 0 /\ missed' = {}
      BY <1>4, PluginCommands, PluginAdmins DEF PluginThere
    <2>2. \A p \in Plugins!There' : ~host'[p].quarantined
      <3>1. ASSUME NEW p \in Plugins!Plugins, NEW on \in BOOLEAN, Plugins!SetEnabled(p, on)
            PROVE  \A q \in Plugins!There' : ~host'[q].quarantined
        <4>1. /\ host' = [host EXCEPT ![p].enabled = on, ![p].quarantined = @ /\ ~on] /\ slots' = slots
              /\ p \in Plugins!There
          BY <3>1 DEF Plugins!SetEnabled
        <4>2. ~host[p].quarantined /\ Plugins!There' = Plugins!There
          BY <4>1, PluginRegistry DEF PluginThere
        <4>3. host' = [host EXCEPT ![p].enabled = on, ![p].quarantined = FALSE]
          BY <4>1, <4>2 DEF PluginTypes, PluginHosts
        <4>4. ASSUME NEW q \in Plugins!There PROVE ~host'[q].quarantined
          BY <4>3, PluginRegistry DEF PluginTypes, PluginHosts, PluginThere
        <4> QED BY <4>2, <4>4
      <3>2. ASSUME NEW p \in Plugins!Plugins, Plugins!RemoveMarks(p)
            PROVE  \A q \in Plugins!There' : ~host'[q].quarantined
        <4>1. Plugins!There' = Plugins!There \ {p}
          BY <3>2, PluginRegistry
        <4>2. \A q \in Plugins!Plugins \ {p} : host'[q] = host[q]
          BY <3>2 DEF Plugins!RemoveMarks, PluginTypes
        <4> QED BY <4>1, <4>2, PluginRegistry DEF PluginThere
      <3>3. ASSUME NEW p \in Plugins!Plugins, Plugins!LoadEnds(p)
            PROVE  \A q \in Plugins!There' : ~host'[q].quarantined
        <4>1. CASE slots' = slots /\ host' = host
          BY <4>1, PluginRegistry DEF PluginThere
        <4>2. CASE slots' = Append(slots, p) /\ host' = [host EXCEPT ![p] = Plugins!Fresh]
          <5>1. Plugins!There' = Plugins!There \cup {p}
            BY <4>2, PluginRegistry
          <5>2. ~host'[p].quarantined /\ \A q \in Plugins!Plugins \ {p} : host'[q] = host[q]
            BY <4>2 DEF PluginTypes, Plugins!Fresh
          <5> QED BY <5>1, <5>2, PluginRegistry DEF PluginThere
        <4> QED BY <3>3, <4>1, <4>2 DEF Plugins!LoadEnds
      <3>4. CASE Plugins!ReloadTakes
        BY <3>4, PluginRegistry
      <3>5. ASSUME UNCHANGED <<slots, host>> PROVE \A q \in Plugins!There' : ~host'[q].quarantined
        BY <3>5, PluginRegistry DEF PluginThere
      <3>6. ASSUME NEW p \in Plugins!Plugins, Plugins!LoadDeadline(p) \/ Plugins!LateInitEnds(p)
            PROVE UNCHANGED <<slots, host>>
        BY <3>6 DEF Plugins!LoadDeadline, Plugins!LateInitEnds
      <3>7. CASE Plugins!RemoveForgets \/ Plugins!ReloadClears \/ Plugins!LoadBegins \/ Plugins!LoadDone
        <4>1. UNCHANGED <<slots, host>>
          BY <3>7 DEF Plugins!RemoveForgets, Plugins!ReloadClears, Plugins!LoadBegins, Plugins!LoadDone
        <4> QED BY <3>5, <4>1
      <3> QED BY <1>4, <3>1, <3>2, <3>3, <3>4, <3>5, <3>6, <3>7 DEF PluginAdmin
    <2> QED BY <2>1, <2>2 DEF PluginThere
  <1>5. ASSUME NEW p \in Plugins!Plugins, Plugins!InitRegisters(p) PROVE PluginThere'
    BY <1>1, <1>5 DEF Plugins!InitRegisters, Plugins!admin
  <1>6. ~Plugins!EventDeadline /\ \A p \in Plugins!Plugins : ~Plugins!CallApi(p) /\ ~Plugins!ApiDeadline(p)
    BY PluginNames DEF PluginCalm, Plugins!EventDeadline, Plugins!Has, Plugins!CallApi, Plugins!ApiDeadline, PluginAlone
  <1> QED BY <1>2, <1>3, <1>4, <1>5, <1>6 DEF Plugins!Next, PluginAdmin

LEMMA PluginServingStep ==
  ASSUME PluginLimits, PluginTypes, PluginOrder, PluginCalm, PluginAlone, PluginThere, PluginServing,
         [Plugins!Next]_(Plugins!vars)
  PROVE  PluginServing'
  <1>0. turn.event \in Nat /\ 0 \notin accepted /\ accepted \subseteq Plugins!Events
    BY DEF PluginTypes, PluginTurns, Plugins!Events
  <1>1. CASE \/ Plugins!DispatchEvent \/ Plugins!TakesGate("flush") \/ Plugins!TakesGate("stop") \/ Plugins!ControlEnters
             \/ UNCHANGED Plugins!vars
    <2>1. UNCHANGED <<turn, call, heard, host, commands>>
      BY <1>1 DEF Plugins!DispatchEvent, Plugins!TakesGate, Plugins!ControlEnters, Plugins!vars, Plugins!admin
    <2>2. PluginWaits' = PluginWaits /\ \A p \in Plugins!Plugins : \A n : PluginHears(p, n)' <=> PluginHears(p, n)
      BY <2>1 DEF PluginWaits, PluginHears, PluginGiven
    <2>3. \A n \in accepted' : n \notin accepted \/ PluginQueues(n) => PluginQueues(n)'
      <3>1. CASE Plugins!DispatchEvent
        <4>1. CASE UNCHANGED <<queue, accepted>>
          BY <4>1 DEF PluginQueues
        <4>2. CASE queue' = Append(queue, Plugins!Message("event", next)) /\ accepted' = accepted \cup {next}
          <5>1. queue \in Seq(PluginMessages) /\ Plugins!Message("event", next) \in PluginMessages
            BY <3>1, PluginNames DEF PluginTypes, PluginMessages, Plugins!Message, Plugins!DispatchEvent
          <5>2. /\ DOMAIN queue' = 1..(Len(queue) + 1) /\ DOMAIN queue = 1..Len(queue) /\ Len(queue) \in Nat
                /\ \A i \in 1..Len(queue) : queue'[i] = queue[i]
                /\ queue'[Len(queue) + 1].event = next /\ queue'[Len(queue) + 1].kind = "event"
            BY <4>2, <5>1, PluginAppended DEF Plugins!Message
          <5>3. DOMAIN queue \subseteq DOMAIN queue' /\ Len(queue) + 1 \in DOMAIN queue'
            BY <5>2
          <5> QED BY <4>2, <5>2, <5>3 DEF PluginQueues
        <4> QED BY <3>1, <4>1, <4>2 DEF Plugins!DispatchEvent
      <3>2. CASE UNCHANGED <<queue, accepted>>
        BY <3>2 DEF PluginQueues
      <3>3. CASE Plugins!ControlEnters
        <4>1. queue' = Append(queue, Plugins!Message(gate, 0)) /\ gate \in {"flush", "stop"} /\ accepted' = accepted
          BY <3>3 DEF Plugins!ControlEnters, PluginTypes
        <4>2. queue \in Seq(PluginMessages) /\ Plugins!Message(gate, 0) \in PluginMessages
          BY <4>1, PluginNames DEF PluginTypes, PluginMessages, Plugins!Message
        <4>3. DOMAIN queue \subseteq DOMAIN queue' /\ \A i \in DOMAIN queue : queue'[i] = queue[i]
          <5>1. /\ DOMAIN queue' = 1..(Len(queue) + 1) /\ DOMAIN queue = 1..Len(queue) /\ Len(queue) \in Nat
                /\ \A i \in 1..Len(queue) : queue'[i] = queue[i]
            BY <4>1, <4>2, PluginAppended
          <5> QED BY <5>1
        <4> QED BY <4>1, <4>3 DEF PluginQueues
      <3> QED BY <1>1, <3>1, <3>2, <3>3 DEF Plugins!TakesGate, Plugins!vars
    <2>4. turn'.event # 0 => \A p \in Plugins!Plugins :
             p \in PluginWaits' \/ call'[p][turn'.event] \in {"spawned", "permitted"} \/ PluginHears(p, turn.event)'
      BY <2>1, <2>2 DEF PluginServing
    <2>5. \A n \in accepted' : PluginQueues(n)' \/ n = turn'.event \/ \A p \in Plugins!Plugins : PluginHears(p, n)'
      BY <2>1, <2>2, <2>3 DEF PluginServing
    <2> QED BY <2>1, <2>4, <2>5 DEF PluginServing, PluginHears
  <1>2. CASE Plugins!TakeMessage
    <2>1. /\ turn.event = 0 /\ UNCHANGED <<slots, host, call, heard, commands, accepted>>
          /\ DOMAIN queue = 1..Len(queue) /\ Len(queue) \in Nat
          /\ DOMAIN queue' = 1..(Len(queue) - 1)
          /\ \A i \in DOMAIN queue' : i + 1 \in DOMAIN queue /\ queue'[i] = queue[i + 1]
          /\ IF queue[1].kind = "event" THEN turn' = Plugins!NewTurn(queue[1].event) ELSE turn' = turn
      BY <1>2, PluginTakes
    <2>2. \A p \in Plugins!Plugins : \A n : PluginHears(p, n)' <=> PluginHears(p, n)
      BY <2>1 DEF PluginHears, PluginGiven
    <2>3. ASSUME NEW n \in accepted, PluginQueues(n) PROVE PluginQueues(n)' \/ n = turn'.event
      <3>1. PICK i \in DOMAIN queue : queue[i].kind = "event" /\ queue[i].event = n
        BY <2>3 DEF PluginQueues
      <3>2. CASE i = 1
        BY <2>1, <3>1, <3>2 DEF Plugins!NewTurn
      <3>3. CASE i # 1
        <4>1. i - 1 \in DOMAIN queue' /\ (i - 1) + 1 = i
          BY <2>1, <3>3
        <4>2. queue'[i - 1] = queue[i]
          BY <2>1, <4>1
        <4> QED BY <3>1, <4>1, <4>2 DEF PluginQueues
      <3> QED BY <3>2, <3>3
    <2>4. \A n \in accepted' : PluginQueues(n)' \/ n = turn'.event \/ \A p \in Plugins!Plugins : PluginHears(p, n)'
      <3> SUFFICES ASSUME NEW n \in accepted
                   PROVE  PluginQueues(n)' \/ n = turn'.event \/ \A p \in Plugins!Plugins : PluginHears(p, n)'
        BY <2>1
      <3>1. n # turn.event
        BY <1>0, <2>1
      <3> QED BY <2>2, <2>3, <3>1 DEF PluginServing
    <2>5. ASSUME turn'.event # 0, NEW p \in Plugins!Plugins, commands' = 0 PROVE p \in PluginWaits'
      <3>1. turn'.pending = slots /\ commands = 0
        BY <2>1, <2>5 DEF Plugins!NewTurn
      <3>2. PluginWaits' = Plugins!There
        BY <3>1 DEF PluginWaits, Plugins!There
      <3> QED BY <3>1, <3>2 DEF PluginThere
    <2> QED BY <2>4, <2>5 DEF PluginServing, PluginHears
  <1>3. CASE Plugins!SpawnOne
    <2>1. PICK p \in Plugins!Plugins : PluginWaits' = PluginWaits \ {p} /\ call' = [call EXCEPT ![p][turn.event] = "spawned"]
      BY <1>3, PluginSpawns
    <2>2. /\ turn'.event = turn.event /\ turn.event \in Plugins!Calls
          /\ UNCHANGED <<queue, accepted, host, heard, commands>>
      BY <1>3, PluginSpawns, PluginNames
    <2>3. \A q \in Plugins!Plugins : call'[q][turn.event] = IF q = p THEN "spawned" ELSE call[q][turn.event]
      BY <2>1, <2>2 DEF PluginTypes
    <2>4. \A q \in Plugins!Plugins : \A n : PluginHears(q, n)' <=> PluginHears(q, n)
      BY <2>2 DEF PluginHears, PluginGiven
    <2>5. \A n : PluginQueues(n)' <=> PluginQueues(n)
      BY <2>2 DEF PluginQueues
    <2>6. ASSUME turn.event # 0, NEW q \in Plugins!Plugins
          PROVE  q \in PluginWaits' \/ call'[q][turn.event] \in {"spawned", "permitted"} \/ PluginHears(q, turn.event)'
      <3>1. q \in PluginWaits \/ call[q][turn.event] \in {"spawned", "permitted"} \/ PluginHears(q, turn.event)
        BY <2>6 DEF PluginServing
      <3>2. CASE q = p
        BY <2>3, <3>2
      <3>3. CASE q # p
        <4>1. call'[q][turn.event] = call[q][turn.event] /\ (q \in PluginWaits => q \in PluginWaits')
          BY <2>1, <2>3, <3>3
        <4>2. PluginHears(q, turn.event) => PluginHears(q, turn.event)'
          BY <2>2 DEF PluginHears, PluginGiven
        <4> QED BY <3>1, <4>1, <4>2
      <3> QED BY <3>2, <3>3
    <2>7. \A n \in accepted' : PluginQueues(n)' \/ n = turn'.event \/ \A q \in Plugins!Plugins : PluginHears(q, n)'
      BY <2>2, <2>4, <2>5 DEF PluginServing
    <2> QED BY <2>2, <2>6, <2>7 DEF PluginServing, PluginHears
  <1>4. CASE Plugins!TurnEnds
    <2>1. /\ turn.event # 0 /\ turn.pending = <<>> /\ turn'.event = 0
          /\ \A p \in Plugins!Plugins : call[p][turn.event] = "none"
          /\ UNCHANGED <<queue, accepted, host, heard, commands>>
      BY <1>4 DEF Plugins!TurnEnds, Plugins!Alive, Plugins!NoTurn, Plugins!dispatch, Plugins!admin
    <2>2. PluginWaits = {}
      BY <2>1 DEF PluginWaits
    <2>3. \A p \in Plugins!Plugins : PluginHears(p, turn.event)
      BY <2>1, <2>2 DEF PluginServing
    <2>4. \A p \in Plugins!Plugins : \A n : PluginHears(p, n)' <=> PluginHears(p, n)
      BY <2>1 DEF PluginHears, PluginGiven
    <2>5. \A n : PluginQueues(n)' <=> PluginQueues(n)
      BY <2>1 DEF PluginQueues
    <2>6. \A n \in accepted : PluginQueues(n) \/ \A p \in Plugins!Plugins : PluginHears(p, n)
      BY <2>3 DEF PluginServing
    <2>7. \A n \in accepted' : PluginQueues(n)' \/ \A p \in Plugins!Plugins : PluginHears(p, n)'
      BY <2>1, <2>4, <2>5, <2>6
    <2> QED BY <2>1, <2>7 DEF PluginServing
  <1>5. ASSUME NEW p \in Plugins!Plugins, NEW n \in Plugins!Calls, Plugins!Thread(p, n) PROVE PluginServing'
    <2>1. n # 0 /\ n = turn.event
      BY <1>5, PluginThreads
    <2>2. /\ UNCHANGED <<queue, accepted, turn, commands>> /\ PluginWaits' = PluginWaits
          /\ \A q \in Plugins!Plugins \ {p} : heard'[q] = heard[q] /\ host'[q] = host[q]
          /\ host'[p].enabled => host[p].enabled
          /\ heard' = heard \/ heard'[p] = Append(heard[p], n)
      BY <1>5, PluginCalls
    <2>3. \A q \in Plugins!Plugins : PluginGiven(q) \subseteq PluginGiven(q)'
          /\ (heard'[p] = Append(heard[p], n) => n \in PluginGiven(p)')
      <3>1. CASE heard' = heard /\ heard'[p] # Append(heard[p], n)
        BY <3>1 DEF PluginGiven
      <3>2. CASE heard'[p] = Append(heard[p], n)
        <4>1. heard[p] \in Seq(Plugins!Events) /\ n \in Plugins!Events
          BY <2>1, PluginNames DEF PluginTypes, Plugins!Calls, Plugins!Events
        <4>2. /\ DOMAIN heard'[p] = 1..(Len(heard[p]) + 1) /\ DOMAIN heard[p] = 1..Len(heard[p]) /\ Len(heard[p]) \in Nat
              /\ \A i \in 1..Len(heard[p]) : heard'[p][i] = heard[p][i]
              /\ heard'[p][Len(heard[p]) + 1] = n
          BY <3>2, <4>1, PluginAppended
        <4>3. DOMAIN heard[p] \subseteq DOMAIN heard'[p] /\ Len(heard[p]) + 1 \in DOMAIN heard'[p]
          BY <4>2
        <4>4. \A q \in Plugins!Plugins : PluginGiven(q)' = {heard'[q][i] : i \in DOMAIN heard'[q]}
          BY DEF PluginGiven
        <4>5. n \in PluginGiven(p)' /\ PluginGiven(p) \subseteq PluginGiven(p)'
          BY <4>2, <4>3, <4>4 DEF PluginGiven
        <4>6. \A q \in Plugins!Plugins \ {p} : PluginGiven(q) \subseteq PluginGiven(q)'
          BY <2>2, <4>4 DEF PluginGiven
        <4> QED BY <4>5, <4>6
      <3> QED BY <2>2, <3>1, <3>2
    <2>4. ASSUME NEW q \in Plugins!Plugins, NEW m, PluginHears(q, m) PROVE PluginHears(q, m)'
      <3>1. host'[q].enabled => host[q].enabled
        BY <2>2
      <3> QED BY <2>2, <2>3, <2>4, <3>1 DEF PluginHears
    <2>5. \A m : PluginQueues(m)' <=> PluginQueues(m)
      BY <2>2 DEF PluginQueues
    <2>6. ASSUME NEW q \in Plugins!Plugins
          PROVE  q \in PluginWaits \/ call'[q][n] \in {"spawned", "permitted"} \/ PluginHears(q, n)'
      <3>1. CASE q # p
        <4>1. call'[q][n] = call[q][n]
          BY <1>5, <3>1, PluginThreads
        <4> QED BY <2>1, <2>4, <4>1 DEF PluginServing
      <3>2. CASE q = p
        <4>0. q \in PluginWaits \/ call[q][n] \in {"spawned", "permitted"} \/ PluginHears(q, n)'
          BY <2>1, <2>4 DEF PluginServing
        <4>1. CASE call[p][n] = "spawned" /\ call'[p][n] = "none" /\ p \notin Plugins!There
          <5>1. commands' # 0
            BY <2>2, <4>1 DEF PluginThere
          <5> QED BY <3>2, <5>1 DEF PluginHears
        <4>2. CASE heard' = [heard EXCEPT ![p] = Append(heard[p], n)]
          <5>1. heard'[p] = Append(heard[p], n)
            BY <4>2 DEF PluginTypes
          <5> QED BY <2>3, <3>2, <5>1 DEF PluginHears
        <4>3. CASE call[p][n] = "permitted" /\ host' = [host EXCEPT ![p].enabled = FALSE]
          <5>1. ~host'[p].enabled
            BY <4>3 DEF PluginTypes, PluginHosts
          <5> QED BY <3>2, <5>1 DEF PluginHears
        <4>4. CASE call'[p][n] = call[p][n] \/ call'[p][n] = "permitted" \/ call[p][n] = "running"
          BY <3>2, <4>0, <4>4
        <4> QED BY <1>5, PluginThreads, <4>1, <4>2, <4>3, <4>4
      <3> QED BY <3>1, <3>2
    <2>7. \A m \in accepted' : PluginQueues(m)' \/ m = turn'.event \/ \A q \in Plugins!Plugins : PluginHears(q, m)'
      BY <2>2, <2>4, <2>5 DEF PluginServing
    <2>8. turn'.event = n
      BY <2>1, <2>2
    <2> QED BY <2>2, <2>6, <2>7, <2>8 DEF PluginServing, PluginHears
  <1>6. CASE PluginAdmin
    <2>1. \A p \in Plugins!Plugins : \A n : PluginHears(p, n)'
      BY <1>6, PluginCommands DEF PluginHears
    <2> QED BY <2>1 DEF PluginServing, PluginHears
  <1>7. ASSUME NEW p \in Plugins!Plugins, Plugins!InitRegisters(p) PROVE PluginServing'
    <2>1. UNCHANGED <<queue, accepted, turn, call, heard, host, commands>>
      BY <1>7 DEF Plugins!InitRegisters, Plugins!admin, Plugins!dispatch
    <2> QED BY <2>1 DEF PluginServing, PluginHears, PluginQueues, PluginWaits, PluginGiven
  <1>8. ~Plugins!EventDeadline /\ \A p \in Plugins!Plugins : ~Plugins!CallApi(p) /\ ~Plugins!ApiDeadline(p)
    BY PluginNames DEF PluginCalm, Plugins!EventDeadline, Plugins!Has, Plugins!CallApi, Plugins!ApiDeadline, PluginAlone
  <1> QED BY <1>1, <1>2, <1>3, <1>4, <1>5, <1>6, <1>7, <1>8 DEF Plugins!Next, PluginAdmin

-----------------------------------------------------------------------------
\* Where no init fails or is late, no plugin is busy when it is taken away,
\* and names are those of the files.
PluginLeaving == pluginTrouble \cap {"slow", "fails", "busy", "renamed"} = {}

\* A plugin that is not in the registry has nothing under way, and a handler
\* only while the administrator is about to clear it or to load the plugin.
PluginTidy ==
    /\ handler \subseteq Plugins!Plugins
    /\ \A p \in Plugins!Plugins : p \notin Plugins!There =>
           p \notin PluginWaits /\ \A n \in Plugins!Calls : call[p][n] = "none"
    /\ \A p \in handler : \/ p \in Plugins!There
                          \/ task.does = "clear"
                          \/ task.does \in {"remove", "load"} /\ p \in task.to
    /\ \A p \in Plugins!Plugins : init[p] # "late"

LEMMA PluginTidyCalls ==
  ASSUME PluginTypes, PluginTidy, UNCHANGED <<slots, task, init>>,
         handler' \subseteq handler \cup Plugins!There,
         \A p \in Plugins!Plugins : p \notin Plugins!There =>
             p \notin PluginWaits' /\ \A n \in Plugins!Calls : call'[p][n] = call[p][n]
  PROVE  PluginTidy'
  <1>1. Plugins!There' = Plugins!There /\ Plugins!There \subseteq Plugins!Plugins
    BY DEF Plugins!There, PluginTypes
  <1> QED BY <1>1 DEF PluginTidy

LEMMA PluginTidyStep ==
  ASSUME PluginLimits, PluginTypes, PluginOrder, PluginLeaving, PluginTidy, [Plugins!Next]_(Plugins!vars)
  PROVE  PluginTidy'
  <1>n. 0 \in Plugins!Calls /\ Plugins!There \subseteq Plugins!Plugins
    BY PluginNames, PluginRegistry
  <1>1. CASE \/ Plugins!DispatchEvent \/ Plugins!TakesGate("flush") \/ Plugins!TakesGate("stop") \/ Plugins!ControlEnters
             \/ UNCHANGED Plugins!vars
    <2>1. UNCHANGED <<turn, call, slots, task, init, handler>>
      BY <1>1 DEF Plugins!DispatchEvent, Plugins!TakesGate, Plugins!ControlEnters, Plugins!vars, Plugins!admin
    <2>2. PluginWaits' = PluginWaits
      BY <2>1 DEF PluginWaits
    <2> QED BY <2>1, <2>2, PluginTidyCalls DEF PluginTidy
  <1>2. CASE Plugins!TakeMessage
    <2>1. UNCHANGED <<call, slots, task, init, handler>>
      BY <1>2 DEF Plugins!TakeMessage, Plugins!admin
    <2>2. turn' = turn \/ \E n : turn' = Plugins!NewTurn(n)
      BY <1>2 DEF Plugins!TakeMessage
    <2>3. PluginWaits' = PluginWaits \/ PluginWaits' = Plugins!There
      BY <2>2 DEF PluginWaits, Plugins!NewTurn, Plugins!There
    <2> QED BY <2>1, <2>3, PluginTidyCalls DEF PluginTidy
  <1>3. CASE Plugins!SpawnOne
    <2>1. PICK p \in Plugins!Plugins : p \in PluginWaits /\ PluginWaits' = PluginWaits \ {p}
                                       /\ call' = [call EXCEPT ![p][turn.event] = "spawned"]
      BY <1>3, PluginSpawns
    <2>2. UNCHANGED <<slots, task, init, handler>>
      BY <1>3 DEF Plugins!SpawnOne, Plugins!admin
    <2>3. p \in Plugins!There
      BY <2>1 DEF PluginTidy
    <2>4. \A q \in Plugins!Plugins : q # p => call'[q] = call[q]
      BY <2>1 DEF PluginTypes
    <2> QED BY <2>1, <2>2, <2>3, <2>4, PluginTidyCalls DEF PluginTidy
  <1>4. CASE Plugins!TurnEnds
    <2>1. UNCHANGED <<slots, task, init, handler, call>> /\ PluginWaits' = {}
      BY <1>4, PluginTurnEnds DEF Plugins!TurnEnds, Plugins!admin
    <2> QED BY <2>1, PluginTidyCalls DEF PluginTidy
  <1>5. ASSUME NEW p \in Plugins!Plugins, NEW n \in Plugins!Calls,
               Plugins!Thread(p, n) \/ (n = 0 /\ (Plugins!CallApi(p) \/ Plugins!ApiDeadline(p)))
        PROVE  PluginTidy'
    <2>1. /\ UNCHANGED <<slots, task, init>> /\ PluginWaits' = PluginWaits
          /\ \A q \in Plugins!Plugins : \A m \in Plugins!Calls : q # p \/ m # n => call'[q][m] = call[q][m]
      BY <1>5, PluginCalls
    <2>2. p \in Plugins!There
      <3>1. Plugins!CallApi(p) \/ call[p][n] # "none"
        BY <1>5 DEF Plugins!Thread, Plugins!TryExecution, Plugins!ClaimLate, Plugins!EnterGuest,
             Plugins!GuestReturns, Plugins!GuestRegisters, Plugins!ApiDeadline
      <3> QED BY <3>1 DEF Plugins!CallApi, PluginTidy
    <2>3. handler' \subseteq handler \cup {p}
      BY <1>5 DEF Plugins!Thread, Plugins!TryExecution, Plugins!ClaimLate, Plugins!EnterGuest,
           Plugins!GuestReturns, Plugins!GuestRegisters, Plugins!ApiDeadline, Plugins!CallApi
    <2>4. handler' \subseteq handler \cup Plugins!There
      BY <2>2, <2>3
    <2>5. \A q \in Plugins!Plugins : q \notin Plugins!There =>
             q \notin PluginWaits' /\ \A m \in Plugins!Calls : call'[q][m] = call[q][m]
      BY <2>1, <2>2 DEF PluginTidy
    <2> QED BY <2>1, <2>4, <2>5, PluginTidyCalls
  <1>6. CASE PluginAdmin \/ \E p \in Plugins!Plugins : Plugins!InitRegisters(p)
    <2>0. UNCHANGED <<turn, call>> /\ PluginWaits' = PluginWaits
      BY <1>6, PluginAdmins
    <2>i. Plugins!Idle.does = "idle" /\ Plugins!Idle.to = {}
      BY DEF Plugins!Idle
    <2>b. /\ turn.event = 0 => PluginWaits = {}
          /\ ~Plugins!Has("fails") /\ ~Plugins!Has("slow") /\ ~Plugins!Has("busy") /\ ~Plugins!Has("renamed")
      BY DEF PluginOrder, PluginListed, PluginWaits, PluginLeaving, Plugins!Has
    <2>s. ASSUME handler' \subseteq Plugins!Plugins, Plugins!There \subseteq Plugins!There',
                 \A p \in handler' : \/ p \in Plugins!There'
                                     \/ task'.does = "clear"
                                     \/ task'.does \in {"remove", "load"} /\ p \in task'.to,
                 \A p \in Plugins!Plugins : init'[p] # "late"
          PROVE  PluginTidy'
      BY <2>0, <2>s DEF PluginTidy
    <2>1. ASSUME NEW p \in Plugins!Plugins, NEW on \in BOOLEAN, Plugins!SetEnabled(p, on) PROVE PluginTidy'
      <3>1. UNCHANGED <<handler, slots, init, task>>
        BY <2>1 DEF Plugins!SetEnabled
      <3>2. Plugins!There' = Plugins!There
        BY <3>1, PluginRegistry
      <3> QED BY <2>s, <3>1, <3>2 DEF PluginTidy
    <2>2. ASSUME NEW p \in Plugins!Plugins, Plugins!RemoveMarks(p) PROVE PluginTidy'
      <3>1. /\ Plugins!Quiet(p) /\ task = Plugins!Idle /\ task' = [does |-> "remove", to |-> {p}]
            /\ UNCHANGED <<handler, init>>
        BY <2>2, <2>b DEF Plugins!RemoveMarks, Plugins!Command
      <3>2. Plugins!There' = Plugins!There \ {p}
        BY <2>2, PluginRegistry
      <3>3. PluginWaits' = {} /\ \A n \in Plugins!Calls : call'[p][n] = "none"
        BY <2>0, <2>b, <3>1 DEF Plugins!Quiet
      <3>4. handler \subseteq Plugins!There
        BY <2>i, <3>1 DEF PluginTidy
      <3>5. \A q \in Plugins!Plugins : q \notin Plugins!There' =>
               q \notin PluginWaits' /\ \A n \in Plugins!Calls : call'[q][n] = "none"
        BY <2>0, <3>2, <3>3 DEF PluginTidy
      <3>6. \A q \in handler' : q \in Plugins!There' \/ (task'.does \in {"remove", "load"} /\ q \in task'.to)
        BY <3>1, <3>2, <3>4
      <3> QED BY <3>1, <3>5, <3>6 DEF PluginTidy
    <2>3. ASSUME NEW p \in Plugins!Plugins, Plugins!LoadEnds(p) PROVE PluginTidy'
      <3>1. /\ slots' = Append(slots, p) /\ task' = [task EXCEPT !.to = task.to \ {p}] /\ handler' = handler
            /\ init[p] = "running" /\ init' = [init EXCEPT ![p] = "none"]
        BY <2>3, <2>b DEF Plugins!LoadEnds
      <3>2. Plugins!There' = Plugins!There \cup {p}
        BY <3>1, PluginRegistry
      <3>3. task'.does = task.does /\ task'.to = task.to \ {p}
        BY <3>1 DEF PluginTypes, PluginTasks
      <3>4. \A q \in Plugins!Plugins : init'[q] # "late"
        BY <3>1 DEF PluginTypes, PluginTidy
      <3>5. \A q \in handler' : \/ q \in Plugins!There'
                                \/ task'.does = "clear"
                                \/ task'.does \in {"remove", "load"} /\ q \in task'.to
        BY <3>1, <3>2, <3>3 DEF PluginTidy
      <3> QED BY <2>s, <3>1, <3>2, <3>4, <3>5 DEF PluginTidy
    <2>4. ASSUME NEW p \in Plugins!Plugins, Plugins!LoadDeadline(p) \/ Plugins!LateInitEnds(p) PROVE PluginTidy'
      BY <2>4, <2>b DEF Plugins!LoadDeadline, Plugins!LateInitEnds, PluginTidy
    <2>5. CASE Plugins!RemoveForgets
      <3>1. task.does = "remove" /\ handler' = handler \ task.to /\ UNCHANGED <<slots, init>>
        BY <2>5, <2>b DEF Plugins!RemoveForgets
      <3>2. Plugins!There' = Plugins!There
        BY <3>1, PluginRegistry
      <3>3. \A q \in handler' : q \in Plugins!There'
        BY <3>1, <3>2 DEF PluginTidy
      <3> QED BY <2>s, <3>1, <3>2, <3>3 DEF PluginTidy
    <2>6. CASE Plugins!ReloadTakes
      <3>0. alpha \in Plugins!Plugins
        BY PluginNames
      <3>1. /\ \A p \in Plugins!Plugins : Plugins!Quiet(p)
            /\ task' = [does |-> "clear", to |-> Plugins!Plugins] /\ UNCHANGED <<handler, init>>
        BY <2>6, <2>b DEF Plugins!ReloadTakes
      <3>2. PluginWaits' = {} /\ \A p \in Plugins!Plugins : \A n \in Plugins!Calls : call'[p][n] = "none"
        BY <2>0, <2>b, <3>0, <3>1 DEF Plugins!Quiet
      <3>3. task'.does = "clear"
        BY <3>1
      <3> QED BY <3>1, <3>2, <3>3 DEF PluginTidy
    <2>7. CASE Plugins!ReloadClears
      <3>1. handler' = {} /\ UNCHANGED <<slots, init>>
        BY <2>7 DEF Plugins!ReloadClears
      <3>2. Plugins!There' = Plugins!There
        BY <3>1, PluginRegistry
      <3> QED BY <2>s, <3>1, <3>2 DEF PluginTidy
    <2>8. CASE Plugins!LoadBegins
      <3>1. UNCHANGED <<handler, slots, task>> /\ init' = [init EXCEPT ![Plugins!FirstOf(task.to)] = "running"]
        BY <2>8 DEF Plugins!LoadBegins, Plugins!InitStarts
      <3>2. Plugins!There' = Plugins!There
        BY <3>1, PluginRegistry
      <3>3. \A q \in Plugins!Plugins : init'[q] # "late"
        BY <3>1 DEF PluginTypes, PluginTidy
      <3> QED BY <2>s, <3>1, <3>2, <3>3 DEF PluginTidy
    <2>9. CASE Plugins!LoadDone
      <3>1. task.does = "load" /\ task.to = {} /\ UNCHANGED <<handler, slots, init>>
        BY <2>9 DEF Plugins!LoadDone
      <3>2. Plugins!There' = Plugins!There
        BY <3>1, PluginRegistry
      <3>3. \A q \in handler' : q \in Plugins!There'
        BY <3>1, <3>2 DEF PluginTidy
      <3> QED BY <2>s, <3>1, <3>2, <3>3 DEF PluginTidy
    <2>a. ASSUME NEW p \in Plugins!Plugins, Plugins!InitRegisters(p) PROVE PluginTidy'
      <3>1. init[p] # "none" /\ handler' = handler \cup {p} /\ UNCHANGED <<slots, task, init>>
        BY <2>a DEF Plugins!InitRegisters, Plugins!admin
      <3>2. init[p] = "running" /\ task.does = "load" /\ p \in task.to
        BY <3>1 DEF PluginTidy, PluginTypes, PluginOrder, PluginListed
      <3>3. Plugins!There' = Plugins!There
        BY <3>1, PluginRegistry
      <3>4. \A q \in handler' : \/ q \in Plugins!There'
                                \/ task'.does = "clear"
                                \/ task'.does \in {"remove", "load"} /\ q \in task'.to
        BY <3>1, <3>2, <3>3 DEF PluginTidy
      <3> QED BY <2>s, <3>1, <3>3, <3>4 DEF PluginTidy
    <2> QED BY <1>6, <2>1, <2>2, <2>3, <2>4, <2>5, <2>6, <2>7, <2>8, <2>9, <2>a DEF PluginAdmin
  <1>7. ~Plugins!EventDeadline
    BY DEF PluginLeaving, Plugins!EventDeadline, Plugins!Has
  <1> QED BY <1>n, <1>1, <1>2, <1>3, <1>4, <1>5, <1>6, <1>7 DEF Plugins!Next, PluginAdmin

-----------------------------------------------------------------------------
PluginInv ==
    /\ PluginTypes /\ PluginOrder
    /\ ~Plugins!Has("stall") => PluginAhead
    /\ PluginCalm => PluginSteady
    /\ PluginLeaving => PluginTidy

LEMMA PluginInitInv == ASSUME PluginLimits PROVE Plugins!Init => PluginInv
  <1> SUFFICES ASSUME Plugins!Init PROVE PluginInv OBVIOUS
  <1> USE PluginNames
  <1>1. /\ queue = <<>> /\ gate = "free" /\ next = 1 /\ accepted = {} /\ turn = Plugins!NoTurn
        /\ slots = <<alpha, beta>> /\ host = [p \in Plugins!Plugins |-> Plugins!Fresh]
        /\ call = [p \in Plugins!Plugins |-> [n \in Plugins!Calls |-> "none"]]
        /\ heard = [p \in Plugins!Plugins |-> <<>>] /\ missed = {}
        /\ flush = "none" /\ owed = {} /\ handler = Plugins!Plugins
        /\ init = [p \in Plugins!Plugins |-> "none"] /\ task = Plugins!Idle /\ commands = 0
    BY DEF Plugins!Init
  <1>2. DOMAIN slots = {1, 2} /\ slots[1] = alpha /\ slots[2] = beta /\ slots \in Seq(Plugins!Plugins)
    BY <1>1
  <1>3. Plugins!There = Plugins!Plugins
    BY <1>2 DEF Plugins!There
  <1>4. turn.event = 0 /\ turn.pending = <<>> /\ turn \in PluginTurns /\ PluginWaits = {}
    BY <1>1 DEF Plugins!NoTurn, PluginTurns, PluginWaits
  <1>5. Plugins!Fresh \in PluginHosts /\ ~Plugins!Fresh.quarantined /\ Plugins!Idle \in PluginTasks
        /\ Plugins!Idle.does = "idle"
    BY DEF Plugins!Fresh, PluginHosts, Plugins!Idle, PluginTasks
  <1>6. PluginTypes
    BY <1>1, <1>2, <1>4, <1>5 DEF PluginTypes
  <1>7. PluginOrder
    <2>1. PluginQueued
      BY <1>1 DEF PluginQueued
    <2>2. PluginListed
      BY <1>1, <1>2, <1>4, <1>5 DEF PluginListed, PluginLimits
    <2> QED BY <2>1, <2>2 DEF PluginOrder
  <1>8. PluginAhead
    <2>1. PluginPast(turn.event)
      BY <1>1, <1>4 DEF PluginPast
    <2>2. \A p \in Plugins!Plugins : PluginGiven(p) = {} /\ Plugins!Inflight(p) = {}
      BY <1>1 DEF PluginGiven, Plugins!Inflight
    <2> QED BY <1>1, <1>4, <2>1, <2>2 DEF PluginAhead
  <1>9. PluginSteady
    BY <1>1, <1>3, <1>4, <1>5 DEF PluginSteady, PluginAlone, PluginThere, PluginServing, PluginFlushing
  <1>a. PluginTidy
    BY <1>1, <1>3, <1>4 DEF PluginTidy
  <1> QED BY <1>6, <1>7, <1>8, <1>9, <1>a DEF PluginInv

LEMMA PluginStep ==
  ASSUME PluginLimits, PluginInv, [Plugins!Next]_(Plugins!vars) PROVE PluginInv'
  <1> USE DEF PluginInv
  <1>1. PluginTypes' /\ PluginOrder'
    <2>1. CASE UNCHANGED Plugins!vars
      BY <2>1 DEF Plugins!vars, PluginTypes, PluginOrder, PluginQueued, PluginListed, Plugins!There
    <2>2. 0 \in Plugins!Calls
      BY PluginNames
    <2> QED BY <2>1, <2>2, PluginSenders, PluginTakes, PluginSpawns, PluginTurnEnds, PluginCalls, PluginAdmins
            DEF Plugins!Next, PluginAdmin
  <1>2. pluginTrouble' = pluginTrouble
    <2>1. ASSUME NEW p \in Plugins!Plugins, NEW n \in Plugins!Calls, Plugins!Thread(p, n)
          PROVE  pluginTrouble' = pluginTrouble
      BY <2>1 DEF Plugins!Thread, Plugins!TryExecution, Plugins!ClaimLate, Plugins!EnterGuest,
           Plugins!GuestReturns, Plugins!GuestRegisters
    <2>2. ASSUME NEW p \in Plugins!Plugins, NEW on \in BOOLEAN, Plugins!SetEnabled(p, on)
          PROVE  pluginTrouble' = pluginTrouble
      BY <2>2 DEF Plugins!SetEnabled
    <2>3. ASSUME NEW p \in Plugins!Plugins,
                 \/ Plugins!CallApi(p) \/ Plugins!ApiDeadline(p) \/ Plugins!RemoveMarks(p) \/ Plugins!InitRegisters(p)
                 \/ Plugins!LoadEnds(p) \/ Plugins!LoadDeadline(p) \/ Plugins!LateInitEnds(p)
          PROVE  pluginTrouble' = pluginTrouble
      BY <2>3 DEF Plugins!CallApi, Plugins!ApiDeadline, Plugins!RemoveMarks, Plugins!InitRegisters,
           Plugins!LoadEnds, Plugins!LoadDeadline, Plugins!LateInitEnds
    <2>4. CASE Plugins!DispatchEvent \/ Plugins!TakesGate("flush") \/ Plugins!TakesGate("stop") \/ Plugins!ControlEnters
               \/ Plugins!TakeMessage \/ Plugins!SpawnOne \/ Plugins!TurnEnds \/ Plugins!EventDeadline
               \/ Plugins!RemoveForgets \/ Plugins!ReloadTakes \/ Plugins!ReloadClears \/ Plugins!LoadBegins
               \/ Plugins!LoadDone \/ UNCHANGED Plugins!vars
      BY <2>4 DEF Plugins!DispatchEvent, Plugins!TakesGate, Plugins!ControlEnters, Plugins!TakeMessage,
           Plugins!SpawnOne, Plugins!TurnEnds, Plugins!EventDeadline, Plugins!RemoveForgets, Plugins!ReloadTakes,
           Plugins!ReloadClears, Plugins!LoadBegins, Plugins!LoadDone, Plugins!vars
    <2> QED BY <2>1, <2>2, <2>3, <2>4 DEF Plugins!Next
  <1>3. /\ Plugins!Has("stall")' <=> Plugins!Has("stall")
        /\ PluginCalm' <=> PluginCalm
        /\ PluginLeaving' <=> PluginLeaving
    BY <1>2 DEF Plugins!Has, PluginCalm, PluginLeaving
  <1>4. ~Plugins!Has("stall")' => PluginAhead'
    BY <1>3, PluginAheadStep
  <1>5. PluginCalm' => PluginSteady'
    <2> SUFFICES ASSUME PluginCalm PROVE PluginSteady'
      BY <1>3
    <2>1. PluginAlone /\ PluginThere /\ PluginServing /\ PluginFlushing
      BY DEF PluginSteady
    <2> QED BY <2>1, PluginAloneStep, PluginThereStep, PluginServingStep, PluginFlushingStep DEF PluginSteady
  <1>6. PluginLeaving' => PluginTidy'
    BY <1>3, PluginTidyStep
  <1> QED BY <1>1, <1>4, <1>5, <1>6

(* In every behaviour the plugins hear the events in order (plugin.rs), unless *)
(* a thread is held up right before its claim; a flush is acknowledged when    *)
(* every plugin that nobody touched and that did not fail has been given what  *)
(* was accepted before, if nothing is called beside the events and no deadline *)
(* passes; and no handler is left of a plugin that is gone, if no init fails,  *)
(* no plugin is busy when it is removed, and it goes by the name of its file.  *)
THEOREM PluginIfCalmHolds == ASSUME PluginLimits PROVE Spec => []PluginIfCalm
  <1>1. Init => PluginInv
    BY PluginInitInv DEF Init
  <1>2. PluginInv /\ [Next]_vars => PluginInv'
    <2> SUFFICES ASSUME PluginInv, [Next]_vars PROVE PluginInv' OBVIOUS
    <2>1. [Plugins!Next]_(Plugins!vars)
      BY DEF Next, OfPlugins, OfTcp, OfUpdate, vars, Plugins!vars, pluginVars
    <2> QED BY <2>1, PluginStep
  <1>3. PluginInv => PluginIfCalm
    <2> SUFFICES ASSUME PluginInv PROVE PluginIfCalm OBVIOUS
    <2>1. Plugins!EventsInOrder
      BY DEF PluginInv, PluginAhead, Plugins!EventsInOrder
    <2>2. Plugins!FlushMeansHeardIfCalm
      <3> SUFFICES ASSUME PluginCalm, flush = "acked", NEW n \in owed, NEW p \in Plugins!Plugins
                   PROVE  /\ call[p][n] = "none" /\ <<p, n>> \notin missed
                          /\ commands = 0 /\ host[p].enabled => Plugins!Given(p, n)
        BY DEF Plugins!FlushMeansHeardIfCalm, Plugins!FlushMeansHeard, PluginCalm
      <3>1. PluginAlone /\ PluginThere /\ PluginServing /\ PluginFlushing
        BY DEF PluginInv, PluginSteady
      <3>2. n \in accepted /\ ~PluginQueues(n) /\ n # turn.event
        BY <3>1 DEF PluginFlushing
      <3>3. n \in Plugins!Calls
        BY <3>2, PluginNames DEF PluginInv, PluginTypes
      <3>4. PluginHears(p, n)
        BY <3>1, <3>2 DEF PluginServing
      <3>5. call[p][n] = "none"
        BY <3>1, <3>2, <3>3 DEF PluginAlone
      <3> QED BY <3>1, <3>4, <3>5 DEF PluginThere, PluginHears, PluginGiven, Plugins!Given
    <2>3. Plugins!NothingLeftBehindIfCalm
      BY DEF PluginInv, PluginTidy, PluginLeaving, Plugins!NothingLeftBehindIfCalm, Plugins!NothingLeftBehind,
             Plugins!Idle
    <2> QED BY <2>1, <2>2, <2>3 DEF PluginIfCalm
  <1> QED BY <1>1, <1>2, <1>3, PTL DEF Spec
=============================================================================
