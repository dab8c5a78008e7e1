---------------------------- MODULE Room_proofs ----------------------------
(***************************************************************************)
(* What TLAPS proves of Room, for every set of players, every set of modes *)
(* and scores, and any bounds on rounds, failures and removals: a round is *)
(* played only under a stored id, is settled once and with what was taken. *)
(***************************************************************************)
EXTENDS Room, FiniteSetTheorems, TLAPS

-----------------------------------------------------------------------------
\* What the operators on the actor's record leave alone.

LEMMA ClearedFacts ==
    ASSUME NEW r, r = [f \in Fields |-> r[f]]
    PROVE  /\ Cleared(r) = [f \in Fields |-> Cleared(r)[f]]
           /\ Cleared(r).phase = "select" /\ Cleared(r).round = NoRound
           /\ Cleared(r).results = <<>> /\ Cleared(r).aborted = {}
  BY DEF Cleared, Fields

LEMMA RotatedFacts ==
    ASSUME NEW r, NEW reg, r = [f \in Fields |-> r[f]]
    PROVE  /\ Rotated(r, reg) = [f \in Fields |-> Rotated(r, reg)[f]]
           /\ Rotated(r, reg).phase = r.phase /\ Rotated(r, reg).round = r.round
           /\ Rotated(r, reg).results = r.results
           /\ Rotated(r, reg).aborted = r.aborted
  BY DEF Rotated, Fields

LEMMA HeirFacts ==
    ASSUME NEW r, NEW u, NEW reg, r = [f \in Fields |-> r[f]]
    PROVE  /\ Heir(r, u, reg) = [f \in Fields |-> Heir(r, u, reg)[f]]
           /\ Heir(r, u, reg).phase = r.phase /\ Heir(r, u, reg).round = r.round
           /\ Heir(r, u, reg).results = r.results
           /\ Heir(r, u, reg).aborted = r.aborted
  BY DEF Heir, Fields

\* A record that differs in other fields than these follows its round too.
LEMMA FollowsSame ==
    ASSUME NEW r, NEW q, NEW taken, Follows(r, taken),
           q = [f \in Fields |-> q[f]],
           q.phase = r.phase, q.round = r.round,
           q.results = r.results, q.aborted = r.aborted
    PROVE  Follows(q, taken)
  BY DEF Follows

\* Out of Playing, a record without a round and without results follows.
LEMMA FollowsNoRound ==
    ASSUME StoreInv, begun \subseteq SettledRounds, NEW q, NEW taken,
           q = [f \in Fields |-> q[f]],
           q.phase \in {"select", "ready"}, q.round = NoRound,
           DOMAIN q.results \cap q.aborted = {}
    PROVE  Follows(q, taken)
<1>1. NoRound \in 0 .. drawn /\ NoRound \notin begun
  BY DEF StoreInv, NoRound
<1>2. QED
  BY <1>1 DEF Follows

\* What each step keeps: the invariant, and what AcceptedResultsSettle says
\* of a step.
Preserved ==
    /\ IInv'
    /\ settled' # settled => accepted' \subseteq DOMAIN event'.results

LEMMA EmptyIsDisjoint == \A S : DOMAIN <<>> \cap S = {}
  OBVIOUS

LEMMA InvariantInit == Init => IInv
<1> SUFFICES ASSUME Init PROVE IInv
  OBVIOUS
<1>1. SettledRounds = {} /\ Len(settled) = 0 /\ settled \in Seq(Nat)
  BY DEF Init, SettledRounds
<1>2. IsFiniteSet({}) /\ Cardinality({}) = 0
  BY FS_EmptySet
<1>3. StoreInv
  BY <1>1, <1>2, EmptyIsDisjoint DEF Init, StoreInv, NoEvent
<1>4. room = [f \in Fields |-> room[f]]
  BY DEF Init, Fields
<1>5. Follows(room, accepted)
  <2>1. room.phase = "select" /\ room.results = <<>> /\ room.aborted = {} /\ room.round = 0
    BY DEF Init, NoRound
  <2>2. drawn = 0 /\ begun = {}
    BY DEF Init
  <2>3. 0 \in 0 .. drawn
    BY <2>2
  <2>4. QED
    BY <1>4, <2>1, <2>2, <2>3, EmptyIsDisjoint DEF Follows
<1>6. BusyInv
  BY DEF Init, BusyInv, Idle
<1>7. QED
  BY <1>3, <1>5, <1>6 DEF IInv

-----------------------------------------------------------------------------
\* A settlement of the round being played leaves none that is not settled.
LEMMA SettleStep ==
    ASSUME StoreInv, NEW r, NEW taken, Follows(r, taken), r.phase = "playing",
           Settle(r), UNCHANGED <<drawn, opened, begun>>
    PROVE  StoreInv' /\ begun' \subseteq SettledRounds'
<1>1. r.round \in begun /\ r.round \notin SettledRounds /\ r.round \in Nat
      /\ begun \subseteq SettledRounds \cup {r.round}
  BY DEF Follows, StoreInv
<1>2. settled' \in Seq(Nat) /\ Len(settled') = Len(settled) + 1
  BY <1>1 DEF StoreInv, Settle
<1>3. SettledRounds' = SettledRounds \cup {r.round}
  <2>1. /\ \A i \in 1 .. Len(settled) : settled'[i] = settled[i]
        /\ settled'[Len(settled) + 1] = r.round
        /\ Len(settled) \in Nat
    BY <1>1 DEF StoreInv, Settle
  <2>2. QED
    BY <1>2, <2>1 DEF SettledRounds
<1>4. IsFiniteSet(SettledRounds') /\ Cardinality(SettledRounds') = Len(settled')
  <2>1. IsFiniteSet(SettledRounds) /\ Cardinality(SettledRounds) = Len(settled)
    BY DEF StoreInv
  <2>2. QED
    BY <1>1, <1>2, <1>3, <2>1, FS_AddElement
<1>5. DOMAIN event'.results \cap event'.aborted = {}
  BY DEF Settle, Follows
<1>6. QED
  BY <1>1, <1>2, <1>3, <1>4, <1>5 DEF StoreInv

\* CheckAllReady at the end of a handler: whatever it opens or settles, the
\* room follows its round if the record the handler hands it does.
LEMMA CheckStep ==
    ASSUME StoreInv, busy.act = "idle", NEW r, NEW reg, NEW taken,
           taken = accepted', Follows(r, taken), CheckAllReady(r, reg),
           UNCHANGED <<opened, begun>>
    PROVE  Preserved
<1>1. CASE r.phase = "ready" /\ AllReady(r, reg)
  <2> DEFINE q == [r EXCEPT !.countdown = FALSE, !.pending = @ /\ ~r.admin,
                            !.round = RoundOf(r)]
  <2>1. /\ room' = q /\ busy' = Opening("opening", {}, r)
        /\ drawn' = IF r.round = NoRound THEN drawn + 1 ELSE drawn
        /\ settled' = settled /\ event' = event
    BY <1>1 DEF CheckAllReady
  <2>2. /\ q = [f \in Fields |-> q[f]] /\ q.phase = "ready" /\ q.round = RoundOf(r)
        /\ q.results = r.results /\ q.aborted = r.aborted
    BY <1>1 DEF Follows, Fields
  <2>3. drawn \in Nat /\ drawn' \in Nat /\ drawn <= drawn'
    BY <2>1 DEF StoreInv
  <2>4. RoundOf(r) \in 0 .. drawn' /\ RoundOf(r) \notin begun /\ RoundOf(r) # NoRound
    <3>1. begun \subseteq 1 .. drawn
      BY DEF StoreInv
    <3>2. CASE r.round = NoRound
      BY <2>1, <2>3, <3>1, <3>2 DEF RoundOf, NoRound
    <3>3. CASE r.round # NoRound
      BY <1>1, <2>1, <2>3, <3>3 DEF RoundOf, Follows
    <3>4. QED
      BY <3>2, <3>3
  <2>5. StoreInv' /\ SettledRounds' = SettledRounds
    <3>1. 1 .. drawn \subseteq 1 .. drawn'
      BY <2>3
    <3>2. SettledRounds' = SettledRounds
      BY <2>1 DEF SettledRounds
    <3>3. QED
      BY <2>1, <2>3, <3>1, <3>2 DEF StoreInv
  <2>6. Follows(room, accepted)'
    <3>1. /\ room' = [f \in Fields |-> room'[f]]
          /\ room'.phase = "ready" /\ room'.round = RoundOf(r)
          /\ room'.results = r.results /\ room'.aborted = r.aborted
      BY <2>1, <2>2
    <3>2. /\ DOMAIN r.results \cap r.aborted = {}
          /\ begun' \subseteq SettledRounds'
      BY <1>1, <2>5 DEF Follows
    <3>3. room'.round \in 0 .. drawn' /\ room'.round \notin begun'
      BY <2>4, <3>1
    <3>4. QED
      BY <3>1, <3>2, <3>3 DEF Follows
  <2>7. BusyInv'
    BY <2>1, <2>2, <2>4 DEF BusyInv, Opening
  <2>8. QED
    BY <2>1, <2>5, <2>6, <2>7 DEF IInv, Preserved
<1>2. CASE r.phase = "playing" /\ AllFinished(r, reg)
  <2>1. Settle(r) /\ room' = Rotated(Cleared(r), reg) /\ busy' = busy /\ drawn' = drawn
    BY <1>2 DEF CheckAllReady
  <2>2. StoreInv' /\ begun' \subseteq SettledRounds'
    BY <1>2, <2>1, SettleStep
  <2>3. r = [f \in Fields |-> r[f]]
    BY DEF Follows
  <2>4. /\ room' = [f \in Fields |-> room'[f]]
        /\ room'.phase = "select" /\ room'.round = NoRound
        /\ room'.results = <<>> /\ room'.aborted = {}
    BY <2>1, <2>3, ClearedFacts, RotatedFacts
  <2>5. Follows(room, accepted)'
    BY <2>2, <2>4, EmptyIsDisjoint DEF Follows, StoreInv, NoRound
  <2>6. BusyInv'
    BY <2>1 DEF BusyInv
  <2>7. accepted' \subseteq DOMAIN event'.results
    BY <1>2, <2>1 DEF Follows, Settle
  <2>8. QED
    BY <2>2, <2>5, <2>6, <2>7 DEF IInv, Preserved
<1>3. CASE /\ ~(r.phase = "ready" /\ AllReady(r, reg))
           /\ ~(r.phase = "playing" /\ AllFinished(r, reg))
  <2>1. room' = r /\ UNCHANGED <<busy, settled, event, drawn>>
    BY <1>3 DEF CheckAllReady
  <2>2. StoreInv' /\ SettledRounds' = SettledRounds
    BY <2>1 DEF StoreInv, SettledRounds
  <2>3. Follows(room, accepted)'
    BY <2>1, <2>2 DEF Follows
  <2>4. BusyInv'
    BY <2>1 DEF BusyInv
  <2>5. QED
    BY <2>1, <2>2, <2>3, <2>4 DEF IInv, Preserved
<1>4. QED
  BY <1>1, <1>2, <1>3

\* A step that writes none of what the invariant reads but the record, which
\* follows its round as before while the actor is idle.
LEMMA QuietStep ==
    ASSUME StoreInv, NEW taken, taken = accepted', Follows(room', taken),
           busy.act = "idle",
           UNCHANGED <<busy, storeVars, begun>>
    PROVE  Preserved
<1>1. StoreInv' /\ SettledRounds' = SettledRounds
  BY DEF StoreInv, SettledRounds, storeVars
<1>2. Follows(room, accepted)'
  BY <1>1 DEF Follows, storeVars
<1>3. BusyInv'
  BY DEF BusyInv
<1>4. QED
  BY <1>1, <1>2, <1>3 DEF IInv, Preserved, storeVars

\* A step that writes nothing the invariant reads.
LEMMA StutterStep ==
    ASSUME IInv, UNCHANGED <<room, busy, storeVars, begun, accepted>>
    PROVE  Preserved
<1>1. StoreInv' /\ SettledRounds' = SettledRounds
  BY DEF IInv, StoreInv, SettledRounds, storeVars
<1>2. Follows(room, accepted)'
  BY <1>1 DEF IInv, Follows, storeVars
<1>3. BusyInv'
  BY DEF IInv, BusyInv
<1>4. QED
  BY <1>1, <1>2, <1>3 DEF IInv, Preserved, storeVars

LEMMA RecordShape == IInv => room = [f \in Fields |-> room[f]]
  BY DEF IInv, Follows

-----------------------------------------------------------------------------
\* Choosing, starting and calling off.

LEMMA SelectingStep ==
    ASSUME IInv,
           \/ SetChart \/ StartRoom \/ EnterReadyPhase
           \/ \E u \in Users : HostStart(u)
    PROVE  Preserved
<1> USE RecordShape
<1> room = [f \in Fields |-> room[f]] /\ Follows(room, accepted) /\ StoreInv
  BY DEF IInv
<1>1. CASE SetChart
  <2> DEFINE q == [room EXCEPT !.chart = TRUE]
  <2>1. /\ q = [f \in Fields |-> q[f]] /\ q.phase = room.phase /\ q.round = room.round
        /\ q.results = room.results /\ q.aborted = room.aborted
    BY DEF Fields
  <2>2. Follows(q, accepted)
    BY <2>1, FollowsSame
  <2>3. QED
    BY <1>1, <2>2, QuietStep DEF SetChart, Command, OnlyRoom, OnlyActor, histVars, storeVars
<1> DEFINE Started(u) == [room EXCEPT !.phase = "ready", !.started = {u}, !.countdown = TRUE]
<1>2. ASSUME NEW q, q = [f \in Fields |-> q[f]], q.phase = "ready",
             room.phase = "select", q.round = room.round,
             q.results = room.results, q.aborted = room.aborted
      PROVE  Follows(q, accepted)
  BY <1>2 DEF Follows
<1>3. CASE StartRoom
  <2> DEFINE q == [room EXCEPT !.phase = "ready", !.started = {}, !.admin = TRUE,
                               !.pending = TRUE, !.countdown = TRUE]
  <2>1. /\ q = [f \in Fields |-> q[f]] /\ q.phase = "ready" /\ q.round = room.round
        /\ q.results = room.results /\ q.aborted = room.aborted
    BY DEF Fields
  <2>2. Follows(q, accepted)
    BY <1>2, <1>3, <2>1 DEF StartRoom, CanStart
  <2>3. CheckAllReady(q, registry) /\ busy.act = "idle" /\ UNCHANGED <<opened, begun, accepted>>
    BY <1>3 DEF StartRoom, Command, OnlyRoom, OnlyActor, histVars
  <2>4. QED
    BY <2>2, <2>3, CheckStep
<1>4. CASE EnterReadyPhase
  <2> DEFINE q == [room EXCEPT !.phase = "ready", !.started = {room.host} \ {NoUser},
                               !.countdown = TRUE]
  <2>1. /\ q = [f \in Fields |-> q[f]] /\ q.phase = "ready" /\ q.round = room.round
        /\ q.results = room.results /\ q.aborted = room.aborted
    BY DEF Fields
  <2>2. Follows(q, accepted)
    BY <1>2, <1>4, <2>1 DEF EnterReadyPhase, CanStart
  <2>3. QED
    BY <1>4, <2>2, QuietStep
    DEF EnterReadyPhase, Command, OnlyRoom, OnlyActor, histVars, storeVars
<1>5. ASSUME NEW u \in Users, HostStart(u) PROVE Preserved
  <2>1. /\ busy.act = "idle" /\ UNCHANGED <<opened, begun, accepted>>
    BY <1>5 DEF HostStart, Command, OnlyActor, histVars
  <2>2. CASE CanStart
    <3> DEFINE q == Started(u)
    <3>1. /\ q = [f \in Fields |-> q[f]] /\ q.phase = "ready" /\ q.round = room.round
          /\ q.results = room.results /\ q.aborted = room.aborted
      BY DEF Fields
    <3>2. Follows(q, accepted)
      BY <1>2, <2>2, <3>1 DEF CanStart
    <3>3. CheckAllReady(q, registry)
      BY <1>5, <2>2 DEF HostStart
    <3>4. QED
      BY <2>1, <3>2, <3>3, CheckStep
  <2>3. CASE ~CanStart
    BY <1>5, <2>1, <2>3, StutterStep DEF HostStart, storeVars
  <2>4. QED
    BY <2>2, <2>3
<1>6. QED
  BY <1>1, <1>3, <1>4, <1>5

LEMMA ReadyStep ==
    ASSUME IInv,
           CancelStart \/ \E u \in Users : SetReady(u) \/ CancelReady(u)
    PROVE  Preserved
<1> USE RecordShape
<1> room = [f \in Fields |-> room[f]] /\ Follows(room, accepted) /\ StoreInv
  BY DEF IInv
<1> DEFINE off == [Cleared(room) EXCEPT !.pending = FALSE]
<1>1. ASSUME room.phase = "ready" PROVE Follows(off, accepted)
  <2>1. /\ off = [f \in Fields |-> off[f]] /\ off.phase = "select" /\ off.round = NoRound
        /\ off.results = <<>> /\ off.aborted = {}
    BY ClearedFacts DEF Fields
  <2>2. begun \subseteq SettledRounds
    BY <1>1 DEF Follows
  <2>3. QED
    BY <2>1, <2>2, EmptyIsDisjoint, FollowsNoRound
<1>2. CASE CancelStart
  BY <1>1, <1>2, QuietStep DEF CancelStart, Command, OnlyRoom, OnlyActor, histVars, storeVars
<1>3. ASSUME NEW u \in Users, SetReady(u) PROVE Preserved
  <2> DEFINE q == [room EXCEPT !.started = @ \cup {u}]
  <2>1. /\ q = [f \in Fields |-> q[f]] /\ q.phase = room.phase /\ q.round = room.round
        /\ q.results = room.results /\ q.aborted = room.aborted
    BY DEF Fields
  <2>2. Follows(q, accepted)
    BY <2>1, FollowsSame
  <2>3. CheckAllReady(q, registry) /\ busy.act = "idle" /\ UNCHANGED <<opened, begun, accepted>>
    BY <1>3 DEF SetReady, PlayerCommand, Command, OnlyActor, histVars
  <2>4. QED
    BY <2>2, <2>3, CheckStep
<1>4. ASSUME NEW u \in Users, CancelReady(u) PROVE Preserved
  <2>1. /\ busy.act = "idle" /\ room.phase = "ready"
        /\ UNCHANGED <<busy, storeVars, begun, accepted>>
    BY <1>4 DEF CancelReady, PlayerCommand, Command, OnlyActor, histVars, storeVars
  <2>2. CASE room.host = u
    BY <1>1, <1>4, <2>1, <2>2, QuietStep DEF CancelReady
  <2>3. CASE room.host # u
    <3> DEFINE q == [room EXCEPT !.started = @ \ {u}]
    <3>1. /\ q = [f \in Fields |-> q[f]] /\ q.phase = room.phase /\ q.round = room.round
          /\ q.results = room.results /\ q.aborted = room.aborted
      BY DEF Fields
    <3>2. Follows(q, accepted)
      BY <3>1, FollowsSame
    <3>3. QED
      BY <1>4, <2>1, <2>3, <3>2, QuietStep DEF CancelReady
  <2>4. QED
    BY <2>2, <2>3
<1>5. QED
  BY <1>2, <1>3, <1>4

-----------------------------------------------------------------------------
\* The answers of the round store.

LEMMA OpenSucceedsStep == ASSUME IInv, OpenSucceeds PROVE Preserved
<1> DEFINE n == room.round
<1>1. /\ room = [f \in Fields |-> room[f]] /\ StoreInv
      /\ room.phase = "ready" /\ n # NoRound /\ n \in 0 .. drawn
      /\ n \notin begun /\ begun \subseteq SettledRounds
  BY DEF IInv, Follows, BusyInv, OpenSucceeds
<1>2. /\ opened' = opened \cup {n} /\ begun' = begun \cup {n} /\ accepted' = {}
      /\ settled' = settled /\ drawn' = drawn /\ event' = NoEvent
      /\ busy' = Idle /\ SettledRounds' = SettledRounds
  BY DEF OpenSucceeds, SettledRounds
<1>3. /\ room' = [f \in Fields |-> room'[f]]
      /\ room'.phase = "playing" /\ room'.round = n /\ room'.results = <<>>
  BY <1>1 DEF OpenSucceeds, Fields
<1>4. n \in 1 .. drawn
  BY <1>1 DEF NoRound, StoreInv
<1>5. StoreInv'
  BY <1>1, <1>2, <1>4, EmptyIsDisjoint DEF StoreInv, NoEvent
<1>6. begun' \ SettledRounds' = {n} /\ n \in begun' \ SettledRounds'
  BY <1>1, <1>2 DEF StoreInv
<1>7. Follows(room, accepted)'
  BY <1>1, <1>2, <1>3, <1>6, EmptyIsDisjoint DEF Follows
<1>8. BusyInv'
  BY <1>2 DEF BusyInv, Idle
<1>9. QED
  BY <1>2, <1>5, <1>7, <1>8 DEF IInv, Preserved

LEMMA OpenFailsStep ==
    ASSUME IInv, NEW written \in BOOLEAN, OpenFails(written) PROVE Preserved
<1>1. /\ room = [f \in Fields |-> room[f]] /\ StoreInv
      /\ room.phase = "ready" /\ room.round # NoRound /\ room.round \in 0 .. drawn
      /\ begun \subseteq SettledRounds /\ DOMAIN room.results \cap room.aborted = {}
  BY DEF IInv, Follows, BusyInv, OpenFails
<1>2. /\ opened' \subseteq opened \cup {room.round} /\ opened \subseteq opened'
      /\ UNCHANGED <<settled, drawn, event, begun, accepted>>
      /\ busy' = Idle /\ SettledRounds' = SettledRounds
  BY DEF OpenFails, SettledRounds
<1>3. /\ room' = [f \in Fields |-> room'[f]]
      /\ room'.phase = "ready" /\ room'.round = NoRound
      /\ room'.results = room.results /\ room'.aborted = room.aborted
  BY <1>1 DEF OpenFails, Fields
<1>4. room.round \in 1 .. drawn
  BY <1>1 DEF NoRound, StoreInv
<1>5. StoreInv'
  BY <1>1, <1>2, <1>4 DEF StoreInv
<1>6. NoRound \in 0 .. drawn' /\ NoRound \notin begun' /\ begun' \subseteq SettledRounds'
  BY <1>1, <1>2 DEF StoreInv, NoRound
<1>7. Follows(room, accepted)'
  BY <1>1, <1>3, <1>6 DEF Follows
<1>8. BusyInv'
  BY <1>2 DEF BusyInv, Idle
<1>9. QED
  BY <1>2, <1>5, <1>7, <1>8 DEF IInv, Preserved

-----------------------------------------------------------------------------
\* Results, giving up and coming in late: somebody who is neither finished
\* nor aborted becomes one of the two.

LEMMA GivenUp ==
    ASSUME IInv, NEW u, u \notin Finished(room)
    PROVE  Follows([room EXCEPT !.aborted = @ \cup {u}], accepted)
<1> DEFINE q == [room EXCEPT !.aborted = @ \cup {u}]
<1>1. room = [f \in Fields |-> room[f]] /\ Follows(room, accepted)
  BY DEF IInv, Follows
<1>2. /\ q = [f \in Fields |-> q[f]] /\ q.phase = room.phase /\ q.round = room.round
      /\ q.results = room.results /\ q.aborted = room.aborted \cup {u}
  BY <1>1 DEF Fields
<1>3. DOMAIN q.results \cap q.aborted = {}
  BY <1>1, <1>2 DEF Follows, Finished
<1>4. QED
  BY <1>1, <1>2, <1>3 DEF Follows

LEMMA ResultTaken ==
    ASSUME IInv, NEW u, NEW s, u \notin room.aborted,
           NEW taken, taken \subseteq accepted \cup {u}
    PROVE  LET q == [room EXCEPT !.results =
                       [v \in DOMAIN room.results \cup {u} |->
                           IF v = u THEN s ELSE room.results[v]]]
           IN  Follows(q, taken)
<1> DEFINE res == [v \in DOMAIN room.results \cup {u} |->
                       IF v = u THEN s ELSE room.results[v]]
           q == [room EXCEPT !.results = res]
<1>1. room = [f \in Fields |-> room[f]] /\ Follows(room, accepted)
  BY DEF IInv, Follows
<1>2. DOMAIN res = DOMAIN room.results \cup {u}
  OBVIOUS
<1> HIDE DEF res
<1>3. /\ q = [f \in Fields |-> q[f]] /\ q.phase = room.phase /\ q.round = room.round
      /\ q.results = res /\ q.aborted = room.aborted
  BY <1>1 DEF Fields
<1> HIDE DEF q
<1>4. /\ DOMAIN q.results \cap q.aborted = {}
      /\ room.phase = "playing" => taken \subseteq DOMAIN q.results
  BY <1>1, <1>2, <1>3 DEF Follows
<1>5. Follows(q, taken)
  BY <1>1, <1>3, <1>4 DEF Follows
<1>6. QED
  BY <1>5 DEF q, res

LEMMA PlayingStep ==
    ASSUME IInv,
           \E u \in Users : \/ \E s \in Scores : SubmitResult(u, s)
                            \/ SubmitLate(u) \/ AbortRound(u) \/ JoinAbort(u)
    PROVE  Preserved
<1> StoreInv /\ Follows(room, accepted)
  BY DEF IInv
<1>1. ASSUME NEW u \in Users, SubmitLate(u) \/ AbortRound(u) PROVE Preserved
  <2>1. /\ u \notin Finished(room) /\ busy.act = "idle" /\ UNCHANGED <<opened, begun, accepted>>
        /\ CheckAllReady([room EXCEPT !.aborted = @ \cup {u}], registry)
    BY <1>1 DEF SubmitLate, AbortRound, PlayerCommand, Command, OnlyActor, histVars
  <2>2. QED
    BY <2>1, GivenUp, CheckStep
<1>2. ASSUME NEW u \in Users, JoinAbort(u) PROVE Preserved
  <2> DEFINE late == room.phase = "playing" /\ u \notin Finished(room)
             q == IF late THEN [room EXCEPT !.aborted = @ \cup {u}] ELSE room
  <2>1. /\ busy.act = "idle" /\ UNCHANGED <<opened, begun, accepted>>
        /\ CheckAllReady(q, registry)
    BY <1>2 DEF JoinAbort, Command, histVars
  <2>2. Follows(q, accepted)
    BY GivenUp
  <2>3. QED
    BY <2>1, <2>2, CheckStep
<1>3. ASSUME NEW u \in Users, NEW s \in Scores, SubmitResult(u, s) PROVE Preserved
  <2> DEFINE q == [room EXCEPT !.results =
                     [v \in DOMAIN room.results \cup {u} |->
                         IF v = u THEN s ELSE room.results[v]]]
  <2>1. u \notin room.aborted /\ busy.act = "idle" /\ UNCHANGED <<opened, begun>>
    BY <1>3 DEF SubmitResult, PlayerCommand, Command, OnlyActor
  <2>2. Follows(q, accepted) /\ Follows(q, accepted \cup {u})
    BY <2>1, ResultTaken
  <2> HIDE DEF q
  <2>3. \/ accepted' = accepted \cup {u} /\ CheckAllReady(q, registry)
        \/ room' = q /\ UNCHANGED <<accepted, busy, drawn, settled, event>>
    BY <1>3 DEF SubmitResult, q
  <2>4. QED
    BY <2>1, <2>2, <2>3, CheckStep, QuietStep DEF storeVars
<1>4. QED
  BY <1>1, <1>2, <1>3

-----------------------------------------------------------------------------
\* The timers of the room.

LEMMA ForceStartStep == ASSUME IInv, ForceStart PROVE Preserved
<1>1. /\ room = [f \in Fields |-> room[f]] /\ StoreInv /\ room.phase = "ready"
      /\ room.round \in 0 .. drawn /\ room.round \notin begun /\ begun \subseteq SettledRounds
      /\ DOMAIN room.results \cap room.aborted = {}
  BY DEF IInv, Follows, ForceStart
<1>2. /\ UNCHANGED <<opened, begun, settled, event, accepted>>
      /\ drawn' = IF room.round = NoRound THEN drawn + 1 ELSE drawn
      /\ busy'.act = "forcing" /\ SettledRounds' = SettledRounds
  BY DEF ForceStart, OnlyRoom, OnlyActor, histVars, Opening, SettledRounds
<1>3. /\ room' = [f \in Fields |-> room'[f]]
      /\ room'.phase = "ready" /\ room'.round = RoundOf(room)
      /\ room'.results = room.results /\ room'.aborted = room.aborted
  BY <1>1 DEF ForceStart, Fields
<1>4. drawn \in Nat /\ drawn' \in Nat /\ 1 .. drawn \subseteq 1 .. drawn'
  BY <1>1, <1>2 DEF StoreInv
<1>5. RoundOf(room) \in 0 .. drawn' /\ RoundOf(room) \notin begun /\ RoundOf(room) # NoRound
  <2>1. begun \subseteq 1 .. drawn
    BY <1>1 DEF StoreInv
  <2>2. CASE room.round = NoRound
    BY <1>2, <1>4, <2>1, <2>2 DEF RoundOf, NoRound
  <2>3. CASE room.round # NoRound
    BY <1>1, <1>2, <1>4, <2>3 DEF RoundOf
  <2>4. QED
    BY <2>2, <2>3
<1>6. StoreInv'
  BY <1>1, <1>2, <1>4 DEF StoreInv
<1>7. Follows(room, accepted)'
  BY <1>1, <1>2, <1>3, <1>5 DEF Follows
<1>8. BusyInv'
  BY <1>2, <1>3, <1>5 DEF BusyInv
<1>9. QED
  BY <1>2, <1>6, <1>7, <1>8 DEF IInv, Preserved

LEMMA ForceEndStep == ASSUME IInv, ForceEnd PROVE Preserved
<1>1. /\ room = [f \in Fields |-> room[f]] /\ StoreInv /\ Follows(room, accepted)
      /\ room.phase = "playing"
  BY DEF IInv, Follows, ForceEnd
<1>2. /\ UNCHANGED <<storeVars, begun, accepted>> /\ busy'.act = "ending"
      /\ SettledRounds' = SettledRounds
  BY DEF ForceEnd, OnlyRoom, OnlyActor, histVars, storeVars, Ending, Idle, SettledRounds
<1>3. /\ room' = [f \in Fields |-> room'[f]]
      /\ room'.phase = "playing" /\ room'.round = room.round
      /\ room'.results = room.results
      /\ room'.aborted = room.aborted \cup (Present \ DOMAIN room.results)
  BY <1>1 DEF ForceEnd, Fields
<1>4. StoreInv'
  BY <1>1, <1>2 DEF StoreInv, storeVars
<1>5. DOMAIN room'.results \cap room'.aborted = {}
  BY <1>1, <1>3 DEF Follows
<1>6. Follows(room, accepted)'
  BY <1>1, <1>2, <1>3, <1>5 DEF Follows, storeVars
<1>7. BusyInv'
  BY <1>2, <1>3 DEF BusyInv
<1>8. QED
  BY <1>2, <1>4, <1>6, <1>7 DEF IInv, Preserved, storeVars

LEMMA ForceSettleStep == ASSUME IInv, ForceSettle PROVE Preserved
<1>1. /\ room = [f \in Fields |-> room[f]] /\ StoreInv /\ Follows(room, accepted)
      /\ room.phase = "playing"
      /\ UNCHANGED <<drawn, opened, begun, accepted>> /\ busy' = Idle
  BY DEF IInv, Follows, BusyInv, ForceSettle, OnlyRoom, OnlyActor, histVars
<1>2. BusyInv'
  BY <1>1 DEF BusyInv, Idle
<1>3. CASE AllFinished(room, registry)
  <2>1. Settle(room) /\ room' = Cleared(room)
    BY <1>3 DEF ForceSettle
  <2>2. StoreInv' /\ begun' \subseteq SettledRounds'
    BY <1>1, <2>1, SettleStep
  <2>3. /\ room' = [f \in Fields |-> room'[f]]
        /\ room'.phase = "select" /\ room'.round = NoRound
        /\ room'.results = <<>> /\ room'.aborted = {}
    BY <1>1, <2>1, ClearedFacts
  <2>4. Follows(room, accepted)'
    BY <2>2, <2>3, EmptyIsDisjoint DEF Follows, StoreInv, NoRound
  <2>5. accepted' \subseteq DOMAIN event'.results
    BY <1>1, <2>1 DEF Follows, Settle
  <2>6. QED
    BY <1>2, <2>2, <2>4, <2>5 DEF IInv, Preserved
<1>4. CASE ~AllFinished(room, registry)
  <2>1. UNCHANGED <<settled, event, room>> /\ SettledRounds' = SettledRounds
    BY <1>4 DEF ForceSettle, SettledRounds
  <2>2. StoreInv'
    BY <1>1, <2>1 DEF StoreInv
  <2>3. Follows(room, accepted)'
    BY <1>1, <2>1 DEF Follows
  <2>4. QED
    BY <1>2, <2>1, <2>2, <2>3 DEF IInv, Preserved
<1>5. QED
  BY <1>3, <1>4

-----------------------------------------------------------------------------
\* Leaving.

LEMMA HeirFollows ==
    ASSUME IInv, NEW u, NEW reg
    PROVE  Follows(Heir(room, u, reg), accepted)
<1>1. room = [f \in Fields |-> room[f]] /\ Follows(room, accepted)
  BY DEF IInv, Follows
<1>2. QED
  BY <1>1, HeirFacts, FollowsSame

LEMMA RemovalStep ==
    ASSUME IInv, NEW u, Removal(u), UNCHANGED <<opened, begun, accepted>>
    PROVE  Preserved
<1>1. StoreInv /\ Follows(room, accepted) /\ busy.act = "idle"
  BY DEF IInv, Removal, Command
<1>2. CASE u \in Present
  <2> DEFINE reg == Without(registry, u)
             drop == reg = <<>> /\ ~mode.persistent
             q == IF drop \/ mode.tournament THEN room ELSE Heir(room, u, reg)
  <2>1. CheckAllReady(q, reg)
    BY <1>2 DEF Removal, Departure
  <2>2. Follows(q, accepted)
    BY <1>1, HeirFollows
  <2> HIDE DEF q, reg
  <2>3. QED
    BY <1>1, <2>1, <2>2, CheckStep
<1>3. CASE u \notin Present
  BY <1>3, StutterStep DEF Removal, storeVars
<1>4. QED
  BY <1>2, <1>3

LEMMA KickStep == ASSUME IInv, NEW u, KickUser(u) PROVE Preserved
<1> DEFINE reg == Without(registry, u)
           drop == reg = <<>> /\ ~mode.persistent
<1>1. /\ StoreInv /\ Follows(room, accepted) /\ busy.act = "idle"
      /\ UNCHANGED <<busy, storeVars, begun, accepted>>
      /\ room' = IF drop THEN room ELSE Heir(room, u, reg)
  BY DEF IInv, KickUser, Command
<1>2. Follows(room', accepted)
  BY <1>1, HeirFollows
<1>3. QED
  BY <1>1, <1>2, QuietStep

LEMMA SetHostStep == ASSUME IInv, NEW h, SetHost(h) PROVE Preserved
<1> DEFINE q == [room EXCEPT !.host = h, !.system = (h = NoUser)]
<1>1. room = [f \in Fields |-> room[f]] /\ StoreInv /\ Follows(room, accepted)
  BY DEF IInv, Follows
<1>2. /\ q = [f \in Fields |-> q[f]] /\ q.phase = room.phase /\ q.round = room.round
      /\ q.results = room.results /\ q.aborted = room.aborted
  BY <1>1 DEF Fields
<1>3. Follows(q, accepted)
  BY <1>1, <1>2, FollowsSame
<1>4. QED
  BY <1>1, <1>3, QuietStep DEF SetHost, Command, OnlyRoom, OnlyActor, histVars, storeVars

-----------------------------------------------------------------------------
\* Every step.

\* What sessions, joins and settings write is not the round's.
LEMMA AsideStep ==
    ASSUME IInv,
           \/ CloseRoom \/ ClearDegraded \/ StopStale \/ UNCHANGED vars
           \/ \E m \in Modes : SetMode(m)
           \/ \E u \in Users :
                \/ RequestStart(u) \/ LeaveAround(u) \/ JoinCheck(u) \/ GivesUp(u)
                \/ JoinAdd(u) \/ JoinRegister(u) \/ JoinUnanswered(u)
                \/ JoinCancelled(u) \/ CompensateFails(u)
    PROVE  Preserved
<1>1. UNCHANGED <<room, busy, storeVars, begun, accepted>>
  BY DEF CloseRoom, ClearDegraded, StopStale, vars, SetMode, RequestStart, LeaveAround,
         JoinCheck, GivesUp, JoinAdd, JoinRegister, JoinUnanswered, JoinCancelled,
         CompensateFails, LoseJoin, roomVars, histVars, storeVars
<1>2. QED
  BY <1>1, StutterStep

LEMMA InvariantStep == IInv /\ [Next]_vars => Preserved
<1> SUFFICES ASSUME IInv, [Next]_vars PROVE Preserved
  OBVIOUS
<1>1. CASE SetChart \/ StartRoom \/ EnterReadyPhase \/ \E u \in Users : HostStart(u)
  BY <1>1, SelectingStep
<1>2. CASE CancelStart \/ \E u \in Users : SetReady(u) \/ CancelReady(u)
  BY <1>2, ReadyStep
<1>3. CASE StoreAnswers
  BY <1>3, OpenSucceedsStep, OpenFailsStep DEF StoreAnswers
<1>4. CASE \E u \in Users : \/ \E s \in Scores : SubmitResult(u, s)
                            \/ SubmitLate(u) \/ AbortRound(u) \/ JoinAbort(u)
  BY <1>4, PlayingStep
<1>5. CASE ForceStart \/ ForceEnd \/ ForceSettle
  BY <1>5, ForceStartStep, ForceEndStep, ForceSettleStep
<1>6. ASSUME NEW u \in Users, RemoveUser(u) \/ Compensate(u) PROVE Preserved
  BY <1>6, RemovalStep DEF RemoveUser, Compensate, histVars
<1>7. CASE \/ \E u \in Users : KickUser(u)
           \/ \E h \in Users \cup {NoUser} : SetHost(h)
  BY <1>7, KickStep, SetHostStep
<1>8. CASE \/ CloseRoom \/ ClearDegraded \/ StopStale \/ UNCHANGED vars
           \/ \E m \in Modes : SetMode(m)
           \/ \E u \in Users :
                \/ RequestStart(u) \/ LeaveAround(u) \/ JoinCheck(u) \/ GivesUp(u)
                \/ JoinAdd(u) \/ JoinRegister(u) \/ JoinUnanswered(u)
                \/ JoinCancelled(u) \/ CompensateFails(u)
  BY <1>8, AsideStep
<1>9. QED
  BY <1>1, <1>2, <1>3, <1>4, <1>5, <1>6, <1>7, <1>8 DEF Next, Maintenance

-----------------------------------------------------------------------------
\* The record of the actor, the round store and what was settled agree in
\* every state: IInv is inductive.
THEOREM RoundInvariant == Spec => []IInv
<1>1. IInv /\ [Next]_vars => IInv'
  BY InvariantStep DEF Preserved
<1>2. QED
  BY <1>1, InvariantInit, PTL DEF Spec

\* A room plays only a round that the store holds and that is not settled:
\* open_round comes before Playing, the settlement leaves it.
THEOREM OnlyOpenRoundsArePlayed == Spec => []PlayingIsOpen
<1>1. IInv => PlayingIsOpen
  BY DEF IInv, StoreInv, Follows, PlayingIsOpen
<1>2. QED
  BY <1>1, RoundInvariant, PTL

\* No handler, departure or timeout between the start of a round and its end
\* makes the room forget it.
THEOREM NoRoundIsDropped == Spec => []NoRoundDropped
<1>1. IInv => NoRoundDropped
  BY DEF IInv, StoreInv, Follows, NoRoundDropped
<1>2. QED
  BY <1>1, RoundInvariant, PTL

\* Each round that was played is settled at most once (save_round_history),
\* and no other.
THEOREM SettledAtMostOnce == Spec => []SettledOnce
<1>1. IInv => SettledOnce
  BY DEF IInv, StoreInv, SettledOnce
<1>2. QED
  BY <1>1, RoundInvariant, PTL

\* Nobody is both finished and aborted, in the room or in what is settled.
THEOREM FinishedOrAborted == Spec => []ResultOrAbort
<1>1. IInv => ResultOrAbort
  BY DEF IInv, StoreInv, Follows, ResultOrAbort
<1>2. QED
  BY <1>1, RoundInvariant, PTL

\* What the players were told was taken is in the RoundCompleted of the round,
\* whoever has left or been kicked before it.
THEOREM AcceptedAreSettled == Spec => AcceptedResultsSettle
<1>1. IInv /\ [Next]_vars => [settled' # settled => accepted' \subseteq DOMAIN event'.results]_vars
  BY InvariantStep DEF Preserved
<1>2. QED
  BY <1>1, RoundInvariant, PTL DEF Spec, AcceptedResultsSettle
=============================================================================
