-------------------------- MODULE SessionAuth_proofs --------------------------
(***************************************************************************)
(* However many authentications, roll-backs, grace periods and kicks       *)
(* overlap, a session that is bound is bound under the generation it was   *)
(* told.  The generation of a User object may go back (a roll-back         *)
(* restores an older one), so this does not follow from its growth: what   *)
(* makes it true is that everything a roll-back may restore was itself     *)
(* bound, and that a session is bound only once (PrevAsTold, NotYetBound). *)
(*                                                                         *)
(* Where nothing overlaps an authentication (Calm), whoever authenticates  *)
(* does so for the registered user (UnderWay), and a mark or a decision to *)
(* dangle is about a bound session that is closed (Away): so nobody serves *)
(* or sits in a room who is not registered, and the sessions implement     *)
(* SessionHandover.                                                        *)
(***************************************************************************)
EXTENDS SessionAuth, TLAPS

HasUser ==
    \A s \in Sessions :
        \/ phase[s] \notin {"idle", "failed"}
        \/ s \in awaited \cup sessions
        \/ deciding.who = s
        => user[s] \in Sessions

PrevAsTold ==
    \A s \in Sessions : prev[s].session # None =>
        /\ user[prev[s].session] = user[s]
        /\ prev[s].generation = bound[prev[s].session]

NotYetBound ==
    \A s \in Sessions :
        /\ phase[s] \in {"idle", "found"} =>
               \A t \in Sessions : binding[t].session # s /\ prev[t].session # s
        /\ phase[s] = "idle" => prev[s].session = None

IInv == TypeOK /\ HasUser /\ PrevAsTold /\ NotYetBound /\ BoundAsTold

-----------------------------------------------------------------------------

(* The initial state satisfies the invariant. *)
LEMMA InitInv == Init => IInv
  <1> USE NoneAssumption, EnvironmentAssumption
  <1> SUFFICES ASSUME Init PROVE IInv OBVIOUS
  <1>1. TypeOK
    BY DEF Init, TypeOK, Unbound, Idle, Phases, Maybe, Bindings
  <1>2. HasUser /\ PrevAsTold /\ NotYetBound /\ BoundAsTold
    BY DEF Init, HasUser, PrevAsTold, NotYetBound, BoundAsTold, Unbound, Idle
  <1> QED BY <1>1, <1>2 DEF IInv

(* A binding that is cleared, or kept as it is, stays as it was told. *)
LEMMA CutBinding ==
  ASSUME IInv, NEW u \in Sessions, ClearSession(u)
  PROVE  /\ binding' \in [Sessions -> Bindings] /\ mark' \in [Sessions -> Maybe]
         /\ \A t \in Sessions : binding'[t] = binding[t] \/ binding'[t].session = None
  BY NoneAssumption DEF IInv, TypeOK, ClearSession, Bindings, Maybe

LEMMA CutIfMatches ==
  ASSUME IInv, NEW u \in Sessions, NEW s \in Sessions, ClearIfMatches(u, s)
  PROVE  /\ binding' \in [Sessions -> Bindings] /\ mark' \in [Sessions -> Maybe]
         /\ \A t \in Sessions : binding'[t] = binding[t] \/ binding'[t].session = None
  <1>1. CASE Bound(u, s, bound[s])
    BY <1>1, CutBinding DEF ClearIfMatches
  <1>2. CASE ~Bound(u, s, bound[s])
    BY <1>2 DEF ClearIfMatches, IInv, TypeOK
  <1> QED BY <1>1, <1>2

(* A step that keeps what the sessions were told, or cuts a binding, keeps the
   invariant's three parts about it. *)
LEMMA CutKeeps ==
  ASSUME IInv,
         UNCHANGED <<user, bound>>,
         \A t \in Sessions : /\ phase'[t] = "idle" => phase[t] = "idle"
                             /\ phase'[t] = "found" => phase[t] = "found",
         \A t \in Sessions : prev'[t] = prev[t] \/ prev'[t] = Unbound,
         \A t \in Sessions : binding'[t] = binding[t] \/ binding'[t].session = None
  PROVE  PrevAsTold' /\ NotYetBound' /\ BoundAsTold'
  <1> USE NoneAssumption
  <1>1. PrevAsTold'
    BY DEF IInv, PrevAsTold, Unbound
  <1>2. NotYetBound'
    <2>1. \A t \in Sessions : prev[t].session = None => prev'[t].session = None
      BY DEF Unbound
    <2>2. \A s, t \in Sessions :
             binding[t].session # s /\ prev[t].session # s
             => binding'[t].session # s /\ prev'[t].session # s
      BY DEF Unbound
    <2> SUFFICES ASSUME NEW s \in Sessions
                 PROVE  /\ phase'[s] \in {"idle", "found"} =>
                             \A t \in Sessions : binding'[t].session # s /\ prev'[t].session # s
                        /\ phase'[s] = "idle" => prev'[s].session = None
      BY DEF NotYetBound
    <2>3. /\ phase'[s] = "idle" => phase[s] = "idle"
          /\ phase'[s] = "found" => phase[s] = "found"
      OBVIOUS
    <2> QED BY <2>1, <2>2, <2>3 DEF IInv, NotYetBound
  <1>3. BoundAsTold'
    BY DEF IInv, BoundAsTold
  <1> QED BY <1>1, <1>2, <1>3

(* Where an authentication begins and ends. *)
LEMMA RefuseKeeps == ASSUME IInv, UNCHANGED races, NEW s \in Sessions, Refuse(s) PROVE IInv'
  <1>1. TypeOK'
    BY DEF IInv, TypeOK, Refuse, userVars, connVars, Phases
  <1>2. HasUser'
    BY DEF IInv, TypeOK, HasUser, Refuse, connVars
  <1>3. PrevAsTold' /\ NotYetBound' /\ BoundAsTold'
    BY CutKeeps DEF IInv, TypeOK, Refuse, userVars
  <1> QED BY <1>1, <1>2, <1>3 DEF IInv

LEMMA LookUpKeeps == ASSUME IInv, UNCHANGED races, NEW s \in Sessions, LookUp(s) PROVE IInv'
  <1> USE NoneAssumption
  <1>0. /\ phase[s] = "idle" /\ phase' = [phase EXCEPT ![s] = "found"]
        /\ UNCHANGED <<bound, binding, mark, timers, seated, sessions, lost, kicked, deciding>>
        /\ open' = [open EXCEPT ![s] = TRUE] /\ awaited' = awaited \cup {s}
    BY DEF LookUp
  <1>1. CASE users # None
    <2>1. /\ user' = [user EXCEPT ![s] = users]
          /\ prev' = [prev EXCEPT ![s] =
                 IF binding[users].session # None /\ Alive(binding[users].session)
                 THEN binding[users] ELSE Unbound]
          /\ UNCHANGED <<fresh, users>>
      BY <1>1 DEF LookUp
    <2>2. users \in Sessions
      BY <1>1 DEF IInv, TypeOK, Maybe
    <2>3. /\ prev'[s] = Unbound \/ prev'[s] = binding[users]
          /\ \A t \in Sessions \ {s} : prev'[t] = prev[t] /\ user'[t] = user[t]
          /\ user'[s] = users
      BY <2>1 DEF IInv, TypeOK
    <2>4. prev' \in [Sessions -> Bindings] /\ user' \in [Sessions -> Maybe]
      BY <2>1, <2>2 DEF IInv, TypeOK, Unbound, Bindings, Maybe
    <2>5. TypeOK'
      BY <1>0, <2>1, <2>4 DEF IInv, TypeOK, Phases
    <2>6. HasUser'
      BY <1>0, <2>2, <2>3 DEF IInv, TypeOK, HasUser
    <2>7. \A t, u \in Sessions : binding[u].session = t => t # s /\ user'[t] = u
      BY <1>0, <2>3 DEF IInv, NotYetBound, BoundAsTold
    <2>8. PrevAsTold'
      <3> SUFFICES ASSUME NEW t \in Sessions, prev'[t].session # None
                   PROVE  /\ user'[prev'[t].session] = user'[t]
                          /\ prev'[t].generation = bound[prev'[t].session]
        BY <1>0 DEF PrevAsTold
      <3> DEFINE p == prev'[t].session
      <3>1. p \in Sessions
        BY <2>4 DEF Bindings, Maybe
      <3>2. CASE t = s
        BY <2>2, <2>3, <2>7, <3>1, <3>2 DEF IInv, BoundAsTold, Unbound
      <3>3. CASE t # s
        BY <1>0, <2>3, <3>1, <3>3 DEF IInv, PrevAsTold, NotYetBound
      <3> QED BY <3>2, <3>3
    <2>9. NotYetBound'
      <3>1. SUFFICES ASSUME NEW t \in Sessions
                     PROVE  /\ phase'[t] \in {"idle", "found"} =>
                                \A u \in Sessions : binding'[u].session # t /\ prev'[u].session # t
                            /\ phase'[t] = "idle" => prev'[t].session = None
        BY DEF NotYetBound
      <3>2. CASE phase[t] \notin {"idle", "found"}
        <4>1. t # s /\ phase'[t] = phase[t]
          BY <1>0, <3>2
        <4> QED BY <3>2, <4>1
      <3>3. CASE phase[t] \in {"idle", "found"}
        <4>1. \A u \in Sessions : binding[u].session # t /\ prev[u].session # t
          BY <3>3 DEF IInv, NotYetBound
        <4>2. \A u \in Sessions : binding'[u].session # t /\ prev'[u].session # t
          BY <1>0, <2>2, <2>3, <4>1 DEF Unbound
        <4>3. phase'[t] = "idle" => t # s /\ phase[t] = "idle"
          BY <1>0 DEF IInv, TypeOK
        <4>4. phase'[t] = "idle" => prev'[t].session = None
          BY <2>3, <4>3 DEF IInv, NotYetBound
        <4> QED BY <4>2, <4>4
      <3> QED BY <3>2, <3>3
    <2>10. BoundAsTold'
      BY <1>0, <2>7 DEF IInv, BoundAsTold
    <2> QED BY <2>5, <2>6, <2>8, <2>9, <2>10 DEF IInv
  <1>2. CASE users = None
    <2>1. /\ user' = [user EXCEPT ![s] = s] /\ fresh' = [fresh EXCEPT ![s] = TRUE]
          /\ users' = s /\ UNCHANGED prev
      BY <1>2 DEF LookUp
    <2>2. TypeOK'
      BY <1>0, <2>1 DEF IInv, TypeOK, Phases, Maybe
    <2>3. HasUser'
      BY <1>0, <2>1 DEF IInv, TypeOK, HasUser
    <2>4. PrevAsTold'
      <3> SUFFICES ASSUME NEW t \in Sessions, prev[t].session # None
                   PROVE  /\ user'[prev[t].session] = user'[t]
                          /\ prev[t].generation = bound[prev[t].session]
        BY <1>0, <2>1 DEF PrevAsTold
      <3>1. prev[t].session \in Sessions /\ prev[t].session # s
        BY <1>0 DEF IInv, TypeOK, Bindings, Maybe, NotYetBound
      <3>2. CASE t # s
        BY <2>1, <3>1, <3>2 DEF IInv, TypeOK, PrevAsTold
      <3>3. CASE t = s
        BY <1>0, <3>3 DEF IInv, NotYetBound
      <3> QED BY <3>2, <3>3
    <2>5. NotYetBound'
      BY <1>0, <2>1 DEF IInv, TypeOK, NotYetBound
    <2>6. BoundAsTold'
      BY <1>0, <2>1 DEF IInv, TypeOK, BoundAsTold, NotYetBound
    <2> QED BY <2>2, <2>3, <2>4, <2>5, <2>6 DEF IInv
  <1> QED BY <1>1, <1>2

(* The one step by which a session gets its generation. *)
LEMMA BindKeeps == ASSUME IInv, UNCHANGED races, NEW s \in Sessions, Bind(s) PROVE IInv'
  <1> USE NoneAssumption
  <1> DEFINE u == user[s]
             g == binding[u].generation + 1
  <1>1. /\ phase[s] = "found" /\ phase' = [phase EXCEPT ![s] = "bound"]
        /\ u \in Sessions
        /\ UNCHANGED <<user, fresh, prev, users, timers, seated, connVars, deciding>>
    BY DEF Bind, IInv, HasUser
  <1>2. /\ binding' = [binding EXCEPT ![u] = [session |-> s, generation |-> g]]
        /\ bound' = [bound EXCEPT ![s] = g]
        /\ mark' = [mark EXCEPT ![u] = None]
    BY <1>1 DEF Bind, SetSession, IInv, TypeOK
  <1>3. g \in Nat
    BY <1>1 DEF IInv, TypeOK, Bindings
  <1>4. TypeOK'
    BY <1>1, <1>2, <1>3 DEF IInv, TypeOK, Phases, Bindings, Maybe, connVars
  <1>5. HasUser'
    BY <1>1 DEF IInv, TypeOK, HasUser, connVars
  <1>6. PrevAsTold'
    BY <1>1, <1>2 DEF IInv, TypeOK, PrevAsTold, NotYetBound
  <1>7. NotYetBound'
    BY <1>1, <1>2 DEF IInv, TypeOK, NotYetBound
  <1>8. BoundAsTold'
    BY <1>1, <1>2 DEF IInv, TypeOK, BoundAsTold, NotYetBound
  <1> QED BY <1>4, <1>5, <1>6, <1>7, <1>8 DEF IInv

(* Steps of an authentication that leave the bindings alone. *)
LEMMA AdvanceKeeps ==
  ASSUME IInv, UNCHANGED races, NEW s \in Sessions,
         Flush(s) \/ Activate(s) \/ Undo(s) \/ CloseFailed(s) \/ CutOff(s)
  PROVE  IInv'
  <1> USE NoneAssumption
  <1>1. /\ UNCHANGED <<user, fresh, bound, binding, mark, timers, seated, awaited,
                       sessions, kicked, deciding>>
        /\ phase[s] \in {"bound", "flushed", "undoing", "closing"}
        /\ users' \in Maybe /\ lost' \subseteq Sessions /\ open' \in [Sessions -> BOOLEAN]
        /\ prev' = prev \/ prev' = [prev EXCEPT ![s] = Unbound]
    <2>1. CASE Flush(s)
      BY <2>1 DEF Flush, userVars, connVars, IInv, TypeOK
    <2>2. CASE Activate(s)
      <3>1. prev[s].session \in Sessions \cup {None}
        BY DEF IInv, TypeOK, Bindings, Maybe
      <3> QED BY <2>2, <3>1 DEF Activate, userVars, IInv, TypeOK
    <2>3. CASE Undo(s)
      BY <2>3 DEF Undo, Unregister, connVars, IInv, TypeOK, Maybe
    <2>4. CASE CloseFailed(s) \/ CutOff(s)
      BY <2>4 DEF CloseFailed, CutOff, userVars, IInv, TypeOK
    <2> QED BY <2>1, <2>2, <2>3, <2>4
  <1>2. /\ phase' \in [Sessions -> Phases]
        /\ \A t \in Sessions : \/ phase'[t] = phase[t]
                               \/ phase'[t] = "failed" /\ phase[t] \notin {"idle", "found"}
                               \/ t = s /\ phase'[t] \in {"flushed", "active", "closing"}
                               \/ phase'[t] = "failed" /\ phase[t] = "found"
    BY DEF Flush, Activate, Undo, CloseFailed, CutOff, Authenticating, IInv, TypeOK, Phases
  <1>3. TypeOK'
    BY <1>1, <1>2 DEF IInv, TypeOK, Unbound, Bindings, Maybe
  <1>4. HasUser'
    BY <1>1, <1>2 DEF IInv, TypeOK, HasUser
  <1>5. PrevAsTold' /\ NotYetBound' /\ BoundAsTold'
    <2>1. \A t \in Sessions : prev'[t] = prev[t] \/ prev'[t] = Unbound
      BY <1>1 DEF IInv, TypeOK
    <2>2. \A t \in Sessions : /\ phase'[t] = "idle" => phase[t] = "idle"
                              /\ phase'[t] = "found" => phase[t] = "found"
      BY <1>2
    <2> QED BY <1>1, <2>1, <2>2, CutKeeps
  <1> QED BY <1>3, <1>4, <1>5 DEF IInv

(* A roll-back gives the User object back to the session it was taken from,
   under the generation that one was told. *)
LEMMA FailKeeps == ASSUME IInv, UNCHANGED races, NEW s \in Sessions, Fail(s) PROVE IInv'
  <1> USE NoneAssumption
  <1> DEFINE u == user[s]
             new == IF fresh[s] THEN "undoing" ELSE "closing"
  <1>1. /\ phase[s] \in {"found", "bound", "flushed"}
        /\ phase' = [phase EXCEPT ![s] = new]
        /\ UNCHANGED <<user, fresh, prev, bound, users, timers, seated, connVars, deciding>>
        /\ u \in Sessions
    BY DEF Fail, IInv, HasUser
  <1>2. /\ binding' \in [Sessions -> Bindings] /\ mark' \in [Sessions -> Maybe]
        /\ \A t \in Sessions : \/ binding'[t] = binding[t] \/ binding'[t].session = None
                               \/ t = u /\ prev[s].session # None /\ binding'[t] = prev[s]
    <2>1. CASE UNCHANGED <<binding, mark>>
      BY <2>1 DEF IInv, TypeOK
    <2>2. CASE prev[s].session # None /\ ReplaceIfMatches(u, s, prev[s])
      BY <1>1, <2>2 DEF ReplaceIfMatches, IInv, TypeOK, Maybe
    <2>3. CASE ClearIfMatches(u, s)
      BY <1>1, <2>3, CutIfMatches
    <2> QED BY <2>1, <2>2, <2>3 DEF Fail
  <1>3. TypeOK'
    BY <1>1, <1>2 DEF IInv, TypeOK, Phases, connVars
  <1>4. HasUser'
    BY <1>1 DEF IInv, TypeOK, HasUser, connVars
  <1>5. PrevAsTold'
    BY <1>1 DEF IInv, PrevAsTold
  <1>6. NotYetBound'
    BY <1>1, <1>2 DEF IInv, TypeOK, NotYetBound
  <1>7. BoundAsTold'
    BY <1>1, <1>2 DEF IInv, BoundAsTold, PrevAsTold
  <1> QED BY <1>3, <1>4, <1>5, <1>6, <1>7 DEF IInv

(* The accept task, the session in service, the workers and the kick: a binding
   is kept or cut. *)
LEMMA OthersKeep ==
  ASSUME IInv, UNCHANGED races,
         \/ \E s \in Sessions : Accept(s) \/ Serve(s) \/ CloseKicked(s)
         \/ Worker \/ (\E t \in timers : GraceOver(t)) \/ Kick
  PROVE  IInv'
  <1> USE NoneAssumption
  <1> DEFINE Kept == \A t \in Sessions : binding'[t] = binding[t] \/ binding'[t].session = None
             Goal == /\ UNCHANGED authVars /\ TypeOK' /\ HasUser' /\ Kept
  <1>1. ASSUME NEW s \in Sessions, Publish(s) PROVE Goal
    BY <1>1 DEF Publish, userVars, authVars, IInv, TypeOK, HasUser
  <1>2. ASSUME NEW s \in Sessions, GiveUp(s) PROVE Goal
    <2>1. user[s] \in Sessions
      BY <1>2 DEF GiveUp, IInv, HasUser
    <2>2. binding' \in [Sessions -> Bindings] /\ mark' \in [Sessions -> Maybe] /\ Kept
      BY <1>2, <2>1, CutIfMatches DEF GiveUp
    <2> QED BY <1>2, <2>2 DEF GiveUp, authVars, IInv, TypeOK, HasUser
  <1>3. ASSUME NEW s \in Sessions, Serve(s) PROVE Goal
    <2>1. CASE Enter(s)
      BY <2>1 DEF Enter, InService, authVars, connVars, IInv, TypeOK, HasUser
    <2>2. CASE PeerGone(s) \/ Drop(s) \/ Heartbeat(s)
      BY <2>2 DEF PeerGone, Drop, Heartbeat, authVars, userVars, IInv, TypeOK, HasUser
    <2> QED BY <1>3, <2>1, <2>2 DEF Serve
  <1>4. ASSUME NEW s \in Sessions, CloseKicked(s) PROVE Goal
    BY <1>4 DEF CloseKicked, authVars, userVars, IInv, TypeOK, HasUser
  <1>5. ASSUME NEW s \in Sessions, TakeNotice(s) PROVE Goal
    <2>1. /\ UNCHANGED <<authVars, userVars, awaited, kicked>>
          /\ sessions' = sessions \ {s} /\ lost' = lost \ {s}
          /\ open' = open \/ open' = [open EXCEPT ![s] = FALSE]
          /\ \/ deciding' = Idle
             \/ s \in sessions /\ deciding' = [who |-> s, at |-> "waiting"]
      <3>1. CASE s \in sessions
        BY <1>5, <3>1 DEF TakeNotice
      <3>2. CASE s \notin sessions
        BY <1>5, <3>2 DEF TakeNotice
      <3> QED BY <3>1, <3>2
    <2>2. TypeOK'
      <3>1. deciding' = Idle \/ deciding' \in [who : Sessions, at : {"waiting", "marking"}]
        BY <2>1
      <3>2. open' \in [Sessions -> BOOLEAN] /\ sessions' \subseteq Sessions /\ lost' \subseteq Sessions
        BY <2>1 DEF IInv, TypeOK
      <3> QED BY <2>1, <3>1, <3>2 DEF authVars, userVars, IInv, TypeOK
    <2>3. HasUser'
      BY <2>1 DEF authVars, IInv, TypeOK, HasUser, Idle
    <2> QED BY <2>1, <2>2, <2>3 DEF authVars, userVars, IInv
  <1>6. ASSUME Dangle PROVE Goal
    <2>0. deciding.at # "idle" => deciding.who \in Sessions /\ user[deciding.who] \in Sessions
      BY DEF IInv, TypeOK, HasUser, Idle
    <2>1. CASE DangleBegin
      BY <2>0, <2>1 DEF DangleBegin, authVars, userVars, connVars, IInv, TypeOK, HasUser, Idle
    <2>2. CASE DangleMark
      BY <2>0, <2>2 DEF DangleMark, Timer, authVars, connVars, IInv, TypeOK, HasUser, Idle, Maybe
    <2>3. CASE DangleRemove
      BY <2>0, <2>3 DEF DangleRemove, Unregister, authVars, connVars, IInv, TypeOK, HasUser, Idle, Maybe
    <2> QED BY <1>6, <2>1, <2>2, <2>3 DEF Dangle
  <1>7. ASSUME NEW t \in timers, GraceOver(t) PROVE Goal
    BY <1>7 DEF GraceOver, Expired, Unregister, authVars, connVars, IInv, TypeOK, HasUser, Maybe
  <1>8. ASSUME Kick PROVE Goal
    <2>1. users \in Sessions
      BY <1>8 DEF Kick, IInv, TypeOK, Maybe
    <2>2. binding' \in [Sessions -> Bindings] /\ mark' \in [Sessions -> Maybe] /\ Kept
      BY <1>8, <2>1, CutBinding DEF Kick
    <2>3. sessions' \subseteq sessions /\ kicked' \subseteq Sessions
      BY <1>8 DEF Kick, IInv, TypeOK
    <2> QED BY <1>8, <2>2, <2>3 DEF Kick, authVars, IInv, TypeOK, HasUser, Maybe
  <1>9. Goal
    BY <1>1, <1>2, <1>3, <1>4, <1>5, <1>6, <1>7, <1>8 DEF Accept, Worker
  <1>10. PrevAsTold' /\ NotYetBound' /\ BoundAsTold'
    BY <1>9, CutKeeps DEF authVars
  <1> QED BY <1>9, <1>10 DEF IInv

(* Every step keeps the invariant. *)
LEMMA NextInv == IInv /\ [Next]_vars => IInv'
  <1> SUFFICES ASSUME IInv, [Next]_vars PROVE IInv' OBVIOUS
  <1>1. CASE UNCHANGED vars
    BY <1>1 DEF vars, authVars, userVars, connVars, IInv, TypeOK, HasUser, PrevAsTold,
                NotYetBound, BoundAsTold
  <1>2. ASSUME NEW s \in Sessions, Authenticate(s), UNCHANGED races PROVE IInv'
    BY <1>2, RefuseKeeps, LookUpKeeps, BindKeeps, FailKeeps, AdvanceKeeps DEF Authenticate
  <1> QED BY <1>1, <1>2, OthersKeep DEF Next, Step

(* The types, and what the generations mean, hold in every reachable state,
   whatever overlaps. *)
THEOREM InvariantHolds == Spec => []IInv
  BY InitInv, NextInv, PTL DEF Spec

(* Whatever overlaps, a bound session is bound under the generation it was
   told, so a session that a roll-back restores has its commands taken again. *)
THEOREM BoundAsToldHolds == Spec => []BoundAsTold
  <1>1. IInv => BoundAsTold
    BY DEF IInv
  <1> QED BY InvariantHolds, <1>1, PTL

-----------------------------------------------------------------------------
(* Where nothing overlaps an authentication *)

(* The environments in which the steps that the gate keeps apart do not    *)
(* fall between the lookup and the end of an authentication; its handler   *)
(* may be cut off.                                                         *)
Calm == Environments \subseteq {{}, {"slow"}}

OneByOne ==
    /\ races \subseteq {"slow"}
    /\ \A s, t \in awaited : s = t
    /\ \A s \in Sessions : Authenticating(s) => s \in awaited

(* A User object is named by a session that has begun. *)
Begun ==
    /\ \A s \in Sessions : user[s] # None => phase[user[s]] # "idle"
    /\ users # None => phase[users] # "idle"
    /\ \A s \in Sessions : phase[s] = "idle" => ~fresh[s]
    /\ \A s \in Sessions : phase[s] = "undoing" => fresh[s]
    /\ \A s \in awaited : phase[s] # "idle"
    /\ \A s \in sessions \cup kicked : phase[s] = "active"
    /\ seated \subseteq Sessions

(* Whoever authenticates does so for the registered user, holds its        *)
(* binding once he has it, and knows the session he takes it from; a user  *)
(* he has registered himself is nobody else's.                             *)
UnderWayOf(s) ==
    /\ phase[s] \in {"found", "bound", "flushed"} => users = user[s] /\ open[s]
    /\ phase[s] \in {"bound", "flushed"} => Bound(user[s], s, bound[s])
    /\ phase[s] = "found" =>
           \/ prev[s] = binding[user[s]]
           \/ /\ prev[s].session = None
              /\ binding[user[s]].session # None => ~open[binding[user[s]].session]
    /\ fresh[s] /\ Authenticating(s) =>
           /\ user[s] = s /\ s \notin seated
           /\ \A t \in Sessions \ {s} : user[t] # s

UnderWay == \A s \in Sessions : UnderWayOf(s)

(* A mark is that of the session which is bound and closed, and so is the  *)
(* session the worker decides about.                                       *)
Away ==
    /\ \A u \in Sessions : mark[u] # None =>
           /\ binding[u].session = mark[u]
           /\ ~open[mark[u]] /\ phase[mark[u]] # "idle"
    /\ deciding # Idle => ~open[deciding.who] /\ phase[deciding.who] # "idle"
    /\ deciding.at = "marking" =>
           awaited = {} /\ binding[user[deciding.who]].session = deciding.who

CalmInv == OneByOne /\ Begun /\ UnderWay /\ Away /\ PresenceAgrees

LEMMA CalmInit == ASSUME Calm PROVE Init => CalmInv
  <1> SUFFICES ASSUME Init PROVE CalmInv OBVIOUS
  <1>1. OneByOne /\ Begun /\ UnderWay
    BY NoneAssumption DEF Calm, Init, OneByOne, Begun, UnderWay, UnderWayOf, Authenticating
  <1>2. Away /\ PresenceAgrees
    BY DEF Init, Away, Idle, PresenceAgrees, InService
  <1> QED BY <1>1, <1>2 DEF CalmInv

(* Whoever authenticates is alone, and the worker does not decide. *)
LEMMA Alone ==
  ASSUME IInv, CalmInv, NEW s \in Sessions, Authenticating(s)
  PROVE  /\ \A t \in Sessions : Authenticating(t) => t = s
         /\ awaited = {s} /\ deciding.at # "marking" /\ user[s] \in Sessions
  BY DEF CalmInv, OneByOne, Away, IInv, HasUser, Authenticating

LEMMA QuietMeansNobody ==
  ASSUME IInv, CalmInv, NEW r, r # "slow", Quiet(r)
  PROVE  awaited = {} /\ \A t \in Sessions : ~Authenticating(t)
  BY DEF CalmInv, OneByOne, Quiet, HandshakeOf, IInv, TypeOK

(* A step at which nobody authenticates, or only s does in the phases the  *)
(* invariant says nothing special about.                                   *)
LEMMA CalmRefuse ==
  ASSUME IInv, CalmInv, UNCHANGED races, NEW s \in Sessions, Refuse(s) PROVE CalmInv'
  <1> USE NoneAssumption DEF CalmInv
  <1>1. OneByOne' /\ Begun'
    BY DEF Refuse, OneByOne, Begun, Authenticating, userVars, connVars, IInv, TypeOK
  <1>2. UnderWay'
    BY DEF Refuse, UnderWay, UnderWayOf, Authenticating, Bound, userVars, connVars, IInv, TypeOK
  <1>3. Away' /\ PresenceAgrees'
    BY DEF Refuse, Away, PresenceAgrees, InService, Bound, userVars, connVars, IInv, TypeOK
  <1> QED BY <1>1, <1>2, <1>3

(* The lookup finds or registers the user, when nobody else authenticates. *)
LEMMA CalmLookUp ==
  ASSUME IInv, CalmInv, UNCHANGED races, NEW s \in Sessions, LookUp(s) PROVE CalmInv'
  <1> USE NoneAssumption DEF CalmInv
  <1>1. /\ phase[s] = "idle" /\ deciding.at # "marking"
        /\ awaited = {} /\ \A t \in Sessions : ~Authenticating(t)
        /\ phase' = [phase EXCEPT ![s] = "found"]
        /\ UNCHANGED <<bound, binding, mark, timers, seated, sessions, lost, kicked, deciding>>
        /\ open' = [open EXCEPT ![s] = TRUE] /\ awaited' = {s}
    BY QuietMeansNobody DEF LookUp, GateFree
  <1>2. \A t \in Sessions \ {s} : user'[t] = user[t] /\ prev'[t] = prev[t] /\ fresh'[t] = fresh[t]
    BY DEF LookUp, IInv, TypeOK
  <1>3. users' = user'[s] /\ users' \in Sessions
    BY DEF LookUp, IInv, TypeOK, Maybe
  <1>4. \/ users = None /\ users' = s /\ prev'[s].session = None
        \/ users # None /\ users' = users /\ ~fresh'[s]
    BY <1>1 DEF LookUp, Begun, IInv, TypeOK, NotYetBound
  <1>5. OneByOne'
    BY <1>1 DEF OneByOne, Authenticating, IInv, TypeOK
  <1>6. Begun'
    BY <1>1, <1>2, <1>3, <1>4 DEF Begun, IInv, TypeOK
  <1>7. UnderWay'
    <2>1. ASSUME NEW t \in Sessions, t # s PROVE UnderWayOf(t)'
      BY <1>1, <1>2, <2>1 DEF UnderWayOf, Authenticating, IInv, TypeOK
    <2>2. users = None => binding[s].session = None
      BY <1>1 DEF IInv, BoundAsTold, TypeOK, Begun, Bindings, Maybe
    <2>3. users # None => \/ prev'[s] = binding[users]
                          \/ /\ prev'[s].session = None
                             /\ binding[users].session # None => ~open[binding[users].session]
      BY DEF LookUp, Alive, Unbound, IInv, TypeOK, NotYetBound, Bindings, Maybe
    <2>4. phase'[s] = "found" /\ open'[s]
      BY <1>1 DEF IInv, TypeOK
    <2>5. \/ prev'[s] = binding'[user'[s]]
          \/ /\ prev'[s].session = None
             /\ binding'[user'[s]].session # None => ~open'[binding'[user'[s]].session]
      <3>1. CASE users = None
        BY <1>1, <1>3, <1>4, <2>2, <3>1
      <3>2. CASE users # None
        <4>1. binding[users].session # s
          BY <1>1, <1>3, <1>4, <3>2 DEF IInv, NotYetBound
        <4> QED BY <1>1, <1>3, <1>4, <2>3, <3>2, <4>1 DEF IInv, TypeOK
      <3> QED BY <3>1, <3>2
    <2>6. fresh'[s] => /\ user'[s] = s /\ s \notin seated'
                       /\ \A t \in Sessions \ {s} : user'[t] # s
      <3> SUFFICES ASSUME fresh'[s] PROVE user'[s] = s /\ s \notin seated
                                          /\ \A t \in Sessions \ {s} : user[t] # s
        BY <1>1, <1>2
      <3>1. users = None /\ user'[s] = s
        BY <1>3, <1>4
      <3> QED BY <1>1, <3>1 DEF PresenceAgrees, Begun
    <2>7. UnderWayOf(s)'
      BY <1>3, <2>4, <2>5, <2>6 DEF UnderWayOf
    <2> QED BY <2>1, <2>7 DEF UnderWay
  <1>8. Away'
    BY <1>1, <1>2 DEF Away, IInv, TypeOK, Maybe
  <1>9. PresenceAgrees'
    BY <1>1, <1>2, <1>4 DEF PresenceAgrees, InService, Bound, Begun, IInv, TypeOK, HasUser
  <1> QED BY <1>5, <1>6, <1>7, <1>8, <1>9

(* The binding moves to the session that authenticates. *)
LEMMA CalmBind ==
  ASSUME IInv, CalmInv, UNCHANGED races, NEW s \in Sessions, Bind(s) PROVE CalmInv'
  <1> USE NoneAssumption DEF CalmInv
  <1>1. /\ \A t \in Sessions : Authenticating(t) => t = s
        /\ deciding.at # "marking" /\ user[s] \in Sessions /\ users = user[s] /\ open[s]
    BY Alone DEF Bind, Authenticating, UnderWay, UnderWayOf
  <1>2. /\ phase[s] = "found" /\ phase' = [phase EXCEPT ![s] = "bound"]
        /\ UNCHANGED <<user, fresh, prev, users, timers, seated, open, awaited, sessions, kicked, deciding>>
        /\ mark'[user[s]] = None
        /\ binding'[user[s]] = [session |-> s, generation |-> bound'[s]]
        /\ \A t \in Sessions \ {s} : bound'[t] = bound[t]
        /\ \A u \in Sessions \ {user[s]} : binding'[u] = binding[u] /\ mark'[u] = mark[u]
    BY <1>1 DEF Bind, SetSession, connVars, IInv, TypeOK
  <1>3. OneByOne' /\ Begun'
    BY <1>2 DEF OneByOne, Begun, Authenticating, IInv, TypeOK
  <1>4. UnderWay'
    <2>1. UnderWayOf(s)'
      <3>1. phase'[s] = "bound" /\ user'[s] = user[s] /\ users' = user[s] /\ open'[s]
        BY <1>1, <1>2 DEF IInv, TypeOK
      <3>2. Bound(user[s], s, bound[s])'
        BY <1>2 DEF Bound
      <3>3. fresh[s] => user[s] = s /\ s \notin seated /\ \A t \in Sessions \ {s} : user[t] # s
        BY <1>2 DEF UnderWay, UnderWayOf, Authenticating
      <3> QED BY <1>2, <3>1, <3>2, <3>3 DEF UnderWayOf
    <2>2. ASSUME NEW t \in Sessions, t # s PROVE UnderWayOf(t)'
      BY <1>1, <1>2, <2>2 DEF UnderWay, UnderWayOf, Authenticating, IInv, TypeOK
    <2> QED BY <2>1, <2>2 DEF UnderWay
  <1>5. Away'
    BY <1>1, <1>2 DEF Away, IInv, TypeOK, Maybe
  <1>6. PresenceAgrees'
    <2>1. ASSUME NEW t \in Sessions, InService(t)' PROVE users = user[t]
      BY <1>1, <1>2, <2>1 DEF InService, Bound, PresenceAgrees, IInv, TypeOK, HasUser
    <2> QED BY <1>2, <2>1 DEF PresenceAgrees
  <1> QED BY <1>3, <1>4, <1>5, <1>6

(* An authentication goes on without touching bindings. *)
LEMMA CalmFlush ==
  ASSUME IInv, CalmInv, UNCHANGED races, NEW s \in Sessions, Flush(s) PROVE CalmInv'
  <1> USE NoneAssumption DEF CalmInv
  <1>1. /\ phase[s] = "bound" /\ phase' = [phase EXCEPT ![s] = "flushed"]
        /\ UNCHANGED <<user, fresh, prev, bound, users, binding, mark, timers, seated, open,
                       awaited, sessions, kicked, deciding>>
    BY DEF Flush, userVars, connVars
  <1>2. OneByOne' /\ Begun'
    BY <1>1 DEF OneByOne, Begun, Authenticating, IInv, TypeOK
  <1>3. UnderWay'
    BY <1>1 DEF UnderWay, UnderWayOf, Authenticating, Bound, IInv, TypeOK
  <1>4. Away' /\ PresenceAgrees'
    BY <1>1 DEF Away, PresenceAgrees, InService, Bound, IInv, TypeOK
  <1> QED BY <1>2, <1>3, <1>4

LEMMA CalmActivate ==
  ASSUME IInv, CalmInv, UNCHANGED races, NEW s \in Sessions, Activate(s) PROVE CalmInv'
  <1> USE NoneAssumption DEF CalmInv
  <1>1. /\ \A t \in Sessions : Authenticating(t) => t = s
        /\ awaited = {s} /\ user[s] \in Sessions /\ users = user[s] /\ Bound(user[s], s, bound[s])
    BY Alone DEF Activate, Authenticating, UnderWay, UnderWayOf
  <1>2. /\ phase[s] = "flushed" /\ phase' = [phase EXCEPT ![s] = "active"]
        /\ UNCHANGED <<user, fresh, bound, users, binding, mark, timers, seated, awaited, sessions, kicked, deciding>>
        /\ \A t \in Sessions \ {s} : prev'[t] = prev[t]
        /\ \A t \in Sessions : open'[t] => open[t]
    <2>1. phase' = [phase EXCEPT ![s] = "active"]
      BY <1>1 DEF Activate, IInv, TypeOK
    <2>2. \A t \in Sessions : open'[t] => open[t]
      BY DEF Activate, IInv, TypeOK
    <2> QED BY <2>1, <2>2 DEF Activate, userVars, IInv, TypeOK
  <1>3. OneByOne' /\ Begun'
    BY <1>2 DEF OneByOne, Begun, Authenticating, IInv, TypeOK
  <1>4. UnderWay'
    BY <1>1, <1>2 DEF UnderWay, UnderWayOf, Authenticating, Bound, IInv, TypeOK
  <1>5. Away'
    BY <1>1, <1>2 DEF Away, IInv, TypeOK, Maybe
  <1>6. PresenceAgrees'
    BY <1>1, <1>2 DEF PresenceAgrees, InService, Bound, IInv, TypeOK
  <1> QED BY <1>3, <1>4, <1>5, <1>6

(* A roll-back restores a binding or clears it. *)
LEMMA CalmFail ==
  ASSUME IInv, CalmInv, UNCHANGED races, NEW s \in Sessions, Fail(s) PROVE CalmInv'
  <1> USE NoneAssumption DEF CalmInv
  <1>1. /\ \A t \in Sessions : Authenticating(t) => t = s
        /\ awaited = {s} /\ deciding.at # "marking"
        /\ user[s] \in Sessions /\ users = user[s] /\ open[s]
    BY Alone DEF Fail, Authenticating, UnderWay, UnderWayOf
  <1>2. /\ phase[s] \in {"found", "bound", "flushed"}
        /\ phase' = [phase EXCEPT ![s] = IF fresh[s] THEN "undoing" ELSE "closing"]
        /\ UNCHANGED <<user, fresh, prev, bound, users, timers, seated, open, awaited, sessions, kicked, deciding>>
    BY DEF Fail, connVars
  <1>3. /\ \A u \in Sessions \ {user[s]} : binding'[u] = binding[u] /\ mark'[u] = mark[u]
        /\ \/ UNCHANGED <<binding, mark>>
           \/ mark'[user[s]] = None
    BY <1>1 DEF Fail, ReplaceIfMatches, ClearIfMatches, ClearSession, IInv, TypeOK
  <1>4. OneByOne' /\ Begun'
    BY <1>2 DEF OneByOne, Begun, Authenticating, IInv, TypeOK
  <1>5. UnderWay'
    BY <1>1, <1>2 DEF UnderWay, UnderWayOf, Authenticating, IInv, TypeOK
  <1>6. Away'
    BY <1>1, <1>2, <1>3 DEF Away, IInv, TypeOK, Maybe
  <1>7. PresenceAgrees'
    BY <1>1, <1>2, <1>3 DEF PresenceAgrees, InService, Bound, IInv, TypeOK, HasUser
  <1> QED BY <1>4, <1>5, <1>6, <1>7

(* A user that an authentication has registered itself goes with it. *)
LEMMA CalmUndo ==
  ASSUME IInv, CalmInv, UNCHANGED races, NEW s \in Sessions, Undo(s) PROVE CalmInv'
  <1> USE NoneAssumption DEF CalmInv
  <1>0. /\ \A t \in Sessions : Authenticating(t) => t = s
        /\ awaited = {s} /\ deciding.at # "marking" /\ user[s] \in Sessions
    BY Alone DEF Undo, Authenticating
  <1>1. /\ phase[s] = "undoing" /\ phase' = [phase EXCEPT ![s] = "closing"]
        /\ UNCHANGED <<user, fresh, prev, bound, binding, mark, timers, seated, open, awaited,
                       sessions, kicked, deciding>>
    BY DEF Undo, connVars
  <1>2. \/ users' = users
        \/ /\ users' = None /\ users = user[s]
           /\ LET now == binding[user[s]].session IN now \in {None, s} \/ ~Alive(now)
    BY DEF Undo, Unregister
  <1>3. OneByOne' /\ Begun'
    BY <1>1, <1>2 DEF OneByOne, Begun, Authenticating, IInv, TypeOK
  <1>4. UnderWay'
    BY <1>0, <1>1 DEF UnderWay, UnderWayOf, Authenticating, IInv, TypeOK
  <1>5. Away'
    BY <1>1 DEF Away, IInv, TypeOK
  <1>6. PresenceAgrees'
    <2>1. CASE users' = users
      BY <1>1, <2>1 DEF PresenceAgrees, InService, Bound, IInv, TypeOK
    <2>2. CASE users' # users
      <3>1. seated = {}
        BY <1>1, <1>2, <2>2 DEF PresenceAgrees, UnderWay, UnderWayOf, Authenticating, Begun, IInv
      <3>2. ASSUME NEW t \in Sessions, InService(t) PROVE FALSE
        <4>1. binding[user[s]].session = t /\ Alive(t)
          BY <1>2, <2>2, <3>2 DEF PresenceAgrees, InService, Bound, Alive
        <4> QED BY <1>1, <1>2, <2>2, <3>2, <4>1 DEF InService
      <3> QED BY <1>1, <3>1, <3>2 DEF PresenceAgrees, InService, Bound, IInv, TypeOK
    <2> QED BY <2>1, <2>2
  <1> QED BY <1>3, <1>4, <1>5, <1>6

LEMMA CalmEnd ==
  ASSUME IInv, CalmInv, UNCHANGED races, NEW s \in Sessions, CloseFailed(s) \/ CutOff(s)
  PROVE  CalmInv'
  <1> USE NoneAssumption DEF CalmInv
  <1>1. /\ phase[s] \in {"closing", "bound", "flushed"} /\ phase' = [phase EXCEPT ![s] = "failed"]
        /\ UNCHANGED <<user, fresh, bound, users, binding, mark, timers, seated, awaited, sessions, kicked, deciding>>
        /\ prev' = [prev EXCEPT ![s] = Unbound] /\ open' = [open EXCEPT ![s] = FALSE]
    BY DEF CloseFailed, CutOff, userVars
  <1>2. OneByOne' /\ Begun'
    BY <1>1 DEF OneByOne, Begun, Authenticating, IInv, TypeOK
  <1>3. UnderWay'
    BY <1>1 DEF UnderWay, UnderWayOf, Authenticating, Bound, IInv, TypeOK
  <1>4. Away' /\ PresenceAgrees'
    BY <1>1 DEF Away, PresenceAgrees, InService, Bound, IInv, TypeOK, Maybe
  <1> QED BY <1>2, <1>3, <1>4

(* Steps at which nobody begins or ends, and no binding is gained: the     *)
(* accept task, the session in service, the workers and the kick.          *)
Aside ==
    /\ UNCHANGED <<authVars, races>>
    /\ awaited' \subseteq awaited
    /\ \A s \in awaited \ awaited' : ~Authenticating(s)

LEMMA AsideKeeps ==
  ASSUME IInv, CalmInv, Aside,
         \A s \in sessions' \cup kicked' : phase[s] = "active",
         users' = users \/ users' = None, seated' \subseteq Sessions
  PROVE  OneByOne' /\ Begun'
  BY DEF Aside, CalmInv, OneByOne, Begun, Authenticating, authVars

LEMMA CalmPublish ==
  ASSUME IInv, CalmInv, UNCHANGED races, NEW s \in Sessions, Publish(s) PROVE CalmInv'
  <1> USE NoneAssumption DEF CalmInv
  <1>1. /\ UNCHANGED <<authVars, userVars, open, kicked, deciding>> /\ phase[s] = "active"
        /\ awaited' = awaited \ {s} /\ sessions' = sessions \cup {s}
    BY DEF Publish
  <1>2. OneByOne' /\ Begun'
    BY <1>1, AsideKeeps DEF Aside, Authenticating, userVars, Begun
  <1>3. UnderWay' /\ Away' /\ PresenceAgrees'
    BY <1>1 DEF UnderWay, UnderWayOf, Authenticating, Bound, authVars, userVars,
                Away, PresenceAgrees, InService
  <1> QED BY <1>2, <1>3

(* The accept task cuts the binding of a session that has failed.          *)
LEMMA CalmGiveUp ==
  ASSUME IInv, CalmInv, UNCHANGED races, NEW s \in Sessions, GiveUp(s) PROVE CalmInv'
  <1> USE NoneAssumption DEF CalmInv
  <1>1. /\ UNCHANGED <<authVars, users, timers, seated, sessions, kicked, deciding>>
        /\ s \in awaited /\ phase[s] = "failed" /\ awaited' = {}
        /\ open' = [open EXCEPT ![s] = FALSE] /\ user[s] \in Sessions
    BY DEF GiveUp, OneByOne, IInv, HasUser
  <1>2. /\ \A u \in Sessions \ {user[s]} : binding'[u] = binding[u] /\ mark'[u] = mark[u]
        /\ \/ binding'[user[s]] = binding[user[s]] /\ mark'[user[s]] = mark[user[s]]
           \/ binding'[user[s]].session = None /\ mark'[user[s]] = None
    BY <1>1 DEF GiveUp, ClearIfMatches, ClearSession, IInv, TypeOK
  <1>3. \A t \in Sessions : ~Authenticating(t)
    BY <1>1 DEF OneByOne, Authenticating
  <1>4. OneByOne' /\ Begun'
    <2>1. Aside /\ \A t \in sessions' \cup kicked' : phase[t] = "active"
      BY <1>1, <1>3 DEF Aside, OneByOne, Begun, IInv, TypeOK
    <2> QED BY <1>1, <2>1, AsideKeeps DEF Begun
  <1>5. UnderWay'
    BY <1>1, <1>3 DEF UnderWay, UnderWayOf, Authenticating, authVars
  <1>6. Away'
    BY <1>1, <1>2 DEF Away, authVars, IInv, TypeOK, Maybe, HasUser, Idle
  <1>7. PresenceAgrees'
    <2>1. ASSUME NEW t \in Sessions, InService(t)' PROVE users = user[t]
      BY <1>1, <1>2, <2>1 DEF InService, Bound, PresenceAgrees, authVars, IInv, TypeOK, HasUser
    <2> QED BY <1>1, <2>1 DEF PresenceAgrees, authVars
  <1> QED BY <1>4, <1>5, <1>6, <1>7

(* Whoever enters a room is the registered user, and nobody registers      *)
(* him anew: the bound session is not the one that authenticates.          *)
LEMMA CalmEnter ==
  ASSUME IInv, CalmInv, UNCHANGED races, NEW s \in Sessions, Enter(s) PROVE CalmInv'
  <1> USE NoneAssumption DEF CalmInv
  <1>1. /\ UNCHANGED <<authVars, users, binding, mark, timers, connVars, deciding>>
        /\ seated' = seated \cup {user[s]} /\ phase[s] = "active" /\ users = user[s]
        /\ user[s] \in Sessions
    BY DEF Enter, InService, PresenceAgrees, IInv, HasUser
  <1>2. OneByOne' /\ Begun'
    BY <1>1, AsideKeeps DEF Aside, Begun, connVars
  <1>3. UnderWay'
    <2>1. ASSUME NEW t \in Sessions, fresh[t], Authenticating(t) PROVE user[s] # t
      BY <1>1, <2>1 DEF UnderWay, UnderWayOf, Authenticating
    <2> QED BY <1>1, <2>1 DEF UnderWay, UnderWayOf, Authenticating, Bound, authVars, connVars
  <1>4. Away' /\ PresenceAgrees'
    BY <1>1 DEF Away, PresenceAgrees, InService, Bound, authVars, connVars
  <1> QED BY <1>2, <1>3, <1>4

(* A stream is closed that nobody authenticates on.                        *)
LEMMA Closing ==
  ASSUME IInv, CalmInv, UNCHANGED <<authVars, userVars, awaited, races>>, sessions' \subseteq sessions, kicked' \subseteq kicked,
         \A t \in Sessions : open'[t] # open[t] => ~open'[t] /\ phase[t] = "active",
         deciding' = deciding \/ deciding' = Idle
             \/ /\ deciding'.at = "waiting" /\ ~open'[deciding'.who]
                /\ phase[deciding'.who] = "active"
  PROVE  CalmInv'
  <1> USE NoneAssumption DEF CalmInv
  <1>1. OneByOne' /\ Begun'
    BY AsideKeeps DEF Aside, Begun, userVars
  <1>2. UnderWay'
    <2> SUFFICES ASSUME NEW t \in Sessions PROVE UnderWayOf(t)'
      BY DEF UnderWay
    <2>1. \A u \in Sessions : ~open[u] => ~open'[u]
      OBVIOUS
    <2>2. phase[t] = "found" => user[t] \in Sessions
      BY DEF IInv, HasUser
    <2>3. phase[t] \in {"found", "bound", "flushed"} => open'[t] = open[t]
      OBVIOUS
    <2> QED BY <2>1, <2>2, <2>3
            DEF UnderWay, UnderWayOf, Authenticating, Bound, authVars, userVars, IInv, TypeOK, Bindings, Maybe
  <1>3. Away'
    <2>1. \A u \in Sessions : ~open[u] => ~open'[u]
      OBVIOUS
    <2>2. deciding = Idle \/ deciding.who \in Sessions
      BY DEF IInv, TypeOK
    <2> QED BY <2>1, <2>2 DEF Away, authVars, userVars, IInv, TypeOK, Maybe, Idle
  <1>4. PresenceAgrees'
    BY DEF PresenceAgrees, InService, Bound, authVars, userVars
  <1> QED BY <1>1, <1>2, <1>3, <1>4

LEMMA CalmClose ==
  ASSUME IInv, CalmInv, UNCHANGED races, NEW s \in Sessions,
         PeerGone(s) \/ Drop(s) \/ Heartbeat(s) \/ TakeNotice(s)
  PROVE  CalmInv'
  <1> USE NoneAssumption
  <1>1. UNCHANGED <<authVars, userVars, awaited, kicked>> /\ sessions' \subseteq sessions
    BY DEF PeerGone, Drop, Heartbeat, TakeNotice
  <1>2. \A t \in Sessions : open'[t] # open[t] => ~open'[t] /\ phase[t] = "active"
    BY DEF PeerGone, Drop, Heartbeat, TakeNotice, CalmInv, Begun, IInv, TypeOK
  <1>3. \/ deciding' = deciding \/ deciding' = Idle
        \/ /\ deciding'.at = "waiting" /\ ~open'[deciding'.who]
           /\ phase[deciding'.who] = "active"
    BY DEF PeerGone, Drop, Heartbeat, TakeNotice, CalmInv, Begun, IInv, TypeOK
  <1> QED BY <1>1, <1>2, <1>3, Closing

(* The worker takes the gate when nobody authenticates.                    *)
LEMMA CalmDangleBegin ==
  ASSUME IInv, CalmInv, UNCHANGED races, DangleBegin PROVE CalmInv'
  <1> USE NoneAssumption DEF CalmInv
  <1>1. /\ UNCHANGED <<authVars, userVars, connVars>> /\ awaited = {}
        /\ deciding \in [who : Sessions, at : {"waiting", "marking"}]
        /\ \/ deciding' = Idle
           \/ /\ deciding' = [who |-> deciding.who, at |-> "marking"]
              /\ binding[user[deciding.who]].session = deciding.who
    BY QuietMeansNobody DEF DangleBegin, IInv, TypeOK, Idle
  <1>2. OneByOne' /\ Begun'
    BY <1>1, AsideKeeps DEF Aside, Begun, userVars, connVars
  <1>3. UnderWay'
    BY <1>1 DEF UnderWay, UnderWayOf, Authenticating, Bound, authVars, userVars, connVars
  <1>4. Away' /\ PresenceAgrees'
    BY <1>1 DEF Away, PresenceAgrees, InService, Bound, authVars, userVars, connVars, Idle
  <1> QED BY <1>2, <1>3, <1>4

(* A mark is made, or the player removed, while the session decided about  *)
(* is still the bound one, and closed.                                     *)
LEMMA CalmDangleMark ==
  ASSUME IInv, CalmInv, UNCHANGED races, DangleMark PROVE CalmInv'
  <1> USE NoneAssumption DEF CalmInv
  <1> DEFINE s == deciding.who
  <1>1. /\ UNCHANGED <<authVars, users, binding, seated, connVars>> /\ deciding' = Idle
        /\ awaited = {} /\ s \in Sessions /\ user[s] \in Sessions
        /\ mark' = [mark EXCEPT ![user[s]] = s] /\ binding[user[s]].session = s
        /\ ~open[s] /\ phase[s] # "idle"
    BY DEF DangleMark, Away, IInv, TypeOK, HasUser, Idle
  <1>2. OneByOne' /\ Begun'
    BY <1>1, AsideKeeps DEF Aside, Begun, connVars
  <1>3. UnderWay'
    BY <1>1 DEF UnderWay, UnderWayOf, Authenticating, Bound, authVars, connVars
  <1>4. Away' /\ PresenceAgrees'
    BY <1>1 DEF Away, PresenceAgrees, InService, Bound, authVars, connVars, Idle, IInv, TypeOK
  <1> QED BY <1>2, <1>3, <1>4

(* Whose session is bound and closed serves no session at all.             *)
LEMMA Gone ==
  ASSUME IInv, NEW u \in Sessions,
         binding[u].session # None => ~open[binding[u].session]
  PROVE  \A t \in Sessions : InService(t) => user[t] # u
  BY NoneAssumption DEF InService, Bound

(* A player is removed when nobody authenticates and no session of his is  *)
(* in service.                                                             *)
LEMMA Removing ==
  ASSUME IInv, CalmInv, UNCHANGED <<authVars, binding, connVars, races>>, awaited = {},
         NEW u \in Sessions, \A t \in Sessions : InService(t) => user[t] # u,
         seated' = seated \ {u}, users' = IF users = u THEN None ELSE users,
         mark' = mark \/ mark' = [mark EXCEPT ![u] = None],
         deciding' = Idle \/ deciding' = deciding
  PROVE  CalmInv'
  <1> USE NoneAssumption DEF CalmInv
  <1>1. OneByOne' /\ Begun'
    BY AsideKeeps DEF Aside, Begun, connVars
  <1>2. UnderWay'
    BY DEF OneByOne, UnderWay, UnderWayOf, Authenticating, authVars, connVars
  <1>3. Away'
    BY DEF Away, authVars, connVars, Idle, IInv, TypeOK
  <1>4. PresenceAgrees'
    BY DEF PresenceAgrees, InService, Bound, authVars, connVars
  <1> QED BY <1>1, <1>2, <1>3, <1>4

LEMMA CalmRemove ==
  ASSUME IInv, CalmInv, UNCHANGED races, DangleRemove PROVE CalmInv'
  <1> DEFINE s == deciding.who
             u == user[s]
  <1>1. /\ awaited = {} /\ s \in Sessions /\ u \in Sessions
        /\ binding[u].session = s /\ ~open[s]
    BY DEF DangleRemove, CalmInv, Away, IInv, TypeOK, HasUser, Idle
  <1>2. \A t \in Sessions : InService(t) => user[t] # u
    BY <1>1, Gone
  <1> QED BY <1>1, <1>2, Removing DEF DangleRemove, Unregister, connVars

LEMMA CalmGraceOver ==
  ASSUME IInv, CalmInv, UNCHANGED races, NEW t \in timers, GraceOver(t) PROVE CalmInv'
  <1> USE NoneAssumption
  <1>1. t.user \in Sessions /\ t.mark \in Sessions
    BY DEF IInv, TypeOK
  <1>2. awaited = {} /\ UNCHANGED <<authVars, binding, connVars, deciding>>
    BY QuietMeansNobody DEF GraceOver
  <1>3. CASE Expired(t)
    <2>1. binding[t.user].session = t.mark /\ ~open[t.mark]
      BY <1>1, <1>3 DEF Expired, CalmInv, Away
    <2>2. \A s \in Sessions : InService(s) => user[s] # t.user
      BY <1>1, <2>1, Gone
    <2>3. /\ mark' = [mark EXCEPT ![t.user] = None] /\ seated' = seated \ {t.user}
          /\ users' = IF users = t.user THEN None ELSE users
      BY <1>3 DEF GraceOver, Unregister
    <2> QED BY <1>1, <1>2, <2>2, <2>3, Removing
  <1>4. CASE ~Expired(t)
    <2>1. UNCHANGED <<mark, seated, users>>
      BY <1>4 DEF GraceOver
    <2>2. OneByOne' /\ Begun'
      BY <1>2, <2>1, AsideKeeps DEF CalmInv, Aside, Begun, connVars
    <2>3. UnderWay' /\ Away' /\ PresenceAgrees'
      BY <1>2, <2>1 DEF CalmInv, UnderWay, UnderWayOf, Authenticating, Bound, Away, PresenceAgrees,
                        InService, authVars, connVars
    <2> QED BY <2>2, <2>3 DEF CalmInv
  <1> QED BY <1>3, <1>4

(* A kick removes the registered player, whose session is unbound with it. *)
LEMMA CalmKick ==
  ASSUME IInv, CalmInv, UNCHANGED races, Kick PROVE CalmInv'
  <1> USE NoneAssumption DEF CalmInv
  <1>1. /\ users \in Sessions /\ awaited = {} /\ deciding.at # "marking"
        /\ UNCHANGED <<authVars, timers, open, awaited, lost, deciding>>
        /\ seated' = seated \ {users} /\ users' = None /\ sessions' \cup kicked' = sessions \cup kicked
    BY QuietMeansNobody DEF Kick, GateFree, IInv, TypeOK, Maybe
  <1>2. /\ mark'[users] = None /\ binding'[users].session = None
        /\ \A u \in Sessions \ {users} : binding'[u] = binding[u] /\ mark'[u] = mark[u]
    BY <1>1 DEF Kick, ClearSession, IInv, TypeOK
  <1>3. OneByOne' /\ Begun'
    BY <1>1, AsideKeeps DEF Aside, Begun
  <1>4. UnderWay'
    BY <1>1 DEF OneByOne, UnderWay, UnderWayOf, Authenticating, authVars
  <1>5. Away'
    BY <1>1, <1>2 DEF Away, authVars, IInv, TypeOK, Maybe, Idle
  <1>6. PresenceAgrees'
    <2>1. ASSUME NEW t \in Sessions, InService(t)' PROVE FALSE
      <3>1. user[t] # users
        BY <1>1, <1>2, <2>1 DEF InService, Bound, authVars
      <3>2. user[t] \in Sessions
        BY <1>1, <2>1 DEF InService, authVars, IInv, HasUser
      <3>3. InService(t)
        BY <1>1, <1>2, <2>1, <3>1, <3>2 DEF InService, Bound, authVars
      <3> QED BY <3>1, <3>3 DEF PresenceAgrees
    <2> QED BY <1>1, <2>1 DEF PresenceAgrees
  <1> QED BY <1>3, <1>4, <1>5, <1>6

(* The player is told why he was kicked, and his session is closed: it is  *)
(* no session that authenticates.                                          *)
LEMMA CalmCloseKicked ==
  ASSUME IInv, CalmInv, UNCHANGED races, NEW s \in Sessions, CloseKicked(s) PROVE CalmInv'
  <1>1. phase[s] = "active"
    BY DEF CalmInv, Begun, CloseKicked
  <1> QED BY <1>1, Closing DEF CloseKicked, IInv, TypeOK

(* Every step keeps the invariant where nothing overlaps an                *)
(* authentication.                                                         *)
LEMMA CalmNext == IInv /\ CalmInv /\ [Next]_vars => CalmInv'
  <1> SUFFICES ASSUME IInv, CalmInv, [Next]_vars PROVE CalmInv' OBVIOUS
  <1>1. CASE UNCHANGED vars
    BY <1>1 DEF vars, authVars, userVars, connVars, CalmInv, OneByOne, Begun, UnderWay, UnderWayOf,
                Away, PresenceAgrees, InService, Authenticating, Bound
  <1>2. ASSUME NEW s \in Sessions, Authenticate(s), UNCHANGED races PROVE CalmInv'
    BY <1>2, CalmRefuse, CalmLookUp, CalmBind, CalmFlush, CalmActivate, CalmFail, CalmUndo, CalmEnd
       DEF Authenticate
  <1>3. ASSUME NEW s \in Sessions, Accept(s) \/ Serve(s) \/ CloseKicked(s), UNCHANGED races PROVE CalmInv'
    BY <1>3, CalmPublish, CalmGiveUp, CalmEnter, CalmClose, CalmCloseKicked DEF Accept, Serve
  <1>4. ASSUME Worker, UNCHANGED races PROVE CalmInv'
    BY <1>4, CalmClose, CalmDangleBegin, CalmDangleMark, CalmRemove DEF Worker, Dangle
  <1> QED BY <1>1, <1>2, <1>3, <1>4, CalmGraceOver, CalmKick DEF Next, Step

LEMMA CalmHolds == ASSUME Calm PROVE Spec => [](IInv /\ CalmInv)
  <1>1. Init => IInv /\ CalmInv
    BY InitInv, CalmInit
  <1>2. IInv /\ CalmInv /\ [Next]_vars => (IInv /\ CalmInv)'
    BY NextInv, CalmNext
  <1> QED BY <1>1, <1>2, PTL DEF Spec

(* Where the gate keeps the steps of other tasks out of an authentication, *)
(* a session whose commands are taken is that of the registered player,    *)
(* and nobody sits in a room who is not registered.                        *)
THEOREM PresenceAgreesHolds == ASSUME Calm PROVE Spec => []PresenceAgrees
  <1>1. IInv /\ CalmInv => PresenceAgrees
    BY DEF CalmInv
  <1> QED BY CalmHolds, <1>1, PTL

-----------------------------------------------------------------------------
(* The sessions implement what SessionHandover promises *)

(* A session that an authentication may give the account back to is        *)
(* active, and so is the one that is bound, unless it is authenticating or *)
(* was cut off and its accept task has not given it up yet.                *)
Restorable ==
    /\ \A s \in Sessions : prev[s].session # None =>
           Authenticating(s) /\ phase[prev[s].session] = "active"
    /\ \A u \in Sessions : LET s == binding[u].session IN s # None =>
           \/ phase[s] \in {"active", "bound", "flushed"}
           \/ phase[s] = "failed" /\ s \in awaited

LEMMA RestorableInit == Init => Restorable
  BY DEF Init, Restorable, Unbound

(* A step that leaves the phases alone and gains no binding keeps it.      *)
LEMMA RestorableAside ==
  ASSUME IInv, Restorable, UNCHANGED <<prev, phase>>,
         \A u \in Sessions : binding'[u] = binding[u] \/ binding'[u].session = None,
         \A u \in Sessions : binding'[u].session \in awaited => binding'[u].session \in awaited'
  PROVE  Restorable'
  BY DEF Restorable, Authenticating

LEMMA RestorableAuth ==
  ASSUME IInv, CalmInv, Restorable, UNCHANGED races, NEW s \in Sessions, Authenticate(s)
  PROVE  Restorable'
  <1> USE NoneAssumption
  <1>1. CASE Refuse(s)
    BY <1>1 DEF Refuse, Restorable, Authenticating, userVars, connVars, IInv, TypeOK, NotYetBound, Bindings, Maybe
  <1>2. CASE LookUp(s)
    <2>1. /\ awaited = {} /\ phase[s] = "idle" /\ UNCHANGED binding
          /\ phase' = [phase EXCEPT ![s] = "found"]
      BY <1>2, QuietMeansNobody DEF LookUp
    <2>2. \A u \in Sessions : binding[u].session # None => phase[binding[u].session] = "active"
      BY <2>1, QuietMeansNobody, <1>2 DEF LookUp, Restorable, Authenticating, IInv, TypeOK, Bindings, Maybe
    <2>3. prev'[s].session = None \/ (users \in Sessions /\ prev'[s] = binding[users])
      BY <1>2 DEF LookUp, Unbound, IInv, TypeOK, Maybe, NotYetBound
    <2>4. \A t \in Sessions \ {s} : prev'[t] = prev[t]
      BY <1>2 DEF LookUp, IInv, TypeOK
    <2>5. phase'[s] = "found" /\ \A t \in Sessions : phase[t] = "active" => phase'[t] = "active"
      BY <2>1 DEF IInv, TypeOK
    <2>6. \A t \in Sessions : prev[t].session = None \/ Authenticating(t)
      BY DEF Restorable
    <2>7. \A t \in Sessions : prev[t].session = None
      BY <2>6, QuietMeansNobody, <1>2 DEF LookUp
    <2>8. \A t \in Sessions : prev'[t].session # None =>
             Authenticating(t)' /\ phase'[prev'[t].session] = "active"
      BY <2>2, <2>3, <2>4, <2>5, <2>7 DEF Authenticating, IInv, TypeOK, Bindings, Maybe
    <2>9. \A u \in Sessions : binding'[u].session # None => phase'[binding'[u].session] = "active"
      BY <2>1, <2>2, <2>5 DEF IInv, TypeOK, Bindings, Maybe
    <2> QED BY <2>8, <2>9 DEF Restorable
  <1>3. CASE Bind(s)
    <2>1. user[s] \in Sessions /\ phase[s] = "found" /\ phase' = [phase EXCEPT ![s] = "bound"]
          /\ UNCHANGED <<prev, awaited>>
      BY <1>3 DEF Bind, IInv, HasUser, connVars
    <2>2. \A u \in Sessions : binding'[u] = binding[u] \/ binding'[u].session = s
      BY <1>3, <2>1 DEF Bind, SetSession, IInv, TypeOK
    <2> QED BY <2>1, <2>2 DEF Restorable, Authenticating, IInv, TypeOK, Bindings, Maybe
  <1>4. CASE Flush(s)
    BY <1>4 DEF Flush, Restorable, Authenticating, userVars, connVars, IInv, TypeOK, Bindings, Maybe
  <1>5. CASE Activate(s)
    <2>1. phase[s] = "flushed" /\ prev' = [prev EXCEPT ![s] = Unbound] /\ UNCHANGED <<binding, awaited>>
      BY <1>5 DEF Activate, userVars
    <2>2. phase' = [phase EXCEPT ![s] = "active"]
      BY <1>5, Alone DEF Activate, Authenticating, IInv, TypeOK
    <2> QED BY <2>1, <2>2 DEF Restorable, Authenticating, Unbound, IInv, TypeOK, Bindings, Maybe
  <1>6. CASE Fail(s)
    <2>1. /\ phase[s] \in {"found", "bound", "flushed"} /\ user[s] \in Sessions
          /\ phase' = [phase EXCEPT ![s] = IF fresh[s] THEN "undoing" ELSE "closing"]
          /\ UNCHANGED <<user, prev, awaited>>
      BY <1>6 DEF Fail, IInv, HasUser, connVars
    <2>2. \A u \in Sessions : \/ binding'[u] = binding[u] /\ binding[u].session # s
                              \/ binding'[u].session = None
                              \/ binding'[u] = prev[s]
      <3>1. CASE phase[s] = "found"
        BY <1>6, <3>1 DEF Fail, IInv, NotYetBound, TypeOK
      <3>2. CASE phase[s] # "found"
        <4>1. Bound(user[s], s, bound[s])
          BY <2>1, <3>2 DEF CalmInv, UnderWay, UnderWayOf
        <4>2. \A u \in Sessions : binding[u].session = s => u = user[s]
          BY DEF IInv, BoundAsTold
        <4> QED BY <1>6, <2>1, <3>2, <4>1, <4>2
                DEF Fail, ReplaceIfMatches, ClearIfMatches, ClearSession, IInv, TypeOK
      <3> QED BY <3>1, <3>2
    <2>3. \A t \in Sessions \ {s} : phase'[t] = phase[t]
      BY <2>1 DEF IInv, TypeOK
    <2>4. phase'[s] \in {"undoing", "closing"}
      BY <2>1 DEF IInv, TypeOK
    <2>5. \A t \in Sessions : prev'[t].session # None =>
             Authenticating(t)' /\ phase'[prev'[t].session] = "active"
      BY <2>1, <2>3, <2>4 DEF Restorable, Authenticating, IInv, TypeOK, Bindings, Maybe
    <2>6. ASSUME NEW u \in Sessions, binding'[u].session # None
          PROVE  LET t == binding'[u].session IN
                 \/ phase'[t] \in {"active", "bound", "flushed"}
                 \/ phase'[t] = "failed" /\ t \in awaited'
      <3>1. CASE binding'[u] = binding[u] /\ binding[u].session # s
        BY <2>1, <2>3, <2>6, <3>1 DEF Restorable, IInv, TypeOK, Bindings, Maybe
      <3>2. CASE binding'[u] = prev[s]
        BY <2>1, <2>5, <2>6, <3>2
      <3> QED BY <2>2, <2>6, <3>1, <3>2
    <2> QED BY <2>5, <2>6 DEF Restorable
  <1>7. CASE Undo(s)
    BY <1>7 DEF Undo, Restorable, Authenticating, connVars, IInv, TypeOK, Bindings, Maybe
  <1>8. CASE CloseFailed(s) \/ CutOff(s)
    <2>1. /\ phase[s] \in {"closing", "bound", "flushed"} /\ phase' = [phase EXCEPT ![s] = "failed"]
          /\ prev' = [prev EXCEPT ![s] = Unbound] /\ UNCHANGED <<binding, awaited>> /\ s \in awaited
      BY <1>8 DEF CloseFailed, CutOff, userVars, CalmInv, OneByOne, Authenticating
    <2> QED BY <2>1 DEF Restorable, Authenticating, Unbound, IInv, TypeOK, Bindings, Maybe
  <1> QED BY <1>1, <1>2, <1>3, <1>4, <1>5, <1>6, <1>7, <1>8 DEF Authenticate

LEMMA RestorableNext == IInv /\ CalmInv /\ Restorable /\ [Next]_vars => Restorable'
  <1> SUFFICES ASSUME IInv, CalmInv, Restorable, [Next]_vars PROVE Restorable' OBVIOUS
  <1> USE NoneAssumption
  <1>1. CASE UNCHANGED vars
    BY <1>1, RestorableAside DEF vars, authVars, userVars, connVars
  <1>2. ASSUME NEW s \in Sessions, Publish(s) PROVE Restorable'
    <2>1. UNCHANGED <<prev, phase, binding>> /\ phase[s] = "active" /\ awaited' = awaited \ {s}
      BY <1>2 DEF Publish, authVars, userVars
    <2> QED BY <2>1 DEF Restorable, Authenticating
  <1>3. ASSUME NEW s \in Sessions, GiveUp(s) PROVE Restorable'
    <2>1. user[s] \in Sessions /\ UNCHANGED <<prev, phase>> /\ awaited' = awaited \ {s}
      BY <1>3 DEF GiveUp, IInv, HasUser, authVars
    <2>2. \A u \in Sessions : /\ binding'[u] = binding[u] \/ binding'[u].session = None
                              /\ binding'[u].session # s
      <3>1. \A u \in Sessions : binding[u].session = s => u = user[s] /\ Bound(u, s, bound[s])
        BY DEF IInv, BoundAsTold, Bound, TypeOK, Bindings
      <3>2. CASE Bound(user[s], s, bound[s])
        BY <1>3, <2>1, <3>1, <3>2 DEF GiveUp, ClearIfMatches, ClearSession, IInv, TypeOK
      <3>3. CASE ~Bound(user[s], s, bound[s])
        BY <1>3, <2>1, <3>1, <3>3 DEF GiveUp, ClearIfMatches
      <3> QED BY <3>2, <3>3
    <2> QED BY <2>1, <2>2 DEF Restorable, Authenticating
  <1>4. ASSUME NEW s \in Sessions, Serve(s) \/ CloseKicked(s) \/ TakeNotice(s) PROVE Restorable'
    BY <1>4, RestorableAside
       DEF Serve, Enter, PeerGone, Drop, Heartbeat, CloseKicked, TakeNotice, authVars, userVars, connVars
  <1>5. CASE Dangle
    BY <1>5, RestorableAside DEF Dangle, DangleBegin, DangleMark, DangleRemove, authVars, userVars, connVars
  <1>6. ASSUME NEW t \in timers, GraceOver(t) PROVE Restorable'
    BY <1>6, RestorableAside DEF GraceOver, authVars, connVars
  <1>7. CASE Kick
    <2>1. users \in Sessions
      BY <1>7 DEF Kick, IInv, TypeOK, Maybe
    <2> QED BY <1>7, <2>1, CutBinding, RestorableAside DEF Kick, authVars
  <1> QED BY <1>1, <1>2, <1>3, <1>4, <1>5, <1>6, <1>7, RestorableAuth DEF Next, Step, Accept, Worker

(* What the sessions are to their user, step by step.                      *)
Serving == {s \in Sessions : Serves(s)}
Past == {s \in Sessions : phase[s] = "active"}
Connected == {s \in Sessions : phase[s] = "active" /\ open[s]}
Online == \E s \in Sessions : phase[s] = "active" /\ user[s] = users

Stutter == UNCHANGED <<Serving, Past, Connected, Online>>
Promise == [Handover!Next]_(Handover!vars)

LEMMA Promised ==
  ASSUME UNCHANGED races,
         \/ Stutter
         \/ \E s \in Sessions :
               /\ s \notin Past
               /\ Serving' = {s} /\ Past' = Past \cup {s} /\ Online' = TRUE
               /\ Connected' = (Connected \ Serving) \cup {s}
         \/ \E s \in Connected :
               /\ Connected' = Connected \ {s} /\ Serving' = Serving \ {s}
               /\ UNCHANGED <<Past, Online>>
         \/ Serving' = {} /\ Online' = FALSE /\ UNCHANGED <<Past, Connected>>
         \/ "slow" \in races /\ Serving' = {} /\ UNCHANGED <<Past, Connected, Online>>
  PROVE  Promise
  <1> USE DEF Serving, Past, Connected, Online
  <1>1. CASE Stutter
    BY <1>1 DEF Stutter, Promise, Handover!vars
  <1>2. ASSUME NEW s \in Sessions,
               /\ s \notin Past
               /\ Serving' = {s} /\ Past' = Past \cup {s} /\ Online' = TRUE
               /\ Connected' = (Connected \ Serving) \cup {s}
        PROVE  Promise
    <2>1. Handover!Take(s)
      BY <1>2 DEF Handover!Take
    <2> QED BY <2>1 DEF Promise, Handover!Next
  <1>3. ASSUME NEW s \in Connected,
               /\ Connected' = Connected \ {s} /\ Serving' = Serving \ {s}
               /\ UNCHANGED <<Past, Online>>
        PROVE  Promise
    <2>1. Handover!Close(s)
      BY <1>3 DEF Handover!Close
    <2> QED BY <2>1 DEF Promise, Handover!Next
  <1>4. CASE Serving' = {} /\ Online' = FALSE /\ UNCHANGED <<Past, Connected>>
    <2>1. Handover!Leave
      BY <1>4 DEF Handover!Leave
    <2> QED BY <2>1 DEF Promise, Handover!Next
  <1>5. CASE "slow" \in races /\ Serving' = {} /\ UNCHANGED <<Past, Connected, Online>>
    <2>1. Handover!Orphan
      BY <1>5 DEF Handover!Orphan
    <2> QED BY <2>1 DEF Promise, Handover!Next
  <1> QED BY <1>1, <1>2, <1>3, <1>4, <1>5

(* While nobody authenticates it is the session in service that serves.    *)
LEMMA ServesAlone ==
  ASSUME \A t \in Sessions : ~Authenticating(t)
  PROVE  \A t \in Sessions : Serves(t) <=> InService(t)
  BY DEF Serves, InService, Authenticating

(* While s holds the binding it is the one it took it from that serves.    *)
Behind ==
    \A s \in Sessions : phase[s] \in {"bound", "flushed"} =>
        \A t \in Sessions : Serves(t) <=>
            phase[t] = "active" /\ open[t] /\ prev[s].session = t

LEMMA ServesBehind == IInv /\ CalmInv => Behind
  <1> USE NoneAssumption
  <1> SUFFICES ASSUME IInv, CalmInv, NEW s \in Sessions, phase[s] \in {"bound", "flushed"}
               PROVE  \A t \in Sessions : Serves(t) <=>
                          phase[t] = "active" /\ open[t] /\ prev[s].session = t
    BY DEF Behind
  <1>1. /\ \A t \in Sessions : Authenticating(t) => t = s
        /\ user[s] \in Sessions /\ users = user[s] /\ Bound(user[s], s, bound[s])
    BY Alone DEF Authenticating, CalmInv, UnderWay, UnderWayOf
  <1> SUFFICES ASSUME NEW t \in Sessions, phase[t] = "active", open[t]
               PROVE  Serves(t) <=> prev[s].session = t
    BY DEF Serves
  <1>2. ~Bound(user[t], t, bound[t])
    <2> SUFFICES ASSUME Bound(user[t], t, bound[t]) PROVE FALSE OBVIOUS
    <2>1. user[t] = users
      BY DEF CalmInv, PresenceAgrees, InService
    <2> QED BY <1>1, <2>1 DEF Bound
  <1>3. ASSUME prev[s].session = t PROVE Serves(t)
    <2>1. user[t] = user[s] /\ prev[s].generation = bound[t]
      BY <1>3 DEF IInv, PrevAsTold
    <2>2. prev[s] = [session |-> t, generation |-> bound[t]]
      BY <1>3, <2>1 DEF IInv, TypeOK, Bindings
    <2> QED BY <1>1, <2>1, <2>2 DEF Serves, Bound
  <1>4. ASSUME Serves(t) PROVE prev[s].session = t
    BY <1>1, <1>2, <1>4 DEF Serves, Authenticating
  <1> QED BY <1>3, <1>4

(* While nobody holds a binding that is not his for good, in service is    *)
(* whoever serves.                                                         *)
LEMMA ServesPlain ==
  ASSUME \A t \in Sessions : phase[t] \notin {"bound", "flushed"}
  PROVE  \A t \in Sessions : Serves(t) <=> InService(t)
  BY DEF Serves, InService

(* The steps of an authentication.                                         *)
LEMMA StepRefuse == ASSUME IInv, UNCHANGED races, NEW s \in Sessions, Refuse(s) PROVE Promise
  <1>1. \A t \in Sessions : /\ phase'[t] = "active" <=> phase[t] = "active"
                            /\ phase'[t] \in {"bound", "flushed"} <=> phase[t] \in {"bound", "flushed"}
    BY DEF Refuse, IInv, TypeOK
  <1>2. UNCHANGED <<user, prev, bound, users, binding, open>>
    BY DEF Refuse, userVars, connVars
  <1>3. Stutter
    BY <1>1, <1>2 DEF Stutter, Serving, Past, Connected, Online, Serves, Bound
  <1> QED BY <1>3, Promised

LEMMA StepLookUp ==
  ASSUME IInv, CalmInv, UNCHANGED races, NEW s \in Sessions, LookUp(s) PROVE Promise
  <1> USE NoneAssumption
  <1>1. /\ phase[s] = "idle" /\ phase' = [phase EXCEPT ![s] = "found"]
        /\ \A t \in Sessions : ~Authenticating(t)
        /\ UNCHANGED <<bound, binding>> /\ open' = [open EXCEPT ![s] = TRUE]
        /\ \A t \in Sessions \ {s} : user'[t] = user[t]
    BY QuietMeansNobody DEF LookUp, IInv, TypeOK
  <1>2. \A t \in Sessions : phase'[t] \notin {"bound", "flushed"}
    BY <1>1 DEF Authenticating, IInv, TypeOK
  <1>3. \A t \in Sessions : phase'[t] = "active" <=> phase[t] = "active" /\ t # s
    BY <1>1 DEF IInv, TypeOK
  <1>4. \A t \in Sessions : Serves(t)' <=> InService(t)'
    BY <1>2 DEF Serves, InService
  <1>5. Serving' = Serving
    <2>1. \A t \in Sessions : InService(t)' <=> InService(t)
      BY <1>1, <1>3 DEF InService, Bound, IInv, TypeOK
    <2> QED BY <1>1, <1>4, <2>1, ServesAlone DEF Serving
  <1>6. Past' = Past /\ Connected' = Connected
    BY <1>1, <1>3 DEF Past, Connected, IInv, TypeOK
  <1>7. Online' = Online
    <2>1. CASE users # None
      <3>1. users' = users
        BY <2>1 DEF LookUp
      <3> QED BY <1>1, <1>3, <3>1 DEF Online
    <2>2. CASE users = None
      <3>1. users' = s
        BY <2>2 DEF LookUp
      <3>2. \A t \in Sessions : phase[t] = "active" => user[t] \in Sessions /\ user[t] # s
        BY <1>1 DEF IInv, HasUser, CalmInv, Begun
      <3> QED BY <1>1, <1>3, <2>2, <3>1, <3>2 DEF Online
    <2> QED BY <2>1, <2>2
  <1> QED BY <1>5, <1>6, <1>7, Promised DEF Stutter

(* Binding takes commands from the session that had it, not the account.   *)
LEMMA StepBind ==
  ASSUME IInv, IInv', CalmInv, CalmInv', UNCHANGED races, NEW s \in Sessions, Bind(s) PROVE Promise
  <1> USE NoneAssumption
  <1>1. /\ \A t \in Sessions : Authenticating(t) => t = s
        /\ user[s] \in Sessions /\ users = user[s] /\ phase[s] = "found"
        /\ UNCHANGED <<user, prev, users, open>> /\ phase' = [phase EXCEPT ![s] = "bound"]
    BY Alone DEF Bind, Authenticating, CalmInv, UnderWay, UnderWayOf, connVars
  <1>2. \A t \in Sessions : phase'[t] = "active" <=> phase[t] = "active"
    BY <1>1 DEF IInv, TypeOK
  <1>3. \A t \in Sessions : Serves(t)' <=> phase'[t] = "active" /\ open'[t] /\ prev'[s].session = t
    <2>1. phase'[s] \in {"bound", "flushed"}
      BY <1>1 DEF IInv, TypeOK
    <2>2. (IInv /\ CalmInv => Behind)'
      BY ServesBehind, PTL
    <2> QED BY <2>1, <2>2 DEF Behind
  <1>4. \A t \in Sessions : Serves(t) <=> InService(t)
    BY <1>1, ServesPlain DEF Authenticating
  <1>5. ASSUME NEW t \in Sessions, phase[t] = "active", open[t]
        PROVE  InService(t) <=> prev[s].session = t
    <2>1. ASSUME InService(t) PROVE prev[s].session = t
      <3>1. binding[user[s]].session = t
        BY <1>1, <2>1 DEF CalmInv, PresenceAgrees, InService, Bound
      <3> QED BY <1>1, <1>5, <3>1 DEF CalmInv, UnderWay, UnderWayOf
    <2>2. ASSUME prev[s].session = t PROVE InService(t)
      <3>1. prev[s] = binding[user[s]]
        BY <1>1, <2>2 DEF CalmInv, UnderWay, UnderWayOf
      <3>2. user[t] = user[s] /\ binding[user[t]].generation = bound[t]
        BY <1>1, <2>2, <3>1 DEF IInv, PrevAsTold
      <3> QED BY <1>1, <1>5, <2>2, <3>1, <3>2 DEF InService, Bound, IInv, TypeOK, Bindings
    <2> QED BY <2>1, <2>2
  <1>6. Stutter
    <2>1. Serving' = Serving
      BY <1>1, <1>2, <1>3, <1>4, <1>5 DEF Serving, InService
    <2> QED BY <1>1, <1>2, <2>1 DEF Stutter, Past, Connected, Online
  <1> QED BY <1>6, Promised

LEMMA StepFlush == ASSUME IInv, UNCHANGED races, NEW s \in Sessions, Flush(s) PROVE Promise
  <1>1. \A t \in Sessions : /\ phase'[t] = "active" <=> phase[t] = "active"
                            /\ phase'[t] \in {"bound", "flushed"} <=> phase[t] \in {"bound", "flushed"}
    BY DEF Flush, IInv, TypeOK
  <1>2. UNCHANGED <<user, prev, bound, users, binding, open>>
    BY DEF Flush, userVars, connVars
  <1>3. Stutter
    BY <1>1, <1>2 DEF Stutter, Serving, Past, Connected, Online, Serves, Bound
  <1> QED BY <1>3, Promised

(* The session that was replaced is closed, and the new one serves.        *)
LEMMA StepActivate ==
  ASSUME IInv, CalmInv, Restorable, UNCHANGED races, NEW s \in Sessions, Activate(s) PROVE Promise
  <1> USE NoneAssumption
  <1> DEFINE p == prev[s].session
  <1>1. /\ \A t \in Sessions : Authenticating(t) => t = s
        /\ user[s] \in Sessions /\ users = user[s] /\ phase[s] = "flushed"
        /\ Bound(user[s], s, bound[s]) /\ open[s] /\ p # s
    BY Alone DEF Activate, Authenticating, CalmInv, UnderWay, UnderWayOf, Restorable
  <1>2. /\ UNCHANGED <<user, bound, users, binding>>
        /\ phase' = [phase EXCEPT ![s] = "active"]
    <2>1. phase' = [phase EXCEPT ![s] = "active"]
      BY <1>1 DEF Activate, IInv, TypeOK
    <2> QED BY <2>1 DEF Activate, userVars
  <1>3. \A t \in Sessions : open'[t] <=> open[t] /\ t # p
    BY DEF Activate, IInv, TypeOK
  <1>4. \A t \in Sessions : /\ phase'[t] = "active" <=> phase[t] = "active" \/ t = s
                            /\ phase'[t] \notin {"bound", "flushed"}
    BY <1>1, <1>2 DEF Authenticating, IInv, TypeOK
  <1>5. \A t \in Sessions : Serves(t) <=> phase[t] = "active" /\ open[t] /\ p = t
    BY <1>1, ServesBehind DEF Behind
  <1>6. \A t \in Sessions : Serves(t)' <=> t = s
    <2>1. \A t \in Sessions : Serves(t)' <=> InService(t)'
      BY <1>4 DEF Serves, InService
    <2>2. InService(s)'
      BY <1>1, <1>2, <1>3, <1>4 DEF InService, Bound
    <2>3. ASSUME NEW t \in Sessions, InService(t)', t # s PROVE FALSE
      <3>1. InService(t)
        BY <1>2, <1>3, <1>4, <2>3 DEF InService, Bound
      <3> QED BY <1>1, <2>3, <3>1 DEF CalmInv, PresenceAgrees, InService, Bound
    <2> QED BY <2>1, <2>2, <2>3
  <1>7. Serving' = {s} /\ s \notin Past /\ Past' = Past \cup {s}
    BY <1>1, <1>4, <1>6 DEF Serving, Past
  <1>8. Online' = TRUE
    BY <1>1, <1>2, <1>4 DEF Online
  <1>9. Connected' = (Connected \ Serving) \cup {s}
    BY <1>1, <1>3, <1>4, <1>5 DEF Connected, Serving
  <1> QED BY <1>7, <1>8, <1>9, Promised

(* A roll-back gives the account back to the session it was taken from.    *)
LEMMA StepFail ==
  ASSUME IInv, CalmInv, UNCHANGED races, NEW s \in Sessions, Fail(s) PROVE Promise
  <1> USE NoneAssumption
  <1>1. /\ \A t \in Sessions : Authenticating(t) => t = s
        /\ user[s] \in Sessions /\ users = user[s] /\ phase[s] \in {"found", "bound", "flushed"}
        /\ UNCHANGED <<user, prev, bound, users, open>>
        /\ phase' = [phase EXCEPT ![s] = IF fresh[s] THEN "undoing" ELSE "closing"]
    BY Alone DEF Fail, Authenticating, CalmInv, UnderWay, UnderWayOf, connVars
  <1>2. \A t \in Sessions : /\ phase'[t] = "active" <=> phase[t] = "active"
                            /\ phase'[t] \notin {"bound", "flushed"}
    BY <1>1 DEF Authenticating, IInv, TypeOK
  <1>3. \A t \in Sessions : Serves(t)' <=> InService(t)'
    BY <1>2 DEF Serves, InService
  <1>4. \A t \in Sessions : Serves(t) <=> Serves(t)'
    <2>1. CASE phase[s] = "found"
      <3>1. UNCHANGED binding
        BY <2>1 DEF Fail
      <3>2. \A t \in Sessions : Serves(t) <=> InService(t)
        BY <1>1, <2>1, ServesPlain DEF Authenticating
      <3> QED BY <1>1, <1>2, <1>3, <3>1, <3>2 DEF InService, Bound
    <2>2. CASE phase[s] # "found"
      <3>1. Bound(user[s], s, bound[s])
        BY <1>1, <2>2 DEF CalmInv, UnderWay, UnderWayOf
      <3>2. \A t \in Sessions : Serves(t) <=> phase[t] = "active" /\ open[t] /\ prev[s].session = t
        BY <1>1, <2>2, ServesBehind DEF Behind
      <3>3. /\ \A u \in Sessions \ {user[s]} : binding'[u] = binding[u]
            /\ IF prev[s].session # None THEN binding'[user[s]] = prev[s]
               ELSE binding'[user[s]].session = None
        BY <1>1, <2>2, <3>1 DEF Fail, ReplaceIfMatches, ClearIfMatches, ClearSession, IInv, TypeOK
      <3>4. ASSUME NEW t \in Sessions, phase[t] = "active", open[t]
            PROVE  InService(t)' <=> prev[s].session = t
        <4>1. ASSUME prev[s].session = t PROVE InService(t)'
          <5>1. user[t] = user[s] /\ prev[s].generation = bound[t]
            BY <4>1 DEF IInv, PrevAsTold
          <5>2. prev[s] = [session |-> t, generation |-> bound[t]]
            BY <4>1, <5>1 DEF IInv, TypeOK, Bindings
          <5> QED BY <1>1, <1>2, <3>3, <3>4, <4>1, <5>1, <5>2 DEF InService, Bound
        <4>2. ASSUME InService(t)', user[t] # user[s] PROVE FALSE
          <5>1. user[t] \in Sessions
            BY <3>4 DEF IInv, HasUser
          <5>2. InService(t)
            BY <1>1, <3>3, <3>4, <4>2, <5>1 DEF InService, Bound
          <5> QED BY <1>1, <4>2, <5>2 DEF CalmInv, PresenceAgrees
        <4>3. ASSUME InService(t)', user[t] = user[s] PROVE prev[s].session = t
          BY <1>1, <3>3, <4>3 DEF InService, Bound
        <4> QED BY <4>1, <4>2, <4>3
      <3> QED BY <1>1, <1>2, <1>3, <3>2, <3>4 DEF InService
    <2> QED BY <2>1, <2>2
  <1>5. Stutter
    BY <1>1, <1>2, <1>4 DEF Stutter, Serving, Past, Connected, Online
  <1> QED BY <1>5, Promised

(* The user that goes with a failed authentication is nobody else's.       *)
LEMMA StepUndo ==
  ASSUME IInv, CalmInv, UNCHANGED races, NEW s \in Sessions, Undo(s) PROVE Promise
  <1> USE NoneAssumption
  <1>1. /\ phase[s] = "undoing" /\ phase' = [phase EXCEPT ![s] = "closing"]
        /\ UNCHANGED <<user, prev, bound, binding, open>>
        /\ users' = users \/ (users' = None /\ users = user[s])
    BY DEF Undo, Unregister, connVars
  <1>2. \A t \in Sessions : /\ phase'[t] = "active" <=> phase[t] = "active"
                            /\ phase'[t] \in {"bound", "flushed"} <=> phase[t] \in {"bound", "flushed"}
    BY <1>1 DEF IInv, TypeOK
  <1>3. Online' = Online
    <2>1. CASE users' = users
      BY <1>1, <1>2, <2>1 DEF Online
    <2>2. CASE users' # users
      <3>1. fresh[s]
        BY <1>1 DEF CalmInv, Begun
      <3>2. \A t \in Sessions : phase[t] = "active" => user[t] # user[s]
        BY <1>1, <3>1 DEF CalmInv, UnderWay, UnderWayOf, Authenticating
      <3>3. \A t \in Sessions : phase[t] = "active" => user[t] # None
        BY DEF IInv, HasUser
      <3> QED BY <1>1, <1>2, <2>2, <3>2, <3>3 DEF Online
    <2> QED BY <2>1, <2>2
  <1>4. Stutter
    BY <1>1, <1>2, <1>3 DEF Stutter, Serving, Past, Connected, Serves, Bound
  <1> QED BY <1>4, Promised

(* An authentication that is cut off while it holds the binding leaves the *)
(* account with nobody; one that has been undone, as it was.               *)
LEMMA StepEnd ==
  ASSUME IInv, CalmInv, UNCHANGED races, NEW s \in Sessions, CloseFailed(s) \/ CutOff(s)
  PROVE  Promise
  <1> USE NoneAssumption
  <1>1. /\ \A t \in Sessions : Authenticating(t) => t = s
        /\ UNCHANGED <<user, bound, users, binding>> /\ phase' = [phase EXCEPT ![s] = "failed"]
        /\ open' = [open EXCEPT ![s] = FALSE] /\ phase[s] \in {"closing", "bound", "flushed"}
    BY Alone DEF CloseFailed, CutOff, Authenticating, userVars
  <1>2. \A t \in Sessions : /\ phase'[t] = "active" <=> phase[t] = "active"
                            /\ phase'[t] \notin {"bound", "flushed"}
                            /\ phase[t] = "active" => open'[t] = open[t]
    BY <1>1 DEF Authenticating, IInv, TypeOK
  <1>3. \A t \in Sessions : Serves(t)' <=> InService(t)
    BY <1>1, <1>2 DEF Serves, InService, Bound
  <1>4. UNCHANGED <<Past, Connected, Online>>
    BY <1>1, <1>2 DEF Past, Connected, Online
  <1>5. CASE CloseFailed(s)
    <2>1. \A t \in Sessions : Serves(t) <=> InService(t)
      BY <1>1, <1>5, ServesPlain DEF CloseFailed, Authenticating
    <2>2. Serving' = Serving
      BY <1>3, <2>1 DEF Serving
    <2> QED BY <1>4, <2>2, Promised DEF Stutter
  <1>6. CASE CutOff(s)
    <2>1. "slow" \in races /\ phase[s] \in {"bound", "flushed"}
      BY <1>6 DEF CutOff
    <2>2. Bound(user[s], s, bound[s]) /\ users = user[s]
      BY <2>1 DEF CalmInv, UnderWay, UnderWayOf
    <2>3. \A t \in Sessions : ~InService(t)
      BY <2>1, <2>2 DEF CalmInv, PresenceAgrees, InService, Bound
    <2>4. Serving' = {}
      BY <1>3, <2>3 DEF Serving
    <2> QED BY <1>4, <2>1, <2>4, Promised
  <1> QED BY <1>5, <1>6

(* The accept task, the workers and the kick.                              *)
LEMMA StepPublish == ASSUME UNCHANGED races, NEW s \in Sessions, Publish(s) \/ Enter(s) \/ Heartbeat(s) PROVE Promise
  <1>1. Stutter
    BY DEF Publish, Enter, Heartbeat, authVars, userVars, connVars, Stutter, Serving, Past, Connected,
           Online, Serves, Bound
  <1> QED BY <1>1, Promised

LEMMA StepGiveUp == ASSUME IInv, CalmInv, UNCHANGED races, NEW s \in Sessions, GiveUp(s) PROVE Promise
  <1> USE NoneAssumption
  <1>1. /\ UNCHANGED <<authVars, users>> /\ user[s] \in Sessions /\ phase[s] = "failed"
        /\ open' = [open EXCEPT ![s] = FALSE] /\ s \in awaited
    BY DEF GiveUp, IInv, HasUser
  <1>2. \A t \in Sessions : phase[t] \notin {"bound", "flushed"}
    BY <1>1 DEF CalmInv, OneByOne, Authenticating
  <1>3. \A u, t \in Sessions : t # s => (Bound(u, t, bound[t])' <=> Bound(u, t, bound[t]))
    BY <1>1 DEF GiveUp, ClearIfMatches, ClearSession, Bound, authVars, IInv, TypeOK
  <1>4. \A t \in Sessions : Serves(t)' <=> Serves(t)
    <2>1. \A t \in Sessions : phase[t] = "active" => t # s /\ user[t] \in Sessions
      BY <1>1 DEF IInv, HasUser
    <2> QED BY <1>1, <1>2, <1>3, <2>1 DEF Serves, authVars, Bound, IInv, TypeOK
  <1>5. Stutter
    BY <1>1, <1>4 DEF Stutter, Serving, Past, Connected, Online, authVars, IInv, TypeOK
  <1> QED BY <1>5, Promised

(* A stream is closed, once: the session serves no more.                   *)
LEMMA StepClose ==
  ASSUME IInv, UNCHANGED <<authVars, users, binding, races>>, NEW s \in Sessions,
         phase[s] = "active", open' = [open EXCEPT ![s] = FALSE]
  PROVE  Promise
  <1>1. UNCHANGED <<Past, Online>>
    BY DEF authVars, Past, Online
  <1>2. Connected' = Connected \ {s} /\ Serving' = Serving \ {s}
    BY DEF authVars, Connected, Serving, Serves, Bound, IInv, TypeOK
  <1>3. CASE open[s]
    <2>1. s \in Connected
      BY <1>3 DEF Connected
    <2> QED BY <1>1, <1>2, <2>1, Promised
  <1>4. CASE ~open[s]
    <2>1. s \notin Connected /\ s \notin Serving
      BY <1>4 DEF Connected, Serving, Serves
    <2> QED BY <1>1, <1>2, <2>1, Promised DEF Stutter
  <1> QED BY <1>3, <1>4

LEMMA StepCloses ==
  ASSUME IInv, CalmInv, UNCHANGED races, NEW s \in Sessions,
         PeerGone(s) \/ Drop(s) \/ CloseKicked(s) \/ TakeNotice(s)
  PROVE  Promise
  <1>1. UNCHANGED <<authVars, users, binding>>
    BY DEF PeerGone, Drop, CloseKicked, TakeNotice, userVars
  <1>2. CASE phase[s] = "active" /\ open' = [open EXCEPT ![s] = FALSE]
    BY <1>1, <1>2, StepClose
  <1>3. CASE UNCHANGED open
    <2>1. Stutter
      BY <1>1, <1>3 DEF authVars, Stutter, Serving, Past, Connected, Online, Serves, Bound
    <2> QED BY <2>1, Promised
  <1> QED BY <1>2, <1>3 DEF PeerGone, Drop, CloseKicked, TakeNotice, CalmInv, Begun

LEMMA StepAside ==
  ASSUME UNCHANGED <<authVars, users, binding, open, races>> PROVE Promise
  <1>1. Stutter
    BY DEF authVars, Stutter, Serving, Past, Connected, Online, Serves, Bound
  <1> QED BY <1>1, Promised

(* A player is removed when he is not served, and for good.                *)
LEMMA StepRemove ==
  ASSUME IInv, CalmInv, UNCHANGED <<authVars, binding, open, races>>, awaited = {},
         NEW u \in Sessions, binding[u].session # None => ~open[binding[u].session],
         users' = IF users = u THEN None ELSE users
  PROVE  Promise
  <1> USE NoneAssumption
  <1>1. CASE users # u
    BY <1>1, StepAside
  <1>2. CASE users = u
    <2>1. \A t \in Sessions : ~InService(t)
      BY <1>2, Gone DEF CalmInv, PresenceAgrees
    <2>2. \A t \in Sessions : ~Authenticating(t)
      BY DEF CalmInv, OneByOne
    <2>3. Serving' = {}
      BY <2>1, <2>2 DEF authVars, Serving, Serves, InService, Authenticating, Bound
    <2>4. Online' = FALSE
      BY <1>2 DEF authVars, Online, IInv, HasUser
    <2> QED BY <2>3, <2>4, Promised DEF authVars, Past, Connected
  <1> QED BY <1>1, <1>2

LEMMA StepKick == ASSUME IInv, CalmInv, CalmInv', UNCHANGED races, Kick PROVE Promise
  <1> USE NoneAssumption
  <1>1. /\ UNCHANGED <<authVars, open>> /\ users' = None
        /\ \A t \in Sessions : ~Authenticating(t)
    BY QuietMeansNobody DEF Kick
  <1>2. \A t \in Sessions : phase[t] = "active" => user[t] \in Sessions
    BY DEF IInv, HasUser
  <1>3. \A t \in Sessions : ~InService(t)'
    <2> SUFFICES ASSUME NEW t \in Sessions, InService(t)' PROVE FALSE OBVIOUS
    <2>1. users' = user'[t] /\ phase'[t] = "active"
      BY DEF CalmInv, PresenceAgrees, InService
    <2> QED BY <1>1, <1>2, <2>1 DEF authVars
  <1>4. Serving' = {}
    BY <1>1, <1>3 DEF authVars, Serving, Serves, InService, Authenticating
  <1>5. Online' = FALSE
    BY <1>1, <1>2 DEF authVars, Online
  <1> QED BY <1>1, <1>4, <1>5, Promised DEF authVars, Past, Connected

LEMMA StepPromised ==
  IInv /\ IInv' /\ CalmInv /\ CalmInv' /\ Restorable /\ [Next]_vars => Promise
  <1> SUFFICES ASSUME IInv, IInv', CalmInv, CalmInv', Restorable, [Next]_vars PROVE Promise OBVIOUS
  <1>1. CASE UNCHANGED vars
    BY <1>1, StepAside DEF vars, authVars, userVars, connVars
  <1>2. ASSUME NEW s \in Sessions, Authenticate(s), UNCHANGED races PROVE Promise
    BY <1>2, StepRefuse, StepLookUp, StepBind, StepFlush, StepActivate, StepFail, StepUndo, StepEnd
       DEF Authenticate
  <1>3. ASSUME NEW s \in Sessions, Accept(s) \/ Serve(s) \/ CloseKicked(s) \/ TakeNotice(s), UNCHANGED races
        PROVE  Promise
    BY <1>3, StepPublish, StepGiveUp, StepCloses DEF Accept, Serve
  <1>4. ASSUME Dangle, UNCHANGED races PROVE Promise
    <2>1. CASE DangleBegin \/ DangleMark
      BY <1>4, <2>1, StepAside DEF DangleBegin, DangleMark, userVars, connVars
    <2>2. CASE DangleRemove
      <3>1. /\ awaited = {} /\ user[deciding.who] \in Sessions
            /\ binding[user[deciding.who]].session = deciding.who /\ ~open[deciding.who]
        BY <2>2 DEF DangleRemove, CalmInv, Away, IInv, TypeOK, HasUser, Idle
      <3> QED BY <1>4, <2>2, <3>1, StepRemove DEF DangleRemove, Unregister, connVars
    <2> QED BY <1>4, <2>1, <2>2 DEF Dangle
  <1>5. ASSUME NEW t \in timers, GraceOver(t), UNCHANGED races PROVE Promise
    <2>1. t.user \in Sessions /\ t.mark \in Sessions /\ awaited = {}
          /\ UNCHANGED <<authVars, binding, open>>
      BY <1>5, QuietMeansNobody DEF GraceOver, connVars, IInv, TypeOK
    <2>2. CASE Expired(t)
      <3>1. binding[t.user].session = t.mark /\ ~open[t.mark]
        BY <2>1, <2>2, NoneAssumption DEF Expired, CalmInv, Away
      <3>2. users' = IF users = t.user THEN None ELSE users
        BY <1>5, <2>2 DEF GraceOver, Unregister
      <3> QED BY <1>5, <2>1, <3>1, <3>2, StepRemove
    <2>3. CASE ~Expired(t)
      BY <1>5, <2>1, <2>3, StepAside DEF GraceOver
    <2> QED BY <2>2, <2>3
  <1> QED BY <1>1, <1>2, <1>3, <1>4, <1>5, StepKick DEF Next, Step, Worker

(* Where the gate keeps the steps of other tasks out of an authentication, *)
(* one session serves the account: one that fails to authenticate gives it *)
(* back to the one it was taken from, one that succeeds takes it for good. *)
THEOREM ImplementsHandoverHolds == ASSUME Calm PROVE Spec => ImplementsHandover
  <1> DEFINE All == IInv /\ CalmInv /\ Restorable
  <1>1. Init => All /\ Handover!Init
    <2>1. Init => Handover!Init
      BY DEF Init, Handover!Init, Serves
    <2> QED BY <2>1, InitInv, CalmInit, RestorableInit
  <1>2. All /\ [Next]_vars => All' /\ Promise
    BY NextInv, CalmNext, RestorableNext, StepPromised
  <1> QED BY <1>1, <1>2, PTL DEF Spec, ImplementsHandover, Promise
=============================================================================
