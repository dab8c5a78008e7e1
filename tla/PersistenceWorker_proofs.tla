---------------------- MODULE PersistenceWorker_proofs ----------------------
(***************************************************************************)
(* Events reach the database in the order of their admission, a flush that *)
(* returns Ok covers what was admitted before it, and a replay is drained  *)
(* when it is done, for every number of callers, events, kills, failures   *)
(* and every capacity of the channel.                                      *)
(***************************************************************************)
EXTENDS PersistenceWorker, WellFoundedInduction, TLAPS

(* The events admitted so far, in the channel, on their way to the worker in *)
(* whatever place, and those whose ACK is tried again.                       *)
Admitted == 1..(next - 1)
InChannel == {e \in Ids : \E i \in DOMAIN channel : channel[i] = Event(e)}
Coming == buffer \cup found \cup InChannel \cup ({moving} \ {0})
Unconfirmed == {pendingAcks[i] : i \in DOMAIN pendingAcks}

AtWork == worker \in {"exec", "ack", "advance"}
Ended == worker \in {"halted", "stopped"}

(* The gate is beyond the event. *)
Passed(e) == seq[e] < nextExpected \/ (e = cur /\ worker = "advance")

-----------------------------------------------------------------------------
(* The inductive invariant *)

Messages == [kind : {"event"}, of : Ids] \cup [kind : ControlKinds, of : Callers]

LogTypes ==
    /\ seq \in [Ids -> 0..MaxEvents]
    /\ unacked \subseteq Ids /\ done \subseteq Ids
    /\ highest \in 0..MaxEvents /\ marked \in 0..MaxEvents /\ admitSeq \in 0..MaxEvents
    /\ next \in 1..(MaxEvents + 1)
    /\ fatal \in BOOLEAN

SendTypes ==
    /\ holder \in Callers \cup {Nobody, Enqueuer}
    /\ moving \in Ids \cup {0} /\ (holder = Enqueuer => moving # 0)
    /\ closed \in BOOLEAN
    /\ channel \in Seq(Messages) /\ Len(channel) <= Capacity
    /\ inFlight \subseteq Ids /\ behind \subseteq Ids
    /\ scan \in {"idle", "listed", "queueing", "ended"}
    /\ found \subseteq Ids /\ (scan = "queueing" => found # {})

LoopTypes ==
    /\ worker \in {"control", "retry", "fetch", "drain", "exec", "ack", "advance",
                   "halted", "stopped"}
    /\ cur \in Ids \cup {0}
    /\ serving \in Callers \cup {Nobody, Enqueuer} /\ (worker = "drain" => serving \in Callers)
    /\ deferred \in Callers \cup {Nobody}
    /\ nextExpected \in 0..(MaxEvents + 1)
    /\ buffer \subseteq Ids /\ replayPending \subseteq Ids
    /\ pendingAcks \in Seq(Ids) /\ (worker = "retry" => pendingAcks # <<>>)
    /\ drained \in BOOLEAN

CallerStates == {"idle", "sending", "waiting", "replied ok", "replied error", "dropped",
                 "timeout", "ok", "error", "closed"}

CallTypes ==
    /\ caller \in [Callers -> CallerStates]
    /\ kind \in [Callers -> ControlKinds]
    /\ target \in [Callers -> Nat] /\ cover \in [Callers -> Nat]
    /\ expired \subseteq Callers
    /\ booted \in Nat

Types == LogTypes /\ SendTypes /\ LoopTypes /\ CallTypes

(* What is in the log, and what its counters are good for. *)
LogInv ==
    /\ unacked \subseteq Admitted /\ done \subseteq Admitted
    /\ Admitted \subseteq unacked \cup done
    /\ \A e \in Admitted : seq[e] # 0
    /\ \A e \in unacked : seq[e] <= highest
    /\ highest <= admitSeq /\ marked <= admitSeq /\ admitSeq < next

(* What is pending is numbered as it was admitted; numbers of acknowledged  *)
(* events may come again after a restart.                                   *)
OrderInv ==
    /\ \A e, f \in unacked : e < f => seq[e] < seq[f]
    /\ AtWork => \A e \in unacked : /\ e < cur => seq[e] < seq[cur]
                                    /\ cur < e => seq[cur] < seq[e]

WorkInv ==
    /\ AtWork => cur \in Admitted /\ seq[cur] = nextExpected /\ seq[cur] <= admitSeq
    /\ worker \in {"exec", "ack"} => cur \in unacked
    /\ worker \in {"ack", "advance"} => cur \in done
    /\ ~AtWork /\ ~Ended => cur = 0

(* What the gate has passed is done, and what is on its way to the worker  *)
(* is pending in the log or has been passed.                               *)
GateInv ==
    /\ nextExpected <= admitSeq + 1
    /\ nextExpected # 0 => \A e \in unacked : seq[e] < nextExpected => e \in done
    /\ Coming \subseteq Admitted
    /\ \A e \in Coming : e \in unacked \/ Passed(e)
    /\ \A e \in Unconfirmed : e \in done /\ Passed(e)

ReplayInv ==
    /\ booted < next
    /\ 1..booted \subseteq done \cup replayPending
    /\ drained => replayPending = {}
    /\ ~Ended => \A e \in (unacked \cap done) \ replayPending :
                    seq[e] < nextExpected \/ (e = cur /\ worker \in {"ack", "advance"})

FlushInv ==
    \A c \in Callers :
      /\ holder = c => caller[c] = "sending"
      /\ caller[c] \in {"sending", "waiting", "replied ok", "ok"} =>
           /\ cover[c] < next
           /\ \A e \in unacked : e <= cover[c] => seq[e] <= target[c]

IInv ==
    /\ Types /\ LogInv /\ OrderInv /\ WorkInv /\ GateInv /\ ReplayInv /\ FlushInv
    /\ InOrder /\ FlushFence

-----------------------------------------------------------------------------
(* Numbers *)

Less == {p \in Nat \X Nat : p[1] < p[2]}

LEMMA LeastExists ==
  ASSUME NEW S \in SUBSET Nat, S # {}
  PROVE  \E m \in S : \A x \in S : m <= x
  <1>1. IsWellFoundedOn(Less, Nat)
    BY NatLessThanWellFounded DEF OpToRel, Less
  <1>2. PICK m \in S : \A x \in S : ~(<<x, m>> \in Less)
    BY <1>1, WFMin
  <1>3. ASSUME NEW x \in S PROVE m <= x
    <2>1. x \in Nat /\ m \in Nat /\ <<x, m>> \in Nat \X Nat
      OBVIOUS
    <2>2. ~(x < m)
      BY <1>2, <2>1 DEF Less
    <2> QED BY <2>1, <2>2
  <1> QED BY <1>3

LEMMA MinIsLeast ==
  ASSUME NEW S \in SUBSET Nat, S # {}
  PROVE  Min(S) \in S /\ \A x \in S : Min(S) <= x
  BY LeastExists DEF Min

LEMMA MaxIsGreatest ==
  ASSUME NEW B \in Nat, NEW S \in SUBSET (0..B), S # {}
  PROVE  Max(S) \in S /\ \A x \in S : x <= Max(S)
  <1> DEFINE T == {B - x : x \in S}
  <1>1. \A x \in S : B - x \in Nat
    OBVIOUS
  <1>6. T \in SUBSET Nat /\ T # {}
    BY <1>1
  <1>2. PICK m \in T : \A x \in T : m <= x
    BY <1>6, LeastExists
  <1>3. PICK g \in S : m = B - g
    BY <1>2
  <1>4. \A x \in S : B - g <= B - x
    BY <1>2, <1>3
  <1>5. \A x \in S : g >= x
    BY <1>4
  <1> QED BY <1>5 DEF Max

-----------------------------------------------------------------------------
(* Queues *)

LEMMA AppendAdds ==
  ASSUME NEW S, NEW s \in Seq(S), NEW m \in S
  PROVE  /\ Append(s, m) \in Seq(S) /\ Len(Append(s, m)) = Len(s) + 1
         /\ \A i \in DOMAIN Append(s, m) :
               Append(s, m)[i] = m \/ \E j \in DOMAIN s : Append(s, m)[i] = s[j]
         /\ \E i \in DOMAIN Append(s, m) : Append(s, m)[i] = m
         /\ \A j \in DOMAIN s : \E i \in DOMAIN Append(s, m) : Append(s, m)[i] = s[j]
  <1>1. /\ Append(s, m) \in Seq(S) /\ Len(Append(s, m)) = Len(s) + 1 /\ Len(s) \in Nat
        /\ DOMAIN s = 1..Len(s) /\ DOMAIN Append(s, m) = 1..(Len(s) + 1)
        /\ Append(s, m)[Len(s) + 1] = m
        /\ \A i \in 1..Len(s) : Append(s, m)[i] = s[i]
    OBVIOUS
  <1>2. \A i \in DOMAIN Append(s, m) : i \in DOMAIN s \/ i = Len(s) + 1
    BY <1>1
  <1>3. DOMAIN s \subseteq DOMAIN Append(s, m) /\ Len(s) + 1 \in DOMAIN Append(s, m)
    BY <1>1
  <1> QED BY <1>1, <1>2, <1>3

LEMMA TailDrops ==
  ASSUME NEW S, NEW s \in Seq(S), s # <<>>
  PROVE  /\ Head(s) \in S /\ \E i \in DOMAIN s : s[i] = Head(s)
         /\ Tail(s) \in Seq(S) /\ Len(Tail(s)) = Len(s) - 1
         /\ \A i \in DOMAIN Tail(s) : \E j \in DOMAIN s : Tail(s)[i] = s[j]
         /\ \A j \in DOMAIN s : s[j] = Head(s) \/ \E i \in DOMAIN Tail(s) : Tail(s)[i] = s[j]
  <1>1. Head(s) = s[1] /\ Len(s) \in Nat \ {0} /\ DOMAIN s = 1..Len(s)
    OBVIOUS
  <1>2. /\ Tail(s) \in Seq(S) /\ Len(Tail(s)) = Len(s) - 1 /\ DOMAIN Tail(s) = 1..(Len(s) - 1)
        /\ \A i \in 1..(Len(s) - 1) : Tail(s)[i] = s[i + 1]
    BY <1>1
  <1>3. \A j \in DOMAIN s : j # 1 => j - 1 \in DOMAIN Tail(s) /\ Tail(s)[j - 1] = s[j]
    BY <1>1, <1>2
  <1> QED BY <1>1, <1>2, <1>3

-----------------------------------------------------------------------------
(* Replies *)

(* A caller that waits may hear Ok, but only when nothing up to its target *)
(* is left, or that there will be no Ok; others hear nothing.              *)
Answered ==
    /\ caller' \in [Callers -> CallerStates]
    /\ \A c \in Callers :
          \/ caller'[c] = caller[c]
          \/ caller[c] = "waiting" /\ caller'[c] \in {"replied error", "dropped"}
          \/ caller[c] = "waiting" /\ caller'[c] = "replied ok" /\ Ready(c)

LEMMA RepliesAnswer ==
  ASSUME Types, NEW ds, NEW answers \in [ds -> {"replied ok", "replied error", "dropped"}],
         \A c \in ds : answers[c] = "replied ok" => Ready(c),
         Replies(answers)
  PROVE  Answered
  <1>1. caller \in [Callers -> CallerStates]
    BY DEF Types, LoopTypes, CallTypes
  <1>2. \A c \in Callers : caller'[c] = IF c \in ds /\ caller[c] = "waiting" THEN answers[c] ELSE caller[c]
    BY DEF Replies
  <1>3. \A c \in Callers : caller'[c] \in CallerStates
    BY <1>1, <1>2 DEF CallerStates
  <1> QED BY <1>1, <1>2, <1>3 DEF Answered, Replies

LEMMA ReplyAnswers ==
  ASSUME Types, NEW c \in Callers, NEW a \in {"replied ok", "replied error"},
         a = "replied ok" => Ready(c), Reply(c, a)
  PROVE  Answered
  <1>1. [d \in {c} |-> a] \in [{c} -> {"replied ok", "replied error", "dropped"}]
    OBVIOUS
  <1> QED BY <1>1, RepliesAnswer DEF Reply

LEMMA DropsAnswer ==
  ASSUME Types, NEW cs, Drops(cs)
  PROVE  Answered
  <1>1. [c \in cs |-> "dropped"] \in [cs -> {"replied ok", "replied error", "dropped"}]
    OBVIOUS
  <1> QED BY <1>1, RepliesAnswer DEF Drops

LEMMA StopAnswers ==
  ASSUME Types, NEW c \in Callers, NEW a \in {"replied ok", "replied error"},
         a = "replied ok" => Ready(c), Stop(c, a)
  PROVE  Answered /\ worker' = "stopped" /\ channel' = <<>>
  <1> DEFINE heard == {c, deferred} \cup
                        {channel[i].of : i \in {j \in DOMAIN channel : channel[j].kind # "event"}}
             answers == [d \in heard |-> IF d = c THEN a ELSE "dropped"]
  <1>1. answers \in [heard -> {"replied ok", "replied error", "dropped"}]
    OBVIOUS
  <1>2. \A d \in heard : answers[d] = "replied ok" => Ready(d)
    OBVIOUS
  <1>3. Replies(answers) /\ worker' = "stopped" /\ channel' = <<>>
    BY DEF Stop
  <1> HIDE DEF answers, heard
  <1> QED BY <1>1, <1>2, <1>3, RepliesAnswer

(* A message of flush or shutdown is looked at: only its caller, the place  *)
(* of the message and the worker's place in its loop change.                *)
LEMMA ControlStep ==
  ASSUME Types, CheckDeferred \/ ServeControl \/ Halted
  PROVE  /\ Answered
         /\ UNCHANGED <<logVars, holder, moving, closed, inFlight, cur, nextExpected, buffer,
                        pendingAcks, replayPending, drained, scanVars, kind, target, expired,
                        cover, booted, next>>
         /\ deferred' \in Callers \cup {Nobody} /\ serving' \in {serving, Nobody}
         /\ worker \in {"control", "drain", "halted"}
         /\ worker' \in {"retry", "fetch", "control", "halted", "stopped"}
         /\ worker = "halted" => worker' \in {"halted", "stopped"}
         /\ worker' = "halted" => worker = "halted"
         /\ worker' = "retry" => pendingAcks # <<>>
         /\ \/ channel' = channel
            \/ worker' = "stopped" /\ channel' = <<>>
            \/ worker = "halted" /\ channel # <<>> /\ channel' = Tail(channel)
  <1>1. \A c \in Callers : c # Nobody
    BY NamesAssumption
  <1>2. deferred \in Callers \cup {Nobody} /\ serving \in Callers \cup {Nobody, Enqueuer}
        /\ (worker = "drain" => serving \in Callers) /\ caller \in [Callers -> CallerStates]
    BY DEF Types, LoopTypes, CallTypes
  <1>3. UNCHANGED caller => Answered
    BY <1>2 DEF Answered
  <1>4. CASE CheckDeferred
    <2>1. CASE UNCHANGED <<channel, caller, deferred>> /\ worker' = AfterCheck
      BY <1>2, <1>3, <1>4, <2>1 DEF CheckDeferred, AfterCheck
    <2>2. ASSUME NEW a \in {"replied ok", "replied error"}, deferred # Nobody, deferred' = Nobody,
                 a = "replied ok" => Ready(deferred),
                 IF kind[deferred] = "shutdown" THEN Stop(deferred, a)
                 ELSE Reply(deferred, a) /\ worker' = AfterCheck /\ UNCHANGED channel
          PROVE  Answered /\ (\/ worker' = AfterCheck /\ channel' = channel
                              \/ worker' = "stopped" /\ channel' = <<>>)
      BY <1>2, <2>2, ReplyAnswers, StopAnswers
    <2>3. \/ UNCHANGED <<channel, caller, deferred>> /\ worker' = AfterCheck
          \/ Answered /\ deferred' = Nobody
             /\ (\/ worker' = AfterCheck /\ channel' = channel
                 \/ worker' = "stopped" /\ channel' = <<>>)
      <3> HIDE DEF Ready, Answered, AfterCheck
      <3> QED BY <1>4, <2>2 DEF CheckDeferred
    <2> QED BY <1>2, <1>3, <1>4, <2>3 DEF CheckDeferred, AfterCheck
  <1>5. CASE ServeControl
    <2>1. serving \in Callers /\ worker = "drain"
      BY <1>2, <1>5 DEF ServeControl
    <2>2. ASSUME NEW a \in {"replied ok", "replied error"}, a = "replied ok" => Ready(serving),
                 IF kind[serving] = "shutdown" THEN Stop(serving, a)
                 ELSE Reply(serving, a) /\ worker' = "control" /\ UNCHANGED channel
          PROVE  Answered /\ (\/ worker' = "control" /\ channel' = channel
                              \/ worker' = "stopped" /\ channel' = <<>>)
      BY <2>1, <2>2, ReplyAnswers, StopAnswers
    <2>3. Answered /\ deferred' \in {deferred, serving}
          /\ (\/ worker' = "control" /\ channel' = channel
              \/ worker' = "stopped" /\ channel' = <<>>)
      <3> HIDE DEF Ready, Answered
      <3> QED BY <1>5, <2>2, DropsAnswer DEF ServeControl
    <2> QED BY <1>2, <1>5, <2>1, <2>3 DEF ServeControl
  <1>6. CASE Halted
    <2>1. PICK m : m = Head(channel)
      OBVIOUS
    <2>2. m \in Messages
      <3>1. channel \in Seq(Messages) /\ channel # <<>>
        BY <1>6 DEF Halted, Types, SendTypes
      <3> QED BY <2>1, <3>1, TailDrops
    <2>3. m.kind # "event" => m.of \in Callers
      BY <2>2 DEF Messages, ControlKinds
    <2>4. CASE m.kind = "event"
      BY <1>2, <1>3, <1>6, <2>1, <2>4 DEF Halted, loopVars, scanVars, logVars, countVars
    <2>5. CASE m.kind = "flush"
      BY <1>2, <1>6, <2>1, <2>3, <2>5, ReplyAnswers DEF Halted, loopVars, scanVars, logVars, countVars
    <2>6. CASE m.kind # "event" /\ m.kind # "flush"
      BY <1>2, <1>6, <2>1, <2>3, <2>6, StopAnswers DEF Halted, loopVars, scanVars, logVars, countVars
    <2> QED BY <2>4, <2>5, <2>6
  <1> QED BY <1>4, <1>5, <1>6

-----------------------------------------------------------------------------
(* Types *)

LEMMA ChannelType ==
  ASSUME Types
  PROVE  channel \in Seq(Messages) /\ Len(channel) <= Capacity /\ Len(channel) \in Nat
  <1>1. channel \in Seq(Messages) /\ Len(channel) <= Capacity
    BY DEF Types, SendTypes
  <1> QED BY <1>1

LEMMA NumberTypes ==
  ASSUME Types
  PROVE  /\ MaxEvents \in Nat /\ Ids \subseteq Nat
         /\ seq \in [Ids -> 0..MaxEvents] /\ \A e \in Ids : seq[e] \in 0..MaxEvents /\ seq[e] \in Nat
         /\ highest \in 0..MaxEvents /\ marked \in 0..MaxEvents /\ admitSeq \in 0..MaxEvents
         /\ nextExpected \in 0..(MaxEvents + 1) /\ next \in 1..(MaxEvents + 1)
         /\ unacked \subseteq Ids /\ buffer \subseteq Ids /\ found \subseteq Ids
  <1>1. MaxEvents \in Nat /\ Ids \subseteq Nat
    BY WorkerAssumption DEF Ids
  <1>2. seq \in [Ids -> 0..MaxEvents]
    BY DEF Types, LogTypes
  <1>3. \A e \in Ids : seq[e] \in 0..MaxEvents
    BY <1>2
  <1>4. \A e \in Ids : seq[e] \in Nat
    BY <1>1, <1>3
  <1> QED BY <1>1, <1>2, <1>3, <1>4 DEF Types, LogTypes, SendTypes, LoopTypes

(* What is in the channel is a message, and there is room for no more.     *)
LEMMA Queued ==
  ASSUME Types, NEW m \in Messages, Room
  PROVE  Append(channel, m) \in Seq(Messages) /\ Len(Append(channel, m)) <= Capacity
  <1>1. Append(channel, m) \in Seq(Messages) /\ Len(Append(channel, m)) = Len(channel) + 1
    BY ChannelType, AppendAdds
  <1> QED BY <1>1, ChannelType, WorkerAssumption DEF Room

LEMMA Taken ==
  ASSUME Types, channel # <<>>
  PROVE  /\ Tail(channel) \in Seq(Messages) /\ Len(Tail(channel)) <= Capacity
         /\ Head(channel) \in Messages
         /\ Head(channel).kind = "event" => Head(channel).of \in Ids
                                             /\ Head(channel) = Event(Head(channel).of)
         /\ Head(channel).kind # "event" => Head(channel).of \in Callers
  <1>1. channel \in Seq(Messages) /\ Len(channel) <= Capacity /\ Len(channel) \in Nat
    BY ChannelType
  <1>2. /\ Tail(channel) \in Seq(Messages) /\ Len(Tail(channel)) = Len(channel) - 1
        /\ Head(channel) \in Messages
    BY <1>1, TailDrops
  <1>3. Head(channel) \in [kind : {"event"}, of : Ids] \/ Head(channel) \in [kind : ControlKinds, of : Callers]
    BY <1>2 DEF Messages
  <1> QED BY <1>1, <1>2, <1>3, WorkerAssumption DEF ControlKinds, Event

(* The log after compaction. *)
LEMMA Compacted ==
  ASSUME Types, LogInv, Compact \/ UNCHANGED <<highest, marked>>
  PROVE  /\ highest' \in 0..MaxEvents /\ marked' \in 0..MaxEvents
         /\ highest' <= admitSeq /\ marked' <= admitSeq
         /\ \A e \in unacked : seq[e] <= highest'
  <1>1. highest \in 0..MaxEvents /\ marked \in 0..MaxEvents /\ admitSeq \in 0..MaxEvents
        /\ unacked \subseteq Ids /\ seq \in [Ids -> 0..MaxEvents] /\ MaxEvents \in Nat
    BY NumberTypes
  <1>2. CASE UNCHANGED <<highest, marked>>
    BY <1>1, <1>2 DEF LogInv
  <1>3. CASE Compact /\ unacked = {}
    BY <1>1, <1>3 DEF Compact, LogInv
  <1>4. CASE Compact /\ unacked # {}
    <2> DEFINE S == {seq[e] : e \in unacked}
    <2>1. S \in SUBSET (0..MaxEvents) /\ S # {}
      BY <1>1, <1>4
    <2>2. Max(S) \in S /\ \A x \in S : x <= Max(S)
      BY <1>1, <2>1, MaxIsGreatest
    <2>3. highest' = Max(S) /\ marked' = marked
      BY <1>4 DEF Compact
    <2> HIDE DEF S
    <2>4. PICK e \in unacked : Max(S) = seq[e]
      BY <2>2 DEF S
    <2>5. \A u \in unacked : seq[u] \in S
      BY DEF S
    <2> QED BY <1>1, <2>2, <2>3, <2>4, <2>5 DEF LogInv
  <1> QED BY <1>2, <1>3, <1>4

(* Where the gate opens, and where it moves. *)
LEMMA GateOpens ==
  ASSUME Types, LogInv, unacked # {}
  PROVE  /\ \E u \in unacked : Min({seq[v] : v \in unacked}) = seq[u]
         /\ \A u \in unacked : Min({seq[v] : v \in unacked}) <= seq[u]
  <1> DEFINE S == {seq[u] : u \in unacked}
  <1>1. S \in SUBSET Nat /\ S # {}
    BY NumberTypes
  <1>2. Min(S) \in S /\ \A x \in S : Min(S) <= x
    BY <1>1, MinIsLeast
  <1> QED BY <1>2

LEMMA GateMoves ==
  ASSUME Types, NEW base \in Nat
  PROVE  /\ GateAfter(base) \in Nat /\ base <= GateAfter(base)
         /\ GateAfter(base) = base \/ \E e \in buffer \cup unacked : GateAfter(base) = seq[e]
         /\ \A e \in unacked : seq[e] < GateAfter(base) => seq[e] < base
  <1>1. Buffered \subseteq Nat /\ unacked \subseteq Ids /\ seq \in [Ids -> Nat]
    BY NumberTypes DEF Buffered
  <1>2. CASE base \in Buffered \/ \A s \in Buffered : s < base
    BY <1>1, <1>2 DEF GateAfter
  <1>3. CASE ~(base \in Buffered \/ \A s \in Buffered : s < base)
    <2> DEFINE S == {s \in Buffered : s > base}
                     \cup {seq[e] : e \in {u \in unacked : seq[u] >= base}}
    <2>1. PICK s \in Buffered : ~(s < base) /\ s # base
      BY <1>3
    <2>2. s \in S
      BY <1>1, <2>1
    <2>3. S \in SUBSET Nat
      BY <1>1
    <2>4. Min(S) \in S /\ \A x \in S : Min(S) <= x
      BY <2>2, <2>3, MinIsLeast
    <2>5. GateAfter(base) = Min(S)
      BY <1>3 DEF GateAfter
    <2>6. \A x \in S : x >= base /\ \E e \in buffer \cup unacked : x = seq[e]
      BY <1>1 DEF Buffered
    <2>7. \A e \in unacked : seq[e] < base \/ seq[e] \in S
      BY <1>1
    <2> HIDE DEF S
    <2>8. \A e \in unacked : seq[e] \in Nat
      BY <1>1
    <2>9. Min(S) \in Nat
      BY <2>3, <2>4
    <2> QED BY <2>4, <2>5, <2>6, <2>7, <2>8, <2>9
  <1> QED BY <1>2, <1>3

LEMMA EmptyQueues ==
  /\ <<>> \in Seq(Ids) /\ <<>> \in Seq(Messages) /\ Len(<<>>) <= Capacity
  BY WorkerAssumption

(* What a start makes of the marker and the file. *)
LEMMA RestartCounts ==
  ASSUME Types, LogInv, NEW m, m = Max({marked, highest})
  PROVE  m \in 0..MaxEvents /\ m <= admitSeq /\ highest <= m /\ marked <= m
  <1>1. {marked, highest} \in SUBSET (0..MaxEvents) /\ {marked, highest} # {} /\ MaxEvents \in Nat
    BY NumberTypes
  <1>2. m \in {marked, highest} /\ \A x \in {marked, highest} : x <= m
    BY <1>1, MaxIsGreatest
  <1> QED BY <1>2, NumberTypes DEF LogInv

LEMMA TypesKeep ==
  ASSUME IInv, [Next]_vars
  PROVE  Types'
  <1> USE DEF logVars, sendVars, loopVars, scanVars, callVars, countVars
  <1>0. /\ LogTypes /\ SendTypes /\ LoopTypes /\ CallTypes
        /\ Types /\ LogInv /\ WorkInv /\ GateInv
    BY DEF IInv, Types
  <1>1. CASE EnqueueAdmit
    <2>5. admitSeq + 1 \in 0..MaxEvents /\ next \in Ids /\ next # 0 /\ next + 1 \in 1..(MaxEvents + 1)
      BY <1>0, <1>1, NumberTypes DEF EnqueueAdmit, LogInv, Ids
    <2>1. LogTypes'
      BY <1>0, <1>1, <2>5, NumberTypes DEF EnqueueAdmit, LogTypes
    <2>2. SendTypes'
      BY <1>0, <1>1, <2>5, NumberTypes DEF EnqueueAdmit, SendTypes
    <2>3. LoopTypes'
      BY <1>0, <1>1 DEF EnqueueAdmit, LoopTypes
    <2>4. CallTypes'
      BY <1>0, <1>1 DEF EnqueueAdmit, CallTypes
    <2> QED BY <2>1, <2>2, <2>3, <2>4 DEF Types
  <1>2. CASE EnqueueSend
    <2>5. moving \in Ids /\ Event(moving) \in Messages
      BY <1>0, <1>2 DEF EnqueueSend, SendTypes, Messages, Event
    <2>6. channel' \in Seq(Messages) /\ Len(channel') <= Capacity
      BY <1>0, <1>2, <2>5, Queued DEF EnqueueSend
    <2>1. LogTypes'
      BY <1>0, <1>2 DEF EnqueueSend, LogTypes
    <2>2. SendTypes'
      BY <1>0, <1>2, <2>5, <2>6, NamesAssumption DEF EnqueueSend, SendTypes, Nobody, Enqueuer
    <2>3. LoopTypes'
      BY <1>0, <1>2 DEF EnqueueSend, LoopTypes
    <2>4. CallTypes'
      BY <1>0, <1>2 DEF EnqueueSend, CallTypes
    <2> QED BY <2>1, <2>2, <2>3, <2>4 DEF Types
  <1>3. CASE EnqueueWalOnly
    <2>1. LogTypes'
      BY <1>0, <1>3 DEF EnqueueWalOnly, LogTypes
    <2>2. SendTypes'
      BY <1>0, <1>3, NamesAssumption DEF EnqueueWalOnly, SendTypes, Nobody, Enqueuer
    <2>3. LoopTypes'
      BY <1>0, <1>3 DEF EnqueueWalOnly, LoopTypes
    <2>4. CallTypes'
      BY <1>0, <1>3 DEF EnqueueWalOnly, CallTypes
    <2> QED BY <2>1, <2>2, <2>3, <2>4 DEF Types
  <1>4. ASSUME NEW c \in Callers, ControlBegin(c) PROVE Types'
    <2>5. Kinds \subseteq ControlKinds /\ next - 1 \in Nat /\ admitSeq \in Nat
      BY <1>0, WorkerAssumption, NumberTypes
    <2>1. LogTypes'
      BY <1>0, <1>4 DEF ControlBegin, LogTypes
    <2>2. SendTypes'
      BY <1>0, <1>4, NamesAssumption DEF ControlBegin, SendTypes, Nobody, Enqueuer
    <2>3. LoopTypes'
      BY <1>0, <1>4 DEF ControlBegin, LoopTypes
    <2>4. CallTypes'
      BY <1>0, <1>4, <2>5 DEF ControlBegin, CallTypes, Answer, CallerStates
    <2> QED BY <2>1, <2>2, <2>3, <2>4 DEF Types
  <1>5. ASSUME NEW c \in Callers, ControlSend(c) PROVE Types'
    <2>5. Control(kind[c], c) \in Messages
      BY <1>0 DEF CallTypes, Messages, Control
    <2>6. channel' \in Seq(Messages) /\ Len(channel') <= Capacity
      BY <1>0, <1>5, <2>5, Queued DEF ControlSend
    <2>1. LogTypes'
      BY <1>0, <1>5 DEF ControlSend, LogTypes
    <2>2. SendTypes'
      BY <1>0, <1>5, <2>6, NamesAssumption DEF ControlSend, SendTypes, Nobody, Enqueuer
    <2>3. LoopTypes'
      BY <1>0, <1>5 DEF ControlSend, LoopTypes
    <2>4. CallTypes'
      BY <1>0, <1>5 DEF ControlSend, CallTypes, Answer, CallerStates
    <2> QED BY <2>1, <2>2, <2>3, <2>4 DEF Types
  <1>6. ASSUME NEW c \in Callers, ControlUnsent(c) PROVE Types'
    <2>1. LogTypes'
      BY <1>0, <1>6 DEF ControlUnsent, LogTypes
    <2>2. SendTypes'
      BY <1>0, <1>6, NamesAssumption DEF ControlUnsent, SendTypes, Reopened, Nobody, Enqueuer
    <2>3. LoopTypes'
      BY <1>0, <1>6 DEF ControlUnsent, LoopTypes
    <2>4. CallTypes'
      BY <1>0, <1>6 DEF ControlUnsent, CallTypes, Answer, CallerStates
    <2> QED BY <2>1, <2>2, <2>3, <2>4 DEF Types
  <1>7. ASSUME NEW c \in Callers, DeadlinePasses(c) PROVE Types'
    <2>1. LogTypes'
      BY <1>0, <1>7 DEF DeadlinePasses, LogTypes
    <2>2. SendTypes'
      BY <1>0, <1>7 DEF DeadlinePasses, SendTypes, Reopened
    <2>3. LoopTypes'
      BY <1>0, <1>7 DEF DeadlinePasses, LoopTypes
    <2>4. CallTypes'
      BY <1>0, <1>7 DEF DeadlinePasses, CallTypes, Answer, CallerStates
    <2> QED BY <2>1, <2>2, <2>3, <2>4 DEF Types
  <1>8. ASSUME NEW c \in Callers, ControlReturn(c) PROVE Types'
    <2>5. highest' \in 0..MaxEvents /\ marked' \in 0..MaxEvents
      BY <1>0, <1>8, Compacted DEF ControlReturn
    <2>1. LogTypes'
      BY <1>0, <1>8, <2>5 DEF ControlReturn, LogTypes
    <2>2. SendTypes'
      BY <1>0, <1>8 DEF ControlReturn, SendTypes, Reopened
    <2>3. LoopTypes'
      BY <1>0, <1>8 DEF ControlReturn, LoopTypes
    <2>4. CallTypes'
      BY <1>0, <1>8 DEF ControlReturn, CallTypes, Answer, CallerStates
    <2> QED BY <2>1, <2>2, <2>3, <2>4 DEF Types
  <1>9. CASE RetryAck
    <2>1. LogTypes'
      BY <1>0, <1>9 DEF RetryAck, LogTypes, Acknowledge
    <2>2. SendTypes'
      BY <1>0, <1>9 DEF RetryAck, SendTypes, Acknowledge
    <2>3. LoopTypes'
      BY <1>0, <1>9 DEF RetryAck, LoopTypes
    <2>4. CallTypes'
      BY <1>0, <1>9 DEF RetryAck, CallTypes
    <2> QED BY <2>1, <2>2, <2>3, <2>4 DEF Types
  <1>10. CASE FetchBuffered
    <2>1. LogTypes'
      BY <1>0, <1>10 DEF FetchBuffered, LogTypes
    <2>2. SendTypes'
      BY <1>0, <1>10 DEF FetchBuffered, SendTypes
    <2>3. LoopTypes'
      BY <1>0, <1>10 DEF FetchBuffered, LoopTypes, Expected, Process
    <2>4. CallTypes'
      BY <1>0, <1>10 DEF FetchBuffered, CallTypes
    <2> QED BY <2>1, <2>2, <2>3, <2>4 DEF Types
  <1>11. CASE FetchTimeout
    <2>1. LogTypes'
      BY <1>0, <1>11 DEF FetchTimeout, LogTypes
    <2>2. SendTypes'
      BY <1>0, <1>11 DEF FetchTimeout, SendTypes
    <2>3. LoopTypes'
      BY <1>0, <1>11 DEF FetchTimeout, LoopTypes
    <2>4. CallTypes'
      BY <1>0, <1>11 DEF FetchTimeout, CallTypes
    <2> QED BY <2>1, <2>2, <2>3, <2>4 DEF Types
  <1>12. CASE ReceiveEvent
    <2>5. channel # <<>> /\ channel' = Tail(channel) /\ Head(channel).kind = "event"
      BY <1>12 DEF ReceiveEvent, Receives
    <2>6. GateFor(Head(channel).of) \in 0..(MaxEvents + 1)
      <3>1. \/ GateFor(Head(channel).of) = nextExpected
            \/ \E u \in Ids : GateFor(Head(channel).of) = seq[u]
        BY <1>0, <2>5, Taken, NumberTypes, GateOpens DEF GateFor
      <3> QED BY <1>0, <3>1, NumberTypes
    <2>7. channel' \in Seq(Messages) /\ Len(channel') <= Capacity /\ Head(channel).of \in Ids
      BY <1>0, <2>5, Taken
    <2>1. LogTypes'
      BY <1>0, <1>12 DEF ReceiveEvent, LogTypes
    <2>2. SendTypes'
      BY <1>0, <1>12, <2>7 DEF ReceiveEvent, SendTypes, Receives
    <2>3. LoopTypes'
      BY <1>0, <1>12, <2>6, <2>7 DEF ReceiveEvent, LoopTypes, Process, Receives
    <2>4. CallTypes'
      BY <1>0, <1>12 DEF ReceiveEvent, CallTypes
    <2> QED BY <2>1, <2>2, <2>3, <2>4 DEF Types
  <1>13. CASE ReceiveUnread
    <2>5. channel' \in Seq(Messages) /\ Len(channel') <= Capacity
      BY <1>0, <1>13, Taken DEF ReceiveUnread, Receives
    <2>1. LogTypes'
      BY <1>0, <1>13 DEF ReceiveUnread, LogTypes
    <2>2. SendTypes'
      BY <1>0, <1>13, <2>5 DEF ReceiveUnread, SendTypes, Receives
    <2>3. LoopTypes'
      BY <1>0, <1>13 DEF ReceiveUnread, LoopTypes, Receives
    <2>4. CallTypes'
      BY <1>0, <1>13 DEF ReceiveUnread, CallTypes
    <2> QED BY <2>1, <2>2, <2>3, <2>4 DEF Types
  <1>14. CASE ReceiveControl
    <2>5. channel' \in Seq(Messages) /\ Len(channel') <= Capacity /\ Head(channel).of \in Callers
      BY <1>0, <1>14, Taken DEF ReceiveControl, Receives
    <2>1. LogTypes'
      BY <1>0, <1>14 DEF ReceiveControl, LogTypes
    <2>2. SendTypes'
      BY <1>0, <1>14, <2>5 DEF ReceiveControl, SendTypes, Receives
    <2>3. LoopTypes'
      BY <1>0, <1>14, <2>5 DEF ReceiveControl, LoopTypes, Receives
    <2>4. CallTypes'
      BY <1>0, <1>14 DEF ReceiveControl, CallTypes
    <2> QED BY <2>1, <2>2, <2>3, <2>4 DEF Types
  <1>15. CASE Drain
    <2>1. LogTypes'
      BY <1>0, <1>15 DEF Drain, LogTypes, Acknowledge
    <2>2. SendTypes'
      BY <1>0, <1>15 DEF Drain, SendTypes, Acknowledge
    <2>3. LoopTypes'
      BY <1>0, <1>15 DEF Drain, LoopTypes, Draining
    <2>4. CallTypes'
      BY <1>0, <1>15 DEF Drain, CallTypes
    <2> QED BY <2>1, <2>2, <2>3, <2>4 DEF Types
  <1>16. CASE Commit
    <2>5. cur \in Ids
      BY <1>0, <1>16 DEF Commit, WorkInv, LogInv, LogTypes
    <2>1. LogTypes'
      BY <1>0, <1>16, <2>5 DEF Commit, LogTypes
    <2>2. SendTypes'
      BY <1>0, <1>16 DEF Commit, SendTypes
    <2>3. LoopTypes'
      BY <1>0, <1>16 DEF Commit, LoopTypes
    <2>4. CallTypes'
      BY <1>0, <1>16 DEF Commit, CallTypes
    <2> QED BY <2>1, <2>2, <2>3, <2>4 DEF Types
  <1>17. CASE NotDurable
    <2>1. LogTypes'
      BY <1>0, <1>17 DEF NotDurable, LogTypes
    <2>2. SendTypes'
      BY <1>0, <1>17 DEF NotDurable, SendTypes
    <2>3. LoopTypes'
      BY <1>0, <1>17 DEF NotDurable, LoopTypes
    <2>4. CallTypes'
      BY <1>0, <1>17 DEF NotDurable, CallTypes
    <2> QED BY <2>1, <2>2, <2>3, <2>4 DEF Types
  <1>18. CASE AckEvent
    <2>5. cur \in Ids
      BY <1>0, <1>18 DEF AckEvent, WorkInv, LogInv, LogTypes
    <2>1. LogTypes'
      BY <1>0, <1>18 DEF AckEvent, LogTypes, Acknowledge
    <2>2. SendTypes'
      BY <1>0, <1>18 DEF AckEvent, SendTypes, Acknowledge
    <2>3. LoopTypes'
      BY <1>0, <1>18, <2>5 DEF AckEvent, LoopTypes
    <2>4. CallTypes'
      BY <1>0, <1>18 DEF AckEvent, CallTypes
    <2> QED BY <2>1, <2>2, <2>3, <2>4 DEF Types
  <1>19. CASE Advance
    <2>5. cur \in Ids /\ seq[cur] + 1 \in Nat /\ seq[cur] + 1 <= MaxEvents + 1
      BY <1>0, <1>19, NumberTypes DEF Advance, WorkInv, LogInv, LogTypes
    <2>6. highest' \in 0..MaxEvents /\ marked' \in 0..MaxEvents
      BY <1>0, <1>19, Compacted DEF Advance
    <2>7. nextExpected' \in 0..(MaxEvents + 1)
      BY <1>0, <1>19, <2>5, GateMoves, NumberTypes DEF Advance
    <2>1. LogTypes'
      BY <1>0, <1>19, <2>6 DEF Advance, LogTypes
    <2>2. SendTypes'
      BY <1>0, <1>19 DEF Advance, SendTypes
    <2>3. LoopTypes'
      BY <1>0, <1>19, <2>7 DEF Advance, LoopTypes
    <2>4. CallTypes'
      BY <1>0, <1>19 DEF Advance, CallTypes
    <2> QED BY <2>1, <2>2, <2>3, <2>4 DEF Types
  <1>20. CASE ScanList
    <2>1. LogTypes'
      BY <1>0, <1>20 DEF ScanList, LogTypes
    <2>2. SendTypes'
      BY <1>0, <1>20 DEF ScanList, SendTypes, LogTypes
    <2>3. LoopTypes'
      BY <1>0, <1>20 DEF ScanList, LoopTypes
    <2>4. CallTypes'
      BY <1>0, <1>20 DEF ScanList, CallTypes
    <2> QED BY <2>1, <2>2, <2>3, <2>4 DEF Types
  <1>21. CASE ScanPrune
    <2>1. LogTypes'
      BY <1>0, <1>21 DEF ScanPrune, LogTypes
    <2>2. SendTypes'
      BY <1>0, <1>21 DEF ScanPrune, SendTypes
    <2>3. LoopTypes'
      BY <1>0, <1>21 DEF ScanPrune, LoopTypes
    <2>4. CallTypes'
      BY <1>0, <1>21 DEF ScanPrune, CallTypes
    <2> QED BY <2>1, <2>2, <2>3, <2>4 DEF Types
  <1>22. CASE ScanQueue
    <2>5. scan = "queueing" => Min(found) \in Ids /\ Min(found) \in found
      BY <1>0, MinIsLeast, NumberTypes DEF SendTypes
    <2>6. /\ channel' \in Seq(Messages) /\ Len(channel') <= Capacity
          /\ inFlight' \subseteq Ids /\ found' \subseteq Ids /\ scan' \in {"idle", "queueing", "ended"}
          /\ scan' = "queueing" => found' # {}
      <3>1. CASE holder = Nobody /\ Room
        <4>1. Event(Min(found)) \in Messages
          BY <1>22, <2>5 DEF ScanQueue, Messages, Event
        <4>2. Append(channel, Event(Min(found))) \in Seq(Messages)
              /\ Len(Append(channel, Event(Min(found)))) <= Capacity
          BY <1>0, <3>1, <4>1, Queued
        <4> QED BY <1>0, <1>22, <2>5, <3>1, <4>2 DEF ScanQueue, SendTypes
      <3>2. CASE ~(holder = Nobody /\ Room)
        <4> HIDE DEF Room, Running
        <4> QED BY <1>0, <1>22, <3>2 DEF ScanQueue, SendTypes
      <3> QED BY <3>1, <3>2
    <2>1. LogTypes'
      BY <1>0, <1>22 DEF ScanQueue, LogTypes
    <2>2. SendTypes'
      BY <1>0, <1>22, <2>5, <2>6 DEF ScanQueue, SendTypes, Nobody
    <2>3. LoopTypes'
      BY <1>0, <1>22 DEF ScanQueue, LoopTypes
    <2>4. CallTypes'
      BY <1>0, <1>22 DEF ScanQueue, CallTypes
    <2> QED BY <2>1, <2>2, <2>3, <2>4 DEF Types
  <1>23. CASE Restart
    <2>5. admitSeq' \in 0..MaxEvents
      BY <1>0, <1>23, RestartCounts DEF Restart
    <2>6. nextExpected' \in 0..(MaxEvents + 1)
      <3>1. nextExpected' = 0 \/ \E u \in unacked : nextExpected' = seq[u]
        BY <1>0, <1>23, GateOpens DEF Restart, Started
      <3> QED BY <1>0, <3>1, NumberTypes
    <2>7. next - 1 \in Nat
      BY <1>0, NumberTypes
    <2>1. LogTypes'
      BY <1>0, <1>23, <2>5 DEF Restart, LogTypes, Started
    <2>2. SendTypes'
      BY <1>0, <1>23, NamesAssumption, EmptyQueues DEF Restart, SendTypes, Started, LogTypes, Nobody, Enqueuer
    <2>3. LoopTypes'
      BY <1>0, <1>23, <2>6, EmptyQueues DEF Restart, LoopTypes, Started, LogTypes
    <2>4. CallTypes'
      BY <1>0, <1>23, <2>7 DEF Restart, CallTypes, Started, CallerStates, ControlKinds
    <2> QED BY <2>1, <2>2, <2>3, <2>4 DEF Types
  <1>24. CASE CheckDeferred \/ ServeControl \/ Halted
    <2>5. channel' \in Seq(Messages) /\ Len(channel') <= Capacity
      BY <1>0, <1>24, EmptyQueues, ControlStep, ChannelType, Taken
    <2>6. behind' = behind /\ pendingAcks' = pendingAcks
      BY <1>24 DEF CheckDeferred, ServeControl, Halted
    <2>1. LogTypes'
      BY <1>0, <1>24, ControlStep DEF LogTypes
    <2>2. SendTypes'
      BY <1>0, <1>24, <2>5, <2>6, ControlStep DEF SendTypes
    <2>3. LoopTypes'
      BY <1>0, <1>24, <2>6, ControlStep, NamesAssumption DEF LoopTypes
    <2>4. CallTypes'
      BY <1>0, <1>24, ControlStep DEF CallTypes, Answered
    <2> QED BY <2>1, <2>2, <2>3, <2>4 DEF Types
  <1>25. CASE UNCHANGED vars
    BY <1>0, <1>25 DEF vars, Types, LogTypes, SendTypes, LoopTypes, CallTypes
  <1> QED
    BY <1>1, <1>2, <1>3, <1>4, <1>5, <1>6, <1>7, <1>8, <1>9, <1>10, <1>11, <1>12, <1>13, <1>14, <1>15, <1>16, <1>17, <1>18, <1>19, <1>20, <1>21, <1>22, <1>23, <1>24, <1>25
       DEF Next, EnqueueStep, CallerStep, WorkerStep, ScanStep

-----------------------------------------------------------------------------
(* What steps do to the log and to the queues *)

LEMMA ChannelGrows ==
  ASSUME Types, NEW m \in Messages, channel' = Append(channel, m)
  PROVE  \A e \in Ids : e \in InChannel' <=> e \in InChannel \/ m = Event(e)
  <1>1. channel \in Seq(Messages)
    BY ChannelType
  <1>2. \A i \in DOMAIN Append(channel, m) :
           Append(channel, m)[i] = m \/ \E j \in DOMAIN channel : Append(channel, m)[i] = channel[j]
    BY <1>1, AppendAdds
  <1>3. \E i \in DOMAIN Append(channel, m) : Append(channel, m)[i] = m
    BY <1>1, AppendAdds
  <1>4. \A j \in DOMAIN channel :
           \E i \in DOMAIN Append(channel, m) : Append(channel, m)[i] = channel[j]
    BY <1>1, AppendAdds
  <1> QED BY <1>2, <1>3, <1>4 DEF InChannel, Event

LEMMA ChannelShrinks ==
  ASSUME Types, channel # <<>>, channel' = Tail(channel)
  PROVE  /\ InChannel' \subseteq InChannel
         /\ \A e \in InChannel : e \in InChannel' \/ Head(channel) = Event(e)
         /\ Head(channel).kind = "event" => Head(channel).of \in InChannel
  <1>1. channel \in Seq(Messages)
    BY ChannelType
  <1>2. /\ \E i \in DOMAIN channel : channel[i] = Head(channel)
        /\ \A i \in DOMAIN channel' : \E j \in DOMAIN channel : channel'[i] = channel[j]
        /\ \A j \in DOMAIN channel : channel[j] = Head(channel)
                                      \/ \E i \in DOMAIN channel' : channel'[i] = channel[j]
    BY <1>1, TailDrops
  <1> QED BY <1>2, Taken DEF InChannel

(* The ACK at the head of the retry queue is confirmed, put last, or given  *)
(* up to a fatal error.                                                     *)
LEMMA Retried ==
  ASSUME Types, RetryAck \/ Drain
  PROVE  /\ UNCHANGED <<seq, highest, marked, done, admitSeq, holder, moving, channel, cur,
                        nextExpected, buffer, replayPending, drained, scanVars, callVars, next>>
         /\ unacked' \subseteq unacked /\ unacked \ unacked' \subseteq Unconfirmed
         /\ Unconfirmed' \subseteq Unconfirmed
         /\ inFlight' \subseteq inFlight
         /\ worker \in {"retry", "drain"} /\ worker' \in {"fetch", "halted", "drain"}
  <1>1. pendingAcks \in Seq(Ids) /\ pendingAcks # <<>>
    BY DEF Types, LoopTypes, RetryAck, Drain, Draining
  <1>2. /\ Head(pendingAcks) \in Unconfirmed /\ Tail(pendingAcks) \in Seq(Ids)
        /\ \A i \in DOMAIN Tail(pendingAcks) : Tail(pendingAcks)[i] \in Unconfirmed
        /\ Head(pendingAcks) \in Ids
    BY <1>1, TailDrops DEF Unconfirmed
  <1>3. \A i \in DOMAIN Append(Tail(pendingAcks), Head(pendingAcks)) :
           Append(Tail(pendingAcks), Head(pendingAcks))[i] \in Unconfirmed
    BY <1>2, AppendAdds
  <1>4. pendingAcks' \in {pendingAcks, Tail(pendingAcks), Append(Tail(pendingAcks), Head(pendingAcks))}
    BY DEF RetryAck, Drain
  <1>5. Unconfirmed' \subseteq Unconfirmed
    BY <1>2, <1>3, <1>4 DEF Unconfirmed
  <1>6. \/ UNCHANGED <<unacked, inFlight>>
        \/ unacked' = unacked \ {Head(pendingAcks)} /\ inFlight' = inFlight \ {Head(pendingAcks)}
    BY DEF RetryAck, Drain, Acknowledge
  <1>7. /\ UNCHANGED <<seq, highest, marked, done, admitSeq, holder, moving, channel, cur,
                       nextExpected, buffer, replayPending, drained, scanVars, callVars, next>>
        /\ worker \in {"retry", "drain"} /\ worker' \in {"fetch", "halted", "drain"}
    BY DEF RetryAck, Drain, sendVars
  <1> QED BY <1>2, <1>5, <1>6, <1>7

(* The event at work is acknowledged, or its ACK is put off, or given up.   *)
LEMMA Acked ==
  ASSUME Types, cur \in Ids, AckEvent
  PROVE  /\ UNCHANGED <<seq, highest, marked, done, admitSeq, holder, moving, channel, cur,
                        nextExpected, buffer, replayPending, drained, scanVars, callVars, next>>
         /\ unacked' \subseteq unacked /\ unacked \ unacked' \subseteq {cur}
         /\ Unconfirmed' \subseteq Unconfirmed \cup {cur}
         /\ inFlight' \subseteq inFlight
         /\ worker = "ack"
         /\ \/ worker' = "advance"
            \/ worker' = "halted" /\ unacked' = unacked /\ Unconfirmed' = Unconfirmed
  <1>1. pendingAcks \in Seq(Ids)
    BY DEF Types, LoopTypes
  <1>2. \A i \in DOMAIN Append(pendingAcks, cur) : Append(pendingAcks, cur)[i] \in Unconfirmed \cup {cur}
    BY <1>1, AppendAdds DEF Unconfirmed
  <1>3. pendingAcks' \in {pendingAcks, Append(pendingAcks, cur)}
        /\ (worker' = "halted" => pendingAcks' = pendingAcks)
    BY DEF AckEvent
  <1>4. Unconfirmed' \subseteq Unconfirmed \cup {cur} /\ (worker' = "halted" => Unconfirmed' = Unconfirmed)
    BY <1>2, <1>3 DEF Unconfirmed
  <1>5. \/ UNCHANGED <<unacked, inFlight>>
        \/ unacked' = unacked \ {cur} /\ inFlight' = inFlight \ {cur} /\ worker' # "halted"
    BY DEF AckEvent, Acknowledge
  <1>6. /\ UNCHANGED <<seq, highest, marked, done, admitSeq, holder, moving, channel, cur,
                       nextExpected, buffer, replayPending, drained, scanVars, callVars, next>>
        /\ worker = "ack" /\ worker' \in {"advance", "halted"}
    BY DEF AckEvent, sendVars
  <1> QED BY <1>4, <1>5, <1>6

(* All other steps leave the log as it is. *)
LEMMA LogSteps ==
  ASSUME Types, [Next]_vars
  PROVE  \/ EnqueueAdmit \/ (\E c \in Callers : ControlReturn(c)) \/ RetryAck \/ Drain
         \/ Commit \/ AckEvent \/ Advance \/ Restart
         \/ UNCHANGED <<seq, unacked, highest, marked, done, admitSeq, next>>
  <1> USE DEF logVars, countVars
  <1>1. ASSUME NEW c \in Callers,
               ControlBegin(c) \/ ControlSend(c) \/ ControlUnsent(c) \/ DeadlinePasses(c)
        PROVE  UNCHANGED <<seq, unacked, highest, marked, done, admitSeq, next>>
    BY <1>1 DEF ControlBegin, ControlSend, ControlUnsent, DeadlinePasses
  <1>2. CASE EnqueueSend \/ EnqueueWalOnly \/ ScanStep
    BY <1>2 DEF EnqueueSend, EnqueueWalOnly, ScanStep, ScanList, ScanPrune, ScanQueue
  <1>3. CASE CheckDeferred \/ ServeControl \/ Halted
    BY <1>3, ControlStep
  <1>4. CASE FetchBuffered \/ FetchTimeout \/ ReceiveEvent \/ ReceiveUnread \/ ReceiveControl \/ NotDurable
    BY <1>4 DEF FetchBuffered, FetchTimeout, ReceiveEvent, ReceiveUnread, ReceiveControl, NotDurable
  <1>5. CASE UNCHANGED vars
    BY <1>5 DEF vars
  <1> QED BY <1>1, <1>2, <1>3, <1>4, <1>5 DEF Next, EnqueueStep, CallerStep, WorkerStep

LEMMA LogKeeps ==
  ASSUME IInv, [Next]_vars
  PROVE  LogInv'
  <1>0. Types /\ LogInv /\ WorkInv /\ GateInv
    BY DEF IInv
  <1>1. CASE EnqueueAdmit
    <2>1. /\ next \in Ids /\ Admitted' = Admitted \cup {next} /\ next \notin Admitted
          /\ Admitted \subseteq Ids
      BY <1>0, <1>1, NumberTypes DEF EnqueueAdmit, Ids, Admitted
    <2>2. /\ seq'[next] = admitSeq + 1 /\ \A e \in Admitted : seq'[e] = seq[e]
          /\ \A e \in Ids : seq[e] \in Nat
      BY <1>0, <1>1, <2>1, NumberTypes DEF EnqueueAdmit
    <2>3. \A e \in unacked' : seq'[e] <= highest'
      BY <1>0, <1>1, <2>1, <2>2, NumberTypes DEF EnqueueAdmit, LogInv
    <2> QED BY <1>0, <1>1, <2>1, <2>2, <2>3, NumberTypes DEF EnqueueAdmit, LogInv, sendVars
  <1>2. ASSUME NEW c \in Callers, ControlReturn(c) PROVE LogInv'
    BY <1>0, <1>2, Compacted DEF ControlReturn, LogInv, Admitted, countVars
  <1>3. CASE RetryAck \/ Drain
    BY <1>0, <1>3, Retried DEF LogInv, GateInv, Admitted
  <1>4. CASE Commit
    BY <1>0, <1>4 DEF Commit, LogInv, WorkInv, AtWork, Admitted, countVars
  <1>5. CASE AckEvent
    <2>1. cur \in Ids /\ cur \in done
      BY <1>0, <1>5, NumberTypes DEF AckEvent, WorkInv, LogInv
    <2> QED BY <1>0, <1>5, <2>1, Acked DEF LogInv, Admitted
  <1>6. CASE Advance
    BY <1>0, <1>6, Compacted DEF Advance, LogInv, Admitted
  <1>7. CASE Restart
    <2>1. /\ highest <= admitSeq' /\ marked <= admitSeq' /\ admitSeq' <= admitSeq /\ admitSeq' \in 0..MaxEvents
      BY <1>0, <1>7, RestartCounts DEF Restart
    <2> QED BY <1>0, <1>7, <2>1, NumberTypes DEF Restart, LogInv, Admitted
  <1>8. CASE UNCHANGED <<seq, unacked, highest, marked, done, admitSeq, next>>
    BY <1>0, <1>8 DEF LogInv, Admitted
  <1> QED BY <1>0, <1>1, <1>2, <1>3, <1>4, <1>5, <1>6, <1>7, <1>8, LogSteps

-----------------------------------------------------------------------------
(* What steps do to the worker's loop *)

(* The worker takes an event, or puts it into the buffer or skips it.  The  *)
(* first one opens the gate at the lowest number that is pending.           *)
LEMMA Fetched ==
  ASSUME IInv, FetchBuffered \/ ReceiveEvent
  PROVE  /\ UNCHANGED <<logVars, next, holder, moving, inFlight, pendingAcks, replayPending, drained,
                        scanVars, callVars>>
         /\ worker = "fetch" /\ cur = 0
         /\ nextExpected # 0 => nextExpected' = nextExpected
         /\ nextExpected = 0 => \A u \in unacked : nextExpected' <= seq[u]
         /\ nextExpected' \in Nat /\ nextExpected' <= admitSeq + 1
         /\ \/ worker' = "exec" /\ cur' \in unacked /\ seq[cur'] = nextExpected'
            \/ worker' = "control" /\ cur' = cur
         /\ buffer' \subseteq buffer \cup InChannel
         /\ InChannel' \subseteq InChannel
         /\ \A e \in buffer \cup InChannel :
               e \in buffer' \/ e \in InChannel' \/ e = cur' \/ (e \in unacked => e \in done)
  <1>0. Types /\ LogInv /\ WorkInv /\ GateInv
    BY DEF IInv
  <1>1. worker = "fetch" /\ cur = 0
    BY <1>0 DEF FetchBuffered, ReceiveEvent, Receives, WorkInv, AtWork, Ended
  <1>2. \A e \in buffer \cup InChannel : e \in unacked \/ seq[e] < nextExpected
    BY <1>0, <1>1 DEF GateInv, Passed, Coming
  <1>3. /\ admitSeq \in Nat /\ nextExpected \in Nat /\ nextExpected <= admitSeq + 1
        /\ \A e \in Ids : seq[e] \in Nat
        /\ \A u \in unacked : u \in Ids /\ seq[u] <= admitSeq
        /\ buffer \subseteq Ids
    BY <1>0, NumberTypes DEF LogInv, GateInv
  <1>4. CASE FetchBuffered
    <2>1. PICK e \in Expected : Process(e) /\ buffer' = buffer \ {e}
      BY <1>4 DEF FetchBuffered
    <2>2. e \in unacked /\ seq[e] = nextExpected
      BY <1>2, <1>3, <2>1 DEF Expected
    <2>3. UNCHANGED <<logVars, next, holder, moving, channel, inFlight, nextExpected, pendingAcks,
                      replayPending, drained, scanVars, callVars>>
      BY <1>4 DEF FetchBuffered, sendVars, countVars
    <2>4. InChannel' = InChannel
      BY <2>3 DEF InChannel
    <2>5. nextExpected = 0 => \A u \in unacked : nextExpected' <= seq[u]
      BY <1>3, <2>3
    <2> QED BY <1>1, <1>3, <2>1, <2>2, <2>3, <2>4, <2>5 DEF Process
  <1>5. CASE ReceiveEvent
    <2> DEFINE e == Head(channel).of
               g == GateFor(e)
    <2>1. /\ channel # <<>> /\ channel' = Tail(channel) /\ Head(channel).kind = "event"
          /\ nextExpected' = g
          /\ UNCHANGED <<logVars, next, holder, moving, inFlight, pendingAcks, replayPending, drained,
                         scanVars, callVars>>
      BY <1>5 DEF ReceiveEvent, Receives, countVars
    <2>2. /\ e \in Ids /\ e \in InChannel /\ InChannel' \subseteq InChannel
          /\ \A f \in InChannel : f \in InChannel' \/ f = e
      BY <1>0, <2>1, ChannelShrinks, Taken DEF Event
    <2>3. nextExpected # 0 => g = nextExpected
      BY DEF GateFor
    <2>4. nextExpected = 0 => e \in unacked
      BY <1>2, <1>3, <2>2
    <2>5. nextExpected = 0 => /\ \E u \in unacked : g = seq[u]
                              /\ \A u \in unacked : g <= seq[u]
      BY <1>0, <2>4, GateOpens DEF GateFor
    <2>6. g \in Nat /\ g <= admitSeq + 1
      BY <1>3, <2>3, <2>5
    <2>7. e \in unacked /\ seq[e] < g => e \in done
      BY <1>0, <1>3, <2>2, <2>3, <2>5, <2>6 DEF GateInv
    <2>8. seq[e] = g => e \in unacked
      BY <1>2, <1>3, <2>2, <2>3, <2>4
    <2>9. \/ seq[e] = g /\ worker' = "exec" /\ cur' = e /\ buffer' = buffer
          \/ worker' = "control" /\ cur' = cur /\ buffer' = buffer \cup {e}
          \/ seq[e] < g /\ worker' = "control" /\ cur' = cur /\ buffer' = buffer
      BY <1>5 DEF ReceiveEvent, Process
    <2> HIDE DEF e, g
    <2>10. /\ buffer' \subseteq buffer \cup InChannel
           /\ \A f \in buffer \cup InChannel :
                 f \in buffer' \/ f \in InChannel' \/ f = cur' \/ (f \in unacked => f \in done)
      BY <2>2, <2>7, <2>9
    <2>11. \/ worker' = "exec" /\ cur' \in unacked /\ seq[cur'] = nextExpected'
           \/ worker' = "control" /\ cur' = cur
      BY <2>1, <2>8, <2>9
    <2> QED BY <1>1, <2>1, <2>2, <2>3, <2>5, <2>6, <2>10, <2>11
  <1> QED BY <1>4, <1>5

(* All other steps leave the gate and what the worker has as it is. *)
LEMMA LoopSteps ==
  ASSUME Types, [Next]_vars
  PROVE  \/ FetchBuffered \/ ReceiveEvent \/ RetryAck \/ Drain
         \/ Commit \/ NotDurable \/ AckEvent \/ Advance \/ Restart
         \/ /\ UNCHANGED <<cur, nextExpected, buffer, replayPending, drained, Unconfirmed>>
            /\ worker' = worker \/ (~AtWork /\ ~AtWork' /\ (Ended => Ended'))
  <1> USE DEF loopVars
  <1>1. ASSUME NEW c \in Callers,
               ControlBegin(c) \/ ControlSend(c) \/ ControlUnsent(c) \/ DeadlinePasses(c) \/ ControlReturn(c)
        PROVE  UNCHANGED <<worker, loopVars>>
    BY <1>1 DEF ControlBegin, ControlSend, ControlUnsent, DeadlinePasses, ControlReturn
  <1>2. CASE EnqueueAdmit \/ EnqueueSend \/ EnqueueWalOnly \/ ScanStep
    BY <1>2 DEF EnqueueAdmit, EnqueueSend, EnqueueWalOnly, ScanStep, ScanList, ScanPrune, ScanQueue,
                Unconfirmed
  <1>3. CASE CheckDeferred \/ ServeControl \/ Halted
    BY <1>3, ControlStep DEF AtWork, Ended, Unconfirmed
  <1>4. CASE FetchTimeout \/ ReceiveUnread \/ ReceiveControl
    BY <1>4 DEF FetchTimeout, ReceiveUnread, ReceiveControl, Receives, AtWork, Ended, Unconfirmed
  <1>5. CASE UNCHANGED vars
    BY <1>5 DEF vars, Unconfirmed
  <1>6. UNCHANGED <<worker, loopVars>> =>
           UNCHANGED <<cur, nextExpected, buffer, replayPending, drained, Unconfirmed>> /\ worker' = worker
    BY DEF Unconfirmed
  <1> QED BY <1>1, <1>2, <1>3, <1>4, <1>5, <1>6 DEF Next, EnqueueStep, CallerStep, WorkerStep

(* Whatever comes to the worker has been on its way, or is pending. *)
LEMMA ComingSteps ==
  ASSUME IInv, [Next]_vars
  PROVE  \A e \in Coming' : e \in Coming \/ e \in unacked'
  <1> USE DEF sendVars, scanVars, loopVars
  <1>0. Types /\ SendTypes
    BY DEF IInv, Types
  <1>1. UNCHANGED channel => InChannel' = InChannel
    BY DEF InChannel
  <1>2. CASE EnqueueAdmit
    BY <1>1, <1>2 DEF EnqueueAdmit, Coming
  <1>3. CASE EnqueueSend
    <2>1. moving \in Ids /\ moving # 0 /\ Event(moving) \in Messages
      BY <1>0, <1>3, NamesAssumption DEF EnqueueSend, SendTypes, Messages, Event
    <2>2. \A e \in Ids : e \in InChannel' <=> e \in InChannel \/ e = moving
      BY <1>0, <1>3, <2>1, ChannelGrows DEF EnqueueSend, Event
    <2> QED BY <1>3, <2>1, <2>2 DEF EnqueueSend, Coming, InChannel
  <1>4. CASE EnqueueWalOnly
    BY <1>1, <1>4 DEF EnqueueWalOnly, Coming
  <1>5. ASSUME NEW c \in Callers,
               ControlBegin(c) \/ ControlUnsent(c) \/ DeadlinePasses(c) \/ ControlReturn(c)
        PROVE  Coming' = Coming
    BY <1>1, <1>5 DEF ControlBegin, ControlUnsent, DeadlinePasses, ControlReturn, Coming
  <1>6. ASSUME NEW c \in Callers, ControlSend(c) PROVE Coming' = Coming
    <2>1. Control(kind[c], c) \in Messages /\ \A e \in Ids : Control(kind[c], c) # Event(e)
      BY <1>0 DEF Types, CallTypes, Messages, Control, Event, ControlKinds
    <2>2. InChannel' = InChannel
      <3>1. \A e \in Ids : e \in InChannel' <=> e \in InChannel
        BY <1>0, <1>6, <2>1, ChannelGrows DEF ControlSend
      <3> QED BY <3>1 DEF InChannel
    <2> QED BY <1>6, <2>2 DEF ControlSend, Coming
  <1>7. CASE CheckDeferred \/ ServeControl \/ Halted
    <2>1. UNCHANGED <<buffer, moving, found>>
      BY <1>0, <1>7, ControlStep
    <2>2. InChannel' \subseteq InChannel
      <3>1. channel' = channel \/ channel' = <<>> \/ (channel # <<>> /\ channel' = Tail(channel))
        BY <1>0, <1>7, ControlStep
      <3>2. channel' = <<>> => InChannel' = {}
        BY DEF InChannel
      <3> QED BY <1>0, <1>1, <3>1, <3>2, ChannelShrinks
    <2> QED BY <2>1, <2>2 DEF Coming
  <1>8. CASE RetryAck \/ Drain \/ AckEvent \/ Commit \/ NotDurable \/ Advance \/ FetchTimeout
    BY <1>1, <1>8 DEF RetryAck, Drain, AckEvent, Commit, NotDurable, Advance, FetchTimeout, Coming
  <1>9. CASE FetchBuffered \/ ReceiveEvent
    BY <1>9, Fetched DEF Coming
  <1>10. CASE ReceiveUnread \/ ReceiveControl
    BY <1>0, <1>10, ChannelShrinks DEF ReceiveUnread, ReceiveControl, Receives, Coming
  <1>11. CASE ScanList \/ ScanPrune
    BY <1>1, <1>11 DEF ScanList, ScanPrune, logVars, Coming
  <1>12. CASE ScanQueue
    <2>1. Min(found) \in found /\ Min(found) \in Ids
      BY <1>0, <1>12, MinIsLeast, NumberTypes DEF ScanQueue, SendTypes
    <2>2. CASE channel' = Append(channel, Event(Min(found))) /\ found' \subseteq found
      <3>1. \A e \in Ids : e \in InChannel' => e \in InChannel \/ e = Min(found)
        BY <1>0, <2>1, <2>2, ChannelGrows DEF Messages, Event
      <3> QED BY <1>12, <2>1, <2>2, <3>1 DEF ScanQueue, Coming, InChannel
    <2>3. CASE UNCHANGED channel /\ found' \subseteq found
      BY <1>1, <1>12, <2>3 DEF ScanQueue, Coming
    <2> QED BY <1>12, <2>2, <2>3 DEF ScanQueue
  <1>13. CASE Restart
    BY <1>13 DEF Restart, Started, Coming, InChannel
  <1>14. CASE UNCHANGED vars
    BY <1>1, <1>14 DEF vars, Coming
  <1> QED
    BY <1>2, <1>3, <1>4, <1>5, <1>6, <1>7, <1>8, <1>9, <1>10, <1>11, <1>12, <1>13, <1>14
       DEF Next, EnqueueStep, CallerStep, WorkerStep, ScanStep

-----------------------------------------------------------------------------
(* The other parts of the invariant *)

LEMMA OrderKeeps ==
  ASSUME IInv, [Next]_vars
  PROVE  OrderInv'
  <1>0. Types /\ LogInv /\ WorkInv /\ GateInv /\ OrderInv
    BY DEF IInv
  <1>1. CASE EnqueueAdmit
    <2>1. /\ next \in Ids /\ next \notin unacked /\ unacked' = unacked \cup {next}
          /\ \A e \in unacked : e \in Ids /\ e < next
          /\ AtWork => cur < next /\ cur \in Ids
      BY <1>0, <1>1, NumberTypes DEF EnqueueAdmit, LogInv, WorkInv, Ids, Admitted
    <2>2. /\ seq'[next] = admitSeq + 1 /\ \A e \in Ids : e # next => seq'[e] = seq[e]
          /\ \A e \in unacked : seq[e] <= admitSeq /\ seq[e] \in Nat
          /\ admitSeq \in Nat
      BY <1>0, <1>1, <2>1, NumberTypes DEF EnqueueAdmit, LogInv
    <2>3. AtWork => seq[cur] <= admitSeq /\ seq[cur] \in Nat
      BY <1>0, <2>1, NumberTypes DEF WorkInv
    <2>4. AtWork' = AtWork /\ cur' = cur
      BY <1>1 DEF EnqueueAdmit, AtWork, loopVars
    <2>5. \A e, f \in unacked' : e < f => seq'[e] < seq'[f]
      BY <1>0, <2>1, <2>2, NumberTypes DEF OrderInv, Ids
    <2>6. AtWork => \A e \in unacked' : /\ e < cur => seq'[e] < seq'[cur]
                                        /\ cur < e => seq'[cur] < seq'[e]
      BY <1>0, <2>1, <2>2, <2>3, NumberTypes DEF OrderInv, Ids
    <2> QED BY <2>4, <2>5, <2>6 DEF OrderInv
  <1>2. CASE RetryAck \/ Drain
    BY <1>0, <1>2, Retried DEF OrderInv, AtWork
  <1>3. CASE AckEvent
    <2>1. cur \in Ids
      BY <1>0, <1>3, NumberTypes DEF AckEvent, WorkInv
    <2> QED BY <1>0, <1>3, <2>1, Acked DEF OrderInv, AtWork
  <1>4. CASE FetchBuffered \/ ReceiveEvent
    BY <1>0, <1>4, Fetched DEF OrderInv, AtWork, logVars
  <1>5. CASE Commit \/ NotDurable \/ Advance
    BY <1>0, <1>5 DEF Commit, NotDurable, Advance, OrderInv, AtWork, logVars, loopVars
  <1>6. CASE Restart
    BY <1>0, <1>6 DEF Restart, Started, OrderInv, AtWork
  <1>7. CASE UNCHANGED <<seq, unacked, cur>> /\ (AtWork' => AtWork)
    BY <1>0, <1>7 DEF OrderInv
  <1>8. ASSUME NEW c \in Callers, ControlReturn(c) PROVE UNCHANGED <<seq, unacked>>
    BY <1>8 DEF ControlReturn
  <1>9. UNCHANGED worker => AtWork' = AtWork
    BY DEF AtWork
  <1> QED BY <1>0, <1>1, <1>2, <1>3, <1>4, <1>5, <1>6, <1>7, <1>8, <1>9, LogSteps, LoopSteps

LEMMA WorkKeeps ==
  ASSUME IInv, [Next]_vars
  PROVE  WorkInv'
  <1>0. Types /\ LogInv /\ WorkInv /\ GateInv
    BY DEF IInv
  <1>1. CASE EnqueueAdmit
    <2>1. AtWork => cur \in Admitted' /\ seq'[cur] = seq[cur] /\ seq[cur] <= admitSeq'
      BY <1>0, <1>1, NumberTypes DEF EnqueueAdmit, WorkInv, Admitted, Ids
    <2> QED BY <1>0, <1>1, <2>1 DEF EnqueueAdmit, WorkInv, AtWork, Ended, loopVars
  <1>2. CASE RetryAck \/ Drain
    BY <1>0, <1>2, Retried DEF WorkInv, AtWork, Ended
  <1>3. CASE AckEvent
    <2>1. cur \in Ids
      BY <1>0, <1>3, NumberTypes DEF AckEvent, WorkInv
    <2> QED BY <1>0, <1>3, <2>1, Acked DEF WorkInv, AtWork, Ended, Admitted
  <1>4. CASE FetchBuffered \/ ReceiveEvent
    <2>1. \A e \in unacked : e \in Admitted /\ seq[e] <= admitSeq
      BY <1>0, NumberTypes DEF LogInv
    <2> QED BY <1>0, <1>4, <2>1, Fetched DEF WorkInv, AtWork, Ended, logVars, Admitted
  <1>5. CASE Commit \/ NotDurable \/ Advance
    BY <1>0, <1>5 DEF Commit, NotDurable, Advance, WorkInv, AtWork, Ended, logVars, loopVars,
                      countVars, Admitted
  <1>6. CASE Restart
    BY <1>6 DEF Restart, Started, WorkInv, AtWork, Ended
  <1>7. CASE UNCHANGED <<seq, unacked, done, admitSeq, next, cur, nextExpected>>
             /\ (worker' = worker \/ (~AtWork /\ ~AtWork' /\ (Ended => Ended')))
    BY <1>0, <1>7 DEF WorkInv, AtWork, Ended, Admitted
  <1>8. ASSUME NEW c \in Callers, ControlReturn(c) PROVE UNCHANGED <<seq, unacked, done, admitSeq, next>>
    BY <1>8 DEF ControlReturn, countVars
  <1> QED BY <1>0, <1>1, <1>2, <1>3, <1>4, <1>5, <1>6, <1>7, <1>8, LogSteps, LoopSteps

(* A number the gate has passed stays passed, but for a restart. *)
LEMMA GateStays ==
  ASSUME IInv, Advance
  PROVE  /\ cur \in Ids /\ seq[cur] = nextExpected /\ cur \in done
         /\ nextExpected' \in Nat /\ seq[cur] < nextExpected' /\ nextExpected' <= admitSeq + 1
         /\ \A e \in unacked : seq[e] < nextExpected' => seq[e] <= seq[cur]
  <1>0. Types /\ LogInv /\ WorkInv /\ GateInv
    BY DEF IInv
  <1>1. /\ cur \in Ids /\ seq[cur] = nextExpected /\ cur \in done /\ seq[cur] <= admitSeq
        /\ seq[cur] \in Nat /\ admitSeq \in Nat /\ \A e \in Ids : seq[e] \in Nat
        /\ unacked \subseteq Ids /\ buffer \subseteq Ids
    BY <1>0, NumberTypes DEF Advance, WorkInv, AtWork, LogInv, Types, LogTypes
  <1>2. \A e \in buffer \cup unacked : seq[e] <= admitSeq
    <2>1. \A e \in buffer : e \in unacked \/ e = cur \/ seq[e] < nextExpected
      BY <1>0 DEF GateInv, Coming, Passed
    <2>2. \A e \in unacked : seq[e] <= admitSeq
      BY <1>0, <1>1, NumberTypes DEF LogInv
    <2> QED BY <1>1, <2>1, <2>2
  <1> DEFINE base == seq[cur] + 1
  <1>3. base \in Nat /\ seq[cur] < base /\ base <= admitSeq + 1
        /\ \A e \in unacked : seq[e] < base => seq[e] <= seq[cur]
    BY <1>1
  <1>4. nextExpected' = base \/ nextExpected' = GateAfter(base)
    BY DEF Advance
  <1> HIDE DEF base
  <1>5. CASE nextExpected' = base
    BY <1>1, <1>3, <1>5
  <1>6. CASE nextExpected' = GateAfter(base)
    <2>1. /\ GateAfter(base) \in Nat /\ base <= GateAfter(base)
          /\ GateAfter(base) = base \/ \E e \in buffer \cup unacked : GateAfter(base) = seq[e]
          /\ \A e \in unacked : seq[e] < GateAfter(base) => seq[e] < base
      BY <1>0, <1>3, GateMoves
    <2>2. GateAfter(base) <= admitSeq + 1
      BY <1>1, <1>2, <1>3, <2>1
    <2> QED BY <1>1, <1>3, <1>6, <2>1, <2>2
  <1> QED BY <1>4, <1>5, <1>6

(* The log only grows by the next event. *)
LEMMA LogMoves ==
  ASSUME IInv, [Next]_vars
  PROVE  /\ next' \in Nat /\ next <= next' /\ done \subseteq done'
         /\ \A e \in unacked' : e = next \/ (e \in unacked /\ seq'[e] = seq[e])
  <1>0. Types /\ LogInv /\ WorkInv
    BY DEF IInv
  <1>t. next \in Nat /\ next + 1 \in Nat /\ unacked \subseteq Ids /\ seq \in [Ids -> Nat]
    BY <1>0, NumberTypes
  <1>1. CASE EnqueueAdmit
    BY <1>t, <1>1 DEF EnqueueAdmit
  <1>2. CASE RetryAck \/ Drain
    BY <1>0, <1>t, <1>2, Retried
  <1>3. CASE AckEvent
    <2>1. cur \in Ids
      BY <1>0, <1>3, NumberTypes DEF AckEvent, WorkInv
    <2> QED BY <1>0, <1>t, <1>3, <2>1, Acked
  <1>4. CASE Commit \/ Advance \/ Restart \/ \E c \in Callers : ControlReturn(c)
    <2>1. UNCHANGED <<seq, unacked, next>> /\ done \subseteq done'
      BY <1>4 DEF Commit, Advance, Restart, ControlReturn, countVars
    <2> QED BY <1>t, <2>1
  <1>5. CASE UNCHANGED <<seq, unacked, highest, marked, done, admitSeq, next>>
    BY <1>t, <1>5
  <1> QED BY <1>0, <1>1, <1>2, <1>3, <1>4, <1>5, LogSteps

LEMMA ComingAdmitted ==
  ASSUME IInv, [Next]_vars
  PROVE  Coming' \subseteq Admitted'
  <1>1. Coming \subseteq Admitted /\ next \in Nat
    BY NumberTypes DEF IInv, GateInv
  <1>2. Admitted \subseteq Admitted'
    BY <1>1, LogMoves DEF Admitted
  <1>3. unacked' \subseteq Admitted'
    BY LogKeeps DEF LogInv
  <1> QED BY <1>1, <1>2, <1>3, ComingSteps

LEMMA GateKeeps ==
  ASSUME IInv, [Next]_vars
  PROVE  GateInv'
  <1>0. /\ Coming' \subseteq Admitted' /\ Types /\ LogInv /\ OrderInv /\ WorkInv /\ GateInv
        /\ \A e \in Coming' : e \in Coming \/ e \in unacked'
    BY ComingSteps, ComingAdmitted DEF IInv
  <1>t. /\ nextExpected \in Nat /\ admitSeq \in Nat /\ \A e \in Ids : seq[e] \in Nat
        /\ unacked \subseteq Ids /\ done \subseteq Ids /\ Coming \subseteq Ids /\ next \in Nat
    <2>1. moving \in Ids \cup {0} /\ InChannel \subseteq Ids
      BY <1>0 DEF Types, SendTypes, InChannel
    <2> QED BY <1>0, <2>1, NumberTypes DEF Coming, Types, LogTypes
  <1>1. CASE EnqueueAdmit
    <2>1. /\ next \in Ids /\ next \notin unacked /\ next \notin done /\ unacked' = unacked \cup {next}
          /\ seq'[next] = admitSeq + 1 /\ \A e \in Ids : e # next => seq'[e] = seq[e]
          /\ admitSeq' = admitSeq + 1
      BY <1>0, <1>1, NumberTypes DEF EnqueueAdmit, LogInv, Admitted, Ids
    <2>2. /\ UNCHANGED <<done, worker, cur, nextExpected>> /\ Unconfirmed' = Unconfirmed
      BY <1>1 DEF EnqueueAdmit, loopVars, Unconfirmed
    <2>3. \A e \in Ids : e # next /\ Passed(e) => Passed(e)'
      BY <2>1, <2>2 DEF Passed
    <2>4. \A e \in Coming' : e \in unacked' \/ Passed(e)'
      BY <1>0, <1>t, <2>1, <2>3 DEF GateInv
    <2>5. \A e \in Unconfirmed' : e \in done' /\ Passed(e)'
      BY <1>0, <1>t, <2>1, <2>2, <2>3 DEF GateInv
    <2>6. nextExpected' # 0 => \A e \in unacked' : seq'[e] < nextExpected' => e \in done'
      BY <1>0, <1>t, <2>1, <2>2 DEF GateInv
    <2> QED BY <1>0, <1>t, <2>1, <2>2, <2>4, <2>5, <2>6 DEF GateInv
  <1>2. CASE RetryAck \/ Drain
    <2>1. \A e \in Ids : Passed(e) => Passed(e)'
      BY <1>0, <1>2, Retried DEF Passed
    <2>2. \A e \in unacked : e \in unacked' \/ e \in Unconfirmed
      BY <1>0, <1>2, Retried
    <2> QED BY <1>0, <1>2, <1>t, <2>1, <2>2, Retried DEF GateInv
  <1>3. CASE AckEvent
    <2>1. cur \in Ids /\ cur \in done
      BY <1>0, <1>3, NumberTypes DEF AckEvent, WorkInv
    <2>2. \A e \in Ids : Passed(e) => Passed(e)'
      BY <1>0, <1>3, <2>1, Acked DEF Passed
    <2>3. worker' = "advance" => Passed(cur)'
      BY <1>0, <1>3, <2>1, Acked DEF Passed
    <2>4. \A e \in Unconfirmed' : e \in done' /\ Passed(e)'
      BY <1>0, <1>t, <1>3, <2>1, <2>2, <2>3, Acked DEF GateInv
    <2>5. \A e \in Coming' : e \in unacked' \/ Passed(e)'
      BY <1>0, <1>t, <1>3, <2>1, <2>2, <2>3, Acked DEF GateInv
    <2> QED BY <1>0, <1>3, <2>1, <2>4, <2>5, Acked DEF GateInv
  <1>4. CASE FetchBuffered \/ ReceiveEvent
    <2>1. \A e \in Ids : Passed(e) => Passed(e)'
      BY <1>0, <1>4, <1>t, Fetched DEF Passed, logVars
    <2>2. nextExpected' # 0 => \A e \in unacked' : seq'[e] < nextExpected' => e \in done'
      BY <1>0, <1>4, <1>t, Fetched DEF GateInv, logVars
    <2>3. Unconfirmed' = Unconfirmed
      BY <1>4, Fetched DEF Unconfirmed
    <2> QED BY <1>0, <1>4, <1>t, <2>1, <2>2, <2>3, Fetched DEF GateInv, logVars
  <1>5. CASE Commit \/ NotDurable
    <2>1. UNCHANGED <<seq, unacked, admitSeq, nextExpected>> /\ done \subseteq done'
          /\ worker # "advance" /\ Unconfirmed' = Unconfirmed
      BY <1>5 DEF Commit, NotDurable, logVars, loopVars, Unconfirmed
    <2>2. \A e : Passed(e) => Passed(e)'
      BY <2>1 DEF Passed
    <2> QED BY <1>0, <2>1, <2>2 DEF GateInv
  <1>6. CASE Advance
    <2>1. UNCHANGED <<seq, unacked, done, admitSeq>> /\ Unconfirmed' = Unconfirmed
      BY <1>6 DEF Advance, Unconfirmed
    <2>2. \A e \in Ids : Passed(e) => Passed(e)'
      BY <1>6, <1>t, <2>1, GateStays DEF Passed
    <2>3. \A e \in unacked : seq[e] < nextExpected' => e \in done
      <3>1. \A e \in unacked : seq[e] <= seq[cur] => seq[e] < nextExpected \/ e = cur
        <4>1. AtWork
          BY <1>6 DEF Advance, AtWork
        <4> QED BY <1>0, <1>6, <1>t, <4>1, GateStays, NumberTypes DEF OrderInv
      <3>2. nextExpected # 0
        BY <1>0, <1>6, GateStays DEF Advance, WorkInv, AtWork, LogInv
      <3> QED BY <1>0, <1>6, <3>1, <3>2, GateStays DEF GateInv
    <2> QED BY <1>0, <1>6, <1>t, <2>1, <2>2, <2>3, GateStays DEF GateInv
  <1>7. CASE Restart
    <2>1. /\ highest <= admitSeq' /\ admitSeq' \in 0..MaxEvents /\ UNCHANGED <<seq, unacked, done>>
          /\ pendingAcks' = <<>> /\ Coming' \subseteq unacked
      <3>1. channel' = <<>> => InChannel' = {}
        BY DEF InChannel
      <3> QED BY <1>0, <1>7, <3>1, RestartCounts DEF Restart, Started, Coming
    <2>2. /\ nextExpected' = 0 \/ \E u \in unacked : nextExpected' = seq[u]
          /\ nextExpected' # 0 => \A u \in unacked : nextExpected' <= seq[u]
      BY <1>0, <1>7, GateOpens DEF Restart, Started
    <2>3. nextExpected' <= admitSeq' + 1
      BY <1>0, <1>t, <2>1, <2>2, NumberTypes DEF LogInv
    <2>4. nextExpected' # 0 => \A u \in unacked' : ~(seq'[u] < nextExpected')
      <3>1. nextExpected' \in Nat
        BY <1>t, <2>2
      <3> QED BY <1>t, <2>1, <2>2, <3>1
    <2>5. Unconfirmed' = {}
      BY <2>1 DEF Unconfirmed
    <2> QED BY <1>0, <2>1, <2>3, <2>4, <2>5 DEF GateInv
  <1>8. CASE UNCHANGED <<seq, unacked, done, admitSeq, next, cur, nextExpected, Unconfirmed>>
             /\ (worker' = worker \/ ~AtWork)
    <2>1. \A e : Passed(e) => Passed(e)'
      BY <1>8 DEF Passed, AtWork
    <2> QED BY <1>0, <1>8, <2>1 DEF GateInv
  <1>9. ASSUME NEW c \in Callers, ControlReturn(c) PROVE UNCHANGED <<seq, unacked, done, admitSeq, next>>
    BY <1>9 DEF ControlReturn, countVars
  <1> QED BY <1>0, <1>1, <1>2, <1>3, <1>4, <1>5, <1>6, <1>7, <1>8, <1>9, LogSteps, LoopSteps

LEMMA ReplayKeeps ==
  ASSUME IInv, [Next]_vars
  PROVE  ReplayInv'
  <1>0. Types /\ LogInv /\ OrderInv /\ WorkInv /\ GateInv /\ ReplayInv
    BY DEF IInv
  <1>t. /\ nextExpected \in Nat /\ booted \in Nat /\ next \in Nat
        /\ \A e \in Ids : seq[e] \in Nat
        /\ unacked \subseteq Ids /\ done \subseteq Ids /\ replayPending \subseteq Ids
    BY <1>0, NumberTypes DEF Types, LogTypes, LoopTypes, CallTypes
  <1>1. CASE EnqueueAdmit
    <2>1. /\ next \in Ids /\ next \notin done /\ unacked' = unacked \cup {next} /\ next' = next + 1
          /\ \A e \in Ids : e # next => seq'[e] = seq[e]
          /\ UNCHANGED <<done, worker, cur, nextExpected, replayPending, drained, booted>>
      BY <1>0, <1>1, NumberTypes DEF EnqueueAdmit, LogInv, Admitted, Ids, loopVars, callVars
    <2>2. Ended' = Ended
      BY <2>1 DEF Ended
    <2> QED BY <1>0, <1>t, <2>1, <2>2 DEF ReplayInv
  <1>2. CASE RetryAck \/ Drain
    BY <1>0, <1>2, Retried DEF ReplayInv, Ended, callVars
  <1>3. CASE AckEvent
    <2>1. cur \in Ids
      BY <1>0, <1>3, NumberTypes DEF AckEvent, WorkInv
    <2> QED BY <1>0, <1>3, <2>1, Acked DEF ReplayInv, Ended, callVars
  <1>4. CASE FetchBuffered \/ ReceiveEvent
    <2>1. \A e \in (unacked \cap done) \ replayPending : seq[e] < nextExpected
      BY <1>0, <1>4, Fetched DEF ReplayInv, Ended
    <2>2. \A e \in (unacked \cap done) \ replayPending : seq[e] < nextExpected'
      BY <1>4, <1>t, <2>1, Fetched
    <2> QED BY <1>0, <1>4, <2>2, Fetched DEF ReplayInv, logVars, callVars
  <1>5. CASE Commit
    BY <1>0, <1>5 DEF Commit, ReplayInv, Ended, loopVars, callVars, countVars
  <1>6. CASE NotDurable
    BY <1>0, <1>6 DEF NotDurable, ReplayInv, Ended, logVars, callVars
  <1>7. CASE Advance
    <2>1. \A e \in (unacked \cap done) \ replayPending : seq[e] < nextExpected'
      <3>1. \A e \in (unacked \cap done) \ replayPending : seq[e] < nextExpected \/ e = cur
        BY <1>0, <1>7 DEF Advance, ReplayInv, Ended
      <3> QED BY <1>7, <1>t, <3>1, GateStays
    <2>2. cur \in done /\ seq[cur] < nextExpected'
      BY <1>7, GateStays
    <2> QED BY <1>0, <1>7, <2>1, <2>2 DEF Advance, ReplayInv, callVars
  <1>8. CASE Restart
    <2>1. next - 1 < next /\ 1..(next - 1) \subseteq unacked \cup done
      <3>1. 1..(next - 1) \subseteq unacked \cup done
        BY <1>0 DEF LogInv, Admitted
      <3>2. next - 1 < next
        BY <1>t
      <3> QED BY <3>1, <3>2
    <2> QED BY <1>8, <2>1 DEF Restart, Started, ReplayInv
  <1>9. CASE /\ UNCHANGED <<seq, unacked, done, next, cur, nextExpected, replayPending, drained, booted>>
             /\ worker' = worker \/ (~AtWork /\ (Ended => Ended'))
    BY <1>0, <1>9 DEF ReplayInv, AtWork, Ended
  <1>10. ASSUME NEW c \in Callers, ControlReturn(c) PROVE UNCHANGED <<seq, unacked, done, next>>
    BY <1>10 DEF ControlReturn, countVars
  <1>11. Restart \/ UNCHANGED booted
    <2>1. ASSUME NEW c \in Callers,
                 ControlBegin(c) \/ ControlSend(c) \/ ControlUnsent(c) \/ DeadlinePasses(c) \/ ControlReturn(c)
          PROVE  UNCHANGED booted
      BY <2>1 DEF ControlBegin, ControlSend, ControlUnsent, DeadlinePasses, ControlReturn
    <2>2. CASE CheckDeferred \/ ServeControl \/ Halted
      BY <1>0, <2>2, ControlStep
    <2>3. CASE EnqueueAdmit \/ EnqueueStep \/ ScanStep \/ UNCHANGED vars
      BY <2>3 DEF EnqueueAdmit, EnqueueStep, EnqueueSend, EnqueueWalOnly, ScanStep, ScanList, ScanPrune,
                  ScanQueue, callVars, vars
    <2>4. CASE WorkerStep /\ ~(CheckDeferred \/ ServeControl \/ Halted)
      BY <2>4 DEF WorkerStep, RetryAck, FetchBuffered, FetchTimeout, ReceiveEvent, ReceiveUnread,
                  ReceiveControl, Drain, Commit, NotDurable, AckEvent, Advance, callVars
    <2> QED BY <2>1, <2>2, <2>3, <2>4 DEF Next, CallerStep
  <1> QED BY <1>0, <1>1, <1>2, <1>3, <1>4, <1>5, <1>6, <1>7, <1>8, <1>9, <1>10, <1>11, LogSteps, LoopSteps


(* Callers: what a caller waits for is fixed when it gets the gate, and it  *)
(* hears Ok only when nothing of that is left.                              *)
LEMMA CallSteps ==
  ASSUME IInv, [Next]_vars, ~Restart, NEW c \in Callers
  PROVE  /\ holder' = c => (holder = c /\ caller'[c] = caller[c]) \/ caller'[c] = "sending"
         /\ \/ UNCHANGED <<caller[c], target[c], cover[c]>>
            \/ /\ caller[c] = "idle"
               /\ \/ caller'[c] = "sending" /\ target'[c] = admitSeq /\ cover'[c] = next - 1
                     /\ UNCHANGED next
                  \/ caller'[c] \in {"error", "closed"}
            \/ /\ UNCHANGED <<target[c], cover[c]>>
               /\ \/ caller'[c] \in {"error", "timeout", "replied error", "dropped"}
                  \/ caller[c] = "sending" /\ caller'[c] = "waiting"
                  \/ caller[c] = "waiting" /\ caller'[c] = "replied ok" /\ Ready(c)
                  \/ caller[c] = "replied ok" /\ caller'[c] = "ok"
  <1>0. /\ Types /\ FlushInv /\ caller \in [Callers -> CallerStates]
        /\ target \in [Callers -> Nat] /\ cover \in [Callers -> Nat]
        /\ c # Nobody /\ c # Enqueuer
    BY NamesAssumption DEF IInv, Types, CallTypes
  <1> HIDE DEF Ready
  <1> USE DEF sendVars, callVars
  <1>1. ASSUME NEW d \in Callers, ControlBegin(d)
        PROVE  /\ holder' = c => caller'[c] = "sending"
               /\ \/ UNCHANGED <<caller[c], target[c], cover[c]>>
                  \/ /\ caller[c] = "idle"
                     /\ \/ caller'[c] = "sending" /\ target'[c] = admitSeq /\ cover'[c] = next - 1
                           /\ UNCHANGED next
                        \/ caller'[c] \in {"error", "closed"}
    BY <1>0, <1>1 DEF ControlBegin, Answer, countVars
  <1>2. ASSUME NEW d \in Callers, ControlSend(d)
        PROVE  /\ holder' # c /\ UNCHANGED <<target, cover>>
               /\ \/ caller'[c] = caller[c]
                  \/ caller[c] = "sending" /\ caller'[c] = "waiting"
    BY <1>0, <1>2 DEF ControlSend, Answer, FlushInv
  <1>3. ASSUME NEW d \in Callers, ControlUnsent(d)
        PROVE  /\ holder' # c /\ UNCHANGED <<target, cover>>
               /\ caller'[c] = caller[c] \/ caller'[c] = "error"
    BY <1>0, <1>3 DEF ControlUnsent, Answer
  <1>4. ASSUME NEW d \in Callers, DeadlinePasses(d)
        PROVE  /\ UNCHANGED <<holder, target, cover>>
               /\ caller'[c] = caller[c] \/ (caller[c] = "waiting" /\ caller'[c] = "timeout")
    BY <1>0, <1>4 DEF DeadlinePasses, Answer
  <1>5. ASSUME NEW d \in Callers, ControlReturn(d)
        PROVE  /\ UNCHANGED <<holder, target, cover>>
               /\ \/ caller'[c] = caller[c]
                  \/ caller[c] \in {"replied error", "dropped"} /\ caller'[c] = "error"
                  \/ caller[c] = "replied ok" /\ caller'[c] = "ok"
    BY <1>0, <1>5 DEF ControlReturn, Answer
  <1>6. CASE CheckDeferred \/ ServeControl \/ Halted
    <2>1. /\ UNCHANGED <<holder, target, cover>>
          /\ \/ caller'[c] = caller[c]
             \/ caller[c] = "waiting" /\ caller'[c] \in {"replied error", "dropped"}
             \/ caller[c] = "waiting" /\ caller'[c] = "replied ok" /\ Ready(c)
      BY <1>0, <1>6, ControlStep DEF Answered
    <2> QED BY <1>0, <2>1 DEF FlushInv
  <1>7. CASE EnqueueAdmit \/ EnqueueStep
    BY <1>0, <1>7 DEF EnqueueAdmit, EnqueueStep, EnqueueSend, EnqueueWalOnly
  <1>8. CASE ScanStep \/ UNCHANGED vars \/ (WorkerStep /\ ~(CheckDeferred \/ ServeControl \/ Halted))
    <2>1. UNCHANGED <<holder, caller, target, cover>>
      BY <1>8 DEF ScanStep, ScanList, ScanPrune, ScanQueue, vars, WorkerStep, RetryAck, FetchBuffered,
                  FetchTimeout, ReceiveEvent, ReceiveUnread, ReceiveControl, Drain, Commit, NotDurable,
                  AckEvent, Advance
    <2> QED BY <2>1
  <1> QED BY <1>0, <1>1, <1>2, <1>3, <1>4, <1>5, <1>6, <1>7, <1>8 DEF Next, CallerStep, FlushInv

LEMMA FlushKeeps ==
  ASSUME IInv, [Next]_vars
  PROVE  FlushInv' /\ FlushFence'
  <1>0. /\ Types /\ LogInv /\ FlushInv /\ FlushFence /\ cover \in [Callers -> Nat]
        /\ target \in [Callers -> Nat] /\ next \in Nat /\ admitSeq \in Nat /\ MaxEvents \in Nat
        /\ \A e \in Ids : seq[e] \in Nat
        /\ unacked \subseteq Ids /\ unacked \subseteq Admitted /\ done \subseteq Admitted
        /\ Admitted \subseteq unacked \cup done
        /\ next - 1 \in 0..MaxEvents
    BY NumberTypes DEF IInv, Types, CallTypes, LogInv
  <1>1. CASE Restart
    BY <1>0, <1>1, NamesAssumption DEF Restart, Started, FlushInv, FlushFence
  <1>2. ASSUME ~Restart, NEW c \in Callers
        PROVE  /\ holder' = c => caller'[c] = "sending"
               /\ caller'[c] \in {"sending", "waiting", "replied ok", "ok"} =>
                    /\ cover'[c] < next'
                    /\ \A e \in unacked' : e <= cover'[c] => seq'[e] <= target'[c]
               /\ caller'[c] \in {"replied ok", "ok"} => 1..(cover'[c]) \subseteq done' \ unacked'
    <2>1. holder' = c => caller'[c] = "sending"
      <3>1. holder' = c => (holder = c /\ caller'[c] = caller[c]) \/ caller'[c] = "sending"
        BY <1>2, CallSteps
      <3> QED BY <1>0, <1>2, <3>1 DEF FlushInv
    <2>2. CASE caller'[c] = "sending" /\ target'[c] = admitSeq /\ cover'[c] = next - 1 /\ UNCHANGED next
      <3>1. \A e \in unacked : seq[e] <= admitSeq
        BY <1>0, NumberTypes DEF LogInv
      <3>2. \A e \in unacked' : e <= next - 1 => e \in unacked /\ seq'[e] = seq[e]
        BY <1>0, LogMoves
      <3> QED BY <1>0, <2>1, <2>2, <3>1, <3>2
    <2>3. CASE /\ UNCHANGED <<target[c], cover[c]>>
               /\ caller[c] \in {"sending", "waiting", "replied ok", "ok"}
      <3>1. cover[c] \in Nat /\ cover[c] < next /\ \A e \in unacked : e <= cover[c] => seq[e] <= target[c]
        BY <1>0, <2>3 DEF FlushInv
      <3>5. next' \in Nat /\ next <= next'
            /\ \A e \in unacked' : e = next \/ (e \in unacked /\ seq'[e] = seq[e])
        BY LogMoves
      <3>6. ~(next <= cover[c])
        BY <1>0, <3>1
      <3>7. \A e \in unacked' : e <= cover'[c] => e # next
        BY <2>3, <3>6
      <3>8. cover'[c] < next'
        <4>1. next \in Nat
          BY <1>0
        <4>2. cover[c] \in Nat /\ cover[c] < next
          BY <3>1
        <4>3. cover[c] < next'
          BY <3>5, <4>1, <4>2
        <4> QED BY <2>3, <4>3
      <3>2. cover'[c] < next' /\ \A e \in unacked' : e <= cover'[c] => e \in unacked /\ seq'[e] = seq[e]
        BY <3>5, <3>7, <3>8
      <3>3. caller'[c] \in {"replied ok", "ok"} => 1..cover[c] \subseteq done \ unacked
        <4>1. CASE caller[c] = "waiting" /\ caller'[c] = "replied ok" /\ Ready(c)
          <5>1. \A e \in 1..cover[c] : e \in Admitted
            BY <1>0, <3>1 DEF Admitted
          <5>2. \A e \in Ids : ~(e \in unacked /\ seq[e] <= target[c])
            BY <4>1 DEF Ready, UpTo
          <5>3. \A e \in 1..cover[c] : e <= cover[c]
            BY <3>1
          <5>4. \A e \in 1..cover[c] : e \notin unacked
            BY <1>0, <3>1, <5>2, <5>3
          <5> QED BY <1>0, <5>1, <5>4
        <4>2. CASE caller[c] \in {"replied ok", "ok"}
          BY <4>2, <1>0 DEF FlushFence
        <4> HIDE DEF Ready
        <4> QED BY <1>2, <2>3, <4>1, <4>2, CallSteps
      <3>4. 1..cover[c] \subseteq done \ unacked => 1..(cover'[c]) \subseteq done' \ unacked'
        <4>1. done \subseteq done'
          BY LogMoves
        <4>2. \A e \in 1..cover[c] : e <= cover[c]
          BY <3>1
        <4> QED BY <2>3, <3>2, <4>1, <4>2
      <3> QED BY <2>1, <2>3, <3>1, <3>2, <3>3, <3>4
    <2>4. CASE caller'[c] \notin {"sending", "waiting", "replied ok", "ok"}
      BY <2>1, <2>4
    <2> HIDE DEF Ready
    <2> QED BY <1>2, <2>2, <2>3, <2>4, CallSteps
  <1>3. CASE ~Restart
    BY <1>2, <1>3 DEF FlushInv, FlushFence
  <1> QED BY <1>1, <1>3

(* The sequence gate keeps the order: what is done is a prefix. *)
LEMMA OrderOfDone ==
  ASSUME IInv, [Next]_vars
  PROVE  InOrder'
  <1>0. Types /\ LogInv /\ OrderInv /\ WorkInv /\ GateInv /\ InOrder
    BY DEF IInv
  <1>1. CASE Commit
    <2>1. /\ cur \in Admitted /\ cur \in unacked /\ seq[cur] = nextExpected
          /\ AtWork /\ done' = done \cup {cur} /\ next \in Nat
      BY <1>0, <1>1, NumberTypes DEF Commit, WorkInv, AtWork
    <2>2. \A f \in 1..cur : f \in unacked /\ f # cur => f \in done
      <3>1. nextExpected # 0 /\ cur \in Nat
        BY <1>0, <2>1 DEF LogInv, Admitted
      <3>2. \A f \in unacked : f < cur => seq[f] < nextExpected
        BY <1>0, <2>1 DEF OrderInv
      <3> QED BY <1>0, <3>1, <3>2 DEF GateInv
    <2>3. \A f \in 1..cur : f \in Admitted
      BY <2>1 DEF Admitted
    <2>4. 1..cur \subseteq done'
      BY <1>0, <2>1, <2>2, <2>3 DEF LogInv
    <2> QED BY <1>0, <2>1, <2>4 DEF InOrder
  <1>2. CASE UNCHANGED done
    BY <1>0, <1>2 DEF InOrder
  <1>3. Commit \/ UNCHANGED done
    BY <1>0, LogSteps DEF EnqueueAdmit, ControlReturn, RetryAck, Drain, AckEvent, Advance, Restart
  <1> QED BY <1>1, <1>2, <1>3

LEMMA NextKeeps == IInv /\ [Next]_vars => IInv'
  BY TypesKeep, LogKeeps, OrderKeeps, WorkKeeps, GateKeeps, ReplayKeeps, FlushKeeps, OrderOfDone DEF IInv

LEMMA InitHolds == Init => IInv
  <1> SUFFICES ASSUME Init PROVE IInv
    OBVIOUS
  <1>1. Types
    <2>1. MaxEvents \in Nat /\ 0 \in 0..MaxEvents /\ 1 \in 1..(MaxEvents + 1) /\ 0 \in 0..(MaxEvents + 1)
      BY WorkerAssumption
    <2>2. LogTypes
      BY <2>1 DEF Init, LogTypes
    <2>3. SendTypes
      BY EmptyQueues DEF Init, SendTypes, Nobody, Enqueuer
    <2>4. LoopTypes
      BY <2>1, EmptyQueues DEF Init, LoopTypes
    <2>5. CallTypes
      BY DEF Init, CallTypes, CallerStates, ControlKinds
    <2> QED BY <2>2, <2>3, <2>4, <2>5 DEF Types
  <1>2. LogInv /\ OrderInv /\ WorkInv /\ ReplayInv /\ FlushInv
    BY NamesAssumption DEF Init, LogInv, OrderInv, WorkInv, ReplayInv, FlushInv, Admitted, AtWork, Ended
  <1>3. GateInv
    BY DEF Init, GateInv, Coming, InChannel, Unconfirmed
  <1>4. InOrder /\ FlushFence
    BY DEF Init, InOrder, FlushFence
  <1> QED BY <1>1, <1>2, <1>3, <1>4 DEF IInv

-----------------------------------------------------------------------------
(* What is in flight is somewhere, as long as the log can be read. *)

Somewhere(e) == e \in buffer \/ cur = e \/ e \in InChannel
Afloat ==
    /\ inFlight \subseteq Admitted
    /\ ~Ended => \A e \in (inFlight \cap unacked) \ done : Somewhere(e)

LEMMA AfloatTells == Types /\ Afloat => NobodyIsStuck
  <1>1. Types => inFlight \subseteq Ids
    BY DEF Types, SendTypes
  <1> QED BY <1>1 DEF NobodyIsStuck, Afloat, Somewhere, Ended, InChannel

LEMMA AfloatKeeps ==
  ASSUME IInv, "read" \notin Faults, Afloat, [Next]_vars
  PROVE  Afloat'
  <1> USE DEF sendVars, loopVars, scanVars
  <1>0. /\ Types /\ LogInv /\ WorkInv /\ GateInv /\ SendTypes /\ LoopTypes
        /\ unacked \subseteq Ids /\ inFlight \subseteq Admitted
        /\ Coming \subseteq Admitted
    BY NumberTypes DEF IInv, Types, Afloat, GateInv
  <1>1. UNCHANGED channel => InChannel' = InChannel
    BY DEF InChannel
  <1>2. UNCHANGED worker => Ended' = Ended
    BY DEF Ended
  <1>3. /\ Admitted \subseteq Admitted' /\ done \subseteq done'
        /\ \A e \in unacked' : e = next \/ e \in unacked
        /\ next \notin Admitted
    <2>1. next \in Nat
      BY <1>0, NumberTypes
    <2> QED BY <2>1, LogMoves DEF Admitted
  <1>4. CASE inFlight' \subseteq inFlight /\ (~Ended' => ~Ended) /\ \A e \in inFlight : Somewhere(e) => Somewhere(e)' \/ e \in done'
    BY <1>0, <1>3, <1>4 DEF Afloat
  <1>5. CASE UNCHANGED <<inFlight, channel, buffer, cur>> /\ (~Ended' => ~Ended)
    <2>1. \A e : Somewhere(e)' <=> Somewhere(e)
      BY <1>1, <1>5 DEF Somewhere
    <2> QED BY <1>4, <1>5, <2>1
  <1>6. CASE EnqueueSend
    <2>1. moving \in Ids /\ moving # 0 /\ Event(moving) \in Messages
      BY <1>0, <1>6, NamesAssumption DEF EnqueueSend, SendTypes, Messages, Event
    <2>2. \A e \in Ids : e \in InChannel' <=> e \in InChannel \/ e = moving
      BY <1>0, <1>6, <2>1, ChannelGrows DEF EnqueueSend, Event
    <2>3. moving \in Admitted
      BY <1>0, <2>1 DEF Coming
    <2>4. inFlight' = inFlight \cup {moving} /\ UNCHANGED <<buffer, cur, worker, done, unacked>>
      BY <1>6 DEF EnqueueSend, logVars
    <2>5. \A e : Somewhere(e) => Somewhere(e)'
      BY <2>2, <2>4 DEF Somewhere, InChannel
    <2>6. \A e \in Ids : e = moving => Somewhere(e)'
      BY <2>1, <2>2 DEF Somewhere
    <2> QED BY <1>2, <1>3, <2>1, <2>3, <2>4, <2>5, <2>6 DEF Afloat
  <1>7. CASE EnqueueAdmit \/ EnqueueWalOnly
    BY <1>2, <1>5, <1>7 DEF EnqueueAdmit, EnqueueWalOnly
  <1>8. ASSUME NEW c \in Callers,
               ControlBegin(c) \/ ControlUnsent(c) \/ DeadlinePasses(c) \/ ControlReturn(c)
        PROVE  UNCHANGED <<inFlight, channel, buffer, cur, worker>>
    BY <1>8 DEF ControlBegin, ControlUnsent, DeadlinePasses, ControlReturn
  <1>9. ASSUME NEW c \in Callers, ControlSend(c) PROVE Afloat'
    <2>1. Control(kind[c], c) \in Messages
      BY <1>0 DEF Types, CallTypes, Messages, Control
    <2>2. \A e \in Ids : e \in InChannel => e \in InChannel'
      BY <1>0, <1>9, <2>1, ChannelGrows DEF ControlSend
    <2>3. UNCHANGED <<inFlight, buffer, cur, worker>>
      BY <1>9 DEF ControlSend
    <2>4. \A e : Somewhere(e) => Somewhere(e)'
      BY <2>2, <2>3 DEF Somewhere, InChannel
    <2> QED BY <1>2, <1>4, <2>3, <2>4
  <1>10. CASE CheckDeferred \/ ServeControl \/ Halted
    <2>1. UNCHANGED <<inFlight, buffer, cur>> /\ (~Ended' => ~Ended /\ channel' = channel)
      BY <1>0, <1>10, ControlStep DEF Ended
    <2>2. CASE Ended'
      BY <1>0, <1>3, <2>1, <2>2 DEF Afloat
    <2> QED BY <1>5, <2>1, <2>2
  <1>11. CASE RetryAck \/ Drain
    BY <1>0, <1>1, <1>4, <1>11, Retried DEF Somewhere, Ended
  <1>12. CASE AckEvent
    <2>1. cur \in Ids
      BY <1>0, <1>12 DEF AckEvent, WorkInv
    <2> QED BY <1>0, <1>1, <1>4, <1>12, <2>1, Acked DEF Somewhere, Ended
  <1>13. CASE FetchBuffered \/ ReceiveEvent
    <2>1. \A e \in inFlight : Somewhere(e) /\ e \in unacked => Somewhere(e)' \/ e \in done
      <3>1. cur = 0 /\ 0 \notin unacked
        BY <1>0, <1>13, Fetched DEF Ids
      <3> QED BY <1>13, <3>1, Fetched DEF Somewhere
    <2>2. UNCHANGED <<inFlight, unacked, done>> /\ ~Ended /\ ~Ended'
      BY <1>13, Fetched DEF Ended, logVars
    <2> QED BY <1>0, <1>3, <2>1, <2>2 DEF Afloat
  <1>14. CASE FetchTimeout
    BY <1>5, <1>14 DEF FetchTimeout, Ended
  <1>15. CASE ReceiveUnread
    BY <1>15 DEF ReceiveUnread, Fail
  <1>16. CASE ReceiveControl
    <2>1. /\ channel # <<>> /\ channel' = Tail(channel) /\ Head(channel).kind # "event"
          /\ UNCHANGED <<inFlight, buffer, cur>> /\ ~Ended
      BY <1>16 DEF ReceiveControl, Receives, Ended
    <2>2. \A e \in InChannel : e \in InChannel'
      BY <1>0, <2>1, ChannelShrinks DEF Event
    <2> QED BY <1>4, <2>1, <2>2 DEF Somewhere
  <1>17. CASE Commit
    <2>1. UNCHANGED <<inFlight, channel, buffer, cur>> /\ ~Ended
      BY <1>17 DEF Commit, Ended
    <2> QED BY <1>5, <2>1
  <1>18. CASE NotDurable
    <2>1. inFlight' = inFlight \ {cur} /\ UNCHANGED <<channel, buffer, unacked, done>> /\ ~Ended
      BY <1>18 DEF NotDurable, logVars, Ended
    <2>2. \A e \in inFlight' : Somewhere(e) => Somewhere(e)'
      BY <1>1, <2>1 DEF Somewhere
    <2> QED BY <1>0, <1>3, <2>1, <2>2 DEF Afloat
  <1>19. CASE Advance
    <2>1. UNCHANGED <<inFlight, channel, buffer>> /\ ~Ended /\ cur \in done'
      BY <1>0, <1>19 DEF Advance, WorkInv, Ended
    <2> QED BY <1>1, <1>4, <2>1 DEF Somewhere
  <1>20. CASE ScanList
    BY <1>2, <1>5, <1>20 DEF ScanList
  <1>21. CASE ScanPrune
    <2>1. inFlight' \subseteq inFlight /\ UNCHANGED <<channel, buffer, cur, worker>>
      BY <1>21 DEF ScanPrune
    <2> QED BY <1>1, <1>2, <1>4, <2>1 DEF Somewhere
  <1>22. CASE ScanQueue
    <2>1. Min(found) \in found /\ Min(found) \in Ids
      BY <1>0, <1>22, MinIsLeast, NumberTypes DEF ScanQueue, SendTypes
    <2>2. CASE inFlight' = inFlight \cup {Min(found)} /\ channel' = Append(channel, Event(Min(found)))
      <3>1. \A e \in Ids : e \in InChannel' <=> e \in InChannel \/ e = Min(found)
        BY <1>0, <2>1, <2>2, ChannelGrows DEF Messages, Event
      <3>2. UNCHANGED <<buffer, cur, worker, done, unacked>> /\ Min(found) \in Admitted
        BY <1>0, <1>22, <2>1 DEF ScanQueue, logVars, Coming
      <3>3. \A e : Somewhere(e) => Somewhere(e)'
        BY <3>1, <3>2 DEF Somewhere, InChannel
      <3>4. \A e \in Ids : e = Min(found) => Somewhere(e)'
        BY <2>1, <3>1 DEF Somewhere
      <3> QED BY <1>2, <1>3, <2>1, <2>2, <3>2, <3>3, <3>4 DEF Afloat
    <2>3. CASE UNCHANGED <<inFlight, channel>>
      BY <1>2, <1>5, <1>22, <2>3 DEF ScanQueue
    <2> QED BY <1>22, <2>2, <2>3 DEF ScanQueue
  <1>23. CASE Restart
    <2>1. inFlight' = unacked /\ buffer' = unacked
      BY <1>23 DEF Restart, Started
    <2> QED BY <1>0, <1>3, <2>1 DEF Afloat, Somewhere, LogInv
  <1>24. CASE UNCHANGED vars
    BY <1>2, <1>5, <1>24 DEF vars
  <1> QED
    BY <1>2, <1>5, <1>6, <1>7, <1>8, <1>9, <1>10, <1>11, <1>12, <1>13, <1>14, <1>15, <1>16, <1>17, <1>18,
       <1>19, <1>20, <1>21, <1>22, <1>23, <1>24
       DEF Next, EnqueueStep, CallerStep, WorkerStep, ScanStep

-----------------------------------------------------------------------------
(* The types of the worker's state. *)
THEOREM TypesHold == Spec => []TypeOK
  <1>1. IInv => TypeOK
    BY DEF IInv, Types, TypeOK, LogTypes, SendTypes, LoopTypes, CallTypes, Messages, CallerStates
  <1> QED BY InitHolds, NextKeeps, <1>1, PTL DEF Spec

(* Events reach the database in the order in which they were admitted,     *)
(* through a full channel, failed writes, the scanner and restarts (the    *)
(* sequence gate of worker.rs).                                            *)
THEOREM InOrderHolds == Spec => []InOrder
  <1>1. IInv => InOrder
    BY DEF IInv
  <1> QED BY InitHolds, NextKeeps, <1>1, PTL DEF Spec

(* A flush or shutdown that returns Ok covers every event admitted before  *)
(* it was called, those that are only in the log included (control.rs).    *)
THEOREM FlushFenceHolds == Spec => []FlushFence
  <1>1. IInv => FlushFence
    BY DEF IInv
  <1> QED BY InitHolds, NextKeeps, <1>1, PTL DEF Spec

(* The worker reports its replay as drained only when every event of the   *)
(* processes before is in the database (is_healthy).                       *)
THEOREM DrainedMeansReplayedHolds == Spec => []DrainedMeansReplayed
  <1>1. IInv => DrainedMeansReplayed
    BY DEF IInv, ReplayInv, DrainedMeansReplayed
  <1> QED BY InitHolds, NextKeeps, <1>1, PTL DEF Spec

(* An event is executed a second time only as a replay after a kill, and   *)
(* only once per start, however often it was queued (the sequence gate).   *)
THEOREM RepeatedOnlyByReplayHolds == Spec => RepeatedOnlyByReplay
  <1>1. IInv /\ [Next]_vars => [\A e \in done : cur' = e /\ cur # e => e \in replayPending]_vars
    <2> SUFFICES ASSUME IInv, [Next]_vars, NEW e \in done, cur' = e, cur # e PROVE e \in replayPending
      OBVIOUS
    <2>1. /\ Types /\ LogInv /\ WorkInv /\ ReplayInv
          /\ e # 0
      BY DEF IInv, LogInv, Admitted
    <2>2. FetchBuffered \/ ReceiveEvent
      <3>1. CASE RetryAck \/ Drain
        BY <2>1, <3>1, Retried
      <3>2. CASE Commit \/ NotDurable \/ AckEvent \/ Advance \/ Restart
        BY <2>1, <3>2 DEF Commit, NotDurable, AckEvent, Advance, Restart, Started, loopVars
      <3> QED BY <2>1, <3>1, <3>2, LoopSteps
    <2>3. /\ e \in unacked /\ seq[e] = nextExpected' /\ worker = "fetch" /\ cur = 0
          /\ nextExpected # 0 => nextExpected' = nextExpected
      BY <2>1, <2>2, Fetched
    <2>4. seq[e] \in Nat /\ nextExpected \in Nat
      BY <2>1, <2>3, NumberTypes
    <2>5. e \notin replayPending => seq[e] < nextExpected
      BY <2>1, <2>3 DEF ReplayInv, Ended
    <2> QED BY <2>3, <2>4, <2>5
  <1> QED BY InitHolds, NextKeeps, <1>1, PTL DEF Spec, RepeatedOnlyByReplay

(* worker.rs, RetryableFailure: an event is not "stuck forever (in_flight, *)
(* not in channel, scanner skips it)", as long as the log can be read.     *)
THEOREM NobodyIsStuckHolds ==
  ASSUME "read" \notin Faults
  PROVE  Spec => []NobodyIsStuck
  <1>1. Init => Afloat
    BY DEF Init, Afloat
  <1>2. IInv /\ Afloat /\ [Next]_vars => Afloat'
    BY AfloatKeeps
  <1>3. IInv /\ Afloat => NobodyIsStuck
    BY AfloatTells DEF IInv
  <1> QED BY InitHolds, NextKeeps, <1>1, <1>2, <1>3, PTL DEF Spec
=============================================================================
