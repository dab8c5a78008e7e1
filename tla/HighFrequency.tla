---------------------------- MODULE HighFrequency ----------------------------
(* The writer of touches and judges (persistence/high_frequency/writer.rs,   *)
(* mod.rs, postgres.rs).  It has no log: an item waits in the main queue, or *)
(* in the overflow queue when that is full, is put into a batch and written  *)
(* to the database; what cannot be written is dropped.  Items are numbered   *)
(* as they are admitted, and a flush or the shutdown is answered from the    *)
(* numbers that were committed and dropped.                                  *)
EXTENDS Naturals, Sequences, FiniteSets, FiniteSetsExt

CONSTANTS MaxItems, QueueSize, OverflowSize, BatchSize, MaxRetries, MaxFlushes

VARIABLES admission,    \* the next number
          accepted,     \* last_accepted_sequence
          main, overflow, batch,
          committed, dropped,   \* the intervals of the SequenceTracker, as sets
          copies,       \* how often each item is in the table of the round
          gate,         \* the admission gate: "free", "enqueue" or "shutdown"
          closed, shut, shutLate, verdict,
          worker,       \* [at, why, tries]
          flight,       \* the items being written
          flush,        \* [at, target, late, calls]
          gone          \* the worker has ended

vars == <<admission, accepted, main, overflow, batch, committed, dropped, copies, gate, closed,
          shut, shutLate, verdict, worker, flight, flush, gone>>

Items == 1..MaxItems

\* persist_touches, persist_judges: a round sends a bounded number of batches.
Offered == admission <= MaxItems

Msg(kind, n) == [kind |-> kind, n |-> n]

Init ==
    /\ admission = 1 /\ accepted = 0
    /\ main = <<>> /\ overflow = <<>> /\ batch = {} /\ flight = {}
    /\ committed = {} /\ dropped = {}
    /\ copies = [i \in Items |-> 0]
    /\ gate = "free" /\ closed = FALSE /\ shut = "open" /\ shutLate = FALSE /\ verdict = "none"
    /\ worker = [at |-> "idle", why |-> "none", tries |-> 0]
    /\ flush = [at |-> "none", target |-> 0, late |-> FALSE, calls |-> 0]
    /\ gone = FALSE

\* The highest n such that everything up to n is committed.
Watermark == Max({n \in 0..MaxItems : 1..n \subseteq committed})
Dropping(S) == dropped' = dropped \cup S
Lost(target) == {s \in dropped : Watermark < s /\ s <= target} # {}
-----------------------------------------------------------------------------
(* The callers.                                                              *)

\* A slip: the admission gate is not held up to the shutdown's message.
Enqueue_Ungated ==
    /\ gate # "enqueue" /\ Offered /\ ~gone /\ Len(main) < QueueSize
    /\ admission' = admission + 1
    /\ main' = Append(main, Msg("item", admission)) /\ gate' = "enqueue"
    /\ UNCHANGED <<overflow, dropped, accepted, batch, committed, copies, closed, shut, shutLate,
                   verdict, worker, flight, flush, gone>>

\* enqueue, up to the queue that takes the item, or none.
Enqueue ==
    /\ gate = "free" /\ ~closed /\ Offered
    /\ admission' = admission + 1
    /\ \/ /\ ~gone /\ Len(main) < QueueSize
          /\ main' = Append(main, Msg("item", admission)) /\ gate' = "enqueue"
          /\ UNCHANGED <<overflow, dropped>>
       \/ /\ ~gone /\ Len(main) >= QueueSize /\ Len(overflow) < OverflowSize
          /\ overflow' = Append(overflow, admission) /\ gate' = "enqueue"
          /\ UNCHANGED <<main, dropped>>
       \/ /\ ~gone /\ Len(main) >= QueueSize /\ Len(overflow) >= OverflowSize
          /\ Dropping({admission})
          /\ UNCHANGED <<main, overflow, gate>>
    /\ UNCHANGED <<accepted, batch, committed, copies, closed, shut, shutLate, verdict, worker,
                   flight, flush, gone>>

\* ... and the count, after the queue has it.
Count ==
    /\ gate = "enqueue"
    /\ accepted' = Max({accepted, admission - 1}) /\ gate' = "free"
    /\ UNCHANGED <<admission, main, overflow, batch, committed, dropped, copies, closed, shut,
                   shutLate, verdict, worker, flight, flush, gone>>

FlushPending == flush.at \in {"sending", "waiting"} \/ (\E i \in DOMAIN main : main[i].kind = "flush")
                \/ worker.at = "flush" \/ worker.why = "flush"

FlushCall ==
    /\ ~FlushPending /\ ~closed /\ accepted > 0 /\ flush.calls < MaxFlushes
    /\ flush' = [at |-> "sending", target |-> accepted, late |-> FALSE, calls |-> flush.calls + 1]
    /\ UNCHANGED <<admission, accepted, main, overflow, batch, committed, dropped, copies, gate,
                   closed, shut, shutLate, verdict, worker, flight, gone>>

FlushSend ==
    /\ flush.at = "sending" /\ ~flush.late /\ ~gone /\ Len(main) < QueueSize
    /\ main' = Append(main, Msg("flush", flush.target))
    /\ flush' = [flush EXCEPT !.at = "waiting"]
    /\ UNCHANGED <<admission, accepted, overflow, batch, committed, dropped, copies, gate, closed,
                   shut, shutLate, verdict, worker, flight, gone>>

\* The caller's deadline, which the message carries.
FlushLate ==
    /\ FlushPending /\ ~flush.late
    /\ flush' = [flush EXCEPT !.late = TRUE, !.at = "err"]
    /\ UNCHANGED <<admission, accepted, main, overflow, batch, committed, dropped, copies, gate,
                   closed, shut, shutLate, verdict, worker, flight, gone>>

\* shutdown: it holds the gate until it is answered.
ShutRequest ==
    /\ gate = "free" /\ shut \in {"open", "unsent"} /\ ~gone
    /\ gate' = "shutdown" /\ closed' = TRUE /\ shut' = "requested" /\ shutLate' = FALSE
    /\ UNCHANGED <<admission, accepted, main, overflow, batch, committed, dropped, copies, verdict,
                   worker, flight, flush, gone>>

ShutSend ==
    /\ shut = "requested" /\ ~shutLate /\ Len(main) < QueueSize
    /\ main' = Append(main, Msg("shutdown", 0)) /\ shut' = "sent"
    /\ UNCHANGED <<admission, accepted, overflow, batch, committed, dropped, copies, gate, closed,
                   shutLate, verdict, worker, flight, flush, gone>>

ShutLate ==
    /\ shut \in {"requested", "sent"} /\ ~shutLate
    /\ shutLate' = TRUE
    /\ UNCHANGED <<admission, accepted, main, overflow, batch, committed, dropped, copies, gate,
                   closed, shut, verdict, worker, flight, flush, gone>>

\* classify_shutdown_result; where there is no answer the shutdown has failed.
Classified == IF verdict = "none" THEN "failed" ELSE verdict

\* The end of the call: not sent, in time, or too late.
ShutReturns ==
    /\ \/ shut = "requested" /\ shutLate /\ shut' = "unsent"
       \/ shut = "sent" /\ (verdict # "none" \/ shutLate) /\ shut' = Classified
    /\ gate' = "free"
    /\ UNCHANGED <<admission, accepted, main, overflow, batch, committed, dropped, copies, closed,
                   shutLate, verdict, worker, flight, flush, gone>>
-----------------------------------------------------------------------------
(* The worker.                                                               *)

Idle == [at |-> "idle", why |-> "none", tries |-> 0]
Calls == <<admission, accepted, gate, closed, shut, shutLate>>

\* drain_overflow: the oldest expire, then as many as fit are taken.
Drain(b, limit) ==
    \E expired \in 0..Len(overflow) :
        LET rest == SubSeq(overflow, expired + 1, Len(overflow))
            taken == IF Len(rest) < limit THEN Len(rest) ELSE limit
        IN  /\ limit = 0 => expired = 0
            /\ Dropping({overflow[i] : i \in 1..expired})
            /\ overflow' = SubSeq(rest, taken + 1, Len(rest))
            /\ batch' = b \cup {rest[i] : i \in 1..taken}

\* Batch by batch; a write goes on while the callers do.
WriteOrIdle(why) ==
    IF batch' = {} THEN worker' = Idle ELSE worker' = [at |-> "write", why |-> why, tries |-> 0]

TakeItem ==
    /\ worker = Idle /\ ~gone /\ main # <<>> /\ Head(main).kind = "item"
    /\ main' = Tail(main)
    /\ LET b == batch \cup {Head(main).n}
       IN  Drain(b, IF Cardinality(b) < BatchSize THEN BatchSize - Cardinality(b) ELSE 0)
    /\ IF Cardinality(batch') >= BatchSize THEN WriteOrIdle("items") ELSE UNCHANGED worker
    /\ UNCHANGED <<Calls, committed, copies, verdict, flight, flush, gone>>

Tick ==
    /\ worker = Idle /\ ~gone /\ main = <<>>
    /\ Drain(batch, BatchSize) /\ WriteOrIdle("interval")
    /\ UNCHANGED <<Calls, main, committed, copies, verdict, flight, flush, gone>>

TakeFlush ==
    /\ worker = Idle /\ ~gone /\ main # <<>> /\ Head(main).kind = "flush"
    /\ main' = Tail(main) /\ worker' = [Idle EXCEPT !.at = "flush"]
    /\ UNCHANGED <<Calls, overflow, batch, committed, dropped, copies, verdict, flight, flush, gone>>

Reply(answer) == flush' = IF flush.at = "waiting" THEN [flush EXCEPT !.at = answer] ELSE flush

\* One turn of the loop that serves a flush.
FlushTurn ==
    /\ worker.at = "flush"
    /\ CASE flush.late -> worker' = Idle /\ UNCHANGED <<flush, batch, overflow, dropped>>
         [] ~flush.late /\ Watermark >= flush.target ->
                Reply("ok") /\ worker' = Idle /\ UNCHANGED <<batch, overflow, dropped>>
         [] ~flush.late /\ Watermark < flush.target /\ Lost(flush.target) ->
                Reply("err") /\ worker' = Idle /\ UNCHANGED <<batch, overflow, dropped>>
         [] OTHER -> /\ Drain(batch, BatchSize) /\ WriteOrIdle("flush")
                     /\ IF batch' = {} THEN Reply("err") ELSE UNCHANGED flush
    /\ UNCHANGED <<Calls, main, committed, copies, verdict, flight, gone>>

\* What the shutdown is told at the end.
Verdict(done) ==
    CASE accepted = 0 \/ (1..accepted \subseteq done) -> "clean"
      [] Lost(accepted) -> "loss"
      [] OTHER -> "failed"

TakeShutdown ==
    /\ worker = Idle /\ ~gone /\ main # <<>> /\ Head(main).kind = "shutdown"
    /\ main' = Tail(main)
    /\ IF shutLate
       THEN gone' = TRUE /\ verdict' = "failed" /\ UNCHANGED <<worker, batch, overflow, dropped>>
       ELSE /\ Drain(batch, Len(overflow)) /\ WriteOrIdle("shutdown")
            /\ gone' = (batch' = {})
            /\ IF batch' = {} THEN verdict' = IF dropped' = dropped THEN Verdict(committed) ELSE "loss"
                              ELSE UNCHANGED verdict
    /\ UNCHANGED <<Calls, committed, copies, flight, flush>>

\* flush_batch takes the batch: from now on its items are only in its hands.
BeginWrite ==
    /\ worker.at = "write" /\ flight = {}
    /\ flight' = batch /\ batch' = {}
    /\ UNCHANGED <<Calls, main, overflow, committed, dropped, copies, verdict, worker, flush, gone>>

\* A slip: what a lost answer has stored is appended again.
Store_Again(done) == [i \in Items |-> IF i \in done THEN copies[i] + 1 ELSE copies[i]]

\* batch_uuid: the same batch has the same key, and is in the table once.
IsNew(i) == copies[i] = 0

\* COPY, or INSERT that skips what is there already; all of it or nothing.
Store(done) == [i \in Items |-> IF i \in done /\ IsNew(i) THEN 1 ELSE copies[i]]

\* try_copy_write: the transaction is committed or not, and the answer is lost.
StoredOrNot == {copies, Store(flight)}

WriteSucceeds ==
    /\ worker.at = "write" /\ flight # {}
    /\ copies' = Store(flight) /\ committed' = committed \cup flight /\ flight' = {}
    /\ worker' = IF worker.why = "flush" THEN [Idle EXCEPT !.at = "flush"] ELSE Idle
    /\ gone' = (worker.why = "shutdown")
    /\ verdict' = IF worker.why = "shutdown" THEN Verdict(committed') ELSE verdict
    /\ UNCHANGED <<Calls, main, overflow, batch, dropped, flush>>

\* The answer of a write may be lost although the write was done.
WriteRetried ==
    /\ worker.at = "write" /\ flight # {} /\ worker.tries + 1 < MaxRetries
    /\ copies' \in StoredOrNot
    /\ worker' = [worker EXCEPT !.tries = @ + 1]
    /\ UNCHANGED <<Calls, main, overflow, batch, committed, dropped, verdict, flight, flush, gone>>

\* The attempts are used up, or the time is.
WriteDropped ==
    /\ worker.at = "write" /\ flight # {}
    /\ copies' \in StoredOrNot
    /\ Dropping(flight) /\ flight' = {}
    /\ worker' = Idle
    /\ IF worker.why = "flush" THEN Reply("err") ELSE UNCHANGED flush
    /\ gone' = (worker.why = "shutdown")
    /\ verdict' = IF worker.why = "shutdown" THEN "failed" ELSE verdict
    /\ UNCHANGED <<Calls, main, overflow, batch, committed>>

Next ==
    \/ Enqueue \/ Count \/ FlushCall \/ FlushSend \/ FlushLate
    \/ ShutRequest \/ ShutSend \/ ShutLate \/ ShutReturns
    \/ TakeItem \/ Tick \/ TakeFlush \/ FlushTurn \/ TakeShutdown
    \/ BeginWrite \/ WriteSucceeds \/ WriteRetried \/ WriteDropped

Spec == Init /\ [][Next]_vars
-----------------------------------------------------------------------------
(* Properties.                                                               *)

(* An answer is true: after a flush that succeeded everything admitted when  *)
(* it was asked for is in the database, however it was queued; after a clean *)
(* shutdown everything ever admitted is; and a shutdown that tells of a loss *)
(* has accounted for every single item.                                      *)
ReportsAreTrue ==
    /\ flush.at = "ok" => \A s \in 1..flush.target : copies[s] > 0
    /\ shut = "clean" => \A s \in 1..accepted : copies[s] > 0
    /\ shut \in {"clean", "loss"} => 1..(admission - 1) \subseteq committed \cup dropped

(* A write that is repeated because its answer was lost adds nothing to the  *)
(* table of the round a second time.                                         *)
StoredOnce == \A s \in Items : copies[s] <= 1
=============================================================================
