---------------------------- MODULE PhiraClient ----------------------------
(* The client of the Phira web service (phira_client): one circuit breaker   *)
(* for every caller, retries with a growing delay, and for authentications a *)
(* deadline.  The breaker is a few atomics: counting a failure and tripping  *)
(* are two steps.  A request is answered, or fails, within Timeout; a timer  *)
(* that is due fires before time goes on.  In a calm run calls do not        *)
(* overlap.                                                                  *)
EXTENDS Naturals, FiniteSetsExt

CONSTANTS Calls, MaxRetries, Timeout, BaseBackoff, MaxBackoff, Threshold, OpenFor, Budget,
          MaxTime, Overlaps

VARIABLES overlaps,
          now,
          call,        \* of each call: its stage, attempt, deadline, and times
          failures,    \* consecutive_failures
          openUntil,   \* open_until_ms, 0 if closed
          tally        \* requests, successes, failures; dropped, of which the code keeps no count

vars == <<overlaps, now, call, failures, openUntil, tally>>

None == MaxTime + Budget + 1
Smaller(a, b) == IF a < b THEN a ELSE b

\* What into_policy makes of any configuration.
Policy == MaxRetries \in 0..10 /\ Timeout >= 1 /\ BaseBackoff >= 1 /\ MaxBackoff >= BaseBackoff
BreakerPolicy == Threshold \in 2..100 /\ OpenFor >= 1

Call(stage) == [stage |-> stage, attempt |-> 0, deadline |-> None, at |-> 0, asked |-> 0]

Counters == [requests |-> 0, successes |-> 0, failures |-> 0, dropped |-> 0]

Init ==
    /\ Policy /\ BreakerPolicy
    /\ overlaps \in Overlaps /\ now = 1 /\ call = [c \in Calls |-> Call("new")]
    /\ failures = 0 /\ openUntil = 0
    /\ tally = Counters

breaker == <<failures, openUntil>>
UnderWay(c) == call[c].stage \notin {"new", "done"}
Allowed == openUntil <= now
Ends(c) == call' = [call EXCEPT ![c] = Call("done")]
Fails == tally' = [tally EXCEPT !.failures = @ + 1]
-----------------------------------------------------------------------------
(* Mutant: the breaker is not asked. *)
Admits_All == TRUE

Admits == Allowed

\* get_json.  The budget of a deadline began before the call.
Ask(c, deadline) ==
    /\ call[c].stage = "new" /\ (overlaps \/ \A d \in Calls : ~UnderWay(d))
    /\ IF Admits THEN call' = [call EXCEPT ![c] = [@ EXCEPT !.stage = "trying", !.deadline = deadline,
                                                            !.asked = now]]
                 ELSE Ends(c)
    /\ tally' = [tally EXCEPT !.requests = @ + 1, !.failures = IF Admits THEN @ ELSE @ + 1]
    /\ UNCHANGED <<overlaps, now, breaker>>

(* Mutant: the deadline is not looked at before a request. *)
Elapsed_Never(c) == FALSE

Elapsed(c) == call[c].deadline <= now

Try(c) ==
    /\ call[c].stage = "trying"
    /\ IF Elapsed(c) THEN Ends(c) /\ Fails
       ELSE call' = [call EXCEPT ![c] = [@ EXCEPT !.stage = "sent", !.at = now]] /\ UNCHANGED tally
    /\ UNCHANGED <<overlaps, now, breaker>>

Succeed(c) ==
    /\ call[c].stage = "sent" /\ Ends(c)
    /\ tally' = [tally EXCEPT !.successes = @ + 1]
    /\ failures' = 0 /\ openUntil' = 0
    /\ UNCHANGED <<overlaps, now>>

\* bounded_backoff_sleep: never past the deadline.
Backoff(c) ==
    LET delay == Smaller(BaseBackoff * (call[c].attempt + 1), MaxBackoff)
    IN now + (IF call[c].deadline <= now THEN 0 ELSE Smaller(delay, call[c].deadline - now))

Retry(c) ==
    /\ call[c].stage = "sent" /\ call[c].attempt < MaxRetries
    /\ call' = [call EXCEPT ![c] = [@ EXCEPT !.stage = "resting", !.at = Backoff(c)]]
    /\ UNCHANGED <<overlaps, now, breaker, tally>>

Wake(c) ==
    /\ call[c].stage = "resting" /\ call[c].at <= now
    /\ call' = [call EXCEPT ![c].stage = "trying", ![c].attempt = @ + 1]
    /\ UNCHANGED <<overlaps, now, breaker, tally>>

\* The service answers that the request is wrong: the breaker does not count it.
Refuse(c) ==
    /\ call[c].stage = "sent" /\ Ends(c) /\ Fails
    /\ UNCHANGED <<overlaps, now, breaker>>

\* record_failure of a last attempt, or of an answer that cannot be read: the
\* count first, and the failure that trips it waits for its stores.
Fail(c) ==
    /\ call[c].stage = "sent"
    /\ LET probe == openUntil > 0 /\ openUntil <= now
       IN /\ failures' = IF probe THEN failures ELSE failures + 1
          /\ IF probe \/ failures + 1 >= Threshold
             THEN call' = [call EXCEPT ![c] = [@ EXCEPT !.stage = "tripping", !.at = now + OpenFor]]
                  /\ UNCHANGED tally
             ELSE Ends(c) /\ Fails
    /\ UNCHANGED <<overlaps, now, openUntil>>

Trip(c) ==
    /\ call[c].stage = "tripping" /\ Ends(c) /\ Fails
    /\ failures' = 0 /\ openUntil' = call[c].at
    /\ UNCHANGED <<overlaps, now>>

\* The caller's own deadline drops the future where it waits: neither the
\* counters nor the breaker hear of it.
Dropped(c) ==
    /\ call[c].stage \in {"sent", "resting"} /\ Ends(c)
    /\ tally' = [tally EXCEPT !.dropped = @ + 1]
    /\ UNCHANGED <<overlaps, now, breaker>>

Waits(c) == \/ call[c].stage \in {"new", "done"}
            \/ call[c].stage = "sent" /\ now < call[c].at + Timeout
            \/ call[c].stage = "resting" /\ now < call[c].at

Tick ==
    /\ now < MaxTime /\ \A c \in Calls : Waits(c)
    /\ now' = now + 1
    /\ UNCHANGED <<overlaps, call, breaker, tally>>

Next ==
    \/ \E c \in Calls : \/ \E deadline \in {None, now + Budget} : Ask(c, deadline)
                        \/ Try(c) \/ Succeed(c) \/ Retry(c) \/ Wake(c) \/ Refuse(c) \/ Fail(c) \/ Trip(c)
                        \/ Dropped(c)
    \/ Tick

Spec == Init /\ [][Next]_vars
-----------------------------------------------------------------------------
\* An open breaker gives the service a rest: nothing at all is sent to it.
\* Callers that were let in before, and wait to try again, break this.
Rests == [][\A c \in Calls : call[c].stage = "trying" /\ call'[c].stage = "sent" => Allowed]_vars

\* Every request ends as a success or as a failure: not one that is dropped.
EveryRequestIsCounted ==
    (\A c \in Calls : ~UnderWay(c)) => tally.requests = tally.successes + tally.failures

\* Without such callers the service does get its rest; and a call is counted
\* once, as a success or as a failure, unless its caller dropped it.
RestsIfCalm ==
    [][/\ ~overlaps => \A c \in Calls : call[c].stage = "trying" /\ call'[c].stage = "sent" => Allowed
       /\ tally'.requests = tally'.successes + tally'.failures + tally'.dropped
                            + Cardinality({c \in Calls : UnderWay(c)'})]_vars

\* An authentication is over by its deadline, whatever the service does.
InTime == \A c \in Calls : UnderWay(c) => now <= call[c].deadline

\* It overruns the deadline by one request at most, and a call without one
\* takes no longer than its attempts and the pauses between them.
AtMostOneRequestOver ==
    \A c \in Calls : UnderWay(c) =>
        /\ now <= call[c].deadline + Timeout
        /\ now <= call[c].asked + (MaxRetries + 1) * Timeout + MaxRetries * MaxBackoff
=============================================================================
