------------------------------ MODULE Shutdown ------------------------------
(* The end of the process: main works through its phases under one deadline  *)
(* (main.rs), and the supervisor (supervisor_actor.rs) keeps the handles of  *)
(* the background tasks, counts the critical ones that end by themselves and *)
(* stops the rest.  Left out: what a phase does inside, the list of recent   *)
(* failures, and a supervisor that is made anew once one is down.            *)
EXTENDS Naturals, Sequences, SequencesExt, FiniteSets

CONSTANTS Tasks,      \* the background tasks
          Critical,   \* those spawned by spawn_critical
          Ordered     \* those spawned by spawn_with_order

VARIABLES life,       \* of each task: "unborn", "running", "ended" or "aborted"
          held,       \* its JoinHandle: "nobody", "spawner", "mail", "child" or "dropped"
          mail,       \* the channel of the supervisor
          sup,        \* "up" or "down"
          phaseFlag,  \* SHUTDOWN_PHASE
          counted,    \* the tasks in CRITICAL_FAILURES
          stage,      \* how many phases main is through; 0 while it serves
          left,       \* there is something left of the shared deadline
          owed,       \* a phase that makes data durable has not done it
          persistenceOk

taskVars == <<life, held, mail, sup, counted>>
mainVars == <<stage, left, owed, persistenceOk>>
vars == <<taskVars, phaseFlag, mainVars>>

\* The phases of main, each entered only while something is left.
Phases == <<"sessions", "lifecycle", "plugins", "extensions", "hfFlush", "hfShutdown",
            "flush", "shutdown", "heartbeat", "tasks">>
Durable == {"hfFlush", "hfShutdown", "flush", "shutdown"}

Init ==
    /\ life = [t \in Tasks |-> "unborn"]
    /\ held = [t \in Tasks |-> "nobody"]
    /\ mail = <<>> /\ sup = "up" /\ phaseFlag = FALSE /\ counted = {}
    /\ stage = 0 /\ left = TRUE /\ owed = FALSE /\ persistenceOk = TRUE

Exited == stage > Len(Phases)
-----------------------------------------------------------------------------
\* spawn_with_criticality: the phase is looked at once, after the task is there.
Spawn(t) ==
    /\ t \notin Ordered /\ life[t] = "unborn" /\ sup = "up"
    /\ life' = [life EXCEPT ![t] = IF phaseFlag THEN "aborted" ELSE "running"]
    /\ held' = [held EXCEPT ![t] = IF phaseFlag THEN "nobody" ELSE "spawner"]
    /\ UNCHANGED <<mail, sup, counted, phaseFlag, mainVars>>

\* spawn_with_order: it is not looked at.
SpawnOrdered(t) ==
    /\ t \in Ordered /\ life[t] = "unborn"
    /\ life' = [life EXCEPT ![t] = "running"]
    /\ held' = [held EXCEPT ![t] = "spawner"]
    /\ UNCHANGED <<mail, sup, counted, phaseFlag, mainVars>>

Abort(S) == [t \in Tasks |-> IF t \in S /\ life[t] = "running" THEN "aborted" ELSE life[t]]

\* try_send, or the task that waits for room.  A channel that is closed gives
\* the handle back, to be aborted; where there is none, spawn_with_order lets
\* go of it.
Register(t) ==
    /\ held[t] = "spawner"
    /\ \/ /\ sup = "up"
          /\ mail' = Append(mail, t)
          /\ held' = [held EXCEPT ![t] = "mail"]
          /\ UNCHANGED life
       \/ /\ sup = "down"
          /\ life' = Abort({t})
          /\ held' = [held EXCEPT ![t] = "nobody"]
          /\ UNCHANGED mail
       \/ /\ sup = "down" /\ t \in Ordered
          /\ held' = [held EXCEPT ![t] = "dropped"]
          /\ UNCHANGED <<life, mail>>
    /\ UNCHANGED <<sup, counted, phaseFlag, mainVars>>

\* A task returns or panics.
Ends(t) ==
    /\ life[t] = "running"
    /\ life' = [life EXCEPT ![t] = "ended"]
    /\ UNCHANGED <<held, mail, sup, counted, phaseFlag, mainVars>>

TakeRegister ==
    /\ sup = "up" /\ mail # <<>> /\ Head(mail) \in Tasks
    /\ LET t == Head(mail) IN
         /\ life' = IF phaseFlag THEN Abort({t}) ELSE life
         /\ held' = [held EXCEPT ![t] = IF phaseFlag THEN "nobody" ELSE "child"]
    /\ mail' = Tail(mail)
    /\ UNCHANGED <<sup, counted, phaseFlag, mainVars>>

Children == {t \in Tasks : held[t] = "child"}

\* Every child is aborted, and the receiver goes with what is behind the message.
TakeShutdown ==
    /\ sup = "up" /\ mail # <<>> /\ Head(mail) = "Shutdown"
    /\ phaseFlag' = TRUE /\ sup' = "down" /\ mail' = <<>>
    /\ life' = Abort(Children)
    /\ held' = [t \in Tasks |-> CASE held[t] = "child" -> "nobody"
                                  [] held[t] = "mail" -> "dropped"
                                  [] OTHER -> held[t]]
    /\ UNCHANGED <<counted, mainVars>>

(* Mutant: a child that ends is let go of and not counted. *)
Reap_Forgets ==
    /\ sup = "up"
    /\ \E t \in Children : life[t] = "ended"
    /\ held' = [t \in Tasks |-> IF t \in Children /\ life[t] = "ended" THEN "nobody" ELSE held[t]]
    /\ UNCHANGED <<life, mail, sup, counted, phaseFlag, mainVars>>

\* reap_finished, once a second.
Reap ==
    /\ sup = "up"
    /\ LET finished == {t \in Children : life[t] = "ended"} IN
         /\ finished # {}
         /\ held' = [t \in Tasks |-> IF t \in finished THEN "nobody" ELSE held[t]]
         /\ counted' = IF phaseFlag THEN counted ELSE counted \cup (finished \cap Critical)
    /\ UNCHANGED <<life, mail, sup, phaseFlag, mainVars>>
-----------------------------------------------------------------------------
\* begin_shutdown, and the deadline is set.
Begin ==
    /\ stage = 0 /\ stage' = 1
    /\ phaseFlag' = TRUE
    /\ UNCHANGED <<taskVars, left, owed, persistenceOk>>

TimeUp ==
    /\ stage \in 1..Len(Phases) /\ left
    /\ left' = FALSE
    /\ UNCHANGED <<taskVars, phaseFlag, stage, owed, persistenceOk>>

Current == Phases[stage]

\* The sessions are closed whatever is left; another phase is passed over when
\* nothing is.
Phase ==
    /\ stage \in 1..(Len(Phases) - 1)
    /\ left \/ Current = "sessions"
    /\ \/ UNCHANGED <<owed, persistenceOk>>
       \/ Current \in Durable /\ owed' = TRUE /\ persistenceOk' = FALSE
    /\ stage' = stage + 1
    /\ UNCHANGED <<taskVars, phaseFlag, left>>

PassOver ==
    /\ stage \in 2..Len(Phases) /\ ~left
    /\ stage' = stage + 1
    /\ owed' = (owed \/ Current \in Durable)
    /\ UNCHANGED <<taskVars, phaseFlag, left, persistenceOk>>

\* shutdown_all: the message is sent, and main waits for the answer or the time.
StopTasks ==
    /\ stage = Len(Phases) /\ left
    /\ "Shutdown" \notin ToSet(mail) /\ sup = "up"
    /\ mail' = Append(mail, "Shutdown")
    /\ UNCHANGED <<life, held, sup, counted, phaseFlag, mainVars>>

TasksStopped ==
    /\ stage = Len(Phases) /\ left /\ sup = "down"
    /\ stage' = stage + 1
    /\ UNCHANGED <<taskVars, phaseFlag, left, owed, persistenceOk>>

Background ==
    \/ TakeRegister \/ TakeShutdown \/ Reap
    \/ \E t \in Tasks : Spawn(t) \/ SpawnOrdered(t) \/ Register(t) \/ Ends(t)

Main == Begin \/ TimeUp \/ Phase \/ PassOver \/ StopTasks \/ TasksStopped

\* Once main has returned the process is gone.
Next == ~Exited /\ (Background \/ Main)

\* The supervisor takes its messages and ticks; a spawner goes on; main works
\* through its phases once it began.
Fairness ==
    /\ WF_vars(~Exited /\ TakeRegister) /\ WF_vars(~Exited /\ TakeShutdown)
    /\ WF_vars(~Exited /\ Reap)
    /\ \A t \in Tasks : WF_vars(~Exited /\ Register(t))
    /\ WF_vars(~Exited /\ Phase) /\ WF_vars(~Exited /\ PassOver)
    /\ WF_vars(~Exited /\ StopTasks) /\ WF_vars(~Exited /\ TasksStopped)

Spec == Init /\ [][Next]_vars /\ Fairness
-----------------------------------------------------------------------------
(* The end of a critical task while the process serves is noticed, however   *)
(* early it comes: before its handle is registered, in the mail, or later.   *)
CriticalEndsAreCounted ==
    \A t \in Critical \ Ordered : (life[t] = "ended" /\ ~phaseFlag) ~> (t \in counted \/ phaseFlag)

(* main.rs reports a clean exit when no flush and no shutdown of a writer    *)
(* failed, so that "an incomplete shutdown" can be told "from a clean one":  *)
(* then they all were done.                                                  *)
CleanExitIsDurable == Exited /\ persistenceOk => ~owed

(* "Long-running background tasks register here [...] instead of becoming    *)
(* detached": a task whose handle was let go of does not run.                *)
NothingIsDetached == \A t \in Tasks : held[t] = "dropped" => life[t] # "running"
=============================================================================
