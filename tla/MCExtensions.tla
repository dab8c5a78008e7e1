----------------------------- MODULE MCExtensions -----------------------------
(***************************************************************************)
(* What is added to the server or replaces it while it runs, one component *)
(* at a time: the plugins, their TCP connections, and the update of the    *)
(* executable. They share no variable here, so a behaviour is one of the   *)
(* component that `focus' names, while the others stay where they began.   *)
(***************************************************************************)
EXTENDS Naturals

CONSTANTS alpha, beta, Concurrency, QueueSize, MaxEvents, MaxCommands, Handles,
          Workers, MaxConns, MaxPending, MaxReads, Console, Executor,
          MaxReleases, Chunks, MaxCrashes, Bot

\* The sets of troubles the components may start with.
CONSTANTS PluginTroubles, TcpTroubles, UpdateTroubles

VARIABLES focus

\* PluginRuntime
VARIABLES pluginTrouble, queue, gate, closed, next, accepted, turn, slots,
          host, call, heard, missed, flush, owed, handler, init, task,
          commands
pluginVars == <<pluginTrouble, queue, gate, closed, next, accepted, turn,
                slots, host, call, heard, missed, flush, owed, handler, init,
                task, commands>>
Plugins == INSTANCE PluginRuntime WITH
            Order <- <<alpha, beta>>,
            Troubles <- PluginTroubles, trouble <- pluginTrouble

\* PluginTcp
VARIABLES tcpTrouble, tcpTask, unreported, inbox, pending, connections,
          tcpSlots, closing, box, gen, active, running, buffered, bytes,
          reads, gone
tcpVars == <<tcpTrouble, tcpTask, unreported, inbox, pending, connections,
             tcpSlots, closing, box, gen, active, running, buffered, bytes,
             reads, gone>>
Tcp == INSTANCE PluginTcp WITH
            Troubles <- TcpTroubles, trouble <- tcpTrouble,
            task <- tcpTask, slots <- tcpSlots

\* AutoUpdate
VARIABLES updateTrouble, latest, updateRunning, players, updatePending,
          applied, told, disk, files, updateTask, thrown, crashes
updateVars == <<updateTrouble, latest, updateRunning, players, updatePending,
                applied, told, disk, files, updateTask, thrown, crashes>>
Update == INSTANCE AutoUpdate WITH
            Troubles <- UpdateTroubles, trouble <- updateTrouble,
            running <- updateRunning, pending <- updatePending,
            task <- updateTask

vars == <<focus, pluginVars, tcpVars, updateVars>>

\* A component that is not in focus is in one of its initial states.
Init ==
    /\ focus \in {"plugins", "tcp", "update"}
    /\ Plugins!Init /\ (focus # "plugins" => pluginTrouble = {})
    /\ Tcp!Init /\ (focus # "tcp" => tcpTrouble = {})
    /\ Update!Init /\ (focus # "update" => updateTrouble = {})

OfPlugins ==
    /\ focus = "plugins" /\ Plugins!Next
    /\ UNCHANGED <<focus, tcpVars, updateVars>>
OfTcp ==
    /\ focus = "tcp" /\ Tcp!Next
    /\ UNCHANGED <<focus, pluginVars, updateVars>>
OfUpdate ==
    /\ focus = "update" /\ Update!Next
    /\ UNCHANGED <<focus, pluginVars, tcpVars>>

Next == OfPlugins \/ OfTcp \/ OfUpdate

Spec == Init /\ [][Next]_vars
-----------------------------------------------------------------------------
(* A plugin is given the events in the order they were told, also when a     *)
(* deadline gave a call up; a flush that is acknowledged means that those    *)
(* before it were heard, and a plugin that is gone leaves no handler behind  *)
(* (plugin.rs).                                                              *)
PluginIfCalm ==
    /\ Plugins!EventsInOrder
    /\ Plugins!FlushMeansHeardIfCalm
    /\ Plugins!NothingLeftBehindIfCalm

(* The callbacks of a connection do not overlap, none comes after that of    *)
(* its end, and a plugin is charged for the connections that it has          *)
(* (plugin_tcp/mod.rs, PluginEventChannel; plugin_tcp/actor.rs).             *)
TcpIfCalm == Tcp!DeliveryIfCalm /\ Tcp!QuotaIfCalm

(* The executable is always a whole release, and a polite update throws      *)
(* nobody out (auto_update.rs).                                              *)
UpdateIfCalm == Update!ExeIsSoundIfCalm /\ Update!NobodyIsThrownOutIfCalm
=============================================================================
