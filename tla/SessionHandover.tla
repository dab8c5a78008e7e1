---------------------------- MODULE SessionHandover ----------------------------
(***************************************************************************)
(* What the sessions of one account promise (session.rs, AuthPhase and     *)
(* rollback_failed_auth).  At most one of them is in service.  A new one   *)
(* takes over at once, for good, and closes the one it replaces.  Until    *)
(* then that one stays in service for as long as it is connected and the   *)
(* account is not removed, whatever becomes of the others.                 *)
(***************************************************************************)
CONSTANT Sessions

VARIABLES
    serving,    \* the session that commands are taken from, as a set
    past,       \* sessions that have served
    connected,  \* those of them that are not closed
    online,     \* the account is registered on the server
    abrupt      \* an authentication may be cut off without being undone

vars == <<serving, past, connected, online, abrupt>>

Init ==
    /\ serving = {} /\ past = {} /\ connected = {} /\ online = FALSE
    /\ abrupt \in BOOLEAN

Take(s) ==
    /\ s \notin past
    /\ serving' = {s} /\ past' = past \cup {s} /\ online' = TRUE
    /\ connected' = (connected \ serving) \cup {s}

Close(s) ==
    /\ s \in connected
    /\ connected' = connected \ {s} /\ serving' = serving \ {s}
    /\ UNCHANGED <<past, online>>

Leave ==
    /\ serving' = {} /\ online' = FALSE
    /\ UNCHANGED <<past, connected>>

Orphan ==
    /\ abrupt
    /\ serving' = {} /\ UNCHANGED <<past, connected, online>>

Next ==
    /\ (\E s \in Sessions : Take(s) \/ Close(s)) \/ Leave \/ Orphan
    /\ UNCHANGED abrupt

Spec == Init /\ [][Next]_vars
=============================================================================
