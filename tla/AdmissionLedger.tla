-------------------------- MODULE AdmissionLedger --------------------------
(***************************************************************************)
(* What the write-ahead log promises to the code that calls it, without    *)
(* files, markers, locks or crashes.                                       *)
(*                                                                         *)
(* A caller offers an event and is told "accepted" or "refused", or is     *)
(* told nothing (the process died, or the log could not tell).  The worker *)
(* closes an event once its effect is terminal, and is told "acked" or     *)
(* nothing.  A report - the recovery at start-up, or the periodic scan of  *)
(* the pending events - contains every accepted event that nobody tried to *)
(* close, and never an event that was refused or acked.                    *)
(***************************************************************************)
CONSTANT Ids      \* the events that are ever offered

VARIABLES
    accepted,     \* events whose caller was told "durably admitted"
    refused,      \* events whose caller was told "rolled back, not admitted"
    closing,      \* events an acknowledgement may have been recorded for
    acked,        \* events whose acknowledgement was confirmed
    view          \* the pending events of the latest report

ledgerVars == <<accepted, refused, closing, acked, view>>

LedgerInit ==
    /\ accepted = {}
    /\ refused = {}
    /\ closing = {}
    /\ acked = {}
    /\ view = {}

Accept(i) ==
    /\ i \notin accepted \cup refused
    /\ accepted' = accepted \cup {i}
    /\ UNCHANGED <<refused, closing, acked, view>>

Refuse(i) ==
    /\ i \notin accepted \cup refused
    /\ refused' = refused \cup {i}
    /\ UNCHANGED <<accepted, closing, acked, view>>

(* An acknowledgement that may or may not have reached the log. *)
TryClose(i) ==
    /\ i \notin refused
    /\ closing' = closing \cup {i}
    /\ UNCHANGED <<accepted, refused, acked, view>>

Close(i) ==
    /\ i \notin refused
    /\ closing' = closing \cup {i}
    /\ acked' = acked \cup {i}
    /\ UNCHANGED <<accepted, refused, view>>

Report(S) ==
    /\ accepted \ closing \subseteq S
    /\ S \cap (refused \cup acked) = {}
    /\ view' = S
    /\ UNCHANGED <<accepted, refused, closing, acked>>

LedgerNext ==
    \/ \E i \in Ids : Accept(i) \/ Refuse(i) \/ TryClose(i) \/ Close(i)
    \/ \E S \in SUBSET Ids : Report(S)

LedgerSpec == LedgerInit /\ [][LedgerNext]_ledgerVars
=============================================================================
