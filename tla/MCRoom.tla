------------------------------- MODULE MCRoom -------------------------------
(* A small room for TLC: its control flags, as the runs give them. *)
EXTENDS Room

CONSTANTS u1, u2

Flags(c, t, p) == [cycle |-> c, tournament |-> t, persistent |-> p]

\* A room as players create it.
PlainModes == {Flags(FALSE, FALSE, FALSE)}

\* A permanent room that cycles its host, switched to and from a tournament.
PermanentModes == {Flags(TRUE, FALSE, TRUE), Flags(FALSE, TRUE, TRUE)}
=============================================================================
