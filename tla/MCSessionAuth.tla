---------------------------- MODULE MCSessionAuth ----------------------------
(* Three connections of one account. *)
EXTENDS SessionAuth, TLC

CONSTANTS s1, s2, s3

ThreeSessions == {s1, s2, s3}
SessionSymmetry == Permutations(ThreeSessions)

\* Nothing overlaps an authentication; its handler may be cut off.
Calm == {{}, {"slow"}}
\* A grace period may end while the player reconnects.
TimerRace == {{"timer"}}
\* Nothing overlaps an authentication, and it is always undone.
Undisturbed == {{}}
=============================================================================
