----------------------------- MODULE MCRateLimit -----------------------------
(* Two hook processes, two identities and a short window, for TLC.         *)
EXTENDS RateLimit, TLC

CONSTANTS p1, p2, alice, bob, c1

MCProcs      == {p1, p2}
MCIdentities == {alice, bob}
MCCalls      == {c1}
MCLimits     == {1, 2}
OneProc      == {p1}
OneLimit     == {1}

ProcsAlike == Permutations(MCProcs) \cup Permutations(MCIdentities)

=============================================================================
