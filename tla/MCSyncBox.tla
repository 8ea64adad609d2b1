----------------------------- MODULE MCSyncBox -----------------------------
(* Two servers, and one goroutine more than a round can need.              *)
EXTENDS SyncBox, TLC

CONSTANTS t1, t2, g1, g2, g3

MCTickets == {t1, t2}
MCGoroutines == {g1, g2, g3}

Symmetry == Permutations(MCTickets) \cup Permutations(MCGoroutines)

=============================================================================
