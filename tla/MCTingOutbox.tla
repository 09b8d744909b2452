--------------------------- MODULE MCTingOutbox ---------------------------
(* Small instances of the outbox for TLC.                                  *)
EXTENDS TingOutbox, TLC
CONSTANTS s1, s2, s3, p1, p2, l1, l2

MCSends == {s1, s2, s3}
MCObserved == {s2}
MCParked == {s3}
MCTwo == {s1, s2}
MCNone == {}
MCPublishers == {p1, p2}
MCOnePublisher == {p1}
MCLeases == {l1, l2}
MCOneLease == {l1}
MCAskedDelays == {0}
Symmetry == Permutations(MCLeases) \cup Permutations(MCPublishers)
=============================================================================
