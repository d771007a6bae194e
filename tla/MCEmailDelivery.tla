-------------------------- MODULE MCEmailDelivery --------------------------
EXTENDS EmailDelivery, TLC

\* Workers and codes are interchangeable: no constant tells them apart here.
Symmetry == Permutations(Worker) \cup Permutations(Challenge)
=============================================================================
