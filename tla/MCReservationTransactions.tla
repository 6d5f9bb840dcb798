---------------------- MODULE MCReservationTransactions ----------------------
EXTENDS ReservationTransactions, TLC

CONSTANTS c1, c2, r1, r2, k1, k2, noon, later

MCMarket == [p \in Products |-> p]
MCStart == [p \in Products |-> 9]
MCResources == 1..2
MCInitialOffers == [p \in Products |-> [s \in Resources |-> 1]]
OneResource == 1..1

Symmetric == Permutations(Sessions) \cup Permutations(Reservations)
               \cup Permutations(Keys)
=============================================================================
