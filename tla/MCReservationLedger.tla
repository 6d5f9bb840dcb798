------------------------ MODULE MCReservationLedger ------------------------
EXTENDS ReservationLedger, TLC

CONSTANTS r1, r2, r3, k1, k2, k3, own, moved

\* The same slot offered to two tenants: the in-memory backend does not tell
\* them apart when it adds up what a resource already sold.
MCProducts == {own, moved}
MCMarket == [p \in MCProducts |-> "slot"]
MCProductsOf == (k1 :> {own}) @@ (k2 :> {own}) @@ (k3 :> {moved})
MCStart == [p \in MCProducts |-> 2]
MCResources == 1..2
MCInitialOffers == (own :> <<2, 2>>) @@ (moved :> <<1, 2>>)

\* Bound: only what resource 1 offers to the first tenant moves.
OneOfferMoves ==
  \A p \in MCProducts, s \in Resources :
    offers[p][s] # InitialOffers[p][s] => p = own /\ s = 1

Symmetric == Permutations(Reservations) \cup Permutations({k1, k2})
=============================================================================
