------------------------------ MODULE MCOutbox ------------------------------
EXTENDS Outbox

CONSTANTS w1, w2, i1, i2
=============================================================================
