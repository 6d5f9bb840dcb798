-------------------------- MODULE MCOpenAdrAdapter --------------------------
EXTENDS OpenAdrAdapter

MCResources == 1..2
MCRequested == [i \in 1..2 |-> IF i = 1 THEN 3 ELSE 1]
=============================================================================
