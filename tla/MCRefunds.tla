------------------------------ MODULE MCRefunds ------------------------------
\* An order of three units and up to three refunds: one, two or all of them.
EXTENDS OrderRefunds

CONSTANTS r1, r2, r3

MCAmount == [r \in Refunds |-> IF r = r1 THEN 1 ELSE IF r = r2 THEN 2 ELSE 3]
==============================================================================
