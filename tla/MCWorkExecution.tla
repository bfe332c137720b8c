--------------------------- MODULE MCWorkExecution --------------------------
(* Models of WorkExecution for TLC.  The first Work goes through its whole *)
(* life, the second one is there to wait for it and to keep its owner busy *)
(* and is bounded more tightly.                                            *)
EXTENDS WorkExecution

CONSTANTS w1, w2, m1, m2, Long, Short

LongAndShort == [w \in Work |-> IF w = w1 THEN Long ELSE Short]

NoReopens == [m \in Member |-> 1]

OneReopens == [m \in Member |-> IF m = m1 THEN 2 ELSE 1]

TwoReopens == [m \in Member |-> IF m = m1 THEN 3 ELSE 1]

=============================================================================
