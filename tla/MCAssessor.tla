------------------------------ MODULE MCAssessor ------------------------------
(* Three requests: two for one host, one for another.                       *)
EXTENDS Assessor

CONSTANTS t1, t2, t3, h1, h2, a1, a2

MCTask == {t1, t2, t3}
MCHostOf == [t \in MCTask |-> IF t = t3 THEN h2 ELSE h1]
=============================================================================
