----------------------------- MODULE MCAssistant -----------------------------
\* Two pages and two questions of the panel under one stream id, over two
\* models.
EXTENDS Assistant

CONSTANTS p1, p2, a1, a2, s1, m1, m2

MCStreamOf == [r \in {a1, a2} |-> s1]
MCModelOf == [r \in {p1, p2, a1, a2} |-> IF r \in {p1, a1} THEN m1 ELSE m2]
=============================================================================
