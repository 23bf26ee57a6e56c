------------------------------- MODULE MCChat -------------------------------
EXTENDS Chat
CONSTANTS a, b, c1, c2, q1, q2

\* b has asked q2 in the conversation c2 before.
MCEarlier == {[q |-> q2, user |-> b, conv |-> c2]}
=============================================================================
