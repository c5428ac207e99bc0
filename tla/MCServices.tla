----------------------------- MODULE MCServices -----------------------------
\* Two claimants of one message; a ring, a queue and journal files of two events
\* each; two agents with their branches; two experiments and two threads; two
\* wrappers, one on the server's machine; two notices.
EXTENDS Services, TLC

CONSTANTS A, B, T1, T2

MCAgents  == {A, B}
MCPool    == {T1, T2}
MCHostOf  == [w \in MCAgents |-> IF w = A THEN HereHost ELSE AwayHost]

\* The threads are interchangeable.
MCThreads == Permutations(MCPool)
=============================================================================
