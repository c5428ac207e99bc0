------------------------------ MODULE MCCollab ------------------------------
\* Two tabs on an empty file.  The bounds let an agent write while both edit, what
\* the other has inserted as well, or a tab lose its connection, miss an edit and come
\* back.  The invariants that have no run fail with less: one tab (OneEditor), or a
\* letter to delete (OneLetter).
EXTENDS Collab, TLC

CONSTANTS E, F

MCEditors   == {E, F}
OneEditor   == {E}
MCStartText == << >>
OneLetter   == <<1>>
MCSymmetry  == Permutations(MCEditors)
=============================================================================
