---------------------------- MODULE MCListening ----------------------------
(* Small instances of Listening for TLC.                                      *)
EXTENDS Listening

CONSTANTS A, B, R, U

TheAgents == {A, B}
OneReceiver == {A}
OneRole == [a \in TheAgents |-> R]
OnlyUser == {U}

SomeSenders == {B, U, Anonymous}
SomeRecipients == {ToAgent(A), ToAll}

OnlyA == {A}
AandU == {A, U}

\* What goes on in a behaviour: paging while threads grow and shrink,
\* replies on their way, conversations with members that come and go, and the
\* delivery channels.
TheCallSets ==
    {{"post", "human", "broadcast", "reply", "delete", "walk"},
     {"post", "anonymous", "reply", "slow", "delete"},
     {"post", "file", "thread", "member", "notify"},
     {"post", "reply", "member", "delete", "walk"},
     {"post", "broadcast", "register", "thread", "update", "list"},
     {"post", "socket", "read"},
     {"post", "socket", "wait"}}

\* The socket alone.
SocketOnly == {{"post", "socket"}}
=============================================================================
