-------------------------- MODULE MCCommandServer --------------------------
(* Instances of CommandServer for TLC. *)
EXTENDS CommandServer, TLC

CONSTANTS c1, c2

AllRequests == {"Connect", "ChallengeCode", "Disconnect"}

\* Every client may send every request.
FullMenu == [c \in Clients |-> AllRequests]

\* One client connects and answers challenges, the other disconnects.
SplitMenu == [c \in Clients |->
                 IF c = c1 THEN {"Connect", "ChallengeCode"} ELSE {"Disconnect"}]

\* The requests of tests/test_server.rs: connect, disconnect, and nothing in between.
UpAndDown == [c \in Clients |-> {"Connect", "Disconnect"}]

\* Three requests in all, the second client's one racing the first client's two.
TwoAndOne == [c \in Clients |-> IF c = c1 THEN 2 ELSE 1]
OneEach == [c \in Clients |-> 1]

TargetSymmetry == Permutations(Connectors) \cup Permutations(Tunnels)
=============================================================================
