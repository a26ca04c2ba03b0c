------------------------------ MODULE MCCarry ------------------------------
(* Model values and bounds for checking Carry with TLC.                    *)
EXTENDS Carry

\* Three client ids: client 0, whose bit the team test reads, and two more.
MCClients == {0, 1, 2}

\* Everyone in one DDRace team.
MCOneTeam == [c \in MCClients |-> 1]

\* Client 0 and client 1 in team 1, client 2 alone in team 2.
MCTwoTeams == [c \in MCClients |-> IF c = 2 THEN 2 ELSE 1]
=============================================================================
