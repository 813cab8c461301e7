--------------------------- MODULE MCControlServer ---------------------------
(***************************************************************************)
(* Instances of the control server for TLC.                                *)
(***************************************************************************)
EXTENDS ControlServer, TLC

CONSTANTS c1, c2, c3

OneClient == {c1}
TwoClients == {c1, c2}
ThreeClients == {c1, c2, c3}

\* Descriptors for both clients, which ask for ports of their own.
EnoughForTwo == 4 :> [c \in Clients |-> IF c = c1 THEN 1 ELSE 2]

\* Descriptors for one client.
EnoughForOne == 2 :> [c \in Clients |-> 1]

\* Enough, or for one of two clients that ask for the same port.
EnoughOrScarce == EnoughForTwo @@ EnoughForOne

\* Three descriptors for clients that ask for the same port, one after the other.
ThreeInTurn == 3 :> [c \in Clients |-> 1]

Nobody == {}

\* Where all clients are alike.
AnyClient == Permutations(Clients)
=============================================================================
