-------------------------- MODULE MCAsioParkingSim --------------------------
(***************************************************************************)
(* Instances of AsioParkingSim.                                            *)
(***************************************************************************)
EXTENDS AsioParkingSim

CONSTANTS a, b, s1, s2

MCClients == {a, b}
MCServers == {s1, s2}
MCHosts == <<s1, s2>>

\* The first server has a descriptor for one connection only.
MCMaxSockets == [s \in MCServers |-> IF s = s1 THEN 1 ELSE 2]

MCTyped == [c \in MCClients |-> IF c = a THEN Commands ELSE {"in"}]

MCQuits == [c \in MCClients |-> {"quit"}]

\* The connection of one client with the first host may be reset.
MCFragile == {<<a, 1, 1>>}
=============================================================================
