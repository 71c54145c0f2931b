--------------------------- MODULE MCNetParkingSim ---------------------------
(***************************************************************************)
(* Instances of NetParkingSim.                                             *)
(***************************************************************************)
EXTENDS NetParkingSim, TLC

CONSTANTS s1, s2

MCServers == {s1, s2}
MCHosts == <<s1, s2>>

\* Clients are interchangeable; hosts are not, as they are asked in order.
MCSymmetry == Permutations(Clients)
=============================================================================
