------------------------ MODULE BreakableConnections ------------------------
(***************************************************************************)
(* Connections that the network may reset.  The C++ programs differ from   *)
(* the Java ones in what such a reset does to them.                        *)
(***************************************************************************)
EXTENDS Connections

CONSTANT Fragile  \* the connections that the network may reset

ASSUME BreaksAssumption == Fragile \subseteq Conns

VARIABLE broken  \* the connections that have been reset

BreakInit == broken = {}

\* The reset overtakes what is on its way, or comes after it.  Either end may
\* go on for a while before it learns of the reset.
Break(k) ==
  /\ conn[k].client = "open"
  /\ conn[k].server \in {"backlog", "open"}
  /\ k \in Fragile \ broken
  /\ broken' = broken \cup {k}
  /\ \/ conn' = [conn EXCEPT ![k].request = Nothing, ![k].answer = Nothing]
     \/ UNCHANGED conn
=============================================================================
