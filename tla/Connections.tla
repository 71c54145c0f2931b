---------------------------- MODULE Connections ----------------------------
(***************************************************************************)
(* TCP as the programs of netparkingsim see it, through java.net or asio:  *)
(* a connection carries lines both ways, and the end of a process closes   *)
(* or resets those it still has.  Clients open one connection for each     *)
(* command and host, so a connection is known by these three.              *)
(***************************************************************************)
EXTENDS Integers, Sequences, FiniteSets

CONSTANTS Clients,      \* the client processes
          Servers,      \* the server processes
          Hosts,        \* the endpoints the clients are given, in order
          MaxCommands,  \* how many commands a user types: bounds the runs only
          Commands,     \* the first words that users type
          Nothing       \* no line: an empty buffer, or null

ASSUME ConnectionsAssumption ==
  /\ Hosts \in Seq(Servers) \ {<<>>}
  /\ MaxCommands \in Nat
  /\ Nothing \notin Commands \cup {"quit", "ok", "fail", "number", "unknown"}

\* The connection for the i-th host of the n-th command of client c.
Conns == Clients \X (1..MaxCommands) \X (1..Len(Hosts))

Server(k) == Hosts[k[3]]

VARIABLE conn  \* of each connection, the two ends and what they have to read

Init ==
  conn = [k \in Conns |-> [client  |-> "unused",  \* then "open", "closed"
                           server  |-> "unused",  \* "backlog", "open", "closed", "reset"
                           request |-> Nothing,   \* the line the server has to read
                           answer  |-> Nothing]]  \* the line the client has to read

\* The client's connection waits in the backlog of the server.
Open(k) == conn' = [conn EXCEPT ![k].client = "open", ![k].server = "backlog"]

\* A line sent to an end that is closed is lost, and may bring back a reset.
SendRequest(k, line) ==
  \/ /\ conn[k].server \in {"backlog", "open"}
     /\ conn' = [conn EXCEPT ![k].request = line]
  \/ /\ conn[k].server \in {"closed", "reset"}
     /\ \E end \in {conn[k].server, "reset"} : conn' = [conn EXCEPT ![k].server = end]

SendAnswer(k, line) ==
  conn' = [conn EXCEPT ![k].answer = IF @ = Nothing /\ conn[k].client = "open" THEN line ELSE @]

\* The client closes its end; what it has not read is dropped.
CloseClient(k) == conn' = [conn EXCEPT ![k].client = "closed", ![k].answer = Nothing]

\* The end of the process of server s: a connection that it has not accepted,
\* or on which it has not read everything, is reset, the others are closed.
CloseServer(s) ==
  conn' = [k \in Conns |->
             IF Server(k) = s /\ conn[k].server \in {"backlog", "open"}
               THEN [conn[k] EXCEPT
                       !.server = IF @ = "open" /\ conn[k].request = Nothing
                                    THEN "closed" ELSE "reset",
                       !.request = Nothing]
               ELSE conn[k]]
=============================================================================
