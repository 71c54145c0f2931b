--------------------------- MODULE ObjectStreams ---------------------------
(***************************************************************************)
(* The connections of rpcparkingsim: one for each client for as long as it *)
(* runs, with an ObjectOutputStream and an ObjectInputStream at both ends. *)
(* Each writeObject sends its object at once, and constructing a stream    *)
(* sends or awaits a header, which is one more object here.                *)
(***************************************************************************)
EXTENDS Integers, Sequences

CONSTANTS Clients,  \* the client processes
          Amounts   \* the numbers of cars that their users ask for

VARIABLE link  \* of each client's connection, its ends and what is on its way

Init ==
  link = [c \in Clients |-> [client |-> "unused",  \* then "open", "closed"
                             server |-> "unused",  \* "backlog", "open", "closed"
                             up     |-> <<>>,      \* sent, not read by the server
                             down   |-> <<>>]]     \* sent, not read by the client

Connect(c) == link' = [link EXCEPT ![c].client = "open", ![c].server = "backlog"]

\* What is sent to an end that has closed stays unread for good.
SendUp(c, object) == link' = [link EXCEPT ![c].up = Append(@, object)]

SendDown(c, object) ==
  link' = [link EXCEPT ![c].down = IF link[c].client = "open" THEN Append(@, object) ELSE @]

ReadUp(c) == link' = [link EXCEPT ![c].up = Tail(@)]

ReadDown(c) == link' = [link EXCEPT ![c].down = Tail(@)]

CloseClient(c) == link' = [link EXCEPT ![c].client = "closed", ![c].down = <<>>]

\* The server closes its ends of the connections of C.  Whether a reader then
\* meets the end of the stream or a reset makes no difference to the client.
CloseServer(C) ==
  link' = [c \in Clients |-> IF c \in C /\ link[c].server \in {"backlog", "open"}
                               THEN [link[c] EXCEPT !.server = "closed"]
                               ELSE link[c]]

\* A reader has read all there was, and the other end has closed.
AtEndUp(c) == link[c].up = <<>> /\ link[c].client = "closed"
AtEndDown(c) == link[c].down = <<>> /\ link[c].server = "closed"
=============================================================================
