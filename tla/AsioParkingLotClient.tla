------------------------ MODULE AsioParkingLotClient ------------------------
(***************************************************************************)
(* The C++ client of netparkingsim.  It differs from the Java client where *)
(* things go wrong: it waits for no answer to a quit, every exception ends *)
(* main, an answer can be lost after it has arrived, and at the end of its *)
(* input it turns round for ever.  Words that are no command and endpoint  *)
(* indices that are no number are reported, and the next line is read: no  *)
(* step here.                                                              *)
(***************************************************************************)
EXTENDS BreakableConnections

VARIABLES at,     \* where main is
          typed,  \* how many commands were typed
          cmd,    \* the command
          wide,   \* whether it came without an endpoint index
          host    \* the index of the endpoint it is being sent to

clientVars == <<at, typed, cmd, wide, host>>

\* main is over, by exit, an exception or a signal, or turns round for ever.
Over == {"exited", "dead", "killed", "spinning"}

ClientInit ==
  /\ at = [c \in Clients |-> "prompt"]
  /\ typed = [c \in Clients |-> 0]
  /\ cmd = [c \in Clients |-> Nothing]
  /\ wide = [c \in Clients |-> FALSE]
  /\ host = [c \in Clients |-> 1]

Goto(c, to) == at' = [at EXCEPT ![c] = to]
Current(c) == <<c, typed[c], host[c]>>

Type(c, word, i, broadcast) ==
  /\ at[c] = "prompt"
  /\ typed[c] < MaxCommands
  /\ broadcast => i = 1
  /\ typed' = [typed EXCEPT ![c] = @ + 1]
  /\ cmd' = [cmd EXCEPT ![c] = word]
  /\ wide' = [wide EXCEPT ![c] = broadcast]
  /\ host' = [host EXCEPT ![c] = i]
  /\ Goto(c, "connecting")
  /\ UNCHANGED conn

\* An index beyond the endpoints is undefined behaviour.  The iterator read
\* there cannot be followed, or leads nowhere: a fault or an exception.
TypeBadIndex(c) ==
  /\ at[c] = "prompt"
  /\ typed[c] < MaxCommands
  /\ Goto(c, "dead")
  /\ UNCHANGED <<conn, typed, cmd, wide, host>>

\* getline fails from now on, and the loop does not look at it.
EndOfInput(c) ==
  /\ at[c] = "prompt"
  /\ Goto(c, "spinning")
  /\ UNCHANGED <<conn, typed, cmd, wide, host>>

Connect(c) ==
  /\ at[c] = "connecting"
  /\ Open(Current(c))
  /\ Goto(c, "writing")
  /\ UNCHANGED <<typed, cmd, wide, host>>

\* asio::connect throws.
Refused(c) ==
  /\ at[c] = "connecting"
  /\ Goto(c, "dead")
  /\ UNCHANGED <<conn, typed, cmd, wide, host>>

\* An exception ends main.
Throw(c) ==
  /\ CloseClient(Current(c))
  /\ Goto(c, "dead")
  /\ UNCHANGED <<typed, cmd, wide, host>>

WriteThrows(c) ==
  /\ at[c] = "writing"
  /\ Current(c) \in broken \/ conn[Current(c)].server = "reset"
  /\ Throw(c)

Last(c) == ~wide[c] \/ host[c] = Len(Hosts)

\* asio::write of a command that is answered.
Write(c) ==
  /\ at[c] = "writing"
  /\ cmd[c] # "quit"
  /\ SendRequest(Current(c), cmd[c])
  /\ Goto(c, "waiting")
  /\ UNCHANGED <<typed, cmd, wide, host>>

\* asio::write of a quit, for which no answer is read.
WriteQuit(c) ==
  /\ at[c] = "writing"
  /\ cmd[c] = "quit"
  /\ SendRequest(Current(c), "quit")
  /\ Goto(c, IF Last(c) THEN "leaving" ELSE "advancing")
  /\ UNCHANGED <<typed, cmd, wide, host>>

\* The socket is destroyed: on to the next endpoint, or std::exit.
CloseAfterQuit(c) ==
  /\ at[c] \in {"leaving", "advancing"}
  /\ CloseClient(Current(c))
  /\ IF at[c] = "leaving"
       THEN Goto(c, "exited") /\ UNCHANGED host
       ELSE Goto(c, "connecting") /\ host' = [host EXCEPT ![c] = @ + 1]
  /\ UNCHANGED <<typed, cmd, wide>>

\* A slip: the answer is compared with the wrong length and never matches.
ReadGoesOn(c) ==
  /\ at[c] = "waiting"
  /\ conn[Current(c)].answer # Nothing
  /\ CloseClient(Current(c))
  /\ IF Last(c)
       THEN Goto(c, "prompt") /\ UNCHANGED host
       ELSE Goto(c, "connecting") /\ host' = [host EXCEPT ![c] = @ + 1]
  /\ UNCHANGED <<typed, cmd, wide>>

\* An answer ends the command, unless more endpoints are left and it is not ok.
Read(c) ==
  /\ at[c] = "waiting"
  /\ conn[Current(c)].answer # Nothing
  /\ CloseClient(Current(c))
  /\ IF Last(c) \/ conn[Current(c)].answer = "ok"
       THEN Goto(c, "prompt") /\ UNCHANGED host
       ELSE Goto(c, "connecting") /\ host' = [host EXCEPT ![c] = @ + 1]
  /\ UNCHANGED <<typed, cmd, wide>>

\* The answer has been read, but remote_endpoint() throws when it is printed.
PrintThrows(c) ==
  /\ at[c] = "waiting"
  /\ conn[Current(c)].answer # Nothing
  /\ Current(c) \in broken
  /\ Throw(c)

\* A slip: the end of the stream is taken for an empty answer.
ReadThrowsNot(c) ==
  /\ at[c] = "waiting"
  /\ conn[Current(c)].answer = Nothing
  /\ conn[Current(c)].server \in {"closed", "reset"} \/ Current(c) \in broken
  /\ CloseClient(Current(c))
  /\ IF Last(c)
       THEN Goto(c, "prompt") /\ UNCHANGED host
       ELSE Goto(c, "connecting") /\ host' = [host EXCEPT ![c] = @ + 1]
  /\ UNCHANGED <<typed, cmd, wide>>

\* read_until throws at the end of the stream as well as at a reset.
ReadThrows(c) ==
  /\ at[c] = "waiting"
  /\ conn[Current(c)].answer = Nothing
  /\ conn[Current(c)].server \in {"closed", "reset"} \/ Current(c) \in broken
  /\ Throw(c)

\* The user kills the client.
Kill(c) ==
  /\ at[c] \in {"writing", "waiting"}
  /\ CloseClient(Current(c))
  /\ Goto(c, "killed")
  /\ UNCHANGED <<typed, cmd, wide, host>>

Dispatch(c) ==
  \/ Write(c) \/ WriteThrows(c) \/ WriteQuit(c) \/ CloseAfterQuit(c)
  \/ Read(c) \/ PrintThrows(c) \/ ReadThrows(c)
=============================================================================
