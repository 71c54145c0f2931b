-------------------------- MODULE ParkingLotClient --------------------------
(***************************************************************************)
(* The interactive client of netparkingsim, ParkingLotClientMain with its  *)
(* UnicastCommandDispatchers: a command with a host number goes to that    *)
(* host, one without to each host in turn, until the first that answers    *)
(* "ok".  Each dispatch opens a connection, sends a line, waits for one    *)
(* line and closes the connection.                                         *)
(***************************************************************************)
EXTENDS Connections

VARIABLES at,     \* where main is: "prompt", "connecting", "sending", "waiting", ...
          typed,  \* how many commands were typed
          cmd,    \* the command, its first word
          wide,   \* whether it came without a host number
          host    \* the index of the host it is being sent to

clientVars == <<at, typed, cmd, wide, host>>

\* The ways in which the process ends: by itself, or by an exception or signal.
Over == {"exited", "dead"}

ClientInit ==
  /\ at = [c \in Clients |-> "prompt"]
  /\ typed = [c \in Clients |-> 0]
  /\ cmd = [c \in Clients |-> Nothing]
  /\ wide = [c \in Clients |-> FALSE]
  /\ host = [c \in Clients |-> 1]

Goto(c, to) == at' = [at EXCEPT ![c] = to]

\* The connection of the dispatch under way.
Current(c) == <<c, typed[c], host[c]>>

\* A command with a host number i, or without one.
Type(c, word, i, broadcast) ==
  /\ at[c] = "prompt"
  /\ typed[c] < MaxCommands
  /\ broadcast => i = 1
  /\ typed' = [typed EXCEPT ![c] = @ + 1]
  /\ cmd' = [cmd EXCEPT ![c] = word]
  /\ wide' = [wide EXCEPT ![c] = broadcast]
  /\ host' = [host EXCEPT ![c] = i]
  /\ Goto(c, "connecting")
  /\ UNCHANGED conn

\* The host number is beyond the last argument: an exception nobody catches.
\* (Below 1, or no number, it is reported and the client prompts again.)
TypeBadHost(c) ==
  /\ at[c] = "prompt"
  /\ typed[c] < MaxCommands
  /\ Goto(c, "dead")
  /\ UNCHANGED <<conn, typed, cmd, wide, host>>

\* The end of the input ends main.
EndOfInput(c) ==
  /\ at[c] = "prompt"
  /\ Goto(c, "exited")
  /\ UNCHANGED <<conn, typed, cmd, wide, host>>

Connect(c) ==
  /\ at[c] = "connecting"
  /\ Open(Current(c))
  /\ Goto(c, "sending")
  /\ UNCHANGED <<typed, cmd, wide, host>>

\* Connection refused: execute throws, and main does not catch it.
Refused(c) ==
  /\ at[c] = "connecting"
  /\ Goto(c, "dead")
  /\ UNCHANGED <<conn, typed, cmd, wide, host>>

\* println with autoflush; an exception in it is hidden by PrintWriter.
Send(c) ==
  /\ at[c] = "sending"
  /\ SendRequest(Current(c), cmd[c])
  /\ Goto(c, "waiting")
  /\ UNCHANGED <<typed, cmd, wide, host>>

\* A slip: the loop does not stop at the first host that agrees.
StopsAtLast(c, resp) == ~wide[c] \/ host[c] = Len(Hosts)

\* A slip: the loop makes no exception of quit.
StopsAtFirstOk(c, resp) == ~wide[c] \/ host[c] = Len(Hosts) \/ resp = "ok"

\* The loop over the hosts ends at the first "ok", except for quit.
Stops(c, resp) == ~wide[c] \/ host[c] = Len(Hosts) \/ (resp = "ok" /\ cmd[c] # "quit")

\* What main does with a response: the next host, the end or the next prompt.
Proceed(c, resp) ==
  /\ CloseClient(Current(c))
  /\ host' = [host EXCEPT ![c] = IF Stops(c, resp) THEN @ ELSE @ + 1]
  /\ Goto(c, CASE ~Stops(c, resp)                     -> "connecting"
               [] Stops(c, resp) /\ cmd[c] = "quit"   -> "exited"
               [] Stops(c, resp) /\ cmd[c] # "quit"   -> "prompt")
  /\ UNCHANGED <<typed, cmd, wide>>

Receive(c) ==
  /\ at[c] = "waiting"
  /\ conn[Current(c)].answer # Nothing
  /\ Proceed(c, conn[Current(c)].answer)

\* A slip: a null response is taken for a refusal.
ReceiveNullGoesOn(c) ==
  /\ at[c] = "waiting"
  /\ conn[Current(c)].answer = Nothing
  /\ conn[Current(c)].server = "closed"
  /\ Proceed(c, Nothing)

\* readLine returns null at the end of the stream.  With a host number main
\* prints it like any response; in the loop it calls null.equals and dies.
ReceiveNull(c) ==
  /\ at[c] = "waiting"
  /\ conn[Current(c)].answer = Nothing
  /\ conn[Current(c)].server = "closed"
  /\ \/ /\ ~wide[c]
        /\ Proceed(c, Nothing)
     \/ /\ wide[c]
        /\ CloseClient(Current(c))
        /\ Goto(c, "dead")
        /\ UNCHANGED <<typed, cmd, wide, host>>

\* readLine throws: execute wraps the exception and main dies of it.
ReceiveReset(c) ==
  /\ at[c] = "waiting"
  /\ conn[Current(c)].answer = Nothing
  /\ conn[Current(c)].server = "reset"
  /\ CloseClient(Current(c))
  /\ Goto(c, "dead")
  /\ UNCHANGED <<typed, cmd, wide, host>>

\* The user kills the client.
Kill(c) ==
  /\ at[c] \in {"sending", "waiting"}
  /\ CloseClient(Current(c))
  /\ Goto(c, "dead")
  /\ UNCHANGED <<typed, cmd, wide, host>>

Dispatch(c) == Send(c) \/ Receive(c) \/ ReceiveNull(c) \/ ReceiveReset(c)
=============================================================================
