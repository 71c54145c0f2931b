---------------------------- MODULE NetParkingSim ----------------------------
(***************************************************************************)
(* The clients and the servers of netparkingsim together.  Every step is a *)
(* step of one of them; a client meets a server where it connects.         *)
(***************************************************************************)
EXTENDS ParkingLotServer, ParkingLotClient

vars == <<conn, up, count, session, at, typed, cmd, wide, host>>

SimInit == Init /\ ServerInit /\ ClientInit

\* Dialling a host succeeds while its process runs: the kernel completes the
\* connection, whether or not main has come round to accept it.
Dial(c) ==
  \/ up[Server(Current(c))] /\ Connect(c)
  \/ ~up[Server(Current(c))] /\ Refused(c)

\* What a client does by itself, and what its user makes it do.
ClientStep(c) == (Dial(c) \/ Dispatch(c)) /\ UNCHANGED serverVars

UserStep(c) ==
  /\ \/ \E word \in Commands, i \in 1..Len(Hosts), broadcast \in BOOLEAN :
          Type(c, word, i, broadcast)
     \/ TypeBadHost(c)
     \/ EndOfInput(c)
     \/ Kill(c)
  /\ UNCHANGED serverVars

ServerStep(k) == (Accept(k) \/ Serve(k)) /\ UNCHANGED clientVars

ServerFault(s) == AcceptFails(s) /\ UNCHANGED clientVars

\* The servers wait for connections when the last client has gone.
Idle ==
  /\ \A c \in Clients : at[c] \in Over
  /\ \A k \in Conns : session[k].at \in {"none", "ended"}
  /\ UNCHANGED vars

Next ==
  \/ \E c \in Clients : ClientStep(c) \/ UserStep(c)
  \/ \E k \in Conns : ServerStep(k)
  \/ \E s \in Servers : ServerFault(s)
  \/ Idle

Spec == SimInit /\ [][Next]_vars

\* The schedulers run the clients, the accept loops and the sessions.  Nothing
\* makes a user type, or accept fail.
FairSpec ==
  /\ Spec
  /\ \A c \in Clients : WF_vars(ClientStep(c))
  /\ \A k \in Conns : WF_vars(ServerStep(k))
-----------------------------------------------------------------------------
Lines == Commands \cup {Nothing}
Answers == {Nothing, "ok", "fail", "number", "unknown"}

Connection == [client  : {"unused", "open", "closed"},
               server  : {"unused", "backlog", "open", "closed", "reset"},
               request : Lines,
               answer  : Answers]

SessionState == [at    : {"none", "reading", "handling", "replying", "exiting", "ended"},
                 line  : Lines,
                 reply : Answers]

\* The numbers of cars a lot may hold: none, if main let it have no spots.
Occupancies == 0..Capacity \cup {0}

\* Every variable keeps to the values the code can give it; the lot of each
\* server is within its bounds.
TypeOK ==
  /\ conn \in [Conns -> Connection]
  /\ up \in [Servers -> BOOLEAN]
  /\ count \in [Servers -> Occupancies]
  /\ session \in [Conns -> SessionState]
  /\ at \in [Clients -> {"prompt", "connecting", "sending", "waiting"} \cup Over]
  /\ typed \in [Clients -> 0..MaxCommands]
  /\ cmd \in [Clients -> Lines]
  /\ wide \in [Clients -> BOOLEAN]
  /\ host \in [Clients -> 1..Len(Hosts)]

Granted(s, word) ==
  {k \in Conns : Server(k) = s /\ session[k].line = word /\ session[k].reply = "ok"}

\* The number of cars in a lot is the number of "in" requests that its server
\* has granted less that of "out" requests, whoever asked and whatever became
\* of the answer: no request is handled twice and none half.
Ledger ==
  \A s \in Servers :
    count[s] = Cardinality(Granted(s, "in")) - Cardinality(Granted(s, "out"))

\* One command moves one car at most, on all the hosts together, even if the
\* answer that says so is lost.
AtMostOneGrant ==
  \A c \in Clients, n \in 1..MaxCommands :
    \A i, j \in 1..Len(Hosts) :
      /\ <<c, n, i>> \in Granted(Hosts[i], "in") \cup Granted(Hosts[i], "out")
      /\ <<c, n, j>> \in Granted(Hosts[j], "in") \cup Granted(Hosts[j], "out")
      => i = j

\* A client that prompts again after an "in" or "out" without a host number
\* has either had it granted by a host, after the hosts before refused and
\* without asking those behind, or had it refused by all.
BroadcastOutcome ==
  \A c \in Clients :
    at[c] = "prompt" /\ wide[c] /\ cmd[c] \in {"in", "out"} =>
      LET reply(i) == session[<<c, typed[c], i>>].reply IN
        /\ \A i \in 1..(host[c] - 1) : reply(i) = "fail"
        /\ \/ reply(host[c]) = "ok"
           \/ reply(host[c]) = "fail" /\ host[c] = Len(Hosts)
        /\ \A i \in (host[c] + 1)..Len(Hosts) : session[<<c, typed[c], i>>].at = "none"

\* What a client can still be given: an answer to read, the end of the stream,
\* or the attention of a server that runs and has its request.
Attended(k) ==
  \/ conn[k].answer # Nothing
  \/ conn[k].server \in {"closed", "reset"}
  \/ /\ up[Server(k)]
     /\ \/ conn[k].request # Nothing /\ (conn[k].server = "backlog" \/ session[k].at = "reading")
        \/ session[k].at \in {"handling", "replying"}

\* A client never waits in vain: as long as readLine blocks, a line or the end
\* of the stream is there, or its request is with a server that goes on.
NeverInVain == \A c \in Clients : at[c] = "waiting" => Attended(Current(c))

\* A client that has exited on quit leaves no server behind that could go on:
\* each that it named, or all of them, has ended or has a session about to end
\* it, which nothing can keep from it.
QuitOnItsWay ==
  \A c \in Clients, i \in 1..Len(Hosts) :
    at[c] = "exited" /\ cmd[c] = "quit" /\ (wide[c] \/ host[c] = i) =>
      ~up[Hosts[i]] \/ session[<<c, typed[c], i>>].at = "exiting"

\* What a client is owed is on its way in every state: the answer or the end that
\* it waits for, and the end of the servers that it told to quit.
OnItsWay == NeverInVain /\ QuitOnItsWay

\* A client that waits for an answer does not wait for ever, although nothing
\* in the code times out.
NoHang == \A c \in Clients : at[c] = "waiting" ~> at[c] # "waiting"

\* A client that exits on quit has ended the server it named, or all of them.
QuitSpreads ==
  \A c \in Clients, i \in 1..Len(Hosts) :
    (/\ at[c] = "exited"
     /\ cmd[c] = "quit"
     /\ wide[c] \/ host[c] = i) ~> ~up[Hosts[i]]

\* A session ends once its client is gone, whichever way it went.
SessionsEnd ==
  \A k \in Conns : conn[k].client = "closed" ~> \/ session[k].at = "ended"
                                                \/ ~up[Server(k)]
=============================================================================
