--------------------------- MODULE AsioParkingSim ---------------------------
(***************************************************************************)
(* The C++ clients and servers of netparkingsim together, over a network   *)
(* that may reset their connections.                                       *)
(***************************************************************************)
EXTENDS AsioParkingLotServer, AsioParkingLotClient

CONSTANT Typed  \* the commands that each user types

ASSUME AsioSimAssumption ==
  /\ Commands \subseteq {"free", "in", "out", "quit"}
  /\ Nothing \notin {"free", "in", "out", "quit"}
  /\ Typed \in [Clients -> SUBSET Commands]

vars == <<conn, broken, up, count, serving, session, at, typed, cmd, wide, host>>

SimInit == Init /\ BreakInit /\ ServerInit /\ ClientInit

\* Connecting succeeds while the process of the server runs.
ClientStep(c) ==
  /\ \/ at[c] = "connecting" /\ up[Server(Current(c))] /\ Connect(c)
     \/ at[c] = "connecting" /\ ~up[Server(Current(c))] /\ Refused(c)
     \/ Dispatch(c)
  /\ UNCHANGED serverVars /\ UNCHANGED broken

UserStep(c) ==
  /\ \/ \E word \in Typed[c], i \in 1..Len(Hosts), broadcast \in BOOLEAN :
          Type(c, word, i, broadcast)
     \/ TypeBadIndex(c)
     \/ EndOfInput(c)
     \/ Kill(c)
  /\ UNCHANGED serverVars /\ UNCHANGED broken

ServerStep(k) == Serve(k) /\ UNCHANGED clientVars /\ UNCHANGED broken

NetworkStep(k) == Break(k) /\ UNCHANGED serverVars /\ UNCHANGED clientVars

\* The servers that are left wait for connections.
Idle ==
  /\ \A c \in Clients : at[c] \in Over
  /\ \A k \in Conns : up[Server(k)] => session[k].at \in {"none", "ended"}
  /\ UNCHANGED vars

Next ==
  \/ \E c \in Clients : ClientStep(c) \/ UserStep(c)
  \/ \E k \in Conns : ServerStep(k) \/ NetworkStep(k)
  \/ Idle

Spec == SimInit /\ [][Next]_vars

\* The clients run, and the thread of each server runs handlers while any are
\* ready.  Nobody has to type, and nothing has to break.
FairSpec ==
  /\ Spec
  /\ \A c \in Clients : WF_vars(ClientStep(c))
  /\ \A s \in Servers : WF_vars(\E k \in Conns : Server(k) = s /\ ServerStep(k))
-----------------------------------------------------------------------------
Answers == {Nothing, "ok", "fail", "number"}

Lines == Commands \cup {Nothing}

Connection == [client  : {"unused", "open", "closed"},
               server  : {"unused", "backlog", "open", "closed", "reset"},
               request : Lines,
               answer  : Answers]

SessionState == [at    : {"none", "reading", "served", "exiting", "ended"},
                 line  : Lines,
                 reply : Answers]

Stages == {"prompt", "connecting", "writing", "waiting", "leaving", "advancing"} \cup Over

\* Every variable keeps to the values the code can give it; a lot keeps its
\* bounds, and its server is busy with one session at a time.
TypeOK ==
  /\ conn \in [Conns -> Connection]
  /\ broken \subseteq Conns
  /\ up \in [Servers -> BOOLEAN]
  /\ count \in [Servers -> 0..Capacity]
  /\ serving \in [Servers -> Conns \cup {Nothing}]
  /\ session \in [Conns -> SessionState]
  /\ at \in [Clients -> Stages]
  /\ typed \in [Clients -> 0..MaxCommands]
  /\ cmd \in [Clients -> Lines]
  /\ wide \in [Clients -> BOOLEAN]
  /\ host \in [Clients -> 1..Len(Hosts)]

\* The connections on which server s has granted a request.
Granted(s, line) ==
  {k \in Conns : Server(k) = s /\ session[k].line = line /\ session[k].reply = "ok"}

\* A lot holds the cars let in and not let out, whatever connections broke and
\* whatever answers were lost: an exception in a handler comes before the
\* request has had its effect, or after all of it.
Ledger ==
  \A s \in Servers :
    count[s] = Cardinality(Granted(s, "in")) - Cardinality(Granted(s, "out"))

\* A command moves a car at one host at most, although the client may not learn
\* that it did.
AtMostOneGrant ==
  \A c \in Clients, n \in 1..MaxCommands :
    Cardinality({i \in 1..Len(Hosts) : session[<<c, n, i>>].line \in {"in", "out"}
                                        /\ session[<<c, n, i>>].reply = "ok"}) <= 1

\* A broadcast of "in" or "out" that came back to the prompt was granted by the
\* host it stopped at, or refused by every host.
BroadcastOutcome ==
  \A c \in Clients :
    at[c] = "prompt" /\ wide[c] /\ cmd[c] \in {"in", "out"} =>
      \/ session[Current(c)].reply = "ok"
      \/ \A i \in 1..Len(Hosts) : session[<<c, typed[c], i>>].reply = "fail"

\* A server ends because it was told to, or because a connection was reset
\* while it had something to do on it: clients that come, go or die do not
\* bring it down.
EndsForCause ==
  \A s \in Servers : ~up[s] =>
    \E k \in Conns : Server(k) = s /\ (session[k].line = "quit" \/ k \in broken)

\* Once a client is done with a broadcast of quit, each server that is still up
\* has had a connection from it.
QuitIsBroadcast ==
  \A c \in Clients :
    cmd[c] = "quit" /\ wide[c] /\ at[c] \in {"exited", "dead"} =>
      \A i \in 1..Len(Hosts) : up[Hosts[i]] => conn[<<c, typed[c], i>>].client # "unused"

\* What a client can still be given: an answer, the end of the stream or an
\* error, or the attention of a server that runs and has its request.
Attended(k) ==
  \/ conn[k].answer # Nothing
  \/ conn[k].server \in {"closed", "reset"} \/ k \in broken
  \/ /\ up[Server(k)]
     /\ \/ conn[k].request # Nothing /\ (conn[k].server = "backlog" \/ session[k].at = "reading")
        \/ serving[Server(k)] = k

\* A client never waits in vain, whatever has been reset and whichever handler
\* has thrown: read_until blocks only while there is something to come.
NeverInVain == \A c \in Clients : at[c] = "waiting" => Attended(Current(c))

\* A client that has exited has left its quit with every server it was to end,
\* unread, being served or carried out, unless the connection was reset: to
\* close without waiting for an answer loses none.
QuitOnItsWay ==
  \A c \in Clients, i \in 1..Len(Hosts) :
    at[c] = "exited" /\ (wide[c] \/ host[c] = i) =>
      LET k == <<c, typed[c], i>> IN
        \/ ~up[Hosts[i]]
        \/ k \in broken
        \/ conn[k].request = "quit"
        \/ serving[Hosts[i]] = k /\ session[k].line = "quit"

\* What a client is owed is on its way in every state: the answer or the end that
\* it waits for, and the quits it left behind.
OnItsWay == NeverInVain /\ QuitOnItsWay

\* A client that waits for an answer does not wait for ever.
NoHang == \A c \in Clients : at[c] = "waiting" ~> at[c] # "waiting"

\* A client that exits has ended every server it was to end, although it reads
\* no answer and closes at once, unless the connection was reset.
QuitArrives ==
  \A c \in Clients :
    at[c] = "exited" ~> \A i \in 1..Len(Hosts) :
      wide[c] \/ host[c] = i => ~up[Hosts[i]] \/ <<c, typed[c], i>> \in broken

\* A client that is done leaves no socket behind in a server, whether it was
\* answered, gave up in the middle of a command or was never accepted.
SocketsClosed ==
  \A c \in Clients :
    at[c] \in Over ~> \A k \in Conns : k[1] = c => conn[k].server \notin {"backlog", "open"}
=============================================================================
