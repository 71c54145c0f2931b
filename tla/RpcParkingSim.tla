--------------------------- MODULE RpcParkingSim ---------------------------
(***************************************************************************)
(* The clients and the server of rpcparkingsim together, and what their    *)
(* users can rely on: the lot behind the remote calls is a ParkingLot.     *)
(***************************************************************************)
EXTENDS RpcServer, RpcClient

vars == <<link, running, listening, main, count, session, at, line, typed>>

SimInit == Init /\ ServerInit /\ ClientInit

\* Dialling succeeds while the server listens, whether or not main accepts.
ClientStep(c) ==
  /\ \/ listening /\ Dial(c)
     \/ ~listening /\ Refused(c)
     \/ Proceed(c)
  /\ UNCHANGED serverVars

UserStep(c) ==
  /\ \/ \E l \in Proper \cup BadNumber \cup {OddLine} : Type(c, l)
     \/ EndOfInput(c)
     \/ Kill(c)
  /\ UNCHANGED serverVars

MainStep(c) == (Accept(c) \/ Greet(c) \/ GreetFails(c)) /\ UNCHANGED clientVars

SessionStep(c) == Serve(c) /\ UNCHANGED clientVars

ProcessStep == (AcceptFails \/ CollectListener \/ LastThreadEnds) /\ UNCHANGED clientVars

\* The clients are over, and the server is, or waits for a connection.
Idle ==
  /\ \A c \in Clients : at[c] \in Over /\ ~Live(c)
  /\ running => main = "accepting" /\ \A c \in Clients : link[c].server # "backlog"
  /\ UNCHANGED vars

Next ==
  \/ \E c \in Clients : ClientStep(c) \/ UserStep(c) \/ MainStep(c) \/ SessionStep(c)
  \/ ProcessStep
  \/ Idle

Spec == SimInit /\ [][Next]_vars

\* The schedulers run the clients, main and the sessions, and the JVM ends with
\* its last thread.  Nobody has to type, and nothing has to be collected.
FairSpec ==
  /\ Spec
  /\ \A c \in Clients : WF_vars(ClientStep(c)) /\ WF_vars(SessionStep(c))
  /\ WF_vars(\E c \in Clients : MainStep(c))
  /\ WF_vars(LastThreadEnds /\ UNCHANGED clientVars)
-----------------------------------------------------------------------------
Words == {"none", "in", "out"} \cup Methods
Args == {<<>>} \cup {<<n>> : n \in Amounts}
Lines == Proper \cup BadNumber \cup {OddLine, NoLine}

SessionState == [at     : {"none", "reading", "args", "invoking", "replying", "ended"},
                 method : Words,
                 args   : Args,
                 reply  : Reply \cup {NoReply}]

Stages == {"dialling", "connected", "greeting", "prompt", "sending", "sendingArgs", "waiting"}
            \cup Over

\* The amounts for which the lot keeps its contract, as SynchronizedParkingLot
\* shows.  Nothing in the programs refuses the others.
SafeAmounts == \A n \in Amounts : n >= 0 /\ n + Capacity <= MaxInt

\* Every variable keeps to the values the code can give it: the lot its bounds
\* while users ask for safe amounts, and a connection at most one request and
\* one answer.
TypeOK ==
  /\ \A c \in Clients :
       /\ link[c].client \in {"unused", "open", "closed"}
       /\ link[c].server \in {"unused", "backlog", "open", "closed"}
       /\ Len(link[c].up) <= 2 /\ Len(link[c].down) <= 1
  /\ session \in [Clients -> SessionState]
  /\ running \in BOOLEAN /\ listening \in BOOLEAN
  /\ main \in Clients \cup {"accepting", "dead"}
  /\ count \in JavaInt /\ (SafeAmounts => count \in 0..Capacity)
  /\ at \in [Clients -> Stages]
  /\ line \in [Clients -> Lines]
  /\ typed \in [Clients -> Nat] /\ \A c \in Clients : typed[c] <= MaxLines[c]

\* An answer belongs to the request its client waits with: it is what the
\* session returned for just that line.  A client that waits without having
\* sent anything (a line of three words) never takes another's answer for its.
AnswersMatch ==
  \A c \in Clients :
    /\ at[c] = "waiting" /\ link[c].down # <<>> =>
         /\ link[c].down = <<session[c].reply>>
         /\ session[c].method = line[c].method /\ session[c].args = line[c].args
    /\ at[c] \in {"prompt", "sending", "sendingArgs"} => link[c].down = <<>>
    /\ line[c] = OddLine => link[c].down = <<>> /\ link[c].up = <<>>

\* main stops accepting only because a client left before it was greeted, never
\* because of one that is slow.
AcceptsUnlessDeserted ==
  main = "dead" => \E c \in Clients : /\ link[c].client = "closed"
                                      /\ link[c].server \in {"open", "closed"}
                                      /\ session[c].at = "none"

\* The request of the client is on its way or carried out, complete, even if
\* the client has died since.
Sent(c) == at[c] \in {"waiting", "dead"} /\ line[c] \in Proper /\ line[c].method \in {"in", "out", "free"}

\* The session has invoked the method.
Answered(c) == link[c].up = <<>> /\ session[c].reply # NoReply

\* The call of the lot that a line asks for.
CallOf(l) ==
  CASE l.method = "in"   -> [method |-> "park", n |-> l.args[1]]
    [] l.method = "out"  -> [method |-> "unpark", n |-> l.args[1]]
    [] l.method = "free" -> [method |-> "remaining", n |-> 1]

LotStage == [c \in Clients |-> IF ~Sent(c) THEN "idle"
                               ELSE IF Answered(c) THEN "answered" ELSE "called"]
LotOp == [c \in Clients |-> IF Sent(c) THEN CallOf(line[c]) ELSE [method |-> "none", n |-> 0]]
LotReply == [c \in Clients |-> IF Sent(c) /\ Answered(c) THEN session[c].reply.value ELSE 0]

\* The remote calls are calls of one ParkingLot, each client a thread: every
\* request sent is carried out at most once, at one instant after it was typed
\* and before its answer arrives, all or nothing, and is answered by what it
\* did.  Clients and server may die at any point.
Lot == INSTANCE ParkingLot WITH Threads <- Clients, occupied <- count,
                                stage <- LotStage, op <- LotOp, reply <- LotReply

Linearizable == Lot!Spec

\* The session has the request of the client to read, or is busy with it.
Attended(c) ==
  /\ running
  /\ \/ session[c].at \in {"reading", "args"} /\ link[c].up # <<>>
     \/ session[c].at \in {"invoking", "replying"}

\* Nobody waits in vain: while a client waits for an answer, there is something
\* for it to read, or its session works on its request, or the connection is
\* closed.
NeverInVain ==
  \A c \in Clients : at[c] = "waiting" /\ line[c] # OddLine =>
    link[c].down # <<>> \/ link[c].server = "closed" \/ Attended(c)

\* The header that a client waits for is there, or its own is before a live main,
\* which has accepted it or finds it in the backlog, or the connection is closed.
\* Only those in the backlog of a main that has died wait for nothing, until the
\* listening socket is collected.
WelcomeOnItsWay ==
  \A c \in Clients : at[c] = "greeting" =>
    \/ link[c].down # <<>> \/ link[c].server = "closed"
    \/ /\ running /\ link[c].up # <<>>
       /\ main = c \/ (listening /\ link[c].server = "backlog" /\ main # "dead")
    \/ main = "dead" /\ link[c].server = "backlog"

\* No exit gets lost: until it has ended the server, its session has it to read
\* or to invoke, though the client that sent it has gone.
ExitOnItsWay ==
  \A c \in Clients : at[c] = "exited" =>
    ~running \/ (Attended(c) /\ session[c].at # "replying")

\* What a client is owed is on its way in every state: the header, the answer or
\* the end of the stream that it waits for (but for the header of a main that has
\* died), and the exit that it left behind.
OnItsWay == NeverInVain /\ WelcomeOnItsWay /\ ExitOnItsWay

\* A client that has sent a request does not wait for ever: it gets an answer,
\* or learns that there will be none.
NoHang ==
  \A c \in Clients : at[c] = "waiting" /\ line[c] # OddLine ~> at[c] # "waiting"

\* A client that has connected is served, unless main has died of another one.
Welcomed ==
  \A c \in Clients : at[c] = "greeting" ~> at[c] # "greeting" \/ main = "dead"

\* A client that leaves by exit brings the server down.
ExitEndsServer == \A c \in Clients : at[c] = "exited" ~> ~running

\* A session ends when its client has gone, in the middle of a request or not,
\* and a server that accepts no more ends with its last client.
ThreadsEnd ==
  /\ \A c \in Clients : Live(c) /\ at[c] \in Over ~> ~Live(c)
  /\ main = "dead" /\ (\A c \in Clients : at[c] \in Over) ~> ~running
=============================================================================
