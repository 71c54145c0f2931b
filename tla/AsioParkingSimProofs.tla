------------------------ MODULE AsioParkingSimProofs ------------------------
(***************************************************************************)
(* Proofs about AsioParkingSim, for any number of clients, servers, hosts  *)
(* and commands, any capacity, and any connections that may break.         *)
(***************************************************************************)
EXTENDS AsioParkingSim, FiniteSetTheorems, TLAPS

Moves == {"in", "out"}

\* A connection that no command has come to yet.
Unused(k) ==
  /\ conn[k].client = "unused" /\ conn[k].server = "unused"
  /\ conn[k].request = Nothing /\ conn[k].answer = Nothing
  /\ session[k].at = "none" /\ session[k].line = Nothing /\ session[k].reply = Nothing

\* A host that has answered without moving a car.
Declined(k) ==
  /\ session[k].reply # Nothing
  /\ ~(session[k].line \in Moves /\ session[k].reply = "ok")

\* A host that is not asked to move one, and so never will.
Harmless(k) == conn[k].request \notin Moves /\ session[k].line \notin Moves

Passed(k) == Declined(k) \/ Harmless(k)

\* A session serves one request, and its answer is the only one its client gets.
OneRequest(k) ==
  /\ conn[k].request # Nothing =>
       /\ conn[k].server \in {"backlog", "open"}
       /\ session[k].line = Nothing /\ session[k].reply = Nothing
  /\ conn[k].answer # Nothing => conn[k].answer = session[k].reply
  /\ conn[k].server \in {"unused", "backlog"} => session[k].at = "none"
  /\ conn[k].server = "open" => session[k].at \in {"reading", "served", "exiting"}
  /\ session[k].at \in {"none", "reading"} => session[k].line = Nothing
  /\ session[k].line = Nothing <=> session[k].reply = Nothing
  /\ session[k].at \in {"served", "exiting"} => session[k].reply # Nothing
  /\ session[k].at = "exiting" => session[k].line = "quit"
  /\ session[k].line \in Moves => session[k].reply \in {"ok", "fail"}

\* Where a client is with its commands: which connections it has not come to,
\* what became of the hosts before the present one, and that the present one
\* has got nothing while the client is still to write.
Progress(k) ==
  LET c == k[1] IN
    /\ k[2] > typed[c] => Unused(k)
    /\ k[2] = typed[c] =>
         /\ conn[k].request \in {Nothing, cmd[c]} /\ session[k].line \in {Nothing, cmd[c]}
         /\ k[3] > host[c] => Unused(k)
         /\ k[3] < host[c] => IF ~wide[c] THEN Unused(k)
                              ELSE IF cmd[c] = "quit" THEN Harmless(k) ELSE Declined(k)
         /\ k[3] = host[c] /\ at[c] = "connecting" => Unused(k)
         /\ k[3] = host[c] /\ at[c] \in {"writing", "waiting", "leaving", "advancing"} =>
              conn[k].client = "open"
         /\ k[3] = host[c] /\ at[c] = "writing" =>
              conn[k].request = Nothing /\ session[k].line = Nothing
         /\ k[3] = host[c] /\ at[c] = "prompt" /\ wide[c] /\ cmd[c] \in Moves =>
              session[k].reply = "ok" \/ (session[k].reply = "fail" /\ host[c] = Len(Hosts))

\* A client that is at work, or has typed a broadcast, has typed something; one
\* that goes on after a quit has a host to go to.
Started(c) ==
  /\ at[c] \in {"connecting", "writing", "waiting", "leaving", "advancing"} \/ wide[c] => typed[c] # 0
  /\ at[c] = "advancing" => wide[c] /\ host[c] # Len(Hosts) /\ cmd[c] = "quit"

\* Of two hosts of a command, the second is not asked before the first is
\* passed, if the first is asked at all.
InTurn ==
  \A j, k \in Conns :
    j[1] = k[1] /\ j[2] = k[2] /\ j[3] < k[3] => Unused(k) \/ Unused(j) \/ Passed(j)

\* The inductive invariant.
Inv ==
  /\ TypeOK
  /\ \A k \in Conns : OneRequest(k) /\ Progress(k)
  /\ \A c \in Clients : Started(c)
  /\ InTurn
-----------------------------------------------------------------------------

\* A connection is known by the client, the number of the command and that of
\* the host.
LEMMA ConnsFacts ==
  /\ \A k \in Conns : /\ k[1] \in Clients /\ k[2] \in 1..MaxCommands /\ k[3] \in 1..Len(Hosts)
                      /\ k = <<k[1], k[2], k[3]>>
                      /\ Server(k) \in Servers
  /\ \A c \in Clients, n \in 1..MaxCommands, i \in 1..Len(Hosts) : <<c, n, i>> \in Conns
  /\ Len(Hosts) \in Nat \ {0} /\ MaxCommands \in Nat
<1>1. Hosts \in Seq(Servers) /\ Hosts # <<>> /\ MaxCommands \in Nat
  BY ConnectionsAssumption
<1>2. Len(Hosts) \in Nat \ {0} /\ \A i \in 1..Len(Hosts) : Hosts[i] \in Servers
  BY <1>1
<1>3. QED
  BY <1>1, <1>2 DEF Conns, Server

LEMMA InitInv == SimInit => Inv
<1> SUFFICES ASSUME SimInit PROVE Inv
  OBVIOUS
<1> USE DEF SimInit, Init, BreakInit, ServerInit, ClientInit
<1>1. TypeOK
  BY ConnsFacts, AsioServerAssumption, ConnectionsAssumption
     DEF TypeOK, Connection, SessionState, Lines, Answers, Stages, Over
<1>2. \A k \in Conns : Unused(k)
  BY DEF Unused
<1>3. \A k \in Conns : OneRequest(k) /\ Progress(k)
  BY <1>2, ConnsFacts, ConnectionsAssumption, AsioSimAssumption DEF OneRequest, Progress, Unused, Moves
<1>4. \A c \in Clients : Started(c)
  BY DEF Started
<1>5. QED
  BY <1>1, <1>2, <1>3, <1>4 DEF Inv, InTurn

\* What a server or the network does to a connection leaves the others alone,
\* and a host that is passed stays so.
LEMMA ServerKeeps ==
  ASSUME Inv, NEW k \in Conns, TypeOK', UNCHANGED clientVars,
         \A j \in Conns : j # k => conn'[j] = conn[j] /\ session'[j] = session[j],
         ~Unused(k), Declined(k) => Declined(k)', Harmless(k) => Harmless(k)',
         OneRequest(k)', Progress(k)'
  PROVE  Inv'
<1>1. \A j \in Conns : j # k => (OneRequest(j) => OneRequest(j)')
  BY DEF OneRequest
<1>2. \A j \in Conns : j # k => /\ Unused(j) <=> Unused(j)'
                                /\ Declined(j) <=> Declined(j)'
                                /\ Harmless(j) <=> Harmless(j)'
  BY DEF Unused, Declined, Harmless
<1>3. \A j \in Conns : j # k => Progress(j)'
  <2> SUFFICES ASSUME NEW j \in Conns, j # k PROVE Progress(j)'
    OBVIOUS
  <2>1. Progress(j)
    BY DEF Inv
  <2>2. QED
    BY <2>1, <1>2 DEF Progress, clientVars
<1>4. InTurn'
  BY <1>2 DEF Inv, InTurn, Passed
<1>5. \A c \in Clients : Started(c)'
  BY DEF Inv, Started, clientVars
<1>6. QED
  BY <1>1, <1>3, <1>4, <1>5 DEF Inv

LEMMA AcceptKeeps ==
  ASSUME Inv, NEW k \in Conns, Accept(k), UNCHANGED clientVars, UNCHANGED broken
  PROVE  Inv'
<1> USE DEF Accept
<1>1. conn \in [Conns -> Connection] /\ session \in [Conns -> SessionState] /\ TypeOK
  BY DEF Inv, TypeOK
<1>2. OneRequest(k) /\ Progress(k)
  BY DEF Inv
<1>3. conn' \in [Conns -> Connection] /\ session' \in [Conns -> SessionState]
  <2>1. conn' \in [Conns -> Connection]
    BY <1>1 DEF Connection
  <2>2. session' \in [Conns -> SessionState]
    BY <1>1 DEF SessionState
  <2>3. QED
    BY <2>1, <2>2
<1>4. /\ count' \in [Servers -> 0..Capacity] /\ up' \in [Servers -> BOOLEAN]
      /\ serving' \in [Servers -> Conns \cup {Nothing}] /\ broken' \subseteq Conns
  BY <1>1 DEF TypeOK
<1>5. TypeOK'
  BY <1>1, <1>3, <1>4 DEF TypeOK, clientVars
<1>6. \A j \in Conns : j # k => conn'[j] = conn[j] /\ session'[j] = session[j]
  BY <1>1
<1>7. ~Unused(k)
  BY <1>1, <1>2, ConnsFacts, ConnectionsAssumption DEF Unused, OneRequest
<1>8. (Declined(k) => Declined(k)') /\ (Harmless(k) => Harmless(k)')
  BY <1>1, <1>2, ConnectionsAssumption DEF Declined, Harmless, OneRequest, Moves, Connection, SessionState
<1>9. OneRequest(k)'
  BY <1>1, <1>2, <1>3, ConnectionsAssumption, AsioSimAssumption DEF OneRequest, Connection, SessionState, Moves
<1>10. Progress(k)'
  BY <1>1, <1>2, <1>3, <1>7, <1>8, ConnectionsAssumption DEF Progress, OneRequest, Connection, SessionState, clientVars
<1>11. QED
  BY <1>5, <1>6, <1>7, <1>8, <1>9, <1>10, ServerKeeps

LEMMA ReadFailsKeeps ==
  ASSUME Inv, NEW k \in Conns, ReadFails(k), UNCHANGED clientVars, UNCHANGED broken
  PROVE  Inv'
<1> USE DEF ReadFails
<1>1. conn \in [Conns -> Connection] /\ session \in [Conns -> SessionState] /\ TypeOK
  BY DEF Inv, TypeOK
<1>2. OneRequest(k) /\ Progress(k)
  BY DEF Inv
<1>3. conn' \in [Conns -> Connection] /\ session' \in [Conns -> SessionState]
  <2>1. conn' \in [Conns -> Connection]
    BY <1>1 DEF Connection
  <2>2. session' \in [Conns -> SessionState]
    BY <1>1 DEF SessionState
  <2>3. QED
    BY <2>1, <2>2
<1>4. /\ count' \in [Servers -> 0..Capacity] /\ up' \in [Servers -> BOOLEAN]
      /\ serving' \in [Servers -> Conns \cup {Nothing}] /\ broken' \subseteq Conns
  BY <1>1 DEF TypeOK
<1>5. TypeOK'
  BY <1>1, <1>3, <1>4 DEF TypeOK, clientVars
<1>6. \A j \in Conns : j # k => conn'[j] = conn[j] /\ session'[j] = session[j]
  BY <1>1
<1>7. ~Unused(k)
  BY <1>1, <1>2, ConnsFacts, ConnectionsAssumption DEF Unused, OneRequest
<1>8. (Declined(k) => Declined(k)') /\ (Harmless(k) => Harmless(k)')
  BY <1>1, <1>2, ConnectionsAssumption DEF Declined, Harmless, OneRequest, Moves, Connection, SessionState
<1>9. OneRequest(k)'
  BY <1>1, <1>2, <1>3, ConnectionsAssumption, AsioSimAssumption DEF OneRequest, Connection, SessionState, Moves
<1>10. Progress(k)'
  BY <1>1, <1>2, <1>3, <1>7, <1>8, ConnectionsAssumption DEF Progress, OneRequest, Connection, SessionState, clientVars
<1>11. QED
  BY <1>5, <1>6, <1>7, <1>8, <1>9, <1>10, ServerKeeps

LEMMA HandleKeeps ==
  ASSUME Inv, NEW k \in Conns, Handle(k), UNCHANGED clientVars, UNCHANGED broken
  PROVE  Inv'
<1> USE DEF Handle, Compute
<1>1. conn \in [Conns -> Connection] /\ session \in [Conns -> SessionState] /\ TypeOK
  BY DEF Inv, TypeOK
<1>2. OneRequest(k) /\ Progress(k)
  BY DEF Inv
<1>3. conn' \in [Conns -> Connection] /\ session' \in [Conns -> SessionState]
  <2>1. conn' \in [Conns -> Connection]
    BY <1>1 DEF Connection, Lines
  <2>2. session' \in [Conns -> SessionState]
    <3>1. PICK r \in Answers :
            session' = [session EXCEPT ![k] = [at |-> "served", line |-> conn[k].request, reply |-> r]]
      BY DEF Answers
    <3>2. conn[k].request \in Lines
      BY <1>1 DEF Connection
    <3>3. QED
      BY <1>1, <3>1, <3>2 DEF SessionState
  <2>3. QED
    BY <2>1, <2>2
<1>4. /\ count' \in [Servers -> 0..Capacity] /\ up' \in [Servers -> BOOLEAN]
      /\ serving' \in [Servers -> Conns \cup {Nothing}] /\ broken' \subseteq Conns
  <2>1. /\ count \in [Servers -> 0..Capacity] /\ Capacity \in Nat /\ Server(k) \in Servers
        /\ serving \in [Servers -> Conns \cup {Nothing}]
    BY <1>1, ConnsFacts, AsioServerAssumption DEF TypeOK
  <2>2. PICK change \in {-1, 0, 1} : /\ count' = [count EXCEPT ![Server(k)] = @ + change]
                                    /\ count[Server(k)] + change \in 0..Capacity
    BY <2>1
  <2>3. QED
    BY <1>1, <2>1, <2>2 DEF TypeOK
<1>5. TypeOK'
  BY <1>1, <1>3, <1>4 DEF TypeOK, clientVars
<1>6. \A j \in Conns : j # k => conn'[j] = conn[j] /\ session'[j] = session[j]
  BY <1>1
<1>7. ~Unused(k)
  BY <1>1, <1>2, ConnsFacts, ConnectionsAssumption DEF Unused, OneRequest
<1>8. (Declined(k) => Declined(k)') /\ (Harmless(k) => Harmless(k)')
  BY <1>1, <1>2, ConnectionsAssumption DEF Declined, Harmless, OneRequest, Moves, Connection, SessionState
<1>9. OneRequest(k)'
  <2>1. /\ conn'[k].request = Nothing /\ conn'[k].answer = conn[k].answer
        /\ conn'[k].server = "open"
        /\ session[k].at = "reading" /\ conn[k].request # Nothing
        /\ session'[k].at = "served" /\ session'[k].line = conn[k].request
    <3>1. /\ conn'[k] = [conn[k] EXCEPT !.request = Nothing]
          /\ session'[k].at = "served" /\ session'[k].line = conn[k].request
      BY <1>1
    <3>2. conn[k] \in Connection
      BY <1>1
    <3>3. session[k].at = "reading" /\ conn[k].request # Nothing
      <4>1. Nothing \notin {"free", "quit"} \cup Moves
        BY ConnectionsAssumption, AsioSimAssumption DEF Moves
      <4>2. QED
        BY <4>1 DEF Moves
    <3>4. conn[k].server = "open"
      BY <1>2, <3>3 DEF OneRequest
    <3>5. QED
      BY <3>1, <3>2, <3>3, <3>4 DEF Connection
  <2>2. session'[k].reply # Nothing /\ (session'[k].line \in Moves => session'[k].reply \in {"ok", "fail"})
    <3>1. Nothing \notin {"ok", "fail", "number"}
      BY ConnectionsAssumption
    <3>2. QED
      BY <1>1, <3>1 DEF Moves
  <2> HIDE DEF Handle, Compute
  <2>3. conn[k].answer = Nothing
    BY <1>2, <2>1 DEF OneRequest
  <2>4. QED
    BY <2>1, <2>2, <2>3 DEF OneRequest
<1>10. Progress(k)'
  BY <1>1, <1>2, <1>3, <1>7, <1>8, ConnectionsAssumption DEF Progress, OneRequest, Connection, SessionState, clientVars
<1>11. QED
  BY <1>5, <1>6, <1>7, <1>8, <1>9, <1>10, ServerKeeps

LEMMA SendKeeps ==
  ASSUME Inv, NEW k \in Conns, Send(k), UNCHANGED clientVars, UNCHANGED broken
  PROVE  Inv'
<1> USE DEF Send
<1>1. conn \in [Conns -> Connection] /\ session \in [Conns -> SessionState] /\ TypeOK
  BY DEF Inv, TypeOK
<1>2. OneRequest(k) /\ Progress(k)
  BY DEF Inv
<1>3. conn' \in [Conns -> Connection] /\ session' \in [Conns -> SessionState]
  <2>1. conn' \in [Conns -> Connection]
    <3>1. session[k].reply \in Answers
      BY <1>1 DEF SessionState
    <3>2. PICK a \in Answers, e \in {conn[k].server, "closed"} :
            conn' = [conn EXCEPT ![k].answer = a, ![k].server = e]
      <4>1. conn[k].answer \in Answers
        BY <1>1 DEF Connection
      <4>2. QED
        BY <1>1, <3>1, <4>1
    <3>3. conn[k].server \in {"unused", "backlog", "open", "closed", "reset"}
      BY <1>1 DEF Connection
    <3>4. [conn[k] EXCEPT !.answer = a, !.server = e] \in Connection
      <4> HIDE DEF Send
      <4>1. conn[k] \in Connection
        BY <1>1
      <4>2. QED
        BY <3>2, <3>3, <4>1 DEF Connection
    <3>5. conn' = [conn EXCEPT ![k] = [conn[k] EXCEPT !.answer = a, !.server = e]]
      BY <3>2
    <3>6. QED
      BY <1>1, <3>4, <3>5
  <2>2. session' \in [Conns -> SessionState]
    BY <1>1 DEF SessionState
  <2>3. QED
    BY <2>1, <2>2
<1>4. /\ count' \in [Servers -> 0..Capacity] /\ up' \in [Servers -> BOOLEAN]
      /\ serving' \in [Servers -> Conns \cup {Nothing}] /\ broken' \subseteq Conns
  BY <1>1, ConnsFacts DEF TypeOK
<1>5. TypeOK'
  BY <1>1, <1>3, <1>4 DEF TypeOK, clientVars
<1>6. \A j \in Conns : j # k => conn'[j] = conn[j] /\ session'[j] = session[j]
  BY <1>1
<1>7. ~Unused(k)
  BY <1>1, <1>2, ConnsFacts, ConnectionsAssumption DEF Unused, OneRequest
<1>8. (Declined(k) => Declined(k)') /\ (Harmless(k) => Harmless(k)')
  BY <1>1, <1>2, ConnectionsAssumption DEF Declined, Harmless, OneRequest, Moves, Connection, SessionState
<1>9. OneRequest(k)'
  BY <1>1, <1>2, <1>3, ConnectionsAssumption, AsioSimAssumption DEF OneRequest, Connection, SessionState, Moves
<1>10. Progress(k)'
  BY <1>1, <1>2, <1>3, <1>7, <1>8, ConnectionsAssumption DEF Progress, OneRequest, Connection, SessionState, clientVars
<1>11. QED
  BY <1>5, <1>6, <1>7, <1>8, <1>9, <1>10, ServerKeeps

LEMMA BreakKeeps ==
  ASSUME Inv, NEW k \in Conns, Break(k), UNCHANGED clientVars, UNCHANGED serverVars
  PROVE  Inv'
<1> USE DEF Break, serverVars
<1>1. conn \in [Conns -> Connection] /\ session \in [Conns -> SessionState] /\ TypeOK
  BY DEF Inv, TypeOK
<1>2. OneRequest(k) /\ Progress(k)
  BY DEF Inv
<1>3. conn' \in [Conns -> Connection] /\ session' \in [Conns -> SessionState]
  <2>1. conn' \in [Conns -> Connection]
    <3>1. Nothing \in Lines /\ Nothing \in Answers
      BY DEF Lines, Answers
    <3>2. QED
      BY <1>1, <3>1 DEF Connection
  <2>2. session' \in [Conns -> SessionState]
    BY <1>1 DEF serverVars
  <2>3. QED
    BY <2>1, <2>2
<1>4. /\ count' \in [Servers -> 0..Capacity] /\ up' \in [Servers -> BOOLEAN]
      /\ serving' \in [Servers -> Conns \cup {Nothing}] /\ broken' \subseteq Conns
  BY <1>1 DEF TypeOK, serverVars
<1>5. TypeOK'
  BY <1>1, <1>3, <1>4 DEF TypeOK, clientVars
<1>6. \A j \in Conns : j # k => conn'[j] = conn[j] /\ session'[j] = session[j]
  BY <1>1
<1>7. ~Unused(k)
  BY <1>1, <1>2, ConnsFacts, ConnectionsAssumption DEF Unused, OneRequest
<1>8. (Declined(k) => Declined(k)') /\ (Harmless(k) => Harmless(k)')
  BY <1>1, <1>2, ConnectionsAssumption DEF Declined, Harmless, OneRequest, Moves, Connection, SessionState
<1>9. OneRequest(k)'
  BY <1>1, <1>2, <1>3, ConnectionsAssumption, AsioSimAssumption DEF OneRequest, Connection, SessionState, Moves
<1>10. Progress(k)'
  BY <1>1, <1>2, <1>3, <1>7, <1>8, ConnectionsAssumption DEF Progress, OneRequest, Connection, SessionState, clientVars
<1>11. QED
  BY <1>5, <1>6, <1>7, <1>8, <1>9, <1>10, ServerKeeps

\* What the end of a process does to a connection: those of the others stay as
\* they are, and its own have no end at the server any more.
Ending(s, j) ==
  /\ conn'[j].client = conn[j].client /\ conn'[j].answer = conn[j].answer
  /\ conn'[j].request \in {conn[j].request, Nothing}
  /\ conn[j].server \in {"unused", "closed", "reset"} => conn'[j] = conn[j]
  /\ conn[j].server \in {"backlog", "open"} /\ Server(j) = s =>
       conn'[j].server \in {"closed", "reset"} /\ conn'[j].request = Nothing
  /\ Server(j) # s => conn'[j] = conn[j]

LEMMA EndProcessEffect ==
  ASSUME Inv, NEW s \in Servers, EndProcess(s)
  PROVE  (\A j \in Conns : Ending(s, j)) /\ conn' \in [Conns -> Connection]
<1> DEFINE Closed(r) == [r EXCEPT !.server = IF r.server = "open" /\ r.request = Nothing
                                                THEN "closed" ELSE "reset",
                                 !.request = Nothing]
<1>1. conn \in [Conns -> Connection]
  BY DEF Inv, TypeOK
<1>2. conn' = [k \in Conns |-> IF Server(k) = s /\ conn[k].server \in {"backlog", "open"}
                                 THEN Closed(conn[k]) ELSE conn[k]]
  BY DEF EndProcess, CloseServer
<1>3. \A r \in Connection :
        /\ Closed(r) \in Connection /\ Closed(r).client = r.client /\ Closed(r).answer = r.answer
        /\ Closed(r).request = Nothing /\ Closed(r).server \in {"closed", "reset"}
  BY DEF Connection, Lines
<1> HIDE DEF Closed
<1>4. ASSUME NEW j \in Conns PROVE Ending(s, j)
  BY <1>1, <1>2, <1>3 DEF Ending
<1>5. conn' \in [Conns -> Connection]
  BY <1>1, <1>2, <1>3
<1>6. QED
  BY <1>4, <1>5

\* The end of a server process reaches many connections at once, and no session.
LEMMA EndKeeps ==
  ASSUME Inv, NEW s \in Servers, EndProcess(s),
         UNCHANGED <<count, session>>, UNCHANGED clientVars, UNCHANGED broken
  PROVE  Inv'
<1>1. conn \in [Conns -> Connection] /\ TypeOK
  BY DEF Inv, TypeOK
<1>2. \A j \in Conns : OneRequest(j) /\ Progress(j)
  BY DEF Inv
<1>3. \A j \in Conns : Ending(s, j)
  BY EndProcessEffect
<1>4. conn' \in [Conns -> Connection]
  BY EndProcessEffect
<1>5. TypeOK'
  BY <1>1, <1>4 DEF TypeOK, EndProcess, clientVars
<1>6. \A j \in Conns : /\ Unused(j) => Unused(j)'
                       /\ Declined(j) => Declined(j)'
                       /\ Harmless(j) => Harmless(j)'
  BY <1>3, AsioSimAssumption DEF Ending, Unused, Declined, Harmless, Moves
<1>7. \A j \in Conns : OneRequest(j)'
  <2> SUFFICES ASSUME NEW j \in Conns PROVE OneRequest(j)'
    OBVIOUS
  <2>1. OneRequest(j) /\ conn[j].server \in {"unused", "backlog", "open", "closed", "reset"}
    BY <1>1, <1>2 DEF Connection
  <2>2. CASE Server(j) = s
    BY <1>3, <2>1, <2>2 DEF Ending, OneRequest
  <2>3. CASE Server(j) # s
    BY <1>3, <2>1, <2>3 DEF Ending, OneRequest
  <2>4. QED
    BY <2>2, <2>3
<1>8. \A j \in Conns : Progress(j)'
  <2> SUFFICES ASSUME NEW j \in Conns PROVE Progress(j)'
    OBVIOUS
  <2>1. Progress(j)
    BY <1>2
  <2>2. QED
    BY <1>3, <1>6, <2>1 DEF Ending, Progress, clientVars
<1>9. InTurn'
  BY <1>6 DEF Inv, InTurn, Passed
<1>10. \A c \in Clients : Started(c)'
  BY DEF Inv, Started, clientVars
<1>11. QED
  BY <1>5, <1>7, <1>8, <1>9, <1>10 DEF Inv

\* The connection under way exists, and its place in the command is known.
LEMMA CurrentFacts ==
  ASSUME Inv, NEW c \in Clients
  PROVE  /\ at[c] \in {"connecting", "writing", "waiting", "leaving", "advancing"} => Current(c) \in Conns
         /\ Current(c)[1] = c /\ Current(c)[2] = typed[c] /\ Current(c)[3] = host[c]
         /\ \A k \in Conns : k[1] = c /\ k[2] = typed[c] /\ k[3] = host[c] => k = Current(c)
         /\ \A k \in Conns : k[1] = c => k[2] \in Nat /\ k[3] \in 1..Len(Hosts)
         /\ typed[c] \in 0..MaxCommands /\ host[c] \in 1..Len(Hosts) /\ Len(Hosts) \in Nat /\ MaxCommands \in Nat
<1>1. typed[c] \in 0..MaxCommands /\ host[c] \in 1..Len(Hosts) /\ Started(c)
  BY DEF Inv, TypeOK
<1>2. QED
  BY <1>1, ConnsFacts DEF Current, Started

\* The hosts before the present one are passed, and those after it unused, so
\* what a client does at the present one leaves the hosts in turn.
LEMMA InTurnKept ==
  ASSUME Inv, UNCHANGED serverVars, NEW c \in Clients,
         \A k \in Conns : k # Current(c) => conn'[k] = conn[k]
  PROVE  InTurn'
<1>1. session' = session /\ InTurn /\ \A k \in Conns : Progress(k)
  BY DEF serverVars, Inv
<1>2. \A k \in Conns : k # Current(c) => (Unused(k) => Unused(k)') /\ (Passed(k) => Passed(k)')
  BY <1>1 DEF Unused, Passed, Declined, Harmless
<1> SUFFICES ASSUME NEW j \in Conns, NEW k \in Conns,
                    j[1] = k[1], j[2] = k[2], j[3] < k[3]
             PROVE  Unused(k)' \/ Unused(j)' \/ Passed(j)'
  BY DEF InTurn
<1>3. CASE j = Current(c)
  <2>1. k # Current(c) /\ k[1] = c /\ k[2] = typed[c] /\ k[3] > host[c]
    BY <1>3, CurrentFacts
  <2>2. Unused(k)
    BY <1>1, <2>1 DEF Progress
  <2>3. QED
    BY <1>2, <2>1, <2>2
<1>4. CASE k = Current(c)
  <2>1. j # Current(c) /\ j[1] = c /\ j[2] = typed[c] /\ j[3] < host[c]
    BY <1>4, CurrentFacts
  <2>2. Unused(j) \/ Passed(j)
    BY <1>1, <2>1 DEF Progress, Passed
  <2>3. QED
    BY <1>2, <2>1, <2>2
<1>5. CASE j # Current(c) /\ k # Current(c)
  BY <1>1, <1>2, <1>5 DEF InTurn
<1>6. QED
  BY <1>3, <1>4, <1>5

\* What a client does concerns its own connections only.
LEMMA ClientKeeps ==
  ASSUME Inv, NEW c \in Clients, TypeOK', UNCHANGED serverVars,
         \A k \in Conns : k # Current(c) => conn'[k] = conn[k],
         \A d \in Clients : d # c => /\ at'[d] = at[d] /\ typed'[d] = typed[d] /\ cmd'[d] = cmd[d]
                                     /\ wide'[d] = wide[d] /\ host'[d] = host[d],
         \A k \in Conns : k = Current(c) => OneRequest(k)',
         \A k \in Conns : k[1] = c => Progress(k)',
         Started(c)'
  PROVE  Inv'
<1>1. \A k \in Conns : OneRequest(k)'
  <2> SUFFICES ASSUME NEW k \in Conns, k # Current(c) PROVE OneRequest(k)'
    OBVIOUS
  <2>1. conn'[k] = conn[k] /\ session' = session /\ OneRequest(k)
    BY DEF Inv, serverVars
  <2>2. QED
    BY <2>1 DEF OneRequest
<1>2. \A k \in Conns : Progress(k)'
  <2> SUFFICES ASSUME NEW k \in Conns, k[1] # c PROVE Progress(k)'
    OBVIOUS
  <2>1. k[1] \in Clients /\ k # Current(c)
    BY ConnsFacts DEF Current
  <2>2. conn'[k] = conn[k] /\ session' = session /\ Progress(k)
    BY <2>1 DEF Inv, serverVars
  <2>3. QED
    BY <2>1, <2>2 DEF Progress, Unused, Declined, Harmless
<1>3. \A d \in Clients : Started(d)'
  BY DEF Inv, Started
<1>4. InTurn'
  BY InTurnKept
<1>5. QED
  BY <1>1, <1>2, <1>3, <1>4 DEF Inv

LEMMA TypeKeeps ==
  ASSUME Inv, NEW c \in Clients, NEW word \in Commands,
         NEW i \in 1..Len(Hosts), NEW broadcast \in BOOLEAN, Type(c, word, i, broadcast), UNCHANGED serverVars, UNCHANGED broken
  PROVE  Inv'
<1> USE DEF Type, Goto
<1>1. /\ TypeOK /\ conn \in [Conns -> Connection] /\ session \in [Conns -> SessionState]
      /\ \A k \in Conns : OneRequest(k) /\ Progress(k)
      /\ Started(c)
  BY DEF Inv, TypeOK
<1>2. /\ at[c] \in {"connecting", "writing", "waiting", "leaving", "advancing"} => Current(c) \in Conns
      /\ Current(c)[1] = c /\ Current(c)[2] = typed[c] /\ Current(c)[3] = host[c]
      /\ \A k \in Conns : k[1] = c /\ k[2] = typed[c] /\ k[3] = host[c] => k = Current(c)
      /\ \A k \in Conns : k[1] = c => k[2] \in Nat /\ k[3] \in 1..Len(Hosts)
      /\ typed[c] \in 0..MaxCommands /\ host[c] \in 1..Len(Hosts) /\ Len(Hosts) \in Nat /\ MaxCommands \in Nat
  BY CurrentFacts
<1>3. /\ at \in [Clients -> Stages]
      /\ typed \in [Clients -> 0..MaxCommands] /\ cmd \in [Clients -> Lines]
      /\ wide \in [Clients -> BOOLEAN] /\ host \in [Clients -> 1..Len(Hosts)]
  BY <1>1 DEF TypeOK
<1>4. \A k \in Conns : k # Current(c) => conn'[k] = conn[k]
  BY <1>1
<1>5. \A d \in Clients : d # c => /\ at'[d] = at[d] /\ typed'[d] = typed[d] /\ cmd'[d] = cmd[d]
                                  /\ wide'[d] = wide[d] /\ host'[d] = host[d]
  BY <1>3
<1>6. TypeOK'
  <2>1. conn' \in [Conns -> Connection]
    BY <1>1, <1>2 DEF Connection, Answers
  <2>2. /\ at' \in [Clients -> Stages]
        /\ typed' \in [Clients -> 0..MaxCommands] /\ cmd' \in [Clients -> Lines]
        /\ wide' \in [Clients -> BOOLEAN] /\ host' \in [Clients -> 1..Len(Hosts)]
    BY <1>1, <1>2, <1>3 DEF Stages, Over, Lines, Started
  <2>3. QED
    BY <1>1, <2>1, <2>2 DEF TypeOK, serverVars
<1>7. \A k \in Conns : k = Current(c) => OneRequest(k)'
  BY <1>1, ConnectionsAssumption DEF OneRequest, Connection, serverVars, Progress
<1>8. \A k \in Conns : k[1] = c => Progress(k)'
  BY <1>1, <1>2, <1>3, ConnectionsAssumption, AsioSimAssumption DEF Progress, Unused, Declined, Harmless, Moves, OneRequest, Connection, serverVars, Over
<1>9. Started(c)'
  BY <1>1, <1>2, <1>3 DEF Started, Stages, Over
<1>10. QED
  BY <1>4, <1>5, <1>6, <1>7, <1>8, <1>9, ClientKeeps

LEMMA TypeBadIndexKeeps ==
  ASSUME Inv, NEW c \in Clients, TypeBadIndex(c), UNCHANGED serverVars, UNCHANGED broken
  PROVE  Inv'
<1> USE DEF TypeBadIndex, Goto
<1>1. /\ TypeOK /\ conn \in [Conns -> Connection] /\ session \in [Conns -> SessionState]
      /\ \A k \in Conns : OneRequest(k) /\ Progress(k)
      /\ Started(c)
  BY DEF Inv, TypeOK
<1>2. /\ at[c] \in {"connecting", "writing", "waiting", "leaving", "advancing"} => Current(c) \in Conns
      /\ Current(c)[1] = c /\ Current(c)[2] = typed[c] /\ Current(c)[3] = host[c]
      /\ \A k \in Conns : k[1] = c /\ k[2] = typed[c] /\ k[3] = host[c] => k = Current(c)
      /\ \A k \in Conns : k[1] = c => k[2] \in Nat /\ k[3] \in 1..Len(Hosts)
      /\ typed[c] \in 0..MaxCommands /\ host[c] \in 1..Len(Hosts) /\ Len(Hosts) \in Nat /\ MaxCommands \in Nat
  BY CurrentFacts
<1>3. /\ at \in [Clients -> Stages]
      /\ typed \in [Clients -> 0..MaxCommands] /\ cmd \in [Clients -> Lines]
      /\ wide \in [Clients -> BOOLEAN] /\ host \in [Clients -> 1..Len(Hosts)]
  BY <1>1 DEF TypeOK
<1>4. \A k \in Conns : k # Current(c) => conn'[k] = conn[k]
  BY <1>1
<1>5. \A d \in Clients : d # c => /\ at'[d] = at[d] /\ typed'[d] = typed[d] /\ cmd'[d] = cmd[d]
                                  /\ wide'[d] = wide[d] /\ host'[d] = host[d]
  BY <1>3
<1>6. TypeOK'
  <2>1. conn' \in [Conns -> Connection]
    BY <1>1, <1>2 DEF Connection, Answers
  <2>2. /\ at' \in [Clients -> Stages]
        /\ typed' \in [Clients -> 0..MaxCommands] /\ cmd' \in [Clients -> Lines]
        /\ wide' \in [Clients -> BOOLEAN] /\ host' \in [Clients -> 1..Len(Hosts)]
    BY <1>1, <1>2, <1>3 DEF Stages, Over, Lines, Started
  <2>3. QED
    BY <1>1, <2>1, <2>2 DEF TypeOK, serverVars
<1>7. \A k \in Conns : k = Current(c) => OneRequest(k)'
  BY <1>1, ConnectionsAssumption DEF OneRequest, Connection, serverVars, Progress
<1>8. \A k \in Conns : k[1] = c => Progress(k)'
  BY <1>1, <1>2, <1>3, ConnectionsAssumption, AsioSimAssumption DEF Progress, Unused, Declined, Harmless, Moves, OneRequest, Connection, serverVars, Over
<1>9. Started(c)'
  BY <1>1, <1>2, <1>3 DEF Started, Stages, Over
<1>10. QED
  BY <1>4, <1>5, <1>6, <1>7, <1>8, <1>9, ClientKeeps

LEMMA EndOfInputKeeps ==
  ASSUME Inv, NEW c \in Clients, EndOfInput(c), UNCHANGED serverVars, UNCHANGED broken
  PROVE  Inv'
<1> USE DEF EndOfInput, Goto
<1>1. /\ TypeOK /\ conn \in [Conns -> Connection] /\ session \in [Conns -> SessionState]
      /\ \A k \in Conns : OneRequest(k) /\ Progress(k)
      /\ Started(c)
  BY DEF Inv, TypeOK
<1>2. /\ at[c] \in {"connecting", "writing", "waiting", "leaving", "advancing"} => Current(c) \in Conns
      /\ Current(c)[1] = c /\ Current(c)[2] = typed[c] /\ Current(c)[3] = host[c]
      /\ \A k \in Conns : k[1] = c /\ k[2] = typed[c] /\ k[3] = host[c] => k = Current(c)
      /\ \A k \in Conns : k[1] = c => k[2] \in Nat /\ k[3] \in 1..Len(Hosts)
      /\ typed[c] \in 0..MaxCommands /\ host[c] \in 1..Len(Hosts) /\ Len(Hosts) \in Nat /\ MaxCommands \in Nat
  BY CurrentFacts
<1>3. /\ at \in [Clients -> Stages]
      /\ typed \in [Clients -> 0..MaxCommands] /\ cmd \in [Clients -> Lines]
      /\ wide \in [Clients -> BOOLEAN] /\ host \in [Clients -> 1..Len(Hosts)]
  BY <1>1 DEF TypeOK
<1>4. \A k \in Conns : k # Current(c) => conn'[k] = conn[k]
  BY <1>1
<1>5. \A d \in Clients : d # c => /\ at'[d] = at[d] /\ typed'[d] = typed[d] /\ cmd'[d] = cmd[d]
                                  /\ wide'[d] = wide[d] /\ host'[d] = host[d]
  BY <1>3
<1>6. TypeOK'
  <2>1. conn' \in [Conns -> Connection]
    BY <1>1, <1>2 DEF Connection, Answers
  <2>2. /\ at' \in [Clients -> Stages]
        /\ typed' \in [Clients -> 0..MaxCommands] /\ cmd' \in [Clients -> Lines]
        /\ wide' \in [Clients -> BOOLEAN] /\ host' \in [Clients -> 1..Len(Hosts)]
    BY <1>1, <1>2, <1>3 DEF Stages, Over, Lines, Started
  <2>3. QED
    BY <1>1, <2>1, <2>2 DEF TypeOK, serverVars
<1>7. \A k \in Conns : k = Current(c) => OneRequest(k)'
  BY <1>1, ConnectionsAssumption DEF OneRequest, Connection, serverVars, Progress
<1>8. \A k \in Conns : k[1] = c => Progress(k)'
  BY <1>1, <1>2, <1>3, ConnectionsAssumption, AsioSimAssumption DEF Progress, Unused, Declined, Harmless, Moves, OneRequest, Connection, serverVars, Over
<1>9. Started(c)'
  BY <1>1, <1>2, <1>3 DEF Started, Stages, Over
<1>10. QED
  BY <1>4, <1>5, <1>6, <1>7, <1>8, <1>9, ClientKeeps

LEMMA ConnectKeeps ==
  ASSUME Inv, NEW c \in Clients, Connect(c), UNCHANGED serverVars, UNCHANGED broken
  PROVE  Inv'
<1> USE DEF Connect, Open, Goto
<1>1. /\ TypeOK /\ conn \in [Conns -> Connection] /\ session \in [Conns -> SessionState]
      /\ \A k \in Conns : OneRequest(k) /\ Progress(k)
      /\ Started(c)
  BY DEF Inv, TypeOK
<1>2. /\ at[c] \in {"connecting", "writing", "waiting", "leaving", "advancing"} => Current(c) \in Conns
      /\ Current(c)[1] = c /\ Current(c)[2] = typed[c] /\ Current(c)[3] = host[c]
      /\ \A k \in Conns : k[1] = c /\ k[2] = typed[c] /\ k[3] = host[c] => k = Current(c)
      /\ \A k \in Conns : k[1] = c => k[2] \in Nat /\ k[3] \in 1..Len(Hosts)
      /\ typed[c] \in 0..MaxCommands /\ host[c] \in 1..Len(Hosts) /\ Len(Hosts) \in Nat /\ MaxCommands \in Nat
  BY CurrentFacts
<1>3. /\ at \in [Clients -> Stages]
      /\ typed \in [Clients -> 0..MaxCommands] /\ cmd \in [Clients -> Lines]
      /\ wide \in [Clients -> BOOLEAN] /\ host \in [Clients -> 1..Len(Hosts)]
  BY <1>1 DEF TypeOK
<1>4. \A k \in Conns : k # Current(c) => conn'[k] = conn[k]
  BY <1>1
<1>5. \A d \in Clients : d # c => /\ at'[d] = at[d] /\ typed'[d] = typed[d] /\ cmd'[d] = cmd[d]
                                  /\ wide'[d] = wide[d] /\ host'[d] = host[d]
  BY <1>3
<1>6. TypeOK'
  <2>1. conn' \in [Conns -> Connection]
    BY <1>1, <1>2 DEF Connection, Answers
  <2>2. /\ at' \in [Clients -> Stages]
        /\ typed' \in [Clients -> 0..MaxCommands] /\ cmd' \in [Clients -> Lines]
        /\ wide' \in [Clients -> BOOLEAN] /\ host' \in [Clients -> 1..Len(Hosts)]
    BY <1>1, <1>2, <1>3 DEF Stages, Over, Lines, Started
  <2>3. QED
    BY <1>1, <2>1, <2>2 DEF TypeOK, serverVars
<1>7. \A k \in Conns : k = Current(c) => OneRequest(k)'
  BY <1>1, ConnectionsAssumption DEF OneRequest, Connection, serverVars, Progress
<1>8. \A k \in Conns : k[1] = c => Progress(k)'
  BY <1>1, <1>2, <1>3, ConnectionsAssumption, AsioSimAssumption DEF Progress, Unused, Declined, Harmless, Moves, OneRequest, Connection, serverVars, Over
<1>9. Started(c)'
  BY <1>1, <1>2, <1>3 DEF Started, Stages, Over
<1>10. QED
  BY <1>4, <1>5, <1>6, <1>7, <1>8, <1>9, ClientKeeps

LEMMA RefusedKeeps ==
  ASSUME Inv, NEW c \in Clients, Refused(c), UNCHANGED serverVars, UNCHANGED broken
  PROVE  Inv'
<1> USE DEF Refused, Goto
<1>1. /\ TypeOK /\ conn \in [Conns -> Connection] /\ session \in [Conns -> SessionState]
      /\ \A k \in Conns : OneRequest(k) /\ Progress(k)
      /\ Started(c)
  BY DEF Inv, TypeOK
<1>2. /\ at[c] \in {"connecting", "writing", "waiting", "leaving", "advancing"} => Current(c) \in Conns
      /\ Current(c)[1] = c /\ Current(c)[2] = typed[c] /\ Current(c)[3] = host[c]
      /\ \A k \in Conns : k[1] = c /\ k[2] = typed[c] /\ k[3] = host[c] => k = Current(c)
      /\ \A k \in Conns : k[1] = c => k[2] \in Nat /\ k[3] \in 1..Len(Hosts)
      /\ typed[c] \in 0..MaxCommands /\ host[c] \in 1..Len(Hosts) /\ Len(Hosts) \in Nat /\ MaxCommands \in Nat
  BY CurrentFacts
<1>3. /\ at \in [Clients -> Stages]
      /\ typed \in [Clients -> 0..MaxCommands] /\ cmd \in [Clients -> Lines]
      /\ wide \in [Clients -> BOOLEAN] /\ host \in [Clients -> 1..Len(Hosts)]
  BY <1>1 DEF TypeOK
<1>4. \A k \in Conns : k # Current(c) => conn'[k] = conn[k]
  BY <1>1
<1>5. \A d \in Clients : d # c => /\ at'[d] = at[d] /\ typed'[d] = typed[d] /\ cmd'[d] = cmd[d]
                                  /\ wide'[d] = wide[d] /\ host'[d] = host[d]
  BY <1>3
<1>6. TypeOK'
  <2>1. conn' \in [Conns -> Connection]
    BY <1>1, <1>2 DEF Connection, Answers
  <2>2. /\ at' \in [Clients -> Stages]
        /\ typed' \in [Clients -> 0..MaxCommands] /\ cmd' \in [Clients -> Lines]
        /\ wide' \in [Clients -> BOOLEAN] /\ host' \in [Clients -> 1..Len(Hosts)]
    BY <1>1, <1>2, <1>3 DEF Stages, Over, Lines, Started
  <2>3. QED
    BY <1>1, <2>1, <2>2 DEF TypeOK, serverVars
<1>7. \A k \in Conns : k = Current(c) => OneRequest(k)'
  BY <1>1, ConnectionsAssumption DEF OneRequest, Connection, serverVars, Progress
<1>8. \A k \in Conns : k[1] = c => Progress(k)'
  BY <1>1, <1>2, <1>3, ConnectionsAssumption, AsioSimAssumption DEF Progress, Unused, Declined, Harmless, Moves, OneRequest, Connection, serverVars, Over
<1>9. Started(c)'
  BY <1>1, <1>2, <1>3 DEF Started, Stages, Over
<1>10. QED
  BY <1>4, <1>5, <1>6, <1>7, <1>8, <1>9, ClientKeeps

LEMMA WriteKeeps ==
  ASSUME Inv, NEW c \in Clients, Write(c), UNCHANGED serverVars, UNCHANGED broken
  PROVE  Inv'
<1> USE DEF Write, SendRequest, Goto
<1>1. /\ TypeOK /\ conn \in [Conns -> Connection] /\ session \in [Conns -> SessionState]
      /\ \A k \in Conns : OneRequest(k) /\ Progress(k)
      /\ Started(c)
  BY DEF Inv, TypeOK
<1>2. /\ at[c] \in {"connecting", "writing", "waiting", "leaving", "advancing"} => Current(c) \in Conns
      /\ Current(c)[1] = c /\ Current(c)[2] = typed[c] /\ Current(c)[3] = host[c]
      /\ \A k \in Conns : k[1] = c /\ k[2] = typed[c] /\ k[3] = host[c] => k = Current(c)
      /\ \A k \in Conns : k[1] = c => k[2] \in Nat /\ k[3] \in 1..Len(Hosts)
      /\ typed[c] \in 0..MaxCommands /\ host[c] \in 1..Len(Hosts) /\ Len(Hosts) \in Nat /\ MaxCommands \in Nat
  BY CurrentFacts
<1>3. /\ at \in [Clients -> Stages]
      /\ typed \in [Clients -> 0..MaxCommands] /\ cmd \in [Clients -> Lines]
      /\ wide \in [Clients -> BOOLEAN] /\ host \in [Clients -> 1..Len(Hosts)]
  BY <1>1 DEF TypeOK
<1>4. \A k \in Conns : k # Current(c) => conn'[k] = conn[k]
  BY <1>1
<1>5. \A d \in Clients : d # c => /\ at'[d] = at[d] /\ typed'[d] = typed[d] /\ cmd'[d] = cmd[d]
                                  /\ wide'[d] = wide[d] /\ host'[d] = host[d]
  BY <1>3
<1>6. TypeOK'
  <2>1. conn' \in [Conns -> Connection]
    <3>1. CASE /\ conn[Current(c)].server \in {"backlog", "open"}
               /\ conn' = [conn EXCEPT ![Current(c)].request = cmd[c]]
      BY <3>1, <1>1, <1>2, <1>3 DEF Connection
    <3>2. CASE /\ conn[Current(c)].server \in {"closed", "reset"}
               /\ conn' = [conn EXCEPT ![Current(c)].server = "reset"]
      BY <3>2, <1>1, <1>2, <1>3 DEF Connection
    <3>3. CASE conn' = conn /\ conn[Current(c)].server \in {"closed", "reset"}
      BY <3>3, <1>1, <1>2, <1>3 DEF Connection
    <3>4. QED
      BY <1>1, <1>2, <3>1, <3>2, <3>3 DEF Connection
  <2>2. /\ at' \in [Clients -> Stages]
        /\ typed' \in [Clients -> 0..MaxCommands] /\ cmd' \in [Clients -> Lines]
        /\ wide' \in [Clients -> BOOLEAN] /\ host' \in [Clients -> 1..Len(Hosts)]
    BY <1>1, <1>2, <1>3 DEF Stages, Over, Lines, Started
  <2>3. QED
    BY <1>1, <2>1, <2>2 DEF TypeOK, serverVars
<1>7. \A k \in Conns : k = Current(c) => OneRequest(k)'
  <2>1. CASE /\ conn[Current(c)].server \in {"backlog", "open"}
             /\ conn' = [conn EXCEPT ![Current(c)].request = cmd[c]]
    BY <2>1, <1>1, <1>2, <1>3, ConnectionsAssumption DEF OneRequest, Connection, SessionState, serverVars, Progress
  <2>2. CASE /\ conn[Current(c)].server \in {"closed", "reset"}
             /\ conn' = [conn EXCEPT ![Current(c)].server = "reset"]
    BY <2>2, <1>1, <1>2, <1>3, ConnectionsAssumption DEF OneRequest, Connection, SessionState, serverVars, Progress
  <2>3. CASE conn' = conn /\ conn[Current(c)].server \in {"closed", "reset"}
    BY <2>3, <1>1, <1>2, <1>3, ConnectionsAssumption DEF OneRequest, Connection, SessionState, serverVars, Progress
  <2>4. QED
    BY <1>1, <1>2, <2>1, <2>2, <2>3 DEF Connection
<1>8. \A k \in Conns : k[1] = c => Progress(k)'
  <2>1. CASE /\ conn[Current(c)].server \in {"backlog", "open"}
             /\ conn' = [conn EXCEPT ![Current(c)].request = cmd[c]]
    BY <2>1, <1>1, <1>2, <1>3, ConnectionsAssumption DEF Progress, Unused, Declined, Harmless, Moves, OneRequest, Connection, serverVars, Over
  <2>2. CASE /\ conn[Current(c)].server \in {"closed", "reset"}
             /\ conn' = [conn EXCEPT ![Current(c)].server = "reset"]
    BY <2>2, <1>1, <1>2, <1>3, ConnectionsAssumption DEF Progress, Unused, Declined, Harmless, Moves, OneRequest, Connection, serverVars, Over
  <2>3. CASE conn' = conn /\ conn[Current(c)].server \in {"closed", "reset"}
    BY <2>3, <1>1, <1>2, <1>3, ConnectionsAssumption DEF Progress, Unused, Declined, Harmless, Moves, OneRequest, Connection, serverVars, Over
  <2>4. QED
    BY <1>1, <1>2, <2>1, <2>2, <2>3 DEF Connection
<1>9. Started(c)'
  BY <1>1, <1>2, <1>3 DEF Started, Stages, Over
<1>10. QED
  BY <1>4, <1>5, <1>6, <1>7, <1>8, <1>9, ClientKeeps

LEMMA WriteQuitKeeps ==
  ASSUME Inv, NEW c \in Clients, WriteQuit(c), UNCHANGED serverVars, UNCHANGED broken
  PROVE  Inv'
<1> USE DEF WriteQuit, SendRequest, Goto, Last
<1>1. /\ TypeOK /\ conn \in [Conns -> Connection] /\ session \in [Conns -> SessionState]
      /\ \A k \in Conns : OneRequest(k) /\ Progress(k)
      /\ Started(c)
  BY DEF Inv, TypeOK
<1>2. /\ at[c] \in {"connecting", "writing", "waiting", "leaving", "advancing"} => Current(c) \in Conns
      /\ Current(c)[1] = c /\ Current(c)[2] = typed[c] /\ Current(c)[3] = host[c]
      /\ \A k \in Conns : k[1] = c /\ k[2] = typed[c] /\ k[3] = host[c] => k = Current(c)
      /\ \A k \in Conns : k[1] = c => k[2] \in Nat /\ k[3] \in 1..Len(Hosts)
      /\ typed[c] \in 0..MaxCommands /\ host[c] \in 1..Len(Hosts) /\ Len(Hosts) \in Nat /\ MaxCommands \in Nat
  BY CurrentFacts
<1>3. /\ at \in [Clients -> Stages]
      /\ typed \in [Clients -> 0..MaxCommands] /\ cmd \in [Clients -> Lines]
      /\ wide \in [Clients -> BOOLEAN] /\ host \in [Clients -> 1..Len(Hosts)]
  BY <1>1 DEF TypeOK
<1>4. \A k \in Conns : k # Current(c) => conn'[k] = conn[k]
  BY <1>1
<1>5. \A d \in Clients : d # c => /\ at'[d] = at[d] /\ typed'[d] = typed[d] /\ cmd'[d] = cmd[d]
                                  /\ wide'[d] = wide[d] /\ host'[d] = host[d]
  BY <1>3
<1>6. TypeOK'
  <2>1. conn' \in [Conns -> Connection]
    <3>1. CASE /\ conn[Current(c)].server \in {"backlog", "open"}
               /\ conn' = [conn EXCEPT ![Current(c)].request = "quit"]
      BY <3>1, <1>1, <1>2, <1>3 DEF Connection
    <3>2. CASE /\ conn[Current(c)].server \in {"closed", "reset"}
               /\ conn' = [conn EXCEPT ![Current(c)].server = "reset"]
      BY <3>2, <1>1, <1>2, <1>3 DEF Connection
    <3>3. CASE conn' = conn /\ conn[Current(c)].server \in {"closed", "reset"}
      BY <3>3, <1>1, <1>2, <1>3 DEF Connection
    <3>4. QED
      BY <1>1, <1>2, <3>1, <3>2, <3>3 DEF Connection
  <2>2. /\ at' \in [Clients -> Stages]
        /\ typed' \in [Clients -> 0..MaxCommands] /\ cmd' \in [Clients -> Lines]
        /\ wide' \in [Clients -> BOOLEAN] /\ host' \in [Clients -> 1..Len(Hosts)]
    BY <1>1, <1>2, <1>3 DEF Stages, Over, Lines, Started
  <2>3. QED
    BY <1>1, <2>1, <2>2 DEF TypeOK, serverVars
<1>7. \A k \in Conns : k = Current(c) => OneRequest(k)'
  <2>1. CASE /\ conn[Current(c)].server \in {"backlog", "open"}
             /\ conn' = [conn EXCEPT ![Current(c)].request = "quit"]
    BY <2>1, <1>1, <1>2, <1>3, ConnectionsAssumption DEF OneRequest, Connection, SessionState, serverVars, Progress
  <2>2. CASE /\ conn[Current(c)].server \in {"closed", "reset"}
             /\ conn' = [conn EXCEPT ![Current(c)].server = "reset"]
    BY <2>2, <1>1, <1>2, <1>3, ConnectionsAssumption DEF OneRequest, Connection, SessionState, serverVars, Progress
  <2>3. CASE conn' = conn /\ conn[Current(c)].server \in {"closed", "reset"}
    BY <2>3, <1>1, <1>2, <1>3, ConnectionsAssumption DEF OneRequest, Connection, SessionState, serverVars, Progress
  <2>4. QED
    BY <1>1, <1>2, <2>1, <2>2, <2>3 DEF Connection
<1>8. \A k \in Conns : k[1] = c => Progress(k)'
  <2>1. CASE /\ conn[Current(c)].server \in {"backlog", "open"}
             /\ conn' = [conn EXCEPT ![Current(c)].request = "quit"]
    BY <2>1, <1>1, <1>2, <1>3, ConnectionsAssumption DEF Progress, Unused, Declined, Harmless, Moves, OneRequest, Connection, serverVars, Over
  <2>2. CASE /\ conn[Current(c)].server \in {"closed", "reset"}
             /\ conn' = [conn EXCEPT ![Current(c)].server = "reset"]
    BY <2>2, <1>1, <1>2, <1>3, ConnectionsAssumption DEF Progress, Unused, Declined, Harmless, Moves, OneRequest, Connection, serverVars, Over
  <2>3. CASE conn' = conn /\ conn[Current(c)].server \in {"closed", "reset"}
    BY <2>3, <1>1, <1>2, <1>3, ConnectionsAssumption DEF Progress, Unused, Declined, Harmless, Moves, OneRequest, Connection, serverVars, Over
  <2>4. QED
    BY <1>1, <1>2, <2>1, <2>2, <2>3 DEF Connection
<1>9. Started(c)'
  BY <1>1, <1>2, <1>3 DEF Started, Stages, Over
<1>10. QED
  BY <1>4, <1>5, <1>6, <1>7, <1>8, <1>9, ClientKeeps

LEMMA WriteThrowsKeeps ==
  ASSUME Inv, NEW c \in Clients, WriteThrows(c), UNCHANGED serverVars, UNCHANGED broken
  PROVE  Inv'
<1> USE DEF WriteThrows, Throw, CloseClient, Goto
<1>1. /\ TypeOK /\ conn \in [Conns -> Connection] /\ session \in [Conns -> SessionState]
      /\ \A k \in Conns : OneRequest(k) /\ Progress(k)
      /\ Started(c)
  BY DEF Inv, TypeOK
<1>2. /\ at[c] \in {"connecting", "writing", "waiting", "leaving", "advancing"} => Current(c) \in Conns
      /\ Current(c)[1] = c /\ Current(c)[2] = typed[c] /\ Current(c)[3] = host[c]
      /\ \A k \in Conns : k[1] = c /\ k[2] = typed[c] /\ k[3] = host[c] => k = Current(c)
      /\ \A k \in Conns : k[1] = c => k[2] \in Nat /\ k[3] \in 1..Len(Hosts)
      /\ typed[c] \in 0..MaxCommands /\ host[c] \in 1..Len(Hosts) /\ Len(Hosts) \in Nat /\ MaxCommands \in Nat
  BY CurrentFacts
<1>3. /\ at \in [Clients -> Stages]
      /\ typed \in [Clients -> 0..MaxCommands] /\ cmd \in [Clients -> Lines]
      /\ wide \in [Clients -> BOOLEAN] /\ host \in [Clients -> 1..Len(Hosts)]
  BY <1>1 DEF TypeOK
<1>4. \A k \in Conns : k # Current(c) => conn'[k] = conn[k]
  BY <1>1
<1>5. \A d \in Clients : d # c => /\ at'[d] = at[d] /\ typed'[d] = typed[d] /\ cmd'[d] = cmd[d]
                                  /\ wide'[d] = wide[d] /\ host'[d] = host[d]
  BY <1>3
<1>6. TypeOK'
  <2>1. conn' \in [Conns -> Connection]
    <3>1. Current(c) \in Conns
      BY <1>2
    <3>2. Nothing \in Answers
      BY DEF Answers
    <3>3. QED
      BY <1>1, <3>1, <3>2 DEF Connection
  <2>2. /\ at' \in [Clients -> Stages]
        /\ typed' \in [Clients -> 0..MaxCommands] /\ cmd' \in [Clients -> Lines]
        /\ wide' \in [Clients -> BOOLEAN] /\ host' \in [Clients -> 1..Len(Hosts)]
    BY <1>1, <1>2, <1>3 DEF Stages, Over, Lines, Started
  <2>3. QED
    BY <1>1, <2>1, <2>2 DEF TypeOK, serverVars
<1>7. \A k \in Conns : k = Current(c) => OneRequest(k)'
  BY <1>1, ConnectionsAssumption DEF OneRequest, Connection, serverVars, Progress
<1>8. \A k \in Conns : k[1] = c => Progress(k)'
  BY <1>1, <1>2, <1>3, ConnectionsAssumption, AsioSimAssumption DEF Progress, Unused, Declined, Harmless, Moves, OneRequest, Connection, serverVars, Over
<1>9. Started(c)'
  BY <1>1, <1>2, <1>3 DEF Started, Stages, Over
<1>10. QED
  BY <1>4, <1>5, <1>6, <1>7, <1>8, <1>9, ClientKeeps

LEMMA CloseAfterQuitKeeps ==
  ASSUME Inv, NEW c \in Clients, CloseAfterQuit(c), UNCHANGED serverVars, UNCHANGED broken
  PROVE  Inv'
<1> USE DEF CloseAfterQuit, CloseClient, Goto
<1>1. /\ TypeOK /\ conn \in [Conns -> Connection] /\ session \in [Conns -> SessionState]
      /\ \A k \in Conns : OneRequest(k) /\ Progress(k)
      /\ Started(c)
  BY DEF Inv, TypeOK
<1>2. /\ at[c] \in {"connecting", "writing", "waiting", "leaving", "advancing"} => Current(c) \in Conns
      /\ Current(c)[1] = c /\ Current(c)[2] = typed[c] /\ Current(c)[3] = host[c]
      /\ \A k \in Conns : k[1] = c /\ k[2] = typed[c] /\ k[3] = host[c] => k = Current(c)
      /\ \A k \in Conns : k[1] = c => k[2] \in Nat /\ k[3] \in 1..Len(Hosts)
      /\ typed[c] \in 0..MaxCommands /\ host[c] \in 1..Len(Hosts) /\ Len(Hosts) \in Nat /\ MaxCommands \in Nat
  BY CurrentFacts
<1>3. /\ at \in [Clients -> Stages]
      /\ typed \in [Clients -> 0..MaxCommands] /\ cmd \in [Clients -> Lines]
      /\ wide \in [Clients -> BOOLEAN] /\ host \in [Clients -> 1..Len(Hosts)]
  BY <1>1 DEF TypeOK
<1>4. \A k \in Conns : k # Current(c) => conn'[k] = conn[k]
  BY <1>1
<1>5. \A d \in Clients : d # c => /\ at'[d] = at[d] /\ typed'[d] = typed[d] /\ cmd'[d] = cmd[d]
                                  /\ wide'[d] = wide[d] /\ host'[d] = host[d]
  BY <1>3
<1>6. TypeOK'
  <2>1. conn' \in [Conns -> Connection]
    <3>1. Current(c) \in Conns
      BY <1>2
    <3>2. Nothing \in Answers
      BY DEF Answers
    <3>3. QED
      BY <1>1, <3>1, <3>2 DEF Connection
  <2>2. /\ at' \in [Clients -> Stages]
        /\ typed' \in [Clients -> 0..MaxCommands] /\ cmd' \in [Clients -> Lines]
        /\ wide' \in [Clients -> BOOLEAN] /\ host' \in [Clients -> 1..Len(Hosts)]
    <3>1. typed' = typed /\ cmd' = cmd /\ wide' = wide
      OBVIOUS
    <3>2. \E to \in {"prompt", "connecting", "exited"} : at' = [at EXCEPT ![c] = to]
      OBVIOUS
    <3>3. at' \in [Clients -> Stages]
      BY <1>3, <3>2 DEF Stages, Over
    <3>4. host' \in [Clients -> 1..Len(Hosts)]
      <4>1. host' = host \/ (host[c] # Len(Hosts) /\ host' = [host EXCEPT ![c] = @ + 1])
        BY <1>1 DEF Started
      <4>2. host[c] # Len(Hosts) => host[c] + 1 \in 1..Len(Hosts)
        BY <1>2
      <4>3. QED
        BY <1>3, <4>1, <4>2
    <3>5. QED
      BY <1>3, <3>1, <3>3, <3>4
  <2>3. QED
    BY <1>1, <2>1, <2>2 DEF TypeOK, serverVars
<1>7. \A k \in Conns : k = Current(c) => OneRequest(k)'
  BY <1>1, ConnectionsAssumption DEF OneRequest, Connection, serverVars, Progress
<1>8. \A k \in Conns : k[1] = c => Progress(k)'
  <2>1. /\ UNCHANGED <<typed, cmd, wide>> /\ session' = session
        /\ Current(c) \in Conns /\ conn[Current(c)].client = "open" /\ conn'[Current(c)].request = conn[Current(c)].request
        /\ \/ host' = host /\ at'[c] = "exited"
           \/ at'[c] = "connecting" /\ host'[c] = host[c] + 1 /\ wide[c] /\ cmd[c] = "quit"
    <3>1. Current(c) \in Conns /\ Progress(Current(c))
      BY <1>1, <1>2
    <3>2. conn[Current(c)].client = "open"
      BY <1>2, <3>1 DEF Progress
    <3>3. conn'[Current(c)].request = conn[Current(c)].request
      BY <1>1, <3>1 DEF Connection
    <3>4. CASE at[c] = "leaving"
      BY <1>3, <3>1, <3>2, <3>3, <3>4 DEF serverVars
    <3>5. CASE at[c] = "advancing"
      <4>1. at'[c] = "connecting" /\ host'[c] = host[c] + 1
        BY <1>3, <3>5
      <4>2. wide[c] /\ cmd[c] = "quit"
        BY <1>1, <3>5 DEF Started
      <4>3. QED
        BY <3>1, <3>2, <3>3, <4>1, <4>2 DEF serverVars
    <3>6. QED
      BY <3>4, <3>5
  <2> SUFFICES ASSUME NEW k \in Conns, k[1] = c PROVE Progress(k)'
    OBVIOUS
  <2> HIDE DEF CloseAfterQuit
  <2>2. Progress(k)
    BY <1>1
  <2>3. CASE k = Current(c)
    <3>1. ~Unused(k) /\ (cmd[c] = "quit" => Harmless(k) /\ Harmless(k)')
      BY <1>2, <2>1, <2>2, <2>3, AsioSimAssumption DEF Progress, Unused, Harmless, Moves
    <3>2. conn'[k].request \in {Nothing, cmd[c]} /\ session'[k].line \in {Nothing, cmd[c]}
      BY <1>2, <2>1, <2>2, <2>3 DEF Progress
    <3>3. QED
      BY <1>2, <2>1, <2>2, <2>3, <3>1, <3>2 DEF Progress
  <2>4. CASE k # Current(c)
    <3>1. conn'[k] = conn[k] /\ session'[k] = session[k] /\ ~(k[2] = typed[c] /\ k[3] = host[c])
      BY <1>2, <1>4, <2>1, <2>4
    <3>2. k[3] \in Nat /\ host[c] \in Nat
      BY <1>2
    <3>3. QED
      BY <1>2, <2>1, <2>2, <3>1, <3>2 DEF Progress, Unused, Declined, Harmless
  <2>5. QED
    BY <2>3, <2>4
<1>9. Started(c)'
  BY <1>1, <1>2, <1>3 DEF Started, Stages, Over
<1>10. QED
  BY <1>4, <1>5, <1>6, <1>7, <1>8, <1>9, ClientKeeps

LEMMA ReadKeeps ==
  ASSUME Inv, NEW c \in Clients, Read(c), UNCHANGED serverVars, UNCHANGED broken
  PROVE  Inv'
<1> USE DEF Read, Last, CloseClient, Goto
<1>1. /\ TypeOK /\ conn \in [Conns -> Connection] /\ session \in [Conns -> SessionState]
      /\ \A k \in Conns : OneRequest(k) /\ Progress(k)
      /\ Started(c)
  BY DEF Inv, TypeOK
<1>2. /\ at[c] \in {"connecting", "writing", "waiting", "leaving", "advancing"} => Current(c) \in Conns
      /\ Current(c)[1] = c /\ Current(c)[2] = typed[c] /\ Current(c)[3] = host[c]
      /\ \A k \in Conns : k[1] = c /\ k[2] = typed[c] /\ k[3] = host[c] => k = Current(c)
      /\ \A k \in Conns : k[1] = c => k[2] \in Nat /\ k[3] \in 1..Len(Hosts)
      /\ typed[c] \in 0..MaxCommands /\ host[c] \in 1..Len(Hosts) /\ Len(Hosts) \in Nat /\ MaxCommands \in Nat
  BY CurrentFacts
<1>3. /\ at \in [Clients -> Stages]
      /\ typed \in [Clients -> 0..MaxCommands] /\ cmd \in [Clients -> Lines]
      /\ wide \in [Clients -> BOOLEAN] /\ host \in [Clients -> 1..Len(Hosts)]
  BY <1>1 DEF TypeOK
<1>4. \A k \in Conns : k # Current(c) => conn'[k] = conn[k]
  BY <1>1
<1>5. \A d \in Clients : d # c => /\ at'[d] = at[d] /\ typed'[d] = typed[d] /\ cmd'[d] = cmd[d]
                                  /\ wide'[d] = wide[d] /\ host'[d] = host[d]
  BY <1>3
<1>6. TypeOK'
  <2>1. conn' \in [Conns -> Connection]
    <3>1. Current(c) \in Conns
      BY <1>2
    <3>2. Nothing \in Answers
      BY DEF Answers
    <3>3. QED
      BY <1>1, <3>1, <3>2 DEF Connection
  <2>2. /\ at' \in [Clients -> Stages]
        /\ typed' \in [Clients -> 0..MaxCommands] /\ cmd' \in [Clients -> Lines]
        /\ wide' \in [Clients -> BOOLEAN] /\ host' \in [Clients -> 1..Len(Hosts)]
    <3>1. typed' = typed /\ cmd' = cmd /\ wide' = wide
      OBVIOUS
    <3>2. \E to \in {"prompt", "connecting", "exited"} : at' = [at EXCEPT ![c] = to]
      OBVIOUS
    <3>3. at' \in [Clients -> Stages]
      BY <1>3, <3>2 DEF Stages, Over
    <3>4. host' \in [Clients -> 1..Len(Hosts)]
      <4>1. host' = host \/ (host[c] # Len(Hosts) /\ host' = [host EXCEPT ![c] = @ + 1])
        BY <1>1 DEF Started
      <4>2. host[c] # Len(Hosts) => host[c] + 1 \in 1..Len(Hosts)
        BY <1>2
      <4>3. QED
        BY <1>3, <4>1, <4>2
    <3>5. QED
      BY <1>3, <3>1, <3>3, <3>4
  <2>3. QED
    BY <1>1, <2>1, <2>2 DEF TypeOK, serverVars
<1>7. \A k \in Conns : k = Current(c) => OneRequest(k)'
  BY <1>1, ConnectionsAssumption DEF OneRequest, Connection, serverVars, Progress
<1>8. \A k \in Conns : k[1] = c => Progress(k)'
  BY <1>1, <1>2, <1>3, ConnectionsAssumption, AsioSimAssumption DEF Progress, Unused, Declined, Harmless, Moves, OneRequest, Connection, serverVars, Over
<1>9. Started(c)'
  BY <1>1, <1>2, <1>3 DEF Started, Stages, Over
<1>10. QED
  BY <1>4, <1>5, <1>6, <1>7, <1>8, <1>9, ClientKeeps

LEMMA PrintThrowsKeeps ==
  ASSUME Inv, NEW c \in Clients, PrintThrows(c), UNCHANGED serverVars, UNCHANGED broken
  PROVE  Inv'
<1> USE DEF PrintThrows, Throw, CloseClient, Goto
<1>1. /\ TypeOK /\ conn \in [Conns -> Connection] /\ session \in [Conns -> SessionState]
      /\ \A k \in Conns : OneRequest(k) /\ Progress(k)
      /\ Started(c)
  BY DEF Inv, TypeOK
<1>2. /\ at[c] \in {"connecting", "writing", "waiting", "leaving", "advancing"} => Current(c) \in Conns
      /\ Current(c)[1] = c /\ Current(c)[2] = typed[c] /\ Current(c)[3] = host[c]
      /\ \A k \in Conns : k[1] = c /\ k[2] = typed[c] /\ k[3] = host[c] => k = Current(c)
      /\ \A k \in Conns : k[1] = c => k[2] \in Nat /\ k[3] \in 1..Len(Hosts)
      /\ typed[c] \in 0..MaxCommands /\ host[c] \in 1..Len(Hosts) /\ Len(Hosts) \in Nat /\ MaxCommands \in Nat
  BY CurrentFacts
<1>3. /\ at \in [Clients -> Stages]
      /\ typed \in [Clients -> 0..MaxCommands] /\ cmd \in [Clients -> Lines]
      /\ wide \in [Clients -> BOOLEAN] /\ host \in [Clients -> 1..Len(Hosts)]
  BY <1>1 DEF TypeOK
<1>4. \A k \in Conns : k # Current(c) => conn'[k] = conn[k]
  BY <1>1
<1>5. \A d \in Clients : d # c => /\ at'[d] = at[d] /\ typed'[d] = typed[d] /\ cmd'[d] = cmd[d]
                                  /\ wide'[d] = wide[d] /\ host'[d] = host[d]
  BY <1>3
<1>6. TypeOK'
  <2>1. conn' \in [Conns -> Connection]
    <3>1. Current(c) \in Conns
      BY <1>2
    <3>2. Nothing \in Answers
      BY DEF Answers
    <3>3. QED
      BY <1>1, <3>1, <3>2 DEF Connection
  <2>2. /\ at' \in [Clients -> Stages]
        /\ typed' \in [Clients -> 0..MaxCommands] /\ cmd' \in [Clients -> Lines]
        /\ wide' \in [Clients -> BOOLEAN] /\ host' \in [Clients -> 1..Len(Hosts)]
    BY <1>1, <1>2, <1>3 DEF Stages, Over, Lines, Started
  <2>3. QED
    BY <1>1, <2>1, <2>2 DEF TypeOK, serverVars
<1>7. \A k \in Conns : k = Current(c) => OneRequest(k)'
  BY <1>1, ConnectionsAssumption DEF OneRequest, Connection, serverVars, Progress
<1>8. \A k \in Conns : k[1] = c => Progress(k)'
  BY <1>1, <1>2, <1>3, ConnectionsAssumption, AsioSimAssumption DEF Progress, Unused, Declined, Harmless, Moves, OneRequest, Connection, serverVars, Over
<1>9. Started(c)'
  BY <1>1, <1>2, <1>3 DEF Started, Stages, Over
<1>10. QED
  BY <1>4, <1>5, <1>6, <1>7, <1>8, <1>9, ClientKeeps

LEMMA ReadThrowsKeeps ==
  ASSUME Inv, NEW c \in Clients, ReadThrows(c), UNCHANGED serverVars, UNCHANGED broken
  PROVE  Inv'
<1> USE DEF ReadThrows, Throw, CloseClient, Goto
<1>1. /\ TypeOK /\ conn \in [Conns -> Connection] /\ session \in [Conns -> SessionState]
      /\ \A k \in Conns : OneRequest(k) /\ Progress(k)
      /\ Started(c)
  BY DEF Inv, TypeOK
<1>2. /\ at[c] \in {"connecting", "writing", "waiting", "leaving", "advancing"} => Current(c) \in Conns
      /\ Current(c)[1] = c /\ Current(c)[2] = typed[c] /\ Current(c)[3] = host[c]
      /\ \A k \in Conns : k[1] = c /\ k[2] = typed[c] /\ k[3] = host[c] => k = Current(c)
      /\ \A k \in Conns : k[1] = c => k[2] \in Nat /\ k[3] \in 1..Len(Hosts)
      /\ typed[c] \in 0..MaxCommands /\ host[c] \in 1..Len(Hosts) /\ Len(Hosts) \in Nat /\ MaxCommands \in Nat
  BY CurrentFacts
<1>3. /\ at \in [Clients -> Stages]
      /\ typed \in [Clients -> 0..MaxCommands] /\ cmd \in [Clients -> Lines]
      /\ wide \in [Clients -> BOOLEAN] /\ host \in [Clients -> 1..Len(Hosts)]
  BY <1>1 DEF TypeOK
<1>4. \A k \in Conns : k # Current(c) => conn'[k] = conn[k]
  BY <1>1
<1>5. \A d \in Clients : d # c => /\ at'[d] = at[d] /\ typed'[d] = typed[d] /\ cmd'[d] = cmd[d]
                                  /\ wide'[d] = wide[d] /\ host'[d] = host[d]
  BY <1>3
<1>6. TypeOK'
  <2>1. conn' \in [Conns -> Connection]
    <3>1. Current(c) \in Conns
      BY <1>2
    <3>2. Nothing \in Answers
      BY DEF Answers
    <3>3. QED
      BY <1>1, <3>1, <3>2 DEF Connection
  <2>2. /\ at' \in [Clients -> Stages]
        /\ typed' \in [Clients -> 0..MaxCommands] /\ cmd' \in [Clients -> Lines]
        /\ wide' \in [Clients -> BOOLEAN] /\ host' \in [Clients -> 1..Len(Hosts)]
    BY <1>1, <1>2, <1>3 DEF Stages, Over, Lines, Started
  <2>3. QED
    BY <1>1, <2>1, <2>2 DEF TypeOK, serverVars
<1>7. \A k \in Conns : k = Current(c) => OneRequest(k)'
  BY <1>1, ConnectionsAssumption DEF OneRequest, Connection, serverVars, Progress
<1>8. \A k \in Conns : k[1] = c => Progress(k)'
  BY <1>1, <1>2, <1>3, ConnectionsAssumption, AsioSimAssumption DEF Progress, Unused, Declined, Harmless, Moves, OneRequest, Connection, serverVars, Over
<1>9. Started(c)'
  BY <1>1, <1>2, <1>3 DEF Started, Stages, Over
<1>10. QED
  BY <1>4, <1>5, <1>6, <1>7, <1>8, <1>9, ClientKeeps

LEMMA KillKeeps ==
  ASSUME Inv, NEW c \in Clients, Kill(c), UNCHANGED serverVars, UNCHANGED broken
  PROVE  Inv'
<1> USE DEF Kill, CloseClient, Goto
<1>1. /\ TypeOK /\ conn \in [Conns -> Connection] /\ session \in [Conns -> SessionState]
      /\ \A k \in Conns : OneRequest(k) /\ Progress(k)
      /\ Started(c)
  BY DEF Inv, TypeOK
<1>2. /\ at[c] \in {"connecting", "writing", "waiting", "leaving", "advancing"} => Current(c) \in Conns
      /\ Current(c)[1] = c /\ Current(c)[2] = typed[c] /\ Current(c)[3] = host[c]
      /\ \A k \in Conns : k[1] = c /\ k[2] = typed[c] /\ k[3] = host[c] => k = Current(c)
      /\ \A k \in Conns : k[1] = c => k[2] \in Nat /\ k[3] \in 1..Len(Hosts)
      /\ typed[c] \in 0..MaxCommands /\ host[c] \in 1..Len(Hosts) /\ Len(Hosts) \in Nat /\ MaxCommands \in Nat
  BY CurrentFacts
<1>3. /\ at \in [Clients -> Stages]
      /\ typed \in [Clients -> 0..MaxCommands] /\ cmd \in [Clients -> Lines]
      /\ wide \in [Clients -> BOOLEAN] /\ host \in [Clients -> 1..Len(Hosts)]
  BY <1>1 DEF TypeOK
<1>4. \A k \in Conns : k # Current(c) => conn'[k] = conn[k]
  BY <1>1
<1>5. \A d \in Clients : d # c => /\ at'[d] = at[d] /\ typed'[d] = typed[d] /\ cmd'[d] = cmd[d]
                                  /\ wide'[d] = wide[d] /\ host'[d] = host[d]
  BY <1>3
<1>6. TypeOK'
  <2>1. conn' \in [Conns -> Connection]
    <3>1. Current(c) \in Conns
      BY <1>2
    <3>2. Nothing \in Answers
      BY DEF Answers
    <3>3. QED
      BY <1>1, <3>1, <3>2 DEF Connection
  <2>2. /\ at' \in [Clients -> Stages]
        /\ typed' \in [Clients -> 0..MaxCommands] /\ cmd' \in [Clients -> Lines]
        /\ wide' \in [Clients -> BOOLEAN] /\ host' \in [Clients -> 1..Len(Hosts)]
    BY <1>1, <1>2, <1>3 DEF Stages, Over, Lines, Started
  <2>3. QED
    BY <1>1, <2>1, <2>2 DEF TypeOK, serverVars
<1>7. \A k \in Conns : k = Current(c) => OneRequest(k)'
  BY <1>1, ConnectionsAssumption DEF OneRequest, Connection, serverVars, Progress
<1>8. \A k \in Conns : k[1] = c => Progress(k)'
  BY <1>1, <1>2, <1>3, ConnectionsAssumption, AsioSimAssumption DEF Progress, Unused, Declined, Harmless, Moves, OneRequest, Connection, serverVars, Over
<1>9. Started(c)'
  BY <1>1, <1>2, <1>3 DEF Started, Stages, Over
<1>10. QED
  BY <1>4, <1>5, <1>6, <1>7, <1>8, <1>9, ClientKeeps

\* The invariant survives every step.
LEMMA StepInv == Inv /\ [Next]_vars => Inv'
<1> SUFFICES ASSUME Inv, [Next]_vars PROVE Inv'
  OBVIOUS
<1>1. ASSUME NEW c \in Clients, ClientStep(c) PROVE Inv'
  BY <1>1, ConnectKeeps, RefusedKeeps, WriteKeeps, WriteThrowsKeeps, WriteQuitKeeps,
     CloseAfterQuitKeeps, ReadKeeps, PrintThrowsKeeps, ReadThrowsKeeps
     DEF ClientStep, Dispatch
<1>2. ASSUME NEW c \in Clients, UserStep(c) PROVE Inv'
  <2>1. Typed[c] \subseteq Commands
    BY AsioSimAssumption
  <2>2. QED
    BY <1>2, <2>1, TypeKeeps, TypeBadIndexKeeps, EndOfInputKeeps, KillKeeps DEF UserStep
<1>3. ASSUME NEW k \in Conns, ServerStep(k) PROVE Inv'
  <2>1. Server(k) \in Servers
    BY ConnsFacts
  <2>2. CASE LogThrows(k) \/ SendThrows(k) \/ Exit(k)
    BY <1>3, <2>1, <2>2, EndKeeps DEF ServerStep, LogThrows, SendThrows, Exit
  <2>3. QED
    BY <1>3, <2>2, AcceptKeeps, ReadFailsKeeps, HandleKeeps, SendKeeps DEF ServerStep, Serve
<1>4. ASSUME NEW k \in Conns, NetworkStep(k) PROVE Inv'
  BY <1>4, BreakKeeps DEF NetworkStep
<1>5. CASE UNCHANGED vars
  BY <1>5 DEF vars, Inv, TypeOK, OneRequest, Progress, Started, InTurn, Unused, Passed, Declined, Harmless
<1>6. QED
  BY <1>1, <1>2, <1>3, <1>4, <1>5 DEF Next, Idle

LEMMA Invariance == Spec => []Inv
BY InitInv, StepInv, PTL DEF Spec

\* Every variable keeps its range, and every lot its bounds, whatever breaks and
\* whichever handler throws.
THEOREM TypeCorrect == Spec => []TypeOK
<1>1. Inv => TypeOK
  BY DEF Inv
<1>2. QED
  BY <1>1, Invariance, PTL
-----------------------------------------------------------------------------
\* The books of the lots, with sets that can be counted.
Books ==
  \A s \in Servers :
    /\ IsFiniteSet(Granted(s, "in")) /\ IsFiniteSet(Granted(s, "out"))
    /\ count[s] = Cardinality(Granted(s, "in")) - Cardinality(Granted(s, "out"))

LEMMA InitBooks == SimInit => Books
<1> SUFFICES ASSUME SimInit, NEW s \in Servers
             PROVE  /\ IsFiniteSet(Granted(s, "in")) /\ IsFiniteSet(Granted(s, "out"))
                    /\ count[s] = Cardinality(Granted(s, "in")) - Cardinality(Granted(s, "out"))
  BY DEF Books
<1>1. \A w \in {"in", "out"} : Granted(s, w) = {}
  BY ConnectionsAssumption DEF SimInit, ServerInit, Granted
<1>2. count[s] = 0
  BY DEF SimInit, ServerInit
<1>3. QED
  BY <1>1, <1>2, FS_EmptySet

\* A step that grants nothing and moves no car leaves the books right.
LEMMA BooksKept ==
  ASSUME Books, count' = count,
         \A k \in Conns : session[k].reply = "ok" \/ session'[k].reply = "ok" =>
           session'[k].reply = session[k].reply /\ session'[k].line = session[k].line
  PROVE  Books'
<1>1. \A s \in Servers, w \in {"in", "out"} : Granted(s, w)' = Granted(s, w)
  BY DEF Granted, Server
<1>2. QED
  BY <1>1 DEF Books

\* A request that is carried out moves one car and is granted, or neither.
LEMMA HandleBooks ==
  ASSUME Inv, Books, NEW k \in Conns, Handle(k)
  PROVE  Books'
<1>1. /\ session \in [Conns -> SessionState] /\ count \in [Servers -> 0..Capacity]
      /\ Server(k) \in Servers /\ conn[k].request # Nothing /\ OneRequest(k)
  BY ConnsFacts, AsioSimAssumption DEF Inv, TypeOK, Handle
<1>2. PICK reply \in Answers, change \in {-1, 0, 1} :
        /\ session' = [session EXCEPT ![k] = [at |-> "served", line |-> conn[k].request, reply |-> reply]]
        /\ count' = [count EXCEPT ![Server(k)] = @ + change]
        /\ \/ conn[k].request = "in" /\ reply = "ok" /\ change = 1
           \/ conn[k].request = "out" /\ reply = "ok" /\ change = -1
           \/ (reply = "ok" => conn[k].request \notin {"in", "out"}) /\ change = 0
  BY DEF Handle, Compute, Answers
<1>3. /\ session'[k].line = conn[k].request /\ session'[k].reply = reply
      /\ session[k].reply # "ok"
      /\ \A j \in Conns : j # k => session'[j] = session[j]
  BY <1>1, <1>2, ConnectionsAssumption DEF OneRequest
<1>4. \A s \in Servers, w \in {"in", "out"} :
        Granted(s, w)' = IF s = Server(k) /\ conn[k].request = w /\ reply = "ok"
                           THEN Granted(s, w) \cup {k} ELSE Granted(s, w)
  BY <1>1, <1>3 DEF Granted, Server
<1>5. \A s, w : k \notin Granted(s, w)
  BY <1>3 DEF Granted
<1>6. ASSUME NEW s \in Servers
      PROVE  /\ IsFiniteSet(Granted(s, "in")') /\ IsFiniteSet(Granted(s, "out")')
             /\ count'[s] = Cardinality(Granted(s, "in")') - Cardinality(Granted(s, "out")')
  <2>1. /\ IsFiniteSet(Granted(s, "in")) /\ IsFiniteSet(Granted(s, "out"))
        /\ count[s] = Cardinality(Granted(s, "in")) - Cardinality(Granted(s, "out"))
    BY DEF Books
  <2>2. /\ Cardinality(Granted(s, "in")) \in Nat /\ Cardinality(Granted(s, "out")) \in Nat
    BY <2>1, FS_CardinalityType
  <2>3. \A w \in {"in", "out"} :
          /\ IsFiniteSet(Granted(s, w) \cup {k})
          /\ Cardinality(Granted(s, w) \cup {k}) = Cardinality(Granted(s, w)) + 1
    BY <1>5, <2>1, FS_AddElement
  <2>4. count'[s] = IF s = Server(k) THEN count[s] + change ELSE count[s]
    BY <1>1, <1>2
  <2>5. CASE s # Server(k)
    BY <1>4, <2>1, <2>4, <2>5
  <2>6. CASE s = Server(k)
    <3>1. CASE conn[k].request = "in" /\ reply = "ok" /\ change = 1
      <4>1. /\ Granted(s, "in")' = Granted(s, "in") \cup {k}
            /\ Granted(s, "out")' = Granted(s, "out")
        BY <1>4, <2>6, <3>1
      <4>2. count'[s] = count[s] + 1
        BY <2>4, <2>6, <3>1
      <4>3. /\ IsFiniteSet(Granted(s, "in")')
            /\ Cardinality(Granted(s, "in")') = Cardinality(Granted(s, "in")) + 1
        BY <2>3, <4>1
      <4>4. /\ IsFiniteSet(Granted(s, "out")')
            /\ Cardinality(Granted(s, "out")') = Cardinality(Granted(s, "out"))
        BY <2>1, <4>1
      <4>5. QED
        BY <2>1, <2>2, <4>2, <4>3, <4>4
    <3>2. CASE conn[k].request = "out" /\ reply = "ok" /\ change = -1
      <4>1. /\ Granted(s, "in")' = Granted(s, "in")
            /\ Granted(s, "out")' = Granted(s, "out") \cup {k}
        BY <1>4, <2>6, <3>2
      <4>2. count'[s] = count[s] - 1
        BY <2>4, <2>6, <3>2
      <4>3. /\ IsFiniteSet(Granted(s, "out")')
            /\ Cardinality(Granted(s, "out")') = Cardinality(Granted(s, "out")) + 1
        BY <2>3, <4>1
      <4>4. /\ IsFiniteSet(Granted(s, "in")')
            /\ Cardinality(Granted(s, "in")') = Cardinality(Granted(s, "in"))
        BY <2>1, <4>1
      <4>5. QED
        BY <2>1, <2>2, <4>2, <4>3, <4>4
    <3>3. CASE (reply = "ok" => conn[k].request \notin {"in", "out"}) /\ change = 0
      BY <1>4, <2>1, <2>2, <2>4, <2>6, <3>3
    <3>4. QED
      BY <1>2, <3>1, <3>2, <3>3
  <2>7. QED
    BY <2>5, <2>6
<1>7. QED
  BY <1>6 DEF Books

LEMMA StepBooks == Inv /\ Books /\ [Next]_vars => Books'
<1> SUFFICES ASSUME Inv, Books, [Next]_vars PROVE Books'
  OBVIOUS
<1>1. session \in [Conns -> SessionState]
  BY DEF Inv, TypeOK
<1>2. CASE \/ UNCHANGED serverVars
           \/ \E k \in Conns : Accept(k) \/ ReadFails(k) \/ LogThrows(k) \/ Send(k) \/ SendThrows(k) \/ Exit(k)
  <2>1. count' = count
    BY <1>2 DEF serverVars, Accept, ReadFails, LogThrows, Send, SendThrows, Exit
  <2>2. \A k \in Conns : session[k].reply = "ok" \/ session'[k].reply = "ok" =>
          session'[k].reply = session[k].reply /\ session'[k].line = session[k].line
    <3>1. CASE \E k \in Conns : Accept(k) \/ ReadFails(k) \/ Send(k)
      BY <1>1, <3>1 DEF Accept, ReadFails, Send, SessionState
    <3>2. CASE session' = session
      BY <3>2
    <3>3. QED
      BY <1>2, <3>1, <3>2 DEF serverVars, LogThrows, SendThrows, Exit
  <2>3. QED
    BY <2>1, <2>2, BooksKept
<1>3. CASE \E k \in Conns : Handle(k)
  BY <1>3, HandleBooks
<1>4. QED
  BY <1>2, <1>3 DEF Next, ClientStep, UserStep, ServerStep, NetworkStep, Serve, Idle, vars, serverVars

\* The lot of each server holds the cars whose requests it has granted, also
\* when the answer was lost to a reset.
THEOREM LedgerCorrect == Spec => []Ledger
<1>1. Spec => []Books
  BY Invariance, InitBooks, StepBooks, PTL DEF Spec
<1>2. Books => Ledger
  BY DEF Books, Ledger
<1>3. QED
  BY <1>1, <1>2, PTL
-----------------------------------------------------------------------------
\* One command moves one car at most: of two hosts that granted it, one would
\* have been asked after the other had, although no client goes on after that,
\* nor after an answer that it lost.
THEOREM OneGrantCorrect == Spec => []AtMostOneGrant
<1>1. Inv => AtMostOneGrant
  <2> SUFFICES ASSUME Inv, NEW c \in Clients, NEW n \in 1..MaxCommands
               PROVE  Cardinality({i \in 1..Len(Hosts) : session[<<c, n, i>>].line \in {"in", "out"}
                                                          /\ session[<<c, n, i>>].reply = "ok"}) <= 1
    BY DEF AtMostOneGrant
  <2> DEFINE Grants == {i \in 1..Len(Hosts) : session[<<c, n, i>>].line \in {"in", "out"}
                                               /\ session[<<c, n, i>>].reply = "ok"}
  <2>1. ASSUME NEW i \in Grants, NEW j \in Grants, i < j PROVE FALSE
    <3>1. /\ <<c, n, i>> \in Conns /\ <<c, n, j>> \in Conns
          /\ \A k \in {<<c, n, i>>, <<c, n, j>>} :
               session[k].line \in Moves /\ session[k].reply = "ok"
      BY ConnsFacts DEF Moves
    <3>2. ~Unused(<<c, n, j>>) /\ ~Unused(<<c, n, i>>) /\ ~Passed(<<c, n, i>>)
      BY <3>1, AsioSimAssumption DEF Unused, Passed, Declined, Harmless, Moves
    <3>3. QED
      BY <2>1, <3>1, <3>2 DEF Inv, InTurn
  <2>2. Grants \subseteq 1..Len(Hosts) /\ Len(Hosts) \in Nat
    BY ConnsFacts
  <2> HIDE DEF Grants
  <2>3. \A i, j \in Grants : i = j
    BY <2>1, <2>2
  <2>4. CASE Grants = {}
    <3>1. Cardinality(Grants) = 0
      BY <2>4, FS_EmptySet
    <3>2. QED
      BY <3>1 DEF Grants
  <2>5. CASE Grants # {}
    <3>1. PICK i \in Grants : Grants = {i}
      BY <2>3, <2>5
    <3>2. Cardinality({i}) = 1
      BY FS_Singleton
    <3>3. Cardinality(Grants) = 1
      BY <3>1, <3>2
    <3>4. QED
      BY <3>3 DEF Grants
  <2>6. QED
    BY <2>4, <2>5
<1>2. QED
  BY <1>1, Invariance, PTL

\* What a client may conclude from a broadcast that brought it back to its
\* prompt: one host has granted it, or all of them have refused.
THEOREM BroadcastCorrect == Spec => []BroadcastOutcome
<1>1. Inv => BroadcastOutcome
  <2> SUFFICES ASSUME Inv, NEW c \in Clients, at[c] = "prompt", wide[c], cmd[c] \in {"in", "out"},
                      session[Current(c)].reply # "ok", NEW i \in 1..Len(Hosts)
               PROVE  session[<<c, typed[c], i>>].reply = "fail"
    BY DEF BroadcastOutcome
  <2>1. /\ typed[c] \in 1..MaxCommands /\ host[c] \in 1..Len(Hosts) /\ Len(Hosts) \in Nat
    BY CurrentFacts DEF Inv, Started
  <2>2. \A j \in 1..Len(Hosts) : /\ <<c, typed[c], j>> \in Conns
                                 /\ OneRequest(<<c, typed[c], j>>) /\ Progress(<<c, typed[c], j>>)
    BY <2>1, ConnsFacts DEF Inv
  <2>3. session[Current(c)].reply = "fail" /\ host[c] = Len(Hosts)
    BY <2>1, <2>2 DEF Progress, Current, Moves
  <2>4. CASE i = host[c]
    BY <2>3, <2>4 DEF Current
  <2>5. CASE i # host[c]
    <3>1. i < host[c] /\ cmd[c] # "quit"
      BY <2>1, <2>3, <2>5
    <3>2. Declined(<<c, typed[c], i>>) /\ session[<<c, typed[c], i>>].line \in {Nothing, cmd[c]}
      BY <2>2, <3>1 DEF Progress
    <3>3. QED
      BY <2>2, <3>2 DEF Declined, OneRequest, Moves
  <2>6. QED
    BY <2>4, <2>5
<1>2. QED
  BY <1>1, Invariance, PTL
-----------------------------------------------------------------------------
\* The reason for the end of a server is on record, and the record is kept.
LEMMA StepEnds == Inv /\ EndsForCause /\ [Next]_vars => EndsForCause'
<1> SUFFICES ASSUME Inv, EndsForCause, [Next]_vars PROVE EndsForCause'
  OBVIOUS
<1>1. /\ session \in [Conns -> SessionState] /\ up \in [Servers -> BOOLEAN]
      /\ \A k \in Conns : OneRequest(k) /\ Server(k) \in Servers
  BY ConnsFacts DEF Inv, TypeOK
<1>2. broken \subseteq broken'
  BY DEF Next, ClientStep, UserStep, ServerStep, NetworkStep, Break, Idle, vars
<1>3. \A k \in Conns : session[k].line = "quit" => session'[k].line = "quit"
  <2>1. CASE UNCHANGED session
    BY <2>1
  <2>2. ASSUME NEW j \in Conns, Handle(j)
        PROVE  \A k \in Conns : session[k].line = "quit" => session'[k].line = "quit"
    <3>1. session[j].line # "quit"
      BY <1>1, <2>2, AsioSimAssumption DEF Handle, OneRequest
    <3>2. \A k \in Conns : k # j => session'[k] = session[k]
      BY <1>1, <2>2 DEF Handle, Compute
    <3>3. QED
      BY <3>1, <3>2
  <2>3. ASSUME NEW j \in Conns, Accept(j) \/ ReadFails(j) \/ Send(j)
        PROVE  \A k \in Conns : session[k].line = "quit" => session'[k].line = "quit"
    BY <1>1, <2>3 DEF Accept, ReadFails, Send, SessionState
  <2>4. QED
    BY <2>1, <2>2, <2>3 DEF Next, ClientStep, UserStep, ServerStep, NetworkStep, Serve,
       LogThrows, SendThrows, Exit, Idle, vars, serverVars
<1>4. \A s \in Servers : up'[s] \/ ~up[s] \/
        \E k \in Conns : Server(k) = s /\ (session[k].line = "quit" \/ k \in broken)
  <2>1. CASE UNCHANGED up
    BY <2>1
  <2>2. ASSUME NEW j \in Conns, LogThrows(j) \/ SendThrows(j) \/ Exit(j)
        PROVE  \A s \in Servers : up'[s] \/ ~up[s] \/
                 \E k \in Conns : Server(k) = s /\ (session[k].line = "quit" \/ k \in broken)
    <3>1. session[j].line = "quit" \/ j \in broken
      BY <1>1, <2>2 DEF LogThrows, SendThrows, Exit, OneRequest
    <3>2. \A s \in Servers : s # Server(j) => up'[s] = up[s]
      BY <1>1, <2>2 DEF LogThrows, SendThrows, Exit, EndProcess
    <3>3. QED
      BY <1>1, <3>1, <3>2
  <2>3. QED
    BY <2>1, <2>2 DEF Next, ClientStep, UserStep, ServerStep, NetworkStep, Serve,
       Accept, ReadFails, Handle, Send, Idle, vars, serverVars
<1>5. QED
  BY <1>2, <1>3, <1>4 DEF EndsForCause, Server

\* No client that comes, goes or dies brings a server down, unless it says quit
\* or its connection is reset.
THEOREM EndsForCauseCorrect == Spec => []EndsForCause
<1>1. SimInit => EndsForCause
  BY DEF SimInit, ServerInit, EndsForCause
<1>2. QED
  BY <1>1, Invariance, StepEnds, PTL DEF Spec
-----------------------------------------------------------------------------
\* The ends of a connection tell whether its server runs, and its session
\* whether the server is busy with it; one that has read "quit" stays so.
Honest(k) ==
  /\ conn[k].server \in {"backlog", "open"} => up[Server(k)]
  /\ conn[k].server \in {"closed", "reset"} =>
       ~up[Server(k)] \/ k \in broken \/ conn[k].client = "closed" \/ session[k].line # Nothing
  /\ up[Server(k)] /\ session[k].at \in {"served", "exiting"} => serving[Server(k)] = k
  /\ serving[Server(k)] = k => session[k].at \in {"served", "exiting"} /\ conn[k].server = "open"
  /\ session[k].line = "quit" /\ up[Server(k)] => session[k].at \in {"served", "exiting"}

\* A quit has been left with the server, if that could still be done.
Left(k) == ~up[Server(k)] \/ k \in broken \/ conn[k].request = "quit" \/ session[k].line = "quit"

\* What the client of a connection of its last command waits for, and what has
\* become of "quit" at the hosts that it is done with.
Settled(k) ==
  LET c == k[1] IN
    k[2] = typed[c] =>
      /\ at[c] = "waiting" /\ k[3] = host[c] => Attended(k)
      /\ cmd[c] = "quit" /\ wide[c] /\ k[3] < host[c] => Left(k)
      /\ at[c] \in {"leaving", "advancing", "exited"} /\ k[3] = host[c] => Left(k)

\* A client waits for no answer to a quit, leaves on quit only, and only after
\* the last of its hosts.
QuitsLast(c) ==
  /\ typed[c] = 0 <=> cmd[c] = Nothing
  /\ at[c] = "waiting" => cmd[c] # "quit"
  /\ at[c] \in {"leaving", "exited"} => cmd[c] = "quit" /\ (wide[c] => host[c] = Len(Hosts))

\* The second part of the inductive invariant.
Ahead ==
  /\ \A k \in Conns : Honest(k) /\ Settled(k)
  /\ \A c \in Clients : QuitsLast(c)

LEMMA InitAhead == SimInit => Ahead
<1> SUFFICES ASSUME SimInit PROVE Ahead
  OBVIOUS
<1> USE DEF SimInit, Init, BreakInit, ServerInit, ClientInit
<1>1. ASSUME NEW k \in Conns PROVE Honest(k) /\ Settled(k)
  <2>1. Server(k) \in Servers /\ k # Nothing /\ Nothing # "quit"
    BY ConnsFacts, AsioServerAssumption, AsioSimAssumption
  <2>2. QED
    BY <2>1, ConnsFacts DEF Honest, Settled
<1>2. \A c \in Clients : QuitsLast(c)
  BY DEF QuitsLast
<1>3. QED
  BY <1>1, <1>2 DEF Ahead

\* What a server or the network does to a connection leaves the others alone.
LEMMA ServerAhead ==
  ASSUME Inv, Ahead, NEW k \in Conns, UNCHANGED <<clientVars, up>>, broken \subseteq broken',
         \A j \in Conns : j # k => /\ conn'[j] = conn[j] /\ session'[j] = session[j]
                                   /\ serving'[Server(j)] = j <=> serving[Server(j)] = j,
         Honest(k)', Attended(k) /\ conn[k].client = "open" => Attended(k)', Left(k) => Left(k)'
  PROVE  Ahead'
<1>1. ASSUME NEW j \in Conns, j # k
      PROVE  Honest(j)' /\ (Attended(j) => Attended(j)') /\ (Left(j) => Left(j)')
  <2>1. /\ conn'[j] = conn[j] /\ session'[j] = session[j] /\ up' = up
        /\ serving'[Server(j)] = j <=> serving[Server(j)] = j
        /\ j \in broken => j \in broken'
        /\ Honest(j)
    BY <1>1 DEF Ahead
  <2>2. QED
    BY <2>1 DEF Honest, Attended, Left, Server
<1>2. ASSUME NEW j \in Conns PROVE Settled(j)'
  <2>1. Attended(j) /\ conn[j].client = "open" => Attended(j)'
    BY <1>1
  <2>2. Left(j) => Left(j)'
    BY <1>1
  <2>3. QED
    BY <2>1, <2>2 DEF Inv, Progress, Ahead, Settled, clientVars
<1>3. ASSUME NEW c \in Clients PROVE QuitsLast(c)'
  BY DEF Ahead, QuitsLast, clientVars
<1>4. QED
  BY <1>1, <1>2, <1>3 DEF Ahead

LEMMA SessionAhead ==
  ASSUME Inv, Ahead, NEW k \in Conns, UNCHANGED clientVars,
         \/ (Accept(k) \/ ReadFails(k) \/ Handle(k) \/ Send(k)) /\ UNCHANGED broken
         \/ NetworkStep(k)
  PROVE  Ahead'
<1>1. /\ conn \in [Conns -> Connection] /\ session \in [Conns -> SessionState]
      /\ serving \in [Servers -> Conns \cup {Nothing}] /\ Server(k) \in Servers
      /\ OneRequest(k) /\ Honest(k) /\ Nothing \notin Conns
      /\ Nothing \notin {"free", "in", "out", "quit", "ok", "fail", "number"}
  BY ConnsFacts, AsioServerAssumption, AsioSimAssumption, ConnectionsAssumption DEF Inv, TypeOK, Ahead
<1>2. CASE Accept(k) /\ UNCHANGED broken
  <2>1. /\ conn' = [conn EXCEPT ![k].server = "open"]
        /\ session' = [session EXCEPT ![k].at = "reading"]
        /\ UNCHANGED <<up, serving, broken, clientVars>>
        /\ conn[k].server = "backlog" /\ up[Server(k)] /\ serving[Server(k)] = Nothing
    BY <1>2 DEF Accept, Idles
  <2>2. Honest(k)' /\ (Attended(k) => Attended(k)') /\ (Left(k) => Left(k)')
    BY <1>1, <2>1 DEF Honest, Attended, Left, OneRequest, Connection, SessionState, Server
  <2>3. QED
    BY <1>1, <2>1, <2>2, ServerAhead
<1>3. CASE ReadFails(k) /\ UNCHANGED broken
  <2>1. /\ conn' = [conn EXCEPT ![k].server = "closed"]
        /\ session' = [session EXCEPT ![k].at = "ended"]
        /\ UNCHANGED <<up, serving, broken, clientVars>>
        /\ session[k].at = "reading" /\ conn[k].request = Nothing
        /\ up[Server(k)] /\ serving[Server(k)] = Nothing
        /\ conn[k].client = "closed" \/ k \in broken
    BY <1>3 DEF ReadFails, Idles
  <2>2. Honest(k)' /\ (Attended(k) => Attended(k)') /\ (Left(k) => Left(k)')
    BY <1>1, <2>1 DEF Honest, Attended, Left, OneRequest, Connection, SessionState, Server
  <2>3. QED
    BY <1>1, <2>1, <2>2, ServerAhead
<1>4. CASE Handle(k) /\ UNCHANGED broken
  <2>1. PICK reply \in Answers \ {Nothing} :
          session' = [session EXCEPT ![k] = [at |-> "served", line |-> conn[k].request, reply |-> reply]]
    BY <1>1, <1>4 DEF Handle, Compute, Answers
  <2>2. /\ conn' = [conn EXCEPT ![k].request = Nothing]
        /\ serving' = [serving EXCEPT ![Server(k)] = k]
        /\ UNCHANGED <<up, broken, clientVars>>
        /\ session[k].at = "reading" /\ up[Server(k)] /\ serving[Server(k)] = Nothing
    BY <1>4 DEF Handle, Idles
  <2>3. conn[k].request # Nothing /\ conn[k].server = "open"
    <3>1. conn[k].request \in {"in", "out", "free", "quit"}
      BY <1>4 DEF Handle
    <3>2. QED
      BY <1>1, <2>2, <3>1 DEF OneRequest
  <2>4. ASSUME NEW j \in Conns, j # k PROVE serving'[Server(j)] = j <=> serving[Server(j)] = j
    BY <1>1, <2>2, <2>4
  <2>5. Honest(k)' /\ (Attended(k) => Attended(k)') /\ (Left(k) => Left(k)')
    BY <1>1, <2>1, <2>2, <2>3 DEF Honest, Attended, Left, OneRequest, Connection, SessionState, Server
  <2>6. QED
    BY <1>1, <2>1, <2>2, <2>4, <2>5, ServerAhead
<1>5. CASE Send(k) /\ UNCHANGED broken
  <2> DEFINE quits == session[k].line = "quit"
             sent == conn[k].client = "open" /\ k \notin broken
  <2>1. /\ conn' = [conn EXCEPT ![k].answer = IF sent THEN session[k].reply ELSE @,
                               ![k].server = IF quits THEN @ ELSE "closed"]
        /\ session' = [session EXCEPT ![k].at = IF quits THEN "exiting" ELSE "ended"]
        /\ serving' = [serving EXCEPT ![Server(k)] = IF quits THEN @ ELSE Nothing]
        /\ UNCHANGED <<up, broken, clientVars>>
        /\ serving[Server(k)] = k /\ session[k].at = "served"
    BY <1>5 DEF Send
  <2>2. ASSUME NEW j \in Conns, j # k PROVE serving'[Server(j)] = j <=> serving[Server(j)] = j
    BY <1>1, <2>1, <2>2
  <2>3. Honest(k)' /\ (Left(k) => Left(k)')
    BY <1>1, <2>1 DEF Honest, Left, OneRequest, Connection, SessionState, Server
  <2>4. Attended(k) /\ conn[k].client = "open" => Attended(k)'
    BY <1>1, <2>1 DEF Attended, OneRequest, Connection, SessionState, Server
  <2>5. QED
    BY <1>1, <2>1, <2>2, <2>3, <2>4, ServerAhead
<1>6. CASE NetworkStep(k)
  <2>1. /\ UNCHANGED <<up, serving, session, clientVars>> /\ broken' = broken \cup {k}
        /\ \/ conn' = [conn EXCEPT ![k].request = Nothing, ![k].answer = Nothing]
           \/ conn' = conn
    BY <1>6 DEF NetworkStep, Break, serverVars
  <2>2. conn'[k].server = conn[k].server
    BY <1>1, <2>1 DEF Connection
  <2>3. Honest(k)' /\ Attended(k)' /\ Left(k)'
    BY <1>1, <2>1, <2>2 DEF Honest, Attended, Left, Server
  <2>4. QED
    BY <1>1, <2>1, <2>3, ServerAhead
<1>7. QED
  BY <1>2, <1>3, <1>4, <1>5, <1>6

LEMMA EndAhead ==
  ASSUME Inv, Ahead, NEW s \in Servers, EndProcess(s),
         UNCHANGED <<count, session>>, UNCHANGED clientVars, UNCHANGED broken
  PROVE  Ahead'
<1>1. conn \in [Conns -> Connection] /\ \A j \in Conns : Ending(s, j)
  BY EndProcessEffect DEF Inv, TypeOK
<1>2. \A j \in Conns : up'[Server(j)] <=> (up[Server(j)] /\ Server(j) # s)
  BY ConnsFacts DEF EndProcess, Inv, TypeOK
<1>3. \A j \in Conns : serving'[Server(j)] = IF Server(j) = s THEN Nothing ELSE serving[Server(j)]
  BY ConnsFacts DEF EndProcess, Inv, TypeOK
<1>4. ASSUME NEW j \in Conns PROVE Honest(j)' /\ Settled(j)'
  <2>1. OneRequest(j) /\ Honest(j) /\ Settled(j) /\ j # Nothing
    BY AsioServerAssumption DEF Inv, Ahead
  <2>2. CASE Server(j) # s
    <3>1. /\ conn'[j] = conn[j] /\ (up'[Server(j)] <=> up[Server(j)])
          /\ serving'[Server(j)] = serving[Server(j)]
      BY <1>1, <1>2, <1>3, <2>2 DEF Ending
    <3>2. Honest(j)' /\ (Attended(j) => Attended(j)') /\ (Left(j) => Left(j)')
      BY <2>1, <3>1 DEF Honest, Attended, Left, Server
    <3>3. QED
      BY <2>1, <3>2 DEF Settled, clientVars
  <2>3. CASE Server(j) = s
    <3>1. ~up'[Server(j)] /\ serving'[Server(j)] = Nothing
      BY <1>2, <1>3, <2>3
    <3>2. Attended(j) => Attended(j)'
      BY <1>1, <2>1, <2>3 DEF Ending, Honest, Attended, OneRequest, Connection
    <3>3. Honest(j)'
      BY <1>1, <2>1, <2>3, <3>1 DEF Ending, Honest, Connection, Server
    <3>4. Left(j)'
      BY <3>1 DEF Left, Server
    <3>5. QED
      BY <2>1, <3>2, <3>3, <3>4 DEF Settled, clientVars
  <2>4. QED
    BY <2>2, <2>3
<1>5. ASSUME NEW c \in Clients PROVE QuitsLast(c)'
  BY DEF Ahead, QuitsLast, clientVars
<1>6. QED
  BY <1>4, <1>5 DEF Ahead

\* What a client does concerns its own connections only.
LEMMA ClientAhead ==
  ASSUME Ahead, NEW c \in Clients, UNCHANGED serverVars, UNCHANGED broken,
         \A k \in Conns : k # Current(c) => conn'[k] = conn[k],
         \A d \in Clients : d # c => /\ at'[d] = at[d] /\ typed'[d] = typed[d] /\ cmd'[d] = cmd[d]
                                     /\ wide'[d] = wide[d] /\ host'[d] = host[d],
         \A k \in Conns : k = Current(c) => Honest(k)',
         \A k \in Conns : k[1] = c => Settled(k)',
         QuitsLast(c)'
  PROVE  Ahead'
<1>1. ASSUME NEW k \in Conns, k # Current(c) PROVE Honest(k)'
  BY <1>1 DEF Ahead, Honest, serverVars, Server
<1>2. ASSUME NEW k \in Conns, k[1] # c PROVE Settled(k)'
  <2>1. k[1] \in Clients /\ k # Current(c)
    BY <1>2, ConnsFacts DEF Current
  <2>2. /\ conn'[k] = conn[k] /\ session' = session /\ up' = up /\ serving' = serving /\ Settled(k)
    BY <2>1 DEF Ahead, serverVars
  <2>3. QED
    BY <1>2, <2>1, <2>2 DEF Settled, Attended, Left, Server
<1>3. ASSUME NEW d \in Clients, d # c PROVE QuitsLast(d)'
  BY <1>3 DEF Ahead, QuitsLast
<1>4. QED
  BY <1>1, <1>2, <1>3 DEF Ahead

LEMMA ClientStepAhead ==
  ASSUME Inv, Ahead, NEW c \in Clients, ClientStep(c) \/ UserStep(c)
  PROVE  Ahead'
<1>1. /\ at \in [Clients -> Stages]
      /\ typed \in [Clients -> 0..MaxCommands] /\ cmd \in [Clients -> Lines]
      /\ wide \in [Clients -> BOOLEAN] /\ host \in [Clients -> 1..Len(Hosts)]
      /\ conn \in [Conns -> Connection] /\ session \in [Conns -> SessionState]
      /\ \A k \in Conns : OneRequest(k) /\ Progress(k) /\ Honest(k) /\ Settled(k)
      /\ QuitsLast(c) /\ Started(c) /\ Nothing # "quit" /\ Nothing \notin Commands /\ Typed[c] \subseteq Commands
  BY AsioSimAssumption, ConnectionsAssumption DEF Inv, TypeOK, Ahead
<1>2. /\ at[c] \in {"connecting", "writing", "waiting", "leaving", "advancing"} => Current(c) \in Conns
      /\ Current(c)[1] = c /\ Current(c)[2] = typed[c] /\ Current(c)[3] = host[c]
      /\ \A k \in Conns : k[1] = c /\ k[2] = typed[c] /\ k[3] = host[c] => k = Current(c)
      /\ \A k \in Conns : k[1] = c => k[2] \in Nat /\ k[3] \in 1..Len(Hosts)
      /\ typed[c] \in 0..MaxCommands /\ host[c] \in 1..Len(Hosts) /\ Len(Hosts) \in Nat /\ MaxCommands \in Nat
  BY CurrentFacts
<1>3. UNCHANGED serverVars /\ broken' = broken /\ UNCHANGED <<up, serving, session>>
  BY DEF ClientStep, UserStep, serverVars
<1> DEFINE Others == /\ \A k \in Conns : k # Current(c) => conn'[k] = conn[k]
                     /\ \A d \in Clients : d # c => /\ at'[d] = at[d] /\ typed'[d] = typed[d]
                                                    /\ cmd'[d] = cmd[d] /\ wide'[d] = wide[d]
                                                    /\ host'[d] = host[d]
<1>4. ASSUME UNCHANGED <<typed, cmd, wide>>, host'[c] = host[c],
             \A j \in Conns : j # Current(c) => conn'[j] = conn[j],
             NEW k \in Conns, k[1] = c,
             at'[c] = "waiting" /\ k = Current(c) => Attended(k)',
             at'[c] \in {"leaving", "advancing", "exited"} /\ k = Current(c) => Left(k)'
      PROVE  Settled(k)'
  <2>1. /\ Settled(k)
        /\ k[2] = typed[c] /\ k[3] = host[c] => k = Current(c)
        /\ k[3] < host[c] => k # Current(c)
    BY <1>1, <1>2, <1>4
  <2>2. k # Current(c) /\ Left(k) => Left(k)'
    BY <1>3, <1>4 DEF Left, Server
  <2>3. QED
    BY <1>4, <2>1, <2>2 DEF Settled
<1>5. CASE \E word \in Typed[c], i \in 1..Len(Hosts), broadcast \in BOOLEAN : Type(c, word, i, broadcast)
  <2>1. PICK word \in Typed[c], i \in 1..Len(Hosts), broadcast \in BOOLEAN : Type(c, word, i, broadcast)
    BY <1>5
  <2>2. Others /\ conn' = conn
    BY <1>1, <2>1 DEF Type, Goto
  <2>3. /\ at'[c] = "connecting" /\ typed'[c] = typed[c] + 1 /\ cmd'[c] = word
        /\ wide'[c] = broadcast /\ host'[c] = i /\ (broadcast => i = 1)
    BY <1>1, <2>1 DEF Type, Goto
  <2>4. \A k \in Conns : Honest(k)'
    BY <1>1, <1>3, <2>2 DEF Honest, Server
  <2>5. \A k \in Conns : k[1] = c => Settled(k)'
    BY <1>1, <1>2, <2>3 DEF Settled
  <2>6. QuitsLast(c)'
    BY <1>1, <1>2, <2>3 DEF QuitsLast
  <2>7. QED
    BY <1>3, <2>2, <2>4, <2>5, <2>6, ClientAhead
<1>6. CASE \/ TypeBadIndex(c) \/ EndOfInput(c) \/ Refused(c)
           \/ up[Server(Current(c))] /\ Connect(c)
  <2>1. /\ Others /\ UNCHANGED <<typed, cmd, wide, host>>
        /\ at'[c] \in {"dead", "spinning", "writing"}
    BY <1>1, <1>6 DEF TypeBadIndex, EndOfInput, Refused, Connect, Open, Goto
  <2>2. ASSUME NEW k \in Conns, k = Current(c) PROVE Honest(k)'
    <3>1. CASE conn' = conn
      BY <1>1, <1>3, <3>1 DEF Honest, Server
    <3>2. CASE up[Server(k)] /\ Connect(c)
      <4>1. Unused(k) /\ Honest(k)
        BY <1>1, <1>2, <2>2, <3>2 DEF Connect, Progress
      <4>2. conn'[k].server = "backlog"
        BY <1>1, <2>2, <3>2 DEF Connect, Open, Connection
      <4>3. QED
        BY <1>3, <3>2, <4>1, <4>2 DEF Honest, Unused, Server
    <3>3. QED
      BY <1>6, <2>2, <3>1, <3>2 DEF TypeBadIndex, EndOfInput, Refused
  <2>3. \A k \in Conns : k[1] = c => Settled(k)'
    BY <1>4, <2>1
  <2>4. QuitsLast(c)'
    BY <1>1, <2>1 DEF QuitsLast
  <2>5. QED
    BY <1>3, <2>1, <2>2, <2>3, <2>4, ClientAhead
<1>7. CASE Write(c) \/ WriteQuit(c)
  <2>1. PICK k0 \in Conns : k0 = Current(c)
    BY <1>2, <1>7 DEF Write, WriteQuit
  <2>2. /\ Others /\ UNCHANGED <<typed, cmd, wide, host>> /\ at[c] = "writing"
        /\ SendRequest(k0, cmd[c])
        /\ \/ at'[c] = "waiting" /\ cmd[c] # "quit"
           \/ at'[c] = "leaving" /\ cmd[c] = "quit" /\ Last(c)
           \/ at'[c] = "advancing" /\ cmd[c] = "quit"
    BY <1>1, <1>2, <1>7, <2>1 DEF Write, WriteQuit, Goto, SendRequest, Stages
  <2>3. /\ conn'[k0].answer = conn[k0].answer /\ conn'[k0].client = conn[k0].client
        /\ \/ /\ conn[k0].server \in {"backlog", "open"} /\ conn'[k0].server = conn[k0].server
              /\ conn'[k0].request = cmd[c]
           \/ conn[k0].server \in {"closed", "reset"} /\ conn'[k0].server \in {"closed", "reset"}
    BY <1>1, <2>2 DEF SendRequest, Connection
  <2>4. /\ OneRequest(k0) /\ Honest(k0) /\ cmd[c] # Nothing
        /\ conn[k0].client = "open" /\ session[k0].line = Nothing
    BY <1>1, <1>2, <2>1, <2>2 DEF Progress, QuitsLast, Started
  <2>5. Honest(k0)'
    BY <1>3, <2>3, <2>4 DEF Honest, Server
  <2>6. Attended(k0)'
    BY <1>3, <2>3, <2>4 DEF Attended, Honest, OneRequest, Server
  <2>7. cmd[c] = "quit" => Left(k0)'
    BY <1>3, <2>3, <2>4 DEF Left, Honest, Server
  <2>8. \A k \in Conns : k[1] = c => Settled(k)'
    BY <1>4, <2>1, <2>2, <2>6, <2>7
  <2>9. QuitsLast(c)'
    BY <1>1, <1>2, <2>2 DEF QuitsLast, Last
  <2>10. QED
    BY <1>3, <2>1, <2>2, <2>5, <2>8, <2>9, ClientAhead
<1>8. CASE \/ WriteThrows(c) \/ PrintThrows(c) \/ ReadThrows(c) \/ Kill(c)
           \/ CloseAfterQuit(c) \/ Read(c)
  <2>1. PICK k0 \in Conns : k0 = Current(c)
    BY <1>2, <1>8 DEF WriteThrows, PrintThrows, ReadThrows, Kill, CloseAfterQuit, Read
  <2>2. /\ Others /\ UNCHANGED <<typed, cmd, wide>> /\ CloseClient(k0)
        /\ \/ at'[c] \in {"dead", "killed", "prompt"} /\ host'[c] = host[c]
           \/ at[c] = "leaving" /\ at'[c] = "exited" /\ host'[c] = host[c]
           \/ at[c] \in {"advancing", "waiting"} /\ at'[c] = "connecting" /\ host'[c] = host[c] + 1
    <3>1. CASE WriteThrows(c) \/ PrintThrows(c) \/ ReadThrows(c) \/ Kill(c)
      BY <1>1, <2>1, <3>1 DEF WriteThrows, PrintThrows, ReadThrows, Kill, Throw, CloseClient, Goto
    <3>2. CASE CloseAfterQuit(c)
      BY <1>1, <2>1, <3>2 DEF CloseAfterQuit, CloseClient, Goto
    <3>3. CASE Read(c)
      BY <1>1, <2>1, <3>3 DEF Read, CloseClient, Goto
    <3>4. QED
      BY <1>8, <3>1, <3>2, <3>3
  <2>3. /\ conn'[k0].server = conn[k0].server /\ conn'[k0].request = conn[k0].request
        /\ conn'[k0].client = "closed"
    BY <1>1, <2>2 DEF CloseClient, Connection
  <2>4. Honest(k0)' /\ (Left(k0) => Left(k0)')
    BY <1>1, <1>3, <2>3 DEF Honest, Left, Server
  <2>5. at[c] \in {"leaving", "advancing"} => Left(k0)'
    BY <1>1, <1>2, <2>1, <2>4 DEF Settled
  <2>6. \A k \in Conns : k[1] = c => Settled(k)'
    <3>1. CASE host'[c] = host[c] /\ at'[c] # "connecting"
      BY <1>4, <2>1, <2>2, <2>5, <3>1
    <3>2. CASE at'[c] = "connecting" /\ at[c] \in {"advancing", "waiting"} /\ host'[c] = host[c] + 1
      <4> SUFFICES ASSUME NEW k \in Conns, k[1] = c, k[2] = typed[c], cmd[c] = "quit", wide[c], k[3] <= host[c]
                   PROVE  Left(k)'
        BY <1>2, <2>2, <3>2 DEF Settled
      <4>1. CASE k = k0
        BY <1>1, <2>5, <3>2, <4>1 DEF QuitsLast
      <4>2. CASE k # k0
        <5>1. Left(k) /\ conn'[k] = conn[k]
          <6>1. Settled(k) /\ conn'[k] = conn[k] /\ k[3] # host[c]
            BY <1>1, <1>2, <2>1, <2>2, <4>2
          <6>2. k[3] < host[c]
            BY <1>2, <6>1
          <6>3. QED
            BY <6>1, <6>2 DEF Settled
        <5>2. QED
          BY <1>3, <5>1 DEF Left, Server
      <4>3. QED
        BY <4>1, <4>2
    <3>3. QED
      BY <2>2, <3>1, <3>2
  <2>7. QuitsLast(c)'
    BY <1>1, <2>2 DEF QuitsLast
  <2>8. QED
    BY <1>3, <2>1, <2>2, <2>4, <2>6, <2>7, ClientAhead
<1>9. QED
  BY <1>5, <1>6, <1>7, <1>8 DEF ClientStep, UserStep, Dispatch

LEMMA StepAhead == Inv /\ Ahead /\ [Next]_vars => Ahead'
<1> SUFFICES ASSUME Inv, Ahead, [Next]_vars PROVE Ahead'
  OBVIOUS
<1>1. ASSUME NEW c \in Clients, ClientStep(c) \/ UserStep(c) PROVE Ahead'
  BY <1>1, ClientStepAhead
<1>2. ASSUME NEW k \in Conns, ServerStep(k) PROVE Ahead'
  <2>1. CASE LogThrows(k) \/ SendThrows(k) \/ Exit(k)
    BY <1>2, <2>1, ConnsFacts, EndAhead DEF ServerStep, LogThrows, SendThrows, Exit
  <2>2. QED
    BY <1>2, <2>1, SessionAhead DEF ServerStep, Serve
<1>3. ASSUME NEW k \in Conns, NetworkStep(k) PROVE Ahead'
  BY <1>3, SessionAhead DEF NetworkStep
<1>4. CASE UNCHANGED vars
  BY <1>4 DEF vars, Ahead, Honest, Settled, Attended, Left, QuitsLast, Server
<1>5. QED
  BY <1>1, <1>2, <1>3, <1>4 DEF Next, Idle

LEMMA AheadAlways == Spec => []Ahead
BY Invariance, InitAhead, StepAhead, PTL DEF Spec

\* Whenever a client waits there is something it waits for: an answer, the end
\* of the stream, an error, or a server that runs and has its request.
LEMMA NeverInVainCorrect == Spec => []NeverInVain
<1>1. Inv /\ Ahead => NeverInVain
  BY CurrentFacts DEF Ahead, Settled, NeverInVain
<1>2. QED
  BY <1>1, Invariance, AheadAlways, PTL

\* A client that has exited without waiting for answers has not lost a quit by
\* it: each server is down, has it before it, or lost it in a reset.
LEMMA QuitOnItsWayCorrect == Spec => []QuitOnItsWay
<1>1. Inv /\ Ahead => QuitOnItsWay
  <2> SUFFICES ASSUME Inv, Ahead, NEW c \in Clients, NEW i \in 1..Len(Hosts),
                      at[c] = "exited", wide[c] \/ host[c] = i
               PROVE  LET k == <<c, typed[c], i>> IN
                        \/ ~up[Hosts[i]]
                        \/ k \in broken
                        \/ conn[k].request = "quit"
                        \/ serving[Hosts[i]] = k /\ session[k].line = "quit"
    BY DEF QuitOnItsWay
  <2> DEFINE k == <<c, typed[c], i>>
  <2>1. /\ typed[c] \in 1..MaxCommands /\ host[c] \in 1..Len(Hosts) /\ Len(Hosts) \in Nat
        /\ cmd[c] = "quit" /\ (wide[c] => host[c] = Len(Hosts))
    BY CurrentFacts, AsioSimAssumption DEF Ahead, QuitsLast
  <2>2. k \in Conns /\ Settled(k) /\ Honest(k)
    BY <2>1, ConnsFacts DEF Ahead
  <2>3. Left(k)
    BY <2>1, <2>2 DEF Settled
  <2>4. QED
    BY <2>2, <2>3 DEF Left, Honest, Server
<1>2. QED
  BY <1>1, Invariance, AheadAlways, PTL

\* For any clients, commands, servers, resets and failures: no client waits for
\* something that nobody is about to send it, and no quit is lost by leaving
\* without an answer.
THEOREM OnItsWayCorrect == Spec => []OnItsWay
BY NeverInVainCorrect, QuitOnItsWayCorrect, PTL DEF OnItsWay
=============================================================================
