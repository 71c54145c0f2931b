------------------------ MODULE NetParkingSimProofs ------------------------
(***************************************************************************)
(* Proofs about NetParkingSim, for any number of clients, servers, hosts   *)
(* and commands, and any capacity of the lots.                             *)
(***************************************************************************)
EXTENDS NetParkingSim, FiniteSetTheorems, TLAPS

\* A connection that no command has come to yet.
Unused(k) ==
  /\ conn[k].client = "unused" /\ conn[k].server = "unused"
  /\ conn[k].request = Nothing /\ conn[k].answer = Nothing
  /\ session[k].at = "none" /\ session[k].line = Nothing /\ session[k].reply = Nothing

\* A host that has answered without moving a car.
Passed(k) ==
  /\ session[k].reply # Nothing
  /\ ~(session[k].line \in {"in", "out"} /\ session[k].reply = "ok")

\* A session serves one request, and its answer is the only one its client gets.
OneRequest(k) ==
  /\ conn[k].request # Nothing =>
       /\ conn[k].server \in {"backlog", "open"}
       /\ session[k].at \in {"none", "reading"}
       /\ session[k].line = Nothing /\ session[k].reply = Nothing
  /\ conn[k].answer # Nothing => conn[k].answer = session[k].reply
  /\ conn[k].server \in {"unused", "backlog"} => session[k].at = "none"
  /\ conn[k].server = "open" => session[k].at # "none"
  /\ conn[k].server = "open" /\ session[k].at = "ended" => conn[k].client = "closed"
  /\ session[k].at = "none" => session[k].line = Nothing
  /\ session[k].at \in {"none", "handling"} => session[k].reply = Nothing
  /\ session[k].at = "handling" => session[k].line # Nothing
  /\ session[k].at \in {"replying", "exiting"} => session[k].reply # Nothing
  /\ session[k].reply # Nothing => session[k].line # Nothing
  /\ session[k].line \in {"in", "out"} => session[k].reply \in {Nothing, "ok", "fail"}

\* Where a client is with its commands: which connections it has not come to,
\* what the hosts before the present one have answered, and that the present
\* one has got nothing while the client is still to send.
Progress(k) ==
  LET c == k[1] IN
    /\ k[2] > typed[c] => Unused(k)
    /\ k[2] = typed[c] =>
         /\ conn[k].request \in {Nothing, cmd[c]} /\ session[k].line \in {Nothing, cmd[c]}
         /\ k[3] > host[c] => Unused(k)
         /\ k[3] < host[c] => IF wide[c] THEN Passed(k) ELSE Unused(k)
         /\ k[3] = host[c] /\ at[c] = "connecting" => Unused(k)
         /\ k[3] = host[c] /\ at[c] \in {"sending", "waiting"} => conn[k].client = "open"
         /\ k[3] = host[c] /\ at[c] = "sending" =>
              /\ conn[k].request = Nothing
              /\ session[k].line = Nothing /\ session[k].reply = Nothing
         /\ k[3] = host[c] /\ at[c] = "prompt" /\ wide[c] /\ cmd[c] \in {"in", "out"} =>
              session[k].reply = "ok" \/ (session[k].reply = "fail" /\ host[c] = Len(Hosts))

\* A client that is at work, or has typed a broadcast, has typed something.
Started(c) == at[c] \in {"connecting", "sending", "waiting"} \/ wide[c] => typed[c] # 0

\* Of two hosts of a command, the second is not asked before the first has
\* answered without moving a car, if the first is asked at all.
InTurn ==
  \A j, k \in Conns :
    j[1] = k[1] /\ j[2] = k[2] /\ j[3] < k[3] => Unused(k) \/ Unused(j) \/ Passed(j)

\* The inductive invariant.
Inv ==
  /\ TypeOK
  /\ \A k \in Conns : OneRequest(k) /\ Progress(k)
  /\ \A c \in Clients : Started(c)
  /\ InTurn
-----------------------------------------------------------------------------

\* A connection is known by the client, the number of the command and that of
\* the host.
LEMMA ConnsFacts ==
  /\ \A k \in Conns : /\ k[1] \in Clients /\ k[2] \in 1..MaxCommands /\ k[3] \in 1..Len(Hosts)
                      /\ k = <<k[1], k[2], k[3]>>
                      /\ Server(k) \in Servers
  /\ \A c \in Clients, n \in 1..MaxCommands, i \in 1..Len(Hosts) : <<c, n, i>> \in Conns
  /\ Len(Hosts) \in Nat \ {0} /\ MaxCommands \in Nat
<1>1. Hosts \in Seq(Servers) /\ Hosts # <<>> /\ MaxCommands \in Nat
  BY ConnectionsAssumption
<1>2. Len(Hosts) \in Nat \ {0} /\ \A i \in 1..Len(Hosts) : Hosts[i] \in Servers
  BY <1>1
<1>3. QED
  BY <1>1, <1>2 DEF Conns, Server

LEMMA InitInv == SimInit => Inv
<1> SUFFICES ASSUME SimInit PROVE Inv
  OBVIOUS
<1> USE DEF SimInit, Init, ServerInit, ClientInit
<1>1. TypeOK
  BY ConnsFacts, ServerAssumption, ConnectionsAssumption
     DEF TypeOK, Occupancies, Connection, SessionState, Lines, Answers, Over
<1>2. \A k \in Conns : Unused(k)
  BY DEF Unused
<1>3. \A k \in Conns : OneRequest(k) /\ Progress(k)
  BY <1>2, ConnsFacts, ConnectionsAssumption DEF OneRequest, Progress, Unused
<1>4. \A c \in Clients : Started(c)
  BY DEF Started
<1>5. QED
  BY <1>1, <1>2, <1>3, <1>4 DEF Inv, InTurn

\* What a server does to a connection leaves the others alone, and what it has
\* answered stays.
LEMMA ServerKeeps ==
  ASSUME Inv, NEW k \in Conns, TypeOK', UNCHANGED clientVars,
         \A j \in Conns : j # k => conn'[j] = conn[j] /\ session'[j] = session[j],
         ~Unused(k), Passed(k) => Passed(k)',
         OneRequest(k)', Progress(k)'
  PROVE  Inv'
<1>1. \A j \in Conns : j # k => (OneRequest(j) => OneRequest(j)')
  BY DEF OneRequest
<1>2. \A j \in Conns : j # k => (Unused(j) <=> Unused(j)') /\ (Passed(j) <=> Passed(j)')
  BY DEF Unused, Passed
<1>3. \A j \in Conns : j # k => Progress(j)'
  <2> SUFFICES ASSUME NEW j \in Conns, j # k PROVE Progress(j)'
    OBVIOUS
  <2>1. Progress(j)
    BY DEF Inv
  <2>2. QED
    BY <2>1, <1>2 DEF Progress, clientVars
<1>4. InTurn'
  BY <1>2 DEF Inv, InTurn
<1>5. \A c \in Clients : Started(c)'
  BY DEF Inv, Started, clientVars
<1>6. QED
  BY <1>1, <1>3, <1>4, <1>5 DEF Inv

LEMMA AcceptKeeps ==
  ASSUME Inv, NEW k \in Conns, Accept(k), UNCHANGED clientVars
  PROVE  Inv'
<1> USE DEF Accept
<1>1. conn \in [Conns -> Connection] /\ session \in [Conns -> SessionState] /\ TypeOK
  BY DEF Inv, TypeOK
<1>2. OneRequest(k) /\ Progress(k)
  BY DEF Inv
<1>3. conn' \in [Conns -> Connection] /\ session' \in [Conns -> SessionState]
  <2>1. conn' \in [Conns -> Connection]
    BY <1>1 DEF Connection, SessionState
  <2>2. session' \in [Conns -> SessionState]
    BY <1>1 DEF Connection, SessionState
  <2>3. QED
    BY <2>1, <2>2
<1>4. count' \in [Servers -> Occupancies] /\ up' \in [Servers -> BOOLEAN]
  BY <1>1 DEF TypeOK
<1>5. TypeOK'
  BY <1>1, <1>3, <1>4 DEF TypeOK, clientVars
<1>6. \A j \in Conns : j # k => conn'[j] = conn[j] /\ session'[j] = session[j]
  BY <1>1
<1>7. ~Unused(k)
  BY <1>1, <1>2, ConnsFacts, ConnectionsAssumption DEF Unused, OneRequest
<1>8. Passed(k) => Passed(k)'
  BY <1>1, <1>2, ConnectionsAssumption DEF Passed, OneRequest, Connection, SessionState
<1>9. OneRequest(k)'
  BY <1>1, <1>2, <1>3, ConnectionsAssumption DEF OneRequest, Connection, SessionState
<1>10. Progress(k)'
  BY <1>1, <1>2, <1>3, <1>7, <1>8, ConnectionsAssumption DEF Progress, OneRequest, Connection, SessionState, clientVars, Passed
<1>11. QED
  BY <1>5, <1>6, <1>7, <1>8, <1>9, <1>10, ServerKeeps

LEMMA ReadLineKeeps ==
  ASSUME Inv, NEW k \in Conns, ReadLine(k), UNCHANGED clientVars
  PROVE  Inv'
<1> USE DEF ReadLine
<1>1. conn \in [Conns -> Connection] /\ session \in [Conns -> SessionState] /\ TypeOK
  BY DEF Inv, TypeOK
<1>2. OneRequest(k) /\ Progress(k)
  BY DEF Inv
<1>3. conn' \in [Conns -> Connection] /\ session' \in [Conns -> SessionState]
  <2>1. conn' \in [Conns -> Connection]
    BY <1>1 DEF Connection, SessionState, Lines, Answers
  <2>2. session' \in [Conns -> SessionState]
    BY <1>1 DEF Connection, SessionState, Lines, Answers
  <2>3. QED
    BY <2>1, <2>2
<1>4. count' \in [Servers -> Occupancies] /\ up' \in [Servers -> BOOLEAN]
  BY <1>1 DEF TypeOK
<1>5. TypeOK'
  BY <1>1, <1>3, <1>4 DEF TypeOK, clientVars
<1>6. \A j \in Conns : j # k => conn'[j] = conn[j] /\ session'[j] = session[j]
  BY <1>1
<1>7. ~Unused(k)
  BY <1>1, <1>2, ConnsFacts, ConnectionsAssumption DEF Unused, OneRequest
<1>8. Passed(k) => Passed(k)'
  BY <1>1, <1>2, ConnectionsAssumption DEF Passed, OneRequest, Connection, SessionState
<1>9. OneRequest(k)'
  BY <1>1, <1>2, <1>3, ConnectionsAssumption DEF OneRequest, Connection, SessionState
<1>10. Progress(k)'
  BY <1>1, <1>2, <1>3, <1>7, <1>8, ConnectionsAssumption DEF Progress, OneRequest, Connection, SessionState, clientVars, Passed
<1>11. QED
  BY <1>5, <1>6, <1>7, <1>8, <1>9, <1>10, ServerKeeps

LEMMA EndOfStreamKeeps ==
  ASSUME Inv, NEW k \in Conns, EndOfStream(k), UNCHANGED clientVars
  PROVE  Inv'
<1> USE DEF EndOfStream
<1>1. conn \in [Conns -> Connection] /\ session \in [Conns -> SessionState] /\ TypeOK
  BY DEF Inv, TypeOK
<1>2. OneRequest(k) /\ Progress(k)
  BY DEF Inv
<1>3. conn' \in [Conns -> Connection] /\ session' \in [Conns -> SessionState]
  <2>1. conn' \in [Conns -> Connection]
    BY <1>1 DEF Connection, SessionState, Lines, Answers
  <2>2. session' \in [Conns -> SessionState]
    BY <1>1 DEF Connection, SessionState, Lines, Answers
  <2>3. QED
    BY <2>1, <2>2
<1>4. count' \in [Servers -> Occupancies] /\ up' \in [Servers -> BOOLEAN]
  BY <1>1 DEF TypeOK
<1>5. TypeOK'
  BY <1>1, <1>3, <1>4 DEF TypeOK, clientVars
<1>6. \A j \in Conns : j # k => conn'[j] = conn[j] /\ session'[j] = session[j]
  BY <1>1
<1>7. ~Unused(k)
  BY <1>1, <1>2, ConnsFacts, ConnectionsAssumption DEF Unused, OneRequest
<1>8. Passed(k) => Passed(k)'
  BY <1>1, <1>2, ConnectionsAssumption DEF Passed, OneRequest, Connection, SessionState
<1>9. OneRequest(k)'
  BY <1>1, <1>2, <1>3, ConnectionsAssumption DEF OneRequest, Connection, SessionState
<1>10. Progress(k)'
  BY <1>1, <1>2, <1>3, <1>7, <1>8, ConnectionsAssumption DEF Progress, OneRequest, Connection, SessionState, clientVars, Passed
<1>11. QED
  BY <1>5, <1>6, <1>7, <1>8, <1>9, <1>10, ServerKeeps

LEMMA HandleKeeps ==
  ASSUME Inv, NEW k \in Conns, Handle(k), UNCHANGED clientVars
  PROVE  Inv'
<1> USE DEF Handle, Compute
<1>1. conn \in [Conns -> Connection] /\ session \in [Conns -> SessionState] /\ TypeOK
  BY DEF Inv, TypeOK
<1>2. OneRequest(k) /\ Progress(k)
  BY DEF Inv
<1>3. conn' \in [Conns -> Connection] /\ session' \in [Conns -> SessionState]
  <2>1. conn' \in [Conns -> Connection]
    BY <1>1 DEF Connection, SessionState, Lines, Answers
  <2>2. session' \in [Conns -> SessionState]
    <3>1. PICK r \in Answers : session' = [session EXCEPT ![k].at = "replying", ![k].reply = r]
      BY DEF Answers
    <3>2. QED
      BY <1>1, <3>1 DEF SessionState
  <2>3. QED
    BY <2>1, <2>2
<1>4. count' \in [Servers -> Occupancies] /\ up' \in [Servers -> BOOLEAN]
  <2>1. count \in [Servers -> Occupancies] /\ Capacity \in Int /\ Server(k) \in Servers
    BY <1>1, ConnsFacts, ServerAssumption DEF TypeOK
  <2>2. PICK change \in {-1, 0, 1} : /\ count' = [count EXCEPT ![Server(k)] = @ + change]
                                    /\ count[Server(k)] + change \in Occupancies
    BY <2>1 DEF Occupancies
  <2>3. QED
    BY <1>1, <2>1, <2>2 DEF TypeOK
<1>5. TypeOK'
  BY <1>1, <1>3, <1>4 DEF TypeOK, clientVars
<1>6. \A j \in Conns : j # k => conn'[j] = conn[j] /\ session'[j] = session[j]
  BY <1>1
<1>7. ~Unused(k)
  BY <1>1, <1>2, ConnsFacts, ConnectionsAssumption DEF Unused, OneRequest
<1>8. Passed(k) => Passed(k)'
  BY <1>1, <1>2, ConnectionsAssumption DEF Passed, OneRequest, Connection, SessionState
<1>9. OneRequest(k)'
  BY <1>1, <1>2, <1>3, ConnectionsAssumption DEF OneRequest, Connection, SessionState
<1>10. Progress(k)'
  BY <1>1, <1>2, <1>3, <1>7, <1>8, ConnectionsAssumption DEF Progress, OneRequest, Connection, SessionState, clientVars, Passed
<1>11. QED
  BY <1>5, <1>6, <1>7, <1>8, <1>9, <1>10, ServerKeeps

LEMMA ReplyKeeps ==
  ASSUME Inv, NEW k \in Conns, Reply(k), UNCHANGED clientVars
  PROVE  Inv'
<1> USE DEF Reply, SendAnswer
<1>1. conn \in [Conns -> Connection] /\ session \in [Conns -> SessionState] /\ TypeOK
  BY DEF Inv, TypeOK
<1>2. OneRequest(k) /\ Progress(k)
  BY DEF Inv
<1>3. conn' \in [Conns -> Connection] /\ session' \in [Conns -> SessionState]
  <2>1. conn' \in [Conns -> Connection]
    BY <1>1 DEF Connection, SessionState, Lines, Answers
  <2>2. session' \in [Conns -> SessionState]
    BY <1>1 DEF Connection, SessionState, Lines, Answers
  <2>3. QED
    BY <2>1, <2>2
<1>4. count' \in [Servers -> Occupancies] /\ up' \in [Servers -> BOOLEAN]
  BY <1>1 DEF TypeOK
<1>5. TypeOK'
  BY <1>1, <1>3, <1>4 DEF TypeOK, clientVars
<1>6. \A j \in Conns : j # k => conn'[j] = conn[j] /\ session'[j] = session[j]
  BY <1>1
<1>7. ~Unused(k)
  BY <1>1, <1>2, ConnsFacts, ConnectionsAssumption DEF Unused, OneRequest
<1>8. Passed(k) => Passed(k)'
  BY <1>1, <1>2, ConnectionsAssumption DEF Passed, OneRequest, Connection, SessionState
<1>9. OneRequest(k)'
  BY <1>1, <1>2, <1>3, ConnectionsAssumption DEF OneRequest, Connection, SessionState
<1>10. Progress(k)'
  BY <1>1, <1>2, <1>3, <1>7, <1>8, ConnectionsAssumption DEF Progress, OneRequest, Connection, SessionState, clientVars, Passed
<1>11. QED
  BY <1>5, <1>6, <1>7, <1>8, <1>9, <1>10, ServerKeeps

\* The end of a server process reaches many connections at once.
\* What the end of a process does to a connection: those of the others stay as
\* they are, and its own have no end at the server any more.
Ending(s, j) ==
  /\ conn'[j].client = conn[j].client /\ conn'[j].answer = conn[j].answer
  /\ conn'[j].request \in {conn[j].request, Nothing}
  /\ conn[j].server \in {"unused", "closed", "reset"} => conn'[j] = conn[j]
  /\ conn[j].server \in {"backlog", "open"} /\ Server(j) = s =>
       conn'[j].server \in {"closed", "reset"} /\ conn'[j].request = Nothing
  /\ session'[j].line = session[j].line /\ session'[j].reply = session[j].reply
  /\ session'[j].at \in {session[j].at, "ended"}
  /\ Server(j) = s => session'[j].at \in {"none", "ended"}
  /\ session[j].at = "none" => session'[j].at = "none"
  /\ Server(j) # s => conn'[j] = conn[j] /\ session'[j] = session[j]

LEMMA EndProcessEffect ==
  ASSUME Inv, NEW s \in Servers, EndProcess(s)
  PROVE  /\ \A j \in Conns : Ending(s, j)
         /\ conn' \in [Conns -> Connection] /\ session' \in [Conns -> SessionState]
<1> DEFINE Closed(r) == [r EXCEPT !.server = IF r.server = "open" /\ r.request = Nothing
                                                THEN "closed" ELSE "reset",
                                 !.request = Nothing]
<1>1. conn \in [Conns -> Connection] /\ session \in [Conns -> SessionState]
  BY DEF Inv, TypeOK
<1>2. conn' = [k \in Conns |-> IF Server(k) = s /\ conn[k].server \in {"backlog", "open"}
                                 THEN Closed(conn[k]) ELSE conn[k]]
  BY DEF EndProcess, CloseServer
<1>3. session' = [k \in Conns |-> IF Server(k) = s /\ session[k].at # "none"
                                    THEN [session[k] EXCEPT !.at = "ended"] ELSE session[k]]
  BY DEF EndProcess
<1>4. \A r \in Connection :
        /\ Closed(r) \in Connection /\ Closed(r).client = r.client /\ Closed(r).answer = r.answer
        /\ Closed(r).request = Nothing /\ Closed(r).server \in {"closed", "reset"}
  BY DEF Connection, Lines
<1>5. \A r \in SessionState :
        LET ended == [r EXCEPT !.at = "ended"] IN
          ended \in SessionState /\ ended.line = r.line /\ ended.reply = r.reply /\ ended.at = "ended"
  BY DEF SessionState
<1> HIDE DEF Closed
<1>6. ASSUME NEW j \in Conns PROVE Ending(s, j)
  BY <1>1, <1>2, <1>3, <1>4, <1>5 DEF Ending
<1>7. conn' \in [Conns -> Connection] /\ session' \in [Conns -> SessionState]
  BY <1>1, <1>2, <1>3, <1>4, <1>5
<1>8. QED
  BY <1>6, <1>7

LEMMA EndProcessKeeps ==
  ASSUME Inv, NEW s \in Servers, EndProcess(s), UNCHANGED clientVars
  PROVE  Inv'
<1>1. conn \in [Conns -> Connection] /\ session \in [Conns -> SessionState] /\ TypeOK
  BY DEF Inv, TypeOK
<1>2. \A j \in Conns : OneRequest(j) /\ Progress(j)
  BY DEF Inv
<1>3. \A j \in Conns : Ending(s, j)
  BY EndProcessEffect
<1>4. conn' \in [Conns -> Connection] /\ session' \in [Conns -> SessionState]
  BY EndProcessEffect
<1>5. TypeOK'
  BY <1>1, <1>4 DEF TypeOK, EndProcess, clientVars
<1>6. \A j \in Conns : (Unused(j) => Unused(j)') /\ (Passed(j) => Passed(j)')
  BY <1>3 DEF Ending, Unused, Passed
<1>7. \A j \in Conns : OneRequest(j)'
  <2> SUFFICES ASSUME NEW j \in Conns PROVE OneRequest(j)'
    OBVIOUS
  <2>1. OneRequest(j) /\ conn[j].server \in {"unused", "backlog", "open", "closed", "reset"}
    BY <1>1, <1>2 DEF Connection
  <2>2. CASE Server(j) = s
    BY <1>3, <2>1, <2>2 DEF Ending, OneRequest
  <2>3. CASE Server(j) # s
    BY <1>3, <2>1, <2>3 DEF Ending, OneRequest
  <2>4. QED
    BY <2>2, <2>3
<1>8. \A j \in Conns : Progress(j)'
  <2> SUFFICES ASSUME NEW j \in Conns PROVE Progress(j)'
    OBVIOUS
  <2>1. Progress(j)
    BY <1>2
  <2>2. QED
    BY <1>3, <1>6, <2>1 DEF Ending, Progress, clientVars
<1>9. InTurn'
  BY <1>6 DEF Inv, InTurn
<1>10. \A c \in Clients : Started(c)'
  BY DEF Inv, Started, clientVars
<1>11. QED
  BY <1>5, <1>7, <1>8, <1>9, <1>10 DEF Inv

\* What a client does concerns its own connections only.
LEMMA ClientKeeps ==
  ASSUME Inv, NEW c \in Clients, TypeOK', UNCHANGED serverVars,
         \A k \in Conns : k # Current(c) => conn'[k] = conn[k],
         \A d \in Clients : d # c => /\ at'[d] = at[d] /\ typed'[d] = typed[d] /\ cmd'[d] = cmd[d]
                                     /\ wide'[d] = wide[d] /\ host'[d] = host[d],
         \A k \in Conns : k = Current(c) => OneRequest(k)',
         \A k \in Conns : k[1] = c => Progress(k)',
         Started(c)',
         InTurn'
  PROVE  Inv'
<1>1. \A k \in Conns : OneRequest(k)'
  <2> SUFFICES ASSUME NEW k \in Conns, k # Current(c) PROVE OneRequest(k)'
    OBVIOUS
  <2>1. conn'[k] = conn[k] /\ session' = session /\ OneRequest(k)
    BY DEF Inv, serverVars
  <2>2. QED
    BY <2>1 DEF OneRequest
<1>2. \A k \in Conns : Progress(k)'
  <2> SUFFICES ASSUME NEW k \in Conns, k[1] # c PROVE Progress(k)'
    OBVIOUS
  <2>1. k[1] \in Clients /\ k # Current(c)
    BY ConnsFacts DEF Current
  <2>2. conn'[k] = conn[k] /\ session' = session /\ Progress(k)
    BY <2>1 DEF Inv, serverVars
  <2>3. QED
    BY <2>1, <2>2 DEF Progress, Unused, Passed
<1>3. \A d \in Clients : Started(d)'
  BY DEF Inv, Started
<1>4. QED
  BY <1>1, <1>2, <1>3 DEF Inv

\* The connection under way exists; a step that uses up no other leaves the
\* hosts in turn.
LEMMA CurrentFacts ==
  ASSUME Inv, NEW c \in Clients
  PROVE  /\ at[c] \in {"connecting", "sending", "waiting"} => Current(c) \in Conns
         /\ Current(c)[1] = c /\ Current(c)[2] = typed[c] /\ Current(c)[3] = host[c]
         /\ \A k \in Conns : k[1] = c /\ k[2] = typed[c] /\ k[3] = host[c] => k = Current(c)
         /\ \A k \in Conns : k[1] = c => k[2] \in Nat /\ k[3] \in 1..Len(Hosts)
         /\ typed[c] \in 0..MaxCommands /\ host[c] \in 1..Len(Hosts) /\ Len(Hosts) \in Nat /\ MaxCommands \in Nat
<1>1. typed[c] \in 0..MaxCommands /\ host[c] \in 1..Len(Hosts) /\ Started(c)
  BY DEF Inv, TypeOK
<1>2. QED
  BY <1>1, ConnsFacts DEF Current, Started

LEMMA InTurnKept ==
  ASSUME Inv, UNCHANGED serverVars, NEW c \in Clients,
         \A k \in Conns : k # Current(c) => conn'[k] = conn[k],
         \A k \in Conns : k = Current(c) /\ Unused(k) => Unused(k)'
  PROVE  InTurn'
<1>1. session' = session /\ InTurn
  BY DEF serverVars, Inv
<1>2. \A k \in Conns : k # Current(c) /\ Unused(k) => Unused(k)'
  BY <1>1 DEF Unused
<1>3. \A k \in Conns : Passed(k) => Passed(k)'
  BY <1>1 DEF Passed
<1>4. QED
  BY <1>1, <1>2, <1>3 DEF InTurn

LEMMA TypeKeeps ==
  ASSUME Inv, NEW c \in Clients, NEW word \in Commands,
         NEW i \in 1..Len(Hosts), NEW broadcast \in BOOLEAN, Type(c, word, i, broadcast), UNCHANGED serverVars
  PROVE  Inv'
<1> USE DEF Type, Goto
<1>1. /\ TypeOK /\ conn \in [Conns -> Connection] /\ session \in [Conns -> SessionState]
      /\ \A k \in Conns : OneRequest(k) /\ Progress(k)
      /\ Started(c)
  BY DEF Inv, TypeOK
<1>2. /\ at[c] \in {"connecting", "sending", "waiting"} => Current(c) \in Conns
      /\ Current(c)[1] = c /\ Current(c)[2] = typed[c] /\ Current(c)[3] = host[c]
      /\ \A k \in Conns : k[1] = c /\ k[2] = typed[c] /\ k[3] = host[c] => k = Current(c)
      /\ \A k \in Conns : k[1] = c => k[2] \in Nat /\ k[3] \in 1..Len(Hosts)
      /\ typed[c] \in 0..MaxCommands /\ host[c] \in 1..Len(Hosts) /\ Len(Hosts) \in Nat /\ MaxCommands \in Nat
  BY CurrentFacts
<1>3. /\ at \in [Clients -> {"prompt", "connecting", "sending", "waiting"} \cup Over]
      /\ typed \in [Clients -> 0..MaxCommands] /\ cmd \in [Clients -> Lines]
      /\ wide \in [Clients -> BOOLEAN] /\ host \in [Clients -> 1..Len(Hosts)]
  BY <1>1 DEF TypeOK
<1>4. \A k \in Conns : k # Current(c) => conn'[k] = conn[k]
  BY <1>1
<1>5. \A d \in Clients : d # c => /\ at'[d] = at[d] /\ typed'[d] = typed[d] /\ cmd'[d] = cmd[d]
                                  /\ wide'[d] = wide[d] /\ host'[d] = host[d]
  BY <1>3
<1>6. TypeOK'
  <2>1. conn' \in [Conns -> Connection]
    BY <1>1, <1>2 DEF Connection, Answers
  <2>2. /\ at' \in [Clients -> {"prompt", "connecting", "sending", "waiting"} \cup Over]
        /\ typed' \in [Clients -> 0..MaxCommands] /\ cmd' \in [Clients -> Lines]
        /\ wide' \in [Clients -> BOOLEAN] /\ host' \in [Clients -> 1..Len(Hosts)]
    BY <1>2, <1>3 DEF Over, Lines
  <2>3. QED
    BY <1>1, <2>1, <2>2 DEF TypeOK, serverVars
<1>7. \A k \in Conns : k = Current(c) => OneRequest(k)'
  BY <1>1, ConnectionsAssumption DEF OneRequest, Connection, serverVars, Progress
<1>8. \A k \in Conns : k[1] = c => Progress(k)'
  BY <1>1, <1>2, <1>3, ConnectionsAssumption DEF Progress, Unused, Passed, OneRequest, Connection, serverVars, Over
<1>9. Started(c)'
  BY <1>1, <1>2, <1>3 DEF Started, Over
<1>10. InTurn'
  <2>1. \A k \in Conns : k = Current(c) /\ Unused(k) => Unused(k)'
    BY <1>1, <1>4 DEF Unused, Connection, serverVars
  <2>2. QED
    BY <1>4, <2>1, InTurnKept
<1>11. QED
  BY <1>4, <1>5, <1>6, <1>7, <1>8, <1>9, <1>10, ClientKeeps

LEMMA ConnectKeeps ==
  ASSUME Inv, NEW c \in Clients, Connect(c), UNCHANGED serverVars
  PROVE  Inv'
<1> USE DEF Connect, Open, Goto
<1>1. /\ TypeOK /\ conn \in [Conns -> Connection] /\ session \in [Conns -> SessionState]
      /\ \A k \in Conns : OneRequest(k) /\ Progress(k)
      /\ Started(c)
  BY DEF Inv, TypeOK
<1>2. /\ at[c] \in {"connecting", "sending", "waiting"} => Current(c) \in Conns
      /\ Current(c)[1] = c /\ Current(c)[2] = typed[c] /\ Current(c)[3] = host[c]
      /\ \A k \in Conns : k[1] = c /\ k[2] = typed[c] /\ k[3] = host[c] => k = Current(c)
      /\ \A k \in Conns : k[1] = c => k[2] \in Nat /\ k[3] \in 1..Len(Hosts)
      /\ typed[c] \in 0..MaxCommands /\ host[c] \in 1..Len(Hosts) /\ Len(Hosts) \in Nat /\ MaxCommands \in Nat
  BY CurrentFacts
<1>3. /\ at \in [Clients -> {"prompt", "connecting", "sending", "waiting"} \cup Over]
      /\ typed \in [Clients -> 0..MaxCommands] /\ cmd \in [Clients -> Lines]
      /\ wide \in [Clients -> BOOLEAN] /\ host \in [Clients -> 1..Len(Hosts)]
  BY <1>1 DEF TypeOK
<1>4. \A k \in Conns : k # Current(c) => conn'[k] = conn[k]
  BY <1>1
<1>5. \A d \in Clients : d # c => /\ at'[d] = at[d] /\ typed'[d] = typed[d] /\ cmd'[d] = cmd[d]
                                  /\ wide'[d] = wide[d] /\ host'[d] = host[d]
  BY <1>3
<1>6. TypeOK'
  <2>1. conn' \in [Conns -> Connection]
    BY <1>1, <1>2 DEF Connection, Answers
  <2>2. /\ at' \in [Clients -> {"prompt", "connecting", "sending", "waiting"} \cup Over]
        /\ typed' \in [Clients -> 0..MaxCommands] /\ cmd' \in [Clients -> Lines]
        /\ wide' \in [Clients -> BOOLEAN] /\ host' \in [Clients -> 1..Len(Hosts)]
    BY <1>2, <1>3 DEF Over, Lines
  <2>3. QED
    BY <1>1, <2>1, <2>2 DEF TypeOK, serverVars
<1>7. \A k \in Conns : k = Current(c) => OneRequest(k)'
  BY <1>1, ConnectionsAssumption DEF OneRequest, Connection, serverVars, Progress
<1>8. \A k \in Conns : k[1] = c => Progress(k)'
  BY <1>1, <1>2, <1>3, ConnectionsAssumption DEF Progress, Unused, Passed, OneRequest, Connection, serverVars, Over
<1>9. Started(c)'
  BY <1>1, <1>2, <1>3 DEF Started, Over
<1>10. InTurn'
  <2>1. \A k \in Conns : k = Current(c) /\ Unused(k) => Unused(k)'
    BY <1>1, <1>4 DEF Unused, Connection, serverVars
  <2>2. QED
    BY <1>4, <2>1, InTurnKept
<1>11. QED
  BY <1>4, <1>5, <1>6, <1>7, <1>8, <1>9, <1>10, ClientKeeps

LEMMA RefusedKeeps ==
  ASSUME Inv, NEW c \in Clients, Refused(c), UNCHANGED serverVars
  PROVE  Inv'
<1> USE DEF Refused, Goto
<1>1. /\ TypeOK /\ conn \in [Conns -> Connection] /\ session \in [Conns -> SessionState]
      /\ \A k \in Conns : OneRequest(k) /\ Progress(k)
      /\ Started(c)
  BY DEF Inv, TypeOK
<1>2. /\ at[c] \in {"connecting", "sending", "waiting"} => Current(c) \in Conns
      /\ Current(c)[1] = c /\ Current(c)[2] = typed[c] /\ Current(c)[3] = host[c]
      /\ \A k \in Conns : k[1] = c /\ k[2] = typed[c] /\ k[3] = host[c] => k = Current(c)
      /\ \A k \in Conns : k[1] = c => k[2] \in Nat /\ k[3] \in 1..Len(Hosts)
      /\ typed[c] \in 0..MaxCommands /\ host[c] \in 1..Len(Hosts) /\ Len(Hosts) \in Nat /\ MaxCommands \in Nat
  BY CurrentFacts
<1>3. /\ at \in [Clients -> {"prompt", "connecting", "sending", "waiting"} \cup Over]
      /\ typed \in [Clients -> 0..MaxCommands] /\ cmd \in [Clients -> Lines]
      /\ wide \in [Clients -> BOOLEAN] /\ host \in [Clients -> 1..Len(Hosts)]
  BY <1>1 DEF TypeOK
<1>4. \A k \in Conns : k # Current(c) => conn'[k] = conn[k]
  BY <1>1
<1>5. \A d \in Clients : d # c => /\ at'[d] = at[d] /\ typed'[d] = typed[d] /\ cmd'[d] = cmd[d]
                                  /\ wide'[d] = wide[d] /\ host'[d] = host[d]
  BY <1>3
<1>6. TypeOK'
  <2>1. conn' \in [Conns -> Connection]
    BY <1>1, <1>2 DEF Connection, Answers
  <2>2. /\ at' \in [Clients -> {"prompt", "connecting", "sending", "waiting"} \cup Over]
        /\ typed' \in [Clients -> 0..MaxCommands] /\ cmd' \in [Clients -> Lines]
        /\ wide' \in [Clients -> BOOLEAN] /\ host' \in [Clients -> 1..Len(Hosts)]
    BY <1>2, <1>3 DEF Over, Lines
  <2>3. QED
    BY <1>1, <2>1, <2>2 DEF TypeOK, serverVars
<1>7. \A k \in Conns : k = Current(c) => OneRequest(k)'
  BY <1>1, ConnectionsAssumption DEF OneRequest, Connection, serverVars, Progress
<1>8. \A k \in Conns : k[1] = c => Progress(k)'
  BY <1>1, <1>2, <1>3, ConnectionsAssumption DEF Progress, Unused, Passed, OneRequest, Connection, serverVars, Over
<1>9. Started(c)'
  BY <1>1, <1>2, <1>3 DEF Started, Over
<1>10. InTurn'
  <2>1. \A k \in Conns : k = Current(c) /\ Unused(k) => Unused(k)'
    BY <1>1, <1>4 DEF Unused, Connection, serverVars
  <2>2. QED
    BY <1>4, <2>1, InTurnKept
<1>11. QED
  BY <1>4, <1>5, <1>6, <1>7, <1>8, <1>9, <1>10, ClientKeeps

LEMMA TypeBadHostKeeps ==
  ASSUME Inv, NEW c \in Clients, TypeBadHost(c), UNCHANGED serverVars
  PROVE  Inv'
<1> USE DEF TypeBadHost, Goto
<1>1. /\ TypeOK /\ conn \in [Conns -> Connection] /\ session \in [Conns -> SessionState]
      /\ \A k \in Conns : OneRequest(k) /\ Progress(k)
      /\ Started(c)
  BY DEF Inv, TypeOK
<1>2. /\ at[c] \in {"connecting", "sending", "waiting"} => Current(c) \in Conns
      /\ Current(c)[1] = c /\ Current(c)[2] = typed[c] /\ Current(c)[3] = host[c]
      /\ \A k \in Conns : k[1] = c /\ k[2] = typed[c] /\ k[3] = host[c] => k = Current(c)
      /\ \A k \in Conns : k[1] = c => k[2] \in Nat /\ k[3] \in 1..Len(Hosts)
      /\ typed[c] \in 0..MaxCommands /\ host[c] \in 1..Len(Hosts) /\ Len(Hosts) \in Nat /\ MaxCommands \in Nat
  BY CurrentFacts
<1>3. /\ at \in [Clients -> {"prompt", "connecting", "sending", "waiting"} \cup Over]
      /\ typed \in [Clients -> 0..MaxCommands] /\ cmd \in [Clients -> Lines]
      /\ wide \in [Clients -> BOOLEAN] /\ host \in [Clients -> 1..Len(Hosts)]
  BY <1>1 DEF TypeOK
<1>4. \A k \in Conns : k # Current(c) => conn'[k] = conn[k]
  BY <1>1
<1>5. \A d \in Clients : d # c => /\ at'[d] = at[d] /\ typed'[d] = typed[d] /\ cmd'[d] = cmd[d]
                                  /\ wide'[d] = wide[d] /\ host'[d] = host[d]
  BY <1>3
<1>6. TypeOK'
  <2>1. conn' \in [Conns -> Connection]
    BY <1>1, <1>2 DEF Connection, Answers
  <2>2. /\ at' \in [Clients -> {"prompt", "connecting", "sending", "waiting"} \cup Over]
        /\ typed' \in [Clients -> 0..MaxCommands] /\ cmd' \in [Clients -> Lines]
        /\ wide' \in [Clients -> BOOLEAN] /\ host' \in [Clients -> 1..Len(Hosts)]
    BY <1>2, <1>3 DEF Over, Lines
  <2>3. QED
    BY <1>1, <2>1, <2>2 DEF TypeOK, serverVars
<1>7. \A k \in Conns : k = Current(c) => OneRequest(k)'
  BY <1>1, ConnectionsAssumption DEF OneRequest, Connection, serverVars, Progress
<1>8. \A k \in Conns : k[1] = c => Progress(k)'
  BY <1>1, <1>2, <1>3, ConnectionsAssumption DEF Progress, Unused, Passed, OneRequest, Connection, serverVars, Over
<1>9. Started(c)'
  BY <1>1, <1>2, <1>3 DEF Started, Over
<1>10. InTurn'
  <2>1. \A k \in Conns : k = Current(c) /\ Unused(k) => Unused(k)'
    BY <1>1, <1>4 DEF Unused, Connection, serverVars
  <2>2. QED
    BY <1>4, <2>1, InTurnKept
<1>11. QED
  BY <1>4, <1>5, <1>6, <1>7, <1>8, <1>9, <1>10, ClientKeeps

LEMMA EndOfInputKeeps ==
  ASSUME Inv, NEW c \in Clients, EndOfInput(c), UNCHANGED serverVars
  PROVE  Inv'
<1> USE DEF EndOfInput, Goto
<1>1. /\ TypeOK /\ conn \in [Conns -> Connection] /\ session \in [Conns -> SessionState]
      /\ \A k \in Conns : OneRequest(k) /\ Progress(k)
      /\ Started(c)
  BY DEF Inv, TypeOK
<1>2. /\ at[c] \in {"connecting", "sending", "waiting"} => Current(c) \in Conns
      /\ Current(c)[1] = c /\ Current(c)[2] = typed[c] /\ Current(c)[3] = host[c]
      /\ \A k \in Conns : k[1] = c /\ k[2] = typed[c] /\ k[3] = host[c] => k = Current(c)
      /\ \A k \in Conns : k[1] = c => k[2] \in Nat /\ k[3] \in 1..Len(Hosts)
      /\ typed[c] \in 0..MaxCommands /\ host[c] \in 1..Len(Hosts) /\ Len(Hosts) \in Nat /\ MaxCommands \in Nat
  BY CurrentFacts
<1>3. /\ at \in [Clients -> {"prompt", "connecting", "sending", "waiting"} \cup Over]
      /\ typed \in [Clients -> 0..MaxCommands] /\ cmd \in [Clients -> Lines]
      /\ wide \in [Clients -> BOOLEAN] /\ host \in [Clients -> 1..Len(Hosts)]
  BY <1>1 DEF TypeOK
<1>4. \A k \in Conns : k # Current(c) => conn'[k] = conn[k]
  BY <1>1
<1>5. \A d \in Clients : d # c => /\ at'[d] = at[d] /\ typed'[d] = typed[d] /\ cmd'[d] = cmd[d]
                                  /\ wide'[d] = wide[d] /\ host'[d] = host[d]
  BY <1>3
<1>6. TypeOK'
  <2>1. conn' \in [Conns -> Connection]
    BY <1>1, <1>2 DEF Connection, Answers
  <2>2. /\ at' \in [Clients -> {"prompt", "connecting", "sending", "waiting"} \cup Over]
        /\ typed' \in [Clients -> 0..MaxCommands] /\ cmd' \in [Clients -> Lines]
        /\ wide' \in [Clients -> BOOLEAN] /\ host' \in [Clients -> 1..Len(Hosts)]
    BY <1>2, <1>3 DEF Over, Lines
  <2>3. QED
    BY <1>1, <2>1, <2>2 DEF TypeOK, serverVars
<1>7. \A k \in Conns : k = Current(c) => OneRequest(k)'
  BY <1>1, ConnectionsAssumption DEF OneRequest, Connection, serverVars, Progress
<1>8. \A k \in Conns : k[1] = c => Progress(k)'
  BY <1>1, <1>2, <1>3, ConnectionsAssumption DEF Progress, Unused, Passed, OneRequest, Connection, serverVars, Over
<1>9. Started(c)'
  BY <1>1, <1>2, <1>3 DEF Started, Over
<1>10. InTurn'
  <2>1. \A k \in Conns : k = Current(c) /\ Unused(k) => Unused(k)'
    BY <1>1, <1>4 DEF Unused, Connection, serverVars
  <2>2. QED
    BY <1>4, <2>1, InTurnKept
<1>11. QED
  BY <1>4, <1>5, <1>6, <1>7, <1>8, <1>9, <1>10, ClientKeeps

LEMMA SendKeeps ==
  ASSUME Inv, NEW c \in Clients, Send(c), UNCHANGED serverVars
  PROVE  Inv'
<1> USE DEF Send, SendRequest, Goto
<1>1. /\ TypeOK /\ conn \in [Conns -> Connection] /\ session \in [Conns -> SessionState]
      /\ \A k \in Conns : OneRequest(k) /\ Progress(k)
      /\ Started(c)
  BY DEF Inv, TypeOK
<1>2. /\ at[c] \in {"connecting", "sending", "waiting"} => Current(c) \in Conns
      /\ Current(c)[1] = c /\ Current(c)[2] = typed[c] /\ Current(c)[3] = host[c]
      /\ \A k \in Conns : k[1] = c /\ k[2] = typed[c] /\ k[3] = host[c] => k = Current(c)
      /\ \A k \in Conns : k[1] = c => k[2] \in Nat /\ k[3] \in 1..Len(Hosts)
      /\ typed[c] \in 0..MaxCommands /\ host[c] \in 1..Len(Hosts) /\ Len(Hosts) \in Nat /\ MaxCommands \in Nat
  BY CurrentFacts
<1>3. /\ at \in [Clients -> {"prompt", "connecting", "sending", "waiting"} \cup Over]
      /\ typed \in [Clients -> 0..MaxCommands] /\ cmd \in [Clients -> Lines]
      /\ wide \in [Clients -> BOOLEAN] /\ host \in [Clients -> 1..Len(Hosts)]
  BY <1>1 DEF TypeOK
<1>4. \A k \in Conns : k # Current(c) => conn'[k] = conn[k]
  BY <1>1
<1>5. \A d \in Clients : d # c => /\ at'[d] = at[d] /\ typed'[d] = typed[d] /\ cmd'[d] = cmd[d]
                                  /\ wide'[d] = wide[d] /\ host'[d] = host[d]
  BY <1>3
<1>6. TypeOK'
  <2>1. conn' \in [Conns -> Connection]
    <3>1. CASE /\ conn[Current(c)].server \in {"backlog", "open"}
               /\ conn' = [conn EXCEPT ![Current(c)].request = cmd[c]]
      BY <3>1, <1>1, <1>2, <1>3 DEF Connection
    <3>2. CASE /\ conn[Current(c)].server \in {"closed", "reset"}
               /\ conn' = [conn EXCEPT ![Current(c)].server = "reset"]
      BY <3>2, <1>1, <1>2, <1>3 DEF Connection
    <3>3. CASE conn' = conn /\ conn[Current(c)].server \in {"closed", "reset"}
      BY <3>3, <1>1, <1>2, <1>3 DEF Connection
    <3>4. QED
      BY <1>1, <1>2, <3>1, <3>2, <3>3 DEF Connection
  <2>2. /\ at' \in [Clients -> {"prompt", "connecting", "sending", "waiting"} \cup Over]
        /\ typed' \in [Clients -> 0..MaxCommands] /\ cmd' \in [Clients -> Lines]
        /\ wide' \in [Clients -> BOOLEAN] /\ host' \in [Clients -> 1..Len(Hosts)]
    BY <1>2, <1>3 DEF Over, Lines
  <2>3. QED
    BY <1>1, <2>1, <2>2 DEF TypeOK, serverVars
<1>7. \A k \in Conns : k = Current(c) => OneRequest(k)'
  <2>1. CASE /\ conn[Current(c)].server \in {"backlog", "open"}
             /\ conn' = [conn EXCEPT ![Current(c)].request = cmd[c]]
    BY <1>1, <1>2, <2>1, <1>3, ConnectionsAssumption DEF OneRequest, Connection, SessionState, serverVars, Progress
  <2>2. CASE /\ conn[Current(c)].server \in {"closed", "reset"}
             /\ conn' = [conn EXCEPT ![Current(c)].server = "reset"]
    BY <2>2, <1>1, <1>2, <1>3, ConnectionsAssumption DEF OneRequest, Connection, SessionState, serverVars, Progress
  <2>3. CASE conn' = conn /\ conn[Current(c)].server \in {"closed", "reset"}
    BY <2>3, <1>1, <1>2, <1>3, ConnectionsAssumption DEF OneRequest, Connection, SessionState, serverVars, Progress
  <2>4. QED
    BY <1>1, <1>2, <2>1, <2>2, <2>3 DEF Connection
<1>8. \A k \in Conns : k[1] = c => Progress(k)'
  <2>1. CASE /\ conn[Current(c)].server \in {"backlog", "open"}
             /\ conn' = [conn EXCEPT ![Current(c)].request = cmd[c]]
    BY <1>1, <1>2, <2>1, <1>3, ConnectionsAssumption DEF Progress, Unused, Passed, OneRequest, Connection, serverVars, Over
  <2>2. CASE /\ conn[Current(c)].server \in {"closed", "reset"}
             /\ conn' = [conn EXCEPT ![Current(c)].server = "reset"]
    BY <2>2, <1>1, <1>2, <1>3, ConnectionsAssumption DEF Progress, Unused, Passed, OneRequest, Connection, serverVars, Over
  <2>3. CASE conn' = conn /\ conn[Current(c)].server \in {"closed", "reset"}
    BY <2>3, <1>1, <1>2, <1>3, ConnectionsAssumption DEF Progress, Unused, Passed, OneRequest, Connection, serverVars, Over
  <2>4. QED
    BY <1>1, <1>2, <2>1, <2>2, <2>3 DEF Connection
<1>9. Started(c)'
  BY <1>1, <1>2, <1>3 DEF Started, Over
<1>10. InTurn'
  <2>1. \A k \in Conns : k = Current(c) /\ Unused(k) => Unused(k)'
    BY <1>1, <1>4 DEF Unused, Connection, serverVars
  <2>2. QED
    BY <1>4, <2>1, InTurnKept
<1>11. QED
  BY <1>4, <1>5, <1>6, <1>7, <1>8, <1>9, <1>10, ClientKeeps

LEMMA ReceiveResetKeeps ==
  ASSUME Inv, NEW c \in Clients, ReceiveReset(c), UNCHANGED serverVars
  PROVE  Inv'
<1> USE DEF ReceiveReset, CloseClient, Goto
<1>1. /\ TypeOK /\ conn \in [Conns -> Connection] /\ session \in [Conns -> SessionState]
      /\ \A k \in Conns : OneRequest(k) /\ Progress(k)
      /\ Started(c)
  BY DEF Inv, TypeOK
<1>2. /\ at[c] \in {"connecting", "sending", "waiting"} => Current(c) \in Conns
      /\ Current(c)[1] = c /\ Current(c)[2] = typed[c] /\ Current(c)[3] = host[c]
      /\ \A k \in Conns : k[1] = c /\ k[2] = typed[c] /\ k[3] = host[c] => k = Current(c)
      /\ \A k \in Conns : k[1] = c => k[2] \in Nat /\ k[3] \in 1..Len(Hosts)
      /\ typed[c] \in 0..MaxCommands /\ host[c] \in 1..Len(Hosts) /\ Len(Hosts) \in Nat /\ MaxCommands \in Nat
  BY CurrentFacts
<1>3. /\ at \in [Clients -> {"prompt", "connecting", "sending", "waiting"} \cup Over]
      /\ typed \in [Clients -> 0..MaxCommands] /\ cmd \in [Clients -> Lines]
      /\ wide \in [Clients -> BOOLEAN] /\ host \in [Clients -> 1..Len(Hosts)]
  BY <1>1 DEF TypeOK
<1>4. \A k \in Conns : k # Current(c) => conn'[k] = conn[k]
  BY <1>1
<1>5. \A d \in Clients : d # c => /\ at'[d] = at[d] /\ typed'[d] = typed[d] /\ cmd'[d] = cmd[d]
                                  /\ wide'[d] = wide[d] /\ host'[d] = host[d]
  BY <1>3
<1>6. TypeOK'
  <2>1. conn' \in [Conns -> Connection]
    <3>1. Current(c) \in Conns
      BY <1>2
    <3>2. Nothing \in Answers
      BY DEF Answers
    <3>3. QED
      BY <1>1, <3>1, <3>2 DEF Connection
  <2>2. /\ at' \in [Clients -> {"prompt", "connecting", "sending", "waiting"} \cup Over]
        /\ typed' \in [Clients -> 0..MaxCommands] /\ cmd' \in [Clients -> Lines]
        /\ wide' \in [Clients -> BOOLEAN] /\ host' \in [Clients -> 1..Len(Hosts)]
    BY <1>2, <1>3 DEF Over, Lines
  <2>3. QED
    BY <1>1, <2>1, <2>2 DEF TypeOK, serverVars
<1>7. \A k \in Conns : k = Current(c) => OneRequest(k)'
  BY <1>1, ConnectionsAssumption DEF OneRequest, Connection, serverVars, Progress
<1>8. \A k \in Conns : k[1] = c => Progress(k)'
  BY <1>1, <1>2, <1>3, ConnectionsAssumption DEF Progress, Unused, Passed, OneRequest, Connection, serverVars, Over
<1>9. Started(c)'
  BY <1>1, <1>2, <1>3 DEF Started, Over
<1>10. InTurn'
  <2>1. \A k \in Conns : k = Current(c) /\ Unused(k) => Unused(k)'
    BY <1>1, <1>4 DEF Unused, Connection, serverVars
  <2>2. QED
    BY <1>4, <2>1, InTurnKept
<1>11. QED
  BY <1>4, <1>5, <1>6, <1>7, <1>8, <1>9, <1>10, ClientKeeps

LEMMA KillKeeps ==
  ASSUME Inv, NEW c \in Clients, Kill(c), UNCHANGED serverVars
  PROVE  Inv'
<1> USE DEF Kill, CloseClient, Goto
<1>1. /\ TypeOK /\ conn \in [Conns -> Connection] /\ session \in [Conns -> SessionState]
      /\ \A k \in Conns : OneRequest(k) /\ Progress(k)
      /\ Started(c)
  BY DEF Inv, TypeOK
<1>2. /\ at[c] \in {"connecting", "sending", "waiting"} => Current(c) \in Conns
      /\ Current(c)[1] = c /\ Current(c)[2] = typed[c] /\ Current(c)[3] = host[c]
      /\ \A k \in Conns : k[1] = c /\ k[2] = typed[c] /\ k[3] = host[c] => k = Current(c)
      /\ \A k \in Conns : k[1] = c => k[2] \in Nat /\ k[3] \in 1..Len(Hosts)
      /\ typed[c] \in 0..MaxCommands /\ host[c] \in 1..Len(Hosts) /\ Len(Hosts) \in Nat /\ MaxCommands \in Nat
  BY CurrentFacts
<1>3. /\ at \in [Clients -> {"prompt", "connecting", "sending", "waiting"} \cup Over]
      /\ typed \in [Clients -> 0..MaxCommands] /\ cmd \in [Clients -> Lines]
      /\ wide \in [Clients -> BOOLEAN] /\ host \in [Clients -> 1..Len(Hosts)]
  BY <1>1 DEF TypeOK
<1>4. \A k \in Conns : k # Current(c) => conn'[k] = conn[k]
  BY <1>1
<1>5. \A d \in Clients : d # c => /\ at'[d] = at[d] /\ typed'[d] = typed[d] /\ cmd'[d] = cmd[d]
                                  /\ wide'[d] = wide[d] /\ host'[d] = host[d]
  BY <1>3
<1>6. TypeOK'
  <2>1. conn' \in [Conns -> Connection]
    BY <1>1, <1>2 DEF Connection, Answers
  <2>2. /\ at' \in [Clients -> {"prompt", "connecting", "sending", "waiting"} \cup Over]
        /\ typed' \in [Clients -> 0..MaxCommands] /\ cmd' \in [Clients -> Lines]
        /\ wide' \in [Clients -> BOOLEAN] /\ host' \in [Clients -> 1..Len(Hosts)]
    BY <1>2, <1>3 DEF Over, Lines
  <2>3. QED
    BY <1>1, <2>1, <2>2 DEF TypeOK, serverVars
<1>7. \A k \in Conns : k = Current(c) => OneRequest(k)'
  BY <1>1, ConnectionsAssumption DEF OneRequest, Connection, serverVars, Progress
<1>8. \A k \in Conns : k[1] = c => Progress(k)'
  BY <1>1, <1>2, <1>3, ConnectionsAssumption DEF Progress, Unused, Passed, OneRequest, Connection, serverVars, Over
<1>9. Started(c)'
  BY <1>1, <1>2, <1>3 DEF Started, Over
<1>10. InTurn'
  <2>1. \A k \in Conns : k = Current(c) => ~Unused(k)
    BY <1>1, <1>2 DEF Unused, Progress
  <2>2. QED
    BY <1>4, <2>1, InTurnKept
<1>11. QED
  BY <1>4, <1>5, <1>6, <1>7, <1>8, <1>9, <1>10, ClientKeeps

LEMMA ReceiveKeeps ==
  ASSUME Inv, NEW c \in Clients, Receive(c), UNCHANGED serverVars
  PROVE  Inv'
<1> USE DEF Receive, Proceed, Stops, CloseClient, Goto
<1>1. /\ TypeOK /\ conn \in [Conns -> Connection] /\ session \in [Conns -> SessionState]
      /\ \A k \in Conns : OneRequest(k) /\ Progress(k)
      /\ Started(c)
  BY DEF Inv, TypeOK
<1>2. /\ at[c] \in {"connecting", "sending", "waiting"} => Current(c) \in Conns
      /\ Current(c)[1] = c /\ Current(c)[2] = typed[c] /\ Current(c)[3] = host[c]
      /\ \A k \in Conns : k[1] = c /\ k[2] = typed[c] /\ k[3] = host[c] => k = Current(c)
      /\ \A k \in Conns : k[1] = c => k[2] \in Nat /\ k[3] \in 1..Len(Hosts)
      /\ typed[c] \in 0..MaxCommands /\ host[c] \in 1..Len(Hosts) /\ Len(Hosts) \in Nat /\ MaxCommands \in Nat
  BY CurrentFacts
<1>3. /\ at \in [Clients -> {"prompt", "connecting", "sending", "waiting"} \cup Over]
      /\ typed \in [Clients -> 0..MaxCommands] /\ cmd \in [Clients -> Lines]
      /\ wide \in [Clients -> BOOLEAN] /\ host \in [Clients -> 1..Len(Hosts)]
  BY <1>1 DEF TypeOK
<1>4. \A k \in Conns : k # Current(c) => conn'[k] = conn[k]
  BY <1>1
<1>5. \A d \in Clients : d # c => /\ at'[d] = at[d] /\ typed'[d] = typed[d] /\ cmd'[d] = cmd[d]
                                  /\ wide'[d] = wide[d] /\ host'[d] = host[d]
  BY <1>3
<1>6. TypeOK'
  <2>1. conn' \in [Conns -> Connection]
    BY <1>1, <1>2 DEF Connection, Answers
  <2>2. /\ at' \in [Clients -> {"prompt", "connecting", "sending", "waiting"} \cup Over]
        /\ typed' \in [Clients -> 0..MaxCommands] /\ cmd' \in [Clients -> Lines]
        /\ wide' \in [Clients -> BOOLEAN] /\ host' \in [Clients -> 1..Len(Hosts)]
    BY <1>2, <1>3 DEF Over, Lines
  <2>3. QED
    BY <1>1, <2>1, <2>2 DEF TypeOK, serverVars
<1>7. \A k \in Conns : k = Current(c) => OneRequest(k)'
  BY <1>1, ConnectionsAssumption DEF OneRequest, Connection, serverVars, Progress
<1>8. \A k \in Conns : k[1] = c => Progress(k)'
  BY <1>1, <1>2, <1>3, ConnectionsAssumption DEF Progress, Unused, Passed, OneRequest, Connection, serverVars, Over
<1>9. Started(c)'
  BY <1>1, <1>2, <1>3 DEF Started, Over
<1>10. InTurn'
  <2>1. \A k \in Conns : k = Current(c) /\ Unused(k) => Unused(k)'
    BY <1>1, <1>4 DEF Unused, Connection, serverVars
  <2>2. QED
    BY <1>4, <2>1, InTurnKept
<1>11. QED
  BY <1>4, <1>5, <1>6, <1>7, <1>8, <1>9, <1>10, ClientKeeps

LEMMA ReceiveNullKeeps ==
  ASSUME Inv, NEW c \in Clients, ReceiveNull(c), UNCHANGED serverVars
  PROVE  Inv'
<1> USE DEF ReceiveNull, Proceed, Stops, CloseClient, Goto
<1>1. /\ TypeOK /\ conn \in [Conns -> Connection] /\ session \in [Conns -> SessionState]
      /\ \A k \in Conns : OneRequest(k) /\ Progress(k)
      /\ Started(c)
  BY DEF Inv, TypeOK
<1>2. /\ at[c] \in {"connecting", "sending", "waiting"} => Current(c) \in Conns
      /\ Current(c)[1] = c /\ Current(c)[2] = typed[c] /\ Current(c)[3] = host[c]
      /\ \A k \in Conns : k[1] = c /\ k[2] = typed[c] /\ k[3] = host[c] => k = Current(c)
      /\ \A k \in Conns : k[1] = c => k[2] \in Nat /\ k[3] \in 1..Len(Hosts)
      /\ typed[c] \in 0..MaxCommands /\ host[c] \in 1..Len(Hosts) /\ Len(Hosts) \in Nat /\ MaxCommands \in Nat
  BY CurrentFacts
<1>3. /\ at \in [Clients -> {"prompt", "connecting", "sending", "waiting"} \cup Over]
      /\ typed \in [Clients -> 0..MaxCommands] /\ cmd \in [Clients -> Lines]
      /\ wide \in [Clients -> BOOLEAN] /\ host \in [Clients -> 1..Len(Hosts)]
  BY <1>1 DEF TypeOK
<1>4. \A k \in Conns : k # Current(c) => conn'[k] = conn[k]
  BY <1>1
<1>5. \A d \in Clients : d # c => /\ at'[d] = at[d] /\ typed'[d] = typed[d] /\ cmd'[d] = cmd[d]
                                  /\ wide'[d] = wide[d] /\ host'[d] = host[d]
  BY <1>3
<1>6. TypeOK'
  <2>1. conn' \in [Conns -> Connection]
    BY <1>1, <1>2 DEF Connection, Answers
  <2>2. /\ at' \in [Clients -> {"prompt", "connecting", "sending", "waiting"} \cup Over]
        /\ typed' \in [Clients -> 0..MaxCommands] /\ cmd' \in [Clients -> Lines]
        /\ wide' \in [Clients -> BOOLEAN] /\ host' \in [Clients -> 1..Len(Hosts)]
    BY <1>2, <1>3 DEF Over, Lines
  <2>3. QED
    BY <1>1, <2>1, <2>2 DEF TypeOK, serverVars
<1>7. \A k \in Conns : k = Current(c) => OneRequest(k)'
  BY <1>1, ConnectionsAssumption DEF OneRequest, Connection, serverVars, Progress
<1>8. \A k \in Conns : k[1] = c => Progress(k)'
  <2>1. /\ UNCHANGED <<typed, cmd, wide, host>>
        /\ at' = [at EXCEPT ![c] = at'[c]] /\ at'[c] \in {"prompt", "exited", "dead"}
        /\ wide[c] => at'[c] = "dead"
        /\ conn' = [conn EXCEPT ![Current(c)].client = "closed", ![Current(c)].answer = Nothing]
        /\ at[c] = "waiting" /\ Current(c) \in Conns
        /\ conn[Current(c)].server = "closed"
    BY <1>1, <1>2, <1>3
  <2> SUFFICES ASSUME NEW k \in Conns, k[1] = c PROVE Progress(k)'
    OBVIOUS
  <2> HIDE DEF ReceiveNull, Proceed, Stops
  <2>3. CASE k = Current(c)
    BY <1>1, <1>2, <1>3, <2>1, <2>3, ConnectionsAssumption DEF Progress, Unused, Passed, OneRequest, Connection, serverVars, Over
  <2>4. CASE k # Current(c)
    <3>1. conn'[k] = conn[k] /\ session'[k] = session[k] /\ ~(k[2] = typed[c] /\ k[3] = host[c])
      BY <1>2, <1>4, <2>4 DEF serverVars
    <3>2. QED
      BY <1>1, <1>3, <2>1, <3>1 DEF Progress, Unused, Passed
  <2>5. QED
    BY <2>3, <2>4
<1>9. Started(c)'
  BY <1>1, <1>2, <1>3 DEF Started, Over
<1>10. InTurn'
  <2>1. \A k \in Conns : k = Current(c) /\ Unused(k) => Unused(k)'
    BY <1>1, <1>4 DEF Unused, Connection, serverVars
  <2>2. QED
    BY <1>4, <2>1, InTurnKept
<1>11. QED
  BY <1>4, <1>5, <1>6, <1>7, <1>8, <1>9, <1>10, ClientKeeps

\* The invariant survives every step.
LEMMA StepInv == Inv /\ [Next]_vars => Inv'
<1> SUFFICES ASSUME Inv, [Next]_vars PROVE Inv'
  OBVIOUS
<1>1. ASSUME NEW c \in Clients, ClientStep(c) PROVE Inv'
  BY <1>1, ConnectKeeps, RefusedKeeps, SendKeeps, ReceiveKeeps, ReceiveNullKeeps, ReceiveResetKeeps
     DEF ClientStep, Dial, Dispatch
<1>2. ASSUME NEW c \in Clients, UserStep(c) PROVE Inv'
  BY <1>2, TypeKeeps, TypeBadHostKeeps, EndOfInputKeeps, KillKeeps DEF UserStep
<1>3. ASSUME NEW k \in Conns, ServerStep(k) PROVE Inv'
  BY <1>3, AcceptKeeps, ReadLineKeeps, EndOfStreamKeeps, HandleKeeps, ReplyKeeps,
     EndProcessKeeps, ConnsFacts DEF ServerStep, Serve, Exit
<1>4. ASSUME NEW s \in Servers, ServerFault(s) PROVE Inv'
  BY <1>4, EndProcessKeeps DEF ServerFault, AcceptFails
<1>5. CASE UNCHANGED vars
  BY <1>5 DEF vars, Inv, TypeOK, OneRequest, Progress, Started, InTurn, Unused, Passed
<1>6. QED
  BY <1>1, <1>2, <1>3, <1>4, <1>5 DEF Next, Idle

LEMMA Invariance == Spec => []Inv
BY InitInv, StepInv, PTL DEF Spec

\* Every variable keeps its range, and every lot its bounds, whatever number of
\* spots it was given, whatever the clients ask of the sessions and whenever a
\* server exits.
THEOREM TypeCorrect == Spec => []TypeOK
<1>1. Inv => TypeOK
  BY DEF Inv
<1>2. QED
  BY <1>1, Invariance, PTL
-----------------------------------------------------------------------------
\* The books of the lots, with sets that can be counted.
Books ==
  \A s \in Servers :
    /\ IsFiniteSet(Granted(s, "in")) /\ IsFiniteSet(Granted(s, "out"))
    /\ count[s] = Cardinality(Granted(s, "in")) - Cardinality(Granted(s, "out"))

LEMMA InitBooks == SimInit => Books
<1> SUFFICES ASSUME SimInit, NEW s \in Servers
             PROVE  /\ IsFiniteSet(Granted(s, "in")) /\ IsFiniteSet(Granted(s, "out"))
                    /\ count[s] = Cardinality(Granted(s, "in")) - Cardinality(Granted(s, "out"))
  BY DEF Books
<1>1. \A w \in {"in", "out"} : Granted(s, w) = {}
  BY ConnectionsAssumption DEF SimInit, ServerInit, Granted
<1>2. count[s] = 0
  BY DEF SimInit, ServerInit
<1>3. QED
  BY <1>1, <1>2, FS_EmptySet

\* A step that grants nothing and moves no car leaves the books right.
LEMMA BooksKept ==
  ASSUME Books, count' = count,
         \A k \in Conns : session[k].reply = "ok" \/ session'[k].reply = "ok" =>
           session'[k].reply = session[k].reply /\ session'[k].line = session[k].line
  PROVE  Books'
<1>1. \A s \in Servers, w \in {"in", "out"} : Granted(s, w)' = Granted(s, w)
  BY DEF Granted, Server
<1>2. QED
  BY <1>1 DEF Books

\* A request that is carried out moves one car and is granted, or neither.
LEMMA HandleBooks ==
  ASSUME Inv, Books, NEW k \in Conns, Handle(k)
  PROVE  Books'
<1>1. /\ session \in [Conns -> SessionState] /\ count \in [Servers -> Occupancies]
      /\ Server(k) \in Servers /\ session[k].reply = Nothing /\ Nothing # "ok"
  BY ConnsFacts, ConnectionsAssumption DEF Inv, TypeOK, OneRequest, Handle
<1>2. PICK reply \in Answers, change \in {-1, 0, 1} :
        /\ session' = [session EXCEPT ![k].at = "replying", ![k].reply = reply]
        /\ count' = [count EXCEPT ![Server(k)] = @ + change]
        /\ \/ session[k].line = "in" /\ reply = "ok" /\ change = 1
           \/ session[k].line = "out" /\ reply = "ok" /\ change = -1
           \/ (reply = "ok" => session[k].line \notin {"in", "out"}) /\ change = 0
  BY DEF Handle, Compute, Answers
<1>3. /\ session'[k].line = session[k].line /\ session'[k].reply = reply
      /\ \A j \in Conns : j # k => session'[j] = session[j]
  BY <1>1, <1>2 DEF SessionState
<1>4. \A s \in Servers, w \in {"in", "out"} :
        Granted(s, w)' = IF s = Server(k) /\ session[k].line = w /\ reply = "ok"
                           THEN Granted(s, w) \cup {k} ELSE Granted(s, w)
  BY <1>1, <1>3 DEF Granted, Server
<1>5. \A s, w : k \notin Granted(s, w)
  BY <1>1 DEF Granted
<1>6. ASSUME NEW s \in Servers
      PROVE  /\ IsFiniteSet(Granted(s, "in")') /\ IsFiniteSet(Granted(s, "out")')
             /\ count'[s] = Cardinality(Granted(s, "in")') - Cardinality(Granted(s, "out")')
  <2>1. /\ IsFiniteSet(Granted(s, "in")) /\ IsFiniteSet(Granted(s, "out"))
        /\ count[s] = Cardinality(Granted(s, "in")) - Cardinality(Granted(s, "out"))
    BY DEF Books
  <2>2. /\ Cardinality(Granted(s, "in")) \in Nat /\ Cardinality(Granted(s, "out")) \in Nat
    BY <2>1, FS_CardinalityType
  <2>3. \A w \in {"in", "out"} :
          /\ IsFiniteSet(Granted(s, w) \cup {k})
          /\ Cardinality(Granted(s, w) \cup {k}) = Cardinality(Granted(s, w)) + 1
    BY <1>5, <2>1, FS_AddElement
  <2>4. count'[s] = IF s = Server(k) THEN count[s] + change ELSE count[s]
    BY <1>1, <1>2
  <2>5. CASE s # Server(k)
    BY <1>4, <2>1, <2>4, <2>5
  <2>6. CASE s = Server(k)
    <3>1. CASE session[k].line = "in" /\ reply = "ok" /\ change = 1
      <4>1. /\ Granted(s, "in")' = Granted(s, "in") \cup {k}
            /\ Granted(s, "out")' = Granted(s, "out")
        BY <1>4, <2>6, <3>1
      <4>2. count'[s] = count[s] + 1
        BY <2>4, <2>6, <3>1
      <4>3. /\ IsFiniteSet(Granted(s, "in")')
            /\ Cardinality(Granted(s, "in")') = Cardinality(Granted(s, "in")) + 1
        BY <2>3, <4>1
      <4>4. /\ IsFiniteSet(Granted(s, "out")')
            /\ Cardinality(Granted(s, "out")') = Cardinality(Granted(s, "out"))
        BY <2>1, <4>1
      <4>5. QED
        BY <2>1, <2>2, <4>2, <4>3, <4>4
    <3>2. CASE session[k].line = "out" /\ reply = "ok" /\ change = -1
      <4>1. /\ Granted(s, "in")' = Granted(s, "in")
            /\ Granted(s, "out")' = Granted(s, "out") \cup {k}
        BY <1>4, <2>6, <3>2
      <4>2. count'[s] = count[s] - 1
        BY <2>4, <2>6, <3>2
      <4>3. /\ IsFiniteSet(Granted(s, "out")')
            /\ Cardinality(Granted(s, "out")') = Cardinality(Granted(s, "out")) + 1
        BY <2>3, <4>1
      <4>4. /\ IsFiniteSet(Granted(s, "in")')
            /\ Cardinality(Granted(s, "in")') = Cardinality(Granted(s, "in"))
        BY <2>1, <4>1
      <4>5. QED
        BY <2>1, <2>2, <4>2, <4>3, <4>4
    <3>3. CASE (reply = "ok" => session[k].line \notin {"in", "out"}) /\ change = 0
      BY <1>4, <2>1, <2>2, <2>4, <2>6, <3>3
    <3>4. QED
      BY <1>2, <3>1, <3>2, <3>3
  <2>7. QED
    BY <2>5, <2>6
<1>7. QED
  BY <1>6 DEF Books

LEMMA StepBooks == Inv /\ Books /\ [Next]_vars => Books'
<1> SUFFICES ASSUME Inv, Books, [Next]_vars PROVE Books'
  OBVIOUS
<1>1. session \in [Conns -> SessionState] /\ Nothing # "ok" /\ \A k \in Conns : OneRequest(k)
  BY ConnectionsAssumption DEF Inv, TypeOK
<1>2. CASE \/ UNCHANGED serverVars
           \/ \E k \in Conns : Accept(k) \/ ReadLine(k) \/ EndOfStream(k) \/ Reply(k)
           \/ \E s \in Servers : EndProcess(s)
  <2>1. count' = count
    BY <1>2 DEF serverVars, Accept, ReadLine, EndOfStream, Reply, EndProcess
  <2>2. \A k \in Conns : session[k].reply = "ok" \/ session'[k].reply = "ok" =>
          session'[k].reply = session[k].reply /\ session'[k].line = session[k].line
    <3>1. CASE UNCHANGED serverVars
      BY <3>1 DEF serverVars
    <3>2. CASE \E k \in Conns : ReadLine(k)
      BY <1>1, <3>2 DEF ReadLine, SessionState, OneRequest
    <3>3. CASE \E k \in Conns : Accept(k) \/ EndOfStream(k) \/ Reply(k)
      BY <1>1, <3>3 DEF Accept, EndOfStream, Reply, SessionState
    <3>4. CASE \E s \in Servers : EndProcess(s)
      BY <1>1, <3>4 DEF EndProcess, SessionState
    <3>5. QED
      BY <1>2, <3>1, <3>2, <3>3, <3>4
  <2>3. QED
    BY <2>1, <2>2, BooksKept
<1>3. CASE \E k \in Conns : Handle(k)
  BY <1>3, HandleBooks
<1>4. QED
  BY <1>2, <1>3, ConnsFacts
     DEF Next, ClientStep, UserStep, ServerStep, ServerFault, Serve, Exit, AcceptFails, Idle, vars, serverVars

\* The lot of each server holds the cars whose requests it has granted.
THEOREM LedgerCorrect == Spec => []Ledger
<1>1. Spec => []Books
  BY Invariance, InitBooks, StepBooks, PTL DEF Spec
<1>2. Books => Ledger
  BY DEF Books, Ledger
<1>3. QED
  BY <1>1, <1>2, PTL
-----------------------------------------------------------------------------
\* One command moves one car at most: of two hosts that granted it, one would
\* have been asked after the other had.
THEOREM OneGrantCorrect == Spec => []AtMostOneGrant
<1>1. Inv => AtMostOneGrant
  <2> SUFFICES ASSUME Inv, NEW c \in Clients, NEW n \in 1..MaxCommands,
                      NEW i \in 1..Len(Hosts), NEW j \in 1..Len(Hosts),
                      <<c, n, i>> \in Granted(Hosts[i], "in") \cup Granted(Hosts[i], "out"),
                      <<c, n, j>> \in Granted(Hosts[j], "in") \cup Granted(Hosts[j], "out"),
                      i < j
               PROVE  FALSE
    BY ConnsFacts DEF AtMostOneGrant
  <2>1. /\ <<c, n, i>> \in Conns /\ <<c, n, j>> \in Conns
        /\ \A k \in {<<c, n, i>>, <<c, n, j>>} :
             session[k].line \in {"in", "out"} /\ session[k].reply = "ok"
    BY ConnsFacts DEF Granted
  <2>2. ~Unused(<<c, n, j>>) /\ ~Unused(<<c, n, i>>) /\ ~Passed(<<c, n, i>>)
    BY <2>1, ConnectionsAssumption DEF Unused, Passed
  <2>3. QED
    BY <2>1, <2>2 DEF Inv, InTurn
<1>2. QED
  BY <1>1, Invariance, PTL

\* What a client may conclude from a broadcast that brought it back to its
\* prompt: the hosts before the last one refused, the last one granted it or
\* refused as the last of all, and no other has been asked.
THEOREM BroadcastCorrect == Spec => []BroadcastOutcome
<1>1. Inv => BroadcastOutcome
  <2> SUFFICES ASSUME Inv, NEW c \in Clients, at[c] = "prompt", wide[c], cmd[c] \in {"in", "out"}
               PROVE  /\ \A i \in 1..(host[c] - 1) : session[<<c, typed[c], i>>].reply = "fail"
                      /\ \/ session[<<c, typed[c], host[c]>>].reply = "ok"
                         \/ session[<<c, typed[c], host[c]>>].reply = "fail" /\ host[c] = Len(Hosts)
                      /\ \A i \in (host[c] + 1)..Len(Hosts) : session[<<c, typed[c], i>>].at = "none"
    BY DEF BroadcastOutcome
  <2>1. /\ typed[c] \in 1..MaxCommands /\ host[c] \in 1..Len(Hosts) /\ Len(Hosts) \in Nat
    BY CurrentFacts DEF Inv, Started
  <2>2. \A i \in 1..Len(Hosts) : /\ <<c, typed[c], i>> \in Conns
                                 /\ OneRequest(<<c, typed[c], i>>) /\ Progress(<<c, typed[c], i>>)
    BY <2>1, ConnsFacts DEF Inv
  <2>3. ASSUME NEW i \in 1..(host[c] - 1) PROVE session[<<c, typed[c], i>>].reply = "fail"
    <3>1. i \in 1..Len(Hosts) /\ i < host[c]
      BY <2>1
    <3>2. Passed(<<c, typed[c], i>>) /\ session[<<c, typed[c], i>>].line \in {Nothing, cmd[c]}
      BY <2>2, <3>1 DEF Progress
    <3>3. QED
      BY <2>2, <3>1, <3>2 DEF Passed, OneRequest
  <2>4. \/ session[<<c, typed[c], host[c]>>].reply = "ok"
        \/ session[<<c, typed[c], host[c]>>].reply = "fail" /\ host[c] = Len(Hosts)
    BY <2>1, <2>2 DEF Progress
  <2>5. ASSUME NEW i \in (host[c] + 1)..Len(Hosts) PROVE session[<<c, typed[c], i>>].at = "none"
    <3>1. i \in 1..Len(Hosts) /\ i > host[c]
      BY <2>1
    <3>2. QED
      BY <2>2, <3>1 DEF Progress, Unused
  <2>6. QED
    BY <2>3, <2>4, <2>5
<1>2. QED
  BY <1>1, Invariance, PTL
-----------------------------------------------------------------------------
\* The ends of a connection tell whether its server runs, and a session that
\* has answered "quit" does nothing else than exit.
Honest(k) ==
  /\ conn[k].server \in {"backlog", "open"} => up[Server(k)]
  /\ conn[k].server \in {"closed", "reset"} => ~up[Server(k)]
  /\ session[k].at = "replying" => conn[k].answer = Nothing
  /\ session[k].line = "quit" /\ session[k].reply # Nothing =>
       session[k].at \in {"replying", "exiting"} \/ ~up[Server(k)]

\* What the client of a connection of its last command waits for, and what has
\* become of "quit" at the hosts that are behind it.
Settled(k) ==
  LET c == k[1] IN
    k[2] = typed[c] =>
      /\ at[c] = "waiting" /\ k[3] = host[c] => Attended(k)
      /\ cmd[c] = "quit" /\ ((wide[c] /\ k[3] < host[c]) \/ (k[3] = host[c] /\ at[c] = "exited")) =>
           ~up[Server(k)] \/ session[k].at = "exiting"

\* A client with a command has typed it, prompts after any but "quit", and exits
\* on "quit" only after the last of its hosts.
QuitsLast(c) ==
  /\ typed[c] = 0 <=> cmd[c] = Nothing
  /\ at[c] = "prompt" => cmd[c] # "quit"
  /\ at[c] = "exited" /\ cmd[c] = "quit" /\ wide[c] => host[c] = Len(Hosts)

\* The second part of the inductive invariant.
Ahead ==
  /\ \A k \in Conns : Honest(k) /\ Settled(k)
  /\ \A c \in Clients : QuitsLast(c)

LEMMA InitAhead == SimInit => Ahead
<1> SUFFICES ASSUME SimInit PROVE Ahead
  OBVIOUS
<1> USE DEF SimInit, Init, ServerInit, ClientInit
<1>1. \A k \in Conns : Honest(k) /\ Settled(k)
  BY ConnsFacts, ConnectionsAssumption DEF Honest, Settled
<1>2. \A c \in Clients : QuitsLast(c)
  BY ConnectionsAssumption DEF QuitsLast
<1>3. QED
  BY <1>1, <1>2 DEF Ahead

\* What a session does to its connection leaves the others alone.
LEMMA ServerAhead ==
  ASSUME Inv, Ahead, NEW k \in Conns, UNCHANGED <<clientVars, up>>,
         \A j \in Conns : j # k => conn'[j] = conn[j] /\ session'[j] = session[j],
         Honest(k)', Attended(k) /\ conn[k].client = "open" => Attended(k)',
         session[k].at = "exiting" => session'[k].at = "exiting"
  PROVE  Ahead'
<1>1. ASSUME NEW j \in Conns, j # k PROVE Honest(j)'
  BY <1>1 DEF Ahead, Honest, Server
<1>2. ASSUME NEW j \in Conns PROVE Settled(j)'
  <2>1. Attended(j) /\ conn[j].client = "open" => Attended(j)'
    BY DEF Attended, Server
  <2>2. session[j].at = "exiting" => session'[j].at = "exiting"
    OBVIOUS
  <2>3. QED
    BY <2>1, <2>2 DEF Inv, Progress, Ahead, Settled, clientVars, Server
<1>3. ASSUME NEW c \in Clients PROVE QuitsLast(c)'
  BY DEF Ahead, QuitsLast, clientVars
<1>4. QED
  BY <1>1, <1>2, <1>3 DEF Ahead

LEMMA SessionAhead ==
  ASSUME Inv, Ahead, NEW k \in Conns,
         Accept(k) \/ ReadLine(k) \/ EndOfStream(k) \/ Handle(k) \/ Reply(k), UNCHANGED clientVars
  PROVE  Ahead'
<1>1. /\ conn \in [Conns -> Connection] /\ session \in [Conns -> SessionState]
      /\ OneRequest(k) /\ Honest(k) /\ Progress(k)
  BY DEF Inv, TypeOK, Ahead
<1>2. CASE Accept(k)
  <2>1. /\ conn' = [conn EXCEPT ![k].server = "open"]
        /\ session' = [session EXCEPT ![k].at = "reading"]
        /\ UNCHANGED <<up, clientVars>> /\ conn[k].server = "backlog" /\ up[Server(k)]
    BY <1>2 DEF Accept
  <2>2. Honest(k)' /\ (Attended(k) => Attended(k)')
    BY <1>1, <2>1 DEF Honest, Attended, OneRequest, Connection, SessionState
  <2>3. QED
    BY <1>1, <2>1, <2>2, ServerAhead DEF OneRequest
<1>3. CASE ReadLine(k)
  <2>1. /\ conn' = [conn EXCEPT ![k].request = Nothing]
        /\ session' = [session EXCEPT ![k].at = "handling", ![k].line = conn[k].request]
        /\ UNCHANGED <<up, clientVars>> /\ session[k].at = "reading" /\ conn[k].request # Nothing
    BY <1>3 DEF ReadLine
  <2>2. Honest(k)' /\ (Attended(k) => Attended(k)')
    BY <1>1, <2>1 DEF Honest, Attended, OneRequest, Connection, SessionState
  <2>3. QED
    BY <1>1, <2>1, <2>2, ServerAhead
<1>4. CASE EndOfStream(k)
  <2>1. /\ session' = [session EXCEPT ![k].at = "ended"]
        /\ UNCHANGED <<conn, up, clientVars>> /\ session[k].at = "reading" /\ conn[k].request = Nothing
    BY <1>4 DEF EndOfStream
  <2>2. Honest(k)' /\ (Attended(k) => Attended(k)')
    BY <1>1, <2>1 DEF Honest, Attended, OneRequest, Connection, SessionState
  <2>3. QED
    BY <1>1, <2>1, <2>2, ServerAhead
<1>5. CASE Handle(k)
  <2>1. PICK reply \in Answers : session' = [session EXCEPT ![k].at = "replying", ![k].reply = reply]
    BY <1>5 DEF Handle, Compute, Answers
  <2>2. UNCHANGED <<conn, up, clientVars>> /\ session[k].at = "handling"
    BY <1>5 DEF Handle
  <2>3. Honest(k)' /\ (Attended(k) => Attended(k)')
    BY <1>1, <2>1, <2>2 DEF Honest, Attended, OneRequest, Connection, SessionState
  <2>4. QED
    BY <1>1, <2>1, <2>2, <2>3, ServerAhead
<1>6. CASE Reply(k)
  <2>1. /\ conn' = [conn EXCEPT ![k].answer = IF @ = Nothing /\ conn[k].client = "open" THEN session[k].reply ELSE @]
        /\ session' = [session EXCEPT ![k].at = IF session[k].line = "quit" THEN "exiting" ELSE "reading"]
        /\ UNCHANGED <<up, clientVars>> /\ session[k].at = "replying"
    BY <1>6 DEF Reply, SendAnswer
  <2>2. Honest(k)'
    BY <1>1, <2>1 DEF Honest, OneRequest, Connection, SessionState
  <2>3. Attended(k) /\ conn[k].client = "open" => Attended(k)'
    BY <1>1, <2>1 DEF Attended, OneRequest, Connection, SessionState
  <2>4. QED
    BY <1>1, <2>1, <2>2, <2>3, ServerAhead
<1>7. QED
  BY <1>2, <1>3, <1>4, <1>5, <1>6

LEMMA EndProcessAhead ==
  ASSUME Inv, Ahead, NEW s \in Servers, EndProcess(s), UNCHANGED clientVars
  PROVE  Ahead'
<1>1. conn \in [Conns -> Connection] /\ \A j \in Conns : Ending(s, j)
  BY EndProcessEffect DEF Inv, TypeOK
<1>2. \A j \in Conns : up'[Server(j)] <=> (up[Server(j)] /\ Server(j) # s)
  BY ConnsFacts DEF EndProcess, Inv, TypeOK
<1>3. ASSUME NEW j \in Conns PROVE Honest(j)' /\ Settled(j)'
  <2>1. OneRequest(j) /\ Honest(j) /\ Settled(j)
    BY DEF Inv, Ahead
  <2>2. CASE Server(j) # s
    BY <1>1, <1>2, <2>1, <2>2 DEF Ending, Honest, Settled, Attended, clientVars, Server
  <2>3. CASE Server(j) = s
    <3>1. Attended(j) => Attended(j)'
      BY <1>1, <2>1, <2>3 DEF Ending, Attended, OneRequest, Connection
    <3>2. ~up'[Server(j)]
      BY <1>2, <2>3
    <3>3. Honest(j)'
      BY <1>1, <2>1, <2>3, <3>2 DEF Ending, Honest, Connection, Server
    <3>4. QED
      BY <2>1, <3>1, <3>2, <3>3 DEF Settled, clientVars, Server
  <2>4. QED
    BY <2>2, <2>3
<1>4. ASSUME NEW c \in Clients PROVE QuitsLast(c)'
  BY DEF Ahead, QuitsLast, clientVars
<1>5. QED
  BY <1>3, <1>4 DEF Ahead

\* What a client does concerns its own connections only.
LEMMA ClientAhead ==
  ASSUME Ahead, NEW c \in Clients, UNCHANGED serverVars,
         \A k \in Conns : k # Current(c) => conn'[k] = conn[k],
         \A d \in Clients : d # c => /\ at'[d] = at[d] /\ typed'[d] = typed[d] /\ cmd'[d] = cmd[d]
                                     /\ wide'[d] = wide[d] /\ host'[d] = host[d],
         \A k \in Conns : k = Current(c) => Honest(k)',
         \A k \in Conns : k[1] = c => Settled(k)',
         QuitsLast(c)'
  PROVE  Ahead'
<1>1. ASSUME NEW k \in Conns, k # Current(c) PROVE Honest(k)'
  BY <1>1 DEF Ahead, Honest, serverVars, Server
<1>2. ASSUME NEW k \in Conns, k[1] # c PROVE Settled(k)'
  <2>1. k[1] \in Clients /\ k # Current(c)
    BY <1>2, ConnsFacts DEF Current
  <2>2. conn'[k] = conn[k] /\ session' = session /\ up' = up /\ Settled(k)
    BY <2>1 DEF Ahead, serverVars
  <2>3. QED
    BY <1>2, <2>1, <2>2 DEF Settled, Attended, Server
<1>3. ASSUME NEW d \in Clients, d # c PROVE QuitsLast(d)'
  BY <1>3 DEF Ahead, QuitsLast
<1>4. QED
  BY <1>1, <1>2, <1>3 DEF Ahead

LEMMA ClientStepAhead ==
  ASSUME Inv, Ahead, NEW c \in Clients, ClientStep(c) \/ UserStep(c)
  PROVE  Ahead'
<1>1. /\ at \in [Clients -> {"prompt", "connecting", "sending", "waiting"} \cup Over]
      /\ typed \in [Clients -> 0..MaxCommands] /\ cmd \in [Clients -> Lines]
      /\ wide \in [Clients -> BOOLEAN] /\ host \in [Clients -> 1..Len(Hosts)]
      /\ conn \in [Conns -> Connection] /\ session \in [Conns -> SessionState]
      /\ \A k \in Conns : OneRequest(k) /\ Progress(k) /\ Honest(k) /\ Settled(k)
      /\ QuitsLast(c) /\ UNCHANGED serverVars /\ session' = session /\ up' = up
  BY DEF Inv, TypeOK, Ahead, serverVars, ClientStep, UserStep
<1>2. /\ at[c] \in {"connecting", "sending", "waiting"} => Current(c) \in Conns
      /\ Current(c)[1] = c /\ Current(c)[2] = typed[c] /\ Current(c)[3] = host[c]
      /\ \A k \in Conns : k[1] = c /\ k[2] = typed[c] /\ k[3] = host[c] => k = Current(c)
      /\ \A k \in Conns : k[1] = c => k[2] \in Nat /\ k[3] \in 1..Len(Hosts)
      /\ typed[c] \in 0..MaxCommands /\ host[c] \in 1..Len(Hosts) /\ Len(Hosts) \in Nat /\ MaxCommands \in Nat
  BY CurrentFacts
<1> DEFINE Others == /\ \A k \in Conns : k # Current(c) => conn'[k] = conn[k]
                     /\ \A d \in Clients : d # c => /\ at'[d] = at[d] /\ typed'[d] = typed[d]
                                                    /\ cmd'[d] = cmd[d] /\ wide'[d] = wide[d]
                                                    /\ host'[d] = host[d]
<1>3. ASSUME UNCHANGED <<typed, cmd, wide>>, host'[c] = host[c], at'[c] # "exited",
             NEW k \in Conns, k[1] = c, at'[c] = "waiting" /\ k = Current(c) => Attended(k)'
      PROVE  Settled(k)'
  <2>1. Settled(k) /\ session'[k] = session[k] /\ up' = up
    BY <1>1
  <2>2. k[2] = typed[c] /\ k[3] = host[c] => k = Current(c)
    BY <1>2, <1>3
  <2>3. QED
    BY <1>3, <2>1, <2>2 DEF Settled, Server
<1>4. CASE \E word \in Commands, i \in 1..Len(Hosts), broadcast \in BOOLEAN : Type(c, word, i, broadcast)
  <2>1. PICK word \in Commands, i \in 1..Len(Hosts), broadcast \in BOOLEAN : Type(c, word, i, broadcast)
    BY <1>4
  <2>2. Others /\ conn' = conn
    BY <1>1, <2>1 DEF Type, Goto
  <2>3. /\ at'[c] = "connecting" /\ typed'[c] = typed[c] + 1 /\ cmd'[c] = word
        /\ wide'[c] = broadcast /\ host'[c] = i /\ (broadcast => i = 1)
    BY <1>1, <2>1 DEF Type, Goto
  <2>4. \A k \in Conns : Honest(k)'
    BY <1>1, <2>2 DEF Honest, Server
  <2>5. \A k \in Conns : k[1] = c => Settled(k)'
    BY <1>1, <1>2, <2>3 DEF Settled
  <2>6. QuitsLast(c)'
    BY <1>1, <1>2, <2>3, ConnectionsAssumption DEF QuitsLast
  <2>7. QED
    BY <1>1, <2>2, <2>4, <2>5, <2>6, ClientAhead
<1>5. CASE TypeBadHost(c) \/ EndOfInput(c) \/ Dial(c)
  <2>1. /\ Others /\ UNCHANGED <<typed, cmd, wide, host>>
        /\ at'[c] \in {"dead", "exited", "sending"}
        /\ at'[c] = "exited" => at[c] = "prompt"
    BY <1>1, <1>5 DEF TypeBadHost, EndOfInput, Dial, Refused, Connect, Open, Goto
  <2>2. ASSUME NEW k \in Conns, k = Current(c) PROVE Honest(k)'
    <3>1. CASE conn' = conn
      BY <1>1, <3>1 DEF Honest, Server
    <3>2. CASE up[Server(k)] /\ Connect(c)
      BY <1>1, <1>2, <2>2, <3>2, ConnectionsAssumption
         DEF Honest, Server, Connect, Open, Connection, Progress, Unused
    <3>3. QED
      BY <1>5, <2>2, <3>1, <3>2 DEF TypeBadHost, EndOfInput, Dial, Refused
  <2>3. \A k \in Conns : k[1] = c => Settled(k)'
    BY <1>1, <2>1 DEF Settled, QuitsLast, Server
  <2>4. QuitsLast(c)'
    BY <1>1, <2>1 DEF QuitsLast
  <2>5. QED
    BY <1>1, <2>1, <2>2, <2>3, <2>4, ClientAhead
<1>6. CASE Send(c)
  <2>1. PICK k0 \in Conns : k0 = Current(c)
    BY <1>2, <1>6 DEF Send
  <2>2. /\ Others /\ UNCHANGED <<typed, cmd, wide, host>> /\ at'[c] = "waiting" /\ at[c] = "sending"
        /\ SendRequest(k0, cmd[c])
    BY <1>1, <1>2, <2>1, <1>6 DEF Send, Goto, SendRequest
  <2>3. /\ conn'[k0].answer = conn[k0].answer /\ conn'[k0].client = conn[k0].client
        /\ \/ /\ conn[k0].server \in {"backlog", "open"} /\ conn'[k0].server = conn[k0].server
              /\ conn'[k0].request = cmd[c]
           \/ conn[k0].server \in {"closed", "reset"} /\ conn'[k0].server \in {"closed", "reset"}
    BY <1>1, <2>1, <2>2 DEF SendRequest, Connection
  <2>4. /\ OneRequest(k0) /\ Honest(k0) /\ cmd[c] # Nothing
        /\ conn[k0].client = "open" /\ session[k0].line = Nothing /\ session[k0].reply = Nothing
        /\ session[k0].at \in {"none", "reading", "handling", "replying", "exiting", "ended"}
    <3>1. Started(c)
      BY DEF Inv
    <3>2. QED
      BY <1>1, <1>2, <2>1, <2>2, <3>1 DEF Progress, QuitsLast, Started, SessionState
  <2>5. Honest(k0)'
    BY <1>1, <2>3, <2>4 DEF Honest, Server
  <2>6. Attended(k0)'
    BY <1>1, <2>3, <2>4 DEF Attended, Honest, OneRequest, Server
  <2>7. \A k \in Conns : k[1] = c => Settled(k)'
    BY <1>3, <2>1, <2>2, <2>6
  <2>8. QuitsLast(c)'
    BY <1>1, <2>2 DEF QuitsLast
  <2>9. QED
    BY <1>1, <2>1, <2>2, <2>5, <2>7, <2>8, ClientAhead
<1>7. CASE Receive(c) \/ ReceiveNull(c) \/ ReceiveReset(c) \/ Kill(c)
  <2>1. PICK k0 \in Conns : k0 = Current(c)
    BY <1>2, <1>7 DEF Receive, ReceiveNull, ReceiveReset, Kill
  <2>2. /\ Others /\ UNCHANGED <<typed, cmd, wide>> /\ CloseClient(k0)
        /\ at'[c] \in {"connecting", "exited", "prompt", "dead"}
        /\ at'[c] = "dead" => host'[c] = host[c]
    BY <1>1, <1>2, <2>1, <1>7 DEF Receive, ReceiveNull, ReceiveReset, Kill, Proceed, CloseClient, Goto
  <2>3. /\ conn'[k0].server = conn[k0].server /\ conn'[k0].answer = Nothing
    BY <1>1, <2>1, <2>2 DEF CloseClient, Connection
  <2>4. Honest(k0)'
    BY <1>1, <2>2, <2>3 DEF Honest, Server
  <2>5. CASE at'[c] = "dead"
    <3>1. \A k \in Conns : k[1] = c => Settled(k)'
      BY <1>3, <2>2, <2>5
    <3>2. QuitsLast(c)'
      BY <1>1, <2>2, <2>5 DEF QuitsLast
    <3>3. QED
      BY <1>1, <2>1, <2>2, <2>4, <3>1, <3>2, ClientAhead
  <2>6. CASE at'[c] # "dead"
    <3>1. /\ at[c] = "waiting"
          /\ \/ conn[k0].answer # Nothing
             \/ conn[k0].server = "closed" /\ ~wide[c]
          /\ \E resp \in Answers :
               /\ host' = [host EXCEPT ![c] = IF Stops(c, resp) THEN @ ELSE @ + 1]
               /\ at'[c] = CASE ~Stops(c, resp)                     -> "connecting"
                             [] Stops(c, resp) /\ cmd[c] = "quit"   -> "exited"
                             [] Stops(c, resp) /\ cmd[c] # "quit"   -> "prompt"
      <4>1. CASE Receive(c)
        BY <1>1, <2>1, <4>1 DEF Receive, Proceed, Goto, Connection
      <4>2. CASE ReceiveNull(c)
        BY <1>1, <2>1, <2>6, <4>2 DEF ReceiveNull, Proceed, Goto, Answers
      <4>3. CASE ReceiveReset(c) \/ Kill(c)
        BY <1>1, <2>6, <4>3 DEF ReceiveReset, Kill, Goto
      <4>4. QED
        BY <1>7, <4>1, <4>2, <4>3
    <3>2. \/ at'[c] = "connecting" /\ wide[c] /\ host[c] < Len(Hosts) /\ host'[c] = host[c] + 1
          \/ at'[c] = "exited" /\ cmd[c] = "quit" /\ (wide[c] => host[c] = Len(Hosts)) /\ host'[c] = host[c]
          \/ at'[c] = "prompt" /\ cmd[c] # "quit" /\ host'[c] = host[c]
      BY <1>1, <1>2, <3>1 DEF Stops
    <3>3. cmd[c] = "quit" => ~up[Server(k0)] \/ session[k0].at = "exiting"
      <4>1. OneRequest(k0) /\ Honest(k0) /\ session[k0].line \in {Nothing, cmd[c]}
        BY <1>1, <1>2, <2>1, <2>2 DEF Progress
      <4>2. QED
        BY <3>1, <4>1 DEF OneRequest, Honest
    <3>4. \A k \in Conns : k[1] = c => Settled(k)'
      <4> SUFFICES ASSUME NEW k \in Conns, k[1] = c PROVE Settled(k)'
        OBVIOUS
      <4>1. Settled(k) /\ k[3] \in 1..Len(Hosts)
        BY <1>1, <1>2
      <4>2. CASE k = k0
        BY <1>1, <1>2, <2>1, <2>2, <3>2, <3>3, <4>2 DEF Settled, Server
      <4>3. CASE k # k0
        BY <1>1, <1>2, <2>1, <2>2, <3>2, <4>1, <4>3 DEF Settled, Server
      <4>4. QED
        BY <4>2, <4>3
    <3>5. QuitsLast(c)'
      BY <1>1, <2>2, <3>2 DEF QuitsLast
    <3>6. QED
      BY <1>1, <2>1, <2>2, <2>4, <3>4, <3>5, ClientAhead
  <2>7. QED
    BY <2>5, <2>6
<1>8. QED
  BY <1>4, <1>5, <1>6, <1>7 DEF ClientStep, UserStep, Dispatch

LEMMA StepAhead == Inv /\ Ahead /\ [Next]_vars => Ahead'
<1> SUFFICES ASSUME Inv, Ahead, [Next]_vars PROVE Ahead'
  OBVIOUS
<1>1. ASSUME NEW c \in Clients, ClientStep(c) \/ UserStep(c) PROVE Ahead'
  BY <1>1, ClientStepAhead
<1>2. ASSUME NEW k \in Conns, ServerStep(k) PROVE Ahead'
  BY <1>2, SessionAhead, EndProcessAhead, ConnsFacts DEF ServerStep, Serve, Exit
<1>3. ASSUME NEW s \in Servers, ServerFault(s) PROVE Ahead'
  BY <1>3, EndProcessAhead DEF ServerFault, AcceptFails
<1>4. CASE UNCHANGED vars
  BY <1>4 DEF vars, Ahead, Honest, Settled, Attended, QuitsLast, Server
<1>5. QED
  BY <1>1, <1>2, <1>3, <1>4 DEF Next, Idle

LEMMA AheadAlways == Spec => []Ahead
BY Invariance, InitAhead, StepAhead, PTL DEF Spec

\* Whenever a client waits there is something it waits for: an answer, the end
\* of the stream, or a server that runs and has its request.
LEMMA NeverInVainCorrect == Spec => []NeverInVain
<1>1. Inv /\ Ahead => NeverInVain
  BY CurrentFacts DEF Ahead, Settled, NeverInVain
<1>2. QED
  BY <1>1, Invariance, AheadAlways, PTL

\* When a client has exited on quit, every server it named has ended or is about
\* to, whatever the other clients and the servers did meanwhile.
LEMMA QuitOnItsWayCorrect == Spec => []QuitOnItsWay
<1>1. Inv /\ Ahead => QuitOnItsWay
  <2> SUFFICES ASSUME Inv, Ahead, NEW c \in Clients, NEW i \in 1..Len(Hosts),
                      at[c] = "exited", cmd[c] = "quit", wide[c] \/ host[c] = i
               PROVE  ~up[Hosts[i]] \/ session[<<c, typed[c], i>>].at = "exiting"
    BY DEF QuitOnItsWay
  <2>1. typed[c] \in 1..MaxCommands /\ host[c] \in 1..Len(Hosts) /\ Len(Hosts) \in Nat
        /\ (wide[c] => host[c] = Len(Hosts))
    BY CurrentFacts, ConnectionsAssumption DEF Ahead, QuitsLast
  <2>2. <<c, typed[c], i>> \in Conns /\ Settled(<<c, typed[c], i>>)
    BY <2>1, ConnsFacts DEF Ahead
  <2>3. QED
    BY <2>1, <2>2 DEF Settled, Server
<1>2. QED
  BY <1>1, Invariance, AheadAlways, PTL

\* For any clients, commands and servers: no client waits for something that
\* nobody is about to send it, and no server outlives a quit that was meant for
\* it except to carry it out.
THEOREM OnItsWayCorrect == Spec => []OnItsWay
BY NeverInVainCorrect, QuitOnItsWayCorrect, PTL DEF OnItsWay
=============================================================================
