------------------------ MODULE RpcParkingSimProofs ------------------------
(***************************************************************************)
(* Proofs about RpcParkingSim, for any number of clients and lines, any    *)
(* amounts, any capacity and any width of int: among them, that the remote *)
(* lot implements ParkingLot for amounts that do not overflow.             *)
(***************************************************************************)
EXTENDS RpcParkingSim, SequenceTheorems, TLAPS

\* A link has its four fields, and its ends are in the states that the client
\* and main have brought them to.
LinkShape ==
  link = [c \in Clients |-> [client |-> link[c].client, server |-> link[c].server,
                             up |-> link[c].up, down |-> link[c].down]]

Ends(c) ==
  /\ link[c].client = IF at[c] = "dialling" THEN "unused"
                      ELSE IF at[c] \in Over THEN "closed" ELSE "open"
  /\ link[c].server \in {"unused", "backlog", "open", "closed"}
  /\ link[c].server = "unused" => at[c] \in {"dialling", "dead"}
  /\ at[c] = "dialling" => link[c].server = "unused"
  /\ link[c].server \in {"unused", "backlog"} => session[c].at = "none" /\ main # c
  /\ main = c => session[c].at = "none"

\* The line a client works on.
Working(c) ==
  /\ at[c] \in {"dialling", "connected", "greeting", "prompt"} => line[c] = NoLine
  /\ at[c] \in {"sending", "sendingArgs"} => line[c] \in Proper \cup BadNumber
  /\ at[c] = "waiting" => line[c] \in Proper \cup {OddLine} /\ line[c].method # "exit"
  /\ at[c] = "exited" => line[c] \in Proper /\ line[c].method = "exit"
  /\ at[c] = "dead" => line[c] \in Proper \cup {OddLine, NoLine} /\ line[c].method # "exit"

\* No request is on its way.
Quiet(c) == session[c].at \in {"reading", "ended"} /\ link[c].up = <<>>

\* The method of one is.
HalfSent(c) ==
  \/ session[c].at \in {"reading", "ended"} /\ link[c].up = <<line[c].method>>
  \/ /\ session[c].at \in {"args", "ended"} /\ link[c].up = <<>>
     /\ session[c].method = line[c].method /\ session[c].reply = NoReply

\* It has been sent, and has got as far as the session.
Requested(c) ==
  \/ session[c].at \in {"reading", "ended"} /\ link[c].up = <<line[c].method, line[c].args>>
  \/ /\ session[c].at \in {"args", "ended"} /\ link[c].up = <<line[c].args>>
     /\ session[c].method = line[c].method /\ session[c].reply = NoReply
  \/ /\ session[c].at \in {"invoking", "replying", "reading", "ended"} /\ link[c].up = <<>>
     /\ session[c].method = line[c].method /\ session[c].args = line[c].args
     /\ session[c].at = "invoking" => session[c].reply = NoReply
     /\ session[c].at \in {"replying", "reading"} => session[c].reply # NoReply

\* What a client left behind that ended before it had sent a request.
Abandoned(c) ==
  \/ session[c].at = "none" /\ link[c].up \in {<<>>, <<"header">>}
  \/ session[c].at \in {"reading", "ended"} /\ link[c].up = <<>>
  \/ session[c].at \in {"reading", "ended"} /\ \E m \in Words : link[c].up = <<m>>
  \/ session[c].at \in {"args", "ended"} /\ link[c].up = <<>>

\* What the server has still to read.
Upward(c) ==
  /\ at[c] \in {"dialling", "connected"} => session[c].at = "none" /\ link[c].up = <<>>
  /\ at[c] = "greeting" => Quiet(c) \/ (session[c].at = "none" /\ link[c].up = <<"header">>)
  /\ at[c] \in {"prompt", "sending"} => Quiet(c)
  /\ at[c] = "sendingArgs" => HalfSent(c)
  /\ at[c] \in {"waiting", "dead"} /\ line[c] = OddLine => Quiet(c)
  /\ at[c] \in {"waiting", "exited", "dead"} /\ line[c] \in Proper => Requested(c)
  /\ at[c] = "dead" /\ line[c] = NoLine => Abandoned(c)

\* What the client has still to read: its session's answer, if anything.
Downward(c) ==
  /\ at[c] \notin {"greeting", "waiting"} => link[c].down = <<>>
  /\ at[c] = "greeting" => link[c].down = IF session[c].at = "none" THEN <<>> ELSE <<"header">>
  /\ at[c] = "waiting" =>
       \/ link[c].down = <<>>
       \/ /\ link[c].down = <<session[c].reply>> /\ session[c].reply # NoReply
          /\ line[c] # OddLine /\ Quiet(c)
          /\ session[c].method = line[c].method /\ session[c].args = line[c].args

Exchange(c) == Ends(c) /\ Working(c) /\ Upward(c) /\ Downward(c)

\* The values the variables have besides.
Ranges ==
  /\ session \in [Clients -> SessionState]
  /\ running \in BOOLEAN /\ listening \in BOOLEAN
  /\ main \in Clients \cup {"accepting", "dead"}
  /\ count \in JavaInt /\ (SafeAmounts => count \in 0..Capacity)
  /\ at \in [Clients -> Stages]
  /\ line \in [Clients -> Lines]
  /\ typed \in [Clients -> Nat] /\ \A c \in Clients : typed[c] <= MaxLines[c]

\* The inductive invariant, for any amounts.
Inv == LinkShape /\ Ranges /\ \A c \in Clients : Exchange(c)
-----------------------------------------------------------------------------

\* What the streams do to the few objects they ever hold.
LEMMA Short ==
  /\ \A x : /\ Head(<<x>>) = x /\ Tail(<<x>>) = <<>> /\ <<x>> # <<>>
            /\ Append(<<>>, x) = <<x>> /\ Len(<<x>>) = 1
  /\ \A x, y : /\ Head(<<x, y>>) = x /\ Tail(<<x, y>>) = <<y>> /\ <<x, y>> # <<>>
               /\ Append(<<x>>, y) = <<x, y>> /\ Len(<<x, y>>) = 2
  /\ Len(<<>>) = 0
<1>1. ASSUME NEW x
      PROVE  /\ Head(<<x>>) = x /\ Tail(<<x>>) = <<>> /\ <<x>> # <<>>
             /\ Append(<<>>, x) = <<x>> /\ Len(<<x>>) = 1
  OBVIOUS
<1>2. ASSUME NEW x, NEW y
      PROVE  /\ Head(<<x, y>>) = x /\ Tail(<<x, y>>) = <<y>> /\ <<x, y>> # <<>>
             /\ Append(<<x>>, y) = <<x, y>> /\ Len(<<x, y>>) = 2
  <2>1. Head(<<x, y>>) = x /\ <<x, y>> # <<>> /\ Len(<<x, y>>) = 2
    OBVIOUS
  <2>2. Tail(<<x, y>>) = <<y>>
    OBVIOUS
  <2>3. Append(<<x>>, y) = <<x, y>>
    <3>1. <<x>> \in Seq({x, y}) /\ <<x, y>> \in Seq({x, y}) /\ y \in {x, y}
      OBVIOUS
    <3>2. Append(<<x>>, y) \in Seq({x, y}) /\ Len(Append(<<x>>, y)) = 2
      BY <3>1
    <3>3. Append(<<x>>, y)[1] = x /\ Append(<<x>>, y)[2] = y
      BY <3>1
    <3>4. \A i \in 1..2 : Append(<<x>>, y)[i] = <<x, y>>[i]
      BY <3>3
    <3>5. QED
      BY <3>1, <3>2, <3>4, SeqEqual
  <2>4. QED
    BY <2>1, <2>2, <2>3
<1>3. Len(<<>>) = 0
  OBVIOUS
<1>4. QED
  BY <1>1, <1>2, <1>3

\* Wrapping brings the sum or difference of two ints back into the range.
LEMMA WrapInRange ==
  ASSUME NEW x \in JavaInt, NEW y \in JavaInt
  PROVE  Wrap(x + y) \in JavaInt /\ Wrap(x - y) \in JavaInt
<1>1. MaxInt \in Nat \ {0}
  BY JavaIntsAssumption
<1>2. ASSUME NEW z \in Int, z >= -2 * MaxInt - 2, z <= 2 * MaxInt + 1
      PROVE  Wrap(z) \in JavaInt
  BY <1>1, <1>2 DEF Wrap, JavaInt
<1>3. x + y \in Int /\ x + y >= -2 * MaxInt - 2 /\ x + y <= 2 * MaxInt + 1
  BY <1>1 DEF JavaInt
<1>4. x - y \in Int /\ x - y >= -2 * MaxInt - 2 /\ x - y <= 2 * MaxInt + 1
  BY <1>1 DEF JavaInt
<1>5. QED
  BY <1>2, <1>3, <1>4

\* With safe amounts no sum that the lot evaluates overflows.
LEMMA SafeArithmetic ==
  ASSUME SafeAmounts, count \in 0..Capacity
  PROVE  /\ \A n \in Amounts : /\ n \in Nat
                              /\ Wrap(count + n) = count + n
                              /\ Wrap(count - n) = count - n
         /\ Wrap(Capacity - count) = Capacity - count
<1>1. MaxInt \in Nat \ {0} /\ Capacity \in 0..MaxInt /\ Amounts \subseteq JavaInt
  BY JavaIntsAssumption, RpcServerAssumption
<1>2. \A z \in Int : z >= -MaxInt - 1 /\ z <= MaxInt => Wrap(z) = z
  BY <1>1 DEF Wrap
<1>3. ASSUME NEW n \in Amounts
      PROVE  n \in Nat /\ Wrap(count + n) = count + n /\ Wrap(count - n) = count - n
  <2>1. n \in Int /\ n >= 0 /\ n + Capacity <= MaxInt
    BY <1>1 DEF SafeAmounts, JavaInt
  <2>2. count + n \in Int /\ count + n >= -MaxInt - 1 /\ count + n <= MaxInt
    BY <1>1, <2>1
  <2>3. count - n \in Int /\ count - n >= -MaxInt - 1 /\ count - n <= MaxInt
    BY <1>1, <2>1
  <2>4. QED
    BY <1>2, <2>1, <2>2, <2>3
<1>4. Capacity - count \in Int /\ Capacity - count >= -MaxInt - 1 /\ Capacity - count <= MaxInt
  BY <1>1
<1>5. QED
  BY <1>2, <1>3, <1>4

\* The fields of lines and answers.
LEMMA LineFacts ==
  /\ \A l \in Proper \cup BadNumber : l.method \in Words
  /\ \A l \in Proper : l.args \in Args /\ l \notin BadNumber
  /\ OddLine \notin Proper \cup BadNumber /\ NoLine \notin Proper \cup BadNumber
  /\ NoLine # OddLine /\ OddLine.method = "odd" /\ NoLine.method = "none"
  /\ NoReply \notin Reply
<1>1. Methods \subseteq {"free", "hello", "hashCode", "notify", "exit"} /\ NotANumber \notin Amounts
  BY RpcClientAssumption
<1>2. \A l \in Proper : l \notin BadNumber
  BY <1>1 DEF Proper, BadNumber
<1>3. QED
  BY <1>1, <1>2 DEF Proper, BadNumber, Words, Args, OddLine, NoLine, NoReply, Reply

LEMMA InitInv == SimInit => Inv
<1> SUFFICES ASSUME SimInit PROVE Inv
  OBVIOUS
<1> USE DEF SimInit, Init, ServerInit, ClientInit
<1>1. LinkShape
  BY DEF LinkShape
<1>2. NoSession \in SessionState
  BY DEF NoSession, SessionState, Words, Args, NoReply
<1>3. Ranges
  BY <1>2, RpcServerAssumption, RpcClientAssumption, JavaIntsAssumption DEF Ranges, Stages, Lines, JavaInt
<1>4. ASSUME NEW c \in Clients PROVE Exchange(c)
  <2>1. /\ at[c] = "dialling" /\ line[c] = NoLine /\ session[c].at = "none" /\ main # c
        /\ link[c].client = "unused" /\ link[c].server = "unused"
        /\ link[c].up = <<>> /\ link[c].down = <<>>
    BY RpcServerAssumption DEF NoSession
  <2>2. QED
    BY <2>1 DEF Exchange, Ends, Working, Upward, Downward, Over
<1>5. QED
  BY <1>1, <1>3, <1>4 DEF Inv

\* A step that sets fields of one link.
LEMMA LinkFacts ==
  ASSUME LinkShape
  PROVE  /\ DOMAIN link = Clients
         /\ \A d \in Clients : link[d] = [client |-> link[d].client, server |-> link[d].server,
                                          up |-> link[d].up, down |-> link[d].down]
BY DEF LinkShape

LEMMA Relink ==
  ASSUME LinkShape, NEW c \in Clients, DOMAIN link' = Clients,
         \A d \in Clients : d # c => link'[d] = link[d],
         link' = [d \in Clients |-> link'[d]],
         link'[c] = [client |-> link'[c].client, server |-> link'[c].server,
                     up |-> link'[c].up, down |-> link'[c].down]
  PROVE  LinkShape'
<1>1. \A d \in Clients : link'[d] = [client |-> link'[d].client, server |-> link'[d].server,
                                     up |-> link'[d].up, down |-> link'[d].down]
  BY LinkFacts
<1>2. QED
  BY <1>1 DEF LinkShape

\* What one client or its session does leaves the others alone.
LEMMA OthersKeep ==
  ASSUME Inv, NEW c \in Clients, LinkShape', Ranges',
         \A d \in Clients : d # c => /\ link'[d] = link[d] /\ session'[d] = session[d]
                                     /\ at'[d] = at[d] /\ line'[d] = line[d]
                                     /\ (main' = d => main = d),
         Exchange(c)'
  PROVE  Inv'
<1> SUFFICES ASSUME NEW d \in Clients, d # c PROVE Exchange(d)'
  BY DEF Inv
<1>1. Exchange(d)
  BY DEF Inv
<1>2. Ends(d)' /\ Working(d)'
  BY <1>1 DEF Exchange, Ends, Working
<1>3. Upward(d)'
  BY <1>1 DEF Exchange, Upward, Quiet, HalfSent, Requested, Abandoned
<1>4. Downward(d)'
  BY <1>1 DEF Exchange, Downward, Quiet
<1>5. QED
  BY <1>2, <1>3, <1>4 DEF Exchange

\* Ends of links that close, and sessions that end, are all the same to the
\* exchanges, wherever they are.
LEMMA ClosingKeeps ==
  ASSUME Inv, LinkShape', Ranges', UNCHANGED clientVars,
         \A d \in Clients :
           /\ link'[d].client = link[d].client
           /\ link'[d].up = link[d].up /\ link'[d].down = link[d].down
           /\ \/ link'[d].server = link[d].server
              \/ link[d].server # "unused" /\ link'[d].server = "closed"
           /\ session'[d].method = session[d].method /\ session'[d].args = session[d].args
           /\ session'[d].reply = session[d].reply
           /\ \/ session'[d].at = session[d].at
              \/ session[d].at # "none" /\ session'[d].at = "ended"
           /\ (main' = d => main = d)
  PROVE  Inv'
<1> SUFFICES ASSUME NEW d \in Clients PROVE Exchange(d)'
  BY DEF Inv
<1>1. Exchange(d) /\ at' = at /\ line' = line
  BY DEF Inv, clientVars
<1>2. session[d].at \in {"none", "reading", "args", "invoking", "replying", "ended"}
  BY DEF Inv, Ranges, SessionState
<1>3. Ends(d)' /\ Working(d)'
  BY <1>1 DEF Exchange, Ends, Working
<1>4. /\ Quiet(d) => Quiet(d)'
      /\ HalfSent(d) => HalfSent(d)'
      /\ Abandoned(d) => Abandoned(d)'
  BY <1>1 DEF Quiet, HalfSent, Abandoned
<1>5. Requested(d) => Requested(d)'
  BY <1>1, <1>2 DEF Requested
<1>6. Upward(d)'
  BY <1>1, <1>2, <1>4, <1>5 DEF Exchange, Upward
<1>7. Downward(d)'
  BY <1>1, <1>2, <1>4 DEF Exchange, Downward
<1>8. QED
  BY <1>3, <1>6, <1>7 DEF Exchange

\* A client may end wherever it is.
LEMMA EndKeeps ==
  ASSUME Inv, NEW c \in Clients, at[c] \notin Over, End(c, "dead"), UNCHANGED serverVars
  PROVE  Inv'
<1> USE DEF End, Goto, CloseClient
<1>1. LinkShape /\ Ranges /\ Exchange(c)
  BY DEF Inv
<1>2. /\ LinkShape'
      /\ link'[c].client = "closed" /\ link'[c].server = link[c].server
      /\ link'[c].up = link[c].up /\ link'[c].down = <<>>
      /\ \A d \in Clients : d # c => link'[d] = link[d]
  <2>1. /\ DOMAIN link = Clients
        /\ link[c] = [client |-> link[c].client, server |-> link[c].server,
                      up |-> link[c].up, down |-> link[c].down]
    BY <1>1, LinkFacts
  <2>2. link'[c] = [client |-> "closed", server |-> link[c].server, up |-> link[c].up, down |-> <<>>]
    BY <2>1
  <2>3. /\ link'[c].client = "closed" /\ link'[c].server = link[c].server
        /\ link'[c].up = link[c].up /\ link'[c].down = <<>>
    BY <2>2
  <2>4. link'[c] = [client |-> link'[c].client, server |-> link'[c].server,
                    up |-> link'[c].up, down |-> link'[c].down]
    BY <2>2, <2>3
  <2>5. /\ DOMAIN link' = Clients /\ link' = [d \in Clients |-> link'[d]]
        /\ \A d \in Clients : d # c => link'[d] = link[d]
    BY <2>1
  <2>6. QED
    BY <1>1, <2>3, <2>4, <2>5, Relink
<1>3. /\ at'[c] = "dead" /\ line'[c] = IF at[c] = "waiting" THEN line[c] ELSE NoLine
      /\ \A d \in Clients : d # c => at'[d] = at[d] /\ line'[d] = line[d]
  BY <1>1 DEF Ranges
<1>4. Ranges'
  BY <1>1 DEF Ranges, serverVars, Stages, Over, Lines
<1> HIDE DEF End, Goto, CloseClient
<1>5. session' = session /\ main' = main
  BY DEF serverVars
<1>6. Ends(c)' /\ Working(c)'
  BY <1>1, <1>2, <1>3, <1>5, LineFacts DEF Exchange, Ends, Working, Over, Ranges, Stages
<1>7. Upward(c)'
  <2>1. CASE at[c] = "waiting"
    <3>1. line'[c] = line[c] /\ line[c] \in Proper \cup {OddLine}
      BY <1>1, <1>3, <2>1 DEF Exchange, Working
    <3>2. line[c] \in Proper => Requested(c)'
      BY <1>1, <1>2, <1>5, <2>1, <3>1 DEF Exchange, Upward, Requested
    <3>3. line[c] = OddLine => Quiet(c)'
      BY <1>1, <1>2, <1>5, <2>1 DEF Exchange, Upward, Quiet
    <3>4. QED
      BY <1>3, <3>1, <3>2, <3>3, LineFacts DEF Upward
  <2>2. CASE at[c] # "waiting"
    <3>1. line'[c] = NoLine
      BY <1>3, <2>2
    <3>2. Abandoned(c)
      <4>1. at[c] \in {"dialling", "connected", "greeting", "prompt", "sending", "sendingArgs"}
        BY <1>1, <2>2 DEF Ranges, Stages
      <4>2. at[c] = "sendingArgs" => line[c].method \in Words
        BY <1>1, LineFacts DEF Exchange, Working
      <4>3. CASE at[c] = "sendingArgs"
        BY <1>1, <4>2, <4>3 DEF Exchange, Upward, HalfSent, Abandoned
      <4>4. CASE at[c] # "sendingArgs"
        BY <1>1, <4>1, <4>4 DEF Exchange, Upward, Quiet, Abandoned
      <4>5. QED
        BY <4>3, <4>4
    <3>3. Abandoned(c)'
      BY <1>2, <1>5, <3>2 DEF Abandoned
    <3>4. QED
      BY <1>3, <3>1, <3>3, LineFacts DEF Upward
  <2>3. QED
    BY <2>1, <2>2
<1>8. Downward(c)'
  BY <1>2, <1>3 DEF Downward
<1>9. Exchange(c)'
  BY <1>6, <1>7, <1>8 DEF Exchange
<1>10. QED
  BY <1>2, <1>3, <1>4, <1>5, <1>9, OthersKeep

LEMMA DialKeeps ==
  ASSUME Inv, NEW c \in Clients, Dial(c), UNCHANGED serverVars
  PROVE  Inv'
<1> USE DEF Dial, Goto, Connect
<1>1. LinkShape /\ Ranges /\ Exchange(c)
  BY DEF Inv
<1>2. /\ LinkShape'
      /\ link'[c].client = "open" /\ link'[c].server = "backlog"
      /\ link'[c].up = link[c].up /\ link'[c].down = link[c].down
      /\ \A d \in Clients : d # c => link'[d] = link[d]
  <2>1. /\ DOMAIN link = Clients
        /\ link[c] = [client |-> link[c].client, server |-> link[c].server,
                      up |-> link[c].up, down |-> link[c].down]
    BY <1>1, LinkFacts
  <2>2. link'[c] = [client |-> "open", server |-> "backlog", up |-> link[c].up, down |-> link[c].down]
    BY <2>1
  <2>3. /\ link'[c].client = "open" /\ link'[c].server = "backlog"
        /\ link'[c].up = link[c].up /\ link'[c].down = link[c].down
    BY <2>2
  <2>4. link'[c] = [client |-> link'[c].client, server |-> link'[c].server,
                    up |-> link'[c].up, down |-> link'[c].down]
    BY <2>2, <2>3
  <2>5. /\ DOMAIN link' = Clients /\ link' = [d \in Clients |-> link'[d]]
        /\ \A d \in Clients : d # c => link'[d] = link[d]
    BY <2>1
  <2>6. QED
    BY <1>1, <2>3, <2>4, <2>5, Relink
<1>3. /\ at'[c] = "connected" /\ line'[c] = line[c]
      /\ \A d \in Clients : d # c => at'[d] = at[d] /\ line'[d] = line[d]
  BY <1>1 DEF Ranges
<1>4. Ranges'
  BY <1>1 DEF Ranges, serverVars, Stages, Over, Lines
<1>5. /\ at[c] = "dialling" /\ link[c].server = "unused"
      /\ session[c].at = "none" /\ main # c /\ link[c].up = <<>> /\ link[c].down = <<>>
  BY <1>1 DEF Exchange, Ends, Upward, Downward
<1>6. session' = session /\ main' = main
  BY DEF serverVars
<1>7. Ends(c)' /\ Working(c)'
  BY <1>1, <1>2, <1>3, <1>5, <1>6, LineFacts DEF Exchange, Ends, Working, Over
<1>8. Upward(c)'
  BY <1>1, <1>2, <1>3, <1>5, <1>6, LineFacts DEF Exchange, Upward, Quiet, HalfSent, Requested, Abandoned, Working
<1>9. Downward(c)'
  BY <1>1, <1>2, <1>3, <1>5, <1>6, LineFacts DEF Exchange, Downward, Upward, Quiet, Working, Over
<1>10. Exchange(c)'
  BY <1>7, <1>8, <1>9 DEF Exchange
<1>11. QED
  BY <1>2, <1>3, <1>4, <1>6, <1>10, OthersKeep

LEMMA SendHeaderKeeps ==
  ASSUME Inv, NEW c \in Clients, SendHeader(c), UNCHANGED serverVars
  PROVE  Inv'
<1> USE DEF SendHeader, Goto, SendUp
<1>1. LinkShape /\ Ranges /\ Exchange(c)
  BY DEF Inv
<1>2. /\ LinkShape'
      /\ link'[c].client = link[c].client /\ link'[c].server = link[c].server
      /\ link'[c].up = Append(link[c].up, "header") /\ link'[c].down = link[c].down
      /\ \A d \in Clients : d # c => link'[d] = link[d]
  <2>1. /\ DOMAIN link = Clients
        /\ link[c] = [client |-> link[c].client, server |-> link[c].server,
                      up |-> link[c].up, down |-> link[c].down]
    BY <1>1, LinkFacts
  <2>2. link'[c] = [client |-> link[c].client, server |-> link[c].server, up |-> Append(link[c].up, "header"), down |-> link[c].down]
    BY <2>1
  <2>3. /\ link'[c].client = link[c].client /\ link'[c].server = link[c].server
        /\ link'[c].up = Append(link[c].up, "header") /\ link'[c].down = link[c].down
    BY <2>2
  <2>4. link'[c] = [client |-> link'[c].client, server |-> link'[c].server,
                    up |-> link'[c].up, down |-> link'[c].down]
    BY <2>2, <2>3
  <2>5. /\ DOMAIN link' = Clients /\ link' = [d \in Clients |-> link'[d]]
        /\ \A d \in Clients : d # c => link'[d] = link[d]
    BY <2>1
  <2>6. QED
    BY <1>1, <2>3, <2>4, <2>5, Relink
<1>3. /\ at'[c] = "greeting" /\ line'[c] = line[c]
      /\ \A d \in Clients : d # c => at'[d] = at[d] /\ line'[d] = line[d]
  BY <1>1 DEF Ranges
<1>4. Ranges'
  BY <1>1 DEF Ranges, serverVars, Stages, Over, Lines
<1>5. at[c] = "connected" /\ session[c].at = "none" /\ link'[c].up = <<"header">> /\ link[c].down = <<>>
  BY <1>1, <1>2, Short DEF Exchange, Upward, Downward
<1>6. session' = session /\ main' = main
  BY DEF serverVars
<1>7. Ends(c)' /\ Working(c)'
  BY <1>1, <1>2, <1>3, <1>5, <1>6, LineFacts DEF Exchange, Ends, Working, Over
<1>8. Upward(c)'
  BY <1>1, <1>2, <1>3, <1>5, <1>6, LineFacts DEF Exchange, Upward, Quiet, HalfSent, Requested, Abandoned, Working
<1>9. Downward(c)'
  BY <1>1, <1>2, <1>3, <1>5, <1>6, LineFacts DEF Exchange, Downward, Upward, Quiet, Working, Over
<1>10. Exchange(c)'
  BY <1>7, <1>8, <1>9 DEF Exchange
<1>11. QED
  BY <1>2, <1>3, <1>4, <1>6, <1>10, OthersKeep

LEMMA ReadHeaderKeeps ==
  ASSUME Inv, NEW c \in Clients, ReadHeader(c), UNCHANGED serverVars
  PROVE  Inv'
<1> USE DEF ReadHeader, Goto, ReadDown
<1>1. LinkShape /\ Ranges /\ Exchange(c)
  BY DEF Inv
<1>2. /\ LinkShape'
      /\ link'[c].client = link[c].client /\ link'[c].server = link[c].server
      /\ link'[c].up = link[c].up /\ link'[c].down = Tail(link[c].down)
      /\ \A d \in Clients : d # c => link'[d] = link[d]
  <2>1. /\ DOMAIN link = Clients
        /\ link[c] = [client |-> link[c].client, server |-> link[c].server,
                      up |-> link[c].up, down |-> link[c].down]
    BY <1>1, LinkFacts
  <2>2. link'[c] = [client |-> link[c].client, server |-> link[c].server, up |-> link[c].up, down |-> Tail(link[c].down)]
    BY <2>1
  <2>3. /\ link'[c].client = link[c].client /\ link'[c].server = link[c].server
        /\ link'[c].up = link[c].up /\ link'[c].down = Tail(link[c].down)
    BY <2>2
  <2>4. link'[c] = [client |-> link'[c].client, server |-> link'[c].server,
                    up |-> link'[c].up, down |-> link'[c].down]
    BY <2>2, <2>3
  <2>5. /\ DOMAIN link' = Clients /\ link' = [d \in Clients |-> link'[d]]
        /\ \A d \in Clients : d # c => link'[d] = link[d]
    BY <2>1
  <2>6. QED
    BY <1>1, <2>3, <2>4, <2>5, Relink
<1>3. /\ at'[c] = "prompt" /\ line'[c] = line[c]
      /\ \A d \in Clients : d # c => at'[d] = at[d] /\ line'[d] = line[d]
  BY <1>1 DEF Ranges
<1>4. Ranges'
  BY <1>1 DEF Ranges, serverVars, Stages, Over, Lines
<1>5. at[c] = "greeting" /\ Quiet(c) /\ link'[c].down = <<>>
  <2>1. link[c].down = <<"header">> /\ session[c].at # "none"
    BY <1>1 DEF Exchange, Downward
  <2>2. QED
    BY <1>1, <1>2, <2>1, Short DEF Exchange, Upward
<1>6. session' = session /\ main' = main
  BY DEF serverVars
<1>7. Ends(c)' /\ Working(c)'
  BY <1>1, <1>2, <1>3, <1>5, <1>6, LineFacts DEF Exchange, Ends, Working, Over
<1>8. Upward(c)'
  BY <1>1, <1>2, <1>3, <1>5, <1>6, LineFacts DEF Exchange, Upward, Quiet, HalfSent, Requested, Abandoned, Working
<1>9. Downward(c)'
  BY <1>1, <1>2, <1>3, <1>5, <1>6, LineFacts DEF Exchange, Downward, Upward, Quiet, Working, Over
<1>10. Exchange(c)'
  BY <1>7, <1>8, <1>9 DEF Exchange
<1>11. QED
  BY <1>2, <1>3, <1>4, <1>6, <1>10, OthersKeep

LEMMA TypeKeeps ==
  ASSUME Inv, NEW c \in Clients, NEW l \in Proper \cup BadNumber \cup {OddLine}, Type(c, l), UNCHANGED serverVars
  PROVE  Inv'
<1> USE DEF Type, Goto
<1>1. LinkShape /\ Ranges /\ Exchange(c)
  BY DEF Inv
<1>2. /\ LinkShape' /\ link' = link
  BY <1>1 DEF LinkShape
<1>3. /\ at'[c] = (IF l = OddLine THEN "waiting" ELSE "sending") /\ line'[c] = l
      /\ \A d \in Clients : d # c => at'[d] = at[d] /\ line'[d] = line[d]
  BY <1>1 DEF Ranges
<1>4. Ranges'
  BY <1>1, RpcClientAssumption DEF Ranges, serverVars, Stages, Over, Lines
<1>5. at[c] = "prompt" /\ Quiet(c) /\ link[c].down = <<>> /\ (l = OddLine => l.method # "exit")
  BY <1>1, LineFacts DEF Exchange, Upward, Downward
<1>6. session' = session /\ main' = main
  BY DEF serverVars
<1>7. Ends(c)' /\ Working(c)'
  BY <1>1, <1>2, <1>3, <1>5, <1>6, LineFacts DEF Exchange, Ends, Working, Over
<1>8. Upward(c)'
  BY <1>1, <1>2, <1>3, <1>5, <1>6, LineFacts DEF Exchange, Upward, Quiet, HalfSent, Requested, Abandoned, Working
<1>9. Downward(c)'
  BY <1>1, <1>2, <1>3, <1>5, <1>6, LineFacts DEF Exchange, Downward, Upward, Quiet, Working, Over
<1>10. Exchange(c)'
  BY <1>7, <1>8, <1>9 DEF Exchange
<1>11. QED
  BY <1>2, <1>3, <1>4, <1>6, <1>10, OthersKeep

LEMMA SendMethodKeeps ==
  ASSUME Inv, NEW c \in Clients, SendMethod(c), UNCHANGED serverVars
  PROVE  Inv'
<1> USE DEF SendMethod, Goto, SendUp
<1>1. LinkShape /\ Ranges /\ Exchange(c)
  BY DEF Inv
<1>2. /\ LinkShape'
      /\ link'[c].client = link[c].client /\ link'[c].server = link[c].server
      /\ link'[c].up = Append(link[c].up, line[c].method) /\ link'[c].down = link[c].down
      /\ \A d \in Clients : d # c => link'[d] = link[d]
  <2>1. /\ DOMAIN link = Clients
        /\ link[c] = [client |-> link[c].client, server |-> link[c].server,
                      up |-> link[c].up, down |-> link[c].down]
    BY <1>1, LinkFacts
  <2>2. link'[c] = [client |-> link[c].client, server |-> link[c].server, up |-> Append(link[c].up, line[c].method), down |-> link[c].down]
    BY <2>1
  <2>3. /\ link'[c].client = link[c].client /\ link'[c].server = link[c].server
        /\ link'[c].up = Append(link[c].up, line[c].method) /\ link'[c].down = link[c].down
    BY <2>2
  <2>4. link'[c] = [client |-> link'[c].client, server |-> link'[c].server,
                    up |-> link'[c].up, down |-> link'[c].down]
    BY <2>2, <2>3
  <2>5. /\ DOMAIN link' = Clients /\ link' = [d \in Clients |-> link'[d]]
        /\ \A d \in Clients : d # c => link'[d] = link[d]
    BY <2>1
  <2>6. QED
    BY <1>1, <2>3, <2>4, <2>5, Relink
<1>3. /\ at'[c] = "sendingArgs" /\ line'[c] = line[c]
      /\ \A d \in Clients : d # c => at'[d] = at[d] /\ line'[d] = line[d]
  BY <1>1 DEF Ranges
<1>4. Ranges'
  BY <1>1 DEF Ranges, serverVars, Stages, Over, Lines
<1>5. /\ at[c] = "sending" /\ line[c] \in Proper \cup BadNumber /\ link[c].down = <<>>
      /\ session[c].at \in {"reading", "ended"} /\ link'[c].up = <<line[c].method>>
  BY <1>1, <1>2, Short DEF Exchange, Upward, Downward, Quiet, Working
<1>6. session' = session /\ main' = main
  BY DEF serverVars
<1>7. Ends(c)' /\ Working(c)'
  BY <1>1, <1>2, <1>3, <1>5, <1>6, LineFacts DEF Exchange, Ends, Working, Over
<1>8. Upward(c)'
  BY <1>1, <1>2, <1>3, <1>5, <1>6, LineFacts DEF Exchange, Upward, Quiet, HalfSent, Requested, Abandoned, Working
<1>9. Downward(c)'
  BY <1>1, <1>2, <1>3, <1>5, <1>6, LineFacts DEF Exchange, Downward, Upward, Quiet, Working, Over
<1>10. Exchange(c)'
  BY <1>7, <1>8, <1>9 DEF Exchange
<1>11. QED
  BY <1>2, <1>3, <1>4, <1>6, <1>10, OthersKeep

LEMMA SendArgsKeeps ==
  ASSUME Inv, NEW c \in Clients, SendArgs(c), UNCHANGED serverVars
  PROVE  Inv'
<1> USE DEF SendArgs, Goto, SendUp
<1>1. LinkShape /\ Ranges /\ Exchange(c)
  BY DEF Inv
<1>2. /\ LinkShape'
      /\ link'[c].client = (IF line[c].method = "exit" THEN "closed" ELSE link[c].client) /\ link'[c].server = link[c].server
      /\ link'[c].up = Append(link[c].up, line[c].args) /\ link'[c].down = (IF line[c].method = "exit" THEN <<>> ELSE link[c].down)
      /\ \A d \in Clients : d # c => link'[d] = link[d]
  <2>1. /\ DOMAIN link = Clients
        /\ link[c] = [client |-> link[c].client, server |-> link[c].server,
                      up |-> link[c].up, down |-> link[c].down]
    BY <1>1, LinkFacts
  <2>2. link'[c] = [client |-> (IF line[c].method = "exit" THEN "closed" ELSE link[c].client), server |-> link[c].server, up |-> Append(link[c].up, line[c].args), down |-> (IF line[c].method = "exit" THEN <<>> ELSE link[c].down)]
    BY <2>1
  <2>3. /\ link'[c].client = (IF line[c].method = "exit" THEN "closed" ELSE link[c].client) /\ link'[c].server = link[c].server
        /\ link'[c].up = Append(link[c].up, line[c].args) /\ link'[c].down = (IF line[c].method = "exit" THEN <<>> ELSE link[c].down)
    BY <2>2
  <2>4. link'[c] = [client |-> link'[c].client, server |-> link'[c].server,
                    up |-> link'[c].up, down |-> link'[c].down]
    BY <2>2, <2>3
  <2>5. /\ DOMAIN link' = Clients /\ link' = [d \in Clients |-> link'[d]]
        /\ \A d \in Clients : d # c => link'[d] = link[d]
    BY <2>1
  <2>6. QED
    BY <1>1, <2>3, <2>4, <2>5, Relink
<1>3. /\ at'[c] = (IF line[c].method = "exit" THEN "exited" ELSE "waiting") /\ line'[c] = line[c]
      /\ \A d \in Clients : d # c => at'[d] = at[d] /\ line'[d] = line[d]
  BY <1>1 DEF Ranges
<1>4. Ranges'
  BY <1>1 DEF Ranges, serverVars, Stages, Over, Lines
<1>5. /\ at[c] = "sendingArgs" /\ line[c] \in Proper /\ link[c].down = <<>>
      /\ Requested(c)' 
  <2>1. at[c] = "sendingArgs" /\ line[c] \in Proper /\ link[c].down = <<>> /\ HalfSent(c)
    BY <1>1 DEF Exchange, Upward, Downward, Working
  <2>2. line'[c] = line[c] /\ session' = session
    BY <1>3 DEF serverVars
  <2>3. CASE session[c].at \in {"reading", "ended"} /\ link[c].up = <<line[c].method>>
    <3>1. link'[c].up = <<line[c].method, line[c].args>>
      BY <1>2, <2>3, Short
    <3>2. QED
      BY <2>1, <2>2, <2>3, <3>1 DEF Requested
  <2>4. CASE /\ session[c].at \in {"args", "ended"} /\ link[c].up = <<>>
             /\ session[c].method = line[c].method /\ session[c].reply = NoReply
    <3>1. link'[c].up = <<line[c].args>>
      BY <1>2, <2>4, Short
    <3>2. QED
      BY <2>1, <2>2, <2>4, <3>1 DEF Requested
  <2>5. QED
    BY <2>1, <2>3, <2>4 DEF HalfSent
<1>6. session' = session /\ main' = main
  BY DEF serverVars
<1>7. Ends(c)' /\ Working(c)'
  BY <1>1, <1>2, <1>3, <1>5, <1>6, LineFacts DEF Exchange, Ends, Working, Over
<1>8. Upward(c)'
  BY <1>1, <1>2, <1>3, <1>5, <1>6, LineFacts DEF Exchange, Upward, Quiet, HalfSent, Requested, Abandoned, Working
<1>9. Downward(c)'
  BY <1>1, <1>2, <1>3, <1>5, <1>6, LineFacts DEF Exchange, Downward, Upward, Quiet, Working, Over
<1>10. Exchange(c)'
  BY <1>7, <1>8, <1>9 DEF Exchange
<1>11. QED
  BY <1>2, <1>3, <1>4, <1>6, <1>10, OthersKeep

LEMMA ReceiveKeeps ==
  ASSUME Inv, NEW c \in Clients, Receive(c), UNCHANGED serverVars
  PROVE  Inv'
<1> USE DEF Receive, Goto, ReadDown
<1>1. LinkShape /\ Ranges /\ Exchange(c)
  BY DEF Inv
<1>2. /\ LinkShape'
      /\ link'[c].client = link[c].client /\ link'[c].server = link[c].server
      /\ link'[c].up = link[c].up /\ link'[c].down = Tail(link[c].down)
      /\ \A d \in Clients : d # c => link'[d] = link[d]
  <2>1. /\ DOMAIN link = Clients
        /\ link[c] = [client |-> link[c].client, server |-> link[c].server,
                      up |-> link[c].up, down |-> link[c].down]
    BY <1>1, LinkFacts
  <2>2. link'[c] = [client |-> link[c].client, server |-> link[c].server, up |-> link[c].up, down |-> Tail(link[c].down)]
    BY <2>1
  <2>3. /\ link'[c].client = link[c].client /\ link'[c].server = link[c].server
        /\ link'[c].up = link[c].up /\ link'[c].down = Tail(link[c].down)
    BY <2>2
  <2>4. link'[c] = [client |-> link'[c].client, server |-> link'[c].server,
                    up |-> link'[c].up, down |-> link'[c].down]
    BY <2>2, <2>3
  <2>5. /\ DOMAIN link' = Clients /\ link' = [d \in Clients |-> link'[d]]
        /\ \A d \in Clients : d # c => link'[d] = link[d]
    BY <2>1
  <2>6. QED
    BY <1>1, <2>3, <2>4, <2>5, Relink
<1>3. /\ at'[c] = "prompt" /\ line'[c] = NoLine
      /\ \A d \in Clients : d # c => at'[d] = at[d] /\ line'[d] = line[d]
  BY <1>1 DEF Ranges
<1>4. Ranges'
  BY <1>1 DEF Ranges, serverVars, Stages, Over, Lines
<1>5. at[c] = "waiting" /\ Quiet(c) /\ link'[c].down = <<>>
  <2>1. Quiet(c) /\ link[c].down = <<session[c].reply>>
    BY <1>1 DEF Exchange, Downward
  <2>2. QED
    BY <1>2, <2>1, Short
<1>6. session' = session /\ main' = main
  BY DEF serverVars
<1>7. Ends(c)' /\ Working(c)'
  BY <1>1, <1>2, <1>3, <1>5, <1>6, LineFacts DEF Exchange, Ends, Working, Over
<1>8. Upward(c)'
  BY <1>1, <1>2, <1>3, <1>5, <1>6, LineFacts DEF Exchange, Upward, Quiet, HalfSent, Requested, Abandoned, Working
<1>9. Downward(c)'
  BY <1>1, <1>2, <1>3, <1>5, <1>6, LineFacts DEF Exchange, Downward, Upward, Quiet, Working, Over
<1>10. Exchange(c)'
  BY <1>7, <1>8, <1>9 DEF Exchange
<1>11. QED
  BY <1>2, <1>3, <1>4, <1>6, <1>10, OthersKeep

LEMMA ClientStepKeeps ==
  ASSUME Inv, NEW c \in Clients, ClientStep(c) \/ UserStep(c)
  PROVE  Inv'
<1>1. CASE Dial(c) \/ SendHeader(c) \/ ReadHeader(c) \/ SendMethod(c) \/ SendArgs(c) \/ Receive(c)
  BY <1>1, DialKeeps, SendHeaderKeeps, ReadHeaderKeeps, SendMethodKeeps, SendArgsKeeps, ReceiveKeeps
     DEF ClientStep, UserStep
<1>2. CASE \E l \in Proper \cup BadNumber \cup {OddLine} : Type(c, l)
  BY <1>2, TypeKeeps DEF ClientStep, UserStep
<1>3. CASE Refused(c) \/ SendThrows(c) \/ NumberThrows(c) \/ CastThrows(c) \/ ReadThrows(c)
             \/ EndOfInput(c) \/ Kill(c)
  BY <1>3, EndKeeps DEF ClientStep, UserStep, Refused, SendThrows, NumberThrows, CastThrows,
     ReadThrows, EndOfInput, Kill, Over
<1>4. QED
  BY <1>1, <1>2, <1>3 DEF ClientStep, UserStep, Proceed
-----------------------------------------------------------------------------
LEMMA CloseFacts ==
  ASSUME LinkShape,
         \E C \in SUBSET Clients : CloseServer(C)
  PROVE  /\ LinkShape'
         /\ \A d \in Clients :
              /\ link'[d].client = link[d].client
              /\ link'[d].up = link[d].up /\ link'[d].down = link[d].down
              /\ \/ link'[d].server = link[d].server
                 \/ link[d].server # "unused" /\ link'[d].server = "closed"
<1>1. PICK C \in SUBSET Clients : CloseServer(C)
  OBVIOUS
<1>2. /\ link' = [d \in Clients |-> link'[d]]
      /\ \A d \in Clients : \/ link'[d] = link[d]
                            \/ /\ link[d].server \in {"backlog", "open"}
                               /\ link'[d] = [link[d] EXCEPT !.server = "closed"]
  BY <1>1 DEF CloseServer
<1>3. ASSUME NEW d \in Clients
      PROVE  /\ link'[d] = [client |-> link'[d].client, server |-> link'[d].server,
                            up |-> link'[d].up, down |-> link'[d].down]
             /\ link'[d].client = link[d].client
             /\ link'[d].up = link[d].up /\ link'[d].down = link[d].down
             /\ \/ link'[d].server = link[d].server
                \/ link[d].server # "unused" /\ link'[d].server = "closed"
  <2>1. link[d] = [client |-> link[d].client, server |-> link[d].server,
                   up |-> link[d].up, down |-> link[d].down]
    BY LinkFacts
  <2>2. CASE link'[d] = link[d]
    BY <2>1, <2>2
  <2>3. CASE /\ link[d].server \in {"backlog", "open"}
             /\ link'[d] = [link[d] EXCEPT !.server = "closed"]
    <3>1. link'[d] = [client |-> link[d].client, server |-> "closed",
                      up |-> link[d].up, down |-> link[d].down]
      BY <2>1, <2>3
    <3>2. QED
      BY <2>3, <3>1
  <2>4. QED
    BY <1>2, <2>2, <2>3
<1>4. LinkShape'
  BY <1>2, <1>3 DEF LinkShape
<1>5. QED
  BY <1>3, <1>4

\* The end of the server process.
LEMMA StopKeeps ==
  ASSUME Inv, Stop, UNCHANGED clientVars
  PROVE  Inv'
<1>1. LinkShape /\ Ranges /\ CloseServer(Clients)
  BY DEF Inv, Stop
<1>2. \E C \in SUBSET Clients : CloseServer(C)
  BY <1>1
<1>3. session' = [d \in Clients |-> IF Live(d) THEN [session[d] EXCEPT !.at = "ended"] ELSE session[d]]
  BY DEF Stop
<1>4. \A d \in Clients : /\ session'[d] \in SessionState
                         /\ session'[d].method = session[d].method /\ session'[d].args = session[d].args
                         /\ session'[d].reply = session[d].reply
                         /\ \/ session'[d].at = session[d].at
                            \/ session[d].at # "none" /\ session'[d].at = "ended"
  BY <1>1, <1>3 DEF Ranges, SessionState, Live
<1>5. Ranges'
  BY <1>1, <1>3, <1>4 DEF Ranges, Stop, clientVars
<1>6. QED
  BY <1>1, <1>2, <1>4, <1>5, CloseFacts, ClosingKeeps DEF Stop

\* The end of one session.
LEMMA EndSessionKeeps ==
  ASSUME Inv, NEW c \in Clients, session[c].at # "none", EndSession(c), UNCHANGED clientVars
  PROVE  Inv'
<1>1. LinkShape /\ Ranges /\ CloseServer({c})
  BY DEF Inv, EndSession
<1>2. \E C \in SUBSET Clients : CloseServer(C)
  BY <1>1
<1>3. session' = [session EXCEPT ![c].at = "ended"]
  BY DEF EndSession
<1>4. \A d \in Clients : /\ session'[d] \in SessionState
                         /\ session'[d].method = session[d].method /\ session'[d].args = session[d].args
                         /\ session'[d].reply = session[d].reply
                         /\ \/ session'[d].at = session[d].at
                            \/ session[d].at # "none" /\ session'[d].at = "ended"
  BY <1>1, <1>3 DEF Ranges, SessionState
<1>5. Ranges'
  BY <1>1, <1>3, <1>4 DEF Ranges, EndSession, clientVars
<1>6. QED
  BY <1>1, <1>2, <1>4, <1>5, CloseFacts, ClosingKeeps DEF EndSession

\* The ends of main.
LEMMA DeadMainKeeps ==
  ASSUME Inv, (\E c \in Clients : GreetFails(c)) \/ CollectListener, UNCHANGED clientVars
  PROVE  Inv'
<1>1. LinkShape /\ Ranges /\ session' = session
  BY DEF Inv, GreetFails, CollectListener
<1>2. Ranges' /\ \A d \in Clients : (main' = d => main = d)
  BY <1>1, RpcServerAssumption DEF Ranges, GreetFails, CollectListener, clientVars
<1>3. CASE link' = link
  <2>1. LinkShape'
    BY <1>1, <1>3 DEF LinkShape
  <2>2. QED
    BY <1>1, <1>2, <1>3, <2>1, ClosingKeeps
<1>4. CASE CollectListener
  <2>1. \E C \in SUBSET Clients : CloseServer(C)
    BY <1>4 DEF CollectListener
  <2>2. QED
    BY <1>1, <1>2, <2>1, CloseFacts, ClosingKeeps
<1>5. QED
  BY <1>3, <1>4 DEF GreetFails

LEMMA AcceptKeeps ==
  ASSUME Inv, NEW c \in Clients, Accept(c), UNCHANGED clientVars
  PROVE  Inv'
<1> USE DEF Accept
<1>1. LinkShape /\ Ranges /\ Exchange(c) /\ session \in [Clients -> SessionState]
  BY DEF Inv, Ranges
<1>2. /\ LinkShape'
      /\ link'[c].client = link[c].client /\ link'[c].server = "open"
      /\ link'[c].up = link[c].up /\ link'[c].down = link[c].down
      /\ \A d \in Clients : d # c => link'[d] = link[d]
  <2>1. /\ DOMAIN link = Clients
        /\ link[c] = [client |-> link[c].client, server |-> link[c].server,
                      up |-> link[c].up, down |-> link[c].down]
    BY <1>1, LinkFacts
  <2>2. link'[c] = [client |-> link[c].client, server |-> "open", up |-> link[c].up, down |-> link[c].down]
    BY <2>1
  <2>3. /\ link'[c].client = link[c].client /\ link'[c].server = "open"
        /\ link'[c].up = link[c].up /\ link'[c].down = link[c].down
    BY <2>2
  <2>4. link'[c] = [client |-> link'[c].client, server |-> link'[c].server,
                    up |-> link'[c].up, down |-> link'[c].down]
    BY <2>2, <2>3
  <2>5. /\ DOMAIN link' = Clients /\ link' = [d \in Clients |-> link'[d]]
        /\ \A d \in Clients : d # c => link'[d] = link[d]
    BY <2>1
  <2>6. QED
    BY <1>1, <2>3, <2>4, <2>5, Relink
<1>3. link[c].server = "backlog" /\ session[c].at = "none" /\ at[c] # "dialling"
  BY <1>1 DEF Exchange, Ends
<1>4. /\ session'[c].at = session[c].at /\ session'[c].method = session[c].method
      /\ session'[c].args = session[c].args /\ session'[c].reply = session[c].reply
      /\ \A d \in Clients : d # c => session'[d] = session[d]
      /\ session' \in [Clients -> SessionState]
  BY <1>1, <1>3 DEF SessionState
<1>5. Ranges'
  BY <1>1, <1>3, <1>4 DEF Ranges, clientVars
<1>6. at' = at /\ line' = line /\ main' = c /\ \A d \in Clients : d # c => (main' = d => main = d)
  BY <1>1, RpcServerAssumption DEF clientVars
<1>7. Ends(c)' /\ Working(c)'
  BY <1>1, <1>2, <1>3, <1>4, <1>6, RpcServerAssumption DEF Exchange, Ends, Working
<1>8. Upward(c)'
  BY <1>1, <1>2, <1>3, <1>4, <1>6, LineFacts DEF Exchange, Upward, Quiet, HalfSent, Requested, Abandoned, Working
<1>9. Downward(c)'
  BY <1>1, <1>2, <1>3, <1>4, <1>6, LineFacts DEF Exchange, Downward, Upward, Quiet, Working, Over
<1>10. Exchange(c)'
  BY <1>7, <1>8, <1>9 DEF Exchange
<1>11. QED
  BY <1>2, <1>4, <1>5, <1>6, <1>10, OthersKeep

LEMMA GreetKeeps ==
  ASSUME Inv, NEW c \in Clients, Greet(c), UNCHANGED clientVars
  PROVE  Inv'
<1> USE DEF Greet
<1>1. LinkShape /\ Ranges /\ Exchange(c) /\ session \in [Clients -> SessionState]
  BY DEF Inv, Ranges
<1>2. /\ LinkShape'
      /\ link'[c].client = link[c].client /\ link'[c].server = link[c].server
      /\ link'[c].up = Tail(link[c].up) /\ link'[c].down = (IF link[c].client = "open" THEN Append(link[c].down, "header") ELSE link[c].down)
      /\ \A d \in Clients : d # c => link'[d] = link[d]
  <2>1. /\ DOMAIN link = Clients
        /\ link[c] = [client |-> link[c].client, server |-> link[c].server,
                      up |-> link[c].up, down |-> link[c].down]
    BY <1>1, LinkFacts
  <2> DEFINE received == IF link[c].client = "open" THEN Append(link[c].down, "header") ELSE link[c].down
  <2>2. link'[c] = [client |-> link[c].client, server |-> link[c].server, up |-> Tail(link[c].up), down |-> received]
    BY <2>1
  <2> HIDE DEF received, Greet
  <2>3. /\ link'[c].client = link[c].client /\ link'[c].server = link[c].server
        /\ link'[c].up = Tail(link[c].up) /\ link'[c].down = received
    BY <2>2
  <2>4. link'[c] = [client |-> link'[c].client, server |-> link'[c].server,
                    up |-> link'[c].up, down |-> link'[c].down]
    BY <2>2, <2>3
  <2>5. /\ DOMAIN link' = Clients /\ link' = [d \in Clients |-> link'[d]]
        /\ \A d \in Clients : d # c => link'[d] = link[d]
    BY <2>1 DEF Greet
  <2>6. QED
    BY <1>1, <2>3, <2>4, <2>5, Relink DEF received
<1>3. /\ session[c].at = "none" /\ link[c].server \notin {"unused", "backlog"}
      /\ link[c].up = <<"header">> /\ link'[c].up = <<>>
      /\ \/ at[c] = "greeting" /\ link'[c].down = <<"header">>
         \/ at[c] = "dead" /\ line[c] = NoLine /\ link'[c].down = <<>>
  <2>1. session[c].at = "none" /\ link[c].server \notin {"unused", "backlog"} /\ link[c].up # <<>>
    BY <1>1 DEF Exchange, Ends
  <2>2. link[c].up = <<"header">> /\ (at[c] = "greeting" \/ (at[c] = "dead" /\ line[c] = NoLine))
    <3>1. at[c] \in {"greeting", "dead"}
      BY <1>1, <2>1 DEF Exchange, Upward, Quiet, HalfSent, Requested, Working, Ranges, Stages, Over
    <3>2. CASE at[c] = "greeting"
      BY <1>1, <2>1, <3>2 DEF Exchange, Upward, Quiet
    <3>3. CASE at[c] = "dead"
      BY <1>1, <2>1, <3>3 DEF Exchange, Upward, Quiet, Requested, Abandoned, Working
    <3>4. QED
      BY <3>1, <3>2, <3>3
  <2>3. link[c].down = <<>> /\ (at[c] = "greeting" => link[c].client = "open")
    BY <1>1, <2>1, <2>2 DEF Exchange, Downward, Ends, Over
  <2>4. at[c] = "dead" => link[c].client = "closed"
    BY <1>1 DEF Exchange, Ends, Over
  <2>5. link'[c].up = <<>>
    BY <1>2, <2>2, Short
  <2>6. link'[c].down = IF link[c].client = "open" THEN <<"header">> ELSE <<>>
    BY <1>2, <2>3, Short
  <2>7. QED
    BY <2>1, <2>2, <2>3, <2>4, <2>5, <2>6
<1>4. /\ session'[c].at = "reading" /\ session'[c].method = session[c].method
      /\ session'[c].args = session[c].args /\ session'[c].reply = session[c].reply
      /\ \A d \in Clients : d # c => session'[d] = session[d]
      /\ session' \in [Clients -> SessionState]
  BY <1>1, <1>3 DEF SessionState
<1>5. Ranges'
  BY <1>1, <1>3, <1>4 DEF Ranges, clientVars
<1>6. at' = at /\ line' = line /\ main' = "accepting" /\ \A d \in Clients : d # c => (main' = d => main = d)
  BY <1>1, RpcServerAssumption DEF clientVars
<1>7. Ends(c)' /\ Working(c)'
  BY <1>1, <1>2, <1>3, <1>4, <1>6, RpcServerAssumption DEF Exchange, Ends, Working
<1>8. Upward(c)'
  BY <1>1, <1>2, <1>3, <1>4, <1>6, LineFacts DEF Exchange, Upward, Quiet, HalfSent, Requested, Abandoned, Working
<1>9. Downward(c)'
  BY <1>1, <1>2, <1>3, <1>4, <1>6, LineFacts DEF Exchange, Downward, Upward, Quiet, Working, Over
<1>10. Exchange(c)'
  BY <1>7, <1>8, <1>9 DEF Exchange
<1>11. QED
  BY <1>2, <1>4, <1>5, <1>6, <1>10, OthersKeep

LEMMA ReadMethodKeeps ==
  ASSUME Inv, NEW c \in Clients, ReadMethod(c), UNCHANGED clientVars
  PROVE  Inv'
<1> USE DEF ReadMethod, ReadUp
<1>1. LinkShape /\ Ranges /\ Exchange(c) /\ session \in [Clients -> SessionState]
  BY DEF Inv, Ranges
<1>2. /\ LinkShape'
      /\ link'[c].client = link[c].client /\ link'[c].server = link[c].server
      /\ link'[c].up = Tail(link[c].up) /\ link'[c].down = link[c].down
      /\ \A d \in Clients : d # c => link'[d] = link[d]
  <2>1. /\ DOMAIN link = Clients
        /\ link[c] = [client |-> link[c].client, server |-> link[c].server,
                      up |-> link[c].up, down |-> link[c].down]
    BY <1>1, LinkFacts
  <2>2. link'[c] = [client |-> link[c].client, server |-> link[c].server, up |-> Tail(link[c].up), down |-> link[c].down]
    BY <2>1
  <2>3. /\ link'[c].client = link[c].client /\ link'[c].server = link[c].server
        /\ link'[c].up = Tail(link[c].up) /\ link'[c].down = link[c].down
    BY <2>2
  <2>4. link'[c] = [client |-> link'[c].client, server |-> link'[c].server,
                    up |-> link'[c].up, down |-> link'[c].down]
    BY <2>2, <2>3
  <2>5. /\ DOMAIN link' = Clients /\ link' = [d \in Clients |-> link'[d]]
        /\ \A d \in Clients : d # c => link'[d] = link[d]
    BY <2>1
  <2>6. QED
    BY <1>1, <2>3, <2>4, <2>5, Relink
<1>3. /\ session[c].at = "reading" /\ link[c].down = <<>>
      /\ Head(link[c].up) \in Words
      /\ \/ /\ at[c] \in {"sendingArgs"} /\ line[c] \in Proper \cup BadNumber
            /\ Head(link[c].up) = line[c].method /\ link'[c].up = <<>>
         \/ /\ at[c] \in {"waiting", "exited", "dead"} /\ line[c] \in Proper
            /\ Head(link[c].up) = line[c].method /\ link'[c].up = <<line[c].args>>
         \/ at[c] = "dead" /\ line[c] = NoLine /\ link'[c].up = <<>>
      /\ <<>> \in Args
  <2>1. session[c].at = "reading" /\ link[c].up # <<>> /\ ~Quiet(c) /\ <<>> \in Args
    BY DEF Quiet, Args
  <2>2. at[c] \in {"sendingArgs", "waiting", "exited", "dead"}
    BY <1>1, <2>1 DEF Exchange, Upward, Ranges, Stages, Over
  <2>3. CASE at[c] = "sendingArgs"
    <3>1. link[c].up = <<line[c].method>> /\ line[c] \in Proper \cup BadNumber /\ link[c].down = <<>>
      BY <1>1, <2>1, <2>3 DEF Exchange, Upward, HalfSent, Working, Downward
    <3>2. QED
      BY <1>2, <2>1, <2>3, <3>1, Short, LineFacts
  <2>4. CASE at[c] # "sendingArgs" /\ line[c] \in Proper
    <3>1. link[c].up = <<line[c].method, line[c].args>>
      BY <1>1, <2>1, <2>2, <2>4 DEF Exchange, Upward, Requested
    <3>2. link[c].down = <<>>
      BY <1>1, <2>1, <2>2, <2>4 DEF Exchange, Downward
    <3>3. QED
      BY <1>2, <2>1, <2>2, <2>4, <3>1, <3>2, Short, LineFacts
  <2>5. CASE at[c] # "sendingArgs" /\ line[c] \notin Proper
    <3>1. at[c] = "dead" /\ line[c] = NoLine
      BY <1>1, <2>1, <2>2, <2>5 DEF Exchange, Upward, Working
    <3>2. PICK m \in Words : link[c].up = <<m>>
      BY <1>1, <2>1, <3>1 DEF Exchange, Upward, Abandoned
    <3>3. link[c].down = <<>>
      BY <1>1, <3>1 DEF Exchange, Downward
    <3>4. QED
      BY <1>2, <2>1, <3>1, <3>2, <3>3, Short
  <2>6. QED
    BY <2>3, <2>4, <2>5
<1>4. /\ session'[c].at = "args" /\ session'[c].method = Head(link[c].up)
      /\ session'[c].args = <<>> /\ session'[c].reply = NoReply
      /\ \A d \in Clients : d # c => session'[d] = session[d]
      /\ session' \in [Clients -> SessionState]
  BY <1>1, <1>3 DEF SessionState
<1>5. Ranges'
  BY <1>1, <1>3, <1>4 DEF Ranges, clientVars
<1>6. at' = at /\ line' = line /\ main' = main /\ \A d \in Clients : d # c => (main' = d => main = d)
  BY <1>1, RpcServerAssumption DEF clientVars
<1>7. Ends(c)' /\ Working(c)'
  BY <1>1, <1>2, <1>3, <1>4, <1>6, RpcServerAssumption DEF Exchange, Ends, Working
<1>8. Upward(c)'
  BY <1>1, <1>2, <1>3, <1>4, <1>6, LineFacts DEF Exchange, Upward, Quiet, HalfSent, Requested, Abandoned, Working
<1>9. Downward(c)'
  BY <1>1, <1>2, <1>3, <1>4, <1>6, LineFacts DEF Exchange, Downward, Upward, Quiet, Working, Over
<1>10. Exchange(c)'
  BY <1>7, <1>8, <1>9 DEF Exchange
<1>11. QED
  BY <1>2, <1>4, <1>5, <1>6, <1>10, OthersKeep

LEMMA ReadArgsKeeps ==
  ASSUME Inv, NEW c \in Clients, ReadArgs(c), UNCHANGED clientVars
  PROVE  Inv'
<1> USE DEF ReadArgs, ReadUp
<1>1. LinkShape /\ Ranges /\ Exchange(c) /\ session \in [Clients -> SessionState]
  BY DEF Inv, Ranges
<1>2. /\ LinkShape'
      /\ link'[c].client = link[c].client /\ link'[c].server = link[c].server
      /\ link'[c].up = Tail(link[c].up) /\ link'[c].down = link[c].down
      /\ \A d \in Clients : d # c => link'[d] = link[d]
  <2>1. /\ DOMAIN link = Clients
        /\ link[c] = [client |-> link[c].client, server |-> link[c].server,
                      up |-> link[c].up, down |-> link[c].down]
    BY <1>1, LinkFacts
  <2>2. link'[c] = [client |-> link[c].client, server |-> link[c].server, up |-> Tail(link[c].up), down |-> link[c].down]
    BY <2>1
  <2>3. /\ link'[c].client = link[c].client /\ link'[c].server = link[c].server
        /\ link'[c].up = Tail(link[c].up) /\ link'[c].down = link[c].down
    BY <2>2
  <2>4. link'[c] = [client |-> link'[c].client, server |-> link'[c].server,
                    up |-> link'[c].up, down |-> link'[c].down]
    BY <2>2, <2>3
  <2>5. /\ DOMAIN link' = Clients /\ link' = [d \in Clients |-> link'[d]]
        /\ \A d \in Clients : d # c => link'[d] = link[d]
    BY <2>1
  <2>6. QED
    BY <1>1, <2>3, <2>4, <2>5, Relink
<1>3. /\ session[c].at = "args" /\ link[c].down = <<>>
      /\ session[c].method = line[c].method /\ session[c].reply = NoReply
      /\ at[c] \in {"waiting", "exited", "dead"} /\ line[c] \in Proper
      /\ Head(link[c].up) = line[c].args /\ link'[c].up = <<>>
      /\ line[c].args \in Args
  <2>1. session[c].at = "args" /\ link[c].up # <<>> /\ ~Quiet(c)
    BY DEF Quiet
  <2>2. at[c] \in {"waiting", "exited", "dead"} /\ line[c] \in Proper
    BY <1>1, <2>1 DEF Exchange, Upward, HalfSent, Abandoned, Working, Ranges, Stages, Over
  <2>3. link[c].up = <<line[c].args>> /\ session[c].method = line[c].method /\ session[c].reply = NoReply
    BY <1>1, <2>1, <2>2 DEF Exchange, Upward, Requested
  <2>4. link[c].down = <<>>
    BY <1>1, <2>1, <2>2 DEF Exchange, Downward
  <2>5. QED
    BY <1>2, <2>1, <2>2, <2>3, <2>4, Short, LineFacts
<1>4. /\ session'[c].at = "invoking" /\ session'[c].method = session[c].method
      /\ session'[c].args = Head(link[c].up) /\ session'[c].reply = session[c].reply
      /\ \A d \in Clients : d # c => session'[d] = session[d]
      /\ session' \in [Clients -> SessionState]
  BY <1>1, <1>3 DEF SessionState
<1>5. Ranges'
  BY <1>1, <1>3, <1>4 DEF Ranges, clientVars
<1>6. at' = at /\ line' = line /\ main' = main /\ \A d \in Clients : d # c => (main' = d => main = d)
  BY <1>1, RpcServerAssumption DEF clientVars
<1>7. Ends(c)' /\ Working(c)'
  BY <1>1, <1>2, <1>3, <1>4, <1>6, RpcServerAssumption DEF Exchange, Ends, Working
<1>8. Upward(c)'
  BY <1>1, <1>2, <1>3, <1>4, <1>6, LineFacts DEF Exchange, Upward, Quiet, HalfSent, Requested, Abandoned, Working
<1>9. Downward(c)'
  BY <1>1, <1>2, <1>3, <1>4, <1>6, LineFacts DEF Exchange, Downward, Upward, Quiet, Working, Over
<1>10. Exchange(c)'
  BY <1>7, <1>8, <1>9 DEF Exchange
<1>11. QED
  BY <1>2, <1>4, <1>5, <1>6, <1>10, OthersKeep

\* The session that invokes a method does so for the line its client has sent.
LEMMA InvokeFacts ==
  ASSUME Inv, NEW c \in Clients, session[c].at \in {"invoking", "replying"}
  PROVE  /\ at[c] \in {"waiting", "exited", "dead"} /\ line[c] \in Proper
         /\ session[c].method = line[c].method /\ session[c].args = line[c].args
         /\ link[c].up = <<>> /\ link[c].down = <<>>
         /\ session[c].at = "invoking" => session[c].reply = NoReply
         /\ session[c].at = "replying" => session[c].reply # NoReply
<1>1. Exchange(c) /\ Ranges /\ ~Quiet(c)
  BY DEF Inv, Quiet
<1>2. at[c] \in {"waiting", "exited", "dead"} /\ line[c] \in Proper
  BY <1>1 DEF Exchange, Upward, HalfSent, Abandoned, Working, Ranges, Stages, Over
<1>3. Requested(c) /\ link[c].down = <<>>
  BY <1>1, <1>2 DEF Exchange, Upward, Downward
<1>4. QED
  BY <1>2, <1>3 DEF Requested

\* A method that returns has an answer in range, and leaves the lot in range.
LEMMA ReturnedKeeps ==
  ASSUME Inv, NEW c \in Clients, NEW reply \in Reply,
         NEW cars \in JavaInt, SafeAmounts => cars \in 0..Capacity,
         session[c].at = "invoking", count' = cars,
         session' = [session EXCEPT ![c].at = "replying", ![c].reply = reply],
         UNCHANGED <<link, running, listening, main>>, UNCHANGED clientVars
  PROVE  Inv'
<1>1. LinkShape /\ Ranges /\ Exchange(c) /\ session \in [Clients -> SessionState]
  BY DEF Inv, Ranges
<1>2. /\ LinkShape' /\ link' = link
  BY <1>1 DEF LinkShape
<1>3. /\ reply \in Reply /\ cars \in JavaInt /\ (SafeAmounts => cars \in 0..Capacity)
      /\ session' = [session EXCEPT ![c].at = "replying", ![c].reply = reply]
      /\ session[c].at = "invoking" /\ reply # NoReply
      /\ at[c] \in {"waiting", "exited", "dead"} /\ line[c] \in Proper
      /\ session[c].method = line[c].method /\ session[c].args = line[c].args
      /\ link[c].up = <<>> /\ link[c].down = <<>>
  BY InvokeFacts, LineFacts
<1>4. /\ session'[c].at = "replying" /\ session'[c].method = session[c].method
      /\ session'[c].args = session[c].args /\ session'[c].reply = reply
      /\ \A d \in Clients : d # c => session'[d] = session[d]
      /\ session' \in [Clients -> SessionState]
  <2>1. session[c] \in SessionState
    BY <1>1
  <2>2. session[c] = [at |-> session[c].at, method |-> session[c].method,
                      args |-> session[c].args, reply |-> session[c].reply]
    BY <2>1 DEF SessionState
  <2>3. session'[c] = [at |-> "replying", method |-> session[c].method,
                       args |-> session[c].args, reply |-> reply]
    BY <1>1, <2>2
  <2>4. session'[c] \in SessionState
    BY <2>1, <2>3 DEF SessionState
  <2>5. DOMAIN session' = Clients /\ \A d \in Clients : d # c => session'[d] = session[d]
    BY <1>1
  <2>6. session' \in [Clients -> SessionState]
    BY <1>1, <2>4, <2>5
  <2>7. QED
    BY <2>3, <2>5, <2>6
<1>5. Ranges'
  BY <1>1, <1>3, <1>4 DEF Ranges, clientVars
<1>6. at' = at /\ line' = line /\ main' = main /\ \A d \in Clients : d # c => (main' = d => main = d)
  BY <1>1, RpcServerAssumption DEF clientVars
<1>7. Ends(c)' /\ Working(c)'
  BY <1>1, <1>2, <1>3, <1>4, <1>6, RpcServerAssumption DEF Exchange, Ends, Working
<1>8. Upward(c)'
  BY <1>1, <1>2, <1>3, <1>4, <1>6, LineFacts DEF Exchange, Upward, Quiet, HalfSent, Requested, Abandoned, Working
<1>9. Downward(c)'
  BY <1>1, <1>2, <1>3, <1>4, <1>6, LineFacts DEF Exchange, Downward, Upward, Quiet, Working, Over
<1>10. Exchange(c)'
  BY <1>7, <1>8, <1>9 DEF Exchange
<1>11. QED
  BY <1>2, <1>4, <1>5, <1>6, <1>10, OthersKeep

LEMMA CallKeeps ==
  ASSUME Inv, NEW c \in Clients, CallLot(c) \/ CallOther(c), UNCHANGED clientVars
  PROVE  Inv'
<1>1. session[c].at = "invoking" /\ UNCHANGED <<link, running, listening, main>>
  BY DEF CallLot, CallOther, Return
<1>2. /\ line[c] \in Proper /\ session[c].method = line[c].method /\ session[c].args = line[c].args
      /\ count \in JavaInt /\ (SafeAmounts => count \in 0..Capacity)
  BY <1>1, InvokeFacts DEF Inv, Ranges
<1>3. /\ {0, 1} \subseteq JavaInt /\ Capacity \in JavaInt
      /\ Capacity \in Nat /\ MaxInt \in Nat /\ Amounts \subseteq JavaInt
  BY JavaIntsAssumption, RpcServerAssumption DEF JavaInt
<1>4. PICK type \in {"String", "Object"}, value \in JavaInt, cars \in JavaInt :
        Return(c, type, value, cars) /\ (SafeAmounts => cars \in 0..Capacity)
  <2>1. CASE CallLot(c)
    <3> DEFINE n == session[c].args[1]
    <3>1. n \in Amounts /\ n \in JavaInt
      <4>1. line[c].method \in {"in", "out"} /\ n = line[c].args[1]
        BY <1>2, <2>1 DEF CallLot
      <4>2. line[c].args[1] \in Amounts
        BY <1>2, <4>1, RpcClientAssumption DEF Proper
      <4>3. QED
        BY <1>3, <4>1, <4>2
    <3>2. Wrap(count + n) \in JavaInt /\ Wrap(count - n) \in JavaInt
      BY <1>2, <3>1, WrapInRange
    <3>3. SafeAmounts => n \in Nat /\ Wrap(count + n) = count + n /\ Wrap(count - n) = count - n
      BY <1>2, <3>1, SafeArithmetic
    <3> HIDE DEF n
    <3>4. SafeAmounts /\ Wrap(count + n) <= Capacity => Wrap(count + n) \in 0..Capacity
      BY <1>2, <1>3, <3>3
    <3>5. SafeAmounts /\ Wrap(count - n) >= 0 => Wrap(count - n) \in 0..Capacity
      BY <1>2, <1>3, <3>3
    <3>6. \/ Wrap(count + n) <= Capacity /\ Return(c, "String", 1, Wrap(count + n))
          \/ Wrap(count - n) >= 0 /\ Return(c, "String", 1, Wrap(count - n))
          \/ Return(c, "String", 0, count)
      BY <2>1 DEF CallLot, n
    <3>7. QED
      BY <1>2, <1>3, <3>2, <3>4, <3>5, <3>6
  <2>2. CASE CallOther(c)
    <3>1. Wrap(Capacity - count) \in JavaInt
      BY <1>2, <1>3, WrapInRange
    <3>2. QED
      BY <1>2, <1>3, <2>2, <3>1 DEF CallOther
  <2>3. QED
    BY <2>1, <2>2
<1>5. /\ session' = [session EXCEPT ![c].at = "replying", ![c].reply = [type |-> type, value |-> value]]
      /\ count' = cars /\ [type |-> type, value |-> value] \in Reply
  BY <1>4 DEF Return, Reply
<1>6. QED
  BY <1>1, <1>4, <1>5, ReturnedKeeps

LEMMA WriteAnswerKeeps ==
  ASSUME Inv, NEW c \in Clients, session[c].at = "replying", SendDown(c, session[c].reply),
         session' = [session EXCEPT ![c].at = "reading"],
         UNCHANGED <<running, listening, main, count>>, UNCHANGED clientVars
  PROVE  Inv'
<1>1. LinkShape /\ Ranges /\ Exchange(c) /\ session \in [Clients -> SessionState]
  BY DEF Inv, Ranges
<1>2. /\ LinkShape'
      /\ link'[c].client = link[c].client /\ link'[c].server = link[c].server
      /\ link'[c].up = link[c].up /\ link'[c].down = (IF link[c].client = "open" THEN Append(link[c].down, session[c].reply) ELSE link[c].down)
      /\ \A d \in Clients : d # c => link'[d] = link[d]
  <2>1. /\ DOMAIN link = Clients
        /\ link[c] = [client |-> link[c].client, server |-> link[c].server,
                      up |-> link[c].up, down |-> link[c].down]
    BY <1>1, LinkFacts
  <2> DEFINE received == IF link[c].client = "open" THEN Append(link[c].down, session[c].reply) ELSE link[c].down
  <2>2. link'[c] = [client |-> link[c].client, server |-> link[c].server, up |-> link[c].up, down |-> received]
    BY <2>1 DEF SendDown
  <2> HIDE DEF received
  <2>3. /\ link'[c].client = link[c].client /\ link'[c].server = link[c].server
        /\ link'[c].up = link[c].up /\ link'[c].down = received
    BY <2>2
  <2>4. link'[c] = [client |-> link'[c].client, server |-> link'[c].server,
                    up |-> link'[c].up, down |-> link'[c].down]
    BY <2>2, <2>3
  <2>5. /\ DOMAIN link' = Clients /\ link' = [d \in Clients |-> link'[d]]
        /\ \A d \in Clients : d # c => link'[d] = link[d]
    BY <2>1 DEF SendDown
  <2>6. QED
    BY <1>1, <2>3, <2>4, <2>5, Relink DEF received
<1>3. /\ session[c].at = "replying" /\ session[c].reply # NoReply /\ line[c] \in Proper
      /\ at[c] \in {"waiting", "exited", "dead"}
      /\ session[c].method = line[c].method /\ session[c].args = line[c].args
      /\ link[c].up = <<>> /\ link'[c].down = IF at[c] = "waiting" THEN <<session[c].reply>> ELSE <<>>
  <2>1. at[c] \in {"waiting", "exited", "dead"} /\ link[c].down = <<>>
    BY InvokeFacts
  <2>2. link[c].client = IF at[c] = "waiting" THEN "open" ELSE "closed"
    BY <1>1, <2>1 DEF Exchange, Ends, Over
  <2>3. link'[c].down = IF at[c] = "waiting" THEN <<session[c].reply>> ELSE <<>>
    BY <1>2, <2>1, <2>2, Short
  <2>4. QED
    BY <2>3, InvokeFacts
<1>4. /\ session'[c].at = "reading" /\ session'[c].method = session[c].method
      /\ session'[c].args = session[c].args /\ session'[c].reply = session[c].reply
      /\ \A d \in Clients : d # c => session'[d] = session[d]
      /\ session' \in [Clients -> SessionState]
  BY <1>1, <1>3 DEF SessionState
<1>5. Ranges'
  BY <1>1, <1>3, <1>4 DEF Ranges, clientVars
<1>6. at' = at /\ line' = line /\ main' = main /\ \A d \in Clients : d # c => (main' = d => main = d)
  BY <1>1, RpcServerAssumption DEF clientVars
<1>7. Ends(c)' /\ Working(c)'
  BY <1>1, <1>2, <1>3, <1>4, <1>6, RpcServerAssumption DEF Exchange, Ends, Working
<1>8. Upward(c)'
  BY <1>1, <1>2, <1>3, <1>4, <1>6, LineFacts DEF Exchange, Upward, Quiet, HalfSent, Requested, Abandoned, Working
<1>9. Downward(c)'
  BY <1>1, <1>2, <1>3, <1>4, <1>6, LineFacts DEF Exchange, Downward, Upward, Quiet, Working, Over
<1>10. Exchange(c)'
  BY <1>7, <1>8, <1>9 DEF Exchange
<1>11. QED
  BY <1>2, <1>4, <1>5, <1>6, <1>10, OthersKeep

LEMMA ServerStepKeeps ==
  ASSUME Inv, NEW c \in Clients, MainStep(c) \/ SessionStep(c) \/ ProcessStep
  PROVE  Inv'
<1>1. CASE MainStep(c)
  BY <1>1, AcceptKeeps, GreetKeeps, DeadMainKeeps DEF MainStep
<1>2. CASE SessionStep(c)
  <2>1. CASE ReadMethod(c) \/ ReadArgs(c)
    BY <1>2, <2>1, ReadMethodKeeps, ReadArgsKeeps DEF SessionStep
  <2>2. CASE CallLot(c) \/ CallOther(c)
    BY <1>2, <2>2, CallKeeps DEF SessionStep
  <2>3. CASE EndOfStream(c) \/ CallThrows(c)
    BY <1>2, <2>3, EndSessionKeeps DEF SessionStep, EndOfStream, CallThrows
  <2>4. CASE CallExit(c)
    BY <1>2, <2>4, StopKeeps DEF SessionStep, CallExit
  <2>5. CASE WriteReply(c)
    BY <1>2, <2>5, WriteAnswerKeeps, EndSessionKeeps DEF SessionStep, WriteReply
  <2>6. QED
    BY <1>2, <2>1, <2>2, <2>3, <2>4, <2>5 DEF SessionStep, Serve, Invoke
<1>3. CASE ProcessStep
  BY <1>3, StopKeeps, DeadMainKeeps DEF ProcessStep, AcceptFails, LastThreadEnds
<1>4. QED
  BY <1>1, <1>2, <1>3

\* The invariant survives every step.
LEMMA StepInv == Inv /\ [Next]_vars => Inv'
<1> SUFFICES ASSUME Inv, [Next]_vars PROVE Inv'
  OBVIOUS
<1>1. CASE \E c \in Clients : ClientStep(c) \/ UserStep(c)
  BY <1>1, ClientStepKeeps
<1>2. CASE (\E c \in Clients : MainStep(c) \/ SessionStep(c)) \/ (Clients # {} /\ ProcessStep)
  BY <1>2, ServerStepKeeps
<1>3. CASE ProcessStep /\ Clients = {}
  BY <1>3, StopKeeps, DeadMainKeeps DEF ProcessStep, AcceptFails, LastThreadEnds
<1>4. CASE UNCHANGED vars
  <2>1. LinkShape' /\ Ranges'
    BY <1>4 DEF vars, Inv, LinkShape, Ranges
  <2>2. \A c \in Clients : Exchange(c)'
    BY <1>4 DEF vars, Inv, Exchange, Ends, Working, Upward, Downward, Quiet, HalfSent, Requested, Abandoned
  <2>3. QED
    BY <2>1, <2>2 DEF Inv
<1>5. QED
  BY <1>1, <1>2, <1>3, <1>4 DEF Next, Idle

LEMMA Invariance == Spec => []Inv
BY InitInv, StepInv, PTL DEF Spec
-----------------------------------------------------------------------------
\* Whatever users ask for, every variable keeps its range and no stream ever holds
\* more than one request or one answer; and the lot keeps its bounds if no user
\* asks for an unsafe amount.
THEOREM TypeCorrect == Spec => []TypeOK
<1>1. ASSUME Inv, NEW c \in Clients
      PROVE  /\ link[c].client \in {"unused", "open", "closed"}
             /\ link[c].server \in {"unused", "backlog", "open", "closed"}
             /\ Len(link[c].up) <= 2 /\ Len(link[c].down) <= 1
  <2>1. Exchange(c) /\ Ranges
    BY <1>1 DEF Inv
  <2>2. link[c].up = <<>> \/ (\E x : link[c].up = <<x>>) \/ (\E x, y : link[c].up = <<x, y>>)
    BY <2>1 DEF Exchange, Upward, Working, Quiet, HalfSent, Requested, Abandoned, Ranges, Stages, Over
  <2>3. link[c].down = <<>> \/ \E x : link[c].down = <<x>>
    BY <2>1 DEF Exchange, Downward
  <2>4. Len(link[c].up) <= 2
    <3>1. CASE link[c].up = <<>>
      BY <3>1
    <3>2. ASSUME NEW x, link[c].up = <<x>> PROVE Len(link[c].up) <= 2
      BY <3>2
    <3>3. ASSUME NEW x, NEW y, link[c].up = <<x, y>> PROVE Len(link[c].up) <= 2
      BY <3>3
    <3>4. QED
      BY <2>2, <3>1, <3>2, <3>3
  <2>5. Len(link[c].down) <= 1
    <3>1. CASE link[c].down = <<>>
      BY <3>1
    <3>2. ASSUME NEW x, link[c].down = <<x>> PROVE Len(link[c].down) <= 1
      BY <3>2
    <3>3. QED
      BY <2>3, <3>1, <3>2
  <2>6. QED
    BY <2>1, <2>4, <2>5 DEF Exchange, Ends
<1>2. Inv => TypeOK
  BY <1>1 DEF Inv, Ranges, TypeOK
<1>3. QED
  BY <1>2, Invariance, PTL

\* No client ever takes an answer for another request's.
THEOREM AnswersCorrect == Spec => []AnswersMatch
<1>1. Inv => AnswersMatch
  <2> SUFFICES ASSUME Inv, NEW c \in Clients
               PROVE  /\ at[c] = "waiting" /\ link[c].down # <<>> =>
                           /\ link[c].down = <<session[c].reply>>
                           /\ session[c].method = line[c].method /\ session[c].args = line[c].args
                      /\ at[c] \in {"prompt", "sending", "sendingArgs"} => link[c].down = <<>>
                      /\ line[c] = OddLine => link[c].down = <<>> /\ link[c].up = <<>>
    BY DEF AnswersMatch
  <2>1. Exchange(c) /\ Ranges
    BY DEF Inv
  <2>2. line[c] = OddLine => at[c] \in {"waiting", "dead"}
    BY <2>1, LineFacts DEF Exchange, Working, Ranges, Stages, Over
  <2>3. line[c] = OddLine => Quiet(c) /\ link[c].down = <<>>
    BY <2>1, <2>2 DEF Exchange, Upward, Downward
  <2>4. QED
    BY <2>1, <2>3 DEF Exchange, Downward, Quiet
<1>2. QED
  BY <1>1, Invariance, PTL

\* The client whose flight killed main stays where it is.
LEMMA StepAccepts == Inv /\ AcceptsUnlessDeserted /\ [Next]_vars => AcceptsUnlessDeserted'
<1> SUFFICES ASSUME Inv, AcceptsUnlessDeserted, [Next]_vars, main' = "dead"
             PROVE  \E c \in Clients : /\ link'[c].client = "closed"
                                       /\ link'[c].server \in {"open", "closed"}
                                       /\ session'[c].at = "none"
  BY DEF AcceptsUnlessDeserted
<1> DEFINE Gone(c) == /\ link[c].client = "closed" /\ link[c].server \in {"open", "closed"}
                      /\ session[c].at = "none"
<1>1. LinkShape /\ Ranges /\ \A c \in Clients : Exchange(c)
  BY DEF Inv
<1>2. CASE main = "dead"
  <2>1. PICK c \in Clients : Gone(c)
    BY <1>2 DEF AcceptsUnlessDeserted
  <2>2. at[c] \in Over
    BY <1>1, <2>1 DEF Exchange, Ends
  <2>3. \A d \in Clients : main # d
    BY <1>2, RpcServerAssumption
  <2> HIDE DEF Gone
  <2>4. ASSUME NEW d \in Clients, ClientStep(d) \/ UserStep(d) PROVE Gone(c)'
    <3>1. at[d] \notin Over /\ UNCHANGED serverVars
      BY <2>4 DEF ClientStep, UserStep, Proceed, Dial, Refused, SendHeader, ReadHeader, SendMethod,
         SendArgs, SendThrows, NumberThrows, Receive, CastThrows, ReadThrows, Type, EndOfInput, Kill, Over
    <3>2. link'[c] = link[c]
      BY <1>1, <2>2, <2>4, <3>1, LinkFacts DEF ClientStep, UserStep, Proceed, Dial, Refused, SendHeader,
         ReadHeader, SendMethod, SendArgs, SendThrows, NumberThrows, Receive, CastThrows, ReadThrows,
         Type, EndOfInput, Kill, End, Connect, SendUp, ReadDown, CloseClient
    <3>3. QED
      BY <2>1, <3>1, <3>2 DEF Gone, serverVars
  <2>5. ASSUME NEW d \in Clients, ReadMethod(d) \/ ReadArgs(d) \/ CallLot(d) \/ CallOther(d)
                 \/ WriteReply(d) \/ EndOfStream(d) \/ CallThrows(d)
        PROVE  Gone(c)'
    <3>1. c # d
      BY <2>1, <2>5 DEF Gone, ReadMethod, ReadArgs, CallLot, CallOther, WriteReply, EndOfStream, CallThrows
    <3>2. session'[c] = session[c]
      BY <1>1, <2>5, <3>1 DEF Ranges, ReadMethod, ReadArgs, CallLot, CallOther, WriteReply, EndOfStream,
         CallThrows, EndSession, Return
    <3>3. link'[c] = link[c]
      BY <1>1, <2>5, <3>1, LinkFacts DEF ReadMethod, ReadArgs, CallLot, CallOther, WriteReply, EndOfStream,
         CallThrows, EndSession, Return, ReadUp, SendDown, CloseServer
    <3>4. QED
      BY <2>1, <3>2, <3>3 DEF Gone
  <2>6. ASSUME CollectListener \/ Stop PROVE Gone(c)'
    <3>1. \E C \in SUBSET Clients : CloseServer(C)
      BY <2>6 DEF CollectListener, Stop
    <3>2. session'[c].at = session[c].at
      BY <1>1, <2>1, <2>6 DEF Gone, CollectListener, Stop, Live
    <3>3. QED
      BY <1>1, <2>1, <3>1, <3>2, CloseFacts DEF Gone
  <2>7. ASSUME UNCHANGED vars PROVE Gone(c)'
    BY <2>1, <2>7 DEF Gone, vars
  <2>8. Gone(c)'
    <3>1. \A d \in Clients : ~MainStep(d)
      BY <1>2, <2>3 DEF MainStep, Accept, Greet, GreetFails
    <3>2. ASSUME NEW d \in Clients, SessionStep(d) PROVE Gone(c)'
      BY <2>5, <2>6, <3>2 DEF SessionStep, Serve, Invoke, CallExit
    <3>3. ASSUME ProcessStep PROVE Gone(c)'
      BY <2>6, <3>3 DEF ProcessStep, AcceptFails, LastThreadEnds
    <3>4. QED
      BY <2>4, <2>7, <3>1, <3>2, <3>3 DEF Next, Idle
  <2>9. QED
    BY <2>8 DEF Gone
<1>3. CASE main # "dead"
  <2>1. PICK c \in Clients : GreetFails(c)
    <3>1. \A d \in Clients : ClientStep(d) \/ UserStep(d) => main' = main
      BY DEF ClientStep, UserStep, serverVars
    <3>2. \A d \in Clients : SessionStep(d) => main' = main
      BY DEF SessionStep, Serve, Invoke, ReadMethod, ReadArgs, CallLot, CallOther, Return, WriteReply,
         EndOfStream, CallThrows, EndSession, CallExit, Stop
    <3>3. ProcessStep => main' = main
      BY DEF ProcessStep, AcceptFails, CollectListener, LastThreadEnds, Stop
    <3>4. \A d \in Clients : Accept(d) \/ Greet(d) => main' # "dead"
      BY RpcServerAssumption DEF Accept, Greet
    <3>5. UNCHANGED vars => main' = main
      BY DEF vars
    <3>6. QED
      BY <1>3, <3>1, <3>2, <3>3, <3>4, <3>5 DEF Next, MainStep, Idle
  <2>2. Gone(c)
    BY <1>1, <2>1 DEF GreetFails, Exchange, Ends
  <2>3. QED
    BY <2>1, <2>2 DEF GreetFails
<1>4. QED
  BY <1>2, <1>3

\* Whatever clients do and users ask for, main goes on accepting unless a client
\* has left that it had not finished greeting.
THEOREM AcceptsCorrect == Spec => []AcceptsUnlessDeserted
<1>1. SimInit => AcceptsUnlessDeserted
  BY DEF SimInit, ServerInit, AcceptsUnlessDeserted
<1>2. QED
  BY <1>1, Invariance, StepAccepts, PTL DEF Spec
-----------------------------------------------------------------------------
\* A step that neither sends a request of the lot, nor carries one out, nor
\* takes its answer, is none of the abstract lot.
LEMMA Stutter ==
  ASSUME count' = count,
         \A c \in Clients : /\ Sent(c)' <=> Sent(c)
                            /\ Sent(c) => /\ line'[c] = line[c]
                                          /\ Answered(c)' <=> Answered(c)
                                          /\ Answered(c) => session'[c].reply = session[c].reply
  PROVE  UNCHANGED Lot!lotVars
<1>1. LotStage' = LotStage
  BY DEF LotStage
<1>2. LotOp' = LotOp
  BY DEF LotOp
<1>3. LotReply' = LotReply
  BY DEF LotReply
<1>4. QED
  BY <1>1, <1>2, <1>3 DEF Lot!lotVars

\* A step that concerns the call of one client.
LEMMA OneCall ==
  ASSUME NEW c \in Clients,
         \A d \in Clients : d # c => /\ Sent(d)' <=> Sent(d)
                                     /\ Answered(d)' <=> Answered(d)
                                     /\ line'[d] = line[d] /\ session'[d] = session[d]
  PROVE  /\ LotStage' = [LotStage EXCEPT ![c] = LotStage'[c]]
         /\ LotOp' = [LotOp EXCEPT ![c] = LotOp'[c]]
         /\ LotReply' = [LotReply EXCEPT ![c] = LotReply'[c]]
<1>1. \A d \in Clients : d # c => LotStage'[d] = LotStage[d]
  BY DEF LotStage
<1>2. \A d \in Clients : d # c => LotOp'[d] = LotOp[d]
  BY DEF LotOp
<1>3. \A d \in Clients : d # c => LotReply'[d] = LotReply[d]
  BY DEF LotReply
<1>4. LotStage' = [d \in Clients |-> LotStage'[d]] /\ LotStage = [d \in Clients |-> LotStage[d]]
  BY DEF LotStage
<1>5. LotOp' = [d \in Clients |-> LotOp'[d]] /\ LotOp = [d \in Clients |-> LotOp[d]]
  BY DEF LotOp
<1>6. LotReply' = [d \in Clients |-> LotReply'[d]] /\ LotReply = [d \in Clients |-> LotReply[d]]
  BY DEF LotReply
<1>7. QED
  BY <1>1, <1>2, <1>3, <1>4, <1>5, <1>6

LEMMA LotValues ==
  ASSUME NEW c \in Clients
  PROVE  /\ LotStage[c] = IF ~Sent(c) THEN "idle" ELSE IF Answered(c) THEN "answered" ELSE "called"
         /\ LotOp[c] = IF Sent(c) THEN CallOf(line[c]) ELSE Lot!NoCall
         /\ LotReply[c] = IF Sent(c) /\ Answered(c) THEN session[c].reply.value ELSE 0
BY DEF LotStage, LotOp, LotReply, Lot!NoCall

LEMMA CallOfFacts ==
  \A l \in Proper :
    /\ l.method = "in" => /\ CallOf(l) = [method |-> "park", n |-> l.args[1]]
                          /\ l.args[1] \in Amounts
    /\ l.method = "out" => /\ CallOf(l) = [method |-> "unpark", n |-> l.args[1]]
                           /\ l.args[1] \in Amounts
    /\ l.method = "free" => CallOf(l) = [method |-> "remaining", n |-> 1]
    /\ l.method \in {"in", "out", "free"} => CallOf(l) \in Lot!Operation
<1> SUFFICES ASSUME NEW l \in Proper
             PROVE  /\ l.method = "in" => /\ CallOf(l) = [method |-> "park", n |-> l.args[1]]
                                          /\ l.args[1] \in Amounts
                    /\ l.method = "out" => /\ CallOf(l) = [method |-> "unpark", n |-> l.args[1]]
                                           /\ l.args[1] \in Amounts
                    /\ l.method = "free" => CallOf(l) = [method |-> "remaining", n |-> 1]
                    /\ l.method \in {"in", "out", "free"} => CallOf(l) \in Lot!Operation
  OBVIOUS
<1>1. l.method \in {"in", "out"} => l.args[1] \in Amounts
  BY RpcClientAssumption DEF Proper
<1>2. l.method = "in" => CallOf(l) = [method |-> "park", n |-> l.args[1]]
  BY DEF CallOf
<1>3. l.method = "out" => CallOf(l) = [method |-> "unpark", n |-> l.args[1]]
  BY DEF CallOf
<1>4. l.method = "free" => CallOf(l) = [method |-> "remaining", n |-> 1]
  BY DEF CallOf
<1>5. QED
  BY <1>1, <1>2, <1>3, <1>4 DEF Lot!Operation

\* Sending the last object of a request calls the lot.
LEMMA SendArgsRefines ==
  ASSUME Inv, NEW c \in Clients, SendArgs(c), UNCHANGED serverVars
  PROVE  [Lot!Next]_(Lot!lotVars)
<1>1. /\ at[c] = "sendingArgs" /\ line[c] \in Proper /\ line' = line /\ session' = session /\ count' = count
      /\ at' = [at EXCEPT ![c] = IF line[c].method = "exit" THEN "exited" ELSE "waiting"]
      /\ at \in [Clients -> Stages]
  BY DEF Inv, Ranges, Exchange, Working, SendArgs, Goto, serverVars
<1>2. ~Sent(c) /\ (Sent(c)' <=> line[c].method \in {"in", "out", "free"})
  BY <1>1 DEF Sent
<1>3. link'[c].up # <<>> /\ \A d \in Clients : d # c => link'[d] = link[d]
  <2>1. LinkShape /\ HalfSent(c)
    BY <1>1 DEF Inv, Exchange, Upward
  <2>2. /\ DOMAIN link = Clients
        /\ link[c] = [client |-> link[c].client, server |-> link[c].server,
                      up |-> link[c].up, down |-> link[c].down]
    BY <2>1, LinkFacts
  <2>3. link'[c].up = Append(link[c].up, line[c].args) /\ \A d \in Clients : d # c => link'[d] = link[d]
    BY <2>2 DEF SendArgs, SendUp
  <2>4. QED
    BY <2>1, <2>3, Short DEF HalfSent
<1>4. \A d \in Clients : d # c => (Sent(d)' <=> Sent(d)) /\ (Answered(d)' <=> Answered(d))
  BY <1>1, <1>3 DEF Sent, Answered
<1>5. CASE line[c].method \notin {"in", "out", "free"}
  BY <1>1, <1>2, <1>4, <1>5, Stutter
<1>6. CASE line[c].method \in {"in", "out", "free"}
  <2>1. Sent(c)' /\ ~Answered(c)'
    BY <1>2, <1>3, <1>6 DEF Answered
  <2>2. /\ LotStage[c] = "idle" /\ LotStage'[c] = "called"
        /\ LotOp'[c] = CallOf(line[c]) /\ LotReply'[c] = 0 /\ LotReply[c] = 0
    BY <1>1, <1>2, <2>1 DEF LotStage, LotOp, LotReply, CallOf
  <2>3. /\ LotStage' = [LotStage EXCEPT ![c] = "called"]
        /\ LotOp' = [LotOp EXCEPT ![c] = CallOf(line[c])]
        /\ LotReply' = [LotReply EXCEPT ![c] = 0]
    BY <1>1, <1>4, <2>2, OneCall
  <2>4. LotReply' = LotReply
    BY <2>2, <2>3 DEF LotReply
  <2>5. CallOf(line[c]) \in Lot!Operation
    BY <1>1, <1>6, CallOfFacts
  <2>6. Lot!Call(c, CallOf(line[c]))
    BY <1>1, <2>2, <2>3, <2>4 DEF Lot!Call
  <2>7. QED
    BY <2>5, <2>6 DEF Lot!Next
<1>7. QED
  BY <1>5, <1>6

\* Receiving the answer ends the call.
LEMMA ReceiveRefines ==
  ASSUME Inv, NEW c \in Clients, Receive(c), UNCHANGED serverVars
  PROVE  [Lot!Next]_(Lot!lotVars)
<1>1. /\ at[c] = "waiting" /\ line' = [line EXCEPT ![c] = NoLine] /\ session' = session /\ count' = count
      /\ at' = [at EXCEPT ![c] = "prompt"]
      /\ at \in [Clients -> Stages] /\ line \in [Clients -> Lines]
  BY DEF Inv, Ranges, Receive, Goto, serverVars
<1>2. ~Sent(c)'
  BY <1>1 DEF Sent
<1>3. \A d \in Clients : d # c => link'[d] = link[d]
  BY DEF Inv, LinkShape, Receive, ReadDown
<1>4. \A d \in Clients : d # c => /\ (Sent(d)' <=> Sent(d)) /\ (Answered(d)' <=> Answered(d))
                                  /\ line'[d] = line[d] /\ session'[d] = session[d]
  BY <1>1, <1>3 DEF Sent, Answered
<1>5. Answered(c)
  BY <1>1 DEF Inv, Exchange, Downward, Quiet, Receive, Answered
<1>6. CASE ~Sent(c)
  BY <1>1, <1>2, <1>4, <1>6, Stutter
<1>7. CASE Sent(c)
  <2>1. LotStage[c] = "answered" /\ LotStage'[c] = "idle" /\ LotOp'[c] = Lot!NoCall /\ LotReply'[c] = 0
    BY <1>2, <1>5, <1>7 DEF LotStage, LotOp, LotReply, Lot!NoCall
  <2>2. Lot!Return(c)
    BY <1>1, <1>4, <2>1, OneCall DEF Lot!Return
  <2>3. QED
    BY <2>2 DEF Lot!Next
<1>8. QED
  BY <1>6, <1>7

\* A client that ends leaves the request that it has sent, and no other.
LEMMA EndRefines ==
  ASSUME Inv, NEW c \in Clients, at[c] \notin Over, End(c, "dead"), UNCHANGED serverVars
  PROVE  UNCHANGED Lot!lotVars
<1>1. /\ at' = [at EXCEPT ![c] = "dead"] /\ session' = session /\ count' = count
      /\ line' = [line EXCEPT ![c] = IF at[c] = "waiting" THEN @ ELSE NoLine]
      /\ at \in [Clients -> Stages] /\ line \in [Clients -> Lines]
  BY DEF Inv, Ranges, End, Goto, serverVars
<1>2. \A d \in Clients : link'[d].up = link[d].up
  BY DEF Inv, LinkShape, End, CloseClient
<1>3. \A d \in Clients : Answered(d)' <=> Answered(d)
  BY <1>1, <1>2 DEF Answered
<1>4. \A d \in Clients : d # c => (Sent(d)' <=> Sent(d)) /\ line'[d] = line[d]
  BY <1>1 DEF Sent
<1>5. (Sent(c)' <=> Sent(c)) /\ (Sent(c) => line'[c] = line[c])
  BY <1>1, LineFacts DEF Sent, Over
<1>6. QED
  BY <1>1, <1>3, <1>4, <1>5, Stutter

\* Invoking a method of the lot is the instant at which its call takes effect.
LEMMA InvokeRefines ==
  ASSUME SafeAmounts, Inv, NEW c \in Clients, CallLot(c) \/ CallOther(c), UNCHANGED clientVars
  PROVE  [Lot!Next]_(Lot!lotVars)
<1>1. session[c].at = "invoking" /\ link' = link /\ at' = at /\ line' = line
  BY DEF CallLot, CallOther, Return, clientVars
<1>2. PICK type, value, cars :
        /\ type \in {"String", "Object"}
        /\ session' = [session EXCEPT ![c].at = "replying", ![c].reply = [type |-> type, value |-> value]]
        /\ count' = cars
        /\ LET n == session[c].args[1] IN
             \/ /\ session[c].method = "in" /\ Wrap(count + n) <= Capacity
                /\ value = 1 /\ cars = Wrap(count + n)
             \/ /\ session[c].method = "in" /\ Wrap(count + n) > Capacity
                /\ value = 0 /\ cars = count
             \/ /\ session[c].method = "out" /\ Wrap(count - n) >= 0
                /\ value = 1 /\ cars = Wrap(count - n)
             \/ /\ session[c].method = "out" /\ Wrap(count - n) < 0
                /\ value = 0 /\ cars = count
             \/ /\ session[c].method = "free"
                /\ value = Wrap(Capacity - count) /\ cars = count
             \/ session[c].method \notin {"in", "out", "free"} /\ cars = count
  BY DEF CallLot, CallOther, Return
<1>3. /\ at[c] \in {"waiting", "exited", "dead"} /\ line[c] \in Proper
      /\ session[c].method = line[c].method /\ session[c].args = line[c].args
      /\ link[c].up = <<>> /\ session[c].reply = NoReply
      /\ session \in [Clients -> SessionState] /\ Working(c)
      /\ count \in 0..Capacity /\ count \in Nat /\ Capacity \in Nat
  BY <1>1, InvokeFacts, RpcServerAssumption DEF Inv, Ranges, Exchange
<1>4. \A d \in Clients : d # c => session'[d] = session[d]
  BY <1>2, <1>3
<1>5. /\ \A d \in Clients : Sent(d)' <=> Sent(d)
      /\ \A d \in Clients : d # c => (Answered(d)' <=> Answered(d))
  BY <1>1, <1>4 DEF Sent, Answered
<1>6. Sent(c) <=> line[c].method \in {"in", "out", "free"}
  BY <1>3 DEF Sent, Working
<1>7. CASE ~Sent(c)
  BY <1>1, <1>2, <1>3, <1>4, <1>5, <1>6, <1>7, Stutter
<1>8. CASE Sent(c)
  <2>1. session'[c].reply = [type |-> type, value |-> value]
    BY <1>2, <1>3 DEF SessionState
  <2>2. ~Answered(c) /\ Answered(c)'
    <3>1. link'[c].up = <<>> /\ session[c].reply = NoReply
      BY <1>1, <1>3
    <3>2. session'[c].reply.type \in {"String", "Object"}
      BY <1>2, <2>1
    <3>3. session'[c].reply # NoReply
      BY <3>2 DEF NoReply
    <3>4. QED
      BY <3>1, <3>3 DEF Answered
  <2>3. session'[c].reply.value = value
    BY <2>1
  <2>4. /\ LotStage[c] = "called" /\ LotStage'[c] = "answered"
        /\ LotOp[c] = CallOf(line[c]) /\ LotReply'[c] = value
    BY <1>5, <1>8, <2>2, <2>3 DEF LotStage, LotOp, LotReply
  <2>5. LotOp' = LotOp
    BY <1>1, <1>5 DEF LotOp
  <2>6. Lot!Answer(c, value)
    BY <1>1, <1>4, <1>5, <2>4, <2>5, OneCall DEF Lot!Answer
  <2> DEFINE n == session[c].args[1]
  <2>7. /\ session[c].method = "in" => LotOp[c] = [method |-> "park", n |-> n] /\ n \in Amounts
        /\ session[c].method = "out" => LotOp[c] = [method |-> "unpark", n |-> n] /\ n \in Amounts
        /\ session[c].method = "free" => LotOp[c] = [method |-> "remaining", n |-> 1]
    BY <1>3, <2>4, CallOfFacts
  <2> HIDE DEF n
  <2>8. /\ n \in Amounts => /\ n \in Nat
                            /\ Wrap(count + n) = count + n /\ Wrap(count - n) = count - n
        /\ Wrap(Capacity - count) = Capacity - count
    BY <1>3, SafeArithmetic
  <2>9. CASE session[c].method = "in"
    BY <1>2, <1>3, <2>6, <2>7, <2>8, <2>9 DEF Lot!Next, Lot!Grant, Lot!Refuse, Lot!Parks, Lot!Unparks, n
  <2>10. CASE session[c].method = "out"
    BY <1>2, <1>3, <2>6, <2>7, <2>8, <2>10 DEF Lot!Next, Lot!Grant, Lot!Refuse, Lot!Parks, Lot!Unparks, n
  <2>11. CASE session[c].method = "free"
    BY <1>2, <1>3, <2>6, <2>7, <2>8, <2>11 DEF Lot!Next, Lot!Report
  <2>12. QED
    BY <1>3, <1>6, <1>8, <2>9, <2>10, <2>11
<1>9. QED
  BY <1>7, <1>8

\* The other steps of the server are none of the lot.
LEMMA ServerRefines ==
  ASSUME Inv, NEW c \in Clients,
         \/ Accept(c) \/ Greet(c) \/ GreetFails(c)
         \/ ReadMethod(c) \/ ReadArgs(c) \/ EndOfStream(c) \/ CallThrows(c) \/ WriteReply(c)
         \/ CollectListener \/ Stop,
         UNCHANGED clientVars
  PROVE  UNCHANGED Lot!lotVars
<1>1. /\ LinkShape /\ Exchange(c) /\ session \in [Clients -> SessionState]
      /\ line' = line /\ \A d \in Clients : Sent(d)' <=> Sent(d)
  BY DEF Inv, Ranges, Sent, clientVars
<1>2. count' = count
  BY DEF Accept, Greet, GreetFails, ReadMethod, ReadArgs, EndOfStream, CallThrows, EndSession, WriteReply,
     CollectListener, Stop
<1>3. SUFFICES ASSUME NEW d \in Clients, Sent(d)
               PROVE  /\ Answered(d)' <=> Answered(d)
                      /\ Answered(d) => session'[d].reply = session[d].reply
  BY <1>1, <1>2, Stutter
<1>4. Requested(d)
  BY <1>3 DEF Inv, Exchange, Upward, Sent
<1>5. CASE link'[d].up = link[d].up /\ session'[d].reply = session[d].reply
  BY <1>5 DEF Answered
<1>6. CASE CollectListener \/ Stop \/ EndSession(c)
  <2>1. \E C \in SUBSET Clients : CloseServer(C)
    BY <1>6 DEF CollectListener, Stop, EndSession
  <2>2. link'[d].up = link[d].up
    BY <1>1, <2>1, CloseFacts
  <2>3. session'[d].reply = session[d].reply
    BY <1>1, <1>6 DEF CollectListener, Stop, EndSession, SessionState
  <2>4. QED
    BY <1>5, <2>2, <2>3
<1>7. CASE Accept(c) \/ GreetFails(c) \/ (session[c].at = "replying" /\ SendDown(c, session[c].reply) /\ WriteReply(c))
  <2>1. link'[d].up = link[d].up
    BY <1>1, <1>7 DEF Accept, GreetFails, SendDown, LinkShape
  <2>2. session'[d].reply = session[d].reply
    BY <1>1, <1>7 DEF Accept, GreetFails, WriteReply, EndSession, SessionState
  <2>3. QED
    BY <1>5, <2>1, <2>2
<1>8. CASE Greet(c) \/ ReadMethod(c) \/ ReadArgs(c)
  <2>1. CASE c # d
    <3>1. link'[d] = link[d] /\ session'[d] = session[d]
      BY <1>1, <1>8, <2>1, LinkFacts DEF Greet, ReadMethod, ReadArgs, ReadUp
    <3>2. QED
      BY <1>5, <3>1
  <2>2. CASE c = d
    <3>1. ~Greet(c)
      BY <1>1, <1>4, <2>2 DEF Greet, Exchange, Ends, Requested
    <3>2. link[c].up # <<>>
      BY <1>8, <3>1 DEF ReadMethod, ReadArgs
    <3>3. session'[c].reply = NoReply
      <4>1. CASE ReadMethod(c)
        BY <1>1, <4>1 DEF ReadMethod
      <4>2. CASE ReadArgs(c)
        BY <1>1, <1>4, <2>2, <3>2, <4>2 DEF ReadArgs, Requested, SessionState
      <4>3. QED
        BY <1>8, <3>1, <4>1, <4>2
    <3>4. QED
      BY <2>2, <3>2, <3>3 DEF Answered
  <2>3. QED
    BY <2>1, <2>2
<1>9. QED
  BY <1>6, <1>7, <1>8 DEF EndOfStream, CallThrows, WriteReply

\* The remote lot is a ParkingLot for its users: what their requests do and are
\* answered is what calls of one lot, each at one instant, do and return,
\* whichever clients die and whenever the server stops.  This holds as long as
\* no user asks for an unsafe amount, which nothing in the programs refuses.
THEOREM Refinement == SafeAmounts => (Spec => Linearizable)
<1> SUFFICES ASSUME SafeAmounts PROVE Spec => Linearizable
  OBVIOUS
<1>1. SimInit => Lot!Init
  BY DEF SimInit, ServerInit, ClientInit, Lot!Init, Lot!NoCall, LotStage, LotOp, LotReply, Sent
<1>2. Inv /\ [Next]_vars => [Lot!Next]_(Lot!lotVars)
  <2> SUFFICES ASSUME Inv, [Next]_vars PROVE [Lot!Next]_(Lot!lotVars)
    OBVIOUS
  <2>1. ASSUME NEW c \in Clients, ClientStep(c) \/ UserStep(c) PROVE [Lot!Next]_(Lot!lotVars)
    <3>1. UNCHANGED serverVars
      BY <2>1 DEF ClientStep, UserStep
    <3>2. CASE SendArgs(c)
      BY <3>1, <3>2, SendArgsRefines
    <3>3. CASE Receive(c)
      BY <3>1, <3>3, ReceiveRefines
    <3>4. CASE Refused(c) \/ SendThrows(c) \/ NumberThrows(c) \/ CastThrows(c) \/ ReadThrows(c)
                 \/ EndOfInput(c) \/ Kill(c)
      BY <3>1, <3>4, EndRefines DEF Refused, SendThrows, NumberThrows, CastThrows, ReadThrows,
         EndOfInput, Kill, Over
    <3>5. CASE \/ Dial(c) \/ SendHeader(c) \/ ReadHeader(c) \/ SendMethod(c)
               \/ \E l \in Proper \cup BadNumber \cup {OddLine} : Type(c, l)
      <4>1. /\ count' = count /\ session' = session
            /\ at \in [Clients -> Stages] /\ line \in [Clients -> Lines] /\ LinkShape
        BY <3>1 DEF serverVars, Inv, Ranges
      <4>2. ~Sent(c)
        BY <3>5 DEF Dial, SendHeader, ReadHeader, SendMethod, Type, Sent
      <4>3. ~Sent(c)'
        BY <3>5, <4>1, LineFacts DEF Dial, SendHeader, ReadHeader, SendMethod, Type, Goto, Sent
      <4>4. ASSUME NEW d \in Clients, d # c
            PROVE  (Sent(d)' <=> Sent(d)) /\ line'[d] = line[d] /\ (Answered(d)' <=> Answered(d))
        <5>1. link'[d] = link[d]
          BY <3>5, <4>1, <4>4, LinkFacts DEF Dial, SendHeader, ReadHeader, SendMethod, Type, Connect, SendUp, ReadDown
        <5>2. at'[d] = at[d] /\ line'[d] = line[d]
          BY <3>5, <4>1, <4>4 DEF Dial, SendHeader, ReadHeader, SendMethod, Type, Goto
        <5>3. QED
          BY <4>1, <5>1, <5>2 DEF Sent, Answered
      <4>5. QED
        BY <4>1, <4>2, <4>3, <4>4, Stutter
    <3>6. QED
      BY <2>1, <3>2, <3>3, <3>4, <3>5 DEF ClientStep, UserStep, Proceed
  <2>2. ASSUME NEW c \in Clients, MainStep(c) PROVE [Lot!Next]_(Lot!lotVars)
    BY <2>2, ServerRefines DEF MainStep
  <2>3. ASSUME NEW c \in Clients, SessionStep(c) PROVE [Lot!Next]_(Lot!lotVars)
    BY <2>3, ServerRefines, InvokeRefines DEF SessionStep, Serve, Invoke, CallExit
  <2>4. CASE ProcessStep
    <3>1. UNCHANGED clientVars /\ (CollectListener \/ Stop)
      BY <2>4 DEF ProcessStep, AcceptFails, LastThreadEnds
    <3>2. CASE Clients # {}
      BY <3>1, <3>2, ServerRefines
    <3>3. CASE Clients = {}
      <4>1. count' = count
        BY <3>1 DEF CollectListener, Stop
      <4>2. QED
        BY <3>3, <4>1, Stutter
    <3>4. QED
      BY <3>2, <3>3
  <2>5. CASE UNCHANGED vars
    BY <2>5, Stutter DEF vars, Sent, Answered
  <2>6. QED
    BY <2>1, <2>2, <2>3, <2>4, <2>5 DEF Next, Idle
<1>3. QED
  BY <1>1, <1>2, Invariance, PTL DEF Spec, Linearizable, Lot!Spec
-----------------------------------------------------------------------------
\* A session and its connection begin, serve and end together, and only main
\* dying of one client leaves another's connection without a session.
Attached(c) ==
  /\ Live(c) => link[c].server = "open"
  /\ session[c].at = "ended" => link[c].server = "closed"
  /\ link[c].server = "open" => running /\ (session[c].at = "none" => main = c \/ at[c] \in Over)
  /\ main = c /\ running => link[c].server = "open"
  /\ link[c].server = "backlog" => listening

\* What was read has been answered, unless the session has ended: with the
\* server, or because a method threw or the client has gone.
Due(c) ==
  /\ at[c] = "waiting" /\ line[c] # OddLine /\ session[c].at = "reading" /\ link[c].up = <<>> =>
       link[c].down # <<>>
  /\ at[c] = "exited" =>
       /\ session[c].at # "replying"
       /\ session[c].at = "reading" => link[c].up # <<>>
  /\ session[c].at = "ended" /\ running =>
       at[c] = "dead" \/ (at[c] = "waiting" /\ link[c].down = <<>>)

\* The second layer of the invariant.
Ahead == (listening => running) /\ \A c \in Clients : Attached(c) /\ Due(c)

LEMMA InitAhead == SimInit => Ahead
BY RpcServerAssumption DEF SimInit, Init, ServerInit, ClientInit, NoSession, Ahead, Attached, Due, Live

\* What one client or its session does leaves the others alone.
LEMMA OthersAhead ==
  ASSUME Ahead, NEW c \in Clients, running' = running, listening' = listening,
         \A d \in Clients : d # c => /\ link'[d] = link[d] /\ session'[d] = session[d]
                                     /\ at'[d] = at[d] /\ line'[d] = line[d]
                                     /\ (main' = d <=> main = d),
         Attached(c)', Due(c)'
  PROVE  Ahead'
<1> SUFFICES ASSUME NEW d \in Clients, d # c PROVE Attached(d)' /\ Due(d)'
  BY DEF Ahead
<1>1. Attached(d) /\ Due(d)
  BY DEF Ahead
<1>2. QED
  BY <1>1 DEF Attached, Due, Live

\* What a step of a client does to its own connection, and to no other.
LEMMA ClientEffect ==
  ASSUME Inv, NEW c \in Clients, ClientStep(c) \/ UserStep(c)
  PROVE  /\ UNCHANGED serverVars /\ at[c] \notin Over
         /\ \A d \in Clients : d # c => link'[d] = link[d] /\ at'[d] = at[d] /\ line'[d] = line[d]
         /\ \/ link'[c].server = link[c].server
            \/ at[c] = "dialling" /\ link'[c].server = "backlog" /\ listening
         /\ at'[c] \in {"waiting", "exited"} =>
              \/ line'[c] = OddLine
              \/ at[c] = "sendingArgs" /\ link'[c].up = Append(link[c].up, line[c].args)
         /\ at[c] = "waiting" => link[c].down # <<>> \/ at'[c] = "dead"
<1>1. /\ LinkShape /\ at \in [Clients -> Stages] /\ line \in [Clients -> Lines]
  BY DEF Inv, Ranges
<1>2. /\ DOMAIN link = Clients
      /\ link[c] = [client |-> link[c].client, server |-> link[c].server,
                    up |-> link[c].up, down |-> link[c].down]
  BY <1>1, LinkFacts
<1>3. UNCHANGED serverVars
  BY DEF ClientStep, UserStep
<1>4. CASE Dial(c)
  BY <1>1, <1>2, <1>3, <1>4 DEF Dial, Connect, Goto, Over
<1>5. CASE SendHeader(c) \/ ReadHeader(c) \/ SendMethod(c)
  BY <1>1, <1>2, <1>3, <1>5 DEF SendHeader, ReadHeader, SendMethod, SendUp, ReadDown, Goto, Over
<1>6. CASE SendArgs(c)
  <2>1. at'[c] \in {"waiting", "exited"} /\ at[c] = "sendingArgs"
    BY <1>1, <1>6 DEF SendArgs, Goto
  <2>2. \A d \in Clients : d # c => link'[d] = link[d] /\ at'[d] = at[d] /\ line'[d] = line[d]
    BY <1>1, <1>2, <1>6 DEF SendArgs, SendUp, Goto
  <2>3. link'[c].server = link[c].server /\ link'[c].up = Append(link[c].up, line[c].args)
    BY <1>1, <1>2, <1>6 DEF SendArgs, SendUp
  <2>4. QED
    BY <1>3, <2>1, <2>2, <2>3 DEF Over
<1>7. CASE \E l \in Proper \cup BadNumber \cup {OddLine} : Type(c, l)
  BY <1>1, <1>3, <1>7 DEF Type, Goto, Over
<1>8. CASE Receive(c)
  BY <1>1, <1>2, <1>3, <1>8 DEF Receive, ReadDown, Goto, Over
<1>9. CASE Refused(c) \/ SendThrows(c) \/ NumberThrows(c) \/ CastThrows(c) \/ ReadThrows(c)
             \/ EndOfInput(c) \/ Kill(c)
  <2>1. at[c] \notin Over /\ End(c, "dead")
    BY <1>9 DEF Refused, SendThrows, NumberThrows, CastThrows, ReadThrows, EndOfInput, Kill, Over
  <2>2. /\ at'[c] = "dead" /\ link'[c].server = link[c].server
        /\ \A d \in Clients : d # c => link'[d] = link[d] /\ at'[d] = at[d] /\ line'[d] = line[d]
    BY <1>1, <1>2, <2>1 DEF End, Goto, CloseClient
  <2>3. QED
    BY <1>3, <2>1, <2>2
<1>10. QED
  BY <1>4, <1>5, <1>6, <1>7, <1>8, <1>9 DEF ClientStep, UserStep, Proceed

LEMMA ClientStepAhead ==
  ASSUME Inv, Ahead, NEW c \in Clients, ClientStep(c) \/ UserStep(c)
  PROVE  Ahead'
<1>1. Exchange(c) /\ Attached(c) /\ Due(c) /\ (listening => running)
  BY DEF Inv, Ahead
<1>2. running' = running /\ listening' = listening /\ session' = session /\ main' = main
  BY ClientEffect DEF serverVars
<1>3. Attached(c)'
  <2>1. at[c] = "dialling" => session[c].at = "none" /\ main # c
    BY <1>1 DEF Exchange, Ends
  <2>2. CASE link'[c].server = link[c].server
    BY <1>1, <1>2, <2>2, ClientEffect DEF Attached, Live
  <2>3. CASE at[c] = "dialling" /\ link'[c].server = "backlog" /\ listening
    BY <1>1, <1>2, <2>1, <2>3 DEF Attached, Live
  <2>4. QED
    BY <2>2, <2>3, ClientEffect
<1>4. at[c] = "sendingArgs" /\ link'[c].up = Append(link[c].up, line[c].args) =>
        link'[c].up # <<>> /\ session[c].at \in {"reading", "args", "ended"}
  BY <1>1, Short DEF Exchange, Upward, HalfSent
<1>5. line'[c] = OddLine => at'[c] # "exited"
  BY LineFacts, ClientStepKeeps DEF Inv, Exchange, Working
<1>6. session[c].at = "ended" /\ running => at'[c] = "dead"
  BY <1>1, ClientEffect DEF Due, Over
<1>7. Due(c)'
  BY <1>2, <1>4, <1>5, <1>6, ClientEffect DEF Due
<1>8. QED
  BY <1>2, <1>3, <1>7, ClientEffect, OthersAhead

\* Nothing is left open when the process of the server has ended.
LEMMA StopAhead ==
  ASSUME Inv, Ahead, Stop, UNCHANGED clientVars
  PROVE  Ahead'
<1>1. ~running' /\ ~listening' /\ at' = at /\ line' = line
  BY DEF Stop, clientVars
<1>2. SUFFICES ASSUME NEW d \in Clients PROVE Attached(d)' /\ Due(d)'
  BY <1>1 DEF Ahead
<1>3. Exchange(d) /\ Attached(d) /\ Due(d) /\ session \in [Clients -> SessionState]
  BY DEF Inv, Ranges, Ahead
<1>4. link'[d].server \in {"unused", "closed"} /\ (link[d].server # "unused" => link'[d].server = "closed")
  <2>1. link'[d] = IF link[d].server \in {"backlog", "open"} THEN [link[d] EXCEPT !.server = "closed"] ELSE link[d]
    BY DEF Stop, CloseServer
  <2>2. link[d] = [client |-> link[d].client, server |-> link[d].server,
                   up |-> link[d].up, down |-> link[d].down]
    BY LinkFacts DEF Inv
  <2>3. link[d].server \in {"unused", "backlog", "open", "closed"}
    BY <1>3 DEF Exchange, Ends
  <2>4. CASE link[d].server \in {"backlog", "open"}
    BY <2>1, <2>2, <2>4
  <2>5. QED
    BY <2>1, <2>3, <2>4
<1>5. session'[d].at = IF Live(d) THEN "ended" ELSE session[d].at
  BY <1>3 DEF Stop, SessionState
<1>6. session'[d].at \in {"none", "ended"} /\ (session'[d].at = "ended" => link[d].server # "unused")
  BY <1>3, <1>5 DEF Live, Exchange, Ends
<1>7. QED
  BY <1>1, <1>4, <1>6 DEF Attached, Due, Live

\* A session ends with its connection.
LEMMA EndSessionAhead ==
  ASSUME Inv, Ahead, NEW c \in Clients, Live(c), EndSession(c), UNCHANGED clientVars,
         at[c] # "exited",
         running => at[c] = "dead" \/ (at[c] = "waiting" /\ link[c].down = <<>>)
  PROVE  Ahead'
<1>1. LinkShape /\ session \in [Clients -> SessionState] /\ Attached(c)
  BY DEF Inv, Ranges, Ahead
<1>2. link'[c].server = "closed" /\ link'[c].down = link[c].down
  <2>1. link'[c] = [link[c] EXCEPT !.server = "closed"]
    BY <1>1 DEF EndSession, CloseServer, Attached
  <2>2. QED
    BY <1>1, <2>1, LinkFacts
<1>3. \A d \in Clients : d # c => link'[d] = link[d] /\ session'[d] = session[d]
  BY <1>1 DEF EndSession, CloseServer
<1>4. session'[c].at = "ended"
  BY <1>1 DEF EndSession, SessionState
<1>5. running' = running /\ listening' = listening /\ main' = main /\ at' = at /\ line' = line
  BY DEF EndSession, clientVars
<1>6. main # c
  BY DEF Inv, Exchange, Ends, Live
<1>7. Attached(c)'
  BY <1>2, <1>4, <1>5, <1>6 DEF Attached, Live
<1>8. Due(c)'
  BY <1>2, <1>4, <1>5 DEF Due
<1>9. QED
  BY <1>3, <1>5, <1>7, <1>8, OthersAhead

\* Connections accepted, greeted, given up, and closed unaccepted.
LEMMA MainAhead ==
  ASSUME Inv, Ahead, NEW c \in Clients, Accept(c) \/ Greet(c) \/ GreetFails(c), UNCHANGED clientVars
  PROVE  Ahead'
<1>1. /\ LinkShape /\ session \in [Clients -> SessionState] /\ Exchange(c) /\ Attached(c) /\ Due(c)
      /\ listening => running
  BY DEF Inv, Ranges, Ahead
<1>2. /\ running /\ running' = running /\ listening' = listening /\ at' = at /\ line' = line
      /\ \A d \in Clients : d # c => link'[d] = link[d] /\ session'[d] = session[d] /\ (main' = d <=> main = d)
  <2>1. \A d \in Clients : d # c => link'[d] = link[d]
    BY <1>1, LinkFacts DEF Accept, Greet, GreetFails
  <2>2. \A d \in Clients : d # c => session'[d] = session[d]
    BY <1>1 DEF Accept, Greet, GreetFails
  <2>3. \A d \in Clients : d # c => (main' = d <=> main = d)
    BY RpcServerAssumption DEF Accept, Greet, GreetFails
  <2>4. QED
    BY <2>1, <2>2, <2>3 DEF Accept, Greet, GreetFails, clientVars
<1>3. session[c].at = "none" /\ at[c] # "exited" /\ (at[c] = "waiting" => line[c] = OddLine)
  <2>1. session[c].at = "none"
    BY <1>1 DEF Accept, Greet, GreetFails, Exchange, Ends
  <2>2. QED
    BY <1>1, <2>1 DEF Exchange, Working, Upward, Requested
<1>4. CASE Accept(c)
  <2>1. link'[c].server = "open" /\ main' = c /\ session' = session
    BY <1>1, <1>4, LinkFacts DEF Accept
  <2>2. Attached(c)' /\ Due(c)'
    BY <1>2, <1>3, <2>1 DEF Attached, Due, Live
  <2>3. QED
    BY <1>2, <2>2, OthersAhead
<1>5. CASE Greet(c)
  <2>1. link'[c].server = link[c].server /\ link[c].server = "open"
    <3>1. link'[c].server = link[c].server
      <4> DEFINE received == IF link[c].client = "open" THEN Append(link[c].down, "header") ELSE link[c].down
      <4>1. link'[c] = [link[c] EXCEPT !.up = Tail(link[c].up), !.down = received]
        BY <1>1, <1>5, LinkFacts DEF Greet
      <4> HIDE DEF received
      <4>2. QED
        BY <1>1, <4>1, LinkFacts
    <3>2. QED
      BY <1>1, <1>5, <3>1 DEF Greet, Attached
  <2>2. session'[c].at = "reading" /\ main' = "accepting"
    BY <1>1, <1>5 DEF Greet, SessionState
  <2>3. Attached(c)' /\ Due(c)'
    BY <1>2, <1>3, <2>1, <2>2, RpcServerAssumption DEF Attached, Due, Live
  <2>4. QED
    BY <1>2, <2>3, OthersAhead
<1>6. CASE GreetFails(c)
  <2>1. link' = link /\ session' = session /\ main' = "dead" /\ main = c
    BY <1>6 DEF GreetFails
  <2>2. at[c] \in Over
    BY <1>1, <1>6 DEF GreetFails, Exchange, Ends
  <2>3. Attached(c)' /\ Due(c)'
    BY <1>1, <1>2, <1>3, <2>1, <2>2, RpcServerAssumption DEF Attached, Due, Live
  <2>4. QED
    BY <1>2, <2>3, OthersAhead
<1>7. QED
  BY <1>4, <1>5, <1>6

LEMMA CollectAhead ==
  ASSUME Inv, Ahead, CollectListener, UNCHANGED clientVars
  PROVE  Ahead'
<1>1. /\ running' = running /\ ~listening' /\ session' = session /\ main' = main
      /\ at' = at /\ line' = line
  BY DEF CollectListener, clientVars
<1>2. SUFFICES ASSUME NEW d \in Clients PROVE Attached(d)' /\ Due(d)'
  BY <1>1 DEF Ahead
<1>3. LinkShape /\ Exchange(d) /\ Attached(d) /\ Due(d)
  BY DEF Inv, Ahead
<1>4. link[d] = [client |-> link[d].client, server |-> link[d].server,
                 up |-> link[d].up, down |-> link[d].down]
  BY <1>3, LinkFacts
<1>5. link'[d] = IF link[d].server = "backlog" THEN [link[d] EXCEPT !.server = "closed"] ELSE link[d]
  BY DEF CollectListener, CloseServer
<1>6. CASE link[d].server = "backlog"
  <2>1. /\ link'[d].server = "closed" /\ link'[d].up = link[d].up /\ link'[d].down = link[d].down
        /\ session[d].at = "none" /\ main # d
    BY <1>3, <1>4, <1>5, <1>6 DEF Exchange, Ends
  <2>2. QED
    BY <1>1, <1>3, <2>1 DEF Attached, Due, Live
<1>7. CASE link[d].server # "backlog"
  BY <1>1, <1>3, <1>5, <1>7 DEF Attached, Due, Live
<1>8. QED
  BY <1>6, <1>7

LEMMA SessionAhead ==
  ASSUME Inv, Ahead, NEW c \in Clients, SessionStep(c)
  PROVE  Ahead'
<1>1. /\ LinkShape /\ session \in [Clients -> SessionState] /\ Exchange(c) /\ Attached(c) /\ Due(c)
      /\ UNCHANGED clientVars
  BY DEF Inv, Ranges, Ahead, SessionStep
<1>2. at' = at /\ line' = line
  BY <1>1 DEF clientVars
<1>3. Live(c) => main # c /\ link[c].server = "open"
  BY <1>1 DEF Exchange, Ends, Attached, Live
<1>4. CASE ReadMethod(c) \/ ReadArgs(c)
  <2>1. /\ Live(c) /\ session'[c].at \in {"args", "invoking"}
        /\ running' = running /\ listening' = listening /\ main' = main
        /\ \A d \in Clients : d # c => session'[d] = session[d]
    BY <1>1, <1>4 DEF ReadMethod, ReadArgs, Live, SessionState
  <2>2. link'[c].server = link[c].server /\ \A d \in Clients : d # c => link'[d] = link[d]
    BY <1>1, <1>4, LinkFacts DEF ReadMethod, ReadArgs, ReadUp
  <2>3. Attached(c)' /\ Due(c)'
    BY <1>1, <1>2, <1>3, <2>1, <2>2 DEF Attached, Due, Live
  <2>4. QED
    BY <1>2, <2>1, <2>2, <2>3, OthersAhead
<1>5. CASE EndOfStream(c)
  <2>1. session[c].at \in {"reading", "args"} /\ link[c].up = <<>> /\ at[c] \in Over /\ EndSession(c)
    BY <1>1, <1>5 DEF EndOfStream, AtEndUp, Exchange, Ends
  <2>2. at[c] # "exited"
    BY <1>1, <2>1, Short DEF Due, Exchange, Upward, Working, Requested
  <2>3. QED
    BY <1>1, <2>1, <2>2, EndSessionAhead DEF Over, Live
<1>6. CASE CallLot(c) \/ CallOther(c)
  <2>1. /\ session[c].at = "invoking" /\ session[c].method \in {"in", "out", "free", "hello", "hashCode"}
        /\ session'[c].at = "replying" /\ UNCHANGED <<link, running, listening, main>>
        /\ \A d \in Clients : d # c => session'[d] = session[d]
    BY <1>1, <1>6 DEF CallLot, CallOther, Return, SessionState
  <2>2. at[c] # "exited"
    BY <1>1, <2>1, InvokeFacts DEF Exchange, Working
  <2>3. Attached(c)' /\ Due(c)'
    BY <1>1, <1>2, <1>3, <2>1, <2>2 DEF Attached, Due, Live
  <2>4. QED
    BY <1>2, <2>1, <2>3, OthersAhead
<1>7. CASE CallThrows(c)
  <2>1. session[c].at = "invoking" /\ session[c].method = "notify" /\ EndSession(c)
    BY <1>7 DEF CallThrows
  <2>2. at[c] \in {"waiting", "dead"} /\ link[c].down = <<>>
    BY <1>1, <2>1, InvokeFacts DEF Exchange, Working
  <2>3. QED
    BY <1>1, <2>1, <2>2, EndSessionAhead DEF Live
<1>8. CASE CallExit(c)
  BY <1>1, <1>8, StopAhead DEF CallExit
<1>9. CASE WriteReply(c)
  <2>1. session[c].at = "replying" /\ Live(c) /\ at[c] \in {"waiting", "dead"}
    BY <1>1, <1>9, InvokeFacts DEF WriteReply, Live, Due
  <2>2. CASE SendDown(c, session[c].reply) /\ session' = [session EXCEPT ![c].at = "reading"]
             /\ UNCHANGED <<running, listening, main, count>>
    <3>1. session'[c].at = "reading" /\ \A d \in Clients : d # c => session'[d] = session[d]
      BY <1>1, <2>2 DEF SessionState
    <3>2. /\ link'[c].server = link[c].server /\ \A d \in Clients : d # c => link'[d] = link[d]
          /\ link[c].client = "open" => link'[c].down = Append(link[c].down, session[c].reply)
      BY <1>1, <2>2, LinkFacts DEF SendDown
    <3>3. link[c].down = <<>> /\ (at[c] = "waiting" => link[c].client = "open")
      BY <1>1, <2>1, InvokeFacts DEF Exchange, Ends, Over
    <3>4. at[c] = "waiting" => link'[c].down # <<>>
      <4>1. Append(<<>>, session[c].reply) # <<>>
        BY Short
      <4>2. QED
        BY <3>2, <3>3, <4>1
    <3>5. Attached(c)' /\ Due(c)'
      BY <1>1, <1>2, <1>3, <2>1, <2>2, <3>1, <3>2, <3>4 DEF Attached, Due, Live
    <3>6. QED
      BY <1>2, <2>2, <3>1, <3>2, <3>5, OthersAhead
  <2>3. CASE link[c].client = "closed" /\ EndSession(c)
    <3>1. at[c] = "dead"
      BY <1>1, <2>1, <2>3 DEF Exchange, Ends, Over
    <3>2. QED
      BY <1>1, <2>1, <2>3, <3>1, EndSessionAhead
  <2>4. QED
    BY <1>9, <2>2, <2>3 DEF WriteReply
<1>10. QED
  BY <1>4, <1>5, <1>6, <1>7, <1>8, <1>9 DEF SessionStep, Serve, Invoke

LEMMA StepAhead == Inv /\ Ahead /\ [Next]_vars => Ahead'
<1> SUFFICES ASSUME Inv, Ahead, [Next]_vars PROVE Ahead'
  OBVIOUS
<1>1. CASE \E c \in Clients : ClientStep(c) \/ UserStep(c)
  BY <1>1, ClientStepAhead
<1>2. CASE \E c \in Clients : MainStep(c) \/ SessionStep(c)
  BY <1>2, MainAhead, SessionAhead DEF MainStep
<1>3. CASE ProcessStep
  BY <1>3, StopAhead, CollectAhead DEF ProcessStep, AcceptFails, LastThreadEnds
<1>4. CASE UNCHANGED vars
  BY <1>4 DEF vars, Ahead, Attached, Due, Live
<1>5. QED
  BY <1>1, <1>2, <1>3, <1>4 DEF Next, Idle

LEMMA AheadAlways == Spec => [](Inv /\ Ahead)
BY InitInv, InitAhead, StepInv, StepAhead, PTL DEF Spec

\* Whatever happens to the server and to other clients, a client that waits has
\* somebody at work on its request, or has its answer or the end of its stream
\* to read: the state that makes it wait for ever is not reachable.
LEMMA NeverInVainCorrect == Spec => []NeverInVain
<1>1. Inv /\ Ahead => NeverInVain
  <2> SUFFICES ASSUME Inv, Ahead, NEW c \in Clients, at[c] = "waiting", line[c] # OddLine
               PROVE  link[c].down # <<>> \/ link[c].server = "closed" \/ Attended(c)
    BY DEF NeverInVain
  <2>1. Exchange(c) /\ Attached(c) /\ Due(c)
    BY DEF Inv, Ahead
  <2>2. Requested(c)
    BY <2>1 DEF Exchange, Working, Upward
  <2>3. CASE session[c].at = "ended"
    BY <2>1, <2>3 DEF Attached
  <2>4. CASE session[c].at # "ended"
    <3>1. running
      BY <2>1, <2>2, <2>4 DEF Attached, Live, Requested
    <3>2. QED
      BY <2>1, <2>2, <2>4, <3>1, Short DEF Requested, Due, Attended
  <2>5. QED
    BY <2>3, <2>4
<1>2. QED
  BY <1>1, AheadAlways, PTL

\* A client that waits for the header of the server has it to read, or has its
\* own before a live main, or is told that there will be none, or is in the
\* backlog of a main that has died.
LEMMA WelcomeOnItsWayCorrect == Spec => []WelcomeOnItsWay
<1>1. Inv /\ Ahead => WelcomeOnItsWay
  <2> SUFFICES ASSUME Inv, Ahead, NEW c \in Clients, at[c] = "greeting"
               PROVE  \/ link[c].down # <<>> \/ link[c].server = "closed"
                      \/ /\ running /\ link[c].up # <<>>
                         /\ main = c \/ (listening /\ link[c].server = "backlog" /\ main # "dead")
                      \/ main = "dead" /\ link[c].server = "backlog"
    BY DEF WelcomeOnItsWay
  <2>1. Exchange(c) /\ Attached(c) /\ (listening => running)
    BY DEF Inv, Ahead
  <2>2. link[c].down = (IF session[c].at = "none" THEN <<>> ELSE <<"header">>)
        /\ (Quiet(c) \/ (session[c].at = "none" /\ link[c].up = <<"header">>))
    BY <2>1 DEF Exchange, Upward, Downward
  <2>3. CASE session[c].at # "none"
    BY <2>2, <2>3, Short
  <2>4. CASE session[c].at = "none"
    <3>1. link[c].up # <<>> /\ link[c].server \in {"backlog", "open", "closed"}
      BY <2>1, <2>2, <2>4, Short DEF Quiet, Exchange, Ends
    <3>2. QED
      BY <2>1, <2>4, <3>1 DEF Attached, Over
  <2>5. QED
    BY <2>3, <2>4
<1>2. QED
  BY <1>1, AheadAlways, PTL

\* An exit that was sent ends the server, or is still on its way to do so.
LEMMA ExitOnItsWayCorrect == Spec => []ExitOnItsWay
<1>1. Inv /\ Ahead => ExitOnItsWay
  <2> SUFFICES ASSUME Inv, Ahead, NEW c \in Clients, at[c] = "exited", running
               PROVE  Attended(c) /\ session[c].at # "replying"
    BY DEF ExitOnItsWay
  <2>1. Exchange(c) /\ Due(c)
    BY DEF Inv, Ahead
  <2>2. Requested(c) /\ session[c].at \notin {"replying", "ended"}
    BY <2>1 DEF Exchange, Working, Upward, Due
  <2>3. QED
    BY <2>1, <2>2, Short DEF Requested, Due, Attended
<1>2. QED
  BY <1>1, AheadAlways, PTL

\* For any clients, lines and amounts: no client waits for an answer that nobody
\* is about to send it, none for a header but in the backlog of a main that has
\* died, and no exit is lost, whoever dies meanwhile.
THEOREM OnItsWayCorrect == Spec => []OnItsWay
BY NeverInVainCorrect, WelcomeOnItsWayCorrect, ExitOnItsWayCorrect, PTL DEF OnItsWay
=============================================================================
