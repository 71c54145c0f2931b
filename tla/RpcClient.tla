----------------------------- MODULE RpcClient -----------------------------
(***************************************************************************)
(* The client of rpcparkingsim: it connects, exchanges the stream headers  *)
(* and then turns each line that is typed into a method and its arguments, *)
(* sends them as two objects and waits for one object.  main declares the  *)
(* exceptions it meets and so dies of them.  A word that is no method of   *)
(* ParkingLotService is reported, and the next line is read: no step here. *)
(***************************************************************************)
EXTENDS ObjectStreams

CONSTANTS Methods,     \* the methods without arguments that users name
          NotANumber,  \* a second word that is no number
          MaxLines     \* how many lines each user types: bounds the runs only

ASSUME RpcClientAssumption ==
  /\ Methods \subseteq {"free", "hello", "hashCode", "notify", "exit"}
  /\ NotANumber \notin Amounts
  /\ MaxLines \in [Clients -> Nat]

VARIABLES at,     \* where main is
          line,   \* the line it works on
          typed   \* how many lines were typed

clientVars == <<at, line, typed>>

\* The ways in which the process ends: by itself, or by an exception or signal.
Over == {"exited", "dead"}

Proper == [method : Methods, args : {<<>>}] \cup [method : {"in", "out"}, args : {<<n>> : n \in Amounts}]
BadNumber == [method : {"in", "out"}, args : {<<NotANumber>>}]

\* No word at all, or three and more: no branch of main takes it.
OddLine == [method |-> "odd", args |-> <<>>]
NoLine == [method |-> "none", args |-> <<>>]

ClientInit ==
  /\ at = [c \in Clients |-> "dialling"]
  /\ line = [c \in Clients |-> NoLine]
  /\ typed = [c \in Clients |-> 0]

Goto(c, to) == at' = [at EXCEPT ![c] = to]

\* The process ends.  Of what it did, a request that it had sent remains.
End(c, how) ==
  /\ Goto(c, how)
  /\ line' = [line EXCEPT ![c] = IF at[c] = "waiting" THEN @ ELSE NoLine]
  /\ CloseClient(c)
  /\ UNCHANGED typed

Dial(c) ==
  /\ at[c] = "dialling"
  /\ Connect(c)
  /\ Goto(c, "connected")
  /\ UNCHANGED <<line, typed>>

\* System.exit(1)
Refused(c) ==
  /\ at[c] = "dialling"
  /\ End(c, "dead")

\* new ObjectOutputStream
SendHeader(c) ==
  /\ at[c] = "connected"
  /\ SendUp(c, "header")
  /\ Goto(c, "greeting")
  /\ UNCHANGED <<line, typed>>

\* A slip: the client prompts before it has read the header.
ReadHeaderLater(c) ==
  /\ at[c] = "greeting"
  /\ link[c].down # <<>>
  /\ Goto(c, "prompt")
  /\ UNCHANGED <<link, line, typed>>

\* new ObjectInputStream
ReadHeader(c) ==
  /\ at[c] = "greeting"
  /\ link[c].down # <<>>
  /\ ReadDown(c)
  /\ Goto(c, "prompt")
  /\ UNCHANGED <<line, typed>>

Type(c, l) ==
  /\ at[c] = "prompt"
  /\ typed[c] < MaxLines[c]
  /\ line' = [line EXCEPT ![c] = l]
  /\ Goto(c, IF l = OddLine THEN "waiting" ELSE "sending")
  /\ typed' = [typed EXCEPT ![c] = @ + 1]
  /\ UNCHANGED link

\* readLine returns null, and split throws.
EndOfInput(c) ==
  /\ at[c] = "prompt"
  /\ End(c, "dead")

SendMethod(c) ==
  /\ at[c] = "sending"
  /\ SendUp(c, line[c].method)
  /\ Goto(c, "sendingArgs")
  /\ UNCHANGED <<line, typed>>

\* Writing to a server that has gone may throw.
SendThrows(c) ==
  /\ at[c] \in {"connected", "sending", "sendingArgs"}
  /\ link[c].server = "closed"
  /\ End(c, "dead")

\* Integer.valueOf throws when half of the request has been sent.
NumberThrows(c) ==
  /\ at[c] = "sendingArgs"
  /\ line[c] \in BadNumber
  /\ End(c, "dead")

\* After exit the client waits for no answer.
SendArgs(c) ==
  /\ at[c] = "sendingArgs"
  /\ line[c] \notin BadNumber
  /\ IF line[c].method = "exit"
       THEN /\ link' = [link EXCEPT ![c].up = Append(@, line[c].args),
                                    ![c].client = "closed", ![c].down = <<>>]
            /\ Goto(c, "exited")
       ELSE /\ SendUp(c, line[c].args)
            /\ Goto(c, "waiting")
  /\ UNCHANGED <<line, typed>>

Receive(c) ==
  /\ at[c] = "waiting"
  /\ link[c].down # <<>>
  /\ Head(link[c].down).type = "String"
  /\ ReadDown(c)
  /\ Goto(c, "prompt")
  /\ line' = [line EXCEPT ![c] = NoLine]
  /\ UNCHANGED typed

\* (String) ois.readObject() of an object that is no String
CastThrows(c) ==
  /\ at[c] = "waiting"
  /\ link[c].down # <<>>
  /\ Head(link[c].down).type # "String"
  /\ End(c, "dead")

\* The stream ends where a header or an answer was due.
ReadThrows(c) ==
  /\ at[c] \in {"greeting", "waiting"}
  /\ AtEndDown(c)
  /\ End(c, "dead")

\* The user kills the client.
Kill(c) ==
  /\ at[c] \notin Over \cup {"dialling"}
  /\ End(c, "dead")

Proceed(c) ==
  \/ SendHeader(c) \/ ReadHeader(c)
  \/ SendMethod(c) \/ SendArgs(c) \/ SendThrows(c) \/ NumberThrows(c)
  \/ Receive(c) \/ CastThrows(c) \/ ReadThrows(c)
=============================================================================
