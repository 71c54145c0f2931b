-------------------- MODULE SynchronizedParkingLotProofs --------------------
(***************************************************************************)
(* Proofs about SynchronizedParkingLot, for any number of threads, any     *)
(* capacity and any width of int.                                          *)
(***************************************************************************)
EXTENDS SynchronizedParkingLot, TLAPS

\* Wrapping brings the sum or difference of two ints back into the range.
LEMMA WrapInRange ==
  ASSUME NEW x \in Int, x >= -2 * MaxInt - 2, x <= 2 * MaxInt + 1
  PROVE  Wrap(x) \in JavaInt
BY LotAssumption, JavaIntsAssumption DEF Wrap, JavaInt

\* The argument of a call is an int, whichever method is called.
LEMMA ArgumentInRange ==
  ASSUME NEW o \in Operation \cup {NoCall}
  PROVE  o.n \in JavaInt
<1>1. 0 \in JavaInt /\ 1 \in JavaInt
  BY LotAssumption, JavaIntsAssumption DEF JavaInt
<1>2. CASE o \in [method : {"park", "unpark"}, n : Amounts]
  BY <1>2, LotAssumption, JavaIntsAssumption
<1>3. CASE o \in [method : {"parkOne", "unparkOne", "remaining"}, n : {1}]
  BY <1>1, <1>3
<1>4. CASE o = NoCall
  BY <1>1, <1>4 DEF NoCall
<1>5. QED
  BY <1>2, <1>3, <1>4 DEF Operation

\* Every field and local keeps to the values its declaration allows.
LEMMA TypeCorrect == Spec => []TypeOK
<1>1. Init => TypeOK
  BY LotAssumption, JavaIntsAssumption DEF Init, TypeOK, JavaInt
<1>2. TypeOK /\ [Next]_vars => TypeOK'
  <2> SUFFICES ASSUME TypeOK, [Next]_vars PROVE TypeOK'
    OBVIOUS
  <2> USE DEF TypeOK, Goto
  <2>1. ASSUME NEW t \in Threads, NEW o \in Operation, Call(t, o) PROVE TypeOK'
    BY <2>1 DEF Call
  <2>2. ASSUME NEW t \in Threads, Enter(t) PROVE TypeOK'
    BY <2>2 DEF Enter
  <2>3. ASSUME NEW t \in Threads, Admit(t) PROVE TypeOK'
    BY <2>3 DEF Admit
  <2>4. ASSUME NEW t \in Threads, Reject(t) PROVE TypeOK'
    BY <2>4, LotAssumption, JavaIntsAssumption DEF Reject, JavaInt
  <2>5. ASSUME NEW t \in Threads, Remaining(t) PROVE TypeOK'
    <3>1. Wrap(Capacity - count) \in JavaInt
      BY WrapInRange, LotAssumption, JavaIntsAssumption DEF JavaInt
    <3>2. QED
      BY <2>5, <3>1 DEF Remaining
  <2>6. ASSUME NEW t \in Threads, Load(t) PROVE TypeOK'
    BY <2>6 DEF Load
  <2>7. ASSUME NEW t \in Threads, Store(t) PROVE TypeOK'
    <3>1. op[t].n \in JavaInt /\ acc[t] \in JavaInt
      BY ArgumentInRange
    <3>2. Wrap(acc[t] + op[t].n) \in JavaInt /\ Wrap(acc[t] - op[t].n) \in JavaInt
      BY <3>1, WrapInRange, LotAssumption, JavaIntsAssumption DEF JavaInt
    <3>3. {0, 1} \subseteq JavaInt
      BY LotAssumption, JavaIntsAssumption DEF JavaInt
    <3>4. QED
      BY <2>7, <3>2, <3>3 DEF Store
  <2>8. ASSUME NEW t \in Threads, Exit(t) PROVE TypeOK'
    BY <2>8, LotAssumption, JavaIntsAssumption DEF Exit, JavaInt
  <2>9. CASE UNCHANGED vars
    BY <2>9 DEF vars
  <2>10. QED
    BY <2>1, <2>2, <2>3, <2>4, <2>5, <2>6, <2>7, <2>8, <2>9 DEF Next, Inside
<1>3. QED
  BY <1>1, <1>2, PTL DEF Spec

\* The monitor does its work: one thread at a time is between entry and exit,
\* the guard it tested still holds when it writes count, and the value it
\* writes is computed from the current one, so no update is lost.
THEOREM MonitorCorrect == Spec => []MonitorInv
<1>1. Init => MonitorInv
  BY LotAssumption, JavaIntsAssumption DEF Init, MonitorInv
<1>2. TypeOK /\ MonitorInv /\ [Next]_vars => MonitorInv'
  <2> SUFFICES ASSUME TypeOK, MonitorInv, [Next]_vars PROVE MonitorInv'
    OBVIOUS
  <2> USE LotAssumption, JavaIntsAssumption DEF TypeOK, MonitorInv, Goto
  <2>1. ASSUME NEW t \in Threads, NEW o \in Operation, Call(t, o) PROVE MonitorInv'
    BY <2>1 DEF Call, Admits
  <2>2. ASSUME NEW t \in Threads, Enter(t) PROVE MonitorInv'
    BY <2>2 DEF Enter
  <2>3. ASSUME NEW t \in Threads, Admit(t) PROVE MonitorInv'
    BY <2>3 DEF Admit, Admits
  <2>4. ASSUME NEW t \in Threads, Reject(t) PROVE MonitorInv'
    BY <2>4 DEF Reject, Admits
  <2>5. ASSUME NEW t \in Threads, Remaining(t) PROVE MonitorInv'
    BY <2>5 DEF Remaining, Admits
  <2>6. ASSUME NEW t \in Threads, Load(t) PROVE MonitorInv'
    BY <2>6 DEF Load, Admits
  <2>7. ASSUME NEW t \in Threads, Store(t) PROVE MonitorInv'
    <3>1. monitor = t /\ monitor' = t /\ pc' = [pc EXCEPT ![t] = "exit"]
      BY <2>7 DEF Store
    <3>2. \A u \in Threads : pc'[u] \notin {"load", "store"}
      BY <3>1
    <3>3. QED
      BY <3>1, <3>2
  <2>8. ASSUME NEW t \in Threads, Exit(t) PROVE MonitorInv'
    <3>1. monitor = t /\ monitor' = NoThread /\ pc' = [pc EXCEPT ![t] = "idle"]
      BY <2>8 DEF Exit
    <3>2. \A u \in Threads : pc'[u] \notin {"test", "load", "store", "exit"}
      BY <3>1
    <3>3. QED
      BY <3>1, <3>2
  <2>9. CASE UNCHANGED vars
    BY <2>9 DEF vars, Admits
  <2>10. QED
    BY <2>1, <2>2, <2>3, <2>4, <2>5, <2>6, <2>7, <2>8, <2>9 DEF Next, Inside
<1>3. QED
  BY <1>1, <1>2, TypeCorrect, PTL DEF Spec

\* For a safe call no sum the lot evaluates overflows: the guard of each method
\* decides the question its text asks, and what is stored is the sum.
LEMMA ContractArithmetic ==
  ASSUME NEW o \in Operation, Safe(o), TypeOK, OccupancyBound
  PROVE  /\ o.n \in Nat
         /\ o.method \in {"park", "parkOne", "unpark", "unparkOne", "remaining"}
         /\ o.method \in {"park", "parkOne"}
              => (Admits(o) <=> count + o.n <= Capacity)
         /\ o.method \in {"unpark", "unparkOne"}
              => (Admits(o) <=> o.n <= count)
         /\ o.method = "remaining" => ~Admits(o)
         /\ o.method \in {"park", "parkOne"} /\ Admits(o)
              => Wrap(count + o.n) = count + o.n
         /\ Wrap(count - o.n) = count - o.n
<1>1. count \in 0..MaxInt /\ Capacity \in Int /\ Capacity <= MaxInt /\ MaxInt \in Nat
  BY LotAssumption, JavaIntsAssumption DEF TypeOK, OccupancyBound, JavaInt
<1>2. CASE o \in [method : {"park", "unpark"}, n : Amounts]
  <2>1. o.method \in {"park", "unpark"} /\ o.n \in Amounts
    BY <1>2
  <2>2. o.n \in Int /\ o.n <= MaxInt
    <3>1. o.n \in JavaInt
      BY ArgumentInRange
    <3>2. QED
      BY <1>1, <3>1 DEF JavaInt
  <2>3. o.n >= 0 /\ o.n + Capacity <= MaxInt
    BY <2>1 DEF Safe
  <2>4. count + o.n <= MaxInt /\ count - o.n >= -MaxInt - 1
    BY <1>1, <2>2, <2>3 DEF OccupancyBound
  <2>5. Wrap(count + o.n) = count + o.n /\ Wrap(count - o.n) = count - o.n
    BY <1>1, <2>2, <2>3, <2>4 DEF Wrap
  <2>6. QED
    BY <1>1, <2>1, <2>2, <2>3, <2>5 DEF Admits
<1>3. CASE o \in [method : {"parkOne", "unparkOne", "remaining"}, n : {1}]
  <2>1. o.method \in {"parkOne", "unparkOne", "remaining"} /\ o.n = 1
    BY <1>3
  <2>2. Wrap(count - o.n) = count - o.n
    BY <1>1, <2>1 DEF Wrap
  <2>3. count < Capacity => Wrap(count + o.n) = count + o.n
    BY <1>1, <2>1 DEF Wrap
  <2>4. QED
    BY <1>1, <2>1, <2>2, <2>3 DEF Admits
<1>4. QED
  BY <1>2, <1>3 DEF Operation

\* A thread has a method to run exactly while it is in a call.
CallInv == \A t \in Threads : /\ pc[t] # "idle" => op[t] \in Operation
                              /\ pc[t] = "idle" => op[t] = NoCall

LEMMA CallCorrect == Spec => []CallInv
<1>1. Init => CallInv
  BY DEF Init, CallInv
<1>2. TypeOK /\ CallInv /\ [Next]_vars => CallInv'
  <2> SUFFICES ASSUME TypeOK, CallInv, [Next]_vars PROVE CallInv'
    OBVIOUS
  <2>1. CASE UNCHANGED <<pc, op>>
    BY <2>1 DEF CallInv
  <2>2. ASSUME NEW t \in Threads, NEW o \in Operation, Call(t, o) PROVE CallInv'
    BY <2>2 DEF CallInv, TypeOK, Call, Goto
  <2>3. ASSUME NEW t \in Threads, Enter(t) \/ Inside(t) PROVE CallInv'
    BY <2>3 DEF CallInv, TypeOK, Goto, Enter, Inside, Admit, Reject, Remaining,
                Load, Store, Exit
  <2>4. QED
    BY <2>1, <2>2, <2>3 DEF Next, vars
<1>3. QED
  BY <1>1, <1>2, TypeCorrect, PTL DEF Spec

\* A thread works on an operation of the class, whatever it passes.
LEMMA CallSafe ==
  ASSUME SafeAmounts, CallInv, NEW t \in Threads
  PROVE  Safe(op[t])
BY DEF SafeAmounts, Safe, CallInv, NoCall

\* What Store does for a safe call: all the cars come in and fit, or all go out
\* and were there.
LEMMA StoreInContract ==
  ASSUME TypeOK, CallInv, MonitorInv, OccupancyBound,
         NEW t \in Threads, Safe(op[t]), Store(t)
  PROVE  /\ count' \in Int
         /\ op[t].n >= 0
         /\ \/ /\ op[t].method \in {"park", "parkOne"}
               /\ count + op[t].n <= Capacity
               /\ count' = count + op[t].n
            \/ /\ op[t].method \in {"unpark", "unparkOne"}
               /\ op[t].n <= count
               /\ count' = count - op[t].n
         /\ OccupancyBound'
<1>1. op[t] \in Operation /\ pc[t] = "store" /\ Admits(op[t]) /\ acc[t] = count
  BY DEF CallInv, MonitorInv, Store, Goto
<1>2. op[t].n \in Nat /\ count \in Int /\ Capacity \in Int
  BY <1>1, ContractArithmetic, LotAssumption, JavaIntsAssumption DEF TypeOK, JavaInt
<1>3. CASE op[t].method \in {"park", "parkOne"}
  <2>1. count + op[t].n <= Capacity /\ Wrap(count + op[t].n) = count + op[t].n
    BY <1>1, <1>3, ContractArithmetic
  <2>2. count' = count + op[t].n
    BY <1>1, <1>3, <2>1 DEF Store
  <2>3. QED
    BY <1>2, <1>3, <2>1, <2>2 DEF OccupancyBound
<1>4. CASE op[t].method \in {"unpark", "unparkOne"}
  <2>1. op[t].n <= count /\ Wrap(count - op[t].n) = count - op[t].n
    BY <1>1, <1>4, ContractArithmetic
  <2>2. count' = count - op[t].n
    BY <1>1, <1>4, <2>1 DEF Store
  <2>3. QED
    BY <1>2, <1>4, <2>1, <2>2 DEF OccupancyBound
<1>5. QED
  BY <1>1, <1>3, <1>4, ContractArithmetic

\* A step of a thread whose call is safe, in a lot within its bounds, is a step of
\* the contract: Admit and Load are steps of the code only, Store grants, Reject
\* refuses, Remaining reports.
LEMMA StepKeepsContract ==
  ASSUME TypeOK, CallInv, MonitorInv, OccupancyBound, NEW t \in Threads, Safe(op[t]),
         (\E o \in Operation : Call(t, o)) \/ Enter(t) \/ Inside(t)
  PROVE  Atomic!Next \/ UNCHANGED Atomic!lotVars
<1> USE DEF TypeOK, Goto, Stage
<1>1. ASSUME NEW o \in Operation, Call(t, o) PROVE Atomic!Call(t, o)
  BY <1>1 DEF Call, Atomic!Call
<1>2. CASE Enter(t) \/ Admit(t) \/ Load(t)
  BY <1>2 DEF Enter, Admit, Load, Atomic!lotVars
<1>3. ASSUME Reject(t) PROVE Atomic!Refuse(t)
  <2>1. op[t] \in Operation
    BY <1>3 DEF CallInv, Reject
  <2>2. CASE op[t].method \in {"park", "parkOne"}
    <3>1. count + op[t].n > Capacity
      BY <1>3, <2>1, <2>2, ContractArithmetic, LotAssumption, JavaIntsAssumption
         DEF Reject, JavaInt
    <3>2. QED
      BY <1>3, <2>2, <3>1 DEF Reject, Atomic!Refuse, Atomic!Answer, Atomic!Parks
  <2>3. CASE op[t].method \in {"unpark", "unparkOne"}
    <3>1. op[t].n > count
      BY <1>3, <2>1, <2>3, ContractArithmetic DEF Reject, JavaInt
    <3>2. QED
      BY <1>3, <2>3, <3>1 DEF Reject, Atomic!Refuse, Atomic!Answer, Atomic!Unparks
  <2>4. QED
    BY <1>3, <2>1, <2>2, <2>3, ContractArithmetic DEF Reject
<1>4. ASSUME Remaining(t) PROVE Atomic!Report(t)
  <2>1. Wrap(Capacity - count) = Capacity - count
    BY LotAssumption, JavaIntsAssumption DEF Wrap, JavaInt, OccupancyBound
  <2>2. QED
    BY <1>4, <2>1 DEF Remaining, Atomic!Report, Atomic!Answer
<1>5. ASSUME Store(t) PROVE Atomic!Grant(t)
  BY <1>5, StoreInContract
     DEF Store, Atomic!Grant, Atomic!Answer, Atomic!Parks, Atomic!Unparks
<1>6. ASSUME Exit(t) PROVE Atomic!Return(t)
  BY <1>6 DEF Exit, Atomic!Return, NoCall, Atomic!NoCall
<1>7. Operation = Atomic!Operation
  BY DEF Operation, Atomic!Operation
<1>8. QED
  BY <1>1, <1>2, <1>3, <1>4, <1>5, <1>6, <1>7 DEF Inside, Atomic!Next

\* A step that changes anything of a thread changes where it is in its call.
LEMMA EveryStepMoves ==
  ASSUME TypeOK, NEW t \in Threads,
         (\E o \in Operation : Call(t, o)) \/ Enter(t) \/ Inside(t)
  PROVE  pc'[t] # pc[t]
BY DEF TypeOK, Goto, Call, Enter, Inside, Admit, Reject, Remaining, Load, Store, Exit

\* A lot within its bounds keeps its contract towards every call with a safe
\* argument, whatever the other threads pass, and for every width of int: it
\* takes an unsafe call to bring it out of its bounds.
THEOREM ContractCorrect == Spec => ContractKept
<1>1. TypeOK /\ CallInv /\ MonitorInv /\ [Next]_vars
        => [OccupancyBound /\ (\A t \in Threads : pc'[t] # pc[t] => Safe(op[t]))
              => Atomic!Next \/ UNCHANGED Atomic!lotVars]_vars
  <2> SUFFICES ASSUME TypeOK, CallInv, MonitorInv, Next, OccupancyBound,
                      \A t \in Threads : pc'[t] # pc[t] => Safe(op[t])
               PROVE  Atomic!Next \/ UNCHANGED Atomic!lotVars
    OBVIOUS
  <2>1. PICK t \in Threads : (\E o \in Operation : Call(t, o)) \/ Enter(t) \/ Inside(t)
    BY DEF Next
  <2>2. Safe(op[t])
    BY <2>1, EveryStepMoves
  <2>3. QED
    BY <2>1, <2>2, StepKeepsContract
<1>2. QED
  BY <1>1, TypeCorrect, CallCorrect, MonitorCorrect, PTL DEF Spec, ContractKept

\* When all arguments are safe the occupancy never leaves 0 .. Capacity, whatever
\* the threads do.
THEOREM OccupancyCorrect == SafeAmounts => (Spec => []OccupancyBound)
<1> SUFFICES ASSUME SafeAmounts PROVE Spec => []OccupancyBound
  OBVIOUS
<1>1. Init => OccupancyBound
  BY DEF Init, OccupancyBound
<1>2. TypeOK /\ CallInv /\ MonitorInv /\ OccupancyBound /\ [Next]_vars => OccupancyBound'
  <2> SUFFICES ASSUME TypeOK, CallInv, MonitorInv, OccupancyBound, [Next]_vars
               PROVE  OccupancyBound'
    OBVIOUS
  <2>1. CASE count' = count
    BY <2>1 DEF OccupancyBound
  <2>2. ASSUME NEW t \in Threads, Store(t) PROVE OccupancyBound'
    <3>1. OccupancyBound' /\ count' \in Int
      BY <2>2, CallSafe, StoreInContract
    <3>2. QED
      BY <3>1
  <2>3. QED
    BY <2>1, <2>2 DEF Next, Inside, Call, Enter, Admit, Reject, Remaining, Load, Exit, vars
<1>3. QED
  BY <1>1, <1>2, TypeCorrect, CallCorrect, MonitorCorrect, PTL DEF Spec

\* When all arguments are safe every call takes effect at once between its
\* invocation and its return, as the interface promises.
THEOREM Refinement == SafeAmounts => (Spec => Linearizable)
<1> SUFFICES ASSUME SafeAmounts PROVE Spec => Linearizable
  OBVIOUS
<1>1. Init => Atomic!Init
  BY DEF Init, Atomic!Init, Stage, NoCall, Atomic!NoCall
<1>2. TypeOK /\ CallInv /\ MonitorInv /\ OccupancyBound /\ [Next]_vars
        => [Atomic!Next]_(Atomic!lotVars)
  <2> SUFFICES ASSUME TypeOK, CallInv, MonitorInv, OccupancyBound, [Next]_vars
               PROVE  [Atomic!Next]_(Atomic!lotVars)
    OBVIOUS
  <2>1. CASE UNCHANGED vars
    BY <2>1 DEF vars, Atomic!lotVars, Stage
  <2>2. CASE Next
    BY <2>2, CallSafe, StepKeepsContract DEF Next
  <2>3. QED
    BY <2>1, <2>2
<1>3. QED
  BY <1>1, <1>2, TypeCorrect, CallCorrect, MonitorCorrect, OccupancyCorrect, PTL
     DEF Spec, Linearizable, Atomic!Spec
=============================================================================
