----------------------- MODULE AtomicParkingLotProofs -----------------------
(***************************************************************************)
(* Proofs about AtomicParkingLot, for any number of threads and any        *)
(* capacity.                                                               *)
(***************************************************************************)
EXTENDS AtomicParkingLot, FiniteSetTheorems, TLAPS

\* Every field and local keeps to the values its declaration allows.
THEOREM TypeCorrect == Spec => []TypeOK
<1>1. Init => TypeOK
  BY DEF Init, TypeOK
<1>2. TypeOK /\ [Next]_vars => TypeOK'
  <2> SUFFICES ASSUME TypeOK, [Next]_vars PROVE TypeOK'
    OBVIOUS
  <2> USE AtomicAssumption DEF TypeOK, Goto
  <2>1. ASSUME NEW t \in Threads, NEW o \in Operation, Call(t, o) PROVE TypeOK'
    BY <2>1 DEF Call
  <2>2. ASSUME NEW t \in Threads, Admit(t) PROVE TypeOK'
    BY <2>2 DEF Admit
  <2>3. ASSUME NEW t \in Threads, Reject(t) PROVE TypeOK'
    BY <2>3 DEF Reject
  <2>4. ASSUME NEW t \in Threads, Remaining(t) PROVE TypeOK'
    BY <2>4 DEF Remaining
  <2>5. ASSUME NEW t \in Threads, Update(t) PROVE TypeOK'
    BY <2>5 DEF Update
  <2>6. ASSUME NEW t \in Threads, Return(t) PROVE TypeOK'
    BY <2>6 DEF Return
  <2>7. CASE UNCHANGED vars
    BY <2>7 DEF vars
  <2>8. QED
    BY <2>1, <2>2, <2>3, <2>4, <2>5, <2>6, <2>7 DEF Next, Step
<1>3. QED
  BY <1>1, <1>2, PTL DEF Spec

\* At most all threads are pending.
LEMMA PendingSize ==
  ASSUME NEW S, S \subseteq Threads
  PROVE  /\ IsFiniteSet(S)
         /\ Cardinality(S) \in Nat
         /\ Cardinality(S) <= Cardinality(Threads)
         /\ Cardinality(Threads) \in Nat \ {0}
<1>1. IsFiniteSet(Threads) /\ Threads # {}
  BY AtomicAssumption
<1>2. IsFiniteSet(S) /\ Cardinality(S) <= Cardinality(Threads)
  BY <1>1, FS_Subset
<1>3. Cardinality(S) \in Nat /\ Cardinality(Threads) \in Nat
  BY <1>1, <1>2, FS_CardinalityType
<1>4. Cardinality(Threads) # 0
  BY <1>1, FS_EmptySet
<1>5. QED
  BY <1>2, <1>3, <1>4

\* A thread that passes the test becomes pending, one that moves the counter
\* ceases to be; each changes the number of pending threads by one.
LEMMA PendingMoves ==
  ASSUME TypeOK, NEW t \in Threads, NEW m
  PROVE  /\ Admit(t) => Pending(m)' = IF op[t].method = m THEN Pending(m) \cup {t}
                                                           ELSE Pending(m)
         /\ Admit(t) => t \notin Pending(m)
         /\ Update(t) => Pending(m)' = IF op[t].method = m THEN Pending(m) \ {t}
                                                            ELSE Pending(m)
         /\ Update(t) => (t \in Pending(m) <=> op[t].method = m)
BY DEF TypeOK, Admit, Update, Goto, Pending

\* A thread that is waiting to move the counter is in park() or unpark().
UpdateInv == \A t \in Threads : pc[t] = "update" => op[t].method \in {"parkOne", "unparkOne"}

LEMMA UpdateCorrect == Spec => []UpdateInv
<1>1. Init => UpdateInv
  BY DEF Init, UpdateInv
<1>2. TypeOK /\ UpdateInv /\ [Next]_vars => UpdateInv'
  BY DEF TypeOK, UpdateInv, Next, Step, Goto, Call, Admit, Admits, Reject, Remaining,
         Update, Return, vars
<1>3. QED
  BY <1>1, <1>2, TypeCorrect, PTL DEF Spec

\* However the threads interleave, the counter passes neither bound by more
\* than one car for every thread but one.
THEOREM OvershootCorrect == Spec => []OvershootBound
<1> DEFINE N == Cardinality(Threads)
           P == Cardinality(Pending("parkOne"))
           U == Cardinality(Pending("unparkOne"))
<1>1. Init => PendingBound
  <2> SUFFICES ASSUME Init PROVE PendingBound
    OBVIOUS
  <2>1. Pending("parkOne") = {} /\ Pending("unparkOne") = {}
    BY DEF Init, Pending
  <2>2. P = 0 /\ U = 0
    BY <2>1, FS_EmptySet
  <2>3. N \in Nat \ {0}
    BY PendingSize
  <2>4. QED
    BY <2>2, <2>3, AtomicAssumption DEF Init, PendingBound
<1>2. TypeOK /\ UpdateInv /\ PendingBound /\ [Next]_vars => PendingBound'
  <2> SUFFICES ASSUME TypeOK, UpdateInv, PendingBound, [Next]_vars PROVE PendingBound'
    OBVIOUS
  <2>0. /\ P \in Nat /\ P <= N /\ IsFiniteSet(Pending("parkOne"))
        /\ U \in Nat /\ U <= N /\ IsFiniteSet(Pending("unparkOne"))
        /\ P' \in Nat /\ P' <= N /\ U' \in Nat /\ U' <= N
        /\ N \in Nat \ {0} /\ count \in Int /\ Capacity \in Nat
    <3>1. \A m : Pending(m) \subseteq Threads /\ Pending(m)' \subseteq Threads
      BY DEF Pending
    <3>2. QED
      BY <3>1, PendingSize, AtomicAssumption DEF TypeOK
  <2>1. CASE UNCHANGED <<count, Pending("parkOne"), Pending("unparkOne")>>
    BY <2>1 DEF PendingBound
  <2>2. ASSUME NEW t \in Threads, Admit(t) PROVE PendingBound'
    <3>1. CASE op[t].method = "parkOne"
      <4>1. Pending("unparkOne")' = Pending("unparkOne") /\ count' = count /\ count < Capacity
        BY <2>2, <3>1, PendingMoves DEF Admit, Admits
      <4>2. QED
        BY <2>0, <4>1 DEF PendingBound
    <3>2. CASE op[t].method = "unparkOne"
      <4>1. Pending("parkOne")' = Pending("parkOne") /\ count' = count /\ count > 0
        BY <2>2, <3>2, PendingMoves DEF Admit, Admits
      <4>2. QED
        BY <2>0, <4>1 DEF PendingBound
    <3>3. QED
      BY <2>2, <3>1, <3>2 DEF Admit, Admits
  <2>3. ASSUME NEW t \in Threads, Update(t) PROVE PendingBound'
    <3>1. CASE op[t].method = "parkOne"
      <4>1. P' = P - 1
        BY <2>0, <2>3, <3>1, PendingMoves, FS_RemoveElement
      <4>2. Pending("unparkOne")' = Pending("unparkOne") /\ count' = count + 1
        BY <2>3, <3>1, PendingMoves DEF Update
      <4>3. QED
        BY <2>0, <4>1, <4>2 DEF PendingBound
    <3>2. CASE op[t].method = "unparkOne"
      <4>1. U' = U - 1
        BY <2>0, <2>3, <3>2, PendingMoves, FS_RemoveElement
      <4>2. Pending("parkOne")' = Pending("parkOne") /\ count' = count - 1
        BY <2>3, <3>2, PendingMoves DEF Update
      <4>3. QED
        BY <2>0, <4>1, <4>2 DEF PendingBound
    <3>3. QED
      BY <2>3, <3>1, <3>2 DEF UpdateInv, Update, Goto
  <2>4. ASSUME NEW t \in Threads,
               (\E o \in Operation : Call(t, o)) \/ Reject(t) \/ Remaining(t) \/ Return(t)
        PROVE  UNCHANGED <<count, Pending("parkOne"), Pending("unparkOne")>>
    <3>1. count' = count
      BY <2>4 DEF Call, Reject, Remaining, Return
    <3>2. \A u \in Threads : /\ pc'[u] = "update" <=> pc[u] = "update"
                             /\ pc[u] = "update" => op'[u] = op[u]
      BY <2>4 DEF TypeOK, Goto, Call, Reject, Remaining, Return
    <3>3. QED
      BY <3>1, <3>2 DEF Pending
  <2>5. CASE UNCHANGED vars
    BY <2>1, <2>5 DEF vars, Pending
  <2>6. QED
    BY <2>1, <2>2, <2>3, <2>4, <2>5 DEF Next, Step
<1>3. TypeOK /\ PendingBound => OvershootBound
  <2> SUFFICES ASSUME TypeOK, PendingBound PROVE OvershootBound
    OBVIOUS
  <2>1. P \in Nat /\ U \in Nat /\ N \in Nat \ {0} /\ count \in Int
    <3>1. \A m : Pending(m) \subseteq Threads
      BY DEF Pending
    <3>2. QED
      BY <3>1, PendingSize DEF TypeOK
  <2>2. QED
    BY <2>1, AtomicAssumption DEF PendingBound, OvershootBound
<1>4. QED
  BY <1>1, <1>2, <1>3, TypeCorrect, UpdateCorrect, PTL DEF Spec

\* With one thread nothing can run between the test and the update.
SoloInv == \A t \in Threads : /\ pc[t] = "update" => Admits(op[t])
                              /\ pc[t] # "idle" => op[t] \in Operation
                              /\ pc[t] = "idle" => op[t] = NoCall

\* A lot that a single thread calls keeps the contract of the interface:
\* every call takes effect at once, and within the bounds.
THEOREM SoloRefinement ==
  ASSUME NEW s, Threads = {s}
  PROVE  Spec => Linearizable
<1>1. Init => Atomic!Init /\ SoloInv
  BY DEF Init, SoloInv, Atomic!Init, Stage, NoCall, Atomic!NoCall
<1>2. TypeOK /\ SoloInv /\ [Next]_vars => SoloInv'
  <2> SUFFICES ASSUME TypeOK, SoloInv, [Next]_vars PROVE SoloInv'
    OBVIOUS
  <2> USE DEF TypeOK, SoloInv, Goto
  <2>1. ASSUME NEW t \in Threads, NEW o \in Operation, Call(t, o) PROVE SoloInv'
    BY <2>1 DEF Call
  <2>2. ASSUME NEW t \in Threads, Step(t) PROVE SoloInv'
    <3>1. t = s
      OBVIOUS
    <3>2. QED
      BY <2>2, <3>1 DEF Step, Admit, Admits, Reject, Remaining, Update, Return
  <2>3. CASE UNCHANGED vars
    BY <2>3 DEF vars, Admits
  <2>4. QED
    BY <2>1, <2>2, <2>3 DEF Next
<1>3. TypeOK /\ SoloInv /\ [Next]_vars => [Atomic!Next]_(Atomic!lotVars)
  <2> SUFFICES ASSUME TypeOK, SoloInv, [Next]_vars
               PROVE  [Atomic!Next]_(Atomic!lotVars)
    OBVIOUS
  <2> USE DEF TypeOK, SoloInv, Goto, Stage
  <2>1. ASSUME NEW t \in Threads, NEW o \in Operation, Call(t, o)
        PROVE  Atomic!Call(t, o)
    BY <2>1 DEF Call, Atomic!Call
  <2>2. ASSUME NEW t \in Threads, Admit(t) PROVE UNCHANGED Atomic!lotVars
    BY <2>2 DEF Admit, Atomic!lotVars
  <2>3. ASSUME NEW t \in Threads, Reject(t) PROVE Atomic!Refuse(t)
    <3>1. op[t] \in Operation /\ op[t].n = 1 /\ op[t].method \in {"parkOne", "unparkOne"}
      BY <2>3 DEF Reject, Operation
    <3>2. QED
      BY <2>3, <3>1, AtomicAssumption
         DEF Reject, Admits, Atomic!Refuse, Atomic!Answer, Atomic!Parks, Atomic!Unparks
  <2>4. ASSUME NEW t \in Threads, Remaining(t) PROVE Atomic!Report(t)
    BY <2>4 DEF Remaining, Atomic!Report, Atomic!Answer
  <2>5. ASSUME NEW t \in Threads, Update(t) PROVE Atomic!Grant(t)
    <3>1. op[t] \in Operation /\ op[t].n = 1 /\ Admits(op[t])
      BY <2>5 DEF Update, Operation
    <3>2. QED
      BY <2>5, <3>1, AtomicAssumption
         DEF Update, Admits, Atomic!Grant, Atomic!Answer, Atomic!Parks, Atomic!Unparks
  <2>6. ASSUME NEW t \in Threads, Return(t) PROVE Atomic!Return(t)
    BY <2>6 DEF Return, Atomic!Return, NoCall, Atomic!NoCall
  <2>7. CASE UNCHANGED vars
    BY <2>7 DEF vars, Atomic!lotVars
  <2>8. Operation = Atomic!Operation
    BY DEF Operation, Atomic!Operation
  <2>9. QED
    BY <2>1, <2>2, <2>3, <2>4, <2>5, <2>6, <2>7, <2>8 DEF Next, Step, Atomic!Next
<1>4. QED
  BY <1>1, <1>2, <1>3, TypeCorrect, PTL DEF Spec, Linearizable, Atomic!Spec
=============================================================================
