--------------------------- MODULE CarParkProofs ---------------------------
(***************************************************************************)
(* Proofs about CarPark, for any number of cars and any capacity.          *)
(***************************************************************************)
EXTENDS CarPark, FiniteSetTheorems, TLAPS

\* The cars in the lot are finitely many, and one more or one fewer changes
\* their number by one.
LEMMA CarsInLot ==
  ASSUME NEW S, S \subseteq Cars
  PROVE  /\ IsFiniteSet(S)
         /\ Cardinality(S) \in Nat
         /\ \A c \in Cars : Cardinality(S \cup {c}) <= Cardinality(S) + 1
         /\ \A c : Cardinality(S \ {c}) <= Cardinality(S)
         /\ \A c : Cardinality(S \cup {c}) \in Nat /\ Cardinality(S \ {c}) \in Nat
<1>1. IsFiniteSet(S)
  BY CarParkAssumption, FS_Subset
<1>2. \A c : IsFiniteSet(S \cup {c}) /\ IsFiniteSet(S \ {c})
  BY <1>1, FS_AddElement, FS_RemoveElement
<1>3. Cardinality(S) \in Nat
      /\ \A c : Cardinality(S \cup {c}) \in Nat /\ Cardinality(S \ {c}) \in Nat
  BY <1>1, <1>2, FS_CardinalityType
<1>4. \A c : Cardinality(S \cup {c}) <= Cardinality(S) + 1
  BY <1>1, <1>3, FS_AddElement
<1>5. \A c : Cardinality(S \ {c}) <= Cardinality(S)
  BY <1>1, <1>3, FS_RemoveElement
<1>6. QED
  BY <1>1, <1>3, <1>4, <1>5

\* The lot starts empty.
LEMMA InitLot == Init => LotInv
<1> SUFFICES ASSUME Init PROVE LotInv
  OBVIOUS
<1>1. Cardinality(cars) = 0
  BY FS_EmptySet DEF Init
<1>2. QED
  BY <1>1, CarParkAssumption
     DEF Init, LotInv, TypeOK, LockInv, RoomInv, CapacityBound, LotLedger, HasSpot, Calls,
         Queries

\* Everything the invariants say survives every step.
LEMMA StepLot == LotInv /\ [Next]_vars => LotInv'
<1> SUFFICES ASSUME LotInv, [Next]_vars PROVE LotInv'
  OBVIOUS
<1>1. cars \in SUBSET Cars /\ Capacity \in Nat /\ Cardinality(cars) \in 0..Capacity
  BY CarsInLot, CarParkAssumption DEF LotInv, TypeOK, CapacityBound
<1> USE CarParkAssumption
    DEF LotInv, TypeOK, LockInv, RoomInv, CapacityBound, LotLedger, HasSpot, Calls, Queries,
        Ended
<1>2. ASSUME NEW c \in Cars, WakeUp(c) PROVE LotInv'
  BY <1>2 DEF WakeUp
<1>3. ASSUME NEW c \in Cars, Interrupt(c) PROVE LotInv'
  BY <1>3 DEF Interrupt
<1>4. ASSUME NEW c \in Cars, Acquire(c) PROVE LotInv'
  BY <1>4 DEF Acquire
<1>5. ASSUME NEW c \in Cars, RemainingCapacity(c) PROVE LotInv'
  BY <1>1, <1>5 DEF RemainingCapacity
<1>6. ASSUME NEW c \in Cars, ParkThrows(c) PROVE LotInv'
  BY <1>6 DEF ParkThrows
<1>7. ASSUME NEW c \in Cars, FindSpot(c) PROVE LotInv'
  BY <1>7 DEF FindSpot
<1>8. ASSUME NEW c \in Cars, AddCar(c) PROVE LotInv'
  <2>1. Cardinality(cars') <= Capacity
    BY <1>1, <1>8, CarsInLot DEF AddCar
  <2>2. TypeOK' /\ RoomInv'
    BY <1>8 DEF AddCar
  <2>3. LockInv'
    <3>1. step' = [step EXCEPT ![c] = "done"] /\ UNCHANGED <<lock, phase>>
      BY <1>8 DEF AddCar
    <3>2. \A d \in Cars : step'[d] # "admitted"
      BY <1>8, <3>1 DEF AddCar
    <3>3. QED
      BY <1>8, <3>1, <3>2 DEF AddCar
  <2>4. LotLedger'
    <3>1. ASSUME NEW d \in Cars, d # c PROVE (d \in cars' <=> d \in cars) /\ (HasSpot(d)' <=> HasSpot(d))
      BY <1>8, <3>1 DEF AddCar
    <3>2. (c \in cars' <=> HasSpot(c)') /\ phase'[c] = phase[c]
      BY <1>8 DEF AddCar
    <3>3. \A d \in Cars : raised'[d] => raised[d]
      BY <1>8 DEF AddCar
    <3>4. QED
      BY <1>8, <3>1, <3>2, <3>3 DEF AddCar
  <2>5. QED
    BY <2>1, <2>2, <2>3, <2>4
<1>9. ASSUME NEW c \in Cars, RemoveCar(c) PROVE LotInv'
  <2>1. Cardinality(cars') <= Capacity
    <3>1. cars' = cars \ {c}
      BY <1>9 DEF RemoveCar
    <3>2. Cardinality(cars \ {c}) \in Nat /\ Cardinality(cars \ {c}) <= Cardinality(cars)
      BY <1>1, CarsInLot
    <3>3. QED
      BY <1>1, <3>1, <3>2
  <2>2. TypeOK' /\ RoomInv'
    BY <1>9 DEF RemoveCar
  <2>3. LockInv'
    <3>1. step' = [step EXCEPT ![c] = "done"] /\ UNCHANGED <<lock, phase>>
      BY <1>9 DEF RemoveCar
    <3>2. \A d \in Cars : step'[d] # "admitted"
      BY <1>9, <3>1 DEF RemoveCar
    <3>3. QED
      BY <1>9, <3>1, <3>2 DEF RemoveCar
  <2>4. LotLedger'
    <3>1. ASSUME NEW d \in Cars, d # c PROVE (d \in cars' <=> d \in cars) /\ (HasSpot(d)' <=> HasSpot(d))
      BY <1>9, <3>1 DEF RemoveCar
    <3>2. (c \in cars' <=> HasSpot(c)') /\ phase'[c] = phase[c]
      BY <1>9 DEF RemoveCar
    <3>3. \A d \in Cars : raised'[d] => raised[d]
      BY <1>9 DEF RemoveCar
    <3>4. QED
      BY <1>9, <3>1, <3>2, <3>3 DEF RemoveCar
  <2>5. QED
    BY <2>1, <2>2, <2>3, <2>4
<1>10. ASSUME NEW c \in Cars, Release(c) PROVE LotInv'
  <2>1. /\ lock = c /\ step[c] = "done" /\ phase[c] \in Calls
        /\ lock' = NoCar /\ UNCHANGED <<cars, room, raised>>
        /\ step' = [step EXCEPT ![c] = "outside"]
        /\ phase' = [phase EXCEPT ![c] = After(c)]
    BY <1>10 DEF Release
  <2>2. /\ After(c) \in Calls \cup Ended \cup {"parked"}
        /\ After(c) # "reporting"
        /\ After(c) = "interrupted" <=> phase[c] = "reporting"
        /\ After(c) \in {"announcing", "parking", "parked"} => room[c] > 0
        /\ raised[c] <=> After(c) = "crashed"
        /\ After(c) = "unparking" => FALSE
        /\ After(c) = "parked" <=> phase[c] = "parking" /\ ~raised[c]
    <3>1. CASE raised[c]
      BY <2>1, <3>1 DEF After
    <3>2. CASE ~raised[c]
      <4>1. phase[c] \in {"checking", "announcing", "parking", "unparking", "leaving",
                         "refused", "reporting"}
        BY <2>1
      <4>2. /\ phase[c] = "checking" => After(c) = IF room[c] > 0 THEN "announcing" ELSE "refused"
            /\ phase[c] = "announcing" => After(c) = "parking"
            /\ phase[c] = "parking" => After(c) = "parked"
            /\ phase[c] = "unparking" => After(c) = "leaving"
            /\ phase[c] = "leaving" => After(c) = "gone"
            /\ phase[c] = "refused" => After(c) = "turnedAway"
            /\ phase[c] = "reporting" => After(c) = "interrupted"
        BY <3>2 DEF After
      <4>3. phase[c] \in {"announcing", "parking"} => room[c] > 0
        OBVIOUS
      <4>4. QED
        BY <3>2, <4>1, <4>2, <4>3
    <3>3. QED
      BY <3>1, <3>2
  <2>3. TypeOK'
    BY <2>1, <2>2
  <2>4. LockInv'
    BY <2>1, <2>2
  <2>5. RoomInv'
    BY <2>1, <2>2
  <2>6. LotLedger'
    <3>1. ASSUME NEW d \in Cars, d # c PROVE HasSpot(d)' <=> HasSpot(d)
      BY <2>1, <3>1
    <3>2. HasSpot(c)' <=> HasSpot(c)
      BY <2>1, <2>2
    <3>3. QED
      BY <2>1, <2>2, <3>1, <3>2
  <2>7. QED
    BY <2>1, <2>3, <2>4, <2>5, <2>6
<1>11. CASE UNCHANGED vars
  BY <1>11 DEF vars
<1>12. QED
  BY <1>2, <1>3, <1>4, <1>5, <1>6, <1>7, <1>8, <1>9, <1>10, <1>11 DEF Next, Run, Done

\* The lot keeps its books, whatever the cars do: types, mutual exclusion,
\* what the threads know of the lot, its capacity and who is in it.
THEOREM LotCorrect == Spec => []LotInv
BY InitLot, StepLot, PTL DEF Spec

\* Every variable keeps its range: no car reads a negative number of spots.
THEOREM TypeCorrect == Spec => []TypeOK
BY LotCorrect, PTL DEF LotInv

\* The lot is never overbooked, although the check and the parking are two
\* separate calls.
THEOREM CapacityCorrect == Spec => []CapacityBound
BY LotCorrect, PTL DEF LotInv

\* The lot holds exactly the cars that have parked and not left.
THEOREM LedgerCorrect == Spec => []LotLedger
BY LotCorrect, PTL DEF LotInv

\* The entries of a car whose thread is outside the lot, inside it, and about to
\* leave it, as ParkingLot sees them.
Entries(c) ==
  /\ step[c] = "outside" =>
       StageOf(c) = "idle" /\ OpOf(c) = Lot!NoCall /\ ReplyOf(c) = 0
  /\ step[c] # "outside" =>
       /\ OpOf(c).n = 1 /\ OpOf(c) \in Lot!Operation
       /\ OpOf(c).method = "remaining" <=> phase[c] \in Queries
       /\ OpOf(c).method = "parkOne" <=> phase[c] = "parking"
       /\ OpOf(c).method = "unparkOne" <=> phase[c] = "unparking"
  /\ step[c] \in {"inside", "admitted"} => StageOf(c) = "called" /\ ReplyOf(c) = 0
  /\ step[c] = "done" => StageOf(c) = "answered"
  /\ step[c] = "done" /\ phase[c] = "checking" => ReplyOf(c) = room[c]
  /\ step[c] = "done" /\ phase[c] \in Queries \ {"checking"} =>
       ReplyOf(c) = Capacity - Cardinality(cars)
  /\ step[c] = "done" /\ phase[c] \in {"parking", "unparking"} =>
       ReplyOf(c) = IF raised[c] THEN 0 ELSE 1

LEMMA StageFacts == LotInv => \A c \in Cars : Entries(c)
<1> SUFFICES ASSUME LotInv, NEW c \in Cars PROVE Entries(c)
  OBVIOUS
<1> USE DEF LotInv, TypeOK, LockInv, Calls, Queries
<1>1. CASE step[c] = "outside"
  BY <1>1 DEF Entries, StageOf, OpOf, ReplyOf, Lot!NoCall
<1>2. CASE step[c] # "outside"
  <2>1. phase[c] \in Queries \/ phase[c] = "parking" \/ phase[c] = "unparking"
    BY <1>2
  <2>2. OpOf(c) = [method |-> CASE phase[c] \in Queries   -> "remaining"
                                 [] phase[c] = "parking"   -> "parkOne"
                                 [] phase[c] = "unparking" -> "unparkOne", n |-> 1]
    BY <1>2 DEF OpOf
  <2>3. /\ OpOf(c).n = 1 /\ OpOf(c) \in Lot!Operation
        /\ OpOf(c).method = "remaining" <=> phase[c] \in Queries
        /\ OpOf(c).method = "parkOne" <=> phase[c] = "parking"
        /\ OpOf(c).method = "unparkOne" <=> phase[c] = "unparking"
    BY <2>1, <2>2 DEF Lot!Operation
  <2>4. /\ step[c] \in {"inside", "admitted"} => StageOf(c) = "called"
        /\ step[c] = "done" => StageOf(c) = "answered"
    BY DEF StageOf
  <2>5. /\ step[c] \in {"inside", "admitted"} => ReplyOf(c) = 0
        /\ step[c] = "done" /\ phase[c] = "checking" => ReplyOf(c) = room[c]
        /\ step[c] = "done" /\ phase[c] \in Queries \ {"checking"} =>
             ReplyOf(c) = Capacity - Cardinality(cars)
        /\ step[c] = "done" /\ phase[c] \in {"parking", "unparking"} =>
             ReplyOf(c) = IF raised[c] THEN 0 ELSE 1
    BY <2>1 DEF ReplyOf
  <2>6. QED
    BY <1>2, <2>3, <2>4, <2>5 DEF Entries
<1>3. QED
  BY <1>1, <1>2

\* The same after a step.
LEMMA StageFactsNext == LotInv' => \A c \in Cars : Entries(c)'
<1>1. LotInv' => (\A c \in Cars : Entries(c))'
  BY StageFacts, PTL
<1>2. QED
  BY <1>1

\* The car that has the lock is the only one that a step of its thread in the
\* lot concerns: the entries of all others are those of idle threads, before
\* and after.
LEMMA OthersIdle ==
  ASSUME LotInv, LotInv', NEW c \in Cars, lock \in {NoCar, c}, lock' \in {NoCar, c}
  PROVE  \A d \in Cars \ {c} :
           StageOf(d)' = StageOf(d) /\ OpOf(d)' = OpOf(d) /\ ReplyOf(d)' = ReplyOf(d)
<1> SUFFICES ASSUME NEW d \in Cars, d # c
             PROVE  StageOf(d)' = StageOf(d) /\ OpOf(d)' = OpOf(d) /\ ReplyOf(d)' = ReplyOf(d)
  OBVIOUS
<1>1. step[d] = "outside" /\ step'[d] = "outside"
  BY CarParkAssumption DEF LotInv, LockInv
<1>2. QED
  BY <1>1 DEF StageOf, OpOf, ReplyOf

\* The same for the whole of the mapped state.
LEMMA OneThread ==
  ASSUME LotInv, LotInv', NEW c \in Cars, lock \in {NoCar, c}, lock' \in {NoCar, c}
  PROVE  /\ [d \in Cars |-> StageOf(d)]' = [[d \in Cars |-> StageOf(d)] EXCEPT ![c] = StageOf(c)']
         /\ [d \in Cars |-> OpOf(d)]' = [[d \in Cars |-> OpOf(d)] EXCEPT ![c] = OpOf(c)']
         /\ [d \in Cars |-> ReplyOf(d)]' = [[d \in Cars |-> ReplyOf(d)] EXCEPT ![c] = ReplyOf(c)']
BY OthersIdle

\* The lots of cars implement the counting lot: every call is one of its calls,
\* in order, takes effect at one instant and returns what that instant says,
\* for any number of cars, spots and interruptions.
THEOREM Refinement == Spec => Linearizable
<1>1. Init => Lot!Init
  BY FS_EmptySet DEF Init, Lot!Init, Lot!NoCall, StageOf, OpOf, ReplyOf
<1>2. LotInv /\ LotInv' /\ [Next]_vars => [Lot!Next]_(Lot!lotVars)
  <2> SUFFICES ASSUME LotInv, LotInv', [Next]_vars PROVE [Lot!Next]_(Lot!lotVars)
    OBVIOUS
  <2> USE DEF Calls, Queries
  <2>1. /\ Cardinality(cars) \in Nat /\ Capacity \in Nat
        /\ \A c \in Cars : step[c] # "outside" <=> lock = c
        /\ step \in [Cars -> {"outside", "inside", "admitted", "done"}]
    BY CarsInLot, CarParkAssumption DEF LotInv, TypeOK, LockInv
  <2>2. ASSUME NEW c \in Cars, WakeUp(c) \/ Interrupt(c) PROVE UNCHANGED Lot!lotVars
    <3>1. phase[c] \in {"starting", "parked"} /\ UNCHANGED <<cars, lock, step, room, raised>>
          /\ \A d \in Cars \ {c} : phase'[d] = phase[d]
      BY <2>2 DEF WakeUp, Interrupt, LotInv, TypeOK
    <3>2. step[c] = "outside"
      BY <3>1 DEF LotInv, LockInv
    <3>3. \A d \in Cars : StageOf(d)' = StageOf(d) /\ OpOf(d)' = OpOf(d) /\ ReplyOf(d)' = ReplyOf(d)
      BY <3>1, <3>2 DEF StageOf, OpOf, ReplyOf
    <3>4. QED
      BY <3>1, <3>3 DEF Lot!lotVars
  <2>3. ASSUME NEW c \in Cars, Acquire(c) PROVE Lot!Next
    <3>1. step[c] = "outside" /\ step'[c] = "inside" /\ lock = NoCar /\ lock' = c /\ cars' = cars
      BY <2>1, <2>3 DEF Acquire
    <3>2. StageOf(c) = "idle" /\ ReplyOf(c) = 0
      BY <3>1, StageFacts DEF Entries
    <3>3. StageOf(c)' = "called" /\ ReplyOf(c)' = 0 /\ OpOf(c)' \in Lot!Operation
      BY <3>1, StageFactsNext DEF Entries
    <3>4. Lot!Call(c, OpOf(c)')
      BY <3>1, <3>2, <3>3, OneThread DEF Lot!Call
    <3>5. QED
      BY <3>3, <3>4 DEF Lot!Next
  <2>4. ASSUME NEW c \in Cars, RemainingCapacity(c) PROVE Lot!Next
    <3>1. /\ step[c] = "inside" /\ step'[c] = "done" /\ phase[c] \in Queries /\ phase' = phase
          /\ cars' = cars /\ lock = c /\ lock' = c
          /\ phase[c] = "checking" => room'[c] = Capacity - Cardinality(cars)
      BY <2>1, <2>4 DEF RemainingCapacity, LotInv, TypeOK
    <3>2. StageOf(c) = "called" /\ OpOf(c).method = "remaining"
      BY <3>1, StageFacts DEF Entries
    <3>3. StageOf(c)' = "answered" /\ ReplyOf(c)' = Capacity - Cardinality(cars)
      BY <3>1, StageFactsNext DEF Entries
    <3>4. OpOf(c)' = OpOf(c)
      BY <3>1 DEF OpOf
    <3>5. Lot!Report(c)
      BY <3>1, <3>2, <3>3, <3>4, OneThread DEF Lot!Report, Lot!Answer
    <3>6. QED
      BY <3>5 DEF Lot!Next
  <2>5. ASSUME NEW c \in Cars, ParkThrows(c) PROVE Lot!Next
    <3>1. /\ step[c] = "inside" /\ step'[c] = "done" /\ phase[c] = "parking" /\ phase' = phase
          /\ cars' = cars /\ lock = c /\ lock' = c /\ raised'[c] = TRUE
          /\ Cardinality(cars) >= Capacity
      BY <2>1, <2>5 DEF ParkThrows, LotInv, TypeOK
    <3>2. StageOf(c) = "called" /\ OpOf(c).method = "parkOne" /\ OpOf(c).n = 1
      BY <3>1, StageFacts DEF Entries
    <3>3. StageOf(c)' = "answered" /\ ReplyOf(c)' = 0
      BY <3>1, StageFactsNext DEF Entries
    <3>4. OpOf(c)' = OpOf(c)
      BY <3>1 DEF OpOf
    <3>5. Cardinality(cars) + 1 > Capacity
      BY <2>1, <3>1
    <3>6. Lot!Refuse(c)
      BY <3>1, <3>2, <3>3, <3>4, <3>5, OneThread DEF Lot!Refuse, Lot!Answer, Lot!Parks
    <3>7. QED
      BY <3>6 DEF Lot!Next
  <2>6. ASSUME NEW c \in Cars, FindSpot(c) PROVE UNCHANGED Lot!lotVars
    <3>1. /\ step[c] = "inside" /\ step'[c] = "admitted" /\ phase' = phase
          /\ cars' = cars /\ lock = c /\ lock' = c
      BY <2>1, <2>6 DEF FindSpot
    <3>2. StageOf(c)' = StageOf(c) /\ OpOf(c)' = OpOf(c) /\ ReplyOf(c)' = ReplyOf(c)
      BY <3>1 DEF StageOf, OpOf, ReplyOf
    <3>3. QED
      BY <3>1, <3>2, OthersIdle DEF Lot!lotVars
  <2>7. ASSUME NEW c \in Cars, AddCar(c) PROVE Lot!Next
    <3>1. /\ step[c] = "admitted" /\ step'[c] = "done" /\ phase[c] = "parking" /\ phase' = phase
          /\ cars' = cars \cup {c} /\ lock = c /\ lock' = c /\ raised' = raised
          /\ Cardinality(cars) < Capacity
      BY <2>1, <2>7 DEF AddCar, LotInv, LockInv
    <3>2. c \notin cars /\ raised[c] = FALSE
      BY <3>1 DEF LotInv, TypeOK, LotLedger, HasSpot
    <3>3. Cardinality(cars') = Cardinality(cars) + 1
      BY <3>1, <3>2, CarsInLot, FS_AddElement DEF LotInv, TypeOK
    <3>4. StageOf(c) = "called" /\ OpOf(c).method = "parkOne" /\ OpOf(c).n = 1
      BY <3>1, StageFacts DEF Entries
    <3>5. StageOf(c)' = "answered" /\ ReplyOf(c)' = 1
      BY <3>1, <3>2, StageFactsNext DEF Entries
    <3>6. OpOf(c)' = OpOf(c)
      BY <3>1 DEF OpOf
    <3>7. Cardinality(cars) + 1 <= Capacity
      BY <2>1, <3>1
    <3>8. Lot!Answer(c, 1)
      BY <3>1, <3>4, <3>5, <3>6, OneThread DEF Lot!Answer
    <3>9. Lot!Grant(c)
      BY <3>3, <3>4, <3>7, <3>8 DEF Lot!Grant, Lot!Parks
    <3>10. QED
      BY <3>9 DEF Lot!Next
  <2>8. ASSUME NEW c \in Cars, RemoveCar(c) PROVE Lot!Next
    <3>1. /\ step[c] = "inside" /\ step'[c] = "done" /\ phase[c] = "unparking" /\ phase' = phase
          /\ cars' = cars \ {c} /\ lock = c /\ lock' = c /\ raised'[c] = (c \notin cars)
      BY <2>1, <2>8 DEF RemoveCar, LotInv, TypeOK
    <3>2. c \in cars /\ raised'[c] = FALSE
      BY <3>1 DEF LotInv, LotLedger, HasSpot
    <3>3. Cardinality(cars') = Cardinality(cars) - 1 /\ Cardinality(cars') \in Nat
      BY <3>1, <3>2, CarsInLot, FS_RemoveElement DEF LotInv, TypeOK
    <3>4. StageOf(c) = "called" /\ OpOf(c).method = "unparkOne" /\ OpOf(c).n = 1
      BY <3>1, StageFacts DEF Entries
    <3>5. StageOf(c)' = "answered" /\ ReplyOf(c)' = 1
      BY <3>1, <3>2, StageFactsNext DEF Entries
    <3>6. OpOf(c)' = OpOf(c)
      BY <3>1 DEF OpOf
    <3>7. 1 <= Cardinality(cars)
      BY <2>1, <3>3
    <3>8. Lot!Answer(c, 1)
      BY <3>1, <3>4, <3>5, <3>6, OneThread DEF Lot!Answer
    <3>9. Lot!Grant(c)
      BY <3>3, <3>4, <3>7, <3>8 DEF Lot!Grant, Lot!Unparks
    <3>10. QED
      BY <3>9 DEF Lot!Next
  <2>9. ASSUME NEW c \in Cars, Release(c) PROVE Lot!Next
    <3>1. step[c] = "done" /\ step'[c] = "outside" /\ lock = c /\ lock' = NoCar /\ cars' = cars
      BY <2>1, <2>9 DEF Release
    <3>2. StageOf(c) = "answered"
      BY <3>1, StageFacts DEF Entries
    <3>3. StageOf(c)' = "idle" /\ OpOf(c)' = Lot!NoCall /\ ReplyOf(c)' = 0
      BY <3>1, StageFactsNext DEF Entries
    <3>4. Lot!Return(c)
      BY <3>1, <3>2, <3>3, OneThread DEF Lot!Return
    <3>5. QED
      BY <3>4 DEF Lot!Next
  <2>10. CASE UNCHANGED vars
    BY <2>10 DEF vars, Lot!lotVars, StageOf, OpOf, ReplyOf
  <2>11. QED
    BY <2>2, <2>3, <2>4, <2>5, <2>6, <2>7, <2>8, <2>9, <2>10 DEF Next, Run, Done
<1>3. QED
  BY <1>1, <1>2, LotCorrect, PTL DEF Spec, Linearizable, Lot!Spec

\* The step to TurnedAwayForCause: the lot was full when the thread read that
\* there was no room, or when park() threw.
CauseInv ==
  \A c \in Cars :
    \/ phase[c] \in {"refused", "turnedAway", "crashed"}
    \/ raised[c]
    \/ phase[c] = "checking" /\ step[c] = "done" /\ room[c] = 0
    => Cardinality({d \in Cars : HadSpot(d)}) >= Capacity

\* A car that has had a spot has had it for good, and the lot only holds cars
\* that have one: so their number is at least that of the cars in the lot, and
\* never falls.
LEMMA HadSpotGrows ==
  ASSUME LotInv, [Next]_vars
  PROVE  /\ Cardinality({d \in Cars : HadSpot(d)}) \in Nat
         /\ Cardinality({d \in Cars : HadSpot(d)})' \in Nat
         /\ Cardinality({d \in Cars : HadSpot(d)})' >= Cardinality({d \in Cars : HadSpot(d)})
         /\ Cardinality({d \in Cars : HadSpot(d)}) >= Cardinality(cars)
<1> DEFINE H == {d \in Cars : HadSpot(d)}
<1>1. IsFiniteSet(H) /\ IsFiniteSet(H')
  BY CarParkAssumption, FS_Subset
<1>2. cars \subseteq H
  BY DEF LotInv, TypeOK, LotLedger, HadSpot
<1>3. H \subseteq H'
  <2>1. SUFFICES ASSUME NEW c \in Cars, HadSpot(c) PROVE HadSpot(c)'
    OBVIOUS
  <2> USE DEF HadSpot, HasSpot, LotInv, TypeOK, LockInv, RoomInv, LotLedger, Calls, Queries, Ended
  <2>2. ASSUME NEW d \in Cars, WakeUp(d) PROVE HadSpot(c)'
    BY <2>1, <2>2 DEF WakeUp
  <2>3. ASSUME NEW d \in Cars, Interrupt(d) PROVE HadSpot(c)'
    BY <2>1, <2>3 DEF Interrupt
  <2>4. ASSUME NEW d \in Cars, Acquire(d) \/ RemainingCapacity(d) PROVE HadSpot(c)'
    BY <2>1, <2>4 DEF Acquire, RemainingCapacity
  <2>5. ASSUME NEW d \in Cars, ParkThrows(d) \/ FindSpot(d) PROVE HadSpot(c)'
    BY <2>1, <2>5 DEF ParkThrows, FindSpot
  <2>6. ASSUME NEW d \in Cars, AddCar(d) PROVE HadSpot(c)'
    BY <2>1, <2>6 DEF AddCar
  <2>7. ASSUME NEW d \in Cars, RemoveCar(d) PROVE HadSpot(c)'
    BY <2>1, <2>7 DEF RemoveCar
  <2>8. ASSUME NEW d \in Cars, Release(d) PROVE HadSpot(c)'
    <3>1. /\ step[d] = "done" /\ phase[d] \in Calls /\ UNCHANGED <<cars, room, raised>>
          /\ step' = [step EXCEPT ![d] = "outside"] /\ phase' = [phase EXCEPT ![d] = After(d)]
      BY <2>8 DEF Release
    <3>2. CASE c # d
      BY <2>1, <3>1, <3>2
    <3>3. CASE c = d
      <4>1. ~raised[d] /\ phase[d] \in {"parking", "unparking", "leaving", "reporting"}
        BY <2>1, <3>1, <3>3
      <4>2. /\ phase[d] = "reporting" => After(d) = "interrupted"
            /\ phase[d] # "reporting" => After(d) \in {"parked", "leaving", "gone"}
        BY <4>1 DEF After
      <4>3. phase[d] = "reporting" => room[d] > 0
        BY <2>1, <3>1, <3>3
      <4>4. QED
        BY <3>1, <3>3, <4>2, <4>3
    <3>4. QED
      BY <3>2, <3>3
  <2>9. CASE UNCHANGED vars
    BY <2>1, <2>9 DEF vars
  <2>10. QED
    BY <2>2, <2>3, <2>4, <2>5, <2>6, <2>7, <2>8, <2>9 DEF Next, Run, Done
<1>4. Cardinality(H) \in Nat /\ Cardinality(H') \in Nat
  BY <1>1, FS_CardinalityType
<1>5. Cardinality(H) <= Cardinality(H')
  BY <1>1, <1>3, FS_Subset
<1>6. Cardinality(cars) <= Cardinality(H)
  BY <1>1, <1>2, FS_Subset
<1>7. Cardinality(cars) \in Nat
  BY CarsInLot DEF LotInv, TypeOK
<1>8. QED
  BY <1>4, <1>5, <1>6, <1>7

\* Whoever leaves without a spot leaves a lot whose spots have all been used,
\* for any number of cars and spots.
THEOREM TurnedAwayCorrect == Spec => []TurnedAwayForCause
<1>1. Init => CauseInv
  BY DEF Init, CauseInv
<1>2. LotInv /\ CauseInv /\ [Next]_vars => CauseInv'
  <2> SUFFICES ASSUME LotInv, CauseInv, [Next]_vars PROVE CauseInv'
    OBVIOUS
  <2> DEFINE N == Cardinality({d \in Cars : HadSpot(d)})
  <2>1. N \in Nat /\ N' \in Nat /\ N' >= N /\ N >= Cardinality(cars)
    BY HadSpotGrows
  <2>2. Cardinality(cars) \in Nat /\ Capacity \in Nat
    BY CarsInLot, CarParkAssumption DEF LotInv, TypeOK
  <2> DEFINE Out(c) == \/ phase[c] \in {"refused", "turnedAway", "crashed"}
                       \/ raised[c]
                       \/ phase[c] = "checking" /\ step[c] = "done" /\ room[c] = 0
  <2>3. \A c \in Cars : Out(c) => N >= Capacity
    BY DEF CauseInv
  <2>4. SUFFICES ASSUME NEW c \in Cars, Out(c)' PROVE Out(c) \/ Cardinality(cars) >= Capacity
    BY <2>1, <2>2, <2>3 DEF CauseInv
  <2> USE DEF LotInv, TypeOK, LockInv, RoomInv, LotLedger, Calls, Queries, Ended
  <2>5. ASSUME NEW d \in Cars, WakeUp(d) \/ Interrupt(d) \/ Acquire(d) PROVE Out(c)
    BY <2>4, <2>5 DEF WakeUp, Interrupt, Acquire
  <2>6. ASSUME NEW d \in Cars, RemainingCapacity(d) PROVE Out(c) \/ Cardinality(cars) >= Capacity
    BY <2>2, <2>4, <2>6 DEF RemainingCapacity
  <2>7. ASSUME NEW d \in Cars, ParkThrows(d) PROVE Cardinality(cars) >= Capacity \/ Out(c)
    BY <2>7 DEF ParkThrows
  <2>8. ASSUME NEW d \in Cars, FindSpot(d) \/ AddCar(d) PROVE Out(c)
    BY <2>4, <2>8 DEF FindSpot, AddCar
  <2>9. ASSUME NEW d \in Cars, RemoveCar(d) PROVE Out(c)
    <3>1. d \in cars
      BY <2>9 DEF RemoveCar, HasSpot
    <3>2. QED
      BY <2>4, <2>9, <3>1 DEF RemoveCar
  <2>10. ASSUME NEW d \in Cars, Release(d) PROVE Out(c)
    <3>1. /\ step[d] = "done" /\ phase[d] \in Calls /\ UNCHANGED <<room, raised>>
          /\ step' = [step EXCEPT ![d] = "outside"] /\ phase' = [phase EXCEPT ![d] = After(d)]
      BY <2>10 DEF Release
    <3>2. CASE c # d
      BY <2>4, <3>1, <3>2
    <3>3. CASE c = d
      <4>1. CASE ~raised[d]
        <5>1. After(d) \in {"refused", "turnedAway", "crashed"} => phase[d] = "refused" \/ (phase[d] = "checking" /\ room[d] = 0)
          BY <3>1, <4>1 DEF After
        <5>2. QED
          BY <2>4, <3>1, <3>3, <4>1, <5>1
      <4>2. QED
        BY <3>3, <4>1
    <3>4. QED
      BY <3>2, <3>3
  <2>11. CASE UNCHANGED vars
    BY <2>4, <2>11 DEF vars
  <2>12. QED
    BY <2>5, <2>6, <2>7, <2>8, <2>9, <2>10, <2>11 DEF Next, Run, Done
<1>3. CauseInv => TurnedAwayForCause
  BY DEF CauseInv, TurnedAwayForCause
<1>4. QED
  BY <1>1, <1>2, <1>3, LotCorrect, PTL DEF Spec

\* As many spots as cars, which is what Demo sets up: no car is refused and no
\* thread dies, in whatever order the cars come and go, and even if threads are
\* interrupted and leave their cars behind.
THEOREM NoneTurnedAwayCorrect == Spec => []NoneTurnedAway
<1>1. LotInv /\ TurnedAwayForCause => NoneTurnedAway
  <2> SUFFICES ASSUME LotInv, TurnedAwayForCause, Cardinality(Cars) <= Capacity,
                      NEW c \in Cars, phase[c] \in {"crashed", "refused", "turnedAway"}
               PROVE  FALSE
    BY DEF NoneTurnedAway
  <2> DEFINE H == {d \in Cars : HadSpot(d)}
  <2>1. c \notin H
    BY DEF HadSpot, HasSpot
  <2>2. H \subseteq Cars \ {c}
    BY <2>1
  <2>3. IsFiniteSet(Cars \ {c}) /\ Cardinality(Cars \ {c}) = Cardinality(Cars) - 1
    BY CarParkAssumption, FS_RemoveElement
  <2>4. Cardinality(H) <= Cardinality(Cars \ {c})
    BY <2>2, <2>3, FS_Subset
  <2>5. Cardinality(H) \in Nat /\ Cardinality(Cars) \in Nat
    BY CarParkAssumption, FS_CardinalityType, FS_Subset
  <2>6. Cardinality(H) >= Capacity
    BY DEF TurnedAwayForCause
  <2>7. QED
    BY <2>3, <2>4, <2>5, <2>6, CarParkAssumption
<1>2. QED
  BY <1>1, LotCorrect, TurnedAwayCorrect, PTL
=============================================================================
