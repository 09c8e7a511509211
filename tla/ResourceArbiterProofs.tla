----------------------- MODULE ResourceArbiterProofs -----------------------
(* Theorems about ResourceArbiter, for every set of threads and classes and *)
(* every configuration the code accepts.                                    *)
EXTENDS ResourceArbiter, TLAPS

USE DEF accounts, plans, Stage, Inside, Goes, HasRequest

-----------------------------------------------------------------------------
(* Pressure. *)

LEMMA MonusType ==
  ASSUME NEW a \in Nat, NEW b \in Nat
  PROVE  /\ Monus(a, b) \in Nat /\ Monus(a, b) <= a
         /\ Monus(a, b) = 0 <=> a <= b
         /\ a > b => Monus(a, b) = a - b
  BY DEF Monus

LEMMA RequestType ==
  ASSUME NEW r \in Request
  PROVE  r.class \in Class /\ r.bytes \in Size /\ r.bytes \in Nat /\ r.bytes > 0
  <1>1. r.class \in Class /\ r.bytes \in Size
    BY DEF Request
  <1>2. Size \subseteq Nat \ {0}
    BY ArbiterAssumption
  <1>3. r.bytes \in Nat \ {0}
    BY <1>1, <1>2
  <1> QED
    BY <1>1, <1>3

LEMMA ShortageType ==
  ASSUME TypeOK, NEW r \in Request
  PROVE  /\ GlobalShortage(r) \in Nat /\ ClassShortage(r) \in Nat
         /\ Total \in Nat /\ Hard[r.class] \in Nat /\ classUsed[r.class] \in Nat
  BY RequestType, ArbiterAssumption DEF TypeOK, GlobalShortage, ClassShortage, Monus

(* A request fits exactly when it is not pressed. *)
LEMMA FitsUnlessPressed ==
  ASSUME TypeOK, NEW r \in Request
  PROVE  Fits(r) <=> ~Pressed(r)
  BY RequestType, ArbiterAssumption DEF TypeOK, Fits, Pressed, GlobalShortage, ClassShortage, Monus

(* What falling usage does to a request's shortages, and to what a class can *)
(* contribute: nothing but relief.                                           *)
Falls == totalUsed' <= totalUsed /\ \A c \in Class : classUsed'[c] <= classUsed[c]

LEMMA FallingRelieves ==
  ASSUME TypeOK, TypeOK', Falls, NEW r \in Request
  PROVE  /\ GlobalShortage(r)' <= GlobalShortage(r)
         /\ ClassShortage(r)' <= ClassShortage(r)
         /\ Pressed(r)' => Pressed(r)
         /\ \A c \in Class : Contributes(r, c)' => Contributes(r, c)
  <1>1. r.class \in Class /\ r.bytes \in Nat /\ Total \in Nat /\ Hard[r.class] \in Nat
    BY RequestType, ArbiterAssumption
  <1>2. totalUsed' <= totalUsed /\ classUsed'[r.class] <= classUsed[r.class]
    BY <1>1 DEF Falls
  <1>3. /\ totalUsed \in Nat /\ totalUsed' \in Nat
        /\ classUsed[r.class] \in Nat /\ classUsed'[r.class] \in Nat
    BY <1>1 DEF TypeOK
  <1>4. GlobalShortage(r)' <= GlobalShortage(r)
    BY <1>1, <1>2, <1>3 DEF GlobalShortage, Monus
  <1>5. ClassShortage(r)' <= ClassShortage(r)
    BY <1>1, <1>2, <1>3 DEF ClassShortage, Monus
  <1>6. /\ GlobalShortage(r) \in Nat /\ GlobalShortage(r)' \in Nat
        /\ ClassShortage(r) \in Nat /\ ClassShortage(r)' \in Nat
    BY <1>1, <1>3 DEF GlobalShortage, ClassShortage, Monus
  <1>7. Pressed(r)' => Pressed(r)
    BY <1>4, <1>5, <1>6 DEF Pressed
  <1>8. ASSUME NEW c \in Class, Contributes(r, c)' PROVE Contributes(r, c)
    <2>1. classUsed'[c] <= classUsed[c] /\ classUsed[c] \in Nat /\ classUsed'[c] \in Nat /\ Protected[c] \in Nat
      BY ArbiterAssumption DEF Falls, TypeOK
    <2> QED
      BY <2>1, <1>4, <1>5, <1>6, <1>8 DEF Contributes
  <1> QED
    BY <1>4, <1>5, <1>7, <1>8

(* A candidate asked for nothing has nothing to contribute. *)
LEMMA NoDemandIsSpent ==
  ASSUME TypeOK, NEW r \in Request, FitsEmpty(r), NEW c \in Class,
         NEW g \in Nat, NEW l \in Nat, GlobalShortage(r) <= g, ClassShortage(r) <= l,
         Demand(r, c, g, l) = 0
  PROVE  ~Contributes(r, c)
  <1>1. /\ r.bytes \in Nat /\ r.bytes > 0 /\ Protected[c] \in Nat /\ classUsed[c] \in Nat
        /\ Hard[c] \in Nat /\ GlobalShortage(r) \in Nat /\ ClassShortage(r) \in Nat
    BY RequestType, ShortageType, ArbiterAssumption DEF TypeOK
  <1>2. ASSUME GlobalShortage(r) > 0, classUsed[c] > Protected[c] PROVE FALSE
    BY <1>1, <1>2 DEF Demand, Smaller, Larger, Reclaimable, Monus
  <1>3. ASSUME c = r.class, ClassShortage(r) > 0 PROVE FALSE
    <2>1. classUsed[c] > 0
      BY <1>1, <1>3 DEF ClassShortage, Monus, FitsEmpty
    <2> QED
      BY <1>1, <1>3, <2>1 DEF Demand, Smaller, Larger, Reclaimable
  <1> QED
    BY <1>2, <1>3 DEF Contributes
-----------------------------------------------------------------------------
(* The inductive invariant. *)

LEMMA InitIInv == Init => IInv
  <1> SUFFICES ASSUME Init PROVE IInv
    OBVIOUS
  <1> USE DEF Init
  <1>1. TypeOK
    BY DEF TypeOK
  <1>2. \A c \in Class : 0 <= Hard[c]
    BY ArbiterAssumption
  <1>3. HardLimits
    BY <1>2, ArbiterAssumption DEF HardLimits
  <1>4. HasRequest /\ GateExclusive /\ EvidenceIsExact /\ PressureIsBound /\ PassedOverIsSpent
    BY ArbiterAssumption DEF GateExclusive, EvidenceIsExact, PressureIsBound, PassedOverIsSpent
  <1> QED
    BY <1>1, <1>3, <1>4 DEF IInv

(* A thread enters, or does not. *)
LEMMA CallStep ==
  ASSUME IInv, NEW t \in Thread, Call(t)
  PROVE  IInv'
  <1> USE DEF IInv, Call, Enters
  <1>1. TypeOK' /\ HasRequest'
    BY DEF TypeOK
  <1>2. stage[t] = "idle"
    OBVIOUS
  <1>3. HardLimits' /\ GateExclusive' /\ EvidenceIsExact'
    BY <1>2 DEF TypeOK, HardLimits, GateExclusive, EvidenceIsExact
  <1>4. PressureIsBound'
    BY DEF TypeOK, PressureIsBound, GlobalShortage, ClassShortage
  <1>5. PassedOverIsSpent'
    BY DEF TypeOK, PassedOverIsSpent, Contributes, Pressed, GlobalShortage, ClassShortage
  <1> QED
    BY <1>1, <1>3, <1>4, <1>5

LEMMA AcquireStep ==
  ASSUME IInv, NEW t \in Thread, Acquire(t)
  PROVE  IInv'
  <1> USE ArbiterAssumption DEF IInv, Acquire, GateOpens
  <1>1. TypeOK' /\ HasRequest'
    BY DEF TypeOK
  <1>2. HardLimits' /\ GateExclusive'
    BY DEF TypeOK, HardLimits, GateExclusive
  <1>3. EvidenceIsExact'
    BY DEF TypeOK, GateExclusive, EvidenceIsExact
  <1>4. PressureIsBound'
    BY DEF TypeOK, PressureIsBound, GlobalShortage, ClassShortage
  <1>5. PassedOverIsSpent'
    BY DEF TypeOK, PassedOverIsSpent, Contributes, Pressed, GlobalShortage, ClassShortage
  <1> QED
    BY <1>1, <1>2, <1>3, <1>4, <1>5

LEMMA RefusePoisonedStep ==
  ASSUME IInv, NEW t \in Thread, RefusePoisoned(t)
  PROVE  IInv'
  <1> USE ArbiterAssumption DEF IInv, RefusePoisoned, GateOpens, Return
  <1>1. TypeOK' /\ HasRequest'
    BY DEF TypeOK
  <1>2. HardLimits' /\ GateExclusive' /\ EvidenceIsExact'
    BY DEF TypeOK, HardLimits, GateExclusive, EvidenceIsExact
  <1>4. PressureIsBound'
    BY DEF TypeOK, PressureIsBound, GlobalShortage, ClassShortage
  <1>5. PassedOverIsSpent'
    BY DEF TypeOK, PassedOverIsSpent, Contributes, Pressed, GlobalShortage, ClassShortage
  <1> QED
    BY <1>1, <1>2, <1>4, <1>5

LEMMA OwnerPanicsStep ==
  ASSUME IInv, NEW t \in Thread, OwnerPanics(t)
  PROVE  IInv'
  <1> USE ArbiterAssumption DEF IInv, OwnerPanics, Return
  <1>1. TypeOK' /\ HasRequest'
    BY DEF TypeOK
  <1>2. HardLimits' /\ GateExclusive' /\ EvidenceIsExact'
    BY DEF TypeOK, HardLimits, GateExclusive, EvidenceIsExact
  <1>4. PressureIsBound'
    BY DEF TypeOK, PressureIsBound, GlobalShortage, ClassShortage
  <1>5. PassedOverIsSpent'
    BY DEF TypeOK, PassedOverIsSpent, Contributes, Pressed, GlobalShortage, ClassShortage
  <1> QED
    BY <1>1, <1>2, <1>4, <1>5

LEMMA SetReclaimerStep ==
  ASSUME IInv, NEW c \in Class, SetReclaimer(c)
  PROVE  IInv'
  BY DEF IInv, SetReclaimer, TypeOK, HardLimits, GateExclusive, EvidenceIsExact,
     PressureIsBound, PassedOverIsSpent, Contributes, Pressed, GlobalShortage, ClassShortage

LEMMA MeasureStep ==
  ASSUME IInv, NEW t \in Thread, Measure(t)
  PROVE  IInv'
  <1> USE ArbiterAssumption DEF IInv, Measure
  <1>1. TypeOK' /\ HasRequest'
    <2>1. PICK first \in BOOLEAN, some \in SUBSET Class :
            /\ ownFirst' = [ownFirst EXCEPT ![t] = first]
            /\ todo' = [todo EXCEPT ![t] = some]
      <3>1. CASE FitsEmpty(request[t]) /\ Pressed(request[t])
        <4>1. (ClassShortage(request[t]) > 0) \in BOOLEAN /\ Class \in SUBSET Class
          OBVIOUS
        <4>2. /\ ownFirst' = [ownFirst EXCEPT ![t] = (ClassShortage(request[t]) > 0)]
              /\ todo' = [todo EXCEPT ![t] = Class]
          BY <3>1
        <4> QED
          BY <4>1, <4>2, Zenon
      <3>2. CASE ~(FitsEmpty(request[t]) /\ Pressed(request[t]))
        <4>1. ownFirst[t] \in BOOLEAN /\ todo[t] \in SUBSET Class
          BY DEF TypeOK
        <4>2. ownFirst' = [ownFirst EXCEPT ![t] = ownFirst[t]] /\ todo' = [todo EXCEPT ![t] = todo[t]]
          BY <3>2 DEF TypeOK
        <4> QED
          BY <4>1, <4>2
      <3> QED
        BY <3>1, <3>2
    <2>2. stage' \in [Thread -> Stage] /\ \A u \in Thread : stage'[u] # "idle" => stage[u] # "idle"
      BY DEF TypeOK
    <2>3. /\ ownFirst' \in [Thread -> BOOLEAN]
          /\ todo' \in [Thread -> SUBSET Class]
      BY <2>1, Zenon DEF TypeOK
    <2> QED
      BY <2>2, <2>3 DEF TypeOK
  <1>2. HardLimits' /\ GateExclusive' /\ EvidenceIsExact'
    BY DEF TypeOK, HardLimits, GateExclusive, EvidenceIsExact
  <1>3. PressureIsBound'
    BY ShortageType DEF TypeOK, PressureIsBound, GlobalShortage, ClassShortage
  <1>4. PassedOverIsSpent'
    BY SMTT(60) DEF TypeOK, PassedOverIsSpent, Contributes, Pressed, GlobalShortage, ClassShortage, FitsEmpty
  <1> QED
    BY <1>1, <1>2, <1>3, <1>4

(* A step of the planner that only moves on keeps the types. *)
LEMMA PlannerTypes ==
  ASSUME TypeOK, HasRequest,
         UNCHANGED << live, totalUsed, classUsed, owners, gate, poisoned, request, usedBefore, ownFirst >>,
         stage' \in [Thread -> Stage],
         \A u \in Thread : stage'[u] # "idle" => stage[u] # "idle",
         todo' \in [Thread -> SUBSET Class],
         global' \in [Thread -> Nat],
         local' \in [Thread -> Nat],
         ask' \in [Thread -> Nat],
         asked' \in [Thread -> SUBSET Class]
  PROVE  TypeOK' /\ HasRequest'
  <1>1. TypeOK'
    BY DEF TypeOK
  <1>2. HasRequest'
    OBVIOUS
  <1> QED
    BY <1>1, <1>2

LEMMA LookStep ==
  ASSUME IInv, NEW t \in Thread, Look(t)
  PROVE  IInv'
  <1> USE ArbiterAssumption DEF IInv, Look
  <1>1. TypeOK' /\ HasRequest'
    <2>1. /\ UNCHANGED << live, totalUsed, classUsed, owners, gate, poisoned, request, usedBefore, ownFirst >>
          /\ UNCHANGED << todo, ask, asked >>
          /\ stage[t] = "look"
      OBVIOUS
    <2>2. stage' \in [Thread -> Stage] /\ \A u \in Thread : stage'[u] # "idle" => stage[u] # "idle"
      BY DEF TypeOK
    <2>3. request[t] \in Request
      BY <2>1
    <2>4. GlobalShortage(request[t]) \in Nat /\ ClassShortage(request[t]) \in Nat
      BY <2>3, ShortageType
    <2>5. global' \in [Thread -> Nat] /\ local' \in [Thread -> Nat]
      BY <2>4 DEF TypeOK
    <2>6. todo' \in [Thread -> SUBSET Class] /\ ask' \in [Thread -> Nat] /\ asked' \in [Thread -> SUBSET Class]
      BY <2>1 DEF TypeOK
    <2> HIDE DEF Look
    <2> QED
      BY <2>1, <2>2, <2>5, <2>6, PlannerTypes
  <1>2. HardLimits' /\ GateExclusive' /\ EvidenceIsExact'
    BY DEF TypeOK, HardLimits, GateExclusive, EvidenceIsExact
  <1>3. PressureIsBound'
    BY ShortageType DEF TypeOK, PressureIsBound, GlobalShortage, ClassShortage
  <1>4. PassedOverIsSpent'
    BY SMTT(60) DEF TypeOK, PassedOverIsSpent, Contributes, Pressed, GlobalShortage, ClassShortage, FitsEmpty
  <1> QED
    BY <1>1, <1>2, <1>3, <1>4

LEMMA CallOwnerStep ==
  ASSUME IInv, NEW t \in Thread, CallOwner(t)
  PROVE  IInv'
  <1> USE ArbiterAssumption DEF IInv, CallOwner, Attempted
  <1>1. TypeOK' /\ HasRequest'
    <2>1. stage[t] = "ask" /\ UNCHANGED << live, totalUsed, classUsed, owners, gate, poisoned, request, usedBefore, ownFirst, global, local >>
      OBVIOUS
    <2>2. PICK c \in Class, s \in {"callback", "look"} :
            /\ stage' = [stage EXCEPT ![t] = s]
            /\ \/ UNCHANGED << todo, asked, ask >>
               \/ /\ todo' = [todo EXCEPT ![t] = @ \ {c}]
                  /\ asked' = [asked EXCEPT ![t] = @ \cup {c}]
                  /\ ask' = [ask EXCEPT ![t] = 0]
      OBVIOUS
    <2> HIDE DEF CallOwner
    <2>3. stage' \in [Thread -> Stage] /\ \A u \in Thread : stage'[u] # "idle" => stage[u] # "idle"
      BY <2>1, <2>2 DEF TypeOK
    <2>4. todo' \in [Thread -> SUBSET Class]
      BY <2>2 DEF TypeOK
    <2>5. ask' \in [Thread -> Nat]
      BY <2>2 DEF TypeOK
    <2>6. asked' \in [Thread -> SUBSET Class]
      BY <2>2 DEF TypeOK
    <2>7. global' \in [Thread -> Nat] /\ local' \in [Thread -> Nat]
      BY <2>1 DEF TypeOK
    <2> QED
      BY <2>1, <2>3, <2>4, <2>5, <2>6, <2>7, PlannerTypes
  <1>2. HardLimits' /\ GateExclusive' /\ EvidenceIsExact'
    BY DEF TypeOK, HardLimits, GateExclusive, EvidenceIsExact
  <1>3. PressureIsBound'
    BY ShortageType DEF TypeOK, PressureIsBound, GlobalShortage, ClassShortage
  <1>4. PassedOverIsSpent'
    BY DEF TypeOK, PassedOverIsSpent, Contributes, Pressed, GlobalShortage, ClassShortage, FitsEmpty
  <1> QED
    BY <1>1, <1>2, <1>3, <1>4

LEMMA OwnerReturnsStep ==
  ASSUME IInv, NEW t \in Thread, OwnerReturns(t)
  PROVE  IInv'
  <1> USE ArbiterAssumption DEF IInv, OwnerReturns, Attempted
  <1>1. TypeOK' /\ HasRequest'
    <2>1. stage[t] = "callback" /\ UNCHANGED << live, totalUsed, classUsed, owners, gate, poisoned, request, usedBefore, ownFirst, global, local >>
      OBVIOUS
    <2>2. PICK c \in Class :
            /\ stage' = [stage EXCEPT ![t] = "look"]
            /\ todo' = [todo EXCEPT ![t] = @ \ {c}]
            /\ asked' = [asked EXCEPT ![t] = @ \cup {c}]
            /\ ask' = [ask EXCEPT ![t] = 0]
      OBVIOUS
    <2> HIDE DEF OwnerReturns
    <2>3. stage' \in [Thread -> Stage] /\ \A u \in Thread : stage'[u] # "idle" => stage[u] # "idle"
      BY <2>1, <2>2 DEF TypeOK
    <2>4. todo' \in [Thread -> SUBSET Class]
      BY <2>2 DEF TypeOK
    <2>5. ask' \in [Thread -> Nat]
      BY <2>2 DEF TypeOK
    <2>6. asked' \in [Thread -> SUBSET Class]
      BY <2>2 DEF TypeOK
    <2>7. global' \in [Thread -> Nat] /\ local' \in [Thread -> Nat]
      BY <2>1 DEF TypeOK
    <2> QED
      BY <2>1, <2>3, <2>4, <2>5, <2>6, <2>7, PlannerTypes
  <1>2. HardLimits' /\ GateExclusive' /\ EvidenceIsExact'
    BY DEF TypeOK, HardLimits, GateExclusive, EvidenceIsExact
  <1>3. PressureIsBound'
    BY ShortageType DEF TypeOK, PressureIsBound, GlobalShortage, ClassShortage
  <1>4. PassedOverIsSpent'
    BY SMTT(60) DEF TypeOK, PassedOverIsSpent, Contributes, Pressed, GlobalShortage, ClassShortage, FitsEmpty
  <1> QED
    BY <1>1, <1>2, <1>3, <1>4

LEMMA DemandType ==
  ASSUME TypeOK, NEW r \in Request, NEW c \in Class, NEW g \in Nat, NEW l \in Nat
  PROVE  Demand(r, c, g, l) \in Nat
  BY ArbiterAssumption DEF TypeOK, Demand, Smaller, Larger, Reclaimable, Monus

LEMMA PlanStep ==
  ASSUME IInv, NEW t \in Thread, Plan(t)
  PROVE  IInv'
  <1> USE ArbiterAssumption DEF IInv
  <1>1. PICK c \in Class :
          LET b == Demand(request[t], c, global[t], local[t])
          IN  /\ stage[t] = "plan"
              /\ \/ /\ b = 0
                    /\ stage' = [stage EXCEPT ![t] = "look"]
                    /\ todo' = [todo EXCEPT ![t] = @ \ {c}]
                    /\ ask' = ask
                 \/ /\ stage' = [stage EXCEPT ![t] = "ask"]
                    /\ ask' = [ask EXCEPT ![t] = b]
                    /\ todo' = todo
              /\ UNCHANGED << live, totalUsed, classUsed, owners, gate, poisoned, request,
                              usedBefore, ownFirst, global, local, asked >>
    BY DEF Plan
  <1>2. request[t] \in Request /\ global[t] \in Nat /\ local[t] \in Nat
    BY <1>1 DEF TypeOK
  <1>3. Demand(request[t], c, global[t], local[t]) \in Nat
    BY <1>2, DemandType
  <1>4. TypeOK' /\ HasRequest'
    <2>1. stage' \in [Thread -> Stage] /\ todo' \in [Thread -> SUBSET Class]
      BY <1>1 DEF TypeOK
    <2>2. ask' \in [Thread -> Nat]
      BY <1>1, <1>3 DEF TypeOK
    <2>3. \A u \in Thread : stage'[u] # "idle" => stage[u] # "idle"
      BY <1>1 DEF TypeOK
    <2> QED
      BY <1>1, <2>1, <2>2, <2>3 DEF TypeOK
  <1>5. HardLimits' /\ GateExclusive' /\ EvidenceIsExact'
    BY <1>1 DEF TypeOK, HardLimits, GateExclusive, EvidenceIsExact
  <1>6. PressureIsBound'
    BY <1>1 DEF TypeOK, PressureIsBound, GlobalShortage, ClassShortage
  <1>7. Demand(request[t], c, global[t], local[t]) = 0 /\ FitsEmpty(request[t])
          => ~Contributes(request[t], c)
    BY <1>1, <1>2, NoDemandIsSpent DEF PressureIsBound
  <1>8. PassedOverIsSpent'
    BY SMTT(60), <1>1, <1>7 DEF TypeOK, PassedOverIsSpent, Contributes, Pressed, GlobalShortage,
       ClassShortage, FitsEmpty
  <1> QED
    BY <1>4, <1>5, <1>6, <1>8

(* Whoever is admitted is alone inside, so a grant disturbs no other evidence. *)
LEMMA AdmitStep ==
  ASSUME IInv, NEW t \in Thread, Admit(t)
  PROVE  IInv'
  <1> USE ArbiterAssumption DEF IInv
  <1>1. request[t] \in Request /\ stage[t] = "admit"
    BY DEF Admit
  <1>2. request[t].class \in Class /\ request[t].bytes \in Size /\ request[t].bytes \in Nat
    BY <1>1, RequestType
  <1>3. /\ live' \in [Class \X Size -> Nat]
        /\ totalUsed' \in Nat
        /\ classUsed' \in [Class -> Nat]
    <2>1. CASE Fits(request[t])
      <3>1. live' = [live EXCEPT ![<< request[t].class, request[t].bytes >>] = @ + 1]
        BY <2>1 DEF Admit
      <3>2. << request[t].class, request[t].bytes >> \in Class \X Size
        BY <1>2
      <3>3. live' \in [Class \X Size -> Nat]
        BY <3>1, <3>2 DEF TypeOK
      <3>4. totalUsed' \in Nat /\ classUsed' \in [Class -> Nat]
        BY <2>1, <1>2 DEF Admit, TypeOK
      <3> QED
        BY <3>3, <3>4
    <2>2. CASE ~Fits(request[t])
      BY <2>2 DEF Admit, TypeOK
    <2> QED
      BY <2>1, <2>2
  <1>4. TypeOK' /\ HasRequest'
    BY <1>3 DEF Admit, Return, TypeOK
  <1>5. HardLimits'
    <2>1. CASE Fits(request[t])
      <3>1. totalUsed' = totalUsed + request[t].bytes /\ totalUsed \in Nat
        BY <2>1 DEF Admit, TypeOK
      <3>2. totalUsed' <= Total
        BY <3>1, <2>1, <1>2 DEF Fits, Monus
      <3>3. ASSUME NEW c \in Class PROVE classUsed'[c] <= Hard[c]
        <4>1. /\ classUsed[c] \in Nat /\ Hard[c] \in Nat /\ classUsed[c] <= Hard[c]
              /\ classUsed \in [Class -> Nat]
          BY DEF HardLimits, TypeOK
        <4>2. classUsed' = [classUsed EXCEPT ![request[t].class] = @ + request[t].bytes]
          BY <2>1 DEF Admit
        <4>3. CASE c = request[t].class
          BY <4>1, <4>2, <4>3, <2>1, <1>2 DEF Fits, Monus
        <4>4. CASE c # request[t].class
          BY <4>1, <4>2, <4>4
        <4> QED
          BY <4>3, <4>4
      <3> QED
        BY <3>2, <3>3 DEF HardLimits
    <2>2. CASE ~Fits(request[t])
      BY <2>2 DEF Admit, HardLimits
    <2> QED
      BY <2>1, <2>2
  <1>6. \A u \in Thread : u # t => stage[u] \notin Inside /\ stage'[u] = stage[u]
    BY <1>1 DEF Admit, Return, TypeOK, GateExclusive
  <1>7. stage'[t] = "idle" /\ gate' = Nobody
    BY DEF Admit, Return, TypeOK
  <1>8. GateExclusive' /\ EvidenceIsExact' /\ PressureIsBound' /\ PassedOverIsSpent'
    BY <1>6, <1>7 DEF GateExclusive, EvidenceIsExact, PressureIsBound, PassedOverIsSpent
  <1> QED
    BY <1>4, <1>5, <1>8

(* A drop only relieves. *)
LEMMA DropStep ==
  ASSUME IInv, NEW c \in Class, NEW b \in Size, Drop(c, b)
  PROVE  IInv'
  <1> USE ArbiterAssumption DEF IInv
  <1>1. b \in Nat /\ << c, b >> \in Class \X Size
    OBVIOUS
  <1>2. TypeOK' /\ HasRequest'
    BY <1>1 DEF Drop, TypeOK, Monus
  <1>3. Falls
    BY <1>1 DEF Falls, Drop, TypeOK, Monus
  <1>4. HardLimits'
    <2>1. ASSUME NEW d \in Class PROVE classUsed'[d] <= Hard[d]
      BY <1>2, <1>3 DEF Falls, HardLimits, TypeOK
    <2> QED
      BY <2>1, <1>2, <1>3 DEF Falls, HardLimits, TypeOK
  <1>5. UNCHANGED << gate, stage, request, usedBefore, todo, global, local, asked >>
    BY DEF Drop
  <1>6. GateExclusive' /\ EvidenceIsExact'
    BY <1>2, <1>3, <1>5 DEF GateExclusive, EvidenceIsExact, Falls, TypeOK
  <1>7. PressureIsBound'
    <2> SUFFICES ASSUME NEW t \in Thread, stage[t] = "plan"
                 PROVE  GlobalShortage(request[t])' <= global[t] /\ ClassShortage(request[t])' <= local[t]
      BY <1>5 DEF PressureIsBound
    <2>1. request[t] \in Request /\ request'[t] = request[t]
      BY <1>5
    <2>2. PICK r \in Request : r = request[t] /\ r = request'[t]
      BY <2>1
    <2>3. GlobalShortage(r)' <= GlobalShortage(r) /\ ClassShortage(r)' <= ClassShortage(r)
      BY <1>2, <1>3, FallingRelieves
    <2>4. /\ GlobalShortage(r) \in Nat /\ ClassShortage(r) \in Nat
          /\ GlobalShortage(r)' \in Nat /\ ClassShortage(r)' \in Nat
      BY <1>2, RequestType DEF TypeOK, GlobalShortage, ClassShortage, Monus
    <2>5. GlobalShortage(r) <= global[t] /\ ClassShortage(r) <= local[t]
      BY <2>2 DEF PressureIsBound
    <2>6. global[t] \in Nat /\ local[t] \in Nat
      BY DEF TypeOK
    <2>7. GlobalShortage(r)' <= global[t] /\ ClassShortage(r)' <= local[t]
      BY <2>3, <2>4, <2>5, <2>6
    <2>8. /\ GlobalShortage(request[t])' = GlobalShortage(r)'
          /\ ClassShortage(request[t])' = ClassShortage(r)'
      BY <2>2 DEF GlobalShortage, ClassShortage
    <2> QED
      BY <2>7, <2>8
  <1>8. PassedOverIsSpent'
    <2> SUFFICES ASSUME NEW t \in Thread, stage[t] \in {"look", "plan", "ask", "callback", "admit"},
                        FitsEmpty(request[t])
                 PROVE  \/ stage[t] = "admit" /\ ~Pressed(request[t])'
                        \/ /\ \A d \in Class \ (todo[t] \cup asked[t]) : ~Contributes(request[t], d)'
                           /\ stage[t] = "admit" => todo[t] = {}
      BY <1>5 DEF PassedOverIsSpent, FitsEmpty
    <2>1. PICK r \in Request : r = request[t] /\ r = request'[t]
      BY <1>5
    <2>2. /\ Pressed(r)' => Pressed(r)
          /\ \A d \in Class : Contributes(r, d)' => Contributes(r, d)
      BY <1>2, <1>3, FallingRelieves
    <2> QED
      BY <2>1, <2>2, <1>5 DEF PassedOverIsSpent, Pressed, Contributes, GlobalShortage, ClassShortage
  <1> QED
    BY <1>2, <1>4, <1>6, <1>7, <1>8

LEMMA NextIInv ==
  ASSUME IInv, [Next]_vars
  PROVE  IInv'
  <1>1. CASE UNCHANGED vars
    BY <1>1 DEF vars, IInv, TypeOK, HardLimits, GateExclusive, EvidenceIsExact,
       PressureIsBound, PassedOverIsSpent, Contributes, Pressed, GlobalShortage, ClassShortage
  <1>2. CASE Next
    BY <1>2, CallStep, AcquireStep, RefusePoisonedStep, OwnerPanicsStep, MeasureStep, LookStep,
       PlanStep, CallOwnerStep, OwnerReturnsStep, AdmitStep, SetReclaimerStep, DropStep
       DEF Next, HolderStep
  <1> QED
    BY <1>1, <1>2
-----------------------------------------------------------------------------
(* The theorems. *)

(* The inductive invariant: usage under the limits, one thread inside the gate, *)
(* and for that thread the evidence, the pressure and the classes passed over.  *)
THEOREM Inductive == Spec => []IInv
  BY InitIInv, NextIInv, PTL DEF Spec

(* The accounting and the locals of reserve keep their types. *)
THEOREM TypeCorrect == Spec => []TypeOK
  <1>1. IInv => TypeOK
    BY DEF IInv
  <1> QED
    BY <1>1, Inductive, PTL

(* Threads that reserve and drop at the same time never take the shared usage or *)
(* that of a class over its hard limit.                                          *)
THEOREM LimitsHold == Spec => []HardLimits
  <1>1. IInv => HardLimits
    BY DEF IInv
  <1> QED
    BY <1>1, Inductive, PTL

(* The usage only falls while a thread is being admitted, so the subtraction in *)
(* its evidence is exact.                                                        *)
THEOREM EvidenceHolds == Spec => []EvidenceIsExact
  <1>1. IInv => EvidenceIsExact
    BY DEF IInv
  <1> QED
    BY <1>1, Inductive, PTL

(* A request that could ever fit is degraded only when every class that could *)
(* still contribute to it has been asked.                                      *)
THEOREM NobodySpared == Spec => DegradesOnlyAfterAsking
  <1>1. ASSUME IInv, [Next]_vars
        PROVE  \A t \in Thread : Degrades(t) /\ FitsEmpty(request[t])
                 => \A c \in Class : Contributes(request[t], c) => c \in asked[t]
    <2> SUFFICES ASSUME NEW t \in Thread, Degrades(t), FitsEmpty(request[t]), NEW c \in Class,
                        Contributes(request[t], c)
                 PROVE  c \in asked[t]
      OBVIOUS
    <2>1. request[t] \in Request
      BY <1>1 DEF IInv, Degrades
    <2>2. Pressed(request[t])
      BY <1>1, <2>1, ShortageType DEF IInv, Contributes, Pressed
    <2> QED
      BY <1>1, <2>2 DEF IInv, PassedOverIsSpent, Degrades
  <1> QED
    BY <1>1, Inductive, PTL DEF Spec, DegradesOnlyAfterAsking
=============================================================================
