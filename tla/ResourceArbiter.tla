--------------------------- MODULE ResourceArbiter ---------------------------
(***************************************************************************)
(* The shared resource arbiter of superi-engine                            *)
(* (src/resource_arbitration.rs).  A thread that reserves bytes holds the  *)
(* admission gate for the whole call, but takes the accounting mutex anew  *)
(* for every look at the usage, and calls the owners of other classes with *)
(* neither the mutex nor a snapshot in hand.  Reservations are dropped by  *)
(* any thread at any of these points.                                      *)
(***************************************************************************)
EXTENDS Integers, FiniteSets
LOCAL INSTANCE FiniteSetsExt

CONSTANTS Thread, Class,
          Size,          \* the bytes one request may ask for
          Total,         \* total_bytes, the shared hard limit
          Hard,          \* hard_limit_bytes of each class
          Protected,     \* protected_bytes of each class, its reclaim floor
          Rank,          \* the place of each class in RECLAIM_ORDER
          Nobody, NoRequest

Request == [class : Class, bytes : Size]

ASSUME ArbiterAssumption ==
  /\ Total \in Nat \ {0} /\ Size \subseteq Nat \ {0}
  /\ Hard \in [Class -> 1 .. Total]
  /\ Protected \in [Class -> Nat]
  /\ \A c \in Class : Protected[c] <= Hard[c]
  /\ Rank \in [Class -> Nat]
  /\ \A c, d \in Class : Rank[c] = Rank[d] => c = d
  /\ Nobody \notin Thread /\ NoRequest \notin Request

Stage == {"idle", "gate", "measure", "look", "plan", "ask", "callback", "admit"}

VARIABLES
  live,              \* live[c, b]: the live reservations of b bytes in c
  totalUsed,         \* total_used_bytes
  classUsed,         \* class_used_bytes
  owners,            \* classes with a registered reclaimer
  gate, poisoned,    \* who holds admission_gate; whether a holder panicked
  stage, request,    \* where each thread is in reserve, and with what
  usedBefore,        \* used_before_bytes of the evidence
  ownFirst, todo,    \* the candidates of reclaim_for still to visit
  global, local,     \* the two shortages of the pressure read last
  ask,               \* bytes_to_release of the attempt at hand
  asked              \* classes of the attempts in the evidence

accounts == << live, totalUsed, classUsed >>
plans    == << usedBefore, ownFirst, todo, global, local, ask, asked >>
vars     == << accounts, owners, gate, poisoned, stage, request, plans >>

Init ==
  /\ live = [r \in Class \X Size |-> 0]
  /\ totalUsed = 0
  /\ classUsed = [c \in Class |-> 0]
  /\ owners = {}
  /\ gate = Nobody /\ poisoned = FALSE
  /\ stage = [t \in Thread |-> "idle"]
  /\ request = [t \in Thread |-> NoRequest]
  /\ usedBefore = [t \in Thread |-> 0]
  /\ ownFirst = [t \in Thread |-> FALSE]
  /\ todo = [t \in Thread |-> {}]
  /\ global = [t \in Thread |-> 0]
  /\ local = [t \in Thread |-> 0]
  /\ ask = [t \in Thread |-> 0]
  /\ asked = [t \in Thread |-> {}]

-----------------------------------------------------------------------------
(* Pressure. *)

\* u64::saturating_sub.
Monus(a, b) == IF a > b THEN a - b ELSE 0

Smaller(a, b) == IF a < b THEN a ELSE b
Larger(a, b)  == IF a < b THEN b ELSE a

GlobalShortage(r) == Monus(r.bytes, Monus(Total, totalUsed))
ClassShortage(r)  == Monus(r.bytes, Monus(Hard[r.class], classUsed[r.class]))
Pressed(r)  == GlobalShortage(r) > 0 \/ ClassShortage(r) > 0
FitsEmpty(r) == r.bytes <= Total /\ r.bytes <= Hard[r.class]

Fits_SharedOnly(r) == r.bytes <= Monus(Total, totalUsed)
Fits(r) == /\ r.bytes <= Monus(Total, totalUsed)
           /\ r.bytes <= Monus(Hard[r.class], classUsed[r.class])

\* What class c is asked to release for r under shortages g and l: its floor is
\* off limits, except to a request of its own that is over its own ceiling.
Reclaimable_FloorForAll(r, c, l) == Monus(classUsed[c], Protected[c])
Reclaimable(r, c, l) ==
  IF c = r.class /\ l > 0 THEN classUsed[c] ELSE Monus(classUsed[c], Protected[c])
Demand(r, c, g, l) ==
  Smaller(IF c = r.class THEN Larger(g, l) ELSE g, Reclaimable(r, c, l))

\* The candidate whose turn it is: RECLAIM_ORDER, after a class of the
\* request's own that was over its ceiling at the start.
Foremost(t, c) ==
  /\ c \in todo[t]
  /\ LET own == request[t].class
     IN  IF ownFirst[t] /\ own \in todo[t]
           THEN c = own ELSE \A d \in todo[t] : Rank[c] <= Rank[d]

-----------------------------------------------------------------------------
(* reserve. *)

Goes(t, s) == stage' = [stage EXCEPT ![t] = s]

\* The call returns; its locals are gone.
Return(t) ==
  /\ Goes(t, "idle")
  /\ request' = [request EXCEPT ![t] = NoRequest]
  /\ usedBefore' = [usedBefore EXCEPT ![t] = 0]
  /\ ownFirst' = [ownFirst EXCEPT ![t] = FALSE]
  /\ todo' = [todo EXCEPT ![t] = {}]
  /\ global' = [global EXCEPT ![t] = 0]
  /\ local' = [local EXCEPT ![t] = 0]
  /\ ask' = [ask EXCEPT ![t] = 0]
  /\ asked' = [asked EXCEPT ![t] = {}]

\* IN_RECLAIM_CALLBACK: a reserve from inside a callback is refused at once.
Enters_Anywhere(t) == TRUE
Enters(t) == stage[t] # "callback"

Call(t) ==
  /\ stage[t] \in {"idle", "callback"}
  /\ Enters(t)
  /\ Goes(t, "gate")
  /\ \E r \in Request : request' = [request EXCEPT ![t] = r]
  /\ UNCHANGED << accounts, owners, gate, poisoned, plans >>

\* The gate, and the usage the evidence starts from.
GateOpens_ToAnyone == TRUE
GateOpens == gate = Nobody
Acquire(t) ==
  /\ stage[t] = "gate"
  /\ GateOpens
  /\ ~poisoned
  /\ gate' = t
  /\ usedBefore' = [usedBefore EXCEPT ![t] = totalUsed]
  /\ Goes(t, "measure")
  /\ UNCHANGED << accounts, owners, poisoned, request, ownFirst, todo, global, local, ask, asked >>

\* A gate whose holder panicked gives every later caller an internal error.
RefusePoisoned(t) ==
  /\ stage[t] = "gate"
  /\ GateOpens
  /\ poisoned
  /\ Return(t)
  /\ UNCHANGED << accounts, owners, gate, poisoned >>

\* The first look: nobody is asked for a request that no release could satisfy.
Measure(t) ==
  LET r == request[t]
  IN  /\ stage[t] = "measure"
      /\ IF FitsEmpty(r) /\ Pressed(r)
           THEN /\ Goes(t, "look")
                /\ todo' = [todo EXCEPT ![t] = Class]
                /\ ownFirst' = [ownFirst EXCEPT ![t] = ClassShortage(r) > 0]
           ELSE Goes(t, "admit") /\ UNCHANGED << todo, ownFirst >>
      /\ UNCHANGED << accounts, owners, gate, poisoned, request, usedBefore, global, local, ask, asked >>

\* reclaim_for reads the pressure anew for every candidate, and stops without.
Look(t) ==
  LET r == request[t]
  IN  /\ stage[t] = "look"
      /\ IF todo[t] # {} /\ Pressed(r)
           THEN /\ Goes(t, "plan")
                /\ global' = [global EXCEPT ![t] = GlobalShortage(r)]
                /\ local' = [local EXCEPT ![t] = ClassShortage(r)]
           ELSE Goes(t, "admit") /\ UNCHANGED << global, local >>
      /\ UNCHANGED << accounts, owners, gate, poisoned, request, usedBefore, ownFirst, todo, ask, asked >>

\* In another critical section, how much of it the candidate can contribute.
Plan(t) ==
  \E c \in Class :
    LET b == Demand(request[t], c, global[t], local[t])
    IN  /\ stage[t] = "plan"
        /\ Foremost(t, c)
        /\ IF b = 0
             THEN /\ Goes(t, "look")
                  /\ todo' = [todo EXCEPT ![t] = @ \ {c}]
                  /\ UNCHANGED ask
             ELSE Goes(t, "ask") /\ ask' = [ask EXCEPT ![t] = b] /\ UNCHANGED todo
        /\ UNCHANGED << accounts, owners, gate, poisoned, request, usedBefore, ownFirst, global, local, asked >>

\* The attempt on c is over and recorded.
Attempted(t, c) ==
  /\ Goes(t, "look")
  /\ todo' = [todo EXCEPT ![t] = @ \ {c}]
  /\ asked' = [asked EXCEPT ![t] = @ \cup {c}]
  /\ ask' = [ask EXCEPT ![t] = 0]
  /\ UNCHANGED << accounts, owners, request, usedBefore, ownFirst, global, local >>

\* The registered owner is called; without one the attempt is unavailable.
CallOwner(t) ==
  \E c \in Class :
    /\ stage[t] = "ask"
    /\ Foremost(t, c)
    /\ IF c \in owners
         THEN Goes(t, "callback") /\ UNCHANGED << accounts, owners, request, plans >>
         ELSE Attempted(t, c)
    /\ UNCHANGED << gate, poisoned >>

\* The owner returns, with success or with an error that is only retained; what
\* it released it dropped like anybody else.
OwnerReturns(t) ==
  /\ stage[t] = "callback"
  /\ \E c \in Class : Foremost(t, c) /\ Attempted(t, c)
  /\ UNCHANGED << gate, poisoned >>

\* The owner panics through reserve, which lets go of the gate poisoned.
OwnerPanics(t) ==
  /\ stage[t] = "callback"
  /\ poisoned' = TRUE
  /\ gate' = Nobody
  /\ Return(t)
  /\ UNCHANGED << accounts, owners >>

\* The last look, grant and charge in one critical section; then the gate.
Admit(t) ==
  LET r == request[t]
  IN  /\ stage[t] = "admit"
      /\ IF Fits(r)
           THEN /\ live' = [live EXCEPT ![<< r.class, r.bytes >>] = @ + 1]
                /\ totalUsed' = totalUsed + r.bytes
                /\ classUsed' = [classUsed EXCEPT ![r.class] = @ + r.bytes]
           ELSE UNCHANGED accounts
      /\ gate' = Nobody
      /\ Return(t)
      /\ UNCHANGED << owners, poisoned >>

-----------------------------------------------------------------------------
(* Everybody else. *)

\* ResourceReservation::drop, by whoever owns the reservation.
Drop(c, b) ==
  /\ live[<< c, b >>] > 0
  /\ live' = [live EXCEPT ![<< c, b >>] = @ - 1]
  /\ totalUsed' = Monus(totalUsed, b)
  /\ classUsed' = [classUsed EXCEPT ![c] = Monus(@, b)]
  /\ UNCHANGED << owners, gate, poisoned, stage, request, plans >>

SetReclaimer(c) ==
  /\ \/ c \notin owners /\ owners' = owners \cup {c}
     \/ c \in owners /\ owners' = owners \ {c}
  /\ UNCHANGED << accounts, gate, poisoned, stage, request, plans >>

\* What the holder of the gate does by itself, its owners' callbacks included.
HolderStep(t) ==
  Measure(t) \/ Look(t) \/ Plan(t) \/ CallOwner(t) \/ OwnerReturns(t) \/ Admit(t)

Next ==
  \/ \E t \in Thread :
       Call(t) \/ Acquire(t) \/ RefusePoisoned(t) \/ HolderStep(t) \/ OwnerPanics(t)
  \/ \E c \in Class : SetReclaimer(c) \/ \E b \in Size : Drop(c, b)

Spec == Init /\ [][Next]_vars

\* Running threads run and callbacks return; nobody has to call, drop or panic.
FairSpec == Spec /\ \A t \in Thread : WF_vars(HolderStep(t))
-----------------------------------------------------------------------------
(* Properties. *)

Inside == {"measure", "look", "plan", "ask", "callback", "admit"}

TypeOK ==
  /\ live \in [Class \X Size -> Nat]
  /\ totalUsed \in Nat
  /\ classUsed \in [Class -> Nat]
  /\ owners \subseteq Class
  /\ gate \in Thread \cup {Nobody}
  /\ poisoned \in BOOLEAN
  /\ stage \in [Thread -> Stage]
  /\ request \in [Thread -> Request \cup {NoRequest}]
  /\ usedBefore \in [Thread -> Nat]
  /\ ownFirst \in [Thread -> BOOLEAN]
  /\ todo \in [Thread -> SUBSET Class]
  /\ global \in [Thread -> Nat]
  /\ local \in [Thread -> Nat]
  /\ ask \in [Thread -> Nat]
  /\ asked \in [Thread -> SUBSET Class]

\* Threads that reserve and drop at the same time never drive the shared usage
\* or that of a class over its hard limit, whatever was true when reserve began.
HardLimits ==
  /\ totalUsed <= Total
  /\ \A c \in Class : classUsed[c] <= Hard[c]

\* The gate is held by exactly the thread that is inside it.
GateExclusive == \A t \in Thread : stage[t] \in Inside <=> gate = t

\* While a thread is being admitted the usage only falls: the saturating
\* subtraction of the evidence never hides bytes that were granted meanwhile.
EvidenceIsExact ==
  \A t \in Thread : stage[t] \in Inside => totalUsed <= usedBefore[t]

\* What class c could still contribute to request r.
Contributes(r, c) ==
  \/ GlobalShortage(r) > 0 /\ classUsed[c] > Protected[c]
  \/ c = r.class /\ ClassShortage(r) > 0

\* A request that could ever fit is degraded only when every class that could
\* still contribute to it, by what is in use at that moment, has been asked.
Degrades(t) == stage[t] = "admit" /\ stage'[t] = "idle" /\ UNCHANGED live
DegradesOnlyAfterAsking ==
  [][\A t \in Thread :
       Degrades(t) /\ FitsEmpty(request[t])
         => \A c \in Class : Contributes(request[t], c) => c \in asked[t]]_vars

\* Every admission ends, also one whose owner calls reserve from its callback.
AdmissionSettles == \A t \in Thread : gate = t ~> gate # t

-----------------------------------------------------------------------------
(* The inductive invariant. *)

\* The shortages read last are no smaller than those of this moment.
PressureIsBound ==
  \A t \in Thread : stage[t] = "plan" =>
    /\ GlobalShortage(request[t]) <= global[t]
    /\ ClassShortage(request[t]) <= local[t]

\* A candidate that was passed over can contribute nothing from then on.
PassedOverIsSpent ==
  \A t \in Thread :
    stage[t] \in {"look", "plan", "ask", "callback", "admit"} /\ FitsEmpty(request[t]) =>
      \/ stage[t] = "admit" /\ ~Pressed(request[t])
      \/ /\ \A c \in Class \ (todo[t] \cup asked[t]) : ~Contributes(request[t], c)
         /\ stage[t] = "admit" => todo[t] = {}

HasRequest == \A t \in Thread : stage[t] # "idle" => request[t] \in Request

IInv ==
  /\ TypeOK /\ HasRequest /\ HardLimits /\ GateExclusive /\ EvidenceIsExact
  /\ PressureIsBound /\ PassedOverIsSpent
=============================================================================
