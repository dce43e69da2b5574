------------------------ MODULE LimitWaitGroupProofs ------------------------
(***************************************************************************)
(* The safety properties of LimitWaitGroup hold for every set of units and *)
(* every limit.  The inductive invariant says what the two counters count: *)
(* occupiedCh the units between the send and the receive, wg those between *)
(* the two steps on the sync.WaitGroup.  Cardinalities are reasoned about  *)
(* in the three lemmas below, once; the actions only cite them.            *)
(***************************************************************************)
EXTENDS LimitWaitGroup, FiniteSetTheorems, TLAPS

(* The channel holds one element per occupied slot, the wait group counts  *)
(* the units that were counted up and not yet down, and a Wait in progress *)
(* is for units that are still counted.                                    *)
CountersOK ==
  /\ occupiedCh = Cardinality(In({"occupied", "in"}))
  /\ wg = Cardinality(In({"in", "released"}))
  /\ waiter = "waiting" => awaited \subseteq In({"in", "released"})
  /\ waiter = "returned" => awaited = {}

IInv == TypeOK /\ CountersOK

(* The units in some stages are finitely many, so their number is natural, *)
(* and it is zero only if there are none.                                  *)
LEMMA InFinite ==
  ASSUME NEW S
  PROVE  /\ IsFiniteSet(In(S))
         /\ Cardinality(In(S)) \in Nat
         /\ Cardinality(In(S)) = 0 <=> In(S) = {}
  <1>1. In(S) \subseteq Units
    BY DEF In
  <1>2. IsFiniteSet(In(S))
    BY <1>1, GroupAssumption, FS_Subset
  <1> QED
    BY <1>2, FS_CardinalityType, FS_EmptySet

(* A unit that moves into the stages S is one more of them, ...            *)
LEMMA MoveIn ==
  ASSUME TypeOK, NEW u \in Units, NEW from, NEW to, NEW S,
         stage[u] = from, from \notin S, to \in S,
         stage' = [stage EXCEPT ![u] = to]
  PROVE  Cardinality(In(S)') = Cardinality(In(S)) + 1
  <1>1. In(S)' = In(S) \cup {u} /\ u \notin In(S)
    BY DEF In, TypeOK
  <1> QED
    BY <1>1, InFinite, FS_AddElement

(* ... one that moves out is one less, ...                                 *)
LEMMA MoveOut ==
  ASSUME TypeOK, NEW u \in Units, NEW from, NEW to, NEW S,
         stage[u] = from, from \in S, to \notin S,
         stage' = [stage EXCEPT ![u] = to]
  PROVE  Cardinality(In(S)') = Cardinality(In(S)) - 1
  <1>1. In(S)' = In(S) \ {u} /\ u \in In(S)
    BY DEF In, TypeOK
  <1> QED
    BY <1>1, InFinite, FS_RemoveElement

(* ... and one that stays inside or outside leaves them as they are.       *)
LEMMA MoveWithin ==
  ASSUME TypeOK, NEW u \in Units, NEW from, NEW to, NEW S,
         stage[u] = from, from \in S <=> to \in S,
         stage' = [stage EXCEPT ![u] = to]
  PROVE  In(S)' = In(S)
  BY DEF In, TypeOK

-----------------------------------------------------------------------------
LEMMA InitIInv == Init => IInv
  <1> SUFFICES ASSUME Init PROVE IInv
    OBVIOUS
  <1>1. In({"occupied", "in"}) = {} /\ In({"in", "released"}) = {}
    BY DEF Init, In
  <1>2. TypeOK
    BY GroupAssumption DEF Init, TypeOK, Stages
  <1> QED
    BY <1>1, <1>2, FS_EmptySet DEF Init, IInv, CountersOK

LEMMA NextIInv == IInv /\ [Next]_vars => IInv'
  <1> SUFFICES ASSUME IInv, [Next]_vars PROVE IInv'
    OBVIOUS
  <1> USE GroupAssumption DEF IInv, TypeOK, Stages
  <1> DEFINE Slots == In({"occupied", "in"})
             Counted == In({"in", "released"})
  <1>0. Cardinality(Slots) \in Nat /\ Cardinality(Counted) \in Nat
    BY InFinite
  <1>1. ASSUME NEW u \in Units, Cancel(u) PROVE IInv'
    BY <1>1 DEF Cancel, CountersOK, In
  <1>2. ASSUME NEW u \in Units, BeginAdd(u) PROVE IInv'
    <2>1. Slots' = Slots /\ Counted' = Counted
      BY <1>2 DEF BeginAdd, In
    <2> QED
      BY <1>2, <2>1 DEF BeginAdd, CountersOK
  <1>3. ASSUME NEW u \in Units, Refuse(u) PROVE IInv'
    <2>1. Slots' = Slots /\ Counted' = Counted
      BY <1>3, MoveWithin DEF Refuse, Move
    <2> QED
      BY <1>3, <2>1 DEF Refuse, Move, CountersOK
  <1>4. ASSUME NEW u \in Units, Occupy(u) PROVE IInv'
    <2>1. Cardinality(Slots') = Cardinality(Slots) + 1
      BY <1>4, MoveIn DEF Occupy, Move
    <2>2. Counted' = Counted
      BY <1>4, MoveWithin DEF Occupy, Move
    <2> QED
      BY <1>4, <2>1, <2>2 DEF Occupy, Move, CountersOK
  <1>5. ASSUME NEW u \in Units, CountUp(u) PROVE IInv'
    <2>1. Slots' = Slots
      BY <1>5, MoveWithin DEF CountUp, Move
    <2>2. Cardinality(Counted') = Cardinality(Counted) + 1
      BY <1>5, MoveIn DEF CountUp, Move
    <2>3. Counted \subseteq Counted'
      BY <1>5 DEF CountUp, Move, In
    <2> QED
      BY <1>5, <2>1, <2>2, <2>3 DEF CountUp, Move, CountersOK
  <1>6. ASSUME NEW u \in Units, ReleaseSlot(u) PROVE IInv'
    <2>1. Cardinality(Slots') = Cardinality(Slots) - 1
      BY <1>6, MoveOut DEF ReleaseSlot, Move
    <2>2. Counted' = Counted
      BY <1>6, MoveWithin DEF ReleaseSlot, Move
    <2> QED
      BY <1>6, <2>1, <2>2 DEF ReleaseSlot, Move, CountersOK
  <1>7. ASSUME NEW u \in Units, CountDown(u) PROVE IInv'
    <2>1. Slots' = Slots
      BY <1>7, MoveWithin DEF CountDown, Move
    <2>2. Cardinality(Counted') = Cardinality(Counted) - 1
      BY <1>7, MoveOut DEF CountDown, Move
    <2>3. u \in Counted
      BY <1>7 DEF CountDown, Move, In
    <2>4. wg > 0
      BY <1>0, <2>3, InFinite DEF CountersOK
    <2>5. Counted' = Counted \ {u}
      BY <1>7 DEF CountDown, Move, In
    <2> QED
      BY <1>7, <2>1, <2>2, <2>4, <2>5 DEF CountDown, Move, CountersOK
  <1>8. CASE BeginWait
    BY <1>8 DEF BeginWait, CountersOK, In
  <1>9. CASE EndWait
    <2>1. Counted = {}
      BY <1>9, InFinite DEF EndWait, CountersOK
    <2> QED
      BY <1>9, <2>1 DEF EndWait, CountersOK, In
  <1>10. CASE UNCHANGED vars
    BY <1>10 DEF vars, CountersOK, In
  <1> QED
    BY <1>1, <1>2, <1>3, <1>4, <1>5, <1>6, <1>7, <1>8, <1>9, <1>10 DEF Next, UnitStep

THEOREM InvariantHolds == Spec => []IInv
  BY InitIInv, NextIInv, PTL DEF Spec

-----------------------------------------------------------------------------
(* Never more units than the limit are between the return of their Add and *)
(* their Done: throttler.go bounds the group although it takes a slot and  *)
(* counts it in two steps.                                                 *)
THEOREM LimitKept == Spec => []HoldersWithinLimit
  <1>1. IInv => HoldersWithinLimit
    BY GroupAssumption DEF IInv, TypeOK, CountersOK, HoldersWithinLimit
  <1> QED
    BY <1>1, InvariantHolds, PTL

(* A slot is occupied only by a unit that holds it, whatever Adds were     *)
(* refused and however the steps of Done interleave: the limit never       *)
(* becomes smaller.                                                        *)
THEOREM SlotsAreHeld == Spec => []NoSlotLeaks
  <1>1. IInv => NoSlotLeaks
    BY GroupAssumption DEF IInv, TypeOK, CountersOK, NoSlotLeaks
  <1> QED
    BY <1>1, InvariantHolds, PTL

(* Done neither blocks nor makes the counter negative.                     *)
THEOREM DoneSafe == Spec => []DoneIsSafe
  <1>1. ASSUME IInv PROVE DoneIsSafe
    <2> SUFFICES ASSUME NEW u \in Units
                 PROVE  /\ stage[u] = "in" => occupiedCh > 0
                        /\ stage[u] \in {"in", "released"} => wg > 0
      BY DEF DoneIsSafe
    <2>1. ASSUME stage[u] = "in" PROVE occupiedCh > 0
      <3>1. u \in In({"occupied", "in"})
        BY <2>1 DEF In
      <3> QED
        BY <1>1, <3>1, InFinite DEF IInv, TypeOK, CountersOK
    <2>2. ASSUME stage[u] \in {"in", "released"} PROVE wg > 0
      <3>1. u \in In({"in", "released"})
        BY <2>2 DEF In
      <3> QED
        BY <1>1, <3>1, InFinite DEF IInv, TypeOK, CountersOK
    <2> QED
      BY <2>1, <2>2
  <1> QED
    BY <1>1, InvariantHolds, PTL

(* Wait covers every unit whose Add had returned before it was called.     *)
THEOREM WaitCovers == Spec => []WaitCoversEarlierAdds
  <1>1. IInv => WaitCoversEarlierAdds
    BY DEF IInv, CountersOK, WaitCoversEarlierAdds
  <1> QED
    BY <1>1, InvariantHolds, PTL

(* Every variable keeps its type; wg never leaves Nat.                     *)
THEOREM TypeCorrect == Spec => []TypeOK
  <1>1. IInv => TypeOK
    BY DEF IInv
  <1> QED
    BY <1>1, InvariantHolds, PTL
=============================================================================
