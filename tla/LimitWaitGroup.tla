--------------------------- MODULE LimitWaitGroup ---------------------------
(***************************************************************************)
(* The wait group with a size limit of internal/benchmark/throttler.go: a  *)
(* buffered channel of capacity Limit (occupiedCh) whose elements are the  *)
(* occupied slots, next to a sync.WaitGroup (wg).                          *)
(*                                                                         *)
(* Add and Done each touch the two one after the other, without a lock, so *)
(* every touch is an action of its own.  A unit is one Add together with   *)
(* the Done that matches it; after Done it may be added again.             *)
(***************************************************************************)
EXTENDS Naturals, FiniteSets

CONSTANTS
  Units,   \* what is added to the group: in the engine, its workers
  Limit    \* the capacity given to NewLimitWaitGroup

ASSUME GroupAssumption == Limit \in Nat /\ IsFiniteSet(Units)

VARIABLES
  stage,       \* where each unit is between its Add and its Done
  cancelled,   \* units whose context given to AddWithContext is done
  occupiedCh,  \* number of elements buffered in occupiedCh
  wg,          \* counter of the sync.WaitGroup
  waiter,      \* the goroutine that calls Wait
  awaited      \* history: units added before Wait was called, not done since

vars == <<stage, cancelled, occupiedCh, wg, waiter, awaited>>

Stages == {"out", "adding", "occupied", "in", "released", "refused"}

TypeOK ==
  /\ stage \in [Units -> Stages]
  /\ cancelled \in SUBSET Units
  /\ occupiedCh \in 0..Limit
  /\ wg \in Nat
  /\ waiter \in {"idle", "waiting", "returned"}
  /\ awaited \in SUBSET Units

In(S) == {u \in Units : stage[u] \in S}

(***************************************************************************)
(* NewLimitWaitGroup panics on the limits LimitRejected tells; the group   *)
(* starts empty.                                                           *)
(***************************************************************************)
LimitRejected(limit) == limit < 0

Init ==
  /\ stage = [u \in Units |-> "out"]
  /\ cancelled = {}
  /\ occupiedCh = 0
  /\ wg = 0
  /\ waiter = "idle"
  /\ awaited = {}

Move(u, from, to) == stage[u] = from /\ stage' = [stage EXCEPT ![u] = to]

-----------------------------------------------------------------------------
(* The context of a caller of AddWithContext may be done at any time.      *)
Cancel(u) ==
  /\ u \notin cancelled
  /\ cancelled' = cancelled \cup {u}
  /\ UNCHANGED <<stage, occupiedCh, wg, waiter, awaited>>

(* Add(), AddWithContext(ctx): the call reaches the select, ...            *)
BeginAdd(u) ==
  /\ stage[u] \in {"out", "refused"}
  /\ stage' = [stage EXCEPT ![u] = "adding"]
  /\ UNCHANGED <<cancelled, occupiedCh, wg, waiter, awaited>>

(* ... which either finds the context done, ...                            *)
Refuse(u) ==
  /\ u \in cancelled
  /\ Move(u, "adding", "refused")
  /\ UNCHANGED <<cancelled, occupiedCh, wg, waiter, awaited>>

(* ... or sends to occupiedCh: blocked while the channel is full.          *)
\* Faulty: the channel does not bound the group.
OccupyUnbounded(u) ==
  /\ Move(u, "adding", "occupied")
  /\ occupiedCh' = occupiedCh + 1
  /\ UNCHANGED <<cancelled, wg, waiter, awaited>>

Occupy(u) ==
  /\ occupiedCh < Limit
  /\ Move(u, "adding", "occupied")
  /\ occupiedCh' = occupiedCh + 1
  /\ UNCHANGED <<cancelled, wg, waiter, awaited>>

(* s.wg.Add(1), after which Add returns.                                   *)
\* Faulty: the wait group is never told.
CountUpNothing(u) ==
  /\ Move(u, "occupied", "in")
  /\ UNCHANGED <<cancelled, occupiedCh, wg, waiter, awaited>>

CountUp(u) ==
  /\ Move(u, "occupied", "in")
  /\ wg' = wg + 1
  /\ UNCHANGED <<cancelled, occupiedCh, waiter, awaited>>

(* Done(): a receive from occupiedCh, blocked while the channel is empty,  *)
(* then s.wg.Done().                                                       *)
\* Faulty: Done forgets the receive from occupiedCh.
ReleaseNothing(u) ==
  /\ Move(u, "in", "released")
  /\ UNCHANGED <<cancelled, occupiedCh, wg, waiter, awaited>>

ReleaseSlot(u) ==
  /\ occupiedCh > 0
  /\ Move(u, "in", "released")
  /\ occupiedCh' = occupiedCh - 1
  /\ UNCHANGED <<cancelled, wg, waiter, awaited>>

CountDown(u) ==
  /\ Move(u, "released", "out")
  /\ wg' = wg - 1
  /\ awaited' = awaited \ {u}
  /\ UNCHANGED <<cancelled, occupiedCh, waiter>>

(* Wait(): returns once the counter is zero.                               *)
BeginWait ==
  /\ waiter = "idle"
  /\ waiter' = "waiting"
  /\ awaited' = In({"in", "released"})
  /\ UNCHANGED <<stage, cancelled, occupiedCh, wg>>

\* Faulty: waits for the slots instead of the wait group.
EndWaitOnSlots ==
  /\ waiter = "waiting"
  /\ occupiedCh = 0
  /\ waiter' = "returned"
  /\ UNCHANGED <<stage, cancelled, occupiedCh, wg, awaited>>

EndWait ==
  /\ waiter = "waiting"
  /\ wg = 0
  /\ waiter' = "returned"
  /\ UNCHANGED <<stage, cancelled, occupiedCh, wg, awaited>>

UnitStep(u) ==
  \/ Cancel(u) \/ BeginAdd(u) \/ Refuse(u) \/ Occupy(u)
  \/ CountUp(u) \/ ReleaseSlot(u) \/ CountDown(u)

Next == BeginWait \/ EndWait \/ \E u \in Units : UnitStep(u)

Spec == Init /\ [][Next]_vars

(***************************************************************************)
(* Fairness.  A goroutine that can run is run.  A blocked send is served   *)
(* in arrival order by the channel, hence the strong fairness of Occupy.   *)
(* That a holder calls Done is what the group asks of its callers.         *)
(***************************************************************************)
Fairness ==
  /\ \A u \in Units : /\ SF_vars(Occupy(u))
                      /\ WF_vars(Refuse(u)) /\ WF_vars(CountUp(u))
                      /\ WF_vars(ReleaseSlot(u)) /\ WF_vars(CountDown(u))
  /\ WF_vars(EndWait)

FairSpec == Spec /\ Fairness

-----------------------------------------------------------------------------
(* The limit: never more than Limit units are between the return of their  *)
(* Add and their Done, whatever the interleaving of the channel and the    *)
(* wait group.                                                             *)
HoldersWithinLimit == Cardinality(In({"occupied", "in"})) <= Limit

(* Nor does the group shrink: no slot stays occupied without a unit that   *)
(* holds it, not after a refused Add and not after Done, so that an Add    *)
(* that finds the channel full waits for as many holders as the limit.     *)
NoSlotLeaks == occupiedCh <= Cardinality(In({"occupied", "in"}))

(* Done neither blocks on an empty channel nor drives the counter of the   *)
(* wait group below zero, which would panic.                               *)
DoneIsSafe ==
  \A u \in Units : /\ stage[u] = "in" => occupiedCh > 0
                   /\ stage[u] \in {"in", "released"} => wg > 0

(* Wait returns only after the Done of every unit whose Add had returned   *)
(* before the call to Wait.                                                *)
WaitCoversEarlierAdds == waiter = "returned" => awaited = {}

(* An Add that meets a full group gets through in the end, or is refused   *)
(* because its context is done: no caller is starved.                      *)
AddIsServed ==
  \A u \in Units : stage[u] = "adding" ~> stage[u] \in {"in", "refused"}
=============================================================================
