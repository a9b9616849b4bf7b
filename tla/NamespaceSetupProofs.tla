------------------------ MODULE NamespaceSetupProofs ------------------------
(***************************************************************************)
(* What is proved of NamespaceSetup for any number of invocations, purges, *)
(* leftovers and failing calls.                                            *)
(***************************************************************************)
EXTENDS NamespaceSetup, TLAPS

-----------------------------------------------------------------------------
(* Type correctness.                                                       *)

LEMMA TypeInit == Init => TypeOK
BY SetupConstants DEF Init, TypeOK, Objects, SetupAt, PurgeAt

LEMMA TypeSetup ==
    ASSUME TypeOK, NEW s \in Setups, SetupStep(s)
    PROVE  TypeOK'
<1> USE SetupConstants DEF TypeOK, Objects, SetupAt, PurgeAt, Fault, NoFault, Goto
<1>1. Order[next[s]] \in Objects
  BY DEF Order
<1>2. ASSUME NextObject(s) \/ ((Goto(s, "create") \/ Goto(s, "err")) /\ UNCHANGED next)
      PROVE  /\ at' \in [Setups \cup Purges -> SetupAt \cup PurgeAt]
             /\ \A r \in Setups : at'[r] \in SetupAt
             /\ \A q \in Purges : at'[q] \in PurgeAt
             /\ next' \in [Setups -> 1..3]
  BY <1>2 DEF NextObject
<1>3. CASE Get(s)
  BY <1>2, <1>3 DEF Get
<1>4. CASE Create(s)
  <2>1. made' = made \/ made' = made \cup {Order[next[s]]}
    BY <1>4 DEF Create
  <2>2. \A o \in Objects : made \cup {o} \subseteq Objects
    OBVIOUS
  <2>3. made' \subseteq Objects
    BY <1>1, <2>1, <2>2
  <2>4. QED
    BY <1>2, <1>4, <2>3 DEF Create
<1>5. CASE CreatePod(s)
  BY <1>5 DEF CreatePod
<1>6. CASE EndRun(s)
  BY <1>6 DEF EndRun
<1>7. QED
  BY <1>3, <1>4, <1>5, <1>6 DEF SetupStep

LEMMA TypePurge ==
    ASSUME TypeOK, NEW q \in Purges, PurgeStep(q)
    PROVE  TypeOK'
<1> USE SetupConstants DEF TypeOK, Objects, SetupAt, PurgeAt, Fault, NoFault, Goto, Fails
<1>1. CASE GetBinding(q)
  BY <1>1 DEF GetBinding
<1>2. CASE DeleteBinding(q)
  <2>1. UNCHANGED <<made, unbound>> \/ Unbind
    BY <1>2 DEF DeleteBinding
  <2>2. made' \subseteq Objects /\ unbound' \subseteq Setups
    BY <2>1 DEF Unbind
  <2>3. QED
    BY <1>2, <2>2 DEF DeleteBinding
<1>3. CASE ListPods(q)
  BY <1>3 DEF ListPods
<1>4. ASSUME NEW p \in Setups \cup Leftovers, DeletePod(q, p)
      PROVE  TypeOK'
  BY <1>4 DEF DeletePod
<1>5. CASE PurgeEnds(q)
  BY <1>5 DEF PurgeEnds
<1>6. QED
  BY <1>1, <1>2, <1>3, <1>4, <1>5 DEF PurgeStep

(* Every variable keeps its type (PrepareNs and purge).                    *)
THEOREM TypeCorrect == Spec => []TypeOK
<1>1. TypeOK /\ [Next]_vars => TypeOK'
  <2> SUFFICES ASSUME TypeOK, [Next]_vars PROVE TypeOK'
    OBVIOUS
  <2>1. CASE UNCHANGED vars
    BY <2>1 DEF vars, TypeOK
  <2>2. QED
    BY <2>1, TypeSetup, TypePurge DEF Next
<1>2. QED
  BY <1>1, TypeInit, PTL DEF Spec

-----------------------------------------------------------------------------
(* What PrepareNs has dealt with stays, and a purge --all keeps the        *)
(* remaining leftovers on its list.                                        *)

LEMMA SetupInit == Init => SetupInv
BY SetupConstants DEF Init, SetupInv, PreparedOf, LeftoversOf

(* No setup takes the namespace or the service account away, and the pod   *)
(* that it creates is on no list of a purge.                               *)
LEMMA SetupKeeps ==
    ASSUME TypeOK, SetupInv, NEW s \in Setups, SetupStep(s)
    PROVE  SetupInv'
<1> USE SetupConstants DEF TypeOK, Fault, NoFault, Goto
<1>1. /\ Order[next[s]] \in Objects
      /\ next[s] = 1 => Order[next[s]] = "ns"
      /\ next[s] = 2 => Order[next[s]] = "sa"
      /\ next[s] \in 1..3
  BY DEF Order, Objects
<1>2. PreparedOf(s)
  BY DEF SetupInv
<1>3. PreparedOf(s)'
  <2>1. ASSUME NextObject(s), Order[next[s]] \in made', made \subseteq made',
               at[s] \in {"get", "create"}, UNCHANGED <<pods, faults>>
        PROVE  PreparedOf(s)'
    <3>1. CASE next[s] = 3
      BY <1>1, <1>2, <2>1, <3>1 DEF NextObject, PreparedOf
    <3>2. CASE next[s] # 3
      <4>1. next'[s] = next[s] + 1 /\ at'[s] = "get"
        BY <2>1, <3>2 DEF NextObject
      <4>2. next[s] = 1 \/ next[s] = 2
        BY <1>1, <3>2
      <4>3. QED
        BY <1>1, <1>2, <2>1, <4>1, <4>2 DEF PreparedOf
    <3>3. QED
      BY <3>1, <3>2
  <2>2. CASE Get(s)
    BY <1>2, <2>1, <2>2 DEF Get, PreparedOf
  <2>3. CASE Create(s)
    <3>1. CASE made' = made \cup {Order[next[s]]} /\ NextObject(s) /\ NoFault
      BY <2>1, <2>3, <3>1 DEF Create
    <3>2. CASE Goto(s, "err") /\ Fault
      BY <1>2, <2>3, <3>2 DEF Create, PreparedOf
    <3>3. QED
      BY <2>3, <3>1, <3>2 DEF Create
  <2>4. CASE CreatePod(s)
    BY <1>2, <2>4 DEF CreatePod, PreparedOf
  <2>5. CASE EndRun(s)
    BY <1>2, <2>5 DEF EndRun, PreparedOf
  <2>6. QED
    BY <2>2, <2>3, <2>4, <2>5 DEF SetupStep
<1>4. /\ made \subseteq made' /\ faults' \in Nat /\ faults' >= faults
      /\ \A r \in Setups \ {s} :
            at'[r] = at[r] /\ next'[r] = next[r] /\ (r \in pods' <=> r \in pods)
      /\ \A q \in Purges : at'[q] = at[q] /\ todo'[q] = todo[q]
  BY <1>1 DEF SetupStep, Get, Create, CreatePod, EndRun, NextObject
<1>5. \A r \in Setups : PreparedOf(r)'
  <2> TAKE r \in Setups
  <2>1. CASE r = s
    BY <1>3, <2>1
  <2>2. CASE r # s
    BY <1>4, <2>2 DEF SetupInv, PreparedOf
  <2>3. QED
    BY <2>1, <2>2
<1>6. /\ pods' \subseteq pods \/ (at[s] = "pod" /\ pods' = pods \cup {s})
      /\ at[s] \in {"run", "done"} => at'[s] \in {"run", "done"}
      /\ pods' \cap Leftovers = pods \cap Leftovers
  BY DEF SetupStep, Get, Create, CreatePod, EndRun, NextObject
<1>7. ASSUME NEW q \in Purges PROVE LeftoversOf(q)'
  <2>1. LeftoversOf(q)
    BY DEF SetupInv
  <2>2. \A r \in todo'[q] \cap Setups : at'[r] \in {"run", "done"}
    BY <1>4, <1>6, <2>1 DEF LeftoversOf
  <2>3. todo[q] \ pods \subseteq todo'[q] \ pods'
    BY <1>4, <1>6, <2>1 DEF LeftoversOf
  <2>4. faults' = 0 => faults = 0
    BY <1>4
  <2>5. QED
    BY <1>4, <1>6, <2>1, <2>2, <2>3, <2>4 DEF LeftoversOf
<1>8. QED
  BY <1>5, <1>7 DEF SetupInv

LEMMA PurgeKeeps ==
    ASSUME TypeOK, SetupInv, NEW q \in Purges, PurgeStep(q)
    PROVE  SetupInv'
<1> USE SetupConstants DEF TypeOK, Fault, NoFault, Goto, Fails
<1>1. /\ pods' \subseteq pods /\ faults' \in Nat /\ faults' >= faults
      /\ made' = made \/ made' = made \ {"crb"}
      /\ UNCHANGED next
      /\ \A s \in Setups : at'[s] = at[s]
      /\ \A r \in Purges \ {q} : at'[r] = at[r] /\ todo'[r] = todo[r]
  BY DEF PurgeStep, GetBinding, DeleteBinding, Unbind, ListPods, DeletePod, PurgeEnds
<1>2. \A s \in Setups : PreparedOf(s)'
  BY <1>1 DEF SetupInv, PreparedOf
<1>3. LeftoversOf(q)'
  <2>1. LeftoversOf(q)
    BY DEF SetupInv
  <2>2. CASE GetBinding(q)
    BY <2>1, <2>2 DEF GetBinding, LeftoversOf
  <2>3. CASE DeleteBinding(q)
    BY <2>1, <2>3 DEF DeleteBinding, LeftoversOf
  <2>4. CASE ListPods(q)
    <3>1. \A s \in todo'[q] \cap Setups : at'[s] \in {"run", "done"}
      BY <1>1, <2>1, <2>4 DEF ListPods, SetupInv, PreparedOf, LeftoversOf
    <3>2. CASE at'[q] = "each"
      BY <2>4, <3>1, <3>2 DEF ListPods, LeftoversOf
    <3>3. CASE at'[q] = "done"
      BY <2>4, <3>1, <3>3 DEF ListPods, LeftoversOf
    <3>4. QED
      BY <2>4, <3>2, <3>3 DEF ListPods
  <2>5. ASSUME NEW p \in Setups \cup Leftovers, DeletePod(q, p)
        PROVE  LeftoversOf(q)'
    BY <1>1, <2>1, <2>5 DEF DeletePod, LeftoversOf
  <2>6. CASE PurgeEnds(q)
    BY <1>1, <2>1, <2>6 DEF PurgeEnds, LeftoversOf
  <2>7. QED
    BY <2>2, <2>3, <2>4, <2>5, <2>6 DEF PurgeStep
<1>4. ASSUME NEW r \in Purges, r # q PROVE LeftoversOf(r)'
  <2>1. LeftoversOf(r)
    BY DEF SetupInv
  <2>2. faults' = 0 => faults = 0
    BY <1>1
  <2>3. QED
    BY <1>1, <1>4, <2>1, <2>2 DEF LeftoversOf
<1>5. QED
  BY <1>2, <1>3, <1>4 DEF SetupInv

(* The strengthening is inductive.                                         *)
THEOREM SetupInvariant == Spec => []SetupInv
<1>1. TypeOK /\ SetupInv /\ [Next]_vars => SetupInv'
  <2> SUFFICES ASSUME TypeOK, SetupInv, [Next]_vars PROVE SetupInv'
    OBVIOUS
  <2>1. CASE UNCHANGED vars
    BY <2>1 DEF vars, SetupInv, PreparedOf, LeftoversOf
  <2>2. QED
    BY <2>1, SetupKeeps, PurgeKeeps DEF Next
<1>2. QED
  BY <1>1, SetupInit, TypeCorrect, PTL DEF Spec

(* First runs that race each other do not make each other fail: the loser  *)
(* at any object goes on (PrepareNs ignores AlreadyExists).                *)
THEOREM RacesDoNotFail == Spec => []OnlyFaultsFail
<1>1. SetupInv => OnlyFaultsFail
  BY DEF SetupInv, PreparedOf, OnlyFaultsFail
<1>2. QED
  BY <1>1, SetupInvariant, PTL

(* A purge --all that lost the race for the binding still deletes every    *)
(* leftover, if no call fails and nobody else deletes its pods.            *)
THEOREM LeftoversGo == Spec => []PurgeDeletesLeftovers
<1>1. SetupInv => PurgeDeletesLeftovers
  BY SetupConstants DEF SetupInv, LeftoversOf, PurgeDeletesLeftovers
<1>2. QED
  BY <1>1, SetupInvariant, PTL

-----------------------------------------------------------------------------

(* A setup at its pod has its binding, or a purge took it in the window    *)
(* after PrepareNs had seen it.                                            *)
THEOREM BindingHolds == Spec => []BoundUnlessPurged
<1>1. Init => BoundUnlessPurged
  BY DEF Init, BoundUnlessPurged
<1>2. TypeOK /\ BoundUnlessPurged /\ [Next]_vars => BoundUnlessPurged'
  <2> SUFFICES ASSUME TypeOK, BoundUnlessPurged, [Next]_vars PROVE BoundUnlessPurged'
    OBVIOUS
  <2> USE SetupConstants DEF TypeOK, Fault, NoFault, Goto
  <2>1. CASE UNCHANGED vars
    BY <2>1 DEF vars, BoundUnlessPurged
  <2>2. ASSUME NEW s \in Setups, SetupStep(s)
        PROVE  BoundUnlessPurged'
    <3>1. /\ made \subseteq made' /\ UNCHANGED unbound
          /\ \A r \in Setups \ {s} : at'[r] = at[r]
      BY <2>2 DEF SetupStep, Get, Create, CreatePod, EndRun, NextObject
    <3>2. at'[s] \in {"pod", "run"} => at[s] \in {"pod", "run"} \/ "crb" \in made'
      <4>1. next[s] = 3 => Order[next[s]] = "crb"
        BY DEF Order
      <4>2. QED
        BY <2>2, <4>1 DEF SetupStep, Get, Create, CreatePod, EndRun, NextObject
    <3>3. QED
      BY <3>1, <3>2 DEF BoundUnlessPurged
  <2>3. ASSUME NEW q \in Purges, PurgeStep(q)
        PROVE  BoundUnlessPurged'
    <3>1. \A s \in Setups : at'[s] = at[s]
      BY <2>3 DEF PurgeStep, GetBinding, DeleteBinding, ListPods, DeletePod, PurgeEnds
    <3>2. UNCHANGED <<made, unbound>> \/ Unbind
      BY <2>3 DEF PurgeStep, GetBinding, DeleteBinding, ListPods, DeletePod, PurgeEnds
    <3>3. QED
      BY <3>1, <3>2 DEF Unbind, BoundUnlessPurged
  <2>4. QED
    BY <2>1, <2>2, <2>3 DEF Next
<1>3. QED
  BY <1>1, <1>2, TypeCorrect, PTL DEF Spec

=============================================================================
