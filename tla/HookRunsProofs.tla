--------------------------- MODULE HookRunsProofs ---------------------------
(***************************************************************************)
(* The limit on the runs of a hook, for any number of hooks, runs in       *)
(* flight, versions of hooks.toml and limits.                              *)
(*                                                                         *)
(* The limit holds because the counter is the number of runs in flight     *)
(* (RunsCounted), which needs that a run posts its evHook once, while it   *)
(* is still the run of its goroutine (PostedOnce, PostedRuns).             *)
(***************************************************************************)
EXTENDS HookRuns, FiniteSetTheorems, SequenceTheorems, WellFoundedInduction, NaturalsInduction, TLAPS

\* The part of TypeOK that the counters depend on.
CountsTypeOK ==
    /\ hooks \in Files
    /\ running \in [Listed -> {i \in Int : i <= MaxRuns}]
    /\ task \in [Run -> Task \cup {None}]
    /\ events \in Seq(Event)

PostedOnce == \A i, j \in DOMAIN events : events[i].run = events[j].run => i = j

PostedRuns == \A i \in DOMAIN events : task[events[i].run] # None

RInv == CountsTypeOK /\ PostedOnce /\ PostedRuns /\ RunsCounted

-----------------------------------------------------------------------------
\* A hook that is never left out of the file is in every version of it.
LEMMA KeptListed ==
    ASSUME CountsTypeOK, NEW n \in Kept
    PROVE  n \in Name /\ n \in Listed /\ \A f \in Files : n \in DOMAIN f
BY DEF Kept, CountsTypeOK, Listed

\* The runs of a hook are finitely many.
LEMMA FlightFinite ==
    ASSUME NEW n
    PROVE  IsFiniteSet(Flight(n)) /\ Cardinality(Flight(n)) \in Nat
<1>1. Flight(n) \subseteq Run
  BY DEF Flight
<1> QED
  BY <1>1, HookAssumption, FS_Subset, FS_CardinalityType

\* What the channel holds.
LEMMA InEvents ==
    ASSUME CountsTypeOK, NEW i \in DOMAIN events
    PROVE  events[i] \in Event /\ events[i].run \in Run
<1>1. i \in 1 .. Len(events)
  BY LenProperties DEF CountsTypeOK
<1>2. events[i] \in Event
  BY <1>1, ElementOfSeq DEF CountsTypeOK
<1> QED
  BY <1>2 DEF Event

LEMMA InitRInv == Init => RInv
<1> SUFFICES ASSUME Init PROVE RInv
  OBVIOUS
<1> USE HookAssumption DEF Init
<1>1. CountsTypeOK
  BY DEF CountsTypeOK
<1>2. PostedOnce /\ PostedRuns
  BY DEF PostedOnce, PostedRuns
<1>3. ASSUME NEW n \in Kept PROVE running[n] = Cardinality(Flight(n))
  <2>1. running[n] = 0
    BY <1>1, KeptListed
  <2>2. Flight(n) = {}
    BY DEF Flight
  <2> QED
    BY <2>1, <2>2, FS_EmptySet
<1> QED
  BY <1>1, <1>2, <1>3 DEF RInv, RunsCounted

-----------------------------------------------------------------------------
\* A reload keeps the counters of the hooks that stay.
LEMMA LoadStep == ASSUME RInv, LoadHooks PROVE RInv'
<1> USE HookAssumption DEF RInv
<1>1. PICK f \in Files :
        /\ hooks' = f
        /\ running' = [n \in DOMAIN f |-> IF n \in Listed THEN running[n] ELSE 0]
        /\ UNCHANGED <<task, events>>
  BY DEF LoadHooks, Keeps
<1>2. CountsTypeOK'
  BY <1>1 DEF CountsTypeOK, Listed
<1>3. PostedOnce' /\ PostedRuns'
  BY <1>1 DEF PostedOnce, PostedRuns
<1>4. ASSUME NEW n \in Kept PROVE (running[n] = Cardinality(Flight(n)))'
  <2>1. n \in Listed /\ n \in DOMAIN f
    BY KeptListed
  <2>2. running'[n] = running[n] /\ Flight(n)' = Flight(n)
    BY <1>1, <2>1 DEF Flight
  <2> QED
    BY <2>2 DEF RunsCounted
<1> QED
  BY <1>2, <1>3, <1>4 DEF RunsCounted

\* A message starts one run of each hook that takes it and is not busy.
LEMMA RunHooksStep == ASSUME RInv, RunHooks PROVE RInv'
<1> USE HookAssumption DEF RInv
<1>0. PICK fired \in SUBSET Listed :
        /\ \A n \in fired : ~Busy(n)
        /\ \E at \in [fired -> Free] :
             /\ \A n, m \in fired : at[n] = at[m] => n = m
             /\ task' = [r \in Run |->
                  IF \E n \in fired : at[n] = r
                  THEN LET n == CHOOSE n \in fired : at[n] = r
                       IN  [name |-> n, reply |-> hooks[n], test |-> FALSE]
                  ELSE task[r]]
             /\ running' = [n \in Listed |-> running[n] + (IF n \in fired THEN 1 ELSE 0)]
             /\ UNCHANGED <<hooks, events>>
  <2>1. PICK taken \in SUBSET Listed :
          LET F == {n \in taken : ~Busy(n)} IN
          \E at \in [F -> Free] :
             /\ \A n, m \in F : at[n] = at[m] => n = m
             /\ task' = [r \in Run |->
                  IF \E n \in F : at[n] = r
                  THEN LET n == CHOOSE n \in F : at[n] = r
                       IN  [name |-> n, reply |-> hooks[n], test |-> FALSE]
                  ELSE task[r]]
             /\ running' = [n \in Listed |-> running[n] + (IF n \in F THEN 1 ELSE 0)]
             /\ UNCHANGED <<hooks, events>>
    BY DEF RunHooks
  <2> WITNESS {n \in taken : ~Busy(n)} \in SUBSET Listed
  <2> QED
    BY <2>1
<1>1. PICK at \in [fired -> Free] :
        /\ \A n, m \in fired : at[n] = at[m] => n = m
        /\ task' = [r \in Run |->
             IF \E n \in fired : at[n] = r
             THEN LET n == CHOOSE n \in fired : at[n] = r
                  IN  [name |-> n, reply |-> hooks[n], test |-> FALSE]
             ELSE task[r]]
        /\ running' = [n \in Listed |-> running[n] + (IF n \in fired THEN 1 ELSE 0)]
        /\ UNCHANGED <<hooks, events>>
  BY <1>0
<1>2. ASSUME NEW n \in fired
      PROVE  /\ at[n] \in Run /\ task[at[n]] = None
             /\ task'[at[n]] = [name |-> n, reply |-> hooks[n], test |-> FALSE]
  <2>1. at[n] \in Run /\ task[at[n]] = None
    BY <1>1 DEF Free
  <2>2. (CHOOSE m \in fired : at[m] = at[n]) = n
    BY <1>1
  <2> QED
    BY <1>1, <2>1, <2>2
<1>3. ASSUME NEW r \in Run, ~\E n \in fired : at[n] = r PROVE task'[r] = task[r]
  BY <1>1, <1>3
<1>4. \A n \in fired : n \in Name /\ hooks[n] \in Reply
  BY <1>1 DEF CountsTypeOK, Listed
<1>5. CountsTypeOK'
  <2>1. task' \in [Run -> Task \cup {None}]
    <3>1. ASSUME NEW r \in Run PROVE task'[r] \in Task \cup {None}
      <4>1. CASE \E n \in fired : at[n] = r
        <5>1. PICK n \in fired : at[n] = r
          BY <4>1
        <5>2. n \in Name /\ hooks[n] \in Reply
          BY <1>4
        <5>3. task'[r] = [name |-> n, reply |-> hooks[n], test |-> FALSE]
          BY <1>2, <5>1
        <5> QED
          BY <5>2, <5>3 DEF Task
      <4>2. CASE ~\E n \in fired : at[n] = r
        BY <1>3, <4>2 DEF CountsTypeOK
      <4> QED
        BY <4>1, <4>2
    <3> QED
      BY <1>1, <3>1
  <2>2. \A n \in fired : running[n] \in Int /\ running[n] + 1 <= MaxRuns
    BY <1>0 DEF Busy, CountsTypeOK
  <2>3. (running \in [Listed -> {i \in Int : i <= MaxRuns}])'
    BY <1>1, <2>2 DEF CountsTypeOK, Listed
  <2> QED
    BY <1>1, <2>1, <2>3 DEF CountsTypeOK
<1>6. PostedOnce'
  BY <1>1 DEF PostedOnce
<1>7. PostedRuns'
  <2>1. ASSUME NEW i \in DOMAIN events PROVE task'[events[i].run] # None
    <3>1. events[i].run \in Run /\ task[events[i].run] # None
      BY InEvents DEF PostedRuns
    <3>2. ~\E n \in fired : at[n] = events[i].run
      BY <1>2, <3>1
    <3> QED
      BY <1>3, <3>1, <3>2
  <2> QED
    BY <1>1, <2>1 DEF PostedRuns
<1>8. ASSUME NEW n \in Kept PROVE (running[n] = Cardinality(Flight(n)))'
  <2>1. n \in Listed /\ running[n] = Cardinality(Flight(n)) /\ IsFiniteSet(Flight(n))
    BY KeptListed, FlightFinite DEF RunsCounted
  <2>2. CASE n \in fired
    <3>1. Flight(n)' = Flight(n) \cup {at[n]}
      <4>1. ASSUME NEW r \in Run PROVE r \in Flight(n)' <=> r \in Flight(n) \cup {at[n]}
        <5>1. CASE \E m \in fired : at[m] = r
          <6>1. PICK m \in fired : at[m] = r
            BY <5>1
          <6>2. task[r] = None /\ task'[r] = [name |-> m, reply |-> hooks[m], test |-> FALSE]
            BY <1>2, <6>1
          <6>3. task'[r] # None /\ task'[r].name = m /\ ~task'[r].test
            <7>1. m \in Name /\ hooks[m] \in Reply
              BY <1>4
            <7>2. task'[r] \in Task
              BY <6>2, <7>1 DEF Task
            <7>3. task'[r] # None
              BY <7>2
            <7>4. task'[r].name = m /\ task'[r].test = FALSE
              BY <6>2
            <7> QED
              BY <7>3, <7>4
          <6>4. r \notin Flight(n)
            BY <6>2 DEF Flight
          <6>5. r \in Flight(n)' <=> m = n
            BY <6>3 DEF Flight
          <6>6. r = at[n] <=> m = n
            BY <1>1, <2>2, <6>1
          <6> QED
            BY <6>4, <6>5, <6>6
        <5>2. CASE ~\E m \in fired : at[m] = r
          BY <1>3, <2>2, <5>2 DEF Flight
        <5> QED
          BY <5>1, <5>2
      <4> QED
        BY <1>2, <2>2, <4>1 DEF Flight
    <3>2. at[n] \notin Flight(n)
      BY <1>2, <2>2 DEF Flight
    <3>3. running'[n] = running[n] + 1
      BY <1>1, <2>1, <2>2
    <3> QED
      BY <2>1, <3>1, <3>2, <3>3, FS_AddElement
  <2>3. CASE n \notin fired
    <3>1. Flight(n)' = Flight(n)
      <4>1. ASSUME NEW r \in Run PROVE r \in Flight(n)' <=> r \in Flight(n)
        <5>1. CASE \E m \in fired : at[m] = r
          <6>1. PICK m \in fired : at[m] = r
            BY <5>1
          <6>2. task[r] = None /\ task'[r] = [name |-> m, reply |-> hooks[m], test |-> FALSE]
            BY <1>2, <6>1
          <6>3. task'[r].name = m /\ m # n
            BY <2>3, <6>2
          <6> QED
            BY <6>2, <6>3 DEF Flight
        <5>2. CASE ~\E m \in fired : at[m] = r
          BY <1>3, <5>2 DEF Flight
        <5> QED
          BY <5>1, <5>2
      <4> QED
        BY <4>1 DEF Flight
    <3>2. running'[n] = running[n]
      BY <1>1, <2>1, <2>3 DEF CountsTypeOK
    <3> QED
      BY <2>1, <3>1, <3>2
  <2> QED
    BY <2>2, <2>3
<1> QED
  BY <1>5, <1>6, <1>7, <1>8 DEF RunsCounted

\* /hooks test starts a run that does not count.
LEMMA HookTestStep ==
    ASSUME RInv, NEW n \in Name, NEW q \in Run, HookTest(n, q)
    PROVE  RInv'
<1> USE HookAssumption DEF RInv
<1> DEFINE t == [name |-> n, reply |-> hooks[n], test |-> TRUE]
<1>1. /\ n \in Listed /\ task[q] = None
      /\ task' = [task EXCEPT ![q] = t]
      /\ UNCHANGED <<hooks, running, events>>
  BY DEF HookTest, Free
<1>2. hooks[n] \in Reply
  BY <1>1 DEF CountsTypeOK, Listed
<1>3. t \in Task
  BY <1>2 DEF Task
<1>4. CountsTypeOK'
  BY <1>1, <1>3 DEF CountsTypeOK, Listed
<1>5. PostedOnce'
  BY <1>1 DEF PostedOnce
<1>6. PostedRuns'
  BY <1>1, <1>3, InEvents DEF PostedRuns, CountsTypeOK
<1>7. ASSUME NEW m \in Kept PROVE Flight(m)' = Flight(m)
  BY <1>1 DEF Flight, CountsTypeOK
<1> QED
  BY <1>1, <1>4, <1>5, <1>6, <1>7 DEF RunsCounted

\* A run posts its evHook; it is in flight until the UI has read it.
LEMMA RunEndsStep == ASSUME RInv, NEW r \in Run, RunEnds(r) PROVE RInv'
<1> USE DEF RInv
<1>1. PICK ok \in BOOLEAN : events' = Append(events, [run |-> r, ok |-> ok])
  BY DEF RunEnds
<1>2. /\ task[r] # None
      /\ \A i \in DOMAIN events : events[i].run # r
      /\ UNCHANGED <<hooks, running, task>>
  BY DEF RunEnds, Process, Posted
<1>3. [run |-> r, ok |-> ok] \in Event
  BY DEF Event
<1>4. /\ events' \in Seq(Event)
      /\ DOMAIN events = 1 .. Len(events)
      /\ DOMAIN events' = 1 .. (Len(events) + 1)
      /\ Len(events) \in Nat
      /\ events'[Len(events) + 1].run = r
      /\ \A i \in DOMAIN events : events'[i] = events[i]
  BY <1>1, <1>3, AppendProperties, LenProperties DEF CountsTypeOK
<1>5. CountsTypeOK'
  BY <1>2, <1>4 DEF CountsTypeOK, Listed
<1>6. PostedOnce'
  BY <1>2, <1>4 DEF PostedOnce
<1>7. PostedRuns'
  BY <1>2, <1>4 DEF PostedRuns
<1>8. RunsCounted'
  BY <1>2 DEF RunsCounted, Flight
<1> QED
  BY <1>5, <1>6, <1>7, <1>8

\* hookDone gives back the run it reads, once.
LEMMA HookDoneStep == ASSUME RInv, HookDone PROVE RInv'
<1> USE HookAssumption DEF RInv
<1>1. PICK r \in Run :
        /\ r = Done.run
        /\ task[r] \in Task /\ task[r] # None
        /\ task' = [task EXCEPT ![r] = None]
        /\ events' = Tail(events)
        /\ Len(events) \in Nat \ {0}
        /\ DOMAIN events = 1 .. Len(events)
        /\ events[1].run = r
        /\ UNCHANGED hooks
  <2>1. events # <<>> /\ events \in Seq(Event)
    BY DEF HookDone, TakeDone, CountsTypeOK
  <2>2. Len(events) \in Nat \ {0} /\ DOMAIN events = 1 .. Len(events) /\ Done = events[1]
    BY <2>1, LenProperties, EmptySeq, HeadTailProperties DEF Done
  <2>3. Done.run \in Run /\ task[Done.run] # None
    BY <2>2, InEvents DEF PostedRuns
  <2>4. task[Done.run] \in Task
    BY <2>3 DEF CountsTypeOK
  <2> QED
    BY <2>2, <2>3, <2>4 DEF HookDone, TakeDone
<1>2. /\ events' \in Seq(Event)
      /\ DOMAIN events' = 1 .. (Len(events) - 1)
      /\ \A i \in DOMAIN events' : events'[i] = events[i + 1] /\ i + 1 \in DOMAIN events
  BY <1>1, HeadTailProperties, LenProperties, EmptySeq DEF CountsTypeOK
<1>3. \/ (task[r].test \/ task[r].name \notin Listed) /\ UNCHANGED running
      \/ /\ ~task[r].test /\ task[r].name \in Listed
         /\ running' = [running EXCEPT ![task[r].name] = @ - 1]
  BY <1>1 DEF HookDone, Uncount
<1>4. CountsTypeOK'
  <2>1. (running \in [Listed -> {i \in Int : i <= MaxRuns}])'
    BY <1>1, <1>3 DEF CountsTypeOK, Listed
  <2> QED
    BY <1>1, <1>2, <2>1 DEF CountsTypeOK
<1>5. PostedOnce'
  BY <1>1, <1>2 DEF PostedOnce
<1>6. PostedRuns'
  <2>1. ASSUME NEW i \in DOMAIN events' PROVE task'[events'[i].run] # None
    <3>1. events'[i] = events[i + 1] /\ i + 1 \in DOMAIN events /\ i + 1 # 1
      BY <1>1, <1>2
    <3>2. events[i + 1].run # r /\ task[events[i + 1].run] # None
      BY <1>1, <3>1 DEF PostedOnce, PostedRuns
    <3> QED
      BY <1>1, <3>1, <3>2, InEvents DEF CountsTypeOK
  <2> QED
    BY <2>1 DEF PostedRuns
<1>7. ASSUME NEW n \in Kept PROVE (running[n] = Cardinality(Flight(n)))'
  <2>1. /\ n \in Listed /\ IsFiniteSet(Flight(n)) /\ Cardinality(Flight(n)) \in Nat
        /\ running[n] = Cardinality(Flight(n))
    BY KeptListed, FlightFinite DEF RunsCounted
  <2>2. Flight(n)' = Flight(n) \ {r}
    BY <1>1 DEF Flight, CountsTypeOK
  <2>3. CASE r \in Flight(n)
    <3>1. ~task[r].test /\ task[r].name = n
      BY <2>3 DEF Flight
    <3>2. running'[n] = running[n] - 1
      BY <1>3, <2>1, <3>1 DEF CountsTypeOK
    <3>3. Cardinality(Flight(n) \ {r}) = Cardinality(Flight(n)) - 1
      BY <2>1, <2>3, FS_RemoveElement
    <3> QED
      BY <2>1, <2>2, <3>2, <3>3
  <2>4. CASE r \notin Flight(n)
    <3>1. task[r].test \/ task[r].name # n
      BY <1>1, <2>4 DEF Flight
    <3>2. running'[n] = running[n]
      BY <1>3, <2>1, <3>1 DEF CountsTypeOK
    <3>3. Flight(n)' = Flight(n)
      BY <2>2, <2>4
    <3> QED
      BY <2>1, <3>2, <3>3
  <2> QED
    BY <2>3, <2>4
<1> QED
  BY <1>4, <1>5, <1>6, <1>7 DEF RunsCounted

-----------------------------------------------------------------------------
LEMMA RInvStep == RInv /\ [Next]_vars => RInv'
<1> SUFFICES ASSUME RInv, [Next]_vars PROVE RInv'
  OBVIOUS
<1>1. CASE Tick \/ UNCHANGED vars
  <2>1. UNCHANGED <<hooks, running, task, events>>
    BY <1>1 DEF Tick, vars
  <2> QED
    BY <2>1 DEF RInv, CountsTypeOK, PostedOnce, PostedRuns, RunsCounted, Flight, Listed
<1> QED
  BY <1>1, LoadStep, RunHooksStep, HookTestStep, RunEndsStep, HookDoneStep DEF Next

\* The counter of a hook that stays in the file is the number of its runs.
THEOREM RunsCountedAlways == Spec => []RunsCounted
<1>1. RInv => RunsCounted
  BY DEF RInv
<1> QED
  BY <1>1, InitRInv, RInvStep, PTL DEF Spec

\* fireHook skips a message when the counter is at the limit: never more than
\* MaxRuns processes of a hook that stays in the file.
THEOREM AtMostMaxRunsAlways == Spec => []AtMostMaxRuns
<1>1. ASSUME RInv PROVE AtMostMaxRuns
  <2>1. ASSUME NEW n \in Kept PROVE Cardinality(Flight(n) \cap Process) <= MaxRuns
    <3>1. IsFiniteSet(Flight(n)) /\ Cardinality(Flight(n)) \in Nat
      BY FlightFinite
    <3>2. Cardinality(Flight(n)) <= MaxRuns
      BY <1>1, <2>1, KeptListed DEF RInv, RunsCounted, CountsTypeOK
    <3>3. Flight(n) \cap Process \subseteq Flight(n)
      OBVIOUS
    <3>4. /\ Cardinality(Flight(n) \cap Process) <= Cardinality(Flight(n))
          /\ Cardinality(Flight(n) \cap Process) \in Nat
      BY <3>1, <3>3, FS_Subset, FS_CardinalityType
    <3> QED
      BY <3>1, <3>2, <3>4, HookAssumption
  <2> QED
    BY <2>1 DEF AtMostMaxRuns
<1> QED
  BY <1>1, InitRInv, RInvStep, PTL DEF Spec

-----------------------------------------------------------------------------
(* The sends of a hook.  The list of hookSend is in the order of time, so  *)
(* what it forgets is a prefix, and what is left is what was sent in the   *)
(* last minute.                                                            *)

Ordered(ages) == \A i \in 1 .. Len(ages) : \A j \in 1 .. Len(ages) : i <= j => ages[j] <= ages[i]
\* late is what is left of ages once its first k are forgotten.
Left(late, ages, k) ==
    /\ late \in Seq(Age) /\ Len(late) = Len(ages) - k
    /\ \A i \in 1 .. Len(ages) - k : late[i] = ages[k + i]
Split(ages, age, k) == k \in 0 .. Len(ages) /\ \A i \in 1 .. Len(ages) : ages[i] >= age <=> i <= k

SendInv ==
    /\ sends = [n \in Listed |-> sends[n]] /\ sent = [n \in Kept |-> sent[n]]
    /\ \A n \in Listed : sends[n] \in Seq(Age) /\ Ordered(sends[n])
    /\ \A n \in Kept : /\ Len(sent[n]) <= MaxSends
                       /\ \E k : Split(sends[n], Minute, k) /\ Left(sent[n], sends[n], k)

\* Ages in the order of time have one place where the young ones start.
LEMMA SplitExists ==
    ASSUME NEW ages \in Seq(Age), Ordered(ages), NEW age \in Nat
    PROVE  \E k : Split(ages, age, k)
<1>0. Len(ages) \in Nat /\ \A i \in 1 .. Len(ages) : ages[i] \in Int
  <2>1. \A i \in 1 .. Len(ages) : ages[i] \in Age
    BY ElementOfSeq
  <2> QED
    BY <2>1, LenProperties, HookAssumption DEF Age
<1>1. PICK S : S = {k \in 0 .. Len(ages) : \A i \in 1 .. Len(ages) : i > k => ages[i] < age}
  OBVIOUS
<1>2. Len(ages) \in S /\ S \in SUBSET Nat
  BY <1>0, <1>1
<1>3. PICK k \in S : \A l \in S : k <= l
  <2> DEFINE R == OpToRel(<, Nat)
  <2>1. \E k \in S : \A l \in S : ~ (<<l, k>> \in R)
    <3>1. IsWellFoundedOn(R, Nat)
      BY NatLessThanWellFounded
    <3> HIDE DEF R
    <3> QED
      BY <3>1, <1>2, WFMin
  <2>2. PICK k \in S : \A l \in S : ~ (<<l, k>> \in R)
    BY <2>1
  <2>3. \A l \in S : ~ (l < k)
    BY <2>2, <1>2 DEF OpToRel
  <2>4. \A l \in S : k <= l
    BY <2>3, <1>2
  <2> QED
    BY <2>4
<1>4. k \in 0 .. Len(ages) /\ \A i \in 1 .. Len(ages) : i > k => ages[i] < age
  BY <1>1
<1>5. ASSUME NEW i \in 1 .. Len(ages), i <= k PROVE ages[i] >= age
  <2>1. k \in 1 .. Len(ages)
    BY <1>4, <1>5, <1>0
  <2>2. ages[k] >= age
    <3>1. k - 1 \notin S
      BY <1>2, <1>3, <2>1
    <3>2. PICK j \in 1 .. Len(ages) : j > k - 1 /\ ~(ages[j] < age)
      BY <3>1, <2>1, <1>1, <1>0
    <3>3. j = k
      BY <3>2, <1>4, <2>1, <1>0
    <3> QED
      BY <3>2, <3>3, <1>0
  <2>3. ages[k] <= ages[i]
    BY <2>1, <1>5 DEF Ordered
  <2> QED
    BY <2>1, <2>2, <2>3, <1>0
<1>6. Split(ages, age, k)
  BY <1>0, <1>4, <1>5 DEF Split
<1> QED
  BY <1>6

\* Younger drops a prefix, all of it and nothing else that is old.
LEMMA YoungerFacts ==
    ASSUME NEW ages \in Seq(Age), NEW age \in Nat, NEW k, Split(ages, age, k)
    PROVE  Left(Younger(ages, age), ages, k)
<1>0. Len(ages) \in Nat /\ DOMAIN ages = 1 .. Len(ages) /\ \A i \in 1 .. Len(ages) : ages[i] \in Age
  BY LenProperties, ElementOfSeq
<1>1. PICK old : old = CHOOSE j \in 0 .. Len(ages) : \A i \in DOMAIN ages : ages[i] >= age <=> i <= j
  OBVIOUS
<1>2. old \in 0 .. Len(ages) /\ \A i \in 1 .. Len(ages) : ages[i] >= age <=> i <= old
  BY <1>0, <1>1, Zenon DEF Split
<1>3. k \in 0 .. Len(ages) /\ \A i \in 1 .. Len(ages) : i <= k <=> i <= old
  BY <1>2 DEF Split
<1>4. old = k
  BY <1>0, <1>2, <1>3
<1>5. Younger(ages, age) = SubSeq(ages, k + 1, Len(ages))
  BY <1>1, <1>4 DEF Younger
<1>6. /\ SubSeq(ages, k + 1, Len(ages)) \in Seq(Age) /\ Len(SubSeq(ages, k + 1, Len(ages))) = Len(ages) - k
      /\ \A i \in 1 .. Len(ages) - k : SubSeq(ages, k + 1, Len(ages))[i] = ages[k + i]
  <2>1. \A i \in k + 1 .. Len(ages) : ages[i] \in Age
    BY <1>0, <1>3
  <2>2. /\ SubSeq(ages, k + 1, Len(ages)) \in Seq(Age)
        /\ Len(SubSeq(ages, k + 1, Len(ages))) = IF k + 1 <= Len(ages) THEN Len(ages) - (k + 1) + 1 ELSE 0
        /\ \A i \in 1 .. Len(ages) - (k + 1) + 1 : SubSeq(ages, k + 1, Len(ages))[i] = ages[k + 1 + i - 1]
    BY <2>1, <1>0, <1>3, SubSeqProperties
  <2>3. k \in Nat /\ k <= Len(ages)
    BY <1>0, <1>3
  <2>4. (IF k + 1 <= Len(ages) THEN Len(ages) - (k + 1) + 1 ELSE 0) = Len(ages) - k
    <3>1. \A n \in Nat : \A j \in Nat : j <= n => (IF j + 1 <= n THEN n - (j + 1) + 1 ELSE 0) = n - j
      OBVIOUS
    <3> QED
      BY <3>1, <2>3, <1>0
  <2>5. Len(ages) - (k + 1) + 1 = Len(ages) - k /\ \A i \in 1 .. Len(ages) - k : k + 1 + i - 1 = k + i
    BY <2>3, <1>0
  <2>6. \A i \in 1 .. Len(ages) - k : SubSeq(ages, k + 1, Len(ages))[i] = ages[k + i]
    BY <2>2, <2>5
  <2> QED
    BY <2>2, <2>4, <2>6
<1> QED
  BY <1>5, <1>6 DEF Left

\* The ages a tick later.
LEMMA OlderFacts ==
    ASSUME NEW ages \in Seq(Age)
    PROVE  /\ Older(ages) \in Seq(Age) /\ Len(Older(ages)) = Len(ages)
           /\ \A i \in 1 .. Len(ages) : Older(ages)[i] = IF ages[i] < Minute THEN ages[i] + 1 ELSE Minute
           /\ Ordered(ages) => Ordered(Older(ages))
<1>0. Len(ages) \in Nat /\ DOMAIN ages = 1 .. Len(ages) /\ Minute \in Nat
  BY LenProperties, HookAssumption
<1>1. \A i \in 1 .. Len(ages) : ages[i] \in Int /\ ages[i] \in 0 .. Minute
  BY <1>0, ElementOfSeq DEF Age
<1>2. PICK n \in Nat : n = Len(ages)
  BY <1>0
<1>3. PICK o : o = [i \in 1 .. n |-> IF ages[i] < Minute THEN ages[i] + 1 ELSE Minute]
  OBVIOUS
<1>4. Older(ages) = o
  BY <1>0, <1>2, <1>3 DEF Older
<1>5. \A i \in 1 .. n : (IF ages[i] < Minute THEN ages[i] + 1 ELSE Minute) \in Age
  BY <1>0, <1>1, <1>2 DEF Age
<1>6. o \in [1 .. n -> Age]
  BY <1>3, <1>5
<1>7. o \in Seq(Age)
  BY <1>6, SeqDef
<1>8. DOMAIN o = 1 .. n /\ DOMAIN o = 1 .. Len(o) /\ Len(o) \in Nat
  BY <1>3, <1>7, LenProperties
<1>9. Len(o) = n
  BY <1>8
<1>10. \A i \in 1 .. n : o[i] = IF ages[i] < Minute THEN ages[i] + 1 ELSE Minute
  BY <1>3
<1>11. ASSUME Ordered(ages) PROVE Ordered(o)
  <2> SUFFICES ASSUME NEW i \in 1 .. n, NEW j \in 1 .. n, i <= j PROVE o[j] <= o[i]
    BY <1>9 DEF Ordered
  <2>1. ages[j] <= ages[i]
    BY <1>2, <1>11 DEF Ordered
  <2> QED
    BY <2>1, <1>0, <1>1, <1>2, <1>10
<1> QED
  BY <1>2, <1>4, <1>7, <1>9, <1>10, <1>11

\* Ages that are all young are what is left of themselves.
LEMMA AllYoung ==
    ASSUME NEW ages \in Seq(Age), NEW late \in Seq(Age), Len(late) = Len(ages),
           \A i \in 1 .. Len(ages) : late[i] = ages[i] /\ ages[i] < Minute
    PROVE  Split(ages, Minute, 0) /\ Left(late, ages, 0)
<1>0. Len(ages) \in Nat /\ Minute \in Nat /\ \A i \in 1 .. Len(ages) : ages[i] \in Int
  <2>1. \A i \in 1 .. Len(ages) : ages[i] \in Age
    BY ElementOfSeq
  <2> QED
    BY <2>1, LenProperties, HookAssumption DEF Age
<1> QED
  BY <1>0 DEF Split, Left

LEMMA SendInit == Init => SendInv
<1> SUFFICES ASSUME Init PROVE SendInv
  OBVIOUS
<1>1. sends = [n \in Listed |-> <<>>] /\ sent = [n \in Kept |-> <<>>] /\ Kept \subseteq Listed
  <2>1. hooks \in Files
    BY DEF Init
  <2> QED
    BY <2>1 DEF Init, Kept, Listed
<1>2. PICK s \in Seq(Age) : s = <<>> /\ Len(s) = 0
  BY EmptySeq
<1>3. Ordered(s) /\ Split(s, Minute, 0) /\ Left(s, s, 0) /\ Len(s) <= MaxSends
  <2>1. Split(s, Minute, 0) /\ Left(s, s, 0)
    <3>1. \A i \in 1 .. Len(s) : s[i] = s[i] /\ s[i] < Minute
      <4>1. \A i \in 1 .. Len(s) : FALSE
        BY <1>2
      <4> QED
        BY <4>1
    <3> QED
      BY <1>2, <3>1, AllYoung
  <2>2. Ordered(s)
    BY <1>2 DEF Ordered
  <2> QED
    BY <1>2, <2>1, <2>2, HookAssumption
<1>4. (\A n \in Listed : sends[n] = s) /\ \A n \in Kept : sent[n] = s /\ sends[n] = s
  BY <1>1, <1>2
<1> QED
  BY <1>1, <1>3, <1>4 DEF SendInv

\* hookSend: what it keeps is what was sent in the last minute, so its limit
\* is on that.
LEMMA HookSendStep ==
    ASSUME CountsTypeOK, SendInv, NEW n \in Listed, HookSend(n), UNCHANGED hooks
    PROVE  SendInv'
<1>0. sends[n] \in Seq(Age) /\ Ordered(sends[n]) /\ Minute \in Nat \ {0} /\ MaxSends \in Nat \ {0}
  BY HookAssumption DEF SendInv
<1>1. PICK ages \in Seq(Age) : ages = sends[n]
  BY <1>0
<1>2. PICK k : Split(ages, Minute, k)
  BY <1>0, <1>1, SplitExists
<1>3. PICK fresh : fresh = Fresh(ages)
  OBVIOUS
<1>4. Left(fresh, ages, k)
  BY <1>0, <1>2, <1>3, YoungerFacts DEF Fresh
<1>5. Len(ages) \in Nat /\ k \in Nat /\ k <= Len(ages) /\ \A i \in 1 .. Len(ages) : ages[i] \in Int
  <2>1. \A i \in 1 .. Len(ages) : ages[i] \in Age
    BY ElementOfSeq
  <2> QED
    BY <2>1, <1>2, LenProperties, HookAssumption DEF Age, Split
<1>6. /\ fresh \in Seq(Age) /\ Len(fresh) = Len(ages) - k /\ Len(fresh) \in Nat
      /\ \A i \in 1 .. Len(fresh) : fresh[i] = ages[k + i] /\ k + i \in 1 .. Len(ages) /\ ~(k + i <= k)
  BY <1>4, <1>5 DEF Left
<1>7. \A i \in 1 .. Len(fresh) : fresh[i] < Minute /\ fresh[i] \in Int
  BY <1>0, <1>2, <1>5, <1>6 DEF Split
<1>8. Ordered(fresh)
  <2> SUFFICES ASSUME NEW i \in 1 .. Len(fresh), NEW j \in 1 .. Len(fresh), i <= j PROVE fresh[j] <= fresh[i]
    BY DEF Ordered
  <2>1. k + i <= k + j
    BY <1>5, <1>6
  <2> QED
    BY <2>1, <1>0, <1>1, <1>6 DEF Ordered
\* What is left in the history is the same.
<1>9. ASSUME n \in Kept
      PROVE  /\ sent[n] \in Seq(Age) /\ Len(sent[n]) = Len(fresh)
             /\ \A i \in 1 .. Len(fresh) : sent[n][i] = fresh[i]
  <2>1. PICK l : Split(ages, Minute, l) /\ Left(sent[n], ages, l)
    BY <1>1, <1>9 DEF SendInv
  <2>2. l \in Nat /\ l <= Len(ages) /\ \A i \in 1 .. Len(ages) : i <= k <=> i <= l
    BY <2>1, <1>2, <1>5 DEF Split
  <2>3. l = k
    BY <2>2, <1>5
  <2> QED
    BY <2>1, <2>3, <1>6 DEF Left
<1>10. Listed' = Listed
  BY DEF Listed
\* The list that replaces the one of n, and the history of n.
<1>11. ASSUME NEW s \in Seq(Age), NEW t, sends' = [sends EXCEPT ![n] = s], Ordered(s),
              sent' = [m \in Kept |-> IF m = n THEN t ELSE sent[m]],
              n \in Kept => Split(s, Minute, 0) /\ Left(t, s, 0) /\ Len(t) <= MaxSends
       PROVE  SendInv'
  <2>1. sends' = [m \in Listed' |-> sends'[m]] /\ sent' = [m \in Kept |-> sent'[m]]
    BY <1>10, <1>11 DEF SendInv
  <2>2. \A m \in Listed' : sends'[m] \in Seq(Age) /\ Ordered(sends'[m])
    BY <1>10, <1>11 DEF SendInv
  <2>3. ASSUME NEW m \in Kept
        PROVE  Len(sent'[m]) <= MaxSends /\ \E j : Split(sends'[m], Minute, j) /\ Left(sent'[m], sends'[m], j)
    <3>0. m \in Listed
      BY KeptListed
    <3>1. CASE m = n
      <4>1. sends'[m] = s /\ sent'[m] = t
        BY <3>0, <3>1, <1>11 DEF SendInv
      <4> QED
        BY <4>1, <3>1, <1>11
    <3>2. CASE m # n
      <4>1. sends'[m] = sends[m] /\ sent'[m] = sent[m]
        BY <3>0, <3>2, <1>11 DEF SendInv
      <4> QED
        BY <4>1 DEF SendInv
    <3> QED
      BY <3>1, <3>2
  <2> QED
    BY <2>1, <2>2, <2>3 DEF SendInv
<1>12. CASE Len(fresh) >= MaxSends
  <2>1. sends' = [sends EXCEPT ![n] = fresh] /\ sent' = sent
    BY <1>1, <1>3, <1>12 DEF HookSend
  <2>2. PICK t : t = sent[n]
    OBVIOUS
  <2>3. sent' = [m \in Kept |-> IF m = n THEN t ELSE sent[m]]
    BY <2>1, <2>2 DEF SendInv
  <2>4. ASSUME n \in Kept PROVE Split(fresh, Minute, 0) /\ Left(t, fresh, 0) /\ Len(t) <= MaxSends
    BY <2>2, <2>4, <1>6, <1>7, <1>9, AllYoung DEF SendInv
  <2> QED
    BY <2>1, <2>3, <2>4, <1>6, <1>8, <1>11
<1>13. CASE ~(Len(fresh) >= MaxSends)
  <2>1. /\ sends' = [sends EXCEPT ![n] = Append(fresh, 0)]
        /\ sent' = [m \in Kept |-> IF m = n THEN Append(sent[n], 0) ELSE sent[m]]
    BY <1>1, <1>3, <1>13 DEF HookSend
  <2>2. 0 \in Age
    BY <1>0 DEF Age
  <2>3. PICK s : s = Append(fresh, 0)
    OBVIOUS
  <2>4. /\ s \in Seq(Age) /\ Len(s) = Len(fresh) + 1
        /\ \A i \in 1 .. Len(fresh) + 1 : s[i] = IF i <= Len(fresh) THEN fresh[i] ELSE 0
    BY <2>2, <2>3, <1>6, AppendProperties
  <2>5. \A i \in 1 .. Len(s) : s[i] < Minute /\ s[i] >= 0
    <3>1. \A i \in 1 .. Len(fresh) : fresh[i] \in Age
      BY <1>6, ElementOfSeq
    <3>2. \A i \in 1 .. Len(fresh) : fresh[i] >= 0
      BY <3>1, <1>0 DEF Age
    <3>3. Len(fresh) \in Nat
      BY <1>6, LenProperties
    <3> SUFFICES ASSUME NEW i \in 1 .. Len(s) PROVE s[i] < Minute /\ s[i] >= 0
      OBVIOUS
    <3>4. CASE i <= Len(fresh)
      <4>1. s[i] = fresh[i] /\ i \in 1 .. Len(fresh)
        BY <3>4, <3>3, <2>4
      <4> QED
        BY <4>1, <3>2, <1>7
    <3>5. CASE ~(i <= Len(fresh))
      <4>1. s[i] = 0
        BY <3>5, <2>4
      <4> QED
        BY <4>1, <1>0
    <3> QED
      BY <3>4, <3>5
  <2>6. Ordered(s)
    <3> SUFFICES ASSUME NEW i \in 1 .. Len(s), NEW j \in 1 .. Len(s), i <= j PROVE s[j] <= s[i]
      BY DEF Ordered
    <3>1. CASE j <= Len(fresh)
      BY <3>1, <2>4, <1>6, <1>8 DEF Ordered
    <3>2. CASE ~(j <= Len(fresh))
      <4>1. s[j] = 0 /\ s[i] >= 0
        BY <3>2, <2>4, <2>5
      <4> QED
        BY <4>1
    <3> QED
      BY <3>1, <3>2
  <2>7. PICK t : t = Append(sent[n], 0)
    OBVIOUS
  <2>8. ASSUME n \in Kept PROVE Split(s, Minute, 0) /\ Left(t, s, 0) /\ Len(t) <= MaxSends
    <3>1. /\ t \in Seq(Age) /\ Len(t) = Len(fresh) + 1
          /\ \A i \in 1 .. Len(fresh) + 1 : t[i] = IF i <= Len(fresh) THEN sent[n][i] ELSE 0
      BY <2>2, <2>7, <2>8, <1>9, AppendProperties
    <3>2. \A i \in 1 .. Len(s) : t[i] = s[i]
      BY <3>1, <2>4, <2>8, <1>6, <1>9
    <3>3. Split(s, Minute, 0) /\ Left(t, s, 0)
      BY <3>1, <3>2, <2>4, <2>5, AllYoung
    <3> QED
      BY <3>1, <3>3, <1>0, <1>6, <1>13
  <2> QED
    BY <2>1, <2>3, <2>4, <2>6, <2>7, <2>8, <1>11
<1> QED
  BY <1>12, <1>13

\* A tick: the list gets older, and so does what is left of it.
LEMMA TickStep == ASSUME CountsTypeOK, SendInv, Tick PROVE SendInv'
<1>0. /\ sends' = [n \in Listed |-> Older(sends[n])] /\ Listed' = Listed
      /\ sent' = [n \in Kept |-> Younger(Older(sent[n]), Minute)]
      /\ Minute \in Nat \ {0} /\ MaxSends \in Nat
  BY HookAssumption DEF Tick, Listed
<1>1. \A n \in Listed : sends'[n] = Older(sends[n]) /\ sends'[n] \in Seq(Age) /\ Ordered(sends'[n])
  BY <1>0, OlderFacts DEF SendInv
<1>2. ASSUME NEW n \in Kept
      PROVE  Len(sent'[n]) <= MaxSends /\ \E j : Split(sends'[n], Minute, j) /\ Left(sent'[n], sends'[n], j)
  <2>0. n \in Listed
    BY KeptListed
  <2>1. PICK s \in Seq(Age) : s = sends[n] /\ Ordered(s)
    BY <2>0 DEF SendInv
  <2>2. PICK k : Split(s, Minute, k) /\ Left(sent[n], s, k)
    BY <2>1 DEF SendInv
  <2>3. PICK t \in Seq(Age) : t = sent[n] /\ Left(t, s, k) /\ Len(t) <= MaxSends
    BY <2>2 DEF SendInv, Left
  <2>4. PICK o \in Seq(Age) : o = Older(s) /\ Ordered(o)
    BY <2>1, OlderFacts
  <2>5. PICK p \in Seq(Age) : p = Older(t)
    BY OlderFacts
  <2>6. PICK l : Split(o, Minute, l)
    BY <2>4, <1>0, SplitExists
  <2>7. /\ Len(o) = Len(s) /\ Len(p) = Len(t) /\ Len(t) = Len(s) - k
        /\ \A i \in 1 .. Len(s) : o[i] = IF s[i] < Minute THEN s[i] + 1 ELSE Minute
        /\ \A i \in 1 .. Len(t) : p[i] = IF t[i] < Minute THEN t[i] + 1 ELSE Minute
    BY <2>3, <2>4, <2>5, OlderFacts DEF Left
  <2>8. Len(s) \in Nat /\ k \in Nat /\ k <= Len(s) /\ l \in Nat /\ l <= Len(s)
    BY <2>2, <2>6, <2>7, LenProperties DEF Split
  <2>9. \A i \in 1 .. Len(s) : s[i] \in Int
    <3>1. \A i \in 1 .. Len(s) : s[i] \in Age
      BY ElementOfSeq
    <3> QED
      BY <3>1, <1>0 DEF Age
  <2>10. k <= l
    <3>1. CASE k = 0
      BY <3>1, <2>8
    <3>2. CASE k # 0
      <4>1. k \in 1 .. Len(s) /\ s[k] >= Minute
        BY <3>2, <2>2, <2>8 DEF Split
      <4>2. o[k] >= Minute
        BY <4>1, <2>7, <2>9, <1>0
      <4> QED
        BY <4>1, <4>2, <2>6, <2>7 DEF Split
    <3> QED
      BY <3>1, <3>2
  <2>11. \A i \in 1 .. Len(t) : k + i \in 1 .. Len(s) /\ p[i] = o[k + i]
    BY <2>3, <2>7, <2>8 DEF Left
  <2>12. Split(p, Minute, l - k)
    <3>1. l - k \in 0 .. Len(p)
      BY <2>7, <2>8, <2>10
    <3>2. \A i \in 1 .. Len(p) : p[i] >= Minute <=> k + i <= l
      BY <2>6, <2>7, <2>11 DEF Split
    <3>3. \A i \in 1 .. Len(p) : k + i <= l <=> i <= l - k
      BY <2>7, <2>8
    <3> QED
      BY <3>1, <3>2, <3>3 DEF Split
  <2>13. PICK q : q = Younger(p, Minute) /\ Left(q, p, l - k)
    BY <2>12, <1>0, YoungerFacts
  <2>14. /\ q \in Seq(Age) /\ Len(q) = Len(o) - l
         /\ \A i \in 1 .. Len(o) - l : q[i] = p[l - k + i]
    <3>1. Len(p) - (l - k) = Len(o) - l
      BY <2>7, <2>8
    <3> QED
      BY <3>1, <2>13 DEF Left
  <2>15. \A i \in 1 .. Len(o) - l : l - k + i \in 1 .. Len(t) /\ k + (l - k + i) = l + i
    BY <2>7, <2>8, <2>10
  <2>16. Left(q, o, l)
    BY <2>11, <2>14, <2>15 DEF Left
  <2>17. Len(q) <= Len(t) /\ Len(t) \in Nat
    BY <2>7, <2>8, <2>10, <2>14
  <2>18. sent'[n] = q /\ sends'[n] = o
    BY <2>0, <2>1, <2>3, <2>4, <2>5, <2>13, <1>0
  <2> QED
    BY <2>3, <2>6, <2>14, <2>16, <2>17, <2>18, <2>8, <2>7, <1>0
<1> QED
  BY <1>0, <1>1, <1>2 DEF SendInv

LEMMA SendInvStep == CountsTypeOK /\ SendInv /\ [Next]_vars => SendInv'
<1> SUFFICES ASSUME CountsTypeOK, SendInv, [Next]_vars PROVE SendInv'
  OBVIOUS
<1>1. ASSUME UNCHANGED <<hooks, sends, sent>> PROVE SendInv'
  BY <1>1 DEF SendInv, Listed
<1>2. CASE LoadHooks
  <2>1. PICK f \in Files :
          /\ hooks' = f /\ UNCHANGED sent
          /\ sends' = [n \in DOMAIN f |-> IF n \in Listed THEN sends[n] ELSE <<>>]
    BY <1>2 DEF LoadHooks, Keeps
  <2>2. Listed' = DOMAIN f /\ Kept \subseteq Listed /\ Kept \subseteq DOMAIN f
    BY <2>1, KeptListed DEF Listed
  <2>3. \A n \in DOMAIN f : sends'[n] \in Seq(Age) /\ Ordered(sends'[n])
    <3>1. PICK e \in Seq(Age) : e = <<>> /\ Len(e) = 0
      BY EmptySeq
    <3>2. Ordered(e)
      BY <3>1 DEF Ordered
    <3> QED
      BY <3>1, <3>2, <2>1 DEF SendInv
  <2>4. \A n \in Kept : sends'[n] = sends[n] /\ sent'[n] = sent[n]
    BY <2>1, <2>2
  <2>5. sends' = [n \in Listed' |-> sends'[n]] /\ sent' = [n \in Kept |-> sent'[n]]
    BY <2>1, <2>2 DEF SendInv
  <2>6. \A n \in Kept : Len(sent'[n]) <= MaxSends /\ \E k : Split(sends'[n], Minute, k) /\ Left(sent'[n], sends'[n], k)
    BY <2>4 DEF SendInv
  <2> QED
    BY <2>2, <2>3, <2>5, <2>6 DEF SendInv
<1>3. CASE HookDone
  <2>1. UNCHANGED hooks
    BY <1>3 DEF HookDone
  <2>2. UNCHANGED <<sends, sent>> \/ \E n \in Listed : HookSend(n)
    BY <1>3 DEF HookDone, Answer
  <2> QED
    BY <2>1, <2>2, <1>1, HookSendStep
<1>4. CASE Tick
  BY <1>4, TickStep
<1>5. CASE RunHooks \/ (\E n \in Name, r \in Run : HookTest(n, r)) \/ (\E r \in Run : RunEnds(r)) \/ UNCHANGED vars
  <2>1. UNCHANGED <<hooks, sends, sent>>
    BY <1>5 DEF RunHooks, HookTest, RunEnds, vars
  <2> QED
    BY <2>1, <1>1
<1> QED
  BY <1>2, <1>3, <1>4, <1>5 DEF Next

\* SendRate for any hooks, limits and minute: a hook that stays in the file
\* sends at most MaxSends messages in any minute, whenever it is read again.
THEOREM SendRateAlways == Spec => []SendRate
<1>1. RInv /\ SendInv /\ [Next]_vars => (RInv /\ SendInv)'
  BY RInvStep, SendInvStep DEF RInv
<1>2. SendInv => SendRate
  BY DEF SendInv, SendRate
<1> QED
  BY <1>1, <1>2, InitRInv, SendInit, PTL DEF Spec
=============================================================================
