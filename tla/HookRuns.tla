------------------------------ MODULE HookRuns ------------------------------
(***************************************************************************)
(* The runs of the hooks (internal/ui/hooks.go, internal/hook/run.go).     *)
(*                                                                         *)
(* A message that comes in fires every hook that takes it; each run is a   *)
(* process with a goroutine of its own, which posts an evHook when it is   *)
(* over.  The UI goroutine counts the runs in flight of each hook, and its *)
(* sends of the last minute, in hookStats, kept by name across a reload of *)
(* hooks.toml.  Filters, texts and what a run prints are left out: which   *)
(* hooks take a message, how a run ends and whether there is a chat to     *)
(* answer in are choices of the environment.                               *)
(***************************************************************************)
EXTENDS Integers, Sequences, FiniteSets

CONSTANTS
    Name,           \* names of hooks
    Run,            \* runs that can be in flight, all hooks together
    Reply,          \* the replies a hook can ask for, "send" among them
    Files,          \* contents hooks.toml takes: functions from names to replies
    MaxRuns,        \* hookMaxRuns
    MaxSends,       \* hookMaxSends
    Minute,         \* ticks of the window MaxSends is about
    None

\* What a goroutine runs; the reply is the one of the hook when it started.
Task == [name : Name, reply : Reply, test : BOOLEAN]

ASSUME HookAssumption ==
    /\ IsFiniteSet(Run)
    /\ None \notin Task
    /\ Files # {}
    /\ \A f \in Files : DOMAIN f \subseteq Name /\ \A n \in DOMAIN f : f[n] \in Reply
    /\ MaxRuns \in Nat \ {0}
    /\ MaxSends \in Nat \ {0}
    /\ Minute \in Nat \ {0}

\* Hooks whose table no version of the file leaves out.
Kept == {n \in Name : \A f \in Files : n \in DOMAIN f}

VARIABLES
    hooks,          \* the file in force: u.hooks
    running,        \* hookStats[name].running, for the names of the file
    sends,          \* hookStats[name].sends: the age of each
    task,           \* Run -> what it runs, None: nothing
    events,         \* evHooks posted and not handled: u.events
    sent            \* history, for the Kept: the ages of the sends of the last minute

vars == <<hooks, running, sends, task, events, sent>>

Age == 0 .. Minute
Event == [run : Run, ok : BOOLEAN]
Listed == DOMAIN hooks

Posted == {events[i].run : i \in DOMAIN events}
Process == {r \in Run : task[r] # None} \ Posted
Free == {r \in Run : task[r] = None}

\* The runs of n that count: a /hooks test does not.
Flight(n) == {r \in Run : task[r] # None /\ task[r].name = n /\ ~task[r].test}

TypeOK ==
    /\ hooks \in Files
    /\ running \in [Listed -> {i \in Int : i <= MaxRuns}]
    /\ sends \in [Listed -> Seq(Age)]
    /\ task \in [Run -> Task \cup {None}]
    /\ events \in Seq(Event)
    /\ sent \in [Kept -> Seq(Age)]

Init ==
    /\ hooks \in Files
    /\ running = [n \in Listed |-> 0]
    /\ sends = [n \in Listed |-> <<>>]
    /\ task = [r \in Run |-> None]
    /\ events = <<>>
    /\ sent = [n \in Kept |-> <<>>]

-----------------------------------------------------------------------------
\* A mutated Keeps: the counters start again at every reload.
KeepsNothing(n) == FALSE

\* loadHooks keeps the counters of the names it finds again.
Keeps(n) == n \in Listed

\* loadHooks, at /hooks reload.  A file that cannot be read changes nothing.
LoadHooks ==
    \E f \in Files :
        /\ hooks' = f
        /\ running' = [n \in DOMAIN f |-> IF Keeps(n) THEN running[n] ELSE 0]
        /\ sends' = [n \in DOMAIN f |-> IF Keeps(n) THEN sends[n] ELSE <<>>]
        /\ UNCHANGED <<task, events, sent>>

\* A mutated Busy: off by one.
BusyLate(n) == running[n] > MaxRuns

\* The guard of fireHook: one message more is skipped.
Busy(n) == running[n] >= MaxRuns

\* runHooks: a message fires the hooks that take it, unless they are busy.
RunHooks ==
    \E taken \in SUBSET Listed :
        LET fired == {n \in taken : ~Busy(n)} IN
        \E at \in [fired -> Free] :
            /\ \A n, m \in fired : at[n] = at[m] => n = m
            /\ task' = [r \in Run |->
                 IF \E n \in fired : at[n] = r
                 THEN LET n == CHOOSE n \in fired : at[n] = r
                      IN  [name |-> n, reply |-> hooks[n], test |-> FALSE]
                 ELSE task[r]]
            /\ running' = [n \in Listed |-> running[n] + (IF n \in fired THEN 1 ELSE 0)]
            /\ UNCHANGED <<hooks, sends, events, sent>>

\* /hooks test: no guard, no counter.
HookTest(n, r) ==
    /\ n \in Listed
    /\ r \in Free
    /\ task' = [task EXCEPT ![r] = [name |-> n, reply |-> hooks[n], test |-> TRUE]]
    /\ UNCHANGED <<hooks, running, sends, events, sent>>

\* hook.Run is over (it exits, fails to start, is killed at its timeout or for
\* its output, panics), and the goroutine posts its evHook.
RunEnds(r) ==
    /\ r \in Process
    /\ \E ok \in BOOLEAN : events' = Append(events, [run |-> r, ok |-> ok])
    /\ UNCHANGED <<hooks, running, sends, task, sent>>

-----------------------------------------------------------------------------
(* hookDone: the evHook at the head of the channel.                        *)

Done == Head(events)

TakeDone ==
    /\ events # <<>>
    /\ events' = Tail(events)
    /\ task' = [task EXCEPT ![Done.run] = None]

\* The sends younger than age.  They were appended as time went by: those to
\* drop come first.
Younger(ages, age) ==
    LET old == CHOOSE k \in 0 .. Len(ages) : \A i \in DOMAIN ages : ages[i] >= age <=> i <= k
    IN  SubSeq(ages, old + 1, Len(ages))

\* A mutated Fresh: the sends are forgotten a tick too early.
FreshHalf(ages) == Younger(ages, Minute - 1)

\* hookSend forgets the sends of more than a minute.
Fresh(ages) == Younger(ages, Minute)

\* hookSend: one send more than MaxSends in a minute is dropped.
HookSend(n) ==
    LET fresh == Fresh(sends[n]) IN
    IF Len(fresh) >= MaxSends
    THEN /\ sends' = [sends EXCEPT ![n] = fresh]
         /\ UNCHANGED sent
    ELSE /\ sends' = [sends EXCEPT ![n] = Append(fresh, 0)]
         /\ sent' = [m \in Kept |-> IF m = n THEN Append(sent[n], 0) ELSE sent[m]]

\* Some output, and a chat and a network to send it to: or nothing is sent.
Answer(n, reply, ok) ==
    \/ UNCHANGED <<sends, sent>>
    \/ /\ ok /\ reply = "send"
       /\ HookSend(n)

\* A mutated Uncount: the early return of a failed run comes first.
UncountSuccess(n, ok) ==
    running' = IF ok THEN [running EXCEPT ![n] = @ - 1] ELSE running

Uncount(n, ok) == running' = [running EXCEPT ![n] = @ - 1]

HookDone ==
    /\ TakeDone
    /\ LET t == task[Done.run] IN
       IF t.test \/ t.name \notin Listed
       THEN UNCHANGED <<running, sends, sent>>
       ELSE /\ Uncount(t.name, Done.ok)
            /\ Answer(t.name, t.reply, Done.ok)
    /\ UNCHANGED hooks

-----------------------------------------------------------------------------
Older(ages) == [i \in DOMAIN ages |-> IF ages[i] < Minute THEN ages[i] + 1 ELSE Minute]

Tick ==
    /\ sends' = [n \in Listed |-> Older(sends[n])]
    /\ sent' = [n \in Kept |-> Younger(Older(sent[n]), Minute)]
    /\ UNCHANGED <<hooks, running, task, events>>

Next ==
    \/ LoadHooks
    \/ RunHooks
    \/ \E n \in Name, r \in Run : HookTest(n, r)
    \/ \E r \in Run : RunEnds(r)
    \/ HookDone
    \/ Tick

\* The timeout of a hook ends each of its runs; the UI drains its channel.
Fairness == WF_vars(HookDone) /\ \A r \in Run : WF_vars(RunEnds(r))

Spec == Init /\ [][Next]_vars
FairSpec == Spec /\ Fairness

-----------------------------------------------------------------------------
(* Properties.                                                             *)

\* The counter of a hook is the number of its runs in flight, their evHook on
\* its way included, across reloads, failures and tests: it neither leaks (the
\* hook would fall silent) nor is given back twice.
RunsCounted == \A n \in Kept : running[n] = Cardinality(Flight(n))

\* docs/hooks.md: "at most 4 runs at a time", for a hook that stays in the file.
AtMostMaxRuns == \A n \in Kept : Cardinality(Flight(n) \cap Process) <= MaxRuns

\* docs/hooks.md: "at most 10 send replies a minute": in no window of a minute
\* does a hook send more, whenever the file is read again.
SendRate == \A n \in Kept : Len(sent[n]) <= MaxSends

\* A hook that is busy does not stay so: its runs end, and messages fire it
\* again.
BusyEnds == \A n \in Name : []<>(n \in Listed => ~Busy(n))
=============================================================================
