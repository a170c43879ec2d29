---------------------------- MODULE NetLifecycle ----------------------------
(***************************************************************************)
(* What the client promises about one network, as the user sees it in the  *)
(* Networks box (hubState, hubActs): a network is off, starting, ready, or *)
(* closing.  A network that is closing can only become off, and does: the  *)
(* stop asked for is never forgotten and never undone by a late event.     *)
(*                                                                         *)
(* Sessions, channels and goroutines do not appear here.  NetSession is    *)
(* the program; it implements this module (NetSession!Lifecycle).          *)
(***************************************************************************)

CONSTANT Net          \* the networks a configuration can name

VARIABLES listed,     \* UI.netList: the networks configured now
          phase       \* Net -> Phase

vars == <<listed, phase>>

Phase == {"off", "starting", "ready", "closing"}

TypeOK ==
    /\ listed \in SUBSET Net
    /\ phase \in [Net -> Phase]

Init ==
    /\ listed \in SUBSET Net
    /\ phase = [n \in Net |-> "off"]

\* Only a network that is off can be started: there is never a second backend.
Start(n) ==
    /\ n \in listed
    /\ phase[n] = "off"
    /\ phase' = [phase EXCEPT ![n] = "starting"]
    /\ UNCHANGED listed

Ready(n) ==
    /\ phase[n] = "starting"
    /\ phase' = [phase EXCEPT ![n] = "ready"]
    /\ UNCHANGED listed

Close(n) ==
    /\ phase[n] \in {"starting", "ready"}
    /\ phase' = [phase EXCEPT ![n] = "closing"]
    /\ UNCHANGED listed

\* The end of a network, asked for or not.
Stop(n) ==
    /\ phase[n] # "off"
    /\ phase' = [phase EXCEPT ![n] = "off"]
    /\ UNCHANGED listed

\* A network added while its former self still closes is listed, and starts
\* nothing.
Add(n) ==
    /\ n \notin listed
    /\ listed' = listed \cup {n}
    /\ \/ UNCHANGED phase
       \/ phase[n] = "off" /\ phase' = [phase EXCEPT ![n] = "starting"]

Remove(n) ==
    /\ n \in listed
    /\ listed' = listed \ {n}
    /\ phase' = [phase EXCEPT ![n] = IF @ = "off" THEN "off" ELSE "closing"]

Next ==
    \E n \in Net : Start(n) \/ Ready(n) \/ Close(n) \/ Stop(n) \/ Add(n) \/ Remove(n)

\* A stop that was asked for comes to its end: closing, only off comes next.
ClosingEnds == \A n \in Net : []<>(phase[n] # "closing")

SafetySpec == Init /\ [][Next]_vars

Spec == SafetySpec /\ ClosingEnds
=============================================================================
