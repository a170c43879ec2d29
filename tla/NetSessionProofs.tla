-------------------------- MODULE NetSessionProofs --------------------------
(***************************************************************************)
(* What NetSession guarantees for any number of networks, launches and     *)
(* accounts, and channels of any capacity.                                 *)
(*                                                                         *)
(* TypeOK needs to know that no event comes from a session that was never  *)
(* launched (Born).  OneBackend needs the path of EvStopped (IInv): a      *)
(* session whose Run has not said goodbye is the one u.netCtx holds, and   *)
(* so is one whose EvStopped waits in the channel, where it waits once.    *)
(* ChatsOfAccount needs the order of the two channels (AccountInv).        *)
(***************************************************************************)
EXTENDS MCNetRooms, SequenceTheorems, TLAPS

\* A session has a network and an account exactly when it was launched, and
\* nothing speaks of a session that was not.
Born ==
    /\ \A s \in Session : run[s] = "unborn" <=> owner[s] = None
    /\ \A s \in Session : acct[s] = None <=> owner[s] = None
    /\ \A s \in cancelled \cup loggingOut \cup forwarding : owner[s] # None
    /\ \A n \in Net : netCtx[n] # None => owner[netCtx[n]] # None
    /\ \A i \in DOMAIN envs : owner[envs[i].session] # None

Owned == \A n \in Net : netCtx[n] # None => owner[netCtx[n]] = n

AliveIsCurrent == \A s \in Session : Alive(s) => netCtx[owner[s]] = s

Stopped(i) == envs[i].ev = "stopped"

StoppedIsCurrent ==
    \A i \in DOMAIN envs :
        Stopped(i) => /\ run[envs[i].session] = "gone"
                      /\ netCtx[owner[envs[i].session]] = envs[i].session

StoppedOnce ==
    \A i, j \in DOMAIN envs :
        Stopped(i) /\ Stopped(j) /\ envs[i].session = envs[j].session => i = j

IInv ==
    /\ TypeOK
    /\ Born
    /\ Owned
    /\ AliveIsCurrent
    /\ StoppedIsCurrent
    /\ StoppedOnce
    /\ NeverStranded
    /\ DeadIsDead

-----------------------------------------------------------------------------
(* The channel of the UI.                                                  *)

\* The channel holds envelopes.
LEMMA InEnvs ==
    ASSUME TypeOK, NEW i \in DOMAIN envs
    PROVE  envs[i] \in Envelope /\ envs[i].session \in Session
<1>1. envs \in Seq(Envelope)
  BY DEF TypeOK
<1>2. i \in 1 .. Len(envs)
  BY <1>1, LenProperties
<1>3. envs[i] \in Envelope
  BY <1>1, <1>2, ElementOfSeq
<1> QED
  BY <1>3 DEF Envelope

\* What the UI takes comes from a session that was launched; the rest of the
\* channel moves up by one.
LEMMA TailOfEnvs ==
    ASSUME TypeOK, Born, envs # <<>>, envs' = Tail(envs)
    PROVE  /\ envs' \in Seq(Envelope)
           /\ Len(envs) \in Nat \ {0}
           /\ Head(envs) = envs[1]
           /\ Head(envs) \in Envelope
           /\ owner[Head(envs).session] \in Net
           /\ DOMAIN envs' = 1 .. (Len(envs) - 1)
           /\ \A i \in DOMAIN envs' : envs'[i] = envs[i + 1] /\ i + 1 \in DOMAIN envs
<1>1. envs \in Seq(Envelope)
  BY DEF TypeOK
<1>2. Len(envs) \in Nat \ {0} /\ DOMAIN envs = 1 .. Len(envs)
  BY <1>1, LenProperties, EmptySeq
<1>3. Head(envs) = envs[1] /\ Head(envs) \in Envelope
  BY <1>1, <1>2, HeadTailProperties
<1>4. owner[Head(envs).session] \in Net
  <2>1. Head(envs).session \in Session
    BY <1>3 DEF Envelope
  <2>2. owner[Head(envs).session] # None
    BY <1>2, <1>3 DEF Born
  <2> QED
    BY <2>1, <2>2 DEF TypeOK
<1>5. envs' \in Seq(Envelope) /\ Len(envs') = Len(envs) - 1
  BY <1>1, HeadTailProperties
<1>6. \A i \in 1 .. Len(envs') : envs'[i] = envs[i + 1]
  BY <1>1, HeadTailProperties
<1>7. DOMAIN envs' = 1 .. (Len(envs) - 1)
  BY <1>5, LenProperties
<1> QED
  BY <1>2, <1>3, <1>4, <1>5, <1>6, <1>7

\* An envelope sent to the UI comes last, the others stay.
LEMMA SentToEnvs ==
    ASSUME TypeOK, NEW e \in Envelope, envs' = Append(envs, e)
    PROVE  /\ envs' \in Seq(Envelope)
           /\ Len(envs) \in Nat
           /\ DOMAIN envs = 1 .. Len(envs)
           /\ DOMAIN envs' = 1 .. (Len(envs) + 1)
           /\ envs'[Len(envs) + 1] = e
           /\ \A i \in DOMAIN envs : envs'[i] = envs[i]
<1>1. envs \in Seq(Envelope)
  BY DEF TypeOK
<1>2. Len(envs) \in Nat /\ DOMAIN envs = 1 .. Len(envs)
  BY <1>1, LenProperties
<1>3. /\ envs' \in Seq(Envelope)
      /\ Len(envs') = Len(envs) + 1
      /\ \A i \in 1 .. Len(envs) : envs'[i] = envs[i]
      /\ envs'[Len(envs) + 1] = e
  BY <1>1, AppendProperties
<1>4. DOMAIN envs' = 1 .. (Len(envs) + 1)
  BY <1>3, LenProperties
<1> QED
  BY <1>2, <1>3, <1>4

\* The session an event handler works for is launched and current.
LEMMA TakenSession ==
    ASSUME TypeOK, Born, NEW s \in Session, NEW ev, Takes(s, ev)
    PROVE  /\ envs # <<>> /\ envs' = Tail(envs)
           /\ Head(envs).session = s /\ Head(envs).ev = ev
           /\ s # None
           /\ owner[s] \in Net
           /\ acct[s] \in Account
           /\ netCtx[owner[s]] = s
<1>1. envs # <<>> /\ envs' = Tail(envs) /\ Head(envs) = [session |-> s, ev |-> ev]
  BY DEF Takes
<1>2. Head(envs).session = s /\ Head(envs).ev = ev
  BY <1>1
<1>3. owner[s] \in Net
  BY <1>1, <1>2, TailOfEnvs
<1>4. owner[s] # None
  BY <1>3, NetSessionAssumption
<1>5. acct[s] \in Account
  BY <1>4 DEF TypeOK, Born
<1> QED
  BY <1>1, <1>2, <1>3, <1>5, NetSessionAssumption DEF Takes, Current

-----------------------------------------------------------------------------
(* Type correctness.                                                       *)

\* Every variable keeps its type, whatever step is taken.
LEMMA TypeStep == ASSUME TypeOK, Born, [Next]_vars PROVE TypeOK'
<1> USE NetSessionAssumption DEF TypeOK
<1>1. ASSUME NEW n \in Net, Login(n) \/ HubConnect(n) \/ AddNetwork(n) PROVE TypeOK'
  <2>1. CASE Launch(n) /\ UNCHANGED <<conn, self, account, chats, envs>>
                       /\ netList' \in SUBSET Net /\ hub' \in BOOLEAN
                       /\ hubReturn' \in SUBSET Net
    BY <2>1 DEF Launch, RunState
  <2>2. CASE AddNetwork(n) /\ UNCHANGED <<netCtx, sessVars>>
    BY <2>2 DEF AddNetwork, sessVars
  <2> QED
    BY <1>1, <2>1, <2>2 DEF Login, HubConnect, AddNetwork
<1>2. ASSUME NEW n \in Net, Disconnect(n) \/ Logout(n) \/ RemoveNetwork(n) PROVE TypeOK'
  BY <1>2 DEF Disconnect, Logout, RemoveNetwork, Stop, ChatsOf, uiVars
<1>3. ASSUME OpenHub \/ CloseHub PROVE TypeOK'
  BY <1>3 DEF OpenHub, CloseHub, sessVars
<1>4. ASSUME DropStale PROVE TypeOK'
  BY <1>4, TailOfEnvs DEF DropStale, uiVars, sessVars
<1>5. ASSUME NEW s \in Session, OnReady(s) PROVE TypeOK'
  <2>1. Takes(s, "ready")
    BY <1>5 DEF OnReady
  <2>2. envs' \in Seq(Envelope)
    BY <2>1, TakenSession, TailOfEnvs
  <2>3. owner[s] \in Net /\ acct[s] \in Account
    BY <2>1, TakenSession
  <2> QED
    BY <1>5, <2>2, <2>3 DEF OnReady, HubBack, AfterAccount, ChatsOf, sessVars
<1>6. ASSUME NEW s \in Session, OnConnected(s) \/ OnDisconnected(s) PROVE TypeOK'
  <2>1. PICK ev : Takes(s, ev)
    BY <1>6 DEF OnConnected, OnDisconnected
  <2>2. envs' \in Seq(Envelope)
    BY <2>1, TakenSession, TailOfEnvs
  <2> QED
    BY <1>6, <2>2 DEF OnConnected, OnDisconnected, sessVars
<1>7. ASSUME NEW s \in Session, OnMessage(s) PROVE TypeOK'
  <2>1. Takes(s, "message")
    BY <1>7 DEF OnMessage
  <2>2. envs' \in Seq(Envelope) /\ owner[s] \in Net /\ acct[s] \in Account
    BY <2>1, TakenSession, TailOfEnvs
  <2> QED
    BY <1>7, <2>2 DEF OnMessage, sessVars
<1>8. ASSUME NEW s \in Session, OnStopped(s) PROVE TypeOK'
  <2>1. Takes(s, "stopped")
    BY <1>8 DEF OnStopped
  <2>2. envs' \in Seq(Envelope)
    BY <2>1, TakenSession, TailOfEnvs
  <2> QED
    BY <1>8, <2>2 DEF OnStopped, ForgetNet, HubBack
<1>9. ASSUME NEW s \in Session, LogoutEnds(s) \/ RunReturns(s) PROVE TypeOK'
  BY <1>9 DEF LogoutEnds, RunReturns, uiVars, RunState
<1>10. ASSUME NEW s \in Session, PostStopped(s) PROVE TypeOK'
  <2>1. [session |-> s, ev |-> "stopped"] \in Envelope
    BY DEF Envelope
  <2>2. envs' \in Seq(Envelope)
    BY <1>10, <2>1, SentToEnvs DEF PostStopped, StoppedGoes
  <2> QED
    BY <1>10, <2>2 DEF PostStopped, uiVars, RunState
<1>11. ASSUME NEW s \in Session, Forward(s) PROVE TypeOK'
  <2>1. raw[s] \in Seq(BackendEvent) /\ raw[s] # <<>>
    BY <1>11 DEF Forward
  <2>2. Head(raw[s]) \in BackendEvent /\ Tail(raw[s]) \in Seq(BackendEvent)
    BY <2>1, HeadTailProperties
  <2>3. [session |-> s, ev |-> Head(raw[s])] \in Envelope
    BY <2>2 DEF Envelope
  <2>4. envs' \in Seq(Envelope)
    BY <1>11, <2>3, SentToEnvs DEF Forward
  <2>5. raw' \in [Session -> Seq(BackendEvent)]
    BY <1>11, <2>2 DEF Forward
  <2> QED
    BY <1>11, <2>4, <2>5 DEF Forward, uiVars
<1>12. ASSUME NEW s \in Session, ForwarderEnds(s) PROVE TypeOK'
  BY <1>12 DEF ForwarderEnds, uiVars
<1>13. ASSUME NEW s \in Session, NEW ev \in Posts, BackendPost(s, ev) PROVE TypeOK'
  BY <1>13 DEF BackendPost, uiVars
<1>14. CASE UNCHANGED vars
  BY <1>14 DEF vars
<1> QED
  BY <1>1, <1>2, <1>3, <1>4, <1>5, <1>6, <1>7, <1>8, <1>9, <1>10, <1>11, <1>12, <1>13, <1>14
  DEF Next, User, Dispatch, Goroutines

-----------------------------------------------------------------------------
(* The steps, by what they do to launches and to the channel of the UI.    *)

\* A Run may return; launches and channel do not change.
Quiet ==
    /\ UNCHANGED <<netCtx, owner, acct, envs>>
    /\ \/ UNCHANGED run
       \/ \E s \in Session : run[s] = "running" /\ run' = [run EXCEPT ![s] = "returned"]

Starts(n) == netCtx[n] = None /\ Launch(n) /\ UNCHANGED envs

\* An event leaves the channel, taken or dropped; it is no EvStopped.
Reads ==
    /\ envs # <<>>
    /\ envs' = Tail(envs)
    /\ Head(envs).ev # "stopped"
    /\ UNCHANGED <<netCtx, owner, acct, run>>

Ends(s) ==
    /\ Takes(s, "stopped")
    /\ netCtx' = [netCtx EXCEPT ![owner[s]] = None]
    /\ UNCHANGED <<owner, acct, run>>

Sends(s) ==
    /\ owner[s] # None
    /\ \E ev \in BackendEvent : envs' = Append(envs, [session |-> s, ev |-> ev])
    /\ UNCHANGED <<netCtx, owner, acct, run>>

SaysGoodbye(s) ==
    /\ run[s] = "returned"
    /\ run' = [run EXCEPT ![s] = "gone"]
    /\ envs' = Append(envs, [session |-> s, ev |-> "stopped"])
    /\ UNCHANGED <<netCtx, owner, acct>>

\* Every step is of one of these kinds; an EvStopped is never dropped.
LEMMA StepKinds ==
    ASSUME TypeOK, Born, StoppedIsCurrent, [Next]_vars
    PROVE  \/ Quiet
           \/ \E n \in Net : Starts(n)
           \/ Reads
           \/ \E s \in Session : Ends(s) \/ Sends(s) \/ SaysGoodbye(s)
<1>1. ASSUME NEW n \in Net, Login(n) \/ HubConnect(n) PROVE Starts(n)
  BY <1>1 DEF Login, HubConnect, MayStart, Starts
<1>2. ASSUME NEW n \in Net, AddNetwork(n) PROVE Quiet \/ Starts(n)
  BY <1>2 DEF AddNetwork, MayStart, Starts, Quiet, sessVars
<1>3. ASSUME NEW n \in Net, Disconnect(n) \/ Logout(n) \/ RemoveNetwork(n) PROVE Quiet
  BY <1>3 DEF Disconnect, Logout, RemoveNetwork, Stop, Quiet, uiVars
<1>4. ASSUME OpenHub \/ CloseHub PROVE Quiet
  BY <1>4 DEF OpenHub, CloseHub, Quiet, sessVars
<1>5. ASSUME DropStale PROVE Reads
  <2>1. envs # <<>> /\ envs' = Tail(envs) /\ ~Current(Head(envs).session)
    BY <1>5 DEF DropStale
  <2>2. Head(envs) = envs[1] /\ 1 \in DOMAIN envs
    <3>1. envs \in Seq(Envelope)
      BY DEF TypeOK
    <3> QED
      BY <2>1, <3>1, TailOfEnvs, LenProperties
  <2>3. ~Stopped(1)
    BY <2>1, <2>2 DEF StoppedIsCurrent, Current
  <2> QED
    BY <1>5, <2>1, <2>2, <2>3 DEF DropStale, Reads, Stopped, uiVars, sessVars
<1>6. ASSUME NEW s \in Session,
             OnReady(s) \/ OnConnected(s) \/ OnDisconnected(s) \/ OnMessage(s)
      PROVE  Reads
  <2>1. PICK ev \in BackendEvent : Takes(s, ev)
    BY <1>6 DEF OnReady, OnConnected, OnDisconnected, OnMessage, BackendEvent
  <2>2. Head(envs).ev # "stopped"
    BY <2>1, TakenSession DEF BackendEvent
  <2>3. envs # <<>> /\ envs' = Tail(envs)
    BY <2>1 DEF Takes
  <2>4. UNCHANGED <<netCtx, owner, acct, run>>
    BY <1>6 DEF OnReady, OnConnected, OnDisconnected, OnMessage, sessVars
  <2> QED
    BY <2>2, <2>3, <2>4 DEF Reads
<1>7. ASSUME NEW s \in Session, OnStopped(s) PROVE Ends(s)
  BY <1>7 DEF OnStopped, ForgetNet, Ends
<1>8. ASSUME NEW s \in Session, LogoutEnds(s) \/ RunReturns(s) \/ ForwarderEnds(s)
      PROVE  Quiet
  BY <1>8 DEF LogoutEnds, RunReturns, ForwarderEnds, Quiet, uiVars
<1>9. ASSUME NEW s \in Session, NEW ev \in Posts, BackendPost(s, ev) PROVE Quiet
  BY <1>9 DEF BackendPost, Quiet, uiVars
<1>10. ASSUME NEW s \in Session, Forward(s) PROVE Sends(s)
  <2>1. raw[s] \in Seq(BackendEvent) /\ raw[s] # <<>>
    BY <1>10 DEF Forward, TypeOK
  <2>2. Head(raw[s]) \in BackendEvent
    BY <2>1, HeadTailProperties
  <2> QED
    BY <1>10, <2>2 DEF Forward, Sends, Born, uiVars
<1>11. ASSUME NEW s \in Session, PostStopped(s) PROVE SaysGoodbye(s)
  BY <1>11 DEF PostStopped, StoppedGoes, SaysGoodbye, uiVars
<1>12. CASE UNCHANGED vars
  BY <1>12 DEF vars, Quiet
<1> QED
  BY <1>1, <1>2, <1>3, <1>4, <1>5, <1>6, <1>7, <1>8, <1>9, <1>10, <1>11, <1>12
  DEF Next, User, Dispatch, Goroutines

\* What names a session (a stop, a logout, a forwarder) names a launched one.
LEMMA NamesLaunched ==
    ASSUME TypeOK, Born, [Next]_vars
    PROVE  \A t \in (cancelled \cup loggingOut \cup forwarding)' : owner'[t] # None
<1> USE NetSessionAssumption DEF TypeOK, Born
<1>1. ASSUME NEW n \in Net, Login(n) \/ HubConnect(n) \/ AddNetwork(n)
      PROVE  \A t \in (cancelled \cup loggingOut \cup forwarding)' : owner'[t] # None
  <2>1. CASE Launch(n)
    BY <2>1 DEF Launch
  <2>2. CASE UNCHANGED sessVars
    BY <2>2 DEF sessVars
  <2> QED
    BY <1>1, <2>1, <2>2 DEF Login, HubConnect, AddNetwork
<1>2. ASSUME NEW n \in Net, Disconnect(n) \/ Logout(n) \/ RemoveNetwork(n)
      PROVE  \A t \in (cancelled \cup loggingOut \cup forwarding)' : owner'[t] # None
  BY <1>2 DEF Disconnect, Logout, RemoveNetwork, Stop, uiVars
<1>3. CASE OpenHub \/ CloseHub \/ DropStale
  BY <1>3 DEF OpenHub, CloseHub, DropStale, sessVars
<1>4. ASSUME NEW s \in Session,
             OnReady(s) \/ OnConnected(s) \/ OnDisconnected(s) \/ OnMessage(s)
      PROVE  \A t \in (cancelled \cup loggingOut \cup forwarding)' : owner'[t] # None
  BY <1>4 DEF OnReady, OnConnected, OnDisconnected, OnMessage, sessVars
<1>5. ASSUME NEW s \in Session, OnStopped(s)
      PROVE  \A t \in (cancelled \cup loggingOut \cup forwarding)' : owner'[t] # None
  BY <1>5, TakenSession DEF OnStopped
<1>6. ASSUME NEW s \in Session,
             \/ LogoutEnds(s) \/ Forward(s) \/ ForwarderEnds(s)
             \/ RunReturns(s) \/ PostStopped(s)
      PROVE  \A t \in (cancelled \cup loggingOut \cup forwarding)' : owner'[t] # None
  BY <1>6 DEF LogoutEnds, Forward, ForwarderEnds, RunReturns, PostStopped
<1>7. ASSUME NEW s \in Session, NEW ev \in Posts, BackendPost(s, ev)
      PROVE  \A t \in (cancelled \cup loggingOut \cup forwarding)' : owner'[t] # None
  BY <1>7 DEF BackendPost
<1>8. CASE UNCHANGED vars
  BY <1>8 DEF vars
<1> QED
  BY <1>1, <1>2, <1>3, <1>4, <1>5, <1>6, <1>7, <1>8
  DEF Next, User, Dispatch, Goroutines

\* Nothing speaks of a session that was never launched.
LEMMA BornStep == ASSUME TypeOK, Born, StoppedIsCurrent, [Next]_vars PROVE Born'
<1> USE NetSessionAssumption
<1>1. (\A t \in cancelled \cup loggingOut \cup forwarding : owner[t] # None)'
  BY NamesLaunched
<1>2. ASSUME NEW n \in Net, Starts(n) PROVE Born'
  <2>1. PICK s \in Session, a \in Account :
          /\ owner[s] = None
          /\ netCtx' = [netCtx EXCEPT ![n] = s]
          /\ owner' = [owner EXCEPT ![s] = n]
          /\ acct' = [acct EXCEPT ![s] = a]
          /\ run' = [run EXCEPT ![s] = "running"]
          /\ UNCHANGED envs
    BY <1>2 DEF Starts, Launch
  <2>2. /\ (\A t \in Session : run[t] = "unborn" <=> owner[t] = None)'
        /\ (\A t \in Session : acct[t] = None <=> owner[t] = None)'
    BY <2>1 DEF TypeOK, Born
  <2>3. (\A m \in Net : netCtx[m] # None => owner[netCtx[m]] # None)'
    BY <2>1 DEF TypeOK, Born
  <2>4. (\A i \in DOMAIN envs : owner[envs[i].session] # None)'
    BY <2>1, InEnvs DEF TypeOK, Born
  <2> QED
    BY <1>1, <2>2, <2>3, <2>4 DEF Born
<1>3. CASE Quiet
  BY <1>1, <1>3 DEF Quiet, Born, TypeOK
<1>4. CASE Reads
  <2>1. (\A i \in DOMAIN envs : owner[envs[i].session] # None)'
    BY <1>4, TailOfEnvs DEF Reads, Born
  <2> QED
    BY <1>1, <1>4, <2>1 DEF Reads, Born
<1>5. ASSUME NEW s \in Session, Ends(s) PROVE Born'
  <2>1. (\A i \in DOMAIN envs : owner[envs[i].session] # None)'
    BY <1>5, TakenSession, TailOfEnvs DEF Ends, Born
  <2> QED
    BY <1>1, <1>5, <2>1 DEF Ends, Born, TypeOK
<1>6. ASSUME NEW s \in Session, Sends(s) PROVE Born'
  <2>1. PICK ev \in BackendEvent : envs' = Append(envs, [session |-> s, ev |-> ev])
    BY <1>6 DEF Sends
  <2>2. [session |-> s, ev |-> ev] \in Envelope
    BY DEF Envelope
  <2>3. (\A i \in DOMAIN envs : owner[envs[i].session] # None)'
    BY <1>6, <2>1, <2>2, SentToEnvs DEF Sends, Born
  <2> QED
    BY <1>1, <1>6, <2>3 DEF Sends, Born
<1>7. ASSUME NEW s \in Session, SaysGoodbye(s) PROVE Born'
  <2>1. [session |-> s, ev |-> "stopped"] \in Envelope
    BY DEF Envelope
  <2>2. owner[s] # None
    BY <1>7 DEF SaysGoodbye, Born
  <2>3. (\A i \in DOMAIN envs : owner[envs[i].session] # None)'
    BY <1>7, <2>1, <2>2, SentToEnvs DEF SaysGoodbye, Born
  <2> QED
    BY <1>1, <1>7, <2>2, <2>3 DEF SaysGoodbye, Born, TypeOK
<1> QED
  BY <1>2, <1>3, <1>4, <1>5, <1>6, <1>7, StepKinds

-----------------------------------------------------------------------------
(* One backend at a time.                                                  *)

\* The part of the invariant that follows a launch to its EvStopped.
Goodbyes == Owned /\ AliveIsCurrent /\ StoppedIsCurrent /\ StoppedOnce /\ NeverStranded

\* A step that leaves launches and channel alone leaves Goodbyes alone: a Run
\* that returned still has its EvStopped to send.
LEMMA QuietGoodbyes == ASSUME TypeOK, Goodbyes, Quiet PROVE Goodbyes'
<1> USE DEF TypeOK, RunState, Goodbyes, Alive
<1>1. \A s \in Session : Alive(s)' <=> Alive(s)
  BY DEF Quiet
<1>2. \A s \in Session : run[s] = "gone" => run'[s] = "gone"
  BY DEF Quiet
<1>3. Owned' /\ AliveIsCurrent' /\ StoppedOnce'
  BY <1>1 DEF Quiet, Owned, AliveIsCurrent, StoppedOnce, Stopped
<1>4. StoppedIsCurrent'
  <2>1. \A i \in DOMAIN envs : envs[i].session \in Session
    BY InEnvs
  <2> QED
    BY <1>2, <2>1 DEF Quiet, StoppedIsCurrent, Stopped
<1>5. NeverStranded'
  BY <1>1 DEF Quiet, NeverStranded, StoppedQueued
<1> QED
  BY <1>3, <1>4, <1>5

\* A launch: nothing of the network was left, so nothing is orphaned.
LEMMA StartsGoodbyes ==
    ASSUME TypeOK, Born, Goodbyes, NEW n \in Net, Starts(n)
    PROVE  Goodbyes'
<1> USE NetSessionAssumption DEF Goodbyes
<1>1. PICK s \in Session :
        /\ owner[s] = None
        /\ netCtx[n] = None
        /\ netCtx' = [netCtx EXCEPT ![n] = s]
        /\ owner' = [owner EXCEPT ![s] = n]
        /\ run' = [run EXCEPT ![s] = "running"]
        /\ UNCHANGED envs
  BY DEF Starts, Launch
<1>2. run[s] = "unborn"
  BY <1>1 DEF Born
<1>3. \A i \in DOMAIN envs : /\ envs[i].session \in Session \ {s}
                             /\ owner[envs[i].session] \in Net
  BY <1>1, InEnvs DEF TypeOK, Born
<1>4. Owned'
  BY <1>1 DEF TypeOK, Owned
<1>5. AliveIsCurrent'
  <2>1. ASSUME NEW t \in Session, Alive(t)' PROVE (netCtx[owner[t]] = t)'
    <3>1. CASE t = s
      BY <1>1, <3>1 DEF TypeOK
    <3>2. CASE t # s
      <4>1. Alive(t)
        BY <1>1, <2>1, <3>2 DEF TypeOK, Alive
      <4>2. netCtx[owner[t]] = t /\ owner[t] \in Net
        BY <4>1 DEF AliveIsCurrent, Alive, Born, TypeOK
      <4> QED
        BY <1>1, <3>2, <4>2 DEF TypeOK
    <3> QED
      BY <3>1, <3>2
  <2> QED
    BY <2>1 DEF AliveIsCurrent
<1>6. StoppedIsCurrent'
  BY <1>1, <1>3 DEF TypeOK, StoppedIsCurrent, Stopped
<1>7. StoppedOnce'
  BY <1>1 DEF StoppedOnce, Stopped
<1>8. NeverStranded'
  <2>1. ASSUME NEW m \in Net, netCtx'[m] # None
        PROVE  (Alive(netCtx[m]) \/ StoppedQueued(netCtx[m]))'
    <3>1. CASE m = n
      BY <1>1, <3>1 DEF TypeOK, Alive
    <3>2. CASE m # n
      <4>1. netCtx'[m] = netCtx[m] /\ netCtx[m] # None /\ netCtx[m] \in Session
        BY <1>1, <2>1, <3>2 DEF TypeOK
      <4>2. netCtx[m] # s
        BY <1>1, <4>1 DEF Born
      <4>3. Alive(netCtx[m]) \/ StoppedQueued(netCtx[m])
        BY <4>1 DEF NeverStranded
      <4> QED
        BY <1>1, <4>1, <4>2, <4>3 DEF TypeOK, Alive, StoppedQueued
    <3> QED
      BY <3>1, <3>2
  <2> QED
    BY <2>1 DEF NeverStranded
<1> QED
  BY <1>4, <1>5, <1>6, <1>7, <1>8

\* Reading another event moves every EvStopped up by one.
LEMMA ReadsGoodbyes == ASSUME TypeOK, Born, Goodbyes, Reads PROVE Goodbyes'
<1> USE DEF Goodbyes
<1>1. /\ envs # <<>> /\ envs' = Tail(envs) /\ ~Stopped(1)
      /\ UNCHANGED <<netCtx, owner, run>>
  BY TailOfEnvs DEF Reads, Stopped
<1>2. /\ DOMAIN envs' = 1 .. (Len(envs) - 1)
      /\ Len(envs) \in Nat
      /\ \A i \in DOMAIN envs' : envs'[i] = envs[i + 1] /\ i + 1 \in DOMAIN envs
  BY <1>1, TailOfEnvs
<1>3. Owned' /\ AliveIsCurrent'
  BY <1>1 DEF Owned, AliveIsCurrent, Alive
<1>4. StoppedIsCurrent'
  BY <1>1, <1>2 DEF StoppedIsCurrent, Stopped
<1>5. StoppedOnce'
  BY <1>2 DEF StoppedOnce, Stopped
<1>6. ASSUME NEW s, StoppedQueued(s) PROVE StoppedQueued(s)'
  <2>1. PICK i \in DOMAIN envs : envs[i] = [session |-> s, ev |-> "stopped"]
    BY <1>6 DEF StoppedQueued
  <2>2. i \in 1 .. Len(envs)
    BY LenProperties DEF TypeOK
  <2>3. i # 1
    BY <1>1, <2>1 DEF Stopped
  <2>4. i - 1 \in DOMAIN envs' /\ (i - 1) + 1 = i
    BY <1>2, <2>2, <2>3
  <2>5. envs'[i - 1] = [session |-> s, ev |-> "stopped"]
    BY <1>2, <2>1, <2>4
  <2> QED
    BY <2>4, <2>5 DEF StoppedQueued
<1>7. NeverStranded'
  BY <1>1, <1>6 DEF NeverStranded, Alive
<1> QED
  BY <1>3, <1>4, <1>5, <1>7

\* An EvStopped read: it was the last word of its session, which was the one
\* the network held, and there is no other EvStopped of it.
LEMMA EndsGoodbyes ==
    ASSUME TypeOK, Born, Goodbyes, NEW s \in Session, Ends(s)
    PROVE  Goodbyes'
<1> USE NetSessionAssumption DEF Goodbyes
<1> DEFINE n == owner[s]
<1>1. /\ envs # <<>> /\ envs' = Tail(envs)
      /\ Head(envs).session = s /\ Head(envs).ev = "stopped"
      /\ n \in Net /\ netCtx[n] = s /\ s # None
  BY TakenSession DEF Ends
<1>2. /\ netCtx' = [netCtx EXCEPT ![n] = None]
      /\ UNCHANGED <<owner, run>>
  BY DEF Ends
<1>3. /\ Len(envs) \in Nat \ {0}
      /\ DOMAIN envs = 1 .. Len(envs)
      /\ envs[1].session = s /\ Stopped(1)
      /\ DOMAIN envs' = 1 .. (Len(envs) - 1)
      /\ \A i \in DOMAIN envs' : envs'[i] = envs[i + 1] /\ i + 1 \in DOMAIN envs
  BY <1>1, TailOfEnvs, LenProperties DEF Stopped, TypeOK
<1>4. run[s] = "gone"
  BY <1>3 DEF StoppedIsCurrent
<1>5. ASSUME NEW t, NEW m \in Net, netCtx[m] = t, t # s
      PROVE  m # n /\ netCtx'[m] = t
  BY <1>1, <1>2, <1>5 DEF TypeOK
<1>6. Owned'
  BY <1>1, <1>2 DEF TypeOK, Owned
<1>7. AliveIsCurrent'
  <2>1. ASSUME NEW t \in Session, Alive(t) PROVE netCtx'[owner[t]] = t
    <3>1. t # s
      BY <1>4, <2>1 DEF Alive
    <3>2. netCtx[owner[t]] = t /\ owner[t] \in Net
      BY <2>1 DEF AliveIsCurrent, Alive, Born, TypeOK
    <3> QED
      BY <1>5, <3>1, <3>2
  <2> QED
    BY <1>2, <2>1 DEF AliveIsCurrent, Alive
<1>8. StoppedIsCurrent'
  <2>1. ASSUME NEW i \in DOMAIN envs', Stopped(i)'
        PROVE  /\ run[envs'[i].session] = "gone"
               /\ netCtx'[owner[envs'[i].session]] = envs'[i].session
    <3>1. envs'[i] = envs[i + 1] /\ i + 1 \in DOMAIN envs /\ Stopped(i + 1) /\ i + 1 # 1
      BY <1>3, <2>1 DEF Stopped
    <3>2. envs[i + 1].session # s
      BY <1>3, <3>1 DEF StoppedOnce
    <3>3. /\ run[envs[i + 1].session] = "gone"
          /\ netCtx[owner[envs[i + 1].session]] = envs[i + 1].session
          /\ owner[envs[i + 1].session] \in Net
      BY <3>1, InEnvs DEF StoppedIsCurrent, Born, TypeOK
    <3> QED
      BY <1>5, <3>1, <3>2, <3>3
  <2> QED
    BY <1>2, <2>1 DEF StoppedIsCurrent
<1>9. StoppedOnce'
  BY <1>3 DEF StoppedOnce, Stopped
<1>10. NeverStranded'
  <2>1. ASSUME NEW m \in Net, netCtx'[m] # None
        PROVE  (Alive(netCtx[m]) \/ StoppedQueued(netCtx[m]))'
    <3>1. m # n /\ netCtx'[m] = netCtx[m]
      BY <1>2, <2>1 DEF TypeOK
    <3>2. netCtx[m] # s
      BY <1>1, <2>1, <3>1 DEF Owned
    <3>3. CASE Alive(netCtx[m])
      BY <1>2, <3>1, <3>3 DEF Alive
    <3>4. CASE StoppedQueued(netCtx[m])
      <4>1. PICK i \in DOMAIN envs : envs[i] = [session |-> netCtx[m], ev |-> "stopped"]
        BY <3>4 DEF StoppedQueued
      <4>2. i # 1
        BY <1>3, <3>2, <4>1
      <4>3. i - 1 \in DOMAIN envs' /\ (i - 1) + 1 = i
        BY <1>3, <4>2
      <4>4. envs'[i - 1] = [session |-> netCtx'[m], ev |-> "stopped"]
        BY <1>3, <3>1, <4>1, <4>3
      <4> QED
        BY <4>3, <4>4 DEF StoppedQueued
    <3> QED
      BY <2>1, <3>1, <3>3, <3>4 DEF NeverStranded
  <2> QED
    BY <1>2, <2>1 DEF NeverStranded, Alive
<1> QED
  BY <1>6, <1>7, <1>8, <1>9, <1>10

\* Any other event sent to the UI.
LEMMA SendsGoodbyes ==
    ASSUME TypeOK, Born, Goodbyes, NEW s \in Session, Sends(s)
    PROVE  Goodbyes'
<1> USE DEF Goodbyes
<1>1. PICK ev \in BackendEvent : envs' = Append(envs, [session |-> s, ev |-> ev])
  BY DEF Sends
<1>2. [session |-> s, ev |-> ev] \in Envelope /\ ev # "stopped"
  BY DEF Envelope, BackendEvent
<1>3. /\ Len(envs) \in Nat
      /\ DOMAIN envs = 1 .. Len(envs)
      /\ DOMAIN envs' = 1 .. (Len(envs) + 1)
      /\ envs'[Len(envs) + 1].ev # "stopped"
      /\ \A i \in DOMAIN envs : envs'[i] = envs[i]
  BY <1>1, <1>2, SentToEnvs
<1>4. UNCHANGED <<netCtx, owner, run>>
  BY DEF Sends
<1>5. Owned' /\ AliveIsCurrent'
  BY <1>4 DEF Owned, AliveIsCurrent, Alive
<1>6. \A i \in DOMAIN envs' : Stopped(i)' => i \in DOMAIN envs /\ Stopped(i)
  BY <1>3 DEF Stopped
<1>7. StoppedIsCurrent' /\ StoppedOnce'
  BY <1>3, <1>4, <1>6 DEF StoppedIsCurrent, StoppedOnce
<1>8. NeverStranded'
  BY <1>3, <1>4 DEF NeverStranded, Alive, StoppedQueued
<1> QED
  BY <1>5, <1>7, <1>8

\* The EvStopped of a Run that returned: its session is still the one of the
\* network, and it had not sent any before.
LEMMA SaysGoodbyeGoodbyes ==
    ASSUME TypeOK, Born, Goodbyes, NEW s \in Session, SaysGoodbye(s)
    PROVE  Goodbyes'
<1> USE NetSessionAssumption DEF Goodbyes
<1> DEFINE e == [session |-> s, ev |-> "stopped"]
<1>1. /\ run[s] = "returned"
      /\ run' = [run EXCEPT ![s] = "gone"]
      /\ UNCHANGED <<netCtx, owner>>
  BY DEF SaysGoodbye
<1>2. e \in Envelope /\ envs' = Append(envs, e)
  BY DEF SaysGoodbye, Envelope
<1>3. /\ Len(envs) \in Nat
      /\ DOMAIN envs = 1 .. Len(envs)
      /\ DOMAIN envs' = 1 .. (Len(envs) + 1)
      /\ envs'[Len(envs) + 1] = e
      /\ \A i \in DOMAIN envs : envs'[i] = envs[i]
  BY <1>2, SentToEnvs
<1>4. netCtx[owner[s]] = s
  BY <1>1 DEF AliveIsCurrent, Alive
<1>5. \A i \in DOMAIN envs : Stopped(i) => envs[i].session # s
  BY <1>1 DEF StoppedIsCurrent
<1>6. Owned'
  BY <1>1 DEF Owned
<1>7. AliveIsCurrent'
  BY <1>1 DEF AliveIsCurrent, Alive, TypeOK
<1>8. StoppedIsCurrent'
  <2>1. ASSUME NEW i \in DOMAIN envs', Stopped(i)'
        PROVE  /\ run'[envs'[i].session] = "gone"
               /\ netCtx[owner[envs'[i].session]] = envs'[i].session
    <3>1. CASE i = Len(envs) + 1
      BY <1>1, <1>3, <1>4, <3>1 DEF TypeOK
    <3>2. CASE i \in DOMAIN envs
      <4>1. Stopped(i) /\ envs'[i] = envs[i] /\ envs[i].session \in Session
        BY <1>3, <2>1, <3>2, InEnvs DEF Stopped
      <4> QED
        BY <1>1, <3>2, <4>1 DEF StoppedIsCurrent, TypeOK
    <3> QED
      BY <1>3, <3>1, <3>2
  <2> QED
    BY <1>1, <2>1 DEF StoppedIsCurrent
<1>9. StoppedOnce'
  BY <1>3, <1>5 DEF StoppedOnce, Stopped
<1>10. NeverStranded'
  <2>1. StoppedQueued(s)'
    BY <1>3 DEF StoppedQueued
  <2>2. \A t : StoppedQueued(t) => StoppedQueued(t)'
    BY <1>3 DEF StoppedQueued
  <2>3. \A t \in Session \ {s} : Alive(t)' <=> Alive(t)
    BY <1>1 DEF Alive, TypeOK
  <2> QED
    BY <1>1, <2>1, <2>2, <2>3 DEF NeverStranded, TypeOK
<1> QED
  BY <1>6, <1>7, <1>8, <1>9, <1>10

-----------------------------------------------------------------------------
(* Nothing outlives its session.                                           *)

\* A network that is down shows nothing of a session, before and after a step.
LEMMA DeadIsDeadStep ==
    ASSUME TypeOK, Born, DeadIsDead, [Next]_vars
    PROVE  DeadIsDead'
<1> USE NetSessionAssumption DEF TypeOK, DeadIsDead
<1>1. ASSUME NEW n \in Net, Login(n) \/ HubConnect(n) \/ AddNetwork(n) PROVE DeadIsDead'
  <2>1. UNCHANGED <<conn, self>>
    BY <1>1 DEF Login, HubConnect, AddNetwork
  <2>2. CASE Launch(n)
    <3>1. hubReturn' \subseteq hubReturn \cup {n}
      BY <1>1 DEF Login, HubConnect, AddNetwork
    <3>2. netCtx'[n] # None /\ \A m \in Net \ {n} : netCtx'[m] = netCtx[m]
      BY <2>2 DEF Launch
    <3> QED
      BY <2>1, <3>1, <3>2
  <2>3. CASE UNCHANGED netCtx
    <3>1. \/ hubReturn' \subseteq hubReturn
          \/ netCtx[n] # None /\ hubReturn' \subseteq hubReturn \cup {n}
      BY <1>1, <2>3 DEF Login, HubConnect, AddNetwork, Launch, MayStart
    <3> QED
      BY <2>1, <2>3, <3>1
  <2> QED
    BY <1>1, <2>2, <2>3 DEF Login, HubConnect, AddNetwork
<1>2. ASSUME NEW n \in Net, Disconnect(n) \/ Logout(n) \/ RemoveNetwork(n) PROVE DeadIsDead'
  BY <1>2 DEF Disconnect, Logout, RemoveNetwork, uiVars
<1>3. CASE OpenHub \/ CloseHub \/ DropStale
  BY <1>3 DEF OpenHub, CloseHub, DropStale, uiVars
<1>4. ASSUME NEW s \in Session, OnReady(s) \/ OnConnected(s) PROVE DeadIsDead'
  <2>1. PICK ev : Takes(s, ev)
    BY <1>4 DEF OnReady, OnConnected
  <2>2. owner[s] \in Net /\ netCtx[owner[s]] # None
    BY <2>1, TakenSession
  <2>3. UNCHANGED netCtx /\ hubReturn' \subseteq hubReturn
    BY <1>4 DEF OnReady, OnConnected, HubBack
  <2>4. \A n \in Net \ {owner[s]} : conn'[n] = conn[n] /\ self'[n] = self[n]
    BY <1>4, <2>2 DEF OnReady, OnConnected
  <2> QED
    BY <2>2, <2>3, <2>4
<1>5. ASSUME NEW s \in Session, OnDisconnected(s) \/ OnMessage(s) PROVE DeadIsDead'
  BY <1>5 DEF OnDisconnected, OnMessage
<1>6. ASSUME NEW s \in Session, OnStopped(s) PROVE DeadIsDead'
  <2>1. owner[s] \in Net
    BY <1>6, TakenSession DEF OnStopped
  <2>2. /\ netCtx' = [netCtx EXCEPT ![owner[s]] = None]
        /\ self' = [self EXCEPT ![owner[s]] = None]
        /\ conn' = [conn EXCEPT ![owner[s]] = FALSE]
        /\ hubReturn' = hubReturn \ {owner[s]}
    BY <1>6 DEF OnStopped, ForgetNet, HubBack
  <2> QED
    BY <2>1, <2>2
<1>7. ASSUME NEW s \in Session,
             \/ LogoutEnds(s) \/ Forward(s) \/ ForwarderEnds(s)
             \/ RunReturns(s) \/ PostStopped(s)
      PROVE  DeadIsDead'
  BY <1>7 DEF LogoutEnds, Forward, ForwarderEnds, RunReturns, PostStopped, uiVars
<1>8. ASSUME NEW s \in Session, NEW ev \in Posts, BackendPost(s, ev) PROVE DeadIsDead'
  BY <1>8 DEF BackendPost, uiVars
<1>9. CASE UNCHANGED vars
  BY <1>9 DEF vars
<1> QED
  BY <1>1, <1>2, <1>3, <1>4, <1>5, <1>6, <1>7, <1>8, <1>9
  DEF Next, User, Dispatch, Goroutines

-----------------------------------------------------------------------------
(* The theorems.                                                           *)

LEMMA InitIInv == Init => IInv
<1> SUFFICES ASSUME Init PROVE IInv
  OBVIOUS
<1> USE NetSessionAssumption DEF Init
<1>1. TypeOK
  BY DEF TypeOK, RunState
<1>2. Born /\ Owned /\ AliveIsCurrent
  BY DEF Born, Owned, AliveIsCurrent, Alive
<1>3. StoppedIsCurrent /\ StoppedOnce
  BY DEF StoppedIsCurrent, StoppedOnce
<1>4. NeverStranded /\ DeadIsDead
  BY DEF NeverStranded, DeadIsDead
<1> QED
  BY <1>1, <1>2, <1>3, <1>4 DEF IInv

LEMMA IInvStep == IInv /\ [Next]_vars => IInv'
<1> SUFFICES ASSUME IInv, [Next]_vars PROVE IInv'
  OBVIOUS
<1>1. TypeOK /\ Born /\ StoppedIsCurrent /\ DeadIsDead /\ Goodbyes
  BY DEF IInv, Goodbyes
<1>2. TypeOK' /\ Born' /\ DeadIsDead'
  BY <1>1, TypeStep, BornStep, DeadIsDeadStep
<1>3. Goodbyes'
  BY <1>1, StepKinds, QuietGoodbyes, StartsGoodbyes, ReadsGoodbyes, EndsGoodbyes,
     SendsGoodbyes, SaysGoodbyeGoodbyes
<1> QED
  BY <1>2, <1>3 DEF IInv, Goodbyes

\* The inductive invariant: every launch is followed to its EvStopped.
THEOREM Invariant == Spec => []IInv
  BY InitIInv, IInvStep, PTL DEF Spec

\* Type correctness: no handler ever works for a session that was not launched.
THEOREM TypeCorrect == Spec => []TypeOK
<1>1. IInv => TypeOK
  BY DEF IInv
<1> QED
  BY <1>1, Invariant, PTL

\* startNet refuses a network in u.nets and only EvStopped takes it out: two
\* backends of one network never run at the same time.
THEOREM OneBackendAlways == Spec => []OneBackend
<1>1. IInv => OneBackend
  BY DEF IInv, AliveIsCurrent, OneBackend
<1> QED
  BY <1>1, Invariant, PTL

\* The EvStopped of launchModule goes straight into u.envs and dispatch takes
\* it: a network in u.nets has a Run, or an EvStopped on its way.
THEOREM NeverStrandedAlways == Spec => []NeverStranded
<1>1. IInv => NeverStranded
  BY DEF IInv
<1> QED
  BY <1>1, Invariant, PTL

\* dispatch drops the events of a session that is over: the connection, the
\* account and the hub mark of a network do not survive its EvStopped.
THEOREM DeadIsDeadAlways == Spec => []DeadIsDead
<1>1. IInv => DeadIsDead
  BY DEF IInv
<1> QED
  BY <1>1, Invariant, PTL

-----------------------------------------------------------------------------
(* The chats of a network are those of its account.  The invariant is the  *)
(* order of the channels: until a network said who we are, no message of   *)
(* it comes before its EvReady.                                            *)

\* An EvReady of s waits in the channel of the UI.
ReadyAt(s, j) == envs[j] = [session |-> s, ev |-> "ready"]
ReadySent(s) == \E j \in DOMAIN envs : ReadyAt(s, j)

\* One waits in the channel of its backend, before place i.
ReadyRaw(s, i) == \E j \in DOMAIN raw[s] : j < i /\ raw[s][j] = "ready"

\* No message of s overtakes its EvReady, in either channel.
MessagesLater(s) ==
    \A i \in DOMAIN envs :
        envs[i] = [session |-> s, ev |-> "message"] => \E j \in DOMAIN envs : j < i /\ ReadyAt(s, j)
RawLater(s) ==
    /\ \A i \in DOMAIN raw[s] : raw[s][i] = "message" => ReadySent(s) \/ ReadyRaw(s, i)
    /\ s \in ready \cap forwarding => ReadySent(s) \/ \E j \in DOMAIN raw[s] : raw[s][j] = "ready"

\* A network is up with s, and did not say who we are yet.
Waiting(s) == owner[s] \in Net \ EarlyNets /\ netCtx[owner[s]] = s /\ self[owner[s]] = None

ReadyFirst == \A s \in Session : Waiting(s) => MessagesLater(s) /\ RawLater(s)

Unheard == \A s \in Session : owner[s] = None => raw[s] = <<>> /\ s \notin ready

SelfIsAccount ==
    \A n \in Net : self[n] # None => self[n] = account[n] /\ self[n] = acct[netCtx[n]]

ChatsKept == \A c \in chats : c[1] \in HistoryNets \ EarlyNets => account[c[1]] = c[2]

AccountInv == Unheard /\ ReadyFirst /\ SelfIsAccount /\ ChatsKept

\* An event leaves the channel that is no EvReady of s.
LEMMA TailLater ==
    ASSUME TypeOK, Born, NEW s \in Session, envs # <<>>, envs' = Tail(envs),
           Head(envs) # [session |-> s, ev |-> "ready"], UNCHANGED <<raw, ready, forwarding>>,
           MessagesLater(s), RawLater(s)
    PROVE  MessagesLater(s)' /\ RawLater(s)'
<1>1. /\ \A i \in DOMAIN envs' : envs'[i] = envs[i + 1] /\ i + 1 \in DOMAIN envs /\ i \in Nat
      /\ ~ReadyAt(s, 1)
      /\ \A j \in DOMAIN envs : j # 1 => j - 1 \in DOMAIN envs' /\ envs'[j - 1] = envs[j]
      /\ \A j \in DOMAIN envs : j \in Nat
  <2>1. /\ DOMAIN envs' = 1 .. (Len(envs) - 1) /\ Len(envs) \in Nat \ {0}
        /\ Head(envs) = envs[1]
        /\ \A i \in DOMAIN envs' : envs'[i] = envs[i + 1] /\ i + 1 \in DOMAIN envs
    BY TailOfEnvs
  <2>2. DOMAIN envs = 1 .. Len(envs)
    BY LenProperties DEF TypeOK
  <2>3. \A j \in DOMAIN envs : j # 1 => j - 1 \in DOMAIN envs' /\ (j - 1) + 1 = j
    BY <2>1, <2>2
  <2>4. \A j \in DOMAIN envs : j # 1 => envs'[j - 1] = envs[j]
    BY <2>1, <2>3
  <2> QED
    BY <2>1, <2>2, <2>3, <2>4 DEF ReadyAt
<1>2. \A j \in DOMAIN envs : ReadyAt(s, j) => j - 1 \in DOMAIN envs' /\ ReadyAt(s, j - 1)'
  BY <1>1 DEF ReadyAt
<1>3. MessagesLater(s)'
  <2> SUFFICES ASSUME NEW i \in DOMAIN envs', envs'[i] = [session |-> s, ev |-> "message"]
               PROVE  \E j \in DOMAIN envs' : j < i /\ ReadyAt(s, j)'
    BY DEF MessagesLater
  <2>1. PICK j \in DOMAIN envs : j < i + 1 /\ ReadyAt(s, j)
    BY <1>1 DEF MessagesLater
  <2>2. j - 1 < i
    BY <1>1, <2>1
  <2> QED
    BY <1>2, <2>1, <2>2
<1>4. ReadySent(s) => ReadySent(s)'
  BY <1>2 DEF ReadySent
<1> QED
  BY <1>3, <1>4 DEF RawLater, ReadyRaw

\* An event comes last in the channel.
LEMMA SentLater ==
    ASSUME TypeOK, NEW s \in Session, NEW e \in Envelope, envs' = Append(envs, e),
           MessagesLater(s), e = [session |-> s, ev |-> "message"] => ReadySent(s)
    PROVE  /\ MessagesLater(s)'
           /\ ReadySent(s) => ReadySent(s)'
           /\ e = [session |-> s, ev |-> "ready"] => ReadySent(s)'
<1>1. /\ Len(envs) \in Nat
      /\ DOMAIN envs = 1 .. Len(envs) /\ DOMAIN envs' = 1 .. (Len(envs) + 1)
      /\ envs'[Len(envs) + 1] = e
      /\ \A i \in DOMAIN envs : envs'[i] = envs[i]
  BY SentToEnvs
<1>2. \A j \in DOMAIN envs : j \in DOMAIN envs' /\ j < Len(envs) + 1 /\ ReadyAt(s, j)' = ReadyAt(s, j)
  BY <1>1 DEF ReadyAt
<1>3. ASSUME NEW i \in DOMAIN envs', envs'[i] = [session |-> s, ev |-> "message"]
      PROVE  \E j \in DOMAIN envs' : j < i /\ ReadyAt(s, j)'
  <2>1. CASE i \in DOMAIN envs
    <3>1. PICK j \in DOMAIN envs : j < i /\ ReadyAt(s, j)
      BY <1>1, <1>3, <2>1 DEF MessagesLater
    <3> QED
      BY <1>2, <3>1
  <2>2. CASE i \notin DOMAIN envs
    <3>1. i = Len(envs) + 1
      BY <1>1, <2>2
    <3>2. PICK j \in DOMAIN envs : ReadyAt(s, j)
      BY <1>1, <1>3, <3>1 DEF ReadySent
    <3> QED
      BY <1>2, <3>1, <3>2
  <2> QED
    BY <2>1, <2>2
<1>4. MessagesLater(s)'
  BY <1>3 DEF MessagesLater
<1>5. e = [session |-> s, ev |-> "ready"] => ReadySent(s)'
  <2>1. Len(envs) + 1 \in DOMAIN envs'
    BY <1>1
  <2> QED
    BY <1>1, <2>1 DEF ReadySent, ReadyAt
<1> QED
  BY <1>2, <1>4, <1>5 DEF ReadySent

\* A backend posts an event; a message only after its EvReady.
LEMMA PostedLater ==
    ASSUME TypeOK, Born, NEW s \in Session, NEW ev \in Posts, BackendPost(s, ev), owner[s] \notin EarlyNets,
           MessagesLater(s), RawLater(s)
    PROVE  MessagesLater(s)' /\ RawLater(s)'
<1>1. /\ raw[s] \in Seq(BackendEvent) /\ ev \in BackendEvent
      /\ raw'[s] = Append(raw[s], ev)
      /\ envs' = envs /\ forwarding' = forwarding
      /\ ready' = IF ev = "ready" THEN ready \cup {s} ELSE ready
      /\ s \in forwarding
      /\ ev = "message" => s \in ready
  BY NetSessionAssumption DEF BackendPost, TypeOK
<1>2. /\ Len(raw[s]) \in Nat /\ DOMAIN raw[s] = 1 .. Len(raw[s])
      /\ DOMAIN raw'[s] = 1 .. (Len(raw[s]) + 1)
      /\ raw'[s][Len(raw[s]) + 1] = ev
      /\ \A i \in DOMAIN raw[s] : raw'[s][i] = raw[s][i]
  <2>1. PICK r : r = Append(raw[s], ev)
    OBVIOUS
  <2>2. /\ r \in Seq(BackendEvent) /\ Len(r) = Len(raw[s]) + 1
        /\ \A i \in 1 .. Len(raw[s]) : r[i] = raw[s][i]
        /\ r[Len(raw[s]) + 1] = ev
    BY <1>1, <2>1, AppendProperties
  <2> QED
    BY <1>1, <2>1, <2>2, LenProperties
<1>3. MessagesLater(s)' /\ ReadySent(s)' = ReadySent(s)
  BY <1>1 DEF MessagesLater, ReadySent, ReadyAt
<1>4. \A j \in DOMAIN raw[s] : j \in DOMAIN raw'[s] /\ j < Len(raw[s]) + 1
  BY <1>2
<1>5. ASSUME NEW i \in DOMAIN raw'[s], raw'[s][i] = "message" PROVE ReadySent(s)' \/ ReadyRaw(s, i)'
  <2>1. CASE i \in DOMAIN raw[s]
    <3>1. ReadySent(s) \/ ReadyRaw(s, i)
      BY <1>2, <1>5, <2>1 DEF RawLater
    <3> QED
      BY <1>2, <1>3, <1>4, <3>1 DEF ReadyRaw
  <2>2. CASE i \notin DOMAIN raw[s]
    <3>1. i = Len(raw[s]) + 1
      BY <1>2, <2>2
    <3>2. s \in ready
      BY <1>1, <1>2, <1>5, <3>1
    <3>3. ReadySent(s) \/ \E j \in DOMAIN raw[s] : raw[s][j] = "ready"
      BY <1>1, <3>2 DEF RawLater
    <3> QED
      BY <1>2, <1>3, <1>4, <3>1, <3>3 DEF ReadyRaw
  <2> QED
    BY <2>1, <2>2
<1>6. s \in ready' => ReadySent(s)' \/ \E j \in DOMAIN raw'[s] : raw'[s][j] = "ready"
  <2>1. CASE ev = "ready"
    <3>1. Len(raw[s]) + 1 \in DOMAIN raw'[s]
      BY <1>2
    <3> QED
      BY <1>2, <2>1, <3>1
  <2>2. CASE ev # "ready" /\ s \in ready
    BY <1>1, <1>2, <1>3, <1>4, <2>2 DEF RawLater
  <2> QED
    BY <1>1, <2>1, <2>2
<1> QED
  BY <1>3, <1>5, <1>6 DEF RawLater

\* The forwarder takes the head of the channel of the backend.
LEMMA ForwardedLater ==
    ASSUME TypeOK, NEW s \in Session, Forward(s), MessagesLater(s), RawLater(s)
    PROVE  MessagesLater(s)' /\ RawLater(s)'
<1>1. /\ raw[s] \in Seq(BackendEvent) /\ raw[s] # <<>>
      /\ raw'[s] = Tail(raw[s])
      /\ envs' = Append(envs, [session |-> s, ev |-> Head(raw[s])])
      /\ UNCHANGED <<ready, forwarding>>
  BY DEF Forward, TypeOK
<1>2. /\ Head(raw[s]) = raw[s][1] /\ Head(raw[s]) \in BackendEvent
      /\ DOMAIN raw[s] \subseteq Nat \ {0} /\ 1 \in DOMAIN raw[s]
      /\ \A i \in DOMAIN raw'[s] : raw'[s][i] = raw[s][i + 1] /\ i + 1 \in DOMAIN raw[s] /\ i \in Nat
      /\ \A j \in DOMAIN raw[s] : j # 1 => j - 1 \in DOMAIN raw'[s] /\ raw'[s][j - 1] = raw[s][j]
  <2>1. PICK r : r = Tail(raw[s])
    OBVIOUS
  <2>2. /\ Head(raw[s]) = raw[s][1] /\ Head(raw[s]) \in BackendEvent
        /\ r \in Seq(BackendEvent) /\ Len(r) = Len(raw[s]) - 1
        /\ \A i \in 1 .. Len(r) : r[i] = raw[s][i + 1]
    BY <1>1, <2>1, HeadTailProperties
  <2>3. Len(raw[s]) \in Nat \ {0} /\ DOMAIN raw[s] = 1 .. Len(raw[s]) /\ DOMAIN r = 1 .. Len(r)
    BY <1>1, <2>2, LenProperties, EmptySeq
  <2>4. \A j \in DOMAIN raw[s] : j # 1 => j - 1 \in DOMAIN r /\ r[j - 1] = raw[s][(j - 1) + 1] /\ (j - 1) + 1 = j
    BY <2>2, <2>3
  <2>5. \A i \in DOMAIN r : r[i] = raw[s][i + 1] /\ i + 1 \in DOMAIN raw[s] /\ i \in Nat
    BY <2>2, <2>3
  <2>6. \A j \in DOMAIN raw[s] : j # 1 => j - 1 \in DOMAIN r /\ r[j - 1] = raw[s][j]
    BY <2>4
  <2> QED
    BY <1>1, <2>1, <2>2, <2>3, <2>5, <2>6
<1>3. PICK e : e = [session |-> s, ev |-> Head(raw[s])]
  OBVIOUS
<1>4. e \in Envelope
  BY <1>2, <1>3 DEF Envelope
<1>5. raw[s][1] = "message" => ReadySent(s)
  BY <1>2 DEF RawLater, ReadyRaw
<1>6. /\ MessagesLater(s)'
      /\ ReadySent(s) => ReadySent(s)'
      /\ raw[s][1] = "ready" => ReadySent(s)'
  BY <1>1, <1>2, <1>3, <1>4, <1>5, SentLater
<1>7. ASSUME NEW i \in DOMAIN raw'[s], raw'[s][i] = "message" PROVE ReadySent(s)' \/ ReadyRaw(s, i)'
  <2>1. ReadySent(s) \/ ReadyRaw(s, i + 1)
    BY <1>2, <1>7 DEF RawLater
  <2>2. ASSUME NEW j \in DOMAIN raw[s], j < i + 1, raw[s][j] = "ready", j # 1
        PROVE  j - 1 \in DOMAIN raw'[s] /\ j - 1 < i /\ raw'[s][j - 1] = "ready"
    BY <1>2, <2>2
  <2> QED
    BY <1>6, <2>1, <2>2 DEF ReadyRaw
<1>8. s \in ready' \cap forwarding' => ReadySent(s)' \/ \E j \in DOMAIN raw'[s] : raw'[s][j] = "ready"
  BY <1>1, <1>2, <1>6 DEF RawLater
<1> QED
  BY <1>6, <1>7, <1>8 DEF RawLater

LEMMA UnheardStep ==
    ASSUME TypeOK, Born, Unheard, [Next]_vars
    PROVE  Unheard'
<1> SUFFICES ASSUME NEW t \in Session, owner'[t] = None
             PROVE  raw'[t] = <<>> /\ t \notin ready'
  BY DEF Unheard
<1>1. owner[t] = None
  <2>1. UNCHANGED owner \/ \E n \in Net : Launch(n)
    BY DEF Next, User, Dispatch, Goroutines, OpenHub, CloseHub, Login, HubConnect, AddNetwork, Disconnect,
       Logout, RemoveNetwork, DropStale, OnReady, OnConnected, OnDisconnected, OnMessage, OnStopped,
       LogoutEnds, Forward, ForwarderEnds, RunReturns, PostStopped, BackendPost, sessVars, vars
  <2>2. ASSUME NEW n \in Net, Launch(n) PROVE owner'[t] = owner[t] \/ owner'[t] = n
    BY <2>2 DEF Launch, TypeOK
  <2> QED
    BY <2>1, <2>2, NetSessionAssumption
<1>2. raw[t] = <<>> /\ t \notin ready /\ t \notin forwarding /\ run[t] = "unborn"
  BY <1>1 DEF Unheard, Born
<1>3. ASSUME NEW s \in Session, \/ Forward(s) \/ ForwarderEnds(s) \/ \E ev \in Posts : BackendPost(s, ev)
      PROVE  raw'[t] = <<>> /\ t \notin ready'
  <2>1. s # t /\ raw'[t] = raw[t] /\ (t \in ready' => t \in ready \cup {s})
    BY <1>2, <1>3 DEF Forward, ForwarderEnds, BackendPost, TypeOK
  <2> QED
    BY <1>2, <2>1
<1>4. \/ UNCHANGED <<raw, ready>>
      \/ \E s \in Session : \/ Forward(s) \/ ForwarderEnds(s) \/ \E ev \in Posts : BackendPost(s, ev)
  BY DEF Next, User, Dispatch, Goroutines, OpenHub, CloseHub, Login, HubConnect, AddNetwork, Disconnect,
     Logout, RemoveNetwork, DropStale, OnReady, OnConnected, OnDisconnected, OnMessage, OnStopped,
     LogoutEnds, RunReturns, PostStopped, Launch, sessVars, vars
<1> QED
  BY <1>2, <1>3, <1>4

LEMMA ReadyFirstStep ==
    ASSUME TypeOK, Born, Unheard, ReadyFirst, [Next]_vars
    PROVE  ReadyFirst'
<1> SUFFICES ASSUME NEW t \in Session, Waiting(t)' PROVE MessagesLater(t)' /\ RawLater(t)'
  BY DEF ReadyFirst
<1> DEFINE Goal == MessagesLater(t)' /\ RawLater(t)'
<1>1. ASSUME Waiting(t), UNCHANGED <<envs, raw, ready, forwarding>> PROVE Goal
  BY <1>1 DEF ReadyFirst, MessagesLater, RawLater, ReadySent, ReadyAt, ReadyRaw
<1>2. ASSUME NEW n \in Net, Launch(n), UNCHANGED <<self, envs>> PROVE Goal
  <2>1. PICK s \in Session :
            /\ owner[s] = None
            /\ netCtx' = [netCtx EXCEPT ![n] = s]
            /\ owner' = [owner EXCEPT ![s] = n]
            /\ forwarding' = forwarding \cup {s}
            /\ UNCHANGED <<ready, raw>>
    BY <1>2 DEF Launch
  <2>2. CASE s = t
    <3>1. raw'[t] = <<>> /\ t \notin ready'
      BY <2>1, <2>2 DEF Unheard
    <3>2. \A i \in DOMAIN envs : envs[i].session # t
      BY <2>1, <2>2 DEF Born
    <3> QED
      BY <1>2, <3>1, <3>2, EmptySeq DEF MessagesLater, RawLater
  <2>3. CASE s # t
    <3>1. owner'[t] = owner[t] /\ (t \in forwarding' => t \in forwarding)
      BY <2>1, <2>3 DEF TypeOK
    <3>2. owner[t] \in Net /\ netCtx'[owner[t]] = t /\ self[owner[t]] = None /\ owner[t] \notin EarlyNets
      BY <1>2, <3>1 DEF Waiting
    <3>3. netCtx[owner[t]] = t
      BY <2>1, <2>3, <3>2 DEF TypeOK
    <3>4. MessagesLater(t) /\ RawLater(t)
      BY <3>2, <3>3 DEF Waiting, ReadyFirst
    <3> QED
      BY <1>2, <2>1, <3>1, <3>4 DEF MessagesLater, RawLater, ReadySent, ReadyAt, ReadyRaw
  <2> QED
    BY <2>2, <2>3
\* An event of another session, or no EvReady, leaves the channel.
<1>3. ASSUME Waiting(t), envs # <<>>, envs' = Tail(envs), Head(envs) # [session |-> t, ev |-> "ready"],
             UNCHANGED <<raw, ready, forwarding>>
      PROVE  Goal
  BY <1>3, TailLater DEF ReadyFirst
<1>4. CASE DropStale
  <2>1. Waiting(t)
    BY <1>4 DEF DropStale, uiVars, sessVars, Waiting
  <2>2. Head(envs).session # t
    BY <1>4, <2>1 DEF DropStale, Current, Waiting
  <2> QED
    BY <1>3, <1>4, <2>1, <2>2 DEF DropStale, sessVars
<1>5. ASSUME NEW s \in Session, NEW ev \in {"connected", "disconnected", "message"}, Takes(s, ev),
             UNCHANGED <<netCtx, self, sessVars>>
      PROVE  Goal
  <2>1. Waiting(t) /\ Head(envs) # [session |-> t, ev |-> "ready"]
    BY <1>5 DEF Waiting, Takes, sessVars
  <2> QED
    BY <1>3, <1>5, <2>1 DEF Takes, sessVars
<1>6. ASSUME NEW s \in Session, OnReady(s) PROVE Goal
  <2>1. /\ owner[s] \in Net /\ acct[s] \in Account /\ self' = [self EXCEPT ![owner[s]] = acct[s]]
        /\ UNCHANGED <<netCtx, owner>>
    BY <1>6, TakenSession DEF OnReady, sessVars
  <2>2. owner[t] # owner[s]
    <3>1. self'[owner[s]] = acct[s] /\ acct[s] # None
      BY <2>1, NetSessionAssumption DEF TypeOK
    <3> QED
      BY <2>1, <3>1 DEF Waiting
  <2>3. Waiting(t) /\ Head(envs) # [session |-> t, ev |-> "ready"]
    BY <1>6, <2>1, <2>2 DEF OnReady, Takes, Waiting, TypeOK
  <2> QED
    BY <1>3, <1>6, <2>3 DEF OnReady, Takes, sessVars
<1>7. ASSUME NEW s \in Session, OnStopped(s) PROVE Goal
  <2>1. /\ owner[s] \in Net
        /\ netCtx' = [netCtx EXCEPT ![owner[s]] = None] /\ self' = [self EXCEPT ![owner[s]] = None]
        /\ UNCHANGED owner
    BY <1>7, TakenSession DEF OnStopped, ForgetNet
  <2>2. owner[t] # owner[s]
    <3>1. netCtx'[owner[s]] = None
      BY <2>1 DEF TypeOK
    <3> QED
      BY <2>1, <3>1, NetSessionAssumption DEF Waiting
  <2>3. Waiting(t) /\ Head(envs) # [session |-> t, ev |-> "ready"]
    BY <1>7, <2>1, <2>2 DEF OnStopped, Takes, Waiting, TypeOK
  <2> QED
    BY <1>3, <1>7, <2>3 DEF OnStopped, Takes
<1>8. ASSUME NEW s \in Session, NEW ev \in Posts, BackendPost(s, ev) PROVE Goal
  <2>1. Waiting(t)
    BY <1>8 DEF BackendPost, uiVars, Waiting
  <2>2. CASE s = t
    BY <1>8, <2>1, <2>2, PostedLater DEF ReadyFirst, Waiting
  <2>3. CASE s # t
    <3>1. raw'[t] = raw[t] /\ (t \in ready' <=> t \in ready) /\ UNCHANGED <<envs, forwarding>>
      BY <1>8, <2>3 DEF BackendPost, TypeOK
    <3> QED
      BY <2>1, <3>1 DEF ReadyFirst, MessagesLater, RawLater, ReadySent, ReadyAt, ReadyRaw
  <2> QED
    BY <2>2, <2>3
<1>9. ASSUME NEW s \in Session, Forward(s) PROVE Goal
  <2>1. Waiting(t)
    BY <1>9 DEF Forward, uiVars, Waiting
  <2>2. CASE s = t
    BY <1>9, <2>1, <2>2, ForwardedLater DEF ReadyFirst
  <2>3. CASE s # t
    <3>1. PICK e : e = [session |-> s, ev |-> Head(raw[s])]
      OBVIOUS
    <3>2. e \in Envelope
      <4>1. raw[s] \in Seq(BackendEvent) /\ raw[s] # <<>>
        BY <1>9 DEF Forward, TypeOK
      <4>2. Head(raw[s]) \in BackendEvent
        BY <4>1, HeadTailProperties
      <4> QED
        BY <3>1, <4>2 DEF Envelope
    <3>3. envs' = Append(envs, e) /\ raw'[t] = raw[t] /\ UNCHANGED <<ready, forwarding>>
      BY <1>9, <2>3, <3>1 DEF Forward, TypeOK
    <3>4. MessagesLater(t)' /\ (ReadySent(t) => ReadySent(t)')
      BY <2>1, <2>3, <3>1, <3>2, <3>3, SentLater DEF ReadyFirst
    <3> QED
      BY <2>1, <3>3, <3>4 DEF ReadyFirst, RawLater, ReadyRaw
  <2> QED
    BY <2>2, <2>3
<1>10. ASSUME NEW s \in Session, ForwarderEnds(s) PROVE Goal
  <2>1. Waiting(t) /\ UNCHANGED <<envs, ready>>
    BY <1>10 DEF ForwarderEnds, uiVars, Waiting
  <2>2. \/ raw'[t] = <<>> /\ t \notin forwarding'
        \/ raw'[t] = raw[t] /\ (t \in forwarding' => t \in forwarding)
    BY <1>10 DEF ForwarderEnds, TypeOK
  <2> QED
    BY <2>1, <2>2, EmptySeq DEF ReadyFirst, MessagesLater, RawLater, ReadySent, ReadyAt, ReadyRaw
<1>11. ASSUME NEW s \in Session, PostStopped(s) PROVE Goal
  <2>1. Waiting(t) /\ UNCHANGED <<raw, ready, forwarding>>
    BY <1>11 DEF PostStopped, uiVars, Waiting
  <2>2. PICK e : e = [session |-> s, ev |-> "stopped"]
    OBVIOUS
  <2>3. e \in Envelope /\ envs' = Append(envs, e)
    BY <1>11, <2>2 DEF PostStopped, StoppedGoes, Envelope
  <2>4. MessagesLater(t)' /\ (ReadySent(t) => ReadySent(t)')
    BY <2>1, <2>2, <2>3, SentLater DEF ReadyFirst
  <2> QED
    BY <2>1, <2>4 DEF ReadyFirst, RawLater, ReadyRaw
\* The steps that leave networks, sessions and channels alone.
<1>12. ASSUME UNCHANGED <<netCtx, owner, self, envs, raw, ready, forwarding>> PROVE Goal
  BY <1>1, <1>12 DEF Waiting
<1>13. ASSUME NEW n \in Net, Login(n) \/ HubConnect(n) \/ AddNetwork(n) PROVE Goal
  BY <1>2, <1>12, <1>13 DEF Login, HubConnect, AddNetwork, sessVars
<1>14. ASSUME NEW n \in Net, Disconnect(n) \/ Logout(n) \/ RemoveNetwork(n) PROVE Goal
  BY <1>12, <1>14 DEF Disconnect, Logout, RemoveNetwork, uiVars
<1>15. ASSUME NEW s \in Session, LogoutEnds(s) \/ RunReturns(s) PROVE Goal
  BY <1>12, <1>15 DEF LogoutEnds, RunReturns, uiVars
<1>16. ASSUME NEW s \in Session, OnConnected(s) \/ OnDisconnected(s) \/ OnMessage(s) PROVE Goal
  BY <1>5, <1>16 DEF OnConnected, OnDisconnected, OnMessage
<1>17. CASE OpenHub \/ CloseHub \/ UNCHANGED vars
  BY <1>12, <1>17 DEF OpenHub, CloseHub, sessVars, vars
<1> QED
  BY <1>4, <1>6, <1>7, <1>8, <1>9, <1>10, <1>11, <1>13, <1>14, <1>15, <1>16, <1>17
  DEF Next, User, Dispatch, Goroutines

LEMMA SelfIsAccountStep ==
    ASSUME TypeOK, Born, Owned, DeadIsDead, SelfIsAccount, [Next]_vars
    PROVE  SelfIsAccount'
<1> USE NetSessionAssumption
<1>1. ASSUME UNCHANGED <<netCtx, self, account, acct>> PROVE SelfIsAccount'
  BY <1>1 DEF SelfIsAccount
<1>2. ASSUME NEW n \in Net, Launch(n), netCtx[n] = None, UNCHANGED <<self, account>> PROVE SelfIsAccount'
  <2>1. PICK s \in Session, a \in Account :
            /\ owner[s] = None
            /\ netCtx' = [netCtx EXCEPT ![n] = s]
            /\ acct' = [acct EXCEPT ![s] = a]
    BY <1>2 DEF Launch
  <2>2. ASSUME NEW m \in Net, self[m] # None PROVE self[m] = account[m] /\ self[m] = acct'[netCtx'[m]]
    <3>1. netCtx[m] # None /\ m # n /\ netCtx[m] \in Session
      BY <1>2, <2>2 DEF DeadIsDead, TypeOK
    <3>2. netCtx'[m] = netCtx[m] /\ netCtx[m] # s
      BY <2>1, <3>1 DEF Born, TypeOK
    <3> QED
      BY <2>1, <2>2, <3>1, <3>2 DEF SelfIsAccount, TypeOK
  <2> QED
    BY <1>2, <2>2 DEF SelfIsAccount
<1>3. ASSUME NEW s \in Session, OnReady(s) PROVE SelfIsAccount'
  <2>1. /\ owner[s] \in Net /\ netCtx[owner[s]] = s
        /\ self' = [self EXCEPT ![owner[s]] = acct[s]] /\ account' = [account EXCEPT ![owner[s]] = acct[s]]
        /\ UNCHANGED <<netCtx, acct>>
    BY <1>3, TakenSession DEF OnReady, sessVars
  <2> QED
    BY <2>1 DEF SelfIsAccount, TypeOK
<1>4. ASSUME NEW s \in Session, OnStopped(s) PROVE SelfIsAccount'
  <2>1. /\ owner[s] \in Net
        /\ netCtx' = [netCtx EXCEPT ![owner[s]] = None] /\ self' = [self EXCEPT ![owner[s]] = None]
        /\ UNCHANGED <<account, acct>>
    BY <1>4, TakenSession DEF OnStopped, ForgetNet
  <2> QED
    BY <2>1 DEF SelfIsAccount, TypeOK
<1>5. ASSUME NEW n \in Net, Login(n) \/ HubConnect(n) \/ AddNetwork(n) PROVE SelfIsAccount'
  BY <1>1, <1>2, <1>5 DEF Login, HubConnect, AddNetwork, MayStart, sessVars
<1>6. ASSUME NEW n \in Net, Disconnect(n) \/ Logout(n) \/ RemoveNetwork(n) PROVE SelfIsAccount'
  BY <1>1, <1>6 DEF Disconnect, Logout, RemoveNetwork, uiVars
<1>7. ASSUME NEW s \in Session, \/ OnConnected(s) \/ OnDisconnected(s) \/ OnMessage(s) \/ LogoutEnds(s)
                                \/ Forward(s) \/ ForwarderEnds(s) \/ RunReturns(s) \/ PostStopped(s)
                                \/ \E ev \in Posts : BackendPost(s, ev)
      PROVE  SelfIsAccount'
  BY <1>1, <1>7 DEF OnConnected, OnDisconnected, OnMessage, LogoutEnds, Forward, ForwarderEnds,
     RunReturns, PostStopped, BackendPost, uiVars, sessVars
<1>8. CASE OpenHub \/ CloseHub \/ DropStale \/ UNCHANGED vars
  BY <1>1, <1>8 DEF OpenHub, CloseHub, DropStale, uiVars, sessVars, vars
<1> QED
  BY <1>3, <1>4, <1>5, <1>6, <1>7, <1>8 DEF Next, User, Dispatch, Goroutines

LEMMA ChatsKeptStep ==
    ASSUME TypeOK, Born, ReadyFirst, SelfIsAccount, ChatsKept, [Next]_vars
    PROVE  ChatsKept'
<1> USE NetSessionAssumption
<1>1. ASSUME chats' \subseteq chats, UNCHANGED account PROVE ChatsKept'
  BY <1>1 DEF ChatsKept
<1>2. ASSUME NEW s \in Session, OnReady(s) PROVE ChatsKept'
  <2>1. /\ owner[s] \in Net
        /\ chats' = AfterAccount(owner[s], acct[s])
        /\ account' = [account EXCEPT ![owner[s]] = acct[s]]
    BY <1>2, TakenSession DEF OnReady
  <2> SUFFICES ASSUME NEW c \in chats', c[1] \in HistoryNets \ EarlyNets
               PROVE  account'[c[1]] = c[2]
    BY DEF ChatsKept
  <2>2. c \in chats /\ account[c[1]] = c[2] /\ c[1] \in Net /\ c[2] \in Account
    BY <2>1 DEF AfterAccount, ChatsKept, TypeOK
  <2>3. CASE c[1] # owner[s]
    BY <2>1, <2>2, <2>3 DEF TypeOK
  <2>4. CASE c[1] = owner[s]
    <3>1. account[owner[s]] \in {None, acct[s]}
      BY <2>1, <2>2, <2>4 DEF AfterAccount, ChatsOf
    <3> QED
      BY <2>1, <2>2, <2>4, <3>1 DEF TypeOK
  <2> QED
    BY <2>3, <2>4
\* A message comes after the EvReady of its session: the account is known.
<1>3. ASSUME NEW s \in Session, OnMessage(s) PROVE ChatsKept'
  <2>1. /\ owner[s] \in Net /\ netCtx[owner[s]] = s
        /\ chats' = chats \cup {<<owner[s], acct[s]>>}
        /\ UNCHANGED account
        /\ envs # <<>> /\ Head(envs) = [session |-> s, ev |-> "message"]
    BY <1>3, TakenSession DEF OnMessage, Takes
  <2>2. CASE owner[s] \in EarlyNets
    BY <2>1, <2>2 DEF ChatsKept
  <2>3. CASE owner[s] \notin EarlyNets
    <3>1. ~MessagesLater(s)
      <4>1. Head(envs) = envs[1] /\ DOMAIN envs \subseteq Nat \ {0} /\ 1 \in DOMAIN envs
        <5>1. envs \in Seq(Envelope)
          BY DEF TypeOK
        <5> QED
          BY <2>1, <5>1, HeadTailProperties, LenProperties, EmptySeq
      <4> QED
        BY <2>1, <4>1 DEF MessagesLater
    <3>2. self[owner[s]] # None
      BY <2>1, <2>3, <3>1 DEF ReadyFirst, Waiting
    <3>3. account[owner[s]] = acct[s]
      BY <2>1, <3>2 DEF SelfIsAccount
    <3> QED
      BY <2>1, <3>3 DEF ChatsKept
  <2> QED
    BY <2>2, <2>3
<1>4. ASSUME NEW n \in Net, \/ Login(n) \/ HubConnect(n) \/ AddNetwork(n) \/ Disconnect(n) \/ Logout(n)
                            \/ RemoveNetwork(n)
      PROVE  ChatsKept'
  BY <1>1, <1>4 DEF Login, HubConnect, AddNetwork, Disconnect, Logout, RemoveNetwork, uiVars
<1>5. ASSUME NEW s \in Session, \/ OnConnected(s) \/ OnDisconnected(s) \/ OnStopped(s) \/ LogoutEnds(s)
                                \/ Forward(s) \/ ForwarderEnds(s) \/ RunReturns(s) \/ PostStopped(s)
                                \/ \E ev \in Posts : BackendPost(s, ev)
      PROVE  ChatsKept'
  BY <1>1, <1>5 DEF OnConnected, OnDisconnected, OnStopped, LogoutEnds, Forward, ForwarderEnds,
     RunReturns, PostStopped, BackendPost, uiVars
<1>6. CASE OpenHub \/ CloseHub \/ DropStale \/ UNCHANGED vars
  BY <1>1, <1>6 DEF OpenHub, CloseHub, DropStale, uiVars, vars
<1> QED
  BY <1>2, <1>3, <1>4, <1>5, <1>6 DEF Next, User, Dispatch, Goroutines

LEMMA InitAccountInv == Init => AccountInv
<1> SUFFICES ASSUME Init PROVE AccountInv
  OBVIOUS
<1>1. Unheard /\ SelfIsAccount
  BY DEF Init, Unheard, SelfIsAccount
<1>2. ReadyFirst
  BY NetSessionAssumption DEF Init, ReadyFirst, Waiting
<1>3. ChatsKept
  BY DEF Init, ChatsKept
<1> QED
  BY <1>1, <1>2, <1>3 DEF AccountInv

LEMMA AccountFollows == IInv /\ AccountInv => ChatsOfAccount
<1> SUFFICES ASSUME IInv, AccountInv, NEW c \in chats, c[1] \in HistoryNets \ EarlyNets, self[c[1]] # None
             PROVE  self[c[1]] = c[2]
  BY DEF ChatsOfAccount
<1>1. c[1] \in Net
  BY DEF IInv, TypeOK
<1> QED
  BY <1>1 DEF AccountInv, ChatsKept, SelfIsAccount

\* A login under another account leaves no chat of the first, whatever events
\* of older sessions are still on their way.
THEOREM ChatsOfAccountAlways == Spec => []ChatsOfAccount
<1>1. IInv /\ AccountInv /\ [Next]_vars => AccountInv'
  BY UnheardStep, ReadyFirstStep, SelfIsAccountStep, ChatsKeptStep DEF IInv, AccountInv
<1> QED
  BY <1>1, Invariant, InitAccountInv, AccountFollows, PTL DEF Spec

-----------------------------------------------------------------------------
(* The goroutines implement the lifecycle of NetLifecycle.                 *)

Phases == [n \in Net |-> PhaseOf(n)]

\* The phase of one network moves, those of the others stay.
LEMMA OnePhase ==
    ASSUME NEW n \in Net, NEW v,
           PhaseOf(n)' = v,
           \A m \in Net \ {n} : PhaseOf(m)' = PhaseOf(m)
    PROVE  Phases' = [Phases EXCEPT ![n] = v]
BY DEF Phases

\* No phase moves.
LEMMA SamePhases ==
    ASSUME UNCHANGED <<netCtx, self>>,
           \A n \in Net : netCtx[n] \in cancelled' <=> netCtx[n] \in cancelled
    PROVE  Phases' = Phases
BY DEF Phases, PhaseOf

\* A session ended by Disconnect, RemoveNetwork or a logout that came back:
\* its network closes, if it is still the one the network holds.
LEMMA CancelCloses ==
    ASSUME IInv, NEW s \in Session, owner[s] # None,
           cancelled' = cancelled \cup {s}, UNCHANGED <<netCtx, self>>
    PROVE  \/ Phases' = Phases
           \/ /\ Phases[owner[s]] \in {"starting", "ready"}
              /\ netCtx[owner[s]] = s
              /\ Phases' = [Phases EXCEPT ![owner[s]] = "closing"]
<1>1. PICK n \in Net : n = owner[s]
  BY DEF IInv, TypeOK
<1>2. \A m \in Net \ {n} : netCtx[m] # s
  BY <1>1, NetSessionAssumption DEF IInv, Owned
<1>3. \A m \in Net \ {n} : PhaseOf(m)' = PhaseOf(m)
  BY <1>2 DEF PhaseOf
<1>4. CASE netCtx[n] = s /\ s \notin cancelled
  <2>1. PhaseOf(n)' = "closing" /\ PhaseOf(n) \in {"starting", "ready"}
    BY <1>4, NetSessionAssumption DEF PhaseOf
  <2>2. Phases[n] \in {"starting", "ready"}
    BY <1>1, <2>1 DEF Phases
  <2> QED
    BY <1>1, <1>3, <1>4, <2>1, <2>2, OnePhase
<1>5. CASE ~(netCtx[n] = s /\ s \notin cancelled)
  <2>1. \A m \in Net : netCtx[m] \in cancelled' <=> netCtx[m] \in cancelled
    BY <1>2, <1>5
  <2> QED
    BY <2>1, SamePhases
<1> QED
  BY <1>4, <1>5

\* A launch takes a network from off to starting.
LEMMA LaunchStarts ==
    ASSUME IInv, NEW n \in Net, Starts(n), UNCHANGED self
    PROVE  Phases[n] = "off" /\ Phases' = [Phases EXCEPT ![n] = "starting"]
<1>1. PICK s \in Session :
        /\ owner[s] = None
        /\ netCtx[n] = None
        /\ netCtx' = [netCtx EXCEPT ![n] = s]
        /\ UNCHANGED cancelled
  BY DEF Starts, Launch
<1>2. s \notin cancelled /\ s # None /\ self[n] = None
  BY <1>1, NetSessionAssumption DEF IInv, Born, DeadIsDead
<1>3. PhaseOf(n) = "off" /\ PhaseOf(n)' = "starting"
  BY <1>1, <1>2 DEF PhaseOf, IInv, TypeOK
<1>4. \A m \in Net \ {n} : PhaseOf(m)' = PhaseOf(m)
  BY <1>1 DEF PhaseOf, IInv, TypeOK
<1> QED
  BY <1>3, <1>4, OnePhase DEF Phases

LEMMA InitRefines == Init => Abstract!Init
BY DEF Init, Abstract!Init, PhaseOf

\* Every step is a step of the lifecycle of one network, or does not show.
LEMMA StepRefines == ASSUME IInv, [Next]_vars PROVE [Abstract!Next]_(Abstract!vars)
<1> USE NetSessionAssumption
<1> DEFINE Shows == [Abstract!Next]_(Abstract!vars)
<1>0. TypeOK /\ Born
  BY DEF IInv
<1>1. ASSUME UNCHANGED netList, Phases' = Phases PROVE Shows
  BY <1>1 DEF Abstract!vars, Phases
<1>2. ASSUME NEW n \in Net,
             \/ Abstract!Start(n) \/ Abstract!Ready(n) \/ Abstract!Close(n)
             \/ Abstract!Stop(n) \/ Abstract!Add(n) \/ Abstract!Remove(n)
      PROVE  Shows
  BY <1>2 DEF Abstract!Next
<1>3. ASSUME NEW n \in Net, Login(n) \/ HubConnect(n) PROVE Shows
  <2>1. Starts(n) /\ n \in netList /\ UNCHANGED <<netList, self>>
    BY <1>3 DEF Login, HubConnect, MayStart, Starts
  <2>2. Abstract!Start(n)
    BY <2>1, LaunchStarts DEF Abstract!Start, Phases
  <2> QED
    BY <1>2, <2>2
<1>4. ASSUME NEW n \in Net, AddNetwork(n) PROVE Shows
  <2>1. n \notin netList /\ netList' = netList \cup {n} /\ UNCHANGED self
    BY <1>4 DEF AddNetwork
  <2>2. Starts(n) \/ UNCHANGED <<netCtx, cancelled>>
    BY <1>4 DEF AddNetwork, MayStart, Starts, sessVars
  <2>3. CASE Starts(n)
    BY <1>2, <2>1, <2>3, LaunchStarts DEF Abstract!Add, Phases
  <2>4. CASE UNCHANGED <<netCtx, cancelled>>
    BY <1>2, <2>1, <2>4, SamePhases DEF Abstract!Add, Phases
  <2> QED
    BY <2>2, <2>3, <2>4
<1>5. ASSUME NEW n \in Net, Disconnect(n) PROVE Shows
  <2>1. CASE netCtx[n] # None
    <3>1. netCtx[n] \in Session /\ owner[netCtx[n]] = n
      BY <2>1, <1>0 DEF IInv, TypeOK, Owned
    <3>2. cancelled' = cancelled \cup {netCtx[n]} /\ UNCHANGED <<netList, netCtx, self>>
      BY <1>5, <2>1 DEF Disconnect, Stop, uiVars
    <3>3. \/ Phases' = Phases
          \/ Phases[n] \in {"starting", "ready"} /\ Phases' = [Phases EXCEPT ![n] = "closing"]
      BY <3>1, <3>2, CancelCloses
    <3> QED
      BY <1>1, <1>2, <3>2, <3>3 DEF Abstract!Close, Phases
  <2>2. CASE netCtx[n] = None
    BY <1>1, <1>5, <2>2, SamePhases DEF Disconnect, Stop, uiVars
  <2> QED
    BY <2>1, <2>2
<1>6. ASSUME NEW n \in Net, RemoveNetwork(n) PROVE Shows
  <2>1. n \in netList /\ netList' = netList \ {n} /\ UNCHANGED <<netCtx, self>>
    BY <1>6 DEF RemoveNetwork
  <2>2. CASE netCtx[n] # None
    <3>1. netCtx[n] \in Session
      BY <2>2, <1>0 DEF TypeOK
    <3>2. cancelled' = cancelled \cup {netCtx[n]}
      BY <1>6, <2>2 DEF RemoveNetwork, Stop
    <3>3. PhaseOf(n) # "off" /\ PhaseOf(n)' = "closing"
      BY <2>1, <2>2, <3>2 DEF PhaseOf
    <3>4. \A m \in Net \ {n} : PhaseOf(m)' = PhaseOf(m)
      BY <2>1, <2>2, <3>2 DEF PhaseOf, IInv, Owned
    <3>5. Phases' = [Phases EXCEPT ![n] = "closing"] /\ Phases[n] # "off"
      BY <3>3, <3>4, OnePhase DEF Phases
    <3> QED
      BY <1>2, <2>1, <3>5 DEF Abstract!Remove, Phases
  <2>3. CASE netCtx[n] = None
    <3>1. UNCHANGED cancelled
      BY <1>6, <2>3 DEF RemoveNetwork, Stop
    <3>2. Phases' = Phases /\ Phases[n] = "off"
      BY <2>1, <2>3, <3>1, SamePhases DEF Phases, PhaseOf
    <3>3. Phases' = [Phases EXCEPT ![n] = "off"]
      BY <3>2 DEF Phases
    <3> QED
      BY <1>2, <2>1, <3>2, <3>3 DEF Abstract!Remove, Phases
  <2> QED
    BY <2>2, <2>3
<1>7. ASSUME NEW s \in Session, OnReady(s) PROVE Shows
  <2>1. PICK n \in Net :
        /\ n = owner[s] /\ netCtx[n] = s /\ s # None /\ acct[s] \in Account
        /\ self' = [self EXCEPT ![n] = acct[s]]
        /\ UNCHANGED <<netList, netCtx, cancelled>>
    BY <1>0, <1>7, TakenSession DEF OnReady, sessVars
  <2>2. \A m \in Net \ {n} : PhaseOf(m)' = PhaseOf(m)
    BY <2>1, <1>0 DEF PhaseOf, TypeOK
  <2>3. CASE s \in cancelled
    <3>1. PhaseOf(n)' = PhaseOf(n)
      BY <2>1, <2>3 DEF PhaseOf
    <3>2. Phases' = Phases
      BY <2>2, <3>1 DEF Phases
    <3> QED
      BY <1>1, <2>1, <3>2
  <2>4. CASE s \notin cancelled
    <3>1. PhaseOf(n)' = "ready" /\ PhaseOf(n) \in {"starting", "ready"}
      BY <2>1, <2>4, <1>0 DEF PhaseOf, TypeOK
    <3>2. Phases' = [Phases EXCEPT ![n] = "ready"] /\ Phases[n] \in {"starting", "ready"}
      BY <2>1, <2>2, <3>1, OnePhase DEF Phases
    <3>3. CASE Phases[n] = "ready"
      <4>1. Phases' = Phases
        BY <3>2, <3>3 DEF Phases
      <4> QED
        BY <1>1, <2>1, <4>1
    <3>4. CASE Phases[n] = "starting"
      BY <1>2, <2>1, <3>2, <3>4 DEF Abstract!Ready, Phases
    <3> QED
      BY <3>2, <3>3, <3>4
  <2> QED
    BY <2>3, <2>4
<1>8. ASSUME NEW s \in Session, OnStopped(s) PROVE Shows
  <2>1. PICK n \in Net :
        /\ n = owner[s] /\ netCtx[n] = s /\ s # None
        /\ netCtx' = [netCtx EXCEPT ![n] = None]
        /\ self' = [self EXCEPT ![n] = None]
        /\ cancelled' = cancelled \cup {s}
        /\ UNCHANGED netList
    BY <1>0, <1>8, TakenSession DEF OnStopped, ForgetNet
  <2>2. \A m \in Net \ {n} : netCtx[m] # s
    BY <2>1 DEF IInv, Owned
  <2>3. \A m \in Net \ {n} : PhaseOf(m)' = PhaseOf(m)
    BY <2>1, <2>2, <1>0 DEF PhaseOf, TypeOK
  <2>4. PhaseOf(n)' = "off" /\ PhaseOf(n) # "off"
    BY <2>1, <1>0 DEF PhaseOf, TypeOK
  <2>5. Phases' = [Phases EXCEPT ![n] = "off"] /\ Phases[n] # "off"
    BY <2>1, <2>3, <2>4, OnePhase DEF Phases
  <2> QED
    BY <1>2, <2>1, <2>5 DEF Abstract!Stop, Phases
<1>9. ASSUME NEW s \in Session, LogoutEnds(s) PROVE Shows
  <2>1. owner[s] # None /\ cancelled' = cancelled \cup {s} /\ UNCHANGED <<netList, netCtx, self>>
    BY <1>0, <1>9 DEF LogoutEnds, Born, uiVars
  <2>2. owner[s] \in Net
    BY <1>0, <2>1 DEF TypeOK
  <2> QED
    BY <1>1, <1>2, <2>1, <2>2, CancelCloses DEF Abstract!Close, Phases
<1>10. CASE \/ OpenHub \/ CloseHub \/ DropStale
            \/ \E n \in Net : Logout(n)
            \/ \E s \in Session : \/ OnConnected(s) \/ OnDisconnected(s) \/ OnMessage(s)
                                  \/ Forward(s) \/ ForwarderEnds(s)
                                  \/ RunReturns(s) \/ PostStopped(s)
            \/ \E s \in Session, ev \in Posts : BackendPost(s, ev)
            \/ UNCHANGED vars
  <2>1. UNCHANGED <<netList, netCtx, self, cancelled>>
    BY <1>10 DEF OpenHub, CloseHub, DropStale, Logout, OnConnected, OnDisconnected, OnMessage,
       Forward, ForwarderEnds, RunReturns, PostStopped, BackendPost, uiVars, sessVars, vars
  <2> QED
    BY <1>1, <2>1, SamePhases
<1> QED
  BY <1>3, <1>4, <1>5, <1>6, <1>7, <1>8, <1>9, <1>10
  DEF Next, User, Dispatch, Goroutines

\* Sessions, channels and goroutines are the four-state network of the hub: it
\* starts only when off, and once closing it only becomes off.
THEOREM LifecycleImplemented == Spec => Abstract!SafetySpec
<1>1. IInv /\ [Next]_vars => [Abstract!Next]_(Abstract!vars)
  BY StepRefines
<1> QED
  BY InitRefines, <1>1, Invariant, PTL DEF Spec, Abstract!SafetySpec

-----------------------------------------------------------------------------
(* The rooms of the same instance: IrcRoomsProofs, read in its variables.  *)
RP == INSTANCE IrcRoomsProofs

\* The names of the two instances stand for the same things.
LEMMA RoomNames ==
    /\ RP!client = R!client
    /\ RP!net = R!net
    /\ RP!ui = R!ui
    /\ RP!calls = R!calls
    /\ RP!Calls = R!Calls
    /\ \A k, r, W : RP!Says(k, r, W) = R!Says(k, r, W)
    /\ \A r : RP!Enters(r) = R!Enters(r)
    /\ \A Q : RP!Answer(Q) <=> R!Answer(Q)
    /\ \A c, r : RP!Sent(c, r) <=> R!Sent(c, r)
    /\ RP!SendFails <=> R!SendFails
    /\ \A i, p : RP!Goes(i, p) <=> R!Goes(i, p)
  BY DEF RP!client, R!client, RP!net, R!net, RP!ui, R!ui, RP!calls, R!calls, RP!Calls, R!Calls, RP!Says,
        R!Says, RP!Enters, R!Enters, RP!Answer, R!Answer, RP!Sent, R!Sent, RP!SendFails, R!SendFails,
        RP!Goes, R!Goes

LEMMA RoomHelpers == ASSUME NEW r PROVE
    /\ RP!AnswerAll(r) <=> R!AnswerAll(r)
    /\ RP!Remember(r) <=> R!Remember(r)
    /\ RP!DropRoom(r) <=> R!DropRoom(r)
    /\ \A W : RP!AddMember(r, W) <=> R!AddMember(r, W)
    /\ \A W : RP!DropMember(r, W) <=> R!DropMember(r, W)
  BY RoomNames DEF RP!AnswerAll, R!AnswerAll, RP!Remember, R!Remember, RP!DropRoom, R!DropRoom,
        RP!AddMember, R!AddMember, RP!DropMember, R!DropMember

LEMMA RoomCallsSame == ASSUME NEW i PROVE
    /\ RP!Resolve(i) <=> R!Resolve(i)
    /\ RP!ResolveSends(i) <=> R!ResolveSends(i)
    /\ RP!Leave(i) <=> R!Leave(i)
    /\ RP!PartLocks(i) <=> R!PartLocks(i)
    /\ RP!PartSends(i) <=> R!PartSends(i)
    /\ RP!Cycle(i) <=> R!Cycle(i)
    /\ RP!CyclePart(i) <=> R!CyclePart(i)
    /\ RP!CycleJoin(i) <=> R!CycleJoin(i)
    /\ RP!Participants(i) <=> R!Participants(i)
    /\ RP!ParticipantsSends(i) <=> R!ParticipantsSends(i)
    /\ RP!Rejoin(i) <=> R!Rejoin(i)
    /\ RP!Kick(i) <=> R!Kick(i)
<1>1. RP!Resolve(i) <=> R!Resolve(i)
  BY RoomNames, RoomHelpers DEF RP!Resolve, R!Resolve, RP!client, R!client, RP!net, R!net, RP!ui, R!ui,
        RP!calls, R!calls
<1>2. RP!ResolveSends(i) <=> R!ResolveSends(i)
  BY RoomNames, RoomHelpers DEF RP!ResolveSends, R!ResolveSends, RP!client, R!client, RP!net, R!net, RP!ui,
        R!ui, RP!calls, R!calls
<1>3. RP!Leave(i) <=> R!Leave(i)
  BY RoomNames, RoomHelpers DEF RP!Leave, R!Leave, RP!client, R!client, RP!net, R!net, RP!ui, R!ui,
        RP!calls, R!calls
<1>4. RP!PartLocks(i) <=> R!PartLocks(i)
  BY RoomNames, RoomHelpers DEF RP!PartLocks, R!PartLocks, RP!client, R!client, RP!net, R!net, RP!ui, R!ui,
        RP!calls, R!calls
<1>5. RP!PartSends(i) <=> R!PartSends(i)
  BY RoomNames, RoomHelpers DEF RP!PartSends, R!PartSends, RP!client, R!client, RP!net, R!net, RP!ui, R!ui,
        RP!calls, R!calls
<1>6. RP!Cycle(i) <=> R!Cycle(i)
  BY RoomNames, RoomHelpers DEF RP!Cycle, R!Cycle, RP!client, R!client, RP!net, R!net, RP!ui, R!ui,
        RP!calls, R!calls
<1>7. RP!CyclePart(i) <=> R!CyclePart(i)
  BY RoomNames, RoomHelpers DEF RP!CyclePart, R!CyclePart, RP!client, R!client, RP!net, R!net, RP!ui, R!ui,
        RP!calls, R!calls
<1>8. RP!CycleJoin(i) <=> R!CycleJoin(i)
  BY RoomNames, RoomHelpers DEF RP!CycleJoin, R!CycleJoin, RP!client, R!client, RP!net, R!net, RP!ui, R!ui,
        RP!calls, R!calls
<1>9. RP!Participants(i) <=> R!Participants(i)
  BY RoomNames, RoomHelpers DEF RP!Participants, R!Participants, RP!client, R!client, RP!net, R!net, RP!ui,
        R!ui, RP!calls, R!calls
<1>10. RP!ParticipantsSends(i) <=> R!ParticipantsSends(i)
  BY RoomNames, RoomHelpers DEF RP!ParticipantsSends, R!ParticipantsSends, RP!client, R!client, RP!net,
        R!net, RP!ui, R!ui, RP!calls, R!calls
<1>11. RP!Rejoin(i) <=> R!Rejoin(i)
  BY RoomNames, RoomHelpers DEF RP!Rejoin, R!Rejoin, RP!client, R!client, RP!net, R!net, RP!ui, R!ui,
        RP!calls, R!calls
<1>12. RP!Kick(i) <=> R!Kick(i)
  BY RoomNames, RoomHelpers DEF RP!Kick, R!Kick, RP!client, R!client, RP!net, R!net, RP!ui, R!ui, RP!calls,
        R!calls
<1> QED
  BY <1>1, <1>2, <1>3, <1>4, <1>5, <1>6, <1>7, <1>8, <1>9, <1>10, <1>11, <1>12

LEMMA RoomServerSame == ASSUME NEW r PROVE
    /\ RP!ServerJoins(r) <=> R!ServerJoins(r)
    /\ RP!ServerParts(r) <=> R!ServerParts(r)
    /\ RP!ServerNames(r) <=> R!ServerNames(r)
<1>1. RP!ServerJoins(r) <=> R!ServerJoins(r)
  BY RoomNames, RoomHelpers DEF RP!ServerJoins, R!ServerJoins, RP!client, R!client, RP!net, R!net, RP!ui,
        R!ui, RP!calls, R!calls
<1>2. RP!ServerParts(r) <=> R!ServerParts(r)
  BY RoomNames, RoomHelpers DEF RP!ServerParts, R!ServerParts, RP!client, R!client, RP!net, R!net, RP!ui,
        R!ui, RP!calls, R!calls
<1>3. RP!ServerNames(r) <=> R!ServerNames(r)
  BY RoomNames, RoomHelpers DEF RP!ServerNames, R!ServerNames, RP!client, R!client, RP!net, R!net, RP!ui,
        R!ui, RP!calls, R!calls
<1> QED
  BY <1>1, <1>2, <1>3

LEMMA RoomLinesSame == ASSUME NEW r PROVE
    /\ RP!OnSelfJoin(r) <=> R!OnSelfJoin(r)
    /\ RP!OnSelfOut(r) <=> R!OnSelfOut(r)
    /\ RP!OnChannelError(r) <=> R!OnChannelError(r)
<1>1. RP!OnSelfJoin(r) <=> R!OnSelfJoin(r)
  BY RoomNames, RoomHelpers DEF RP!OnSelfJoin, R!OnSelfJoin, RP!client, R!client, RP!net, R!net, RP!ui,
        R!ui, RP!calls, R!calls
<1>2. RP!OnSelfOut(r) <=> R!OnSelfOut(r)
  BY RoomNames, RoomHelpers DEF RP!OnSelfOut, R!OnSelfOut, RP!client, R!client, RP!net, R!net, RP!ui, R!ui,
        RP!calls, R!calls
<1>3. RP!OnChannelError(r) <=> R!OnChannelError(r)
  BY RoomNames, RoomHelpers DEF RP!OnChannelError, R!OnChannelError, RP!client, R!client, RP!net, R!net,
        RP!ui, R!ui, RP!calls, R!calls
<1> QED
  BY <1>1, <1>2, <1>3

LEMMA RoomMembersSame == ASSUME NEW r, NEW W PROVE
    /\ RP!OnOtherIn(r, W) <=> R!OnOtherIn(r, W)
    /\ RP!OnOtherOut(r, W) <=> R!OnOtherOut(r, W)
    /\ RP!OnEndOfNames(r, W) <=> R!OnEndOfNames(r, W)
    /\ RP!Moves(r, W) <=> R!Moves(r, W)
  BY RoomNames, RoomHelpers DEF RP!OnOtherIn, R!OnOtherIn, RP!OnOtherOut, R!OnOtherOut, RP!OnEndOfNames,
        R!OnEndOfNames, RP!Moves, R!Moves, RP!client, R!client, RP!ui, R!ui, RP!calls, R!calls

LEMMA RoomStepsSame ==
    /\ RP!SaveConfig <=> R!SaveConfig
    /\ RP!Connected <=> R!Connected
    /\ RP!ResetConn <=> R!ResetConn
    /\ RP!Drop <=> R!Drop
    /\ RP!Read <=> R!Read
    /\ RP!ServerTakes <=> R!ServerTakes
<1>1. RP!SaveConfig <=> R!SaveConfig
  BY RoomNames DEF RP!SaveConfig, R!SaveConfig, RP!client, R!client, RP!calls, R!calls, RP!net, R!net
<1>2. RP!Connected <=> R!Connected
  BY RoomNames DEF RP!Connected, R!Connected, RP!ui, R!ui, RP!client, R!client
<1>3. RP!ResetConn <=> R!ResetConn
  BY RoomNames DEF RP!ResetConn, R!ResetConn, RP!calls, R!calls
<1>4. RP!Drop <=> R!Drop
  BY RoomNames DEF RP!Drop, R!Drop, RP!client, R!client, RP!ui, R!ui, RP!calls, R!calls
<1>5. RP!Read <=> R!Read
  BY RoomLinesSame, RoomMembersSame DEF RP!Read, R!Read, RP!calls, R!calls
<1>6. RP!ServerTakes <=> R!ServerTakes
  BY RoomServerSame DEF RP!ServerTakes, R!ServerTakes, RP!client, R!client, RP!calls, R!calls
<1> QED
  BY <1>1, <1>2, <1>3, <1>4, <1>5, <1>6

LEMMA RoomsSame == (RP!Init <=> R!Init) /\ (RP!Next <=> R!Next)
<1>1. RP!Init <=> R!Init
  BY RoomNames DEF RP!Init, R!Init
<1>2. RP!User <=> R!User
  BY RoomCallsSame DEF RP!User, R!User
<1>3. RP!Goroutines <=> R!Goroutines
  BY RoomCallsSame DEF RP!Goroutines, R!Goroutines
<1>4. RP!Callbacks <=> R!Callbacks
  BY RoomCallsSame, RoomStepsSame DEF RP!Callbacks, R!Callbacks
<1>5. RP!Others <=> R!Others
  BY RoomCallsSame, RoomMembersSame, RoomStepsSame DEF RP!Others, R!Others
<1> QED
  BY <1>1, <1>2, <1>3, <1>4, <1>5, RoomStepsSame DEF RP!Next, R!Next

\* RoomLists for any rooms, people, calls and bounds: every Resolve of IRC is
\* answered once, the lists of members end as those of the server, and the
\* rooms we are in are saved (irc/client.go, ops.go, handlers.go).
THEOREM RoomListsAlways == NetRoomsSpec => []RoomLists
<1>1. RP!RoomsAssumption /\ RP!CallsAssumption
  BY MCNetRoomsAssumption DEF R!RoomsAssumption, RP!RoomsAssumption, R!CallsAssumption, RP!CallsAssumption
<1>2. NetRoomsInit => RP!Init
  BY RoomsSame DEF NetRoomsInit
<1>3. [SessionsGo \/ RoomsGo]_<<part, vars, roomVars>> => [RP!Next]_RP!vars
  <2>1. SessionsGo \/ RoomsGo \/ UNCHANGED <<part, vars, roomVars>> => R!Next \/ UNCHANGED roomVars
    BY DEF SessionsGo, RoomsGo
  <2>2. UNCHANGED roomVars => UNCHANGED RP!vars
    BY DEF roomVars, RP!vars, RP!client, RP!calls, RP!net, RP!ui
  <2> QED
    BY <2>1, <2>2, RoomsSame
<1>4. RP!RoomsRight => RoomLists
  <2>1. RP!Settled <=> R!Settled
    BY RoomNames DEF RP!Settled, R!Settled
  <2> QED
    BY <2>1 DEF RP!RoomsRight, R!RoomsRight, RP!AnsweredOnce, R!AnsweredOnce, RP!MembersRight, R!MembersRight,
                RP!RoomsSaved, R!RoomsSaved, RoomLists
<1>5. NetRoomsSpec => RP!Spec
  BY <1>2, <1>3, PTL DEF NetRoomsSpec, RP!Spec
<1>6. RP!Spec => []RP!RoomsRight
  BY <1>1, RP!RoomsRightAlways
<1> QED
  BY <1>4, <1>5, <1>6, PTL
=============================================================================
