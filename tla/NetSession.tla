----------------------------- MODULE NetSession -----------------------------
(***************************************************************************)
(* The life of a network in the UI: launch, events, stop, and launch again *)
(* (internal/ui: ui.go, launch.go, host.go, hub.go, account.go).           *)
(*                                                                         *)
(* Four kinds of goroutines share it.                                      *)
(*   - The UI goroutine owns the maps nets, netCancel, netCtx (always set  *)
(*     and deleted together: netCtx stands for the three), conn, self,     *)
(*     accountID, chatList, hub and hubReturn.  Its handlers are atomic.   *)
(*   - The goroutine of Run of each backend.  When Run returns, it puts an *)
(*     EvStopped straight into the channel of the UI, past the events that *)
(*     still wait in the backend's own channel.                            *)
(*   - The forwarder of each backend, from its channel (raw) to the one of *)
(*     the UI (envs), until the context of the session is cancelled.       *)
(*   - The goroutine of a logout, which cancels when the server answered.  *)
(*                                                                         *)
(* A session is one launch of a network: the context made by startNet and  *)
(* carried by every envelope.  The event a forwarder holds in its hand     *)
(* counts as the head of raw.  Quitting the program ends every goroutine   *)
(* with the process and is not modelled.                                   *)
(***************************************************************************)
EXTENDS Naturals, Sequences

CONSTANTS
    Net,            \* network names
    Session,        \* launches: a fresh one for each startNet that succeeds
    Account,        \* accounts a login can end up on
    None,           \* no session, no account, no network
    RawCap,         \* room of the channel of a backend (256 in the code)
    EnvCap,         \* room of the channel of the UI (256 in the code)
    LogoutNets,     \* networks whose backend is a Logouter
    RemovableNets,  \* networks of a module that is a Remover (IRC)
    HistoryNets,    \* networks with Caps.History: account changes are checked
    EarlyNets,      \* networks that may post a message before EvReady (Discord
                    \* hangs its handlers before it opens the gateway)
    Posts           \* the events the backends of the instance post

BackendEvent == {"ready", "connected", "disconnected", "message"}

ASSUME NetSessionAssumption ==
    /\ None \notin Net \cup Session \cup Account
    /\ RawCap \in Nat \ {0}
    /\ EnvCap \in Nat \ {0}
    /\ LogoutNets \subseteq Net
    /\ RemovableNets \subseteq Net
    /\ HistoryNets \subseteq Net
    /\ EarlyNets \subseteq Net
    /\ Posts \subseteq BackendEvent

VARIABLES
    \* the UI goroutine
    netList,        \* the configured networks
    netCtx,         \* Net -> its session, None: not in u.nets
    conn,           \* Net -> connected
    self,           \* Net -> account of the last EvReady, None once stopped
    account,        \* Net -> accountID, cacheSelf before the first EvReady
    chats,          \* chatList: the network and the account a chat came from
    hub,            \* the Networks box is open
    hubReturn,      \* networks that bring the box back
    \* the sessions
    owner,          \* Session -> its network, None: not launched yet
    acct,           \* Session -> the account it logs in
    cancelled,      \* sessions whose context is done
    loggingOut,     \* sessions with a logout in flight
    run,            \* Session -> progress of the goroutine of Run
    ready,          \* sessions that have posted EvReady
    forwarding,     \* sessions whose forwarder is there
    raw,            \* Session -> the channel of the backend
    envs            \* the channel of the UI

uiVars == <<netList, netCtx, conn, self, account, chats, hub, hubReturn>>
sessVars == <<owner, acct, cancelled, loggingOut, run, ready, forwarding, raw>>
vars == <<netList, netCtx, conn, self, account, chats, hub, hubReturn,
          owner, acct, cancelled, loggingOut, run, ready, forwarding, raw, envs>>

Envelope == [session : Session, ev : BackendEvent \cup {"stopped"}]
RunState == {"unborn", "running", "returned", "gone"}

TypeOK ==
    /\ netList \in SUBSET Net
    /\ netCtx \in [Net -> Session \cup {None}]
    /\ conn \in [Net -> BOOLEAN]
    /\ self \in [Net -> Account \cup {None}]
    /\ account \in [Net -> Account \cup {None}]
    /\ chats \in SUBSET (Net \X Account)
    /\ hub \in BOOLEAN
    /\ hubReturn \in SUBSET Net
    /\ owner \in [Session -> Net \cup {None}]
    /\ acct \in [Session -> Account \cup {None}]
    /\ cancelled \in SUBSET Session
    /\ loggingOut \in SUBSET Session
    /\ run \in [Session -> RunState]
    /\ ready \in SUBSET Session
    /\ forwarding \in SUBSET Session
    /\ raw \in [Session -> Seq(BackendEvent)]
    /\ envs \in Seq(Envelope)

(***************************************************************************)
(* newUI.  A network may have a cache, written by an account: its chats    *)
(* are listed before any login.  The starts of newUI are Login steps.      *)
(***************************************************************************)
Init ==
    /\ netList \in SUBSET Net
    /\ netCtx = [n \in Net |-> None]
    /\ conn = [n \in Net |-> FALSE]
    /\ self = [n \in Net |-> None]
    /\ account \in [Net -> Account \cup {None}]
    /\ \A n \in Net \ netList : account[n] = None
    /\ chats = {c \in Net \X Account : account[c[1]] = c[2]}
    /\ hub = (netList = {})
    /\ hubReturn = {}
    /\ owner = [s \in Session |-> None]
    /\ acct = [s \in Session |-> None]
    /\ cancelled = {}
    /\ loggingOut = {}
    /\ run = [s \in Session |-> "unborn"]
    /\ ready = {}
    /\ forwarding = {}
    /\ raw = [s \in Session |-> <<>>]
    /\ envs = <<>>

-----------------------------------------------------------------------------
(* Operations of the UI goroutine.                                         *)

\* Sessions are interchangeable: a launch takes this one of the unused.
Fresh == CHOOSE s \in Session : owner[s] = None

\* startNet that succeeds: the launcher made a backend, its Run and its
\* forwarder run.  A launch that fails (a token command) leaves no trace.
Launch(n) ==
    \E s \in Session, a \in Account :
        /\ owner[s] = None
        /\ s = Fresh
        /\ netCtx' = [netCtx EXCEPT ![n] = s]
        /\ owner' = [owner EXCEPT ![s] = n]
        /\ acct' = [acct EXCEPT ![s] = a]
        /\ run' = [run EXCEPT ![s] = "running"]
        /\ forwarding' = forwarding \cup {s}
        /\ UNCHANGED <<cancelled, loggingOut, ready, raw>>

\* A mutated MayStart: the network counts as stopped as soon as the stop is
\* asked for.
MayStartWhenCancelled(n) == netCtx[n] = None \/ netCtx[n] \in cancelled

\* The test of startNet: a network in u.nets is not started again.
MayStart(n) == netCtx[n] = None

\* /<net> login, and the start of newUI.
Login(n) ==
    /\ ~hub
    /\ n \in netList
    /\ MayStart(n)
    /\ Launch(n)
    /\ UNCHANGED <<netList, conn, self, account, chats, hub, hubReturn, envs>>

\* "Connect" of the box: it closes, and comes back with the network.  A start
\* that fails reopens it at once (hubLaunched): nothing changed.
HubConnect(n) ==
    /\ hub
    /\ n \in netList
    /\ MayStart(n)
    /\ Launch(n)
    /\ hub' = FALSE
    /\ hubReturn' = hubReturn \cup {n}
    /\ UNCHANGED <<netList, conn, self, account, chats, envs>>

\* Host.AddNetwork: the network is listed, then started.  From the box, the
\* box closes and the network brings it back; a start that fails leaves no
\* backend and reopens it; a backend that still stops makes startNet refuse.
AddNetwork(n) ==
    /\ n \notin netList
    /\ netList' = netList \cup {n}
    /\ \/ /\ MayStart(n)
          /\ Launch(n)
          /\ hub' = FALSE
          /\ hubReturn' = IF hub THEN hubReturn \cup {n} ELSE hubReturn
       \/ /\ MayStart(n)
          /\ hubReturn' = IF hub THEN hubReturn \ {n} ELSE hubReturn
          /\ UNCHANGED <<hub, netCtx, sessVars>>
       \/ /\ ~MayStart(n)
          /\ hub' = FALSE
          /\ hubReturn' = IF hub THEN hubReturn \cup {n} ELSE hubReturn
          /\ UNCHANGED <<netCtx, sessVars>>
    /\ UNCHANGED <<conn, self, account, chats, envs>>

ChatsOf(n) == {c \in chats : c[1] = n}

\* A mutated Stop: stopNet without its test of u.nets.
StopUnchecked(n) == cancelled' = cancelled \cup {netCtx[n]}

\* stopNet without logout: the context of a network that is up is cancelled.
\* The network stays in u.nets until the EvStopped of its Run.
Stop(n) ==
    IF netCtx[n] # None
    THEN cancelled' = cancelled \cup {netCtx[n]}
    ELSE UNCHANGED cancelled

Disconnect(n) ==
    /\ n \in netList
    /\ Stop(n)
    /\ UNCHANGED <<uiVars, owner, acct, loggingOut, run, ready, forwarding, raw, envs>>

\* stopNet with logout on a Logouter: a goroutine asks the server first.
Logout(n) ==
    /\ n \in netList \cap LogoutNets
    /\ netCtx[n] # None
    /\ loggingOut' = loggingOut \cup {netCtx[n]}
    /\ UNCHANGED <<uiVars, owner, acct, cancelled, run, ready, forwarding, raw, envs>>

\* Host.RemoveNetwork: the stop is asked for, the network leaves the list, its
\* chats and windows go now.
RemoveNetwork(n) ==
    /\ n \in netList \cap RemovableNets
    /\ Stop(n)
    /\ netList' = netList \ {n}
    /\ chats' = chats \ ChatsOf(n)
    /\ UNCHANGED <<netCtx, conn, self, account, hub, hubReturn,
                   owner, acct, loggingOut, run, ready, forwarding, raw, envs>>

OpenHub ==
    /\ ~hub
    /\ hub' = TRUE
    /\ UNCHANGED <<netList, netCtx, conn, self, account, chats, hubReturn, sessVars, envs>>

CloseHub ==
    /\ hub
    /\ hub' = FALSE
    /\ UNCHANGED <<netList, netCtx, conn, self, account, chats, hubReturn, sessVars, envs>>

-----------------------------------------------------------------------------
(* dispatch: the head of the channel of the UI, and the case of event.     *)

\* A mutated Current: the envelope is matched by network, not by session.
CurrentByName(s) == netCtx[owner[s]] # None

\* Another: no check at all.
CurrentAnyway(s) == TRUE

\* The guard of dispatch: the envelope is of the session the network runs now.
Current(s) == netCtx[owner[s]] = s

\* Head of the channel, for an event the UI takes.
Takes(s, ev) ==
    /\ envs # <<>>
    /\ Head(envs) = [session |-> s, ev |-> ev]
    /\ Current(s)
    /\ envs' = Tail(envs)

\* hubBack: the network brings the box back, once.
HubBack(n) ==
    /\ hub' = (hub \/ n \in hubReturn)
    /\ hubReturn' = hubReturn \ {n}

DropStale ==
    /\ envs # <<>>
    /\ ~Current(Head(envs).session)
    /\ envs' = Tail(envs)
    /\ UNCHANGED <<uiVars, sessVars>>

\* The chats left when n is ready as account a: dropCache drops those of the
\* account that was there before, where the server keeps the history.
AfterAccount(n, a) ==
    IF account[n] \in {None, a} \/ n \notin HistoryNets
    THEN chats ELSE chats \ ChatsOf(n)

OnReady(s) ==
    LET n == owner[s] IN
    /\ Takes(s, "ready")
    /\ chats' = AfterAccount(n, acct[s])
    /\ account' = [account EXCEPT ![n] = acct[s]]
    /\ self' = [self EXCEPT ![n] = acct[s]]
    /\ HubBack(n)
    /\ UNCHANGED <<netList, netCtx, conn, sessVars>>

OnConnected(s) ==
    /\ Takes(s, "connected")
    /\ conn' = [conn EXCEPT ![owner[s]] = TRUE]
    /\ UNCHANGED <<netList, netCtx, self, account, chats, hub, hubReturn, sessVars>>

OnDisconnected(s) ==
    /\ Takes(s, "disconnected")
    /\ conn' = [conn EXCEPT ![owner[s]] = FALSE]
    /\ UNCHANGED <<netList, netCtx, self, account, chats, hub, hubReturn, sessVars>>

\* EvNewMessage and EvDialogs: the chat enters the list when it is not there.
OnMessage(s) ==
    /\ Takes(s, "message")
    /\ chats' = chats \cup {<<owner[s], acct[s]>>}
    /\ UNCHANGED <<netList, netCtx, conn, self, account, hub, hubReturn, sessVars>>

\* What EvStopped deletes from the maps of the UI.
ForgetNet(n) ==
    /\ netCtx' = [netCtx EXCEPT ![n] = None]
    /\ self' = [self EXCEPT ![n] = None]
    /\ conn' = [conn EXCEPT ![n] = FALSE]

\* EvStopped: the context is cancelled (it frees the forwarder of a Run that
\* ended on its own), the network leaves the maps, and may be started again.
OnStopped(s) ==
    /\ Takes(s, "stopped")
    /\ cancelled' = cancelled \cup {s}
    /\ ForgetNet(owner[s])
    /\ HubBack(owner[s])
    /\ UNCHANGED <<netList, account, chats,
                   owner, acct, loggingOut, run, ready, forwarding, raw>>

Dispatch ==
    \/ DropStale
    \/ \E s \in Session :
        OnReady(s) \/ OnConnected(s) \/ OnDisconnected(s) \/ OnMessage(s) \/ OnStopped(s)

-----------------------------------------------------------------------------
(* The other goroutines.                                                   *)

\* Logout came back, with an error or not: the context is cancelled anyway.
LogoutEnds(s) ==
    /\ s \in loggingOut
    /\ loggingOut' = loggingOut \ {s}
    /\ cancelled' = cancelled \cup {s}
    /\ UNCHANGED <<uiVars, owner, acct, run, ready, forwarding, raw, envs>>

\* Poster.Post of a backend goroutine; past the end of the forwarder nobody
\* reads what is posted.  EvReady comes from Run, once.
BackendPost(s, ev) ==
    /\ run[s] # "unborn"
    /\ s \in forwarding
    /\ Len(raw[s]) < RawCap
    /\ ev = "ready" => s \notin ready /\ run[s] = "running"
    /\ ev = "message" => s \in ready \/ owner[s] \in EarlyNets
    /\ raw' = [raw EXCEPT ![s] = Append(@, ev)]
    /\ ready' = IF ev = "ready" THEN ready \cup {s} ELSE ready
    /\ UNCHANGED <<uiVars, owner, acct, cancelled, loggingOut, run, forwarding, envs>>

\* The forwarder: the select takes an event, or the end of the context, as it
\* likes when both are there.
Forward(s) ==
    /\ s \in forwarding
    /\ raw[s] # <<>>
    /\ Len(envs) < EnvCap
    /\ envs' = Append(envs, [session |-> s, ev |-> Head(raw[s])])
    /\ raw' = [raw EXCEPT ![s] = Tail(@)]
    /\ UNCHANGED <<uiVars, owner, acct, cancelled, loggingOut, run, ready, forwarding>>

ForwarderEnds(s) ==
    /\ s \in forwarding \cap cancelled
    /\ forwarding' = forwarding \ {s}
    /\ raw' = [raw EXCEPT ![s] = <<>>]
    /\ UNCHANGED <<uiVars, owner, acct, cancelled, loggingOut, run, ready, envs>>

\* Run returns: the context ended, or the network did.
RunReturns(s) ==
    /\ run[s] = "running"
    /\ run' = [run EXCEPT ![s] = "returned"]
    /\ UNCHANGED <<uiVars, owner, acct, cancelled, loggingOut, ready, forwarding, raw, envs>>

\* A mutated StoppedGoes: the EvStopped gives up on the context of the session,
\* like every other event.
StoppedGoesUnlessCancelled(s) ==
    IF s \in cancelled THEN UNCHANGED envs
    ELSE /\ Len(envs) < EnvCap
         /\ envs' = Append(envs, [session |-> s, ev |-> "stopped"])

\* The deferred send of EvStopped waits for room, whatever the session became.
StoppedGoes(s) ==
    /\ Len(envs) < EnvCap
    /\ envs' = Append(envs, [session |-> s, ev |-> "stopped"])

PostStopped(s) ==
    /\ run[s] = "returned"
    /\ StoppedGoes(s)
    /\ run' = [run EXCEPT ![s] = "gone"]
    /\ UNCHANGED <<uiVars, owner, acct, cancelled, loggingOut, ready, forwarding, raw>>

-----------------------------------------------------------------------------
User ==
    \/ OpenHub \/ CloseHub
    \/ \E n \in Net :
        \/ Login(n) \/ HubConnect(n) \/ AddNetwork(n)
        \/ Disconnect(n) \/ Logout(n) \/ RemoveNetwork(n)

Goroutines ==
    \E s \in Session :
        \/ LogoutEnds(s) \/ Forward(s) \/ ForwarderEnds(s)
        \/ RunReturns(s) \/ PostStopped(s)
        \/ \E ev \in Posts : BackendPost(s, ev)

Next == User \/ Dispatch \/ Goroutines

(***************************************************************************)
(* Fairness.  The UI drains its channel.  The goroutine of Run is only     *)
(* bound to return once its context is done.  Sends wait in the queue of   *)
(* the channel, first come first served, so a send that is again and again *)
(* possible happens (strong fairness).  Users and servers promise nothing. *)
(***************************************************************************)
Fairness ==
    /\ WF_vars(Dispatch)
    /\ \A s \in Session :
        /\ WF_vars(s \in cancelled /\ RunReturns(s))
        /\ SF_vars(PostStopped(s))

Spec == Init /\ [][Next]_vars
FairSpec == Spec /\ Fairness

-----------------------------------------------------------------------------
(* Properties.                                                             *)

Alive(s) == run[s] \in {"running", "returned"}
StoppedQueued(s) == \E i \in DOMAIN envs : envs[i] = [session |-> s, ev |-> "stopped"]

\* Two backends of one network never run at the same time, the time of a slow
\* stop included: the same account would be connected twice, the same session
\* file and the same IRC nick used by two goroutines.
OneBackend ==
    \A s, t \in Session : Alive(s) /\ Alive(t) /\ owner[s] = owner[t] => s = t

\* A network in u.nets always has a goroutine of Run, or the EvStopped of it in
\* the channel: it can never stay "up" with nothing left to take it out, which
\* would make every later /<net> login answer "already up".
NeverStranded ==
    \A n \in Net : netCtx[n] # None => Alive(netCtx[n]) \/ StoppedQueued(netCtx[n])

\* No trace of a network outlives it: an EvConnected or an EvReady of a session
\* that is over, still in a channel at its EvStopped, does not bring the status
\* bar, the account or the return of the Networks box back to life.
DeadIsDead ==
    \A n \in Net : netCtx[n] = None => ~conn[n] /\ self[n] = None /\ n \notin hubReturn

\* The chats of a network whose account is known are those of that account: a
\* login under another account, after any number of stops and starts and with
\* events of older sessions still on their way, leaves no chat of the first.
\* (Networks whose server keeps the history: an IRC "account" is a nick.  A
\* backend that posts messages before EvReady can leave one: its session may
\* end between the two.)
ChatsOfAccount ==
    \A c \in chats :
        c[1] \in HistoryNets \ EarlyNets /\ self[c[1]] # None => self[c[1]] = c[2]

\* The doc of RemoveNetwork: "the network stops, its chats and windows go, and
\* the list forgets it".  A network that is not configured has no chat.
RemovedHasNoChat == \A c \in chats : c[1] \in netList

\* A stop asked for (disconnect, logout that came back, removal) ends: the
\* network leaves u.nets, whatever the backend posts meanwhile and however full
\* the channels are.
\* (A session launched once never runs again: infinitely often out is out.)
StopEnds ==
    []<>(\A s \in Session : s \in cancelled /\ owner[s] # None => \A n \in Net : netCtx[n] # s)

PhaseOf(n) ==
    IF netCtx[n] = None THEN "off"
    ELSE IF netCtx[n] \in cancelled THEN "closing"
    ELSE IF self[n] # None THEN "ready"
    ELSE "starting"

\* The goroutines and the channels implement the four states the Networks box
\* shows and acts on.
Abstract == INSTANCE NetLifecycle WITH listed <- netList, phase <- [n \in Net |-> PhaseOf(n)]
Lifecycle == Abstract!Spec
=============================================================================
