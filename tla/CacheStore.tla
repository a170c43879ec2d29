------------------------------ MODULE CacheStore ------------------------------
(***************************************************************************)
(* The disk cache of one network: what the windows show, what waits to be  *)
(* written, and what the files hold (internal/ui/cache.go, menu.go,        *)
(* commands.go, internal/cache).                                           *)
(*                                                                         *)
(* The UI goroutine owns the windows, the marks of what changed (dirty)    *)
(* and the sync queue; its handlers are atomic.  The writes of a flush run *)
(* one after the other in the background (bg): jobs is their chain.  A     *)
(* handler that waits for the chain (bgWait) is taken when it is empty.    *)
(* The process may be killed between any two steps; a file is written      *)
(* whole or not at all (WriteAtomic).                                      *)
(*                                                                         *)
(* A message is its id; a copy of it has the version of the server (edits, *)
(* deletions) it was read at, and the account that read it.                *)
(***************************************************************************)
EXTENDS Naturals, Sequences, FiniteSets

CONSTANTS
    Chat,           \* chats of the network, the same for every account
    Account,        \* accounts that may log in
    None,           \* no account, no chat, no window, no file
    Asked,          \* an answer the server has not made yet
    Plans,          \* the behaviours of the instance: see Plan
    MaxId,          \* bound: messages of a chat
    MaxVersion,     \* bound: edits of a message
    MaxJobs,        \* bound: writes that wait in the chain
    Cap             \* messages kept in a file (cache_messages)

\* history: the server keeps the history (Caps.History), and the cache is not
\* the only copy (KeepOld).  sync: Caps.Sync.  early: messages before EvReady.
Kind == [history : BOOLEAN, sync : BOOLEAN, early : BOOLEAN]

Deed == {"start", "login", "dialogs", "post", "miss", "edit", "page",
         "clear", "close", "leave", "fail", "kill"}

\* A behaviour: the network, and how often at most each deed is done.
Plan == [net : Kind, times : [Deed -> Nat]]

\* The content of a window or of a file: copies of messages, by id.
Id == 1 .. MaxId
Copy == [by : Account, version : 0 .. MaxVersion]
Messages == UNION {[S -> Copy] : S \in SUBSET Id}

ASSUME CacheStoreAssumption ==
    /\ None \notin Account \cup Chat
    /\ None \notin Messages /\ Asked \notin Messages \cup {None}
    /\ None \notin [chat : Chat, after : 0 .. MaxId] \cup [self : Account, chats : SUBSET Chat]
    /\ Plans \subseteq Plan
    /\ IsFiniteSet(Chat)
    /\ MaxId \in Nat /\ MaxVersion \in Nat /\ MaxJobs \in Nat
    /\ Cap \in Nat \ {0}

VARIABLES
    plan,           \* the plan of the behaviour
    left,           \* what is left of its deeds
    server,         \* Chat -> versions of its messages, in order
    \* the disk
    file,           \* Chat -> its history file, or None
    dialogs,        \* dialogs.gob: the account and its chats, or None
    \* the process
    up,             \* it runs
    jobs,           \* the chain of background writes
    \* the UI goroutine
    login,          \* account of the running session, None: not in u.nets
    self,           \* account of its EvReady, None before it and once stopped
    account,        \* accountID: the last EvReady of the process
    cacheSelf,      \* account of the dialogs read at start
    listed,         \* chatList
    window,         \* Chat -> messages of its window, or None
    dirty,          \* chats to write at the next flush
    dialogsDirty,
    seenDialogs,    \* dialogsSeen: a first list came in this session
    queue,          \* syncQueue
    cur,            \* syncCur and the id its request starts from, or None
    page,           \* the answer of that request; None: none will come
    gone,           \* chats dropped, and not seen again since
    unlisted        \* history: a session was over before its list of chats came

diskVars == <<file, dialogs>>
syncVars == <<queue, cur, page>>
sessVars == <<login, self, account, cacheSelf, seenDialogs>>
uiVars == <<listed, window, dirty, dialogsDirty, gone>>
net == plan.net
vars == <<plan, left, server, file, dialogs, up, jobs, login, self, account, cacheSelf,
          listed, window, dirty, dialogsDirty, seenDialogs, queue, cur, page, gone, unlisted>>

Empty == [i \in {} |-> 0]
Job == [kind : {"history"}, chat : Chat, msgs : Messages]
       \cup [kind : {"dialogs"}, self : Account, chats : SUBSET Chat]

TypeOK ==
    /\ plan \in Plans
    /\ left \in [Deed -> Nat]
    /\ server \in [Chat -> Seq(0 .. MaxVersion)]
    /\ file \in [Chat -> Messages \cup {None}]
    /\ dialogs \in [self : Account, chats : SUBSET Chat] \cup {None}
    /\ up \in BOOLEAN
    /\ jobs \in Seq(Job)
    /\ {login, self, account, cacheSelf} \subseteq Account \cup {None}
    /\ listed \in SUBSET Chat
    /\ window \in [Chat -> Messages \cup {None}]
    /\ dirty \in SUBSET Chat
    /\ dialogsDirty \in BOOLEAN
    /\ seenDialogs \in BOOLEAN
    /\ queue \in SUBSET Chat
    /\ cur \in [chat : Chat, after : 0 .. MaxId] \cup {None}
    /\ page \in Messages \cup {None, Asked}
    /\ gone \in SUBSET Chat
    /\ unlisted \in BOOLEAN

\* One deed of the plan.
Spend(d) ==
    /\ left[d] > 0
    /\ left' = [left EXCEPT ![d] = @ - 1]

-----------------------------------------------------------------------------
(* Messages.                                                               *)

\* A mutated Merge: the window replaces the file.
MergeReplace(old, fresh) == fresh

\* mergeHistory: no double, and the fresh copy wins.
Merge(old, fresh) ==
    [i \in DOMAIN old \cup DOMAIN fresh |-> IF i \in DOMAIN fresh THEN fresh[i] ELSE old[i]]

\* SaveHistory keeps the last Cap messages.
Kept(msgs) ==
    [i \in {j \in DOMAIN msgs : Cardinality({k \in DOMAIN msgs : k > j}) < Cap} |-> msgs[i]]

\* LoadHistory: no file reads as no message.
Load(f) == IF f = None THEN Empty ELSE f

\* saveMerged, on the content of a file.
Saved(f, msgs) == Kept(Merge(Load(f), msgs))

\* The messages of a chat the server gives to the account of the session.
FromServer(c, ids) == [i \in ids |-> [by |-> login, version |-> server[c][i]]]

\* LastID of a window, and of a file: 0 with no message.
LastId(msgs) ==
    IF DOMAIN msgs = {} THEN 0 ELSE CHOOSE i \in DOMAIN msgs : \A j \in DOMAIN msgs : i >= j

\* bindChat on a window that is not there: the file plays in it.
Bound(w, f) == IF w = None THEN Load(f) ELSE w

-----------------------------------------------------------------------------
Init ==
    /\ plan \in Plans
    /\ left = plan.times
    /\ server = [c \in Chat |-> <<>>]
    /\ file = [c \in Chat |-> None]
    /\ dialogs = None
    /\ up = FALSE
    /\ jobs = <<>>
    /\ login = None /\ self = None /\ account = None /\ cacheSelf = None
    /\ listed = {}
    /\ window = [c \in Chat |-> None]
    /\ dirty = {}
    /\ dialogsDirty = FALSE
    /\ seenDialogs = FALSE
    /\ queue = {} /\ cur = None /\ page = None
    /\ gone = {} /\ unlisted = FALSE

-----------------------------------------------------------------------------
(* The process.                                                            *)

\* The history files after Archive: with none there is nothing to keep.
Archive ==
    IF \E c \in Chat : file[c] # None
    THEN file' = [c \in Chat |-> None] /\ dialogs' = None
    ELSE UNCHANGED diskVars

\* dialogs.gob is missing, or lists nothing.
NoDialogs == dialogs # None => dialogs.chats = {}

\* loadCache.  The recently active chats get a window.
Start ==
    /\ ~up
    /\ Spend("start")
    /\ up' = TRUE
    /\ \/ /\ ~NoDialogs
          /\ cacheSelf' = dialogs.self
          /\ listed' = dialogs.chats
          /\ \E recent \in SUBSET dialogs.chats :
                window' = [c \in Chat |-> IF c \in recent THEN Load(file[c]) ELSE None]
          /\ UNCHANGED diskVars
       \/ /\ NoDialogs
          /\ IF net.history THEN Archive ELSE UNCHANGED diskVars
          /\ UNCHANGED <<cacheSelf, listed, window>>
    /\ UNCHANGED <<plan, unlisted, server, jobs, login, self, account, dirty, dialogsDirty,
                   seenDialogs, syncVars, gone>>

\* What is left of a process that ended: the disk.
Ends ==
    /\ up' = FALSE
    /\ jobs' = <<>>
    /\ login' = None /\ self' = None /\ account' = None /\ cacheSelf' = None
    /\ listed' = {}
    /\ window' = [c \in Chat |-> None]
    /\ dirty' = {}
    /\ dialogsDirty' = FALSE
    /\ seenDialogs' = FALSE
    /\ queue' = {} /\ cur' = None /\ page' = None
    /\ gone' = {}
    /\ UNCHANGED <<plan, unlisted, server>>

\* A mutated ChainDone: the final snapshot does not wait for older writes.
ChainAnyway == TRUE

\* bgWait.Wait: the UI goes on when no write is in flight.
ChainDone == jobs = <<>>

\* The chats a flush writes: dirty, with a window that shows messages.
ToWrite == {c \in dirty : window[c] \notin {None, Empty}}

\* flushCache(true), on the way out.
Quit ==
    /\ up
    /\ ChainDone
    /\ file' = [c \in Chat |-> IF c \in ToWrite THEN Saved(file[c], window[c]) ELSE file[c]]
    /\ dialogs' = IF dialogsDirty /\ self # None
                  THEN [self |-> self, chats |-> listed] ELSE dialogs
    /\ Ends
    /\ UNCHANGED left

\* A kill -9, or the power.
Kill ==
    /\ up
    /\ Spend("kill")
    /\ Ends
    /\ UNCHANGED diskVars

-----------------------------------------------------------------------------
(* The chain of writes.                                                    *)

DialogsJob(chats) == [kind |-> "dialogs", self |-> self, chats |-> chats]
HistoryJob(c) == [kind |-> "history", chat |-> c, msgs |-> window[c]]

\* A mutated SaveDialogs: whoever we are.
SaveDialogsAnyway(chats) == Append(jobs, DialogsJob(chats))

\* saveDialogs: nothing is written before the network says who we are.
SaveDialogs(chats) == IF self = None THEN jobs ELSE Append(jobs, DialogsJob(chats))

\* flushCache(false) of the tick: snapshots, in the order of the changes.
Flush ==
    /\ up
    /\ dirty # {} \/ dialogsDirty
    /\ Len(jobs) + Cardinality(dirty) < MaxJobs
    /\ dialogsDirty' = FALSE
    /\ dirty' = {}
    /\ \E order \in [1 .. Cardinality(ToWrite) -> ToWrite] :
        /\ \A c \in ToWrite : \E k \in DOMAIN order : order[k] = c
        /\ jobs' = (IF dialogsDirty THEN SaveDialogs(listed) ELSE jobs)
                   \o [k \in DOMAIN order |-> HistoryJob(order[k])]
    /\ UNCHANGED <<plan, unlisted, left, server, diskVars, up, sessVars, listed, window, syncVars, gone>>

\* A mutated NextJob: the writes are not chained.
AnyJob == DOMAIN jobs

\* The write whose turn it is: each waits for the one before it.
NextJob == IF jobs = <<>> THEN {} ELSE {1}

Without(k) == SubSeq(jobs, 1, k - 1) \o SubSeq(jobs, k + 1, Len(jobs))

\* A background write is done: the file is read, merged and replaced.
JobDone ==
    \E k \in NextJob :
        /\ jobs' = Without(k)
        /\ \/ /\ jobs[k].kind = "history"
              /\ file' = [file EXCEPT ![jobs[k].chat] = Saved(@, jobs[k].msgs)]
              /\ UNCHANGED dialogs
           \/ /\ jobs[k].kind = "dialogs"
              /\ dialogs' = [self |-> jobs[k].self, chats |-> jobs[k].chats]
              /\ UNCHANGED file
        /\ UNCHANGED <<plan, unlisted, left, server, up, sessVars, uiVars, syncVars>>

\* It failed: the file stays as it was, and nobody is told.
JobFails ==
    \E k \in NextJob :
        /\ Spend("fail")
        /\ jobs' = Without(k)
        /\ UNCHANGED <<plan, unlisted, server, diskVars, up, sessVars, uiVars, syncVars>>

-----------------------------------------------------------------------------
(* The session of the network.                                             *)

\* startNet: a backend runs, as one of the accounts.
Login(a) ==
    /\ up
    /\ login = None
    /\ Spend("login")
    /\ login' = a
    /\ UNCHANGED <<plan, unlisted, server, diskVars, up, jobs, self, account, cacheSelf, seenDialogs,
                   uiVars, syncVars>>

\* EvReady of another account than the last one, or than the one of the files.
OtherAccount == (IF account # None THEN account ELSE cacheSelf) \notin {None, login}

\* A mutated SyncForgotten: the step in flight is kept.
QueueForgotten == queue' = {} /\ UNCHANGED cur

\* clearNetWork, for the sync.
SyncForgotten == queue' = {} /\ cur' = None

\* dropCache: the files are set aside, everything of the network closes.
DropCache ==
    /\ ChainDone
    /\ Archive
    /\ SyncForgotten /\ page' = None
    /\ listed' = {}
    /\ window' = [c \in Chat |-> None]
    /\ dirty' = {}
    /\ dialogsDirty' = TRUE
    /\ seenDialogs' = FALSE
    /\ cacheSelf' = None
    /\ gone' = {}

\* EvReady.
Ready ==
    /\ login # None
    /\ self = None
    /\ account' = login
    /\ self' = login
    /\ IF net.history /\ OtherAccount
       THEN DropCache
       ELSE UNCHANGED <<diskVars, syncVars, uiVars, seenDialogs, cacheSelf>>
    /\ UNCHANGED <<plan, unlisted, left, server, up, jobs, login>>

\* EvStopped.
Stopped ==
    /\ login # None
    /\ login' = None
    /\ self' = None
    /\ seenDialogs' = FALSE
    /\ SyncForgotten
    /\ page' = None      \* the answer of a session that is over is dropped
    /\ unlisted' = (unlisted \/ (self # None /\ ~seenDialogs))
    /\ UNCHANGED <<plan, left, server, diskVars, up, jobs, account, cacheSelf, uiVars>>

-----------------------------------------------------------------------------
(* The sync: the chats one after the other.                                *)

\* syncMinID: the last message known, of the window or else of the file.
SyncMin(c) == LastId(Load(IF window'[c] # None THEN window'[c] ELSE file'[c]))

\* syncNext: one request in flight, for one of the chats of q.
SyncNext(q) ==
    IF cur # None \/ q = {}
    THEN queue' = q /\ UNCHANGED <<cur, page>>
    ELSE \E c \in q :
            /\ queue' = q \ {c}
            /\ cur' = [chat |-> c, after |-> SyncMin(c)]
            /\ page' = Asked

\* evSyncTick: the pause is over.
SyncTick ==
    /\ cur = None
    /\ queue # {}
    /\ UNCHANGED <<file, window>>
    /\ SyncNext(queue)
    /\ UNCHANGED <<plan, unlisted, left, server, dialogs, up, jobs, sessVars, listed, dirty,
                   dialogsDirty, gone>>

\* The server answers: what it holds above the last message known.
SyncServed ==
    /\ page = Asked
    /\ page' = FromServer(cur.chat, {i \in DOMAIN server[cur.chat] : i > cur.after})
    /\ UNCHANGED <<plan, unlisted, left, server, diskVars, up, jobs, sessVars, uiVars, queue, cur>>

\* markDirty.
MarkDirty(c) == dirty \cup {c}

\* syncHistory: into the window when there is one (what came live since the
\* request wins), else straight into the file.
SyncDone ==
    /\ page \notin {None, Asked}
    /\ cur' = None /\ page' = None
    /\ IF window[cur.chat] # None
       THEN /\ window' = [window EXCEPT ![cur.chat] = Merge(page, @)]
            /\ dirty' = MarkDirty(cur.chat)
            /\ UNCHANGED jobs
       ELSE /\ jobs' = IF page = Empty THEN jobs
                       ELSE Append(jobs, [kind |-> "history", chat |-> cur.chat, msgs |-> page])
            /\ UNCHANGED <<window, dirty>>
    /\ UNCHANGED <<plan, unlisted, left, server, diskVars, up, sessVars, listed, dialogsDirty, queue, gone>>

\* A step that failed: the queue goes on.
SyncError ==
    /\ page # None
    /\ Spend("fail")
    /\ cur' = None /\ page' = None
    /\ UNCHANGED <<plan, unlisted, server, diskVars, up, jobs, sessVars, uiVars, queue>>

-----------------------------------------------------------------------------
(* Chats that go.                                                          *)

\* The last lines of a window that goes, of a chat the server keeps nothing of.
LastLines(c) ==
    IF c \in dirty /\ window[c] # None THEN Saved(file[c], window[c]) ELSE file[c]

\* A mutated StillQueued: the sync queue keeps the chat.
StillQueuedAll(P) == queue

\* The sync queue without the chats that go.
StillQueued(P) == queue \ P

\* dropChat of each chat of P: windows closed, entry dropped, file erased where
\* the server keeps the history.  The sync step in flight stays.
DropChats(P) ==
    /\ IF net.history
       THEN /\ P # {} => ChainDone
            /\ file' = [c \in Chat |-> IF c \in P THEN None ELSE file[c]]
       ELSE /\ (\E c \in P \cap dirty : window[c] # None) => ChainDone
            /\ file' = [c \in Chat |-> IF c \in P THEN LastLines(c) ELSE file[c]]
    /\ dirty' = dirty \ P

\* The chats that are gone, once those of P are too.
GoneWith(P) == gone \cup (IF cur = None THEN P ELSE P \ {cur.chat})

\* EvChatGone, and the entry "leave" of the menu.
Leave(c) ==
    /\ c \in listed
    /\ Spend("leave")
    /\ DropChats({c})
    /\ gone' = GoneWith({c})
    /\ listed' = listed \ {c}
    /\ window' = [window EXCEPT ![c] = None]
    /\ queue' = StillQueued({c})
    /\ jobs' = SaveDialogs(listed')
    /\ UNCHANGED <<plan, unlisted, server, dialogs, up, sessVars, dialogsDirty, cur, page>>

\* pruneChats: a complete list drops the chats it has not, but for those with
\* a recent message; another list drops none.
Pruned(fresh) == SUBSET (listed \ fresh)

\* autoOpen, and the bindings of loadCache: the recently active chats.
Opened(recent, P) ==
    [c \in Chat |-> IF c \in P THEN None
                    ELSE IF c \in recent THEN Bound(window[c], file'[c]) ELSE window[c]]

\* syncStart: every chat, at the first list of a session.
SyncStart(P) ==
    IF net.sync /\ ~seenDialogs
    THEN SyncNext(StillQueued(P) \cup listed')
    ELSE queue' = StillQueued(P) /\ UNCHANGED <<cur, page>>

\* EvDialogs: the list of the network comes first (mergeDialogs), is pruned,
\* and is saved.
Dialogs(fresh) ==
    /\ self # None
    /\ Spend("dialogs")
    /\ \E P \in Pruned(fresh), recent \in SUBSET (listed \cup fresh) :
        /\ seenDialogs => recent = {}
        /\ DropChats(P)
        /\ gone' = GoneWith(P) \ fresh
        /\ listed' = (listed \cup fresh) \ P
        /\ recent \subseteq listed'
        /\ window' = Opened(recent, P)
        /\ SyncStart(P)
    /\ seenDialogs' = TRUE
    /\ jobs' = SaveDialogs(listed')
    /\ UNCHANGED <<plan, unlisted, server, dialogs, up, login, self, account, cacheSelf, dialogsDirty>>

-----------------------------------------------------------------------------
(* The windows.                                                            *)

\* A message is written on the server, and comes live: EvNewMessage.  Its chat
\* is listed, its window is there from now on.
Post(c) ==
    /\ login # None
    /\ self # None \/ net.early
    /\ Len(server[c]) < MaxId
    /\ Spend("post")
    /\ server' = [server EXCEPT ![c] = Append(@, 0)]
    /\ LET m == [i \in {Len(server[c]) + 1} |-> [by |-> login, version |-> 0]] IN
       window' = [window EXCEPT ![c] = Merge(Bound(@, file[c]), m)]
    /\ listed' = listed \cup {c}
    /\ dirty' = MarkDirty(c)
    /\ dialogsDirty' = TRUE
    /\ gone' = gone \ {c}
    /\ UNCHANGED <<plan, unlisted, diskVars, up, jobs, sessVars, syncVars>>

\* A message nobody delivers: the process is down, or the gateway is.
Miss(c) ==
    /\ Len(server[c]) < MaxId
    /\ Spend("miss")
    /\ server' = [server EXCEPT ![c] = Append(@, 0)]
    /\ UNCHANGED <<plan, unlisted, diskVars, up, jobs, sessVars, uiVars, syncVars>>

\* An edit, a deletion, reactions: EvEditMessage, EvDeleted, EvReactions.  A
\* message no window holds is left alone.
Edit(c, i) ==
    /\ net.history
    /\ i \in DOMAIN server[c]
    /\ server[c][i] < MaxVersion
    /\ Spend("edit")
    /\ server' = [server EXCEPT ![c][i] = @ + 1]
    /\ IF self # None /\ window[c] # None /\ i \in DOMAIN window[c]
       THEN /\ window' = [window EXCEPT ![c][i].version = server[c][i] + 1]
            /\ dirty' = MarkDirty(c)
       ELSE UNCHANGED <<window, dirty>>
    /\ UNCHANGED <<plan, unlisted, diskVars, up, jobs, sessVars, listed, dialogsDirty, gone, syncVars>>

\* A page of the history, of a window that is visited.
Page(c) ==
    /\ net.history
    /\ self # None
    /\ window[c] # None
    /\ Spend("page")
    /\ window' = [window EXCEPT ![c] = Merge(@, FromServer(c, DOMAIN server[c]))]
    /\ dirty' = MarkDirty(c)
    /\ UNCHANGED <<plan, unlisted, server, diskVars, up, jobs, sessVars, listed, dialogsDirty, gone, syncVars>>

\* openChat of the sidebar: the file plays in the window.
Open(c) ==
    /\ c \in listed
    /\ window[c] = None
    /\ window' = [window EXCEPT ![c] = Load(file[c])]
    /\ UNCHANGED <<plan, unlisted, left, server, diskVars, up, jobs, sessVars, listed, dirty,
                   dialogsDirty, gone, syncVars>>

\* closeWindowAt: what the window has to write goes first, and a write that
\* fails keeps it open.
Close(c) ==
    /\ window[c] # None
    /\ Spend("close")
    /\ c \in dirty => ChainDone
    /\ file' = IF c \in dirty THEN [file EXCEPT ![c] = Saved(@, window[c])] ELSE file
    /\ dirty' = dirty \ {c}
    /\ window' = [window EXCEPT ![c] = None]
    /\ UNCHANGED <<plan, unlisted, server, dialogs, up, jobs, sessVars, listed, dialogsDirty, gone, syncVars>>

\* /clear.
Clear(c) ==
    /\ window[c] \notin {None, Empty}
    /\ Spend("clear")
    /\ window' = [window EXCEPT ![c] = Empty]
    /\ UNCHANGED <<plan, unlisted, server, diskVars, up, jobs, sessVars, listed, dirty, dialogsDirty,
                   gone, syncVars>>

-----------------------------------------------------------------------------
Process == Start \/ Quit \/ Kill \/ Flush \/ JobDone \/ JobFails

Network ==
    \/ \E a \in Account : Login(a)
    \/ Ready \/ Stopped
    \/ \E fresh \in SUBSET Chat : Dialogs(fresh)
    \/ SyncTick \/ SyncServed \/ SyncDone \/ SyncError

Windows ==
    \E c \in Chat :
        \/ Leave(c) \/ Post(c) \/ Miss(c) \/ Page(c) \/ Open(c) \/ Close(c) \/ Clear(c)
        \/ \E i \in Id : Edit(c, i)

Next == Process \/ Network \/ Windows

\* Writes end, a request is answered, the pause of the sync ends, and the UI
\* takes the answer.
Fairness ==
    /\ WF_vars(JobDone)
    /\ WF_vars(SyncServed)
    /\ WF_vars(SyncDone)
    /\ WF_vars(SyncTick)

Spec == Init /\ [][Next]_vars
FairSpec == Spec /\ Fairness

-----------------------------------------------------------------------------
(* Properties.                                                             *)

Unspent(d) == left[d] = plan.times[d]

\* Where a chat has Cap newer messages, a file may have cut this one.
Cut(ids, i) == Cardinality({j \in ids : j > i}) >= Cap

InFile(f, i, v) ==
    /\ f # None
    /\ IF i \in DOMAIN f THEN f[i].version >= v ELSE Cut(DOMAIN f, i)

InJobs(c, i, v) ==
    \E k \in DOMAIN jobs :
        /\ jobs[k].kind = "history" /\ jobs[k].chat = c
        /\ i \in DOMAIN jobs[k].msgs /\ jobs[k].msgs[i].version >= v

Shown(c) == IF window[c] = None THEN {} ELSE DOMAIN window[c]

\* Once the network said who we are, no window shows a message read as another
\* account: after a login under another account, stops, restarts and writes
\* that were still on their way.  (Unless the process was killed or a write
\* failed, or the messages come before EvReady: they are then written in the
\* files of the account that was there before.  Unless also a session stopped
\* before its list came: OtherIgnored.)
OwnWindows == net.history /\ ~net.early /\ self # None =>
    \A c \in Chat : \A i \in Shown(c) : window[c][i].by = self
OwnHistory == Unspent("kill") /\ Unspent("fail") /\ ~unlisted => OwnWindows

\* docs/guide.md:814: "A cache belonging to another account is detected after
\* login and ignored."
OtherIgnored == Unspent("kill") /\ Unspent("fail") => OwnWindows

\* Where no write failed and a file is never behind by what was done: versions
\* are read in their order.  (Where messages have versions, the page of the sync
\* may be older than what the window got meanwhile; and a window closed, then
\* bound again while a write of it waits, plays the file without that write and
\* saves the older version again.)
InStep == Unspent("fail") /\ (net.history => ~net.sync /\ Unspent("close"))

\* What a window shows is on the disk, in a write on its way, or marked to be
\* written: no change is forgotten between the mark, the flush, the chain and
\* the file.
NothingUnsaved ==
    InStep =>
        \A c \in Chat : \A i \in Shown(c) :
            \/ c \in dirty
            \/ InJobs(c, i, window[c][i].version)
            \/ InFile(file[c], i, window[c][i].version)

\* The file of a chat dropped from an account whose server keeps the history
\* stays erased: no write in the chain, no mark, no step of the sync queue
\* brings it back.  (The step in flight does: those chats are not in gone.)
GoneStaysGone == net.history => \A c \in gone : file[c] = None

Known(c) ==
    Shown(c) \cup DOMAIN Load(file[c])
    \cup UNION {IF jobs[k].kind = "history" /\ jobs[k].chat = c THEN DOMAIN jobs[k].msgs ELSE {} :
                    k \in DOMAIN jobs}

\* Where the files are the only copy, a message the program knows stays known,
\* across flushes, closed windows, rooms left, quits and starts.
KeepsKnown == \A c \in Chat : \A i \in Known(c) : i \in Known(c)' \/ Cut(Known(c)', i)

OnlyCopy ==
    [][~net.history /\ left'.kill = left.kill /\ left'.fail = plan.times.fail
       /\ left'.clear = left.clear => KeepsKnown]_vars

\* docs/guide.md:465-467: "Because that cache is the only copy, TTYloom keeps it
\* on disk across [...] /clear".
ClearKeeps ==
    [][~net.history /\ left'.kill = left.kill /\ left'.fail = plan.times.fail => KeepsKnown]_vars

\* A quit leaves on the disk what the windows show, in the version they show.
QuitSaves ==
    [][up /\ ~up' /\ left'.kill = left.kill /\ InStep =>
        \A c \in Chat : \A i \in Shown(c) : InFile(file'[c], i, window[c][i].version)]_vars

\* The sync of the start comes to its end, whatever chats are left, and
\* whatever sessions stop, meanwhile.
SyncEnds == []<>(queue = {} /\ cur = None)

\* The files and the windows hold the history of the account alone, and a chat
\* that is gone from both stays gone.
HistoryRight == TypeOK /\ OwnHistory /\ GoneStaysGone
=============================================================================
