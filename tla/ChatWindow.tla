----------------------------- MODULE ChatWindow -----------------------------
(***************************************************************************)
(* The window of one chat and its history (internal/ui/window.go, the      *)
(* history part of internal/ui/ui.go): what the cache replayed, the live   *)
(* messages and edits of the gateway, the pages read over the API by       *)
(* concurrent goroutines, the jumps, and the sends of the user.            *)
(*                                                                         *)
(* The network is one whose server keeps the history (Telegram, Discord):  *)
(* message ids are dense there, the deleted ones are gone.  A request      *)
(* reads the server at some time after it is made, and its page reaches    *)
(* the UI later still, behind the live events posted meanwhile.  A live    *)
(* event of a time when the gateway is down is lost.  An edit, a deletion  *)
(* or a reaction is one "version" of a message.                            *)
(*                                                                         *)
(* Started and LiveAt are clocks of one process that are only compared:    *)
(* an item keeps the requests that were already started when it last       *)
(* changed live.  Left out: system lines, the drawing, media, read marks,  *)
(* bots, the aggregate and the search windows.                             *)
(***************************************************************************)
EXTENDS Naturals, FiniteSets, SequencesExt

CONSTANTS
    MaxId,       \* messages of the chat (a bound)
    Limit,       \* length of a page
    Tags,        \* requests in flight at once (a bound)
    Plans        \* what a behaviour starts from and may do (bounds)

Ids == 1..MaxId
PageKinds == {"recent", "older", "around", "since"}

(* What a behaviour may do at most so many times.                          *)
Deeds == {"visit", "older", "around", "since", "edit", "send", "drop", "stop"}

(* A plan: the messages of the server at the start, those of them that     *)
(* were deleted, the last message there may be, what the cache holds, the  *)
(* cap of the window, whether requests may fail, and how often each deed   *)
(* is done.                                                                *)
ASSUME WindowAssumption ==
    /\ MaxId \in Nat /\ Limit \in Nat \ {0}
    /\ \A q \in Plans :
          /\ q.last \in 0..MaxId /\ q.known \in 0..q.last
          /\ q.gone \subseteq 1..q.known /\ q.cache \subseteq (1..q.known) \ q.gone
          /\ q.cap \in Nat \ {0} /\ q.errors \in BOOLEAN
          /\ q.times \in [Deeds -> Nat]

VARIABLES
    \* the window
    items,       \* w.Items: messages and hole markers
    loading,     \* w.Loading
    loaded,      \* w.Loaded
    full,        \* w.Full
    shown,       \* it is the current window
    jump,        \* u.jump: the message an appointment waits for, 0 for none
    \* the backend
    link,        \* "up", "down" (gateway) or "off" (network stopped)
    requests,    \* asked, the server not read yet
    pages,       \* read, not posted yet
    queue,       \* events on the way to the UI
    sending,     \* our send: "no", "asked", "taken" or "answered"
    sentId,      \* its id
    \* the server
    top,         \* last message
    version,     \* message -> version
    \* bounds
    plan,        \* the plan of the behaviour
    left         \* deed -> times it may still be done

window == <<items, loading, loaded, full, shown, jump>>
server == <<top, version>>
bounds == <<plan, left>>
vars == <<window, link, requests, pages, queue, sending, sentId, server, bounds>>

Exists == (1..top) \ plan.gone

May(deed) == left[deed] > 0
Spend(deed) == May(deed) /\ left' = [left EXCEPT ![deed] = @ - 1] /\ UNCHANGED plan

(* The last Limit messages of S.                                           *)
Newest(S) == {m \in S : Cardinality({x \in S : x > m}) < Limit}

-----------------------------------------------------------------------------
(* Items.  id 0 is a pending send; a marker has id 0 and the two ids of    *)
(* its hole in gap.                                                        *)

NoGap == <<0, 0>>
NoPage == [tag |-> 0]
Message(m, v) == [id |-> m, ver |-> v, newer |-> {}, gap |-> NoGap]
Marker(lo, hi) == [id |-> 0, ver |-> 0, newer |-> {}, gap |-> <<lo, hi>>]
IsPending(it) == it.id = 0 /\ it.gap = NoGap

ItemIds(s) == {s[i].id : i \in DOMAIN s} \ {0}
Positions(s) == {i \in DOMAIN s : s[i].id > 0}

OldestID(s) == IF Positions(s) = {} THEN 0 ELSE s[Min(Positions(s))].id
LastID(s) == IF Positions(s) = {} THEN 0 ELSE s[Max(Positions(s))].id

Trim(s) == IF Len(s) > plan.cap THEN SubSeq(s, Len(s) - plan.cap + 1, Len(s)) ELSE s

(* What a merge makes of s and a page, as a set of places: <<i, 0>> is the *)
(* item i of s, <<i, m>> the message m of the page right behind it.        *)
Ahead(a, b) == a[1] < b[1] \/ (a[1] = b[1] /\ a[2] < b[2])
Nth(P, k) == CHOOSE x \in P : Cardinality({y \in P : Ahead(y, x)}) = k - 1
Arrange(P, s, p) ==
    [k \in 1..Cardinality(P) |->
        LET x == Nth(P, k) IN IF x[2] = 0 THEN s[x[1]] ELSE Message(x[2], p.ver[x[2]])]

Kept(s) == (DOMAIN s) \X {0}
Only(s, S) == Arrange(S \X {0}, s, NoPage)

(* A message at its rank: before the first one with a larger id.           *)
Slot(s, m) == SelectInSeq(Append(s, Message(MaxId + 1, 0)), LAMBDA x : x.id > m) - 1
AtRank(s, S) == {<<Slot(s, m), m>> : m \in S}

(* Mutant: the page wins even over a message changed live since.           *)
ReconcileAll(s, p) ==
    [i \in DOMAIN s |-> IF s[i].id \in p.ids THEN [s[i] EXCEPT !.ver = p.ver[s[i].id]] ELSE s[i]]

(* reconcileMsg for each message already there: the page refreshes it,     *)
(* unless a live change came after the request started.                    *)
Reconcile(s, p) ==
    [i \in DOMAIN s |-> IF s[i].id \in p.ids /\ p.tag \notin s[i].newer
                        THEN [s[i] EXCEPT !.ver = p.ver[s[i].id]] ELSE s[i]]

Fresh(s, p) == p.ids \ ItemIds(s)
AsItems(S, p) == Arrange({0} \X S, <<>>, p)

(* A marker goes with the first message inside its hole.                   *)
DropFilledGaps(s) ==
    LET told == {i \in DOMAIN s : s[i].gap = NoGap
                     \/ \A m \in ItemIds(s) : m <= s[i].gap[1] \/ m >= s[i].gap[2]}
    IN  Only(s, told)

(* Mutant: the messages missed inside the window go to the tail.           *)
MergeTail(s, p) ==
    LET older == {m \in Fresh(s, p) : m < OldestID(s)}
    IN  Trim(DropFilledGaps(AsItems(older, p) \o Reconcile(s, p) \o AsItems(Fresh(s, p) \ older, p)))

(* Merge of a page: older messages at the head, newer ones at the tail,    *)
(* the others at their rank.                                               *)
Merge(s, p) ==
    LET newer == {m \in Fresh(s, p) : m > LastID(s)}
        older == {m \in Fresh(s, p) \ newer : m < OldestID(s)}
        hole  == Fresh(s, p) \ (newer \cup older)
        ends  == ({0} \X older) \cup Kept(s) \cup ({Len(s)} \X newer)
    IN  Trim(DropFilledGaps(Arrange(ends \cup AtRank(s, hole), Reconcile(s, p), p)))

(* markGap: before hi, once.                                               *)
MarkGap(s, lo, hi) ==
    LET at == SelectInSeq(s, LAMBDA it : it.gap = <<lo, hi>> \/ it.id = hi)
    IN  IF at = 0 \/ s[at].id # hi THEN s ELSE InsertAt(s, at, Marker(lo, hi))

(* Mutant: no seam is marked.                                              *)
MergeAroundUnmarked(s, p) ==
    DropFilledGaps(Arrange(Kept(s) \cup AtRank(s, Fresh(s, p)), Reconcile(s, p), p))

(* MergeAround of a page: each message at its rank; a page on one side of  *)
(* the window, without a message in common, is separated by a marker.      *)
MergeAround(s, p) ==
    LET ranked == Arrange(Kept(s) \cup AtRank(s, Fresh(s, p)), Reconcile(s, p), p)
        lo == Min(ItemIds(s))     hi == Max(ItemIds(s))
        marked == IF ItemIds(s) = {} THEN ranked
                  ELSE IF Min(p.ids) > hi THEN MarkGap(ranked, hi, Min(p.ids))
                  ELSE IF Max(p.ids) < lo THEN MarkGap(ranked, Max(p.ids), lo)
                  ELSE ranked
    IN  IF Fresh(s, p) = {} THEN Reconcile(s, p) ELSE DropFilledGaps(marked)

(* The requests that started and whose page the UI does not have yet.      *)
InFlight == {r.tag : r \in requests \cup pages} \cup {e.page.tag : e \in {x \in ToSet(queue) : x.kind = "page"}}

(* Upsert of a live message: in the place of its copy, or at the tail.     *)
Upsert(s, it) ==
    IF it.id \in ItemIds(s)
    THEN [i \in DOMAIN s |-> IF s[i].id = it.id THEN it ELSE s[i]]
    ELSE Trim(Append(s, it))

(* The send the receipt is of: the last one made.                          *)
Sends(s) == {i \in DOMAIN s : IsPending(s[i])}

(* Mutant: the receipt stamps the pending item, copy or not.               *)
SentDoubles(s, m) == IF Sends(s) = {} THEN s ELSE [s EXCEPT ![Max(Sends(s))].id = m]

(* Sent: the receipt gives the pending item its id, or drops it when the   *)
(* server's copy is there already.                                         *)
Sent(s, m) ==
    IF Sends(s) = {} THEN s
    ELSE IF m \in ItemIds(s) THEN Only(s, DOMAIN s \ {Max(Sends(s))})
    ELSE [s EXCEPT ![Max(Sends(s))].id = m]

-----------------------------------------------------------------------------
Page == [tag : Tags, kind : PageKinds, at : 0..MaxId, err : BOOLEAN, done : BOOLEAN,
         ids : SUBSET Ids, ver : [Ids -> Nat]]
Event(k, m, v) == [kind |-> k, id |-> m, ver |-> v, page |-> NoPage]
EventKinds == {"new", "edit", "receipt", "page", "connected", "disconnected"}

TypeOK ==
    /\ \A i \in DOMAIN items :
          /\ items[i].id \in 0..MaxId /\ items[i].ver \in Nat
          /\ items[i].newer \subseteq Tags
          /\ items[i].gap \in (0..MaxId) \X (0..MaxId)
    /\ {loading, loaded, full, shown} \subseteq BOOLEAN /\ jump \in 0..MaxId
    /\ link \in {"up", "down", "off"}
    /\ \A r \in requests : r.tag \in Tags /\ r.kind \in PageKinds /\ r.at \in 0..MaxId
    /\ pages \subseteq Page
    /\ \A e \in ToSet(queue) : e.kind \in EventKinds /\ e.id \in 0..MaxId
    /\ sending \in {"no", "asked", "taken", "answered"} /\ sentId \in 0..MaxId
    /\ top \in 0..MaxId /\ version \in [Ids -> Nat]
    /\ plan \in Plans /\ \A k \in Deeds : left[k] \in 0..plan.times[k]
    \* a request has a tag of its own, from the start to the page
    /\ Cardinality(InFlight) = Cardinality(requests) + Cardinality(pages)
          + Len(SelectSeq(queue, LAMBDA e : e.kind = "page"))

Init ==
    /\ plan \in Plans /\ left = plan.times
    /\ top = plan.known /\ version = [m \in Ids |-> 0]
    /\ items = AsItems(plan.cache, [ver |-> version])
    /\ loading = FALSE /\ loaded = FALSE /\ full = FALSE /\ shown = FALSE /\ jump = 0
    /\ link = "up" /\ requests = {} /\ pages = {} /\ queue = <<>>
    /\ sending = "no" /\ sentId = 0

-----------------------------------------------------------------------------
(* The requests of the UI.                                                 *)

(* Mutant: the first tag, in use or not.                                   *)
RequestSame(k, at) ==
    requests' = requests \cup {[tag |-> Min(Tags), kind |-> k, at |-> at]}

(* A call of the backend: a goroutine starts.                              *)
Request(k, at) ==
    \E t \in Tags \ InFlight :
        /\ \A u \in Tags \ InFlight : t <= u
        /\ requests' = requests \cup {[tag |-> t, kind |-> k, at |-> at]}

(* loadHistory and loadAround: nothing without a network.                  *)
Load(k, at) ==
    IF link = "off" THEN UNCHANGED <<loading, requests>>
    ELSE loading' = TRUE /\ Request(k, at)

(* goTo: a window not loaded, nor loading, reads its recent page.          *)
GoTo ==
    /\ ~shown /\ shown' = TRUE
    /\ IF ~loaded /\ ~loading THEN Load("recent", 0) ELSE UNCHANGED <<loading, requests>>
    /\ UNCHANGED <<items, loaded, full, jump, link, pages, queue, sending, sentId,
                   server, bounds>>

GoAway ==
    /\ shown /\ shown' = FALSE /\ Spend("visit")
    /\ UNCHANGED <<items, loading, loaded, full, jump, link, requests, pages, queue,
                   sending, sentId, server>>

(* /history, and the wheel at the top (which also wants the window not     *)
(* full: a load that brings nothing more).                                 *)
Older ==
    /\ Spend("older") /\ ~loading /\ link # "off"
    /\ Load(IF OldestID(items) = 0 THEN "recent" ELSE "older", OldestID(items))
    /\ UNCHANGED <<items, loaded, full, shown, jump, link, pages, queue, sending, sentId,
                   server>>

(* jumpTo: selected when there; otherwise an appointment, and the page     *)
(* around the message unless one is loading.                               *)
JumpTo(m) ==
    /\ Spend("around") /\ shown /\ m \in 1..top
    /\ IF m \in ItemIds(items)
       THEN jump' = 0 /\ UNCHANGED <<loading, requests>>
       ELSE /\ jump' = m
            /\ IF loading THEN UNCHANGED <<loading, requests>> ELSE Load("around", m)
    /\ UNCHANGED <<items, loaded, full, shown, link, pages, queue, sending, sentId,
                   server>>

(* syncNext: the messages above the last one of the window.                *)
Sync ==
    /\ Spend("since") /\ link # "off"
    /\ \A r \in requests \cup pages : r.kind # "since"
    /\ \A e \in ToSet(queue) : e.kind = "page" => e.page.kind # "since"
    /\ Request("since", LastID(items))
    /\ UNCHANGED <<window, link, pages, queue, sending, sentId, server>>

(* A send: the pending line, and the RPC.                                  *)
Send ==
    /\ Spend("send") /\ link # "off" /\ sending \in {"no", "answered"} /\ sending' = "asked"
    /\ items' = Trim(Append(items, Message(0, 0)))
    /\ UNCHANGED <<loading, loaded, full, shown, jump, link, requests, pages, queue, sentId,
                   server>>

-----------------------------------------------------------------------------
(* The goroutines of the backend, the server and the gateway.              *)

(* The messages a request finds.                                           *)
Found(r) ==
    IF r.kind = "recent" THEN Newest(Exists)
    ELSE IF r.kind = "older" THEN Newest({m \in Exists : m < r.at})
    ELSE IF r.kind = "since" THEN {m \in Newest(Exists) : m > r.at}
    ELSE {m \in Exists :
             LET between == {x \in Exists : (m < x /\ x < r.at) \/ (r.at <= x /\ x < m)}
             IN  Cardinality(between) < (IF m < r.at THEN Limit ELSE Limit + 1) \div 2}

(* Done: a short page of the walk down, so nothing is older.               *)
Done(r) == r.kind \in {"recent", "older"} /\ Cardinality(Found(r)) < Limit

(* The server answers.                                                     *)
ReadsServer(r) ==
    /\ requests' = requests \ {r}
    /\ \E err \in {FALSE, plan.errors} :
          pages' = pages \cup
             {[tag |-> r.tag, kind |-> r.kind, at |-> r.at, err |-> err,
               done |-> ~err /\ Done(r),
               ids |-> IF err THEN {} ELSE Found(r), ver |-> version]}
    /\ UNCHANGED <<window, link, queue, sending, sentId, server, bounds>>

PostsPage(p) ==
    /\ pages' = pages \ {p}
    /\ queue' = Append(queue, [Event("page", 0, 0) EXCEPT !.page = p])
    /\ UNCHANGED <<window, link, requests, sending, sentId, server, bounds>>

(* A live event; nobody hears it while the gateway is down.                *)
Pushes(e) == queue' = IF link = "up" THEN Append(queue, e) ELSE queue

OthersWrite ==
    /\ top < plan.last /\ top' = top + 1
    /\ Pushes(Event("new", top + 1, 0))
    /\ UNCHANGED <<window, link, requests, pages, sending, sentId, version, bounds>>

OthersEdit(m) ==
    /\ Spend("edit")
    /\ m \in Exists /\ version' = [version EXCEPT ![m] = @ + 1]
    /\ Pushes(Event("edit", m, version[m] + 1))
    /\ UNCHANGED <<window, link, requests, pages, sending, sentId, top>>

(* The server takes our send: its own copy of it may come live, before the *)
(* receipt (a channel) or not at all.                                      *)
ServerTakesSend ==
    /\ sending = "asked" /\ sending' = "taken"
    /\ top < plan.last /\ top' = top + 1 /\ sentId' = top + 1
    /\ Pushes(Event("new", top + 1, 0)) \/ UNCHANGED queue
    /\ UNCHANGED <<window, link, requests, pages, version, bounds>>

PostsReceipt ==
    /\ sending = "taken" /\ sending' = "answered"
    /\ \/ queue' = Append(queue, Event("receipt", sentId, 0))
       \/ \* the copy of the server comes after the receipt
          queue' = queue \o <<Event("receipt", sentId, 0), Event("new", sentId, 0)>>
    /\ UNCHANGED <<window, link, requests, pages, sentId, server, bounds>>

GatewayDrops ==
    /\ link = "up" /\ Spend("drop")
    /\ link' = "down"
    /\ queue' = Append(queue, Event("disconnected", 0, 0))
    /\ UNCHANGED <<window, requests, pages, sending, sentId, server>>

GatewayConnects ==
    /\ link = "down" /\ link' = "up"
    /\ queue' = Append(queue, Event("connected", 0, 0))
    /\ UNCHANGED <<window, requests, pages, sending, sentId, server, bounds>>

(* Mutant: the load the session took with it stays marked.                 *)
StoppedLoading ==
    /\ link # "off" /\ Spend("stop")
    /\ link' = "off" /\ requests' = {} /\ pages' = {} /\ queue' = <<>>
    /\ sending' = IF sending = "no" THEN "no" ELSE "answered"
    /\ items' = [i \in DOMAIN items |-> [items[i] EXCEPT !.newer = {}]]
    /\ loaded' = FALSE
    /\ UNCHANGED <<loading, full, shown, jump, sentId, server>>

(* EvStopped: what was under way is lost, and its work cleared.            *)
Stopped ==
    /\ link # "off" /\ Spend("stop")
    /\ link' = "off" /\ requests' = {} /\ pages' = {} /\ queue' = <<>>
    /\ sending' = IF sending = "no" THEN "no" ELSE "answered"
    /\ items' = [i \in DOMAIN items |-> [items[i] EXCEPT !.newer = {}]]
    /\ loading' = FALSE /\ loaded' = FALSE
    /\ UNCHANGED <<full, shown, jump, sentId, server>>

(* The network is started again.                                           *)
Started ==
    /\ link = "off" /\ link' = "down"
    /\ UNCHANGED <<window, requests, pages, queue, sending, sentId, server, bounds>>

-----------------------------------------------------------------------------
(* The events, on the goroutine of the UI.                                 *)

OnNew(e) ==
    /\ items' = Upsert(items, [Message(e.id, e.ver) EXCEPT !.newer = InFlight])
    /\ UNCHANGED <<loading, loaded, full, jump, requests>>

(* An edit or a deletion: only of a message the window holds.              *)
OnEdit(e) ==
    /\ items' = [i \in DOMAIN items |->
                    IF items[i].id = e.id
                    THEN [items[i] EXCEPT !.ver = e.ver, !.newer = InFlight] ELSE items[i]]
    /\ UNCHANGED <<loading, loaded, full, jump, requests>>

OnReceipt(e) ==
    /\ items' = Sent(items, e.id)
    /\ UNCHANGED <<loading, loaded, full, jump, requests>>

(* EvConnected: a loaded window has missed messages; the current one reads *)
(* its recent page again, unless it is loading.                            *)
OnConnected ==
    /\ loaded' = FALSE
    /\ IF loaded /\ shown /\ ~loading THEN Load("recent", 0) ELSE UNCHANGED <<loading, requests>>
    /\ UNCHANGED <<items, full, jump>>

(* Forget the request of a page everywhere once the page is handled.       *)
Forget(s, t) == [i \in DOMAIN s |-> [s[i] EXCEPT !.newer = @ \ {t}]]

(* Mutant: the appointment of a jump is not kept on another page.          *)
KeepJumpAroundOnly(s, p) ==
    IF jump # 0 /\ p.kind = "around" /\ jump \notin ItemIds(s)
    THEN IF p.at = jump THEN jump' = 0 /\ loading' = FALSE /\ UNCHANGED requests
         ELSE UNCHANGED jump /\ Load("around", jump)
    ELSE loading' = FALSE /\ UNCHANGED <<requests, jump>>

(* The appointment of a jump: kept when the message is there, closed by    *)
(* the page around it that comes without it, otherwise asked for again.    *)
KeepJump(s, p) ==
    IF jump # 0 /\ jump \notin ItemIds(s) /\ ~(p.kind = "around" /\ p.at = jump)
    THEN UNCHANGED jump /\ Load("around", jump)
    ELSE jump' = 0 /\ loading' = FALSE /\ UNCHANGED requests

(* history: a page, or its error.                                          *)
OnPage(p) ==
    LET s == IF p.kind = "around" THEN MergeAround(items, p) ELSE Merge(items, p) IN
    IF p.err
    THEN /\ items' = Forget(items, p.tag) /\ jump' = 0 /\ loading' = FALSE
         /\ UNCHANGED <<loaded, full, requests>>
    ELSE /\ items' = Forget(s, p.tag)
         /\ full' = (full \/ p.done)
         /\ loaded' = (loaded \/ p.kind \in {"recent", "since"})
         /\ KeepJump(s, p)

(* syncHistory: an error of the sync is reported, no more.                 *)
OnSyncError(p) == items' = Forget(items, p.tag) /\ UNCHANGED <<loading, loaded, full, jump, requests>>

Dispatch ==
    /\ queue # <<>> /\ queue' = Tail(queue)
    /\ LET e == Head(queue) IN
       \/ e.kind = "new" /\ OnNew(e)
       \/ e.kind = "edit" /\ OnEdit(e)
       \/ e.kind = "receipt" /\ OnReceipt(e)
       \/ e.kind = "connected" /\ OnConnected
       \/ e.kind = "disconnected" /\ UNCHANGED <<items, loading, loaded, full, jump, requests>>
       \/ e.kind = "page" /\ IF e.page.kind = "since" /\ e.page.err
                             THEN OnSyncError(e.page) ELSE OnPage(e.page)
    /\ UNCHANGED <<shown, link, pages, sending, sentId, server, bounds>>

-----------------------------------------------------------------------------
User == GoTo \/ GoAway \/ Older \/ Send \/ \E m \in Ids : JumpTo(m)
Backend ==
    \/ \E r \in requests : ReadsServer(r)
    \/ \E p \in pages : PostsPage(p)
    \/ ServerTakesSend \/ PostsReceipt
Others == OthersWrite \/ GatewayDrops \/ GatewayConnects \/ Stopped \/ Started
              \/ \E m \in Ids : OthersEdit(m)

Next == User \/ Sync \/ Backend \/ Others \/ Dispatch

Spec == Init /\ [][Next]_vars

(* Dispatch, as the queue sees it: it handles every event, so the two are  *)
(* enabled together.                                                       *)
Drains == queue # <<>> /\ queue' = Tail(queue)

(* Requests are answered, with a page or an error, and the UI drains its   *)
(* channel.  Nothing is asked of the user, the others or the gateway.      *)
Fairness ==
    /\ WF_vars(\E r \in requests : ReadsServer(r))
    /\ WF_vars(\E p \in pages : PostsPage(p))
    /\ WF_queue(Drains)

FairSpec == Spec /\ Fairness

-----------------------------------------------------------------------------
Quiet == requests = {} /\ pages = {} /\ queue = <<>>

(* A message shows once: the pages, the live copy and the receipt of a     *)
(* send may all bring it, in any order (Window.Sent, Window.Merge).        *)
NoDoubles ==
    \A i, j \in DOMAIN items : items[i].id = items[j].id /\ items[i].id # 0 => i = j

(* Messages are in the order of their ids, whatever the order the pages    *)
(* and the live messages came in.  Without sends: the receipt stamps a     *)
(* pending line where it is, above or below its rank.                      *)
InOrder ==
    plan.times["send"] = 0 =>
        \A i, j \in Positions(items) : i < j => items[i].id < items[j].id

(* The window never reaches its cap.                                       *)
Roomy == plan.cap > 2 * MaxId

(* In a loaded window, two messages that follow each other do so on the    *)
(* server, or a marker tells the hole.                                     *)
HolesMarked ==
    Quiet /\ loaded => \A x, y \in ItemIds(items) :
        x < y /\ ItemIds(items) \cap (x + 1)..(y - 1) = {} =>
            \/ Exists \cap (x + 1)..(y - 1) = {}
            \/ \E i \in DOMAIN items : items[i].gap = <<x, y>>

(* So it is for a window that starts without a cache, hears every live     *)
(* message, loses no page and jumps once: Merge marks no hole between the  *)
(* cache, or what a window had before a drop, and a page of newer          *)
(* messages, and a second jump may land in a marked hole.                  *)
HolesOfOneJumpMarked ==
    /\ plan.cache = {} /\ ~plan.errors /\ Roomy
    /\ plan.times["around"] <= 1
    /\ \A k \in {"drop", "stop", "send"} : plan.times[k] = 0
    => HolesMarked

(* A page read before a live change never takes the change back.  Without  *)
(* the sync: its page may be read before, and come after, a page that was  *)
(* asked for later.                                                        *)
NoStalePage ==
    [][plan.times["since"] = 0 =>
       \A m \in ItemIds(items) \cap ItemIds(items') :
          \A i \in DOMAIN items, j \in DOMAIN items' :
              items[i].id = m /\ items'[j].id = m
                  /\ ~(queue # <<>> /\ Head(queue).kind = "new" /\ Head(queue).id = m)
              => items'[j].ver >= items[i].ver]_vars

(* A load ends: the window is never stuck "loading".                       *)
LoadingEnds == []<>~loading

(* The appointment of a jump ends: found, gone, or in error (unless the    *)
(* network stops: it then waits for the next page of the chat).            *)
JumpEnds == []<>(jump = 0 \/ left["stop"] < plan.times["stop"])

(* What a window shows, once and in order, with the holes told (Window.    *)
(* Sent, Merge, MergeAround).                                              *)
ItemsRight == TypeOK /\ NoDoubles /\ InOrder /\ HolesOfOneJumpMarked

(* What a window waits for ends: its load and its jump.                    *)
WaitsEnd == LoadingEnds /\ JumpEnds
=============================================================================
