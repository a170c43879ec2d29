------------------------------- MODULE Lookups --------------------------------
(* What the user interface asks the networks while the user goes on: the      *)
(* names of /query, of the member box and of a file send (resolve.go,         *)
(* query.go), the boxes that search as one types (netQuery: global search,    *)
(* new chat, GIFs) and the pages of the media browser. An answer comes when it*)
(* likes, after the box has closed or asked something else, or never when its *)
(* network stops. One record l; helpers take a state and give a state.        *)
EXTENDS Integers, FiniteSets, SequencesExt, Functions

CONSTANTS Nets,      \* the networks; each one resolves, searches, has contacts
          Windows,   \* windows of the user, none of them window 0
          Names,     \* 0..n: what a command can name, 0 nothing
          Claims,    \* name -> the networks whose module claims it ("#room": IRC)
          Lists,     \* the chats a start can know
          Queries,   \* 0..n: what can be typed, 0 the empty line
          Worth,     \* the queries long enough for a search of contacts
          Tabs,      \* tabs of the media browser
          Page,      \* tab -> before -> [items, next]: the pages of the network
          PerRow, Rows,  \* grid of the media browser
          MaxAuto,   \* mediaAuto
          MaxSteps,  \* bound: keys and commands of one behaviour
          None

VARIABLES l, keys
lookVars == <<l, keys>>

NoBox == [kind |-> None, q |-> 0, inflight |-> 0, sent |-> 0, asked |-> FALSE, typed |-> FALSE, err |-> FALSE,
          pending |-> 0, acc |-> <<>>, shown |-> <<>>]
NoMedia == [tab |-> None, items |-> <<>>, asked |-> -1, next |-> 0, auto |-> 0, err |-> FALSE, cur |-> 1, top |-> 1]

(*********************************** calls ***********************************)
Call(p, net, what, q, id) == [p EXCEPT !.calls = @ \cup {[n |-> p.n, net |-> net, what |-> what, q |-> q, id |-> id]},
                                       !.n = @ + 1]
CallAll(p, nets, what, q, id) == FoldSet(LAMBDA net, a : Call(a, net, what, q, id), p, nets)
Searchers(p) == IF p.filter = None THEN p.up ELSE p.up \cap {p.filter}

(****************************** names to resolve *****************************)
Lookup(id, w, q, use, nets) == [id |-> id, win |-> w, q |-> q, use |-> use, wait |-> nets, chats |-> {}]
Resolve(p, w, q, use, nets) ==
    CallAll([p EXCEPT !.lookups = @ \cup {Lookup(p.id, w, q, use, nets)}, !.id = @ + 1], nets, "resolve", q, p.id)
CancelQueryKeeps(p, w) == p
CancelQuery(p, w) == [p EXCEPT !.lookups = {r \in @ : ~(r.win = w /\ r.use = "query")}]
FindChat(p, q) == {c \in p.known : c[2] = q}
\* The network of the window when it is up, else the one of the filter when it
\* is up, else those that claim the name, else all.
WindowNet(p, w) == SelectSeq(<<p.bound[w], p.target[w]>>, LAMBDA c : c # None /\ c[1] \in p.up)
Claimed(p, w, q) == IF WindowNet(p, w) # <<>> \/ p.filter \in p.up THEN {} ELSE Claims[q] \cap p.up
ResolversFor(p, w, q) ==
    IF WindowNet(p, w) # <<>> THEN {Head(WindowNet(p, w))[1]}
    ELSE IF p.filter \in p.up THEN {p.filter}
    ELSE IF Claimed(p, w, q) # {} THEN Claimed(p, w, q) ELSE p.up
SetQuery(p, w, c) == [p EXCEPT !.target[w] = c]  \* winFor: the window of c is not a state of this module
Attach(p, w, c) ==  \* the window that already shows the chat, else this one
    IF \E v \in p.open \ {w} : p.bound[v] = c THEN p ELSE [p EXCEPT !.bound[w] = c]

\* Several chats of that name, no network to ask, or a /join that several
\* networks claim: said, and what was pending stays pending.
Refused(p, w, q, join) ==
    /\ q # 0
    /\ \/ Cardinality(FindChat(p, q)) > 1
       \/ FindChat(p, q) = {} /\ (ResolversFor(p, w, q) = {} \/ (join /\ Cardinality(Claimed(p, w, q)) > 1))
Query(p, w, q, join) ==
    LET found == FindChat(p, q)
        free == CancelQuery(p, w)
    IN  CASE Refused(p, w, q, join) -> p
          [] q = 0 -> [free EXCEPT !.target[w] = None]
          [] q # 0 /\ Cardinality(found) = 1 -> SetQuery(free, w, CHOOSE c \in found : TRUE)
          [] OTHER -> Resolve(free, w, q, "query", ResolversFor(p, w, q))
OpenMember(p, w, net, q) ==  \* in the window of the chat, else in a new one, w
    LET c == <<net, q>>
        new == [p EXCEPT !.open = @ \cup {w}, !.fresh = @ \ {w}]
    IN  CASE c \in p.known -> IF \E v \in p.open : p.bound[v] = c THEN p ELSE Attach(new, w, c)
          [] c \notin p.known /\ net \in p.up -> Resolve(new, w, q, "bind", {net})
          [] OTHER -> p
\* The answer of one network; the last one decides.
ChatResolved(p, call, ok) ==
    LET asked == {r \in p.lookups : r.id = call.id /\ call.net \in r.wait}
        r == CHOOSE r \in asked : TRUE
        a == [r EXCEPT !.wait = @ \ {call.net}, !.chats = IF ok THEN @ \cup {<<call.net, call.q>>} ELSE @]
        q == [p EXCEPT !.lookups = @ \ {r}]
        c == CHOOSE c \in a.chats : TRUE
        listed == [q EXCEPT !.known = @ \cup {c}]  \* remember, listChat
    IN  CASE asked = {} -> p
          [] asked # {} /\ a.wait # {} -> [q EXCEPT !.lookups = @ \cup {a}]
          [] asked # {} /\ a.wait = {} /\ (r.win \notin p.open \/ Cardinality(a.chats) # 1) -> q
          [] OTHER -> CASE r.use = "query" -> SetQuery(listed, r.win, c)
                        [] r.use = "bind" -> Attach(listed, r.win, c)
                        [] r.use = "file" -> listed

(************************* boxes that search as one types ********************)
Send(p) ==  \* gsSend, ncSend, gifQuery: at once or when the typing has settled
    LET b == p.box
        stay == (b.inflight # 0) \/ (b.asked /\ b.q = b.sent)
        nets == CASE b.kind = "gsearch" -> Searchers(p) [] b.kind = "newchat" -> p.up [] OTHER -> {p.gifNet} \cap p.up
        out == [b EXCEPT !.inflight = b.q, !.err = FALSE, !.asked = TRUE, !.acc = <<>>, !.pending = Cardinality(nets)]
    IN  CASE b.kind = "gsearch" /\ b.q = 0 -> [p EXCEPT !.box = [b EXCEPT !.shown = <<>>, !.sent = 0, !.err = FALSE]]
          [] b.kind = "newchat" /\ b.q \notin Worth ->
               [p EXCEPT !.box = [b EXCEPT !.shown = <<>>, !.sent = IF b.shown # <<>> \/ b.err THEN 0 ELSE @, !.err = FALSE]]
          [] stay /\ (b.kind = "gifs" \/ (b.kind = "gsearch" /\ b.q # 0) \/ b.q \in Worth) -> p
          [] ~stay /\ nets = {} -> [p EXCEPT !.box = [out EXCEPT !.sent = b.q, !.inflight = 0, !.err = TRUE]]
          [] OTHER -> CallAll([p EXCEPT !.box = out], nets, b.kind, b.q, 0)

Shown(b, q, ok, list) == [b EXCEPT !.sent = IF ok THEN q ELSE 0, !.asked = ok, !.err = ~ok, !.shown = list, !.acc = <<>>]
BoxResultQuiet(p, call, ok) ==
    LET b == [p.box EXCEPT !.inflight = 0, !.pending = 0]
    IN  IF call.what # b.kind \/ call.q # p.box.inflight THEN p
        ELSE [p EXCEPT !.box = IF b.q # call.q THEN b ELSE Shown(b, call.q, ok, <<call>>)]
BoxResult(p, call, ok) ==  \* searchGlobalResult, contactsFound, gifsResult
    LET b == p.box
        all == call.what = "gsearch"
        acc == IF all THEN (IF ok THEN Append(b.acc, call) ELSE b.acc) ELSE IF ok THEN <<call>> ELSE <<>>
        back == [b EXCEPT !.inflight = 0, !.pending = 0, !.acc = acc]
    IN  CASE call.what # b.kind \/ call.q # b.inflight -> p
          [] call.what = b.kind /\ call.q = b.inflight /\ all /\ b.pending > 1 ->
               [p EXCEPT !.box = [b EXCEPT !.pending = @ - 1, !.acc = acc]]
          [] call.what = b.kind /\ call.q = b.inflight /\ ~(all /\ b.pending > 1) /\ b.q # call.q ->
               Send([p EXCEPT !.box = back])
          [] OTHER -> [p EXCEPT !.box = Shown(back, call.q, ok \/ (all /\ acc # <<>>), acc)]

\* The address book, asked at the first opening of the box of a session.
ContactsList(p, ok) == IF ok THEN p ELSE [p EXCEPT !.gotContacts = FALSE]
OpenNewChat(p) == LET q == [p EXCEPT !.box = [NoBox EXCEPT !.kind = "newchat"]]
                  IN  IF p.gotContacts THEN q ELSE CallAll([q EXCEPT !.gotContacts = TRUE], p.up, "contacts", 0, 0)
OpenSearch(p, kind, q) == Send([p EXCEPT !.box = [NoBox EXCEPT !.kind = kind, !.q = q]])

(****************************** the media browser ****************************)
Min2(a, b) == IF a < b THEN a ELSE b
Max2(a, b) == IF a > b THEN a ELSE b
Hi(m) == Min2(Len(m.items), (m.top - 1) * PerRow + PerRow * Rows)  \* grid.visible
GridMove(m, d) ==  \* grid.move: the rows follow the current cell
    LET cur == Min2(Max2(m.cur + d, 1), Len(m.items))
        row == 1 + ((cur - 1) \div PerRow)
    IN  IF m.items = <<>> THEN m ELSE [m EXCEPT !.cur = cur, !.top = Min2(Max2(@, row - Rows + 1), row)]
LastTop(m) == Max2(0, ((Len(m.items) + PerRow - 1) \div PerRow) - Rows) + 1
GridScroll(m, d) ==  \* grid.scrollTo: the current cell stays inside
    LET s == [m EXCEPT !.top = Min2(Max2(m.top + d, 1), LastTop(m))]
    IN  IF m.items = <<>> THEN s ELSE [s EXCEPT !.cur = Min2(Max2(@, (s.top - 1) * PerRow + 1), Hi(s))]

MediaAsk(p, before) == Call([p EXCEPT !.media.asked = before, !.media.err = FALSE], p.mediaNet, "media", before, p.media.tab)
MediaTab(p, tab) == MediaAsk([p EXCEPT !.media = [NoMedia EXCEPT !.tab = tab]], 0)
Near(m) == m.asked < 0 /\ m.next # 0 /\ ~m.err
MediaLoad(p) == LET m == p.media  \* at each drawing
                IN  IF Near(m) /\ m.auto < MaxAuto /\ Hi(m) + PerRow * Rows >= Len(m.items) THEN MediaAsk(p, m.next) ELSE p
MediaRetry(p) ==
    LET q == [p EXCEPT !.media.auto = 0, !.media.err = FALSE]
    IN  IF p.media.err /\ p.media.items = <<>> /\ p.media.asked < 0 THEN MediaAsk(q, 0) ELSE q
MediaNav(p, d) ==  \* the arrows of a preview opened from the browser
    LET m == p.media
        to == m.cur + d
        q == [p EXCEPT !.media = GridMove(m, d)]
    IN  IF to \notin DOMAIN m.items THEN p
        ELSE IF to > Len(m.items) - PerRow * Rows /\ Near(m) THEN MediaAsk(q, m.next) ELSE q
MediaTaken(p, call, ok) ==
    LET m == p.media
        page == Page[m.tab][call.q]
        new == SelectSeq(page.items, LAMBDA i : i \notin Range(m.items))
        got == [m EXCEPT !.asked = -1, !.items = @ \o new, !.next = page.next, !.auto = IF new = <<>> THEN @ + 1 ELSE 0]
    IN  [p EXCEPT !.media = IF ok THEN got ELSE [m EXCEPT !.asked = -1, !.err = TRUE]]
MediaResultAnyPage(p, call, ok) == IF p.media.tab = None THEN p ELSE MediaTaken(p, call, ok)
MediaResult(p, call, ok) ==
    IF p.media.tab = None \/ call.id # p.media.tab \/ call.q # p.media.asked THEN p ELSE MediaTaken(p, call, ok)

(********************************** the steps ********************************)
ClearNetWorkKeeps(p, net) == p
ClearNetWork(p, net) ==
    LET owned(r) == net \in r.wait \/ \E c \in r.chats : c[1] = net
    IN  [p EXCEPT !.lookups = {r \in @ : ~owned(r)}, !.gotContacts = FALSE,
                  !.box = IF @.kind = "gifs" /\ p.gifNet # net THEN @ ELSE NoBox,
                  !.media = IF p.mediaNet = net THEN NoMedia ELSE @]
Answered(p, call, ok) ==
    CASE call.what = "resolve" -> ChatResolved(p, call, ok)
      [] call.what = "contacts" -> ContactsList(p, ok)
      [] call.what = "media" -> MediaResult(p, call, ok)
      [] OTHER -> BoxResult(p, call, ok)

Does(next) == keys < MaxSteps /\ keys' = keys + 1 /\ l' = next
In(scene) == l.scene = scene
QueryCmd(w, q, join) ==  \* last: what the last one that was not refused named
    In("names") /\ w \in l.open /\ Does([Query(l, w, q, join) EXCEPT !.last[w] = IF Refused(l, w, q, join) THEN @ ELSE q])
MemberCmd(w, net, q) == In("names") /\ w \in l.fresh /\ q # 0 /\ Does(OpenMember(l, w, net, q))
SendTo(w, q) == In("names") /\ w \in l.open /\ q # 0 /\ l.up # {} /\ \E net \in l.up : Does(Resolve(l, w, q, "file", {net}))
CloseWindow(w) == In("names") /\ w \in l.open
                  /\ Does([l EXCEPT !.open = @ \ {w}, !.bound[w] = None, !.target[w] = None, !.last[w] = 0])
OpenBox(kind, q) == In("boxes") /\ l.box.kind = None
                    /\ Does(IF kind = "newchat" THEN OpenNewChat(l) ELSE OpenSearch(l, kind, q))
CloseBox == l.box.kind # None /\ Does([l EXCEPT !.box = NoBox])
Edit(q) == l.box.kind # None /\ q # l.box.q /\ Does([l EXCEPT !.box = [@ EXCEPT !.q = q, !.typed = TRUE]])
Settled == l.box.typed /\ l' = Send([l EXCEPT !.box.typed = FALSE]) /\ UNCHANGED keys  \* tick: netQuery.due
OpenMedia(tab) == In("media") /\ l.mediaNet \in l.up /\ Does(MediaTab(l, tab))
CloseMedia == l.media.tab # None /\ Does([l EXCEPT !.media = NoMedia])
MediaKey(d) == l.media.tab # None /\ Does(MediaRetry([l EXCEPT !.media = GridMove(@, d)]))
MediaWheel(d) == l.media.tab # None /\ Does(MediaRetry([l EXCEPT !.media = GridScroll(@, d)]))
MediaArrow(d) == l.media.tab # None /\ Does(MediaNav(l, d))
Draw == l.media.tab # None /\ MediaLoad(l) # l /\ l' = MediaLoad(l) /\ UNCHANGED keys
Answer(call, ok) == l' = Answered([l EXCEPT !.calls = @ \ {call}], call, ok) /\ UNCHANGED keys
Answers == \E call \in l.calls, ok \in BOOLEAN : Answer(call, ok)
NetStop(net) == net \in l.up /\ Does(ClearNetWork([l EXCEPT !.up = @ \ {net}, !.calls = {c \in @ : c.net # net}], net))
NetStart(net) == net \notin l.up /\ Does([l EXCEPT !.up = @ \cup {net}])

LookInit ==
    /\ keys = 0
    /\ \E scene \in {"names", "boxes", "media"}, filter \in {None} \cup Nets, one \in Nets,
          open \in (SUBSET Windows) \ {{}}, known \in Lists :
         /\ scene = "media" => filter = None
         /\ scene # "names" => open = Windows /\ known = {}
         /\ l = [scene |-> scene, filter |-> filter, gifNet |-> one, mediaNet |-> one, up |-> Nets, calls |-> {}, n |-> 0,
                 lookups |-> {}, id |-> 0, open |-> open, fresh |-> Windows \ open, bound |-> [w \in Windows |-> None],
                 target |-> [w \in Windows |-> None], last |-> [w \in Windows |-> 0], known |-> known,
                 box |-> NoBox, gotContacts |-> FALSE, media |-> NoMedia]
LookNext ==
    \/ \E w \in Windows, q \in Names : SendTo(w, q) \/ (\E join \in BOOLEAN : QueryCmd(w, q, join)) \/ \E net \in Nets : MemberCmd(w, net, q)
    \/ \E w \in Windows : CloseWindow(w)
    \/ \E kind \in {"gsearch", "newchat", "gifs"}, q \in Queries : OpenBox(kind, q)
    \/ \E q \in Queries : Edit(q)
    \/ CloseBox \/ Settled \/ CloseMedia \/ Draw \/ Answers
    \/ \E tab \in Tabs : OpenMedia(tab)
    \/ \E d \in {-1, 1} : MediaKey(d) \/ MediaWheel(d) \/ MediaArrow(d)
    \/ \E net \in Nets : NetStop(net) \/ NetStart(net)

(********************************* properties ********************************)
\* Whatever shows as being asked has an answer on its way: a network that stops
\* leaves no lookup pending, no box and no page in flight behind it.
AnswersComing ==
    /\ \A r \in l.lookups, net \in Nets : net \in r.wait => \E c \in l.calls : c.what = "resolve" /\ c.id = r.id /\ c.net = net
    /\ l.box.inflight # 0 => \E c \in l.calls : c.what = l.box.kind /\ c.q = l.box.inflight
    /\ l.media.asked >= 0 => \E c \in l.calls : c.what = "media" /\ c.id = l.media.tab /\ c.q = l.media.asked

\* A window waits for one /query at most (queryPending names it).
OnePending == \A r1, r2 \in {r \in l.lookups : r.use = "query"} : r1.win = r2.win => r1 = r2

\* An answer acts on what the user asked last: the target a window takes when a
\* network answers is of its last /query that was not refused, and the results a
\* box takes are of the query it shows. (A refused /query or /join, of a name that
\* is ambiguous or claimed by several networks, leaves the one before pending:
\* query.go:60 and 68.)
AnswersLast == keys' = keys =>
    /\ \A w \in Windows : l'.target[w] # l.target[w] => l'.target[w] # None /\ l'.target[w][2] = l.last[w]
    /\ l'.box.shown # l.box.shown => \A c \in Range(l'.box.shown) : c.q = l'.box.q

\* The media browser lists the media of its tab from the newest on, with none
\* twice and none left out, whatever pages overlap, fail or come late.
MediaInOrder ==
    l.media.tab # None =>
      LET all == FlattenSeq([i \in 1..3 |-> LET F[k \in 1..3] == IF k = 1 THEN 0 ELSE Page[l.media.tab][F[k - 1]].next
                                            IN  IF i > 1 /\ F[i] = 0 THEN <<>> ELSE Page[l.media.tab][F[i]].items])
          once == SelectSeq([i \in DOMAIN all |-> i], LAMBDA i : \A j \in 1..(i - 1) : all[j] # all[i])
      IN  IsPrefix(l.media.items, [k \in DOMAIN once |-> all[once[k]]])

\* A box comes to rest on what was typed last: its results, or an error.
BoxAtRest(q) == \/ l.box.kind = None \/ l.box.q # q \/ l.box.err
                \/ l.box.sent = q
                \/ l.box.kind = "newchat" /\ q \notin Worth

\* The hits of a global search pile up until every network asked has answered
\* (search.go:477): what shows holds an answer of each, once.
HitsOfEach == l'.box.kind = "gsearch" /\ l'.box.shown # l.box.shown =>
    \A i, j \in DOMAIN l'.box.shown : i # j => l'.box.shown[i].net # l'.box.shown[j].net
===============================================================================
