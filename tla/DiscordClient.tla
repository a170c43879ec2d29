----------------------------- MODULE DiscordClient -----------------------------
(* The Discord backend (protocols/dsc): the gateway events, handled one after *)
(* the other and read from the store of the state (arikawa, modelled from its *)
(* use: history, message, reactions, guildGone); the goroutines of the calls; *)
(* the list of the chats, the custom emojis; the searches and their sweep;    *)
(* downloads and uploads; the QR login and the token file. One record d; each *)
(* behaviour plays a scene.                                                   *)
EXTENDS Integers, FiniteSets, SequencesExt

CONSTANTS Messages,  \* bound: ids of a channel, 1..Messages
          StoreCap,  \* messages the store keeps of a channel (100)
          PageSize,  \* messages of a page
          Targets,   \* guilds and DMs of a sweep (20 at most)
          DlSlots,   \* dlSem, ulSem
          MaxOps,    \* bound: steps of the user and the server
          None
DscAssumption == None \notin {"temp", "part", "whole", "live", "dead", "revoked"} /\ StoreCap \in Nat /\ PageSize \in Nat

VARIABLES d, ops
dscVars == <<d, ops>>
Does(next) == ops < MaxOps /\ ops' = ops + 1 /\ d' = next  \* the user, the server
Goes(next) == d' = next /\ UNCHANGED ops                   \* the goroutines, the gateway loop
In(scene) == d.scene = scene

(******************* the store, the messages, the reactions ******************)
Held(store, id) == \E i \in DOMAIN store : store[i].id = id
MessageSet(store, m) ==  \* newest first; only above its first or below its last
    IF store = <<>> \/ m.id > Head(store).id THEN SubSeq(<<m>> \o store, 1, IF Len(store) < StoreCap THEN Len(store) + 1 ELSE StoreCap)
    ELSE IF m.id < Last(store).id /\ Len(store) < StoreCap THEN Append(store, m)
    ELSE store
Place(store, id) == CHOOSE i \in DOMAIN store : store[i].id = id
ReactsOf(store, id) == store[Place(store, id)].reacts
Show(ui, id, reacts) == [x \in DOMAIN ui \cup {id} |-> IF x = id THEN reacts ELSE ui[x]]

\* The gateway: what the server does goes out as events, taken in order.
Live == DOMAIN d.sv
Server(sv, k, id, who) == In("live") /\ Does([d EXCEPT !.sv = sv, !.ups = Append(@, [k |-> k, id |-> id, who |-> who])])
ServerCreates == d.top < Messages /\ In("live")
    /\ Does([d EXCEPT !.top = @ + 1, !.sv = Show(@, d.top + 1, {}), !.ups = Append(@, [k |-> "create", id |-> d.top + 1, who |-> None])])
ServerReacts(id, k) == id \in Live /\ (k = "add") = ("other" \notin d.sv[id])
    /\ Server(Show(d.sv, id, IF k = "add" THEN d.sv[id] \cup {"other"} ELSE d.sv[id] \ {"other"}), k, id, "other")
ServerClears(id) == id \in Live /\ d.sv[id] # {} /\ Server(Show(d.sv, id, {}), "clear", id, None)
ServerDeletes(id) == id \in Live /\ Server(Restrict(d.sv, Live \ {id}), "delete", id, None)

Applied(up, reacts) == CASE up.k = "add" -> reacts \cup {up.who} [] up.k = "remove" -> reacts \ {up.who} [] OTHER -> {}
Change(store, up) == [i \in DOMAIN store |-> IF store[i].id = up.id THEN [store[i] EXCEPT !.reacts = Applied(up, @)] ELSE store[i]]
InFlight(id) == \E p \in d.tasks : p.k = "page" /\ p.ph # "asked" /\ \E i \in DOMAIN p.ms : p.ms[i].id = id
Reactions(p, up) ==  \* reactions: the whole list of the store's copy, or nothing
    [p EXCEPT !.ui = IF Held(p.store, up.id) /\ up.id \in DOMAIN @ THEN Show(@, up.id, ReactsOf(p.store, up.id)) ELSE @]
Handle ==  \* wire: the state applies the event, then the handler posts
    /\ d.ups # <<>>
    /\ LET up == Head(d.ups)
           p == [d EXCEPT !.ups = Tail(@), !.still = @ /\ up.k \notin {"create", "delete"}]
       IN  CASE up.k = "create" -> Goes([p EXCEPT !.store = MessageSet(@, [id |-> up.id, reacts |-> {}]), !.ui = Show(@, up.id, {})])
             [] up.k = "delete" -> Goes([p EXCEPT !.store = IF Held(@, up.id) THEN RemoveAt(@, Place(@, up.id)) ELSE @, !.ui = Restrict(@, DOMAIN @ \ {up.id})])
             [] OTHER -> Goes(Reactions([p EXCEPT !.store = Change(@, up),
                             !.raced = IF ~Held(d.store, up.id) \/ InFlight(up.id) THEN @ \cup {up.id} ELSE @], up))

\* history: a page read by REST goes in the store one message after the other,
\* live events between two of them, then is posted. set: how many are in; fits:
\* the page was apart from what the store held, with room; still: no message
\* came or went since it was read.
DTask(k, older, ph, add) == [k |-> k, older |-> older, ph |-> ph, ms |-> <<>>, set |-> 0, fits |-> FALSE, add |-> add]
Apart(store, ms, older) ==
    \/ store = <<>>
    \/ ~older /\ \A i \in DOMAIN ms : ms[i].id > Head(store).id
    \/ older /\ \A i \in DOMAIN ms : ms[i].id < Last(store).id
IsPage(s, ids) ==  \* the newest of them, newest first
    /\ \A i, j \in DOMAIN s : i < j => s[i] > s[j]
    /\ \A x \in ids : (\E i \in DOMAIN s : s[i] = x) \/ (Len(s) = PageSize /\ \A i \in DOMAIN s : x < s[i])
Page(ids) == UNION {{s \in [1..n -> ids] : IsPage(s, ids)} : n \in 0..PageSize}
Read(s) == [i \in DOMAIN s |-> [id |-> s[i], reacts |-> d.sv[s[i]]]]
LoadHistory(older) == In("live") /\ {p \in d.tasks : p.k = "page"} = {} /\ (older => DOMAIN d.ui # {})
    /\ Does([d EXCEPT !.tasks = @ \cup {DTask("page", older, "asked", None)}])
Step(p, next) == [d EXCEPT !.tasks = (@ \ {p}) \cup {next}]
Got(p, ms) == [p EXCEPT !.ph = "got", !.ms = ms, !.fits = Len(d.store) + Len(ms) <= StoreCap /\ Apart(d.store, ms, p.older)]
SeedNewestFirst(p) == p.ms[p.set + 1]
Seed(p) == p.ms[IF p.older THEN p.set + 1 ELSE Len(p.ms) - p.set]  \* away from what the store holds
HistoryGoes(p) ==
    /\ p.k = "page"
    /\ \/ p.ph = "asked" /\ Goes([d EXCEPT !.tasks = @ \ {p}])  \* an error
       \/ p.ph = "asked" /\ \E s \in Page(IF p.older THEN {i \in Live : \A j \in DOMAIN d.ui : i < j} ELSE Live) :
              Goes([Step(p, Got(p, Read(s))) EXCEPT !.still = TRUE, !.raced = @ \cup {d.ups[i].id : i \in {j \in DOMAIN d.ups : d.ups[j].k = "create"}}])
       \/ p.ph = "got" /\ p.set < Len(p.ms) /\ Goes([Step(p, [p EXCEPT !.set = @ + 1]) EXCEPT !.store = MessageSet(@, Seed(p))])
       \/ p.ph = "got" /\ p.set = Len(p.ms)
          /\ LET new == {p.ms[i].id : i \in DOMAIN p.ms} \ DOMAIN d.ui
             IN  Goes([d EXCEPT !.tasks = @ \ {p}, !.ui = [x \in DOMAIN @ \cup new |->
                           IF x \in DOMAIN @ THEN @[x] ELSE p.ms[CHOOSE i \in DOMAIN p.ms : p.ms[i].id = x].reacts]])

\* React: a click on my own reaction takes it back; the store's copy or a page read.
Toggle(mine) == IF mine THEN "remove" ELSE "add"
React(id) == In("live") /\ id \in DOMAIN d.ui /\ {p \in d.tasks : p.k = "react"} = {}
             /\ Does([d EXCEPT !.tasks = @ \cup {DTask("react", FALSE, "read", id)}])
ReactGoes(p) ==
    /\ p.k = "react"
    /\ \/ p.ph = "read" /\ \E reacts \in IF Held(d.store, p.add) THEN {ReactsOf(d.store, p.add)}
                                          ELSE {{}} \cup {d.sv[i] : i \in Live \cap {p.add}} :
              Goes(Step(p, [p EXCEPT !.ph = Toggle("me" \in reacts)]))  \* message, toggleReaction; a failed read adds
       \/ p.ph # "read" /\ Goes([d EXCEPT !.tasks = @ \ {p}])  \* refused
       \/ /\ p.ph # "read" /\ p.add \in Live
          /\ LET sv == IF p.ph = "add" THEN d.sv[p.add] \cup {"me"} ELSE d.sv[p.add] \ {"me"}
             IN  Goes([d EXCEPT !.tasks = @ \ {p}, !.sv = Show(@, p.add, sv),
                                !.ups = IF sv = d.sv[p.add] THEN @ ELSE Append(@, [k |-> p.ph, id |-> p.add, who |-> "me"])])

(********************** the list of the chats, the emojis ********************)
\* A guild channel G, a DM D, and a channel T the store does not hold (a thread):
\* its chat names no guild. line, chans: the guild and its channels in the
\* store; emo, cache: the custom emojis of the store and of customsOf.
Guild(next) == In("guilds") /\ Does([d EXCEPT !.g = next])
OutageDrops == d.g.sv = "in" /\ Guild([d.g EXCEPT !.sv = "outage", !.line = FALSE, !.ui = @ \ {"G"}])
Outage == d.g.sv = "in" /\ Guild([d.g EXCEPT !.sv = "outage", !.line = FALSE])
Back == d.g.sv = "outage" /\ Guild([d.g EXCEPT !.sv = "in", !.line = TRUE, !.chans = TRUE, !.cache = None])
GuildGone == d.g.sv = "in" /\ Guild([d.g EXCEPT !.sv = "out", !.line = FALSE, !.ui = IF d.g.chans THEN @ \ {"G"} ELSE @])
EmojisChange == d.g.line /\ Guild([d.g EXCEPT !.emo = @ + 1, !.cache = None, !.crossed = \E p \in d.tasks : p.ph = "cached"])
ChatFor(c) == d.g.sv = "in" /\ Guild([d.g EXCEPT !.ui = @ \cup {c}, !.cache = IF c = "G" /\ d.g.chans /\ @ = None THEN d.g.emo ELSE @])
LoadDialogs == In("guilds") /\ d.tasks = {}
               /\ Does([d EXCEPT !.tasks = {[k |-> "list", ph |-> "guilds", guild |-> FALSE, complete |-> TRUE, emo |-> None]}])
Listed(p, next, chans) == [d EXCEPT !.tasks = {[p EXCEPT !.ph = next, !.guild = @ /\ chans, !.complete = @ /\ (p.guild => chans)]}]
ReadyIgnored(g) == FALSE
ReadyIncomplete(g) == g.incomplete
DialogsGo(p) ==
    /\ p.k = "list"
    /\ CASE p.ph = "guilds" -> Goes([d EXCEPT !.tasks = {}]) \/ Goes([d EXCEPT !.tasks = {[p EXCEPT !.ph = "chans", !.guild = d.g.line]},
                                              !.g.missed = @ \/ (~d.g.line /\ ~d.g.incomplete)])
         [] p.ph = "chans" -> \E ok \in BOOLEAN : Goes(Listed(p, "emojis", ok /\ d.g.chans))
         [] p.ph = "emojis" -> Goes([d EXCEPT !.tasks = {[p EXCEPT !.ph = "cached", !.emo = IF p.guild /\ d.g.cache = None THEN d.g.emo ELSE None]}])
         [] p.ph = "cached" -> Goes([d EXCEPT !.tasks = {[p EXCEPT !.ph = "post"]}, !.g.cache = IF p.emo = None THEN @ ELSE p.emo])
         [] p.ph = "post" ->  \* the UI drops what a complete list misses
              LET listed == IF p.guild THEN {"D", "G"} ELSE {"D"}
              IN  Goes([d EXCEPT !.tasks = {}, !.g.ui = IF p.complete /\ ~ReadyIncomplete(d.g) THEN listed ELSE @ \cup listed])
DeleteByHandle(g, c) == c \in {"D", "T"}  \* no guild in the handle
DeleteAllowed(g, c) == c = "D"  \* a channel the store knows as a DM
DeleteChat(c) == In("guilds") /\ c \in d.g.ui /\ DeleteAllowed(d.g, c)
                 /\ Guild([d.g EXCEPT !.ui = @ \ {c}, !.destroyed = @ \cup {c}])

(********************************* the searches ******************************)
\* q: one search (all FALSE) or a sweep of Targets, one request after the other;
\* tries: the requests of the present target.
AskSearch(all) == In("search") /\ d.q.ph = "idle" /\ Does([d EXCEPT !.q.all = all, !.q.ph = "get"])
BudgetSpent == In("search") /\ d.q.ph \in {"get", "wait", "pace"} /\ ~d.q.over /\ Does([d EXCEPT !.q.over = TRUE])  \* or a quit
Asked(q, r) == LET last == ~q.all \/ q.at = Targets
               IN  [q EXCEPT !.tries = 0, !.asked = @ + 1, !.hits = @ + (IF r = "hits" THEN 1 ELSE 0),
                             !.errs = @ + (IF r = "err" THEN 1 ELSE 0), !.ph = IF last THEN "post" ELSE "pace"]
TrustsIndex(q) == Asked(q, "none")
StillIndexing(q) == Asked(q, "err")  \* not "no result"
Search ==  \* search
    /\ In("search")
    /\ \/ d.q.ph = "get" /\ \E r \in IF d.q.over THEN {"err"} ELSE {"hits", "none", "err"} :
            Goes([d EXCEPT !.q = [Asked(d.q, r) EXCEPT !.full = @ + (IF r = "err" THEN 0 ELSE 1)]])
       \/ d.q.ph = "get" /\ ~d.q.over /\ d.q.tries = 0 /\ Goes([d EXCEPT !.q.ph = "wait", !.q.tries = 1])
       \/ d.q.ph = "get" /\ ~d.q.over /\ d.q.tries = 1 /\ Goes([d EXCEPT !.q = StillIndexing(d.q)])
       \/ d.q.ph = "wait" /\ Goes([d EXCEPT !.q = IF d.q.over THEN Asked(d.q, "err") ELSE [d.q EXCEPT !.ph = "get"]])
SearchGlobal ==
    /\ In("search")
    /\ \/ d.q.ph = "pace" /\ Goes([d EXCEPT !.q.ph = IF d.q.over THEN "post" ELSE "get", !.q.at = IF d.q.over THEN @ ELSE @ + 1])
       \/ d.q.ph = "post" /\ Goes([d EXCEPT !.q.ph = "done", !.q.said = IF d.q.hits > 0 THEN "hits" ELSE IF d.q.errs > 0 THEN "error" ELSE "none"])

(********************************* transfers *********************************)
\* One media file; a transfer: wait for a slot, look for the file, then the body:
\* moving or stalled, of an announced or an unknown size.
Xfer(kind, work) == [id |-> ops, kind |-> kind, work |-> work, ph |-> "wait", body |-> "moving", got |-> None]
Busy(kind) == Cardinality({x \in d.files : x.kind = kind /\ x.ph = "run"})
Set(x, y) == [d EXCEPT !.files = (@ \ {x}) \cup {y}]
Over(x, got) == Set(x, [x EXCEPT !.ph = "done", !.got = got])
Download == In("files") /\ Does([d EXCEPT !.files = @ \cup {Xfer("down", FALSE)}])
Upload(work) == In("files") /\ Does([d EXCEPT !.files = @ \cup {Xfer("up", work)}])
Quit == In("files") /\ ~d.quit /\ Does([d EXCEPT !.quit = TRUE])
Stalls(x) == x.ph = "run" /\ x.kind = "down" /\ x.body = "moving" /\ Does(Set(x, [x EXCEPT !.body = "stalled"]))
Slot(x) == x.ph = "wait" /\ \/ Busy(x.kind) < DlSlots /\ Goes(Set(x, [x EXCEPT !.ph = "run"]))
                            \/ d.quit /\ Goes(Over(x, IF x.kind = "up" THEN "error" ELSE None))
WaitsForBytes(x) == x.got = "temp" /\ x.body = "moving" /\ \E ok \in BOOLEAN :
    Goes([Over(x, IF ok THEN "whole" ELSE "error") EXCEPT !.temps = @ - 1, !.path = IF ok THEN "whole" ELSE @])
Fetch(x) ==  \* the body ends, is too big or fails; dlIdle ends a stalled one, as a quit does
    x.got = "temp" /\ \E ok \in IF x.body = "moving" THEN BOOLEAN ELSE {FALSE} :
      Goes([Over(x, IF ok THEN "whole" ELSE "error") EXCEPT !.temps = @ - 1, !.path = IF ok THEN "whole" ELSE @])
DownloadGoes(x) ==
    \/ x.got = None /\ d.path # "none" /\ Goes(Over(x, d.path))
    \/ x.got = None /\ d.path = "none" /\ Goes(Over(x, "error"))  \* refused URL or status, a foreign handle
    \/ x.got = None /\ d.path = "none" /\ Goes([Set(x, [x EXCEPT !.got = "temp"]) EXCEPT !.temps = @ + 1])
    \/ Fetch(x)
UploadGoes(x) == \E ok \in BOOLEAN : Goes([Over(x, IF ok THEN "sent" ELSE "error") EXCEPT !.gone = IF ok /\ x.work THEN @ \cup {x.id} ELSE @])
Transfers == \E x \in d.files : Slot(x) \/ (x.ph = "run" /\ IF x.kind = "down" THEN DownloadGoes(x) ELSE UploadGoes(x))

(************************** the login, the token file ************************)
\* file: the token of the QR login; own: a token_cmd gives it (TokenFile "").
\* dead: the server took the token back; at: where Run is.
Login(next) == d' = [d EXCEPT !.lg = next] /\ UNCHANGED ops
Acts(next) == In("login") /\ Does([d EXCEPT !.lg = next])
Ends(l, why) == [l EXCEPT !.at = "ended", !.why = why, !.overlay = FALSE, !.prompt = FALSE]
StartRun == d.lg.at \in {"off", "ended"} /\ LET qr == ~d.lg.own /\ d.lg.file = None
    IN  Acts([d.lg EXCEPT !.why = None, !.revoked = FALSE, !.entered = FALSE, !.at = IF qr THEN "qr" ELSE "open", !.prompt = qr])
ShowCode == d.lg.at = "qr" /\ Acts([d.lg EXCEPT !.overlay = TRUE])   \* pending_remote_init
Scanned == d.lg.at = "qr" /\ d.lg.overlay /\ Acts([d.lg EXCEPT !.prompt = TRUE])  \* pending_ticket: another question
Enter == d.lg.at = "qr" /\ d.lg.prompt /\ ~d.lg.entered /\ Acts([d.lg EXCEPT !.entered = TRUE])
Taken(l) == [Ends(l, None) EXCEPT !.at = "open", !.file = "live"]
PendingLogin == d.lg.at = "qr" /\ d.lg.overlay /\ Acts(Taken(d.lg))  \* the token came, entered or not
QRFails == d.lg.at = "qr" /\ Acts(Ends(d.lg, "failed"))             \* refused, expired, the write of the file
GivesUp == In("login") /\ d.lg.at = "qr" /\ d.lg.entered /\ Login(Ends(d.lg, "cancelled"))
Revoke == d.lg.file = "live" /\ Acts([d.lg EXCEPT !.file = "dead"])
ForgetAtWait(l) == IF l.revoked /\ ~l.own /\ l.at = "run" THEN [l EXCEPT !.file = None] ELSE l
ForgetRevoked(l) == IF l.revoked /\ ~l.own THEN [l EXCEPT !.file = None] ELSE l
Open ==  \* Run after the token: READY, or its end; the 4004 is seen by the Disconnected handler first
    /\ In("login") /\ d.lg.at = "open"
    /\ IF d.lg.file = "dead" THEN LET l == [d.lg EXCEPT !.revoked = TRUE] IN Login(Ends(ForgetRevoked(l), "revoked"))
       ELSE Login([d.lg EXCEPT !.at = "run"]) \/ Login(Ends(ForgetRevoked(d.lg), "failed"))
Closed == In("login") /\ d.lg.at = "run" /\ d.lg.file = "dead"
          /\ LET l == [d.lg EXCEPT !.revoked = TRUE] IN Login(Ends(ForgetRevoked(l), "revoked"))
LosesNet == d.lg.at = "run" /\ Acts(Ends(ForgetRevoked(d.lg), "failed"))
QuitRun == d.lg.at \in {"qr", "open", "run"} /\ Acts(Ends(d.lg, "quit"))
Logout == d.lg.at = "run" /\ Acts(IF d.lg.own THEN Ends(d.lg, "quit") ELSE [Ends(d.lg, "logout") EXCEPT !.file = None])

(********************************** the calls ********************************)
\* needs: nothing (refused at once), the store, one request or more; answer:
\* always (an error, a panic too), on success, or never.
Op(name, needs, answer) == [name |-> name, needs |-> needs, answer |-> answer]
SearchContacts == Op("SearchContacts", "nothing", "always")
Contacts == Op("Contacts", "nothing", "always")
Resolve == Op("Resolve", "nothing", "always")
Whois == Op("Whois", "nothing", "always")
WhoRead == Op("WhoRead", "nothing", "always")
DownloadMap == Op("DownloadMap", "nothing", "always")
Block == Op("Block", "nothing", "never")
Send == Op("send", "request", "always")
Forward == Op("Forward", "request", "always")
Edit == Op("edit", "request", "always")
Delete == Op("Delete", "request", "success")
Pin == Op("Pin", "request", "never")
SearchChat == Op("Search", "request", "always")
SearchMedia == Op("SearchMedia", "request", "always")
SearchGifs == Op("SearchGifs", "request", "always")
Participants == Op("Participants", "store", "always")
Info == Op("Info", "read", "always")
WhoReacted == Op("WhoReacted", "read", "quiet")
Typing == Op("Typing", "request", "never")
MarkRead == Op("MarkRead", "store", "never")
Away == Op("Away", "store", "never")
Calls == {SearchContacts, Contacts, Resolve, Whois, WhoRead, DownloadMap, Block, Send, Forward, Edit, Delete, Pin, SearchChat,
          SearchMedia, SearchGifs, Participants, Info, WhoReacted, Typing, MarkRead, Away}
Call(op) == In("calls") /\ d.calls = {} /\ Does(  \* one: they share nothing
                              [d EXCEPT !.calls = @ \cup {[id |-> ops, op |-> op, ph |-> op.needs, answers |-> 0]}])
Answers(c, ph, n) == [d EXCEPT !.calls = (@ \ {c}) \cup {[c EXCEPT !.ph = ph, !.answers = @ + n]}]
GuardSilent(c, r) == IF r = "ok" /\ c.op.answer # "never" THEN 1 ELSE 0
Guarded(c, r) ==  \* what is posted at the end: r is ok, err or panic
    IF c.op.answer = "always" \/ (c.op.answer = "success" /\ r = "ok") \/ (c.op.answer = "quiet" /\ r # "panic") THEN 1 ELSE 0
CallGoes(c) ==
    \/ c.ph = "nothing" /\ Goes(Answers(c, "done", Guarded(c, "ok")))
    \/ c.ph = "read" /\ Goes(Answers(c, "request", 0))  \* message: the store, or a page around it
    \/ c.ph \in {"store", "read", "request"} /\ \E r \in {"ok", "err", "panic"} : Goes(Answers(c, "done", Guarded(c, r)))
CallsGo == \E c \in d.calls : CallGoes(c)

DscInit ==
    /\ ops = 0
    /\ \E scene \in {"live", "guilds", "search", "files", "login", "calls"}, incomplete \in BOOLEAN, own \in BOOLEAN, top \in 1..2 :
         /\ incomplete => scene = "guilds"
         /\ own => scene = "login"
         /\ top = 2 => scene = "live"
         /\ d = [scene |-> scene, tasks |-> {}, top |-> top, sv |-> [i \in 1..top |-> {}], ups |-> <<>>, store |-> <<>>,
                 ui |-> [i \in {} |-> {}], raced |-> {}, still |-> FALSE,
                 g |-> [sv |-> IF incomplete THEN "outage" ELSE "in", incomplete |-> incomplete, line |-> ~incomplete,
                        chans |-> ~incomplete, emo |-> 0, cache |-> None, crossed |-> FALSE, ui |-> {"D", "G"},
                        missed |-> FALSE, destroyed |-> {}],
                 q |-> [all |-> FALSE, ph |-> "idle", at |-> 1, tries |-> 0, asked |-> 0, hits |-> 0, errs |-> 0, full |-> 0,
                        over |-> FALSE, said |-> None],
                 files |-> {}, path |-> "none", temps |-> 0, gone |-> {}, quit |-> FALSE,
                 lg |-> [at |-> "off", why |-> None, file |-> IF own THEN "live" ELSE None, own |-> own, overlay |-> FALSE,
                         prompt |-> FALSE, entered |-> FALSE, revoked |-> FALSE],
                 calls |-> {}]

DscNext ==
    \/ ServerCreates \/ (\E id \in 1..Messages : ServerReacts(id, "add") \/ ServerReacts(id, "remove") \/ ServerClears(id) \/ ServerDeletes(id))
    \/ Handle \/ (\E older \in BOOLEAN : LoadHistory(older)) \/ (\E id \in 1..Messages : React(id))
    \/ (\E p \in d.tasks : HistoryGoes(p) \/ ReactGoes(p) \/ DialogsGo(p))
    \/ Outage \/ Back \/ GuildGone \/ EmojisChange \/ LoadDialogs \/ (\E c \in {"G", "T"} : ChatFor(c)) \/ (\E c \in {"D", "G", "T"} : DeleteChat(c))
    \/ (\E all \in BOOLEAN : AskSearch(all)) \/ BudgetSpent \/ Search \/ SearchGlobal
    \/ Download \/ (\E work \in BOOLEAN : Upload(work)) \/ Quit \/ (\E x \in d.files : Stalls(x)) \/ Transfers
    \/ StartRun \/ ShowCode \/ Scanned \/ Enter \/ PendingLogin \/ QRFails \/ GivesUp \/ Revoke \/ Open \/ Closed \/ LosesNet
    \/ QuitRun \/ Logout
    \/ (\E op \in Calls : Call(op)) \/ CallsGo

(********************************* properties ********************************)
\* Once nothing is on its way, a message on the screen that the store holds
\* shows the reactions of the server, however adds, removals, clicks and the
\* reads of a page came between; but for a message whose event crossed a page.
ReactsFollow == (In("live") /\ d.ups = <<>> /\ d.tasks = {}) =>
    \A id \in (DOMAIN d.ui \cap Live) \ d.raced : Held(d.store, id) => d.ui[id] = d.sv[id] /\ ReactsOf(d.store, id) = d.sv[id]

\* A page wholly above or below what the store held, with room for it, is held
\* whole once it is seeded, unless a message came or went meanwhile: its messages
\* can be acked, reacted to and followed.
PageHeld == \A p \in d.tasks : p.k = "page" /\ p.fits /\ d.still /\ p.set = Len(p.ms) => \A i \in DOMAIN p.ms : Held(d.store, p.ms[i].id)

\* A guild the account is still in keeps its chats, through an outage too, and
\* DeleteChat never deletes a channel of a guild, and the custom emojis offered
\* are those of the guild. (missed: a list read the guilds during an outage that
\* READY did not tell; crossed: the emojis changed while a list built its copy.)
GuildsKept == /\ (d.g.sv # "out" /\ ~d.g.missed) => "G" \in d.g.ui
              /\ d.g.destroyed \subseteq {"D"}
              /\ (d.g.cache # None /\ ~d.g.crossed) => d.g.cache = d.g.emo
OutageKeeps == d.g.sv = "outage" => "G" \in d.g.ui

\* A search that says "no result" had a whole answer of every place, an index
\* still being built, a refusal or a budget spent within a request never reads
\* as none; but for the places a sweep had still to ask when its budget ended
\* between two requests, which it leaves out without a word (search.go:202-208).
Places(q) == IF q.all THEN Targets ELSE 1
SearchHonest == d.q.ph = "done" =>
    /\ d.q.said = "none" => /\ d.q.full = d.q.asked /\ d.q.asked > 0
                            /\ d.q.asked = Places(d.q) \/ (d.q.all /\ d.q.over)
    /\ d.q.said = "error" => d.q.hits = 0

\* A file of the cache is whole, nothing temporary is left, a pasted image goes
\* only once it was sent, and never more than the slots run.
FilesRight ==
    /\ d.path # "part" /\ ((\A x \in d.files : x.ph = "done") => d.temps = 0)
    /\ \A x \in d.files : x.id \in d.gone => x.work /\ x.got = "sent"

\* Every transfer ends, a stalled download frees its slot for the next.
FilesOver == \A x \in d.files : x.ph = "done"

\* After a login nothing of the QR is left; a token the server took back is
\* forgotten with the run it ended, so the next login shows a QR; the token of
\* the user's own command, and the one of a quit, stay.
LoginRight ==
    /\ d.lg.at # "qr" => ~d.lg.overlay /\ ~d.lg.prompt
    /\ d.lg.why = "revoked" /\ ~d.lg.own => d.lg.file = None
    /\ d.lg.own => d.lg.file # None

\* A call the user waits for is answered, and once.
AnsweredOnce == \A c \in d.calls : c.answers <= 1 /\ (c.ph = "done" /\ c.op.answer = "always" => c.answers = 1)
CallsOver == \A c \in d.calls : c.ph = "done"
==============================================================================
