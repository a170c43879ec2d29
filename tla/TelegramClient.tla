---------------------------- MODULE TelegramClient ----------------------------
(* The Telegram backend (protocols/tgc): the calls of the user interface, each*)
(* one a goroutine that posts its answer, behind one FLOOD_WAIT breaker; the  *)
(* peers seen; the update loop with the quotes and pins read off it and my    *)
(* reactions read again; uploads and downloads; the QR login. One channel     *)
(* carries the events in the order they are posted, so a post is taken by the *)
(* user interface at once here. One record t; each behaviour plays a scene.   *)
EXTENDS Integers, FiniteSets, SequencesExt

CONSTANTS MaxCalls,  \* bound: calls, transfers or server changes of a behaviour
          MaxTicks,  \* bound: seconds of the clock
          Wait,      \* seconds of a FLOOD_WAIT
          Slots,     \* dlSem, ulSem, fillSem
          None
TgcAssumption == Wait \in Nat /\ None \notin {"temp", "part", "whole"}

VARIABLES t, moves
tgcVars == <<t, moves>>
Does(next) == moves < MaxCalls /\ moves' = moves + 1 /\ t' = next  \* the user, the server, the clock
Goes(next) == t' = next /\ UNCHANGED moves                         \* the goroutines
In(scene) == t.scene = scene

(********************************* the breaker *******************************)
FloodOK(p) == p.now > p.until
FloodTripAny(p, d) == [p EXCEPT !.until = p.now + d, !.warns = IF FloodOK(p) THEN @ + 1 ELSE @]
FloodTrip(p, d) == [p EXCEPT !.until = IF p.now + d > @ THEN p.now + d ELSE @, !.warns = IF FloodOK(p) THEN @ + 1 ELSE @,
                             !.openings = IF FloodOK(p) THEN @ + 1 ELSE @]
Tick == In("calls") /\ t.now < MaxTicks /\ t' = [t EXCEPT !.now = @ + 1] /\ UNCHANGED moves

(********************************** the peers ********************************)
\* What is known of a peer: nothing, a min entity (its hash is worth nothing
\* to a call), or a whole one.
RememberAny(p, e) == [p EXCEPT !.seen = e]
Remember(p, e) == [p EXCEPT !.seen = IF e = "min" /\ @ # "none" THEN @ ELSE e]

(********************************** the calls ********************************)
\* gate: the breaker is asked first, before the goroutine ("now"), in it
\* ("check") or never; known: a peer already seen spares the call; trips: a
\* FLOOD_WAIT of the call opens the breaker; answer: always, on success or
\* never; more: a second call, gated as said, whose failure leaves the answer.
Op(name, gate, trips, answer, more) == [name |-> name, gate |-> gate, trips |-> trips, answer |-> answer, more |-> more]
Contacts == Op("Contacts", "check", TRUE, "always", "none")
SearchContacts == Op("SearchContacts", "check", TRUE, "always", "none")
Resolve == Op("Resolve", "known", TRUE, "always", "none")
ResolveJoin == Op("ResolveJoin", "known", TRUE, "always", "need")
MarkRead == Op("MarkRead", "now", FALSE, "never", "none")
ReadReactions == Op("ReadReactions", "now", FALSE, "never", "none")
ReadMentions == Op("ReadMentions", "now", FALSE, "never", "none")
Typing == Op("Typing", "now", FALSE, "never", "none")
Whois == Op("Whois", "never", FALSE, "always", "none")
WhoisMember == Op("WhoisMember", "known", TRUE, "always", "whois")
BlockMember == Op("BlockMember", "known", TRUE, "success", "need")
LoadHistory == Op("LoadHistory", "check", TRUE, "always", "gated")
LoadHistoryAround == Op("LoadHistoryAround", "check", TRUE, "always", "gated")
Search == Op("Search", "check", TRUE, "always", "gated")
SearchGlobal == Op("SearchGlobal", "check", TRUE, "always", "none")
SearchMedia == Op("SearchMedia", "check", TRUE, "always", "none")
SearchGifs == Op("SearchGifs", "check", TRUE, "always", "none")
Participants == Op("Participants", "check", TRUE, "always", "trips")
Info == Op("Info", "check", TRUE, "always", "gated")
WhoRead == Op("WhoRead", "soft", TRUE, "always", "none")
WhoReacted == Op("WhoReacted", "soft", TRUE, "always", "none")
Sent == Op("sent", "never", FALSE, "always", "none")
Edited == Op("edited", "never", FALSE, "always", "none")
Delete == Op("Delete", "never", FALSE, "success", "none")
ChatAction == Op("chatAction", "check", TRUE, "success", "none")
Pin == Op("Pin", "never", TRUE, "never", "none")
LoadReactions == Op("loadReactions", "never", TRUE, "always", "none")
Ops == {Contacts, SearchContacts, Resolve, ResolveJoin, MarkRead, ReadReactions, ReadMentions, Typing, Whois, WhoisMember,
        BlockMember, LoadHistory, LoadHistoryAround, Search, SearchGlobal, SearchMedia, SearchGifs, Participants, Info,
        WhoRead, WhoReacted, Sent, Edited, Delete, ChatAction, Pin, LoadReactions}
Quiet == {"WhoRead", "WhoReacted", "loadReactions"}  \* Guard(name, nil): a panic is logged, nothing is posted

Call(op) == In("calls") /\ Does(IF op.gate = "now" /\ ~FloodOK(t) THEN t
                                ELSE [t EXCEPT !.calls = @ \cup {[id |-> moves, op |-> op, ph |-> "check", got |-> None]}])
To(p, c, ph) == [p EXCEPT !.calls = (@ \ {c}) \cup {[c EXCEPT !.ph = ph]}]
EndsQuietly(p, c, ok) == [p EXCEPT !.calls = (@ \ {c}) \cup {[c EXCEPT !.ph = "done", !.got = IF ok THEN "answer" ELSE @]}]
Ends(p, c, ok) == [p EXCEPT !.calls = (@ \ {c}) \cup {[c EXCEPT !.ph = "done",
    !.got = IF c.op.answer = "always" \/ (ok /\ c.op.answer = "success") THEN (IF ok THEN "answer" ELSE "error") ELSE @]}]
Check(c) ==  \* floodOK, each time in the goroutine
    /\ c.ph \in {"check", "more"}
    /\ LET refused == ~FloodOK(t) /\ IF c.ph = "more" THEN c.op.more = "gated" ELSE c.op.gate \in {"check", "known", "soft"}
       IN  CASE c.ph = "check" /\ c.op.gate = "known" /\ t.seen # "none" ->  \* memberPeer: no network
                  Goes(IF c.op.more = "none" THEN Ends(t, c, TRUE) ELSE To(t, c, "more"))
             [] refused /\ ~(c.ph = "check" /\ c.op.gate = "known" /\ t.seen # "none") ->
                  Goes(Ends(t, c, c.ph = "more" \/ c.op.gate = "soft"))
             [] OTHER -> Goes(To(t, c, IF c.ph = "check" THEN "net" ELSE "net2"))
Returned(p, c, r) ==
    LET q == IF r = "flood" /\ (IF c.ph = "net" THEN c.op.trips ELSE c.op.more \in {"gated", "trips"}) THEN FloodTrip(p, Wait) ELSE p
        ok == r \notin {"err", "flood"}
        known == IF r \in {"min", "whole"} THEN Remember(q, r) ELSE q
    IN  CASE r = "panic" -> IF c.op.name \in Quiet \/ c.op.answer # "always" THEN To(p, c, "lost") ELSE Ends(p, c, FALSE)
          [] c.ph = "net" /\ ok /\ r # "panic" -> IF c.op.more = "none" THEN Ends(known, c, TRUE) ELSE To(known, c, "more")
          [] c.ph = "net" /\ ~ok -> Ends(q, c, c.op.gate = "soft" \/ c.op.name = "loadReactions")
          [] OTHER -> Ends(known, c, ok \/ c.op.more \in {"gated", "trips"})
Returns(c) == c.ph \in {"net", "net2"} /\ \E r \in {"err", "flood", "panic", "min", "whole"} : Goes(Returned(t, c, r))
Calls == \E c \in t.calls : Check(c) \/ Returns(c)

(************************* updates, quotes, reactions ************************)
\* The server: the version of a reply, the reactions and the pin of its chat.
\* ups: the updates on their way, taken in order; ui: what the user sees.
Server(next, up) == In("updates") /\ Does([t EXCEPT !.sv = next, !.ups = Append(@, up)])
ServerEdits == Server([t.sv EXCEPT !.ver = @ + 1], [k |-> "msg", v |-> t.sv.ver + 1])
ServerReacts(v) == v # t.sv.reacts /\ Server([t.sv EXCEPT !.reacts = v], [k |-> "reacts", v |-> v])
ServerPins(id) == LET on == id \notin t.sv.pins
                  IN  Server([t.sv EXCEPT !.pins = IF on THEN @ \cup {id} ELSE @ \ {id}], [k |-> "pin", v |-> IF on THEN id ELSE -id])
Newest(ids) == IF ids = {} THEN 0 ELSE Max(ids)

Task(k, v) == [k |-> k, v |-> v, ph |-> "start"]
OnMessageLost(p, v, fill) == [p EXCEPT !.fillSeq = @ + 1, !.ui.ver = v, !.ui.quote = FALSE, !.fills = None,
                                       !.tasks = IF fill THEN @ \cup {Task("fill", p.fillSeq + 1)} ELSE @]
OnMessage(p, v, fill) ==  \* posted first; its quote is read off the loop, an older read posts nothing
    LET seq == p.fillSeq + 1
    IN  [p EXCEPT !.fillSeq = seq, !.fills = IF fill THEN seq ELSE None, !.ui.ver = v, !.ui.quote = FALSE,
                  !.tasks = IF fill THEN @ \cup {Task("fill", seq)} ELSE @]
WipeShown(p, v, refetch) == [p EXCEPT !.ui.reacts = v]
Reacted(p, v, refetch) == [p EXCEPT !.ui.reacts = IF refetch /\ v = {} /\ @ # {} THEN @ ELSE v]
Pinned(p, id) ==  \* pinned: the flags of the messages (all loaded here) and the banner
    IF id < 0 THEN LET flags == p.ui.flags \ {-id}
                   IN  [p EXCEPT !.ui.flags = flags, !.ui.pin = IF @ = -id THEN Newest(flags) ELSE @]
    ELSE [p EXCEPT !.ui.flags = @ \cup {id}, !.ui.pin = IF id >= @ THEN id ELSE @]
FetchedPin(p, id) == [p EXCEPT !.ui.pin = id, !.ui.flags = IF id = 0 THEN @ ELSE @ \cup {id}]
Handle ==  \* registerHandlers
    /\ t.ups # <<>>
    /\ LET up == Head(t.ups)
           p == [t EXCEPT !.ups = Tail(@)]
       IN  \/ up.k = "msg" /\ \E fill \in BOOLEAN : Goes(OnMessage(p, up.v, fill))  \* FALSE: the breaker is open
           \/ up.k = "reacts" /\ Goes([Reacted(p, up.v, FALSE) EXCEPT !.sure = TRUE])
           \/ up.k = "pin" /\ Goes(Pinned(p, up.v))

Step(k, ph, next) == [t EXCEPT !.tasks = (@ \ {k}) \cup {next}]
Gone(p, k) == [p EXCEPT !.tasks = @ \ {k}]
Running(k, phs) == {x \in t.tasks : x.k = k /\ x.ph \in phs}
FillLater(k) ==
    /\ k.k = "fill"
    /\ \/ k.ph = "start" /\ Cardinality(Running("fill", {"read", "post"})) < Slots /\ Goes(Step(k, "read", [k EXCEPT !.ph = "read"]))
       \/ k.ph = "read" /\ \E ok \in BOOLEAN :  \* fillReplies; then what is still the last read posts
            LET last == t.fills = k.v
                p == [t EXCEPT !.fills = IF last THEN None ELSE @, !.read = IF ok THEN @ \cup {k.v} ELSE @]
            IN  Goes([p EXCEPT !.tasks = (@ \ {k}) \cup IF last /\ ok THEN {[k EXCEPT !.ph = "post"]} ELSE {}])
       \/ k.ph = "post" /\ Goes([Gone(t, k) EXCEPT !.ui.quote = TRUE])
React(v) == In("updates") /\ Running("react", {"start", "post", "read", "refetch"}) = {}
            /\ Does([t EXCEPT !.tasks = @ \cup {Task("react", v)}])
ReactGoes(k) ==  \* the RPC, its update (fed to the loop too), then the message read again
    /\ k.k = "react"
    /\ \/ k.ph = "start" /\ Goes(Gone(t, k))  \* refused
       \/ k.ph = "start" /\ LET v == (t.sv.reacts \ {"me"}) \cup k.v
                            IN  Goes([Step(k, "post", [k EXCEPT !.ph = "post", !.v = v]) EXCEPT
                                  !.sv.reacts = v, !.was = t.sv.reacts, !.ups = Append(@, [k |-> "reacts", v |-> v])])
       \/ k.ph = "post" /\ Goes([Reacted(Step(k, "read", [k EXCEPT !.ph = "read"]), k.v, FALSE) EXCEPT !.sure = k.v = t.sv.reacts])
       \/ k.ph = "read" /\ \E v \in {t.sv.reacts, t.was} : Goes(Step(k, "refetch", [k EXCEPT !.ph = "refetch", !.v = v]))
       \/ k.ph = "read" /\ Goes(Gone(t, k))  \* refused, or the answer names no reactions
       \/ k.ph = "refetch" /\ Goes([Reacted(Gone(t, k), k.v, TRUE) EXCEPT !.sure = @ \/ k.v = t.sv.reacts])
FetchPins == In("updates") /\ ~t.pinFetched /\ Does([t EXCEPT !.pinFetched = TRUE, !.tasks = @ \cup {Task("pins", 0)}])
PinsGo(k) ==
    /\ k.k = "pins"
    /\ \/ k.ph = "start" /\ Goes(Step(k, "post", [k EXCEPT !.ph = "post", !.v = Newest(t.sv.pins)]))
       \/ k.ph = "start" /\ Goes(Gone(t, k))
       \/ k.ph = "post" /\ Goes(FetchedPin(Gone(t, k), k.v))
Tasks == \E k \in t.tasks : FillLater(k) \/ ReactGoes(k) \/ PinsGo(k)

(********************************* transfers *********************************)
\* One media file and its downloads; uploads, some of a pasted work file.
Xfer(kind, work) == [id |-> moves, kind |-> kind, work |-> work, ph |-> "wait", got |-> None]
Busy(kind) == Cardinality({x \in t.files : x.kind = kind /\ x.ph = "run"})
Xfers(x, ph, got) == (t.files \ {x}) \cup {[x EXCEPT !.ph = ph, !.got = got]}
Download == In("files") /\ Does([t EXCEPT !.files = @ \cup {Xfer("down", FALSE)}])
Upload(work) == In("files") /\ Does([t EXCEPT !.files = @ \cup {Xfer("up", work)}])
Slot(x) ==  \* the semaphore, or the end of the network
    /\ x.ph = "wait"
    /\ \/ Busy(x.kind) < Slots /\ Goes([t EXCEPT !.files = Xfers(x, "run", None)])
       \/ t.cancelled /\ Goes([t EXCEPT !.files = Xfers(x, "done", IF x.kind = "up" THEN "error" ELSE None)])
GetInPlace(x) == \/ Goes([t EXCEPT !.path = "part", !.files = Xfers(x, "run", "part")])
                 \/ x.got = "part" /\ Goes([t EXCEPT !.path = "whole", !.files = Xfers(x, "done", "whole")])
Get(x) ==  \* a file there, else a temporary one renamed when it is whole
    \/ x.got = None /\ t.path # "none" /\ Goes([t EXCEPT !.files = Xfers(x, "done", t.path)])
    \/ x.got = None /\ t.path = "none" /\ Goes([t EXCEPT !.files = Xfers(x, "run", "temp"), !.temps = @ + 1])
    \/ x.got = "temp" /\ \E ok \in BOOLEAN :
         Goes([t EXCEPT !.temps = @ - 1, !.path = IF ok THEN "whole" ELSE @, !.files = Xfers(x, "done", IF ok THEN "whole" ELSE "error")])
PutRemoves(x) == \E ok \in BOOLEAN : Goes([t EXCEPT !.gone = IF x.work THEN @ \cup {x.id} ELSE @,
                                                    !.files = Xfers(x, "done", IF ok THEN "sent" ELSE "error")])
Put(x) == \E ok \in BOOLEAN : Goes([t EXCEPT !.gone = IF ok /\ x.work THEN @ \cup {x.id} ELSE @,
                                             !.files = Xfers(x, "done", IF ok THEN "sent" ELSE "error")])
Transfer(x) == x.ph = "run" /\ ((x.kind = "down" /\ Get(x)) \/ (x.kind = "up" /\ Put(x)))
Transfers == \E x \in t.files : Slot(x) \/ Transfer(x)
Cancel == In("files") /\ ~t.cancelled /\ Does([t EXCEPT !.cancelled = TRUE])

(********************************* the QR login ******************************)
\* auth: the goroutine that shows the QR; at: where qrLogin and the flow after
\* it are; overlay, prompt: what the user interface shows of it.
ShowQR == In("login") /\ t.lg.auth = "on" /\ Does([t EXCEPT !.lg.overlay = TRUE])  \* and again at each new token
AuthEnds(r) == t.lg.auth = "on" /\ Goes([t EXCEPT !.lg.auth = r])
Type == In("login") /\ t.lg.prompt # None /\ ~t.lg.typed /\ Does([t EXCEPT !.lg.typed = TRUE])
QRDone(p, at, prompt) == [p EXCEPT !.lg.at = at, !.lg.overlay = FALSE, !.lg.prompt = prompt, !.lg.typed = FALSE]
TakeLineAtOnce == t.lg.at = "qr" /\ t.lg.typed /\ Goes(QRDone(t, "phone", None))
TakeLine == t.lg.at = "qr" /\ t.lg.typed /\ t.lg.auth \in {"ok", "password", "failed"} /\ Goes(QRDone(t, IF t.lg.auth = "ok" THEN "in" ELSE "phone", None))
TakeAuth ==  \* the QR was taken, wants the password, or failed alone
    /\ t.lg.at = "qr" /\ t.lg.auth # "on"
    /\ CASE t.lg.auth = "ok" -> Goes(QRDone(t, "in", None))
         [] t.lg.auth = "password" -> Goes(QRDone(t, "password", "secret"))
         [] t.lg.auth = "failed" -> Goes(QRDone(t, "phone", None))
Ask == t.lg.at = "phone" /\ t.lg.prompt = None /\ Goes([t EXCEPT !.lg.prompt = "plain"])  \* authenticator.ask
Answered == t.lg.at \in {"phone", "password"} /\ t.lg.typed /\ Goes(QRDone(t, "in", None))
Login == Ask \/ Answered \/ TakeLine \/ TakeAuth \/ \E r \in {"ok", "password", "failed"} : AuthEnds(r)

TgcInit ==
    /\ moves = 0
    /\ \E scene \in {"calls", "updates", "files", "login"} :
         t = [scene |-> scene, now |-> 1, until |-> 0, warns |-> 0, openings |-> 0, seen |-> "none", calls |-> {},
              sv |-> [ver |-> 0, reacts |-> {}, pins |-> {}], ui |-> [ver |-> 0, quote |-> TRUE, reacts |-> {}, flags |-> {}, pin |-> 0],
              ups |-> <<>>, tasks |-> {}, fills |-> None, fillSeq |-> 0, read |-> {}, was |-> {}, sure |-> TRUE, pinFetched |-> FALSE,
              files |-> {}, path |-> "none", temps |-> 0, gone |-> {}, cancelled |-> FALSE,
              lg |-> [auth |-> IF scene = "login" THEN "on" ELSE "off", at |-> IF scene = "login" THEN "qr" ELSE "off",
                      overlay |-> FALSE, prompt |-> IF scene = "login" THEN "plain" ELSE None, typed |-> FALSE]]
TgcNext ==
    \/ Tick \/ Calls \/ (\E op \in Ops : Call(op))
    \/ ServerEdits \/ (\E v \in SUBSET {"me", "other"} : ServerReacts(v)) \/ (\E id \in 1..2 : ServerPins(id))
    \/ Handle \/ Tasks \/ FetchPins \/ (\E v \in SUBSET {"me"} : React(v))
    \/ Download \/ (\E work \in BOOLEAN : Upload(work)) \/ Transfers \/ Cancel
    \/ ShowQR \/ Type \/ Login

(********************************* properties ********************************)
\* The breaker never shuts before the longest FLOOD_WAIT it was told, says so
\* once per opening, and a peer known whole is never forgotten for a min one.
BreakerHolds == t'.until >= t.until /\ t'.warns = t'.openings /\ (t.seen = "whole" => t'.seen = "whole")

\* A call the user waits for comes to its answer or its error, whatever the
\* breaker, the network or a panic in between.
AllAnswered == \A c \in t.calls :
    c.op.answer = "always" => c.got # None \/ (c.ph = "lost" /\ c.op.name \in Quiet)

\* Once nothing is on its way, a reply whose quote was read shows it, and a
\* message that holds reactions shows some: a late read never wipes them. (Not
\* sure: the answer of my own reaction came after a newer update, and only the
\* read that follows heals it.)
UpdatesShown == (t.ups = <<>> /\ t.tasks = {}) =>
    /\ t.ui.ver = t.sv.ver
    /\ t.fillSeq \in t.read => t.ui.quote
    /\ t.sure /\ t.sv.reacts # {} => t.ui.reacts # {}

\* A file of the cache is whole whoever downloads it at the same time, nothing
\* temporary is left, and a pasted image goes only once it was sent.
FilesRight ==
    /\ t.path # "part" /\ \A x \in t.files : x.got # "part"
    /\ (\A x \in t.files : x.ph = "done") => t.temps = 0
    /\ \A x \in t.files : x.id \in t.gone => x.work /\ x.got = "sent"

\* Past the QR nothing of it is left on the screen: no code that a late token
\* would draw again.
QRCloses == t.lg.at \notin {"qr", "off"} => ~t.lg.overlay

\* The banner of the chat follows the server (pin.go:25): once nothing is on
\* its way it shows the pin of the server.
BannerFollows == (In("updates") /\ t.ups = <<>> /\ t.tasks = {}) => t.ui.pin = Newest(t.sv.pins)
===============================================================================
