-------------------------------- MODULE Media ---------------------------------
(* The media of the user interface: their downloads, the decodings of their   *)
(* frames in the background, the play of the videos, the full screen preview, *)
(* the box of pictures and the memory their frames take (internal/ui/media.go,*)
(* viewer.go, grid.go). Everything below runs on the UI loop but two kinds of *)
(* work that end when they like: a download of a backend (jobs) and a         *)
(* decoding (dec). Between its start and its end the line may leave the       *)
(* screen, the window close, the network stop, the mode of the images change. *)
(* One record s; helpers take a state and give a state.                       *)
EXTENDS Integers, FiniteSets, SequencesExt, Functions

CONSTANTS Info,      \* media -> [kind, frames, size, auto, small, of]
          Lines,     \* media of the messages of one window, in its order
          Cells,     \* pictures of the media browser, in the order of the grid
          Cap,       \* frames of a play (video_frames) or of a GIF
          Budget,    \* framesBudget
          GridDownloads,  \* gridDownloads
          Mpv,       \* mpv is installed
          MaxSteps,  \* bound: steps of one behaviour
          None

VARIABLES s, moves
mediaVars == <<s, moves>>

Full == {x \in DOMAIN Info : Info[x].kind = "full"}  \* larger variants, each of a line
Copy == "copy"                                       \* the media of the preview
Media == DOMAIN Info \cup {Copy}
Line == Range(Lines)
Cell == Range(Cells)
FullOf(x) == LET f == {y \in Full : Info[y].of = x} IN IF f = {} THEN x ELSE CHOOSE y \in f : TRUE
Of(p, x) == Info[IF x = Copy THEN p.view.src ELSE x]
Video(p, x) == Of(p, x).kind = "video"
Whole(p, x) == IF Of(p, x).frames < Cap THEN Of(p, x).frames ELSE Cap

Fresh == [st |-> "none", path |-> FALSE, n |-> 0, want |-> 0, paused |-> FALSE,
          first |-> TRUE, dec |-> None, jobs |-> 0, stale |-> FALSE]

(********************************* decodings *********************************)
CancelDecode(r) == IF r.dec = None THEN r ELSE [r EXCEPT !.dec = None, !.want = 0]
LoadFrames(p, x, frames, gen) ==
    [p EXCEPT !.m[x] = [CancelDecode(@) EXCEPT !.want = frames, !.stale = FALSE,
        !.dec = [want |-> frames, gen |-> gen, got |-> 0, stale |-> FALSE]]]
Playing(p, x) == Video(p, x) /\ (p.m[x].n > 1 \/ p.m[x].want > 1)
Stoppable(p, x) == Playing(p, x) /\ ~(p.m[x].paused /\ p.m[x].first)
FrameCount(p, x) == IF Of(p, x).kind = "gif" \/ Playing(p, x) THEN Whole(p, x) ELSE 1
DecodeFor(p, x) ==
    IF p.box /\ x \in Cell THEN LoadFrames(p, x, IF Info[x].kind = "gif" THEN Whole(p, x) ELSE 1, 0)
    ELSE LoadFrames(p, x, FrameCount(p, x), 0)
MediaShown(p, x) == x \in p.hits \/ (p.box /\ x \in Cell)

DropFrames(p, x) ==
    LET q == [p EXCEPT !.m[x] = CancelDecode(@), !.lru = SelectSeq(@, LAMBDA y : y # x)]
    IN  IF p.m[x].n = 0 THEN q
        ELSE [q EXCEPT !.m[x] = [@ EXCEPT !.st = "none", !.n = 0, !.want = 0, !.first = TRUE, !.paused = FALSE]]

Bytes(p, l) == FoldLeft(LAMBDA b, x : b + p.m[x].n * Of(p, x).size, 0, l)
Note(p, x) == [p EXCEPT !.lru = Append(SelectSeq(@, LAMBDA y : y # x), x)]
OnScreen(p) == p.hits \cup (IF p.view = None THEN {} ELSE {Copy, p.view.src}) \cup (IF p.box THEN Cell ELSE {})
EvictNothing(p, keep) == p
Evict(p, keep) ==
    LET q == [p EXCEPT !.lru = SelectSeq(@, LAMBDA x : p.m[x].n > 0)]
    IN  FoldLeft(LAMBDA a, x : IF Bytes(a, a.lru) <= Budget \/ x \in {keep} \cup OnScreen(p) THEN a
                               ELSE DropFrames(a, x), q, q.lru)

\* What a decoding gives: nothing, a first part of a play, everything it wants.
FramesLoaded(p, x, end, n) ==
    LET d == p.m[x].dec
        part == end = "part"
        q == IF part THEN [p EXCEPT !.m[x].dec.got = n] ELSE [p EXCEPT !.m[x].dec = None]
        r == q.m[x]
        grow == part \/ (Playing(q, x) /\ n >= r.n)
        new == [r EXCEPT !.n = n, !.st = "ready", !.stale = d.stale, !.first = @ \/ ~grow,
                         !.want = IF part THEN @ ELSE 0,
                         !.paused = @ \/ (~part /\ r.want > 1 /\ n < 2)]
    IN  CASE d.gen # 0 /\ (p.view = None \/ x # Copy \/ d.gen # p.view.gen) -> q
          [] d.gen = 0 /\ r.st = "none" -> q
          [] end = "failed" -> [q EXCEPT !.m[x] = [@ EXCEPT !.st = "failed", !.want = 0]]
          [] OTHER -> Evict(Note([q EXCEPT !.m[x] = new], x), x)

(********************************* downloads *********************************)
Fetch(p, x) == [p EXCEPT !.m[x].st = "loading", !.m[x].jobs = @ + 1]
Download(p, x) == IF p.up THEN Fetch(p, x) ELSE p
DownloadFull(p, x) == IF FullOf(x) = x THEN Download(p, x)
                      ELSE IF p.up THEN Fetch([p EXCEPT !.fulls = @ \cup {FullOf(x)}], FullOf(x)) ELSE p
AutoMedia(p, x) == IF p.m[x].st = "none" /\ p.images # "off" /\ Info[x].auto THEN Download(p, x) ELSE p
AutoMediaWin(p) == FoldLeft(AutoMedia, p, Lines)

ViewLoad(p) ==
    LET q == [p EXCEPT !.m[Copy].path = p.m[p.view.src].path]
        c == q.m[Copy]
        drawnWhole == c.n > 0 /\ Info[p.view.src].small
    IN  IF ~c.path \/ p.images = "off" \/ drawnWhole \/ p.view.need = p.view.zoom THEN q
        ELSE LoadFrames([q EXCEPT !.view.need = p.view.zoom, !.view.gen = @ + 1], Copy, FrameCount(q, Copy), p.view.gen + 1)

\* A download of x has ended, with its file or with an error.
LostKeeps(q, x) == [q EXCEPT !.m[x].st = "failed"]
Lost(q, x) == [q EXCEPT !.next = @ \ {x}, !.m[x].st = "failed",
                        !.m[Copy].st = IF q.view # None /\ q.view.src = x THEN "failed" ELSE @]
Downloaded(q, x, ok) ==
    LET full == x \in q.fulls
        a == [q EXCEPT !.fulls = @ \ {x}]
        got == [a EXCEPT !.next = @ \ {x}, !.m[x].path = TRUE, !.opened = IF x \in q.next THEN x ELSE None]
        seen == IF q.view # None /\ q.view.src = x THEN ViewLoad(got) ELSE got
    IN  CASE x \in q.orphan -> [q EXCEPT !.orphan = @ \ {x}]
          [] x \notin q.orphan /\ ~ok -> Lost(a, x)
          [] x \notin q.orphan /\ ok /\ (full \/ q.images = "off" \/ (Info[x].kind = "gif" /\ ~MediaShown(q, x))) ->
               [seen EXCEPT !.m[x].st = "ready"]
          [] OTHER -> DecodeFor(seen, x)

(*********************************** screen **********************************)
Autoplay(p, x) ==
    LET r == p.m[x]
    IN  IF Video(p, x) /\ p.images # "off" /\ r.st = "ready" /\ r.path /\ ~r.paused /\ r.want = 0 /\ r.n <= 1
        THEN LoadFrames(p, x, Cap, 0) ELSE p
ShowItem(p, x) ==
    LET a == AutoMedia(p, x)
        r == a.m[x]
        b == IF r.st = "ready" /\ r.n = 0 /\ r.want = 0 /\ r.path /\ a.images # "off"
             THEN DecodeFor([a EXCEPT !.m[x].st = "loading"], x) ELSE a
    IN  Autoplay(b, x)
Redecode(p, x) == IF p.m[x].n > 0 /\ p.m[x].path /\ p.m[x].stale THEN DecodeFor(p, x) ELSE p
\* The cells ask for their pictures a few at a time, in the order of the grid.
GridLoad(p) ==
    FoldLeft(LAMBDA a, x : IF /\ a.m[x].st = "none"
                              /\ Cardinality({y \in Cell : a.m[y].st = "loading" /\ a.m[y].dec = None}) < GridDownloads
                           THEN Download(a, x) ELSE a, p, Cells)
DrawnWith(p, shown) ==
    IF p.view # None THEN [p EXCEPT !.hits = {}]
    ELSE LET on == SelectSeq(Lines, LAMBDA x : x \in shown)
             seen == FoldLeft(ShowItem, [p EXCEPT !.hits = shown], on)
             box == IF p.box /\ p.up THEN GridLoad(seen) ELSE seen
             again == FoldLeft(Redecode, box, on \o (IF p.box THEN Cells ELSE <<>>))
         IN  FoldLeft(Note, again, SelectSeq(on, LAMBDA x : again.m[x].n > 0))

CloseViewer(p) == IF p.view = None THEN p
                  ELSE [p EXCEPT !.view = None, !.m[Copy] = Fresh, !.lru = SelectSeq(@, LAMBDA x : x # Copy)]
OpenViewer(p, x) ==
    LET f == FullOf(x)
        q == [CloseViewer(p) EXCEPT !.view = [src |-> f, zoom |-> 1, need |-> 0, gen |-> 0]]
    IN  IF p.m[f].path THEN ViewLoad(q) ELSE IF p.m[f].st = "loading" THEN q ELSE DownloadFull(q, x)

\* The pictures of the box go: a download on its way lands on nothing.
GridFree(p) ==
    LET late == {x \in Cell : p.m[x].st = "loading" /\ p.m[x].dec = None}
    IN  [p EXCEPT !.orphan = @ \cup late, !.lru = SelectSeq(@, LAMBDA x : x \notin Cell),
                  !.m = [x \in Media |-> IF x \notin Cell THEN @[x]
                         ELSE [CancelDecode(@[x]) EXCEPT !.n = 0, !.st = "none", !.first = TRUE, !.want = 0]]]
BoxClosed(p) == IF p.box THEN [GridFree(p) EXCEPT !.box = FALSE] ELSE p

OpenItem(p, x) ==
    LET f == FullOf(x)
    IN  IF p.m[f].path THEN p  \* the file is there: it opens
        ELSE LET q == [p EXCEPT !.next = @ \cup {f}, !.asked = @ \cup {f}]
             IN  IF p.m[f].st = "loading" THEN q ELSE DownloadFull(q, x)

StopVideoKeeps(p, x) == [p EXCEPT !.m[x] = [CancelDecode(@) EXCEPT !.paused = TRUE, !.first = TRUE]]
StopVideo(p, x) ==
    LET one == IF p.m[x].dec # None /\ p.m[x].n > 1 THEN 1 ELSE p.m[x].n
    IN  [p EXCEPT !.m[x] = [CancelDecode(@) EXCEPT !.n = one, !.paused = TRUE, !.first = TRUE]]
PlayInline(p, x, gen) ==
    IF Playing(p, x) THEN [p EXCEPT !.m[x].paused = ~@]
    ELSE IF p.images = "off" THEN p
    ELSE LoadFrames([p EXCEPT !.m[x].paused = FALSE], x, Cap, gen)

\* The network stops: what it still had to answer never comes.
ClearNetWorkKeeps(p) == BoxClosed(p)
ClearNetWork(p) ==
    BoxClosed([p EXCEPT !.m = [x \in Media |-> IF x \in Line /\ @[x].st = "loading" /\ ~@[x].path
                                               THEN [@[x] EXCEPT !.st = "none"] ELSE @[x]]])
Reload(p, mode) ==
    LET free(a, x) == [DropFrames(a, x) EXCEPT !.m[x] =
            [CancelDecode(@) EXCEPT !.st = "none", !.n = 0, !.want = 0, !.first = TRUE]]
    IN  AutoMediaWin(FoldLeft(free, [p EXCEPT !.images = mode], Lines))

(********************************** the steps ********************************)
Does(next) == moves < MaxSteps /\ moves' = moves + 1 /\ s' = next
Now == [s EXCEPT !.opened = None]
Keys == s.mpv = None  \* mpv has the terminal: its keys, and nothing is drawn
Here == IF s.view # None THEN {Copy} ELSE IF s.box THEN {} ELSE Line

Draw == Keys /\ \E shown \in SUBSET Line : Does(DrawnWith(Now, shown))
Lands(x) == /\ s.m[x].jobs > 0
            /\ \E ok \in BOOLEAN : Does([Downloaded([Now EXCEPT !.m[x].jobs = @ - 1], x, ok) EXCEPT !.asked = @ \ {x}])
DecodingEnds(x) ==
    /\ s.m[x].dec # None
    /\ LET d == s.m[x].dec
           all == IF d.want < Of(s, x).frames THEN d.want ELSE Of(s, x).frames
       IN  \/ Does(FramesLoaded(Now, x, "end", all))
           \/ Does(FramesLoaded(Now, x, "failed", 0))
           \/ Video(s, x) /\ \E n \in (d.got + 1)..(all - 1) : Does(FramesLoaded(Now, x, "part", n))
Animate(x) == s.m[x].st = "ready" /\ s.m[x].n > 1 /\ s.m[x].first /\ ~s.m[x].paused
              /\ x \in OnScreen(s) \cap (Line \cup {Copy}) /\ Does([Now EXCEPT !.m[x].first = FALSE])
CellSize == Does([Now EXCEPT !.m = [x \in Media |-> [@[x] EXCEPT
                  !.stale = TRUE, !.dec = IF @ = None THEN None ELSE [@ EXCEPT !.stale = TRUE]]]])

Stop(x) == Keys /\ x \in Here /\ Stoppable(s, x) /\ Does(StopVideo(Now, x))
Play(x) ==
    /\ Keys /\ x \in Here /\ s.m[x].path /\ Video(s, x)
    /\ LET gen == IF x = Copy THEN s.view.gen ELSE 0
       IN  Does(IF ~Stoppable(s, x) /\ Mpv THEN [Now EXCEPT !.mpv = [media |-> x, gen |-> gen]]
                ELSE PlayInline(Now, x, gen))
Played == /\ s.mpv # None
          /\ LET back == [Now EXCEPT !.mpv = None]
             IN  Does(back) \/ Does(PlayInline(back, s.mpv.media, s.mpv.gen))
Open(x) == Keys /\ s.view = None /\ x \in (IF s.box THEN Cell ELSE Line) /\ Does(OpenItem(Now, x))
View(x) == Keys /\ s.images # "off" /\ x \in (IF s.box THEN Cell ELSE Line) /\ Does(OpenViewer(Now, x))
Zoom == Keys /\ s.view # None /\ s.m[Copy].path /\ s.view.zoom = 1 /\ Does(ViewLoad([Now EXCEPT !.view.zoom = 2]))
CloseView == Keys /\ s.view # None /\ Does(CloseViewer(Now))
OpenBox == Keys /\ s.up /\ s.view = None /\ ~s.box /\ (\A x \in Cell : s.m[x] = Fresh) /\ s.orphan = {}
           /\ Does([Now EXCEPT !.box = TRUE, !.next = @ \ Cell, !.asked = @ \ Cell])  \* a list of new media
CloseBox == Keys /\ s.view = None /\ s.box /\ Does(BoxClosed(Now))
CloseWindow == Keys /\ ~s.box /\ Does(FoldLeft(DropFrames, CloseViewer(Now), Lines))  \* freeImages
Images == Keys /\ s.view = None /\ Does(Reload(Now, IF s.images = "off" THEN "kitty" ELSE "off"))
NetStop == s.up /\ Does([ClearNetWork([Now EXCEPT !.m = [x \in Media |-> [@[x] EXCEPT !.jobs = 0]]]) EXCEPT !.up = FALSE])
NetStart == ~s.up /\ Does([Now EXCEPT !.up = TRUE])

MediaInit ==
    /\ s = [m |-> [x \in Media |-> Fresh], hits |-> {}, view |-> None, box |-> FALSE, lru |-> <<>>, next |-> {},
            fulls |-> {}, orphan |-> {}, images |-> "kitty", up |-> TRUE, mpv |-> None, opened |-> None, asked |-> {}]
    /\ moves = 0
MediaNext ==
    \/ \E x \in Media : \/ Lands(x) \/ DecodingEnds(x) \/ Animate(x) \/ Stop(x) \/ Play(x)
                        \/ x # Copy /\ (Open(x) \/ View(x))
    \/ Draw \/ CellSize \/ Played \/ Zoom \/ CloseView \/ OpenBox \/ CloseBox
    \/ CloseWindow \/ Images \/ NetStop \/ NetStart

(********************************* properties ********************************)
\* A message that says "loading" and has no file has a download under way: a
\* network that stops leaves no line waiting for an answer that cannot come.
LoadingRuns == \A x \in Line : s.m[x].st = "loading" /\ ~s.m[x].path => s.m[x].jobs > 0

\* The same of every media, the larger variants "o" and "v" wait for included
\* (media.go:842, "already running: we will open it on arrival").
WaitedForComes == \A x \in Line \cup Full : s.m[x].st = "loading" /\ ~s.m[x].path => s.m[x].jobs > 0

\* A video at rest that can be played has one frame or the whole clip: whatever
\* cut its decoding short, "l" never loops on a stump.
NoStump == \A x \in Media :
    s.m[x].st = "ready" /\ s.m[x].dec = None /\ s.m[x].n > 1 => s.m[x].n >= Whole(s, x)

\* A download that ends opens what the user asked to open since it started,
\* never what an earlier request that failed had asked.
OpensAsked == s'.opened # None => s'.opened \in s.asked

\* When frames have landed, what is decoded fits the budget, but for the screen
\* and the media they are of.
FramesBounded == \A x \in Media :
    s'.lru # s.lru /\ s.m[x].dec # None /\ s'.m[x].n > s.m[x].n /\ s'.m[x].st = "ready"
      => \/ Bytes(s', s'.lru) <= Budget
         \/ \A y \in Range(s'.lru) : y = x \/ y \in OnScreen(s')
===============================================================================
