------------------------------- MODULE Sidebar -------------------------------
(* The side panel of internal/ui: the list of chats in sections or the list  *)
(* of windows, its sorts, its folds, the filter and the cursor of the typing *)
(* in the panel, the network tabs and the moves between windows. The whole   *)
(* UI runs on one goroutine, so a step is one key, one click or one event;   *)
(* what is hard here is the sequence of steps: every one of them works on    *)
(* rows another one has just sorted, folded, filtered or closed.             *)
(* The panel is one record u; helpers take a panel and give a panel.         *)
EXTENDS Integers, FiniteSets, SequencesExt, FiniteSetsExt, Functions, TLC

CONSTANTS Info,      \* chat -> [net, guild, title, direct]
          Nets,      \* names of the networks, in order
          Match,     \* 0..2 -> the chats that answer the filter of that many letters
          Status,    \* window 0
          Rows,      \* lines of the list
          Start,     \* the panels the user can be looking at when the run starts
          MaxSteps,  \* bound: steps of one behaviour
          None

VARIABLES u, steps
sideVars == <<u, steps>>

Chat == DOMAIN Info
NetOf(w) == IF w \in Chat THEN Info[w].net ELSE None
Multi == Len(Nets) > 1
Current(p) == p.wins[p.cur]
TabsOn(p) == p.tabs /\ Multi
WinShown(p, w) == p.net = None \/ w \notin Chat \/ NetOf(w) = p.net
Place(l, w) == SelectInSeq(l, LAMBDA x : x = w)  \* the place of w in the list, 0 if it is not there
WinAt(p, w) == Place(p.wins, w)

(***************************** the order of the list *************************)
Sort(s, Before(_, _)) ==  \* slices.SortStableFunc
    LET at == SortSeq([i \in DOMAIN s |-> i],
                      LAMBDA i, j : Before(s[i], s[j]) \/ (~Before(s[j], s[i]) /\ i < j))
    IN  [i \in DOMAIN s |-> s[at[i]]]
Distinct(s) == LET First == SelectSeq([i \in DOMAIN s |-> i], LAMBDA i : \A j \in 1..(i - 1) : s[j] # s[i])
               IN  [k \in DOMAIN First |-> s[First[k]]]

PinFirst(p, a, b) == a \in p.pinned /\ b \notin p.pinned
ChatLess(p, a, b) ==
    CASE p.sort = "recent" -> \/ PinFirst(p, a, b)
                              \/ ~PinFirst(p, b, a) /\ p.date[a] > p.date[b]
      [] p.sort = "alpha"  -> \/ PinFirst(p, a, b)
                              \/ /\ {a, b} \cap p.pinned = {}
                                 /\ Info[a].title < Info[b].title
      [] p.sort = "unread" -> \/ p.unread[a] > p.unread[b]
                              \/ p.unread[a] = p.unread[b] /\ PinFirst(p, a, b)

\* A guild takes the place of its best-ranked channel, its channels by title.
ByTitle(mates) == Sort(mates, LAMBDA a, b : Info[a].title < Info[b].title)
GroupGuilds(p, l) ==
    LET Mates(c) == SelectSeq(l, LAMBDA d : Info[d].guild = Info[c].guild /\ (d \in p.pinned) = (c \in p.pinned))
        Block(c, mates) == CASE Info[c].guild = None -> <<c>> [] mates[1] = c -> ByTitle(mates) [] OTHER -> <<>>
    IN  FlattenSeq([i \in DOMAIN l |-> Block(l[i], Mates(l[i]))])

SortChats(p) == GroupGuilds(p, Sort(p.list, LAMBDA a, b : ChatLess(p, a, b)))
SideChats(p) == SelectSeq(SortChats(p), LAMBDA c : (p.net = None \/ NetOf(c) = p.net) /\ c \in Match[p.q])

(********************************* sections **********************************)
SectionOf(c) == <<Info[c].net, Info[c].guild>>
FoldStateKept(p) == p.folded
FoldState(p) == IF p.q > 0 THEN {} ELSE p.folded
Plain(c) == [chat |-> c, sec |-> None, unread |-> 0, folded |-> FALSE]

Section(p, k, of, f) ==  \* its header, and its chats when it is open
    <<[chat |-> None, sec |-> k, folded |-> f, unread |-> IF f THEN SumFunctionOnSet(p.unread, Range(of)) ELSE 0]>>
    \o (IF f THEN <<>> ELSE [i \in DOMAIN of |-> [Plain(of[i]) EXCEPT !.sec = k]])
SectionRows(p, chats) ==
    LET NetRank(k) == CHOOSE i \in DOMAIN Nets : Nets[i] = k[1]
        Before(k, m) == \/ NetRank(k) < NetRank(m)
                        \/ NetRank(k) = NetRank(m) /\ k[2] = None /\ m[2] # None
        Of(k) == SelectSeq(chats, LAMBDA c : SectionOf(c) = k)
        Under(secs) == IF Len(secs) < 2 THEN [i \in DOMAIN chats |-> Plain(chats[i])]
                       ELSE FlattenSeq([i \in DOMAIN secs |-> Section(p, secs[i], Of(secs[i]), secs[i] \in FoldState(p))])
    IN  Under(Sort(Distinct([i \in DOMAIN chats |-> SectionOf(chats[i])]), Before))
SideRowList(p) == SectionRows(p, SideChats(p))
FoldSections(p) == {r.sec : r \in {r \in Range(SideRowList(p)) : r.chat = None}}

\* The windows: window 0, the bound ones in the order of the chats, the others;
\* split, the channels and the direct messages each under a header.
SideWins(p) ==
    LET Shown(P(_)) == SelectSeq(p.wins, LAMBDA w : P(w) /\ WinShown(p, w) /\ (p.q = 0 \/ w \in Match[p.q]))
        Under(name, l) == IF l = <<>> THEN <<>> ELSE <<name>> \o l
        Split(bound) == IF ~p.split THEN bound
                        ELSE Under("channels", SelectSeq(bound, LAMBDA w : ~Info[w].direct))
                             \o Under("direct", SelectSeq(bound, LAMBDA w : Info[w].direct))
    IN  Shown(LAMBDA w : w = Status)
        \o Split(Sort(Shown(LAMBDA w : w \in Chat), LAMBDA a, b : ChatLess(p, a, b)))
        \o Shown(LAMBDA w : w \notin Chat \cup {Status})
Headers == {"channels", "direct"}

\* The lines the panel draws, as the chat or the window each one carries.
Lines(p) ==
    LET Chats(rows) == [i \in DOMAIN rows |-> rows[i].chat]
        Wins(wins) == [i \in DOMAIN wins |-> IF wins[i] \in Headers THEN None ELSE wins[i]]
    IN  CASE p.side = "chats" -> Chats(SideRowList(p)) [] p.side = "windows" -> Wins(SideWins(p)) [] OTHER -> <<>>

(******************************** scroll and cursor **************************)
SideRows(p) == IF p.side = "chats" THEN Rows - 1 ELSE Rows  \* "+ new message" takes one
Clamp(x, n) == IF x < 0 THEN 0 ELSE IF x > n THEN n ELSE x
Over(p) == Max({0, Len(Lines(p)) - SideRows(p)})
SideOffset(p) == Clamp(p.scroll, Over(p))
SideWheel(p, d) == [p EXCEPT !.scroll = Clamp(@ + d, Over(p))]
FollowTop(top, at, rows) == Min({at, Max({top, at - rows + 1})})
SideShow(p, i) == [p EXCEPT !.scroll = FollowTop(@, i - 1, SideRows(p))]
LineOf(p, w) == IF w = None THEN 0 ELSE Place(Lines(p), w)
SideRevealNot(p) == p
Revealed(p, i) == IF i = 0 THEN p ELSE SideShow(p, i)
SideReveal(p) == Revealed(p, LineOf(p, Current(p)))
\* A line drawn: the mark of an open window, the count, the bars of the current
\* line and of the cursor.
ChatLine(p, c, sel) == [open |-> WinAt(p, c) # 0, count |-> Min({99, p.unread[c]}),
                        on |-> c = Current(p), sel |-> c = sel]
WinLine(p, w, sel) == [open |-> TRUE, count |-> IF w \in p.act THEN 1 ELSE 0, on |-> w = Current(p), sel |-> w = sel]
Blank == [open |-> FALSE, count |-> 0, on |-> FALSE, sel |-> FALSE]
Frame(p) ==
    LET sel == CASE ~p.keys -> None [] p.side = "chats" -> p.chat [] OTHER -> p.win
        Line(w) == CASE w = None -> Blank [] p.side = "chats" -> ChatLine(p, w, sel) [] OTHER -> WinLine(p, w, sel)
        From(l, off) == [y \in 1..SideRows(p) |-> IF off + y \in DOMAIN l THEN Line(l[off + y]) ELSE Blank]
    IN  From(Lines(p), SideOffset(p))
SideRowAt(p, y) == LET In(i, l) == IF i \in DOMAIN l THEN i ELSE 0 IN In(SideOffset(p) + y, Lines(p))

SideDone(p) == SideWheel([p EXCEPT !.keys = FALSE, !.q = 0, !.chat = None, !.win = None], 0)
SideLines(p) == SelectSeq(Lines(p), LAMBDA w : w # None)
Cursor(p) == LET c == IF p.side = "chats" THEN p.chat ELSE p.win IN IF c = None THEN Current(p) ELSE c
SideSel(p, w) == SideShow(IF p.side = "chats" THEN [p EXCEPT !.chat = w, !.win = None]
                          ELSE [p EXCEPT !.win = w, !.chat = None], LineOf(p, w))
StepIdx(i, d, n) == IF i = 0 THEN (IF d < 0 THEN n ELSE 1) ELSE 1 + Clamp(i - 1 + d, n - 1)
SideMove(p, d) ==
    LET To(ls) == IF ls = <<>> THEN p ELSE SideSel(p, ls[StepIdx(Place(ls, Cursor(p)), d, Len(ls))])
    IN  To(SideLines(p))
SideFilter(p, q) ==
    LET OnFirst(f, ls) == IF q = 0 THEN SideReveal(f) ELSE IF ls = <<>> THEN f ELSE SideSel(f, ls[1])
        Narrowed(f) == OnFirst(f, SideLines(f))
    IN  Narrowed([p EXCEPT !.q = q, !.chat = None, !.win = None, !.scroll = 0])

(************************** networks, tabs, windows **************************)
SetNetFilter(p, net) == [p EXCEPT !.net = net, !.scroll = 0]
Read(p) == [p EXCEPT !.act = @ \ {Current(p)},
                     !.unread = IF Current(p) \in Chat THEN [@ EXCEPT ![Current(p)] = 0] ELSE @]
GoToNoTab(p, i) ==
    LET w == p.wins[i]
        net == NetOf(w)
    IN  Read(SideReveal([p EXCEPT !.cur = i, !.last = IF net = None THEN @ ELSE [@ EXCEPT ![net] = w]]))
GoTo(p, i) ==
    LET w == p.wins[i]
        net == NetOf(w)
        at == [p EXCEPT !.cur = i, !.last = IF net = None THEN @ ELSE [@ EXCEPT ![net] = w]]
        tab == IF net # None /\ TabsOn(p) /\ p.net # None /\ net # p.net THEN SetNetFilter(at, net) ELSE at
    IN  Read(SideReveal(tab))

TabTarget(p, net) ==
    LET Of == {i \in DOMAIN p.wins : NetOf(p.wins[i]) = net}
    IN  CASE WinAt(p, p.last[net]) # 0 -> WinAt(p, p.last[net]) [] Of = {} -> 1 [] OTHER -> Min(Of)
TabTo(p, net) ==
    LET On(f, target) == IF target = p.cur THEN f ELSE GoTo(f, target)
    IN  On(SetNetFilter(p, net), IF net = None THEN p.cur ELSE TabTarget(p, net))
ApplyNet(p, net) == IF TabsOn(p) THEN TabTo(p, net) ELSE SetNetFilter(p, net)
NextNet(net) == LET i == IF net = None THEN 0 ELSE CHOOSE k \in DOMAIN Nets : Nets[k] = net
                IN  IF i < Len(Nets) THEN Nets[i + 1] ELSE None

OpenChat(p, c) ==
    LET i == WinAt(p, c)
    IN  GoTo(IF i # 0 THEN p ELSE SideReveal([p EXCEPT !.wins = Append(@, c)]), IF i # 0 THEN i ELSE Len(p.wins) + 1)
\* A window closed is a pointer nobody finds again: "gone".
Forget(p, w) == [p EXCEPT !.act = @ \ {w}, !.last = [n \in Range(Nets) |-> IF @[n] = w THEN None ELSE @[n]],
                          !.home = IF @ = w THEN "gone" ELSE @, !.win = IF @ = w THEN "gone" ELSE @]
CloseAt(p, i) == [Forget(p, p.wins[i]) EXCEPT !.wins = RemoveAt(@, i), !.cur = IF @ >= i THEN @ - 1 ELSE @]
DropChat(p, c) == [Forget(p, c) EXCEPT
    !.list = SelectSeq(@, LAMBDA d : d # c), !.chat = IF @ = c THEN "gone" ELSE @,
    !.wins = SelectSeq(@, LAMBDA w : w # c),
    !.cur = LET i == WinAt(p, c) IN IF i = 0 \/ @ < i THEN @ ELSE IF @ = i THEN 1 ELSE @ - 1]
Wrapped(p, i) == 1 + ((p.cur - 1 + i) % Len(p.wins))
Around(p, S(_)) == LET at == {i \in 1..(Len(p.wins) - 1) : S(p.wins[Wrapped(p, i)])}
                   IN  IF at = {} THEN 0 ELSE Wrapped(p, Min(at))
InCycle(p, w) == ~TabsOn(p) \/ WinShown(p, w)
StepWin(p, d) ==
    LET at == {i \in 1..(Len(p.wins) - 1) : InCycle(p, p.wins[Wrapped(p, d * i)])}
    IN  IF at = {} THEN p ELSE GoTo(p, Wrapped(p, d * Min(at)))
\* Ctrl+X: the next window, or the next one with activity and then home.
CycleTarget(p, unread) ==
    LET First(S(_)) == Around(p, LAMBDA w : InCycle(p, w) /\ S(w))
        next == LET n == First(LAMBDA w : TRUE) IN IF n = 0 THEN p.cur ELSE n
        hot == IF unread THEN First(LAMBDA w : w \in p.act) ELSE 0
        home == WinAt(p, p.home)
        back == IF home # 0 /\ home # p.cur /\ InCycle(p, p.home) THEN home ELSE next
        Home == CASE ~unread -> p.home [] hot = 0 -> None [] p.home = None -> Current(p) [] OTHER -> p.home
    IN  GoTo([p EXCEPT !.home = Home], CASE ~unread -> next [] hot # 0 -> hot [] OTHER -> back)

(********************************** the steps ********************************)
Does(next) == steps < MaxSteps /\ steps' = steps + 1 /\ u' = next
Drawn == u.side # "hidden"
Typing == u.keys /\ Drawn   \* sideHasKeys: the panel has the keyboard

\* A letter, Backspace, Escape, the arrows and Enter while the panel has them.
Type == Typing /\ u.q < 2 /\ Does(SideFilter(u, u.q + 1))
Backspace == Typing /\ u.q > 0 /\ Does(SideFilter(u, u.q - 1))
Escape == Typing /\ Does(SideDone(u))
Arrow(d) == Typing /\ Does(SideMove(u, d))
SideOpen ==
    LET moved == u.chat # None \/ u.win # None
        Open(p, w) == CASE ~moved \/ LineOf(u, w) = 0 -> p
                        [] u.side = "chats" -> OpenChat(p, w)
                        [] OTHER -> GoTo(p, WinAt(p, w))
    IN  Typing /\ Does(Open(SideDone(u), Cursor(u)))
SideFocus == Drawn /\ Does([u EXCEPT !.keys = ~@])

\* The wheel: over the zone of the panel it steps through the windows, else it scrolls.
Wheel(d, zone) ==
    LET To(p, w) == IF w = Current(p) THEN p ELSE GoTo(p, WinAt(p, w))
        Among(p, open) == IF open = <<>> THEN p ELSE To(p, open[StepIdx(Place(open, Current(p)), d, Len(open))])
        Turn(p) == IF zone THEN Among(p, SelectSeq(Lines(p), LAMBDA w : WinAt(p, w) # 0)) ELSE SideWheel(p, d)
    IN  Drawn /\ Does(Turn(IF u.q > 0 THEN SideDone(u) ELSE u))

SideToggle(p, sec) == SideWheel([p EXCEPT !.folded = IF sec \in @ THEN @ \ {sec} ELSE @ \cup {sec}], 0)
SideClick(y) ==
    LET On(p, w, i) == CASE u.side = "chats" /\ w = None -> SideToggle(p, SideRowList(u)[i].sec)
                         [] u.side = "chats" /\ w # None -> OpenChat(p, w)
                         [] u.side = "windows" -> IF w = None THEN u ELSE GoTo(p, WinAt(p, w))
        At(i) == IF i = 0 THEN u ELSE On(SideDone(u), Lines(u)[i], i)
    IN  Drawn /\ Does(At(SideRowAt(u, y)))
FoldCmd == LET p == SideDone(u)
           IN  \E sec \in FoldSections(p) : Does(SideToggle(p, sec))
NextSort(mode) == CASE mode = "recent" -> "alpha" [] mode = "alpha" -> "unread" [] OTHER -> "recent"
CycleSort == Does([u EXCEPT !.sort = NextSort(@), !.scroll = 0])
ToggleSplit == u.side = "windows" /\ Does([u EXCEPT !.split = ~@, !.scroll = 0])
NextSide ==
    LET next == CASE u.side = "hidden" -> "chats" [] u.side = "chats" -> "windows" [] OTHER -> "hidden"
        turn == u.side = "windows" /\ Multi
        Turned(p) == IF turn /\ p.net # None THEN p ELSE [p EXCEPT !.side = next, !.scroll = 0]
    IN  Does(Turned(IF turn THEN ApplyNet(u, NextNet(u.net)) ELSE u))

\* /net and Shift+F2, a tab clicked, F9, /set tabs, Alt+arrows, Ctrl+X, /win.
NetCmd == Multi /\ \E net \in Range(Nets) \cup {None} : Does(ApplyNet(u, net))
TabClick == TabsOn(u) /\ \E net \in Range(Nets) \cup {None} : Does(TabTo(u, net))
TabNext == Multi /\ Does(TabTo([u EXCEPT !.tabs = TRUE], NextNet(u.net)))
SetTabs == Does([u EXCEPT !.tabs = ~@])
AltArrow(d) == Does(StepWin(u, d))
CtrlX == \E unread \in BOOLEAN : Does(CycleTarget(u, unread))
Win == \E i \in DOMAIN u.wins : Does(GoTo(u, i))

\* A message of a chat: the chat enters the list, it has a window, it moves up.
Arrives(c) ==
    LET p == IF WinAt(u, c) # 0 THEN u ELSE [u EXCEPT !.wins = Append(@, c)]
        q == [p EXCEPT !.list = IF Contains(@, c) THEN @ ELSE Append(@, c),
                       !.date = [@ EXCEPT ![c] = 1 + Max(Range(u.date))]]
    IN  Does(IF Current(p) = c THEN q
                        ELSE [q EXCEPT !.unread = [@ EXCEPT ![c] = @ + 1], !.act = @ \cup {c}])
\* /close; the entry "leave" of a menu; a chat left or blocked elsewhere.
CloseWindow == LET Shown(p) == GoTo(p, p.cur) IN u.cur # 1 /\ Does(Shown(CloseAt(u, u.cur)))
MenuLeave(c) ==
    LET Shown(p) == IF Current(p) # Current(u) THEN GoTo(p, p.cur) ELSE p
    IN  WinAt(u, c) # 0 /\ Info[c].direct /\ Does(Shown(CloseAt(u, WinAt(u, c))))
ChatGone(c) == LET Shown(p) == GoTo(p, p.cur) IN Contains(u.list, c) /\ Does(Shown(DropChat(u, c)))

SideInit == u \in Start /\ steps = 0
SideNext ==
    \/ Type \/ Backspace \/ Escape \/ SideOpen \/ SideFocus
    \/ \E d \in {-1, 1} : Arrow(d) \/ AltArrow(d) \/ \E zone \in BOOLEAN : Wheel(d, zone)
    \/ \E y \in 1..Rows : SideClick(y)
    \/ FoldCmd \/ CycleSort \/ ToggleSplit \/ NextSide
    \/ NetCmd \/ TabClick \/ TabNext \/ SetTabs \/ CtrlX \/ Win
    \/ \E c \in Chat : Arrives(c) \/ MenuLeave(c) \/ ChatGone(c)
    \/ CloseWindow

(********************************* properties ********************************)
\* The list of chats hides nothing: every chat that the networks and the filter
\* let through is on one line or in the count of its folded section, in the
\* block of its section; pins first, guild channels in one order at every sort.
RowsRight ==
    LET rows == SideRowList(u)
        shown == {c \in Range(u.list) : (u.net = None \/ NetOf(c) = u.net) /\ c \in Match[u.q]}
        At(c) == {i \in DOMAIN rows : rows[i].chat = c}
        Hidden(c) == \E h \in Range(rows) : h.chat = None /\ h.folded /\ h.sec = SectionOf(c)
        Pos(c) == CHOOSE i \in At(c) : TRUE
        Mates(a, b) == SectionOf(a) = SectionOf(b) /\ (a \in u.pinned) = (b \in u.pinned)
    IN  /\ \A c \in shown : Cardinality(At(c)) = IF Hidden(c) THEN 0 ELSE 1
        /\ u.q > 0 => \A c \in shown : ~Hidden(c)
        /\ \A c \in Chat \ shown : At(c) = {}
        /\ \A h \in {r \in Range(rows) : r.chat = None /\ r.folded} :
             h.unread = SumFunctionOnSet(u.unread, {c \in shown : SectionOf(c) = h.sec})
        /\ \A a, b \in {c \in shown : ~Hidden(c)} :
             /\ Info[a].guild # None /\ Mates(a, b) /\ Info[a].title < Info[b].title => Pos(a) < Pos(b)
             /\ u.sort # "unread" /\ SectionOf(a) = SectionOf(b) /\ PinFirst(u, a, b) => Pos(a) < Pos(b)
             /\ \A c \in {c \in shown : ~Hidden(c)} :
                  Mates(a, b) /\ Info[a].guild # None /\ Pos(a) < Pos(c) /\ Pos(c) < Pos(b) => Mates(a, c)

\* A change of window brings its line into the frame, whatever the filter, the
\* fold and the sort did to the list in the same step; a letter typed in the
\* panel leaves the cursor on a line of the frame, the one Enter opens.
CurrentShown ==
    /\ Current(u') # Current(u) /\ u'.side # "hidden" /\ LineOf(u', Current(u')) # 0
       => \E line \in Range(Frame(u')) : line.on
    /\ u'.q > u.q /\ SideLines(u') # <<>> => \E line \in Range(Frame(u')) : line.sel

\* With tabs, the window shown is one of the tab, after every change of the
\* window or of the tab.
InTab == TabsOn(u') /\ (Current(u') # Current(u) \/ u'.net # u.net) => WinShown(u', Current(u'))
=============================================================================
