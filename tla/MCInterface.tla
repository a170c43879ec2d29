---------------------------- MODULE MCInterface ----------------------------
(* The user interface beside the input and the windows, for TLC: the hooks, *)
(* the side panel, the media, the lookups.  They share no state: a          *)
(* behaviour is one of them (part), the others stay still.                  *)
EXTENDS MCHookRuns, SequencesExt

CONSTANTS g1, g2, t1, d2, status, results, nA, nB, guild

VARIABLES part, panel, steps, media, moves, lookups, keys

(* Two channels of a guild and a direct chat of one network, a chat of      *)
(* another; a panel of three lines with five windows.                       *)
ChatInfo ==
    g1 :> [net |-> nA, guild |-> guild, title |-> 1, direct |-> FALSE] @@
    g2 :> [net |-> nA, guild |-> guild, title |-> 3, direct |-> FALSE] @@
    t1 :> [net |-> nA, guild |-> None, title |-> 2, direct |-> TRUE] @@
    d2 :> [net |-> nB, guild |-> None, title |-> 4, direct |-> TRUE]
Panels ==
    [list : {<<g2, t1, d2>>, <<d2, g1, t1, g2>>}, date : {g1 :> 3 @@ g2 :> 1 @@ t1 :> 2 @@ d2 :> 0},
     pinned : {{g2}}, unread : {g1 :> 0 @@ g2 :> 1 @@ t1 :> 2 @@ d2 :> 0}, act : {{g2}},
     side : {"chats", "windows"}, sort : {"recent"}, split : {TRUE}, folded : {{}, {<<nA, guild>>}},
     net : {None, nA}, tabs : {TRUE}, wins : {<<status, t1, d2, g2, results>>}, cur : {2},
     last : {nA :> t1 @@ nB :> d2}, home : {None}, scroll : {1}, keys : BOOLEAN, q : {0}, chat : {None}, win : {None}]
S == INSTANCE Sidebar WITH
    Info <- ChatInfo, Nets <- <<nA, nB>>, Status <- status, Rows <- 3, Start <- Panels, MaxSteps <- 2, u <- panel,
    Match <- 0 :> {g1, g2, t1, d2} @@ 1 :> {g2, d2, t1, results} @@ 2 :> {g2}

(* A photo with a larger variant and a clip in a window, a GIF in the grid. *)
MediaOf(k, f, auto, of) == [kind |-> k, frames |-> f, size |-> 1, auto |-> auto, small |-> FALSE, of |-> of]
M == INSTANCE Media WITH
    Info <- [photo |-> MediaOf("photo", 1, TRUE, None), big |-> MediaOf("full", 1, FALSE, "photo"),
             clip |-> MediaOf("video", 3, TRUE, None), pic |-> MediaOf("gif", 2, TRUE, None)],
    Lines <- <<"photo", "clip">>, Cells <- <<"pic">>, Cap <- 3, Budget <- 3, Mpv <- TRUE, GridDownloads <- 1,
    MaxSteps <- 7, s <- media

(* Two networks, two windows, a name that one of them claims and a name that *)
(* both do, of no chat or of one on each; pages of the media browser that    *)
(* overlap.                                                                 *)
PageOf(items, next) == [items |-> items, next |-> next]
L == INSTANCE Lookups WITH
    Nets <- {"A", "B"}, Windows <- {"w1", "w2"}, Names <- 0..2, Claims <- <<{"A"}, {"A", "B"}>>,
    Lists <- {{}, {<<"A", 1>>, <<"B", 1>>}}, Queries <- 0..2, Worth <- {2}, Tabs <- {"media", "files"},
    Page <- [media |-> 0 :> PageOf(<<4, 3>>, 3) @@ 3 :> PageOf(<<3>>, 2) @@ 2 :> PageOf(<<2, 1>>, 0),
             files |-> 0 :> PageOf(<<>>, 2) @@ 3 :> PageOf(<<1>>, 0) @@ 2 :> PageOf(<<1>>, 0)],
    PerRow <- 1, Rows <- 1, MaxAuto <- 1, MaxSteps <- 3, l <- lookups

sideVars == <<panel, steps>>
mediaVars == <<media, moves>>
lookVars == <<lookups, keys>>
interfaceVars == <<part, vars, sideVars, mediaVars, lookVars>>

InterfaceInit ==
    /\ part \in {"hooks", "side", "media", "lookups"}
    /\ Init
    /\ part # "hooks" => hooks = h1 :> "none"
    /\ IF part = "side" THEN S!SideInit ELSE panel = None /\ steps = 0
    /\ IF part = "media" THEN M!MediaInit ELSE media = None /\ moves = 0
    /\ IF part = "lookups" THEN L!LookInit /\ (lookups.scene = "names" => lookups.gifNet = "A")
       ELSE lookups = None /\ keys = 0

HooksGo == part = "hooks" /\ Next /\ UNCHANGED <<part, sideVars, mediaVars, lookVars>>
SideGoes == part = "side" /\ S!SideNext /\ UNCHANGED <<part, vars, mediaVars, lookVars>>
MediaGoes == part = "media" /\ M!MediaNext /\ UNCHANGED <<part, vars, sideVars, lookVars>>
LookupsGo == part = "lookups" /\ L!LookNext /\ UNCHANGED <<part, vars, sideVars, mediaVars>>

(* Hooks end and their ends are handled, answers come, the timer of a box   *)
(* falls.                                                                   *)
InterfaceFair ==
    /\ WF_vars(part = "hooks" /\ HookDone) /\ \A r \in Run : WF_vars(part = "hooks" /\ RunEnds(r))
    /\ WF_lookVars(part = "lookups" /\ L!Settled) /\ WF_lookVars(part = "lookups" /\ L!Answers)

InterfaceSpec ==
    InterfaceInit /\ [][HooksGo \/ SideGoes \/ MediaGoes \/ LookupsGo]_interfaceVars /\ InterfaceFair

(* The list of chats hides nothing, a change of window shows its line, and  *)
(* the window is one of the tab, whatever was sorted, folded, filtered or   *)
(* closed in between (sidebar.go, filter.go, tabs.go).                      *)
SidebarRight ==
    /\ [](part = "side" => S!RowsRight)
    /\ [][part = "side" => S!CurrentShown /\ S!InTab]_sideVars

(* No message says "loading" for ever, no video plays a stump, a download   *)
(* opens only what was asked, and the frames fit their budget (media.go,    *)
(* viewer.go, grid.go).                                                     *)
MediaRight ==
    /\ [](part = "media" => M!LoadingRuns /\ M!NoStump)
    /\ [][part = "media" => M!OpensAsked /\ M!FramesBounded]_mediaVars

(* What shows as asked has an answer on its way, a window waits for one     *)
(* /query, an answer acts on the last one that was taken, and pages of      *)
(* media are put in order (query.go, resolve.go, search.go, mediabox.go).   *)
LookupsRight ==
    /\ [](part = "lookups" => L!AnswersComing /\ L!OnePending /\ L!MediaInOrder)
    /\ [][part = "lookups" => L!AnswersLast]_lookVars

(* A hook that is busy, and a box that searches, come to rest.              *)
WaitsEnd == BusyEnds /\ \A q \in 0..2 : []<>(part = "lookups" => L!BoxAtRest(q))
=============================================================================
