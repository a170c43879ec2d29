----------------------------- MODULE InputLine -----------------------------
(***************************************************************************)
(* The input line of ttyloom: one editor for all the windows, the drafts   *)
(* of those that are not shown, the modes that borrow it (reply, edit,     *)
(* caption, paste), and the login prompts that interrupt it                *)
(* (internal/ui: ui.go, auth.go, window.go, select.go, paste.go, clip.go,  *)
(* commands.go, menu.go, hooks.go).                                        *)
(*                                                                         *)
(* Everything runs in the UI goroutine: a key or an event is one step.     *)
(* What makes it hard is that an event moves the shown window under a      *)
(* mode, a prompt or a text, and that results come later than the key that *)
(* asked for them.                                                         *)
(*                                                                         *)
(* A text is the set of the places its pieces were typed in, as the prompt *)
(* of the line named them.  ui is the state of the UI goroutine; the       *)
(* operators below map a state to the one its function leaves.             *)
(***************************************************************************)
EXTENDS Naturals, Sequences, FiniteSets

CONSTANTS
    Chat, Net,
    NetOf,          \* the network of a chat
    Status,         \* window 0
    None,
    Gone,           \* a window that was closed, still pointed at
    Plans           \* the behaviours of the instance: see Plan

Deed == {"goto", "close", "open", "gone", "search", "hook", "browse", "reply", "edit",
         "editfails", "image", "caption", "paste", "multi", "prompt", "stop", "prune",
         "remove", "account"}

\* A behaviour: what may happen in it, besides typing, Enter and Esc.
\* chats: those there are.  agg: window 0 shows the messages of all of them.
Plan == [deeds : SUBSET Deed, chats : SUBSET Chat, agg : BOOLEAN]

\* The window of a chat, and its window of search results.
Window == {Status} \cup [chat : Chat, search : BOOLEAN]
ChatWin(c) == [chat |-> c, search |-> FALSE]
SearchWin(c) == [chat |-> c, search |-> TRUE]

\* Where a piece of text was typed.
Place == [kind : {"message"}, of : Window]
         \cup [kind : {"reply", "edit", "caption"}, of : Chat]
         \cup [kind : {"answer"}, of : Net]
         \cup [kind : {"old"}, of : {None}]
Message(w) == [kind |-> "message", of |-> w]
Answer(n) == [kind |-> "answer", of |-> n]
Old == [kind |-> "old", of |-> None]
Text == SUBSET Place

ASSUME InputLineAssumption ==
    /\ NetOf \in [Chat -> Net]
    /\ {None, Gone} \cap (Place \cup Window \cup Chat \cup Net) = {}
    /\ None # Gone
    /\ Status \notin [chat : Chat, search : BOOLEAN]
    /\ Plans \subseteq Plan

VARIABLES
    plan,
    ui,             \* the input of the UI goroutine: see UI
    alive,          \* networks with a session
    late            \* results on their way: searches, images, edits

vars == <<plan, ui, alive, late>>

Ask == [chat : Chat, caption : BOOLEAN, draft : Text]
Editor == [ed : Text, kept : Text \cup {None}]
Late == [kind : {"search", "edit"}, chat : Chat] \cup [kind : {"image"}, chat : {None}]

UI == [win : Seq(Window),               \* u.ws.List
       cur : Nat,                       \* u.ws.Cur, from 1
       draft : [Window -> Text],        \* Window.Draft
       ed : Text,                       \* the editor
       kept : Text \cup {None},         \* what a browse of the history keeps
       edit : Chat \cup {None},         \* chat of the message edited
       reply : Chat \cup {None},        \* chat of the message answered
       ask : Ask \cup {None},           \* sendAsk
       paste : Place \cup {None},       \* pasteAsk, and where it was pasted
       insert : BOOLEAN,                \* pasteIns
       multi : BOOLEAN,                 \* the expanded editor
       prompt : Net \cup {None},        \* prompt, promptNet
       queue : Seq(Net),                \* authPending
       saved : Editor \cup {None},      \* authDraft
       back : Window \cup {None, Gone}, \* authWindow
       strayed : BOOLEAN]               \* see Strays

Distinct(q) == \A i, j \in DOMAIN q : q[i] = q[j] => i = j
In(x, q) == \E i \in DOMAIN q : q[i] = x

TypeOK ==
    /\ plan \in Plans
    /\ ui \in UI
    /\ alive \subseteq Net
    /\ late \subseteq Late
    /\ ui.cur \in DOMAIN ui.win
    /\ ui.win[1] = Status
    /\ Distinct(ui.win)

-----------------------------------------------------------------------------
(* The windows.                                                            *)

Current(s) == s.win[s.cur]
Index(s, w) == CHOOSE i \in DOMAIN s.win : s.win[i] = w
Shows(s, c) == IF Current(s) = Status THEN plan.agg ELSE Current(s).chat = c

\* The windows of P go; what points to one of them points to nothing.
Closed(s, P) ==
    [s EXCEPT !.win = SelectSeq(@, LAMBDA w : w \notin P),
              !.draft = [w \in Window |-> IF w \in P THEN {} ELSE @[w]],
              !.back = IF @ \in P THEN Gone ELSE @]

\* CloseAt: the window shown stays, or the one before takes its place.
CloseAt(s, i) == [Closed(s, {s.win[i]}) EXCEPT !.cur = IF @ >= i THEN @ - 1 ELSE @]

\* dropChat and dropCache: the window shown stays, or window 0 takes its place.
Dropped(s, P) ==
    LET t == Closed(s, P) IN
    [t EXCEPT !.cur = IF Current(s) \in P THEN 1 ELSE Index(t, Current(s))]

OfChats(C) == {w \in Window \ {Status} : w.chat \in C}

\* A mutated WinFor: the windows there are are not looked at.
WinForNew(s, c) == [s EXCEPT !.win = Append(@, ChatWin(c))]

\* winFor: a hidden window, where the chat has none.
WinFor(s, c) == IF In(ChatWin(c), s.win) THEN s ELSE [s EXCEPT !.win = Append(@, ChatWin(c))]

-----------------------------------------------------------------------------
(* The modes and the drafts.                                               *)

\* Not in the code: it remembers that the window shown changed without a swap
\* of the drafts, in one of the four places where this happens.
Strays(s, how) == [s EXCEPT !.strayed = @ \/ how]

\* Editor.Load.
Load(s, text) == [s EXCEPT !.ed = text, !.kept = None]

\* cancelSend: the input broken off by the caption comes back.
CancelSend(s) ==
    IF s.ask = None THEN s
    ELSE [s EXCEPT !.ask = None, !.ed = IF s.ask.caption THEN s.ask.draft ELSE @]

\* cancelMode.
CancelMode(s) ==
    CancelSend([s EXCEPT !.ed = IF s.edit # None \/ s.reply # None THEN {} ELSE @,
                         !.edit = None, !.reply = None, !.multi = FALSE])

\* No mode runs.
NoMode(s) == s.edit = None /\ s.reply = None /\ s.paste = None /\ s.ask = None

\* A mutated Plain: a login answer is filed like a draft.
PlainAnswer(s) == NoMode(s)

\* Nor a prompt: a window change files the input.
Plain(s) == NoMode(s) /\ s.prompt = None

\* swapDraft, from the window old to the one shown now.
SwapDraft(s, old) ==
    LET d == [s.draft EXCEPT ![old] = s.ed] IN
    Load([s EXCEPT !.draft = [d EXCEPT ![Current(s)] = {}]], d[Current(s)])

\* goTo.
GoTo(s, n) ==
    IF n \notin DOMAIN s.win THEN s
    ELSE LET t == [s EXCEPT !.cur = n] IN
         CancelMode(IF Plain(s) THEN SwapDraft(t, Current(s))
                    ELSE Strays(t, s.prompt = None))

\* A mutated Landed: the input of the window closed is filed as the draft of
\* the one it lands on.
LandedFiled(s) == GoTo(s, s.cur)

\* landed: the window shown has just been closed.
Landed(s) ==
    LET t == CancelMode(s) IN GoTo(Load(t, t.draft[Current(t)]), t.cur)

\* A mutated OpenChat: the new window is shown at once, without a swap.
OpenChatShown(s, c) ==
    IF In(ChatWin(c), s.win) THEN GoTo(s, Index(s, ChatWin(c)))
    ELSE CancelMode([s EXCEPT !.win = Append(@, ChatWin(c)), !.cur = Len(s.win) + 1])

\* openChat: attach ends the modes, then goTo swaps the drafts.
OpenChat(s, c) ==
    IF In(ChatWin(c), s.win) THEN GoTo(s, Index(s, ChatWin(c)))
    ELSE GoTo(CancelMode(WinFor(s, c)), Len(s.win) + 1)

-----------------------------------------------------------------------------
(* The login prompts.                                                      *)

\* authPending without the network n.
Pending(s, n) == SelectSeq(s.queue, LAMBDA m : m # n)

\* The first prompt: the modes end, the input and the window are remembered.
Interrupted(s) ==
    IF s.saved # None THEN s
    ELSE LET t == CancelMode(s) IN
         [t EXCEPT !.saved = [ed |-> t.ed, kept |-> t.kept], !.back = Current(t), !.paste = None]

\* authStart: shown, or behind the one of another network.
AuthStart(s, n) ==
    IF s.prompt \notin {None, n}
    THEN [s EXCEPT !.queue = Append(Pending(s, n), n)]
    ELSE GoTo([Load(Interrupted(s), {}) EXCEPT !.prompt = n], 1)

\* A mutated Ended: the editor is not emptied.
EndedFull(s) == [s EXCEPT !.prompt = None]

\* The prompt shown is over: the answer leaves the input.
Ended(s) == [Load(s, {}) EXCEPT !.prompt = None]

\* A mutated NextPrompt: the prompts that wait are forgotten.
NextPromptLost(s) == FALSE

\* Whether another prompt waits.
NextPrompt(s) == s.queue # <<>>

\* authDone: the next prompt, or the window and the input of before.
AuthDone(s, n) ==
    LET q == [s EXCEPT !.queue = Pending(s, n)]
        t == Ended(q)
        g == IF In(t.back, t.win) THEN GoTo(t, Index(t, t.back)) ELSE Strays(t, TRUE)
    IN  IF s.prompt # n THEN q
        ELSE IF NextPrompt(t) THEN AuthStart([t EXCEPT !.queue = Tail(@)], Head(t.queue))
        ELSE IF t.saved = None THEN t
        ELSE [g EXCEPT !.ed = t.saved.ed, !.kept = t.saved.kept, !.saved = None, !.back = None]

-----------------------------------------------------------------------------
Init ==
    /\ plan \in Plans
    /\ ui = [win |-> <<Status>>, cur |-> 1, draft |-> [w \in Window |-> {}], ed |-> {},
             kept |-> None, edit |-> None, reply |-> None, ask |-> None, paste |-> None,
             insert |-> FALSE, multi |-> FALSE, prompt |-> None, queue |-> <<>>,
             saved |-> None, back |-> None, strayed |-> FALSE]
    /\ alive = Net
    /\ late = {}

Does(d) == d \in plan.deeds
Still == UNCHANGED <<plan, alive, late>>

-----------------------------------------------------------------------------
(* Keys.                                                                   *)

\* A question of the input line takes the keys.
Asks == ui.paste # None \/ (ui.ask # None /\ ~ui.ask.caption)

\* The editor gets the keys: a prompt takes them first.
Edits == ui.prompt # None \/ ~Asks

\* The other keys work: no prompt, no question.
Free == Edits /\ ui.prompt = None

\* What the prompt of the line names (drawInput).
Here ==
    CASE ui.ask # None -> [kind |-> "caption", of |-> ui.ask.chat]
      [] ui.ask = None /\ ui.prompt # None -> Answer(ui.prompt)
      [] ui.ask = None /\ ui.prompt = None /\ ui.edit # None -> [kind |-> "edit", of |-> ui.edit]
      [] ui.ask = None /\ ui.prompt = None /\ ui.edit = None /\ ui.reply # None ->
            [kind |-> "reply", of |-> ui.reply]
      [] OTHER -> Message(Current(ui))

\* A character, or a paste of one line.
Type ==
    /\ Edits
    /\ ui' = [ui EXCEPT !.ed = @ \cup {Here}]
    /\ Still

\* The line is erased (Ctrl+A, Ctrl+K).
Erase ==
    /\ Edits
    /\ ui' = [ui EXCEPT !.ed = {}]
    /\ Still

\* Up and Down in the history of the input.
Up ==
    /\ Does("browse")
    /\ Free /\ ui.edit = None /\ ~ui.multi
    /\ ui' = [ui EXCEPT !.ed = {Old}, !.kept = IF @ = None THEN ui.ed ELSE @]
    /\ Still

Down ==
    /\ Free /\ ui.edit = None /\ ~ui.multi
    /\ ui.kept # None
    /\ ui' = [ui EXCEPT !.ed = ui.kept, !.kept = None]
    /\ Still

\* Shift+Enter, with /set multiline.
Expand ==
    /\ Does("multi")
    /\ Free
    /\ ui' = [ui EXCEPT !.multi = TRUE, !.ed = @ \cup {Here}]
    /\ Still

\* Esc.
Esc ==
    /\ Free
    /\ ui' = IF ui.multi THEN [ui EXCEPT !.multi = FALSE] ELSE CancelMode(ui)
    /\ Still

\* inputChat: the chat of the mode, of the window, or of the last message of the
\* aggregate.
Recipients(s) ==
    IF s.edit # None THEN {s.edit}
    ELSE IF s.reply # None THEN {s.reply}
    ELSE IF Current(s) # Status THEN {Current(s).chat}
    ELSE IF plan.agg THEN plan.chats ELSE {}

\* submit, of a login answer.
EnterAnswer ==
    /\ ui.prompt # None
    /\ ui' = AuthDone(ui, ui.prompt)
    /\ Still

\* submit: the line leaves the editor.
Submitted == [Load(ui, {}) EXCEPT !.multi = @ /\ ui.ask # None]

\* submit, of an edit: an empty text cancels it.
EnterEdit ==
    /\ Free /\ ui.edit # None
    /\ ui' = [Submitted EXCEPT !.edit = None]
    /\ late' = IF ui.ed # {} /\ Does("editfails")
               THEN late \cup {[kind |-> "edit", chat |-> ui.edit]} ELSE late
    /\ UNCHANGED <<plan, alive>>

\* submit, of a caption: the input of before comes back.
EnterCaption ==
    /\ Free /\ ui.edit = None /\ ui.ask # None
    /\ ui' = [Submitted EXCEPT !.ask = None, !.ed = ui.ask.draft]
    /\ Still

\* submit, of a message: to a recipient, if the window has one.
EnterMessage ==
    /\ Free /\ ui.edit = None /\ ui.ask = None
    /\ \/ /\ ui.ed = {} \/ Recipients(ui) = {}
          /\ ui' = Submitted
       \/ /\ ui.ed # {}
          /\ \E c \in Recipients(ui) : ui' = [WinFor(Submitted, c) EXCEPT !.reply = None]
    /\ Still

\* Alt+N, a click on a window, /win.
Switch(n) ==
    /\ Does("goto")
    /\ Free
    /\ n \in DOMAIN ui.win
    /\ ui' = GoTo(ui, n)
    /\ Still

\* A chat opened in the sidebar, in the box of new chats, by a jump.
Open(c) ==
    /\ Does("open")
    /\ Free
    /\ ui' = OpenChat(ui, c)
    /\ Still

\* /close, typed in an empty input, or the entry of the menu on any window.
Close(i) ==
    /\ Does("close")
    /\ Free
    /\ i \in DOMAIN ui.win \ {1}
    /\ LET t == CloseAt(ui, i) IN
       ui' = IF Current(t) # Current(ui) THEN Landed(t) ELSE t
    /\ Still

\* /search: its answer comes later.
Search(c) ==
    /\ Does("search")
    /\ Free /\ ui.edit = None
    /\ Current(ui) = ChatWin(c)
    /\ late' = late \cup {[kind |-> "search", chat |-> c]}
    /\ UNCHANGED <<plan, ui, alive>>

\* The key p on a message of the view.
Reply(c) ==
    /\ Does("reply")
    /\ Free /\ ui.edit = None /\ ui.reply = None /\ ui.ask = None
    /\ Shows(ui, c)
    /\ ui' = [ui EXCEPT !.reply = c]
    /\ Still

\* startEdit: the text of the message takes the input.
Edited(s, c) == [s EXCEPT !.edit = c, !.reply = None, !.ed = {[kind |-> "edit", of |-> c]}]

\* The key e on a message of the view.
Edit(c) ==
    /\ Does("edit")
    /\ Free /\ ui.edit = None /\ ui.reply = None /\ ui.ask = None
    /\ Shows(ui, c)
    /\ ui' = Edited(ui, c)
    /\ Still

\* A paste of several lines: asked for, but in an edit or in an answer.
Paste ==
    /\ Does("paste")
    /\ Edits
    /\ ui' = IF ui.prompt # None \/ (~ui.multi /\ ui.edit # None)
             THEN [ui EXCEPT !.ed = @ \cup {Here}]
             ELSE [ui EXCEPT !.paste = Here, !.insert = @ \/ ui.multi]
    /\ Still

\* pasteKey: the paste goes into the input of the expanded editor, else out
\* as a message; or it is dropped.
PasteKey ==
    /\ ui.prompt = None /\ ui.paste # None
    /\ \/ /\ ui.insert
          /\ ui' = [ui EXCEPT !.paste = None, !.insert = FALSE, !.ed = @ \cup {ui.paste}]
       \/ /\ ~ui.insert
          /\ \/ Recipients(ui) = {} /\ ui' = [ui EXCEPT !.paste = None]
             \/ \E c \in Recipients(ui) :
                    ui' = [WinFor(ui, c) EXCEPT !.paste = None, !.reply = IF @ = c THEN None ELSE @]
       \/ ui' = [ui EXCEPT !.paste = None, !.insert = FALSE]
    /\ Still

\* Ctrl+V: the clipboard is read in the background.
Clip ==
    /\ Does("image")
    /\ Free
    /\ late' = late \cup {[kind |-> "image", chat |-> None]}
    /\ UNCHANGED <<plan, ui, alive>>

\* sendKey: sent as it is, or dropped, or a caption first.
SendKey ==
    /\ ui.prompt = None /\ ui.paste = None
    /\ ui.ask # None /\ ~ui.ask.caption
    /\ \/ ui' = CancelSend(ui)
       \/ /\ Does("caption")
          /\ ui' = [ui EXCEPT !.ask.caption = TRUE, !.ask.draft = ui.ed, !.ed = {}]
    /\ Still

-----------------------------------------------------------------------------
(* Events.                                                                 *)

\* EvAuthPrompt.  A network may ask again before it is answered.
Prompt(n) ==
    /\ Does("prompt")
    /\ n \in alive
    /\ ui' = AuthStart(ui, n)
    /\ Still

\* EvQRDone: the prompt has nobody left to answer.
PromptDone(n) ==
    /\ Does("prompt")
    /\ n \in alive
    /\ ui' = AuthDone(ui, n)
    /\ Still

\* A mutated Stopped: the prompts of the network stay.
StopForgets(n, failed) == IF failed THEN GoTo(ui, 1) ELSE ui

\* EvStopped: window 0 shows the error.
Stopped(n, failed) == LET t == AuthDone(ui, n) IN IF failed THEN GoTo(t, 1) ELSE t

Stop(n) ==
    /\ Does("stop")
    /\ n \in alive
    /\ alive' = alive \ {n}
    /\ \E failed \in BOOLEAN : ui' = Stopped(n, failed)
    /\ UNCHANGED <<plan, late>>

\* startNet.
Login(n) ==
    /\ n \notin alive
    /\ alive' = alive \cup {n}
    /\ UNCHANGED <<plan, ui, late>>

\* EvChatGone.
ChatGone(c) ==
    /\ Does("gone")
    /\ LET t == Dropped(ui, OfChats({c})) IN
       ui' = IF Current(t) # Current(ui) THEN Landed(t) ELSE GoTo(t, t.cur)
    /\ Still

\* pruneChats and RemoveNetwork: chats dropped, then a goTo of the window shown.
Prune(P) ==
    /\ Does("prune")
    /\ LET t == Dropped(ui, OfChats(P)) IN
       ui' = Strays(GoTo(t, t.cur), Current(t) # Current(ui))
    /\ Still

\* dropCache, at an EvReady under another account: clearAccount, then the
\* windows of the network go.
Account(n) ==
    /\ Does("account")
    /\ n \in alive
    /\ LET W == OfChats({c \in Chat : NetOf[c] = n})
           t == CancelMode(ui)
           e == IF t.prompt = None THEN Load(t, {}) ELSE t
           f == [e EXCEPT !.saved = IF @ = None THEN None ELSE [ed |-> {}, kept |-> None]]
       IN  ui' = Strays(Dropped(f, W), Current(f) \in W)
    /\ Still

\* searchResult: the results take a window of their own, shown at once.
SearchFound(c) ==
    /\ [kind |-> "search", chat |-> c] \in late
    /\ late' = late \ {[kind |-> "search", chat |-> c]}
    /\ ui' = IF In(ChatWin(c), ui.win) /\ ~In(SearchWin(c), ui.win)
             THEN GoTo([ui EXCEPT !.win = Append(@, SearchWin(c))], Len(ui.win) + 1)
             ELSE ui
    /\ UNCHANGED <<plan, alive>>

\* clipImage: the question opens on the chat the input goes to now.
ImageReady ==
    /\ [kind |-> "image", chat |-> None] \in late
    /\ late' = late \ {[kind |-> "image", chat |-> None]}
    /\ \/ /\ ui.prompt # None \/ Recipients(ui) = {}
          /\ ui' = ui
       \/ /\ ui.prompt = None
          /\ \E c \in Recipients(ui) : ui' = [CancelSend(WinFor(ui, c)) EXCEPT
                                    !.ask = [chat |-> c, caption |-> FALSE, draft |-> {}]]
    /\ UNCHANGED <<plan, alive>>

\* edited, with an error: an empty input takes the text up again.
EditFails(c) ==
    /\ [kind |-> "edit", chat |-> c] \in late
    /\ late' = late \ {[kind |-> "edit", chat |-> c]}
    /\ ui' = IF Shows(ui, c) /\ ui.edit = None /\ ui.reply = None /\ ui.ed = {}
             THEN Edited(ui, c) ELSE ui
    /\ UNCHANGED <<plan, alive>>

\* A mutated Untouched: the modes are not looked at.
UntouchedText == ui.ed = {}

\* The input is empty, and nothing is asked in it.
Untouched == ui.ed = {} /\ Plain(ui)

\* hookDraft: a reply proposed by a hook, in an empty input or draft.
HookDraft(c) ==
    /\ Does("hook")
    /\ LET w == ChatWin(c)
           s == WinFor(ui, c)
       IN  ui' = IF Current(s) = w
                 THEN IF Untouched THEN [s EXCEPT !.ed = {Message(w)}] ELSE s
                 ELSE IF s.draft[w] = {} THEN [s EXCEPT !.draft[w] = {Message(w)}] ELSE s
    /\ Still

-----------------------------------------------------------------------------
Keys ==
    \/ Type \/ Erase \/ Up \/ Down \/ Expand \/ Esc
    \/ EnterAnswer \/ EnterEdit \/ EnterCaption \/ EnterMessage
    \/ Paste \/ PasteKey \/ Clip \/ SendKey
    \/ \E n \in 1 .. Len(ui.win) : Switch(n) \/ Close(n)
    \/ \E c \in plan.chats : Open(c) \/ Search(c) \/ Reply(c) \/ Edit(c)

Events ==
    \/ \E n \in Net : Prompt(n) \/ PromptDone(n) \/ Stop(n) \/ Login(n) \/ Account(n)
    \/ \E c \in plan.chats : ChatGone(c) \/ SearchFound(c) \/ EditFails(c) \/ HookDraft(c)
    \/ \E P \in SUBSET plan.chats : Prune(P)
    \/ ImageReady

Next == Keys \/ Events

\* The user answers the login that is asked.
Fairness == WF_vars(EnterAnswer)

Spec == Init /\ [][Next]_vars
FairSpec == Spec /\ Fairness

-----------------------------------------------------------------------------
(* Properties.                                                             *)

Answers == {Answer(n) : n \in Net}

\* A login answer stays in the input of its own prompt: no draft, no caption,
\* no text kept by the history or behind the prompt ever holds a piece of it.
SecretsStay ==
    /\ ui.ed \cap Answers \subseteq {Answer(n) : n \in Net \cap {ui.prompt}}
    /\ \A w \in Window : ui.draft[w] \cap Answers = {}
    /\ ui.kept # None => ui.kept \cap Answers = {}
    /\ ui.saved # None => ui.saved.ed \cap Answers = {}
    /\ ui.ask # None => ui.ask.draft \cap Answers = {}

\* What Enter gives to a network that asks was typed for it.  (But for the text
\* of an edit that fails under the prompt, and for the draft of the window the
\* program lands on when the chat shown behind the prompt goes.)
AnswersTyped ==
    ui.prompt # None /\ ~Does("editfails") /\ ~Does("gone") => ui.ed \subseteq {Answer(ui.prompt)}

\* The prompts that wait are those of other networks, once each, with a session;
\* none waits when no prompt is shown, and the input of before is kept as long
\* as one is.
PromptsInOrder ==
    /\ Distinct(ui.queue)
    /\ \A i \in DOMAIN ui.queue : ui.queue[i] \in alive \ {ui.prompt}
    /\ ui.prompt # None => ui.prompt \in alive
    /\ ui.queue # <<>> => ui.prompt # None
    /\ ui.prompt # None <=> ui.saved # None

\* A prompt that waits is shown, or its network stops.
PromptsShown ==
    \A n \in Net : []<>(In(n, ui.queue) => ui.prompt = n)

\* What belongs in the input of a window: messages typed there, replies in its
\* chat, lines of the history.
Own(w) ==
    {Message(w), Old}
    \cup (IF w = Status THEN {} ELSE {[kind |-> "reply", of |-> w.chat]})

\* With no mode, the input holds what was typed for the window shown, and a
\* draft what was typed for its window: no text crosses to another chat, where
\* Enter would send it.  (As long as nothing strayed: the window does not change
\* in a mode, and the one shown, or behind a prompt, is not dropped.  In the
\* aggregate, a paste sent as the reply leaves the text typed for the reply.  An
\* image pasted during an edit gives the text of the edit back as a message.)
OwnText ==
    ~ui.strayed /\ ~(plan.agg /\ Does("reply")) /\ ~(Does("image") /\ Does("edit")) =>
        /\ \A w \in Window : ui.draft[w] \subseteq Own(w)
        /\ Plain(ui) => ui.ed \subseteq Own(Current(ui))

\* The text of an edit was typed as an edit of that message.  (Images aside: a
\* caption typed while an edit is on is taken for the edit.  When an edit fails
\* under a login prompt whose window went, the input of before becomes its text;
\* when it fails under the question of a paste, the paste goes into it.)
EditsTyped ==
    (/\ ~ui.strayed
     /\ ~Does("image") /\ ~(Does("paste") /\ Does("editfails"))
     /\ ui.edit # None /\ ui.prompt = None)
    => ui.ed \subseteq {[kind |-> "edit", of |-> ui.edit]}

Kept(w) ==
    In(w, ui'.win) /\ ui.draft[w] # {} =>
        ui'.draft[w] = ui.draft[w] \/ (Current(ui') = w /\ ui'.ed = ui.draft[w])

\* The draft of a window that is not shown stays as it is, or comes back to the
\* input when the window is shown.
DraftsKept == ~ui'.strayed => \A w \in Window \ {Current(ui)} : Kept(w)

\* docs/guide.md:928: "Each window keeps its own draft across window switches."
EachKeepsItsDraft == [][\A w \in Window : Kept(w)]_vars
=============================================================================
