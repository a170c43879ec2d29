-------------------------------- MODULE Typing --------------------------------
(* What helps the user type: Tab (complete.go), the box of the members under  *)
(* an @ (popbox.go, mention.go) and the spell box (spellui.go). Each of them  *)
(* remembers a place of the input, and the input also changes with no key:    *)
(* the clipboard is read in the background, a chat left takes its window and  *)
(* its draft away. A text is a sequence of runes, a place the count of runes  *)
(* before it. One record e; helpers take a state and give a state.            *)
EXTENDS Integers, FiniteSets, SequencesExt, Functions

CONSTANTS Texts,     \* what the input holds at the start
          Typed,     \* the runes typed; "a" and "i" are also keys of the spell box
          Commands,  \* the command names, sorted
          Names,     \* the names Tab completes outside a command, in order
          Members,   \* the members of the chat, in order
          Fixes,     \* wrong word -> its suggestions
          Pasted,    \* the text of the clipboard
          MaxKeys,   \* bound: keys of one behaviour
          None

VARIABLES e, presses
typingVars == <<e, presses>>

Letters == {"a", "i"}
Codes == {"Tab", "Enter", "Esc", "Up", "Down", "Left", "Backspace", "CtrlR", "CtrlV"}
Text(p, from, to) == SubSeq(p.buf, from + 1, to)
SetMax0(S) == CHOOSE m \in S \cup {0} : \A x \in S \cup {0} : x <= m
WordStart(p) == SetMax0({i \in 1..p.cur : p.buf[i] = " "})

(********************************* the editor ********************************)
Replace(p, from, to, s) ==  \* past the end of the text: the program stops
    IF from > Len(p.buf) \/ to > Len(p.buf) THEN [p EXCEPT !.down = TRUE]
    ELSE [p EXCEPT !.buf = Text(p, 0, from) \o s \o Text(p, to, Len(@)), !.cur = from + Len(s)]
Insert(p, s) == Replace(p, p.cur, p.cur, s)
Load(p, s) == [p EXCEPT !.buf = s, !.cur = Len(s)]
Backspace(p) == IF p.cur = 0 THEN p ELSE Replace(p, p.cur - 1, p.cur, <<>>)
Left(p) == [p EXCEPT !.cur = IF @ = 0 THEN 0 ELSE @ - 1]
Submit(p) == Load(p, <<>>)

(******************************** the spell box ******************************)
IsWord(buf, f, t) ==  \* a run of letters, in a token with no @
    LET edge(i) == IF i \in DOMAIN buf THEN buf[i] \notin Letters ELSE TRUE
        apart(i, j) == \E k \in DOMAIN buf : buf[k] = " " /\ i < k /\ k < j
    IN  /\ \A i \in (f + 1)..t : buf[i] \in Letters
        /\ edge(f) /\ edge(t + 1)
        /\ \A i \in DOMAIN buf : buf[i] = "@" => apart(i, f + 1) \/ apart(t, i)
Words(buf) == IF buf # <<>> /\ buf[1] = "/" THEN {}
              ELSE {r \in (0..Len(buf)) \X (1..Len(buf)) : r[1] < r[2] /\ IsWord(buf, r[1], r[2])}
Bad(p) == {r \in Words(p.buf) : LET w == Text(p, r[1], r[2]) IN w \in DOMAIN Fixes /\ w \notin p.right}
Scanned(p) ==  \* spellBad: what was found stays until the text changes
    IF p.scan # None /\ p.scan.text = p.buf THEN p ELSE [p EXCEPT !.scan = [text |-> p.buf, bad |-> Bad(p)]]
SpellDirty(p) == [p EXCEPT !.scan = None]
FixOpen(p, r, walk) ==
    [p EXCEPT !.fix = [from |-> r[1], to |-> r[2], word |-> Text(p, r[1], r[2]), cur |-> 1, walk |-> walk], !.cur = r[2]]
FirstBad(p, pos) == LET after == {r \in p.scan.bad : r[1] >= pos} IN CHOOSE r \in after : \A s \in after : r[1] <= s[1]
FixNext(p, pos) ==
    LET q == Scanned(p)
    IN  IF \E r \in q.scan.bad : r[1] >= pos THEN FixOpen(q, FirstBad(q, pos), TRUE) ELSE [q EXCEPT !.fix = None]
FixDone(p, pos) == IF p.fix.walk THEN FixNext(p, pos) ELSE [p EXCEPT !.fix = None]
FixStart(p) == IF ~p.spell THEN p ELSE FixNext(p, 0)
FixApply(p) ==
    LET sugg == Fixes[p.fix.word]
        s == sugg[p.fix.cur]
    IN  IF sugg = <<>> THEN p
        ELSE FixDone(SpellDirty(Replace(p, p.fix.from, p.fix.to, s)), p.fix.from + Len(s))
AcceptKeepsScan(p, kept) ==
    LET w == Text(p, p.fix.from, p.fix.to)
    IN  FixDone([p EXCEPT !.right = @ \cup {w}, !.kept = IF kept THEN @ \cup {w} ELSE @], p.fix.to)
Accept(p, kept) ==  \* i: for the session, a: in the personal file too
    LET w == Text(p, p.fix.from, p.fix.to)
    IN  FixDone(SpellDirty([p EXCEPT !.right = @ \cup {w}, !.kept = IF kept THEN @ \cup {w} ELSE @]), p.fix.to)
FixKey(p, k) ==
    CASE k = "Esc" -> [p EXCEPT !.fix = None]
      [] k = "Up" -> [p EXCEPT !.fix.cur = IF @ = 1 THEN 1 ELSE @ - 1]
      [] k = "Down" -> [p EXCEPT !.fix.cur = IF @ >= Len(Fixes[p.fix.word]) THEN @ ELSE @ + 1]
      [] k = "Enter" -> FixApply(p)
      [] k = "i" -> Accept(p, FALSE)
      [] k = "a" -> Accept(p, TRUE)
      [] k = "CtrlR" -> FixNext(p, p.fix.to)
FixKeys == {"Esc", "Up", "Down", "Enter", "i", "a", "CtrlR"}
ApplySpell(p, on) == SpellDirty([p EXCEPT !.spell = on, !.fix = None, !.right = p.kept])

(******************************* the box of the @ ****************************)
Rows(p, q) == SelectSeq(Members, LAMBDA m : IsPrefix(q, m))  \* mentionFilter
MentionAll(p) == IF p.members = "unknown" THEN [p EXCEPT !.members = "asked"] ELSE p
PopScan(p) ==
    LET start == WordStart(p)
        sigil == p.cur > start /\ p.buf[start + 1] = "@" /\ p.buf[1] # "/"
        q == MentionAll(p)
        rows == IF q.members = "here" THEN Rows(p, Text(p, start + 1, p.cur)) ELSE <<>>
        keep == IF p.pop # None /\ p.pop.start = start /\ p.pop.cur <= Len(rows) THEN p.pop.cur ELSE 1
    IN  CASE p.fix # None -> [p EXCEPT !.pop = None]
          [] p.fix = None /\ ~sigil -> [p EXCEPT !.pop = None, !.mute = 0]
          [] p.fix = None /\ sigil /\ (p.mute = start + 1 \/ p.win = 0) -> [p EXCEPT !.pop = None]
          [] OTHER -> [q EXCEPT !.pop = IF rows = <<>> THEN None ELSE [start |-> start, rows |-> rows, cur |-> keep]]
PopPick(p) == [Replace(p, p.pop.start, p.cur, <<"@">> \o p.pop.rows[p.pop.cur] \o <<" ">>) EXCEPT !.pop = None, !.mute = 0]
PopKeys == {"Esc", "Up", "Down", "Tab", "Enter"}
PopKey(p, k) ==
    CASE k = "Esc" -> [p EXCEPT !.mute = p.pop.start + 1, !.pop = None]
      [] k = "Up" -> [p EXCEPT !.pop.cur = IF @ = 1 THEN 1 ELSE @ - 1]
      [] k = "Down" -> [p EXCEPT !.pop.cur = IF @ = Len(p.pop.rows) THEN @ ELSE @ + 1]
      [] k \in {"Tab", "Enter"} -> PopPick(p)

(************************************ Tab ************************************)
Source(p) ==  \* complContext, the names of the commands and of the chats
    IF p.cur > 0 /\ p.buf[1] = "/" THEN (IF WordStart(p) = 0 THEN "commands" ELSE "none") ELSE "chats"
Prefixed(list, word) == SelectSeq(list, LAMBDA n : IsPrefix(word, n))
CommonPrefix(list) ==
    LET n == SetMax0({k \in 1..Len(list[1]) : \A i \in DOMAIN list : IsPrefix(SubSeq(list[1], 1, k), list[i])})
    IN  SubSeq(list[1], 1, n)
Candidates(p) == CASE Source(p) = "commands" -> Commands [] Source(p) = "chats" -> Names [] OTHER -> <<>>
Listed(p, list) == [p EXCEPT !.comp = IF list = <<>> THEN None
                                      ELSE [line |-> p.buf, cur |-> p.cur, list |-> list, i |-> 1, cycle |-> FALSE, long |-> FALSE]]
Complete(p) ==  \* Editor.Complete: one match, a longer common prefix, or the matches
    LET start == WordStart(p)
        word == Text(p, start, p.cur)
        list == Prefixed(Candidates(p), word)
        more == IF Len(list) = 1 THEN list[1] \o <<" ">> ELSE CommonPrefix(list)
    IN  IF list = <<>> THEN p
        ELSE IF Len(list) > 1 /\ Len(more) <= Len(word) THEN Listed(p, list)
        ELSE Replace(p, start, p.cur, more)
Cycled(p, list, i) == LET q == Replace(p, 0, p.cur, list[i])
                      IN  [q EXCEPT !.comp = [line |-> q.buf, cur |-> q.cur, list |-> list, i |-> i, cycle |-> TRUE, long |-> FALSE]]
CompleteTabAnyLine(p) ==
    LET s == p.comp
        list == Prefixed(Commands, Text(p, 0, p.cur))
    IN  CASE s # None /\ s.cycle -> Cycled(p, s.list, (s.i % Len(s.list)) + 1)
          [] s # None /\ ~s.cycle -> [p EXCEPT !.comp.long = TRUE]
          [] s = None /\ Source(p) = "commands" /\ Len(list) > 1 -> Cycled(p, list, 1)
          [] OTHER -> Complete(p)
CompleteTab(p) ==
    LET s == p.comp
        same == s # None /\ s.line = p.buf /\ s.cur = p.cur
        list == Prefixed(Commands, Text(p, 0, p.cur))
        q == [p EXCEPT !.comp = None]
    IN  CASE same /\ s.cycle -> Cycled(p, s.list, (s.i % Len(s.list)) + 1)
          [] same /\ ~s.cycle -> [p EXCEPT !.comp.long = TRUE]
          [] ~same /\ Source(p) = "commands" /\ Len(list) > 1 -> Cycled(q, list, 1)
          [] ~same /\ Source(p) = "chats" /\ Text(p, WordStart(p), p.cur) = <<>> -> Listed(q, Names)
          [] OTHER -> Complete(q)

(********************************* the steps *********************************)
CancelModeKeeps(p) == p
CancelMode(p) == [p EXCEPT !.fix = None]
EditKey(p, k) ==  \* UI.key, once no box has taken the key
    CASE k = "Tab" -> CompleteTab(p)
      [] k = "Enter" -> Submit(p)
      [] k = "Esc" -> CancelMode(p)
      [] k = "Left" -> Left(p)
      [] k = "Backspace" -> Backspace(p)
      [] k = "CtrlR" -> FixStart(p)
      [] k = "CtrlV" -> [p EXCEPT !.clip = TRUE]
      [] k \in Typed -> Insert(p, <<k>>)
      [] OTHER -> p
Key(p, k) ==
    LET q == IF k = "Tab" THEN p ELSE [p EXCEPT !.comp = None]
        r == [q EXCEPT !.fix = None]  \* a key that is not of the box closes it
    IN  IF p.fix # None /\ k \in FixKeys THEN FixKey(q, k)
        ELSE IF p.pop # None /\ k \in PopKeys THEN PopKey(r, k)
        ELSE EditKey(r, k)
GoTo(p, w) == Load(CancelMode([p EXCEPT !.drafts[p.win] = p.buf, !.win = w, !.comp = None]), p.drafts[w])
ClipText(p) == Insert([p EXCEPT !.clip = FALSE], Pasted)  \* read in the background: no popScan
ChatGone(p) ==  \* dropChat, landed: window 0 and its draft
    LET q == CancelMode([p EXCEPT !.open = {0}, !.win = 0, !.comp = None])
    IN  IF p.win = 0 THEN q ELSE Load(q, p.drafts[0])

Presses(next, k) == presses < MaxKeys /\ ~e.down /\ presses' = presses + 1 /\ e' = [next EXCEPT !.last = k]
Happens(next, k) == ~e.down /\ presses' = presses /\ e' = [next EXCEPT !.last = k]
PressKey(k) == Presses(PopScan(Key(e, k)), k)
SwitchTo(w) == w \in e.open /\ w # e.win /\ Presses(PopScan(GoTo(e, w)), "AltN")
RightClick == e.spell /\ \E r \in Scanned(e).scan.bad : Presses(PopScan(FixOpen(Scanned(e), r, FALSE)), "click")
SetSpell(on) == on # e.spell /\ Presses(PopScan(ApplySpell(Submit(e), on)), "set")  \* a command sent
ClipLands == e.clip /\ Happens(ClipText(e), "clip")
MembersCome == e.members = "asked" /\ Happens(PopScan([e EXCEPT !.members = "here"]), "members")
ChatLeft == 1 \in e.open /\ Happens(ChatGone(e), "gone")

TypingInit ==
    /\ presses = 0
    /\ \E s \in Texts :
         e = [buf |-> s, cur |-> Len(s), win |-> 1, open |-> {0, 1}, drafts |-> [w \in 0..1 |-> <<>>], fix |-> None, scan |-> None,
              spell |-> TRUE, right |-> {}, kept |-> {}, pop |-> None, mute |-> 0, members |-> "unknown", comp |-> None,
              clip |-> FALSE, down |-> FALSE, last |-> "start"]
TypingNext ==
    \/ \E k \in Codes \cup Typed : PressKey(k)
    \/ \E w \in 0..1 : SwitchTo(w)
    \/ \E on \in BOOLEAN : SetSpell(on)
    \/ RightClick \/ ClipLands \/ MembersCome \/ ChatLeft

(********************************* properties ********************************)
\* The spell box stands on the word it was opened for, still a wrong one: what
\* Enter replaces, and i and a accept, is what the user sees, although texts
\* are pasted in, windows go and the dictionary changes.
FixFits ==
    e.fix # None => /\ e.fix.to <= Len(e.buf) /\ Text(e, e.fix.from, e.fix.to) = e.fix.word
                    /\ e.fix.word \in DOMAIN Fixes /\ e.fix.word \notin e.right

\* Tab changes nothing after the cursor, and before it takes away only a name
\* an earlier Tab put there; the rest of what was typed or pasted stays.
TabKeeps == e'.last = "Tab" /\ presses' # presses /\ e.pop = None /\ e.fix = None =>
    /\ Text(e', e'.cur, Len(e'.buf)) = Text(e, e.cur, Len(e.buf))
    /\ IsPrefix(Text(e, 0, e.cur), Text(e', 0, e'.cur)) \/ Text(e, 0, e.cur) \in Range(Commands)
===============================================================================
