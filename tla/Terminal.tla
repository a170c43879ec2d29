------------------------------- MODULE Terminal -------------------------------
(* The terminal (internal/term): its bytes become keys. A sequence comes in   *)
(* pieces, an Esc alone is told from the start of a sequence by 30 ms of      *)
(* silence, a paste too big is dropped up to its end, the answers to the      *)
(* probe may come late, and Hand lends the terminal to a player. A byte here  *)
(* is an atom: the parameters of a sequence are never cut. One record t.      *)
EXTENDS Integers, SequencesExt

CONSTANTS Scripts,   \* what the user may do: sequences of gestures
          Lent,      \* the scripts during which the terminal is lent, or hangs up
          MaxPaste,  \* atoms of a paste kept waiting for its end (maxPasteCSI)
          Cap,       \* keys the channel holds
          None

VARIABLE t

(********************************* the bytes *********************************)
Esc(speaks) == IF speaks THEN <<"ESC", "[", "27", "u">> ELSE <<"ESC">>
Open == <<"ESC", "[", "200", "~">>
Close == <<"ESC", "[", "201", "~">>
Wheel == <<"ESC", "[", "<64", "M">>
Rune(r) == [code |-> "Rune", text |-> <<r>>, alt |-> FALSE]
Code(c) == [code |-> c, text |-> <<>>, alt |-> FALSE]
Paste(s) == [code |-> "Paste", text |-> s, alt |-> FALSE]
Pastes == [paste |-> <<"h", "CR">>, codes |-> <<"ESC", "[", "A">>, big |-> <<"h", "CR", "h", "CR", "ESC", "[", "A", "CR">>]
\* what the terminal sends for a gesture, and the keys it is for the user
Sends(g, speaks) ==
    CASE g = "h" -> <<"h">>
      [] g = "enter" -> <<"CR">>
      [] g = "wide" -> <<"C3", "A9">>  \* a rune of two bytes
      [] g = "up" -> <<"ESC", "[", "A">>
      [] g = "altUp" -> <<"ESC", "[", "1;3", "A">>
      [] g = "f1" -> <<"ESC", "O", "P">>
      [] g = "altH" -> <<"ESC", "h">>
      [] g = "esc" -> Esc(speaks)
      [] g = "notch" -> Wheel \o Wheel
      [] g = "osc" -> <<"ESC", "]", "h", "BEL">>
      [] g = "apc" -> <<"ESC", "_", "G", "ESC", "\\">>
      [] g = "kbd" -> <<"ESC", "[", "?1", "u">>
      [] g = "da1" -> <<"ESC", "[", "?4", "c">>
      [] g \in DOMAIN Pastes -> Open \o Pastes[g] \o Close
Means(g) ==
    CASE g = "h" -> <<Rune("h")>>
      [] g = "enter" -> <<Code("Enter")>>
      [] g = "wide" -> <<Rune("é")>>
      [] g = "up" -> <<Code("Up")>>
      [] g = "altUp" -> <<[Code("Up") EXCEPT !.alt = TRUE]>>
      [] g = "f1" -> <<Code("F1")>>
      [] g = "altH" -> <<[Rune("h") EXCEPT !.alt = TRUE]>>
      [] g = "esc" -> <<Code("Esc")>>
      [] g = "notch" -> <<Code("Wheel")>>
      [] g \in DOMAIN Pastes -> <<Paste(Pastes[g])>>
      [] g = "osc" -> <<>>

(********************************* the decoder *******************************)
\* parseOne and its parts: what the first key takes, None when it is cut
Takes(n, k) == [n |-> n, key |-> k]
NoKey == Code("None")
Has(b, i, s) == i + Len(s) - 1 <= Len(b) /\ SubSeq(b, i, i + Len(s) - 1) = s
Index(b, from, s) == LET at == {i \in from..Len(b) : Has(b, i, s)} IN IF at = {} THEN 0 ELSE Min(at)
Finals == {"A", "M", "P", "~", "u", "c", "h"}  \* the bytes that end a CSI
FnKeyCSI(p, fin) == fin = "P" => p = ""  \* F1, else an answer of the terminal
KittyKey(p) == IF p = "27" THEN Code("Esc") ELSE NoKey
CSIKey(p, fin) ==
    CASE p = "<64" /\ fin = "M" -> Code("Wheel")
      [] fin = "u" -> KittyKey(p)
      [] fin = "A" -> [Code("Up") EXCEPT !.alt = (p = "1;3")]
      [] fin = "P" /\ FnKeyCSI(p, fin) -> Code("F1")
      [] OTHER -> NoKey
PasteKey(b, i, end, final) ==  \* a paste opened by the sequence up to i, its end at end
    IF end > 0 THEN Takes(end + 3, Paste(SubSeq(b, i + 1, end - 1)))
    ELSE IF final THEN Takes(Len(b), Paste(SubSeq(b, i + 1, Len(b)))) ELSE None
CSI(b, i, p, final) == IF p = "200" /\ b[i] = "~" THEN PasteKey(b, i, Index(b, i + 1, Close), final)
                       ELSE Takes(i, CSIKey(p, b[i]))
ParseCSI(b, final) ==
    LET ends == {i \in 3..Len(b) : b[i] \in Finals}
    IN  IF ends = {} THEN (IF final THEN Takes(1, Code("Esc")) ELSE None)
        ELSE CSI(b, Min(ends), IF Min(ends) = 3 THEN "" ELSE b[3], final)
StringEnd(b, i) ==  \* a BEL, ESC \ or the ESC of another sequence ends it
    IF b[i] = "BEL" \/ b[i + 1] = "\\" THEN (IF b[i] = "BEL" THEN i ELSE i + 1) ELSE i - 1
ParseString(b, final) ==
    LET stops == {i \in 3..Len(b) : b[i] = "ESC" \/ (b[i] = "BEL" /\ b[2] = "]")}
        cut == stops = {} \/ (Min(stops) = Len(b) /\ b[Len(b)] = "ESC")
    IN  IF ~cut THEN Takes(StringEnd(b, Min(stops)), NoKey)
        ELSE IF final \/ Len(b) > MaxPaste THEN Takes(Len(b), NoKey) ELSE None
ParseSS3(b, final) ==
    CASE Len(b) < 3 -> IF final THEN Takes(1, Code("Esc")) ELSE None
      [] Len(b) >= 3 -> IF b[3] = "P" THEN Takes(3, Code("F1")) ELSE Takes(1, Code("Esc"))
ParseRune(b, final) ==
    CASE b[1] = "CR" -> Takes(1, Code("Enter"))
      [] b[1] = "C3" /\ Len(b) > 1 -> Takes(2, Rune("é"))
      [] b[1] = "C3" /\ Len(b) = 1 -> IF final THEN Takes(1, NoKey) ELSE None
      [] OTHER -> Takes(1, Rune(b[1]))
Alted(one) == IF one = None THEN None ELSE Takes(one.n + 1, [one.key EXCEPT !.alt = TRUE])
ParseOne(b, final) ==
    IF b[1] # "ESC" THEN ParseRune(b, final)
    ELSE IF Len(b) = 1 THEN (IF final THEN Takes(1, Code("Esc")) ELSE None)
    ELSE CASE b[2] = "[" -> ParseCSI(b, final)
           [] b[2] \in {"_", "]"} -> ParseString(b, final)
           [] b[2] = "O" -> ParseSS3(b, final)
           [] b[2] = "ESC" -> Takes(1, Code("Esc"))
           [] OTHER -> Alted(ParseRune(SubSeq(b, 2, Len(b)), final))
\* A key before those of the rest; of the notches in a row one is kept.
Put(key, more) == IF key.code = "None" \/ (key = Code("Wheel") /\ IsPrefix(<<key>>, more.keys)) THEN more
                  ELSE [more EXCEPT !.keys = <<key>> \o @]
Parse(b, final) ==
    LET Cut(i) == [keys |-> <<>>, rest |-> SubSeq(b, i, Len(b))]
        from[i \in 1..(Len(b) + 1)] ==
            LET Then(one) == IF one = None THEN Cut(i) ELSE Put(one.key, from[i + one.n])
            IN  IF i > Len(b) THEN Cut(i) ELSE Then(ParseOne(SubSeq(b, i, Len(b)), final))
    IN  from[1]
PasteOpen(b) == IsPrefix(Open, b)
End(s, n) == SubSeq(s, IF Len(s) > n THEN Len(s) - n + 1 ELSE 1, Len(s))
KeepShortTail(b) == End(b, Len(Close) - 2)
KeepPasteTail(b) == End(b, Len(Close) - 1)
Left(p, q) ==
    LET drop == PasteOpen(q.rest) /\ Len(q.rest) > MaxPaste + Len(Open)
    IN  [p EXCEPT !.out = @ \o q.keys, !.discard = drop, !.pending = IF drop THEN KeepPasteTail(q.rest) ELSE q.rest]
Fed(p, b, final) == Left(p, Parse(b, final))  \* Feed, once no paste is being dropped
FeedForgets(p, buf, final) == Fed(p, p.pending \o buf, final)
Feed(p, buf, final) ==
    LET b == p.pending \o buf
        end == Index(b, 1, Close)
    IN  IF ~p.discard THEN Fed(p, b, final)
        ELSE IF end = 0 THEN [p EXCEPT !.pending = KeepPasteTail(b)]
        ELSE Fed(p, SubSeq(b, end + Len(Close), Len(b)), final)

(***************************** what the user does ****************************)
\* No sequence is cut by a silence but the text of a paste, and after an Esc
\* of one byte the user rests.
Rests == ~(t.last = "esc" /\ ~t.speaks) \/ (t.tty = <<>> /\ t.pending = <<>> /\ t.pc # "wait")
Answer == t.coming = <<>> /\ t.answers # <<>> /\ Rests
          /\ t' = [t EXCEPT !.coming = Sends(t.answers[1], t.speaks), !.last = t.answers[1], !.answers = SubSeq(@, 2, Len(@))]
Gesture ==
    /\ t.coming = <<>> /\ t.script # <<>> /\ Rests /\ t.pc # "probe"
    /\ LET g == t.script[1]
       IN  t' = [t EXCEPT !.coming = Sends(g, t.speaks), !.last = g, !.script = SubSeq(@, 2, Len(@)),
                          !.meant = @ \o Means(g), !.fresh = IF t.hand = "back" THEN @ \o Means(g) ELSE @]
Arrives == t.coming # <<>> /\ ~t.hup /\ t' = [t EXCEPT !.tty = Append(@, t.coming[1]), !.coming = SubSeq(@, 2, Len(@))]
Hangup == t.lends /\ ~t.hup /\ t' = [t EXCEPT !.hup = TRUE]
InText == t.last \in DOMAIN Pastes /\ Len(t.coming) < Len(Sends(t.last, t.speaks)) - Len(Open) /\ Len(t.coming) >= Len(Close)
Silent == ~t.hup /\ t.tty = <<>> /\ (t.coming = <<>> \/ InText)

(********************************* the probe *********************************)
ProbeRead ==
    /\ t.pc = "probe" /\ t.tty # <<>>
    /\ LET resp == t.pending \o t.tty
           kbd == Index(resp, 1, Sends("kbd", TRUE)) > 0
       IN  t' = IF Index(resp, 1, Sends("da1", TRUE)) > 0
                THEN [t EXCEPT !.pc = "poll", !.tty = <<>>, !.pending = <<>>, !.kitty = kbd]
                ELSE [t EXCEPT !.tty = <<>>, !.pending = resp]
ProbeEnds ==  \* 500 ms with no answer, or the end of the input
    /\ t.pc = "probe" /\ (Silent \/ (t.hup /\ t.tty = <<>>))
    /\ t' = [t EXCEPT !.pc = "poll", !.pending = <<>>, !.kitty = Index(t.pending, 1, Sends("kbd", TRUE)) > 0]

(******************************** the read loop ******************************)
Park == t.pc = "poll" /\ t.hand = "asked" /\ t' = [t EXCEPT !.pc = "parked"]
Waits(p) == p.pending # <<>> /\ ~p.discard /\ ~p.kitty /\ ~PasteOpen(p.pending)
Onward(p) == [p EXCEPT !.tty = <<>>, !.pc = IF Waits(p) THEN "wait" ELSE "send"]
Read ==
    /\ t.pc = "poll" /\ t.hand # "asked" /\ t.tty # <<>>
    /\ t' = Onward(Feed(t, t.tty, FALSE))
More == t.pc = "wait" /\ (t.tty # <<>> \/ t.hup) /\ t' = [t EXCEPT !.pc = "send"]
SilenceIgnored == t.pc = "wait" /\ Silent /\ t' = [t EXCEPT !.pc = "send"]
Silence == t.pc = "wait" /\ Silent /\ t' = [Feed(t, <<>>, TRUE) EXCEPT !.pc = "send"]
Send ==
    /\ t.pc = "send" /\ (t.out = <<>> \/ Len(t.chan) < Cap)
    /\ t' = IF t.out = <<>> THEN [t EXCEPT !.pc = "poll"]
            ELSE [t EXCEPT !.chan = Append(@, t.out[1]), !.out = SubSeq(@, 2, Len(@))]
Ended == t.pc = "poll" /\ t.hand # "asked" /\ t.hup /\ t.tty = <<>> /\ t' = [t EXCEPT !.pc = "ended"]

(******************************** the interface ******************************)
Take == t.hand \in {"no", "back"} /\ t.chan # <<>>
        /\ t' = [t EXCEPT !.typed = Append(@, t.chan[1]), !.chan = SubSeq(@, 2, Len(@))]
Hand == t.lends /\ t.hand = "no" /\ t.pc # "probe" /\ t' = [t EXCEPT !.hand = "asked"]
HandWaits == t.hand = "asked" /\ t.chan # <<>> /\ UNCHANGED t
HandDrains == t.hand = "asked" /\ t.chan # <<>> /\ t' = [t EXCEPT !.chan = SubSeq(@, 2, Len(@))]
Held == t.hand = "asked" /\ (t.pc = "parked" \/ (t.pc = "ended" /\ t.chan = <<>>)) /\ t' = [t EXCEPT !.hand = "held"]
Program == t.hand = "held" /\ t.tty # <<>> /\ t' = [t EXCEPT !.tty = <<>>]
Back == t.hand = "held" /\ t' = [t EXCEPT !.hand = "back", !.pc = IF @ = "parked" THEN "poll" ELSE @]

TermInit ==
    \E script \in Scripts \cup Lent, speaks \in BOOLEAN :
      t = [script |-> script, lends |-> script \in Lent, speaks |-> speaks, coming |-> <<>>,
           answers |-> IF script \in Lent THEN <<>> ELSE IF speaks THEN <<"apc", "kbd", "da1">> ELSE <<"da1">>,
           last |-> "none", tty |-> <<>>, pc |-> "probe", pending |-> <<>>, discard |-> FALSE, kitty |-> FALSE, out |-> <<>>,
           chan |-> <<>>, typed |-> <<>>, meant |-> <<>>, fresh |-> <<>>, hand |-> "no", hup |-> FALSE]
LoopGoes == Park \/ More \/ Silence \/ Send \/ Ended
ReadLoop == ProbeRead \/ ProbeEnds \/ Read \/ LoopGoes
Interface == Take \/ HandDrains \/ Held
TermNext == Answer \/ Gesture \/ Arrives \/ Hangup \/ ReadLoop \/ Interface \/ Hand \/ Program \/ Back

(********************************* properties ********************************)
Decoded == t.typed \o t.chan \o t.out
Fits(s) == SelectSeq(s, LAMBDA k : Len(k.text) <= MaxPaste)
OneNotch(s) == FoldLeft(LAMBDA a, k : IF k.code = "Wheel" /\ IsSuffix(<<k>>, a) THEN a ELSE Append(a, k), <<>>, s)

\* However its bytes are cut, what the user did is what the interface gets, in
\* order: no byte of a paste, dropped or not, and of a late answer to the probe
\* is a key. Nothing is lost but a paste too big, nor kept waiting when the
\* loop waits for input with all of it read (Decoder, keys.go:59).
KeysRight ==
    LET got == OneNotch(Decoded)
        all == OneNotch(t.meant)
        small == OneNotch(Fits(t.meant))
    IN  t.hand = "no" => /\ IsPrefix(got, all) \/ IsPrefix(got, small)
                         /\ t.pc = "poll" /\ t.tty = <<>> /\ t.coming = <<>> => got \in {all, small}

\* Hand gets the terminal, with the channel full or the input at its end, and
\* while it has it the loop reads nothing.
HandsEnd == []<>(t.hand # "asked")
HandOver == t.hand = "held" => t.pc \in {"parked", "ended"}

\* Once the terminal is back, what the user does is read (Hand, term.go:144).
BackReads == t.hand = "back" /\ t.coming = <<>> /\ t.tty = <<>> /\ t.pc = "poll" => IsSuffix(Fits(t.fresh), Fits(Decoded))
===============================================================================
