------------------------- MODULE IrcCommandsProofs -------------------------
(***************************************************************************)
(* The commands of an IRC connection: their answers come where they were   *)
(* asked, a WHOIS and a ban end once, and the lines keep to the pace of    *)
(* the servers, for any plan of commands and any burst.                    *)
(***************************************************************************)
EXTENDS IrcCommands, FiniteSetTheorems, SequenceTheorems, WellFoundedInduction, NaturalsInduction, TLAPS

Places == {"new", "pacing", "locked", "asleep", "failed", "over"}
Items == {m \in [kind : {"line", "end", "welcome", "userhost", "whois", "whoisend"}, of : Cmds \cup {0}] :
             m.of = 0 => m.kind \in {"line", "end", "welcome"}}

TypeOK ==
    /\ plan \in Plans
    /\ at \in [Cmds -> Places] /\ due \in [Cmds -> Nat]
    /\ tokens \in Int /\ ticks \in Nat /\ drops \in Nat
    /\ wire \in Seq(Items) /\ bans \in Seq(Cmds)
    /\ asked = [k \in Listed |-> asked[k]]
    /\ whois \in [Nicks -> Cmds \cup {0}]
    /\ askedOn \in [Cmds -> Nat] /\ sent \subseteq Cmds
    /\ got = [i \in Cmds \cup {0} |-> got[i]]

LEMMA PlanFacts ==
    ASSUME PlansAssumption, plan \in Plans
    PROVE  /\ IsFiniteSet(Cmds) /\ Cmds \subseteq Nat \ {0}
           /\ \A i \in Cmds : Kind(i) \in Kinds /\ plan[i].nick \in Nicks
<1>1. PICK n \in Nat : DOMAIN plan = 1 .. n /\ \A i \in 1 .. n : plan[i].kind \in Kinds
  <2>1. plan \in Seq(Range(plan)) /\ \A c \in Range(plan) : c.kind \in Kinds
    BY DEF PlansAssumption
  <2>2. Len(plan) \in Nat /\ DOMAIN plan = 1 .. Len(plan)
    BY <2>1, LenProperties
  <2>3. \A i \in DOMAIN plan : plan[i] \in Range(plan)
    BY DEF Range
  <2> QED
    BY <2>1, <2>2, <2>3
<1>2. IsFiniteSet(1 .. n)
  BY FS_Interval
<1>3. ASSUME NEW i \in Cmds PROVE plan[i].nick \in Nicks
  <2>1. plan[i] \in Range(plan)
    BY DEF Range, Cmds
  <2>2. plan[i] \in UNION {Range(p) : p \in Plans}
    BY <2>1
  <2> QED
    BY <2>2 DEF Nicks
<1> QED
  BY <1>1, <1>2, <1>3 DEF Cmds, Kind

(* The answers to a command are lines.                                     *)
LEMMA AnswerLines ==
    ASSUME PlansAssumption, TypeOK, NEW i \in Cmds
    PROVE  Answer(i) \in Seq(Items)
<1>1. Kind(i) \in Kinds /\ i # 0
  BY PlanFacts DEF TypeOK
<1>2. PICK a \in Items, b \in Items, u \in Items, w \in Items, z \in Items :
          /\ a = Item("line", i) /\ b = Item("end", i) /\ u = Item("userhost", i)
          /\ w = Item("whois", i) /\ z = Item("whoisend", i)
  <2>1. /\ Item("line", i) \in Items /\ Item("end", i) \in Items /\ Item("userhost", i) \in Items
        /\ Item("whois", i) \in Items /\ Item("whoisend", i) \in Items
    BY <1>1 DEF Item, Items
  <2> QED
    BY <2>1
<1>3. /\ <<a, b>> \in Seq(Items) /\ <<b>> \in Seq(Items) /\ <<u>> \in Seq(Items)
      /\ <<w, z>> \in Seq(Items) /\ <<>> \in Seq(Items)
  OBVIOUS
<1>4. CASE Kind(i) \in Lists
  BY <1>2, <1>3, <1>4 DEF Answer, Lists, Replies
<1>5. CASE Kind(i) \in Replies
  BY <1>2, <1>3, <1>5 DEF Answer, Lists, Replies
<1>6. CASE Kind(i) = "ban"
  BY <1>2, <1>3, <1>6 DEF Answer, Lists, Replies
<1>7. CASE Kind(i) = "whois"
  BY <1>2, <1>3, <1>7 DEF Answer, Lists, Replies
<1>8. CASE Kind(i) = "plain"
  BY <1>2, <1>3, <1>8 DEF Answer, Lists, Replies
<1> QED
  BY <1>1, <1>4, <1>5, <1>6, <1>7, <1>8 DEF Kinds, Listed

LEMMA HeadItem ==
    ASSUME TypeOK, wire # <<>>
    PROVE  /\ Head(wire) \in Items /\ Tail(wire) \in Seq(Items)
           /\ Head(wire).of \in Cmds \cup {0}
           /\ Head(wire).kind \in {"userhost", "whois", "whoisend"} => Head(wire).of \in Cmds
<1>1. Head(wire) \in Items /\ Tail(wire) \in Seq(Items)
  BY HeadTailProperties DEF TypeOK
<1> QED
  BY <1>1 DEF Items

(* The sequence without its k-th element.                                  *)
LEMMA RemoveAtFacts ==
    ASSUME NEW S, NEW s \in Seq(S), NEW k \in 1 .. Len(s)
    PROVE  /\ RemoveAt(s, k) \in Seq(S) /\ Len(RemoveAt(s, k)) = Len(s) - 1
           /\ \A i \in 1 .. Len(s) - 1 : RemoveAt(s, k)[i] = IF i < k THEN s[i] ELSE s[i + 1]
<1>1. Len(s) \in Nat /\ \A i \in 1 .. Len(s) : s[i] \in S
  BY LenProperties, ElementOfSeq
<1>2. /\ SubSeq(s, 1, k - 1) \in Seq(S) /\ Len(SubSeq(s, 1, k - 1)) = k - 1
      /\ \A i \in 1 .. k - 1 : SubSeq(s, 1, k - 1)[i] = s[i]
  <2>1. \A i \in 1 .. k - 1 : s[i] \in S
    BY <1>1
  <2>2. /\ SubSeq(s, 1, k - 1) \in Seq(S)
        /\ Len(SubSeq(s, 1, k - 1)) = IF 1 <= k - 1 THEN k - 1 - 1 + 1 ELSE 0
        /\ \A i \in 1 .. k - 1 - 1 + 1 : SubSeq(s, 1, k - 1)[i] = s[1 + i - 1]
    BY <2>1, <1>1, SubSeqProperties
  <2> QED
    BY <2>2, <1>1
<1>3. /\ SubSeq(s, k + 1, Len(s)) \in Seq(S) /\ Len(SubSeq(s, k + 1, Len(s))) = Len(s) - k
      /\ \A i \in 1 .. Len(s) - k : SubSeq(s, k + 1, Len(s))[i] = s[k + i]
  <2>1. \A i \in k + 1 .. Len(s) : s[i] \in S
    BY <1>1
  <2>2. /\ SubSeq(s, k + 1, Len(s)) \in Seq(S)
        /\ Len(SubSeq(s, k + 1, Len(s))) = IF k + 1 <= Len(s) THEN Len(s) - (k + 1) + 1 ELSE 0
        /\ \A i \in 1 .. Len(s) - (k + 1) + 1 : SubSeq(s, k + 1, Len(s))[i] = s[k + 1 + i - 1]
    BY <2>1, <1>1, SubSeqProperties
  <2> QED
    BY <2>2, <1>1
<1>4. PICK a \in Seq(S), b \in Seq(S) : a = SubSeq(s, 1, k - 1) /\ b = SubSeq(s, k + 1, Len(s))
  BY <1>2, <1>3
<1>5. /\ a \o b \in Seq(S) /\ Len(a \o b) = Len(a) + Len(b)
      /\ \A i \in 1 .. Len(a) + Len(b) : (a \o b)[i] = IF i <= Len(a) THEN a[i] ELSE b[i - Len(a)]
  BY ConcatProperties
<1>6. /\ Len(a) = k - 1 /\ \A i \in 1 .. k - 1 : a[i] = s[i]
      /\ Len(b) = Len(s) - k /\ \A i \in 1 .. Len(s) - k : b[i] = s[k + i]
  BY <1>2, <1>3, <1>4
<1>7. Len(a) + Len(b) = Len(s) - 1
  BY <1>1, <1>6
<1>8. ASSUME NEW i \in 1 .. Len(s) - 1 PROVE (a \o b)[i] = IF i < k THEN s[i] ELSE s[i + 1]
  <2>1. (a \o b)[i] = IF i <= Len(a) THEN a[i] ELSE b[i - Len(a)]
    BY <1>5, <1>7
  <2>2. CASE i < k
    <3>1. i \in 1 .. k - 1 /\ i <= k - 1
      BY <2>2, <1>1
    <3> QED
      BY <2>1, <2>2, <3>1, <1>6
  <2>3. CASE ~(i < k)
    <3>1. i - (k - 1) \in 1 .. Len(s) - k /\ ~(i <= k - 1) /\ k + (i - (k - 1)) = i + 1
      BY <2>3, <1>1
    <3> QED
      BY <2>1, <2>3, <3>1, <1>6
  <2> QED
    BY <2>2, <2>3
<1>9. RemoveAt(s, k) = a \o b
  BY <1>4 DEF RemoveAt
<1> QED
  BY <1>5, <1>7, <1>8, <1>9

(* A nonempty set of places in a sequence has a first one.                 *)
LEMMA FirstPlace ==
    ASSUME NEW S \in SUBSET Nat, S # {}
    PROVE  \E k \in S : \A l \in S : k <= l
<1> DEFINE R == OpToRel(<, Nat)
<1>1. \E k \in S : \A l \in S : ~ (<<l, k>> \in R)
  <2>1. IsWellFoundedOn(R, Nat)
    BY NatLessThanWellFounded
  <2> HIDE DEF R
  <2> QED
    BY <2>1, WFMin
<1>2. PICK k \in S : \A l \in S : ~ (<<l, k>> \in R)
  BY <1>1
<1>3. \A l \in S : ~ (l < k)
  BY <1>2 DEF OpToRel
<1> QED
  BY <1>3

-----------------------------------------------------------------------------
(* Types.                                                                  *)

LEMMA TypeInit == PlansAssumption /\ Init => TypeOK
<1> SUFFICES ASSUME PlansAssumption, Init PROVE TypeOK
  OBVIOUS
<1>1. wire \in Seq(Items) /\ bans \in Seq(Cmds)
  BY EmptySeq DEF Init
<1>2. tokens \in Int
  BY DEF Init, PlansAssumption
<1> QED
  BY <1>1, <1>2 DEF Init, TypeOK, Places

(* What an answer to USERHOST does to the queue of the bans: nothing, or    *)
(* one of its requests leaves and its command gets the outcome.            *)
Leaves(k) ==
    /\ bans' \in Seq(Cmds) /\ Len(bans') = Len(bans) - 1
    /\ \A i \in 1 .. Len(bans) - 1 : bans'[i] = IF i < k THEN bans[i] ELSE bans[i + 1]
Outcome(k) ==
    \E what \in {"given up", "banned", "no host"} : \E w :
        /\ what = "banned" => w = plan[bans[k]].nick
        /\ got' = [got EXCEPT ![bans[k]] = @ \cup {<<what, w, drops>>}]

LEMMA UserhostOutcomes ==
    ASSUME PlansAssumption, TypeOK, NEW m \in Items, OnUserhost(m)
    PROVE  UNCHANGED <<bans, got>> \/ \E k \in 1 .. Len(bans) : Leaves(k) /\ Outcome(k)
<1>0. bans \in Seq(Cmds) /\ Len(bans) \in Nat
  BY LenProperties DEF TypeOK
<1>. DOMAIN bans = 1 .. Len(bans)
  BY LenProperties DEF TypeOK
<1>1. CASE bans # <<>> /\ bans' = Tail(bans) /\ got' = [got EXCEPT ![Head(bans)] = @ \cup {<<"given up", m.of, drops>>}]
  <2>1. Len(bans) # 0
    BY <1>0, <1>1, EmptySeq
  <2>2. Head(bans) = bans[1]
    BY <1>0, <2>1
  <2>3. /\ Tail(bans) \in Seq(Cmds) /\ Len(Tail(bans)) = Len(bans) - 1
        /\ \A i \in 1 .. Len(bans) - 1 : Tail(bans)[i] = bans[i + 1]
    <3>1. Tail(bans) \in Seq(Cmds) /\ Len(Tail(bans)) = Len(bans) - 1
      BY <1>0, <1>1, HeadTailProperties
    <3>2. \A i \in 1 .. Len(Tail(bans)) : Tail(bans)[i] = bans[i + 1]
      BY <1>0, <1>1, HeadTailProperties
    <3> QED
      BY <3>1, <3>2
  <2>4. Leaves(1)
    <3>1. \A i \in 1 .. Len(bans) - 1 : ~(i < 1)
      BY <1>0
    <3>2. bans' = Tail(bans)
      BY <1>1
    <3> QED
      BY <3>1, <3>2, <2>3 DEF Leaves
  <2>5. Outcome(1)
    BY <2>2, <1>1 DEF Outcome
  <2> QED
    BY <1>0, <2>1, <2>4, <2>5
<1>2. ASSUME NEW same, same = {k \in DOMAIN bans : plan[bans[k]].nick = plan[m.of].nick}, same # {},
             NEW first, first = CHOOSE k \in same : \A l \in same : k <= l,
             bans' = RemoveAt(bans, first),
             \E what \in {"banned", "no host"} : got' = Give(bans[first], what, plan[m.of].nick)
      PROVE  \E k \in 1 .. Len(bans) : Leaves(k) /\ Outcome(k)
  <2>1. \A k \in same : k \in 1 .. Len(bans) /\ plan[bans[k]].nick = plan[m.of].nick
    BY <1>2, Zenon
  <2>2. same \in SUBSET Nat
    BY <1>0, <2>1
  <2>3. \E k \in same : \A l \in same : k <= l
    BY <1>2, <2>2, FirstPlace
  <2>4. first \in same
    BY <1>2, <2>3, Zenon
  <2>5. first \in 1 .. Len(bans) /\ plan[bans[first]].nick = plan[m.of].nick
    BY <2>1, <2>4
  <2>6. Leaves(first)
    BY <1>0, <1>2, <2>5, RemoveAtFacts DEF Leaves
  <2>7. Outcome(first)
    BY <1>2, <2>5 DEF Outcome, Give
  <2> QED
    BY <2>5, <2>6, <2>7
<1>3. CASE IF bans = <<>> THEN UNCHANGED <<bans, got>>
           ELSE /\ bans' = Tail(bans)
                /\ got' = [got EXCEPT ![Head(bans)] = @ \cup {<<"given up", m.of, drops>>}]
  BY <1>1, <1>3
<1>4. CASE LET same == {k \in DOMAIN bans : plan[bans[k]].nick = plan[m.of].nick}
               first == CHOOSE k \in same : \A l \in same : k <= l
           IN IF same = {} THEN UNCHANGED <<bans, got>>
              ELSE /\ bans' = RemoveAt(bans, first)
                   /\ \E what \in {"banned", "no host"} : got' = Give(bans[first], what, plan[m.of].nick)
  <2>1. PICK same : same = {k \in DOMAIN bans : plan[bans[k]].nick = plan[m.of].nick}
    OBVIOUS
  <2>2. PICK first : first = CHOOSE k \in same : \A l \in same : k <= l
    OBVIOUS
  <2>3. IF same = {} THEN UNCHANGED <<bans, got>>
        ELSE /\ bans' = RemoveAt(bans, first)
             /\ \E what \in {"banned", "no host"} : got' = Give(bans[first], what, plan[m.of].nick)
    BY <1>4, <2>1, <2>2
  <2> QED
    BY <1>2, <2>1, <2>2, <2>3
<1> QED
  BY <1>3, <1>4 DEF OnUserhost

LEMMA TypeStep == PlansAssumption /\ TypeOK /\ [Next]_cmdVars => TypeOK'
<1> SUFFICES ASSUME PlansAssumption, TypeOK, [Next]_cmdVars PROVE TypeOK'
  OBVIOUS
<1>0. /\ plan \in Plans /\ at \in [Cmds -> Places] /\ due \in [Cmds -> Nat]
      /\ tokens \in Int /\ ticks \in Nat /\ drops \in Nat
      /\ wire \in Seq(Items) /\ bans \in Seq(Cmds)
      /\ asked = [k \in Listed |-> asked[k]] /\ whois \in [Nicks -> Cmds \cup {0}]
      /\ askedOn \in [Cmds -> Nat] /\ sent \subseteq Cmds
      /\ got = [i \in Cmds \cup {0} |-> got[i]]
      /\ "new" \in Places /\ "pacing" \in Places /\ "locked" \in Places /\ "asleep" \in Places
      /\ "failed" \in Places /\ "over" \in Places
  BY DEF TypeOK, Places
<1>1. plan' = plan /\ Cmds' = Cmds /\ Items' = Items
  <2>1. plan' = plan
    BY DEF Next, cmdVars, Connect, Drop, Stop, DropTo, Read, Tick, Type, Goroutine, Lock, CutWait, Send, SendFails,
           WhoisFails, Timeout
  <2> QED
    BY <2>1 DEF Cmds, Items
<1>2. \A i \in Cmds : Kind(i) \in Kinds /\ plan[i].nick \in Nicks
  BY <1>0, PlanFacts
<1>3. CASE UNCHANGED cmdVars
  BY <1>3, <1>0, <1>1 DEF cmdVars, TypeOK
<1>4. CASE Connect
  <2>1. PICK a \in Items, b \in Items : a = Item("line", 0) /\ b = Item("welcome", 0)
    <3>1. Item("line", 0) \in Items /\ Item("welcome", 0) \in Items
      BY DEF Item, Items
    <3> QED
      BY <3>1
  <2>2. <<a, b>> \in Seq(Items)
    OBVIOUS
  <2>3. wire' \in Seq(Items)
    BY <1>4, <2>1, <2>2 DEF Connect
  <2> QED
    BY <1>4, <2>3, <1>0, <1>1 DEF Connect, TypeOK
<1>5. CASE Drop \/ Stop
  <2>1. PICK next : DropTo(next)
    BY <1>5 DEF Drop, Stop
  <2>2. wire' \in Seq(Items) /\ bans' \in Seq(Cmds)
    BY <2>1, EmptySeq DEF DropTo
  <2>3. DOMAIN got = Cmds \cup {0}
    BY <1>0
  <2>4. got' = [i \in Cmds \cup {0} |-> got'[i]]
    BY <2>1, <2>3 DEF DropTo
  <2>5. asked' = [k \in Listed |-> asked'[k]] /\ whois' \in [Nicks -> Cmds \cup {0}] /\ drops' \in Nat
    BY <2>1, <1>0 DEF DropTo
  <2>6. UNCHANGED <<at, due, tokens, ticks, askedOn, sent>>
    BY <2>1 DEF DropTo
  <2> QED
    BY <2>2, <2>4, <2>5, <2>6, <1>0, <1>1 DEF TypeOK
<1>6. CASE Tick
  <2>1. due' \in [Cmds -> Nat]
    BY <1>6, <1>0 DEF Tick
  <2>2. tokens' \in Int /\ ticks' \in Nat
    BY <1>6, <1>0 DEF Tick
  <2> QED
    BY <1>6, <2>1, <2>2, <1>0, <1>1 DEF Tick, TypeOK
<1>7. ASSUME NEW i \in Cmds, Type(i) PROVE TypeOK'
  <2>1. UNCHANGED <<ticks, drops, wire, asked, bans, askedOn, sent, got>>
    BY <1>7 DEF Type
  <2>2. at' \in [Cmds -> Places] /\ due' \in [Cmds -> Nat] /\ tokens' \in Int
    <3>1. CASE Kind(i) = "whois"
      BY <1>7, <3>1, <1>0 DEF Type, RegisterWhois
    <3>2. CASE Kind(i) # "whois"
      <4>1. at' = [at EXCEPT ![i] = "pacing"] /\ tokens' = tokens - 1
        BY <1>7, <3>2 DEF Type, Take
      <4>2. due' = [due EXCEPT ![i] = IF tokens - 1 >= 0 THEN 0 ELSE 1 - tokens]
        BY <1>7, <3>2 DEF Type, Take
      <4>3. (IF tokens - 1 >= 0 THEN 0 ELSE 1 - tokens) \in Nat
        BY <1>0
      <4> QED
        BY <4>1, <4>2, <4>3, <1>0
    <3> QED
      BY <3>1, <3>2
  <2>3. whois' \in [Nicks -> Cmds \cup {0}]
    BY <1>7, <1>0, <1>2 DEF Type, RegisterWhois
  <2> QED
    BY <2>1, <2>2, <2>3, <1>0, <1>1 DEF TypeOK
<1>8. ASSUME NEW i \in Cmds, Lock(i) PROVE TypeOK'
  <2>1. UNCHANGED <<due, tokens, ticks, drops, wire, whois, sent, got>>
    BY <1>8 DEF Lock
  <2>2. at' \in [Cmds -> Places] /\ askedOn' \in [Cmds -> Nat]
    BY <1>8, <1>0 DEF Lock
  <2>3. asked' = [k \in Listed |-> asked'[k]]
    BY <1>8, <1>0 DEF Lock
  <2>4. bans' \in Seq(Cmds)
    BY <1>8, <1>0, AppendProperties DEF Lock
  <2> QED
    BY <2>1, <2>2, <2>3, <2>4, <1>0, <1>1 DEF TypeOK
<1>9. ASSUME NEW i \in Cmds, Send(i) PROVE TypeOK'
  <2>1. UNCHANGED <<due, tokens, ticks, drops, asked, bans, whois, askedOn, got>>
    BY <1>9 DEF Send
  <2>2. at' \in [Cmds -> Places] /\ sent' \subseteq Cmds
    BY <1>9, <1>0 DEF Send
  <2>3. wire' \in Seq(Items)
    <3>1. wire \o Answer(i) \in Seq(Items)
      BY <1>0, AnswerLines, ConcatProperties
    <3> QED
      BY <1>9, <3>1 DEF Send
  <2> QED
    BY <2>1, <2>2, <2>3, <1>0, <1>1 DEF TypeOK
<1>10. ASSUME NEW i \in Cmds, CutWait(i) \/ SendFails(i) \/ WhoisFails(i) \/ Timeout(i) PROVE TypeOK'
  <2>1. UNCHANGED <<due, tokens, ticks, drops, wire, asked, bans, askedOn, sent>>
    BY <1>10 DEF CutWait, SendFails, WhoisFails, Timeout
  <2>2. at' \in [Cmds -> Places]
    BY <1>10, <1>0 DEF CutWait, SendFails, WhoisFails, Timeout
  <2>3. whois' \in [Nicks -> Cmds \cup {0}]
    <3>1. whois' = whois \/ whois' = [whois EXCEPT ![plan[i].nick] = 0]
      BY <1>10 DEF CutWait, SendFails, WhoisFails, Timeout
    <3> QED
      BY <3>1, <1>0
  <2>4. got' = got \/ \E S : got' = [got EXCEPT ![i] = S]
    BY <1>10 DEF CutWait, SendFails, WhoisFails, Timeout, Give
  <2>5. got' = [j \in Cmds \cup {0} |-> got'[j]]
    BY <2>4, <1>0
  <2> QED
    BY <2>1, <2>2, <2>3, <2>5, <1>0, <1>1 DEF TypeOK
<1>11. CASE Read
  <2>1. UNCHANGED <<at, due, tokens, ticks, drops, askedOn, sent>> /\ wire # <<>>
    BY <1>11 DEF Read
  <2>2. PICK m : m = Head(wire)
    OBVIOUS
  <2>3. /\ m \in Items /\ Tail(wire) \in Seq(Items) /\ m.of \in Cmds \cup {0}
        /\ m.kind \in {"userhost", "whois", "whoisend"} => m.of \in Cmds
    BY <2>1, <2>2, HeadItem
  <2>4. OnLine(m) \/ OnWelcome(m) \/ OnUserhost(m) \/ OnWhois(m)
    BY <1>11, <2>2 DEF Read
  <2>5. CASE OnLine(m)
    <3>1. wire' = Tail(wire) /\ UNCHANGED <<bans, whois>>
      BY <2>5 DEF OnLine
    <3>2. /\ asked' = asked \/ \E k : asked' = [asked EXCEPT ![k] = None]
          /\ got' = got \/ \E S : got' = [got EXCEPT ![m.of] = S]
      BY <2>5 DEF OnLine, OnWho, OnModeReply, Reply, OnMotd, Keep, Forget, Give
    <3>3. asked' = [k \in Listed |-> asked'[k]] /\ got' = [j \in Cmds \cup {0} |-> got'[j]]
      BY <3>2, <1>0
    <3> QED
      BY <2>1, <2>3, <3>1, <3>3, <1>0, <1>1 DEF TypeOK
  <2>6. CASE OnWelcome(m)
    <3>1. PICK e \in Items : e = Item("end", 0)
      BY DEF Item, Items
    <3>2. <<e>> \in Seq(Items)
      OBVIOUS
    <3>3. <<e>> \o Tail(wire) \in Seq(Items)
      BY <3>2, <2>3, ConcatProperties
    <3> QED
      BY <2>6, <2>1, <3>1, <3>3, <1>0, <1>1 DEF OnWelcome, TypeOK
  <2>7. CASE OnUserhost(m)
    <3>1. wire' = Tail(wire) /\ UNCHANGED <<asked, whois>>
      BY <2>7 DEF OnUserhost
    <3>2. UNCHANGED <<bans, got>> \/ \E k \in 1 .. Len(bans) : Leaves(k) /\ Outcome(k)
      BY <2>3, <2>7, UserhostOutcomes
    <3>3. \A k \in 1 .. Len(bans) : bans[k] \in Cmds
      BY <1>0, LenProperties, ElementOfSeq
    <3>4. bans' \in Seq(Cmds)
      BY <3>2, <1>0 DEF Leaves
    <3>5. got' = [j \in Cmds \cup {0} |-> got'[j]]
      BY <3>2, <3>3, <1>0 DEF Outcome
    <3> QED
      BY <2>1, <2>3, <3>1, <3>4, <3>5, <1>0, <1>1 DEF TypeOK
  <2>8. CASE OnWhois(m)
    <3>1. wire' = Tail(wire) /\ UNCHANGED <<asked, bans>> /\ m.of \in Cmds
      BY <2>8, <2>3 DEF OnWhois
    <3>2. /\ whois' = whois \/ whois' = [whois EXCEPT ![plan[m.of].nick] = 0]
          /\ got' = got \/ \E S : got' = [got EXCEPT ![whois[plan[m.of].nick]] = S]
      BY <2>8 DEF OnWhois, Give
    <3>3. whois' \in [Nicks -> Cmds \cup {0}] /\ got' = [j \in Cmds \cup {0} |-> got'[j]]
      BY <3>1, <3>2, <1>0, <1>2
    <3> QED
      BY <2>1, <2>3, <3>1, <3>3, <1>0, <1>1 DEF TypeOK
  <2> QED
    BY <2>4, <2>5, <2>6, <2>7, <2>8
<1> QED
  BY <1>3, <1>4, <1>5, <1>6, <1>7, <1>8, <1>9, <1>10, <1>11 DEF Next, Goroutine

-----------------------------------------------------------------------------
(* The rate of the lines.  Every line the pacer let through took a token,  *)
(* every token owed has its caller still waiting, and none of those is     *)
(* sent: what went out is bounded by what was ever given.                  *)

Taken == {i \in Cmds : Kind(i) # "whois" /\ at[i] # "new"}
Owing == {i \in Cmds : due[i] > 0}

FloodInv ==
    /\ Cardinality(Taken) + tokens <= Burst + ticks
    /\ \A d \in 1 .. -tokens : \E i \in Cmds : due[i] = d
    /\ Owing \subseteq Taken
    /\ \A i \in Owing : at[i] \in {"pacing", "over"}
    /\ sent \subseteq Taken \ Owing

(* The wait of a command fills no more than itself.                        *)
LEMMA OwingCount ==
    ASSUME PlansAssumption, TypeOK, FloodInv
    PROVE  IsFiniteSet(Owing) /\ -tokens <= Cardinality(Owing)
<1>1. IsFiniteSet(Cmds) /\ Owing \in SUBSET Cmds
  BY PlanFacts DEF TypeOK, Owing
<1>2. IsFiniteSet(Owing) /\ Cardinality(Owing) \in Nat
  BY <1>1, FS_Subset, FS_CardinalityType
<1>3. CASE tokens >= 0
  BY <1>2, <1>3 DEF TypeOK
<1>4. CASE tokens < 0
  <2>1. PICK ds : ds = 1 .. -tokens
    OBVIOUS
  <2>2. PICK f : f = [d \in ds |-> CHOOSE i \in Cmds : due[i] = d]
    OBVIOUS
  <2>3. \A d \in ds : f[d] \in Cmds /\ due[f[d]] = d
    BY <2>1, <2>2 DEF FloodInv
  <2>4. \A d \in ds : d > 0
    BY <2>1, <1>4 DEF TypeOK
  <2>5. f \in [ds -> Owing]
    BY <2>2, <2>3, <2>4 DEF Owing
  <2>6. \A d, e \in ds : f[d] = f[e] => d = e
    BY <2>3
  <2>7. f \in Injection(ds, Owing)
    BY <2>5, <2>6 DEF Injection, IsInjective
  <2>8. Cardinality(ds) <= Cardinality(Owing)
    BY <2>7, <1>2, FS_Injection
  <2>9. Cardinality(ds) = -tokens
    <3>1. 1 \in Int /\ -tokens \in Int /\ ~(1 > -tokens)
      BY <1>4 DEF TypeOK
    <3>2. Cardinality(1 .. -tokens) = -tokens - 1 + 1
      BY <3>1, FS_Interval
    <3> QED
      BY <2>1, <3>1, <3>2
  <2> QED
    BY <2>8, <2>9, <1>2
<1> QED
  BY <1>2, <1>3, <1>4 DEF TypeOK

LEMMA FloodConclusion == PlansAssumption /\ TypeOK /\ FloodInv => FloodRate
<1> SUFFICES ASSUME PlansAssumption, TypeOK, FloodInv PROVE FloodRate
  OBVIOUS
<1>1. IsFiniteSet(Cmds) /\ Taken \in SUBSET Cmds
  BY PlanFacts DEF TypeOK, Taken
<1>2. IsFiniteSet(Taken) /\ Cardinality(Taken) \in Nat
  BY <1>1, FS_Subset, FS_CardinalityType
<1>3. Taken \cap Owing = Owing
  BY DEF FloodInv
<1>4. /\ IsFiniteSet(Taken \ Owing)
      /\ Cardinality(Taken \ Owing) = Cardinality(Taken) - Cardinality(Owing)
  BY <1>2, <1>3, FS_Difference
<1>5. IsFiniteSet(sent) /\ Cardinality(sent) <= Cardinality(Taken \ Owing)
  <2>1. sent \in SUBSET (Taken \ Owing)
    BY DEF FloodInv
  <2> QED
    BY <2>1, <1>4, FS_Subset
<1>6. -tokens <= Cardinality(Owing) /\ Cardinality(Owing) \in Nat
  BY OwingCount, FS_CardinalityType
<1>7. Cardinality(sent) \in Nat /\ Cardinality(Taken) + tokens <= Burst + ticks
  BY <1>5, FS_CardinalityType DEF FloodInv
<1> QED
  BY <1>2, <1>4, <1>5, <1>6, <1>7 DEF TypeOK, PlansAssumption, FloodRate

LEMMA FloodInit == PlansAssumption /\ Init => FloodInv
<1> SUFFICES ASSUME PlansAssumption, Init PROVE FloodInv
  OBVIOUS
<1>1. Taken = {} /\ Owing = {}
  BY DEF Init, Taken, Owing
<1>2. Cardinality(Taken) = 0
  BY <1>1, FS_EmptySet
<1>3. \A d \in 1 .. -tokens : FALSE
  BY DEF Init, PlansAssumption
<1> QED
  BY <1>1, <1>2, <1>3 DEF FloodInv, Init, PlansAssumption

LEMMA FloodStep == PlansAssumption /\ TypeOK /\ FloodInv /\ [Next]_cmdVars => FloodInv'
<1> SUFFICES ASSUME PlansAssumption, TypeOK, FloodInv, [Next]_cmdVars PROVE FloodInv'
  OBVIOUS
<1>0. /\ at \in [Cmds -> Places] /\ due \in [Cmds -> Nat] /\ tokens \in Int /\ ticks \in Nat /\ Burst \in Nat
      /\ sent \subseteq Cmds
  BY DEF TypeOK, PlansAssumption
<1>1. plan' = plan /\ Cmds' = Cmds /\ \A i : Kind(i)' = Kind(i)
  <2>1. plan' = plan
    BY DEF Next, cmdVars, Connect, Drop, Stop, DropTo, Read, Tick, Type, Goroutine, Lock, CutWait, Send, SendFails,
           WhoisFails, Timeout
  <2> QED
    BY <2>1 DEF Cmds, Kind
<1>2. IsFiniteSet(Taken) /\ Cardinality(Taken) \in Nat
  <2>1. IsFiniteSet(Cmds) /\ Taken \in SUBSET Cmds
    BY PlanFacts DEF TypeOK, Taken
  <2> QED
    BY <2>1, FS_Subset, FS_CardinalityType
\* Most steps take no token and touch no wait.
<1>3. ASSUME UNCHANGED <<due, tokens, ticks>>,
             \A i \in Cmds : at'[i] = at[i] \/ (at[i] # "new" /\ at'[i] # "new" /\ (i \notin Owing \/ at'[i] = "over")),
             sent' \subseteq sent \cup (Taken \ Owing)
      PROVE  FloodInv'
  <2>1. Taken' = Taken
    BY <1>1, <1>3 DEF Taken
  <2>2. Owing' = Owing
    BY <1>1, <1>3 DEF Owing
  <2>3. \A i \in Owing' : at'[i] \in {"pacing", "over"}
    BY <2>2, <1>3 DEF FloodInv, Owing
  <2>4. sent' \subseteq Taken' \ Owing'
    BY <2>1, <2>2, <1>3 DEF FloodInv
  <2>5. Cardinality(Taken') + tokens' <= Burst + ticks'
    BY <2>1, <1>3 DEF FloodInv
  <2>6. \A d \in 1 .. -tokens' : \E i \in Cmds' : due'[i] = d
    BY <1>1, <1>3 DEF FloodInv
  <2>7. Owing' \subseteq Taken'
    BY <2>1, <2>2 DEF FloodInv
  <2> QED
    BY <2>3, <2>4, <2>5, <2>6, <2>7 DEF FloodInv
<1>4. CASE UNCHANGED cmdVars \/ Connect \/ Drop \/ Stop \/ Read
  <2>1. UNCHANGED <<at, due, tokens, ticks, sent>>
    BY <1>4 DEF cmdVars, Connect, Drop, Stop, DropTo, Read
  <2>2. \A i \in Cmds : at'[i] = at[i]
    BY <2>1
  <2>3. sent' \subseteq sent \cup (Taken \ Owing)
    BY <2>1
  <2> QED
    BY <2>1, <2>2, <2>3, <1>3
<1>5. CASE Tick
  <2>1. UNCHANGED <<at, sent>> /\ Taken' = Taken
    BY <1>5, <1>1 DEF Tick, Taken
  <2>2. \A i \in Cmds : due'[i] = IF due[i] > 0 THEN due[i] - 1 ELSE 0
    BY <1>5 DEF Tick
  <2>3. Owing' \subseteq Owing
    BY <2>2, <1>0, <1>1 DEF Owing
  <2>4. Cardinality(Taken') + tokens' <= Burst + ticks'
    BY <2>1, <1>0, <1>2, <1>5 DEF Tick, FloodInv
  <2>5. ASSUME NEW d \in 1 .. -tokens' PROVE \E i \in Cmds' : due'[i] = d
    <3>1. d + 1 \in 1 .. -tokens /\ d \in Nat /\ d > 0
      BY <1>0, <1>5 DEF Tick
    <3>2. PICK i \in Cmds : due[i] = d + 1
      BY <3>1 DEF FloodInv
    <3>3. due'[i] = d
      BY <2>2, <3>1, <3>2
    <3> QED
      BY <3>3, <1>1
  <2>6. Owing' \subseteq Taken' /\ sent' \subseteq Taken' \ Owing' /\ \A i \in Owing' : at'[i] \in {"pacing", "over"}
    BY <2>1, <2>3 DEF FloodInv
  <2> QED
    BY <2>4, <2>5, <2>6 DEF FloodInv
<1>6. ASSUME NEW i \in Cmds, Type(i) PROVE FloodInv'
  <2>1. at[i] = "new" /\ UNCHANGED <<ticks, sent>> /\ i \notin Owing /\ i \notin Taken
    BY <1>6 DEF Type, FloodInv, Taken
  <2>2. CASE Kind(i) = "whois"
    <3>1. UNCHANGED <<due, tokens>> /\ at' = [at EXCEPT ![i] = "locked"]
      BY <1>6, <2>2 DEF Type, RegisterWhois
    <3>2. Taken' = Taken /\ Owing' = Owing
      BY <3>1, <2>2, <1>0, <1>1 DEF Taken, Owing
    <3>3. \A j \in Owing' : at'[j] \in {"pacing", "over"}
      BY <3>1, <3>2, <2>1, <1>0 DEF FloodInv, Owing
    <3> QED
      BY <2>1, <3>1, <3>2, <3>3, <1>1 DEF FloodInv
  <2>3. CASE Kind(i) # "whois"
    <3>1. /\ tokens' = tokens - 1 /\ at' = [at EXCEPT ![i] = "pacing"]
          /\ due' = [due EXCEPT ![i] = IF tokens - 1 >= 0 THEN 0 ELSE 1 - tokens]
      BY <1>6, <2>3 DEF Type, Take
    <3>2. Taken' = Taken \cup {i}
      BY <3>1, <2>3, <1>0, <1>1 DEF Taken
    <3>3. Cardinality(Taken') = Cardinality(Taken) + 1
      BY <3>2, <2>1, <1>2, FS_AddElement
    <3>4. Cardinality(Taken') + tokens' <= Burst + ticks'
      BY <3>1, <3>3, <2>1, <1>0, <1>2 DEF FloodInv
    <3>5. \A j \in Cmds : j # i => due'[j] = due[j] /\ at'[j] = at[j]
      BY <3>1, <1>0
    <3>6. due'[i] = (IF tokens - 1 >= 0 THEN 0 ELSE 1 - tokens) /\ at'[i] = "pacing"
      BY <3>1, <1>0
    <3>7. ASSUME NEW d \in 1 .. -tokens' PROVE \E j \in Cmds' : due'[j] = d
      <4>1. CASE d = -tokens'
        <5>1. due'[i] = d
          BY <4>1, <3>1, <3>6, <1>0
        <5> QED
          BY <5>1, <1>1
      <4>2. CASE d # -tokens'
        <5>1. d \in 1 .. -tokens /\ d > 0
          BY <4>2, <3>1, <1>0
        <5>2. PICK j \in Cmds : due[j] = d
          BY <5>1 DEF FloodInv
        <5>3. j # i
          BY <5>1, <5>2, <2>1 DEF Owing
        <5> QED
          BY <5>2, <5>3, <3>5, <1>1
      <4> QED
        BY <4>1, <4>2
    <3>8. Owing' \subseteq Owing \cup {i}
      BY <3>5, <1>1 DEF Owing
    <3>9. sent' \subseteq Taken' \ Owing'
      BY <3>2, <3>8, <2>1 DEF FloodInv
    <3>10. Owing' \subseteq Taken' /\ \A j \in Owing' : at'[j] \in {"pacing", "over"}
      BY <3>2, <3>5, <3>6, <3>8, <1>0 DEF FloodInv, Owing
    <3> QED
      BY <3>4, <3>7, <3>9, <3>10 DEF FloodInv
  <2> QED
    BY <2>2, <2>3
<1>7. ASSUME NEW i \in Cmds, Lock(i) PROVE FloodInv'
  <2>1. UNCHANGED <<due, tokens, ticks, sent>> /\ at[i] = "pacing" /\ due[i] = 0 /\ at' = [at EXCEPT ![i] = "locked"]
    BY <1>7 DEF Lock
  <2>2. i \notin Owing
    BY <2>1 DEF Owing
  <2>3. \A j \in Cmds : at'[j] = at[j] \/ (at[j] # "new" /\ at'[j] # "new" /\ j \notin Owing)
    BY <2>1, <2>2, <1>0
  <2>4. sent' \subseteq sent \cup (Taken \ Owing)
    BY <2>1
  <2> QED
    BY <2>1, <2>3, <2>4, <1>3
<1>8. ASSUME NEW i \in Cmds, CutWait(i) PROVE FloodInv'
  <2>1. UNCHANGED <<due, tokens, ticks, sent>> /\ at[i] = "pacing" /\ at' = [at EXCEPT ![i] = "over"]
    BY <1>8 DEF CutWait
  <2>2. \A j \in Cmds : at'[j] = at[j] \/ (at[j] # "new" /\ at'[j] # "new" /\ at'[j] = "over")
    BY <2>1, <1>0
  <2>3. sent' \subseteq sent \cup (Taken \ Owing)
    BY <2>1
  <2> QED
    BY <2>1, <2>2, <2>3, <1>3
<1>9. ASSUME NEW i \in Cmds, Send(i) \/ SendFails(i) \/ WhoisFails(i) \/ Timeout(i) PROVE FloodInv'
  <2>1. /\ UNCHANGED <<due, tokens, ticks>>
        /\ at[i] \in {"locked", "failed", "asleep"}
        /\ \E p \in {"asleep", "over", "failed"} : at' = [at EXCEPT ![i] = p]
        /\ sent' = sent \/ (Kind(i) # "whois" /\ sent' = sent \cup {i})
    BY <1>9 DEF Send, SendFails, WhoisFails, Timeout
  <2>2. i \notin Owing
    BY <2>1 DEF FloodInv
  <2>3. Kind(i) # "whois" => i \in Taken
    BY <2>1 DEF Taken
  <2>4. \A j \in Cmds : at'[j] = at[j] \/ (at[j] # "new" /\ at'[j] # "new" /\ j \notin Owing)
    BY <2>1, <2>2, <1>0
  <2>5. sent' \subseteq sent \cup (Taken \ Owing)
    BY <2>1, <2>2, <2>3
  <2> QED
    BY <2>1, <2>4, <2>5, <1>3
<1> QED
  BY <1>4, <1>5, <1>6, <1>7, <1>8, <1>9 DEF Next, Goroutine

-----------------------------------------------------------------------------
(* One outcome.  A WHOIS that holds the slot of its nick, and a ban in the *)
(* queue, have none but the error of a failed send; whoever gives them one *)
(* takes them out.                                                         *)

Fresh == {"new", "pacing"}
Clean(S) == \A g \in S : g[1] = "error"
Once(i) == \A g \in got[i] : \A h \in got[i] : g[1] # "error" /\ h[1] # "error" => g = h
Asking == {i \in Cmds : Kind(i) \in {"whois", "ban"}}

NothingYet == \A i \in Asking : at[i] \in Fresh => got[i] = {}
SlotInv == \A n \in Nicks : whois[n] # 0 =>
    /\ whois[n] \in Cmds /\ Kind(whois[n]) = "whois" /\ at[whois[n]] \notin Fresh
    /\ plan[whois[n]].nick = n /\ Clean(got[whois[n]])
QueueInv ==
    /\ \A k \in 1 .. Len(bans) :
          /\ bans[k] \in Cmds /\ Kind(bans[k]) = "ban" /\ at[bans[k]] \notin Fresh
          /\ Clean(got[bans[k]])
    /\ \A k \in 1 .. Len(bans) : \A l \in 1 .. Len(bans) : bans[k] = bans[l] => k = l
OnceInv == \A i \in Asking : Once(i)
HostInv == \A i \in Cmds : Kind(i) = "ban" => \A g \in got[i] : g[1] = "banned" => g[2] = plan[i].nick

OutcomeInv == NothingYet /\ SlotInv /\ QueueInv /\ OnceInv /\ HostInv

LEMMA OneOutcome ==
    ASSUME NEW i, Once(i)
    PROVE  Cardinality({g \in got[i] : g[1] # "error"}) <= 1
<1>1. PICK S : S = {g \in got[i] : g[1] # "error"}
  OBVIOUS
<1>2. CASE S = {}
  <2>1. Cardinality(S) = 0
    BY <1>2, FS_EmptySet
  <2> QED
    BY <1>1, <2>1
<1>3. ASSUME NEW g \in S PROVE Cardinality(S) <= 1
  <2>1. S = {g}
    BY <1>1 DEF Once
  <2>2. Cardinality(S) = 1
    BY <2>1, FS_Singleton
  <2> QED
    BY <2>2
<1> QED
  BY <1>1, <1>2, <1>3

LEMMA OutcomeConclusion == OutcomeInv => WhoisOnce /\ BanOnce
<1> SUFFICES ASSUME OutcomeInv PROVE WhoisOnce /\ BanOnce
  OBVIOUS
<1>1. \A i \in Asking : Cardinality({g \in got[i] : g[1] # "error"}) <= 1
  BY OneOutcome DEF OutcomeInv, OnceInv
<1> QED
  BY <1>1 DEF OutcomeInv, HostInv, Asking, WhoisOnce, BanOnce

LEMMA OutcomeInit == PlansAssumption /\ Init => OutcomeInv
<1> SUFFICES ASSUME PlansAssumption, Init PROVE OutcomeInv
  OBVIOUS
<1>1. \A i \in Cmds : got[i] = {}
  BY DEF Init
<1>2. Len(bans) = 0
  BY EmptySeq DEF Init
<1>3. \A n \in Nicks : whois[n] = 0
  BY DEF Init
<1> QED
  BY <1>1, <1>2, <1>3 DEF OutcomeInv, NothingYet, SlotInv, QueueInv, OnceInv, HostInv, Asking, Once

(* What one more entry changes: nothing for the others, and an error, or   *)
(* an outcome where there was none, leaves one.                            *)
LEMMA OneMore ==
    ASSUME TypeOK, plan' = plan, NEW i \in Cmds, NEW what, NEW w,
           got' = [got EXCEPT ![i] = @ \cup {<<what, w, drops>>}],
           what = "error" \/ Clean(got[i]), Once(i)
    PROVE  /\ \A j \in Cmds : j # i => got'[j] = got[j]
           /\ Once(i)' /\ (what = "error" /\ Clean(got[i]) => Clean(got'[i]))
           /\ got'[i] = got[i] \cup {<<what, w, drops>>}
<1>1. got'[i] = got[i] \cup {<<what, w, drops>>} /\ \A j \in Cmds : j # i => got'[j] = got[j]
  BY DEF TypeOK
<1>2. Once(i)'
  BY <1>1 DEF Once, Clean
<1>3. what = "error" /\ Clean(got[i]) => Clean(got'[i])
  BY <1>1 DEF Clean
<1> QED
  BY <1>1, <1>2, <1>3

LEMMA OutcomeStep == PlansAssumption /\ TypeOK /\ OutcomeInv /\ [Next]_cmdVars => OutcomeInv'
<1> SUFFICES ASSUME PlansAssumption, TypeOK, OutcomeInv, [Next]_cmdVars PROVE OutcomeInv'
  OBVIOUS
<1>0. /\ at \in [Cmds -> Places] /\ bans \in Seq(Cmds) /\ Len(bans) \in Nat
      /\ whois \in [Nicks -> Cmds \cup {0}] /\ got = [i \in Cmds \cup {0} |-> got[i]]
      /\ \A k \in 1 .. Len(bans) : bans[k] \in Cmds
  BY LenProperties, ElementOfSeq DEF TypeOK
<1>1. plan' = plan /\ Cmds' = Cmds /\ Asking' = Asking /\ \A i : Kind(i)' = Kind(i)
  <2>1. plan' = plan
    BY DEF Next, cmdVars, Connect, Drop, Stop, DropTo, Read, Tick, Type, Goroutine, Lock, CutWait, Send, SendFails,
           WhoisFails, Timeout
  <2> QED
    BY <2>1 DEF Cmds, Kind, Asking
<1>2. \A i \in Cmds : i # 0 /\ plan[i].nick \in Nicks
  BY PlanFacts DEF TypeOK
<1>3. /\ \A i \in Asking : (at[i] \in Fresh => got[i] = {}) /\ Once(i)
      /\ \A n \in Nicks : whois[n] # 0 => /\ whois[n] \in Asking /\ Kind(whois[n]) = "whois" /\ at[whois[n]] \notin Fresh
                                          /\ plan[whois[n]].nick = n /\ Clean(got[whois[n]])
      /\ \A k \in 1 .. Len(bans) : /\ bans[k] \in Asking /\ Kind(bans[k]) = "ban" /\ at[bans[k]] \notin Fresh
                                   /\ Clean(got[bans[k]])
      /\ \A k \in 1 .. Len(bans) : \A l \in 1 .. Len(bans) : bans[k] = bans[l] => k = l
      /\ \A i \in Cmds : Kind(i) = "ban" => \A g \in got[i] : g[1] = "banned" => g[2] = plan[i].nick
  BY DEF OutcomeInv, NothingYet, SlotInv, QueueInv, OnceInv, HostInv, Asking
\* Steps that give no command an outcome and touch neither slot nor queue.
<1>4. ASSUME UNCHANGED bans, \A n \in Nicks : whois'[n] \in {0, whois[n]}, \A i \in Asking : got'[i] = got[i],
             \A i \in Cmds : at'[i] \in Fresh => at[i] \in Fresh
      PROVE  OutcomeInv'
  <2>1. NothingYet'
    BY <1>1, <1>3, <1>4 DEF NothingYet, Asking
  <2>2. SlotInv'
    BY <1>1, <1>3, <1>4 DEF SlotInv, Clean, Asking, Nicks
  <2>3. QueueInv'
    BY <1>1, <1>3, <1>4 DEF QueueInv, Clean, Asking
  <2>4. OnceInv'
    BY <1>1, <1>3, <1>4 DEF OnceInv, Once
  <2>5. HostInv'
    BY <1>1, <1>3, <1>4 DEF HostInv, Asking
  <2> QED
    BY <2>1, <2>2, <2>3, <2>4, <2>5 DEF OutcomeInv
\* Steps that give one command an entry.
<1>5. ASSUME NEW i \in Asking, NEW what, NEW w, got' = [got EXCEPT ![i] = @ \cup {<<what, w, drops>>}],
             at'[i] \notin Fresh, \A j \in Cmds : at'[j] \in Fresh => at[j] \in Fresh,
             what = "error" \/ Clean(got[i]),
             what = "banned" => w = plan[i].nick,
             \A n \in Nicks : whois'[n] = 0 \/ (whois'[n] = whois[n] /\ (what = "error" \/ whois[n] # i)),
             bans' = bans \/ \E k \in 1 .. Len(bans) : Leaves(k) /\ bans[k] = i,
             bans' = bans => what = "error" \/ Kind(i) = "whois"
      PROVE  OutcomeInv'
  <2>0. i \in Cmds
    BY DEF Asking
  <2>1. /\ \A j \in Cmds : j # i => got'[j] = got[j]
        /\ Once(i)' /\ (what = "error" /\ Clean(got[i]) => Clean(got'[i]))
        /\ got'[i] = got[i] \cup {<<what, w, drops>>}
    <3>1. plan' = plan /\ Once(i)
      BY <1>1, <1>3
    <3> QED
      BY <3>1, <2>0, <1>5, OneMore
  <2>2. NothingYet'
    BY <2>1, <1>1, <1>3, <1>5 DEF NothingYet, Asking
  <2>3. \A j \in Asking : j # i /\ Clean(got[j]) => Clean(got'[j])
    BY <2>1 DEF Clean, Asking
  <2>4. SlotInv'
    <3> SUFFICES ASSUME NEW n \in Nicks, whois'[n] # 0
                 PROVE  /\ whois'[n] \in Cmds /\ Kind(whois'[n]) = "whois" /\ at'[whois'[n]] \notin Fresh
                        /\ plan[whois'[n]].nick = n /\ Clean(got'[whois'[n]])
      BY <1>1 DEF SlotInv, Nicks
    <3>1. whois'[n] = whois[n] /\ (what = "error" \/ whois[n] # i) /\ whois[n] \in Asking
      BY <1>3, <1>5
    <3>2. Clean(got'[whois[n]])
      BY <3>1, <2>1, <2>3, <1>3
    <3>3. at'[whois[n]] \notin Fresh
      BY <3>1, <1>3, <1>5 DEF Asking
    <3> QED
      BY <3>1, <3>2, <3>3, <1>3 DEF Asking
  <2>5. QueueInv'
    <3>1. CASE bans' = bans
      <4>1. ASSUME NEW k \in 1 .. Len(bans) PROVE at'[bans[k]] \notin Fresh /\ Clean(got'[bans[k]])
        <5>1. bans[k] \in Asking /\ bans[k] \in Cmds /\ Kind(bans[k]) = "ban" /\ Clean(got[bans[k]]) /\ at[bans[k]] \notin Fresh
          BY <1>0, <1>3
        <5>2. bans[k] # i \/ what = "error"
          BY <5>1, <3>1, <1>5
        <5> QED
          BY <5>1, <5>2, <2>1, <2>3, <1>5
      <4> QED
        BY <4>1, <3>1, <1>0, <1>1, <1>3 DEF QueueInv
    <3>2. ASSUME NEW k \in 1 .. Len(bans), Leaves(k), bans[k] = i PROVE QueueInv'
      <4>1. Len(bans') = Len(bans) - 1 /\ \A l \in 1 .. Len(bans) - 1 : bans'[l] = IF l < k THEN bans[l] ELSE bans[l + 1]
        BY <3>2 DEF Leaves
      <4>2. \A l \in 1 .. Len(bans) - 1 : \E p \in 1 .. Len(bans) : p # k /\ bans'[l] = bans[p] /\ p = IF l < k THEN l ELSE l + 1
        BY <4>1, <1>0
      <4>3. ASSUME NEW l \in 1 .. Len(bans) - 1
            PROVE  /\ bans'[l] \in Cmds /\ Kind(bans'[l]) = "ban" /\ at'[bans'[l]] \notin Fresh
                   /\ Clean(got'[bans'[l]])
        <5>1. PICK p \in 1 .. Len(bans) : p # k /\ bans'[l] = bans[p]
          BY <4>2
        <5>2. bans[p] # i /\ bans[p] \in Asking
          BY <5>1, <3>2, <1>3
        <5>3. Clean(got'[bans[p]])
          BY <5>2, <2>3, <1>3
        <5>4. at'[bans[p]] \notin Fresh
          BY <5>1, <1>0, <1>3, <1>5
        <5> QED
          BY <5>1, <5>3, <5>4, <1>0, <1>3
      <4>4. ASSUME NEW l1 \in 1 .. Len(bans) - 1, NEW l2 \in 1 .. Len(bans) - 1, bans'[l1] = bans'[l2] PROVE l1 = l2
        <5>1. PICK p1 \in 1 .. Len(bans) : bans'[l1] = bans[p1] /\ p1 = IF l1 < k THEN l1 ELSE l1 + 1
          BY <4>2
        <5>2. PICK p2 \in 1 .. Len(bans) : bans'[l2] = bans[p2] /\ p2 = IF l2 < k THEN l2 ELSE l2 + 1
          BY <4>2
        <5>3. p1 = p2
          BY <5>1, <5>2, <4>4, <1>3
        <5> QED
          BY <5>1, <5>2, <5>3, <1>0
      <4>5. \A l \in 1 .. Len(bans') : l \in 1 .. Len(bans) - 1
        BY <4>1
      <4> QED
        BY <4>3, <4>4, <4>5, <1>1 DEF QueueInv
    <3> QED
      BY <3>1, <3>2, <1>5
  <2>6. OnceInv'
    <3>1. \A j \in Asking : j # i /\ Once(j) => Once(j)'
      BY <2>1 DEF Once, Asking
    <3> QED
      BY <3>1, <2>1, <1>1, <1>3 DEF OnceInv
  <2>7. HostInv'
    <3>1. \A j \in Cmds : j # i => got'[j] = got[j]
      BY <2>1
    <3>2. \A g \in got'[i] : g \in got[i] \/ g = <<what, w, drops>>
      BY <2>1
    <3>3. ASSUME Kind(i) = "ban", NEW g \in got'[i], g[1] = "banned" PROVE g[2] = plan[i].nick
      BY <3>2, <3>3, <2>0, <1>3, <1>5
    <3>4. ASSUME NEW j \in Cmds, Kind(j) = "ban", NEW g \in got'[j], g[1] = "banned" PROVE g[2] = plan[j].nick
      BY <3>1, <3>3, <3>4, <1>3
    <3> QED
      BY <3>4, <1>1 DEF HostInv
  <2> QED
    BY <2>2, <2>4, <2>5, <2>6, <2>7 DEF OutcomeInv
<1>6. CASE UNCHANGED cmdVars \/ Connect \/ Tick
  <2>1. UNCHANGED <<at, whois, bans, got>>
    BY <1>6 DEF cmdVars, Connect, Tick
  <2> QED
    BY <2>1, <1>4
<1>7. CASE Drop \/ Stop
  <2>1. PICK next : DropTo(next)
    BY <1>7 DEF Drop, Stop
  <2>2. /\ UNCHANGED at /\ bans' = <<>> /\ \A n \in Nicks : whois'[n] = 0
        /\ \A i \in Cmds : got'[i] = IF Kind(i) = "whois" /\ whois[plan[i].nick] = i
                                     THEN got[i] \cup {<<"down", plan[i].win, drops>>} ELSE got[i]
    BY <2>1, <1>0, <1>2 DEF DropTo
  <2>3. ASSUME NEW i \in Asking
        PROVE  got'[i] = got[i] \/ (/\ Kind(i) = "whois" /\ Clean(got[i]) /\ at[i] \notin Fresh
                                   /\ got'[i] = got[i] \cup {<<"down", plan[i].win, drops>>})
    <3>1. i \in Cmds /\ i # 0 /\ plan[i].nick \in Nicks
      BY <1>2 DEF Asking
    <3>2. CASE Kind(i) = "whois" /\ whois[plan[i].nick] = i
      <4>1. Clean(got[i]) /\ at[i] \notin Fresh
        BY <3>1, <3>2, <1>3
      <4> QED
        BY <4>1, <3>1, <3>2, <2>2
    <3>3. CASE ~(Kind(i) = "whois" /\ whois[plan[i].nick] = i)
      BY <3>1, <3>3, <2>2
    <3> QED
      BY <3>2, <3>3
  <2>4. NothingYet'
    BY <2>2, <2>3, <1>1, <1>3 DEF NothingYet
  <2>5. SlotInv'
    BY <2>2, <1>1 DEF SlotInv, Nicks
  <2>6. QueueInv'
    <3>1. Len(bans') = 0
      BY <2>2, EmptySeq
    <3> QED
      BY <3>1 DEF QueueInv
  <2>7. OnceInv'
    <3>1. ASSUME NEW i \in Asking PROVE Once(i)'
      <4>1. CASE got'[i] = got[i]
        BY <4>1, <1>3 DEF Once
      <4>2. CASE Clean(got[i]) /\ got'[i] = got[i] \cup {<<"down", plan[i].win, drops>>}
        BY <4>2 DEF Once, Clean
      <4> QED
        BY <4>1, <4>2, <2>3
    <3> QED
      BY <3>1, <1>1 DEF OnceInv
  <2>8. HostInv'
    BY <2>2, <1>1, <1>3 DEF HostInv
  <2> QED
    BY <2>4, <2>5, <2>6, <2>7, <2>8 DEF OutcomeInv
<1>8. ASSUME NEW i \in Cmds, Type(i) PROVE OutcomeInv'
  <2>1. at[i] = "new" /\ UNCHANGED <<bans, got>>
    BY <1>8 DEF Type
  <2>2. CASE Kind(i) # "whois"
    <3>1. UNCHANGED whois /\ at' = [at EXCEPT ![i] = "pacing"]
      BY <1>8, <2>2 DEF Type
    <3>2. \A j \in Cmds : at'[j] \in Fresh => at[j] \in Fresh
      BY <3>1, <2>1, <1>0 DEF Fresh
    <3> QED
      BY <3>1, <3>2, <2>1, <1>4
  <2>3. CASE Kind(i) = "whois"
    <3>1. whois' = [whois EXCEPT ![plan[i].nick] = i] /\ at' = [at EXCEPT ![i] = "locked"]
      BY <1>8, <2>3 DEF Type, RegisterWhois
    <3>2. got[i] = {} /\ i \in Asking
      BY <2>1, <2>3, <1>3 DEF Asking, Fresh
    <3>3. \A j \in Cmds : at'[j] \in Fresh => at[j] \in Fresh
      BY <3>1, <2>1, <1>0 DEF Fresh
    <3>4. at'[i] \notin Fresh
      BY <3>1, <1>0 DEF Fresh
    <3>5. NothingYet'
      BY <3>3, <2>1, <1>1, <1>3 DEF NothingYet, Asking
    <3>6. SlotInv'
      <4>1. ASSUME NEW n \in Nicks, whois'[n] # 0
            PROVE  /\ whois'[n] \in Cmds /\ Kind(whois'[n]) = "whois" /\ at'[whois'[n]] \notin Fresh
                   /\ plan[whois'[n]].nick = n /\ Clean(got[whois'[n]])
        <5>1. CASE n = plan[i].nick
          BY <5>1, <3>1, <3>2, <3>4, <2>3, <1>0, <1>2 DEF Clean
        <5>2. CASE n # plan[i].nick
          <6>1. whois'[n] = whois[n] /\ whois[n] # 0
            BY <5>2, <4>1, <3>1, <1>0
          <6>2. at'[whois[n]] \notin Fresh
            BY <6>1, <3>3, <1>3 DEF Asking
          <6> QED
            BY <6>1, <6>2, <1>3 DEF Asking
        <5> QED
          BY <5>1, <5>2
      <4> QED
        BY <4>1, <2>1, <1>1 DEF SlotInv, Nicks
    <3>7. QueueInv'
      <4>1. \A k \in 1 .. Len(bans) : at'[bans[k]] \notin Fresh /\ bans[k] \in Cmds
        BY <3>3, <1>0, <1>3
      <4>2. bans' = bans /\ got' = got
        BY <2>1
      <4> QED
        BY <4>1, <4>2, <1>1, <1>3 DEF QueueInv
    <3>8. OnceInv' /\ HostInv'
      BY <2>1, <1>1, <1>3 DEF OnceInv, Once, HostInv
    <3> QED
      BY <3>5, <3>6, <3>7, <3>8 DEF OutcomeInv
  <2> QED
    BY <2>2, <2>3
<1>9. ASSUME NEW i \in Cmds, Lock(i) PROVE OutcomeInv'
  <2>1. at[i] = "pacing" /\ at' = [at EXCEPT ![i] = "locked"] /\ UNCHANGED <<whois, got>>
    BY <1>9 DEF Lock
  <2>2. at'[i] \notin Fresh /\ \A j \in Cmds : at'[j] \in Fresh => at[j] \in Fresh
    BY <2>1, <1>0 DEF Fresh
  <2>3. CASE Kind(i) # "ban"
    <3>1. UNCHANGED bans
      BY <1>9, <2>3 DEF Lock
    <3> QED
      BY <3>1, <2>1, <2>2, <1>4
  <2>4. CASE Kind(i) = "ban"
    <3>1. bans' = Append(bans, i)
      BY <1>9, <2>4 DEF Lock
    <3>2. got[i] = {} /\ i \in Asking
      BY <2>1, <2>4, <1>3 DEF Asking, Fresh
    <3>3. Len(bans') = Len(bans) + 1 /\ \A k \in 1 .. Len(bans) + 1 : bans'[k] = IF k <= Len(bans) THEN bans[k] ELSE i
      BY <3>1, <1>0, AppendProperties
    <3>4. \A k \in 1 .. Len(bans) : bans[k] # i
      BY <2>1, <1>3 DEF Fresh
    <3>5. NothingYet'
      BY <2>1, <2>2, <1>1, <1>3 DEF NothingYet, Asking
    <3>6. SlotInv'
      BY <2>1, <2>2, <1>1, <1>3 DEF SlotInv, Nicks, Asking
    <3>7. QueueInv'
      <4>1. ASSUME NEW k \in 1 .. Len(bans) + 1
            PROVE  /\ bans'[k] \in Cmds /\ Kind(bans'[k]) = "ban" /\ at'[bans'[k]] \notin Fresh
                   /\ Clean(got[bans'[k]])
        <5>1. CASE k \in 1 .. Len(bans)
          <6>1. bans'[k] = bans[k]
            BY <5>1, <3>3
          <6>2. at'[bans[k]] \notin Fresh
            BY <5>1, <2>2, <1>0, <1>3
          <6> QED
            BY <5>1, <6>1, <6>2, <1>0, <1>3
        <5>2. CASE k = Len(bans) + 1
          BY <5>2, <3>2, <3>3, <2>2, <2>4, <1>0 DEF Clean
        <5> QED
          BY <5>1, <5>2, <1>0
      <4>2. ASSUME NEW k \in 1 .. Len(bans) + 1, NEW l \in 1 .. Len(bans) + 1, bans'[k] = bans'[l] PROVE k = l
        BY <4>2, <3>3, <3>4, <1>0, <1>3
      <4>3. 1 .. Len(bans') = 1 .. Len(bans) + 1 /\ UNCHANGED got
        BY <3>3, <2>1
      <4> QED
        BY <4>1, <4>2, <4>3, <1>1 DEF QueueInv
    <3>8. OnceInv' /\ HostInv'
      BY <2>1, <1>1, <1>3 DEF OnceInv, Once, HostInv
    <3> QED
      BY <3>5, <3>6, <3>7, <3>8 DEF OutcomeInv
  <2> QED
    BY <2>3, <2>4
<1>10. ASSUME NEW i \in Cmds, Send(i) \/ CutWait(i) \/ SendFails(i) \/ WhoisFails(i) \/ Timeout(i) PROVE OutcomeInv'
  <2>1. /\ at[i] \in {"pacing", "locked", "failed", "asleep"} /\ UNCHANGED bans
        /\ \E p \in {"asleep", "over", "failed"} : at' = [at EXCEPT ![i] = p]
    BY <1>10 DEF Send, CutWait, SendFails, WhoisFails, Timeout
  <2>2. at'[i] \notin Fresh /\ \A j \in Cmds : at'[j] \in Fresh => at[j] \in Fresh
    BY <2>1, <1>0 DEF Fresh
  <2>3. /\ \A n \in Nicks : whois'[n] = 0 \/ whois'[n] = whois[n]
        /\ \/ UNCHANGED <<whois, got>>
           \/ got' = [got EXCEPT ![i] = @ \cup {<<"error", plan[i].win, drops>>}]
           \/ /\ whois[plan[i].nick] = i /\ whois' = [whois EXCEPT ![plan[i].nick] = 0]
              /\ got' = [got EXCEPT ![i] = @ \cup {<<"timeout", plan[i].win, drops>>}]
    BY <1>10, <1>0 DEF Send, CutWait, SendFails, WhoisFails, Timeout, Give
  <2>4. CASE UNCHANGED <<whois, got>>
    BY <2>1, <2>2, <2>4, <1>4
  <2>5. CASE i \notin Asking
    <3>1. \A j \in Asking : got'[j] = got[j]
      BY <2>3, <2>5, <1>0 DEF Asking
    <3> QED
      BY <3>1, <2>1, <2>2, <2>3, <1>4
  <2>6. CASE i \in Asking /\ got' = [got EXCEPT ![i] = @ \cup {<<"error", plan[i].win, drops>>}]
    BY <2>1, <2>2, <2>3, <2>6, <1>5
  <2>7. CASE /\ i \in Asking /\ whois[plan[i].nick] = i /\ whois' = [whois EXCEPT ![plan[i].nick] = 0]
             /\ got' = [got EXCEPT ![i] = @ \cup {<<"timeout", plan[i].win, drops>>}]
    <3>1. Clean(got[i]) /\ Kind(i) = "whois" /\ \A n \in Nicks : whois[n] = i => n = plan[i].nick
      BY <2>7, <1>2, <1>3
    <3>2. \A n \in Nicks : whois'[n] = 0 \/ (whois'[n] = whois[n] /\ whois[n] # i)
      BY <3>1, <2>7, <1>0
    <3>3. UNCHANGED bans
      BY <2>1
    <3>4. Clean(got[i]) /\ i \in Asking /\ Kind(i) = "whois"
      BY <3>1, <2>7
    <3>5. PICK what, w : what = "timeout" /\ got' = [got EXCEPT ![i] = @ \cup {<<what, w, drops>>}]
      BY <2>7
    <3>6. \A n \in Nicks : whois'[n] = 0 \/ (whois'[n] = whois[n] /\ (what = "error" \/ whois[n] # i))
      BY <3>2
    <3>7. what # "banned"
      BY <3>5
    <3> QED
      BY <3>3, <3>4, <3>5, <3>6, <3>7, <2>2, <1>5
  <2> QED
    BY <2>3, <2>4, <2>5, <2>6, <2>7
<1>11. CASE Read
  <2>1. UNCHANGED at /\ wire # <<>>
    BY <1>11 DEF Read
  <2>2. PICK m : m = Head(wire)
    OBVIOUS
  <2>3. /\ m \in Items /\ m.of \in Cmds \cup {0}
        /\ m.kind \in {"userhost", "whois", "whoisend"} => m.of \in Cmds
    BY <2>1, <2>2, HeadItem
  <2>4. OnLine(m) \/ OnWelcome(m) \/ OnUserhost(m) \/ OnWhois(m)
    BY <1>11, <2>2 DEF Read
  <2>5. CASE OnLine(m) \/ OnWelcome(m)
    <3>1. UNCHANGED <<bans, whois>>
      BY <2>5 DEF OnLine, OnWelcome
    <3>2. got' = got \/ (AskedKind(m) \in Listed /\ \E S : got' = [got EXCEPT ![m.of] = S])
      BY <2>5 DEF OnLine, OnWelcome, OnWho, OnModeReply, Reply, OnMotd, Keep, Forget, Give, Listed, Lists, Replies
    <3>3. m.of # 0 /\ AskedKind(m) \in Listed => m.of \notin Asking
      BY DEF AskedKind, Listed, Lists, Replies, Asking
    <3>4. \A j \in Asking : j \in Cmds /\ j # 0
      BY <1>2 DEF Asking
    <3>5. \A j \in Asking : got'[j] = got[j]
      BY <3>2, <3>3, <3>4, <1>0
    <3> QED
      BY <3>1, <3>5, <2>1, <1>4
  <2>6. CASE OnUserhost(m)
    <3>1. UNCHANGED whois
      BY <2>6 DEF OnUserhost
    <3>2. UNCHANGED <<bans, got>> \/ \E k \in 1 .. Len(bans) : Leaves(k) /\ Outcome(k)
      BY <2>3, <2>6, UserhostOutcomes
    <3>3. ASSUME NEW k \in 1 .. Len(bans), Leaves(k), Outcome(k) PROVE OutcomeInv'
      <4>1. PICK i : i = bans[k]
        OBVIOUS
      <4>2. i \in Asking /\ i \in Cmds /\ Kind(i) = "ban" /\ at'[i] \notin Fresh /\ Clean(got[i])
        BY <4>1, <2>1, <1>0, <1>3
      <4>3. PICK what, w : /\ what \in {"given up", "banned", "no host"} /\ (what = "banned" => w = plan[i].nick)
                           /\ got' = [got EXCEPT ![i] = @ \cup {<<what, w, drops>>}]
        BY <3>3, <4>1 DEF Outcome
      <4>4. \A n \in Nicks : whois'[n] = 0 \/ (whois'[n] = whois[n] /\ whois[n] # i)
        BY <3>1, <4>2, <1>3
      <4>5. Len(bans') # Len(bans)
        BY <3>3, <1>0 DEF Leaves
      <4>6. bans' # bans
        BY <4>5
      <4>7. \E l \in 1 .. Len(bans) : Leaves(l) /\ bans[l] = i
        BY <3>3, <4>1
      <4> QED
        BY <4>2, <4>3, <4>4, <4>6, <4>7, <2>1, <1>5
    <3> QED
      BY <3>1, <3>2, <3>3, <2>1, <1>4
  <2>7. CASE OnWhois(m)
    <3>1. UNCHANGED bans /\ m.of \in Cmds
      BY <2>3, <2>7 DEF OnWhois
    <3>2. PICK n : n = plan[m.of].nick
      OBVIOUS
    <3>3. \/ UNCHANGED <<whois, got>>
          \/ /\ whois[n] # 0 /\ whois' = [whois EXCEPT ![n] = 0]
             /\ \E what \in {"lines", "none"} : got' = Give(whois[n], what, plan[whois[n]].win)
      BY <3>2, <2>7 DEF OnWhois
    <3>4. CASE UNCHANGED <<whois, got>>
      BY <3>1, <3>4, <2>1, <1>4
    <3>5. CASE /\ whois[n] # 0 /\ whois' = [whois EXCEPT ![n] = 0]
               /\ \E what \in {"lines", "none"} : got' = Give(whois[n], what, plan[whois[n]].win)
      <4>1. PICK i : i = whois[n]
        OBVIOUS
      <4>2. n \in Nicks
        BY <3>1, <3>2, <1>2
      <4>3. i \in Asking /\ i \in Cmds /\ Kind(i) = "whois" /\ at'[i] \notin Fresh /\ Clean(got[i]) /\ plan[i].nick = n
        BY <4>1, <4>2, <3>5, <2>1, <1>3 DEF Asking
      <4>4. PICK what \in {"lines", "none"} : got' = [got EXCEPT ![i] = @ \cup {<<what, plan[i].win, drops>>}]
        BY <3>5, <4>1 DEF Give
      <4>5. ASSUME NEW p \in Nicks PROVE whois'[p] = 0 \/ (whois'[p] = whois[p] /\ whois[p] # i)
        <5>1. CASE p = n
          BY <5>1, <3>5, <4>2, <1>0
        <5>2. CASE p # n
          <6>1. whois'[p] = whois[p]
            BY <5>2, <3>5, <4>2, <1>0
          <6>2. whois[p] # i
            BY <5>2, <4>3, <1>2, <1>3
          <6> QED
            BY <6>1, <6>2
        <5> QED
          BY <5>1, <5>2
      <4> QED
        BY <4>3, <4>4, <4>5, <3>1, <2>1, <1>5
    <3> QED
      BY <3>3, <3>4, <3>5
  <2> QED
    BY <2>4, <2>5, <2>6, <2>7
<1> QED
  BY <1>6, <1>7, <1>8, <1>9, <1>10, <1>11 DEF Next, Goroutine

-----------------------------------------------------------------------------
(* Where answers go.  A window noted for a kind of answer is that of a     *)
(* command that took the lock on this connection, and an answer goes to    *)
(* the window noted, or to window 0.                                       *)

Backed(k, w, d) == \E j \in Cmds : at[j] \notin Fresh /\ Kind(j) = k /\ plan[j].win = w /\ askedOn[j] = d
KindOf(i) == IF i = 0 THEN "motd" ELSE Kind(i)
AnswerRight(i, g) == g[1] \in {"line", "end"} => g[2] = Zero \/ Backed(KindOf(i), g[2], g[3])

AskedInv ==
    /\ \A k \in Listed : asked[k] = None \/ Backed(k, asked[k], drops)
    /\ \A i \in Cmds \cup {0} : \A g \in got[i] : AnswerRight(i, g)

LEMMA AskedConclusion == PlansAssumption /\ TypeOK /\ AskedInv => AnswersAsked
<1> SUFFICES ASSUME PlansAssumption, TypeOK, AskedInv,
                    NEW i \in Cmds \cup {0}, NEW g \in got[i], g[1] \in {"line", "end"}
             PROVE  g[2] = Zero \/ \E j \in Cmds : /\ plan[j].win = g[2] /\ askedOn[j] = g[3]
                                                   /\ Kind(j) = (IF i = 0 THEN "motd" ELSE Kind(i))
  BY DEF AnswersAsked
<1>1. g[2] = Zero \/ Backed(KindOf(i), g[2], g[3])
  BY DEF AskedInv, AnswerRight
<1> QED
  BY <1>1 DEF Backed, KindOf

LEMMA AskedInit == PlansAssumption /\ Init => AskedInv
  BY DEF Init, AskedInv

NoNewLine == \A i \in Cmds \cup {0} : \A g \in got'[i] : g \in got[i] \/ g[1] \notin {"line", "end"}

LEMMA OtherEntry ==
    ASSUME TypeOK, NEW i, NEW what, NEW w, what \notin {"line", "end"},
           got' = [got EXCEPT ![i] = @ \cup {<<what, w, drops>>}]
    PROVE  NoNewLine
<1>1. \A j \in Cmds \cup {0} : got'[j] \subseteq got[j] \cup {<<what, w, drops>>}
  BY DEF TypeOK
<1>2. \A j \in Cmds \cup {0} : \A g \in got'[j] : g \in got[j] \/ g = <<what, w, drops>>
  BY <1>1
<1>3. \A g : g = <<what, w, drops>> => g[1] \notin {"line", "end"}
  OBVIOUS
<1> QED
  BY <1>2, <1>3 DEF NoNewLine

LEMMA AskedStep == PlansAssumption /\ TypeOK /\ AskedInv /\ [Next]_cmdVars => AskedInv'
<1> SUFFICES ASSUME PlansAssumption, TypeOK, AskedInv, [Next]_cmdVars PROVE AskedInv'
  OBVIOUS
<1>0. /\ at \in [Cmds -> Places] /\ askedOn \in [Cmds -> Nat]
      /\ asked = [k \in Listed |-> asked[k]] /\ got = [i \in Cmds \cup {0} |-> got[i]]
      /\ bans \in Seq(Cmds) /\ whois \in [Nicks -> Cmds \cup {0}]
      /\ \A k \in 1 .. Len(bans) : bans[k] \in Cmds
  BY ElementOfSeq DEF TypeOK
<1>1. plan' = plan /\ Cmds' = Cmds /\ \A i : Kind(i)' = Kind(i) /\ KindOf(i)' = KindOf(i)
  <2>1. plan' = plan
    BY DEF Next, cmdVars, Connect, Drop, Stop, DropTo, Read, Tick, Type, Goroutine, Lock, CutWait, Send, SendFails,
           WhoisFails, Timeout
  <2> QED
    BY <2>1 DEF Cmds, Kind, KindOf
<1>2. \A i \in Cmds : i # 0 /\ plan[i].nick \in Nicks
  BY PlanFacts DEF TypeOK
\* A command that took the lock keeps what it noted.
<1>3. \A j \in Cmds : at[j] \notin Fresh => at'[j] \notin Fresh /\ askedOn'[j] = askedOn[j]
  <2>1. CASE UNCHANGED cmdVars \/ Connect \/ Drop \/ Stop \/ Read \/ Tick
    <3>1. UNCHANGED <<at, askedOn>>
      BY <2>1 DEF cmdVars, Connect, Drop, Stop, DropTo, Read, Tick
    <3> QED
      BY <3>1
  <2>2. ASSUME NEW i \in Cmds, Type(i) PROVE \A j \in Cmds : at[j] \notin Fresh => at'[j] \notin Fresh /\ askedOn'[j] = askedOn[j]
    <3>1. at[i] = "new" /\ UNCHANGED askedOn /\ \E p : at' = [at EXCEPT ![i] = p]
      BY <2>2 DEF Type, RegisterWhois
    <3> QED
      BY <3>1, <1>0 DEF Fresh
  <2>3. ASSUME NEW i \in Cmds, Lock(i) PROVE \A j \in Cmds : at[j] \notin Fresh => at'[j] \notin Fresh /\ askedOn'[j] = askedOn[j]
    <3>1. at[i] = "pacing" /\ (\E d : askedOn' = [askedOn EXCEPT ![i] = d]) /\ \E p : at' = [at EXCEPT ![i] = p]
      BY <2>3 DEF Lock
    <3> QED
      BY <3>1, <1>0 DEF Fresh
  <2>4. ASSUME NEW i \in Cmds, Send(i) \/ CutWait(i) \/ SendFails(i) \/ WhoisFails(i) \/ Timeout(i)
        PROVE  \A j \in Cmds : at[j] \notin Fresh => at'[j] \notin Fresh /\ askedOn'[j] = askedOn[j]
    <3>1. UNCHANGED askedOn /\ \E p \in {"asleep", "over", "failed"} : at' = [at EXCEPT ![i] = p]
      BY <2>4 DEF Send, CutWait, SendFails, WhoisFails, Timeout
    <3> QED
      BY <3>1, <1>0 DEF Fresh
  <2> QED
    BY <2>1, <2>2, <2>3, <2>4 DEF Next, Goroutine
<1>4. \A k, w, d : Backed(k, w, d) => Backed(k, w, d)'
  BY <1>1, <1>3 DEF Backed
\* What was answered stays right; what comes is to be looked at.
<1>5. \A i, g : AnswerRight(i, g) => AnswerRight(i, g)'
  BY <1>1, <1>4 DEF AnswerRight
<1>6. \A i \in Cmds \cup {0} : \A g \in got[i] : AnswerRight(i, g)'
  BY <1>5 DEF AskedInv
<1>7. ASSUME \A k \in Listed : asked'[k] = None \/ (asked'[k] = asked[k] /\ drops' = drops),
             \A i \in Cmds \cup {0} : \A g \in got'[i] : g \in got[i] \/ AnswerRight(i, g)'
      PROVE  AskedInv'
  <2>1. ASSUME NEW k \in Listed, asked'[k] # None
        PROVE  \E j \in Cmds : at'[j] \notin Fresh /\ Kind(j) = k /\ plan[j].win = asked'[k] /\ askedOn'[j] = drops'
    <3>1. asked'[k] = asked[k] /\ drops' = drops
      BY <2>1, <1>7
    <3>2. Backed(k, asked[k], drops)
      BY <2>1, <3>1 DEF AskedInv
    <3> QED
      BY <3>1, <3>2, <1>3 DEF Backed
  <2>2. (\A k \in Listed : asked[k] = None \/ Backed(k, asked[k], drops))'
    BY <2>1, <1>1 DEF Backed
  <2>3. \A i \in Cmds \cup {0} : \A g \in got'[i] : AnswerRight(i, g)'
    BY <1>6, <1>7
  <2> QED
    BY <2>2, <2>3, <1>1 DEF AskedInv
\* Steps that give no line.
<1>8. ASSUME \A k \in Listed : asked'[k] = None \/ (asked'[k] = asked[k] /\ drops' = drops),
             got' = got \/ NoNewLine
      PROVE  AskedInv'
  <2>1. \A i \in Cmds \cup {0} : \A g \in got'[i] : g \in got[i] \/ AnswerRight(i, g)'
    BY <1>8 DEF NoNewLine, AnswerRight
  <2> QED
    BY <2>1, <1>7, <1>8
<1>9. CASE UNCHANGED cmdVars \/ Connect \/ Tick
  <2>1. UNCHANGED <<asked, drops, got>>
    BY <1>9 DEF cmdVars, Connect, Tick
  <2> QED
    BY <2>1, <1>8
<1>10. CASE Drop \/ Stop
  <2>1. PICK next : DropTo(next)
    BY <1>10 DEF Drop, Stop
  <2>2. \A k \in Listed : asked'[k] = None
    BY <2>1 DEF DropTo
  <2>3. \A i \in Cmds \cup {0} : got'[i] = got[i] \/ got'[i] = got[i] \cup {<<"down", plan[i].win, drops>>}
    BY <2>1, <1>0 DEF DropTo
  <2>4. ASSUME NEW i \in Cmds \cup {0}, NEW g, g \in got'[i] PROVE g \in got[i] \/ AnswerRight(i, g)'
    <3>1. g \in got[i] \/ g[1] \notin {"line", "end"}
      BY <2>3, <2>4
    <3> QED
      BY <3>1 DEF AnswerRight
  <2> QED
    BY <2>2, <2>4, <1>7
<1>11. ASSUME NEW i \in Cmds, Type(i) \/ Send(i) \/ CutWait(i) \/ SendFails(i) \/ WhoisFails(i) \/ Timeout(i) PROVE AskedInv'
  <2>1. UNCHANGED <<asked, drops>>
    BY <1>11 DEF Type, Send, CutWait, SendFails, WhoisFails, Timeout
  <2>2. got' = got \/ \E what \in {"error", "timeout"} : got' = Give(i, what, plan[i].win)
    BY <1>11 DEF Type, Send, CutWait, SendFails, WhoisFails, Timeout
  <2>3. CASE got' = got
    BY <2>1, <2>3, <1>8
  <2>4. ASSUME NEW what \in {"error", "timeout"}, got' = Give(i, what, plan[i].win) PROVE AskedInv'
    <3>1. NoNewLine
      BY <2>4, OtherEntry DEF Give
    <3> QED
      BY <2>1, <3>1, <1>8
  <2> QED
    BY <2>2, <2>3, <2>4
<1>12. ASSUME NEW i \in Cmds, Lock(i) PROVE AskedInv'
  <2>1. /\ UNCHANGED <<drops, got>> /\ at' = [at EXCEPT ![i] = "locked"] /\ askedOn' = [askedOn EXCEPT ![i] = drops]
        /\ asked' = IF Kind(i) \in Listed THEN [asked EXCEPT ![Kind(i)] = plan[i].win] ELSE asked
    BY <1>12 DEF Lock
  <2>2. CASE Kind(i) \notin Listed
    BY <2>1, <2>2, <1>8
  <2>3. CASE Kind(i) \in Listed
    <3>1. at'[i] \notin Fresh /\ askedOn'[i] = drops
      BY <2>1, <1>0 DEF Fresh
    <3>2. ASSUME NEW k \in Listed, asked'[k] # None
          PROVE  \E j \in Cmds : at'[j] \notin Fresh /\ Kind(j) = k /\ plan[j].win = asked'[k] /\ askedOn'[j] = drops'
      <4>1. CASE k = Kind(i)
        BY <4>1, <3>1, <2>1, <2>3, <1>0
      <4>2. CASE k # Kind(i)
        <5>1. asked'[k] = asked[k]
          BY <4>2, <2>1, <2>3, <1>0
        <5>2. Backed(k, asked[k], drops)
          BY <3>2, <5>1 DEF AskedInv
        <5> QED
          BY <5>1, <5>2, <2>1, <1>3 DEF Backed
      <4> QED
        BY <4>1, <4>2
    <3>3. (\A k \in Listed : asked[k] = None \/ Backed(k, asked[k], drops))'
      BY <3>2, <1>1 DEF Backed
    <3>4. \A j \in Cmds \cup {0} : \A g \in got'[j] : AnswerRight(j, g)'
      BY <2>1, <1>6
    <3> QED
      BY <3>3, <3>4, <1>1 DEF AskedInv
  <2> QED
    BY <2>2, <2>3
<1>13. CASE Read
  <2>1. UNCHANGED drops /\ wire # <<>>
    BY <1>13 DEF Read
  <2>2. PICK m : m = Head(wire)
    OBVIOUS
  <2>3. /\ m \in Items /\ m.of \in Cmds \cup {0}
        /\ m.kind \in {"userhost", "whois", "whoisend"} => m.of \in Cmds
    BY <2>1, <2>2, HeadItem
  <2>4. OnLine(m) \/ OnWelcome(m) \/ OnUserhost(m) \/ OnWhois(m)
    BY <1>13, <2>2 DEF Read
  <2>5. CASE OnLine(m)
    <3>1. /\ asked' = asked \/ asked' = [asked EXCEPT ![AskedKind(m)] = None]
          /\ got' = got \/ (AskedKind(m) \in Listed /\ got' = Give(m.of, m.kind, WindowOf(AskedKind(m))))
      BY <2>5 DEF OnLine, OnWho, OnModeReply, Reply, OnMotd, Keep, Forget, Listed, Lists, Replies
    <3>2. \A k \in Listed : asked'[k] = None \/ (asked'[k] = asked[k] /\ drops' = drops)
      BY <3>1, <2>1, <1>0
    <3>3. CASE got' = got
      BY <3>2, <3>3, <1>8
    <3>4. CASE AskedKind(m) \in Listed /\ got' = Give(m.of, m.kind, WindowOf(AskedKind(m)))
      <4>1. AskedKind(m) = KindOf(m.of)
        BY DEF AskedKind, KindOf
      <4>2. PICK w : w = WindowOf(AskedKind(m))
        OBVIOUS
      <4>3. w = Zero \/ Backed(KindOf(m.of), w, drops)
        BY <3>4, <4>1, <4>2 DEF WindowOf, AskedInv
      <4>4. PICK e : e = <<m.kind, w, drops>>
        OBVIOUS
      <4>5. AnswerRight(m.of, e)
        BY <4>3, <4>4 DEF AnswerRight
      <4>6. AnswerRight(m.of, e)'
        BY <4>5, <1>5
      <4>7. got' = [got EXCEPT ![m.of] = @ \cup {e}]
        BY <3>4, <4>2, <4>4 DEF Give
      <4>8. ASSUME NEW i \in Cmds \cup {0}, NEW g, g \in got'[i] PROVE g \in got[i] \/ AnswerRight(i, g)'
        <5>1. g \in got[i] \/ (i = m.of /\ g = e)
          BY <4>7, <4>8, <1>0
        <5> QED
          BY <5>1, <4>6
      <4> QED
        BY <4>8, <3>2, <1>7
    <3> QED
      BY <3>1, <3>3, <3>4
  <2>6. CASE OnWelcome(m)
    <3>1. UNCHANGED <<asked, got>>
      BY <2>6 DEF OnWelcome
    <3> QED
      BY <3>1, <2>1, <1>8
  <2>7. CASE OnUserhost(m)
    <3>1. UNCHANGED asked
      BY <2>7 DEF OnUserhost
    <3>2. UNCHANGED <<bans, got>> \/ \E k \in 1 .. Len(bans) : Leaves(k) /\ Outcome(k)
      BY <2>3, <2>7, UserhostOutcomes
    <3>3. got' = got \/ NoNewLine
      <4>1. ASSUME NEW k, Outcome(k) PROVE NoNewLine
        <5>1. PICK what, w : what \notin {"line", "end"} /\ got' = [got EXCEPT ![bans[k]] = @ \cup {<<what, w, drops>>}]
          BY <4>1 DEF Outcome
        <5> QED
          BY <5>1, OtherEntry
      <4> QED
        BY <3>2, <4>1
    <3> QED
      BY <3>1, <3>3, <2>1, <1>8
  <2>8. CASE OnWhois(m)
    <3>1. UNCHANGED asked
      BY <2>8 DEF OnWhois
    <3>2. PICK n, r : n = plan[m.of].nick /\ r = whois[n]
      OBVIOUS
    <3>3. got' = got \/ \E what \in {"lines", "none"} : got' = Give(r, what, plan[r].win)
      BY <3>2, <2>8 DEF OnWhois
    <3>4. CASE got' = got
      BY <3>1, <3>4, <2>1, <1>8
    <3>5. ASSUME NEW what \in {"lines", "none"}, got' = Give(r, what, plan[r].win) PROVE AskedInv'
      <4>1. NoNewLine
        BY <3>5, OtherEntry DEF Give
      <4> QED
        BY <3>1, <4>1, <2>1, <1>8
    <3> QED
      BY <3>3, <3>4, <3>5
  <2> QED
    BY <2>4, <2>5, <2>6, <2>7, <2>8
<1> QED
  BY <1>9, <1>10, <1>11, <1>12, <1>13 DEF Next, Goroutine

-----------------------------------------------------------------------------
(* The theorems of the specification.                                      *)

\* The types, for every plan and burst.
THEOREM CommandsTyped == ASSUME PlansAssumption PROVE Spec => []TypeOK
<1>1. Init => TypeOK
  BY TypeInit
<1>2. TypeOK /\ [Next]_cmdVars => TypeOK'
  BY TypeStep
<1> QED
  BY <1>1, <1>2, PTL DEF Spec

\* FloodRate for every plan and burst: what went out stays under a burst and
\* one line per second (pacer.take, pacer.refill, pace).
THEOREM FloodRateAlways == ASSUME PlansAssumption PROVE Spec => []FloodRate
<1>1. Init => TypeOK /\ FloodInv
  BY TypeInit, FloodInit
<1>2. TypeOK /\ FloodInv /\ [Next]_cmdVars => (TypeOK /\ FloodInv)'
  BY TypeStep, FloodStep
<1>3. TypeOK /\ FloodInv => FloodRate
  BY FloodConclusion
<1> QED
  BY <1>1, <1>2, <1>3, PTL DEF Spec

\* WhoisOnce and BanOnce for every plan: one outcome of a WHOIS and of a ban,
\* whatever races for it, and a ban on the host of the nick asked for.
THEOREM OutcomesOnceAlways == ASSUME PlansAssumption PROVE Spec => [](WhoisOnce /\ BanOnce)
<1>1. Init => TypeOK /\ OutcomeInv
  BY TypeInit, OutcomeInit
<1>2. TypeOK /\ OutcomeInv /\ [Next]_cmdVars => (TypeOK /\ OutcomeInv)'
  BY TypeStep, OutcomeStep
<1>3. TypeOK /\ OutcomeInv => WhoisOnce /\ BanOnce
  BY OutcomeConclusion
<1> QED
  BY <1>1, <1>2, <1>3, PTL DEF Spec

\* AnswersAsked for every plan: an answer lands in window 0, or in a window
\* that asked for its kind on this connection (ask, replyTo, resetConn).
THEOREM AnswersAskedAlways == ASSUME PlansAssumption PROVE Spec => []AnswersAsked
<1>1. Init => TypeOK /\ AskedInv
  BY TypeInit, AskedInit
<1>2. TypeOK /\ AskedInv /\ [Next]_cmdVars => (TypeOK /\ AskedInv)'
  BY TypeStep, AskedStep
<1>3. TypeOK /\ AskedInv => AnswersAsked
  BY AskedConclusion
<1> QED
  BY <1>1, <1>2, <1>3, PTL DEF Spec
=============================================================================
