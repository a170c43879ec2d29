---------------------------- MODULE IrcCommands ----------------------------
(***************************************************************************)
(* The commands of one IRC connection that wait for numerics of the server *)
(* (protocols/irc: cmd.go, pace.go, the WHOIS of ops.go and client.go).    *)
(*                                                                         *)
(* Each command is a goroutine: it takes a token of the output pacer,      *)
(* notes under c.mu where its answer belongs, then writes to the socket.   *)
(* The read goroutine of the library runs the callbacks of the numerics;   *)
(* the timer of a WHOIS is a third party.  A server answers the commands   *)
(* of a connection in order, so one FIFO of answers to come stands for     *)
(* both directions of the socket; it is lost with the connection.          *)
(* The commands of one behaviour are a plan, typed in its order.           *)
(***************************************************************************)
EXTENDS Naturals, Integers, Sequences, FiniteSets, SequencesExt

CONSTANTS
    Zero,        \* window 0
    Plans,       \* sets of commands: sequences of [kind, win, nick]
    Burst,       \* outBurst: lines sent at once
    MaxTicks,    \* seconds of the clock (a bound)
    MaxDrops,    \* connections lost (a bound)
    None

VARIABLES
    plan,        \* the commands of this behaviour
    at,          \* command -> how far its goroutine is
    due,         \* command -> fills its wait at the pacer still lasts
    tokens, ticks,   \* c.out.tokens, in whole lines; seconds gone by
    phase,       \* "down", "registering", "up", or "over" after the end of Run
    drops,       \* connections lost
    wire,        \* answers of the server not read yet
    asked,       \* c.asked: kind -> window, None with no key
    bans,        \* c.bans: the commands that wait for their USERHOST
    whois,       \* c.whois: nick -> command, 0 with none
    motd,        \* len(c.motd)
    askedOn,     \* history: command -> connections lost when it took the lock
    sent,        \* history: the paced commands whose line went out
    got          \* history: command (0: the connection) -> <<what, window, drops>>
cmdVars == <<plan, at, due, tokens, ticks, phase, drops, wire, asked, bans, whois, motd, askedOn, sent, got>>

Cmds == DOMAIN plan
Kind(i) == plan[i].kind
Nicks == {c.nick : c \in UNION {Range(p) : p \in Plans}}
\* Kinds whose window c.asked keeps: an answer of several numerics, of one.
Lists == {"who", "mode", "motd"}
Replies == {"topic"}
Listed == Lists \cup Replies
Kinds == Listed \cup {"ban", "whois", "plain"}
PlansAssumption ==
    /\ Burst \in Nat
    /\ \A p \in Plans : p \in Seq(Range(p)) /\ \A c \in Range(p) : c.kind \in Kinds

Init ==
    /\ plan \in Plans
    /\ at = [i \in Cmds |-> "new"] /\ due = [i \in Cmds |-> 0]
    /\ tokens = Burst /\ ticks = 0
    /\ phase = "down" /\ drops = 0 /\ wire = <<>>
    /\ asked = [k \in Listed |-> None] /\ bans = <<>>
    /\ whois = [n \in Nicks |-> 0] /\ motd = 0
    /\ askedOn = [i \in Cmds |-> 0] /\ sent = {}
    /\ got = [i \in Cmds \cup {0} |-> {}]

Give(i, what, w) == [got EXCEPT ![i] = @ \cup {<<what, w, drops>>}]
Item(kind, i) == [kind |-> kind, of |-> i]

\* A bug: a caller that finds no token does not owe one.
TakeNoDebt(i) == /\ tokens' = IF tokens > 0 THEN tokens - 1 ELSE tokens
                 /\ due' = [due EXCEPT ![i] = IF tokens > 0 THEN 0 ELSE 1]
\* pacer.take: a token, or one owed; the wait is what is owed.
Take(i) == /\ tokens' = tokens - 1
           /\ due' = [due EXCEPT ![i] = IF tokens - 1 >= 0 THEN 0 ELSE 1 - tokens]

\* whoisNick: the slot of the nick is taken over, the send follows.
RegisterWhois(i) ==
    /\ whois' = [whois EXCEPT ![plan[i].nick] = i]
    /\ at' = [at EXCEPT ![i] = "locked"] /\ UNCHANGED <<due, tokens>>

\* Client.Command, and Whois, which is not paced.
Type(i) ==
    /\ at[i] = "new" /\ phase # "over"
    /\ \A j \in Cmds : j < i => at[j] # "new"
    /\ IF Kind(i) = "whois" THEN RegisterWhois(i)
       ELSE Take(i) /\ at' = [at EXCEPT ![i] = "pacing"] /\ UNCHANGED whois
    /\ UNCHANGED <<plan, ticks, phase, drops, wire, asked, bans, motd, askedOn, sent, got>>

\* pacer.refill: a second more.
Tick ==
    /\ ticks < MaxTicks /\ ticks' = ticks + 1
    /\ tokens' = IF tokens < Burst THEN tokens + 1 ELSE tokens
    /\ due' = [i \in Cmds |-> IF due[i] > 0 THEN due[i] - 1 ELSE 0]
    /\ UNCHANGED <<plan, at, phase, drops, wire, asked, bans, whois, motd, askedOn, sent, got>>

\* command(): ask(kind), or the ban queued, under the lock; the rest is sent.
Lock(i) ==
    /\ at[i] = "pacing" /\ due[i] = 0
    /\ at' = [at EXCEPT ![i] = "locked"] /\ askedOn' = [askedOn EXCEPT ![i] = drops]
    /\ asked' = IF Kind(i) \in Listed THEN [asked EXCEPT ![Kind(i)] = plan[i].win] ELSE asked
    /\ bans' = IF Kind(i) = "ban" THEN Append(bans, i) ELSE bans
    /\ UNCHANGED <<plan, due, tokens, ticks, phase, drops, wire, whois, motd, sent, got>>

\* pace: the end of the network cuts the wait.
CutWait(i) ==
    /\ at[i] = "pacing" /\ phase = "over"
    /\ at' = [at EXCEPT ![i] = "over"] /\ got' = Give(i, "error", plan[i].win)
    /\ UNCHANGED <<plan, due, tokens, ticks, phase, drops, wire, asked, bans, whois, motd, askedOn, sent>>

\* What the server answers, a block of numerics per command; a KICK, a NOTICE
\* ("plain") gets none.
Answer(i) == CASE Kind(i) \in Lists    -> <<Item("line", i), Item("end", i)>>
               [] Kind(i) \in Replies  -> <<Item("end", i)>>
               [] Kind(i) = "ban"      -> <<Item("userhost", i)>>
               [] Kind(i) = "whois"    -> <<Item("whois", i), Item("whoisend", i)>>
               [] Kind(i) = "plain"    -> <<>>

\* send: on a connection that is up.
Send(i) ==
    /\ at[i] = "locked" /\ phase = "up"
    /\ wire' = wire \o Answer(i) /\ sent' = IF Kind(i) = "whois" THEN sent ELSE sent \cup {i}
    /\ at' = [at EXCEPT ![i] = IF Kind(i) = "whois" THEN "asleep" ELSE "over"]
    /\ UNCHANGED <<plan, due, tokens, ticks, phase, drops, asked, bans, whois, motd, askedOn, got>>

\* send: "not connected".  A WHOIS takes the lock again for its slot.
SendFails(i) ==
    /\ at[i] = "locked" /\ phase # "up"
    /\ at' = [at EXCEPT ![i] = IF Kind(i) = "whois" THEN "failed" ELSE "over"]
    /\ got' = IF Kind(i) = "whois" THEN got ELSE Give(i, "error", plan[i].win)
    /\ UNCHANGED <<plan, due, tokens, ticks, phase, drops, wire, asked, bans, whois, motd, askedOn, sent>>

WhoisFails(i) ==
    /\ at[i] = "failed" /\ at' = [at EXCEPT ![i] = "over"]
    /\ whois' = [whois EXCEPT ![plan[i].nick] = 0] /\ got' = Give(i, "error", plan[i].win)
    /\ UNCHANGED <<plan, due, tokens, ticks, phase, drops, wire, asked, bans, motd, askedOn, sent>>

\* A bug: any request in the slot counts as the late one.
TimeoutAny(i) ==
    /\ at[i] = "asleep" /\ at' = [at EXCEPT ![i] = "over"]
    /\ IF whois[plan[i].nick] # 0
       THEN whois' = [whois EXCEPT ![plan[i].nick] = 0] /\ got' = Give(i, "timeout", plan[i].win)
       ELSE UNCHANGED <<whois, got>>
    /\ UNCHANGED <<plan, due, tokens, ticks, phase, drops, wire, asked, bans, motd, askedOn, sent>>
\* A bug: a silent server leaves the request hanging.
TimeoutNever(i) == FALSE /\ UNCHANGED cmdVars
\* The ten seconds of a WHOIS: a newer request keeps its slot.
Timeout(i) ==
    /\ at[i] = "asleep" /\ at' = [at EXCEPT ![i] = "over"]
    /\ IF whois[plan[i].nick] = i
       THEN whois' = [whois EXCEPT ![plan[i].nick] = 0] /\ got' = Give(i, "timeout", plan[i].win)
       ELSE UNCHANGED <<whois, got>>
    /\ UNCHANGED <<plan, due, tokens, ticks, phase, drops, wire, asked, bans, motd, askedOn, sent>>

\* The library connects: the server greets with its MOTD.
Connect ==
    /\ phase = "down" /\ phase' = "registering"
    /\ wire' = <<Item("line", 0), Item("welcome", 0)>>
    /\ UNCHANGED <<plan, at, due, tokens, ticks, drops, asked, bans, whois, motd, askedOn, sent, got>>

\* A bug: the windows that asked are kept over the connection.
DropKeeps(next) ==
    /\ phase \in {"registering", "up"} \/ (phase = "down" /\ next = "over")
    /\ phase' = next /\ drops' = drops + 1 /\ wire' = <<>>
    /\ whois' = [n \in Nicks |-> 0]
    /\ got' = [i \in DOMAIN got |-> IF i # 0 /\ Kind(i) = "whois" /\ whois[plan[i].nick] = i
                                    THEN got[i] \cup {<<"down", plan[i].win, drops>>} ELSE got[i]]
    /\ UNCHANGED <<plan, at, due, tokens, ticks, asked, bans, motd, askedOn, sent>>
\* resetConn, or the end of Run: what the connection owned is forgotten, the
\* WHOIS that wait get their error.
DropTo(next) ==
    /\ phase \in {"registering", "up"} \/ (phase = "down" /\ next = "over")
    /\ phase' = next /\ drops' = drops + 1 /\ wire' = <<>> /\ motd' = 0
    /\ asked' = [k \in Listed |-> None] /\ bans' = <<>>
    /\ whois' = [n \in Nicks |-> 0]
    /\ got' = [i \in DOMAIN got |-> IF i # 0 /\ Kind(i) = "whois" /\ whois[plan[i].nick] = i
                                    THEN got[i] \cup {<<"down", plan[i].win, drops>>} ELSE got[i]]
    /\ UNCHANGED <<plan, at, due, tokens, ticks, askedOn, sent>>
Drop == drops < MaxDrops /\ DropTo("down")
Stop == DropTo("over")

\* replyTo and peek: the window that asked, window 0 with none.
WindowOf(kind) == IF asked[kind] = None THEN Zero ELSE asked[kind]
AskedKind(m) == IF m.of = 0 THEN "motd" ELSE Kind(m.of)
Keep(m) == got' = Give(m.of, m.kind, WindowOf(AskedKind(m))) /\ UNCHANGED asked
Forget(m) == /\ got' = Give(m.of, m.kind, WindowOf(AskedKind(m)))
             /\ asked' = [asked EXCEPT ![AskedKind(m)] = None]

\* onWho, onWhowas and their ends; onModeReply; the answers of one line.
OnWho(m) == AskedKind(m) = "who" /\ (IF m.kind = "line" THEN Keep(m) ELSE Forget(m)) /\ UNCHANGED motd
OnModeReply(m) == AskedKind(m) = "mode" /\ (IF m.kind = "line" THEN Keep(m) ELSE Forget(m)) /\ UNCHANGED motd
Reply(m) == AskedKind(m) \in Replies /\ Forget(m) /\ UNCHANGED motd

\* onMotdLine gathers, onMotdEnd posts the whole.
OnMotd(m) == /\ AskedKind(m) = "motd"
             /\ IF m.kind = "line" THEN motd' = motd + 1 /\ UNCHANGED <<got, asked>>
                ELSE motd' = 0 /\ Forget(m)
OnLine(m) == /\ m.kind \in {"line", "end"} /\ wire' = Tail(wire)
             /\ OnWho(m) \/ OnModeReply(m) \/ Reply(m) \/ OnMotd(m)
             /\ UNCHANGED <<phase, bans, whois>>

\* The 376 of the registration runs two callbacks: connected(), then onMotdEnd.
OnWelcome(m) ==
    /\ m.kind = "welcome" /\ phase' = "up"
    /\ wire' = <<Item("end", 0)>> \o Tail(wire)
    /\ UNCHANGED <<asked, bans, whois, motd, got>>

\* A bug: the request stays in the queue, to be carried out again.
OnUserhostKeeps(m) ==
    /\ m.kind = "userhost" /\ wire' = Tail(wire)
    /\ \E k \in DOMAIN bans : got' = Give(bans[k], "banned", plan[m.of].nick)
    /\ UNCHANGED <<phase, asked, bans, whois, motd>>
\* onUserhost: an empty answer gives up the head of the queue; one that names
\* the nick bans the first request for it, or nothing with no host.
OnUserhost(m) ==
    /\ m.kind = "userhost" /\ wire' = Tail(wire)
    /\ \/ IF bans = <<>> THEN UNCHANGED <<bans, got>>
          ELSE /\ bans' = Tail(bans)
               /\ got' = [got EXCEPT ![Head(bans)] = @ \cup {<<"given up", m.of, drops>>}]
       \/ LET same == {k \in DOMAIN bans : plan[bans[k]].nick = plan[m.of].nick}
              first == CHOOSE k \in same : \A l \in same : k <= l
          IN IF same = {} THEN UNCHANGED <<bans, got>>
             ELSE /\ bans' = RemoveAt(bans, first)
                  /\ \E what \in {"banned", "no host"} : got' = Give(bans[first], what, plan[m.of].nick)
    /\ UNCHANGED <<phase, asked, whois, motd>>

\* onWhoisLine gathers; onEndOfWhois and onNoSuchNick answer the request in the
\* slot of the nick, whichever line it was sent for.
OnWhois(m) ==
    LET n == plan[m.of].nick
        r == whois[n]
    IN /\ m.kind \in {"whois", "whoisend"} /\ wire' = Tail(wire)
       /\ IF m.kind = "whois" \/ r = 0 THEN UNCHANGED <<whois, got>>
          ELSE /\ whois' = [whois EXCEPT ![n] = 0]
               /\ \E what \in {"lines", "none"} : got' = Give(r, what, plan[r].win)
       /\ UNCHANGED <<phase, asked, bans, motd>>

Read == /\ wire # <<>> /\ phase \in {"registering", "up"}
        /\ LET m == Head(wire)
           IN OnLine(m) \/ OnWelcome(m) \/ OnUserhost(m) \/ OnWhois(m)
        /\ UNCHANGED <<plan, at, due, tokens, ticks, drops, askedOn, sent>>

Goroutine(i) == Lock(i) \/ CutWait(i) \/ Send(i) \/ SendFails(i) \/ WhoisFails(i) \/ Timeout(i)
Next == \/ Connect \/ Drop \/ Stop \/ Read \/ Tick
        \/ \E i \in Cmds : Type(i) \/ Goroutine(i)

Spec == Init /\ [][Next]_cmdVars

(***************************************************************************)
(* Properties                                                              *)
(***************************************************************************)
\* The answer of a command lands in window 0, or in a window that gave a
\* command of its kind since the last drop: "its answers must not be taken
\* for the ones of the old requests" (client.go:478).
AnswersAsked ==
    \A i \in Cmds \cup {0} : \A g \in {h \in got[i] : h[1] \in {"line", "end"}} :
        g[2] = Zero \/ \E j \in Cmds : /\ plan[j].win = g[2] /\ askedOn[j] = g[3]
                                       /\ Kind(j) = (IF i = 0 THEN "motd" ELSE Kind(i))

\* A WHOIS is answered once: by the lines, by "no such nick", by the end of
\* the connection or by its own timer, never by two of them.
WhoisOnce == \A i \in Cmds : Kind(i) = "whois" => Cardinality({g \in got[i] : g[1] # "error"}) <= 1

\* A ban goes out once, on the host of the nick that was asked for; a
\* request that was given up is never carried out.
BanOnce == \A i \in Cmds : Kind(i) = "ban" =>
    /\ Cardinality({g \in got[i] : g[1] # "error"}) <= 1
    /\ \A g \in got[i] : g[1] = "banned" => g[2] = plan[i].nick

\* "This 302 answers the request at its head" (cmd.go:238): an empty answer
\* gives up the ban of the command it answers.
GivenUpIsAsked == \A i \in Cmds : \A g \in got[i] : g[1] = "given up" => g[2] = i

\* The lines on the wire stay under the rate of the servers: a burst, then
\* one per second; a caller that waits owes its token, it does not skip it.
FloodRate == Cardinality(sent) <= Burst + ticks

\* Every WHOIS ends: with an answer, or by giving its slot to a newer request
\* for the nick (or to an older one whose send failed meanwhile, which empties
\* the slot it no longer owns).
Waits(i) == i \in Cmds /\ at[i] # "new" /\ Kind(i) = "whois"
Settled(i) == \/ got[i] # {}
              \/ \E j \in Cmds \ {i} : /\ Waits(j) /\ plan[j].nick = plan[i].nick
                                      /\ (j > i \/ got[j] # {})
WhoisOver == \A i \in Cmds : Waits(i) => Settled(i)
=============================================================================
