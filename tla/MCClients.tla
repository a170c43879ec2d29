------------------------------ MODULE MCClients ------------------------------
(* The clients of the networks for TLC: the rooms and the commands of IRC,    *)
(* the two ends of a DCC transfer, Telegram, Discord. They share no state:    *)
(* a behaviour is one of them (part), the others stay where they start.       *)
EXTENDS IrcRooms, RecordClients, Integers

CONSTANTS a, p1, w1, w2, Zero,                   \* model values
          Plans, Burst,                          \* IrcCommands, which shares MaxTicks with TelegramClient
          Sizes, Width                           \* DccTransfer

VARIABLES part,
    plan, cmdAt, due, tokens, ticks, phase, cmdDrops, wire, asked, bans, whois, motd, askedOn, sent, got,
    size, reverse, tx, rx, offer, line, written, queue, dccGot, acks, acked, socket, labels, source, target, posted

(* Two bans, two messages of the day and a mute line, lists, modes, WHOIS.    *)
Cmd2(kind, win, nick) == [kind |-> kind, win |-> win, nick |-> nick]
MCPlans ==
    {<<Cmd2("ban", w1, a), Cmd2("ban", w2, p1)>>,
     <<Cmd2("motd", w2, a), Cmd2("plain", w1, a), Cmd2("motd", w1, a)>>,
     <<Cmd2("who", w1, a), Cmd2("topic", w2, a)>>,
     <<Cmd2("mode", w1, a), Cmd2("mode", w2, a)>>,
     <<Cmd2("whois", w1, a), Cmd2("whois", w2, a)>>}

C == INSTANCE IrcCommands WITH at <- cmdAt, drops <- cmdDrops
X == INSTANCE DccTransfer WITH got <- dccGot
ASSUME MCClientsAssumption == C!PlansAssumption /\ X!SizesAssumption

cmdVars == <<plan, cmdAt, due, tokens, ticks, phase, cmdDrops, wire, asked, bans, whois, motd, askedOn, sent, got>>
dccVars == <<size, reverse, tx, rx, offer, line, written, queue, dccGot, acks, acked, socket, labels, source,
             target, posted>>
clientVars == <<part, vars, cmdVars, dccVars, tgcVars, dscVars>>

ClientsInit ==
    /\ part \in {"rooms", "cmds", "dcc", "tg", "dsc"}
    /\ Init /\ C!Init /\ X!Init /\ T!TgcInit /\ D!DscInit
    /\ part # "cmds" => plan = CHOOSE p \in Plans : TRUE
    /\ part # "dcc" => size = (CHOOSE n \in Sizes : TRUE) /\ ~reverse
    /\ part # "tg" => tg.scene = "calls"
    /\ part # "dsc" => ds.scene = "live" /\ ds.top = 1

RoomsGo == part = "rooms" /\ Next /\ UNCHANGED <<part, cmdVars, dccVars, tgcVars, dscVars>>
CommandsGo == part = "cmds" /\ C!Next /\ UNCHANGED <<part, vars, dccVars, tgcVars, dscVars>>
TransferGoes == part = "dcc" /\ X!Next /\ UNCHANGED <<part, vars, cmdVars, tgcVars, dscVars>>
TelegramGoes == part = "tg" /\ T!TgcNext /\ UNCHANGED <<part, vars, cmdVars, dccVars, dscVars>>
DiscordGoes == part = "dsc" /\ D!DscNext /\ UNCHANGED <<part, vars, cmdVars, dccVars, tgcVars>>
ClientsNext == RoomsGo \/ CommandsGo \/ TransferGoes \/ TelegramGoes \/ DiscordGoes

(* Goroutines run, timers and deadlines fall, servers answer and connections  *)
(* come back; the user and the servers owe nothing of their own.              *)
ClientsFair ==
    /\ \A q \in Resolves : WF_vars(part = "rooms" /\ ResolveSends(q))
    /\ \A i \in Cycles : WF_vars(part = "rooms" /\ (CyclePart(i) \/ CycleJoin(i)))
    /\ \A i \in Asks : WF_vars(part = "rooms" /\ ParticipantsSends(i))
    /\ WF_vars(part = "rooms" /\ Callbacks) /\ WF_vars(part = "rooms" /\ ServerTakes)
    /\ WF_cmdVars(part = "cmds" /\ C!Tick)
    /\ \A i \in 1..3 : WF_cmdVars(part = "cmds" /\ i \in C!Cmds /\ C!Goroutine(i))
    /\ WF_dccVars(part = "dcc" /\ X!SendOffer)
    /\ WF_dccVars(part = "dcc" /\ X!TxGivesUp) /\ WF_dccVars(part = "dcc" /\ X!RxGivesUp)
    /\ WF_tgcVars(part = "tg" /\ T!Calls) /\ WF_tgcVars(part = "tg" /\ T!Handle)
    /\ WF_tgcVars(part = "tg" /\ T!Tasks) /\ WF_tgcVars(part = "tg" /\ T!Transfers)
    /\ WF_tgcVars(part = "tg" /\ T!Login)
    /\ WF_dscVars(part = "dsc" /\ D!Transfers) /\ WF_dscVars(part = "dsc" /\ D!CallsGo)

ClientsSpec == ClientsInit /\ [][ClientsNext]_clientVars /\ ClientsFair
OutageSpec == ClientsInit /\ part = "dsc" /\ [][DiscordGoes]_clientVars

(* Every call to Resolve or Participants of IRC is answered, with the JOIN,   *)
(* the names, an error or the end of the connection (irc/client.go, ops.go).  *)
RoomsAnswered == ResolveAnswered /\ ParticipantsAnswered

(* The answers of the IRC commands land where they were asked, a WHOIS and a  *)
(* ban end once, on what they were about, and the lines keep to the pace of   *)
(* the servers (irc/cmd.go, ops.go, pace.go).                                 *)
CommandsRight == part = "cmds" => C!AnswersAsked /\ C!WhoisOnce /\ C!BanOnce /\ C!FloodRate

(* A file is whole where a transfer says so, nothing temporary outlives it,   *)
(* and a pasted image goes only once sent: DCC, Telegram, Discord.            *)
FilesWhole ==
    /\ part = "dcc" => X!SentWhole /\ X!NamedWhole
    /\ part = "tg" => T!FilesRight
    /\ part = "dsc" => D!FilesRight

(* Past a login nothing of its QR is left, and a token the server took back   *)
(* is forgotten, never the one of a quit (tgc/auth.go, dsc/client.go).        *)
LoginsRight ==
    /\ part = "tg" => T!QRCloses
    /\ part = "dsc" => D!LoginRight

(* Once nothing is on its way the screen shows the messages, quotes and       *)
(* reactions of the server, however updates and reads crossed.                *)
UpdatesRight ==
    /\ part = "tg" => T!UpdatesShown
    /\ part = "dsc" => D!ReactsFollow

(* The Discord chats follow the guilds of the account, and no channel of a    *)
(* guild is ever deleted (dsc/handlers.go, ops.go).                           *)
GuildsKept == part = "dsc" => D!GuildsKept

(* A Discord call is answered once, and "no result" is said of whole answers  *)
(* of every place, but for those a spent budget leaves out (dsc/client.go,    *)
(* search.go).                                                                *)
AnswersHonest == part = "dsc" => D!AnsweredOnce /\ D!SearchHonest

(* The breaker of Telegram holds for the longest FLOOD_WAIT, says so once,    *)
(* and a known peer is not forgotten for a min one (tgc/peers.go).            *)
BreakerHolds == [][part = "tg" => T!BreakerHolds]_tgcVars

(* A page read from Discord is held whole by the store (dsc/ops.go:518).      *)
PageHeld == part = "dsc" => D!PageHeld

(* Whatever was asked of a client comes to its end: WHOIS, DCC transfers,     *)
(* calls, downloads and uploads.                                              *)
CallsEnd == []<>(C!WhoisOver /\ X!TransferOver /\ T!AllAnswered /\ D!FilesOver /\ D!CallsOver)

(* "Unavailable is an outage, not a departure" (dsc/handlers.go:145): a guild *)
(* that Discord says unavailable keeps its chats.                             *)
OutageKeeps == D!OutageKeeps
=============================================================================
