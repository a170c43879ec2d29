---------------------------- MODULE ClientsProofs ----------------------------
(***************************************************************************)
(* The clients of the networks, for any plan of commands, any sizes of     *)
(* files, slots, pages and bounds: the commands of IRC by the theorems of  *)
(* IrcCommandsProofs, read in the variables of MCClients; a DCC transfer   *)
(* here; Telegram and Discord by the invariants of RecordClientsProofs.    *)
(***************************************************************************)
EXTENDS MCClients, RecordClientsProofs

-----------------------------------------------------------------------------
(* The commands of IRC: IrcCommandsProofs, read in cmdVars.                *)
CP == INSTANCE IrcCommandsProofs WITH at <- cmdAt, drops <- cmdDrops

\* The names of the two instances stand for the same things.
LEMMA CmdNames ==
    /\ CP!Cmds = C!Cmds /\ CP!Listed = C!Listed /\ CP!Lists = C!Lists /\ CP!Replies = C!Replies
    /\ CP!Nicks = C!Nicks
    /\ \A i : CP!Kind(i) = C!Kind(i)
    /\ \A i, what, w : CP!Give(i, what, w) = C!Give(i, what, w)
    /\ \A k, i : CP!Item(k, i) = C!Item(k, i)
    /\ \A m : CP!AskedKind(m) = C!AskedKind(m)
    /\ \A k : CP!WindowOf(k) = C!WindowOf(k)
  BY DEF CP!Cmds, C!Cmds, CP!Nicks, C!Nicks, CP!Listed, C!Listed, CP!Lists, C!Lists, CP!Replies, C!Replies,
        CP!Range, C!Range, CP!Kind, C!Kind, CP!Give, C!Give, CP!Item, C!Item, CP!AskedKind, C!AskedKind,
        CP!WindowOf, C!WindowOf

LEMMA CmdGoroutineSame == ASSUME NEW i PROVE CP!Goroutine(i) <=> C!Goroutine(i)
<1>1. CP!Lock(i) <=> C!Lock(i)
  BY CmdNames DEF CP!Lock, C!Lock
<1>2. CP!CutWait(i) <=> C!CutWait(i)
  BY CmdNames DEF CP!CutWait, C!CutWait
<1>3. CP!Send(i) <=> C!Send(i)
  <2>1. CP!Answer(i) = C!Answer(i)
    BY CmdNames DEF CP!Answer, C!Answer
  <2> QED
    BY <2>1, CmdNames DEF CP!Send, C!Send
<1>4. CP!SendFails(i) <=> C!SendFails(i)
  BY CmdNames DEF CP!SendFails, C!SendFails
<1>5. CP!WhoisFails(i) <=> C!WhoisFails(i)
  BY CmdNames DEF CP!WhoisFails, C!WhoisFails
<1>6. CP!Timeout(i) <=> C!Timeout(i)
  BY CmdNames DEF CP!Timeout, C!Timeout
<1> QED
  BY <1>1, <1>2, <1>3, <1>4, <1>5, <1>6 DEF CP!Goroutine, C!Goroutine

LEMMA CmdConnectionSame ==
    /\ CP!Tick <=> C!Tick
    /\ CP!Connect <=> C!Connect
    /\ CP!Drop <=> C!Drop
    /\ CP!Stop <=> C!Stop
<1>1. CP!Tick <=> C!Tick
  BY CmdNames DEF CP!Tick, C!Tick
<1>2. CP!Connect <=> C!Connect
  BY CmdNames DEF CP!Connect, C!Connect
<1>3. \A next : CP!DropTo(next) <=> C!DropTo(next)
  BY CmdNames DEF CP!DropTo, C!DropTo
<1> QED
  BY <1>1, <1>2, <1>3 DEF CP!Drop, C!Drop, CP!Stop, C!Stop

LEMMA CmdReadSame == CP!Read <=> C!Read
<1> SUFFICES ASSUME NEW m
             PROVE  CP!OnLine(m) \/ CP!OnWelcome(m) \/ CP!OnUserhost(m) \/ CP!OnWhois(m)
                      <=> C!OnLine(m) \/ C!OnWelcome(m) \/ C!OnUserhost(m) \/ C!OnWhois(m)
  BY DEF CP!Read, C!Read
<1>1. CP!OnLine(m) <=> C!OnLine(m)
  <2>1. (CP!Keep(m) <=> C!Keep(m)) /\ (CP!Forget(m) <=> C!Forget(m))
    BY CmdNames DEF CP!Keep, C!Keep, CP!Forget, C!Forget
  <2> QED
    BY <2>1, CmdNames DEF CP!OnLine, C!OnLine, CP!OnWho, C!OnWho, CP!OnModeReply, C!OnModeReply, CP!Reply,
          C!Reply, CP!OnMotd, C!OnMotd
<1>2. CP!OnWelcome(m) <=> C!OnWelcome(m)
  BY CmdNames DEF CP!OnWelcome, C!OnWelcome
<1>3. CP!OnUserhost(m) <=> C!OnUserhost(m)
  BY CmdNames DEF CP!OnUserhost, C!OnUserhost, CP!RemoveAt, C!RemoveAt
<1>4. CP!OnWhois(m) <=> C!OnWhois(m)
  BY CmdNames DEF CP!OnWhois, C!OnWhois
<1> QED
  BY <1>1, <1>2, <1>3, <1>4

LEMMA CommandsSame == (CP!Init <=> C!Init) /\ (CP!Next <=> C!Next)
<1>1. CP!Init <=> C!Init
  BY CmdNames DEF CP!Init, C!Init
<1>2. ASSUME NEW i PROVE CP!Type(i) <=> C!Type(i)
  BY CmdNames DEF CP!Type, C!Type, CP!Take, C!Take, CP!RegisterWhois, C!RegisterWhois
<1> QED
  BY <1>1, <1>2, CmdNames, CmdGoroutineSame, CmdConnectionSame, CmdReadSame DEF CP!Next, C!Next

\* A step of the clients is one of the parts, or leaves it alone.
LEMMA PartsStep == ASSUME [ClientsNext]_clientVars PROVE
    /\ [C!Next]_cmdVars
    /\ [X!Next]_dccVars
    /\ [T!TgcNext]_tgcVars
    /\ [D!DscNext]_dscVars
    /\ UNCHANGED part
  BY DEF ClientsNext, clientVars, RoomsGo, CommandsGo, TransferGoes, TelegramGoes, DiscordGoes

\* CommandsRight for any plan, burst and number of drops: the answers land
\* where they were asked, a WHOIS and a ban end once, the lines keep to the
\* pace (irc/cmd.go, ops.go, pace.go).
THEOREM CommandsRightAlways == ClientsSpec => []CommandsRight
<1>1. CP!PlansAssumption
  BY CmdNames, MCClientsAssumption DEF CP!PlansAssumption, C!PlansAssumption, CP!Kinds, C!Kinds, CP!Range,
        C!Range
<1>2. ClientsInit => CP!Init
  BY CommandsSame DEF ClientsInit
<1>3. [ClientsNext]_clientVars => [CP!Next]_CP!cmdVars
  <2>1. UNCHANGED cmdVars => UNCHANGED CP!cmdVars
    BY DEF cmdVars, CP!cmdVars
  <2> QED
    BY <2>1, PartsStep, CommandsSame
<1>4. CP!AnswersAsked /\ CP!WhoisOnce /\ CP!BanOnce /\ CP!FloodRate => CommandsRight
  <2>1. \A S : CP!Cardinality(S) = C!Cardinality(S)
    BY DEF CP!Cardinality, C!Cardinality
  <2>2. CP!AnswersAsked => C!AnswersAsked
    BY CmdNames DEF CP!AnswersAsked, C!AnswersAsked
  <2>3. CP!WhoisOnce => C!WhoisOnce
    BY <2>1, CmdNames DEF CP!WhoisOnce, C!WhoisOnce
  <2>4. CP!BanOnce => C!BanOnce
    BY <2>1, CmdNames DEF CP!BanOnce, C!BanOnce
  <2>5. CP!FloodRate => C!FloodRate
    BY <2>1 DEF CP!FloodRate, C!FloodRate
  <2> QED
    BY <2>2, <2>3, <2>4, <2>5 DEF CommandsRight
<1>5. CP!Spec => []CP!AnswersAsked
  BY <1>1, CP!AnswersAskedAlways
<1>6. CP!Spec => [](CP!WhoisOnce /\ CP!BanOnce)
  BY <1>1, CP!OutcomesOnceAlways
<1>7. CP!Spec => []CP!FloodRate
  BY <1>1, CP!FloodRateAlways
<1>8. ClientsSpec => CP!Spec
  BY <1>2, <1>3, PTL DEF ClientsSpec, CP!Spec
<1> QED
  BY <1>4, <1>5, <1>6, <1>7, <1>8, PTL

-----------------------------------------------------------------------------
(* A DCC transfer, for files of any size and a counter of any width.       *)
(* The counters on their way back are those of blocks that were received.  *)
Counted(v, most) == \E n \in Nat : n <= most /\ v = n % Width

Received ==
    /\ size \in Nat /\ dccGot \in Nat /\ dccGot <= size
    /\ acks \in Seq(Nat) /\ \A k \in 1 .. Len(acks) : Counted(acks[k], dccGot)
    /\ acked \in BOOLEAN /\ (acked => (size < Width => dccGot = size))
    /\ tx = "ok" => acked

Named ==
    /\ target = "whole" => dccGot = size /\ rx = "ok"
    /\ target = "part" => rx = "streaming"

Finished ==
    /\ posted \subseteq {"tx", "rx"} /\ posted \cap labels = {}
    /\ tx = "idle" => "tx" \notin labels
    /\ "tx" \in posted => tx \in X!Over
    /\ "rx" \in posted => rx \in X!Over

DccInv == Received /\ Named /\ Finished

LEMMA DccConclusion == DccInv => X!SentWhole /\ X!NamedWhole
  BY DEF DccInv, Received, Named, Finished, X!SentWhole, X!SentAnySize, X!NamedWhole, X!Over

LEMMA DccInit == X!SizesAssumption /\ X!Init => DccInv
<1> SUFFICES ASSUME X!SizesAssumption, X!Init PROVE DccInv
  OBVIOUS
<1>1. acks \in Seq(Nat) /\ Len(acks) = 0
  BY EmptySeq DEF X!Init
<1>2. Received
  <2>1. size \in Nat /\ dccGot = 0
    BY DEF X!Init, X!SizesAssumption
  <2>2. \A k \in 1 .. Len(acks) : Counted(acks[k], dccGot)
    BY <1>1
  <2>3. dccGot \in Nat /\ dccGot <= size
    BY <2>1
  <2>4. acked \in BOOLEAN /\ ~acked /\ tx # "ok"
    BY DEF X!Init
  <2> QED
    BY <1>1, <2>1, <2>2, <2>3, <2>4, Zenon DEF Received
<1>3. Named /\ Finished
  BY DEF X!Init, Named, Finished, X!SizesAssumption
<1> QED
  BY <1>2, <1>3 DEF DccInv

(* Blocks: only the receiver adds to them, and only up to the size; a      *)
(* counter read that equals the size is the size, under the width.         *)
LEMMA ReceivedStep == X!SizesAssumption /\ Received /\ [X!Next]_dccVars => Received'
<1> SUFFICES ASSUME X!SizesAssumption, Received, [X!Next]_dccVars PROVE Received'
  OBVIOUS
<1>0. Width \in Nat \ {0} /\ size \in Nat /\ dccGot \in Nat /\ dccGot <= size /\ acks \in Seq(Nat) /\ Len(acks) \in Nat
  BY LenProperties DEF X!SizesAssumption, Received
<1>1. ASSUME UNCHANGED <<size, dccGot, acks, acked>>, tx' = "ok" => acked PROVE Received'
  BY <1>1 DEF Received
<1>2. CASE UNCHANGED dccVars \/ X!OnDCC \/ X!Download
  <2>1. UNCHANGED <<size, dccGot, acks, acked, tx>>
    BY <1>2 DEF dccVars, X!OnDCC, X!Download, X!data
  <2> QED
    BY <2>1, <1>1 DEF Received
<1>3. CASE X!SendFile \/ X!SendOffer \/ X!TxGivesUp \/ X!AckError \/ X!Write
  <2>1. UNCHANGED <<size, dccGot, acks, acked>> /\ (tx' # "ok" \/ UNCHANGED tx)
    BY <1>3 DEF X!SendFile, X!SendOffer, X!TxGivesUp, X!AckError, X!Write, X!TxFails, X!data
  <2> QED
    BY <2>1, <1>1 DEF Received
<1>4. CASE X!DccConnect \/ X!PeerConnects \/ X!RxGivesUp \/ X!Close \/ X!Short
  <2>1. UNCHANGED <<size, dccGot, acks, acked>> /\ (tx' = "streaming" \/ tx' = tx)
    BY <1>4 DEF X!DccConnect, X!PeerConnects, X!RxGivesUp, X!Close, X!Short, X!RxEnds, X!Meet, X!data
  <2> QED
    BY <2>1, <1>1 DEF Received
<1>5. CASE X!Sent
  <2>1. UNCHANGED <<size, dccGot, acks, acked>> /\ acked
    BY <1>5 DEF X!Sent, X!Done
  <2> QED
    BY <2>1, <1>1
<1>6. CASE X!Read
  <2>1. /\ dccGot < size /\ dccGot' = dccGot + 1 /\ UNCHANGED <<size, tx, acked>>
        /\ acks' = acks \/ acks' = Append(acks, (dccGot + 1) % Width)
    BY <1>6 DEF X!Read
  <2>2. \A v : Counted(v, dccGot) => Counted(v, dccGot + 1)
    <3>1. \A n \in Nat : n <= dccGot => n <= dccGot + 1
      BY <1>0
    <3> QED
      BY <3>1, Zenon DEF Counted
  <2>3. PICK v : v = (dccGot + 1) % Width
    OBVIOUS
  <2>9. v \in Nat /\ Counted(v, dccGot + 1)
    <3>1. dccGot + 1 \in Nat /\ dccGot + 1 <= dccGot + 1
      BY <1>0
    <3>2. v \in Nat
      BY <3>1, <2>3, <1>0
    <3>3. Counted(v, dccGot + 1)
      BY <3>1, <2>3, Zenon DEF Counted
    <3> QED
      BY <3>2, <3>3
  <2>4. acks' \in Seq(Nat) /\ \A k \in 1 .. Len(acks') : Counted(acks'[k], dccGot + 1)
    <3>1. CASE acks' = acks
      BY <3>1, <2>2, <1>0 DEF Received
    <3>2. CASE acks' = Append(acks, (dccGot + 1) % Width)
      <4>1. /\ acks' \in Seq(Nat) /\ Len(acks') = Len(acks) + 1
            /\ \A k \in 1 .. Len(acks) + 1 : acks'[k] = IF k <= Len(acks) THEN acks[k] ELSE v
        BY <3>2, <2>3, <2>9, <1>0, AppendProperties
      <4>2. ASSUME NEW k \in 1 .. Len(acks) + 1 PROVE k \in 1 .. Len(acks) \/ acks'[k] = v
        <5>1. k \in 1 .. Len(acks) \/ ~(k <= Len(acks))
          BY <1>0
        <5> QED
          BY <4>1, <5>1
      <4>3. \A k \in 1 .. Len(acks) : acks'[k] = acks[k]
        BY <4>1, <1>0
      <4> QED
        BY <4>1, <4>2, <4>3, <2>2, <2>9 DEF Received
    <3> QED
      BY <2>1, <3>1, <3>2
  <2>5. acked => size >= Width
    BY <2>1, <1>0 DEF Received
  <2> QED
    BY <2>1, <2>4, <2>5, <1>0 DEF Received
<1>7. CASE X!ReadAck
  <2>1. /\ acks # <<>> /\ acks' = Tail(acks) /\ UNCHANGED <<size, dccGot, tx>>
        /\ acked' = (acked \/ Head(acks) = size % Width) /\ tx \in {"streaming", "acking"}
    BY <1>7 DEF X!ReadAck
  <2>2. Len(acks) # 0
    BY <2>1, <1>0, EmptySeq
  <2>3. Head(acks) = acks[1] /\ 1 \in 1 .. Len(acks)
    BY <2>2, <1>0
  <2>4. PICK n \in Nat : n <= dccGot /\ Head(acks) = n % Width
    BY <2>3 DEF Received, Counted
  <2>5. ASSUME size < Width, Head(acks) = size % Width PROVE dccGot = size
    <3>1. n % Width = n /\ size % Width = size
      BY <2>4, <2>5, <1>0
    <3> QED
      BY <3>1, <2>4, <2>5, <1>0
  <2>6. /\ Tail(acks) \in Seq(Nat) /\ Len(Tail(acks)) = Len(acks) - 1
        /\ \A k \in 1 .. Len(Tail(acks)) : Tail(acks)[k] = acks[k + 1]
    BY <2>1, <1>0, HeadTailProperties
  <2>7. \A k \in 1 .. Len(acks') : Counted(acks'[k], dccGot)
    BY <2>1, <2>6, <1>0 DEF Received
  <2> QED
    BY <2>1, <2>5, <2>6, <2>7, <1>0 DEF Received
<1> QED
  BY <1>2, <1>3, <1>4, <1>5, <1>6, <1>7 DEF X!Next

(* Names and labels: an end leaves with its label and its part file, and   *)
(* never comes back.                                                       *)
LEMMA EndsStep == X!SizesAssumption /\ Received /\ Named /\ Finished /\ [X!Next]_dccVars => (Named /\ Finished)'
<1> SUFFICES ASSUME X!SizesAssumption, Received, Named, Finished, [X!Next]_dccVars PROVE Named' /\ Finished'
  OBVIOUS
<1>1. CASE UNCHANGED dccVars \/ X!OnDCC \/ X!ReadAck
  <2>1. UNCHANGED <<size, dccGot, tx, rx, target, labels, posted>>
    BY <1>1 DEF dccVars, X!OnDCC, X!ReadAck, X!data, X!files
  <2> QED
    BY <2>1 DEF Named, Finished, X!Over
<1>2. CASE X!SendFile \/ X!SendOffer \/ X!TxGivesUp \/ X!Write \/ X!Sent \/ X!AckError
  <2>1. UNCHANGED <<size, dccGot, rx, target>> /\ tx \notin X!Over
    BY <1>2 DEF X!SendFile, X!SendOffer, X!TxGivesUp, X!Write, X!Sent, X!Done, X!AckError, X!TxFails, X!data, X!files, X!Over
  <2>2. \/ UNCHANGED <<labels, posted>> /\ tx' # "idle"
        \/ tx = "idle" /\ tx' # "idle" /\ labels' = labels \cup {"tx"} /\ UNCHANGED posted
        \/ tx' \in X!Over /\ labels' \subseteq labels /\ "tx" \notin labels' /\ posted' = posted \cup {"tx"}
    BY <1>2 DEF X!SendFile, X!SendOffer, X!TxGivesUp, X!Write, X!Sent, X!Done, X!AckError, X!TxFails, Finished, X!Over
  <2>3. Named'
    BY <2>1 DEF Named
  <2>4. Finished'
    BY <2>1, <2>2 DEF Finished, X!Over
  <2> QED
    BY <2>3, <2>4
<1>3. CASE X!Download
  BY <1>3 DEF X!Download, X!data, X!files, Named, Finished, X!Over
<1>4. CASE X!Read
  BY <1>4 DEF X!Read, X!files, Named, Finished, X!Over
<1>5. ASSUME NEW how, NEW name, X!RxEnds(how, name), how \in X!Over, name = "whole" => how = "ok" /\ dccGot = size, name # "part"
      PROVE  Named' /\ Finished'
  BY <1>5 DEF X!RxEnds, X!data, Named, Finished, X!Over
<1>6. ASSUME X!Meet, tx = "waiting", rx \in {"connecting", "listening"} PROVE Named' /\ Finished'
  BY <1>6 DEF X!Meet, X!data, Named, Finished, X!Over
<1>10. ASSUME X!RxEnds("failed", None) PROVE Named' /\ Finished'
  <2>1. PICK how, name : how = "failed" /\ name = None
    OBVIOUS
  <2>2. X!RxEnds(how, name) /\ how \in X!Over /\ name # "whole" /\ name # "part"
    BY <1>10, <2>1 DEF X!SizesAssumption, X!Over
  <2> QED
    BY <2>2, <1>5
<1>7. CASE X!DccConnect
  <2>1. CASE reverse /\ rx = "connecting" /\ rx' = "listening" /\ UNCHANGED <<size, tx, X!data, labels, X!files, posted>>
    BY <2>1 DEF X!data, X!files, Named, Finished, X!Over
  <2> QED
    BY <1>6, <1>10, <1>7, <2>1 DEF X!DccConnect
<1>8. CASE X!PeerConnects
  BY <1>6, <1>8 DEF X!PeerConnects
<1>9. CASE X!RxGivesUp \/ X!Close \/ X!Short
  <2>1. CASE dccGot = size /\ X!RxEnds("ok", "whole")
    <3>1. PICK how, name : how = "ok" /\ name = "whole"
      OBVIOUS
    <3>2. X!RxEnds(how, name) /\ how \in X!Over /\ name # "part" /\ how = "ok" /\ dccGot = size
      BY <2>1, <3>1 DEF X!Over
    <3> QED
      BY <3>2, <1>5
  <2> QED
    BY <1>10, <1>9, <2>1 DEF X!RxGivesUp, X!Close, X!Short
<1> QED
  BY <1>1, <1>2, <1>3, <1>4, <1>7, <1>8, <1>9 DEF X!Next

\* SentWhole and NamedWhole for any sizes and any width of the counter: the
\* last byte acked is the last byte received, and a name means a whole file
\* (dcc.go:288).
THEOREM DccFilesWhole == X!Spec => [](X!SentWhole /\ X!NamedWhole)
<1>1. X!Init => DccInv
  BY DccInit, MCClientsAssumption
<1>2. DccInv /\ [X!Next]_dccVars => DccInv'
  BY ReceivedStep, EndsStep, MCClientsAssumption DEF DccInv
<1>3. DccInv => X!SentWhole /\ X!NamedWhole
  BY DccConclusion
<1>4. [X!Next]_X!dccVars => [X!Next]_dccVars
  BY DEF dccVars, X!dccVars
<1> QED
  BY <1>1, <1>2, <1>3, <1>4, PTL DEF X!Spec

LEMMA DccWhole == ClientsSpec => [](X!SentWhole /\ X!NamedWhole)
<1>1. ClientsInit => X!Init
  BY DEF ClientsInit
<1>2. [ClientsNext]_clientVars => [X!Next]_X!dccVars
  BY PartsStep DEF dccVars, X!dccVars
<1> QED
  BY <1>1, <1>2, DccFilesWhole, PTL DEF ClientsSpec, X!Spec

-----------------------------------------------------------------------------
(* Telegram and Discord: the invariants of RecordClientsProofs.            *)
LEMMA RecordsInvAlways == ClientsSpec => []RecordsInv
<1>1. ClientsInit => RecordsInv
  BY RecordsInit DEF ClientsInit
<1>2. RecordsInv /\ [ClientsNext]_clientVars => RecordsInv'
  BY PartsStep, RecordsStep
<1> QED
  BY <1>1, <1>2, PTL DEF ClientsSpec

\* The breaker of Telegram is never shortened by a second FLOOD_WAIT, warns
\* once an opening, and a known peer is not forgotten for a min one, whatever
\* the length of the waits (tgc/peers.go).
THEOREM BreakerHoldsAlways == ClientsSpec => BreakerHolds
<1>1. RecordsInv /\ [ClientsNext]_clientVars => [part = "tg" => T!BreakerHolds]_tgcVars
  BY PartsStep, RecordsStep
<1> QED
  BY <1>1, RecordsInvAlways, PTL DEF ClientsSpec, BreakerHolds

\* A file is whole where a transfer says so and nothing temporary outlives the
\* transfers, for any number of slots and of transfers; a pasted image goes
\* only once sent (dcc.go, tgc/media.go, dsc/media.go).
THEOREM ClientFilesWhole == ClientsSpec => []FilesWhole
<1>1. RecordsInv => T!FilesRight /\ D!FilesRight
  BY RecordsRight
<1>2. RecordsInv /\ X!SentWhole /\ X!NamedWhole => FilesWhole
  BY <1>1 DEF FilesWhole
<1> QED
  BY <1>2, RecordsInvAlways, DccWhole, PTL

\* Past a login nothing of its QR is left on the screen, and a token that the
\* server took back is forgotten with the run it ended, never the one of the
\* user's command (tgc/auth.go, dsc/client.go).
THEOREM LoginsRightAlways == ClientsSpec => []LoginsRight
<1>1. RecordsInv => LoginsRight
  BY RecordsRight DEF LoginsRight
<1> QED
  BY <1>1, RecordsInvAlways, PTL

\* The chats of a guild the account is in stay through outages and lists that
\* cross them, no channel of a guild is deleted, and the emojis offered are
\* those of the guild (dsc/handlers.go, ops.go).
THEOREM GuildsKeptAlways == ClientsSpec => []GuildsKept
<1>1. RecordsInv => GuildsKept
  BY RecordsRight DEF GuildsKept
<1> QED
  BY <1>1, RecordsInvAlways, PTL

\* A call of Discord is answered once, and a sweep of any number of targets
\* says "no result" of whole answers of all of them, or of those it asked before
\* its budget was spent (dsc/client.go, search.go).
THEOREM AnswersHonestAlways == ClientsSpec => []AnswersHonest
<1>1. RecordsInv => AnswersHonest
  BY RecordsRight DEF AnswersHonest
<1> QED
  BY <1>1, RecordsInvAlways, PTL

\* Once nothing is on its way the screen shows what the server holds: the
\* versions, the quotes that were read and the reactions, however the updates,
\* the reads and the pages crossed, for any number of messages, pages, slots
\* and steps (tgc/handlers.go, replies.go, react.go, dsc/ops.go, ui/react.go).
THEOREM UpdatesRightAlways == ClientsSpec => []UpdatesRight
<1>1. RecordsInv => UpdatesRight
  BY RecordsRight DEF UpdatesRight
<1> QED
  BY <1>1, RecordsInvAlways, PTL

\* A page of Discord that went to the store while no live event did is held
\* whole by it when it is posted, whatever the sizes of the store and of the
\* page (dsc/ops.go:518).
THEOREM PageHeldAlways == ClientsSpec => []PageHeld
<1>1. RecordsInv => PageHeld
  BY RecordsRight DEF PageHeld
<1> QED
  BY <1>1, RecordsInvAlways, PTL
=============================================================================
