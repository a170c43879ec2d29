------------------------------ MODULE IrcRooms ------------------------------
(***************************************************************************)
(* The rooms of an IRC network (protocols/irc): the list of the            *)
(* configuration, the member lists, and the requests of the UI that wait   *)
(* for an answer of the server: Resolve (/join), Leave and Participants.   *)
(*                                                                         *)
(* Three kinds of actors share the maps of Client under c.mu: the UI,      *)
(* which calls the methods; one goroutine per call, which takes the lock,  *)
(* then writes to the socket; and the read goroutine of the library, which *)
(* runs the callbacks one at a time.  Between a locked section and the     *)
(* write that follows it, anything may happen.                             *)
(*                                                                         *)
(* The server and the library are external: a FIFO line each way, lost     *)
(* with the connection; a JOIN of a room we are in has no answer, another  *)
(* one is accepted, refused or forwarded to another room (470).  The lines *)
(* of a NAMES answer come in one block (353 .. 366, one message here).     *)
(* Connected() is false from the disconnect callback to the registration.  *)
(* Left out: keys of rooms, private chats, renamed nicks, lines of text.   *)
(***************************************************************************)
EXTENDS Naturals, Sequences, FiniteSets

CONSTANTS
    Rooms,       \* channels of the network
    People,      \* the other nicks
    Config,      \* the rooms of the configuration at start
    Resolves,    \* calls of Resolve, each made at most once (a bound)
    Leaves,      \* calls of Leave
    Cycles,      \* /cycle commands
    Asks,        \* calls of Participants
    MaxDrops,    \* connections lost
    MaxChatter   \* moves of other people, and kicks

ASSUME RoomsAssumption ==
    /\ Config \subseteq Rooms
    /\ MaxDrops \in Nat /\ MaxChatter \in Nat
ASSUME CallsAssumption ==
    /\ Resolves \cap (Leaves \cup Cycles \cup Asks) = {}
    /\ Leaves \cap (Cycles \cup Asks) = {} /\ Cycles \cap Asks = {}

VARIABLES
    \* Client, under c.mu
    channels,    \* c.channels: the rooms to be in
    joined,      \* the keys of c.members
    members,     \* room -> nicks of its list in c.members ({} with no key)
    joining,     \* c.joining: room -> calls of Resolve waiting for it
    naming,      \* c.naming: rooms a Participants call waits for
    \* goroutines
    roomOf,      \* call -> the room it is for (chosen at the start, never changed)
    at,          \* call -> how far it is
    rejoin,      \* connected(): rooms of its copy of the list, JOIN not written yet
    \* connection and server
    link,        \* "up", "broken" (its end not handled yet) or "down"
    toServer,
    toClient,
    present,     \* the rooms the server has us in
    people,      \* room -> other people in it
    drops, chatter,  \* how often a bound was used
    \* UI
    file,        \* rooms in config.toml
    saving,      \* a write of the list is queued to the UI
    answers,     \* Resolve call -> number of EvChat posted for it
    owed,        \* rooms whose EvParticipants the UI waits for
    wants        \* history: rooms the last word of the user (or a forward) is for

client == <<channels, joined, members, joining, naming>>
net == <<link, toServer, toClient, present, people, drops, chatter>>
ui == <<file, saving, answers, owed, wants>>
calls == <<roomOf, at, rejoin>>
vars == <<client, calls, net, ui>>

Calls == Resolves \cup Leaves \cup Cycles \cup Asks
Places == {"unused", "called", "sending", "ended"}
Cmd == [cmd : {"JOIN", "PART", "NAMES"}, room : Rooms]
Line == [kind : {"JOIN", "PART", "KICK", "NAMES", "ERR", "IN", "OUT"},
         room : Rooms, who : SUBSET People]

(* A line of the server; who: the list of a NAMES, the nick of IN and OUT. *)
Says(k, r, W) == [kind |-> k, room |-> r, who |-> W]

TypeOK ==
    /\ channels \subseteq Rooms /\ joined \subseteq Rooms /\ naming \subseteq Rooms
    /\ members \in [Rooms -> SUBSET People]
    /\ \A r \in Rooms \ joined : members[r] = {}
    /\ joining \in [Rooms -> SUBSET Resolves]
    /\ roomOf \in [Calls -> Rooms] /\ at \in [Calls -> Places]
    /\ rejoin \subseteq Rooms
    /\ link \in {"up", "broken", "down"}
    /\ toServer \in Seq(Cmd) /\ toClient \in Seq(Line)
    /\ present \subseteq Rooms /\ people \in [Rooms -> SUBSET People]
    /\ drops \in Nat /\ chatter \in Nat
    /\ file \subseteq Rooms /\ saving \in BOOLEAN
    /\ answers \in [Resolves -> Nat] /\ owed \subseteq Rooms /\ wants \subseteq Rooms

Init ==
    /\ channels = Config /\ file = Config /\ wants = Config
    /\ joined = {} /\ naming = {} /\ rejoin = {} /\ present = {} /\ owed = {}
    /\ members = [r \in Rooms |-> {}] /\ joining = [r \in Rooms |-> {}]
    /\ roomOf \in [Calls -> Rooms] /\ at = [i \in Calls |-> "unused"]
    /\ link = "down" /\ toServer = <<>> /\ toClient = <<>>
    /\ people = [r \in Rooms |-> {}]
    /\ drops = 0 /\ chatter = 0 /\ saving = FALSE
    /\ answers = [q \in Resolves |-> 0]

-----------------------------------------------------------------------------
(* Helpers of the client.                                                  *)

(* Post an EvChat for every call of Q.                                     *)
Answer(Q) == answers' = [q \in Resolves |-> IF q \in Q THEN answers[q] + 1 ELSE answers[q]]

(* Mutant: the calls are left in the map.                                  *)
AnswerAllKept(r) == UNCHANGED joining /\ Answer(joining[r])

(* Every call that waits for room r, taken off the map and answered.       *)
AnswerAll(r) == joining' = [joining EXCEPT ![r] = {}] /\ Answer(joining[r])

(* remember and saveChannels: room r in the list, a write queued if it was *)
(* not there.                                                              *)
Remember(r) ==
    /\ channels' = channels \cup {r}
    /\ saving' = (saving \/ r \notin channels)

(* send: an error unless connected; on a connection that breaks, the line  *)
(* may be taken and lost.                                                  *)
Sent(c, r) ==
    \/ link = "up" /\ toServer' = Append(toServer, [cmd |-> c, room |-> r])
    \/ link = "broken" /\ UNCHANGED toServer
SendFails == link # "up" /\ UNCHANGED toServer

(* addMember creates the list of a room that has none; dropMember does not.*)
AddMember(r, W) ==
    /\ joined' = joined \cup {r}
    /\ members' = [members EXCEPT ![r] = @ \cup W]
DropMember(r, W) == members' = [members EXCEPT ![r] = @ \ W] /\ UNCHANGED joined
DropRoom(r) == joined' = joined \ {r} /\ members' = [members EXCEPT ![r] = {}]

Goes(i, p) == at' = [at EXCEPT ![i] = p] /\ UNCHANGED <<roomOf, rejoin>>

-----------------------------------------------------------------------------
(* The methods the UI calls, and their goroutines.                         *)

(* Resolve of a room.  In it: answered at once, and the room remembered.   *)
(* Otherwise the call waits, and its goroutine writes the JOIN.            *)
Resolve(q) ==
    LET r == roomOf[q] IN
    /\ at[q] = "unused"
    /\ wants' = wants \cup {r}
    /\ \/ /\ r \in joined
          /\ Remember(r) /\ Answer({q}) /\ Goes(q, "ended")
          /\ UNCHANGED joining
       \/ /\ r \notin joined
          /\ joining' = [joining EXCEPT ![r] = @ \cup {q}]
          /\ Goes(q, "sending")
          /\ UNCHANGED <<channels, saving, answers>>
    /\ UNCHANGED <<joined, members, naming, net, file, owed>>

(* The JOIN, or its failure: every call that waits for the room gets it.   *)
ResolveSends(q) ==
    LET r == roomOf[q] IN
    /\ at[q] = "sending" /\ Goes(q, "ended")
    /\ \/ Sent("JOIN", r) /\ UNCHANGED <<joining, answers>>
       \/ SendFails /\ AnswerAll(r)
    /\ UNCHANGED <<channels, joined, members, naming, file, saving, owed, wants,
                   link, toClient, present, people, drops, chatter>>

(* Leave of a room: everything is in the goroutine.                        *)
Leave(i) ==
    /\ at[i] = "unused" /\ Goes(i, "called")
    /\ wants' = wants \ {roomOf[i]}
    /\ UNCHANGED <<client, net, file, saving, answers, owed>>

(* part, under the lock: out of the list and of the members, the list      *)
(* saved.                                                                  *)
PartLocks(i) ==
    LET r == roomOf[i] IN
    /\ at[i] = "called" /\ Goes(i, "sending")
    /\ channels' = channels \ {r} /\ DropRoom(r) /\ saving' = TRUE
    /\ UNCHANGED <<joining, naming, net, file, answers, owed, wants>>

(* part, the PART; its error is of no consequence.                         *)
PartSends(i) ==
    /\ at[i] = "sending" /\ Goes(i, "ended")
    /\ Sent("PART", roomOf[i]) \/ SendFails
    /\ UNCHANGED <<client, ui, link, toClient, present, people, drops, chatter>>

(* /cycle: a PART, then a JOIN; the first that fails is the last.          *)
Cycle(i) ==
    /\ at[i] = "unused" /\ Goes(i, "called")
    /\ UNCHANGED <<client, net, ui>>

CyclePart(i) ==
    /\ at[i] = "called"
    /\ \/ Sent("PART", roomOf[i]) /\ Goes(i, "sending")
       \/ SendFails /\ Goes(i, "ended")
    /\ UNCHANGED <<client, ui, link, toClient, present, people, drops, chatter>>

CycleJoin(i) ==
    /\ at[i] = "sending" /\ Goes(i, "ended")
    /\ Sent("JOIN", roomOf[i]) \/ SendFails
    /\ UNCHANGED <<client, ui, link, toClient, present, people, drops, chatter>>

(* Participants of a room.                                                 *)
Participants(i) ==
    LET r == roomOf[i] IN
    /\ at[i] = "unused" /\ Goes(i, "sending")
    /\ naming' = naming \cup {r} /\ owed' = owed \cup {r}
    /\ UNCHANGED <<channels, joined, members, joining, net, file, saving, answers, wants>>

ParticipantsSends(i) ==
    LET r == roomOf[i] IN
    /\ at[i] = "sending" /\ Goes(i, "ended")
    /\ \/ Sent("NAMES", r) /\ UNCHANGED <<naming, owed>>
       \/ SendFails /\ naming' = naming \ {r} /\ owed' = owed \ {r}
    /\ UNCHANGED <<channels, joined, members, joining, file, saving, answers, wants,
                   link, toClient, present, people, drops, chatter>>

(* The UI writes the latest list.                                          *)
SaveConfig ==
    /\ saving /\ saving' = FALSE /\ file' = channels
    /\ UNCHANGED <<client, calls, net, answers, owed, wants>>

-----------------------------------------------------------------------------
(* The callbacks of the read goroutine.                                    *)

(* End of the registration: a copy of the list, to join again.             *)
Connected ==
    /\ link = "down" /\ link' = "up"
    /\ rejoin' = channels
    /\ UNCHANGED <<client, roomOf, at, ui, toServer, toClient, present, people, drops, chatter>>

(* connected() goes on: a JOIN of the copy.                                *)
Rejoin(r) ==
    /\ r \in rejoin /\ rejoin' = rejoin \ {r}
    /\ Sent("JOIN", r) \/ SendFails
    /\ UNCHANGED <<client, roomOf, at, ui, link, toClient, present, people, drops, chatter>>

(* Mutants: the calls of Resolve, or of Participants, get no answer.       *)
ResetConnDropsJoining ==
    /\ link = "broken" /\ rejoin = {} /\ link' = "down"
    /\ joined' = {} /\ members' = [r \in Rooms |-> {}]
    /\ joining' = [r \in Rooms |-> {}]
    /\ naming' = {} /\ owed' = owed \ naming
    /\ UNCHANGED <<channels, calls, file, saving, wants, answers,
                   toServer, toClient, present, people, drops, chatter>>
ResetConnDropsNaming ==
    /\ link = "broken" /\ rejoin = {} /\ link' = "down"
    /\ joined' = {} /\ members' = [r \in Rooms |-> {}]
    /\ joining' = [r \in Rooms |-> {}]
    /\ Answer(UNION {joining[r] : r \in Rooms})
    /\ naming' = {}
    /\ UNCHANGED <<channels, calls, file, saving, wants, owed,
                   toServer, toClient, present, people, drops, chatter>>

(* The end of a connection: everything that waited for it is answered.     *)
ResetConn ==
    /\ link = "broken" /\ rejoin = {} /\ link' = "down"
    /\ joined' = {} /\ members' = [r \in Rooms |-> {}]
    /\ joining' = [r \in Rooms |-> {}]
    /\ Answer(UNION {joining[r] : r \in Rooms})
    /\ naming' = {} /\ owed' = owed \ naming
    /\ UNCHANGED <<channels, calls, file, saving, wants,
                   toServer, toClient, present, people, drops, chatter>>

(* Mutant: only a room somebody asked for is remembered.                   *)
OnSelfJoinAsked(r) ==
    /\ AnswerAll(r)
    /\ IF joining[r] # {} THEN Remember(r) ELSE UNCHANGED <<channels, saving>>
    /\ joined' = joined \cup {r} /\ members' = [members EXCEPT ![r] = {}]
    /\ UNCHANGED <<naming, owed>>

(* Our own JOIN: the calls that wait are answered, the room is remembered  *)
(* and its list starts empty.                                              *)
OnSelfJoin(r) ==
    /\ AnswerAll(r) /\ Remember(r)
    /\ joined' = joined \cup {r} /\ members' = [members EXCEPT ![r] = {}]
    /\ UNCHANGED <<naming, owed>>

OnSelfOut(r) == DropRoom(r) /\ UNCHANGED <<channels, joining, naming, saving, answers, owed>>

OnOtherIn(r, W) == AddMember(r, W) /\ UNCHANGED <<channels, joining, naming, saving, answers, owed>>

OnOtherOut(r, W) == DropMember(r, W) /\ UNCHANGED <<channels, joining, naming, saving, answers, owed>>

(* Mutants: the list of any room is kept; it makes the room one we are in. *)
OnEndOfNamesAny(r, W) ==
    /\ members' = [members EXCEPT ![r] = W]
    /\ naming' = naming \ {r} /\ owed' = owed \ (naming \cap {r})
    /\ UNCHANGED <<channels, joined, joining, saving, answers>>
OnEndOfNamesJoins(r, W) ==
    /\ members' = [members EXCEPT ![r] = W] /\ joined' = joined \cup {r}
    /\ naming' = naming \ {r} /\ owed' = owed \ (naming \cap {r})
    /\ UNCHANGED <<channels, joining, saving, answers>>

(* The list is whole: kept for a room we are in, and given to Participants.*)
OnEndOfNames(r, W) ==
    /\ members' = IF r \in joined THEN [members EXCEPT ![r] = W] ELSE members
    /\ naming' = naming \ {r} /\ owed' = owed \ (naming \cap {r})
    /\ UNCHANGED <<channels, joined, joining, saving, answers>>

OnChannelError(r) ==
    /\ AnswerAll(r)
    /\ UNCHANGED <<channels, joined, members, naming, saving, owed>>

(* One line of the server, by its callback.                                *)
Read ==
    /\ link = "up" /\ rejoin = {} /\ toClient # <<>>
    /\ toClient' = Tail(toClient)
    /\ LET m == Head(toClient) IN
       \/ m.kind = "JOIN" /\ OnSelfJoin(m.room)
       \/ m.kind \in {"PART", "KICK"} /\ OnSelfOut(m.room)
       \/ m.kind = "IN" /\ OnOtherIn(m.room, m.who)
       \/ m.kind = "OUT" /\ OnOtherOut(m.room, m.who)
       \/ m.kind = "NAMES" /\ OnEndOfNames(m.room, m.who)
       \/ m.kind = "ERR" /\ OnChannelError(m.room)
    /\ UNCHANGED <<calls, link, toServer, present, people, drops, chatter, file, wants>>

-----------------------------------------------------------------------------
(* The server, and the network.                                            *)

Enters(r) == <<Says("JOIN", r, {}), Says("NAMES", r, people[r])>>

(* A JOIN: nothing to say when we are in; otherwise in, refused, or sent   *)
(* to another room (in which case the room we asked for gets an error).    *)
ServerJoins(r) ==
    \/ r \in present /\ UNCHANGED <<toClient, present, wants>>
    \/ /\ r \notin present
       /\ present' = present \cup {r} /\ toClient' = toClient \o Enters(r)
       /\ UNCHANGED wants
    \/ /\ r \notin present
       /\ toClient' = Append(toClient, Says("ERR", r, {}))
       /\ UNCHANGED <<present, wants>>
    \/ \E f \in Rooms \ (present \cup {r}) :
       /\ r \notin present
       /\ present' = present \cup {f} /\ wants' = wants \cup {f}
       /\ toClient' = Append(toClient, Says("ERR", r, {})) \o Enters(f)

ServerParts(r) ==
    /\ present' = present \ {r}
    /\ toClient' = IF r \in present THEN Append(toClient, Says("PART", r, {})) ELSE toClient
    /\ UNCHANGED wants

ServerNames(r) ==
    /\ toClient' = Append(toClient, Says("NAMES", r, people[r]))
    /\ UNCHANGED <<present, wants>>

ServerTakes ==
    /\ link = "up" /\ toServer # <<>>
    /\ toServer' = Tail(toServer)
    /\ LET c == Head(toServer) IN
       \/ c.cmd = "JOIN" /\ ServerJoins(c.room)
       \/ c.cmd = "PART" /\ ServerParts(c.room)
       \/ c.cmd = "NAMES" /\ ServerNames(c.room)
    /\ UNCHANGED <<client, calls, link, people, drops, chatter, file, saving, answers, owed>>

(* Another person moves in or out of a room; we hear of it when present.   *)
Moves(r, p) ==
    /\ chatter < MaxChatter /\ chatter' = chatter + 1
    /\ people' = [people EXCEPT ![r] = IF p \in @ THEN @ \ {p} ELSE @ \cup {p}]
    /\ toClient' = IF link = "up" /\ r \in present
                   THEN Append(toClient, Says(IF p \in people[r] THEN "OUT" ELSE "IN", r, {p}))
                   ELSE toClient
    /\ UNCHANGED <<client, calls, ui, link, toServer, present, drops>>

Kick(r) ==
    /\ chatter < MaxChatter /\ chatter' = chatter + 1
    /\ link = "up" /\ r \in present /\ present' = present \ {r}
    /\ toClient' = Append(toClient, Says("KICK", r, {}))
    /\ UNCHANGED <<client, calls, ui, link, toServer, people, drops>>

(* The connection breaks: what was on the line is lost.                    *)
Drop ==
    /\ drops < MaxDrops /\ drops' = drops + 1
    /\ link = "up" /\ link' = "broken"
    /\ toServer' = <<>> /\ toClient' = <<>> /\ present' = {}
    /\ UNCHANGED <<client, calls, ui, people, chatter>>

-----------------------------------------------------------------------------
Goroutines ==
    \/ \E q \in Resolves : ResolveSends(q)
    \/ \E i \in Leaves : PartLocks(i) \/ PartSends(i)
    \/ \E i \in Cycles : CyclePart(i) \/ CycleJoin(i)
    \/ \E i \in Asks : ParticipantsSends(i)
Callbacks == Connected \/ ResetConn \/ Read \/ \E r \in Rooms : Rejoin(r)
User ==
    \/ \E q \in Resolves : Resolve(q)
    \/ \E i \in Leaves : Leave(i)
    \/ \E i \in Cycles : Cycle(i)
    \/ \E i \in Asks : Participants(i)
Others == Drop \/ \E r \in Rooms : Kick(r) \/ \E p \in People : Moves(r, p)

Next == User \/ Goroutines \/ SaveConfig \/ Callbacks \/ ServerTakes \/ Others

Spec == Init /\ [][Next]_vars

(* The goroutines run, the read loop reads, the connection is rebuilt and  *)
(* the server treats what it gets.  The user, the other people and the     *)
(* losses owe nothing.                                                     *)
Fairness ==
    /\ \A q \in Resolves : WF_vars(ResolveSends(q))
    /\ \A i \in Leaves : WF_vars(PartLocks(i) \/ PartSends(i))
    /\ \A i \in Cycles : WF_vars(CyclePart(i) \/ CycleJoin(i))
    /\ \A i \in Asks : WF_vars(ParticipantsSends(i))
    /\ WF_vars(Callbacks) /\ WF_vars(SaveConfig) /\ WF_vars(ServerTakes)

FairSpec == Spec /\ Fairness

-----------------------------------------------------------------------------
(* Nothing is under way: connected, the lines read, the goroutines ended.  *)
Settled ==
    /\ link = "up" /\ toServer = <<>> /\ toClient = <<>> /\ rejoin = {}
    /\ \A i \in Calls : at[i] \in {"unused", "ended"}

(* A Resolve is answered once: it waits in the list of its room or it has  *)
(* its one EvChat, whatever the order of the JOIN, of the error of another *)
(* call of the room, and of the end of the connection.                     *)
AnsweredOnce ==
    \A q \in Resolves :
        /\ answers[q] <= 1
        /\ \A r \in Rooms : q \in joining[r] =>
               answers[q] = 0 /\ r = roomOf[q] /\ at[q] # "unused"

(* The member lists end up right: whatever the order in which the locked   *)
(* sections, the writes and the callbacks ran, once all is quiet the rooms *)
(* of c.members are those the server has us in, with the people in them.   *)
(* The comments of onEndOfNames and onKick rest on it: Resolve reads a key *)
(* as "already joined" and skips the JOIN.                                 *)
MembersRight ==
    Settled => joined = present /\ \A r \in Rooms : r \in present => members[r] = people[r]

(* A room we are in survives a restart: once all is quiet and the UI has   *)
(* written the file, it is there.                                          *)
RoomsSaved == Settled /\ ~saving => present \subseteq file

(* What the UI and the configuration are told of the rooms comes out right.*)
RoomsRight == AnsweredOnce /\ MembersRight /\ RoomsSaved

(* A room the user left, and did not ask for again, is left: we are not in *)
(* it and the next connection does not join it.                            *)
LeftStaysLeft == Settled /\ ~saving => present \cup file \subseteq wants

(* Every Resolve is answered, with the JOIN, the error or the end of the   *)
(* connection.                                                             *)
ResolveAnswered == \A q \in Resolves : []<>(at[q] # "unused" => answers[q] > 0)

(* Participants is answered: the UI does not wait for a list for ever.     *)
ParticipantsAnswered == \A r \in Rooms : []<>(r \notin owed)
=============================================================================
