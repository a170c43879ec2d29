----------------------------- MODULE MCNetRooms -----------------------------
(* What the networks keep, for TLC: the sessions of a network, and two     *)
(* rooms of IRC that a user leaves and asks for again.  They share no      *)
(* state: a behaviour is one of them (part), the other stays at its start. *)
EXTENDS NetSession, FiniteSets

CONSTANTS Rooms, People, Config, Resolves, Leaves, Cycles, Asks, MaxDrops, MaxChatter  \* of IrcRooms

VARIABLES part, channels, joined, members, joining, naming, roomOf, at, rejoin, link, toServer, toClient,
    present, people, drops, chatter, file, saving, answers, owed, wants

R == INSTANCE IrcRooms
ASSUME MCNetRoomsAssumption == R!RoomsAssumption /\ R!CallsAssumption
Asked == CHOOSE r \in Config : TRUE

roomVars == <<channels, joined, members, joining, naming, roomOf, at, rejoin, link, toServer, toClient,
              present, people, drops, chatter, file, saving, answers, owed, wants>>

NetRoomsInit ==
    /\ part \in {"sessions", "rooms"}
    /\ Init /\ R!Init
    /\ part = "sessions" => roomOf = [i \in R!Calls |-> Asked]
    /\ part = "rooms" => netList = {} /\ account = [n \in Net |-> None]
                       /\ \A i \in Asks : roomOf[i] = Asked  \* bound: one list asked

SessionsGo == part = "sessions" /\ Next /\ UNCHANGED <<part, roomVars>>
RoomsGo == part = "rooms" /\ R!Next /\ UNCHANGED <<part, vars>>

NetRoomsSpec == NetRoomsInit /\ [][SessionsGo \/ RoomsGo]_<<part, vars, roomVars>>

(* The rooms come out right, whatever the order of the JOINs, the errors,  *)
(* the PARTs, the drops and the callbacks: every Resolve answered once,    *)
(* the lists of members those of the server, the rooms we are in saved     *)
(* (irc/client.go, ops.go, handlers.go).                                   *)
RoomLists == part = "rooms" => R!RoomsRight
=============================================================================
