--------------------------- MODULE IrcRoomsProofs ---------------------------
(* Proofs about the rooms of an IRC network, for any rooms, people, calls  *)
(* and bounds.                                                             *)
EXTENDS IrcRooms, SequenceTheorems, TLAPS

(* A call not made yet has no answer.                                      *)
NotAsked == \A q \in Resolves : at[q] = "unused" => answers[q] = 0

IInv == TypeOK /\ AnsweredOnce /\ NotAsked

(* A line of the server is one, and those of an entry are two.             *)
LEMMA SaysLine ==
    ASSUME NEW k \in {"JOIN", "PART", "KICK", "NAMES", "ERR", "IN", "OUT"},
           NEW r \in Rooms, NEW W \in SUBSET People
    PROVE  Says(k, r, W) \in Line
  BY DEF Says, Line

LEMMA EntersLines ==
    ASSUME TypeOK, NEW r \in Rooms
    PROVE  Enters(r) \in Seq(Line)
<1>1. Says("JOIN", r, {}) \in Line
  BY SaysLine
<1>2. people[r] \in SUBSET People
  BY DEF TypeOK
<1>3. Says("NAMES", r, people[r]) \in Line
  BY <1>2, SaysLine
<1> QED
  BY <1>1, <1>3 DEF Enters

(* What a send leaves of the line to the server.                           *)
LEMMA SendType ==
    ASSUME TypeOK, NEW r \in Rooms, NEW c \in {"JOIN", "PART", "NAMES"},
           Sent(c, r) \/ SendFails
    PROVE  toServer' \in Seq(Cmd)
<1>1. [cmd |-> c, room |-> r] \in Cmd
  BY DEF Cmd
<1>2. toServer \in Seq(Cmd)
  BY DEF TypeOK
<1>3. Append(toServer, [cmd |-> c, room |-> r]) \in Seq(Cmd)
  BY <1>1, <1>2, AppendProperties
<1>4. CASE Sent(c, r)
  BY <1>4, <1>2, <1>3 DEF Sent
<1>5. CASE SendFails
  BY <1>5, <1>2 DEF SendFails
<1> QED
  BY <1>4, <1>5

(* Answering some calls keeps the count a number.                          *)
LEMMA AnswerType ==
    ASSUME TypeOK, NEW Q, Answer(Q)
    PROVE  answers' \in [Resolves -> Nat]
  BY DEF TypeOK, Answer

LEMMA GoesType ==
    ASSUME TypeOK, NEW i \in Calls, NEW p \in Places, Goes(i, p)
    PROVE  /\ roomOf' \in [Calls -> Rooms] /\ at' \in [Calls -> Places]
           /\ rejoin' \subseteq Rooms
  BY DEF TypeOK, Goes

(* The part of the type of the maps of the client.                         *)
ClientType ==
    /\ channels \subseteq Rooms /\ joined \subseteq Rooms /\ naming \subseteq Rooms
    /\ members \in [Rooms -> SUBSET People]
    /\ \A r \in Rooms \ joined : members[r] = {}
    /\ joining \in [Rooms -> SUBSET Resolves]

CallsType ==
    /\ roomOf \in [Calls -> Rooms] /\ at \in [Calls -> Places]
    /\ rejoin \subseteq Rooms

NetType ==
    /\ link \in {"up", "broken", "down"}
    /\ toServer \in Seq(Cmd) /\ toClient \in Seq(Line)
    /\ present \subseteq Rooms /\ people \in [Rooms -> SUBSET People]
    /\ drops \in Nat /\ chatter \in Nat

UIType ==
    /\ file \subseteq Rooms /\ saving \in BOOLEAN
    /\ answers \in [Resolves -> Nat] /\ owed \subseteq Rooms /\ wants \subseteq Rooms

LEMMA TypeParts ==
    /\ TypeOK => ClientType /\ CallsType /\ NetType /\ UIType
    /\ ClientType' /\ CallsType' /\ NetType' /\ UIType' => TypeOK'
  BY DEF TypeOK, ClientType, CallsType, NetType, UIType

(* The head of a line that is not empty.                                   *)
LEMMA HeadLine ==
    ASSUME TypeOK, toClient # <<>>
    PROVE  /\ Head(toClient) \in Line /\ Tail(toClient) \in Seq(Line)
           /\ Head(toClient).room \in Rooms /\ Head(toClient).who \in SUBSET People
<1>1. Head(toClient) \in Line /\ Tail(toClient) \in Seq(Line)
  BY DEF TypeOK
<1> QED
  BY <1>1 DEF Line

LEMMA HeadCmd ==
    ASSUME TypeOK, toServer # <<>>
    PROVE  Tail(toServer) \in Seq(Cmd) /\ Head(toServer).room \in Rooms
<1>1. Head(toServer) \in Cmd /\ Tail(toServer) \in Seq(Cmd)
  BY DEF TypeOK
<1> QED
  BY <1>1 DEF Cmd

(* Every step keeps the types: one step per action.                        *)
LEMMA TypeStep == TypeOK /\ [Next]_vars => TypeOK'
<1> SUFFICES ASSUME TypeOK, [Next]_vars PROVE TypeOK'
  OBVIOUS
<1> USE TypeParts
<1>0. /\ ClientType /\ CallsType /\ NetType /\ UIType
      /\ "unused" \in Places /\ "called" \in Places /\ "sending" \in Places /\ "ended" \in Places
      /\ Resolves \subseteq Calls /\ Leaves \subseteq Calls
      /\ Cycles \subseteq Calls /\ Asks \subseteq Calls
  BY TypeParts DEF Places, Calls
<1>1. ASSUME NEW q \in Resolves, Resolve(q) PROVE TypeOK'
  <2>1. roomOf[q] \in Rooms
    BY <1>0 DEF CallsType
  <2>2. CallsType'
    BY <1>1, <1>0, GoesType DEF Resolve, CallsType
  <2>3. NetType'
    BY <1>1, <1>0 DEF Resolve, net, NetType
  <2>4. answers' \in [Resolves -> Nat]
    BY <1>1, <1>0, AnswerType DEF Resolve, UIType
  <2>5. UIType'
    BY <1>1, <1>0, <2>1, <2>4 DEF Resolve, Remember, UIType
  <2>6. ClientType'
    BY <1>1, <1>0, <2>1 DEF Resolve, Remember, ClientType
  <2> QED
    BY <2>2, <2>3, <2>5, <2>6
<1>2. ASSUME NEW q \in Resolves, ResolveSends(q) PROVE TypeOK'
  <2>1. roomOf[q] \in Rooms
    BY <1>0 DEF CallsType
  <2>2. CallsType'
    BY <1>2, <1>0, GoesType DEF ResolveSends, CallsType
  <2>3. toServer' \in Seq(Cmd)
    BY <1>2, <2>1, SendType DEF ResolveSends
  <2>4. NetType'
    BY <1>2, <1>0, <2>3 DEF ResolveSends, NetType
  <2>5. answers' \in [Resolves -> Nat]
    BY <1>2, <1>0, AnswerType DEF ResolveSends, AnswerAll, UIType
  <2>6. UIType' /\ ClientType'
    BY <1>2, <1>0, <2>1, <2>5 DEF ResolveSends, AnswerAll, UIType, ClientType
  <2> QED
    BY <2>2, <2>4, <2>6
<1>3. ASSUME NEW i \in Leaves, Leave(i) \/ PartLocks(i) \/ PartSends(i) PROVE TypeOK'
  <2>1. roomOf[i] \in Rooms
    BY <1>0 DEF CallsType
  <2>2. CASE Leave(i)
    <3>1. CallsType'
      BY <2>2, <1>0, GoesType DEF Leave, CallsType
    <3>2. NetType' /\ UIType' /\ ClientType'
      BY <2>2, <1>0 DEF Leave, net, client, NetType, UIType, ClientType
    <3> QED
      BY <3>1, <3>2
  <2>3. CASE PartLocks(i)
    <3>1. CallsType'
      BY <2>3, <1>0, GoesType DEF PartLocks, CallsType
    <3>2. NetType' /\ UIType'
      BY <2>3, <1>0 DEF PartLocks, net, NetType, UIType
    <3>3. ClientType'
      BY <2>3, <1>0, <2>1 DEF PartLocks, DropRoom, ClientType
    <3> QED
      BY <3>1, <3>2, <3>3
  <2>4. CASE PartSends(i)
    <3>1. CallsType'
      BY <2>4, <1>0, GoesType DEF PartSends, CallsType
    <3>2. toServer' \in Seq(Cmd)
      BY <2>4, <2>1, SendType DEF PartSends
    <3>3. NetType' /\ UIType' /\ ClientType'
      BY <2>4, <1>0, <3>2 DEF PartSends, client, ui, NetType, UIType, ClientType
    <3> QED
      BY <3>1, <3>3
  <2> QED
    BY <1>3, <2>2, <2>3, <2>4
<1>4. ASSUME NEW i \in Cycles, Cycle(i) \/ CyclePart(i) \/ CycleJoin(i) PROVE TypeOK'
  <2>1. roomOf[i] \in Rooms
    BY <1>0 DEF CallsType
  <2>2. CallsType'
    BY <1>4, <1>0, GoesType DEF Cycle, CyclePart, CycleJoin, CallsType
  <2>3. toServer' \in Seq(Cmd)
    <3>1. CASE Cycle(i)
      BY <3>1, <1>0 DEF Cycle, net, NetType
    <3>2. CASE CyclePart(i)
      BY <3>2, <2>1, SendType DEF CyclePart
    <3>3. CASE CycleJoin(i)
      BY <3>3, <2>1, SendType DEF CycleJoin
    <3> QED
      BY <1>4, <3>1, <3>2, <3>3
  <2>4. NetType' /\ UIType' /\ ClientType'
    BY <1>4, <1>0, <2>3 DEF Cycle, CyclePart, CycleJoin, client, ui, net, NetType, UIType, ClientType
  <2> QED
    BY <2>2, <2>4
<1>5. ASSUME NEW i \in Asks, Participants(i) \/ ParticipantsSends(i) PROVE TypeOK'
  <2>1. roomOf[i] \in Rooms
    BY <1>0 DEF CallsType
  <2>2. CallsType'
    BY <1>5, <1>0, GoesType DEF Participants, ParticipantsSends, CallsType
  <2>3. toServer' \in Seq(Cmd)
    <3>1. CASE Participants(i)
      BY <3>1, <1>0 DEF Participants, net, NetType
    <3>2. CASE ParticipantsSends(i)
      BY <3>2, <2>1, SendType DEF ParticipantsSends
    <3> QED
      BY <1>5, <3>1, <3>2
  <2>4. NetType' /\ UIType' /\ ClientType'
    BY <1>5, <1>0, <2>1, <2>3 DEF Participants, ParticipantsSends, net, NetType, UIType, ClientType
  <2> QED
    BY <2>2, <2>4
<1>6. CASE SaveConfig
  <2>1. CallsType' /\ NetType' /\ UIType' /\ ClientType'
    BY <1>6, <1>0 DEF SaveConfig, client, calls, net, CallsType, NetType, UIType, ClientType
  <2> QED
    BY <2>1
<1>7. CASE Connected \/ \E r \in Rooms : Rejoin(r)
  <2>1. toServer' \in Seq(Cmd)
    <3>1. CASE Connected
      BY <3>1, <1>0 DEF Connected, NetType
    <3>2. ASSUME NEW r \in Rooms, Rejoin(r) PROVE toServer' \in Seq(Cmd)
      BY <3>2, SendType DEF Rejoin
    <3> QED
      BY <1>7, <3>1, <3>2
  <2>2. CallsType' /\ NetType' /\ UIType' /\ ClientType'
    BY <1>7, <1>0, <2>1 DEF Connected, Rejoin, client, ui, CallsType, NetType, UIType, ClientType
  <2> QED
    BY <2>2
<1>8. CASE ResetConn
  <2>1. answers' \in [Resolves -> Nat]
    BY <1>8, AnswerType DEF ResetConn
  <2>2. CallsType' /\ NetType' /\ UIType'
    BY <1>8, <1>0, <2>1 DEF ResetConn, calls, CallsType, NetType, UIType
  <2>3. ClientType'
    BY <1>8, <1>0 DEF ResetConn, ClientType
  <2> QED
    BY <2>2, <2>3
<1>9. CASE Read
  <2> DEFINE m == Head(toClient)
  <2>1. m.room \in Rooms /\ m.who \in SUBSET People /\ Tail(toClient) \in Seq(Line)
    BY <1>9, HeadLine DEF Read
  <2>2. CallsType' /\ NetType'
    BY <1>9, <1>0, <2>1 DEF Read, calls, CallsType, NetType
  <2>3. \/ OnSelfJoin(m.room) \/ OnSelfOut(m.room) \/ OnOtherIn(m.room, m.who)
        \/ OnOtherOut(m.room, m.who) \/ OnEndOfNames(m.room, m.who) \/ OnChannelError(m.room)
    BY <1>9 DEF Read
  <2> HIDE DEF m
  <2>4. file' = file /\ wants' = wants
    BY <1>9 DEF Read
  <2>5. CASE OnSelfJoin(m.room)
    <3>1. answers' \in [Resolves -> Nat]
      BY <2>5, AnswerType DEF OnSelfJoin, AnswerAll
    <3>2. UIType' /\ ClientType'
      BY <2>5, <2>4, <3>1, <2>1, <1>0 DEF OnSelfJoin, AnswerAll, Remember, UIType, ClientType
    <3> QED
      BY <2>2, <3>2
  <2>6. CASE OnSelfOut(m.room)
    <3>1. UIType' /\ ClientType'
      BY <2>6, <2>4, <2>1, <1>0 DEF OnSelfOut, DropRoom, UIType, ClientType
    <3> QED
      BY <2>2, <3>1
  <2>7. CASE OnOtherIn(m.room, m.who)
    <3>1. UIType' /\ ClientType'
      BY <2>7, <2>4, <2>1, <1>0 DEF OnOtherIn, AddMember, UIType, ClientType
    <3> QED
      BY <2>2, <3>1
  <2>8. CASE OnOtherOut(m.room, m.who)
    <3>1. UIType' /\ ClientType'
      BY <2>8, <2>4, <2>1, <1>0 DEF OnOtherOut, DropMember, UIType, ClientType
    <3> QED
      BY <2>2, <3>1
  <2>9. CASE OnEndOfNames(m.room, m.who)
    <3>1. UIType' /\ ClientType'
      BY <2>9, <2>4, <2>1, <1>0 DEF OnEndOfNames, UIType, ClientType
    <3> QED
      BY <2>2, <3>1
  <2>10. CASE OnChannelError(m.room)
    <3>1. answers' \in [Resolves -> Nat]
      BY <2>10, AnswerType DEF OnChannelError, AnswerAll
    <3>2. UIType' /\ ClientType'
      BY <2>10, <2>4, <3>1, <2>1, <1>0 DEF OnChannelError, AnswerAll, UIType, ClientType
    <3> QED
      BY <2>2, <3>2
  <2> QED
    BY <2>3, <2>5, <2>6, <2>7, <2>8, <2>9, <2>10
<1>10. CASE ServerTakes
  <2> DEFINE c == Head(toServer)
  <2>1. c.room \in Rooms /\ Tail(toServer) \in Seq(Cmd)
    BY <1>10, HeadCmd DEF ServerTakes
  <2>2. ServerJoins(c.room) \/ ServerParts(c.room) \/ ServerNames(c.room)
    BY <1>10 DEF ServerTakes
  <2>3. /\ UNCHANGED <<client, calls, link, people, drops, chatter, file, saving, answers, owed>>
        /\ toServer' = Tail(toServer)
    BY <1>10 DEF ServerTakes
  <2> HIDE DEF c
  <2>4. Enters(c.room) \in Seq(Line)
    BY <2>1, EntersLines
  <2>5. people[c.room] \in SUBSET People
    BY <2>1, <1>0 DEF NetType
  <2>6. /\ Says("ERR", c.room, {}) \in Line /\ Says("PART", c.room, {}) \in Line
        /\ Says("NAMES", c.room, people[c.room]) \in Line
    BY <2>1, <2>5, SaysLine
  <2>7. \A f \in Rooms : Append(toClient, Says("ERR", c.room, {})) \o Enters(f) \in Seq(Line)
    <3>1. ASSUME NEW f \in Rooms
          PROVE  Append(toClient, Says("ERR", c.room, {})) \o Enters(f) \in Seq(Line)
      <4>1. Append(toClient, Says("ERR", c.room, {})) \in Seq(Line)
        BY <2>6, <1>0 DEF NetType
      <4>2. Enters(f) \in Seq(Line)
        BY EntersLines
      <4> QED
        BY <4>1, <4>2, ConcatProperties
    <3> QED
      BY <3>1
  <2>8. toClient \o Enters(c.room) \in Seq(Line)
    BY <2>4, <1>0, ConcatProperties DEF NetType
  <2>9. toClient' \in Seq(Line) /\ present' \subseteq Rooms /\ wants' \subseteq Rooms
    <3>1. CASE ServerJoins(c.room)
      <4>1. toClient \in Seq(Line) /\ present \subseteq Rooms /\ wants \subseteq Rooms
        BY <1>0 DEF NetType, UIType
      <4>2. Append(toClient, Says("ERR", c.room, {})) \in Seq(Line)
        BY <4>1, <2>6, AppendProperties
      <4>3. toClient' \in Seq(Line)
        BY <3>1, <4>1, <4>2, <2>7, <2>8 DEF ServerJoins
      <4>4. present' \subseteq Rooms /\ wants' \subseteq Rooms
        BY <3>1, <4>1, <2>1 DEF ServerJoins
      <4> QED
        BY <4>3, <4>4
    <3>2. CASE ServerParts(c.room)
      BY <3>2, <2>6, <1>0 DEF ServerParts, NetType, UIType
    <3>3. CASE ServerNames(c.room)
      BY <3>3, <2>6, <1>0 DEF ServerNames, NetType, UIType
    <3> QED
      BY <2>2, <3>1, <3>2, <3>3
  <2>10. NetType'
    BY <2>9, <2>3, <2>1, <1>0 DEF NetType
  <2>11. CallsType' /\ UIType' /\ ClientType'
    BY <2>9, <2>3, <1>0 DEF client, calls, CallsType, UIType, ClientType
  <2> QED
    BY <2>10, <2>11
<1>11. CASE Others
  <2>1. UNCHANGED <<client, calls, ui>>
    BY <1>11 DEF Others, Drop, Kick, Moves
  <2>2. CallsType' /\ UIType' /\ ClientType'
    BY <2>1, <1>0 DEF client, calls, ui, CallsType, UIType, ClientType
  <2>3. CASE Drop
    <3>1. NetType'
      BY <2>3, <1>0 DEF Drop, NetType
    <3> QED
      BY <3>1, <2>2
  <2>4. ASSUME NEW r \in Rooms, Kick(r) PROVE TypeOK'
    <3>1. Says("KICK", r, {}) \in Line
      BY SaysLine
    <3>2. NetType'
      BY <2>4, <3>1, <1>0 DEF Kick, NetType
    <3> QED
      BY <3>2, <2>2
  <2>5. ASSUME NEW r \in Rooms, NEW p \in People, Moves(r, p) PROVE TypeOK'
    <3>1. Says("OUT", r, {p}) \in Line /\ Says("IN", r, {p}) \in Line
      BY SaysLine
    <3>2. toClient' \in Seq(Line)
      BY <2>5, <3>1, <1>0 DEF Moves, NetType
    <3>3. people' \in [Rooms -> SUBSET People]
      BY <2>5, <1>0 DEF Moves, NetType
    <3>4. NetType'
      BY <2>5, <3>2, <3>3, <1>0 DEF Moves, NetType
    <3> QED
      BY <3>4, <2>2
  <2> QED
    BY <1>11, <2>3, <2>4, <2>5 DEF Others
<1>12. CASE UNCHANGED vars
  <2>1. CallsType' /\ NetType' /\ UIType' /\ ClientType'
    BY <1>12, <1>0 DEF vars, client, calls, net, ui, CallsType, NetType, UIType, ClientType
  <2> QED
    BY <2>1
<1> QED
  BY <1>1, <1>2, <1>3, <1>4, <1>5, <1>6, <1>7, <1>8, <1>9, <1>10, <1>11, <1>12
     DEF Next, User, Goroutines, Callbacks

(* The calls that wait for one room have no answer yet; those of another   *)
(* room are not touched when it is answered.                               *)
LEMMA AnswerOnce ==
    ASSUME IInv, NEW Q \in SUBSET Resolves, Answer(Q),
           \A q \in Q : answers[q] = 0 /\ at[q] # "unused",
           at' = at \/ (\E i \in Calls : at' = [at EXCEPT ![i] = "ended"]),
           roomOf' = roomOf, joining' \in [Rooms -> SUBSET Resolves],
           \A r \in Rooms : joining'[r] \subseteq joining[r] /\ joining'[r] \cap Q = {}
    PROVE  AnsweredOnce' /\ NotAsked'
<1>1. /\ answers \in [Resolves -> Nat] /\ at \in [Calls -> Places] /\ Resolves \subseteq Calls
      /\ joining \in [Rooms -> SUBSET Resolves]
  BY DEF IInv, TypeOK, Calls
<1>2. \A q \in Resolves : at'[q] = at[q] \/ at'[q] = "ended"
  BY <1>1
<1>3. \A q \in Resolves : answers'[q] = IF q \in Q THEN answers[q] + 1 ELSE answers[q]
  BY DEF Answer
<1>4. NotAsked'
  BY <1>2, <1>3 DEF IInv, NotAsked
<1>5. ASSUME NEW q \in Resolves
      PROVE  /\ answers'[q] <= 1
             /\ \A r \in Rooms : q \in joining'[r] =>
                    answers'[q] = 0 /\ r = roomOf'[q] /\ at'[q] # "unused"
  <2>1. answers[q] <= 1
    BY DEF IInv, AnsweredOnce
  <2>2. answers'[q] <= 1
    BY <2>1, <1>3, <1>1
  <2>3. ASSUME NEW r \in Rooms, q \in joining'[r]
        PROVE  answers'[q] = 0 /\ r = roomOf'[q] /\ at'[q] # "unused"
    <3>1. q \in joining[r] /\ q \notin Q
      BY <2>3
    <3>2. answers[q] = 0 /\ r = roomOf[q] /\ at[q] # "unused"
      BY <3>1 DEF IInv, AnsweredOnce
    <3> QED
      BY <3>1, <3>2, <1>2, <1>3
  <2> QED
    BY <2>2, <2>3
<1>6. AnsweredOnce'
  BY <1>5 DEF AnsweredOnce
<1> QED
  BY <1>4, <1>6

(* A step that answers nobody and adds nobody to a waiting list.           *)
LEMMA AnswerNone ==
    ASSUME IInv, answers' = answers, joining' = joining, roomOf' = roomOf,
           \A q \in Resolves : at'[q] = at[q] \/ at'[q] = "ended"
    PROVE  AnsweredOnce' /\ NotAsked'
  BY DEF IInv, AnsweredOnce, NotAsked

(* A room answered as a whole, in a step that may end one call.            *)
LEMMA AnswerAllOnce ==
    ASSUME IInv, NEW r \in Rooms, AnswerAll(r), roomOf' = roomOf,
           at' = at \/ (\E i \in Calls : at' = [at EXCEPT ![i] = "ended"])
    PROVE  AnsweredOnce' /\ NotAsked'
<1>1. joining \in [Rooms -> SUBSET Resolves]
  BY DEF IInv, TypeOK
<1>2. joining[r] \in SUBSET Resolves
  BY <1>1
<1>3. \A q \in joining[r] : answers[q] = 0 /\ at[q] # "unused"
  BY <1>2 DEF IInv, AnsweredOnce
<1>4. joining' \in [Rooms -> SUBSET Resolves]
  BY <1>1 DEF AnswerAll
<1>5. \A s \in Rooms : joining'[s] \subseteq joining[s] /\ joining'[s] \cap joining[r] = {}
  <2>1. ASSUME NEW s \in Rooms, s # r PROVE joining[s] \cap joining[r] = {}
    BY <2>1, <1>1 DEF IInv, AnsweredOnce
  <2> QED
    BY <2>1, <1>1 DEF AnswerAll
<1> QED
  BY <1>2, <1>3, <1>4, <1>5, AnswerOnce DEF AnswerAll

LEMMA OnceStep == IInv /\ [Next]_vars => AnsweredOnce' /\ NotAsked'
<1> SUFFICES ASSUME IInv, [Next]_vars PROVE AnsweredOnce' /\ NotAsked'
  OBVIOUS
<1>0. /\ joining \in [Rooms -> SUBSET Resolves] /\ roomOf \in [Calls -> Rooms]
      /\ at \in [Calls -> Places] /\ answers \in [Resolves -> Nat]
      /\ Resolves \subseteq Calls /\ Leaves \subseteq Calls
      /\ Cycles \subseteq Calls /\ Asks \subseteq Calls
  BY DEF IInv, TypeOK, Calls
<1>1. ASSUME NEW q \in Resolves, Resolve(q) PROVE AnsweredOnce' /\ NotAsked'
  <2>1. answers[q] = 0 /\ at[q] = "unused"
    BY <1>1 DEF Resolve, IInv, NotAsked
  <2>2. \A r \in Rooms : q \notin joining[r]
    BY <2>1 DEF IInv, AnsweredOnce
  <2>3. roomOf' = roomOf /\ roomOf[q] \in Rooms
    BY <1>1, <1>0 DEF Resolve, Goes
  <2>4. \A p \in Resolves : p # q => at'[p] = at[p]
    BY <1>1, <1>0 DEF Resolve, Goes
  <2>5. at'[q] # "unused"
    BY <1>1, <1>0 DEF Resolve, Goes
  <2>6. CASE Answer({q}) /\ UNCHANGED joining
    <3>1. \A p \in Resolves : answers'[p] = IF p = q THEN 1 ELSE answers[p]
      BY <2>6, <2>1 DEF Answer
    <3>2. NotAsked'
      BY <3>1, <2>4, <2>5 DEF IInv, NotAsked
    <3>3. AnsweredOnce'
      BY <3>1, <2>2, <2>3, <2>4, <2>6 DEF IInv, AnsweredOnce
    <3> QED
      BY <3>2, <3>3
  <2>7. CASE joining' = [joining EXCEPT ![roomOf[q]] = @ \cup {q}] /\ UNCHANGED answers
    <3>1. NotAsked'
      BY <2>7, <2>4, <2>5 DEF IInv, NotAsked
    <3>2. ASSUME NEW p \in Resolves, NEW r \in Rooms, p \in joining'[r]
          PROVE  answers[p] = 0 /\ r = roomOf[p] /\ at'[p] # "unused"
      <4>1. CASE p = q
        <5>1. r = roomOf[q]
          BY <3>2, <4>1, <2>2, <2>7, <1>0
        <5> QED
          BY <4>1, <5>1, <2>1, <2>5
      <4>2. CASE p # q
        <5>1. p \in joining[r]
          BY <3>2, <4>2, <2>7, <1>0
        <5> QED
          BY <5>1, <4>2, <2>4 DEF IInv, AnsweredOnce
      <4> QED
        BY <4>1, <4>2
    <3>3. AnsweredOnce'
      BY <3>2, <2>3, <2>7 DEF IInv, AnsweredOnce
    <3> QED
      BY <3>1, <3>3
  <2> QED
    BY <1>1, <2>6, <2>7 DEF Resolve
<1>2. ASSUME NEW q \in Resolves, ResolveSends(q) PROVE AnsweredOnce' /\ NotAsked'
  <2>1. /\ roomOf' = roomOf /\ roomOf[q] \in Rooms
        /\ at' = [at EXCEPT ![q] = "ended"] /\ q \in Calls
    BY <1>2, <1>0 DEF ResolveSends, Goes
  <2>2. CASE AnswerAll(roomOf[q])
    BY <2>1, <2>2, AnswerAllOnce
  <2>3. CASE UNCHANGED <<joining, answers>>
    BY <2>1, <2>3, <1>0, AnswerNone
  <2> QED
    BY <1>2, <2>2, <2>3 DEF ResolveSends
<1>3. ASSUME NEW i \in Leaves \cup Cycles \cup Asks,
             \/ Leave(i) \/ PartLocks(i) \/ PartSends(i)
             \/ Cycle(i) \/ CyclePart(i) \/ CycleJoin(i)
             \/ Participants(i) \/ ParticipantsSends(i)
      PROVE  AnsweredOnce' /\ NotAsked'
  <2>1. i \notin Resolves
    BY CallsAssumption
  <2>2. /\ roomOf' = roomOf /\ joining' = joining /\ answers' = answers
        /\ \E p \in Places : at' = [at EXCEPT ![i] = p]
    BY <1>3 DEF Leave, PartLocks, PartSends, Cycle, CyclePart, CycleJoin, Participants,
                ParticipantsSends, Goes, client, ui, Places
  <2>3. \A q \in Resolves : at'[q] = at[q]
    BY <2>1, <2>2, <1>0
  <2> QED
    BY <2>2, <2>3, AnswerNone
<1>4. CASE \/ SaveConfig \/ Connected \/ (\E r \in Rooms : Rejoin(r)) \/ ServerTakes
           \/ Others \/ UNCHANGED vars
  <2>1. roomOf' = roomOf /\ at' = at /\ joining' = joining /\ answers' = answers
    BY <1>4 DEF SaveConfig, Connected, Rejoin, ServerTakes, Others, Drop, Kick, Moves,
                vars, client, calls, ui
  <2> QED
    BY <2>1, AnswerNone
<1>5. CASE ResetConn
  <2> DEFINE Q == UNION {joining[r] : r \in Rooms}
  <2>1. /\ roomOf' = roomOf /\ at' = at /\ joining' = [r \in Rooms |-> {}] /\ Answer(Q)
    BY <1>5 DEF ResetConn, calls
  <2>2. Q \in SUBSET Resolves
    BY <1>0
  <2>3. \A q \in Q : answers[q] = 0 /\ at[q] # "unused"
    BY <2>2 DEF IInv, AnsweredOnce
  <2> HIDE DEF Q
  <2>4. joining' \in [Rooms -> SUBSET Resolves]
    BY <2>1
  <2>5. \A r \in Rooms : joining'[r] = {}
    BY <2>1
  <2>6. \A r \in Rooms : joining'[r] \subseteq joining[r] /\ joining'[r] \cap Q = {}
    BY <2>5
  <2> QED
    BY <2>1, <2>2, <2>3, <2>4, <2>6, AnswerOnce
<1>6. CASE Read
  <2>1. roomOf' = roomOf /\ at' = at
    BY <1>6 DEF Read, calls
  <2>2. \/ \E r \in Rooms : AnswerAll(r)
        \/ joining' = joining /\ answers' = answers
    <3>1. Head(toClient).room \in Rooms
      BY <1>6, HeadLine DEF Read, IInv
    <3> QED
      BY <1>6, <3>1 DEF Read, OnSelfJoin, OnSelfOut, OnOtherIn, OnOtherOut, OnEndOfNames,
                        OnChannelError
  <2>3. ASSUME NEW r \in Rooms, AnswerAll(r) PROVE AnsweredOnce' /\ NotAsked'
    BY <2>1, <2>3, AnswerAllOnce
  <2>4. CASE joining' = joining /\ answers' = answers
    BY <2>1, <2>4, AnswerNone
  <2> QED
    BY <2>2, <2>3, <2>4
<1> QED
  BY <1>1, <1>2, <1>3, <1>4, <1>5, <1>6 DEF Next, User, Goroutines, Callbacks

LEMMA InitIInv == Init => IInv
<1> SUFFICES ASSUME Init PROVE IInv
  OBVIOUS
<1>1. ClientType /\ CallsType
  BY RoomsAssumption DEF Init, ClientType, CallsType, Places
<1>2. NetType
  BY DEF Init, NetType
<1>3. UIType
  BY RoomsAssumption DEF Init, UIType
<1>4. TypeOK
  BY <1>1, <1>2, <1>3 DEF TypeOK, ClientType, CallsType, NetType, UIType
<1>5. AnsweredOnce /\ NotAsked
  BY DEF Init, AnsweredOnce, NotAsked
<1> QED
  BY <1>4, <1>5 DEF IInv

LEMMA IInvStep == IInv /\ [Next]_vars => IInv'
  BY TypeStep, OnceStep DEF IInv

(* The maps of the client, the goroutines and the line keep their types,   *)
(* and a room we are not in has an empty list.                             *)
THEOREM RoomsTyped == Spec => []TypeOK
<1>1. Init => IInv
  BY InitIInv
<1>2. IInv /\ [Next]_vars => IInv'
  BY IInvStep
<1>3. IInv => TypeOK
  BY DEF IInv
<1> QED
  BY <1>1, <1>2, <1>3, PTL DEF Spec

(* Every EvChat of a Resolve is its only one: no order of the JOIN, of the *)
(* failure of another call and of the end of the connection answers twice. *)
THEOREM AnsweredOnceAlways == Spec => []AnsweredOnce
<1>1. Init => IInv
  BY InitIInv
<1>2. IInv /\ [Next]_vars => IInv'
  BY IInvStep
<1>3. IInv => AnsweredOnce
  BY DEF IInv
<1> QED
  BY <1>1, <1>2, <1>3, PTL DEF Spec

-----------------------------------------------------------------------------
(***************************************************************************)
(* Once all is quiet the rooms of the client are those of the server, with *)
(* the people in them, and the file has them (RoomsRight).                 *)
(*                                                                         *)
(* What the client has is behind what the server has by the lines that are *)
(* on their way.  Those that say where we are (Turns) and who is in a room *)
(* (Tells) are settled by the last of them, which says what the server has *)
(* now (TurnInv); when none is left, the client has it already (HeldRight),*)
(* unless a /part has dropped the room and its PART has not come yet.      *)
(***************************************************************************)

(* In the lines s, one of the kind A that none of the kind T follows is of *)
(* the kind G; and s has one of the kind T.                                *)
LastOf(s, A, T, G) ==
    \A n \in 1 .. Len(s) : s[n] \in A /\ (\A m \in n + 1 .. Len(s) : s[m] \notin T) => s[n] \in G
Has(s, T) == \E n \in 1 .. Len(s) : s[n] \in T

(* Lines that put us in a room or out of it, that say that others come or  *)
(* go, that settle whether p is in the list of r.                          *)
Turns(r) == {m \in Line : m.room = r /\ m.kind \in {"JOIN", "PART", "KICK"}}
Moving(r) == {m \in Line : m.room = r /\ m.kind \in {"IN", "OUT"}}
Tells(r, p) ==
    {m \in Line : /\ m.room = r
                  /\ m.kind \in {"JOIN", "NAMES"} \/ (m.kind \in {"IN", "OUT"} /\ p \in m.who)}

(* What each of them has to say, if it is the last: P are the rooms we are *)
(* in, W the people of r.                                                  *)
TurnsRight(r, P) == {m \in Line : m.kind = "JOIN" <=> r \in P}
MovesRight(r, P) == {m \in Line : r \in P}
TellsRight(r, p, P, W) ==
    {m \in Line : r \in P =>
        /\ m.kind # "JOIN"
        /\ m.kind = "NAMES" => (p \in m.who <=> p \in W)
        /\ m.kind = "IN" => p \in W
        /\ m.kind = "OUT" => p \notin W}

(* The lines s say the right thing of room r.                              *)
RoomTold(s, r, P, W) ==
    /\ LastOf(s, Turns(r), Turns(r), TurnsRight(r, P))
    /\ LastOf(s, Moving(r), Turns(r), MovesRight(r, P))
    /\ \A p \in People : LastOf(s, Tells(r, p), Tells(r, p), TellsRight(r, p, P, W))

TurnInv == \A r \in Rooms : RoomTold(toClient, r, present, people[r])

(* A /part dropped the room and the server has not treated its PART.       *)
Leaving(r) ==
    \/ \E i \in Leaves : at[i] = "sending" /\ roomOf[i] = r
    \/ \E n \in 1 .. Len(toServer) : toServer[n].cmd = "PART" /\ toServer[n].room = r

HeldRight(r) ==
    ~Has(toClient, Turns(r)) =>
        /\ r \in joined => r \in present
        /\ r \in present /\ ~Leaving(r) =>
            /\ r \in joined /\ r \in channels
            /\ \A p \in People : ~Has(toClient, Tells(r, p)) => (p \in members[r] <=> p \in people[r])

HeldInv == link = "up" => \A r \in Rooms : HeldRight(r)

(* Nothing is on a line that is cut; the list that waits to be written is  *)
(* the only one that may differ from the file.                             *)
LinkInv ==
    /\ link # "up" => present = {} /\ toServer = <<>> /\ toClient = <<>>
    /\ link = "down" => joined = {}
    /\ ~saving => file = channels

ListInv == LinkInv /\ TurnInv /\ HeldInv

-----------------------------------------------------------------------------
(* The last of some lines: what a line read, or a line more, changes.      *)

LEMMA TailLast ==
    ASSUME NEW s \in Seq(Line), s # <<>>, NEW A, NEW T, NEW G, LastOf(s, A, T, G)
    PROVE  LastOf(Tail(s), A, T, G)
<1>1. /\ Len(Tail(s)) = Len(s) - 1 /\ Len(s) \in Nat
      /\ \A i \in 1 .. Len(Tail(s)) : Tail(s)[i] = s[i + 1]
  BY HeadTailProperties, LenProperties
<1>2. ASSUME NEW n \in 1 .. Len(Tail(s)), Tail(s)[n] \in A,
             \A m \in n + 1 .. Len(Tail(s)) : Tail(s)[m] \notin T
      PROVE  Tail(s)[n] \in G
  <2>1. n + 1 \in 1 .. Len(s) /\ Tail(s)[n] = s[n + 1]
    BY <1>1
  <2>2. ASSUME NEW m \in n + 1 + 1 .. Len(s) PROVE s[m] \notin T
    <3>1. m - 1 \in n + 1 .. Len(Tail(s)) /\ m - 1 \in 1 .. Len(Tail(s)) /\ m - 1 + 1 = m
      BY <1>1
    <3>2. Tail(s)[m - 1] = s[m]
      BY <3>1, <1>1
    <3> QED
      BY <3>1, <3>2, <1>2
  <2> QED
    BY <2>1, <2>2, <1>2 DEF LastOf
<1> QED
  BY <1>2 DEF LastOf

LEMMA AppendLast ==
    ASSUME NEW s \in Seq(Line), NEW e \in Line, NEW A, NEW T, NEW G,
           e \in A => e \in G, e \notin T => LastOf(s, A, T, G)
    PROVE  LastOf(Append(s, e), A, T, G)
<1>1. /\ Len(Append(s, e)) = Len(s) + 1 /\ Len(s) \in Nat
      /\ \A i \in 1 .. Len(s) : Append(s, e)[i] = s[i]
      /\ Append(s, e)[Len(s) + 1] = e
  BY AppendProperties, LenProperties
<1>2. ASSUME NEW n \in 1 .. Len(s) + 1, Append(s, e)[n] \in A,
             \A m \in n + 1 .. Len(s) + 1 : Append(s, e)[m] \notin T
      PROVE  Append(s, e)[n] \in G
  <2>1. CASE n = Len(s) + 1
    BY <2>1, <1>1, <1>2
  <2>2. CASE n # Len(s) + 1
    <3>1. n \in 1 .. Len(s) /\ Len(s) + 1 \in n + 1 .. Len(s) + 1
      BY <2>2, <1>1
    <3>2. e \notin T
      BY <3>1, <1>1, <1>2
    <3>3. \A m \in n + 1 .. Len(s) : m \in 1 .. Len(s) /\ m \in n + 1 .. Len(s) + 1
      BY <1>1
    <3>4. \A m \in n + 1 .. Len(s) : s[m] \notin T
      BY <3>3, <1>1, <1>2
    <3> QED
      BY <3>1, <3>2, <3>4, <1>1, <1>2 DEF LastOf
  <2> QED
    BY <2>1, <2>2
<1> QED
  BY <1>1, <1>2 DEF LastOf

LEMMA HeadLast ==
    ASSUME NEW s \in Seq(Line), s # <<>>, NEW A, NEW T, NEW G, LastOf(s, A, T, G),
           Head(s) \in A, ~Has(Tail(s), T)
    PROVE  Head(s) \in G
<1>1. /\ Len(Tail(s)) = Len(s) - 1 /\ Len(s) \in Nat \ {0} /\ Head(s) = s[1]
      /\ \A i \in 1 .. Len(Tail(s)) : Tail(s)[i] = s[i + 1]
  BY HeadTailProperties, LenProperties, EmptySeq
<1>2. ASSUME NEW m \in 1 + 1 .. Len(s) PROVE s[m] \notin T
  <2>1. m - 1 \in 1 .. Len(Tail(s)) /\ m - 1 + 1 = m
    BY <1>1
  <2>2. Tail(s)[m - 1] = s[m]
    BY <2>1, <1>1
  <2> QED
    BY <2>1, <2>2 DEF Has
<1> QED
  BY <1>1, <1>2 DEF LastOf

LEMMA TailHas ==
    ASSUME NEW s \in Seq(Line), s # <<>>, NEW T
    PROVE  Has(s, T) <=> Head(s) \in T \/ Has(Tail(s), T)
<1>1. /\ Len(Tail(s)) = Len(s) - 1 /\ Len(s) \in Nat \ {0} /\ Head(s) = s[1]
      /\ \A i \in 1 .. Len(Tail(s)) : Tail(s)[i] = s[i + 1]
  BY HeadTailProperties, LenProperties, EmptySeq
<1>2. ASSUME NEW n \in 1 .. Len(s), s[n] \in T PROVE Head(s) \in T \/ Has(Tail(s), T)
  <2>1. CASE n = 1
    BY <2>1, <1>1, <1>2
  <2>2. CASE n # 1
    <3>1. n - 1 \in 1 .. Len(Tail(s)) /\ n - 1 + 1 = n
      BY <2>2, <1>1
    <3>2. Tail(s)[n - 1] \in T
      BY <3>1, <1>1, <1>2
    <3> QED
      BY <3>1, <3>2 DEF Has
  <2> QED
    BY <2>1, <2>2
<1>3. ASSUME NEW n \in 1 .. Len(Tail(s)), Tail(s)[n] \in T PROVE Has(s, T)
  <2>1. n + 1 \in 1 .. Len(s) /\ s[n + 1] \in T
    BY <1>1, <1>3
  <2> QED
    BY <2>1 DEF Has
<1>4. Head(s) \in T => Has(s, T)
  <2>1. 1 \in 1 .. Len(s)
    BY <1>1
  <2> QED
    BY <2>1, <1>1 DEF Has
<1> QED
  BY <1>2, <1>3, <1>4 DEF Has

LEMMA AppendHas ==
    ASSUME NEW s \in Seq(Line), NEW e \in Line, NEW T
    PROVE  Has(Append(s, e), T) <=> Has(s, T) \/ e \in T
<1>1. /\ Len(Append(s, e)) = Len(s) + 1 /\ Len(s) \in Nat
      /\ \A i \in 1 .. Len(s) : Append(s, e)[i] = s[i]
      /\ Append(s, e)[Len(s) + 1] = e
  BY AppendProperties, LenProperties
<1>2. \A n \in 1 .. Len(s) + 1 : n \in 1 .. Len(s) \/ n = Len(s) + 1
  BY <1>1
<1>3. \A n \in 1 .. Len(s) : n \in 1 .. Len(s) + 1
  BY <1>1
<1>4. Len(s) + 1 \in 1 .. Len(s) + 1
  BY <1>1
<1> QED
  BY <1>1, <1>2, <1>3, <1>4 DEF Has

(* The lines of an entry, one after the other.                             *)
LEMMA EntersOneByOne ==
    ASSUME TypeOK, NEW r \in Rooms, NEW s \in Seq(Line)
    PROVE  s \o Enters(r) = Append(Append(s, Says("JOIN", r, {})), Says("NAMES", r, people[r]))
<1>1. PICK j \in Line : j = Says("JOIN", r, {})
  BY SaysLine
<1>2. people[r] \in SUBSET People
  BY DEF TypeOK
<1>3. PICK k \in Line : k = Says("NAMES", r, people[r])
  BY <1>2, SaysLine
<1>4. s \o <<j, k>> = Append(Append(s, j), k)
  <2>1. <<j, k>> \in Seq(Line) /\ Len(<<j, k>>) = 2 /\ <<j, k>>[1] = j /\ <<j, k>>[2] = k
    OBVIOUS
  <2>2. /\ Append(s, j) \in Seq(Line) /\ Len(Append(s, j)) = Len(s) + 1 /\ Len(s) \in Nat
        /\ \A i \in 1 .. Len(s) : Append(s, j)[i] = s[i]
        /\ Append(s, j)[Len(s) + 1] = j
    BY AppendProperties, LenProperties
  <2> DEFINE t == Append(Append(s, j), k)
  <2>3. /\ t \in Seq(Line) /\ Len(t) = Len(s) + 2 /\ t[Len(s) + 2] = k
        /\ \A i \in 1 .. Len(s) + 1 : t[i] = Append(s, j)[i]
    BY <2>2, AppendProperties
  <2>4. /\ s \o <<j, k>> \in Seq(Line) /\ Len(s \o <<j, k>>) = Len(s) + 2
        /\ \A i \in 1 .. Len(s) + 2 : (s \o <<j, k>>)[i] = IF i <= Len(s) THEN s[i] ELSE <<j, k>>[i - Len(s)]
    BY <2>1, ConcatProperties
  <2>5. ASSUME NEW i \in 1 .. Len(s) + 2 PROVE (s \o <<j, k>>)[i] = t[i]
    <3>1. CASE i \in 1 .. Len(s)
      BY <3>1, <2>2, <2>3, <2>4
    <3>2. CASE i = Len(s) + 1
      BY <3>2, <2>1, <2>2, <2>3, <2>4
    <3>3. CASE i = Len(s) + 2
      BY <3>3, <2>1, <2>2, <2>3, <2>4
    <3> QED
      BY <3>1, <3>2, <3>3, <2>2
  <2> QED
    BY <2>3, <2>4, <2>5, SeqEqual
<1> QED
  BY <1>1, <1>3, <1>4 DEF Enters

-----------------------------------------------------------------------------
(* What a line more says of a room.                                        *)

(* Nothing said of who is in a room we are not in is wrong.                *)
LEMMA TellsOut ==
    ASSUME NEW s \in Seq(Line), NEW r \in Rooms, NEW P \in SUBSET Rooms, r \notin P, NEW W, NEW p \in People
    PROVE  LastOf(s, Tells(r, p), Tells(r, p), TellsRight(r, p, P, W))
<1>1. \A n \in 1 .. Len(s) : s[n] \in Line
  BY ElementOfSeq
<1> QED
  BY <1>1 DEF LastOf, TellsRight

(* A line of another room, or an error.                                    *)
LEMMA ToldOther ==
    ASSUME NEW s \in Seq(Line), NEW e \in Line, NEW r \in Rooms, NEW P \in SUBSET Rooms, NEW W,
           RoomTold(s, r, P, W), e.room # r \/ e.kind = "ERR"
    PROVE  RoomTold(Append(s, e), r, P, W)
<1>1. e \notin Turns(r) /\ e \notin Moving(r) /\ \A p \in People : e \notin Tells(r, p)
  BY DEF Turns, Moving, Tells
<1> QED
  BY <1>1, AppendLast DEF RoomTold

(* A PART or a KICK.                                                       *)
LEMMA ToldOut ==
    ASSUME NEW s \in Seq(Line), NEW r \in Rooms, NEW e \in Line, e.room = r, e.kind \in {"PART", "KICK"},
           NEW P \in SUBSET Rooms, r \notin P, NEW W
    PROVE  RoomTold(Append(s, e), r, P, W)
<1>1. e \in Turns(r) /\ e \notin Moving(r) /\ e \in TurnsRight(r, P)
  BY DEF Turns, Moving, TurnsRight
<1>2. LastOf(Append(s, e), Turns(r), Turns(r), TurnsRight(r, P))
  BY <1>1, AppendLast
<1>3. LastOf(Append(s, e), Moving(r), Turns(r), MovesRight(r, P))
  BY <1>1, AppendLast
<1>4. Append(s, e) \in Seq(Line)
  BY AppendProperties
<1>5. ASSUME NEW p \in People
      PROVE  LastOf(Append(s, e), Tells(r, p), Tells(r, p), TellsRight(r, p, P, W))
  BY <1>4, TellsOut
<1> QED
  BY <1>2, <1>3, <1>5 DEF RoomTold

(* An entry.                                                               *)
LEMMA ToldIn ==
    ASSUME NEW s \in Seq(Line), NEW r \in Rooms, NEW j \in Line, NEW k \in Line,
           j.room = r, j.kind = "JOIN", k.room = r, k.kind = "NAMES",
           NEW P \in SUBSET Rooms, r \in P
    PROVE  RoomTold(Append(Append(s, j), k), r, P, k.who)
<1>1. Append(s, j) \in Seq(Line)
  BY AppendProperties
<1>2. /\ j \in Turns(r) /\ j \in TurnsRight(r, P) /\ j \notin Moving(r)
      /\ k \notin Turns(r) /\ k \notin Moving(r)
  BY DEF Turns, TurnsRight, Moving
<1>3. LastOf(Append(s, j), Turns(r), Turns(r), TurnsRight(r, P))
  BY <1>2, AppendLast
<1>4. LastOf(Append(Append(s, j), k), Turns(r), Turns(r), TurnsRight(r, P))
  BY <1>1, <1>2, <1>3, AppendLast
<1>5. LastOf(Append(s, j), Moving(r), Turns(r), MovesRight(r, P))
  BY <1>2, AppendLast
<1>6. LastOf(Append(Append(s, j), k), Moving(r), Turns(r), MovesRight(r, P))
  BY <1>1, <1>2, <1>5, AppendLast
<1>7. ASSUME NEW p \in People
      PROVE  LastOf(Append(Append(s, j), k), Tells(r, p), Tells(r, p), TellsRight(r, p, P, k.who))
  <2>1. k \in Tells(r, p) /\ k \in TellsRight(r, p, P, k.who)
    BY DEF Tells, TellsRight
  <2> QED
    BY <1>1, <2>1, AppendLast
<1> QED
  BY <1>4, <1>6, <1>7 DEF RoomTold

(* A list.                                                                 *)
LEMMA ToldList ==
    ASSUME NEW s \in Seq(Line), NEW r \in Rooms, NEW k \in Line, k.room = r, k.kind = "NAMES",
           NEW P \in SUBSET Rooms, RoomTold(s, r, P, k.who)
    PROVE  RoomTold(Append(s, k), r, P, k.who)
<1>1. k \notin Turns(r) /\ k \notin Moving(r)
  BY DEF Turns, Moving
<1>2. ASSUME NEW p \in People
      PROVE  LastOf(Append(s, k), Tells(r, p), Tells(r, p), TellsRight(r, p, P, k.who))
  <2>1. k \in Tells(r, p) /\ k \in TellsRight(r, p, P, k.who)
    BY DEF Tells, TellsRight
  <2> QED
    BY <2>1, AppendLast
<1> QED
  BY <1>1, <1>2, AppendLast DEF RoomTold

(* Somebody who comes or goes.                                             *)
LEMMA ToldMove ==
    ASSUME NEW s \in Seq(Line), NEW r \in Rooms, NEW P \in SUBSET Rooms, r \in P, NEW q \in People,
           NEW V \in SUBSET People, NEW W \in SUBSET People,
           NEW e \in Line, e.room = r, e.who = {q},
           (e.kind = "IN" /\ W = V \cup {q}) \/ (e.kind = "OUT" /\ W = V \ {q}),
           RoomTold(s, r, P, V)
    PROVE  RoomTold(Append(s, e), r, P, W)
<1>1. e \notin Turns(r) /\ e \in MovesRight(r, P)
  BY DEF Turns, MovesRight
<1>2. ASSUME NEW p \in People
      PROVE  LastOf(Append(s, e), Tells(r, p), Tells(r, p), TellsRight(r, p, P, W))
  <2>1. CASE p = q
    <3>1. e \in Tells(r, p) /\ e \in TellsRight(r, p, P, W)
      BY <2>1 DEF Tells, TellsRight
    <3> QED
      BY <3>1, AppendLast
  <2>2. CASE p # q
    <3>1. e \notin Tells(r, p) /\ TellsRight(r, p, P, W) = TellsRight(r, p, P, V)
      BY <2>2 DEF Tells, TellsRight
    <3>2. LastOf(s, Tells(r, p), Tells(r, p), TellsRight(r, p, P, W))
      BY <3>1 DEF RoomTold
    <3> QED
      BY <3>1, <3>2, AppendLast
  <2> QED
    BY <2>1, <2>2
<1>3. /\ LastOf(Append(s, e), Turns(r), Turns(r), TurnsRight(r, P))
      /\ LastOf(Append(s, e), Moving(r), Turns(r), MovesRight(r, P))
  BY <1>1, AppendLast DEF RoomTold
<1> QED
  BY <1>2, <1>3 DEF RoomTold

(* Rooms that come and go elsewhere, and people of a room we are not in.   *)
LEMMA ToldSame ==
    ASSUME NEW s \in Seq(Line), NEW r \in Rooms, NEW P \in SUBSET Rooms, NEW Q \in SUBSET Rooms,
           r \in P <=> r \in Q, NEW V, NEW W, V = W \/ r \notin P, RoomTold(s, r, P, V)
    PROVE  RoomTold(s, r, Q, W)
<1>1. TurnsRight(r, P) = TurnsRight(r, Q) /\ MovesRight(r, P) = MovesRight(r, Q)
  BY DEF TurnsRight, MovesRight
<1>2. ASSUME NEW p \in People
      PROVE  LastOf(s, Tells(r, p), Tells(r, p), TellsRight(r, p, Q, W))
  <2>1. CASE r \notin P
    BY <2>1, TellsOut
  <2>2. CASE V = W
    <3>1. TellsRight(r, p, P, V) = TellsRight(r, p, Q, W)
      BY <2>2 DEF TellsRight
    <3> QED
      BY <3>1 DEF RoomTold
  <2> QED
    BY <2>1, <2>2
<1> QED
  BY <1>1, <1>2 DEF RoomTold

LEMMA ToldRead ==
    ASSUME NEW s \in Seq(Line), s # <<>>, NEW r \in Rooms, NEW P \in SUBSET Rooms, NEW W,
           RoomTold(s, r, P, W)
    PROVE  RoomTold(Tail(s), r, P, W)
  BY TailLast DEF RoomTold

-----------------------------------------------------------------------------
(* The steps: the connection.                                              *)

LEMMA LinkStep == TypeOK /\ LinkInv /\ [Next]_vars => LinkInv'
<1> SUFFICES ASSUME TypeOK, LinkInv, [Next]_vars PROVE LinkInv'
  OBVIOUS
<1> USE DEF LinkInv
<1>0. link \in {"up", "broken", "down"} /\ saving \in BOOLEAN
  BY DEF TypeOK
<1>1. ASSUME NEW q \in Resolves, Resolve(q) PROVE LinkInv'
  <2>1. UNCHANGED <<link, present, toServer, toClient, joined, file>>
    BY <1>1 DEF Resolve, net
  <2>2. ~saving' => ~saving /\ channels' = channels
    BY <1>1, <1>0 DEF Resolve, Remember
  <2> QED
    BY <2>1, <2>2
<1>2. ASSUME NEW q \in Resolves, ResolveSends(q) PROVE LinkInv'
  <2>1. UNCHANGED <<link, present, toClient, joined, file, saving, channels>>
    BY <1>2 DEF ResolveSends
  <2>2. link = "up" \/ toServer' = toServer
    BY <1>2 DEF ResolveSends, Sent, SendFails
  <2> QED
    BY <2>1, <2>2
<1>3. ASSUME NEW i, PartLocks(i) PROVE LinkInv'
  <2>1. UNCHANGED <<link, present, toServer, toClient, file>> /\ saving' = TRUE /\ joined' \subseteq joined
    BY <1>3 DEF PartLocks, DropRoom, net
  <2> QED
    BY <2>1
<1>4. ASSUME NEW i, \/ Leave(i) \/ PartSends(i) \/ Cycle(i) \/ CyclePart(i) \/ CycleJoin(i)
                    \/ Participants(i) \/ ParticipantsSends(i) \/ Rejoin(i)
      PROVE  LinkInv'
  <2>1. UNCHANGED <<link, present, toClient, joined, file, saving, channels>>
    BY <1>4 DEF Leave, PartSends, Cycle, CyclePart, CycleJoin, Participants, ParticipantsSends, Rejoin,
                net, client, ui
  <2>2. link = "up" \/ toServer' = toServer
    BY <1>4 DEF Leave, PartSends, Cycle, CyclePart, CycleJoin, Participants, ParticipantsSends, Rejoin,
                Sent, SendFails, net
  <2> QED
    BY <2>1, <2>2
<1>5. CASE SaveConfig \/ Connected \/ ResetConn \/ Drop
  BY <1>5, <1>0 DEF SaveConfig, Connected, ResetConn, Drop, client, net, ui, calls
<1>6. CASE Read
  <2>1. link = "up" /\ link' = "up" /\ file' = file
    BY <1>6 DEF Read
  <2>2. ~saving' => ~saving /\ channels' = channels
    BY <1>6, <1>0 DEF Read, OnSelfJoin, OnSelfOut, OnOtherIn, OnOtherOut, OnEndOfNames, OnChannelError, Remember
  <2> QED
    BY <2>1, <2>2
<1>7. CASE ServerTakes \/ \E r \in Rooms : Kick(r)
  BY <1>7 DEF ServerTakes, Kick, client, ui
<1>8. ASSUME NEW r, NEW p, Moves(r, p) PROVE LinkInv'
  BY <1>8 DEF Moves, client, ui
<1>9. CASE UNCHANGED vars
  BY <1>9 DEF vars, client, net, ui
<1> QED
  BY <1>1, <1>2, <1>3, <1>4, <1>5, <1>6, <1>7, <1>8, <1>9 DEF Next, User, Goroutines, Callbacks, Others

-----------------------------------------------------------------------------
(* The steps: what the lines say.                                          *)

LEMMA TurnStep == TypeOK /\ LinkInv /\ TurnInv /\ [Next]_vars => TurnInv'
<1> SUFFICES ASSUME TypeOK, LinkInv, TurnInv, [Next]_vars PROVE TurnInv'
  OBVIOUS
<1>0. /\ toClient \in Seq(Line) /\ present \in SUBSET Rooms
      /\ people \in [Rooms -> SUBSET People] /\ toServer \in Seq(Cmd)
  BY DEF TypeOK
<1>t. TypeOK'
  BY TypeStep
<1>p. present' \in SUBSET Rooms /\ people' \in [Rooms -> SUBSET People] /\ toClient' \in Seq(Line)
  BY <1>t DEF TypeOK
<1>1. CASE UNCHANGED <<toClient, present, people>>
  BY <1>1 DEF TurnInv
<1>2. CASE Read
  <2>1. UNCHANGED <<present, people>> /\ toClient' = Tail(toClient) /\ toClient # <<>>
    BY <1>2 DEF Read
  <2> QED
    BY <2>1, <1>0, ToldRead DEF TurnInv
<1>3. CASE ServerTakes
  <2>0. PICK r : r = Head(toServer).room
    OBVIOUS
  <2>1. r \in Rooms /\ people' = people
    BY <1>3, <2>0, HeadCmd DEF ServerTakes
  <2>2. ServerJoins(r) \/ ServerParts(r) \/ ServerNames(r)
    BY <1>3, <2>0 DEF ServerTakes
  <2>3. PICK err \in Line : err = Says("ERR", r, {})
    BY <2>1, SaysLine
  <2>4. err.kind = "ERR" /\ Append(toClient, err) \in Seq(Line)
    BY <2>3, <1>0, AppendProperties DEF Says
  (* An entry in f after the lines s, which say what is right elsewhere.   *)
  <2>5. ASSUME NEW s \in Seq(Line), \A x \in Rooms : RoomTold(s, x, present, people[x]),
               NEW f \in Rooms, toClient' = s \o Enters(f), present' = present \cup {f}
        PROVE  TurnInv'
    <3>1. people[f] \in SUBSET People
      BY <1>0
    <3>2. PICK j \in Line : j = Says("JOIN", f, {})
      BY SaysLine
    <3>3. PICK k \in Line : k = Says("NAMES", f, people[f])
      BY <3>1, SaysLine
    <3>4. toClient' = Append(Append(s, j), k)
      BY <2>5, <3>2, <3>3, EntersOneByOne
    <3>5. j.room = f /\ j.kind = "JOIN" /\ k.room = f /\ k.kind = "NAMES" /\ k.who = people[f]
      BY <3>2, <3>3 DEF Says
    <3>6. RoomTold(toClient', f, present', people[f])
      BY <3>4, <3>5, <2>5, <1>p, ToldIn
    <3>7. ASSUME NEW x \in Rooms, x # f PROVE RoomTold(toClient', x, present', people[x])
      <4>1. RoomTold(s, x, present', people[x])
        BY <2>5, <3>7, <1>0, <1>p, ToldSame
      <4>2. RoomTold(Append(s, j), x, present', people[x]) /\ Append(s, j) \in Seq(Line)
        BY <4>1, <3>5, <3>7, <1>p, ToldOther, AppendProperties
      <4> QED
        BY <4>2, <3>4, <3>5, <3>7, <1>p, ToldOther
    <3> QED
      BY <3>6, <3>7, <2>1 DEF TurnInv
  <2>6. ASSUME NEW x \in Rooms PROVE RoomTold(Append(toClient, err), x, present, people[x])
    BY <2>4, <1>0, ToldOther DEF TurnInv
  <2>7. CASE ServerJoins(r)
    <3>1. CASE UNCHANGED <<toClient, present>>
      BY <3>1, <2>1, <1>1
    <3>2. CASE present' = present \cup {r} /\ toClient' = toClient \o Enters(r)
      BY <3>2, <2>1, <2>5, <1>0 DEF TurnInv
    <3>3. CASE toClient' = Append(toClient, err) /\ present' = present
      BY <3>3, <2>6, <2>1 DEF TurnInv
    <3>4. ASSUME NEW f \in Rooms, present' = present \cup {f}, toClient' = Append(toClient, err) \o Enters(f)
          PROVE  TurnInv'
      BY <3>4, <2>4, <2>5, <2>6
    <3> QED
      BY <2>7, <2>3, <3>1, <3>2, <3>3, <3>4 DEF ServerJoins
  <2>8. CASE ServerParts(r)
    <3>1. CASE r \notin present
      <4>1. UNCHANGED <<toClient, present, people>>
        BY <2>8, <3>1, <2>1, <1>0 DEF ServerParts
      <4> QED
        BY <4>1, <1>1
    <3>2. CASE r \in present
      <4>1. PICK e \in Line : e = Says("PART", r, {})
        BY <2>1, SaysLine
      <4>2. toClient' = Append(toClient, e) /\ present' = present \ {r} /\ e.room = r /\ e.kind = "PART"
        BY <2>8, <3>2, <4>1 DEF ServerParts, Says
      <4>3. RoomTold(toClient', r, present', people[r])
        BY <4>2, <2>1, <1>0, <1>p, ToldOut
      <4>4. ASSUME NEW x \in Rooms, x # r PROVE RoomTold(toClient', x, present', people[x])
        <5>1. RoomTold(toClient, x, present', people[x])
          BY <4>2, <4>4, <1>0, <1>p, ToldSame DEF TurnInv
        <5> QED
          BY <5>1, <4>2, <4>4, <1>0, <1>p, ToldOther
      <4> QED
        BY <4>3, <4>4, <2>1 DEF TurnInv
    <3> QED
      BY <3>1, <3>2
  <2>9. CASE ServerNames(r)
    <3>1. people[r] \in SUBSET People
      BY <1>0, <2>1
    <3>2. PICK k \in Line : k = Says("NAMES", r, people[r])
      BY <3>1, <2>1, SaysLine
    <3>3. /\ toClient' = Append(toClient, k) /\ present' = present
          /\ k.room = r /\ k.kind = "NAMES" /\ k.who = people[r]
      BY <2>9, <3>2 DEF ServerNames, Says
    <3>4. RoomTold(toClient', r, present', people[r])
      BY <3>3, <2>1, <1>0, ToldList DEF TurnInv
    <3>5. ASSUME NEW x \in Rooms, x # r PROVE RoomTold(toClient', x, present', people[x])
      BY <3>3, <3>5, <1>0, ToldOther DEF TurnInv
    <3> QED
      BY <3>4, <3>5, <2>1 DEF TurnInv
  <2> QED
    BY <2>2, <2>7, <2>8, <2>9
<1>4. ASSUME NEW r \in Rooms, NEW p \in People, Moves(r, p) PROVE TurnInv'
  <2>1. /\ present' = present /\ \A x \in Rooms : x # r => people'[x] = people[x]
        /\ people'[r] = IF p \in people[r] THEN people[r] \ {p} ELSE people[r] \cup {p}
        /\ people[r] \in SUBSET People
    BY <1>4, <1>0 DEF Moves
  <2>2. CASE r \in present
    <3>1. link = "up"
      BY <2>2 DEF LinkInv
    <3>2. PICK e \in Line : e = Says(IF p \in people[r] THEN "OUT" ELSE "IN", r, {p})
      BY SaysLine
    <3>3. toClient' = Append(toClient, e) /\ e.room = r /\ e.who = {p}
          /\ e.kind = IF p \in people[r] THEN "OUT" ELSE "IN"
      BY <1>4, <2>2, <3>1, <3>2 DEF Moves, Says
    <3>4. PICK W \in SUBSET People : W = people'[r]
      BY <1>p
    <3>5. (e.kind = "IN" /\ W = people[r] \cup {p}) \/ (e.kind = "OUT" /\ W = people[r] \ {p})
      BY <2>1, <3>3, <3>4
    <3>6. RoomTold(toClient, r, present, people[r])
      BY DEF TurnInv
    <3>7. RoomTold(Append(toClient, e), r, present, W)
      BY <2>1, <2>2, <3>3, <3>5, <3>6, <1>0, ToldMove
    <3>8. ASSUME NEW x \in Rooms, x # r PROVE RoomTold(toClient', x, present', people'[x])
      BY <3>3, <3>8, <2>1, <1>0, ToldOther DEF TurnInv
    <3> QED
      BY <3>3, <3>4, <3>7, <3>8, <2>1 DEF TurnInv
  <2>3. CASE r \notin present
    <3>1. toClient' = toClient
      BY <1>4, <2>3 DEF Moves
    <3>2. ASSUME NEW x \in Rooms PROVE RoomTold(toClient', x, present', people'[x])
      <4>1. people[x] = people'[x] \/ x \notin present
        BY <2>1, <2>3
      <4>2. RoomTold(toClient, x, present, people[x])
        BY DEF TurnInv
      <4> QED
        BY <4>1, <4>2, <3>1, <2>1, <1>0, ToldSame
    <3> QED
      BY <3>2 DEF TurnInv
  <2> QED
    BY <2>2, <2>3
<1>5. ASSUME NEW r \in Rooms, Kick(r) PROVE TurnInv'
  <2>1. PICK e \in Line : e = Says("KICK", r, {})
    BY SaysLine
  <2>2. /\ toClient' = Append(toClient, e) /\ present' = present \ {r} /\ people' = people
        /\ e.room = r /\ e.kind = "KICK"
    BY <1>5, <2>1 DEF Kick, Says
  <2>3. RoomTold(toClient', r, present', people[r])
    BY <2>2, <1>0, <1>p, ToldOut
  <2>4. ASSUME NEW x \in Rooms, x # r PROVE RoomTold(toClient', x, present', people[x])
    <3>1. RoomTold(toClient, x, present', people[x])
      BY <2>2, <2>4, <1>0, <1>p, ToldSame DEF TurnInv
    <3> QED
      BY <3>1, <2>2, <2>4, <1>0, <1>p, ToldOther
  <2> QED
    BY <2>2, <2>3, <2>4 DEF TurnInv
<1>6. CASE Drop
  <2>1. toClient' = <<>> /\ Len(<<>>) = 0
    BY <1>6, EmptySeq DEF Drop
  <2> QED
    BY <2>1 DEF TurnInv, RoomTold, LastOf
<1> QED
  <2>1. CASE UNCHANGED net
    BY <2>1, <1>1 DEF net
  <2>2. ASSUME NEW i, \/ ResolveSends(i) \/ PartSends(i) \/ CyclePart(i) \/ CycleJoin(i)
                      \/ ParticipantsSends(i) \/ Rejoin(i)
        PROVE  TurnInv'
    BY <2>2, <1>1 DEF ResolveSends, PartSends, CyclePart, CycleJoin, ParticipantsSends, Rejoin
  <2>3. CASE Connected \/ ResetConn
    BY <2>3, <1>1 DEF Connected, ResetConn
  <2> QED
    BY <2>1, <2>2, <2>3, <1>2, <1>3, <1>4, <1>5, <1>6
       DEF Next, User, Goroutines, Callbacks, Others, Resolve, Leave, PartLocks, Cycle, Participants,
           SaveConfig, vars

-----------------------------------------------------------------------------
(* The steps: what the client has when no line is on its way.              *)

(* A /part under way stays so, unless the server treats its PART.          *)
LEMMA LeavingStays ==
    ASSUME TypeOK, NEW r \in Rooms, Leaving(r), roomOf' = roomOf,
           \A i \in Leaves : at[i] = "sending" => at'[i] = "sending",
           toServer' = toServer \/ \E c \in Cmd : toServer' = Append(toServer, c)
    PROVE  Leaving(r)'
<1>1. CASE \E i \in Leaves : at[i] = "sending" /\ roomOf[i] = r
  BY <1>1 DEF Leaving
<1>2. CASE \E n \in 1 .. Len(toServer) : toServer[n].cmd = "PART" /\ toServer[n].room = r
  <2>1. toServer \in Seq(Cmd)
    BY DEF TypeOK
  <2>2. ASSUME NEW c \in Cmd, toServer' = Append(toServer, c) PROVE Leaving(r)'
    <3>1. /\ Len(toServer') = Len(toServer) + 1 /\ Len(toServer) \in Nat
          /\ \A n \in 1 .. Len(toServer) : toServer'[n] = toServer[n]
      BY <2>1, <2>2, AppendProperties, LenProperties
    <3>2. \A n \in 1 .. Len(toServer) : n \in 1 .. Len(toServer')
      BY <3>1
    <3> QED
      BY <1>2, <3>1, <3>2 DEF Leaving
  <2> QED
    BY <1>2, <2>2 DEF Leaving
<1> QED
  BY <1>1, <1>2 DEF Leaving

(* What a goroutine sends, on a connection that is up.                     *)
LEMMA SentUp ==
    ASSUME TypeOK, NEW r \in Rooms, NEW c \in {"JOIN", "PART", "NAMES"}, Sent(c, r) \/ SendFails
    PROVE  toServer' = toServer \/ \E x \in Cmd : toServer' = Append(toServer, x)
<1>1. [cmd |-> c, room |-> r] \in Cmd
  BY DEF Cmd
<1> QED
  BY <1>1 DEF Sent, SendFails

(* A step that changes nothing of a room, or a list the last line settles. *)
LEMMA HeldStays ==
    ASSUME NEW r \in Rooms, HeldRight(r),
           Has(toClient, Turns(r)) => Has(toClient', Turns(r)),
           r \in present' <=> r \in present, r \in joined' <=> r \in joined,
           r \in channels => r \in channels', Leaving(r) => Leaving(r)' \/ r \notin present,
           \A p \in People :
               \/ Has(toClient', Tells(r, p))
               \/ /\ ~Has(toClient, Tells(r, p))
                  /\ p \in members'[r] <=> p \in members[r]
                  /\ p \in people'[r] <=> p \in people[r]
    PROVE  HeldRight(r)'
<1> SUFFICES ASSUME ~Has(toClient', Turns(r))
             PROVE  /\ r \in joined' => r \in present'
                    /\ r \in present' /\ ~Leaving(r)' =>
                        /\ r \in joined' /\ r \in channels'
                        /\ \A p \in People : ~Has(toClient', Tells(r, p)) =>
                               (p \in members'[r] <=> p \in people'[r])
  BY DEF HeldRight, Turns, Tells
<1>1. ~Has(toClient, Turns(r))
  OBVIOUS
<1>2. r \in joined => r \in present
  BY <1>1 DEF HeldRight
<1>3. ASSUME r \in present, ~Leaving(r)
      PROVE  /\ r \in joined /\ r \in channels
             /\ \A p \in People : ~Has(toClient, Tells(r, p)) => (p \in members[r] <=> p \in people[r])
  BY <1>1, <1>3 DEF HeldRight
<1> QED
  BY <1>2, <1>3

(* One line read.                                                          *)
LEMMA HeldRead == TypeOK /\ TurnInv /\ HeldInv /\ Read => HeldInv'
<1> SUFFICES ASSUME TypeOK, TurnInv, HeldInv, Read, NEW r \in Rooms PROVE HeldRight(r)'
  BY DEF HeldInv
<1>0. /\ toClient \in Seq(Line) /\ toClient # <<>> /\ present \in SUBSET Rooms /\ joined \in SUBSET Rooms
      /\ people \in [Rooms -> SUBSET People] /\ members \in [Rooms -> SUBSET People]
      /\ toClient' = Tail(toClient) /\ UNCHANGED <<present, people, toServer, at, roomOf>>
      /\ HeldRight(r) /\ RoomTold(toClient, r, present, people[r])
  BY DEF TypeOK, Read, calls, HeldInv, TurnInv
<1>1. PICK m \in Line : m = Head(toClient)
  BY <1>0, HeadLine
<1>2. m.room \in Rooms /\ m.who \in SUBSET People
  BY <1>1, HeadLine, <1>0
<1>3. /\ Has(toClient, Turns(r)) <=> m \in Turns(r) \/ Has(toClient', Turns(r))
      /\ \A p \in People : Has(toClient, Tells(r, p)) <=> m \in Tells(r, p) \/ Has(toClient', Tells(r, p))
  BY <1>0, <1>1, TailHas
<1>4. Leaving(r) => Leaving(r)'
  BY <1>0, LeavingStays
<1>5. \/ m.kind = "JOIN" /\ OnSelfJoin(m.room)
      \/ m.kind \in {"PART", "KICK"} /\ OnSelfOut(m.room)
      \/ m.kind = "IN" /\ OnOtherIn(m.room, m.who)
      \/ m.kind = "OUT" /\ OnOtherOut(m.room, m.who)
      \/ m.kind = "NAMES" /\ OnEndOfNames(m.room, m.who)
      \/ m.kind = "ERR" /\ OnChannelError(m.room)
  BY <1>1 DEF Read
<1>6. \/ joined' = joined \/ joined' = joined \cup {m.room} \/ joined' = joined \ {m.room}
  BY <1>5 DEF OnSelfJoin, OnSelfOut, OnOtherIn, OnOtherOut, OnEndOfNames, OnChannelError,
              AddMember, DropMember, DropRoom
<1>7. /\ channels \subseteq channels'
      /\ \A x \in Rooms : x # m.room => members'[x] = members[x]
  BY <1>0, <1>2, <1>5 DEF OnSelfJoin, OnSelfOut, OnOtherIn, OnOtherOut, OnEndOfNames, OnChannelError,
              AddMember, DropMember, DropRoom, Remember
(* What the head says is right if it is the last to say it.                *)
<1>8. m \in Turns(r) /\ ~Has(toClient', Turns(r)) => m \in TurnsRight(r, present)
  BY <1>0, <1>1, HeadLast DEF RoomTold
<1>9. m \in Moving(r) /\ ~Has(toClient', Turns(r)) => m \in MovesRight(r, present)
  BY <1>0, <1>1, HeadLast DEF RoomTold
<1>10. \A p \in People : m \in Tells(r, p) /\ ~Has(toClient', Tells(r, p)) => m \in TellsRight(r, p, present, people[r])
  BY <1>0, <1>1, HeadLast DEF RoomTold
<1>11. CASE m.room # r \/ m.kind = "ERR"
  <2>1. m \notin Turns(r) /\ \A p \in People : m \notin Tells(r, p)
    BY <1>11 DEF Turns, Tells
  <2>2. (r \in joined' <=> r \in joined) /\ members'[r] = members[r]
    <3>1. CASE m.room # r
      BY <3>1, <1>6, <1>7
    <3>2. CASE m.kind = "ERR"
      BY <3>2, <1>5 DEF OnChannelError
    <3> QED
      BY <1>11, <3>1, <3>2
  <2>3. r \in channels => r \in channels'
    BY <1>7
  <2> QED
    BY <2>1, <2>2, <2>3, <1>0, <1>3, <1>4, HeldStays
<1>12. CASE m.room = r /\ m.kind = "JOIN"
  <2>1. m \in Turns(r) /\ r \in joined' /\ r \in channels'
    BY <1>12, <1>5, <1>2 DEF Turns, OnSelfJoin, Remember
  <2>2. ~Has(toClient', Turns(r)) => r \in present
    BY <2>1, <1>8, <1>12 DEF TurnsRight
  <2>3. r \in present => \A p \in People : Has(toClient', Tells(r, p))
    BY <1>10, <1>12 DEF Tells, TellsRight
  <2> QED
    BY <2>1, <2>2, <2>3, <1>0 DEF HeldRight, Turns, Tells
<1>13. CASE m.room = r /\ m.kind \in {"PART", "KICK"}
  <2>1. m \in Turns(r) /\ r \notin joined'
    BY <1>13, <1>5 DEF Turns, OnSelfOut, DropRoom
  <2>2. ~Has(toClient', Turns(r)) => r \notin present
    BY <2>1, <1>8, <1>13 DEF TurnsRight
  <2> QED
    BY <2>1, <2>2, <1>0 DEF HeldRight, Turns
<1>14. CASE m.room = r /\ m.kind \in {"IN", "OUT", "NAMES"}
  <2>1. m \notin Turns(r)
    BY <1>14 DEF Turns
  <2>2. /\ r \in joined => r \in joined'
        /\ r \in joined' /\ m.kind # "IN" => r \in joined
    BY <1>5, <1>14 DEF OnOtherIn, OnOtherOut, OnEndOfNames, AddMember, DropMember
  <2>3. m.kind = "IN" /\ ~Has(toClient', Turns(r)) => r \in present
    BY <1>9, <1>14 DEF Moving, MovesRight
  <2> SUFFICES ASSUME ~Has(toClient', Turns(r))
               PROVE  /\ r \in joined' => r \in present
                      /\ r \in present /\ ~Leaving(r)' =>
                          /\ r \in joined' /\ r \in channels'
                          /\ \A p \in People : ~Has(toClient', Tells(r, p)) =>
                                 (p \in members'[r] <=> p \in people[r])
    BY <1>0 DEF HeldRight, Turns, Tells
  <2>4. ~Has(toClient, Turns(r))
    BY <1>3, <2>1
  <2>5. r \in joined' => r \in present
    BY <2>2, <2>3, <2>4, <1>0 DEF HeldRight
  <2>6. ASSUME r \in present, ~Leaving(r)'
        PROVE  /\ r \in joined' /\ r \in channels'
               /\ \A p \in People : ~Has(toClient', Tells(r, p)) => (p \in members'[r] <=> p \in people[r])
    <3>1. r \in joined /\ r \in channels
      BY <2>4, <2>6, <1>0, <1>4 DEF HeldRight
    <3>2. \A p \in People : ~Has(toClient, Tells(r, p)) => (p \in members[r] <=> p \in people[r])
      BY <2>4, <2>6, <1>0, <1>4 DEF HeldRight
    <3>3. ASSUME NEW p \in People, ~Has(toClient', Tells(r, p)) PROVE p \in members'[r] <=> p \in people[r]
      <4>1. CASE m \in Tells(r, p)
        <5>1. m \in TellsRight(r, p, present, people[r])
          BY <4>1, <3>3, <1>10
        <5>2. /\ m.kind = "NAMES" => (p \in m.who <=> p \in people[r])
              /\ m.kind = "IN" => p \in people[r] /\ p \in m.who
              /\ m.kind = "OUT" => p \notin people[r] /\ p \in m.who
          BY <4>1, <5>1, <2>6 DEF TellsRight, Tells
        <5>3. /\ m.kind = "NAMES" => members'[r] = m.who
              /\ m.kind = "IN" => members'[r] = members[r] \cup m.who
              /\ m.kind = "OUT" => members'[r] = members[r] \ m.who
          BY <1>0, <1>5, <1>14, <3>1 DEF OnOtherIn, OnOtherOut, OnEndOfNames, AddMember, DropMember
        <5> QED
          BY <5>2, <5>3, <1>14
      <4>2. CASE m \notin Tells(r, p)
        <5>1. ~Has(toClient, Tells(r, p)) /\ p \notin m.who /\ m.kind # "NAMES"
          BY <4>2, <3>3, <1>3, <1>14 DEF Tells
        <5>2. p \in members'[r] <=> p \in members[r]
          BY <5>1, <1>0, <1>5, <1>14 DEF OnOtherIn, OnOtherOut, AddMember, DropMember
        <5> QED
          BY <5>1, <5>2, <3>2
      <4> QED
        BY <4>1, <4>2
    <3> QED
      BY <3>1, <3>3, <2>2, <1>7
  <2> QED
    BY <2>5, <2>6
<1> QED
  BY <1>11, <1>12, <1>13, <1>14, <1>5

(* One command treated by the server.                                      *)
LEMMA HeldTakes == TypeOK /\ HeldInv /\ ServerTakes => HeldInv'
<1> SUFFICES ASSUME TypeOK, HeldInv, ServerTakes PROVE HeldInv'
  OBVIOUS
<1>0. /\ toClient \in Seq(Line) /\ present \in SUBSET Rooms /\ people \in [Rooms -> SUBSET People]
      /\ toServer \in Seq(Cmd) /\ toServer # <<>> /\ toServer' = Tail(toServer)
      /\ UNCHANGED <<joined, members, channels, people, at, roomOf>>
      /\ \A x \in Rooms : HeldRight(x)
  BY DEF TypeOK, ServerTakes, client, calls, HeldInv
<1>1. PICK r : r = Head(toServer).room
  OBVIOUS
<1>2. r \in Rooms /\ people[r] \in SUBSET People
  BY <1>0, <1>1, HeadCmd
<1>3. \/ Head(toServer).cmd = "PART" /\ ServerParts(r)
      \/ Head(toServer).cmd # "PART" /\ (ServerJoins(r) \/ ServerNames(r))
  BY <1>1 DEF ServerTakes
<1>4. PICK err \in Line, out \in Line, list \in Line :
          /\ err = Says("ERR", r, {}) /\ out = Says("PART", r, {}) /\ list = Says("NAMES", r, people[r])
  <2>1. Says("ERR", r, {}) \in Line /\ Says("PART", r, {}) \in Line /\ Says("NAMES", r, people[r]) \in Line
    BY <1>2, SaysLine
  <2> QED
    BY <2>1
<1>5. out \in Turns(r) /\ Append(toClient, err) \in Seq(Line)
  BY <1>0, <1>4, AppendProperties DEF Turns, Says
(* The lines only grow, and say it when we come in a room or out of one.   *)
<1>6. ASSUME NEW s \in Seq(Line), NEW f \in Rooms, NEW T
      PROVE  (Has(s, T) => Has(s \o Enters(f), T)) /\ Has(s \o Enters(f), Turns(f))
  <2>1. people[f] \in SUBSET People
    BY <1>0
  <2>2. PICK j \in Line, k \in Line : j = Says("JOIN", f, {}) /\ k = Says("NAMES", f, people[f])
    <3>1. Says("JOIN", f, {}) \in Line /\ Says("NAMES", f, people[f]) \in Line
      BY <2>1, SaysLine
    <3> QED
      BY <3>1
  <2>3. s \o Enters(f) = Append(Append(s, j), k) /\ Append(s, j) \in Seq(Line)
    BY <2>2, EntersOneByOne, AppendProperties
  <2>4. j \in Turns(f)
    BY <2>2 DEF Says, Turns
  <2>5. \A U : Has(Append(s, j), U) <=> Has(s, U) \/ j \in U
    BY AppendHas
  <2>6. \A U : Has(Append(Append(s, j), k), U) <=> Has(Append(s, j), U) \/ k \in U
    BY <2>3, AppendHas
  <2> QED
    BY <2>3, <2>4, <2>5, <2>6
<1>7. ASSUME NEW T, Has(toClient, T) PROVE Has(toClient', T)
  <2>1. \A e \in Line : Has(Append(toClient, e), T)
    BY <1>7, <1>0, AppendHas
  <2>2. \A f \in Rooms : Has(toClient \o Enters(f), T)
    BY <1>7, <1>0, <1>6
  <2>3. \A f \in Rooms : Has(Append(toClient, err) \o Enters(f), T)
    BY <2>1, <1>5, <1>6
  <2>4. CASE ServerJoins(r)
    BY <2>4, <2>1, <2>2, <2>3, <1>7, <1>2, <1>4 DEF ServerJoins
  <2>5. CASE ServerParts(r)
    BY <2>5, <2>1, <1>7, <1>4 DEF ServerParts
  <2>6. CASE ServerNames(r)
    BY <2>6, <2>1, <1>4 DEF ServerNames
  <2> QED
    BY <1>3, <2>4, <2>5, <2>6
<1>8. ASSUME NEW x \in Rooms, ~(x \in present' <=> x \in present) PROVE Has(toClient', Turns(x))
  <2>1. CASE ServerParts(r)
    <3>1. x = r /\ r \in present /\ toClient' = Append(toClient, out)
      BY <1>8, <2>1, <1>4 DEF ServerParts
    <3> QED
      BY <3>1, <1>0, <1>5, AppendHas
  <2>2. CASE ServerJoins(r)
    <3>1. CASE present' = present \cup {r} /\ toClient' = toClient \o Enters(r)
      <4>1. x = r
        BY <3>1, <1>8
      <4> QED
        BY <4>1, <3>1, <1>0, <1>2, <1>6
    <3>2. ASSUME NEW f \in Rooms, present' = present \cup {f}, toClient' = Append(toClient, err) \o Enters(f)
          PROVE  Has(toClient', Turns(x))
      <4>1. x = f
        BY <3>2, <1>8
      <4> QED
        BY <4>1, <3>2, <1>5, <1>6
    <3> QED
      BY <1>8, <2>2, <3>1, <3>2, <1>4 DEF ServerJoins
  <2>3. CASE ServerNames(r)
    BY <1>8, <2>3 DEF ServerNames
  <2> QED
    BY <1>3, <2>1, <2>2, <2>3
<1>9. ASSUME NEW x \in Rooms, Leaving(x), ~(Head(toServer).cmd = "PART" /\ r = x) PROVE Leaving(x)'
  <2>1. /\ Len(Tail(toServer)) = Len(toServer) - 1 /\ Len(toServer) \in Nat \ {0} /\ Head(toServer) = toServer[1]
        /\ \A i \in 1 .. Len(Tail(toServer)) : Tail(toServer)[i] = toServer[i + 1]
    BY <1>0, HeadTailProperties, LenProperties, EmptySeq
  <2>2. ASSUME NEW n \in 1 .. Len(toServer), toServer[n].cmd = "PART", toServer[n].room = x PROVE Leaving(x)'
    <3>1. n # 1
      BY <2>2, <2>1, <1>9, <1>1
    <3>2. n - 1 \in 1 .. Len(toServer') /\ n - 1 + 1 = n
      BY <3>1, <2>1, <1>0
    <3>3. toServer'[n - 1] = toServer[n]
      BY <3>2, <2>1, <1>0
    <3> QED
      BY <3>2, <3>3, <2>2 DEF Leaving
  <2> QED
    BY <2>2, <1>9, <1>0 DEF Leaving
<1>10. ASSUME NEW x \in Rooms PROVE HeldRight(x)'
  <2>1. CASE Has(toClient', Turns(x))
    BY <2>1 DEF HeldRight, Turns
  <2>2. CASE ~Has(toClient', Turns(x))
    <3>1. x \in present' <=> x \in present
      BY <2>2, <1>8
    <3>2. Leaving(x) => Leaving(x)' \/ x \notin present
      <4>1. CASE Head(toServer).cmd = "PART" /\ r = x
        <5>1. x \notin present'
          BY <4>1, <1>3 DEF ServerParts
        <5> QED
          BY <5>1, <3>1
      <4> QED
        BY <4>1, <1>9
    <3>3. Has(toClient, Turns(x)) => Has(toClient', Turns(x))
      BY <1>7
    <3>4. \A p \in People : Has(toClient, Tells(x, p)) => Has(toClient', Tells(x, p))
      BY <1>7
    <3> QED
      BY <3>1, <3>2, <3>3, <3>4, <1>0, HeldStays
  <2> QED
    BY <2>1, <2>2
<1> QED
  BY <1>10 DEF HeldInv

LEMMA HeldStep == TypeOK /\ LinkInv /\ TurnInv /\ HeldInv /\ [Next]_vars => HeldInv'
<1> SUFFICES ASSUME TypeOK, LinkInv, TurnInv, HeldInv, [Next]_vars PROVE HeldInv'
  OBVIOUS
<1>0. /\ toClient \in Seq(Line) /\ present \in SUBSET Rooms /\ joined \in SUBSET Rooms
      /\ people \in [Rooms -> SUBSET People] /\ members \in [Rooms -> SUBSET People]
      /\ at \in [Calls -> Places] /\ roomOf \in [Calls -> Rooms] /\ toServer \in Seq(Cmd)
      /\ Resolves \subseteq Calls /\ Leaves \subseteq Calls /\ Cycles \subseteq Calls /\ Asks \subseteq Calls
      /\ Leaves \cap Resolves = {} /\ Leaves \cap Cycles = {} /\ Leaves \cap Asks = {}
  BY CallsAssumption DEF TypeOK, Calls
(* A step of a goroutine or of the UI that leaves the lists alone.         *)
<1>1. ASSUME UNCHANGED <<link, toClient, present, people, joined, members, roomOf>>, channels \subseteq channels',
             \A i \in Leaves : at[i] = "sending" => at'[i] = "sending",
             toServer' = toServer \/ \E c \in Cmd : toServer' = Append(toServer, c)
      PROVE  HeldInv'
  <2>1. ASSUME NEW r \in Rooms, HeldRight(r) PROVE HeldRight(r)'
    <3>1. Leaving(r) => Leaving(r)'
      BY <1>1, LeavingStays
    <3> QED
      BY <2>1, <3>1, <1>1, HeldStays
  <2> QED
    BY <2>1, <1>1 DEF HeldInv
<1>2. ASSUME NEW q \in Resolves, Resolve(q) \/ ResolveSends(q) PROVE HeldInv'
  <2>1. UNCHANGED <<link, toClient, present, people, joined, members, roomOf>> /\ channels \subseteq channels'
    BY <1>2 DEF Resolve, ResolveSends, Remember, Goes, net
  <2>2. \A i \in Leaves : at'[i] = at[i]
    BY <1>2, <1>0 DEF Resolve, ResolveSends, Goes
  <2>3. roomOf[q] \in Rooms
    BY <1>0
  <2>4. toServer' = toServer \/ \E c \in Cmd : toServer' = Append(toServer, c)
    BY <1>2, <2>3, SentUp DEF Resolve, ResolveSends, net
  <2> QED
    BY <2>1, <2>2, <2>4, <1>1
<1>3. ASSUME NEW i \in Cycles \cup Asks,
             Cycle(i) \/ CyclePart(i) \/ CycleJoin(i) \/ Participants(i) \/ ParticipantsSends(i)
      PROVE  HeldInv'
  <2>1. UNCHANGED <<link, toClient, present, people, joined, members, roomOf, channels>>
    BY <1>3 DEF Cycle, CyclePart, CycleJoin, Participants, ParticipantsSends, Goes, net, client
  <2>2. \A j \in Leaves : at'[j] = at[j]
    BY <1>3, <1>0 DEF Cycle, CyclePart, CycleJoin, Participants, ParticipantsSends, Goes
  <2>3. roomOf[i] \in Rooms
    BY <1>0
  <2>4. toServer' = toServer \/ \E c \in Cmd : toServer' = Append(toServer, c)
    BY <1>3, <2>3, SentUp DEF Cycle, CyclePart, CycleJoin, Participants, ParticipantsSends, net
  <2> QED
    BY <2>1, <2>2, <2>4, <1>1
<1>4. ASSUME NEW i \in Leaves, Leave(i) PROVE HeldInv'
  <2>1. /\ UNCHANGED <<link, toClient, toServer, present, people, joined, members, roomOf, channels>>
        /\ at[i] = "unused" /\ at' = [at EXCEPT ![i] = "called"]
    BY <1>4 DEF Leave, Goes, net, client
  <2>2. \A j \in Leaves : at[j] = "sending" => at'[j] = "sending"
    BY <2>1, <1>0
  <2> QED
    BY <2>1, <2>2, <1>1
<1>5. ASSUME NEW i \in Leaves, PartLocks(i) PROVE HeldInv'
  <2>1. /\ UNCHANGED <<link, toClient, toServer, present, people, roomOf>>
        /\ at[i] = "called" /\ at' = [at EXCEPT ![i] = "sending"]
        /\ channels' = channels \ {roomOf[i]} /\ joined' = joined \ {roomOf[i]}
        /\ members' = [members EXCEPT ![roomOf[i]] = {}]
    BY <1>5 DEF PartLocks, DropRoom, Goes, net
  <2>2. at'[i] = "sending" /\ \A j \in Leaves : at[j] = "sending" => at'[j] = "sending"
    BY <2>1, <1>0
  <2>3. Leaving(roomOf[i])' /\ roomOf[i] \notin joined'
    BY <2>1, <2>2 DEF Leaving
  <2>4. HeldRight(roomOf[i])'
    BY <2>1, <2>3 DEF HeldRight
  <2>5. ASSUME NEW r \in Rooms, r # roomOf[i], HeldRight(r) PROVE HeldRight(r)'
    <3>1. Leaving(r) => Leaving(r)'
      BY <2>1, <2>2, LeavingStays
    <3>2. (r \in joined' <=> r \in joined) /\ (r \in channels => r \in channels') /\ members'[r] = members[r]
      BY <2>1, <2>5, <1>0
    <3> QED
      BY <2>1, <2>5, <3>1, <3>2, HeldStays
  <2>6. ASSUME NEW r \in Rooms, HeldRight(r) PROVE HeldRight(r)'
    BY <2>1, <2>4, <2>5, <2>6
  <2> QED
    BY <2>1, <2>6 DEF HeldInv
<1>6. ASSUME NEW i \in Leaves, PartSends(i) PROVE HeldInv'
  <2>1. /\ UNCHANGED <<link, toClient, present, people, joined, members, roomOf, channels>>
        /\ at' = [at EXCEPT ![i] = "ended"] /\ roomOf[i] \in Rooms
        /\ Sent("PART", roomOf[i]) \/ SendFails
    BY <1>6, <1>0 DEF PartSends, Goes, client
  <2>2. CASE link # "up"
    BY <2>1, <2>2 DEF HeldInv
  <2>3. CASE link = "up"
    <3>1. PICK c \in Cmd : c = [cmd |-> "PART", room |-> roomOf[i]]
      BY <2>1 DEF Cmd
    <3>2. toServer' = Append(toServer, c) /\ c.cmd = "PART" /\ c.room = roomOf[i]
      BY <2>1, <2>3, <3>1 DEF Sent, SendFails
    <3>3. /\ Len(toServer') = Len(toServer) + 1 /\ toServer'[Len(toServer) + 1] = c
          /\ Len(toServer) \in Nat /\ \A n \in 1 .. Len(toServer) : toServer'[n] = toServer[n]
      BY <3>2, <1>0, AppendProperties, LenProperties
    <3>4. Leaving(roomOf[i])'
      <4>1. Len(toServer) + 1 \in 1 .. Len(toServer') /\ roomOf' = roomOf
        BY <3>3, <2>1
      <4> QED
        BY <4>1, <3>2, <3>3 DEF Leaving
    <3>5. ASSUME NEW r \in Rooms, Leaving(r) PROVE Leaving(r)'
      <4>1. CASE r = roomOf[i]
        BY <4>1, <3>4, <2>1
      <4>2. CASE r # roomOf[i]
        <5>1. ASSUME NEW n \in 1 .. Len(toServer), toServer[n].cmd = "PART", toServer[n].room = r
              PROVE  Leaving(r)'
          <6>1. n \in 1 .. Len(toServer') /\ toServer'[n] = toServer[n]
            BY <3>3
          <6> QED
            BY <6>1, <5>1 DEF Leaving
        <5>2. ASSUME NEW j \in Leaves, at[j] = "sending", roomOf[j] = r PROVE Leaving(r)'
          <6>1. at'[j] = "sending" /\ roomOf'[j] = r
            BY <5>2, <4>2, <2>1, <1>0
          <6> QED
            BY <6>1 DEF Leaving
        <5> QED
          BY <3>5, <5>1, <5>2 DEF Leaving
      <4> QED
        BY <4>1, <4>2
    <3>6. ASSUME NEW r \in Rooms, HeldRight(r) PROVE HeldRight(r)'
      BY <3>6, <3>5, <2>1, HeldStays
    <3> QED
      BY <3>6, <2>3 DEF HeldInv
  <2> QED
    BY <2>2, <2>3
<1>7. CASE SaveConfig \/ UNCHANGED vars
  <2>1. /\ UNCHANGED <<link, toClient, toServer, present, people, joined, members, roomOf, channels, at>>
    BY <1>7 DEF SaveConfig, vars, client, calls, net
  <2> QED
    BY <2>1, <1>1
<1>8. ASSUME NEW r \in Rooms, Rejoin(r) PROVE HeldInv'
  <2>1. UNCHANGED <<link, toClient, present, people, joined, members, roomOf, channels, at>>
    BY <1>8 DEF Rejoin, client
  <2>2. toServer' = toServer \/ \E c \in Cmd : toServer' = Append(toServer, c)
    BY <1>8, SentUp DEF Rejoin
  <2> QED
    BY <2>1, <2>2, <1>1
<1>9. CASE Connected
  <2>1. joined' = {} /\ present' = {}
    BY <1>9 DEF Connected, client, LinkInv
  <2> QED
    BY <2>1 DEF HeldInv, HeldRight
<1>10. CASE ResetConn \/ Drop
  BY <1>10 DEF ResetConn, Drop, HeldInv
<1>11. CASE Read
  BY <1>11, HeldRead
<1>12. CASE ServerTakes
  BY <1>12, HeldTakes
<1>13. ASSUME NEW r \in Rooms, Kick(r) PROVE HeldInv'
  <2>1. /\ UNCHANGED <<link, toServer, people, joined, members, roomOf, channels, at>>
        /\ present' = present \ {r}
    BY <1>13 DEF Kick, client, calls
  <2>2. PICK e \in Line : e = Says("KICK", r, {})
    BY SaysLine
  <2>3. toClient' = Append(toClient, e) /\ e \in Turns(r)
    BY <1>13, <2>2 DEF Kick, Says, Turns
  <2>4. Has(toClient', Turns(r))
    BY <2>3, <1>0, AppendHas
  <2>5. HeldRight(r)'
    BY <2>4 DEF HeldRight, Turns
  <2>6. ASSUME NEW x \in Rooms, x # r, HeldRight(x) PROVE HeldRight(x)'
    <3>1. Leaving(x) => Leaving(x)'
      BY <2>1, LeavingStays
    <3>2. /\ Has(toClient, Turns(x)) => Has(toClient', Turns(x))
          /\ \A p \in People : Has(toClient, Tells(x, p)) => Has(toClient', Tells(x, p))
      BY <2>3, <1>0, AppendHas
    <3> QED
      BY <2>1, <2>6, <3>1, <3>2, HeldStays
  <2> QED
    BY <2>1, <2>5, <2>6 DEF HeldInv
<1>14. ASSUME NEW r \in Rooms, NEW p \in People, Moves(r, p) PROVE HeldInv'
  <2>1. /\ UNCHANGED <<link, toServer, present, joined, members, roomOf, channels, at>>
        /\ \A x \in Rooms : \A y \in People : x # r \/ y # p => (y \in people'[x] <=> y \in people[x])
    BY <1>14, <1>0 DEF Moves, client, calls
  <2>2. \A x \in Rooms : Leaving(x) => Leaving(x)'
    BY <2>1, LeavingStays
  <2> SUFFICES ASSUME link = "up", NEW x \in Rooms, HeldRight(x) PROVE HeldRight(x)'
    BY <2>1 DEF HeldInv
  <2>3. CASE r \in present
    <3>1. PICK e \in Line : e = Says(IF p \in people[r] THEN "OUT" ELSE "IN", r, {p})
      BY SaysLine
    <3>2. toClient' = Append(toClient, e) /\ e \in Tells(r, p)
      BY <1>14, <2>3, <3>1 DEF Moves, Says, Tells
    <3>3. /\ Has(toClient, Turns(x)) => Has(toClient', Turns(x))
          /\ \A y \in People : Has(toClient, Tells(x, y)) => Has(toClient', Tells(x, y))
          /\ Has(toClient', Tells(r, p))
      BY <3>2, <1>0, AppendHas
    <3> QED
      BY <2>1, <2>2, <3>3, HeldStays
  <2>4. CASE r \notin present
    <3>1. toClient' = toClient
      BY <1>14, <2>4 DEF Moves
    <3>2. CASE x = r
      BY <3>1, <3>2, <2>1, <2>4 DEF HeldRight, Turns
    <3>3. CASE x # r
      BY <3>1, <3>3, <2>1, <2>2, HeldStays
    <3> QED
      BY <3>2, <3>3
  <2> QED
    BY <2>3, <2>4
<1> QED
  BY <1>2, <1>3, <1>4, <1>5, <1>6, <1>7, <1>8, <1>9, <1>10, <1>11, <1>12, <1>13, <1>14
     DEF Next, User, Goroutines, Callbacks, Others

-----------------------------------------------------------------------------
LEMMA InitListInv == Init => ListInv
<1> SUFFICES ASSUME Init PROVE ListInv
  OBVIOUS
<1>1. LinkInv /\ HeldInv
  BY DEF Init, LinkInv, HeldInv
<1>2. TurnInv
  BY EmptySeq DEF Init, TurnInv, RoomTold, LastOf
<1> QED
  BY <1>1, <1>2 DEF ListInv

LEMMA ListInvStep == TypeOK /\ ListInv /\ [Next]_vars => ListInv'
  BY LinkStep, TurnStep, HeldStep DEF ListInv

LEMMA ListInvRight == TypeOK /\ ListInv => MembersRight /\ RoomsSaved
<1> SUFFICES ASSUME TypeOK, ListInv, Settled
             PROVE  /\ joined = present /\ \A r \in Rooms : r \in present => members[r] = people[r]
                    /\ ~saving => present \subseteq file
  BY DEF MembersRight, RoomsSaved
<1>1. /\ present \subseteq Rooms /\ joined \subseteq Rooms
      /\ members \in [Rooms -> SUBSET People] /\ people \in [Rooms -> SUBSET People]
  BY DEF TypeOK
<1>2. Len(toClient) = 0 /\ Len(toServer) = 0 /\ Leaves \subseteq Calls
  BY EmptySeq DEF Settled, Calls
<1>3. \A r \in Rooms : ~Has(toClient, Turns(r)) /\ \A p \in People : ~Has(toClient, Tells(r, p))
  BY <1>2 DEF Has
<1>4. \A r \in Rooms : ~Leaving(r)
  BY <1>2 DEF Leaving, Settled
<1>5. \A r \in Rooms : HeldRight(r)
  BY DEF ListInv, HeldInv, Settled
<1>6. \A r \in Rooms : /\ r \in joined <=> r \in present
                       /\ r \in present => r \in channels
                       /\ r \in present => \A p \in People : p \in members[r] <=> p \in people[r]
  BY <1>3, <1>4, <1>5 DEF HeldRight
<1>7. ~saving => file = channels
  BY DEF ListInv, LinkInv
<1> QED
  BY <1>1, <1>6, <1>7

(* However the locked sections, the writes, the callbacks, the server and  *)
(* the cuts follow each other, once all is quiet c.members holds the rooms *)
(* the server has us in, each with its people, the configuration has them, *)
(* and no Resolve was answered twice.                                      *)
THEOREM RoomsRightAlways == Spec => []RoomsRight
<1>1. Init => IInv /\ ListInv
  BY InitIInv, InitListInv
<1>2. IInv /\ ListInv /\ [Next]_vars => (IInv /\ ListInv)'
  BY IInvStep, ListInvStep DEF IInv
<1>3. IInv /\ ListInv => RoomsRight
  BY ListInvRight DEF IInv, RoomsRight
<1> QED
  BY <1>1, <1>2, <1>3, PTL DEF Spec
=============================================================================
