--------------------------- MODULE GameServerProofs ---------------------------
(***************************************************************************)
(* Proofs about the game server, for any number of sessions, players,      *)
(* chats and requests to enter: everybody in the room sees the chats in    *)
(* one order, and a chat reaches whom it should, once for each player.     *)
(***************************************************************************)
EXTENDS GameServer, FiniteSetTheorems, TLAPS

Queue   == waiting[GRoom]
Running == running[GRoom]
Packets == Chats \cup {"S_LOGIN", "S_ENTER_GAME"}
Players == Sessions \X Nat

EnterJob(x) == <<x, "enter">>
ChatJob(m) == <<m, "chat">>

GameTyped ==
    /\ socket \in [Sessions -> {"unused", "connected", "closed"}]
    /\ players \in [Sessions -> Nat]
    /\ entrant \in [Enters -> Players \cup {None}]
    /\ wire \in [Sessions -> Seq(Packets)]
    /\ waiting \in [{GRoom} -> Seq(Jobs)]
    /\ running \in [{GRoom} -> Jobs \cup {None}]
    /\ accepted \subseteq Jobs
    /\ audience \in [Chats -> SUBSET Players]
    /\ \A m \in Chats : IsFiniteSet(audience[m])
    /\ cast \subseteq room
    /\ room \subseteq Players

\* A job of the room is in one place.
JobsOnce ==
    /\ Running # None => Running \in accepted
    /\ \A i \in DOMAIN Queue :
          /\ Queue[i] \in accepted /\ Queue[i] # Running
          /\ \A k \in DOMAIN Queue : Queue[i] = Queue[k] => i = k

\* Whoever asked to enter is a player of a session that had a client, and those in the
\* room are those who have entered.
RoomOfEntered ==
    /\ \A x \in Enters : EnterJob(x) \in accepted =>
          entrant[x] \in Players /\ socket[entrant[x][1]] # "unused"
    /\ \A p \in Players : p \in room <=> \E x \in Enters : Ended(EnterJob(x)) /\ entrant[x] = p

\* A chat on a wire has been begun; while its broadcast runs it is behind the others.
WiresFollow ==
    /\ \A s \in Sessions : \A i \in ChatsAt(s) :
          /\ ChatJob(wire[s][i]) \in accepted
          /\ \A k \in DOMAIN Queue : Queue[k] # ChatJob(wire[s][i])
          /\ Running = ChatJob(wire[s][i]) =>
               \A k \in ChatsAt(s) : wire[s][k] = wire[s][i] \/ k < i
    /\ cast # {} => \E m \in Chats : Running = ChatJob(m)

\* The audience of a chat is those who asked to enter and do not wait behind it.
AudienceAhead ==
    \A m \in Chats, p \in Players :
        /\ \A i \in DOMAIN Queue : Queue[i] = ChatJob(m) =>
              (p \in audience[m] <=>
                 \E x \in Enters : /\ EnterJob(x) \in accepted /\ entrant[x] = p
                                   /\ \A k \in DOMAIN Queue : Queue[k] = EnterJob(x) => k < i)
        /\ Running = ChatJob(m) => (p \in audience[m] <=> p \in room)

\* The players of a session that the broadcast of a chat has not come to.
Left(s, m) == {p \in cast : Running = ChatJob(m) /\ p[1] = s}

\* A session has a copy for each of its players in the audience, or the loop has not
\* come to the player.
Reached ==
    \A m \in Chats, s \in Sessions :
        /\ Copies(s, m) + Cardinality(Left(s, m)) <= Cardinality(Mine(s, m))
        /\ Ended(ChatJob(m)) \/ Running = ChatJob(m) =>
              \/ socket[s] = "closed"
              \/ Copies(s, m) + Cardinality(Left(s, m)) = Cardinality(Mine(s, m))

GameInv ==
    /\ GameTyped /\ JobsOnce /\ RoomOfEntered /\ WiresFollow /\ AudienceAhead /\ Reached
    /\ OneOrder

-----------------------------------------------------------------------------
(* Lemmas.                                                                 *)

\* A packet is on a wire where it is one of its entries.
LEMMA OnWire ==
    ASSUME NEW S, NEW w \in Seq(S), NEW m
    PROVE  Contains(w, m) <=> \E i \in DOMAIN w : w[i] = m
BY DEF Contains

\* Being asked, starting and finishing, as the invariant sees them: what has ended is
\* only added to, by the job that was running.
LEMMA SubmitFacts ==
    ASSUME GameTyped, JobsOnce, NEW j \in Jobs, Room!Submit(j)
    PROVE  /\ j \notin accepted /\ accepted' = accepted \cup {j}
           /\ running' = running /\ waiting' \in [{GRoom} -> Seq(Jobs)]
           /\ Queue' = Append(Queue, j) /\ Running' = Running
           /\ \A h : Ended(h)' <=> Ended(h)
<1>1. /\ j \notin accepted /\ accepted' = accepted \cup {j} /\ running' = running
      /\ waiting' = [waiting EXCEPT ![GRoom] = Append(waiting[GRoom], j)]
  BY DEF Room!Submit
<1>2. waiting' \in [{GRoom} -> Seq(Jobs)] /\ Queue' = Append(Queue, j) /\ Running' = Running
  BY <1>1 DEF GameTyped, Queue, Running
<1>3. Queue \in Seq(Jobs)
  BY DEF GameTyped, Queue
<1>4. ASSUME NEW h PROVE Ended(h)' <=> Ended(h)
  <2>1. Contains(Queue', h) <=> Contains(Queue, h) \/ h = j
    BY <1>2, <1>3 DEF Contains
  <2> QED BY <1>1, <1>2, <2>1 DEF Ended, Queue, Running
<1> QED BY <1>1, <1>2, <1>4

LEMMA StartFacts ==
    ASSUME GameTyped, JobsOnce, Room!Start(GRoom)
    PROVE  /\ Running = None /\ accepted' = accepted
           /\ waiting' \in [{GRoom} -> Seq(Jobs)] /\ running' \in [{GRoom} -> Jobs]
           /\ 1 \in DOMAIN Queue /\ Running' = Queue[1]
           /\ Queue \in Seq(Jobs) /\ Queue' \in Seq(Jobs) /\ Len(Queue) = Len(Queue') + 1
           /\ \A i \in DOMAIN Queue' : i + 1 \in DOMAIN Queue /\ Queue'[i] = Queue[i + 1]
           /\ \A h : Ended(h)' <=> Ended(h)
<1>1. /\ Running = None /\ Queue # <<>> /\ accepted' = accepted
      /\ running' = [running EXCEPT ![GRoom] = Head(Queue)]
      /\ waiting' = [waiting EXCEPT ![GRoom] = Tail(Queue)]
  BY DEF Room!Start, Queue, Running, GameTyped
<1>2. Queue \in Seq(Jobs)
  BY DEF GameTyped, Queue
<1>3. /\ 1 \in DOMAIN Queue /\ Head(Queue) = Queue[1] /\ Head(Queue) \in Jobs
      /\ Tail(Queue) \in Seq(Jobs) /\ Len(Queue) = Len(Tail(Queue)) + 1
      /\ \A i \in DOMAIN Tail(Queue) : i + 1 \in DOMAIN Queue /\ Tail(Queue)[i] = Queue[i + 1]
      /\ \A i \in DOMAIN Queue : i # 1 => i - 1 \in DOMAIN Tail(Queue)
  BY <1>1, <1>2
<1>4. Queue' = Tail(Queue) /\ Running' = Queue[1]
  BY <1>1, <1>3 DEF GameTyped, Queue, Running
<1>5. waiting' \in [{GRoom} -> Seq(Jobs)] /\ running' \in [{GRoom} -> Jobs]
  BY <1>1, <1>3 DEF GameTyped
<1>6. ASSUME NEW h PROVE Ended(h)' <=> Ended(h)
  <2>1. Contains(Queue, h) <=> Contains(Queue', h) \/ h = Queue[1]
    <3>1. Contains(Queue, h) <=> \E i \in DOMAIN Queue : Queue[i] = h
      BY <1>2, OnWire
    <3>2. Contains(Tail(Queue), h) <=> \E i \in DOMAIN Tail(Queue) : Tail(Queue)[i] = h
      <4>1. DOMAIN Tail(Queue) = 1 .. Len(Tail(Queue))
        BY <1>3
      <4> QED BY <4>1 DEF Contains
    <3>3. (\E i \in DOMAIN Queue : Queue[i] = h)
            <=> (\E i \in DOMAIN Tail(Queue) : Tail(Queue)[i] = h) \/ h = Queue[1]
      <4>1. ASSUME NEW i \in DOMAIN Queue, Queue[i] = h, i # 1
            PROVE  \E k \in DOMAIN Tail(Queue) : Tail(Queue)[k] = h
        <5>1. i - 1 \in DOMAIN Tail(Queue) /\ (i - 1) + 1 = i
          BY <1>2, <1>3, <4>1
        <5> QED BY <1>3, <4>1, <5>1
      <4> QED BY <1>3, <4>1
    <3> QED BY <3>1, <3>2, <3>3, <1>4
  <2>2. Queue[1] \in accepted /\ Running' # None
    BY <1>3, <1>4, GameServerAssumption DEF JobsOnce, Jobs
  <2>3. Contains(Queue, None) => FALSE
    BY <1>2, OnWire, GameServerAssumption DEF Jobs
  <2>4. None \notin accepted
    BY GameServerAssumption DEF GameTyped, Jobs
  <2> QED BY <1>1, <1>4, <2>1, <2>2, <2>3, <2>4 DEF Ended, Queue, Running
<1> QED BY <1>1, <1>2, <1>3, <1>4, <1>5, <1>6

LEMMA FinishFacts ==
    ASSUME GameTyped, JobsOnce, Room!Finish(GRoom)
    PROVE  /\ Running \in Jobs /\ Running' = None /\ Queue' = Queue
           /\ running' \in [{GRoom} -> {None}]
           /\ UNCHANGED <<waiting, accepted>>
           /\ \A h : Ended(h)' <=> Ended(h) \/ h = Running
<1>1. /\ Running # None /\ running' = [running EXCEPT ![GRoom] = None]
      /\ UNCHANGED <<waiting, accepted>>
  BY DEF Room!Finish, Running
<1>2. Running \in Jobs /\ Running' = None /\ Queue' = Queue /\ running' \in [{GRoom} -> {None}]
  BY <1>1 DEF GameTyped, Running, Queue
<1>3. Queue \in Seq(Jobs)
  BY DEF GameTyped, Queue
<1>4. ASSUME NEW h PROVE Ended(h)' <=> Ended(h) \/ h = Running
  <2>1. Contains(Queue, h) => h # Running
    BY <1>3, OnWire DEF JobsOnce
  <2>2. Running \in accepted /\ None \notin accepted
    BY <1>1, GameServerAssumption DEF JobsOnce, GameTyped, Jobs
  <2> QED BY <1>1, <1>2, <2>1, <2>2 DEF Ended, Queue, Running
<1> QED BY <1>1, <1>2, <1>4

\* The copies of a chat on a wire can be counted, and so can the players left.
LEMMA CopiesFinite ==
    ASSUME GameTyped, NEW s \in Sessions, NEW m \in Chats
    PROVE  /\ IsFiniteSet({i \in DOMAIN wire[s] : wire[s][i] = m}) /\ Copies(s, m) \in Nat
           /\ IsFiniteSet(Mine(s, m)) /\ Cardinality(Mine(s, m)) \in Nat
<1>1. DOMAIN wire[s] = 1 .. Len(wire[s]) /\ Len(wire[s]) \in Nat
  BY DEF GameTyped
<1>2. IsFiniteSet(1 .. Len(wire[s]))
  BY <1>1, FS_Interval
<1>3. IsFiniteSet({i \in DOMAIN wire[s] : wire[s][i] = m})
  <2>1. {i \in DOMAIN wire[s] : wire[s][i] = m} \in SUBSET (1 .. Len(wire[s]))
    BY <1>1
  <2> QED BY <1>2, <2>1, FS_Subset
<1>4. IsFiniteSet(Mine(s, m))
  <2>1. Mine(s, m) \in SUBSET audience[m] /\ IsFiniteSet(audience[m])
    BY DEF Mine, GameTyped
  <2> QED BY <2>1, FS_Subset
<1> QED BY <1>3, <1>4, FS_CardinalityType DEF Copies

\* Those whose entering has been asked for are finitely many.
LEMMA AskedFinite == IsFiniteSet(Asked)
<1> DEFINE E == {y \in Enters : <<y, "enter">> \in accepted}
           f == [x \in E |-> entrant[x]]
<1>1. IsFiniteSet(E)
  <2>1. E \in SUBSET Enters
    OBVIOUS
  <2> QED BY <2>1, GameServerAssumption, FS_Subset
<1>2. f \in Surjection(E, Asked)
  BY DEF Asked, Surjection
<1> QED BY <1>1, <1>2, FS_Surjection

LEMMA AskedAre ==
    ASSUME NEW p
    PROVE  p \in Asked <=> \E x \in Enters : EnterJob(x) \in accepted /\ entrant[x] = p
BY DEF Asked, EnterJob

\* The audiences stay as they are while the queue does and nobody is let in while a
\* chat runs.
LEMMA AudienceKept ==
    ASSUME AudienceAhead, UNCHANGED <<accepted, entrant, audience>>, Queue' = Queue,
           \A m \in Chats : Running' = ChatJob(m) => Running = ChatJob(m) /\ room' = room
    PROVE  AudienceAhead'
<1> SUFFICES ASSUME NEW m \in Chats, NEW p \in Players
             PROVE  /\ \A i \in DOMAIN Queue' : Queue'[i] = ChatJob(m) =>
                         (p \in audience'[m] <=>
                            \E x \in Enters :
                               /\ EnterJob(x) \in accepted' /\ entrant'[x] = p
                               /\ \A k \in DOMAIN Queue' : Queue'[k] = EnterJob(x) => k < i)
                    /\ Running' = ChatJob(m) => (p \in audience'[m] <=> p \in room')
  BY DEF AudienceAhead, EnterJob, ChatJob
<1>1. /\ \A i \in DOMAIN Queue : Queue[i] = ChatJob(m) =>
           (p \in audience[m] <=>
              \E x \in Enters : /\ EnterJob(x) \in accepted /\ entrant[x] = p
                                /\ \A k \in DOMAIN Queue : Queue[k] = EnterJob(x) => k < i)
      /\ Running = ChatJob(m) => (p \in audience[m] <=> p \in room)
  BY DEF AudienceAhead
<1> QED BY <1>1

\* The copies of a chat are among the chats.
LEMMA CopiesAt ==
    ASSUME NEW s, NEW m \in Chats
    PROVE  {i \in DOMAIN wire[s] : wire[s][i] = m} = {i \in ChatsAt(s) : wire[s][i] = m}
BY DEF ChatsAt

-----------------------------------------------------------------------------
(* Handlers that do not concern the room.                                  *)

\* A step that leaves the room and its queue alone and puts no chat on a wire.
LEMMA GameFrame ==
    ASSUME GameInv, GameTyped', UNCHANGED <<roomVars, entrant, room, cast, audience>>,
           \A u \in Sessions : /\ ChatsAt(u)' = ChatsAt(u)
                               /\ \A i \in ChatsAt(u) : wire'[u][i] = wire[u][i],
           \A u \in Sessions : /\ socket[u] # "unused" => socket'[u] # "unused"
                               /\ socket[u] = "closed" => socket'[u] = "closed"
    PROVE  GameInv'
<1>1. /\ UNCHANGED <<waiting, running, accepted, entrant, room, cast, audience>>
      /\ Queue' = Queue /\ Running' = Running
  BY DEF roomVars, Queue, Running
<1>2. \A h : Ended(h)' <=> Ended(h)
  BY <1>1 DEF Ended
<1>3. JobsOnce'
  BY <1>1 DEF GameInv, JobsOnce
<1>4. RoomOfEntered'
  <2>1. \A p \in Players : p[1] \in Sessions
    BY DEF Players
  <2> QED BY <1>1, <1>2, <2>1 DEF GameInv, RoomOfEntered, EnterJob
<1>5. WiresFollow'
  <2>1. ASSUME NEW s \in Sessions, NEW i \in ChatsAt(s)'
        PROVE  /\ ChatJob(wire'[s][i]) \in accepted
               /\ \A k \in DOMAIN Queue : Queue[k] # ChatJob(wire'[s][i])
               /\ Running = ChatJob(wire'[s][i]) =>
                    \A k \in ChatsAt(s)' : wire'[s][k] = wire'[s][i] \/ k < i
    BY <2>1 DEF GameInv, WiresFollow
  <2> QED BY <1>1, <2>1 DEF GameInv, WiresFollow, ChatJob
<1>6. AudienceAhead'
  BY <1>1, AudienceKept DEF GameInv
<1>7. Reached'
  <2> SUFFICES ASSUME NEW m \in Chats, NEW s \in Sessions
               PROVE  /\ Copies(s, m)' = Copies(s, m) /\ Left(s, m)' = Left(s, m)
                      /\ Mine(s, m)' = Mine(s, m)
    BY <1>1, <1>2 DEF GameInv, Reached, ChatJob
  <2>1. {i \in ChatsAt(s)' : wire'[s][i] = m} = {i \in ChatsAt(s) : wire[s][i] = m}
    OBVIOUS
  <2>2. {i \in DOMAIN wire'[s] : wire'[s][i] = m} = {i \in ChatsAt(s)' : wire'[s][i] = m}
    BY DEF ChatsAt
  <2> QED BY <1>1, <2>1, <2>2, CopiesAt DEF Copies, Left, Mine, ChatJob
<1>8. OneOrder'
  BY DEF GameInv, OneOrder
<1> QED BY <1>3, <1>4, <1>5, <1>6, <1>7, <1>8 DEF GameInv

\* A packet other than a chat changes nothing about the chats.
LEMMA SendOther ==
    ASSUME GameTyped, NEW s \in Sessions, NEW packet \in {"S_LOGIN", "S_ENTER_GAME"},
           SendTo(s, packet)
    PROVE  /\ wire' \in [Sessions -> Seq(Packets)]
           /\ \A u \in Sessions : /\ ChatsAt(u)' = ChatsAt(u)
                                  /\ \A i \in ChatsAt(u) : wire'[u][i] = wire[u][i]
<1>1. CASE wire' = wire
  BY <1>1 DEF GameTyped, ChatsAt
<1>2. CASE wire' = [wire EXCEPT ![s] = Append(@, packet)]
  <2>1. wire' \in [Sessions -> Seq(Packets)]
    BY <1>2 DEF GameTyped, Packets
  <2>2. \A u \in Sessions \ {s} : wire'[u] = wire[u]
    BY <1>2 DEF GameTyped
  <2>3. wire'[s] = Append(wire[s], packet) /\ wire[s] \in Seq(Packets)
    BY <1>2 DEF GameTyped
  <2>4. /\ DOMAIN wire[s] \subseteq DOMAIN wire'[s]
        /\ \A i \in DOMAIN wire[s] : wire'[s][i] = wire[s][i]
        /\ \A i \in DOMAIN wire'[s] : i \in DOMAIN wire[s] \/ wire'[s][i] = packet
    BY <2>3
  <2>5. packet \notin Chats
    BY GameServerAssumption
  <2> QED BY <2>1, <2>2, <2>4, <2>5 DEF ChatsAt
<1> QED BY <1>1, <1>2 DEF SendTo

LEMMA GameQuiet ==
    ASSUME GameInv,
           \/ UNCHANGED vars
           \/ \E s \in Sessions : \/ Accept(s) \/ Disconnect(s)
                                  \/ \E index \in 0..MaxPlayers : EnterGameOutside(s, index)
    PROVE  GameInv'
<1>1. UNCHANGED <<players, wire, roomVars, entrant, room, cast, audience>>
  BY DEF Accept, Disconnect, EnterGameOutside, vars
<1>2. /\ socket' \in [Sessions -> {"unused", "connected", "closed"}]
      /\ \A u \in Sessions : /\ socket[u] # "unused" => socket'[u] # "unused"
                             /\ socket[u] = "closed" => socket'[u] = "closed"
  <2>1. socket \in [Sessions -> {"unused", "connected", "closed"}]
    BY DEF GameInv, GameTyped
  <2>2. \/ socket' = socket
        \/ \E s \in Sessions : socket[s] = "unused" /\ socket' = [socket EXCEPT ![s] = "connected"]
        \/ \E s \in Sessions : socket[s] = "connected" /\ socket' = [socket EXCEPT ![s] = "closed"]
    BY DEF Accept, Disconnect, EnterGameOutside, vars
  <2> QED BY <2>1, <2>2
<1>3. GameTyped'
  BY <1>1, <1>2 DEF GameInv, GameTyped, roomVars
<1>4. \A u \in Sessions : /\ ChatsAt(u)' = ChatsAt(u)
                          /\ \A i \in ChatsAt(u) : wire'[u][i] = wire[u][i]
  BY <1>1 DEF ChatsAt
<1> QED BY <1>1, <1>2, <1>3, <1>4, GameFrame

LEMMA GameHandlers ==
    ASSUME GameInv, NEW s \in Sessions, Handle_C_LOGIN(s) \/ EnterGameSend(s)
    PROVE  GameInv'
<1>1. /\ UNCHANGED <<roomVars, entrant, room, cast, audience>> /\ socket' = socket
      /\ \E packet \in {"S_LOGIN", "S_ENTER_GAME"} : SendTo(s, packet)
  BY DEF Handle_C_LOGIN, EnterGameSend
<1>2. players' \in [Sessions -> Nat]
  <2>1. players' = players \/ players' = [players EXCEPT ![s] = @ + 2]
    BY DEF Handle_C_LOGIN, EnterGameSend
  <2>2. players \in [Sessions -> Nat] /\ players[s] + 2 \in Nat
    BY DEF GameInv, GameTyped
  <2> QED BY <2>1, <2>2
<1>3. /\ wire' \in [Sessions -> Seq(Packets)]
      /\ \A u \in Sessions : /\ ChatsAt(u)' = ChatsAt(u)
                             /\ \A i \in ChatsAt(u) : wire'[u][i] = wire[u][i]
  BY <1>1, SendOther DEF GameInv
<1>4. GameTyped'
  BY <1>1, <1>2, <1>3 DEF GameInv, GameTyped, roomVars
<1> QED BY <1>1, <1>3, <1>4, GameFrame

-----------------------------------------------------------------------------
(* The queue of the room.                                                  *)

\* A job is asked for behind all others: of the waiting ones nothing changes.
LEMMA GameSubmit ==
    ASSUME GameInv, NEW j \in Jobs, Room!Submit(j),
           UNCHANGED <<socket, players, room, cast, wire>>,
           \A x \in Enters : j # EnterJob(x) => entrant'[x] = entrant[x],
           \A x \in Enters : j = EnterJob(x) =>
               entrant'[x] \in Players /\ socket[entrant'[x][1]] # "unused",
           entrant' \in [Enters -> Players \cup {None}],
           audience' \in [Chats -> SUBSET Players],
           \A m \in Chats : j # ChatJob(m) => audience'[m] = audience[m],
           \A m \in Chats : j = ChatJob(m) => audience'[m] = Asked
    PROVE  GameInv'
<1> DEFINE n == Len(Queue) + 1
<1>1. /\ j \notin accepted /\ accepted' = accepted \cup {j} /\ running' = running
      /\ waiting' \in [{GRoom} -> Seq(Jobs)]
      /\ Queue' = Append(Queue, j) /\ Running' = Running
      /\ \A h : Ended(h)' <=> Ended(h)
  BY SubmitFacts DEF GameInv
<1>2. GameTyped'
  <2>1. \A m \in Chats : IsFiniteSet(audience'[m])
    BY AskedFinite DEF GameInv, GameTyped
  <2> QED BY <1>1, <2>1 DEF GameInv, GameTyped
<1>3. /\ Queue \in Seq(Jobs) /\ n \in Nat /\ DOMAIN Queue' = DOMAIN Queue \cup {n}
      /\ n \notin DOMAIN Queue /\ Queue'[n] = j
      /\ \A i \in DOMAIN Queue : Queue'[i] = Queue[i] /\ i < n /\ i \in Nat /\ Queue[i] # j
  <2>1. Queue \in Seq(Jobs)
    BY DEF GameInv, GameTyped, Queue
  <2>2. \A i \in DOMAIN Queue : Queue[i] # j
    BY <1>1 DEF GameInv, JobsOnce
  <2> QED BY <1>1, <2>1, <2>2
<1> HIDE DEF n
<1>4. Running # j
  BY <1>1, GameServerAssumption DEF GameInv, JobsOnce, Jobs
<1>5. JobsOnce'
  <2>1. Running' # None => Running' \in accepted'
    BY <1>1 DEF GameInv, JobsOnce
  <2>2. ASSUME NEW i \in DOMAIN Queue'
        PROVE  /\ Queue'[i] \in accepted' /\ Queue'[i] # Running'
               /\ \A k \in DOMAIN Queue' : Queue'[i] = Queue'[k] => i = k
    BY <1>1, <1>3, <1>4 DEF GameInv, JobsOnce
  <2> QED BY <2>1, <2>2 DEF JobsOnce
<1>6. /\ \A x \in Enters, m \in Chats : EnterJob(x) # ChatJob(m)
      /\ \A x \in Enters : EnterJob(x) \in accepted => entrant'[x] = entrant[x]
      /\ \A h : Ended(h) => h \in accepted
  BY <1>1 DEF EnterJob, ChatJob, Ended
<1>7. RoomOfEntered'
  <2>1. ASSUME NEW x \in Enters, EnterJob(x) \in accepted'
        PROVE  entrant'[x] \in Players /\ socket[entrant'[x][1]] # "unused"
    BY <1>1, <1>6, <2>1 DEF GameInv, RoomOfEntered
  <2>2. ASSUME NEW p \in Players
        PROVE  p \in room <=> \E x \in Enters : Ended(EnterJob(x)) /\ entrant'[x] = p
    BY <1>6 DEF GameInv, RoomOfEntered
  <2> QED BY <1>1, <2>1, <2>2 DEF RoomOfEntered, EnterJob
<1>8. WiresFollow'
  <2>1. \A s \in Sessions : \A i \in ChatsAt(s) :
          /\ ChatJob(wire[s][i]) \in accepted'
          /\ \A k \in DOMAIN Queue' : Queue'[k] # ChatJob(wire[s][i])
          /\ Running = ChatJob(wire[s][i]) =>
               \A k \in ChatsAt(s) : wire[s][k] = wire[s][i] \/ k < i
    BY <1>1, <1>3 DEF GameInv, WiresFollow
  <2>2. wire' = wire /\ cast' = cast /\ \A s : ChatsAt(s)' = ChatsAt(s)
    BY DEF ChatsAt
  <2>3. \A s \in Sessions : \A i \in ChatsAt(s)' :
          /\ ChatJob(wire'[s][i]) \in accepted'
          /\ \A k \in DOMAIN Queue' : Queue'[k] # ChatJob(wire'[s][i])
          /\ Running' = ChatJob(wire'[s][i]) =>
               \A k \in ChatsAt(s)' : wire'[s][k] = wire'[s][i] \/ k < i
    BY <1>1, <2>1, <2>2
  <2>4. cast' # {} => \E m \in Chats : Running' = ChatJob(m)
    BY <1>1, <2>2 DEF GameInv, WiresFollow
  <2> QED BY <2>3, <2>4 DEF WiresFollow, ChatJob
<1>9. AudienceAhead'
  <2> SUFFICES ASSUME NEW m \in Chats, NEW p \in Players
               PROVE  /\ \A i \in DOMAIN Queue' : Queue'[i] = ChatJob(m) =>
                           (p \in audience'[m] <=>
                              \E x \in Enters :
                                 /\ EnterJob(x) \in accepted' /\ entrant'[x] = p
                                 /\ \A k \in DOMAIN Queue' : Queue'[k] = EnterJob(x) => k < i)
                      /\ Running' = ChatJob(m) => (p \in audience'[m] <=> p \in room')
    BY DEF AudienceAhead, EnterJob, ChatJob
  <2>1. CASE j = ChatJob(m)
    <3>1. p \in audience'[m] <=> \E x \in Enters : EnterJob(x) \in accepted /\ entrant[x] = p
      <4>1. audience'[m] = Asked
        BY <2>1
      <4> QED BY <4>1, AskedAre
    <3>2. \A x \in Enters : EnterJob(x) \in accepted' <=> EnterJob(x) \in accepted
      BY <1>1, <1>6, <2>1
    <3>3. \A i \in DOMAIN Queue' : Queue'[i] = ChatJob(m) => i = n
      BY <1>3, <2>1
    <3>4. \A x \in Enters : \A k \in DOMAIN Queue' : Queue'[k] = EnterJob(x) => k < n
      BY <1>3, <1>6, <2>1
    <3>5. Running' # ChatJob(m)
      BY <1>1, <1>4, <2>1
    <3> QED BY <1>6, <3>1, <3>2, <3>3, <3>4, <3>5
  <2>2. CASE j # ChatJob(m)
    <3>1. audience'[m] = audience[m]
      BY <2>2
    <3>2. ASSUME NEW i \in DOMAIN Queue', Queue'[i] = ChatJob(m)
          PROVE  p \in audience[m] <=>
                   \E x \in Enters : /\ EnterJob(x) \in accepted' /\ entrant'[x] = p
                                     /\ \A k \in DOMAIN Queue' : Queue'[k] = EnterJob(x) => k < i
      <4>1. i \in DOMAIN Queue /\ Queue[i] = ChatJob(m)
        BY <1>3, <2>2, <3>2
      <4>2. p \in audience[m] <=>
              \E x \in Enters : /\ EnterJob(x) \in accepted /\ entrant[x] = p
                                /\ \A k \in DOMAIN Queue : Queue[k] = EnterJob(x) => k < i
        BY <4>1 DEF GameInv, AudienceAhead
      <4>3. ASSUME NEW x \in Enters
            PROVE  /\ EnterJob(x) \in accepted' /\ entrant'[x] = p
                   /\ \A k \in DOMAIN Queue' : Queue'[k] = EnterJob(x) => k < i
                   <=>
                   /\ EnterJob(x) \in accepted /\ entrant[x] = p
                   /\ \A k \in DOMAIN Queue : Queue[k] = EnterJob(x) => k < i
        <5>1. CASE j = EnterJob(x)
          <6>1. n \in DOMAIN Queue' /\ Queue'[n] = EnterJob(x) /\ ~(n < i)
            BY <1>3, <4>1, <5>1
          <6> QED BY <1>1, <5>1, <6>1
        <5>2. CASE j # EnterJob(x)
          <6>1. /\ EnterJob(x) \in accepted' <=> EnterJob(x) \in accepted
                /\ entrant'[x] = entrant[x]
            BY <1>1, <5>2
          <6>2. (\A k \in DOMAIN Queue' : Queue'[k] = EnterJob(x) => k < i)
                  <=> \A k \in DOMAIN Queue : Queue[k] = EnterJob(x) => k < i
            BY <1>3, <5>2
          <6> QED BY <6>1, <6>2
        <5> QED BY <5>1, <5>2
      <4> QED BY <4>2, <4>3
    <3>3. Running' = ChatJob(m) => (p \in audience[m] <=> p \in room')
      BY <1>1 DEF GameInv, AudienceAhead
    <3> QED BY <3>1, <3>2, <3>3
  <2> QED BY <2>1, <2>2
<1>10. Reached'
  <2> SUFFICES ASSUME NEW m \in Chats, NEW s \in Sessions
               PROVE  /\ Copies(s, m)' + Cardinality(Left(s, m)') <= Cardinality(Mine(s, m)')
                      /\ Ended(ChatJob(m)) \/ Running = ChatJob(m) =>
                           \/ socket[s] = "closed"
                           \/ Copies(s, m)' + Cardinality(Left(s, m)') = Cardinality(Mine(s, m)')
    BY <1>1 DEF Reached, ChatJob
  <2>1. Copies(s, m)' = Copies(s, m) /\ Left(s, m)' = Left(s, m)
    BY <1>1 DEF Copies, Left, ChatJob
  <2>2. CASE j # ChatJob(m)
    <3>1. Mine(s, m)' = Mine(s, m)
      BY <2>2 DEF Mine
    <3> QED BY <2>1, <3>1 DEF GameInv, Reached
  <2>3. CASE j = ChatJob(m)
    <3>1. ~Ended(ChatJob(m)) /\ Running # ChatJob(m)
      BY <1>1, <1>4, <1>6, <2>3
    <3>2. {i \in DOMAIN wire[s] : wire[s][i] = m} = {} /\ Left(s, m) = {}
      BY <1>1, <2>3, <3>1 DEF GameInv, WiresFollow, ChatsAt, Left
    <3>3. Copies(s, m) = 0 /\ Cardinality(Left(s, m)) = 0
      BY <3>2, FS_EmptySet DEF Copies
    <3>4. Cardinality(Mine(s, m)') \in Nat
      <4>1. IsFiniteSet(audience'[m])
        BY <1>2 DEF GameTyped
      <4>2. Mine(s, m)' \in SUBSET audience'[m]
        BY DEF Mine
      <4> QED BY <4>1, <4>2, FS_Subset, FS_CardinalityType
    <3> QED BY <2>1, <3>1, <3>3, <3>4
  <2> QED BY <2>2, <2>3
<1>11. OneOrder'
  BY DEF GameInv, OneOrder, ChatsAt
<1> QED BY <1>2, <1>5, <1>7, <1>8, <1>9, <1>10, <1>11 DEF GameInv

LEMMA GameAsk ==
    ASSUME GameInv, NEW s \in Sessions,
           \/ \E index \in 0..MaxPlayers : Handle_C_ENTER_GAME(s, index)
           \/ \E m \in Chats : Handle_C_CHAT(s, m)
    PROVE  GameInv'
<1>1. ASSUME NEW index \in 0..MaxPlayers, Handle_C_ENTER_GAME(s, index) PROVE GameInv'
  <2>1. PICK x \in Enters : /\ Room!Submit(EnterJob(x))
                            /\ entrant' = [entrant EXCEPT ![x] = <<s, index>>]
    BY <1>1 DEF Handle_C_ENTER_GAME, EnterJob
  <2>2. /\ UNCHANGED <<socket, players, room, cast, wire, audience>>
        /\ socket[s] # "unused" /\ EnterJob(x) \in Jobs
    BY <1>1 DEF Handle_C_ENTER_GAME, EnterJob, Jobs, Free
  <2>3. /\ \A m \in Chats : EnterJob(x) # ChatJob(m)
        /\ \A y \in Enters : EnterJob(x) = EnterJob(y) => y = x
    BY DEF EnterJob, ChatJob
  <2>4. <<s, index>> \in Players /\ <<s, index>>[1] = s
    BY GameServerAssumption DEF Players
  <2>5. /\ entrant' \in [Enters -> Players \cup {None}] /\ entrant'[x] = <<s, index>>
        /\ \A y \in Enters : y # x => entrant'[y] = entrant[y]
    BY <2>1, <2>4 DEF GameInv, GameTyped
  <2>6. audience' \in [Chats -> SUBSET Players]
    BY <2>2 DEF GameInv, GameTyped
  <2> QED BY <2>1, <2>2, <2>3, <2>4, <2>5, <2>6, GameSubmit
<1>2. ASSUME NEW m \in Chats, Handle_C_CHAT(s, m) PROVE GameInv'
  <2>1. /\ Room!Submit(ChatJob(m)) /\ ChatJob(m) \in Jobs
        /\ UNCHANGED <<socket, players, entrant, room, cast, wire>>
        /\ audience' = [audience EXCEPT ![m] = Asked]
    BY <1>2 DEF Handle_C_CHAT, ChatJob, Jobs
  <2>2. /\ \A o \in Chats : ChatJob(o) = ChatJob(m) <=> o = m
        /\ \A x \in Enters : EnterJob(x) # ChatJob(m)
    BY DEF EnterJob, ChatJob
  <2>3. Asked \subseteq Players
    BY DEF Asked, GameInv, RoomOfEntered, EnterJob
  <2>4. /\ audience' \in [Chats -> SUBSET Players]
        /\ \A o \in Chats : audience'[o] = IF o = m THEN Asked ELSE audience[o]
    BY <2>1, <2>3 DEF GameInv, GameTyped
  <2>5. entrant' \in [Enters -> Players \cup {None}]
    BY <2>1 DEF GameInv, GameTyped
  <2> QED BY <2>1, <2>2, <2>4, <2>5, GameSubmit
<1> QED BY <1>1, <1>2

\* The first waiting job begins; a chat that begins is on no wire and nobody of its
\* audience waits.
LEMMA GameStart == ASSUME GameInv, StartJob PROVE GameInv'
<1>1. /\ Running = None /\ accepted' = accepted
      /\ waiting' \in [{GRoom} -> Seq(Jobs)] /\ running' \in [{GRoom} -> Jobs]
      /\ 1 \in DOMAIN Queue /\ Running' = Queue[1]
      /\ Queue \in Seq(Jobs) /\ Queue' \in Seq(Jobs) /\ Len(Queue) = Len(Queue') + 1
      /\ \A i \in DOMAIN Queue' : i + 1 \in DOMAIN Queue /\ Queue'[i] = Queue[i + 1]
      /\ \A h : Ended(h)' <=> Ended(h)
  BY StartFacts DEF GameInv, StartJob
<1>2. /\ UNCHANGED <<socket, players, entrant, room, wire, audience>>
      /\ cast' = IF Running'[2] = "chat" THEN room ELSE {}
  BY DEF StartJob, Running
<1>3. Running' \in Jobs /\ Running' # None /\ Running' \in accepted
  BY <1>1, GameServerAssumption DEF GameInv, JobsOnce, Jobs
<1>4. \A m \in Chats : Running' = ChatJob(m) => cast' = room
  BY <1>2 DEF ChatJob
<1>5. cast' # {} => cast' = room /\ \E m \in Chats : Running' = ChatJob(m)
  BY <1>2, <1>3 DEF Jobs, ChatJob
<1>6. \A i \in DOMAIN Queue' : i \in Nat /\ i >= 1 /\ i + 1 # 1
  BY <1>1
<1>7. \A i \in DOMAIN Queue : i \in Nat /\ i >= 1 /\ (i # 1 => i - 1 \in DOMAIN Queue' /\ Queue'[i - 1] = Queue[i])
  BY <1>1
<1>8. GameTyped'
  <2>1. cast' \subseteq room'
    BY <1>2
  <2>2. running' \in [{GRoom} -> Jobs \cup {None}]
    BY <1>1
  <2> QED BY <1>1, <1>2, <2>1, <2>2 DEF GameInv, GameTyped
<1>9. JobsOnce'
  <2>1. ASSUME NEW i \in DOMAIN Queue'
        PROVE  /\ Queue'[i] \in accepted /\ Queue'[i] # Running'
               /\ \A k \in DOMAIN Queue' : Queue'[i] = Queue'[k] => i = k
    <3>1. /\ Queue[i + 1] \in accepted
          /\ \A k \in DOMAIN Queue : Queue[i + 1] = Queue[k] => i + 1 = k
      BY <1>1 DEF GameInv, JobsOnce
    <3>2. Queue'[i] # Queue[1]
      BY <1>1, <1>6, <3>1
    <3>3. \A k \in DOMAIN Queue' : Queue'[i] = Queue'[k] => i = k
      BY <1>1, <1>6, <3>1
    <3> QED BY <1>1, <3>1, <3>2, <3>3
  <2> QED BY <1>1, <1>3, <2>1 DEF JobsOnce
<1>10. RoomOfEntered'
  BY <1>1, <1>2 DEF GameInv, RoomOfEntered, EnterJob
<1>11. \A m \in Chats : Running' = ChatJob(m) =>
         \A s \in Sessions : \A i \in ChatsAt(s) : wire[s][i] # m
  BY <1>1 DEF GameInv, WiresFollow
<1>12. wire' = wire /\ \A s : ChatsAt(s)' = ChatsAt(s)
  BY <1>2 DEF ChatsAt
<1>13. WiresFollow'
  <2>1. \A s \in Sessions : \A i \in ChatsAt(s) :
          /\ ChatJob(wire[s][i]) \in accepted /\ wire[s][i] \in Chats
          /\ \A k \in DOMAIN Queue' : Queue'[k] # ChatJob(wire[s][i])
          /\ Running' # ChatJob(wire[s][i])
    BY <1>1, <1>11 DEF GameInv, WiresFollow, ChatsAt
  <2>2. \A s \in Sessions : \A i \in ChatsAt(s)' :
          /\ ChatJob(wire'[s][i]) \in accepted'
          /\ \A k \in DOMAIN Queue' : Queue'[k] # ChatJob(wire'[s][i])
          /\ Running' # ChatJob(wire'[s][i])
    BY <1>1, <1>12, <2>1
  <2> QED BY <1>5, <2>2 DEF WiresFollow, ChatJob
<1>14. ASSUME NEW m \in Chats, NEW p \in Players, Running' = ChatJob(m)
       PROVE  p \in audience[m] <=> p \in room
  <2>1. p \in audience[m] <=>
          \E x \in Enters : /\ EnterJob(x) \in accepted /\ entrant[x] = p
                            /\ \A k \in DOMAIN Queue : Queue[k] # EnterJob(x)
    <3>1. p \in audience[m] <=>
            \E x \in Enters : /\ EnterJob(x) \in accepted /\ entrant[x] = p
                              /\ \A k \in DOMAIN Queue : Queue[k] = EnterJob(x) => k < 1
      <4>1. AudienceAhead /\ 1 \in DOMAIN Queue /\ Queue[1] = ChatJob(m)
        BY <1>1, <1>14 DEF GameInv
      <4> QED BY <4>1 DEF AudienceAhead
    <3>2. \A k \in DOMAIN Queue : ~(k < 1)
      BY <1>7
    <3> QED BY <3>1, <3>2
  <2>2. ASSUME NEW x \in Enters
        PROVE  Ended(EnterJob(x)) <=>
                 EnterJob(x) \in accepted /\ \A k \in DOMAIN Queue : Queue[k] # EnterJob(x)
    <3>1. EnterJob(x) # None
      BY GameServerAssumption DEF EnterJob
    <3>2. Contains(Queue, EnterJob(x)) <=> \E k \in DOMAIN Queue : Queue[k] = EnterJob(x)
      BY <1>1, OnWire
    <3> QED BY <1>1, <3>1, <3>2 DEF Ended, Queue, Running
  <2> QED BY <2>1, <2>2 DEF GameInv, RoomOfEntered
<1>15. AudienceAhead'
  <2> SUFFICES ASSUME NEW m \in Chats, NEW p \in Players
               PROVE  /\ \A i \in DOMAIN Queue' : Queue'[i] = ChatJob(m) =>
                           (p \in audience'[m] <=>
                              \E x \in Enters :
                                 /\ EnterJob(x) \in accepted' /\ entrant'[x] = p
                                 /\ \A k \in DOMAIN Queue' : Queue'[k] = EnterJob(x) => k < i)
                      /\ Running' = ChatJob(m) => (p \in audience'[m] <=> p \in room')
    BY DEF AudienceAhead, EnterJob, ChatJob
  <2> SUFFICES ASSUME NEW i \in DOMAIN Queue', Queue'[i] = ChatJob(m)
               PROVE  p \in audience[m] <=>
                        \E x \in Enters :
                           /\ EnterJob(x) \in accepted /\ entrant[x] = p
                           /\ \A k \in DOMAIN Queue' : Queue'[k] = EnterJob(x) => k < i
    BY <1>1, <1>2, <1>14
  <2>1. p \in audience[m] <=>
          \E x \in Enters : /\ EnterJob(x) \in accepted /\ entrant[x] = p
                            /\ \A k \in DOMAIN Queue : Queue[k] = EnterJob(x) => k < i + 1
    BY <1>1 DEF GameInv, AudienceAhead
  <2>2. ASSUME NEW x \in Enters
        PROVE  (\A k \in DOMAIN Queue' : Queue'[k] = EnterJob(x) => k < i)
                 <=> (\A k \in DOMAIN Queue : Queue[k] = EnterJob(x) => k < i + 1)
    <3>1. ASSUME NEW k \in DOMAIN Queue, Queue[k] = EnterJob(x), k # 1,
                 \A o \in DOMAIN Queue' : Queue'[o] = EnterJob(x) => o < i
          PROVE  k < i + 1
      BY <1>6, <1>7, <3>1
    <3>2. ASSUME NEW k \in DOMAIN Queue', Queue'[k] = EnterJob(x),
                 \A o \in DOMAIN Queue : Queue[o] = EnterJob(x) => o < i + 1
          PROVE  k < i
      BY <1>1, <1>6, <3>2
    <3>3. 1 < i + 1
      BY <1>6
    <3> QED BY <3>1, <3>2, <3>3
  <2> QED BY <2>1, <2>2
<1>16. Reached'
  <2> SUFFICES ASSUME NEW m \in Chats, NEW s \in Sessions
               PROVE  /\ Copies(s, m) + Cardinality(Left(s, m)') <= Cardinality(Mine(s, m))
                      /\ Ended(ChatJob(m)) \/ Running' = ChatJob(m) =>
                           \/ socket[s] = "closed"
                           \/ Copies(s, m) + Cardinality(Left(s, m)') = Cardinality(Mine(s, m))
    BY <1>1, <1>2 DEF Reached, Copies, Mine, ChatJob
  <2>1. CASE Running' = ChatJob(m)
    <3>1. {i \in DOMAIN wire[s] : wire[s][i] = m} = {}
      BY <1>11, <2>1 DEF ChatsAt
    <3>2. Copies(s, m) = 0
      BY <3>1, FS_EmptySet DEF Copies
    <3>3. Left(s, m)' = {p \in room : p[1] = s}
      BY <1>4, <2>1 DEF Left, ChatJob
    <3>4. audience[m] \subseteq Players /\ room \subseteq Players
      BY DEF GameInv, GameTyped
    <3>5. \A p : p \in audience[m] <=> p \in room
      BY <1>14, <2>1, <3>4
    <3>6. Left(s, m)' = Mine(s, m)
      BY <3>3, <3>5 DEF Mine
    <3>7. Cardinality(Left(s, m)') = Cardinality(Mine(s, m)) /\ Cardinality(Mine(s, m)) \in Nat
      BY <3>6, CopiesFinite DEF GameInv
    <3> QED BY <3>2, <3>7
  <2>2. CASE Running' # ChatJob(m)
    <3>1. Left(s, m)' = {} /\ Left(s, m) = {}
      BY <1>1, <2>2, GameServerAssumption DEF Left, ChatJob
    <3> QED BY <2>2, <3>1 DEF GameInv, Reached
  <2> QED BY <2>1, <2>2
<1>17. OneOrder'
  BY <1>12 DEF GameInv, OneOrder
<1> QED BY <1>8, <1>9, <1>10, <1>13, <1>15, <1>16, <1>17 DEF GameInv

\* A job ends: it goes from the running one to the ended ones.
LEMMA GameFinish ==
    ASSUME GameInv, Room!Finish(GRoom), cast = {},
           UNCHANGED <<socket, players, entrant, wire, audience, cast>>,
           \/ \E m \in Chats : Running = ChatJob(m) /\ room' = room
           \/ \E x \in Enters : Running = EnterJob(x) /\ room' = room \cup {entrant[x]}
    PROVE  GameInv'
<1>1. /\ Running \in Jobs /\ Running' = None /\ Queue' = Queue
      /\ running' \in [{GRoom} -> {None}]
      /\ UNCHANGED <<waiting, accepted>>
      /\ \A h : Ended(h)' <=> Ended(h) \/ h = Running
  BY FinishFacts DEF GameInv
<1>2. None \notin Jobs /\ (\A m \in Chats : ChatJob(m) \in Jobs) /\ (\A x \in Enters : EnterJob(x) \in Jobs)
  BY GameServerAssumption DEF Jobs, ChatJob, EnterJob
<1>3. Running \in accepted
  BY <1>1, <1>2 DEF GameInv, JobsOnce
<1>4. /\ \A m \in Chats, x \in Enters : ChatJob(m) # EnterJob(x)
      /\ \A x, y \in Enters : EnterJob(x) = EnterJob(y) => x = y
  BY DEF ChatJob, EnterJob
<1>5. GameTyped'
  <2>1. room' \subseteq Players
    BY <1>3 DEF GameInv, GameTyped, RoomOfEntered
  <2>2. cast' \subseteq room'
    OBVIOUS
  <2>3. running' \in [{GRoom} -> Jobs \cup {None}]
    BY <1>1
  <2> QED BY <1>1, <2>1, <2>2, <2>3 DEF GameInv, GameTyped
<1>6. JobsOnce'
  <2>1. \A i \in DOMAIN Queue : Queue[i] # None
    BY <1>2 DEF GameInv, JobsOnce, GameTyped
  <2> QED BY <1>1, <2>1 DEF GameInv, JobsOnce
<1>7. RoomOfEntered'
  <2>1. \A p \in Players : p \in room <=> \E x \in Enters : Ended(EnterJob(x)) /\ entrant[x] = p
    BY DEF GameInv, RoomOfEntered
  <2>2. ASSUME NEW p \in Players
        PROVE  p \in room' <=>
                 \E x \in Enters : (Ended(EnterJob(x)) \/ EnterJob(x) = Running) /\ entrant[x] = p
    BY <1>4, <2>1
  <2> QED BY <1>1, <2>2 DEF GameInv, RoomOfEntered, EnterJob
<1>8. wire' = wire /\ \A s : ChatsAt(s)' = ChatsAt(s)
  BY DEF ChatsAt
<1>9. \A m \in Chats : Running' # ChatJob(m)
  BY <1>1, <1>2
<1>10. WiresFollow'
  <2>1. \A s \in Sessions : \A i \in ChatsAt(s)' :
          /\ ChatJob(wire'[s][i]) \in accepted'
          /\ \A k \in DOMAIN Queue' : Queue'[k] # ChatJob(wire'[s][i])
          /\ wire'[s][i] \in Chats
    BY <1>1, <1>8 DEF GameInv, WiresFollow, ChatsAt
  <2>2. cast' = {}
    OBVIOUS
  <2> QED BY <1>9, <2>1, <2>2 DEF WiresFollow, ChatJob
<1>11. AudienceAhead'
  BY <1>1, <1>9, AudienceKept DEF GameInv
<1>12. Reached'
  <2> SUFFICES ASSUME NEW m \in Chats, NEW s \in Sessions
               PROVE  /\ Copies(s, m) + Cardinality(Left(s, m)') <= Cardinality(Mine(s, m))
                      /\ Ended(ChatJob(m)) \/ Running = ChatJob(m) =>
                           \/ socket[s] = "closed"
                           \/ Copies(s, m) + Cardinality(Left(s, m)') = Cardinality(Mine(s, m))
    BY <1>1, <1>9 DEF Reached, Copies, Mine, ChatJob
  <2>1. Left(s, m)' = {} /\ Left(s, m) = {}
    BY DEF Left
  <2> QED BY <2>1 DEF GameInv, Reached
<1>13. OneOrder'
  BY <1>8 DEF GameInv, OneOrder
<1> QED BY <1>5, <1>6, <1>7, <1>10, <1>11, <1>12, <1>13 DEF GameInv

LEMMA GameEndJob == ASSUME GameInv, Enter \/ EndBroadcast PROVE GameInv'
<1>1. /\ Room!Finish(GRoom) /\ Running \in Jobs
      /\ UNCHANGED <<socket, players, entrant, wire, audience, cast>>
  BY DEF Enter, EndBroadcast, Running, GameInv, GameTyped
<1>2. CASE Enter
  <2>1. PICK x \in Enters : Running = EnterJob(x)
    BY <1>1, <1>2 DEF Enter, Jobs, Running, EnterJob
  <2>2. room' = room \cup {entrant[x]}
    BY <1>2, <2>1 DEF Enter, Running, EnterJob
  <2>3. \A m \in Chats : Running # ChatJob(m)
    BY <2>1 DEF EnterJob, ChatJob
  <2>4. cast = {}
    BY <2>3 DEF GameInv, WiresFollow
  <2> QED BY <1>1, <2>1, <2>2, <2>4, GameFinish
<1>3. CASE EndBroadcast
  <2>1. PICK m \in Chats : Running = ChatJob(m)
    BY <1>1, <1>3 DEF EndBroadcast, Jobs, Running, ChatJob
  <2>2. room' = room /\ cast = {}
    BY <1>3 DEF EndBroadcast
  <2> QED BY <1>1, <2>1, <2>2, GameFinish
<1> QED BY <1>2, <1>3

\* One turn of the loop puts a copy of the chat behind all other chats.
LEMMA GameBroadcast == ASSUME GameInv, BroadcastSend PROVE GameInv'
<1>1. PICK p \in cast : SendTo(p[1], running[GRoom][1]) /\ cast' = cast \ {p}
  BY DEF BroadcastSend
<1> DEFINE v == p[1]
<1>2. PICK m \in Chats : Running = ChatJob(m)
  BY <1>1 DEF GameInv, WiresFollow
<1>3. /\ p \in room /\ p \in Players /\ v \in Sessions /\ socket[v] # "unused"
      /\ wire[v] \in Seq(Packets) /\ m \in Packets
  <2>1. p \in room /\ p \in Players /\ v \in Sessions
    BY DEF GameInv, GameTyped, Players
  <2>2. PICK x \in Enters : Ended(EnterJob(x)) /\ entrant[x] = p
    BY <2>1 DEF GameInv, RoomOfEntered
  <2>3. EnterJob(x) \in accepted
    BY <2>2 DEF Ended
  <2> QED BY <2>1, <2>2, <2>3 DEF GameInv, RoomOfEntered, GameTyped, Packets
<1>4. /\ wire' = IF socket[v] = "connected" THEN [wire EXCEPT ![v] = Append(@, m)] ELSE wire
      /\ UNCHANGED <<socket, players, entrant, room, waiting, running, accepted, audience>>
  <2>1. running[GRoom][1] = m
    BY <1>2 DEF Running, ChatJob
  <2> QED BY <1>1, <2>1 DEF SendTo, BroadcastSend, roomVars
<1> HIDE DEF v
<1>5. /\ Queue' = Queue /\ Running' = Running /\ (\A h : Ended(h)' <=> Ended(h))
  BY <1>4 DEF Queue, Running, Ended
\* What the wires are like afterwards.
<1>6. wire' \in [Sessions -> Seq(Packets)]
  <2>1. Append(wire[v], m) \in Seq(Packets)
    BY <1>3
  <2> QED BY <1>3, <1>4, <2>1 DEF GameInv, GameTyped
<1>7. ASSUME NEW s \in Sessions
      PROVE  /\ ChatsAt(s) \subseteq ChatsAt(s)' /\ ChatsAt(s)' \subseteq Nat
             /\ \A i \in ChatsAt(s) : wire'[s][i] = wire[s][i]
             /\ \A i \in ChatsAt(s)' : i \in ChatsAt(s) \/ wire'[s][i] = m
             /\ \A i \in ChatsAt(s)' : wire'[s][i] = m =>
                  \A k \in ChatsAt(s)' : wire'[s][k] = m \/ k < i
             /\ \A o \in Chats :
                  IF s = v /\ o = m /\ socket[v] = "connected"
                    THEN Copies(s, o)' = Copies(s, o) + 1
                    ELSE Copies(s, o)' = Copies(s, o)
  <2>1. /\ ChatsAt(s) \subseteq Nat
        /\ \A i \in ChatsAt(s) : wire[s][i] = m => \A k \in ChatsAt(s) : wire[s][k] = m \/ k < i
    BY <1>2 DEF GameInv, GameTyped, WiresFollow, ChatsAt
  <2>2. CASE s = v /\ socket[v] = "connected"
    <3>1. wire'[s] = Append(wire[s], m) /\ wire[s] \in Seq(Packets)
      BY <1>3, <1>4, <2>2 DEF GameInv, GameTyped
    <3> DEFINE n == Len(wire[s]) + 1
    <3>2. /\ DOMAIN wire'[s] = DOMAIN wire[s] \cup {n} /\ n \in Nat /\ n \notin DOMAIN wire[s]
          /\ \A i \in DOMAIN wire[s] : wire'[s][i] = wire[s][i] /\ i < n /\ i \in Nat
          /\ wire'[s][n] = m
      BY <3>1
    <3> HIDE DEF n
    <3>3. ChatsAt(s)' = ChatsAt(s) \cup {n} /\ ChatsAt(s) \subseteq DOMAIN wire[s]
      BY <3>2 DEF ChatsAt
    <3>4. ASSUME NEW o \in Chats
          PROVE  IF o = m THEN Copies(s, o)' = Copies(s, o) + 1 ELSE Copies(s, o)' = Copies(s, o)
      <4> DEFINE C == {i \in DOMAIN wire[s] : wire[s][i] = o}
      <4>1. {i \in DOMAIN wire'[s] : wire'[s][i] = o} = IF o = m THEN C \cup {n} ELSE C
        BY <3>2
      <4>2. n \notin C /\ IsFiniteSet(C)
        BY <3>2, CopiesFinite DEF GameInv
      <4>3. Cardinality(C \cup {n}) = Cardinality(C) + 1
        BY <4>2, FS_AddElement
      <4> QED BY <4>1, <4>3 DEF Copies
    <3>5. ASSUME NEW i \in ChatsAt(s)', wire'[s][i] = m, NEW k \in ChatsAt(s)'
          PROVE  wire'[s][k] = m \/ k < i
      BY <2>1, <3>2, <3>3, <3>5
    <3> QED BY <2>1, <2>2, <3>2, <3>3, <3>4, <3>5
  <2>3. CASE ~(s = v /\ socket[v] = "connected")
    <3>1. wire'[s] = wire[s]
      BY <1>3, <1>4, <2>3 DEF GameInv, GameTyped
    <3>2. ChatsAt(s)' = ChatsAt(s) /\ \A o \in Chats : Copies(s, o)' = Copies(s, o)
      BY <3>1 DEF ChatsAt, Copies
    <3> QED BY <2>1, <2>3, <3>1, <3>2
  <2> QED BY <2>2, <2>3
<1>8. GameTyped'
  BY <1>1, <1>4, <1>6 DEF GameInv, GameTyped
<1>9. JobsOnce'
  BY <1>4, <1>5 DEF GameInv, JobsOnce
<1>10. RoomOfEntered'
  BY <1>4, <1>5 DEF GameInv, RoomOfEntered, EnterJob
<1>11. WiresFollow'
  <2>1. ASSUME NEW s \in Sessions, NEW i \in ChatsAt(s)'
        PROVE  /\ ChatJob(wire'[s][i]) \in accepted
               /\ \A k \in DOMAIN Queue : Queue[k] # ChatJob(wire'[s][i])
               /\ Running = ChatJob(wire'[s][i]) =>
                    \A k \in ChatsAt(s)' : wire'[s][k] = wire'[s][i] \/ k < i
    <3>1. CASE i \in ChatsAt(s) /\ wire'[s][i] # m
      <4>1. Running # ChatJob(wire'[s][i])
        BY <1>2, <3>1 DEF ChatJob
      <4> QED BY <1>7, <3>1, <4>1 DEF GameInv, WiresFollow
    <3>2. CASE wire'[s][i] = m
      <4>1. ChatJob(m) \in accepted /\ \A k \in DOMAIN Queue : Queue[k] # ChatJob(m)
        BY <1>2, GameServerAssumption DEF GameInv, JobsOnce, ChatJob
      <4> QED BY <1>7, <3>2, <4>1
    <3> QED BY <1>7, <3>1, <3>2
  <2> QED BY <1>2, <1>4, <1>5, <2>1 DEF WiresFollow, ChatJob
<1>12. AudienceAhead'
  BY <1>4, <1>5, AudienceKept DEF GameInv
<1>13. Reached'
  <2> SUFFICES ASSUME NEW o \in Chats, NEW s \in Sessions
               PROVE  /\ Copies(s, o)' + Cardinality(Left(s, o)') <= Cardinality(Mine(s, o))
                      /\ Ended(ChatJob(o)) \/ Running = ChatJob(o) =>
                           \/ socket[s] = "closed"
                           \/ Copies(s, o)' + Cardinality(Left(s, o)') = Cardinality(Mine(s, o))
    BY <1>4, <1>5 DEF Reached, Mine, ChatJob
  <2>1. /\ Copies(s, o) + Cardinality(Left(s, o)) <= Cardinality(Mine(s, o))
        /\ Ended(ChatJob(o)) \/ Running = ChatJob(o) =>
             \/ socket[s] = "closed"
             \/ Copies(s, o) + Cardinality(Left(s, o)) = Cardinality(Mine(s, o))
    BY DEF GameInv, Reached
  <2>2. Copies(s, o) \in Nat /\ Cardinality(Mine(s, o)) \in Nat
    BY CopiesFinite DEF GameInv
  <2>3. CASE s = v /\ o = m
    <3>1. Left(s, o)' = Left(s, o) \ {p} /\ p \in Left(s, o)
      BY <1>1, <1>2, <1>5, <2>3 DEF Left, ChatJob, v
    <3>2. IsFiniteSet(Left(s, o))
      <4>1. IsFiniteSet(audience[m])
        BY DEF GameInv, GameTyped
      <4>2. \A q \in Players : q \in audience[m] <=> q \in room
        BY <1>2 DEF GameInv, AudienceAhead
      <4>3. Left(s, o) \in SUBSET audience[m]
        BY <4>2 DEF Left, GameInv, GameTyped
      <4> QED BY <4>1, <4>3, FS_Subset
    <3>3. /\ Cardinality(Left(s, o)') = Cardinality(Left(s, o)) - 1
          /\ Cardinality(Left(s, o)) \in Nat
      BY <3>1, <3>2, FS_RemoveElement, FS_CardinalityType
    <3>4. IF socket[s] = "connected" THEN Copies(s, o)' = Copies(s, o) + 1
                                     ELSE Copies(s, o)' = Copies(s, o)
      BY <1>7, <2>3
    <3>5. socket[s] \in {"connected", "closed"}
      BY <1>3, <2>3 DEF GameInv, GameTyped
    <3> QED BY <2>1, <2>2, <3>3, <3>4, <3>5
  <2>4. CASE ~(s = v /\ o = m)
    <3>1. Left(s, o)' = Left(s, o)
      BY <1>1, <1>2, <1>5, <2>4 DEF Left, ChatJob, v
    <3>2. Copies(s, o)' = Copies(s, o)
      BY <1>7, <2>4
    <3> QED BY <2>1, <3>1, <3>2
  <2> QED BY <2>3, <2>4
<1>14. OneOrder'
  <2> SUFFICES ASSUME NEW s \in Sessions, NEW u \in Sessions,
                      NEW i \in ChatsAt(s)', NEW j \in ChatsAt(s)',
                      NEW k \in ChatsAt(u)', NEW l \in ChatsAt(u)',
                      wire'[s][i] = wire'[u][k], wire'[s][j] = wire'[u][l],
                      wire'[s][i] # wire'[s][j]
               PROVE  i < j <=> k < l
    BY DEF OneOrder
  <2>1. i \in Nat /\ j \in Nat /\ k \in Nat /\ l \in Nat
    BY <1>7
  <2>2. CASE wire'[s][i] = m
    <3>1. j < i /\ l < k
      BY <1>7, <2>2
    <3> QED BY <2>1, <3>1
  <2>3. CASE wire'[s][j] = m
    <3>1. i < j /\ k < l
      BY <1>7, <2>3
    <3> QED BY <2>1, <3>1
  <2>4. CASE wire'[s][i] # m /\ wire'[s][j] # m
    <3>1. /\ i \in ChatsAt(s) /\ j \in ChatsAt(s) /\ k \in ChatsAt(u) /\ l \in ChatsAt(u)
          /\ wire[s][i] = wire[u][k] /\ wire[s][j] = wire[u][l] /\ wire[s][i] # wire[s][j]
      BY <1>7, <2>4
    <3> QED BY <3>1 DEF GameInv, OneOrder
  <2> QED BY <2>2, <2>3, <2>4
<1> QED BY <1>8, <1>9, <1>10, <1>11, <1>12, <1>13, <1>14 DEF GameInv

-----------------------------------------------------------------------------
(* The theorems.                                                           *)

LEMMA GameInit == Init => GameInv
<1> SUFFICES ASSUME Init PROVE GameInv
  OBVIOUS
<1>1. /\ socket = [s \in Sessions |-> "unused"] /\ players = [s \in Sessions |-> 0]
      /\ entrant = [x \in Enters |-> None] /\ room = {} /\ cast = {}
      /\ wire = [s \in Sessions |-> <<>>] /\ audience = [m \in Chats |-> {}]
      /\ waiting = [q \in {GRoom} |-> <<>>] /\ running = [q \in {GRoom} |-> None]
      /\ accepted = {} /\ Queue = <<>> /\ Running = None
  BY DEF Init, Room!Init, Queue, Running
<1>2. GameTyped
  BY <1>1, FS_EmptySet DEF GameTyped
<1>3. \A m \in Chats : ChatJob(m) # None
  BY GameServerAssumption DEF ChatJob
<1>4. \A s \in Sessions : ChatsAt(s) = {}
  BY <1>1 DEF ChatsAt
<1>5. JobsOnce /\ RoomOfEntered /\ AudienceAhead
  BY <1>1, <1>3 DEF JobsOnce, RoomOfEntered, AudienceAhead, Ended
<1>6. WiresFollow
  BY <1>1, <1>4 DEF WiresFollow
<1>7. Reached
  <2> SUFFICES ASSUME NEW m \in Chats, NEW s \in Sessions
               PROVE  /\ {i \in DOMAIN wire[s] : wire[s][i] = m} = {}
                      /\ Left(s, m) = {} /\ Mine(s, m) = {}
    BY FS_EmptySet DEF Reached, Copies
  <2> QED BY <1>1 DEF Left, Mine
<1>8. OneOrder
  BY <1>4 DEF OneOrder
<1> QED BY <1>2, <1>5, <1>6, <1>7, <1>8 DEF GameInv

\* Every step of the server keeps what is known of the room.
LEMMA GameNext == GameInv /\ [Next]_vars => GameInv'
<1> SUFFICES ASSUME GameInv, [Next]_vars PROVE GameInv'
  OBVIOUS
<1>1. CASE UNCHANGED vars
  BY <1>1, GameQuiet
<1>2. ASSUME NEW s \in Sessions,
             \/ Accept(s) \/ Disconnect(s)
             \/ \E index \in 0..MaxPlayers : EnterGameOutside(s, index)
      PROVE  GameInv'
  BY <1>2, GameQuiet
<1>3. ASSUME NEW s \in Sessions, Handle_C_LOGIN(s) \/ EnterGameSend(s) PROVE GameInv'
  BY <1>3, GameHandlers
<1>4. ASSUME NEW s \in Sessions,
             \/ \E index \in 0..MaxPlayers : Handle_C_ENTER_GAME(s, index)
             \/ \E m \in Chats : Handle_C_CHAT(s, m)
      PROVE  GameInv'
  BY <1>4, GameAsk
<1>5. CASE RunRoom
  BY <1>5, GameStart, GameEndJob, GameBroadcast DEF RunRoom
<1> QED BY <1>1, <1>2, <1>3, <1>4, <1>5 DEF Next

LEMMA GameHolds == Spec => []GameInv
BY GameInit, GameNext, PTL DEF Spec

\* The chats are in one order on the wires of all sessions, however often clients log
\* in and enter, and however workers and clients interleave.
THEOREM ChatsInOneOrder == Spec => []OneOrder
<1>1. GameInv => OneOrder
  BY DEF GameInv
<1> QED BY GameHolds, <1>1, PTL

\* A session gets a chat at most once for each of its players that had asked to enter
\* before it, and once for each of them if it is still connected when the broadcast
\* has ended.
THEOREM ChatsReachAudience == Spec => []ChatReachesAudience
<1>1. GameInv => ChatReachesAudience
  <2> SUFFICES ASSUME GameInv, NEW m \in Chats, NEW s \in Sessions
               PROVE  /\ Copies(s, m) <= Cardinality(Mine(s, m))
                      /\ Ended(ChatJob(m)) /\ socket[s] = "connected"
                            => Copies(s, m) = Cardinality(Mine(s, m))
    BY DEF ChatReachesAudience, ChatJob
  <2>1. Copies(s, m) \in Nat /\ Cardinality(Mine(s, m)) \in Nat
    BY CopiesFinite DEF GameInv
  <2>2. /\ Copies(s, m) + Cardinality(Left(s, m)) <= Cardinality(Mine(s, m))
        /\ Ended(ChatJob(m)) => \/ socket[s] = "closed"
                                \/ Copies(s, m) + Cardinality(Left(s, m)) = Cardinality(Mine(s, m))
    BY DEF GameInv, Reached
  <2>3. Cardinality(Left(s, m)) \in Nat
    <3>1. CASE Running # ChatJob(m)
      <4>1. Left(s, m) = {}
        BY <3>1 DEF Left
      <4> QED BY <4>1, FS_EmptySet
    <3>2. CASE Running = ChatJob(m)
      <4>1. IsFiniteSet(audience[m])
        BY DEF GameInv, GameTyped
      <4>2. \A q \in Players : q \in audience[m] <=> q \in room
        BY <3>2 DEF GameInv, AudienceAhead
      <4>3. Left(s, m) \in SUBSET audience[m]
        BY <4>2 DEF Left, GameInv, GameTyped
      <4> QED BY <4>1, <4>3, FS_Subset, FS_CardinalityType
    <3> QED BY <3>1, <3>2
  <2>4. Ended(ChatJob(m)) => Left(s, m) = {}
    BY DEF Ended, Left, Running
  <2>5. Left(s, m) = {} => Cardinality(Left(s, m)) = 0
    BY FS_EmptySet
  <2> QED BY <2>1, <2>2, <2>3, <2>4, <2>5
<1> QED BY GameHolds, <1>1, PTL
=============================================================================
