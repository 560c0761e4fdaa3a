------------------------------ MODULE GameServer ------------------------------
(***************************************************************************)
(* The game server: connected sessions, the packet handlers of             *)
(* ClientPacketHandler.cpp, and the one Room, whose methods run as jobs of *)
(* its queue.  The parts below it are taken at their word: the queue is a  *)
(* SerialExecutor, which JobQueue.tla implements; the Listener connects a  *)
(* session once (ConnectsItsOwn of Listener.tla: as long as getpeername    *)
(* does not fail); a packet sent to a connected session leaves in the      *)
(* order of the calls of Send (WireKeepsOrder of Session.tla), and one     *)
(* sent to another session is dropped.                                     *)
(*                                                                         *)
(* A session has one receive at a time, so its packets are handled one     *)
(* after the other.  Which packet comes next is up to the client: the      *)
(* handlers check nothing.  It may log in again and again, ask for any     *)
(* index any number of times, and chat without having entered.             *)
(***************************************************************************)
EXTENDS Naturals, FiniteSets, SequencesExt

CONSTANTS Sessions,
          Chats,       \* chat messages, each sent at most once, by any client
          Enters,      \* the calls of DoAsync(&Room::Enter, ...); a bound
          MaxClosed,   \* bound: how many sessions may be disconnected
          MaxPlayers,  \* bound: how many players there may be
          GRoom, None

\* A chat packet is not one of the other two, and a job is a job.
ASSUME GameServerAssumption ==
    /\ MaxClosed \in Nat /\ MaxPlayers \in Nat /\ IsFiniteSet(Enters)
    /\ {"S_LOGIN", "S_ENTER_GAME"} \cap Chats = {}
    /\ None \notin (Enters \X {"enter"}) \cup (Chats \X {"chat"})

VARIABLES
    socket,    \* of each session: "unused", "connected" or "closed"
    players,   \* the size of GameSession::_players of each session
    handling,  \* a handler between two of its steps
    entrant,   \* the player each call of Enter was given: <<session, index>>
    room,      \* Room::_players
    cast,      \* the players that the loop of the Broadcast that runs has left
    wire,      \* the packets Send has accepted, for each session
    waiting, running, accepted,   \* the queue of the Room
    audience,  \* history: whose entering had been asked for when a chat was accepted
    crash      \* a handler has used a player that does not exist

Jobs == (Enters \X {"enter"}) \cup (Chats \X {"chat"})
Room == INSTANCE SerialExecutor WITH Queues <- {GRoom}, Target <- [j \in Jobs |-> GRoom]

roomVars == <<waiting, running, accepted>>
vars == <<socket, players, handling, entrant, room, cast, wire, roomVars, audience, crash>>

Init == /\ socket = [s \in Sessions |-> "unused"]
        /\ players = [s \in Sessions |-> 0]
        /\ handling = [s \in Sessions |-> None]
        /\ entrant = [x \in Enters |-> None]
        /\ room = {} /\ cast = {}
        /\ wire = [s \in Sessions |-> <<>>]
        /\ Room!Init
        /\ audience = [m \in Chats |-> {}]
        /\ crash = FALSE

\* Session::Send, as far as it matters here.
SendTo(s, packet) ==
    wire' = IF socket[s] = "connected" THEN [wire EXCEPT ![s] = Append(@, packet)] ELSE wire

-----------------------------------------------------------------------------
(* Connections                                                             *)

Accept(s) ==
    /\ socket[s] = "unused"
    /\ socket' = [socket EXCEPT ![s] = "connected"]
    /\ UNCHANGED <<players, handling, entrant, room, cast, wire, roomVars, audience, crash>>

\* Any worker disconnects a session; from here on its sends are dropped.
Disconnect(s) ==
    /\ socket[s] = "connected" /\ Cardinality({u \in Sessions : socket[u] = "closed"}) < MaxClosed
    /\ socket' = [socket EXCEPT ![s] = "closed"]
    /\ UNCHANGED <<players, handling, entrant, room, cast, wire, roomVars, audience, crash>>

-----------------------------------------------------------------------------
(* Packet handlers                                                         *)

\* OnRecv goes on with the packets it has even if the session is disconnected.
Free(s) == socket[s] # "unused" /\ handling[s] = None

\* Two players more, and S_LOGIN.
Handle_C_LOGIN(s) ==
    /\ Free(s)
    /\ Cardinality({p \in Sessions \X (0..MaxPlayers) : p[2] < players[p[1]]}) + 2 <= MaxPlayers
    /\ players' = [players EXCEPT ![s] = @ + 2]
    /\ SendTo(s, "S_LOGIN")
    /\ UNCHANGED <<socket, handling, entrant, room, cast, roomVars, audience, crash>>

\* The room is asked to let in the player that the client names by its index ...
Handle_C_ENTER_GAME(s, index) ==
    /\ Free(s) /\ index < players[s]
    /\ \E x \in Enters : /\ Room!Submit(<<x, "enter">>)
                         /\ entrant' = [entrant EXCEPT ![x] = <<s, index>>]
    /\ handling' = [handling EXCEPT ![s] = "C_ENTER_GAME"]
    /\ UNCHANGED <<socket, players, room, cast, wire, audience, crash>>

\* ... and S_ENTER_GAME is sent, whether or not it has.
EnterGameSend(s) ==
    /\ handling[s] = "C_ENTER_GAME"
    /\ SendTo(s, "S_ENTER_GAME")
    /\ handling' = [handling EXCEPT ![s] = None]
    /\ UNCHANGED <<socket, players, entrant, room, cast, roomVars, audience, crash>>

\* There is no such player: _players[index] reads past the end of the vector, and the
\* program ends at the latest when it follows the pointer it found there.
EnterGameOutside(s, index) ==
    /\ Free(s) /\ index >= players[s]
    /\ crash' = TRUE
    /\ UNCHANGED <<socket, players, handling, entrant, room, cast, wire, roomVars, audience>>

\* The players whose entering has been asked for.
Asked == {entrant[x] : x \in {y \in Enters : <<y, "enter">> \in accepted}}

\* Mutant: the sender gets its chat at once.
Handle_C_CHATEcho(s, m) ==
    /\ Free(s)
    /\ Room!Submit(<<m, "chat">>)
    /\ audience' = [audience EXCEPT ![m] = Asked]
    /\ SendTo(s, m)
    /\ UNCHANGED <<socket, players, handling, entrant, room, cast, crash>>

Handle_C_CHAT(s, m) ==
    /\ Free(s)
    /\ Room!Submit(<<m, "chat">>)
    /\ audience' = [audience EXCEPT ![m] = Asked]
    /\ UNCHANGED <<socket, players, handling, entrant, room, cast, wire, crash>>

-----------------------------------------------------------------------------
(* Jobs of the Room                                                        *)

\* A job begins.
StartJob ==
    /\ Room!Start(GRoom)
    /\ cast' = IF running'[GRoom][2] = "chat" THEN room ELSE {}
    /\ UNCHANGED <<socket, players, handling, entrant, room, wire, audience, crash>>

\* Room::Enter: one entry for each player, however often it enters.
Enter ==
    /\ running[GRoom] # None /\ running[GRoom][2] = "enter"
    /\ Room!Finish(GRoom)
    /\ room' = room \cup {entrant[running[GRoom][1]]}
    /\ UNCHANGED <<socket, players, handling, entrant, cast, wire, audience, crash>>

\* Mutant: Broadcast ends at a player whose session is gone.
BroadcastSendStops ==
    /\ \E p \in cast :
          /\ SendTo(p[1], running[GRoom][1])
          /\ cast' = IF socket[p[1]] = "connected" THEN cast \ {p} ELSE {}
    /\ UNCHANGED <<socket, players, handling, entrant, room, roomVars, audience, crash>>

\* Room::Broadcast: the next turn of the loop.  The order of the map, which is that of
\* the ids, is left open.
BroadcastSend ==
    /\ \E p \in cast :
          /\ SendTo(p[1], running[GRoom][1])
          /\ cast' = cast \ {p}
    /\ UNCHANGED <<socket, players, handling, entrant, room, roomVars, audience, crash>>

EndBroadcast ==
    /\ running[GRoom] # None /\ running[GRoom][2] = "chat" /\ cast = {}
    /\ Room!Finish(GRoom)
    /\ UNCHANGED <<socket, players, handling, entrant, room, cast, wire, audience, crash>>

RunRoom == StartJob \/ Enter \/ BroadcastSend \/ EndBroadcast

Next ==
    /\ ~crash
    /\ \/ \E s \in Sessions :
             \/ Accept(s) \/ Disconnect(s)
             \/ Handle_C_LOGIN(s) \/ EnterGameSend(s)
             \/ \E index \in 0..MaxPlayers :
                   Handle_C_ENTER_GAME(s, index) \/ EnterGameOutside(s, index)
             \/ \E m \in Chats : Handle_C_CHAT(s, m)
       \/ RunRoom

Spec == Init /\ [][Next]_vars

-----------------------------------------------------------------------------

\* Where the chats are among the packets of a session.
ChatsAt(s) == {i \in DOMAIN wire[s] : wire[s][i] \in Chats}

\* Everybody in the room sees the chats in one order, whoever sent them and whichever
\* workers ran the broadcasts: if a session has several players, all its copies of
\* one chat come before all its copies of the next.
OneOrder ==
    \A s, u \in Sessions :
        \A i, j \in ChatsAt(s), k, l \in ChatsAt(u) :
            wire[s][i] = wire[u][k] /\ wire[s][j] = wire[u][l] /\ wire[s][i] # wire[s][j]
              => (i < j <=> k < l)

Ended(j) == j \in accepted /\ running[GRoom] # j /\ ~Contains(waiting[GRoom], j)

\* How often a session was sent a chat, and its players in the audience of the chat.
Copies(s, m) == Cardinality({i \in DOMAIN wire[s] : wire[s][i] = m})
Mine(s, m) == {p \in audience[m] : p[1] = s}

\* A chat goes to the players whose request to enter was handled before it, its sender
\* included, and to nobody else: a session gets at most one copy for each of them,
\* however often they entered; and when the broadcast has ended it has them all,
\* unless it has been disconnected.
ChatReachesAudience ==
    \A m \in Chats, s \in Sessions :
        /\ Copies(s, m) <= Cardinality(Mine(s, m))
        /\ Ended(<<m, "chat">>) /\ socket[s] = "connected"
              => Copies(s, m) = Cardinality(Mine(s, m))
=============================================================================
