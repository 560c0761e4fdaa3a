------------------------------- MODULE Listener -------------------------------
(***************************************************************************)
(* Listener.cpp: each accept event offers a session to AcceptEx and, when  *)
(* a completion of it is dispatched, connects the session it refers to     *)
(* and offers another one.  Dispatch goes by the event, not by the call    *)
(* that completed: ProcessAccept works on whatever session the event       *)
(* refers to when it begins.                                               *)
(*                                                                         *)
(* An actor is a call in progress: the handler of the completion of the    *)
(* AcceptEx that was given session s is actor s, and the registration of   *)
(* event e by StartAccept is actor e.  A session lives as long as an event *)
(* or a local of an actor refers to it, or, once connected, the service.   *)
(* When it is destroyed its socket is closed: a client on it is lost, and  *)
(* an AcceptEx on it completes with an error, which Dispatch hands to      *)
(* ProcessAccept all the same.                                             *)
(***************************************************************************)
EXTENDS Naturals, FiniteSets

CONSTANTS Sessions,   \* sessions that can exist at a time; a bound
          Events,     \* _acceptEvents
          MaxVanish,  \* bound: how often getpeername may fail for an event
          None

Actors == Sessions \cup Events

ASSUME ListenerAssumption ==
    /\ IsFiniteSet(Sessions) /\ Sessions \cap Events = {} /\ None \notin Actors
    /\ MaxVanish \in Nat

VARIABLES
    acceptSession,  \* acceptEvent->session
    socket,         \* of each session, see Sockets
    eventOf,        \* the event that a session was offered with
    completion,     \* sessions whose AcceptEx has completed and awaits Dispatch
    pc,             \* where each actor is, see Labels
    back,           \* where its RegisterAccept returns to
    session,        \* the local of its ProcessAccept
    fresh,          \* the local of its RegisterAccept
    vanished        \* how often getpeername has failed for each event

vars == <<acceptSession, socket, eventOf, completion, pc, back, session, fresh, vanished>>

Sockets == { "none",       \* there is no such session
             "created",    \* RegisterAccept has created it
             "offered",    \* AcceptEx waits for a client on it
             "arrived",    \* a client is on it
             "connected" } \* ProcessConnect has run

Labels == { "idle",
            "update",    \* ProcessAccept: before SetUpdateAcceptSocket
            "peername",  \* ProcessAccept: before getpeername
            "connect",   \* ProcessAccept: before ProcessConnect
            "register",  \* RegisterAccept: before it assigns acceptEvent->session
            "accept" }   \* RegisterAccept: before AcceptEx

\* StartAccept is about to register each event.
Init == /\ acceptSession = [e \in Events |-> None]
        /\ socket = [s \in Sessions |-> "none"]
        /\ eventOf = [s \in Sessions |-> None]
        /\ completion = {}
        /\ pc = [a \in Actors |-> IF a \in Events THEN "register" ELSE "idle"]
        /\ back = [a \in Actors |-> "idle"]
        /\ session = [a \in Actors |-> None]
        /\ fresh = [a \in Actors |-> None]
        /\ vanished = [e \in Events |-> 0]

\* The event an actor works on.
EventOf(a) == IF a \in Events THEN a ELSE eventOf[a]

Goto(a, label) == pc' = [pc EXCEPT ![a] = label]

\* RegisterAccept is called, to return to a label.
Register(a, label) ==
    /\ Goto(a, "register")
    /\ back' = [back EXCEPT ![a] = label]

-----------------------------------------------------------------------------
\* A client connects: AcceptEx completes.
Arrive(s) ==
    /\ socket[s] = "offered"
    /\ socket' = [socket EXCEPT ![s] = "arrived"]
    /\ completion' = completion \cup {s}
    /\ UNCHANGED <<acceptSession, eventOf, pc, back, session, fresh, vanished>>

\* Dispatch: a worker takes a completion, and ProcessAccept reads the event's session.
Dispatch(s) ==
    /\ s \in completion
    /\ completion' = completion \ {s}
    /\ session' = [session EXCEPT ![s] = acceptSession[eventOf[s]]]
    /\ Goto(s, "update")
    /\ UNCHANGED <<acceptSession, socket, eventOf, back, fresh, vanished>>

\* Mutants: an accept that fails is not registered again; or it is, and the function
\* goes on.
UpdateFailsForgets(s) ==
    /\ pc[s] = "update"
    /\ Goto(s, "idle")
    /\ UNCHANGED <<acceptSession, socket, eventOf, completion, back, session, fresh, vanished>>

UpdateFailsGoesOn(s) ==
    /\ pc[s] = "update"
    /\ Register(s, "connect")
    /\ UNCHANGED <<acceptSession, socket, eventOf, completion, session, fresh, vanished>>

\* SetUpdateAcceptSocket may fail at any time: the event is registered again.
UpdateFails(s) ==
    /\ pc[s] = "update"
    /\ Register(s, "idle")
    /\ UNCHANGED <<acceptSession, socket, eventOf, completion, session, fresh, vanished>>

\* It succeeds only once a client is on the socket, a contract of Winsock.
UpdateSucceeds(s) ==
    /\ pc[s] = "update"
    /\ socket[session[s]] \in {"arrived", "connected"}
    /\ Goto(s, "peername")
    /\ UNCHANGED <<acceptSession, socket, eventOf, completion, back, session, fresh, vanished>>

\* getpeername: the event is registered if it fails, and ProcessAccept goes on anyway.
GetPeerName(s) ==
    /\ pc[s] = "peername"
    /\ \/ Goto(s, "connect") /\ UNCHANGED <<back, vanished>>
       \/ /\ vanished[eventOf[s]] < MaxVanish
          /\ vanished' = [vanished EXCEPT ![eventOf[s]] = @ + 1]
          /\ Register(s, "connect")
    /\ UNCHANGED <<acceptSession, socket, eventOf, completion, session, fresh>>

\* ProcessConnect, and the event is registered again.
ProcessConnect(s) ==
    /\ pc[s] = "connect"
    /\ socket' = [socket EXCEPT ![session[s]] = "connected"]
    /\ Register(s, "idle")
    /\ UNCHANGED <<acceptSession, eventOf, completion, session, fresh, vanished>>

-----------------------------------------------------------------------------
(* RegisterAccept.  The steps that let go of a reference destroy the       *)
(* sessions that nobody refers to any more.                                *)

Orphans ==
    {x \in Sessions : /\ socket[x] # "connected"
                      /\ \A e \in Events : acceptSession'[e] # x
                      /\ \A a \in Actors : session'[a] # x /\ fresh'[a] # x}

\* What is left of the orphans; session s gets a socket in the given state.
Destroy(s, state) ==
    /\ socket' = [x \in Sessions |-> IF x \in Orphans THEN "none" ELSE
                                     IF x = s THEN state ELSE socket[x]]
    /\ completion' = completion \cup
         {x \in Orphans : socket[x] = "offered" \/ (x = s /\ state = "offered")}

\* CreateSession, and the event refers to the new session.
RegisterAccept(a) ==
    /\ pc[a] = "register"
    /\ \E s \in Sessions :
          /\ socket[s] = "none" /\ s \notin completion /\ pc[s] = "idle"
          /\ acceptSession' = [acceptSession EXCEPT ![EventOf(a)] = s]
          /\ eventOf' = [eventOf EXCEPT ![s] = EventOf(a)]
          /\ fresh' = [fresh EXCEPT ![a] = s]
          /\ session' = session
          /\ Destroy(s, "created")
    /\ Goto(a, "accept")
    /\ UNCHANGED <<back, vanished>>

\* AcceptEx waits for a client.  RegisterAccept returns, to a ProcessAccept that
\* connects its session or ends.
AcceptEx(a) ==
    /\ pc[a] = "accept"
    /\ Goto(a, back[a])
    /\ back' = [back EXCEPT ![a] = "idle"]
    /\ fresh' = [fresh EXCEPT ![a] = None]
    /\ session' = [session EXCEPT ![a] = IF back[a] = "idle" THEN None ELSE @]
    /\ UNCHANGED <<acceptSession, eventOf, vanished>>
    /\ Destroy(fresh[a], "offered")

\* AcceptEx fails at once: RegisterAccept calls itself.  The new session is destroyed
\* when the inner call replaces it in the event.
AcceptExFails(a) ==
    /\ pc[a] = "accept"
    /\ Goto(a, "register")
    /\ fresh' = [fresh EXCEPT ![a] = None]
    /\ UNCHANGED <<acceptSession, eventOf, back, session, vanished>>
    /\ Destroy(fresh[a], "created")

Next ==
    \/ \E s \in Sessions :
          \/ Arrive(s) \/ Dispatch(s)
          \/ UpdateFails(s) \/ UpdateSucceeds(s) \/ GetPeerName(s) \/ ProcessConnect(s)
    \/ \E a \in Actors : RegisterAccept(a) \/ AcceptEx(a) \/ AcceptExFails(a)

Spec == Init /\ [][Next]_vars

-----------------------------------------------------------------------------
(* Properties. *)

\* Calls of AcceptEx with event e that wait for a client or for Dispatch.
Outstanding(e) ==
    {s \in Sessions : eventOf[s] = e /\ (socket[s] = "offered" \/ s \in completion)}

\* Calls of ProcessAccept and RegisterAccept for event e that have not returned.
Busy(e) == {a \in Actors : EventOf(a) = e /\ pc[a] # "idle"}

\* Those that register it once more after the RegisterAccept they are in.
Again(e) == {a \in Busy(e) : back[a] = "connect"}

\* An accept event is never forgotten, and every failed getpeername leaves it one
\* registration more for ever: from then on its calls abort each other, and two
\* workers may run ProcessAccept for it at a time.
RegistrationsAddUp ==
    \A e \in Events :
        Cardinality(Outstanding(e)) + Cardinality(Busy(e)) + Cardinality(Again(e))
          = 1 + vanished[e]

\* As long as getpeername has not failed for an event, going by the event is as good
\* as going by the call: ProcessAccept connects the session whose AcceptEx completed,
\* with a client on it, for the first time.
ConnectsItsOwn ==
    \A s \in Sessions :
        pc[s] = "connect" /\ vanished[eventOf[s]] = 0 =>
            session[s] = s /\ socket[s] = "arrived"
=============================================================================
