---------------------------- MODULE ListenerProofs ----------------------------
(***************************************************************************)
(* Proofs about Listener, for any number of accept events, sessions and    *)
(* failures: no registration of an accept event is lost, and while         *)
(* getpeername has not failed for an event each completion of it connects  *)
(* the session that completed, once.                                       *)
(***************************************************************************)
EXTENDS Listener, FiniteSetTheorems, TLAPS

TypeOK ==
    /\ acceptSession \in [Events -> Sessions \cup {None}]
    /\ socket \in [Sessions -> Sockets]
    /\ eventOf \in [Sessions -> Events \cup {None}]
    /\ completion \in SUBSET Sessions
    /\ pc \in [Actors -> Labels]
    /\ back \in [Actors -> {"idle", "connect"}]
    /\ session \in [Actors -> Sessions \cup {None}]
    /\ fresh \in [Actors -> Sessions \cup {None}]
    /\ vanished \in [Events -> Nat]

\* Actor a has passed SetUpdateAcceptSocket and has not connected its session yet.
Holding(a) == pc[a] \in {"peername", "connect"} \/ back[a] = "connect"

\* What the program counter of an actor says about its locals.
Shape(a) ==
    /\ pc[a] = "accept" <=> fresh[a] # None
    /\ pc[a] = "idle" => session[a] = None
    /\ pc[a] # "idle" => EventOf(a) \in Events
    /\ pc[a] = "update" \/ Holding(a) => a \in Sessions /\ session[a] # None
    /\ back[a] = "connect" => pc[a] \in {"register", "accept"}
    /\ Holding(a) => socket[session[a]] \in {"arrived", "connected"}

\* A session that is referred to exists, and was offered with that event.
Alive ==
    /\ \A e \in Events : acceptSession[e] # None =>
         socket[acceptSession[e]] # "none" /\ eventOf[acceptSession[e]] = e
    /\ \A a \in Actors : session[a] # None =>
         socket[session[a]] # "none" /\ eventOf[session[a]] = EventOf(a)
    /\ \A a \in Actors : fresh[a] # None =>
         /\ socket[fresh[a]] = "created" /\ eventOf[fresh[a]] = EventOf(a)
         /\ acceptSession[EventOf(a)] # None
    /\ \A a, b \in Actors : fresh[a] # None /\ fresh[a] = fresh[b] => a = b

\* A session that is being offered, or whose completion waits, has no handler yet.
Awaited(s) ==
    /\ s \in completion \/ socket[s] \in {"created", "offered"} => pc[s] = "idle"
    /\ socket[s] \in {"created", "offered"} => s \notin completion
    /\ s \in completion \/ socket[s] = "offered" =>
         eventOf[s] \in Events /\ acceptSession[eventOf[s]] # None

Inv ==
    /\ TypeOK
    /\ \A a \in Actors : Shape(a)
    /\ Alive
    /\ \A s \in Sessions : Awaited(s)
    /\ RegistrationsAddUp

\* The AcceptEx of session s has completed and its handler has not connected it.
Due(s) == s \in completion \/ pc[s] \in {"update", "peername", "connect"}

\* While getpeername has not failed the event refers to the session that is being
\* offered, or whose completion is being handled.
Own ==
    /\ \A s \in Sessions : eventOf[s] \in Events /\ vanished[eventOf[s]] = 0 =>
         /\ socket[s] = "offered" \/ Due(s) => acceptSession[eventOf[s]] = s
         /\ Due(s) => socket[s] = "arrived"
         /\ pc[s] \in {"update", "peername", "connect"} => session[s] = s
    /\ \A a \in Actors : pc[a] = "accept" /\ vanished[EventOf(a)] = 0 =>
         acceptSession[EventOf(a)] = fresh[a]

-----------------------------------------------------------------------------
(* Lemmas.                                                                 *)

\* Events, sessions and None are apart.
LEMMA Constants ==
    /\ None \notin Sessions /\ None \notin Events
    /\ \A s \in Sessions : s \notin Events /\ s \in Actors /\ s # None
    /\ \A e \in Events : e \notin Sessions /\ e \in Actors /\ e # None
    /\ \A a \in Actors : a \in Sessions \/ a \in Events
    /\ IsFiniteSet(Sessions)
BY ListenerAssumption DEF ListenerAssumption, Actors

\* The event of a session is the one it was offered with.
LEMMA EventOfSession == \A s \in Sessions : EventOf(s) = eventOf[s]
BY Constants DEF EventOf

LEMMA EventOfEvent == \A e \in Events : EventOf(e) = e
BY DEF EventOf

\* Calls can be counted.
LEMMA CallsFinite ==
    ASSUME NEW e \in Events
    PROVE  /\ IsFiniteSet(Outstanding(e)) /\ Cardinality(Outstanding(e)) \in Nat
           /\ IsFiniteSet(Busy(e)) /\ Cardinality(Busy(e)) \in Nat
           /\ IsFiniteSet(Again(e)) /\ Cardinality(Again(e)) \in Nat
<1>1. IsFiniteSet(Outstanding(e))
  BY Constants, FS_Subset DEF Outstanding
<1>2. Busy(e) \subseteq Sessions \cup {e}
  BY EventOfEvent, Constants DEF Busy
<1>3. IsFiniteSet(Sessions \cup {e})
  BY Constants, FS_AddElement
<1>4. IsFiniteSet(Busy(e))
  BY <1>2, <1>3, FS_Subset
<1>5. IsFiniteSet(Again(e))
  BY <1>4, FS_Subset DEF Again
<1> QED BY <1>1, <1>4, <1>5, FS_CardinalityType

\* One element more or less.
LEMMA OneMore ==
    ASSUME NEW S, IsFiniteSet(S), NEW x, x \notin S
    PROVE  Cardinality(S \cup {x}) = Cardinality(S) + 1
BY FS_AddElement

LEMMA OneLess ==
    ASSUME NEW S, IsFiniteSet(S), NEW x, x \in S
    PROVE  Cardinality(S \ {x}) = Cardinality(S) - 1
BY FS_RemoveElement

\* What Inv says of one actor and of one session.
LEMMA Locals ==
    ASSUME Inv, NEW a \in Actors
    PROVE  /\ TypeOK /\ Shape(a)
           /\ pc[a] \in Labels /\ back[a] \in {"idle", "connect"}
           /\ session[a] \in Sessions \cup {None} /\ fresh[a] \in Sessions \cup {None}
BY DEF Inv, TypeOK

\* A step that leaves sockets, completions and the locals of actors alone.
LEMMA SameCalls ==
    ASSUME Inv, UNCHANGED <<eventOf, vanished>>,
           \A s \in Sessions : (socket'[s] = "offered" \/ s \in completion')
                                 <=> (socket[s] = "offered" \/ s \in completion),
           \A a \in Actors : /\ pc'[a] = "idle" <=> pc[a] = "idle"
                             /\ back'[a] = back[a]
    PROVE  RegistrationsAddUp'
<1> SUFFICES ASSUME NEW e \in Events
             PROVE  /\ Outstanding(e)' = Outstanding(e) /\ Busy(e)' = Busy(e)
                    /\ Again(e)' = Again(e)
  BY DEF Inv, RegistrationsAddUp
<1>1. \A a \in Actors : EventOf(a)' = EventOf(a)
  BY DEF EventOf
<1> QED BY <1>1 DEF Outstanding, Busy, Again

-----------------------------------------------------------------------------
(* Init and the actions.                                                   *)

\* At first StartAccept is about to register each event.
LEMMA InitInv == Init => Inv
<1> SUFFICES ASSUME Init PROVE Inv
  OBVIOUS
<1>1. TypeOK
  BY DEF Init, TypeOK, Sockets, Labels
<1>2. \A a \in Actors : Shape(a)
  BY EventOfEvent DEF Init, Shape, Holding
<1>3. Alive /\ \A s \in Sessions : Awaited(s)
  BY DEF Init, Alive, Awaited
<1>4. RegistrationsAddUp
  <2> SUFFICES ASSUME NEW e \in Events
               PROVE  Cardinality(Outstanding(e)) + Cardinality(Busy(e)) + Cardinality(Again(e)) = 1 + 0
    BY DEF Init, RegistrationsAddUp
  <2>1. Outstanding(e) = {} /\ Again(e) = {}
    BY DEF Init, Outstanding, Again, Busy
  <2>2. \A a \in Actors : EventOf(a) = e /\ pc[a] # "idle" <=> a = e
    BY Constants, EventOfEvent DEF Init
  <2>3. Busy(e) = {e}
    BY <2>2, Constants DEF Busy
  <2> QED BY <2>1, <2>3, FS_EmptySet, FS_Singleton
<1> QED BY <1>1, <1>2, <1>3, <1>4 DEF Inv

\* A client arrives on a session that is offered.
LEMMA ArriveInv == ASSUME Inv, NEW s \in Sessions, Arrive(s) PROVE Inv'
<1>1. /\ socket[s] = "offered" /\ socket' = [socket EXCEPT ![s] = "arrived"]
      /\ completion' = completion \cup {s}
      /\ UNCHANGED <<acceptSession, eventOf, pc, back, session, fresh, vanished>>
  BY DEF Arrive
<1>2. TypeOK /\ socket'[s] = "arrived" /\ \A x \in Sessions : x # s => socket'[x] = socket[x]
  BY <1>1 DEF Inv, TypeOK
<1>3. TypeOK'
  BY <1>1, <1>2 DEF TypeOK, Sockets
<1>4. \A a \in Actors : Shape(a)'
  BY <1>1, <1>2 DEF Inv, Shape, Holding, TypeOK, EventOf
<1>5. Alive'
  BY <1>1, <1>2 DEF Inv, Alive, TypeOK, EventOf
<1>6. \A x \in Sessions : Awaited(x)'
  BY <1>1, <1>2 DEF Inv, Awaited
<1>7. RegistrationsAddUp'
  BY <1>1, <1>2, SameCalls
<1> QED BY <1>3, <1>4, <1>5, <1>6, <1>7 DEF Inv

\* A completion is handled: the event is called upon by an actor instead.
LEMMA DispatchInv == ASSUME Inv, NEW s \in Sessions, Dispatch(s) PROVE Inv'
<1> DEFINE e == eventOf[s]
           c == acceptSession[e]
<1>1. /\ s \in completion /\ completion' = completion \ {s}
      /\ session' = [session EXCEPT ![s] = c] /\ pc' = [pc EXCEPT ![s] = "update"]
      /\ UNCHANGED <<acceptSession, socket, eventOf, back, fresh, vanished>>
  BY DEF Dispatch, Goto
<1>2. TypeOK /\ Shape(s) /\ s \in Actors
  BY Locals, Constants DEF Inv
<1>3. /\ pc[s] = "idle" /\ e \in Events /\ c \in Sessions /\ c # None
      /\ back[s] = "idle" /\ fresh[s] = None /\ socket[s] \notin {"offered", "created"}
  BY <1>1, <1>2, Constants DEF Inv, Awaited, Shape, TypeOK
<1>4. socket[c] # "none" /\ eventOf[c] = e
  BY <1>3 DEF Inv, Alive
<1> HIDE DEF e, c
<1>5. /\ session'[s] = c /\ pc'[s] = "update"
      /\ \A a \in Actors : a # s => session'[a] = session[a] /\ pc'[a] = pc[a]
      /\ session' \in [Actors -> Sessions \cup {None}] /\ pc' \in [Actors -> Labels]
  BY <1>1, <1>2, <1>3 DEF TypeOK, Labels
<1>6. TypeOK'
  BY <1>1, <1>2, <1>5 DEF TypeOK
<1>7. \A a \in Actors : Shape(a)'
  <2>1. Shape(s)'
    BY <1>1, <1>3, <1>5, EventOfSession DEF Shape, Holding, EventOf, e
  <2>2. ASSUME NEW a \in Actors, a # s PROVE Shape(a)'
    BY <1>1, <1>5, <2>2 DEF Inv, Shape, Holding, EventOf
  <2> QED BY <2>1, <2>2
<1>8. Alive'
  <2>1. eventOf[s] = EventOf(s)
    BY EventOfSession
  <2> QED BY <1>1, <1>3, <1>4, <1>5, <2>1 DEF Inv, Alive, EventOf, e
<1>9. \A x \in Sessions : Awaited(x)'
  BY <1>1, <1>2, <1>3, <1>5, Constants DEF Inv, Awaited
<1>10. RegistrationsAddUp'
  <2> SUFFICES ASSUME NEW f \in Events
               PROVE  Cardinality(Outstanding(f)') + Cardinality(Busy(f)') + Cardinality(Again(f)')
                        = 1 + vanished[f]
    BY <1>1 DEF RegistrationsAddUp
  <2>1. \A a \in Actors : EventOf(a)' = EventOf(a)
    BY <1>1 DEF EventOf
  <2>2. Again(f)' = Again(f)
    <3>1. \A a \in Actors : a \in Again(f)' <=> a \in Again(f)
      BY <1>1, <1>3, <1>5, <2>1 DEF Again, Busy
    <3> QED BY <3>1 DEF Again, Busy
  <2>3. CASE f = e
    <3>1. \A x \in Sessions : x \in Outstanding(f)' <=> x \in Outstanding(f) /\ x # s
      BY <1>1, <1>3 DEF Outstanding
    <3>2. Outstanding(f)' = Outstanding(f) \ {s} /\ s \in Outstanding(f)
      BY <1>1, <2>3, <3>1 DEF Outstanding, e
    <3>3. \A a \in Actors : a \in Busy(f)' <=> a \in Busy(f) \/ a = s
      BY <1>2, <1>5, <2>1, <2>3, EventOfSession DEF Busy, e
    <3>4. Busy(f)' = Busy(f) \cup {s} /\ s \notin Busy(f)
      BY <1>2, <1>3, <3>3 DEF Busy
    <3>5. /\ Cardinality(Outstanding(f)') = Cardinality(Outstanding(f)) - 1
          /\ Cardinality(Busy(f)') = Cardinality(Busy(f)) + 1
      BY <3>2, <3>4, CallsFinite, OneMore, OneLess
    <3>6. Cardinality(Outstanding(f)) + Cardinality(Busy(f)) + Cardinality(Again(f)) = 1 + vanished[f]
      BY DEF Inv, RegistrationsAddUp
    <3> QED BY ONLY <2>2, <3>5, <3>6, CallsFinite, f \in Events
  <2>4. CASE f # e
    <3>1. Outstanding(f)' = Outstanding(f)
      BY <1>1, <2>4 DEF Outstanding, e
    <3>2. \A a \in Actors : a \in Busy(f)' <=> a \in Busy(f)
      BY <1>2, <1>5, <2>1, <2>4, EventOfSession DEF Busy, e
    <3>3. Busy(f)' = Busy(f)
      BY <3>2 DEF Busy
    <3> QED BY <2>2, <3>1, <3>3 DEF Inv, RegistrationsAddUp
  <2> QED BY <2>3, <2>4
<1> QED BY <1>6, <1>7, <1>8, <1>9, <1>10 DEF Inv

\* A step of ProcessAccept before ProcessConnect, which may call RegisterAccept.
LEMMA HandlerInv ==
    ASSUME Inv, NEW s \in Sessions, NEW label \in {"peername", "connect", "register"},
           NEW to \in {"idle", "connect"},
           pc[s] \in {"update", "peername"}, pc' = [pc EXCEPT ![s] = label],
           back' = [back EXCEPT ![s] = to],
           to = "connect" => label = "register" /\ vanished' = [vanished EXCEPT ![eventOf[s]] = @ + 1],
           to = "idle" => vanished' = vanished,
           label # "register" \/ to = "connect" => socket[session[s]] \in {"arrived", "connected"},
           UNCHANGED <<acceptSession, socket, eventOf, completion, session, fresh>>
    PROVE  Inv'
<1> DEFINE e == eventOf[s]
<1>1. /\ TypeOK /\ Shape(s) /\ s \in Actors /\ e \in Events
      /\ back[s] = "idle" /\ fresh[s] = None /\ session[s] # None
  <2>1. TypeOK /\ Shape(s) /\ s \in Actors /\ back[s] \in {"idle", "connect"}
    BY Locals, Constants
  <2> QED BY <2>1, EventOfSession DEF Shape, Holding
<1> HIDE DEF e
<1>2. /\ pc'[s] = label /\ back'[s] = to
      /\ \A a \in Actors : a # s => pc'[a] = pc[a] /\ back'[a] = back[a]
  BY <1>1 DEF TypeOK
<1>3. /\ to = "connect" => vanished'[e] = vanished[e] + 1
      /\ \A f \in Events : f # e \/ to = "idle" => vanished'[f] = vanished[f]
      /\ vanished' \in [Events -> Nat]
  BY <1>1 DEF TypeOK, e
<1>4. TypeOK'
  BY <1>1, <1>3 DEF TypeOK, Labels
<1>5. \A a \in Actors : Shape(a)'
  <2>1. Shape(s)'
    BY <1>1, <1>2, EventOfSession DEF Shape, Holding, EventOf, e
  <2>2. ASSUME NEW a \in Actors, a # s PROVE Shape(a)'
    BY <1>2, <2>2 DEF Inv, Shape, Holding, EventOf
  <2> QED BY <2>1, <2>2
<1>6. Alive'
  BY DEF Inv, Alive, EventOf
<1>7. \A x \in Sessions : Awaited(x)'
  BY <1>1, <1>2, Constants DEF Inv, Awaited
<1>8. RegistrationsAddUp'
  <2> SUFFICES ASSUME NEW f \in Events
               PROVE  Cardinality(Outstanding(f)') + Cardinality(Busy(f)') + Cardinality(Again(f)')
                        = 1 + vanished'[f]
    BY DEF RegistrationsAddUp
  <2>1. \A a \in Actors : EventOf(a)' = EventOf(a)
    BY DEF EventOf
  <2>2. Outstanding(f)' = Outstanding(f)
    BY DEF Outstanding
  <2>3. Busy(f)' = Busy(f)
    <3>1. \A a \in Actors : a \in Busy(f)' <=> a \in Busy(f)
      BY <1>2, <2>1 DEF Busy
    <3> QED BY <3>1 DEF Busy
  <2>4. Cardinality(Outstanding(f)) + Cardinality(Busy(f)) + Cardinality(Again(f)) = 1 + vanished[f]
    BY DEF Inv, RegistrationsAddUp
  <2>5. CASE f = e /\ to = "connect"
    <3>1. \A a \in Actors : a \in Again(f)' <=> a \in Again(f) \/ a = s
      BY <1>1, <1>2, <2>1, <2>5, EventOfSession DEF Again, Busy, e
    <3>2. Again(f)' = Again(f) \cup {s} /\ s \notin Again(f)
      BY <1>1, <3>1 DEF Again, Busy
    <3>3. Cardinality(Again(f)') = Cardinality(Again(f)) + 1
      BY <3>2, CallsFinite, OneMore
    <3>4. vanished'[f] = vanished[f] + 1 /\ vanished[f] \in Nat
      BY <1>1, <1>3, <2>5 DEF TypeOK
    <3> QED BY <2>2, <2>3, <2>4, <3>3, <3>4, CallsFinite
  <2>6. CASE ~(f = e /\ to = "connect")
    <3>1. \A a \in Actors : a \in Again(f)' <=> a \in Again(f)
      BY <1>1, <1>2, <2>1, <2>6, EventOfSession DEF Again, Busy, e
    <3>2. Again(f)' = Again(f)
      BY <3>1 DEF Again, Busy
    <3> QED BY <1>3, <2>2, <2>3, <2>4, <2>6, <3>2
  <2> QED BY <2>5, <2>6
<1> QED BY <1>4, <1>5, <1>6, <1>7, <1>8 DEF Inv

\* SetUpdateAcceptSocket and getpeername, whatever they return.
LEMMA UpdateInv ==
    ASSUME Inv, NEW s \in Sessions, UpdateFails(s) \/ UpdateSucceeds(s) \/ GetPeerName(s)
    PROVE  Inv'
<1>1. TypeOK /\ Shape(s) /\ s \in Actors
  BY Locals, Constants
<1>2. CASE UpdateFails(s)
  BY <1>2, HandlerInv DEF UpdateFails, Register, Goto
<1>3. back[s] = "idle" => back = [back EXCEPT ![s] = "idle"]
  BY <1>1 DEF TypeOK
<1>4. CASE UpdateSucceeds(s)
  <2>1. back[s] = "idle"
    BY <1>1, <1>4 DEF UpdateSucceeds, Shape, TypeOK
  <2> QED BY <1>3, <1>4, <2>1, HandlerInv DEF UpdateSucceeds, Goto
<1>5. CASE GetPeerName(s)
  <2>1. /\ pc[s] = "peername" /\ back[s] = "idle" /\ socket[session[s]] \in {"arrived", "connected"}
        /\ UNCHANGED <<acceptSession, socket, eventOf, completion, session, fresh>>
    BY <1>1, <1>5 DEF GetPeerName, Shape, TypeOK, Holding
  <2>2. CASE Goto(s, "connect") /\ UNCHANGED <<back, vanished>>
    BY <1>3, <2>1, <2>2, HandlerInv DEF Goto
  <2>3. CASE Register(s, "connect") /\ vanished' = [vanished EXCEPT ![eventOf[s]] = @ + 1]
    BY <2>1, <2>3, HandlerInv DEF Register, Goto
  <2> QED BY <1>5, <2>2, <2>3 DEF GetPeerName
<1> QED BY <1>2, <1>4, <1>5

\* A session is connected, and registered again.
LEMMA ProcessConnectInv == ASSUME Inv, NEW s \in Sessions, ProcessConnect(s) PROVE Inv'
<1> DEFINE c == session[s]
<1>1. /\ pc[s] = "connect" /\ socket' = [socket EXCEPT ![c] = "connected"]
      /\ pc' = [pc EXCEPT ![s] = "register"] /\ back' = [back EXCEPT ![s] = "idle"]
      /\ UNCHANGED <<acceptSession, eventOf, completion, session, fresh, vanished>>
  BY DEF ProcessConnect, Register, Goto
<1>2. TypeOK /\ Shape(s) /\ s \in Actors
  BY Locals, Constants
<1>3. /\ c \in Sessions /\ socket[c] \in {"arrived", "connected"}
      /\ back[s] = "idle" /\ fresh[s] = None /\ EventOf(s) \in Events /\ session[s] # None
  BY <1>1, <1>2 DEF Shape, Holding, TypeOK
<1> HIDE DEF c
<1>4. /\ socket'[c] = "connected" /\ \A x \in Sessions : x # c => socket'[x] = socket[x]
      /\ pc'[s] = "register" /\ \A a \in Actors : a # s => pc'[a] = pc[a]
      /\ \A a \in Actors : back'[a] = back[a]
  BY <1>1, <1>2, <1>3 DEF TypeOK
<1>5. TypeOK'
  BY <1>1, <1>2 DEF TypeOK, Sockets, Labels
<1>6. \A a \in Actors : Shape(a)'
  <2>1. ASSUME NEW a \in Actors, session[a] # None, socket[session[a]] \in {"arrived", "connected"}
        PROVE  socket'[session[a]] \in {"arrived", "connected"}
    BY <1>2, <1>4, <2>1 DEF TypeOK
  <2>2. Shape(s)'
    BY <1>1, <1>2, <1>3, <1>4 DEF Shape, Holding, EventOf
  <2>3. ASSUME NEW a \in Actors, a # s PROVE Shape(a)'
    BY <1>1, <1>4, <2>1, <2>3 DEF Inv, Shape, Holding, EventOf
  <2> QED BY <2>2, <2>3
<1>7. Alive'
  <2>1. \A x \in Sessions : /\ socket[x] # "none" => socket'[x] # "none"
                            /\ socket[x] = "created" => socket'[x] = "created"
    BY <1>3, <1>4
  <2> QED BY <1>1, <1>2, <2>1 DEF Inv, Alive, EventOf, TypeOK
<1>8. \A x \in Sessions : Awaited(x)'
  BY <1>1, <1>2, <1>3, <1>4, Constants DEF Inv, Awaited
<1>9. RegistrationsAddUp'
  BY <1>1, <1>2, <1>3, <1>4, SameCalls
<1> QED BY <1>5, <1>6, <1>7, <1>8, <1>9 DEF Inv

\* What is destroyed is not referred to, and leaves its call to be dispatched.
LEMMA DestroyEffect ==
    ASSUME Inv, NEW n \in Sessions, NEW state \in {"created", "offered"}, Destroy(n, state),
           socket[n] \in {"none", "created"}, n \notin completion
    PROVE  /\ socket' \in [Sessions -> Sockets] /\ completion' \in SUBSET Sessions
           /\ \A x \in Sessions :
                /\ x \in Orphans => socket'[x] = "none" /\ socket[x] # "connected"
                /\ x \notin Orphans => socket'[x] = IF x = n THEN state ELSE socket[x]
                /\ x \notin Orphans => (x \in completion' <=> x \in completion)
                /\ x # n => (socket'[x] = "offered" \/ x \in completion'
                               <=> socket[x] = "offered" \/ x \in completion)
           /\ socket'[n] = "offered" \/ n \in completion' <=> state = "offered"
           /\ \A e \in Events : acceptSession'[e] \notin Orphans
           /\ \A a \in Actors : session'[a] \notin Orphans /\ fresh'[a] \notin Orphans
<1>1. TypeOK
  BY DEF Inv
<1>2. /\ socket' = [x \in Sessions |-> IF x \in Orphans THEN "none" ELSE
                                       IF x = n THEN state ELSE socket[x]]
      /\ completion' = completion \cup
           {x \in Orphans : socket[x] = "offered" \/ (x = n /\ state = "offered")}
  BY DEF Destroy
<1>3. Orphans \subseteq Sessions /\ \A x \in Orphans : socket[x] # "connected"
  BY DEF Orphans
<1>4. /\ \A e \in Events : acceptSession'[e] \notin Orphans
      /\ \A a \in Actors : session'[a] \notin Orphans /\ fresh'[a] \notin Orphans
  BY DEF Orphans
<1>5. socket' \in [Sessions -> Sockets] /\ completion' \in SUBSET Sessions
  BY <1>1, <1>2, <1>3 DEF TypeOK, Sockets
<1> QED BY ONLY <1>2, <1>3, <1>4, <1>5, n \in Sessions, state \in {"created", "offered"},
                socket[n] \in {"none", "created"}, n \notin completion

\* The event refers to a new session; what it referred to may go.
LEMMA RegisterAcceptInv == ASSUME Inv, NEW a \in Actors, RegisterAccept(a) PROVE Inv'
<1> DEFINE e == EventOf(a)
<1>1. PICK n \in Sessions :
        /\ socket[n] = "none" /\ n \notin completion /\ pc[n] = "idle"
        /\ acceptSession' = [acceptSession EXCEPT ![e] = n]
        /\ eventOf' = [eventOf EXCEPT ![n] = e]
        /\ fresh' = [fresh EXCEPT ![a] = n]
        /\ session' = session
        /\ Destroy(n, "created")
  BY DEF RegisterAccept
<1>2. /\ pc[a] = "register" /\ pc' = [pc EXCEPT ![a] = "accept"]
      /\ back' = back /\ vanished' = vanished
  BY DEF RegisterAccept, Goto
<1>3. TypeOK /\ Shape(a) /\ n \in Actors /\ Shape(n) /\ n # None
  BY Locals, Constants
<1>4. e \in Events /\ a # n /\ fresh[a] = None /\ session[n] = None /\ fresh[n] = None
  BY <1>1, <1>2, <1>3 DEF Shape
<1> HIDE DEF e
<1>5. /\ \A f \in Events : acceptSession[f] # n
      /\ \A b \in Actors : session[b] # n /\ fresh[b] # n
  BY <1>1, <1>3 DEF Inv, Alive
<1>6. /\ acceptSession'[e] = n /\ \A f \in Events : f # e => acceptSession'[f] = acceptSession[f]
      /\ eventOf'[n] = e /\ \A x \in Sessions : x # n => eventOf'[x] = eventOf[x]
      /\ fresh'[a] = n /\ \A b \in Actors : b # a => fresh'[b] = fresh[b]
      /\ pc'[a] = "accept" /\ \A b \in Actors : b # a => pc'[b] = pc[b]
      /\ acceptSession' \in [Events -> Sessions \cup {None}]
      /\ eventOf' \in [Sessions -> Events \cup {None}]
      /\ fresh' \in [Actors -> Sessions \cup {None}] /\ pc' \in [Actors -> Labels]
  BY <1>1, <1>2, <1>3, <1>4 DEF TypeOK, Labels
<1>7. \A b \in Actors : b # n => EventOf(b)' = EventOf(b)
  BY <1>6, Constants DEF EventOf
<1>8. /\ socket' \in [Sessions -> Sockets] /\ completion' \in SUBSET Sessions
      /\ \A x \in Sessions :
           /\ x \in Orphans => socket'[x] = "none" /\ socket[x] # "connected"
           /\ x \notin Orphans => socket'[x] = IF x = n THEN "created" ELSE socket[x]
           /\ x \notin Orphans => (x \in completion' <=> x \in completion)
           /\ x # n => (socket'[x] = "offered" \/ x \in completion'
                          <=> socket[x] = "offered" \/ x \in completion)
      /\ ~(socket'[n] = "offered" \/ n \in completion')
      /\ \A f \in Events : acceptSession'[f] \notin Orphans
      /\ \A b \in Actors : session'[b] \notin Orphans /\ fresh'[b] \notin Orphans
  BY <1>1, DestroyEffect
<1>9. socket'[n] = "created"
  BY <1>4, <1>6, <1>8
<1>10. TypeOK'
  BY <1>1, <1>2, <1>3, <1>6, <1>8 DEF TypeOK
<1>11. \A b \in Actors : Shape(b)'
  <2>1. Shape(n)'
    BY <1>1, <1>2, <1>3, <1>4, <1>6 DEF Shape, Holding
  <2>2. ASSUME NEW b \in Actors, b # n, session[b] # None,
               socket[session[b]] \in {"arrived", "connected"}
        PROVE  socket'[session[b]] \in {"arrived", "connected"}
    BY <1>1, <1>3, <1>5, <1>8, <2>2 DEF TypeOK
  <2>3. Shape(a)'
    BY <1>1, <1>2, <1>3, <1>4, <1>6, <1>7, <2>2 DEF Shape, Holding
  <2>4. ASSUME NEW b \in Actors, b # n, b # a PROVE Shape(b)'
    <3>1. Shape(b) /\ pc'[b] = pc[b] /\ back'[b] = back[b] /\ session'[b] = session[b]
          /\ fresh'[b] = fresh[b] /\ EventOf(b)' = EventOf(b)
      BY <1>1, <1>2, <1>6, <1>7, <2>4 DEF Inv
    <3> QED BY <2>2, <2>4, <3>1 DEF Shape, Holding
  <2> QED BY <2>1, <2>3, <2>4
<1>12. Alive'
  <2>1. ASSUME NEW f \in Events, acceptSession'[f] # None
        PROVE  socket'[acceptSession'[f]] # "none" /\ eventOf'[acceptSession'[f]] = f
    <3>1. CASE f = e
      BY <1>6, <1>9, <3>1
    <3>2. CASE f # e
      <4>1. /\ acceptSession'[f] = acceptSession[f] /\ acceptSession[f] \in Sessions
            /\ acceptSession[f] # n /\ acceptSession[f] \notin Orphans
        BY <1>3, <1>5, <1>6, <1>8, <2>1, <3>2 DEF TypeOK
      <4>2. socket[acceptSession[f]] # "none" /\ eventOf[acceptSession[f]] = f
        BY <2>1, <4>1 DEF Inv, Alive
      <4> QED BY <1>6, <1>8, <4>1, <4>2
    <3> QED BY <3>1, <3>2
  <2>2. ASSUME NEW b \in Actors, session'[b] # None
        PROVE  socket'[session'[b]] # "none" /\ eventOf'[session'[b]] = EventOf(b)'
    <3>1. /\ session'[b] = session[b] /\ session[b] \in Sessions /\ b # n
          /\ session[b] # n /\ session[b] \notin Orphans
      BY <1>1, <1>3, <1>4, <1>5, <1>8, <2>2 DEF TypeOK
    <3>2. socket[session[b]] # "none" /\ eventOf[session[b]] = EventOf(b)
      BY <2>2, <3>1 DEF Inv, Alive
    <3> QED BY <1>6, <1>7, <1>8, <3>1, <3>2
  <2>3. ASSUME NEW b \in Actors, fresh'[b] # None
        PROVE  /\ socket'[fresh'[b]] = "created" /\ eventOf'[fresh'[b]] = EventOf(b)'
               /\ acceptSession'[EventOf(b)'] # None
    <3>1. CASE b = a
      BY <1>3, <1>4, <1>6, <1>7, <1>9, <3>1 DEF e
    <3>2. CASE b # a
      <4>1. /\ fresh'[b] = fresh[b] /\ fresh[b] \in Sessions /\ b # n
            /\ fresh[b] # n /\ fresh[b] \notin Orphans
        BY <1>3, <1>4, <1>5, <1>6, <1>8, <2>3, <3>2 DEF TypeOK
      <4>2. /\ socket[fresh[b]] = "created" /\ eventOf[fresh[b]] = EventOf(b)
            /\ acceptSession[EventOf(b)] # None
        BY <2>3, <4>1 DEF Inv, Alive
      <4>3. EventOf(b) \in Events
        BY <1>3, <2>3, <4>1 DEF Inv, Shape
      <4> QED BY <1>3, <1>6, <1>7, <1>8, <4>1, <4>2, <4>3
    <3> QED BY <3>1, <3>2
  <2>4. ASSUME NEW b \in Actors, NEW d \in Actors, fresh'[b] # None, fresh'[b] = fresh'[d]
        PROVE  b = d
    BY <1>5, <1>6, <2>4 DEF Inv, Alive
  <2> QED BY <2>1, <2>2, <2>3, <2>4 DEF Alive
<1>13. \A x \in Sessions : Awaited(x)'
  <2> SUFFICES ASSUME NEW x \in Sessions PROVE Awaited(x)'
    OBVIOUS
  <2>1. CASE x = n
    <3>1. pc'[n] = "idle" /\ n \notin completion'
      BY <1>1, <1>3, <1>4, <1>6, <1>8
    <3> QED BY <1>8, <1>9, <2>1, <3>1 DEF Awaited
  <2>2. CASE x # n
    <3>1. Awaited(x) /\ x \in Actors
      BY Constants DEF Inv
    <3>2. x = a => ~(x \in completion \/ socket[x] \in {"created", "offered"})
      BY <1>2, <3>1 DEF Awaited
    <3>3. x \in completion' \/ socket'[x] \in {"created", "offered"} =>
            x \in completion \/ socket[x] \in {"created", "offered"}
      BY <1>8, <2>2
    <3>4. socket'[x] \in {"created", "offered"} =>
            x \notin Orphans /\ socket[x] \in {"created", "offered"} /\ x \notin completion'
      BY <1>8, <2>2, <3>1 DEF Awaited
    <3>5. eventOf'[x] = eventOf[x] /\ (x # a => pc'[x] = pc[x])
      BY <1>6, <2>2, <3>1
    <3>6. x \in completion' \/ socket'[x] = "offered" =>
            eventOf[x] \in Events /\ acceptSession[eventOf[x]] # None
      BY <1>8, <2>2, <3>1 DEF Awaited
    <3>7. \A f \in Events : acceptSession[f] # None => acceptSession'[f] # None
      BY <1>3, <1>6
    <3> QED BY <3>1, <3>2, <3>3, <3>4, <3>5, <3>6, <3>7 DEF Awaited
  <2> QED BY <2>1, <2>2
<1>14. RegistrationsAddUp'
  <2> SUFFICES ASSUME NEW f \in Events
               PROVE  /\ Outstanding(f)' = Outstanding(f) /\ Busy(f)' = Busy(f)
                      /\ Again(f)' = Again(f)
    BY <1>2 DEF Inv, RegistrationsAddUp
  <2>1. \A x \in Sessions : x \in Outstanding(f)' <=> x \in Outstanding(f)
    BY <1>1, <1>6, <1>8 DEF Outstanding
  <2>2. \A b \in Actors : b \in Busy(f)' <=> b \in Busy(f)
    BY <1>1, <1>2, <1>4, <1>6, <1>7 DEF Busy
  <2>3. Outstanding(f)' = Outstanding(f)
    BY <2>1 DEF Outstanding
  <2>4. Busy(f)' = Busy(f)
    BY <2>2 DEF Busy
  <2> QED BY <1>2, <2>3, <2>4 DEF Again
<1> QED BY <1>10, <1>11, <1>12, <1>13, <1>14 DEF Inv

\* RegisterAccept lets go of its new session: AcceptEx has been called, or has failed.
LEMMA AcceptReturns ==
    ASSUME Inv, NEW a \in Actors, pc[a] = "accept",
           NEW label \in {"idle", "connect", "register"}, NEW to \in {"idle", "connect"},
           NEW c \in {None, session[a]}, NEW state \in {"created", "offered"},
           Destroy(fresh[a], state), pc' = [pc EXCEPT ![a] = label],
           back' = [back EXCEPT ![a] = to], session' = [session EXCEPT ![a] = c],
           fresh' = [fresh EXCEPT ![a] = None], UNCHANGED <<acceptSession, eventOf, vanished>>,
           label = "register" => to = back[a] /\ c = session[a],
           label # "register" => label = back[a] /\ to = "idle",
           label = "idle" <=> label # "register" /\ c = None
    PROVE  /\ TypeOK' /\ Alive'
           /\ \A b \in Actors : Shape(b)'
           /\ \A x \in Sessions : Awaited(x)'
<1> DEFINE n == fresh[a]
<1>1. TypeOK /\ Shape(a) /\ n \in Sessions /\ n \in Actors
  <2>1. TypeOK /\ Shape(a) /\ n \in Sessions \cup {None}
    BY Locals
  <2>2. n # None
    BY <2>1 DEF Shape
  <2> QED BY <2>1, <2>2, Constants
<1>2. /\ socket[n] = "created" /\ eventOf[n] = EventOf(a)
      /\ EventOf(a) \in Events /\ acceptSession[EventOf(a)] # None
  BY <1>1, Constants DEF Inv, Alive, Shape
<1>3. pc[n] = "idle" /\ n \notin completion /\ n # a
  BY <1>1, <1>2 DEF Inv, Awaited
<1>4. \A b \in Actors : b # a => fresh[b] # n
  BY <1>1, Constants DEF Inv, Alive
<1>5. /\ socket' \in [Sessions -> Sockets] /\ completion' \in SUBSET Sessions
      /\ \A x \in Sessions :
           /\ x \in Orphans => socket'[x] = "none" /\ socket[x] # "connected"
           /\ x \notin Orphans => socket'[x] = IF x = n THEN state ELSE socket[x]
           /\ x \notin Orphans => (x \in completion' <=> x \in completion)
           /\ x # n => (socket'[x] = "offered" \/ x \in completion'
                          <=> socket[x] = "offered" \/ x \in completion)
      /\ \A e \in Events : acceptSession'[e] \notin Orphans
      /\ \A b \in Actors : session'[b] \notin Orphans /\ fresh'[b] \notin Orphans
  BY <1>1, <1>2, <1>3, DestroyEffect
<1> HIDE DEF n
<1>6. /\ pc'[a] = label /\ back'[a] = to /\ session'[a] = c /\ fresh'[a] = None
      /\ \A b \in Actors : b # a => /\ pc'[b] = pc[b] /\ back'[b] = back[b]
                                    /\ session'[b] = session[b] /\ fresh'[b] = fresh[b]
  BY <1>1 DEF TypeOK
<1>7. TypeOK'
  BY <1>1, <1>5 DEF TypeOK, Labels
<1>8. \A b \in Actors : EventOf(b)' = EventOf(b)
  BY DEF EventOf
<1>9. \A b \in Actors : session'[b] # None => session'[b] = session[b]
  BY <1>6
<1>10. \A b \in Actors : Shape(b)'
  <2>1. ASSUME NEW b \in Actors, session'[b] # None, socket[session[b]] \in {"arrived", "connected"}
        PROVE  socket'[session'[b]] \in {"arrived", "connected"}
    BY <1>1, <1>2, <1>5, <1>9, <2>1 DEF TypeOK
  <2>2. Shape(a)'
    <3>1. back[a] \in {"idle", "connect"} /\ back[a] = "connect" => Holding(a)
      BY <1>1 DEF TypeOK, Holding
    <3>2. label = "connect" \/ to = "connect" => Holding(a) /\ c # None
      BY <1>1, <3>1 DEF Shape, Holding
    <3>3. Holding(a)' => label = "connect" \/ to = "connect"
      BY <1>6 DEF Holding
    <3> QED BY <1>1, <1>2, <1>6, <1>8, <1>9, <2>1, <3>2, <3>3 DEF Shape
  <2>3. ASSUME NEW b \in Actors, b # a PROVE Shape(b)'
    BY <1>6, <1>8, <2>1, <2>3 DEF Inv, Shape, Holding
  <2> QED BY <2>2, <2>3
<1>11. Alive'
  <2>1. ASSUME NEW x \in Sessions, socket[x] # "none", x \notin Orphans PROVE socket'[x] # "none"
    BY <1>5, <2>1
  <2>2. ASSUME NEW e \in Events, acceptSession'[e] # None
        PROVE  socket'[acceptSession'[e]] # "none" /\ eventOf'[acceptSession'[e]] = e
    BY <1>1, <1>5, <2>1, <2>2 DEF Inv, Alive, TypeOK
  <2>3. ASSUME NEW b \in Actors, session'[b] # None
        PROVE  socket'[session'[b]] # "none" /\ eventOf'[session'[b]] = EventOf(b)'
    BY <1>1, <1>5, <1>8, <1>9, <2>1, <2>3 DEF Inv, Alive, TypeOK
  <2>4. ASSUME NEW b \in Actors, fresh'[b] # None
        PROVE  /\ b # a /\ fresh'[b] = fresh[b] /\ fresh[b] \in Sessions
               /\ socket'[fresh'[b]] = "created" /\ eventOf'[fresh'[b]] = EventOf(b)'
               /\ acceptSession'[EventOf(b)'] # None
    <3>1. b # a /\ fresh'[b] = fresh[b] /\ fresh[b] \in Sessions /\ fresh[b] # n
      BY <1>1, <1>4, <1>6, <2>4 DEF TypeOK
    <3> QED BY <1>5, <1>8, <2>4, <3>1 DEF Inv, Alive
  <2>5. ASSUME NEW b \in Actors, NEW d \in Actors, fresh'[b] # None, fresh'[b] = fresh'[d]
        PROVE  b = d
    BY <2>4, <2>5 DEF Inv, Alive
  <2> QED BY <2>2, <2>3, <2>4, <2>5 DEF Alive
<1>12. \A x \in Sessions : Awaited(x)'
  <2> SUFFICES ASSUME NEW x \in Sessions PROVE Awaited(x)'
    OBVIOUS
  <2>1. x \in Actors /\ Awaited(x)
    BY Constants DEF Inv
  <2>2. CASE x = n
    BY <1>1, <1>2, <1>3, <1>5, <1>6, <2>2 DEF Awaited
  <2>3. CASE x # n
    <3>1. x \in completion' \/ socket'[x] \in {"created", "offered"} =>
            x \in completion \/ socket[x] \in {"created", "offered"}
      BY <1>5, <2>3
    <3>2. socket'[x] \in {"created", "offered"} =>
            x \notin Orphans /\ socket[x] \in {"created", "offered"} /\ x \notin completion'
      BY <1>5, <2>1, <2>3 DEF Awaited
    <3> QED BY <1>5, <1>6, <2>1, <2>3, <3>1, <3>2 DEF Awaited
  <2> QED BY <2>2, <2>3
<1> QED BY <1>7, <1>10, <1>11, <1>12

\* AcceptEx is called: one call more, and one actor, or one registration to come, less.
LEMMA AcceptExInv == ASSUME Inv, NEW a \in Actors, AcceptEx(a) PROVE Inv'
<1> DEFINE n == fresh[a]
           e == EventOf(a)
<1>1. /\ pc[a] = "accept" /\ pc' = [pc EXCEPT ![a] = back[a]]
      /\ back' = [back EXCEPT ![a] = "idle"] /\ fresh' = [fresh EXCEPT ![a] = None]
      /\ session' = [session EXCEPT ![a] = IF back[a] = "idle" THEN None ELSE session[a]]
      /\ UNCHANGED <<acceptSession, eventOf, vanished>> /\ Destroy(n, "offered")
  BY DEF AcceptEx, Goto
<1>2. /\ TypeOK /\ Shape(a) /\ back[a] \in {"idle", "connect"} /\ n \in Sessions /\ n \in Actors
      /\ e \in Events /\ (back[a] = "connect" => session[a] # None)
  <2>1. TypeOK /\ Shape(a) /\ back[a] \in {"idle", "connect"} /\ n \in Sessions \cup {None}
    BY Locals
  <2> QED BY <1>1, <2>1, Constants DEF Shape, Holding
<1>3. /\ socket[n] = "created" /\ eventOf[n] = e /\ pc[n] = "idle" /\ n \notin completion
      /\ n # a
  <2>1. socket[n] = "created" /\ eventOf[n] = e
    BY <1>2, Constants DEF Inv, Alive
  <2> QED BY <1>1, <1>2, <2>1 DEF Inv, Awaited
<1>4. /\ TypeOK' /\ Alive' /\ (\A b \in Actors : Shape(b)') /\ (\A x \in Sessions : Awaited(x)')
  <2>1. CASE back[a] = "idle"
    BY <1>1, <2>1, AcceptReturns
  <2>2. CASE back[a] = "connect"
    BY <1>1, <1>2, <2>2, AcceptReturns
  <2> QED BY <1>2, <2>1, <2>2
<1>5. /\ \A x \in Sessions : x # n => (socket'[x] = "offered" \/ x \in completion'
                                         <=> socket[x] = "offered" \/ x \in completion)
      /\ socket'[n] = "offered" \/ n \in completion'
  BY <1>1, <1>2, <1>3, DestroyEffect
<1> HIDE DEF n, e
<1>6. RegistrationsAddUp'
  <2> SUFFICES ASSUME NEW f \in Events
               PROVE  Cardinality(Outstanding(f)') + Cardinality(Busy(f)') + Cardinality(Again(f)')
                        = 1 + vanished[f]
    BY <1>1 DEF RegistrationsAddUp
  <2>1. \A b \in Actors : EventOf(b)' = EventOf(b)
    BY <1>1 DEF EventOf
  <2>2. /\ pc'[a] = back[a] /\ back'[a] = "idle"
        /\ \A b \in Actors : b # a => pc'[b] = pc[b] /\ back'[b] = back[b]
    BY <1>1, <1>2 DEF TypeOK
  <2>3. Cardinality(Outstanding(f)) + Cardinality(Busy(f)) + Cardinality(Again(f)) = 1 + vanished[f]
    BY DEF Inv, RegistrationsAddUp
  <2>4. CASE f # e
    <3>1. \A x \in Sessions : x \in Outstanding(f)' <=> x \in Outstanding(f)
      BY <1>1, <1>3, <1>5, <2>4 DEF Outstanding
    <3>2. \A b \in Actors : /\ b \in Busy(f)' <=> b \in Busy(f)
                            /\ b \in Again(f)' <=> b \in Again(f)
      BY <2>1, <2>2, <2>4 DEF Busy, Again, e
    <3>3. Outstanding(f)' = Outstanding(f)
      BY <3>1 DEF Outstanding
    <3>4. Busy(f)' = Busy(f)
      BY <3>2 DEF Busy
    <3>5. Again(f)' = Again(f)
      BY <3>2 DEF Again, Busy
    <3> QED BY <2>3, <3>3, <3>4, <3>5
  <2>5. CASE f = e
    <3>1. \A x \in Sessions : x \in Outstanding(f)' <=> x \in Outstanding(f) \/ x = n
      BY <1>1, <1>3, <1>5, <2>5 DEF Outstanding
    <3>2. Outstanding(f)' = Outstanding(f) \cup {n} /\ n \notin Outstanding(f)
      BY <1>2, <1>3, <3>1 DEF Outstanding
    <3>3. Cardinality(Outstanding(f)') = Cardinality(Outstanding(f)) + 1
      BY <3>2, CallsFinite, OneMore
    <3>4. a \in Busy(f)
      BY <1>1, <2>5 DEF Busy, e
    <3>5. CASE back[a] = "idle"
      <4>1. \A b \in Actors : /\ b \in Busy(f)' <=> b \in Busy(f) /\ b # a
                              /\ b \in Again(f)' <=> b \in Again(f)
        BY <2>1, <2>2, <3>5 DEF Busy, Again
      <4>2. Busy(f)' = Busy(f) \ {a}
        BY <4>1 DEF Busy
      <4>3. Again(f)' = Again(f)
        BY <4>1 DEF Again, Busy
      <4>4. Cardinality(Busy(f)') = Cardinality(Busy(f)) - 1
        BY <3>4, <4>2, CallsFinite, OneLess
      <4> QED BY ONLY <2>3, <3>3, <4>3, <4>4, CallsFinite, f \in Events
    <3>6. CASE back[a] = "connect"
      <4>1. \A b \in Actors : /\ b \in Busy(f)' <=> b \in Busy(f)
                              /\ b \in Again(f)' <=> b \in Again(f) /\ b # a
        BY <1>1, <2>1, <2>2, <3>6 DEF Busy, Again
      <4>2. Busy(f)' = Busy(f)
        BY <4>1 DEF Busy
      <4>3. Again(f)' = Again(f) \ {a} /\ a \in Again(f)
        BY <3>4, <3>6, <4>1 DEF Again, Busy
      <4>4. Cardinality(Again(f)') = Cardinality(Again(f)) - 1
        BY <4>3, CallsFinite, OneLess
      <4> QED BY ONLY <2>3, <3>3, <4>2, <4>4, CallsFinite, f \in Events
    <3> QED BY <1>2, <3>5, <3>6
  <2> QED BY <2>4, <2>5
<1> QED BY <1>4, <1>6 DEF Inv

\* AcceptEx fails: the registration begins once more.
LEMMA AcceptExFailsInv == ASSUME Inv, NEW a \in Actors, AcceptExFails(a) PROVE Inv'
<1> DEFINE n == fresh[a]
<1>1. /\ pc[a] = "accept" /\ pc' = [pc EXCEPT ![a] = "register"]
      /\ fresh' = [fresh EXCEPT ![a] = None]
      /\ UNCHANGED <<acceptSession, eventOf, back, session, vanished>> /\ Destroy(n, "created")
  BY DEF AcceptExFails, Goto
<1>2. /\ TypeOK /\ back[a] \in {"idle", "connect"} /\ n \in Sessions /\ n \in Actors
      /\ back' = [back EXCEPT ![a] = back[a]] /\ session' = [session EXCEPT ![a] = session[a]]
  <2>1. TypeOK /\ Shape(a) /\ back[a] \in {"idle", "connect"} /\ n \in Sessions \cup {None}
    BY Locals
  <2> QED BY <1>1, <2>1, Constants DEF Shape, TypeOK
<1>3. socket[n] = "created" /\ n \notin completion
  BY <1>2, Constants DEF Inv, Alive, Awaited
<1>4. /\ TypeOK' /\ Alive' /\ (\A b \in Actors : Shape(b)') /\ (\A x \in Sessions : Awaited(x)')
  BY <1>1, <1>2, AcceptReturns
<1>5. /\ \A x \in Sessions : x # n => (socket'[x] = "offered" \/ x \in completion'
                                         <=> socket[x] = "offered" \/ x \in completion)
      /\ ~(socket'[n] = "offered" \/ n \in completion')
  BY <1>1, <1>2, <1>3, DestroyEffect
<1> HIDE DEF n
<1>6. RegistrationsAddUp'
  <2>1. \A x \in Sessions : socket'[x] = "offered" \/ x \in completion'
                              <=> socket[x] = "offered" \/ x \in completion
    BY <1>3, <1>5
  <2>2. \A b \in Actors : (pc'[b] = "idle" <=> pc[b] = "idle") /\ back'[b] = back[b]
    BY <1>1, <1>2 DEF TypeOK
  <2> QED BY <1>1, <2>1, <2>2, SameCalls
<1> QED BY <1>4, <1>6 DEF Inv

\* Every step preserves Inv.
LEMMA NextInv == Inv /\ [Next]_vars => Inv'
<1> SUFFICES ASSUME Inv, [Next]_vars PROVE Inv'
  OBVIOUS
<1>1. CASE UNCHANGED vars
  <2>1. TypeOK' /\ Alive' /\ (\A a \in Actors : Shape(a)') /\ \A s \in Sessions : Awaited(s)'
    BY <1>1 DEF Inv, TypeOK, Alive, Shape, Holding, Awaited, EventOf, vars
  <2>2. RegistrationsAddUp'
    BY <1>1 DEF Inv, RegistrationsAddUp, Outstanding, Busy, Again, EventOf, vars
  <2> QED BY <2>1, <2>2 DEF Inv
<1>2. CASE Next
  BY <1>2, ArriveInv, DispatchInv, UpdateInv, ProcessConnectInv, RegisterAcceptInv,
     AcceptExInv, AcceptExFailsInv DEF Next
<1> QED BY <1>1, <1>2

\* The registrations of every accept event add up: none is forgotten, and only a
\* getpeername that fails adds one.
THEOREM NoEventForgotten == Spec => []RegistrationsAddUp
<1>1. Inv => RegistrationsAddUp
  BY DEF Inv
<1> QED BY <1>1, InitInv, NextInv, PTL DEF Spec

-----------------------------------------------------------------------------
(* A completion connects the session that completed.                       *)

\* While getpeername has not failed an event has one call or one actor.
LEMMA OneCall ==
    ASSUME Inv, NEW e \in Events, vanished[e] = 0, NEW a \in Busy(e)
    PROVE  /\ Outstanding(e) = {}
           /\ \A b \in Busy(e) : b = a /\ back[b] = "idle"
<1>1. Cardinality(Outstanding(e)) + Cardinality(Busy(e)) + Cardinality(Again(e)) = 1
  BY DEF Inv, RegistrationsAddUp
<1>2. Cardinality(Busy(e) \ {a}) = Cardinality(Busy(e)) - 1 /\ IsFiniteSet(Busy(e) \ {a})
  BY CallsFinite, FS_RemoveElement
<1>3. Cardinality(Busy(e) \ {a}) \in Nat
  BY <1>2, FS_CardinalityType
<1>4. /\ Cardinality(Outstanding(e)) = 0 /\ Cardinality(Busy(e) \ {a}) = 0
      /\ Cardinality(Again(e)) = 0
  BY <1>1, <1>2, <1>3, CallsFinite
<1>5. Outstanding(e) = {} /\ Busy(e) \ {a} = {} /\ Again(e) = {}
  BY <1>2, <1>4, CallsFinite, FS_EmptySet
<1>6. \A b \in Busy(e) : back[b] # "connect" /\ b \in Actors
  BY <1>5 DEF Again, Busy
<1> QED BY <1>5, <1>6 DEF Inv, TypeOK

\* What Own says of one session of an event for which getpeername has not failed.
LEMMA OwnOf ==
    ASSUME Own, NEW s \in Sessions, eventOf[s] \in Events, vanished[eventOf[s]] = 0
    PROVE  /\ socket[s] = "offered" \/ Due(s) => acceptSession[eventOf[s]] = s
           /\ Due(s) => socket[s] = "arrived"
           /\ pc[s] \in {"update", "peername", "connect"} => session[s] = s
BY DEF Own

\* A step of ProcessAccept before ProcessConnect.
LEMMA HandlerOwn ==
    ASSUME Inv, Own, NEW s \in Sessions, UpdateFails(s) \/ UpdateSucceeds(s) \/ GetPeerName(s)
    PROVE  Own'
<1>1. /\ UNCHANGED <<acceptSession, socket, eventOf, completion, session, fresh>>
      /\ pc[s] \in {"update", "peername"}
      /\ \E label \in {"peername", "connect", "register"} : pc' = [pc EXCEPT ![s] = label]
      /\ vanished' = vanished \/ vanished' = [vanished EXCEPT ![eventOf[s]] = @ + 1]
  BY DEF UpdateFails, UpdateSucceeds, GetPeerName, Register, Goto
<1>2. TypeOK /\ Shape(s) /\ s \in Actors
  BY Locals, Constants
<1>3. /\ \A a \in Actors : a # s => pc'[a] = pc[a]
      /\ pc'[s] \in {"peername", "connect", "register"}
  BY <1>1, <1>2 DEF TypeOK
<1>4. \A e \in Events : vanished'[e] = 0 => vanished[e] = 0
  BY <1>1, <1>2 DEF TypeOK
<1>5. \A x \in Sessions : /\ Due(x)' => Due(x)
                          /\ pc'[x] \in {"update", "peername", "connect"} =>
                               pc[x] \in {"update", "peername", "connect"}
  BY <1>1, <1>3, Constants DEF Due
<1>6. ASSUME NEW a \in Actors, pc'[a] = "accept", vanished'[EventOf(a)'] = 0
      PROVE  acceptSession'[EventOf(a)'] = fresh'[a]
  <2>1. pc[a] = "accept" /\ EventOf(a)' = EventOf(a)
    BY <1>1, <1>3, <1>6 DEF EventOf
  <2>2. EventOf(a) \in Events
    BY <2>1 DEF Inv, Shape
  <2> QED BY <1>1, <1>4, <1>6, <2>1, <2>2 DEF Own
<1> QED BY <1>1, <1>4, <1>5, <1>6 DEF Own

\* What RegisterAccept does to the sessions that it has not created.
LEMMA OthersOwn ==
    ASSUME Inv, Own, NEW n \in Sessions, NEW state \in {"created", "offered"},
           Destroy(n, state), socket[n] \in {"none", "created"}, n \notin completion,
           NEW x \in Sessions, x # n, eventOf[x] \in Events, vanished[eventOf[x]] = 0,
           socket'[x] = "offered" \/ x \in completion' \/ pc[x] \in {"update", "peername", "connect"},
           acceptSession'[eventOf[x]] = acceptSession[eventOf[x]]
    PROVE  /\ acceptSession'[eventOf[x]] = x
           /\ x \in completion' \/ pc[x] \in {"update", "peername", "connect"} =>
                socket'[x] = "arrived"
<1>1. socket[x] = "offered" \/ Due(x)
  BY DestroyEffect DEF Due
<1>2. acceptSession[eventOf[x]] = x
  BY <1>1, OwnOf
<1>3. x \notin Orphans
  BY <1>2, DestroyEffect
<1>4. socket'[x] = socket[x] /\ (x \in completion' <=> x \in completion)
  BY <1>3, DestroyEffect
<1>5. Due(x) => socket[x] = "arrived"
  BY OwnOf
<1> QED BY <1>2, <1>4, <1>5 DEF Due

\* An event that has an actor in RegisterAccept has no call and no other actor, so that
\* the session it refers to may be replaced.
LEMMA RegisterAcceptOwn == ASSUME Inv, Own, NEW a \in Actors, RegisterAccept(a) PROVE Own'
<1> DEFINE e == EventOf(a)
<1>1. PICK n \in Sessions :
        /\ socket[n] = "none" /\ n \notin completion /\ pc[n] = "idle"
        /\ acceptSession' = [acceptSession EXCEPT ![e] = n]
        /\ eventOf' = [eventOf EXCEPT ![n] = e]
        /\ fresh' = [fresh EXCEPT ![a] = n]
        /\ session' = session
        /\ Destroy(n, "created")
  BY DEF RegisterAccept
<1>2. /\ pc[a] = "register" /\ pc' = [pc EXCEPT ![a] = "accept"]
      /\ back' = back /\ vanished' = vanished
  BY DEF RegisterAccept, Goto
<1>3. /\ TypeOK /\ n \in Actors /\ e \in Events /\ a # n /\ a \in Busy(e)
  <2>1. TypeOK /\ Shape(a)
    BY Locals
  <2> QED BY <1>1, <1>2, <2>1, Constants DEF Shape, Busy
<1> HIDE DEF e
<1>4. /\ acceptSession'[e] = n /\ \A f \in Events : f # e => acceptSession'[f] = acceptSession[f]
      /\ eventOf'[n] = e /\ \A x \in Sessions : x # n => eventOf'[x] = eventOf[x]
      /\ fresh'[a] = n /\ \A b \in Actors : b # a => fresh'[b] = fresh[b]
      /\ pc'[a] = "accept" /\ \A b \in Actors : b # a => pc'[b] = pc[b]
  BY <1>1, <1>2, <1>3 DEF TypeOK
<1>5. \A b \in Actors : b # n => EventOf(b)' = EventOf(b)
  BY <1>4, Constants DEF EventOf
<1>6. /\ n \notin completion' /\ socket'[n] # "offered"
      /\ \A x \in Sessions : x # n => (socket'[x] = "offered" \/ x \in completion'
                                         <=> socket[x] = "offered" \/ x \in completion)
  BY <1>1, DestroyEffect
<1>7. ASSUME NEW x \in Sessions, eventOf'[x] \in Events, vanished'[eventOf'[x]] = 0
      PROVE  /\ socket'[x] = "offered" \/ Due(x)' => acceptSession'[eventOf'[x]] = x
             /\ Due(x)' => socket'[x] = "arrived"
             /\ pc'[x] \in {"update", "peername", "connect"} => session'[x] = x
  <2>1. CASE x = n
    BY <1>1, <1>3, <1>4, <1>6, <2>1 DEF Due
  <2>2. CASE x # n /\ eventOf[x] = e
    <3>1. ~(socket[x] = "offered" \/ x \in completion)
      BY <1>2, <1>3, <1>4, <1>7, <2>2, OneCall DEF Outstanding
    <3>2. pc'[x] \notin {"update", "peername", "connect"}
      <4>1. x = a \/ pc[x] = "idle"
        BY <1>2, <1>3, <1>4, <1>7, <2>2, OneCall, EventOfSession, Constants DEF Busy
      <4> QED BY <1>4, <4>1, Constants
    <3> QED BY <1>6, <2>2, <3>1, <3>2 DEF Due
  <2>3. CASE x # n /\ eventOf[x] # e
    <3>1. /\ eventOf'[x] = eventOf[x] /\ vanished[eventOf[x]] = 0 /\ eventOf[x] \in Events
          /\ acceptSession'[eventOf[x]] = acceptSession[eventOf[x]] /\ session'[x] = session[x]
      BY <1>1, <1>2, <1>4, <1>7, <2>3
    <3>2. pc'[x] \in {"update", "peername", "connect"} =>
            pc[x] \in {"update", "peername", "connect"}
      BY <1>4, Constants
    <3>3. pc[x] \in {"update", "peername", "connect"} => session[x] = x
      BY <3>1, OwnOf
    <3>4. socket'[x] = "offered" \/ Due(x)' =>
            /\ acceptSession'[eventOf[x]] = x
            /\ x \in completion' \/ pc[x] \in {"update", "peername", "connect"} =>
                 socket'[x] = "arrived"
      BY <1>1, <2>3, <3>1, <3>2, OthersOwn DEF Due
    <3> QED BY <3>1, <3>2, <3>3, <3>4 DEF Due
  <2> QED BY <2>1, <2>2, <2>3
<1>8. ASSUME NEW b \in Actors, pc'[b] = "accept", vanished'[EventOf(b)'] = 0
      PROVE  acceptSession'[EventOf(b)'] = fresh'[b]
  <2>1. CASE b = a
    BY <1>3, <1>4, <1>5, <2>1 DEF e
  <2>2. CASE b # a
    <3>1. b # n /\ pc[b] = "accept" /\ EventOf(b)' = EventOf(b) /\ fresh'[b] = fresh[b]
      BY <1>1, <1>3, <1>4, <1>5, <1>8, <2>2
    <3>2. EventOf(b) \in Events
      BY <3>1 DEF Inv, Shape
    <3>3. EventOf(b) # e
      BY <1>2, <1>3, <1>8, <2>2, <3>1, OneCall DEF Busy
    <3> QED BY <1>2, <1>4, <1>8, <3>1, <3>2, <3>3 DEF Own
  <2> QED BY <2>1, <2>2
<1> QED BY <1>7, <1>8 DEF Own

\* AcceptEx is called, or fails: the event still refers to the session offered.
LEMMA AcceptOwn ==
    ASSUME Inv, Own, NEW a \in Actors, AcceptEx(a) \/ AcceptExFails(a)
    PROVE  Own'
<1> DEFINE n == fresh[a]
           e == EventOf(a)
<1>1. PICK state \in {"created", "offered"} :
        /\ pc[a] = "accept" /\ UNCHANGED <<acceptSession, eventOf, vanished>>
        /\ fresh' = [fresh EXCEPT ![a] = None]
        /\ pc' = [pc EXCEPT ![a] = IF state = "offered" THEN back[a] ELSE "register"]
        /\ \/ session' = session
           \/ back[a] = "idle" /\ session' = [session EXCEPT ![a] = None]
        /\ Destroy(n, state)
  <2>1. CASE AcceptExFails(a)
    BY <2>1 DEF AcceptExFails, Goto
  <2>2. CASE AcceptEx(a)
    <3>1. TypeOK
      BY DEF Inv
    <3>2. session[a] = session[a] /\ session = [session EXCEPT ![a] = session[a]]
      BY <3>1 DEF TypeOK
    <3> QED BY <2>2, <3>2 DEF AcceptEx, Goto
  <2> QED BY <2>1, <2>2
<1>2. /\ TypeOK /\ back[a] \in {"idle", "connect"} /\ n \in Sessions /\ n \in Actors
      /\ e \in Events /\ a \in Busy(e)
  <2>1. TypeOK /\ Shape(a) /\ back[a] \in {"idle", "connect"} /\ n \in Sessions \cup {None}
    BY Locals
  <2> QED BY <1>1, <2>1, Constants DEF Shape, Busy
<1>3. /\ socket[n] = "created" /\ eventOf[n] = e /\ pc[n] = "idle" /\ n \notin completion
      /\ n # a
  <2>1. socket[n] = "created" /\ eventOf[n] = e
    BY <1>2, Constants DEF Inv, Alive
  <2> QED BY <1>1, <1>2, <2>1 DEF Inv, Awaited
<1> HIDE DEF n
<1>4. /\ pc'[a] \in {"idle", "connect", "register"} /\ (back[a] = "idle" => pc'[a] # "connect")
      /\ fresh'[a] = None
      /\ \A b \in Actors : b # a => /\ pc'[b] = pc[b] /\ fresh'[b] = fresh[b]
                                    /\ session'[b] = session[b]
  BY <1>1, <1>2 DEF TypeOK
<1>5. \A b \in Actors : EventOf(b)' = EventOf(b)
  BY <1>1 DEF EventOf
<1>6. vanished[e] = 0 => acceptSession[e] = n /\ pc'[a] # "connect"
  <2>1. vanished[e] = 0 => back[a] = "idle"
    BY <1>2, OneCall
  <2> QED BY <1>1, <1>4, <2>1 DEF Own, n
<1> HIDE DEF e
<1>7. \A x \in Sessions : eventOf[x] \in Events /\ vanished[eventOf[x]] = 0 =>
        (pc'[x] \in {"update", "peername", "connect"} =>
           x # a /\ pc[x] \in {"update", "peername", "connect"} /\ session'[x] = session[x])
  BY <1>4, <1>6, EventOfSession, Constants DEF e
<1>8. ASSUME NEW x \in Sessions, eventOf[x] \in Events, vanished[eventOf[x]] = 0
      PROVE  /\ socket'[x] = "offered" \/ Due(x)' => acceptSession'[eventOf[x]] = x
             /\ Due(x)' => socket'[x] = "arrived"
             /\ pc'[x] \in {"update", "peername", "connect"} => session'[x] = x
  <2>1. CASE x = n
    <3>1. acceptSession'[eventOf[x]] = n
      BY <1>1, <1>3, <1>6, <1>8, <2>1
    <3>2. n \notin completion'
      BY <1>1, <1>2, <1>3, <1>8, <2>1, <3>1, DestroyEffect
    <3> QED BY <1>2, <1>3, <1>4, <2>1, <3>1, <3>2 DEF Due
  <2>2. CASE x # n
    <3>1. socket'[x] = "offered" \/ Due(x)' =>
            /\ acceptSession'[eventOf[x]] = x
            /\ x \in completion' \/ pc[x] \in {"update", "peername", "connect"} =>
                 socket'[x] = "arrived"
      BY <1>1, <1>2, <1>3, <1>7, <1>8, <2>2, OthersOwn DEF Due
    <3> QED BY <1>7, <1>8, <3>1, OwnOf DEF Due
  <2> QED BY <2>1, <2>2
<1>9. ASSUME NEW b \in Actors, pc'[b] = "accept", vanished'[EventOf(b)'] = 0
      PROVE  acceptSession'[EventOf(b)'] = fresh'[b]
  BY <1>1, <1>4, <1>5, <1>9 DEF Own
<1> QED BY <1>1, <1>8, <1>9 DEF Own

\* Every step preserves Own.
LEMMA OwnNext == Inv /\ Own /\ [Next]_vars => Own'
<1> SUFFICES ASSUME Inv, Own, [Next]_vars PROVE Own'
  OBVIOUS
<1>1. TypeOK
  BY DEF Inv
<1>2. CASE UNCHANGED vars
  BY <1>2 DEF Own, Due, EventOf, vars
<1>3. ASSUME NEW s \in Sessions, Arrive(s) PROVE Own'
  <2>1. /\ socket[s] = "offered" /\ socket'[s] = "arrived"
        /\ \A x \in Sessions : x # s => socket'[x] = socket[x]
        /\ completion' = completion \cup {s}
        /\ UNCHANGED <<acceptSession, eventOf, pc, back, session, fresh, vanished>>
    BY <1>1, <1>3 DEF Arrive, TypeOK
  <2>2. pc[s] = "idle"
    BY <2>1 DEF Inv, Awaited
  <2> QED BY <2>1, <2>2 DEF Own, Due, EventOf
<1>4. ASSUME NEW s \in Sessions, Dispatch(s) PROVE Own'
  <2>1. /\ s \in completion /\ completion' = completion \ {s}
        /\ session'[s] = acceptSession[eventOf[s]] /\ pc'[s] = "update"
        /\ \A a \in Actors : a # s => session'[a] = session[a] /\ pc'[a] = pc[a]
        /\ UNCHANGED <<acceptSession, socket, eventOf, back, fresh, vanished>>
    BY <1>1, <1>4, Constants DEF Dispatch, Goto, TypeOK
  <2> QED BY <2>1, Constants DEF Own, Due, EventOf
<1>5. ASSUME NEW s \in Sessions, ProcessConnect(s) PROVE Own'
  <2> DEFINE c == session[s]
  <2>1. TypeOK /\ Shape(s) /\ s \in Actors
    BY Locals, Constants
  <2>2. /\ pc[s] = "connect" /\ socket' = [socket EXCEPT ![c] = "connected"]
        /\ pc'[s] = "register" /\ (\A a \in Actors : a # s => pc'[a] = pc[a])
        /\ UNCHANGED <<acceptSession, eventOf, completion, session, fresh, vanished>>
    BY <1>5, <2>1 DEF ProcessConnect, Register, Goto, TypeOK
  <2>3. c \in Sessions /\ eventOf[c] = eventOf[s]
    BY <2>1, <2>2, EventOfSession DEF Shape, Holding, TypeOK, Inv, Alive
  <2> HIDE DEF c
  <2>4. /\ socket'[c] = "connected" /\ (\A x \in Sessions : x # c => socket'[x] = socket[x])
        /\ s \notin completion
    BY <1>1, <2>2, <2>3 DEF TypeOK, Inv, Awaited
  <2>5. eventOf[s] \in Events /\ vanished[eventOf[s]] = 0 => c = s
    BY <2>2, OwnOf DEF c
  <2>6. \A x \in Sessions : eventOf[x] \in Events /\ vanished[eventOf[x]] = 0 /\ Due(x)' =>
          x # s /\ x # c /\ Due(x)
    BY <2>2, <2>3, <2>4, <2>5, Constants DEF Due
  <2>7. ASSUME NEW x \in Sessions, eventOf'[x] \in Events, vanished'[eventOf'[x]] = 0
        PROVE  /\ socket'[x] = "offered" \/ Due(x)' => acceptSession'[eventOf'[x]] = x
               /\ Due(x)' => socket'[x] = "arrived"
               /\ pc'[x] \in {"update", "peername", "connect"} => session'[x] = x
    BY <2>2, <2>4, <2>6, <2>7, OwnOf, Constants DEF Due
  <2>8. ASSUME NEW b \in Actors, pc'[b] = "accept", vanished'[EventOf(b)'] = 0
        PROVE  acceptSession'[EventOf(b)'] = fresh'[b]
    BY <2>2, <2>8 DEF Own, EventOf
  <2> QED BY <2>7, <2>8 DEF Own
<1>6. CASE Next
  BY <1>3, <1>4, <1>5, <1>6, HandlerOwn, RegisterAcceptOwn, AcceptOwn DEF Next
<1> QED BY <1>2, <1>6

\* As long as getpeername has not failed for an event each completion of it connects
\* the session that completed, with a client on it, and no session is connected twice.
THEOREM ConnectsOwn == Spec => []ConnectsItsOwn
<1>1. Init => Own
  BY Constants DEF Init, Own, Due, EventOf
<1>2. Inv /\ Own => ConnectsItsOwn
  <2> SUFFICES ASSUME Inv, Own, NEW s \in Sessions, pc[s] = "connect", vanished[eventOf[s]] = 0
               PROVE  session[s] = s /\ socket[s] = "arrived"
    BY DEF ConnectsItsOwn
  <2>1. eventOf[s] \in Events
    BY Constants, EventOfSession DEF Inv, Shape
  <2> QED BY <2>1, OwnOf DEF Due
<1> QED BY <1>1, <1>2, InitInv, NextInv, OwnNext, PTL DEF Spec
=============================================================================
