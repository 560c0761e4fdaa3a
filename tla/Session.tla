------------------------------ MODULE Session ------------------------------
(***************************************************************************)
(* One ServerCore Session: its life from ConnectEx or AcceptEx to          *)
(* ReleaseSession, and its sending side.                                   *)
(*                                                                         *)
(* Workers are the threads in IocpCore::Dispatch: each takes a completion  *)
(* and runs the whole handler.  Senders are the threads that call Send     *)
(* from outside: jobs of a Room on a server, and the main thread's         *)
(* Service::BroadCast on a client.  Handlers send too.  A thread has a     *)
(* program counter and a stack of places to return to, as the handlers     *)
(* call Send, RegisterSend, RegisterRecv and Disconnect.                   *)
(*                                                                         *)
(* The kernel is the set of I/O requests in flight: it completes them in   *)
(* any order.  What Windows answers to a call is a choice; the bytes that  *)
(* arrive and their framing are in RecvBuffer.  A critical section of      *)
(* _lock or of the service's lock is one step unless it calls out; that    *)
(* the lock excludes is shown in SpinLock.                                 *)
(***************************************************************************)
EXTENDS Integers, FiniteSets, Sequences, SequencesExt

CONSTANTS
  Workers,       \* threads that dispatch completions
  Senders,       \* threads that call Send or BroadCast
  Types,         \* the ServiceTypes a session may belong to
  ConnectFails,  \* may ConnectEx fail, at once or when it completes?
  CallFails,     \* may a call on a healthy socket fail, as with WSAENOBUFS?
  MaxSends,      \* bound: calls of Send
  MaxRecvs,      \* bound: messages the peer sends
  None           \* no thread

ASSUME SessionAssumption ==
  /\ IsFiniteSet(Workers \cup Senders)
  /\ Workers \cap Senders = {}
  /\ Types \subseteq {"Client", "Server"}
  /\ {ConnectFails, CallFails} \subseteq BOOLEAN
  /\ MaxSends \in Nat /\ MaxRecvs \in Nat
  /\ None \notin Workers \cup Senders

Threads == Workers \cup Senders

Events == {"connect", "disconnect", "recv", "send"}

VARIABLES
  type,         \* GetServiceType()
  connected,    \* _connected
  registered,   \* _sendRegistered
  queue,        \* _sendQueue
  buffers,      \* _sendEvent.sendBuffers
  owned,        \* the events whose owner is set
  lock,         \* who holds _lock across a step, or None
  serviceLock,  \* who holds the service's _lock across a step, or None
  inService,    \* is the session in the service's _sessions?
  sock,         \* the connection: "new", "up", "closed" by the peer, "down"
  flying,       \* the events the kernel has not completed
  pc, stack,    \* where each thread is and where it returns to
  arg,          \* the buffer each thread's Send is about
  crash,        \* ASSERT_CRASH in ReleaseSession
  calls, recvs, \* calls of Send and messages received so far
  pushed,       \* history: the buffers pushed to _sendQueue, in that order
  wire,         \* history: the buffers the kernel took, in that order
  dropped,      \* history: the buffers RegisterSend gave up
  callbacks     \* history: the callbacks that returned

sending == <<registered, queue, buffers>>
service == <<type, serviceLock, inService>>
kernel == <<sock, flying>>
bounds == <<calls, recvs>>
history == <<pushed, wire, dropped>>
control == <<pc, stack>>
vars == <<connected, sending, owned, lock, service, kernel, control, arg,
          crash, bounds, history, callbacks>>

Goto(t, label) == pc' = [pc EXCEPT ![t] = label] /\ UNCHANGED stack

Call(t, label, back) ==
  /\ pc' = [pc EXCEPT ![t] = label]
  /\ stack' = [stack EXCEPT ![t] = Append(@, back)]

Return(t) ==
  /\ pc' = [pc EXCEPT ![t] = Last(stack[t])]
  /\ stack' = [stack EXCEPT ![t] = Front(@)]

\* What WSASend and WSARecv answer: accepted, WSAECONNRESET or
\* WSAECONNABORTED, or another error.
Answers ==
  CASE sock = "new"    -> {"error"}
    [] sock = "up"     -> {"pending"} \cup (IF CallFails THEN {"error"} ELSE {})
    [] sock = "closed" -> {"pending", "reset"} \cup (IF CallFails THEN {"error"} ELSE {})
    [] sock = "down"   -> {"pending", "reset", "error"}

-----------------------------------------------------------------------------
Init ==
  /\ connected = FALSE
  /\ registered = FALSE /\ queue = <<>> /\ buffers = <<>>
  /\ owned = {}
  /\ lock = None /\ serviceLock = None
  /\ inService = FALSE
  /\ sock = "new" /\ flying = {}
  /\ type \in Types
  /\ \E main \in Senders :
       pc = [t \in Threads |-> IF type = "Client" /\ t = main THEN "start"
                              ELSE IF type = "Client" /\ t \in Senders THEN "exit"
                              ELSE "idle"]
  /\ stack = [t \in Threads |-> <<>>]
  /\ arg = [t \in Threads |-> 0]
  /\ crash = FALSE
  /\ calls = 0 /\ recvs = 0
  /\ pushed = <<>> /\ wire = <<>> /\ dropped = {}
  /\ callbacks = <<>>

-----------------------------------------------------------------------------
(* Sending. *)

\* A thread calls Send with a new buffer and continues at back.
CallSend(t, back) ==
  /\ calls < MaxSends
  /\ calls' = calls + 1
  /\ arg' = [arg EXCEPT ![t] = calls + 1]
  /\ Call(t, "send", back)

\* A Room's job sends to a player, whose session has been connected; it keeps a
\* reference, so the session is still there after ReleaseSession.
RoomSend(t) ==
  /\ type = "Server"
  /\ pc[t] = "idle"
  /\ callbacks # <<>>
  /\ CallSend(t, "idle")
  /\ UNCHANGED <<connected, sending, owned, lock, service, kernel, crash, recvs, history, callbacks>>

\* Service::BroadCast holds the service's lock while it sends.
BroadCast(t) ==
  /\ type = "Client"
  /\ pc[t] = "idle"
  /\ serviceLock = None
  /\ inService
  /\ serviceLock' = t
  /\ CallSend(t, "endbroadcast")
  /\ UNCHANGED <<connected, sending, owned, lock, type, inService, kernel, crash, recvs, history, callbacks>>

EndBroadCast(t) ==
  /\ pc[t] = "endbroadcast"
  /\ serviceLock' = None
  /\ Goto(t, "idle")
  /\ UNCHANGED <<connected, sending, owned, lock, type, inService, kernel, arg, crash, bounds, history, callbacks>>

\* Send: if (IsConnected() == false) return
Send(t) ==
  /\ pc[t] = "send"
  /\ \/ connected /\ Goto(t, "push")
     \/ ~ connected /\ Return(t)
  /\ UNCHANGED <<connected, sending, owned, lock, service, kernel, arg, crash, bounds, history, callbacks>>

\* Faults: pushes a buffer that was moved away; registers whoever may be sending.
PushMoved(t) ==
  /\ pc[t] = "push"
  /\ lock = None
  /\ queue' = Append(queue, 0)
  /\ pushed' = Append(pushed, arg[t])
  /\ registered' = TRUE
  /\ \/ ~ registered /\ Goto(t, "register")
     \/ registered /\ Return(t)
  /\ UNCHANGED <<connected, buffers, owned, lock, service, kernel, arg, crash, bounds, wire, dropped, callbacks>>

PushRegisters(t) ==
  /\ pc[t] = "push"
  /\ lock = None
  /\ queue' = Append(queue, arg[t])
  /\ pushed' = Append(pushed, arg[t])
  /\ registered' = TRUE
  /\ Goto(t, "register")
  /\ UNCHANGED <<connected, buffers, owned, lock, service, kernel, arg, crash, bounds, wire, dropped, callbacks>>

\* Send: push and exchange, under WRITE_LOCK.
Push(t) ==
  /\ pc[t] = "push"
  /\ lock = None
  /\ queue' = Append(queue, arg[t])
  /\ pushed' = Append(pushed, arg[t])
  /\ registered' = TRUE
  /\ \/ ~ registered /\ Goto(t, "register")
     \/ registered /\ Return(t)
  /\ UNCHANGED <<connected, buffers, owned, lock, service, kernel, arg, crash, bounds, wire, dropped, callbacks>>

\* RegisterSend: if (IsConnected() == false) return; then Init and owner.
RegisterSend(t) ==
  /\ pc[t] = "register"
  /\ \/ connected /\ owned' = owned \cup {"send"} /\ Goto(t, "drain")
     \/ ~ connected /\ UNCHANGED owned /\ Return(t)
  /\ UNCHANGED <<connected, sending, lock, service, kernel, arg, crash, bounds, history, callbacks>>

\* RegisterSend: all of _sendQueue goes to the event, under WRITE_LOCK.
Drain(t) ==
  /\ pc[t] = "drain"
  /\ lock \in {None, t}
  /\ buffers' = buffers \o queue
  /\ queue' = <<>>
  /\ Goto(t, "wsasend")
  /\ UNCHANGED <<connected, registered, owned, lock, service, kernel, arg, crash, bounds, history, callbacks>>

\* RegisterSend: WSASend, and HandleError.
WSASend(t) ==
  /\ pc[t] = "wsasend"
  /\ \E answer \in Answers :
       \/ /\ answer = "pending"
          /\ flying' = flying \cup {"send"}
          /\ wire' = wire \o buffers
          /\ Return(t)
       \/ /\ answer = "reset"
          /\ Call(t, "disconnect", "sendfail")
          /\ UNCHANGED <<flying, wire>>
       \/ /\ answer = "error"
          /\ Goto(t, "sendfail")
          /\ UNCHANGED <<flying, wire>>
  /\ UNCHANGED <<connected, sending, owned, lock, service, sock, arg, crash, bounds, pushed, dropped, callbacks>>

\* RegisterSend, after HandleError: the buffers are released unsent.
SendFail(t) ==
  /\ pc[t] = "sendfail"
  /\ owned' = owned \ {"send"}
  /\ buffers' = <<>>
  /\ dropped' = dropped \cup ToSet(buffers)
  /\ registered' = FALSE
  /\ Return(t)
  /\ UNCHANGED <<connected, queue, lock, service, kernel, arg, crash, bounds, pushed, wire, callbacks>>

\* Fault: the buffers stay in the event.
ProcessSendKeeps(t) ==
  /\ pc[t] \in {"sent", "sentzero"}
  /\ owned' = owned \ {"send"}
  /\ Goto(t, IF pc[t] = "sentzero" THEN "disconnect" ELSE "sendnext")
  /\ UNCHANGED <<connected, sending, lock, service, kernel, arg, crash, bounds, history, callbacks>>

\* ProcessSend up to WRITE_LOCK; 0 bytes were sent if the request failed.
ProcessSend(t) ==
  /\ pc[t] \in {"sent", "sentzero"}
  /\ owned' = owned \ {"send"}
  /\ buffers' = <<>>
  /\ Goto(t, IF pc[t] = "sentzero" THEN "disconnect" ELSE "sendnext")
  /\ UNCHANGED <<connected, registered, queue, lock, service, kernel, arg, crash, bounds, history, callbacks>>

\* Fault: gives up sending without a look at the queue.
SendNextStops(t) ==
  /\ pc[t] = "sendnext"
  /\ lock = None
  /\ registered' = FALSE
  /\ Return(t)
  /\ UNCHANGED <<connected, queue, buffers, owned, lock, service, kernel, arg, crash, bounds, history, callbacks>>

\* ProcessSend under WRITE_LOCK: the next batch, or nobody sends any more.
SendNext(t) ==
  /\ pc[t] = "sendnext"
  /\ lock = None
  /\ \/ /\ queue = <<>>
        /\ registered' = FALSE
        /\ Return(t)
        /\ UNCHANGED lock
     \/ /\ queue # <<>>
        /\ lock' = t
        /\ Call(t, "register", "unlock")
        /\ UNCHANGED registered
  /\ UNCHANGED <<connected, queue, buffers, owned, service, kernel, arg, crash, bounds, history, callbacks>>

Unlock(t) ==
  /\ pc[t] = "unlock"
  /\ lock' = None
  /\ Return(t)
  /\ UNCHANGED <<connected, sending, owned, service, kernel, arg, crash, bounds, history, callbacks>>

-----------------------------------------------------------------------------
(* Connecting and disconnecting. *)

\* RegisterConnect: ConnectEx.  When it fails, Start returns false and main
\* ends the program with ASSERT_CRASH.
RegisterConnect(t) ==
  /\ pc[t] = "start"
  /\ \/ owned' = owned \cup {"connect"} /\ flying' = flying \cup {"connect"} /\ Goto(t, "idle")
     \/ ConnectFails /\ UNCHANGED <<owned, flying>> /\ Goto(t, "exit")
  /\ UNCHANGED <<connected, sending, lock, service, sock, arg, crash, bounds, history, callbacks>>

\* Listener::ProcessAccept calls ProcessConnect for the accepted session.
Accept(t) ==
  /\ type = "Server"
  /\ pc[t] = "idle"
  /\ sock = "new"
  /\ sock' = "up"
  /\ Call(t, "connect", "idle")
  /\ UNCHANGED <<connected, sending, owned, lock, service, flying, arg, crash, bounds, history, callbacks>>

\* Fault: the session is not added to the service.
ProcessConnectUnadded(t) ==
  /\ pc[t] = "connect"
  /\ owned' = owned \ {"connect"}
  /\ connected' = TRUE
  /\ Goto(t, "onconnected")
  /\ UNCHANGED <<sending, lock, service, kernel, arg, crash, bounds, history, callbacks>>

\* ProcessConnect: _connected.store(true).
ProcessConnect(t) ==
  /\ pc[t] = "connect"
  /\ owned' = owned \ {"connect"}
  /\ connected' = TRUE
  /\ Goto(t, "add")
  /\ UNCHANGED <<sending, lock, service, kernel, arg, crash, bounds, history, callbacks>>

\* Service::AddSession, under the service's lock.
AddSession(t) ==
  /\ pc[t] = "add"
  /\ serviceLock = None
  /\ inService' = TRUE
  /\ Goto(t, "onconnected")
  /\ UNCHANGED <<connected, sending, owned, lock, type, serviceLock, kernel, arg, crash, bounds, history, callbacks>>

\* OnConnected: a client logs in with a Send.
OnConnected(t) ==
  /\ pc[t] = "onconnected"
  /\ \/ type = "Client" /\ CallSend(t, "connectreturns")
     \/ (type = "Client" => calls = MaxSends) /\ Goto(t, "connectreturns") /\ UNCHANGED <<calls, arg>>
  /\ UNCHANGED <<connected, sending, owned, lock, service, kernel, crash, recvs, history, callbacks>>

OnConnectedReturns(t) ==
  /\ pc[t] = "connectreturns"
  /\ callbacks' = Append(callbacks, "OnConnected")
  /\ Goto(t, "recv")
  /\ UNCHANGED <<connected, sending, owned, lock, service, kernel, arg, crash, bounds, history>>

\* Fault: every call disconnects.
DisconnectAlways(t) ==
  /\ pc[t] = "disconnect"
  /\ connected' = FALSE
  /\ Goto(t, "disconnectex")
  /\ UNCHANGED <<sending, owned, lock, service, kernel, arg, crash, bounds, history, callbacks>>

\* Disconnect: only the first call gets past the exchange.
Disconnect(t) ==
  /\ pc[t] = "disconnect"
  /\ connected' = FALSE
  /\ \/ connected /\ Goto(t, "disconnectex")
     \/ ~ connected /\ Return(t)
  /\ UNCHANGED <<sending, owned, lock, service, kernel, arg, crash, bounds, history, callbacks>>

\* RegisterDisconnect: DisconnectEx.  If it fails, HandleError can only call
\* Disconnect, which returns because _connected is false.
RegisterDisconnect(t) ==
  /\ pc[t] = "disconnectex"
  /\ \/ /\ sock # "new"
        /\ sock' = "down"
        /\ owned' = owned \cup {"disconnect"}
        /\ flying' = flying \cup {"disconnect"}
     \/ /\ sock = "new" \/ CallFails
        /\ UNCHANGED <<sock, owned, flying>>
  /\ Return(t)
  /\ UNCHANGED <<connected, sending, lock, service, arg, crash, bounds, history, callbacks>>

\* Fault: the service keeps the session.
ProcessDisconnectKeeps(t) ==
  /\ pc[t] = "disconnected"
  /\ owned' = owned \ {"disconnect"}
  /\ callbacks' = Append(callbacks, "OnDisconnected")
  /\ Return(t)
  /\ UNCHANGED <<connected, sending, lock, service, kernel, arg, crash, bounds, history>>

\* ProcessDisconnect: OnDisconnected, then ReleaseSession.
ProcessDisconnect(t) ==
  /\ pc[t] = "disconnected"
  /\ owned' = owned \ {"disconnect"}
  /\ callbacks' = Append(callbacks, "OnDisconnected")
  /\ Goto(t, "release")
  /\ UNCHANGED <<connected, sending, lock, service, kernel, arg, crash, bounds, history>>

\* Service::ReleaseSession: ASSERT_CRASH(_sessions.erase(session) != 0).
ReleaseSession(t) ==
  /\ pc[t] = "release"
  /\ serviceLock = None
  /\ crash' = ~ inService
  /\ inService' = FALSE
  /\ Return(t)
  /\ UNCHANGED <<connected, sending, owned, lock, type, serviceLock, kernel, arg, bounds, history, callbacks>>

-----------------------------------------------------------------------------
(* Receiving. *)

\* RegisterRecv: if (IsConnected() == false) return; then Init and owner.
RegisterRecv(t) ==
  /\ pc[t] = "recv"
  /\ \/ connected /\ owned' = owned \cup {"recv"} /\ Goto(t, "wsarecv")
     \/ ~ connected /\ UNCHANGED owned /\ Return(t)
  /\ UNCHANGED <<connected, sending, lock, service, kernel, arg, crash, bounds, history, callbacks>>

\* Fault: WSA_IO_PENDING is taken for an error.
WSARecvPendingFails(t) ==
  /\ pc[t] = "wsarecv"
  /\ "pending" \in Answers
  /\ flying' = flying \cup {"recv"}
  /\ Goto(t, "recvfail")
  /\ UNCHANGED <<connected, sending, owned, lock, service, sock, arg, crash, bounds, history, callbacks>>

\* RegisterRecv: WSARecv, and HandleError.
WSARecv(t) ==
  /\ pc[t] = "wsarecv"
  /\ \E answer \in Answers :
       \/ answer = "pending" /\ flying' = flying \cup {"recv"} /\ Return(t)
       \/ answer = "reset" /\ UNCHANGED flying /\ Call(t, "disconnect", "recvfail")
       \/ answer = "error" /\ UNCHANGED flying /\ Goto(t, "recvfail")
  /\ UNCHANGED <<connected, sending, owned, lock, service, sock, arg, crash, bounds, history, callbacks>>

RecvFail(t) ==
  /\ pc[t] = "recvfail"
  /\ owned' = owned \ {"recv"}
  /\ Return(t)
  /\ UNCHANGED <<connected, sending, lock, service, kernel, arg, crash, bounds, history, callbacks>>

\* Fault: asks for no more bytes.
ProcessRecvOnce(t) ==
  /\ pc[t] \in {"received", "receivedzero"}
  /\ owned' = owned \ {"recv"}
  /\ \/ pc[t] = "receivedzero" /\ Goto(t, "disconnect")
     \/ pc[t] = "received" /\ Return(t)
  /\ UNCHANGED <<connected, sending, lock, service, kernel, arg, crash, bounds, history, callbacks>>

\* ProcessRecv: OnRecv may answer with a Send.  That OnWrite and OnRead accept
\* the sizes is shown in RecvBuffer.
ProcessRecv(t) ==
  /\ pc[t] \in {"received", "receivedzero"}
  /\ owned' = owned \ {"recv"}
  /\ \/ pc[t] = "receivedzero" /\ Goto(t, "disconnect") /\ UNCHANGED <<calls, arg>>
     \/ pc[t] = "received" /\ Goto(t, "recv") /\ UNCHANGED <<calls, arg>>
     \/ pc[t] = "received" /\ CallSend(t, "recv")
  /\ UNCHANGED <<connected, sending, lock, service, kernel, crash, recvs, history, callbacks>>

-----------------------------------------------------------------------------
(* The kernel and the peer. *)

\* IocpCore::Dispatch: a worker takes the completion of e and calls its handler,
\* whether the request succeeded or not.
Dispatch(t, e) ==
  /\ t \in Workers
  /\ pc[t] = "idle"
  /\ e \in flying
  /\ flying' = flying \ {e}
  /\ \/ /\ e = "connect"
        /\ Call(t, "connect", "idle")
        /\ sock' \in {"up"} \cup (IF ConnectFails THEN {"new"} ELSE {})
        /\ UNCHANGED recvs
     \/ e = "disconnect" /\ Call(t, "disconnected", "idle") /\ UNCHANGED <<sock, recvs>>
     \/ /\ e = "recv" /\ sock = "up" /\ recvs < MaxRecvs
        /\ recvs' = recvs + 1
        /\ Call(t, "received", "idle")
        /\ UNCHANGED sock
     \/ /\ e = "recv" /\ sock \in {"closed", "down"}
        /\ Call(t, "receivedzero", "idle")
        /\ UNCHANGED <<sock, recvs>>
     \/ e = "send" /\ Call(t, "sent", "idle") /\ UNCHANGED <<sock, recvs>>
     \/ /\ e = "send" /\ sock \in {"closed", "down"}
        /\ Call(t, "sentzero", "idle")
        /\ UNCHANGED <<sock, recvs>>
  /\ UNCHANGED <<connected, sending, owned, lock, service, arg, crash, calls, history, callbacks>>

\* The peer closes or resets the connection.
PeerCloses ==
  /\ sock = "up"
  /\ sock' = "closed"
  /\ UNCHANGED <<connected, sending, owned, lock, service, flying, control, arg, crash, bounds, history, callbacks>>

-----------------------------------------------------------------------------
\* A thread that is inside the program goes on.
Step(t) ==
  \/ EndBroadCast(t) \/ Send(t) \/ Push(t) \/ RegisterSend(t) \/ Drain(t)
  \/ WSASend(t) \/ SendFail(t) \/ ProcessSend(t) \/ SendNext(t) \/ Unlock(t)
  \/ ProcessConnect(t) \/ AddSession(t) \/ OnConnected(t) \/ OnConnectedReturns(t)
  \/ Disconnect(t) \/ RegisterDisconnect(t) \/ ProcessDisconnect(t) \/ ReleaseSession(t)
  \/ RegisterRecv(t) \/ WSARecv(t) \/ RecvFail(t) \/ ProcessRecv(t)

Next ==
  \/ \E t \in Threads : Step(t)
  \/ \E t \in Senders : RoomSend(t) \/ BroadCast(t) \/ RegisterConnect(t)
  \/ \E t \in Workers : Accept(t) \/ \E e \in Events : Dispatch(t, e)
  \/ PeerCloses

\* Threads are scheduled.  ConnectEx and DisconnectEx complete, and so does a
\* WSARecv once the connection is over; nothing is assumed of a WSARecv or a
\* WSASend before that, as the peer may never send or read.
Fairness ==
  /\ \A t \in Threads : WF_vars(Step(t))
  /\ \A e \in {"connect", "disconnect"} : WF_vars(\E t \in Workers : Dispatch(t, e))
  /\ WF_vars(sock # "up" /\ \E t \in Workers : Dispatch(t, "recv"))

SafetySpec == Init /\ [][Next]_vars

Spec == SafetySpec /\ Fairness

-----------------------------------------------------------------------------
(* Properties. *)

\* The type of every variable.
TypeOK ==
  /\ type \in Types
  /\ {connected, registered, inService, crash} \subseteq BOOLEAN
  /\ {lock, serviceLock} \subseteq Threads \cup {None}
  /\ queue \in Seq(1 .. MaxSends) /\ buffers \in Seq(1 .. MaxSends)
  /\ owned \subseteq Events /\ flying \subseteq Events
  /\ sock \in {"new", "up", "closed", "down"}
  /\ DOMAIN pc = Threads /\ DOMAIN stack = Threads
  /\ arg \in [Threads -> 0 .. MaxSends]
  /\ calls \in 0 .. MaxSends /\ recvs \in 0 .. MaxRecvs

\* The threads that use _sendEvent, now or when they return to where they were.
UsesSendEvent ==
  {t \in Threads :
     \/ pc[t] \in {"register", "drain", "wsasend", "sendfail", "sent", "sentzero", "sendnext"}
     \/ "sendfail" \in ToSet(stack[t])}

\* There is one _sendEvent: nobody touches it while a WSASend that uses it is in
\* flight, and no two threads use it at a time.  _sendRegistered is set meanwhile.
OneSendAtATime ==
  /\ Cardinality(UsesSendEvent) <= 1
  /\ "send" \in flying => UsesSendEvent = {}
  /\ UsesSendEvent # {} \/ "send" \in flying => registered

\* Every request in flight holds a reference, so the session, its buffers and
\* its OVERLAPPED outlive it (Session.cpp: "ADD_REF" and "RELEASE_REF").
OwnerOutlivesRequest == flying \subseteq owned

\* The drained buffers that no WSASend has taken yet.
Unsent ==
  IF \E t \in Threads : pc[t] \in {"wsasend", "sendfail"} \/ "sendfail" \in ToSet(stack[t])
  THEN buffers ELSE <<>>

\* What was pushed and not given up: on the wire, in the event, in the queue.
Left == wire \o Unsent \o queue

\* Buffers leave in the order they were pushed, each once; none is missing
\* except those whose WSASend failed.
WireKeepsOrder ==
  /\ ToSet(Left) = ToSet(pushed) \ dropped
  /\ \A i, j \in DOMAIN Left, k, l \in DOMAIN pushed :
       Left[i] = pushed[k] /\ Left[j] = pushed[l] => (i < j <=> k < l)

\* ASSERT_CRASH in ReleaseSession does not fire: the session was added before
\* it is released, and is released once.
ReleasedOnce == ~ crash

\* OnDisconnected is called at most once; on a server, only after OnConnected
\* has returned.  (On a client it may overtake OnConnected: BroadCast can meet
\* a session between AddSession and OnConnected and lose the connection.)
CallbacksInOrder ==
  /\ Cardinality({i \in DOMAIN callbacks : callbacks[i] = "OnDisconnected"}) <= 1
  /\ type = "Server" =>
       callbacks \in {<<>>, <<"OnConnected">>, <<"OnConnected", "OnDisconnected">>}

\* While connected, a buffer in _sendQueue has somebody who will send it:
\* "RegisterSend is running, so I cannot WSASend now" (Session.h:85).
QueueHasSender == connected /\ queue # <<>> => registered

\* A buffer in _sendQueue is sent, unless the session disconnects or a WSASend
\* before it stays in flight for ever, as it may when the peer does not read.
QueueDrains ==
  \A b \in 1 .. MaxSends :
    \/ <>[]("send" \in flying)
    \/ b \in ToSet(queue) ~> b \in ToSet(wire) \/ ~ connected

\* The peer's closing is noticed, even if nothing is being sent.
CloseIsNoticed == sock = "closed" /\ callbacks # <<>> ~> ~ connected

\* A session that disconnects is taken out of the service after OnDisconnected,
\* once: nobody else would do it.
DisconnectedIsReleased ==
  callbacks # <<>> /\ ~ connected ~> ~ inService /\ "OnDisconnected" \in ToSet(callbacks)
=============================================================================
