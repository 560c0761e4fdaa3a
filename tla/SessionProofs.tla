---------------------------- MODULE SessionProofs ----------------------------
(***************************************************************************)
(* Proofs about Session for any number of workers and senders, of sends    *)
(* and of messages: the send event is used by one thread at a time, every  *)
(* request in flight holds its reference, the session is released once,    *)
(* and its callbacks come in order.                                        *)
(***************************************************************************)
EXTENDS Session, FiniteSetTheorems, SequenceTheorems, TLAPS

-----------------------------------------------------------------------------
(* The places of a thread: its program counter and the stack under it.     *)

\* The stacks there are: of a handler; of a Send from a job of a Room, from BroadCast,
\* from OnConnected and from OnRecv; of a RegisterSend from ProcessSend; of a
\* Disconnect from RegisterRecv; and of a Disconnect from each RegisterSend.
Handler == Append(<<>>, "idle")
Casting == Append(<<>>, "endbroadcast")
Connecting == Append(Handler, "connectreturns")
Receiving == Append(Handler, "recv")
Resending == Append(Handler, "unlock")
RecvFailing == Append(Handler, "recvfail")
HandlerFailing == Append(Handler, "sendfail")
CastingFailing == Append(Casting, "sendfail")
ConnectingFailing == Append(Connecting, "sendfail")
ReceivingFailing == Append(Receiving, "sendfail")
ResendingFailing == Append(Resending, "sendfail")

SendStacks == {Handler, Casting, Connecting, Receiving}
RegisterStacks == SendStacks \cup {Resending}
FailStacks ==
  {HandlerFailing, CastingFailing, ConnectingFailing, ReceivingFailing, ResendingFailing}
DisconnectStacks == FailStacks \cup {Handler, RecvFailing}

TopPcs == {"start", "exit", "idle", "endbroadcast"}
HandlerPcs ==
  {"connect", "add", "onconnected", "connectreturns", "recv", "wsarecv", "recvfail",
   "received", "receivedzero", "sent", "sentzero", "sendnext", "unlock",
   "disconnected", "release"}
RegisterPcs == {"register", "drain", "wsasend", "sendfail"}
Labels ==
  TopPcs \cup HandlerPcs \cup RegisterPcs \cup {"send", "push", "disconnect", "disconnectex"}

Place(p, s) ==
  \/ p \in TopPcs /\ s = <<>>
  \/ p \in HandlerPcs /\ s = Handler
  \/ p \in {"send", "push"} /\ s \in SendStacks
  \/ p \in RegisterPcs /\ s \in RegisterStacks
  \/ p \in {"disconnect", "disconnectex"} /\ s \in DisconnectStacks

\* Who uses _sendEvent, who is on the way from a connection to WSARecv or from one
\* WSARecv to the next, who ends the connection, who begins it, and who has not
\* come back from OnConnected.
SendsAt(p, s) ==
  p \in RegisterPcs \cup {"sent", "sentzero", "sendnext"} \/ s \in FailStacks
ReceivesAt(p, s) ==
  \/ p \in {"connect", "add", "onconnected", "connectreturns", "recv", "wsarecv",
            "recvfail", "received", "receivedzero", "start"}
  \/ s \in {Connecting, Receiving, RecvFailing, ConnectingFailing, ReceivingFailing}
EndsAt(p) == p \in {"disconnectex", "disconnected", "release"}
BeginsAt(p) == p \in {"start", "connect", "add"}
ConnectsAt(p, s) ==
  \/ p \in {"onconnected", "connectreturns"}
  \/ s \in {Connecting, ConnectingFailing}

Sends(t) == SendsAt(pc[t], stack[t])
Receives(t) == ReceivesAt(pc[t], stack[t])
Ends(t) == EndsAt(pc[t])
Begins(t) == BeginsAt(pc[t])
Connects(t) == ConnectsAt(pc[t], stack[t])

-----------------------------------------------------------------------------
(* The invariant.                                                          *)

Typed ==
  /\ type \in {"Client", "Server"}
  /\ connected \in BOOLEAN /\ registered \in BOOLEAN
  /\ inService \in BOOLEAN
  /\ owned \subseteq Events /\ flying \subseteq Events
  /\ sock \in {"new", "up", "closed", "down"}
  /\ pc \in [Threads -> Labels]
  /\ stack \in [Threads -> Seq(Labels)]

Places == \A t \in Threads : Place(pc[t], stack[t])

\* One thread, or the kernel, has _sendEvent, and _sendRegistered is set meanwhile.
OneSender ==
  /\ \A t, u \in Threads : Sends(t) /\ Sends(u) => t = u
  /\ "send" \in flying => \A t \in Threads : ~ Sends(t)
  /\ "send" \in flying \/ (\E t \in Threads : Sends(t)) => registered

\* The server's session before it is accepted.
Unaccepted == type = "Server" /\ sock = "new"

\* One thread, or the kernel, is to ask for bytes next, or the peer has to come first.
OneReceiver ==
  /\ \A t, u \in Threads : Receives(t) /\ Receives(u) => t = u
  /\ "recv" \in flying \/ "connect" \in flying \/ Unaccepted
        => \A t \in Threads : ~ Receives(t)
  /\ ~ ("recv" \in flying /\ "connect" \in flying)
  /\ Unaccepted => "recv" \notin flying /\ "connect" \notin flying
  /\ "connect" \in flying \/ (\E t \in Threads : pc[t] = "start") => type = "Client"

\* The connection stands, or one thread, or the kernel, is to end it.
OneEnd ==
  /\ \A t, u \in Threads : Ends(t) /\ Ends(u) => t = u
  /\ "disconnect" \in flying \/ connected => \A t \in Threads : ~ Ends(t)
  /\ ~ ("disconnect" \in flying /\ connected)

\* The session has not been added to its service yet.
Early ==
  \/ \E t \in Threads : Begins(t)
  \/ "connect" \in flying
  \/ Unaccepted

\* Until it is, nobody sends, receives or disconnects.
Beginning ==
  /\ Early => /\ \A t \in Threads : pc[t] \in {"start", "exit", "idle", "connect", "add"}
              /\ flying \subseteq {"connect"}
              /\ callbacks = <<>>
              /\ ~ inService
  /\ connected => Early \/ inService
  /\ connected /\ Early => \E t \in Threads : pc[t] = "add"
  /\ (\E t \in Threads : Ends(t)) \/ "disconnect" \in flying => inService

References ==
  /\ flying \subseteq owned
  /\ \A t \in Threads : pc[t] \in {"drain", "wsasend"} => "send" \in owned
  /\ \A t \in Threads : pc[t] = "wsarecv" => "recv" \in owned

\* OnConnected returns once, OnDisconnected once, and on a server in this order,
\* since nobody knows the session before OnConnected has returned.
CallbackOrder ==
  /\ callbacks \in {<<>>, <<"OnConnected">>, <<"OnDisconnected">>,
                    <<"OnConnected", "OnDisconnected">>, <<"OnDisconnected", "OnConnected">>}
  /\ Early \/ (\E t \in Threads : Connects(t)) => callbacks \in {<<>>, <<"OnDisconnected">>}
  /\ connected \/ "disconnect" \in flying
       \/ (\E t \in Threads : pc[t] \in {"disconnectex", "disconnected"})
          => callbacks \in {<<>>, <<"OnConnected">>}
  /\ type = "Server" =>
       callbacks \in {<<>>, <<"OnConnected">>, <<"OnConnected", "OnDisconnected">>}
  /\ type = "Server" /\ callbacks = <<>> =>
       /\ \A t \in Threads : pc[t] \in {"idle", "connect", "add", "onconnected", "connectreturns"}
       /\ flying = {}

Inv ==
  /\ Typed /\ Places /\ OneSender /\ OneReceiver /\ OneEnd /\ Beginning
  /\ References /\ CallbackOrder /\ crash = FALSE

-----------------------------------------------------------------------------
(* How a step moves a thread from place to place.                          *)

\* The top of a stack, and what is below it.
LEMMA StackTop ==
  ASSUME NEW s \in Seq(Labels), NEW x \in Labels
  PROVE  /\ Append(s, x) \in Seq(Labels) /\ Len(Append(s, x)) = Len(s) + 1
         /\ Last(Append(s, x)) = x /\ Front(Append(s, x)) = s
<1> PICK r \in Seq(Labels) : r = Append(s, x)
  BY AppendProperties
<1>1. /\ r # <<>> /\ Len(r) = Len(s) + 1 /\ r[Len(s) + 1] = x /\ Len(s) \in Nat
      /\ \A i \in 1 .. Len(s) : r[i] = s[i]
  BY AppendProperties
<1>2. Last(r) = x
  BY <1>1 DEF Last
<1>3. Front(r) = SubSeq(r, 1, Len(s))
  BY <1>1 DEF Front
<1>4. \A i \in 1 .. Len(s) : r[i] \in Labels
  BY <1>1
<1>5. /\ SubSeq(r, 1, Len(s)) \in Seq(Labels)
      /\ Len(SubSeq(r, 1, Len(s))) = IF 1 <= Len(s) THEN Len(s) - 1 + 1 ELSE 0
      /\ \A i \in 1 .. Len(s) - 1 + 1 : SubSeq(r, 1, Len(s))[i] = r[1 + i - 1]
  BY <1>1, <1>4, SubSeqProperties
<1>6. SubSeq(r, 1, Len(s)) = s
  <2> PICK f \in Seq(Labels) : f = SubSeq(r, 1, Len(s))
    BY <1>5
  <2>1. Len(f) = Len(s) /\ \A i \in 1 .. Len(f) : f[i] = s[i]
    BY <1>1, <1>5
  <2> QED BY <2>1, SeqEqual
<1> QED BY <1>1, <1>2, <1>3, <1>6

\* Every stack is another one with one more place on it.
LEMMA StackFacts ==
  /\ <<>> \in Seq(Labels) /\ Len(<<>>) = 0
  /\ Handler \in Seq(Labels) /\ Len(Handler) = Len(<<>>) + 1
  /\ Last(Handler) = "idle" /\ Front(Handler) = <<>>
  /\ Casting \in Seq(Labels) /\ Len(Casting) = Len(<<>>) + 1
  /\ Last(Casting) = "endbroadcast" /\ Front(Casting) = <<>>
  /\ Connecting \in Seq(Labels) /\ Len(Connecting) = Len(Handler) + 1
  /\ Last(Connecting) = "connectreturns" /\ Front(Connecting) = Handler
  /\ Receiving \in Seq(Labels) /\ Len(Receiving) = Len(Handler) + 1
  /\ Last(Receiving) = "recv" /\ Front(Receiving) = Handler
  /\ Resending \in Seq(Labels) /\ Len(Resending) = Len(Handler) + 1
  /\ Last(Resending) = "unlock" /\ Front(Resending) = Handler
  /\ RecvFailing \in Seq(Labels) /\ Len(RecvFailing) = Len(Handler) + 1
  /\ Last(RecvFailing) = "recvfail" /\ Front(RecvFailing) = Handler
  /\ HandlerFailing \in Seq(Labels) /\ Len(HandlerFailing) = Len(Handler) + 1
  /\ Last(HandlerFailing) = "sendfail" /\ Front(HandlerFailing) = Handler
  /\ CastingFailing \in Seq(Labels) /\ Len(CastingFailing) = Len(Casting) + 1
  /\ Last(CastingFailing) = "sendfail" /\ Front(CastingFailing) = Casting
  /\ ConnectingFailing \in Seq(Labels) /\ Len(ConnectingFailing) = Len(Connecting) + 1
  /\ Last(ConnectingFailing) = "sendfail" /\ Front(ConnectingFailing) = Connecting
  /\ ReceivingFailing \in Seq(Labels) /\ Len(ReceivingFailing) = Len(Receiving) + 1
  /\ Last(ReceivingFailing) = "sendfail" /\ Front(ReceivingFailing) = Receiving
  /\ ResendingFailing \in Seq(Labels) /\ Len(ResendingFailing) = Len(Resending) + 1
  /\ Last(ResendingFailing) = "sendfail" /\ Front(ResendingFailing) = Resending
<1>1. /\ "idle" \in Labels /\ "endbroadcast" \in Labels /\ "connectreturns" \in Labels
      /\ "recv" \in Labels /\ "unlock" \in Labels /\ "recvfail" \in Labels
      /\ "sendfail" \in Labels
  BY DEF Labels, TopPcs, HandlerPcs, RegisterPcs
<1>2. <<>> \in Seq(Labels) /\ Len(<<>>) = 0
  OBVIOUS
<1>3. /\ Handler \in Seq(Labels) /\ Len(Handler) = Len(<<>>) + 1
      /\ Last(Handler) = "idle" /\ Front(Handler) = <<>>
  BY StackTop, <1>1, <1>2, Zenon DEF Handler
<1>4. /\ Casting \in Seq(Labels) /\ Len(Casting) = Len(<<>>) + 1
      /\ Last(Casting) = "endbroadcast" /\ Front(Casting) = <<>>
  BY StackTop, <1>1, <1>2, Zenon DEF Casting
<1>5. /\ Connecting \in Seq(Labels) /\ Len(Connecting) = Len(Handler) + 1
      /\ Last(Connecting) = "connectreturns" /\ Front(Connecting) = Handler
  BY StackTop, <1>1, <1>3, Zenon DEF Connecting
<1>6. /\ Receiving \in Seq(Labels) /\ Len(Receiving) = Len(Handler) + 1
      /\ Last(Receiving) = "recv" /\ Front(Receiving) = Handler
  BY StackTop, <1>1, <1>3, Zenon DEF Receiving
<1>7. /\ Resending \in Seq(Labels) /\ Len(Resending) = Len(Handler) + 1
      /\ Last(Resending) = "unlock" /\ Front(Resending) = Handler
  BY StackTop, <1>1, <1>3, Zenon DEF Resending
<1>8. /\ RecvFailing \in Seq(Labels) /\ Len(RecvFailing) = Len(Handler) + 1
      /\ Last(RecvFailing) = "recvfail" /\ Front(RecvFailing) = Handler
  BY StackTop, <1>1, <1>3, Zenon DEF RecvFailing
<1>9. /\ HandlerFailing \in Seq(Labels) /\ Len(HandlerFailing) = Len(Handler) + 1
      /\ Last(HandlerFailing) = "sendfail" /\ Front(HandlerFailing) = Handler
  BY StackTop, <1>1, <1>3, Zenon DEF HandlerFailing
<1>10. /\ CastingFailing \in Seq(Labels) /\ Len(CastingFailing) = Len(Casting) + 1
      /\ Last(CastingFailing) = "sendfail" /\ Front(CastingFailing) = Casting
  BY StackTop, <1>1, <1>4, Zenon DEF CastingFailing
<1>11. /\ ConnectingFailing \in Seq(Labels) /\ Len(ConnectingFailing) = Len(Connecting) + 1
      /\ Last(ConnectingFailing) = "sendfail" /\ Front(ConnectingFailing) = Connecting
  BY StackTop, <1>1, <1>5, Zenon DEF ConnectingFailing
<1>12. /\ ReceivingFailing \in Seq(Labels) /\ Len(ReceivingFailing) = Len(Receiving) + 1
      /\ Last(ReceivingFailing) = "sendfail" /\ Front(ReceivingFailing) = Receiving
  BY StackTop, <1>1, <1>6, Zenon DEF ReceivingFailing
<1>13. /\ ResendingFailing \in Seq(Labels) /\ Len(ResendingFailing) = Len(Resending) + 1
      /\ Last(ResendingFailing) = "sendfail" /\ Front(ResendingFailing) = Resending
  BY StackTop, <1>1, <1>7, Zenon DEF ResendingFailing
<1> QED BY <1>2, <1>3, <1>4, <1>5, <1>6, <1>7, <1>8, <1>9, <1>10, <1>11, <1>12, <1>13

\* Goto, Call and Return move thread t and no other.
LEMMA GotoMoves ==
  ASSUME Typed, NEW t \in Threads, NEW l \in Labels, Goto(t, l)
  PROVE  /\ pc'[t] = l /\ stack'[t] = stack[t]
         /\ \A u \in Threads : u # t => pc'[u] = pc[u] /\ stack'[u] = stack[u]
         /\ pc' \in [Threads -> Labels] /\ stack' \in [Threads -> Seq(Labels)]
BY DEF Goto, Typed

\* Call puts the place to return to on the stack.
LEMMA CallMoves ==
  ASSUME Typed, NEW t \in Threads, NEW l \in Labels, NEW b \in Labels, Call(t, l, b)
  PROVE  /\ pc'[t] = l /\ stack'[t] = Append(stack[t], b)
         /\ \A u \in Threads : u # t => pc'[u] = pc[u] /\ stack'[u] = stack[u]
         /\ pc' \in [Threads -> Labels] /\ stack' \in [Threads -> Seq(Labels)]
<1>1. Append(stack[t], b) \in Seq(Labels)
  BY DEF Typed
<1> QED BY <1>1 DEF Call, Typed

\* A thread returns to one of seven places, and using the send event, being the
\* receiver and being inside OnConnected can only end by that.
LEMMA ReturnMoves ==
  ASSUME Typed, NEW t \in Threads, Place(pc[t], stack[t]), pc[t] \notin TopPcs, Return(t)
  PROVE  /\ \A u \in Threads : u # t => pc'[u] = pc[u] /\ stack'[u] = stack[u]
         /\ pc' \in [Threads -> Labels] /\ stack' \in [Threads -> Seq(Labels)]
         /\ Place(pc'[t], stack'[t])
         /\ pc'[t] \in {"idle", "endbroadcast", "connectreturns", "recv", "unlock",
                        "recvfail", "sendfail"}
         /\ Sends(t)' <=> stack[t] \in FailStacks
         /\ Receives(t)' => Receives(t)
         /\ Connects(t)' => Connects(t)
         /\ stack[t] = Handler => pc'[t] = "idle" /\ stack'[t] = <<>>
<1>1. stack[t] \in DisconnectStacks \cup RegisterStacks
  BY DEF Place, HandlerPcs, DisconnectStacks, RegisterStacks, SendStacks
<1>2. /\ \A u \in Threads : u # t => pc'[u] = pc[u] /\ stack'[u] = stack[u]
      /\ pc'[t] = Last(stack[t]) /\ stack'[t] = Front(stack[t])
  BY DEF Return, Typed
<1>3. \/ stack[t] = Handler /\ pc'[t] = "idle" /\ stack'[t] = <<>>
      \/ stack[t] = Casting /\ pc'[t] = "endbroadcast" /\ stack'[t] = <<>>
      \/ stack[t] = Connecting /\ pc'[t] = "connectreturns" /\ stack'[t] = Handler
      \/ stack[t] = Receiving /\ pc'[t] = "recv" /\ stack'[t] = Handler
      \/ stack[t] = Resending /\ pc'[t] = "unlock" /\ stack'[t] = Handler
      \/ stack[t] = RecvFailing /\ pc'[t] = "recvfail" /\ stack'[t] = Handler
      \/ stack[t] = HandlerFailing /\ pc'[t] = "sendfail" /\ stack'[t] = Handler
      \/ stack[t] = CastingFailing /\ pc'[t] = "sendfail" /\ stack'[t] = Casting
      \/ stack[t] = ConnectingFailing /\ pc'[t] = "sendfail" /\ stack'[t] = Connecting
      \/ stack[t] = ReceivingFailing /\ pc'[t] = "sendfail" /\ stack'[t] = Receiving
      \/ stack[t] = ResendingFailing /\ pc'[t] = "sendfail" /\ stack'[t] = Resending
  <2> PICK p, s : p = pc'[t] /\ s = stack'[t] /\ p = Last(stack[t]) /\ s = Front(stack[t])
    BY <1>2
  <2>1. CASE stack[t] \in RegisterStacks \cup {RecvFailing}
    BY <2>1, StackFacts DEF RegisterStacks, SendStacks
  <2>2. CASE stack[t] \in FailStacks
    BY <2>2, StackFacts DEF FailStacks
  <2> QED BY <1>1, <2>1, <2>2 DEF DisconnectStacks, RegisterStacks, SendStacks
<1> PICK p, s, r : p = pc'[t] /\ s = stack'[t] /\ r = stack[t]
  OBVIOUS
<1>4. pc' \in [Threads -> Labels] /\ stack' \in [Threads -> Seq(Labels)]
  <2>1. s \in Seq(Labels) /\ p \in Labels
    BY <1>3, StackFacts DEF Labels, TopPcs, HandlerPcs, RegisterPcs
  <2> QED BY <1>2, <2>1 DEF Return, Typed
<1>5. Place(pc'[t], stack'[t])
  BY <1>3, StackFacts DEF Place, TopPcs, HandlerPcs, RegisterPcs, RegisterStacks, SendStacks
<1>6. Sends(t)' <=> stack[t] \in FailStacks
  <2>1. s \notin FailStacks
    BY <1>3, StackFacts DEF FailStacks
  <2>2. p \in RegisterPcs \cup {"sent", "sentzero", "sendnext"} <=> p = "sendfail"
    BY <1>3 DEF RegisterPcs
  <2>3. p = "sendfail" <=> r \in FailStacks
    BY <1>3, StackFacts DEF FailStacks
  <2> QED BY <2>1, <2>2, <2>3 DEF Sends, SendsAt
<1>7. Receives(t)' => Receives(t)
  <2>1. ReceivesAt(p, s) => r \in {Connecting, Receiving, RecvFailing, ConnectingFailing, ReceivingFailing}
    <3>1. s \in {Connecting, Receiving, RecvFailing, ConnectingFailing, ReceivingFailing}
            => r \in {ConnectingFailing, ReceivingFailing}
      BY <1>3, StackFacts
    <3>2. p \in {"connectreturns", "recv", "recvfail"} => r \in {Connecting, Receiving, RecvFailing}
      BY <1>3, StackFacts
    <3>3. p \notin {"connect", "add", "onconnected", "wsarecv", "received", "receivedzero", "start"}
      BY <1>3
    <3> QED BY <3>1, <3>2, <3>3 DEF ReceivesAt
  <2> QED BY <2>1 DEF Receives, ReceivesAt
<1>8. Connects(t)' => Connects(t)
  BY <1>3, StackFacts DEF Connects, ConnectsAt
<1>9. /\ pc'[t] \in {"idle", "endbroadcast", "connectreturns", "recv", "unlock",
                     "recvfail", "sendfail"}
      /\ stack[t] = Handler => pc'[t] = "idle" /\ stack'[t] = <<>>
  BY <1>3, StackFacts
<1> QED BY <1>2, <1>4, <1>5, <1>6, <1>7, <1>8, <1>9

-----------------------------------------------------------------------------
(* What the parts of the invariant need from a step.                       *)

\* Thread t moves, and no other.
Others(t) ==
  \A u \in Threads : u # t => pc'[u] = pc[u] /\ stack'[u] = stack[u]

\* The roles of the other threads stay.
LEMMA OthersStay ==
  ASSUME NEW t \in Threads, Others(t), NEW u \in Threads, u # t
  PROVE  /\ Sends(u)' <=> Sends(u)
         /\ Receives(u)' <=> Receives(u)
         /\ Ends(u)' <=> Ends(u)
         /\ Begins(u)' <=> Begins(u)
         /\ Connects(u)' <=> Connects(u)
<1>1. pc'[u] = pc[u] /\ stack'[u] = stack[u]
  BY DEF Others
<1> QED BY <1>1 DEF Sends, Receives, Ends, Begins, Connects

\* Nobody comes to use the send event.
LEMMA KeepsSender ==
  ASSUME OneSender, NEW t \in Threads, Others(t), Sends(t)' => Sends(t),
         "send" \in flying' => "send" \in flying, registered => registered'
  PROVE  OneSender'
<1>1. \A u \in Threads : Sends(u)' => Sends(u)
  BY OthersStay
<1> QED BY <1>1 DEF OneSender

\* Nobody comes to be the receiver.
LEMMA KeepsReceiver ==
  ASSUME OneReceiver, NEW t \in Threads, Others(t), Receives(t)' => Receives(t),
         pc'[t] # "start",
         "recv" \in flying' => "recv" \in flying,
         "connect" \in flying' => "connect" \in flying,
         type' = type, sock' = "new" => sock = "new"
  PROVE  OneReceiver'
<1>1. \A u \in Threads : Receives(u)' => Receives(u)
  BY OthersStay
<1>2. \A u \in Threads : pc'[u] = "start" => pc[u] = "start"
  BY DEF Others
<1>3. Unaccepted' => Unaccepted
  BY DEF Unaccepted
<1> QED BY <1>1, <1>2, <1>3 DEF OneReceiver

\* The session has begun, and nobody comes nearer to its end.
LEMMA KeepsCourse ==
  ASSUME OneEnd, Beginning, CallbackOrder, NEW t \in Threads, Others(t),
         ~ Early, type = "Server" => callbacks # <<>>,
         ~ Begins(t)',
         UNCHANGED <<type, inService, callbacks>>,
         sock' = "new" => sock = "new",
         connected' => connected,
         ~ Ends(t)', Connects(t)' => Connects(t),
         "connect" \in flying' => "connect" \in flying,
         "disconnect" \in flying' => "disconnect" \in flying
  PROVE  OneEnd' /\ Beginning' /\ CallbackOrder'
<1>1. \A u \in Threads : (Ends(u)' => Ends(u)) /\ (Begins(u)' => Begins(u))
                            /\ (Connects(u)' => Connects(u))
  BY OthersStay
<1>2. ~ Early'
  BY <1>1 DEF Early, Unaccepted
<1>3. OneEnd'
  BY <1>1 DEF OneEnd
<1>4. Beginning'
  BY <1>1, <1>2 DEF Beginning
<1>5. \A u \in Threads : pc'[u] \in {"disconnectex", "disconnected"} => pc[u] \in {"disconnectex", "disconnected"}
  BY DEF Others, Ends, EndsAt
<1>6. CallbackOrder'
  BY <1>1, <1>2, <1>5 DEF CallbackOrder
<1> QED BY <1>3, <1>4, <1>6

\* The other threads stay where they are.
LEMMA KeepsPlaces ==
  ASSUME Places, NEW t \in Threads, Others(t), Place(pc'[t], stack'[t])
  PROVE  Places'
BY DEF Places, Others

-----------------------------------------------------------------------------
(* Every step keeps the invariant: first the steps of a thread that leave  *)
(* the session's course alone.                                             *)

\* Which stack belongs to a program counter.
LEMMA StackOf ==
  ASSUME Places, NEW t \in Threads
  PROVE  /\ pc[t] \in TopPcs => stack[t] = <<>>
         /\ pc[t] \in HandlerPcs => stack[t] = Handler
         /\ pc[t] \in {"send", "push"} => stack[t] \in SendStacks
         /\ pc[t] \in RegisterPcs => stack[t] \in RegisterStacks
         /\ pc[t] \in {"disconnect", "disconnectex"} => stack[t] \in DisconnectStacks
<1>1. Place(pc[t], stack[t])
  BY DEF Places
<1> QED BY <1>1 DEF Place, TopPcs, HandlerPcs, RegisterPcs

\* The stacks of a Send and of a RegisterSend are not those of a failed one.
LEMMA StacksApart ==
  /\ \A s \in RegisterStacks : s \notin FailStacks /\ s # RecvFailing /\ s # <<>>
  /\ <<>> \notin FailStacks /\ RecvFailing \notin FailStacks /\ Handler \notin FailStacks
  /\ Handler \notin {Connecting, Receiving, RecvFailing, ConnectingFailing, ReceivingFailing}
  /\ <<>> \notin {Connecting, Receiving, RecvFailing, ConnectingFailing, ReceivingFailing}
<1>1. ASSUME NEW s \in RegisterStacks PROVE s \notin FailStacks
  <2>1. CASE s \in {Handler, Casting}
    BY <2>1, StackFacts DEF FailStacks
  <2>2. CASE s \in {Connecting, Receiving, Resending}
    BY <2>2, StackFacts DEF FailStacks
  <2> QED BY <2>1, <2>2 DEF RegisterStacks, SendStacks
<1>2. \A s \in RegisterStacks : s # RecvFailing /\ s # <<>>
  BY StackFacts DEF RegisterStacks, SendStacks
<1>3. <<>> \notin FailStacks /\ RecvFailing \notin FailStacks
  BY StackFacts DEF FailStacks
<1>4. Handler \notin {Connecting, Receiving, RecvFailing, ConnectingFailing, ReceivingFailing}
  BY StackFacts
<1>5. <<>> \notin {Connecting, Receiving, RecvFailing, ConnectingFailing, ReceivingFailing}
  BY StackFacts
<1>6. Handler \in RegisterStacks
  BY DEF RegisterStacks, SendStacks
<1> QED BY <1>1, <1>2, <1>3, <1>4, <1>5, <1>6

\* A step that keeps the course keeps the invariant if it keeps the rest of it.
LEMMA LateStep ==
  ASSUME Inv, NEW t \in Threads, Others(t), Typed', Place(pc'[t], stack'[t]),
         ~ Early, type = "Server" => callbacks # <<>>,
         ~ Begins(t)',
         UNCHANGED <<type, inService, callbacks, crash>>,
         sock' = "new" => sock = "new",
         connected' => connected,
         ~ Ends(t)', Connects(t)' => Connects(t),
         "connect" \in flying' => "connect" \in flying,
         "disconnect" \in flying' => "disconnect" \in flying,
         OneSender', OneReceiver', References'
  PROVE  Inv'
<1>1. OneEnd' /\ Beginning' /\ CallbackOrder'
  BY KeepsCourse DEF Inv
<1>2. Places'
  BY KeepsPlaces DEF Inv
<1> QED BY <1>1, <1>2 DEF Inv

\* A thread that is where only a session that has begun can bring it.
LEMMA OrdinaryStep ==
  ASSUME Inv, NEW t \in Threads, Others(t), Typed', Place(pc'[t], stack'[t]),
         pc[t] \notin {"start", "exit", "idle", "connect", "add", "onconnected", "connectreturns"},
         ~ Begins(t)',
         UNCHANGED <<type, inService, callbacks, crash>>,
         sock' = "new" => sock = "new",
         connected' => connected,
         ~ Ends(t)', Connects(t)' => Connects(t),
         "connect" \in flying' => "connect" \in flying,
         "disconnect" \in flying' => "disconnect" \in flying,
         OneSender', OneReceiver', References'
  PROVE  Inv'
<1>1. ~ Early
  BY DEF Inv, Beginning
<1>2. type = "Server" => callbacks # <<>>
  BY DEF Inv, CallbackOrder
<1> QED BY <1>1, <1>2, LateStep

\* The places a thread may go to without a change of its stack.
LEMMA GotoPlace ==
  ASSUME NEW s, NEW p
  PROVE  /\ s \in SendStacks /\ p \in {"send", "push"} => Place(p, s)
         /\ s \in RegisterStacks /\ p \in RegisterPcs => Place(p, s)
         /\ s = Handler /\ p \in HandlerPcs => Place(p, s)
         /\ s = <<>> /\ p \in TopPcs => Place(p, s)
         /\ s \in DisconnectStacks /\ p \in {"disconnect", "disconnectex"} => Place(p, s)
BY DEF Place

\* BroadCast gives the service's lock back and has no role.
LEMMA InvEndBroadCast == ASSUME Inv, NEW t \in Threads, EndBroadCast(t) PROVE Inv'
<1> USE DEF sending, service, kernel, bounds, history
<1>1. pc[t] = "endbroadcast" /\ stack[t] = <<>>
  BY StackOf DEF EndBroadCast, Inv, TopPcs
<1>2. /\ pc'[t] = "idle" /\ stack'[t] = <<>> /\ Others(t)
      /\ pc' \in [Threads -> Labels] /\ stack' \in [Threads -> Seq(Labels)]
  BY <1>1, GotoMoves DEF EndBroadCast, Inv, Labels, TopPcs, Others
<1>3. Place(pc'[t], stack'[t]) /\ Typed'
  BY <1>2, GotoPlace DEF EndBroadCast, Inv, Typed, TopPcs
<1>4. ~ Sends(t)' /\ ~ Receives(t)' /\ ~ Ends(t)' /\ ~ Begins(t)' /\ ~ Connects(t)'
  BY <1>2, StackFacts, StacksApart DEF Sends, SendsAt, Receives, ReceivesAt, Ends, EndsAt, Begins, BeginsAt,
                  Connects, ConnectsAt, RegisterPcs
<1>5. OneSender' /\ OneReceiver' /\ References'
  BY <1>2, <1>4, KeepsSender, KeepsReceiver DEF EndBroadCast, Inv, References, Others
<1> QED BY <1>1, <1>2, <1>3, <1>4, <1>5, OrdinaryStep DEF EndBroadCast

\* What the moves of a thread mean for its place and its roles.
LEMMA ReturnStep ==
  ASSUME Inv, NEW t \in Threads, pc[t] \notin TopPcs, Return(t)
  PROVE  /\ Others(t) /\ Place(pc'[t], stack'[t])
         /\ pc' \in [Threads -> Labels] /\ stack' \in [Threads -> Seq(Labels)]
         /\ Sends(t)' <=> stack[t] \in FailStacks
         /\ Receives(t)' => Receives(t)
         /\ Connects(t)' => Connects(t)
         /\ ~ Ends(t)' /\ ~ Begins(t)'
         /\ pc'[t] \notin {"start", "drain", "wsasend", "wsarecv", "disconnectex", "disconnected",
                          "send", "push"}
         /\ stack[t] = Handler => pc'[t] = "idle" /\ stack'[t] = <<>>
<1>1. Place(pc[t], stack[t])
  BY DEF Inv, Places
<1>2. pc'[t] \in {"idle", "endbroadcast", "connectreturns", "recv", "unlock",
                  "recvfail", "sendfail"}
  BY <1>1, ReturnMoves DEF Inv
<1>3. /\ ~ Ends(t)' /\ ~ Begins(t)'
      /\ pc'[t] \notin {"start", "drain", "wsasend", "wsarecv", "disconnectex", "disconnected",
                       "send", "push"}
  BY <1>2 DEF Ends, EndsAt, Begins, BeginsAt
<1> QED BY <1>1, <1>3, ReturnMoves DEF Inv, Others

\* A thread goes on with the same stack.
LEMMA GotoStep ==
  ASSUME Inv, NEW t \in Threads, NEW l \in Labels, Goto(t, l), Place(l, stack[t])
  PROVE  /\ Others(t) /\ pc'[t] = l /\ stack'[t] = stack[t] /\ Place(pc'[t], stack'[t])
         /\ pc' \in [Threads -> Labels] /\ stack' \in [Threads -> Seq(Labels)]
BY GotoMoves DEF Inv, Others

\* A thread calls, with the place to return to on its stack.
LEMMA CallStep ==
  ASSUME Inv, NEW t \in Threads, NEW l \in Labels, NEW b \in Labels, Call(t, l, b),
         Place(l, Append(stack[t], b))
  PROVE  /\ Others(t) /\ pc'[t] = l /\ stack'[t] = Append(stack[t], b)
         /\ Place(pc'[t], stack'[t])
         /\ pc' \in [Threads -> Labels] /\ stack' \in [Threads -> Seq(Labels)]
BY CallMoves DEF Inv, Others

\* The roles of a thread that goes on to l with the same stack.
LEMMA GotoRoles ==
  ASSUME NEW t \in Threads, stack'[t] = stack[t]
  PROVE  /\ pc'[t] \notin RegisterPcs \cup {"sent", "sentzero", "sendnext"}
              /\ stack[t] \notin FailStacks => ~ Sends(t)'
         /\ pc'[t] \notin {"connect", "add", "onconnected", "connectreturns", "recv", "wsarecv",
                           "recvfail", "received", "receivedzero", "start"}
              => (Receives(t)' => Receives(t))
         /\ pc'[t] \notin {"onconnected", "connectreturns"} => (Connects(t)' => Connects(t))
         /\ pc'[t] \notin {"disconnectex", "disconnected", "release"} => ~ Ends(t)'
         /\ pc'[t] \notin {"start", "connect", "add"} => ~ Begins(t)'
BY DEF Sends, SendsAt, Receives, ReceivesAt, Connects, ConnectsAt, Ends, EndsAt, Begins, BeginsAt

\* Labels are labels.
LEMMA LabelsAre ==
  /\ "idle" \in Labels /\ "push" \in Labels /\ "register" \in Labels /\ "drain" \in Labels
  /\ "wsasend" \in Labels /\ "sendfail" \in Labels /\ "disconnect" \in Labels
  /\ "sendnext" \in Labels /\ "unlock" \in Labels /\ "wsarecv" \in Labels /\ "recvfail" \in Labels
  /\ "recv" \in Labels /\ "send" \in Labels /\ "endbroadcast" \in Labels /\ "add" \in Labels
  /\ "connect" \in Labels /\ "onconnected" \in Labels /\ "connectreturns" \in Labels
  /\ "disconnectex" \in Labels /\ "disconnected" \in Labels /\ "release" \in Labels
  /\ "received" \in Labels /\ "receivedzero" \in Labels /\ "sent" \in Labels
  /\ "sentzero" \in Labels /\ "exit" \in Labels /\ "start" \in Labels
BY DEF Labels, TopPcs, HandlerPcs, RegisterPcs

\* A Send goes on to its push or returns, and has no new role.
LEMMA InvSend == ASSUME Inv, NEW t \in Threads, Send(t) PROVE Inv'
<1> USE DEF sending, service, kernel, bounds, history
<1>1. pc[t] = "send" /\ stack[t] \in SendStacks
  BY StackOf DEF Send, Inv
<1>2. stack[t] \notin FailStacks
  BY <1>1, StacksApart DEF RegisterStacks
<1>3. /\ Others(t) /\ Place(pc'[t], stack'[t]) /\ ~ Sends(t)'
      /\ pc' \in [Threads -> Labels] /\ stack' \in [Threads -> Seq(Labels)]
      /\ Receives(t)' => Receives(t)
      /\ Connects(t)' => Connects(t)
      /\ ~ Ends(t)' /\ ~ Begins(t)'
      /\ pc'[t] \notin {"start", "drain", "wsasend", "wsarecv"}
  <2>1. CASE Goto(t, "push")
    BY <1>1, <1>2, <2>1, GotoStep, GotoPlace, GotoRoles, LabelsAre DEF RegisterPcs
  <2>2. CASE Return(t)
    BY <1>1, <1>2, <2>2, ReturnStep DEF TopPcs
  <2> QED BY <2>1, <2>2 DEF Send
<1>4. Typed'
  BY <1>3 DEF Send, Inv, Typed
<1>5. OneSender' /\ OneReceiver' /\ References'
  BY <1>3, KeepsSender, KeepsReceiver DEF Send, Inv, References, Others
<1> QED BY <1>1, <1>3, <1>4, <1>5, OrdinaryStep DEF Send

\* Whoever sets _sendRegistered takes the send event, which nobody has.
LEMMA InvPush == ASSUME Inv, NEW t \in Threads, Push(t) PROVE Inv'
<1> USE DEF sending, service, kernel, bounds, history
<1>1. pc[t] = "push" /\ stack[t] \in SendStacks
  BY StackOf DEF Push, Inv
<1>2. stack[t] \notin FailStacks /\ stack[t] \in RegisterStacks
  BY <1>1, StacksApart DEF RegisterStacks
<1>3. /\ Others(t) /\ Place(pc'[t], stack'[t])
      /\ pc' \in [Threads -> Labels] /\ stack' \in [Threads -> Seq(Labels)]
      /\ Receives(t)' => Receives(t)
      /\ Connects(t)' => Connects(t)
      /\ ~ Ends(t)' /\ ~ Begins(t)'
      /\ pc'[t] \notin {"start", "drain", "wsasend", "wsarecv"}
      /\ registered => ~ Sends(t)'
  <2>1. CASE ~ registered /\ Goto(t, "register")
    BY <1>1, <1>2, <2>1, GotoStep, GotoPlace, GotoRoles, LabelsAre DEF RegisterPcs
  <2>2. CASE registered /\ Return(t)
    BY <1>1, <1>2, <2>2, ReturnStep DEF TopPcs
  <2> QED BY <2>1, <2>2 DEF Push
<1>4. Typed'
  BY <1>3 DEF Push, Inv, Typed
<1>5. OneSender'
  <2>1. CASE registered
    BY <1>3, <2>1, KeepsSender DEF Push, Inv
  <2>2. CASE ~ registered
    <3>1. "send" \notin flying /\ \A u \in Threads : ~ Sends(u)
      BY <2>2 DEF Inv, OneSender
    <3>2. \A u \in Threads : Sends(u)' => u = t
      BY <1>3, <3>1, OthersStay
    <3> QED BY <3>1, <3>2 DEF Push, OneSender
  <2> QED BY <2>1, <2>2
<1>6. OneReceiver' /\ References'
  BY <1>3, KeepsReceiver DEF Push, Inv, References, Others
<1> QED BY <1>1, <1>3, <1>4, <1>5, <1>6, OrdinaryStep DEF Push

\* RegisterSend keeps the send event and takes the reference, or returns.
LEMMA InvRegisterSend == ASSUME Inv, NEW t \in Threads, RegisterSend(t) PROVE Inv'
<1> USE DEF sending, service, kernel, bounds, history
<1>1. pc[t] = "register" /\ stack[t] \in RegisterStacks
  BY StackOf DEF RegisterSend, Inv, RegisterPcs
<1>2. stack[t] \notin FailStacks
  BY <1>1, StacksApart
<1>3. /\ Others(t) /\ Place(pc'[t], stack'[t])
      /\ pc' \in [Threads -> Labels] /\ stack' \in [Threads -> Seq(Labels)]
      /\ Receives(t)' => Receives(t)
      /\ Connects(t)' => Connects(t)
      /\ ~ Ends(t)' /\ ~ Begins(t)'
      /\ pc'[t] \notin {"start", "wsasend", "wsarecv"}
      /\ pc'[t] = "drain" => "send" \in owned'
      /\ owned \subseteq owned' /\ owned' \subseteq Events
  <2>1. CASE Goto(t, "drain") /\ owned' = owned \cup {"send"}
    BY <1>1, <1>2, <2>1, GotoStep, GotoPlace, GotoRoles, LabelsAre
       DEF RegisterPcs, Inv, Typed, Events
  <2>2. CASE Return(t) /\ owned' = owned
    BY <1>1, <1>2, <2>2, ReturnStep DEF TopPcs, Inv, Typed
  <2> QED BY <2>1, <2>2 DEF RegisterSend
<1>4. Typed'
  BY <1>3 DEF RegisterSend, Inv, Typed
<1>5. Sends(t)
  BY <1>1 DEF Sends, SendsAt, RegisterPcs
<1>6. OneSender' /\ OneReceiver'
  BY <1>3, <1>5, KeepsSender, KeepsReceiver DEF RegisterSend, Inv
<1>7. References'
  BY <1>3 DEF RegisterSend, Inv, References, Others
<1> QED BY <1>1, <1>3, <1>4, <1>6, <1>7, OrdinaryStep DEF RegisterSend

\* The drained buffers are in the hands of the thread that has the send event.
LEMMA InvDrain == ASSUME Inv, NEW t \in Threads, Drain(t) PROVE Inv'
<1> USE DEF sending, service, kernel, bounds, history
<1>1. pc[t] = "drain" /\ stack[t] \in RegisterStacks
  BY StackOf DEF Drain, Inv, RegisterPcs
<1>2. /\ Others(t) /\ Place(pc'[t], stack'[t]) /\ pc'[t] = "wsasend"
      /\ pc' \in [Threads -> Labels] /\ stack' \in [Threads -> Seq(Labels)]
      /\ Receives(t)' => Receives(t)
      /\ Connects(t)' => Connects(t)
      /\ ~ Ends(t)' /\ ~ Begins(t)'
  BY <1>1, GotoStep, GotoPlace, GotoRoles, LabelsAre DEF Drain, RegisterPcs
<1>3. Typed'
  BY <1>2 DEF Drain, Inv, Typed
<1>4. Sends(t)
  BY <1>1 DEF Sends, SendsAt, RegisterPcs
<1>5. OneSender' /\ OneReceiver'
  BY <1>2, <1>4, KeepsSender, KeepsReceiver DEF Drain, Inv
<1>6. References'
  BY <1>1, <1>2 DEF Drain, Inv, References, Others
<1> QED BY <1>1, <1>2, <1>3, <1>5, <1>6, OrdinaryStep DEF Drain

\* The stack of a Disconnect from RegisterSend.
LEMMA FailingStack ==
  ASSUME NEW s \in RegisterStacks
  PROVE  /\ Append(s, "sendfail") \in FailStacks
         /\ Append(s, "sendfail") \in {Connecting, Receiving, RecvFailing, ConnectingFailing, ReceivingFailing}
              => s \in {Connecting, Receiving}
         /\ Append(s, "sendfail") \in {Connecting, ConnectingFailing} => s = Connecting
<1> PICK f : f = Append(s, "sendfail")
  OBVIOUS
<1>1. \/ s = Handler /\ f = HandlerFailing
      \/ s = Casting /\ f = CastingFailing
      \/ s = Connecting /\ f = ConnectingFailing
      \/ s = Receiving /\ f = ReceivingFailing
      \/ s = Resending /\ f = ResendingFailing
  BY DEF RegisterStacks, SendStacks, HandlerFailing, CastingFailing, ConnectingFailing,
         ReceivingFailing, ResendingFailing
<1>2. f \in FailStacks
  BY <1>1 DEF FailStacks
<1>3. f \in {Connecting, Receiving, RecvFailing, ConnectingFailing, ReceivingFailing}
        => s \in {Connecting, Receiving}
  BY <1>1, StackFacts
<1>4. f \in {Connecting, ConnectingFailing} => s = Connecting
  BY <1>1, StackFacts
<1> QED BY <1>2, <1>3, <1>4

\* WSASend passes the send event to the kernel, or keeps it to clean up.
LEMMA InvWSASend == ASSUME Inv, NEW t \in Threads, WSASend(t) PROVE Inv'
<1> USE DEF sending, service, kernel, bounds, history
<1>1. pc[t] = "wsasend" /\ stack[t] \in RegisterStacks
  BY StackOf DEF WSASend, Inv, RegisterPcs
<1>2. stack[t] \notin FailStacks
  BY <1>1, StacksApart
<1>3. Sends(t) /\ "send" \in owned
  BY <1>1 DEF Sends, SendsAt, RegisterPcs, Inv, References
<1>4. /\ Others(t) /\ Place(pc'[t], stack'[t])
      /\ pc' \in [Threads -> Labels] /\ stack' \in [Threads -> Seq(Labels)]
      /\ Receives(t)' => Receives(t)
      /\ Connects(t)' => Connects(t)
      /\ ~ Ends(t)' /\ ~ Begins(t)'
      /\ pc'[t] \notin {"start", "drain", "wsasend", "wsarecv"}
      /\ flying' = flying \/ (flying' = flying \cup {"send"} /\ ~ Sends(t)')
  <2>1. CASE Return(t) /\ flying' = flying \cup {"send"}
    BY <1>1, <1>2, <2>1, ReturnStep DEF TopPcs
  <2>2. CASE Goto(t, "sendfail") /\ flying' = flying
    BY <1>1, <1>2, <2>2, GotoStep, GotoPlace, GotoRoles, LabelsAre DEF RegisterPcs
  <2>3. CASE Call(t, "disconnect", "sendfail") /\ flying' = flying
    <3> PICK f : f = Append(stack[t], "sendfail")
      OBVIOUS
    <3>1. f \in FailStacks /\ Place("disconnect", f)
      BY <1>1, FailingStack, GotoPlace DEF DisconnectStacks
    <3>2. /\ Others(t) /\ pc'[t] = "disconnect" /\ stack'[t] = f /\ Place(pc'[t], stack'[t])
          /\ pc' \in [Threads -> Labels] /\ stack' \in [Threads -> Seq(Labels)]
      BY <2>3, <3>1, CallStep, LabelsAre
    <3>3. Receives(t)' => Receives(t)
      BY <1>1, <3>2, FailingStack DEF Receives, ReceivesAt
    <3>4. Connects(t)' => Connects(t)
      BY <1>1, <3>2, FailingStack DEF Connects, ConnectsAt
    <3>5. ~ Ends(t)' /\ ~ Begins(t)'
      BY <3>2 DEF Ends, EndsAt, Begins, BeginsAt
    <3> QED BY <2>3, <3>2, <3>3, <3>4, <3>5
  <2> QED BY <2>1, <2>2, <2>3 DEF WSASend
<1>5. Typed'
  BY <1>4 DEF WSASend, Inv, Typed, Events
<1>6. OneSender'
  <2>1. CASE flying' = flying
    BY <1>3, <1>4, <2>1, KeepsSender DEF WSASend, Inv
  <2>2. CASE flying' = flying \cup {"send"} /\ ~ Sends(t)'
    <3>1. registered /\ \A u \in Threads : Sends(u) => u = t
      BY <1>3 DEF Inv, OneSender
    <3>2. \A u \in Threads : ~ Sends(u)'
      BY <1>4, <2>2, <3>1, OthersStay
    <3> QED BY <3>1, <3>2 DEF WSASend, OneSender
  <2> QED BY <1>4, <2>1, <2>2
<1>7. OneReceiver'
  BY <1>4, KeepsReceiver DEF WSASend, Inv
<1>8. References'
  BY <1>3, <1>4 DEF WSASend, Inv, References, Others
<1> QED BY <1>1, <1>4, <1>5, <1>6, <1>7, <1>8, OrdinaryStep DEF WSASend

\* The thread that has the send event is alone with it.
LEMMA SenderAlone ==
  ASSUME Inv, NEW t \in Threads, Sends(t)
  PROVE  /\ "send" \notin flying /\ registered
         /\ \A u \in Threads : Sends(u) => u = t
         /\ \A u \in Threads : pc[u] \in {"drain", "wsasend"} => u = t
<1>1. \A u \in Threads : pc[u] \in {"drain", "wsasend"} => Sends(u)
  BY DEF Sends, SendsAt, RegisterPcs
<1> QED BY <1>1 DEF Inv, OneSender

\* The cleaning up gives the send event back, with _sendRegistered.
LEMMA InvSendFail == ASSUME Inv, NEW t \in Threads, SendFail(t) PROVE Inv'
<1> USE DEF sending, service, kernel, bounds, history
<1>1. pc[t] = "sendfail" /\ stack[t] \in RegisterStacks
  BY StackOf DEF SendFail, Inv, RegisterPcs
<1>2. stack[t] \notin FailStacks
  BY <1>1, StacksApart
<1>3. Sends(t)
  BY <1>1 DEF Sends, SendsAt, RegisterPcs
<1>4. /\ Others(t) /\ Place(pc'[t], stack'[t]) /\ ~ Sends(t)'
      /\ pc' \in [Threads -> Labels] /\ stack' \in [Threads -> Seq(Labels)]
      /\ Receives(t)' => Receives(t)
      /\ Connects(t)' => Connects(t)
      /\ ~ Ends(t)' /\ ~ Begins(t)'
      /\ pc'[t] \notin {"start", "drain", "wsasend", "wsarecv"}
  BY <1>1, <1>2, ReturnStep DEF SendFail, TopPcs
<1>5. Typed'
  BY <1>4 DEF SendFail, Inv, Typed
<1>6. "send" \notin flying /\ \A u \in Threads : ~ Sends(u)'
  BY <1>3, <1>4, SenderAlone, OthersStay
<1>7. OneSender'
  BY <1>6 DEF SendFail, OneSender
<1>8. OneReceiver'
  BY <1>4, KeepsReceiver DEF SendFail, Inv
<1>9. References'
  <2>1. flying' \subseteq owned'
    BY <1>6 DEF SendFail, Inv, References
  <2>2. \A u \in Threads : pc'[u] \notin {"drain", "wsasend"}
    BY <1>3, <1>4, SenderAlone DEF Others
  <2>3. \A u \in Threads : pc'[u] = "wsarecv" => "recv" \in owned'
    BY <1>4 DEF Others, Inv, References, SendFail
  <2> QED BY <2>1, <2>2, <2>3 DEF References
<1> QED BY <1>1, <1>4, <1>5, <1>7, <1>8, <1>9, OrdinaryStep DEF SendFail

\* The handler of a completed WSASend gives back the reference and keeps the event.
LEMMA InvProcessSend == ASSUME Inv, NEW t \in Threads, ProcessSend(t) PROVE Inv'
<1> USE DEF sending, service, kernel, bounds, history
<1>1. pc[t] \in {"sent", "sentzero"} /\ stack[t] = Handler
  BY StackOf DEF ProcessSend, Inv, HandlerPcs
<1>2. Sends(t)
  BY <1>1 DEF Sends, SendsAt
<1>3. /\ Others(t) /\ Place(pc'[t], stack'[t])
      /\ pc' \in [Threads -> Labels] /\ stack' \in [Threads -> Seq(Labels)]
      /\ Receives(t)' => Receives(t)
      /\ Connects(t)' => Connects(t)
      /\ ~ Ends(t)' /\ ~ Begins(t)'
      /\ pc'[t] \in {"disconnect", "sendnext"}
  <2>1. CASE Goto(t, "disconnect")
    BY <1>1, <2>1, GotoStep, GotoPlace, GotoRoles, LabelsAre DEF DisconnectStacks
  <2>2. CASE Goto(t, "sendnext")
    BY <1>1, <2>2, GotoStep, GotoPlace, GotoRoles, LabelsAre DEF HandlerPcs
  <2> QED BY <1>1, <2>1, <2>2 DEF ProcessSend
<1>4. Typed'
  BY <1>3 DEF ProcessSend, Inv, Typed
<1>5. OneSender' /\ OneReceiver'
  BY <1>2, <1>3, KeepsSender, KeepsReceiver DEF ProcessSend, Inv
<1>6. References'
  <2>1. flying' \subseteq owned'
    BY <1>2, SenderAlone DEF ProcessSend, Inv, References
  <2>2. \A u \in Threads : pc'[u] \notin {"drain", "wsasend"}
    BY <1>2, <1>3, SenderAlone DEF Others
  <2>3. \A u \in Threads : pc'[u] = "wsarecv" => "recv" \in owned'
    BY <1>3 DEF Others, Inv, References, ProcessSend
  <2> QED BY <2>1, <2>2, <2>3 DEF References
<1> QED BY <1>1, <1>3, <1>4, <1>5, <1>6, OrdinaryStep DEF ProcessSend

\* The handler gives the send event back, with _sendRegistered, or sends the next batch.
LEMMA InvSendNext == ASSUME Inv, NEW t \in Threads, SendNext(t) PROVE Inv'
<1> USE DEF sending, service, kernel, bounds, history
<1>1. pc[t] = "sendnext" /\ stack[t] = Handler
  BY StackOf DEF SendNext, Inv, HandlerPcs
<1>2. Sends(t) /\ Handler \notin FailStacks
  BY <1>1, StacksApart DEF Sends, SendsAt
<1>3. /\ Others(t) /\ Place(pc'[t], stack'[t])
      /\ pc' \in [Threads -> Labels] /\ stack' \in [Threads -> Seq(Labels)]
      /\ Receives(t)' => Receives(t)
      /\ Connects(t)' => Connects(t)
      /\ ~ Ends(t)' /\ ~ Begins(t)'
      /\ pc'[t] \notin {"start", "drain", "wsasend", "wsarecv"}
      /\ registered' = registered \/ (registered' = FALSE /\ ~ Sends(t)')
  <2>1. CASE Return(t) /\ registered' = FALSE
    BY <1>1, <1>2, <2>1, ReturnStep DEF TopPcs
  <2>2. CASE Call(t, "register", "unlock") /\ registered' = registered
    <3>1. Append(stack[t], "unlock") = Resending
      BY <1>1 DEF Resending
    <3>2. Place("register", Resending)
      BY GotoPlace DEF RegisterStacks, RegisterPcs
    <3>3. /\ Others(t) /\ pc'[t] = "register" /\ stack'[t] = Resending /\ Place(pc'[t], stack'[t])
          /\ pc' \in [Threads -> Labels] /\ stack' \in [Threads -> Seq(Labels)]
      BY <2>2, <3>1, <3>2, CallStep, LabelsAre
    <3>4. ~ Receives(t)' /\ ~ Connects(t)'
      BY <3>3, StackFacts DEF Receives, ReceivesAt, Connects, ConnectsAt
    <3>5. ~ Ends(t)' /\ ~ Begins(t)'
      BY <3>3 DEF Ends, EndsAt, Begins, BeginsAt
    <3> QED BY <2>2, <3>3, <3>4, <3>5
  <2> QED BY <2>1, <2>2 DEF SendNext
<1>4. Typed'
  BY <1>3 DEF SendNext, Inv, Typed
<1>5. OneSender'
  <2>1. CASE registered' = registered
    BY <1>2, <1>3, <2>1, KeepsSender DEF SendNext, Inv
  <2>2. CASE registered' = FALSE /\ ~ Sends(t)'
    <3>1. "send" \notin flying /\ \A u \in Threads : ~ Sends(u)'
      BY <1>2, <1>3, <2>2, SenderAlone, OthersStay
    <3> QED BY <3>1 DEF SendNext, OneSender
  <2> QED BY <1>3, <2>1, <2>2
<1>6. OneReceiver' /\ References'
  BY <1>3, KeepsReceiver DEF SendNext, Inv, References, Others
<1> QED BY <1>1, <1>3, <1>4, <1>5, <1>6, OrdinaryStep DEF SendNext

\* A handler that has registered the next batch has no role any more.
LEMMA InvUnlock == ASSUME Inv, NEW t \in Threads, Unlock(t) PROVE Inv'
<1> USE DEF sending, service, kernel, bounds, history
<1>1. pc[t] = "unlock" /\ stack[t] = Handler /\ Handler \notin FailStacks
  BY StackOf, StacksApart DEF Unlock, Inv, HandlerPcs
<1>2. /\ Others(t) /\ Place(pc'[t], stack'[t]) /\ ~ Sends(t)'
      /\ pc' \in [Threads -> Labels] /\ stack' \in [Threads -> Seq(Labels)]
      /\ Receives(t)' => Receives(t)
      /\ Connects(t)' => Connects(t)
      /\ ~ Ends(t)' /\ ~ Begins(t)'
      /\ pc'[t] \notin {"start", "drain", "wsasend", "wsarecv"}
  BY <1>1, ReturnStep DEF Unlock, TopPcs
<1>3. Typed'
  BY <1>2 DEF Unlock, Inv, Typed
<1>4. OneSender' /\ OneReceiver' /\ References'
  BY <1>2, KeepsSender, KeepsReceiver DEF Unlock, Inv, References, Others
<1> QED BY <1>1, <1>2, <1>3, <1>4, OrdinaryStep DEF Unlock

\* The receiver is alone with the receive event.
LEMMA ReceiverAlone ==
  ASSUME Inv, NEW t \in Threads, Receives(t)
  PROVE  /\ "recv" \notin flying /\ "connect" \notin flying /\ ~ Unaccepted
         /\ \A u \in Threads : Receives(u) => u = t
         /\ \A u \in Threads : pc[u] = "wsarecv" => u = t
<1>1. \A u \in Threads : pc[u] = "wsarecv" => Receives(u)
  BY DEF Receives, ReceivesAt
<1> QED BY <1>1 DEF Inv, OneReceiver

\* RegisterRecv takes the reference, or gives up receiving.
LEMMA InvRegisterRecv == ASSUME Inv, NEW t \in Threads, RegisterRecv(t) PROVE Inv'
<1> USE DEF sending, service, kernel, bounds, history
<1>1. pc[t] = "recv" /\ stack[t] = Handler /\ Handler \notin FailStacks
  BY StackOf, StacksApart DEF RegisterRecv, Inv, HandlerPcs
<1>2. Receives(t)
  BY <1>1 DEF Receives, ReceivesAt
<1>3. /\ Others(t) /\ Place(pc'[t], stack'[t]) /\ ~ Sends(t)'
      /\ pc' \in [Threads -> Labels] /\ stack' \in [Threads -> Seq(Labels)]
      /\ Connects(t)' => Connects(t)
      /\ ~ Ends(t)' /\ ~ Begins(t)'
      /\ pc'[t] \notin {"start", "drain", "wsasend"}
      /\ pc'[t] = "wsarecv" => "recv" \in owned'
      /\ owned \subseteq owned' /\ owned' \subseteq Events
  <2>1. CASE Goto(t, "wsarecv") /\ owned' = owned \cup {"recv"}
    BY <1>1, <2>1, GotoStep, GotoPlace, GotoRoles, LabelsAre
       DEF HandlerPcs, RegisterPcs, Inv, Typed, Events
  <2>2. CASE Return(t) /\ owned' = owned
    BY <1>1, <2>2, ReturnStep DEF TopPcs, Inv, Typed
  <2> QED BY <2>1, <2>2 DEF RegisterRecv
<1>4. Typed'
  BY <1>3 DEF RegisterRecv, Inv, Typed
<1>5. OneSender' /\ OneReceiver'
  BY <1>2, <1>3, KeepsSender, KeepsReceiver DEF RegisterRecv, Inv
<1>6. References'
  BY <1>3 DEF RegisterRecv, Inv, References, Others
<1> QED BY <1>1, <1>3, <1>4, <1>5, <1>6, OrdinaryStep DEF RegisterRecv

\* WSARecv passes the receive event to the kernel, or keeps it to clean up.
LEMMA InvWSARecv == ASSUME Inv, NEW t \in Threads, WSARecv(t) PROVE Inv'
<1> USE DEF sending, service, kernel, bounds, history
<1>1. pc[t] = "wsarecv" /\ stack[t] = Handler /\ Handler \notin FailStacks
  BY StackOf, StacksApart DEF WSARecv, Inv, HandlerPcs
<1>2. Receives(t) /\ "recv" \in owned
  BY <1>1 DEF Receives, ReceivesAt, Inv, References
<1>3. /\ Others(t) /\ Place(pc'[t], stack'[t]) /\ ~ Sends(t)'
      /\ pc' \in [Threads -> Labels] /\ stack' \in [Threads -> Seq(Labels)]
      /\ Connects(t)' => Connects(t)
      /\ ~ Ends(t)' /\ ~ Begins(t)'
      /\ pc'[t] \notin {"start", "drain", "wsasend", "wsarecv"}
      /\ flying' = flying \/ (flying' = flying \cup {"recv"} /\ ~ Receives(t)')
  <2>1. CASE Return(t) /\ flying' = flying \cup {"recv"}
    <3>1. pc'[t] = "idle" /\ stack'[t] = <<>>
      BY <1>1, <2>1, ReturnStep DEF TopPcs
    <3>2. ~ Receives(t)'
      BY <3>1, StacksApart DEF Receives, ReceivesAt
    <3> QED BY <1>1, <2>1, <3>2, ReturnStep DEF TopPcs
  <2>2. CASE Goto(t, "recvfail") /\ flying' = flying
    BY <1>1, <2>2, GotoStep, GotoPlace, GotoRoles, LabelsAre DEF HandlerPcs, RegisterPcs
  <2>3. CASE Call(t, "disconnect", "recvfail") /\ flying' = flying
    <3>1. Append(stack[t], "recvfail") = RecvFailing
      BY <1>1 DEF RecvFailing
    <3>2. Place("disconnect", RecvFailing)
      BY GotoPlace DEF DisconnectStacks
    <3>3. /\ Others(t) /\ pc'[t] = "disconnect" /\ stack'[t] = RecvFailing /\ Place(pc'[t], stack'[t])
          /\ pc' \in [Threads -> Labels] /\ stack' \in [Threads -> Seq(Labels)]
      BY <2>3, <3>1, <3>2, CallStep, LabelsAre
    <3>4. ~ Sends(t)' /\ ~ Connects(t)'
      BY <3>3, StackFacts, StacksApart DEF Sends, SendsAt, RegisterPcs, Connects, ConnectsAt
    <3>5. ~ Ends(t)' /\ ~ Begins(t)'
      BY <3>3 DEF Ends, EndsAt, Begins, BeginsAt
    <3> QED BY <2>3, <3>3, <3>4, <3>5
  <2> QED BY <2>1, <2>2, <2>3 DEF WSARecv
<1>4. Typed'
  BY <1>3 DEF WSARecv, Inv, Typed, Events
<1>5. OneSender'
  BY <1>3, KeepsSender DEF WSARecv, Inv
<1>6. OneReceiver'
  <2>1. CASE flying' = flying
    BY <1>2, <1>3, <2>1, KeepsReceiver DEF WSARecv, Inv
  <2>2. CASE flying' = flying \cup {"recv"} /\ ~ Receives(t)'
    <3>1. /\ "connect" \notin flying /\ ~ Unaccepted
          /\ \A u \in Threads : ~ Receives(u)'
      BY <1>2, <1>3, <2>2, ReceiverAlone, OthersStay
    <3>2. ~ Unaccepted' /\ type' = type
      BY <3>1 DEF Unaccepted, WSARecv
    <3>3. \A u \in Threads : pc'[u] = "start" => pc[u] = "start"
      BY <1>3 DEF Others
    <3>4. (\E u \in Threads : pc[u] = "start") => type = "Client"
      BY DEF Inv, OneReceiver
    <3> QED BY <2>2, <3>1, <3>2, <3>3, <3>4 DEF OneReceiver
  <2> QED BY <1>3, <2>1, <2>2
<1>7. References'
  BY <1>2, <1>3 DEF WSARecv, Inv, References, Others
<1> QED BY <1>1, <1>3, <1>4, <1>5, <1>6, <1>7, OrdinaryStep DEF WSARecv

\* The receiver gives its reference back and receives no more.
LEMMA InvRecvFail == ASSUME Inv, NEW t \in Threads, RecvFail(t) PROVE Inv'
<1> USE DEF sending, service, kernel, bounds, history
<1>1. pc[t] = "recvfail" /\ stack[t] = Handler /\ Handler \notin FailStacks
  BY StackOf, StacksApart DEF RecvFail, Inv, HandlerPcs
<1>2. Receives(t)
  BY <1>1 DEF Receives, ReceivesAt
<1>3. /\ Others(t) /\ Place(pc'[t], stack'[t]) /\ ~ Sends(t)'
      /\ pc' \in [Threads -> Labels] /\ stack' \in [Threads -> Seq(Labels)]
      /\ Connects(t)' => Connects(t)
      /\ ~ Ends(t)' /\ ~ Begins(t)'
      /\ pc'[t] \notin {"start", "drain", "wsasend", "wsarecv"}
  BY <1>1, ReturnStep DEF RecvFail, TopPcs
<1>4. Typed'
  BY <1>3 DEF RecvFail, Inv, Typed
<1>5. OneSender' /\ OneReceiver'
  BY <1>2, <1>3, KeepsSender, KeepsReceiver DEF RecvFail, Inv
<1>6. References'
  <2>1. flying' \subseteq owned'
    BY <1>2, ReceiverAlone DEF RecvFail, Inv, References
  <2>2. \A u \in Threads : pc'[u] # "wsarecv"
    BY <1>2, <1>3, <1>1, ReceiverAlone DEF Others
  <2>3. \A u \in Threads : pc'[u] \in {"drain", "wsasend"} => "send" \in owned'
    BY <1>3 DEF Others, Inv, References, RecvFail
  <2> QED BY <2>1, <2>2, <2>3 DEF References
<1> QED BY <1>1, <1>3, <1>4, <1>5, <1>6, OrdinaryStep DEF RecvFail

\* The handler of a completed WSARecv gives back the reference and goes on receiving.
LEMMA InvProcessRecv == ASSUME Inv, NEW t \in Threads, ProcessRecv(t) PROVE Inv'
<1> USE DEF sending, service, kernel, bounds, history
<1>1. pc[t] \in {"received", "receivedzero"} /\ stack[t] = Handler /\ Handler \notin FailStacks
  BY StackOf, StacksApart DEF ProcessRecv, Inv, HandlerPcs
<1>2. Receives(t)
  BY <1>1 DEF Receives, ReceivesAt
<1>3. /\ Others(t) /\ Place(pc'[t], stack'[t]) /\ ~ Sends(t)'
      /\ pc' \in [Threads -> Labels] /\ stack' \in [Threads -> Seq(Labels)]
      /\ Connects(t)' => Connects(t)
      /\ ~ Ends(t)' /\ ~ Begins(t)'
      /\ pc'[t] \in {"disconnect", "recv", "send"}
  <2>1. CASE Goto(t, "disconnect")
    BY <1>1, <2>1, GotoStep, GotoPlace, GotoRoles, LabelsAre DEF DisconnectStacks, RegisterPcs
  <2>2. CASE Goto(t, "recv")
    BY <1>1, <2>2, GotoStep, GotoPlace, GotoRoles, LabelsAre DEF HandlerPcs, RegisterPcs
  <2>3. CASE CallSend(t, "recv")
    <3>1. Append(stack[t], "recv") = Receiving
      BY <1>1 DEF Receiving
    <3>2. Place("send", Receiving)
      BY GotoPlace DEF SendStacks
    <3>3. /\ Others(t) /\ pc'[t] = "send" /\ stack'[t] = Receiving /\ Place(pc'[t], stack'[t])
          /\ pc' \in [Threads -> Labels] /\ stack' \in [Threads -> Seq(Labels)]
      BY <2>3, <3>1, <3>2, CallStep, LabelsAre DEF CallSend
    <3>4. Receiving \notin FailStacks /\ Receiving \notin {Connecting, ConnectingFailing}
      BY StackFacts, StacksApart DEF RegisterStacks, SendStacks
    <3>5. ~ Sends(t)' /\ ~ Connects(t)'
      BY <3>3, <3>4 DEF Sends, SendsAt, RegisterPcs, Connects, ConnectsAt
    <3>6. ~ Ends(t)' /\ ~ Begins(t)'
      BY <3>3 DEF Ends, EndsAt, Begins, BeginsAt
    <3> QED BY <3>3, <3>5, <3>6
  <2> QED BY <1>1, <2>1, <2>2, <2>3 DEF ProcessRecv
<1>4. Typed'
  BY <1>3 DEF ProcessRecv, Inv, Typed
<1>5. OneSender' /\ OneReceiver'
  BY <1>2, <1>3, KeepsSender, KeepsReceiver DEF ProcessRecv, Inv
<1>6. References'
  <2>1. flying' \subseteq owned'
    BY <1>2, ReceiverAlone DEF ProcessRecv, Inv, References
  <2>2. \A u \in Threads : pc'[u] # "wsarecv"
    BY <1>2, <1>3, <1>1, ReceiverAlone DEF Others
  <2>3. \A u \in Threads : pc'[u] \in {"drain", "wsasend"} => "send" \in owned'
    BY <1>3 DEF Others, Inv, References, ProcessRecv
  <2> QED BY <2>1, <2>2, <2>3 DEF References
<1> QED BY <1>1, <1>3, <1>4, <1>5, <1>6, OrdinaryStep DEF ProcessRecv

-----------------------------------------------------------------------------
(* The steps that change the session's course.                             *)

\* The first Disconnect finds a session that is in its service, and nobody who
\* ends it already.
LEMMA InvDisconnect == ASSUME Inv, NEW t \in Threads, Disconnect(t) PROVE Inv'
<1> USE DEF sending, service, kernel, bounds, history
<1>1. pc[t] = "disconnect" /\ stack[t] \in DisconnectStacks
  BY StackOf DEF Disconnect, Inv
<1>2. CASE ~ connected /\ Return(t)
  <2>1. /\ Others(t) /\ Place(pc'[t], stack'[t])
        /\ pc' \in [Threads -> Labels] /\ stack' \in [Threads -> Seq(Labels)]
        /\ Sends(t)' => Sends(t)
        /\ Receives(t)' => Receives(t)
        /\ Connects(t)' => Connects(t)
        /\ ~ Ends(t)' /\ ~ Begins(t)'
        /\ pc'[t] \notin {"start", "drain", "wsasend", "wsarecv"}
    BY <1>1, <1>2, ReturnStep DEF TopPcs, Sends, SendsAt
  <2>2. Typed'
    BY <2>1 DEF Disconnect, Inv, Typed
  <2>3. OneSender' /\ OneReceiver' /\ References'
    BY <2>1, KeepsSender, KeepsReceiver DEF Disconnect, Inv, References, Others
  <2> QED BY <1>1, <1>2, <2>1, <2>2, <2>3, OrdinaryStep DEF Disconnect
<1>3. CASE connected /\ Goto(t, "disconnectex")
  <2>1. /\ Others(t) /\ pc'[t] = "disconnectex" /\ stack'[t] = stack[t] /\ Place(pc'[t], stack'[t])
        /\ pc' \in [Threads -> Labels] /\ stack' \in [Threads -> Seq(Labels)]
    BY <1>1, <1>3, GotoStep, GotoPlace, LabelsAre
  <2>2. /\ Receives(t)' => Receives(t)
        /\ Connects(t)' => Connects(t)
        /\ ~ Begins(t)'
    BY <2>1, GotoRoles
  <2>3. Sends(t)' => Sends(t)
    BY <2>1 DEF Sends, SendsAt, RegisterPcs
  <2>4. Typed'
    BY <2>1 DEF Disconnect, Inv, Typed
  <2>5. OneSender' /\ OneReceiver' /\ References'
    BY <2>1, <2>2, <2>3, KeepsSender, KeepsReceiver DEF Disconnect, Inv, References, Others
  <2>6. ~ Early /\ inService
    BY <1>1, <1>3 DEF Inv, Beginning
  <2>7. ~ Early'
    BY <2>1, <2>2, <2>6, OthersStay DEF Early, Unaccepted, Disconnect
  <2>8. \A u \in Threads : ~ Ends(u)
    BY <1>3 DEF Inv, OneEnd
  <2>9. OneEnd'
    BY <1>3, <2>1, <2>8, OthersStay DEF OneEnd, Disconnect, Inv
  <2>10. Beginning'
    BY <2>6, <2>7 DEF Beginning, Disconnect
  <2>11. CallbackOrder'
    <3>1. callbacks \in {<<>>, <<"OnConnected">>}
      BY <1>3 DEF Inv, CallbackOrder
    <3>2. (\E u \in Threads : Connects(u)') => (\E u \in Threads : Connects(u))
      BY <2>1, <2>2, OthersStay
    <3>3. type = "Server" => callbacks # <<>>
      BY <1>1 DEF Inv, CallbackOrder
    <3>4. (\E u \in Threads : Connects(u)) => callbacks \in {<<>>, <<"OnDisconnected">>}
      BY DEF Inv, CallbackOrder
    <3> QED BY <2>7, <3>1, <3>2, <3>3, <3>4 DEF CallbackOrder, Disconnect, Inv
  <2> QED BY <2>1, <2>4, <2>5, <2>9, <2>10, <2>11, KeepsPlaces DEF Inv, Disconnect
<1> QED BY <1>2, <1>3 DEF Disconnect

\* The request passes the end of the connection from the thread to the kernel.
LEMMA InvRegisterDisconnect == ASSUME Inv, NEW t \in Threads, RegisterDisconnect(t) PROVE Inv'
<1> USE DEF sending, service, kernel, bounds, history
<1>1. pc[t] = "disconnectex" /\ stack[t] \in DisconnectStacks /\ Ends(t)
  BY StackOf DEF RegisterDisconnect, Inv, Ends, EndsAt
<1>2. /\ Others(t) /\ Place(pc'[t], stack'[t])
      /\ pc' \in [Threads -> Labels] /\ stack' \in [Threads -> Seq(Labels)]
      /\ Sends(t)' => Sends(t)
      /\ Receives(t)' => Receives(t)
      /\ Connects(t)' => Connects(t)
      /\ ~ Ends(t)' /\ ~ Begins(t)'
      /\ pc'[t] \notin {"start", "drain", "wsasend", "wsarecv"}
  BY <1>1, ReturnStep DEF RegisterDisconnect, TopPcs, Sends, SendsAt
<1>3. /\ sock' \in {sock, "down"}
      /\ flying' \subseteq flying \cup {"disconnect"} /\ flying' \subseteq owned'
      /\ owned \subseteq owned' /\ owned' \subseteq Events /\ flying' \subseteq Events
  BY DEF RegisterDisconnect, Inv, Typed, References, Events
<1>4. Typed'
  BY <1>2, <1>3 DEF RegisterDisconnect, Inv, Typed
<1>5. OneSender' /\ OneReceiver' /\ References'
  BY <1>2, <1>3, KeepsSender, KeepsReceiver DEF RegisterDisconnect, Inv, References, Others
<1>6. ~ Early /\ inService /\ ~ connected
  BY <1>1 DEF Inv, Beginning, OneEnd
<1>7. ~ Early'
  BY <1>2, <1>3, <1>6, OthersStay DEF Early, Unaccepted, RegisterDisconnect
<1>8. \A u \in Threads : ~ Ends(u)'
  BY <1>1, <1>2, OthersStay DEF Inv, OneEnd
<1>9. OneEnd' /\ Beginning'
  BY <1>6, <1>7, <1>8 DEF OneEnd, Beginning, RegisterDisconnect
<1>10. CallbackOrder'
  <2>1. (\E u \in Threads : Connects(u)') => (\E u \in Threads : Connects(u))
    BY <1>2, OthersStay
  <2>2. callbacks \in {<<>>, <<"OnConnected">>} /\ (type = "Server" => callbacks # <<>>)
    BY <1>1 DEF Inv, CallbackOrder
  <2> QED BY <1>7, <2>1, <2>2 DEF CallbackOrder, RegisterDisconnect, Inv
<1> QED BY <1>2, <1>4, <1>5, <1>9, <1>10, KeepsPlaces DEF Inv, RegisterDisconnect

\* A second callback after a first.
LEMMA TwoCallbacks ==
  /\ Append(<<"OnConnected">>, "OnDisconnected") = <<"OnConnected", "OnDisconnected">>
  /\ Append(<<"OnDisconnected">>, "OnConnected") = <<"OnDisconnected", "OnConnected">>
<1> DEFINE C == {"OnConnected", "OnDisconnected"}
<1>1. ASSUME NEW a \in C, NEW b \in C PROVE Append(<<a>>, b) = <<a, b>>
  <2>1. <<a>> \in Seq(C) /\ <<a, b>> \in Seq(C)
    OBVIOUS
  <2>2. /\ Append(<<a>>, b) \in Seq(C) /\ Len(Append(<<a>>, b)) = 2
        /\ Append(<<a>>, b)[1] = a /\ Append(<<a>>, b)[2] = b
    BY <2>1, AppendProperties
  <2> PICK f \in Seq(C), g \in Seq(C) : f = Append(<<a>>, b) /\ g = <<a, b>>
    BY <2>1, <2>2
  <2>3. Len(g) = 2 /\ g[1] = a /\ g[2] = b
    OBVIOUS
  <2>4. \A i \in 1 .. 2 : f[i] = g[i]
    BY <2>2, <2>3
  <2> QED BY <2>2, <2>3, <2>4, SeqEqual
<1>2. "OnConnected" \in C /\ "OnDisconnected" \in C
  OBVIOUS
<1> HIDE DEF C
<1> QED BY <1>1, <1>2, Zenon

\* OnDisconnected is the second callback, or the first on a client.
LEMMA InvProcessDisconnect == ASSUME Inv, NEW t \in Threads, ProcessDisconnect(t) PROVE Inv'
<1> USE DEF sending, service, kernel, bounds, history
<1>1. pc[t] = "disconnected" /\ stack[t] = Handler /\ Handler \notin FailStacks /\ Ends(t)
  BY StackOf, StacksApart DEF ProcessDisconnect, Inv, Ends, EndsAt, HandlerPcs
<1>2. /\ Others(t) /\ pc'[t] = "release" /\ stack'[t] = stack[t] /\ Place(pc'[t], stack'[t])
      /\ pc' \in [Threads -> Labels] /\ stack' \in [Threads -> Seq(Labels)]
      /\ ~ Sends(t)' /\ ~ Begins(t)'
      /\ Receives(t)' => Receives(t)
      /\ Connects(t)' => Connects(t)
  BY <1>1, GotoStep, GotoPlace, GotoRoles, LabelsAre DEF ProcessDisconnect, HandlerPcs, RegisterPcs
<1>3. Typed'
  BY <1>2 DEF ProcessDisconnect, Inv, Typed
<1>4. ~ Early /\ inService /\ ~ connected /\ "disconnect" \notin flying
  BY <1>1 DEF Inv, Beginning, OneEnd
<1>5. OneSender' /\ OneReceiver' /\ References'
  BY <1>2, <1>4, KeepsSender, KeepsReceiver DEF ProcessDisconnect, Inv, References, Others
<1>6. ~ Early'
  BY <1>2, <1>4, OthersStay DEF Early, Unaccepted, ProcessDisconnect
<1>7. \A u \in Threads : Ends(u)' => u = t
  BY <1>1, OthersStay, <1>2 DEF Inv, OneEnd
<1>8. OneEnd' /\ Beginning'
  BY <1>4, <1>6, <1>7 DEF OneEnd, Beginning, ProcessDisconnect
<1>9. CallbackOrder'
  <2>1. (\E u \in Threads : Connects(u)') => (\E u \in Threads : Connects(u))
    BY <1>2, OthersStay
  <2>2. \A u \in Threads : pc'[u] \notin {"disconnectex", "disconnected"}
    BY <1>2, <1>7 DEF Ends, EndsAt
  <2>3. callbacks \in {<<>>, <<"OnConnected">>} /\ (type = "Server" => callbacks # <<>>)
    BY <1>1 DEF Inv, CallbackOrder
  <2>4. CASE callbacks = <<>>
    <3>1. callbacks' = <<"OnDisconnected">>
      BY <2>4 DEF ProcessDisconnect
    <3> QED BY <1>4, <1>6, <2>2, <2>3, <2>4, <3>1 DEF CallbackOrder, ProcessDisconnect, Inv
  <2>5. CASE callbacks = <<"OnConnected">>
    <3>1. callbacks' = <<"OnConnected", "OnDisconnected">>
      BY <2>5, TwoCallbacks, Zenon DEF ProcessDisconnect
    <3>2. ~ (\E u \in Threads : Connects(u))
      BY <2>5 DEF Inv, CallbackOrder
    <3>3. ~ (Early' \/ (\E u \in Threads : Connects(u)'))
      BY <1>6, <2>1, <3>2
    <3>4. ~ (connected' \/ "disconnect" \in flying'
               \/ (\E u \in Threads : pc'[u] \in {"disconnectex", "disconnected"}))
      BY <1>4, <2>2 DEF ProcessDisconnect
    <3>5. callbacks' # <<>>
      BY <2>5 DEF ProcessDisconnect
    <3> QED BY <3>1, <3>3, <3>4, <3>5, Zenon DEF CallbackOrder
  <2> QED BY <2>3, <2>4, <2>5
<1> QED BY <1>2, <1>3, <1>5, <1>8, <1>9, KeepsPlaces DEF Inv, ProcessDisconnect

\* ReleaseSession finds the session in the service.
LEMMA InvReleaseSession == ASSUME Inv, NEW t \in Threads, ReleaseSession(t) PROVE Inv'
<1> USE DEF sending, service, kernel, bounds, history
<1>1. pc[t] = "release" /\ stack[t] = Handler /\ Handler \notin FailStacks /\ Ends(t)
  BY StackOf, StacksApart DEF ReleaseSession, Inv, Ends, EndsAt, HandlerPcs
<1>2. /\ Others(t) /\ Place(pc'[t], stack'[t]) /\ ~ Sends(t)'
      /\ pc' \in [Threads -> Labels] /\ stack' \in [Threads -> Seq(Labels)]
      /\ Receives(t)' => Receives(t)
      /\ Connects(t)' => Connects(t)
      /\ ~ Ends(t)' /\ ~ Begins(t)'
      /\ pc'[t] \notin {"start", "drain", "wsasend", "wsarecv"}
  BY <1>1, ReturnStep DEF ReleaseSession, TopPcs
<1>3. Typed'
  BY <1>2 DEF ReleaseSession, Inv, Typed
<1>4. ~ Early /\ inService /\ ~ connected /\ "disconnect" \notin flying
  BY <1>1 DEF Inv, Beginning, OneEnd
<1>5. OneSender' /\ OneReceiver' /\ References'
  BY <1>2, <1>4, KeepsSender, KeepsReceiver DEF ReleaseSession, Inv, References, Others
<1>6. ~ Early'
  BY <1>2, <1>4, OthersStay DEF Early, Unaccepted, ReleaseSession
<1>7. \A u \in Threads : ~ Ends(u)'
  BY <1>1, <1>2, OthersStay DEF Inv, OneEnd
<1>8. OneEnd' /\ Beginning' /\ crash' = FALSE
  BY <1>4, <1>6, <1>7 DEF OneEnd, Beginning, ReleaseSession
<1>9. CallbackOrder'
  <2>1. (\E u \in Threads : Connects(u)') => (\E u \in Threads : Connects(u))
    BY <1>2, OthersStay
  <2>2. \A u \in Threads : pc'[u] \notin {"disconnectex", "disconnected"}
    BY <1>7 DEF Ends, EndsAt
  <2>3. type = "Server" => callbacks # <<>>
    BY <1>1 DEF Inv, CallbackOrder
  <2> QED BY <1>4, <1>6, <2>1, <2>2, <2>3 DEF CallbackOrder, ReleaseSession, Inv
<1> QED BY <1>2, <1>3, <1>5, <1>8, <1>9, KeepsPlaces DEF Inv, ReleaseSession

\* The session begins and is added: one thread does this, before anyone else can
\* use the session.
LEMMA InvProcessConnect == ASSUME Inv, NEW t \in Threads, ProcessConnect(t) PROVE Inv'
<1> USE DEF sending, service, kernel, bounds, history
<1>1. pc[t] = "connect" /\ stack[t] = Handler /\ Handler \notin FailStacks
      /\ Receives(t) /\ Begins(t) /\ Early
  BY StackOf, StacksApart
     DEF ProcessConnect, Inv, HandlerPcs, Receives, ReceivesAt, Begins, BeginsAt, Early
<1>2. /\ Others(t) /\ pc'[t] = "add" /\ stack'[t] = stack[t] /\ Place(pc'[t], stack'[t])
      /\ pc' \in [Threads -> Labels] /\ stack' \in [Threads -> Seq(Labels)]
      /\ ~ Sends(t)' /\ ~ Ends(t)'
      /\ Connects(t)' => Connects(t)
  BY <1>1, GotoStep, GotoPlace, GotoRoles, LabelsAre DEF ProcessConnect, HandlerPcs, RegisterPcs
<1>3. Typed'
  BY <1>2 DEF ProcessConnect, Inv, Typed
<1>4. OneSender' /\ OneReceiver'
  BY <1>1, <1>2, KeepsSender, KeepsReceiver DEF ProcessConnect, Inv
<1>5. "connect" \notin flying
  BY <1>1, ReceiverAlone
<1>6. References'
  BY <1>2, <1>5 DEF ProcessConnect, Inv, References, Others
<1>7. /\ \A u \in Threads : pc'[u] \in {"start", "exit", "idle", "connect", "add"}
      /\ flying = {} /\ callbacks = <<>> /\ ~ inService
  BY <1>1, <1>2, <1>5 DEF Inv, Beginning, Others
<1>8. OneEnd' /\ Beginning'
  <2>1. \A u \in Threads : ~ Ends(u)'
    BY <1>7 DEF Ends, EndsAt
  <2>2. Early'
    BY <1>2 DEF Early, Begins, BeginsAt
  <2>3. flying' = {} /\ callbacks' = <<>> /\ ~ inService'
    BY <1>7 DEF ProcessConnect
  <2> QED BY <1>2, <1>7, <2>1, <2>2, <2>3 DEF OneEnd, Beginning
<1>9. CallbackOrder'
  BY <1>2, <1>7 DEF CallbackOrder, ProcessConnect, Inv, Others
<1> QED BY <1>2, <1>3, <1>4, <1>6, <1>8, <1>9, KeepsPlaces DEF Inv, ProcessConnect

\* Adding the session ends its beginning.
LEMMA InvAddSession == ASSUME Inv, NEW t \in Threads, AddSession(t) PROVE Inv'
<1> USE DEF sending, service, kernel, bounds, history
<1>1. pc[t] = "add" /\ stack[t] = Handler /\ Handler \notin FailStacks
      /\ Receives(t) /\ Begins(t) /\ Early
  BY StackOf, StacksApart
     DEF AddSession, Inv, HandlerPcs, Receives, ReceivesAt, Begins, BeginsAt, Early
<1>2. /\ Others(t) /\ pc'[t] = "onconnected" /\ stack'[t] = stack[t] /\ Place(pc'[t], stack'[t])
      /\ pc' \in [Threads -> Labels] /\ stack' \in [Threads -> Seq(Labels)]
      /\ ~ Sends(t)' /\ ~ Ends(t)' /\ ~ Begins(t)'
  BY <1>1, GotoStep, GotoPlace, GotoRoles, LabelsAre DEF AddSession, HandlerPcs, RegisterPcs
<1>3. Typed'
  BY <1>2 DEF AddSession, Inv, Typed
<1>4. OneSender' /\ OneReceiver'
  BY <1>1, <1>2, KeepsSender, KeepsReceiver DEF AddSession, Inv
<1>5. References'
  BY <1>2 DEF AddSession, Inv, References, Others
<1>6. "connect" \notin flying /\ ~ Unaccepted /\ \A u \in Threads : Receives(u) => u = t
  BY <1>1, ReceiverAlone
<1>7. /\ \A u \in Threads : pc[u] \in {"start", "exit", "idle", "connect", "add"}
      /\ flying = {} /\ callbacks = <<>>
  BY <1>1, <1>6 DEF Inv, Beginning
<1>8. ~ Early'
  <2>1. \A u \in Threads : Begins(u) => Receives(u)
    BY DEF Begins, BeginsAt, Receives, ReceivesAt
  <2>2. \A u \in Threads : ~ Begins(u)'
    BY <1>2, <1>6, <2>1, OthersStay
  <2> QED BY <1>6, <2>2 DEF Early, Unaccepted, AddSession
<1>9. OneEnd' /\ Beginning'
  BY <1>2, <1>7, <1>8 DEF OneEnd, Beginning, Ends, EndsAt, AddSession, Others
<1>10. CallbackOrder'
  BY <1>2, <1>7 DEF CallbackOrder, AddSession, Inv, Others
<1> QED BY <1>2, <1>3, <1>4, <1>5, <1>9, <1>10, KeepsPlaces DEF Inv, AddSession

\* OnConnected sends on a client only.
LEMMA InvOnConnected == ASSUME Inv, NEW t \in Threads, OnConnected(t) PROVE Inv'
<1> USE DEF sending, service, kernel, bounds, history
<1>1. pc[t] = "onconnected" /\ stack[t] = Handler /\ Handler \notin FailStacks
      /\ Receives(t) /\ Connects(t)
  BY StackOf, StacksApart
     DEF OnConnected, Inv, HandlerPcs, Receives, ReceivesAt, Connects, ConnectsAt
<1>2. /\ Others(t) /\ Place(pc'[t], stack'[t])
      /\ pc' \in [Threads -> Labels] /\ stack' \in [Threads -> Seq(Labels)]
      /\ ~ Sends(t)' /\ ~ Ends(t)' /\ ~ Begins(t)'
      /\ pc'[t] = "connectreturns" \/ (pc'[t] = "send" /\ type = "Client")
  <2>1. CASE Goto(t, "connectreturns")
    BY <1>1, <2>1, GotoStep, GotoPlace, GotoRoles, LabelsAre DEF HandlerPcs, RegisterPcs
  <2>2. CASE type = "Client" /\ CallSend(t, "connectreturns")
    <3>1. Append(stack[t], "connectreturns") = Connecting
      BY <1>1 DEF Connecting
    <3>2. Place("send", Connecting) /\ Connecting \notin FailStacks
      BY GotoPlace, StacksApart DEF SendStacks, RegisterStacks
    <3>3. /\ Others(t) /\ pc'[t] = "send" /\ stack'[t] = Connecting /\ Place(pc'[t], stack'[t])
          /\ pc' \in [Threads -> Labels] /\ stack' \in [Threads -> Seq(Labels)]
      BY <2>2, <3>1, <3>2, CallStep, LabelsAre DEF CallSend
    <3>4. ~ Sends(t)' /\ ~ Ends(t)' /\ ~ Begins(t)'
      BY <3>2, <3>3 DEF Sends, SendsAt, RegisterPcs, Ends, EndsAt, Begins, BeginsAt
    <3> QED BY <2>2, <3>3, <3>4
  <2> QED BY <2>1, <2>2 DEF OnConnected
<1>3. Typed'
  BY <1>2 DEF OnConnected, Inv, Typed
<1>4. OneSender' /\ OneReceiver'
  BY <1>1, <1>2, KeepsSender, KeepsReceiver DEF OnConnected, Inv
<1>5. References'
  BY <1>2 DEF OnConnected, Inv, References, Others
<1>6. ~ Early
  BY <1>1 DEF Inv, Beginning
<1>7. ~ Early'
  BY <1>2, <1>6, OthersStay DEF Early, Unaccepted, OnConnected
<1>8. OneEnd'
  BY <1>2, OthersStay DEF OneEnd, OnConnected, Inv
<1>9. Beginning'
  BY <1>2, <1>6, <1>7, OthersStay DEF Beginning, OnConnected, Inv
<1>10. CallbackOrder'
  <2>1. callbacks \in {<<>>, <<"OnDisconnected">>}
    BY <1>1 DEF Inv, CallbackOrder
  <2>2. \A u \in Threads : pc'[u] \in {"disconnectex", "disconnected"}
                              => pc[u] \in {"disconnectex", "disconnected"}
    BY <1>2 DEF Others
  <2> QED BY <1>2, <1>7, <2>1, <2>2 DEF CallbackOrder, OnConnected, Inv, Others
<1> QED BY <1>2, <1>3, <1>4, <1>5, <1>8, <1>9, <1>10, KeepsPlaces DEF Inv, OnConnected

\* OnConnected returns once: the thread that called it was the receiver.
LEMMA InvOnConnectedReturns == ASSUME Inv, NEW t \in Threads, OnConnectedReturns(t) PROVE Inv'
<1> USE DEF sending, service, kernel, bounds, history
<1>1. pc[t] = "connectreturns" /\ stack[t] = Handler /\ Handler \notin FailStacks
      /\ Receives(t) /\ Connects(t)
  BY StackOf, StacksApart
     DEF OnConnectedReturns, Inv, HandlerPcs, Receives, ReceivesAt, Connects, ConnectsAt
<1>2. /\ Others(t) /\ pc'[t] = "recv" /\ stack'[t] = Handler /\ Place(pc'[t], stack'[t])
      /\ pc' \in [Threads -> Labels] /\ stack' \in [Threads -> Seq(Labels)]
      /\ ~ Sends(t)' /\ ~ Ends(t)' /\ ~ Begins(t)'
  BY <1>1, GotoStep, GotoPlace, GotoRoles, LabelsAre DEF OnConnectedReturns, HandlerPcs, RegisterPcs
<1>3. Typed'
  BY <1>2 DEF OnConnectedReturns, Inv, Typed
<1>4. OneSender' /\ OneReceiver'
  BY <1>1, <1>2, KeepsSender, KeepsReceiver DEF OnConnectedReturns, Inv
<1>5. References'
  BY <1>2 DEF OnConnectedReturns, Inv, References, Others
<1>6. ~ Early
  BY <1>1 DEF Inv, Beginning
<1>7. ~ Early'
  BY <1>2, <1>6, OthersStay DEF Early, Unaccepted, OnConnectedReturns
<1>8. OneEnd'
  BY <1>2, OthersStay DEF OneEnd, OnConnectedReturns, Inv
<1>9. Beginning'
  BY <1>2, <1>6, <1>7, OthersStay DEF Beginning, OnConnectedReturns, Inv
<1>10. CallbackOrder'
  <2>1. ~ (\E u \in Threads : Connects(u)')
    <3>1. \A u \in Threads : Connects(u) => Receives(u)
      BY DEF Connects, ConnectsAt, Receives, ReceivesAt
    <3>2. ~ Connects(t)'
      BY <1>2, StacksApart DEF Connects, ConnectsAt
    <3> QED BY <1>1, <1>2, <3>1, <3>2, ReceiverAlone, OthersStay
  <2>2. (\E u \in Threads : pc'[u] \in {"disconnectex", "disconnected"})
          => \E u \in Threads : pc[u] \in {"disconnectex", "disconnected"}
    BY <1>2 DEF Others
  <2>3. callbacks \in {<<>>, <<"OnDisconnected">>}
    BY <1>1 DEF Inv, CallbackOrder
  <2>4. CASE callbacks = <<>>
    <3>1. callbacks' = <<"OnConnected">>
      BY <2>4 DEF OnConnectedReturns
    <3> QED BY <1>7, <2>1, <3>1 DEF CallbackOrder
  <2>5. CASE callbacks = <<"OnDisconnected">>
    <3>1. callbacks' = <<"OnDisconnected", "OnConnected">>
      BY <2>5, TwoCallbacks, Zenon DEF OnConnectedReturns
    <3>2. callbacks' # <<>>
      BY <2>5 DEF OnConnectedReturns
    <3>3. ~ (connected' \/ "disconnect" \in flying'
               \/ (\E u \in Threads : pc'[u] \in {"disconnectex", "disconnected"}))
      BY <2>2, <2>5 DEF Inv, CallbackOrder, OnConnectedReturns
    <3>4. type' # "Server"
      <4>1. callbacks \notin {<<>>, <<"OnConnected">>, <<"OnConnected", "OnDisconnected">>}
        BY <2>5
      <4> QED BY <4>1 DEF Inv, CallbackOrder, OnConnectedReturns
    <3>5. ~ (Early' \/ (\E u \in Threads : Connects(u)'))
      BY <1>7, <2>1
    <3> QED BY <3>1, <3>2, <3>3, <3>4, <3>5, Zenon DEF CallbackOrder
  <2> QED BY <2>3, <2>4, <2>5
<1> QED BY <1>2, <1>3, <1>4, <1>5, <1>8, <1>9, <1>10, KeepsPlaces DEF Inv, OnConnectedReturns

-----------------------------------------------------------------------------
(* The steps of a thread that is outside, of the kernel and of the peer.   *)

\* A Room sends to a session whose OnConnected has returned, BroadCast to one
\* that is in its service.
LEMMA InvRoomSend == ASSUME Inv, NEW t \in Senders, RoomSend(t) PROVE Inv'
<1> USE DEF sending, service, kernel, bounds, history
<1>1. t \in Threads /\ pc[t] = "idle" /\ stack[t] = <<>>
  BY StackOf DEF RoomSend, Inv, TopPcs, Threads
<1>2. Append(stack[t], "idle") = Handler /\ Place("send", Handler)
  BY <1>1, GotoPlace DEF Handler, SendStacks
<1>3. /\ Others(t) /\ pc'[t] = "send" /\ stack'[t] = Handler /\ Place(pc'[t], stack'[t])
      /\ pc' \in [Threads -> Labels] /\ stack' \in [Threads -> Seq(Labels)]
  BY <1>1, <1>2, CallStep, LabelsAre DEF RoomSend, CallSend
<1>4. ~ Sends(t)' /\ ~ Receives(t)' /\ ~ Ends(t)' /\ ~ Begins(t)' /\ ~ Connects(t)'
  BY <1>3, StacksApart DEF Sends, SendsAt, Receives, ReceivesAt, Ends, EndsAt, Begins, BeginsAt,
                           Connects, ConnectsAt, RegisterPcs
<1>5. ~ Early /\ callbacks # <<>>
  BY DEF RoomSend, Inv, Beginning
<1>6. Typed'
  BY <1>3 DEF RoomSend, Inv, Typed
<1>7. OneSender' /\ OneReceiver' /\ References'
  BY <1>1, <1>3, <1>4, KeepsSender, KeepsReceiver DEF RoomSend, Inv, References, Others
<1> QED BY <1>1, <1>3, <1>4, <1>5, <1>6, <1>7, LateStep DEF RoomSend

\* BroadCast sends to a session of its service.
LEMMA InvBroadCast == ASSUME Inv, NEW t \in Senders, BroadCast(t) PROVE Inv'
<1> USE DEF sending, service, kernel, bounds, history
<1>1. t \in Threads /\ pc[t] = "idle" /\ stack[t] = <<>>
  BY StackOf DEF BroadCast, Inv, TopPcs, Threads
<1>2. Append(stack[t], "endbroadcast") = Casting /\ Place("send", Casting) /\ Casting \notin FailStacks
  BY <1>1, GotoPlace, StacksApart DEF Casting, SendStacks, RegisterStacks
<1>3. /\ Others(t) /\ pc'[t] = "send" /\ stack'[t] = Casting /\ Place(pc'[t], stack'[t])
      /\ pc' \in [Threads -> Labels] /\ stack' \in [Threads -> Seq(Labels)]
  BY <1>1, <1>2, CallStep, LabelsAre DEF BroadCast, CallSend
<1>4. Casting \notin {Connecting, Receiving, RecvFailing, ConnectingFailing, ReceivingFailing}
  BY StackFacts
<1>5. ~ Sends(t)' /\ ~ Receives(t)' /\ ~ Ends(t)' /\ ~ Begins(t)' /\ ~ Connects(t)'
  BY <1>2, <1>3, <1>4 DEF Sends, SendsAt, Receives, ReceivesAt, Ends, EndsAt, Begins, BeginsAt,
                          Connects, ConnectsAt, RegisterPcs
<1>6. ~ Early /\ type # "Server"
  BY DEF BroadCast, Inv, Beginning
<1>7. Typed'
  BY <1>3 DEF BroadCast, Inv, Typed
<1>8. OneSender' /\ OneReceiver' /\ References'
  BY <1>1, <1>3, <1>5, KeepsSender, KeepsReceiver DEF BroadCast, Inv, References, Others
<1> QED BY <1>1, <1>3, <1>5, <1>6, <1>7, <1>8, LateStep DEF BroadCast

\* The connection passes from main to the kernel, or is never made.
LEMMA InvRegisterConnect == ASSUME Inv, NEW t \in Senders, RegisterConnect(t) PROVE Inv'
<1> USE DEF sending, service, kernel, bounds, history
<1>1. t \in Threads /\ pc[t] = "start" /\ stack[t] = <<>> /\ Receives(t) /\ Early
  BY StackOf DEF RegisterConnect, Inv, TopPcs, Threads, Receives, ReceivesAt, Early, Begins, BeginsAt
<1>2. /\ Others(t) /\ pc'[t] \in {"idle", "exit"} /\ stack'[t] = <<>> /\ Place(pc'[t], stack'[t])
      /\ pc' \in [Threads -> Labels] /\ stack' \in [Threads -> Seq(Labels)]
  BY <1>1, GotoStep, GotoPlace, LabelsAre DEF RegisterConnect, TopPcs
<1>3. ~ Sends(t)' /\ ~ Receives(t)' /\ ~ Ends(t)' /\ ~ Begins(t)' /\ ~ Connects(t)'
  BY <1>2, StacksApart DEF Sends, SendsAt, Receives, ReceivesAt, Ends, EndsAt, Begins, BeginsAt,
                           Connects, ConnectsAt, RegisterPcs
<1>4. /\ flying = {} /\ callbacks = <<>> /\ ~ inService /\ type = "Client"
      /\ \A u \in Threads : pc[u] \in {"start", "exit", "idle", "connect", "add"}
  BY <1>1, ReceiverAlone DEF Inv, Beginning, OneReceiver
<1>5. ~ connected
  <2>1. \A u \in Threads : pc[u] = "add" => Receives(u)
    BY DEF Receives, ReceivesAt
  <2> QED BY <1>1, <2>1, ReceiverAlone DEF Inv, Beginning
<1>6. \/ flying' = {} /\ owned' = owned
      \/ flying' = {"connect"} /\ owned' = owned \cup {"connect"}
  BY <1>4 DEF RegisterConnect
<1>7. Typed'
  BY <1>2, <1>6 DEF RegisterConnect, Inv, Typed, Events
<1>8. \A u \in Threads : ~ Receives(u)'
  BY <1>1, <1>2, <1>3, ReceiverAlone, OthersStay
<1>9. OneSender'
  BY <1>2, <1>3, <1>4, <1>6, KeepsSender, <1>1 DEF RegisterConnect, Inv
<1>10. OneReceiver'
  BY <1>4, <1>6, <1>8 DEF OneReceiver, RegisterConnect, Unaccepted
<1>11. References'
  BY <1>1, <1>2, <1>4, <1>6 DEF References, Inv, Others
<1>12. \A u \in Threads : pc'[u] \in {"start", "exit", "idle", "connect", "add"}
  BY <1>2, <1>4 DEF Others
<1>13. OneEnd' /\ Beginning'
  BY <1>4, <1>5, <1>6, <1>12 DEF OneEnd, Beginning, Ends, EndsAt, RegisterConnect
<1>14. CallbackOrder'
  BY <1>4, <1>12 DEF CallbackOrder, RegisterConnect
<1> QED BY <1>1, <1>2, <1>7, <1>9, <1>10, <1>11, <1>13, <1>14, KeepsPlaces DEF Inv, RegisterConnect

\* An idle worker takes a completion or an accepted session.
LEMMA WorkerCalls ==
  ASSUME Inv, NEW t \in Workers, pc[t] = "idle",
         NEW l \in HandlerPcs \ {"connectreturns", "onconnected"}, Call(t, l, "idle")
  PROVE  /\ t \in Threads /\ Others(t) /\ pc'[t] = l /\ stack'[t] = Handler
         /\ Place(pc'[t], stack'[t])
         /\ pc' \in [Threads -> Labels] /\ stack' \in [Threads -> Seq(Labels)]
         /\ ~ Connects(t)' /\ Handler \notin FailStacks
         /\ ~ Sends(t) /\ ~ Receives(t) /\ ~ Ends(t) /\ ~ Begins(t)
<1>1. t \in Threads /\ stack[t] = <<>>
  BY StackOf DEF Inv, TopPcs, Threads
<1>2. Append(stack[t], "idle") = Handler /\ Place(l, Handler)
  BY <1>1, GotoPlace DEF Handler
<1>3. l \in Labels
  BY DEF Labels
<1>4. /\ Others(t) /\ pc'[t] = l /\ stack'[t] = Handler /\ Place(pc'[t], stack'[t])
      /\ pc' \in [Threads -> Labels] /\ stack' \in [Threads -> Seq(Labels)]
  BY <1>1, <1>2, <1>3, CallStep, LabelsAre
<1>5. ~ Connects(t)' /\ Handler \notin FailStacks
  BY <1>4, StacksApart DEF Connects, ConnectsAt
<1>6. ~ Sends(t) /\ ~ Receives(t) /\ ~ Ends(t) /\ ~ Begins(t)
  BY <1>1, StacksApart DEF Sends, SendsAt, RegisterPcs, Receives, ReceivesAt, Ends, EndsAt,
                           Begins, BeginsAt
<1> QED BY <1>1, <1>4, <1>5, <1>6

\* The worker that accepts the connection is the first that knows the session.
LEMMA InvAccept == ASSUME Inv, NEW t \in Workers, Accept(t) PROVE Inv'
<1> USE DEF sending, service, kernel, bounds, history
<1>1. /\ t \in Threads /\ Others(t) /\ pc'[t] = "connect" /\ stack'[t] = Handler
      /\ Place(pc'[t], stack'[t]) /\ Handler \notin FailStacks
      /\ pc' \in [Threads -> Labels] /\ stack' \in [Threads -> Seq(Labels)]
      /\ ~ Receives(t) /\ ~ Begins(t)
  BY WorkerCalls DEF Accept, HandlerPcs
<1>2. ~ Sends(t)' /\ ~ Ends(t)' /\ Begins(t)' /\ pc[t] = "idle"
  BY <1>1 DEF Sends, SendsAt, RegisterPcs, Ends, EndsAt, Begins, BeginsAt, Accept
<1>3. Unaccepted /\ Early
  BY DEF Accept, Unaccepted, Early
<1>4. /\ flying = {} /\ callbacks = <<>> /\ ~ inService /\ type = "Server"
      /\ \A u \in Threads : ~ Receives(u)
      /\ \A u \in Threads : pc[u] \in {"start", "exit", "idle", "connect", "add"}
  BY <1>3 DEF Inv, Beginning, OneReceiver, Accept
<1>5. Typed'
  BY <1>1 DEF Accept, Inv, Typed
<1>6. OneSender'
  BY <1>1, <1>2, KeepsSender DEF Accept, Inv
<1>7. OneReceiver'
  <2>1. \A u \in Threads : Receives(u)' => u = t
    BY <1>1, <1>4, OthersStay
  <2>2. \A u \in Threads : pc'[u] # "start"
    BY <1>1, <1>4, <2>1 DEF Others, Receives, ReceivesAt
  <2> QED BY <1>4, <2>1, <2>2 DEF OneReceiver, Unaccepted, Accept
<1>8. References'
  BY <1>1 DEF Accept, Inv, References, Others
<1>9. ~ connected
  BY <1>3, <1>4 DEF Inv, Beginning, Receives, ReceivesAt
<1>10. \A u \in Threads : pc'[u] \in {"start", "exit", "idle", "connect", "add"}
  BY <1>1, <1>4 DEF Others
<1>11. OneEnd' /\ Beginning'
  BY <1>4, <1>9, <1>10 DEF OneEnd, Beginning, Ends, EndsAt, Accept
<1>12. \A u \in Threads : pc[u] \in {"idle", "connect", "add", "onconnected", "connectreturns"}
  BY <1>4 DEF Inv, CallbackOrder
<1>13. CallbackOrder'
  BY <1>1, <1>4, <1>12 DEF CallbackOrder, Accept, Others
<1> QED BY <1>1, <1>5, <1>6, <1>7, <1>8, <1>11, <1>13, KeepsPlaces DEF Inv, Accept

\* A completion passes the connection, the end, the receive or the send event
\* from the kernel to one worker.
LEMMA InvDispatch == ASSUME Inv, NEW t \in Workers, NEW e \in Events, Dispatch(t, e) PROVE Inv'
<1> USE DEF sending, service, kernel, bounds, history
<1>1. pc[t] = "idle" /\ e \in flying /\ flying' = flying \ {e}
  BY DEF Dispatch
<1>2. ASSUME \A u \in Threads : pc'[u] \in {"drain", "wsasend", "wsarecv"} => pc'[u] = pc[u]
      PROVE  References'
  BY <1>1, <1>2 DEF Dispatch, References, Inv, Typed
<1>3. CASE e = "connect" /\ Call(t, "connect", "idle")
  <2>1. /\ t \in Threads /\ Others(t) /\ pc'[t] = "connect" /\ stack'[t] = Handler
        /\ Place(pc'[t], stack'[t]) /\ Handler \notin FailStacks
        /\ pc' \in [Threads -> Labels] /\ stack' \in [Threads -> Seq(Labels)]
    BY <1>1, <1>3, WorkerCalls DEF HandlerPcs
  <2>2. ~ Sends(t)' /\ ~ Ends(t)' /\ Begins(t)'
    BY <2>1 DEF Sends, SendsAt, RegisterPcs, Ends, EndsAt, Begins, BeginsAt
  <2>3. Early
    BY <1>1, <1>3 DEF Early
  <2>4. /\ flying = {"connect"} /\ flying' = {} /\ callbacks = <<>> /\ ~ inService /\ type = "Client"
        /\ \A u \in Threads : ~ Receives(u)
        /\ \A u \in Threads : pc[u] \in {"start", "exit", "idle", "connect", "add"}
    BY <1>1, <1>3, <2>3 DEF Inv, Beginning, OneReceiver
  <2>5. Typed'
    BY <1>1, <1>3, <2>1 DEF Dispatch, Inv, Typed
  <2>6. OneSender'
    BY <2>1, <2>2, <2>4, KeepsSender DEF Dispatch, Inv
  <2>7. \A u \in Threads : Receives(u)' => u = t
    BY <2>1, <2>4, OthersStay
  <2>8. OneReceiver'
    BY <2>4, <2>7 DEF OneReceiver, Unaccepted, Dispatch
  <2>9. ~ connected
    BY <2>3, <2>4 DEF Inv, Beginning, Receives, ReceivesAt
  <2>10. \A u \in Threads : pc'[u] \in {"start", "exit", "idle", "connect", "add"}
    BY <2>1, <2>4 DEF Others
  <2>11. OneEnd' /\ Beginning'
    BY <2>4, <2>9, <2>10 DEF OneEnd, Beginning, Ends, EndsAt, Dispatch
  <2>12. CallbackOrder'
    BY <2>4, <2>9, <2>10 DEF CallbackOrder, Dispatch
  <2>13. References'
    BY <1>2, <2>1 DEF Others
  <2> QED BY <2>1, <2>5, <2>6, <2>8, <2>11, <2>12, <2>13, KeepsPlaces DEF Inv, Dispatch
<1>4. ASSUME e # "connect" PROVE ~ Early /\ (type = "Server" => callbacks # <<>>)
  BY <1>1, <1>4 DEF Inv, Beginning, CallbackOrder
<1>5. CASE e = "disconnect" /\ Call(t, "disconnected", "idle")
  <2>1. /\ t \in Threads /\ Others(t) /\ pc'[t] = "disconnected" /\ stack'[t] = Handler
        /\ Place(pc'[t], stack'[t]) /\ Handler \notin FailStacks /\ ~ Connects(t)'
        /\ pc' \in [Threads -> Labels] /\ stack' \in [Threads -> Seq(Labels)]
    BY <1>1, <1>5, WorkerCalls DEF HandlerPcs
  <2>2. ~ Sends(t)' /\ ~ Begins(t)' /\ ~ Receives(t)'
    BY <2>1, StacksApart DEF Sends, SendsAt, RegisterPcs, Begins, BeginsAt, Receives, ReceivesAt
  <2>3. ~ Early /\ (type = "Server" => callbacks # <<>>) /\ sock' = sock
    BY <1>4, <1>5 DEF Dispatch
  <2>4. Typed'
    BY <1>1, <2>1, <2>3 DEF Dispatch, Inv, Typed
  <2>5. OneSender' /\ OneReceiver'
    BY <1>1, <2>1, <2>2, <2>3, KeepsSender, KeepsReceiver DEF Dispatch, Inv
  <2>6. References'
    BY <1>2, <2>1 DEF Others
  <2>7. /\ ~ connected /\ inService /\ callbacks \in {<<>>, <<"OnConnected">>}
        /\ \A u \in Threads : ~ Ends(u)
    BY <1>1, <1>5 DEF Inv, OneEnd, Beginning, CallbackOrder
  <2>8. \A u \in Threads : Ends(u)' => u = t
    BY <2>1, <2>7, OthersStay
  <2>9. ~ Early'
    BY <1>1, <2>1, <2>2, <2>3, OthersStay DEF Early, Unaccepted, Dispatch
  <2>10. OneEnd' /\ Beginning'
    BY <1>1, <1>5, <2>7, <2>8, <2>9 DEF OneEnd, Beginning, Dispatch
  <2>11. CallbackOrder'
    <3>1. (\E u \in Threads : Connects(u)') => (\E u \in Threads : Connects(u))
      BY <2>1, OthersStay
    <3> QED BY <2>3, <2>7, <2>9, <3>1 DEF CallbackOrder, Dispatch, Inv
  <2> QED BY <2>1, <2>4, <2>5, <2>6, <2>10, <2>11, KeepsPlaces DEF Inv, Dispatch
<1>6. ASSUME NEW l \in {"received", "receivedzero"}, e = "recv", Call(t, l, "idle")
      PROVE  Inv'
  <2>1. /\ t \in Threads /\ Others(t) /\ pc'[t] = l /\ stack'[t] = Handler
        /\ Place(pc'[t], stack'[t]) /\ Handler \notin FailStacks /\ ~ Connects(t)'
        /\ pc' \in [Threads -> Labels] /\ stack' \in [Threads -> Seq(Labels)]
    BY <1>1, <1>6, WorkerCalls DEF HandlerPcs
  <2>2. ~ Sends(t)' /\ ~ Begins(t)' /\ ~ Ends(t)'
    BY <2>1 DEF Sends, SendsAt, RegisterPcs, Begins, BeginsAt, Ends, EndsAt
  <2>3. ~ Early /\ (type = "Server" => callbacks # <<>>) /\ sock' = sock
    BY <1>4, <1>6 DEF Dispatch
  <2>4. Typed'
    BY <1>1, <2>1, <2>3 DEF Dispatch, Inv, Typed
  <2>5. OneSender'
    BY <1>1, <2>1, <2>2, KeepsSender DEF Dispatch, Inv
  <2>6. /\ \A u \in Threads : ~ Receives(u)
        /\ "connect" \notin flying /\ ~ Unaccepted
    BY <1>1, <1>6 DEF Inv, OneReceiver
  <2>7. OneReceiver'
    <3>1. \A u \in Threads : Receives(u)' => u = t
      BY <2>1, <2>6, OthersStay
    <3>2. \A u \in Threads : pc'[u] # "start"
      BY <1>6, <2>1, <2>6 DEF Others, Receives, ReceivesAt
    <3>3. ~ Unaccepted' /\ "connect" \notin flying' /\ "recv" \notin flying'
      BY <1>1, <1>6, <2>3, <2>6 DEF Unaccepted, Dispatch
    <3> QED BY <3>1, <3>2, <3>3 DEF OneReceiver
  <2>8. References'
    BY <1>2, <1>6, <2>1 DEF Others
  <2> QED BY <1>1, <2>1, <2>2, <2>3, <2>4, <2>5, <2>7, <2>8, LateStep DEF Dispatch
<1>7. ASSUME NEW l \in {"sent", "sentzero"}, e = "send", Call(t, l, "idle")
      PROVE  Inv'
  <2>1. /\ t \in Threads /\ Others(t) /\ pc'[t] = l /\ stack'[t] = Handler
        /\ Place(pc'[t], stack'[t]) /\ ~ Connects(t)'
        /\ pc' \in [Threads -> Labels] /\ stack' \in [Threads -> Seq(Labels)]
    BY <1>1, <1>7, WorkerCalls DEF HandlerPcs
  <2>2. ~ Receives(t)' /\ ~ Begins(t)' /\ ~ Ends(t)'
    BY <2>1, StacksApart DEF Receives, ReceivesAt, Begins, BeginsAt, Ends, EndsAt
  <2>3. ~ Early /\ (type = "Server" => callbacks # <<>>) /\ sock' = sock
    BY <1>4, <1>7 DEF Dispatch
  <2>4. Typed'
    BY <1>1, <2>1, <2>3 DEF Dispatch, Inv, Typed
  <2>5. OneReceiver'
    BY <1>1, <2>1, <2>2, <2>3, KeepsReceiver DEF Dispatch, Inv
  <2>6. registered /\ \A u \in Threads : ~ Sends(u)
    BY <1>1, <1>7 DEF Inv, OneSender
  <2>7. \A u \in Threads : Sends(u)' => u = t
    BY <2>1, <2>6, OthersStay
  <2>8. OneSender'
    BY <1>1, <1>7, <2>6, <2>7 DEF OneSender, Dispatch
  <2>9. References'
    BY <1>2, <1>7, <2>1 DEF Others
  <2> QED BY <1>1, <2>1, <2>2, <2>3, <2>4, <2>5, <2>8, <2>9, LateStep DEF Dispatch
<1> QED BY <1>3, <1>5, <1>6, <1>7 DEF Dispatch

\* A step that leaves the threads, the owners and the callbacks alone.
LEMMA InvPeerCloses == ASSUME Inv, PeerCloses PROVE Inv'
<1> USE DEF sending, service, kernel, bounds, history, control
<1>1. /\ pc' = pc /\ stack' = stack /\ sock # "new" /\ sock' = "closed"
      /\ UNCHANGED <<type, connected, registered, inService, owned, flying, callbacks, crash>>
  BY DEF PeerCloses
<1>2. ~ Unaccepted /\ ~ Unaccepted'
  BY <1>1 DEF Unaccepted
<1>3. Early' <=> Early
  BY <1>1, <1>2 DEF Early, Begins
<1>4. Typed' /\ Places'
  BY <1>1 DEF Inv, Typed, Places
<1>5. OneSender' /\ OneReceiver' /\ OneEnd' /\ References'
  BY <1>1, <1>2 DEF Inv, OneSender, OneReceiver, OneEnd, References, Sends, Receives, Ends
<1>6. Beginning' /\ CallbackOrder'
  BY <1>1, <1>3 DEF Inv, Beginning, CallbackOrder, Ends, Connects
<1> QED BY <1>1, <1>4, <1>5, <1>6 DEF Inv

\* Nothing changes.
LEMMA InvStutters == ASSUME Inv, UNCHANGED vars PROVE Inv'
<1> USE DEF vars, sending, service, kernel, bounds, history, control
<1>1. /\ pc' = pc /\ stack' = stack
      /\ UNCHANGED <<type, connected, registered, inService, owned, flying, callbacks, crash, sock>>
  OBVIOUS
<1>2. Unaccepted' <=> Unaccepted
  BY <1>1 DEF Unaccepted
<1>3. Early' <=> Early
  BY <1>1, <1>2 DEF Early, Begins
<1>4. Typed' /\ Places'
  BY <1>1 DEF Inv, Typed, Places
<1>5. OneSender' /\ OneReceiver' /\ OneEnd' /\ References'
  BY <1>1, <1>2 DEF Inv, OneSender, OneReceiver, OneEnd, References, Sends, Receives, Ends
<1>6. Beginning' /\ CallbackOrder'
  BY <1>1, <1>3 DEF Inv, Beginning, CallbackOrder, Ends, Connects
<1> QED BY <1>1, <1>4, <1>5, <1>6 DEF Inv

\* A part of a set of one element.
LEMMA AtMostOne ==
  ASSUME NEW S, NEW x, S \subseteq {x}
  PROVE  Cardinality(S) <= 1
<1>1. S = {} \/ S = {x}
  OBVIOUS
<1>2. Cardinality({}) = 0 /\ Cardinality({x}) = 1
  BY FS_EmptySet, FS_Singleton, Zenon
<1>3. CASE S = {}
  <2>1. Cardinality(S) = 0
    BY <1>2, <1>3
  <2> QED BY <2>1
<1>4. CASE S = {x}
  <2>1. Cardinality(S) = 1
    BY <1>2, <1>4
  <2> QED BY <2>1
<1> QED BY <1>1, <1>3, <1>4

\* A failing RegisterSend waits below on the stacks of FailStacks only.
LEMMA SendFailOnStack ==
  ASSUME NEW s \in RegisterStacks \cup {RecvFailing, <<>>}
  PROVE  "sendfail" \notin ToSet(s)
<1>1. ASSUME NEW r \in Seq(Labels), NEW x \in Labels, "sendfail" \notin ToSet(r), x # "sendfail"
      PROVE  "sendfail" \notin ToSet(Append(r, x))
  BY <1>1, AppendProperties DEF ToSet
<1>2. "sendfail" \notin ToSet(<<>>)
  BY DEF ToSet
<1>3. "sendfail" \notin ToSet(Handler) /\ "sendfail" \notin ToSet(Casting)
  BY <1>1, <1>2, StackFacts, LabelsAre DEF Handler, Casting
<1>4. /\ "sendfail" \notin ToSet(Connecting) /\ "sendfail" \notin ToSet(Receiving)
      /\ "sendfail" \notin ToSet(Resending) /\ "sendfail" \notin ToSet(RecvFailing)
  BY <1>1, <1>3, StackFacts, LabelsAre DEF Connecting, Receiving, Resending, RecvFailing
<1> QED BY <1>2, <1>3, <1>4 DEF RegisterStacks, SendStacks

\* At most one of the callbacks there may be is OnDisconnected.
LEMMA OneDisconnected ==
  ASSUME NEW c \in {<<>>, <<"OnConnected">>, <<"OnDisconnected">>,
                    <<"OnConnected", "OnDisconnected">>, <<"OnDisconnected", "OnConnected">>}
  PROVE  \E i : {j \in DOMAIN c : c[j] = "OnDisconnected"} \subseteq {i}
<1>1. CASE c = <<>>
  BY <1>1
<1>2. CASE c = <<"OnConnected">> \/ c = <<"OnDisconnected">>
  BY <1>2
<1>3. CASE c = <<"OnConnected", "OnDisconnected">>
  BY <1>3
<1>4. CASE c = <<"OnDisconnected", "OnConnected">>
  BY <1>4
<1> QED BY <1>1, <1>2, <1>3, <1>4

-----------------------------------------------------------------------------
(* The theorems.                                                           *)

\* Before the first step main, or nobody, is to begin the session.
LEMMA InvInit == Init => Inv
<1> SUFFICES ASSUME Init PROVE Inv
  OBVIOUS
<1> PICK main \in Senders :
      pc = [t \in Threads |-> IF type = "Client" /\ t = main THEN "start"
                              ELSE IF type = "Client" /\ t \in Senders THEN "exit"
                              ELSE "idle"]
  BY DEF Init
<1>1. \A t \in Threads : /\ pc[t] \in {"start", "exit", "idle"} /\ stack[t] = <<>>
                         /\ pc[t] = "start" => t = main
                         /\ pc[t] # "idle" => type = "Client"
  BY DEF Init
<1>2. /\ ~ connected /\ ~ inService /\ owned = {} /\ flying = {} /\ sock = "new"
      /\ callbacks = <<>> /\ crash = FALSE /\ type \in {"Client", "Server"}
  BY SessionAssumption DEF Init
<1>3. main \in Threads /\ (type = "Client" => pc[main] = "start")
  BY DEF Threads
<1>4. Typed
  <2>1. pc \in [Threads -> Labels]
    BY LabelsAre
  <2>2. stack \in [Threads -> Seq(Labels)]
    BY StackFacts DEF Init
  <2> QED BY <1>2, <2>1, <2>2 DEF Typed, Init
<1>5. Places
  BY <1>1 DEF Places, Place, TopPcs
<1>6. \A t \in Threads : ~ Sends(t) /\ ~ Ends(t) /\ ~ Connects(t)
  BY <1>1, StacksApart DEF Sends, SendsAt, RegisterPcs, Ends, EndsAt, Connects, ConnectsAt
<1>7. \A t \in Threads : Receives(t) => pc[t] = "start"
  BY <1>1, StacksApart DEF Receives, ReceivesAt
<1>8. OneSender /\ OneEnd
  BY <1>2, <1>6 DEF OneSender, OneEnd
<1>9. OneReceiver
  BY <1>1, <1>2, <1>7 DEF OneReceiver, Unaccepted
<1>10. Beginning
  BY <1>1, <1>2, <1>6 DEF Beginning
<1>11. References /\ CallbackOrder
  BY <1>1, <1>2 DEF References, CallbackOrder
<1> QED BY <1>2, <1>4, <1>5, <1>8, <1>9, <1>10, <1>11 DEF Inv

\* Every step keeps the invariant.
LEMMA InvNext == Inv /\ [Next]_vars => Inv'
<1> SUFFICES ASSUME Inv, [Next]_vars PROVE Inv'
  OBVIOUS
<1>1. CASE UNCHANGED vars
  BY <1>1, InvStutters
<1>2. ASSUME NEW t \in Threads, Step(t) PROVE Inv'
  <2>1. CASE EndBroadCast(t) \/ Send(t) \/ Push(t) \/ RegisterSend(t) \/ Drain(t)
               \/ WSASend(t) \/ SendFail(t) \/ ProcessSend(t) \/ SendNext(t) \/ Unlock(t)
    BY <2>1, InvEndBroadCast, InvSend, InvPush, InvRegisterSend, InvDrain, InvWSASend,
       InvSendFail, InvProcessSend, InvSendNext, InvUnlock
  <2>2. CASE ProcessConnect(t) \/ AddSession(t) \/ OnConnected(t) \/ OnConnectedReturns(t)
               \/ Disconnect(t) \/ RegisterDisconnect(t) \/ ProcessDisconnect(t)
               \/ ReleaseSession(t)
    BY <2>2, InvProcessConnect, InvAddSession, InvOnConnected, InvOnConnectedReturns,
       InvDisconnect, InvRegisterDisconnect, InvProcessDisconnect, InvReleaseSession
  <2>3. CASE RegisterRecv(t) \/ WSARecv(t) \/ RecvFail(t) \/ ProcessRecv(t)
    BY <2>3, InvRegisterRecv, InvWSARecv, InvRecvFail, InvProcessRecv
  <2> QED BY <1>2, <2>1, <2>2, <2>3 DEF Step
<1>3. ASSUME NEW t \in Senders, RoomSend(t) \/ BroadCast(t) \/ RegisterConnect(t) PROVE Inv'
  BY <1>3, InvRoomSend, InvBroadCast, InvRegisterConnect
<1>4. ASSUME NEW t \in Workers, Accept(t) \/ \E e \in Events : Dispatch(t, e) PROVE Inv'
  BY <1>4, InvAccept, InvDispatch
<1>5. CASE PeerCloses
  BY <1>5, InvPeerCloses
<1> QED BY <1>1, <1>2, <1>3, <1>4, <1>5 DEF Next

\* The roles of the threads are held by one of them at a time, in every state.
THEOREM InvHolds == SafetySpec => []Inv
<1> QED BY InvInit, InvNext, PTL DEF SafetySpec

\* One thread at a time uses _sendEvent, none while a WSASend that uses it is in
\* flight, and _sendRegistered is set meanwhile.
THEOREM SendEventIsExclusive == SafetySpec => []OneSendAtATime
<1>1. Inv => OneSendAtATime
  <2> SUFFICES ASSUME Inv PROVE OneSendAtATime
    OBVIOUS
  <2>1. \A t \in Threads : t \in UsesSendEvent => Sends(t)
    <3> SUFFICES ASSUME NEW t \in Threads, "sendfail" \in ToSet(stack[t]) PROVE stack[t] \in FailStacks
      BY DEF UsesSendEvent, Sends, SendsAt, RegisterPcs
    <3>1. Place(pc[t], stack[t])
      BY DEF Inv, Places
    <3>2. stack[t] \in FailStacks \cup RegisterStacks \cup {RecvFailing, <<>>}
      BY <3>1 DEF Place, DisconnectStacks, RegisterStacks, SendStacks
    <3> QED BY <3>2, SendFailOnStack
  <2>2. \A t, u \in UsesSendEvent : t = u
    BY <2>1 DEF Inv, OneSender, UsesSendEvent
  <2>3. Cardinality(UsesSendEvent) <= 1
    <3>1. CASE UsesSendEvent = {}
      BY <3>1, AtMostOne
    <3>2. CASE UsesSendEvent # {}
      <4> PICK t : t \in UsesSendEvent
        BY <3>2
      <4> QED BY <2>2, AtMostOne
    <3> QED BY <3>1, <3>2
  <2>4. "send" \in flying => UsesSendEvent = {}
    BY <2>1 DEF Inv, OneSender, UsesSendEvent
  <2>5. UsesSendEvent # {} \/ "send" \in flying => registered
    BY <2>1 DEF Inv, OneSender, UsesSendEvent
  <2> QED BY <2>3, <2>4, <2>5 DEF OneSendAtATime
<1> QED BY <1>1, InvHolds, PTL

\* Every request in flight holds a reference to the session.
THEOREM RequestsHoldReferences == SafetySpec => []OwnerOutlivesRequest
<1>1. Inv => OwnerOutlivesRequest
  BY DEF Inv, References, OwnerOutlivesRequest
<1> QED BY <1>1, InvHolds, PTL

\* ReleaseSession finds the session in its service, so its assertion holds.
THEOREM ReleaseFindsSession == SafetySpec => []ReleasedOnce
<1>1. Inv => ReleasedOnce
  BY DEF Inv, ReleasedOnce
<1> QED BY <1>1, InvHolds, PTL

\* OnDisconnected is called at most once, and on a server after OnConnected.
THEOREM CallbacksAreInOrder == SafetySpec => []CallbacksInOrder
<1>1. Inv => CallbacksInOrder
  <2> SUFFICES ASSUME Inv PROVE CallbacksInOrder
    OBVIOUS
  <2> DEFINE Ended == {i \in DOMAIN callbacks : callbacks[i] = "OnDisconnected"}
  <2>1. \E i : Ended \subseteq {i}
    BY OneDisconnected DEF Inv, CallbackOrder
  <2>2. Cardinality(Ended) <= 1
    <3> QED BY <2>1, AtMostOne
  <2>3. type = "Server" =>
          callbacks \in {<<>>, <<"OnConnected">>, <<"OnConnected", "OnDisconnected">>}
    BY Zenon DEF Inv, CallbackOrder
  <2> QED BY <2>2, <2>3, Zenon DEF CallbacksInOrder
<1> QED BY <1>1, InvHolds, PTL

-----------------------------------------------------------------------------
(* The types of the buffers and of the bounds.                             *)

\* A thread that is about to push has a buffer.
Numbers ==
  /\ type \in Types
  /\ lock \in Threads \cup {None} /\ serviceLock \in Threads \cup {None}
  /\ queue \in Seq(1 .. MaxSends) /\ buffers \in Seq(1 .. MaxSends)
  /\ arg \in [Threads -> 0 .. MaxSends]
  /\ \A t \in Threads : pc[t] \in {"send", "push"} => arg[t] # 0
  /\ calls \in 0 .. MaxSends /\ recvs \in 0 .. MaxRecvs

\* The numbers stay while nobody calls Send.
LEMMA KeepsNumbers ==
  ASSUME Numbers, NEW t \in Threads, Others(t),
         pc'[t] \in {"send", "push"} => pc[t] \in {"send", "push"},
         UNCHANGED <<type, arg, calls>>,
         lock' \in {lock, t, None}, serviceLock' \in {serviceLock, t, None},
         queue' \in Seq(1 .. MaxSends), buffers' \in Seq(1 .. MaxSends),
         recvs' \in 0 .. MaxRecvs
  PROVE  Numbers'
BY DEF Numbers, Others

\* A call of Send makes a new buffer.
LEMMA CallsNumbers ==
  ASSUME Inv, Numbers, NEW t \in Threads, NEW back \in Labels, CallSend(t, back),
         UNCHANGED <<type, lock, queue, buffers, recvs>>,
         serviceLock' \in {serviceLock, t}
  PROVE  Numbers'
<1>1. /\ calls < MaxSends /\ calls' = calls + 1
      /\ arg' = [arg EXCEPT ![t] = calls + 1]
  BY DEF CallSend
<1>2. \A u \in Threads : u # t => pc'[u] = pc[u]
  BY CallMoves, LabelsAre DEF CallSend, Inv
<1>3. MaxSends \in Nat
  BY SessionAssumption
<1>4. /\ calls' \in 0 .. MaxSends /\ arg' \in [Threads -> 0 .. MaxSends]
      /\ arg'[t] # 0 /\ \A u \in Threads : u # t => arg'[u] = arg[u]
  BY <1>1, <1>3 DEF Numbers
<1> QED BY <1>2, <1>4 DEF Numbers

\* The steps of sending keep the numbers.
LEMMA NumbersSending ==
  ASSUME Inv, Numbers, NEW t \in Threads,
         EndBroadCast(t) \/ Send(t) \/ Push(t) \/ RegisterSend(t) \/ Drain(t)
           \/ WSASend(t) \/ SendFail(t) \/ ProcessSend(t) \/ SendNext(t) \/ Unlock(t)
  PROVE  Numbers'
<1> USE DEF sending, service, kernel, bounds, history
<1>1. ASSUME NEW l \in Labels \ {"send", "push"}, Goto(t, l) \/ (\E b \in Labels : Call(t, l, b))
      PROVE  Others(t) /\ pc'[t] \notin {"send", "push"}
  BY <1>1, GotoMoves, CallMoves DEF Inv, Others
<1>2. ASSUME pc[t] \notin TopPcs, Return(t)
      PROVE  Others(t) /\ pc'[t] \notin {"send", "push"}
  BY <1>2, ReturnStep
<1>3. CASE EndBroadCast(t)
  BY <1>1, <1>3, LabelsAre, KeepsNumbers DEF EndBroadCast, Numbers
<1>4. CASE Send(t)
  <2>1. CASE Goto(t, "push")
    BY <1>4, <2>1, GotoMoves, LabelsAre, KeepsNumbers DEF Send, Numbers, Inv, Others
  <2>2. CASE Return(t)
    BY <1>2, <1>4, <2>2, KeepsNumbers DEF Send, Numbers, TopPcs
  <2> QED BY <1>4, <2>1, <2>2 DEF Send
<1>5. CASE Push(t)
  <2>1. arg[t] \in 1 .. MaxSends
    BY <1>5, SessionAssumption DEF Push, Numbers
  <2>2. queue' \in Seq(1 .. MaxSends)
    BY <1>5, <2>1 DEF Push, Numbers
  <2>3. Others(t) /\ pc'[t] \notin {"send", "push"}
    BY <1>1, <1>2, <1>5, LabelsAre DEF Push, TopPcs
  <2> QED BY <1>5, <2>2, <2>3, KeepsNumbers DEF Push, Numbers
<1>6. CASE RegisterSend(t)
  <2>1. Others(t) /\ pc'[t] \notin {"send", "push"}
    BY <1>1, <1>2, <1>6, LabelsAre DEF RegisterSend, TopPcs
  <2> QED BY <1>6, <2>1, KeepsNumbers DEF RegisterSend, Numbers
<1>7. CASE Drain(t)
  <2>1. Others(t) /\ pc'[t] \notin {"send", "push"}
    BY <1>1, <1>7, LabelsAre DEF Drain
  <2>2. buffers' \in Seq(1 .. MaxSends) /\ queue' \in Seq(1 .. MaxSends)
    BY <1>7 DEF Drain, Numbers
  <2> QED BY <1>7, <2>1, <2>2, KeepsNumbers DEF Drain, Numbers
<1>8. CASE WSASend(t)
  <2>1. Others(t) /\ pc'[t] \notin {"send", "push"}
    BY <1>1, <1>2, <1>8, LabelsAre DEF WSASend, TopPcs
  <2> QED BY <1>8, <2>1, KeepsNumbers DEF WSASend, Numbers
<1>9. CASE SendFail(t)
  <2>1. Others(t) /\ pc'[t] \notin {"send", "push"}
    BY <1>2, <1>9 DEF SendFail, TopPcs
  <2> QED BY <1>9, <2>1, KeepsNumbers DEF SendFail, Numbers
<1>10. CASE ProcessSend(t)
  <2>1. Others(t) /\ pc'[t] \notin {"send", "push"}
    BY <1>1, <1>10, LabelsAre DEF ProcessSend
  <2> QED BY <1>10, <2>1, KeepsNumbers DEF ProcessSend, Numbers
<1>11. CASE SendNext(t)
  <2>1. Others(t) /\ pc'[t] \notin {"send", "push"}
    BY <1>1, <1>2, <1>11, LabelsAre DEF SendNext, TopPcs
  <2> QED BY <1>11, <2>1, KeepsNumbers DEF SendNext, Numbers
<1>12. CASE Unlock(t)
  <2>1. Others(t) /\ pc'[t] \notin {"send", "push"}
    BY <1>2, <1>12 DEF Unlock, TopPcs
  <2> QED BY <1>12, <2>1, KeepsNumbers DEF Unlock, Numbers
<1> QED BY <1>3, <1>4, <1>5, <1>6, <1>7, <1>8, <1>9, <1>10, <1>11, <1>12

\* The steps from connecting to disconnecting keep them, and the calls from outside.
LEMMA NumbersConnecting ==
  ASSUME Inv, Numbers, NEW t \in Threads,
         ProcessConnect(t) \/ AddSession(t) \/ OnConnected(t) \/ OnConnectedReturns(t)
           \/ Disconnect(t) \/ RegisterDisconnect(t) \/ ProcessDisconnect(t)
           \/ ReleaseSession(t) \/ RegisterConnect(t) \/ (\E b \in Senders : t = b /\ RoomSend(t))
           \/ (\E b \in Senders : t = b /\ BroadCast(t))
  PROVE  Numbers'
<1> USE DEF sending, service, kernel, bounds, history
<1>1. ASSUME NEW l \in Labels \ {"send", "push"}, Goto(t, l)
      PROVE  Others(t) /\ pc'[t] \notin {"send", "push"}
  BY <1>1, GotoMoves DEF Inv, Others
<1>2. ASSUME pc[t] \notin TopPcs, Return(t)
      PROVE  Others(t) /\ pc'[t] \notin {"send", "push"}
  BY <1>2, ReturnStep
<1>3. CASE ProcessConnect(t) \/ AddSession(t) \/ OnConnectedReturns(t) \/ ProcessDisconnect(t)
             \/ RegisterConnect(t)
  <2>1. Others(t) /\ pc'[t] \notin {"send", "push"}
    BY <1>1, <1>3, LabelsAre
       DEF ProcessConnect, AddSession, OnConnectedReturns, ProcessDisconnect, RegisterConnect
  <2> QED BY <1>3, <2>1, KeepsNumbers
          DEF ProcessConnect, AddSession, OnConnectedReturns, ProcessDisconnect, RegisterConnect, Numbers
<1>4. CASE Disconnect(t) \/ RegisterDisconnect(t) \/ ReleaseSession(t)
  <2>1. Others(t) /\ pc'[t] \notin {"send", "push"}
    BY <1>1, <1>2, <1>4, LabelsAre DEF Disconnect, RegisterDisconnect, ReleaseSession, TopPcs
  <2> QED BY <1>4, <2>1, KeepsNumbers DEF Disconnect, RegisterDisconnect, ReleaseSession, Numbers
<1>5. CASE OnConnected(t)
  <2>1. CASE CallSend(t, "connectreturns")
    BY <1>5, <2>1, CallsNumbers, LabelsAre DEF OnConnected
  <2>2. CASE Goto(t, "connectreturns") /\ UNCHANGED <<calls, arg>>
    BY <1>1, <1>5, <2>2, KeepsNumbers, LabelsAre DEF OnConnected, Numbers
  <2> QED BY <1>5, <2>1, <2>2 DEF OnConnected
<1>6. CASE RoomSend(t) \/ BroadCast(t)
  BY <1>6, CallsNumbers, LabelsAre DEF RoomSend, BroadCast
<1> QED BY <1>3, <1>4, <1>5, <1>6

\* The steps of receiving and the completions keep them.
LEMMA NumbersReceiving ==
  ASSUME Inv, Numbers, NEW t \in Threads,
         RegisterRecv(t) \/ WSARecv(t) \/ RecvFail(t) \/ ProcessRecv(t)
           \/ (t \in Workers /\ Accept(t)) \/ (t \in Workers /\ \E e \in Events : Dispatch(t, e))
  PROVE  Numbers'
<1> USE DEF sending, service, kernel, bounds, history
<1>1. ASSUME NEW l \in Labels \ {"send", "push"}, Goto(t, l) \/ (\E b \in Labels : Call(t, l, b))
      PROVE  Others(t) /\ pc'[t] \notin {"send", "push"}
  BY <1>1, GotoMoves, CallMoves DEF Inv, Others
<1>2. ASSUME pc[t] \notin TopPcs, Return(t)
      PROVE  Others(t) /\ pc'[t] \notin {"send", "push"}
  BY <1>2, ReturnStep
<1>3. CASE RegisterRecv(t) \/ WSARecv(t) \/ RecvFail(t)
  <2>1. Others(t) /\ pc'[t] \notin {"send", "push"}
    BY <1>1, <1>2, <1>3, LabelsAre DEF RegisterRecv, WSARecv, RecvFail, TopPcs
  <2> QED BY <1>3, <2>1, KeepsNumbers DEF RegisterRecv, WSARecv, RecvFail, Numbers
<1>4. CASE ProcessRecv(t)
  <2>1. CASE CallSend(t, "recv")
    BY <1>4, <2>1, CallsNumbers, LabelsAre DEF ProcessRecv
  <2>2. CASE (Goto(t, "disconnect") \/ Goto(t, "recv")) /\ UNCHANGED <<calls, arg>>
    BY <1>1, <1>4, <2>2, KeepsNumbers, LabelsAre DEF ProcessRecv, Numbers
  <2> QED BY <1>4, <2>1, <2>2 DEF ProcessRecv
<1>5. CASE Accept(t)
  <2>1. Others(t) /\ pc'[t] \notin {"send", "push"}
    BY <1>1, <1>5, LabelsAre DEF Accept
  <2> QED BY <1>5, <2>1, KeepsNumbers DEF Accept, Numbers
<1>6. ASSUME NEW e \in Events, Dispatch(t, e) PROVE Numbers'
  <2>1. Others(t) /\ pc'[t] \notin {"send", "push"}
    BY <1>1, <1>6, LabelsAre DEF Dispatch
  <2>2. recvs' \in 0 .. MaxRecvs
    BY <1>6, SessionAssumption DEF Dispatch, Numbers
  <2> QED BY <1>6, <2>1, <2>2, KeepsNumbers DEF Dispatch, Numbers
<1> QED BY <1>3, <1>4, <1>5, <1>6

\* Initially nothing was sent.
LEMMA NumbersInit == Init => Numbers
<1> SUFFICES ASSUME Init PROVE Numbers
  OBVIOUS
<1>1. \A t \in Threads : pc[t] \notin {"send", "push"}
  BY DEF Init
<1> QED BY <1>1, SessionAssumption DEF Init, Numbers

\* Every step keeps the numbers.
LEMMA NumbersNext == Inv /\ Numbers /\ [Next]_vars => Numbers'
<1> SUFFICES ASSUME Inv, Numbers, [Next]_vars PROVE Numbers'
  OBVIOUS
<1>1. CASE UNCHANGED vars
  BY <1>1 DEF vars, sending, service, control, bounds, Numbers
<1>2. ASSUME NEW t \in Threads, Step(t) PROVE Numbers'
  BY <1>2, NumbersSending, NumbersConnecting, NumbersReceiving DEF Step
<1>3. ASSUME NEW t \in Senders, RoomSend(t) \/ BroadCast(t) \/ RegisterConnect(t) PROVE Numbers'
  BY <1>3, NumbersConnecting DEF Threads
<1>4. ASSUME NEW t \in Workers, Accept(t) \/ \E e \in Events : Dispatch(t, e) PROVE Numbers'
  BY <1>4, NumbersReceiving DEF Threads
<1>5. CASE PeerCloses
  BY <1>5 DEF PeerCloses, sending, service, control, bounds, Numbers
<1> QED BY <1>1, <1>2, <1>3, <1>4, <1>5 DEF Next

\* Every variable keeps its type; queue and event hold buffers that were sent.
THEOREM TypeCorrect == SafetySpec => []TypeOK
<1>1. Inv /\ Numbers => TypeOK
  BY DEF Inv, Typed, Numbers, TypeOK
<1> QED BY <1>1, NumbersInit, NumbersNext, InvHolds, PTL DEF SafetySpec

-----------------------------------------------------------------------------
(* The order of the buffers.                                               *)

\* The sequence left holds what of all is not in gone, in the same order.
Keeps(left, all, gone) ==
  /\ ToSet(left) = ToSet(all) \ gone
  /\ \A i, j \in DOMAIN left, k, l \in DOMAIN all :
       left[i] = all[k] /\ left[j] = all[l] => (i < j <=> k < l)

\* Thread t has drained buffers in the event which no WSASend has taken.
Carries(t) == pc[t] \in {"wsasend", "sendfail"} \/ stack[t] \in FailStacks

\* Thread t is to release the buffers of a send that has completed.
Releases(t) == pc[t] \in {"sent", "sentzero"}

Carried == IF \E t \in Threads : Carries(t) THEN buffers ELSE <<>>

\* Thread t has made a buffer that it has not pushed.
Holds(t) == pc[t] \in {"send", "push"}

\* Whoever drains finds the event empty, and whoever pushes has a buffer that
\* nobody else ever pushes.
Order ==
  /\ wire \in Seq(1 .. MaxSends) /\ pushed \in Seq(1 .. MaxSends)
  /\ dropped \subseteq ToSet(pushed)
  /\ ToSet(pushed) \subseteq 1 .. calls
  /\ \A t \in Threads : Holds(t) => arg[t] \in 1 .. calls /\ arg[t] \notin ToSet(pushed)
  /\ \A t, u \in Threads : Holds(t) /\ Holds(u) /\ arg[t] = arg[u] => t = u
  /\ buffers # <<>> => "send" \in flying \/ \E t \in Threads : Carries(t) \/ Releases(t)
  /\ Keeps(wire \o Carried \o queue, pushed, dropped)

\* An element at the end of a sequence is one of its elements.
LEMMA OneMoreElement ==
  ASSUME NEW S, NEW s \in Seq(S), NEW x \in S
  PROVE  ToSet(Append(s, x)) = ToSet(s) \cup {x}
<1> PICK l : l = Append(s, x)
  OBVIOUS
<1>1. DOMAIN s = 1 .. Len(s) /\ Len(s) \in Nat
  OBVIOUS
<1>2. /\ DOMAIN l = 1 .. Len(s) + 1 /\ l[Len(s) + 1] = x
      /\ \A i \in 1 .. Len(s) : l[i] = s[i]
  BY AppendProperties
<1>3. \A y \in ToSet(l) : y \in ToSet(s) \cup {x}
  BY <1>1, <1>2 DEF ToSet
<1>4. \A y \in ToSet(s) : y \in ToSet(l)
  BY <1>1, <1>2 DEF ToSet
<1>5. x \in ToSet(l)
  BY <1>1, <1>2 DEF ToSet
<1> QED BY <1>3, <1>4, <1>5

\* A new element goes to the end of both sequences.
LEMMA OneMoreKept ==
  ASSUME NEW S, NEW left \in Seq(S), NEW all \in Seq(S), NEW gone \in SUBSET ToSet(all),
         NEW x \in S, x \notin ToSet(all), Keeps(left, all, gone)
  PROVE  Keeps(Append(left, x), Append(all, x), gone)
<1> PICK l, a : l = Append(left, x) /\ a = Append(all, x)
  OBVIOUS
<1>1. /\ DOMAIN left = 1 .. Len(left) /\ DOMAIN all = 1 .. Len(all)
      /\ Len(left) \in Nat /\ Len(all) \in Nat
  OBVIOUS
<1>2. /\ DOMAIN l = 1 .. Len(left) + 1
      /\ \A i \in 1 .. Len(left) : l[i] = left[i]
      /\ l[Len(left) + 1] = x
  BY AppendProperties
<1>3. /\ DOMAIN a = 1 .. Len(all) + 1
      /\ \A i \in 1 .. Len(all) : a[i] = all[i]
      /\ a[Len(all) + 1] = x
  BY AppendProperties
<1>4. ToSet(l) = ToSet(left) \cup {x}
  BY OneMoreElement
<1>5. ToSet(a) = ToSet(all) \cup {x}
  BY OneMoreElement
<1>6. ToSet(l) = ToSet(a) \ gone
  BY <1>4, <1>5 DEF Keeps
<1>7. \A i \in DOMAIN l : l[i] = x <=> i = Len(left) + 1
  <2>1. \A i \in 1 .. Len(left) : left[i] \in ToSet(all)
    BY <1>1 DEF Keeps, ToSet
  <2> QED BY <1>1, <1>2, <2>1
<1>8. \A k \in DOMAIN a : a[k] = x <=> k = Len(all) + 1
  <2>1. \A k \in 1 .. Len(all) : all[k] # x
    BY <1>1 DEF ToSet
  <2> QED BY <1>1, <1>3, <2>1
<1>9. ASSUME NEW i \in DOMAIN l, NEW j \in DOMAIN l, NEW k \in DOMAIN a, NEW m \in DOMAIN a,
             l[i] = a[k], l[j] = a[m]
      PROVE  i < j <=> k < m
  <2>1. (i = Len(left) + 1 <=> k = Len(all) + 1) /\ (j = Len(left) + 1 <=> m = Len(all) + 1)
    BY <1>7, <1>8, <1>9
  <2>2. CASE i = Len(left) + 1 \/ j = Len(left) + 1
    BY <1>1, <1>2, <1>3, <2>1, <2>2
  <2>3. CASE i # Len(left) + 1 /\ j # Len(left) + 1
    <3>1. /\ i \in DOMAIN left /\ j \in DOMAIN left /\ k \in DOMAIN all /\ m \in DOMAIN all
      BY <1>1, <1>2, <1>3, <2>1, <2>3
    <3>2. left[i] = all[k] /\ left[j] = all[m]
      BY <1>1, <1>2, <1>3, <1>9, <3>1
    <3> QED BY <3>1, <3>2 DEF Keeps
  <2> QED BY <2>2, <2>3
<1> QED BY <1>6, <1>9 DEF Keeps

\* The middle of the sequence that is left is given up.
LEMMA MiddleCut ==
  ASSUME NEW S, NEW first \in Seq(S), NEW cut \in Seq(S), NEW rest \in Seq(S),
         NEW all \in Seq(S), NEW gone, Keeps((first \o cut) \o rest, all, gone)
  PROVE  /\ Keeps(first \o rest, all, gone \cup ToSet(cut))
         /\ ToSet(cut) \subseteq ToSet(all)
<1> PICK l, s : l = (first \o cut) \o rest /\ s = first \o rest
  OBVIOUS
<1> DEFINE at(i) == IF i <= Len(first) THEN i ELSE i + Len(cut)
<1>1. /\ DOMAIN first = 1 .. Len(first) /\ DOMAIN cut = 1 .. Len(cut)
      /\ DOMAIN rest = 1 .. Len(rest)
      /\ Len(first) \in Nat /\ Len(cut) \in Nat /\ Len(rest) \in Nat
  OBVIOUS
<1>2. /\ first \o cut \in Seq(S) /\ Len(first \o cut) = Len(first) + Len(cut)
      /\ \A i \in 1 .. Len(first) + Len(cut) :
           (first \o cut)[i] = IF i <= Len(first) THEN first[i] ELSE cut[i - Len(first)]
  BY ConcatProperties
<1>3. /\ DOMAIN l = 1 .. Len(first) + Len(cut) + Len(rest)
      /\ \A i \in 1 .. Len(first) : l[i] = first[i]
      /\ \A i \in 1 .. Len(cut) : l[Len(first) + i] = cut[i]
      /\ \A i \in 1 .. Len(rest) : l[Len(first) + Len(cut) + i] = rest[i]
  <2>1. /\ l \in Seq(S) /\ Len(l) = Len(first \o cut) + Len(rest)
        /\ \A i \in 1 .. Len(first \o cut) + Len(rest) :
             l[i] = IF i <= Len(first \o cut) THEN (first \o cut)[i] ELSE rest[i - Len(first \o cut)]
    BY <1>2, ConcatProperties
  <2>2. \A i \in 1 .. Len(first) + Len(cut) : l[i] = (first \o cut)[i]
    BY <1>1, <1>2, <2>1
  <2>3. \A i \in 1 .. Len(rest) : l[Len(first) + Len(cut) + i] = rest[i]
    BY <1>1, <1>2, <2>1
  <2>4. \A i \in 1 .. Len(first) : l[i] = first[i]
    BY <1>1, <1>2, <2>2
  <2>5. \A i \in 1 .. Len(cut) : l[Len(first) + i] = cut[i]
    BY <1>1, <1>2, <2>2
  <2> QED BY <1>1, <1>2, <2>1, <2>3, <2>4, <2>5
<1>4. /\ DOMAIN s = 1 .. Len(first) + Len(rest)
      /\ \A i \in 1 .. Len(first) : s[i] = first[i]
      /\ \A i \in 1 .. Len(rest) : s[Len(first) + i] = rest[i]
  BY <1>1, ConcatProperties
<1>5. \A i \in DOMAIN s : at(i) \in DOMAIN l /\ s[i] = l[at(i)]
  <2> SUFFICES ASSUME NEW i \in DOMAIN s PROVE at(i) \in DOMAIN l /\ s[i] = l[at(i)]
    OBVIOUS
  <2>1. CASE i <= Len(first)
    BY <1>1, <1>3, <1>4, <2>1
  <2>2. CASE i > Len(first)
    <3> PICK k : k = i - Len(first)
      OBVIOUS
    <3>1. k \in 1 .. Len(rest) /\ i = Len(first) + k
      BY <1>1, <1>4, <2>2
    <3>2. at(i) = Len(first) + Len(cut) + k
      BY <1>1, <2>2, <3>1
    <3>3. s[i] = rest[k] /\ l[at(i)] = rest[k]
      BY <1>3, <1>4, <3>1, <3>2
    <3>4. at(i) \in DOMAIN l
      BY <1>1, <1>3, <3>1, <3>2
    <3> QED BY <3>3, <3>4
  <2>3. i \in Nat /\ (i <= Len(first) \/ i > Len(first))
    BY <1>1, <1>4
  <2> QED BY <2>1, <2>2, <2>3
<1>6. \A i, j \in DOMAIN s : i < j <=> at(i) < at(j)
  BY <1>1, <1>4
<1> HIDE DEF at
<1>0. /\ ToSet(l) = ToSet(all) \ gone
      /\ \A i, j \in DOMAIN l, k, m \in DOMAIN all :
           l[i] = all[k] /\ l[j] = all[m] => (i < j <=> k < m)
  BY DEF Keeps
<1>7. \A x \in ToSet(l) : \E k \in DOMAIN all : x = all[k]
  BY <1>0 DEF ToSet
<1>8. \A i, j \in DOMAIN l : l[i] = l[j] => i = j
  <2> SUFFICES ASSUME NEW i \in DOMAIN l, NEW j \in DOMAIN l, l[i] = l[j] PROVE i = j
    OBVIOUS
  <2> PICK k \in DOMAIN all : l[i] = all[k]
    BY <1>7 DEF ToSet
  <2>1. (i < j <=> k < k) /\ (j < i <=> k < k)
    BY <1>0
  <2>2. i \in Nat /\ j \in Nat /\ k \in Nat
    BY <1>1, <1>3
  <2> QED BY <2>1, <2>2
<1>9. \A i \in DOMAIN s : s[i] \notin ToSet(cut)
  <2> SUFFICES ASSUME NEW i \in DOMAIN s, NEW k \in DOMAIN cut, s[i] = cut[k] PROVE FALSE
    BY DEF ToSet
  <2>1. Len(first) + k \in DOMAIN l /\ l[Len(first) + k] = cut[k]
    BY <1>1, <1>3
  <2>2. at(i) = Len(first) + k
    BY <1>5, <1>8, <2>1
  <2> QED BY <1>1, <1>4, <2>2 DEF at
<1>10. ToSet(l) = ToSet(s) \cup ToSet(cut)
  <2>1. ASSUME NEW x \in ToSet(l) PROVE x \in ToSet(s) \cup ToSet(cut)
    <3> PICK i \in DOMAIN l : x = l[i]
      BY DEF ToSet
    <3>1. CASE i <= Len(first)
      BY <1>1, <1>3, <1>4, <3>1 DEF ToSet
    <3>2. CASE i > Len(first) /\ i <= Len(first) + Len(cut)
      <4> PICK k \in 1 .. Len(cut) : i = Len(first) + k
        BY <1>1, <1>3, <3>2
      <4> QED BY <1>1, <1>3 DEF ToSet
    <3>3. CASE i > Len(first) + Len(cut)
      <4> PICK k \in 1 .. Len(rest) : i = Len(first) + Len(cut) + k
        BY <1>1, <1>3, <3>3
      <4>1. Len(first) + k \in DOMAIN s /\ s[Len(first) + k] = x
        BY <1>1, <1>3, <1>4
      <4> QED BY <4>1 DEF ToSet
    <3> QED BY <1>1, <1>3, <3>1, <3>2, <3>3
  <2>2. ASSUME NEW x \in ToSet(s) PROVE x \in ToSet(l)
    <3> PICK i \in DOMAIN s : x = s[i]
      BY DEF ToSet
    <3> QED BY <1>5 DEF ToSet
  <2>3. ASSUME NEW x \in ToSet(cut) PROVE x \in ToSet(l)
    <3> PICK k \in DOMAIN cut : x = cut[k]
      BY DEF ToSet
    <3>1. Len(first) + k \in DOMAIN l /\ l[Len(first) + k] = x
      BY <1>1, <1>3
    <3> QED BY <3>1 DEF ToSet
  <2> QED BY <2>1, <2>2, <2>3
<1>11. ToSet(s) \cap ToSet(cut) = {}
  BY <1>9 DEF ToSet
<1>12. ToSet(s) = ToSet(all) \ (gone \cup ToSet(cut))
  BY <1>0, <1>10, <1>11
<1>13. ASSUME NEW i \in DOMAIN s, NEW j \in DOMAIN s, NEW k \in DOMAIN all, NEW m \in DOMAIN all,
              s[i] = all[k], s[j] = all[m]
       PROVE  i < j <=> k < m
  <2>1. l[at(i)] = all[k] /\ l[at(j)] = all[m] /\ at(i) \in DOMAIN l /\ at(j) \in DOMAIN l
    BY <1>5, <1>13
  <2>2. at(i) < at(j) <=> k < m
    BY <1>0, <2>1
  <2> QED BY <1>6, <2>2
<1>14. ToSet(cut) \subseteq ToSet(all)
  BY <1>0, <1>10
<1> QED BY <1>12, <1>13, <1>14 DEF Keeps

\* An element at the end of the second sequence is at the end of both.
LEMMA JoinAppend ==
  ASSUME NEW S, NEW a \in Seq(S), NEW c \in Seq(S), NEW x \in S
  PROVE  a \o Append(c, x) = Append(a \o c, x)
<1>1. <<x>> \in Seq(S)
  OBVIOUS
<1>2. Append(c, x) = c \o <<x>>
  BY AppendIsConcat
<1>3. a \o c \in Seq(S)
  BY ConcatProperties
<1>4. Append(a \o c, x) = (a \o c) \o <<x>>
  BY <1>3, AppendIsConcat
<1> QED BY <1>1, <1>2, <1>4, ConcatAssociative

\* Those who carry buffers or release them are the one who has the send event.
LEMMA CarrierAlone ==
  ASSUME Inv
  PROVE  /\ \A u \in Threads : Carries(u) \/ Releases(u) => Sends(u)
         /\ "send" \in flying => \A u \in Threads : ~ Carries(u) /\ ~ Releases(u)
<1>1. \A u \in Threads : Carries(u) \/ Releases(u) => Sends(u)
  BY DEF Carries, Releases, Sends, SendsAt, RegisterPcs
<1> QED BY <1>1 DEF Inv, OneSender

\* What the moves of a thread mean for what it carries.
LEMMA GotoCarries ==
  ASSUME Inv, NEW t \in Threads, NEW l \in Labels, Goto(t, l)
  PROVE  /\ Others(t)
         /\ Carries(t)' <=> l \in {"wsasend", "sendfail"} \/ stack[t] \in FailStacks
         /\ Releases(t)' <=> l \in {"sent", "sentzero"}
         /\ Holds(t)' <=> l \in {"send", "push"}
<1>1. Others(t) /\ pc'[t] = l /\ stack'[t] = stack[t]
  BY GotoMoves DEF Inv, Others
<1> QED BY <1>1 DEF Carries, Releases, Holds

\* The caller's place is on its stack.
LEMMA CallCarries ==
  ASSUME Inv, NEW t \in Threads, NEW l \in Labels, NEW b \in Labels, Call(t, l, b)
  PROVE  /\ Others(t)
         /\ Carries(t)' <=> l \in {"wsasend", "sendfail"} \/ Append(stack[t], b) \in FailStacks
         /\ Releases(t)' <=> l \in {"sent", "sentzero"}
         /\ Holds(t)' <=> l \in {"send", "push"}
<1>1. Others(t) /\ pc'[t] = l /\ stack'[t] = Append(stack[t], b)
  BY CallMoves DEF Inv, Others
<1> QED BY <1>1 DEF Carries, Releases, Holds

\* Nobody returns to a place where it releases or holds a buffer.
LEMMA ReturnCarries ==
  ASSUME Inv, NEW t \in Threads, pc[t] \notin TopPcs, Return(t)
  PROVE  /\ Others(t)
         /\ Carries(t)' <=> stack[t] \in FailStacks
         /\ ~ Releases(t)' /\ ~ Holds(t)'
<1>1. Place(pc[t], stack[t])
  BY DEF Inv, Places
<1>2. /\ Others(t) /\ (Sends(t)' <=> stack[t] \in FailStacks)
      /\ pc'[t] \in {"idle", "endbroadcast", "connectreturns", "recv", "unlock",
                     "recvfail", "sendfail"}
  BY <1>1, ReturnMoves DEF Inv, Others
<1>3. Sends(t)' <=> Carries(t)'
  BY <1>2 DEF Sends, SendsAt, Carries, RegisterPcs
<1> QED BY <1>2, <1>3 DEF Releases, Holds

\* The thread's stack where a Goto or a Return does not come from a failed send.
LEMMA NoFailure ==
  ASSUME Inv, NEW t \in Threads, pc[t] \notin {"disconnect", "disconnectex"}
  PROVE  stack[t] \notin FailStacks
<1>1. Place(pc[t], stack[t])
  BY DEF Inv, Places
<1>2. stack[t] \in RegisterStacks \cup {<<>>}
  BY <1>1 DEF Place, RegisterStacks, SendStacks
<1> QED BY <1>2, StacksApart

\* What the others carry, release and hold stays.
LEMMA OthersCarry ==
  ASSUME NEW t \in Threads, Others(t), NEW u \in Threads, u # t
  PROVE  /\ Carries(u)' <=> Carries(u)
         /\ Releases(u)' <=> Releases(u)
         /\ Holds(u)' <=> Holds(u)
<1>1. pc'[u] = pc[u] /\ stack'[u] = stack[u]
  BY DEF Others
<1> QED BY <1>1 DEF Carries, Releases, Holds

\* The buffers stay where they are, and so do those who have them.
LEMMA KeepsOrder ==
  ASSUME Order, NEW t \in Threads, Others(t),
         UNCHANGED <<queue, buffers, history, calls, arg>>,
         Carries(t)' <=> Carries(t),
         "send" \in flying \/ Releases(t) => "send" \in flying' \/ Releases(t)',
         Holds(t)' => Holds(t)
  PROVE  Order'
<1> USE DEF history
<1>1. \A u \in Threads : (Carries(u)' <=> Carries(u)) /\ (Holds(u)' => Holds(u))
  BY OthersCarry
<1>2. \A u \in Threads : Releases(u) => Releases(u)' \/ u = t
  BY OthersCarry
<1>3. Carried' = Carried
  BY <1>1 DEF Carried
<1>4. buffers' # <<>> => "send" \in flying' \/ \E u \in Threads : Carries(u)' \/ Releases(u)'
  BY <1>1, <1>2 DEF Order
<1> QED BY <1>1, <1>3, <1>4 DEF Order

\* A call of Send makes a buffer that nobody has.
LEMMA CallsOrder ==
  ASSUME Inv, Numbers, Order, NEW t \in Threads, NEW back \in Labels, CallSend(t, back),
         UNCHANGED <<queue, buffers, history, flying>>,
         stack[t] \notin FailStacks, Append(stack[t], back) \notin FailStacks,
         pc[t] \notin {"wsasend", "sendfail", "sent", "sentzero"}
  PROVE  Order'
<1> USE DEF history
<1>1. Others(t) /\ ~ Carries(t)' /\ ~ Releases(t)' /\ Holds(t)'
  BY CallCarries, LabelsAre DEF CallSend
<1>2. ~ Carries(t) /\ ~ Releases(t)
  BY DEF Carries, Releases
<1>3. \A u \in Threads : (Carries(u)' <=> Carries(u)) /\ (Releases(u)' <=> Releases(u))
  BY <1>1, <1>2, OthersCarry
<1>4. \A u \in Threads : u # t => (Holds(u)' <=> Holds(u))
  BY <1>1, OthersCarry
<1>5. Carried' = Carried
  BY <1>3 DEF Carried
<1>6. /\ calls' = calls + 1 /\ calls \in Nat /\ arg'[t] = calls + 1
      /\ \A u \in Threads : u # t => arg'[u] = arg[u]
  BY SessionAssumption DEF CallSend, Numbers
<1>7. ToSet(pushed') \subseteq 1 .. calls'
  BY <1>6 DEF Order
<1>8. ASSUME NEW u \in Threads, Holds(u)'
      PROVE  arg'[u] \in 1 .. calls' /\ arg'[u] \notin ToSet(pushed')
  <2>1. CASE u = t
    BY <1>6, <2>1 DEF Order
  <2>2. CASE u # t
    BY <1>4, <1>6, <1>8, <2>2 DEF Order
  <2> QED BY <2>1, <2>2
<1>9. ASSUME NEW u \in Threads, NEW v \in Threads, Holds(u)', Holds(v)', arg'[u] = arg'[v]
      PROVE  u = v
  <2>1. \A w \in Threads : w # t /\ Holds(w)' => arg'[w] # arg'[t]
    BY <1>4, <1>6 DEF Order
  <2>2. u # t /\ v # t => u = v
    BY <1>4, <1>6, <1>9 DEF Order
  <2> QED BY <1>9, <2>1, <2>2
<1>10. buffers' # <<>> => "send" \in flying' \/ \E u \in Threads : Carries(u)' \/ Releases(u)'
  BY <1>3 DEF Order
<1>11. /\ wire' \in Seq(1 .. MaxSends) /\ pushed' \in Seq(1 .. MaxSends)
       /\ dropped' \subseteq ToSet(pushed')
       /\ Keeps(wire' \o Carried' \o queue', pushed', dropped')
  BY <1>5 DEF Order
<1> QED BY <1>7, <1>8, <1>9, <1>10, <1>11 DEF Order

\* A pushed buffer is the last of the queue and the last that was pushed.
LEMMA OrderPush ==
  ASSUME Inv, Numbers, Order, NEW t \in Threads, Push(t)
  PROVE  Order'
<1> USE DEF history
<1>1. pc[t] = "push" /\ stack[t] \notin FailStacks
  BY NoFailure DEF Push
<1>2. Others(t) /\ ~ Carries(t)' /\ ~ Releases(t)' /\ ~ Holds(t)'
  <2>1. CASE Goto(t, "register")
    BY <1>1, <2>1, GotoCarries, LabelsAre
  <2>2. CASE Return(t)
    BY <1>1, <2>2, ReturnCarries DEF TopPcs
  <2> QED BY <2>1, <2>2 DEF Push
<1>3. ~ Carries(t) /\ ~ Releases(t) /\ Holds(t)
  BY <1>1 DEF Carries, Releases, Holds
<1>4. \A u \in Threads : (Carries(u)' <=> Carries(u)) /\ (Releases(u)' <=> Releases(u))
  BY <1>2, <1>3, OthersCarry
<1>5. \A u \in Threads : Holds(u)' => Holds(u) /\ u # t
  BY <1>2, OthersCarry
<1>6. Carried' = Carried /\ Carried \in Seq(1 .. MaxSends)
  <2>1. Carried' = Carried
    BY <1>4 DEF Carried, Push
  <2>2. buffers \in Seq(1 .. MaxSends) /\ <<>> \in Seq(1 .. MaxSends)
    BY DEF Numbers
  <2> QED BY <2>1, <2>2 DEF Carried
<1>7. arg[t] \in 1 .. calls /\ arg[t] \notin ToSet(pushed) /\ arg[t] \in 1 .. MaxSends
  BY <1>3, SessionAssumption DEF Order, Numbers
<1>8. /\ pushed' = Append(pushed, arg[t]) /\ queue' = Append(queue, arg[t])
      /\ UNCHANGED <<buffers, flying, wire, dropped, arg, calls>>
  BY DEF Push, kernel, bounds
<1>9. ToSet(pushed') = ToSet(pushed) \cup {arg[t]} /\ pushed' \in Seq(1 .. MaxSends)
  <2>1. pushed \in Seq(1 .. MaxSends) /\ arg[t] \in 1 .. MaxSends
    BY <1>7 DEF Order
  <2>2. Append(pushed, arg[t]) \in Seq(1 .. MaxSends)
    BY <2>1
  <2>3. \A s \in Seq(1 .. MaxSends), x \in 1 .. MaxSends : ToSet(Append(s, x)) = ToSet(s) \cup {x}
    BY OneMoreElement, Zenon
  <2> QED BY <1>8, <2>2, <2>3
<1>10. \A u \in Threads : Holds(u)' => arg'[u] \in 1 .. calls' /\ arg'[u] \notin ToSet(pushed')
  BY <1>3, <1>5, <1>8, <1>9 DEF Order
<1>11. \A u, v \in Threads : Holds(u)' /\ Holds(v)' /\ arg'[u] = arg'[v] => u = v
  BY <1>5, <1>8 DEF Order
<1>12. Keeps(wire' \o Carried' \o queue', pushed', dropped')
  <2>1. wire \o Carried \in Seq(1 .. MaxSends) /\ wire \o Carried \o queue \in Seq(1 .. MaxSends)
    BY <1>6, ConcatProperties DEF Order, Numbers
  <2>2. Keeps(Append(wire \o Carried \o queue, arg[t]), Append(pushed, arg[t]), dropped)
    BY <1>7, <2>1, OneMoreKept DEF Order
  <2>3. (wire \o Carried) \o Append(queue, arg[t]) = Append((wire \o Carried) \o queue, arg[t])
    <3>1. queue \in Seq(1 .. MaxSends) /\ arg[t] \in 1 .. MaxSends
      BY <1>7 DEF Numbers
    <3> QED BY <2>1, <3>1, JoinAppend
  <2>4. wire' \o Carried' \o queue' = (wire \o Carried) \o Append(queue, arg[t])
    BY <1>6, <1>8
  <2> QED BY <1>8, <2>2, <2>3, <2>4
<1>13. buffers' # <<>> => "send" \in flying' \/ \E u \in Threads : Carries(u)' \/ Releases(u)'
  BY <1>4, <1>8 DEF Order
<1>14. ToSet(pushed') \subseteq 1 .. calls' /\ dropped' \subseteq ToSet(pushed') /\ wire' \in Seq(1 .. MaxSends)
  BY <1>7, <1>8, <1>9 DEF Order
<1> QED BY <1>9, <1>10, <1>11, <1>12, <1>13, <1>14 DEF Order

\* The parts of the invariant that steps on drained buffers leave alone.
LEMMA SameSends ==
  ASSUME Order, NEW t \in Threads, Others(t), UNCHANGED <<pushed, calls, arg>>, ~ Holds(t)'
  PROVE  /\ pushed' \in Seq(1 .. MaxSends) /\ ToSet(pushed') \subseteq 1 .. calls'
         /\ \A u \in Threads : Holds(u)' => arg'[u] \in 1 .. calls' /\ arg'[u] \notin ToSet(pushed')
         /\ \A u, v \in Threads : Holds(u)' /\ Holds(v)' /\ arg'[u] = arg'[v] => u = v
<1>1. \A u \in Threads : Holds(u)' => Holds(u)
  BY OthersCarry
<1> QED BY <1>1 DEF Order

\* The queue goes into the event, which is empty, since nobody else uses it.
LEMMA OrderDrain ==
  ASSUME Inv, Numbers, Order, NEW t \in Threads, Drain(t)
  PROVE  Order'
<1> USE DEF history
<1>1. pc[t] = "drain" /\ stack[t] \notin FailStacks
  BY NoFailure DEF Drain
<1>2. Others(t) /\ Carries(t)' /\ ~ Holds(t)'
  BY GotoCarries, LabelsAre DEF Drain
<1>3. Sends(t) /\ ~ Carries(t) /\ ~ Releases(t)
  BY <1>1 DEF Sends, SendsAt, RegisterPcs, Carries, Releases
<1>4. "send" \notin flying /\ \A u \in Threads : ~ Carries(u) /\ ~ Releases(u)
  BY <1>3, CarrierAlone, SenderAlone
<1>5. buffers = <<>> /\ Carried = <<>>
  BY <1>4 DEF Order, Carried
<1>6. queue \in Seq(1 .. MaxSends) /\ wire \in Seq(1 .. MaxSends) /\ <<>> \in Seq(1 .. MaxSends)
  BY DEF Numbers, Order
<1>7. buffers' = queue
  <2>1. buffers' = <<>> \o queue
    BY <1>5 DEF Drain
  <2> QED BY <1>6, <2>1, ConcatEmptySeq
<1>8. Carried' = queue /\ queue' = <<>>
  BY <1>2, <1>7 DEF Carried, Drain
<1>9. wire' \o Carried' \o queue' = wire \o Carried \o queue
  <2>1. (wire \o <<>>) \o queue = wire \o queue
    BY <1>6, ConcatEmptySeq
  <2>2. wire \o queue \in Seq(1 .. MaxSends)
    BY <1>6, ConcatProperties
  <2>3. (wire \o queue) \o <<>> = wire \o queue
    BY <2>2, ConcatEmptySeq
  <2> QED BY <1>5, <1>8, <2>1, <2>3 DEF Drain
<1>10. UNCHANGED <<pushed, wire, dropped, calls, arg>>
  BY DEF Drain, bounds
<1>11. Keeps(wire' \o Carried' \o queue', pushed', dropped')
  BY <1>9, <1>10 DEF Order
<1>12. wire' \in Seq(1 .. MaxSends) /\ dropped' \subseteq ToSet(pushed')
  BY <1>10 DEF Order
<1> QED BY <1>2, <1>10, <1>11, <1>12, SameSends DEF Order

\* The event's buffers go to the wire, or to the one that is to release them.
LEMMA OrderWSASend ==
  ASSUME Inv, Numbers, Order, NEW t \in Threads, WSASend(t)
  PROVE  Order'
<1> USE DEF history
<1>1. pc[t] = "wsasend" /\ stack[t] \in RegisterStacks /\ stack[t] \notin FailStacks
  BY NoFailure, StackOf DEF WSASend, Inv, RegisterPcs
<1>2. Carries(t) /\ ~ Releases(t)
  BY <1>1 DEF Carries, Releases
<1>3. CASE Return(t) /\ flying' = flying \cup {"send"} /\ wire' = wire \o buffers
  <2>1. Others(t) /\ ~ Carries(t)' /\ ~ Releases(t)' /\ ~ Holds(t)'
    BY <1>1, <1>3, ReturnCarries DEF TopPcs
  <2>2. \A u \in Threads : ~ Carries(u)'
    BY <1>2, <2>1, CarrierAlone, SenderAlone, OthersCarry
  <2>3. Carried = buffers /\ Carried' = <<>>
    BY <1>2, <2>2 DEF Carried
  <2>4. UNCHANGED <<pushed, dropped, calls, arg, queue>>
    BY DEF WSASend, bounds, sending
  <2>5. wire' \in Seq(1 .. MaxSends)
    BY <1>3, ConcatProperties DEF Order, Numbers
  <2>6. wire' \o <<>> = wire'
    BY <2>5, ConcatEmptySeq
  <2>7. wire' \o Carried' \o queue' = wire \o Carried \o queue
    BY <1>3, <2>3, <2>4, <2>6
  <2>8. Keeps(wire' \o Carried' \o queue', pushed', dropped') /\ dropped' \subseteq ToSet(pushed')
    BY <2>4, <2>7 DEF Order
  <2> QED BY <1>3, <2>1, <2>4, <2>5, <2>8, SameSends DEF Order
<1>4. CASE Goto(t, "sendfail") /\ UNCHANGED <<flying, wire>>
  <2>1. Others(t) /\ Carries(t)' /\ ~ Holds(t)'
    BY <1>4, GotoCarries, LabelsAre
  <2> QED BY <1>2, <1>4, <2>1, KeepsOrder DEF WSASend, sending, bounds
<1>5. CASE Call(t, "disconnect", "sendfail") /\ UNCHANGED <<flying, wire>>
  <2>1. Others(t) /\ Carries(t)' /\ ~ Holds(t)'
    BY <1>1, <1>5, CallCarries, FailingStack, LabelsAre
  <2> QED BY <1>2, <1>5, <2>1, KeepsOrder DEF WSASend, sending, bounds
<1> QED BY <1>3, <1>4, <1>5 DEF WSASend

\* The buffers of a failed send are given up.
LEMMA OrderSendFail ==
  ASSUME Inv, Numbers, Order, NEW t \in Threads, SendFail(t)
  PROVE  Order'
<1> USE DEF history
<1>1. pc[t] = "sendfail" /\ stack[t] \notin FailStacks
  BY NoFailure DEF SendFail
<1>2. Carries(t)
  BY <1>1 DEF Carries
<1>3. Others(t) /\ ~ Carries(t)' /\ ~ Holds(t)'
  BY <1>1, ReturnCarries DEF SendFail, TopPcs
<1>4. \A u \in Threads : ~ Carries(u)'
  BY <1>2, <1>3, CarrierAlone, SenderAlone, OthersCarry
<1>5. Carried = buffers /\ Carried' = <<>>
  BY <1>2, <1>4 DEF Carried
<1>6. /\ buffers' = <<>> /\ dropped' = dropped \cup ToSet(buffers)
      /\ UNCHANGED <<pushed, wire, calls, arg, queue>>
  BY DEF SendFail, bounds
<1>7. /\ wire \in Seq(1 .. MaxSends) /\ buffers \in Seq(1 .. MaxSends)
      /\ queue \in Seq(1 .. MaxSends) /\ pushed \in Seq(1 .. MaxSends)
  BY DEF Order, Numbers
<1>8. Keeps((wire \o buffers) \o queue, pushed, dropped)
  BY <1>5 DEF Order
<1>9. Keeps(wire \o queue, pushed, dropped') /\ ToSet(buffers) \subseteq ToSet(pushed)
  BY <1>6, <1>7, <1>8, MiddleCut
<1>10. wire \o <<>> = wire
  BY <1>7, ConcatEmptySeq
<1>11. Keeps(wire' \o Carried' \o queue', pushed', dropped')
  BY <1>5, <1>6, <1>9, <1>10
<1>12. dropped' \subseteq ToSet(pushed') /\ wire' \in Seq(1 .. MaxSends)
  BY <1>6, <1>9 DEF Order
<1> QED BY <1>3, <1>6, <1>11, <1>12, SameSends DEF Order

\* The buffers of a completed send, which are on the wire, leave the event.
LEMMA OrderProcessSend ==
  ASSUME Inv, Numbers, Order, NEW t \in Threads, ProcessSend(t)
  PROVE  Order'
<1> USE DEF history
<1>1. Releases(t) /\ stack[t] \notin FailStacks /\ ~ Carries(t)
  BY NoFailure DEF ProcessSend, Releases, Carries
<1>2. Others(t) /\ ~ Carries(t)' /\ ~ Holds(t)'
  BY <1>1, GotoCarries, LabelsAre DEF ProcessSend
<1>3. \A u \in Threads : ~ Carries(u)
  BY <1>1, CarrierAlone, SenderAlone
<1>4. \A u \in Threads : ~ Carries(u)'
  BY <1>2, <1>3, OthersCarry
<1>5. Carried = <<>> /\ Carried' = <<>>
  BY <1>3, <1>4 DEF Carried
<1>6. buffers' = <<>> /\ UNCHANGED <<pushed, wire, dropped, calls, arg, queue>>
  BY DEF ProcessSend, bounds
<1>7. Keeps(wire' \o Carried' \o queue', pushed', dropped')
  BY <1>5, <1>6 DEF Order
<1>8. wire' \in Seq(1 .. MaxSends) /\ dropped' \subseteq ToSet(pushed')
  BY <1>6 DEF Order
<1> QED BY <1>2, <1>6, <1>7, <1>8, SameSends DEF Order

\* The other steps of sending leave the buffers where they are.
LEMMA OrderSending ==
  ASSUME Inv, Numbers, Order, NEW t \in Threads,
         EndBroadCast(t) \/ Send(t) \/ Push(t) \/ RegisterSend(t) \/ Drain(t)
           \/ WSASend(t) \/ SendFail(t) \/ ProcessSend(t) \/ SendNext(t) \/ Unlock(t)
  PROVE  Order'
<1> USE DEF sending, service, kernel, bounds
<1>1. CASE Push(t) \/ Drain(t) \/ WSASend(t) \/ SendFail(t) \/ ProcessSend(t)
  BY <1>1, OrderPush, OrderDrain, OrderWSASend, OrderSendFail, OrderProcessSend
<1>2. CASE EndBroadCast(t)
  <2>1. stack[t] \notin FailStacks /\ ~ Carries(t) /\ ~ Releases(t)
    BY <1>2, NoFailure DEF EndBroadCast, Carries, Releases
  <2>2. Others(t) /\ ~ Carries(t)' /\ ~ Holds(t)'
    BY <1>2, <2>1, GotoCarries, LabelsAre DEF EndBroadCast
  <2> QED BY <1>2, <2>1, <2>2, KeepsOrder DEF EndBroadCast
<1>3. CASE Send(t)
  <2>1. stack[t] \notin FailStacks /\ ~ Carries(t) /\ ~ Releases(t) /\ Holds(t)
    BY <1>3, NoFailure DEF Send, Carries, Releases, Holds
  <2>2. Others(t) /\ ~ Carries(t)'
    <3>1. CASE Goto(t, "push")
      BY <2>1, <3>1, GotoCarries, LabelsAre
    <3>2. CASE Return(t)
      BY <1>3, <2>1, <3>2, ReturnCarries DEF Send, TopPcs
    <3> QED BY <1>3, <3>1, <3>2 DEF Send
  <2> QED BY <1>3, <2>1, <2>2, KeepsOrder DEF Send
<1>4. CASE RegisterSend(t)
  <2>1. stack[t] \notin FailStacks /\ ~ Carries(t) /\ ~ Releases(t)
    BY <1>4, NoFailure DEF RegisterSend, Carries, Releases
  <2>2. Others(t) /\ ~ Carries(t)' /\ ~ Holds(t)'
    <3>1. CASE Goto(t, "drain")
      BY <2>1, <3>1, GotoCarries, LabelsAre
    <3>2. CASE Return(t)
      BY <1>4, <2>1, <3>2, ReturnCarries DEF RegisterSend, TopPcs
    <3> QED BY <1>4, <3>1, <3>2 DEF RegisterSend
  <2> QED BY <1>4, <2>1, <2>2, KeepsOrder DEF RegisterSend
<1>5. CASE SendNext(t)
  <2>1. /\ stack[t] = Handler /\ stack[t] \notin FailStacks
        /\ ~ Carries(t) /\ ~ Releases(t)
    BY <1>5, NoFailure, StackOf DEF SendNext, Carries, Releases, Inv, HandlerPcs
  <2>2. Others(t) /\ ~ Carries(t)' /\ ~ Holds(t)'
    <3>1. CASE Call(t, "register", "unlock")
      <4>1. Append(stack[t], "unlock") \notin FailStacks
        BY <2>1, StacksApart DEF Resending, RegisterStacks
      <4> QED BY <3>1, <4>1, CallCarries, LabelsAre
    <3>2. CASE Return(t)
      BY <1>5, <2>1, <3>2, ReturnCarries DEF SendNext, TopPcs
    <3> QED BY <1>5, <3>1, <3>2 DEF SendNext
  <2> QED BY <1>5, <2>1, <2>2, KeepsOrder DEF SendNext
<1>6. CASE Unlock(t)
  <2>1. stack[t] \notin FailStacks /\ ~ Carries(t) /\ ~ Releases(t)
    BY <1>6, NoFailure DEF Unlock, Carries, Releases
  <2>2. Others(t) /\ ~ Carries(t)' /\ ~ Holds(t)'
    BY <1>6, <2>1, ReturnCarries DEF Unlock, TopPcs
  <2> QED BY <1>6, <2>1, <2>2, KeepsOrder DEF Unlock
<1> QED BY <1>1, <1>2, <1>3, <1>4, <1>5, <1>6

\* The stacks of a call of Send are not those of a failed one.
LEMMA CallerStacks ==
  /\ Append(<<>>, "idle") \notin FailStacks /\ Append(<<>>, "endbroadcast") \notin FailStacks
  /\ Append(Handler, "connectreturns") \notin FailStacks /\ Append(Handler, "recv") \notin FailStacks
  /\ Append(Handler, "recvfail") \notin FailStacks
<1>1. Handler \notin FailStacks /\ RecvFailing \notin FailStacks
  BY StacksApart
<1>2. Casting \notin FailStacks /\ Connecting \notin FailStacks /\ Receiving \notin FailStacks
  BY StacksApart DEF RegisterStacks, SendStacks
<1> QED BY <1>1, <1>2 DEF Handler, Casting, Connecting, Receiving, RecvFailing

\* The steps from connecting to disconnecting leave the buffers where they are.
LEMMA OrderConnecting ==
  ASSUME Inv, Numbers, Order, NEW t \in Threads,
         ProcessConnect(t) \/ AddSession(t) \/ OnConnected(t) \/ OnConnectedReturns(t)
           \/ Disconnect(t) \/ RegisterDisconnect(t) \/ ProcessDisconnect(t)
           \/ ReleaseSession(t) \/ RegisterConnect(t) \/ (\E b \in Senders : t = b /\ RoomSend(t))
           \/ (\E b \in Senders : t = b /\ BroadCast(t))
  PROVE  Order'
<1> USE DEF sending, service, kernel, bounds
<1>1. CASE ProcessConnect(t) \/ AddSession(t) \/ OnConnectedReturns(t) \/ ProcessDisconnect(t)
             \/ RegisterConnect(t)
  <2>1. stack[t] \notin FailStacks /\ ~ Carries(t) /\ ~ Releases(t)
    BY <1>1, NoFailure
       DEF ProcessConnect, AddSession, OnConnectedReturns, ProcessDisconnect, RegisterConnect,
           Carries, Releases
  <2>2. Others(t) /\ ~ Carries(t)' /\ ~ Holds(t)'
    BY <1>1, <2>1, GotoCarries, LabelsAre
       DEF ProcessConnect, AddSession, OnConnectedReturns, ProcessDisconnect, RegisterConnect
  <2>3. "send" \in flying => "send" \in flying'
    BY <1>1 DEF ProcessConnect, AddSession, OnConnectedReturns, ProcessDisconnect, RegisterConnect
  <2> QED BY <1>1, <2>1, <2>2, <2>3, KeepsOrder
          DEF ProcessConnect, AddSession, OnConnectedReturns, ProcessDisconnect, RegisterConnect
<1>2. CASE Disconnect(t) \/ RegisterDisconnect(t) \/ ReleaseSession(t)
  <2>1. ~ Releases(t) /\ (Carries(t) <=> stack[t] \in FailStacks)
    BY <1>2 DEF Disconnect, RegisterDisconnect, ReleaseSession, Carries, Releases
  <2>2. Others(t) /\ (Carries(t)' <=> stack[t] \in FailStacks) /\ ~ Holds(t)'
    <3>1. CASE Goto(t, "disconnectex")
      BY <3>1, GotoCarries, LabelsAre
    <3>2. CASE Return(t)
      BY <1>2, <3>2, ReturnCarries DEF Disconnect, RegisterDisconnect, ReleaseSession, TopPcs
    <3> QED BY <1>2, <3>1, <3>2 DEF Disconnect, RegisterDisconnect, ReleaseSession
  <2>3. "send" \in flying => "send" \in flying'
    BY <1>2 DEF Disconnect, RegisterDisconnect, ReleaseSession
  <2> QED BY <1>2, <2>1, <2>2, <2>3, KeepsOrder DEF Disconnect, RegisterDisconnect, ReleaseSession
<1>3. CASE OnConnected(t)
  <2>1. stack[t] = Handler /\ stack[t] \notin FailStacks /\ ~ Carries(t) /\ ~ Releases(t)
    BY <1>3, NoFailure, StackOf DEF OnConnected, Carries, Releases, Inv, HandlerPcs
  <2>2. CASE CallSend(t, "connectreturns")
    BY <1>3, <2>1, <2>2, CallsOrder, CallerStacks, LabelsAre DEF OnConnected
  <2>3. CASE Goto(t, "connectreturns") /\ UNCHANGED <<calls, arg>>
    <3>1. Others(t) /\ ~ Carries(t)' /\ ~ Holds(t)'
      BY <2>1, <2>3, GotoCarries, LabelsAre
    <3> QED BY <1>3, <2>1, <2>3, <3>1, KeepsOrder DEF OnConnected
  <2> QED BY <1>3, <2>2, <2>3 DEF OnConnected
<1>4. CASE RoomSend(t) \/ BroadCast(t)
  <2>1. pc[t] = "idle" /\ stack[t] = <<>> /\ stack[t] \notin FailStacks
    BY <1>4, NoFailure, StackOf DEF RoomSend, BroadCast, Inv, TopPcs
  <2> QED BY <1>4, <2>1, CallsOrder, CallerStacks, LabelsAre DEF RoomSend, BroadCast
<1> QED BY <1>1, <1>2, <1>3, <1>4

\* So do the steps of receiving and the completions.
LEMMA OrderReceiving ==
  ASSUME Inv, Numbers, Order, NEW t \in Threads,
         RegisterRecv(t) \/ WSARecv(t) \/ RecvFail(t) \/ ProcessRecv(t)
           \/ (t \in Workers /\ Accept(t)) \/ (t \in Workers /\ \E e \in Events : Dispatch(t, e))
  PROVE  Order'
<1> USE DEF sending, service, kernel, bounds
<1>1. CASE RegisterRecv(t) \/ WSARecv(t) \/ RecvFail(t)
  <2>1. stack[t] = Handler /\ stack[t] \notin FailStacks /\ ~ Carries(t) /\ ~ Releases(t)
    BY <1>1, NoFailure, StackOf
       DEF RegisterRecv, WSARecv, RecvFail, Carries, Releases, Inv, HandlerPcs
  <2>2. Others(t) /\ ~ Carries(t)' /\ ~ Holds(t)'
    <3>1. CASE Goto(t, "wsarecv") \/ Goto(t, "recvfail")
      BY <2>1, <3>1, GotoCarries, LabelsAre
    <3>2. CASE Call(t, "disconnect", "recvfail")
      BY <2>1, <3>2, CallCarries, CallerStacks, LabelsAre
    <3>3. CASE Return(t)
      BY <1>1, <2>1, <3>3, ReturnCarries DEF RegisterRecv, WSARecv, RecvFail, TopPcs
    <3> QED BY <1>1, <3>1, <3>2, <3>3 DEF RegisterRecv, WSARecv, RecvFail
  <2>3. "send" \in flying => "send" \in flying'
    BY <1>1 DEF RegisterRecv, WSARecv, RecvFail
  <2> QED BY <1>1, <2>1, <2>2, <2>3, KeepsOrder DEF RegisterRecv, WSARecv, RecvFail
<1>2. CASE ProcessRecv(t)
  <2>1. stack[t] = Handler /\ stack[t] \notin FailStacks /\ ~ Carries(t) /\ ~ Releases(t)
    BY <1>2, NoFailure, StackOf DEF ProcessRecv, Carries, Releases, Inv, HandlerPcs
  <2>2. CASE CallSend(t, "recv")
    BY <1>2, <2>1, <2>2, CallsOrder, CallerStacks, LabelsAre DEF ProcessRecv
  <2>3. CASE (Goto(t, "disconnect") \/ Goto(t, "recv")) /\ UNCHANGED <<calls, arg>>
    <3>1. Others(t) /\ ~ Carries(t)' /\ ~ Holds(t)'
      BY <2>1, <2>3, GotoCarries, LabelsAre
    <3> QED BY <1>2, <2>1, <2>3, <3>1, KeepsOrder DEF ProcessRecv
  <2> QED BY <1>2, <2>2, <2>3 DEF ProcessRecv
<1>3. CASE Accept(t)
  <2>1. stack[t] = <<>> /\ stack[t] \notin FailStacks /\ ~ Carries(t) /\ ~ Releases(t)
    BY <1>3, NoFailure, StackOf DEF Accept, Carries, Releases, Inv, TopPcs
  <2>2. Others(t) /\ ~ Carries(t)' /\ ~ Holds(t)'
    BY <1>3, <2>1, CallCarries, CallerStacks, LabelsAre DEF Accept
  <2> QED BY <1>3, <2>1, <2>2, KeepsOrder DEF Accept
<1>4. ASSUME NEW e \in Events, Dispatch(t, e) PROVE Order'
  <2>1. stack[t] = <<>> /\ stack[t] \notin FailStacks /\ ~ Carries(t) /\ ~ Releases(t)
    BY <1>4, NoFailure, StackOf DEF Dispatch, Carries, Releases, Inv, TopPcs
  <2>2. Others(t) /\ ~ Carries(t)' /\ ~ Holds(t)' /\ (e = "send" => Releases(t)')
    BY <1>4, <2>1, CallCarries, CallerStacks, LabelsAre DEF Dispatch
  <2>3. "send" \in flying => "send" \in flying' \/ Releases(t)'
    BY <1>4, <2>2 DEF Dispatch
  <2> QED BY <1>4, <2>1, <2>2, <2>3, KeepsOrder DEF Dispatch
<1> QED BY <1>1, <1>2, <1>3, <1>4

\* Initially there is no buffer.
LEMMA OrderInit == Init => Order
<1> SUFFICES ASSUME Init PROVE Order
  OBVIOUS
<1>1. \A t \in Threads : ~ Holds(t)
  BY DEF Init, Holds
<1>2. Carried = <<>> /\ wire = <<>> /\ queue = <<>> /\ pushed = <<>> /\ dropped = {} /\ buffers = <<>>
  BY DEF Init, Carried
<1>3. <<>> \o <<>> \o <<>> = <<>>
  OBVIOUS
<1>4. ToSet(<<>>) = {}
  BY DEF ToSet
<1>5. Keeps(<<>>, <<>>, {})
  BY <1>4 DEF Keeps
<1>6. <<>> \in Seq(1 .. MaxSends)
  OBVIOUS
<1> QED BY <1>1, <1>2, <1>3, <1>4, <1>5, <1>6 DEF Order

\* The places of the threads that carry buffers are those the property names.
LEMMA CarriedIsUnsent == Inv => Carried = Unsent
<1> SUFFICES ASSUME Inv PROVE Carried = Unsent
  OBVIOUS
<1>1. \A t \in Threads : stack[t] \in FailStacks <=> "sendfail" \in ToSet(stack[t])
  <2> TAKE t \in Threads
  <2>1. Place(pc[t], stack[t])
    BY DEF Inv, Places
  <2>2. stack[t] \in FailStacks \cup RegisterStacks \cup {RecvFailing, <<>>}
    BY <2>1 DEF Place, DisconnectStacks, RegisterStacks, SendStacks
  <2>3. \A s \in RegisterStacks : "sendfail" \in ToSet(Append(s, "sendfail"))
    BY StackFacts, OneMoreElement, LabelsAre DEF RegisterStacks, SendStacks
  <2>4. \A s \in FailStacks : "sendfail" \in ToSet(s)
    BY <2>3 DEF FailStacks, RegisterStacks, SendStacks, HandlerFailing, CastingFailing,
                ConnectingFailing, ReceivingFailing, ResendingFailing
  <2> QED BY <2>2, <2>4, SendFailOnStack, StacksApart
<1> QED BY <1>1 DEF Carried, Unsent, Carries

\* What leaves is what was pushed, in the order of the pushes, less what a failed
\* WSASend gave up.
THEOREM PacketsLeaveInOrder == SafetySpec => []WireKeepsOrder
<1>1. Inv /\ Numbers /\ Order /\ [Next]_vars => Order'
  <2> SUFFICES ASSUME Inv, Numbers, Order, [Next]_vars PROVE Order'
    OBVIOUS
  <2>1. CASE UNCHANGED vars
    BY <2>1 DEF vars, sending, kernel, control, bounds, history, Order, Carried, Carries, Releases, Holds
  <2>2. ASSUME NEW t \in Threads, Step(t) PROVE Order'
    BY <2>2, OrderSending, OrderConnecting, OrderReceiving DEF Step
  <2>3. ASSUME NEW t \in Senders, RoomSend(t) \/ BroadCast(t) \/ RegisterConnect(t) PROVE Order'
    BY <2>3, OrderConnecting DEF Threads
  <2>4. ASSUME NEW t \in Workers, Accept(t) \/ \E e \in Events : Dispatch(t, e) PROVE Order'
    BY <2>4, OrderReceiving DEF Threads
  <2>5. CASE PeerCloses
    BY <2>5 DEF PeerCloses, sending, control, bounds, history, Order, Carried, Carries, Releases, Holds
  <2> QED BY <2>1, <2>2, <2>3, <2>4, <2>5 DEF Next
<1>2. Inv /\ Order => WireKeepsOrder
  BY CarriedIsUnsent DEF Order, Keeps, WireKeepsOrder, Left
<1> QED BY <1>1, <1>2, OrderInit, InvHolds, NumbersInit, NumbersNext, PTL DEF SafetySpec
=============================================================================
