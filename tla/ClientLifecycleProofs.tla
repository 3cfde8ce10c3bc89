----------------------- MODULE ClientLifecycleProofs -----------------------
(***************************************************************************)
(* Proofs about ClientLifecycle: its type invariant, and that things are   *)
(* closed in the right order, for any number of clients and any bounds.    *)
(*                                                                         *)
(* ClosedLast and ReaderFirst are not inductive.  That the pool closes     *)
(* toWebSocket after the main loop has ended, say, rests on where          *)
(* ServeHTTP is: it waits for the main loop before it has the client       *)
(* removed, and what is removed was added before.  Order records these     *)
(* links between the goroutines of one client.                             *)
(***************************************************************************)
EXTENDS ClientLifecycle, TLAPS

-----------------------------------------------------------------------------
(* How far each goroutine of c is, by what is closed, and the other way    *)
(* round.                                                                  *)
Order(c) ==
  /\ reader[c] = "end" <=> c \in fromClosed
  /\ loop[c] \in {"drain", "unsubscribe", "done", "end"} => c \notin conn
  /\ loop[c] \in {"unsubscribe", "done", "end"} =>
       reader[c] = "end" /\ fromWebSocket[c] = <<>>
  /\ loop[c] \in {"done", "end"} => c \notin agent
  /\ c \notin loader => loop[c] = "end"
  /\ server[c] = "remove" => loop[c] = "end"
  /\ c \in toClosed => server[c] = "end" /\ loop[c] = "end"
  /\ c \in pool => server[c] \in {"wait", "remove"}

Ordered == \A c \in Clients : Order(c)

(* The inductive invariant.                                                *)
IInv == TypeOK /\ Ordered

Amounts == {"request", "app", "greet", "reply", "redis"}

-----------------------------------------------------------------------------
(* What the helpers of the actions do to the types.                        *)

(* The bounds are natural numbers.                                         *)
LEMMA BoundTypes ==
  /\ MaxRequests \in Nat /\ MaxWrites \in Nat /\ MaxGreetings \in Nat
  /\ MaxReplies \in Nat /\ MaxDeliveries \in Nat
BY LifecycleAssumption DEF LifecycleAssumption

(* What is spent was there, so the budget stays a natural number.          *)
LEMMA SpendType ==
  ASSUME TypeOK, NEW c \in Clients, NEW what \in Amounts, Spend(c, what)
  PROVE  budget' \in [Clients -> [Amounts -> Nat]]
<1>1. budget[c] \in [Amounts -> Nat] /\ budget[c][what] - 1 \in Nat
  BY DEF TypeOK, Amounts, Spend
<1>2. budget' = [budget EXCEPT ![c] = [budget[c] EXCEPT ![what] = budget[c][what] - 1]]
  BY DEF Spend
<1>3. [budget[c] EXCEPT ![what] = budget[c][what] - 1] \in [Amounts -> Nat]
  BY <1>1
<1> QED BY <1>2, <1>3 DEF TypeOK, Amounts

(* So it does when a callback is given its replies.                        *)
LEMMA ReplyType ==
  ASSUME TypeOK, NEW c \in Clients, MayReply(c)
  PROVE  budget' \in [Clients -> [Amounts -> Nat]]
<1>1. budget[c] \in [Amounts -> Nat]
  BY DEF TypeOK, Amounts
<1>2. budget' = [budget EXCEPT ![c] = [budget[c] EXCEPT !["reply"] = MaxReplies]]
  BY DEF MayReply
<1>3. [budget[c] EXCEPT !["reply"] = MaxReplies] \in [Amounts -> Nat]
  BY <1>1, BoundTypes DEF Amounts
<1> QED BY <1>2, <1>3 DEF TypeOK, Amounts

(* A send keeps toWebSocket within its capacity.                           *)
LEMMA SendType ==
  ASSUME TypeOK, NEW c \in Clients, Send(c)
  PROVE  toWebSocket' \in [Clients -> 0..Buffer] /\ panicked' \in BOOLEAN
<1>1. Buffer \in Nat /\ toWebSocket[c] \in 0..Buffer
  BY LifecycleAssumption DEF LifecycleAssumption, TypeOK
<1>2. CASE c \in toClosed
  BY <1>2 DEF Send, TypeOK
<1>3. CASE c \notin toClosed
  <2> DEFINE n == toWebSocket[c] + 1
  <2>1. /\ toWebSocket[c] < Buffer
        /\ toWebSocket' = [toWebSocket EXCEPT ![c] = n]
        /\ panicked' = panicked
    BY <1>3 DEF Send
  <2>2. n \in 0..Buffer
    BY <1>1, <2>1
  <2>3. toWebSocket \in [Clients -> 0..Buffer] /\ panicked \in BOOLEAN
    BY DEF TypeOK
  <2> HIDE DEF n
  <2> QED BY <2>1, <2>2, <2>3
<1> QED BY <1>2, <1>3

Queues == /\ fromWebSocket \in [Clients -> Seq(Request)]
          /\ \A c \in Clients : Len(fromWebSocket[c]) <= Buffer

(* Taking a request off fromWebSocket leaves fewer.                        *)
LEMMA TakeType ==
  ASSUME TypeOK, NEW c \in Clients, fromWebSocket[c] # <<>>,
         fromWebSocket' = [fromWebSocket EXCEPT ![c] = Tail(@)]
  PROVE  Queues'
<1>1. fromWebSocket[c] \in Seq(Request) /\ Buffer \in Nat
  BY LifecycleAssumption DEF LifecycleAssumption, TypeOK
<1>2. /\ Tail(fromWebSocket[c]) \in Seq(Request)
      /\ Len(Tail(fromWebSocket[c])) = Len(fromWebSocket[c]) - 1
      /\ Len(fromWebSocket[c]) \in Nat
  BY <1>1
<1>3. Len(Tail(fromWebSocket[c])) <= Buffer
  BY <1>1, <1>2 DEF TypeOK
<1> QED BY <1>2, <1>3 DEF TypeOK, Queues

(* SendRequest waits for room.                                             *)
LEMMA AppendType ==
  ASSUME TypeOK, NEW c \in Clients, NEW r \in Request, Len(fromWebSocket[c]) < Buffer,
         fromWebSocket' = [fromWebSocket EXCEPT ![c] = Append(@, r)]
  PROVE  Queues'
<1>1. fromWebSocket[c] \in Seq(Request) /\ Buffer \in Nat
  BY LifecycleAssumption DEF LifecycleAssumption, TypeOK
<1>2. /\ Append(fromWebSocket[c], r) \in Seq(Request)
      /\ Len(Append(fromWebSocket[c], r)) = Len(fromWebSocket[c]) + 1
      /\ Len(fromWebSocket[c]) \in Nat
  BY <1>1
<1>3. Len(Append(fromWebSocket[c], r)) <= Buffer
  BY <1>1, <1>2
<1> QED BY <1>2, <1>3 DEF TypeOK, Queues

-----------------------------------------------------------------------------
(* The initial states satisfy the invariant.                               *)
LEMMA InitIInv == Init => IInv
<1> SUFFICES ASSUME Init PROVE IInv
  OBVIOUS
<1>1. budget \in [Clients -> [Amounts -> Nat]]
  BY BoundTypes DEF Init, Amounts
<1>2. \A c \in Clients : fromWebSocket[c] \in Seq(Request) /\ Len(fromWebSocket[c]) <= Buffer
  <2>1. <<>> \in Seq(Request) /\ Len(<<>>) = 0 /\ Buffer \in Nat /\ 0 <= Buffer
    BY LifecycleAssumption DEF LifecycleAssumption
  <2> QED BY <2>1 DEF Init
<1>3. fromWebSocket \in [Clients -> Seq(Request)] /\ toWebSocket \in [Clients -> 0..Buffer]
  BY <1>2, LifecycleAssumption DEF Init, LifecycleAssumption
<1>4. TypeOK
  BY <1>1, <1>2, <1>3 DEF Init, TypeOK, ServerState, LoopState, Amounts
<1>5. Ordered
  BY DEF Init, Ordered, Order
<1> QED BY <1>4, <1>5 DEF IInv

(* The actions of c and of those that deal with it.                        *)
Acts(c) ==
  \/ NewCustom(c)
  \/ NewCustomPanics(c)
  \/ OnConnect(c)
  \/ Greet(c)
  \/ PoolAdd(c)
  \/ Waited(c)
  \/ PoolRemove(c)
  \/ CloseLoader(c)
  \/ ReadMessage(c)
  \/ SendRequest(c)
  \/ ReadFails(c)
  \/ WriteMessage(c)
  \/ PingFails(c)
  \/ ReaderGone(c)
  \/ HandleCustom(c)
  \/ HandleUpdate(c)
  \/ OnSubscribe(c)
  \/ Callback(c)
  \/ Reply(c)
  \/ CloseConn(c)
  \/ Drain(c)
  \/ Drained(c)
  \/ RemoveAgent(c)
  \/ Done(c)
  \/ Crash(c)
  \/ PeerFails(c)
  \/ \E who \in Senders : StartSend(c, who) \/ FinishSend(c, who)

(* Every step is such an action, or the application's.                     *)
LEMMA Steps == Next => RegisterClientConstructor \/ \E c \in Clients : Acts(c)
BY DEF Next, ServerStep, ReaderStep, LoopStep, Acts

(* Every step keeps the types.                                             *)
LEMMA TypeStep == TypeOK /\ Next => TypeOK'
<1> SUFFICES ASSUME TypeOK, Next PROVE TypeOK'
  OBVIOUS
<1> USE DEF chanVars, customVars, goVars, outVars
<1>0. CASE RegisterClientConstructor
  BY <1>0 DEF TypeOK, RegisterClientConstructor
<1> SUFFICES ASSUME NEW c \in Clients, Acts(c) PROVE TypeOK'
  BY <1>0, Steps
<1>1. CASE NewCustom(c)
  BY <1>1 DEF TypeOK, NewCustom, ServerGoes, ServerState
<1>2. CASE OnConnect(c)
  <2>1. CASE Spend(c, "greet")
    <3>1. budget' \in [Clients -> [Amounts -> Nat]]
      BY <2>1, SpendType DEF Amounts
    <3> QED BY <1>2, <3>1 DEF TypeOK, OnConnect, ServerGoes, ServerState, Amounts
  <2>2. CASE UNCHANGED budget
    BY <1>2, <2>2 DEF TypeOK, OnConnect, ServerGoes, ServerState
  <2> QED BY <1>2, <2>1, <2>2 DEF OnConnect
<1>3. CASE Greet(c)
  <2>1. toWebSocket' \in [Clients -> 0..Buffer] /\ panicked' \in BOOLEAN
    BY <1>3, SendType DEF Greet
  <2> QED BY <1>3, <2>1 DEF TypeOK, Greet, ServerGoes, ServerState
<1>4. CASE PoolAdd(c)
  BY <1>4 DEF TypeOK, PoolAdd, ServerGoes, ServerState
<1>5. CASE Waited(c)
  BY <1>5 DEF TypeOK, Waited, ServerGoes, ServerState
<1>6. CASE PoolRemove(c)
  BY <1>6 DEF TypeOK, PoolRemove, ServerGoes, ServerState
<1>7. CASE CloseLoader(c)
  BY <1>7 DEF TypeOK, CloseLoader
<1>8. CASE ReadMessage(c)
  <2>1. budget' \in [Clients -> [Amounts -> Nat]]
    BY <1>8, SpendType DEF ReadMessage, Amounts
  <2> QED BY <1>8, <2>1 DEF TypeOK, ReadMessage, Request, Amounts
<1>9. CASE SendRequest(c)
  <2>1. Queues'
    BY <1>9, AppendType DEF SendRequest
  <2> QED BY <1>9, <2>1 DEF TypeOK, SendRequest, Request, Queues
<1>10. CASE ReadFails(c)
  BY <1>10 DEF TypeOK, ReadFails
<1>11. CASE WriteMessage(c)
  <2>1. toWebSocket[c] \in 0..Buffer /\ Buffer \in Nat /\ toWebSocket[c] > 0
    BY <1>11, LifecycleAssumption DEF LifecycleAssumption, TypeOK, WriteMessage
  <2>2. toWebSocket[c] - 1 \in 0..Buffer
    BY <2>1
  <2> QED BY <1>11, <2>2 DEF TypeOK, WriteMessage, LoopGoes, LoopState
<1>12. CASE PingFails(c)
  BY <1>12 DEF TypeOK, PingFails, LoopGoes, LoopState
<1>13. CASE ReaderGone(c)
  BY <1>13 DEF TypeOK, ReaderGone, LoopGoes, LoopState
<1>14. CASE HandleCustom(c)
  <2>1. budget' \in [Clients -> [Amounts -> Nat]]
    BY <1>14, ReplyType DEF HandleCustom
  <2>2. Queues'
    BY <1>14, TakeType DEF HandleCustom, Takes
  <2> QED BY <1>14, <2>1, <2>2 DEF TypeOK, HandleCustom, Takes, LoopGoes, LoopState, Queues, Amounts
<1>15. CASE HandleUpdate(c)
  <2>1. Queues'
    BY <1>15, TakeType DEF HandleUpdate, Takes
  <2>2. loop' \in [Clients -> LoopState] /\ agent' \in SUBSET Clients /\ UNCHANGED budget
    BY <1>15 DEF TypeOK, HandleUpdate, Takes, LoopGoes, LoopState
  <2>3. UNCHANGED <<server, customVars, reader, sends, fromClosed, toWebSocket, toClosed,
                    peer, conn, loader, pool, panicked>>
    BY <1>15 DEF HandleUpdate, Takes
  <2> QED BY <2>1, <2>2, <2>3 DEF TypeOK, customVars, Queues
<1>16. CASE OnSubscribe(c)
  <2>1. CASE c \in custom
    <3>1. budget' \in [Clients -> [Amounts -> Nat]]
      BY <1>16, <2>1, ReplyType DEF OnSubscribe
    <3> QED BY <1>16, <2>1, <3>1 DEF TypeOK, OnSubscribe, LoopGoes, LoopState, Amounts
  <2>2. CASE c \notin custom
    BY <1>16, <2>2 DEF TypeOK, OnSubscribe, LoopGoes, LoopState
  <2> QED BY <2>1, <2>2
<1>17. CASE Callback(c)
  <2>1. CASE Spend(c, "reply")
    <3>1. budget' \in [Clients -> [Amounts -> Nat]]
      BY <2>1, SpendType DEF Amounts
    <3> QED BY <1>17, <3>1 DEF TypeOK, Callback, LoopGoes, LoopState, Amounts
  <2>2. CASE UNCHANGED budget
    BY <1>17, <2>2 DEF TypeOK, Callback, LoopGoes, LoopState
  <2> QED BY <1>17, <2>1, <2>2 DEF Callback
<1>18. CASE Reply(c)
  <2>1. toWebSocket' \in [Clients -> 0..Buffer] /\ panicked' \in BOOLEAN
    BY <1>18, SendType DEF Reply
  <2> QED BY <1>18, <2>1 DEF TypeOK, Reply, LoopGoes, LoopState
<1>19. CASE CloseConn(c)
  BY <1>19 DEF TypeOK, CloseConn, LoopGoes, LoopState
<1>20. CASE Drain(c)
  <2>1. Queues'
    BY <1>20, TakeType DEF Drain
  <2> QED BY <1>20, <2>1 DEF TypeOK, Drain, Queues
<1>21. CASE Drained(c)
  BY <1>21 DEF TypeOK, Drained, LoopGoes, LoopState
<1>22. CASE RemoveAgent(c)
  BY <1>22 DEF TypeOK, RemoveAgent, LoopGoes, LoopState
<1>23. CASE Done(c)
  BY <1>23 DEF TypeOK, Done, LoopGoes, LoopState
<1>24. ASSUME NEW who \in Senders, StartSend(c, who) PROVE TypeOK'
  <2>1. budget' \in [Clients -> [Amounts -> Nat]]
    BY <1>24, SpendType DEF StartSend, Amounts, Senders
  <2> QED BY <1>24, <2>1 DEF TypeOK, StartSend, Amounts
<1>25. ASSUME NEW who \in Senders, FinishSend(c, who) PROVE TypeOK'
  <2>1. toWebSocket' \in [Clients -> 0..Buffer] /\ panicked' \in BOOLEAN
    BY <1>25, SendType DEF FinishSend
  <2> QED BY <1>25, <2>1 DEF TypeOK, FinishSend
<1>26. CASE PeerFails(c)
  BY <1>26 DEF TypeOK, PeerFails
<1>27. CASE NewCustomPanics(c)
  BY <1>27 DEF TypeOK, NewCustomPanics, ServerGoes, ServerState
<1>28. CASE Crash(c)
  BY <1>28 DEF TypeOK, Crash
<1> QED
  BY <1>1, <1>2, <1>3, <1>4, <1>5, <1>6, <1>7, <1>8, <1>9, <1>10, <1>11, <1>12, <1>13,
     <1>14, <1>15, <1>16, <1>17, <1>18, <1>19, <1>20, <1>21, <1>22, <1>23, <1>24, <1>25, <1>26, <1>27, <1>28 DEF Acts

(* Every step keeps the goroutines of every client in order.               *)
LEMMA OrderStep == TypeOK /\ Ordered /\ Next => Ordered'
<1> SUFFICES ASSUME TypeOK, Ordered, Next PROVE Ordered'
  OBVIOUS
<1> USE DEF chanVars, customVars, goVars, outVars
<1>0. CASE RegisterClientConstructor
  BY <1>0 DEF Ordered, Order, RegisterClientConstructor
<1> SUFFICES ASSUME NEW c \in Clients, Acts(c) PROVE Ordered'
  BY <1>0, Steps
<1>1. CASE NewCustom(c)
  BY <1>1 DEF TypeOK, Ordered, Order, NewCustom, ServerGoes
<1>2. CASE OnConnect(c)
  BY <1>2 DEF TypeOK, Ordered, Order, OnConnect, ServerGoes, Spend
<1>3. CASE Greet(c)
  BY <1>3 DEF TypeOK, Ordered, Order, Greet, ServerGoes, Send
<1>4. CASE PoolAdd(c)
  BY <1>4 DEF TypeOK, Ordered, Order, PoolAdd, ServerGoes
<1>5. CASE Waited(c)
  BY <1>5 DEF TypeOK, Ordered, Order, Waited, ServerGoes
<1>6. CASE PoolRemove(c)
  BY <1>6 DEF TypeOK, Ordered, Order, PoolRemove, ServerGoes
<1>7. CASE CloseLoader(c)
  BY <1>7 DEF TypeOK, Ordered, Order, CloseLoader
<1>8. CASE ReadMessage(c)
  BY <1>8 DEF TypeOK, Ordered, Order, ReadMessage, Request, Spend
<1>9. CASE SendRequest(c)
  BY <1>9 DEF TypeOK, Ordered, Order, SendRequest, Request
<1>10. CASE ReadFails(c)
  BY <1>10 DEF TypeOK, Ordered, Order, ReadFails
<1>11. CASE WriteMessage(c)
  BY <1>11 DEF TypeOK, Ordered, Order, WriteMessage, LoopGoes
<1>12. CASE PingFails(c)
  BY <1>12 DEF TypeOK, Ordered, Order, PingFails, LoopGoes
<1>13. CASE ReaderGone(c)
  BY <1>13 DEF TypeOK, Ordered, Order, ReaderGone, LoopGoes
<1>14. CASE HandleCustom(c)
  BY <1>14 DEF TypeOK, Ordered, Order, HandleCustom, Takes, LoopGoes, MayReply
<1>15. CASE HandleUpdate(c)
  <2>1. /\ UNCHANGED <<server, fromClosed, reader, toClosed, loader, pool, conn>>
        /\ loop[c] = "select" /\ loop' = [loop EXCEPT ![c] = loop'[c]]
        /\ loop'[c] \in {"select", "subscribed"}
        /\ fromWebSocket' = [fromWebSocket EXCEPT ![c] = Tail(@)]
        /\ \A d \in Clients : d # c => (d \in agent' <=> d \in agent)
    BY <1>15 DEF TypeOK, HandleUpdate, Takes, LoopGoes
  <2> QED BY <2>1 DEF TypeOK, Ordered, Order
<1>16. CASE OnSubscribe(c)
  BY <1>16 DEF TypeOK, Ordered, Order, OnSubscribe, LoopGoes, MayReply
<1>17. CASE Callback(c)
  BY <1>17 DEF TypeOK, Ordered, Order, Callback, LoopGoes, Spend
<1>18. CASE Reply(c)
  BY <1>18 DEF TypeOK, Ordered, Order, Reply, LoopGoes, Send
<1>19. CASE CloseConn(c)
  BY <1>19 DEF TypeOK, Ordered, Order, CloseConn, LoopGoes
<1>20. CASE Drain(c)
  BY <1>20 DEF TypeOK, Ordered, Order, Drain
<1>21. CASE Drained(c)
  BY <1>21 DEF TypeOK, Ordered, Order, Drained, LoopGoes
<1>22. CASE RemoveAgent(c)
  BY <1>22 DEF TypeOK, Ordered, Order, RemoveAgent, LoopGoes
<1>23. CASE Done(c)
  BY <1>23 DEF TypeOK, Ordered, Order, Done, LoopGoes
<1>24. ASSUME NEW who \in Senders, StartSend(c, who) PROVE Ordered'
  BY <1>24 DEF TypeOK, Ordered, Order, StartSend, Spend
<1>25. ASSUME NEW who \in Senders, FinishSend(c, who) PROVE Ordered'
  BY <1>25 DEF TypeOK, Ordered, Order, FinishSend, Send
<1>26. CASE PeerFails(c)
  BY <1>26 DEF TypeOK, Ordered, Order, PeerFails
<1>27. CASE NewCustomPanics(c)
  BY <1>27 DEF TypeOK, Ordered, Order, NewCustomPanics, ServerGoes
<1>28. CASE Crash(c)
  BY <1>28 DEF Ordered, Order, Crash
<1> QED
  BY <1>1, <1>2, <1>3, <1>4, <1>5, <1>6, <1>7, <1>8, <1>9, <1>10, <1>11, <1>12, <1>13,
     <1>14, <1>15, <1>16, <1>17, <1>18, <1>19, <1>20, <1>21, <1>22, <1>23, <1>24, <1>25, <1>26, <1>27, <1>28 DEF Acts

(* A step that changes nothing keeps the invariant.                        *)
LEMMA Stutter == IInv /\ UNCHANGED vars => IInv'
BY DEF IInv, TypeOK, Ordered, Order, vars, chanVars, customVars, goVars, outVars

-----------------------------------------------------------------------------
(* The invariant holds in every reachable state.                           *)
THEOREM Invariance == Spec => []IInv
<1>1. IInv /\ [Next]_vars => IInv'
  BY TypeStep, OrderStep, Stutter DEF IInv
<1> QED BY InitIInv, <1>1, PTL DEF Spec

(* Every variable keeps its type, and both channels of a client keep       *)
(* within their capacity (Client.go, clientBufferLength).                  *)
THEOREM TypeCorrect == Spec => []TypeOK
<1>1. IInv => TypeOK
  BY DEF IInv
<1> QED BY Invariance, <1>1, PTL

(* When Close removes the agent, no request can come any more (Client.go). *)
THEOREM NoLateRequest == Spec => []ReaderFirst
<1>1. IInv => ReaderFirst
  BY DEF IInv, Ordered, Order, ReaderFirst
<1> QED BY Invariance, <1>1, PTL

(* The pool closes toWebSocket, and the Loader is closed, after the main   *)
(* loop has ended and left the redis connection (Client.go, Handler.go).   *)
THEOREM ClosingOrder == Spec => []ClosedLast
<1>1. IInv => ClosedLast
  BY DEF IInv, Ordered, Order, ClosedLast
<1> QED BY Invariance, <1>1, PTL
=============================================================================
