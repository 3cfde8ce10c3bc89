-------------------------- MODULE ClientLifecycle ---------------------------
(***************************************************************************)
(* The life of the synkClients of a node, from ServeHTTP (Handler.go)      *)
(* through newClient, the main loop, the reader and Close (Client.go) to   *)
(* ClientPool.run (ClientPool.go) closing the channel.  Five goroutines    *)
(* meet over each client: ServeHTTP's, the main loop, the reader, the one  *)
(* that closes the Loader, and the pool's; besides them the redis          *)
(* connection's goroutine calls Receive, and the application's own may     *)
(* call WriteToWebSocket at any time.                                      *)
(*                                                                         *)
(* newClient calls the constructor the application has registered with the *)
(* Node (Node.go); a browser may connect before it has.  A panic in the    *)
(* goroutine of ServeHTTP is recovered by net/http, in any other it ends   *)
(* the process.                                                            *)
(*                                                                         *)
(* What messages say is left out (SynkNode is about that); what counts     *)
(* here is which goroutine waits for which, and what is closed when.       *)
(***************************************************************************)
EXTENDS Naturals, Sequences

CONSTANTS Clients,
          Buffer,        \* capacity of both channels (clientBufferLength, 64)
          MaxRequests,   \* bound on the messages a browser sends
          MaxWrites,     \* bound on the writes of the application's goroutines
          MaxGreetings,  \* messages OnConnect may write
          MaxReplies,    \* messages an OnMessage or OnSubscribe may write
          MaxDeliveries  \* bound on the Receive calls for a client

ASSUME LifecycleAssumption ==
  /\ Buffer \in Nat \ {0}
  /\ {MaxRequests, MaxWrites, MaxGreetings, MaxReplies, MaxDeliveries} \subseteq Nat

VARIABLES
  newClient,      \* TRUE once Node.newClient, the ClientConstructor, is set
  server,         \* server[c]: where ServeHTTP (newClient included) is
  custom,         \* clients whose custom member is set
  doomed,         \* clients whose main loop has panicked and calls what it deferred
  loop,           \* loop[c]: where the main loop is
  reader,         \* reader[c]: where startReadingFromWebSocket is
  peer,           \* peer[c]: the browser
  conn,           \* clients whose wsConn is open
  fromWebSocket,  \* fromWebSocket[c]: buffered requests
  fromClosed,     \* clients whose fromWebSocket is closed
  toWebSocket,    \* toWebSocket[c]: how many messages are buffered
  toClosed,       \* clients whose toWebSocket is closed
  agent,          \* clients that are subscribed to some channel
  loader,         \* clients whose Loader is open
  pool,           \* ClientPool.all
  sends,          \* sends[c]: goroutines at a send to toWebSocket, but the main loop
  budget,         \* budget[c]: what the bounds leave of requests, writes, ...
  panicked        \* TRUE once a goroutine has panicked, and the process ended

chanVars == <<fromWebSocket, fromClosed, toWebSocket, toClosed>>
customVars == <<newClient, custom, doomed>>
goVars == <<customVars, server, loop, reader, sends, budget>>
outVars == <<peer, conn, agent, loader, pool, panicked>>
vars == <<chanVars, goVars, outVars>>

ServerState == {"construct", "greet", "greeting", "add", "wait", "remove", "end"}
LoopState == {"select", "subscribed", "callback", "reply",
              "close", "drain", "unsubscribe", "done", "end"}
Request == {"add", "remove", "custom"}
Senders == {"redis", "app"}

Init ==
  /\ newClient = FALSE
  /\ server = [c \in Clients |-> "construct"]
  /\ custom = {}
  /\ doomed = {}
  /\ loop = [c \in Clients |-> "select"]
  /\ reader = [c \in Clients |-> "read"]
  /\ peer = [c \in Clients |-> "live"]
  /\ conn = Clients
  /\ fromWebSocket = [c \in Clients |-> <<>>]
  /\ fromClosed = {}
  /\ toWebSocket = [c \in Clients |-> 0]
  /\ toClosed = {}
  /\ agent = {}
  /\ loader = Clients
  /\ pool = {}
  /\ sends = [c \in Clients |-> {}]
  /\ budget = [c \in Clients |-> [request |-> MaxRequests, app |-> MaxWrites,
                 greet |-> MaxGreetings, reply |-> 0, redis |-> MaxDeliveries]]
  /\ panicked = FALSE

(* Every variable has its type; the buffers keep within their capacity.    *)
TypeOK ==
  /\ newClient \in BOOLEAN
  /\ server \in [Clients -> ServerState]
  /\ custom \in SUBSET Clients
  /\ doomed \in SUBSET Clients
  /\ loop \in [Clients -> LoopState]
  /\ reader \in [Clients -> {"read", "end"} \cup Request]
  /\ peer \in [Clients -> {"live", "gone"}]
  /\ conn \in SUBSET Clients
  /\ fromWebSocket \in [Clients -> Seq(Request)]
  /\ \A c \in Clients : Len(fromWebSocket[c]) <= Buffer
  /\ fromClosed \in SUBSET Clients
  /\ toWebSocket \in [Clients -> 0..Buffer]
  /\ toClosed \in SUBSET Clients
  /\ agent \in SUBSET Clients
  /\ loader \in SUBSET Clients
  /\ pool \in SUBSET Clients
  /\ sends \in [Clients -> SUBSET Senders]
  /\ budget \in [Clients -> [{"request", "app", "greet", "reply", "redis"} -> Nat]]
  /\ panicked \in BOOLEAN

-----------------------------------------------------------------------------
ServerGoes(c, from, to) ==
  server[c] = from /\ server' = [server EXCEPT ![c] = to]

LoopGoes(c, from, to) == loop[c] = from /\ loop' = [loop EXCEPT ![c] = to]

Spend(c, what) ==
  budget[c][what] > 0 /\ budget' = [budget EXCEPT ![c][what] = @ - 1]

(* A send to toWebSocket waits for room and panics on a closed channel.    *)
Send(c) ==
  \/ /\ c \in toClosed
     /\ panicked' = TRUE
     /\ UNCHANGED toWebSocket
  \/ /\ c \notin toClosed
     /\ toWebSocket[c] < Buffer
     /\ toWebSocket' = [toWebSocket EXCEPT ![c] = @ + 1]
     /\ UNCHANGED panicked

(* Faulty variants of actions below: each is a slip the checks must find.  *)

(* waitGroup.Add comes too late for Wait to wait.                          *)
WaitedForNothing(c) ==
  /\ ServerGoes(c, "wait", "remove")
  /\ UNCHANGED <<chanVars, outVars, customVars, loop, reader, sends, budget>>

(* The pool leaves toWebSocket open, so that no sender can panic.          *)
NotClosed(c) ==
  /\ ServerGoes(c, "remove", "end")
  /\ pool' = pool \ {c}
  /\ UNCHANGED <<chanVars, customVars, loop, reader, sends, budget,
                 peer, conn, agent, loader, panicked>>

(* The buffer of fromWebSocket is taken to have no bound.                  *)
SendRequestUnbounded(c) ==
  /\ reader[c] \in Request
  /\ fromWebSocket' = [fromWebSocket EXCEPT ![c] = Append(@, reader[c])]
  /\ reader' = [reader EXCEPT ![c] = "read"]
  /\ UNCHANGED <<outVars, server, customVars, loop, sends, budget, fromClosed, toWebSocket, toClosed>>

(* Close does not take requests off fromWebSocket while it waits.          *)
DrainNothing(c) == FALSE

(* Close goes on as soon as fromWebSocket is empty.                        *)
DrainedTooSoon(c) ==
  /\ fromWebSocket[c] = <<>>
  /\ LoopGoes(c, "drain", "unsubscribe")
  /\ UNCHANGED <<chanVars, outVars, server, customVars, reader, sends, budget>>

-----------------------------------------------------------------------------
(* ServeHTTP.                                                              *)

(* The application registers how to make custom clients.  A second time is *)
(* a panic.                                                                *)
RegisterClientConstructor ==
  /\ newClient' = TRUE
  /\ panicked' = newClient
  /\ UNCHANGED <<chanVars, server, custom, doomed, loop, reader, sends, budget,
                 peer, conn, agent, loader, pool>>

(* newClient: the goroutines run already when custom is set.               *)
NewCustom(c) ==
  /\ newClient
  /\ ServerGoes(c, "construct", "greet")
  /\ custom' = custom \cup {c}
  /\ UNCHANGED <<newClient, doomed, chanVars, outVars, loop, reader, sends, budget>>

(* There is nothing to call: ServeHTTP ends, and the goroutines that were  *)
(* started go on with a client that is in no pool.                         *)
NewCustomPanics(c) ==
  /\ ~ newClient
  /\ ServerGoes(c, "construct", "end")
  /\ UNCHANGED <<chanVars, outVars, customVars, loop, reader, sends, budget>>

(* OnConnect may write to the client, and returns.                         *)
OnConnect(c) ==
  \/ /\ ServerGoes(c, "greet", "greeting")
     /\ Spend(c, "greet")
     /\ UNCHANGED <<chanVars, outVars, customVars, loop, reader, sends>>
  \/ /\ ServerGoes(c, "greet", "add")
     /\ UNCHANGED <<chanVars, outVars, customVars, loop, reader, sends, budget>>

Greet(c) ==
  /\ ServerGoes(c, "greeting", "greet")
  /\ Send(c)
  /\ UNCHANGED <<customVars, loop, reader, sends, budget, fromWebSocket, fromClosed, toClosed,
                 peer, conn, agent, loader, pool>>

PoolAdd(c) ==
  /\ ServerGoes(c, "add", "wait")
  /\ pool' = pool \cup {c}
  /\ UNCHANGED <<chanVars, customVars, loop, reader, sends, budget,
                 peer, conn, agent, loader, panicked>>

(* waitGroup.Wait                                                          *)
Waited(c) ==
  /\ loop[c] = "end"
  /\ ServerGoes(c, "wait", "remove")
  /\ UNCHANGED <<chanVars, outVars, customVars, loop, reader, sends, budget>>

PoolRemove(c) ==
  /\ ServerGoes(c, "remove", "end")
  /\ toClosed' = toClosed \cup ({c} \cap pool)
  /\ pool' = pool \ {c}
  /\ UNCHANGED <<customVars, loop, reader, sends, budget, fromWebSocket, fromClosed, toWebSocket,
                 peer, conn, agent, loader, panicked>>

(* The goroutine newClient starts to wait on waitGroup as well.            *)
CloseLoader(c) ==
  /\ loop[c] = "end" /\ c \in loader
  /\ loader' = loader \ {c}
  /\ UNCHANGED <<chanVars, goVars, peer, conn, agent, pool, panicked>>

-----------------------------------------------------------------------------
(* startReadingFromWebSocket.                                              *)

(* A request is read, if need be from what arrived before the connection   *)
(* was closed, and parsed.                                                 *)
ReadMessage(c) ==
  /\ reader[c] = "read"
  /\ Spend(c, "request")
  /\ \E r \in Request : reader' = [reader EXCEPT ![c] = r]
  /\ UNCHANGED <<chanVars, outVars, server, customVars, loop, sends>>

SendRequest(c) ==
  /\ reader[c] \in Request
  /\ Len(fromWebSocket[c]) < Buffer
  /\ fromWebSocket' = [fromWebSocket EXCEPT ![c] = Append(@, reader[c])]
  /\ reader' = [reader EXCEPT ![c] = "read"]
  /\ UNCHANGED <<outVars, server, customVars, loop, sends, budget, fromClosed, toWebSocket, toClosed>>

ReadFails(c) ==
  /\ reader[c] = "read"
  /\ c \notin conn \/ peer[c] = "gone"
  /\ reader' = [reader EXCEPT ![c] = "end"]
  /\ fromClosed' = fromClosed \cup {c}
  /\ UNCHANGED <<outVars, server, customVars, loop, sends, budget, fromWebSocket, toWebSocket, toClosed>>

-----------------------------------------------------------------------------
(* startMainLoop.  The case of a closed toWebSocket is left out: ClosedLast *)
(* says it never arises while the loop runs.                               *)

(* A buffered message is written; a write to a browser that has gone fails *)
(* or, for a while, does not.                                              *)
WriteMessage(c) ==
  /\ toWebSocket[c] > 0
  /\ toWebSocket' = [toWebSocket EXCEPT ![c] = @ - 1]
  /\ \/ LoopGoes(c, "select", "select")
     \/ peer[c] = "gone" /\ LoopGoes(c, "select", "close")
  /\ UNCHANGED <<outVars, server, customVars, reader, sends, budget, fromWebSocket, fromClosed, toClosed>>

(* A ping is written.  Nothing waits for the pong.                         *)
PingFails(c) ==
  /\ peer[c] = "gone"
  /\ LoopGoes(c, "select", "close")
  /\ UNCHANGED <<chanVars, outVars, server, customVars, reader, sends, budget>>

(* The next request of c is r; the main loop goes on at the place next.    *)
Takes(c, r, next) ==
  /\ fromWebSocket[c] # <<>>
  /\ Head(fromWebSocket[c]) = r
  /\ LoopGoes(c, "select", next)
  /\ fromWebSocket' = [fromWebSocket EXCEPT ![c] = Tail(@)]
  /\ UNCHANGED <<server, customVars, reader, sends, fromClosed, toWebSocket, toClosed,
                 peer, conn, loader, pool, panicked>>

MayReply(c) == budget' = [budget EXCEPT ![c]["reply"] = MaxReplies]

(* handleMessage of a custom message: OnMessage, if there is a custom.     *)
HandleCustom(c) ==
  /\ Takes(c, "custom", IF c \in custom THEN "callback" ELSE "select")
  /\ MayReply(c)
  /\ UNCHANGED agent

(* updateSubscription up to the call of OnSubscribe; a request that adds   *)
(* no keys ends there.                                                     *)
HandleUpdate(c) ==
  \/ /\ Takes(c, "add", "subscribed")
     /\ agent' = agent \cup {c}
     /\ UNCHANGED budget
  \/ /\ Takes(c, "remove", "select")
     /\ agent' \in {agent, agent \ {c}}
     /\ UNCHANGED budget

(* client.custom.OnSubscribe, without a look at custom.  If it is nil the   *)
(* main loop panics, and Close, which it has deferred, comes first.        *)
OnSubscribe(c) ==
  /\ UNCHANGED <<chanVars, outVars, server, newClient, custom, reader, sends>>
  /\ \/ /\ c \in custom
        /\ LoopGoes(c, "subscribed", "callback")
        /\ MayReply(c)
        /\ UNCHANGED doomed
     \/ /\ c \notin custom
        /\ LoopGoes(c, "subscribed", "close")
        /\ doomed' = doomed \cup {c}
        /\ UNCHANGED budget

(* OnMessage or OnSubscribe, in the main loop, may write to the client,    *)
(* and returns.                                                            *)
Callback(c) ==
  \/ /\ LoopGoes(c, "callback", "reply")
     /\ Spend(c, "reply")
     /\ UNCHANGED <<chanVars, outVars, server, customVars, reader, sends>>
  \/ /\ LoopGoes(c, "callback", "select")
     /\ UNCHANGED <<chanVars, outVars, server, customVars, reader, sends, budget>>

Reply(c) ==
  /\ LoopGoes(c, "reply", "callback")
  /\ Send(c)
  /\ UNCHANGED <<server, customVars, reader, sends, budget, fromWebSocket, fromClosed, toClosed,
                 peer, conn, agent, loader, pool>>

(* The reader has closed fromWebSocket and all of it is handled.           *)
ReaderGone(c) ==
  /\ fromWebSocket[c] = <<>> /\ c \in fromClosed
  /\ LoopGoes(c, "select", "close")
  /\ UNCHANGED <<chanVars, outVars, server, customVars, reader, sends, budget>>

-----------------------------------------------------------------------------
(* Close.  Only the main loop calls it, when it returns or panics.         *)

CloseConn(c) ==
  /\ LoopGoes(c, "close", "drain")
  /\ conn' = conn \ {c}
  /\ UNCHANGED <<chanVars, server, customVars, reader, sends, budget, peer, agent, loader, pool, panicked>>

(* Requests still buffered are thrown away; the reader may be waiting for  *)
(* room.                                                                   *)
Drain(c) ==
  /\ loop[c] = "drain"
  /\ fromWebSocket[c] # <<>>
  /\ fromWebSocket' = [fromWebSocket EXCEPT ![c] = Tail(@)]
  /\ UNCHANGED <<goVars, outVars, fromClosed, toWebSocket, toClosed>>

Drained(c) ==
  /\ fromWebSocket[c] = <<>> /\ c \in fromClosed
  /\ LoopGoes(c, "drain", "unsubscribe")
  /\ UNCHANGED <<chanVars, outVars, server, customVars, reader, sends, budget>>

RemoveAgent(c) ==
  /\ LoopGoes(c, "unsubscribe", "done")
  /\ agent' = agent \ {c}
  /\ UNCHANGED <<chanVars, server, customVars, reader, sends, budget, peer, conn, loader, pool, panicked>>

(* waitGroup.Done                                                          *)
Done(c) ==
  /\ LoopGoes(c, "done", "end")
  /\ UNCHANGED <<chanVars, outVars, server, customVars, reader, sends, budget>>

(* Nobody recovers the panic of a main loop.                               *)
Crash(c) ==
  /\ c \in doomed /\ loop[c] = "end"
  /\ panicked' = TRUE
  /\ UNCHANGED <<chanVars, goVars, peer, conn, agent, loader, pool>>

-----------------------------------------------------------------------------
(* The callers of Receive and WriteToWebSocket.                            *)

(* The redis connection's one goroutine takes up a message for c; a        *)
(* goroutine of the application, which got the client in OnConnect or      *)
(* before, writes to it.                                                   *)
StartSend(c, who) ==
  /\ IF who = "redis"
       THEN c \in agent /\ \A d \in Clients : "redis" \notin sends[d]
       ELSE c \in custom /\ "app" \notin sends[c]
  /\ Spend(c, who)
  /\ sends' = [sends EXCEPT ![c] = @ \cup {who}]
  /\ UNCHANGED <<chanVars, outVars, server, customVars, loop, reader>>

FinishSend(c, who) ==
  /\ who \in sends[c]
  /\ Send(c)
  /\ sends' = [sends EXCEPT ![c] = @ \ {who}]
  /\ UNCHANGED <<server, customVars, loop, reader, budget, fromWebSocket, fromClosed, toClosed,
                 peer, conn, agent, loader, pool>>

(* The browser goes away.                                                  *)
PeerFails(c) ==
  /\ peer[c] = "live"
  /\ peer' = [peer EXCEPT ![c] = "gone"]
  /\ UNCHANGED <<chanVars, goVars, conn, agent, loader, pool, panicked>>

-----------------------------------------------------------------------------
ServerStep(c) == NewCustom(c) \/ NewCustomPanics(c) \/ OnConnect(c) \/ Greet(c) \/ PoolAdd(c)
                 \/ Waited(c) \/ PoolRemove(c)

ReaderStep(c) == SendRequest(c) \/ ReadFails(c)

LoopStep(c) ==
  \/ WriteMessage(c) \/ PingFails(c) \/ ReaderGone(c)
  \/ HandleCustom(c) \/ HandleUpdate(c) \/ OnSubscribe(c) \/ Callback(c) \/ Reply(c)
  \/ CloseConn(c) \/ Drain(c) \/ Drained(c) \/ RemoveAgent(c) \/ Done(c) \/ Crash(c)

Next ==
  /\ ~ panicked
  /\ \/ RegisterClientConstructor
     \/ \E c \in Clients :
       \/ ServerStep(c) \/ CloseLoader(c)
       \/ ReadMessage(c) \/ ReaderStep(c)
       \/ LoopStep(c)
       \/ \E who \in Senders : StartSend(c, who) \/ FinishSend(c, who)
       \/ PeerFails(c)

Spec == Init /\ [][Next]_vars

(* The Go scheduler runs every goroutine that can go on, and the ticker    *)
(* keeps the main loop pinging.  Nobody has to send, write or go away.      *)
Fairness ==
  \A c \in Clients :
    /\ WF_vars(~ panicked /\ ServerStep(c))
    /\ WF_vars(~ panicked /\ CloseLoader(c))
    /\ WF_vars(~ panicked /\ ReaderStep(c))
    /\ WF_vars(~ panicked /\ LoopStep(c))
    /\ \A who \in Senders : WF_vars(~ panicked /\ FinishSend(c, who))

FairSpec == Spec /\ Fairness

-----------------------------------------------------------------------------
(* Things are closed in the right order across the goroutines: the pool    *)
(* closes toWebSocket, and the Loader is closed, only when the main loop   *)
(* can no longer use them; by then the client is off the redis connection  *)
(* and out of the pool (Client.go, Close; Handler.go).                     *)
ClosedLast ==
  \A c \in Clients :
    /\ c \in toClosed \/ c \notin loader => loop[c] = "end"
    /\ loop[c] \in {"done", "end"} => c \notin agent /\ c \notin conn
    /\ c \in toClosed => c \notin pool

(* When Close removes the agent, no request can come any more that would   *)
(* subscribe the client again (Client.go: "Once the fromWebSocket channel  *)
(* is closed, we are gauranteed not to get an pub/sub requests").          *)
ReaderFirst ==
  \A c \in Clients :
    loop[c] \in {"unsubscribe", "done", "end"} =>
      reader[c] = "end" /\ fromWebSocket[c] = <<>>

(* Nothing is left of client c but the garbage.                            *)
TornDown(c) ==
  /\ server[c] = "end" /\ reader[c] = "end" /\ loop[c] = "end"
  /\ c \notin conn \cup agent \cup loader

(* A callback waits for room in toWebSocket.                               *)
CallbackWaits(c) == loop[c] = "reply" \/ server[c] = "greeting"

(* A browser that goes away takes everything made for it along (Client.go: *)
(* Close "tears down client resources, and stops client goroutines"): the  *)
(* reader, even one waiting for room, the main loop, the subscription, the *)
(* Loader, ServeHTTP.  Only a callback that waits for room for good can    *)
(* prevent it.                                                             *)
ComesDown ==
  \A c \in Clients :
    peer[c] = "gone" ~> panicked \/ TornDown(c) \/ []CallbackWaits(c)

(* The redis connection's goroutine, which serves every client of the      *)
(* node, is not left waiting for room in the channel of a client whose     *)
(* main loop is gone (Client.go, Receive), except behind a callback that   *)
(* waits there for good: either the message fits, or the pool closes the   *)
(* channel and the process ends.                                           *)
RedisGoesOn ==
  \A c \in Clients :
    "redis" \in sends[c] ~> panicked \/ "redis" \notin sends[c] \/ []CallbackWaits(c)

(* toWebSocket is open as long as anybody is sending to it (Client.go:     *)
(* "safe to send messages here concurrently").                             *)
SendsToOpenChannel == \A c \in Clients : sends[c] # {} => c \notin toClosed

(* The main loop never waits for itself to empty toWebSocket (Client.go:   *)
(* "We are inside the startMainLoop() function in the call stack, so we    *)
(* must be absolutely sure that we do not block").                         *)
NeverBlocksItself ==
  \A c \in Clients : loop[c] = "reply" => toWebSocket[c] < Buffer

(* OnSubscribe is called on a custom client that is there.                 *)
CustomIsSet == \A c \in Clients : loop[c] = "subscribed" => c \in custom
=============================================================================
