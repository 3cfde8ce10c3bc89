----------------------------- MODULE SynkClient -----------------------------
(***************************************************************************)
(* synkClient (Client.go) as far as it synchronises a browser: Receive, in *)
(* the goroutine of the redis connection, filters messages into the        *)
(* bounded toWebSocket channel; the main loop forwards them to the         *)
(* websocket and handles the browser's requests, writing the objects a     *)
(* request loads straight to the websocket.                                *)
(*                                                                         *)
(* updateSubscription takes a step for each shared thing it touches: the   *)
(* subscriptions map (read by Receive without a lock), the agents, the     *)
(* database, the websocket.                                                *)
(***************************************************************************)
EXTENDS MongoSynk, Browser

CONSTANT Buffer     \* capacity of toWebSocket (clientBufferLength, 64)

ASSUME BufferAssumption == Buffer \in Nat \ {0}

VARIABLES
  subscriptions,   \* subscriptions[c]: the keys of the client's map
  toWebSocket,     \* toWebSocket[c]: buffered messages for the browser
  fromWebSocket,   \* fromWebSocket[c]: requests read, not yet handled
  loop,            \* loop[c]: where the main loop is
  req,             \* req[c]: the request being handled
  objs,            \* objs[c]: the documents loaded for it
  alive            \* FALSE once the Go runtime has aborted the process

clientVars == <<subscriptions, toWebSocket, fromWebSocket, loop, req, objs, alive>>

LoopState == {"select", "remove", "add", "agents", "load", "write"}

NoRequest == [add |-> {}, remove |-> {}]
NoObjs == [o \in Objects |-> NoDoc]

ClientInit(held) ==
  /\ subscriptions = held
  /\ toWebSocket = [c \in Clients |-> <<>>]
  /\ fromWebSocket = [c \in Clients |-> <<>>]
  /\ loop = [c \in Clients |-> "select"]
  /\ req = [c \in Clients |-> NoRequest]
  /\ objs = [c \in Clients |-> NoObjs]
  /\ alive = TRUE

ClientTypeOK ==
  /\ subscriptions \in [Clients -> SUBSET Keys]
  /\ toWebSocket \in [Clients -> Seq(Msg)]
  /\ \A c \in Clients : Len(toWebSocket[c]) <= Buffer
  /\ fromWebSocket \in [Clients -> Seq(Request)]
  /\ loop \in [Clients -> LoopState]
  /\ req \in [Clients -> Request]
  /\ objs \in [Clients -> [Objects -> Doc \cup {NoDoc}]]
  /\ alive \in BOOLEAN

-----------------------------------------------------------------------------
(* Faulty variants of definitions below: each is a slip the checks must    *)
(* find.                                                                   *)

(* The objects are loaded and written before the agents are updated.       *)
LoadFirst(c, from, to) ==
  LET next == CASE from = "add" /\ req[c].add # {} -> "load"
                [] from = "write"  -> "agents"
                [] from = "agents" -> "select"
                [] OTHER           -> to
  IN  loop[c] = from /\ loop' = [loop EXCEPT ![c] = next]

(* The main loop of c goes from one place to the next.                     *)
Goto(c, from, to) == loop[c] = from /\ loop' = [loop EXCEPT ![c] = to]

(* The filter looks at the key the object moves to.                        *)
FilteredAtTarget(c, m) == m.from # NoKey /\ m.skey \in subscriptions[c]

(* A full buffer loses the message, as in ClientPool.run's broadcast.      *)
EnqueueOrDrop(c) ==
  /\ c \in sending
  /\ toWebSocket' = [toWebSocket EXCEPT ![c] =
                       IF Len(@) < Buffer THEN Append(@, Head(wire)) ELSE @]
  /\ sending' = {}
  /\ Handed(c)
  /\ UNCHANGED <<agents, subscriptions, fromWebSocket, loop, req, objs, alive>>

(* The buffer is taken to have no bound.                                   *)
EnqueueUnbounded(c) ==
  /\ c \in sending
  /\ toWebSocket' = [toWebSocket EXCEPT ![c] = Append(@, Head(wire))]
  /\ sending' = {}
  /\ Handed(c)
  /\ UNCHANGED <<agents, subscriptions, fromWebSocket, loop, req, objs, alive>>

(* Loaded objects go through toWebSocket, and the main loop, which alone   *)
(* empties it, waits for room.                                             *)
WriteObjectsQueued(c) ==
  LET found == {o \in Objects : objs[c][o] # NoDoc}
  IN  /\ Goto(c, "write", "select")
      /\ IF found = {} THEN UNCHANGED toWebSocket
         ELSE \E o \in found :
                /\ Len(toWebSocket[c]) < Buffer
                /\ toWebSocket' = [toWebSocket EXCEPT ![c] =
                     Append(@, AddMsg(o, objs[c][o].key, NoKey, objs[c][o].v))]
      /\ objs' = [objs EXCEPT ![c] = NoObjs]
      /\ UNCHANGED <<view, subscriptions, fromWebSocket, req, alive>>

-----------------------------------------------------------------------------
(* Receive.                                                                *)

(* A client subscribed to the key an object comes from is told of the move *)
(* by the mod message there and does not need the add message.             *)
Filtered(c, m) == m.from # NoKey /\ m.from \in subscriptions[c]

(* Receive drops the message, or goes on to the channel send.              *)
Receive(c) ==
  /\ c \in todo
  /\ sending = {}
  /\ \/ /\ Filtered(c, Head(wire))
        /\ Handed(c)
        /\ UNCHANGED sending
     \/ /\ ~ Filtered(c, Head(wire))
        /\ sending' = {c}
        /\ UNCHANGED <<todo, wire>>
  /\ UNCHANGED <<agents, clientVars>>

(* The send blocks while the buffer is full, and every other client of the *)
(* node with it.                                                           *)
Enqueue(c) ==
  /\ c \in sending
  /\ Len(toWebSocket[c]) < Buffer
  /\ toWebSocket' = [toWebSocket EXCEPT ![c] = Append(@, Head(wire))]
  /\ sending' = {}
  /\ Handed(c)
  /\ UNCHANGED <<agents, subscriptions, fromWebSocket, loop, req, objs, alive>>

-----------------------------------------------------------------------------
(* The main loop.                                                          *)

(* case message := <-client.toWebSocket                                    *)
Forward(c) ==
  /\ loop[c] = "select"
  /\ toWebSocket[c] # <<>>
  /\ Receives(c, Head(toWebSocket[c]))
  /\ toWebSocket' = [toWebSocket EXCEPT ![c] = Tail(@)]
  /\ UNCHANGED <<subscriptions, fromWebSocket, loop, req, objs, alive>>

(* case message := <-client.fromWebSocket                                  *)
HandleMessage(c) ==
  /\ fromWebSocket[c] # <<>>
  /\ Goto(c, "select", "remove")
  /\ req' = [req EXCEPT ![c] = Head(fromWebSocket[c])]
  /\ fromWebSocket' = [fromWebSocket EXCEPT ![c] = Tail(@)]
  /\ UNCHANGED <<subscriptions, toWebSocket, objs, alive>>

RemoveKeys(c) ==
  /\ Goto(c, "remove", "add")
  /\ subscriptions' = [subscriptions EXCEPT ![c] = @ \ req[c].remove]
  /\ UNCHANGED <<toWebSocket, fromWebSocket, req, objs, alive>>

AddKeys(c) ==
  /\ Goto(c, "add", "agents")
  /\ subscriptions' = [subscriptions EXCEPT ![c] = @ \cup req[c].add]
  /\ UNCHANGED <<toWebSocket, fromWebSocket, req, objs, alive>>

UpdateAgents(c) ==
  /\ Goto(c, "agents", IF req[c].add = {} THEN "select" ELSE "load")
  /\ UpdateChannels(c, req[c].add, req[c].remove)
  /\ UNCHANGED <<subscriptions, toWebSocket, fromWebSocket, req, objs, alive>>

LoadObjects(c) ==
  /\ Goto(c, "load", "write")
  /\ objs' = [objs EXCEPT ![c] = Load(req[c].add)]
  /\ UNCHANGED <<subscriptions, toWebSocket, fromWebSocket, req, alive>>

(* Straight to the websocket, ahead of everything in toWebSocket.          *)
WriteObjects(c) ==
  /\ Goto(c, "write", "select")
  /\ ReceivesAll(c, objs[c])
  /\ objs' = [objs EXCEPT ![c] = NoObjs]
  /\ UNCHANGED <<subscriptions, toWebSocket, fromWebSocket, req, alive>>

-----------------------------------------------------------------------------
(* Receive reads the subscriptions map while the main loop writes it.      *)
MapRace(c) ==
  /\ c \in todo /\ sending = {} /\ Head(wire).from # NoKey
  /\ \/ loop[c] = "remove" /\ req[c].remove # {}
     \/ loop[c] = "add" /\ req[c].add # {}

(* Unsynchronised, the read returns the old or the new value (the steps    *)
(* above, in either order), or the runtime aborts: "concurrent map read    *)
(* and map write".                                                         *)
MapFatal(c) ==
  /\ MapRace(c)
  /\ alive' = FALSE
  /\ UNCHANGED <<busVars, subscriptions, toWebSocket, fromWebSocket, loop, req, objs>>
=============================================================================
