------------------------------- MODULE PubSub -------------------------------
(***************************************************************************)
(* Redis pub/sub and pubsub.RedisAgents, one node's share of it.  Neither  *)
(* is part of the repository; they are modelled from how it uses them:     *)
(*  - the node has ONE redis connection, NewRedisAgents(DialRedis()), on   *)
(*    which redis delivers what is published on the channels its agents    *)
(*    subscribe to, in the order of publication;                           *)
(*  - RedisAgents.Update(agent, add, remove) changes an agent's channels   *)
(*    and returns once the subscription is in effect: updateSubscription   *)
(*    goes on to load and write "the current state" on that ground;        *)
(*  - one goroutine reads the connection and hands each message to the     *)
(*    agents of its channel, one Receive call after the other;             *)
(*  - neither Update nor RemoveAgent waits for a Receive in progress: an   *)
(*    agent leaves its channels while its last message is being handed out.*)
(***************************************************************************)
EXTENDS SynkObject

CONSTANT Clients      \* the synkClients of the node

VARIABLES
  agents,     \* agents[c]: the channels client c is subscribed to
  wire,       \* messages on the node's connection; the head is being handed out
  todo,       \* clients the head of wire must still be handed to
  sending     \* the client (at most one) whose Receive is at its channel send

busVars == <<agents, wire, todo, sending>>

BusInit(held) ==
  /\ agents = held
  /\ wire = <<>>
  /\ todo = {}
  /\ sending = {}

BusTypeOK ==
  /\ agents \in [Clients -> SUBSET Keys]
  /\ wire \in Seq(Msg)
  /\ todo \in SUBSET Clients
  /\ sending \in SUBSET Clients

-----------------------------------------------------------------------------
Subscribers(m) == {c \in Clients : m.skey \in agents[c]}

(* PUBLISH: redis forwards a message only to connections subscribed to its *)
(* channel at that moment, and keeps nothing.                              *)
Published(m) == IF Subscribers(m) # {} THEN Append(wire, m) ELSE wire

UpdateChannels(c, add, remove) ==
  agents' = [agents EXCEPT ![c] = (@ \ remove) \cup add]

(* The reading goroutine takes up the next message.  Its agents are looked *)
(* up now: one subscribed since the message was published is served too.   *)
Dispatch ==
  /\ todo = {}
  /\ wire # <<>>
  /\ todo' = Subscribers(Head(wire))
  /\ wire' = IF Subscribers(Head(wire)) = {} THEN Tail(wire) ELSE wire
  /\ UNCHANGED <<agents, sending>>

(* Client c's Receive returns; after the last agent the message is gone.   *)
Handed(c) ==
  /\ todo' = todo \ {c}
  /\ wire' = IF todo = {c} THEN Tail(wire) ELSE wire
=============================================================================
