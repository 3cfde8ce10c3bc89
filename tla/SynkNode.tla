------------------------------ MODULE SynkNode ------------------------------
(***************************************************************************)
(* A synk node at work: mutators changing objects (MongoSynk), the redis   *)
(* connection handing out their messages (PubSub), the node's clients      *)
(* filtering, queueing and forwarding them (SynkClient), and the browsers  *)
(* behind them (Browser), who change their subscriptions all the time.     *)
(***************************************************************************)
EXTENDS SynkClient

CONSTANT Joined     \* the sets of keys a client may hold when the model starts

ASSUME JoinedAssumption == Joined \subseteq SUBSET Keys

vars == <<mutVars, busVars, browserVars, clientVars>>

(* Clients that subscribed while there were no objects yet.                *)
Init ==
  \E held \in [Clients -> Joined] :
    /\ MongoInit
    /\ BusInit(held)
    /\ BrowserInit(held)
    /\ ClientInit(held)

(* The browser of c sends a request; startReadingFromWebSocket passes it   *)
(* on to the main loop.                                                    *)
UpdateSubscription(c, r) ==
  /\ Ask(c, r)
  /\ fromWebSocket' = [fromWebSocket EXCEPT ![c] = Append(@, r)]
  /\ UNCHANGED <<subscriptions, toWebSocket, loop, req, objs, alive>>

Mutate == MutatorStep /\ UNCHANGED <<browserVars, clientVars>>

BusStep == Dispatch /\ UNCHANGED <<mutVars, browserVars, clientVars>>

BrowserStep(c) ==
  /\ \E r \in Request : UpdateSubscription(c, r)
  /\ UNCHANGED <<mutVars, busVars>>

ReceiveStep(c) == (Receive(c) \/ Enqueue(c)) /\ UNCHANGED <<mutVars, browserVars>>

ForwardStep(c) ==
  /\ Forward(c)
  /\ UNCHANGED <<mutVars, busVars, wanted, kept, asked>>

HandleStep(c) ==
  \/ /\ HandleMessage(c) \/ RemoveKeys(c) \/ AddKeys(c) \/ LoadObjects(c)
     /\ UNCHANGED <<mutVars, busVars, browserVars>>
  \/ /\ UpdateAgents(c)
     /\ UNCHANGED <<mutVars, wire, todo, sending, browserVars>>
  \/ /\ WriteObjects(c)
     /\ UNCHANGED <<mutVars, busVars, wanted, kept, asked>>

FatalStep(c) == MapFatal(c) /\ UNCHANGED <<mutVars, browserVars>>

Next ==
  /\ alive
  /\ \/ Mutate
     \/ BusStep
     \/ \E c \in Clients : \/ BrowserStep(c)
                           \/ ReceiveStep(c)
                           \/ ForwardStep(c)
                           \/ HandleStep(c)
                           \/ FatalStep(c)

Spec == Init /\ [][Next]_vars

(* The node's goroutines keep running, and so does a mutator's call once   *)
(* it is under way; nobody has to start a call or send a request.          *)
Fairness ==
  /\ WF_vars(alive /\ BusStep)
  /\ \A o \in Objects : WF_vars(alive /\ Publish(o) /\ UNCHANGED <<browserVars, clientVars>>)
  /\ \A c \in Clients : /\ WF_vars(alive /\ ReceiveStep(c))
                        /\ WF_vars(alive /\ ForwardStep(c))
                        /\ WF_vars(alive /\ HandleStep(c))

FairSpec == Spec /\ Fairness

-----------------------------------------------------------------------------
(* Every component's variables have their types; a toWebSocket buffer      *)
(* never exceeds its capacity.                                             *)
TypeOK == MongoTypeOK /\ BusTypeOK /\ BrowserTypeOK /\ ClientTypeOK

-----------------------------------------------------------------------------
(* Nothing that concerns client c is under way.                            *)
Settled(c) ==
  /\ \A o \in Objects : Idle(o)
  /\ wire = <<>>
  /\ toWebSocket[c] = <<>>
  /\ fromWebSocket[c] = <<>>
  /\ loop[c] = "select"

(* What the browser of c should show of o.                                 *)
Current(c, o) ==
  IF db[o].key \in wanted[c] THEN [key |-> db[o].key, v |-> db[o].v] ELSE NoView

(* No object is lost (README.md: "no objects are 'lost' as a result of the *)
(* client changing"): whenever things have settled, a browser has the      *)
(* latest version of every object in the keys it wants, however mutations, *)
(* deliveries and its own requests were interleaved.                       *)
NothingLost ==
  \A c \in Clients, o \in Objects :
    Settled(c) /\ Current(c, o) # NoView => view[c][o] = Current(c, o)

(* No ghosts (README.md: "Ensure that client cache stays up to date"): in  *)
(* a key the browser has wanted all along, what it shows once things have  *)
(* settled exists, and is what the database holds: of objects that come,   *)
(* move and go, the messages alone leave nothing behind.                   *)
NoGhostWhereHeld ==
  \A c \in Clients, o \in Objects :
    Settled(c) /\ view[c][o].key \in kept[c] => view[c][o] = Current(c, o)

(* In every other key only a deleted object can be left behind: what the   *)
(* browser shows of an object that exists is where and what it now is,     *)
(* however often the key was given up and asked for again.                 *)
NoGhostOfTheLiving ==
  \A c \in Clients, o \in Objects :
    Settled(c) /\ o \notin gone /\ view[c][o] # NoView => view[c][o] = Current(c, o)

(* Updates arrive in order and without a gap (Tag.go: clients use V "to    *)
(* verify the correct update is being applied to the correct object"): the *)
(* diff about to be written to a browser that has the object is one it     *)
(* already has or the very next one.  There can be a gap while a request   *)
(* of the browser waits to be handled, and for a deleted object, before    *)
(* its removal arrives.                                                    *)
NoGap ==
  \A c \in Clients :
    loop[c] = "select" /\ fromWebSocket[c] = <<>> /\ toWebSocket[c] # <<>> =>
      LET m == Head(toWebSocket[c])
          w == view[c][m.id]
      IN  m.type = "mod" /\ w # NoView /\ m.id \notin gone => m.v <= w.v + 1

-----------------------------------------------------------------------------
(* Database first: no version is published, queued, loaded or shown before *)
(* it is stored, whatever writes, publishes and processes fail.  A browser *)
(* never shows a state that a restart could take back.                     *)
NeverAhead ==
  /\ \A o \in Objects : AllStored(outbox[o])
  /\ AllStored(wire)
  /\ \A c \in Clients :
       /\ AllStored(toWebSocket[c])
       /\ \A o \in Objects : Stored(o, objs[c][o].v) /\ Stored(o, view[c][o].v)

(* Where an object is in some version, as a message says it, a document or *)
(* a browser's copy.                                                       *)
Says(m) ==
  [key |-> IF m.type = "mod" /\ m.nskey # NoKey THEN m.nskey ELSE m.skey, v |-> m.v]

At(d) == [key |-> d.key, v |-> d.v]

Told(q, o) ==
  {Says(q[i]) : i \in {j \in 1..Len(q) : q[j].id = o /\ q[j].type # "rem"}}

ClientClaims(c, o) == Told(toWebSocket[c], o) \cup {At(objs[c][o]), At(view[c][o])}

(* All that is said of o: what is stored, loaded or shown, and messages to *)
(* be published, on the wire or queued.                                    *)
Claims(o) ==
  {At(db[o])} \cup Told(wire, o)
  \cup (UNION {Told(outbox[p], o) : p \in Objects})
  \cup (UNION {ClientClaims(c, o) : c \in Clients})

(* A version is of one state only (Tag.go: clients use V "to verify the    *)
(* correct update is being applied to the correct object"): no number is   *)
(* used again for another state, although versions are counted in memory   *)
(* before the write, and a restart goes back to what was stored.           *)
OneStatePerVersion ==
  \A o \in Objects : \A c, d \in Claims(o) : c.v = d.v => c = d

(* The subscriptions map is never read by Receive while the main loop      *)
(* writes it (Client.go: Receive "is safe for concurrent calls").          *)
NoMapRace == \A c \in Clients : ~ MapRace(c)

(* Once mutations and requests cease, everything under way completes and   *)
(* every browser has what it should: neither a full buffer nor the         *)
(* main loop's select keeps a message from its browser for good.           *)
EventuallySynced ==
  \A c \in Clients :
    <>[](/\ Settled(c)
         /\ \A o \in Objects : Current(c, o) # NoView => view[c][o] = Current(c, o))
=============================================================================
