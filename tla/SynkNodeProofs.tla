--------------------------- MODULE SynkNodeProofs ---------------------------
(***************************************************************************)
(* Theorems about SynkNode, for every set of objects, clients and keys and *)
(* every value of the bounds.                                              *)
(***************************************************************************)
EXTENDS SynkNode, MongoSynkProofs

-----------------------------------------------------------------------------
(* The inductive invariant has three parts besides the types.  The         *)
(* mutator's own is MutInv.                                                *)

(* The dispatcher hands out a message that is there, and a client at its   *)
(* channel send is one the message must still be handed to: without this,  *)
(* Enqueue could append the head of an empty wire.                         *)
BusInv ==
  /\ todo # {} => wire # <<>>
  /\ sending \subseteq todo

(* Everything on its way to a browser, or there, has been stored.          *)
ClientStored ==
  \A c \in Clients :
    /\ AllStored(toWebSocket[c])
    /\ \A o \in Objects : Stored(o, objs[c][o].v) /\ Stored(o, view[c][o].v)

IInv ==
  /\ MutInv
  /\ BusTypeOK
  /\ BusInv
  /\ BrowserTypeOK
  /\ ClientTypeOK
  /\ AllStored(wire)
  /\ ClientStored

(* The invariant implies the properties.                                   *)
LEMMA IInvImplies ==
  ASSUME IInv
  PROVE  TypeOK /\ NeverAhead /\ StoredSubIsCurrent
  BY DEF IInv, MutInv, ClientStored, TypeOK, NeverAhead

(* It holds at the start.                                                  *)
LEMMA InitInv ==
  ASSUME Init
  PROVE  IInv
<1>1. PICK held \in [Clients -> Joined] :
        MongoInit /\ BusInit(held) /\ BrowserInit(held) /\ ClientInit(held)
  BY DEF Init
<1>2. held \in [Clients -> SUBSET Keys]
  BY JoinedAssumption
<1>3. MutInv
  BY <1>1, MongoInitInv
<1>4. BusTypeOK /\ BusInv /\ AllStored(wire)
  BY <1>1, <1>2 DEF BusInit, BusTypeOK, BusInv, AllStored
<1>5. BrowserTypeOK
  BY <1>1, <1>2 DEF BrowserInit, BrowserTypeOK
<1>6. ClientTypeOK
  <2>1. NoRequest \in Request /\ NoObjs \in [Objects -> Doc \cup {NoDoc}]
    BY DEF NoRequest, Request, NoObjs
  <2>2. "select" \in LoopState /\ TRUE \in BOOLEAN
    BY DEF LoopState
  <2>3. /\ toWebSocket \in [Clients -> Seq(Msg)]
        /\ \A c \in Clients : Len(toWebSocket[c]) <= Buffer
        /\ fromWebSocket \in [Clients -> Seq(Request)]
    BY <1>1, BufferAssumption DEF ClientInit
  <2> QED
    BY <1>1, <1>2, <2>1, <2>2, <2>3 DEF ClientInit, ClientTypeOK
<1>7. ClientStored
  <2>1. \A o \in Objects : mem[o].v \in Nat /\ db[o] = NoDoc
    BY <1>1, <1>3 DEF MutInv, MongoInit, MongoTypeOK, Struct
  <2>2. \A c \in Clients : /\ toWebSocket[c] = <<>>
                           /\ \A o \in Objects : objs[c][o].v = 0 /\ view[c][o].v = 0
    BY <1>1, NoDocFields DEF ClientInit, BrowserInit, NoObjs, NoView
  <2> QED
    BY <2>1, <2>2, NoDocFields DEF ClientStored, AllStored, Stored
<1> QED
  BY <1>3, <1>4, <1>5, <1>6, <1>7 DEF IInv

-----------------------------------------------------------------------------
(* What was stored stays stored, on its way to a browser or there.         *)
LEMMA VersionTypes ==
  /\ \A d \in Doc \cup {NoDoc} : d.v \in Nat
  /\ \A w \in View \cup {NoView} : w.v \in Nat
  BY DEF Doc, NoDoc, View, NoView

(* "No version" has always been stored.                                    *)
LEMMA ZeroStored ==
  ASSUME MutInv
  PROVE  \A o \in Objects : Stored(o, 0)
<1>1. \A o \in Objects : /\ mem[o].v \in Nat
                         /\ db[o] \in Doc \cup {NoDoc}
  BY DEF MutInv, MongoTypeOK, Struct
<1>2. \A o \in Objects : db[o].v \in Nat
  BY <1>1, VersionTypes
<1>3. \A n \in Nat : 0 <= n
  OBVIOUS
<1> QED
  BY <1>1, <1>2, <1>3 DEF Stored

(* Queues, loaded documents and copies that stay as they are stay stored.  *)
LEMMA ClientStays ==
  ASSUME IInv, StoredStays, UNCHANGED <<toWebSocket, objs, view>>
  PROVE  ClientStored'
<1> SUFFICES ASSUME NEW c \in Clients
             PROVE  /\ AllStored(toWebSocket[c])'
                    /\ \A o \in Objects : Stored(o, objs[c][o].v)' /\ Stored(o, view[c][o].v)'
  BY DEF ClientStored
<1>1. AllStored(toWebSocket[c])'
  <2>1. toWebSocket[c] \in Seq(Msg) /\ AllStored(toWebSocket[c])
    BY DEF IInv, ClientTypeOK, ClientStored
  <2> QED
    BY <2>1, SeqOfMsgs DEF AllStored, StoredStays
<1>2. \A o \in Objects : objs[c][o].v \in Nat /\ view[c][o].v \in Nat
  BY VersionTypes DEF IInv, ClientTypeOK, BrowserTypeOK
<1> QED
  BY <1>1, <1>2 DEF IInv, ClientStored, StoredStays

(* A step that leaves memory and the database alone unstores nothing.      *)
LEMMA UnchangedMutator ==
  ASSUME MutInv, UNCHANGED mutVars
  PROVE  MutInv' /\ StoredStays
  BY DEF MutInv, mutVars, MongoTypeOK, StoredSubIsCurrent, AllStored, Stored, StoredStays

-----------------------------------------------------------------------------
(* The mutator's steps and the dispatcher's.                               *)

(* Publishing a stored message leaves stored messages on the wire.         *)
LEMMA PublishedType ==
  ASSUME IInv, NEW m \in Msg, Stored(m.id, m.v)
  PROVE  /\ Published(m) \in Seq(Msg)
         /\ wire # <<>> => Published(m) # <<>>
         /\ AllStored(Published(m))
<1>1. wire \in Seq(Msg) /\ AllStored(wire)
  BY DEF IInv, BusTypeOK
<1>2. /\ Append(wire, m) \in Seq(Msg)
      /\ AllStored(Append(wire, m))
      /\ Append(wire, m) # <<>>
  BY <1>1, AppendStored
<1> QED
  BY <1>1, <1>2 DEF Published

(* The mutators' steps: only a publish reaches the wire.                   *)
LEMMA MutateInv ==
  ASSUME IInv, Mutate
  PROVE  IInv'
<1>1. MutatorStep /\ UNCHANGED <<browserVars, clientVars>>
  BY DEF Mutate
<1>2. MutInv' /\ StoredStays
  BY <1>1, MutatorInv DEF IInv
<1>3. BrowserTypeOK' /\ ClientTypeOK'
  BY <1>1 DEF IInv, BrowserTypeOK, ClientTypeOK, browserVars, clientVars
<1>4. ClientStored'
  BY <1>1, <1>2, ClientStays DEF browserVars, clientVars
<1>5. BusTypeOK' /\ BusInv' /\ AllStored(wire)'
  <2>1. CASE UNCHANGED busVars
    <3>1. AllStored(wire)'
      BY <1>2, <2>1, SeqOfMsgs DEF IInv, BusTypeOK, busVars, AllStored, StoredStays
    <3> QED
      BY <2>1, <3>1 DEF IInv, BusTypeOK, BusInv, busVars
  <2>2. ASSUME NEW o \in Objects, Publish(o)
        PROVE  BusTypeOK' /\ BusInv' /\ AllStored(wire)'
    <3> DEFINE m == Head(outbox[o])
    <3>1. m \in Msg /\ Stored(m.id, m.v)
      BY <2>2, PublishStep DEF IInv
    <3>2. wire' = Published(m) /\ UNCHANGED <<agents, todo, sending>>
      BY <2>2 DEF Publish
    <3> HIDE DEF m
    <3>3. /\ wire' \in Seq(Msg)
          /\ wire # <<>> => wire' # <<>>
          /\ AllStored(wire')
      BY <3>1, <3>2, PublishedType
    <3>4. UNCHANGED <<mem, db, gone>>
      BY <2>2 DEF Publish
    <3>5. AllStored(wire)'
      BY <3>3, <3>4 DEF AllStored, Stored
    <3> QED
      BY <3>2, <3>3, <3>5 DEF IInv, BusTypeOK, BusInv
  <2> QED
    BY <1>1, <2>1, <2>2 DEF MutatorStep
<1> QED
  BY <1>2, <1>3, <1>4, <1>5 DEF IInv

(* The dispatcher takes up a message that is there.                        *)
LEMMA BusStepInv ==
  ASSUME IInv, BusStep
  PROVE  IInv'
<1>1. Dispatch /\ UNCHANGED <<mutVars, browserVars, clientVars>>
  BY DEF BusStep
<1>2. MutInv' /\ StoredStays
  BY <1>1, UnchangedMutator DEF IInv
<1>3. BrowserTypeOK' /\ ClientTypeOK'
  BY <1>1 DEF IInv, BrowserTypeOK, ClientTypeOK, browserVars, clientVars
<1>4. ClientStored'
  BY <1>1, <1>2, ClientStays DEF browserVars, clientVars
<1>5. wire \in Seq(Msg) /\ wire # <<>> /\ AllStored(wire)
  BY <1>1 DEF IInv, BusTypeOK, Dispatch
<1>6. sending = {} /\ UNCHANGED <<agents, sending>>
  BY <1>1 DEF Dispatch, IInv, BusInv
<1>7. todo' \in SUBSET Clients /\ (todo' # {} => wire' = wire)
  BY <1>1 DEF Dispatch, Subscribers
<1>8. wire' \in Seq(Msg) /\ AllStored(wire')
  BY <1>1, <1>5, HeadAndTail DEF Dispatch
<1>9. AllStored(wire)'
  BY <1>1, <1>8 DEF AllStored, Stored, mutVars
<1> QED
  BY <1>2, <1>3, <1>4, <1>5, <1>6, <1>7, <1>8, <1>9 DEF IInv, BusTypeOK, BusInv

-----------------------------------------------------------------------------
(* Receive.                                                                *)

(* Handing the head of the wire to a client it is due to keeps the bus in  *)
(* order.                                                                  *)
LEMMA HandedInv ==
  ASSUME IInv, UNCHANGED <<mutVars, agents>>,
         NEW c \in Clients, c \in todo, Handed(c), sending' = {}
  PROVE  BusTypeOK' /\ BusInv' /\ AllStored(wire)'
<1>1. wire \in Seq(Msg) /\ wire # <<>> /\ AllStored(wire)
  BY DEF IInv, BusTypeOK, BusInv
<1>2. /\ todo' = todo \ {c}
      /\ todo # {c} => wire' = wire
      /\ todo = {c} => wire' = Tail(wire)
  BY DEF Handed
<1>3. wire' \in Seq(Msg) /\ AllStored(wire')
  BY <1>1, <1>2, HeadAndTail
<1>4. AllStored(wire)'
  BY <1>3 DEF AllStored, Stored, mutVars
<1>5. todo' # {} => wire' # <<>>
  BY <1>1, <1>2
<1> QED
  BY <1>2, <1>3, <1>4, <1>5 DEF IInv, BusTypeOK, BusInv

(* Receive and its channel send, within the capacity of toWebSocket.       *)
LEMMA ReceiveStepInv ==
  ASSUME IInv, NEW c \in Clients, ReceiveStep(c)
  PROVE  IInv'
<1>1. UNCHANGED <<mutVars, browserVars>>
  BY DEF ReceiveStep
<1>2. MutInv' /\ StoredStays
  BY <1>1, UnchangedMutator DEF IInv
<1>3. BrowserTypeOK'
  BY <1>1 DEF IInv, BrowserTypeOK, browserVars
<1>4. CASE Receive(c)
  <2>1. ClientTypeOK' /\ ClientStored'
    BY <1>1, <1>2, <1>4, ClientStays DEF Receive, IInv, ClientTypeOK, clientVars, browserVars
  <2>2. BusTypeOK' /\ BusInv' /\ AllStored(wire)'
    <3>1. c \in todo /\ sending = {} /\ agents' = agents
      BY <1>4 DEF Receive
    <3>2. CASE Handed(c) /\ UNCHANGED sending
      BY <1>1, <3>1, <3>2, HandedInv
    <3>3. CASE sending' = {c} /\ UNCHANGED <<todo, wire>>
      BY <1>1, <3>1, <3>3 DEF IInv, BusTypeOK, BusInv, AllStored, Stored, mutVars
    <3> QED
      BY <1>4, <3>2, <3>3 DEF Receive
  <2> QED
    BY <1>2, <1>3, <2>1, <2>2 DEF IInv
<1>5. CASE Enqueue(c)
  <2> DEFINE m == Head(wire)
             q == Append(toWebSocket[c], m)
  <2>1. c \in todo
    BY <1>5 DEF Enqueue, IInv, BusInv
  <2>2. BusTypeOK' /\ BusInv' /\ AllStored(wire)'
    BY <1>1, <1>5, <2>1, HandedInv DEF Enqueue
  <2>3. m \in Msg /\ Stored(m.id, m.v)
    BY <2>1, HeadAndTail DEF IInv, BusTypeOK, BusInv
  <2>4. toWebSocket[c] \in Seq(Msg) /\ AllStored(toWebSocket[c])
    BY DEF IInv, ClientTypeOK, ClientStored
  <2> HIDE DEF m
  <2>5. q \in Seq(Msg) /\ AllStored(q) /\ Len(q) = Len(toWebSocket[c]) + 1
    BY <2>3, <2>4, AppendStored
  <2>6. /\ Len(toWebSocket[c]) < Buffer
        /\ toWebSocket' = [toWebSocket EXCEPT ![c] = q]
        /\ UNCHANGED <<subscriptions, fromWebSocket, loop, req, objs, alive>>
    BY <1>5 DEF Enqueue, m
  <2> HIDE DEF q
  <2>7. /\ toWebSocket' \in [Clients -> Seq(Msg)]
        /\ toWebSocket'[c] = q
        /\ \A d \in Clients \ {c} : toWebSocket'[d] = toWebSocket[d]
    BY <2>5, <2>6 DEF IInv, ClientTypeOK
  <2>8. \A d \in Clients : Len(toWebSocket'[d]) <= Buffer
    <3>1. Len(toWebSocket[c]) \in Nat /\ Buffer \in Nat
      BY <2>4, BufferAssumption
    <3>2. Len(q) <= Buffer
      BY <2>5, <2>6, <3>1
    <3> QED
      BY <2>7, <3>2 DEF IInv, ClientTypeOK
  <2>9. ClientTypeOK'
    BY <2>6, <2>7, <2>8 DEF IInv, ClientTypeOK
  <2>10. ClientStored'
    <3>1. \A d \in Clients : AllStored(toWebSocket'[d])
      BY <2>5, <2>7 DEF IInv, ClientStored
    <3> QED
      BY <1>1, <2>6, <3>1 DEF IInv, ClientStored, AllStored, Stored, mutVars, browserVars
  <2> QED
    BY <1>2, <1>3, <2>2, <2>9, <2>10 DEF IInv
<1> QED
  BY <1>4, <1>5 DEF ReceiveStep

-----------------------------------------------------------------------------
(* The browser.                                                            *)

(* A browser only ever shows versions it was sent.                         *)
LEMMA AppliedType ==
  ASSUME NEW w \in View \cup {NoView}, NEW m \in Msg, NEW ks \in SUBSET Keys
  PROVE  /\ Applied(w, m, ks) \in View \cup {NoView}
         /\ Applied(w, m, ks).v \in {0, w.v, m.v}
<1>1. /\ m.type \in {"add", "mod", "rem"} /\ m.v \in Nat
      /\ m.skey \in Keys /\ (m.nskey # NoKey => m.nskey \in Keys)
  BY DEF Msg, MaybeKey
<1>2. NoView.v = 0
  BY DEF NoView
<1>3. \A k \in Keys : /\ Placed(w, k, m.v, ks) \in View \cup {NoView}
                      /\ Placed(w, k, m.v, ks).v \in {0, m.v}
  BY <1>1, <1>2 DEF Placed, View
<1>4. /\ OnAdd(w, m, ks) \in View \cup {NoView}
      /\ OnAdd(w, m, ks).v \in {0, w.v, m.v}
  BY <1>1, <1>3 DEF OnAdd
<1>5. /\ OnMod(w, m, ks) \in View \cup {NoView}
      /\ OnMod(w, m, ks).v \in {0, w.v, m.v}
  BY <1>1, <1>3 DEF OnMod
<1>6. OnRem(w, m, ks) \in View \cup {NoView} /\ OnRem(w, m, ks).v = 0
  BY <1>2 DEF OnRem
<1> QED
  BY <1>1, <1>4, <1>5, <1>6 DEF Applied

(* A step that changes nothing but c's copies, to ones that have been      *)
(* stored.                                                                 *)
LEMMA ViewInv ==
  ASSUME IInv, NEW c \in Clients, UNCHANGED <<mutVars, toWebSocket, objs>>,
         NEW row \in [Objects -> View \cup {NoView}],
         \A o \in Objects : Stored(o, row[o].v),
         view' = [view EXCEPT ![c] = row]
  PROVE  /\ view' \in [Clients -> [Objects -> View \cup {NoView}]]
         /\ ClientStored'
<1>1. view' \in [Clients -> [Objects -> View \cup {NoView}]]
  BY DEF IInv, BrowserTypeOK
<1>2. view'[c] = row /\ \A d \in Clients \ {c} : view'[d] = view[d]
  BY DEF IInv, BrowserTypeOK
<1>3. \A d \in Clients, o \in Objects : Stored(o, view'[d][o].v)
  BY <1>2 DEF IInv, ClientStored
<1> QED
  BY <1>1, <1>3 DEF IInv, ClientStored, AllStored, Stored, mutVars

(* A browser's request makes it forget copies, never invent one.           *)
LEMMA BrowserStepInv ==
  ASSUME IInv, NEW c \in Clients, BrowserStep(c)
  PROVE  IInv'
<1>1. PICK r \in Request : UpdateSubscription(c, r)
  BY DEF BrowserStep
<1>2. UNCHANGED <<mutVars, busVars>>
  BY DEF BrowserStep
<1>3. MutInv' /\ StoredStays
  BY <1>2, UnchangedMutator DEF IInv
<1>4. BusTypeOK' /\ BusInv' /\ AllStored(wire)'
  BY <1>2 DEF IInv, BusTypeOK, BusInv, AllStored, Stored, mutVars, busVars
<1>5. /\ Ask(c, r)
      /\ fromWebSocket' = [fromWebSocket EXCEPT ![c] = Append(@, r)]
      /\ UNCHANGED <<subscriptions, toWebSocket, loop, req, objs, alive>>
  BY <1>1 DEF UpdateSubscription
<1>6. ClientTypeOK'
  <2>1. fromWebSocket' \in [Clients -> Seq(Request)]
    BY <1>5 DEF IInv, ClientTypeOK
  <2> QED
    BY <1>5, <2>1 DEF IInv, ClientTypeOK
<1>7. view' \in [Clients -> [Objects -> View \cup {NoView}]] /\ ClientStored'
  <2> DEFINE row == [o \in Objects |->
                       IF view[c][o].key \in r.remove THEN NoView ELSE view[c][o]]
  <2>1. row \in [Objects -> View \cup {NoView}]
    BY DEF IInv, BrowserTypeOK
  <2>2. \A o \in Objects : Stored(o, row[o].v)
    BY ZeroStored DEF IInv, ClientStored, NoView
  <2>3. view' = [view EXCEPT ![c] = row]
    BY <1>5 DEF Ask
  <2> HIDE DEF row
  <2> QED
    BY <1>2, <1>5, <2>1, <2>2, <2>3, ViewInv
<1>8. /\ wanted' \in [Clients -> SUBSET Keys]
      /\ kept' \in [Clients -> SUBSET Keys]
      /\ asked' \in [Clients -> Nat]
  BY <1>5 DEF Ask, Request, IInv, BrowserTypeOK
<1> QED
  BY <1>3, <1>4, <1>6, <1>7, <1>8 DEF IInv, BrowserTypeOK

-----------------------------------------------------------------------------
(* The main loop.                                                          *)

(* A message the main loop forwards changes one copy, to what it says.     *)
LEMMA ForwardStepInv ==
  ASSUME IInv, NEW c \in Clients, ForwardStep(c)
  PROVE  IInv'
<1> DEFINE q == toWebSocket[c]
           m == Head(q)
           row == [view[c] EXCEPT ![m.id] = Applied(view[c][m.id], m, wanted[c])]
<1>1. UNCHANGED <<mutVars, busVars, wanted, kept, asked>>
  BY DEF ForwardStep
<1>2. MutInv' /\ StoredStays
  BY <1>1, UnchangedMutator DEF IInv
<1>3. BusTypeOK' /\ BusInv' /\ AllStored(wire)'
  BY <1>1 DEF IInv, BusTypeOK, BusInv, AllStored, Stored, mutVars, busVars
<1>4. q \in Seq(Msg) /\ q # <<>> /\ AllStored(q) /\ Len(q) <= Buffer
  BY DEF ForwardStep, Forward, IInv, ClientTypeOK, ClientStored
<1>5. /\ m \in Msg /\ Stored(m.id, m.v)
      /\ Tail(q) \in Seq(Msg) /\ AllStored(Tail(q))
  BY <1>4, HeadAndTail
<1>6. Len(Tail(q)) <= Buffer
  BY <1>4, BufferAssumption
<1>7. m.id \in Objects
  BY <1>5 DEF Msg
<1>8. /\ toWebSocket' = [toWebSocket EXCEPT ![c] = Tail(q)]
      /\ view' = [view EXCEPT ![c] = row]
      /\ UNCHANGED <<subscriptions, fromWebSocket, loop, req, objs, alive>>
  BY DEF ForwardStep, Forward, Receives
<1>9. view[c] \in [Objects -> View \cup {NoView}] /\ wanted[c] \in SUBSET Keys
  BY DEF IInv, BrowserTypeOK
<1> HIDE DEF q, m
<1>10. row \in [Objects -> View \cup {NoView}]
  BY <1>5, <1>7, <1>9, AppliedType
<1>11. \A o \in Objects : Stored(o, row[o].v)
  <2>1. \A o \in Objects : Stored(o, view[c][o].v) /\ Stored(o, 0)
    BY ZeroStored DEF IInv, ClientStored
  <2>2. Applied(view[c][m.id], m, wanted[c]).v \in {0, view[c][m.id].v, m.v}
    BY <1>5, <1>7, <1>9, AppliedType
  <2>3. Stored(m.id, row[m.id].v)
    BY <1>5, <1>7, <1>9, <2>1, <2>2
  <2> QED
    BY <1>7, <1>9, <2>1, <2>3
<1> HIDE DEF row
<1>12. view' \in [Clients -> [Objects -> View \cup {NoView}]]
  BY <1>8, <1>10 DEF IInv, BrowserTypeOK
<1>13. /\ toWebSocket' \in [Clients -> Seq(Msg)]
       /\ toWebSocket'[c] = Tail(q)
       /\ \A d \in Clients \ {c} : toWebSocket'[d] = toWebSocket[d]
  BY <1>5, <1>8 DEF IInv, ClientTypeOK
<1>14. ClientTypeOK'
  BY <1>6, <1>8, <1>13 DEF IInv, ClientTypeOK
<1>15. ClientStored'
  <2>1. \A d \in Clients : AllStored(toWebSocket'[d])
    BY <1>5, <1>13 DEF IInv, ClientStored
  <2>2. view'[c] = row /\ \A d \in Clients \ {c} : view'[d] = view[d]
    BY <1>8 DEF IInv, BrowserTypeOK
  <2>3. \A d \in Clients, o \in Objects : Stored(o, view'[d][o].v)
    BY <1>11, <2>2 DEF IInv, ClientStored
  <2> QED
    BY <1>1, <1>8, <2>1, <2>3 DEF IInv, ClientStored, AllStored, Stored, mutVars
<1> QED
  BY <1>1, <1>2, <1>3, <1>12, <1>14, <1>15 DEF IInv, BrowserTypeOK

(* The steps of updateSubscription that touch the client's own state only. *)
LEMMA LoopType ==
  ASSUME IInv, NEW c \in Clients, NEW from, NEW to \in LoopState, Goto(c, from, to)
  PROVE  loop' \in [Clients -> LoopState]
  BY DEF Goto, IInv, ClientTypeOK

(* updateSubscription step by step: what Load finds is stored.             *)
LEMMA HandleStepInv ==
  ASSUME IInv, NEW c \in Clients, HandleStep(c)
  PROVE  IInv'
<1>1. UNCHANGED mutVars /\ UNCHANGED <<wire, todo, sending, wanted, kept, asked>>
  BY DEF HandleStep, busVars, browserVars
<1>2. MutInv' /\ StoredStays
  BY <1>1, UnchangedMutator DEF IInv
<1>3. AllStored(wire)' /\ BusInv'
  BY <1>1 DEF IInv, BusInv, AllStored, Stored, mutVars
<1>4. /\ req[c] \in Request /\ req[c].add \in SUBSET Keys /\ req[c].remove \in SUBSET Keys
      /\ subscriptions[c] \in SUBSET Keys
  BY DEF IInv, ClientTypeOK, Request
<1>5. {"select", "remove", "add", "agents", "load", "write"} \subseteq LoopState
  BY DEF LoopState
<1> DEFINE Quiet == UNCHANGED <<busVars, browserVars>>
<1>6. ASSUME Quiet, UNCHANGED <<toWebSocket, objs>>, ClientTypeOK'
      PROVE  IInv'
  <2>1. BusTypeOK' /\ BrowserTypeOK'
    BY <1>6 DEF IInv, BusTypeOK, BrowserTypeOK, busVars, browserVars
  <2>2. ClientStored'
    BY <1>2, <1>6, ClientStays DEF browserVars
  <2> QED
    BY <1>2, <1>3, <1>6, <2>1, <2>2 DEF IInv
<1>7. CASE HandleMessage(c) /\ Quiet
  <2>1. /\ loop' \in [Clients -> LoopState]
        /\ UNCHANGED <<subscriptions, toWebSocket, objs, alive>>
    BY <1>5, <1>7, LoopType DEF HandleMessage
  <2>2. fromWebSocket[c] \in Seq(Request) /\ fromWebSocket[c] # <<>>
    BY <1>7 DEF HandleMessage, IInv, ClientTypeOK
  <2>3. Head(fromWebSocket[c]) \in Request /\ Tail(fromWebSocket[c]) \in Seq(Request)
    BY <2>2
  <2>4. /\ req' \in [Clients -> Request]
        /\ fromWebSocket' \in [Clients -> Seq(Request)]
    BY <1>7, <2>3 DEF HandleMessage, IInv, ClientTypeOK
  <2>5. ClientTypeOK'
    BY <2>1, <2>4 DEF IInv, ClientTypeOK
  <2> QED
    BY <1>6, <1>7, <2>1, <2>5
<1>8. CASE RemoveKeys(c) /\ Quiet
  <2>1. /\ loop' \in [Clients -> LoopState]
        /\ UNCHANGED <<toWebSocket, fromWebSocket, req, objs, alive>>
    BY <1>5, <1>8, LoopType DEF RemoveKeys
  <2>2. subscriptions' \in [Clients -> SUBSET Keys]
    BY <1>4, <1>8 DEF RemoveKeys, IInv, ClientTypeOK
  <2>3. ClientTypeOK'
    BY <2>1, <2>2 DEF IInv, ClientTypeOK
  <2> QED
    BY <1>6, <1>8, <2>1, <2>3
<1>9. CASE AddKeys(c) /\ Quiet
  <2>1. /\ loop' \in [Clients -> LoopState]
        /\ UNCHANGED <<toWebSocket, fromWebSocket, req, objs, alive>>
    BY <1>5, <1>9, LoopType DEF AddKeys
  <2>2. subscriptions' \in [Clients -> SUBSET Keys]
    BY <1>4, <1>9 DEF AddKeys, IInv, ClientTypeOK
  <2>3. ClientTypeOK'
    BY <2>1, <2>2 DEF IInv, ClientTypeOK
  <2> QED
    BY <1>6, <1>9, <2>1, <2>3
<1>10. CASE LoadObjects(c) /\ Quiet
  <2>1. /\ loop' \in [Clients -> LoopState]
        /\ UNCHANGED <<subscriptions, toWebSocket, fromWebSocket, req, alive>>
    BY <1>5, <1>10, LoopType DEF LoadObjects
  <2> DEFINE found == Load(req[c].add)
  <2>2. /\ found \in [Objects -> Doc \cup {NoDoc}]
        /\ \A o \in Objects : found[o] \in {db[o], NoDoc}
    BY DEF Load, IInv, MutInv, MongoTypeOK
  <2>3. objs' = [objs EXCEPT ![c] = found]
    BY <1>10 DEF LoadObjects
  <2>4. \A o \in Objects : Stored(o, found[o].v)
    <3>1. \A o \in Objects : db[o] # NoDoc => Stored(o, db[o].v)
      <4>1. \A o \in Objects : db[o] \in Doc \cup {NoDoc}
        BY DEF IInv, MutInv, MongoTypeOK
      <4>2. \A o \in Objects : db[o].v \in Nat
        BY <4>1, VersionTypes
      <4> QED
        BY <4>2 DEF IInv, MutInv, Stored
    <3>2. \A o \in Objects : Stored(o, NoDoc.v)
      BY ZeroStored, NoDocFields DEF IInv
    <3> QED
      BY <2>2, <3>1, <3>2
  <2> HIDE DEF found
  <2>5. /\ objs' \in [Clients -> [Objects -> Doc \cup {NoDoc}]]
        /\ objs'[c] = found
        /\ \A d \in Clients \ {c} : objs'[d] = objs[d]
    BY <2>2, <2>3 DEF IInv, ClientTypeOK
  <2>6. ClientTypeOK'
    BY <2>1, <2>5 DEF IInv, ClientTypeOK
  <2>7. ClientStored'
    BY <1>1, <1>10, <2>1, <2>4, <2>5
    DEF IInv, ClientStored, AllStored, Stored, mutVars, browserVars
  <2>8. BusTypeOK' /\ BrowserTypeOK'
    BY <1>10 DEF IInv, BusTypeOK, BrowserTypeOK, busVars, browserVars
  <2> QED
    BY <1>2, <1>3, <2>6, <2>7, <2>8 DEF IInv
<1>11. CASE UpdateAgents(c) /\ UNCHANGED browserVars
  <2>1. /\ loop' \in [Clients -> LoopState]
        /\ UNCHANGED <<subscriptions, toWebSocket, fromWebSocket, req, objs, alive>>
    BY <1>5, <1>11, LoopType DEF UpdateAgents
  <2>2. agents' \in [Clients -> SUBSET Keys]
    BY <1>4, <1>11 DEF UpdateAgents, UpdateChannels, IInv, BusTypeOK
  <2>3. BusTypeOK' /\ BrowserTypeOK' /\ ClientTypeOK'
    BY <1>1, <1>11, <2>1, <2>2 DEF IInv, BusTypeOK, BrowserTypeOK, ClientTypeOK, browserVars
  <2>4. ClientStored'
    BY <1>2, <1>11, <2>1, ClientStays DEF browserVars
  <2> QED
    BY <1>2, <1>3, <2>3, <2>4 DEF IInv
<1>12. CASE WriteObjects(c) /\ UNCHANGED busVars
  <2> DEFINE add(o) == AddMsg(o, objs[c][o].key, NoKey, objs[c][o].v)
             row == [o \in Objects |-> IF objs[c][o] = NoDoc THEN view[c][o]
                                       ELSE Applied(view[c][o], add(o), wanted[c])]
  <2>1. /\ loop' \in [Clients -> LoopState]
        /\ view' = [view EXCEPT ![c] = row]
        /\ objs' = [objs EXCEPT ![c] = NoObjs]
        /\ UNCHANGED <<subscriptions, toWebSocket, fromWebSocket, req, alive>>
    BY <1>5, <1>12, LoopType DEF WriteObjects, ReceivesAll
  <2>2. view[c] \in [Objects -> View \cup {NoView}] /\ wanted[c] \in SUBSET Keys
    BY DEF IInv, BrowserTypeOK
  <2>3. \A o \in Objects : objs[c][o] \in Doc \cup {NoDoc}
    BY DEF IInv, ClientTypeOK
  <2>4. \A o \in Objects : objs[c][o] # NoDoc => add(o) \in Msg /\ add(o).v = objs[c][o].v
    <3>1. ASSUME NEW o \in Objects, objs[c][o] # NoDoc
          PROVE  add(o) \in Msg /\ add(o).v = objs[c][o].v
      <4>1. objs[c][o].key \in Keys /\ objs[c][o].v \in Nat
        BY <2>3, <3>1 DEF Doc
      <4>2. NoKey \in MaybeKey
        BY DEF MaybeKey
      <4> QED
        BY <4>1, <4>2, MsgTypes DEF AddMsg
    <3> QED
      BY <3>1
  <2> HIDE DEF add
  <2>5. row \in [Objects -> View \cup {NoView}]
    BY <2>2, <2>4, AppliedType
  <2>6. \A o \in Objects : Stored(o, row[o].v)
    <3>1. \A o \in Objects : row[o].v \in {0, view[c][o].v, objs[c][o].v}
      BY <2>2, <2>4, AppliedType
    <3> QED
      BY <3>1, ZeroStored DEF IInv, ClientStored
  <2> HIDE DEF row
  <2>7. /\ view' \in [Clients -> [Objects -> View \cup {NoView}]]
        /\ view'[c] = row
        /\ \A d \in Clients \ {c} : view'[d] = view[d]
    BY <2>1, <2>5 DEF IInv, BrowserTypeOK
  <2>8. /\ NoObjs \in [Objects -> Doc \cup {NoDoc}]
        /\ \A o \in Objects : NoObjs[o].v = 0
    BY NoDocFields DEF NoObjs
  <2>9. /\ objs' \in [Clients -> [Objects -> Doc \cup {NoDoc}]]
        /\ objs'[c] = NoObjs
        /\ \A d \in Clients \ {c} : objs'[d] = objs[d]
    BY <2>1, <2>8 DEF IInv, ClientTypeOK
  <2>10. ClientTypeOK'
    BY <2>1, <2>9 DEF IInv, ClientTypeOK
  <2>11. ClientStored'
    <3>1. \A d \in Clients, o \in Objects :
            Stored(o, view'[d][o].v) /\ Stored(o, objs'[d][o].v)
      BY <2>6, <2>7, <2>8, <2>9, ZeroStored DEF IInv, ClientStored
    <3> QED
      BY <1>1, <2>1, <3>1 DEF IInv, ClientStored, AllStored, Stored, mutVars
  <2>12. BusTypeOK' /\ BrowserTypeOK'
    BY <1>1, <1>12, <2>7 DEF IInv, BusTypeOK, BrowserTypeOK, busVars
  <2> QED
    BY <1>2, <1>3, <2>10, <2>11, <2>12 DEF IInv
<1> QED
  BY <1>7, <1>8, <1>9, <1>10, <1>11, <1>12 DEF HandleStep, browserVars

(* The abort of the process changes nothing else.                          *)
LEMMA FatalStepInv ==
  ASSUME IInv, NEW c \in Clients, FatalStep(c)
  PROVE  IInv'
<1>1. /\ UNCHANGED <<mutVars, browserVars, busVars>>
      /\ UNCHANGED <<subscriptions, toWebSocket, fromWebSocket, loop, req, objs>>
      /\ alive' = FALSE
  BY DEF FatalStep, MapFatal
<1>2. MutInv' /\ StoredStays
  BY <1>1, UnchangedMutator DEF IInv
<1>3. BusTypeOK' /\ BusInv' /\ BrowserTypeOK' /\ AllStored(wire)'
  BY <1>1 DEF IInv, BusTypeOK, BusInv, BrowserTypeOK, AllStored, Stored, mutVars, busVars,
              browserVars
<1>4. ClientTypeOK'
  BY <1>1 DEF IInv, ClientTypeOK
<1>5. ClientStored'
  BY <1>1, <1>2, ClientStays DEF browserVars
<1> QED
  BY <1>2, <1>3, <1>4, <1>5 DEF IInv

(* A step that changes nothing.                                            *)
LEMMA StutterInv ==
  ASSUME IInv, UNCHANGED vars
  PROVE  IInv'
<1>1. MutInv' /\ StoredStays
  BY UnchangedMutator DEF IInv, vars
<1>2. ClientStored'
  BY <1>1, ClientStays DEF vars, clientVars, browserVars
<1> QED
  BY <1>1, <1>2 DEF IInv, vars, mutVars, busVars, browserVars, clientVars,
     BusTypeOK, BusInv, BrowserTypeOK, ClientTypeOK, AllStored, Stored

(* Every step keeps the invariant.                                         *)
LEMMA NextInv ==
  ASSUME IInv, [Next]_vars
  PROVE  IInv'
  BY MutateInv, BusStepInv, BrowserStepInv, ReceiveStepInv, ForwardStepInv,
     HandleStepInv, FatalStepInv, StutterInv
  DEF Next

(* The invariant holds in every reachable state of a node.                 *)
THEOREM Invariance == Spec => []IInv
<1>1. Init => IInv
  BY InitInv
<1>2. IInv /\ [Next]_vars => IInv'
  BY NextInv
<1> QED
  BY <1>1, <1>2, PTL DEF Spec

(* Every variable keeps its type, and no client's buffer ever holds more   *)
(* than its capacity, whatever the mutators, the clients and the browsers  *)
(* do.                                                                     *)
THEOREM TypeCorrect == Spec => []TypeOK
  BY Invariance, IInvImplies, PTL

(* Database first: however calls, failures, crashes and deliveries         *)
(* interleave, no version is published, queued, loaded or shown that is    *)
(* not stored; a restart takes nothing back that a browser has seen.       *)
THEOREM DatabaseFirst == Spec => []NeverAhead
  BY Invariance, IInvImplies, PTL

(* Load finds an object by the key it is in: the stored sub never departs  *)
(* from the stored key, failed writes and restarts included.               *)
THEOREM SubFollowsKey == Spec => []StoredSubIsCurrent
  BY Invariance, IInvImplies, PTL

(* Loading shows what a Mutator promises (Interfaces.go), for every number *)
(* of objects, keys and failures: one key at a time, ever later versions,  *)
(* no way back from Delete.                                                *)
THEOREM MongoIsAStore == Spec => AsStore
<1>1. Init => Store!Init
  BY StoreInit DEF Init
<1>2. IInv /\ IInv' /\ [Next]_vars => [Store!Next]_(Store!vars)
  <2> SUFFICES ASSUME IInv, IInv', [Next]_vars
               PROVE  [Store!Next]_(Store!vars)
    OBVIOUS
  <2>1. CASE Mutate
    BY <2>1, StoreStep DEF Mutate, IInv
  <2>2. CASE UNCHANGED mutVars
    BY <2>2, StoreSame DEF mutVars
  <2> QED
    BY <2>1, <2>2 DEF Next, BusStep, BrowserStep, ReceiveStep, ForwardStep, HandleStep,
                      FatalStep, vars
<1> QED
  BY <1>1, <1>2, Invariance, PTL DEF Spec, AsStore, Store!Spec
=============================================================================
