--------------------------- MODULE ArrivalProofs ----------------------------
(***************************************************************************)
(* Nothing is lost: when nothing fails, and browsers keep the keys that    *)
(* objects leave for others, what a browser is owed comes to it, for every *)
(* set of objects, clients and keys and every value of the bounds.         *)
(***************************************************************************)
EXTENDS DeliveryProofs

(* No browser asks for, or gives up, a key that objects leave for another. *)
Steady == Sources \cap MayChange = {}

-----------------------------------------------------------------------------
(* Where objects have been.                                                *)

(* An object that has been in another key could leave it.                  *)
Onwards ==
  \A o \in Objects : \A w, x \in Claims(o) :
    0 < w.v /\ w.v < x.v /\ w.key # x.key => w.key \in Sources

(* An object that arrives in a key, as an add message says, has left the   *)
(* keys it was in before.                                                  *)
Arrivals ==
  \A m \in Underway : m.type = "add" =>
    \A w \in Claims(m.id) : 0 < w.v /\ w.v < m.v => w.key \in Sources

(* Only a write says something new.                                        *)
LEMMA NoWriteQuiet ==
  ASSUME IInv, Calm, MaxFaults = 0, [Next]_vars, NEW o \in Objects,
         ~ Created(o), ~ Updated(o), ~ Moved(o)
  PROVE  NothingNew(o)
<1>1. ASSUME NEW p \in Objects, Calls(p)
      PROVE  NothingNew(o)
  <2>1. PICK msgs : Call(p, msgs)
    BY <1>1 DEF Calls, Created, Updated, Moved, Deleted
  <2>2. \A q \in Objects : q # p => db'[q] = db[q] /\ outbox'[q] = outbox[q]
    BY <2>1 DEF Call
  <2>3. At(db'[o]) \in {At(db[o]), Nothing}
    <3>1. CASE o # p
      BY <2>2, <3>1
    <3>2. CASE o = p
      <4>1. db'[o] = NoDoc
        BY <1>1, <3>2 DEF Calls, Deleted
      <4> QED
        BY <4>1 DEF At, NoDoc, Nothing
    <3> QED
      BY <3>1, <3>2
  <2>4. \A q \in Objects : Told(outbox'[q], o) \subseteq Told(outbox[q], o)
    <3>1. Told(outbox'[p], o) = {}
      <4>1. \A m \in Range(outbox'[p]) : m.id = o => m.type = "rem"
        <5>1. CASE o # p
          BY <1>1, <5>1, CallShapes
        <5>2. CASE o = p
          <6>1. outbox'[p] = <<RemMsg(o, mem[o].key)>>
            BY <1>1, <5>2 DEF Calls, Deleted, Call
          <6> QED
            BY <6>1, RangeOne DEF RemMsg
        <5> QED
          BY <5>1, <5>2
      <4>2. outbox'[p] \in Seq(Msg)
        BY <2>1 DEF Call
      <4> QED
        BY <4>1, <4>2, ToldRange
    <3> QED
      BY <2>2, <3>1
  <2> QED
    BY <2>1, <2>3, <2>4, MutatorQuiet DEF Call
<1>2. CASE Mutate
  BY <1>1, <1>2, MutateCases, PublishQuiet, OtherwiseQuiet DEF Calls, Renamed
<1>3. CASE BusStep
  <2>1. /\ UNCHANGED <<db, outbox, toWebSocket, objs, view>>
        /\ wire # <<>> /\ (wire' = wire \/ wire' = Tail(wire))
    BY <1>3 DEF BusStep, Dispatch, mutVars, browserVars, clientVars
  <2> QED
    BY <2>1, WireQuiet
<1>4. CASE UNCHANGED <<db, outbox, wire, toWebSocket, objs, view>>
  BY <1>4, WireQuiet
<1>5. ASSUME NEW c \in Clients, FatalStep(c)
      PROVE  NothingNew(o)
  BY <1>4, <1>5 DEF FatalStep, MapFatal, mutVars, busVars, browserVars
<1>6. CASE UNCHANGED vars
  BY <1>4, <1>6 DEF vars, mutVars, busVars, browserVars, clientVars
<1> QED
  BY <1>2, <1>3, <1>5, <1>6, BrowserQuiet, ReceiveQuiet, ForwardQuiet, HandleQuiet DEF Next

(* A write says one new thing of its object, in a version that was not     *)
(* reached before.                                                         *)
LEMMA WriteClaims ==
  ASSUME IInv, NEW o \in Objects, NEW s, Stores(o, s), NEW msgs, Call(o, msgs),
         \A m \in Range(msgs) : Tells(o, s, m)
  PROVE  Claims(o)' \subseteq Claims(o) \cup {At(s)}
<1> DEFINE S == Claims(o) \cup {At(s)}
<1>1. /\ wire' = wire /\ toWebSocket' = toWebSocket /\ objs' = objs /\ view' = view
      /\ outbox'[o] = msgs /\ msgs \in Seq(Msg)
      /\ \A p \in Objects \ {o} : outbox'[p] = outbox[p]
      /\ At(db'[o]) = At(s)
  BY StoresFacts DEF Call, busVars, clientVars, browserVars
<1>2. Told(msgs, o) \subseteq {At(s)}
  BY <1>1, ToldRange DEF Tells
<1>3. /\ Told(wire', o) \subseteq S
      /\ At(db'[o]) \in S
      /\ \A p \in Objects : Told(outbox'[p], o) \subseteq S
      /\ \A c \in Clients : /\ Told(toWebSocket'[c], o) \subseteq S
                            /\ At(objs'[c][o]) \in S
                            /\ At(view'[c][o]) \in S
  BY <1>1, <1>2, ClaimParts
<1> HIDE DEF S
<1>4. Claims(o)' \subseteq S
  BY <1>3, NextClaims
<1> QED
  BY <1>4 DEF S

(* An object that exists is where it has been, or has left it.             *)
LEMMA WhereItHasBeen ==
  ASSUME IInv, Agree, Calm, Onwards, NEW o \in Objects, o \notin gone,
         NEW w \in Claims(o), 0 < w.v
  PROVE  /\ db[o] # NoDoc /\ db[o].v = mem[o].v /\ db[o].key = mem[o].key
         /\ db[o].v \in Nat /\ w.v \in Nat /\ w.v <= db[o].v
         /\ w.v = db[o].v => w.key = db[o].key
         /\ w.key # db[o].key => w.key \in Sources
<1>1. w.v <= mem[o].v /\ w.v \in Nat /\ mem[o].v \in Nat
  BY ClaimsStored, ClaimVersions DEF IInv, MutInv, MongoTypeOK, Struct
<1>2. mem[o].v # 0
  BY <1>1
<1>3. db[o] # NoDoc /\ db[o].v = mem[o].v /\ db[o].key = mem[o].key
  BY <1>2 DEF Calm, CalmObject, At
<1>4. At(db[o]) \in Claims(o) /\ At(db[o]).v = db[o].v /\ At(db[o]).key = db[o].key
  BY ClaimParts DEF At
<1>5. w.v = db[o].v => w.key = db[o].key
  BY <1>4 DEF Agree
<1>6. w.v < db[o].v /\ w.key # db[o].key => w.key \in Sources
  BY <1>4 DEF Onwards
<1>7. w.v = db[o].v \/ w.v < db[o].v
  BY <1>1, <1>3
<1> QED
  BY <1>1, <1>3, <1>5, <1>6, <1>7

(* A write finds the object where it is, or has left, all it has been.     *)
LEMMA WriteGoesOn ==
  ASSUME IInv, Agree, Calm, Onwards, NEW o \in Objects,
         Created(o) \/ Updated(o) \/ Moved(o)
  PROVE  \E s, msgs :
           /\ Stores(o, s) /\ Call(o, msgs) /\ \A m \in Range(msgs) : Tells(o, s, m)
           /\ \A w \in Claims(o) :
                0 < w.v /\ (w.key # s.key \/ \E m \in Range(msgs) : m.type = "add")
                  => w.key \in Sources
<1>1. PICK s, msgs : /\ Stores(o, s) /\ Call(o, msgs)
                     /\ \A m \in Range(msgs) : Tells(o, s, m)
  BY CallTells
<1>2. o \notin gone /\ outbox'[o] = msgs /\ mem'[o] = s
  BY <1>1, StoresFacts DEF Call
<1>3. ASSUME NEW w \in Claims(o), 0 < w.v,
             w.key # s.key \/ \E m \in Range(msgs) : m.type = "add"
      PROVE  w.key \in Sources
  <2>1. /\ db[o] # NoDoc /\ db[o].key = mem[o].key
        /\ w.key # db[o].key => w.key \in Sources
    BY <1>2, <1>3, WhereItHasBeen
  <2>2. CASE Updated(o)
    <3>1. PICK t : Stores(o, t) /\ t.key = mem[o].key
                   /\ Call(o, <<ModMsg(o, t.key, t.key, t.v)>>)
      BY <2>2 DEF Updated
    <3>2. msgs = <<ModMsg(o, t.key, t.key, t.v)>> /\ t = s
      BY <1>2, <3>1, StoresFacts DEF Call
    <3>3. \A m \in Range(msgs) : m.type # "add"
      BY <3>2, RangeOne DEF ModMsg
    <3> QED
      BY <1>3, <2>1, <3>1, <3>2, <3>3
  <2>3. CASE Moved(o)
    <3>1. mem[o].key \in Sources
      BY <2>3 DEF Moved
    <3> QED
      BY <2>1, <3>1
  <2>4. ~ Created(o)
    BY <2>1 DEF Created
  <2> QED
    BY <2>2, <2>3, <2>4
<1> QED
  BY <1>1, <1>3

LEMMA StepOnwards ==
  ASSUME IInv, Agree, Calm, MaxFaults = 0, Onwards, [Next]_vars
  PROVE  Onwards'
<1> SUFFICES ASSUME NEW o \in Objects, NEW w \in Claims(o)', NEW x \in Claims(o)',
                    0 < w.v, w.v < x.v, w.key # x.key
             PROVE  w.key \in Sources
  BY DEF Onwards, Sources
<1>1. Nothing.v = 0
  BY DEF Nothing
<1>2. CASE Created(o) \/ Updated(o) \/ Moved(o)
  <2>1. PICK s, msgs :
           /\ Stores(o, s) /\ Call(o, msgs) /\ \A m \in Range(msgs) : Tells(o, s, m)
           /\ \A v \in Claims(o) :
                0 < v.v /\ (v.key # s.key \/ \E m \in Range(msgs) : m.type = "add")
                  => v.key \in Sources
    BY <1>2, WriteGoesOn
  <2>2. w \in Claims(o) \cup {At(s)} /\ x \in Claims(o) \cup {At(s)}
    BY <2>1, WriteClaims
  <2>3. At(s).v = mem[o].v + 1 /\ At(s).key = s.key /\ mem[o].v \in Nat
    BY <2>1, StoresFacts DEF At, IInv, MutInv, MongoTypeOK, Struct
  <2>4. \A v \in Claims(o) : v.v <= mem[o].v /\ v.v \in Nat
    BY ClaimsStored, ClaimVersions
  <2>5. w # At(s)
    <3>1. x.v <= mem[o].v + 1 /\ x.v \in Nat
      BY <2>2, <2>3, <2>4
    <3> QED
      BY <2>3, <3>1
  <2>6. CASE x = At(s)
    BY <2>1, <2>2, <2>3, <2>5, <2>6
  <2>7. CASE x # At(s)
    BY <2>2, <2>5, <2>7 DEF Onwards
  <2> QED
    BY <2>6, <2>7
<1>3. CASE ~ Created(o) /\ ~ Updated(o) /\ ~ Moved(o)
  <2>1. w \in Claims(o) \cup {Nothing} /\ x \in Claims(o) \cup {Nothing}
    BY <1>3, NoWriteQuiet DEF NothingNew
  <2>2. w # Nothing
    BY <1>1
  <2>3. x # Nothing
    <3>1. w.v \in Nat
      BY <2>1, <2>2, ClaimVersions
    <3> QED
      BY <1>1, <3>1
  <2> QED
    BY <2>1, <2>2, <2>3 DEF Onwards
<1> QED
  BY <1>2, <1>3

LEMMA StepArrivals ==
  ASSUME IInv, Agree, Calm, MaxFaults = 0, Onwards, Arrivals, [Next]_vars
  PROVE  Arrivals'
<1> SUFFICES ASSUME NEW m \in Underway', m.type = "add",
                    NEW w \in Claims(m.id)', 0 < w.v, w.v < m.v
             PROVE  w.key \in Sources
  BY DEF Arrivals, Sources
<1> DEFINE o == m.id
<1>1. \/ m \in Underway
      \/ \E p \in Objects : Calls(p) /\ m \in Range(outbox'[p])
  BY UnderwayStep
<1>2. o \in Objects
  <2>1. m \in Underway => m \in Msg
    BY UnderwayStored
  <2>2. \A p \in Objects : Calls(p) => \A n \in Range(outbox'[p]) : n.id = p
    BY CallShapes
  <2> QED
    BY <1>1, <2>1, <2>2 DEF Msg
<1>3. CASE Created(o) \/ Updated(o) \/ Moved(o)
  <2>1. PICK s, msgs :
           /\ Stores(o, s) /\ Call(o, msgs) /\ \A n \in Range(msgs) : Tells(o, s, n)
           /\ \A v \in Claims(o) :
                0 < v.v /\ (v.key # s.key \/ \E n \in Range(msgs) : n.type = "add")
                  => v.key \in Sources
    BY <1>2, <1>3, WriteGoesOn
  <2>2. w \in Claims(o) \cup {At(s)}
    BY <1>2, <2>1, WriteClaims
  <2>3. At(s).v = s.v /\ s.v = mem[o].v + 1 /\ mem[o].v \in Nat
    BY <1>2, <2>1, StoresFacts DEF At, IInv, MutInv, MongoTypeOK, Struct
  <2>4. m \in Underway \/ m \in Range(msgs)
    <3>1. \A p \in Objects : Calls(p) => p = o \/ m \notin Range(outbox'[p])
      BY CallShapes
    <3>2. outbox'[o] = msgs
      BY <2>1 DEF Call
    <3> QED
      BY <1>1, <3>1, <3>2
  <2>5. m.v <= s.v /\ m.v \in Nat
    <3>1. CASE m \in Underway
      <4>1. m.v <= mem[o].v /\ m.v \in Nat
        BY <3>1, UnderwayStored
      <4> QED
        BY <2>3, <4>1
    <3>2. CASE m \in Range(msgs)
      BY <2>1, <2>3, <3>2 DEF Tells
    <3> QED
      BY <2>4, <3>1, <3>2
  <2>6. w # At(s)
    BY <2>3, <2>5
  <2>7. CASE m \in Underway
    BY <2>2, <2>6, <2>7 DEF Arrivals
  <2>8. CASE m \in Range(msgs)
    BY <2>1, <2>2, <2>6, <2>8
  <2> QED
    BY <2>4, <2>7, <2>8
<1>4. CASE ~ Created(o) /\ ~ Updated(o) /\ ~ Moved(o)
  <2>1. w \in Claims(o) \cup {Nothing}
    BY <1>2, <1>4, NoWriteQuiet DEF NothingNew
  <2>2. w # Nothing
    BY DEF Nothing
  <2>3. m \in Underway
    <3>1. ASSUME NEW p \in Objects, Calls(p), m \in Range(outbox'[p])
          PROVE  FALSE
      <4>1. p = o
        BY <3>1, CallShapes
      <4>2. outbox'[o] = <<RemMsg(o, mem[o].key)>>
        BY <1>4, <3>1, <4>1 DEF Calls, Deleted, Call
      <4> QED
        BY <3>1, <4>1, <4>2, RangeOne DEF RemMsg
    <3> QED
      BY <1>1, <3>1
  <2> QED
    BY <2>1, <2>2, <2>3 DEF Arrivals
<1> QED
  BY <1>3, <1>4

LEMMA InitOnwards ==
  ASSUME Init
  PROVE  Onwards /\ Arrivals
<1>1. ASSUME NEW o \in Objects, NEW w \in Claims(o)
      PROVE  w.v = 0
  <2>1. /\ db[o].v = 0 /\ wire = <<>> /\ \A p \in Objects : outbox[p] = <<>>
        /\ \A c \in Clients : toWebSocket[c] = <<>> /\ objs[c][o].v = 0 /\ view[c][o].v = 0
    BY NoDocFields
    DEF Init, MongoInit, BusInit, BrowserInit, ClientInit, NoObjs, NoView
  <2>2. \A c \in Clients : \A x \in ClientClaims(c, o) : x.v = 0
    BY <2>1, ToldEmpty DEF ClientClaims, At
  <2> QED
    BY <2>1, <2>2, ToldEmpty DEF Claims, At
<1>2. Underway = {}
  BY InitShapes
<1> QED
  BY <1>1, <1>2 DEF Onwards, Arrivals

-----------------------------------------------------------------------------
(* What a browser is owed of an object in a key it wants, once the client  *)
(* has loaded the key for it: some version of the object, that it has, or  *)
(* that was loaded for it or comes as an add message, and every change     *)
(* since.                                                                  *)

(* The keys whose objects are still going to be loaded for c.              *)
Unloaded(c) ==
  Asked(fromWebSocket[c])
  \cup (IF Handling(c) \/ loop[c] = "load" THEN req[c].add ELSE {})

Arrives(c, o, u) ==
  \E m \in Underway : Comes(c, m) /\ m.type = "add" /\ m.id = o /\ m.v = u /\ m.skey \in wanted[c]

Changes(c, o, x) ==
  \E m \in Underway : Comes(c, m) /\ m.type = "mod" /\ m.id = o /\ m.v = x
                      /\ Says(m).key \in wanted[c]

Base(c, o, u) ==
  \/ view[c][o].v = u
  \/ objs[c][o].v = u /\ objs[c][o].key \in wanted[c]
  \/ Arrives(c, o, u)

Owes(c, o) ==
  \E u \in 1..db[o].v : Base(c, o, u) /\ \A x \in (u + 1)..db[o].v : Changes(c, o, x)

Owed == \A c \in Clients, o \in Objects : db[o].key \in wanted[c] \ Unloaded(c) => Owes(c, o)

(* All that Owed rests on.                                                 *)
Arriving == Delivers /\ Onwards /\ Arrivals

LEMMA UnloadedKeys ==
  ASSUME Requests, NEW c \in Clients
  PROVE  Unsubscribed(c) \subseteq Unloaded(c) /\ Unloaded(c) \subseteq MayAdd
<1>1. Asked(fromWebSocket[c]) \subseteq MayAdd
  BY DEF Requests, Pending, Legal, Asked
<1>2. Handling(c) \/ loop[c] = "load" => req[c].add \subseteq MayAdd
  BY DEF Requests, Pending, Legal, Handling
<1> QED
  BY <1>1, <1>2 DEF Unsubscribed, Unloaded

(* The document of an object that a browser wants.                         *)
LEMMA WantedExists ==
  ASSUME IInv, Calm, NEW c \in Clients, NEW o \in Objects, db[o].key \in wanted[c]
  PROVE  /\ o \notin gone /\ db[o] # NoDoc /\ At(db[o]) = At(mem[o]) /\ db[o].v = mem[o].v
         /\ db[o].key = mem[o].key /\ db[o].v \in Nat /\ db[o].v > 0 /\ db[o].key \in Keys
<1>1. wanted[c] \subseteq Keys /\ mem[o].v \in Nat
  BY DEF IInv, BrowserTypeOK, MutInv, MongoTypeOK, Struct
<1>2. db[o] # NoDoc /\ db[o].key \in Keys
  BY <1>1, NoKeyAssumption DEF NoDoc
<1>3. At(db[o]) = At(mem[o]) /\ mem[o].v > 0 /\ o \notin gone
  BY <1>2 DEF Calm, CalmObject
<1> QED
  BY <1>1, <1>2, <1>3 DEF At

(* What is said of the object of a message under way.                      *)
LEMMA SaidUnderway ==
  ASSUME IInv, NEW m \in Underway, m.type # "rem"
  PROVE  /\ m \in Msg /\ m.id \in Objects
         /\ Says(m) \in Claims(m.id) /\ Says(m).v = m.v
<1>1. m \in Msg /\ m.id \in Objects
  BY UnderwayStored DEF Msg
<1>2. ASSUME NEW q \in Seq(Msg), m \in Range(q)
      PROVE  Says(m) \in Told(q, m.id)
  BY <1>2, ToldRange
<1>3. Says(m) \in Claims(m.id)
  BY <1>1, <1>2, QueueTypes, ClaimParts DEF Underway
<1> QED
  BY <1>1, <1>3 DEF Says

(* The object's key, and every other it has been in, stays wanted.         *)
LEMMA ClaimStays ==
  ASSUME IInv, Arriving, Steady, NEW c \in Clients, NEW o \in Objects,
         db[o].key \in wanted[c], NEW w \in Claims(o), w.v > 0
  PROVE  w.key = db[o].key \/ w.key \notin MayChange
BY WantedExists, WhereItHasBeen DEF Arriving, Delivers, Steady

(* The request being handled does not keep what is owed from the browser.  *)
LEMMA OwedIsSafe ==
  ASSUME IInv, Arriving, Steady, NEW c \in Clients, NEW o \in Objects,
         db[o].key \in wanted[c] \ Unloaded(c),
         NEW m \in Underway, m.id = o, m.type # "rem", m.v > 0
  PROVE  Safe(c, m)
<1>1. m \in Msg /\ Says(m) \in Claims(o) /\ Says(m).v = m.v
  BY SaidUnderway
<1>2. Says(m).key = db[o].key \/ Says(m).key \notin MayChange
  BY <1>1, ClaimStays
<1>3. m.skey = Says(m).key \/ m.skey \in Sources
  BY DEF Says, Arriving, Delivers, Shapes, WellFormed
<1>4. m.skey = db[o].key \/ m.skey \notin MayChange
  BY <1>2, <1>3 DEF Steady
<1>5. loop[c] = "agents" => m.skey \notin req[c].remove
  <2> SUFFICES ASSUME loop[c] = "agents" PROVE m.skey \notin req[c].remove
    OBVIOUS
  <2>1. req[c].remove \subseteq MayChange
    BY DEF Arriving, Delivers, Requests, Pending, Legal, MayChange
  <2>2. db[o].key \notin req[c].remove
    BY DEF Arriving, Delivers, Requests, Pending, Handling, Unloaded
  <2> QED
    BY <1>4, <2>1, <2>2
<1>6. loop[c] = "add" => m.from \notin req[c].add
  <2> SUFFICES ASSUME loop[c] = "add" PROVE m.from \notin req[c].add
    OBVIOUS
  <2>1. req[c].add \subseteq MayChange /\ req[c].add \subseteq Keys
    BY BrowserAssumption DEF Arriving, Delivers, Requests, Pending, Legal, MayChange
  <2>2. m.from = NoKey \/ m.from \in Sources
    BY <1>1 DEF Arriving, Delivers, Shapes, WellFormed, Msg
  <2> QED
    BY <2>1, <2>2, NoKeyAssumption DEF Steady
<1> QED
  BY <1>5, <1>6 DEF Safe

(* What comes next is under way next.                                      *)
LEMMA ComesUnderwayNext ==
  ASSUME IInv', NEW c \in Clients, NEW m, Comes(c, m)'
  PROVE  m \in Underway'
<1>1. wire' \in Seq(Msg)
  BY DEF IInv, BusTypeOK
<1>2. OnWire(c, m)' => m \in Range(wire')
  BY <1>1, RangeIndex DEF OnWire
<1> QED
  BY <1>2 DEF Comes, Underway

(* What is owed keeps coming.                                              *)
LEMMA OwedComes ==
  ASSUME IInv, Arriving, MaxFaults = 0, Steady, [Next]_vars,
         NEW c \in Clients, NEW o \in Objects, db[o].key \in wanted[c] \ Unloaded(c),
         NEW m \in Underway, m.id = o, m.type # "rem", m.v > 0, Comes(c, m),
         ForwardStep(c) => m # Head(toWebSocket[c])
  PROVE  m \in Underway' /\ Comes(c, m)'
<1>1. Comes(c, m)'
  BY OwedIsSafe, Delivery DEF Arriving, Delivers
<1> QED
  BY <1>1, NextInv, ComesUnderwayNext

(* Unless a message about o is forwarded.                                  *)
LEMMA OwedStays ==
  ASSUME IInv, Arriving, MaxFaults = 0, Steady, [Next]_vars,
         NEW c \in Clients, NEW o \in Objects, db[o].key \in wanted[c] \ Unloaded(c),
         wanted'[c] = wanted[c], ForwardStep(c) => Head(toWebSocket[c]).id # o,
         NEW u \in Nat, u > 0
  PROVE  /\ Arrives(c, o, u) => Arrives(c, o, u)'
         /\ Changes(c, o, u) => Changes(c, o, u)'
<1>1. Arrives(c, o, u) => Arrives(c, o, u)'
  BY OwedComes DEF Arrives
<1>2. Changes(c, o, u) => Changes(c, o, u)'
  BY OwedComes DEF Changes
<1> QED
  BY <1>1, <1>2

LEMMA NeutralOwes ==
  ASSUME IInv, Arriving, MaxFaults = 0, Steady, [Next]_vars,
         NEW c \in Clients, NEW o \in Objects, db[o].key \in wanted[c] \ Unloaded(c),
         wanted'[c] = wanted[c], ForwardStep(c) => Head(toWebSocket[c]).id # o,
         db'[o] = db[o], view'[c][o] = view[c][o], objs'[c][o] = objs[c][o], Owes(c, o)
  PROVE  Owes(c, o)'
<1>1. db[o].v \in Nat
  BY WantedExists DEF Arriving, Delivers
<1>2. PICK u \in 1..db[o].v : Base(c, o, u) /\ \A x \in (u + 1)..db[o].v : Changes(c, o, x)
  BY DEF Owes
<1>3. u \in Nat /\ u > 0 /\ \A x \in (u + 1)..db[o].v : x \in Nat /\ x > 0
  BY <1>1
<1>4. Base(c, o, u)'
  BY <1>2, <1>3, OwedStays DEF Base
<1>5. \A x \in (u + 1)..db[o].v : Changes(c, o, x)'
  BY <1>2, <1>3, OwedStays
<1> QED
  BY <1>4, <1>5 DEF Owes

(* A request gives up no key an object it is owed is in, or has been in.   *)
LEMMA AskOwes ==
  ASSUME IInv, Arriving, MaxFaults = 0, Steady, Owed,
         NEW c \in Clients, NEW o \in Objects, BrowserStep(c), [Next]_vars,
         db'[o].key \in wanted'[c] \ Unloaded(c)'
  PROVE  Owes(c, o)'
<1>1. PICK r \in Request : UpdateSubscription(c, r)
  BY DEF BrowserStep
<1> DEFINE q == fromWebSocket[c]
<1>2. /\ r.remove \subseteq MayChange
      /\ wanted'[c] = (wanted[c] \ r.remove) \cup r.add
      /\ view'[c][o] = IF view[c][o].key \in r.remove THEN NoView ELSE view[c][o]
      /\ asked'[c] = asked[c] + 1
  BY <1>1 DEF UpdateSubscription, Ask, IInv, BrowserTypeOK, MayChange
<1>3. /\ fromWebSocket'[c] = Append(q, r) /\ q \in Seq(Request)
      /\ UNCHANGED <<loop, req, objs, db>>
  BY <1>1 DEF BrowserStep, UpdateSubscription, mutVars, IInv, ClientTypeOK
<1>4. Asked(Append(q, r)) = Asked(q) \cup r.add
  <2> DEFINE none == {}
  <2>1. AskedAgain(none, q) /\ none \subseteq none \cup r.add /\ none \cap r.remove = {}
    BY DEF AskedAgain
  <2> HIDE DEF none
  <2> QED
    BY <1>3, <2>1, AskedAppend
<1>5. Unloaded(c)' = Unloaded(c) \cup r.add
  BY <1>3, <1>4 DEF Unloaded, Handling
<1>6. db[o].key \in wanted[c] \ Unloaded(c) /\ db[o].key \notin r.remove
  BY <1>2, <1>3, <1>5
<1>7. db[o].v \in Nat
  BY <1>6, WantedExists DEF Arriving, Delivers
<1>8. \A w \in Claims(o) : w.v > 0 /\ w.key \in wanted[c] => w.key \in wanted'[c] /\ w.key \notin r.remove
  BY <1>2, <1>6, ClaimStays
<1>9. ~ ForwardStep(c)
  <2>1. asked[c] \in Nat
    BY DEF IInv, BrowserTypeOK
  <2>2. asked'[c] # asked[c]
    BY <1>2, <2>1
  <2> QED
    BY <2>2 DEF ForwardStep
<1>10. PICK u \in 1..db[o].v : Base(c, o, u) /\ \A x \in (u + 1)..db[o].v : Changes(c, o, x)
  BY <1>6 DEF Owed, Owes
<1>11. u \in Nat /\ u > 0 /\ \A x \in (u + 1)..db[o].v : x \in Nat /\ x > 0
  BY <1>7
<1>12. ASSUME NEW m \in Underway, Comes(c, m), m.id = o, m.type # "rem", m.v > 0,
              Says(m).key \in wanted[c]
       PROVE  m \in Underway' /\ Comes(c, m)' /\ Says(m).key \in wanted'[c]
  <2>1. m \in Underway' /\ Comes(c, m)'
    BY <1>6, <1>9, <1>12, OwedComes
  <2>2. Says(m) \in Claims(o) /\ Says(m).v > 0
    BY <1>12, SaidUnderway
  <2> QED
    BY <1>8, <1>12, <2>1, <2>2
<1>13. \A x \in (u + 1)..db[o].v : Changes(c, o, x)'
  <2> SUFFICES ASSUME NEW x \in (u + 1)..db[o].v PROVE Changes(c, o, x)'
    OBVIOUS
  <2>1. PICK m \in Underway : Comes(c, m) /\ m.type = "mod" /\ m.id = o /\ m.v = x
                              /\ Says(m).key \in wanted[c]
    BY <1>10 DEF Changes
  <2> QED
    BY <1>11, <1>12, <2>1 DEF Changes
<1>14. Base(c, o, u)'
  <2>1. CASE view[c][o].v = u
    <3>1. view[c][o].key \in wanted[c]
      <4>1. view[c][o] # NoView
        BY <1>11, <2>1 DEF NoView
      <4> QED
        BY <4>1 DEF Arriving, Delivers, Requests, Shown
    <3>2. At(view[c][o]) \in Claims(o) /\ At(view[c][o]).v = u /\ At(view[c][o]).key = view[c][o].key
      BY <2>1, ClaimParts DEF At
    <3>3. view'[c][o] = view[c][o]
      BY <1>2, <1>8, <1>11, <3>1, <3>2
    <3> QED
      BY <2>1, <3>3 DEF Base
  <2>2. CASE objs[c][o].v = u /\ objs[c][o].key \in wanted[c]
    <3>1. At(objs[c][o]) \in Claims(o) /\ At(objs[c][o]).v = u /\ At(objs[c][o]).key = objs[c][o].key
      BY <2>2, ClaimParts DEF At
    <3> QED
      BY <1>3, <1>8, <1>11, <2>2, <3>1 DEF Base
  <2>3. CASE Arrives(c, o, u)
    <3>1. PICK m \in Underway : Comes(c, m) /\ m.type = "add" /\ m.id = o /\ m.v = u
                                /\ m.skey \in wanted[c]
      BY <2>3 DEF Arrives
    <3>2. Says(m).key = m.skey
      BY <3>1 DEF Says
    <3> QED
      BY <1>11, <1>12, <3>1, <3>2 DEF Base, Arrives
  <2> QED
    BY <1>10, <2>1, <2>2, <2>3 DEF Base
<1> QED
  BY <1>3, <1>13, <1>14 DEF Owes

-----------------------------------------------------------------------------
(* A message is forwarded.                                                 *)

(* The head of a client's queue is the first to come of its object.        *)
LEMMA HeadComesFirst ==
  ASSUME IInv, Ordered, NEW c \in Clients, toWebSocket[c] # <<>>, NEW n, Comes(c, n),
         n.id = Head(toWebSocket[c]).id, n.type # "rem"
  PROVE  Head(toWebSocket[c]).v <= n.v
<1> DEFINE q == toWebSocket[c]
           m == Head(q)
<1>1. q \in Seq(Msg) /\ q # <<>> /\ InOrder(q)
  BY QueueTypes DEF Ordered
<1>2. m \in Range(q) /\ Range(q) = {m} \cup Range(Tail(q)) /\ m \in Msg
  BY <1>1, RangeTail, RangeIndex
<1>3. Before(m, m) /\ \A p \in Range(Tail(q)) : Before(m, p)
  BY <1>1, <1>2, BeforeItself, InOrderTail
<1>4. wire \in Seq(Msg)
  BY QueueTypes
<1>5. OnWire(c, n) => n \in Range(wire)
  BY <1>4, RangeIndex DEF OnWire
<1>6. n \in Range(q) \/ n \in Range(wire) \/ \E o \in Objects : n \in Range(outbox[o])
  BY <1>5 DEF Comes
<1>7. Before(m, n)
  BY <1>2, <1>3, <1>6 DEF Ordered, AllBefore
<1> QED
  BY <1>7 DEF Before

(* The browser's copy advances with it, or had it already, or is not what  *)
(* the browser is owed.                                                    *)
LEMMA ForwardOwes ==
  ASSUME IInv, Arriving, MaxFaults = 0, Steady, [Next]_vars,
         NEW c \in Clients, NEW o \in Objects, db[o].key \in wanted[c] \ Unloaded(c),
         ForwardStep(c), Head(toWebSocket[c]).id = o, Owes(c, o)
  PROVE  Owes(c, o)'
<1> DEFINE m == Head(toWebSocket[c])
           w == view[c][o]
           v == db[o].v
<1>1. /\ loop[c] = "select" /\ toWebSocket[c] # <<>>
      /\ view' = [view EXCEPT ![c][o] = Applied(@, m, wanted[c])]
      /\ db' = db /\ wanted' = wanted
  BY DEF ForwardStep, Forward, Receives, mutVars
<1>2. view'[c][o] = Applied(w, m, wanted[c]) /\ w \in View \cup {NoView} /\ w.v \in Nat
  BY <1>1, VersionTypes DEF IInv, BrowserTypeOK
<1>3. o \notin gone /\ v \in Nat /\ v > 0 /\ v = mem[o].v /\ wanted[c] \subseteq Keys
  BY WantedExists DEF Arriving, Delivers, IInv, BrowserTypeOK
<1>4. m \in Underway /\ Comes(c, m)
  <2>1. toWebSocket[c] \in Seq(Msg)
    BY QueueTypes
  <2> QED
    BY <1>1, <2>1, RangeTail, UnderwayParts DEF Comes
<1>5. m.type # "rem"
  BY <1>3, <1>4 DEF Arriving, Delivers, Shapes, WellFormed
<1>6. m \in Msg /\ m.v \in Nat /\ m.v <= v /\ Says(m) \in Claims(o) /\ Says(m).v = m.v
  BY <1>3, <1>4, <1>5, UnderwayStored, SaidUnderway
<1>7. PICK u \in 1..v : Base(c, o, u) /\ \A x \in (u + 1)..v : Changes(c, o, x)
  BY DEF Owes
<1>8. u \in Nat /\ u > 0 /\ u <= v /\ objs[c][o].v # u
  <2>1. objs[c][o] = NoDoc
    BY <1>1 DEF Arriving, Delivers, Requests, Shown
  <2> QED
    BY <1>3, <2>1, NoDocFields
<1> HIDE DEF m, w, v
<1>9. ASSUME NEW x \in 1..v, Changes(c, o, x), x # m.v \/ m.type = "add"
      PROVE  Changes(c, o, x)'
  <2>1. PICK n \in Underway : Comes(c, n) /\ n.type = "mod" /\ n.id = o /\ n.v = x
                              /\ Says(n).key \in wanted[c]
    BY <1>9 DEF Changes
  <2>2. n # m /\ n.v > 0
    BY <1>3, <1>9, <2>1
  <2>3. n \in Underway' /\ Comes(c, n)'
    BY <2>1, <2>2, OwedComes DEF m
  <2> QED
    BY <1>1, <2>1, <2>3 DEF Changes
<1>10. ASSUME NEW x \in 1..v, Arrives(c, o, x), x # m.v \/ m.type = "mod"
       PROVE  Arrives(c, o, x)'
  <2>1. PICK n \in Underway : Comes(c, n) /\ n.type = "add" /\ n.id = o /\ n.v = x
                              /\ n.skey \in wanted[c]
    BY <1>10 DEF Arrives
  <2>2. n # m /\ n.v > 0
    BY <1>3, <1>10, <2>1
  <2>3. n \in Underway' /\ Comes(c, n)'
    BY <2>1, <2>2, OwedComes DEF m
  <2> QED
    BY <1>1, <2>1, <2>3 DEF Arrives
<1>11. ASSUME NEW n, Comes(c, n), n.id = o, n.type # "rem"
       PROVE  m.v <= n.v
  BY <1>1, <1>11, HeadComesFirst DEF m, Arriving, Delivers
<1>12. ASSUME NEW x \in 1..v, Base(c, o, x)', \A y \in (x + 1)..v : Changes(c, o, y)'
       PROVE  Owes(c, o)'
  BY <1>1, <1>12 DEF Owes, v
<1>13. m.type \in {"add", "mod"}
  BY <1>5, <1>6 DEF Msg
<1>14. w.v <= v
  BY <1>2, <1>3, ClaimsStored, ClaimParts DEF At, w, v
<1>15. CASE m.type = "mod"
  <2>1. view'[c][o] = IF w # NoView /\ w.v < m.v
                        THEN Placed(w, Says(m).key, m.v, wanted[c]) ELSE w
    BY <1>2, <1>15 DEF Applied, OnMod, Says
  <2>2. CASE w.v = u /\ m.v <= u
    <3>1. view'[c][o].v = u
      BY <1>6, <1>8, <2>1, <2>2
    <3>2. \A x \in (u + 1)..v : Changes(c, o, x)'
      BY <1>3, <1>6, <1>7, <1>8, <1>9, <2>2
    <3> QED
      BY <1>7, <1>12, <3>1, <3>2 DEF Base
  <2>3. CASE w.v = u /\ m.v > u
    <3>1. u + 1 \in (u + 1)..v
      BY <1>3, <1>6, <1>8, <2>3
    <3>2. PICK n \in Underway : Comes(c, n) /\ n.type = "mod" /\ n.id = o /\ n.v = u + 1
                                /\ Says(n).key \in wanted[c]
      BY <1>7, <3>1 DEF Changes
    <3>3. m.v = u + 1
      <4>1. m.v <= u + 1
        BY <1>11, <3>2
      <4> QED
        BY <1>6, <1>8, <2>3, <4>1
    <3>4. Says(m).key \in wanted[c]
      <4>1. Says(n) \in Claims(o) /\ Says(n).v = Says(m).v
        BY <1>6, <3>2, <3>3, SaidUnderway
      <4> QED
        BY <1>6, <3>2, <4>1 DEF Arriving, Delivers, Agree
    <3>5. view'[c][o].v = u + 1
      <4>1. w # NoView /\ w.v < m.v
        BY <1>6, <1>8, <2>3 DEF NoView
      <4> QED
        BY <2>1, <3>3, <3>4, <4>1 DEF Placed
    <3>6. \A x \in (u + 2)..v : Changes(c, o, x)'
      BY <1>3, <1>7, <1>8, <1>9, <3>3
    <3>7. u + 1 \in 1..v /\ (u + 1) + 1 = u + 2
      BY <1>3, <1>8, <3>1
    <3>8. Base(c, o, u + 1)'
      BY <3>5 DEF Base
    <3> QED
      BY <1>12, <3>6, <3>7, <3>8
  <2>4. CASE Arrives(c, o, u)
    <3>1. Arrives(c, o, u)'
      BY <1>7, <1>10, <1>15, <2>4
    <3>2. m.v <= u
      BY <1>11, <2>4 DEF Arrives
    <3>3. \A x \in (u + 1)..v : Changes(c, o, x)'
      BY <1>3, <1>6, <1>7, <1>8, <1>9, <3>2
    <3> QED
      BY <1>7, <1>12, <3>1, <3>3 DEF Base
  <2> QED
    BY <1>6, <1>7, <1>8, <2>2, <2>3, <2>4 DEF Base, w
<1>16. CASE m.type = "add"
  <2>1. view'[c][o] = IF m.skey \in wanted[c] /\ w.v < m.v
                        THEN Placed(w, m.skey, m.v, wanted[c]) ELSE w
    BY <1>2, <1>16 DEF Applied, OnAdd
  <2>2. view'[c][o].v = IF m.skey \in wanted[c] /\ w.v < m.v THEN m.v ELSE w.v
    BY <2>1 DEF Placed
  <2>3. \A x \in 1..v : Changes(c, o, x) => Changes(c, o, x)'
    BY <1>9, <1>16
  <2>4. ASSUME NEW x \in u..v, view'[c][o].v = x
        PROVE  Owes(c, o)'
    <3>1. x \in 1..v /\ \A y \in (x + 1)..v : y \in (u + 1)..v /\ y \in 1..v
      BY <1>3, <1>8
    <3>2. \A y \in (x + 1)..v : Changes(c, o, y)'
      BY <1>7, <2>3, <3>1
    <3>3. Base(c, o, x)'
      BY <2>4 DEF Base
    <3> QED
      BY <1>12, <3>1, <3>2, <3>3
  <2>5. CASE w.v = u
    <3>1. view'[c][o].v \in u..v
      BY <1>3, <1>6, <1>8, <2>2, <2>5
    <3> QED
      BY <2>4, <3>1
  <2>6. CASE Arrives(c, o, u) /\ u # m.v
    <3>1. Arrives(c, o, u)'
      BY <1>7, <1>10, <2>6
    <3>2. \A y \in (u + 1)..v : y \in 1..v
      BY <1>3, <1>8
    <3>3. \A y \in (u + 1)..v : Changes(c, o, y)'
      BY <1>7, <2>3, <3>2
    <3> QED
      BY <1>7, <1>12, <3>1, <3>3 DEF Base
  <2>7. CASE Arrives(c, o, u) /\ u = m.v
    <3>1. PICK n \in Underway : Comes(c, n) /\ n.type = "add" /\ n.id = o /\ n.v = u
                                /\ n.skey \in wanted[c]
      BY <2>7 DEF Arrives
    <3>2. Says(n) \in Claims(o) /\ Says(n).v = u /\ Says(n).key = n.skey
      BY <3>1, SaidUnderway DEF Says
    <3>3. Says(m).key = m.skey
      BY <1>16 DEF Says
    <3>4. m.skey \in wanted[c]
      BY <1>6, <2>7, <3>1, <3>2, <3>3 DEF Arriving, Delivers, Agree
    <3>5. view'[c][o].v \in u..v
      BY <1>2, <1>3, <1>6, <1>8, <1>14, <2>2, <2>7, <3>4
    <3> QED
      BY <2>4, <3>5
  <2> QED
    BY <1>7, <1>8, <2>5, <2>6, <2>7 DEF Base, w
<1> QED
  BY <1>13, <1>15, <1>16

-----------------------------------------------------------------------------
(* A request is handled.                                                   *)

(* A handling step takes the main loop elsewhere, forwarding does not.     *)
LEMMA HandleGoesOn ==
  ASSUME IInv, NEW c \in Clients, HandleStep(c)
  PROVE  /\ ~ ForwardStep(c) /\ wanted' = wanted /\ db' = db
         /\ loop \in [Clients -> LoopState]
<1>1. loop \in [Clients -> LoopState] /\ wanted' = wanted /\ db' = db
  BY DEF IInv, ClientTypeOK, HandleStep, mutVars, browserVars
<1>2. loop'[c] # loop[c]
  BY <1>1 DEF HandleStep, HandleMessage, RemoveKeys, AddKeys, LoadObjects, UpdateAgents,
              WriteObjects, Goto, LoopState
<1> QED
  BY <1>1, <1>2 DEF ForwardStep, Forward

(* Until Load, the keys stay to be loaded.                                 *)
LEMMA HandleUnloaded ==
  ASSUME IInv, Requests, NEW c \in Clients, HandleStep(c)
  PROVE  /\ ~ LoadObjects(c) => Unloaded(c)' = Unloaded(c)
         /\ LoadObjects(c) => Unloaded(c)' = Asked(fromWebSocket[c])
                              /\ Unloaded(c) = Asked(fromWebSocket[c]) \cup req[c].add
<1> DEFINE q == fromWebSocket[c]
<1>1. /\ loop \in [Clients -> LoopState] /\ req \in [Clients -> Request]
      /\ fromWebSocket \in [Clients -> Seq(Request)]
  BY DEF IInv, ClientTypeOK
<1>2. CASE HandleMessage(c)
  <2>1. /\ loop[c] = "select" /\ loop'[c] = "remove" /\ q # <<>>
        /\ req'[c] = Head(q) /\ fromWebSocket'[c] = Tail(q)
    BY <1>1, <1>2 DEF HandleMessage, Goto
  <2>2. AskedAgain(wanted[c], q) /\ q \in Seq(Request)
    BY <1>1 DEF Requests, Pending
  <2>3. Asked(q) = Head(q).add \cup Asked(Tail(q))
    BY <2>1, <2>2, AskedTail
  <2>4. Unloaded(c) = Asked(q)
    BY <2>1 DEF Unloaded, Handling
  <2>5. Unloaded(c)' = Asked(Tail(q)) \cup Head(q).add
    BY <2>1 DEF Unloaded, Handling
  <2> QED
    BY <2>1, <2>3, <2>4, <2>5 DEF LoadObjects, Goto
<1>3. CASE RemoveKeys(c) \/ AddKeys(c)
  BY <1>1, <1>3 DEF RemoveKeys, AddKeys, LoadObjects, Goto, Unloaded, Handling
<1>4. CASE UpdateAgents(c)
  BY <1>1, <1>4 DEF UpdateAgents, LoadObjects, Goto, Unloaded, Handling
<1>5. CASE LoadObjects(c)
  BY <1>1, <1>5 DEF LoadObjects, Goto, Unloaded, Handling
<1>6. CASE WriteObjects(c)
  BY <1>1, <1>6 DEF WriteObjects, LoadObjects, Goto, Unloaded, Handling
<1> QED
  BY <1>2, <1>3, <1>4, <1>5, <1>6 DEF HandleStep

(* What is loaded is the latest.                                           *)
LEMMA LoadOwes ==
  ASSUME IInv, Arriving, MaxFaults = 0, Steady, Owed, [Next]_vars,
         NEW c \in Clients, NEW o \in Objects, HandleStep(c), LoadObjects(c),
         db'[o].key \in wanted'[c] \ Unloaded(c)'
  PROVE  Owes(c, o)'
<1>1. ~ ForwardStep(c) /\ wanted' = wanted /\ db' = db
  BY HandleGoesOn
<1>2. Unloaded(c) = Asked(fromWebSocket[c]) \cup req[c].add
      /\ Unloaded(c)' = Asked(fromWebSocket[c])
  BY HandleUnloaded DEF Arriving, Delivers
<1>3. /\ loop[c] = "load" /\ view' = view
      /\ objs' = [objs EXCEPT ![c] = Load(req[c].add)]
  <2>1. ~ UpdateAgents(c) /\ ~ WriteObjects(c)
    BY DEF LoadObjects, UpdateAgents, WriteObjects, Goto
  <2> QED
    BY <2>1 DEF HandleStep, LoadObjects, Goto, browserVars
<1>4. objs'[c][o] = IF db[o].sub \in req[c].add THEN db[o] ELSE NoDoc
  BY <1>3 DEF Load, IInv, ClientTypeOK
<1>5. db[o].v \in Nat /\ db[o].v > 0 /\ db[o] # NoDoc
  BY <1>1, WantedExists DEF Arriving, Delivers
<1>6. CASE db[o].key \in req[c].add
  <2>1. objs'[c][o] = db[o]
    BY <1>4, <1>6, IInvImplies DEF StoredSubIsCurrent
  <2>2. Base(c, o, db[o].v)'
    BY <1>1, <2>1 DEF Base
  <2>3. db[o].v \in 1..db[o].v /\ (db[o].v + 1)..db[o].v = {}
    BY <1>5
  <2> QED
    BY <1>1, <2>2, <2>3 DEF Owes
<1>7. CASE db[o].key \notin req[c].add
  <2>1. db[o].key \in wanted[c] \ Unloaded(c) /\ Owes(c, o)
    BY <1>1, <1>2, <1>7 DEF Owed
  <2>2. PICK u \in 1..db[o].v : Base(c, o, u) /\ \A x \in (u + 1)..db[o].v : Changes(c, o, x)
    BY <2>1 DEF Owes
  <2>3. u \in Nat /\ u > 0 /\ \A x \in (u + 1)..db[o].v : x \in Nat /\ x > 0
    BY <1>5
  <2>4. objs[c][o].v # u
    <3>1. objs[c][o] = NoDoc
      BY <1>3 DEF Arriving, Delivers, Requests, Shown
    <3> QED
      BY <2>3, <3>1, NoDocFields
  <2>5. Base(c, o, u)'
    <3>1. Arrives(c, o, u) => Arrives(c, o, u)'
      BY <1>1, <2>1, <2>3, OwedStays
    <3>2. view'[c][o] = view[c][o]
      BY <1>3
    <3> QED
      BY <2>2, <2>4, <3>1, <3>2 DEF Base
  <2>6. \A x \in (u + 1)..db[o].v : Changes(c, o, x)'
    BY <1>1, <2>1, <2>2, <2>3, OwedStays
  <2> QED
    BY <1>1, <2>5, <2>6 DEF Owes
<1> QED
  BY <1>6, <1>7

(* What is written is no older than what the browser had.                  *)
LEMMA WriteOwes ==
  ASSUME IInv, Arriving, MaxFaults = 0, Steady, Owed, [Next]_vars,
         NEW c \in Clients, NEW o \in Objects, HandleStep(c), WriteObjects(c),
         db'[o].key \in wanted'[c] \ Unloaded(c)'
  PROVE  Owes(c, o)'
<1> DEFINE w == view[c][o]
           d == objs[c][o]
           v == db[o].v
<1>1. ~ ForwardStep(c) /\ wanted' = wanted /\ db' = db
  BY HandleGoesOn
<1>2. Unloaded(c)' = Unloaded(c)
  <2>1. ~ LoadObjects(c)
    BY DEF LoadObjects, WriteObjects, Goto
  <2> QED
    BY <2>1, HandleUnloaded DEF Arriving, Delivers
<1>3. db[o].key \in wanted[c] \ Unloaded(c) /\ Owes(c, o)
  BY <1>1, <1>2 DEF Owed
<1>4. v \in Nat /\ v > 0 /\ v = mem[o].v
  BY <1>3, WantedExists DEF Arriving, Delivers
<1>5. /\ w.v \in Nat /\ w.v <= v /\ d.v \in Nat /\ d.v <= v
  <2>1. At(w) \in Claims(o) /\ At(d) \in Claims(o) /\ At(w).v = w.v /\ At(d).v = d.v
    BY ClaimParts DEF At
  <2> QED
    BY <1>4, <2>1, ClaimsStored, ClaimVersions
<1>6. view'[c][o] = IF d # NoDoc /\ d.key \in wanted[c] /\ w.v < d.v
                      THEN [key |-> d.key, v |-> d.v] ELSE w
  <2>1. view'[c][o] = IF d = NoDoc THEN w
                      ELSE Applied(w, AddMsg(o, d.key, NoKey, d.v), wanted[c])
    BY DEF WriteObjects, ReceivesAll, IInv, BrowserTypeOK
  <2> QED
    BY <2>1 DEF Applied, OnAdd, AddMsg, Placed
<1>7. PICK u \in 1..v : Base(c, o, u) /\ \A x \in (u + 1)..v : Changes(c, o, x)
  BY <1>3 DEF Owes
<1> HIDE DEF w, d, v
<1>8. u \in Nat /\ u > 0 /\ \A x \in (u + 1)..v : x \in Nat /\ x > 0
  BY <1>4
<1>9. \A x \in (u + 1)..v : Changes(c, o, x)'
  BY <1>1, <1>3, <1>7, <1>8, OwedStays
<1>10. CASE w.v = u \/ (d.v = u /\ d.key \in wanted[c])
  <2>1. d.v = u => d # NoDoc
    BY <1>8, NoDocFields
  <2>2. view'[c][o].v \in u..v
    BY <1>4, <1>5, <1>6, <1>8, <1>10, <2>1
  <2>3. PICK x \in u..v : view'[c][o].v = x
    BY <2>2
  <2>4. x \in 1..v /\ \A y \in (x + 1)..v : y \in (u + 1)..v
    BY <1>4, <1>8
  <2>5. Base(c, o, x)' /\ \A y \in (x + 1)..v : Changes(c, o, y)'
    BY <1>9, <2>3, <2>4 DEF Base
  <2> QED
    BY <1>1, <2>4, <2>5 DEF Owes, v
<1>11. CASE Arrives(c, o, u)
  <2>1. Base(c, o, u)'
    BY <1>1, <1>3, <1>8, <1>11, OwedStays DEF Base
  <2> QED
    BY <1>1, <1>7, <1>9, <2>1 DEF Owes, v
<1> QED
  BY <1>7, <1>10, <1>11 DEF Base, w, d

LEMMA HandleOwes ==
  ASSUME IInv, Arriving, MaxFaults = 0, Steady, Owed, [Next]_vars,
         NEW c \in Clients, NEW o \in Objects, HandleStep(c),
         db'[o].key \in wanted'[c] \ Unloaded(c)'
  PROVE  Owes(c, o)'
<1>1. CASE ~ LoadObjects(c) /\ ~ WriteObjects(c)
  <2>1. ~ ForwardStep(c) /\ wanted' = wanted /\ db' = db /\ view' = view /\ objs' = objs
    <3>1. view' = view /\ objs' = objs
      BY <1>1 DEF HandleStep, HandleMessage, RemoveKeys, AddKeys, UpdateAgents, browserVars
    <3> QED
      BY <3>1, HandleGoesOn
  <2>2. Unloaded(c)' = Unloaded(c)
    BY <1>1, HandleUnloaded DEF Arriving, Delivers
  <2>3. db[o].key \in wanted[c] \ Unloaded(c) /\ Owes(c, o)
    BY <2>1, <2>2 DEF Owed
  <2> QED
    BY <2>1, <2>3, NeutralOwes
<1> QED
  BY <1>1, LoadOwes, WriteOwes

-----------------------------------------------------------------------------
(* A call is made.                                                         *)

(* What it publishes in a channel of c comes to c.                         *)
LEMMA CallComes ==
  ASSUME IInv, NEW o \in Objects, NEW msgs, Call(o, msgs), NEW c \in Clients,
         NEW m \in Range(msgs), m.skey \in agents[c], ~ Filtered(c, m)
  PROVE  m \in Underway' /\ Comes(c, m)' /\ wanted' = wanted
<1>1. /\ outbox'[o] = msgs /\ agents' = agents /\ subscriptions' = subscriptions
      /\ wanted' = wanted
  BY DEF Call, busVars, clientVars, browserVars
<1>2. ~ Filtered(c, m)'
  BY <1>1 DEF Filtered
<1>3. m \in Range(outbox'[o])
  BY <1>1
<1> QED
  BY <1>1, <1>2, <1>3 DEF Comes, Underway

(* The change is owed on top of what was owed.                             *)
LEMMA CallAdds ==
  ASSUME IInv, Arriving, MaxFaults = 0, Steady, [Next]_vars,
         NEW c \in Clients, NEW o \in Objects, db[o].key \in wanted[c] \ Unloaded(c),
         NEW s, NEW msgs, Stores(o, s), Call(o, msgs), Owes(c, o), Changes(c, o, s.v)'
  PROVE  Owes(c, o)'
<1> DEFINE v == db[o].v
<1>1. v \in Nat /\ v > 0 /\ v = mem[o].v
  BY WantedExists DEF Arriving, Delivers
<1>2. db'[o].v = v + 1 /\ s.v = v + 1 /\ mem'[o].v # mem[o].v
  BY <1>1 DEF Stores, Marshal
<1>3. /\ view' = view /\ objs' = objs /\ wanted' = wanted
      /\ ~ ForwardStep(c)
  BY <1>2 DEF Call, ForwardStep, mutVars, browserVars, clientVars
<1>4. PICK u \in 1..v : Base(c, o, u) /\ \A x \in (u + 1)..v : Changes(c, o, x)
  BY DEF Owes
<1> HIDE DEF v
<1>5. u \in Nat /\ u > 0 /\ u \in 1..(v + 1)
  BY <1>1
<1>6. Base(c, o, u)'
  <2>1. Arrives(c, o, u) => Arrives(c, o, u)'
    BY <1>3, <1>5, OwedStays
  <2> QED
    BY <1>3, <1>4, <2>1 DEF Base
<1>7. ASSUME NEW x \in (u + 1)..(v + 1) PROVE Changes(c, o, x)'
  <2>1. x = v + 1 \/ (x \in (u + 1)..v /\ x \in Nat /\ x > 0)
    BY <1>1, <1>5
  <2>2. CASE x = v + 1
    BY <1>2, <2>2
  <2>3. CASE x \in (u + 1)..v /\ x \in Nat /\ x > 0
    <3>1. Changes(c, o, x)
      BY <1>4, <2>3
    <3> QED
      BY <1>3, <2>3, <3>1, OwedStays
  <2> QED
    BY <2>1, <2>2, <2>3
<1> QED
  BY <1>2, <1>5, <1>6, <1>7 DEF Owes

(* An arrival is owed instead of what was owed.                            *)
LEMMA CallRenews ==
  ASSUME IInv, NEW c \in Clients, NEW o \in Objects, NEW s, Stores(o, s),
         Arrives(c, o, s.v)'
  PROVE  Owes(c, o)'
<1>1. db'[o].v = s.v /\ s.v = mem[o].v + 1 /\ mem[o].v \in Nat
  BY DEF Stores, Marshal, IInv, MutInv, MongoTypeOK, Struct
<1>2. s.v \in 1..s.v /\ (s.v + 1)..s.v = {}
  BY <1>1
<1> QED
  BY <1>1, <1>2 DEF Owes, Base

LEMMA CallOwes ==
  ASSUME IInv, Arriving, MaxFaults = 0, Steady, Owed, [Next]_vars,
         NEW c \in Clients, NEW o \in Objects, Calls(o),
         db'[o].key \in wanted'[c] \ Unloaded(c)'
  PROVE  Owes(c, o)'
<1>1. PICK msgs : Call(o, msgs)
  BY DEF Calls, Created, Updated, Moved, Deleted
<1>2. /\ wanted' = wanted /\ Unloaded(c)' = Unloaded(c)
      /\ o \notin gone /\ outbox'[o] = msgs
  BY <1>1 DEF Call, browserVars, clientVars, Unloaded, Handling
<1>3. wanted[c] \ Unloaded(c) \subseteq agents[c] /\ Unloaded(c) \subseteq MayAdd
      /\ wanted[c] \subseteq Keys
  BY UnloadedKeys DEF Arriving, Delivers, Requests, Subscribed, IInv, BrowserTypeOK
<1>4. ~ Deleted(o)
  BY <1>2, <1>3, NoKeyAssumption DEF Deleted, NoDoc
<1>5. PICK s : Stores(o, s)
  BY <1>4 DEF Calls, Created, Updated, Moved
<1>6. s.key \in wanted[c] \ Unloaded(c) /\ s.key \in agents[c] /\ s.key \in Keys
  BY <1>2, <1>3, <1>5, StoresFacts DEF At
<1>7. mem'[o] = s
  BY <1>5, StoresFacts
<1>8. db[o] # NoDoc => db[o].key = mem[o].key
  BY DEF Arriving, Delivers, Calm, CalmObject, At
<1>9. CASE Created(o)
  <2> DEFINE m == AddMsg(o, s.key, NoKey, s.v)
  <2>1. msgs = <<m>>
    BY <1>2, <1>7, <1>9, StoresFacts DEF Created, Call
  <2>2. m \in Range(msgs) /\ ~ Filtered(c, m)
    BY <2>1, RangeOne DEF AddMsg, Filtered
  <2>3. /\ m.skey = s.key /\ m.id = o /\ m.type = "add" /\ m.v = s.v
    BY DEF AddMsg
  <2> HIDE DEF m
  <2>4. m \in Underway' /\ Comes(c, m)'
    BY <1>1, <1>6, <2>2, <2>3, CallComes
  <2>5. Arrives(c, o, s.v)'
    BY <1>2, <1>6, <2>3, <2>4 DEF Arrives
  <2> QED
    BY <1>5, <2>5, CallRenews
<1>10. CASE Updated(o)
  <2> DEFINE m == ModMsg(o, s.key, s.key, s.v)
  <2>1. msgs = <<m>> /\ mem[o].key = s.key /\ db[o] # NoDoc
    BY <1>2, <1>7, <1>10, StoresFacts DEF Updated, Call
  <2>2. m \in Range(msgs) /\ ~ Filtered(c, m)
    BY <2>1, RangeOne DEF ModMsg, Filtered
  <2>3. /\ m.skey = s.key /\ m.id = o /\ m.type = "mod" /\ m.v = s.v
        /\ Says(m).key = s.key
    BY DEF ModMsg, Says
  <2> HIDE DEF m
  <2>4. m \in Underway' /\ Comes(c, m)'
    BY <1>1, <1>6, <2>2, <2>3, CallComes
  <2>5. Changes(c, o, s.v)'
    BY <1>2, <1>6, <2>3, <2>4 DEF Changes
  <2>6. db[o].key \in wanted[c] \ Unloaded(c)
    BY <1>6, <1>8, <2>1
  <2> QED
    BY <1>1, <1>5, <2>5, <2>6, CallAdds DEF Owed
<1>11. CASE Moved(o)
  <2>0. PICK k : k = mem[o].key
    OBVIOUS
  <2> DEFINE m == ModMsg(o, k, s.key, s.v)
             a == AddMsg(o, s.key, k, s.v)
  <2>1. msgs = <<m, a>> /\ s.key # k /\ k \in Sources /\ db[o] # NoDoc
    BY <1>2, <1>7, <1>11, <2>0, StoresFacts DEF Moved, Call
  <2>2. m \in Range(msgs) /\ a \in Range(msgs)
    BY <2>1, RangeTwo
  <2>3. k \notin MayChange
    BY <2>1 DEF Steady
  <2>4. CASE k \in wanted[c]
    <3>1. k \in wanted[c] \ Unloaded(c) /\ k \in agents[c]
      BY <1>3, <2>3, <2>4 DEF MayChange
    <3>2. ~ Filtered(c, m)
      BY DEF ModMsg, Filtered
    <3>3. /\ m.skey = k /\ m.id = o /\ m.type = "mod" /\ m.v = s.v
          /\ Says(m).key = s.key
      BY <1>6, <2>1, NoKeyAssumption DEF ModMsg, Says
    <3> HIDE DEF m
    <3>4. m \in Underway' /\ Comes(c, m)'
      BY <1>1, <2>2, <3>1, <3>2, <3>3, CallComes
    <3>5. Changes(c, o, s.v)'
      BY <1>2, <1>6, <3>3, <3>4 DEF Changes
    <3>6. db[o].key \in wanted[c] \ Unloaded(c)
      BY <1>8, <2>0, <2>1, <3>1
    <3> QED
      BY <1>1, <1>5, <3>5, <3>6, CallAdds DEF Owed
  <2>5. CASE k \notin wanted[c]
    <3>1. k \notin subscriptions[c]
      BY <2>3, <2>5 DEF Arriving, Delivers, Requests, Subscribed
    <3>2. ~ Filtered(c, a)
      BY <3>1 DEF AddMsg, Filtered
    <3>3. /\ a.skey = s.key /\ a.id = o /\ a.type = "add" /\ a.v = s.v
      BY DEF AddMsg
    <3> HIDE DEF a
    <3>4. a \in Underway' /\ Comes(c, a)'
      BY <1>1, <1>6, <2>2, <3>2, <3>3, CallComes
    <3>5. Arrives(c, o, s.v)'
      BY <1>2, <1>6, <3>3, <3>4 DEF Arrives
    <3> QED
      BY <1>5, <3>5, CallRenews
  <2> QED
    BY <2>4, <2>5
<1> QED
  BY <1>4, <1>9, <1>10, <1>11 DEF Calls

-----------------------------------------------------------------------------
(* The inductive invariant.                                                *)

(* The documents change by calls only.                                     *)
LEMMA OnlyCallsWrite ==
  ASSUME IInv, Calm, MaxFaults = 0, [Next]_vars, NEW o \in Objects, ~ Calls(o)
  PROVE  db'[o] = db[o]
<1>1. CASE Mutate
  <2>1. PICK p \in Objects : Renamed(p) \/ Calls(p) \/ Publish(p)
    BY <1>1, MutateCases DEF Calls
  <2>2. CASE Calls(p)
    <3>1. p # o
      BY <2>2
    <3> QED
      BY <2>2, <3>1 DEF Calls, Created, Updated, Moved, Deleted, Call
  <2> QED
    BY <2>1, <2>2 DEF Renamed, Publish
<1>2. CASE ~ Mutate
  <2>1. UNCHANGED mutVars
    BY <1>2 DEF Next, vars, BusStep, BrowserStep, ReceiveStep, ForwardStep, HandleStep, FatalStep
  <2> QED
    BY <2>1 DEF mutVars
<1> QED
  BY <1>1, <1>2

LEMMA StepOwed ==
  ASSUME MaxFaults = 0, Steady, IInv, Arriving, Owed, [Next]_vars
  PROVE  Owed'
<1> SUFFICES ASSUME NEW c \in Clients, NEW o \in Objects,
                    db'[o].key \in wanted'[c] \ Unloaded(c)'
             PROVE  Owes(c, o)'
  BY DEF Owed
<1>1. CASE Calls(o)
  BY <1>1, CallOwes
<1>2. CASE BrowserStep(c)
  BY <1>2, AskOwes
<1>3. CASE HandleStep(c)
  BY <1>3, HandleOwes
<1>4. CASE ~ Calls(o) /\ ForwardStep(c)
  <2>1. /\ db' = db /\ wanted' = wanted /\ objs' = objs /\ Unloaded(c)' = Unloaded(c)
        /\ view' = [view EXCEPT ![c][Head(toWebSocket[c]).id] =
                      Applied(@, Head(toWebSocket[c]), wanted[c])]
    BY <1>4 DEF ForwardStep, Forward, Receives, mutVars, Unloaded, Handling
  <2>2. db[o].key \in wanted[c] \ Unloaded(c) /\ Owes(c, o)
    BY <2>1 DEF Owed
  <2>3. CASE Head(toWebSocket[c]).id = o
    BY <1>4, <2>2, <2>3, ForwardOwes
  <2>4. CASE Head(toWebSocket[c]).id # o
    <3>1. view'[c][o] = view[c][o]
      BY <2>1, <2>4 DEF IInv, BrowserTypeOK
    <3> QED
      BY <2>1, <2>2, <2>4, <3>1, NeutralOwes
  <2> QED
    BY <2>3, <2>4
<1>5. CASE ~ Calls(o) /\ ~ BrowserStep(c) /\ ~ HandleStep(c) /\ ~ ForwardStep(c)
  <2>1. Untouched(c)
    BY <1>5, OthersUntouched
  <2>2. db'[o] = db[o]
    BY <1>5, OnlyCallsWrite DEF Arriving, Delivers
  <2>3. Unloaded(c)' = Unloaded(c)
    BY <2>1 DEF Untouched, Unloaded, Handling
  <2>4. db[o].key \in wanted[c] \ Unloaded(c) /\ Owes(c, o)
    BY <2>1, <2>2, <2>3 DEF Owed, Untouched
  <2> QED
    BY <1>5, <2>1, <2>2, <2>4, NeutralOwes DEF Untouched
<1> QED
  BY <1>1, <1>2, <1>3, <1>4, <1>5

LEMMA InitOwed ==
  ASSUME Init
  PROVE  Owed
<1>1. \A o \in Objects : db[o] = NoDoc
  BY DEF Init, MongoInit
<1>2. \A c \in Clients : wanted[c] \subseteq Keys
  BY JoinedAssumption DEF Init, BrowserInit
<1> QED
  BY <1>1, <1>2, NoKeyAssumption DEF Owed, NoDoc

-----------------------------------------------------------------------------
(* What follows.                                                           *)

(* A copy is of a version, in a key the browser wants.                     *)
LEMMA CopyIsClaim ==
  ASSUME IInv, Arriving, NEW c \in Clients, NEW o \in Objects, view[c][o] # NoView
  PROVE  /\ view[c][o].key \in wanted[c] /\ view[c][o].v \in Nat /\ view[c][o].v > 0
         /\ At(view[c][o]) \in Claims(o)
         /\ At(view[c][o]).key = view[c][o].key /\ At(view[c][o]).v = view[c][o].v
<1> DEFINE w == view[c][o]
<1>1. w \in View /\ w = At(w) /\ w.v \in Nat
  BY DEF IInv, BrowserTypeOK, View, At
<1>2. At(w) \in Claims(o) /\ w.key \in wanted[c]
  BY ClaimParts DEF Arriving, Delivers, Requests, Shown
<1>3. w.v # 0
  <2>1. Nothing.v = 0 /\ w # Nothing
    BY DEF Nothing, NoView
  <2> QED
    BY <1>1, <1>2, <2>1 DEF Arriving, Delivers, Agree
<1> QED
  BY <1>1, <1>2, <1>3

(* When no request waits, all the keys it wants have been loaded.          *)
LEMMA AllLoaded ==
  ASSUME NEW c \in Clients, fromWebSocket[c] = <<>>, loop[c] = "select"
  PROVE  Unloaded(c) = {}
BY AskedEmpty DEF Unloaded, Handling

LEMMA SettledHasAll ==
  ASSUME IInv, Arriving, Owed, NEW c \in Clients, NEW o \in Objects, Settled(c),
         db[o].key \in wanted[c]
  PROVE  view[c][o] = Current(c, o)
<1>1. Owes(c, o)
  BY AllLoaded DEF Owed, Settled
<1>2. db[o].v = mem[o].v /\ db[o].v \in Nat /\ o \notin gone
  BY WantedExists DEF Arriving, Delivers
<1>3. PICK u \in 1..db[o].v : Base(c, o, u) /\ \A x \in (u + 1)..db[o].v : Changes(c, o, x)
  BY <1>1 DEF Owes
<1>4. ~ Arrives(c, o, u) /\ \A x : ~ Changes(c, o, x)
  BY NothingComes DEF Arrives, Changes
<1>5. u = db[o].v /\ u > 0
  BY <1>2, <1>3, <1>4
<1>6. objs[c][o].v # u
  <2>1. objs[c][o] = NoDoc
    BY DEF Settled, Arriving, Delivers, Requests, Shown
  <2> QED
    BY <1>2, <1>5, <2>1, NoDocFields
<1>7. view[c][o].v = mem[o].v /\ view[c][o] # NoView
  BY <1>2, <1>3, <1>4, <1>5, <1>6 DEF Base, NoView
<1> QED
  BY <1>2, <1>7, CopyIsClaim, LatestIsCurrent DEF Arriving, Delivers

(* A copy of an object that has left the key is one of a key kept.         *)
LEMMA LeftIsKept ==
  ASSUME IInv, Arriving, Steady, NEW c \in Clients, NEW o \in Objects, o \notin gone,
         view[c][o] # NoView, view[c][o].key \notin kept[c]
  PROVE  db[o] # NoDoc /\ view[c][o].key = db[o].key
<1> DEFINE w == At(view[c][o])
<1>1. w \in Claims(o) /\ w.key = view[c][o].key /\ w.v > 0 /\ w.key \in wanted[c]
  BY CopyIsClaim
<1>2. db[o] # NoDoc /\ (w.key # db[o].key => w.key \in Sources)
  BY <1>1, WhereItHasBeen DEF Arriving, Delivers
<1>3. w.key \in MayAdd
  BY <1>1 DEF Arriving, Delivers, Requests, Subscribed
<1> QED
  BY <1>1, <1>2, <1>3 DEF Steady, MayChange

LEMMA SettledIsCurrent ==
  ASSUME IInv, Arriving, Owed, Steady, NEW c \in Clients, NEW o \in Objects, Settled(c),
         o \notin gone, view[c][o] # NoView
  PROVE  view[c][o] = Current(c, o)
<1>1. CASE view[c][o].key \in kept[c]
  BY <1>1, SettledIsFollowed DEF Arriving
<1>2. CASE view[c][o].key \notin kept[c]
  BY <1>2, LeftIsKept, CopyIsClaim, SettledHasAll
<1> QED
  BY <1>1, <1>2

LEMMA OwedIsGapless ==
  ASSUME IInv, Arriving, Owed, Steady, NEW c \in Clients,
         loop[c] = "select", fromWebSocket[c] = <<>>, toWebSocket[c] # <<>>,
         NEW m, m = Head(toWebSocket[c]), m.type = "mod",
         view[c][m.id] # NoView, m.id \notin gone
  PROVE  m.v <= view[c][m.id].v + 1
<1> DEFINE o == m.id
           w == view[c][o]
<1>1. m \in Underway /\ m \in Msg /\ m.v \in Nat /\ m.v <= mem[o].v /\ o \in Objects
  <2>1. toWebSocket[c] \in Seq(Msg)
    BY QueueTypes
  <2>2. m \in Underway
    BY <2>1, RangeTail, UnderwayParts
  <2> QED
    BY <2>2, UnderwayStored DEF Msg
<1>2. /\ w.v \in Nat /\ w.v > 0 /\ w.key \in wanted[c]
      /\ At(w) \in Claims(o) /\ At(w).key = w.key /\ At(w).v = w.v
  BY <1>1, CopyIsClaim
<1>3. \A n : Comes(c, n) /\ n.id = o /\ n.type # "rem" => m.v <= n.v
  BY HeadComesFirst DEF Arriving, Delivers
<1> HIDE DEF w, o
<1>4. mem[o].v \in Nat
  BY <1>1 DEF IInv, MutInv, MongoTypeOK, Struct
<1>5. CASE w.key \in kept[c]
  <2>1. Follow(c, o, At(w))
    BY <1>1, <1>2, <1>5 DEF w, Seen, Arriving, Delivers, Followed
  <2>2. CASE w.v < mem[o].v
    <3>1. PICK n \in Underway : Comes(c, n) /\ NextChange(o, At(w), n)
      BY <1>2, <2>1, <2>2 DEF Follow
    <3>2. n.id = o /\ n.type # "rem" /\ n.v = w.v + 1
      BY <1>2, <3>1 DEF NextChange
    <3> QED
      BY <1>3, <3>1, <3>2 DEF o, w
  <2>3. CASE ~ (w.v < mem[o].v)
    BY <1>1, <1>2, <1>4, <2>3 DEF o, w
  <2> QED
    BY <2>2, <2>3
<1>6. CASE w.key \notin kept[c]
  <2>1. w.key = db[o].key
    BY <1>1, <1>6, LeftIsKept DEF o, w
  <2>2. db[o].key \in wanted[c] \ Unloaded(c) /\ Owes(c, o)
    BY <1>1, <1>2, <2>1, AllLoaded DEF Owed
  <2>3. db[o].v = mem[o].v
    BY <1>1, <2>2, WantedExists DEF Arriving, Delivers
  <2>4. PICK u \in 1..db[o].v : Base(c, o, u) /\ \A x \in (u + 1)..db[o].v : Changes(c, o, x)
    BY <2>2 DEF Owes
  <2>5. u \in Nat /\ u > 0 /\ u <= mem[o].v
    BY <1>4, <2>3
  <2>6. objs[c][o].v # u
    <3>1. objs[c][o] = NoDoc
      BY <1>1 DEF Arriving, Delivers, Requests, Shown
    <3> QED
      BY <2>5, <3>1, NoDocFields
  <2>7. CASE w.v = u /\ u < mem[o].v
    <3>1. u + 1 \in (u + 1)..db[o].v
      BY <1>4, <2>3, <2>5, <2>7
    <3>2. PICK n \in Underway : Comes(c, n) /\ n.type = "mod" /\ n.id = o /\ n.v = u + 1
      BY <2>4, <3>1 DEF Changes
    <3> QED
      BY <1>3, <2>7, <3>2 DEF o, w
  <2>8. CASE w.v = u /\ u = mem[o].v
    BY <1>1, <1>2, <2>8 DEF o, w
  <2>9. CASE Arrives(c, o, u)
    <3>1. PICK n \in Underway : Comes(c, n) /\ n.type = "add" /\ n.id = o /\ n.v = u
      BY <2>9 DEF Arrives
    <3>2. m.v <= u
      BY <1>3, <3>1
    <3>3. ~ (w.v < u)
      <4>1. w.key \notin Sources
        <5>1. w.key \in MayAdd
          BY <1>2, <1>6 DEF Arriving, Delivers, Requests, Subscribed
        <5> QED
          BY <5>1 DEF Steady, MayChange
      <4> QED
        BY <1>2, <3>1, <4>1 DEF Arriving, Arrivals
    <3> QED
      BY <1>1, <1>2, <2>5, <3>2, <3>3 DEF o, w
  <2> QED
    BY <1>4, <2>4, <2>5, <2>6, <2>7, <2>8, <2>9 DEF Base, w
<1> QED
  BY <1>5, <1>6

(* What browsers are owed comes to them, in every reachable state.         *)
LEMMA Arrival ==
  ASSUME MaxFaults = 0, Steady
  PROVE  Spec => [](IInv /\ Arriving /\ Owed)
<1>1. Init => IInv /\ Arriving /\ Owed
  BY InitInv, InitDelivers, InitOnwards, InitOwed DEF Arriving
<1>2. IInv /\ Arriving /\ Owed /\ [Next]_vars => IInv' /\ Arriving' /\ Owed'
  <2> SUFFICES ASSUME IInv, Arriving, Owed, [Next]_vars
               PROVE  IInv' /\ Arriving' /\ Owed'
    OBVIOUS
  <2>1. Delivers' /\ Onwards' /\ Arrivals'
    BY StepDelivers, StepOnwards, StepArrivals DEF Arriving, Delivers
  <2> QED
    BY <2>1, NextInv, StepOwed DEF Arriving
<1> QED
  BY <1>1, <1>2, PTL DEF Spec

(* No object is lost: once things have settled a browser has the latest    *)
(* version of every object in the keys it wants, however many mutators,    *)
(* clients and browsers there are, however calls, deliveries, loads and    *)
(* changes of mind interleave.  It takes that nothing fails, and that      *)
(* browsers keep the keys that objects leave for others.                   *)
THEOREM NothingIsLost ==
  ASSUME MaxFaults = 0, Steady
  PROVE  Spec => []NothingLost
<1>1. IInv /\ Arriving /\ Owed => NothingLost
  <2> SUFFICES ASSUME IInv, Arriving, Owed, NEW c \in Clients, NEW o \in Objects,
                      Settled(c), Current(c, o) # NoView
               PROVE  view[c][o] = Current(c, o)
    BY DEF NothingLost
  <2>1. db[o].key \in wanted[c]
    BY DEF Current
  <2> QED
    BY <2>1, SettledHasAll
<1> QED
  BY <1>1, Arrival, PTL

(* No ghosts of the living, under the same conditions: what a browser      *)
(* shows of an object that exists is where and what it now is, in keys     *)
(* given up and asked for again as well.                                   *)
THEOREM NoGhostsOfTheLiving ==
  ASSUME MaxFaults = 0, Steady
  PROVE  Spec => []NoGhostOfTheLiving
<1>1. IInv /\ Arriving /\ Owed => NoGhostOfTheLiving
  BY SettledIsCurrent DEF NoGhostOfTheLiving
<1> QED
  BY <1>1, Arrival, PTL

(* No gaps, under the same conditions: a browser none of whose requests    *)
(* waits is sent no diff but one it has, or the very next, of an object it *)
(* has and that exists.                                                    *)
THEOREM NoGaps ==
  ASSUME MaxFaults = 0, Steady
  PROVE  Spec => []NoGap
<1>1. IInv /\ Arriving /\ Owed => NoGap
  BY OwedIsGapless DEF NoGap
<1> QED
  BY <1>1, Arrival, PTL
=============================================================================
