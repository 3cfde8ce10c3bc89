--------------------------- MODULE DeliveryProofs ---------------------------
(***************************************************************************)
(* How messages come to a browser when nothing fails: in order, none of    *)
(* them lost while the client stays subscribed.  From that: no ghosts in   *)
(* the keys a browser has wanted all along, for every set of objects,      *)
(* clients and keys and every value of the bounds.                         *)
(***************************************************************************)
EXTENDS VersionProofs, Functions

-----------------------------------------------------------------------------
(* Sequences of messages.                                                  *)

LEMMA RangeEmpty == Range(<<>>) = {}
BY DEF Range

LEMMA RangeIndex ==
  ASSUME NEW q \in Seq(Msg)
  PROVE  /\ Range(q) = {q[i] : i \in 1..Len(q)}
         /\ Range(q) \subseteq Msg
BY DEF Range

LEMMA RangeTail ==
  ASSUME NEW q \in Seq(Msg), q # <<>>
  PROVE  /\ Head(q) \in Range(q)
         /\ Tail(q) \in Seq(Msg)
         /\ Range(Tail(q)) \subseteq Range(q)
         /\ Range(q) = {Head(q)} \cup Range(Tail(q))
<1>1. Head(q) = q[1] /\ Len(q) \in Nat /\ 1 \in 1..Len(q) /\ Tail(q) \in Seq(Msg)
  OBVIOUS
<1>2. Len(Tail(q)) = Len(q) - 1 /\ \A i \in 1..Len(Tail(q)) : Tail(q)[i] = q[i + 1]
  BY <1>1
<1>3. \A i \in 1..Len(Tail(q)) : i + 1 \in 1..Len(q)
  BY <1>1, <1>2
<1>4. \A i \in 1..Len(q) : i = 1 \/ (i - 1 \in 1..Len(Tail(q)) /\ q[i] = Tail(q)[i - 1])
  BY <1>1, <1>2
<1>5. /\ Range(q) = {q[i] : i \in 1..Len(q)}
      /\ Range(Tail(q)) = {Tail(q)[i] : i \in 1..Len(Tail(q))}
  BY <1>1, RangeIndex
<1>6. \A m \in Range(Tail(q)) : m \in Range(q)
  BY <1>2, <1>3, <1>5
<1>7. Head(q) \in Range(q)
  BY <1>1, <1>5
<1>8. \A m \in Range(q) : m = Head(q) \/ m \in Range(Tail(q))
  BY <1>1, <1>4, <1>5
<1> QED
  BY <1>1, <1>6, <1>7, <1>8

LEMMA RangeAppend ==
  ASSUME NEW q \in Seq(Msg), NEW m \in Msg
  PROVE  /\ Append(q, m) \in Seq(Msg)
         /\ Range(Append(q, m)) = Range(q) \cup {m}
<1>1. /\ Append(q, m) \in Seq(Msg)
      /\ Len(Append(q, m)) = Len(q) + 1
      /\ Append(q, m)[Len(q) + 1] = m
      /\ \A i \in 1..Len(q) : Append(q, m)[i] = q[i]
  OBVIOUS
<1>2. \A i \in 1..(Len(q) + 1) : i = Len(q) + 1 \/ i \in 1..Len(q)
  OBVIOUS
<1>3. 1..Len(q) \subseteq 1..(Len(q) + 1) /\ Len(q) + 1 \in 1..(Len(q) + 1)
  OBVIOUS
<1>4. /\ Range(q) = {q[i] : i \in 1..Len(q)}
      /\ Range(Append(q, m)) = {Append(q, m)[i] : i \in 1..(Len(q) + 1)}
  BY <1>1, RangeIndex
<1>5. \A n \in Range(q) \cup {m} : n \in Range(Append(q, m))
  BY <1>1, <1>3, <1>4
<1>6. \A n \in Range(Append(q, m)) : n \in Range(q) \cup {m}
  BY <1>1, <1>2, <1>4
<1> QED
  BY <1>1, <1>5, <1>6

(* What a queue tells of an object, message by message.                    *)
LEMMA ToldRange ==
  ASSUME NEW q \in Seq(Msg), NEW o
  PROVE  Told(q, o) = {Says(m) : m \in {n \in Range(q) : n.id = o /\ n.type # "rem"}}
BY RangeIndex DEF Told

(* Message m may go ahead of n: of one object, versions come in order and  *)
(* the removal comes last.                                                 *)
Before(m, n) == m.id = n.id /\ n.type # "rem" => m.type # "rem" /\ m.v <= n.v

InOrder(q) == \A i, j \in 1..Len(q) : i < j => Before(q[i], q[j])

AllBefore(p, q) == \A m \in Range(p), n \in Range(q) : Before(m, n)

LEMMA BeforeItself ==
  ASSUME NEW m \in Msg
  PROVE  Before(m, m)
BY DEF Before, Msg

LEMMA InOrderTail ==
  ASSUME NEW q \in Seq(Msg), q # <<>>, InOrder(q)
  PROVE  /\ InOrder(Tail(q))
         /\ \A n \in Range(Tail(q)) : Before(Head(q), n)
<1>1. Head(q) = q[1] /\ Len(q) \in Nat /\ 1 \in 1..Len(q) /\ Tail(q) \in Seq(Msg)
  OBVIOUS
<1>2. Len(Tail(q)) = Len(q) - 1 /\ \A i \in 1..Len(Tail(q)) : Tail(q)[i] = q[i + 1]
  BY <1>1
<1>3. \A i \in 1..Len(Tail(q)) : i + 1 \in 1..Len(q) /\ 1 < i + 1
  BY <1>1, <1>2
<1>4. \A i, j \in 1..Len(Tail(q)) : i < j => i + 1 < j + 1
  BY <1>1, <1>2
<1>5. InOrder(Tail(q))
  BY <1>2, <1>3, <1>4 DEF InOrder
<1>6. \A i \in 1..Len(Tail(q)) : Before(Head(q), Tail(q)[i])
  BY <1>1, <1>2, <1>3 DEF InOrder
<1>7. Range(Tail(q)) = {Tail(q)[i] : i \in 1..Len(Tail(q))}
  BY <1>1, RangeIndex
<1> QED
  BY <1>5, <1>6, <1>7

LEMMA InOrderAppend ==
  ASSUME NEW q \in Seq(Msg), NEW m \in Msg, InOrder(q), \A n \in Range(q) : Before(n, m)
  PROVE  InOrder(Append(q, m))
<1>1. /\ Len(Append(q, m)) = Len(q) + 1 /\ Len(q) \in Nat
      /\ Append(q, m)[Len(q) + 1] = m
      /\ \A i \in 1..Len(q) : Append(q, m)[i] = q[i]
  OBVIOUS
<1>2. \A i, j \in 1..(Len(q) + 1) :
        i < j => i \in 1..Len(q) /\ (j \in 1..Len(q) \/ j = Len(q) + 1)
  BY <1>1
<1>3. \A i \in 1..Len(q) : Before(q[i], m)
  <2>1. Range(q) = {q[i] : i \in 1..Len(q)}
    BY RangeIndex
  <2> QED
    BY <2>1
<1> QED
  BY <1>1, <1>2, <1>3 DEF InOrder

-----------------------------------------------------------------------------
(* The mutators when nothing fails.                                        *)

(* The keys an object may leave for another.                               *)
Sources == {k \in Keys : \E l \in Keys : k # l /\ <<k, l>> \in Moves}

(* Memory and document agree from Create to Delete; an object about to     *)
(* leave its key may leave it; a call publishes about its own object.      *)
CalmObject(o) ==
  /\ o \in gone => db[o] = NoDoc
  /\ o \notin gone /\ db[o] = NoDoc => mem[o].v = 0
  /\ db[o] # NoDoc => At(db[o]) = At(mem[o]) /\ mem[o].v > 0
  /\ mem[o].diff # NoKey => mem[o].key \in Sources
  /\ \A m \in Range(outbox[o]) : m.id = o

Calm == faults = 0 /\ \A o \in Objects : CalmObject(o)

(* What the calls do when nothing fails: the call on o leaves msgs to be   *)
(* published, after which other objects are as they were.                  *)
Call(o, msgs) ==
  /\ outbox[o] = <<>> /\ o \notin gone
  /\ outbox'[o] = msgs /\ msgs \in Seq(Msg)
  /\ \A p \in Objects \ {o} : /\ outbox'[p] = outbox[p]
                              /\ db'[p] = db[p]
                              /\ mem'[p] = mem[p]
  /\ faults' = faults
  /\ UNCHANGED <<busVars, browserVars, clientVars>>

(* The call on o stores s, one version on.                                 *)
Stores(o, s) ==
  /\ s \in Struct /\ s.diff = NoKey /\ s.v = mem[o].v + 1
  /\ mem'[o] = s /\ db'[o] = Marshal(s) /\ gone' = gone

Created(o) ==
  \E s \in Struct :
    /\ Stores(o, s) /\ mem[o].v = 0 /\ db[o] = NoDoc
    /\ Call(o, <<AddMsg(o, s.key, NoKey, s.v)>>)

Updated(o) ==
  \E s \in Struct :
    /\ Stores(o, s) /\ mem[o].v > 0 /\ db[o] # NoDoc
    /\ s.key = mem[o].key
    /\ Call(o, <<ModMsg(o, s.key, s.key, s.v)>>)

Moved(o) ==
  \E s \in Struct :
    /\ Stores(o, s) /\ mem[o].v > 0 /\ db[o] # NoDoc
    /\ s.key # mem[o].key /\ mem[o].key \in Sources
    /\ Call(o, <<ModMsg(o, mem[o].key, s.key, s.v), AddMsg(o, s.key, mem[o].key, s.v)>>)

Deleted(o) ==
  /\ db[o] # NoDoc /\ db'[o] = NoDoc /\ mem'[o] = mem[o] /\ gone' = gone \cup {o}
  /\ Call(o, <<RemMsg(o, mem[o].key)>>)

(* A setter changes nothing but the diff.                                  *)
Renamed(o) ==
  /\ o \notin gone
  /\ mem'[o] \in Struct /\ At(mem'[o]) = At(mem[o])
  /\ mem'[o].diff # NoKey => mem[o].key \in Sources
  /\ \A p \in Objects \ {o} : mem'[p] = mem[p]
  /\ UNCHANGED <<db, outbox, gone, faults, busVars, browserVars, clientVars>>

LEMMA CreateCalm ==
  ASSUME IInv, Calm, MaxFaults = 0, NEW o \in Objects, Create(o),
         UNCHANGED <<busVars, browserVars, clientVars>>
  PROVE  Created(o)
<1> DEFINE r == Resolve(mem[o])
           s == TagSetSub(r, GetSubKey(r))
           msgs == <<AddMsg(o, s.sub, NoKey, s.v)>>
<1>1. mem[o] \in Struct /\ faults = 0 /\ CalmObject(o)
  BY DEF IInv, MutInv, MongoTypeOK, Calm
<1>2. /\ r \in Struct /\ GetSubKey(r) \in Keys /\ r.key = GetSubKey(r)
      /\ r.v = mem[o].v + 1 /\ r.diff = NoKey
  BY <1>1, StructTypes, ResolveFields
<1>3. s \in Struct /\ s.v = mem[o].v + 1 /\ s.sub = s.key /\ s.sub \in Keys
  BY <1>2, SetterTypes, SetterFields
<1>4. s.v \in Nat
  BY <1>3 DEF Struct
<1>5. msgs \in Seq(Msg)
  BY <1>3, <1>4, MsgTypes DEF MaybeKey
<1>6. s.diff = NoKey
  BY <1>2 DEF TagSetSub, Struct
<1>7. ~ Panic
  BY <1>1 DEF Panic, Fault
<1>8. /\ Ready(o) /\ db[o] = NoDoc
      /\ mem' = [mem EXCEPT ![o] = s] /\ gone' = gone
      /\ db' = [db EXCEPT ![o] = Marshal(s)]
      /\ outbox' = [outbox EXCEPT ![o] = msgs]
      /\ faults' = faults
  BY <1>7 DEF Create, Write
<1> HIDE DEF r, s
<1>9. /\ mem'[o] = s /\ db'[o] = Marshal(s) /\ outbox'[o] = msgs
      /\ \A p \in Objects \ {o} :
           mem'[p] = mem[p] /\ db'[p] = db[p] /\ outbox'[p] = outbox[p]
  BY <1>8 DEF IInv, MutInv, MongoTypeOK
<1>10. msgs = <<AddMsg(o, s.key, NoKey, s.v)>>
  BY <1>3
<1>11. mem[o].v = 0
  BY <1>1, <1>8 DEF CalmObject, Ready
<1>12. Call(o, msgs)
  BY <1>5, <1>8, <1>9 DEF Call, Ready, Idle
<1>13. Stores(o, s)
  BY <1>3, <1>6, <1>8, <1>9 DEF Stores
<1> HIDE DEF msgs
<1> QED
  BY <1>3, <1>8, <1>10, <1>11, <1>12, <1>13 DEF Created

LEMMA ModifyCalm ==
  ASSUME IInv, Calm, MaxFaults = 0, NEW o \in Objects, Modify(o),
         UNCHANGED <<busVars, browserVars, clientVars>>
  PROVE  Updated(o) \/ Moved(o)
<1> DEFINE psk == GetPrevSubKey(mem[o])
           nsk == GetSubKey(mem[o])
           r   == Resolve(mem[o])
           s   == IF psk = nsk THEN r ELSE TagSetSub(r, nsk)
           mod == ModMsg(o, psk, nsk, s.v)
           add == AddMsg(o, nsk, psk, s.v)
           msgs == IF psk = nsk THEN <<mod>> ELSE <<mod, add>>
<1>1. mem[o] \in Struct /\ faults = 0 /\ CalmObject(o)
  BY DEF IInv, MutInv, MongoTypeOK, Calm
<1>2. psk \in Keys /\ nsk \in Keys /\ psk = mem[o].key
  BY <1>1, StructTypes DEF GetPrevSubKey
<1>3. r \in Struct /\ r.key = nsk /\ r.v = mem[o].v + 1 /\ r.diff = NoKey
  BY <1>1, StructTypes, ResolveFields
<1>4. s \in Struct /\ s.v = mem[o].v + 1 /\ s.key = nsk
  BY <1>2, <1>3, SetterTypes, SetterFields
<1>5. s.v \in Nat
  BY <1>4 DEF Struct
<1>6. s.diff = NoKey
  BY <1>3 DEF TagSetSub, Struct
<1>7. mod \in Msg /\ add \in Msg
  BY <1>2, <1>5, MsgTypes DEF MaybeKey
<1>8. psk # nsk => psk \in Sources
  BY <1>1, <1>2 DEF CalmObject, GetSubKey
<1>9. ~ Panic
  BY <1>1 DEF Panic, Fault
<1>10. /\ Ready(o) /\ db[o] # NoDoc /\ mem[o].v > 0
       /\ mem' = [mem EXCEPT ![o] = s] /\ gone' = gone
       /\ db' = [db EXCEPT ![o] = Marshal(s)]
       /\ outbox' = [outbox EXCEPT ![o] = msgs]
       /\ faults' = faults
  BY <1>9 DEF Modify, Write
<1>11. msgs \in Seq(Msg)
  <2> HIDE DEF mod, add
  <2> QED
    BY <1>7
<1> HIDE DEF s
<1>12. /\ mem'[o] = s /\ db'[o] = Marshal(s) /\ outbox'[o] = msgs
       /\ \A p \in Objects \ {o} :
            mem'[p] = mem[p] /\ db'[p] = db[p] /\ outbox'[p] = outbox[p]
  BY <1>10 DEF IInv, MutInv, MongoTypeOK
<1>13. Call(o, msgs)
  BY <1>10, <1>11, <1>12 DEF Call, Ready, Idle
<1>14. Stores(o, s)
  BY <1>4, <1>6, <1>10, <1>12 DEF Stores
<1>15. CASE psk = nsk
  <2>1. msgs = <<ModMsg(o, s.key, s.key, s.v)>> /\ s.key = mem[o].key
    BY <1>2, <1>4, <1>15
  <2> HIDE DEF msgs
  <2> QED
    BY <1>4, <1>10, <1>13, <1>14, <2>1 DEF Updated
<1>16. CASE psk # nsk
  <2>1. /\ msgs = <<ModMsg(o, mem[o].key, s.key, s.v), AddMsg(o, s.key, mem[o].key, s.v)>>
        /\ s.key # mem[o].key /\ mem[o].key \in Sources
    BY <1>2, <1>4, <1>8, <1>16
  <2> HIDE DEF msgs
  <2> QED
    BY <1>4, <1>10, <1>13, <1>14, <2>1 DEF Moved
<1> QED
  BY <1>15, <1>16

LEMMA DeleteCalm ==
  ASSUME IInv, Calm, MaxFaults = 0, NEW o \in Objects, Delete(o),
         UNCHANGED <<busVars, browserVars, clientVars>>
  PROVE  Deleted(o)
<1> DEFINE msgs == <<RemMsg(o, GetPrevSubKey(mem[o]))>>
<1>1. mem[o] \in Struct /\ faults = 0
  BY DEF IInv, MutInv, MongoTypeOK, Calm
<1>2. GetPrevSubKey(mem[o]) \in Keys /\ GetPrevSubKey(mem[o]) = mem[o].key
  BY <1>1, StructTypes DEF GetPrevSubKey
<1>3. msgs \in Seq(Msg) /\ msgs = <<RemMsg(o, mem[o].key)>>
  BY <1>2, RemMsgType
<1>4. ~ Panic
  BY <1>1 DEF Panic, Fault
<1>5. /\ Ready(o) /\ db[o] # NoDoc
      /\ mem' = mem /\ gone' = gone \cup {o}
      /\ db' = [db EXCEPT ![o] = NoDoc]
      /\ outbox' = [outbox EXCEPT ![o] = msgs]
      /\ faults' = faults
  BY <1>4 DEF Delete, Write
<1> HIDE DEF msgs
<1>6. /\ mem' = mem /\ db'[o] = NoDoc /\ outbox'[o] = msgs
      /\ \A p \in Objects \ {o} : db'[p] = db[p] /\ outbox'[p] = outbox[p]
  BY <1>5 DEF IInv, MutInv, MongoTypeOK
<1>7. Call(o, msgs)
  BY <1>3, <1>5, <1>6 DEF Call, Ready, Idle
<1> QED
  BY <1>3, <1>5, <1>6, <1>7 DEF Deleted

LEMMA SetCalm ==
  ASSUME IInv, Calm, NEW o \in Objects, NEW k \in Keys, Set(o, k),
         UNCHANGED <<busVars, browserVars, clientVars>>
  PROVE  Renamed(o)
<1> DEFINE s == SetSubKey(mem[o], k)
<1>1. mem[o] \in Struct
  BY DEF IInv, MutInv, MongoTypeOK
<1>2. s \in Struct /\ s.key = mem[o].key /\ s.v = mem[o].v
  BY <1>1, SetterTypes, SetterFields
<1>3. /\ mem' = [mem EXCEPT ![o] = s] /\ UNCHANGED <<db, outbox, gone, faults>>
      /\ o \notin gone
      /\ <<mem[o].key, k>> \in Moves \/ k = mem[o].key
  BY DEF Set, Ready
<1>4. mem[o].key \in Keys
  BY <1>1 DEF Struct
<1>5. s.diff # NoKey => mem[o].key \in Sources
  <2>1. s.diff = IF k # mem[o].key THEN k ELSE NoKey
    BY <1>1 DEF SetSubKey, Struct
  <2> QED
    BY <1>3, <1>4, <2>1 DEF Sources
<1> HIDE DEF s
<1>6. mem'[o] = s /\ \A p \in Objects \ {o} : mem'[p] = mem[p]
  BY <1>3 DEF IInv, MutInv, MongoTypeOK
<1> QED
  BY <1>2, <1>3, <1>5, <1>6 DEF Renamed, At

(* Every step of a mutator, when nothing fails.                            *)
LEMMA MutateCases ==
  ASSUME IInv, Calm, MaxFaults = 0, Mutate
  PROVE  \E o \in Objects : \/ Renamed(o)
                            \/ Created(o) \/ Updated(o) \/ Moved(o) \/ Deleted(o)
                            \/ Publish(o) /\ UNCHANGED <<browserVars, clientVars>>
<1>1. MutatorStep /\ UNCHANGED <<browserVars, clientVars>>
  BY DEF Mutate
<1>2. ~ Fault
  BY DEF Fault, Calm
<1>3. ~ Restart /\ \A o \in Objects : ~ PublishFails(o)
  BY <1>2 DEF Restart, PublishFails
<1>4. CASE \E o \in Objects : Publish(o)
  BY <1>1, <1>4
<1>5. ASSUME NEW o \in Objects, UNCHANGED busVars,
             (\E k \in Keys : Set(o, k)) \/ Create(o) \/ Modify(o) \/ Delete(o)
      PROVE  Renamed(o) \/ Created(o) \/ Updated(o) \/ Moved(o) \/ Deleted(o)
  BY <1>1, <1>5, SetCalm, CreateCalm, ModifyCalm, DeleteCalm
<1> QED
  BY <1>1, <1>3, <1>4, <1>5 DEF MutatorStep

LEMMA RangeOne == \A m : Range(<<m>>) = {m}
BY DEF Range

LEMMA RangeTwo == \A m, n : Range(<<m, n>>) = {m, n}
<1> SUFFICES ASSUME NEW m, NEW n PROVE Range(<<m, n>>) = {m, n}
  OBVIOUS
<1> DEFINE q == <<m, n>>
<1>1. DOMAIN q = {1, 2} /\ q[1] = m /\ q[2] = n
  OBVIOUS
<1> HIDE DEF q
<1>2. Range(q) = {m, n}
  BY <1>1 DEF Range
<1> QED
  BY <1>2 DEF q

(* What a call stores and what it publishes.                               *)
LEMMA StoresFacts ==
  ASSUME NEW o \in Objects, NEW s, Stores(o, s)
  PROVE  /\ db'[o] # NoDoc /\ At(db'[o]) = At(s) /\ mem'[o] = s
         /\ s \in Struct /\ s.key \in Keys /\ s.v \in Nat /\ s.diff = NoKey
         /\ s.v = mem[o].v + 1 /\ gone' = gone
<1>1. s \in Struct /\ s.key \in Keys /\ s.v \in Nat
  BY DEF Stores, Struct
<1>2. Marshal(s) \in Doc /\ At(Marshal(s)) = At(s)
  BY <1>1, StructTypes DEF Marshal, At
<1> QED
  BY <1>1, <1>2, NoDocFields DEF Stores

(* A message that is well formed: a removal is of a deleted object, and    *)
(* what is said of a move is said of a key that objects may leave.         *)
WellFormed(m) ==
  /\ m.type = "rem" => m.id \in gone
  /\ m.type = "mod" => m.nskey # m.skey /\ (m.nskey # NoKey => m.skey \in Sources)
  /\ m.type = "add" => m.nskey = NoKey /\ (m.from # NoKey => m.from \in Sources)
  /\ m.type # "add" => m.from = NoKey

(* The messages of a call that stores s tell of s.                         *)
Tells(o, s, m) ==
  /\ m.id = o /\ m.type # "rem" /\ m.v = s.v /\ Says(m) = At(s) /\ WellFormed(m)

LEMMA CallTells ==
  ASSUME IInv, NEW o \in Objects, Created(o) \/ Updated(o) \/ Moved(o)
  PROVE  \E s, msgs : /\ Stores(o, s) /\ Call(o, msgs)
                      /\ \A m \in Range(msgs) : Tells(o, s, m)
<1>1. mem[o].key \in Keys
  BY DEF IInv, MutInv, MongoTypeOK, Struct
<1>2. CASE Created(o)
  <2>1. PICK s \in Struct : /\ Stores(o, s)
                            /\ Call(o, <<AddMsg(o, s.key, NoKey, s.v)>>)
    BY <1>2 DEF Created
  <2>2. Tells(o, s, AddMsg(o, s.key, NoKey, s.v))
    BY DEF Tells, AddMsg, WellFormed, Says, At
  <2> QED
    BY <2>1, <2>2, RangeOne
<1>3. CASE Updated(o)
  <2>1. PICK s \in Struct : /\ Stores(o, s)
                            /\ Call(o, <<ModMsg(o, s.key, s.key, s.v)>>)
    BY <1>3 DEF Updated
  <2>2. s.key \in Keys
    BY DEF Struct
  <2>3. Tells(o, s, ModMsg(o, s.key, s.key, s.v))
    BY <2>2, NoKeyAssumption DEF Tells, ModMsg, WellFormed, Says, At
  <2> QED
    BY <2>1, <2>3, RangeOne
<1>4. CASE Moved(o)
  <2> DEFINE mod(s) == ModMsg(o, mem[o].key, s.key, s.v)
             add(s) == AddMsg(o, s.key, mem[o].key, s.v)
  <2>1. PICK s \in Struct : /\ Stores(o, s) /\ s.key # mem[o].key /\ mem[o].key \in Sources
                            /\ Call(o, <<mod(s), add(s)>>)
    BY <1>4 DEF Moved
  <2>2. s.key \in Keys
    BY DEF Struct
  <2>3. Tells(o, s, mod(s))
    BY <1>1, <2>1, <2>2, NoKeyAssumption DEF Tells, ModMsg, WellFormed, Says, At
  <2>4. Tells(o, s, add(s))
    BY <2>1 DEF Tells, AddMsg, WellFormed, Says, At
  <2> HIDE DEF mod, add
  <2> QED
    BY <2>1, <2>3, <2>4, RangeTwo
<1> QED
  BY <1>2, <1>3, <1>4

LEMMA InitCalm ==
  ASSUME Init
  PROVE  Calm
<1>1. \A k \in Keys : NewStruct(k).v = 0 /\ NewStruct(k).diff = NoKey
  BY DEF NewStruct
<1>2. /\ \A o \in Objects : mem[o].v = 0 /\ mem[o].diff = NoKey
      /\ \A o \in Objects : db[o] = NoDoc /\ outbox[o] = <<>>
      /\ gone = {} /\ faults = 0
  BY <1>1 DEF Init, MongoInit
<1> QED
  BY <1>2, RangeEmpty DEF Calm, CalmObject

(* Only the call's object is touched.                                      *)
LEMMA CallCalm ==
  ASSUME Calm, NEW o \in Objects, NEW msgs, Call(o, msgs),
         gone' \in {gone, gone \cup {o}}, CalmObject(o)'
  PROVE  Calm'
<1>1. \A p \in Objects \ {o} : CalmObject(p)'
  <2> SUFFICES ASSUME NEW p \in Objects \ {o} PROVE CalmObject(p)'
    OBVIOUS
  <2>1. outbox'[p] = outbox[p] /\ db'[p] = db[p] /\ mem'[p] = mem[p]
    BY DEF Call
  <2>2. p \in gone' <=> p \in gone
    OBVIOUS
  <2> QED
    BY <2>1, <2>2 DEF Calm, CalmObject
<1> QED
  BY <1>1 DEF Calm, Call

LEMMA MutateIsCalm ==
  ASSUME IInv, Calm, MaxFaults = 0, Mutate
  PROVE  Calm'
<1>1. ASSUME NEW o \in Objects, Renamed(o)
      PROVE  Calm'
  <2>1. /\ mem'[o].v = mem[o].v /\ mem'[o].key = mem[o].key
        /\ mem'[o].diff # NoKey => mem'[o].key \in Sources
    BY <1>1 DEF Renamed, At
  <2>2. \A p \in Objects : CalmObject(p)'
    BY <1>1, <2>1 DEF Renamed, Calm, CalmObject, At
  <2> QED
    BY <1>1, <2>2 DEF Renamed, Calm
<1>2. ASSUME NEW o \in Objects, NEW s, Stores(o, s), NEW msgs, Call(o, msgs),
             \A m \in Range(msgs) : Tells(o, s, m)
      PROVE  Calm'
  <2>1. /\ db'[o] # NoDoc /\ At(db'[o]) = At(mem'[o]) /\ gone' = gone
        /\ mem'[o].diff = NoKey /\ mem'[o].v = mem[o].v + 1
    BY <1>2, StoresFacts
  <2>2. mem[o].v \in Nat
    BY DEF IInv, MutInv, MongoTypeOK, Struct
  <2>3. mem'[o].v > 0 /\ o \notin gone' /\ outbox'[o] = msgs
    BY <1>2, <2>1, <2>2 DEF Call
  <2>4. CalmObject(o)'
    BY <1>2, <2>1, <2>3 DEF CalmObject, Tells
  <2> QED
    BY <1>2, <2>1, <2>4, CallCalm
<1>3. ASSUME NEW o \in Objects, Created(o) \/ Updated(o) \/ Moved(o)
      PROVE  Calm'
  BY <1>2, <1>3, CallTells
<1>4. ASSUME NEW o \in Objects, Deleted(o)
      PROVE  Calm'
  <2>1. RemMsg(o, mem[o].key).id = o
    BY DEF RemMsg
  <2>2. /\ db'[o] = NoDoc /\ o \in gone' /\ mem'[o] = mem[o] /\ gone' = gone \cup {o}
        /\ outbox'[o] = <<RemMsg(o, mem[o].key)>>
    BY <1>4 DEF Deleted, Call
  <2>3. \A m \in Range(outbox'[o]) : m.id = o
    BY <2>1, <2>2, RangeOne
  <2>4. CalmObject(o)'
    BY <2>2, <2>3 DEF CalmObject, Calm
  <2> QED
    BY <1>4, <2>2, <2>4, CallCalm DEF Deleted
<1>5. ASSUME NEW o \in Objects, Publish(o)
      PROVE  Calm'
  <2>1. outbox[o] \in Seq(Msg) /\ outbox[o] # <<>>
    BY <1>5 DEF Publish, IInv, MutInv, MongoTypeOK
  <2>2. /\ outbox'[o] = Tail(outbox[o])
        /\ \A p \in Objects \ {o} : outbox'[p] = outbox[p]
        /\ UNCHANGED <<mem, db, gone, faults>>
    BY <1>5 DEF Publish, IInv, MutInv, MongoTypeOK
  <2>3. Range(outbox'[o]) \subseteq Range(outbox[o])
    BY <2>1, <2>2, RangeTail
  <2>4. \A p \in Objects : Range(outbox'[p]) \subseteq Range(outbox[p])
    BY <2>2, <2>3
  <2> QED
    BY <2>2, <2>4 DEF Calm, CalmObject
<1> QED
  BY <1>1, <1>3, <1>4, <1>5, MutateCases

LEMMA StepCalm ==
  ASSUME IInv, Calm, MaxFaults = 0, [Next]_vars
  PROVE  Calm'
<1>1. CASE UNCHANGED mutVars
  BY <1>1 DEF mutVars, Calm, CalmObject
<1>2. Mutate \/ UNCHANGED mutVars
  BY DEF Next, BusStep, BrowserStep, ReceiveStep, ForwardStep, HandleStep, FatalStep, vars
<1> QED
  BY <1>1, <1>2, MutateIsCalm

-----------------------------------------------------------------------------
(* How messages move.                                                      *)

Undisturbed == UNCHANGED <<wire, outbox, toWebSocket>>

(* The head of the wire has been handed out.                               *)
Disposed == wire # <<>> /\ wire' = Tail(wire) /\ UNCHANGED <<outbox, toWebSocket>>

(* It goes to c, and perhaps to others still.                              *)
Queued(c) ==
  /\ wire # <<>>
  /\ wire' = wire \/ wire' = Tail(wire)
  /\ toWebSocket' = [toWebSocket EXCEPT ![c] = Append(@, Head(wire))]
  /\ UNCHANGED outbox

Sent(c) ==
  /\ toWebSocket[c] # <<>>
  /\ toWebSocket' = [toWebSocket EXCEPT ![c] = Tail(@)]
  /\ UNCHANGED <<wire, outbox>>

Put(o) ==
  /\ outbox[o] # <<>>
  /\ outbox' = [outbox EXCEPT ![o] = Tail(@)]
  /\ wire' = wire \/ wire' = Append(wire, Head(outbox[o]))
  /\ UNCHANGED toWebSocket

Calls(o) == Created(o) \/ Updated(o) \/ Moved(o) \/ Deleted(o)

LEMMA MessageMoves ==
  ASSUME IInv, Calm, MaxFaults = 0, [Next]_vars
  PROVE  \/ Undisturbed /\ UNCHANGED gone
         \/ Disposed /\ UNCHANGED gone
         \/ \E c \in Clients : (Queued(c) \/ Sent(c)) /\ UNCHANGED gone
         \/ \E o \in Objects : Calls(o) \/ (Put(o) /\ UNCHANGED gone)
<1>1. CASE Mutate
  <2>1. ASSUME NEW o \in Objects, Publish(o), UNCHANGED <<browserVars, clientVars>>
        PROVE  Put(o) /\ UNCHANGED gone
    BY <2>1 DEF Publish, Published, Put, clientVars
  <2>2. ASSUME NEW o \in Objects, Renamed(o)
        PROVE  Undisturbed /\ UNCHANGED gone
    BY <2>2 DEF Renamed, Undisturbed, busVars, clientVars
  <2> QED
    BY <1>1, <2>1, <2>2, MutateCases DEF Calls
<1>2. CASE BusStep
  BY <1>2 DEF BusStep, Dispatch, Disposed, Undisturbed, mutVars, clientVars
<1>3. ASSUME NEW c \in Clients, ReceiveStep(c)
      PROVE  (Undisturbed \/ Disposed \/ Queued(c)) /\ UNCHANGED gone
  <2>1. CASE Receive(c)
    BY <1>3, <2>1 DEF Receive, Handed, ReceiveStep, IInv, BusInv, Undisturbed, Disposed,
                      clientVars, mutVars
  <2>2. CASE Enqueue(c)
    BY <1>3, <2>2 DEF Enqueue, Handed, ReceiveStep, IInv, BusInv, Queued, mutVars
  <2> QED
    BY <1>3, <2>1, <2>2 DEF ReceiveStep
<1>4. ASSUME NEW c \in Clients, ForwardStep(c)
      PROVE  Sent(c) /\ UNCHANGED gone
  BY <1>4 DEF ForwardStep, Forward, Sent, mutVars, busVars
<1>5. ASSUME NEW c \in Clients, BrowserStep(c) \/ HandleStep(c) \/ FatalStep(c)
      PROVE  Undisturbed /\ UNCHANGED gone
  BY <1>5 DEF BrowserStep, UpdateSubscription, HandleStep, FatalStep, MapFatal, Undisturbed,
              mutVars, busVars, HandleMessage, RemoveKeys, AddKeys, UpdateAgents,
              LoadObjects, WriteObjects
<1>6. CASE UNCHANGED vars
  BY <1>6 DEF vars, Undisturbed, mutVars, busVars, clientVars
<1> QED
  BY <1>1, <1>2, <1>3, <1>4, <1>5, <1>6 DEF Next

-----------------------------------------------------------------------------
(* Messages under way.                                                     *)

Underway ==
  Range(wire) \cup (UNION {Range(outbox[o]) : o \in Objects})
              \cup (UNION {Range(toWebSocket[c]) : c \in Clients})

Shapes == \A m \in Underway : WellFormed(m)

LEMMA QueueTypes ==
  ASSUME IInv
  PROVE  /\ wire \in Seq(Msg)
         /\ \A o \in Objects : outbox[o] \in Seq(Msg)
         /\ \A c \in Clients : toWebSocket[c] \in Seq(Msg)
         /\ DOMAIN outbox = Objects /\ DOMAIN toWebSocket = Clients
BY DEF IInv, MutInv, MongoTypeOK, BusTypeOK, ClientTypeOK

LEMMA UnderwayParts ==
  /\ Range(wire) \subseteq Underway
  /\ \A o \in Objects : Range(outbox[o]) \subseteq Underway
  /\ \A c \in Clients : Range(toWebSocket[c]) \subseteq Underway
BY DEF Underway

LEMMA NextUnderway ==
  ASSUME NEW S, Range(wire') \subseteq S,
         \A o \in Objects : Range(outbox'[o]) \subseteq S,
         \A c \in Clients : Range(toWebSocket'[c]) \subseteq S
  PROVE  Underway' \subseteq S
BY DEF Underway

(* One by one, what the moves do to the queues.                            *)
LEMMA QueuedFacts ==
  ASSUME IInv, NEW c \in Clients, Queued(c)
  PROVE  /\ toWebSocket'[c] = Append(toWebSocket[c], Head(wire))
         /\ \A d \in Clients \ {c} : toWebSocket'[d] = toWebSocket[d]
         /\ Head(wire) \in Msg /\ wire # <<>>
         /\ wire' = wire \/ wire' = Tail(wire)
         /\ outbox' = outbox
<1>1. /\ toWebSocket'[c] = Append(toWebSocket[c], Head(wire))
      /\ \A d \in Clients \ {c} : toWebSocket'[d] = toWebSocket[d]
  BY DEF Queued, IInv, ClientTypeOK
<1>2. Head(wire) \in Msg
  BY QueueTypes DEF Queued
<1> QED
  BY <1>1, <1>2 DEF Queued

LEMMA SentFacts ==
  ASSUME IInv, NEW c \in Clients, Sent(c)
  PROVE  /\ toWebSocket[c] # <<>>
         /\ toWebSocket'[c] = Tail(toWebSocket[c])
         /\ \A d \in Clients \ {c} : toWebSocket'[d] = toWebSocket[d]
         /\ wire' = wire /\ outbox' = outbox
BY QueueTypes DEF Sent

LEMMA PutFacts ==
  ASSUME IInv, NEW o \in Objects, Put(o)
  PROVE  /\ outbox[o] # <<>> /\ Head(outbox[o]) \in Msg
         /\ outbox'[o] = Tail(outbox[o])
         /\ \A p \in Objects \ {o} : outbox'[p] = outbox[p]
         /\ wire' = wire \/ wire' = Append(wire, Head(outbox[o]))
         /\ toWebSocket' = toWebSocket
<1>1. outbox[o] \in Seq(Msg) /\ outbox[o] # <<>> /\ DOMAIN outbox = Objects
  BY QueueTypes DEF Put
<1>2. Head(outbox[o]) \in Msg
  BY <1>1
<1> QED
  BY <1>1, <1>2 DEF Put

LEMMA UnderwayStep ==
  ASSUME IInv, Calm, MaxFaults = 0, [Next]_vars
  PROVE  \/ Underway' \subseteq Underway /\ gone' = gone
         \/ \E o \in Objects : Calls(o) /\ Underway' \subseteq Underway \cup Range(outbox'[o])
<1>1. CASE Undisturbed /\ UNCHANGED gone
  BY <1>1, UnderwayParts, NextUnderway DEF Undisturbed
<1>2. CASE Disposed /\ UNCHANGED gone
  <2>1. Range(wire') \subseteq Range(wire)
    BY <1>2, QueueTypes, RangeTail DEF Disposed
  <2> QED
    BY <1>2, <2>1, UnderwayParts, NextUnderway DEF Disposed
<1>3. ASSUME NEW c \in Clients, Queued(c)
      PROVE  Underway' \subseteq Underway
  <2>1. Head(wire) \in Range(wire) /\ Range(wire') \subseteq Range(wire)
    BY <1>3, QueuedFacts, QueueTypes, RangeTail
  <2>2. Range(toWebSocket'[c]) = Range(toWebSocket[c]) \cup {Head(wire)}
    BY <1>3, QueuedFacts, QueueTypes, RangeAppend
  <2>3. \A d \in Clients : Range(toWebSocket'[d]) \subseteq Underway
    BY <1>3, <2>1, <2>2, QueuedFacts, UnderwayParts
  <2> QED
    BY <1>3, <2>1, <2>3, QueuedFacts, UnderwayParts, NextUnderway
<1>4. ASSUME NEW c \in Clients, Sent(c)
      PROVE  Underway' \subseteq Underway
  <2>1. Range(toWebSocket'[c]) \subseteq Range(toWebSocket[c])
    BY <1>4, SentFacts, QueueTypes, RangeTail
  <2>2. \A d \in Clients : Range(toWebSocket'[d]) \subseteq Underway
    BY <1>4, <2>1, SentFacts, UnderwayParts
  <2> QED
    BY <1>4, <2>2, SentFacts, UnderwayParts, NextUnderway
<1>5. ASSUME NEW o \in Objects, Put(o)
      PROVE  Underway' \subseteq Underway
  <2>1. /\ Head(outbox[o]) \in Range(outbox[o])
        /\ Range(outbox'[o]) \subseteq Range(outbox[o])
    BY <1>5, PutFacts, QueueTypes, RangeTail
  <2>2. Range(wire') \subseteq Range(wire) \cup {Head(outbox[o])}
    BY <1>5, PutFacts, QueueTypes, RangeAppend
  <2>3. \A p \in Objects : Range(outbox'[p]) \subseteq Underway
    BY <1>5, <2>1, PutFacts, UnderwayParts
  <2>4. Range(wire') \subseteq Underway
    BY <2>1, <2>2, UnderwayParts
  <2> QED
    BY <1>5, <2>3, <2>4, PutFacts, UnderwayParts, NextUnderway
<1>6. ASSUME NEW o \in Objects, Calls(o)
      PROVE  Underway' \subseteq Underway \cup Range(outbox'[o])
  <2>1. PICK msgs : Call(o, msgs)
    BY <1>6 DEF Calls, Created, Updated, Moved, Deleted
  <2>2. /\ wire' = wire /\ toWebSocket' = toWebSocket
        /\ \A p \in Objects \ {o} : outbox'[p] = outbox[p]
    BY <2>1 DEF Call, busVars, clientVars
  <2> DEFINE S == Underway \cup Range(outbox'[o])
  <2>3. /\ Range(wire') \subseteq S
        /\ \A p \in Objects : Range(outbox'[p]) \subseteq S
        /\ \A c \in Clients : Range(toWebSocket'[c]) \subseteq S
    BY <2>2, UnderwayParts
  <2> HIDE DEF S
  <2>4. Underway' \subseteq S
    BY <2>3, NextUnderway
  <2> QED
    BY <2>4 DEF S
<1> QED
  BY <1>1, <1>2, <1>3, <1>4, <1>5, <1>6, MessageMoves

(* What a call publishes, removals included.                               *)
LEMMA CallShapes ==
  ASSUME IInv, NEW o \in Objects, Calls(o)
  PROVE  /\ gone' = gone \/ gone' = gone \cup {o}
         /\ \A m \in Range(outbox'[o]) : WellFormed(m)' /\ m.id = o
<1>1. CASE Deleted(o)
  <2>1. gone' = gone \cup {o} /\ outbox'[o] = <<RemMsg(o, mem[o].key)>>
    BY <1>1 DEF Deleted, Call
  <2>2. \A m \in Range(outbox'[o]) : m = RemMsg(o, mem[o].key)
    BY <2>1, RangeOne
  <2> QED
    BY <2>1, <2>2 DEF WellFormed, RemMsg
<1>2. CASE Created(o) \/ Updated(o) \/ Moved(o)
  <2>1. PICK s, msgs : /\ Stores(o, s) /\ Call(o, msgs)
                       /\ \A m \in Range(msgs) : Tells(o, s, m)
    BY <1>2, CallTells
  <2>2. outbox'[o] = msgs /\ gone' = gone
    BY <2>1, StoresFacts DEF Call
  <2> QED
    BY <2>1, <2>2 DEF Tells, WellFormed
<1> QED
  BY <1>1, <1>2 DEF Calls

LEMMA InitShapes ==
  ASSUME Init
  PROVE  Underway = {}
<1>1. /\ wire = <<>>
      /\ \A o \in Objects : outbox[o] = <<>>
      /\ \A c \in Clients : toWebSocket[c] = <<>>
  BY DEF Init, MongoInit, BusInit, ClientInit
<1>2. /\ Range(wire) = {}
      /\ \A o \in Objects : Range(outbox[o]) = {}
      /\ \A c \in Clients : Range(toWebSocket[c]) = {}
  BY <1>1, RangeEmpty
<1> QED
  BY <1>2 DEF Underway

LEMMA StepShapes ==
  ASSUME IInv, Calm, MaxFaults = 0, Shapes, [Next]_vars
  PROVE  Shapes'
<1>1. ASSUME NEW m, WellFormed(m), gone \subseteq gone'
      PROVE  WellFormed(m)'
  BY <1>1 DEF WellFormed
<1>2. CASE Underway' \subseteq Underway /\ gone' = gone
  BY <1>1, <1>2 DEF Shapes
<1>3. ASSUME NEW o \in Objects, Calls(o), Underway' \subseteq Underway \cup Range(outbox'[o])
      PROVE  Shapes'
  BY <1>1, <1>3, CallShapes DEF Shapes
<1> QED
  BY <1>2, <1>3, UnderwayStep

-----------------------------------------------------------------------------
(* Messages about an object come in the order it changed.                  *)

(* Queue c's messages are before the wire's, and those before the ones     *)
(* still to be published.                                                  *)
Ordered ==
  /\ InOrder(wire)
  /\ \A o \in Objects : InOrder(outbox[o]) /\ AllBefore(wire, outbox[o])
  /\ \A c \in Clients : /\ InOrder(toWebSocket[c])
                        /\ AllBefore(toWebSocket[c], wire)
                        /\ \A o \in Objects : AllBefore(toWebSocket[c], outbox[o])

(* Nothing under way is ahead of memory.                                   *)
LEMMA UnderwayStored ==
  ASSUME IInv, NEW m \in Underway
  PROVE  m \in Msg /\ m.v \in Nat /\ m.v <= mem[m.id].v
<1>1. ASSUME NEW q \in Seq(Msg), AllStored(q), m \in Range(q)
      PROVE  m \in Msg /\ m.v \in Nat /\ m.v <= mem[m.id].v
  <2>1. PICK i \in 1..Len(q) : m = q[i]
    BY <1>1, RangeIndex
  <2>2. m \in Msg
    BY <1>1, RangeIndex
  <2>3. m.v <= mem[m.id].v
    BY <1>1, <2>1 DEF AllStored, Stored
  <2> QED
    BY <2>2, <2>3 DEF Msg
<1>2. /\ AllStored(wire)
      /\ \A o \in Objects : AllStored(outbox[o])
      /\ \A c \in Clients : AllStored(toWebSocket[c])
  BY DEF IInv, MutInv, ClientStored
<1> QED
  BY <1>1, <1>2, QueueTypes DEF Underway

(* A call's messages come after everything that was said of its object.    *)
LEMMA CallComesLast ==
  ASSUME IInv, Shapes, NEW o \in Objects, Calls(o)
  PROVE  /\ \A m \in Underway, n \in Range(outbox'[o]) : Before(m, n)
         /\ InOrder(outbox'[o])
<1>1. o \notin gone
  BY DEF Calls, Created, Updated, Moved, Deleted, Call
<1>2. \A m \in Underway : m.id = o => m.type # "rem"
  BY <1>1 DEF Shapes, WellFormed
<1>3. CASE Deleted(o)
  <2>1. outbox'[o] = <<RemMsg(o, mem[o].key)>>
    BY <1>3 DEF Deleted, Call
  <2>2. \A n \in Range(outbox'[o]) : n.type = "rem"
    BY <2>1, RangeOne DEF RemMsg
  <2>3. InOrder(outbox'[o])
    BY <2>1 DEF InOrder
  <2> QED
    BY <2>2, <2>3 DEF Before
<1>4. CASE Created(o) \/ Updated(o) \/ Moved(o)
  <2>1. PICK s, msgs : /\ Stores(o, s) /\ Call(o, msgs)
                       /\ \A m \in Range(msgs) : Tells(o, s, m)
    BY <1>4, CallTells
  <2>2. s.v = mem[o].v + 1 /\ mem[o].v \in Nat /\ outbox'[o] = msgs /\ msgs \in Seq(Msg)
    BY <2>1, StoresFacts DEF Call, IInv, MutInv, MongoTypeOK, Struct
  <2>3. \A m \in Underway : m.id = o => m.v <= s.v
    BY <2>2, UnderwayStored
  <2>4. \A m \in Underway, n \in Range(msgs) : Before(m, n)
    BY <1>2, <2>1, <2>3 DEF Before, Tells
  <2>5. \A m, n \in Range(msgs) : Before(m, n)
    BY <2>1, <2>2 DEF Before, Tells
  <2>6. InOrder(msgs)
    BY <2>2, <2>5, RangeIndex DEF InOrder
  <2> QED
    BY <2>2, <2>4, <2>6
<1> QED
  BY <1>3, <1>4 DEF Calls

LEMMA InitOrdered ==
  ASSUME Init
  PROVE  Ordered
<1>1. /\ wire = <<>>
      /\ \A o \in Objects : outbox[o] = <<>>
      /\ \A c \in Clients : toWebSocket[c] = <<>>
  BY DEF Init, MongoInit, BusInit, ClientInit
<1>2. InOrder(<<>>) /\ AllBefore(<<>>, <<>>)
  BY RangeEmpty DEF InOrder, AllBefore
<1> QED
  BY <1>1, <1>2 DEF Ordered

LEMMA StepOrdered ==
  ASSUME IInv, Calm, MaxFaults = 0, Shapes, Ordered, [Next]_vars
  PROVE  Ordered'
<1>1. CASE Undisturbed
  BY <1>1 DEF Undisturbed, Ordered, InOrder, AllBefore
<1>2. CASE Disposed
  <2>1. InOrder(wire') /\ Range(wire') \subseteq Range(wire)
    BY <1>2, QueueTypes, RangeTail, InOrderTail DEF Disposed, Ordered
  <2> QED
    BY <1>2, <2>1 DEF Disposed, Ordered, AllBefore, InOrder
<1>3. ASSUME NEW c \in Clients, Queued(c)
      PROVE  Ordered'
  <2> DEFINE m == Head(wire)
  <2>1. /\ m \in Msg /\ m \in Range(wire)
        /\ InOrder(Tail(wire)) /\ Range(Tail(wire)) \subseteq Range(wire)
        /\ \A n \in Range(Tail(wire)) : Before(m, n)
        /\ Range(wire) = {m} \cup Range(Tail(wire))
    BY <1>3, QueuedFacts, QueueTypes, RangeTail, InOrderTail DEF Ordered
  <2>2. /\ wire' = wire \/ wire' = Tail(wire)
        /\ toWebSocket'[c] = Append(toWebSocket[c], m)
        /\ \A d \in Clients \ {c} : toWebSocket'[d] = toWebSocket[d]
        /\ outbox' = outbox
    BY <1>3, QueuedFacts
  <2>3. toWebSocket[c] \in Seq(Msg)
    BY QueueTypes
  <2> HIDE DEF m
  <2>4. InOrder(wire') /\ Range(wire') \subseteq Range(wire)
    BY <2>1, <2>2 DEF Ordered
  <2>5. \A n \in Range(wire') : Before(m, n)
    BY <2>1, <2>2, BeforeItself
  <2>6. /\ InOrder(toWebSocket'[c])
        /\ Range(toWebSocket'[c]) = Range(toWebSocket[c]) \cup {m}
    BY <2>1, <2>2, <2>3, InOrderAppend, RangeAppend DEF Ordered, AllBefore
  <2>7. /\ AllBefore(toWebSocket'[c], wire')
        /\ \A o \in Objects : AllBefore(toWebSocket'[c], outbox'[o])
    BY <2>1, <2>2, <2>4, <2>5, <2>6 DEF Ordered, AllBefore
  <2>8. \A d \in Clients : /\ InOrder(toWebSocket'[d])
                           /\ AllBefore(toWebSocket'[d], wire')
                           /\ \A o \in Objects : AllBefore(toWebSocket'[d], outbox'[o])
    BY <2>2, <2>4, <2>6, <2>7 DEF Ordered, AllBefore
  <2>9. \A o \in Objects : InOrder(outbox'[o]) /\ AllBefore(wire', outbox'[o])
    BY <2>2, <2>4 DEF Ordered, AllBefore
  <2> QED
    BY <2>4, <2>8, <2>9 DEF Ordered
<1>4. ASSUME NEW c \in Clients, Sent(c)
      PROVE  Ordered'
  <2> DEFINE q == toWebSocket[c]
  <2>1. q \in Seq(Msg) /\ q # <<>> /\ InOrder(q) /\ toWebSocket'[c] = Tail(q)
    BY <1>4, SentFacts, QueueTypes DEF Ordered
  <2> HIDE DEF q
  <2>2. InOrder(Tail(q)) /\ Range(Tail(q)) \subseteq Range(q)
    BY <2>1, RangeTail, InOrderTail
  <2>3. InOrder(toWebSocket'[c]) /\ Range(toWebSocket'[c]) \subseteq Range(toWebSocket[c])
    BY <2>1, <2>2 DEF q
  <2>4. \A d \in Clients : /\ InOrder(toWebSocket'[d])
                           /\ AllBefore(toWebSocket'[d], wire)
                           /\ \A o \in Objects : AllBefore(toWebSocket'[d], outbox[o])
    BY <1>4, <2>3, SentFacts DEF Ordered, AllBefore
  <2> QED
    BY <1>4, <2>4, SentFacts DEF Ordered
<1>5. ASSUME NEW o \in Objects, Put(o)
      PROVE  Ordered'
  <2> DEFINE q == outbox[o]
             m == Head(q)
  <2>1. /\ outbox'[o] = Tail(q) /\ toWebSocket' = toWebSocket
        /\ \A p \in Objects \ {o} : outbox'[p] = outbox[p]
        /\ wire' = wire \/ wire' = Append(wire, m)
        /\ m \in Msg
    BY <1>5, PutFacts
  <2>2. q \in Seq(Msg) /\ q # <<>> /\ InOrder(q)
    BY <1>5, PutFacts, QueueTypes DEF Ordered
  <2>3. /\ m \in Range(q) /\ InOrder(Tail(q)) /\ Range(Tail(q)) \subseteq Range(q)
        /\ \A n \in Range(Tail(q)) : Before(m, n)
    <3> HIDE DEF q
    <3> QED
      BY <2>2, RangeTail, InOrderTail DEF m
  <2>4. /\ m \in Range(outbox[o]) /\ InOrder(outbox'[o])
        /\ Range(outbox'[o]) \subseteq Range(outbox[o])
        /\ \A n \in Range(outbox'[o]) : Before(m, n)
    BY <2>1, <2>3
  <2> HIDE DEF m, q
  <2>5. wire \in Seq(Msg) /\ InOrder(wire) /\ \A n \in Range(wire) : Before(n, m)
    BY <2>4, QueueTypes DEF Ordered, AllBefore
  <2>6. InOrder(Append(wire, m)) /\ Range(Append(wire, m)) = Range(wire) \cup {m}
    BY <2>1, <2>5, RangeAppend, InOrderAppend
  <2>7. InOrder(wire') /\ Range(wire') \subseteq Range(wire) \cup {m}
    BY <2>1, <2>5, <2>6
  <2>8. \A p \in Objects \ {o} : \A n \in Range(outbox[p]) : Before(m, n)
    BY <2>4 DEF Calm, CalmObject, Before
  <2>9. \A p \in Objects : InOrder(outbox'[p]) /\ AllBefore(wire', outbox'[p])
    BY <2>1, <2>4, <2>7, <2>8 DEF Ordered, AllBefore
  <2>10. \A c \in Clients : /\ AllBefore(toWebSocket[c], wire')
                            /\ \A p \in Objects : AllBefore(toWebSocket[c], outbox'[p])
    BY <2>1, <2>4, <2>7 DEF Ordered, AllBefore
  <2> QED
    BY <2>1, <2>7, <2>9, <2>10 DEF Ordered
<1>6. ASSUME NEW o \in Objects, Calls(o)
      PROVE  Ordered'
  <2>1. PICK msgs : Call(o, msgs)
    BY <1>6 DEF Calls, Created, Updated, Moved, Deleted
  <2>2. /\ wire' = wire /\ toWebSocket' = toWebSocket
        /\ \A p \in Objects \ {o} : outbox'[p] = outbox[p]
    BY <2>1 DEF Call, busVars, clientVars
  <2>3. /\ InOrder(outbox'[o])
        /\ AllBefore(wire, outbox'[o])
        /\ \A c \in Clients : AllBefore(toWebSocket[c], outbox'[o])
    BY <1>6, CallComesLast, UnderwayParts DEF AllBefore
  <2> QED
    BY <2>2, <2>3 DEF Ordered
<1> QED
  BY <1>1, <1>2, <1>3, <1>4, <1>5, <1>6, MessageMoves

-----------------------------------------------------------------------------
(* What comes to a client.                                                 *)

(* The i-th message of the wire is, or is going to be, handed to c.        *)
Due(c, i) == IF i = 1 /\ todo # {} THEN c \in todo ELSE wire[i].skey \in agents[c]

OnWire(c, m) == \E i \in 1..Len(wire) : wire[i] = m /\ Due(c, i)

(* Message m comes to the browser of c as long as c neither leaves its     *)
(* channel nor joins the one the message says its object comes from.       *)
Comes(c, m) ==
  \/ m \in Range(toWebSocket[c])
  \/ /\ ~ Filtered(c, m)
     /\ \/ OnWire(c, m)
        \/ m.skey \in agents[c] /\ \E o \in Objects : m \in Range(outbox[o])

(* The request c is handling does not keep m from it.                      *)
Safe(c, m) ==
  /\ loop[c] = "agents" => m.skey \notin req[c].remove
  /\ loop[c] = "add" => m.from \notin req[c].add

LEMMA ComesUnderway ==
  ASSUME IInv, NEW c \in Clients, NEW m, Comes(c, m)
  PROVE  m \in Underway /\ m \in Msg
<1>1. OnWire(c, m) => m \in Range(wire)
  BY QueueTypes, RangeIndex DEF OnWire
<1>2. m \in Underway
  BY <1>1, UnderwayParts DEF Comes
<1> QED
  BY <1>2, UnderwayStored

(* Nothing that matters to m changes.                                      *)
LEMMA ComesStays ==
  ASSUME NEW c \in Clients, NEW m, Comes(c, m),
         UNCHANGED <<wire, todo>>, toWebSocket'[c] = toWebSocket[c],
         \A o \in Objects : m \in Range(outbox[o]) => \E p \in Objects : m \in Range(outbox'[p]),
         m.skey \in agents[c] => m.skey \in agents'[c],
         Filtered(c, m)' => Filtered(c, m)
  PROVE  Comes(c, m)'
<1>1. OnWire(c, m) => OnWire(c, m)'
  BY DEF OnWire, Due
<1> QED
  BY <1>1 DEF Comes

(* The head of the wire has been handed out to all it was due to.          *)
LEMMA WirePopped ==
  ASSUME IInv, NEW c \in Clients, NEW m, OnWire(c, m), wire # <<>>,
         wire' = Tail(wire), todo' = {}, agents' = agents
  PROVE  OnWire(c, m)' \/ (m = Head(wire) /\ Due(c, 1))
<1>1. wire \in Seq(Msg) /\ Head(wire) = wire[1] /\ Len(wire) \in Nat
  BY QueueTypes
<1>2. Len(Tail(wire)) = Len(wire) - 1 /\ \A i \in 1..Len(Tail(wire)) : Tail(wire)[i] = wire[i + 1]
  BY <1>1
<1>3. PICK i \in 1..Len(wire) : wire[i] = m /\ Due(c, i)
  BY DEF OnWire
<1>4. CASE i = 1
  BY <1>1, <1>3, <1>4
<1>5. CASE i # 1
  <2>1. i - 1 \in 1..Len(Tail(wire)) /\ Tail(wire)[i - 1] = m
    BY <1>1, <1>2, <1>3, <1>5
  <2>2. m.skey \in agents[c]
    BY <1>3, <1>5 DEF Due
  <2> QED
    BY <2>1, <2>2 DEF OnWire, Due
<1> QED
  BY <1>4, <1>5

(* A message published on a channel of c is on the wire.                   *)
LEMMA PublishedComes ==
  ASSUME IInv, NEW c \in Clients, NEW m \in Msg, m.skey \in agents[c],
         wire' = Published(m), UNCHANGED <<todo, agents>>
  PROVE  OnWire(c, m)'
<1>1. wire' = Append(wire, m)
  BY DEF Published, Subscribers
<1>2. /\ Len(wire') = Len(wire) + 1 /\ Len(wire) \in Nat /\ wire'[Len(wire')] = m
      /\ Len(wire') = 1 => wire = <<>>
  BY <1>1, QueueTypes
<1>3. Len(wire') = 1 => todo = {}
  BY <1>2 DEF IInv, BusInv
<1>4. Due(c, Len(wire))'
  BY <1>2, <1>3 DEF Due
<1>5. Len(wire') \in 1..Len(wire')
  BY <1>2
<1> QED
  BY <1>2, <1>4, <1>5 DEF OnWire

LEMMA AppendedWire ==
  ASSUME IInv, NEW c \in Clients, NEW n, NEW m \in Msg, OnWire(c, n),
         wire' = Append(wire, m), UNCHANGED <<todo, agents>>
  PROVE  OnWire(c, n)'
<1>1. PICK i \in 1..Len(wire) : wire[i] = n /\ Due(c, i)
  BY DEF OnWire
<1>2. Len(wire') = Len(wire) + 1 /\ Len(wire) \in Nat /\ wire'[i] = wire[i]
  BY QueueTypes
<1>3. i \in 1..Len(wire')
  BY <1>2
<1> QED
  BY <1>1, <1>2, <1>3 DEF OnWire, Due

(* Delivery: a message that comes to a browser comes still after the next  *)
(* step, or was forwarded by it.                                           *)
LEMMA PublishDelivers ==
  ASSUME IInv, NEW c \in Clients, NEW m, Comes(c, m), NEW o \in Objects, Publish(o),
         UNCHANGED <<browserVars, clientVars>>
  PROVE  Comes(c, m)'
<1> DEFINE n == Head(outbox[o])
<1>1. outbox[o] \in Seq(Msg) /\ outbox[o] # <<>>
  BY QueueTypes DEF Publish
<1>2. n \in Msg /\ Range(outbox[o]) = {n} \cup Range(Tail(outbox[o]))
  BY <1>1, RangeTail
<1>3. /\ outbox'[o] = Tail(outbox[o])
      /\ \A p \in Objects \ {o} : outbox'[p] = outbox[p]
      /\ wire' = Published(n) /\ UNCHANGED <<todo, agents, subscriptions, toWebSocket>>
  BY QueueTypes DEF Publish, clientVars
<1> HIDE DEF n
<1>4. Filtered(c, m)' <=> Filtered(c, m)
  BY <1>3 DEF Filtered
<1>5. CASE m \in Range(toWebSocket[c])
  BY <1>3, <1>5 DEF Comes
<1>6. CASE OnWire(c, m)
  <2>1. OnWire(c, m)'
    <3>1. CASE wire' = wire
      BY <1>3, <1>6, <3>1 DEF OnWire, Due
    <3>2. CASE wire' = Append(wire, n)
      BY <1>2, <1>3, <1>6, <3>2, AppendedWire
    <3> QED
      BY <1>3, <3>1, <3>2 DEF Published
  <2> QED
    BY <1>4, <1>5, <2>1 DEF Comes
<1>7. ASSUME m.skey \in agents[c], NEW p \in Objects, m \in Range(outbox[p])
      PROVE  OnWire(c, m)' \/ \E q \in Objects : m \in Range(outbox'[q])
  <2>1. CASE p = o /\ m = n
    BY <1>2, <1>3, <1>7, <2>1, PublishedComes
  <2>2. CASE ~ (p = o /\ m = n)
    BY <1>2, <1>3, <1>7, <2>2
  <2> QED
    BY <2>1, <2>2
<1> QED
  BY <1>3, <1>4, <1>5, <1>6, <1>7 DEF Comes

LEMMA MutateDelivers ==
  ASSUME IInv, Calm, MaxFaults = 0, NEW c \in Clients, NEW m, Comes(c, m), Mutate
  PROVE  Comes(c, m)'
<1>1. ASSUME NEW o \in Objects, Calls(o)
      PROVE  Comes(c, m)'
  <2>1. PICK msgs : Call(o, msgs)
    BY <1>1 DEF Calls, Created, Updated, Moved, Deleted
  <2>2. \A p \in Objects : m \in Range(outbox[p]) => m \in Range(outbox'[p])
    BY <2>1, RangeEmpty DEF Call
  <2> QED
    BY <2>1, <2>2, ComesStays DEF Call, busVars, clientVars, Filtered
<1>2. ASSUME NEW o \in Objects, Renamed(o)
      PROVE  Comes(c, m)'
  BY <1>2, ComesStays DEF Renamed, busVars, clientVars, Filtered
<1> QED
  BY <1>1, <1>2, MutateCases, PublishDelivers DEF Calls

LEMMA DispatchDelivers ==
  ASSUME IInv, NEW c \in Clients, NEW m, Comes(c, m), BusStep
  PROVE  Comes(c, m)'
<1>1. /\ todo = {} /\ wire # <<>> /\ todo' = Subscribers(Head(wire))
      /\ wire' = IF todo' = {} THEN Tail(wire) ELSE wire
      /\ UNCHANGED <<agents, outbox, toWebSocket, subscriptions>>
  BY DEF BusStep, Dispatch, mutVars, clientVars
<1>2. Due(c, 1) <=> c \in todo'
  BY <1>1, QueueTypes DEF Due, Subscribers
<1>3. Filtered(c, m)' <=> Filtered(c, m)
  BY <1>1 DEF Filtered
<1>4. ASSUME OnWire(c, m)
      PROVE  OnWire(c, m)'
  <2>1. CASE todo' = {}
    BY <1>1, <1>2, <1>4, <2>1, WirePopped
  <2>2. CASE todo' # {}
    BY <1>1, <1>2, <1>4, <2>2 DEF OnWire, Due
  <2> QED
    BY <2>1, <2>2
<1> QED
  BY <1>1, <1>3, <1>4 DEF Comes

(* The client d takes its message from the head of the wire: another still *)
(* gets its own, and d one further behind.                                 *)
LEMMA HandedDelivers ==
  ASSUME IInv, NEW d \in Clients, d \in todo, Handed(d), agents' = agents,
         NEW c \in Clients, NEW m, OnWire(c, m), c = d => m # Head(wire)
  PROVE  OnWire(c, m)'
<1>1. wire \in Seq(Msg) /\ wire # <<>> /\ Head(wire) = wire[1] /\ Len(wire) \in Nat
  BY QueueTypes DEF IInv, BusInv
<1>2. todo' = todo \ {d} /\ wire' = IF todo = {d} THEN Tail(wire) ELSE wire
  BY DEF Handed
<1>3. CASE todo = {d}
  <2>1. OnWire(c, m)' \/ (m = Head(wire) /\ Due(c, 1))
    BY <1>1, <1>2, <1>3, WirePopped
  <2> QED
    BY <1>3, <2>1 DEF Due
<1>4. CASE todo # {d}
  <2>1. PICK i \in 1..Len(wire) : wire[i] = m /\ Due(c, i)
    BY DEF OnWire
  <2>2. todo' # {} /\ wire' = wire
    BY <1>2, <1>4
  <2>3. Due(c, i)'
    BY <1>1, <1>2, <2>1, <2>2 DEF Due
  <2> QED
    BY <2>1, <2>2, <2>3 DEF OnWire
<1> QED
  BY <1>3, <1>4

LEMMA ReceiveDelivers ==
  ASSUME IInv, NEW c \in Clients, NEW m, Comes(c, m), NEW d \in Clients, ReceiveStep(d)
  PROVE  Comes(c, m)'
<1>1. UNCHANGED <<agents, outbox, subscriptions>>
  BY DEF ReceiveStep, Receive, Enqueue, mutVars, clientVars
<1>2. Filtered(c, m)' <=> Filtered(c, m)
  BY <1>1 DEF Filtered
<1>3. CASE Receive(d)
  <2>1. d \in todo /\ toWebSocket' = toWebSocket
    BY <1>3 DEF Receive, clientVars
  <2>2. CASE UNCHANGED <<todo, wire>>
    BY <1>1, <1>2, <2>1, <2>2, ComesStays
  <2>3. CASE Filtered(d, Head(wire)) /\ Handed(d)
    BY <1>1, <1>2, <2>1, <2>3, HandedDelivers DEF Comes
  <2> QED
    BY <1>3, <2>2, <2>3 DEF Receive
<1>4. CASE Enqueue(d)
  <2>1. d \in todo /\ Handed(d) /\ wire # <<>> /\ Head(wire) \in Msg
    BY <1>4, QueueTypes DEF Enqueue, IInv, BusInv
  <2>2. /\ Range(toWebSocket'[d]) = Range(toWebSocket[d]) \cup {Head(wire)}
        /\ \A e \in Clients \ {d} : toWebSocket'[e] = toWebSocket[e]
    BY <1>4, <2>1, QueueTypes, RangeAppend DEF Enqueue
  <2>3. CASE m \in Range(toWebSocket[c])
    BY <2>2, <2>3 DEF Comes
  <2>4. CASE OnWire(c, m)
    <3>1. CASE c = d /\ m = Head(wire)
      BY <2>2, <3>1 DEF Comes
    <3>2. CASE c = d => m # Head(wire)
      BY <1>1, <1>2, <2>1, <2>3, <2>4, <3>2, HandedDelivers DEF Comes
    <3> QED
      BY <3>1, <3>2
  <2> QED
    BY <1>1, <1>2, <2>3, <2>4 DEF Comes
<1> QED
  BY <1>3, <1>4 DEF ReceiveStep

LEMMA HandleDelivers ==
  ASSUME IInv, NEW c \in Clients, NEW m, Comes(c, m), Safe(c, m),
         NEW d \in Clients, HandleStep(d)
  PROVE  Comes(c, m)'
<1>1. UNCHANGED <<wire, todo, outbox, toWebSocket>>
  BY DEF HandleStep, mutVars, busVars, HandleMessage, RemoveKeys, AddKeys, UpdateAgents,
         LoadObjects, WriteObjects
<1>2. m.skey \in agents[c] => m.skey \in agents'[c]
  BY DEF HandleStep, busVars, UpdateAgents, UpdateChannels, Goto, Safe, IInv, BusTypeOK
<1>3. Filtered(c, m)' => Filtered(c, m)
  BY DEF HandleStep, HandleMessage, RemoveKeys, AddKeys, UpdateAgents, LoadObjects,
         WriteObjects, Goto, Safe, Filtered, IInv, ClientTypeOK
<1> QED
  BY <1>1, <1>2, <1>3, ComesStays

LEMMA Delivery ==
  ASSUME IInv, Calm, MaxFaults = 0, NEW c \in Clients, NEW m, Comes(c, m), Safe(c, m),
         [Next]_vars
  PROVE  Comes(c, m)' \/ (ForwardStep(c) /\ m = Head(toWebSocket[c]))
<1>1. ASSUME NEW d \in Clients, ForwardStep(d)
      PROVE  Comes(c, m)' \/ (d = c /\ m = Head(toWebSocket[c]))
  <2>1. Sent(d) /\ UNCHANGED <<todo, agents, subscriptions>>
    BY <1>1 DEF ForwardStep, Forward, Sent, mutVars, busVars
  <2>2. /\ toWebSocket[d] # <<>> /\ toWebSocket'[d] = Tail(toWebSocket[d])
        /\ \A e \in Clients \ {d} : toWebSocket'[e] = toWebSocket[e]
        /\ wire' = wire /\ outbox' = outbox
    BY <2>1, SentFacts
  <2>3. Range(toWebSocket[d]) = {Head(toWebSocket[d])} \cup Range(Tail(toWebSocket[d]))
    BY <2>2, QueueTypes, RangeTail
  <2>4. m \in Range(toWebSocket[c]) \/ (Comes(c, m) => Comes(c, m)')
    BY <2>1, <2>2 DEF Comes, OnWire, Due, Filtered
  <2> QED
    BY <2>2, <2>3, <2>4 DEF Comes
<1>2. ASSUME UNCHANGED <<wire, todo, agents, outbox, toWebSocket, subscriptions>>
      PROVE  Comes(c, m)'
  BY <1>2, ComesStays DEF Filtered
<1>3. ASSUME NEW d \in Clients, BrowserStep(d) \/ FatalStep(d)
      PROVE  Comes(c, m)'
  BY <1>2, <1>3 DEF BrowserStep, UpdateSubscription, FatalStep, MapFatal, mutVars, busVars
<1>4. CASE UNCHANGED vars
  BY <1>2, <1>4 DEF vars, mutVars, busVars, clientVars
<1> QED
  BY <1>1, <1>3, <1>4, MutateDelivers, DispatchDelivers, ReceiveDelivers, HandleDelivers
  DEF Next

-----------------------------------------------------------------------------
(* What a browser has asked for, and how far its client is with it.        *)

MayChange == MayAdd \cup MayRemove

Asked(q) == UNION {q[i].add : i \in 1..Len(q)}

Handling(c) == loop[c] \in {"remove", "add", "agents"}

(* The keys c will be subscribed to once its requests are handled.         *)
Unsubscribed(c) == Asked(fromWebSocket[c]) \cup (IF Handling(c) THEN req[c].add ELSE {})

(* A request as browsers make them, of one that keeps the keys ks.         *)
Legal(ks, r) ==
  /\ r.add \subseteq MayAdd /\ r.remove \subseteq MayRemove
  /\ r.add \cap r.remove = {}
  /\ ks \cap (r.add \cup r.remove) = {}

(* A key that is wanted although a request gives it up is asked for again  *)
(* by a later one.                                                         *)
AskedAgain(ks, q) ==
  \A i \in 1..Len(q) : \A k \in ks \cap q[i].remove :
    \E j \in 1..Len(q) : i < j /\ k \in q[j].add

Pending(c) ==
  /\ \A i \in 1..Len(fromWebSocket[c]) : Legal(kept[c], fromWebSocket[c][i])
  /\ AskedAgain(wanted[c], fromWebSocket[c])
  /\ loop[c] # "select" => Legal(kept[c], req[c])
  /\ Handling(c) => wanted[c] \cap req[c].remove \subseteq Asked(fromWebSocket[c])

Subscribed(c) ==
  /\ wanted[c] \ Unsubscribed(c) \subseteq agents[c]
  /\ kept[c] \subseteq wanted[c] \cap agents[c] \cap subscriptions[c]
  /\ wanted[c] \ MayAdd \subseteq kept[c]
  /\ subscriptions[c] \ MayChange \subseteq wanted[c]

Shown(c) ==
  /\ \A o \in Objects : view[c][o] # NoView => view[c][o].key \in wanted[c]
  /\ \A o \in Objects : objs[c][o] # NoDoc => loop[c] = "write" /\ objs[c][o].key \in req[c].add

Requests == \A c \in Clients : Pending(c) /\ Subscribed(c) /\ Shown(c)

LEMMA AskedEmpty == Asked(<<>>) = {} /\ \A ks : AskedAgain(ks, <<>>)
BY DEF Asked, AskedAgain

LEMMA AskedTail ==
  ASSUME NEW q \in Seq(Request), q # <<>>, NEW ks, AskedAgain(ks, q)
  PROVE  /\ Asked(q) = Head(q).add \cup Asked(Tail(q))
         /\ AskedAgain(ks, Tail(q))
         /\ ks \cap Head(q).remove \subseteq Asked(Tail(q))
<1>1. Head(q) = q[1] /\ Len(q) \in Nat /\ 1 \in 1..Len(q)
  OBVIOUS
<1>2. Len(Tail(q)) = Len(q) - 1 /\ \A i \in 1..Len(Tail(q)) : Tail(q)[i] = q[i + 1]
  BY <1>1
<1>3. \A i \in 1..Len(q) : 1 < i => i - 1 \in 1..Len(Tail(q)) /\ q[i] = Tail(q)[i - 1]
  BY <1>1, <1>2
<1>4. \A i \in 1..Len(Tail(q)) : i + 1 \in 1..Len(q) /\ i + 1 > 1
  BY <1>1, <1>2
<1>5. Asked(q) = Head(q).add \cup Asked(Tail(q))
  <2>1. \A k \in Asked(Tail(q)) : k \in Asked(q)
    BY <1>2, <1>4 DEF Asked
  <2>2. \A i \in 1..Len(q) : i = 1 \/ 1 < i
    OBVIOUS
  <2>3. \A k \in Asked(q) : k \in Head(q).add \/ k \in Asked(Tail(q))
    BY <1>1, <1>3, <2>2 DEF Asked
  <2>4. Head(q).add \subseteq Asked(q)
    BY <1>1 DEF Asked
  <2> QED
    BY <2>1, <2>3, <2>4
<1>6. AskedAgain(ks, Tail(q))
  <2> SUFFICES ASSUME NEW i \in 1..Len(Tail(q)), NEW k \in ks \cap Tail(q)[i].remove
               PROVE  \E j \in 1..Len(Tail(q)) : i < j /\ k \in Tail(q)[j].add
    BY DEF AskedAgain
  <2>1. i + 1 \in 1..Len(q) /\ k \in ks \cap q[i + 1].remove
    BY <1>2, <1>4
  <2>2. PICK j \in 1..Len(q) : i + 1 < j /\ k \in q[j].add
    BY <2>1 DEF AskedAgain
  <2>3. 1 < j /\ i < j - 1
    BY <2>2
  <2> QED
    BY <1>3, <2>2, <2>3
<1>7. ASSUME NEW k \in ks \cap Head(q).remove PROVE k \in Asked(Tail(q))
  <2>1. PICK j \in 1..Len(q) : 1 < j /\ k \in q[j].add
    BY <1>1, <1>7 DEF AskedAgain
  <2>2. j - 1 \in 1..Len(Tail(q)) /\ k \in Tail(q)[j - 1].add
    BY <1>3, <2>1
  <2> QED
    BY <2>2 DEF Asked
<1> QED
  BY <1>5, <1>6, <1>7

LEMMA AskedAppend ==
  ASSUME NEW q \in Seq(Request), NEW r \in Request, NEW ks, NEW ls,
         AskedAgain(ks, q), ls \subseteq ks \cup r.add, ls \cap r.remove = {}
  PROVE  /\ Asked(Append(q, r)) = Asked(q) \cup r.add
         /\ AskedAgain(ls, Append(q, r))
<1>1. /\ Len(Append(q, r)) = Len(q) + 1 /\ Len(q) \in Nat
      /\ Append(q, r)[Len(q) + 1] = r
      /\ \A i \in 1..Len(q) : Append(q, r)[i] = q[i] /\ i < Len(q) + 1 /\ i \in 1..(Len(q) + 1)
  OBVIOUS
<1>2. \A i \in 1..(Len(q) + 1) : i = Len(q) + 1 \/ i \in 1..Len(q)
  BY <1>1
<1>3. Len(q) + 1 \in 1..(Len(q) + 1)
  BY <1>1
<1>4. Asked(Append(q, r)) = Asked(q) \cup r.add
  <2>1. \A k \in Asked(Append(q, r)) : k \in Asked(q) \cup r.add
    BY <1>1, <1>2 DEF Asked
  <2>2. \A k \in Asked(q) \cup r.add : k \in Asked(Append(q, r))
    BY <1>1, <1>3 DEF Asked
  <2> QED
    BY <2>1, <2>2
<1>5. AskedAgain(ls, Append(q, r))
  BY <1>1, <1>2, <1>3 DEF AskedAgain
<1> QED
  BY <1>4, <1>5

LEMMA InitRequests ==
  ASSUME Init
  PROVE  Requests
<1>1. PICK held \in [Clients -> Joined] : BusInit(held) /\ BrowserInit(held) /\ ClientInit(held)
  BY DEF Init
<1>2. \A c \in Clients : /\ wanted[c] = held[c] /\ kept[c] = held[c]
                         /\ agents[c] = held[c] /\ subscriptions[c] = held[c]
                         /\ fromWebSocket[c] = <<>> /\ loop[c] = "select"
                         /\ \A o \in Objects : view[c][o] = NoView /\ objs[c][o] = NoDoc
  BY <1>1 DEF BusInit, BrowserInit, ClientInit, NoObjs
<1>3. ASSUME NEW c \in Clients
      PROVE  Pending(c) /\ Subscribed(c) /\ Shown(c)
  BY <1>2, AskedEmpty DEF Pending, Subscribed, Shown, Unsubscribed, Handling
<1> QED
  BY <1>3 DEF Requests

(* Of client c, nothing that Requests speaks of changes.                   *)
Untouched(c) ==
  /\ wanted'[c] = wanted[c] /\ kept'[c] = kept[c] /\ view'[c] = view[c]
  /\ agents'[c] = agents[c] /\ subscriptions'[c] = subscriptions[c]
  /\ fromWebSocket'[c] = fromWebSocket[c] /\ loop'[c] = loop[c]
  /\ req'[c] = req[c] /\ objs'[c] = objs[c]

LEMMA UntouchedRequests ==
  ASSUME NEW c \in Clients, Pending(c), Subscribed(c), Shown(c), Untouched(c)
  PROVE  (Pending(c) /\ Subscribed(c) /\ Shown(c))'
<1>1. Handling(c)' <=> Handling(c)
  BY DEF Untouched, Handling
<1>2. Unsubscribed(c)' = Unsubscribed(c)
  BY <1>1 DEF Untouched, Unsubscribed
<1> QED
  BY <1>1, <1>2 DEF Untouched, Pending, Subscribed, Shown

(* Only the request and handling steps of a client touch it, and the       *)
(* messages forwarded to its browser.                                      *)
LEMMA OthersUntouched ==
  ASSUME IInv, [Next]_vars, NEW c \in Clients,
         ~ BrowserStep(c), ~ ForwardStep(c), ~ HandleStep(c)
  PROVE  Untouched(c)
<1>1. ASSUME UNCHANGED <<browserVars, agents, subscriptions, fromWebSocket, loop, req, objs>>
      PROVE  Untouched(c)
  BY <1>1 DEF Untouched, browserVars
<1>2. ASSUME Mutate
      PROVE  UNCHANGED <<agents, browserVars, clientVars>>
  BY <1>2 DEF Mutate, MutatorStep, busVars, Publish
<1>3. ASSUME NEW d \in Clients \ {c}, BrowserStep(d) \/ ForwardStep(d) \/ HandleStep(d)
      PROVE  Untouched(c)
  <2>1. CASE BrowserStep(d)
    BY <2>1 DEF BrowserStep, UpdateSubscription, Ask, busVars, Untouched, IInv,
                BrowserTypeOK, ClientTypeOK
  <2>2. CASE ForwardStep(d)
    BY <2>2 DEF ForwardStep, Forward, Receives, busVars, Untouched, IInv, BrowserTypeOK,
                ClientTypeOK
  <2>3. CASE HandleStep(d)
    BY <2>3 DEF HandleStep, HandleMessage, RemoveKeys, AddKeys, UpdateAgents, UpdateChannels,
                LoadObjects, WriteObjects, ReceivesAll, Goto, busVars, browserVars, Untouched,
                IInv, BusTypeOK, BrowserTypeOK, ClientTypeOK
  <2> QED
    BY <1>3, <2>1, <2>2, <2>3
<1>4. CASE Mutate
  BY <1>1, <1>2, <1>4 DEF clientVars
<1>5. CASE BusStep \/ UNCHANGED vars
  BY <1>1, <1>5 DEF BusStep, Dispatch, vars, busVars, clientVars
<1>6. ASSUME NEW d \in Clients, ReceiveStep(d) \/ FatalStep(d)
      PROVE  Untouched(c)
  BY <1>1, <1>6 DEF ReceiveStep, Receive, Enqueue, FatalStep, MapFatal, busVars, clientVars
<1> QED
  BY <1>3, <1>4, <1>5, <1>6 DEF Next

(* A request is made.                                                      *)
LEMMA AskRequests ==
  ASSUME IInv, NEW c \in Clients, BrowserStep(c), Pending(c), Subscribed(c), Shown(c)
  PROVE  (Pending(c) /\ Subscribed(c) /\ Shown(c))'
<1>1. PICK r \in Request : UpdateSubscription(c, r)
  BY DEF BrowserStep
<1> DEFINE q == fromWebSocket[c]
<1>2. /\ r.add \subseteq MayAdd \ wanted[c] /\ r.remove \subseteq MayRemove \cap wanted[c]
      /\ wanted'[c] = (wanted[c] \ r.remove) \cup r.add
      /\ kept'[c] = kept[c] \ r.remove
      /\ \A o \in Objects : view'[c][o] = IF view[c][o].key \in r.remove THEN NoView
                                          ELSE view[c][o]
  BY <1>1 DEF UpdateSubscription, Ask, IInv, BrowserTypeOK
<1>3. /\ fromWebSocket'[c] = Append(q, r) /\ q \in Seq(Request)
      /\ UNCHANGED <<agents, subscriptions, loop, req, objs>>
  BY <1>1 DEF BrowserStep, UpdateSubscription, busVars, IInv, ClientTypeOK
<1>4. /\ Asked(Append(q, r)) = Asked(q) \cup r.add
      /\ AskedAgain(wanted'[c], Append(q, r))
  BY <1>2, <1>3, AskedAppend DEF Pending
<1>5. Legal(kept'[c], r) /\ \A s : Legal(kept[c], s) => Legal(kept'[c], s)
  BY <1>2 DEF Legal, Subscribed
<1>6. Handling(c)' <=> Handling(c)
  BY <1>3 DEF Handling
<1>7. Unsubscribed(c)' = Unsubscribed(c) \cup r.add
  BY <1>3, <1>4, <1>6 DEF Unsubscribed
<1>8. Pending(c)'
  <2> HIDE DEF q
  <2>1. \A i \in 1..Len(Append(q, r)) : Legal(kept'[c], Append(q, r)[i])
    <3>1. /\ Len(Append(q, r)) = Len(q) + 1 /\ Append(q, r)[Len(q) + 1] = r
          /\ \A i \in 1..Len(q) : Append(q, r)[i] = q[i]
          /\ \A i \in 1..(Len(q) + 1) : i = Len(q) + 1 \/ i \in 1..Len(q)
      BY <1>3
    <3>2. \A i \in 1..Len(q) : Legal(kept'[c], q[i])
      BY <1>5 DEF Pending, q
    <3> QED
      BY <1>5, <3>1, <3>2
  <2>2. Handling(c)' => wanted'[c] \cap req'[c].remove \subseteq Asked(fromWebSocket'[c])
    BY <1>2, <1>3, <1>4, <1>6 DEF Pending, q
  <2> QED
    BY <1>3, <1>4, <1>5, <2>1, <2>2 DEF Pending
<1>9. Subscribed(c)'
  BY <1>2, <1>3, <1>7 DEF Subscribed, MayChange
<1>10. Shown(c)'
  BY <1>2, <1>3 DEF Shown
<1> QED
  BY <1>8, <1>9, <1>10

(* What a browser shows is in a key it wants.                              *)
LEMMA AppliedWanted ==
  ASSUME NEW w, NEW m \in Msg, NEW ks, w # NoView => w.key \in ks
  PROVE  Applied(w, m, ks) # NoView => Applied(w, m, ks).key \in ks
<1>1. m.type \in {"add", "mod", "rem"}
  BY DEF Msg
<1>2. \A k : Placed(w, k, m.v, ks) # NoView => Placed(w, k, m.v, ks).key \in ks
  BY DEF Placed
<1> QED
  BY <1>1, <1>2 DEF Applied, OnAdd, OnMod, OnRem

LEMMA ForwardRequests ==
  ASSUME IInv, NEW c \in Clients, ForwardStep(c), Pending(c), Subscribed(c), Shown(c)
  PROVE  (Pending(c) /\ Subscribed(c) /\ Shown(c))'
<1> DEFINE m == Head(toWebSocket[c])
<1>1. m \in Msg
  BY QueueTypes DEF ForwardStep, Forward
<1>2. /\ view' = [view EXCEPT ![c][m.id] = Applied(view[c][m.id], m, wanted[c])]
      /\ UNCHANGED <<wanted, kept, agents, subscriptions, fromWebSocket, loop, req, objs>>
  BY DEF ForwardStep, Forward, Receives, busVars
<1> HIDE DEF m
<1>3. \A o \in Objects : view'[c][o] # NoView => view'[c][o].key \in wanted[c]
  <2>1. /\ view'[c][m.id] = Applied(view[c][m.id], m, wanted[c])
        /\ \A o \in Objects \ {m.id} : view'[c][o] = view[c][o]
    BY <1>1, <1>2 DEF IInv, BrowserTypeOK, Msg
  <2> QED
    BY <1>1, <2>1, AppliedWanted DEF Shown
<1> QED
  BY <1>2, <1>3 DEF Pending, Subscribed, Shown, Unsubscribed, Handling

(* The main loop takes up a request and goes through it.                   *)
LEMMA HandleRequests ==
  ASSUME IInv, NEW c \in Clients, HandleStep(c), Pending(c), Subscribed(c), Shown(c)
  PROVE  (Pending(c) /\ Subscribed(c) /\ Shown(c))'
<1> DEFINE q == fromWebSocket[c]
<1>1. q \in Seq(Request)
  BY DEF IInv, ClientTypeOK
<1>2. UNCHANGED <<wanted, kept>>
  BY DEF HandleStep, browserVars
<1>3. CASE HandleMessage(c) /\ UNCHANGED <<busVars, browserVars>>
  <2>1. /\ q # <<>> /\ loop[c] = "select" /\ loop'[c] = "remove"
        /\ req'[c] = Head(q) /\ fromWebSocket'[c] = Tail(q)
        /\ UNCHANGED <<agents, subscriptions, objs, view>>
    BY <1>3 DEF HandleMessage, Goto, busVars, browserVars, IInv, ClientTypeOK
  <2>2. ~ Handling(c) /\ Handling(c)'
    BY <2>1 DEF Handling
  <2>3. /\ Asked(q) = Head(q).add \cup Asked(Tail(q))
        /\ AskedAgain(wanted[c], Tail(q))
        /\ wanted[c] \cap Head(q).remove \subseteq Asked(Tail(q))
    BY <1>1, <2>1, AskedTail DEF Pending
  <2>4. Unsubscribed(c)' = Unsubscribed(c)
    BY <2>1, <2>2, <2>3 DEF Unsubscribed
  <2>5. Legal(kept[c], Head(q)) /\ \A i \in 1..Len(Tail(q)) : Legal(kept[c], Tail(q)[i])
    <3> HIDE DEF q
    <3>1. /\ Head(q) = q[1] /\ 1 \in 1..Len(q)
          /\ \A i \in 1..Len(Tail(q)) : Tail(q)[i] = q[i + 1] /\ i + 1 \in 1..Len(q)
      BY <1>1, <2>1
    <3> QED
      BY <3>1 DEF Pending, q
  <2> HIDE DEF q
  <2>6. Pending(c)'
    BY <1>2, <2>1, <2>3, <2>5 DEF Pending
  <2>7. Subscribed(c)'
    BY <1>2, <2>1, <2>4 DEF Subscribed
  <2>8. Shown(c)'
    BY <1>2, <2>1 DEF Shown
  <2> QED
    BY <2>6, <2>7, <2>8
<1>4. ASSUME UNCHANGED <<fromWebSocket, req, objs, view>>, loop[c] # "select", loop[c] # "write",
             Handling(c)' => Handling(c)
      PROVE  Pending(c)' /\ Shown(c)'
  BY <1>2, <1>4 DEF Pending, Shown
<1>5. CASE RemoveKeys(c) /\ UNCHANGED <<busVars, browserVars>>
  <2>1. /\ loop[c] = "remove" /\ loop'[c] = "add"
        /\ subscriptions'[c] = subscriptions[c] \ req[c].remove
        /\ UNCHANGED <<agents, fromWebSocket, req, objs, view>>
    BY <1>5 DEF RemoveKeys, Goto, busVars, browserVars, IInv, ClientTypeOK
  <2>2. Handling(c) /\ Handling(c)' /\ Unsubscribed(c)' = Unsubscribed(c)
    BY <2>1 DEF Handling, Unsubscribed
  <2>3. Subscribed(c)'
    BY <1>2, <2>1, <2>2 DEF Subscribed, Pending, Legal
  <2> QED
    BY <1>4, <2>1, <2>2, <2>3
<1>6. CASE AddKeys(c) /\ UNCHANGED <<busVars, browserVars>>
  <2>1. /\ loop[c] = "add" /\ loop'[c] = "agents"
        /\ subscriptions'[c] = subscriptions[c] \cup req[c].add
        /\ UNCHANGED <<agents, fromWebSocket, req, objs, view>>
    BY <1>6 DEF AddKeys, Goto, busVars, browserVars, IInv, ClientTypeOK
  <2>2. Handling(c) /\ Handling(c)' /\ Unsubscribed(c)' = Unsubscribed(c)
    BY <2>1 DEF Handling, Unsubscribed
  <2>3. Subscribed(c)'
    BY <1>2, <2>1, <2>2 DEF Subscribed, Pending, Legal, MayChange
  <2> QED
    BY <1>4, <2>1, <2>2, <2>3
<1>7. CASE UpdateAgents(c) /\ UNCHANGED <<wire, todo, sending, browserVars>>
  <2>1. /\ loop[c] = "agents" /\ loop'[c] \in {"select", "load"}
        /\ agents'[c] = (agents[c] \ req[c].remove) \cup req[c].add
        /\ UNCHANGED <<subscriptions, fromWebSocket, req, objs, view>>
    BY <1>7 DEF UpdateAgents, UpdateChannels, Goto, browserVars, IInv, BusTypeOK, ClientTypeOK
  <2>2. /\ Handling(c) /\ ~ Handling(c)'
        /\ Unsubscribed(c) = Asked(q) \cup req[c].add /\ Unsubscribed(c)' = Asked(q)
    BY <2>1 DEF Handling, Unsubscribed
  <2> HIDE DEF q
  <2>3. Subscribed(c)'
    BY <1>2, <2>1, <2>2 DEF Subscribed, Pending, Legal, q
  <2> QED
    BY <1>4, <2>1, <2>2, <2>3
<1>8. CASE LoadObjects(c) /\ UNCHANGED <<busVars, browserVars>>
  <2>1. /\ loop[c] = "load" /\ loop'[c] = "write"
        /\ objs'[c] = Load(req[c].add)
        /\ UNCHANGED <<agents, subscriptions, fromWebSocket, req, view>>
    BY <1>8 DEF LoadObjects, Goto, busVars, browserVars, IInv, ClientTypeOK
  <2>2. \A o \in Objects : objs'[c][o] # NoDoc => objs'[c][o].key \in req[c].add
    BY <2>1 DEF Load, IInv, MutInv, StoredSubIsCurrent
  <2>3. ~ Handling(c) /\ ~ Handling(c)' /\ Unsubscribed(c)' = Unsubscribed(c)
    BY <2>1 DEF Handling, Unsubscribed
  <2>4. Pending(c)' /\ Subscribed(c)'
    BY <1>2, <2>1, <2>3 DEF Pending, Subscribed
  <2>5. Shown(c)'
    BY <1>2, <2>1, <2>2 DEF Shown
  <2> QED
    BY <2>4, <2>5
<1>9. CASE WriteObjects(c) /\ UNCHANGED <<busVars, wanted, kept, asked>>
  <2> DEFINE add(o) == AddMsg(o, objs[c][o].key, NoKey, objs[c][o].v)
  <2>1. /\ loop[c] = "write" /\ loop'[c] = "select"
        /\ \A o \in Objects : view'[c][o] = IF objs[c][o] = NoDoc THEN view[c][o]
                                            ELSE Applied(view[c][o], add(o), wanted[c])
        /\ objs'[c] = NoObjs
        /\ UNCHANGED <<agents, subscriptions, fromWebSocket, req>>
    BY <1>9 DEF WriteObjects, ReceivesAll, Goto, busVars, IInv, BrowserTypeOK, ClientTypeOK
  <2>2. ~ Handling(c) /\ ~ Handling(c)' /\ Unsubscribed(c)' = Unsubscribed(c)
    BY <2>1 DEF Handling, Unsubscribed
  <2>3. Pending(c)' /\ Subscribed(c)'
    BY <1>2, <2>1, <2>2 DEF Pending, Subscribed
  <2>4. \A o \in Objects : objs[c][o] # NoDoc => add(o) \in Msg
    <3>1. \A o \in Objects : objs[c][o] # NoDoc => objs[c][o].key \in Keys /\ objs[c][o].v \in Nat
      BY DEF IInv, ClientTypeOK, Doc
    <3> QED
      BY <3>1, MsgTypes DEF MaybeKey
  <2> HIDE DEF add
  <2>5. \A o \in Objects : view'[c][o] # NoView => view'[c][o].key \in wanted[c]
    BY <2>1, <2>4, AppliedWanted DEF Shown
  <2>6. \A o \in Objects : objs'[c][o] = NoDoc
    BY <2>1 DEF NoObjs
  <2>7. Shown(c)'
    BY <1>2, <2>5, <2>6 DEF Shown
  <2> QED
    BY <2>3, <2>7
<1> QED
  BY <1>3, <1>5, <1>6, <1>7, <1>8, <1>9 DEF HandleStep

LEMMA StepRequests ==
  ASSUME IInv, Requests, [Next]_vars
  PROVE  Requests'
<1> SUFFICES ASSUME NEW c \in Clients
             PROVE  (Pending(c) /\ Subscribed(c) /\ Shown(c))'
  BY DEF Requests
<1>1. Pending(c) /\ Subscribed(c) /\ Shown(c)
  BY DEF Requests
<1> QED
  BY <1>1, OthersUntouched, UntouchedRequests, AskRequests, ForwardRequests, HandleRequests

-----------------------------------------------------------------------------
(* What becomes of what is said of an object, unless a call is made on it. *)

(* What the queues tell of o, from the mutator to the browser of c.        *)
QueuesTell(c, o) == Told(toWebSocket[c], o) \cup Told(wire, o) \cup Told(outbox[o], o)

LEMMA QueuesHandOn ==
  ASSUME IInv, Calm, MaxFaults = 0, [Next]_vars, NEW c \in Clients, NEW o \in Objects,
         ~ Calls(o)
  PROVE  QueuesTell(c, o)' \subseteq QueuesTell(c, o)
<1> DEFINE S == QueuesTell(c, o)
<1>1. Told(toWebSocket[c], o) \subseteq S /\ Told(wire, o) \subseteq S /\ Told(outbox[o], o) \subseteq S
  BY DEF QueuesTell
<1>2. ASSUME Told(toWebSocket'[c], o) \subseteq S, Told(wire', o) \subseteq S,
             Told(outbox'[o], o) \subseteq S
      PROVE  QueuesTell(c, o)' \subseteq S
  BY <1>2 DEF QueuesTell
<1> HIDE DEF S
<1>3. ASSUME NEW q \in Seq(Msg), q # <<>>, Told(q, o) \subseteq S
      PROVE  /\ Told(Tail(q), o) \subseteq S
             /\ Head(q).id = o /\ Head(q).type # "rem" => Says(Head(q)) \in S
  BY <1>3, ToldTail
<1>4. ASSUME Undisturbed
      PROVE  QueuesTell(c, o)' \subseteq S
  BY <1>1, <1>2, <1>4 DEF Undisturbed
<1>5. ASSUME Disposed
      PROVE  QueuesTell(c, o)' \subseteq S
  BY <1>1, <1>2, <1>3, <1>5, QueueTypes DEF Disposed
<1>6. ASSUME NEW d \in Clients, Queued(d)
      PROVE  QueuesTell(c, o)' \subseteq S
  <2>1. /\ toWebSocket'[d] = Append(toWebSocket[d], Head(wire))
        /\ \A e \in Clients \ {d} : toWebSocket'[e] = toWebSocket[e]
        /\ Head(wire) \in Msg /\ wire # <<>> /\ outbox' = outbox
        /\ wire' = wire \/ wire' = Tail(wire)
    BY <1>6, QueuedFacts
  <2>2. Told(wire', o) \subseteq S /\ (Head(wire).id = o /\ Head(wire).type # "rem" => Says(Head(wire)) \in S)
    BY <1>1, <1>3, <2>1, QueueTypes
  <2>3. Told(toWebSocket'[c], o) \subseteq S
    BY <1>1, <2>1, <2>2, QueueTypes, ToldAppend
  <2> QED
    BY <1>1, <1>2, <2>1, <2>2, <2>3
<1>7. ASSUME NEW d \in Clients, Sent(d)
      PROVE  QueuesTell(c, o)' \subseteq S
  <2>1. /\ toWebSocket[d] # <<>> /\ toWebSocket'[d] = Tail(toWebSocket[d])
        /\ \A e \in Clients \ {d} : toWebSocket'[e] = toWebSocket[e]
        /\ wire' = wire /\ outbox' = outbox
    BY <1>7, SentFacts
  <2>2. Told(toWebSocket'[c], o) \subseteq S
    BY <1>1, <1>3, <2>1, QueueTypes
  <2> QED
    BY <1>1, <1>2, <2>1, <2>2
<1>8. ASSUME NEW p \in Objects, Put(p)
      PROVE  QueuesTell(c, o)' \subseteq S
  <2> DEFINE m == Head(outbox[p])
  <2>1. /\ outbox[p] # <<>> /\ m \in Msg
        /\ outbox'[p] = Tail(outbox[p])
        /\ \A r \in Objects \ {p} : outbox'[r] = outbox[r]
        /\ wire' = wire \/ wire' = Append(wire, m)
        /\ toWebSocket' = toWebSocket
    BY <1>8, PutFacts
  <2>2. m.id = p
    BY <2>1, QueueTypes, RangeTail DEF Calm, CalmObject
  <2>3. Told(outbox'[o], o) \subseteq S /\ (m.id = o /\ m.type # "rem" => Says(m) \in S)
    BY <1>1, <1>3, <2>1, <2>2, QueueTypes
  <2> HIDE DEF m
  <2>4. Told(wire', o) \subseteq S
    BY <1>1, <2>1, <2>3, QueueTypes, ToldAppend
  <2> QED
    BY <1>1, <1>2, <2>1, <2>3, <2>4
<1>9. ASSUME NEW p \in Objects, p # o, Calls(p)
      PROVE  QueuesTell(c, o)' \subseteq S
  <2>1. PICK msgs : Call(p, msgs)
    BY <1>9 DEF Calls, Created, Updated, Moved, Deleted
  <2>2. wire' = wire /\ toWebSocket' = toWebSocket /\ outbox'[o] = outbox[o]
    BY <1>9, <2>1 DEF Call, busVars, clientVars
  <2> QED
    BY <1>1, <1>2, <2>2
<1>10. QueuesTell(c, o)' \subseteq S
  BY <1>4, <1>5, <1>6, <1>7, <1>8, <1>9, MessageMoves
<1> QED
  BY <1>10 DEF S

(* A browser's copy comes from its queue, or was loaded in a key that it   *)
(* asked for.                                                              *)
LEMMA ViewComesFrom ==
  ASSUME IInv, Requests, [Next]_vars, NEW c \in Clients, NEW o \in Objects
  PROVE  \/ At(view'[c][o]) \in {Nothing, At(view[c][o])} \cup Told(toWebSocket[c], o)
         \/ /\ objs[c][o] # NoDoc /\ loop[c] = "write"
            /\ At(view'[c][o]) = At(objs[c][o])
<1>1. CASE Untouched(c)
  BY <1>1 DEF Untouched
<1>2. At(NoView) = Nothing
  BY DEF At, NoView, Nothing
<1>3. view[c] \in [Objects -> View \cup {NoView}] /\ wanted[c] \in SUBSET Keys
  BY DEF IInv, BrowserTypeOK
<1>4. CASE BrowserStep(c)
  <2>1. view'[c][o] \in {view[c][o], NoView}
    BY <1>3, <1>4 DEF BrowserStep, UpdateSubscription, Ask, IInv, BrowserTypeOK
  <2> QED
    BY <1>2, <2>1
<1>5. CASE ForwardStep(c)
  <2> DEFINE m == Head(toWebSocket[c])
  <2>1. /\ toWebSocket[c] \in Seq(Msg) /\ toWebSocket[c] # <<>>
        /\ view' = [view EXCEPT ![c][m.id] = Applied(@, m, wanted[c])]
    BY <1>5, QueueTypes DEF ForwardStep, Forward, Receives
  <2>2. m \in Msg
    BY <2>1
  <2>3. m.id = o /\ m.type # "rem" => Says(m) \in Told(toWebSocket[c], o)
    BY <2>1, ToldTail
  <2> HIDE DEF m
  <2>4. view'[c][o] = IF m.id = o THEN Applied(view[c][o], m, wanted[c]) ELSE view[c][o]
    BY <1>3, <2>1 DEF IInv, BrowserTypeOK
  <2>5. \/ At(Applied(view[c][o], m, wanted[c])) \in {Nothing, At(view[c][o])}
        \/ m.type # "rem" /\ At(Applied(view[c][o], m, wanted[c])) = Says(m)
    BY <1>3, <2>2, AppliedSays
  <2> QED
    BY <2>3, <2>4, <2>5
<1>6. CASE HandleStep(c)
  <2>1. CASE WriteObjects(c)
    <3> DEFINE add == AddMsg(o, objs[c][o].key, NoKey, objs[c][o].v)
    <3>1. view'[c][o] = IF objs[c][o] = NoDoc THEN view[c][o]
                        ELSE Applied(view[c][o], add, wanted[c])
      BY <2>1 DEF WriteObjects, ReceivesAll, IInv, BrowserTypeOK
    <3>2. objs[c][o] # NoDoc => objs[c][o].key \in Keys /\ objs[c][o].v \in Nat
      BY DEF IInv, ClientTypeOK, Doc
    <3>3. objs[c][o] # NoDoc => add \in Msg
      BY <3>2, MsgTypes DEF MaybeKey
    <3>4. Says(add) = At(objs[c][o])
      BY DEF AddMsg, Says, At
    <3>5. loop[c] = "write"
      BY <2>1 DEF WriteObjects, Goto
    <3> HIDE DEF add
    <3> QED
      BY <1>3, <3>1, <3>3, <3>4, <3>5, AppliedSays
  <2>2. CASE UNCHANGED view
    BY <2>2
  <2> QED
    BY <1>6, <2>1, <2>2 DEF HandleStep, browserVars
<1> QED
  BY <1>1, <1>4, <1>5, <1>6, OthersUntouched

-----------------------------------------------------------------------------
(* In the keys a browser has wanted all along, what it has, or is told, of *)
(* an object is followed by the next change of it.                         *)

(* All that is said of o on the way to c's browser.                        *)
Seen(c, o) == {At(view[c][o])} \cup QueuesTell(c, o)

NextChange(o, w, m) == m.type = "mod" /\ m.id = o /\ m.skey = w.key /\ m.v = w.v + 1

Removal(o, w, m) == m.type = "rem" /\ m.id = o /\ m.skey = w.key

Follow(c, o, w) ==
  /\ w.v < mem[o].v => \E m \in Underway : Comes(c, m) /\ NextChange(o, w, m)
  /\ w.v = mem[o].v /\ o \in gone => \E m \in Underway : Comes(c, m) /\ Removal(o, w, m)

Followed ==
  \A c \in Clients, o \in Objects : \A w \in Seen(c, o) : w.key \in kept[c] => Follow(c, o, w)

(* No request keeps them from the browser.                                 *)
LEMMA KeptIsSafe ==
  ASSUME Requests, Shapes, NEW c \in Clients, NEW m \in Underway,
         m.type # "add", m.skey \in kept[c]
  PROVE  Safe(c, m)
<1>1. m.from = NoKey
  BY DEF Shapes, WellFormed
<1>2. loop[c] # "select" => kept[c] \cap req[c].remove = {} /\ NoKey \notin req[c].add
  BY NoKeyAssumption, BrowserAssumption DEF Requests, Pending, Legal
<1> QED
  BY <1>1, <1>2 DEF Safe

LEMMA KeptShrinks ==
  ASSUME IInv, Requests, [Next]_vars, NEW c \in Clients
  PROVE  kept'[c] \subseteq kept[c] /\ kept[c] \subseteq Keys
<1>1. kept[c] \subseteq Keys
  BY DEF IInv, BrowserTypeOK
<1>2. BrowserStep(c) => kept'[c] \subseteq kept[c]
  BY DEF BrowserStep, UpdateSubscription, Ask, IInv, BrowserTypeOK
<1>3. ForwardStep(c) \/ HandleStep(c) => kept' = kept
  BY DEF ForwardStep, HandleStep, browserVars
<1> QED
  BY <1>1, <1>2, <1>3, OthersUntouched DEF Untouched

(* A message is not forwarded before what it follows, and what it follows  *)
(* is no longer shown when it has been.                                    *)
LEMMA FollowersAreBehind ==
  ASSUME IInv, Ordered, NEW c \in Clients, ForwardStep(c),
         NEW o \in Objects, NEW w \in Seen(c, o)', w.key \in Keys,
         NEW m, m = Head(toWebSocket[c]), NextChange(o, w, m) \/ Removal(o, w, m)
  PROVE  FALSE
<1>1. /\ toWebSocket[c] \in Seq(Msg) /\ toWebSocket[c] # <<>>
      /\ toWebSocket'[c] = Tail(toWebSocket[c]) /\ wire' = wire /\ outbox' = outbox
      /\ view' = [view EXCEPT ![c][m.id] = Applied(@, m, wanted[c])]
  BY QueueTypes DEF ForwardStep, Forward, Receives, mutVars, busVars
<1>2. m \in Msg /\ m.id = o /\ m.v \in Nat
  <2>1. m \in Msg
    BY <1>1
  <2> QED
    BY <2>1 DEF NextChange, Removal, Msg
<1>3. m \in Range(toWebSocket[c]) /\ \A n \in Range(toWebSocket'[c]) : Before(m, n)
  BY <1>1, RangeTail, InOrderTail DEF Ordered
<1>4. ASSUME NEW q \in Seq(Msg), \A n \in Range(q) : Before(m, n), w \in Told(q, o)
      PROVE  FALSE
  <2>1. PICK n \in Range(q) : n.id = o /\ n.type # "rem" /\ Says(n) = w
    BY <1>4, ToldRange
  <2>2. n.v = w.v /\ n.v \in Nat
    BY <1>4, <2>1, RangeIndex DEF Says, Msg
  <2>3. m.type # "rem" /\ m.v <= n.v
    BY <1>2, <1>4, <2>1 DEF Before
  <2> QED
    BY <2>2, <2>3 DEF NextChange, Removal
<1>5. w \notin QueuesTell(c, o)'
  <2>1. toWebSocket'[c] \in Seq(Msg) /\ wire' \in Seq(Msg) /\ outbox'[o] \in Seq(Msg)
    BY <1>1, QueueTypes
  <2>2. \A n \in Range(wire') : Before(m, n)
    BY <1>1, <1>3 DEF Ordered, AllBefore
  <2>3. \A n \in Range(outbox'[o]) : Before(m, n)
    BY <1>1, <1>3 DEF Ordered, AllBefore
  <2> QED
    BY <1>3, <1>4, <2>1, <2>2, <2>3 DEF QueuesTell
<1>6. w = At(view'[c][o])
  BY <1>5 DEF Seen
<1> DEFINE old == view[c][o]
<1>7. view'[c][o] = Applied(old, m, wanted[c]) /\ old \in View \cup {NoView}
  BY <1>1, <1>2 DEF IInv, BrowserTypeOK
<1>8. view'[c][o] # NoView
  BY <1>6, NoKeyAssumption DEF At, NoView
<1> HIDE DEF old
<1>9. m.type # "rem"
  BY <1>7, <1>8 DEF Applied, OnRem
<1>10. m.type = "mod" /\ m.v = w.v + 1
  BY <1>9 DEF NextChange, Removal
<1>11. old.v \in Nat
  BY <1>7, VersionTypes
<1>12. CASE old # NoView /\ old.v < m.v
  <2>1. view'[c][o].v = m.v
    BY <1>7, <1>8, <1>10, <1>12 DEF Applied, OnMod, Placed
  <2> QED
    BY <1>2, <1>6, <1>10, <2>1 DEF At
<1>13. CASE ~ (old # NoView /\ old.v < m.v)
  <2>1. view'[c][o] = old
    BY <1>7, <1>10, <1>13 DEF Applied, OnMod
  <2>2. w.v = old.v
    BY <1>6, <2>1 DEF At
  <2> QED
    BY <1>2, <1>8, <1>10, <1>11, <1>13, <2>1, <2>2
<1> QED
  BY <1>12, <1>13

(* What comes after w keeps coming as long as w is said.                   *)
LEMMA FollowersCome ==
  ASSUME IInv, Calm, MaxFaults = 0, Shapes, Ordered, Requests, [Next]_vars,
         NEW c \in Clients, NEW o \in Objects, NEW w \in Seen(c, o)', w.key \in kept[c],
         NEW m \in Underway, Comes(c, m), NextChange(o, w, m) \/ Removal(o, w, m)
  PROVE  m \in Underway' /\ Comes(c, m)'
<1>1. Safe(c, m)
  BY KeptIsSafe DEF NextChange, Removal
<1>2. w.key \in Keys
  BY KeptShrinks
<1>3. Comes(c, m)'
  BY <1>1, <1>2, Delivery, FollowersAreBehind
<1>4. IInv'
  BY NextInv
<1>5. m \in Underway'
  <2>1. OnWire(c, m)' => m \in Range(wire')
    <3>1. wire' \in Seq(Msg)
      BY <1>4, QueueTypes DEF IInv, BusTypeOK
    <3> QED
      BY <3>1, RangeIndex DEF OnWire
  <2> QED
    BY <1>3, <2>1 DEF Comes, Underway
<1> QED
  BY <1>3, <1>5

(* A step that is not a call on o.                                         *)
LEMMA OtherFollowed ==
  ASSUME IInv, Calm, MaxFaults = 0, Shapes, Ordered, Requests, Followed, [Next]_vars,
         NEW c \in Clients, NEW o \in Objects, ~ Calls(o),
         NEW w \in Seen(c, o)', w.key \in kept'[c]
  PROVE  Follow(c, o, w)'
<1>1. w.key \in kept[c] /\ w.key \in Keys
  BY KeptShrinks
<1>2. w \in Seen(c, o)
  <2>1. w \in QueuesTell(c, o)' => w \in Seen(c, o)
    BY QueuesHandOn DEF Seen
  <2>2. w # Nothing
    BY <1>1, NoKeyAssumption DEF Nothing
  <2>3. objs[c][o] # NoDoc /\ loop[c] = "write" => w # At(objs[c][o])
    BY <1>1 DEF Requests, Pending, Shown, Legal, At
  <2>4. Told(toWebSocket[c], o) \subseteq Seen(c, o) /\ At(view[c][o]) \in Seen(c, o)
    BY DEF Seen, QueuesTell
  <2> QED
    BY <2>1, <2>2, <2>3, <2>4, ViewComesFrom DEF Seen
<1>3. Follow(c, o, w)
  BY <1>1, <1>2 DEF Followed
<1>4. mem'[o].v = mem[o].v /\ (o \in gone' => o \in gone)
  <2>1. CASE Mutate
    <3>1. ASSUME NEW p \in Objects, Renamed(p)
          PROVE  mem'[o].v = mem[o].v /\ (o \in gone' => o \in gone)
      BY <3>1 DEF Renamed, At
    <3>2. ASSUME NEW p \in Objects, Publish(p)
          PROVE  mem'[o].v = mem[o].v /\ (o \in gone' => o \in gone)
      BY <3>2 DEF Publish
    <3>3. ASSUME NEW p \in Objects, Calls(p)
          PROVE  mem'[o].v = mem[o].v /\ (o \in gone' => o \in gone)
      <4>1. p # o
        BY <3>3
      <4>2. mem'[o] = mem[o]
        BY <3>3, <4>1 DEF Calls, Created, Updated, Moved, Deleted, Call
      <4>3. gone' = gone \/ gone' = gone \cup {p}
        BY <3>3, CallShapes
      <4> QED
        BY <4>1, <4>2, <4>3
    <3> QED
      BY <2>1, <3>1, <3>2, <3>3, MutateCases DEF Calls
  <2>2. CASE UNCHANGED mutVars
    BY <2>2 DEF mutVars
  <2> QED
    BY <2>1, <2>2 DEF Next, BusStep, BrowserStep, ReceiveStep, ForwardStep, HandleStep,
                      FatalStep, vars
<1> QED
  BY <1>1, <1>3, <1>4, FollowersCome DEF Follow

LEMMA ClaimVersions ==
  ASSUME IInv, NEW o \in Objects
  PROVE  \A w \in Claims(o) : w.v \in Nat
<1>1. ASSUME NEW q \in Seq(Msg)
      PROVE  \A w \in Told(q, o) : w.v \in Nat
  <2>1. \A m \in Range(q) : m.v \in Nat
    BY <1>1, RangeIndex DEF Msg
  <2> QED
    BY <1>1, <2>1, ToldRange DEF Says
<1>2. At(db[o]).v \in Nat
  BY VersionTypes DEF IInv, MutInv, MongoTypeOK, At
<1>3. \A c \in Clients : At(objs[c][o]).v \in Nat /\ At(view[c][o]).v \in Nat
  BY VersionTypes DEF IInv, ClientTypeOK, BrowserTypeOK, At
<1>4. \A c \in Clients : \A w \in ClientClaims(c, o) : w.v \in Nat
  BY <1>1, <1>3, QueueTypes DEF ClientClaims
<1> QED
  BY <1>1, <1>2, <1>4, QueueTypes DEF Claims

(* A call on o: what is said of o in its latest version is followed by     *)
(* what the call publishes in its key.                                     *)
LEMMA CallFollowed ==
  ASSUME IInv, Agree, Calm, MaxFaults = 0, Shapes, Ordered, Requests, Followed, [Next]_vars,
         NEW c \in Clients, NEW o \in Objects, Calls(o),
         NEW w \in Seen(c, o)', w.key \in kept'[c]
  PROVE  Follow(c, o, w)'
<1>1. w.key \in kept[c] /\ w.key \in Keys /\ w.key \in agents[c]
  BY KeptShrinks DEF Requests, Subscribed
<1>2. PICK msgs : Call(o, msgs)
  BY DEF Calls, Created, Updated, Moved, Deleted
<1>3. /\ outbox[o] = <<>> /\ o \notin gone /\ outbox'[o] = msgs /\ msgs \in Seq(Msg)
      /\ UNCHANGED <<wire, agents, subscriptions, toWebSocket, view>>
  BY <1>2 DEF Call, busVars, clientVars, browserVars
<1>4. w \in Seen(c, o) \cup Told(msgs, o)
  BY <1>3 DEF Seen, QueuesTell
<1>5. ASSUME NEW m \in Range(msgs), m.from = NoKey, m.skey = w.key
      PROVE  m \in Underway' /\ Comes(c, m)'
  <2>1. ~ Filtered(c, m)'
    BY <1>5 DEF Filtered
  <2> QED
    BY <1>1, <1>3, <1>5, <2>1 DEF Comes, Underway
<1>6. mem[o].v \in Nat /\ mem[o].key \in Keys
  BY DEF IInv, MutInv, MongoTypeOK, Struct
<1>7. ASSUME w \in Seen(c, o)
      PROVE  /\ w.v <= mem[o].v
             /\ w.v \in Nat
             /\ w.v < mem[o].v => \E m \in Underway' : Comes(c, m)' /\ NextChange(o, w, m)
             /\ w.v = mem[o].v => db[o] # NoDoc /\ w.key = mem[o].key
  <2>1. w \in Claims(o)
    BY <1>7, ClaimParts DEF Seen, QueuesTell
  <2>2. w.v <= mem[o].v
    BY <2>1, ClaimsStored
  <2>3. w.v < mem[o].v => \E m \in Underway' : Comes(c, m)' /\ NextChange(o, w, m)
    BY <1>1, <1>7, FollowersCome DEF Followed, Follow
  <2>4. w.v = mem[o].v => db[o] # NoDoc /\ w.key = mem[o].key
    <3>1. w # Nothing
      BY <1>1, NoKeyAssumption DEF Nothing
    <3>2. w.v # 0
      <4>1. Nothing.v = 0
        BY DEF Nothing
      <4> QED
        BY <2>1, <3>1, <4>1 DEF Agree
    <3>3. ASSUME w.v = mem[o].v
          PROVE  db[o] # NoDoc /\ At(db[o]) = At(mem[o])
      BY <1>3, <3>2, <3>3 DEF Calm, CalmObject
    <3>4. At(db[o]) \in Claims(o) /\ At(mem[o]).v = mem[o].v /\ At(mem[o]).key = mem[o].key
      BY ClaimParts DEF At
    <3> QED
      BY <2>1, <3>3, <3>4 DEF Agree
  <2>5. w.v \in Nat
    BY <2>1, ClaimVersions
  <2> QED
    BY <2>2, <2>3, <2>4, <2>5
<1>8. CASE Deleted(o)
  <2>1. mem'[o] = mem[o] /\ msgs = <<RemMsg(o, mem[o].key)>>
    BY <1>3, <1>8 DEF Deleted, Call
  <2>2. Range(msgs) = {RemMsg(o, mem[o].key)}
    BY <2>1, RangeOne
  <2>3. w \in Seen(c, o)
    BY <1>3, <1>4, <2>2, ToldRange DEF RemMsg
  <2>4. w.v = mem[o].v => \E m \in Underway' : Comes(c, m)' /\ Removal(o, w, m)
    BY <1>5, <1>7, <2>2, <2>3 DEF Removal, RemMsg
  <2> QED
    BY <1>7, <2>1, <2>3, <2>4 DEF Follow
<1>9. CASE Created(o) \/ Updated(o) \/ Moved(o)
  <2>1. PICK s : /\ Stores(o, s) /\ \A m \in Range(msgs) : Tells(o, s, m)
    <3>1. PICK s, ms : /\ Stores(o, s) /\ Call(o, ms)
                       /\ \A m \in Range(ms) : Tells(o, s, m)
      BY <1>9, CallTells
    <3>2. ms = msgs
      BY <1>3, <3>1 DEF Call
    <3> QED
      BY <3>1, <3>2
  <2>2. mem'[o] = s /\ s.v = mem[o].v + 1 /\ gone' = gone
    BY <2>1, StoresFacts
  <2>3. CASE w \in Told(msgs, o)
    <3>1. w = At(s)
      BY <1>3, <2>1, <2>3, ToldRange DEF Tells
    <3>2. w.v = mem'[o].v /\ o \notin gone'
      BY <1>3, <2>2, <3>1 DEF At
    <3> QED
      BY <1>6, <2>2, <3>2 DEF Follow
  <2>4. CASE w \in Seen(c, o)
    <3>1. w.v # mem'[o].v
      BY <1>6, <1>7, <2>2, <2>4
    <3>2. w.v = mem[o].v => \E m \in Underway' : Comes(c, m)' /\ NextChange(o, w, m)
      <4>1. ASSUME db[o] # NoDoc
            PROVE  \E m \in Range(msgs) : m.type = "mod" /\ m.id = o /\ m.from = NoKey
                                          /\ m.skey = mem[o].key /\ m.v = s.v
        <5>1. CASE Updated(o)
          <6>1. PICK t : Stores(o, t) /\ t.key = mem[o].key
                         /\ Call(o, <<ModMsg(o, t.key, t.key, t.v)>>)
            BY <5>1 DEF Updated
          <6>2. msgs = <<ModMsg(o, t.key, t.key, t.v)>> /\ t = s
            BY <1>3, <2>2, <6>1, StoresFacts DEF Call
          <6> QED
            BY <6>1, <6>2, RangeOne DEF ModMsg
        <5>2. CASE Moved(o)
          <6> DEFINE mod(t) == ModMsg(o, mem[o].key, t.key, t.v)
                     add(t) == AddMsg(o, t.key, mem[o].key, t.v)
          <6>1. PICK t : Stores(o, t) /\ Call(o, <<mod(t), add(t)>>)
            BY <5>2 DEF Moved
          <6> HIDE DEF add
          <6>2. msgs = <<mod(t), add(t)>> /\ t = s
            BY <1>3, <2>2, <6>1, StoresFacts DEF Call
          <6>3. mod(s) \in Range(msgs)
            BY <6>2, RangeTwo
          <6> QED
            BY <6>3 DEF ModMsg
        <5>3. ~ Created(o)
          BY <4>1 DEF Created
        <5> QED
          BY <1>9, <5>1, <5>2, <5>3
      <4> QED
        BY <1>5, <1>7, <2>2, <2>4, <4>1 DEF NextChange
    <3>3. w.v < mem[o].v \/ w.v = mem[o].v
      BY <1>6, <1>7, <2>4
    <3> QED
      BY <1>7, <2>4, <3>1, <3>2, <3>3 DEF Follow
  <2> QED
    BY <1>4, <2>3, <2>4
<1> QED
  BY <1>8, <1>9 DEF Calls

LEMMA StepFollowed ==
  ASSUME IInv, Agree, Calm, MaxFaults = 0, Shapes, Ordered, Requests, Followed, [Next]_vars
  PROVE  Followed'
<1> SUFFICES ASSUME NEW c \in Clients, NEW o \in Objects,
                    NEW w \in Seen(c, o)', w.key \in kept'[c]
             PROVE  Follow(c, o, w)'
  BY DEF Followed
<1> QED
  BY OtherFollowed, CallFollowed

LEMMA InitFollowed ==
  ASSUME Init
  PROVE  Followed
<1>1. \A c \in Clients : kept[c] \subseteq Keys
  <2>1. PICK held \in [Clients -> Joined] : BrowserInit(held)
    BY DEF Init
  <2> QED
    BY <2>1, JoinedAssumption DEF BrowserInit
<1>2. ASSUME NEW c \in Clients, NEW o \in Objects
      PROVE  Seen(c, o) = {Nothing}
  <2>1. view[c][o] = NoView /\ toWebSocket[c] = <<>> /\ wire = <<>> /\ outbox[o] = <<>>
    BY DEF Init, MongoInit, BusInit, BrowserInit, ClientInit
  <2> QED
    BY <2>1, ToldEmpty DEF Seen, QueuesTell, At, NoView, Nothing
<1> QED
  BY <1>1, <1>2, NoKeyAssumption DEF Followed, Nothing

-----------------------------------------------------------------------------
(* The inductive invariant of the node when nothing fails, and what        *)
(* follows from it.                                                        *)
Delivers == Agree /\ Calm /\ Shapes /\ Ordered /\ Requests /\ Followed

LEMMA InitDelivers ==
  ASSUME Init
  PROVE  Delivers
BY InitAgrees, InitCalm, InitShapes, InitOrdered, InitRequests, InitFollowed
DEF Delivers, Shapes

LEMMA StepDelivers ==
  ASSUME MaxFaults = 0, IInv, Delivers, [Next]_vars
  PROVE  Delivers'
BY StepAgrees, StepCalm, StepShapes, StepOrdered, StepRequests, StepFollowed DEF Delivers

(* Once things have settled, nothing comes any more.                       *)
LEMMA NothingComes ==
  ASSUME NEW c \in Clients, Settled(c)
  PROVE  \A m : ~ Comes(c, m)
<1>1. /\ Range(toWebSocket[c]) = {} /\ Len(wire) = 0
      /\ \A o \in Objects : Range(outbox[o]) = {}
  BY RangeEmpty DEF Settled, Idle
<1> QED
  BY <1>1 DEF Comes, OnWire

(* The latest version of an object is where the document is, and as it is. *)
LEMMA LatestIsCurrent ==
  ASSUME IInv, Agree, Calm, NEW c \in Clients, NEW o \in Objects, o \notin gone,
         view[c][o] # NoView, view[c][o].key \in wanted[c], view[c][o].v = mem[o].v
  PROVE  view[c][o] = Current(c, o)
<1> DEFINE w == view[c][o]
<1>1. w \in View /\ At(w) = w /\ w \in Claims(o)
  <2>1. w \in View
    BY DEF IInv, BrowserTypeOK
  <2>2. At(w) = w
    BY <2>1 DEF View, At
  <2> QED
    BY <2>1, <2>2, ClaimParts
<1>2. w.v # 0
  <2>1. Nothing.v = 0 /\ w # Nothing
    BY DEF Nothing, NoView
  <2> QED
    BY <1>1, <2>1 DEF Agree
<1>3. At(db[o]) = At(mem[o])
  BY <1>2 DEF Calm, CalmObject
<1>4. At(db[o]).v = w.v /\ At(db[o]) \in Claims(o)
  BY <1>3, ClaimParts DEF At
<1>5. w = At(db[o])
  BY <1>1, <1>4 DEF Agree
<1> QED
  BY <1>5 DEF At, Current

LEMMA SettledIsFollowed ==
  ASSUME IInv, Delivers, NEW c \in Clients, Settled(c), NEW o \in Objects,
         view[c][o].key \in kept[c]
  PROVE  view[c][o] = Current(c, o)
<1> DEFINE w == At(view[c][o])
<1>1. w \in Seen(c, o) /\ w.key \in kept[c] /\ w.v = view[c][o].v
  BY DEF Seen, At
<1>2. Follow(c, o, w)
  BY <1>1 DEF Delivers, Followed
<1>3. ~ (w.v < mem[o].v) /\ ~ (w.v = mem[o].v /\ o \in gone)
  BY <1>2, NothingComes DEF Follow
<1>4. w.v <= mem[o].v /\ w.v \in Nat /\ mem[o].v \in Nat
  BY ClaimsStored, ClaimVersions, ClaimParts DEF IInv, MutInv, MongoTypeOK, Struct
<1>5. w.v = mem[o].v /\ o \notin gone
  BY <1>3, <1>4
<1>6. view[c][o] # NoView /\ view[c][o].key \in wanted[c]
  BY NoKeyAssumption DEF Delivers, Requests, Subscribed, IInv, BrowserTypeOK, NoView
<1> QED
  BY <1>1, <1>5, <1>6, LatestIsCurrent DEF Delivers

(* No ghosts in the keys a browser has wanted all along, however many      *)
(* mutators, clients and browsers there are and whatever they do: what a   *)
(* browser shows there once things have settled is what there is.  It      *)
(* takes that no write, publish or process fails.                          *)
THEOREM NoGhosts ==
  ASSUME MaxFaults = 0
  PROVE  Spec => []NoGhostWhereHeld
<1>1. Init => IInv /\ Delivers
  BY InitInv, InitDelivers
<1>2. IInv /\ Delivers /\ [Next]_vars => IInv' /\ Delivers'
  BY NextInv, StepDelivers
<1>3. IInv /\ Delivers => NoGhostWhereHeld
  BY SettledIsFollowed DEF NoGhostWhereHeld
<1> QED
  BY <1>1, <1>2, <1>3, PTL DEF Spec
=============================================================================
