--------------------------- MODULE VersionProofs ----------------------------
(***************************************************************************)
(* A version of an object is of one state only, for every set of objects,  *)
(* clients and keys and every value of the bounds.                         *)
(*                                                                         *)
(* A step says nothing new of an object, unless it is a write; and a write *)
(* counts the version on from the one in memory, which nothing that was    *)
(* said before exceeds: that is what SynkNodeProofs!IInv is needed for.    *)
(***************************************************************************)
EXTENDS SynkNodeProofs

(* What a missing document or copy says.                                   *)
Nothing == [key |-> NoKey, v |-> 0]

(* The inductive invariant: what is said of no object has version 0.       *)
Agree ==
  \A o \in Objects : \A c, d \in Claims(o) \cup {Nothing} : c.v = d.v => c = d

-----------------------------------------------------------------------------
(* What a queue tells.                                                     *)

LEMMA ToldEmpty == \A o \in Objects : Told(<<>>, o) = {}
BY DEF Told

LEMMA ToldTail ==
  ASSUME NEW q \in Seq(Msg), q # <<>>, NEW o \in Objects
  PROVE  /\ Told(Tail(q), o) \subseteq Told(q, o)
         /\ Head(q).id = o /\ Head(q).type # "rem" => Says(Head(q)) \in Told(q, o)
<1>1. Head(q) = q[1] /\ Len(q) \in Nat /\ 1 \in 1..Len(q)
  OBVIOUS
<1>2. \A i \in 1..Len(Tail(q)) : i + 1 \in 1..Len(q) /\ Tail(q)[i] = q[i + 1]
  OBVIOUS
<1> QED
  BY <1>1, <1>2 DEF Told

LEMMA ToldAppend ==
  ASSUME NEW q \in Seq(Msg), NEW m \in Msg, NEW o \in Objects, NEW S,
         Told(q, o) \subseteq S, m.id = o /\ m.type # "rem" => Says(m) \in S
  PROVE  Told(Append(q, m), o) \subseteq S
<1>1. /\ Len(Append(q, m)) = Len(q) + 1
      /\ Append(q, m)[Len(q) + 1] = m
      /\ \A i \in 1..Len(q) : Append(q, m)[i] = q[i]
  OBVIOUS
<1>2. \A i \in 1..(Len(q) + 1) : i = Len(q) + 1 \/ i \in 1..Len(q)
  OBVIOUS
<1> QED
  BY <1>1, <1>2 DEF Told

(* The messages of a call are about its object, and tell one thing.        *)
LEMMA ToldCall ==
  ASSUME NEW q \in Seq(Msg), NEW o \in Objects, NEW p \in Objects, NEW claim,
         \A i \in 1..Len(q) : q[i].id = p /\ (q[i].type # "rem" => Says(q[i]) = claim)
  PROVE  Told(q, o) \subseteq IF o = p THEN {claim} ELSE {}
BY DEF Told

-----------------------------------------------------------------------------
(* The claims, one by one.                                                 *)

LEMMA ClaimParts ==
  ASSUME NEW o \in Objects
  PROVE  /\ \A p \in Objects : Told(outbox[p], o) \subseteq Claims(o)
         /\ Told(wire, o) \subseteq Claims(o)
         /\ At(db[o]) \in Claims(o)
         /\ \A c \in Clients : /\ Told(toWebSocket[c], o) \subseteq Claims(o)
                               /\ At(objs[c][o]) \in Claims(o)
                               /\ At(view[c][o]) \in Claims(o)
<1>1. \A p \in Objects : Told(outbox[p], o) \subseteq UNION {Told(outbox[q], o) : q \in Objects}
  OBVIOUS
<1>2. \A c \in Clients :
        /\ Told(toWebSocket[c], o) \subseteq UNION {ClientClaims(d, o) : d \in Clients}
        /\ At(objs[c][o]) \in UNION {ClientClaims(d, o) : d \in Clients}
        /\ At(view[c][o]) \in UNION {ClientClaims(d, o) : d \in Clients}
  BY DEF ClientClaims
<1> QED
  BY <1>1, <1>2 DEF Claims

LEMMA NextClaims ==
  ASSUME NEW o \in Objects, NEW S,
         \A p \in Objects : Told(outbox'[p], o) \subseteq S,
         Told(wire', o) \subseteq S,
         At(db'[o]) \in S,
         \A c \in Clients : /\ Told(toWebSocket'[c], o) \subseteq S
                            /\ At(objs'[c][o]) \in S
                            /\ At(view'[c][o]) \in S
  PROVE  Claims(o)' \subseteq S
<1>1. UNION {Told(outbox'[p], o) : p \in Objects} \subseteq S
  OBVIOUS
<1>2. UNION {ClientClaims(c, o)' : c \in Clients} \subseteq S
  <2>1. \A c \in Clients : ClientClaims(c, o)' \subseteq S
    BY DEF ClientClaims
  <2> QED
    BY <2>1
<1> QED
  BY <1>1, <1>2 DEF Claims

(* A message's version is at most the one in memory if it was stored.      *)
LEMMA ToldStored ==
  ASSUME NEW q \in Seq(Msg), AllStored(q), NEW o \in Objects
  PROVE  \A c \in Told(q, o) : c.v <= mem[o].v
<1>1. \A i \in 1..Len(q) : Stored(q[i].id, q[i].v)
  BY DEF AllStored
<1> QED
  BY <1>1 DEF Told, Says, Stored

(* Nothing that is said of an object is ahead of its memory.               *)
LEMMA ClaimsStored ==
  ASSUME IInv, NEW o \in Objects
  PROVE  \A c \in Claims(o) : c.v <= mem[o].v
<1>1. \A p \in Objects : \A c \in Told(outbox[p], o) : c.v <= mem[o].v
  BY ToldStored DEF IInv, MutInv, MongoTypeOK
<1>2. \A c \in Told(wire, o) : c.v <= mem[o].v
  BY ToldStored DEF IInv, BusTypeOK
<1>3. \A d \in Clients : \A c \in Told(toWebSocket[d], o) : c.v <= mem[o].v
  BY ToldStored DEF IInv, ClientTypeOK, ClientStored
<1>4. \A d \in Clients : At(objs[d][o]).v <= mem[o].v /\ At(view[d][o]).v <= mem[o].v
  BY DEF IInv, ClientStored, Stored, At
<1>5. At(db[o]).v <= mem[o].v
  <2>1. mem[o].v \in Nat /\ (db[o] # NoDoc => db[o].v <= mem[o].v)
    BY DEF IInv, MutInv, MongoTypeOK, Struct
  <2> QED
    BY <2>1, NoDocFields DEF At
<1>6. \A d \in Clients : \A c \in ClientClaims(d, o) : c.v <= mem[o].v
  BY <1>3, <1>4 DEF ClientClaims
<1> QED
  BY <1>1, <1>2, <1>5, <1>6 DEF Claims

-----------------------------------------------------------------------------
(* The mutator's steps.                                                    *)

(* Nothing new is said of o.                                               *)
NothingNew(o) == Claims(o)' \subseteq Claims(o) \cup {Nothing}

(* Neither database nor outbox says anything new, and nothing else changes.*)
LEMMA MutatorQuiet ==
  ASSUME NEW o \in Objects, UNCHANGED <<busVars, browserVars, clientVars>>,
         At(db'[o]) \in {At(db[o]), Nothing},
         \A p \in Objects : Told(outbox'[p], o) \subseteq Told(outbox[p], o)
  PROVE  NothingNew(o)
<1> DEFINE S == Claims(o) \cup {Nothing}
<1>1. wire' = wire /\ toWebSocket' = toWebSocket /\ objs' = objs /\ view' = view
  BY DEF busVars, browserVars, clientVars
<1>2. /\ Told(wire', o) \subseteq S
      /\ At(db'[o]) \in S
      /\ \A p \in Objects : Told(outbox'[p], o) \subseteq S
      /\ \A c \in Clients : /\ Told(toWebSocket'[c], o) \subseteq S
                            /\ At(objs'[c][o]) \in S
                            /\ At(view'[c][o]) \in S
  BY <1>1, ClaimParts
<1> HIDE DEF S
<1>3. Claims(o)' \subseteq S
  BY <1>2, NextClaims
<1> QED
  BY <1>3 DEF NothingNew, S

(* A write of s says one new thing of its object, in a version that memory *)
(* had not reached.                                                        *)
LEMMA WriteAgrees ==
  ASSUME IInv, Agree, UNCHANGED <<busVars, browserVars, clientVars>>,
         NEW p \in Objects, NEW s \in Struct, s.v = mem[p].v + 1,
         NEW msgs \in Seq(Msg),
         \A i \in 1..Len(msgs) : msgs[i].id = p /\ Says(msgs[i]) = At(s),
         Write(p, Marshal(s), msgs)
  PROVE  Agree'
<1>1. /\ wire' = wire /\ toWebSocket' = toWebSocket /\ objs' = objs /\ view' = view
      /\ db' = [db EXCEPT ![p] = Marshal(s)] /\ outbox' = [outbox EXCEPT ![p] = msgs]
  BY DEF busVars, browserVars, clientVars, Write
<1>2. /\ db'[p] = Marshal(s) /\ \A o \in Objects : o # p => db'[o] = db[o]
      /\ outbox'[p] = msgs /\ \A o \in Objects : o # p => outbox'[o] = outbox[o]
  BY <1>1 DEF IInv, MutInv, MongoTypeOK
<1>3. At(Marshal(s)) = At(s)
  BY DEF At, Marshal
<1>4. \A o \in Objects : Told(msgs, o) \subseteq IF o = p THEN {At(s)} ELSE {}
  BY ToldCall
<1>5. Claims(p)' \subseteq Claims(p) \cup {At(s)}
  <2> DEFINE S == Claims(p) \cup {At(s)}
  <2>1. /\ Told(wire', p) \subseteq S
        /\ At(db'[p]) \in S
        /\ \A c \in Clients : /\ Told(toWebSocket'[c], p) \subseteq S
                              /\ At(objs'[c][p]) \in S
                              /\ At(view'[c][p]) \in S
    BY <1>1, <1>2, <1>3, ClaimParts
  <2>2. \A q \in Objects : Told(outbox'[q], p) \subseteq S
    BY <1>2, <1>4, ClaimParts
  <2> HIDE DEF S
  <2>3. Claims(p)' \subseteq S
    BY <2>1, <2>2, NextClaims
  <2> QED
    BY <2>3 DEF S
<1>6. \A o \in Objects : o # p => NothingNew(o)
  <2> SUFFICES ASSUME NEW o \in Objects, o # p PROVE NothingNew(o)
    OBVIOUS
  <2>1. \A q \in Objects : Told(outbox'[q], o) \subseteq Told(outbox[q], o)
    BY <1>2, <1>4
  <2> QED
    BY <1>2, <2>1, MutatorQuiet
<1>7. mem[p].v \in Nat /\ \A c \in Claims(p) \cup {Nothing} : c.v <= mem[p].v
  BY ClaimsStored DEF IInv, MutInv, MongoTypeOK, Struct, Nothing
<1>8. At(s).v = mem[p].v + 1
  BY DEF At
<1>9. \A c, d \in Claims(p) \cup {Nothing} \cup {At(s)} : c.v = d.v => c = d
  <2>1. \A c \in Claims(p) \cup {Nothing} : c.v # At(s).v
    <3>1. \A n \in Nat : ~ (n + 1 <= n)
      OBVIOUS
    <3> QED
      BY <1>7, <1>8, <3>1
  <2> QED
    BY <2>1 DEF Agree
<1>10. \A c, d \in Claims(p)' \cup {Nothing} : c.v = d.v => c = d
  BY <1>5, <1>9
<1>11. \A o \in Objects : o # p => \A c, d \in Claims(o)' \cup {Nothing} : c.v = d.v => c = d
  BY <1>6 DEF Agree, NothingNew
<1> QED
  BY <1>10, <1>11 DEF Agree

(* A call that fails says nothing new.                                     *)
LEMMA OtherwiseQuiet ==
  ASSUME UNCHANGED <<db, outbox, busVars, browserVars, clientVars>>
  PROVE  \A o \in Objects : NothingNew(o)
BY MutatorQuiet

(* To say nothing new is to go on agreeing.                                *)
LEMMA QuietAgrees ==
  ASSUME Agree, \A o \in Objects : NothingNew(o)
  PROVE  Agree'
<1>1. \A o \in Objects : \A c, d \in Claims(o)' \cup {Nothing} : c.v = d.v => c = d
  BY DEF Agree, NothingNew
<1> QED
  BY <1>1 DEF Agree

LEMMA CreateAgrees ==
  ASSUME IInv, Agree, NEW o \in Objects, Create(o),
         UNCHANGED <<busVars, browserVars, clientVars>>
  PROVE  Agree'
<1> DEFINE r == Resolve(mem[o])
           s == TagSetSub(r, GetSubKey(r))
           msgs == <<AddMsg(o, s.sub, NoKey, s.v)>>
<1>1. mem[o] \in Struct
  BY DEF IInv, MutInv, MongoTypeOK
<1>2. r \in Struct /\ GetSubKey(r) \in Keys /\ r.key = GetSubKey(r) /\ r.v = mem[o].v + 1
  BY <1>1, StructTypes, ResolveFields
<1>3. s \in Struct /\ s.v = mem[o].v + 1 /\ s.sub = s.key /\ s.sub \in Keys
  BY <1>2, SetterTypes, SetterFields
<1>4. s.v \in Nat
  BY <1>3 DEF Struct
<1>5. msgs \in Seq(Msg) /\ Len(msgs) = 1 /\ msgs[1] = AddMsg(o, s.sub, NoKey, s.v)
  BY <1>3, <1>4, MsgTypes DEF MaybeKey
<1>6. msgs[1].id = o /\ Says(msgs[1]) = At(s)
  BY <1>3, <1>5 DEF AddMsg, Says, At
<1>7. \A i \in 1..Len(msgs) : msgs[i].id = o /\ Says(msgs[i]) = At(s)
  BY <1>5, <1>6
<1>8. Write(o, Marshal(s), msgs) \/ Panic
  BY DEF Create
<1>9. CASE Panic
  BY <1>9, OtherwiseQuiet, QuietAgrees DEF Panic
<1> HIDE DEF r, s, msgs
<1> QED
  BY <1>3, <1>5, <1>7, <1>8, <1>9, WriteAgrees

(* The two messages of a move say the same: where the object now is.       *)
LEMMA ModifyAgrees ==
  ASSUME IInv, Agree, NEW o \in Objects, Modify(o),
         UNCHANGED <<busVars, browserVars, clientVars>>
  PROVE  Agree'
<1> DEFINE psk == GetPrevSubKey(mem[o])
           nsk == GetSubKey(mem[o])
           r   == Resolve(mem[o])
           s   == IF psk = nsk THEN r ELSE TagSetSub(r, nsk)
           mod == ModMsg(o, psk, nsk, s.v)
           add == AddMsg(o, nsk, psk, s.v)
           msgs == IF psk = nsk THEN <<mod>> ELSE <<mod, add>>
<1>1. mem[o] \in Struct
  BY DEF IInv, MutInv, MongoTypeOK
<1>2. psk \in Keys /\ nsk \in Keys
  BY <1>1, StructTypes
<1>3. r \in Struct /\ r.key = nsk /\ r.v = mem[o].v + 1
  BY <1>1, StructTypes, ResolveFields
<1>4. s \in Struct /\ s.v = mem[o].v + 1 /\ s.key = nsk
  BY <1>2, <1>3, SetterTypes, SetterFields
<1>5. s.v \in Nat
  BY <1>4 DEF Struct
<1>6. mod \in Msg /\ add \in Msg
  BY <1>2, <1>5, MsgTypes DEF MaybeKey
<1>7. mod.id = o /\ Says(mod) = At(s) /\ add.id = o /\ Says(add) = At(s)
  BY <1>2, <1>4, NoKeyAssumption DEF ModMsg, AddMsg, Says, At
<1>8. /\ msgs \in Seq(Msg)
      /\ \A i \in 1..Len(msgs) : msgs[i].id = o /\ Says(msgs[i]) = At(s)
  <2> HIDE DEF mod, add
  <2> QED
    BY <1>6, <1>7
<1>9. Write(o, Marshal(s), msgs) \/ Panic
  BY DEF Modify
<1>10. CASE Panic
  BY <1>10, OtherwiseQuiet, QuietAgrees DEF Panic
<1> HIDE DEF s, msgs
<1> QED
  BY <1>4, <1>8, <1>9, <1>10, WriteAgrees

(* A removal tells of no version.                                          *)
LEMMA DeleteQuiet ==
  ASSUME IInv, NEW p \in Objects, Delete(p),
         UNCHANGED <<busVars, browserVars, clientVars>>
  PROVE  \A o \in Objects : NothingNew(o)
<1> DEFINE msgs == <<RemMsg(p, GetPrevSubKey(mem[p]))>>
<1>1. Len(msgs) = 1 /\ msgs[1].type = "rem"
  BY DEF RemMsg
<1>2. \A o \in Objects : Told(msgs, o) = {}
  BY <1>1 DEF Told
<1>3. At(NoDoc) = Nothing
  BY DEF At, NoDoc, Nothing
<1>4. CASE Write(p, NoDoc, msgs)
  <2> HIDE DEF msgs
  <2>1. /\ db' = [db EXCEPT ![p] = NoDoc]
        /\ outbox' = [outbox EXCEPT ![p] = msgs]
    BY <1>4 DEF Write
  <2>2. /\ db'[p] = NoDoc /\ outbox'[p] = msgs
        /\ \A o \in Objects \ {p} : db'[o] = db[o] /\ outbox'[o] = outbox[o]
    BY <2>1 DEF IInv, MutInv, MongoTypeOK
  <2>3. \A o \in Objects : /\ At(db'[o]) \in {At(db[o]), Nothing}
                           /\ \A q \in Objects : Told(outbox'[q], o) \subseteq Told(outbox[q], o)
    BY <1>2, <1>3, <2>2
  <2> QED
    BY <2>3, MutatorQuiet
<1>5. CASE Panic
  BY <1>5, OtherwiseQuiet DEF Panic
<1> QED
  BY <1>4, <1>5 DEF Delete

(* What is published was told in the outbox.                               *)
LEMMA PublishQuiet ==
  ASSUME IInv, NEW p \in Objects, Publish(p), UNCHANGED <<browserVars, clientVars>>
  PROVE  \A o \in Objects : NothingNew(o)
<1> DEFINE m == Head(outbox[p])
<1>1. outbox[p] \in Seq(Msg) /\ outbox[p] # <<>> /\ wire \in Seq(Msg)
  BY DEF IInv, MutInv, MongoTypeOK, BusTypeOK, Publish
<1>2. m \in Msg
  BY <1>1, HeadAndTail
<1>3. /\ outbox'[p] = Tail(outbox[p])
      /\ \A q \in Objects \ {p} : outbox'[q] = outbox[q]
      /\ db' = db /\ wire' \in {wire, Append(wire, m)}
      /\ toWebSocket' = toWebSocket /\ objs' = objs /\ view' = view
  BY DEF IInv, MutInv, MongoTypeOK, Publish, Published, browserVars, clientVars
<1> SUFFICES ASSUME NEW o \in Objects PROVE NothingNew(o)
  OBVIOUS
<1> DEFINE S == Claims(o) \cup {Nothing}
<1>4. \A q \in Objects : Told(outbox'[q], o) \subseteq S
  BY <1>1, <1>3, ToldTail, ClaimParts
<1>5. m.id = o /\ m.type # "rem" => Says(m) \in S
  BY <1>1, ToldTail, ClaimParts
<1>6. Told(wire, o) \subseteq S
  BY ClaimParts
<1>7. Told(wire', o) \subseteq S
  <2> HIDE DEF m, S
  <2> QED
    BY <1>1, <1>2, <1>3, <1>5, <1>6, ToldAppend
<1>8. /\ At(db'[o]) \in S
      /\ \A c \in Clients : /\ Told(toWebSocket'[c], o) \subseteq S
                            /\ At(objs'[c][o]) \in S
                            /\ At(view'[c][o]) \in S
  BY <1>3, ClaimParts
<1> HIDE DEF S
<1>9. Claims(o)' \subseteq S
  BY <1>4, <1>7, <1>8, NextClaims
<1> QED
  BY <1>9 DEF NothingNew, S

LEMMA MutateAgrees ==
  ASSUME IInv, Agree, Mutate
  PROVE  Agree'
<1>1. MutatorStep /\ UNCHANGED <<browserVars, clientVars>>
  BY DEF Mutate
<1>2. ASSUME NEW o \in Objects, NEW k \in Keys, Set(o, k), UNCHANGED busVars
      PROVE  Agree'
  BY <1>1, <1>2, OtherwiseQuiet, QuietAgrees DEF Set
<1>3. ASSUME NEW o \in Objects, Create(o), UNCHANGED busVars
      PROVE  Agree'
  BY <1>1, <1>3, CreateAgrees
<1>4. ASSUME NEW o \in Objects, Modify(o), UNCHANGED busVars
      PROVE  Agree'
  BY <1>1, <1>4, ModifyAgrees
<1>5. ASSUME NEW o \in Objects, Delete(o), UNCHANGED busVars
      PROVE  Agree'
  BY <1>1, <1>5, DeleteQuiet, QuietAgrees
<1>6. ASSUME NEW o \in Objects, PublishFails(o), UNCHANGED busVars
      PROVE  Agree'
  <2>1. /\ outbox'[o] = <<>> /\ db' = db
        /\ \A p \in Objects \ {o} : outbox'[p] = outbox[p]
    BY <1>6 DEF PublishFails, IInv, MutInv, MongoTypeOK
  <2>2. \A p \in Objects : \A q \in Objects : Told(outbox'[q], p) \subseteq Told(outbox[q], p)
    BY <2>1, ToldEmpty
  <2> QED
    BY <1>1, <1>6, <2>1, <2>2, MutatorQuiet, QuietAgrees
<1>7. ASSUME Restart, UNCHANGED busVars
      PROVE  Agree'
  <2>1. db' = db /\ \A p \in Objects : outbox'[p] = <<>>
    BY <1>7 DEF Restart
  <2>2. \A p \in Objects : \A q \in Objects : Told(outbox'[q], p) \subseteq Told(outbox[q], p)
    BY <2>1, ToldEmpty
  <2> QED
    BY <1>1, <1>7, <2>1, <2>2, MutatorQuiet, QuietAgrees
<1>8. ASSUME NEW o \in Objects, Publish(o)
      PROVE  Agree'
  BY <1>1, <1>8, PublishQuiet, QuietAgrees
<1> QED
  BY <1>1, <1>2, <1>3, <1>4, <1>5, <1>6, <1>7, <1>8 DEF MutatorStep

-----------------------------------------------------------------------------
(* The steps of the node and of the browsers: claims are handed on, or     *)
(* forgotten.                                                              *)

(* Only the wire changes, and loses a message if any.                      *)
LEMMA WireQuiet ==
  ASSUME IInv, UNCHANGED <<db, outbox, toWebSocket, objs, view>>,
         wire' = wire \/ (wire # <<>> /\ wire' = Tail(wire))
  PROVE  \A o \in Objects : NothingNew(o)
<1> SUFFICES ASSUME NEW o \in Objects PROVE NothingNew(o)
  OBVIOUS
<1> DEFINE S == Claims(o) \cup {Nothing}
<1>1. wire \in Seq(Msg)
  BY DEF IInv, BusTypeOK
<1>2. Told(wire', o) \subseteq S
  BY <1>1, ToldTail, ClaimParts
<1>3. /\ \A p \in Objects : Told(outbox'[p], o) \subseteq S
      /\ At(db'[o]) \in S
      /\ \A c \in Clients : /\ Told(toWebSocket'[c], o) \subseteq S
                            /\ At(objs'[c][o]) \in S
                            /\ At(view'[c][o]) \in S
  BY ClaimParts
<1> HIDE DEF S
<1>4. Claims(o)' \subseteq S
  BY <1>2, <1>3, NextClaims
<1> QED
  BY <1>4 DEF NothingNew, S

(* Only the queue and the rows of client c change, to what was said before.*)
LEMMA ClientQuiet ==
  ASSUME IInv, UNCHANGED <<db, outbox>>, NEW c \in Clients,
         wire' = wire \/ (wire # <<>> /\ wire' = Tail(wire)),
         \A d \in Clients \ {c} : /\ toWebSocket'[d] = toWebSocket[d]
                                  /\ objs'[d] = objs[d]
                                  /\ view'[d] = view[d],
         NEW o \in Objects,
         Told(toWebSocket'[c], o) \subseteq Claims(o) \cup {Nothing},
         At(objs'[c][o]) \in Claims(o) \cup {Nothing},
         At(view'[c][o]) \in Claims(o) \cup {Nothing}
  PROVE  NothingNew(o)
<1> DEFINE S == Claims(o) \cup {Nothing}
<1>1. wire \in Seq(Msg)
  BY DEF IInv, BusTypeOK
<1>2. Told(wire', o) \subseteq S
  BY <1>1, ToldTail, ClaimParts
<1>3. /\ \A p \in Objects : Told(outbox'[p], o) \subseteq S
      /\ At(db'[o]) \in S
      /\ \A d \in Clients : /\ Told(toWebSocket'[d], o) \subseteq S
                            /\ At(objs'[d][o]) \in S
                            /\ At(view'[d][o]) \in S
  BY ClaimParts
<1> HIDE DEF S
<1>4. Claims(o)' \subseteq S
  BY <1>2, <1>3, NextClaims
<1> QED
  BY <1>4 DEF NothingNew, S

(* A copy becomes what the message says, or stays, or goes.                *)
LEMMA AppliedSays ==
  ASSUME NEW w \in View \cup {NoView}, NEW m \in Msg, NEW ks \in SUBSET Keys
  PROVE  \/ At(Applied(w, m, ks)) \in {Nothing, At(w)}
         \/ m.type # "rem" /\ At(Applied(w, m, ks)) = Says(m)
<1>1. At(NoView) = Nothing
  BY DEF At, NoView, Nothing
<1>2. m.type \in {"add", "mod", "rem"}
  BY DEF Msg
<1>3. CASE m.type = "add"
  BY <1>1, <1>3 DEF Applied, OnAdd, Placed, Says, At
<1>4. CASE m.type = "mod"
  BY <1>1, <1>4 DEF Applied, OnMod, Placed, Says, At
<1>5. CASE m.type = "rem"
  BY <1>1, <1>5 DEF Applied, OnRem
<1> QED
  BY <1>2, <1>3, <1>4, <1>5

LEMMA BrowserQuiet ==
  ASSUME IInv, NEW c \in Clients, BrowserStep(c)
  PROVE  \A o \in Objects : NothingNew(o)
<1>1. PICK r \in Request : UpdateSubscription(c, r)
  BY DEF BrowserStep
<1>2. /\ UNCHANGED <<db, outbox, wire, toWebSocket, objs>>
      /\ view' = [view EXCEPT ![c] =
           [o \in Objects |-> IF view[c][o].key \in r.remove THEN NoView ELSE view[c][o]]]
  BY <1>1 DEF BrowserStep, UpdateSubscription, Ask, mutVars, busVars
<1>3. /\ \A o \in Objects : view'[c][o] \in {view[c][o], NoView}
      /\ \A d \in Clients \ {c} : view'[d] = view[d]
  BY <1>2 DEF IInv, BrowserTypeOK
<1>4. At(NoView) = Nothing
  BY DEF At, NoView, Nothing
<1> QED
  BY <1>2, <1>3, <1>4, ClientQuiet, ClaimParts

(* A message the client lets through is told by its queue instead.         *)
LEMMA ReceiveQuiet ==
  ASSUME IInv, NEW c \in Clients, ReceiveStep(c)
  PROVE  \A o \in Objects : NothingNew(o)
<1>1. UNCHANGED <<db, outbox, view>>
  BY DEF ReceiveStep, mutVars, browserVars
<1>2. CASE Receive(c)
  <2>1. wire # <<>> /\ (wire' = wire \/ wire' = Tail(wire))
    BY <1>2 DEF Receive, Handed, IInv, BusInv
  <2> QED
    BY <1>1, <1>2, <2>1, WireQuiet DEF Receive, clientVars
<1>3. CASE Enqueue(c)
  <2> DEFINE m == Head(wire)
  <2>1. wire \in Seq(Msg) /\ wire # <<>> /\ (wire' = wire \/ wire' = Tail(wire))
    BY <1>3 DEF Enqueue, Handed, IInv, BusInv, BusTypeOK
  <2>2. m \in Msg /\ toWebSocket[c] \in Seq(Msg)
    BY <2>1, HeadAndTail DEF IInv, ClientTypeOK
  <2>3. /\ toWebSocket'[c] = Append(toWebSocket[c], m)
        /\ \A d \in Clients \ {c} : toWebSocket'[d] = toWebSocket[d]
        /\ objs' = objs
    BY <1>3 DEF Enqueue, IInv, ClientTypeOK
  <2> SUFFICES ASSUME NEW o \in Objects PROVE NothingNew(o)
    OBVIOUS
  <2> DEFINE S == Claims(o) \cup {Nothing}
  <2>4. m.id = o /\ m.type # "rem" => Says(m) \in S
    BY <2>1, ToldTail, ClaimParts
  <2>5. Told(toWebSocket[c], o) \subseteq S
    BY ClaimParts
  <2>6. Told(toWebSocket'[c], o) \subseteq S
    <3> HIDE DEF m, S
    <3> QED
      BY <2>2, <2>3, <2>4, <2>5, ToldAppend
  <2>7. At(objs'[c][o]) \in S /\ At(view'[c][o]) \in S
    BY <1>1, <2>3, ClaimParts
  <2> QED
    BY <1>1, <2>1, <2>3, <2>6, <2>7, ClientQuiet
<1> QED
  BY <1>2, <1>3 DEF ReceiveStep

(* A message the main loop forwards is told by the browser's copy instead. *)
LEMMA ForwardQuiet ==
  ASSUME IInv, NEW c \in Clients, ForwardStep(c)
  PROVE  \A o \in Objects : NothingNew(o)
<1> DEFINE q == toWebSocket[c]
           m == Head(q)
           w == Applied(view[c][m.id], m, wanted[c])
<1>1. UNCHANGED <<db, outbox, wire, objs>>
  BY DEF ForwardStep, Forward, mutVars, busVars
<1>2. q \in Seq(Msg) /\ q # <<>>
  BY DEF ForwardStep, Forward, IInv, ClientTypeOK
<1>3. m \in Msg /\ m.id \in Objects
  BY <1>2, HeadAndTail DEF Msg
<1>4. view[c] \in [Objects -> View \cup {NoView}] /\ wanted[c] \in SUBSET Keys
  BY DEF IInv, BrowserTypeOK
<1>5. /\ toWebSocket' = [toWebSocket EXCEPT ![c] = Tail(q)]
      /\ view' = [view EXCEPT ![c][m.id] = w]
  BY DEF ForwardStep, Forward, Receives
<1>6. /\ toWebSocket'[c] = Tail(q) /\ view'[c][m.id] = w
      /\ \A o \in Objects \ {m.id} : view'[c][o] = view[c][o]
      /\ \A d \in Clients \ {c} : toWebSocket'[d] = toWebSocket[d] /\ view'[d] = view[d]
  BY <1>3, <1>5 DEF IInv, BrowserTypeOK, ClientTypeOK
<1>7. \/ At(w) \in {Nothing, At(view[c][m.id])}
      \/ m.type # "rem" /\ At(w) = Says(m)
  BY <1>3, <1>4, AppliedSays
<1>8. \A o \in Objects : Told(Tail(q), o) \subseteq Claims(o)
  BY <1>2, ToldTail, ClaimParts
<1>9. m.type # "rem" => Says(m) \in Claims(m.id)
  BY <1>2, <1>3, ToldTail, ClaimParts
<1>10. \A o \in Objects : At(objs[c][o]) \in Claims(o) /\ At(view[c][o]) \in Claims(o)
  BY ClaimParts
<1> HIDE DEF q, m, w
<1>11. \A o \in Objects : At(view'[c][o]) \in Claims(o) \cup {Nothing}
  BY <1>3, <1>6, <1>7, <1>9, <1>10
<1> QED
  BY <1>1, <1>6, <1>8, <1>10, <1>11, ClientQuiet

(* What is loaded is what the database says, and so is what is written.    *)
LEMMA HandleQuiet ==
  ASSUME IInv, NEW c \in Clients, HandleStep(c)
  PROVE  \A o \in Objects : NothingNew(o)
<1>1. UNCHANGED <<db, outbox, wire, toWebSocket>>
  BY DEF HandleStep, mutVars, busVars, HandleMessage, RemoveKeys, AddKeys, UpdateAgents,
         LoadObjects, WriteObjects
<1>2. At(NoDoc) = Nothing
  BY DEF At, NoDoc, Nothing
<1>3. CASE UNCHANGED <<objs, view>>
  BY <1>1, <1>3, WireQuiet
<1>4. CASE LoadObjects(c) /\ UNCHANGED browserVars
  <2>1. /\ \A o \in Objects : objs'[c][o] \in {db[o], NoDoc}
        /\ \A d \in Clients \ {c} : objs'[d] = objs[d]
        /\ view' = view
    BY <1>4 DEF LoadObjects, Load, IInv, ClientTypeOK, browserVars
  <2> QED
    BY <1>1, <1>2, <2>1, ClientQuiet, ClaimParts
<1>5. CASE WriteObjects(c)
  <2> DEFINE add(o) == AddMsg(o, objs[c][o].key, NoKey, objs[c][o].v)
             row == [o \in Objects |-> IF objs[c][o] = NoDoc THEN view[c][o]
                                       ELSE Applied(view[c][o], add(o), wanted[c])]
  <2>1. /\ view' = [view EXCEPT ![c] = row]
        /\ objs' = [objs EXCEPT ![c] = NoObjs]
    BY <1>5 DEF WriteObjects, ReceivesAll
  <2>2. /\ view'[c] = row /\ objs'[c] = NoObjs
        /\ \A d \in Clients \ {c} : view'[d] = view[d] /\ objs'[d] = objs[d]
    BY <2>1 DEF IInv, BrowserTypeOK, ClientTypeOK
  <2>3. view[c] \in [Objects -> View \cup {NoView}] /\ wanted[c] \in SUBSET Keys
    BY DEF IInv, BrowserTypeOK
  <2>4. \A o \in Objects : objs[c][o] \in Doc \cup {NoDoc}
    BY DEF IInv, ClientTypeOK
  <2>5. ASSUME NEW o \in Objects
        PROVE  At(row[o]) \in Claims(o) \cup {Nothing}
    <3>1. CASE objs[c][o] = NoDoc
      BY <3>1, ClaimParts
    <3>2. CASE objs[c][o] # NoDoc
      <4>1. objs[c][o].key \in Keys /\ objs[c][o].v \in Nat
        BY <2>4, <3>2 DEF Doc
      <4>2. add(o) \in Msg
        BY <4>1, MsgTypes DEF MaybeKey
      <4>3. Says(add(o)) = At(objs[c][o])
        BY DEF AddMsg, Says, At
      <4>4. row[o] = Applied(view[c][o], add(o), wanted[c])
        BY <3>2
      <4> HIDE DEF add, row
      <4>5. \/ At(row[o]) \in {Nothing, At(view[c][o])}
            \/ At(row[o]) = At(objs[c][o])
        BY <2>3, <4>2, <4>3, <4>4, AppliedSays
      <4> QED
        BY <4>5, ClaimParts
    <3> QED
      BY <3>1, <3>2
  <2> HIDE DEF row
  <2>6. \A o \in Objects : At(NoObjs[o]) = Nothing
    BY <1>2 DEF NoObjs
  <2> QED
    BY <1>1, <2>2, <2>5, <2>6, ClientQuiet, ClaimParts
<1>6. \/ UNCHANGED <<objs, view>>
      \/ LoadObjects(c) /\ UNCHANGED browserVars
      \/ WriteObjects(c)
  BY DEF HandleStep, browserVars, HandleMessage, RemoveKeys, AddKeys, UpdateAgents
<1> QED
  BY <1>3, <1>4, <1>5, <1>6

-----------------------------------------------------------------------------
(* The invariant, and the property.                                        *)

LEMMA InitAgrees ==
  ASSUME Init
  PROVE  Agree
<1>1. /\ db = [o \in Objects |-> NoDoc]
      /\ outbox = [o \in Objects |-> <<>>]
      /\ wire = <<>>
      /\ view = [c \in Clients |-> [o \in Objects |-> NoView]]
      /\ toWebSocket = [c \in Clients |-> <<>>]
      /\ objs = [c \in Clients |-> NoObjs]
  BY DEF Init, MongoInit, BusInit, BrowserInit, ClientInit
<1>2. At(NoDoc) = Nothing /\ At(NoView) = Nothing
  BY DEF At, NoDoc, NoView, Nothing
<1>3. \A o \in Objects : /\ At(db[o]) = Nothing
                         /\ Told(wire, o) = {}
                         /\ \A p \in Objects : Told(outbox[p], o) = {}
                         /\ \A c \in Clients : /\ Told(toWebSocket[c], o) = {}
                                               /\ At(objs[c][o]) = Nothing
                                               /\ At(view[c][o]) = Nothing
  BY <1>1, <1>2, ToldEmpty DEF NoObjs
<1>4. ASSUME NEW o \in Objects
      PROVE  Claims(o) \subseteq {Nothing}
  <2>1. \A c \in Clients : ClientClaims(c, o) \subseteq {Nothing}
    BY <1>3 DEF ClientClaims
  <2>2. UNION {ClientClaims(c, o) : c \in Clients} \subseteq {Nothing}
    BY <2>1
  <2>3. UNION {Told(outbox[p], o) : p \in Objects} \subseteq {Nothing}
    BY <1>3
  <2> QED
    BY <1>3, <2>2, <2>3 DEF Claims
<1> QED
  BY <1>4 DEF Agree

LEMMA StepAgrees ==
  ASSUME IInv, Agree, [Next]_vars
  PROVE  Agree'
<1>1. CASE Mutate
  BY <1>1, MutateAgrees
<1>2. CASE BusStep
  <2>1. /\ UNCHANGED <<db, outbox, toWebSocket, objs, view>>
        /\ wire # <<>> /\ (wire' = wire \/ wire' = Tail(wire))
    BY <1>2 DEF BusStep, Dispatch, mutVars, browserVars, clientVars
  <2> QED
    BY <2>1, WireQuiet, QuietAgrees
<1>3. ASSUME NEW c \in Clients,
             BrowserStep(c) \/ ReceiveStep(c) \/ ForwardStep(c) \/ HandleStep(c)
      PROVE  Agree'
  BY <1>3, BrowserQuiet, ReceiveQuiet, ForwardQuiet, HandleQuiet, QuietAgrees
<1>4. ASSUME UNCHANGED <<db, outbox, wire, toWebSocket, objs, view>>
      PROVE  Agree'
  BY <1>4, WireQuiet, QuietAgrees
<1>5. ASSUME NEW c \in Clients, FatalStep(c)
      PROVE  Agree'
  BY <1>4, <1>5 DEF FatalStep, MapFatal, mutVars, busVars, browserVars
<1>6. CASE UNCHANGED vars
  BY <1>4, <1>6 DEF vars, mutVars, busVars, browserVars, clientVars
<1> QED
  BY <1>1, <1>2, <1>3, <1>5, <1>6 DEF Next

(* A version of an object is of one state only, whatever writes, publishes *)
(* and processes fail: the number a call counted for a write that failed,  *)
(* or that a restart forgot, was never told to anyone.                     *)
THEOREM VersionsAreUnique == Spec => []OneStatePerVersion
<1>1. Init => Agree
  BY InitAgrees
<1>2. IInv /\ Agree /\ [Next]_vars => Agree'
  BY StepAgrees
<1>3. Agree => OneStatePerVersion
  BY DEF Agree, OneStatePerVersion
<1>4. Init => IInv
  BY InitInv
<1>5. IInv /\ [Next]_vars => IInv'
  BY NextInv
<1> QED
  BY <1>1, <1>2, <1>3, <1>4, <1>5, PTL DEF Spec
=============================================================================
