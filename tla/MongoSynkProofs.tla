-------------------------- MODULE MongoSynkProofs ---------------------------
(***************************************************************************)
(* What the mutator's calls preserve, for every set of objects and keys    *)
(* and every value of the bounds.  SynkNodeProofs builds on it.            *)
(***************************************************************************)
EXTENDS MongoSynk, TLAPS

-----------------------------------------------------------------------------
(* Structs, documents and messages.                                        *)

(* A struct stays a struct, and a document is made from one.               *)
LEMMA StructTypes ==
  ASSUME NEW s \in Struct
  PROVE  /\ GetSubKey(s) \in Keys
         /\ GetPrevSubKey(s) \in Keys
         /\ Resolve(s) \in Struct
         /\ Marshal(s) \in Doc
<1>1. GetSubKey(s) \in Keys
  BY DEF Struct, MaybeKey, GetSubKey
<1>2. GetPrevSubKey(s) \in Keys
  BY DEF Struct, GetPrevSubKey
<1>3. Resolve(s) \in Struct
  BY <1>1 DEF Struct, MaybeKey, Resolve
<1>4. Marshal(s) \in Doc
  BY DEF Struct, Doc, Marshal
<1> QED
  BY <1>1, <1>2, <1>3, <1>4

(* The setters make structs of structs.                                    *)
LEMMA SetterTypes ==
  ASSUME NEW s \in Struct, NEW k \in Keys
  PROVE  SetSubKey(s, k) \in Struct /\ TagSetSub(s, k) \in Struct
<1>1. SetSubKey(s, k) \in Struct
  BY DEF Struct, MaybeKey, SetSubKey
<1>2. TagSetSub(s, k) \in Struct
  BY DEF Struct, MaybeKey, TagSetSub
<1> QED
  BY <1>1, <1>2

(* What a struct holds after Resolve.                                      *)
LEMMA ResolveFields ==
  ASSUME NEW s \in Struct
  PROVE  /\ Resolve(s).key = GetSubKey(s)
         /\ Resolve(s).diff = NoKey
         /\ Resolve(s).sub = s.sub
         /\ Resolve(s).v = s.v + 1
         /\ GetSubKey(Resolve(s)) = GetSubKey(s)
  BY DEF Resolve, GetSubKey

(* What the setters change and what they leave alone.                      *)
LEMMA SetterFields ==
  ASSUME NEW s \in Struct, NEW k \in Keys
  PROVE  /\ TagSetSub(s, k).key = s.key
         /\ TagSetSub(s, k).sub = k
         /\ TagSetSub(s, k).v = s.v
         /\ SetSubKey(s, k).key = s.key
         /\ SetSubKey(s, k).sub = s.sub
         /\ SetSubKey(s, k).v = s.v
<1>1. DOMAIN s = {"key", "diff", "sub", "v"}
  BY DEF Struct
<1> QED
  BY <1>1 DEF TagSetSub, SetSubKey

(* What is loaded is a struct again.                                       *)
LEMMA UnmarshalType ==
  ASSUME NEW d \in Doc
  PROVE  Unmarshal(d) \in Struct
  BY DEF Struct, Doc, MaybeKey, Unmarshal

(* The messages of Create and Modify are messages.                         *)
LEMMA MsgTypes ==
  ASSUME NEW o \in Objects, NEW k \in Keys, NEW l \in Keys, NEW v \in Nat,
         NEW from \in MaybeKey
  PROVE  /\ AddMsg(o, k, from, v) \in Msg
         /\ ModMsg(o, k, l, v) \in Msg
  BY DEF Msg, MaybeKey, AddMsg, ModMsg

(* So is that of Delete.                                                   *)
LEMMA RemMsgType ==
  ASSUME NEW o \in Objects, NEW k \in Keys
  PROVE  RemMsg(o, k) \in Msg
  BY DEF Msg, MaybeKey, RemMsg

(* The messages of a queue, one by one.                                    *)
LEMMA SeqOfMsgs ==
  ASSUME NEW s \in Seq(Msg)
  PROVE  \A i \in 1..Len(s) : s[i] \in Msg /\ s[i].id \in Objects /\ s[i].v \in Nat
<1>1. \A i \in 1..Len(s) : s[i] \in Msg
  OBVIOUS
<1> QED
  BY <1>1 DEF Msg

(* An absent document differs from every document.                         *)
LEMMA NoDocFields ==
  /\ NoDoc \notin Doc
  /\ NoDoc.v = 0
  /\ NoDoc.sub = NoDoc.key
  BY NoKeyAssumption DEF NoDoc, Doc

-----------------------------------------------------------------------------
(* The invariant of the mutator.  A document is never ahead of memory, a   *)
(* deleted object has none, and TagSub is right in every struct that was   *)
(* stored at some time: without the first two, a document written or read  *)
(* back could take a version away; without the third, a Modify that moves  *)
(* nothing could store a wrong sub.                                        *)
MutInv ==
  /\ MongoTypeOK
  /\ \A o \in Objects : db[o] # NoDoc => db[o].v <= mem[o].v
  /\ \A o \in gone : db[o] = NoDoc
  /\ \A o \in Objects : mem[o].v > 0 => mem[o].sub = mem[o].key
  /\ StoredSubIsCurrent
  /\ \A o \in Objects : AllStored(outbox[o])

(* What was stored stays stored.                                           *)
StoredStays ==
  \A o \in Objects, v \in Nat : Stored(o, v) => Stored(o, v)'

(* Nothing is stored or under way at the start.                            *)
LEMMA MongoInitInv ==
  ASSUME MongoInit
  PROVE  MutInv
<1>1. \A k \in Keys : NewStruct(k) \in Struct /\ NewStruct(k).v = 0
  BY DEF NewStruct, Struct, MaybeKey
<1>2. MongoTypeOK
  BY <1>1 DEF MongoInit, MongoTypeOK
<1>3. /\ \A o \in Objects : mem[o].v = 0 /\ db[o] = NoDoc /\ outbox[o] = <<>>
      /\ gone = {}
  BY <1>1 DEF MongoInit
<1> QED
  BY <1>2, <1>3, NoDocFields DEF MutInv, StoredSubIsCurrent, AllStored

(* A call stores the struct s, one version on, and has to publish msgs.    *)
LEMMA WriteStep ==
  ASSUME MutInv, NEW o \in Objects,
         NEW s \in Struct, s.v = mem[o].v + 1, s.sub = s.key,
         NEW msgs \in Seq(Msg),
         \A i \in 1..Len(msgs) : msgs[i].id = o /\ msgs[i].v <= s.v,
         mem' = [mem EXCEPT ![o] = s], o \notin gone, gone' = gone,
         Write(o, Marshal(s), msgs)
  PROVE  MutInv' /\ StoredStays
<1>1. /\ Marshal(s) \in Doc
      /\ Marshal(s).v = s.v
      /\ Marshal(s).sub = Marshal(s).key
  BY StructTypes DEF Marshal
<1>2. /\ db' = [db EXCEPT ![o] = Marshal(s)]
      /\ outbox' = [outbox EXCEPT ![o] = msgs]
      /\ faults' = faults
  BY DEF Write
<1>3. MongoTypeOK /\ MongoTypeOK'
  BY <1>1, <1>2 DEF MutInv, MongoTypeOK
<1>4. \A p \in Objects : mem[p].v \in Nat /\ (db[p] # NoDoc => db[p].v \in Nat)
  BY <1>3 DEF MongoTypeOK, Struct, Doc
<1>5. /\ mem'[o] = s /\ db'[o] = Marshal(s) /\ outbox'[o] = msgs
      /\ \A p \in Objects \ {o} :
           mem'[p] = mem[p] /\ db'[p] = db[p] /\ outbox'[p] = outbox[p]
  BY <1>2, <1>3 DEF MongoTypeOK
<1>6. s.v \in Nat
  BY DEF Struct
<1>7. StoredStays
  BY <1>1, <1>4, <1>5, <1>6 DEF StoredStays, Stored, MutInv
<1>8. \A p \in Objects : db'[p] # NoDoc => db'[p].v <= mem'[p].v
  BY <1>1, <1>5, <1>6 DEF MutInv
<1>9. \A p \in Objects : mem'[p].v > 0 => mem'[p].sub = mem'[p].key
  BY <1>5 DEF MutInv
<1>10. StoredSubIsCurrent'
  BY <1>1, <1>5 DEF MutInv, StoredSubIsCurrent
<1>11. \A p \in gone : db'[p] = NoDoc
  BY <1>3, <1>5 DEF MutInv, MongoTypeOK
<1>12. \A p \in Objects : AllStored(outbox[p])'
  <2>1. AllStored(outbox[o])'
    BY <1>1, <1>5, <1>6 DEF AllStored, Stored
  <2>2. ASSUME NEW p \in Objects \ {o} PROVE AllStored(outbox[p])'
    <3>1. outbox[p] \in Seq(Msg) /\ AllStored(outbox[p])
      BY <1>3 DEF MutInv, MongoTypeOK
    <3> QED
      BY <1>5, <1>7, <3>1, SeqOfMsgs DEF AllStored, StoredStays
  <2> QED
    BY <2>1, <2>2
<1> QED
  BY <1>3, <1>7, <1>8, <1>9, <1>10, <1>11, <1>12 DEF MutInv

(* A call fails at its write, with the struct already one version on.      *)
LEMMA PanicStep ==
  ASSUME MutInv, NEW o \in Objects,
         NEW s \in Struct, s.v = mem[o].v + 1, s.sub = s.key,
         mem' = [mem EXCEPT ![o] = s], gone' = gone,
         Panic
  PROVE  MutInv' /\ StoredStays
<1>1. db' = db /\ outbox' = outbox /\ faults' = faults + 1
  BY DEF Panic, Fault
<1>2. MongoTypeOK /\ MongoTypeOK'
  BY <1>1 DEF MutInv, MongoTypeOK
<1>3. \A p \in Objects : mem[p].v \in Nat /\ (db[p] # NoDoc => db[p].v \in Nat)
  BY <1>2 DEF MongoTypeOK, Struct, Doc
<1>4. mem'[o] = s /\ \A p \in Objects \ {o} : mem'[p] = mem[p]
  BY <1>2 DEF MongoTypeOK
<1>5. StoredStays
  BY <1>1, <1>3, <1>4 DEF StoredStays, Stored
<1>6. \A p \in Objects : db'[p] # NoDoc => db'[p].v <= mem'[p].v
  BY <1>1, <1>3, <1>4 DEF MutInv
<1>7. \A p \in Objects : mem'[p].v > 0 => mem'[p].sub = mem'[p].key
  BY <1>4 DEF MutInv
<1>8. StoredSubIsCurrent'
  BY <1>1 DEF MutInv, StoredSubIsCurrent
<1>9. \A p \in Objects : AllStored(outbox[p])'
  BY <1>1, <1>2, <1>5, SeqOfMsgs DEF MutInv, MongoTypeOK, AllStored, StoredStays
<1> QED
  BY <1>1, <1>2, <1>5, <1>6, <1>7, <1>8, <1>9 DEF MutInv

(* Create (MongoSynk.go) keeps the invariant, whether its write fails or   *)
(* not.                                                                    *)
LEMMA CreateStep ==
  ASSUME MutInv, NEW o \in Objects, Create(o)
  PROVE  MutInv' /\ StoredStays
<1> DEFINE r == Resolve(mem[o])
           s == TagSetSub(r, GetSubKey(r))
           msgs == <<AddMsg(o, s.sub, NoKey, s.v)>>
<1>1. mem[o] \in Struct
  BY DEF MutInv, MongoTypeOK
<1>2. r \in Struct /\ GetSubKey(r) \in Keys /\ r.key = GetSubKey(r) /\ r.v = mem[o].v + 1
  BY <1>1, StructTypes, ResolveFields
<1>3. s \in Struct /\ s.v = mem[o].v + 1 /\ s.sub = s.key /\ s.sub \in Keys
  BY <1>2, SetterTypes, SetterFields
<1>4. s.v \in Nat
  BY <1>3 DEF Struct
<1>5. msgs \in Seq(Msg) /\ Len(msgs) = 1 /\ msgs[1] = AddMsg(o, s.sub, NoKey, s.v)
  BY <1>3, <1>4, MsgTypes DEF MaybeKey
<1>6. msgs[1].id = o /\ msgs[1].v = s.v
  BY <1>5 DEF AddMsg
<1>7. \A i \in 1..Len(msgs) : msgs[i].id = o /\ msgs[i].v <= s.v
  BY <1>4, <1>5, <1>6
<1>8. mem' = [mem EXCEPT ![o] = s] /\ o \notin gone /\ gone' = gone
  BY DEF Create, Ready
<1>9. Write(o, Marshal(s), msgs) \/ Panic
  BY DEF Create
<1> HIDE DEF r, s, msgs
<1> QED
  BY <1>3, <1>5, <1>7, <1>8, <1>9, WriteStep, PanicStep

(* So does Modify, of objects that move and of objects that stay;          *)
LEMMA ModifyStep ==
  ASSUME MutInv, NEW o \in Objects, Modify(o)
  PROVE  MutInv' /\ StoredStays
<1> DEFINE psk == GetPrevSubKey(mem[o])
           nsk == GetSubKey(mem[o])
           r   == Resolve(mem[o])
           s   == IF psk = nsk THEN r ELSE TagSetSub(r, nsk)
           mod == ModMsg(o, psk, nsk, s.v)
           add == AddMsg(o, nsk, psk, s.v)
           msgs == IF psk = nsk THEN <<mod>> ELSE <<mod, add>>
<1>1. mem[o] \in Struct /\ mem[o].v > 0
  BY DEF MutInv, MongoTypeOK, Modify
<1>2. psk \in Keys /\ nsk \in Keys /\ psk = mem[o].key /\ mem[o].sub = mem[o].key
  BY <1>1, StructTypes DEF GetPrevSubKey, MutInv
<1>3. r \in Struct /\ r.key = nsk /\ r.sub = psk /\ r.v = mem[o].v + 1
  BY <1>1, <1>2, StructTypes, ResolveFields
<1>4. s \in Struct /\ s.v = mem[o].v + 1 /\ s.sub = s.key
  BY <1>2, <1>3, SetterTypes, SetterFields
<1>5. s.v \in Nat
  BY <1>4 DEF Struct
<1>6. mod \in Msg /\ add \in Msg
  BY <1>2, <1>5, MsgTypes DEF MaybeKey
<1>7. mod.id = o /\ mod.v = s.v /\ add.id = o /\ add.v = s.v
  BY DEF ModMsg, AddMsg
<1>8. /\ msgs \in Seq(Msg)
      /\ \A i \in 1..Len(msgs) : msgs[i].id = o /\ msgs[i].v <= s.v
  <2> HIDE DEF mod, add
  <2> QED
    BY <1>5, <1>6, <1>7
<1>9. mem' = [mem EXCEPT ![o] = s] /\ o \notin gone /\ gone' = gone
  BY DEF Modify, Ready
<1>10. Write(o, Marshal(s), msgs) \/ Panic
  BY DEF Modify
<1> HIDE DEF s, msgs
<1> QED
  BY <1>4, <1>8, <1>9, <1>10, WriteStep, PanicStep

(* the setter, which changes memory only;                                  *)
LEMMA SetStep ==
  ASSUME MutInv, NEW o \in Objects, NEW k \in Keys, Set(o, k)
  PROVE  MutInv' /\ StoredStays
<1> DEFINE s == SetSubKey(mem[o], k)
<1>1. mem[o] \in Struct
  BY DEF MutInv, MongoTypeOK
<1>2. /\ s \in Struct
      /\ s.key = mem[o].key /\ s.sub = mem[o].sub /\ s.v = mem[o].v
  BY <1>1, SetterTypes, SetterFields
<1>3. mem' = [mem EXCEPT ![o] = s] /\ UNCHANGED <<db, outbox, gone, faults>>
  BY DEF Set
<1> HIDE DEF s
<1>4. MongoTypeOK'
  BY <1>2, <1>3 DEF MutInv, MongoTypeOK
<1>5. /\ \A p \in Objects : /\ mem'[p].v = mem[p].v
                             /\ mem'[p].sub = mem[p].sub
                             /\ mem'[p].key = mem[p].key
      /\ db' = db /\ outbox' = outbox
  BY <1>2, <1>3 DEF MutInv, MongoTypeOK
<1>6. StoredStays
  BY <1>3, <1>5 DEF StoredStays, Stored
<1>7. \A p \in Objects : AllStored(outbox[p])'
  BY <1>5, <1>6, SeqOfMsgs DEF MutInv, MongoTypeOK, AllStored, StoredStays
<1> QED
  BY <1>3, <1>4, <1>5, <1>6, <1>7 DEF MutInv, StoredSubIsCurrent

(* Delete, after which everything said of the object counts as stored.     *)
LEMMA DeleteStep ==
  ASSUME MutInv, NEW o \in Objects, Delete(o)
  PROVE  MutInv' /\ StoredStays
<1> DEFINE msgs == <<RemMsg(o, GetPrevSubKey(mem[o]))>>
<1>1. mem[o] \in Struct /\ mem' = mem
  BY DEF MutInv, MongoTypeOK, Delete
<1>2. GetPrevSubKey(mem[o]) \in Keys
  BY <1>1, StructTypes
<1>3. msgs \in Seq(Msg) /\ Len(msgs) = 1 /\ msgs[1].v = 0 /\ msgs[1].id = o
  BY <1>2, RemMsgType DEF RemMsg
<1>4. \A p \in Objects : mem[p].v \in Nat
  BY DEF MutInv, MongoTypeOK, Struct
<1>5. CASE /\ Write(o, NoDoc, msgs)
           /\ gone' = gone \cup {o}
  <2> HIDE DEF msgs
  <2>1. /\ db' = [db EXCEPT ![o] = NoDoc]
        /\ outbox' = [outbox EXCEPT ![o] = msgs]
        /\ faults' = faults
    BY <1>5 DEF Write
  <2>2. MongoTypeOK'
    BY <1>1, <1>3, <1>5, <2>1 DEF MutInv, MongoTypeOK
  <2>3. /\ db'[o] = NoDoc /\ outbox'[o] = msgs
        /\ \A p \in Objects \ {o} : db'[p] = db[p] /\ outbox'[p] = outbox[p]
    BY <2>1 DEF MutInv, MongoTypeOK
  <2>4. StoredStays
    BY <1>1, <1>5, <2>3 DEF StoredStays, Stored
  <2>5. StoredSubIsCurrent'
    BY <2>3, NoDocFields DEF MutInv, StoredSubIsCurrent
  <2>6. AllStored(outbox[o])'
    <3>1. o \in gone' /\ 0 <= mem'[o].v
      BY <1>1, <1>4, <1>5
    <3>2. \A i \in 1..Len(msgs) : msgs[i].v = 0 /\ msgs[i].id = o
      BY <1>3
    <3>3. outbox'[o] = msgs
      BY <2>3
    <3>4. \A i \in 1..Len(outbox'[o]) :
            outbox'[o][i].v <= mem'[outbox'[o][i].id].v /\ outbox'[o][i].id \in gone'
      BY <3>1, <3>2, <3>3
    <3> QED
      BY <3>4 DEF AllStored, Stored
  <2>7. \A p \in Objects \ {o} : AllStored(outbox[p])'
    BY <2>3, <2>4, SeqOfMsgs DEF MutInv, MongoTypeOK, AllStored, StoredStays
  <2>8. \A p \in gone' : db'[p] = NoDoc
    BY <1>5, <2>3 DEF MutInv, MongoTypeOK
  <2> QED
    BY <1>1, <2>2, <2>3, <2>4, <2>5, <2>6, <2>7, <2>8 DEF MutInv
<1>6. CASE Panic /\ UNCHANGED gone
  <2>1. UNCHANGED <<mem, db, outbox, gone>> /\ faults' = faults + 1
    BY <1>1, <1>6 DEF Panic, Fault
  <2>2. StoredStays
    BY <2>1 DEF StoredStays, Stored
  <2>3. MongoTypeOK'
    BY <2>1 DEF MutInv, MongoTypeOK
  <2> QED
    BY <2>1, <2>2, <2>3 DEF MutInv, StoredSubIsCurrent, AllStored, Stored
<1> QED
  BY <1>5, <1>6 DEF Delete

(* Messages leave the outbox; memory and the database stay.                *)
LEMMA OutboxStep ==
  ASSUME MutInv, NEW o \in Objects, NEW rest \in Seq(Msg), AllStored(rest),
         outbox' = [outbox EXCEPT ![o] = rest],
         UNCHANGED <<mem, db, gone>>, faults' \in Nat
  PROVE  MutInv' /\ StoredStays
<1>1. StoredStays
  BY DEF StoredStays, Stored
<1>2. MongoTypeOK'
  BY DEF MutInv, MongoTypeOK
<1>3. \A p \in Objects : AllStored(outbox'[p])
  BY DEF MutInv, MongoTypeOK
<1>4. \A p \in Objects : AllStored(outbox[p])'
  BY <1>3 DEF AllStored, Stored
<1> QED
  BY <1>1, <1>2, <1>4 DEF MutInv, StoredSubIsCurrent

(* Taking the first message off a queue leaves stored messages.            *)
LEMMA HeadAndTail ==
  ASSUME NEW s \in Seq(Msg), s # <<>>
  PROVE  /\ Head(s) \in Msg
         /\ Tail(s) \in Seq(Msg)
         /\ AllStored(s) => Stored(Head(s).id, Head(s).v) /\ AllStored(Tail(s))
<1>1. Head(s) = s[1] /\ Len(s) \in Nat /\ Len(s) >= 1
  OBVIOUS
<1>2. Len(Tail(s)) = Len(s) - 1 /\ \A i \in 1..Len(Tail(s)) : Tail(s)[i] = s[i + 1]
  BY <1>1
<1>3. Head(s) \in Msg /\ Tail(s) \in Seq(Msg)
  OBVIOUS
<1>4. ASSUME AllStored(s) PROVE AllStored(Tail(s))
  BY <1>1, <1>2, <1>4 DEF AllStored
<1> QED
  BY <1>1, <1>3, <1>4 DEF AllStored

(* Adding a stored message to a queue leaves stored messages.              *)
LEMMA AppendStored ==
  ASSUME NEW s \in Seq(Msg), NEW m \in Msg, AllStored(s), Stored(m.id, m.v)
  PROVE  Append(s, m) \in Seq(Msg) /\ AllStored(Append(s, m))
<1>1. /\ Len(Append(s, m)) = Len(s) + 1
      /\ Append(s, m)[Len(s) + 1] = m
      /\ \A i \in 1..Len(s) : Append(s, m)[i] = s[i]
  OBVIOUS
<1>2. \A i \in 1..(Len(s) + 1) : i = Len(s) + 1 \/ i \in 1..Len(s)
  OBVIOUS
<1> QED
  BY <1>1, <1>2 DEF AllStored

(* A failed publish drops what the call had still to say.                  *)
LEMMA PublishFailsStep ==
  ASSUME MutInv, NEW o \in Objects, PublishFails(o)
  PROVE  MutInv' /\ StoredStays
<1>1. <<>> \in Seq(Msg) /\ AllStored(<<>>)
  BY DEF AllStored
<1>2. /\ outbox' = [outbox EXCEPT ![o] = <<>>]
      /\ UNCHANGED <<mem, db, gone>>
      /\ faults' \in Nat
  BY DEF PublishFails, Fault, MutInv, MongoTypeOK
<1> QED
  BY <1>1, <1>2, OutboxStep

(* A publish sends a message about what is stored.                         *)
LEMMA PublishStep ==
  ASSUME MutInv, NEW o \in Objects, Publish(o)
  PROVE  /\ MutInv' /\ StoredStays
         /\ Head(outbox[o]) \in Msg
         /\ Stored(Head(outbox[o]).id, Head(outbox[o]).v)
<1>1. outbox[o] \in Seq(Msg) /\ outbox[o] # <<>> /\ AllStored(outbox[o])
  BY DEF MutInv, MongoTypeOK, Publish
<1>2. /\ Head(outbox[o]) \in Msg
      /\ Stored(Head(outbox[o]).id, Head(outbox[o]).v)
      /\ Tail(outbox[o]) \in Seq(Msg)
      /\ AllStored(Tail(outbox[o]))
  BY <1>1, HeadAndTail
<1>3. /\ outbox' = [outbox EXCEPT ![o] = Tail(outbox[o])]
      /\ UNCHANGED <<mem, db, gone>>
      /\ faults' \in Nat
  BY DEF Publish, MutInv, MongoTypeOK
<1> QED
  BY <1>2, <1>3, OutboxStep

(* A restart goes back to what is stored, and no further.                  *)
LEMMA RestartStep ==
  ASSUME MutInv, Restart
  PROVE  MutInv' /\ StoredStays
<1>1. /\ mem' = [o \in Objects |-> IF db[o] # NoDoc THEN Unmarshal(db[o]) ELSE mem[o]]
      /\ outbox' = [o \in Objects |-> <<>>]
      /\ db' = db /\ gone' = gone /\ faults' \in Nat
  BY DEF Restart, Fault, MutInv, MongoTypeOK
<1>2. \A o \in Objects : db[o] # NoDoc => db[o] \in Doc
  BY DEF MutInv, MongoTypeOK
<1>3. \A o \in Objects :
        IF db[o] # NoDoc
          THEN /\ mem'[o] \in Struct
               /\ mem'[o].v = db[o].v /\ mem'[o].sub = db[o].sub /\ mem'[o].key = db[o].key
          ELSE mem'[o] = mem[o]
  <2>1. \A d \in Doc : /\ Unmarshal(d) \in Struct
                       /\ Unmarshal(d).v = d.v
                       /\ Unmarshal(d).sub = d.sub
                       /\ Unmarshal(d).key = d.key
    BY UnmarshalType DEF Unmarshal
  <2> QED
    BY <1>1, <1>2, <2>1
<1>4. MongoTypeOK'
  BY <1>1, <1>3 DEF MutInv, MongoTypeOK
<1>5. \A o \in Objects : mem[o].v \in Nat /\ (db[o] # NoDoc => db[o].v \in Nat)
  BY <1>2 DEF MutInv, MongoTypeOK, Struct, Doc
<1>6. StoredStays
  BY <1>1, <1>3, <1>5 DEF MutInv, StoredStays, Stored
<1>7. \A o \in Objects : /\ db'[o] # NoDoc => db'[o].v <= mem'[o].v
                         /\ mem'[o].v > 0 => mem'[o].sub = mem'[o].key
  BY <1>1, <1>3, <1>5 DEF MutInv, StoredSubIsCurrent
<1>8. \A o \in Objects : AllStored(outbox[o])'
  BY <1>1 DEF AllStored
<1> QED
  BY <1>1, <1>4, <1>6, <1>7, <1>8 DEF MutInv, StoredSubIsCurrent

(* Every step of the mutator preserves its invariant and unstores nothing; *)
(* what reaches the wire has been stored.                                  *)
LEMMA MutatorInv ==
  ASSUME MutInv, MutatorStep
  PROVE  MutInv' /\ StoredStays
  BY SetStep, CreateStep, ModifyStep, DeleteStep, PublishFailsStep, PublishStep,
     RestartStep
  DEF MutatorStep

-----------------------------------------------------------------------------
(* The mutator's steps as steps of ObjectStore.  Place is where an object  *)
(* is found.                                                               *)
Place == [o \in Objects |-> {k \in Keys : Load({k})[o] # NoDoc /\ db[o].key = k}]

LEMMA StoreSame ==
  ASSUME UNCHANGED <<db, gone>>
  PROVE  UNCHANGED Store!vars
BY DEF Store!vars, Load

(* The invariant of the next state is what makes the new place one key.    *)
LEMMA StoreWrite ==
  ASSUME MutInv, MutInv', NEW o \in Objects, NEW s \in Struct, s.v = mem[o].v + 1,
         o \notin gone, gone' = gone, db' = [db EXCEPT ![o] = Marshal(s)]
  PROVE  Store!Put(o, s.key)
<1>1. Marshal(s) \in Doc /\ Marshal(s).key = s.key /\ Marshal(s).v = s.v
  BY StructTypes DEF Marshal
<1>2. db \in [Objects -> Doc \cup {NoDoc}] /\ mem[o].v \in Nat
  BY DEF MutInv, MongoTypeOK, Struct
<1>3. db'[o] = Marshal(s) /\ \A p \in Objects \ {o} : db'[p] = db[p]
  BY <1>2
<1>4. Place' = [Place EXCEPT ![o] = {s.key}]
  <2>1. Place'[o] = {s.key}
    BY <1>1, <1>3, NoDocFields DEF Place, Load, MutInv, StoredSubIsCurrent, Doc
  <2>2. \A p \in Objects \ {o} : Place'[p] = Place[p]
    BY <1>3 DEF Place, Load
  <2> QED
    BY <2>1, <2>2 DEF Place
<1>5. db'[o].v \in Nat /\ db'[o].v > db[o].v
  <2>1. db[o].v <= mem[o].v /\ db[o].v \in Nat
    BY <1>2, NoDocFields DEF MutInv, Doc
  <2> QED
    BY <1>1, <1>2, <1>3, <2>1
<1>6. [p \in Objects |-> db[p].v]' = [[p \in Objects |-> db[p].v] EXCEPT ![o] = db'[o].v]
  <2>1. \A p \in Objects : db'[p].v = IF p = o THEN db'[o].v ELSE db[p].v
    BY <1>3
  <2> QED
    BY <2>1
<1> QED
  BY <1>4, <1>5, <1>6 DEF Store!Put, Place

LEMMA StoreCreate ==
  ASSUME MutInv, MutInv', NEW o \in Objects, Create(o)
  PROVE  [Store!Next]_(Store!vars)
<1> DEFINE r == Resolve(mem[o])
           s == TagSetSub(r, GetSubKey(r))
<1>1. mem[o] \in Struct
  BY DEF MutInv, MongoTypeOK
<1>2. r \in Struct /\ GetSubKey(r) \in Keys /\ r.v = mem[o].v + 1
  BY <1>1, StructTypes, ResolveFields
<1>3. s \in Struct /\ s.v = mem[o].v + 1 /\ s.key \in Keys
  BY <1>2, SetterTypes, SetterFields DEF Struct
<1>4. /\ o \notin gone /\ gone' = gone
      /\ db' = [db EXCEPT ![o] = Marshal(s)] \/ db' = db
  BY DEF Create, Ready, Write, Panic
<1> HIDE DEF r, s
<1> QED
  BY <1>3, <1>4, StoreWrite, StoreSame DEF Store!Next

LEMMA StoreModify ==
  ASSUME MutInv, MutInv', NEW o \in Objects, Modify(o)
  PROVE  [Store!Next]_(Store!vars)
<1> DEFINE psk == GetPrevSubKey(mem[o])
           nsk == GetSubKey(mem[o])
           r   == Resolve(mem[o])
           s   == IF psk = nsk THEN r ELSE TagSetSub(r, nsk)
<1>1. mem[o] \in Struct
  BY DEF MutInv, MongoTypeOK
<1>2. nsk \in Keys /\ r \in Struct /\ r.v = mem[o].v + 1
  BY <1>1, StructTypes, ResolveFields
<1>3. s \in Struct /\ s.v = mem[o].v + 1 /\ s.key \in Keys
  BY <1>2, SetterTypes, SetterFields DEF Struct
<1>4. /\ o \notin gone /\ gone' = gone
      /\ db' = [db EXCEPT ![o] = Marshal(s)] \/ db' = db
  BY DEF Modify, Ready, Write, Panic
<1> HIDE DEF r, s
<1> QED
  BY <1>3, <1>4, StoreWrite, StoreSame DEF Store!Next

LEMMA StoreDelete ==
  ASSUME MutInv, MutInv', NEW o \in Objects, Delete(o)
  PROVE  [Store!Next]_(Store!vars)
<1>1. CASE db' = [db EXCEPT ![o] = NoDoc] /\ gone' = gone \cup {o}
  <2>1. db'[o] = NoDoc /\ \A p \in Objects \ {o} : db'[p] = db[p]
    BY <1>1 DEF MutInv, MongoTypeOK
  <2>2. Place'[o] = {} /\ db'[o].v = 0
    BY <2>1, NoKeyAssumption DEF Place, Load, NoDoc
  <2>3. Place' = [Place EXCEPT ![o] = {}]
    BY <2>1, <2>2 DEF Place, Load
  <2>4. [p \in Objects |-> db[p].v]' = [[p \in Objects |-> db[p].v] EXCEPT ![o] = 0]
    BY <2>1, <2>2
  <2>5. o \notin gone
    BY DEF Delete, Ready
  <2>6. Store!Vanish(o)
    BY <1>1, <2>3, <2>4, <2>5 DEF Store!Vanish, Place
  <2> QED
    BY <2>6 DEF Store!Next
<1>2. CASE UNCHANGED <<db, gone>>
  BY <1>2, StoreSame
<1> QED
  BY <1>1, <1>2 DEF Delete, Write, Panic

(* Every step of the mutator is one call's step or changes nothing stored. *)
LEMMA StoreStep ==
  ASSUME MutInv, MutInv', MutatorStep
  PROVE  [Store!Next]_(Store!vars)
<1>1. ASSUME NEW o \in Objects, Create(o) \/ Modify(o) \/ Delete(o)
      PROVE  [Store!Next]_(Store!vars)
  BY <1>1, StoreCreate, StoreModify, StoreDelete
<1>2. CASE UNCHANGED <<db, gone>>
  BY <1>2, StoreSame
<1> QED
  BY <1>1, <1>2 DEF MutatorStep, Set, PublishFails, Publish, Restart

LEMMA StoreInit ==
  ASSUME MongoInit
  PROVE  Store!Init
<1>1. \A o \in Objects : db[o] = NoDoc /\ gone = {}
  BY DEF MongoInit
<1> QED
  BY <1>1, NoKeyAssumption DEF MongoInit, Store!Init, Load, NoDoc
=============================================================================
