----------------------------- MODULE MongoSynk ------------------------------
(***************************************************************************)
(* MongoSynk, the Mutator and Loader of a synk server (MongoSynk.go): the  *)
(* objects a process holds in memory, the objects collection, and the      *)
(* messages a mutation publishes.                                          *)
(*                                                                         *)
(* Create, Modify and Delete write the database first and publish after,   *)
(* message by message; anything may happen in between.  outbox[o] is what  *)
(* the call on o in progress has still to publish.  An object belongs to   *)
(* one goroutine, so calls on one object do not overlap; calls on          *)
(* different objects do.  A deleted object is left alone: ids are random   *)
(* and not used again (ID.go).                                             *)
(*                                                                         *)
(* An error from MongoDB or Redis ends the call with a panic (epanic); a   *)
(* caller that recovers goes on with the struct as the call left it.       *)
(***************************************************************************)
EXTENDS PubSub

CONSTANTS Moves,        \* the pairs <<k, l>> such that an object may go from k to l
          MaxVersion,   \* bound on the versions of an object
          MaxFaults     \* bound on failed writes, failed publishes and crashes

ASSUME MongoAssumption == /\ Moves \subseteq Keys \X Keys
                          /\ MaxVersion \in Nat
                          /\ MaxFaults \in Nat

VARIABLES
  mem,       \* mem[o]: the struct of object o in its owner's memory
  db,        \* db[o]: the document of o, NoDoc when there is none
  outbox,    \* outbox[o]: messages the call in progress has still to publish
  gone,      \* objects whose owner has deleted them
  faults     \* failures so far

mutVars == <<mem, db, outbox, gone, faults>>

MongoInit ==
  /\ mem \in [Objects -> {NewStruct(k) : k \in Keys}]
  /\ db = [o \in Objects |-> NoDoc]
  /\ outbox = [o \in Objects |-> <<>>]
  /\ gone = {}
  /\ faults = 0

MongoTypeOK ==
  /\ mem \in [Objects -> Struct]
  /\ db \in [Objects -> Doc \cup {NoDoc}]
  /\ outbox \in [Objects -> Seq(Msg)]
  /\ gone \in SUBSET Objects
  /\ faults \in Nat

-----------------------------------------------------------------------------
Idle(o) == outbox[o] = <<>>

(* The owner of o may make a call on it.                                   *)
Ready(o) == Idle(o) /\ o \notin gone

Fault == faults < MaxFaults /\ faults' = faults + 1

(* The write of o succeeds: the document becomes d and the call goes on to *)
(* publish msgs.                                                           *)
Write(o, d, msgs) ==
  /\ db' = [db EXCEPT ![o] = d]
  /\ outbox' = [outbox EXCEPT ![o] = msgs]
  /\ UNCHANGED faults

(* The connection fails, or the database refuses the write (an insert of   *)
(* an id that is there, an update or removal of one that is not): epanic.  *)
Panic == Fault /\ UNCHANGED <<db, outbox>>

-----------------------------------------------------------------------------
(* Faulty variants of the calls below: each is a slip the checks must find. *)

(* TagSetSub is forgotten when an object moves.                            *)
ModifyKeepsSub(o) ==
  LET psk == GetPrevSubKey(mem[o])
      nsk == GetSubKey(mem[o])
      s   == Resolve(mem[o])
      mod == ModMsg(o, psk, nsk, s.v)
  IN  /\ Ready(o) /\ mem[o].v \in 1..(MaxVersion - 1) /\ db[o] # NoDoc
      /\ mem' = [mem EXCEPT ![o] = s]
      /\ UNCHANGED gone
      /\ Write(o, Marshal(s), IF psk = nsk THEN <<mod>>
                              ELSE <<mod, AddMsg(o, nsk, psk, s.v)>>)

(* The error of the write is not looked at.                                *)
ModifyIgnoresError(o) ==
  LET psk  == GetPrevSubKey(mem[o])
      nsk  == GetSubKey(mem[o])
      s    == TagSetSub(Resolve(mem[o]), nsk)
      mod  == ModMsg(o, psk, nsk, s.v)
      msgs == IF psk = nsk THEN <<mod>> ELSE <<mod, AddMsg(o, nsk, psk, s.v)>>
  IN  /\ Ready(o) /\ mem[o].v \in 1..(MaxVersion - 1) /\ db[o] # NoDoc
      /\ mem' = [mem EXCEPT ![o] = s]
      /\ UNCHANGED gone
      /\ \/ Write(o, Marshal(s), msgs)
         \/ /\ Fault
            /\ outbox' = [outbox EXCEPT ![o] = msgs]
            /\ UNCHANGED db

(* The error of the insert is not looked at.                               *)
CreateIgnoresError(o) ==
  LET r    == Resolve(mem[o])
      s    == TagSetSub(r, GetSubKey(r))
      msgs == <<AddMsg(o, s.sub, NoKey, s.v)>>
  IN  /\ Ready(o) /\ mem[o].v < MaxVersion
      /\ mem' = [mem EXCEPT ![o] = s]
      /\ UNCHANGED gone
      /\ \/ db[o] = NoDoc /\ Write(o, Marshal(s), msgs)
         \/ /\ Fault /\ db[o] = NoDoc
            /\ outbox' = [outbox EXCEPT ![o] = msgs]
            /\ UNCHANGED db

(* The removal is published in the key an unresolved move leads to.        *)
DeleteAtNewKey(o) ==
  /\ Ready(o) /\ mem[o].v > 0 /\ db[o] # NoDoc
  /\ gone' = gone \cup {o}
  /\ UNCHANGED mem
  /\ Write(o, NoDoc, <<RemMsg(o, GetSubKey(mem[o]))>>)

-----------------------------------------------------------------------------
(* The owner sets the subscription key of o; nothing is stored or sent     *)
(* before the next Create or Modify.                                       *)
Set(o, k) ==
  /\ Ready(o)
  /\ <<mem[o].key, k>> \in Moves \/ k = mem[o].key
  /\ mem' = [mem EXCEPT ![o] = SetSubKey(@, k)]
  /\ UNCHANGED <<db, outbox, gone, faults>>

(* Insert adds a document; it never replaces one.                          *)
Create(o) ==
  LET r == Resolve(mem[o])
      s == TagSetSub(r, GetSubKey(r))
  IN  /\ Ready(o)
      /\ mem[o].v < MaxVersion
      /\ mem' = [mem EXCEPT ![o] = s]
      /\ UNCHANGED gone
      /\ \/ /\ db[o] = NoDoc
            /\ Write(o, Marshal(s), <<AddMsg(o, s.sub, NoKey, s.v)>>)
         \/ Panic

(* The diff is resolved, and a moved object's TagSub set, before the write *)
(* is known to have succeeded.  UpdateId replaces a document that is there. *)
Modify(o) ==
  LET psk == GetPrevSubKey(mem[o])
      nsk == GetSubKey(mem[o])
      r   == Resolve(mem[o])
      s   == IF psk = nsk THEN r ELSE TagSetSub(r, nsk)
      mod == ModMsg(o, psk, nsk, s.v)
  IN  /\ Ready(o)
      /\ mem[o].v > 0
      /\ mem[o].v < MaxVersion
      /\ mem' = [mem EXCEPT ![o] = s]
      /\ UNCHANGED gone
      /\ \/ /\ db[o] # NoDoc
            /\ Write(o, Marshal(s), IF psk = nsk THEN <<mod>>
                                    ELSE <<mod, AddMsg(o, nsk, psk, s.v)>>)
         \/ Panic

(* An unresolved move does not count: clients still have o in its previous *)
(* key.                                                                    *)
Delete(o) ==
  /\ Ready(o)
  /\ mem[o].v > 0
  /\ UNCHANGED mem
  /\ \/ /\ db[o] # NoDoc
        /\ gone' = gone \cup {o}
        /\ Write(o, NoDoc, <<RemMsg(o, GetPrevSubKey(mem[o]))>>)
     \/ Panic /\ UNCHANGED gone

(* send, sendMod, sendAddFrom, sendRem: the next message of the call on o. *)
Publish(o) ==
  /\ outbox[o] # <<>>
  /\ wire' = Published(Head(outbox[o]))
  /\ outbox' = [outbox EXCEPT ![o] = Tail(@)]
  /\ UNCHANGED <<mem, db, gone, faults, agents, todo, sending>>

(* PUBLISH fails: epanic abandons this message and the ones after it.  A   *)
(* call whose write or PUBLISH is executed, but not answered, ends in the  *)
(* same state: with Write or Publish done, and PublishFails of the rest.   *)
PublishFails(o) ==
  /\ outbox[o] # <<>>
  /\ Fault
  /\ outbox' = [outbox EXCEPT ![o] = <<>>]
  /\ UNCHANGED <<mem, db, gone>>

(* The owning process dies and a new one loads its objects: what was in    *)
(* memory only, the messages of calls in progress included, is lost.  A    *)
(* struct that was never stored is made anew, so it keeps its place here.  *)
Restart ==
  /\ Fault
  /\ mem' = [o \in Objects |-> IF db[o] # NoDoc THEN Unmarshal(db[o]) ELSE mem[o]]
  /\ outbox' = [o \in Objects |-> <<>>]
  /\ UNCHANGED <<db, gone>>

MutatorStep ==
  \/ /\ \E o \in Objects :
          \/ \E k \in Keys : Set(o, k)
          \/ Create(o)
          \/ Modify(o)
          \/ Delete(o)
          \/ PublishFails(o)
     /\ UNCHANGED busVars
  \/ Restart /\ UNCHANGED busVars
  \/ \E o \in Objects : Publish(o)

-----------------------------------------------------------------------------
(* Load: the documents whose sub is one of the given keys, one query.      *)
Load(keys) == [o \in Objects |-> IF db[o].sub \in keys THEN db[o] ELSE NoDoc]

-----------------------------------------------------------------------------
(* Version v of o has been stored: memory is not behind it, nor is the     *)
(* document, unless o was deleted since.  Of an object that has not been   *)
(* inserted yet, version 0 ("none") only.                                  *)
Stored(o, v) == v <= mem[o].v /\ (v <= db[o].v \/ o \in gone)

AllStored(s) == \A i \in 1..Len(s) : Stored(s[i].id, s[i].v)

(* The sub field that queries select on is the key the stored object is    *)
(* in, although TagSetSub is left to Create and Modify to call (Tag.go:    *)
(* "The data in Tag members may be unreliable").                           *)
StoredSubIsCurrent == \A o \in Objects : db[o].sub = db[o].key

(* To those who load them, objects behave as a Mutator promises, however   *)
(* writes and processes fail: an object is found in one key at a time, the *)
(* one its own fields name as well, in ever later versions, and is not     *)
(* found again once it was deleted.  No unresolved or half-made change is  *)
(* ever loaded.                                                            *)
Store == INSTANCE ObjectStore
  WITH place <- [o \in Objects |-> {k \in Keys : Load({k})[o] # NoDoc /\ db[o].key = k}],
       version <- [o \in Objects |-> db[o].v]

AsStore == Store!Spec
=============================================================================
