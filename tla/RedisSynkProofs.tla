-------------------------- MODULE RedisSynkProofs ---------------------------
(***************************************************************************)
(* Proofs about RedisSynk, for any objects and keys and any bounds, under  *)
(* two conditions the code does not establish by itself: objects have      *)
(* their ids before Create, and OnCreate does not move them.  Calls are    *)
(* made in any order.                                                      *)
(***************************************************************************)
EXTENDS RedisSynk, TLAPS

Conditions == Named = Objects /\ \A o \in Objects : Placed[o] = NoKey

-----------------------------------------------------------------------------
(* The redis key without an id is never used.                              *)
NoIDUnused == store[NoID] = Nil /\ \A k \in Keys : NoID \notin chunk[k]

(* Of every object, however its owner calls: a value is under its own      *)
(* redis key, in the set of its key, and not ahead of memory.              *)
Held(o) ==
  /\ store[o] # Nil => /\ store[o].id = o /\ store[o].doc.v > 0
                       /\ o \in chunk[store[o].doc.key]
  /\ store[o].doc.v <= mem[o].v

(* Of an object called in turn: the sets index its value, and who listens  *)
(* knows exactly that value;                                               *)
Indexed(o) ==
  \A k \in Keys :
    /\ o \in chunk[k] <=> store[o] # Nil /\ store[o].doc.key = k
    /\ told[k][o] = IF store[o] # Nil /\ store[o].doc.key = k THEN store[o].doc.v ELSE 0

(* what its owner takes for certain is so.                                 *)
OwnerRight(o) ==
  /\ phase[o] = "live" => store[o] # Nil
  /\ phase[o] \in {"live", "leaving"} /\ store[o] # Nil => store[o].doc.key = mem[o].key
  /\ phase[o] \in {"new", "gone"} => store[o] = Nil

(* The inductive invariant.  Without OwnerRight a Modify in turn would not *)
(* know which set to take the object out of.                               *)
IInv ==
  /\ TypeOK
  /\ tagged = Objects
  /\ NoIDUnused
  /\ \A o \in Objects : /\ Held(o)
                        /\ o \notin outOfTurn => Indexed(o) /\ OwnerRight(o)

-----------------------------------------------------------------------------
(* Structs, documents and values.                                          *)
LEMMA Structs ==
  ASSUME NEW s \in Struct
  PROVE  /\ GetSubKey(s) \in Keys /\ GetPrevSubKey(s) = s.key /\ s.key \in Keys /\ s.v \in Nat
         /\ Resolve(s) \in Struct
         /\ Resolve(s).key = GetSubKey(s) /\ Resolve(s).v = s.v + 1
         /\ GetSubKey(Resolve(s)) = GetSubKey(s)
         /\ Marshal(s) \in Doc /\ Marshal(s).key = s.key /\ Marshal(s).v = s.v
  BY DEF Struct, MaybeKey, Doc, GetSubKey, GetPrevSubKey, Resolve, Marshal

(* The setters leave the committed key and the version alone.              *)
LEMMA Setters ==
  ASSUME NEW s \in Struct, NEW k \in Keys
  PROVE  /\ TagSetSub(s, k) \in Struct /\ SetSubKey(s, k) \in Struct
         /\ TagSetSub(s, k).key = s.key /\ TagSetSub(s, k).v = s.v
         /\ SetSubKey(s, k).key = s.key /\ SetSubKey(s, k).v = s.v
<1>1. DOMAIN s = {"key", "diff", "sub", "v"}
  BY DEF Struct
<1>2. TagSetSub(s, k) \in Struct /\ SetSubKey(s, k) \in Struct
  BY DEF Struct, MaybeKey, TagSetSub, SetSubKey
<1> QED
  BY <1>1, <1>2 DEF TagSetSub, SetSubKey

(* A document makes a struct with its key and version.                     *)
LEMMA Unmarshals ==
  ASSUME NEW d \in Doc
  PROVE  /\ Unmarshal(d) \in Struct
         /\ Unmarshal(d).key = d.key /\ Unmarshal(d).v = d.v /\ d.key \in Keys /\ d.v \in Nat
  BY DEF Doc, Struct, MaybeKey, Unmarshal

(* A value is something, and has the fields it is made of.                 *)
LEMMA Values ==
  ASSUME NEW o \in Objects, NEW s \in Struct
  PROVE  /\ Json(o, s) \in Value /\ Json(o, s) # Nil
         /\ Json(o, s).id = o /\ Json(o, s).doc = Marshal(s)
<1>1. Marshal(s) \in Doc
  BY Structs
<1> QED
  BY <1>1, RedisAssumption DEF RedisAssumption, Json, Value, Nil

(* Neither a value nor its absence is mistaken for the other.              *)
LEMMA NotNil ==
  \A val \in Value \cup {Nil} : val # Nil => val \in Value /\ val.id \in Objects /\ val.doc \in Doc
  BY DEF Value

(* There is no document in an absent value.                                *)
LEMMA NilDoc == Nil.doc.v = 0 /\ Nil.id = NoID
  BY DEF Nil, NoDoc

(* One entry of what is heard changes.                                     *)
LEMMA OneHeard ==
  ASSUME NEW t \in [Keys -> [Objects -> Nat]], NEW o \in Objects,
         NEW k \in Keys, NEW v \in Nat, NEW u, u = [t EXCEPT ![k][o] = v]
  PROVE  /\ u \in [Keys -> [Objects -> Nat]]
         /\ \A l \in Keys, p \in Objects : u[l][p] = IF l = k /\ p = o THEN v ELSE t[l][p]
  OBVIOUS

-----------------------------------------------------------------------------
(* The calls.                                                              *)

(* What the types say of a state.                                          *)
LEMMA Types ==
  ASSUME IInv, NEW o \in Objects
  PROVE  /\ mem \in [Objects -> Struct] /\ mem[o] \in Struct /\ phase \in [Objects -> Phase]
         /\ outOfTurn \in SUBSET Objects
         /\ store \in [RedisKeys -> Value \cup {Nil}]
         /\ chunk \in [Keys -> SUBSET RedisKeys] /\ told \in [Keys -> [Objects -> Nat]]
         /\ faults \in Nat /\ tagged = Objects
         /\ o \in RedisKeys /\ o # NoID /\ NoID \in RedisKeys /\ Objects \subseteq RedisKeys
  BY RedisAssumption DEF IInv, TypeOK, RedisKeys, RedisAssumption

(* A step about one object keeps the invariant if it keeps that object's.  *)
LEMMA OneObject ==
  ASSUME IInv, NEW o \in Objects, TypeOK', tagged' = Objects,
         \A q \in RedisKeys : q # o => /\ store'[q] = store[q]
                                       /\ \A k \in Keys : q \in chunk'[k] <=> q \in chunk[k],
         \A q \in Objects : q # o => /\ mem'[q] = mem[q] /\ phase'[q] = phase[q]
                                     /\ q \in outOfTurn' <=> q \in outOfTurn
                                     /\ \A k \in Keys : told'[k][q] = told[k][q],
         Held(o)',
         o \notin outOfTurn' => Indexed(o)' /\ OwnerRight(o)'
  PROVE  IInv'
<1>1. /\ Objects \subseteq RedisKeys /\ NoID \in RedisKeys /\ NoID # o
      /\ store \in [RedisKeys -> Value \cup {Nil}]
  BY Types
<1>2. NoIDUnused'
  BY <1>1 DEF IInv, NoIDUnused
<1>3. ASSUME NEW q \in Objects, q # o
      PROVE  Held(q)' /\ (q \notin outOfTurn' => Indexed(q)' /\ OwnerRight(q)')
  <2>1. /\ store'[q] = store[q] /\ mem'[q] = mem[q] /\ phase'[q] = phase[q]
        /\ \A k \in Keys : q \in chunk'[k] <=> q \in chunk[k]
        /\ \A k \in Keys : told'[k][q] = told[k][q]
        /\ q \in outOfTurn' <=> q \in outOfTurn
    BY <1>1, <1>3
  <2>2. store[q] # Nil => store[q].doc.key \in Keys
    BY <1>1, NotNil DEF Doc
  <2>3. Held(q)'
    BY <2>1, <2>2 DEF IInv, Held
  <2>4. q \notin outOfTurn' => Indexed(q)' /\ OwnerRight(q)'
    BY <2>1 DEF IInv, Indexed, OwnerRight
  <2> QED
    BY <2>3, <2>4
<1> QED
  BY <1>2, <1>3 DEF IInv

(* A call that redis does not execute leaves the value of its object, as   *)
(* long as the owner does not take for certain what is not.                *)
LEMMA NotExecuted ==
  ASSUME IInv, NEW o \in Objects, NEW s \in Struct, NEW p \in Phase,
         s.v >= mem[o].v, mem' = [mem EXCEPT ![o] = s], tagged' = Objects,
         faults' \in Nat, Goes(o, p), UNCHANGED dbVars,
         outOfTurn' \in SUBSET Objects, outOfTurn \subseteq outOfTurn',
         \A q \in Objects : q # o => (q \in outOfTurn' <=> q \in outOfTurn),
         o \notin outOfTurn' =>
           /\ p = "live" => store[o] # Nil
           /\ p \in {"live", "leaving"} /\ store[o] # Nil => store[o].doc.key = s.key
           /\ p \in {"new", "gone"} => store[o] = Nil
  PROVE  IInv'
<1>1. /\ mem \in [Objects -> Struct] /\ phase \in [Objects -> Phase]
      /\ store \in [RedisKeys -> Value \cup {Nil}] /\ o \in RedisKeys
  BY Types
<1>2. /\ mem'[o] = s /\ phase'[o] = p
      /\ \A q \in Objects : q # o => mem'[q] = mem[q] /\ phase'[q] = phase[q]
      /\ UNCHANGED <<store, chunk, told>>
  BY <1>1 DEF Goes, dbVars
<1>3. TypeOK'
  BY <1>1, <1>2 DEF IInv, TypeOK, Goes
<1>4. Held(o)'
  <2>1. store[o].doc.v \in Nat /\ mem[o].v \in Nat /\ s.v \in Nat
    BY <1>1, NotNil, NilDoc, Structs DEF Doc
  <2> QED
    BY <1>2, <2>1 DEF IInv, Held
<1>5. o \notin outOfTurn' => Indexed(o)' /\ OwnerRight(o)'
  BY <1>2 DEF IInv, Indexed, OwnerRight
<1> QED
  BY <1>2, <1>3, <1>4, <1>5, OneObject

(* A call that puts o at s.key: the sets and what is heard of an object    *)
(* called in turn must come out right.                                     *)
LEMMA Puts ==
  ASSUME IInv, NEW o \in Objects, NEW s \in Struct, NEW p \in Phase,
         s.v > 0, mem' = [mem EXCEPT ![o] = s], tagged' = Objects,
         faults' \in Nat, Goes(o, p), p \notin {"new", "gone"},
         outOfTurn' \in SUBSET Objects,
         \A q \in Objects : q # o => (q \in outOfTurn' <=> q \in outOfTurn),
         store' = [store EXCEPT ![o] = Json(o, s)],
         chunk' \in [Keys -> SUBSET RedisKeys], o \in chunk'[s.key],
         \A k \in Keys, q \in RedisKeys : q # o => (q \in chunk'[k] <=> q \in chunk[k]),
         told' \in [Keys -> [Objects -> Nat]],
         \A k \in Keys, q \in Objects : q # o => told'[k][q] = told[k][q],
         o \notin outOfTurn' =>
           \A k \in Keys : /\ o \in chunk'[k] <=> k = s.key
                           /\ told'[k][o] = IF k = s.key THEN s.v ELSE 0
  PROVE  IInv'
<1>1. /\ mem \in [Objects -> Struct] /\ phase \in [Objects -> Phase]
      /\ store \in [RedisKeys -> Value \cup {Nil}] /\ o \in RedisKeys
  BY Types
<1>2. /\ mem'[o] = s /\ phase'[o] = p
      /\ \A q \in Objects : q # o => mem'[q] = mem[q] /\ phase'[q] = phase[q]
  BY <1>1 DEF Goes
<1>3. /\ Json(o, s) \in Value /\ Json(o, s) # Nil /\ Json(o, s).id = o
      /\ Json(o, s).doc.key = s.key /\ Json(o, s).doc.v = s.v /\ s.v \in Nat
  BY Values, Structs
<1>4. store'[o] = Json(o, s) /\ \A q \in RedisKeys : q # o => store'[q] = store[q]
  BY <1>1
<1>5. TypeOK'
  BY <1>1, <1>3 DEF IInv, TypeOK, Goes
<1>6. Held(o)'
  BY <1>2, <1>3, <1>4 DEF Held
<1>7. o \notin outOfTurn' => Indexed(o)' /\ OwnerRight(o)'
  BY <1>2, <1>3, <1>4 DEF Indexed, OwnerRight
<1> QED
  BY <1>2, <1>4, <1>5, <1>6, <1>7, OneObject

(* Being called in turn, or not, concerns one object.                      *)
LEMMA CalledOn ==
  ASSUME IInv, NEW o \in Objects, NEW turn, Called(o, turn)
  PROVE  /\ outOfTurn' \in SUBSET Objects /\ outOfTurn \subseteq outOfTurn'
         /\ \A q \in Objects : q # o => (q \in outOfTurn' <=> q \in outOfTurn)
         /\ o \notin outOfTurn' =>
              o \notin outOfTurn /\ phase[o] \in turn /\ Indexed(o) /\ OwnerRight(o)
  BY Types DEF Called, IInv

(* The setter changes neither the key nor the version.                     *)
LEMMA SetStep ==
  ASSUME IInv, NEW o \in Objects, NEW k \in Keys, Set(o, k)
  PROVE  IInv'
<1> DEFINE s == SetSubKey(mem[o], k)
<1>1. mem[o] \in Struct /\ phase[o] \in Phase /\ phase \in [Objects -> Phase]
  BY Types
<1>2. s \in Struct /\ s.key = mem[o].key /\ s.v = mem[o].v /\ s.v \in Nat
  BY <1>1, Setters, Structs
<1>3. /\ mem' = [mem EXCEPT ![o] = s]
      /\ phase' = [phase EXCEPT ![o] = phase[o]]
      /\ outOfTurn' = outOfTurn /\ UNCHANGED <<tagged, dbVars, faults>>
  BY <1>1 DEF Set, history
<1> HIDE DEF s
<1>4. /\ faults' \in Nat /\ tagged' = Objects /\ outOfTurn' \in SUBSET Objects
      /\ Goes(o, phase[o])
  BY <1>3, Types DEF Goes
<1>5. o \notin outOfTurn' => OwnerRight(o)
  BY <1>3 DEF IInv
<1>6. s.v >= mem[o].v
  BY <1>2
<1> QED
  BY <1>1, <1>2, <1>3, <1>4, <1>5, <1>6, NotExecuted DEF OwnerRight

(* Create puts the object where it is not yet, or does nothing.            *)
LEMMA CreateStep ==
  ASSUME Conditions, IInv, NEW o \in Objects, Create(o)
  PROVE  IInv'
<1> DEFINE k == GetSubKey(mem[o])
           r == Resolve(mem[o])
           s == TagSetSub(r, GetSubKey(r))
           Stored == /\ store[o] = Nil
                     /\ store' = [store EXCEPT ![o] = Json(o, s)]
                     /\ chunk' = Added(chunk, k, o)
                     /\ told' = Heard(told, AddMsg(o, k, NoKey, s.v))
<1>1. mem[o] \in Struct /\ tagged = Objects /\ faults \in Nat
  BY Types
<1>2. s \in Struct /\ s.key = k /\ s.v = mem[o].v + 1 /\ mem[o].v \in Nat /\ k \in Keys
  <2>1. r \in Struct /\ r.key = k /\ r.v = mem[o].v + 1 /\ mem[o].v \in Nat /\ k \in Keys
    BY <1>1, Structs
  <2>2. GetSubKey(r) \in Keys
    BY <2>1, Structs
  <2> HIDE DEF k, r
  <2>3. \A l \in Keys : /\ TagSetSub(r, l) \in Struct
                        /\ TagSetSub(r, l).key = r.key /\ TagSetSub(r, l).v = r.v
    BY <2>1, Setters
  <2> QED
    BY <2>1, <2>2, <2>3
<1>3. /\ mem' = [mem EXCEPT ![o] = s] /\ tagged' = Objects
      /\ Called(o, {"new", "unborn"})
      /\ \/ Outcome(o, Stored, "live", "unborn")
         \/ store[o] # Nil /\ Goes(o, "unborn") /\ UNCHANGED <<dbVars, faults>>
  BY <1>1 DEF Create, RedisKey, Conditions
<1> HIDE DEF k, r, s
<1>4. s.v > 0 /\ s.v >= mem[o].v /\ s.v \in Nat
  BY <1>2
<1>5. /\ outOfTurn' \in SUBSET Objects /\ outOfTurn \subseteq outOfTurn'
      /\ \A q \in Objects : q # o => (q \in outOfTurn' <=> q \in outOfTurn)
      /\ o \notin outOfTurn' => Indexed(o)
  BY <1>3, CalledOn
<1>6. ASSUME Stored
      PROVE  /\ chunk' \in [Keys -> SUBSET RedisKeys] /\ o \in chunk'[s.key]
             /\ \A l \in Keys, q \in RedisKeys : q # o => (q \in chunk'[l] <=> q \in chunk[l])
             /\ told' \in [Keys -> [Objects -> Nat]]
             /\ \A l \in Keys, q \in Objects : q # o => told'[l][q] = told[l][q]
             /\ o \notin outOfTurn' =>
                  \A l \in Keys : /\ o \in chunk'[l] <=> l = s.key
                                  /\ told'[l][o] = IF l = s.key THEN s.v ELSE 0
  <2>1. /\ chunk \in [Keys -> SUBSET RedisKeys] /\ told \in [Keys -> [Objects -> Nat]]
        /\ o \in RedisKeys
    BY Types
  <2>2. /\ chunk' \in [Keys -> SUBSET RedisKeys]
        /\ \A l \in Keys, q \in RedisKeys :
             q \in chunk'[l] <=> q \in chunk[l] \/ (q = o /\ l = k)
    BY <1>2, <1>6, <2>1 DEF Added
  <2>3. told' = [told EXCEPT ![k][o] = s.v]
    <3>1. Heard(told, AddMsg(o, k, NoKey, s.v)) = [told EXCEPT ![k][o] = s.v]
      BY <1>2, <1>4, <2>1 DEF Heard, AddMsg
    <3> QED
      BY <1>6, <3>1
  <2>4. /\ told' \in [Keys -> [Objects -> Nat]]
        /\ \A l \in Keys, p \in Objects :
             told'[l][p] = IF l = k /\ p = o THEN s.v ELSE told[l][p]
    BY <1>2, <1>4, <2>1, <2>3, OneHeard
  <2>5. o \notin outOfTurn' => \A l \in Keys : o \notin chunk[l] /\ told[l][o] = 0
    BY <1>5, <1>6 DEF Indexed
  <2> QED
    BY <1>2, <2>1, <2>2, <2>4, <2>5
<1>7. CASE Stored /\ Goes(o, "live") /\ UNCHANGED faults
  <2>1. "live" \in Phase /\ "live" \notin {"new", "gone"} /\ faults' \in Nat
    BY <1>1, <1>7 DEF Phase
  <2> QED
    BY <1>2, <1>3, <1>4, <1>5, <1>6, <1>7, <2>1, Puts
<1>8. CASE Goes(o, "unborn") /\ faults' \in Nat /\ (Stored \/ UNCHANGED dbVars)
  <2>1. "unborn" \in Phase /\ "unborn" \notin {"new", "gone", "live", "leaving"}
    BY DEF Phase
  <2>2. CASE Stored
    BY <1>2, <1>3, <1>4, <1>5, <1>6, <1>8, <2>1, <2>2, Puts
  <2>3. CASE UNCHANGED dbVars
    BY <1>2, <1>3, <1>4, <1>5, <1>8, <2>1, <2>3, NotExecuted
  <2> QED
    BY <1>8, <2>2, <2>3
<1>9. faults + 1 \in Nat
  BY <1>1
<1> QED
  BY <1>1, <1>3, <1>7, <1>8, <1>9 DEF Outcome

(* Modify takes the object from where its struct says to where it goes,    *)
(* which is right if it is called in turn; it is in the set it goes to in  *)
(* any case.                                                               *)
LEMMA ModifyStep ==
  ASSUME IInv, NEW o \in Objects, Modify(o)
  PROVE  IInv'
<1> DEFINE psk == GetPrevSubKey(mem[o])
           nsk == GetSubKey(mem[o])
           s   == Resolve(mem[o])
           mod == Heard(told, ModMsg(o, psk, nsk, s.v))
           Stored == /\ store' = [store EXCEPT ![o] = Json(o, s)]
                     /\ \/ /\ psk = nsk
                           /\ chunk' = Added(chunk, nsk, o)
                           /\ told' = mod
                        \/ /\ psk # nsk
                           /\ chunk' = Added(Removed(chunk, psk, o), nsk, o)
                           /\ told' = Heard(mod, AddMsg(o, nsk, psk, s.v))
           failed == IF psk = nsk THEN "live" ELSE "moving"
<1>1. mem[o] \in Struct /\ tagged = Objects /\ faults \in Nat
  BY Types
<1>2. /\ s \in Struct /\ s.key = nsk /\ s.v = mem[o].v + 1 /\ mem[o].v \in Nat
      /\ nsk \in Keys /\ psk \in Keys /\ psk = mem[o].key
  BY <1>1, Structs
<1>3. /\ mem' = [mem EXCEPT ![o] = s] /\ tagged' = Objects
      /\ Called(o, {"live"})
      /\ Outcome(o, Stored, "live", failed)
  BY <1>1 DEF Modify, RedisKey
<1> HIDE DEF psk, nsk, s
<1>4. s.v > 0 /\ s.v >= mem[o].v /\ s.v \in Nat
  BY <1>2
<1>5. /\ outOfTurn' \in SUBSET Objects /\ outOfTurn \subseteq outOfTurn'
      /\ \A q \in Objects : q # o => (q \in outOfTurn' <=> q \in outOfTurn)
      /\ o \notin outOfTurn' => /\ Indexed(o) /\ store[o] # Nil
                                /\ store[o].doc.key = psk
  BY <1>2, <1>3, CalledOn DEF OwnerRight
<1>6. ASSUME Stored
      PROVE  /\ chunk' \in [Keys -> SUBSET RedisKeys] /\ o \in chunk'[s.key]
             /\ \A l \in Keys, q \in RedisKeys : q # o => (q \in chunk'[l] <=> q \in chunk[l])
             /\ told' \in [Keys -> [Objects -> Nat]]
             /\ \A l \in Keys, q \in Objects : q # o => told'[l][q] = told[l][q]
             /\ o \notin outOfTurn' =>
                  \A l \in Keys : /\ o \in chunk'[l] <=> l = s.key
                                  /\ told'[l][o] = IF l = s.key THEN s.v ELSE 0
  <2>1. /\ chunk \in [Keys -> SUBSET RedisKeys] /\ told \in [Keys -> [Objects -> Nat]]
        /\ o \in RedisKeys
    BY Types
  <2>2. /\ chunk' \in [Keys -> SUBSET RedisKeys]
        /\ \A l \in Keys, q \in RedisKeys :
             q \in chunk'[l] <=> IF q = o THEN l = nsk \/ (l # psk /\ o \in chunk[l])
                                           \/ (psk = nsk /\ o \in chunk[l])
                                          ELSE q \in chunk[l]
    BY <1>2, <1>6, <2>1 DEF Added, Removed
  <2> DEFINE old == IF told[psk][o] = 0 \/ psk # nsk THEN 0 ELSE s.v
  <2>3. old \in Nat /\ mod = [told EXCEPT ![psk][o] = old]
    <3>1. nsk # NoKey
      BY <1>2, NoKeyAssumption
    <3> QED
      BY <1>2, <1>4, <2>1, <3>1 DEF Heard, ModMsg
  <2> HIDE DEF mod
  <2>4. /\ mod \in [Keys -> [Objects -> Nat]]
        /\ \A l \in Keys, p \in Objects :
             mod[l][p] = IF l = psk /\ p = o THEN old ELSE told[l][p]
    BY <1>2, <2>1, <2>3, OneHeard
  <2>5. psk # nsk => told' = [mod EXCEPT ![nsk][o] = s.v]
    <3>1. Heard(mod, AddMsg(o, nsk, psk, s.v)) = [mod EXCEPT ![nsk][o] = s.v]
      BY <1>2, <1>4, <2>4 DEF Heard, AddMsg
    <3> QED
      BY <1>6, <3>1
  <2>6. ASSUME psk # nsk
        PROVE  /\ told' \in [Keys -> [Objects -> Nat]]
               /\ \A l \in Keys, p \in Objects :
                    told'[l][p] = IF l = nsk /\ p = o THEN s.v ELSE mod[l][p]
    BY <1>2, <1>4, <2>4, <2>5, <2>6
  <2>7. psk = nsk => told' = mod
    BY <1>6
  <2>8. /\ told' \in [Keys -> [Objects -> Nat]]
        /\ \A l \in Keys, q \in Objects : q # o => told'[l][q] = told[l][q]
    BY <2>4, <2>6, <2>7
  <2>9. ASSUME o \notin outOfTurn', NEW l \in Keys
        PROVE  /\ o \in chunk'[l] <=> l = s.key
               /\ told'[l][o] = IF l = s.key THEN s.v ELSE 0
    <3>1. /\ o \in chunk[l] <=> l = psk
          /\ l # psk => told[l][o] = 0
          /\ told[psk][o] # 0
      <4>1. store[o].doc.v > 0
        BY <1>5, <2>9 DEF IInv, Held
      <4> QED
        BY <1>2, <1>5, <2>9, <4>1 DEF Indexed
    <3>2. o \in chunk'[l] <=> l = nsk
      BY <1>2, <2>1, <2>2, <3>1
    <3>3. told'[l][o] = IF l = nsk THEN s.v ELSE 0
      <4>1. CASE psk = nsk
        <5>1. told'[l][o] = IF l = psk THEN s.v ELSE told[l][o]
          BY <2>4, <2>7, <3>1, <4>1
        <5> QED
          BY <3>1, <4>1, <5>1
      <4>2. CASE psk # nsk
        <5>1. mod[l][o] = IF l = psk THEN 0 ELSE told[l][o]
          BY <2>4, <4>2
        <5>2. told'[l][o] = IF l = nsk THEN s.v ELSE mod[l][o]
          BY <2>6, <4>2
        <5> QED
          BY <3>1, <5>1, <5>2
      <4> QED
        BY <4>1, <4>2
    <3> QED
      BY <1>2, <3>2, <3>3
  <2> QED
    BY <1>2, <2>1, <2>2, <2>8, <2>9
<1>7. failed \in {"live", "moving"} /\ (failed = "live" => psk = nsk)
  OBVIOUS
<1> HIDE DEF failed
<1>8. ASSUME NEW p \in {"live", "moving"}, Stored, Goes(o, p), faults' \in Nat
      PROVE  IInv'
  <2>1. p \in Phase /\ p \notin {"new", "gone"}
    BY <1>8 DEF Phase
  <2> QED
    BY <1>2, <1>3, <1>4, <1>5, <1>6, <1>8, <2>1, Puts
<1>9. CASE UNCHANGED dbVars /\ Goes(o, failed) /\ faults' \in Nat
  <2>1. failed \in Phase /\ failed \notin {"leaving", "new", "gone"}
    BY <1>7 DEF Phase
  <2>2. failed = "live" /\ o \notin outOfTurn' => store[o] # Nil /\ store[o].doc.key = s.key
    BY <1>2, <1>5, <1>7
  <2> QED
    BY <1>2, <1>3, <1>4, <1>5, <1>9, <2>1, <2>2, NotExecuted
<1>10. faults + 1 \in Nat
  BY <1>1
<1> QED
  BY <1>1, <1>3, <1>7, <1>8, <1>9, <1>10 DEF Outcome

(* Delete finds an object that is called in turn in the set of its         *)
(* committed key, or nowhere.                                              *)
LEMMA DeleteStep ==
  ASSUME IInv, NEW o \in Objects, Delete(o)
  PROVE  IInv'
<1> DEFINE psk == GetPrevSubKey(mem[o])
           Stored == /\ store' = [store EXCEPT ![o] = Nil]
                     /\ chunk' = Removed(chunk, psk, o)
                     /\ told' = Heard(told, RemMsg(o, psk))
<1>1. /\ mem[o] \in Struct /\ mem \in [Objects -> Struct] /\ phase \in [Objects -> Phase]
      /\ tagged = Objects /\ faults \in Nat
  BY Types
<1>2. psk \in Keys /\ psk = mem[o].key /\ mem[o].v \in Nat
  BY <1>1, Structs
<1>3. /\ mem' = mem /\ mem' = [mem EXCEPT ![o] = mem[o]] /\ tagged' = Objects
      /\ Called(o, {"live", "leaving", "gone"})
      /\ Outcome(o, Stored, "gone", "leaving")
  BY <1>1 DEF Delete, RedisKey
<1> HIDE DEF psk
<1>4. /\ outOfTurn' \in SUBSET Objects /\ outOfTurn \subseteq outOfTurn'
      /\ \A q \in Objects : q # o => (q \in outOfTurn' <=> q \in outOfTurn)
      /\ o \notin outOfTurn' => /\ Indexed(o)
                                /\ store[o] # Nil => store[o].doc.key = psk
  BY <1>2, <1>3, CalledOn DEF OwnerRight
<1>5. ASSUME Stored, NEW p \in {"gone", "leaving"}, Goes(o, p), faults' \in Nat
      PROVE  IInv'
  <2>1. /\ store \in [RedisKeys -> Value \cup {Nil}] /\ o \in RedisKeys
        /\ chunk \in [Keys -> SUBSET RedisKeys] /\ told \in [Keys -> [Objects -> Nat]]
    BY Types
  <2>2. told' = [told EXCEPT ![psk][o] = 0]
    <3>1. Heard(told, RemMsg(o, psk)) = [told EXCEPT ![psk][o] = 0]
      BY <1>2, <2>1 DEF Heard, RemMsg
    <3> QED
      BY <1>5, <3>1
  <2>3. /\ told' \in [Keys -> [Objects -> Nat]]
        /\ \A l \in Keys, q \in Objects :
             told'[l][q] = IF l = psk /\ q = o THEN 0 ELSE told[l][q]
    BY <1>2, <2>1, <2>2, OneHeard
  <2>4. /\ chunk' \in [Keys -> SUBSET RedisKeys]
        /\ \A l \in Keys, q \in RedisKeys :
             q \in chunk'[l] <=> q \in chunk[l] /\ ~(q = o /\ l = psk)
    BY <1>2, <1>5, <2>1 DEF Removed
  <2>5. store'[o] = Nil /\ \A q \in RedisKeys : q # o => store'[q] = store[q]
    BY <1>5, <2>1
  <2>6. phase'[o] = p /\ \A q \in Objects : q # o => phase'[q] = phase[q]
    BY <1>1, <1>5 DEF Goes
  <2>7. TypeOK'
    BY <1>1, <1>3, <1>4, <1>5, <2>1, <2>3, <2>4 DEF IInv, TypeOK, Goes, Phase
  <2>8. Held(o)'
    BY <1>2, <1>3, <2>5, NilDoc DEF Held
  <2>9. o \notin outOfTurn' => Indexed(o)' /\ OwnerRight(o)'
    BY <1>4, <1>5, <2>3, <2>4, <2>5, <2>6, <2>1 DEF Indexed, OwnerRight
  <2> QED
    BY <1>3, <1>4, <2>3, <2>4, <2>5, <2>6, <2>7, <2>8, <2>9, OneObject
<1>6. CASE UNCHANGED dbVars /\ Goes(o, "leaving") /\ faults' \in Nat
  <2>1. "leaving" \in Phase /\ "leaving" \notin {"live", "new", "gone"}
    BY DEF Phase
  <2>2. mem[o].v >= mem[o].v
    BY <1>2
  <2> QED
    BY <1>1, <1>2, <1>3, <1>4, <1>6, <2>1, <2>2, NotExecuted
<1>7. faults + 1 \in Nat
  BY <1>1
<1> QED
  BY <1>1, <1>3, <1>5, <1>6, <1>7 DEF Outcome

(* What Load finds of an object is its one value.                          *)
LEMMA Loads ==
  ASSUME IInv, NEW o \in Objects
  PROVE  \A val \in Load(o) : val = store[o] /\ store[o] # Nil
<1>1. chunk \in [Keys -> SUBSET RedisKeys] /\ o # NoID
  BY Types
<1> SUFFICES ASSUME NEW val \in Load(o)
             PROVE  val = store[o] /\ store[o] # Nil
  OBVIOUS
<1>2. PICK r \in UNION {chunk[k] : k \in Keys} : store[r].id = o /\ val = store[r]
  BY DEF Load
<1>3. r \in RedisKeys /\ store[r] # Nil
  <2>1. PICK k \in Keys : r \in chunk[k]
    OBVIOUS
  <2> QED
    BY <1>1, <1>2, <2>1, NilDoc
<1>4. r \in Objects
  BY <1>3 DEF IInv, NoIDUnused, RedisKeys
<1> QED
  BY <1>2, <1>3, <1>4 DEF IInv, Held

(* Loading an object gives its owner what is stored of it.                 *)
LEMMA LoadAgainStep ==
  ASSUME IInv, NEW o \in Objects, LoadAgain(o)
  PROVE  IInv'
<1>1. PICK val \in Load(o) : mem' = [mem EXCEPT ![o] = Unmarshal(val.doc)]
  BY DEF LoadAgain
<1>2. /\ Goes(o, "live") /\ UNCHANGED <<tagged, outOfTurn, store, chunk, told, faults>>
  BY DEF LoadAgain, dbVars
<1>3. /\ mem \in [Objects -> Struct] /\ phase \in [Objects -> Phase]
      /\ store \in [RedisKeys -> Value \cup {Nil}] /\ o \in RedisKeys
  BY Types
<1>4. val = store[o] /\ store[o] # Nil /\ store[o].doc \in Doc
  BY <1>3, Loads, NotNil
<1> DEFINE s == Unmarshal(store[o].doc)
<1>5. s \in Struct /\ s.key = store[o].doc.key /\ s.v = store[o].doc.v /\ s.v \in Nat
  BY <1>4, Unmarshals
<1>6. mem' = [mem EXCEPT ![o] = s]
  BY <1>1, <1>4
<1> HIDE DEF s
<1>7. /\ mem'[o] = s /\ phase'[o] = "live"
      /\ \A q \in Objects : q # o => mem'[q] = mem[q] /\ phase'[q] = phase[q]
  BY <1>2, <1>3, <1>6 DEF Goes
<1>8. TypeOK'
  BY <1>2, <1>3, <1>5, <1>6 DEF IInv, TypeOK, Goes, Phase
<1>9. Held(o)'
  BY <1>2, <1>5, <1>7 DEF IInv, Held
<1>10. o \notin outOfTurn' => Indexed(o)' /\ OwnerRight(o)'
  BY <1>2, <1>4, <1>5, <1>7 DEF IInv, Indexed, OwnerRight
<1>11. tagged' = Objects
  BY <1>2 DEF IInv
<1> QED
  BY <1>2, <1>7, <1>8, <1>9, <1>10, <1>11, OneObject

-----------------------------------------------------------------------------
(* There is nothing at the start.                                          *)
LEMMA InitInv ==
  ASSUME Conditions, Init
  PROVE  IInv
<1>1. \A k \in Keys : NewStruct(k) \in Struct /\ NewStruct(k).v = 0
  BY DEF NewStruct, Struct, MaybeKey
<1>2. TypeOK
  BY <1>1, RedisAssumption DEF Init, TypeOK, Phase, RedisAssumption
<1>3. /\ \A r \in RedisKeys : store[r] = Nil
      /\ \A k \in Keys : chunk[k] = {} /\ \A o \in Objects : told[k][o] = 0
      /\ Objects \subseteq RedisKeys /\ NoID \in RedisKeys
  BY DEF Init, RedisKeys
<1>4. NoIDUnused
  BY <1>3 DEF NoIDUnused
<1>5. ASSUME NEW o \in Objects PROVE Held(o) /\ Indexed(o) /\ OwnerRight(o)
  <2>1. store[o] = Nil /\ phase[o] = "new" /\ mem[o].v = 0
    BY <1>1, <1>3 DEF Init
  <2> QED
    BY <1>3, <2>1, NilDoc DEF Held, Indexed, OwnerRight
<1> QED
  BY <1>2, <1>4, <1>5 DEF IInv, Init, Conditions

(* A step that changes nothing.                                            *)
LEMMA Stutter ==
  ASSUME IInv, UNCHANGED vars
  PROVE  IInv'
  BY DEF IInv, vars, history, dbVars, TypeOK, NoIDUnused, Held, Indexed, OwnerRight

(* The members of a set that stand for an object.                          *)
LEMMA OwnKey ==
  ASSUME IInv, NEW o \in Objects, NEW k \in Keys, NEW r \in chunk[k]
  PROVE  store[r].id = o <=> r = o /\ store[o] # Nil
<1>1. r \in Objects /\ o # NoID
  BY Types DEF IInv, NoIDUnused, RedisKeys
<1> QED
  BY <1>1, NilDoc DEF IInv, Held

(* The invariant implies the properties.                                   *)
LEMMA Implied ==
  ASSUME IInv
  PROVE  TypeOK /\ Findable /\ KeySets /\ LoadedAsTold
<1>1. Findable
  BY DEF Findable, IInv, Held
<1>2. KeySets
  BY DEF KeySets, IInv, Indexed, OwnerRight
<1>3. LoadedAsTold
  <2> SUFFICES ASSUME NEW o \in Objects \ outOfTurn, NEW k \in Keys
               PROVE  {store[r].doc.v : r \in {r \in chunk[k] : store[r].id = o}}
                        = IF told[k][o] = 0 THEN {} ELSE {told[k][o]}
    BY DEF LoadedAsTold
  <2>1. /\ o \in chunk[k] <=> store[o] # Nil /\ store[o].doc.key = k
        /\ told[k][o] = IF store[o] # Nil /\ store[o].doc.key = k THEN store[o].doc.v ELSE 0
    BY DEF IInv, Indexed
  <2>2. \A r \in chunk[k] : store[r].id = o <=> r = o /\ store[o] # Nil
    BY OwnKey
  <2>3. CASE o \in chunk[k]
    <3>1. told[k][o] = store[o].doc.v /\ store[o].doc.v > 0
      BY <2>1, <2>3 DEF IInv, Held
    <3>2. {r \in chunk[k] : store[r].id = o} = {o}
      BY <2>1, <2>2, <2>3
    <3> QED
      BY <3>1, <3>2
  <2>4. CASE o \notin chunk[k]
    <3>1. told[k][o] = 0
      BY <2>1, <2>4
    <3>2. {r \in chunk[k] : store[r].id = o} = {}
      BY <2>2, <2>4
    <3> QED
      BY <3>1, <3>2
  <2> QED
    BY <2>3, <2>4
<1> QED
  BY <1>1, <1>2, <1>3 DEF IInv

-----------------------------------------------------------------------------
(* The calls as steps of ObjectStore, which sees of redis where an object  *)
(* is found, until a call on it was out of turn.                           *)
Place == [o \in Objects |->
            {k \in Keys : o \notin outOfTurn /\ \E r \in chunk[k] : store[r].id = o}]
Version == [o \in Objects |-> IF o \in outOfTurn THEN 0 ELSE store[o].doc.v]
Gone == outOfTurn \cup {o \in Objects : phase[o] \notin {"new", "unborn"} /\ store[o] = Nil}

(* Loading finds an object under the key of its value, and nowhere else.   *)
FoundOnce ==
  Place = [o \in Objects |-> IF o \in outOfTurn \/ store[o] = Nil THEN {} ELSE {store[o].doc.key}]

LEMMA Places == IInv => FoundOnce
<1> SUFFICES ASSUME IInv, NEW o \in Objects
             PROVE  Place[o] = IF o \in outOfTurn \/ store[o] = Nil THEN {}
                               ELSE {store[o].doc.key}
  BY DEF FoundOnce, Place
<1>1. CASE o \in outOfTurn
  BY <1>1 DEF Place
<1>2. CASE o \notin outOfTurn
  <2>1. \A k \in Keys : (\E r \in chunk[k] : store[r].id = o) <=> o \in chunk[k] /\ store[o] # Nil
    BY OwnKey
  <2>2. \A k \in Keys : o \in chunk[k] <=> store[o] # Nil /\ store[o].doc.key = k
    BY <1>2 DEF IInv, Indexed
  <2>3. store[o] # Nil => store[o].doc.key \in Keys
    BY Types, NotNil DEF Doc
  <2>4. Place[o] = {k \in Keys : store[o] # Nil /\ store[o].doc.key = k}
    BY <1>2, <2>1, <2>2 DEF Place
  <2> QED
    BY <1>2, <2>3, <2>4
<1> QED
  BY <1>1, <1>2

LEMMA NextPlaces == IInv' => FoundOnce'
  BY Places, PTL

(* What redis holds of one object changes, or of none, and what its owner  *)
(* did.                                                                    *)
OnlyOf(o) ==
  \A q \in Objects : q # o => /\ store'[q] = store[q] /\ phase'[q] = phase[q]
                              /\ q \in outOfTurn' <=> q \in outOfTurn

LEMMA OneChange ==
  ASSUME IInv, IInv', NEW o \in Objects, OnlyOf(o)
  PROVE  /\ Version' = [Version EXCEPT ![o] = IF o \in outOfTurn' THEN 0 ELSE store'[o].doc.v]
         /\ Place' = [Place EXCEPT ![o] = IF o \in outOfTurn' \/ store'[o] = Nil THEN {}
                                          ELSE {store'[o].doc.key}]
         /\ \A q \in Objects : q # o => (q \in Gone' <=> q \in Gone)
         /\ Gone \subseteq Objects /\ Gone' \subseteq Objects
<1>1. Version' = [Version EXCEPT ![o] = IF o \in outOfTurn' THEN 0 ELSE store'[o].doc.v]
  <2>1. \A q \in Objects : (IF q \in outOfTurn' THEN 0 ELSE store'[q].doc.v)
                             = IF q = o THEN (IF o \in outOfTurn' THEN 0 ELSE store'[o].doc.v)
                               ELSE (IF q \in outOfTurn THEN 0 ELSE store[q].doc.v)
    BY DEF OnlyOf
  <2> QED
    BY <2>1 DEF Version
<1>2. Place = [q \in Objects |-> IF q \in outOfTurn \/ store[q] = Nil THEN {}
                                 ELSE {store[q].doc.key}]
  BY Places DEF FoundOnce
<1>3. Place' = [q \in Objects |-> IF q \in outOfTurn' \/ store'[q] = Nil THEN {}
                                  ELSE {store'[q].doc.key}]
  BY NextPlaces DEF FoundOnce
<1>4. Place' = [Place EXCEPT ![o] = IF o \in outOfTurn' \/ store'[o] = Nil THEN {}
                                    ELSE {store'[o].doc.key}]
  BY <1>2, <1>3 DEF OnlyOf
<1>5. outOfTurn \subseteq Objects /\ outOfTurn' \subseteq Objects
  BY DEF IInv, TypeOK
<1>6. \A q \in Objects : q # o => (q \in Gone' <=> q \in Gone)
  BY DEF Gone, OnlyOf
<1>7. Gone \subseteq Objects /\ Gone' \subseteq Objects
  BY <1>5 DEF Gone
<1> QED
  BY <1>1, <1>4, <1>6, <1>7

(* One call's step is enough: it stores a later version, takes away (the   *)
(* object, or with a call out of turn the promise about it), or leaves     *)
(* what redis holds of its object and whether there may be more.           *)
LEMMA StorePuts ==
  ASSUME IInv, IInv', NEW o \in Objects, OnlyOf(o),
         o \notin Gone, o \notin outOfTurn', store'[o] # Nil, store'[o].doc.v > store[o].doc.v
  PROVE  Store!Next
<1>1. store'[o].doc.key \in Keys /\ store'[o].doc.v \in Nat
  <2>1. store'[o] \in Value \cup {Nil}
    BY DEF IInv, TypeOK, RedisKeys
  <2> QED
    BY <2>1 DEF Value, Doc
<1>2. Gone' = Gone
  BY OneChange DEF Gone
<1>3. o \notin outOfTurn
  BY DEF Gone
<1>4. PICK k \in Keys : k = store'[o].doc.key
  BY <1>1
<1>5. Place' = [Place EXCEPT ![o] = {k}]
  BY <1>4, OneChange
<1>6. Version[o] = store[o].doc.v /\ Version'[o] = store'[o].doc.v
  BY <1>3 DEF Version
<1>7. Version' = [Version EXCEPT ![o] = Version'[o]]
  BY <1>6, OneChange
<1>8. Store!Put(o, k)
  BY <1>1, <1>2, <1>5, <1>6, <1>7 DEF Store!Put, Place, Version, Gone
<1> QED
  BY <1>8 DEF Store!Next

LEMMA StoreVanishes ==
  ASSUME IInv, IInv', NEW o \in Objects, OnlyOf(o), o \notin Gone,
         o \in outOfTurn' \/ (store'[o] = Nil /\ phase'[o] \notin {"new", "unborn"})
  PROVE  Store!Next
<1>1. o \in Gone'
  BY DEF Gone
<1>2. Gone' = Gone \cup {o}
  BY <1>1, OneChange
<1>3. Place' = [Place EXCEPT ![o] = {}] /\ Version' = [Version EXCEPT ![o] = 0]
  BY OneChange, NilDoc
<1>4. Store!Vanish(o)
  BY <1>2, <1>3 DEF Store!Vanish, Place, Version, Gone
<1> QED
  BY <1>4 DEF Store!Next

LEMMA StoreStays ==
  ASSUME IInv, IInv', NEW o \in Objects, OnlyOf(o), o \in Gone' <=> o \in Gone,
         \/ o \in Gone
         \/ store'[o] = store[o]
  PROVE  UNCHANGED Store!vars
<1>1. Gone' = Gone
  BY OneChange
<1>2. \/ o \in outOfTurn'
      \/ store'[o] = Nil /\ (o \in outOfTurn \/ store[o] = Nil)
      \/ o \notin outOfTurn /\ o \notin outOfTurn' /\ store'[o] = store[o]
  BY DEF Gone
<1>3. FoundOnce
  BY Places
<1>4. Version' = Version
  <2>1. Version[o] = IF o \in outOfTurn' THEN 0 ELSE store'[o].doc.v
    BY <1>2, NilDoc DEF Version, Gone
  <2>2. Version' = [Version EXCEPT ![o] = Version[o]]
    BY <2>1, OneChange
  <2> QED
    BY <2>2 DEF Version
<1>5. Place' = Place
  <2>1. Place[o] = IF o \in outOfTurn' \/ store'[o] = Nil THEN {} ELSE {store'[o].doc.key}
    BY <1>2, <1>3 DEF FoundOnce, Gone
  <2>2. Place' = [Place EXCEPT ![o] = Place[o]]
    BY <2>1, OneChange
  <2> QED
    BY <2>2 DEF Place
<1> QED
  BY <1>1, <1>4, <1>5 DEF Store!vars, Place, Version, Gone

(* A call out of turn ends the promise, or the promise had ended.          *)
LEMMA StoreOutOfTurn ==
  ASSUME IInv, IInv', NEW o \in Objects, OnlyOf(o), o \in outOfTurn'
  PROVE  [Store!Next]_(Store!vars)
<1>1. o \in Gone'
  BY DEF Gone
<1> QED
  BY <1>1, StoreStays, StoreVanishes

LEMMA StoreSet ==
  ASSUME IInv, NEW o \in Objects, NEW k \in Keys, Set(o, k)
  PROVE  UNCHANGED Store!vars
  BY DEF Set, history, dbVars, Store!vars

(* A call concerns one object: what it may do to redis, what is known of   *)
(* it after.                                                               *)
LEMMA CallOnly ==
  ASSUME IInv, NEW o \in Objects, NEW p \in Phase, NEW turn, NEW val,
         Called(o, turn), Goes(o, p),
         store' = [store EXCEPT ![o] = val] \/ store' = store
  PROVE  OnlyOf(o) /\ phase'[o] = p /\ (store'[o] = val \/ store'[o] = store[o])
<1>1. /\ phase \in [Objects -> Phase] /\ store \in [RedisKeys -> Value \cup {Nil}]
      /\ Objects \subseteq RedisKeys
  BY Types
<1>2. \A q \in Objects : q # o => (q \in outOfTurn' <=> q \in outOfTurn)
  BY CalledOn
<1> QED
  BY <1>1, <1>2 DEF OnlyOf, Goes

LEMMA StoreCreate ==
  ASSUME Conditions, IInv, IInv', NEW o \in Objects, Create(o)
  PROVE  [Store!Next]_(Store!vars)
<1> DEFINE k   == GetSubKey(mem[o])
           res == Resolve(mem[o])
           s   == TagSetSub(res, GetSubKey(res))
           Stored == /\ store[o] = Nil
                     /\ store' = [store EXCEPT ![o] = Json(o, s)]
                     /\ chunk' = Added(chunk, k, o)
                     /\ told' = Heard(told, AddMsg(o, k, NoKey, s.v))
<1>1. /\ Called(o, {"new", "unborn"})
      /\ \/ Outcome(o, Stored, "live", "unborn")
         \/ store[o] # Nil /\ Goes(o, "unborn") /\ UNCHANGED <<dbVars, faults>>
  BY Types DEF Create, RedisKey, Conditions
<1>2. s \in Struct
  BY Types, Structs, Setters
<1> HIDE DEF k, res, s
<1>3. PICK p \in {"live", "unborn"} :
        /\ Goes(o, p)
        /\ Stored \/ (UNCHANGED dbVars /\ p = "unborn")
  BY <1>1 DEF Outcome
<1>4. OnlyOf(o) /\ phase'[o] = p
  BY <1>1, <1>3, CallOnly DEF Phase, dbVars
<1>5. CASE o \in outOfTurn'
  BY <1>4, <1>5, StoreOutOfTurn
<1>6. CASE o \notin outOfTurn'
  <2>1. o \notin outOfTurn /\ phase[o] \in {"new", "unborn"}
    BY <1>1, <1>6, CalledOn
  <2>2. o \notin Gone
    BY <2>1 DEF Gone
  <2>3. CASE Stored
    <3>1. store'[o] = Json(o, s) /\ store'[o] # Nil /\ store[o].doc.v = 0
      BY <1>2, <2>3, Types, Values, NilDoc
    <3>2. store'[o].doc.v > 0
      BY <3>1 DEF IInv, Held
    <3> QED
      BY <1>4, <1>6, <2>2, <3>1, <3>2, StorePuts
  <2>4. CASE UNCHANGED dbVars /\ p = "unborn"
    <3>1. store'[o] = store[o] /\ o \notin Gone'
      BY <1>4, <1>6, <2>4 DEF Gone, dbVars
    <3> QED
      BY <1>4, <2>2, <3>1, StoreStays
  <2> QED
    BY <1>3, <2>3, <2>4
<1> QED
  BY <1>5, <1>6

LEMMA StoreModify ==
  ASSUME IInv, IInv', NEW o \in Objects, Modify(o)
  PROVE  [Store!Next]_(Store!vars)
<1> DEFINE s == Resolve(mem[o])
<1>1. /\ Called(o, {"live"})
      /\ Goes(o, "live") \/ Goes(o, "moving")
      /\ store' = [store EXCEPT ![o] = Json(o, s)] \/ store' = store
  BY Types DEF Modify, Outcome, RedisKey, dbVars
<1>2. s \in Struct /\ s.v = mem[o].v + 1 /\ mem[o].v \in Nat
  BY Types, Structs
<1> HIDE DEF s
<1>3. OnlyOf(o) /\ (store'[o] = Json(o, s) \/ store'[o] = store[o])
  BY <1>1, CallOnly DEF Phase
<1>4. CASE o \in outOfTurn'
  BY <1>3, <1>4, StoreOutOfTurn
<1>5. CASE o \notin outOfTurn'
  <2>1. o \notin outOfTurn /\ store[o] # Nil
    BY <1>1, <1>5, CalledOn DEF OwnerRight
  <2>2. o \notin Gone
    BY <2>1 DEF Gone
  <2>3. CASE store'[o] = Json(o, s)
    <3>1. store'[o] # Nil /\ store'[o].doc.v = mem[o].v + 1
      BY <1>2, <2>3, Values, Structs
    <3>2. store[o].doc.v <= mem[o].v /\ store[o].doc.v \in Nat
      BY <2>1, Types, NotNil DEF IInv, Held, Doc
    <3>3. store'[o].doc.v > store[o].doc.v
      BY <1>2, <3>1, <3>2
    <3> QED
      BY <1>3, <1>5, <2>2, <3>1, <3>3, StorePuts
  <2>4. CASE store'[o] = store[o]
    <3>1. o \notin Gone'
      BY <1>5, <2>1, <2>4 DEF Gone
    <3> QED
      BY <1>3, <2>2, <2>4, <3>1, StoreStays
  <2> QED
    BY <1>3, <2>3, <2>4
<1> QED
  BY <1>4, <1>5

LEMMA StoreDelete ==
  ASSUME IInv, IInv', NEW o \in Objects, Delete(o)
  PROVE  [Store!Next]_(Store!vars)
<1>1. /\ Called(o, {"live", "leaving", "gone"})
      /\ Goes(o, "gone") \/ Goes(o, "leaving")
      /\ store' = [store EXCEPT ![o] = Nil] \/ store' = store
  BY Types DEF Delete, Outcome, RedisKey, dbVars
<1>2. /\ OnlyOf(o) /\ (store'[o] = Nil \/ store'[o] = store[o])
      /\ phase'[o] \in {"gone", "leaving"}
  BY <1>1, CallOnly DEF Phase
<1>3. CASE o \in outOfTurn'
  BY <1>2, <1>3, StoreOutOfTurn
<1>4. CASE o \notin outOfTurn'
  <2>1. o \notin outOfTurn /\ phase[o] \in {"live", "leaving", "gone"}
    BY <1>1, <1>4, CalledOn
  <2>2. CASE store'[o] = Nil
    <3>1. o \in Gone'
      BY <1>2, <2>2 DEF Gone
    <3> QED
      BY <1>2, <2>2, <3>1, StoreStays, StoreVanishes
  <2>3. CASE store'[o] = store[o]
    <3>1. o \in Gone' <=> o \in Gone
      BY <1>2, <1>4, <2>1, <2>3 DEF Gone
    <3> QED
      BY <1>2, <2>3, <3>1, StoreStays
  <2> QED
    BY <1>2, <2>2, <2>3
<1> QED
  BY <1>3, <1>4

(* What is found is there, and its owner knows it then.                    *)
LEMMA StoreLoadAgain ==
  ASSUME IInv, IInv', NEW o \in Objects, LoadAgain(o)
  PROVE  [Store!Next]_(Store!vars)
<1>1. /\ store' = store /\ outOfTurn' = outOfTurn
      /\ Goes(o, "live") /\ phase \in [Objects -> Phase]
  BY Types DEF LoadAgain, dbVars
<1>2. store[o] # Nil
  BY Loads DEF LoadAgain
<1>3. OnlyOf(o)
  BY <1>1 DEF OnlyOf, Goes
<1>4. o \in Gone' <=> o \in Gone
  BY <1>1, <1>2 DEF Gone
<1> QED
  BY <1>1, <1>3, <1>4, StoreStays

LEMMA StoreInit ==
  ASSUME Init
  PROVE  Store!Init
<1>1. \A o \in Objects : store[o] = Nil /\ phase[o] = "new"
  BY DEF Init, RedisKeys
<1>2. outOfTurn = {} /\ \A k \in Keys : chunk[k] = {}
  BY DEF Init
<1> QED
  BY <1>1, <1>2 DEF Store!Init, Nil, NoDoc

-----------------------------------------------------------------------------
(* The invariant holds in every reachable state, if ids are set before     *)
(* Create and OnCreate moves nothing.                                      *)
THEOREM Invariance == ASSUME Conditions PROVE Spec => []IInv
<1>1. Init => IInv
  BY InitInv
<1>2. IInv /\ [Next]_vars => IInv'
  BY SetStep, CreateStep, ModifyStep, DeleteStep, LoadAgainStep, Stutter DEF Next
<1> QED
  BY <1>1, <1>2, PTL DEF Spec

(* Whatever redis holds is in the set of the key it names, in whatever     *)
(* order calls are made and whichever are lost (RedisSynk.go).             *)
THEOREM AllFindable == ASSUME Conditions PROVE Spec => []Findable
<1>1. IInv => Findable
  BY Implied
<1> QED
  BY Invariance, <1>1, PTL

(* Every object that is known to exist is in the set of its key, under its *)
(* own redis key, and in no other (RedisSynk.go), until a call on it is    *)
(* made out of turn.                                                       *)
THEOREM SetsRight == ASSUME Conditions PROVE Spec => []KeySets
<1>1. IInv => KeySets
  BY Implied
<1> QED
  BY Invariance, <1>1, PTL

(* What is loaded for a key is what its channel has told, whatever calls   *)
(* fail; of objects no call was made on out of turn.                       *)
THEOREM LoadingIsListening == ASSUME Conditions PROVE Spec => []LoadedAsTold
<1>1. IInv => LoadedAsTold
  BY Implied
<1> QED
  BY Invariance, <1>1, PTL

(* Every variable keeps its type.                                          *)
THEOREM TypeCorrect == ASSUME Conditions PROVE Spec => []TypeOK
<1>1. IInv => TypeOK
  BY Implied
<1> QED
  BY Invariance, <1>1, PTL

(* RedisSynk implements the Mutator's promise (Interfaces.go), whichever   *)
(* calls fail, executed or not: one place, later versions, no return.  It  *)
(* does so for an object until a call on it is made out of turn.           *)
THEOREM RedisIsAStore == ASSUME Conditions PROVE Spec => AsStore
<1>1. Init => Store!Init
  BY StoreInit
<1>2. IInv /\ IInv' /\ [Next]_vars => [Store!Next]_(Store!vars)
  <2> SUFFICES ASSUME IInv, IInv', [Next]_vars
               PROVE  [Store!Next]_(Store!vars)
    OBVIOUS
  <2>1. CASE UNCHANGED vars
    BY <2>1 DEF vars, history, dbVars, Store!vars
  <2>2. ASSUME NEW o \in Objects, NEW k \in Keys, Set(o, k)
        PROVE  [Store!Next]_(Store!vars)
    BY <2>2, StoreSet
  <2>3. ASSUME NEW o \in Objects, Create(o) \/ Modify(o) \/ Delete(o) \/ LoadAgain(o)
        PROVE  [Store!Next]_(Store!vars)
    BY <2>3, StoreCreate, StoreModify, StoreDelete, StoreLoadAgain
  <2> QED
    BY <2>1, <2>2, <2>3 DEF Next
<1> QED
  BY Invariance, <1>1, <1>2, PTL DEF Spec, AsStore, Store!Spec
=============================================================================
