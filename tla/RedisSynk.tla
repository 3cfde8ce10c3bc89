----------------------------- MODULE RedisSynk ------------------------------
(***************************************************************************)
(* RedisSynk (RedisSynk.go, RedisScripts.go), the Mutator on redis alone.  *)
(* redis holds every object's JSON under its redis key, "type:id", and for *)
(* every subscription key the set of the redis keys in it.  A call is one  *)
(* script or one MULTI/EXEC: its writes and publishes happen together or   *)
(* not at all.  What a caller cannot know after an error is which.         *)
(*                                                                         *)
(* The calls look at nothing but the struct they are given: an owner may   *)
(* make any of them at any time.  Two history variables record what it     *)
(* did; no action reads them, except to keep them.  phase[o] is what the   *)
(* owner can tell of o from what its calls returned, and outOfTurn has the *)
(* objects it made a call on that this does not allow for: Create of one   *)
(* that was created, Modify of one that may be gone or may have moved,     *)
(* Delete of one that may be in another key than its struct says.  Only    *)
(* properties speak of them.                                               *)
(*                                                                         *)
(* Objects are of one type.  The redis key of an object is written as the  *)
(* object itself; computed before the object has an id, it is NoID.        *)
(***************************************************************************)
EXTENDS SynkObject

CONSTANTS NoID,         \* the redis key "type:", without an id
          Named,        \* objects whose TagID is set before Create
          Placed,       \* Placed[o]: the key OnCreate gives o; NoKey if it leaves it
          Moves,        \* the pairs <<k, l>> such that an object may go from k to l
          MaxVersion,   \* bound on the versions of an object
          MaxFaults     \* bound on connections lost during a call

ASSUME RedisAssumption == /\ NoID \notin Objects
                          /\ Named \subseteq Objects
                          /\ Placed \in [Objects -> MaybeKey]
                          /\ MaxVersion \in Nat
                          /\ MaxFaults \in Nat

VARIABLES
  mem,      \* mem[o]: the struct of object o in its owner's memory
  tagged,   \* objects whose TagID is set
  phase,    \* phase[o]: history, what the owner knows of o by what its calls returned
  outOfTurn, \* history: objects a call was made on out of turn
  store,    \* store[r]: the value at redis key r, Nil when there is none
  chunk,    \* chunk[k]: the set of redis keys kept for subscription key k
  told,     \* told[k][o]: the version of o someone has who listens to k only, 0 for none
  faults    \* connections lost so far

dbVars == <<store, chunk, told>>
history == <<phase, outOfTurn>>
vars == <<mem, tagged, history, dbVars, faults>>

RedisKeys == Objects \cup {NoID}

(* After an error: "unborn" of Create, "moving" of a Modify that moves,    *)
(* "leaving" of Delete.  A Modify in place that fails leaves the object    *)
(* where it is, so "live".                                                 *)
Phase == {"new", "unborn", "live", "moving", "leaving", "gone"}

Value == [id: Objects, doc: Doc]

Nil == [id |-> NoID, doc |-> NoDoc]

Init ==
  /\ mem \in [Objects -> {NewStruct(k) : k \in Keys}]
  /\ tagged = Named
  /\ phase = [o \in Objects |-> "new"]
  /\ outOfTurn = {}
  /\ store = [r \in RedisKeys |-> Nil]
  /\ chunk = [k \in Keys |-> {}]
  /\ told = [k \in Keys |-> [o \in Objects |-> 0]]
  /\ faults = 0

TypeOK ==
  /\ mem \in [Objects -> Struct]
  /\ tagged \in SUBSET Objects
  /\ phase \in [Objects -> Phase]
  /\ outOfTurn \in SUBSET Objects
  /\ store \in [RedisKeys -> Value \cup {Nil}]
  /\ chunk \in [Keys -> SUBSET RedisKeys]
  /\ told \in [Keys -> [Objects -> Nat]]
  /\ faults \in Nat

-----------------------------------------------------------------------------
(* Faulty variants of definitions below: each is a slip the checks must    *)
(* find.                                                                   *)

(* The JSON is made with the pending key, which is unset once resolved.    *)
JsonOfDiff(o, s) == [id |-> o, doc |-> [key |-> s.diff, sub |-> s.sub, v |-> s.v]]

(* The set of the previous key keeps the object.                           *)
RemovedNot(sets, k, r) == sets

-----------------------------------------------------------------------------
(* redisKey: what TypeKey and TagGetID give at this moment.                *)
RedisKey(o) == IF o \in tagged THEN o ELSE NoID

(* The JSON of struct s of object o.                                       *)
Json(o, s) == [id |-> o, doc |-> Marshal(s)]

(* PUBLISH, as one hears it who listens to channel m.skey and no other.    *)
Heard(t, m) ==
  [t EXCEPT ![m.skey][m.id] =
     CASE m.type = "add" -> m.v
       [] m.type = "mod" -> IF @ = 0 \/ m.nskey # NoKey THEN 0 ELSE m.v
       [] m.type = "rem" -> 0]

(* SREM, SADD                                                              *)
Removed(sets, k, r) == [sets EXCEPT ![k] = @ \ {r}]
Added(sets, k, r) == [sets EXCEPT ![k] = @ \cup {r}]

Goes(o, p) == phase' = [phase EXCEPT ![o] = p]

(* A call on o is made; by what the owner knows, its turn is in one of     *)
(* these phases.                                                           *)
Called(o, turn) == outOfTurn' = IF phase[o] \in turn THEN outOfTurn ELSE outOfTurn \cup {o}

(* A call returns no error and o is p; or the connection is lost, before   *)
(* redis executes it or after, and o is q.                                 *)
Outcome(o, Executed, p, q) ==
  \/ Executed /\ Goes(o, p) /\ UNCHANGED faults
  \/ /\ faults < MaxFaults
     /\ faults' = faults + 1
     /\ Goes(o, q)
     /\ Executed \/ UNCHANGED dbVars

-----------------------------------------------------------------------------
(* Faulty variants of the calls.                                           *)

(* Delete goes by the key an unresolved move leads to.                     *)
DeleteAtNewKey(o) ==
  LET r   == RedisKey(o)
      nsk == GetSubKey(mem[o])
      Stored == /\ store' = [store EXCEPT ![r] = Nil]
                /\ chunk' = Removed(chunk, nsk, r)
                /\ told' = Heard(told, RemMsg(o, nsk))
  IN  /\ Called(o, {"live", "leaving", "gone"})
      /\ UNCHANGED <<mem, tagged>>
      /\ Outcome(o, Stored, "gone", "leaving")

(* The script does not look whether the redis key exists.                  *)
CreateOverwrites(o) ==
  LET r == RedisKey(o)
      k == GetSubKey(mem[o])
      s == TagSetSub(Resolve(mem[o]), k)
      Stored == /\ store' = [store EXCEPT ![r] = Json(o, s)]
                /\ chunk' = Added(chunk, k, r)
                /\ told' = Heard(told, AddMsg(o, k, NoKey, s.v))
  IN  /\ mem[o].v < MaxVersion
      /\ Called(o, {"new", "unborn"})
      /\ mem' = [mem EXCEPT ![o] = s]
      /\ tagged' = tagged \cup {o}
      /\ Outcome(o, Stored, "live", "unborn")

(* A Modify in place leaves out the SADD that is "Redundant, but safer".   *)
ModifyAddsNot(o) ==
  LET r == RedisKey(o)
      k == GetPrevSubKey(mem[o])
      s == Resolve(mem[o])
      Stored == /\ store' = [store EXCEPT ![r] = Json(o, s)]
                /\ told' = Heard(told, ModMsg(o, k, k, s.v))
                /\ UNCHANGED chunk
  IN  /\ mem[o].v < MaxVersion /\ GetSubKey(mem[o]) = k
      /\ Called(o, {"live"})
      /\ mem' = [mem EXCEPT ![o] = s]
      /\ UNCHANGED tagged
      /\ Outcome(o, Stored, "live", "live")

-----------------------------------------------------------------------------
(* The owner sets the subscription key of o.                               *)
Set(o, k) ==
  /\ <<mem[o].key, k>> \in Moves \/ k = mem[o].key
  /\ mem' = [mem EXCEPT ![o] = SetSubKey(@, k)]
  /\ UNCHANGED <<tagged, history, dbVars, faults>>

(* redisNewObject.  The redis key and the subscription key are computed    *)
(* before TagInit and OnCreate.  The script does nothing where the redis   *)
(* key exists, and Create returns an error.  Its turn is when it has not   *)
(* returned without one.                                                   *)
Create(o) ==
  LET r   == RedisKey(o)
      k   == GetSubKey(mem[o])
      new == IF Placed[o] = NoKey THEN mem[o] ELSE SetSubKey(mem[o], Placed[o])
      res == Resolve(new)
      s   == TagSetSub(res, GetSubKey(res))
      Stored == /\ store[r] = Nil
                /\ store' = [store EXCEPT ![r] = Json(o, s)]
                /\ chunk' = Added(chunk, k, r)
                /\ told' = Heard(told, AddMsg(o, k, NoKey, s.v))
  IN  /\ mem[o].v < MaxVersion
      /\ Called(o, {"new", "unborn"})
      /\ mem' = [mem EXCEPT ![o] = s]
      /\ tagged' = tagged \cup {o}
      /\ \/ Outcome(o, Stored, "live", "unborn")
         \/ store[r] # Nil /\ Goes(o, "unborn") /\ UNCHANGED <<dbVars, faults>>

(* redisModObject.  Whether the object exists is not looked at, nor        *)
(* whether it is in the key its struct says.                               *)
Modify(o) ==
  LET r   == RedisKey(o)
      psk == GetPrevSubKey(mem[o])
      nsk == GetSubKey(mem[o])
      s   == Resolve(mem[o])
      mod == Heard(told, ModMsg(o, psk, nsk, s.v))
      Stored == /\ store' = [store EXCEPT ![r] = Json(o, s)]
                /\ \/ /\ psk = nsk
                      /\ chunk' = Added(chunk, nsk, r)
                      /\ told' = mod
                   \/ /\ psk # nsk
                      /\ chunk' = Added(Removed(chunk, psk, r), nsk, r)
                      /\ told' = Heard(mod, AddMsg(o, nsk, psk, s.v))
  IN  /\ mem[o].v < MaxVersion
      /\ Called(o, {"live"})
      /\ mem' = [mem EXCEPT ![o] = s]
      /\ UNCHANGED tagged
      /\ Outcome(o, Stored, "live", IF psk = nsk THEN "live" ELSE "moving")

(* redisDelObject: an unresolved move does not count.                      *)
Delete(o) ==
  LET r   == RedisKey(o)
      psk == GetPrevSubKey(mem[o])
      Stored == /\ store' = [store EXCEPT ![r] = Nil]
                /\ chunk' = Removed(chunk, psk, r)
                /\ told' = Heard(told, RemMsg(o, psk))
  IN  /\ Called(o, {"live", "leaving", "gone"})
      /\ UNCHANGED <<mem, tagged>>
      /\ Outcome(o, Stored, "gone", "leaving")

(* RedisRequestObjects for all subscription keys: what redis holds of o.   *)
Load(o) == {store[r] : r \in {r \in UNION {chunk[k] : k \in Keys} : store[r].id = o}}

(* The owner loads o, if it is found, and goes on with the struct that     *)
(* RedisRequestObjects made.                                               *)
LoadAgain(o) ==
  /\ \E val \in Load(o) : mem' = [mem EXCEPT ![o] = Unmarshal(val.doc)]
  /\ Goes(o, "live")
  /\ UNCHANGED <<tagged, outOfTurn, dbVars, faults>>

Next ==
  \E o \in Objects :
    \/ \E k \in Keys : Set(o, k)
    \/ Create(o)
    \/ Modify(o)
    \/ Delete(o)
    \/ LoadAgain(o)

Spec == Init /\ [][Next]_vars

-----------------------------------------------------------------------------
(* Whatever redis holds can be loaded: the key a stored object names is    *)
(* one whose set it is in.  This holds of every order of calls, out of     *)
(* turn or not, and whichever of them are lost (RedisSynk.go adds to the   *)
(* set in every Modify: "Redundant, but safer").                           *)
Findable ==
  \A o \in Objects : store[o] # Nil => o \in chunk[store[o].doc.key]

(* The sets are right (RedisSynk.go: a set "saves a redisKey for all the   *)
(* objects in that subscription set", in the format "typeKey:objectID"):   *)
(* an object whose owner knows it to exist is in the set of its key, under *)
(* its own redis key, and in no other; one that does not exist is in none. *)
(* That is so as long as no call on it was out of turn: a Modify made      *)
(* after a move that was lost, without loading the object first, leaves it *)
(* in the sets of two keys.                                                *)
KeySets ==
  \A o \in Objects \ outOfTurn, k \in Keys :
    /\ phase[o] = "live" => (o \in chunk[k] <=> k = mem[o].key)
    /\ phase[o] \in {"new", "gone"} => o \notin chunk[k]

(* Loading and listening agree: what is loaded for a key is what someone   *)
(* has who has listened to its channel all the time, every object once, in *)
(* its latest version, whichever calls are lost.  A Create, a Delete or a  *)
(* Modify in place may be made again after an error; a Modify that moves   *)
(* may not, unless the object was loaded since.                            *)
LoadedAsTold ==
  \A o \in Objects \ outOfTurn, k \in Keys :
    {store[r].doc.v : r \in {r \in chunk[k] : store[r].id = o}}
      = IF told[k][o] = 0 THEN {} ELSE {told[k][o]}

(* To those who load them, objects behave as a Mutator promises, whatever  *)
(* connections are lost: an object is found in the set of one key at a     *)
(* time, in ever later versions, and once it was deleted, by a call that   *)
(* returned or by one that did not, it is not found again.  The promise is *)
(* to the owner of an object who makes its calls in turn: it ends with the *)
(* first call out of turn, where ObjectStore counts the object as gone.    *)
(* (Modify does put an object back that is not there.)                     *)
Store == INSTANCE ObjectStore
  WITH place <- [o \in Objects |->
                   {k \in Keys : o \notin outOfTurn /\ \E r \in chunk[k] : store[r].id = o}],
       version <- [o \in Objects |-> IF o \in outOfTurn THEN 0 ELSE store[o].doc.v],
       gone <- outOfTurn \cup
               {o \in Objects : phase[o] \notin {"new", "unborn"} /\ store[o] = Nil}

AsStore == Store!Spec
=============================================================================
