----------------------------- MODULE ObjectStore ----------------------------
(***************************************************************************)
(* What a Mutator promises about objects (synk.Mutator, Interfaces.go), as *)
(* those see it who load them: an object is in one place at a time, moves  *)
(* from one to the next in one step, comes back only in a later version,   *)
(* and once deleted never comes back.  MongoSynk and RedisSynk implement   *)
(* this, each in its own way: TagSub and one document, a value and sets.   *)
(***************************************************************************)
EXTENDS Naturals

CONSTANTS Objects, Keys

VARIABLES
  place,     \* place[o]: the subscription keys that loading finds o in
  version,   \* version[o]: the version it finds, 0 when there is none
  gone       \* objects there will be no more

vars == <<place, version, gone>>

Init ==
  /\ place = [o \in Objects |-> {}]
  /\ version = [o \in Objects |-> 0]
  /\ gone = {}

(* Create puts o somewhere, Modify leaves it there or moves it: both make  *)
(* a later version.                                                        *)
Put(o, k) ==
  /\ o \notin gone
  /\ place' = [place EXCEPT ![o] = {k}]
  /\ version'[o] \in Nat
  /\ version'[o] > version[o]
  /\ version' = [version EXCEPT ![o] = version'[o]]
  /\ UNCHANGED gone

(* Delete; or o is given up, whatever becomes of it.                       *)
Vanish(o) ==
  /\ o \notin gone
  /\ place' = [place EXCEPT ![o] = {}]
  /\ version' = [version EXCEPT ![o] = 0]
  /\ gone' = gone \cup {o}

Next ==
  \E o \in Objects :
    \/ \E k \in Keys : Put(o, k)
    \/ Vanish(o)

Spec == Init /\ [][Next]_vars
=============================================================================
