----------------------------- MODULE SynkObject -----------------------------
(***************************************************************************)
(* The data every synk component shares: an object as its Go struct holds  *)
(* it in memory (the generated setters of stest/setters.go plus Tag.go),   *)
(* the MongoDB document made from it, and the three messages published     *)
(* about it (MongoSynk.go).                                                *)
(*                                                                         *)
(* An object's fields are abstracted to the one that matters to the        *)
(* library, its subscription key; its version V stands for the rest: one   *)
(* goroutine owns an object, so a version names one content.               *)
(***************************************************************************)
EXTENDS Naturals, Sequences

CONSTANTS Objects,     \* objects, named by their TagID
          Keys,        \* subscription keys (the chunks of the map)
          NoKey        \* "no subscription key": an unset field

ASSUME NoKeyAssumption == NoKey \notin Keys

MaybeKey == Keys \cup {NoKey}

-----------------------------------------------------------------------------
(* The struct in memory.  key is the committed SubKey field, diff the      *)
(* pending one (a nil pointer is NoKey), sub the TagSub of the embedded    *)
(* Tag, v its V.                                                           *)
Struct == [key: Keys, diff: MaybeKey, sub: MaybeKey, v: Nat]

NewStruct(k) == [key |-> k, diff |-> NoKey, sub |-> NoKey, v |-> 0]

GetPrevSubKey(s) == s.key

GetSubKey(s) == IF s.diff # NoKey THEN s.diff ELSE s.key

SetSubKey(s, k) == [s EXCEPT !.diff = IF k # s.key THEN k ELSE NoKey]

(* Applies the diff, clears it and counts a version, changed or not.       *)
Resolve(s) == [key |-> GetSubKey(s), diff |-> NoKey, sub |-> s.sub, v |-> s.v + 1]

TagSetSub(s, k) == [s EXCEPT !.sub = k]

-----------------------------------------------------------------------------
(* The document in the objects collection: the struct without its diff.    *)
(* Queries select on sub; the client rebuilds GetSubKey from key.          *)
Doc == [key: Keys, sub: MaybeKey, v: Nat]

NoDoc == [key |-> NoKey, sub |-> NoKey, v |-> 0]

Marshal(s) == [key |-> s.key, sub |-> s.sub, v |-> s.v]

(* A struct filled from a document: a diff is never stored.                *)
Unmarshal(d) == [key |-> d.key, diff |-> NoKey, sub |-> d.sub, v |-> d.v]

-----------------------------------------------------------------------------
(* Messages.  Each is published on the channel named by its skey.  from is *)
(* the "from <psk>" header of an add message about an object that moved;   *)
(* a rem message carries no version.                                       *)
Msg == [type: {"add", "mod", "rem"}, id: Objects, skey: Keys,
        nskey: MaybeKey, from: MaybeKey, v: Nat]

AddMsg(o, k, from, v) ==
  [type |-> "add", id |-> o, skey |-> k, nskey |-> NoKey, from |-> from, v |-> v]

ModMsg(o, psk, nsk, v) ==
  [type |-> "mod", id |-> o, skey |-> psk,
   nskey |-> IF nsk = psk THEN NoKey ELSE nsk, from |-> NoKey, v |-> v]

RemMsg(o, k) ==
  [type |-> "rem", id |-> o, skey |-> k, nskey |-> NoKey, from |-> NoKey, v |-> 0]
=============================================================================
