---------------------------- MODULE ObjectValue -----------------------------
(***************************************************************************)
(* What a synk object is to those who use it (synk.Object, Interfaces.go): *)
(* committed values and changes not yet resolved.  Nothing is shared: what *)
(* is done to one object is seen in no other, copies included, and a       *)
(* listener who was given the object's state and every diff since shows    *)
(* its committed values.  There are no pointers here; ObjectDiff, which    *)
(* has them, implements this.                                              *)
(***************************************************************************)
EXTENDS Naturals

CONSTANTS Structs,   \* the objects in memory
          Fields,    \* the fields of an object
          Values,    \* the values of a field
          Zero,      \* the initial one
          Unset      \* "no pending change", not a value

VARIABLES
  there,     \* the objects made so far
  value,     \* value[s][f]: the committed value of field f
  change,    \* change[s][f]: its pending value, or Unset
  version,   \* version[s]: how often s has been resolved
  shown      \* shown[s]: the values a listener shows

vars == <<there, value, change, version, shown>>

NoChange == [f \in Fields |-> Unset]

(* The committed values once the pending ones are applied.                 *)
Overlaid(vals, chg) == [f \in Fields |-> IF chg[f] # Unset THEN chg[f] ELSE vals[f]]

Init ==
  /\ there = {}
  /\ value = [s \in Structs |-> [f \in Fields |-> Zero]]
  /\ change = [s \in Structs |-> NoChange]
  /\ version = [s \in Structs |-> 0]
  /\ shown = value

-----------------------------------------------------------------------------
(* A new object, or one that was loaded.                                   *)
Make(s, vals) ==
  /\ s \notin there
  /\ there' = there \cup {s}
  /\ value' = [value EXCEPT ![s] = vals]
  /\ shown' = [shown EXCEPT ![s] = vals]
  /\ UNCHANGED <<change, version>>

(* Setting the committed value takes a pending change back.                *)
Set(s, f, x) ==
  /\ s \in there
  /\ change' = [change EXCEPT ![s][f] = IF x # value[s][f] THEN x ELSE Unset]
  /\ UNCHANGED <<there, value, version, shown>>

(* All fields become part of the next diff, with their committed values.   *)
Fill(s) ==
  /\ s \in there
  /\ change' = [change EXCEPT ![s] = value[s]]
  /\ UNCHANGED <<there, value, version, shown>>

Resolve(s) ==
  /\ s \in there
  /\ value' = [value EXCEPT ![s] = Overlaid(@, change[s])]
  /\ change' = [change EXCEPT ![s] = NoChange]
  /\ version' = [version EXCEPT ![s] = @ + 1]
  /\ UNCHANGED <<there, shown>>

(* The listener has got the last diff.                                     *)
Tell(s) ==
  /\ s \in there
  /\ shown' = [shown EXCEPT ![s] = value[s]]
  /\ UNCHANGED <<there, value, change, version>>

(* t starts as s is, and is an object of its own from then on.             *)
Copy(s, t) ==
  /\ s \in there
  /\ t \notin there
  /\ there' = there \cup {t}
  /\ value' = [value EXCEPT ![t] = value[s]]
  /\ change' = [change EXCEPT ![t] = change[s]]
  /\ version' = [version EXCEPT ![t] = version[s]]
  /\ shown' = [shown EXCEPT ![t] = shown[s]]

Next ==
  \E s \in Structs :
    \/ \E vals \in [Fields -> Values] : Make(s, vals)
    \/ Fill(s) \/ Resolve(s) \/ Tell(s)
    \/ \E f \in Fields, x \in Values : Set(s, f, x)
    \/ \E t \in Structs : Copy(s, t)

Spec == Init /\ [][Next]_vars
=============================================================================
