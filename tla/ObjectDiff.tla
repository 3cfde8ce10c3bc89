----------------------------- MODULE ObjectDiff -----------------------------
(***************************************************************************)
(* The generated part of a synk object (stest/setters.go): its fields, and *)
(* a diff that holds one pointer per field.  The pointers are what can go  *)
(* wrong.  A setter points at a variable of its own, which nothing writes  *)
(* again; State and Init point into the live struct, whose fields Resolve  *)
(* writes; and Resolve returns the pointers, which are read only when the  *)
(* caller marshals the message (MongoSynk.go, addMsg and modMsg).          *)
(*                                                                         *)
(* A pointer in the diff at field f is therefore Nil, a value (a setter's  *)
(* variable that holds it), or a struct (field f of that struct).          *)
(*                                                                         *)
(* Copy is shallow.  The copy of an object whose diff points into a struct *)
(* (after Init, until the next Resolve) points into that struct too, and   *)
(* what is then done to the one is seen in the other.  The code does not   *)
(* prevent it; the history variable shared remembers such copies.          *)
(***************************************************************************)
EXTENDS Naturals

CONSTANTS Structs,     \* the structs that may be allocated
          Fields,      \* the fields of an object's type
          Values,      \* the values of a field
          Zero,        \* the one that memory is allocated with
          Nil,         \* the nil pointer
          MaxVersion   \* bound on the versions of an object

ASSUME PointerAssumption == /\ Nil \notin Values \cup Structs
                            /\ Values \cap Structs = {}
                            /\ Zero \in Values
                            /\ MaxVersion \in Nat

VARIABLES
  made,      \* the structs allocated so far
  field,     \* field[s][f]: the committed field f of s
  diff,      \* diff[s][f]: its pointer in the diff
  v,         \* v[s]: the version V of the embedded Tag
  out,       \* out[s]: the pointers the call in progress has still to marshal
  shown,     \* shown[s][f]: field f, as a client shows it that got every message
  shared     \* history: the copies that were made of objects whose diff
             \* pointed into a struct, and the copies of those

objVars == <<made, field, diff, v, out, shown, shared>>

Pointers == {Nil} \cup Values \cup Structs

NilDiff == [f \in Fields |-> Nil]

ObjInit ==
  /\ made = {}
  /\ field = [s \in Structs |-> [f \in Fields |-> Zero]]
  /\ diff = [s \in Structs |-> NilDiff]
  /\ v = [s \in Structs |-> 0]
  /\ out = [s \in Structs |-> NilDiff]
  /\ shown = field
  /\ shared = {}

ObjTypeOK ==
  /\ made \in SUBSET Structs
  /\ field \in [Structs -> [Fields -> Values]]
  /\ diff \in [Structs -> [Fields -> Pointers]]
  /\ v \in [Structs -> Nat]
  /\ out \in [Structs -> [Fields -> Pointers]]
  /\ shown \in [Structs -> [Fields -> Values]]
  /\ shared \in SUBSET Structs

-----------------------------------------------------------------------------
(* What pointer p of a diff points to, at field f.                         *)
Deref(p, f) == IF p \in Structs THEN field[p][f] ELSE p

(* vals with what the pointers of d point to, where they are not nil.      *)
Applied(vals, d) ==
  [f \in Fields |-> IF d[f] # Nil THEN Deref(d[f], f) ELSE vals[f]]

(* The getters, all fields at once.                                        *)
Get(s) == Applied(field[s], diff[s])

Changed(s) == diff[s] # NilDiff

(* Pointers to all the fields of s.                                        *)
State(s) == [f \in Fields |-> s]

(* No call is in progress on s: what Resolve returned has been marshalled. *)
Free(s) == s \in made /\ out[s] = NilDiff

-----------------------------------------------------------------------------
(* A faulty variant: a setter that finds a pointer in the diff writes       *)
(* through it, to save an allocation.                                      *)
SetThrough(s, f, x) ==
  /\ Free(s)
  /\ IF diff[s][f] \in Structs
       THEN /\ field' = [field EXCEPT ![diff[s][f]][f] = x]
            /\ UNCHANGED diff
       ELSE /\ diff' = [diff EXCEPT ![s][f] = IF x # field[s][f] THEN x ELSE Nil]
            /\ UNCHANGED field
  /\ UNCHANGED <<made, v, out, shown, shared>>

-----------------------------------------------------------------------------
(* A struct is allocated and filled, by a composite literal or by Load.    *)
New(s, vals) ==
  /\ s \notin made
  /\ made' = made \cup {s}
  /\ field' = [field EXCEPT ![s] = vals]
  /\ shown' = [shown EXCEPT ![s] = vals]
  /\ UNCHANGED <<diff, v, out, shared>>

(* SetX(v): a pointer to the setter's parameter, or nil.                   *)
Set(s, f, x) ==
  /\ Free(s)
  /\ diff' = [diff EXCEPT ![s][f] = IF x # field[s][f] THEN x ELSE Nil]
  /\ UNCHANGED <<made, field, v, out, shown, shared>>

(* All fields are in the diff, as pointers to themselves.                  *)
InitDiff(s) ==
  /\ Free(s)
  /\ diff' = [diff EXCEPT ![s] = State(s)]
  /\ UNCHANGED <<made, field, v, out, shown, shared>>

(* The diff is applied and cleared, a version counted.                     *)
Resolved(s) ==
  /\ field' = [field EXCEPT ![s] = Get(s)]
  /\ diff' = [diff EXCEPT ![s] = NilDiff]
  /\ v' = [v EXCEPT ![s] = @ + 1]

(* Resolve as Modify calls it: the message is made from the diff returned, *)
(* the pointers and not their values.                                      *)
ResolveToDiff(s) ==
  /\ Free(s)
  /\ v[s] < MaxVersion
  /\ Resolved(s)
  /\ out' = [out EXCEPT ![s] = diff[s]]
  /\ UNCHANGED <<made, shown, shared>>

(* Resolve as Create calls it: the message is made from State().           *)
ResolveToState(s) ==
  /\ Free(s)
  /\ v[s] < MaxVersion
  /\ Resolved(s)
  /\ out' = [out EXCEPT ![s] = State(s)]
  /\ UNCHANGED <<made, shown, shared>>

(* The message is marshalled: now the pointers are followed (a nil one is  *)
(* left out, omitempty), and clients apply what they are sent.             *)
Marshal(s) ==
  /\ s \in made
  /\ out[s] # NilDiff
  /\ shown' = [shown EXCEPT ![s] = Applied(@, out[s])]
  /\ out' = [out EXCEPT ![s] = NilDiff]
  /\ UNCHANGED <<made, field, diff, v, shared>>

(* A copy of s would have pointers into a struct, or values that came      *)
(* through such pointers.                                                  *)
Lent(s) == s \in shared \/ \E f \in Fields : diff[s][f] \in Structs

(* n := *o.  The pointers of the diff are copied, not what they point to.  *)
Copy(s, t) ==
  /\ Free(s)
  /\ t \notin made
  /\ made' = made \cup {t}
  /\ field' = [field EXCEPT ![t] = field[s]]
  /\ diff' = [diff EXCEPT ![t] = diff[s]]
  /\ v' = [v EXCEPT ![t] = v[s]]
  /\ shown' = [shown EXCEPT ![t] = shown[s]]
  /\ shared' = IF Lent(s) THEN shared \cup {t} ELSE shared
  /\ UNCHANGED out

=============================================================================
