----------------------------- MODULE PipeProofs -----------------------------
(***************************************************************************)
(* Proofs about Pipe and the objects it copies.                            *)
(***************************************************************************)
EXTENDS Pipe, TLAPS

(* The pointers of a struct's diff, and those a message will be made of,   *)
(* lead to that struct or to variables nobody writes, unless it is the     *)
(* copy of a struct whose diff pointed into a struct.                      *)
OwnPointers ==
  \A s \in Structs : s \notin shared =>
    \A f \in Fields : /\ diff[s][f] \in Structs => diff[s][f] = s
                      /\ out[s][f] \in Structs => out[s][f] = s

(* Clients show the committed values, once what the call in progress has   *)
(* to send is there; the pipe's calls leave clients behind.                *)
Current(s) == Applied(shown[s], out[s]) = field[s]

Told == \A s \in Structs \ shared : call[s] = "none" => Current(s)

(* Nothing is in progress on a struct that was not allocated.              *)
Unborn ==
  /\ shared \subseteq made
  /\ \A s \in Structs \ made : /\ out[s] = NilDiff /\ diff[s] = NilDiff
                               /\ field[s] = Blank /\ shown[s] = Blank /\ v[s] = 0

CallTypeOK ==
  /\ call \in [Structs -> Calls]
  /\ copy \in [Structs -> Structs \cup {Nil}]

ObjInv == ObjTypeOK /\ CallTypeOK /\ OwnPointers /\ Told /\ Unborn

-----------------------------------------------------------------------------
(* What a pointer leads to is a value, or Nil when it is nil.              *)
LEMMA DerefType ==
  ASSUME ObjTypeOK, NEW p \in Pointers, NEW f \in Fields
  PROVE  /\ Deref(p, f) \in Values \cup {Nil}
         /\ Deref(p, f) = Nil <=> p = Nil
BY PointerAssumption DEF ObjTypeOK, Deref, Pointers

LEMMA AppliedType ==
  ASSUME ObjTypeOK, NEW vals \in [Fields -> Values], NEW d \in [Fields -> Pointers]
  PROVE  Applied(vals, d) \in [Fields -> Values]
<1>1. \A f \in Fields : d[f] \in Pointers
  OBVIOUS
<1>2. \A f \in Fields : d[f] # Nil => Deref(d[f], f) \in Values
  BY <1>1, DerefType
<1> QED
  BY <1>2 DEF Applied

LEMMA GetType ==
  ASSUME ObjTypeOK, NEW s \in Structs
  PROVE  Get(s) \in [Fields -> Values]
BY AppliedType DEF ObjTypeOK, Get

LEMMA NilDiffType == NilDiff \in [Fields -> Pointers]
BY DEF NilDiff, Pointers

LEMMA StateType ==
  ASSUME NEW s \in Structs
  PROVE  State(s) \in [Fields -> Pointers]
BY DEF State, Pointers

-----------------------------------------------------------------------------
(* Types.  One fact per operation on objects.                              *)
LEMMA ResolvedType ==
  ASSUME ObjTypeOK, NEW s \in Structs, Resolved(s)
  PROVE  /\ field' \in [Structs -> [Fields -> Values]]
         /\ diff' \in [Structs -> [Fields -> Pointers]]
         /\ v' \in [Structs -> Nat]
<1>1. Get(s) \in [Fields -> Values]
  BY GetType
<1>2. NilDiff \in [Fields -> Pointers]
  BY NilDiffType
<1> QED
  BY <1>1, <1>2 DEF Resolved, ObjTypeOK

LEMMA ObjectTypes ==
  ASSUME ObjTypeOK, NEW s \in Structs
  PROVE  /\ \A vals \in [Fields -> Values] : New(s, vals) => ObjTypeOK'
         /\ \A f \in Fields, x \in Values : Set(s, f, x) => ObjTypeOK'
         /\ InitDiff(s) => ObjTypeOK'
         /\ ResolveToDiff(s) => ObjTypeOK'
         /\ ResolveToState(s) => ObjTypeOK'
         /\ ResolveOnly(s) => ObjTypeOK'
         /\ Marshal(s) => ObjTypeOK'
         /\ \A t \in Structs : Copy(s, t) => ObjTypeOK'
<1>1. ASSUME NEW vals \in [Fields -> Values], New(s, vals) PROVE ObjTypeOK'
  BY <1>1 DEF New, ObjTypeOK
<1>2. ASSUME NEW f \in Fields, NEW x \in Values, Set(s, f, x) PROVE ObjTypeOK'
  <2>1. (IF x # field[s][f] THEN x ELSE Nil) \in Pointers
    BY DEF Pointers
  <2>2. diff' \in [Structs -> [Fields -> Pointers]]
    BY <1>2, <2>1 DEF Set, ObjTypeOK
  <2> QED
    BY <1>2, <2>2 DEF Set, ObjTypeOK
<1>3. ASSUME InitDiff(s) PROVE ObjTypeOK'
  BY <1>3, StateType DEF InitDiff, ObjTypeOK
<1>4. ASSUME ResolveToDiff(s) PROVE ObjTypeOK'
  BY <1>4, ResolvedType DEF ResolveToDiff, ObjTypeOK
<1>5. ASSUME ResolveToState(s) PROVE ObjTypeOK'
  BY <1>5, ResolvedType, StateType DEF ResolveToState, ObjTypeOK
<1>6. ASSUME ResolveOnly(s) PROVE ObjTypeOK'
  BY <1>6, ResolvedType DEF ResolveOnly, ObjTypeOK
<1>7. ASSUME Marshal(s) PROVE ObjTypeOK'
  <2>1. Applied(shown[s], out[s]) \in [Fields -> Values]
    BY AppliedType DEF ObjTypeOK
  <2> QED
    BY <1>7, <2>1, NilDiffType DEF Marshal, ObjTypeOK
<1>8. ASSUME NEW t \in Structs, Copy(s, t) PROVE ObjTypeOK'
  BY <1>8 DEF Copy, ObjTypeOK
<1> QED
  BY <1>1, <1>2, <1>3, <1>4, <1>5, <1>6, <1>7, <1>8

-----------------------------------------------------------------------------
(* An operation that leaves a struct alone does not change what its        *)
(* pointers lead to: they lead nowhere else.                               *)
LEMMA Frame ==
  ASSUME ObjTypeOK, OwnPointers, NEW u \in Structs, u \notin shared, field'[u] = field[u]
  PROVE  /\ diff'[u] = diff[u] => Change'[u] = Change[u]
         /\ shown'[u] = shown[u] /\ out'[u] = out[u] => (Current(u) => Current(u)')
<1>1. \A f \in Fields : diff'[u] = diff[u] => Deref(diff[u][f], f)' = Deref(diff[u][f], f)
  BY DEF OwnPointers, Deref
<1>2. \A f \in Fields : out'[u] = out[u] => Deref(out[u][f], f)' = Deref(out[u][f], f)
  BY DEF OwnPointers, Deref
<1> QED
  BY <1>1, <1>2 DEF Change, Current, Applied

(* The same facts about each operation: what it is to those who use the    *)
(* object, that its pointers stay its own, and that clients keep up.       *)
LEMMA NewStep ==
  ASSUME ObjInv, NEW s \in Structs, NEW vals \in [Fields -> Values], New(s, vals)
  PROVE  /\ OwnPointers' /\ Unborn'
         /\ \A u \in Structs \ shared : Current(u) => Current(u)'
         /\ Abstract!Make(s, vals)
<1>1. /\ s \notin made /\ made' = made \cup {s} /\ diff' = diff /\ v' = v /\ out' = out
      /\ field' = [field EXCEPT ![s] = vals] /\ shown' = [shown EXCEPT ![s] = vals]
      /\ shared' = shared
  BY DEF New
<1>2. ObjTypeOK /\ OwnPointers /\ Unborn /\ s \notin shared
  BY <1>1 DEF ObjInv, Unborn
<1>3. \A u \in Structs \ {s} : field'[u] = field[u] /\ shown'[u] = shown[u]
  BY <1>1, <1>2 DEF ObjTypeOK
<1>4. field'[s] = vals /\ shown'[s] = vals /\ out'[s] = NilDiff /\ diff[s] = NilDiff
  BY <1>1, <1>2 DEF ObjTypeOK, Unborn
<1>5. OwnPointers' /\ Unborn'
  BY <1>1, <1>2, <1>3 DEF OwnPointers, Unborn
<1>6. Current(s)'
  BY <1>4 DEF Current, Applied, NilDiff
<1>7. \A u \in Structs \ shared : Current(u) => Current(u)'
  BY <1>1, <1>2, <1>3, <1>6, Frame
<1>8. \A u \in Structs \ shared : Change'[u] = Change[u]
  <2>1. Change'[s] = Change[s]
    BY <1>1, <1>4, PointerAssumption DEF Change, NilDiff, Deref
  <2> QED
    BY <1>1, <1>2, <1>3, <2>1, Frame
<1>9. Masked(Change, NilDiff)' = Masked(Change, NilDiff)
  BY <1>1, <1>8 DEF Masked
<1>10. /\ Masked(field, Blank)' = [Masked(field, Blank) EXCEPT ![s] = vals]
       /\ Masked(shown, Blank)' = [Masked(shown, Blank) EXCEPT ![s] = vals]
       /\ Masked(v, 0)' = Masked(v, 0)
  BY <1>1, <1>2, <1>3, <1>4 DEF Masked
<1> QED
  BY <1>1, <1>2, <1>5, <1>7, <1>9, <1>10 DEF Abstract!Make

LEMMA SetStep ==
  ASSUME ObjInv, NEW s \in Structs, NEW f \in Fields, NEW x \in Values, Set(s, f, x)
  PROVE  /\ OwnPointers' /\ Unborn'
         /\ \A u \in Structs \ shared : Current(u) => Current(u)'
         /\ IF s \in shared THEN UNCHANGED Abstract!vars ELSE Abstract!Set(s, f, x)
<1> DEFINE p == IF x # field[s][f] THEN x ELSE Nil
<1>1. /\ s \in made /\ made' = made /\ field' = field /\ out' = out /\ shown' = shown /\ v' = v
      /\ diff' = [diff EXCEPT ![s][f] = p] /\ shared' = shared
  BY DEF Set, Free
<1>2. diff \in [Structs -> [Fields -> Pointers]] /\ OwnPointers /\ Unborn /\ ObjTypeOK
  BY DEF ObjInv, ObjTypeOK
<1>3. p \notin Structs /\ p \in Pointers
  BY PointerAssumption DEF Pointers
<1>4. s \notin shared => p = IF x # Masked(field, Blank)[s][f] THEN x ELSE Nil
  BY DEF Masked
<1> HIDE DEF p
<1>5. OwnPointers'
  BY <1>1, <1>2, <1>3 DEF OwnPointers
<1>6. Unborn'
  BY <1>1, <1>2 DEF Unborn
<1>7. \A u \in Structs \ shared : Current(u) => Current(u)'
  BY <1>1, <1>2, Frame
<1>8. Change' = [Change EXCEPT ![s][f] = p]
  <2>1. \A u \in Structs, g \in Fields :
          Deref(diff[u][g], g)' = IF u = s /\ g = f THEN p ELSE Deref(diff[u][g], g)
    BY <1>1, <1>2, <1>3 DEF Deref
  <2> QED
    BY <2>1 DEF Change
<1>9. /\ Masked(field, Blank)' = Masked(field, Blank) /\ Masked(shown, Blank)' = Masked(shown, Blank)
      /\ Masked(v, 0)' = Masked(v, 0) /\ (made \ shared)' = made \ shared
  BY <1>1 DEF Masked
<1>10. CASE s \in shared
  <2>1. Masked(Change, NilDiff)' = Masked(Change, NilDiff)
    BY <1>1, <1>8, <1>10 DEF Masked, Change
  <2> QED
    BY <1>5, <1>6, <1>7, <1>9, <1>10, <2>1 DEF Abstract!vars
<1>11. CASE s \notin shared
  <2>1. Masked(Change, NilDiff)' = [Masked(Change, NilDiff) EXCEPT ![s][f] = p]
    BY <1>1, <1>8, <1>11 DEF Masked, Change
  <2> QED
    BY <1>1, <1>4, <1>5, <1>6, <1>7, <1>9, <1>11, <2>1 DEF Abstract!Set
<1> QED
  BY <1>10, <1>11

LEMMA InitStep ==
  ASSUME ObjInv, NEW s \in Structs, InitDiff(s)
  PROVE  /\ OwnPointers' /\ Unborn'
         /\ \A u \in Structs \ shared : Current(u) => Current(u)'
         /\ IF s \in shared THEN UNCHANGED Abstract!vars ELSE Abstract!Fill(s)
<1>1. /\ s \in made /\ made' = made /\ field' = field /\ out' = out /\ shown' = shown /\ v' = v
      /\ diff' = [diff EXCEPT ![s] = State(s)] /\ shared' = shared
  BY DEF InitDiff, Free
<1>2. /\ diff \in [Structs -> [Fields -> Pointers]] /\ field \in [Structs -> [Fields -> Values]]
      /\ OwnPointers /\ Unborn /\ ObjTypeOK
  BY DEF ObjInv, ObjTypeOK
<1>3. OwnPointers'
  BY <1>1, <1>2 DEF OwnPointers, State
<1>4. Unborn'
  BY <1>1, <1>2 DEF Unborn
<1>5. \A u \in Structs \ shared : Current(u) => Current(u)'
  BY <1>1, <1>2, Frame
<1>6. Change' = [Change EXCEPT ![s] = field[s]]
  <2>1. \A u \in Structs, g \in Fields :
          Deref(diff[u][g], g)' = IF u = s THEN field[s][g] ELSE Deref(diff[u][g], g)
    BY <1>1, <1>2 DEF Deref, State
  <2> QED
    BY <1>2, <2>1 DEF Change
<1>7. /\ Masked(field, Blank)' = Masked(field, Blank) /\ Masked(shown, Blank)' = Masked(shown, Blank)
      /\ Masked(v, 0)' = Masked(v, 0) /\ (made \ shared)' = made \ shared
  BY <1>1 DEF Masked
<1>8. CASE s \in shared
  <2>1. Masked(Change, NilDiff)' = Masked(Change, NilDiff)
    BY <1>1, <1>6, <1>8 DEF Masked, Change
  <2> QED
    BY <1>3, <1>4, <1>5, <1>7, <1>8, <2>1 DEF Abstract!vars
<1>9. CASE s \notin shared
  <2>1. Masked(Change, NilDiff)' = [Masked(Change, NilDiff) EXCEPT ![s] = Masked(field, Blank)[s]]
    BY <1>1, <1>6, <1>9 DEF Masked, Change
  <2> QED
    BY <1>1, <1>3, <1>4, <1>5, <1>7, <1>9, <2>1 DEF Abstract!Fill
<1> QED
  BY <1>8, <1>9

(* Resolve, whatever becomes of the diff it returns.                       *)
LEMMA ResolvedStep ==
  ASSUME ObjInv, NEW s \in Structs, Free(s), Resolved(s), UNCHANGED <<made, shown, shared>>
  PROVE  /\ field' = [field EXCEPT ![s] = Get(s)]
         /\ Get(s) \in [Fields -> Values]
         /\ diff' \in [Structs -> [Fields -> Pointers]]
         /\ \A u \in Structs : u \notin shared => \A f \in Fields : diff'[u][f] \in Structs => diff'[u][f] = u
         /\ \A u \in Structs \ made : /\ diff'[u] = NilDiff
                                     /\ field'[u] = Blank /\ shown'[u] = Blank /\ v'[u] = 0
         /\ IF s \in shared THEN UNCHANGED Abstract!vars ELSE Abstract!Resolve(s)
<1>1. /\ field' = [field EXCEPT ![s] = Get(s)]
      /\ diff' = [diff EXCEPT ![s] = NilDiff]
      /\ v' = [v EXCEPT ![s] = @ + 1]
      /\ s \in made /\ made' = made /\ shown' = shown /\ shared' = shared
  BY DEF Resolved, Free
<1>2. /\ diff \in [Structs -> [Fields -> Pointers]] /\ field \in [Structs -> [Fields -> Values]]
      /\ v \in [Structs -> Nat] /\ OwnPointers /\ Unborn /\ ObjTypeOK
  BY DEF ObjInv, ObjTypeOK
<1>3. Get(s) \in [Fields -> Values]
  BY <1>2, GetType
<1>4. diff' \in [Structs -> [Fields -> Pointers]]
  BY <1>1, <1>2, NilDiffType
<1>5. \A u \in Structs : u \notin shared => \A f \in Fields : diff'[u][f] \in Structs => diff'[u][f] = u
  BY <1>1, <1>2, PointerAssumption DEF OwnPointers, NilDiff
<1>6. \A u \in Structs \ made : /\ diff'[u] = NilDiff
                             /\ field'[u] = Blank /\ shown'[u] = Blank /\ v'[u] = 0
  BY <1>1, <1>2 DEF Unborn
<1>7. Get(s) = Abstract!Overlaid(field[s], Change[s])
  <2>1. \A f \in Fields : diff[s][f] \in Pointers
    BY <1>2
  <2>2. \A f \in Fields : Deref(diff[s][f], f) = Nil <=> diff[s][f] = Nil
    BY <1>2, <2>1, DerefType
  <2> QED
    BY <2>2 DEF Get, Applied, Abstract!Overlaid, Change
<1>8. \A u \in Structs \ (shared \cup {s}) : Change'[u] = Change[u]
  BY <1>1, <1>2, Frame
<1>9. Change'[s] = NilDiff
  <2>1. diff'[s] = NilDiff
    BY <1>1, <1>2
  <2> QED
    BY <2>1, PointerAssumption DEF Change, Deref, NilDiff
<1>10. Masked(shown, Blank)' = Masked(shown, Blank) /\ (made \ shared)' = made \ shared
  BY <1>1 DEF Masked
<1>11. CASE s \in shared
  <2>1. Masked(Change, NilDiff)' = Masked(Change, NilDiff)
    BY <1>1, <1>8, <1>11 DEF Masked
  <2>2. Masked(field, Blank)' = Masked(field, Blank) /\ Masked(v, 0)' = Masked(v, 0)
    BY <1>1, <1>2, <1>11 DEF Masked
  <2> QED
    BY <1>1, <1>3, <1>4, <1>5, <1>6, <1>10, <1>11, <2>1, <2>2 DEF Abstract!vars
<1>12. CASE s \notin shared
  <2>1. Masked(Change, NilDiff)' = [Masked(Change, NilDiff) EXCEPT ![s] = NilDiff]
    BY <1>1, <1>8, <1>9, <1>12 DEF Masked
  <2>2. Masked(field, Blank)' = [Masked(field, Blank) EXCEPT ![s] = Get(s)]
    BY <1>1, <1>2, <1>12 DEF Masked
  <2>3. Masked(v, 0)' = [Masked(v, 0) EXCEPT ![s] = @ + 1]
    BY <1>1, <1>2, <1>12 DEF Masked
  <2>4. Masked(field, Blank)[s] = field[s] /\ Masked(Change, NilDiff)[s] = Change[s]
    BY <1>12 DEF Masked
  <2>5. Abstract!Resolve(s)
    BY <1>1, <1>7, <1>10, <1>12, <2>1, <2>2, <2>3, <2>4 DEF Abstract!Resolve, Abstract!NoChange, NilDiff
  <2> QED
    BY <1>1, <1>3, <1>4, <1>5, <1>6, <1>12, <2>5
<1> QED
  BY <1>11, <1>12

LEMMA ResolveOnlyStep ==
  ASSUME ObjInv, NEW s \in Structs, ResolveOnly(s)
  PROVE  /\ OwnPointers' /\ Unborn' /\ shared' = shared
         /\ \A u \in Structs \ (shared \cup {s}) : Current(u) => Current(u)'
         /\ IF s \in shared THEN UNCHANGED Abstract!vars ELSE Abstract!Resolve(s)
<1>1. Free(s) /\ Resolved(s) /\ UNCHANGED <<made, shown, shared>> /\ out' = out
  BY DEF ResolveOnly
<1>2. /\ \A u \in Structs : u \notin shared => \A f \in Fields : diff'[u][f] \in Structs => diff'[u][f] = u
      /\ \A u \in Structs \ made : /\ diff'[u] = NilDiff
                                  /\ field'[u] = Blank /\ shown'[u] = Blank /\ v'[u] = 0
      /\ IF s \in shared THEN UNCHANGED Abstract!vars ELSE Abstract!Resolve(s)
  BY <1>1, ResolvedStep
<1>3. OwnPointers' /\ Unborn'
  BY <1>1, <1>2 DEF OwnPointers, Unborn, ObjInv
<1>4. \A u \in Structs \ {s} : field'[u] = field[u]
  BY <1>1 DEF Resolved, ObjInv, ObjTypeOK
<1>5. \A u \in Structs \ (shared \cup {s}) : Current(u) => Current(u)'
  BY <1>1, <1>4, Frame DEF ObjInv
<1> QED
  BY <1>1, <1>2, <1>3, <1>5

(* The pointers that are kept lead, once the diff is applied, to what      *)
(* clients lack.                                                           *)
LEMMA ResolveOutStep ==
  ASSUME ObjInv, NEW s \in Structs, s \notin shared => Current(s),
         ResolveToDiff(s) \/ ResolveToState(s)
  PROVE  /\ OwnPointers' /\ Unborn'
         /\ \A u \in Structs \ shared : Current(u) => Current(u)'
         /\ IF s \in shared THEN UNCHANGED Abstract!vars ELSE Abstract!Resolve(s)
<1>1. /\ Free(s) /\ Resolved(s) /\ UNCHANGED <<made, shown, shared>> /\ s \in made /\ out[s] = NilDiff
      /\ \/ out' = [out EXCEPT ![s] = diff[s]]
         \/ out' = [out EXCEPT ![s] = State(s)]
  BY DEF ResolveToDiff, ResolveToState, Free
<1>2. /\ diff \in [Structs -> [Fields -> Pointers]] /\ out \in [Structs -> [Fields -> Pointers]]
      /\ field \in [Structs -> [Fields -> Values]] /\ shown \in [Structs -> [Fields -> Values]]
      /\ OwnPointers /\ Unborn /\ ObjTypeOK
  BY DEF ObjInv, ObjTypeOK
<1>3. /\ field' = [field EXCEPT ![s] = Get(s)]
      /\ Get(s) \in [Fields -> Values]
      /\ \A u \in Structs : u \notin shared => \A f \in Fields : diff'[u][f] \in Structs => diff'[u][f] = u
      /\ \A u \in Structs \ made : /\ diff'[u] = NilDiff
                                  /\ field'[u] = Blank /\ shown'[u] = Blank /\ v'[u] = 0
      /\ IF s \in shared THEN UNCHANGED Abstract!vars ELSE Abstract!Resolve(s)
  BY <1>1, ResolvedStep
<1>4. s \notin shared => \A f \in Fields : out'[s][f] \in Structs => out'[s][f] = s
  <2>1. diff[s] \in [Fields -> Pointers] /\ State(s) = [f \in Fields |-> s]
    BY <1>2 DEF State
  <2>2. out'[s] = diff[s] \/ out'[s] = State(s)
    BY <1>1, <1>2
  <2>3. s \notin shared => \A f \in Fields : diff[s][f] \in Structs => diff[s][f] = s
    BY <1>2 DEF OwnPointers
  <2> QED
    BY <2>1, <2>2, <2>3
<1>5. \A u \in Structs \ {s} : out'[u] = out[u] /\ field'[u] = field[u] /\ shown'[u] = shown[u]
  BY <1>1, <1>2, <1>3
<1>6. OwnPointers' /\ Unborn'
  <2>1. \A u \in Structs : u \notin shared => \A f \in Fields : out'[u][f] \in Structs => out'[u][f] = u
    <3> SUFFICES ASSUME NEW u \in Structs, u \notin shared, NEW f \in Fields
                 PROVE  out'[u][f] \in Structs => out'[u][f] = u
      OBVIOUS
    <3>1. CASE u = s
      BY <1>4, <3>1
    <3>2. CASE u # s
      <4>1. out'[u] = out[u]
        BY <1>5, <3>2
      <4>2. out[u][f] \in Structs => out[u][f] = u
        BY <1>2 DEF OwnPointers
      <4> QED
        BY <4>1, <4>2
    <3> QED
      BY <3>1, <3>2
  <2>2. \A u \in Structs \ made : out'[u] = NilDiff
    BY <1>1, <1>2, <1>5 DEF Unborn
  <2>3. shared' = shared /\ made' = made /\ shared \subseteq made
    BY <1>1, <1>2 DEF Unborn
  <2> QED
    BY <1>3, <2>1, <2>2, <2>3 DEF OwnPointers, Unborn
<1>7. ASSUME s \notin shared PROVE Current(s)'
  <2>1. shown[s] = field[s]
    BY <1>1, <1>2, <1>7 DEF Current, Applied, NilDiff
  <2>2. CASE out' = [out EXCEPT ![s] = diff[s]]
    <3>1. shown'[s] = field[s] /\ out'[s] = diff[s] /\ field'[s] = Get(s)
      BY <1>1, <1>2, <1>3, <2>1, <2>2
    <3>2. \A f \in Fields : diff[s][f] # Nil => Deref(out[s][f], f)' = Get(s)[f]
      BY <1>2, <1>7, <3>1 DEF Deref, Get, Applied, OwnPointers
    <3>3. \A f \in Fields : diff[s][f] = Nil => field[s][f] = Get(s)[f]
      BY DEF Get, Applied
    <3>4. \A f \in Fields :
            (IF out'[s][f] # Nil THEN Deref(out[s][f], f)' ELSE shown'[s][f]) = Get(s)[f]
      BY <3>1, <3>2, <3>3
    <3>5. Applied(shown[s], out[s])' = Get(s)
      BY <1>3, <3>4 DEF Applied
    <3> QED
      BY <3>1, <3>5 DEF Current
  <2>3. CASE out' = [out EXCEPT ![s] = State(s)]
    BY <1>1, <1>2, <1>3, <2>3, PointerAssumption DEF Current, Applied, State, Deref
  <2> QED
    BY <1>1, <2>2, <2>3
<1>8. \A u \in Structs \ shared : Current(u) => Current(u)'
  <2>1. \A u \in Structs \ (shared \cup {s}) : Current(u) => Current(u)'
    BY <1>2, <1>5, Frame
  <2> QED
    BY <1>7, <2>1
<1> QED
  BY <1>3, <1>6, <1>8

LEMMA MarshalStep ==
  ASSUME ObjInv, NEW s \in Structs, s \notin shared => Current(s), Marshal(s)
  PROVE  /\ OwnPointers' /\ Unborn'
         /\ \A u \in Structs \ shared : Current(u) => Current(u)'
         /\ IF s \in shared THEN UNCHANGED Abstract!vars ELSE Abstract!Tell(s)
<1>1. /\ shown' = [shown EXCEPT ![s] = Applied(shown[s], out[s])]
      /\ out' = [out EXCEPT ![s] = NilDiff] /\ s \in made
      /\ made' = made /\ field' = field /\ diff' = diff /\ v' = v /\ shared' = shared
      /\ s \notin shared => Applied(shown[s], out[s]) = field[s]
  BY DEF Marshal, Current
<1>2. /\ out \in [Structs -> [Fields -> Pointers]] /\ shown \in [Structs -> [Fields -> Values]]
      /\ field \in [Structs -> [Fields -> Values]] /\ OwnPointers /\ Unborn /\ ObjTypeOK
  BY DEF ObjInv, ObjTypeOK
<1>3. OwnPointers' /\ Unborn'
  BY <1>1, <1>2, PointerAssumption DEF OwnPointers, Unborn, NilDiff
<1>4. s \notin shared => Current(s)'
  BY <1>1, <1>2 DEF Current, Applied, NilDiff
<1>5. \A u \in Structs \ shared : Current(u) => Current(u)'
  <2>1. \A u \in Structs \ (shared \cup {s}) : Current(u) => Current(u)'
    BY <1>1, <1>2, Frame
  <2> QED
    BY <1>4, <2>1
<1>6. Change' = Change
  BY <1>1 DEF Change, Deref
<1>7. /\ Masked(field, Blank)' = Masked(field, Blank) /\ Masked(v, 0)' = Masked(v, 0)
      /\ Masked(Change, NilDiff)' = Masked(Change, NilDiff) /\ (made \ shared)' = made \ shared
  BY <1>1, <1>6 DEF Masked
<1>8. CASE s \in shared
  <2>1. Masked(shown, Blank)' = Masked(shown, Blank)
    BY <1>1, <1>2, <1>8 DEF Masked
  <2> QED
    BY <1>3, <1>5, <1>7, <1>8, <2>1 DEF Abstract!vars
<1>9. CASE s \notin shared
  <2>1. Masked(shown, Blank)' = [Masked(shown, Blank) EXCEPT ![s] = Masked(field, Blank)[s]]
    BY <1>1, <1>2, <1>9 DEF Masked
  <2> QED
    BY <1>1, <1>3, <1>5, <1>7, <1>9, <2>1 DEF Abstract!Tell
<1> QED
  BY <1>8, <1>9

(* A copy is a copy to those who use it, or nobody is told of it.          *)
LEMMA CopyStep ==
  ASSUME ObjInv, NEW s \in Structs, NEW t \in Structs, Copy(s, t)
  PROVE  /\ OwnPointers' /\ Unborn' /\ shared \subseteq shared'
         /\ \A u \in Structs \ (shared' \cup {t}) : Current(u) => Current(u)'
         /\ t \notin shared' => s \notin shared /\ (Current(s) => Current(t)')
         /\ IF t \in shared' THEN UNCHANGED Abstract!vars ELSE Abstract!Copy(s, t)
<1>1. /\ s \in made /\ t \notin made /\ made' = made \cup {t} /\ out' = out /\ out[s] = NilDiff
      /\ field' = [field EXCEPT ![t] = field[s]]
      /\ diff' = [diff EXCEPT ![t] = diff[s]]
      /\ shown' = [shown EXCEPT ![t] = shown[s]]
      /\ v' = [v EXCEPT ![t] = v[s]]
      /\ shared' = IF Lent(s) THEN shared \cup {t} ELSE shared
  BY DEF Copy, Free
<1>2. /\ diff \in [Structs -> [Fields -> Pointers]] /\ field \in [Structs -> [Fields -> Values]]
      /\ shown \in [Structs -> [Fields -> Values]] /\ v \in [Structs -> Nat]
      /\ OwnPointers /\ Unborn /\ ObjTypeOK
  BY DEF ObjInv, ObjTypeOK
<1>3. t \notin shared /\ (t \in shared' <=> Lent(s))
  BY <1>1, <1>2 DEF Unborn
<1>4. ~Lent(s) => s \notin shared /\ \A f \in Fields : diff[s][f] \notin Structs
  BY DEF Lent
<1>5. OwnPointers'
  <2> SUFFICES ASSUME NEW u \in Structs, u \notin shared', NEW f \in Fields
               PROVE  /\ diff'[u][f] \in Structs => diff'[u][f] = u
                      /\ out'[u][f] \in Structs => out'[u][f] = u
    BY DEF OwnPointers
  <2>1. u \notin shared
    BY <1>1
  <2>2. out[u][f] \in Structs => out[u][f] = u
    BY <1>2, <2>1 DEF OwnPointers
  <2>3. CASE u = t
    BY <1>1, <1>2, <1>3, <1>4, <2>2, <2>3
  <2>4. CASE u # t
    BY <1>1, <1>2, <2>1, <2>2, <2>4 DEF OwnPointers
  <2> QED
    BY <2>3, <2>4
<1>6. Unborn'
  BY <1>1, <1>2 DEF Unborn
<1>7. \A u \in Structs \ (shared' \cup {t}) : Current(u) => Current(u)'
  BY <1>1, <1>2, Frame
<1>8. Current(s) => Current(t)'
  BY <1>1, <1>2 DEF Current, Applied, Unborn, NilDiff
<1>9. \A u \in Structs \ (shared \cup {t}) :
        /\ Change'[u] = Change[u] /\ field'[u] = field[u] /\ shown'[u] = shown[u] /\ v'[u] = v[u]
  BY <1>1, <1>2, Frame
<1>10. CASE t \in shared'
  <2>1. shared' = shared \cup {t}
    BY <1>1, <1>3, <1>10
  <2>2. field[t] = Blank /\ shown[t] = Blank /\ v[t] = 0 /\ diff[t] = NilDiff
    BY <1>1, <1>2 DEF Unborn
  <2>3. Change[t] = NilDiff
    BY <2>2, PointerAssumption DEF Change, Deref, NilDiff
  <2>4. /\ Masked(field, Blank)' = Masked(field, Blank) /\ Masked(shown, Blank)' = Masked(shown, Blank)
        /\ Masked(v, 0)' = Masked(v, 0) /\ Masked(Change, NilDiff)' = Masked(Change, NilDiff)
    BY <1>9, <2>1, <2>2, <2>3 DEF Masked
  <2>5. (made \ shared)' = made \ shared
    BY <1>1, <2>1
  <2> QED
    BY <1>1, <1>5, <1>6, <1>7, <1>10, <2>4, <2>5 DEF Abstract!vars
<1>11. CASE t \notin shared'
  <2>1. shared' = shared /\ s \notin shared /\ \A f \in Fields : diff[s][f] \notin Structs
    BY <1>1, <1>3, <1>4, <1>11
  <2>2. Change'[t] = Change[s]
    BY <1>1, <1>2, <2>1 DEF Change, Deref
  <2>3. field'[t] = field[s] /\ shown'[t] = shown[s] /\ v'[t] = v[s]
    BY <1>1, <1>2
  <2>4. /\ Masked(field, Blank)' = [Masked(field, Blank) EXCEPT ![t] = Masked(field, Blank)[s]]
        /\ Masked(shown, Blank)' = [Masked(shown, Blank) EXCEPT ![t] = Masked(shown, Blank)[s]]
        /\ Masked(v, 0)' = [Masked(v, 0) EXCEPT ![t] = Masked(v, 0)[s]]
        /\ Masked(Change, NilDiff)' = [Masked(Change, NilDiff) EXCEPT ![t] = Masked(Change, NilDiff)[s]]
    BY <1>3, <1>9, <1>11, <2>1, <2>2, <2>3 DEF Masked
  <2>5. (made \ shared)' = (made \ shared) \cup {t}
    BY <1>1, <1>3, <2>1
  <2> QED
    BY <1>1, <1>5, <1>6, <1>7, <1>8, <1>11, <2>1, <2>4, <2>5 DEF Abstract!Copy
<1> QED
  BY <1>10, <1>11

-----------------------------------------------------------------------------
(* The initial states, and the steps that leave the objects alone.         *)
LEMMA InitObj == Init => ObjInv /\ Abstract!Init
<1> SUFFICES ASSUME Init
             PROVE  ObjInv /\ Abstract!Init
  OBVIOUS
<1> USE DEF Init, ObjInit
<1>1. ObjTypeOK
  BY NilDiffType, PointerAssumption DEF ObjTypeOK
<1>2. CallTypeOK
  BY DEF CallTypeOK, Calls
<1>3. OwnPointers /\ Unborn
  BY PointerAssumption DEF OwnPointers, Unborn, NilDiff, Blank
<1>4. Told
  BY DEF Told, Current, Applied, NilDiff
<1>5. Masked(Change, NilDiff) = [s \in Structs |-> Abstract!NoChange]
  BY PointerAssumption DEF Masked, Change, Abstract!NoChange, NilDiff, Deref
<1>6. /\ Masked(field, Blank) = [s \in Structs |-> [f \in Fields |-> Zero]]
      /\ Masked(shown, Blank) = Masked(field, Blank)
      /\ Masked(v, 0) = [s \in Structs |-> 0]
  BY DEF Masked, Blank
<1> QED
  BY <1>1, <1>2, <1>3, <1>4, <1>5, <1>6 DEF ObjInv, Abstract!Init

LEMMA ObjStutter ==
  ASSUME ObjInv, UNCHANGED objVars, CallTypeOK',
         \A s \in Structs : call'[s] = "none" => call[s] = "none"
  PROVE  ObjInv' /\ UNCHANGED Abstract!vars
<1> USE DEF objVars
<1>1. ObjTypeOK' /\ OwnPointers' /\ Unborn'
  BY DEF ObjInv, ObjTypeOK, OwnPointers, Unborn
<1>2. Told'
  BY DEF ObjInv, Told, Current, Applied, Deref
<1>3. UNCHANGED Abstract!vars
  BY DEF Abstract!vars, Masked, Change, Deref
<1> QED
  BY <1>1, <1>2, <1>3 DEF ObjInv

(* An owner's own use of an object.                                        *)
LEMMA UseStep ==
  ASSUME ObjInv, NEW s \in Structs, Use(s), UNCHANGED callVars
  PROVE  ObjInv' /\ [Abstract!Next]_(Abstract!vars)
<1>1. /\ ObjTypeOK /\ CallTypeOK' /\ call' = call
      /\ (call[s] = "none" /\ s \notin shared => Current(s))
  BY DEF ObjInv, callVars, CallTypeOK, Told
<1>2. ASSUME OwnPointers' /\ Unborn' /\ shared' = shared, ObjTypeOK',
             \A u \in Structs \ shared : Current(u) => Current(u)'
      PROVE  ObjInv'
  BY <1>1, <1>2 DEF ObjInv, Told
<1>3. CASE \E vals \in [Fields -> Values] : New(s, vals)
  <2>1. PICK vals \in [Fields -> Values] : New(s, vals)
    BY <1>3
  <2>2. ObjTypeOK' /\ shared' = shared
    BY <1>1, <2>1, ObjectTypes DEF New
  <2>3. /\ OwnPointers' /\ Unborn' /\ Abstract!Make(s, vals)
        /\ \A u \in Structs \ shared : Current(u) => Current(u)'
    BY <2>1, NewStep
  <2> QED
    BY <1>2, <2>2, <2>3 DEF Abstract!Next
<1>4. CASE InitDiff(s)
  <2>1. ObjTypeOK' /\ shared' = shared
    BY <1>1, <1>4, ObjectTypes DEF InitDiff
  <2>2. /\ OwnPointers' /\ Unborn' /\ (Abstract!Fill(s) \/ UNCHANGED Abstract!vars)
        /\ \A u \in Structs \ shared : Current(u) => Current(u)'
    BY <1>4, InitStep
  <2> QED
    BY <1>2, <2>1, <2>2 DEF Abstract!Next
<1>5. CASE call[s] = "none" /\ (ResolveToDiff(s) \/ ResolveToState(s))
  <2>1. ObjTypeOK' /\ shared' = shared
    BY <1>1, <1>5, ObjectTypes DEF ResolveToDiff, ResolveToState
  <2>2. /\ OwnPointers' /\ Unborn' /\ (Abstract!Resolve(s) \/ UNCHANGED Abstract!vars)
        /\ \A u \in Structs \ shared : Current(u) => Current(u)'
    BY <1>1, <1>5, ResolveOutStep
  <2> QED
    BY <1>2, <2>1, <2>2 DEF Abstract!Next
<1>6. CASE call[s] = "none" /\ Marshal(s)
  <2>1. ObjTypeOK' /\ shared' = shared
    BY <1>1, <1>6, ObjectTypes DEF Marshal
  <2>2. /\ OwnPointers' /\ Unborn' /\ (Abstract!Tell(s) \/ UNCHANGED Abstract!vars)
        /\ \A u \in Structs \ shared : Current(u) => Current(u)'
    BY <1>1, <1>6, MarshalStep
  <2> QED
    BY <1>2, <2>1, <2>2 DEF Abstract!Next
<1>7. CASE call[s] = "none" /\ \E t \in Structs : Copy(s, t)
  <2>1. PICK t \in Structs : Copy(s, t)
    BY <1>7
  <2>2. ObjTypeOK'
    BY <1>1, <2>1, ObjectTypes
  <2>3. /\ OwnPointers' /\ Unborn' /\ (Abstract!Copy(s, t) \/ UNCHANGED Abstract!vars)
        /\ \A u \in Structs \ (shared' \cup {t}) : Current(u) => Current(u)'
        /\ shared \subseteq shared'
        /\ t \notin shared' => s \notin shared /\ (Current(s) => Current(t)')
    BY <2>1, CopyStep
  <2>4. t \notin shared' => Current(t)'
    BY <1>1, <1>7, <2>3
  <2>5. Told'
    BY <1>1, <2>3, <2>4 DEF ObjInv, Told
  <2> QED
    BY <1>1, <2>2, <2>3, <2>5 DEF ObjInv, Abstract!Next
<1>8. CASE \E f \in Fields, x \in Values : Set(s, f, x)
  <2>1. PICK f \in Fields, x \in Values : Set(s, f, x)
    BY <1>8
  <2>2. ObjTypeOK' /\ shared' = shared
    BY <1>1, <2>1, ObjectTypes DEF Set
  <2>3. /\ OwnPointers' /\ Unborn' /\ (Abstract!Set(s, f, x) \/ UNCHANGED Abstract!vars)
        /\ \A u \in Structs \ shared : Current(u) => Current(u)'
    BY <2>1, SetStep
  <2> QED
    BY <1>2, <2>2, <2>3 DEF Abstract!Next
<1> QED
  BY <1>3, <1>4, <1>5, <1>6, <1>7, <1>8 DEF Use

(* The pipe's calls: each copy is a Copy, each resolve a Resolve.          *)
LEMMA CopyForStep ==
  ASSUME ObjInv, NEW s \in Structs, NEW t \in Structs, NEW at \in Calls \ {"none"},
         CopyFor(s, t, at)
  PROVE  ObjInv' /\ [Abstract!Next]_(Abstract!vars)
<1>1. /\ Copy(s, t) /\ call' = [call EXCEPT ![s] = at, ![t] = "copy"]
      /\ copy' = [copy EXCEPT ![s] = t]
  BY DEF CopyFor
<1>2. ObjTypeOK'
  BY <1>1, ObjectTypes DEF ObjInv
<1>3. /\ OwnPointers' /\ Unborn' /\ (Abstract!Copy(s, t) \/ UNCHANGED Abstract!vars)
      /\ \A u \in Structs \ (shared' \cup {t}) : Current(u) => Current(u)'
      /\ shared \subseteq shared'
  BY <1>1, CopyStep
<1>4. CallTypeOK'
  BY <1>1 DEF ObjInv, CallTypeOK, Calls
<1>5. Told'
  BY <1>1, <1>3 DEF ObjInv, CallTypeOK, Told
<1> QED
  BY <1>2, <1>3, <1>4, <1>5 DEF ObjInv, Abstract!Next

LEMMA ResolveCall ==
  ASSUME ObjInv, NEW s \in Structs, NEW at \in Calls \ {"none"},
         ResolveOnly(s), Goes(s, at), UNCHANGED copy
  PROVE  ObjInv' /\ [Abstract!Next]_(Abstract!vars)
<1>1. ObjTypeOK'
  BY ObjectTypes DEF ObjInv
<1>2. /\ OwnPointers' /\ Unborn' /\ (Abstract!Resolve(s) \/ UNCHANGED Abstract!vars)
      /\ \A u \in Structs \ (shared \cup {s}) : Current(u) => Current(u)'
      /\ shared' = shared
  BY ResolveOnlyStep
<1>3. CallTypeOK' /\ Told'
  BY <1>2 DEF ObjInv, CallTypeOK, Told, Goes
<1> QED
  BY <1>1, <1>2, <1>3 DEF ObjInv, Abstract!Next

LEMMA CreateInitsStep ==
  ASSUME ObjInv, NEW s \in Structs, CreateInits(s)
  PROVE  ObjInv' /\ [Abstract!Next]_(Abstract!vars)
<1>1. InitDiff(copy[s]) /\ copy' = copy /\ call' = [call EXCEPT ![s] = "createSend"]
  BY DEF CreateInits, Goes
<1>2. copy[s] \in Structs /\ shared' = shared
  BY <1>1, PointerAssumption DEF InitDiff, Free, ObjInv, ObjTypeOK
<1>3. ObjTypeOK'
  BY <1>1, <1>2, ObjectTypes DEF ObjInv
<1>4. /\ OwnPointers' /\ Unborn' /\ (Abstract!Fill(copy[s]) \/ UNCHANGED Abstract!vars)
      /\ \A u \in Structs \ shared : Current(u) => Current(u)'
  BY <1>1, <1>2, InitStep
<1>5. CallTypeOK' /\ Told'
  BY <1>1, <1>2, <1>4 DEF ObjInv, CallTypeOK, Told, Calls
<1> QED
  BY <1>2, <1>3, <1>4, <1>5 DEF ObjInv, Abstract!Next

LEMMA ObjNext ==
  ASSUME ObjInv, [Next]_vars
  PROVE  ObjInv' /\ [Abstract!Next]_(Abstract!vars)
<1>1. CASE ObjectStep
  <2>1. PICK s \in Structs :
          \/ Use(s) /\ UNCHANGED callVars
          \/ Create(s)
          \/ \E t \in Structs : CreateCopies(s, t) \/ Modify(s, t) \/ Delete(s, t)
          \/ CreateInits(s)
          \/ HandOver(s)
          \/ ModifyResolves(s)
    BY <1>1 DEF ObjectStep
  <2>2. CASE Use(s) /\ UNCHANGED callVars
    BY <2>2, UseStep
  <2>3. CASE Create(s) \/ ModifyResolves(s)
    BY <2>3, ResolveCall DEF Create, ModifyResolves, Calls
  <2>4. CASE \E t \in Structs : CreateCopies(s, t) \/ Modify(s, t) \/ Delete(s, t)
    BY <2>4, CopyForStep DEF CreateCopies, Modify, Delete, Calls
  <2>5. CASE CreateInits(s)
    BY <2>5, CreateInitsStep
  <2>6. CASE HandOver(s)
    <3>1. CallTypeOK' /\ UNCHANGED objVars /\ \A u \in Structs : call'[u] = "none" => call[u] = "none"
      BY <2>6 DEF HandOver, Goes, ObjInv, CallTypeOK, Calls
    <3> QED
      BY <3>1, ObjStutter
  <2> QED
    BY <2>1, <2>2, <2>3, <2>4, <2>5, <2>6
<1>2. CASE UNCHANGED <<objVars, callVars>>
  BY <1>2, ObjStutter DEF callVars, ObjInv, CallTypeOK
<1> QED
  BY <1>1, <1>2 DEF Next, Exit, vars

(* For every number of objects, fields, values and commands: an execution  *)
(* of the pipe and the owners is one of objects that share nothing, as far *)
(* as the objects go that are no copies of initialised ones.               *)
THEOREM ObjectsAreValues == Spec => AsValues
<1>1. ObjInv /\ [Next]_vars => ObjInv'
  BY ObjNext
<1>2. ObjInv /\ [Next]_vars => [Abstract!Next]_(Abstract!vars)
  BY ObjNext
<1>3. Init => ObjInv /\ Abstract!Init
  BY InitObj
<1> QED
  BY <1>1, <1>2, <1>3, PTL DEF Spec, AsValues, Abstract!Spec

-----------------------------------------------------------------------------
(* What the copy of the call on s holds, from Copy on: the fields of s and *)
(* its diff, or all fields.  Its pointers may lead into s, if that was     *)
(* initialised; s is not written until it has been resolved.               *)
Handing == {"createInit", "createSend", "created", "modifySend", "modifyResolve",
            "modified", "deleteSend", "deleted"}

Returned == {"created", "modified", "deleted"}

Holds(s, t) == s \notin shared =>
  /\ call[s] \in {"createCopy", "createInit", "createSend"} => diff[s] = NilDiff
  /\ call[s] \in {"createInit", "createSend", "created"} => field[t] = field[s]
  /\ call[s] \in {"createSend", "created"} => diff[t] = State(t)
  /\ call[s] \in {"modifySend", "modifyResolve"} => field[t] = field[s] /\ diff[t] = diff[s]
  /\ call[s] \in {"modifySend", "modifyResolve", "modified", "deleteSend", "deleted"} =>
       field[t] = shown[s]
  /\ call[s] \in {"modifySend", "modifyResolve", "modified"} =>
       \A f \in Fields : diff[t][f] \in Structs => diff[t][f] = s
  /\ call[s] = "modified" => field[s] = Applied(field[t], diff[t])

(* A copy belongs to one call, and its owner is the channel's reader.      *)
Owned(s) ==
  /\ call[s] # "none" => s \in made
  /\ call[s] \in Handing => copy[s] \in made /\ call[copy[s]] = "copy"
  /\ call[s] \notin Handing => copy[s] = Nil

Distinct == \A s, u \in Structs : copy[s] = copy[u] /\ copy[s] # Nil => s = u

HandInv ==
  /\ \A s \in Structs : Owned(s) /\ Holds(s, copy[s])
  /\ Distinct

(* A step that leaves the object and its copy alone, but for setters once  *)
(* the call has returned.                                                  *)
LEMMA HandFrame ==
  ASSUME ObjTypeOK, CallTypeOK, NEW s \in Structs, Owned(s), Holds(s, copy[s]),
         call'[s] = call[s], copy'[s] = copy[s], made \subseteq made', shared \subseteq shared',
         call[s] # "none" => field'[s] = field[s] /\ shown'[s] = shown[s],
         call[s] \notin Returned \cup {"none"} => diff'[s] = diff[s],
         call[s] \in Handing => /\ field'[copy[s]] = field[copy[s]]
                               /\ diff'[copy[s]] = diff[copy[s]]
                               /\ call'[copy[s]] = call[copy[s]]
  PROVE  Owned(s)' /\ Holds(s, copy[s])'
<1>1. Owned(s)'
  BY DEF Owned
<1>2. ASSUME s \notin shared, call[s] = "modified" PROVE field[s]' = Applied(field[copy[s]], diff[copy[s]])'
  <2>1. /\ field'[s] = field[s] /\ field'[copy[s]] = field[copy[s]] /\ diff'[copy[s]] = diff[copy[s]]
        /\ copy'[s] = copy[s]
    BY <1>2 DEF Handing
  <2>2. /\ \A f \in Fields : diff[copy[s]][f] \in Structs => diff[copy[s]][f] = s
        /\ field[s] = Applied(field[copy[s]], diff[copy[s]])
    BY <1>2 DEF Holds
  <2>3. \A f \in Fields : Deref(diff[copy[s]][f], f)' = Deref(diff[copy[s]][f], f)
    BY <2>1, <2>2 DEF Deref
  <2> QED
    BY <2>1, <2>2, <2>3 DEF Applied
<1>3. Holds(s, copy[s])'
  BY <1>2 DEF Holds, Returned, Handing, State
<1> QED
  BY <1>1, <1>3

(* The invariant is what the property says of the pointers' targets.       *)
LEMMA HandOK == ObjInv /\ HandInv => HandedOver
<1> SUFFICES ASSUME ObjInv, HandInv, NEW s \in Structs, s \notin shared
             PROVE  /\ call[s] \in {"createSend", "modifySend", "modifyResolve"} =>
                          Applied(shown[s], diff[copy[s]]) = Get(s)
                    /\ call[s] \in {"created", "modified"} =>
                          Applied(shown[s], diff[copy[s]]) = field[s]
                    /\ call[s] \in {"modifySend", "modifyResolve", "modified", "deleteSend", "deleted"} =>
                          field[copy[s]] = shown[s]
  BY DEF HandedOver
<1> DEFINE t == copy[s]
<1>1. Owned(s) /\ Holds(s, t) /\ ObjTypeOK
  BY DEF HandInv, ObjInv
<1>2. call[s] \in Handing => t \in Structs
  BY <1>1 DEF Owned, ObjTypeOK
<1>3. field \in [Structs -> [Fields -> Values]]
  BY <1>1 DEF ObjTypeOK
<1> HIDE DEF t
<1>4. call[s] \in {"createSend", "created"} => Applied(shown[s], diff[t]) = field[s]
  BY <1>1, <1>2, <1>3, PointerAssumption DEF Holds, Handing, Applied, State, Deref
<1>5. call[s] = "createSend" => Get(s) = field[s]
  BY <1>1, <1>3 DEF Holds, Get, Applied, NilDiff
<1>6. call[s] \in {"modifySend", "modifyResolve"} => Applied(shown[s], diff[t]) = Get(s)
  BY <1>1 DEF Holds, Get
<1>7. call[s] = "modified" => Applied(shown[s], diff[t]) = field[s]
  BY <1>1 DEF Holds
<1>8. call[s] \in {"modifySend", "modifyResolve", "modified", "deleteSend", "deleted"} =>
        field[t] = shown[s]
  BY <1>1 DEF Holds
<1> QED
  BY <1>4, <1>5, <1>6, <1>7, <1>8 DEF t

(* A call returns, or has not begun: the owner's other uses of objects     *)
(* leave those alone that the pipe has.                                    *)
LEMMA HandUse ==
  ASSUME ObjInv, HandInv, NEW u \in Structs, Use(u), UNCHANGED callVars
  PROVE  HandInv'
<1>1. /\ ObjTypeOK /\ CallTypeOK /\ call' = call /\ copy' = copy
      /\ call[u] \in {"none"} \cup Returned
  BY DEF ObjInv, callVars, Use, Returned
<1>2. /\ made \subseteq made' /\ shared \subseteq shared'
      /\ \A x \in made \ {u} : field'[x] = field[x] /\ shown'[x] = shown[x] /\ diff'[x] = diff[x]
  <2>1. CASE \E t \in Structs : Copy(u, t)
    BY <1>1, <2>1 DEF Copy, ObjTypeOK
  <2>2. CASE ~ \E t \in Structs : Copy(u, t)
    BY <1>1, <2>2 DEF Use, New, Set, InitDiff, ResolveToDiff, ResolveToState, Resolved, Marshal, ObjTypeOK
  <2> QED
    BY <2>1, <2>2
<1>3. call[u] # "none" => field' = field /\ shown' = shown
  BY DEF Use, Set
<1>4. ASSUME NEW s \in Structs PROVE Owned(s)' /\ Holds(s, copy[s])'
  <2>1. Owned(s) /\ Holds(s, copy[s])
    BY DEF HandInv
  <2>2. call[s] \in Handing => copy[s] \in made /\ copy[s] # u
    BY <1>1, <2>1 DEF Owned, Returned
  <2>3. call[s] # "none" => s \in made
    BY <2>1 DEF Owned
  <2> QED
    BY <1>1, <1>2, <1>3, <2>1, <2>2, <2>3, HandFrame DEF Returned, Handing
<1> QED
  BY <1>1, <1>4 DEF HandInv, Distinct

(* Steps on one object's call, s; the others are left alone.               *)
LEMMA HandOthers ==
  ASSUME ObjInv, HandInv, NEW s \in Structs, made \subseteq made', UNCHANGED <<copy, shared>>, call[s] # "copy",
         \A u \in Structs \ {s} : call'[u] = call[u],
         \A u \in Structs \ {s, copy[s]} : field'[u] = field[u] /\ diff'[u] = diff[u],
         UNCHANGED shown,
         copy[s] \in Structs => field'[copy[s]] = field[copy[s]],
         Owned(s)' /\ Holds(s, copy[s])'
  PROVE  HandInv'
<1>1. ASSUME NEW u \in Structs, u # s PROVE Owned(u)' /\ Holds(u, copy[u])'
  <2>1. Owned(u) /\ Holds(u, copy[u]) /\ Owned(s) /\ ObjTypeOK /\ CallTypeOK
    BY DEF HandInv, ObjInv
  <2>2. CASE call[u] = "none"
    BY <1>1, <2>1, <2>2 DEF Owned, Holds, Handing
  <2>3. CASE copy[s] = u
    <3>1. call[u] = "copy"
      BY <2>1, <2>3, PointerAssumption DEF Owned
    <3> QED
      BY <1>1, <2>1, <3>1 DEF Owned, Holds, Handing
  <2>4. CASE call[u] # "none" /\ copy[s] # u
    <3>1. u \in Structs \ {s, copy[s]}
      BY <1>1, <2>4
    <3>2. call[u] \in Handing => copy[u] \in Structs \ {s, copy[s]}
      BY <1>1, <2>1, PointerAssumption DEF HandInv, Distinct, Owned, ObjTypeOK
    <3> QED
      BY <1>1, <2>1, <3>1, <3>2, HandFrame
  <2> QED
    BY <2>2, <2>3, <2>4
<1> QED
  BY <1>1 DEF HandInv, Distinct

LEMMA HandCopy ==
  ASSUME ObjInv, HandInv, NEW s \in Structs, NEW t \in Structs,
         CreateCopies(s, t) \/ Modify(s, t) \/ Delete(s, t)
  PROVE  HandInv'
<1>1. PICK at \in {"createInit", "modifySend", "deleteSend"} :
        /\ CopyFor(s, t, at)
        /\ call[s] = IF at = "createInit" THEN "createCopy" ELSE "none"
  BY DEF CreateCopies, Modify, Delete
<1>2. /\ s \in made /\ t \notin made /\ made' = made \cup {t} /\ out[s] = NilDiff
      /\ field' = [field EXCEPT ![t] = field[s]]
      /\ diff' = [diff EXCEPT ![t] = diff[s]]
      /\ shown' = [shown EXCEPT ![t] = shown[s]]
      /\ shared' \in {shared, shared \cup {t}}
      /\ call' = [call EXCEPT ![s] = at, ![t] = "copy"]
      /\ copy' = [copy EXCEPT ![s] = t]
  BY <1>1 DEF CopyFor, Copy, Free
<1>3. ObjTypeOK /\ CallTypeOK /\ \A u \in Structs : Owned(u) /\ Holds(u, copy[u])
  BY DEF ObjInv, HandInv
<1>4. call[t] = "none" /\ copy[t] = Nil /\ s # t
  BY <1>2, <1>3 DEF Owned, Handing
<1>5. call[s] = "none" /\ s \notin shared => shown[s] = field[s]
  BY <1>2, <1>3 DEF ObjInv, Told, Current, Applied, NilDiff, ObjTypeOK
<1>6. Owned(s)'
  BY <1>1, <1>2, <1>3, <1>4 DEF Owned, Handing, CallTypeOK, ObjTypeOK
<1>7. Holds(s, copy[s])'
  <2>1. /\ copy'[s] = t /\ call'[s] = at /\ field'[t] = field[s] /\ field'[s] = field[s]
        /\ diff'[t] = diff[s] /\ diff'[s] = diff[s] /\ shown'[s] = shown[s]
    BY <1>2, <1>3, <1>4 DEF CallTypeOK, ObjTypeOK
  <2>2. s \notin shared' => s \notin shared
    BY <1>2
  <2>3. at = "createInit" /\ s \notin shared => diff[s] = NilDiff
    BY <1>1, <1>3 DEF Holds
  <2>4. at # "createInit" /\ s \notin shared => shown[s] = field[s]
    BY <1>1, <1>5
  <2>5. s \notin shared => \A f \in Fields : diff[s][f] \in Structs => diff[s][f] = s
    BY DEF ObjInv, OwnPointers
  <2> QED
    BY <1>1, <1>2, <2>1, <2>2, <2>3, <2>4, <2>5 DEF Holds
<1>8. Owned(t)' /\ Holds(t, copy[t])'
  BY <1>2, <1>3, <1>4 DEF Owned, Holds, Handing, CallTypeOK, ObjTypeOK
<1>9. ASSUME NEW u \in Structs \ {s, t} PROVE Owned(u)' /\ Holds(u, copy[u])'
  <2>1. call'[u] = call[u] /\ copy'[u] = copy[u] /\ made \subseteq made' /\ shared \subseteq shared'
    BY <1>2, <1>3 DEF CallTypeOK
  <2>2. field'[u] = field[u] /\ shown'[u] = shown[u] /\ diff'[u] = diff[u]
    BY <1>2, <1>3 DEF ObjTypeOK
  <2>3. call[u] \in Handing => copy[u] \in Structs \ {s, t}
    BY <1>1, <1>2, <1>3 DEF Owned, ObjTypeOK
  <2>4. call[u] \in Handing => /\ field'[copy[u]] = field[copy[u]]
                              /\ diff'[copy[u]] = diff[copy[u]]
                              /\ call'[copy[u]] = call[copy[u]]
    BY <1>2, <1>3, <2>3 DEF CallTypeOK, ObjTypeOK
  <2> QED
    BY <1>3, <2>1, <2>2, <2>4, HandFrame
<1>10. Distinct'
  <2>1. \A u \in Structs : copy[u] # t
    BY <1>2, <1>3, PointerAssumption DEF Owned
  <2> QED
    BY <1>2, <1>3, <2>1 DEF HandInv, Distinct, CallTypeOK
<1> QED
  BY <1>6, <1>7, <1>8, <1>9, <1>10 DEF HandInv

LEMMA HandCreate ==
  ASSUME ObjInv, HandInv, NEW s \in Structs, Create(s)
  PROVE  HandInv'
<1>1. /\ call[s] = "none" /\ s \in made /\ made' = made /\ shown' = shown /\ copy' = copy
      /\ shared' = shared
      /\ field' = [field EXCEPT ![s] = Get(s)] /\ diff' = [diff EXCEPT ![s] = NilDiff]
      /\ call' = [call EXCEPT ![s] = "createCopy"]
  BY DEF Create, ResolveOnly, Resolved, Free, Goes
<1>2. ObjTypeOK /\ CallTypeOK /\ Owned(s)
  BY DEF ObjInv, HandInv
<1>3. copy[s] = Nil
  BY <1>1, <1>2 DEF Owned, Handing
<1>4. Owned(s)' /\ Holds(s, copy[s])'
  BY <1>1, <1>2, <1>3 DEF Owned, Holds, Handing, CallTypeOK, ObjTypeOK
<1> QED
  BY <1>1, <1>2, <1>3, <1>4, PointerAssumption, HandOthers DEF CallTypeOK, ObjTypeOK

LEMMA HandCreateInits ==
  ASSUME ObjInv, HandInv, NEW s \in Structs, CreateInits(s)
  PROVE  HandInv'
<1> DEFINE t == copy[s]
<1>1. /\ call[s] = "createInit" /\ made' = made /\ shown' = shown /\ copy' = copy /\ field' = field
      /\ diff' = [diff EXCEPT ![t] = State(t)] /\ shared' = shared
      /\ call' = [call EXCEPT ![s] = "createSend"]
  BY DEF CreateInits, InitDiff, Goes
<1>2. ObjTypeOK /\ CallTypeOK /\ Owned(s) /\ Holds(s, t)
  BY DEF ObjInv, HandInv
<1>3. t \in made /\ t \in Structs /\ t # s
  BY <1>1, <1>2 DEF Owned, Handing, ObjTypeOK
<1>4. diff'[t] = State(t) /\ (s \notin shared => diff'[s] = NilDiff /\ field[t] = field[s])
  BY <1>1, <1>2, <1>3 DEF Holds, ObjTypeOK
<1>5. Owned(s)'
  BY <1>1, <1>2, <1>3 DEF Owned, Handing, CallTypeOK
<1>6. Holds(s, copy[s])'
  BY <1>1, <1>2, <1>4 DEF Holds, CallTypeOK, State
<1> QED
  BY <1>1, <1>2, <1>3, <1>5, <1>6, HandOthers DEF CallTypeOK, ObjTypeOK

LEMMA HandHandOver ==
  ASSUME ObjInv, HandInv, NEW s \in Structs, HandOver(s)
  PROVE  HandInv'
<1>1. /\ UNCHANGED <<made, field, diff, shown, shared, copy>>
      /\ \/ call[s] = "createSend" /\ call' = [call EXCEPT ![s] = "created"]
         \/ call[s] = "modifySend" /\ call' = [call EXCEPT ![s] = "modifyResolve"]
         \/ call[s] = "deleteSend" /\ call' = [call EXCEPT ![s] = "deleted"]
  BY DEF HandOver, objVars, Goes
<1>2. ObjTypeOK /\ CallTypeOK /\ Owned(s) /\ Holds(s, copy[s])
  BY DEF ObjInv, HandInv
<1>3. copy[s] \in Structs /\ copy[s] # s /\ call[copy[s]] = "copy" /\ copy[s] \in made
  BY <1>1, <1>2 DEF Owned, Handing, ObjTypeOK
<1>4. Owned(s)'
  BY <1>1, <1>2, <1>3 DEF Owned, Handing, CallTypeOK
<1>5. Holds(s, copy[s])'
  BY <1>1, <1>2 DEF Holds, CallTypeOK, State
<1> QED
  BY <1>1, <1>2, <1>4, <1>5, HandOthers DEF CallTypeOK

LEMMA HandModifyResolves ==
  ASSUME ObjInv, HandInv, NEW s \in Structs, ModifyResolves(s)
  PROVE  HandInv'
<1> DEFINE t == copy[s]
<1>1. /\ call[s] = "modifyResolve" /\ s \in made /\ made' = made /\ shown' = shown /\ copy' = copy
      /\ shared' = shared
      /\ field' = [field EXCEPT ![s] = Get(s)] /\ diff' = [diff EXCEPT ![s] = NilDiff]
      /\ call' = [call EXCEPT ![s] = "modified"]
  BY DEF ModifyResolves, ResolveOnly, Resolved, Free, Goes
<1>2. ObjTypeOK /\ CallTypeOK /\ Owned(s) /\ Holds(s, t)
  BY DEF ObjInv, HandInv
<1>3. t \in made /\ t \in Structs /\ t # s /\ call[t] = "copy"
  BY <1>1, <1>2 DEF Owned, Handing, ObjTypeOK
<1>4. /\ field'[t] = field[t] /\ diff'[t] = diff[t] /\ field'[s] = Get(s) /\ call'[s] = "modified"
      /\ s \notin shared => /\ field[t] = shown[s] /\ field[t] = field[s] /\ diff[t] = diff[s]
                            /\ \A f \in Fields : diff[t][f] \in Structs => diff[t][f] = s
  BY <1>1, <1>2, <1>3 DEF Holds, CallTypeOK, ObjTypeOK
<1>5. ASSUME s \notin shared PROVE field[s]' = Applied(field[t], diff[t])'
  <2>1. \A f \in Fields : diff[t][f] # Nil => Deref(diff[t][f], f)' = Get(s)[f]
    <3>1. \A f \in Fields : diff[t][f] # Nil => Get(s)[f] = Deref(diff[s][f], f)
      BY <1>4, <1>5 DEF Get, Applied
    <3>2. ASSUME NEW f \in Fields, diff[t][f] \in Structs PROVE Deref(diff[t][f], f)' = Get(s)[f]
      BY <1>1, <1>4, <1>5, <3>1, <3>2, PointerAssumption DEF Deref
    <3>3. ASSUME NEW f \in Fields, diff[t][f] # Nil, diff[t][f] \notin Structs
          PROVE  Deref(diff[t][f], f)' = Get(s)[f]
      BY <1>1, <1>4, <1>5, <3>1, <3>3 DEF Deref
    <3> QED
      BY <3>2, <3>3
  <2>2. \A f \in Fields : diff[t][f] = Nil => field[t][f] = Get(s)[f]
    BY <1>4, <1>5 DEF Get, Applied
  <2>3. Get(s) \in [Fields -> Values]
    BY <1>2, GetType
  <2> QED
    BY <1>1, <1>4, <2>1, <2>2, <2>3 DEF Applied
<1>6. Owned(s)'
  BY <1>1, <1>2, <1>3 DEF Owned, Handing, CallTypeOK
<1>7. Holds(s, copy[s])'
  BY <1>1, <1>4, <1>5 DEF Holds
<1> QED
  BY <1>1, <1>2, <1>3, <1>4, <1>6, <1>7, HandOthers DEF CallTypeOK, ObjTypeOK

LEMMA HandNext ==
  ASSUME ObjInv, HandInv, [Next]_vars
  PROVE  HandInv'
<1>1. CASE ObjectStep
  <2>1. PICK s \in Structs :
          \/ Use(s) /\ UNCHANGED callVars
          \/ Create(s)
          \/ \E t \in Structs : CreateCopies(s, t) \/ Modify(s, t) \/ Delete(s, t)
          \/ CreateInits(s)
          \/ HandOver(s)
          \/ ModifyResolves(s)
    BY <1>1 DEF ObjectStep
  <2> QED
    BY <2>1, HandUse, HandCreate, HandCopy, HandCreateInits, HandHandOver, HandModifyResolves
<1>2. CASE UNCHANGED <<objVars, callVars>>
  BY <1>2 DEF objVars, callVars, HandInv, Distinct, Owned, Holds, State, Applied, Deref
<1> QED
  BY <1>1, <1>2 DEF Next, Exit, vars

(* Pipe.Create, Modify and Delete hand over what the clients lack, for     *)
(* every number of objects and callers.                                    *)
THEOREM CopiesSuffice == Spec => []HandedOver
<1>1. Init => ObjInv /\ HandInv
  <2>1. Init => HandInv
    BY DEF Init, ObjInit, HandInv, Owned, Holds, Distinct, Handing
  <2> QED
    BY <2>1, InitObj
<1>2. ObjInv /\ HandInv /\ [Next]_vars => ObjInv' /\ HandInv'
  BY ObjNext, HandNext
<1>3. ObjInv /\ HandInv => HandedOver
  BY HandOK
<1> QED
  BY <1>1, <1>2, <1>3, PTL DEF Spec

-----------------------------------------------------------------------------
(* While the pump runs, the commands executed, the one in hand and the     *)
(* ones in the channel are all that were published, in order.              *)
PumpInv ==
  /\ executed \in Seq(Nat) /\ hand \in Seq(Nat) /\ queue \in Seq(Nat) /\ published \in Nat
  /\ Len(hand) <= 1
  /\ NoHole
  /\ pump = "runs" =>
       /\ Len(executed) + Len(hand) + Len(queue) = published
       /\ \A i \in 1..Len(hand) : hand[i] = Len(executed) + i
       /\ \A i \in 1..Len(queue) : queue[i] = Len(executed) + Len(hand) + i

LEMMA PumpPublish == PumpInv /\ Publish => PumpInv'
<1> SUFFICES ASSUME PumpInv, Publish
             PROVE  PumpInv'
  OBVIOUS
<1>1. /\ queue \in Seq(Nat) /\ hand \in Seq(Nat) /\ executed \in Seq(Nat)
      /\ published' = published + 1 /\ published \in Nat
      /\ queue' = Append(queue, published + 1) /\ UNCHANGED <<hand, pump, executed>>
  BY DEF PumpInv, Publish
<1>2. /\ Len(queue) \in Nat /\ Len(hand) \in Nat /\ Len(executed) \in Nat
  BY <1>1
<1>3. /\ queue' \in Seq(Nat) /\ Len(queue') = Len(queue) + 1
      /\ \A i \in 1..Len(queue) : queue'[i] = queue[i]
      /\ queue'[Len(queue) + 1] = published + 1
  BY <1>1
<1>4. ASSUME pump = "runs"
      PROVE  /\ Len(executed) + Len(hand) + Len(queue') = published'
             /\ \A i \in 1..Len(queue') : queue'[i] = Len(executed) + Len(hand) + i
  <2>1. /\ Len(executed) + Len(hand) + Len(queue) = published
        /\ \A i \in 1..Len(queue) : queue[i] = Len(executed) + Len(hand) + i
    BY <1>4 DEF PumpInv
  <2>2. Len(executed) + Len(hand) + Len(queue') = published'
    <3>1. published = Len(executed) + Len(hand) + Len(queue) /\ published' = published + 1
      BY <1>1, <2>1
    <3>2. Len(queue') = Len(queue) + 1
      BY <1>3
    <3> QED
      BY <1>2, <3>1, <3>2
  <2>3. ASSUME NEW i \in 1..Len(queue') PROVE queue'[i] = Len(executed) + Len(hand) + i
    <3>1. CASE i \in 1..Len(queue)
      BY <1>3, <2>1, <3>1
    <3>2. CASE i = Len(queue) + 1
      BY <1>1, <1>2, <1>3, <2>1, <3>2
    <3> QED
      BY <1>2, <1>3, <2>3, <3>1, <3>2
  <2> QED
    BY <2>2, <2>3
<1> QED
  BY <1>1, <1>3, <1>4 DEF PumpInv, NoHole

LEMMA PumpTake == PumpInv /\ PumpTakes => PumpInv'
<1> SUFFICES ASSUME PumpInv, PumpTakes
             PROVE  PumpInv'
  OBVIOUS
<1>1. /\ queue \in Seq(Nat) /\ queue # <<>> /\ queue' = Tail(queue) /\ pump = "runs"
      /\ executed \in Seq(Nat)
      /\ hand = <<>> /\ hand' = <<Head(queue)>> /\ UNCHANGED <<published, pump, executed>>
  BY DEF PumpInv, PumpTakes
<1>2. /\ queue' \in Seq(Nat) /\ Len(queue') = Len(queue) - 1 /\ Len(queue) \in Nat \ {0}
      /\ \A i \in 1..Len(queue') : queue'[i] = queue[i + 1]
  BY <1>1
<1>3. Head(queue) = queue[1] /\ queue[1] \in Nat
  BY <1>1, <1>2
<1>4. hand' \in Seq(Nat) /\ Len(hand') = 1 /\ hand'[1] = queue[1]
  BY <1>1, <1>3
<1>5. Len(hand) = 0 /\ Len(executed) \in Nat
  BY <1>1
<1>6. /\ Len(executed) + Len(queue) = published
      /\ \A i \in 1..Len(queue) : queue[i] = Len(executed) + i
  BY <1>1, <1>2, <1>5 DEF PumpInv
<1>7. /\ Len(executed) + Len(hand') + Len(queue') = published
      /\ \A i \in 1..Len(hand') : hand'[i] = Len(executed) + i
      /\ \A i \in 1..Len(queue') : queue'[i] = Len(executed) + Len(hand') + i
  BY <1>2, <1>4, <1>5, <1>6
<1>8. NoHole'
  BY <1>1 DEF PumpInv, NoHole
<1> QED
  BY <1>1, <1>2, <1>4, <1>7, <1>8 DEF PumpInv

LEMMA PumpDo == PumpInv /\ PumpDoes => PumpInv'
<1> SUFFICES ASSUME PumpInv, PumpDoes
             PROVE  PumpInv'
  OBVIOUS
<1>1. /\ executed \in Seq(Nat) /\ hand \in Seq(Nat) /\ queue \in Seq(Nat) /\ published \in Nat
      /\ hand # <<>> /\ hand' = <<>> /\ pump = "runs" /\ UNCHANGED <<published, queue>>
      /\ \/ executed' = Append(executed, Head(hand))
         \/ pump' = "panics" /\ executed' = executed
  BY DEF PumpInv, PumpDoes
<1>2. /\ Len(executed) \in Nat /\ Len(queue) \in Nat
      /\ Len(hand) \in Nat \ {0} /\ Head(hand) = hand[1] /\ hand[1] \in Nat
  BY <1>1
<1>3. /\ Len(hand) = 1 /\ hand[1] = Len(executed) + 1
      /\ Len(executed) + 1 + Len(queue) = published
      /\ \A i \in 1..Len(queue) : queue[i] = Len(executed) + 1 + i
  <2>1. /\ Len(hand) <= 1
        /\ Len(executed) + Len(hand) + Len(queue) = published
        /\ \A i \in 1..Len(hand) : hand[i] = Len(executed) + i
        /\ \A i \in 1..Len(queue) : queue[i] = Len(executed) + Len(hand) + i
    BY <1>1 DEF PumpInv
  <2>2. Len(hand) = 1
    <3>1. Len(hand) <= 1
      BY <2>1
    <3>2. Len(hand) \in Nat /\ Len(hand) # 0
      BY <1>2
    <3>3. \A n \in Nat : n # 0 /\ n <= 1 => n = 1
      OBVIOUS
    <3> QED
      BY <3>1, <3>2, <3>3
  <2>3. hand[1] = Len(executed) + 1
    BY <2>1, <2>2
  <2>4. Len(executed) + 1 + Len(queue) = published
    BY <2>1, <2>2
  <2>5. \A i \in 1..Len(queue) : queue[i] = Len(executed) + 1 + i
    BY <2>1, <2>2
  <2> QED
    BY <2>2, <2>3, <2>4, <2>5
<1>4. hand' \in Seq(Nat) /\ Len(hand') = 0
  BY <1>1
<1>5. CASE executed' = Append(executed, Head(hand))
  <2>1. /\ executed' \in Seq(Nat) /\ Len(executed') = Len(executed) + 1
        /\ \A i \in 1..Len(executed) : executed'[i] = executed[i]
        /\ executed'[Len(executed) + 1] = Len(executed) + 1
    <3>1. executed \in Seq(Nat) /\ executed' = Append(executed, hand[1]) /\ hand[1] \in Nat
      BY <1>1, <1>2, <1>5
    <3>2. /\ executed' \in Seq(Nat) /\ Len(executed') = Len(executed) + 1
          /\ \A i \in 1..Len(executed) : executed'[i] = executed[i]
          /\ executed'[Len(executed) + 1] = hand[1]
      BY <3>1
    <3> QED
      BY <1>3, <3>2
  <2>2. NoHole'
    <3>1. \A i \in 1..Len(executed) : executed[i] = i
      BY DEF PumpInv, NoHole
    <3>2. \A i \in 1..Len(executed') : i \in 1..Len(executed) \/ i = Len(executed) + 1
      BY <1>2, <2>1
    <3> QED
      BY <2>1, <3>1, <3>2 DEF NoHole
  <2>3. /\ Len(executed') + Len(hand') + Len(queue') = published'
        /\ \A i \in 1..Len(hand') : hand'[i] = Len(executed') + i
        /\ \A i \in 1..Len(queue') : queue'[i] = Len(executed') + Len(hand') + i
    <3>1. /\ queue' = queue /\ published' = published
          /\ Len(executed') = Len(executed) + 1 /\ Len(hand') = 0
      BY <1>1, <1>4, <2>1
    <3>2. Len(executed') + Len(hand') = Len(executed) + 1
      BY <1>2, <3>1
    <3>3. \A i \in 1..Len(hand') : FALSE
      BY <3>1
    <3> QED
      BY <1>3, <3>1, <3>2, <3>3
  <2> QED
    BY <1>1, <1>4, <2>1, <2>2, <2>3 DEF PumpInv
<1>6. CASE pump' = "panics" /\ executed' = executed
  BY <1>1, <1>4, <1>6 DEF PumpInv, NoHole
<1> QED
  BY <1>1, <1>5, <1>6

(* For every capacity of toRedisChan and number of publishers: a failed    *)
(* command is the last one redis may have seen.                            *)
THEOREM InOrder == Spec => []NoHole
<1>1. Init => PumpInv
  BY DEF Init, PumpInv, NoHole
<1>2. PumpInv /\ [Next]_vars => PumpInv'
  <2>1. PumpInv /\ UNCHANGED pumpVars => PumpInv'
    BY DEF PumpInv, pumpVars, NoHole
  <2> QED
    BY <2>1, PumpPublish, PumpTake, PumpDo DEF Next, PumpStep, Exit, vars
<1>3. PumpInv => NoHole
  BY DEF PumpInv
<1> QED
  BY <1>1, <1>2, <1>3, PTL DEF Spec
=============================================================================
