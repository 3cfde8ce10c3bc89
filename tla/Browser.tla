------------------------------ MODULE Browser -------------------------------
(***************************************************************************)
(* The web client (synk-js), which is not part of the repository, modelled *)
(* from what the server expects of it (README.md, the message types of     *)
(* MongoSynk.go, the comments of Tag.go): it asks for subscription changes *)
(* and keeps a copy of every object in the keys it wants.  Versions decide *)
(* whether a message is news; a moved object stays if its new key is       *)
(* wanted; giving up a key drops its objects.                              *)
(***************************************************************************)
EXTENDS PubSub

CONSTANTS MayAdd,        \* keys a browser may ask for once connected
          MayRemove,     \* keys a browser may give up
          MaxRequests    \* bound on the updateSubscription messages of a browser

ASSUME BrowserAssumption == /\ MayAdd \subseteq Keys
                            /\ MayRemove \subseteq Keys
                            /\ MaxRequests \in Nat

VARIABLES
  wanted,    \* wanted[c]: the keys the browser of c has asked for
  view,      \* view[c][o]: its copy of o, NoView when it has none
  kept,      \* kept[c]: the keys it has wanted without interruption from the start
  asked      \* asked[c]: how many requests it has made

browserVars == <<wanted, view, kept, asked>>

View == [key: Keys, v: Nat]

NoView == [key |-> NoKey, v |-> 0]

Request == [add: SUBSET Keys, remove: SUBSET Keys]

BrowserInit(held) ==
  /\ wanted = held
  /\ view = [c \in Clients |-> [o \in Objects |-> NoView]]
  /\ kept = held
  /\ asked = [c \in Clients |-> 0]

BrowserTypeOK ==
  /\ wanted \in [Clients -> SUBSET Keys]
  /\ view \in [Clients -> [Objects -> View \cup {NoView}]]
  /\ kept \in [Clients -> SUBSET Keys]
  /\ asked \in [Clients -> Nat]

-----------------------------------------------------------------------------
(* What becomes of the copy w of the message's object in a browser that    *)
(* wants the keys ks.                                                      *)
Placed(w, k, v, ks) == IF k \in ks THEN [key |-> k, v |-> v] ELSE NoView

OnAdd(w, m, ks) ==
  IF m.skey \in ks /\ w.v < m.v THEN Placed(w, m.skey, m.v, ks) ELSE w

OnMod(w, m, ks) ==
  IF w # NoView /\ w.v < m.v
    THEN Placed(w, IF m.nskey = NoKey THEN m.skey ELSE m.nskey, m.v, ks)
    ELSE w

OnRem(w, m, ks) == NoView

Applied(w, m, ks) == CASE m.type = "add" -> OnAdd(w, m, ks)
                       [] m.type = "mod" -> OnMod(w, m, ks)
                       [] m.type = "rem" -> OnRem(w, m, ks)

(* Message m arrives at the browser of c.                                  *)
Receives(c, m) ==
  view' = [view EXCEPT ![c][m.id] = Applied(@, m, wanted[c])]

(* The add messages of the documents objs[o] arrive, one for each.         *)
ReceivesAll(c, objs) ==
  view' = [view EXCEPT ![c] =
    [o \in Objects |->
       IF objs[o] = NoDoc THEN view[c][o]
       ELSE Applied(view[c][o], AddMsg(o, objs[o].key, NoKey, objs[o].v), wanted[c])]]

(* The browser changes its mind about its keys; the request is r.          *)
Ask(c, r) ==
  /\ asked[c] < MaxRequests
  /\ r.add \subseteq MayAdd \ wanted[c]
  /\ r.remove \subseteq MayRemove \cap wanted[c]
  /\ r.add # {} \/ r.remove # {}
  /\ wanted' = [wanted EXCEPT ![c] = (@ \ r.remove) \cup r.add]
  /\ view' = [view EXCEPT ![c] =
       [o \in Objects |-> IF view[c][o].key \in r.remove THEN NoView ELSE view[c][o]]]
  /\ kept' = [kept EXCEPT ![c] = @ \ r.remove]
  /\ asked' = [asked EXCEPT ![c] = @ + 1]
=============================================================================
