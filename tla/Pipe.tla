-------------------------------- MODULE Pipe --------------------------------
(***************************************************************************)
(* Pipe (Pipe.go), the mutator that does not wait for the database, as it  *)
(* is while it is being migrated: Create, Modify and Delete hand a copy of *)
(* the object to MutateRedisChan, an unbuffered channel whose reader       *)
(* panics on the first object it gets; Publish queues a command that one   *)
(* goroutine sends to redis, in order, until the first error.  Either      *)
(* goroutine ends the whole process; until it has, the others go on.       *)
(*                                                                         *)
(* Objects that never meet the pipe are used as MongoSynk does, one call   *)
(* at a time: New, Set, Init, Resolve and the message made of it, Copy.    *)
(***************************************************************************)
EXTENDS ObjectDiff, Sequences

CONSTANTS Capacity,      \* the room in toRedisChan
          MaxPublished   \* bound on the commands published

ASSUME PipeAssumption == Capacity \in Nat \ {0} /\ MaxPublished \in Nat

VARIABLES
  call,       \* call[s]: how far the pipe's call on s is
  copy,       \* copy[s]: the copy that call hands over, or Nil
  reader,     \* the goroutine that reads MutateRedisChan
  published,  \* how many commands were put into toRedisChan, numbered from 1
  queue,      \* toRedisChan
  hand,       \* the command its reader has taken and not finished, if any
  pump,       \* the goroutine that reads toRedisChan
  executed,   \* the commands redis has executed
  alive       \* the process has not ended

callVars == <<call, copy, reader>>
pumpVars == <<published, queue, hand, pump, executed>>
vars == <<objVars, callVars, pumpVars, alive>>

Calls == {"none",                                       \* no call on it yet
          "createCopy", "createInit", "createSend", "created",
          "modifySend", "modifyResolve", "modified",
          "deleteSend", "deleted",
          "copy"}                                       \* it is a copy handed over

Init ==
  /\ ObjInit
  /\ call = [s \in Structs |-> "none"]
  /\ copy = [s \in Structs |-> Nil]
  /\ reader = "waiting"
  /\ published = 0
  /\ queue = <<>>
  /\ hand = <<>>
  /\ pump = "runs"
  /\ executed = <<>>
  /\ alive = TRUE

-----------------------------------------------------------------------------
Goes(s, at) == call' = [call EXCEPT ![s] = at]

(* The call on s copies it to t.                                           *)
CopyFor(s, t, at) ==
  /\ Copy(s, t)
  /\ call' = [call EXCEPT ![s] = at, ![t] = "copy"]
  /\ copy' = [copy EXCEPT ![s] = t]
  /\ UNCHANGED reader

(* Resolve, when the caller has no use for the diff.                       *)
ResolveOnly(s) ==
  /\ Free(s)
  /\ Resolved(s)
  /\ UNCHANGED <<made, out, shown, shared>>

-----------------------------------------------------------------------------
(* Faulty variants: each is a slip the checks must find.                   *)

(* The copy is not initialised before it is sent.                          *)
CreateSkipsInit(s) ==
  /\ call[s] = "createInit"
  /\ Goes(s, "createSend")
  /\ UNCHANGED <<objVars, copy, reader>>

(* The goroutine returns after an error: nobody reads the channel, and     *)
(* the process lives on.                                                   *)
PumpReturns ==
  /\ pump = "runs"
  /\ hand # <<>>
  /\ \/ executed' = Append(executed, Head(hand)) /\ pump' \in {"runs", "gone"}
     \/ pump' = "gone" /\ UNCHANGED executed
  /\ hand' = <<>>
  /\ UNCHANGED <<published, queue>>

(* An error is logged, and the next command sent.                          *)
PumpGoesOn ==
  /\ pump = "runs"
  /\ hand # <<>>
  /\ executed' \in {executed, Append(executed, Head(hand))}
  /\ hand' = <<>>
  /\ UNCHANGED <<published, queue, pump>>

-----------------------------------------------------------------------------
(* Create: the fields set so far are resolved and their diff dropped; the  *)
(* copy is initialised so that all its fields are sent.                    *)
Create(s) ==
  /\ call[s] = "none"
  /\ v[s] < MaxVersion
  /\ ResolveOnly(s)
  /\ Goes(s, "createCopy")
  /\ UNCHANGED <<copy, reader>>

CreateCopies(s, t) == call[s] = "createCopy" /\ CopyFor(s, t, "createInit")

CreateInits(s) ==
  /\ call[s] = "createInit"
  /\ InitDiff(copy[s])
  /\ Goes(s, "createSend")
  /\ UNCHANGED <<copy, reader>>

(* Modify: the object is copied and handed over, and only then resolved.   *)
Modify(s, t) == call[s] = "none" /\ Changed(s) /\ CopyFor(s, t, "modifySend")

ModifyResolves(s) ==
  /\ call[s] = "modifyResolve"
  /\ ResolveOnly(s)
  /\ Goes(s, "modified")
  /\ UNCHANGED <<copy, reader>>

(* Delete: unresolved, clients have the object in its previous key.        *)
Delete(s, t) == call[s] = "none" /\ CopyFor(s, t, "deleteSend")

(* The caller and the channel's reader meet; the reader panics.            *)
HandOver(s) ==
  /\ reader = "waiting"
  /\ reader' = "panics"
  /\ \/ call[s] = "createSend" /\ Goes(s, "created")
     \/ call[s] = "modifySend" /\ Goes(s, "modifyResolve")
     \/ call[s] = "deleteSend" /\ Goes(s, "deleted")
  /\ UNCHANGED <<objVars, copy>>

-----------------------------------------------------------------------------
(* What its owner does with an object outside the pipe.  Before a call, it *)
(* may be made, set and resolved; after one, set.                          *)
Use(s) ==
  \/ /\ call[s] = "none"
     /\ \/ \E vals \in [Fields -> Values] : New(s, vals)
        \/ InitDiff(s)
        \/ ResolveToDiff(s)
        \/ ResolveToState(s)
        \/ Marshal(s)
        \/ \E t \in Structs : Copy(s, t)
  \/ /\ call[s] \in {"none", "created", "modified", "deleted"}
     /\ \E f \in Fields, x \in Values : Set(s, f, x)

-----------------------------------------------------------------------------
(* Publish blocks while the channel is full.                               *)
Publish ==
  /\ published < MaxPublished
  /\ Len(queue) < Capacity
  /\ published' = published + 1
  /\ queue' = Append(queue, published')
  /\ UNCHANGED <<hand, pump, executed>>

PumpTakes ==
  /\ pump = "runs"
  /\ hand = <<>>
  /\ queue # <<>>
  /\ hand' = <<Head(queue)>>
  /\ queue' = Tail(queue)
  /\ UNCHANGED <<published, pump, executed>>

(* Do: redis executes the command, or there is an error, with the command  *)
(* executed or not; the goroutine then leaves its loop and panics.         *)
PumpDoes ==
  /\ pump = "runs"
  /\ hand # <<>>
  /\ \/ executed' = Append(executed, Head(hand)) /\ pump' \in {"runs", "panics"}
     \/ pump' = "panics" /\ UNCHANGED executed
  /\ hand' = <<>>
  /\ UNCHANGED <<published, queue>>

(* A panic nobody recovers ends the process.                               *)
Exit ==
  /\ "panics" \in {reader, pump}
  /\ alive' = FALSE
  /\ UNCHANGED <<objVars, callVars, pumpVars>>

-----------------------------------------------------------------------------
ObjectStep ==
  \E s \in Structs :
    \/ Use(s) /\ UNCHANGED callVars
    \/ Create(s)
    \/ \E t \in Structs : CreateCopies(s, t) \/ Modify(s, t) \/ Delete(s, t)
    \/ CreateInits(s)
    \/ HandOver(s)
    \/ ModifyResolves(s)

PumpStep == PumpTakes \/ PumpDoes

Next ==
  /\ alive
  /\ \/ ObjectStep /\ UNCHANGED <<pumpVars, alive>>
     \/ (Publish \/ PumpStep) /\ UNCHANGED <<objVars, callVars, alive>>
     \/ Exit

Spec == Init /\ [][Next]_vars

(* Redis answers or the connection fails, and a process that panics ends.  *)
FairSpec ==
  /\ Spec
  /\ WF_vars(alive /\ PumpStep /\ UNCHANGED <<objVars, callVars, alive>>)
  /\ WF_vars(alive /\ Exit)

-----------------------------------------------------------------------------
(* The objects behave as values that share nothing (ObjectValue), with the *)
(* pipe's calls among the rest: the pointers of stest/setters.go are never *)
(* seen, not in a message that is marshalled after Resolve has cleared the *)
(* diff, nor in what was copied.  Nothing is said of the copies of objects *)
(* that were initialised and not yet resolved (shared), only that the      *)
(* others, their originals among them, do not notice what becomes of them. *)
(* (The comment of Copy has it that a copy is "safe to send over a         *)
(* channel".  Without the exception this is violated: Init, Copy, Set and  *)
(* Resolve of the original change what the copy shows.)                    *)
Masked(fn, blank) == [s \in Structs |-> IF s \in shared THEN blank ELSE fn[s]]

Change == [s \in Structs |-> [f \in Fields |-> Deref(diff[s][f], f)]]

Blank == [f \in Fields |-> Zero]

Abstract == INSTANCE ObjectValue
  WITH Unset <- Nil, there <- made \ shared,
       value <- Masked(field, Blank), change <- Masked(Change, NilDiff),
       version <- Masked(v, 0), shown <- Masked(shown, Blank)

AsValues == Abstract!Spec

(* What is handed over is enough to bring every client up to date with the *)
(* object: whatever they show, with the copy's diff applied they show what *)
(* the caller's object does, before it is resolved and after (Pipe.Create: *)
(* "all the fields will be sent").  A copy that is not a creation's is     *)
(* unresolved: its committed fields are what clients show, so its previous *)
(* key is the one they have it in (Pipe.Delete, IMPORTANT).  The object    *)
(* may have been initialised, but is itself no copy of such a one.         *)
HandedOver ==
  \A s \in Structs \ shared :
    LET t == copy[s] IN
      /\ call[s] \in {"createSend", "modifySend", "modifyResolve"} =>
           Applied(shown[s], diff[t]) = Get(s)
      /\ call[s] \in {"created", "modified"} =>
           Applied(shown[s], diff[t]) = field[s]
      /\ call[s] \in {"modifySend", "modifyResolve", "modified", "deleteSend", "deleted"} =>
           field[t] = shown[s]

(* Redis executes the commands of Publish in the order they were queued,   *)
(* each once and none left out before one that is executed: after a failed *)
(* command, executed or not, the process does not send another.            *)
NoHole == \A i \in 1..Len(executed) : executed[i] = i

(* No command waits for ever: redis executes it, or the process ends, and  *)
(* with it the publishers that a full channel blocks.                      *)
Executed ==
  \A i \in 1..MaxPublished : (published >= i) ~> (Len(executed) >= i \/ ~alive)
=============================================================================
