# synk in TLA+

synk keeps objects in MongoDB in step with copies of them in browsers. A mutator
changes an object, stores it and publishes a message on the channel named by the
object's subscription key (a chunk of a map, say). Each browser has a websocket
to a node; the node's client for it subscribes to the keys the browser asks for,
passes messages on, and sends what the database holds when a key is added. No
message is numbered per channel, acknowledged or sent again: that browsers end
up right rests on the order in which subscriptions, the database and messages
are touched. That order, and the life of the goroutines involved, is what this
development is about.

All line numbers refer to the files in `src/`.

## 1. The system

| Part | Source | State | Operations |
|---|---|---|---|
| Objects, tags, messages | `Tag.go`, `ID.go`, `stest/setters.go`, `stest/char.go` (generated code of an example object), message types of `MongoSynk.go` | fields, a pending diff of pointers, `TagID`, `TagSub`, `V` | setters, `Resolve`, `State`, `GetSubKey`, `GetPrevSubKey`, `Copy`, `Init`, `TagInit` |
| MongoSynk | `MongoSynk.go` | none of its own: the objects collection, redis, the caller's structs | `Create`, `Modify`, `Delete`, `Load`, `Publish`, `Close` |
| synkClient | `Client.go`, `Message.go` | `subscriptions` map, channels `toWebSocket` and `fromWebSocket` (64), websocket, Loader, custom client | `Receive`, main loop, reader, `updateSubscription`, `Close`, `WriteToWebSocket`, `Publish` |
| ClientPool, Handler | `ClientPool.go`, `Handler.go` | `all`, channels `add`, `remove`, `broadcast` | `run`, `ServeHTTP` |
| Node | `Node.go`, `Interfaces.go` | pools, constructors, `redisAgents` | `NewNode`, registration, `CreateLoader`, `CreateMutator`, `NewClient` |
| RedisSynk | `RedisSynk.go`, `RedisScripts.go` | objects as redis strings, a set of keys per subscription | the older `Create`, `Modify`, `Delete`, `Load` |
| Pipe | `Pipe.go` | `toRedisChan`, a channel of 1000 commands on their way to redis; "not tested or supported", deprecated (`Interfaces.go:72`) | pumps commands to redis without confirmation |
| pubsub.RedisAgents, redis | not in the repository | which agent listens to which channel | `Update`, `RemoveAgent`, delivery |
| The browser (synk-js) | not in the repository; `README.md` | its copies | requests, applying messages |

How they meet:

* `MongoSynk` → MongoDB → redis: every call writes first, publishes after, one
  message for `Create`, `Delete` and a `Modify` in place, two for a `Modify`
  that moves the object (a mod on the old key, an add with the header `from <old
  key>` on the new one).
* redis → `RedisAgents` → `synkClient.Receive`: one connection per node, one
  goroutine, one `Receive` at a time, each of which may wait for room in the
  client's `toWebSocket`.
* browser → reader goroutine → `fromWebSocket` → main loop →
  `updateSubscription`: the map, then the agents, then `Load`, then straight to
  the websocket.
* `ServeHTTP` → `newClient` → three goroutines; a `WaitGroup` tells `ServeHTTP`
  and the Loader's goroutine of the end, and the pool then closes `toWebSocket`.

What is hard here, and what would make it right:

1. *Synchronisation.* Four unsynchronised sources (the database, the old key's
   channel, the new key's channel, the buffered messages) speak to one browser
   about one object, while the browser changes its keys. Right means: once
   nothing is under way, the browser shows the latest version of every object in
   its keys (`NothingLost`) and nothing else (`NoGhostWhereHeld`,
   `NoGhostOfTheLiving`), diffs were applied in order without a gap (`NoGap`),
   and settling does happen (`EventuallySynced`).
2. *Partial failure.* A call is up to three remote operations, after the diff
   was resolved in memory. Right means: nobody is told of a state that is not
   stored (`NeverAhead`), a stored object is where queries look for it
   (`StoredSubIsCurrent`), no version number stands for two states
   (`OneStatePerVersion`), and what is loaded is what a mutator promises: in one
   place, in ever later versions, never back once deleted (`AsStore`).
3. *Termination.* Five goroutines share two channels, a connection and a Loader.
   Right means: things are closed in order (`ClosedLast`, `ReaderFirst`), nobody
   sends on a closed channel (`SendsToOpenChannel`) or waits for itself
   (`NeverBlocksItself`), callbacks find their object (`CustomIsSet`), a browser
   that goes away takes everything along (`ComesDown`), and the connection that
   serves all clients does not wait for one that is gone (`RedisGoesOn`).
4. *Shared memory.* `client.subscriptions` is read and written without a lock
   (`NoMapRace`).
5. *Two structures in redis.* `RedisSynk` keeps each object's value and, apart
   from it, the sets of keys. Right means: what is stored is where a query finds
   it (`Findable`), an object is in exactly the set of its key (`KeySets`), and
   loading a key gives what its channel has told (`LoadedAsTold`), calls of
   unknown outcome included.
6. *Pointers.* A diff is a struct of pointers, some to variables of setters,
   some into the live object. It is returned after `Resolve` has cleared it,
   read when the message is marshalled, and copied by value when a `Pipe` hands
   a copy to another goroutine. Right means: the objects behave as values that
   share nothing (`AsValues`), and what is handed over is enough to bring
   clients up to date (`HandedOver`).
7. *Fire and forget.* `Pipe.Publish` does not wait for redis. Right means: what
   redis executes is a prefix of what was published (`NoHole`), and no command
   and no publisher waits for ever (`Executed`).

`PROJECT.json` lists the hazards one by one, each at its line.

## 2. The modules

```
SynkObject   objects, documents, messages (no state)
  PubSub     redis and RedisAgents (external)
    MongoSynk            the mutators                  MongoSynkProofs
    Browser              the browsers (external)              |
      SynkClient         a node's clients (EXTENDS both)      |
        SynkNode         all of it together            SynkNodeProofs
          MCSynkNode     instances for TLC                    |
                                                       VersionProofs
                                                              |
                                                       DeliveryProofs
                                                              |
                                                       ArrivalProofs
ClientLifecycle          goroutines of a client        ClientLifecycleProofs
  MCClientLifecycle      instances for TLC

SynkObject
  RedisSynk              the mutator on redis alone    RedisSynkProofs
    MCRedisSynk          instances for TLC

ObjectDiff               generated setters, pointers
  Pipe                   the mutator that does not     PipeProofs
    MCPipe               wait; instance for TLC

ObjectStore              what a Mutator promises; MongoSynk and RedisSynk
                         implement it
ObjectValue              what an object promises; Pipe with ObjectDiff
                         implements it
```

`RedisSynk` is a `Mutator` in `MongoSynk`'s place and shares only the objects
and messages with it. The node is two models, because they need different data:
`SynkNode` looks at what messages say and has clients that are there for good;
`ClientLifecycle` looks at which goroutine waits where and does not say what
messages contain. They share the bounded channels. `SynkNode` leaves out the
death of clients. A teardown touches neither the database nor what another
client holds, but it is not without effect on others: the full channel of a dead
client holds up the redis connection's goroutine, and with it every client of
the node, until the pool closes the channel; and the close ends the process if
that goroutine, or the application, is sending. Both are `ClientLifecycle`'s
subject (`RedisGoesOn`, `SendsToOpenChannel`). To the other clients the wait is
a delay, which `SynkNode` has of live clients too, and the end of the process
ends what is said of browsers.

### SynkObject

An object's fields are abstracted to its subscription key. `Struct.key` is the
committed `SubKey`, `diff` the pending one (nil is `NoKey`), so `SetSubKey`,
`GetSubKey`, `GetPrevSubKey` and `Resolve` are those of `stest/setters.go`;
every other field is represented by `v`, as one goroutine owns an object and
each `Resolve` counts a version. `Doc` is what bson stores of it: no diff, and
`TagSub` as the field queries select on. A `Msg` has the channel it is published
on (`skey`), the new key of a mod that moves (`nskey`), and the `from` header. A
rem message has no version, as in the code.

### MongoSynk

`mem[o]` is the struct its owner holds, `db[o]` the document, `outbox[o]` what
the call in progress must still publish. `Create`, `Modify` and `Delete` are the
code up to and including the write; `Publish` is the next `send`. Between them
anything may happen. `Panic` is a write that fails: `epanic` leaves the call
with the diff already resolved and `TagSub` already set, and that is what the
action leaves in `mem`. `PublishFails` is `epanic` after a failed publish.
`Restart` is a crash: memory is lost, the objects are loaded anew. `Load` is one
query. A write or a `PUBLISH` that is executed but not answered needs no action
of its own: it leaves what the call does followed by `PublishFails` of the rest.

Calls on one object do not overlap (the struct is not safe for that; one
goroutine owns it), calls on different objects do. `gone` holds deleted objects:
their owner does not touch them again, and ids are random (`ID.go`) and so not
used again. This matters: a rem message carries no version, and a browser could
not tell a late one from a rem for the object's second life.

`OneStatePerVersion` (in `SynkNode`) compares everything that is said of an
object: the document, the messages on their way, what clients have loaded and
browsers show. Versions are counted in memory before the write, and a restart
goes back to what was stored, so that a number is indeed used twice; the
property says that nobody was told the first time.

### ObjectStore

What `synk.Mutator` promises those who load objects, as an abstract
specification: `Put` in one key in a later version, `Vanish` for good.
`MongoSynk!AsStore` and `RedisSynk!AsStore` say that both mutators implement it,
each with its own reading of "where loading finds `o`": the documents whose
`TagSub` the query selects, or the sets whose members' values are `o`. Failed
and half-finished calls must map to one of the two steps or to none.

### PubSub and Browser (external)

Neither is in the repository; both are modelled from how it uses them, and the
results depend on them:

* redis delivers to subscribed connections only, in the order of publication,
  keeps nothing; a message for several agents is handed to one after the other.
  Agents are looked up when the message is taken up, not when it was published.
* `RedisAgents.Update` returns when the subscription is in effect. The comment
  at `Client.go:299` ("We have already updated our subscription, so immediately
  send the current state") rests on it.
* Neither `Update` nor `RemoveAgent` waits for a `Receive` in progress. If one
  did, a main loop could wait for the `Receive` that waits for that main loop to
  make room, and `EventuallySynced`, `ComesDown` and `RedisGoesOn` would not
  hold.
* A browser takes an add message with a newer version if it wants the key, a mod
  message with a newer version if it has the object, any rem message; a moved
  object stays if its new key is wanted; it drops a key's objects when it gives
  up the key. `Ask` is its request; it changes its mind at once, the server
  learns of it later.

### SynkClient and SynkNode

`Receive` is split at the channel send: the filter (`Filtered`) reads the map,
then `Enqueue` waits for room. `Forward` and `HandleMessage` are the two cases
of the main loop's select; `updateSubscription` is `RemoveKeys`, `AddKeys`,
`UpdateAgents`, `LoadObjects`, `WriteObjects`, a step for each shared thing it
touches. `WriteObjects` writes all objects in one step: only the main loop
writes to the websocket, so nothing can come between. `MapRace` is a state in
which `Receive` reads the map and the main loop writes it; an unsynchronised
read sees the old or the new map, which the interleavings give, or the runtime
ends the process, which is `MapFatal`.

### ClientLifecycle

`server[c]`, `loop[c]`, `reader[c]` say where the goroutines of `ServeHTTP`
(`newClient` included), the main loop (`Close` included) and the reader are;
`sends[c]` says which of the redis connection's goroutine and the application's
are at a send to `toWebSocket`. The Loader's goroutine and the pool are actions
on `loader`, `pool` and `toClosed`. Requests keep only their kind: one that adds
keys (calls `OnSubscribe`), one that only removes, a custom one (calls
`OnMessage`). Callbacks may write to their client, as the `Client` interface
lets them (`Greet`, `Reply`). A send on a closed channel sets `panicked`, which
ends the process. A main loop that panics (`OnSubscribe` on a nil `custom`) is
`doomed`: it runs `Close`, which it has deferred, and only then ends the process
(`Crash`); meanwhile the others go on. The `!ok` case of `toWebSocket` in the
main loop is left out: `ClosedLast`, proved, says it cannot occur.

`newClient` is the node's `ClientConstructor`. `RegisterClientConstructor` may
come at any time, as `Node` does not keep a server from being started first; a
second call is a panic (`Node.go:74-76`). A browser that connects before it
makes `newClient` call nil in `ServeHTTP` (`NewCustomPanics`): net/http recovers
that panic, while the goroutines it had started go on with a client that is in
no pool. `ComesDown` covers those too.

### RedisSynk

`store[r]` is the value at redis key `r`, `chunk[k]` the set at subscription key
`k`. A call is one atomic step, as it is one script (`RedisScripts.go`) or one
MULTI/EXEC: `Create` (`redisNewObject`), `Modify` (`redisModObject`), `Delete`
(`redisDelObject`). `Outcome` is what its caller learns: it worked, or the
connection was lost, and then the call was executed or not. `LoadAgain` is an
owner that loads the object (`RedisRequestObjects`) and goes on with what it
got; nothing obliges it to.

The calls look at nothing but the struct they are given. An owner may make them
in any order, after errors and after a `Delete` too, and the model lets it. What
can be said of the result depends on the order, so two history variables, which
no action's guard reads, keep account of it. `phase[o]` is what the owner can
tell of `o` from what its calls returned; after an error it may be "unborn",
"moving" or "leaving", that is, created, moved or deleted or not. A call that
this does not allow for puts `o` in `outOfTurn`: a `Create` of an object that
was created, a `Modify` of one that may be gone or may have moved, a `Delete` of
one that may be in another key than its struct says. `Findable` holds of all
objects; `KeySets`, `LoadedAsTold` and `AsStore` speak of an object until it is
in `outOfTurn`, and without that condition TLC finds them violated: a `Modify`
made again after a move that was lost leaves the object in two sets
(`RedisSynk.go:318` takes it out of the key memory has it in by then), and a
`Modify` of a deleted object puts it back (`RedisSynk.go:320`). Neither the code
nor a comment promises that these orders work, or forbids them.

`told[k][o]` is the version someone has of `o` who listens to `k` alone and was
there from the start: what `LoadedAsTold` compares a load with.

A redis key is the object, or `NoID` for the key `"type:"` of an object without
an id; `Named` are the objects whose `TagID` is set before `Create`, and
`Placed[o]` is the key `OnCreate` gives `o`. The objects are `Orc`s: a `Human`'s
tag is `json:"-"` (`stest/char.go:12`), and in redis it would lose id and
version altogether.

### ObjectDiff and ObjectValue

`ObjectDiff` is the generated part of an object (`stest/setters.go`) with its
pointers. `field[s][f]` is a field of the struct `s`; `diff[s][f]` is nil, a
value (the variable of a setter, which nothing writes again) or a struct (field
`f` of it, where `State` and `Init` point). `Resolve` writes the fields, clears
the diff and returns the pointers, which stay in `out[s]` until `Marshal`
follows them. `shown[s]` is what a client shows that got every message.

`ObjectValue` has no pointers: committed values, pending ones, and copies that
share nothing. `Pipe!AsValues` says that `ObjectDiff`, used by its owners and by
`Pipe`, implements it.

`Copy` is `n := *o`, at any time. Between `Init` and the next `Resolve` the diff
points into the object, and the copy's diff then points into the original. The
history variable `shared` has the copies made of such objects, and the copies of
those. `AsValues` shows them to `ObjectValue` as objects that are not there:
nothing is said of their values, but the others must not notice them. Only a
copy suffers: a write through a diff does not exist, so that the original is as
good as before. The exception is needed: `New s1`, `Init s1`, `Copy` to `s2`,
`Set` and `Resolve` of `s1` change what the getters of `s2` return, although the
comment of `Copy` calls the copy "safe to send over a channel"
(`stest/setters.go:224-225`, "Usually we Resolve() after Copy()"). In the
repository only `Pipe.Create` calls `Init`, on a copy, but `Init`, `Copy`,
`Pipe.Modify` and `Pipe.Delete` are exported and look at no such thing.

### Pipe

`Create`, `Modify` and `Delete` are modelled as they are now, half migrated:
they resolve, copy and initialise in the order of the code and hand the copy to
an unbuffered channel, whose reader panics on the first object it gets.
`call[s]` is how far the call on `s` is and `copy[s]` its copy. The owner may go
on setting fields of `s` after the hand-over, which is what copying is for.
`Publish` queues a command in `toRedisChan`; `PumpTakes` and `PumpDoes` are the
goroutine that sends commands to redis until the first error and then panics. A
command that failed may have been executed or not. `Exit` ends the process;
between a panic and the end the other goroutines may still take steps.

## 3. The runs

Every run finishes within two minutes, most within one. Deadlock is not checked:
the bounds on versions, requests and writes let every behaviour stop, and a
panic ends the process.

| Run | Instance | Checked | Shows |
|---|---|---|---|
| moves | 1 object, 2 clients holding {a}, {a, b} or {b, c}; moves a to b, b to a, b to c; one request of each client, for or against c; 3 versions | `NothingLost`, `NoGhostWhereHeld`, `NoGhostOfTheLiving`, `NoGap` | the source key of a move is what must not change, the target may; the messages of a create, moves and a delete are enough by themselves in the keys that are kept, though two clients share one connection and wait for each other's buffers |
| inplace | 1 object that stays, 1 client with 4 requests, 3 versions, fair | `NothingLost`, `NoGhostWhereHeld`, `NoGap`, `EventuallySynced` | load and messages fit together however they interleave, and settle |
| faults | moves both ways, any requests, 2 faults | `TypeOK`, `NeverAhead`, `StoredSubIsCurrent`, `OneStatePerVersion`, `AsStore` | nothing is shown that is not stored, stored objects stay findable, a version number is of one state, and MongoDB's documents are an `ObjectStore` |
| lost | moves both ways, one request | `NothingLost` violated | see below |
| race | one move, one request | `NoMapRace` violated | see below |
| lifecycle | 1 client, everything once or twice, buffers of 1, fair | `TypeOK`, `ClosedLast`, `ReaderFirst`, `ComesDown`, `RedisGoesOn` | the order of closing; a browser that leaves takes everything along, even with the reader waiting for room or no constructor registered, unless a callback waits for room for good; the same for the redis connection |
| redis | 2 objects with ids, 2 keys, 3 versions, 2 lost connections, calls in any order | `TypeOK`, `Findable`, `KeySets`, `LoadedAsTold`, `AsStore` | what is stored can be loaded; until an object's owner calls out of turn, its set, value and messages agree whatever calls are cut short, and are an `ObjectStore` |
| rediskey | the same, ids set by `Create`, no faults | `KeySets` violated | see below |
| pipe | 2 structs of 1 field and 2 values, 2 versions, 4 commands through a channel of 2, fair | `HandedOver`, `NoHole`, `AsValues`, `Executed` | no pointer is ever seen from outside an object, but in copies of initialised ones; what is handed over brings clients up to date; commands arrive in order or the process ends |
| closed, selfblock, nilcustom | as small as they can be | `SendsToOpenChannel`, `NeverBlocksItself`, `CustomIsSet` violated | see below |

Bounds. One object is enough for the synchronisation properties: messages of
different objects affect each other only through the buffers, and there a second
message of the same object takes the same room. A buffer of 1 makes it full all
the time, where 64 would never be; a larger one adds only delay. Three versions
allow create, move, move back and then delete; two keys allow a source, a target
and every set of held keys. Two faults allow a failure of the recovery from one.
`MaxRequests` of 4 allows dropping and adding a key twice while a message of the
first time is still queued: what `NoGap` excepts needs all four. Two clients
matter only where one holds up the other (moves). Three keys are needed there:
the source and the target of a move that stay, and one that changes. Two objects
in redis, for what one call does to another object's key. In the pipe, two
structs are an object and its copy, or two objects; one field, as a pointer at a
field leads to the same field of a struct, and fields meet only in whether a
diff is empty (the theorems are about any number); two values, as a setter asks
only whether the new one differs from the committed one; two versions, one that
clients got as a message and one that the pipe hands over. With four commands
and a channel of 2, one is being sent, two wait in the channel and `Publish`
waits with the last.

Fairness. `SynkNode!FairSpec` has every goroutine that can go on do so: the
reading goroutine of the connection, each `Receive`, each call in progress, and
both cases of each main loop's select, which Go chooses at random when both are
ready. Nobody has to mutate or ask. `ClientLifecycle!FairSpec` has the same for
`ServeHTTP`, the reader, the main loop, the Loader's goroutine and senders; the
main loop counts as able to go on when the peer is gone because the ticker keeps
it writing pings, which fail. Browsers do not have to leave. `Pipe!FairSpec` has
redis answer or the connection fail, and a panicking process end. In the first
two, processes do not crash: a crash ends every obligation.

### What the violations are

* **lost** (`Client.go:121`, against `README.md:28`). `updateSubscription` puts
  a key in the map before it is subscribed to. An object that moves from that
  key to one the client holds, at that moment, is announced in two messages: the
  mod on the source key, which is not subscribed yet, and the add on the target,
  which `Receive` drops since the source is in the map. The load of the source
  key comes too late. The same loss happens when the browser *drops* the source
  key of a move: it drops its copies at once, while the server still takes it to
  know the object. Where sources of moves are keys the browser keeps (moves), or
  objects do not move (inplace), nothing is lost. What is lost stays so until
  the browser asks for the key anew, or the object comes in from a key that it
  does not hold: a further move between held keys is filtered in the same way.
* **race** (`Client.go:121`, `276`, `279`). `Receive` reads the map in the redis
  connection's goroutine.
* **closed** (`ClientPool.go:29`). `WriteToWebSocket`, "Safe for concurrent
  calls", panics if the pool closes the channel meanwhile. An application is not
  told that a client has ended.
* **selfblock** (`Client.go:363`). `OnMessage` and `OnSubscribe` run in the main
  loop, and their only way to answer is the channel the main loop empties. It is
  the one thing that can keep a client from being torn down, with an `OnConnect`
  that writes too much: `ComesDown` excepts callbacks waiting for good, and
  nothing else.
* **nilcustom** (`Client.go:316`). The main loop runs before `custom` is set;
  `handleMessage` checks for that, `updateSubscription` does not.
* **rediskey** (`RedisSynk.go:200`). The redis key and the subscription key are
  computed before `TagInit` gives the object its id and before `OnCreate`. The
  object is stored under `"type:"`; the next object of its type cannot be
  created; `Modify` stores a second copy; after `Delete` the first is still
  loaded. `OnCreate` setting the key has the same effect on the set.

### What the properties except

Ghosts: the code does leave some, of deleted objects. A message queued before a
key was dropped is forwarded after it was taken again (`Client.go:162`); if the
object was deleted in between, nobody will tell the browser. An object that
moves can leave a ghost with no key dropped: it goes from b, which the browser
holds, to c, which it is adding, and is deleted there; the mod on b reaches the
browser, which keeps the object as it wants c already, the rem on c comes before
the subscription, and the load of c finds nothing. `NoGhostWhereHeld` therefore
speaks of keys the browser has wanted all along (`kept`), and
`NoGhostOfTheLiving`, in all other keys, of objects that exist. The latter is
checked in moves only: of objects that stay where they are, `NothingLost` says
as much.

After a failed write of a move: `StoredSubIsCurrent` holds, but the next
`Modify` takes the object for one that stays, as `Resolve` has made the new key
the committed one (`MongoSynk.go:128-142`). Browsers are not told of the move.
The properties about browsers are checked and proved without failures, and do
not speak of it. Nor do they of messages that a failed `PUBLISH` leaves out.

Gaps in versions: `NoGap` excepts deleted objects, and has to. A client that
subscribes while the last messages about a deleted object are on their way can
get a later diff without an earlier one, followed by the removal. It also
excepts the time while a request of the browser waits in `fromWebSocket`, which
takes four changes of mind to matter. The browser drops a key, takes it, drops
it and takes it again, and the server is at the second of these requests. The
add message of version 1, queued before all of it, is forwarded
(`Client.go:162`) after the fourth, so the browser shows it; version 3, loaded
for the second request, was written before the fourth, when the browser did not
want the key; the diff from 2 to 3, published in between, comes next. A browser
must not apply it, and can tell by the version (that is what `Tag.go` has it
for); the load of the fourth request, still to be handled, brings version 3.
Once no request waits there is no such diff.

## 4. The proofs

Checked by tlapm for every value of the constants that the named assumptions
allow. Every invariant and every refinement that a run of section 3 finds to
hold is a theorem, under the conditions named here.

*MongoSynkProofs* proves about each action of the mutators that it keeps
`MutInv`: types, `StoredSubIsCurrent`, and that the outbox holds stored versions
only (`NeverAhead` for it). `StoredSubIsCurrent` is not inductive: `Modify` in
place writes a struct whose `sub` was set at an earlier call, perhaps one whose
write failed. What makes it work is that a struct that was created has `sub =
key` whatever happened to its writes, since `Resolve` and `TagSetSub` both come
before the write; that is part of `MutInv`. `NeverAhead` rests on `Stored`: what
is said of an object is of a version no later than memory's, and no later than
the document's unless the object was deleted. Before its insert nothing can be
said of it. It needs that memory is never behind the database, so that versions
only grow, that a write stores memory's version, and that a deleted object keeps
counting as one (`StoredStays`: a version once stored counts as stored after
every step).

*SynkNodeProofs* carries this through the node: `IInv` adds the types of the
other components, and that the wire, the buffers, the loaded documents and the
browsers' copies hold stored versions only. `Invariance` is `Spec => []IInv`;
from it `TypeCorrect` (channels within capacity included), `DatabaseFirst`
(`NeverAhead`) and `SubFollowsKey` (`StoredSubIsCurrent`). `MongoIsAStore` is
the refinement `Spec => AsStore`, step by step: a write is a `Put` or a
`Vanish`, giving up an object that was never stored is a `Vanish`, all else a
stutter.

*VersionProofs* proves `VersionsAreUnique` (`OneStatePerVersion`). `Agree` is
inductive on top of `IInv`: any two claims of an object in the same version are
the same claim, and none says version 0. A step other than a write only moves
claims about. A write makes a new one, with a version one above that in memory;
memory is never behind the database, and every claim is of a version that was
stored (`NeverAhead`), so the new number is above all of them.

*DeliveryProofs* and *ArrivalProofs* prove that browsers end up right when
nothing fails (`MaxFaults = 0`). That condition is needed: a message that is
lost is not sent again, so that a browser stays behind. The argument follows
every message a browser lacks.

`Delivers` is the first inductive invariant, on top of `IInv` and `Agree`:

* `Calm`: without failures memory and document agree, and a document that is
  missing was never made or is deleted. Hence each call is one of `Created`,
  `Updated`, `Moved`, `Deleted` (`MutateCases`).
* `Shapes` and `Ordered`: of one object, the queue of a client is ahead of the
  wire and the wire ahead of what is still to be published, in the order of
  versions, the removal last.
* `Requests`: how what a browser wants, what its requests ask for, the map, the
  agents and the loaded documents hang together, at each place of the main loop.
  In particular a key that was kept is subscribed to and in no request.
* `Followed`: whatever is said of an object in a kept key, by the browser's copy
  or by a message on the way to it, is followed by the next change of it, or by
  its removal, unless it is the latest there is.

`Comes(c, m)` says that a message is bound for the browser of `c`: queued, or on
the wire or still to be published with `c` on its channel and the filter not in
the way. The lemma `Delivery` says that it goes on to come after any step that
does not forward it, unless the request being handled changes its keys (`Safe`).
`NoGhosts` (`NoGhostWhereHeld`) follows: once things have settled nothing comes,
so what is shown in a kept key is the latest.

`Followed` is no help for a key that was asked for later, nor for an object that
was not there yet. For those the second invariant says what a browser is owed
(`Owed`): of an object in a key it wants, and that no request has yet to load,
some version is shown, loaded for it, or comes as an add message, and every
change since comes as a mod. `Owed` is not inductive alone. The request that
gives up a key must not take away the version it starts from, nor the mod
messages of a key the object has left; hence the second condition, `Steady`: no
browser asks for or gives up a key that objects leave for others (`Sources`).
Without it objects are lost (run lost). With it, `Onwards` (an object was never
anywhere but where it is or in such keys) and `Arrivals` (the same for what was
there before an add message) make it so. When a message is forwarded, `Ordered`
and `Agree` say that it is the change that was owed next, or one the version
includes. From `Owed` and `Delivers` follow `NothingIsLost` (`NothingLost`),
`NoGhostsOfTheLiving` (`NoGhostOfTheLiving`) and `NoGaps` (`NoGap`).

Proving it found the gap described in section 3: with three requests, which was
the bound of the run, TLC does not reach it, and `NoGap` without its exception
holds there; the case that would not go through showed what a fourth does.
The instances moves and inplace satisfy both conditions.

*ClientLifecycleProofs* proves `TypeCorrect`, `ClosingOrder` (`ClosedLast`) and
`NoLateRequest` (`ReaderFirst`). That the pool closes `toWebSocket` after the
main loop ended depends on where `ServeHTTP` is, that the reader is gone on what
is closed; `Order` lists these links for one client, and is inductive together
with `TypeOK`.

*RedisSynkProofs* proves `AllFindable` (`Findable`), `SetsRight` (`KeySets`) and
`LoadingIsListening` (`LoadedAsTold`) under `Conditions`: ids are set before
`Create`, and `OnCreate` moves nothing. Without them `KeySets` is false (run
rediskey). The invariant says of every object that its value names a key whose
set it is in, and of those no call was made on out of turn that value, set and
what listeners know are three views of one thing. What makes it inductive is
what an owner knows (`OwnerRight`): in phase "live" the object is stored, in
"live" and "leaving" a stored object is in the key its struct has, in "new" and
"gone" there is none. Otherwise a `Modify` in turn would take the object out of
the wrong set. `LoadAgain` finds the one stored value. From the same invariant
follow `TypeCorrect` and the refinement `RedisIsAStore`, in which an object's
first call out of turn is a `Vanish`, unless it is gone already.

*PipeProofs* proves `ObjectsAreValues` (`Spec => AsValues`), `CopiesSuffice`
(`HandedOver`) and `InOrder` (`NoHole`). `ObjInv` says that pointers lead to
setters' variables or to the struct they belong to (`OwnPointers`), unless the
struct is in `shared`; hence a write to one struct changes nothing that the
pointers of another lead to, such copies excepted; and that clients show the
committed values once the message in progress is applied (`Told`).
`HandInv` adds what the copy of each call holds at each point (`Holds`), also
when it is the copy of an initialised object, and that a copy belongs to one
call. `PumpInv` says that what redis has executed,
what is in the hand of the channel's reader and what is queued are consecutive,
for as long as that goroutine runs.

Assumptions: `NoKey` is not a key, `NoID` no object, `Nil` neither a value nor a
struct; bounds are natural numbers, buffers hold at least one message; the sets
a model is given are sets of keys. Nothing is assumed of the number of objects,
clients, keys, structs or fields.

Only model-checked: the liveness properties `EventuallySynced`, `ComesDown`,
`RedisGoesOn` and `Executed`, which are outside what the prover can do. What a
browser has once it has settled is proved; that it settles is checked.

## 5. Not modelled

* What the reader of `Pipe`'s objects would do with them: it panics
  (`Pipe.go:40`), the rest is not written yet.
* `RegisterContainerConstructor`: without one, `CreateLoader` panics before
  anything of a client is started. Constructors are written and read by different
  goroutines without a lock (`Node.go:75`, `Node.go:100`); whether a browser
  comes before or after the registration is in the model, the data race is not.
* MongoDB's cursor: `Load` reads the documents of its `$in` query at one moment;
  that is one read per object, and objects are independent of each other.
* `RedisSynk.Publish`, objects of several types, values that do not parse.
* Failed loads: `epanic` ends the process, and with it what the properties are
  about.
* `MongoSynk.Publish` and `Client.Publish`: application messages, passed through
  like any other without touching objects. Objects of unknown type, which `Load`
  skips.
* `ClientPool`'s `broadcast`: nothing in the repository sends to it.
* The upgrade to a websocket and its failure (`Handler.go:40-50`), before there
  is a client.
* Pongs: nothing in the code reacts to a missing one, although
  `Client.go:149-151` lists "ping timeout on websocket" as a cause of
  termination.
* Several nodes: they share only the database and redis, and a node sees
  mutators elsewhere as it sees its own.

## 6. The plan

1. Done: `SynkObject`, `PubSub`, `MongoSynk`, `Browser`, `SynkClient`,
   `SynkNode` and proofs; `ClientLifecycle` and proofs.
2. Done: `RedisSynk` and proofs.
3. Done: `ObjectDiff`, `ObjectValue`, `Pipe` and proofs; `ObjectStore` with both
   refinements; registration in `ClientLifecycle`; `VersionProofs`.
4. Done: an account of every message in flight (`DeliveryProofs`,
   `ArrivalProofs`), with `NothingLost`, `NoGap` and both ghost properties as
   theorems.
5. `SynkSpec`, what a browser is promised about one object, with `SynkNode`
   shown to implement it where objects are neither lost nor left as ghosts; the
   invariants of item 4 are what its step simulation needs.
6. A failed `Load` and a browser that reconnects: what it is left with after the
   process or the redis connection was lost.
