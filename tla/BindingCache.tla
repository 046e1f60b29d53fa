----------------------------- MODULE BindingCache -----------------------------
(***************************************************************************)
(* The LdapGroupBindingService: a cache of the cluster's LdapGroupBindings *)
(* that an informer's event handlers keep up to date and that logins read. *)
(*                                                                         *)
(* Outside the service, and modelled from how it is used: the objects in   *)
(* the API server, the watch stream, and client-go's informer, which has   *)
(* a store of its own and hands its handlers one notification at a time    *)
(* from a queue.  When a watch is lost the informer lists the objects anew *)
(* and compares them with its store; an object that is gone by then is     *)
(* notified with a tombstone in the place of the object.                   *)
(*                                                                         *)
(* GetBindings returns the cache's own slice.  A login walks it without    *)
(* the lock, element by element, while handlers go on writing.             *)
(*                                                                         *)
(* Operators announced as "Faulty" are what a slip in the code would have  *)
(* made of the operator after them; no specification uses them.            *)
(***************************************************************************)
EXTENDS Naturals, SequencesExt

CONSTANTS
  Names,         \* names of LdapGroupBindings
  Readers,       \* slots for logins that walk the cache
  MaxChanges,    \* bound on changes of the objects
  MaxDrops       \* bound on lost watches and restarts of the process

ASSUME NamesAssumption == IsFiniteSet(Names)

ASSUME BoundAssumption == MaxChanges \in Nat /\ MaxDrops \in Nat

VARIABLES
  objects,       \* API server: the version of each object, 0 if there is none
  changes,       \* the resource version of the last change
  stream,        \* watch events not yet received
  connected,     \* the informer has listed the objects and is watching
  indexer,       \* the informer's store, as objects
  queue,         \* notifications not yet handled
  cache,         \* svc.cache
  reader,        \* for each slot the walk under way
  drops

server   == <<objects, changes>>
informer == <<stream, connected, indexer, queue>>
vars     == <<server, informer, cache, reader, drops>>

(* A pointer to an LdapGroupBinding: each version of it is another object. *)
Pointer == [name : Names, version : Nat]

EventTypes == {"added", "updated", "deleted", "tombstone"}

Event == [type : EventTypes, object : Pointer]

(***************************************************************************)
(* A walk: the elements of its slice, as it read them up to the position   *)
(* it reads next (0: no walk) and as it will find them from there on, and  *)
(* whether the slice is still part of svc.cache's array.                   *)
(* taken remembers what GetBindings returned.                              *)
(***************************************************************************)
Walk == [slice : Seq(Pointer), next : Nat, shares : BOOLEAN, taken : Seq(Pointer)]

NoWalk == [slice |-> <<>>, next |-> 0, shares |-> FALSE, taken |-> <<>>]

NoObjects == [n \in Names |-> 0]

TypeOK ==
  /\ objects \in [Names -> 0 .. changes]
  /\ changes \in 1 .. MaxChanges + 1
  /\ stream \in Seq(Event)
  /\ connected \in BOOLEAN
  /\ indexer \in [Names -> 0 .. changes]
  /\ queue \in Seq(Event)
  /\ cache \in Seq(Pointer)
  /\ reader \in [Readers -> Walk]
  /\ \A r \in Readers : reader[r].next <= Len(reader[r].slice) + 1
  /\ drops \in 0 .. MaxDrops

(* The objects were there before the process starts. *)
Init ==
  /\ objects \in [Names -> {0, 1}]
  /\ changes = 1
  /\ stream = <<>>
  /\ connected = FALSE
  /\ indexer = NoObjects
  /\ queue = <<>>
  /\ cache = <<>>
  /\ reader = [r \in Readers |-> NoWalk]
  /\ drops = 0

-----------------------------------------------------------------------------
(* The API server and the informer. *)

Notification(type, n, v) == [type |-> type, object |-> [name |-> n, version |-> v]]

(* The notification that takes a store from old to new. *)
Difference(n, old, new) ==
  Notification(IF new = 0 THEN "deleted" ELSE IF old = 0 THEN "added" ELSE "updated", n, new)

(* An administrator creates, edits or deletes an LdapGroupBinding. *)
ObjectChanges(n) ==
  /\ changes <= MaxChanges
  /\ changes' = changes + 1
  /\ \E v \in {changes', 0} :
       /\ v # objects[n]
       /\ objects' = [objects EXCEPT ![n] = v]
       /\ stream' = IF connected THEN Append(stream, Difference(n, objects[n], v)) ELSE stream
  /\ UNCHANGED <<connected, indexer, queue, cache, reader, drops>>

(* The informer receives a watch event, updates its store and notifies.    *)
WatchDelivers ==
  /\ stream # <<>>
  /\ LET e == Head(stream) IN
       /\ indexer' = [indexer EXCEPT ![e.object.name] = e.object.version]
       /\ queue' = Append(queue, e)
  /\ stream' = Tail(stream)
  /\ UNCHANGED <<server, connected, cache, reader, drops>>

(* A watch that is resumed where it stopped is a watch; this one is not.   *)
WatchLost ==
  /\ connected /\ drops < MaxDrops
  /\ connected' = FALSE
  /\ stream' = <<>>
  /\ drops' = drops + 1
  /\ UNCHANGED <<server, indexer, queue, cache, reader>>

(* A list in the place of the watch: every object listed is notified, the  *)
(* ones that did not change included, then every object that is gone.      *)
Relist ==
  /\ ~connected
  /\ connected' = TRUE
  /\ indexer' = objects
  /\ LET listed == {n \in Names : objects[n] # 0}
         gone   == {n \in Names : objects[n] = 0 /\ indexer[n] # 0}
     IN \E notes \in SetToSeqs({Difference(n, indexer[n], objects[n]) : n \in listed}),
           stones \in SetToSeqs({Notification("tombstone", n, 0) : n \in gone}) :
          queue' = queue \o notes \o stones
  /\ UNCHANGED <<server, stream, cache, reader, drops>>

-----------------------------------------------------------------------------
(* The handlers, each under the write lock. *)

Handle(type) ==
  /\ queue # <<>> /\ Head(queue).type = type
  /\ queue' = Tail(queue)
  /\ UNCHANGED <<server, stream, connected, indexer, drops>>

(* An array is full at the sizes append grows it to: 0, 1, 2, 4, 8...      *)
ArrayFull == Len(cache) = 0 \/ \E k \in 0 .. Len(cache) : Len(cache) = 2 ^ k

NobodyShares == reader' = [r \in Readers |-> [reader[r] EXCEPT !.shares = FALSE]]

(* svc.cache = append(svc.cache, binding): a full array is copied, and the *)
(* slices handed out before keep the old one.                              *)
AppendToCache(p) ==
  /\ cache' = Append(cache, p)
  /\ IF ArrayFull THEN NobodyShares ELSE UNCHANGED reader

Positions(n) == {i \in DOMAIN cache : cache[i].name = n}

FirstPosition(n) == CHOOSE i \in Positions(n) : \A j \in Positions(n) : i <= j

(* The elements a walk has yet to read. *)
Unread(r) == {i \in DOMAIN reader[r].slice : i >= reader[r].next}

(* svc.cache[i] = binding, in the array the slices handed out share.  The  *)
(* write races with their walks: each walk may find either element there.  *)
WriteInPlace(i, p) ==
  /\ cache' = [cache EXCEPT ![i] = p]
  /\ \E finding \in SUBSET {r \in Readers : reader[r].shares /\ i \in Unread(r)} :
       reader' = [r \in Readers |->
                    IF r \in finding THEN [reader[r] EXCEPT !.slice[i] = p] ELSE reader[r]]

HandleAdd == Handle("added") /\ AppendToCache(Head(queue).object)

(* Faulty: the first element is taken for the one updated. *)
UpdateFirst(p) ==
  IF Positions(p.name) # {} THEN WriteInPlace(1, p) ELSE AppendToCache(p)

Update(p) ==
  IF Positions(p.name) # {} THEN WriteInPlace(FirstPosition(p.name), p) ELSE AppendToCache(p)

HandleUpdate == Handle("updated") /\ Update(Head(queue).object)

(* The elements appended to out: the others, in their order.               *)
Without(n) ==
  LET kept     == DOMAIN cache \ Positions(n)
      Place(i) == Cardinality({j \in kept : j <= i})
  IN  [k \in 1 .. Cardinality(kept) |-> cache[CHOOSE i \in kept : Place(i) = k]]

(* Faulty: out is svc.cache[:0], so that the filter works in place. *)
DeleteInPlace(n) ==
  /\ cache' = Without(n)
  /\ reader' = [r \in Readers |->
       IF reader[r].shares
       THEN [reader[r] EXCEPT !.slice =
               [i \in DOMAIN @ |-> IF i \in Unread(r) /\ i <= Len(Without(n))
                                   THEN Without(n)[i] ELSE @[i]]]
       ELSE reader[r]]

(* out is an array of its own. *)
Delete(n) == cache' = Without(n) /\ NobodyShares

HandleDelete == Handle("deleted") /\ Delete(Head(queue).object.name)

-----------------------------------------------------------------------------
(* The process ends, and with it the informer's store, the cache and the   *)
(* logins under way; another one starts in its place.                      *)
ProcessEnds ==
  /\ connected' = FALSE
  /\ stream' = <<>>
  /\ indexer' = NoObjects
  /\ queue' = <<>>
  /\ cache' = <<>>
  /\ reader' = [r \in Readers |-> NoWalk]
  /\ UNCHANGED server

(* The type assertion of DeleteFunc panics on a tombstone, in a goroutine  *)
(* of the informer that nothing recovers.                                  *)
HandleTombstone ==
  /\ queue # <<>> /\ Head(queue).type = "tombstone"
  /\ ProcessEnds
  /\ UNCHANGED drops

Restart ==
  /\ drops < MaxDrops
  /\ drops' = drops + 1
  /\ ProcessEnds

-----------------------------------------------------------------------------
(* Logins. *)

(* GetBindings, under the read lock. *)
GetBindings(r) ==
  /\ reader[r] = NoWalk
  /\ reader' = [reader EXCEPT ![r] =
                  [slice |-> cache, next |-> 1, shares |-> TRUE, taken |-> cache]]
  /\ UNCHANGED <<server, informer, cache, drops>>

(* Faulty: the walk goes one element too far. *)
ReadPastEnd(r) ==
  /\ reader[r].next \in 1 .. Len(reader[r].slice) + 1
  /\ reader' = [reader EXCEPT ![r].next = @ + 1]
  /\ UNCHANGED <<server, informer, cache, drops>>

(* The body of the loop over ldapBindings, which reads one element. *)
ReadNext(r) ==
  /\ reader[r].next \in 1 .. Len(reader[r].slice)
  /\ reader' = [reader EXCEPT ![r].next = @ + 1]
  /\ UNCHANGED <<server, informer, cache, drops>>

EndWalk(r) ==
  /\ reader[r].next > Len(reader[r].slice)
  /\ reader' = [reader EXCEPT ![r] = NoWalk]
  /\ UNCHANGED <<server, informer, cache, drops>>

-----------------------------------------------------------------------------
HandleNext == HandleAdd \/ HandleUpdate \/ HandleDelete \/ HandleTombstone

Next ==
  \/ \E n \in Names : ObjectChanges(n)
  \/ WatchDelivers \/ WatchLost \/ Relist
  \/ HandleNext
  \/ Restart
  \/ \E r \in Readers : GetBindings(r) \/ ReadNext(r) \/ EndWalk(r)

Spec == Init /\ [][Next]_vars

(* The informer's goroutines run: it lists, receives and notifies.         *)
Fairness == WF_vars(Relist) /\ WF_vars(WatchDelivers) /\ WF_vars(HandleNext)

FairSpec == Spec /\ Fairness

-----------------------------------------------------------------------------
(* Properties. *)

Cached(n) == {cache[i].version : i \in Positions(n)}

Queued(n) == {i \in DOMAIN queue : queue[i].object.name = n}

(***************************************************************************)
(* For each name the cache is what the notifications still queued make     *)
(* equal to the informer's store: without any it holds exactly the stored  *)
(* version, once, and otherwise the last of them brings the stored version *)
(* (add, update, delete).                                                  *)
(***************************************************************************)
CacheMirrors ==
  \A n \in Names :
    /\ Queued(n) = {} =>
         Cached(n) = {indexer[n]} \ {0} /\ \A i, j \in Positions(n) : i = j
    /\ \A last \in Queued(n) : (\A i \in Queued(n) : i <= last) =>
         queue[last].object.version = indexer[n]

(***************************************************************************)
(* A login that walks the slice of GetBindings comes upon every binding    *)
(* that was cached when it called, each at its place and at the version it *)
(* had then or a later one, whatever the handlers do to the cache during   *)
(* the walk.                                                               *)
(***************************************************************************)
WalksMissNothing ==
  \A r \in Readers : LET w == reader[r] IN
    /\ Len(w.slice) = Len(w.taken)
    /\ \A i \in DOMAIN w.slice :
         w.slice[i].name = w.taken[i].name /\ w.slice[i].version >= w.taken[i].version

(***************************************************************************)
(* The cache catches up: once nobody changes LdapGroupBindings and the     *)
(* watch holds, it has every one of them at its last version, once, and    *)
(* no other, restarts and panics notwithstanding.                          *)
(***************************************************************************)
UpToDate ==
  \A n \in Names :
    Cached(n) = {objects[n]} \ {0} /\ \A i, j \in Positions(n) : i = j

CacheCatchesUp == <>[]UpToDate

(***************************************************************************)
(* DeleteFunc asserts that what it is given is an LdapGroupBinding: the    *)
(* notification it handles next is no tombstone.                           *)
(***************************************************************************)
DeleteFuncGetsBinding == queue # <<>> => Head(queue).type # "tombstone"

=============================================================================
