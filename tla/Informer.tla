------------------------------ MODULE Informer ------------------------------
(***************************************************************************)
(* A shared informer of one resource (pkg/informer): the reflector that    *)
(* lists and watches the API server, the DeltaFIFO it fills, the loop that *)
(* pops the FIFO into the indexer, and the processor that tells an event   *)
(* handler of every change.                                                *)
(*                                                                         *)
(* Pop holds the FIFO's lock while it processes an item, so filling the    *)
(* indexer and handing the notifications to the listener is one step. The  *)
(* listener's ring buffer grows, so handing them over never blocks. The    *)
(* handler is a FilteringResourceEventHandler, as all of the program's     *)
(* are, and may be added before or after the informer starts. Stopping an  *)
(* informer, which only happens when its process ends, is not modelled.    *)
(***************************************************************************)
EXTENDS Storage

CONSTANTS
  Filter,    \* the contents the handler's FilterFunc accepts
  MaxFaults, \* bound on the watches that end and on the watch requests that fail
  MaxPending \* bound on the notifications pending when a resync is due

ASSUME InformerAssumption ==
  Filter \subseteq Vals /\ MaxFaults \in Nat /\ MaxPending \in Nat

VARIABLES
  reflector,  \* where ListAndWatch is: "list", "watch" or "watching"
  received,   \* the current watch has delivered an event
  faults,
  fifo,       \* the DeltaFIFO
  indexer,    \* key -> object or None: the store that listers read
  indices,    \* content -> the keys the index holds under it
  listening,  \* the handler is one of the processor's listeners
  syncing,    \* and one of its syncingListeners
  pending,    \* the listener's notifications the handler has not had
  view,       \* key -> what the handler was told last, None after OnDelete
  awaited     \* the keys of the first list that were never popped

informerVars == <<reflector, received, faults, fifo, indexer, indices,
                  listening, syncing, pending, view, awaited>>
vars == <<storageVars, informerVars>>
handlerVars == <<listening, syncing, pending, view>>

NoObjects == [k \in Keys |-> None]

NewDeltaFIFO == [items |-> [k \in Keys |-> <<>>], queue |-> <<>>,
                 populated |-> FALSE, initialPopulationCount |-> 0]

Init ==
  /\ StorageInit
  /\ reflector = "list" /\ received = FALSE /\ faults = 0
  /\ fifo = NewDeltaFIFO
  /\ indexer = NoObjects /\ indices = [v \in Vals |-> {}]
  /\ listening = FALSE /\ syncing = FALSE
  /\ pending = <<>> /\ view = NoObjects
  /\ awaited = {}

----------------------------------------------------------------------------
\* DeltaFIFO. A key is in items exactly when its deltas are not empty.

Delta(type, obj, unknown) == [type |-> type, obj |-> obj, unknown |-> unknown]
Known == {k \in Keys : indexer[k] # None}

\* Of two deletions in a row one stays: the one with the final state.
dedupDeltas(ds) ==
  LET n == Len(ds)
  IN IF n < 2 \/ ds[n].type # "Deleted" \/ ds[n - 1].type # "Deleted" THEN ds
     ELSE Append(SubSeq(ds, 1, n - 2), IF ds[n - 1].unknown THEN ds[n] ELSE ds[n - 1])

\* The elements of a sequence at the indices I, in their order.
Selected(seq, I) ==
  [n \in 1..Cardinality(I) |-> seq[CHOOSE i \in I : Cardinality({j \in I : j <= i}) = n]]

queueActionLocked(f, k, d) ==
  [items |-> [f.items EXCEPT ![k] = dedupDeltas(Append(@, d))],
   queue |-> IF f.items[k] = <<>> THEN Append(f.queue, k) ELSE f.queue,
   populated |-> TRUE, initialPopulationCount |-> f.initialPopulationCount]

FifoAdd(f, k, obj) == queueActionLocked(f, k, Delta("Added", obj, FALSE))

FifoUpdate(f, k, obj) == queueActionLocked(f, k, Delta("Updated", obj, FALSE))

\* Nothing is queued for an object neither the indexer nor the FIFO has.
FifoDelete(f, k, obj) ==
  IF k \notin Known /\ f.items[k] = <<>>
  THEN [items |-> f.items, queue |-> f.queue, populated |-> TRUE,
        initialPopulationCount |-> f.initialPopulationCount]
  ELSE queueActionLocked(f, k, Delta("Deleted", obj, FALSE))

\* queueActionLocked for distinct keys, one after the other; count is what a
\* FIFO that was not populated counts down from.
queueActions(f, order, delta, count) ==
  [items |-> [k \in Keys |-> IF k \in Range(order)
                             THEN dedupDeltas(Append(f.items[k], delta[k])) ELSE f.items[k]],
   queue |-> f.queue \o Selected(order, {i \in 1..Len(order) : f.items[order[i]] = <<>>}),
   populated |-> TRUE,
   initialPopulationCount |-> IF f.populated THEN f.initialPopulationCount ELSE count]

\* What a list says of a key: its object, or that the indexer's is gone.
Listed == [k \in Keys |-> IF kv[k] # None THEN Delta("Replaced", kv[k], FALSE)
                          ELSE Delta("Deleted", indexer[k], TRUE)]

\* The listed objects do not count.
ReplaceCountsGone(f, listed, gone) == queueActions(f, listed \o gone, Listed, Len(gone))

\* The listed objects, then a deletion for what the indexer has and the list
\* has not, in the order gone of the indexer's map. What only waits in the
\* FIFO is not looked at.
Replace(f, listed, gone) ==
  queueActions(f, listed \o gone, Listed, Len(listed) + Len(gone))

Synced == [k \in Keys |-> Delta("Sync", indexer[k], FALSE)]

\* A key that waits is synced too.
FifoResyncAll(f, order) == queueActions(f, order, Synced, 0)

\* syncKeyLocked for every key of the indexer. A key that waits is left out:
\* its deltas are newer than the indexer.
FifoResync(f, order) ==
  queueActions(f, Selected(order, {i \in 1..Len(order) : f.items[order[i]] = <<>>}), Synced, 0)

HasSynced == fifo.populated /\ fifo.initialPopulationCount = 0

----------------------------------------------------------------------------
\* The indexer and the notifications one popped item leads to.

\* The old entry is not looked for.
updateIndicesAddsOnly(ix, k, old, new) ==
  [v \in Vals |-> ix[v] \cup (IF new # None /\ new.val = v THEN {k} ELSE {})]

\* threadSafeMap: the key moves from the old object's entry to the new one's.
updateIndices(ix, k, old, new) ==
  [v \in Vals |-> (IF old # None /\ old.val = v THEN ix[v] \ {k} ELSE ix[v])
                  \cup (IF new # None /\ new.val = v THEN {k} ELSE {})]

\* An update that changes no version comes from a resync or a relist.
isSync(note) == note.old # None /\ note.new # None /\ note.old.rev = note.new.rev

\* It goes to the syncing listeners only.
distribute(note) == listening /\ (isSync(note) => syncing)

\* What the indexer has of the key after a delta.
After(d) == IF d.type = "Deleted" THEN None ELSE d.obj

\* The notifications of the deltas of a key, oldest first. Without an object
\* in the indexer an update is an addition; a deletion carries its own object.
processDeltas(k, ds) ==
  LET Before(i) == IF i = 1 THEN indexer[k] ELSE After(ds[i - 1])
      Note(i) == [key |-> k, new |-> After(ds[i]),
                  old |-> IF ds[i].type = "Deleted" THEN ds[i].obj ELSE Before(i)]
      Notes == [i \in 1..Len(ds) |-> Note(i)]
  IN Selected(Notes, {i \in 1..Len(ds) : distribute(Notes[i])})

Pop ==
  /\ fifo.queue # <<>>
  /\ LET k == Head(fifo.queue)
         ds == fifo.items[k]
         count == fifo.initialPopulationCount
     IN /\ fifo' = [items |-> [fifo.items EXCEPT ![k] = <<>>], queue |-> Tail(fifo.queue),
                    populated |-> fifo.populated,
                    initialPopulationCount |-> IF count > 0 THEN count - 1 ELSE 0]
        /\ indexer' = [indexer EXCEPT ![k] = After(Last(ds))]
        /\ indices' = updateIndices(indices, k, indexer[k], After(Last(ds)))
        /\ pending' = pending \o processDeltas(k, ds)
        /\ awaited' = awaited \ {k}
  /\ UNCHANGED <<storageVars, reflector, received, faults, listening, syncing, view>>

----------------------------------------------------------------------------
\* The handler.

Accepts(obj) == obj.val \in Filter

OnAdd(w, k, new) == IF Accepts(new) THEN [w EXCEPT ![k] = new] ELSE w

OnUpdate(w, k, old, new) ==
  CASE Accepts(new) -> [w EXCEPT ![k] = new]
    [] ~Accepts(new) /\ Accepts(old) -> [w EXCEPT ![k] = None]
    [] OTHER -> w

OnDelete(w, k, old) == IF Accepts(old) THEN [w EXCEPT ![k] = None] ELSE w

Told(w, note) ==
  CASE note.old = None -> OnAdd(w, note.key, note.new)
    [] note.new = None -> OnDelete(w, note.key, note.old)
    [] OTHER -> OnUpdate(w, note.key, note.old, note.new)

\* processorListener.run takes the next notification from pop.
Notify ==
  /\ pending # <<>>
  /\ view' = Told(view, Head(pending))
  /\ pending' = Tail(pending)
  /\ UNCHANGED <<storageVars, reflector, received, faults, fifo, indexer,
                 indices, listening, syncing, awaited>>

\* The listener is added and the indexer is not replayed.
AddEventHandlerOnly ==
  /\ ~listening
  /\ listening' = TRUE /\ syncing' = TRUE
  /\ UNCHANGED <<storageVars, reflector, received, faults, fifo, indexer,
                 indices, pending, view, awaited>>

\* With blockDeltas held, so between two items, the new listener is told of
\* the objects the indexer has, in any order.
AddEventHandler ==
  /\ ~listening
  /\ listening' = TRUE /\ syncing' = TRUE
  /\ \E order \in SetToSeqs(Known) :
       pending' = [i \in 1..Len(order) |->
                    [key |-> order[i], old |-> None, new |-> indexer[order[i]]]]
  /\ UNCHANGED <<storageVars, reflector, received, faults, fifo, indexer,
                 indices, view, awaited>>

----------------------------------------------------------------------------
\* The reflector.

\* The list request, and syncWith, which replaces the FIFO's content. A list
\* that fails is repeated and changes nothing.
List ==
  /\ reflector = "list"
  /\ \E listed \in etcdGetList, gone \in SetToSeqs(Known \ Live) :
       fifo' = Replace(fifo, listed, gone)
  /\ awaited' = IF fifo.populated THEN awaited ELSE Live
  /\ reflector' = "watch"
  /\ UNCHANGED <<storageVars, received, faults, indexer, indices, handlerVars>>

Watch ==
  /\ reflector = "watch"
  /\ WatchList
  /\ reflector' = "watching"
  /\ received' = FALSE
  /\ UNCHANGED <<kv, log, faults, fifo, indexer, indices, handlerVars, awaited>>

\* ListAndWatch returns the error and Run calls it again after a backoff.
WatchFails ==
  /\ reflector = "watch"
  /\ faults < MaxFaults
  /\ faults' = faults + 1
  /\ reflector' = "list"
  /\ UNCHANGED <<storageVars, received, fifo, indexer, indices, handlerVars, awaited>>

WatchEnds ==
  /\ faults < MaxFaults
  /\ faults' = faults + 1
  /\ \E how \in EndTypes : ServeHTTPReturns(how)
  /\ UNCHANGED <<reflector, received, fifo, indexer, indices, handlerVars, awaited>>

StoreEvent(e) ==
  CASE e.type = "Added" -> FifoAdd(fifo, e.key, e.obj)
    [] e.type = "Modified" -> FifoUpdate(fifo, e.key, e.obj)
    [] e.type = "Deleted" -> FifoDelete(fifo, e.key, e.obj)

\* watchHandler takes an event from the StreamWatcher into the FIFO.
ReceiveEvent ==
  /\ reflector = "watching" /\ stream # <<>> /\ Head(stream).type \notin EndTypes
  /\ fifo' = StoreEvent(Head(stream))
  /\ stream' = Tail(stream)
  /\ received' = TRUE
  /\ UNCHANGED <<kv, log, open, pos, reflector, faults, indexer, indices,
                 handlerVars, awaited>>

\* watchHandler returns. After an Error event, and after a watch without an
\* event that lasted less than a second, ListAndWatch returns and Run lists
\* again; otherwise it opens the next watch without listing.
WatchReturns ==
  /\ reflector = "watching" /\ stream # <<>> /\ Head(stream).type \in EndTypes
  /\ StopWatch
  /\ \/ reflector' = "list" /\ (Head(stream).type = "Error" \/ ~received)
     \/ reflector' = "watch" /\ Head(stream).type = "EOF"
  /\ UNCHANGED <<kv, log, pos, received, faults, fifo, indexer, indices,
                 handlerVars, awaited>>

\* The syncingListeners become the listeners that are due for a resync.
shouldResync(due) ==
  /\ due => listening
  /\ syncing' = due

\* The resync goroutine's timer.
Resync ==
  /\ fifo.populated /\ Len(pending) <= MaxPending
  /\ \/ /\ shouldResync(TRUE)
        /\ \E order \in SetToSeqs(Known) : fifo' = FifoResync(fifo, order)
     \/ /\ shouldResync(FALSE)
        /\ UNCHANGED fifo
  /\ UNCHANGED <<storageVars, reflector, received, faults, indexer, indices,
                 listening, pending, view, awaited>>

----------------------------------------------------------------------------
Write == \E k \in Keys :
  /\ \/ \E v \in Vals : Create(k, v) \/ Update(k, v)
     \/ Purge(k)
  /\ UNCHANGED informerVars

Serve == processEvent /\ UNCHANGED informerVars

Next == \/ Write \/ Serve \/ WatchEnds
        \/ List \/ Watch \/ WatchFails \/ ReceiveEvent \/ WatchReturns \/ Resync
        \/ Pop \/ Notify \/ AddEventHandler

Spec == Init /\ [][Next]_vars

\* The server answers and every goroutine goes on; nothing has to be written,
\* to fail, to be resynced or to be registered.
Fairness == /\ WF_vars(Serve)
            /\ WF_vars(List \/ Watch \/ ReceiveEvent \/ WatchReturns)
            /\ WF_vars(Pop) /\ WF_vars(Notify)

FairSpec == Spec /\ Fairness
----------------------------------------------------------------------------
\* A notification that makes the handler know something else of its object, and
\* what that is (OnAdd, OnUpdate and OnDelete).
Accepted(obj) == obj # None /\ Accepts(obj)
Tells(note) == Accepted(note.new) \/ Accepted(note.old)
Says(note) == IF Accepted(note.new) THEN note.new ELSE None

\* What the handler will know once it has had its notifications.
Expected ==
  [k \in Keys |->
    LET told == {i \in 1..Len(pending) : pending[i].key = k /\ Tells(pending[i])}
    IN IF told = {} THEN view[k] ELSE Says(pending[Max(told)])]

\* Once it has worked off its notifications the handler knows of every object
\* its filter accepts, in the version the indexer has, whether it was added
\* before the informer started or in the middle of the changes (informer.go
\* AddEventHandlerWithResyncPeriod, distribute; controller.go processDeltas).
HandlerMissesNothing ==
  listening => \A k \in Known : Accepts(indexer[k]) => Expected[k] = indexer[k]

\* The index answers for the objects the store has and for no others
\* (thread_safe_store.go updateIndices).
IndexMatchesStore ==
  \A v \in Vals : indices[v] = {k \in Known : indexer[k].val = v}

\* HasSynced, which the controllers wait for before they start, is true only
\* when every object of the first list has reached the indexer's loop
\* (delta_fifo.go Replace, Pop, HasSynced).
SyncedMeansListed == HasSynced => awaited = {}

\* The handler never sees an object go back to an older version, whatever
\* resyncs, relists and reopened watches put into the FIFO (delta_fifo.go
\* syncKeyLocked, Replace; reflector.go watchHandler).
NeverOlder ==
  [][\A k \in Keys : (view[k] # None /\ view'[k] # None) => view'[k].rev >= view[k].rev]_vars

\* Once the watches stop failing the handler learns of every object the API
\* server has, in its current version (reflector.go ListAndWatch, watcher.go).
HandlerCatchesUp ==
  <>[](\A k \in Keys : kv[k] # None =>
        indexer[k] = kv[k] /\ (listening /\ Accepts(kv[k]) => view[k] = kv[k]))
=============================================================================
