------------------------------ MODULE Storage ------------------------------
(***************************************************************************)
(* The API server's storage of one resource, and one watch of it: the      *)
(* registry store over etcd, the etcd watch channel, and the HTTP handler  *)
(* that copies the channel to the connection (pkg/apiserver/registry,      *)
(* pkg/apiserver/storage/etcd, handlers/watch.go).                         *)
(*                                                                         *)
(* etcd is a map from keys to objects and the log of its changes. A        *)
(* request is one step: the reads it does before its transaction only      *)
(* decide whether it fails, and a request that fails changes nothing. No   *)
(* store sets TTLFunc, so no key has a lease. The watch's three buffers    *)
(* (incomingEventChan, resultChan, the connection) are one sequence.       *)
(***************************************************************************)
EXTENDS Naturals, Sequences, FiniteSets, SequencesExt

CONSTANTS
  Keys,       \* the UIDs of the resource's objects, the last part of an etcd key
  Vals,       \* the contents of an object
  None,       \* no object
  Stored,     \* key -> the content it has when the informer starts, or None
  MaxWrites,  \* bound on the changes in the log
  Buffer      \* bound on the events in flight on the watch

ASSUME StorageAssumption ==
  /\ IsFiniteSet(Keys) /\ None \notin [val : Vals, rev : Nat]
  /\ None \notin Vals /\ Stored \in [Keys -> Vals \cup {None}]
  /\ MaxWrites \in Nat /\ Buffer \in Nat \ {0}

VARIABLES
  kv,      \* etcd: key -> [val, rev], the object and its ModRevision, or None
  log,     \* etcd: the changes so far; the revision is their number
  open,    \* the watch is served
  pos,     \* the last change of the log the watch has taken
  stream   \* the watch's events on their way to the client

storageVars == <<kv, log, open, pos, stream>>

Event(type, k, obj) == [type |-> type, key |-> k, obj |-> obj]
EndTypes == {"EOF", "Error"}

Live == {k \in Keys : kv[k] # None}

StorageInit ==
  /\ \E order \in SetToSeqs({k \in Keys : Stored[k] # None}) :
       LET Obj(i) == [val |-> Stored[order[i]], rev |-> i]
       IN /\ log = [i \in 1..Len(order) |-> Event("Added", order[i], Obj(i))]
          /\ kv = [k \in Keys |-> IF Stored[k] = None THEN None
                                 ELSE Obj(CHOOSE i \in 1..Len(order) : order[i] = k)]
  /\ open = FALSE /\ pos = 0 /\ stream = <<>>

----------------------------------------------------------------------------
\* etcd's part of a request.

\* Sets the object's version to the revision that writes it, as decode does.
etcdPut(type, k, v) ==
  LET obj == [val |-> v, rev |-> Len(log) + 1]
  IN /\ kv' = [kv EXCEPT ![k] = obj]
     /\ log' = Append(log, Event(type, k, obj))

\* The transaction puts the key only if it has no revision yet.
etcdCreate(k, v) ==
  /\ kv[k] = None
  /\ etcdPut("Added", k, v)

\* The transaction compares with the revision just read.
etcdGuaranteedUpdate(k, v) ==
  /\ kv[k] # None
  /\ etcdPut("Modified", k, v)

\* The keys sorted by ModRevision, the newest first: the one order there is.
etcdGetList == {order \in SetToSeqs(Live) :
                  \A i, j \in 1..Len(order) : i < j => kv[order[i]].rev > kv[order[j]].rev}

----------------------------------------------------------------------------
\* The registry store's operations.

Create(k, v) ==
  /\ Len(log) < MaxWrites
  /\ etcdCreate(k, v)
  /\ UNCHANGED <<open, pos, stream>>

Update(k, v) ==
  /\ Len(log) < MaxWrites
  /\ etcdGuaranteedUpdate(k, v)
  /\ UNCHANGED <<open, pos, stream>>

\* An operator removes the key in etcd. The API itself deletes nothing: the
\* DELETE handler calls Store.Delete without options and BeforeDelete panics on
\* them (module Api).
Purge(k) ==
  /\ Len(log) < MaxWrites
  /\ kv[k] # None
  /\ kv' = [kv EXCEPT ![k] = None]
  /\ log' = Append(log, Event("Deleted", k, [val |-> kv[k].val, rev |-> Len(log) + 1]))
  /\ UNCHANGED <<open, pos, stream>>

----------------------------------------------------------------------------
\* The watch.

\* sync: the objects of the moment, in the order of their keys.
Sync == LET live == SetToSeq(Live)
        IN [i \in 1..Len(live) |-> Event("Added", live[i], kv[live[i]])]

\* A watch of the changes after a revision; without one, first the objects of
\* the moment and then the changes after it.
startWatching(rev) ==
  /\ open' = TRUE
  /\ pos' = IF rev = 0 THEN Len(log) ELSE rev
  /\ stream' = IF rev = 0 THEN Sync ELSE <<>>

\* Without the sync, from the changes of this moment on.
WatchListFromNow == startWatching(Len(log))

\* What the handler makes of the client's request: it does not pass on the
\* ResourceVersion the client asks to watch from.
WatchList == startWatching(0)

\* A change as the watch reports it: a deleted object is sent as it was, with
\* the revision of its deletion. The list watch's predicate lets all pass.
transform(e) ==
  CASE e.type = "Deleted" -> Event("Deleted", e.key, e.obj)
    [] e.type = "Added" -> Event("Added", e.key, e.obj)
    [] OTHER -> Event("Modified", e.key, e.obj)

\* etcd's next change goes on its way.
processEvent ==
  /\ open /\ pos < Len(log) /\ Len(stream) < Buffer
  /\ pos' = pos + 1
  /\ stream' = Append(stream, transform(log[pos + 1]))
  /\ UNCHANGED <<kv, log, open>>

\* The handler returns: at its timeout, when the request's context is done,
\* or when the connection fails, which the client reads as the end of the
\* stream; or when the etcd watch fails, which run turns into an Error event.
\* What is in the buffers behind the last event written is lost.
ServeHTTPReturns(how) ==
  /\ open
  /\ open' = FALSE
  /\ \E n \in 0..Len(stream) :
       stream' = Append(SubSeq(stream, 1, n), [type |-> how])
  /\ UNCHANGED <<kv, log, pos>>

\* The client stops the watch and reads no more of it.
StopWatch ==
  /\ open' = FALSE
  /\ stream' = <<>>
=============================================================================
