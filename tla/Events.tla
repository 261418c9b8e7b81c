------------------------------- MODULE Events -------------------------------
(***************************************************************************)
(* The recording of events (pkg/api/client/record): the recorder puts an   *)
(* event into the broadcaster (pkg/watch/mux.go), one goroutine takes it   *)
(* out, correlates it (event_cache.go) and writes it through the REST      *)
(* client, retrying.                                                       *)
(*                                                                         *)
(* The events are those of one object with one reason: they differ in the  *)
(* message. An event's name is made from the clock and is the number of    *)
(* the occurrence here; of a stored event the model keeps the count.       *)
(*                                                                         *)
(* The same client also serves readers and writers that record nothing:    *)
(* caller says which of the two a behaviour is about.                      *)
(***************************************************************************)
EXTENDS RestClient, Sequences

CONSTANTS
  Messages,
  Combined,        \* the key of the aggregate event
  MaxEvents,       \* EventAggregator.maxEvents, 10 in the code
  Burst,           \* of the spam filter, 25 in the code
  QueueLength,     \* maxQueuedEvents, 1000 in the code
  MaxTries,        \* maxTriesPerEvent, 12 in the code
  MaxOccurs,       \* bound on the events that occur
  MaxRemovals      \* bound on the events removed and the log entries evicted

ASSUME EventsAssumption ==
  /\ {MaxEvents, MaxTries, QueueLength, Burst} \subseteq Nat \ {0} /\ MaxOccurs \in Nat
  /\ NoBody \notin [name : Nat, count : Nat]

VARIABLES
  caller,          \* "recorder" or "other"
  occurred,        \* how many events have occurred
  incoming,        \* Broadcaster.incoming
  results,         \* the result channel of the recording watcher
  stopped,         \* Shutdown: "no", "asked" or "yes"
  localKeys, old,  \* the aggregate record, and whether it is too old
  eventLog,        \* key -> [count, name]; a count of 0 if there is no entry
  tokens,          \* the spam filter's bucket
  sink,            \* recordToSink: [pc, key, name, count, tries]
  server,          \* name -> the count stored, 0 if there is no such event
  removals,
  behind           \* history: keys whose last occurrence did not reach the server

queues == <<occurred, incoming, results, stopped>>
correlator == <<localKeys, old, eventLog, tokens>>
vars == <<restVars, caller, queues, correlator, sink, server, removals, behind>>

Keys == Messages \cup {Combined}
Names == 1..MaxOccurs
Marker == [message |-> "internal-do-function", name |-> 0]
NoEntry == [count |-> 0, name |-> 0]
Idle == [pc |-> "idle", key |-> Combined, name |-> 0, count |-> 0, tries |-> 0]

Init ==
  /\ RestInit
  /\ caller \in {"recorder", "other"}
  /\ occurred = 0 /\ incoming = <<>> /\ results = <<>> /\ stopped = "no"
  /\ localKeys = {} /\ old = TRUE
  /\ eventLog = [k \in Keys |-> NoEntry]
  /\ tokens = Burst
  /\ sink = Idle
  /\ server = [n \in Names |-> 0]
  /\ removals = 0 /\ behind = {}

----------------------------------------------------------------------------
(* The recorder and the broadcaster *)

\* generateEvent, ActionOrDrop: blockQueue keeps others out until it has run;
\* an event for a full queue, or after the end, is dropped.
generateEvent(m) ==
  /\ caller = "recorder" /\ occurred < MaxOccurs /\ stopped # "asked"
  /\ occurred' = occurred + 1
  /\ incoming' = IF stopped = "no" /\ Len(incoming) < QueueLength
                 THEN Append(incoming, [message |-> m, name |-> occurred + 1])
                 ELSE incoming
  /\ UNCHANGED <<restVars, caller, results, stopped, correlator, sink, server, removals,
                 behind>>

\* Shutdown queues a function and waits for it.
Shutdown ==
  /\ caller = "recorder" /\ stopped = "no" /\ Len(incoming) < QueueLength
  /\ stopped' = "asked"
  /\ incoming' = Append(incoming, Marker)
  /\ UNCHANGED <<restVars, caller, occurred, results, correlator, sink, server, removals,
                 behind>>

\* loop: the function closes the queue, an event goes to the watcher unless its
\* channel is full.
Loop ==
  /\ incoming # <<>>
  /\ incoming' = Tail(incoming)
  /\ \/ Head(incoming) = Marker /\ stopped' = "yes" /\ UNCHANGED results
     \/ /\ Head(incoming) # Marker
        /\ results' = IF Len(results) < QueueLength THEN Append(results, Head(incoming))
                      ELSE results
        /\ UNCHANGED stopped
  /\ UNCHANGED <<restVars, caller, occurred, correlator, sink, server, removals, behind>>

----------------------------------------------------------------------------
(* The correlator *)

\* EventAggregate: with maxEvents messages in the interval the event counts as
\* one of the combined event, and some message makes room.
EventAggregate(m) ==
  LET keys == (IF old THEN {} ELSE localKeys) \cup {m}
  IN IF Cardinality(keys) < MaxEvents THEN {[key |-> m, keys |-> keys]}
     ELSE {[key |-> Combined, keys |-> keys \ {x}] : x \in keys}

\* eventObserve: the entry the event gets, under the name of the first one.
eventObserve(k, name) ==
  IF eventLog[k].count > 0 THEN [count |-> eventLog[k].count + 1, name |-> eventLog[k].name]
  ELSE [count |-> 1, name |-> name]

\* EventCorrelate: the spam filter comes last, so that a skipped event counts.
recordToSink ==
  /\ sink.pc = "idle" /\ results # <<>>
  /\ results' = Tail(results)
  /\ old' = FALSE
  /\ \E a \in EventAggregate(Head(results).message) :
       LET entry == eventObserve(a.key, Head(results).name)
       IN /\ localKeys' = a.keys
          /\ eventLog' = [eventLog EXCEPT ![a.key] = entry]
          /\ \/ /\ tokens = 0
                /\ behind' = behind \cup {a.key}
                /\ UNCHANGED <<tokens, sink>>
             \/ /\ tokens > 0 /\ tokens' = tokens - 1
                /\ sink' = [pc |-> "try", key |-> a.key, name |-> entry.name,
                            count |-> entry.count, tries |-> 0]
                /\ UNCHANGED behind
  /\ UNCHANGED <<restVars, caller, occurred, incoming, stopped, server, removals>>

\* The token bucket fills, the aggregate record gets too old, and the log's LRU
\* cache loses an entry to the events of other objects.
Refill ==
  /\ tokens < Burst
  /\ tokens' = tokens + 1
  /\ UNCHANGED <<restVars, caller, queues, localKeys, old, eventLog, sink, server, removals,
                 behind>>

Age ==
  /\ ~old /\ sink.pc = "idle"
  /\ old' = TRUE
  /\ UNCHANGED <<restVars, caller, queues, localKeys, eventLog, tokens, sink, server,
                 removals, behind>>

Evict(k) ==
  /\ sink.pc = "idle" /\ eventLog[k].count > 0 /\ removals < MaxRemovals
  /\ eventLog' = [eventLog EXCEPT ![k] = NoEntry]
  /\ removals' = removals + 1
  /\ behind' = behind \ {k}
  /\ UNCHANGED <<restVars, caller, queues, localKeys, old, tokens, sink, server>>

----------------------------------------------------------------------------
(* The sink *)

\* IsKeyNotFoundError never recognises the error.
IsKeyNotFoundError(answer) == FALSE

\* recordEvent: a first occurrence is created, any other is a patch.
recordEvent ==
  /\ sink.pc \in {"try", "create"}
  /\ NewRequest("do", IF sink.pc = "create" \/ sink.count = 1 THEN "POST" ELSE "PATCH",
                [name |-> sink.name, count |-> sink.count])
  /\ sink' = [sink EXCEPT !.pc = "request"]
  /\ UNCHANGED <<caller, queues, correlator, server, removals, behind>>

\* updateState takes the entry from the server's event, under the key of its
\* message: that of a combined event is looked up by nobody.
updateState ==
  IF sink.key = Combined THEN eventLog
  ELSE [eventLog EXCEPT ![sink.key] = [count |-> sink.count, name |-> sink.name]]

Recorded ==
  /\ sink.pc = "request" /\ req.pc = "done" /\ Succeeded
  /\ req' = NoRequest
  /\ eventLog' = updateState
  /\ sink' = Idle
  /\ UNCHANGED <<wire, caller, queues, localKeys, old, tokens, server, removals, behind>>

\* Another try, or the event is given up.
TryFails ==
  /\ sink.pc = "request" /\ req.pc = "done" /\ ~Succeeded
  /\ req' = NoRequest
  /\ LET gone == req.verb = "PATCH" /\ IsKeyNotFoundError(req.answer)
         last == ~gone /\ sink.tries + 1 >= MaxTries
     IN /\ sink' = IF gone THEN [sink EXCEPT !.pc = "create"]
                   ELSE IF last THEN Idle
                   ELSE [sink EXCEPT !.pc = "try", !.tries = @ + 1]
        /\ behind' = IF last THEN behind \cup {sink.key} ELSE behind
  /\ UNCHANGED <<wire, caller, queues, correlator, server, removals>>

----------------------------------------------------------------------------
(* The server *)

\* The event's create and patch handlers: an event is stored under its name.
Answer(c) ==
  IF (c.verb = "POST") = (server[c.body.name] = 0) THEN "ok" ELSE "refused"

AddsUp_mutant(c) == [server EXCEPT ![c.body.name] = @ + 1]

\* A patch carries the whole count.
Stored(c) == [server EXCEPT ![c.body.name] = c.body.count]

Named(name) == {k \in Keys : eventLog[k].count > 0 /\ eventLog[k].name = name}

ServeEvent(c) ==
  /\ c.body # NoBody
  /\ Answers(c, Answer(c))
  /\ server' = IF Answer(c) = "ok" THEN Stored(c) ELSE server
  /\ behind' = IF c.late THEN behind \cup Named(c.body.name)
               ELSE IF Answer(c) = "ok" THEN behind \ {sink.key} ELSE behind
  /\ UNCHANGED <<caller, queues, correlator, sink, removals>>

\* An operator removes an event from etcd.
Remove(n) ==
  /\ server[n] > 0 /\ removals < MaxRemovals
  /\ server' = [server EXCEPT ![n] = 0]
  /\ removals' = removals + 1
  /\ behind' = behind \cup Named(n)
  /\ UNCHANGED <<restVars, caller, queues, correlator, sink>>

----------------------------------------------------------------------------
(* Requests of others *)

OtherRequest ==
  /\ caller = "other"
  /\ \/ \E verb \in {"GET", "PUT"} : NewRequest("do", verb, NoBody)
     \/ \E mode \in {"watch", "stream"} : NewRequest(mode, "GET", NoBody)
  /\ UNCHANGED <<caller, queues, correlator, sink, server, removals, behind>>

ServeOther(c) ==
  /\ c.body = NoBody
  /\ \E answer \in {"ok", "refused"} : Answers(c, answer)
  /\ UNCHANGED <<caller, queues, correlator, sink, server, removals, behind>>

OtherDone ==
  /\ caller = "other" /\ req.pc = "done"
  /\ req' = NoRequest
  /\ UNCHANGED <<wire, caller, queues, correlator, sink, server, removals, behind>>

----------------------------------------------------------------------------
ClientStep ==
  /\ RestStep
  /\ UNCHANGED <<caller, queues, correlator, sink, server, removals, behind>>
ClientFault ==
  /\ Expire \/ \E a \in Faults : Fault(a)
  /\ UNCHANGED <<caller, queues, correlator, sink, server, removals, behind>>
Serve == \E c \in wire : ServeEvent(c) \/ ServeOther(c)
SinkStep == recordToSink \/ recordEvent \/ Recorded \/ TryFails

Next ==
  \/ \E m \in Messages : generateEvent(m)
  \/ Shutdown \/ Loop \/ SinkStep
  \/ Refill \/ Age \/ \E k \in Keys : Evict(k)
  \/ \E n \in Names : Remove(n)
  \/ ClientStep \/ ClientFault \/ Serve
  \/ OtherRequest \/ OtherDone

Spec == Init /\ [][Next]_vars

(* Fairness: the goroutines run, and every attempt ends, with an answer or *)
(* an error. Nothing says that the answer is ever a good one.              *)
Fairness ==
  /\ WF_vars(Loop) /\ WF_vars(SinkStep)
  /\ WF_vars(ClientStep) /\ WF_vars(ClientFault \/ Serve) /\ WF_vars(OtherDone)

FairSpec == Spec /\ Fairness

----------------------------------------------------------------------------
(* When the sink rests, the server's count of an event is never more than  *)
(* the occurrences that were logged, and it is the same unless the last    *)
(* ones were skipped by the spam filter or given up, or the event was      *)
(* removed: tries that were in fact served, failed tries between others    *)
(* and an answer that got lost are all made good by the next patch.        *)
LogMatchesServer ==
  sink.pc = "idle" /\ wire = {} =>
    \A k \in Keys :
      LET entry == eventLog[k]
      IN entry.count > 0 => /\ server[entry.name] <= entry.count
                            /\ k \notin behind => server[entry.name] = entry.count

(* Recording goes on: however the server behaves, every request returns    *)
(* and every event is written, skipped or given up, so that the queues     *)
(* drain.                                                                  *)
RecordingGoesOn ==
  /\ []<>(req.pc = "idle")
  /\ <>[](incoming = <<>> /\ results = <<>> /\ sink.pc = "idle")
=============================================================================
