---------------------------- MODULE EventsProofs ----------------------------
(***************************************************************************)
(* Proofs about Events and the RestClient it extends, for any messages,    *)
(* queues, limits and bounds, and however often requests are lost, served  *)
(* late, refused or sent again.                                            *)
(***************************************************************************)
EXTENDS Events, TLAPS

----------------------------------------------------------------------------
(* The request and its copies *)

Verbs == {"GET", "PUT", "POST", "PATCH"}
Bodies == {NoBody} \cup [name : Names, count : Nat]

Request == [pc : {"idle", "before", "sent", "served", "done"}, mode : Modes, verb : Verbs,
            body : Bodies, attempts : Nat,
            answer : {"none", "ok", "refused", "error", "empty"}, asked : BOOLEAN,
            applied : Nat]
Copies == [verb : Verbs, body : Bodies, late : BOOLEAN, mine : BOOLEAN]

\* A copy somebody waits for is that of the attempt under way, and copies of
\* requests that have ended are nobody's.
CopiesInv ==
  /\ req.pc = "sent" => Copy \in wire
  /\ \A c \in wire : ~c.late => req.pc = "sent" /\ c = Copy
  /\ \A c \in wire : c.mine => req.pc \notin {"idle", "done"}

\* Before the server asks for a retry a write has one copy, which is served once.
WriteInv ==
  /\ req.verb # "GET" => req.mode = "do"
  /\ req.verb # "GET" /\ ~req.asked =>
       /\ req.applied <= 1
       /\ req.pc \in {"before", "sent"} => req.applied = 0
       /\ \A c \in wire : c.mine => ~c.late

\* An answer that is there was given by the server, which has served a copy.
AnswerInv ==
  /\ req.pc = "served" => req.answer \in {"ok", "refused"}
  /\ req.pc \in {"served", "done"} /\ req.answer = "ok" => req.applied >= 1

RestInv == req \in Request /\ wire \subseteq Copies /\ CopiesInv /\ WriteInv /\ AnswerInv

----------------------------------------------------------------------------
(* The log, the sink and the server *)

Occurrence == [message : Messages, name : Names]
Entry == [count : Nat, name : Nat]

Queued == Occurrence \cup {Marker}
Sinks == [pc : {"idle", "try", "create", "request"}, key : Keys, name : Nat, count : Nat,
          tries : Nat]

LogTypeOK ==
  /\ localKeys \subseteq Messages /\ old \in BOOLEAN
  /\ eventLog \in [Keys -> Entry]
  /\ \A k \in Keys : eventLog[k].count > 0 => eventLog[k].name \in Names
  /\ tokens \in 0..Burst
  /\ sink \in Sinks
  /\ server \in [Names -> Nat]
  /\ removals \in Nat /\ behind \subseteq Keys

EventsTypeOK ==
  /\ caller \in {"recorder", "other"} /\ stopped \in {"no", "asked", "yes"}
  /\ occurred \in 0..MaxOccurs
  /\ incoming \in Seq(Queued) /\ results \in Seq(Occurrence)
  /\ LogTypeOK

\* Nothing is recorded where the client serves others.
OtherInv == caller = "other" => incoming = <<>> /\ results = <<>> /\ sink.pc = "idle"

\* The sink works on the last entry of its key, and the client's request that
\* carries an event is the sink's.
SinkInv ==
  /\ sink.pc # "idle" =>
       /\ eventLog[sink.key] = [count |-> sink.count, name |-> sink.name]
       /\ sink.count > 0
  /\ sink.pc = "request" => /\ req.pc # "idle"
                            /\ req.body = [name |-> sink.name, count |-> sink.count]
  /\ req.body # NoBody => sink.pc = "request"

\* An event's name is used in the log, on the server or on the wire.
Used(n) ==
  \/ \E k \in Keys : eventLog[k].count > 0 /\ eventLog[k].name = n
  \/ n \in Names /\ server[n] > 0
  \/ \E c \in wire : c.body # NoBody /\ c.body.name = n

\* The queues hold events in the order of their names, all of them new.
FreshInv ==
  /\ \A i, j \in 1..Len(results) : i < j => results[i].name < results[j].name
  /\ \A i, j \in 1..Len(incoming) :
       i < j /\ incoming[i] # Marker /\ incoming[j] # Marker =>
         incoming[i].name < incoming[j].name
  /\ \A i \in 1..Len(results), j \in 1..Len(incoming) :
       incoming[j] # Marker => results[i].name < incoming[j].name
  /\ \A n \in Names : Used(n) =>
       /\ n <= occurred
       /\ \A i \in 1..Len(results) : n < results[i].name
       /\ \A i \in 1..Len(incoming) : incoming[i] # Marker => n < incoming[i].name
  /\ \A i \in 1..Len(results) : results[i].name <= occurred
  /\ \A i \in 1..Len(incoming) : incoming[i].name <= occurred

\* Two entries of the log never have the same name.
NamesInv ==
  \A j, k \in Keys : eventLog[j].count > 0 /\ eventLog[k].count > 0 /\ j # k
                     => eventLog[j].name # eventLog[k].name

\* Neither the server nor a copy is ahead of the log.
BoundInv ==
  \A k \in Keys : eventLog[k].count > 0 =>
    /\ server[eventLog[k].name] <= eventLog[k].count
    /\ \A c \in wire : c.body # NoBody /\ c.body.name = eventLog[k].name
                       => c.body.count <= eventLog[k].count

\* The server has what the log says of each key that is not behind, apart from
\* the one the sink works on, and of that one too once its request is answered.
CurrentInv ==
  \A k \in Keys : eventLog[k].count > 0 /\ k \notin behind =>
    \/ server[eventLog[k].name] = eventLog[k].count
    \/ /\ sink.pc # "idle" /\ sink.key = k
       /\ ~(sink.pc = "request" /\ req.pc \in {"served", "done"} /\ req.answer = "ok")

EventsInv ==
  /\ RestInv /\ EventsTypeOK /\ OtherInv /\ SinkInv /\ FreshInv /\ NamesInv /\ BoundInv /\ CurrentInv
----------------------------------------------------------------------------
(* What the client's steps do to the request *)

LEMMA EndsIs ==
  ASSUME req \in Request, NEW a, AttemptEnds(a), a \in Faults \cup {"ok", "refused"},
         req.verb # "GET" => req.mode = "do"
  PROVE  /\ req' \in Request /\ req'.pc \in {"before", "done"}
         /\ req'.mode = req.mode /\ req'.verb = req.verb /\ req'.body = req.body
         /\ req'.applied = req.applied
         /\ req'.pc = "before" /\ req.verb # "GET" => req'.asked
         /\ req'.pc = "done" => req'.asked = req.asked /\ (req'.answer = "ok" => a = "ok")
         /\ req.asked => req'.asked
  <1> DEFINE again == [req EXCEPT !.pc = "before", !.asked = @ \/ a = "busy",
                                  !.attempts = IF @ < MaxRetries THEN @ + 1 ELSE @]
             done == [req EXCEPT !.pc = "done", !.answer = Result(a)]
  <1>1. req' = IF IsNextRetry(a) THEN again ELSE done
    BY DEF AttemptEnds
  <1>2. Result(a) \in {"ok", "empty", "error"} /\ (Result(a) = "ok" => a = "ok")
    BY DEF Result
  <1>3. CASE IsNextRetry(a)
    <2>1. req.verb # "GET" => a = "busy"
      BY <1>3 DEF IsNextRetry, IsErrorRetryable, checkWait, Errors, Faults
    <2>2. /\ again \in Request /\ again.pc = "before" /\ again.mode = req.mode
          /\ again.verb = req.verb /\ again.body = req.body /\ again.applied = req.applied
          /\ again.asked = (req.asked \/ a = "busy")
      <3> DEFINE b == req.asked \/ a = "busy"
                 n == IF req.attempts < MaxRetries THEN req.attempts + 1 ELSE req.attempts
      <3>1. b \in BOOLEAN
        OBVIOUS
      <3>2. req.attempts \in Nat
        BY DEF Request
      <3>3. n \in Nat
        BY <3>2
      <3>4. again = [req EXCEPT !.pc = "before", !.asked = b, !.attempts = n]
        BY Zenon
      <3> HIDE DEF b, n, again
      <3>5. /\ again \in Request /\ again.pc = "before" /\ again.mode = req.mode
            /\ again.verb = req.verb /\ again.body = req.body /\ again.applied = req.applied
            /\ again.asked = b
        BY <3>1, <3>3, <3>4 DEF Request
      <3> QED BY <3>5 DEF b
    <2> QED BY <1>1, <1>3, <2>1, <2>2
  <1>4. CASE ~IsNextRetry(a)
    <2>1. /\ done \in Request /\ done.pc = "done" /\ done.mode = req.mode
          /\ done.verb = req.verb /\ done.body = req.body /\ done.applied = req.applied
          /\ done.asked = req.asked /\ done.answer = Result(a)
      BY <1>2 DEF Request
    <2> QED BY <1>1, <1>2, <1>4, <2>1
  <1> QED BY <1>3, <1>4

\* Copies that lose their owner stay what they are otherwise.
LEMMA DisownIs ==
  ASSUME NEW cs, cs \subseteq Copies
  PROVE  /\ {[c EXCEPT !.mine = FALSE] : c \in cs} \subseteq Copies
         /\ \A d \in {[c EXCEPT !.mine = FALSE] : c \in cs} :
              /\ ~d.mine
              /\ \E c \in cs : d.late = c.late /\ d.body = c.body /\ d.verb = c.verb
  BY DEF Copies
\* A step of the client leaves the request what it is, puts nothing but it on
\* the wire, and makes no answer up.
ClientFacts ==
  /\ req.pc # "idle" /\ req'.pc # "idle" /\ req'.body = req.body
  /\ \A d \in wire' : d.body = req.body \/ \E c \in wire : c.body = d.body
  /\ req'.pc \in {"served", "done"} /\ req'.answer = "ok" =>
       req.pc = "served" /\ req.answer = "ok"

LEMMA NewRequestKeeps ==
  ASSUME RestInv, NEW mode \in Modes, NEW verb \in Verbs, NEW body \in Bodies,
         verb # "GET" => mode = "do", NewRequest(mode, verb, body)
  PROVE  RestInv' /\ req'.pc = "before" /\ req'.body = body
  <1>1. /\ req' \in Request /\ req'.pc = "before" /\ req'.mode = mode /\ req'.verb = verb
        /\ req'.body = body /\ req'.applied = 0 /\ ~req'.asked
    BY DEF NewRequest, NoRequest, Request
  <1>2. wire' = wire /\ req.pc = "idle"
    BY DEF NewRequest
  <1>3. \A c \in wire : ~c.mine /\ c.late
    BY <1>2 DEF RestInv, CopiesInv, Copies
  <1> QED BY <1>1, <1>2, <1>3 DEF RestInv, CopiesInv, WriteInv, AnswerInv

LEMMA BeforeKeeps ==
  ASSUME RestInv, Before PROVE RestInv' /\ ClientFacts
  <1>1. /\ req' \in Request /\ req'.pc = "sent" /\ req'.mode = req.mode
        /\ req'.verb = req.verb /\ req'.body = req.body /\ req'.applied = req.applied
        /\ req'.asked = req.asked /\ req.pc = "before"
    BY DEF Before, Request, RestInv
  <1>2. /\ Copy' = Copy /\ Copy \in Copies /\ ~Copy.late /\ Copy.mine /\ Copy.body = req.body
    BY <1>1 DEF Copy, Copies, RestInv, Request
  <1>3. wire' = wire \cup {Copy}
    BY DEF Before
  <1>4. CopiesInv' /\ wire' \subseteq Copies
    BY <1>1, <1>2, <1>3 DEF RestInv, CopiesInv
  <1>5. WriteInv' /\ AnswerInv'
    BY <1>1, <1>2, <1>3 DEF RestInv, CopiesInv, WriteInv, AnswerInv
  <1>6. ClientFacts
    BY <1>1, <1>2, <1>3 DEF ClientFacts
  <1> QED BY <1>1, <1>4, <1>5, <1>6 DEF RestInv

LEMMA ExpireKeeps ==
  ASSUME RestInv, Expire PROVE RestInv' /\ ClientFacts
  <1>1. /\ req' \in Request /\ req'.pc = "done" /\ req'.mode = req.mode
        /\ req'.verb = req.verb /\ req'.body = req.body /\ req'.applied = req.applied
        /\ req'.asked = req.asked /\ req.pc = "before" /\ req'.answer = "error"
    BY DEF Expire, Request, RestInv
  <1>2. wire' = {[c EXCEPT !.mine = FALSE] : c \in wire} /\ wire \subseteq Copies
    BY DEF Expire, RestInv
  <1>3. /\ wire' \subseteq Copies
        /\ \A d \in wire' : ~d.mine /\ \E c \in wire : d.late = c.late /\ d.body = c.body
    BY <1>2, DisownIs
  <1>4. \A c \in wire : c.late
    BY <1>1, <1>2 DEF RestInv, CopiesInv, Copies
  <1>5. CopiesInv'
    BY <1>1, <1>3, <1>4 DEF CopiesInv
  <1>6. WriteInv' /\ AnswerInv'
    BY <1>1, <1>3 DEF RestInv, WriteInv, AnswerInv
  <1>7. ClientFacts
    BY <1>1, <1>3 DEF ClientFacts
  <1> QED BY <1>1, <1>3, <1>5, <1>6, <1>7 DEF RestInv

\* The end of an attempt whose live copy is gone from cs.
LEMMA EndKeeps ==
  ASSUME RestInv, NEW a \in Faults \cup {"ok", "refused"}, AttemptEnds(a),
         req.pc \in {"sent", "served"}, a = "ok" => req.pc = "served" /\ req.answer = "ok",
         NEW cs, cs \subseteq Copies, \A c \in cs : c.late,
         \A c \in cs : c.body = req.body \/ \E e \in wire : e.body = c.body,
         wire' = Unheard(cs)
  PROVE  RestInv' /\ ClientFacts
  <1>1. /\ req' \in Request /\ req'.pc \in {"before", "done"}
        /\ req'.mode = req.mode /\ req'.verb = req.verb /\ req'.body = req.body
        /\ req'.applied = req.applied
        /\ req'.pc = "before" /\ req.verb # "GET" => req'.asked
        /\ req'.pc = "done" => req'.asked = req.asked /\ (req'.answer = "ok" => a = "ok")
        /\ req.asked => req'.asked
    BY EndsIs DEF RestInv, WriteInv
  <1>2. /\ wire' \subseteq Copies /\ \A d \in wire' : d.late
        /\ \A d \in wire' : \E c \in cs : c.body = d.body
        /\ req'.pc = "done" => \A d \in wire' : ~d.mine
    <2>1. CASE req'.pc = "done"
      <3>1. wire' = {[c EXCEPT !.mine = FALSE] : c \in cs}
        BY <2>1 DEF Unheard
      <3>2. /\ {[c EXCEPT !.mine = FALSE] : c \in cs} \subseteq Copies
            /\ \A d \in {[c EXCEPT !.mine = FALSE] : c \in cs} :
                 /\ ~d.mine
                 /\ \E c \in cs : d.late = c.late /\ d.body = c.body /\ d.verb = c.verb
        BY DisownIs
      <3> QED BY <3>1, <3>2
    <2>2. CASE req'.pc # "done"
      <3>1. wire' = cs
        BY <2>2 DEF Unheard
      <3> QED BY <2>2, <3>1
    <2> QED BY <2>1, <2>2
  <1>3. CopiesInv'
    BY <1>1, <1>2 DEF CopiesInv
  <1>4. WriteInv'
    BY <1>1, <1>2 DEF WriteInv, RestInv
  <1>5. AnswerInv'
    BY <1>1 DEF AnswerInv, RestInv
  <1>6. ClientFacts
    <2>1. \A d \in wire' : d.body = req.body \/ \E c \in wire : c.body = d.body
      BY <1>2
    <2> QED BY <1>1, <2>1 DEF ClientFacts
  <1> QED BY <1>1, <1>2, <1>3, <1>4, <1>5, <1>6 DEF RestInv

LEMMA FaultKeeps ==
  ASSUME RestInv, NEW a \in Faults, Fault(a) PROVE RestInv' /\ ClientFacts
  <1> DEFINE gone == wire \ {Copy}
             late == [Copy EXCEPT !.late = TRUE]
  <1>1. req.pc = "sent" /\ AttemptEnds(a) /\ a # "ok"
    BY DEF Fault, Faults, Errors
  <1>2. gone \subseteq Copies /\ \A c \in gone : c.late
    BY DEF RestInv, CopiesInv
  <1>3. late \in Copies /\ late.late /\ late.body = req.body
    BY DEF Copy, Copies, RestInv, Request
  <1>4. \E cs \in SUBSET Copies :
          /\ \A c \in cs : c.late /\ (c.body = req.body \/ \E e \in wire : e.body = c.body)
          /\ wire' = Unheard(cs)
    <2>1. CASE wire' = Unheard(gone)
      BY <1>2, <2>1
    <2>2. CASE wire' = Unheard(gone \cup {late})
      <3> DEFINE cs == gone \cup {late}
      <3>1. cs \in SUBSET Copies
        BY <1>2, <1>3
      <3>2. \A c \in cs : c.late /\ (c.body = req.body \/ \E e \in wire : e.body = c.body)
        BY <1>2, <1>3
      <3> HIDE DEF late, gone
      <3> QED BY <2>2, <3>1, <3>2
    <2> QED BY <2>1, <2>2 DEF Fault
  <1>5. PICK cs \in SUBSET Copies :
          /\ \A c \in cs : c.late /\ (c.body = req.body \/ \E e \in wire : e.body = c.body)
          /\ wire' = Unheard(cs)
    BY <1>4
  <1>6. a \in Faults \cup {"ok", "refused"}
    OBVIOUS
  <1> QED BY <1>1, <1>5, <1>6, EndKeeps

LEMMA ReceiveKeeps ==
  ASSUME RestInv, Receive PROVE RestInv' /\ ClientFacts
  <1>1. req.pc = "served" /\ wire' = Unheard(wire)
    BY DEF Receive
  <1>2. wire \subseteq Copies /\ \A c \in wire : c.late
    BY <1>1 DEF RestInv, CopiesInv
  <1>3. PICK a \in {req.answer} \cup Faults : AttemptEnds(a)
    BY DEF Receive
  <1>4. a \in Faults \cup {"ok", "refused"}
    BY <1>1, <1>3 DEF RestInv, AnswerInv
  <1>5. a = "ok" => req.answer = "ok"
    BY <1>3 DEF Faults, Errors
  <1>6. \A c \in wire : c.body = req.body \/ \E e \in wire : e.body = c.body
    OBVIOUS
  <1> QED BY <1>1, <1>2, <1>3, <1>4, <1>5, <1>6, EndKeeps
LEMMA AnswersKeep ==
  ASSUME RestInv, NEW c \in wire, NEW answer \in {"ok", "refused"}, Answers(c, answer)
  PROVE  /\ RestInv' /\ wire' = wire \ {c}
         /\ req'.body = req.body
         /\ c.late => req'.pc = req.pc /\ req'.answer = req.answer
         /\ ~c.late => req.pc = "sent" /\ c = Copy /\ req'.pc = "served" /\ req'.answer = answer
  <1> DEFINE p == IF c.late THEN req.pc ELSE "served"
             w == IF c.late THEN req.answer ELSE answer
             n == IF c.mine /\ answer = "ok" THEN req.applied + 1 ELSE req.applied
  <1>1. req \in Request /\ c \in Copies /\ wire \subseteq Copies
    BY DEF RestInv
  <1>2. /\ p \in {"idle", "before", "sent", "served", "done"}
        /\ w \in {"none", "ok", "refused", "error", "empty"} /\ n \in Nat
        /\ n >= req.applied /\ n <= req.applied + 1 /\ req.applied \in Nat
        /\ ~c.mine => n = req.applied
        /\ answer # "ok" => n = req.applied
        /\ c.mine /\ answer = "ok" => n = req.applied + 1
    BY <1>1 DEF Request, Copies
  <1>3. req' = [req EXCEPT !.pc = p, !.answer = w, !.applied = n] /\ wire' = wire \ {c}
    BY Zenon DEF Answers
  <1>4. c.late => p = req.pc /\ w = req.answer
    OBVIOUS
  <1>5. ~c.late => p = "served" /\ w = answer
    OBVIOUS
  <1> HIDE DEF p, w, n
  <1>6. /\ req' \in Request /\ req'.pc = p /\ req'.answer = w /\ req'.applied = n
        /\ req'.mode = req.mode /\ req'.verb = req.verb /\ req'.body = req.body
        /\ req'.asked = req.asked
    BY <1>1, <1>2, <1>3 DEF Request
  <1>7. ~c.late => req.pc = "sent" /\ c = Copy
    BY DEF RestInv, CopiesInv
  <1>8. Copy' = Copy
    BY <1>6 DEF Copy
  <1>9. ~Copy.late /\ Copy.mine
    BY DEF Copy
  <1>10. CopiesInv'
    BY <1>3, <1>4, <1>5, <1>6, <1>7, <1>8, <1>9 DEF RestInv, CopiesInv
  <1>11. WriteInv'
    <2>1. req'.verb # "GET" => req'.mode = "do"
      BY <1>6 DEF RestInv, WriteInv
    <2>2. ASSUME req'.verb # "GET", ~req'.asked
          PROVE  /\ req'.applied <= 1
                 /\ req'.pc \in {"before", "sent"} => req'.applied = 0
                 /\ \A d \in wire' : d.mine => ~d.late
      <3>1. /\ req.applied <= 1 /\ (req.pc \in {"before", "sent"} => req.applied = 0)
            /\ \A d \in wire : d.mine => ~d.late
        BY <1>6, <2>2 DEF RestInv, WriteInv
      <3>2. CASE c.late
        BY <1>2, <1>3, <1>4, <1>6, <3>1, <3>2
      <3>3. CASE ~c.late
        BY <1>2, <1>3, <1>5, <1>6, <1>7, <3>1, <3>3
      <3> QED BY <3>2, <3>3
    <2> QED BY <2>1, <2>2 DEF WriteInv
  <1>12. AnswerInv'
    <2>1. CASE c.late
      BY <1>2, <1>4, <1>6, <2>1 DEF RestInv, AnswerInv
    <2>2. CASE ~c.late
      BY <1>2, <1>5, <1>6, <1>7, <1>9, <2>2 DEF AnswerInv
    <2> QED BY <2>1, <2>2
  <1> QED BY <1>1, <1>3, <1>4, <1>5, <1>6, <1>7, <1>10, <1>11, <1>12 DEF RestInv

LEMMA ResetKeeps ==
  ASSUME RestInv, req.pc = "done", req' = NoRequest, wire' = wire
  PROVE  RestInv' /\ req'.pc = "idle" /\ req'.body = NoBody
  <1>1. /\ req' \in Request /\ req'.pc = "idle" /\ req'.body = NoBody /\ req'.verb = "GET"
    BY DEF Request, NoRequest, Modes, Verbs, Bodies
  <1> QED BY <1>1 DEF RestInv, CopiesInv, WriteInv, AnswerInv

\* The invariant says what WriteIsNotRepeated says.
LEMMA RestInvImplies == RestInv => WriteIsNotRepeated
  <1> SUFFICES ASSUME RestInv PROVE WriteIsNotRepeated
    OBVIOUS
  <1>1. req.applied \in Nat /\ req.asked \in BOOLEAN
    BY DEF RestInv, Request
  <1> QED BY <1>1 DEF RestInv, WriteInv, AnswerInv, WriteIsNotRepeated, Succeeded
----------------------------------------------------------------------------
(* The queues *)

LEMMA FreshKept ==
  ASSUME FreshInv, UNCHANGED <<occurred, incoming, results>>,
         \A n \in Names : Used(n)' => Used(n)
  PROVE  FreshInv'
  BY DEF FreshInv

LEMMA UsedSame ==
  ASSUME UNCHANGED <<wire, eventLog, server>>, NEW n PROVE Used(n)' <=> Used(n)
  BY DEF Used

LEMMA AppendIs ==
  ASSUME NEW S, NEW q \in Seq(S), NEW x \in S
  PROVE  /\ Append(q, x) \in Seq(S) /\ Len(Append(q, x)) = Len(q) + 1
         /\ \A i \in 1..Len(q) : Append(q, x)[i] = q[i]
         /\ Append(q, x)[Len(q) + 1] = x
  OBVIOUS

LEMMA TailIs ==
  ASSUME NEW S, NEW q \in Seq(S), q # <<>>
  PROVE  /\ Tail(q) \in Seq(S) /\ Len(Tail(q)) = Len(q) - 1 /\ Len(q) \in Nat \ {0}
         /\ \A i \in 1..Len(Tail(q)) : Tail(q)[i] = q[i + 1] /\ i + 1 \in 1..Len(q)
         /\ Head(q) = q[1] /\ Head(q) \in S
  OBVIOUS

\* What the queues' own steps leave alone.
LEMMA QueueStepKeeps ==
  ASSUME EventsInv, EventsTypeOK', FreshInv', OtherInv',
         UNCHANGED <<restVars, caller, correlator, sink, server, removals, behind>>
  PROVE  EventsInv'
  <1>1. UNCHANGED <<req, wire, eventLog, sink, server, behind>>
    BY DEF restVars, correlator
  <1>2. RestInv'
    BY <1>1 DEF EventsInv, RestInv, CopiesInv, WriteInv, AnswerInv, Copy
  <1>3. SinkInv' /\ NamesInv' /\ BoundInv' /\ CurrentInv'
    BY <1>1 DEF EventsInv, SinkInv, NamesInv, BoundInv, CurrentInv
  <1> QED BY <1>2, <1>3 DEF EventsInv

LEMMA QueuedIs ==
  /\ \A n \in Names : n \in Int
  /\ \A e \in Occurrence : e.name \in Int /\ e.name \in Names /\ e.message \in Messages
                           /\ e # Marker /\ e \in Queued
  /\ \A e \in Queued : e.name \in Int /\ (e # Marker => e \in Occurrence)
  /\ Marker \in Queued /\ Marker.name = 0
  <1>1. /\ \A n \in Names : n \in Int /\ n # 0
        /\ \A e \in Occurrence : e.name \in Names /\ e.message \in Messages
        /\ Marker.name = 0
    BY EventsAssumption DEF Names, Occurrence, Marker
  <1>2. \A e \in Occurrence : e # Marker
    BY <1>1
  <1> QED BY <1>1, <1>2 DEF Queued

LEMMA QueueNames ==
  ASSUME EventsTypeOK
  PROVE  /\ Len(results) \in Nat /\ Len(incoming) \in Nat
         /\ \A i \in 1..Len(results) : results[i] \in Occurrence /\ results[i].name \in Int
         /\ \A i \in 1..Len(incoming) : incoming[i] \in Queued /\ incoming[i].name \in Int
  <1>1. incoming \in Seq(Queued) /\ results \in Seq(Occurrence)
    BY DEF EventsTypeOK
  <1>2. /\ Len(results) \in Nat /\ Len(incoming) \in Nat
        /\ \A i \in 1..Len(results) : results[i] \in Occurrence
        /\ \A i \in 1..Len(incoming) : incoming[i] \in Queued
    BY <1>1
  <1> QED BY <1>2, QueuedIs

LEMMA GenerateKeeps ==
  ASSUME EventsInv, NEW m \in Messages, generateEvent(m) PROVE EventsInv'
  <1> DEFINE e == [message |-> m, name |-> occurred + 1]
  <1>1. /\ occurred \in Nat /\ occurred' = occurred + 1 /\ occurred' \in 0..MaxOccurs
        /\ occurred + 1 \in Names /\ caller = "recorder" /\ results' = results
    BY EventsAssumption DEF generateEvent, EventsInv, EventsTypeOK, Names
  <1>2. e \in Occurrence /\ e \in Queued /\ e.name = occurred + 1
    BY <1>1 DEF Occurrence, Queued
  <1>3. e # Marker
    BY <1>1 DEF Marker
  <1> HIDE DEF e
  <1>4. incoming \in Seq(Queued) /\ results \in Seq(Occurrence)
    BY DEF EventsInv, EventsTypeOK
  <1>5. incoming' = Append(incoming, e) \/ incoming' = incoming
    BY DEF generateEvent, e
  <1>6. incoming' \in Seq(Queued)
    BY <1>2, <1>4, <1>5
  <1>7. UNCHANGED <<restVars, caller, correlator, sink, server, removals, behind, stopped>>
    BY DEF generateEvent
  <1>8. EventsTypeOK'
    <2>1. UNCHANGED <<caller, localKeys, old, eventLog, tokens, sink, server, removals, behind,
                      stopped, results>>
      BY <1>1, <1>7 DEF correlator
    <2>2. /\ caller \in {"recorder", "other"} /\ stopped \in {"no", "asked", "yes"}
          /\ results \in Seq(Occurrence) /\ LogTypeOK
      BY DEF EventsInv, EventsTypeOK
    <2>3. LogTypeOK'
      BY <2>1, <2>2 DEF LogTypeOK
    <2> QED BY <1>1, <1>6, <2>1, <2>2, <2>3 DEF EventsTypeOK
  <1>9. OtherInv'
    BY <1>1, <1>7 DEF OtherInv
  <1>10. FreshInv'
    <2>1. \A n \in Names : Used(n)' => Used(n)
      BY <1>7, UsedSame DEF restVars, correlator
    <2>2. CASE incoming' = incoming
      <3>1. /\ \A n \in Names : n \in Int
            /\ \A i \in 1..Len(results) : results[i].name \in Int
            /\ \A i \in 1..Len(incoming) : incoming[i].name \in Int
        BY QueuedIs, QueueNames DEF EventsInv
      <3> QED BY SMTT(30), <1>1, <2>1, <2>2, <3>1 DEF EventsInv, FreshInv
    <2>3. CASE incoming' = Append(incoming, e)
      <3> DEFINE L == Len(incoming)
      <3>1. /\ L \in Nat /\ Len(incoming') = L + 1 /\ incoming'[L + 1] = e
            /\ \A i \in 1..L : incoming'[i] = incoming[i]
        BY <1>2, <1>4, <2>3, AppendIs
      <3>2. /\ \A n \in Names : n \in Int
            /\ \A i \in 1..Len(results) : results[i].name \in Int
            /\ \A i \in 1..L : incoming[i].name \in Int
        BY QueuedIs, QueueNames DEF EventsInv
      <3>3. \A i \in 1..Len(incoming') : i \in 1..L \/ i = L + 1
        BY <3>1
      <3> HIDE DEF L
      <3>4. \A i, j \in 1..Len(incoming') :
              i < j /\ incoming'[i] # Marker /\ incoming'[j] # Marker =>
                incoming'[i].name < incoming'[j].name
        <4> SUFFICES ASSUME NEW i \in 1..Len(incoming'), NEW j \in 1..Len(incoming'), i < j,
                            incoming'[i] # Marker, incoming'[j] # Marker
                     PROVE  incoming'[i].name < incoming'[j].name
          OBVIOUS
        <4>1. i \in 1..L
          BY <3>1
        <4>2. CASE j \in 1..L
          BY <3>1, <4>1, <4>2 DEF EventsInv, FreshInv, L
        <4>3. CASE j = L + 1
          BY <1>1, <1>2, <3>1, <3>2, <4>1, <4>3 DEF EventsInv, FreshInv, L
        <4> QED BY <3>3, <4>2, <4>3
      <3>5. \A i \in 1..Len(incoming') : incoming'[i].name <= occurred'
        BY <1>1, <1>2, <3>1, <3>2, <3>3 DEF EventsInv, FreshInv, L
      <3>6. \A i \in 1..Len(results'), j \in 1..Len(incoming') :
              incoming'[j] # Marker => results'[i].name < incoming'[j].name
        BY <1>1, <1>2, <3>1, <3>2, <3>3 DEF EventsInv, FreshInv, L
      <3>7. \A n \in Names : Used(n)' =>
              /\ n <= occurred'
              /\ \A i \in 1..Len(results') : n < results'[i].name
              /\ \A i \in 1..Len(incoming') : incoming'[i] # Marker => n < incoming'[i].name
        BY <1>1, <1>2, <2>1, <3>1, <3>2, <3>3 DEF EventsInv, FreshInv, L
      <3>8. /\ \A i \in 1..Len(results') : results'[i].name <= occurred'
            /\ \A i, j \in 1..Len(results') : i < j => results'[i].name < results'[j].name
        BY <1>1, <3>2 DEF EventsInv, FreshInv
      <3> QED BY <3>4, <3>5, <3>6, <3>7, <3>8 DEF FreshInv
    <2> QED BY <1>5, <2>2, <2>3
  <1> QED BY <1>7, <1>8, <1>9, <1>10, QueueStepKeeps
LEMMA ShutdownKeeps ==
  ASSUME EventsInv, Shutdown PROVE EventsInv'
  <1>1. incoming \in Seq(Queued) /\ results \in Seq(Occurrence) /\ occurred \in Nat
    BY DEF EventsInv, EventsTypeOK
  <1>2. /\ incoming' = Append(incoming, Marker) /\ stopped' = "asked" /\ caller = "recorder"
        /\ UNCHANGED <<restVars, caller, correlator, sink, server, removals, behind>>
        /\ UNCHANGED <<occurred, results>>
    BY DEF Shutdown
  <1> DEFINE L == Len(incoming)
  <1>3. /\ L \in Nat /\ Len(incoming') = L + 1 /\ incoming'[L + 1] = Marker
        /\ \A i \in 1..L : incoming'[i] = incoming[i]
        /\ incoming' \in Seq(Queued)
    BY <1>1, <1>2, QueuedIs, AppendIs
  <1>4. EventsTypeOK'
    <2>1. UNCHANGED <<caller, localKeys, old, eventLog, tokens, sink, server, removals, behind,
                      occurred, results>>
      BY <1>2 DEF correlator
    <2>2. /\ caller \in {"recorder", "other"} /\ occurred \in 0..MaxOccurs
          /\ results \in Seq(Occurrence) /\ LogTypeOK
      BY DEF EventsInv, EventsTypeOK
    <2>3. LogTypeOK'
      BY <2>1, <2>2 DEF LogTypeOK
    <2> QED BY <1>2, <1>3, <2>1, <2>2, <2>3 DEF EventsTypeOK
  <1>5. OtherInv'
    BY <1>2 DEF OtherInv
  <1>6. FreshInv'
    <2>1. \A n \in Names : Used(n)' => Used(n)
      BY <1>2, UsedSame DEF restVars, correlator
    <2>2. \A i \in 1..Len(incoming') : i \in 1..L \/ incoming'[i] = Marker
      BY <1>3
    <2>3. Marker.name <= occurred
      BY <1>1, QueuedIs
    <2> HIDE DEF L
    <2> QED BY <1>2, <1>3, <2>1, <2>2, <2>3 DEF EventsInv, FreshInv, L
  <1> QED BY <1>2, <1>4, <1>5, <1>6, QueueStepKeeps

LEMMA LoopKeeps ==
  ASSUME EventsInv, Loop PROVE EventsInv'
  <1>1. /\ incoming \in Seq(Queued) /\ incoming # <<>> /\ results \in Seq(Occurrence)
        /\ occurred \in Nat /\ stopped \in {"no", "asked", "yes"}
    BY DEF EventsInv, EventsTypeOK, Loop
  <1>2. /\ incoming' = Tail(incoming)
        /\ UNCHANGED <<restVars, caller, correlator, sink, server, removals, behind, occurred>>
    BY DEF Loop
  <1> DEFINE h == Head(incoming)
             L == Len(incoming)
             R == Len(results)
  <1>3. /\ incoming' \in Seq(Queued) /\ L \in Nat \ {0} /\ Len(incoming') = L - 1
        /\ \A i \in 1..Len(incoming') : incoming'[i] = incoming[i + 1] /\ i + 1 \in 1..L
        /\ h = incoming[1] /\ 1 \in 1..L
    BY <1>1, <1>2, TailIs
  <1>4. h \in Queued
    BY <1>1, TailIs
  <1>5. \/ results' = results /\ stopped' \in {"no", "asked", "yes"}
        \/ results' = Append(results, h) /\ h \in Occurrence /\ stopped' = stopped
    BY <1>4, QueuedIs, <1>1 DEF Loop
  <1>6. results' \in Seq(Occurrence) /\ stopped' \in {"no", "asked", "yes"}
    BY <1>1, <1>5, AppendIs
  <1>7. EventsTypeOK'
    <2>1. UNCHANGED <<caller, localKeys, old, eventLog, tokens, sink, server, removals, behind,
                      occurred>>
      BY <1>2 DEF correlator
    <2>2. /\ caller \in {"recorder", "other"} /\ occurred \in 0..MaxOccurs
          /\ LogTypeOK
      BY DEF EventsInv, EventsTypeOK
    <2>3. LogTypeOK'
      BY <2>1, <2>2 DEF LogTypeOK
    <2> QED BY <1>3, <1>6, <2>1, <2>2, <2>3 DEF EventsTypeOK
  <1>8. OtherInv'
    BY <1>1, <1>2 DEF OtherInv, EventsInv
  <1>9. FreshInv'
    <2>1. \A n \in Names : Used(n)' => Used(n)
      BY <1>2, UsedSame DEF restVars, correlator
    <2>2. /\ R \in Nat /\ \A i \in 1..R : results[i].name \in Int
          /\ \A i \in 1..L : incoming[i].name \in Int
      BY QueueNames DEF EventsInv
    <2>3. \A i \in 1..Len(incoming') : i \in Int
      BY <1>3
    <2> HIDE DEF L, R, h
    <2>4. \A i \in 1..Len(results') : i \in 1..R \/ (results' = Append(results, h) /\ i = R + 1)
      <3>1. R \in Nat
        BY <1>1 DEF R
      <3>2. CASE results' = results
        <4>1. Len(results') = R
          BY <3>2 DEF R
        <4> QED BY <3>1, <4>1
      <3>3. CASE results' = Append(results, h) /\ h \in Occurrence
        <4>1. Len(results') = R + 1
          BY <1>1, <3>3, AppendIs DEF R
        <4>2. \A i \in 1..(R + 1) : i \in 1..R \/ i = R + 1
          BY <3>1
        <4> QED BY <3>3, <4>1, <4>2
      <3> QED BY <1>5, <3>2, <3>3
    <2>5. \A i \in 1..R : results'[i] = results[i]
      BY <1>1, <1>5, AppendIs DEF R
    <2>6. results' = Append(results, h) => results'[R + 1] = h /\ h # Marker
      BY <1>1, <1>5, AppendIs, QueuedIs DEF R
    <2>7. \A j \in 1..Len(incoming'), i \in 1..Len(incoming') : i < j => i + 1 < j + 1
      BY <2>3
    <2>8. \A j \in 1..Len(incoming') : 1 < j + 1
      BY <1>3
    <2>9. \A i, j \in 1..Len(incoming') :
              i < j /\ incoming'[i] # Marker /\ incoming'[j] # Marker =>
                incoming'[i].name < incoming'[j].name
      BY <1>3, <2>7 DEF EventsInv, FreshInv, L
    <2>10. \A i \in 1..Len(incoming') : incoming'[i].name <= occurred'
      BY <1>2, <1>3 DEF EventsInv, FreshInv, L
    <2>11. \A i, j \in 1..Len(results') : i < j => results'[i].name < results'[j].name
      <3> SUFFICES ASSUME NEW i \in 1..Len(results'), NEW j \in 1..Len(results'), i < j
                   PROVE  results'[i].name < results'[j].name
        OBVIOUS
      <3>1. i \in 1..R
        <4>1. i \in Int /\ j \in Int /\ j <= R + 1
          BY <2>2, <2>4
        <4> QED BY <2>2, <2>4, <4>1
      <3>2. CASE j \in 1..R
        BY <2>5, <3>1, <3>2 DEF EventsInv, FreshInv, R
      <3>3. CASE j \notin 1..R
        BY <1>3, <2>4, <2>5, <2>6, <3>1, <3>3 DEF EventsInv, FreshInv, R, L
      <3> QED BY <3>2, <3>3
    <2>12. \A i \in 1..Len(results'), j \in 1..Len(incoming') :
              incoming'[j] # Marker => results'[i].name < incoming'[j].name
      BY SMTT(30), <1>3, <2>4, <2>5, <2>6, <2>8 DEF EventsInv, FreshInv, L, R
    <2>13. \A n \in Names : Used(n)' =>
              /\ n <= occurred'
              /\ \A i \in 1..Len(results') : n < results'[i].name
              /\ \A i \in 1..Len(incoming') : incoming'[i] # Marker => n < incoming'[i].name
      BY <1>2, <1>3, <2>1, <2>4, <2>5, <2>6 DEF EventsInv, FreshInv, L, R
    <2>14. \A i \in 1..Len(results') : results'[i].name <= occurred'
      BY <1>2, <1>3, <2>4, <2>5, <2>6 DEF EventsInv, FreshInv, L, R
    <2> QED BY <2>9, <2>10, <2>11, <2>12, <2>13, <2>14 DEF FreshInv
  <1> QED BY <1>2, <1>7, <1>8, <1>9, QueueStepKeeps
----------------------------------------------------------------------------
(* The correlator *)

LEMMA AggregateIs ==
  ASSUME NEW m \in Messages, localKeys \subseteq Messages, NEW a \in EventAggregate(m)
  PROVE  a.key \in Keys /\ a.keys \subseteq Messages
  <1> DEFINE keys == (IF old THEN {} ELSE localKeys) \cup {m}
  <1>1. keys \subseteq Messages
    OBVIOUS
  <1>2. \/ a = [key |-> m, keys |-> keys]
        \/ \E x \in keys : a = [key |-> Combined, keys |-> keys \ {x}]
    BY DEF EventAggregate
  <1> HIDE DEF keys
  <1> QED BY <1>1, <1>2 DEF Keys

LEMMA RecordToSinkKeeps ==
  ASSUME EventsInv, recordToSink PROVE EventsInv'
  <1>1. /\ results \in Seq(Occurrence) /\ results # <<>> /\ sink.pc = "idle"
        /\ results' = Tail(results) /\ old' = FALSE
        /\ UNCHANGED <<req, wire, caller, occurred, incoming, stopped, server, removals>>
    BY DEF EventsInv, EventsTypeOK, recordToSink, restVars
  <1> DEFINE h == Head(results)
             L == Len(results)
  <1>2. /\ results' \in Seq(Occurrence) /\ L \in Nat \ {0} /\ Len(results') = L - 1
        /\ \A i \in 1..Len(results') : results'[i] = results[i + 1] /\ i + 1 \in 1..L
        /\ h = results[1] /\ 1 \in 1..L /\ h \in Occurrence
    BY <1>1, TailIs
  <1>3. h.message \in Messages /\ h.name \in Names /\ h.name \in Int /\ h.name \in Nat
    BY <1>2, QueuedIs DEF Names
  <1>4. LogTypeOK /\ EventsTypeOK
    BY DEF EventsInv, EventsTypeOK
  <1>5. PICK a \in EventAggregate(h.message) :
          LET entry == eventObserve(a.key, h.name)
          IN /\ localKeys' = a.keys
             /\ eventLog' = [eventLog EXCEPT ![a.key] = entry]
             /\ \/ /\ tokens = 0
                   /\ behind' = behind \cup {a.key}
                   /\ UNCHANGED <<tokens, sink>>
                \/ /\ tokens > 0 /\ tokens' = tokens - 1
                   /\ sink' = [pc |-> "try", key |-> a.key, name |-> entry.name,
                               count |-> entry.count, tries |-> 0]
                   /\ UNCHANGED behind
    BY DEF recordToSink
  <1> DEFINE key == a.key
             entry == eventObserve(key, h.name)
  <1>6. key \in Keys /\ localKeys' \subseteq Messages
    BY <1>3, <1>4, <1>5, AggregateIs DEF LogTypeOK
  <1>7. /\ entry \in Entry /\ entry.count > 0 /\ entry.name \in Names
        /\ eventLog[key].count > 0 => entry.count = eventLog[key].count + 1
                                      /\ entry.name = eventLog[key].name
        /\ eventLog[key].count = 0 => entry.count = 1 /\ entry.name = h.name
        /\ eventLog[key].count \in Nat
    BY <1>3, <1>4, <1>6 DEF eventObserve, LogTypeOK, Entry
  <1>8. entry = [count |-> entry.count, name |-> entry.name]
    BY <1>7 DEF Entry
  <1>9. eventLog' = [eventLog EXCEPT ![key] = entry]
    BY <1>5
  <1>10. \/ tokens = 0 /\ behind' = behind \cup {key} /\ tokens' = tokens /\ sink' = sink
         \/ /\ tokens > 0 /\ tokens' = tokens - 1 /\ behind' = behind
            /\ sink' = [pc |-> "try", key |-> key, name |-> entry.name,
                        count |-> entry.count, tries |-> 0]
    BY <1>5
  <1> HIDE DEF h, L, key, entry
  <1>11. /\ eventLog' \in [Keys -> Entry] /\ eventLog'[key] = entry
         /\ \A k \in Keys : k # key => eventLog'[k] = eventLog[k]
         /\ eventLog \in [Keys -> Entry]
    BY <1>4, <1>6, <1>7, <1>9 DEF LogTypeOK
  <1>12. \A k \in Keys : eventLog[k].count \in Nat /\ eventLog'[k].count \in Nat
    BY <1>11 DEF Entry
  <1>13. \A n \in Names : Used(n) => n < h.name
    BY <1>2 DEF EventsInv, FreshInv, L
  <1>14. /\ sink' \in Sinks /\ behind' \subseteq Keys /\ tokens' \in 0..Burst
         /\ sink'.pc = "idle" \/ (sink'.pc = "try" /\ sink'.key = key)
         /\ sink'.pc # "idle" => sink'.count = entry.count /\ sink'.name = entry.name
         /\ sink'.pc = "idle" => key \in behind'
         /\ behind \subseteq behind'
    <2>1. /\ sink \in Sinks /\ behind \subseteq Keys /\ tokens \in 0..Burst /\ Burst \in Nat
      BY <1>4, EventsAssumption DEF LogTypeOK
    <2>2. entry.name \in Nat /\ entry.count \in Nat
      BY <1>7 DEF Entry
    <2> QED BY <1>1, <1>6, <1>10, <2>1, <2>2 DEF Sinks
  <1>15. EventsTypeOK'
    <2>1. \A k \in Keys : eventLog'[k].count > 0 => eventLog'[k].name \in Names
      BY <1>4, <1>7, <1>11 DEF LogTypeOK
    <2>2. LogTypeOK'
      BY <1>1, <1>4, <1>6, <1>11, <1>14, <2>1 DEF LogTypeOK
    <2> QED BY <1>1, <1>2, <1>4, <2>2 DEF EventsTypeOK
  <1>16. RestInv'
    BY <1>1 DEF EventsInv, RestInv, CopiesInv, WriteInv, AnswerInv, Copy
  <1>17. OtherInv'
    BY <1>1 DEF EventsInv, OtherInv
  <1>18. SinkInv'
    <2>1. sink'.pc # "idle" => eventLog'[sink'.key] = [count |-> sink'.count, name |-> sink'.name]
                               /\ sink'.count > 0
      BY <1>7, <1>8, <1>11, <1>14
    <2>2. req.body = NoBody /\ sink'.pc # "request"
      BY <1>1, <1>14 DEF EventsInv, SinkInv
    <2> QED BY <1>1, <2>1, <2>2 DEF SinkInv
  <1>19. \A n \in Names : Used(n)' => Used(n) \/ n = h.name
    <2> SUFFICES ASSUME NEW n \in Names, Used(n)', ~Used(n) PROVE n = h.name
      OBVIOUS
    <2>1. PICK k \in Keys : eventLog'[k].count > 0 /\ eventLog'[k].name = n
      BY <1>1 DEF Used
    <2>2. k = key /\ ~(eventLog[key].count > 0)
      BY <1>7, <1>11, <2>1 DEF Used
    <2> QED BY <1>7, <1>11, <2>1, <2>2
  <1>20. FreshInv'
    <2>1. /\ \A i \in 1..L : results[i].name \in Int
          /\ \A i \in 1..Len(incoming) : incoming[i].name \in Int
          /\ \A n \in Names : n \in Int
      BY <1>4, QueueNames, QueuedIs DEF L
    <2>2. \A i \in 1..Len(results') : i \in Int /\ 1 < i + 1
      BY <1>2
    <2>3. \A n \in Names : Used(n)' =>
              /\ n <= occurred'
              /\ \A i \in 1..Len(results') : n < results'[i].name
              /\ \A i \in 1..Len(incoming') : incoming'[i] # Marker => n < incoming'[i].name
      BY <1>1, <1>2, <1>19, <2>2 DEF EventsInv, FreshInv, L
    <2>4. \A i, j \in 1..Len(results') : i < j => results'[i].name < results'[j].name
      <3>1. \A i, j \in 1..Len(results') : i < j => i + 1 < j + 1
        BY <2>2
      <3> QED BY <1>2, <3>1 DEF EventsInv, FreshInv, L
    <2>5. \A i \in 1..Len(results'), j \in 1..Len(incoming') :
              incoming'[j] # Marker => results'[i].name < incoming'[j].name
      BY <1>1, <1>2 DEF EventsInv, FreshInv, L
    <2>6. \A i \in 1..Len(results') : results'[i].name <= occurred'
      BY <1>1, <1>2 DEF EventsInv, FreshInv, L
    <2> QED BY <1>1, <2>3, <2>4, <2>5, <2>6 DEF EventsInv, FreshInv
  <1>21. \A k \in Keys : eventLog[k].count > 0 => Used(eventLog[k].name)
    BY DEF Used
  <1>22. \A k \in Keys : eventLog[k].count > 0 => eventLog[k].name \in Names
    BY <1>4 DEF LogTypeOK
  <1>23. NamesInv'
    <2>1. \A k \in Keys : eventLog[k].count > 0 /\ k # key => eventLog[k].name # entry.name
      <3> SUFFICES ASSUME NEW k \in Keys, eventLog[k].count > 0, k # key
                   PROVE  eventLog[k].name # entry.name
        OBVIOUS
      <3>1. CASE eventLog[key].count > 0
        BY <1>6, <1>7, <3>1 DEF EventsInv, NamesInv
      <3>2. CASE eventLog[key].count = 0
        BY <1>3, <1>7, <1>13, <1>21, <1>22, <3>2
      <3> QED BY <1>7, <3>1, <3>2
    <2> QED BY <1>11, <2>1 DEF EventsInv, NamesInv
  <1>24. BoundInv'
    <2>1. \A k \in Keys : k # key /\ eventLog'[k].count > 0 =>
            /\ server'[eventLog'[k].name] <= eventLog'[k].count
            /\ \A c \in wire' : c.body # NoBody /\ c.body.name = eventLog'[k].name
                                => c.body.count <= eventLog'[k].count
      BY <1>1, <1>11 DEF EventsInv, BoundInv
    <2>2. /\ server[entry.name] <= entry.count
          /\ \A c \in wire : c.body # NoBody /\ c.body.name = entry.name
                              => c.body.count <= entry.count
      <3>1. CASE eventLog[key].count > 0
        <4>1. /\ server[entry.name] <= eventLog[key].count
              /\ \A c \in wire : c.body # NoBody /\ c.body.name = entry.name
                                 => c.body.count <= eventLog[key].count
          BY <1>6, <1>7, <3>1 DEF EventsInv, BoundInv
        <4>2. /\ server[entry.name] \in Nat
              /\ \A c \in wire : c.body # NoBody => c.body.count \in Nat
          BY <1>4, <1>7 DEF LogTypeOK, EventsInv, RestInv, Copies, Bodies
        <4> QED BY <1>7, <3>1, <4>1, <4>2
      <3>2. CASE eventLog[key].count = 0
        <4>1. entry.name = h.name /\ entry.count = 1
          BY <1>7, <3>2
        <4>2. ~Used(h.name)
          BY <1>3, <1>13
        <4>3. server[h.name] = 0
          BY <1>3, <1>4, <4>2 DEF Used, LogTypeOK
        <4>4. \A c \in wire : ~(c.body # NoBody /\ c.body.name = h.name)
          BY <4>2 DEF Used
        <4> QED BY <4>1, <4>3, <4>4
      <3> QED BY <1>7, <3>1, <3>2
    <2> QED BY <1>1, <1>11, <2>1, <2>2 DEF BoundInv
  <1>25. CurrentInv'
    <2>1. \A k \in Keys : k # key /\ eventLog'[k].count > 0 /\ k \notin behind' =>
            server'[eventLog'[k].name] = eventLog'[k].count
      BY <1>1, <1>11, <1>14 DEF EventsInv, CurrentInv
    <2>2. key \notin behind' => sink'.pc = "try" /\ sink'.key = key
      BY <1>14
    <2> QED BY <2>1, <2>2 DEF CurrentInv
  <1> QED BY <1>15, <1>16, <1>17, <1>18, <1>20, <1>23, <1>24, <1>25 DEF EventsInv
\* The token bucket and the age of the aggregate record are nobody else's.
LEMMA RefillAgeKeep ==
  ASSUME EventsInv, Refill \/ Age PROVE EventsInv'
  <1>1. /\ UNCHANGED <<req, wire, caller, occurred, incoming, results, stopped, localKeys,
                       eventLog, sink, server, removals, behind>>
        /\ tokens' \in 0..Burst /\ old' \in BOOLEAN
    <2>1. tokens \in 0..Burst /\ old \in BOOLEAN /\ Burst \in Nat
      BY EventsAssumption DEF EventsInv, EventsTypeOK, LogTypeOK
    <2>2. CASE Refill
      BY <2>1, <2>2 DEF Refill, restVars, queues
    <2>3. CASE Age
      BY <2>1, <2>3 DEF Age, restVars, queues
    <2> QED BY <2>2, <2>3
  <1>2. RestInv'
    BY <1>1 DEF EventsInv, RestInv, CopiesInv, WriteInv, AnswerInv, Copy
  <1>3. OtherInv' /\ SinkInv' /\ NamesInv' /\ BoundInv' /\ CurrentInv'
    BY <1>1 DEF EventsInv, OtherInv, SinkInv, NamesInv, BoundInv, CurrentInv
  <1>4. EventsTypeOK'
    BY <1>1 DEF EventsInv, EventsTypeOK, LogTypeOK
  <1>5. FreshInv'
    BY <1>1, UsedSame, FreshKept DEF EventsInv
  <1> QED BY <1>2, <1>3, <1>4, <1>5 DEF EventsInv

LEMMA EvictKeeps ==
  ASSUME EventsInv, NEW k \in Keys, Evict(k) PROVE EventsInv'
  <1>1. /\ UNCHANGED <<req, wire, caller, occurred, incoming, results, stopped, localKeys, old,
                       tokens, sink, server>>
        /\ eventLog' = [eventLog EXCEPT ![k] = NoEntry] /\ sink.pc = "idle"
        /\ behind' = behind \ {k} /\ removals' = removals + 1
    BY DEF Evict, restVars, queues
  <1>2. LogTypeOK /\ eventLog \in [Keys -> Entry]
    BY DEF EventsInv, EventsTypeOK, LogTypeOK
  <1>3. NoEntry \in Entry /\ ~(NoEntry.count > 0)
    BY DEF NoEntry, Entry
  <1>4. /\ eventLog' \in [Keys -> Entry] /\ ~(eventLog'[k].count > 0)
        /\ \A j \in Keys : j # k => eventLog'[j] = eventLog[j]
    BY <1>1, <1>2, <1>3
  <1>5. RestInv'
    BY <1>1 DEF EventsInv, RestInv, CopiesInv, WriteInv, AnswerInv, Copy
  <1>6. OtherInv' /\ SinkInv'
    BY <1>1 DEF EventsInv, OtherInv, SinkInv
  <1>7. EventsTypeOK'
    <2>1. LogTypeOK'
      BY <1>1, <1>2, <1>4 DEF LogTypeOK
    <2> QED BY <1>1, <2>1 DEF EventsInv, EventsTypeOK
  <1>8. FreshInv'
    <2>1. \A n \in Names : Used(n)' => Used(n)
      BY <1>1, <1>4 DEF Used
    <2> QED BY <1>1, <2>1, FreshKept DEF EventsInv
  <1>9. NamesInv' /\ BoundInv' /\ CurrentInv'
    BY <1>1, <1>4 DEF EventsInv, NamesInv, BoundInv, CurrentInv
  <1> QED BY <1>5, <1>6, <1>7, <1>8, <1>9 DEF EventsInv

----------------------------------------------------------------------------
(* The sink *)

LEMMA RecordEventKeeps ==
  ASSUME EventsInv, recordEvent PROVE EventsInv'
  <1> DEFINE verb == IF sink.pc = "create" \/ sink.count = 1 THEN "POST" ELSE "PATCH"
             body == [name |-> sink.name, count |-> sink.count]
  <1>1. /\ UNCHANGED <<caller, occurred, incoming, results, stopped, localKeys, old, eventLog,
                       tokens, server, removals, behind>>
        /\ sink.pc \in {"try", "create"} /\ NewRequest("do", verb, body)
        /\ sink' = [sink EXCEPT !.pc = "request"]
    BY DEF recordEvent, queues, correlator
  <1>2. LogTypeOK /\ sink \in Sinks /\ sink.pc # "idle"
    BY <1>1 DEF EventsInv, EventsTypeOK, LogTypeOK
  <1>3. /\ eventLog[sink.key] = [count |-> sink.count, name |-> sink.name]
        /\ sink.count > 0 /\ sink.key \in Keys
    BY <1>2 DEF EventsInv, SinkInv, Sinks
  <1>4. body \in Bodies
    <2>1. eventLog[sink.key].count = sink.count /\ eventLog[sink.key].name = sink.name
      BY <1>3
    <2>2. sink.name \in Names /\ sink.count \in Nat
      BY <1>2, <1>3, <2>1 DEF LogTypeOK, Sinks
    <2> QED BY <2>2 DEF Bodies
  <1>5. verb \in Verbs /\ "do" \in Modes
    BY DEF Verbs, Modes
  <1>6. wire' = wire
    BY <1>1 DEF NewRequest
  <1> HIDE DEF verb, body
  <1>7. RestInv' /\ req'.pc = "before" /\ req'.body = body
    BY <1>1, <1>4, <1>5, NewRequestKeeps DEF EventsInv
  <1>8. /\ sink' \in Sinks /\ sink'.pc = "request" /\ sink'.key = sink.key
        /\ sink'.name = sink.name /\ sink'.count = sink.count
    BY <1>1, <1>2 DEF Sinks
  <1>9. OtherInv' /\ SinkInv'
    BY <1>1, <1>2, <1>3, <1>7, <1>8 DEF EventsInv, OtherInv, SinkInv, body
  <1>10. EventsTypeOK'
    <2>1. LogTypeOK'
      BY <1>1, <1>2, <1>8 DEF LogTypeOK
    <2> QED BY <1>1, <2>1 DEF EventsInv, EventsTypeOK
  <1>11. FreshInv'
    BY <1>1, <1>6, UsedSame, FreshKept DEF EventsInv
  <1>12. NamesInv' /\ BoundInv'
    BY <1>1, <1>6 DEF EventsInv, NamesInv, BoundInv
  <1>13. CurrentInv'
    BY <1>1, <1>7, <1>8 DEF EventsInv, CurrentInv
  <1> QED BY <1>7, <1>9, <1>10, <1>11, <1>12, <1>13 DEF EventsInv

\* The end of a request leaves the log as it is: updateState writes the entry
\* that is there.
LEMMA UpdateStateIs ==
  ASSUME EventsInv, sink.pc # "idle" PROVE updateState = eventLog
  <1>1. eventLog[sink.key] = [count |-> sink.count, name |-> sink.name]
    BY DEF EventsInv, SinkInv
  <1>2. eventLog \in [Keys -> Entry]
    BY DEF EventsInv, EventsTypeOK, LogTypeOK
  <1>3. [eventLog EXCEPT ![sink.key] = eventLog[sink.key]] = eventLog
    BY <1>2
  <1> QED BY <1>1, <1>3 DEF updateState

LEMMA RequestEndsKeeps ==
  ASSUME EventsInv, sink.pc = "request", req.pc = "done", req' = NoRequest,
         UNCHANGED <<wire, caller, occurred, incoming, results, stopped, localKeys, old,
                     eventLog, tokens, server, removals>>,
         sink' \in Sinks,
         \/ sink' = Idle
         \/ /\ sink'.pc \in {"try", "create"} /\ sink'.key = sink.key
            /\ sink'.name = sink.name /\ sink'.count = sink.count,
         behind' \subseteq Keys, behind \subseteq behind',
         sink' = Idle => req.answer = "ok" \/ sink.key \in behind'
  PROVE  EventsInv'
  <1>1. RestInv' /\ req'.pc = "idle" /\ req'.body = NoBody
    BY ResetKeeps DEF EventsInv
  <1>2. Idle.pc = "idle"
    BY DEF Idle
  <1>3. OtherInv' /\ SinkInv'
    BY <1>1, <1>2 DEF EventsInv, OtherInv, SinkInv
  <1>4. EventsTypeOK'
    BY DEF EventsInv, EventsTypeOK, LogTypeOK
  <1>5. FreshInv'
    BY UsedSame, FreshKept DEF EventsInv
  <1>6. NamesInv' /\ BoundInv'
    BY DEF EventsInv, NamesInv, BoundInv
  <1>7. CurrentInv'
    BY <1>2 DEF EventsInv, CurrentInv
  <1> QED BY <1>1, <1>3, <1>4, <1>5, <1>6, <1>7 DEF EventsInv

LEMMA IdleIs == Idle \in Sinks
  BY DEF Idle, Sinks, Keys

LEMMA RecordedKeeps ==
  ASSUME EventsInv, Recorded PROVE EventsInv'
  <1>1. /\ sink.pc = "request" /\ req.pc = "done" /\ req' = NoRequest /\ req.answer = "ok"
        /\ eventLog' = updateState /\ sink' = Idle
        /\ UNCHANGED <<wire, caller, occurred, incoming, results, stopped, localKeys, old,
                       tokens, server, removals, behind>>
    BY DEF Recorded, queues, Succeeded
  <1>2. eventLog' = eventLog
    BY <1>1, UpdateStateIs
  <1>3. behind \subseteq Keys
    BY DEF EventsInv, EventsTypeOK, LogTypeOK
  <1> QED BY <1>1, <1>2, <1>3, IdleIs, RequestEndsKeeps

LEMMA TryFailsKeeps ==
  ASSUME EventsInv, TryFails PROVE EventsInv'
  <1> DEFINE last == sink.tries + 1 >= MaxTries
             again == [sink EXCEPT !.pc = "try", !.tries = @ + 1]
  <1>1. /\ sink.pc = "request" /\ req.pc = "done" /\ req' = NoRequest
        /\ UNCHANGED <<wire, caller, occurred, incoming, results, stopped, localKeys, old,
                       eventLog, tokens, server, removals>>
        /\ sink' = IF last THEN Idle ELSE again
        /\ behind' = IF last THEN behind \cup {sink.key} ELSE behind
    BY DEF TryFails, queues, correlator, IsKeyNotFoundError
  <1>2. behind \subseteq Keys /\ sink \in Sinks
    BY DEF EventsInv, EventsTypeOK, LogTypeOK
  <1>3. /\ again \in Sinks /\ again.pc = "try" /\ again.key = sink.key
        /\ again.name = sink.name /\ again.count = sink.count /\ sink.key \in Keys
    <2> DEFINE n == sink.tries + 1
    <2>1. n \in Nat
      BY <1>2 DEF Sinks
    <2>2. again = [sink EXCEPT !.pc = "try", !.tries = n]
      BY Zenon
    <2> HIDE DEF n, again
    <2> QED BY <1>2, <2>1, <2>2 DEF Sinks
  <1>4. again # Idle
    BY <1>3 DEF Idle
  <1> HIDE DEF last, again
  <1>5. CASE last
    <2>1. sink' = Idle /\ behind' = behind \cup {sink.key}
      BY <1>1, <1>5
    <2> QED BY <1>1, <1>2, <1>3, <2>1, IdleIs, RequestEndsKeeps
  <1>6. CASE ~last
    <2>1. sink' = again /\ behind' = behind
      BY <1>1, <1>6
    <2> QED BY <1>1, <1>2, <1>3, <1>4, <2>1, RequestEndsKeeps
  <1> QED BY <1>5, <1>6
----------------------------------------------------------------------------
(* The client and the server *)

\* The request's event is one of the log.
LEMMA RequestIsLogged ==
  ASSUME EventsInv, req.body # NoBody
  PROVE  /\ sink.pc = "request" /\ sink.key \in Keys /\ req.pc # "idle"
         /\ eventLog[sink.key].count > 0
         /\ req.body.name = eventLog[sink.key].name /\ req.body.count = eventLog[sink.key].count
         /\ req.body.name = sink.name /\ req.body.count = sink.count
  <1>1. /\ sink.pc = "request" /\ sink \in Sinks
        /\ eventLog[sink.key] = [count |-> sink.count, name |-> sink.name] /\ sink.count > 0
        /\ req.pc # "idle" /\ req.body = [name |-> sink.name, count |-> sink.count]
    BY DEF EventsInv, SinkInv, EventsTypeOK, LogTypeOK
  <1>2. sink.key \in Keys
    BY <1>1 DEF Sinks
  <1> QED BY <1>1, <1>2

\* Steps of the request alone: what it puts on the wire is logged.
LEMMA RequestStepKeeps ==
  ASSUME EventsInv, RestInv',
         UNCHANGED <<caller, queues, correlator, sink, server, removals, behind>>,
         \A d \in wire' : d.body = req.body \/ \E c \in wire : c.body = d.body,
         req'.body # NoBody => sink.pc = "request",
         sink.pc = "request" => /\ req'.pc # "idle" /\ req'.body = req.body
                                /\ req'.pc \in {"served", "done"} /\ req'.answer = "ok" =>
                                     req.pc \in {"served", "done"} /\ req.answer = "ok"
  PROVE  EventsInv'
  <1>1. UNCHANGED <<caller, occurred, incoming, results, stopped, localKeys, old, eventLog,
                    tokens, sink, server, removals, behind>>
    BY DEF queues, correlator
  <1>2. OtherInv' /\ SinkInv'
    BY <1>1 DEF EventsInv, OtherInv, SinkInv
  <1>3. EventsTypeOK'
    BY <1>1 DEF EventsInv, EventsTypeOK, LogTypeOK
  <1>4. FreshInv'
    <2>1. \A n \in Names : Used(n)' => Used(n)
      BY <1>1, RequestIsLogged DEF Used
    <2> QED BY <1>1, <2>1, FreshKept DEF EventsInv
  <1>5. NamesInv'
    BY <1>1 DEF EventsInv, NamesInv
  <1>6. BoundInv'
    <2> SUFFICES ASSUME NEW k \in Keys, eventLog[k].count > 0, NEW d \in wire',
                        d.body # NoBody, d.body.name = eventLog[k].name
                 PROVE  d.body.count <= eventLog[k].count
      BY <1>1 DEF EventsInv, BoundInv
    <2>1. CASE d.body = req.body
      <3>1. /\ sink.key \in Keys /\ eventLog[sink.key].count > 0
            /\ d.body.name = eventLog[sink.key].name
            /\ d.body.count = eventLog[sink.key].count
        BY <2>1, RequestIsLogged
      <3>2. k = sink.key
        BY <3>1 DEF EventsInv, NamesInv
      <3>3. eventLog[k].count \in Nat
        BY DEF EventsInv, EventsTypeOK, LogTypeOK, Entry
      <3> QED BY <3>1, <3>2, <3>3
    <2>2. CASE \E c \in wire : c.body = d.body
      BY <2>2 DEF EventsInv, BoundInv
    <2> QED BY <2>1, <2>2
  <1>7. CurrentInv'
    BY <1>1 DEF EventsInv, CurrentInv
  <1> QED BY <1>2, <1>3, <1>4, <1>5, <1>6, <1>7 DEF EventsInv

LEMMA ClientKeeps ==
  ASSUME EventsInv, ClientStep \/ ClientFault PROVE EventsInv'
  <1>1. UNCHANGED <<caller, queues, correlator, sink, server, removals, behind>>
    BY DEF ClientStep, ClientFault
  <1>2. RestInv' /\ ClientFacts
    BY BeforeKeeps, ReceiveKeeps, ExpireKeeps, FaultKeeps
       DEF EventsInv, ClientStep, ClientFault, RestStep
  <1>3. req.body # NoBody => sink.pc = "request"
    BY DEF EventsInv, SinkInv
  <1> QED BY <1>1, <1>2, <1>3, RequestStepKeeps DEF ClientFacts

LEMMA OthersKeep ==
  ASSUME EventsInv, OtherRequest \/ OtherDone PROVE EventsInv'
  <1>1. /\ UNCHANGED <<caller, queues, correlator, sink, server, removals, behind>>
        /\ caller = "other"
    BY DEF OtherRequest, OtherDone
  <1>2. sink.pc = "idle"
    BY <1>1 DEF EventsInv, OtherInv
  <1>3. RestInv' /\ req'.body = NoBody /\ wire' = wire
    <2>1. CASE OtherRequest
      <3>1. NoBody \in Bodies /\ {"GET", "PUT"} \subseteq Verbs
            /\ {"do", "watch", "stream"} \subseteq Modes
        BY DEF Bodies, Verbs, Modes
      <3>2. \/ \E verb \in {"GET", "PUT"} : NewRequest("do", verb, NoBody)
            \/ \E mode \in {"watch", "stream"} : NewRequest(mode, "GET", NoBody)
        BY <2>1 DEF OtherRequest
      <3>3. wire' = wire
        BY <3>2 DEF NewRequest
      <3>4. ASSUME NEW verb \in {"GET", "PUT"}, NewRequest("do", verb, NoBody)
            PROVE  RestInv' /\ req'.body = NoBody
        <4> DEFINE mode == "do"
        <4>1. mode \in Modes /\ mode = "do" /\ verb \in Verbs /\ NewRequest(mode, verb, NoBody)
          BY <3>1, <3>4
        <4> HIDE DEF mode
        <4> QED BY <3>1, <4>1, NewRequestKeeps DEF EventsInv
      <3>5. ASSUME NEW mode \in {"watch", "stream"}, NewRequest(mode, "GET", NoBody)
            PROVE  RestInv' /\ req'.body = NoBody
        <4> DEFINE verb == "GET"
        <4>1. mode \in Modes /\ verb = "GET" /\ verb \in Verbs /\ NewRequest(mode, verb, NoBody)
          BY <3>1, <3>5
        <4> HIDE DEF verb
        <4> QED BY <3>1, <4>1, NewRequestKeeps DEF EventsInv
      <3> QED BY <3>2, <3>3, <3>4, <3>5
    <2>2. CASE OtherDone
      BY <2>2, ResetKeeps DEF OtherDone, EventsInv
    <2> QED BY <2>1, <2>2
  <1> QED BY <1>1, <1>2, <1>3, RequestStepKeeps

LEMMA ServeOtherKeeps ==
  ASSUME EventsInv, NEW c \in wire, ServeOther(c) PROVE EventsInv'
  <1>1. /\ UNCHANGED <<caller, queues, correlator, sink, server, removals, behind>>
        /\ c.body = NoBody
    BY DEF ServeOther
  <1>2. PICK answer \in {"ok", "refused"} : Answers(c, answer)
    BY DEF ServeOther
  <1>3. /\ RestInv' /\ wire' = wire \ {c} /\ req'.body = req.body
        /\ c.late => req'.pc = req.pc /\ req'.answer = req.answer
        /\ ~c.late => req.pc = "sent" /\ c = Copy /\ req'.pc = "served" /\ req'.answer = answer
    BY <1>2, AnswersKeep DEF EventsInv
  <1>4. req.body # NoBody => sink.pc = "request"
    BY DEF EventsInv, SinkInv
  <1>5. Copy.body = req.body
    BY DEF Copy
  <1>6. sink.pc = "request" => /\ req'.pc # "idle"
                               /\ req'.pc \in {"served", "done"} /\ req'.answer = "ok" =>
                                    req.pc \in {"served", "done"} /\ req.answer = "ok"
    <2>1. CASE c.late
      BY <1>3, <2>1 DEF EventsInv, SinkInv
    <2>2. CASE ~c.late
      <3>1. sink.pc # "request" \/ req.body # NoBody
        <4>1. sink.name \in Nat /\ sink.count \in Nat
          BY DEF EventsInv, EventsTypeOK, LogTypeOK, Sinks
        <4>2. [name |-> sink.name, count |-> sink.count] # NoBody
          BY <4>1, EventsAssumption
        <4> QED BY <4>2 DEF EventsInv, SinkInv
      <3> QED BY <1>1, <1>3, <1>5, <2>2, <3>1
    <2> QED BY <2>1, <2>2
  <1> QED BY <1>1, <1>3, <1>4, <1>6, RequestStepKeeps
LEMMA ServeEventKeeps ==
  ASSUME EventsInv, NEW c \in wire, ServeEvent(c) PROVE EventsInv'
  <1> DEFINE answer == Answer(c)
             name == c.body.name
  <1>1. /\ UNCHANGED <<caller, occurred, incoming, results, stopped, localKeys, old, eventLog,
                       tokens, sink, removals>>
        /\ c.body # NoBody /\ Answers(c, answer)
        /\ server' = IF answer = "ok" THEN Stored(c) ELSE server
        /\ behind' = IF c.late THEN behind \cup Named(name)
                     ELSE IF answer = "ok" THEN behind \ {sink.key} ELSE behind
    BY DEF ServeEvent, queues, correlator
  <1>2. answer \in {"ok", "refused"}
    BY DEF Answer
  <1> HIDE DEF answer
  <1>3. /\ RestInv' /\ wire' = wire \ {c} /\ req'.body = req.body
        /\ c.late => req'.pc = req.pc /\ req'.answer = req.answer
        /\ ~c.late => req.pc = "sent" /\ c = Copy /\ req'.pc = "served" /\ req'.answer = answer
    BY <1>1, <1>2, AnswersKeep DEF EventsInv
  <1>4. c.body \in [name : Names, count : Nat]
    BY <1>1 DEF EventsInv, RestInv, Copies, Bodies
  <1>5. name \in Names /\ c.body.count \in Nat
    BY <1>4
  <1>6. LogTypeOK /\ server \in [Names -> Nat] /\ behind \subseteq Keys
        /\ eventLog \in [Keys -> Entry]
        /\ \A k \in Keys : eventLog[k].count > 0 => eventLog[k].name \in Names
    BY DEF EventsInv, EventsTypeOK, LogTypeOK
  <1>7. /\ server' \in [Names -> Nat]
        /\ \A n \in Names : n # name => server'[n] = server[n]
        /\ server'[name] = server[name] \/ server'[name] = c.body.count
        /\ answer = "ok" => server'[name] = c.body.count
        /\ answer # "ok" => server' = server
    BY <1>1, <1>5, <1>6 DEF Stored
  <1>8. Used(name)
    BY <1>1 DEF Used
  <1>9. Named(name) \subseteq Keys
    BY DEF Named
  <1>10. ~c.late => /\ sink.pc = "request" /\ sink.key \in Keys /\ eventLog[sink.key].count > 0
                    /\ name = eventLog[sink.key].name
                    /\ c.body.count = eventLog[sink.key].count
    <2>1. Copy.body = req.body
      BY DEF Copy
    <2> QED BY <1>1, <1>3, <2>1, RequestIsLogged
  <1> HIDE DEF name
  <1>11. EventsTypeOK'
    <2>1. behind' \subseteq Keys
      BY <1>1, <1>6, <1>9
    <2>2. LogTypeOK'
      BY <1>1, <1>6, <1>7, <2>1 DEF LogTypeOK
    <2> QED BY <1>1, <2>2 DEF EventsInv, EventsTypeOK
  <1>12. OtherInv'
    BY <1>1 DEF EventsInv, OtherInv
  <1>13. SinkInv'
    BY <1>1, <1>3 DEF EventsInv, SinkInv
  <1>14. FreshInv'
    <2>1. \A n \in Names : Used(n)' => Used(n)
      BY <1>1, <1>3, <1>7, <1>8 DEF Used
    <2> QED BY <1>1, <2>1, FreshKept DEF EventsInv
  <1>15. NamesInv'
    BY <1>1 DEF EventsInv, NamesInv
  <1>16. BoundInv'
    <2> SUFFICES ASSUME NEW k \in Keys, eventLog[k].count > 0
                 PROVE  /\ server'[eventLog[k].name] <= eventLog[k].count
                        /\ \A d \in wire' : d.body # NoBody /\ d.body.name = eventLog[k].name
                                            => d.body.count <= eventLog[k].count
      BY <1>1 DEF BoundInv
    <2>1. \A d \in wire' : d.body # NoBody /\ d.body.name = eventLog[k].name
                           => d.body.count <= eventLog[k].count
      BY <1>3 DEF EventsInv, BoundInv
    <2>2. server[eventLog[k].name] <= eventLog[k].count
      BY DEF EventsInv, BoundInv
    <2>3. eventLog[k].name = name => c.body.count <= eventLog[k].count
      BY <1>1 DEF EventsInv, BoundInv, name
    <2> QED BY <1>6, <1>7, <2>1, <2>2, <2>3
  <1>17. CurrentInv'
    <2> SUFFICES ASSUME NEW k \in Keys, eventLog[k].count > 0, k \notin behind'
                 PROVE  \/ server'[eventLog[k].name] = eventLog[k].count
                        \/ /\ sink.pc # "idle" /\ sink.key = k
                           /\ ~(sink.pc = "request" /\ req'.pc \in {"served", "done"}
                                /\ req'.answer = "ok")
      BY <1>1 DEF CurrentInv
    <2>1. CASE c.late
      <3>1. k \notin behind /\ eventLog[k].name # name
        BY <1>1, <2>1 DEF Named
      <3>2. server'[eventLog[k].name] = server[eventLog[k].name]
        BY <1>6, <1>7, <3>1
      <3> QED BY <1>3, <2>1, <3>1, <3>2 DEF EventsInv, CurrentInv
    <2>2. CASE ~c.late /\ k = sink.key
      <3>1. CASE answer = "ok"
        BY <1>7, <1>10, <2>2, <3>1
      <3>2. CASE answer # "ok"
        BY <1>3, <1>10, <2>2, <3>2
      <3> QED BY <3>1, <3>2
    <2>3. CASE ~c.late /\ k # sink.key
      <3>1. eventLog[k].name # name
        BY <1>10, <2>3 DEF EventsInv, NamesInv
      <3>2. server'[eventLog[k].name] = server[eventLog[k].name] /\ k \notin behind
        BY <1>1, <1>6, <1>7, <2>3, <3>1
      <3> QED BY <2>3, <3>2 DEF EventsInv, CurrentInv
    <2> QED BY <2>1, <2>2, <2>3
  <1> QED BY <1>3, <1>11, <1>12, <1>13, <1>14, <1>15, <1>16, <1>17 DEF EventsInv

LEMMA RemoveKeeps ==
  ASSUME EventsInv, NEW n \in Names, Remove(n) PROVE EventsInv'
  <1>1. /\ UNCHANGED <<req, wire, caller, occurred, incoming, results, stopped, localKeys, old,
                       eventLog, tokens, sink>>
        /\ server' = [server EXCEPT ![n] = 0] /\ removals' = removals + 1
        /\ behind' = behind \cup Named(n)
    BY DEF Remove, restVars, queues, correlator
  <1>2. /\ LogTypeOK /\ server \in [Names -> Nat] /\ eventLog \in [Keys -> Entry]
        /\ \A k \in Keys : eventLog[k].count > 0 => eventLog[k].name \in Names
    BY DEF EventsInv, EventsTypeOK, LogTypeOK
  <1>3. /\ server' \in [Names -> Nat] /\ server'[n] = 0
        /\ \A m \in Names : m # n => server'[m] = server[m]
    BY <1>1, <1>2
  <1>4. RestInv'
    BY <1>1 DEF EventsInv, RestInv, CopiesInv, WriteInv, AnswerInv, Copy
  <1>5. OtherInv' /\ SinkInv' /\ NamesInv'
    BY <1>1 DEF EventsInv, OtherInv, SinkInv, NamesInv
  <1>6. EventsTypeOK'
    <2>1. LogTypeOK'
      BY <1>1, <1>2, <1>3 DEF LogTypeOK, Named
    <2> QED BY <1>1, <2>1 DEF EventsInv, EventsTypeOK
  <1>7. FreshInv'
    <2>1. \A m \in Names : Used(m)' => Used(m)
      BY <1>1, <1>3 DEF Used
    <2> QED BY <1>1, <2>1, FreshKept DEF EventsInv
  <1>8. BoundInv'
    <2>1. \A k \in Keys : eventLog[k].count \in Nat
      BY <1>2 DEF Entry
    <2> QED BY <1>1, <1>2, <1>3, <2>1 DEF EventsInv, BoundInv
  <1>9. CurrentInv'
    BY <1>1, <1>2, <1>3 DEF EventsInv, CurrentInv, Named
  <1> QED BY <1>4, <1>5, <1>6, <1>7, <1>8, <1>9 DEF EventsInv

----------------------------------------------------------------------------
(* The theorems *)

LEMMA EventsInit == Init => EventsInv
  <1> SUFFICES ASSUME Init PROVE EventsInv
    OBVIOUS
  <1>1. req = NoRequest /\ wire = {}
    BY DEF Init, RestInit
  <1>2. /\ req \in Request /\ req.pc = "idle" /\ req.verb = "GET" /\ req.body = NoBody
    BY <1>1 DEF NoRequest, Request, Modes, Verbs, Bodies
  <1>3. RestInv
    BY <1>1, <1>2 DEF RestInv, CopiesInv, WriteInv, AnswerInv
  <1>4. /\ eventLog \in [Keys -> Entry] /\ \A k \in Keys : ~(eventLog[k].count > 0)
        /\ server \in [Names -> Nat] /\ \A n \in Names : ~(server[n] > 0)
    BY DEF Init, NoEntry, Entry
  <1>5. sink \in Sinks /\ sink.pc = "idle"
    BY IdleIs DEF Init, Idle
  <1>6. EventsTypeOK
    BY <1>4, <1>5, EventsAssumption DEF Init, EventsTypeOK, LogTypeOK
  <1>7. OtherInv /\ SinkInv /\ NamesInv /\ BoundInv /\ CurrentInv
    BY <1>2, <1>4, <1>5 DEF Init, OtherInv, SinkInv, NamesInv, BoundInv, CurrentInv
  <1>8. FreshInv
    <2>1. incoming = <<>> /\ results = <<>> /\ Len(incoming) = 0 /\ Len(results) = 0
      BY DEF Init
    <2>2. \A n \in Names : ~Used(n)
      BY <1>1, <1>4 DEF Used
    <2> QED BY <2>1, <2>2 DEF FreshInv
  <1> QED BY <1>3, <1>6, <1>7, <1>8 DEF EventsInv

LEMMA EventsStep == EventsInv /\ [Next]_vars => EventsInv'
  <1> SUFFICES ASSUME EventsInv, [Next]_vars PROVE EventsInv'
    OBVIOUS
  <1>1. CASE UNCHANGED vars
    <2>1. UNCHANGED <<req, wire, caller, occurred, incoming, results, stopped, localKeys, old,
                      eventLog, tokens, sink, server, removals, behind>>
      BY <1>1 DEF vars, restVars, queues, correlator
    <2>2. RestInv'
      BY <2>1 DEF EventsInv, RestInv, CopiesInv, WriteInv, AnswerInv, Copy
    <2>3. OtherInv' /\ SinkInv' /\ NamesInv' /\ BoundInv' /\ CurrentInv'
      BY <2>1 DEF EventsInv, OtherInv, SinkInv, NamesInv, BoundInv, CurrentInv
    <2>4. EventsTypeOK'
      BY <2>1 DEF EventsInv, EventsTypeOK, LogTypeOK
    <2>5. FreshInv'
      BY <2>1, UsedSame, FreshKept DEF EventsInv
    <2> QED BY <2>2, <2>3, <2>4, <2>5 DEF EventsInv
  <1>2. CASE \E m \in Messages : generateEvent(m)
    BY <1>2, GenerateKeeps
  <1>3. CASE Shutdown \/ Loop
    BY <1>3, ShutdownKeeps, LoopKeeps
  <1>4. CASE SinkStep
    BY <1>4, RecordToSinkKeeps, RecordEventKeeps, RecordedKeeps, TryFailsKeeps DEF SinkStep
  <1>5. CASE Refill \/ Age
    BY <1>5, RefillAgeKeep
  <1>6. CASE \E k \in Keys : Evict(k)
    BY <1>6, EvictKeeps
  <1>7. CASE \E n \in Names : Remove(n)
    BY <1>7, RemoveKeeps
  <1>8. CASE ClientStep \/ ClientFault
    BY <1>8, ClientKeeps
  <1>9. CASE Serve
    BY <1>9, ServeEventKeeps, ServeOtherKeeps DEF Serve
  <1>10. CASE OtherRequest \/ OtherDone
    BY <1>10, OthersKeep
  <1> QED BY <1>1, <1>2, <1>3, <1>4, <1>5, <1>6, <1>7, <1>8, <1>9, <1>10 DEF Next

\* The invariant holds in every reachable state of recorder, broadcaster,
\* correlator, sink, client and server, whatever the connection does.
THEOREM EventsInvariant == Spec => []EventsInv
  BY EventsInit, EventsStep, PTL DEF Spec

\* The state of the recording stays well typed.
THEOREM TypeCorrect == Spec => []EventsTypeOK
  <1>1. EventsInv => EventsTypeOK
    BY DEF EventsInv
  <1> QED BY <1>1, EventsInvariant, PTL

\* Do never has a write served twice of its own accord: only a Retry-After
\* makes it send one again. A write reported as done was served.
THEOREM WritesAreNotRepeated == Spec => []WriteIsNotRepeated
  <1>1. EventsInv => WriteIsNotRepeated
    BY RestInvImplies DEF EventsInv
  <1> QED BY <1>1, EventsInvariant, PTL

\* When the sink rests the server is never ahead of the log, and of the keys
\* whose last occurrence was neither skipped, given up, removed nor overtaken
\* by a late copy it has the log's counts.
THEOREM ServerFollowsLog == Spec => []LogMatchesServer
  <1>1. EventsInv => LogMatchesServer
    BY DEF EventsInv, BoundInv, CurrentInv, LogMatchesServer
  <1> QED BY <1>1, EventsInvariant, PTL

=============================================================================
