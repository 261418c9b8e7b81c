----------------------------- MODULE RestClient -----------------------------
(***************************************************************************)
(* One goroutine's requests through the REST client                        *)
(* (pkg/api/client/rest): Do, Watch and Stream with the retries of         *)
(* with_retry.go. Sleeping, throttling and the encoding of bodies are left *)
(* out; the back-off manager is made anew for every request, so that it    *)
(* only says how long a retry sleeps.                                      *)
(*                                                                         *)
(* An attempt is a copy of the request on the wire. The client can stop    *)
(* waiting for a copy that the server still serves later: wire holds these *)
(* too. What serving a request means is said by the module that composes   *)
(* the client with a server.                                               *)
(***************************************************************************)
EXTENDS Integers, FiniteSets

CONSTANTS
  MaxRetries,      \* Request.maxRetries, 10 in the code
  MaxLate,         \* bound on the copies nobody waits for
  NoBody

ASSUME RestClientAssumption == MaxRetries \in Nat /\ MaxLate \in Nat

VARIABLES
  req,             \* the request: [pc, mode, verb, body, attempts, answer, asked, applied]
  wire             \* copies under way: [verb, body, late, mine]

restVars == <<req, wire>>

Modes == {"do", "watch", "stream"}
Errors == {"reset", "eof", "timeout"}       \* what client.Do returns as err
\* "busy" is 429 or 5xx with a Retry-After header, "failed" 5xx without one,
\* "refused" 4xx.
Faults == Errors \cup {"busy", "failed"}

NoRequest == [pc |-> "idle", mode |-> "do", verb |-> "GET", body |-> NoBody, attempts |-> 0,
              answer |-> "none", asked |-> FALSE, applied |-> 0]

RestInit == req = NoRequest /\ wire = {}

Copy == [verb |-> req.verb, body |-> req.body, late |-> FALSE, mine |-> TRUE]
Late == {c \in wire : c.late}

----------------------------------------------------------------------------
\* NewRequest, with the builder's verb and body.
NewRequest(mode, verb, body) ==
  /\ req.pc = "idle"
  /\ req' = [NoRequest EXCEPT !.pc = "before", !.mode = mode, !.verb = verb, !.body = body]
  /\ UNCHANGED wire

\* Before, newHTTPRequest and client.Do: the next attempt goes out.
Before ==
  /\ req.pc = "before"
  /\ req' = [req EXCEPT !.pc = "sent"]
  /\ wire' = wire \cup {Copy}

\* Before returns the error of a context that ended during the sleeps.
Expire ==
  /\ req.pc = "before" /\ req.attempts > 0
  /\ req' = [req EXCEPT !.pc = "done", !.answer = "error"]
  /\ wire' = {[c EXCEPT !.mine = FALSE] : c \in wire}

----------------------------------------------------------------------------
(* The retry *)

AnyVerb_mutant(mode, verb, err) ==
  IF mode = "watch" THEN err \in {"eof", "timeout"} ELSE err \in {"reset", "eof"}

\* isErrRetryableFunc of request and of Watch, neverRetryError of Stream.
IsErrorRetryable(mode, verb, err) ==
  \/ mode = "do" /\ verb = "GET" /\ err \in {"reset", "eof"}
  \/ mode = "watch" /\ err \in {"eof", "timeout"}

checkWait(answer) == answer = "busy"

NoLimit_mutant(answer) ==
  IF answer \in Errors THEN IsErrorRetryable(req.mode, req.verb, answer) ELSE checkWait(answer)

IsNextRetry(answer) ==
  /\ req.attempts + 1 <= MaxRetries
  /\ IF answer \in Errors THEN IsErrorRetryable(req.mode, req.verb, answer)
     ELSE checkWait(answer)

\* transformResponse and the end of Watch: a watch whose connection broke is
\* an empty watch and no error.
Result(answer) ==
  IF answer = "ok" THEN "ok"
  ELSE IF req.mode = "watch" /\ IsErrorRetryable("watch", req.verb, answer) THEN "empty"
  ELSE "error"

\* After and IsNextRetry: the next attempt, or the caller gets the result.
AttemptEnds(answer) ==
  req' = IF IsNextRetry(answer)
         THEN [req EXCEPT !.pc = "before", !.asked = @ \/ answer = "busy",
                          !.attempts = IF @ < MaxRetries THEN @ + 1 ELSE @]
         ELSE [req EXCEPT !.pc = "done", !.answer = Result(answer)]

Unheard(copies) ==
  IF req'.pc = "done" THEN {[c EXCEPT !.mine = FALSE] : c \in copies} ELSE copies

\* The attempt ends without the server's answer; the copy is lost or late.
Fault(a) ==
  /\ req.pc = "sent"
  /\ AttemptEnds(a)
  /\ \/ wire' = Unheard(wire \ {Copy})
     \/ /\ Cardinality(Late) < MaxLate
        /\ wire' = Unheard((wire \ {Copy}) \cup {[Copy EXCEPT !.late = TRUE]})

\* The server has served a copy; a live one is answered.
Answers(c, answer) ==
  /\ wire' = wire \ {c}
  /\ req' = [req EXCEPT !.pc = IF c.late THEN @ ELSE "served",
                        !.answer = IF c.late THEN @ ELSE answer,
                        !.applied = IF c.mine /\ answer = "ok" THEN @ + 1 ELSE @]

\* The answer arrives, or the connection breaks or a gateway gives up first.
Receive ==
  /\ req.pc = "served"
  /\ \E a \in {req.answer} \cup Faults : AttemptEnds(a)
  /\ wire' = Unheard(wire)

Succeeded == req.answer = "ok"
RestStep == Before \/ Receive

----------------------------------------------------------------------------
(* A write is served at most once, whatever the connection does: Do does   *)
(* not send a write again after an error, as it is not idempotent, but     *)
(* only when it was asked to by a response with Retry-After. A write that  *)
(* is reported as done was served.                                         *)
WriteIsNotRepeated ==
  req.verb # "GET" => /\ req.applied > 1 => req.asked
                      /\ req.pc = "done" /\ Succeeded => req.applied >= 1
=============================================================================
