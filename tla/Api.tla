-------------------------------- MODULE Api --------------------------------
(***************************************************************************)
(* The API as a whole: the requests the typed clients build, the routes    *)
(* the server installs for its storages, and what the handlers do to the   *)
(* objects (pkg/api/client, apiserver/routes/endpoints, registry/rest).    *)
(*                                                                         *)
(* A handler is one step, but for PUT workflow/{uid}/dag, which lists the  *)
(* dags in one step and writes in another. A request that fails at etcd    *)
(* changes nothing. The filters (authentication, authorization, CORS) let  *)
(* every request pass. An object is its key, its UID and, for a dag, the   *)
(* workflow it belongs to and the edit it holds.                           *)
(***************************************************************************)
EXTENDS Naturals, Sequences, FiniteSets, SequencesExt, TLC

\* What is not set in a request, a route or a record.
Unset == ""

CONSTANTS
  Uids,        \* UIDs as the server makes them
  Names,       \* names of events
  MaxCreates,  \* bound on the objects created
  MaxEdits     \* bound on the edits of dags

ASSUME ApiAssumption ==
  /\ IsFiniteSet(Uids) /\ IsFiniteSet(Names) /\ Uids \cap Names = {}
  /\ Uids # {} /\ Names # {}
  \* None of them is a segment of a path that the routes know.
  /\ {Unset, "list", "watch"} \cap (Uids \cup Names) = {}
  /\ MaxCreates \in Nat /\ MaxEdits \in Nat

VARIABLES
  store,    \* kind -> its objects, the last written first, as etcd lists them
  creates,
  edits,    \* the edits of dags begun
  editing,  \* the running workflowUpdateDag handlers
  written,  \* history: workflow -> the edit written last, 0 for none
  answer    \* the last call and how it was answered

apiVars == <<store, creates, edits, editing, written, answer>>

----------------------------------------------------------------------------
\* The requests of the clients, as records of methods: k is the name a method
\* is called with, u the UID of the object it is called with.

\* Request.URL leaves out what was not set.
Segment(s) == IF s = Unset THEN <<>> ELSE <<s>>
URL(resource, name, sub) == <<resource>> \o Segment(name) \o Segment(sub)

Request(verb, resource, name, sub) ==
  [verb |-> verb, path |-> URL(resource, name, sub)]

\* The methods all clients have, and what each has of its own.
StandardCalls(r, k) ==
  [Create |-> Request("POST", r, Unset, Unset),
   Get |-> Request("GET", r, k, Unset),
   List |-> Request("GET", r, Unset, "list"),
   Watch |-> Request("GET", r, Unset, "watch"),
   Patch |-> Request("PATCH", r, k, Unset),
   Delete |-> Request("DELETE", r, k, Unset),
   DeleteCollection |-> Request("DELETE", r, Unset, Unset)]

codeCalls(k, u) == [Update |-> Request("PUT", "code", u, Unset)]

variableCalls(k, u) == [Update |-> Request("PUT", "variable", u, Unset)]

connectionCalls(k, u) == [Update |-> Request("PUT", "connection", u, Unset)]

eventCalls(k, u) == [Update |-> Request("PUT", "event", u, Unset)]

\* The state is written under another name.
workflowStatus_mutant(k, u) ==
  [Update |-> Request("PUT", "workflow", Unset, Unset),
   UpdateStatus |-> Request("PUT", "workflow", u, "status"),
   Bind |-> Request("POST", "workflow", u, "binding"),
   GetDag |-> Request("GET", "workflow", k, "dag")]

workflowCalls(k, u) ==
  [Update |-> Request("PUT", "workflow", Unset, Unset),
   UpdateStatus |-> Request("PUT", "workflow", u, "state"),
   Bind |-> Request("POST", "workflow", u, "binding"),
   GetDag |-> Request("GET", "workflow", k, "dag")]

jobCalls(k, u) ==
  [Update |-> Request("PUT", "job", Unset, Unset),
   UpdateStatus |-> Request("PUT", "job", u, "state"),
   Bind |-> Request("POST", "job", u, "binding")]

stageCalls(k, u) ==
  [Update |-> Request("PUT", "stage", u, Unset),
   UpdateStatus |-> Request("PUT", "stage", u, "state"),
   UpdateListStatus |-> Request("PUT", "stage", "all", "list"),
   Bind |-> Request("PUT", "stage", u, "binding")]

workerCalls(k, u) ==
  [Update |-> Request("PUT", "worker", Unset, Unset),
   UpdateStatus |-> Request("PUT", "worker", u, "state"),
   Bind |-> Request("POST", "worker", u, "binding"),
   Register |-> Request("POST", "worker", Unset, "register"),
   Heartbeat |-> Request("PUT", "worker", u, "heartbeat")]

Clients == {"workflow", "job", "stage", "worker", "code", "variable", "connection", "event"}

\* CoreV1Client and EventsV1Client.
Calls(kind, k, u) ==
  CASE kind = "workflow" -> workflowCalls(k, u) [] kind = "job" -> jobCalls(k, u)
    [] kind = "stage" -> stageCalls(k, u)       [] kind = "worker" -> workerCalls(k, u)
    [] kind = "code" -> codeCalls(k, u)         [] kind = "variable" -> variableCalls(k, u)
    [] kind = "event" -> eventCalls(k, u)       [] kind = "connection" -> connectionCalls(k, u)

Methods(kind) == DOMAIN StandardCalls(Unset, Unset) \cup DOMAIN Calls(kind, Unset, Unset)

RequestOf(kind, m, k, u) ==
  IF m \in DOMAIN Calls(kind, k, u) THEN Calls(kind, k, u)[m] ELSE StandardCalls(kind, k)[m]

----------------------------------------------------------------------------
\* The routes of the server.

StorageMap == Clients \cup {"dag", "role", "user"}

workflowActions == {<<"GET", "dag">>, <<"PUT", "dag">>, <<"PUT", "state">>, <<"POST", "schedule">>}
jobActions == {<<"PUT", "state">>}
stageActions == {<<"PUT", "binding">>, <<"PUT", "list">>}
workerActions == {<<"PUT", "heartbeat">>, <<"POST", "register">>}
eventActions == {<<"LIST", "kind">>}
userActions == {<<"POST", "session">>, <<"DELETE", "session">>, <<"GET", "dashboard">>}

\* The sub-resources of a storage; the others implement no SubResourceStorage.
Actions(kind) ==
  CASE kind = "workflow" -> workflowActions [] kind = "job" -> jobActions
    [] kind = "stage" -> stageActions       [] kind = "worker" -> workerActions
    [] kind = "event" -> eventActions       [] kind = "user" -> userActions
    [] OTHER -> {}

\* The segment of a route that takes what the request has there.
AnyUid == "{uid}"

\* A route's scope is the verb and the sub-resource its handler is made for.
Route(verb, path, scope) == [verb |-> verb, path |-> path, scope |-> scope]

\* registerResourceHandlers, for the interfaces every storage has of the Store
\* it embeds: there is no route to delete a collection.
resourceRoutes(r) ==
  {Route("GET", <<r, AnyUid>>, <<"GET", Unset>>), Route("GET", <<r, "list">>, <<"LIST", Unset>>),
   Route("POST", <<r>>, <<"POST", Unset>>), Route("PUT", <<r, AnyUid>>, <<"PUT", Unset>>),
   Route("DELETE", <<r, AnyUid>>, <<"DELETE", Unset>>),
   Route("PATCH", <<r, AnyUid>>, <<"PATCH", Unset>>),
   Route("GET", <<r, AnyUid, "watch">>, <<"WATCH", Unset>>),
   Route("GET", <<r, "watch">>, <<"WATCH", Unset>>)}

\* Its second half, for the sub-resources.
subResourceRoutes(r) ==
  {LET verb == a[1] sub == a[2]
   IN CASE verb = "POST" -> Route("POST", <<r, sub>>, a)
        [] verb = "LIST" -> Route("GET", <<r, "list", sub>>, a)
        [] OTHER -> Route(verb, <<r, AnyUid, sub>>, a) : a \in Actions(r)}

Routes == UNION {resourceRoutes(r) \cup subResourceRoutes(r) : r \in StorageMap}

Matches(route, req) ==
  /\ route.verb = req.verb /\ Len(route.path) = Len(req.path)
  /\ \A i \in DOMAIN req.path : route.path[i] \in {req.path[i], AnyUid}

\* The router takes the route with the most fixed segments.
Fixed(route) == Cardinality({i \in DOMAIN route.path : route.path[i] # AnyUid})

NoRoute == Route(Unset, <<>>, <<Unset, Unset>>)

Dispatch(req) ==
  LET found == {r \in Routes : Matches(r, req)}
  IN IF found = {} THEN NoRoute
     ELSE CHOOSE r \in found : \A s \in found : Fixed(r) >= Fixed(s)

----------------------------------------------------------------------------
\* The handlers. Each answers with the new objects of the kind it is about and
\* a status.

NoWorkflow == "none"
Object(k, u) == [key |-> k, uid |-> u, workflow |-> NoWorkflow, edit |-> 0]

HasKey(kind, k) == \E i \in DOMAIN store[kind] : store[kind][i].key = k

\* A write takes the object from its place, if it has one, and makes it the
\* first of its list.
PlaceOf(list, k) == CHOOSE i \in DOMAIN list : list[i].key = k
Put(list, obj) ==
  <<obj>> \o (IF \E i \in DOMAIN list : list[i].key = obj.key
              THEN RemoveAt(list, PlaceOf(list, obj.key)) ELSE list)

Find(kind, k) == CHOOSE o \in Range(store[kind]) : o.key = k

Outcome(status, list) == [status |-> status, list |-> list]

\* ObjectUIDFunc: an event is stored under its name.
KeyOf(kind, name, uid) == IF kind = "event" THEN name ELSE uid

createHandler(kind, name, uid) ==
  LET k == KeyOf(kind, name, uid)
  IN IF HasKey(kind, k) THEN Outcome("Exists", store[kind])
     ELSE Outcome("OK", Put(store[kind], Object(k, uid)))

getHandler(kind, k) ==
  Outcome(IF HasKey(kind, k) THEN "OK" ELSE "NotFound", store[kind])

updateHandler(kind, k) ==
  IF HasKey(kind, k) THEN Outcome("OK", Put(store[kind], Find(kind, k)))
  ELSE Outcome("NotFound", store[kind])

\* Store.Update's error for an object that is not there ends a patch, too.
patchHandler(kind, k) == updateHandler(kind, k)

\* BeforeDelete reads the options of the request, and deleteHandler passes none:
\* the handler panics before anything is deleted.
BeforeDelete(options) == options # "nil"

deleteHandler(kind, k) ==
  IF ~HasKey(kind, k) THEN Outcome("NotFound", store[kind])
  ELSE IF ~BeforeDelete("nil") THEN Outcome("Panic", store[kind])
  ELSE Outcome("OK", SelectSeq(store[kind], LAMBDA o : o.key # k))

\* A worker that is known is updated, another is created under its own UID.
workerRegister(uid) ==
  IF HasKey("worker", uid) THEN updateHandler("worker", uid)
  ELSE createHandler("worker", Unset, uid)

\* A heartbeat is answered and changes nothing.
heartbeat(kind) == Outcome("OK", store[kind])

\* The dag of a workflow is the first of the list that belongs to it.
DagsOf(w) == {i \in DOMAIN store["dag"] : store["dag"][i].workflow = w}
FirstDag(w) == store["dag"][Min(DagsOf(w))]
GetDag(w) == IF DagsOf(w) = {} THEN 0 ELSE FirstDag(w).edit

workflowGetDag(w) ==
  Outcome(IF DagsOf(w) = {} THEN "NotFound" ELSE "OK", store["workflow"])

\* Of a list of stages every one is updated; here the list has one.
Handle(kind, action, k, uid) ==
  CASE action = <<"PUT", "state">> -> updateHandler(kind, uid)
    [] action = <<"PUT", "binding">> -> updateHandler(kind, k)
    [] action = <<"PUT", "list">> -> updateHandler(kind, uid)
    [] action = <<"POST", "register">> -> workerRegister(uid)
    [] action = <<"PUT", "heartbeat">> -> heartbeat(kind)
    [] action = <<"GET", "dag">> -> workflowGetDag(k)

\* What the server does for a request about the object with key k, sent with
\* an object named name of UID uid.
ServeRoute(kind, route, k, name, uid) ==
  CASE route = NoRoute -> Outcome("NoRoute", store[kind])
    [] route.scope = <<"POST", Unset>> -> createHandler(kind, name, uid)
    [] route.scope = <<"GET", Unset>> -> getHandler(kind, k)
    [] route.scope \in {<<"LIST", Unset>>, <<"WATCH", Unset>>} -> Outcome("OK", store[kind])
    [] route.scope = <<"PUT", Unset>> -> updateHandler(kind, k)
    [] route.scope = <<"PATCH", Unset>> -> patchHandler(kind, k)
    [] route.scope = <<"DELETE", Unset>> -> deleteHandler(kind, k)
    [] OTHER -> Handle(kind, route.scope, k, uid)

----------------------------------------------------------------------------
\* Every kind has an object to begin with, and no workflow has a dag.
NoAnswer == [call |-> <<Unset, Unset>>, status |-> "OK"]

ApiInit ==
  /\ LET u == CHOOSE u \in Uids : TRUE
         n == CHOOSE n \in Names : TRUE
     IN store = [kind \in StorageMap |->
                  IF kind = "dag" THEN <<>> ELSE <<Object(KeyOf(kind, n, u), u)>>]
  /\ creates = 0 /\ edits = 0 /\ editing = {}
  /\ written = [w \in Uids |-> 0]
  /\ answer = NoAnswer

\* The path's second segment, when the route has a UID there.
UidOf(route, req) ==
  IF Len(route.path) > 1 /\ route.path[2] = AnyUid THEN req.path[2] ELSE Unset

\* Ends a call of method m: the kind's objects become those of the outcome.
Answered(kind, m, out) ==
  LET created == Len(out.list) > Len(store[kind])
  IN /\ created => creates < MaxCreates
     /\ creates' = IF created THEN creates + 1 ELSE creates
     /\ store' = [store EXCEPT ![kind] = out.list]
     /\ answer' = IF out.status = "OK" THEN NoAnswer
                  ELSE [call |-> <<kind, m>>, status |-> out.status]
     /\ UNCHANGED <<edits, editing, written>>

NewMethods == {"Create", "Register"}

\* A client's method is called about a stored object ...
Call(kind, m) ==
  /\ answer = NoAnswer
  /\ \E o \in Range(store[kind]) :
       LET req == RequestOf(kind, m, o.key, o.uid)
           route == Dispatch(req)
       IN Answered(kind, m, ServeRoute(kind, route, UidOf(route, req), Unset, o.uid))

\* ... or with a new object of any name and UID.
CallNew(kind, m) ==
  /\ answer = NoAnswer
  /\ \E n \in (IF kind = "event" THEN Names ELSE {Unset}), u \in Uids :
       LET req == RequestOf(kind, m, n, u)
       IN Answered(kind, m, ServeRoute(kind, Dispatch(req), Unset, n, u))

\* The caller takes note of a failure and goes on.
Return ==
  /\ answer # NoAnswer
  /\ answer' = NoAnswer
  /\ UNCHANGED <<store, creates, edits, editing, written>>

----------------------------------------------------------------------------
\* Requests no client of the repository has a method for.

ScheduleNow ==
  /\ creates < MaxCreates
  /\ \E u \in Uids : /\ ~HasKey("job", u)
                     /\ store' = [store EXCEPT !["job"] = Put(@, Object(u, u))]
  /\ creates' = creates + 1
  /\ UNCHANGED <<edits, editing, written, answer>>

\* workflowUpdateDag lists the dags ...
UpdateDagLists(w) ==
  /\ edits < MaxEdits
  /\ edits' = edits + 1
  /\ editing' = editing \cup
       {[edit |-> edits + 1, workflow |-> w,
         dag |-> IF DagsOf(w) = {} THEN Unset ELSE FirstDag(w).key]}
  /\ UNCHANGED <<store, creates, written, answer>>

\* The dag is written behind the others.
PutLast_mutant(e, k) ==
  /\ store' = [store EXCEPT !["dag"] = Append(SelectSeq(@, LAMBDA o : o.key # k),
                 [key |-> k, uid |-> k, workflow |-> e.workflow, edit |-> e.edit])]
  /\ written' = [written EXCEPT ![e.workflow] = e.edit]

WriteDag(e, k) ==
  /\ store' = [store EXCEPT !["dag"] =
                 Put(@, [key |-> k, uid |-> k, workflow |-> e.workflow, edit |-> e.edit])]
  /\ written' = [written EXCEPT ![e.workflow] = e.edit]

\* ... and writes to the one it found, or creates one.
UpdateDagWrites(e) ==
  /\ editing' = editing \ {e}
  /\ \/ e.dag # Unset /\ WriteDag(e, e.dag)
     \/ e.dag = Unset /\ \E k \in Uids : ~HasKey("dag", k) /\ WriteDag(e, k)
  /\ UNCHANGED <<creates, edits, answer>>

\* The dag is not valid, or the transaction lost to another.
UpdateDagFails(e) ==
  /\ editing' = editing \ {e}
  /\ UNCHANGED <<store, creates, edits, written, answer>>

ApiNext ==
  \/ \E kind \in Clients : \E m \in Methods(kind) :
       IF m \in NewMethods THEN CallNew(kind, m) ELSE Call(kind, m)
  \/ Return
  \/ ScheduleNow
  \/ \E w \in Uids : UpdateDagLists(w)
  \/ \E e \in editing : UpdateDagWrites(e) \/ UpdateDagFails(e)

ApiSpec == ApiInit /\ [][ApiNext]_apiVars

----------------------------------------------------------------------------
\* The calls the components make of the clients.

dagControllerCalls == {<<"workflow", "GetDag">>, <<"job", "UpdateStatus">>, <<"code", "List">>,
  <<"variable", "List">>, <<"connection", "List">>, <<"stage", "Create">>}
stageControllerCalls == {<<"stage", "List">>, <<"stage", "UpdateListStatus">>}
jobControllerCalls == {<<"stage", "List">>, <<"job", "Get">>, <<"job", "UpdateStatus">>}
cronTriggerCalls == {<<"workflow", "Get">>, <<"workflow", "UpdateStatus">>, <<"job", "Get">>,
  <<"job", "Create">>}
workerAgentCalls == {<<"stage", "Update">>, <<"worker", "Register">>, <<"worker", "Heartbeat">>}
schedulerCalls == {<<"stage", "Bind">>, <<"stage", "UpdateStatus">>, <<"worker", "Get">>}
recorderCalls == {<<"event", "Create">>, <<"event", "Patch">>}
workflowInformerCalls == {<<"workflow", "List">>, <<"workflow", "Watch">>}
jobInformerCalls == {<<"job", "List">>, <<"job", "Watch">>}
stageInformerCalls == {<<"stage", "List">>, <<"stage", "Watch">>}
workerInformerCalls == {<<"worker", "List">>, <<"worker", "Watch">>}


ComponentCalls == UNION {dagControllerCalls, stageControllerCalls, jobControllerCalls,
  cronTriggerCalls, workerAgentCalls, schedulerCalls, recorderCalls, workflowInformerCalls,
  jobInformerCalls, stageInformerCalls, workerInformerCalls}

\* The calls that never succeed: no route serves them; an update of an event
\* asks for its UID, and it is stored under its name; every delete panics.
NotServed ==
  Clients \X {"Delete", "DeleteCollection"}
  \cup {"workflow", "job", "worker"} \X {"Update", "Bind"}
  \cup {<<"stage", "UpdateStatus">>, <<"worker", "UpdateStatus">>, <<"event", "Update">>}

\* Everything a client asks for about an object that is there is answered by a
\* handler that finds it and does its work, but for the calls above; of these
\* the components make one, the scheduler's update of a stage it could not
\* schedule, and its error path only logs the failure. A second Create of an
\* event's name and a workflow without a dag are refused (installer.go
\* registerResourceHandlers; core/v1/*.go; registry/rest/*/storage.go Actions).
CallsAreServed ==
  /\ answer.status # "OK" =>
       \/ answer.call \in NotServed
       \/ answer.status = "Exists" /\ answer.call[2] = "Create"
       \/ answer.status = "NotFound" /\ answer.call = <<"workflow", "GetDag">>
  /\ ComponentCalls \cap NotServed = {<<"stage", "UpdateStatus">>}

\* A workflow's dag is what the last successful edit made of it: two first edits
\* at once leave the workflow with two dags, and the list that is sorted by the
\* last change still gives the right one (workflow/storage.go workflowGetDag,
\* workflowUpdateDag; etcd/store.go GetList).
DagIsLastWritten == \A w \in Uids : GetDag(w) = written[w]
=============================================================================
