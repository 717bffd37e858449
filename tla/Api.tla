-------------------------------- MODULE Api --------------------------------
(***************************************************************************)
(* The HTTP API (internal/httpapi/router.go and the calls of               *)
(* orchestrator.Service behind it): clients whose requests are refused,    *)
(* carried out or fail, over the store's transactions and beside the       *)
(* workers'.  The connection to PostgreSQL may break before a commit, or   *)
(* after it and before its acknowledgement; a reply may be lost and its    *)
(* request sent again.                                                     *)
(*                                                                         *)
(* A request has a route, a method and an argument: the workflow, the      *)
(* execution or the task it is about.  sound tells whether its path, query *)
(* and body are what the route wants.                                      *)
(***************************************************************************)
EXTENDS Store

CONSTANTS
  Clients,
  Names,        \* workflow names
  RequestCap,   \* bound: requests in one behaviour
  ApiFaultCap   \* bound: broken connections and lost replies

ASSUME ApiBoundAssumption == RequestCap \in Nat /\ ApiFaultCap \in Nat

VARIABLES
  definitions,   \* workflow_definitions.name, which is unique
  call,          \* the request each client waits for, and what came of it
  requests,      \* requests so far
  apiFaults,     \* faults so far
  deadLettered,  \* auxiliary: how often each task was dead-lettered
  accepted       \* auxiliary: replays of each task answered 202

apiVars == <<definitions, call, requests, apiFaults, deadLettered, accepted>>

-----------------------------------------------------------------------------
(* The method each route takes, and what it answers to an unsound path,    *)
(* query or body, and to an error it does not know.                        *)
Post == {"workflows", "executions", "tasks"}
Get  == {"snapshot", "dead-lettered-tasks"}

Routes == Post \cup Get

Wants(route) == IF route \in Post THEN "POST" ELSE "GET"

UnsoundStatus(route) == IF route = "tasks" THEN 404 ELSE 400

(* Faulty variant: an error of the store is always a bad request. *)
BadRequest(route) == 400

ErrorStatus(route) == IF route \in {"workflows", "executions"} THEN 400 ELSE 500

Arguments(route) ==
  CASE route \in {"workflows", "executions"} -> Names
    [] route = "tasks"                       -> Tasks
    [] route = "snapshot"                    -> Executions
    [] route = "dead-lettered-tasks"         -> {"limit"}

NoCall ==
  [route |-> "none", method |-> "none", sound |-> TRUE, arg |-> "none",
   phase |-> "idle", reply |-> 0, changed |-> FALSE]

ApiInit ==
  /\ StoreInit
  /\ definitions = {}
  /\ call = [c \in Clients |-> NoCall]
  /\ requests = 0
  /\ apiFaults = 0
  /\ deadLettered = [t \in Tasks |-> 0]
  /\ accepted = [t \in Tasks |-> 0]

-----------------------------------------------------------------------------
(* A client sends a request, a new one or the one whose reply was lost.    *)
(* With a method the route does not take, the rest is not looked at.       *)
Send(c) ==
  /\ call[c].phase \in {"idle", "lost"}
  /\ requests < RequestCap
  /\ requests' = requests + 1
  /\ \/ /\ call[c].phase = "lost"
        /\ call' = [call EXCEPT ![c].phase = "sent", ![c].reply = 0, ![c].changed = FALSE]
     \/ \E r \in Routes, m \in {"OPTIONS", "GET", "POST"}, s \in BOOLEAN :
          \E a \in Arguments(r) :
            /\ m # Wants(r) => s
            /\ call' = [call EXCEPT ![c] = [NoCall EXCEPT
                 !.route = r, !.method = m, !.sound = s, !.arg = a, !.phase = "sent"]]
  /\ UNCHANGED <<storeVars, definitions, apiFaults, deadLettered, accepted>>

(* The handler's answer, and whether the request changed the database. *)
Answer(c, code, change) ==
  /\ call' = [call EXCEPT ![c].phase = "answered", ![c].reply = code, ![c].changed = change]
  /\ accepted' = [t \in Tasks |->
       IF call[c].route = "tasks" /\ call[c].arg = t /\ code = 202 THEN accepted[t] + 1
       ELSE accepted[t]]
  /\ UNCHANGED <<requests, deadLettered>>

(* What is answered before the store is asked, 0 if nothing is. *)
Refusal(q) ==
  CASE q.method = "OPTIONS"      -> 204
    [] q.method # Wants(q.route) -> 405
    [] ~q.sound                  -> UnsoundStatus(q.route)
    [] OTHER                     -> 0

Refuse(c) ==
  /\ call[c].phase = "sent"
  /\ Refusal(call[c]) # 0
  /\ Answer(c, Refusal(call[c]), FALSE)
  /\ UNCHANGED <<storeVars, definitions, apiFaults>>

Calls(c, route) == call[c].phase = "sent" /\ Refusal(call[c]) = 0 /\ call[c].route = route

(* The statement or transaction of a handler that writes; code is what its *)
(* commit is answered with.                                                *)
InsertDefinition(n) ==
  /\ n \notin definitions
  /\ definitions' = definitions \cup {n}
  /\ UNCHANGED storeVars

Write(c, code) ==
  \/ /\ Calls(c, "workflows")
     /\ InsertDefinition(call[c].arg)
     /\ Answer(c, code, TRUE)
  \/ /\ Calls(c, "executions")
     /\ call[c].arg \in definitions
     /\ \E e \in Executions : CreateExecutionAndTask(e)
     /\ Answer(c, code, TRUE)
     /\ UNCHANGED definitions
  \/ /\ Calls(c, "tasks")
     /\ ReplayDeadLetteredTask(call[c].arg)
     /\ Answer(c, code, TRUE)
     /\ UNCHANGED definitions

Accept(c) ==
  /\ Write(c, IF call[c].route = "workflows" THEN 201 ELSE 202)
  /\ UNCHANGED apiFaults

(* What the store reports back without a change: a name that is taken, a   *)
(* definition, an execution or a task that is not there, a task in another *)
(* status; and the reads.                                                  *)
Report(c) ==
  /\ LET arg == call[c].arg IN
     \/ Calls(c, "workflows") /\ arg \in definitions /\ Answer(c, 400, FALSE)
     \/ Calls(c, "executions") /\ arg \notin definitions /\ Answer(c, 404, FALSE)
     \/ Calls(c, "tasks") /\ status[arg] = "none" /\ Answer(c, 404, FALSE)
     \/ Calls(c, "tasks") /\ status[arg] \notin {"none", "dead_lettered"} /\ Answer(c, 400, FALSE)
     \/ Calls(c, "snapshot") /\ Answer(c, IF exec[arg] = "none" THEN 404 ELSE 200, FALSE)
     \/ Calls(c, "dead-lettered-tasks") /\ Answer(c, 200, FALSE)
  /\ UNCHANGED <<storeVars, definitions, apiFaults>>

(* The store fails: the connection breaks before the commit, or before the *)
(* API hears of it, or PostgreSQL rejects the id.                          *)
ConnectionBreaks(c) ==
  /\ apiFaults < ApiFaultCap
  /\ apiFaults' = apiFaults + 1
  /\ \/ /\ \E r \in Routes : Calls(c, r)
        /\ Answer(c, ErrorStatus(call[c].route), FALSE)
        /\ UNCHANGED <<storeVars, definitions>>
     \/ Write(c, ErrorStatus(call[c].route))

Deliver(c) ==
  /\ call[c].phase = "answered"
  /\ call' = [call EXCEPT ![c] = NoCall]
  /\ UNCHANGED <<storeVars, definitions, requests, apiFaults, deadLettered, accepted>>

(* The API stops, or the client gives up. *)
LoseReply(c) ==
  /\ call[c].phase = "answered"
  /\ apiFaults < ApiFaultCap
  /\ apiFaults' = apiFaults + 1
  /\ call' = [call EXCEPT ![c].phase = "lost"]
  /\ UNCHANGED <<storeVars, definitions, requests, deadLettered, accepted>>

-----------------------------------------------------------------------------
(* Beside the API: a worker starts an attempt, or one that runs ends, well *)
(* or for good.  Several may run, and one may end after another did.       *)
WorkerEnds(t, n) ==
  \/ NextTask[t[2]] = NoTask /\ CompleteTaskAttempt(t, n) /\ UNCHANGED deadLettered
  \/ NextTask[t[2]] # NoTask /\ CompleteTaskAttemptAndEnqueueNextTask(t, n) /\ UNCHANGED deadLettered
  \/ /\ FailTaskAttempt(t, n)
     /\ deadLettered' = [deadLettered EXCEPT ![t] = IF status[t] = "dead_lettered" THEN @ ELSE @ + 1]

Workers ==
  /\ \E t \in Tasks :
       \/ status[t] # "none" /\ StartTaskAttempt(t) /\ UNCHANGED deadLettered
       \/ \E n \in DOMAIN attempts[t] : attempts[t][n] = "running" /\ WorkerEnds(t, n)
  /\ UNCHANGED <<definitions, call, requests, apiFaults, accepted>>

ApiNext ==
  \/ \E c \in Clients :
       \/ Send(c) \/ Refuse(c) \/ Accept(c) \/ Report(c)
       \/ ConnectionBreaks(c) \/ Deliver(c) \/ LoseReply(c)
  \/ Workers

ApiSpec == ApiInit /\ [][ApiNext]_<<storeVars, apiVars>>

-----------------------------------------------------------------------------
(* A client may believe its reply: after 201 or 202 the request is in the  *)
(* database, after any other answer but an error's it left no trace.  A    *)
(* broken connection never makes a replay look refused.                    *)
ReplyTellsTheEffect ==
  \A c \in Clients : call[c].phase = "answered" =>
    /\ call[c].reply \in {201, 202} => call[c].changed
    /\ call[c].changed => call[c].reply \in {201, 202, ErrorStatus(call[c].route)}
    /\ call[c].route = "tasks" /\ call[c].reply \in {400, 404} => ~call[c].changed

(* However many clients ask, and ask again, a task that was dead-lettered  *)
(* is replayed once for each time: what was accepted and what is left to   *)
(* accept never exceed its dead-letterings.                                *)
ReplayedOncePerDeadLetter ==
  \A t \in Tasks :
    accepted[t] + (IF status[t] = "dead_lettered" THEN 1 ELSE 0) <= deadLettered[t]
=============================================================================
