------------------------------ MODULE Console ------------------------------
(***************************************************************************)
(* The web console (apps/web/src/App.tsx): the user's actions, the polling *)
(* of the selected execution's snapshot and of the dead-letter list, and   *)
(* their replies in whatever order they come.  A tick of a timer does not  *)
(* wait for the reply to the last one.                                     *)
(*                                                                         *)
(* The engine behind the API is a version number per execution, 0 before   *)
(* it is triggered, and the set of executions with a dead-lettered task.   *)
(* A request reads it when it is sent: one that is read later is one sent  *)
(* later.  React runs an effect some time after the state it depends on    *)
(* has changed.                                                            *)
(***************************************************************************)
EXTENDS Naturals, FiniteSets

CONSTANTS
  Executions,
  Nothing,      \* null, "" and an unused slot
  Slots,        \* bound: GETs of one kind in flight
  VersionCap,   \* bound: changes of an execution
  ActionCap     \* bound: clicks of the user

ASSUME ConsoleAssumption ==
  Nothing \notin Executions /\ VersionCap \in Nat /\ ActionCap \in Nat

VARIABLES
  version, dead,   \* the engine
  workflow,        \* has a workflow been created?
  loading,         \* an action is under way and the buttons are disabled
  actions,         \* the requests of actions that are under way
  clicks,          \* actions so far
  executionId,     \* the execution selected
  watching,        \* the one the running effect polls
  snapshot,        \* what is shown of it
  polls,           \* GETs of a snapshot in flight
  deadLetters,     \* the list shown
  lists,           \* GETs of the list in flight
  selectedBy       \* auxiliary: the click that selected the execution

engineVars  == <<version, dead>>
actionVars  == <<workflow, loading, actions, clicks, selectedBy>>
consoleVars == <<engineVars, actionVars, executionId, watching, snapshot, polls, deadLetters, lists>>

NoPolls == [s \in Slots |-> Nothing]

(* The page is loaded and asks for the list. *)
ConsoleInit ==
  /\ version = [e \in Executions |-> 0]
  /\ dead = {}
  /\ workflow = FALSE
  /\ loading = FALSE
  /\ actions = {}
  /\ clicks = 0
  /\ executionId = Nothing
  /\ watching = Nothing
  /\ snapshot = Nothing
  /\ polls = NoPolls
  /\ deadLetters = {}
  /\ lists \in {[NoPolls EXCEPT ![s] = {}] : s \in Slots}
  /\ selectedBy = 0

-----------------------------------------------------------------------------
(* The engine works on an execution; a task may be dead-lettered. *)
EngineMoves(e) ==
  /\ version[e] \in 1 .. VersionCap - 1
  /\ e \notin dead
  /\ version' = [version EXCEPT ![e] = @ + 1]
  /\ dead' \in {dead, dead \cup {e}}
  /\ UNCHANGED <<actionVars, executionId, watching, snapshot, polls, deadLetters, lists>>

(* A button is clicked.  The handlers of the buttons check what their      *)
(* disabled attributes check.                                              *)
Ask(kind, e) ==
  /\ clicks < ActionCap
  /\ clicks' = clicks + 1
  /\ loading' = TRUE
  /\ actions' = actions \cup {[kind |-> kind, id |-> e, n |-> clicks + 1, phase |-> "sent", list |-> {}]}
  /\ UNCHANGED <<engineVars, workflow, selectedBy, executionId, watching, snapshot, polls,
                 deadLetters, lists>>

Button ==
  \/ Ask("create", Nothing)
  \/ workflow /\ \E e \in Executions : version[e] = 0 /\ Ask("trigger", e)
  \/ \E e \in deadLetters : Ask("replay", e)

(* Faulty variant: the buttons stay enabled. *)
ClickWhileLoading == Button

Click == ~loading /\ Button

(* What a request does to the engine; the API refuses a replay of a task   *)
(* that is no longer dead-lettered, and a new execution has a new id.      *)
Accepted(a) ==
  \/ a.kind = "create"
  \/ a.kind = "trigger" /\ version[a.id] = 0
  \/ a.kind = "replay" /\ a.id \in dead

Effect(a) ==
  /\ version' = IF a.kind = "create" THEN version
                ELSE [version EXCEPT ![a.id] = @ + 1]
  /\ dead' = dead \ {a.id}

Becomes(a, phase) == actions' = (actions \ {a}) \cup {[a EXCEPT !.phase = phase]}

Serve(a) ==
  /\ a.phase = "sent"
  /\ \/ Accepted(a) /\ Effect(a) /\ (Becomes(a, "accepted") \/ Becomes(a, "failed"))
     \/ Becomes(a, "failed") /\ UNCHANGED engineVars
  /\ UNCHANGED <<workflow, loading, clicks, selectedBy, executionId, watching, snapshot, polls,
                 deadLetters, lists>>

(* The finally block. *)
Returns(a) == actions' = actions \ {a} /\ loading' = FALSE

(* The reply to an action; a replay then awaits loadDeadLetterTasks, which *)
(* may fail and swallows its error.                                        *)
Selects(a) == executionId' = a.id /\ snapshot' = Nothing /\ selectedBy' = a.n

ActionReply(a) ==
  /\ \/ /\ a.phase = "failed"
        /\ Returns(a)
        /\ UNCHANGED <<workflow, selectedBy, executionId, snapshot, deadLetters>>
     \/ /\ a.phase = "accepted"
        /\ a.kind = "create"
        /\ workflow' = TRUE
        /\ Returns(a)
        /\ UNCHANGED <<selectedBy, executionId, snapshot, deadLetters>>
     \/ /\ a.phase = "accepted"
        /\ a.kind = "trigger"
        /\ Selects(a)
        /\ Returns(a)
        /\ UNCHANGED <<workflow, deadLetters>>
     \/ /\ a.phase = "accepted"
        /\ a.kind = "replay"
        /\ Selects(a)
        /\ actions' = (actions \ {a}) \cup {[a EXCEPT !.phase = "refresh", !.list = dead]}
        /\ UNCHANGED <<workflow, loading, deadLetters>>
     \/ /\ a.phase = "refresh"
        /\ deadLetters' \in {a.list, deadLetters}
        /\ Returns(a)
        /\ UNCHANGED <<workflow, selectedBy, executionId, snapshot>>
  /\ UNCHANGED <<engineVars, clicks, watching, polls, lists>>

-----------------------------------------------------------------------------
(* loadSnapshot for e is sent, when there is a slot for it. *)
Sent(e, ps) ==
  {[ps EXCEPT ![s] = [id |-> e, version |-> version[e]]] : s \in {t \in Slots : ps[t] = Nothing}}

(* Faulty variant: executionId is not among the effect's dependencies. *)
EffectRunsOnce ==
  /\ watching = Nothing
  /\ executionId # Nothing
  /\ watching' = executionId
  /\ polls' \in Sent(executionId, polls)
  /\ UNCHANGED <<engineVars, actionVars, executionId, snapshot, deadLetters, lists>>

(* The effect of executionId: its cleanup cancels the polls in flight,     *)
(* whose replies then change nothing, its setup sends one and sets the     *)
(* timer.                                                                  *)
EffectRuns ==
  /\ watching # executionId
  /\ watching' = executionId
  /\ polls' \in Sent(executionId, NoPolls)
  /\ UNCHANGED <<engineVars, actionVars, executionId, snapshot, deadLetters, lists>>

PollTick ==
  /\ watching # Nothing
  /\ polls' \in Sent(watching, polls)
  /\ UNCHANGED <<engineVars, actionVars, executionId, watching, snapshot, deadLetters, lists>>

(* Replies to polls come in any order. *)
PollReply(s) ==
  /\ polls[s] # Nothing
  /\ snapshot' = polls[s]
  /\ polls' = [polls EXCEPT ![s] = Nothing]
  /\ UNCHANGED <<engineVars, actionVars, executionId, watching, deadLetters, lists>>

PollFails(s) ==
  /\ polls[s] # Nothing
  /\ polls' = [polls EXCEPT ![s] = Nothing]
  /\ UNCHANGED <<engineVars, actionVars, executionId, watching, snapshot, deadLetters, lists>>

ListTick ==
  /\ \E s \in Slots : lists[s] = Nothing /\ lists' = [lists EXCEPT ![s] = dead]
  /\ UNCHANGED <<engineVars, actionVars, executionId, watching, snapshot, polls, deadLetters>>

ListReply(s) ==
  /\ lists[s] # Nothing
  /\ deadLetters' = lists[s]
  /\ lists' = [lists EXCEPT ![s] = Nothing]
  /\ UNCHANGED <<engineVars, actionVars, executionId, watching, snapshot, polls>>

ListFails(s) ==
  /\ lists[s] # Nothing
  /\ lists' = [lists EXCEPT ![s] = Nothing]
  /\ UNCHANGED <<engineVars, actionVars, executionId, watching, snapshot, polls, deadLetters>>

Replies == \E s \in Slots : PollReply(s) \/ PollFails(s) \/ ListReply(s) \/ ListFails(s)

Actions == \E a \in actions : Serve(a) \/ ActionReply(a)

ConsoleNext ==
  \/ \E e \in Executions : EngineMoves(e)
  \/ Click \/ Actions \/ EffectRuns \/ PollTick \/ ListTick \/ Replies

ConsoleSpec == ConsoleInit /\ [][ConsoleNext]_consoleVars

(* Timers fire, effects run, every request ends, and polling does not fail *)
(* for ever: fetch settles each promise, one way or the other.             *)
ConsoleLiveSpec ==
  /\ ConsoleSpec
  /\ WF_consoleVars(Actions)
  /\ WF_consoleVars(EffectRuns)
  /\ WF_consoleVars(PollTick)
  /\ WF_consoleVars(ListTick)
  /\ \A s \in Slots :
       /\ WF_consoleVars(PollReply(s) \/ PollFails(s))
       /\ WF_consoleVars(ListReply(s) \/ ListFails(s))
       /\ SF_consoleVars(PollReply(s))
       /\ SF_consoleVars(ListReply(s))

-----------------------------------------------------------------------------
(* The execution the console watches is the one the user acted on last:    *)
(* no reply to an earlier action takes the view back.                      *)
LastActionIsShown == [][selectedBy' >= selectedBy]_consoleVars

Current ==
  /\ executionId = Nothing \/ snapshot = [id |-> executionId, version |-> version[executionId]]
  /\ deadLetters = dead

(* Later polls refresh what is shown: once the engine and the user rest,   *)
(* the console comes to show the selected execution and the dead letters   *)
(* as they are, although replies overtake each other, some fail, and some  *)
(* belong to an execution selected before.                                 *)
ConsoleCatchesUp == <>[]Current
=============================================================================
