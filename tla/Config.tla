------------------------------- MODULE Config -------------------------------
(***************************************************************************)
(* From the environment of a process to the settings it runs on            *)
(* (internal/config/config.go): loadConfig reads and parses, the loader of *)
(* each binary fills in its names, Validate refuses what is left, and the  *)
(* components have fallbacks of their own for what they are given.         *)
(*                                                                         *)
(* A text setting is empty, blank or some text.  The text of a numeric one *)
(* is unset, words, or begins with a number, alone or with something after *)
(* it; a duration's unit belongs to its number.                            *)
(* HTTP_ADDR stands for API_HTTP_ADDR or WORKER_HTTP_ADDR.                 *)
(***************************************************************************)
EXTENDS Integers

CONSTANTS
  Numbers,   \* the numbers that numeric settings begin with
  EditCap    \* bound: variables the operator changes

ASSUME ConfigAssumption == Numbers \subseteq Int /\ EditCap \in Nat

TextKeys     == {"SERVICE_NAME", "HTTP_ADDR", "DATABASE_URL", "REDIS_ADDR",
                 "REDIS_STREAM", "REDIS_GROUP", "REDIS_CONSUMER"}
DurationKeys == {"REDIS_RECLAIM_MIN_IDLE", "STARTUP_TIMEOUT", "OUTBOX_POLL_INTERVAL"}
NumericKeys  == DurationKeys \cup {"REDIS_RECLAIM_COUNT"}

Texts == {"", " ", "text"}
Raw   == [form : {"unset", "words"}, num : {0}]
           \cup [form : {"number", "number and rest"}, num : Numbers]
Unset == [form |-> "unset", num |-> 0]

(* What is taken when nothing is set: by the loader, and again by          *)
(* normalizeConsumeOptions, OpenWithRetry, WaitForReady and NewPublisher.  *)
Fallback ==
  [k \in NumericKeys |->
     CASE k = "REDIS_RECLAIM_COUNT"  -> 10
       [] k = "OUTBOX_POLL_INTERVAL" -> 2
       [] OTHER                      -> 30]

VARIABLES
  texts,     \* the environment: the text settings,
  numerics,  \* and the numeric ones
  edits,     \* how many were changed
  kind,      \* the binary started, or "none"
  settings   \* the Config returned; loaded tells whether err was nil

configVars == <<texts, numerics, edits, kind, settings>>

NotLoaded ==
  [loaded |-> FALSE, text |-> [k \in TextKeys |-> ""], num |-> [k \in NumericKeys |-> 0]]

(* An environment that names every connection and leaves the defaults. *)
ConfigInit ==
  /\ texts = [k \in TextKeys |-> IF k = "REDIS_CONSUMER" THEN "" ELSE "text"]
  /\ numerics = [k \in NumericKeys |-> Unset]
  /\ edits = 0
  /\ kind = "none"
  /\ settings = NotLoaded

-----------------------------------------------------------------------------
Refused == [ok |-> FALSE, num |-> 0]

(* Only a positive number is taken. *)
Positive(n) == IF n > 0 THEN [ok |-> TRUE, num |-> n] ELSE Refused

(* Faulty variant: what cannot be parsed counts as not set. *)
LenientDuration(raw, fallback) ==
  IF raw.form = "number" THEN Positive(raw.num) ELSE [ok |-> TRUE, num |-> fallback]

(* time.ParseDuration takes the whole text or fails. *)
DurationOrDefault(raw, fallback) ==
  CASE raw.form = "unset"  -> [ok |-> TRUE, num |-> fallback]
    [] raw.form = "number" -> Positive(raw.num)
    [] OTHER               -> Refused

(* fmt.Sscan takes the number the text begins with, and looks no further. *)
Int64OrDefault(raw, fallback) ==
  CASE raw.form = "unset" -> [ok |-> TRUE, num |-> fallback]
    [] raw.form = "words" -> Refused
    [] OTHER              -> Positive(raw.num)

Parsed ==
  [k \in NumericKeys |->
     IF k \in DurationKeys THEN DurationOrDefault(numerics[k], Fallback[k])
     ELSE Int64OrDefault(numerics[k], Fallback[k])]

(* The names a binary gives itself: those of the code are never blank. *)
Named(k) ==
  IF k \in {"SERVICE_NAME", "HTTP_ADDR", "REDIS_CONSUMER"} /\ texts[k] = ""
  THEN "text" ELSE texts[k]

(* After strings.TrimSpace nothing is empty, and every number positive. *)
Validate(c) ==
  (\A k \in TextKeys : c.text[k] = "text") /\ (\A k \in NumericKeys : c.num[k] > 0)

Load(b) ==
  /\ kind = "none"
  /\ kind' = b
  /\ settings' =
       LET c == [loaded |-> TRUE, text |-> [k \in TextKeys |-> Named(k)],
                 num |-> [k \in NumericKeys |-> Parsed[k].num]]
       IN  IF (\A k \in NumericKeys : Parsed[k].ok) /\ Validate(c) THEN c ELSE NotLoaded
  /\ UNCHANGED <<texts, numerics, edits>>

(* The process ends, at once when err is not nil, and may be started again. *)
Exit ==
  /\ kind # "none"
  /\ kind' = "none"
  /\ settings' = NotLoaded
  /\ UNCHANGED <<texts, numerics, edits>>

Edit ==
  /\ kind = "none"
  /\ edits < EditCap
  /\ edits' = edits + 1
  /\ \/ \E k \in TextKeys, v \in Texts : texts' = [texts EXCEPT ![k] = v] /\ UNCHANGED numerics
     \/ \E k \in NumericKeys, v \in Raw : numerics' = [numerics EXCEPT ![k] = v] /\ UNCHANGED texts
  /\ UNCHANGED <<kind, settings>>

ConfigNext == (\E b \in {"api", "worker"} : Load(b)) \/ Exit \/ Edit

ConfigSpec == ConfigInit /\ [][ConfigNext]_configVars

-----------------------------------------------------------------------------
(* The value a component ends up with, after its own fallback. *)
Effective(k) == IF settings.num[k] <= 0 THEN Fallback[k] ELSE settings.num[k]

(* A process that starts runs on what its environment says: every duration *)
(* and number in use is the one set, or its default where none is, after   *)
(* the parsing, the check and the components' own fallbacks.  Nothing else *)
(* than a duration or a number is made into one; REDIS_RECLAIM_COUNT with  *)
(* something after its number is the exception, which MalformedIsRefused   *)
(* is about.                                                               *)
RunsOnItsSettings ==
  settings.loaded =>
    \A k \in NumericKeys :
      LET raw == numerics[k] IN
      \/ raw = Unset /\ Effective(k) = Fallback[k]
      \/ raw.form = "number" /\ Effective(k) = raw.num
      \/ k \notin DurationKeys /\ raw.form = "number and rest"

(* A process with a malformed setting does not start: what is set is a     *)
(* duration or a number and nothing more.  docs/operations.md says so of   *)
(* REDIS_RECLAIM_COUNT too, but fmt.Sscan does not look at the rest.       *)
MalformedIsRefused ==
  settings.loaded => \A k \in NumericKeys : numerics[k].form \in {"unset", "number"}
=============================================================================
