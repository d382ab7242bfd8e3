-------------------------------- MODULE Api --------------------------------
(***************************************************************************)
(* Calls of the methods of one docker.Client (Methods) from several        *)
(* goroutines: the version of the API is asked for first and kept under    *)
(* apiVersionMutex, the request is sent by do, stream or hijack, and the   *)
(* answer becomes the method's result.                                     *)
(*                                                                         *)
(* The daemon is external: resource r[on] is in one state, a request       *)
(* changes it and has a status, and other clients change it too.  A        *)
(* request that its caller has given up may still be served (orphans).     *)
(***************************************************************************)
EXTENDS Methods, Versions

CONSTANTS
  Callers,      \* goroutines that use the client
  Strings,      \* values of "ApiVersion" in answers to /version, as tokens
  MaxFaults,    \* bound: contexts done, connections refused or lost, status 500
  MaxChanges    \* bound: changes that others make, a newer daemon included

Nobody == "nobody"

ASSUME ApiBounds == MaxFaults \in Nat /\ MaxChanges \in Nat /\ Nobody \notin Callers

VARIABLES
  area,                         \* the methods that are called: the resource, or "version"
  skip, requested,              \* SkipServerVersionCheck, requestedAPIVersion
  server, expected, mutex,      \* serverAPIVersion, expectedAPIVersion, who holds apiVersionMutex
  pc, op, form, status, result, \* of each caller; form: what is sent for the version
  answer,                       \* to its request for the version
  cancelled, seen,              \* its context is done; the states of the resource since it began
  string, had, r, orphans,      \* the daemon: its version, those it has had, resources
  left, faults, changes,        \* what is left of the bounds
  taken                         \* answers to /version that were kept

asked  == <<server, expected, mutex, taken>>
call   == <<pc, op, form, status, answer, result, cancelled, seen>>
daemon == <<string, had, r, orphans>>
bounds == <<left, faults, changes>>
vars   == <<area, skip, requested, asked, call, daemon, bounds>>

States ==
  [container |-> {"noimage", "none", "created", "running", "paused", "exited"},
   exec      |-> {"none", "stopped", "running", "created"},
   image     |-> {"none", "present"},
   network   |-> {"none", "idle", "joined"},
   volume    |-> {"none", "free", "used"},
   plugin    |-> {"none", "disabled", "enabled"},
   system    |-> {"up"}]
OpsOf ==
  [container |-> ContainerOps, exec |-> ExecOps, image |-> ImageOps, network |-> NetworkOps,
   volume |-> VolumeOps, plugin |-> PluginOps, system |-> SystemOps,
   version |-> {StartContainer, CreateExec, BuildImage, Version}]

(* What the daemon does with a request that finds the resource in state x: *)
(* it answers with status s and leaves y, or it waits.                     *)
Missing == {"none", "noimage"}
Live    == {"running", "paused"}
InUse   == {"used", "joined", "enabled"}
Codes   == {200, 201, 204, 304, 404, 409, 4009}
First == [container |-> "created", image |-> "present", network |-> "idle", volume |-> "free",
          plugin |-> "disabled"]
OfMissing(on, does, x, s, y) ==
  \/ does = "prune" /\ s = 200 /\ y = x
  \/ does \in {"create", "pull", "import", "build"} /\ (x = "noimage" => does # "create")
     /\ s = 201 /\ y = First[on]
  \/ does \notin {"prune", "pull", "import", "build"} /\ (does = "create" => x = "noimage")
     /\ s = 404 /\ y = x
Conflicts(does, x) ==
  IF x \in Live
  THEN \/ does = "remove"
       \/ does \in {"pause", "top"} /\ x = "paused"
       \/ does = "unpause" /\ x = "running"
  ELSE does \in {"kill", "pause", "unpause", "top"}
OfContainer(does, x, s, y) ==
  \/ does = "create" /\ s \in {409, 4009} /\ y = x
  \/ Conflicts(does, x) /\ s = 409 /\ y = x
  \/ does = (IF x \in Live THEN "start" ELSE "stop") /\ s = 304 /\ y = x
  \/ does \in {"stop", "kill"} /\ x \in Live /\ s = 204 /\ y = "exited"
  \/ does \in {"start", "restart"} /\ x \notin Live /\ s = 204 /\ y = "running"
  \/ does = "restart" /\ x \in Live /\ s = 200 /\ y = "running"
  \/ does = "unpause" /\ x = "paused" /\ s = 200 /\ y = "running"
  \/ does = "pause" /\ x = "running" /\ s = 204 /\ y = "paused"
  \/ does = "remove" /\ x \notin Live /\ s = 204 /\ y = "none"
  \/ does = "prune" /\ s = 200 /\ y = IF x \in Live THEN x ELSE "none"
  \/ does = "wait" /\ x \notin Live /\ s = 200 /\ y = x
  \/ does = "top" /\ x = "running" /\ s = 200 /\ y = x
  \/ /\ does \notin {"create", "start", "stop", "kill", "restart", "pause", "unpause", "remove",
                     "prune", "wait", "top"}
     /\ s = 200 /\ y = x
Leaves == {<<"connect", "joined">>, <<"disconnect", "idle">>, <<"enable", "enabled">>, <<"disable", "disabled">>}
OfOther(does, x, s, y) ==
  \/ does = "create" /\ s = 409 /\ y = x
  \/ does = "remove" /\ x \in InUse /\ s = 409 /\ y = x
  \/ does = "prune" /\ x \in InUse /\ s = 200 /\ y = x
  \/ does \in {"remove", "prune"} /\ x \notin InUse /\ s = 200 /\ y = "none"
  \/ <<does, y>> \in Leaves /\ s = 200
  \/ does \notin {"create", "remove", "prune", "connect", "disconnect", "enable", "disable"}
     /\ s = 200 /\ y = x
OfExec(does, x, s, y) ==
  \/ does = "create" /\ x = "none" /\ s = 404 /\ y = x
  \/ does = "create" /\ x = "stopped" /\ s = 409 /\ y = x
  \/ does = "create" /\ x \in {"running", "created"} /\ s = 201 /\ y = "created"
  \/ does # "create" /\ s = (IF x = "created" THEN 200 ELSE 404) /\ y = x
Anyway == {"list", "search", "load", "auth"}
Serves(on, does, x, s, y) ==
  IF on = "exec" THEN OfExec(does, x, s, y)
  ELSE \/ does \in Anyway /\ s = 200 /\ y = x
       \/ does \notin Anyway /\ x \in Missing /\ OfMissing(on, does, x, s, y)
       \/ does \notin Anyway /\ x \notin Missing
          /\ IF on = "container" THEN OfContainer(does, x, s, y) ELSE OfOther(does, x, s, y)
Serve(on, does, x) == {a \in Codes \X States[on] : Serves(on, does, x, a[1], a[2])}

Default == [container |-> "created", image |-> "present", network |-> "idle", volume |-> "free",
            plugin |-> "disabled", exec |-> "running", system |-> "up"]
Request(o) == [on |-> o.on, does |-> o.does]
Active     == {c \in Callers : pc[c] # "idle"}
\* A resource has a new state, which every call that is under way has seen.
Becomes(on, x) ==
  /\ r' = [r EXCEPT ![on] = x]
  /\ seen' = [c \in Callers |-> IF c \in Active /\ op[c].on = on THEN seen[c] \cup {x} ELSE seen[c]]

---------------------------------------------------------------------------
(* A call                                                                  *)

Return(c, e) == pc' = [pc EXCEPT ![c] = "idle"] /\ result' = [result EXCEPT ![c] = e]
(* An error of do, stream or hijack.  With it goes no response, which six  *)
(* methods of plugins use before they look at the error.                   *)
ReturnError(c, e) == Return(c, IF op[c].eager THEN "panic" ELSE e)

(* The methods that look at serverAPIVersion call checkAPIVersion before   *)
(* and drop its error.                                                     *)
ChecksFirst(o) == o.first = "always" \/ (o.first = "known" /\ server = Nil)
Begin(c) ==
  /\ pc[c] = "idle" /\ left[c] > 0
  /\ \E o \in OpsOf[area] :
       /\ op' = [op EXCEPT ![c] = o]
       /\ seen' = [seen EXCEPT ![c] = {r[o.on]}]
       /\ \/ /\ pc' = [pc EXCEPT ![c] = IF ChecksFirst(o) THEN "lockFirst" ELSE "limit"]
             /\ result' = [result EXCEPT ![c] = ""]
          \/ \E e \in o.empty : Return(c, e)
  /\ cancelled' = [cancelled EXCEPT ![c] = FALSE]
  /\ status' = [status EXCEPT ![c] = 0]
  /\ left' = [left EXCEPT ![c] = @ - 1]
  /\ UNCHANGED <<area, skip, requested, asked, form, answer, daemon, faults, changes>>

(* What depends on the version: a host config goes with a start, CacheFrom *)
(* or the newer authentication with a build; a copy or Env is refused.     *)
Known(v) == server # Nil /\ GreaterThanOrEqualTo(server, v)
\* A bug Forms does not have: it goes by the version that the caller asked for.
FormsAsked(limit) ==
  CASE expected = Nil -> {"plain"}
    [] limit = "hostConfig" -> {IF LessThan(expected, apiVersion124) THEN "hostConfig" ELSE "plain"}
    [] limit = "cacheFrom" /\ GreaterThanOrEqualTo(expected, apiVersion119) -> {"AuthConfigurations119"}
    [] OTHER -> {"plain"}
Payloads == {"plain", "hostConfig", "copy", "env", "AuthConfigurations119", "cacheFrom"}
Refusals == {"noLongerAvailable", "needsAPI125"}
Forms(limit) ==
  {f \in Payloads \cup Refusals :
     \/ limit = "hostConfig" /\ server # Nil /\ LessThan(server, apiVersion124) /\ f = "hostConfig"
     \/ limit = "hostConfig" /\ (server = Nil \/ ~LessThan(server, apiVersion124)) /\ f = "plain"
     \/ limit = "copy" /\ f = IF Known(apiVersion124) THEN "noLongerAvailable" ELSE "copy"
     \/ limit = "env" /\ f \in {"plain", IF LessThan(server, apiVersion125) THEN "needsAPI125" ELSE "env"}
     \/ limit = "cacheFrom" /\ f = IF Known(apiVersion119) THEN "AuthConfigurations119" ELSE "plain"
     \/ limit = "" /\ f = "plain"}
Limit(c) ==
  /\ pc[c] = "limit"
  /\ \E f \in Forms(op[c].limit) :
       IF f \in Refusals THEN Return(c, f) /\ UNCHANGED form
       ELSE /\ form' = [form EXCEPT ![c] = f]
            /\ pc' = [pc EXCEPT ![c] = IF op[c].limit = "cacheFrom" THEN "look" ELSE "do"]
            /\ UNCHANGED result
  /\ UNCHANGED <<area, skip, requested, asked, op, status, answer, cancelled, seen, daemon, bounds>>

(* BuildImage finds its context and looks at serverAPIVersion a second     *)
(* time: what is sent with "cacheFrom" has it, whatever its authentication.*)
ContextErrors == {"ErrMissingRepo", "ErrMultipleContexts", "createTarStream"}
LookAgain(c) ==
  /\ pc[c] = "look"
  /\ \/ (\E e \in ContextErrors : Return(c, e)) /\ UNCHANGED form
     \/ /\ \E f \in {form[c], "cacheFrom"} :
             (f = "cacheFrom" => Known(apiVersion125)) /\ form' = [form EXCEPT ![c] = f]
        /\ pc' = [pc EXCEPT ![c] = "do"]
        /\ UNCHANGED result
  /\ UNCHANGED <<area, skip, requested, asked, op, status, answer, cancelled, seen, daemon, bounds>>

(* The beginning of do, stream and hijack.                                 *)
Do(c) ==
  /\ pc[c] = "do"
  /\ pc' = [pc EXCEPT ![c] = IF op[c].does # "version" /\ ~skip /\ expected = Nil
                             THEN "lockDo" ELSE "sent"]
  /\ UNCHANGED <<area, skip, requested, asked, op, form, status, result, answer, cancelled, seen, daemon, bounds>>

---------------------------------------------------------------------------
(* checkAPIVersion, before the method or in do                             *)

After(c)   == IF pc[c] \in {"lockFirst", "askFirst", "adoptFirst"} THEN "first" ELSE "do"
Next(at)   == IF at = "first" THEN "limit" ELSE "sent"
Expected(v) == IF requested = Nil THEN v ELSE requested
Unlock     == mutex' = Nobody

\* A bug Lock does not have: serverAPIVersion is read without the mutex.
LockLate(c) ==
  /\ pc[c] \in {"lockFirst", "lockDo"} /\ (server = Nil \/ mutex = Nobody)
  /\ IF server = Nil
     THEN /\ mutex' = c
          /\ pc' = [pc EXCEPT ![c] = IF After(c) = "first" THEN "askFirst" ELSE "askDo"]
          /\ UNCHANGED expected
     ELSE /\ expected' = Expected(server)
          /\ pc' = [pc EXCEPT ![c] = Next(After(c))]
          /\ UNCHANGED mutex
  /\ UNCHANGED <<area, skip, requested, server, taken, op, form, status, result, answer, cancelled, seen, daemon, bounds>>

\* Nor this one: serverAPIVersion is not looked at.
LockAgain(c) ==
  /\ pc[c] \in {"lockFirst", "lockDo"} /\ mutex = Nobody
  /\ mutex' = c
  /\ pc' = [pc EXCEPT ![c] = IF After(c) = "first" THEN "askFirst" ELSE "askDo"]
  /\ UNCHANGED <<area, skip, requested, server, expected, taken, op, form, status, result, answer, cancelled, seen, daemon, bounds>>

Lock(c) ==
  /\ pc[c] \in {"lockFirst", "lockDo"} /\ mutex = Nobody
  /\ IF server = Nil
     THEN /\ mutex' = c
          /\ pc' = [pc EXCEPT ![c] = IF After(c) = "first" THEN "askFirst" ELSE "askDo"]
          /\ UNCHANGED expected
     ELSE /\ expected' = Expected(server)
          /\ pc' = [pc EXCEPT ![c] = Next(After(c))]
          /\ UNCHANGED mutex
  /\ UNCHANGED <<area, skip, requested, server, taken, op, form, status, result, answer, cancelled, seen, daemon, bounds>>

(* The daemon answers the request for its version.                         *)
AskServed(c) ==
  /\ pc[c] \in {"askFirst", "askDo"}
  /\ answer' = [answer EXCEPT ![c] = string]
  /\ pc' = [pc EXCEPT ![c] = IF After(c) = "first" THEN "adoptFirst" ELSE "adoptDo"]
  /\ UNCHANGED <<area, skip, requested, asked, op, form, status, result, cancelled, seen, daemon, bounds>>

(* A string that is no version is an error, as a request that fails is.    *)
CheckFails(c) ==
  IF After(c) = "first" THEN pc' = [pc EXCEPT ![c] = "limit"] /\ UNCHANGED result
  ELSE ReturnError(c, "checkAPIVersion")
Adopt(c) ==
  /\ pc[c] \in {"adoptFirst", "adoptDo"}
  /\ LET v == NewAPIVersion(answer[c]) IN
     /\ server' = v
     /\ IF v = Nil THEN CheckFails(c) /\ UNCHANGED <<expected, taken>>
        ELSE /\ expected' = Expected(v)
             /\ pc' = [pc EXCEPT ![c] = Next(After(c))]
             /\ taken' = taken + 1
             /\ UNCHANGED result
  /\ Unlock
  /\ UNCHANGED <<area, skip, requested, op, form, status, answer, cancelled, seen, daemon, bounds>>
\* A bug AskFails does not have: the mutex is unlocked after success only.
AskFailsLocked(c) ==
  /\ pc[c] \in {"askFirst", "askDo"} /\ faults > 0
  /\ CheckFails(c)
  /\ faults' = faults - 1
  /\ UNCHANGED <<area, skip, requested, asked, op, form, status, answer, cancelled, seen, daemon, left, changes>>

AskFails(c) ==
  /\ pc[c] \in {"askFirst", "askDo"} /\ faults > 0
  /\ CheckFails(c)
  /\ Unlock
  /\ faults' = faults - 1
  /\ UNCHANGED <<area, skip, requested, server, expected, taken, op, form, status, answer, cancelled, seen, daemon, left, changes>>

---------------------------------------------------------------------------
(* The request and its answer                                              *)

(* hijack, and stream over a socket file, return the error of Dial.        *)
DialErrors(o) ==
  {e \in {"ErrConnectionRefused", "dial"} :
     (e = "dial" => o.via # "do") /\ (e # "dial" => o.via # "hijack")}
Refused(c) ==
  /\ pc[c] = "sent" /\ faults > 0
  /\ \E e \in DialErrors(op[c]) : ReturnError(c, e)
  /\ faults' = faults - 1
  /\ UNCHANGED <<area, skip, requested, asked, op, form, status, answer, cancelled, seen, daemon, left, changes>>

Served(c) ==
  /\ pc[c] = "sent"
  /\ \E a \in Serve(op[c].on, op[c].does, r[op[c].on]) :
       Becomes(op[c].on, a[2]) /\ status' = [status EXCEPT ![c] = a[1]]
  /\ pc' = [pc EXCEPT ![c] = "answered"]
  /\ UNCHANGED <<area, skip, requested, asked, op, form, result, answer, cancelled, string, had, orphans, bounds>>
ServerError(c) ==
  /\ pc[c] = "sent" /\ faults > 0
  /\ status' = [status EXCEPT ![c] = 500]
  /\ pc' = [pc EXCEPT ![c] = "answered"]
  /\ faults' = faults - 1
  /\ UNCHANGED <<area, skip, requested, asked, op, form, result, answer, cancelled, seen, daemon, left, changes>>

(* The context is done, or the connection is lost: chooseError.  The       *)
(* daemon may have the request all the same.  An answer may be lost before *)
(* do returns or while the method reads it.                                *)
Cancel(c) ==
  /\ c \in Active /\ op[c].ctx /\ ~cancelled[c] /\ faults > 0
  /\ cancelled' = [cancelled EXCEPT ![c] = TRUE]
  /\ faults' = faults - 1
  /\ UNCHANGED <<area, skip, requested, asked, pc, op, form, status, answer, result, seen, daemon, left, changes>>
Abandon(c, e) ==
  /\ ReturnError(c, e) \/ (pc[c] = "answered" /\ Return(c, e))
  /\ orphans' \in {orphans} \cup (IF pc[c] = "sent" THEN {orphans \cup {Request(op[c])}} ELSE {})
  /\ UNCHANGED <<area, skip, requested, asked, op, form, status, answer, cancelled, seen, string, had, r, left, changes>>
GiveUp(c) ==
  /\ pc[c] = "sent" /\ cancelled[c]
  /\ Abandon(c, "context")
  /\ UNCHANGED faults
Lost(c) ==
  /\ pc[c] \in {"sent", "answered"} /\ faults > 0
  /\ Abandon(c, IF cancelled[c] THEN "context" ELSE "EOF")
  /\ faults' = faults - 1

(* What the method returns for a status.  hijack looks at none: a terminal *)
(* gets the error's text as output, else the text is no frame.             *)
\* A bug Results does not have: every refusal is the method's own error.
ResultsAnyStatus(o, s) ==
  CASE o.via = "hijack" -> {"nil"}
    [] s = 304          -> {IF o.unmodified = "" THEN "nil" ELSE o.unmodified}
    [] s < 400          -> {"nil"}
    [] o.errors # NoErrors -> {(CHOOSE p \in o.errors : TRUE)[2]}
    [] OTHER            -> {"APIError"}
Errors(o, s) == {p[2] : p \in {q \in o.errors : q[1] = s}}
Results(o, s) ==
  IF o.via = "hijack" THEN {"nil"} \cup (IF s >= 400 THEN {"noFrame"} ELSE {})
  ELSE IF s = 304 THEN {IF o.unmodified = "" THEN "nil" ELSE o.unmodified}
  ELSE IF s < 400 THEN {IF o.body = "closed" THEN "closedBody" ELSE "nil"}
  ELSE IF o.eager THEN {"panic"}
  ELSE IF Errors(o, s) = {} THEN {"APIError"}
  ELSE Errors(o, s)
Receive(c) ==
  /\ pc[c] = "answered"
  /\ \E e \in Results(op[c], status[c]) : Return(c, e)
  /\ UNCHANGED <<area, skip, requested, asked, op, form, status, answer, cancelled, seen, daemon, bounds>>

---------------------------------------------------------------------------
(* Others                                                                  *)

OrphanServed ==
  /\ \E q \in orphans : \E a \in Serve(q.on, q.does, r[q.on]) :
       Becomes(q.on, a[2]) /\ orphans' = orphans \ {q}
  /\ UNCHANGED <<area, skip, requested, asked, pc, op, form, status, result, answer, cancelled, string, had, bounds>>
OthersChange ==
  /\ changes > 0 /\ area # "version"
  /\ \E x \in States[area] : x # r[area] /\ Becomes(area, x)
  /\ changes' = changes - 1
  /\ UNCHANGED <<area, skip, requested, asked, pc, op, form, status, result, answer, cancelled, string, had, orphans, left, faults>>
Upgrade ==
  /\ changes > 0 /\ area = "version"
  /\ \E s \in Strings : s # string /\ string' = s /\ had' = had \cup {s}
  /\ changes' = changes - 1
  /\ UNCHANGED <<area, skip, requested, asked, call, r, orphans, left, faults>>

---------------------------------------------------------------------------
InitApi(calls) ==
  /\ area \in DOMAIN OpsOf
  /\ skip = (area # "version")
  /\ requested \in IF area = "version" THEN {Nil, <<1, 24>>} ELSE {Nil}
  /\ server = Nil /\ expected = Nil /\ mutex = Nobody /\ taken = 0
  /\ pc = [c \in Callers |-> "idle"] /\ op = [c \in Callers |-> Ping]
  /\ form = [c \in Callers |-> "plain"] /\ status = [c \in Callers |-> 0]
  /\ result = [c \in Callers |-> "none"] /\ answer = [c \in Callers |-> Nil]
  /\ cancelled = [c \in Callers |-> FALSE] /\ seen = [c \in Callers |-> {}]
  /\ string \in Strings /\ had = {string} /\ orphans = {}
  /\ \E x \in IF area = "version" THEN {"created"} ELSE States[area] :
       r = [on \in DOMAIN States |-> IF on = area THEN x ELSE Default[on]]
  /\ left \in calls /\ faults = MaxFaults /\ changes = MaxChanges

Own(c) ==
  \/ Limit(c) \/ LookAgain(c) \/ Do(c) \/ Lock(c) \/ Adopt(c) \/ GiveUp(c) \/ Receive(c)
NextApi ==
  \/ \E c \in Callers :
       \/ Begin(c) \/ Limit(c) \/ LookAgain(c) \/ Do(c) \/ Lock(c) \/ AskServed(c) \/ Adopt(c)
       \/ AskFails(c) \/ Refused(c) \/ Served(c) \/ ServerError(c) \/ Cancel(c)
       \/ GiveUp(c) \/ Lost(c) \/ Receive(c)
  \/ OrphanServed \/ OthersChange \/ Upgrade

SpecApi == InitApi([Callers -> Nat]) /\ [][NextApi]_vars

(* A goroutine that can go on does, and the daemon answers what it is      *)
(* asked, unless it waits for a container.  Faults, contexts, other        *)
(* clients and new calls have no fairness.                                 *)
FairApi ==
  \A c \in Callers : WF_vars(Own(c)) /\ WF_vars(AskServed(c) \/ Served(c))

---------------------------------------------------------------------------
(* The properties                                                          *)

(* Every variable has its type, and the mutex is held by the caller that   *)
(* asks for the version, and by no other.                                  *)
TypeOK ==
  /\ area \in DOMAIN OpsOf /\ skip \in BOOLEAN /\ mutex \in Callers \cup {Nobody}
  /\ \A c \in Callers :
       /\ op[c].on \in DOMAIN States
       /\ seen[c] \subseteq States[op[c].on]
       /\ pc[c] \in {"idle", "lockFirst", "askFirst", "adoptFirst", "limit", "look", "do",
                    "lockDo", "askDo", "adoptDo", "sent", "answered"}
       /\ mutex = c <=> pc[c] \in {"askFirst", "askDo", "adoptFirst", "adoptDo"}
  /\ \A on \in DOMAIN States : r[on] \in States[on]
  /\ left \in [Callers -> Nat] /\ faults \in 0 .. MaxFaults /\ changes \in 0 .. MaxChanges

(* What a method returns was so at a moment of the call, whatever others   *)
(* did to the resource: an error of its own is never the error of another  *)
(* condition with the same status, and no error means that the resource    *)
(* was as the method says it will be.  The second is not so for hijacked   *)
(* connections, whose status nobody looks at.                              *)
Means(o, e, x) ==
  /\ e = "ErrNoSuchImage" /\ o.on = "container" => x = "noimage"
  /\ e \in {"NoSuchContainer", "ErrNoSuchImage", "NoSuchNetwork", "NoSuchNetworkOrContainer",
            "ErrNoSuchVolume", "NoSuchPlugin"}  => x \in Missing
  /\ e = "NoSuchExec"                => x # "created"
  /\ e = "ErrContainerAlreadyExists" => x \notin Missing
  /\ e = "ContainerAlreadyRunning"   => x \in Live
  /\ e = "ContainerNotRunning"       => x \notin Live
  /\ e = "ErrVolumeInUse"            => x = "used"
Promise(o, x) ==
  /\ o.does \in {"start", "restart", "unpause"} /\ o.on = "container" => x = "running"
  /\ o.does \in {"stop", "kill", "wait"} => x \notin Live
  /\ o.does = "pause"   => x = "paused"
  /\ o.does = "remove"  => x \in Missing
  /\ o.does = "connect" => x = "joined"
  /\ o.does = "enable"  => x = "enabled"
  /\ o.does = "disable" => x = "disabled"
  /\ o.on = "exec"      => x = "created"
  /\ o.does \notin Anyway \cup {"prune", "stop", "kill", "wait", "remove"} => x \notin Missing
ResultsTrue ==
  \A c \in Callers : pc[c] = "idle" =>
    /\ status[c] # 0 => \E x \in seen[c] : Means(op[c], result[c], x)
    /\ result[c] = "nil" /\ op[c].via # "hijack" => \E x \in seen[c] : Promise(op[c], x)

(* The goroutines that use a new client settle on one version: its answer  *)
(* is kept once, and without SkipServerVersionCheck no request goes out    *)
(* before it, although expectedAPIVersion is read outside the mutex.       *)
OneVersion ==
  /\ taken <= 1
  /\ \A c \in Callers : pc[c] = "sent" /\ op[c].does # "version" => skip \/ expected # Nil
  /\ expected \in {Nil, Expected(server)}

(* What goes out with a request, for the version, is what a version that   *)
(* the daemon has had can read: the choice is made before the request goes *)
(* and by the server's version, not the one that was asked for.            *)
Fits(f, v) ==
  /\ f = "hostConfig"            => LessThan(v, apiVersion124)
  /\ f = "AuthConfigurations119" => GreaterThanOrEqualTo(v, apiVersion119)
  /\ f \in {"cacheFrom", "env"}  => GreaterThanOrEqualTo(v, apiVersion125)
FitsDaemon ==
  \A c \in Callers : pc[c] = "sent" => \E s \in had : Fits(form[c], NewAPIVersion(s))

(* Every call returns if the daemon answers, and a call whose context is   *)
(* done returns although it does not (a wait): the mutex is never left     *)
(* locked, by a failed check neither.                                      *)
Ended(c) == pc[c] = "idle"
CallsReturn ==
  \A c \in Callers : (~Ended(c) /\ (op[c].does # "wait" \/ cancelled[c])) ~> Ended(c)
=============================================================================
