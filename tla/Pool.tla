-------------------------------- MODULE Pool --------------------------------
(***************************************************************************)
(* The dockertest Pool (dockertest.go): goroutines that run, look up,      *)
(* connect, expire and purge containers and create and remove networks,    *)
(* each operation being several calls to the Docker daemon.                *)
(*                                                                         *)
(* One action is one call to the daemon with the code up to the next call. *)
(* The daemon is external: it keeps the part of its state that the pool's  *)
(* calls read and write.  A call fails because of that state, or because   *)
(* of a fault: the request or its answer is lost ("faults" counts them).   *)
(*                                                                         *)
(* Every caller has one Resource at most, which it keeps after Purge; the  *)
(* Network objects are shared by the callers.                              *)
(***************************************************************************)
EXTENDS Integers, FiniteSets

CONSTANTS
  Callers,     \* goroutines that use the pool
  Names,       \* names for containers
  Anonymous,   \* no name: the daemon makes one up, that nobody else has
  Matches,     \* Matches[n]: the names that the daemon's filter "name=n" lets through
  Objects,     \* Network objects of the program
  Uses,        \* ways to use the pool, see Use
  MaxCids, MaxNids   \* bounds: containers and networks ever created

\* Whether callers take turns, as the steps of one test do; whether they use
\* RunOptions.NetworkID; bounds: the operations that are called, and the calls of
\* which the request or the answer is lost.
Use == [serial : BOOLEAN, networkID : BOOLEAN, ops : Nat, maxFaults : Nat]

None == 0     \* there is no object yet
Nil  == -1    \* the object is there, its pointer to the daemon's description is nil

ASSUME PoolBounds ==
  /\ Anonymous \notin Names /\ None \notin Objects
  /\ Matches \in [Names -> SUBSET (Names \cup {Anonymous})]
  /\ Uses \subseteq Use
  /\ {MaxCids, MaxNids} \subseteq Nat

Cids == 1 .. MaxCids
Nids == 1 .. MaxNids

VARIABLES
  image, ctr, cname, joined, nets,  \* the daemon: image present, containers, networks
  res,          \* Resource of a caller: the id in its Container
  hid, seen,    \* Network objects: the id in Network and its Containers
  pc, arg,      \* callers: next call, and the locals of the operation
  expiry,       \* the goroutine that Expire starts
  made,         \* containers of which RunWithOptions has returned the Resource
  use,          \* the way the pool is used, with the operations that are left
  faults, panic

daemon  == <<image, ctr, cname, joined, nets>>
program == <<res, hid, seen, made, panic>>
vars    == <<daemon, program, pc, arg, expiry, use, faults>>

Live    == {i \in Cids : ctr[i] \in {"created", "running", "exited"}}
Running == {i \in Cids : ctr[i] = "running"}
Present == {n \in Nids : nets[n] = "present"}
Inside(n) == {i \in Running : n \in joined[i]}

NoArg == [op |-> "none", name |-> Anonymous, join |-> {}, obj |-> None, id |-> None, info |-> {}]

Init ==
  /\ image = FALSE
  /\ ctr = [i \in Cids |-> "none"] /\ cname = [i \in Cids |-> Anonymous]
  /\ joined = [i \in Cids |-> {}] /\ nets = [n \in Nids |-> "none"]
  /\ res = [c \in Callers |-> None]
  /\ hid = [o \in Objects |-> None] /\ seen = [o \in Objects |-> {}]
  /\ pc = [c \in Callers |-> "idle"] /\ arg = [c \in Callers |-> NoArg]
  /\ expiry = [c \in Callers |-> "off"]
  /\ made = {} /\ use \in Uses /\ faults = 0 /\ panic = FALSE

-----------------------------------------------------------------------------
Idle(c) == pc[c] = "idle" /\ (use.serial => \A d \in Callers : pc[d] = "idle")

Counted == use.ops > 0 /\ use' = [use EXCEPT !.ops = @ - 1]

\* An operation begins: its locals, and the first call it makes.
Calls(c, locals, call) ==
  /\ Idle(c) /\ Counted
  /\ arg' = [arg EXCEPT ![c] = locals]
  /\ pc' = [pc EXCEPT ![c] = call]

At(c, call)    == pc[c] = call
Then(c, call)  == pc' = [pc EXCEPT ![c] = call] /\ UNCHANGED <<use, expiry>>
Returns(c)     == /\ pc' = [pc EXCEPT ![c] = "idle"]
                  /\ arg' = [arg EXCEPT ![c] = NoArg]
                  /\ UNCHANGED <<use, expiry>>

Answered   == UNCHANGED faults
Fault      == faults < use.maxFaults /\ faults' = faults + 1
Unhandled  == UNCHANGED daemon    \* the request never reached the daemon
Panics     == /\ panic' = TRUE
              /\ UNCHANGED <<daemon, res, hid, seen, made, pc, arg, expiry, use, faults>>

-----------------------------------------------------------------------------
(* RunWithOptions                                                          *)

\* The options are read, the IDs of the networks to join among them.
RunWithOptions(c) ==
  /\ res[c] = None
  /\ \E name \in Names \cup {Anonymous}, o \in {None} \cup {p \in Objects : hid[p] # None},
        byID \in SUBSET {hid[p] : p \in Objects} :
       /\ byID \subseteq (IF use.networkID THEN Nids ELSE {}) /\ Cardinality(byID) <= 1
       /\ IF o # None /\ hid[o] = Nil
            THEN Idle(c) /\ Panics
            ELSE /\ Calls(c, [NoArg EXCEPT !.op = "run", !.name = name, !.obj = o,
                                           !.join = byID \cup {hid[p] : p \in {o} \ {None}}],
                          "InspectImage")
                 /\ UNCHANGED <<daemon, program, expiry, faults>>

\* Any error of InspectImage leads to a pull.
InspectImage(c) ==
  /\ At(c, "InspectImage")
  /\ \/ Answered /\ Then(c, IF image THEN "CreateContainer" ELSE "PullImage")
     \/ Fault /\ Then(c, "PullImage")
  /\ UNCHANGED <<daemon, program, arg>>

PullImage(c) ==
  /\ At(c, "PullImage")
  /\ \/ Answered /\ image' = TRUE /\ Then(c, "CreateContainer") /\ UNCHANGED arg
     \/ Fault /\ Returns(c) /\ image' \in {image, TRUE}
  /\ UNCHANGED <<ctr, cname, joined, nets, program>>

\* The daemon refuses a name that is taken.
NameFree(name) == name = Anonymous \/ \A i \in Live : cname[i] # name

Created(i, locals) ==
  /\ ctr[i] = "none" /\ \A j \in 1 .. (i - 1) : ctr[j] # "none"
  /\ ctr' = [ctr EXCEPT ![i] = "created"]
  /\ cname' = [cname EXCEPT ![i] = locals.name]
  /\ joined' = [joined EXCEPT ![i] = locals.join]
  /\ UNCHANGED <<image, nets>>

CreateContainer(c) ==
  /\ At(c, "CreateContainer")
  /\ \/ /\ NameFree(arg[c].name)
        /\ \E i \in Cids :
             /\ Created(i, arg[c])
             /\ \/ /\ Answered /\ Then(c, "StartContainer")
                   /\ arg' = [arg EXCEPT ![c].id = i]
                \/ Fault /\ Returns(c)
     \/ ~NameFree(arg[c].name) /\ Unhandled /\ Answered /\ Returns(c)
     \/ Unhandled /\ Fault /\ Returns(c)
  /\ UNCHANGED program

Started(i) == /\ ctr' = [ctr EXCEPT ![i] = "running"]
              /\ UNCHANGED <<image, cname, joined, nets>>

\* A bug RunWithOptions does not have: it ignores the error of StartContainer.
StartContainerAnyway(c) ==
  /\ At(c, "StartContainer")
  /\ LET i == arg[c].id IN
       \/ i \in Live /\ Started(i) /\ Answered
       \/ Unhandled /\ Fault
  /\ Then(c, "InspectContainer") /\ UNCHANGED arg
  /\ UNCHANGED program

\* A start fails when a network that the container joins is gone.
StartContainer(c) ==
  /\ At(c, "StartContainer")
  /\ LET i == arg[c].id
         ok == i \in Live /\ joined[i] \subseteq Present
     IN \/ ok /\ Started(i) /\ Answered /\ Then(c, "InspectContainer") /\ UNCHANGED arg
        \/ ok /\ Started(i) /\ Fault /\ Returns(c)
        \/ ~ok /\ Unhandled /\ Answered /\ Returns(c)
        \/ Unhandled /\ Fault /\ Returns(c)
  /\ UNCHANGED program

\* RunWithOptions has its Resource once the network it was given is refreshed.
RunReturns(c) ==
  /\ res' = [res EXCEPT ![c] = arg[c].id]
  /\ made' = made \cup {arg[c].id}
  /\ Returns(c)
  /\ UNCHANGED <<hid, seen, panic>>

-----------------------------------------------------------------------------
(* InspectContainer and NetworkInfo, as RunWithOptions, ConnectToNetwork   *)
(* and DisconnectFromNetwork call them after the daemon has acted.         *)

\* r.Container is assigned whatever InspectContainer returns: nil with an error.
RefreshContainer(c, i) ==
  /\ res' = IF arg[c].op = "run" THEN res ELSE [res EXCEPT ![c] = i]
  /\ UNCHANGED <<hid, seen, made, panic>>

\* A bug ConnectToNetwork does not have: it clears r.Container and does not set it again.
InspectContainerCleared(c) ==
  /\ At(c, "InspectContainer")
  /\ arg[c].id \in Live /\ Answered
  /\ IF arg[c].op = "run" /\ arg[c].obj = None
       THEN RunReturns(c)
       ELSE RefreshContainer(c, Nil) /\ Then(c, "NetworkInfo") /\ UNCHANGED arg
  /\ UNCHANGED daemon

InspectContainer(c) ==
  /\ At(c, "InspectContainer")
  /\ \/ /\ arg[c].id \in Live /\ Answered
        /\ IF arg[c].op = "run" /\ arg[c].obj = None
             THEN RunReturns(c)
             ELSE RefreshContainer(c, arg[c].id) /\ Then(c, "NetworkInfo") /\ UNCHANGED arg
     \/ /\ (arg[c].id \notin Live /\ Answered) \/ Fault
        /\ RefreshContainer(c, Nil) /\ Returns(c)
  /\ UNCHANGED daemon

\* network.Network.ID is read here; the answer, kept in "info" and "join" (empty
\* for an error), is assigned later.
NetworkInfo(c) ==
  /\ At(c, "NetworkInfo")
  /\ IF hid[arg[c].obj] = Nil
       THEN Panics
       ELSE LET n == hid[arg[c].obj] IN
            /\ \/ /\ n \in Present /\ Answered
                  /\ arg' = [arg EXCEPT ![c].info = Inside(n),
                                        ![c].join = {n}]
               \/ /\ (n \notin Present /\ Answered) \/ Fault
                  /\ arg' = [arg EXCEPT ![c].join = {}]
            /\ Then(c, "RefreshNetwork")
            /\ UNCHANGED <<daemon, program>>

\* A bug RefreshNetwork does not have: it keeps the Containers it had.
RefreshNetworkIdOnly(c) ==
  /\ At(c, "RefreshNetwork")
  /\ res' = IF arg[c].op = "run" THEN [res EXCEPT ![c] = arg[c].id] ELSE res
  /\ Returns(c)
  /\ UNCHANGED <<daemon, hid, seen, made, panic, faults>>

RefreshNetwork(c) ==
  /\ At(c, "RefreshNetwork")
  /\ IF arg[c].join = {}
       THEN /\ hid' = [hid EXCEPT ![arg[c].obj] = Nil]
            /\ seen' = [seen EXCEPT ![arg[c].obj] = {}]
            /\ UNCHANGED <<res, made>>
       ELSE /\ hid' = [hid EXCEPT ![arg[c].obj] = CHOOSE n \in arg[c].join : TRUE]
            /\ seen' = [seen EXCEPT ![arg[c].obj] = arg[c].info]
            /\ IF arg[c].op = "run"
                 THEN /\ res' = [res EXCEPT ![c] = arg[c].id]
                      /\ made' = made \cup {arg[c].id}
                 ELSE UNCHANGED <<res, made>>
  /\ Returns(c)
  /\ UNCHANGED <<daemon, panic, faults>>

-----------------------------------------------------------------------------
(* ConnectToNetwork, DisconnectFromNetwork, Purge, Expire                  *)

\* The operation dereferences r.Container and network.Network.
ChangeNetwork(c, op) ==
  \E o \in {p \in Objects : hid[p] # None} :
    /\ res[c] # None
    /\ IF res[c] = Nil \/ hid[o] = Nil
         THEN Idle(c) /\ Panics
         ELSE /\ Calls(c, [NoArg EXCEPT !.op = op, !.obj = o, !.id = res[c], !.join = {hid[o]}], op)
              /\ UNCHANGED <<daemon, program, expiry, faults>>

ConnectToNetwork(c)      == ChangeNetwork(c, "ConnectNetwork")
DisconnectFromNetwork(c) == ChangeNetwork(c, "DisconnectNetwork")

Rejoined(i, ns) == /\ joined' = [joined EXCEPT ![i] = ns]
                   /\ UNCHANGED <<image, ctr, cname, nets>>

ChangeNetworkCall(c) ==
  /\ arg[c].op \in {"ConnectNetwork", "DisconnectNetwork"} /\ At(c, arg[c].op)
  /\ LET i  == arg[c].id
         ns == arg[c].join
         ok == /\ i \in Live /\ ns \subseteq Present
               /\ (arg[c].op = "DisconnectNetwork") = (ns \subseteq joined[i])
         to == IF arg[c].op = "ConnectNetwork" THEN joined[i] \cup ns ELSE joined[i] \ ns
     IN \/ ok /\ Rejoined(i, to) /\ Answered /\ Then(c, "InspectContainer") /\ UNCHANGED arg
        \/ ok /\ Rejoined(i, to) /\ Fault /\ Returns(c)
        \/ ~ok /\ Unhandled /\ Answered /\ Returns(c)
        \/ Unhandled /\ Fault /\ Returns(c)
  /\ UNCHANGED program

Purge(c) ==
  /\ res[c] # None
  /\ IF res[c] = Nil
       THEN Idle(c) /\ Panics
       ELSE /\ Calls(c, [NoArg EXCEPT !.op = "purge", !.id = res[c]], "RemoveContainer")
            /\ UNCHANGED <<daemon, program, expiry, faults>>

Removed(i) == /\ ctr' = [ctr EXCEPT ![i] = "gone"]
              /\ joined' = [joined EXCEPT ![i] = {}]
              /\ UNCHANGED <<image, cname, nets>>

\* Force: a running container is removed as well.
RemoveContainer(c) ==
  /\ At(c, "RemoveContainer")
  /\ LET i == arg[c].id IN
       \/ i \in Live /\ Removed(i) /\ (Answered \/ Fault)
       \/ i \notin Live /\ Unhandled /\ Answered
       \/ Unhandled /\ Fault
  /\ Returns(c)
  /\ UNCHANGED program

Expire(c) ==
  /\ Idle(c) /\ res[c] # None /\ expiry[c] = "off" /\ Counted
  /\ expiry' = [expiry EXCEPT ![c] = "started"]
  /\ UNCHANGED <<daemon, program, pc, arg, faults>>

\* A container that was run with AutoRemove is removed when it exits.
Exited(i) == \/ ctr' = [ctr EXCEPT ![i] = "exited"] /\ UNCHANGED <<image, cname, joined, nets>>
             \/ Removed(i)

\* The goroutine reads r.Container.ID when it runs, and ignores every error.
StopContainer(c) ==
  /\ expiry[c] = "started"
  /\ IF res[c] = Nil
       THEN Panics
       ELSE /\ expiry' = [expiry EXCEPT ![c] = "off"]
            /\ \/ res[c] \in Running /\ Exited(res[c]) /\ (Answered \/ Fault)
               \/ res[c] \notin Running /\ Unhandled /\ Answered
               \/ Unhandled /\ Fault
            /\ UNCHANGED <<program, pc, arg, use>>

-----------------------------------------------------------------------------
(* ContainerByName, RemoveContainerByName                                  *)

ByName(c, op) ==
  \E name \in Names :
    /\ Calls(c, [NoArg EXCEPT !.op = op, !.name = name], "ListContainers")
    /\ UNCHANGED <<daemon, program, expiry, faults>>

ContainerByName(c)       == res[c] = None /\ ByName(c, "find")
RemoveContainerByName(c) == ByName(c, "remove")

\* A bug ListContainers does not have: the filter is not sent.
ListContainersUnfiltered(c) ==
  /\ At(c, "ListContainers")
  /\ Answered
  /\ \E i \in Live : arg' = [arg EXCEPT ![c].id = i]
  /\ Then(c, IF arg[c].op = "find" THEN "InspectByName" ELSE "RemoveContainer")
  /\ UNCHANGED <<daemon, program>>

\* A bug ListContainers does not have: an empty list is not looked for.
ListContainersUnchecked(c) ==
  /\ At(c, "ListContainers")
  /\ Answered
  /\ \E i \in {j \in Live : cname[j] \in Matches[arg[c].name]} \cup {None} :
       arg' = [arg EXCEPT ![c].id = i]
  /\ Then(c, IF arg[c].op = "find" THEN "InspectByName" ELSE "RemoveContainer")
  /\ UNCHANGED <<daemon, program>>

\* The first container that the daemon lists is taken.
ListContainers(c) ==
  /\ At(c, "ListContainers")
  /\ LET found == {i \in Live : cname[i] \in Matches[arg[c].name]} IN
       \/ /\ found # {} /\ Answered
          /\ \E i \in found : arg' = [arg EXCEPT ![c].id = i]
          /\ Then(c, IF arg[c].op = "find" THEN "InspectByName" ELSE "RemoveContainer")
       \/ found = {} /\ Answered /\ Returns(c)
       \/ Fault /\ Returns(c)
  /\ UNCHANGED <<daemon, program>>

InspectByName(c) ==
  /\ At(c, "InspectByName")
  /\ \/ /\ arg[c].id \in Live /\ Answered
        /\ res' = [res EXCEPT ![c] = arg[c].id]
     \/ ((arg[c].id \notin Live /\ Answered) \/ Fault) /\ UNCHANGED res
  /\ Returns(c)
  /\ UNCHANGED <<daemon, hid, seen, made, panic>>

-----------------------------------------------------------------------------
(* CreateNetwork, NetworksByName, RemoveNetwork                            *)

NewObject(c, o, n, in) ==
  /\ Idle(c) /\ Counted
  /\ hid[o] = None
  /\ hid' = [hid EXCEPT ![o] = n]
  /\ seen' = [seen EXCEPT ![o] = in]
  /\ UNCHANGED <<res, made, panic, pc, arg, expiry>>

CreateNetwork(c) ==
  \E o \in Objects, n \in Nids :
    /\ nets[n] = "none" /\ \A m \in 1 .. (n - 1) : nets[m] # "none"
    /\ \/ NewObject(c, o, n, {}) /\ Answered /\ nets' = [nets EXCEPT ![n] = "present"]
       \/ NewObject(c, o, None, {}) /\ Fault /\ nets' \in {nets, [nets EXCEPT ![n] = "present"]}
    /\ UNCHANGED <<image, ctr, cname, joined>>

\* Whether the daemon lists the containers of a network depends on its version.
NetworksByName(c) ==
  \E o \in Objects, n \in Present :
    /\ \E in \in {{}, Inside(n)} : NewObject(c, o, n, in)
    /\ Answered
    /\ UNCHANGED daemon

\* The loop ranges over the map that network.Network.Containers is at the start.
RemoveNetwork(c) ==
  \E o \in {p \in Objects : hid[p] # None} :
    IF hid[o] = Nil
      THEN Idle(c) /\ Panics
      ELSE /\ Calls(c, [NoArg EXCEPT !.op = "rmnet", !.obj = o, !.info = seen[o]], "Disconnect")
           /\ UNCHANGED <<daemon, program, expiry, faults>>

\* The error of a disconnect is ignored.
Disconnect(c) ==
  /\ At(c, "Disconnect")
  /\ arg[c].info # {}
  /\ IF hid[arg[c].obj] = Nil
       THEN Panics
       ELSE \E i \in arg[c].info :
            /\ \/ i \in Live /\ Rejoined(i, joined[i] \ {hid[arg[c].obj]}) /\ (Answered \/ Fault)
               \/ i \notin Live /\ Unhandled /\ Answered
               \/ Unhandled /\ Fault
            /\ arg' = [arg EXCEPT ![c].info = @ \ {i}]
            /\ UNCHANGED <<program, pc, use, expiry>>

\* The daemon keeps a network with a running container in it.
RemoveNetworkCall(c) ==
  /\ At(c, "Disconnect")
  /\ arg[c].info = {}
  /\ IF hid[arg[c].obj] = Nil
       THEN Panics
       ELSE LET n == hid[arg[c].obj] IN
            /\ \/ /\ n \in Present /\ Inside(n) = {} /\ (Answered \/ Fault)
                  /\ nets' = [nets EXCEPT ![n] = "gone"]
                  /\ UNCHANGED <<image, ctr, cname, joined>>
               \/ (n \notin Present \/ Inside(n) # {}) /\ Unhandled /\ Answered
               \/ Unhandled /\ Fault
            /\ Returns(c)
            /\ UNCHANGED program

\* The process in a container ends.
ContainerExits ==
  /\ \E i \in Running : Exited(i)
  /\ UNCHANGED <<program, pc, arg, expiry, use, faults>>

-----------------------------------------------------------------------------
Next ==
  /\ ~panic
  /\ \/ \E c \in Callers :
          \/ RunWithOptions(c) \/ InspectImage(c) \/ PullImage(c) \/ CreateContainer(c)
          \/ StartContainer(c) \/ InspectContainer(c) \/ NetworkInfo(c) \/ RefreshNetwork(c)
          \/ ConnectToNetwork(c) \/ DisconnectFromNetwork(c) \/ ChangeNetworkCall(c)
          \/ Purge(c) \/ RemoveContainer(c) \/ Expire(c) \/ StopContainer(c)
          \/ ContainerByName(c) \/ RemoveContainerByName(c)
          \/ ListContainers(c) \/ InspectByName(c)
          \/ CreateNetwork(c) \/ NetworksByName(c)
          \/ RemoveNetwork(c) \/ Disconnect(c) \/ RemoveNetworkCall(c)
     \/ ContainerExits

Spec == Init /\ [][Next]_vars

-----------------------------------------------------------------------------
(* Properties.                                                             *)

\* Every variable has its type, and a call about a container, or about a network
\* object, has one.
TypeOK ==
  /\ {image, panic} \subseteq BOOLEAN
  /\ ctr \in [Cids -> {"none", "created", "running", "exited", "gone"}]
  /\ cname \in [Cids -> Names \cup {Anonymous}] /\ joined \in [Cids -> SUBSET Nids]
  /\ nets \in [Nids -> {"none", "present", "gone"}]
  /\ res \in [Callers -> Cids \cup {None, Nil}]
  /\ hid \in [Objects -> Nids \cup {None, Nil}] /\ seen \in [Objects -> SUBSET Cids]
  /\ expiry \in [Callers -> {"off", "started"}]
  /\ made \subseteq Cids /\ use \in Use /\ faults \in 0 .. use.maxFaults
  /\ \A c \in Callers :
       /\ pc[c] \in {"idle", "InspectImage", "PullImage", "CreateContainer", "StartContainer",
                     "InspectContainer", "NetworkInfo", "RefreshNetwork", "ConnectNetwork",
                     "DisconnectNetwork", "RemoveContainer", "ListContainers", "InspectByName",
                     "Disconnect"}
       /\ arg[c].name \in Names \cup {Anonymous} /\ arg[c].id \in Cids \cup {None}
       /\ arg[c].obj \in Objects \cup {None}
       /\ arg[c].join \subseteq Nids /\ arg[c].info \subseteq Cids
       /\ pc[c] \in {"StartContainer", "InspectContainer", "NetworkInfo", "ConnectNetwork",
                    "DisconnectNetwork", "RemoveContainer", "InspectByName"} => arg[c].id \in Cids
       /\ pc[c] \in {"NetworkInfo", "RefreshNetwork", "Disconnect"} => arg[c].obj \in Objects

\* RunWithOptions returns no Resource of a container that has not been started,
\* whichever of its calls fail.
ReturnedIsStarted == \A i \in made : ctr[i] # "created"

\* While no call is lost, a container that RunWithOptions returned and that is
\* not removed is still the Container of a Resource, so that Purge can remove it:
\* no interleaving with other callers' operations clears the Resource.
Purgeable ==
  faults = 0 => \A i \in made \cap Live : \E c \in Callers : res[c] = i

\* A call of RemoveContainerByName removes one container at most, and where the
\* daemon's filter lets through that name alone, one of the given name, also when
\* the name changes hands between its calls.  The filter is a regular expression:
\* given a name that matches others too, the call may remove a container of
\* another name, although it promises "a container with the given name"
\* (dockertest.go 529).  The property asks nothing there.
RemovesNamed ==
  [][\A c \in Callers :
       (arg[c].op = "remove" /\ pc[c] = "RemoveContainer" /\ pc'[c] = "idle") =>
         LET removed == {i \in Cids : ctr[i] # "gone" /\ ctr'[i] = "gone"}
             name    == arg[c].name
         IN  /\ Cardinality(removed) <= 1
             /\ Matches[name] = {name} => \A i \in removed : cname[i] = name]_vars

\* RemoveNetwork "disconnects containers and removes provided network": when the
\* call returns and none of its calls was lost, the network is gone; if operations
\* come one after another and the network is joined through its object, the only one.
Sole(o) == \A p \in Objects : hid[p] = hid[o] => p = o
RemoveNetworkRemoves ==
  [][\A c \in Callers :
       /\ use.serial /\ ~use.networkID
       /\ arg[c].op = "rmnet" /\ pc'[c] = "idle" /\ faults' = 0
       /\ hid[arg[c].obj] \in Nids /\ Sole(arg[c].obj)
       => nets'[hid[arg[c].obj]] = "gone"]_vars
=============================================================================
