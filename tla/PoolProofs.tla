----------------------------- MODULE PoolProofs -----------------------------
(***************************************************************************)
(* Proofs about Pool, for all callers, names, filters, Network objects and *)
(* bounds.                                                                 *)
(***************************************************************************)
EXTENDS Pool, FiniteSetTheorems, TLAPS

Places ==
  {"idle", "InspectImage", "PullImage", "CreateContainer", "StartContainer",
   "InspectContainer", "NetworkInfo", "RefreshNetwork", "ConnectNetwork",
   "DisconnectNetwork", "RemoveContainer", "ListContainers", "InspectByName", "Disconnect"}
Operations == {"none", "run", "ConnectNetwork", "DisconnectNetwork", "purge", "find", "remove", "rmnet"}
Args == [op : Operations, name : Names \cup {Anonymous}, join : SUBSET Nids,
         obj : Objects \cup {None}, id : Cids \cup {None}, info : SUBSET Cids]

DaemonType ==
  /\ image \in BOOLEAN
  /\ ctr \in [Cids -> {"none", "created", "running", "exited", "gone"}]
  /\ cname \in [Cids -> Names \cup {Anonymous}] /\ joined \in [Cids -> SUBSET Nids]
  /\ nets \in [Nids -> {"none", "present", "gone"}]
ProgramType ==
  /\ res \in [Callers -> Cids \cup {None, Nil}]
  /\ hid \in [Objects -> Nids \cup {None, Nil}] /\ seen \in [Objects -> SUBSET Cids]
  /\ expiry \in [Callers -> {"off", "started"}]
  /\ made \subseteq Cids /\ panic \in BOOLEAN
BoundsType == use \in Use /\ faults \in 0 .. use.maxFaults
CallersType == pc \in [Callers -> Places] /\ arg \in [Callers -> Args]

(* What the locals are at each call.                                       *)
NeedsId  == {"StartContainer", "InspectContainer", "NetworkInfo", "RefreshNetwork", "ConnectNetwork",
             "DisconnectNetwork", "RemoveContainer", "InspectByName"}
NeedsObj == {"NetworkInfo", "RefreshNetwork", "Disconnect", "ConnectNetwork", "DisconnectNetwork"}
RunCalls == {"InspectImage", "PullImage", "CreateContainer", "StartContainer"}
Fits(p, a) ==
  /\ p \in NeedsId \ {"RefreshNetwork"} => a.id \in Cids
  /\ p = "RefreshNetwork" /\ a.op = "run" => a.id \in Cids
  /\ p \in NeedsObj => a.obj \in Objects
  /\ p = "InspectContainer" /\ a.op # "run" => a.obj \in Objects
  /\ p \in RunCalls => a.op = "run"

(* The containers that have been started, and who may rely on that.        *)
Begun == {i \in Cids : ctr[i] \in {"running", "exited", "gone"}}
Relies(p, a) == p \in {"InspectContainer", "NetworkInfo", "RefreshNetwork"} /\ a.op = "run"

(* The container that RemoveContainerByName has found.                     *)
Seeks(p, a) == p = "RemoveContainer" /\ a.op = "remove"
Known(a) == ctr[a.id] # "none" /\ cname[a.id] \in Matches[a.name]
KnownNext(a) == ctr'[a.id] # "none" /\ cname'[a.id] \in Matches[a.name]

Locals ==
  /\ \A c \in Callers : Fits(pc[c], arg[c])
  /\ \A c \in Callers : Relies(pc[c], arg[c]) => arg[c].id \in Begun
  /\ \A c \in Callers : Seeks(pc[c], arg[c]) => Known(arg[c])
  /\ made \subseteq Begun

Inner == DaemonType /\ ProgramType /\ BoundsType /\ CallersType /\ Locals

---------------------------------------------------------------------------
(* Constants                                                               *)

LEMMA Ids == None \notin Cids /\ Nil \notin Cids /\ None \notin Nids /\ Nil \notin Nids
BY DEF Cids, Nids, None, Nil

LEMMA NoArgType == NoArg \in Args /\ Fits("idle", NoArg)
BY DEF NoArg, Args, Operations, Fits, NeedsId, NeedsObj, RunCalls

---------------------------------------------------------------------------
(* Steps of the daemon: none unstarts a container.                         *)

DaemonMove ==
  \/ UNCHANGED daemon
  \/ \E i \in Cids : Started(i) \/ Removed(i) \/ Exited(i)
  \/ \E i \in Cids : \E ns \in SUBSET Nids : Rejoined(i, ns)
  \/ \E i \in Cids : \E a \in Args : Created(i, a)
  \/ image' \in BOOLEAN /\ UNCHANGED <<ctr, cname, joined, nets>>
  \/ nets' \in [Nids -> {"none", "present", "gone"}] /\ UNCHANGED <<image, ctr, cname, joined>>

LEMMA DaemonKeeps ==
  ASSUME DaemonType, DaemonMove
  PROVE  DaemonType' /\ Begun \subseteq Begun'
<1>1. CASE UNCHANGED daemon
  BY <1>1 DEF daemon, DaemonType, Begun
<1>2. ASSUME NEW i \in Cids, Started(i) \/ Removed(i) \/ Exited(i)
      PROVE  DaemonType' /\ Begun \subseteq Begun'
  <2>1. /\ UNCHANGED <<image, cname, nets>>
        /\ joined' \in {joined, [joined EXCEPT ![i] = {}]}
        /\ \E s \in {"running", "exited", "gone"} : ctr' = [ctr EXCEPT ![i] = s]
    BY <1>2 DEF Started, Removed, Exited
  <2>2. DaemonType'
    BY <2>1 DEF DaemonType
  <2>3. Begun \subseteq Begun'
    BY <2>1 DEF DaemonType, Begun
  <2> QED BY <2>2, <2>3
<1>3. ASSUME NEW i \in Cids, NEW ns \in SUBSET Nids, Rejoined(i, ns)
      PROVE  DaemonType' /\ Begun \subseteq Begun'
  BY <1>3 DEF Rejoined, DaemonType, Begun
<1>4. ASSUME NEW i \in Cids, NEW a \in Args, Created(i, a)
      PROVE  DaemonType' /\ Begun \subseteq Begun'
  <2>1. /\ ctr[i] = "none" /\ ctr' = [ctr EXCEPT ![i] = "created"]
        /\ cname' = [cname EXCEPT ![i] = a.name] /\ joined' = [joined EXCEPT ![i] = a.join]
        /\ UNCHANGED <<image, nets>>
    BY <1>4 DEF Created
  <2>2. a.name \in Names \cup {Anonymous} /\ a.join \in SUBSET Nids
    BY DEF Args
  <2>3. DaemonType'
    BY <2>1, <2>2 DEF DaemonType
  <2>4. Begun \subseteq Begun'
    BY <2>1 DEF DaemonType, Begun
  <2> QED BY <2>3, <2>4
<1>5. CASE image' \in BOOLEAN /\ UNCHANGED <<ctr, cname, joined, nets>>
  BY <1>5 DEF DaemonType, Begun
<1>6. CASE nets' \in [Nids -> {"none", "present", "gone"}] /\ UNCHANGED <<image, ctr, cname, joined>>
  BY <1>6 DEF DaemonType, Begun
<1> QED BY <1>1, <1>2, <1>3, <1>4, <1>5, <1>6 DEF DaemonMove

(* A container that is there keeps its name.                               *)
LEMMA NamesKept ==
  ASSUME DaemonType, DaemonMove, NEW i \in Cids, ctr[i] # "none"
  PROVE  ctr'[i] # "none" /\ cname'[i] = cname[i]
<1>1. ASSUME NEW j \in Cids, Started(j) \/ Removed(j) \/ Exited(j)
      PROVE  ctr'[i] # "none" /\ cname'[i] = cname[i]
  BY <1>1 DEF Started, Removed, Exited, DaemonType
<1>2. ASSUME NEW j \in Cids, NEW a \in Args, Created(j, a)
      PROVE  ctr'[i] # "none" /\ cname'[i] = cname[i]
  BY <1>2 DEF Created, DaemonType
<1> QED BY <1>1, <1>2 DEF DaemonMove, daemon, Rejoined

LEMMA FaultCounted ==
  ASSUME BoundsType, UNCHANGED use, Answered \/ Fault
  PROVE  BoundsType'
<1>1. use.maxFaults \in Nat
  BY DEF BoundsType, Use
<1> QED BY <1>1 DEF BoundsType, Answered, Fault

LEMMA OperationCounted ==
  ASSUME BoundsType, Counted, UNCHANGED faults
  PROVE  BoundsType'
<1>1. use.ops \in Nat /\ use.ops - 1 \in Nat /\ use' = [use EXCEPT !.ops = use.ops - 1]
  BY DEF BoundsType, Use, Counted
<1>2. use' \in Use /\ use'.maxFaults = use.maxFaults
  BY <1>1 DEF BoundsType, Use
<1> QED BY <1>2 DEF BoundsType

---------------------------------------------------------------------------
(* A step of one caller                                                    *)

Goes(c, p, a) ==
  /\ pc' = [pc EXCEPT ![c] = p]
  /\ arg' = [arg EXCEPT ![c] = a]

LEMMA CallerMoves ==
  ASSUME Inner, DaemonMove, ProgramType', BoundsType', NEW c \in Callers,
         NEW p \in Places, NEW a \in Args, Goes(c, p, a),
         Fits(p, a), Relies(p, a) => a.id \in Begun', Seeks(p, a) => KnownNext(a), made' \subseteq Begun'
  PROVE  Inner'
<1>1. DaemonType' /\ Begun \subseteq Begun'
  BY DaemonKeeps DEF Inner
<1>2. CallersType' /\ pc'[c] = p /\ arg'[c] = a
  BY DEF Inner, CallersType, Goes
<1>3. \A d \in Callers : d # c => pc'[d] = pc[d] /\ arg'[d] = arg[d]
  BY DEF Inner, CallersType, Goes
<1>4. \A d \in Callers : Fits(pc'[d], arg'[d])
  BY <1>2, <1>3 DEF Inner, Locals
<1>5. \A d \in Callers : Relies(pc'[d], arg'[d]) => arg'[d].id \in Begun'
  BY <1>1, <1>2, <1>3 DEF Inner, Locals
<1>6. ASSUME NEW d \in Callers, Seeks(pc'[d], arg'[d]) PROVE Known(arg[d])'
  <2>1. CASE d = c
    BY <1>2, <1>6, <2>1 DEF Known, KnownNext
  <2>2. CASE d # c
    <3>1. Fits(pc[d], arg[d]) /\ Seeks(pc[d], arg[d]) /\ Known(arg[d]) /\ arg'[d] = arg[d]
      BY <1>3, <1>6, <2>2 DEF Inner, Locals
    <3>2. arg[d].id \in Cids
      BY <3>1 DEF Fits, Seeks, NeedsId
    <3> QED BY <3>1, <3>2, NamesKept DEF Inner, Known
  <2> QED BY <2>1, <2>2
<1>7. Locals'
  BY <1>4, <1>5, <1>6 DEF Locals
<1> QED BY <1>1, <1>2, <1>7 DEF Inner

LEMMA CallersStay ==
  ASSUME Inner, DaemonMove, ProgramType', BoundsType', UNCHANGED <<pc, arg>>, made' \subseteq Begun'
  PROVE  Inner'
<1>1. DaemonType' /\ Begun \subseteq Begun'
  BY DaemonKeeps DEF Inner
<1>2. ASSUME NEW d \in Callers, Seeks(pc[d], arg[d]) PROVE Known(arg[d])'
  <2>1. Fits(pc[d], arg[d]) /\ Known(arg[d])
    BY <1>2 DEF Inner, Locals
  <2>2. arg[d].id \in Cids
    BY <1>2, <2>1 DEF Fits, Seeks, NeedsId
  <2> QED BY <2>1, <2>2, NamesKept DEF Inner, Known
<1>3. Locals'
  BY <1>1, <1>2 DEF Inner, Locals
<1> QED BY <1>1, <1>3 DEF Inner, CallersType

(* What the daemon does while the program stays as it is.                  *)
LEMMA MadeKept ==
  ASSUME Inner, DaemonMove, UNCHANGED made
  PROVE  made' \subseteq Begun'
BY DaemonKeeps DEF Inner, Locals

---------------------------------------------------------------------------
(* The actions.  Each moves the daemon once, counts an operation or a      *)
(* fault, and takes its caller to a place whose locals fit.                *)

LEMMA LocalsOf ==
  ASSUME Inner, NEW c \in Callers
  PROVE  /\ pc[c] \in Places /\ arg[c] \in Args
         /\ Fits(pc[c], arg[c])
         /\ Relies(pc[c], arg[c]) => arg[c].id \in Begun
         /\ Seeks(pc[c], arg[c]) => Known(arg[c])
BY DEF Inner, CallersType, Locals

(* An operation that returns, or whose next call has the locals it has.    *)
LEMMA Returning ==
  ASSUME Inner, NEW c \in Callers, DaemonMove, ProgramType', Answered \/ Fault,
         Returns(c), made' \subseteq Begun'
  PROVE  Inner'
<1>1. Goes(c, "idle", NoArg) /\ UNCHANGED use
  BY DEF Returns, Goes
<1>2. BoundsType'
  BY <1>1, FaultCounted DEF Inner
<1>3. "idle" \in Places /\ ~Relies("idle", NoArg) /\ ~Seeks("idle", NoArg)
  BY DEF Places, Relies, Seeks
<1> QED BY <1>1, <1>2, <1>3, NoArgType, CallerMoves

LEMMA Continuing ==
  ASSUME Inner, NEW c \in Callers, DaemonMove, ProgramType', Answered \/ Fault,
         NEW p \in Places, NEW a \in Args, Then(c, p),
         arg' = [arg EXCEPT ![c] = a], Fits(p, a), Relies(p, a) => a.id \in Begun',
         Seeks(p, a) => KnownNext(a), made' \subseteq Begun'
  PROVE  Inner'
<1>1. Goes(c, p, a) /\ UNCHANGED use
  BY DEF Then, Goes
<1>2. BoundsType'
  BY <1>1, FaultCounted DEF Inner
<1> QED BY <1>1, <1>2, CallerMoves

LEMMA Beginning ==
  ASSUME Inner, NEW c \in Callers, UNCHANGED <<daemon, program, expiry, faults>>,
         NEW p \in Places, NEW a \in Args, Calls(c, a, p), Fits(p, a), ~Relies(p, a), ~Seeks(p, a)
  PROVE  Inner'
<1>1. Goes(c, p, a) /\ Counted
  BY DEF Calls, Goes
<1>2. BoundsType'
  BY <1>1, OperationCounted DEF Inner
<1>3. DaemonMove /\ UNCHANGED made /\ ProgramType'
  BY DEF DaemonMove, program, Inner, ProgramType
<1> QED BY <1>1, <1>2, <1>3, MadeKept, CallerMoves

LEMMA Panicking == ASSUME Inner, Panics PROVE Inner'
<1>1. UNCHANGED <<daemon, pc, arg, made>> /\ DaemonMove /\ ProgramType' /\ BoundsType'
  BY DEF Panics, DaemonMove, Inner, ProgramType, BoundsType
<1> QED BY <1>1, MadeKept, CallersStay

LEMMA ProgramKept == ASSUME Inner, UNCHANGED <<program, expiry>>
                     PROVE  ProgramType' /\ UNCHANGED made
BY DEF Inner, ProgramType, program

---------------------------------------------------------------------------
(* RunWithOptions                                                          *)

LEMMA RunBegins == ASSUME Inner, NEW c \in Callers, RunWithOptions(c) PROVE Inner'
<1>1. PICK name \in Names \cup {Anonymous}, o \in {None} \cup {p \in Objects : hid[p] # None},
           byID \in SUBSET {hid[p] : p \in Objects} :
        /\ byID \subseteq (IF use.networkID THEN Nids ELSE {})
        /\ IF o # None /\ hid[o] = Nil THEN Idle(c) /\ Panics
           ELSE /\ Calls(c, [NoArg EXCEPT !.op = "run", !.name = name, !.obj = o,
                                          !.join = byID \cup {hid[p] : p \in {o} \ {None}}],
                         "InspectImage")
                /\ UNCHANGED <<daemon, program, expiry, faults>>
  BY DEF RunWithOptions
<1>2. CASE o # None /\ hid[o] = Nil
  BY <1>1, <1>2, Panicking
<1>3. CASE ~(o # None /\ hid[o] = Nil)
  <2> DEFINE a == [NoArg EXCEPT !.op = "run", !.name = name, !.obj = o,
                                !.join = byID \cup {hid[p] : p \in {o} \ {None}}]
  <2>1. byID \cup {hid[p] : p \in {o} \ {None}} \in SUBSET Nids
    BY <1>1, <1>3 DEF Inner, ProgramType
  <2>2. a \in Args /\ a.op = "run"
    BY <2>1, NoArgType DEF Args, Operations
  <2>3. Fits("InspectImage", a) /\ ~Relies("InspectImage", a) /\ ~Seeks("InspectImage", a) /\ "InspectImage" \in Places
    BY <2>2 DEF Fits, Relies, Seeks, NeedsId, NeedsObj, RunCalls, Places
  <2>4. Calls(c, a, "InspectImage") /\ UNCHANGED <<daemon, program, expiry, faults>>
    BY <1>1, <1>3
  <2> HIDE DEF a
  <2> QED BY <2>2, <2>3, <2>4, Beginning
<1> QED BY <1>2, <1>3

LEMMA ImageCalls == ASSUME Inner, NEW c \in Callers, InspectImage(c) \/ PullImage(c) PROVE Inner'
<1>1. arg[c] \in Args /\ UNCHANGED program /\ arg[c].op = "run"
  BY LocalsOf DEF InspectImage, PullImage, At, Fits, RunCalls
<1>2. UNCHANGED expiry
  BY DEF InspectImage, PullImage, Then, Returns
<1>3. ProgramType' /\ UNCHANGED made
  BY <1>1, <1>2, ProgramKept
<1>4. DaemonMove
  <2>1. CASE InspectImage(c)
    BY <2>1 DEF InspectImage, DaemonMove
  <2>2. CASE PullImage(c)
    BY <2>2 DEF PullImage, DaemonMove, Inner, DaemonType
  <2> QED BY <2>1, <2>2
<1>5. made' \subseteq Begun'
  BY <1>3, <1>4, MadeKept
<1>6. Answered \/ Fault
  BY DEF InspectImage, PullImage
<1>7. ASSUME NEW p \in {"CreateContainer", "PullImage"}, Then(c, p), UNCHANGED arg PROVE Inner'
  <2>1. arg' = [arg EXCEPT ![c] = arg[c]]
    BY <1>7 DEF Inner, CallersType
  <2>2. Fits(p, arg[c]) /\ ~Relies(p, arg[c]) /\ ~Seeks(p, arg[c]) /\ p \in Places
    BY <1>1 DEF Fits, Relies, Seeks, NeedsId, NeedsObj, RunCalls, Places
  <2> QED BY <1>1, <1>3, <1>4, <1>5, <1>6, <1>7, <2>1, <2>2, Continuing
<1>8. CASE Returns(c)
  BY <1>3, <1>4, <1>5, <1>6, <1>8, Returning
<1> QED BY <1>7, <1>8 DEF InspectImage, PullImage

LEMMA CreateCall == ASSUME Inner, NEW c \in Callers, CreateContainer(c) PROVE Inner'
<1>1. arg[c] \in Args /\ UNCHANGED <<program, expiry>> /\ (Answered \/ Fault) /\ arg[c].op = "run"
  BY LocalsOf DEF CreateContainer, Then, Returns, At, Fits, RunCalls
<1>2. DaemonMove
  BY <1>1 DEF CreateContainer, DaemonMove, Unhandled
<1>3. ProgramType' /\ UNCHANGED made /\ made' \subseteq Begun'
  BY <1>1, <1>2, ProgramKept, MadeKept
<1>4. ASSUME NEW i \in Cids, Then(c, "StartContainer"), arg' = [arg EXCEPT ![c].id = i] PROVE Inner'
  <2> DEFINE a == [arg[c] EXCEPT !.id = i]
  <2>1. a \in Args /\ a.id = i /\ a.op = "run"
    BY <1>1 DEF Args
  <2>2. arg' = [arg EXCEPT ![c] = a]
    BY <1>4
  <2> HIDE DEF a
  <2>3. Fits("StartContainer", a) /\ ~Relies("StartContainer", a) /\ ~Seeks("StartContainer", a) /\ "StartContainer" \in Places
    BY <2>1 DEF Fits, Relies, Seeks, NeedsId, NeedsObj, RunCalls, Places
  <2> QED BY <1>1, <1>2, <1>3, <1>4, <2>1, <2>2, <2>3, Continuing
<1>5. CASE Returns(c)
  BY <1>1, <1>2, <1>3, <1>5, Returning
<1> QED BY <1>4, <1>5 DEF CreateContainer

LEMMA StartCall == ASSUME Inner, NEW c \in Callers, StartContainer(c) PROVE Inner'
<1>1. arg[c] \in Args /\ pc[c] = "StartContainer" /\ Fits(pc[c], arg[c])
  BY LocalsOf DEF StartContainer, At
<1>2. arg[c].id \in Cids
  BY <1>1 DEF Fits, NeedsId
<1>3. UNCHANGED <<program, expiry>> /\ (Answered \/ Fault)
  BY DEF StartContainer, Then, Returns
<1>4. DaemonMove
  BY <1>2 DEF StartContainer, DaemonMove, Unhandled
<1>5. ProgramType' /\ UNCHANGED made /\ made' \subseteq Begun'
  BY <1>3, <1>4, ProgramKept, MadeKept
<1>6. CASE Started(arg[c].id) /\ Then(c, "InspectContainer") /\ UNCHANGED arg
  <2>1. arg' = [arg EXCEPT ![c] = arg[c]]
    BY <1>6 DEF Inner, CallersType
  <2>2. arg[c].id \in Begun'
    BY <1>2, <1>6 DEF Started, Begun, Inner, DaemonType
  <2>3. Fits("InspectContainer", arg[c]) /\ ~Seeks("InspectContainer", arg[c])
    BY <1>1, <1>2 DEF Fits, Seeks, NeedsId, NeedsObj, RunCalls
  <2> QED BY <1>1, <1>3, <1>4, <1>5, <1>6, <2>1, <2>2, <2>3, Continuing DEF Places
<1>7. CASE Returns(c)
  BY <1>3, <1>4, <1>5, <1>7, Returning
<1> QED BY <1>6, <1>7 DEF StartContainer

---------------------------------------------------------------------------
(* InspectContainer, NetworkInfo, and the refresh of the Network object    *)

LEMMA ContainerInspected == ASSUME Inner, NEW c \in Callers, InspectContainer(c) PROVE Inner'
<1>1. /\ arg[c] \in Args /\ pc[c] = "InspectContainer" /\ Fits(pc[c], arg[c])
      /\ Relies(pc[c], arg[c]) => arg[c].id \in Begun
  BY LocalsOf DEF InspectContainer, At
<1>2. arg[c].id \in Cids /\ (arg[c].op = "run" => arg[c].id \in Begun)
  BY <1>1 DEF Fits, NeedsId, Relies
<1>3. UNCHANGED daemon /\ DaemonMove /\ Begun' = Begun /\ (Answered \/ Fault)
  BY DEF InspectContainer, DaemonMove, daemon, Begun
<1>4. CASE arg[c].op = "run" /\ arg[c].obj = None /\ RunReturns(c)
  <2>1. ProgramType' /\ made' \subseteq Begun' /\ Returns(c)
    BY <1>2, <1>3, <1>4 DEF RunReturns, Returns, Inner, ProgramType, Locals
  <2> QED BY <1>3, <2>1, Returning
<1>5. ASSUME NEW i \in Cids \cup {Nil}, RefreshContainer(c, i), UNCHANGED expiry
      PROVE  ProgramType' /\ made' \subseteq Begun'
  BY <1>3, <1>5 DEF RefreshContainer, Inner, ProgramType, Locals
<1>6. CASE /\ ~(arg[c].op = "run" /\ arg[c].obj = None)
           /\ RefreshContainer(c, arg[c].id) /\ Then(c, "NetworkInfo") /\ UNCHANGED arg
  <2>1. arg' = [arg EXCEPT ![c] = arg[c]]
    BY <1>6 DEF Inner, CallersType
  <2>2. ProgramType' /\ made' \subseteq Begun'
    BY <1>2, <1>5, <1>6 DEF Then
  <2>3. arg[c].obj \in Objects
    BY <1>1, <1>6 DEF Fits, Args
  <2>4. Fits("NetworkInfo", arg[c]) /\ ~Seeks("NetworkInfo", arg[c]) /\ "NetworkInfo" \in Places
    BY <1>2, <2>3 DEF Fits, Seeks, NeedsId, NeedsObj, RunCalls, Places
  <2>5. Relies("NetworkInfo", arg[c]) => arg[c].id \in Begun'
    BY <1>2, <1>3 DEF Relies
  <2> QED BY <1>1, <1>3, <1>6, <2>1, <2>2, <2>4, <2>5, Continuing
<1>7. CASE RefreshContainer(c, Nil) /\ Returns(c)
  BY <1>3, <1>5, <1>7, Returning DEF Returns
<1> QED BY <1>4, <1>6, <1>7 DEF InspectContainer

LEMMA NetworkInspected == ASSUME Inner, NEW c \in Callers, NetworkInfo(c) PROVE Inner'
<1>1. /\ arg[c] \in Args /\ pc[c] = "NetworkInfo" /\ Fits(pc[c], arg[c])
      /\ Relies(pc[c], arg[c]) => arg[c].id \in Begun
  BY LocalsOf DEF NetworkInfo, At
<1>2. arg[c].id \in Cids /\ arg[c].obj \in Objects /\ (arg[c].op = "run" => arg[c].id \in Begun)
  BY <1>1 DEF Fits, NeedsId, NeedsObj, Relies
<1>3. CASE hid[arg[c].obj] = Nil
  BY <1>3, Panicking DEF NetworkInfo
<1>4. CASE hid[arg[c].obj] # Nil
  <2> DEFINE n == hid[arg[c].obj]
             found == [arg[c] EXCEPT !.info = Inside(n), !.join = {n}]
             lost  == [arg[c] EXCEPT !.join = {}]
  <2>1. /\ Then(c, "RefreshNetwork") /\ UNCHANGED <<daemon, program>> /\ (Answered \/ Fault)
        /\ (n \in Present /\ arg' = [arg EXCEPT ![c] = found]) \/ arg' = [arg EXCEPT ![c] = lost]
    BY <1>4 DEF NetworkInfo
  <2>2. n \in Present => found \in Args /\ found.op = arg[c].op /\ found.id = arg[c].id /\ found.obj = arg[c].obj
    BY <1>1 DEF Args, Present, Inside, Running
  <2>3. lost \in Args /\ lost.op = arg[c].op /\ lost.id = arg[c].id /\ lost.obj = arg[c].obj
    BY <1>1 DEF Args
  <2>4. DaemonMove /\ ProgramType' /\ made' \subseteq Begun' /\ Begun' = Begun
    BY <2>1, ProgramKept DEF Then, DaemonMove, daemon, program, Begun, Inner, Locals
  <2> HIDE DEF n, found, lost
  <2>5. ASSUME NEW a \in Args, a.op = arg[c].op, a.id = arg[c].id, a.obj = arg[c].obj,
               arg' = [arg EXCEPT ![c] = a]
        PROVE  Inner'
    <3>1. Fits("RefreshNetwork", a) /\ ~Seeks("RefreshNetwork", a) /\ "RefreshNetwork" \in Places
      BY <1>2, <2>5 DEF Fits, Seeks, NeedsId, NeedsObj, RunCalls, Places
    <3>2. Relies("RefreshNetwork", a) => a.id \in Begun'
      BY <1>2, <2>4, <2>5 DEF Relies
    <3> QED BY <2>1, <2>4, <2>5, <3>1, <3>2, Continuing
  <2> QED BY <2>1, <2>2, <2>3, <2>5
<1> QED BY <1>3, <1>4

LEMMA NetworkRefreshed == ASSUME Inner, NEW c \in Callers, RefreshNetwork(c) PROVE Inner'
<1>1. /\ arg[c] \in Args /\ pc[c] = "RefreshNetwork" /\ Fits(pc[c], arg[c])
      /\ Relies(pc[c], arg[c]) => arg[c].id \in Begun
  BY LocalsOf DEF RefreshNetwork, At
<1>2. arg[c].obj \in Objects /\ (arg[c].op = "run" => arg[c].id \in Begun)
  BY <1>1 DEF Fits, NeedsObj, Relies
<1>3. /\ UNCHANGED <<daemon, panic, expiry>> /\ DaemonMove /\ Answered /\ Returns(c) /\ Begun' = Begun
  BY DEF RefreshNetwork, Returns, Answered, DaemonMove, daemon, Begun
<1>4. arg[c].join # {} => (CHOOSE n \in arg[c].join : TRUE) \in Nids
  BY <1>1 DEF Args
<1>5. hid' \in [Objects -> Nids \cup {None, Nil}]
  <2> DEFINE n == CHOOSE n \in arg[c].join : TRUE
  <2>1. hid' = [hid EXCEPT ![arg[c].obj] = Nil] \/ (arg[c].join # {} /\ hid' = [hid EXCEPT ![arg[c].obj] = n])
    BY DEF RefreshNetwork
  <2>2. arg[c].join # {} => n \in Nids
    BY <1>4
  <2> HIDE DEF n
  <2> QED BY <2>1, <2>2 DEF Inner, ProgramType
<1>6. seen' \in [Objects -> SUBSET Cids]
  BY <1>1 DEF RefreshNetwork, Inner, ProgramType, Args
<1>7. \/ UNCHANGED <<res, made>>
      \/ arg[c].op = "run" /\ res' = [res EXCEPT ![c] = arg[c].id] /\ made' = made \cup {arg[c].id}
  BY DEF RefreshNetwork
<1>8. ProgramType' /\ made' \subseteq Begun'
  BY <1>2, <1>3, <1>5, <1>6, <1>7 DEF Inner, ProgramType, Locals, Begun
<1> QED BY <1>3, <1>8, Returning

---------------------------------------------------------------------------
(* ConnectToNetwork, DisconnectFromNetwork, Purge, Expire                  *)

LEMMA ChangeBegins ==
  ASSUME Inner, NEW c \in Callers, NEW op \in {"ConnectNetwork", "DisconnectNetwork"},
         ChangeNetwork(c, op)
  PROVE  Inner'
<1>1. PICK o \in {p \in Objects : hid[p] # None} :
        /\ res[c] # None
        /\ IF res[c] = Nil \/ hid[o] = Nil THEN Idle(c) /\ Panics
           ELSE /\ Calls(c, [NoArg EXCEPT !.op = op, !.obj = o, !.id = res[c], !.join = {hid[o]}], op)
                /\ UNCHANGED <<daemon, program, expiry, faults>>
  BY DEF ChangeNetwork
<1>2. CASE res[c] = Nil \/ hid[o] = Nil
  BY <1>1, <1>2, Panicking
<1>3. CASE ~(res[c] = Nil \/ hid[o] = Nil)
  <2> DEFINE a == [NoArg EXCEPT !.op = op, !.obj = o, !.id = res[c], !.join = {hid[o]}]
  <2>1. res[c] \in Cids /\ hid[o] \in Nids
    BY <1>1, <1>3 DEF Inner, ProgramType
  <2>2. a \in Args /\ a.op = op /\ a.obj \in Objects /\ a.id \in Cids
    BY <2>1, NoArgType DEF Args, Operations
  <2>3. Calls(c, a, op) /\ UNCHANGED <<daemon, program, expiry, faults>>
    BY <1>1, <1>3
  <2> HIDE DEF a
  <2>4. Fits(op, a) /\ ~Relies(op, a) /\ ~Seeks(op, a) /\ op \in Places
    BY <2>2 DEF Fits, Relies, Seeks, NeedsId, NeedsObj, RunCalls, Places
  <2> QED BY <2>2, <2>3, <2>4, Beginning
<1> QED BY <1>2, <1>3

LEMMA ChangeCall == ASSUME Inner, NEW c \in Callers, ChangeNetworkCall(c) PROVE Inner'
<1>1. /\ arg[c] \in Args /\ pc[c] = arg[c].op /\ Fits(pc[c], arg[c])
      /\ arg[c].op \in {"ConnectNetwork", "DisconnectNetwork"}
  BY LocalsOf DEF ChangeNetworkCall, At
<1>2. arg[c].id \in Cids /\ arg[c].obj \in Objects /\ arg[c].join \in SUBSET Nids
  BY <1>1 DEF Fits, NeedsId, NeedsObj, Args
<1>3. UNCHANGED <<program, expiry>> /\ (Answered \/ Fault)
  BY DEF ChangeNetworkCall, Then, Returns
<1>4. DaemonMove
  <2>1. joined[arg[c].id] \cup arg[c].join \in SUBSET Nids /\ joined[arg[c].id] \ arg[c].join \in SUBSET Nids
    BY <1>2 DEF Inner, DaemonType
  <2>2. UNCHANGED daemon \/ \E ns \in SUBSET Nids : Rejoined(arg[c].id, ns)
    BY <2>1 DEF ChangeNetworkCall, Unhandled
  <2> QED BY <1>2, <2>2 DEF DaemonMove
<1>5. ProgramType' /\ UNCHANGED made /\ made' \subseteq Begun'
  BY <1>3, <1>4, ProgramKept, MadeKept
<1>6. CASE Then(c, "InspectContainer") /\ UNCHANGED arg
  <2>1. arg' = [arg EXCEPT ![c] = arg[c]]
    BY <1>6 DEF Inner, CallersType
  <2>2. /\ Fits("InspectContainer", arg[c]) /\ ~Relies("InspectContainer", arg[c]) /\ ~Seeks("InspectContainer", arg[c])
        /\ "InspectContainer" \in Places
    BY <1>1, <1>2 DEF Fits, Relies, Seeks, NeedsId, NeedsObj, RunCalls, Places
  <2> QED BY <1>1, <1>3, <1>4, <1>5, <1>6, <2>1, <2>2, Continuing
<1>7. CASE Returns(c)
  BY <1>3, <1>4, <1>5, <1>7, Returning
<1> QED BY <1>6, <1>7 DEF ChangeNetworkCall

LEMMA PurgeBegins == ASSUME Inner, NEW c \in Callers, Purge(c) PROVE Inner'
<1>1. CASE res[c] = Nil
  BY <1>1, Panicking DEF Purge
<1>2. CASE res[c] # Nil
  <2> DEFINE a == [NoArg EXCEPT !.op = "purge", !.id = res[c]]
  <2>1. res[c] \in Cids
    BY <1>2 DEF Purge, Inner, ProgramType
  <2>2. a \in Args /\ a.op = "purge" /\ a.id \in Cids
    BY <2>1, NoArgType DEF Args, Operations
  <2>3. Calls(c, a, "RemoveContainer") /\ UNCHANGED <<daemon, program, expiry, faults>>
    BY <1>2 DEF Purge
  <2> HIDE DEF a
  <2>4. Fits("RemoveContainer", a) /\ ~Relies("RemoveContainer", a) /\ ~Seeks("RemoveContainer", a) /\ "RemoveContainer" \in Places
    BY <2>2 DEF Fits, Relies, Seeks, NeedsId, NeedsObj, RunCalls, Places
  <2> QED BY <2>2, <2>3, <2>4, Beginning
<1> QED BY <1>1, <1>2

LEMMA RemoveCall == ASSUME Inner, NEW c \in Callers, RemoveContainer(c) PROVE Inner'
<1>1. pc[c] = "RemoveContainer" /\ Fits(pc[c], arg[c])
  BY LocalsOf DEF RemoveContainer, At
<1>2. arg[c].id \in Cids
  BY <1>1 DEF Fits, NeedsId
<1>3. Returns(c) /\ UNCHANGED <<program, expiry>> /\ (Answered \/ Fault)
  BY DEF RemoveContainer, Returns
<1>4. DaemonMove
  BY <1>2 DEF RemoveContainer, Unhandled, DaemonMove
<1> QED BY <1>3, <1>4, ProgramKept, MadeKept, Returning

LEMMA ExpireBegins == ASSUME Inner, NEW c \in Callers, Expire(c) PROVE Inner'
<1>1. UNCHANGED <<daemon, program, pc, arg, faults>> /\ Counted /\ expiry' = [expiry EXCEPT ![c] = "started"]
  BY DEF Expire
<1>2. DaemonMove /\ ProgramType' /\ UNCHANGED made
  BY <1>1 DEF DaemonMove, Inner, ProgramType, program
<1>3. BoundsType'
  BY <1>1, OperationCounted DEF Inner
<1> QED BY <1>1, <1>2, <1>3, MadeKept, CallersStay

LEMMA StopCall == ASSUME Inner, NEW c \in Callers, StopContainer(c) PROVE Inner'
<1>1. CASE res[c] = Nil
  BY <1>1, Panicking DEF StopContainer
<1>2. CASE res[c] # Nil
  <2>1. /\ UNCHANGED <<program, pc, arg, use>> /\ (Answered \/ Fault)
        /\ expiry' = [expiry EXCEPT ![c] = "off"]
        /\ UNCHANGED daemon \/ (res[c] \in Running /\ Exited(res[c]))
    BY <1>2 DEF StopContainer, Unhandled
  <2>2. DaemonMove
    BY <2>1 DEF DaemonMove, Running
  <2>3. ProgramType' /\ UNCHANGED made
    BY <2>1 DEF Inner, ProgramType, program
  <2>4. BoundsType'
    BY <2>1, FaultCounted DEF Inner
  <2> QED BY <2>1, <2>2, <2>3, <2>4, MadeKept, CallersStay
<1> QED BY <1>1, <1>2

---------------------------------------------------------------------------
(* ContainerByName, RemoveContainerByName                                  *)

LEMMA ByNameBegins ==
  ASSUME Inner, NEW c \in Callers, NEW op \in {"find", "remove"}, ByName(c, op)
  PROVE  Inner'
<1>1. PICK name \in Names :
        /\ Calls(c, [NoArg EXCEPT !.op = op, !.name = name], "ListContainers")
        /\ UNCHANGED <<daemon, program, expiry, faults>>
  BY DEF ByName
<1> DEFINE a == [NoArg EXCEPT !.op = op, !.name = name]
<1>2. a \in Args
  BY NoArgType DEF Args, Operations
<1>3. Calls(c, a, "ListContainers")
  BY <1>1
<1> HIDE DEF a
<1>4. Fits("ListContainers", a) /\ ~Relies("ListContainers", a) /\ ~Seeks("ListContainers", a) /\ "ListContainers" \in Places
  BY DEF Fits, Relies, Seeks, NeedsId, NeedsObj, RunCalls, Places
<1> QED BY <1>1, <1>2, <1>3, <1>4, Beginning

LEMMA ListCall == ASSUME Inner, NEW c \in Callers, ListContainers(c) PROVE Inner'
<1>1. arg[c] \in Args
  BY LocalsOf
<1>2. UNCHANGED <<daemon, program, expiry>> /\ (Answered \/ Fault)
  BY DEF ListContainers, Then, Returns
<1>3. DaemonMove /\ ProgramType' /\ made' \subseteq Begun'
  BY <1>2, ProgramKept, MadeKept DEF DaemonMove
<1>4. ASSUME NEW i \in Live, cname[i] \in Matches[arg[c].name], arg' = [arg EXCEPT ![c].id = i],
             NEW p \in {"InspectByName", "RemoveContainer"}, Then(c, p)
      PROVE  Inner'
  <2> DEFINE a == [arg[c] EXCEPT !.id = i]
  <2>1. a \in Args /\ a.id \in Cids /\ a.id = i /\ a.name = arg[c].name
    BY <1>1 DEF Args, Live
  <2>2. arg' = [arg EXCEPT ![c] = a]
    BY <1>4
  <2> HIDE DEF a
  <2>3. Fits(p, a) /\ ~Relies(p, a) /\ p \in Places
    BY <2>1 DEF Fits, Relies, Seeks, NeedsId, NeedsObj, RunCalls, Places
  <2>4. KnownNext(a)
    BY <1>2, <1>4, <2>1 DEF KnownNext, Live, daemon
  <2> QED BY <1>2, <1>3, <1>4, <2>1, <2>2, <2>3, <2>4, Continuing
<1>5. CASE Returns(c)
  BY <1>2, <1>3, <1>5, Returning
<1> QED BY <1>4, <1>5 DEF ListContainers

LEMMA NameInspected == ASSUME Inner, NEW c \in Callers, InspectByName(c) PROVE Inner'
<1>1. pc[c] = "InspectByName" /\ Fits(pc[c], arg[c])
  BY LocalsOf DEF InspectByName, At
<1>2. arg[c].id \in Cids
  BY <1>1 DEF Fits, NeedsId
<1>3. /\ UNCHANGED <<daemon, hid, seen, made, panic, expiry>> /\ (Answered \/ Fault) /\ Returns(c)
      /\ UNCHANGED res \/ res' = [res EXCEPT ![c] = arg[c].id]
  BY DEF InspectByName, Returns
<1>4. DaemonMove /\ ProgramType'
  BY <1>2, <1>3 DEF DaemonMove, Inner, ProgramType
<1> QED BY <1>3, <1>4, MadeKept, Returning

---------------------------------------------------------------------------
(* CreateNetwork, NetworksByName, RemoveNetwork                            *)

LEMMA NewObjectMade ==
  ASSUME Inner, NEW c \in Callers, NEW o \in Objects, NEW n \in Nids \cup {None},
         NEW in \in SUBSET Cids, NewObject(c, o, n, in), DaemonMove, Answered \/ Fault
  PROVE  Inner'
<1>1. ProgramType' /\ UNCHANGED made
  BY DEF NewObject, Inner, ProgramType
<1>2. BoundsType'
  <2>1. use.ops \in Nat /\ use.ops - 1 \in Nat /\ use' = [use EXCEPT !.ops = use.ops - 1]
    BY DEF NewObject, Counted, Inner, BoundsType, Use
  <2>2. use' \in Use /\ use'.maxFaults = use.maxFaults /\ use.maxFaults \in Nat
    BY <2>1 DEF Inner, BoundsType, Use
  <2> QED BY <2>2 DEF Inner, BoundsType, Answered, Fault
<1>3. UNCHANGED <<pc, arg>>
  BY DEF NewObject
<1> QED BY <1>1, <1>2, <1>3, MadeKept, CallersStay

LEMMA NetworkCreated == ASSUME Inner, NEW c \in Callers, CreateNetwork(c) PROVE Inner'
<1>1. PICK o \in Objects, n \in Nids :
        /\ \/ NewObject(c, o, n, {}) /\ Answered /\ nets' = [nets EXCEPT ![n] = "present"]
           \/ NewObject(c, o, None, {}) /\ Fault /\ nets' \in {nets, [nets EXCEPT ![n] = "present"]}
        /\ UNCHANGED <<image, ctr, cname, joined>>
  BY DEF CreateNetwork
<1>2. DaemonMove
  BY <1>1 DEF DaemonMove, Inner, DaemonType
<1> QED BY <1>1, <1>2, NewObjectMade

LEMMA NetworkFound == ASSUME Inner, NEW c \in Callers, NetworksByName(c) PROVE Inner'
<1>1. PICK o \in Objects, n \in Present :
        (\E in \in {{}, Inside(n)} : NewObject(c, o, n, in)) /\ Answered /\ UNCHANGED daemon
  BY DEF NetworksByName
<1>2. n \in Nids /\ {} \in SUBSET Cids /\ Inside(n) \in SUBSET Cids /\ DaemonMove
  BY <1>1 DEF Present, Inside, Running, DaemonMove
<1> QED BY <1>1, <1>2, NewObjectMade

LEMMA RemovalBegins == ASSUME Inner, NEW c \in Callers, RemoveNetwork(c) PROVE Inner'
<1>1. PICK o \in {p \in Objects : hid[p] # None} :
        IF hid[o] = Nil THEN Idle(c) /\ Panics
        ELSE /\ Calls(c, [NoArg EXCEPT !.op = "rmnet", !.obj = o, !.info = seen[o]], "Disconnect")
             /\ UNCHANGED <<daemon, program, expiry, faults>>
  BY DEF RemoveNetwork
<1>2. CASE hid[o] = Nil
  BY <1>1, <1>2, Panicking
<1>3. CASE hid[o] # Nil
  <2> DEFINE a == [NoArg EXCEPT !.op = "rmnet", !.obj = o, !.info = seen[o]]
  <2>1. seen[o] \in SUBSET Cids
    BY DEF Inner, ProgramType
  <2>2. a \in Args /\ a.op = "rmnet" /\ a.obj \in Objects
    BY <2>1, NoArgType DEF Args, Operations
  <2>3. Calls(c, a, "Disconnect") /\ UNCHANGED <<daemon, program, expiry, faults>>
    BY <1>1, <1>3
  <2> HIDE DEF a
  <2>4. Fits("Disconnect", a) /\ ~Relies("Disconnect", a) /\ ~Seeks("Disconnect", a) /\ "Disconnect" \in Places
    BY <2>2 DEF Fits, Relies, Seeks, NeedsId, NeedsObj, RunCalls, Places
  <2> QED BY <2>2, <2>3, <2>4, Beginning
<1> QED BY <1>2, <1>3

LEMMA DisconnectCall == ASSUME Inner, NEW c \in Callers, Disconnect(c) PROVE Inner'
<1>1. arg[c] \in Args /\ pc[c] = "Disconnect" /\ Fits(pc[c], arg[c])
  BY LocalsOf DEF Disconnect, At
<1>2. arg[c].info \in SUBSET Cids /\ arg[c].obj \in Objects
  BY <1>1 DEF Args, Fits, NeedsObj
<1>3. CASE hid[arg[c].obj] = Nil
  BY <1>3, Panicking DEF Disconnect
<1>4. CASE hid[arg[c].obj] # Nil
  <2>1. PICK i \in arg[c].info :
          /\ UNCHANGED daemon \/ Rejoined(i, joined[i] \ {hid[arg[c].obj]})
          /\ Answered \/ Fault
          /\ arg' = [arg EXCEPT ![c].info = @ \ {i}]
          /\ UNCHANGED <<program, pc, use, expiry>>
    BY <1>4 DEF Disconnect, Unhandled
  <2> DEFINE a == [arg[c] EXCEPT !.info = arg[c].info \ {i}]
  <2>2. a \in Args /\ a.obj = arg[c].obj /\ a.op = arg[c].op /\ a.id = arg[c].id
    BY <1>1, <1>2 DEF Args
  <2>3. arg' = [arg EXCEPT ![c] = a]
    BY <2>1
  <2> HIDE DEF a
  <2>4. Fits("Disconnect", a) /\ ~Relies("Disconnect", a) /\ ~Seeks("Disconnect", a) /\ "Disconnect" \in Places
    BY <1>2, <2>2 DEF Fits, Relies, Seeks, NeedsId, NeedsObj, RunCalls, Places
  <2>5. Then(c, "Disconnect")
    BY <1>1, <2>1 DEF Then, Inner, CallersType
  <2>6. DaemonMove
    BY <1>2, <2>1 DEF DaemonMove, Inner, DaemonType
  <2>7. ProgramType' /\ made' \subseteq Begun'
    BY <2>1, <2>6, ProgramKept, MadeKept
  <2> QED BY <2>1, <2>2, <2>3, <2>4, <2>5, <2>6, <2>7, Continuing
<1> QED BY <1>3, <1>4

LEMMA RemoveNetworkReturns == ASSUME Inner, NEW c \in Callers, RemoveNetworkCall(c) PROVE Inner'
<1>1. CASE hid[arg[c].obj] = Nil
  BY <1>1, Panicking DEF RemoveNetworkCall
<1>2. CASE hid[arg[c].obj] # Nil
  <2> DEFINE n == hid[arg[c].obj]
  <2>1. /\ Returns(c) /\ UNCHANGED <<program, expiry>> /\ (Answered \/ Fault)
        /\ \/ UNCHANGED daemon
           \/ /\ n \in Present /\ nets' = [nets EXCEPT ![n] = "gone"]
              /\ UNCHANGED <<image, ctr, cname, joined>>
    BY <1>2 DEF RemoveNetworkCall, Unhandled, Returns
  <2> HIDE DEF n
  <2>2. DaemonMove
    BY <2>1 DEF DaemonMove, Inner, DaemonType
  <2> QED BY <2>1, <2>2, ProgramKept, MadeKept, Returning
<1> QED BY <1>1, <1>2

LEMMA ExitOf == ASSUME Inner, ContainerExits PROVE Inner'
<1>1. DaemonMove /\ UNCHANGED <<program, pc, arg, expiry, use, faults>>
  BY DEF ContainerExits, DaemonMove, Running
<1>2. ProgramType' /\ UNCHANGED made /\ BoundsType'
  BY <1>1, ProgramKept DEF Inner, BoundsType
<1> QED BY <1>1, <1>2, MadeKept, CallersStay

---------------------------------------------------------------------------
LEMMA InnerInit == Init => Inner
<1> SUFFICES ASSUME Init PROVE Inner
  OBVIOUS
<1>1. DaemonType /\ ProgramType
  BY DEF Init, DaemonType, ProgramType
<1>2. BoundsType
  BY PoolBounds DEF Init, BoundsType, Use
<1>3. CallersType
  BY NoArgType DEF Init, CallersType, Places
<1>4. Locals
  BY NoArgType DEF Init, Locals, Relies, Seeks
<1> QED BY <1>1, <1>2, <1>3, <1>4 DEF Inner

LEMMA InnerNext == Inner /\ [Next]_vars => Inner'
<1> SUFFICES ASSUME Inner, [Next]_vars PROVE Inner'
  OBVIOUS
<1>1. CASE UNCHANGED vars
  <2>1. UNCHANGED <<program, expiry, pc, arg, use, faults, daemon>> /\ DaemonMove
    BY <1>1 DEF vars, DaemonMove
  <2>2. BoundsType'
    BY <2>1 DEF Inner, BoundsType
  <2> QED BY <2>1, <2>2, ProgramKept, MadeKept, CallersStay
<1>2. ASSUME NEW c \in Callers, \/ RunWithOptions(c) \/ InspectImage(c) \/ PullImage(c)
                                \/ CreateContainer(c) \/ StartContainer(c)
      PROVE Inner'
  BY <1>2, RunBegins, ImageCalls, CreateCall, StartCall
<1>3. ASSUME NEW c \in Callers, \/ InspectContainer(c) \/ NetworkInfo(c) \/ RefreshNetwork(c)
      PROVE Inner'
  BY <1>3, ContainerInspected, NetworkInspected, NetworkRefreshed
<1>4. ASSUME NEW c \in Callers, \/ ConnectToNetwork(c) \/ DisconnectFromNetwork(c) \/ ChangeNetworkCall(c)
      PROVE Inner'
  BY <1>4, ChangeBegins, ChangeCall DEF ConnectToNetwork, DisconnectFromNetwork
<1>5. ASSUME NEW c \in Callers, \/ Purge(c) \/ RemoveContainer(c) \/ Expire(c) \/ StopContainer(c)
      PROVE Inner'
  BY <1>5, PurgeBegins, RemoveCall, ExpireBegins, StopCall
<1>6. ASSUME NEW c \in Callers, \/ ContainerByName(c) \/ RemoveContainerByName(c)
                                \/ ListContainers(c) \/ InspectByName(c)
      PROVE Inner'
  BY <1>6, ByNameBegins, ListCall, NameInspected DEF ContainerByName, RemoveContainerByName
<1>7. ASSUME NEW c \in Callers, \/ CreateNetwork(c) \/ NetworksByName(c) \/ RemoveNetwork(c)
                                \/ Disconnect(c) \/ RemoveNetworkCall(c)
      PROVE Inner'
  BY <1>7, NetworkCreated, NetworkFound, RemovalBegins, DisconnectCall, RemoveNetworkReturns
<1> QED BY <1>1, <1>2, <1>3, <1>4, <1>5, <1>6, <1>7, ExitOf DEF Next

(* Every variable of the pool keeps its type, and every call about a       *)
(* container or a Network object has one, whatever calls of the callers    *)
(* come between (dockertest.go).                                           *)
THEOREM TypeCorrect == Spec => []TypeOK
<1>1. Inner => TypeOK
  <2> SUFFICES ASSUME Inner PROVE TypeOK
    OBVIOUS
  <2>1. ASSUME NEW c \in Callers
        PROVE  /\ pc[c] \in Places /\ arg[c] \in Args /\ Fits(pc[c], arg[c])
    BY LocalsOf
  <2>2. ASSUME NEW c \in Callers
        PROVE  /\ arg[c].name \in Names \cup {Anonymous} /\ arg[c].id \in Cids \cup {None}
               /\ arg[c].obj \in Objects \cup {None}
               /\ arg[c].join \subseteq Nids /\ arg[c].info \subseteq Cids
    BY <2>1 DEF Args
  <2>3. ASSUME NEW c \in Callers
        PROVE  /\ pc[c] \in {"StartContainer", "InspectContainer", "NetworkInfo", "ConnectNetwork",
                             "DisconnectNetwork", "RemoveContainer", "InspectByName"} => arg[c].id \in Cids
               /\ pc[c] \in {"NetworkInfo", "RefreshNetwork", "Disconnect"} => arg[c].obj \in Objects
    BY <2>1 DEF Fits, NeedsId, NeedsObj
  <2> QED BY <2>1, <2>2, <2>3 DEF TypeOK, Inner, DaemonType, ProgramType, BoundsType, Places
<1> QED BY <1>1, InnerInit, InnerNext, PTL DEF Spec

(* RunWithOptions returns no Resource of a container that has not been     *)
(* started, whichever of its calls fail and whatever the other callers do  *)
(* between them.                                                           *)
THEOREM OnlyStarted == Spec => []ReturnedIsStarted
<1>1. Inner => ReturnedIsStarted
  BY DEF Inner, Locals, Begun, ReturnedIsStarted
<1> QED BY <1>1, InnerInit, InnerNext, PTL DEF Spec

---------------------------------------------------------------------------
(* Removal by name                                                         *)

(* Only RemoveContainer itself takes a caller on from there.               *)
LEMMA RemovalKept ==
  ASSUME Inner, Next, NEW c \in Callers, pc[c] = "RemoveContainer", ~RemoveContainer(c)
  PROVE  pc'[c] = "RemoveContainer"
<1> DEFINE Stays == pc'[c] = "RemoveContainer"
<1>1. pc \in [Callers -> Places]
  BY DEF Inner, CallersType
<1>2. Panics => Stays
  BY DEF Panics
<1>3. ASSUME NEW d \in Callers, NEW p, pc' = [pc EXCEPT ![d] = p], pc[d] # "RemoveContainer"
      PROVE  Stays
  BY <1>1, <1>3
<1>4. ASSUME NEW d \in Callers, NEW p, Then(d, p) \/ Returns(d), pc[d] # "RemoveContainer"
      PROVE  Stays
  BY <1>3, <1>4 DEF Then, Returns
<1>5. ASSUME NEW d \in Callers, NEW a, NEW p, Calls(d, a, p)
      PROVE  Stays
  BY <1>3, <1>5 DEF Calls, Idle
<1>6. ASSUME NEW d \in Callers, \/ InspectImage(d) \/ PullImage(d) \/ CreateContainer(d) \/ StartContainer(d)
                                \/ InspectContainer(d) \/ NetworkInfo(d) \/ RefreshNetwork(d)
      PROVE Stays
  BY <1>2, <1>4, <1>6 DEF At, InspectImage, PullImage, CreateContainer, StartContainer, InspectContainer,
                          RunReturns, NetworkInfo, RefreshNetwork
<1>7. ASSUME NEW d \in Callers, \/ ChangeNetworkCall(d) \/ ListContainers(d) \/ InspectByName(d)
                                \/ Disconnect(d) \/ RemoveNetworkCall(d)
      PROVE Stays
  BY <1>2, <1>4, <1>7 DEF At, ChangeNetworkCall, ListContainers, InspectByName, Disconnect, RemoveNetworkCall
<1>8. ASSUME NEW d \in Callers, \/ RunWithOptions(d) \/ ConnectToNetwork(d) \/ DisconnectFromNetwork(d)
                                \/ Purge(d) \/ ContainerByName(d) \/ RemoveContainerByName(d) \/ RemoveNetwork(d)
      PROVE Stays
  BY <1>2, <1>5, <1>8 DEF RunWithOptions, ConnectToNetwork, DisconnectFromNetwork, ChangeNetwork, Purge,
                          ContainerByName, RemoveContainerByName, ByName, RemoveNetwork
<1>9. ASSUME NEW d \in Callers, \/ Expire(d) \/ StopContainer(d) \/ CreateNetwork(d) \/ NetworksByName(d)
      PROVE Stays
  BY <1>2, <1>9 DEF Expire, StopContainer, CreateNetwork, NetworksByName, NewObject
<1>10. ASSUME NEW d \in Callers, RemoveContainer(d) PROVE Stays
  <2>1. d # c /\ Returns(d)
    BY <1>10 DEF RemoveContainer
  <2> QED BY <1>1, <2>1 DEF Returns
<1>11. ContainerExits => Stays
  BY DEF ContainerExits
<1> QED BY <1>6, <1>7, <1>8, <1>9, <1>10, <1>11 DEF Next

(* RemoveContainerByName removes one container at most and, where the      *)
(* daemon's filter lets through the given name alone, one of that name,    *)
(* also when the name changes hands between the call that lists the        *)
(* containers and the one that removes.                                    *)
THEOREM RemovalIsNamed == Spec => RemovesNamed
<1> DEFINE Gone == {i \in Cids : ctr[i] # "gone" /\ ctr'[i] = "gone"}
<1>1. ASSUME Inner, Next, NEW c \in Callers,
             arg[c].op = "remove", pc[c] = "RemoveContainer", pc'[c] = "idle"
      PROVE  Cardinality(Gone) <= 1 /\ \A i \in Gone : cname[i] \in Matches[arg[c].name]
  <2>1. RemoveContainer(c)
    BY <1>1, RemovalKept
  <2>2. Fits(pc[c], arg[c]) /\ Known(arg[c])
    BY <1>1, LocalsOf DEF Seeks
  <2>3. arg[c].id \in Cids
    BY <1>1, <2>2 DEF Fits, NeedsId
  <2>4. Gone = {} \/ Gone = {arg[c].id}
    <3>1. UNCHANGED ctr \/ ctr' = [ctr EXCEPT ![arg[c].id] = "gone"]
      BY <2>1 DEF RemoveContainer, Removed, Unhandled, daemon
    <3>2. \A i \in Gone : i = arg[c].id
      BY <1>1, <2>3, <3>1 DEF Inner, DaemonType
    <3> QED BY <3>2
  <2>5. Cardinality(Gone) <= 1
    <3>1. Cardinality({}) = 0 /\ Cardinality({arg[c].id}) = 1
      BY FS_EmptySet, FS_Singleton
    <3>2. Cardinality(Gone) = 0 \/ Cardinality(Gone) = 1
      BY <2>4, <3>1
    <3> QED BY <3>2
  <2>6. \A i \in Gone : cname[i] \in Matches[arg[c].name]
    BY <2>2, <2>4 DEF Known
  <2> QED BY <2>5, <2>6
<1>2. Inner /\ [Next]_vars =>
        [\A c \in Callers :
           (arg[c].op = "remove" /\ pc[c] = "RemoveContainer" /\ pc'[c] = "idle") =>
             LET removed == {i \in Cids : ctr[i] # "gone" /\ ctr'[i] = "gone"}
                 name    == arg[c].name
             IN  /\ Cardinality(removed) <= 1
                 /\ Matches[name] = {name} => \A i \in removed : cname[i] = name]_vars
  <2>1. ASSUME NEW x, NEW S, S = {x}, NEW T, \A i \in T : cname[i] \in S
        PROVE  \A i \in T : cname[i] = x
    BY <2>1
  <2> QED BY <1>1, <2>1
<1> QED BY <1>2, InnerInit, InnerNext, PTL DEF Spec, RemovesNamed

---------------------------------------------------------------------------
(* Resources.  What a caller's Resource is at each call: nil is read only  *)
(* of a container that is not there, or with a lost call.                  *)

Changes == {"ConnectNetwork", "DisconnectNetwork"}
Owns(p, a, r) ==
  /\ a.op \in {"run", "find"} => r = None
  /\ p \in Changes \cup {"InspectContainer"} /\ a.op \in Changes => r = a.id
  /\ p = "InspectContainer" => a.op \in Changes \cup {"run"}
  /\ p = "InspectByName" => a.op = "find"

Owned == (\A c \in Callers : Owns(pc[c], arg[c], res[c])) /\ Purgeable

(* A container that is gone does not come back, and a fault is not undone. *)
Onward ==
  /\ \A i \in Begun : i \in Live' => i \in Live
  /\ faults' = 0 => faults = 0

LEMMA OwnedMoves ==
  ASSUME Inner, Owned, Onward, NEW c \in Callers, NEW p, NEW a, NEW r,
         Goes(c, p, a), res' = [res EXCEPT ![c] = r], Owns(p, a, r), made' \subseteq made \cup {r},
         faults' = 0 /\ res[c] \in Live' => r = res[c]
  PROVE  Owned'
<1>1. /\ pc'[c] = p /\ arg'[c] = a /\ res'[c] = r
      /\ \A d \in Callers : d # c => pc'[d] = pc[d] /\ arg'[d] = arg[d] /\ res'[d] = res[d]
  BY DEF Goes, Inner, CallersType, ProgramType
<1>2. \A d \in Callers : Owns(pc'[d], arg'[d], res'[d])
  BY <1>1 DEF Owned
<1>3. Purgeable'
  <2> SUFFICES ASSUME faults' = 0, NEW i \in made' \cap Live' PROVE \E d \in Callers : res'[d] = i
    BY DEF Purgeable
  <2>1. CASE i = r
    BY <1>1, <2>1
  <2>2. CASE i # r
    <3>1. i \in made /\ i \in Begun /\ i \in Live
      BY <2>2 DEF Onward, Inner, Locals
    <3>2. PICK d \in Callers : res[d] = i
      BY <3>1 DEF Onward, Owned, Purgeable
    <3>3. res'[d] = i
      BY <1>1, <3>2
    <3> QED BY <3>3
  <2> QED BY <2>1, <2>2
<1> QED BY <1>2, <1>3 DEF Owned

LEMMA OwnedStays ==
  ASSUME Inner, Owned, Onward, UNCHANGED <<pc, arg, res, made>>
  PROVE  Owned'
<1>1. \A i \in made' \cap Live' : i \in made \cap Live
  BY DEF Onward, Inner, Locals
<1>2. Purgeable'
  BY <1>1 DEF Onward, Owned, Purgeable
<1> QED BY <1>2 DEF Owned

(* A step of one caller that leaves its Resource alone.                    *)
LEMMA OwnedGoes ==
  ASSUME Inner, Owned, Onward, NEW c \in Callers, NEW p, NEW a,
         Goes(c, p, a), UNCHANGED <<res, made>>, Owns(p, a, res[c])
  PROVE  Owned'
<1>1. res' = [res EXCEPT ![c] = res[c]]
  BY DEF Inner, ProgramType
<1> QED BY <1>1, OwnedMoves

LEMMA OwnedReturns ==
  ASSUME Inner, Owned, Onward, NEW c \in Callers, Returns(c), UNCHANGED <<res, made>>
  PROVE  Owned'
<1>1. Goes(c, "idle", NoArg) /\ Owns("idle", NoArg, res[c])
  BY DEF Returns, Goes, Owns, NoArg, Changes
<1> QED BY <1>1, OwnedGoes

LEMMA OwnedContinues ==
  ASSUME Inner, Owned, Onward, NEW c \in Callers, NEW p, Then(c, p), UNCHANGED <<arg, res, made>>,
         Owns(p, arg[c], res[c])
  PROVE  Owned'
<1>1. Goes(c, p, arg[c])
  BY DEF Then, Goes, Inner, CallersType
<1> QED BY <1>1, OwnedGoes

LEMMA OwnedPanics == ASSUME Inner, Owned, Onward, Panics PROVE Owned'
BY OwnedStays DEF Panics

LEMMA OwnsOf == ASSUME Owned, NEW c \in Callers PROVE Owns(pc[c], arg[c], res[c])
BY DEF Owned

---------------------------------------------------------------------------
LEMMA RunOwned ==
  ASSUME Inner, Owned, Onward, NEW c \in Callers,
         \/ RunWithOptions(c) \/ InspectImage(c) \/ PullImage(c) \/ CreateContainer(c) \/ StartContainer(c)
  PROVE  Owned'
<1>1. CASE RunWithOptions(c)
  <2>1. CASE Panics
    BY <2>1, OwnedPanics
  <2>2. CASE ~Panics
    <3>1. PICK name, o, join :
            /\ Calls(c, [NoArg EXCEPT !.op = "run", !.name = name, !.obj = o, !.join = join], "InspectImage")
            /\ UNCHANGED <<daemon, program, expiry, faults>>
      BY <1>1, <2>2 DEF RunWithOptions
    <3> DEFINE a == [NoArg EXCEPT !.op = "run", !.name = name, !.obj = o, !.join = join]
    <3>2. a.op = "run"
      BY DEF NoArg
    <3>3. Goes(c, "InspectImage", a)
      BY <3>1 DEF Calls, Goes
    <3> HIDE DEF a
    <3>4. Owns("InspectImage", a, res[c])
      BY <1>1, <3>2 DEF RunWithOptions, Owns, Changes
    <3> QED BY <3>1, <3>3, <3>4, OwnedGoes DEF program
  <2> QED BY <2>1, <2>2
<1>2. CASE \/ InspectImage(c) \/ PullImage(c) \/ CreateContainer(c) \/ StartContainer(c)
  <2>1. UNCHANGED <<res, made>>
    BY <1>2 DEF InspectImage, PullImage, CreateContainer, StartContainer, program
  <2>2. arg[c].op = "run" /\ res[c] = None
    BY <1>2, LocalsOf, OwnsOf DEF InspectImage, PullImage, CreateContainer, StartContainer, At, Fits, RunCalls, Owns
  <2>3. ASSUME NEW p \in {"PullImage", "CreateContainer", "InspectContainer"}, Then(c, p), UNCHANGED arg
        PROVE  Owned'
    <3>1. Owns(p, arg[c], res[c])
      BY <2>2 DEF Owns, Changes
    <3> QED BY <2>1, <2>3, <3>1, OwnedContinues
  <2>4. ASSUME NEW i \in Cids, Then(c, "StartContainer"), arg' = [arg EXCEPT ![c].id = i]
        PROVE  Owned'
    <3> DEFINE a == [arg[c] EXCEPT !.id = i]
    <3>1. a.op = "run" /\ Goes(c, "StartContainer", a)
      BY <2>2, <2>4, LocalsOf DEF Then, Goes, Args
    <3> HIDE DEF a
    <3>2. Owns("StartContainer", a, res[c])
      BY <2>2, <3>1 DEF Owns, Changes
    <3> QED BY <2>1, <3>1, <3>2, OwnedGoes
  <2>5. CASE Returns(c)
    BY <2>1, <2>5, OwnedReturns
  <2>6. InspectImage(c) => Owned'
    BY <2>3 DEF InspectImage
  <2>7. PullImage(c) => Owned'
    BY <2>3, <2>5 DEF PullImage
  <2>8. CreateContainer(c) => Owned'
    BY <2>4, <2>5 DEF CreateContainer
  <2>9. StartContainer(c) => Owned'
    BY <2>3, <2>5 DEF StartContainer
  <2> QED BY <1>2, <2>6, <2>7, <2>8, <2>9
<1> QED BY <1>1, <1>2

LEMMA InspectOwned ==
  ASSUME Inner, Owned, Onward, NEW c \in Callers, InspectContainer(c)
  PROVE  Owned'
<1>1. pc[c] = "InspectContainer" /\ arg[c].id \in Cids /\ Owns(pc[c], arg[c], res[c]) /\ arg[c] \in Args
  BY LocalsOf, OwnsOf DEF InspectContainer, At, Fits, NeedsId
<1>2. Live' = Live
  BY DEF InspectContainer, daemon, Live
<1>3. CASE arg[c].op = "run" /\ arg[c].obj = None /\ RunReturns(c)
  <2>1. Goes(c, "idle", NoArg) /\ Owns("idle", NoArg, arg[c].id)
    BY <1>3 DEF RunReturns, Returns, Goes, Owns, NoArg, Changes
  <2>2. res[c] \notin Live'
    BY <1>1, <1>2, <1>3, Ids DEF Owns, Live
  <2>3. res' = [res EXCEPT ![c] = arg[c].id] /\ made' \subseteq made \cup {arg[c].id}
    BY <1>3 DEF RunReturns
  <2> QED BY <2>1, <2>2, <2>3, OwnedMoves
<1>4. ASSUME NEW i, RefreshContainer(c, i), arg[c].op = "run" PROVE UNCHANGED <<res, made>>
  BY <1>4 DEF RefreshContainer
<1>5. CASE RefreshContainer(c, arg[c].id) /\ Then(c, "NetworkInfo") /\ UNCHANGED arg
  <2>1. UNCHANGED <<res, made>>
    <3>1. CASE arg[c].op = "run"
      BY <1>4, <1>5, <3>1
    <3>2. CASE arg[c].op # "run"
      <4>1. pc[c] = "InspectContainer" /\ arg[c].op \in Changes
        BY <1>1, <3>2 DEF Owns
      <4> QED BY <1>1, <1>5, <3>2, <4>1 DEF RefreshContainer, Owns, Inner, ProgramType
    <3> QED BY <3>1, <3>2
  <2>2. Owns("NetworkInfo", arg[c], res[c])
    BY <1>1 DEF Owns, Changes
  <2> QED BY <1>5, <2>1, <2>2, OwnedContinues
<1>6. CASE /\ (arg[c].id \notin Live /\ Answered) \/ Fault
           /\ RefreshContainer(c, Nil) /\ Returns(c)
  <2>1. CASE arg[c].op = "run"
    BY <1>4, <1>6, <2>1, OwnedReturns
  <2>2. CASE arg[c].op # "run"
    <3>1. Goes(c, "idle", NoArg) /\ Owns("idle", NoArg, Nil)
      BY <1>6 DEF Returns, Goes, Owns, NoArg, Changes
    <3>2. res' = [res EXCEPT ![c] = Nil] /\ made' \subseteq made \cup {Nil}
      BY <1>6, <2>2 DEF RefreshContainer
    <3>3. arg[c].op \in Changes /\ res[c] = arg[c].id
      BY <1>1, <2>2 DEF Owns
    <3>4. Fault => faults' # 0
      BY DEF Fault, Inner, BoundsType, Use
    <3> QED BY <1>2, <1>6, <3>1, <3>2, <3>3, <3>4, OwnedMoves
  <2> QED BY <2>1, <2>2
<1> QED BY <1>3, <1>5, <1>6 DEF InspectContainer

LEMMA NetworkOwned ==
  ASSUME Inner, Owned, Onward, NEW c \in Callers, NetworkInfo(c) \/ RefreshNetwork(c)
  PROVE  Owned'
<1>1. Owns(pc[c], arg[c], res[c]) /\ arg[c] \in Args
  BY LocalsOf, OwnsOf
<1>2. CASE NetworkInfo(c)
  <2>1. CASE Panics
    BY <2>1, OwnedPanics
  <2>2. CASE ~Panics
    <3>1. PICK a :
            a.op = arg[c].op /\ arg' = [arg EXCEPT ![c] = a] /\ Then(c, "RefreshNetwork") /\ UNCHANGED program
      <4> DEFINE n == hid[arg[c].obj]
                 found == [arg[c] EXCEPT !.info = Inside(n), !.join = {n}]
                 lost  == [arg[c] EXCEPT !.join = {}]
      <4>1. /\ Then(c, "RefreshNetwork") /\ UNCHANGED program
            /\ arg' = [arg EXCEPT ![c] = found] \/ arg' = [arg EXCEPT ![c] = lost]
        BY <1>2, <2>2 DEF NetworkInfo
      <4>2. found.op = arg[c].op /\ lost.op = arg[c].op
        BY <1>1 DEF Args
      <4> HIDE DEF found, lost
      <4> QED BY <4>1, <4>2
    <3>2. Goes(c, "RefreshNetwork", a) /\ UNCHANGED <<res, made>>
      BY <3>1 DEF Goes, Then, program
    <3>3. Owns("RefreshNetwork", a, res[c])
      BY <1>1, <3>1 DEF Owns, Changes
    <3> QED BY <3>2, <3>3, OwnedGoes
  <2> QED BY <2>1, <2>2
<1>3. CASE RefreshNetwork(c)
  <2>1. /\ Returns(c)
        /\ \/ UNCHANGED <<res, made>>
           \/ arg[c].op = "run" /\ res' = [res EXCEPT ![c] = arg[c].id] /\ made' = made \cup {arg[c].id}
    BY <1>3 DEF RefreshNetwork
  <2>2. CASE UNCHANGED <<res, made>>
    BY <2>1, <2>2, OwnedReturns
  <2>3. CASE arg[c].op = "run" /\ res' = [res EXCEPT ![c] = arg[c].id] /\ made' = made \cup {arg[c].id}
    <3>1. Goes(c, "idle", NoArg) /\ Owns("idle", NoArg, arg[c].id)
      BY <2>1 DEF Returns, Goes, Owns, NoArg, Changes
    <3>2. res[c] \notin Live'
      BY <1>1, <2>3, Ids DEF Owns, Live
    <3> QED BY <2>3, <3>1, <3>2, OwnedMoves
  <2> QED BY <2>1, <2>2, <2>3
<1> QED BY <1>2, <1>3

LEMMA ChangeOwned ==
  ASSUME Inner, Owned, Onward, NEW c \in Callers,
         ConnectToNetwork(c) \/ DisconnectFromNetwork(c) \/ ChangeNetworkCall(c)
  PROVE  Owned'
<1>1. ASSUME NEW op \in Changes, ChangeNetwork(c, op) PROVE Owned'
  <2>1. CASE Panics
    BY <2>1, OwnedPanics
  <2>2. CASE ~Panics
    <3>1. PICK o :
            /\ Calls(c, [NoArg EXCEPT !.op = op, !.obj = o, !.id = res[c], !.join = {hid[o]}], op)
            /\ UNCHANGED <<daemon, program, expiry, faults>>
      BY <1>1, <2>2 DEF ChangeNetwork
    <3> DEFINE a == [NoArg EXCEPT !.op = op, !.obj = o, !.id = res[c], !.join = {hid[o]}]
    <3>2. a.op = op /\ a.id = res[c] /\ Goes(c, op, a) /\ UNCHANGED <<res, made>>
      BY <3>1 DEF NoArg, Calls, Goes, program
    <3> HIDE DEF a
    <3>3. Owns(op, a, res[c])
      BY <3>2 DEF Owns, Changes
    <3> QED BY <3>2, <3>3, OwnedGoes
  <2> QED BY <2>1, <2>2
<1>2. CASE ChangeNetworkCall(c)
  <2>1. Owns(pc[c], arg[c], res[c]) /\ arg[c].op \in Changes /\ pc[c] = arg[c].op /\ UNCHANGED <<res, made>>
    BY <1>2, OwnsOf DEF ChangeNetworkCall, At, Changes, program
  <2>2. Owns("InspectContainer", arg[c], res[c])
    BY <2>1 DEF Owns, Changes
  <2> QED BY <1>2, <2>1, <2>2, OwnedContinues, OwnedReturns DEF ChangeNetworkCall
<1> QED BY <1>1, <1>2 DEF ConnectToNetwork, DisconnectFromNetwork, Changes

LEMMA PurgeOwned ==
  ASSUME Inner, Owned, Onward, NEW c \in Callers,
         Purge(c) \/ RemoveContainer(c) \/ Expire(c) \/ StopContainer(c)
  PROVE  Owned'
<1>1. CASE Purge(c)
  <2>1. CASE Panics
    BY <2>1, OwnedPanics
  <2>2. CASE ~Panics
    <3> DEFINE a == [NoArg EXCEPT !.op = "purge", !.id = res[c]]
    <3>1. a.op = "purge" /\ Goes(c, "RemoveContainer", a) /\ UNCHANGED <<res, made>>
      BY <1>1, <2>2 DEF Purge, NoArg, Calls, Goes, program
    <3> HIDE DEF a
    <3>2. Owns("RemoveContainer", a, res[c])
      BY <3>1 DEF Owns, Changes
    <3> QED BY <3>1, <3>2, OwnedGoes
  <2> QED BY <2>1, <2>2
<1>2. CASE RemoveContainer(c)
  BY <1>2, OwnedReturns DEF RemoveContainer, program
<1>3. CASE Expire(c)
  BY <1>3, OwnedStays DEF Expire, program
<1>4. CASE StopContainer(c)
  BY <1>4, OwnedPanics, OwnedStays DEF StopContainer, program
<1> QED BY <1>1, <1>2, <1>3, <1>4

LEMMA NameOwned ==
  ASSUME Inner, Owned, Onward, NEW c \in Callers,
         ContainerByName(c) \/ RemoveContainerByName(c) \/ ListContainers(c) \/ InspectByName(c)
  PROVE  Owned'
<1>0. Owns(pc[c], arg[c], res[c]) /\ arg[c] \in Args
  BY LocalsOf, OwnsOf
<1>1. ASSUME NEW op \in {"find", "remove"}, ByName(c, op), op = "find" => res[c] = None PROVE Owned'
  <2>1. PICK name :
          /\ Calls(c, [NoArg EXCEPT !.op = op, !.name = name], "ListContainers")
          /\ UNCHANGED program
    BY <1>1 DEF ByName
  <2> DEFINE a == [NoArg EXCEPT !.op = op, !.name = name]
  <2>2. a.op = op /\ Goes(c, "ListContainers", a) /\ UNCHANGED <<res, made>>
    BY <2>1 DEF NoArg, Calls, Goes, program
  <2> HIDE DEF a
  <2>3. Owns("ListContainers", a, res[c])
    BY <1>1, <2>2 DEF Owns, Changes
  <2> QED BY <2>2, <2>3, OwnedGoes
<1>2. CASE ListContainers(c)
  <2>1. UNCHANGED <<res, made>>
    BY <1>2 DEF ListContainers, program
  <2>2. ASSUME NEW i \in Cids, arg' = [arg EXCEPT ![c].id = i],
               Then(c, IF arg[c].op = "find" THEN "InspectByName" ELSE "RemoveContainer")
        PROVE  Owned'
    <3> DEFINE a == [arg[c] EXCEPT !.id = i]
               p == IF arg[c].op = "find" THEN "InspectByName" ELSE "RemoveContainer"
    <3>1. a.op = arg[c].op /\ Goes(c, p, a)
      BY <1>0, <2>2 DEF Args, Then, Goes
    <3>2. (p = "InspectByName" /\ arg[c].op = "find") \/ p = "RemoveContainer"
      OBVIOUS
    <3> HIDE DEF a, p
    <3>3. Owns(p, a, res[c])
      BY <1>0, <3>1, <3>2 DEF Owns, Changes
    <3> QED BY <2>1, <3>1, <3>3, OwnedGoes
  <2> QED BY <1>2, <2>1, <2>2, OwnedReturns DEF ListContainers, Live
<1>3. CASE InspectByName(c)
  <2>1. /\ pc[c] = "InspectByName" /\ Returns(c) /\ UNCHANGED made
        /\ (UNCHANGED res \/ res' = [res EXCEPT ![c] = arg[c].id])
    BY <1>3 DEF InspectByName, At
  <2>2. CASE UNCHANGED res
    BY <2>1, <2>2, OwnedReturns
  <2>3. CASE res' = [res EXCEPT ![c] = arg[c].id]
    <3>1. Goes(c, "idle", NoArg) /\ Owns("idle", NoArg, arg[c].id)
      BY <2>1 DEF Returns, Goes, Owns, NoArg, Changes
    <3>2. res[c] \notin Live'
      BY <1>0, <2>1, Ids DEF Owns, Live
    <3> QED BY <2>1, <2>3, <3>1, <3>2, OwnedMoves
  <2> QED BY <2>1, <2>2, <2>3
<1> QED BY <1>1, <1>2, <1>3 DEF ContainerByName, RemoveContainerByName

LEMMA ObjectOwned ==
  ASSUME Inner, Owned, Onward, NEW c \in Callers,
         CreateNetwork(c) \/ NetworksByName(c) \/ RemoveNetwork(c) \/ Disconnect(c) \/ RemoveNetworkCall(c)
  PROVE  Owned'
<1>1. CASE CreateNetwork(c) \/ NetworksByName(c)
  BY <1>1, OwnedStays DEF CreateNetwork, NetworksByName, NewObject
<1>2. CASE RemoveNetwork(c) /\ ~Panics
  <2>1. PICK o :
          /\ Calls(c, [NoArg EXCEPT !.op = "rmnet", !.obj = o, !.info = seen[o]], "Disconnect")
          /\ UNCHANGED program
    BY <1>2 DEF RemoveNetwork
  <2> DEFINE a == [NoArg EXCEPT !.op = "rmnet", !.obj = o, !.info = seen[o]]
  <2>2. a.op = "rmnet" /\ Goes(c, "Disconnect", a) /\ UNCHANGED <<res, made>>
    BY <2>1 DEF NoArg, Calls, Goes, program
  <2> HIDE DEF a
  <2>3. Owns("Disconnect", a, res[c])
    BY <2>2 DEF Owns, Changes
  <2> QED BY <2>2, <2>3, OwnedGoes
<1>3. CASE Disconnect(c) /\ ~Panics
  <2>1. Owns(pc[c], arg[c], res[c]) /\ arg[c] \in Args /\ pc[c] = "Disconnect"
    BY <1>3, LocalsOf, OwnsOf DEF Disconnect, At
  <2>2. PICK i : arg' = [arg EXCEPT ![c].info = @ \ {i}] /\ UNCHANGED <<program, pc>>
    BY <1>3 DEF Disconnect
  <2> DEFINE a == [arg[c] EXCEPT !.info = arg[c].info \ {i}]
  <2>3. a.op = arg[c].op
    BY <2>1 DEF Args
  <2>4. Goes(c, "Disconnect", a) /\ UNCHANGED <<res, made>>
    BY <2>1, <2>2 DEF Goes, program, Inner, CallersType
  <2> HIDE DEF a
  <2>5. Owns("Disconnect", a, res[c])
    BY <2>1, <2>3 DEF Owns, Changes
  <2> QED BY <2>4, <2>5, OwnedGoes
<1>4. CASE RemoveNetworkCall(c) /\ ~Panics
  BY <1>4, OwnedReturns DEF RemoveNetworkCall, program
<1>5. CASE Panics
  BY <1>5, OwnedPanics
<1> QED BY <1>1, <1>2, <1>3, <1>4, <1>5

---------------------------------------------------------------------------
LEMMA StepsOnward == ASSUME Inner, Next PROVE Onward
<1>1. faults \in Nat
  BY DEF Inner, BoundsType, Use
<1>2. Answered \/ Fault => (faults' = 0 => faults = 0)
  BY <1>1 DEF Answered, Fault
<1>3. Panics => UNCHANGED <<ctr, faults>>
  BY DEF Panics, daemon
<1>4. faults' = 0 => faults = 0
  <2> DEFINE Lost == UNCHANGED faults \/ Answered \/ Fault
  <2>1. ASSUME NEW c \in Callers, RunWithOptions(c) \/ InspectImage(c) \/ PullImage(c) PROVE Lost
    BY <1>3, <2>1 DEF RunWithOptions, InspectImage, PullImage
  <2>2. ASSUME NEW c \in Callers, CreateContainer(c) \/ StartContainer(c) PROVE Lost
    BY <1>3, <2>2 DEF CreateContainer, StartContainer
  <2>3. ASSUME NEW c \in Callers, InspectContainer(c) \/ NetworkInfo(c) \/ RefreshNetwork(c)
        PROVE  Lost
    BY <1>3, <2>3 DEF InspectContainer, NetworkInfo, RefreshNetwork
  <2>4. ASSUME NEW c \in Callers, ConnectToNetwork(c) \/ DisconnectFromNetwork(c) \/ ChangeNetworkCall(c)
        PROVE  Lost
    BY <1>3, <2>4 DEF ConnectToNetwork, DisconnectFromNetwork, ChangeNetworkCall, ChangeNetwork
  <2>5. ASSUME NEW c \in Callers, Purge(c) \/ RemoveContainer(c) \/ Expire(c) \/ StopContainer(c)
        PROVE  Lost
    BY <1>3, <2>5 DEF Purge, RemoveContainer, Expire, StopContainer
  <2>6. ASSUME NEW c \in Callers, ContainerByName(c) \/ RemoveContainerByName(c) \/ ListContainers(c) \/ InspectByName(c)
        PROVE  Lost
    BY <1>3, <2>6 DEF ContainerByName, RemoveContainerByName, ListContainers, InspectByName, ByName
  <2>7. ASSUME NEW c \in Callers, CreateNetwork(c) \/ NetworksByName(c) PROVE Lost
    BY <1>3, <2>7 DEF CreateNetwork, NetworksByName
  <2>8. ASSUME NEW c \in Callers, RemoveNetwork(c) \/ Disconnect(c) \/ RemoveNetworkCall(c)
        PROVE  Lost
    BY <1>3, <2>8 DEF RemoveNetwork, Disconnect, RemoveNetworkCall
  <2>9. ContainerExits => UNCHANGED faults
    BY DEF ContainerExits
  <2>10. Lost
    BY <2>1, <2>2, <2>3, <2>4, <2>5, <2>6, <2>7, <2>8, <2>9 DEF Next
  <2> QED BY <1>2, <2>10
<1>5. UNCHANGED ctr \/ (\E i \in Cids : ctr[i] = "none" /\ ctr' = [ctr EXCEPT ![i] = "created"])
      \/ (\E i \in Live : \E s : ctr' = [ctr EXCEPT ![i] = s])
  <2> DEFINE Moved == UNCHANGED ctr \/ (\E i \in Cids : ctr[i] = "none" /\ ctr' = [ctr EXCEPT ![i] = "created"])
                      \/ (\E i \in Live : \E s : ctr' = [ctr EXCEPT ![i] = s])
  <2>1. ASSUME NEW c \in Callers, CreateContainer(c) PROVE Moved
    BY <2>1 DEF CreateContainer, Created, Unhandled, daemon
  <2>2. ASSUME NEW c \in Callers, StartContainer(c) \/ RemoveContainer(c) PROVE Moved
    BY <2>2 DEF StartContainer, RemoveContainer, Started, Removed, Unhandled, daemon
  <2>3. ASSUME NEW c \in Callers, StopContainer(c) PROVE Moved
    <3>1. UNCHANGED ctr \/ (res[c] \in Running /\ Exited(res[c]))
      BY <1>3, <2>3 DEF StopContainer, Unhandled, daemon
    <3>2. res[c] \in Running => res[c] \in Live
      BY DEF Running, Live
    <3> QED BY <3>1, <3>2 DEF Exited, Removed
  <2>4. ContainerExits => Moved
    <3>1. \A i \in Running : i \in Live
      BY DEF Running, Live
    <3> QED BY <3>1 DEF ContainerExits, Exited, Removed
  <2>5. ASSUME NEW c \in Callers, RunWithOptions(c) \/ InspectImage(c) \/ PullImage(c)
        PROVE  UNCHANGED ctr
    BY <1>3, <2>5 DEF RunWithOptions, InspectImage, PullImage, Unhandled, daemon
  <2>6. ASSUME NEW c \in Callers, InspectContainer(c) \/ NetworkInfo(c) \/ RefreshNetwork(c)
        PROVE  UNCHANGED ctr
    BY <1>3, <2>6 DEF InspectContainer, NetworkInfo, RefreshNetwork, Unhandled, daemon
  <2>7. ASSUME NEW c \in Callers, ConnectToNetwork(c) \/ DisconnectFromNetwork(c) \/ ChangeNetworkCall(c)
        PROVE  UNCHANGED ctr
    BY <1>3, <2>7 DEF ConnectToNetwork, DisconnectFromNetwork, ChangeNetworkCall, ChangeNetwork,
         Rejoined, Unhandled, daemon
  <2>8. ASSUME NEW c \in Callers, Purge(c) \/ Expire(c) PROVE UNCHANGED ctr
    BY <1>3, <2>8 DEF Purge, Expire, Unhandled, daemon
  <2>9. ASSUME NEW c \in Callers, ContainerByName(c) \/ RemoveContainerByName(c) \/ ListContainers(c) \/ InspectByName(c)
        PROVE  UNCHANGED ctr
    BY <1>3, <2>9 DEF ContainerByName, RemoveContainerByName, ListContainers, InspectByName, ByName,
         Unhandled, daemon
  <2>10. ASSUME NEW c \in Callers, CreateNetwork(c) \/ NetworksByName(c) PROVE UNCHANGED ctr
    BY <1>3, <2>10 DEF CreateNetwork, NetworksByName, Unhandled, daemon
  <2>11. ASSUME NEW c \in Callers, RemoveNetwork(c) \/ Disconnect(c) \/ RemoveNetworkCall(c)
         PROVE  UNCHANGED ctr
    BY <1>3, <2>11 DEF RemoveNetwork, Disconnect, RemoveNetworkCall, Rejoined, Unhandled, daemon
  <2> QED BY <2>1, <2>2, <2>3, <2>4, <2>5, <2>6, <2>7, <2>8, <2>9, <2>10, <2>11 DEF Next
<1>6. \A i \in Begun : i \in Live' => i \in Live
  BY <1>5 DEF Begun, Live, Inner, DaemonType
<1> QED BY <1>4, <1>6 DEF Onward

LEMMA OwnedInit == Init => Owned
BY DEF Init, Owned, Owns, Purgeable, NoArg, Changes

LEMMA OwnedNext == Inner /\ Owned /\ [Next]_vars => Owned'
<1> SUFFICES ASSUME Inner, Owned, [Next]_vars PROVE Owned'
  OBVIOUS
<1>1. CASE UNCHANGED vars
  BY <1>1, OwnedStays DEF vars, program, daemon, Onward, Live
<1>2. CASE Next
  <2>1. Onward
    BY <1>2, StepsOnward
  <2>2. ASSUME NEW c \in Callers, \/ RunWithOptions(c) \/ InspectImage(c) \/ PullImage(c)
                                  \/ CreateContainer(c) \/ StartContainer(c)
        PROVE Owned'
    BY <2>1, <2>2, RunOwned
  <2>3. ASSUME NEW c \in Callers, \/ InspectContainer(c) \/ NetworkInfo(c) \/ RefreshNetwork(c)
        PROVE Owned'
    BY <2>1, <2>3, InspectOwned, NetworkOwned
  <2>4. ASSUME NEW c \in Callers, \/ ConnectToNetwork(c) \/ DisconnectFromNetwork(c) \/ ChangeNetworkCall(c)
                                  \/ Purge(c) \/ RemoveContainer(c) \/ Expire(c) \/ StopContainer(c)
        PROVE Owned'
    BY <2>1, <2>4, ChangeOwned, PurgeOwned
  <2>5. ASSUME NEW c \in Callers, \/ ContainerByName(c) \/ RemoveContainerByName(c)
                                  \/ ListContainers(c) \/ InspectByName(c)
        PROVE Owned'
    BY <2>1, <2>5, NameOwned
  <2>6. ASSUME NEW c \in Callers, \/ CreateNetwork(c) \/ NetworksByName(c) \/ RemoveNetwork(c)
                                  \/ Disconnect(c) \/ RemoveNetworkCall(c)
        PROVE Owned'
    BY <2>1, <2>6, ObjectOwned
  <2>7. ContainerExits => Owned'
    BY <2>1, OwnedStays DEF ContainerExits, program
  <2> QED BY <1>2, <2>2, <2>3, <2>4, <2>5, <2>6, <2>7 DEF Next
<1> QED BY <1>1, <1>2

(* While no call is lost, every container that RunWithOptions returned and *)
(* that is not removed is the Container of a Resource: no operation of     *)
(* another caller clears it, and none of its own does unless the container *)
(* is gone.                                                                *)
THEOREM ReturnedCanBePurged == Spec => []Purgeable
<1>1. Owned => Purgeable
  BY DEF Owned
<1> QED BY <1>1, InnerInit, InnerNext, OwnedInit, OwnedNext, PTL DEF Spec

---------------------------------------------------------------------------
(* RemoveNetwork.  When callers take turns, join by object and lose no     *)
(* call, a Network object lists every running container of its network,    *)
(* but for the one that the operation under way is about to list.          *)

Turns == use.serial /\ ~use.networkID /\ faults = 0

Listing == {"InspectContainer", "NetworkInfo", "RefreshNetwork"}
Arriving(p, a, i, o) == p \in Listing /\ a.id = i /\ a.obj = o
Joins(a) == {hid[o] : o \in {a.obj} \ {None}}
Serves(p, a) ==
  /\ p \in {"InspectImage", "PullImage", "CreateContainer"} => a.join = Joins(a)
  /\ p = "StartContainer" => joined[a.id] \subseteq Joins(a)
  /\ p \in Changes => a.op = p /\ a.join = Joins(a)
  /\ p = "RefreshNetwork" =>
       \/ a.join = {hid[a.obj]} /\ Inside(hid[a.obj]) \subseteq a.info
       \/ a.join = {} /\ hid[a.obj] \notin Present
  /\ p = "Disconnect" /\ hid[a.obj] \in Present /\ Sole(a.obj) => Inside(hid[a.obj]) \subseteq a.info
  /\ a.op = "rmnet" => p = "Disconnect"
Listed(o) ==
  hid[o] \in Present /\ Sole(o) =>
    \A i \in Inside(hid[o]) : i \in seen[o] \/ \E c \in Callers : Arriving(pc[c], arg[c], i, o)

Order ==
  /\ \A c, d \in Callers : pc[c] # "idle" /\ pc[d] # "idle" => c = d
  /\ \A c \in Callers : Serves(pc[c], arg[c])
  /\ \A o \in Objects : hid[o] \in Nids => nets[hid[o]] # "none"
  /\ \A n \in Present : \E o \in Objects : hid[o] = n
  /\ \A i \in Cids : \A n \in joined[i] : nets[n] # "none"
  /\ \A o \in Objects : Listed(o)

LEMMA Quiet == ASSUME Inner, faults' = 0 PROVE ~Fault
BY DEF Fault, Inner, BoundsType, Use

(* The daemon loses running containers and connections at most.            *)
Shrinks ==
  /\ \A i \in Cids : joined'[i] \subseteq joined[i]
  /\ \A i \in Cids : i \in Running' => i \in Running

LEMMA OrderStays ==
  ASSUME Inner, Order, UNCHANGED <<pc, arg, hid, seen, nets>>, Shrinks
  PROVE  Order'
<1>1. \A n : Inside(n)' \subseteq Inside(n)
  BY DEF Shrinks, Inside, Running
<1>2. Present' = Present /\ \A o : Sole(o)' <=> Sole(o)
  BY DEF Present, Sole
<1>3. ASSUME NEW c \in Callers PROVE Serves(pc[c], arg[c])'
  <2>1. Serves(pc[c], arg[c]) /\ Fits(pc[c], arg[c])
    BY LocalsOf DEF Order
  <2>2. pc[c] = "StartContainer" => joined'[arg[c].id] \subseteq joined[arg[c].id]
    BY <2>1 DEF Fits, NeedsId, Shrinks
  <2> QED BY <1>1, <1>2, <2>1, <2>2 DEF Serves, Joins
<1>4. ASSUME NEW o \in Objects PROVE Listed(o)'
  <2>1. Listed(o) BY DEF Order
  <2> QED BY <1>1, <1>2, <2>1 DEF Listed
<1> QED BY <1>2, <1>3, <1>4 DEF Order, Shrinks

(* One caller goes on while the others do nothing.                         *)
Others(c) == \A d \in Callers \ {c} : pc[d] = "idle" /\ pc'[d] = "idle" /\ arg'[d] = arg[d]

LEMMA OrderGoes ==
  ASSUME Inner, Order, NEW c \in Callers, Others(c), UNCHANGED <<hid, seen, nets>>,
         Serves(pc[c], arg[c])',
         \A i \in Cids : \A n \in joined'[i] : n \in joined[i] \/ nets[n] # "none",
         \A i \in Running', o \in Objects :
           hid[o] \in joined'[i] /\ Sole(o) =>
             \/ Arriving(pc[c], arg[c], i, o)'
             \/ i \in Inside(hid[o]) /\ ~Arriving(pc[c], arg[c], i, o)
  PROVE  Order'
<1>1. Present' = Present /\ \A o : Sole(o)' <=> Sole(o)
  BY DEF Present, Sole
<1>2. ASSUME NEW d \in Callers PROVE Serves(pc[d], arg[d])'
  <2>1. CASE d = c BY <2>1
  <2>2. CASE d # c
    <3>1. pc[d] = "idle" /\ pc'[d] = "idle" /\ arg'[d] = arg[d] /\ Serves(pc[d], arg[d])
      BY <2>2 DEF Others, Order
    <3> QED BY <3>1 DEF Serves, Changes
  <2> QED BY <2>1, <2>2
<1>3. ASSUME NEW o \in Objects PROVE Listed(o)'
  <2> SUFFICES ASSUME hid[o] \in Present, Sole(o), NEW i \in Inside(hid[o])'
               PROVE  i \in seen[o] \/ \E d \in Callers : Arriving(pc[d], arg[d], i, o)'
    BY <1>1 DEF Listed
  <2>1. i \in Running' /\ hid[o] \in joined'[i]
    BY DEF Inside
  <2>2. CASE Arriving(pc[c], arg[c], i, o)'
    BY <2>2
  <2>3. CASE i \in Inside(hid[o]) /\ ~Arriving(pc[c], arg[c], i, o)
    <3>1. i \in seen[o] \/ \E d \in Callers : Arriving(pc[d], arg[d], i, o)
      BY <2>3 DEF Order, Listed
    <3>2. \A d \in Callers : ~Arriving(pc[d], arg[d], i, o)
      BY <2>3 DEF Others, Arriving, Listing
    <3> QED BY <3>1, <3>2
  <2> QED BY <2>1, <2>2, <2>3
<1>4. \A d, e \in Callers : pc'[d] # "idle" /\ pc'[e] # "idle" => d = e
  BY DEF Others
<1> QED BY <1>1, <1>2, <1>3, <1>4 DEF Order

LEMMA OthersWait ==
  ASSUME Inner, Order, NEW c \in Callers, NEW p, NEW a, Goes(c, p, a),
         pc[c] # "idle" \/ (Idle(c) /\ use.serial)
  PROVE  Others(c) /\ pc'[c] = p /\ arg'[c] = a
BY DEF Others, Order, Goes, Idle, Inner, CallersType

(* An operation begins, and one returns.                                   *)
LEMMA OrderBegins ==
  ASSUME Inner, Order, use.serial, NEW c \in Callers, NEW p, NEW a, Calls(c, a, p),
         UNCHANGED <<daemon, program>>, Serves(pc[c], arg[c])'
  PROVE  Order'
<1>1. Others(c) /\ pc[c] = "idle"
  BY OthersWait DEF Calls, Goes, Idle
<1>2. \A i, o : ~Arriving(pc[c], arg[c], i, o)
  BY <1>1 DEF Arriving, Listing
<1>3. UNCHANGED <<hid, seen, nets, joined, ctr>>
  BY DEF daemon, program
<1> QED BY <1>1, <1>2, <1>3, OrderGoes DEF Inside, Running

LEMMA OrderReturns ==
  ASSUME Inner, Order, NEW c \in Callers, pc[c] # "idle", Returns(c), UNCHANGED <<hid, seen, nets>>, Shrinks,
         \A o \in Objects : Arriving(pc[c], arg[c], arg[c].id, o) => arg[c].id \notin Running'
  PROVE  Order'
<1>1. Others(c) /\ pc'[c] = "idle" /\ arg'[c] = NoArg
  BY OthersWait DEF Returns, Goes
<1>2. Serves(pc[c], arg[c])'
  BY <1>1 DEF Serves, NoArg, Changes
<1>3. \A i \in Running', o \in Objects : hid[o] \in joined'[i] =>
        i \in Inside(hid[o]) /\ ~Arriving(pc[c], arg[c], i, o)
  BY DEF Shrinks, Inside, Arriving, Running
<1> QED BY <1>1, <1>2, <1>3, OrderGoes DEF Shrinks

(* A call of the operation is answered and another one follows.            *)
LEMMA OrderContinues ==
  ASSUME Inner, Order, NEW c \in Callers, pc[c] # "idle", NEW p, NEW a, Goes(c, p, a),
         UNCHANGED <<hid, seen, nets>>, Shrinks, Serves(pc[c], arg[c])',
         \A i, o : Arriving(pc[c], arg[c], i, o) => Arriving(pc[c], arg[c], i, o)'
  PROVE  Order'
<1>1. Others(c)
  BY OthersWait
<1>2. \A i \in Running', o \in Objects : hid[o] \in joined'[i] => i \in Inside(hid[o])
  BY DEF Shrinks, Inside, Running
<1> QED BY <1>1, <1>2, OrderGoes DEF Shrinks

LEMMA NothingShrinks == ASSUME UNCHANGED daemon PROVE Shrinks /\ UNCHANGED nets
BY DEF Shrinks, daemon, Running

LEMMA SomethingShrinks ==
  ASSUME Inner, NEW i \in Cids, Removed(i) \/ (i \in Running /\ Exited(i))
  PROVE  Shrinks /\ UNCHANGED nets
BY DEF Inner, DaemonType, Shrinks, Removed, Exited, Running

LEMMA OrderPanics == ASSUME Inner, Order, Panics PROVE Order'
BY OrderStays, NothingShrinks DEF Panics

---------------------------------------------------------------------------
(* The steps.                                                              *)

LEMMA RunOrder ==
  ASSUME Inner, Order, Turns, faults' = 0, NEW c \in Callers,
         RunWithOptions(c) \/ InspectImage(c) \/ PullImage(c) \/ CreateContainer(c) \/ StartContainer(c)
  PROVE  Order'
<1>0. ~Fault /\ arg[c] \in Args /\ Fits(pc[c], arg[c]) /\ Serves(pc[c], arg[c])
  BY Quiet, LocalsOf DEF Order
<1>1. CASE RunWithOptions(c) /\ Panics
  BY <1>1, OrderPanics
<1>2. CASE RunWithOptions(c) /\ ~Panics
  <2>1. PICK name \in Names \cup {Anonymous}, o \in {None} \cup {p \in Objects : hid[p] # None} :
          /\ Calls(c, [NoArg EXCEPT !.op = "run", !.name = name, !.obj = o,
                                    !.join = {hid[p] : p \in {o} \ {None}}], "InspectImage")
          /\ UNCHANGED <<daemon, program, expiry, faults>>
    <3>1. PICK name \in Names \cup {Anonymous}, o \in {None} \cup {p \in Objects : hid[p] # None},
               byID \in SUBSET {hid[p] : p \in Objects} :
            /\ byID \subseteq (IF use.networkID THEN Nids ELSE {})
            /\ Calls(c, [NoArg EXCEPT !.op = "run", !.name = name, !.obj = o,
                                      !.join = byID \cup {hid[p] : p \in {o} \ {None}}], "InspectImage")
            /\ UNCHANGED <<daemon, program, expiry, faults>>
      BY <1>2 DEF RunWithOptions
    <3>2. byID \cup {hid[p] : p \in {o} \ {None}} = {hid[p] : p \in {o} \ {None}}
      BY <3>1 DEF Turns
    <3> QED BY <3>1, <3>2
  <2> DEFINE a == [NoArg EXCEPT !.op = "run", !.name = name, !.obj = o,
                                !.join = {hid[p] : p \in {o} \ {None}}]
  <2>2. a.op = "run" /\ a.obj = o /\ a.join = {hid[p] : p \in {o} \ {None}}
    BY DEF NoArg
  <2>3. Calls(c, a, "InspectImage")
    BY <2>1
  <2> HIDE DEF a
  <2>4. arg'[c] = a /\ pc'[c] = "InspectImage" /\ UNCHANGED hid
    BY <2>1, <2>3 DEF Calls, program, Inner, CallersType
  <2>5. Serves(pc[c], arg[c])'
    BY <2>2, <2>4 DEF Serves, Joins, Changes
  <2> QED BY <2>1, <2>3, <2>5, OrderBegins DEF Turns
<1>3. CASE InspectImage(c) \/ PullImage(c)
  <2>1. pc[c] \in {"InspectImage", "PullImage"} /\ UNCHANGED <<hid, seen, nets>> /\ Shrinks
    BY <1>3 DEF InspectImage, PullImage, At, program, daemon, Shrinks, Running
  <2>2. PICK p \in {"CreateContainer", "PullImage"} : Goes(c, p, arg[c])
    BY <1>0, <1>3 DEF InspectImage, PullImage, Then, Goes, Inner, CallersType
  <2>3. pc'[c] = p /\ arg'[c] = arg[c]
    BY <2>1, <2>2, OthersWait
  <2>4. Serves(pc[c], arg[c])'
    BY <1>0, <2>1, <2>3 DEF Serves, Joins, Changes
  <2> QED BY <2>1, <2>2, <2>4, OrderContinues DEF Arriving, Listing
<1>4. CASE CreateContainer(c)
  <2>1. pc[c] = "CreateContainer" /\ UNCHANGED <<hid, seen>>
    BY <1>4 DEF CreateContainer, At, program
  <2>2. CASE Unhandled /\ Returns(c)
    BY <2>1, <2>2, NothingShrinks, OrderReturns DEF Unhandled, Arriving, Listing
  <2>3. CASE \E i \in Cids : Created(i, arg[c]) /\ Then(c, "StartContainer") /\ arg' = [arg EXCEPT ![c].id = i]
    <3>1. PICK i \in Cids : Created(i, arg[c]) /\ Then(c, "StartContainer") /\ arg' = [arg EXCEPT ![c].id = i]
      BY <2>3
    <3>2. /\ UNCHANGED nets /\ ctr' = [ctr EXCEPT ![i] = "created"] /\ joined' = [joined EXCEPT ![i] = arg[c].join]
      BY <3>1 DEF Created
    <3> DEFINE a == [arg[c] EXCEPT !.id = i]
    <3>3. Goes(c, "StartContainer", a) /\ a.id = i /\ a.obj = arg[c].obj /\ a.op = arg[c].op
      BY <1>0, <3>1 DEF Goes, Then, Args
    <3> HIDE DEF a
    <3>4. Others(c) /\ pc'[c] = "StartContainer" /\ arg'[c] = a
      BY <2>1, <3>3, OthersWait
    <3>5. arg[c].join = Joins(arg[c]) /\ arg[c].join \subseteq Nids /\ arg[c].op # "rmnet"
      BY <1>0, <2>1 DEF Serves, Args
    <3>6. joined'[i] = Joins(arg[c]) /\ \A j \in Cids \ {i} : joined'[j] = joined[j]
      BY <3>2, <3>5 DEF Inner, DaemonType
    <3>7. Serves(pc[c], arg[c])'
      BY <2>1, <3>3, <3>4, <3>5, <3>6 DEF Serves, Joins, Changes
    <3>8. \A j \in Running' : j \in Running /\ joined'[j] = joined[j]
      BY <3>2 DEF Running, Inner, DaemonType
    <3>9. \A n \in Joins(arg[c]) : nets[n] # "none"
      BY <1>0, <3>5 DEF Order, Joins, Args
    <3>10. \A j \in Cids : \A n \in joined'[j] : n \in joined[j] \/ nets[n] # "none"
      BY <3>6, <3>9
    <3>11. \A j \in Running', o \in Objects :
             hid[o] \in joined'[j] => j \in Inside(hid[o]) /\ ~Arriving(pc[c], arg[c], j, o)
      BY <2>1, <3>8 DEF Inside, Arriving, Listing
    <3> QED BY <2>1, <3>2, <3>4, <3>7, <3>10, <3>11, OrderGoes
  <2> QED BY <1>0, <1>4, <2>2, <2>3 DEF CreateContainer
<1>5. CASE StartContainer(c)
  <2>1. pc[c] = "StartContainer" /\ UNCHANGED <<hid, seen>> /\ arg[c].id \in Cids
    BY <1>0, <1>5 DEF StartContainer, At, program, Fits, NeedsId
  <2>2. CASE Unhandled /\ Returns(c)
    BY <2>1, <2>2, NothingShrinks, OrderReturns DEF Unhandled, Arriving, Listing
  <2>3. CASE Started(arg[c].id) /\ Then(c, "InspectContainer") /\ UNCHANGED arg
    <3>1. Goes(c, "InspectContainer", arg[c])
      BY <2>3 DEF Goes, Then, Inner, CallersType
    <3>2. Others(c) /\ pc'[c] = "InspectContainer" /\ arg'[c] = arg[c]
      BY <2>1, <3>1, OthersWait
    <3>3. Serves(pc[c], arg[c])'
      BY <1>0, <2>1, <3>2 DEF Serves, Changes
    <3>4. UNCHANGED <<joined, nets>> /\ \A j \in Running' : j = arg[c].id \/ j \in Running
      BY <2>3 DEF Started, Running, Inner, DaemonType
    <3>5. ASSUME NEW j \in Running', NEW o \in Objects, hid[o] \in joined'[j], Sole(o)
          PROVE  \/ Arriving(pc[c], arg[c], j, o)'
                 \/ j \in Inside(hid[o]) /\ ~Arriving(pc[c], arg[c], j, o)
      <4>1. CASE j = arg[c].id
        <5>1. hid[o] \in Joins(arg[c])
          BY <1>0, <2>1, <3>4, <3>5, <4>1 DEF Serves
        <5>2. arg[c].obj = o
          BY <1>0, <3>5, <5>1 DEF Joins, Sole, Args
        <5> QED BY <3>2, <4>1, <5>2 DEF Arriving, Listing
      <4>2. CASE j # arg[c].id
        BY <2>1, <3>4, <3>5, <4>2 DEF Inside, Arriving, Listing
      <4> QED BY <4>1, <4>2
    <3> QED BY <2>1, <3>2, <3>3, <3>4, <3>5, OrderGoes
  <2> QED BY <1>0, <1>5, <2>2, <2>3 DEF StartContainer
<1> QED BY <1>1, <1>2, <1>3, <1>4, <1>5

LEMMA InspectOrder ==
  ASSUME Inner, Order, Turns, faults' = 0, NEW c \in Callers, InspectContainer(c)
  PROVE  Order'
<1>1. ~Fault /\ arg[c] \in Args /\ Serves(pc[c], arg[c]) /\ pc[c] = "InspectContainer"
  BY Quiet, LocalsOf DEF Order, InspectContainer, At
<1>2. UNCHANGED <<hid, seen, nets>> /\ Shrinks /\ Live' = Live
  BY NothingShrinks DEF InspectContainer, RunReturns, RefreshContainer, daemon, Live
<1>3. CASE arg[c].obj = None /\ RunReturns(c)
  <2>1. \A i, o : Arriving(pc[c], arg[c], i, o) => o = None
    BY <1>3 DEF Arriving
  <2> QED BY <1>1, <1>2, <1>3, <2>1, OrderReturns, PoolBounds DEF RunReturns
<1>4. CASE Then(c, "NetworkInfo") /\ UNCHANGED arg
  <2>1. Goes(c, "NetworkInfo", arg[c])
    BY <1>4 DEF Goes, Then, Inner, CallersType
  <2>2. pc'[c] = "NetworkInfo" /\ arg'[c] = arg[c]
    BY <1>1, <2>1, OthersWait
  <2>3. Serves(pc[c], arg[c])'
    BY <1>1, <2>2 DEF Serves, Changes
  <2> QED BY <1>1, <1>2, <2>1, <2>2, <2>3, OrderContinues DEF Arriving, Listing
<1>5. CASE arg[c].id \notin Live /\ Returns(c)
  BY <1>1, <1>2, <1>5, OrderReturns DEF Live, Running
<1> QED BY <1>1, <1>3, <1>4, <1>5 DEF InspectContainer

LEMMA NetworkOrder ==
  ASSUME Inner, Order, Turns, faults' = 0, NEW c \in Callers, NetworkInfo(c)
  PROVE  Order'
<1>1. ~Fault /\ arg[c] \in Args /\ Serves(pc[c], arg[c]) /\ pc[c] = "NetworkInfo"
  BY Quiet, LocalsOf DEF Order, NetworkInfo, At
<1>2. CASE Panics
  BY <1>2, OrderPanics
<1>3. CASE ~Panics
  <2> DEFINE n == hid[arg[c].obj]
             found == [arg[c] EXCEPT !.info = Inside(n), !.join = {n}]
             lost  == [arg[c] EXCEPT !.join = {}]
  <2>1. /\ Then(c, "RefreshNetwork") /\ UNCHANGED <<daemon, program>>
        /\ \/ arg' = [arg EXCEPT ![c] = found]
           \/ n \notin Present /\ arg' = [arg EXCEPT ![c] = lost]
    BY <1>1, <1>3 DEF NetworkInfo
  <2>2. /\ found.id = arg[c].id /\ found.obj = arg[c].obj /\ found.op = arg[c].op
        /\ found.info = Inside(n) /\ found.join = {n}
        /\ lost.id = arg[c].id /\ lost.obj = arg[c].obj /\ lost.op = arg[c].op /\ lost.join = {}
    BY <1>1 DEF Args
  <2>3. PICK a : /\ Goes(c, "RefreshNetwork", a)
                 /\ a.id = arg[c].id /\ a.obj = arg[c].obj /\ a.op = arg[c].op
                 /\ \/ a.info = Inside(n) /\ a.join = {n}
                    \/ a.join = {} /\ n \notin Present
    <3> HIDE DEF found, lost, n
    <3> QED BY <2>1, <2>2 DEF Goes, Then
  <2>4. pc'[c] = "RefreshNetwork" /\ arg'[c] = a
    BY <1>1, <2>3, OthersWait
  <2>5. UNCHANGED <<hid, seen, nets, joined>> /\ Running' = Running /\ Present' = Present
    BY <2>1 DEF daemon, program, Running, Present
  <2>6. Serves(pc[c], arg[c])'
    <3>1. hid'[arg'[c].obj] = hid[arg[c].obj] /\ arg'[c].op # "rmnet"
      BY <1>1, <2>3, <2>4, <2>5 DEF Serves
    <3>2. \/ arg'[c].join = {hid'[arg'[c].obj]} /\ Inside(hid[arg[c].obj])' = arg'[c].info
          \/ arg'[c].join = {} /\ hid'[arg'[c].obj] \notin Present'
      BY <2>3, <2>4, <2>5, <3>1 DEF Inside
    <3> QED BY <2>4, <3>1, <3>2 DEF Serves, Changes
  <2> QED BY <1>1, <2>1, <2>3, <2>4, <2>5, <2>6, NothingShrinks, OrderContinues DEF Arriving, Listing
<1> QED BY <1>2, <1>3

LEMMA RefreshOrder ==
  ASSUME Inner, Order, Turns, faults' = 0, NEW c \in Callers, RefreshNetwork(c)
  PROVE  Order'
<1> DEFINE q == arg[c].obj
<1>1. /\ arg[c] \in Args /\ Serves(pc[c], arg[c]) /\ pc[c] = "RefreshNetwork" /\ q \in Objects
      /\ UNCHANGED <<nets, joined, ctr>> /\ Returns(c)
  BY LocalsOf DEF Order, RefreshNetwork, At, Fits, NeedsObj, daemon
<1>2. Others(c) /\ pc'[c] = "idle" /\ arg'[c] = NoArg
  BY <1>1, OthersWait DEF Returns, Goes
<1>3. Present' = Present /\ \A n : Inside(n)' = Inside(n)
  BY <1>1 DEF Present, Inside, Running
<1>4. \A d \in Callers : Serves(pc[d], arg[d])'
  BY <1>2 DEF Others, Order, Serves, NoArg, Changes
<1>5. \A d, e \in Callers : pc'[d] # "idle" /\ pc'[e] # "idle" => d = e
  BY <1>2 DEF Others
<1>6. /\ hid \in [Objects -> Nids \cup {None, Nil}] /\ DOMAIN seen = Objects
      /\ \A o \in Objects : hid[o] \in Present => hid[o] \in Nids
  BY DEF Inner, ProgramType, Present
<1>7. ASSUME NEW o \in Objects \ {q}, Listed(o) PROVE \A i \in Inside(hid[o]) :
        hid[o] \in Present /\ Sole(o) => i \in seen[o]
  BY <1>1, <1>2, <1>7 DEF Listed, Others, Arriving, Listing
<1>8. CASE arg[c].join = {}
  <2>1. hid' = [hid EXCEPT ![q] = Nil] /\ seen' = [seen EXCEPT ![q] = {}] /\ hid[q] \notin Present
    BY <1>1, <1>8 DEF RefreshNetwork, Serves
  <2>2. /\ hid'[q] = Nil
        /\ \A o \in Objects \ {q} : hid'[o] = hid[o] /\ seen'[o] = seen[o]
    <3> HIDE DEF q
    <3> QED BY <1>1, <1>6, <2>1
  <2>3. \A o \in Objects : hid'[o] \in Nids => nets'[hid'[o]] # "none"
    BY <1>1, <2>2, Ids DEF Order
  <2>4. \A n \in Present' : \E o \in Objects : hid'[o] = n
    BY <1>3, <2>1, <2>2 DEF Order
  <2>5. ASSUME NEW o \in Objects PROVE Listed(o)'
    <3>1. CASE o = q
      BY <1>3, <2>2, <3>1, Ids DEF Listed, Present
    <3>2. CASE o # q
      <4> SUFFICES ASSUME hid[o] \in Present, Sole(o)', NEW i \in Inside(hid[o])
                   PROVE  i \in seen[o]
        BY <1>3, <2>2, <3>2 DEF Listed
      <4>1. Sole(o)
        BY <2>1, <2>2, <3>2 DEF Sole
      <4> QED BY <1>7, <3>2, <4>1 DEF Order
    <3> QED BY <3>1, <3>2
  <2> QED BY <1>1, <1>4, <1>5, <2>3, <2>4, <2>5 DEF Order
<1>9. CASE arg[c].join # {}
  <2>1. arg[c].join = {hid[q]} /\ Inside(hid[q]) \subseteq arg[c].info
    BY <1>1, <1>9 DEF Serves
  <2>2. hid' = hid /\ seen' = [seen EXCEPT ![q] = arg[c].info]
    BY <1>1, <1>6, <1>9, <2>1 DEF RefreshNetwork
  <2>3. ASSUME NEW o \in Objects PROVE Listed(o)'
    <3>1. CASE o = q
      BY <1>3, <1>6, <2>1, <2>2, <3>1 DEF Listed
    <3>2. CASE o # q
      <4>1. \A i \in Inside(hid[o]) : hid[o] \in Present /\ Sole(o) => i \in seen'[o]
        BY <1>6, <1>7, <2>2, <3>2 DEF Order
      <4> QED BY <1>3, <2>2, <4>1 DEF Listed, Sole
    <3> QED BY <3>1, <3>2
  <2> QED BY <1>1, <1>3, <1>4, <1>5, <2>2, <2>3 DEF Order
<1> QED BY <1>8, <1>9

LEMMA ChangeOrder ==
  ASSUME Inner, Order, Turns, faults' = 0, NEW c \in Callers,
         ConnectToNetwork(c) \/ DisconnectFromNetwork(c) \/ ChangeNetworkCall(c)
  PROVE  Order'
<1>1. ASSUME NEW op \in Changes, ChangeNetwork(c, op) PROVE Order'
  <2>1. CASE Panics
    BY <2>1, OrderPanics
  <2>2. CASE ~Panics
    <3>1. PICK o \in Objects :
            /\ Calls(c, [NoArg EXCEPT !.op = op, !.obj = o, !.id = res[c], !.join = {hid[o]}], op)
            /\ UNCHANGED <<daemon, program, expiry, faults>>
      BY <1>1, <2>2 DEF ChangeNetwork
    <3> DEFINE a == [NoArg EXCEPT !.op = op, !.obj = o, !.id = res[c], !.join = {hid[o]}]
    <3>2. a.op = op /\ a.obj = o /\ a.join = {hid[o]} /\ Calls(c, a, op)
      BY <3>1 DEF NoArg
    <3> HIDE DEF a
    <3>3. arg'[c] = a /\ pc'[c] = op /\ UNCHANGED hid
      BY <3>1, <3>2 DEF Calls, program, Inner, CallersType
    <3>4. Joins(a) = {hid[o]}
      BY <3>2, PoolBounds DEF Joins
    <3>5. Serves(pc[c], arg[c])'
      BY <3>2, <3>3, <3>4 DEF Serves, Joins, Changes
    <3> QED BY <3>1, <3>2, <3>5, OrderBegins DEF Turns
  <2> QED BY <2>1, <2>2
<1>2. CASE ChangeNetworkCall(c)
  <2>1. /\ ~Fault /\ arg[c] \in Args /\ Serves(pc[c], arg[c]) /\ pc[c] = arg[c].op /\ pc[c] \in Changes
        /\ UNCHANGED <<hid, seen>> /\ arg[c].id \in Cids /\ arg[c].obj \in Objects
        /\ arg[c].join = {hid[arg[c].obj]}
    <3>1. arg[c] \in Args /\ Serves(pc[c], arg[c]) /\ Fits(pc[c], arg[c]) /\ pc[c] = arg[c].op /\ pc[c] \in Changes
      BY <1>2, LocalsOf DEF Order, ChangeNetworkCall, At, Changes
    <3>2. arg[c].id \in Cids /\ arg[c].obj \in Objects
      BY <3>1 DEF Fits, NeedsId, NeedsObj, Changes
    <3>3. arg[c].join = {hid[arg[c].obj]}
      BY <3>1, <3>2, PoolBounds DEF Serves, Joins
    <3> QED BY <1>2, <3>1, <3>2, <3>3, Quiet DEF ChangeNetworkCall, program
  <2>2. CASE Unhandled /\ Returns(c)
    BY <2>1, <2>2, NothingShrinks, OrderReturns DEF Unhandled, Arriving, Listing, Changes
  <2>3. ASSUME NEW to, Rejoined(arg[c].id, to), to \subseteq joined[arg[c].id] \cup arg[c].join,
               arg[c].join \subseteq Present, Then(c, "InspectContainer"), UNCHANGED arg
        PROVE  Order'
    <3>1. Goes(c, "InspectContainer", arg[c])
      BY <2>3 DEF Goes, Then, Inner, CallersType
    <3>2. Others(c) /\ pc'[c] = "InspectContainer" /\ arg'[c] = arg[c]
      BY <2>1, <3>1, OthersWait DEF Changes
    <3>3. Serves(pc[c], arg[c])'
      BY <2>1, <3>2 DEF Serves, Changes
    <3>4. /\ UNCHANGED nets /\ Running' = Running
          /\ joined'[arg[c].id] = to /\ \A j \in Cids \ {arg[c].id} : joined'[j] = joined[j]
      BY <2>1, <2>3 DEF Rejoined, Running, Inner, DaemonType
    <3>5. \A j \in Cids : \A n \in joined'[j] : n \in joined[j] \/ nets[n] # "none"
      BY <2>3, <3>4 DEF Present
    <3>6. ASSUME NEW j \in Running', NEW o \in Objects, hid[o] \in joined'[j], Sole(o)
          PROVE  \/ Arriving(pc[c], arg[c], j, o)'
                 \/ j \in Inside(hid[o]) /\ ~Arriving(pc[c], arg[c], j, o)
      <4>1. ~Arriving(pc[c], arg[c], j, o)
        BY <2>1 DEF Arriving, Listing, Changes
      <4>2. CASE hid[o] \in joined[j]
        BY <3>4, <4>1, <4>2 DEF Inside
      <4>3. CASE hid[o] \notin joined[j]
        <5>1. j = arg[c].id /\ hid[o] = hid[arg[c].obj]
          BY <2>1, <2>3, <3>4, <3>6, <4>3 DEF Running
        <5>2. arg[c].obj = o
          BY <2>1, <3>6, <5>1 DEF Sole
        <5> QED BY <3>2, <5>1, <5>2 DEF Arriving, Listing
      <4> QED BY <4>2, <4>3
    <3> QED BY <2>1, <3>2, <3>3, <3>4, <3>5, <3>6, OrderGoes
  <2> DEFINE to == IF arg[c].op = "ConnectNetwork" THEN joined[arg[c].id] \cup arg[c].join
                   ELSE joined[arg[c].id] \ arg[c].join
  <2>4. \/ Unhandled /\ Returns(c)
        \/ /\ Rejoined(arg[c].id, to) /\ arg[c].join \subseteq Present
           /\ Then(c, "InspectContainer") /\ UNCHANGED arg
    <3> HIDE DEF to
    <3> SUFFICES ASSUME ~(Unhandled /\ Returns(c))
                 PROVE  /\ Rejoined(arg[c].id, to) /\ arg[c].join \subseteq Present
                        /\ Then(c, "InspectContainer") /\ UNCHANGED arg
      OBVIOUS
    <3> QED BY <1>2, <2>1 DEF ChangeNetworkCall, to
  <2>5. to \subseteq joined[arg[c].id] \cup arg[c].join
    OBVIOUS
  <2> HIDE DEF to
  <2> QED BY <2>2, <2>3, <2>4, <2>5
<1> QED BY <1>1, <1>2 DEF ConnectToNetwork, DisconnectFromNetwork, Changes

LEMMA PurgeOrder ==
  ASSUME Inner, Order, Turns, faults' = 0, NEW c \in Callers,
         Purge(c) \/ RemoveContainer(c) \/ Expire(c) \/ StopContainer(c)
  PROVE  Order'
<1>1. CASE Panics
  BY <1>1, OrderPanics
<1>2. CASE Purge(c) /\ ~Panics
  <2> DEFINE a == [NoArg EXCEPT !.op = "purge", !.id = res[c]]
  <2>1. a.op = "purge" /\ Calls(c, a, "RemoveContainer") /\ UNCHANGED <<daemon, program>>
    BY <1>2 DEF Purge, NoArg
  <2> HIDE DEF a
  <2>2. arg'[c] = a /\ pc'[c] = "RemoveContainer"
    BY <2>1 DEF Calls, Inner, CallersType
  <2>3. Serves(pc[c], arg[c])'
    BY <2>1, <2>2 DEF Serves, Changes
  <2> QED BY <2>1, <2>3, OrderBegins DEF Turns
<1>3. CASE RemoveContainer(c)
  <2>1. pc[c] = "RemoveContainer" /\ arg[c].id \in Cids /\ Returns(c) /\ UNCHANGED <<hid, seen>>
    BY <1>3, LocalsOf DEF RemoveContainer, At, Fits, NeedsId, program
  <2>2. Shrinks /\ UNCHANGED nets
    BY <1>3, <2>1, NothingShrinks, SomethingShrinks DEF RemoveContainer, Unhandled
  <2> QED BY <2>1, <2>2, OrderReturns DEF Arriving, Listing
<1>4. CASE Expire(c)
  BY <1>4, NothingShrinks, OrderStays DEF Expire, program
<1>5. CASE StopContainer(c) /\ ~Panics
  <2>1. UNCHANGED <<pc, arg, hid, seen>>
    BY <1>5 DEF StopContainer, program
  <2>2. Unhandled \/ (res[c] \in Running /\ Exited(res[c]))
    BY <1>5 DEF StopContainer
  <2>3. Shrinks /\ UNCHANGED nets
    BY <2>2, NothingShrinks, SomethingShrinks DEF Unhandled, Running
  <2> QED BY <2>1, <2>3, OrderStays
<1> QED BY <1>1, <1>2, <1>3, <1>4, <1>5

LEMMA NameOrder ==
  ASSUME Inner, Order, Turns, faults' = 0, NEW c \in Callers,
         ContainerByName(c) \/ RemoveContainerByName(c) \/ ListContainers(c) \/ InspectByName(c)
  PROVE  Order'
<1>1. ASSUME NEW op \in {"find", "remove"}, ByName(c, op) PROVE Order'
  <2>1. PICK name \in Names :
          /\ Calls(c, [NoArg EXCEPT !.op = op, !.name = name], "ListContainers")
          /\ UNCHANGED <<daemon, program>>
    BY <1>1 DEF ByName
  <2> DEFINE a == [NoArg EXCEPT !.op = op, !.name = name]
  <2>2. a.op = op /\ Calls(c, a, "ListContainers")
    BY <2>1 DEF NoArg
  <2> HIDE DEF a
  <2>3. arg'[c] = a /\ pc'[c] = "ListContainers"
    BY <2>2 DEF Calls, Inner, CallersType
  <2>4. Serves(pc[c], arg[c])'
    BY <2>2, <2>3 DEF Serves, Changes
  <2> QED BY <2>1, <2>2, <2>4, OrderBegins DEF Turns
<1>2. CASE ListContainers(c)
  <2>1. /\ pc[c] = "ListContainers" /\ UNCHANGED <<hid, seen, nets>> /\ Shrinks
        /\ arg[c] \in Args /\ Serves(pc[c], arg[c]) /\ \A i, o : ~Arriving(pc[c], arg[c], i, o)
    BY <1>2, LocalsOf, NothingShrinks DEF ListContainers, At, program, Order, Arriving, Listing
  <2>2. ASSUME NEW i \in Cids, NEW p \in {"InspectByName", "RemoveContainer"}, Then(c, p),
               arg' = [arg EXCEPT ![c].id = i]
        PROVE  Order'
    <3> DEFINE a == [arg[c] EXCEPT !.id = i]
    <3>1. Goes(c, p, a) /\ a.op = arg[c].op
      BY <2>1, <2>2 DEF Goes, Then, Args
    <3> HIDE DEF a
    <3>2. pc'[c] = p /\ arg'[c] = a
      BY <2>1, <3>1, OthersWait
    <3>3. Serves(pc[c], arg[c])'
      BY <2>1, <3>1, <3>2 DEF Serves, Changes
    <3> QED BY <2>1, <3>1, <3>3, OrderContinues
  <2>3. CASE Returns(c)
    BY <2>1, <2>3, OrderReturns
  <2> QED BY <1>2, <2>2, <2>3 DEF ListContainers, Live
<1>3. CASE InspectByName(c)
  BY <1>3, NothingShrinks, OrderReturns DEF InspectByName, At, Arriving, Listing
<1> QED BY <1>1, <1>2, <1>3 DEF ContainerByName, RemoveContainerByName

LEMMA ObjectOrder ==
  ASSUME Inner, Order, Turns, faults' = 0, NEW c \in Callers, CreateNetwork(c) \/ NetworksByName(c)
  PROVE  Order'
<1>1. PICK o \in Objects, n \in Nids, in \in SUBSET Cids :
        /\ NewObject(c, o, n, in) /\ UNCHANGED <<ctr, joined>>
        /\ \/ nets[n] = "none" /\ nets' = [nets EXCEPT ![n] = "present"]
           \/ n \in Present /\ UNCHANGED nets
  <2>1. CASE CreateNetwork(c)
    BY <2>1, Quiet DEF CreateNetwork
  <2>2. CASE NetworksByName(c)
    BY <2>2 DEF NetworksByName, daemon, Present, Inside, Running
  <2> QED BY <2>1, <2>2
<1>2. \A d \in Callers : pc[d] = "idle"
  BY <1>1 DEF NewObject, Idle, Turns
<1>3. /\ UNCHANGED <<pc, arg>>
      /\ hid[o] = None /\ hid'[o] = n /\ \A p \in Objects \ {o} : hid'[p] = hid[p] /\ seen'[p] = seen[p]
  BY <1>1 DEF NewObject, Inner, ProgramType
<1>4. /\ \A m \in Nids \ {n} : nets'[m] = nets[m]
      /\ nets'[n] = "present" /\ \A m : Inside(m)' = Inside(m)
  BY <1>1 DEF Inner, DaemonType, Inside, Running, Present
<1>5. Present' = Present \cup {n}
  BY <1>4 DEF Present
<1>6. ASSUME NEW d \in Callers PROVE Serves(pc[d], arg[d])'
  <2>1. pc'[d] = "idle" /\ arg'[d] = arg[d] /\ arg[d].op # "rmnet"
    BY <1>2, <1>3 DEF Order, Serves
  <2> QED BY <2>1 DEF Serves, Changes
<1>7. \A p \in Objects : hid'[p] \in Nids => nets'[hid'[p]] # "none"
  BY <1>3, <1>4 DEF Order
<1>8. \A m \in Present' : \E p \in Objects : hid'[p] = m
  <2> SUFFICES ASSUME NEW m \in Present' PROVE \E p \in Objects : hid'[p] = m
    OBVIOUS
  <2>1. CASE m = n
    BY <1>3, <2>1
  <2>2. CASE m # n
    <3>1. PICK p \in Objects : hid[p] = m
      BY <1>5, <2>2 DEF Order
    <3>2. p # o
      BY <1>3, <1>5, <2>2, <3>1, Ids DEF Present
    <3> QED BY <1>3, <3>1, <3>2
  <2> QED BY <2>1, <2>2
<1>9. \A i \in Cids : \A m \in joined'[i] : nets'[m] # "none"
  BY <1>1, <1>4 DEF Order, Inner, DaemonType
<1>10. ASSUME NEW p \in Objects PROVE Listed(p)'
  <2>1. CASE p = o
    <3>1. CASE nets[n] = "none"
      BY <1>3, <1>4, <2>1, <3>1 DEF Listed, Order, Inside, Running
    <3>2. CASE n \in Present
      BY <1>3, <2>1, <3>2, Ids DEF Listed, Order, Sole, Present
    <3> QED BY <1>1, <3>1, <3>2
  <2>2. CASE p # o
    <3> SUFFICES ASSUME hid[p] \in Present', Sole(p)', NEW i \in Inside(hid[p]) PROVE i \in seen[p]
      BY <1>3, <1>4, <2>2 DEF Listed
    <3>1. hid[p] # n
      BY <1>3, <2>2 DEF Sole
    <3>2. hid[p] \in Present /\ Sole(p)
      BY <1>3, <1>5, <2>2, <3>1, Ids DEF Sole, Present
    <3> QED BY <1>2, <3>2 DEF Order, Listed, Arriving, Listing
  <2> QED BY <2>1, <2>2
<1> QED BY <1>2, <1>3, <1>6, <1>7, <1>8, <1>9, <1>10 DEF Order

(* The operation disconnects the containers that its object lists.         *)
LEMMA RemovalOrder ==
  ASSUME Inner, Order, Turns, faults' = 0, NEW c \in Callers, RemoveNetwork(c) \/ Disconnect(c)
  PROVE  Order'
<1>1. CASE Panics
  BY <1>1, OrderPanics
<1>2. CASE RemoveNetwork(c) /\ ~Panics
  <2>1. PICK o \in Objects :
          /\ Calls(c, [NoArg EXCEPT !.op = "rmnet", !.obj = o, !.info = seen[o]], "Disconnect")
          /\ UNCHANGED <<daemon, program, expiry, faults>>
    BY <1>2 DEF RemoveNetwork
  <2> DEFINE a == [NoArg EXCEPT !.op = "rmnet", !.obj = o, !.info = seen[o]]
  <2>2. a.op = "rmnet" /\ a.obj = o /\ a.info = seen[o] /\ Calls(c, a, "Disconnect")
    BY <2>1 DEF NoArg
  <2> HIDE DEF a
  <2>3. arg'[c] = a /\ pc'[c] = "Disconnect" /\ \A d \in Callers : pc[d] = "idle"
    BY <2>2 DEF Calls, Idle, Turns, Inner, CallersType
  <2>4. hid[o] \in Present /\ Sole(o) => Inside(hid[o]) \subseteq seen[o]
    BY <2>3 DEF Order, Listed, Arriving, Listing
  <2>5. hid' = hid /\ Present' = Present /\ \A n : Inside(n)' = Inside(n)
    BY <2>1 DEF program, daemon, Present, Inside, Running
  <2>6. Serves(pc[c], arg[c])'
    BY <2>2, <2>3, <2>4, <2>5 DEF Serves, Sole, Changes
  <2> QED BY <2>1, <2>2, <2>6, OrderBegins DEF Turns
<1>3. CASE Disconnect(c) /\ ~Panics
  <2>1. /\ pc[c] = "Disconnect" /\ arg[c] \in Args /\ Serves(pc[c], arg[c]) /\ ~Fault
        /\ UNCHANGED <<hid, seen, pc>>
    BY <1>3, LocalsOf, Quiet DEF Order, Disconnect, At, program
  <2>2. PICK i \in arg[c].info :
          /\ \/ i \in Live /\ Rejoined(i, joined[i] \ {hid[arg[c].obj]})
             \/ i \notin Live /\ Unhandled
          /\ arg' = [arg EXCEPT ![c].info = @ \ {i}]
    BY <1>3, <2>1 DEF Disconnect
  <2> DEFINE a == [arg[c] EXCEPT !.info = arg[c].info \ {i}]
  <2>3. a.op = arg[c].op /\ a.obj = arg[c].obj /\ a.info = arg[c].info \ {i} /\ i \in Cids
    BY <2>1 DEF Args
  <2>4. Goes(c, "Disconnect", a)
    BY <2>1, <2>2 DEF Goes, Inner, CallersType
  <2> HIDE DEF a
  <2>5. pc'[c] = "Disconnect" /\ arg'[c] = a
    BY <2>1, <2>4, OthersWait
  <2>6. /\ UNCHANGED <<nets, ctr>> /\ joined'[i] \subseteq joined[i]
        /\ \A j \in Cids \ {i} : joined'[j] = joined[j]
        /\ i \in Live => hid[arg[c].obj] \notin joined'[i]
    BY <2>2, <2>3 DEF Rejoined, Unhandled, daemon, Inner, DaemonType
  <2>7. Shrinks
    BY <2>6 DEF Shrinks, Running
  <2>8. \A n : n = hid[arg[c].obj] => Inside(n)' \subseteq Inside(n) \ {i}
    BY <2>1, <2>6 DEF Inside, Running, Live
  <2>9. hid[arg[c].obj] \in Present /\ Sole(arg[c].obj) => Inside(hid[arg[c].obj]) \subseteq arg[c].info
    BY <2>1 DEF Serves
  <2>10. Serves(pc[c], arg[c])'
    <3>1. /\ Present' = Present /\ (\A p : Sole(p)' <=> Sole(p))
          /\ arg'[c].obj = arg[c].obj /\ hid'[arg[c].obj] = hid[arg[c].obj]
      BY <2>1, <2>3, <2>5, <2>6 DEF Present, Sole
    <3>2. \A n : n = hid[arg[c].obj] /\ n \in Present /\ Sole(arg[c].obj) => Inside(n)' \subseteq arg'[c].info
      BY <2>3, <2>5, <2>8, <2>9
    <3>3. hid'[arg'[c].obj] \in Present' /\ Sole(arg[c].obj)' => Inside(hid[arg[c].obj])' \subseteq arg'[c].info
      BY <3>1, <3>2
    <3> QED BY <2>3, <2>5, <3>1, <3>3 DEF Serves, Changes
  <2> QED BY <2>1, <2>4, <2>6, <2>7, <2>10, OrderContinues DEF Arriving, Listing
<1> QED BY <1>1, <1>2, <1>3

(* Nothing is left in the network when it is removed.                      *)
LEMMA RemovalDone ==
  ASSUME Inner, Order, faults' = 0, NEW c \in Callers, RemoveNetworkCall(c), ~Panics,
         hid[arg[c].obj] \in Nids, Sole(arg[c].obj)
  PROVE  nets'[hid[arg[c].obj]] = "gone"
<1> DEFINE n == hid[arg[c].obj]
<1>1. /\ pc[c] = "Disconnect" /\ arg[c].info = {} /\ arg[c].obj \in Objects
      /\ Serves(pc[c], arg[c]) /\ ~Fault /\ n # Nil
  BY LocalsOf, Quiet, Ids DEF Order, RemoveNetworkCall, At, Fits, NeedsObj
<1>2. n \in Present => Inside(n) = {}
  BY <1>1 DEF Serves
<1>3. nets[n] \in {"present", "gone"}
  BY <1>1 DEF Order, Inner, DaemonType
<1>4. \/ nets' = [nets EXCEPT ![n] = "gone"]
      \/ n \notin Present /\ Unhandled
  BY <1>1, <1>2 DEF RemoveNetworkCall
<1> QED BY <1>3, <1>4 DEF Present, Unhandled, daemon, Inner, DaemonType

LEMMA DoneOrder ==
  ASSUME Inner, Order, Turns, faults' = 0, NEW c \in Callers, RemoveNetworkCall(c)
  PROVE  Order'
<1>1. CASE Panics
  BY <1>1, OrderPanics
<1>2. CASE ~Panics
  <2>1. /\ pc[c] = "Disconnect" /\ Returns(c) /\ UNCHANGED <<hid, seen>> /\ ~Fault
        /\ \/ Unhandled
           \/ \E n \in Nids : nets' = [nets EXCEPT ![n] = "gone"] /\ UNCHANGED <<ctr, joined>>
    BY <1>2, Quiet DEF RemoveNetworkCall, At, program, Present
  <2>2. CASE Unhandled
    BY <2>1, <2>2, NothingShrinks, OrderReturns DEF Unhandled, Arriving, Listing
  <2>3. CASE \E n \in Nids : nets' = [nets EXCEPT ![n] = "gone"] /\ UNCHANGED <<ctr, joined>>
    <3>1. Others(c) /\ pc'[c] = "idle" /\ arg'[c] = NoArg
      BY <2>1, OthersWait DEF Returns, Goes
    <3>2. \A d \in Callers : Serves(pc[d], arg[d])'
      BY <3>1 DEF Others, Order, Serves, NoArg, Changes
    <3>3. \A m \in Nids : nets'[m] = nets[m] \/ nets'[m] = "gone"
      BY <2>3 DEF Inner, DaemonType
    <3>4. Present' \subseteq Present /\ (\A p : Sole(p)' <=> Sole(p)) /\ \A m : Inside(m)' = Inside(m)
      BY <2>1, <2>3, <3>3 DEF Present, Sole, Inside, Running
    <3>5. ASSUME NEW o \in Objects PROVE Listed(o)'
      <4>1. \A d \in Callers : \A i : ~Arriving(pc[d], arg[d], i, o)
        BY <2>1, <3>1 DEF Others, Arriving, Listing
      <4> QED BY <2>1, <3>4, <4>1 DEF Listed, Order
    <3>6. \A o \in Objects : hid'[o] \in Nids => nets'[hid'[o]] # "none"
      BY <2>1, <3>3 DEF Order
    <3>7. \A i \in Cids : \A m \in joined'[i] : nets'[m] # "none"
      BY <2>3, <3>3 DEF Order, Inner, DaemonType
    <3>8. \A d, e \in Callers : pc'[d] # "idle" /\ pc'[e] # "idle" => d = e
      BY <3>1 DEF Others
    <3>9. \A m \in Present' : \E o \in Objects : hid'[o] = m
      BY <2>1, <3>4 DEF Order
    <3> QED BY <3>2, <3>5, <3>6, <3>7, <3>8, <3>9 DEF Order
  <2> QED BY <2>1, <2>2, <2>3
<1> QED BY <1>1, <1>2

---------------------------------------------------------------------------
LEMMA WayStays == ASSUME Inner, [Next]_vars PROVE Turns' => Turns /\ faults' = 0
<1> DEFINE Same == UNCHANGED use \/ Counted
<1>1. ASSUME NEW c \in Callers, RunWithOptions(c) \/ InspectImage(c) \/ PullImage(c) PROVE Same
  BY <1>1 DEF RunWithOptions, InspectImage, PullImage, Calls, Then, Returns, Panics
<1>2. ASSUME NEW c \in Callers, CreateContainer(c) \/ StartContainer(c) PROVE Same
  BY <1>2 DEF CreateContainer, StartContainer, Calls, Then, Returns, Panics
<1>3. ASSUME NEW c \in Callers, InspectContainer(c) \/ NetworkInfo(c) \/ RefreshNetwork(c)
      PROVE  Same
  BY <1>3 DEF InspectContainer, NetworkInfo, RefreshNetwork, RunReturns, Calls, Then, Returns,
       Panics
<1>4. ASSUME NEW c \in Callers, ConnectToNetwork(c) \/ DisconnectFromNetwork(c) \/ ChangeNetworkCall(c)
      PROVE  Same
  BY <1>4 DEF ConnectToNetwork, DisconnectFromNetwork, ChangeNetworkCall, ChangeNetwork, Calls,
       Then, Returns, Panics
<1>5. ASSUME NEW c \in Callers, Purge(c) \/ RemoveContainer(c) \/ Expire(c) \/ StopContainer(c)
      PROVE  Same
  BY <1>5 DEF Purge, RemoveContainer, Expire, StopContainer, Calls, Then, Returns, Panics
<1>6. ASSUME NEW c \in Callers, ContainerByName(c) \/ RemoveContainerByName(c) \/ ListContainers(c) \/ InspectByName(c)
      PROVE  Same
  BY <1>6 DEF ContainerByName, RemoveContainerByName, ListContainers, InspectByName, ByName, Calls,
       Then, Returns, Panics
<1>7. ASSUME NEW c \in Callers, CreateNetwork(c) \/ NetworksByName(c) PROVE Same
  BY <1>7 DEF CreateNetwork, NetworksByName, NewObject, Calls, Then, Returns, Panics
<1>8. ASSUME NEW c \in Callers, RemoveNetwork(c) \/ Disconnect(c) \/ RemoveNetworkCall(c) PROVE Same
  BY <1>8 DEF RemoveNetwork, Disconnect, RemoveNetworkCall, Calls, Then, Returns, Panics
<1>9. ContainerExits \/ UNCHANGED vars => Same
  BY DEF ContainerExits, vars
<1>10. Same
  BY <1>1, <1>2, <1>3, <1>4, <1>5, <1>6, <1>7, <1>8, <1>9 DEF Next
<1>11. use'.serial = use.serial /\ use'.networkID = use.networkID
  BY <1>10 DEF Counted, Inner, BoundsType, Use
<1>12. faults' = 0 => faults = 0
  BY StepsOnward DEF Onward, vars
<1> QED BY <1>11, <1>12 DEF Turns

Orderly == Turns => Order

LEMMA OrderlyInit == Init => Orderly
<1> SUFFICES ASSUME Init PROVE Order
  BY DEF Orderly
<1>1. \A c \in Callers : Serves(pc[c], arg[c])
  BY DEF Init, Serves, NoArg, Changes
<1>2. /\ \A o \in Objects : hid[o] \notin Nids
      /\ Present = {}
      /\ \A i \in Cids : joined[i] = {}
  BY Ids DEF Init, Present
<1>3. \A o \in Objects : Listed(o)
  BY <1>2 DEF Listed
<1> QED BY <1>1, <1>2, <1>3 DEF Order, Init

LEMMA OrderlyNext == Inner /\ Orderly /\ [Next]_vars => Orderly'
<1> SUFFICES ASSUME Inner, [Next]_vars, Turns, Order, faults' = 0 PROVE Order'
  BY WayStays DEF Orderly
<1>1. CASE UNCHANGED vars
  BY <1>1, NothingShrinks, OrderStays DEF vars, program
<1>2. ASSUME NEW c \in Callers, \/ RunWithOptions(c) \/ InspectImage(c) \/ PullImage(c)
                                \/ CreateContainer(c) \/ StartContainer(c)
      PROVE Order'
  BY <1>2, RunOrder
<1>3. ASSUME NEW c \in Callers, \/ InspectContainer(c) \/ NetworkInfo(c) \/ RefreshNetwork(c)
      PROVE Order'
  BY <1>3, InspectOrder, NetworkOrder, RefreshOrder
<1>4. ASSUME NEW c \in Callers, \/ ConnectToNetwork(c) \/ DisconnectFromNetwork(c) \/ ChangeNetworkCall(c)
                                \/ Purge(c) \/ RemoveContainer(c) \/ Expire(c) \/ StopContainer(c)
      PROVE Order'
  BY <1>4, ChangeOrder, PurgeOrder
<1>5. ASSUME NEW c \in Callers, \/ ContainerByName(c) \/ RemoveContainerByName(c)
                                \/ ListContainers(c) \/ InspectByName(c)
      PROVE Order'
  BY <1>5, NameOrder
<1>6. ASSUME NEW c \in Callers, \/ CreateNetwork(c) \/ NetworksByName(c) \/ RemoveNetwork(c)
                                \/ Disconnect(c) \/ RemoveNetworkCall(c)
      PROVE Order'
  BY <1>6, ObjectOrder, RemovalOrder, DoneOrder
<1>7. ContainerExits => Order'
  BY SomethingShrinks, OrderStays DEF ContainerExits, program, Running
<1> QED BY <1>1, <1>2, <1>3, <1>4, <1>5, <1>6, <1>7 DEF Next

(* A caller is in RemoveNetwork until RemoveNetworkCall.                   *)
LEMMA RemovalEnds ==
  ASSUME Inner, Order, Turns, Next, NEW c \in Callers, arg[c].op = "rmnet", pc'[c] = "idle"
  PROVE  RemoveNetworkCall(c) /\ ~Panics
<1>1. pc[c] = "Disconnect" /\ pc \in [Callers -> Places] /\ \A d \in Callers \ {c} : pc[d] = "idle"
  BY DEF Order, Serves, Inner, CallersType
<1>2. \A d \in Callers : ~Idle(d)
  BY <1>1 DEF Idle, Turns
<1>3. ~UNCHANGED pc /\ ~Panics
  BY <1>1 DEF Panics
<1>4. ASSUME NEW d \in Callers
      PROVE  /\ ~RunWithOptions(d) /\ ~InspectImage(d) /\ ~PullImage(d) /\ ~CreateContainer(d)
             /\ ~StartContainer(d) /\ ~InspectContainer(d) /\ ~NetworkInfo(d) /\ ~RefreshNetwork(d)
  BY <1>1, <1>2 DEF RunWithOptions, Calls, At, InspectImage, PullImage, CreateContainer, StartContainer,
       InspectContainer, NetworkInfo, RefreshNetwork
<1>5. ASSUME NEW d \in Callers
      PROVE  /\ ~ConnectToNetwork(d) /\ ~DisconnectFromNetwork(d) /\ ~ChangeNetworkCall(d)
             /\ ~Purge(d) /\ ~RemoveContainer(d) /\ ~Expire(d) /\ ~StopContainer(d)
  BY <1>1, <1>2, <1>3 DEF ConnectToNetwork, DisconnectFromNetwork, ChangeNetwork, Calls, At, ChangeNetworkCall,
       Purge, RemoveContainer, Expire, StopContainer
<1>6. ASSUME NEW d \in Callers
      PROVE  /\ ~ContainerByName(d) /\ ~RemoveContainerByName(d) /\ ~ListContainers(d) /\ ~InspectByName(d)
             /\ ~CreateNetwork(d) /\ ~NetworksByName(d) /\ ~RemoveNetwork(d) /\ ~Disconnect(d)
  BY <1>1, <1>2, <1>3 DEF ContainerByName, RemoveContainerByName, ByName, Calls, At, ListContainers,
       InspectByName, CreateNetwork, NetworksByName, NewObject, RemoveNetwork, Disconnect
<1>7. ~ContainerExits
  BY <1>3 DEF ContainerExits
<1>8. \A d \in Callers : RemoveNetworkCall(d) => d = c
  BY <1>1 DEF RemoveNetworkCall, At
<1> QED BY <1>3, <1>4, <1>5, <1>6, <1>7, <1>8 DEF Next

(* When callers take turns, no call is lost and a network is joined        *)
(* through its one object, RemoveNetwork removes it: the object lists      *)
(* every container that the daemon would keep the network for.             *)
THEOREM NetworkIsRemoved == Spec => RemoveNetworkRemoves
<1> DEFINE Gone(c) ==
             /\ use.serial /\ ~use.networkID
             /\ arg[c].op = "rmnet" /\ pc'[c] = "idle" /\ faults' = 0
             /\ hid[arg[c].obj] \in Nids /\ Sole(arg[c].obj)
             => nets'[hid[arg[c].obj]] = "gone"
<1>1. ASSUME Inner, Orderly, Next, NEW c \in Callers PROVE Gone(c)
  <2> SUFFICES ASSUME use.serial, ~use.networkID, arg[c].op = "rmnet", pc'[c] = "idle", faults' = 0,
                      hid[arg[c].obj] \in Nids, Sole(arg[c].obj)
               PROVE  nets'[hid[arg[c].obj]] = "gone"
    OBVIOUS
  <2>1. Turns /\ Order
    BY <1>1, StepsOnward DEF Onward, Turns, Orderly
  <2>2. RemoveNetworkCall(c) /\ ~Panics
    BY <1>1, <2>1, RemovalEnds
  <2> QED BY <1>1, <2>1, <2>2, RemovalDone
<1>2. Inner /\ Orderly /\ [Next]_vars => [\A c \in Callers : Gone(c)]_vars
  BY <1>1
<1> QED BY <1>2, InnerInit, InnerNext, OrderlyInit, OrderlyNext, PTL DEF Spec, RemoveNetworkRemoves
=============================================================================
