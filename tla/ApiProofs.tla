----------------------------- MODULE ApiProofs -----------------------------
(***************************************************************************)
(* Proofs about Api, for any number of goroutines, any strings in answers  *)
(* to /version and any bounds: the types and who holds the mutex, one      *)
(* version for all, what goes out fits it, and what a method returns was   *)
(* so at a moment of the call.                                             *)
(***************************************************************************)
EXTENDS Api, TLAPS

---------------------------------------------------------------------------
(* The records of Methods.  What the result of a method depends on, of its *)
(* record: neither how its context, its options nor its body are used.     *)

Fields ==
  {"on", "does", "errors", "unmodified", "via", "ctx", "empty", "first", "limit", "body", "eager"}
Is(p, on, does, errors, unmodified) ==
  /\ Fields \subseteq DOMAIN p
  /\ p.on = on /\ p.does = does /\ p.errors = errors /\ p.unmodified = unmodified
  /\ "nil" \notin p.empty

LEMMA IsOp == \A on, does, errors : Is(Op(on, does, errors), on, does, errors, "")
BY DEF Op, Is, Fields

LEMMA IsStill ==
  \A p, on, does, errors, u : Is(p, on, does, errors, u) =>
    /\ Is(NoContext(p), on, does, errors, u) /\ Is(Eager(p), on, does, errors, u)
    /\ Is(Closed(p), on, does, errors, u)
    /\ \A how : Is(Via(how, p), on, does, errors, u)
    /\ \A when, what : Is(Limited(when, what, p), on, does, errors, u)
    /\ \A err : err # "nil" => Is(Needs(err, p), on, does, errors, u)
    /\ \A err : Is(Unmodified(err, p), on, does, errors, err)
BY DEF NoContext, Eager, Closed, Via, Limited, Needs, Unmodified, Is, Fields

LEMMA IsStream == \A on, does : Is(Stream(on, does), on, does, {}, "")
BY IsOp, IsStill DEF Stream, NoErrors

LEMMA IsOnContainer ==
  \A does : Is(OnContainer(does), "container", does, NotFound("NoSuchContainer"), "")
BY IsOp DEF OnContainer

LEMMA IsOnImage == \A does : Is(OnImage(does), "image", does, NotFound("ErrNoSuchImage"), "")
BY IsOp DEF OnImage

(* The requests and the errors of the methods of each resource.            *)
Does ==
  [container |->
     {"create", "start", "stop", "kill", "restart", "pause", "unpause", "remove", "prune", "wait",
      "top", "list", "update", "rename", "inspect", "changes", "upload", "download", "copy", "commit",
      "attach", "logs", "resize", "export"},
   exec    |-> {"create", "start", "resize", "inspect"},
   image   |-> {"list", "inspect", "remove", "push", "pull", "load", "export", "import", "build", "tag",
                "search", "prune"},
   network |-> {"list", "inspect", "create", "remove", "connect", "disconnect", "prune"},
   volume  |-> {"list", "create", "inspect", "remove", "prune"},
   plugin  |-> {"list", "search", "create", "inspect", "remove", "enable", "disable", "push", "set"},
   system  |-> {"ping", "version", "info", "auth"}]
MayFail(on, does, s, e) ==
  \/ on = "container" /\ does # "create" /\ s = 404 /\ e = "NoSuchContainer"
  \/ on = "container" /\ does = "create" /\ s = 404 /\ e = "ErrNoSuchImage"
  \/ on = "container" /\ does = "create" /\ s \in {409, 4009} /\ e = "ErrContainerAlreadyExists"
  \/ on = "container" /\ does = "kill" /\ s = 409 /\ e = "ContainerNotRunning"
  \/ on = "exec" /\ s = 404 /\ e = IF does = "create" THEN "NoSuchContainer" ELSE "NoSuchExec"
  \/ on = "image" /\ s = 404 /\ e = "ErrNoSuchImage"
  \/ on = "network" /\ s = 404 /\ e \in {"NoSuchNetwork", "NoSuchNetworkOrContainer"}
  \/ on = "volume" /\ s = 404 /\ e = "ErrNoSuchVolume"
  \/ on = "volume" /\ does = "remove" /\ s = 409 /\ e = "ErrVolumeInUse"
  \/ on = "plugin" /\ s = 404 /\ e = "NoSuchPlugin"
Kind(on, does, errors, u) ==
  /\ on \in DOMAIN Does /\ does \in Does[on]
  /\ \A p \in errors : p = <<p[1], p[2]>> /\ MayFail(on, does, p[1], p[2])
  /\ on = "container" /\ does = "start" => u = "ContainerAlreadyRunning"
  /\ on = "container" /\ does = "stop"  => u = "ContainerNotRunning"
Like(o) == Kind(o.on, o.does, o.errors, o.unmodified) /\ "nil" \notin o.empty

LEMMA IsLike ==
  \A p, on, does, errors, u : Is(p, on, does, errors, u) /\ Kind(on, does, errors, u) => Like(p)
BY DEF Is, Like

(* A method without an error of its own, or with one for 404.              *)
LEMMA KindOfContainer ==
  \A does \in Does["container"] \ {"create", "start", "stop"} :
    Kind("container", does, NoErrors, "") /\ Kind("container", does, NotFound("NoSuchContainer"), "")
BY DEF Kind, Does, NoErrors, NotFound, MayFail

LEMMA KindOfCreateContainer ==
  Kind("container", "create", NotFound("ErrNoSuchImage") \cup ({409, 4009} \X {"ErrContainerAlreadyExists"}), "")
BY DEF Kind, Does, NotFound, MayFail

LEMMA KindOfKillContainer ==
  Kind("container", "kill", NotFound("NoSuchContainer") \cup {<<409, "ContainerNotRunning">>}, "")
BY DEF Kind, Does, NotFound, MayFail

LEMMA KindOfStart ==
  Kind("container", "start", NotFound("NoSuchContainer"), "ContainerAlreadyRunning")
BY DEF Kind, Does, NotFound, MayFail

LEMMA KindOfStop ==
  Kind("container", "stop", NotFound("NoSuchContainer"), "ContainerNotRunning")
BY DEF Kind, Does, NotFound, MayFail

LEMMA ContainerMethods == \A o \in ContainerOps : Like(o)
<1>1. Like(ListContainers) /\ Like(UpdateContainer) /\ Like(RenameContainer) /\ Like(PruneContainers)
  BY IsOp, IsLike, KindOfContainer
  DEF Does, ListContainers, UpdateContainer, RenameContainer, PruneContainers
<1>2. Like(InspectContainer) /\ Like(RemoveContainer) /\ Like(WaitContainer) /\ Like(CommitContainer)
  BY IsOnContainer, IsLike, KindOfContainer
  DEF Does, InspectContainer, RemoveContainer, WaitContainer, CommitContainer
<1>3. /\ Like(ContainerChanges) /\ Like(RestartContainer) /\ Like(PauseContainer)
      /\ Like(UnpauseContainer) /\ Like(TopContainer)
  BY IsOnContainer, IsStill, IsLike, KindOfContainer
  DEF Does, ContainerChanges, RestartContainer, PauseContainer, UnpauseContainer, TopContainer
<1>4. Like(CreateContainer) /\ Like(KillContainer)
  <2> DEFINE errors == NotFound("ErrNoSuchImage") \cup ({409, 4009} \X {"ErrContainerAlreadyExists"})
  <2>1. Like(CreateContainer)
    <3>1. CreateContainer = Op("container", "create", errors) BY DEF CreateContainer
    <3>2. Kind("container", "create", errors, "") BY KindOfCreateContainer
    <3> HIDE DEF errors
    <3> QED BY <3>1, <3>2, IsOp, IsLike
  <2>2. Like(KillContainer)
    <3> DEFINE failures == NotFound("NoSuchContainer") \cup {<<409, "ContainerNotRunning">>}
    <3>1. KillContainer = Op("container", "kill", failures) BY DEF KillContainer
    <3>2. Kind("container", "kill", failures, "") BY KindOfKillContainer
    <3> HIDE DEF failures
    <3> QED BY <3>1, <3>2, IsOp, IsLike
  <2> QED BY <2>1, <2>2
<1>5. Like(StartContainer) /\ Like(StopContainer)
  BY IsOnContainer, IsStill, IsLike, KindOfStart, KindOfStop DEF StartContainer, StopContainer
<1>6. /\ Like(UploadToContainer) /\ Like(DownloadFromContainer) /\ Like(Logs)
      /\ Like(ExportContainer)
  BY IsStream, IsStill, IsLike, KindOfContainer
  DEF Does, NoErrors, UploadToContainer, DownloadFromContainer, Logs, ExportContainer
<1>7. Like(CopyFromContainer)
  BY IsOnContainer, IsStill, IsLike, KindOfContainer DEF Does, CopyFromContainer
<1>8. Like(AttachToContainer) /\ Like(ResizeContainerTTY)
  BY IsOp, IsStill, IsLike, KindOfContainer DEF Does, AttachToContainer, ResizeContainerTTY
<1> QED
  BY <1>1, <1>2, <1>3, <1>4, <1>5, <1>6, <1>7, <1>8 DEF ContainerOps

LEMMA KindOfExec ==
  /\ Kind("exec", "create", NotFound("NoSuchContainer"), "")
  /\ \A does \in Does["exec"] \ {"create"} :
       Kind("exec", does, NoErrors, "") /\ Kind("exec", does, NotFound("NoSuchExec"), "")
BY DEF Kind, Does, NoErrors, NotFound, MayFail

LEMMA ExecMethods == \A o \in ExecOps : Like(o)
<1>1. /\ Like(CreateExec) /\ Like(StartExecDetached) /\ Like(StartExec) /\ Like(ResizeExecTTY)
      /\ Like(InspectExec)
  BY IsOp, IsStill, IsLike, KindOfExec
  DEF Does, CreateExec, StartExecDetached, StartExec, ResizeExecTTY, InspectExec
<1> QED BY <1>1 DEF ExecOps

LEMMA KindOfImage ==
  \A does \in Does["image"] :
    Kind("image", does, NoErrors, "") /\ Kind("image", does, NotFound("ErrNoSuchImage"), "")
BY DEF Kind, Does, NoErrors, NotFound, MayFail

LEMMA ImageMethods == \A o \in ImageOps : Like(o)
<1>1. Like(ListImages) /\ Like(PruneImages) /\ Like(TagImage) /\ Like(SearchImages)
      /\ Like(SearchImagesEx) /\ Like(InspectDistribution)
  BY IsOp, IsStill, IsLike, KindOfImage
  DEF Does, ListImages, PruneImages, TagImage, SearchImages, SearchImagesEx, InspectDistribution
<1>2. Like(ImageHistory) /\ Like(RemoveImage) /\ Like(RemoveImageExtended) /\ Like(InspectImage)
  BY IsOnImage, IsStill, IsLike, KindOfImage
  DEF Does, ImageHistory, RemoveImage, RemoveImageExtended, InspectImage
<1>3. /\ Like(PushImage) /\ Like(PullImage) /\ Like(LoadImage) /\ Like(ExportImage)
      /\ Like(ExportImages) /\ Like(ImportImage) /\ Like(BuildImage)
  BY IsStream, IsStill, IsLike, KindOfImage
  DEF Does, NoErrors, PushImage, PullImage, LoadImage, ExportImage, ExportImages, ImportImage, BuildImage
<1> QED BY <1>1, <1>2, <1>3 DEF ImageOps

LEMMA KindOfNetwork ==
  \A does \in Does["network"] :
    /\ Kind("network", does, NoErrors, "") /\ Kind("network", does, NotFound("NoSuchNetwork"), "")
    /\ Kind("network", does, NotFound("NoSuchNetworkOrContainer"), "")
BY DEF Kind, Does, NoErrors, NotFound, MayFail

LEMMA NetworkMethods == \A o \in NetworkOps : Like(o)
<1>1. /\ Like(ListNetworks) /\ Like(FilteredListNetworks) /\ Like(NetworkInfo) /\ Like(CreateNetwork)
      /\ Like(RemoveNetwork) /\ Like(ConnectNetwork) /\ Like(DisconnectNetwork) /\ Like(PruneNetworks)
  BY IsOp, IsStill, IsLike, KindOfNetwork
  DEF Does, ListNetworks, FilteredListNetworks, NetworkInfo, CreateNetwork, RemoveNetwork,
      ConnectNetwork, DisconnectNetwork, PruneNetworks
<1> QED BY <1>1 DEF NetworkOps

LEMMA KindOfVolume ==
  /\ \A does \in Does["volume"] :
       Kind("volume", does, NoErrors, "") /\ Kind("volume", does, NotFound("ErrNoSuchVolume"), "")
  /\ Kind("volume", "remove", NotFound("ErrNoSuchVolume") \cup {<<409, "ErrVolumeInUse">>}, "")
BY DEF Kind, Does, NoErrors, NotFound, MayFail

LEMMA VolumeMethods == \A o \in VolumeOps : Like(o)
<1>1. Like(ListVolumes) /\ Like(CreateVolume) /\ Like(InspectVolume) /\ Like(PruneVolumes)
  BY IsOp, IsStill, IsLike, KindOfVolume DEF Does, ListVolumes, CreateVolume, InspectVolume, PruneVolumes
<1>2. Like(RemoveVolumeWithOptions) /\ Like(RemoveVolume)
  <2> DEFINE errors == NotFound("ErrNoSuchVolume") \cup {<<409, "ErrVolumeInUse">>}
  <2>1. RemoveVolumeWithOptions = Op("volume", "remove", errors) BY DEF RemoveVolumeWithOptions
  <2>2. Kind("volume", "remove", errors, "") BY KindOfVolume
  <2> HIDE DEF errors
  <2>3. Like(RemoveVolumeWithOptions) BY <2>1, <2>2, IsOp, IsLike
  <2> QED BY <2>3 DEF RemoveVolume
<1> QED BY <1>1, <1>2 DEF VolumeOps

LEMMA KindOfPlugin ==
  \A does \in Does["plugin"] :
    Kind("plugin", does, NoErrors, "") /\ Kind("plugin", does, NotFound("NoSuchPlugin"), "")
BY DEF Kind, Does, NoErrors, NotFound, MayFail

LEMMA PluginMethods == \A o \in PluginOps : Like(o)
<1>1. /\ Like(ListPlugins) /\ Like(ListFilteredPlugins) /\ Like(GetPluginPrivileges)
      /\ Like(InspectPlugins) /\ Like(RemovePlugin) /\ Like(ConfigurePlugin)
  BY IsOp, IsStill, IsLike, KindOfPlugin
  DEF Does, ListPlugins, ListFilteredPlugins, GetPluginPrivileges, InspectPlugins, RemovePlugin,
      ConfigurePlugin
<1>2. /\ Like(InstallPlugins) /\ Like(EnablePlugin) /\ Like(DisablePlugin) /\ Like(CreatePlugin)
      /\ Like(PushPlugin)
  BY IsOp, IsStill, IsLike, KindOfPlugin
  DEF Does, InstallPlugins, EnablePlugin, DisablePlugin, CreatePlugin, PushPlugin
<1> QED BY <1>1, <1>2 DEF PluginOps

LEMMA KindOfSystem == \A does \in Does["system"] : Kind("system", does, NoErrors, "")
BY DEF Kind, Does, NoErrors, NotFound, MayFail

LEMMA SystemMethods == \A o \in SystemOps : Like(o)
<1>1. Like(Ping) /\ Like(Version) /\ Like(Info) /\ Like(AuthCheck)
  BY IsOp, IsStill, IsLike, KindOfSystem DEF Does, Ping, Version, Info, AuthCheck
<1> QED BY <1>1 DEF SystemOps

LEMMA AllMethods == \A a \in DOMAIN OpsOf : \A o \in OpsOf[a] : Like(o)
<1> TAKE a \in DOMAIN OpsOf
<1>1. a \in {"container", "exec", "image", "network", "volume", "plugin", "system", "version"}
  BY DEF OpsOf
<1>2. CASE a = "container" BY <1>2, ContainerMethods DEF OpsOf
<1>3. CASE a = "exec"      BY <1>3, ExecMethods DEF OpsOf
<1>4. CASE a = "image"     BY <1>4, ImageMethods DEF OpsOf
<1>5. CASE a = "network"   BY <1>5, NetworkMethods DEF OpsOf
<1>6. CASE a = "volume"    BY <1>6, VolumeMethods DEF OpsOf
<1>7. CASE a = "plugin"    BY <1>7, PluginMethods DEF OpsOf
<1>8. CASE a = "system"    BY <1>8, SystemMethods DEF OpsOf
<1>9. CASE a = "version"
  <2>1. OpsOf["version"] = {StartContainer, CreateExec, BuildImage, Version} BY DEF OpsOf
  <2>2. Like(StartContainer) /\ Like(CreateExec) /\ Like(BuildImage) /\ Like(Version)
    BY ContainerMethods, ExecMethods, ImageMethods, SystemMethods
    DEF ContainerOps, ExecOps, ImageOps, SystemOps
  <2> QED BY <1>9, <2>1, <2>2
<1> QED BY <1>1, <1>2, <1>3, <1>4, <1>5, <1>6, <1>7, <1>8, <1>9

---------------------------------------------------------------------------
(* What the daemon does and what the method makes of it                    *)

NotOwn == {"nil", "noFrame", "closedBody", "panic", "APIError"}

(* Where a result may come from, and which answer has none.                *)
From(o, s, e) ==
  /\ e \in NotOwn \/ (s = 304 /\ e = o.unmodified) \/ MayFail(o.on, o.does, s, e)
  /\ e = "nil" /\ o.via # "hijack" => s < 400 /\ (s # 304 \/ o.unmodified \in {"", "nil"})

LEMMA ResultsOf ==
  ASSUME NEW o, Like(o), NEW s \in Int, NEW e \in Results(o, s)
  PROVE  From(o, s, e)
<1>1. \A f \in Errors(o, s) : MayFail(o.on, o.does, s, f)
  BY DEF Errors, Like, Kind
<1>2. ~MayFail(o.on, o.does, s, "nil")
  BY DEF MayFail
<1>3. CASE o.via = "hijack" BY <1>3 DEF From, Results, NotOwn
<1>4. CASE o.via # "hijack" /\ s = 304
  <2>1. e = IF o.unmodified = "" THEN "nil" ELSE o.unmodified BY <1>4 DEF Results
  <2>2. s < 400 BY <1>4
  <2>3. e = "nil" \/ e = o.unmodified BY <2>1, Zenon
  <2>4. e = "nil" => o.unmodified \in {"", "nil"} BY <2>1
  <2> QED BY <1>4, <2>2, <2>3, <2>4, Zenon DEF From, NotOwn
<1>5. CASE o.via # "hijack" /\ s # 304 /\ s < 400 BY <1>5 DEF From, Results, NotOwn
<1>6. CASE o.via # "hijack" /\ s # 304 /\ ~(s < 400) BY <1>1, <1>2, <1>6 DEF From, Results, NotOwn
<1> QED BY <1>3, <1>4, <1>5, <1>6

(* A result that is no error of a method's own says nothing.               *)
LEMMA NotOwnMeans == \A o, x : \A e \in NotOwn : Means(o, e, x)
BY DEF NotOwn, Means

LEMMA SoundContainer ==
  ASSUME NEW o, Like(o), o.on = "container", NEW x \in States["container"],
         NEW y \in States["container"], NEW s \in Codes, Serves("container", o.does, x, s, y),
         NEW e \in Results(o, s)
  PROVE  /\ Means(o, e, x) \/ Means(o, e, y)
         /\ e = "nil" /\ o.via # "hijack" => Promise(o, x) \/ Promise(o, y)
<1> DEFINE does == o.does
<1>1. does \in Does["container"]
  BY DEF Like, Kind
<1>2. /\ does = "start" => o.unmodified = "ContainerAlreadyRunning"
      /\ does = "stop" => o.unmodified = "ContainerNotRunning"
  BY DEF Like, Kind
<1>3. From(o, s, e)
  <2>1. s \in Int BY DEF Codes
  <2> QED BY <2>1, ResultsOf
<1>4. s = 304 => (does = "start" /\ x \in Live) \/ (does = "stop" /\ x \notin Live)
  BY DEF Serves, OfMissing, OfContainer, Codes
<1>5. s = 304 /\ e = o.unmodified => Means(o, e, x)
  BY <1>1, <1>2, <1>4 DEF Means, Live
<1>6. MayFail("container", does, s, e) => Means(o, e, x)
  <2> SUFFICES ASSUME MayFail("container", does, s, e) PROVE Means(o, e, x)
    OBVIOUS
  <2>1. CASE s = 404
    <3>1. x \in Missing /\ (does = "create" => x = "noimage")
      BY <2>1 DEF Serves, OfMissing, OfContainer
    <3> QED BY <2>1, <3>1 DEF MayFail, Means, Missing
  <2>2. CASE does = "create" /\ s \in {409, 4009}
    <3>1. x \notin Missing
      BY <2>2 DEF Serves, OfMissing
    <3> QED BY <2>2, <3>1 DEF MayFail, Means
  <2>3. CASE does = "kill" /\ s = 409
    <3>1. x \notin Live
      BY <2>3 DEF Serves, OfMissing, OfContainer, Conflicts, Live, Missing, Anyway
    <3> QED BY <2>3, <3>1 DEF MayFail, Means
  <2> QED BY <2>1, <2>2, <2>3 DEF MayFail
<1>7. ASSUME e = "nil", o.via # "hijack" PROVE Promise(o, x) \/ Promise(o, y)
  <2>1. s < 400 /\ s # 304
    BY <1>2, <1>3, <1>4, <1>7 DEF From
  <2>2. CASE does \in Anyway
    BY <1>1, <2>2 DEF Promise, Anyway, Does
  <2>3. CASE does \notin Anyway /\ x \in Missing
    BY <1>1, <2>1, <2>3 DEF Serves, OfMissing, Promise, Anyway, Missing, First, Codes, Does, Live
  <2>4. CASE does \notin Anyway /\ x \notin Missing
    <3>1. OfContainer(does, x, s, y) BY <2>4 DEF Serves
    <3> QED BY <1>1, <2>1, <2>4, <3>1 DEF OfContainer, Promise, Anyway, Missing, Live, Does, States
  <2> QED BY <2>2, <2>3, <2>4
<1> QED BY <1>3, <1>5, <1>6, <1>7, NotOwnMeans DEF From

LEMMA SoundExec ==
  ASSUME NEW o, Like(o), o.on = "exec", NEW x \in States["exec"], NEW y \in States["exec"],
         NEW s \in Codes, Serves("exec", o.does, x, s, y), NEW e \in Results(o, s)
  PROVE  /\ Means(o, e, x) \/ Means(o, e, y)
         /\ e = "nil" /\ o.via # "hijack" => Promise(o, x) \/ Promise(o, y)
<1>1. o.does \in Does["exec"]
  BY DEF Like, Kind
<1>2. OfExec(o.does, x, s, y)
  BY DEF Serves
<1>3. From(o, s, e)
  <2>1. s \in Int BY DEF Codes
  <2> QED BY <2>1, ResultsOf
<1>4. s # 304
  BY <1>2 DEF OfExec
<1>5. MayFail("exec", o.does, s, e) => Means(o, e, x)
  BY <1>2 DEF MayFail, OfExec, Means, Missing, States
<1>6. s < 400 => x = "created" \/ y = "created"
  BY <1>2 DEF OfExec
<1>7. Promise(o, "created")
  BY <1>1 DEF Promise, Does, Missing, Live
<1> QED BY <1>3, <1>4, <1>5, <1>6, <1>7, NotOwnMeans DEF From

LEMMA SoundOther ==
  ASSUME NEW o, Like(o), o.on \in {"image", "network", "volume", "plugin", "system"},
         NEW x \in States[o.on], NEW y \in States[o.on],
         NEW s \in Codes, Serves(o.on, o.does, x, s, y), NEW e \in Results(o, s)
  PROVE  /\ Means(o, e, x) \/ Means(o, e, y)
         /\ e = "nil" /\ o.via # "hijack" => Promise(o, x) \/ Promise(o, y)
<1> DEFINE does == o.does
<1>1. does \in Does[o.on]
  BY DEF Like, Kind
<1>2. /\ does \notin {"start", "restart", "unpause", "stop", "kill", "wait", "pause"}
      /\ does \in {"connect", "disconnect"} => o.on = "network"
      /\ does \in {"enable", "disable"} => o.on = "plugin"
  BY <1>1 DEF Does
<1>3. From(o, s, e)
  <2>1. s \in Int BY DEF Codes
  <2> QED BY <2>1, ResultsOf
<1>4. x \in Missing => x = "none"
  BY DEF States, Missing
<1>5. s # 304
  BY DEF Serves, OfMissing, OfOther
<1>6. MayFail(o.on, does, s, e) => Means(o, e, x)
  <2> SUFFICES ASSUME MayFail(o.on, does, s, e) PROVE Means(o, e, x)
    OBVIOUS
  <2>1. CASE s = 404
    <3>1. x \in Missing
      BY <2>1 DEF Serves, OfOther
    <3> QED BY <2>1, <3>1 DEF MayFail, Means, Missing
  <2>2. CASE o.on = "volume" /\ does = "remove" /\ s = 409
    <3>1. x \in InUse
      BY <2>2 DEF Serves, OfMissing, OfOther, Leaves, Anyway
    <3>2. x = "used"
      BY <2>2, <3>1 DEF States, InUse
    <3> QED BY <2>2, <3>2 DEF MayFail, Means
  <2> QED BY <2>1, <2>2 DEF MayFail
<1>7. ASSUME e = "nil", o.via # "hijack" PROVE Promise(o, x) \/ Promise(o, y)
  <2>1. s < 400
    BY <1>3, <1>7 DEF From
  <2>2. CASE does \in Anyway
    BY <1>2, <2>2 DEF Promise, Anyway
  <2>3. CASE does \notin Anyway /\ x \in Missing
    <3>1. OfMissing(o.on, does, x, s, y) BY <2>3 DEF Serves
    <3>2. CASE does = "prune" BY <1>2, <3>2 DEF Promise
    <3>3. CASE does \in {"create", "pull", "import", "build"} /\ y = First[o.on]
      <4>1. y \notin Missing
        BY <3>3, <1>1 DEF First, Missing, Does
      <4> QED BY <1>2, <3>3, <4>1 DEF Promise
    <3> QED BY <2>1, <3>1, <3>2, <3>3 DEF OfMissing
  <2>4. CASE does \notin Anyway /\ x \notin Missing
    <3>1. OfOther(does, x, s, y) BY <2>4 DEF Serves
    <3>2. CASE does \in {"remove", "prune"}
      BY <1>2, <2>1, <3>1, <3>2 DEF OfOther, Leaves, Promise, Missing
    <3>3. CASE <<does, y>> \in Leaves
      BY <1>2, <3>3 DEF Leaves, Promise, Missing
    <3>4. CASE does \notin {"remove", "prune", "connect", "disconnect", "enable", "disable"} /\ y = x
      BY <1>2, <2>4, <3>4 DEF Promise
    <3> QED BY <2>1, <3>1, <3>2, <3>3, <3>4 DEF OfOther
  <2> QED BY <2>2, <2>3, <2>4
<1> QED BY <1>3, <1>5, <1>6, <1>7, NotOwnMeans DEF From

(* An answer of the daemon makes the method return what was so before it   *)
(* or after it.                                                            *)
LEMMA Sound ==
  ASSUME NEW a \in DOMAIN OpsOf, NEW o \in OpsOf[a], NEW x \in States[o.on], NEW y \in States[o.on],
         NEW s \in Codes, Serves(o.on, o.does, x, s, y), NEW e \in Results(o, s)
  PROVE  /\ Means(o, e, x) \/ Means(o, e, y)
         /\ e = "nil" /\ o.via # "hijack" => Promise(o, x) \/ Promise(o, y)
<1>1. Like(o) BY AllMethods
<1>2. o.on \in {"container", "exec", "image", "network", "volume", "plugin", "system"}
  BY <1>1 DEF Like, Kind, Does
<1>3. CASE o.on = "container" BY <1>1, <1>3, SoundContainer
<1>4. CASE o.on = "exec" BY <1>1, <1>4, SoundExec
<1>5. CASE o.on \notin {"container", "exec"} BY <1>1, <1>2, <1>5, SoundOther
<1> QED BY <1>3, <1>4, <1>5

---------------------------------------------------------------------------
(* The invariant.  Types: values of the variables.                         *)

IsMethod(o) == \E a \in DOMAIN OpsOf : o \in OpsOf[a]
Places ==
  {"idle", "lockFirst", "askFirst", "adoptFirst", "limit", "look", "do", "lockDo", "askDo", "adoptDo", "sent",
   "answered"}
Asking == {"askFirst", "askDo", "adoptFirst", "adoptDo"}
Types ==
  /\ area \in DOMAIN OpsOf /\ skip \in BOOLEAN
  /\ pc \in [Callers -> Places]
  /\ DOMAIN op = Callers /\ \A c \in Callers : IsMethod(op[c])
  /\ DOMAIN form = Callers /\ DOMAIN status = Callers /\ DOMAIN result = Callers
  /\ DOMAIN answer = Callers /\ DOMAIN cancelled = Callers
  /\ DOMAIN seen = Callers /\ \A c \in Callers : seen[c] \subseteq States[op[c].on]
  /\ DOMAIN r = DOMAIN States /\ \A on \in DOMAIN States : r[on] \in States[on]
  /\ left \in [Callers -> Nat] /\ faults \in 0 .. MaxFaults /\ changes \in 0 .. MaxChanges

LEMMA MethodLike == \A o : IsMethod(o) => Like(o) /\ o.on \in DOMAIN States
<1> TAKE o
<1> HAVE IsMethod(o)
<1>1. Like(o) BY AllMethods DEF IsMethod
<1>2. DOMAIN Does = DOMAIN States BY DEF Does, States
<1> QED BY <1>1, <1>2 DEF Like, Kind

LEMMA DefaultStates == \A on \in DOMAIN States : Default[on] \in States[on]
BY DEF Default, States

LEMMA TypesInit == InitApi([Callers -> Nat]) => Types
<1> HAVE InitApi([Callers -> Nat])
<1>1. IsMethod(Ping) BY DEF IsMethod, OpsOf, SystemOps
<1>2. DOMAIN States \subseteq DOMAIN OpsOf /\ "version" \notin DOMAIN States BY DEF States, OpsOf
<1>3. PICK x \in IF area = "version" THEN {"created"} ELSE States[area] :
        r = [on \in DOMAIN States |-> IF on = area THEN x ELSE Default[on]]
  BY DEF InitApi
<1>4. \A on \in DOMAIN States : r[on] \in States[on]
  BY <1>2, <1>3, DefaultStates
<1>5. faults \in 0 .. MaxFaults /\ changes \in 0 .. MaxChanges
  BY ApiBounds DEF InitApi
<1>6. pc \in [Callers -> Places] BY DEF InitApi, Places
<1> QED BY <1>1, <1>3, <1>4, <1>5, <1>6 DEF InitApi, Types

(* A new state of a resource: of its type, and seen by the calls under way.*)
LEMMA Becoming ==
  ASSUME Types, NEW on, NEW x \in States[on], Becomes(on, x)
  PROVE  /\ DOMAIN r' = DOMAIN States /\ \A n \in DOMAIN States : r'[n] \in States[n]
         /\ DOMAIN seen' = Callers /\ \A c \in Callers : seen'[c] \subseteq States[op[c].on]
         /\ \A c \in Callers : seen[c] \subseteq seen'[c]
         /\ \A c \in Callers : pc[c] = "idle" => seen'[c] = seen[c]
         /\ \A c \in Callers : pc[c] # "idle" /\ op[c].on = on => x \in seen'[c]
         /\ \A c \in Callers : pc[c] # "idle" /\ r[op[c].on] \in seen[c] => r'[op[c].on] \in seen'[c]
<1>1. DOMAIN r' = DOMAIN States /\ \A n \in DOMAIN States : r'[n] = IF n = on THEN x ELSE r[n]
  BY DEF Becomes, Types
<1>2. seen' = [c \in Callers |-> IF c \in Active /\ op[c].on = on THEN seen[c] \cup {x} ELSE seen[c]]
  BY DEF Becomes
<1>3. \A c \in Callers : op[c].on \in DOMAIN States
  BY MethodLike DEF Types
<1> QED BY <1>1, <1>2, <1>3 DEF Types, Active

LEMMA Spent ==
  /\ Types /\ faults > 0 /\ faults' = faults - 1 => faults' \in 0 .. MaxFaults
  /\ Types /\ changes > 0 /\ changes' = changes - 1 => changes' \in 0 .. MaxChanges
  /\ \A c \in Callers : Types /\ left[c] > 0 /\ left' = [left EXCEPT ![c] = @ - 1] => left' \in [Callers -> Nat]
BY ApiBounds DEF Types

LEMMA TypesStep == Types /\ [NextApi]_vars => Types'
<1> SUFFICES ASSUME Types, [NextApi]_vars PROVE Types'
  OBVIOUS
<1> USE DEF Places
<1>1. ASSUME NEW c \in Callers, Begin(c) PROVE Types'
  <2>1. PICK o \in OpsOf[area] :
          /\ op' = [op EXCEPT ![c] = o]
          /\ seen' = [seen EXCEPT ![c] = {r[o.on]}]
          /\ pc' \in {[pc EXCEPT ![c] = "lockFirst"], [pc EXCEPT ![c] = "limit"], [pc EXCEPT ![c] = "idle"]}
          /\ \E e : result' = [result EXCEPT ![c] = e]
    BY <1>1 DEF Begin, Return
  <2>2. IsMethod(o) BY DEF Types, IsMethod
  <2>3. {r[o.on]} \subseteq States[o.on] BY <2>2, MethodLike DEF Types
  <2>4. left' \in [Callers -> Nat] BY <1>1, Spent DEF Begin
  <2>5. pc' \in [Callers -> Places] BY <2>1 DEF Types
  <2>6. /\ DOMAIN seen' = Callers /\ DOMAIN op' = Callers
        /\ \A d \in Callers : seen'[d] \subseteq States[op'[d].on] /\ IsMethod(op'[d])
    BY <2>1, <2>2, <2>3 DEF Types
  <2>7. DOMAIN result' = Callers BY <2>1 DEF Types
  <2>8. DOMAIN status' = Callers /\ DOMAIN cancelled' = Callers BY <1>1 DEF Begin, Types
  <2>9. UNCHANGED <<area, skip, form, answer, r, faults, changes>> BY <1>1 DEF Begin, daemon
  <2> QED BY <2>4, <2>5, <2>6, <2>7, <2>8, <2>9 DEF Types
<1>2. ASSUME NEW c \in Callers, Limit(c) PROVE Types'
  BY <1>2 DEF Limit, Return, Types, daemon, bounds
<1>3. ASSUME NEW c \in Callers, Do(c) PROVE Types'
  BY <1>3 DEF Do, Types, daemon, bounds
<1>4. ASSUME NEW c \in Callers, Lock(c) PROVE Types'
  BY <1>4 DEF Lock, Next, Types, daemon, bounds
<1>5. ASSUME NEW c \in Callers, AskServed(c) PROVE Types'
  BY <1>5 DEF AskServed, Types, daemon, bounds
<1>6. ASSUME NEW c \in Callers, Adopt(c) PROVE Types'
  BY <1>6 DEF Adopt, CheckFails, Return, ReturnError, Next, Types, daemon, bounds
<1>7. ASSUME NEW c \in Callers, AskFails(c) PROVE Types'
  BY <1>7, Spent DEF AskFails, CheckFails, Return, ReturnError, Types, daemon
<1>8. ASSUME NEW c \in Callers, Refused(c) PROVE Types'
  BY <1>8, Spent DEF Refused, DialErrors, Return, ReturnError, Types, daemon
<1>9. ASSUME NEW c \in Callers, Served(c) PROVE Types'
  <2>1. PICK a \in Serve(op[c].on, op[c].does, r[op[c].on]) :
          Becomes(op[c].on, a[2]) /\ status' = [status EXCEPT ![c] = a[1]]
    BY <1>9 DEF Served
  <2>2. a[2] \in States[op[c].on] BY DEF Serve
  <2> QED BY <1>9, <2>1, <2>2, Becoming DEF Served, Types, bounds
<1>10. ASSUME NEW c \in Callers, ServerError(c) PROVE Types'
  BY <1>10, Spent DEF ServerError, Types, daemon
<1>11. ASSUME NEW c \in Callers, Cancel(c) PROVE Types'
  BY <1>11, Spent DEF Cancel, Types, daemon
<1>12. ASSUME NEW c \in Callers, GiveUp(c) PROVE Types'
  BY <1>12 DEF GiveUp, Abandon, Return, ReturnError, Types
<1>13. ASSUME NEW c \in Callers, Lost(c) PROVE Types'
  BY <1>13, Spent DEF Lost, Abandon, Return, ReturnError, Types
<1>14. ASSUME NEW c \in Callers, Receive(c) PROVE Types'
  BY <1>14 DEF Receive, Return, Types, daemon, bounds
<1>15. ASSUME OrphanServed PROVE Types'
  <2>1. PICK q \in orphans : \E a \in Serve(q.on, q.does, r[q.on]) : Becomes(q.on, a[2])
    BY <1>15 DEF OrphanServed
  <2>2. PICK a \in Serve(q.on, q.does, r[q.on]) : Becomes(q.on, a[2])
    BY <2>1
  <2>3. a[2] \in States[q.on] BY DEF Serve
  <2> QED BY <1>15, <2>2, <2>3, Becoming DEF OrphanServed, Types, bounds
<1>16. ASSUME OthersChange PROVE Types'
  <2>1. PICK x \in States[area] : Becomes(area, x)
    BY <1>16 DEF OthersChange
  <2> QED BY <1>16, <2>1, Becoming, Spent DEF OthersChange, Types
<1>17. ASSUME Upgrade PROVE Types'
  BY <1>17, Spent DEF Upgrade, Types, call
<1>18. ASSUME NEW c \in Callers, LookAgain(c) PROVE Types'
  BY <1>18 DEF LookAgain, Return, Types, daemon, bounds
<1>19. ASSUME UNCHANGED vars PROVE Types'
  BY <1>19 DEF vars, call, daemon, bounds, Types
<1> QED
  BY <1>1, <1>2, <1>3, <1>4, <1>5, <1>6, <1>7, <1>8, <1>9, <1>10, <1>11, <1>12, <1>13, <1>14,
     <1>15, <1>16, <1>17, <1>18, <1>19 DEF NextApi

---------------------------------------------------------------------------
(* The version: who asks for it holds the mutex, nobody asks once there is *)
(* one, and what is sent after the check goes by it.                       *)

Agreed ==
  /\ mutex \in Callers \cup {Nobody}
  /\ \A c \in Callers : mutex = c <=> pc[c] \in Asking
  /\ mutex # Nobody => server = Nil
  /\ taken \in 0 .. 1 /\ (server = Nil => taken = 0)
  /\ expected \in {Nil, Expected(server)}
  /\ \A c \in Callers : pc[c] = "sent" /\ op[c].does # "version" => skip \/ expected # Nil

LEMMA AgreedInit == InitApi([Callers -> Nat]) => Agreed
BY ApiBounds DEF InitApi, Agreed, Asking

(* A step that leaves the version and the mutex alone and moves no caller  *)
(* to a place where the version matters.                                   *)
LEMMA AgreedMoves ==
  ASSUME Types, Agreed, UNCHANGED <<asked, skip, requested>>, NEW c \in Callers, NEW p,
         pc' = [pc EXCEPT ![c] = p], pc[c] \in Asking <=> p \in Asking,
         \A d \in Callers : d # c => op'[d] = op[d],
         p = "sent" => op'[c].does = "version" \/ skip \/ expected # Nil
  PROVE  Agreed'
BY DEF Agreed, asked, Types, Expected

LEMMA AgreedStays ==
  ASSUME Agreed, UNCHANGED <<asked, skip, requested, pc, op>>
  PROVE  Agreed'
BY DEF Agreed, asked, Expected

(* What the beginning of a call moves.                                     *)
LEMMA Begins ==
  ASSUME NEW c \in Callers, Begin(c)
  PROVE  \E o \in OpsOf[area] : \E q, e :
           /\ op' = [op EXCEPT ![c] = o] /\ seen' = [seen EXCEPT ![c] = {r[o.on]}]
           /\ pc' = [pc EXCEPT ![c] = q] /\ result' = [result EXCEPT ![c] = e]
           /\ status' = [status EXCEPT ![c] = 0] /\ q \in {"lockFirst", "limit", "idle"}
<1>1. PICK o \in OpsOf[area] :
        /\ op' = [op EXCEPT ![c] = o] /\ seen' = [seen EXCEPT ![c] = {r[o.on]}]
        /\ \/ /\ pc' = [pc EXCEPT ![c] = IF ChecksFirst(o) THEN "lockFirst" ELSE "limit"]
              /\ result' = [result EXCEPT ![c] = ""]
           \/ \E e \in o.empty : Return(c, e)
  BY DEF Begin
<1>2. status' = [status EXCEPT ![c] = 0] BY DEF Begin
<1>3. CASE pc' = [pc EXCEPT ![c] = IF ChecksFirst(o) THEN "lockFirst" ELSE "limit"]
           /\ result' = [result EXCEPT ![c] = ""]
  <2>1. (IF ChecksFirst(o) THEN "lockFirst" ELSE "limit") \in {"lockFirst", "limit", "idle"} OBVIOUS
  <2> DEFINE q == IF ChecksFirst(o) THEN "lockFirst" ELSE "limit"
  <2>2. q \in {"lockFirst", "limit", "idle"} /\ pc' = [pc EXCEPT ![c] = q] BY <1>3, <2>1
  <2> HIDE DEF q
  <2> QED BY <1>1, <1>2, <1>3, <2>2
<1>4. CASE \E e \in o.empty : Return(c, e) BY <1>1, <1>2, <1>4 DEF Return
<1> QED BY <1>1, <1>3, <1>4

LEMMA AgreedStep == Types /\ Agreed /\ [NextApi]_vars => Agreed'
<1> SUFFICES ASSUME Types, Agreed, [NextApi]_vars PROVE Agreed'
  OBVIOUS
<1>1. ASSUME NEW c \in Callers, Begin(c) PROVE Agreed'
  <2>1. PICK o, q : /\ op' = [op EXCEPT ![c] = o] /\ pc' = [pc EXCEPT ![c] = q]
                    /\ q \in {"lockFirst", "limit", "idle"}
    BY <1>1, Begins
  <2>2. pc[c] \notin Asking /\ q \notin Asking /\ q # "sent" BY <1>1, <2>1 DEF Begin, Asking
  <2>3. \A d \in Callers : d # c => op'[d] = op[d] BY <2>1 DEF Types
  <2>4. UNCHANGED <<asked, skip, requested>> BY <1>1 DEF Begin
  <2> QED BY <2>1, <2>2, <2>3, <2>4, AgreedMoves
<1>2. ASSUME NEW c \in Callers, Limit(c) PROVE Agreed'
  BY <1>2, AgreedMoves DEF Limit, Return, Asking
<1>3. ASSUME NEW c \in Callers, Do(c) PROVE Agreed'
  BY <1>3, AgreedMoves DEF Do, Asking
<1>4. ASSUME NEW c \in Callers, Lock(c) PROVE Agreed'
  <2>1. mutex = Nobody BY <1>4 DEF Lock
  <2>2. CASE server = Nil
    BY <1>4, <2>1, <2>2, ApiBounds DEF Lock, Agreed, Types, Asking, After, Expected
  <2>3. CASE server # Nil
    <3>1. expected' = Expected(server) /\ Expected(server) # Nil
      BY <1>4, <2>3 DEF Lock, Expected
    <3> QED BY <1>4, <2>1, <2>3, <3>1, ApiBounds DEF Lock, Agreed, Types, Asking, After, Next, Expected
  <2> QED BY <2>2, <2>3
<1>5. ASSUME NEW c \in Callers, AskServed(c) PROVE Agreed'
  BY <1>5, AgreedMoves DEF AskServed, Asking
<1>6. ASSUME NEW c \in Callers, Adopt(c) PROVE Agreed'
  <2>1. mutex = c /\ server = Nil /\ taken = 0 /\ mutex' = Nobody
    BY <1>6, ApiBounds DEF Adopt, Agreed, Asking, Unlock
  <2>2. \A d \in Callers : d # c => pc[d] \notin Asking
    BY <2>1 DEF Agreed
  <2> DEFINE v == NewAPIVersion(answer[c])
  <2>3. server' = v BY <1>6 DEF Adopt
  <2>4. CASE v = Nil
    <3>1. pc' \in {[pc EXCEPT ![c] = "limit"], [pc EXCEPT ![c] = "idle"]} /\ UNCHANGED <<expected, taken>>
      BY <1>6, <2>4 DEF Adopt, CheckFails, Return, ReturnError
    <3>2. UNCHANGED <<op, skip, requested>> BY <1>6 DEF Adopt
    <3> QED BY <2>1, <2>2, <2>3, <2>4, <3>1, <3>2, ApiBounds DEF Agreed, Types, Asking, Expected
  <2>5. CASE v # Nil
    <3>1. /\ expected' = Expected(v) /\ taken' = 1 /\ Expected(v) # Nil
          /\ pc' \in {[pc EXCEPT ![c] = "limit"], [pc EXCEPT ![c] = "sent"]}
      BY <1>6, <2>1, <2>5 DEF Adopt, Next, Expected
    <3>2. UNCHANGED <<op, skip, requested>> BY <1>6 DEF Adopt
    <3> HIDE DEF v
    <3> QED BY <2>1, <2>2, <2>3, <2>5, <3>1, <3>2, ApiBounds DEF Agreed, Types, Asking, Expected
  <2> QED BY <2>4, <2>5
<1>7. ASSUME NEW c \in Callers, AskFails(c) PROVE Agreed'
  <2>1. mutex = c /\ mutex' = Nobody
    BY <1>7 DEF AskFails, Agreed, Asking, Unlock
  <2>2. \A d \in Callers : d # c => pc[d] \notin Asking
    BY <2>1 DEF Agreed
  <2>3. pc' \in {[pc EXCEPT ![c] = "limit"], [pc EXCEPT ![c] = "idle"]}
    BY <1>7 DEF AskFails, CheckFails, Return, ReturnError
  <2> QED BY <1>7, <2>1, <2>2, <2>3, ApiBounds DEF AskFails, Agreed, Types, Asking, Expected
<1>8. ASSUME NEW c \in Callers, Refused(c) PROVE Agreed'
  BY <1>8, AgreedMoves DEF Refused, DialErrors, Return, ReturnError, Asking
<1>9. ASSUME NEW c \in Callers, Served(c) PROVE Agreed'
  BY <1>9, AgreedMoves DEF Served, Asking
<1>10. ASSUME NEW c \in Callers, ServerError(c) PROVE Agreed'
  BY <1>10, AgreedMoves DEF ServerError, Asking
<1>11. ASSUME NEW c \in Callers, Cancel(c) PROVE Agreed'
  BY <1>11, AgreedStays DEF Cancel
<1>12. ASSUME NEW c \in Callers, GiveUp(c) PROVE Agreed'
  BY <1>12, AgreedMoves DEF GiveUp, Abandon, Return, ReturnError, Asking
<1>13. ASSUME NEW c \in Callers, Lost(c) PROVE Agreed'
  BY <1>13, AgreedMoves DEF Lost, Abandon, Return, ReturnError, Asking
<1>14. ASSUME NEW c \in Callers, Receive(c) PROVE Agreed'
  BY <1>14, AgreedMoves DEF Receive, Return, Asking
<1>15. ASSUME OrphanServed PROVE Agreed'
  BY <1>15, AgreedStays DEF OrphanServed
<1>16. ASSUME OthersChange PROVE Agreed'
  BY <1>16, AgreedStays DEF OthersChange
<1>17. ASSUME Upgrade PROVE Agreed'
  BY <1>17, AgreedStays DEF Upgrade, call
<1>18. ASSUME NEW c \in Callers, LookAgain(c) PROVE Agreed'
  BY <1>18, AgreedMoves DEF LookAgain, Return, Asking
<1>19. ASSUME UNCHANGED vars PROVE Agreed'
  BY <1>19, AgreedStays DEF vars, call
<1> QED
  BY <1>1, <1>2, <1>3, <1>4, <1>5, <1>6, <1>7, <1>8, <1>9, <1>10, <1>11, <1>12, <1>13, <1>14,
     <1>15, <1>16, <1>17, <1>18, <1>19 DEF NextApi

---------------------------------------------------------------------------
(* What goes out: the version that is kept is one the daemon has had, and  *)
(* so is what is chosen by it.                                             *)

Chosen == {"look", "do", "lockDo", "askDo", "adoptDo", "sent"}
Readable(f) == \E s \in had : Fits(f, NewAPIVersion(s))
Sends ==
  /\ string \in had
  /\ server = Nil \/ \E s \in had : server = NewAPIVersion(s)
  /\ \A c \in Callers : pc[c] \in {"adoptFirst", "adoptDo"} => answer[c] \in had
  /\ \A c \in Callers : pc[c] \in Chosen => Readable(form[c])

LEMMA SendsInit == InitApi([Callers -> Nat]) => Sends
BY DEF InitApi, Sends, Chosen

LEMMA NilIsLess == LessThan(Nil, apiVersion125)
BY DEF LessThan, Nil, apiVersion125, Differ

(* What a method chooses is readable for a daemon of the version kept.     *)
LEMMA FormsReadable ==
  ASSUME Sends, NEW limit, NEW f \in Forms(limit), f \notin Refusals
  PROVE  Readable(f)
<1>1. CASE f \in {"plain", "copy"}
  BY <1>1 DEF Sends, Readable, Fits
<1>2. CASE f \notin {"plain", "copy"}
  <2>1. f \in {"hostConfig", "env", "AuthConfigurations119"}
    BY <1>2 DEF Forms, Payloads
  <2>2. server # Nil /\ Fits(f, server)
    <3>1. CASE f = "hostConfig" BY <3>1 DEF Forms, Fits
    <3>2. CASE f = "env" BY <3>2, NilIsLess DEF Forms, Fits, Refusals, GreaterThanOrEqualTo
    <3>3. CASE f = "AuthConfigurations119" BY <3>3 DEF Forms, Fits, Known
    <3> QED BY <2>1, <3>1, <3>2, <3>3
  <2> QED BY <2>2 DEF Sends, Readable
<1> QED BY <1>1, <1>2

(* A step that leaves the daemon's version and the client's alone, and     *)
(* lets no caller go on with something else than was chosen.               *)
LEMMA SendsMoves ==
  ASSUME Types, Sends, UNCHANGED <<string, had, server, answer>>, NEW c \in Callers, NEW p,
         pc' = [pc EXCEPT ![c] = p], p \notin {"adoptFirst", "adoptDo"},
         \A d \in Callers : d # c => form'[d] = form[d],
         p \in Chosen => Readable(form'[c])
  PROVE  Sends'
<1>1. \A d \in Callers : pc'[d] = IF d = c THEN p ELSE pc[d]
  BY DEF Types
<1>2. \A d \in Callers : pc'[d] \in Chosen => Readable(form'[d])
  BY <1>1 DEF Sends
<1> QED BY <1>1, <1>2 DEF Sends, Readable

LEMMA SendsStays ==
  ASSUME Sends, UNCHANGED <<server, answer, pc, form>>, had \subseteq had', string' \in had'
  PROVE  Sends'
BY DEF Sends, Readable

LEMMA SendsStep == Types /\ Agreed /\ Sends /\ [NextApi]_vars => Sends'
<1> SUFFICES ASSUME Types, Agreed, Sends, [NextApi]_vars PROVE Sends'
  OBVIOUS
<1>1. ASSUME NEW c \in Callers, Begin(c) PROVE Sends'
  <2>1. UNCHANGED <<string, had, server, answer, form>> /\ pc' \in {[pc EXCEPT ![c] = "lockFirst"], [pc EXCEPT ![c] = "limit"], [pc EXCEPT ![c] = "idle"]}
    BY <1>1 DEF Begin, Return, asked, daemon
  <2> QED BY <2>1, SendsMoves DEF Chosen
<1>2. ASSUME NEW c \in Callers, Limit(c) PROVE Sends'
  <2>1. PICK f \in Forms(op[c].limit) :
          IF f \in Refusals THEN Return(c, f) /\ UNCHANGED form
          ELSE /\ form' = [form EXCEPT ![c] = f]
               /\ pc' = [pc EXCEPT ![c] = IF op[c].limit = "cacheFrom" THEN "look" ELSE "do"]
    BY <1>2 DEF Limit
  <2>2. CASE f \in Refusals
    BY <1>2, <2>1, <2>2, SendsMoves DEF Limit, Return, Chosen, asked, daemon
  <2>3. CASE f \notin Refusals
    <3>1. Readable(f) BY <2>3, FormsReadable
    <3>2. form'[c] = f /\ \A d \in Callers : d # c => form'[d] = form[d] BY <2>1, <2>3 DEF Types
    <3> QED BY <1>2, <2>1, <2>3, <3>1, <3>2, SendsMoves DEF Limit, Chosen, asked, daemon
  <2> QED BY <2>2, <2>3
<1>3. ASSUME NEW c \in Callers, Do(c) PROVE Sends'
  <2>1. UNCHANGED <<string, had, server, answer, form>> /\ pc[c] = "do" /\ pc' \in {[pc EXCEPT ![c] = "lockDo"], [pc EXCEPT ![c] = "sent"]}
    BY <1>3 DEF Do, asked, daemon
  <2> QED BY <2>1, SendsMoves DEF Sends, Chosen
<1>4. ASSUME NEW c \in Callers, Lock(c) PROVE Sends'
  <2>1. PICK p \in {"askFirst", "askDo", "limit", "sent"} :
          pc' = [pc EXCEPT ![c] = p] /\ (p \in Chosen => pc[c] \in Chosen)
    BY <1>4 DEF Lock, After, Next, Chosen
  <2> QED BY <1>4, <2>1, SendsMoves DEF Lock, Sends, daemon
<1>5. ASSUME NEW c \in Callers, AskServed(c) PROVE Sends'
  <2>1. \A d \in Callers : answer'[d] = IF d = c THEN string ELSE answer[d]
    BY <1>5 DEF AskServed, Types
  <2>2. \A d \in Callers : d # c => pc'[d] = pc[d]
    BY <1>5 DEF AskServed, Types
  <2>3. pc'[c] \in Chosen => pc[c] \in Chosen
    BY <1>5 DEF AskServed, Types, After, Chosen
  <2> QED BY <1>5, <2>1, <2>2, <2>3 DEF AskServed, Sends, Readable, asked, daemon
<1>6. ASSUME NEW c \in Callers, Adopt(c) PROVE Sends'
  <2>1. answer[c] \in had /\ server' = NewAPIVersion(answer[c]) /\ UNCHANGED <<string, had, answer, form>>
    BY <1>6 DEF Adopt, Sends, daemon
  <2>2. PICK p \in {"idle", "limit", "sent"} :
          pc' = [pc EXCEPT ![c] = p] /\ (p \in Chosen => pc[c] \in Chosen)
    BY <1>6 DEF Adopt, CheckFails, Return, ReturnError, After, Next, Chosen
  <2>3. \A d \in Callers : pc'[d] = IF d = c THEN p ELSE pc[d]
    BY <2>2 DEF Types
  <2> QED BY <2>1, <2>2, <2>3 DEF Sends, Readable
<1>7. ASSUME NEW c \in Callers, AskFails(c) PROVE Sends'
  BY <1>7, SendsMoves DEF AskFails, CheckFails, Return, ReturnError, Chosen, daemon
<1>8. ASSUME NEW c \in Callers, Refused(c) PROVE Sends'
  <2>1. UNCHANGED <<string, had, server, answer, form>> /\ pc' = [pc EXCEPT ![c] = "idle"]
    BY <1>8 DEF Refused, DialErrors, Return, ReturnError, asked, daemon
  <2> QED BY <2>1, SendsMoves DEF Chosen
<1>9. ASSUME NEW c \in Callers, Served(c) PROVE Sends'
  <2>1. UNCHANGED <<string, had, server, answer, form>> /\ pc' = [pc EXCEPT ![c] = "answered"]
    BY <1>9 DEF Served, asked
  <2> QED BY <2>1, SendsMoves DEF Chosen
<1>10. ASSUME NEW c \in Callers, ServerError(c) PROVE Sends'
  <2>1. UNCHANGED <<string, had, server, answer, form>> /\ pc' = [pc EXCEPT ![c] = "answered"]
    BY <1>10 DEF ServerError, asked, daemon
  <2> QED BY <2>1, SendsMoves DEF Chosen
<1>11. ASSUME NEW c \in Callers, Cancel(c) PROVE Sends'
  <2>1. UNCHANGED <<string, had, server, answer, pc, form>> BY <1>11 DEF Cancel, asked, daemon
  <2> QED BY <2>1, SendsStays DEF Sends
<1>12. ASSUME NEW c \in Callers, GiveUp(c) PROVE Sends'
  <2>1. UNCHANGED <<string, had, server, answer, form>> /\ pc' = [pc EXCEPT ![c] = "idle"]
    BY <1>12 DEF GiveUp, Abandon, Return, ReturnError, asked
  <2> QED BY <2>1, SendsMoves DEF Chosen
<1>13. ASSUME NEW c \in Callers, Lost(c) PROVE Sends'
  <2>1. UNCHANGED <<string, had, server, answer, form>> /\ pc' = [pc EXCEPT ![c] = "idle"]
    BY <1>13 DEF Lost, Abandon, Return, ReturnError, asked
  <2> QED BY <2>1, SendsMoves DEF Chosen
<1>14. ASSUME NEW c \in Callers, Receive(c) PROVE Sends'
  <2>1. UNCHANGED <<string, had, server, answer, form>> /\ pc' = [pc EXCEPT ![c] = "idle"]
    BY <1>14 DEF Receive, Return, asked, daemon
  <2> QED BY <2>1, SendsMoves DEF Chosen
<1>15. ASSUME OrphanServed PROVE Sends'
  BY <1>15, SendsStays DEF OrphanServed, Sends, asked
<1>16. ASSUME OthersChange PROVE Sends'
  BY <1>16, SendsStays DEF OthersChange, Sends, asked
<1>17. ASSUME Upgrade PROVE Sends'
  BY <1>17, SendsStays DEF Upgrade, asked, call
<1>18. ASSUME NEW c \in Callers, LookAgain(c) PROVE Sends'
  <2>1. CASE pc' = [pc EXCEPT ![c] = "idle"]
    <3>1. UNCHANGED <<string, had, server, answer>> BY <1>18 DEF LookAgain, asked, daemon
    <3>2. \A d \in Callers : d # c => form'[d] = form[d] BY <1>18 DEF LookAgain, Types
    <3> QED BY <2>1, <3>1, <3>2, SendsMoves DEF Chosen
  <2>2. CASE pc' # [pc EXCEPT ![c] = "idle"]
    <3>1. PICK f \in {form[c], "cacheFrom"} :
            (f = "cacheFrom" => Known(apiVersion125)) /\ form' = [form EXCEPT ![c] = f]
      BY <1>18, <2>2 DEF LookAgain, Return
    <3>2. pc[c] = "look" /\ pc' = [pc EXCEPT ![c] = "do"] /\ UNCHANGED <<string, had, server, answer>>
      BY <1>18, <2>2 DEF LookAgain, Return, asked, daemon
    <3>3. Readable(f)
      <4>1. Readable(form[c]) BY <3>2 DEF Sends, Chosen
      <4>2. CASE f = "cacheFrom" BY <3>1, <4>2 DEF Sends, Readable, Fits, Known
      <4> QED BY <4>1, <4>2
    <3>4. form'[c] = f /\ \A d \in Callers : d # c => form'[d] = form[d] BY <3>1 DEF Types
    <3> QED BY <3>2, <3>3, <3>4, SendsMoves
  <2> QED BY <2>1, <2>2
<1>19. ASSUME UNCHANGED vars PROVE Sends'
  BY <1>19, SendsStays DEF vars, asked, call, daemon, Sends
<1> QED
  BY <1>1, <1>2, <1>3, <1>4, <1>5, <1>6, <1>7, <1>8, <1>9, <1>10, <1>11, <1>12, <1>13, <1>14,
     <1>15, <1>16, <1>17, <1>18, <1>19 DEF NextApi

---------------------------------------------------------------------------
(* What a call returns: while it is under way it has seen the resource as  *)
(* it is, an answer is one to a state it has seen, and a result was so in  *)
(* such a state.                                                           *)

Answered(o, s, S) == s = 500 \/ (s \in Codes /\ \E x, y \in S : Serves(o.on, o.does, x, s, y))
Told(o, s, e, S) ==
  /\ s # 0 => \E x \in S : Means(o, e, x)
  /\ e = "nil" /\ o.via # "hijack" => \E x \in S : Promise(o, x)
HonestOf(c) ==
  /\ pc[c] # "idle" => r[op[c].on] \in seen[c]
  /\ pc[c] \notin {"idle", "answered"} => status[c] = 0
  /\ pc[c] = "answered" => Answered(op[c], status[c], seen[c])
  /\ pc[c] = "idle" => Told(op[c], status[c], result[c], seen[c])
Honest == \A c \in Callers : HonestOf(c)

LEMMA HonestInit == InitApi([Callers -> Nat]) => Honest
BY DEF InitApi, Honest, HonestOf, Told

(* The other callers, when the resources stay as they are and when one has *)
(* a new state.                                                            *)
LEMMA HonestStays ==
  ASSUME NEW d \in Callers, HonestOf(d), pc'[d] = pc[d], op'[d] = op[d], status'[d] = status[d],
         result'[d] = result[d], seen'[d] = seen[d], UNCHANGED r
  PROVE  HonestOf(d)'
BY DEF HonestOf

LEMMA HonestBecomes ==
  ASSUME Types, NEW d \in Callers, HonestOf(d), pc'[d] = pc[d], op'[d] = op[d],
         status'[d] = status[d], result'[d] = result[d], NEW on, NEW x \in States[on], Becomes(on, x)
  PROVE  HonestOf(d)'
<1>1. seen[d] \subseteq seen'[d] /\ (pc[d] = "idle" => seen'[d] = seen[d])
  BY Becoming
<1>2. pc[d] # "idle" /\ r[op[d].on] \in seen[d] => r'[op[d].on] \in seen'[d]
  BY Becoming
<1>3. Answered(op[d], status[d], seen[d]) => Answered(op[d], status[d], seen'[d])
  BY <1>1 DEF Answered
<1> QED BY <1>1, <1>2, <1>3 DEF HonestOf

(* The caller that moves: it goes on without an answer, or returns an      *)
(* error that is not about the resource.                                   *)
LEMMA HonestGoesOn ==
  ASSUME NEW c \in Callers, HonestOf(c), pc[c] \notin {"idle", "answered"},
         pc'[c] \notin {"idle", "answered"}, op'[c] = op[c], status'[c] = status[c],
         seen'[c] = seen[c], UNCHANGED r
  PROVE  HonestOf(c)'
BY DEF HonestOf

LEMMA HonestReturns ==
  ASSUME NEW c \in Callers, HonestOf(c), pc[c] # "idle", op'[c] = op[c], status'[c] = status[c],
         seen'[c] = seen[c], pc'[c] = "idle",
         result'[c] \in Refusals \cup ContextErrors \cup {"ErrConnectionRefused", "dial", "context", "EOF", "checkAPIVersion", "panic"}
  PROVE  HonestOf(c)'
<1>1. result'[c] # "nil" /\ \A x : Means(op[c], result'[c], x)
  BY DEF Means, Refusals, ContextErrors
<1>2. \E x \in seen[c] : Means(op[c], result'[c], x)
  BY <1>1 DEF HonestOf
<1> QED BY <1>1, <1>2 DEF HonestOf, Told

(* What the method returns for the answer was so in a state it has seen.   *)
LEMMA AnswerTold ==
  ASSUME Types, NEW c \in Callers, HonestOf(c), pc[c] = "answered", NEW e \in Results(op[c], status[c])
  PROVE  Told(op[c], status[c], e, seen[c])
<1>1. IsMethod(op[c]) /\ Like(op[c]) /\ r[op[c].on] \in seen[c] /\ seen[c] \subseteq States[op[c].on]
  BY MethodLike DEF Types, HonestOf
<1>2. CASE status[c] = 500
  <2>1. From(op[c], 500, e) BY <1>1, <1>2, ResultsOf
  <2>2. e \in NotOwn /\ ~(e = "nil" /\ op[c].via # "hijack") BY <2>1 DEF From, MayFail
  <2> QED BY <1>1, <2>2, NotOwnMeans DEF Told
<1>3. CASE status[c] # 500
  <2>1. status[c] \in Codes BY <1>3 DEF HonestOf, Answered
  <2>2. PICK x \in seen[c], y \in seen[c] : Serves(op[c].on, op[c].does, x, status[c], y)
    BY <1>3 DEF HonestOf, Answered
  <2>3. PICK a \in DOMAIN OpsOf : op[c] \in OpsOf[a] BY <1>1 DEF IsMethod
  <2>4. /\ Means(op[c], e, x) \/ Means(op[c], e, y)
        /\ e = "nil" /\ op[c].via # "hijack" => Promise(op[c], x) \/ Promise(op[c], y)
    BY <1>1, <2>1, <2>2, <2>3, Sound
  <2> QED BY <2>4 DEF Told
<1> QED BY <1>2, <1>3

LEMMA HonestStep == Types /\ Honest /\ [NextApi]_vars => Honest'
<1> SUFFICES ASSUME Types, Honest, [NextApi]_vars, NEW d \in Callers PROVE HonestOf(d)'
  BY DEF Honest
<1> HonestOf(d) BY DEF Honest
<1>1. ASSUME NEW c \in Callers, Begin(c) PROVE HonestOf(d)'
  <2>1. CASE d # c
    <3>1. /\ pc'[d] = pc[d] /\ op'[d] = op[d] /\ status'[d] = status[d] /\ result'[d] = result[d]
          /\ seen'[d] = seen[d] /\ UNCHANGED r
      <4>1. UNCHANGED r BY <1>1 DEF Begin, daemon
      <4>2. PICK o, q, e : /\ op' = [op EXCEPT ![c] = o] /\ seen' = [seen EXCEPT ![c] = {r[o.on]}]
                           /\ pc' = [pc EXCEPT ![c] = q] /\ result' = [result EXCEPT ![c] = e]
                           /\ status' = [status EXCEPT ![c] = 0]
        BY <1>1, Begins
      <4> QED BY <2>1, <4>1, <4>2 DEF Types
    <3> QED BY <3>1, HonestStays
  <2>2. CASE d = c
    <3>1. PICK o \in OpsOf[area] :
            /\ op' = [op EXCEPT ![c] = o]
            /\ seen' = [seen EXCEPT ![c] = {r[o.on]}]
            /\ pc' \in {[pc EXCEPT ![c] = "lockFirst"], [pc EXCEPT ![c] = "limit"]}
               \/ \E e \in o.empty : pc' = [pc EXCEPT ![c] = "idle"] /\ result' = [result EXCEPT ![c] = e]
      BY <1>1 DEF Begin, Return
    <3>2. "nil" \notin o.empty BY AllMethods DEF Types, Like
    <3>3. op'[c] = o /\ seen'[c] = {r[o.on]} /\ status'[c] = 0 /\ UNCHANGED r
      BY <1>1, <3>1 DEF Begin, Types, daemon
    <3>4. pc'[c] \in {"lockFirst", "limit"} \/ (pc'[c] = "idle" /\ result'[c] \in o.empty)
      BY <3>1 DEF Types
    <3> QED BY <2>2, <3>2, <3>3, <3>4 DEF HonestOf, Told
  <2> QED BY <2>1, <2>2
<1>2. ASSUME NEW c \in Callers, Limit(c) PROVE HonestOf(d)'
  <2>1. CASE d # c
    <3>1. /\ pc'[d] = pc[d] /\ op'[d] = op[d] /\ status'[d] = status[d] /\ result'[d] = result[d]
          /\ seen'[d] = seen[d] /\ UNCHANGED r
      BY <1>2, <2>1 DEF Limit, Return, daemon, Types
    <3> QED BY <3>1, HonestStays
  <2>2. CASE d = c
    <3>1. /\ pc[c] \notin {"idle", "answered"}
          /\ pc'[c] \notin {"idle", "answered"} \/ (pc'[c] = "idle" /\ result'[c] \in Refusals)
          /\ op'[c] = op[c] /\ status'[c] = status[c] /\ seen'[c] = seen[c] /\ UNCHANGED r
      BY <1>2 DEF Limit, Return, daemon, Types
    <3> QED BY <2>2, <3>1, HonestGoesOn, HonestReturns
  <2> QED BY <2>1, <2>2
<1>3. ASSUME NEW c \in Callers, Do(c) PROVE HonestOf(d)'
  <2>1. CASE d # c
    <3>1. /\ pc'[d] = pc[d] /\ op'[d] = op[d] /\ status'[d] = status[d] /\ result'[d] = result[d]
          /\ seen'[d] = seen[d] /\ UNCHANGED r
      BY <1>3, <2>1 DEF Do, daemon, Types
    <3> QED BY <3>1, HonestStays
  <2>2. CASE d = c
    <3>1. /\ pc[c] \notin {"idle", "answered"} /\ pc'[c] \notin {"idle", "answered"}
          /\ op'[c] = op[c] /\ status'[c] = status[c] /\ seen'[c] = seen[c] /\ UNCHANGED r
      BY <1>3 DEF Do, daemon, Types
    <3> QED BY <2>2, <3>1, HonestGoesOn
  <2> QED BY <2>1, <2>2
<1>4. ASSUME NEW c \in Callers, Lock(c) PROVE HonestOf(d)'
  <2>1. CASE d # c
    <3>1. /\ pc'[d] = pc[d] /\ op'[d] = op[d] /\ status'[d] = status[d] /\ result'[d] = result[d]
          /\ seen'[d] = seen[d] /\ UNCHANGED r
      BY <1>4, <2>1 DEF Lock, Next, daemon, Types
    <3> QED BY <3>1, HonestStays
  <2>2. CASE d = c
    <3>1. /\ pc[c] \notin {"idle", "answered"} /\ pc'[c] \notin {"idle", "answered"}
          /\ op'[c] = op[c] /\ status'[c] = status[c] /\ seen'[c] = seen[c] /\ UNCHANGED r
      BY <1>4 DEF Lock, Next, daemon, Types
    <3> QED BY <2>2, <3>1, HonestGoesOn
  <2> QED BY <2>1, <2>2
<1>5. ASSUME NEW c \in Callers, AskServed(c) PROVE HonestOf(d)'
  <2>1. CASE d # c
    <3>1. /\ pc'[d] = pc[d] /\ op'[d] = op[d] /\ status'[d] = status[d] /\ result'[d] = result[d]
          /\ seen'[d] = seen[d] /\ UNCHANGED r
      BY <1>5, <2>1 DEF AskServed, daemon, Types
    <3> QED BY <3>1, HonestStays
  <2>2. CASE d = c
    <3>1. /\ pc[c] \notin {"idle", "answered"} /\ pc'[c] \notin {"idle", "answered"}
          /\ op'[c] = op[c] /\ status'[c] = status[c] /\ seen'[c] = seen[c] /\ UNCHANGED r
      BY <1>5 DEF AskServed, daemon, Types
    <3> QED BY <2>2, <3>1, HonestGoesOn
  <2> QED BY <2>1, <2>2
<1>6. ASSUME NEW c \in Callers, Adopt(c) PROVE HonestOf(d)'
  <2>1. CASE d # c
    <3>1. /\ pc'[d] = pc[d] /\ op'[d] = op[d] /\ status'[d] = status[d] /\ result'[d] = result[d]
          /\ seen'[d] = seen[d] /\ UNCHANGED r
      BY <1>6, <2>1 DEF Adopt, CheckFails, Return, ReturnError, Next, daemon, Types
    <3> QED BY <3>1, HonestStays
  <2>2. CASE d = c
    <3>1. /\ pc[c] \notin {"idle", "answered"}
          /\ pc'[c] \notin {"idle", "answered"} \/ (pc'[c] = "idle" /\ result'[c] \in {"checkAPIVersion", "panic"})
          /\ op'[c] = op[c] /\ status'[c] = status[c] /\ seen'[c] = seen[c] /\ UNCHANGED r
      BY <1>6 DEF Adopt, CheckFails, Return, ReturnError, Next, daemon, Types
    <3> QED BY <2>2, <3>1, HonestGoesOn, HonestReturns
  <2> QED BY <2>1, <2>2
<1>7. ASSUME NEW c \in Callers, AskFails(c) PROVE HonestOf(d)'
  <2>1. CASE d # c
    <3>1. /\ pc'[d] = pc[d] /\ op'[d] = op[d] /\ status'[d] = status[d] /\ result'[d] = result[d]
          /\ seen'[d] = seen[d] /\ UNCHANGED r
      BY <1>7, <2>1 DEF AskFails, CheckFails, Return, ReturnError, daemon, Types
    <3> QED BY <3>1, HonestStays
  <2>2. CASE d = c
    <3>1. /\ pc[c] \notin {"idle", "answered"}
          /\ pc'[c] \notin {"idle", "answered"} \/ (pc'[c] = "idle" /\ result'[c] \in {"checkAPIVersion", "panic"})
          /\ op'[c] = op[c] /\ status'[c] = status[c] /\ seen'[c] = seen[c] /\ UNCHANGED r
      BY <1>7 DEF AskFails, CheckFails, Return, ReturnError, daemon, Types
    <3> QED BY <2>2, <3>1, HonestGoesOn, HonestReturns
  <2> QED BY <2>1, <2>2
<1>8. ASSUME NEW c \in Callers, Refused(c) PROVE HonestOf(d)'
  <2>1. CASE d # c
    <3>1. /\ pc'[d] = pc[d] /\ op'[d] = op[d] /\ status'[d] = status[d] /\ result'[d] = result[d]
          /\ seen'[d] = seen[d] /\ UNCHANGED r
      BY <1>8, <2>1 DEF Refused, DialErrors, Return, ReturnError, daemon, Types
    <3> QED BY <3>1, HonestStays
  <2>2. CASE d = c
    <3>1. /\ pc[c] # "idle" /\ pc'[c] = "idle" /\ result'[c] \in {"ErrConnectionRefused", "dial", "panic"}
          /\ op'[c] = op[c] /\ status'[c] = status[c] /\ seen'[c] = seen[c] /\ UNCHANGED r
      BY <1>8 DEF Refused, DialErrors, Return, ReturnError, daemon, Types
    <3> QED BY <2>2, <3>1, HonestReturns
  <2> QED BY <2>1, <2>2
<1>9. ASSUME NEW c \in Callers, Served(c) PROVE HonestOf(d)'
  <2>1. PICK a \in Serve(op[c].on, op[c].does, r[op[c].on]) :
          Becomes(op[c].on, a[2]) /\ status' = [status EXCEPT ![c] = a[1]]
    BY <1>9 DEF Served
  <2>2. /\ a[2] \in States[op[c].on] /\ a[1] \in Codes
        /\ Serves(op[c].on, op[c].does, r[op[c].on], a[1], a[2])
    BY DEF Serve
  <2>3. CASE d # c
    <3>1. pc'[d] = pc[d] /\ op'[d] = op[d] /\ status'[d] = status[d] /\ result'[d] = result[d]
      BY <1>9, <2>3 DEF Served, Types
    <3> QED BY <2>1, <2>2, <3>1, HonestBecomes
  <2>4. CASE d = c
    <3>1. pc[c] = "sent" /\ pc'[c] = "answered" /\ op'[c] = op[c] /\ status'[c] = a[1]
      BY <1>9, <2>1 DEF Served, Types
    <3>2. r[op[c].on] \in seen[c] BY <2>4, <3>1 DEF HonestOf
    <3>3. a[2] \in seen'[c] /\ r[op[c].on] \in seen'[c] /\ r'[op[c].on] \in seen'[c]
      BY <2>1, <2>2, <3>1, <3>2, Becoming
    <3>4. Answered(op[c], a[1], seen'[c]) BY <2>2, <3>3 DEF Answered
    <3> QED BY <2>4, <3>1, <3>3, <3>4 DEF HonestOf
  <2> QED BY <2>3, <2>4
<1>10. ASSUME NEW c \in Callers, ServerError(c) PROVE HonestOf(d)'
  <2>1. CASE d # c
    <3>1. /\ pc'[d] = pc[d] /\ op'[d] = op[d] /\ status'[d] = status[d] /\ result'[d] = result[d]
          /\ seen'[d] = seen[d] /\ UNCHANGED r
      BY <1>10, <2>1 DEF ServerError, daemon, Types
    <3> QED BY <3>1, HonestStays
  <2>2. CASE d = c
    <3>1. /\ pc[c] = "sent" /\ pc'[c] = "answered" /\ op'[c] = op[c] /\ status'[c] = 500
          /\ seen'[c] = seen[c] /\ UNCHANGED r
      BY <1>10 DEF ServerError, Types, daemon
    <3> QED BY <2>2, <3>1 DEF HonestOf, Answered
  <2> QED BY <2>1, <2>2
<1>11. ASSUME NEW c \in Callers, Cancel(c) PROVE HonestOf(d)'
  <2>1. UNCHANGED <<pc, op, status, result, seen, r>> BY <1>11 DEF Cancel, daemon
  <2> QED BY <2>1, HonestStays
<1>12. ASSUME NEW c \in Callers, GiveUp(c) PROVE HonestOf(d)'
  <2>1. CASE d # c
    <3>1. /\ pc'[d] = pc[d] /\ op'[d] = op[d] /\ status'[d] = status[d] /\ result'[d] = result[d]
          /\ seen'[d] = seen[d] /\ UNCHANGED r
      BY <1>12, <2>1 DEF GiveUp, Abandon, Return, ReturnError, Types
    <3> QED BY <3>1, HonestStays
  <2>2. CASE d = c
    <3>1. /\ pc[c] # "idle" /\ pc'[c] = "idle" /\ result'[c] \in {"context", "panic"}
          /\ op'[c] = op[c] /\ status'[c] = status[c] /\ seen'[c] = seen[c] /\ UNCHANGED r
      BY <1>12 DEF GiveUp, Abandon, Return, ReturnError, Types
    <3> QED BY <2>2, <3>1, HonestReturns
  <2> QED BY <2>1, <2>2
<1>13. ASSUME NEW c \in Callers, Lost(c) PROVE HonestOf(d)'
  <2>1. CASE d # c
    <3>1. /\ pc'[d] = pc[d] /\ op'[d] = op[d] /\ status'[d] = status[d] /\ result'[d] = result[d]
          /\ seen'[d] = seen[d] /\ UNCHANGED r
      BY <1>13, <2>1 DEF Lost, Abandon, Return, ReturnError, Types
    <3> QED BY <3>1, HonestStays
  <2>2. CASE d = c
    <3>1. /\ pc[c] # "idle" /\ pc'[c] = "idle" /\ result'[c] \in {"context", "EOF", "panic"}
          /\ op'[c] = op[c] /\ status'[c] = status[c] /\ seen'[c] = seen[c] /\ UNCHANGED r
      BY <1>13 DEF Lost, Abandon, Return, ReturnError, Types
    <3> QED BY <2>2, <3>1, HonestReturns
  <2> QED BY <2>1, <2>2
<1>14. ASSUME NEW c \in Callers, Receive(c) PROVE HonestOf(d)'
  <2>1. CASE d # c
    <3>1. /\ pc'[d] = pc[d] /\ op'[d] = op[d] /\ status'[d] = status[d] /\ result'[d] = result[d]
          /\ seen'[d] = seen[d] /\ UNCHANGED r
      BY <1>14, <2>1 DEF Receive, Return, daemon, Types
    <3> QED BY <3>1, HonestStays
  <2>2. CASE d = c
    <3>1. PICK e \in Results(op[c], status[c]) :
            pc' = [pc EXCEPT ![c] = "idle"] /\ result' = [result EXCEPT ![c] = e]
      BY <1>14 DEF Receive, Return
    <3>2. /\ pc[c] = "answered" /\ pc'[c] = "idle" /\ result'[c] = e /\ op'[c] = op[c]
          /\ status'[c] = status[c] /\ seen'[c] = seen[c] /\ UNCHANGED r
      BY <1>14, <3>1 DEF Receive, Types, daemon
    <3>3. Told(op[c], status[c], e, seen[c]) BY <2>2, <3>2, AnswerTold
    <3> QED BY <2>2, <3>2, <3>3 DEF HonestOf
  <2> QED BY <2>1, <2>2
<1>15. ASSUME OrphanServed PROVE HonestOf(d)'
  <2>1. PICK q \in orphans : \E a \in Serve(q.on, q.does, r[q.on]) : Becomes(q.on, a[2])
    BY <1>15 DEF OrphanServed
  <2>2. PICK a \in Serve(q.on, q.does, r[q.on]) : Becomes(q.on, a[2])
    BY <2>1
  <2>3. a[2] \in States[q.on] BY DEF Serve
  <2>4. UNCHANGED <<pc, op, status, result>> BY <1>15 DEF OrphanServed
  <2> QED BY <2>2, <2>3, <2>4, HonestBecomes
<1>16. ASSUME OthersChange PROVE HonestOf(d)'
  <2>1. PICK x \in States[area] : Becomes(area, x)
    BY <1>16 DEF OthersChange
  <2>2. UNCHANGED <<pc, op, status, result>> BY <1>16 DEF OthersChange
  <2> QED BY <2>1, <2>2, HonestBecomes
<1>17. ASSUME Upgrade PROVE HonestOf(d)'
  BY <1>17, HonestStays DEF Upgrade, call
<1>18. ASSUME NEW c \in Callers, LookAgain(c) PROVE HonestOf(d)'
  <2>1. CASE d # c
    <3>1. /\ pc'[d] = pc[d] /\ op'[d] = op[d] /\ status'[d] = status[d] /\ result'[d] = result[d]
          /\ seen'[d] = seen[d] /\ UNCHANGED r
      BY <1>18, <2>1 DEF LookAgain, Return, daemon, Types
    <3> QED BY <3>1, HonestStays
  <2>2. CASE d = c
    <3>1. /\ pc[c] \notin {"idle", "answered"}
          /\ pc'[c] \notin {"idle", "answered"} \/ (pc'[c] = "idle" /\ result'[c] \in ContextErrors)
          /\ op'[c] = op[c] /\ status'[c] = status[c] /\ seen'[c] = seen[c] /\ UNCHANGED r
      BY <1>18 DEF LookAgain, Return, daemon, Types
    <3> QED BY <2>2, <3>1, HonestGoesOn, HonestReturns
  <2> QED BY <2>1, <2>2
<1>19. ASSUME UNCHANGED vars PROVE HonestOf(d)'
  BY <1>19, HonestStays DEF vars, call, daemon
<1> QED
  BY <1>1, <1>2, <1>3, <1>4, <1>5, <1>6, <1>7, <1>8, <1>9, <1>10, <1>11, <1>12, <1>13, <1>14,
     <1>15, <1>16, <1>17, <1>18, <1>19 DEF NextApi

---------------------------------------------------------------------------
(* The theorems                                                            *)

Inv == Types /\ Agreed /\ Sends /\ Honest

LEMMA InvInit == InitApi([Callers -> Nat]) => Inv
BY TypesInit, AgreedInit, SendsInit, HonestInit DEF Inv

LEMMA InvStep == Inv /\ [NextApi]_vars => Inv'
BY TypesStep, AgreedStep, SendsStep, HonestStep DEF Inv

LEMMA Invariant == SpecApi => []Inv
BY InvInit, InvStep, PTL DEF SpecApi

(* Every variable has its type, and exactly the caller that asks for the   *)
(* version holds apiVersionMutex.                                          *)
THEOREM Typed == SpecApi => []TypeOK
<1>1. Inv => TypeOK
  <2> HAVE Inv
  <2>1. \A c \in Callers : op[c].on \in DOMAIN States
    BY MethodLike DEF Inv, Types
  <2> QED BY <2>1 DEF Inv, Types, Agreed, TypeOK, Places, Asking
<1> QED BY Invariant, <1>1, PTL

(* However many goroutines begin with a new client, checkAPIVersion keeps  *)
(* one answer, and do, stream and hijack send nothing before it is kept.   *)
THEOREM Settles == SpecApi => []OneVersion
<1>1. Inv => OneVersion BY DEF Inv, Agreed, OneVersion
<1> QED BY Invariant, <1>1, PTL

(* What StartContainer, CopyFromContainer, CreateExec and BuildImage send  *)
(* for the version, one that the daemon has had can read.                  *)
THEOREM Fitting == SpecApi => []FitsDaemon
<1>1. Inv => FitsDaemon BY DEF Inv, Sends, Chosen, Readable, FitsDaemon
<1> QED BY Invariant, <1>1, PTL

(* Whatever others do to the resource, the error or the success that a     *)
(* method of the client returns was so at a moment of the call.            *)
THEOREM Truthful == SpecApi => []ResultsTrue
<1>1. Inv => ResultsTrue BY DEF Inv, Honest, HonestOf, Told, ResultsTrue
<1> QED BY Invariant, <1>1, PTL
=============================================================================
