------------------------------ MODULE Methods ------------------------------
(***************************************************************************)
(* The methods of docker.Client as records: which request a method makes,  *)
(* by which of do, stream and hijack, and what it makes of the answer.     *)
(* Their options and the documents that they send and decode are data that *)
(* is left out; Api runs the records against the daemon.                   *)
(***************************************************************************)
EXTENDS Integers

(* on and does say what the daemon is asked to do; errors are the statuses *)
(* for which the method returns an error of its own; unmodified is its     *)
(* error for 304; ctx: the caller's context goes with the request; empty:  *)
(* the errors, without a request, for an argument that is missing or names *)
(* a file that cannot be opened; first: the method calls checkAPIVersion   *)
(* itself ("always" or when the version is not "known"); limit: what it    *)
(* refuses or leaves out by the version; body: the answer is "read", or    *)
(* read after it was "closed"; eager: resp.Body is used before err is      *)
(* tested. Which of two forms of its document InspectImage decodes, by     *)
(* expectedAPIVersion, is left out with the document.                      *)
NoErrors       == {}
NotFound(name) == {<<404, name>>}
Op(on, does, errors) ==
  [on |-> on, does |-> does, errors |-> errors, unmodified |-> "", via |-> "do",
   ctx |-> TRUE, empty |-> {}, first |-> "", limit |-> "", body |-> "read", eager |-> FALSE]
NoContext(op)           == [op EXCEPT !.ctx = FALSE]
Via(how, op)            == [op EXCEPT !.via = how]
Stream(on, does)        == Via("stream", Op(on, does, NoErrors))
Needs(err, op)          == [op EXCEPT !.empty = @ \cup {err}]
Unmodified(err, op)     == [op EXCEPT !.unmodified = err]
Limited(when, what, op) == [op EXCEPT !.first = when, !.limit = what]
Eager(op)               == [op EXCEPT !.eager = TRUE]
Closed(op)              == [op EXCEPT !.body = "closed"]

(* container.go                                                            *)
OnContainer(does)    == Op("container", does, NotFound("NoSuchContainer"))
ListContainers       == Op("container", "list", NoErrors)
UpdateContainer      == Op("container", "update", NoErrors)
RenameContainer      == Op("container", "rename", NoErrors)
InspectContainer     == OnContainer("inspect")
ContainerChanges     == NoContext(OnContainer("changes"))
(* A 400 with the message "Conflict." is a 409 (4009 here).                *)
CreateContainer ==
  Op("container", "create", NotFound("ErrNoSuchImage") \cup ({409, 4009} \X {"ErrContainerAlreadyExists"}))
StartContainer ==
  Unmodified("ContainerAlreadyRunning", Limited("always", "hostConfig", OnContainer("start")))
StopContainer        == Unmodified("ContainerNotRunning", OnContainer("stop"))
RestartContainer     == NoContext(OnContainer("restart"))
PauseContainer       == NoContext(OnContainer("pause"))
UnpauseContainer     == NoContext(OnContainer("unpause"))
TopContainer         == NoContext(OnContainer("top"))
KillContainer ==
  Op("container", "kill", NotFound("NoSuchContainer") \cup {<<409, "ContainerNotRunning">>})
RemoveContainer      == OnContainer("remove")
UploadToContainer    == Stream("container", "upload")
DownloadFromContainer == Stream("container", "download")
CopyFromContainer ==
  Needs("NoSuchContainer", Limited("known", "copy", OnContainer("copy")))
WaitContainer        == OnContainer("wait")
CommitContainer      == OnContainer("commit")
AttachToContainer ==
  Needs("NoSuchContainer", Via("hijack", NoContext(Op("container", "attach", NoErrors))))
Logs                 == Needs("NoSuchContainer", Stream("container", "logs"))
ResizeContainerTTY   == NoContext(Op("container", "resize", NoErrors))
ExportContainer      == Needs("NoSuchContainer", Stream("container", "export"))
PruneContainers      == Op("container", "prune", NoErrors)
ContainerOps ==
  {ListContainers, UpdateContainer, RenameContainer, InspectContainer, ContainerChanges,
   CreateContainer, StartContainer, StopContainer, RestartContainer, PauseContainer,
   UnpauseContainer, TopContainer, KillContainer, RemoveContainer, UploadToContainer,
   DownloadFromContainer, CopyFromContainer, WaitContainer, CommitContainer, AttachToContainer,
   Logs, ResizeContainerTTY, ExportContainer, PruneContainers}

(* exec.go                                                                 *)
CreateExec           == Limited("", "env", Op("exec", "create", NotFound("NoSuchContainer")))
StartExecDetached    == Needs("NoSuchExec", Op("exec", "start", NotFound("NoSuchExec")))
StartExec            == Needs("NoSuchExec", Via("hijack", NoContext(Op("exec", "start", NoErrors))))
ResizeExecTTY        == NoContext(Op("exec", "resize", NoErrors))
InspectExec          == NoContext(Op("exec", "inspect", NotFound("NoSuchExec")))
ExecOps == {CreateExec, StartExecDetached, StartExec, ResizeExecTTY, InspectExec}

(* image.go, distribution.go                                               *)
OnImage(does)        == Op("image", does, NotFound("ErrNoSuchImage"))
ListImages           == Op("image", "list", NoErrors)
ImageHistory         == NoContext(OnImage("inspect"))
RemoveImage          == NoContext(OnImage("remove"))
RemoveImageExtended  == OnImage("remove")
InspectImage         == NoContext(OnImage("inspect"))
PushImage            == Needs("ErrNoSuchImage", Stream("image", "push"))
PullImage            == Needs("ErrNoSuchImage", Stream("image", "pull"))
LoadImage            == Stream("image", "load")
ExportImage          == Stream("image", "export")
ExportImages         == Needs("ErrMustSpecifyNames", NoContext(Stream("image", "export")))
ImportImage          == Needs("os.Open", Needs("ErrNoSuchImage", Stream("image", "import")))
BuildImage ==
  Needs("ErrMissingOutputStream", Limited("known", "cacheFrom", Stream("image", "build")))
(* Its test for 404 comes after do has made an error of that status.       *)
TagImage             == Needs("ErrNoSuchImage", Op("image", "tag", NoErrors))
SearchImages         == NoContext(Op("image", "search", NoErrors))
SearchImagesEx       == SearchImages
PruneImages          == Op("image", "prune", NoErrors)
InspectDistribution  == NoContext(Op("image", "search", NoErrors))
ImageOps ==
  {ListImages, ImageHistory, RemoveImage, RemoveImageExtended, InspectImage, PushImage, PullImage,
   LoadImage, ExportImage, ExportImages, ImportImage, BuildImage, TagImage, SearchImages,
   SearchImagesEx, PruneImages, InspectDistribution}

(* network.go                                                              *)
ListNetworks         == NoContext(Op("network", "list", NoErrors))
FilteredListNetworks == ListNetworks
NetworkInfo          == NoContext(Op("network", "inspect", NotFound("NoSuchNetwork")))
CreateNetwork        == Op("network", "create", NoErrors)
RemoveNetwork        == NoContext(Op("network", "remove", NotFound("NoSuchNetwork")))
ConnectNetwork       == Op("network", "connect", NotFound("NoSuchNetworkOrContainer"))
DisconnectNetwork    == NoContext(Op("network", "disconnect", NotFound("NoSuchNetworkOrContainer")))
PruneNetworks        == Op("network", "prune", NoErrors)
NetworkOps ==
  {ListNetworks, FilteredListNetworks, NetworkInfo, CreateNetwork, RemoveNetwork, ConnectNetwork,
   DisconnectNetwork, PruneNetworks}

(* volume.go                                                               *)
ListVolumes          == Op("volume", "list", NoErrors)
CreateVolume         == Op("volume", "create", NoErrors)
InspectVolume        == NoContext(Op("volume", "inspect", NotFound("ErrNoSuchVolume")))
RemoveVolumeWithOptions ==
  Op("volume", "remove", NotFound("ErrNoSuchVolume") \cup {<<409, "ErrVolumeInUse">>})
RemoveVolume         == RemoveVolumeWithOptions
PruneVolumes         == Op("volume", "prune", NoErrors)
VolumeOps == {ListVolumes, CreateVolume, InspectVolume, RemoveVolumeWithOptions, RemoveVolume, PruneVolumes}

(* plugin.go: the tests for 404 of the second and third come after another *)
(* return of the same error.                                               *)
ListPlugins          == Op("plugin", "list", NoErrors)
ListFilteredPlugins  == Op("plugin", "list", NoErrors)
GetPluginPrivileges  == Op("plugin", "search", NoErrors)
InstallPlugins       == Eager(Op("plugin", "create", NoErrors))
InspectPlugins       == Closed(Op("plugin", "inspect", NoErrors))
RemovePlugin         == Closed(Op("plugin", "remove", NoErrors))
EnablePlugin         == Eager(Op("plugin", "enable", NoErrors))
DisablePlugin        == Eager(Op("plugin", "disable", NoErrors))
CreatePlugin         == Eager(Op("plugin", "create", NoErrors))
PushPlugin           == Eager(Op("plugin", "push", NoErrors))
ConfigurePlugin      == Eager(Op("plugin", "set", NotFound("NoSuchPlugin")))
PluginOps ==
  {InstallPlugins, ListPlugins, ListFilteredPlugins, GetPluginPrivileges, InspectPlugins, RemovePlugin,
   EnablePlugin, DisablePlugin, CreatePlugin, PushPlugin, ConfigurePlugin}

(* client.go, misc.go, auth.go: the path of Version needs no check.        *)
Ping                 == Op("system", "ping", NoErrors)
Version              == NoContext(Op("system", "version", NoErrors))
Info                 == NoContext(Op("system", "info", NoErrors))
AuthCheck            == Needs("confIsNil", NoContext(Op("system", "auth", NoErrors)))
SystemOps            == {Ping, Version, Info, AuthCheck}
=============================================================================
