# Shifter in TLA+

Shifter runs container images on HPC systems. It has two halves that share
only files and one HTTP interface:

* the **image gateway** (`imagegw/shifter_imagegw`, Python): an API service
  over a Mongo collection of image documents, a pool of worker threads that
  pull, convert and copy images to the file system of a platform, and a status
  process that writes what the workers report back into the collection;
* the **runtime** (`src`, `wlm_integration`, C): set-uid programs and a SLURM
  plugin that mount such an image, the user's volumes and the site's
  modifications into a private view of the file system, and take it down again.

This directory specifies the parts of both whose difficulty lies in the order of
steps, checks them on small instances with TLC, and proves what matters most
for every instance with TLAPS. Paths below are relative to the repository.

## Inventory

| component | state | operations | what is hard, and what makes it correct |
|---|---|---|---|
| Image manager (`imagemngr.py`) | the Mongo collection; pool and status queue; the handler being run | pull, mngrimport, lookup, imglist, show_queue, expire, autoexpire, update_states, update_mongo_state, start-up | every query and update is a step of its own and nothing is a transaction; a tag must name one image, an image be READY once, a result not get lost |
| Image workers (`imageworker.py`, `transfer.py`, `converters.py`) | ExpandDirectory and the imageDir of each system; one request per thread | pull, wrkimport, expire; convert, copy, remove | all threads share file names in ExpandDirectory; any step may raise; READY must mean the files are there |
| Registry client (`dockerv2.py`) | the handle (token, headers, layers left), the shared cache of layers | set up, get the manifest, tokens, check/remove/save/rename a layer, merge the layers | threads share the cache; tokens expire; the merge counts lists and layers apart |
| Gateway API (`api.py`), authentication, utilities | none of their own | parse, call one manager operation, format | no order of steps |
| UDI construction (`shifter_core.c`, `setupRoot.c`, `shifter.c`) | the mounts on udiMountPoint and loopMountPoint, `shifterConfig.json` | loopMount, mount the root, site modifications, bind the image, volumes, save the configuration, remount | any step may fail or be killed half-way; who finds the rest must not take it for whole |
| UDI destruction (`shifter_core.c`, `unsetupRoot.c`) | the list of mounts it has read | destructUDI, unmountTree, validateUnmounted | stacked mounts; one reading of the list; ignored results |
| Mount list (`MountList.c`) | a sorted array of paths | parse, sort, insert, remove, find | binary searches rely on the order insert and sort keep |
| Container start (`shifter.c`) | the namespace of the process, its privileges and environment | isImageLoaded, unshare, loadImage, chroot | reuse of a UDI that somebody else built; namespaces must not leak |
| SLURM plugin (`shifterSpank.c`) | the request of the job, the node's UDI | prolog, epilog, task init, callbacks on the submit host | prolog and epilog may fail independently of the programs they start |
| Volume maps (`VolumeMap.c`) | entries and their flags | parse, validate, pack | which request is let through |
| Image metadata (`ImageData.c`) and `_checkread` | the metadata file | parse, check the lists of users and groups | two programs must agree who may use an image |
| Path list, `shifter_realpath` | a path being resolved | append, strip, follow links | a link must be resolved below the new root |
| sshd in the container | the sshd process, its directory | setupImageSsh, startSshd, killSshd | order with the UDI |
| Configuration (`UdiRootConfig.c`, `utility.c`) | the settings | read lines, assign, choose modules | where a value ends; which modules may go together |
| shifterimg (client) | the last answer, the file of credentials | ask one gateway after the other, poll until the pull ends, log in | agreement on the states of a pull; logins that overlap or are interrupted |
| Torque/Cray scripts, docs, packaging | - | - | no program of the running system |

**Interactions.** Clients call the API, whose handlers call the image manager
in the same process. The manager hands tasks to the thread pool; threads post
messages into one FIFO queue; the status process takes them out and updates
the collection that the handlers query. Threads write metadata and image
files; the runtime reads them. On a compute node the SLURM prolog starts
setupRoot, tasks start shifter, the epilog starts unsetupRoot. They share the
mounts of the node and `shifterConfig.json`, the file in a UDI by which
shifter decides whether it may use it. The tasks of a job are also in a memory
cgroup, by whose list the extern step and the epilog find the processes of
the job.

## Modules

| module | stands for | state | one action per |
|---|---|---|---|
| `ImageDB` | documents of the collection, queries and updates on one document | - | (operators) |
| `ImageMngr` | the whole gateway manager | `images`, `handler`, `pool`, `worker`, `queue`, `status` | query or update of a handler, report of a thread, update of the status process, passing of a threshold of the clock, Mongo failure, restart |
| `Catalog` | abstract: what clients are promised of tags | `catalog`, `results` | delivery, publication, withdrawal |
| `ImageWorker` | `ImageMngr` with the files | adds `job`, `stage`, `store` | operation of a thread on the files, together with the message it posts |
| `Layers` | `extract_docker_layers` | lists of members, the tree | turn of each of the two loops |
| `Registry` | `DockerV2Handle`, cache of layers | `handle`, `cache` | exchange with the registry, operation on the cache |
| `Udi` | the life of a UDI on a node | `proc`, `mnt`, `faults` | step of setupRoot and loadImage, one unmount, each decision of prolog, epilog and shifter |
| `Client` | shifterimg as it asks the gateways | `image`, `changes`, `client` | request, answer, loss of an answer, sleep, next gateway |
| `Login` | `~/.udiRoot/.cred` | `login`, `cred`, `made`, `latest`, `sent` ... | step of a login in one of several shells, command that reads the file |
| `MountList` | the sorted array, `unmountTree`, `_shifterCore_bindMount` | `mounts`, `kernel`, `done` | operation of the list or of its two callers |
| `PathList` | `shifter_realpath` | `path`, `at`, `links`, `result` | turn of the loop |
| `Config` | reader and settings of `udiRoot.conf`, the modules of the site | `lines`, `pairs`, `conf`, `active` ... | load of a file, selection of modules |
| `Metadata` | the metadata file from `writemeta` to `ImageData.c`, and both decisions on who may use an image | `image`, `meta`, `data` | the writer, the reader |
| `Volumes` | volume maps and the mounts made of them | `maps`, `step`, `mounted`, `store` ... | parse of the request, step of the setup of one volume |
| `Exec` | shifter from its options to `execvpe` | `environ`, `env`, `argv`, `who`, `ran` ... | step of main |
| `Job` | the callbacks of the SLURM plugin, over jobs that follow one another | `job`, `extern`, `task`, `udi`, `cgroups`, `procs` ... | step of a callback, each with its error paths, fork, end of the job |
| `ChildLog` | `forkAndExecvLogToSlurm` | `pipe`, `reader`, `logged` ... | line written, line read, end of the child |
| `Site` | `prepareSiteModifications`, and the sshd of a job | `prep`, `siteStep`, `etc`, `groupFile`, `onTop`, `sshd` ... | part of the modifications, each of which may fail |
| `MC...` | instances for TLC | | |
| `ImageMngrProofs`, `CatalogProofs` | theorems about `ImageMngr`, the second those that need the flow of requests | | |
| `ImageWorkerProofs`, `LayersProofs`, `RegistryProofs`, `UdiProofs` | theorems about the module of that name | | |
| `ClientProofs` | theorems about `Client` and `Login` | | |
| `NodeProofs` | theorems about `Job`, `ChildLog` and `MountList` | | |

`ImageWorker` EXTENDS `ImageMngr` and conjoins each of its steps on the files
to a step of `ImageMngr` or to stuttering of it; that it is a refinement is a
theorem. `ImageMngr` implements `Catalog` under a refinement mapping
(`ImplementsCatalog`). `Layers` and `Registry` refine what `ImageWorker` has as
one step (PullLayers, Convert) and are checked by themselves. `Udi` shares with
the gateway only the image, which is a set of mount points there. `MountList`,
`Volumes` and `Site` are what single steps of `Udi` do, `Udi` in turn is two
steps of `Job` (setupRoot and unsetupRoot) and one of `Exec`; `Client` has of
the manager the order in which it reports a pull, and its fairness is what
`PullEnds` says of the manager.

`MCLibrary` composes the eleven modules whose components do not meet while they
run (Layers, Login, MountList, PathList, Config, Metadata, Volumes, Exec, Job,
ChildLog, Site). A variable, `part`, says which of them takes steps; the others
stay in a fixed state. A behaviour of the composition is a behaviour of one
of them, so the states of all add up where a product would multiply them, and
each property is about the part that has a state to violate it.

How the state corresponds:

* **`images`** is the collection: a function from object ids to documents,
  `Absent` where there is none. Dates are kept up to the thresholds the code
  compares them with (`last_pull`: recent, fresh, stale; `last_heartbeat`:
  fresh, old; `expiration`: future, past), and `Age` moves one of them.
* **`handler[h]`** is where a handler is, with what its queries returned. A
  handler goes on with a document it has read although it may have changed.
* **`worker`, `job`**: `ImageMngr` knows only what a thread posts;
  `ImageWorker` adds what it does to the files in between. `stage` is
  ExpandDirectory, `store` the imageDir of each system.
* **`layer_paths`, `tar_file_refs`, `layer_idx`** are the variables of that name
  of `extract_docker_layers`.
* **`cache`** says of each `<blobSum>.tar` whether it is there and sound.
* **`mnt[p].udi`** is the stack of UDIs on udiMountPoint in the namespace of p,
  the topmost first, each with the request it was built for, the mounts in it,
  its `shifterConfig.json`, and whether its root is read-only. `At`, `Reached`
  and `Put` say which namespaces a mount reaches: the node's own, those of a
  shifter once it has made "/" a slave, both of them between unshare and that.
* **`mounts`** is the struct of `MountList.h`: the array and the order it is
  marked with; **`kernel`** is what is mounted, the latest last.
* Strings are words. A path is the sequence of its components (`PathList`) or a
  place (`Volumes`, `MountList`, where a constant gives the order of strcmp
  and what is below what). A line of `udiRoot.conf` is its key, one word and
  whether it ends in a backslash (`Config`); a string in the metadata file is
  of one of four kinds, which its writer and its readers treat differently
  (`Metadata`); a value in an environment is the sequence of the words
  between its colons (`Exec`).
* **`procs`** (`Job`) says of each process of a job what keeps track of it: the
  cgroup, the extern step, or nothing. **`left`** records what the epilogs that
  ended early, or could not do their work, have left of which job; no action
  reads it.
* **`made`** (`Login`) has the credentials in the order of their logins: for what
  entry each is, and whether the user typed it. `latest`, `apart` and `whole` record
  what was saved last, and whether logins overlapped or were interrupted; no
  action of the program reads them.
* **A copy** of `transfer.py` ends in one of the ways copy_file has: the file is in
  place; it is not, and transfer ignores that (metadata, `nometa`) or raises
  (image, `copyimage`); or it was in place and the chmod after the mv failed,
  upon which copy_file removes the target, or fails to, and raises (`unmeta`, `unimage`).
* **`has`** of a UDI may have the ssh of udiImage bound over that of the image
  (`Ssh`), as setupImageSsh does where the image has one; a UDI is whole with or
  without it.

Definitions under the comment "Mistake" are changed forms of a definition next
to them. They are used by no specification: put in the place of that
definition they must make one of the properties fail, which shows that the
property can tell the two apart.

## What the runs check

Each passing run takes between a few seconds and two minutes; `mngr_fault`,
`work_expire` and `library` take up to three. Runs that end with a counterexample take seconds.

### Gateway manager

* **`mngr_pull`** (131k states): pulls and lookups of two tags, a registry that
  gives either of two images, two threads, time passing, one API process.
  `OnePullPerName` is about pulls under way, in the pool or in the hands of a thread:
  each has its record in the collection, and no two are of one name; so no pull
  goes on that the collection does not know of. `ResultHasRecord`:
  complete_pull finds the record of every result. `FailuresCleaned`: update_states
  gets to its end.
  Where these end is shown by `MngrRace`, `MngrStuck` and `MngrPoison`: two API
  processes, autoexpire, a query that fails (see below).
* **`mngr_fault`** (1.2M): pulls, lookups, expiry by request and by date; any
  query may fail, which kills the status process for good, and the gateway may
  restart at any step. `TagUnique`: add_tag never lets a tag name two
  documents. `ReadyUnique`: complete_pull never leaves two READY documents of one
  image. `TaggedHasImage`: a tagged document has the keys that pull and expire
  read unasked. `NoReturnToFlight`: messages come in an order in which no document
  shows a pull again that it has been through. `ImplementsCatalog`: a tag
  leads to at most one image, and only to one that was delivered for it.
* **`mngr_live`** (37k): pulls and imports. `PullEnds` (what is queued is over
  some day) and `TagComesBack` (a tag is away from lookup only while add_tag
  moves it).

### Workers and files

* **`work_threads`** (1.2M): two threads pull one image for two systems, which
  share one ExpandDirectory; mksquashfs breaks, and the copy of the metadata fails in
  every way copy_file has, with what was there before removed or not. `ImageStored`
  (READY means that the image file is on the system): one thread may remove what
  the other is about to copy, but transfer looks at the result of copying the
  image. `StageEmpty`: nothing stays in ExpandDirectory when no request runs.
* **`work_import`** (2.0M): imports beside pulls, which are repeated when they
  are stale; copies of images that copy_file takes back, and restarts between
  any two operations on the files. `ImageStored`; `MetaStored` (the metadata file is
  there too, also of an import that was transferred in two halves); `ImageStays`
  (no request touches the image file of a READY document, which may be mounted).
* **`work_expire`** (1.7M): expiry by request and by date, pulls with and
  without access lists, images past their date and pulls repeated. `FilesPaired`: a
  system has both files of an image or neither.

`WorkShare`, `WorkLate`, `WorkRace` and `WorkAcl` show where these end: metadata with
two threads, expiries of two kinds, access lists (see below).

### Registry

* **`registry`** (78k): two threads pull a public and a private image that
  share a layer, whose file in the cache is damaged at first, while exchanges
  fail, are redirected, are cut off, and tokens expire. `LayersVerified`,
  `StaysSound` (never removes a sound layer but where a damaged one was),
  `PullEnds` (unless the connection was cut or the token expired, see `RegistryToken`).

### UDI

* **`udi`** (148k): jobs one after the other on a node, in each two shifters
  that want one of two images. Every step of a shifter may fail with any part
  of its mounts made, be killed, or fail to unmount, any number of times; one
  such thing goes wrong with the programs of the node. `NodeImage`: who is let
  into the UDI of the node is in the whole of what was asked for. `OwnImage`:
  so is who builds his own, and its root is read-only. `NothingOld`: it is
  built on a clean place. `EpilogCleans`: unsetupRoot leaves nothing.

### Client

* **`client`** (205k): two shifterimg processes pull, poll, look up and expire
  one image through two gateways; answers are lost, gateways are down, processes
  are interrupted, and the image is imported or expired once meanwhile.
  `PullWaits`: the statuses that a blocking pull waits through are all those a
  pull goes through, so that it ends with 0 only when the pull is over, and
  each gateway is asked for what the user wants although polling changes the
  mode. `CommandEnds`: every command returns.

### The components that work alone

**`library`** (1.3M) is the composition of eleven of the modules described above, each
of which works alone; each property is that of one part.

* `Merged`, `MinimalSet` (Layers): every image of up to three layers over a path
  of three nested names. `Merged` compares with the reference definition
  (`Merge`: one layer applied to the tree after the other); `MinimalSet` says how
  the two loops get there: no file is extracted that a later layer writes again or
  deletes. Excluded is one case
  the code does not handle: a file that becomes a directory without a whiteout.
* `CredsCurrent` (Login): logins of two shells overlap as they like, since nothing locks
  the file. What a command sends for an entry was made by a login for that entry;
  while no two logins overlapped it is what the last one made, or nothing while one
  writes the file, or after one was killed there.
* `ListSound`, `UnmountExact` (MountList): the array is in the order it claims
  over every sequence of removals, reversals, and inserts while it is in forward order,
  as all callers insert (`InsertInto`), so that bsearch finds
  what is in it; unmountTree takes what is below its base and nothing else, also
  when some mount does not go.
* `RealpathRight` (PathList): where no ".." is passed, shifter_realpath finds,
  from outside, what the kernel would find inside the container (`Walk`, the
  reference), over all trees of five nodes with links upwards, absolute, to
  themselves and in circles.
* `ConfigSound` (Config): each value reaches _assign as it is meant, over
  continuation lines and comments; the modules in use have no conflict, whichever
  of them lists it and whichever came first.
* `MetaTold` (Metadata): the nodes know what the registry said, although Python
  prints lists that C splits at apostrophes; and they let the same users use a
  private image as the gateway lets look it up.
* `VolumesSound` (Volumes): nothing is mounted on a closed place, also through
  links; each path shows the volume asked for last; no backing file of a
  per-node cache is left; requests with one signature make one UDI as long as
  no volume goes into another.
* `ExecRight` (Exec): hooks and the program run as the user in every respect;
  each variable has the value of the highest source in the documented order.
* `JobsApart` (Job): with everything that may fail in the plugin and in
  what it starts, and processes that fork at any time, the UDI at udiMountPoint is
  made of the image its job's tag meant at submission; a task in ccm mode is in the
  UDI of its own job unless it is in one whose epilog ended early or whose
  unsetupRoot failed; a process outlives its job only when it is in no cgroup, or the
  epilog did not read the cgroup, or it forked while the epilog killed.
* `ChildHeard` (ChildLog): the plugin and setupRoot wait for each other only when
  the child has written more to one stream than to the other, by more than a
  pipe holds; a child that failed is not taken for one that succeeded.
* `SiteSound` (Site): users and groups in the UDI are those of the site; the
  limit of groups is kept; the sshd of a job runs only with a key, in the UDI, as
  the user.

### Where the code does not do what it says

Two runs end with a counterexample to what a comment or document says;
PROJECT.json has them as findings, with the text quoted.

| run | property | what happens |
|---|---|---|
| `registry_login` | `LoginWorks` | do_token_auth sends `Basic b'...'` under Python 3; a pull that needs its credentials never succeeds |
| `udi_incomplete` | `NodeImage` | a bind mount of a part of the image fails, which bindImageIntoUDI does not report; the configuration is saved and shifter takes the UDI for "an image with the exact same options" |

The following instances end with a counterexample too. Each can be checked with
`tlc -config X.cfg M.tla`, where M is MCImageMngr, MCImageWorker, MCRegistry or MCUdi
(`UdiLeak` with `-continue`, to see both); each takes less than a minute.

| cfg | property | what happens |
|---|---|---|
| `MngrRace` | `OnePullPerName` | two API processes on one collection (`WORKERS` above 1, `api.py:348`) both find no pull of a name before either inserts one (`imagemngr.py:532`) |
| `MngrStuck` | `ReadyKept` | autoexpire removes what was not READY when it looked (`imagemngr.py:848`) |
| `MngrPoison` | `FailuresCleaned` | pull() hands the request to the pool before it sets `last_pull`; if the handler fails in between and the pull fails, update_states raises a KeyError in every later call |
| `MngrRepull` | `ResultHasRecord` | an expired document carries the name of a pull in flight; a further pull removes the record of that one |
| `WorkShare` | `MetaStored` | two threads share the names in ExpandDirectory; one removes the metadata the other is about to copy, which transfer does not notice |
| `WorkLate` | `ImageStored` | expire() takes a document of any status: one that is EXPIRED and still has its tag leads to the files of the image that was pulled again |
| `WorkRace` | `ImageStored` | an expiry removes the files that a pull in another thread has just found there |
| `WorkAcl` | `MetaAgrees` | a pull of an image that is there with other lists: the metadata file gets the new ones, the document keeps the old ones |
| `WorkSquash` | `ImagesWhole` | the exit status of mksquashfs is ignored |
| `RegistryToken` | `PullOutlivesToken` | save_layer asks with the old headers for ever |
| `UdiLeak` | `EpilogCleans` | two UDIs on top of each other: destructUDI reads the mounts once, takes the upper one apart, and fails |
| `UdiLeak` | `NodeImage` | the lower one, taken apart in part, still has its configuration, which the next job matches |
| `UdiTorn` | `NodeImage` | unsetupRoot is killed; mounts are gone, the configuration is not |
| `UdiWritable` | `ReadonlyRoot` | the configuration is saved before the root is made read-only, and that fails |

In `MngrRace` the two handlers share one pool and one status process. With
`WORKERS` above 1 each API process has its own; sharing them allows no
step that the pools apart would not, and the insertion of two records does
not depend on it.

Small changes of passing instances end with a counterexample, too:
`ListsCompared` when imports are added to `MngrPull` (an import stores lists
None, of which _compare_list takes the length), `OnePullPerName` there when
heartbeats get old (`Clock` with "old": pull() takes a pull whose record was not
written for an hour to be dead, by design, `imagemngr.py:464`, and starts
another), `MetaStored` in `WorkImport` and `FilesPaired` in `WorkExpire` when the copy
of the metadata fails (`Breaks` with "nometa" or "unmeta"), and `ImageStays` in
`WorkThreads`, where an image whose metadata was lost is copied again. `ImageStored`
with two threads needs a chmod that works ("unimage" not in `Breaks`): one
thread may be removing what the other has copied.

`Claims.cfg` has claims of comments and documents about the components that work
alone. TLC finds each of them violated, within seconds when `Parts` is set to the
component and INVARIANTS to the property of the row (MCLibrary.tla):

| property | the text | what the code does |
|---|---|---|
| `NothingUnder` | "not interested in mounting over existing mounts", `shifter_core.c:2713` | bindMount tries three times to unmount what is there and then mounts on top |
| `RealpathStandard` | "perform standard realpath operation", `shifter_core.h:166` | ".." takes a name off the path as it is written, before a link in its place is followed |
| `ReadAsMeant` | "check to see if value extends over multiple lines", `utility.c:105` | getline's -1 is unsigned: the last line is taken twice, and is a setting of its own when it ended a longer value and has a delimiter |
| `MetaToldAll` | the metadata file has what the gateway knows of an image | an apostrophe spoils a list, a backslash at the end of a string takes in the next line |
| `SignatureSame` | "different invocations of the same request are seen as identical", `VolumeMap.c:741` | so are different requests: volumes are sorted for the signature and mounted in their order |
| `ShellFirst` | "$SHELL or /bin/sh will be attempted", `shifter.c:658` | main clears the environment (131) before calculate_args asks for $SHELL: it is /bin/sh always |
| `CgroupsRemoved` | "remove the empty cgroups", `shifterSpank.c:1258` | the loop starts at the NULL behind the last component, where it ends: none is removed |
| `MismatchSeen` | "the shifter executable can be relied upon to detect the mismatch", `shifterSpank.c:990` | unsetupRoot fails; a task in ccm mode of the next job enters the UDI that was left, without shifter |
| `AllKilled` | "kill all the processes in the cgroup tasks", `shifterSpank.c:1244` | a process that forks while the epilog goes through the list it has read escapes |
| `Ordered` | "maintaining sorted status", `MountList.c:184` | lines 220 and 222 test for the same order: an insert into a reversed list leaves it out of order (no caller does that) |
| `LoginSaved` | login stores the credential for later requests, `doc/PrivateImagesAndACLS.md:40` | two logins overlap: the second writes back what it read before the first wrote |
| `TypedSent` | the same | doLogin goes on when the prompt fails: "(null):(null)" is saved, in place of what was there, and sent |
| `AllHeard` | what setupRoot and unsetupRoot write is logged | reading ends with the stream that ends first |
| `Unlimited` | "maximum number of groups to write out for user, 0 for unlimited", `shifter_core.c:2964` | with 0 the user is in no group |
| `AllGroups` | "Stub entries for all remaining groups will be added", `shifter_core.c:2958` | strtok skips an empty password field, which drops the line; groups with gid 0 are dropped |
| `EtcWhole` | "copy image /etc into place", `shifter_core.c:1235` | files of FILE_SIZE_LIMIT and more are not copied |

## Bounds, and why they are enough

* **Gateway.** `MaxPool` 1 and `MaxQueue` 2: a thread or handler waits where
  the code would append, so no order of what is appended is lost; with them two
  tasks can be in progress and one waiting, and two messages of different
  requests can be in the queue. Two object ids let a document be replaced while
  the old one is still in use, three in `mngr_pull` let two pulls and a READY
  document meet. One or two tags and images are enough for each conflict there
  is (same tag and another image, another tag and the same image). One handler:
  `WORKERS` is 1 by default, the API process runs one request at a time; `MngrRace`
  has two.
* **Workers.** Two threads in `work_threads`, where they share ExpandDirectory, one
  where requests follow one another. Two systems or two types let one image be
  asked for twice at a time. What time does is in each run what its requests
  react to: "stale" makes a pull be repeated, "past" an image expire, "old" a
  heartbeat run out, "fresh" other access lists count.
  Symmetry is used over ids, systems, tags and images, in runs of safety
  properties only.
* **Layers.** `MaxLayers` 3: a layer to be crossed off, one that does it, and
  one in between or excluded. Three nested paths: a directory above, the member,
  and what is below it.
* **Client.** Two processes and two gateways: one pull meets the poll, the expiry
  or the look-up of another, and a process has a gateway to fall back to, once.
* **The components that work alone.** Each has an input for every branch:
  a name that begins like another and one below another (`MountList`), links up,
  down and absolute, of which `MaxLinks` 4 are followed, more than five nodes need
  without a circle (`PathList`), entries of one and two lines and every
  pair of module settings (`Config`), each kind of string in each key
  (`Metadata`), up to three volumes with all flags (`Volumes`), each option and
  source of a variable on and off (`Exec`), two jobs, the second of which finds
  what the first left, and forks while there is one process more (`Job`), three logins
  of two shells for two systems and two locations (`Login`), every order of six lines
  with pipes that hold two (`ChildLog`), up to three groups and limits below,
  at and above their number (`Site`).
* **Registry.** A layer shared by both images, one that only one has.
* **UDI.** `Tries` 2 for the 10 of the code: the second try starts where the
  first failed, as do all others. `MaxFaults` 1 counts what goes wrong with
  the programs of the node, each of which leaves something to the following jobs
  for ever, and so bounds the stack; the instances with 2 are the
  counterexamples above. Faults of shifters are not counted. Jobs come one after
  another; for a job on a shared node the prolog does nothing.

## Fairness

`mngr_live`: weak fairness of each handler (the event loop runs it to its
end), each thread (the pool runs what it has taken) and the status process (a
loop around `queue.get`). Nothing makes clients send requests, Mongo fail
or the clock move; `Age` is without fairness. `registry`: weak fairness of the
steps of each pull; expiry of tokens and failures are never owed. `client`: weak
fairness of each process (it is a loop without locks), of the answer to a
request or the timeout of the transport, and of the pull that is polled, which
ends by `PullEnds`. `udi` and `library` need none. Deadlock is checked except in
`library`, whose programs end, and `registry`, where a thread whose connection
was cut reads for ever.

## What is proved

For all values of the constants that meet the ASSUMEs of a module, which say
that the special values are distinct and that tables have their types.

* **`ImageMngrProofs`**: `Invariance`, `TypeCorrect`, `TagsAreUnique`,
  `ReadyImagesAreUnique`, `TaggedDocumentsHaveImages`. The invariant is
  TypeOK, HandlerInv, StatusInv and DocInv. Uniqueness of tags alone is not
  inductive: the status process is between its two updates while handlers
  remove and insert documents. StatusInv says what it knows of the collection
  at each point (the tag is off every other document; the target is READY and
  the only one of its image), and a step of anybody else is *tame* when it
  gives no document a tag, an id or READY; that tame steps keep
  StatusInv and DocInv is one lemma, and what is left are the steps of the
  status process.
* **`CatalogProofs`**, for any number of API processes and threads, with failing
  queries and restarts: `RequestsFlow` (Inv /\ Flow), `OverStaysOver`
  (NoReturnToFlight), `MngrImplementsCatalog` (ImplementsCatalog). Flow follows
  a request from the insertion of its document to the status process: it is in
  one place only (HoldOne, Once), its document has not been published before it
  gets there (EarlyFresh), its messages are in the queue in the order in which
  they make sense (InOrder), and what the status process is writing leads to an
  image that was delivered (TargetImage). The refinement has a lemma per action:
  SetReady and the drop of a duplicate deliver a result, Retag publishes it,
  whatever takes a document or a tag away withdraws a name, all else stutters.

  Three properties of the manager hold only when something else does, and TLC has
  a counterexample without it, so the theorems have it as a hypothesis:
  - `CleaningGoesOn` (FailuresCleaned) for one API process and no failing query
    (`Alone`, `Faults` empty; `MngrPoison` has the counterexample). A document is without
    last_pull only while the handler that inserted it is about to stamp it.
  - `OnePullAtATime` (OnePullPerName) and `ResultsHaveRecords` (ResultHasRecord) for
    one API process, requests without access lists and imports (`NoLists`:
    new_pull_record looks for documents of the same lists), no failing query or
    restart, no expiry, and no heartbeat an hour old (`Calm`; `MngrRace` and
    `MngrRepull` have counterexamples; after an hour pull() takes a pull to be dead and
    starts another by design). They hold however long the pool, the
    threads and the status process take. The invariant says (OnePullInv) that what
    shows a pull in progress of the name is on the list of what the handler removes
    before it inserts, and (RecordInv) that a pull in progress has its document,
    which shows it; that a pull ends once; that a name has at most one document that is
    not READY; and that what a handler removes is the document of a pull that
    failed. Neither is inductive without the other and without the theorems
    before.
* **`ImageWorkerProofs`**: `WorkerImplementsMngr` (every step on the files is a
  step of ImageMngr or stutters, so the theorems above hold with the files),
  `FilesTypeCorrect`, `NothingLeftBehind` (without restarts, each file in
  ExpandDirectory belongs to a thread that has yet to remove it). What the
  collection says of the systems needs hypotheses, each with a counterexample:
  - `ReadyImagesAreStored` (ImageStored) when nothing is expired (`NeverExpire`;
    `WorkLate` and `WorkRace` have the counterexamples): for any number of API processes
    and threads, whatever raises, is not copied or restarts, if the chmod that
    copy_file ends with works for images; and where it may fail, so that copy_file
    removes what is in place, under `Orderly`. The invariant
    (StoredInv) follows the image file from the request to the document: it is on
    the system from the moment a thread has found or copied it, while READY waits
    in the queue, while update_states writes the document, and as long as the
    document has that id. For that all that is under way for a document must be for
    its system (SystemKept), and what a duplicate or an older document takes over in
    update_states must be the result that was delivered (Flow, with its clause
    about the id). With a failing chmod no pull may copy an image that is there,
    which CoverInv says.
  - `MetadataIsStored` (MetaStored) and `MountedImagesStay` (ImageStays) for one
    worker thread, no expiry and metadata that can be copied (`Orderly`; `WorkShare` has
    the counterexample for two threads), whatever becomes of the copy of the image. What
    a thread is about to copy is in ExpandDirectory (SoleInv); an image on a system
    has its metadata, and a pull copies an image only where there is none (CoverInv). The
    second also assumes that an imported file and an image of a registry never have
    one hash (`HashesApart`): an import copies without looking.
  - `FilesGoInPairs` (FilesPaired) for one worker thread, no restart and no failing
    copy of either file or removal of an image (`Careful`), with expiries. An image
    without metadata, or metadata without an image, belongs to the request that is
    between the two files (PairInv).
* **`LayersProofs`**: `ListsAreMinimal`, `FilesHaveRoom`. The lists keep in
  step with the references to tar files although excluded layers have none
  (LoopInv), and what the tree has at a path was left on the list of some
  layer already extracted (TreeInv). `LayersMerge` (Merged), for any number of layers
  over any paths: when extract_docker_layers is done the tree is what one layer
  applied after the other makes. Merge is a fold, which is opened into a function
  over numbers; from there the proof is first-order: the tree Merge makes shows
  at a path what the latest layer shows that is not gone by a later one
  (`ShowsAt`, `Gone`, `Shows`, found by the least number of a set), the two loops
  take from the lists exactly what is gone (`Kept`), and MergeInv says so for the
  layers already extracted.
* **`RegistryProofs`**: `RegistryInvariance`, `RegistryTypeCorrect`,
  `LayersAreVerified`, `SoundLayersStay`. What is left of an image is an end of
  its manifest; the layer being fetched is not damaged; a thread removes a file
  only where one was damaged at first.
* **`UdiProofs`**: `UdiInvariance`, `UdiTypeCorrect`, `NothingOldBelow`,
  `OwnImageWhole` (when bind mounts that fail are reported; with the ssh that
  setupImageSsh binds over that of the image, or without),
  `NodeStaysUntouched`. The invariant says for each program which namespace it
  is in and, for a shifter, what is in its UDI at each step (`Filled`). The
  parts are independent: at work a program reaches its own namespace only
  (`AtWork`), and the node's programs do not move while a shifter lives
  (`NodeAlone`). So one lemma per step suffices.

  `NodeImageWhole` (NodeImage) and `EpilogCleansUp` (EpilogCleans), for any number of
  jobs and shifters, have the hypothesis `Recoverable`: no mount of the image goes
  unreported, unsetupRoot is not killed, a mount that does not unmount does so
  within the ten tries of destructUDI, and where an epilog may end before it gets
  to unsetupRoot and setupRoot may fail, no more than one thing goes wrong. Each part is
  needed and has its counterexample: `udi_incomplete`, `UdiTorn`, `Tries` faults of
  kind "umount", and `UdiLeak`. What NodeImage says of the shifter that
  is let in needs to be known of the mounts of the node at all times: `Held` says
  that there is at most one UDI and one loop device, and at each step of setupRoot
  and destructUDI how much of the UDI there is; it is whole when a
  configuration is found beside it (`Found`) unless a job has gone wrong whose epilog
  is still to come.

* **`ClientProofs`**: `PollsToTheEnd`, `ClientTypeCorrect`, `PullsWait` (PullWaits)
  for any number of processes and gateways, with lost answers, interrupts and
  imports meanwhile. The invariant (`Fine`) says for each point of a process what
  mode it asks in and what it may have been answered. `CredsAreCurrent`
  (CredsCurrent), for any number of shells whose logins overlap: each line of the file
  is of the entry its credential was made for, also where writers cut each other's
  lines; and while no two overlapped, the file, and the list that a login has read
  of it, have for every entry what was given for it last, or nothing.
* **`NodeProofs`**: `UdiIsMeant` (the image of a UDI) and `JobsStayApart`
  (JobsApart) for any number of jobs and processes, whatever fails in the plugin, in
  setupRoot and in unsetupRoot, and whatever forks and when. What an epilog may leave
  is in the property: the UDI when it ended early or unsetupRoot failed, processes when
  it did not read the cgroup or one forked while it killed. The one hypothesis
  (`LocalByCcm`) is that no request names the image
  "/": `--image=local:/ --ccm` passes validate_input (`shifterSpank.c:623`), and in a
  job with another image its task is put into the UDI of that image. The
  invariant (`JobApart`) says of each process of a job that has a cgroup: it is in the
  cgroup, or the extern step has it, or is about to take it over, or it is of a job
  whose epilog left it. `ChildIsHeard`
  (ChildHeard) for programs of any length and pipes of any size: what the two have
  read and written of a stream are beginnings of the program, so that who waits
  for whom follows from counting lines.

  `ListStaysSound` (ListSound) and `UnmountsExactly` (UnmountExact), for lists into
  which mounts are inserted in forward order only, as all callers do (`InsertsForward`;
  `Ordered` has the counterexample), of any length, any paths and orders of strcmp, and any mounts that do not go. The
  invariant (`MountInv`) says that the array is in the order it claims and, while
  nothing else is mounted (`alone`), that the kernel has no mount twice and the
  list has the mounts of the kernel. bsearch, parse_MountList and unmountTree
  are functions over numbers and folds: two lemmas say that such a function
  exists and what each of its rounds does (`RoundsExist`, `FoldExists`), and one that what
  each round keeps holds in the end (`NumberInduction`). `FindFinds` shows that bsearch finds what is in a
  sorted array, by the entries outside the half that is left; `UnmountGood` that
  unmountTree takes mounts at or below its base only and leaves none of the list
  when it returns 0.

Model-checked only:

* liveness (`PullEnds`, `TagComesBack`, `CommandEnds`) is out of the prover's reach;
* `RealpathRight` compares with a definition by recursion over links (`Walk`),
  which keeps its module away from the provers;
* `VolumesSound`, `ConfigSound`, `MetaTold`, `ExecRight` and `SiteSound` are about operators that go
  through lists, the most of them with SelectSeq, which has no definition the
  provers can expand. Folds and functions over numbers can be opened, as for `Layers`
  and `MountList`; for these five it has not been done.
## What is left out, and what comes next

Not modelled: the API's parsing and formatting, authentication (munge, which has
no state here), paths of programs, the scripts for Torque and Cray, docs,
packaging and CI. None of them has an order of steps; what they call is modelled.

Left out of the modules above: sessions, metrics, the wording of answers;
temporary names of files being copied; formats but squashfs; the remote command
line; skopeo and umoci; parsing of manifests; the listing of images by
shifterimg; the line USER and DISABLE_ACL_METADATA in the metadata file;
more than a thousand ids on a list, which end the reader; the copy of
udiImage, hooks inside the root and the look-up of users; sizes of per-node
caches; the working directory of the program and its signals.
prepareSiteModifications cleans up after itself with destructUDI, the other steps
do not; both are modelled. The ten looks at /proc/mounts after destructUDI in
loadImage are one, since nobody else changes that namespace.

Known to be hard and without a property in a run: a failed expiry posts FAILURE
for a document that is READY (`imageworker.py:400`); copy_file leaves its temporary
file when cp returns an error (`transfer.py:233`); lists None of an import
(`imagemngr.py:287`, `ListsCompared`); the status of mksquashfs
(`converters.py:86`, see `WorkSquash`); a directory in the place of a file
without a whiteout (`dockerv2.py:669`).

What comes next are theorems about `SiteSound` and `ExecRight`, whose folds are of the kind that `RoundsExist` and
   `FoldExists` open.
