----------------------------- MODULE ImageWorker -----------------------------
(***************************************************************************)
(* The gateway with the files its worker threads make                      *)
(* (imagegw/shifter_imagegw/imageworker.py, transfer.py, converters.py).   *)
(* ImageMngr keeps what a worker posts; here each step of a pull, an       *)
(* import and an expiry on the files is an action of its own, and goes     *)
(* together with the step of ImageMngr that posts its message.             *)
(*                                                                         *)
(* An image is two files: <id>.<format> and <id>.meta.  A pull builds both *)
(* under these names in ExpandDirectory, which all worker threads and all  *)
(* systems share, copies them to the imageDir of its system and removes    *)
(* them again.  The access lists that protect a private image on a system  *)
(* are those in its metadata file.                                         *)
(***************************************************************************)
EXTENDS ImageMngr

CONSTANTS
  NoMeta,    \* there is no metadata file
  Squash,    \* what mksquashfs may leave: "whole", "broken"
  Breaks     \* where an operation of a worker may raise.  The copy of the
             \* metadata may fail without one ("nometa"); the last chmod of
             \* that copy ("unmeta") and of the image's ("unimage") may fail,
             \* with the file already in place

ASSUME ImageWorkerAssumption ==
  /\ NoMeta \notin ACLs \cup {Public}
  /\ Squash \subseteq {"whole", "broken"}
  /\ Breaks \subseteq {"start", "manifest", "precheck", "check", "convert",
       "squash", "hash", "meta", "announce", "copymeta", "copyimage", "nometa",
       "unmeta", "unimage", "rmmeta", "rmimage"}

VARIABLES
  job,       \* the request each worker thread executes, and how far it is
  stage,     \* ExpandDirectory: the two files of each image id
  store      \* imageDir of each system: the two files of each image id

fvars == <<job, stage, store>>
wvars == <<vars, fvars>>

Image   == {"none", "whole", "broken"}
Meta    == ACLs \cup {Public, NoMeta}
FileSet == [image : Image, meta : Meta]
NoFiles == [image |-> "none", meta |-> NoMeta]
NoJob   == [pc |-> "none"]

WInit ==
  /\ Init
  /\ job = [t \in Threads |-> NoJob]
  /\ stage = [id \in ImageIds |-> NoFiles]
  /\ store = [n \in Systems \X ImageIds |-> NoFiles]

-----------------------------------------------------------------------------
JobTo(t, pc)  == job' = [job EXCEPT ![t].pc = pc]
OnlyJob       == UNCHANGED <<vars, stage, store>>
FilesSame     == UNCHANGED <<stage, store>>

\* Where the system of a request has the files of its image.
Place(t) == <<job[t].task.system, job[t].id>>

\* Mistake: any system will do.
StoredSomewhere(t) ==
  LET there == {s \in Systems : store[s, job[t].id] # NoFiles}
  IN IF there = {} THEN NoFiles
                   ELSE store[CHOOSE s \in there : TRUE, job[t].id]

\* The files of the image a request is about, once that is known.
Staged(t) == stage[job[t].id]
Stored(t) == store[Place(t)]

\* A thread takes a task: a new ImageRequest.
TakeJob(t) ==
  /\ job[t] = NoJob
  /\ Take(t)
  /\ job' = [job EXCEPT ![t] =
       [ pc |-> "start", task |-> Head(pool), id |-> Head(pool).id,
         private |-> FALSE, meta_only |-> FALSE, expanded |-> FALSE,
         imagefile |-> FALSE, metafile |-> FALSE ]]
  /\ FilesSame

\* PULLING, HASHING or EXPIRING is posted.  An import has found its file.
BeginJob(t) ==
  /\ job[t].pc = "start"
  /\ Begin(t)
  /\ JobTo(t, CASE job[t].task.op = "pull"   -> "manifest"
                [] job[t].task.op = "import" -> "hash"
                [] job[t].task.op = "expire" -> "rmmeta")
  /\ FilesSame

\* The registry gives the image of the tag, and says whether it took
\* credentials to see it.
GetManifest(t) ==
  /\ job[t].pc = "manifest"
  /\ \E id \in Images, private \in BOOLEAN :
       /\ private => job[t].task.acl \in ACLs
       /\ job' = [job EXCEPT ![t].id = id, ![t].private = private,
                             ![t].pc = "precheck"]
  /\ OnlyJob

\* Mistake: the files in ExpandDirectory are looked at.
CheckStaged(t) == Staged(t).meta # NoMeta /\ Staged(t).image # "none"

\* _check_image: both files are on the system.
CheckImage(t) == Stored(t).meta # NoMeta /\ Stored(t).image # "none"

\* _pull_dockerv2: the layers are pulled and extracted, unless the image is
\* there.
PullLayers(t) ==
  /\ job[t].pc = "precheck"
  /\ job' = [job EXCEPT ![t].expanded = ~CheckImage(t), ![t].pc = "check"]
  /\ OnlyJob

\* pull checks again when that is done.
CheckAgain(t) ==
  /\ job[t].pc = "check"
  /\ job' = [job EXCEPT ![t].meta_only = CheckImage(t),
                        ![t].pc = IF CheckImage(t) THEN "meta" ELSE "convert"]
  /\ OnlyJob

\* convert: an image file under the name is taken as it is.  Without an
\* expanded tree mksquashfs cannot even be called.
Convert(t) ==
  /\ job[t].pc = "convert"
  /\ job' = [job EXCEPT ![t].imagefile = TRUE,
       ![t].pc = IF Staged(t).image # "none" THEN "meta"
                 ELSE IF job[t].expanded THEN "squash" ELSE "raise"]
  /\ OnlyJob

\* mksquashfs writes a temporary file, which gets its name whatever the
\* exit status was.
MakeSquashfs(t) ==
  /\ job[t].pc = "squash"
  /\ \E image \in Squash : stage' = [stage EXCEPT ![job[t].id].image = image]
  /\ JobTo(t, "meta")
  /\ UNCHANGED <<vars, store>>

HashFile(t) ==
  /\ job[t].pc = "hash"
  /\ job' = [job EXCEPT ![t].id = job[t].task.file, ![t].pc = "meta"]
  /\ OnlyJob

\* The access lists go into the metadata of a private image only.
AccessLists(t) == IF job[t].private THEN job[t].task.acl ELSE Public

WriteMetadata(t) ==
  /\ job[t].pc = "meta"
  /\ stage' = [stage EXCEPT ![job[t].id].meta = AccessLists(t)]
  /\ job' = [job EXCEPT ![t].metafile = TRUE, ![t].pc = "announce"]
  /\ UNCHANGED <<vars, store>>

\* TRANSFER is posted.
BeginTransfer(t) ==
  /\ job[t].pc = "announce"
  /\ Transfer(t)
  /\ JobTo(t, "copymeta")
  /\ FilesSame

\* Mistake: metadata is sent for pulls only.
CopyMetaOfPull(t) ==
  /\ job[t].pc = "copymeta"
  /\ store' = IF job[t].task.op = "import" THEN store ELSE
       [store EXCEPT ![Place(t)].meta = Staged(t).meta]
  /\ JobTo(t, IF job[t].meta_only THEN "ready" ELSE "copyimage")
  /\ UNCHANGED <<vars, stage>>

\* copy_file of the metadata.  transfer ignores that it returns False, when
\* the file is no longer in ExpandDirectory or cannot be sent.  When the
\* chmod after the mv fails, it removes what is in place, whether that
\* succeeds or not, and raises.
CopyMeta(t) ==
  /\ job[t].pc = "copymeta"
  /\ \/ /\ Staged(t).meta # NoMeta
        /\ store' = [store EXCEPT ![Place(t)].meta = Staged(t).meta]
        /\ JobTo(t, IF job[t].meta_only THEN "ready" ELSE "copyimage")
     \/ /\ Staged(t).meta = NoMeta \/ "nometa" \in Breaks
        /\ UNCHANGED store
        /\ JobTo(t, IF job[t].meta_only THEN "ready" ELSE "copyimage")
     \/ /\ "unmeta" \in Breaks /\ Staged(t).meta # NoMeta
        /\ \E meta \in {NoMeta, Staged(t).meta} :
             store' = [store EXCEPT ![Place(t)].meta = meta]
        /\ JobTo(t, "raise")
  /\ UNCHANGED <<vars, stage>>

\* What is sent as the image: an import copies the file of the user.
Sent(t) == IF job[t].task.op = "import" THEN "whole" ELSE Staged(t).image

\* Mistake: the result of the second copy is ignored as well.
CopyRegardless(t) ==
  /\ job[t].pc = "copyimage"
  /\ store' = IF Sent(t) = "none" THEN store ELSE [store EXCEPT ![Place(t)].image = Sent(t)]
  /\ JobTo(t, "ready")
  /\ UNCHANGED <<vars, stage>>

\* The second one must succeed.  import_copy_file has no chmod.
CopyImage(t) ==
  /\ job[t].pc = "copyimage"
  /\ \/ /\ Sent(t) # "none"
        /\ store' = [store EXCEPT ![Place(t)].image = Sent(t)]
        /\ JobTo(t, "ready")
     \/ /\ Sent(t) = "none"
        /\ UNCHANGED store
        /\ JobTo(t, "raise")
     \/ /\ "unimage" \in Breaks /\ job[t].task.op # "import" /\ Sent(t) # "none"
        /\ \E image \in {"none", Sent(t)} :
             store' = [store EXCEPT ![Place(t)].image = image]
        /\ JobTo(t, "raise")
  /\ UNCHANGED <<vars, stage>>

\* READY is posted with the metadata as response; cleaning up comes after.
Ready(t) ==
  /\ job[t].pc = "ready"
  /\ CompleteWith(t,
       [ id        |-> job[t].id,
         acl       |-> IF job[t].task.op = "import" THEN Null
                                                     ELSE AccessLists(t),
         meta_only |-> job[t].meta_only ])
  /\ JobTo(t, "dropimage")
  /\ FilesSame

-----------------------------------------------------------------------------
(* _cleanup_temporary: what this request named, whoever made the file.     *)

DropImage(t) ==
  /\ job[t].pc = "dropimage"
  /\ stage' = IF job[t].imagefile
              THEN [stage EXCEPT ![job[t].id].image = "none"] ELSE stage
  /\ JobTo(t, "dropmeta")
  /\ UNCHANGED <<vars, store>>

\* A failed request is reported once more when the files are gone.
DropMeta(t) ==
  /\ job[t].pc = "dropmeta"
  /\ stage' = IF job[t].metafile
              THEN [stage EXCEPT ![job[t].id].meta = NoMeta] ELSE stage
  /\ IF worker[t].pc = "failed" THEN JobTo(t, "failed")
                                ELSE job' = [job EXCEPT ![t] = NoJob]
  /\ UNCHANGED <<vars, store>>

-----------------------------------------------------------------------------
(* remove_image: rm -f of both files, taken to succeed.                    *)

\* Mistake: the metadata file that is removed is the one still to be sent.
RemoveStagedMeta(t) ==
  /\ job[t].pc = "rmmeta"
  /\ stage' = [stage EXCEPT ![job[t].id].meta = NoMeta]
  /\ JobTo(t, "rmimage")
  /\ UNCHANGED <<vars, store>>

RemoveMeta(t) ==
  /\ job[t].pc = "rmmeta"
  /\ store' = [store EXCEPT ![Place(t)].meta = NoMeta]
  /\ JobTo(t, "rmimage")
  /\ UNCHANGED <<vars, stage>>

RemoveImage(t) ==
  /\ job[t].pc = "rmimage"
  /\ store' = [store EXCEPT ![Place(t)].image = "none"]
  /\ JobTo(t, "expired")
  /\ UNCHANGED <<vars, stage>>

ExpiredJob(t) ==
  /\ job[t].pc = "expired"
  /\ Expired(t)
  /\ job' = [job EXCEPT ![t] = NoJob]
  /\ FilesSame

-----------------------------------------------------------------------------
(* Exceptions.  Each is answered with FAILURE before the clean-up.         *)

Raising(t) ==
  \/ job[t].pc = "raise"
  \/ job[t].pc = "start" /\ job[t].task.op = "import" /\ "start" \in Breaks
  \/ job[t].pc \in Breaks \ {"start"}

\* Mistake: a failed request leaves its files for debugging.
FailUncleaned(t) ==
  /\ Raising(t)
  /\ Fail(t)
  /\ IF job[t].task.op = "expire" THEN job' = [job EXCEPT ![t] = NoJob]
                                  ELSE JobTo(t, "failed")
  /\ FilesSame

FailJob(t) ==
  /\ Raising(t)
  /\ Fail(t)
  /\ IF job[t].task.op = "expire" THEN job' = [job EXCEPT ![t] = NoJob]
                                  ELSE JobTo(t, "dropimage")
  /\ FilesSame

FailJobAgain(t) ==
  /\ job[t].pc = "failed"
  /\ FailAgain(t)
  /\ job' = [job EXCEPT ![t] = NoJob]
  /\ FilesSame

JobStep(t) ==
  \/ TakeJob(t) \/ BeginJob(t) \/ GetManifest(t) \/ PullLayers(t)
  \/ CheckAgain(t) \/ Convert(t) \/ MakeSquashfs(t) \/ HashFile(t)
  \/ WriteMetadata(t) \/ BeginTransfer(t) \/ CopyMeta(t) \/ CopyImage(t)
  \/ Ready(t) \/ DropImage(t) \/ DropMeta(t)
  \/ RemoveMeta(t) \/ RemoveImage(t) \/ ExpiredJob(t)
  \/ FailJob(t) \/ FailJobAgain(t)

\* A restart: the files are what it leaves.
RestartJobs ==
  /\ Restart
  /\ job' = [t \in Threads |-> NoJob]
  /\ FilesSame

WNext ==
  \/ Manage /\ UNCHANGED fvars
  \/ \E t \in Threads : JobStep(t)
  \/ RestartJobs

WSpec == WInit /\ [][WNext]_wvars
-----------------------------------------------------------------------------
(* Properties.                                                             *)

JobPC == {"start", "manifest", "precheck", "check", "convert", "squash",
          "hash", "meta", "announce", "copymeta", "copyimage", "ready",
          "dropimage", "dropmeta", "rmmeta", "rmimage", "expired", "raise",
          "failed"}

Jobs ==
  [ pc : JobPC, task : Tasks, id : ImageIds \cup {NoImage},
    private : BOOLEAN, meta_only : BOOLEAN, expanded : BOOLEAN,
    imagefile : BOOLEAN, metafile : BOOLEAN ]

\* Every variable of the files has its type.
FilesTypeOK ==
  /\ job \in [Threads -> Jobs \cup {NoJob}]
  /\ stage \in [ImageIds -> FileSet]
  /\ store \in [Systems \X ImageIds -> FileSet]

\* Something is still to be done about document i: a task for it waits or
\* runs, or a message about it has not been applied.
Expecting(i) ==
  \/ \E k \in 1..Len(pool) : pool[k].ident = i
  \/ \E t \in Threads : worker[t].pc # "idle" /\ worker[t].task.ident = i
  \/ \E k \in 1..Len(queue) : queue[k].ident = i
  \/ status.pc \notin {"idle", "dead"} /\ i \in {status.ident, status.target}

\* A pull posts READY when its image file is on the system, found there or
\* copied: what clients are told is READY can be mounted.
ImageStored ==
  \A i \in Idents :
    IsReady(images[i]) /\ ~Expecting(i) =>
      store[images[i].system, images[i].id].image # "none"

\* "transfer an image and its metadata to the system": the metadata file is
\* there too.
MetaStored ==
  \A i \in Idents :
    IsReady(images[i]) /\ ~Expecting(i) =>
      store[images[i].system, images[i].id].meta # NoMeta

Quiet ==
  /\ \A t \in Threads : job[t] = NoJob
  /\ pool = <<>> /\ queue = <<>> /\ status = Idle

Lists(acl) == IF acl = Null THEN Public ELSE acl

\* The gateway stores the lists in the Mongo record and writes them in the
\* metadata file: once all work is done, both say who may use the image.
MetaAgrees ==
  Quiet => \A i \in Idents :
    LET meta == store[images[i].system, images[i].id].meta
    IN IsReady(images[i]) /\ meta # NoMeta => meta = Lists(images[i].acl)

\* "Convert the image to the required format": no system gets an image that
\* mksquashfs did not finish.
ImagesWhole ==
  \A s \in Systems, id \in ImageIds : store[s, id].image # "broken"

\* Nothing is left in ExpandDirectory when no request runs: the next
\* conversion would take what it finds there for its own image.
StageEmpty ==
  (\A t \in Threads : job[t] = NoJob) => stage = [id \in ImageIds |-> NoFiles]

\* When no request runs and no copy has failed, a system has both files of
\* an image or neither: _check_image never sees half of one.
FilesPaired ==
  (\A t \in Threads : job[t] = NoJob) =>
    \A s \in Systems, id \in ImageIds :
      (store[s, id].image # "none") <=> (store[s, id].meta # NoMeta)

\* The image file of a READY document, which jobs may have mounted, is
\* neither replaced nor removed by a pull.
ImageStays ==
  [][\A i \in Idents :
       /\ IsReady(images[i])
       /\ store[images[i].system, images[i].id].image # "none"
       => store'[images[i].system, images[i].id].image =
            store[images[i].system, images[i].id].image]_store

=============================================================================
