-------------------------- MODULE ImageWorkerProofs --------------------------
(***************************************************************************)
(* Theorems about ImageWorker, for any number of API processes, systems    *)
(* and images.  Each names what it assumes of threads, requests and faults.*)
(***************************************************************************)
EXTENDS ImageWorker, CatalogProofs

-----------------------------------------------------------------------------
(* What a request knows at each point.                                     *)

\* The image id is known from the manifest or the hash on; an expiry makes
\* no files, and nothing is made before the conversion.
KnownPC == {"precheck", "check", "convert", "squash", "meta", "announce",
            "copymeta", "copyimage", "ready"}
EarlyPC == {"start", "manifest", "precheck", "check", "hash", "rmmeta",
            "rmimage", "expired"}

JobFacts(j) ==
  /\ j.pc \in KnownPC => j.id \in ImageIds /\ j.task.op # "expire"
  /\ j.pc \in EarlyPC => ~j.imagefile /\ ~j.metafile
  /\ j.pc = "squash" => j.imagefile
  /\ j.pc = "hash" => j.task.op = "import"
  /\ j.pc = "manifest" => j.task.op = "pull"
  /\ j.task.op = "expire" => j.pc \in {"start", "rmmeta", "rmimage", "expired"}
  /\ j.private => j.task.acl \in ACLs

JobInv == \A t \in Threads : job[t] # NoJob => JobFacts(job[t])

FInv == Inv /\ FilesTypeOK /\ JobInv

LEMMA JobTyped ==
  ASSUME FilesTypeOK, JobInv, NEW t \in Threads, job[t].pc # "none"
  PROVE  /\ job[t] \in Jobs /\ job[t] # NoJob /\ JobFacts(job[t])
         /\ job[t].task \in Tasks
BY DEF FilesTypeOK, JobInv, NoJob, Jobs

\* A request moves on, or is over.
LEMMA JobMoves ==
  ASSUME FilesTypeOK, JobInv, NEW t \in Threads, NEW j \in Jobs, JobFacts(j),
         job' = [job EXCEPT ![t] = j]
  PROVE  job' \in [Threads -> Jobs \cup {NoJob}] /\ JobInv'
BY DEF FilesTypeOK, JobInv

LEMMA JobEnds ==
  ASSUME FilesTypeOK, JobInv, NEW t \in Threads, job' = [job EXCEPT ![t] = NoJob]
  PROVE  job' \in [Threads -> Jobs \cup {NoJob}] /\ JobInv'
BY DEF FilesTypeOK, JobInv

LEMMA JobToMoves ==
  ASSUME FilesTypeOK, JobInv, NEW t \in Threads, job[t].pc # "none",
         NEW pc \in JobPC, JobTo(t, pc),
         LET j == [job[t] EXCEPT !.pc = pc] IN JobFacts(j)
  PROVE  job' \in [Threads -> Jobs \cup {NoJob}] /\ JobInv'
<1> DEFINE j == [job[t] EXCEPT !.pc = pc]
<1>1. j \in Jobs
  BY JobTyped DEF Jobs
<1>2. job' = [job EXCEPT ![t] = j]
  BY DEF JobTo
<1>3. JobFacts(j)
  OBVIOUS
<1> HIDE DEF j
<1>4. QED
  BY <1>1, <1>2, <1>3, JobMoves

-----------------------------------------------------------------------------
(* The steps of a request keep what it knows.                              *)

LEMMA TakeJobFacts ==
  ASSUME FInv, NEW t \in Threads, TakeJob(t)
  PROVE  job' \in [Threads -> Jobs \cup {NoJob}] /\ JobInv'
<1> DEFINE j == [ pc |-> "start", task |-> Head(pool), id |-> Head(pool).id,
                  private |-> FALSE, meta_only |-> FALSE, expanded |-> FALSE,
                  imagefile |-> FALSE, metafile |-> FALSE ]
<1>1. Head(pool) \in Tasks
  BY DEF TakeJob, Take, FInv, Inv, TypeOK
<1>2. j \in Jobs
  BY <1>1 DEF Jobs, JobPC, Tasks
<1>3. JobFacts(j)
  BY DEF JobFacts, KnownPC
<1>4. job' = [job EXCEPT ![t] = j]
  BY DEF TakeJob
<1> HIDE DEF j
<1>5. QED
  BY <1>2, <1>3, <1>4, JobMoves DEF FInv

LEMMA BeginJobFacts ==
  ASSUME FInv, NEW t \in Threads, BeginJob(t)
  PROVE  job' \in [Threads -> Jobs \cup {NoJob}] /\ JobInv'
<1>1. /\ job[t].pc = "start" /\ job[t] \in Jobs /\ JobFacts(job[t])
      /\ job[t].task.op \in {"pull", "import", "expire"}
  BY JobTyped DEF BeginJob, FInv, Tasks
<1>2. PICK pc \in {"manifest", "hash", "rmmeta"} :
        /\ JobTo(t, pc)
        /\ pc = "hash" => job[t].task.op = "import"
        /\ pc = "manifest" => job[t].task.op = "pull"
        /\ job[t].task.op = "expire" => pc = "rmmeta"
  BY <1>1 DEF BeginJob
<1>3. LET j == [job[t] EXCEPT !.pc = pc] IN JobFacts(j)
  BY <1>1, <1>2 DEF JobFacts, Jobs, KnownPC, EarlyPC
<1>4. QED
  BY <1>1, <1>2, <1>3, JobToMoves DEF FInv, JobPC

LEMMA GetManifestFacts ==
  ASSUME FInv, NEW t \in Threads, GetManifest(t)
  PROVE  job' \in [Threads -> Jobs \cup {NoJob}] /\ JobInv'
<1>1. job[t].pc = "manifest" /\ job[t] \in Jobs /\ JobFacts(job[t])
  BY JobTyped DEF GetManifest, FInv
<1>2. PICK id \in Images, private \in BOOLEAN :
        /\ private => job[t].task.acl \in ACLs
        /\ job' = [job EXCEPT ![t].id = id, ![t].private = private,
                              ![t].pc = "precheck"]
  BY DEF GetManifest
<1> DEFINE j == [job[t] EXCEPT !.id = id, !.private = private, !.pc = "precheck"]
<1>3. j \in Jobs
  BY <1>1 DEF Jobs, JobPC, ImageIds
<1>4. JobFacts(j)
  BY <1>1, <1>2 DEF JobFacts, Jobs, KnownPC, EarlyPC, ImageIds
<1>5. job' = [job EXCEPT ![t] = j]
  BY <1>2
<1> HIDE DEF j
<1>6. QED
  BY <1>3, <1>4, <1>5, JobMoves DEF FInv

LEMMA PullLayersFacts ==
  ASSUME FInv, NEW t \in Threads, PullLayers(t)
  PROVE  job' \in [Threads -> Jobs \cup {NoJob}] /\ JobInv'
<1>1. job[t].pc = "precheck" /\ job[t] \in Jobs /\ JobFacts(job[t])
  BY JobTyped DEF PullLayers, FInv
<1> DEFINE j == [job[t] EXCEPT !.expanded = ~CheckImage(t), !.pc = "check"]
<1>2. j \in Jobs
  BY <1>1 DEF Jobs, JobPC, CheckImage
<1>3. JobFacts(j)
  BY <1>1 DEF JobFacts, Jobs, KnownPC, EarlyPC
<1>4. job' = [job EXCEPT ![t] = j]
  BY DEF PullLayers
<1> HIDE DEF j
<1>5. QED
  BY <1>2, <1>3, <1>4, JobMoves DEF FInv

LEMMA CheckAgainFacts ==
  ASSUME FInv, NEW t \in Threads, CheckAgain(t)
  PROVE  job' \in [Threads -> Jobs \cup {NoJob}] /\ JobInv'
<1>1. job[t].pc = "check" /\ job[t] \in Jobs /\ JobFacts(job[t])
  BY JobTyped DEF CheckAgain, FInv
<1> DEFINE pc == IF CheckImage(t) THEN "meta" ELSE "convert"
           j == [job[t] EXCEPT !.meta_only = CheckImage(t), !.pc = pc]
<1>2. j \in Jobs
  BY <1>1 DEF Jobs, JobPC, CheckImage
<1>3. JobFacts(j)
  BY <1>1 DEF JobFacts, Jobs, KnownPC, EarlyPC
<1>4. job' = [job EXCEPT ![t] = j]
  BY DEF CheckAgain
<1> HIDE DEF j
<1>5. QED
  BY <1>2, <1>3, <1>4, JobMoves DEF FInv

LEMMA ConvertFacts ==
  ASSUME FInv, NEW t \in Threads, Convert(t)
  PROVE  job' \in [Threads -> Jobs \cup {NoJob}] /\ JobInv'
<1>1. job[t].pc = "convert" /\ job[t] \in Jobs /\ JobFacts(job[t])
  BY JobTyped DEF Convert, FInv
<1>2. PICK pc \in {"meta", "squash", "raise"} :
        job' = [job EXCEPT ![t].imagefile = TRUE, ![t].pc = pc]
  BY DEF Convert
<1> DEFINE j == [job[t] EXCEPT !.imagefile = TRUE, !.pc = pc]
<1>3. j \in Jobs
  BY <1>1 DEF Jobs, JobPC
<1>4. JobFacts(j)
  BY <1>1 DEF JobFacts, Jobs, KnownPC, EarlyPC
<1>5. job' = [job EXCEPT ![t] = j]
  BY <1>2
<1> HIDE DEF j
<1>6. QED
  BY <1>3, <1>4, <1>5, JobMoves DEF FInv

LEMMA HashFileFacts ==
  ASSUME FInv, NEW t \in Threads, HashFile(t)
  PROVE  job' \in [Threads -> Jobs \cup {NoJob}] /\ JobInv'
<1>1. /\ job[t].pc = "hash" /\ job[t] \in Jobs /\ JobFacts(job[t])
      /\ job[t].task \in Tasks
  BY JobTyped DEF HashFile, FInv
<1>2. job[t].task.op = "import" /\ job[t].task.file \in Files
  BY <1>1 DEF JobFacts, Tasks
<1> DEFINE j == [job[t] EXCEPT !.id = job[t].task.file, !.pc = "meta"]
<1>3. j \in Jobs
  BY <1>1, <1>2 DEF Jobs, JobPC, ImageIds
<1>4. JobFacts(j)
  BY <1>1, <1>2 DEF JobFacts, Jobs, KnownPC, EarlyPC, ImageIds
<1>5. job' = [job EXCEPT ![t] = j]
  BY DEF HashFile
<1> HIDE DEF j
<1>6. QED
  BY <1>3, <1>4, <1>5, JobMoves DEF FInv

LEMMA WriteMetadataFacts ==
  ASSUME FInv, NEW t \in Threads, WriteMetadata(t)
  PROVE  job' \in [Threads -> Jobs \cup {NoJob}] /\ JobInv'
<1>1. job[t].pc = "meta" /\ job[t] \in Jobs /\ JobFacts(job[t])
  BY JobTyped DEF WriteMetadata, FInv
<1> DEFINE j == [job[t] EXCEPT !.metafile = TRUE, !.pc = "announce"]
<1>2. j \in Jobs
  BY <1>1 DEF Jobs, JobPC
<1>3. JobFacts(j)
  BY <1>1 DEF JobFacts, Jobs, KnownPC, EarlyPC
<1>4. job' = [job EXCEPT ![t] = j]
  BY DEF WriteMetadata
<1> HIDE DEF j
<1>5. QED
  BY <1>2, <1>3, <1>4, JobMoves DEF FInv

\* Whatever else the other steps do, they move the request from one point to
\* another, or end it.
Turns ==
  { <<"squash", "meta">>, <<"announce", "copymeta">>, <<"copymeta", "ready">>,
    <<"copymeta", "copyimage">>, <<"copymeta", "raise">>, <<"copyimage", "ready">>,
    <<"copyimage", "raise">>, <<"ready", "dropimage">>,
    <<"dropimage", "dropmeta">>, <<"dropmeta", "failed">>,
    <<"rmmeta", "rmimage">>, <<"rmimage", "expired">> }

LEMMA MoveFacts ==
  ASSUME FInv, NEW t \in Threads, NEW m \in Turns, job[t].pc = m[1],
         JobTo(t, m[2])
  PROVE  job' \in [Threads -> Jobs \cup {NoJob}] /\ JobInv'
<1>1. m[2] \in JobPC /\ m[1] # "none"
  BY DEF Turns, JobPC
<1>2. job[t] \in Jobs /\ JobFacts(job[t])
  BY <1>1, JobTyped DEF FInv
<1>3. LET j == [job[t] EXCEPT !.pc = m[2]] IN JobFacts(j)
  BY <1>2 DEF JobFacts, Jobs, KnownPC, EarlyPC, Turns
<1>4. QED
  BY <1>1, <1>3, JobToMoves DEF FInv

LEMMA FailJobFacts ==
  ASSUME FInv, NEW t \in Threads, FailJob(t)
  PROVE  job' \in [Threads -> Jobs \cup {NoJob}] /\ JobInv'
<1>1. job[t].pc # "none"
  BY ImageWorkerAssumption DEF FailJob, Raising
<1>2. CASE job' = [job EXCEPT ![t] = NoJob]
  BY <1>2, JobEnds DEF FInv
<1>3. CASE job[t].task.op # "expire" /\ JobTo(t, "dropimage")
  <2>1. job[t] \in Jobs /\ JobFacts(job[t])
    BY <1>1, JobTyped DEF FInv
  <2>2. LET j == [job[t] EXCEPT !.pc = "dropimage"] IN JobFacts(j)
    BY <1>3, <2>1 DEF JobFacts, Jobs, KnownPC, EarlyPC
  <2>3. QED
    BY <1>1, <1>3, <2>2, JobToMoves DEF FInv, JobPC
<1>4. QED
  BY <1>2, <1>3 DEF FailJob

LEMMA JobStepKeepsJobs ==
  ASSUME FInv, NEW t \in Threads, JobStep(t)
  PROVE  job' \in [Threads -> Jobs \cup {NoJob}] /\ JobInv'
<1>1. CASE MakeSquashfs(t)
  BY <1>1, MoveFacts DEF MakeSquashfs, Turns
<1>2. CASE BeginTransfer(t)
  BY <1>2, MoveFacts DEF BeginTransfer, Turns
<1>3. CASE CopyMeta(t)
  <2>1. PICK pc \in {"ready", "copyimage", "raise"} : JobTo(t, pc)
    BY <1>3 DEF CopyMeta
  <2>2. <<"copymeta", pc>> \in Turns
    BY DEF Turns
  <2>3. QED
    BY <1>3, <2>1, <2>2, MoveFacts DEF CopyMeta
<1>4. CASE CopyImage(t)
  <2>1. PICK pc \in {"ready", "raise"} : JobTo(t, pc)
    BY <1>4 DEF CopyImage
  <2>2. <<"copyimage", pc>> \in Turns
    BY DEF Turns
  <2>3. QED
    BY <1>4, <2>1, <2>2, MoveFacts DEF CopyImage
<1>5. CASE Ready(t)
  BY <1>5, MoveFacts DEF Ready, Turns
<1>6. CASE DropImage(t)
  BY <1>6, MoveFacts DEF DropImage, Turns
<1>7. CASE DropMeta(t)
  BY <1>7, MoveFacts, JobEnds DEF DropMeta, Turns, FInv
<1>8. CASE RemoveMeta(t)
  BY <1>8, MoveFacts DEF RemoveMeta, Turns
<1>9. CASE RemoveImage(t)
  BY <1>9, MoveFacts DEF RemoveImage, Turns
<1>10. CASE ExpiredJob(t) \/ FailJobAgain(t)
  BY <1>10, JobEnds DEF ExpiredJob, FailJobAgain, FInv
<1>11. QED
  BY <1>1, <1>2, <1>3, <1>4, <1>5, <1>6, <1>7, <1>8, <1>9, <1>10,
     TakeJobFacts, BeginJobFacts, GetManifestFacts, PullLayersFacts,
     CheckAgainFacts, ConvertFacts, HashFileFacts, WriteMetadataFacts,
     FailJobFacts
  DEF JobStep

-----------------------------------------------------------------------------
(* The files.                                                              *)

LEMMA ListsTyped ==
  ASSUME FInv, NEW t \in Threads, job[t].pc # "none"
  PROVE  /\ AccessLists(t) \in ACLs \cup {Public}
         /\ AccessLists(t) \in Access /\ AccessLists(t) # NoMeta
BY JobTyped, ImageWorkerAssumption DEF FInv, AccessLists, JobFacts, Access

\* One file changes.
LEMMA StageImageTyped ==
  ASSUME FInv, NEW id, NEW image \in Image,
         stage' = [stage EXCEPT ![id].image = image]
  PROVE  stage' \in [ImageIds -> FileSet]
BY DEF FInv, FilesTypeOK, FileSet

LEMMA StageMetaTyped ==
  ASSUME FInv, NEW id, NEW meta \in Meta,
         stage' = [stage EXCEPT ![id].meta = meta]
  PROVE  stage' \in [ImageIds -> FileSet]
BY DEF FInv, FilesTypeOK, FileSet

LEMMA StoreImageTyped ==
  ASSUME FInv, NEW s \in Systems, NEW id, NEW image \in Image,
         store' = [store EXCEPT ![<<s, id>>].image = image]
  PROVE  store' \in [Systems \X ImageIds -> FileSet]
BY DEF FInv, FilesTypeOK, FileSet

LEMMA StoreMetaTyped ==
  ASSUME FInv, NEW s \in Systems, NEW id, NEW meta \in Meta,
         store' = [store EXCEPT ![<<s, id>>].meta = meta]
  PROVE  store' \in [Systems \X ImageIds -> FileSet]
BY DEF FInv, FilesTypeOK, FileSet

LEMMA StageTyped ==
  ASSUME FInv, NEW t \in Threads, JobStep(t)
  PROVE  stage' \in [ImageIds -> FileSet]
<1>1. CASE UNCHANGED stage
  BY <1>1 DEF FInv, FilesTypeOK
<1>2. CASE MakeSquashfs(t)
  <2>1. PICK image \in Squash : stage' = [stage EXCEPT ![job[t].id].image = image]
    BY <1>2 DEF MakeSquashfs
  <2>2. image \in Image
    BY ImageWorkerAssumption DEF Image
  <2>3. QED
    BY <2>1, <2>2, StageImageTyped
<1>3. CASE WriteMetadata(t)
  <2>1. AccessLists(t) \in Meta
    BY <1>3, ListsTyped DEF WriteMetadata, Meta
  <2>2. stage' = [stage EXCEPT ![job[t].id].meta = AccessLists(t)]
    BY <1>3 DEF WriteMetadata
  <2>3. QED
    BY <2>1, <2>2, StageMetaTyped
<1>4. CASE DropImage(t)
  <2>1. "none" \in Image
    BY DEF Image
  <2>2. CASE stage' = [stage EXCEPT ![job[t].id].image = "none"]
    BY <2>1, <2>2, StageImageTyped
  <2>3. QED
    BY <1>1, <1>4, <2>2 DEF DropImage
<1>5. CASE DropMeta(t)
  <2>1. NoMeta \in Meta
    BY DEF Meta
  <2>2. CASE stage' = [stage EXCEPT ![job[t].id].meta = NoMeta]
    BY <2>1, <2>2, StageMetaTyped
  <2>3. QED
    BY <1>1, <1>5, <2>2 DEF DropMeta
<1>6. QED
  BY <1>1, <1>2, <1>3, <1>4, <1>5
  DEF JobStep, TakeJob, BeginJob, GetManifest, PullLayers, CheckAgain, Convert,
      HashFile, BeginTransfer, CopyMeta, CopyImage, Ready, RemoveMeta,
      RemoveImage, ExpiredJob, FailJob, FailJobAgain, OnlyJob, FilesSame

LEMMA StoreTyped ==
  ASSUME FInv, NEW t \in Threads, JobStep(t)
  PROVE  store' \in [Systems \X ImageIds -> FileSet]
<1>1. CASE UNCHANGED store
  BY <1>1 DEF FInv, FilesTypeOK
<1>2. job[t].pc # "none" => job[t].task.system \in Systems
  BY JobTyped DEF FInv, Tasks
<1>3. job[t].pc \in KnownPC => Staged(t) \in FileSet
  BY JobTyped DEF FInv, KnownPC, JobFacts, FilesTypeOK, Staged
<1> DEFINE s == job[t].task.system
           id == job[t].id
<1>4. CASE CopyMeta(t)
  <2>1. Staged(t).meta \in Meta /\ s \in Systems /\ NoMeta \in Meta
    BY <1>2, <1>3, <1>4 DEF CopyMeta, FileSet, KnownPC, Meta
  <2>2. CASE \E meta \in {NoMeta, Staged(t).meta} :
               store' = [store EXCEPT ![<<s, id>>].meta = meta]
    <3>1. PICK meta \in {NoMeta, Staged(t).meta} :
            store' = [store EXCEPT ![<<s, id>>].meta = meta]
      BY <2>2
    <3>2. meta \in Meta
      BY <2>1, <3>1
    <3> HIDE DEF s, id
    <3> QED
      BY <2>1, <3>1, <3>2, StoreMetaTyped
  <2>3. QED
    BY <1>1, <1>4, <2>2 DEF CopyMeta, Place
<1>5. CASE CopyImage(t)
  <2>1. Sent(t) \in Image /\ s \in Systems /\ "none" \in Image
    BY <1>2, <1>3, <1>5 DEF CopyImage, FileSet, KnownPC, Image, Sent
  <2>2. CASE \E image \in {"none", Sent(t)} :
               store' = [store EXCEPT ![<<s, id>>].image = image]
    <3>1. PICK image \in {"none", Sent(t)} :
            store' = [store EXCEPT ![<<s, id>>].image = image]
      BY <2>2
    <3>2. image \in Image
      BY <2>1, <3>1
    <3> HIDE DEF s, id
    <3> QED
      BY <2>1, <3>1, <3>2, StoreImageTyped
  <2>3. QED
    BY <1>1, <1>5, <2>2 DEF CopyImage, Place
<1>6. CASE RemoveMeta(t)
  <2>1. /\ s \in Systems /\ NoMeta \in Meta
        /\ store' = [store EXCEPT ![<<s, id>>].meta = NoMeta]
    BY <1>2, <1>6 DEF RemoveMeta, Place, Meta
  <2> HIDE DEF s, id
  <2>2. QED
    BY <2>1, StoreMetaTyped
<1>7. CASE RemoveImage(t)
  <2>1. /\ s \in Systems /\ "none" \in Image
        /\ store' = [store EXCEPT ![<<s, id>>].image = "none"]
    BY <1>2, <1>7 DEF RemoveImage, Place, Image
  <2> HIDE DEF s, id
  <2>2. QED
    BY <2>1, StoreImageTyped
<1>8. QED
  BY <1>1, <1>4, <1>5, <1>6, <1>7
  DEF JobStep, TakeJob, BeginJob, GetManifest, PullLayers, CheckAgain, Convert,
      MakeSquashfs, HashFile, WriteMetadata, BeginTransfer, Ready, DropImage,
      DropMeta, ExpiredJob, FailJob, FailJobAgain, OnlyJob, FilesSame

-----------------------------------------------------------------------------
(* The manager sees nothing new.                                           *)

\* A step of a request is a step of the worker thread, or changes only
\* files.
LEMMA JobStepMngr ==
  ASSUME FInv, NEW t \in Threads, JobStep(t)
  PROVE  WorkerStep(t) \/ UNCHANGED vars
<1>1. CASE Ready(t)
  <2> DEFINE resp == [ id        |-> job[t].id,
                       acl       |-> IF job[t].task.op = "import" THEN Null
                                                     ELSE AccessLists(t),
                       meta_only |-> job[t].meta_only ]
  <2>1. /\ job[t] \in Jobs /\ job[t].id \in ImageIds
        /\ AccessLists(t) \in Access
    BY <1>1, JobTyped, ListsTyped DEF Ready, FInv, JobFacts, KnownPC
  <2>2. resp \in Responses
    BY <2>1 DEF Responses, Jobs, Access
  <2>3. CompleteWith(t, resp)
    BY <1>1 DEF Ready
  <2> HIDE DEF resp
  <2>4. QED
    BY <2>2, <2>3 DEF WorkerStep, Complete
<1>2. QED
  BY <1>1
  DEF JobStep, TakeJob, BeginJob, GetManifest, PullLayers, CheckAgain, Convert,
      MakeSquashfs, HashFile, WriteMetadata, BeginTransfer, CopyMeta, CopyImage,
      DropImage, DropMeta, RemoveMeta, RemoveImage, ExpiredJob, FailJob,
      FailJobAgain, OnlyJob, WorkerStep

LEMMA StepMngr ==
  ASSUME FInv, [WNext]_wvars
  PROVE  [Next]_vars
BY JobStepMngr DEF WNext, RestartJobs, Next, wvars

LEMMA FilesInit == WInit => FInv
<1> SUFFICES ASSUME WInit PROVE FInv
  OBVIOUS
<1>1. Inv
  BY InitInv DEF WInit
<1>2. FilesTypeOK
  BY DEF WInit, FilesTypeOK, FileSet, NoFiles, Image, Meta
<1>3. JobInv
  BY DEF WInit, JobInv
<1>4. QED
  BY <1>1, <1>2, <1>3 DEF FInv

LEMMA FilesNext ==
  ASSUME FInv, [WNext]_wvars
  PROVE  FInv'
<1>1. Inv'
  BY StepMngr, NextInv DEF FInv
<1>2. ASSUME NEW t \in Threads, JobStep(t)
      PROVE  FilesTypeOK' /\ JobInv'
  BY <1>2, JobStepKeepsJobs, StageTyped, StoreTyped DEF FilesTypeOK
<1>3. CASE UNCHANGED fvars
  BY <1>1, <1>3 DEF FInv, FilesTypeOK, JobInv, fvars
<1>4. CASE RestartJobs
  BY <1>1, <1>4 DEF FInv, FilesTypeOK, JobInv, RestartJobs, FilesSame
<1>5. QED
  BY <1>1, <1>2, <1>3, <1>4 DEF FInv, WNext, wvars

\* With everything the threads do to files, the gateway is still the one of
\* ImageMngr: what is proved of that one holds of this one.
THEOREM WorkerImplementsMngr == WSpec => Spec /\ []FInv
<1>1. WInit => Init
  BY DEF WInit
<1>2. FInv /\ [WNext]_wvars => [Next]_vars
  BY StepMngr
<1>3. FInv /\ [WNext]_wvars => FInv'
  BY FilesNext
<1>4. QED
  BY <1>1, <1>2, <1>3, FilesInit, PTL DEF WSpec, Spec

\* Requests and files always have their types.
THEOREM FilesTypeCorrect == WSpec => []FilesTypeOK
<1>1. FInv => FilesTypeOK
  BY DEF FInv
<1>2. QED
  BY <1>1, WorkerImplementsMngr, PTL

-----------------------------------------------------------------------------
(* Nobody leaves files behind.                                             *)

\* A request answers for the files it named until it has dropped them.
HoldsImage(j, id) ==
  j.pc \notin {"none", "dropmeta", "failed"} /\ j.imagefile /\ j.id = id
HoldsMeta(j, id) ==
  j.pc \notin {"none", "failed"} /\ j.metafile /\ j.id = id

\* Every file in ExpandDirectory has a request that answers for it.
StageOwned ==
  \A id \in ImageIds :
    /\ stage[id].image # "none" => \E t \in Threads : HoldsImage(job[t], id)
    /\ stage[id].meta # NoMeta => \E t \in Threads : HoldsMeta(job[t], id)

\* A step that lets no file appear, and gives none out of hand.
LEMMA OwnedKept ==
  ASSUME FInv, StageOwned, NEW t \in Threads,
         \A u \in Threads \ {t} : job'[u] = job[u],
         \A id \in ImageIds :
           /\ stage'[id].image # "none" =>
                \/ /\ stage[id].image # "none"
                   /\ HoldsImage(job[t], id) => HoldsImage(job'[t], id)
                \/ HoldsImage(job'[t], id)
           /\ stage'[id].meta # NoMeta =>
                \/ /\ stage[id].meta # NoMeta
                   /\ HoldsMeta(job[t], id) => HoldsMeta(job'[t], id)
                \/ HoldsMeta(job'[t], id)
  PROVE  StageOwned'
<1>1. ASSUME NEW id \in ImageIds, stage'[id].image # "none"
      PROVE  \E u \in Threads : HoldsImage(job'[u], id)
  BY <1>1 DEF StageOwned
<1>2. ASSUME NEW id \in ImageIds, stage'[id].meta # NoMeta
      PROVE  \E u \in Threads : HoldsMeta(job'[u], id)
  BY <1>2 DEF StageOwned
<1>3. QED
  BY <1>1, <1>2 DEF StageOwned, HoldsImage, HoldsMeta

LEMMA JobStepOwned ==
  ASSUME FInv, StageOwned, NEW t \in Threads, JobStep(t)
  PROVE  StageOwned'
<1>1. /\ job \in [Threads -> Jobs \cup {NoJob}]
      /\ stage \in [ImageIds -> FileSet]
  BY DEF FInv, FilesTypeOK
<1>2. \A u \in Threads \ {t} : job'[u] = job[u]
  BY <1>1
  DEF JobStep, TakeJob, BeginJob, GetManifest, PullLayers, CheckAgain, Convert,
      MakeSquashfs, HashFile, WriteMetadata, BeginTransfer, CopyMeta, CopyImage,
      Ready, DropImage, DropMeta, RemoveMeta, RemoveImage, ExpiredJob, FailJob,
      FailJobAgain, JobTo
<1>3. job[t].pc # "none" => job[t] \in Jobs /\ JobFacts(job[t])
  BY JobTyped DEF FInv
\* Files the same, and the request answers for what it named.
<1>4. ASSUME UNCHANGED stage,
             \A id \in ImageIds :
               /\ HoldsImage(job[t], id) => HoldsImage(job'[t], id)
               /\ HoldsMeta(job[t], id) => HoldsMeta(job'[t], id)
      PROVE  StageOwned'
  BY <1>2, <1>4, OwnedKept
\* Nothing named, nothing to answer for.
<1>5. job[t].pc \in EarlyPC \cup {"none"}
        => \A id : ~HoldsImage(job[t], id) /\ ~HoldsMeta(job[t], id)
  BY <1>3 DEF HoldsImage, HoldsMeta, JobFacts, EarlyPC
<1>6. CASE /\ job[t].pc \in EarlyPC \cup {"none"}
           /\ UNCHANGED stage
  BY <1>4, <1>5, <1>6
<1>7. CASE TakeJob(t) \/ BeginJob(t) \/ GetManifest(t) \/ PullLayers(t)
             \/ CheckAgain(t) \/ HashFile(t) \/ RemoveMeta(t) \/ RemoveImage(t)
             \/ ExpiredJob(t)
  <2>1. job[t].pc \in EarlyPC \cup {"none"}
    <3>1. CASE TakeJob(t)
      BY <3>1 DEF TakeJob, NoJob
    <3>2. CASE ~TakeJob(t)
      BY <1>7, <3>2
      DEF BeginJob, GetManifest, PullLayers, CheckAgain, HashFile,
          RemoveMeta, RemoveImage, ExpiredJob, EarlyPC
    <3>3. QED
      BY <3>1, <3>2
  <2>2. UNCHANGED stage
    BY <1>7
    DEF TakeJob, BeginJob, GetManifest, PullLayers, CheckAgain, HashFile,
        RemoveMeta, RemoveImage, ExpiredJob, OnlyJob, FilesSame
  <2>3. QED
    BY <1>6, <2>1, <2>2
<1>8. CASE Convert(t)
  <2>1. /\ job'[t].pc \in {"meta", "squash", "raise"} /\ job'[t].imagefile
        /\ job'[t].metafile = job[t].metafile /\ job'[t].id = job[t].id
        /\ UNCHANGED stage
    BY <1>1, <1>3, <1>8 DEF Convert, OnlyJob, Jobs
  <2>2. QED
    BY <1>4, <1>8, <2>1 DEF HoldsImage, HoldsMeta, Convert
<1>9. CASE BeginTransfer(t) \/ CopyMeta(t) \/ CopyImage(t) \/ Ready(t)
  <2>1. /\ job[t].pc # "none"
        /\ job'[t].pc \in {"copymeta", "copyimage", "ready", "raise", "dropimage"}
        /\ job'[t].imagefile = job[t].imagefile
        /\ job'[t].metafile = job[t].metafile /\ job'[t].id = job[t].id
        /\ UNCHANGED stage
    BY <1>1, <1>3, <1>9
    DEF BeginTransfer, CopyMeta, CopyImage, Ready, JobTo, FilesSame, Jobs
  <2>2. QED
    BY <1>4, <1>9, <2>1
    DEF HoldsImage, HoldsMeta, BeginTransfer, CopyMeta, CopyImage, Ready
<1>10. CASE FailJob(t)
  <2>1. job[t].pc # "none"
    BY <1>10, ImageWorkerAssumption DEF FailJob, Raising
  <2>2. CASE job[t].task.op = "expire"
    BY <1>3, <1>6, <1>10, <2>1, <2>2 DEF FailJob, FilesSame, JobFacts, EarlyPC
  <2>3. CASE job[t].task.op # "expire"
    <3>1. /\ job'[t].pc = "dropimage" /\ job'[t].imagefile = job[t].imagefile
          /\ job'[t].metafile = job[t].metafile /\ job'[t].id = job[t].id
          /\ UNCHANGED stage
      BY <1>1, <1>3, <1>10, <2>1, <2>3 DEF FailJob, JobTo, FilesSame, Jobs
    <3>2. QED
      BY <1>4, <3>1 DEF HoldsImage, HoldsMeta
  <2>4. QED
    BY <2>2, <2>3
<1>11. CASE FailJobAgain(t)
  BY <1>4, <1>11 DEF FailJobAgain, FilesSame, HoldsImage, HoldsMeta
<1>12. CASE MakeSquashfs(t)
  <2>1. /\ job[t].pc = "squash" /\ job'[t].pc = "meta" /\ job[t].imagefile
        /\ job'[t].imagefile = job[t].imagefile
        /\ job'[t].metafile = job[t].metafile /\ job'[t].id = job[t].id
    BY <1>1, <1>3, <1>12 DEF MakeSquashfs, JobTo, Jobs, JobFacts
  <2>2. \A id \in ImageIds : /\ id # job[t].id => stage'[id] = stage[id]
                             /\ stage'[id].meta = stage[id].meta
    BY <1>1, <1>12 DEF MakeSquashfs, FileSet
  <2>3. QED
    BY <1>2, <2>1, <2>2, OwnedKept DEF HoldsImage, HoldsMeta
<1>13. CASE WriteMetadata(t)
  <2>1. /\ job[t].pc = "meta" /\ job'[t].pc = "announce" /\ job'[t].metafile
        /\ job'[t].imagefile = job[t].imagefile /\ job'[t].id = job[t].id
    BY <1>1, <1>3, <1>13 DEF WriteMetadata, Jobs
  <2>2. \A id \in ImageIds : /\ id # job[t].id => stage'[id] = stage[id]
                             /\ stage'[id].image = stage[id].image
    BY <1>1, <1>13 DEF WriteMetadata, FileSet
  <2>3. QED
    BY <1>2, <2>1, <2>2, OwnedKept DEF HoldsImage, HoldsMeta
<1>14. CASE DropImage(t)
  <2>1. /\ job[t].pc = "dropimage" /\ job'[t].pc = "dropmeta"
        /\ job'[t].imagefile = job[t].imagefile
        /\ job'[t].metafile = job[t].metafile /\ job'[t].id = job[t].id
    BY <1>1, <1>3, <1>14 DEF DropImage, JobTo, Jobs
  <2>2. \A id \in ImageIds :
          /\ stage'[id].meta = stage[id].meta
          /\ stage'[id].image # "none" => /\ stage[id].image # "none"
                                          /\ job[t].imagefile => id # job[t].id
    BY <1>1, <1>14 DEF DropImage, FileSet
  <2>3. QED
    BY <1>2, <2>1, <2>2, OwnedKept DEF HoldsImage, HoldsMeta
<1>15. CASE DropMeta(t)
  <2>1. job[t].pc = "dropmeta" /\ job'[t].pc \in {"none", "failed"}
    BY <1>1, <1>3, <1>15 DEF DropMeta, JobTo, Jobs, NoJob
  <2>2. \A id \in ImageIds :
          /\ stage'[id].image = stage[id].image
          /\ stage'[id].meta # NoMeta => /\ stage[id].meta # NoMeta
                                         /\ job[t].metafile => id # job[t].id
    BY <1>1, <1>15 DEF DropMeta, FileSet
  <2>3. QED
    BY <1>2, <2>1, <2>2, OwnedKept DEF HoldsImage, HoldsMeta
<1>16. QED
  BY <1>7, <1>8, <1>9, <1>10, <1>11, <1>12, <1>13, <1>14, <1>15 DEF JobStep

\* Whatever fails, and however many threads share ExpandDirectory, nothing
\* is left there once they are done -- as long as the gateway is not
\* restarted: a restart removes nothing.
THEOREM NothingLeftBehind ==
  ASSUME "crash" \notin Faults
  PROVE  WSpec => []StageEmpty
<1>1. WInit => StageOwned
  BY DEF WInit, StageOwned, NoFiles
<1>2. ASSUME FInv, StageOwned, [WNext]_wvars
      PROVE  StageOwned'
  <2>1. CASE UNCHANGED fvars
    BY <1>2, <2>1 DEF StageOwned, HoldsImage, HoldsMeta, fvars
  <2>2. CASE RestartJobs
    BY <2>2 DEF RestartJobs, Restart
  <2>3. QED
    BY <1>2, <2>1, <2>2, JobStepOwned DEF WNext, wvars
<1>3. FInv /\ StageOwned => StageEmpty
  <2>1. SUFFICES ASSUME FInv, StageOwned, \A t \in Threads : job[t] = NoJob
                 PROVE  stage = [id \in ImageIds |-> NoFiles]
    BY DEF StageEmpty
  <2>2. stage \in [ImageIds -> FileSet]
    BY <2>1 DEF FInv, FilesTypeOK
  <2>3. \A id \in ImageIds : stage[id].image = "none" /\ stage[id].meta = NoMeta
    BY <2>1 DEF StageOwned, HoldsImage, HoldsMeta, NoJob
  <2>4. \A id \in ImageIds : stage[id] = NoFiles
    BY <2>2, <2>3 DEF FileSet, NoFiles
  <2>5. QED
    BY <2>2, <2>4
<1>4. QED
  BY <1>1, <1>2, <1>3, WorkerImplementsMngr, PTL DEF WSpec

-----------------------------------------------------------------------------
(* As long as nothing is expired, an image that is on a system stays there. *)

\* Nobody asks for an expiry.
NeverExpire == {"expire", "autoexpire"} \cap Ops = {}

\* So there is none anywhere.
ExpirePC == {"findtag", "findstuck", "findold", "doexpire"}
RemovePC == {"rmmeta", "rmimage", "expired"}
Unexpired ==
  /\ \A h \in Handlers : handler[h].pc \notin ExpirePC
  /\ \A k \in 1..Len(pool) : pool[k].op # "expire"
  /\ \A t \in Threads : job[t].pc # "none" =>
       job[t].task.op # "expire" /\ job[t].pc \notin RemovePC

\* Until its end is posted, a request is about what its thread runs.
EndedPC == {"none", "dropimage", "dropmeta", "failed"}
JobRuns ==
  \A t \in Threads : job[t].pc \notin EndedPC =>
    worker[t].pc # "idle" /\ worker[t].task = job[t].task

\* What is under way for a document is for its system.
SystemKept ==
  \A i \in Idents : Exists(images[i]) =>
    /\ \A h \in Handlers : Inserted(h, i) =>
         handler[h].req.system = images[i].system
    /\ \A k \in 1..Len(pool) : Queued(k, i) =>
         pool[k].system = images[i].system
    /\ \A t \in Threads : Runs(t, i) =>
         worker[t].task.system = images[i].system

\* From the moment a request has found or copied the image file on, the
\* file is on the system ...
OnSystem(s, id) == store[<<s, id>>].image # "none"
UnfoundPC == {"start", "manifest", "precheck", "check", "convert", "squash", "hash"}
FoundThere(t) ==
  \/ job[t].pc = "ready"
  \/ job[t].pc \in {"meta", "announce", "copymeta"} /\ job[t].meta_only
JobsStored ==
  \A t \in Threads :
    /\ job[t].pc \in UnfoundPC => ~job[t].meta_only
    /\ FoundThere(t) => OnSystem(job[t].task.system, job[t].id)

\* ... when READY waits in the queue and while it is applied ...
MessagesStored ==
  /\ \A k \in 1..Len(queue) :
       queue[k].state = "READY" /\ Exists(images[queue[k].ident]) =>
         OnSystem(images[queue[k].ident].system, queue[k].response.id)
  /\ Busy => OnSystem(status.system, status.response.id)

\* ... and as long as the document has the image.
DocsStored ==
  \A i \in Idents : Exists(images[i]) /\ images[i].id # NoImage =>
    OnSystem(images[i].system, images[i].id)

ResultsStored == JobsStored /\ MessagesStored /\ DocsStored

StoredInv == Unexpired /\ JobRuns /\ SystemKept /\ ResultsStored

-----------------------------------------------------------------------------
(* What a step leaves of a request.                                        *)

LEMMA JobToAt ==
  ASSUME FInv, NEW t \in Threads, job[t].pc # "none", NEW pc, JobTo(t, pc)
  PROVE  /\ job'[t].pc = pc /\ job'[t].task = job[t].task
         /\ job'[t].id = job[t].id /\ job'[t].meta_only = job[t].meta_only
         /\ \A u \in Threads : u # t => job'[u] = job[u]
<1>1. job[t] \in Jobs
  BY JobTyped DEF FInv
<1>2. QED
  BY <1>1 DEF JobTo, FInv, FilesTypeOK, Jobs

LEMMA NoJobAt ==
  ASSUME FInv, NEW t \in Threads, job' = [job EXCEPT ![t] = NoJob]
  PROVE  /\ job'[t].pc = "none"
         /\ \A u \in Threads : u # t => job'[u] = job[u]
BY DEF NoJob, FInv, FilesTypeOK

\* Only an expiry gets to the steps that remove files.
LEMMA JobKeeps ==
  ASSUME FInv, NEW t \in Threads, JobStep(t), ~TakeJob(t)
  PROVE  /\ job[t].pc # "none"
         /\ \A u \in Threads : u # t => job'[u] = job[u]
         /\ job'[t].pc # "none" => job'[t].task = job[t].task
         /\ job'[t].pc \in RemovePC =>
              job[t].pc \in RemovePC \/ job[t].task.op = "expire"
<1> USE DEF RemovePC
<1>1. job[t].pc # "none"
  BY ImageWorkerAssumption
  DEF JobStep, BeginJob, GetManifest, PullLayers, CheckAgain, Convert,
      MakeSquashfs, HashFile, WriteMetadata, BeginTransfer, CopyMeta, CopyImage,
      Ready, DropImage, DropMeta, RemoveMeta, RemoveImage, ExpiredJob, FailJob,
      FailJobAgain, Raising
<1>2. job[t] \in Jobs /\ job \in [Threads -> Jobs \cup {NoJob}]
      /\ job[t].task.op \in {"pull", "import", "expire"}
  BY <1>1, JobTyped DEF FInv, FilesTypeOK, Tasks
<1>3. CASE BeginJob(t)
  <2>1. \E pc \in {"manifest", "hash", "rmmeta"} :
          JobTo(t, pc) /\ (pc = "rmmeta" => job[t].task.op = "expire")
    BY <1>2, <1>3 DEF BeginJob
  <2>2. QED
    BY <1>1, <2>1, JobToAt
<1>4. CASE GetManifest(t)
  BY <1>1, <1>2, <1>4 DEF GetManifest, Jobs
<1>5. CASE PullLayers(t) \/ CheckAgain(t) \/ Convert(t)
  BY <1>1, <1>2, <1>5 DEF PullLayers, CheckAgain, Convert, Jobs
<1>6. CASE HashFile(t) \/ WriteMetadata(t)
  BY <1>1, <1>2, <1>6 DEF HashFile, WriteMetadata, Jobs
<1>7. CASE MakeSquashfs(t) \/ BeginTransfer(t) \/ CopyMeta(t) \/ CopyImage(t)
             \/ Ready(t) \/ DropImage(t)
  <2>1. \E pc \in {"meta", "copymeta", "ready", "copyimage", "raise",
                   "dropimage", "dropmeta"} : JobTo(t, pc)
    BY <1>7 DEF MakeSquashfs, BeginTransfer, CopyMeta, CopyImage, Ready, DropImage
  <2>2. QED
    BY <1>1, <2>1, JobToAt
<1>8. CASE DropMeta(t) \/ FailJob(t)
  <2>1. (\E pc \in {"failed", "dropimage"} : JobTo(t, pc))
          \/ job' = [job EXCEPT ![t] = NoJob]
    BY <1>8 DEF DropMeta, FailJob
  <2>2. QED
    BY <1>1, <2>1, JobToAt, NoJobAt
<1>9. CASE RemoveMeta(t) \/ RemoveImage(t)
  <2>1. (\E pc \in {"rmimage", "expired"} : JobTo(t, pc)) /\ job[t].pc \in RemovePC
    BY <1>9 DEF RemoveMeta, RemoveImage
  <2>2. QED
    BY <1>1, <2>1, JobToAt
<1>10. CASE ExpiredJob(t) \/ FailJobAgain(t)
  BY <1>1, <1>10, NoJobAt DEF ExpiredJob, FailJobAgain
<1>11. QED
  BY <1>3, <1>4, <1>5, <1>6, <1>7, <1>8, <1>9, <1>10 DEF JobStep

\* A task becomes a request.
LEMMA TakeJobAt ==
  ASSUME FInv, NEW t \in Threads, TakeJob(t)
  PROVE  /\ Take(t) /\ FilesSame
         /\ job'[t].pc = "start" /\ job'[t].task = pool[1] /\ ~job'[t].meta_only
         /\ \A u \in Threads : u # t => job'[u] = job[u]
<1>1. Head(pool) = pool[1]
  BY DEF TakeJob, Take, FInv, Inv, TypeOK
<1>2. QED
  BY <1>1 DEF TakeJob, FInv, FilesTypeOK

\* What the gateway sees of a step of a request.
LEMMA JobStepSeen ==
  ASSUME FInv, NEW t \in Threads, JobStep(t), ~TakeJob(t)
  PROVE  UNCHANGED vars \/ (WorkerStep(t) /\ ~Take(t))
<1>1. CASE Ready(t)
  <2>1. worker[t].pc = "transfer"
    BY <1>1 DEF Ready, CompleteWith
  <2>2. QED
    BY <1>1, <2>1, JobStepMngr DEF Take
<1>2. QED
  BY <1>1
  DEF JobStep, BeginJob, GetManifest, PullLayers, CheckAgain, Convert,
      MakeSquashfs, HashFile, WriteMetadata, BeginTransfer, CopyMeta, CopyImage,
      DropImage, DropMeta, RemoveMeta, RemoveImage, ExpiredJob, FailJob,
      FailJobAgain, OnlyJob, WorkerStep, Take, Begin, Transfer, Expired, Fail,
      FailAgain

-----------------------------------------------------------------------------
(* No expiry comes up.                                                     *)

\* Where a handler gets when nobody asks for an expiry.
LEMMA HandlerTurn ==
  ASSUME Inv, NeverExpire, NEW h \in Handlers, handler[h].pc \notin ExpirePC,
         Receive(h) \/ HandlerStep(h) \/ HandlerRaises(h)
  PROVE  /\ handler'[h].pc \notin ExpirePC
         /\ handler'[h].pc \in {"pending", "submit"} =>
              \/ Insert(h)
              \/ /\ handler[h].pc = "pending"
                 /\ handler'[h].ident = handler[h].ident
                 /\ handler'[h].req = handler[h].req
         /\ \A g \in Handlers : g # h => handler'[g] = handler[g]
<1> USE DEF Inv, ExpirePC
<1>1. handler[h].pc # "idle" => handler[h].req.op \notin {"expire", "autoexpire"}
  BY HandlerBusy DEF NeverExpire, HandlerStates, Requests
<1>2. CASE Receive(h)
  <2>1. PICK r \in Requests :
          handler' = [handler EXCEPT ![h] =
            [ pc    |-> CASE r.op = "import" -> "findany"
                          [] r.op = "expire" -> "findtag"
                          [] OTHER           -> "states",
              req   |-> r, seen |-> Absent, todo |-> {}, ident |-> NoIdent ]]
    BY <1>2 DEF Receive
  <2>2. r.op \in Ops /\ r.op # "expire"
    BY DEF Requests, NeverExpire
  <2>3. handler'[h].pc \in {"findany", "states"}
    BY <2>1, <2>2 DEF TypeOK
  <2>4. \A g \in Handlers : g # h => handler'[g] = handler[g]
    BY <2>1 DEF TypeOK
  <2>5. QED
    BY <2>3, <2>4
<1>3. CASE UpdateStates(h)
  <2>1. \/ Goto(h, "findready") \/ Goto(h, "find") \/ Return(h)
        \/ Goto(h, "KeyError")
    BY <1>1, <1>3 DEF UpdateStates
  <2>2. QED
    BY <1>3, <2>1, GotoAt, ReturnAt DEF UpdateStates
<1>4. CASE FindReady(h)
  BY <1>4, HandlerBusy DEF FindReady, HandlerStates, TypeOK
<1>5. CASE Find(h)
  <2>1. CASE Return(h)
    BY <2>1, ReturnAt
  <2>2. CASE ~Return(h)
    BY <1>5, <2>2, HandlerBusy DEF Find, HandlerStates, TypeOK
  <2>3. QED
    BY <2>1, <2>2
<1>6. CASE FindPull(h)
  <2>1. \/ Goto(h, "KeyError") \/ Goto(h, "TypeError") \/ Return(h)
        \/ handler' = [handler EXCEPT ![h].pc = "clean", ![h].seen = Absent]
    BY <1>6 DEF FindPull
  <2>2. CASE handler' = [handler EXCEPT ![h].pc = "clean", ![h].seen = Absent]
    BY <1>6, <2>2, HandlerBusy DEF FindPull, HandlerStates, TypeOK
  <2>3. QED
    BY <1>6, <2>1, <2>2, GotoAt, ReturnAt DEF FindPull
<1>7. CASE FindAny(h)
  BY <1>7, GotoAt, ReturnAt DEF FindAny
<1>8. CASE Clean(h)
  BY <1>8, HandlerBusy DEF Clean, HandlerStates, TypeOK
<1>9. CASE Remove(h)
  BY <1>9, HandlerBusy DEF Remove, HandlerStates, TypeOK
<1>10. CASE Removed(h)
  <2>1. handler[h].pc = "remove" /\ Goto(h, "insert")
    BY <1>1, <1>10 DEF Removed
  <2>2. QED
    BY <2>1, GotoAt
<1>11. CASE Insert(h)
  <2>1. handler[h] \in HandlerStates
    BY <1>11, HandlerBusy DEF Insert
  <2>2. PICK i \in Idents :
          handler' = [handler EXCEPT ![h].pc = "pending", ![h].ident = i]
    BY <1>11 DEF Insert
  <2>3. handler'[h].pc = "pending" /\ \A g \in Handlers : g # h => handler'[g] = handler[g]
    BY <2>1, <2>2 DEF HandlerStates, TypeOK
  <2>4. QED
    BY <1>11, <2>3
<1>12. CASE MarkPending(h) \/ Submit(h)
  BY <1>12, GotoAt DEF MarkPending, Submit
<1>13. CASE Raise(h) \/ HandlerRaises(h) \/ ResetExpiry(h) \/ StampPull(h)
  BY <1>13, ReturnAt DEF Raise, HandlerRaises, ResetExpiry, StampPull
<1>14. QED
  BY <1>2, <1>3, <1>4, <1>5, <1>6, <1>7, <1>8, <1>9, <1>10, <1>11, <1>12, <1>13
  DEF HandlerStep, FindStuck, FindOld, ExpireId, AutoExpired, Expire

LEMMA UnexpiredNext ==
  ASSUME FInv, NeverExpire, Unexpired, [WNext]_wvars
  PROVE  Unexpired'
<1> USE DEF FInv
<1>1. ASSUME NEW h \in Handlers, UNCHANGED fvars,
             Receive(h) \/ HandlerStep(h) \/ HandlerRaises(h)
      PROVE  Unexpired'
  <2>1. handler[h].pc \notin ExpirePC
    BY DEF Unexpired
  <2>2. \A g \in Handlers : handler'[g].pc \notin ExpirePC
    BY <1>1, <2>1, HandlerTurn DEF Unexpired
  <2>3. \A k \in 1..Len(pool') : pool'[k].op # "expire"
    <3>1. CASE UNCHANGED pool
      BY <3>1 DEF Unexpired
    <3>2. CASE ~UNCHANGED pool
      <4>1. PICK k \in Tasks :
              /\ pool' = Append(pool, k)
              /\ k.op = "expire" => \/ handler[h].pc \in {"findtag", "doexpire"}
                                    \/ /\ handler[h].pc = "submit"
                                       /\ handler[h].req.op = "expire"
        BY <1>1, <3>2, HandlerPool
      <4>2. k.op # "expire"
        BY <2>1, <4>1 DEF ExpirePC, Inv, HandlerInv
      <4>3. \A n \in 1..Len(pool') :
              pool'[n] = k \/ (n \in 1..Len(pool) /\ pool'[n] = pool[n])
        BY <4>1 DEF Inv, TypeOK
      <4>4. QED
        BY <4>2, <4>3 DEF Unexpired
    <3>3. QED
      BY <3>1, <3>2
  <2>4. QED
    BY <1>1, <2>2, <2>3 DEF Unexpired, fvars
<1>2. ASSUME UNCHANGED <<handler, pool, job>>
      PROVE  Unexpired'
  BY <1>2 DEF Unexpired
<1>3. CASE UNCHANGED fvars /\ (StatusStep \/ StatusRaises)
  BY <1>2, <1>3, StatusTakes DEF OnlyStatus, fvars
<1>4. ASSUME NEW t \in Threads, TakeJob(t)
      PROVE  Unexpired'
  <2>1. /\ UNCHANGED handler /\ 1 \in 1..Len(pool)
        /\ \A k \in 1..Len(pool') : k + 1 \in 1..Len(pool)
                                    /\ pool'[k] = pool[k + 1]
    BY <1>4, TakeJobAt, TakenIs
  <2>2. \A u \in Threads : job'[u].pc # "none" =>
          job'[u].task.op # "expire" /\ job'[u].pc \notin RemovePC
    BY <1>4, <2>1, TakeJobAt DEF Unexpired, RemovePC
  <2>3. QED
    BY <2>1, <2>2 DEF Unexpired
<1>5. ASSUME NEW t \in Threads, JobStep(t), ~TakeJob(t)
      PROVE  Unexpired'
  <2>1. UNCHANGED <<handler, pool>>
    BY <1>5, JobStepSeen, ThreadPosts DEF vars
  <2>2. \A u \in Threads : job'[u].pc # "none" =>
          job'[u].task.op # "expire" /\ job'[u].pc \notin RemovePC
    BY <1>5, JobKeeps DEF Unexpired
  <2>3. QED
    BY <2>1, <2>2 DEF Unexpired
<1>6. CASE RestartJobs
  <2>1. /\ \A h \in Handlers : handler'[h].pc = "idle"
        /\ Len(pool') = 0
        /\ \A t \in Threads : job'[t].pc = "none"
    BY <1>6 DEF RestartJobs, Restart, Idle, NoJob
  <2>2. QED
    BY <2>1 DEF Unexpired, ExpirePC
<1>7. ASSUME NEW i \in Idents, Age(i), UNCHANGED fvars
      PROVE  Unexpired'
  BY <1>2, <1>7 DEF Age, fvars
<1>8. CASE UNCHANGED wvars
  BY <1>2, <1>8 DEF wvars, vars, fvars
<1>9. QED
  BY <1>1, <1>3, <1>4, <1>5, <1>6, <1>7, <1>8 DEF WNext, Manage

\* A request and its thread go together until the end of the request.
LEMMA JobRunsNext ==
  ASSUME FInv, JobRuns, [WNext]_wvars
  PROVE  JobRuns'
<1> USE DEF FInv
<1>1. ASSUME UNCHANGED <<worker, job>>
      PROVE  JobRuns'
  BY <1>1 DEF JobRuns
<1>2. CASE Manage /\ UNCHANGED fvars
  <2>1. UNCHANGED worker
    BY <1>2, HandlerPool, StatusTakes DEF Manage, Age, OnlyStatus
  <2>2. QED
    BY <1>1, <1>2, <2>1 DEF fvars
<1>3. ASSUME NEW t \in Threads, TakeJob(t)
      PROVE  JobRuns'
  <2>1. /\ worker'[t] = [pc |-> "start", task |-> pool[1]]
        /\ \A u \in Threads : u # t => worker'[u] = worker[u]
    BY <1>3, TakeJobAt, TakenIs
  <2>2. QED
    BY <1>3, <2>1, TakeJobAt DEF JobRuns
<1>4. ASSUME NEW t \in Threads, JobStep(t), ~TakeJob(t)
      PROVE  JobRuns'
  <2>1. \A u \in Threads : u # t => job'[u] = job[u]
    BY <1>4, JobKeeps
  <2>2. \A u \in Threads : u # t => worker'[u] = worker[u]
    BY <1>4, JobStepMngr
    DEF WorkerStep, Take, Begin, Transfer, Complete, CompleteWith, Expired,
        Fail, FailAgain, WorkerTo, WorkerDone, vars, Inv, TypeOK
  <2>3. job'[t].pc \notin EndedPC =>
          worker'[t].pc # "idle" /\ worker'[t].task = job'[t].task
    <3>1. CASE job'[t].pc \in EndedPC
      BY <3>1
    <3>2. CASE job'[t].pc \notin EndedPC
      <4>1. /\ job'[t].task = job[t].task
            /\ job[t].pc # "none"
        BY <1>4, <3>2, JobKeeps DEF EndedPC
      <4>2. ~(DropImage(t) \/ DropMeta(t) \/ ExpiredJob(t) \/ FailJob(t)
                \/ FailJobAgain(t) \/ Ready(t))
        <5>1. DropImage(t) \/ DropMeta(t) \/ ExpiredJob(t) \/ FailJob(t)
                \/ FailJobAgain(t) \/ Ready(t)
              => (\E pc \in EndedPC : JobTo(t, pc)) \/ job' = [job EXCEPT ![t] = NoJob]
          BY DEF DropImage, DropMeta, ExpiredJob, FailJob, FailJobAgain, Ready, EndedPC
        <5>2. QED
          BY <3>2, <4>1, <5>1, JobToAt, NoJobAt DEF EndedPC
      <4>3. job[t].pc \notin EndedPC
        BY <1>4, <4>2
        DEF JobStep, BeginJob, GetManifest, PullLayers, CheckAgain, Convert,
            MakeSquashfs, HashFile, WriteMetadata, BeginTransfer, CopyMeta,
            CopyImage, RemoveMeta, RemoveImage, EndedPC
      <4>4. worker[t].pc # "idle" /\ worker[t].task = job[t].task
        BY <4>3 DEF JobRuns
      <4>5. CASE UNCHANGED worker
        BY <4>1, <4>4, <4>5
      <4>6. CASE BeginJob(t) \/ BeginTransfer(t)
        <5>1. WorkerTo(t, "work") \/ WorkerTo(t, "transfer")
          BY <4>6 DEF BeginJob, BeginTransfer, Begin, Transfer
        <5>2. worker[t] \in WorkerStates
          BY <4>4 DEF Inv, TypeOK, Idle
        <5>3. QED
          BY <4>1, <4>4, <5>1, <5>2 DEF WorkerTo, WorkerStates, Inv, TypeOK
      <4>7. QED
        BY <1>4, <4>2, <4>5, <4>6
        DEF JobStep, GetManifest, PullLayers, CheckAgain, Convert,
            MakeSquashfs, HashFile, WriteMetadata, CopyMeta, CopyImage,
            RemoveMeta, RemoveImage, OnlyJob, vars
    <3>3. QED
      BY <3>1, <3>2
  <2>4. QED
    BY <2>1, <2>2, <2>3 DEF JobRuns
<1>5. CASE RestartJobs
  BY <1>5 DEF RestartJobs, JobRuns, NoJob, EndedPC
<1>6. CASE UNCHANGED wvars
  BY <1>1, <1>6 DEF wvars, vars, fvars
<1>7. QED
  BY <1>2, <1>3, <1>4, <1>5, <1>6 DEF WNext

-----------------------------------------------------------------------------
(* A request keeps its system.                                             *)

LEMMA KeepsSystem ==
  ASSUME SystemKept, CarriesAll,
         \A i \in Idents, h \in Handlers : Inserted(h, i)' =>
           Inserted(h, i) /\ handler'[h].req = handler[h].req,
         \A k \in 1..Len(pool') : pool'[k].op # "expire" =>
           \/ \E n \in 1..Len(pool) : pool'[k] = pool[n]
           \/ \E h \in Handlers : /\ Inserted(h, pool'[k].ident)
                                  /\ pool'[k].system = handler[h].req.system,
         \A i \in Idents, t \in Threads : Runs(t, i)' =>
           \/ Runs(t, i) /\ worker'[t].task = worker[t].task
           \/ \E k \in 1..Len(pool) : Queued(k, i) /\ worker'[t].task = pool[k]
  PROVE  SystemKept'
<1> SUFFICES ASSUME NEW i \in Idents, Exists(images'[i])
             PROVE  /\ \A h \in Handlers : Inserted(h, i)' =>
                         handler'[h].req.system = images'[i].system
                    /\ \A k \in 1..Len(pool') : Queued(k, i)' =>
                         pool'[k].system = images'[i].system
                    /\ \A t \in Threads : Runs(t, i)' =>
                         worker'[t].task.system = images'[i].system
  BY DEF SystemKept
<1>1. Exists(images[i]) /\ images'[i].system = images[i].system
  BY AbsentFacts DEF CarriesAll, Carried
<1>2. ASSUME NEW k \in 1..Len(pool'), Queued(k, i)'
      PROVE  pool'[k].system = images'[i].system
  <2>1. pool'[k].op # "expire" /\ pool'[k].ident = i
    BY <1>2 DEF Queued
  <2>2. CASE \E n \in 1..Len(pool) : pool'[k] = pool[n]
    BY <1>1, <2>1, <2>2 DEF SystemKept, Queued
  <2>3. QED
    BY <1>1, <2>1, <2>2 DEF SystemKept
<1>3. QED
  BY <1>1, <1>2 DEF SystemKept

LEMMA InsertSystem ==
  ASSUME Inv, SystemKept, NEW h \in Handlers, Insert(h)
  PROVE  SystemKept'
<1>1. PICK i \in Idents :
        /\ Unused(i)
        /\ Set(i, NewRecord(handler[h].req))
        /\ handler' = [handler EXCEPT ![h].pc = "pending", ![h].ident = i]
  BY DEF Insert
<1>2. /\ handler'[h].ident = i /\ handler'[h].req = handler[h].req
      /\ \A g \in Handlers : g # h => handler'[g] = handler[g]
  BY <1>1, HandlerBusy DEF Insert, HandlerStates, Inv, TypeOK
<1>3. UNCHANGED <<pool, worker>>
  BY DEF Insert, ImagesChange
<1>4. /\ images'[i].system = handler[h].req.system
      /\ \A j \in Idents : j # i => images'[j] = images[j]
  BY <1>1 DEF Set, NewRecord, Inv, TypeOK
<1>5. /\ \A g \in Handlers : g # h => ~Inserted(g, i)'
      /\ \A k \in 1..Len(pool') : ~Queued(k, i)'
      /\ \A t \in Threads : ~Runs(t, i)'
  BY <1>1, <1>2, <1>3 DEF Unused, Inserted, Queued, Runs
<1>6. \A j \in Idents : j # i => ~Inserted(h, j)'
  BY <1>2 DEF Inserted
<1>7. ASSUME NEW j \in Idents, j # i, Exists(images'[j])
      PROVE  /\ \A g \in Handlers : Inserted(g, j)' =>
                  handler'[g].req.system = images'[j].system
             /\ \A k \in 1..Len(pool') : Queued(k, j)' =>
                  pool'[k].system = images'[j].system
             /\ \A t \in Threads : Runs(t, j)' =>
                  worker'[t].task.system = images'[j].system
  <2>1. Exists(images[j]) /\ images'[j] = images[j]
    BY <1>4, <1>7
  <2>2. \A g \in Handlers : Inserted(g, j)' =>
          g # h /\ Inserted(g, j) /\ handler'[g] = handler[g]
    BY <1>2, <1>6, <1>7 DEF Inserted
  <2>3. QED
    BY <1>3, <2>1, <2>2 DEF SystemKept, Queued, Runs
<1>8. QED
  BY <1>2, <1>4, <1>5, <1>7 DEF SystemKept

LEMMA SystemKeptNext ==
  ASSUME FInv, NeverExpire, Unexpired, SystemKept, [WNext]_wvars
  PROVE  SystemKept'
<1> USE DEF FInv
<1>1. ASSUME NEW h \in Handlers, UNCHANGED fvars, ~Insert(h),
             Receive(h) \/ HandlerStep(h) \/ HandlerRaises(h)
      PROVE  SystemKept'
  <2>1. CarriesAll
    BY <1>1, HandlerCarries
  <2>2. handler[h].pc \notin ExpirePC
    BY DEF Unexpired
  <2>3. \A i \in Idents, g \in Handlers : Inserted(g, i)' =>
          Inserted(g, i) /\ handler'[g].req = handler[g].req
    BY <1>1, <2>2, HandlerTurn DEF Inserted
  <2>4. \A k \in 1..Len(pool') : pool'[k].op # "expire" =>
          \/ \E n \in 1..Len(pool) : pool'[k] = pool[n]
          \/ \E g \in Handlers : /\ Inserted(g, pool'[k].ident)
                                 /\ pool'[k].system = handler[g].req.system
    <3>1. CASE UNCHANGED pool
      BY <3>1
    <3>2. CASE ~UNCHANGED pool
      <4>1. PICK k \in Tasks :
              /\ pool' = Append(pool, k)
              /\ \/ k.op = "expire"
                 \/ /\ handler[h].pc = "submit" /\ k.ident = handler[h].ident
                    /\ k.system = handler[h].req.system
        BY <1>1, <3>2, HandlerPool
      <4>2. \A n \in 1..Len(pool') :
              pool'[n] = k \/ (n \in 1..Len(pool) /\ pool'[n] = pool[n])
        BY <4>1 DEF Inv, TypeOK
      <4>3. QED
        BY <4>1, <4>2 DEF Inserted
    <3>3. QED
      BY <3>1, <3>2
  <2>5. UNCHANGED worker
    BY <1>1, HandlerPool
  <2>6. QED
    BY <2>1, <2>3, <2>4, <2>5, KeepsSystem DEF Runs
<1>2. ASSUME CarriesAll, UNCHANGED <<handler, pool, worker>>
      PROVE  SystemKept'
  BY <1>2, KeepsSystem DEF Inserted, Runs
<1>3. CASE StatusStep \/ StatusRaises
  BY <1>2, <1>3, StatusCarries, StatusTakes DEF OnlyStatus
<1>4. ASSUME NEW i \in Idents, Age(i)
      PROVE  SystemKept'
  BY <1>2, <1>4, AgeCarries DEF Age
<1>5. ASSUME NEW t \in Threads, TakeJob(t)
      PROVE  SystemKept'
  <2>1. Take(t)
    BY <1>5, TakeJobAt
  <2>2. CarriesAll
    BY <2>1, TakenIs, CarriesUnchanged DEF Inv
  <2>3. \A i \in Idents, u \in Threads : Runs(u, i)' =>
          \/ Runs(u, i) /\ worker'[u].task = worker[u].task
          \/ \E k \in 1..Len(pool) : Queued(k, i) /\ worker'[u].task = pool[k]
    <3>1. SUFFICES ASSUME NEW i \in Idents, NEW u \in Threads, Runs(u, i)'
                   PROVE  \/ Runs(u, i) /\ worker'[u].task = worker[u].task
                          \/ \E k \in 1..Len(pool) :
                               Queued(k, i) /\ worker'[u].task = pool[k]
      OBVIOUS
    <3>2. CASE u = t
      <4>1. 1 \in 1..Len(pool) /\ worker'[u].task = pool[1]
        BY <2>1, <3>2, TakenIs
      <4>2. QED
        BY <3>1, <4>1 DEF Runs, Queued
    <3>3. CASE u # t
      BY <2>1, <3>1, <3>3, TakenIs DEF Runs
    <3>4. QED
      BY <3>2, <3>3
  <2>4. /\ UNCHANGED handler
        /\ \A k \in 1..Len(pool') : \E n \in 1..Len(pool) : pool'[k] = pool[n]
    BY <2>1, TakenIs
  <2>5. QED
    BY <2>2, <2>3, <2>4, KeepsSystem DEF Inserted
<1>6. ASSUME NEW t \in Threads, JobStep(t), ~TakeJob(t)
      PROVE  SystemKept'
  <2>1. CASE UNCHANGED vars
    BY <1>2, <2>1, CarriesUnchanged DEF vars, Inv
  <2>2. CASE WorkerStep(t) /\ ~Take(t)
    <3>1. CarriesAll /\ UNCHANGED <<handler, pool>>
      BY <2>2, ThreadPosts, CarriesUnchanged DEF Inv
    <3>2. \A i \in Idents, u \in Threads : Runs(u, i)' =>
            Runs(u, i) /\ worker'[u].task = worker[u].task
      BY <2>2, ThreadPosts DEF Runs
    <3>3. QED
      BY <3>1, <3>2, KeepsSystem DEF Inserted
  <2>3. QED
    BY <1>6, <2>1, <2>2, JobStepSeen
<1>7. CASE RestartJobs
  <2>1. /\ \A h \in Handlers : handler'[h].pc = "idle"
        /\ Len(pool') = 0
        /\ \A t \in Threads : worker'[t].pc = "idle"
    BY <1>7 DEF RestartJobs, Restart, Idle
  <2>2. QED
    BY <2>1 DEF SystemKept, Inserted, Queued, Runs
<1>8. CASE UNCHANGED wvars
  BY <1>2, <1>8, CarriesUnchanged DEF wvars, vars, Inv
<1>9. QED
  BY <1>1, <1>3, <1>4, <1>5, <1>6, <1>7, <1>8, InsertSystem DEF WNext, Manage

-----------------------------------------------------------------------------
(* The image files stay.                                                   *)

\* With one worker thread, what a request has made is in ExpandDirectory
\* when it is copied, and ...
MadePC == {"meta", "announce", "copymeta", "copyimage"}
SoleFacts(t) ==
  /\ job[t].pc \in {"announce", "copymeta"} => stage[job[t].id].meta # NoMeta
  /\ job[t].pc \in MadePC /\ job[t].task.op = "pull" /\ ~job[t].meta_only =>
       stage[job[t].id].image # "none"
  /\ job[t].pc = "copyimage" => ~job[t].meta_only
  /\ job[t].pc \in KnownPC /\ job[t].task.op = "pull" => job[t].id \in Images
  /\ job[t].pc \in KnownPC /\ job[t].task.op = "import" => job[t].id \in Files

SoleInv == \A t \in Threads : SoleFacts(t)

\* ... an image on a system has its metadata.
Covered ==
  \A s \in Systems, id \in ImageIds :
    store[<<s, id>>].image # "none" => store[<<s, id>>].meta # NoMeta

\* The metadata of an image goes ahead, and a pull brings an image only when
\* there is none.
CoverFacts(t) ==
  /\ job[t].pc = "copyimage" => store[<<job[t].task.system, job[t].id>>].meta # NoMeta
  /\ /\ job[t].pc \in {"convert", "squash"} \cup MadePC
     /\ job[t].task.op = "pull" /\ ~job[t].meta_only
     => store[<<job[t].task.system, job[t].id>>].image = "none"

CoverInv == Covered /\ \A t \in Threads : CoverFacts(t)

\* The copy of an image file may fail with its chmod, and remove what was
\* there: that takes nothing when nothing was there.
NoneLost == "unimage" \notin Breaks \/ (SoleInv /\ CoverInv)

StoreGrows ==
  \A s \in Systems, id \in ImageIds :
    store[<<s, id>>].image # "none" => store'[<<s, id>>].image # "none"

LEMMA JobStepGrows ==
  ASSUME FInv, Unexpired, NoneLost, NEW t \in Threads, JobStep(t)
  PROVE  StoreGrows
<1>1. CASE UNCHANGED store
  BY <1>1 DEF StoreGrows
<1>2. store \in [Systems \X ImageIds -> FileSet]
  BY DEF FInv, FilesTypeOK
<1>3. ASSUME NEW meta, store' = [store EXCEPT ![Place(t)].meta = meta]
      PROVE  StoreGrows
  BY <1>2, <1>3 DEF StoreGrows, FileSet
<1>4. ASSUME NEW image, image # "none",
             store' = [store EXCEPT ![Place(t)].image = image]
      PROVE  StoreGrows
  BY <1>2, <1>4 DEF StoreGrows, FileSet
<1>5. CASE CopyMeta(t)
  BY <1>1, <1>3, <1>5 DEF CopyMeta
<1>6. CASE CopyImage(t)
  <2>1. CASE UNCHANGED store \/ store' = [store EXCEPT ![Place(t)].image = Sent(t)]
    BY <1>1, <1>4, <1>6, <2>1 DEF CopyImage
  <2>2. CASE "unimage" \in Breaks /\ job[t].task.op # "import"
    <3>1. job[t].pc = "copyimage"
      BY <1>6 DEF CopyImage
    <3>2. job[t].task.op = "pull"
      BY <2>2, <3>1, JobTyped DEF FInv, Unexpired, Tasks
    <3>3. store[<<job[t].task.system, job[t].id>>].image = "none"
      BY <2>2, <3>1, <3>2 DEF NoneLost, SoleInv, SoleFacts, CoverInv, CoverFacts, MadePC
    <3>4. \A s \in Systems, id \in ImageIds :
            <<s, id>> # <<job[t].task.system, job[t].id>> =>
              store'[<<s, id>>] = store[<<s, id>>]
      BY <1>2, <1>6 DEF CopyImage, Place
    <3>5. QED
      BY <3>3, <3>4 DEF StoreGrows
  <2>3. QED
    BY <1>6, <2>1, <2>2 DEF CopyImage
<1>7. ~RemoveMeta(t) /\ ~RemoveImage(t)
  BY DEF RemoveMeta, RemoveImage, Unexpired, RemovePC
<1>8. QED
  BY <1>1, <1>5, <1>6, <1>7
  DEF JobStep, TakeJob, BeginJob, GetManifest, PullLayers, CheckAgain, Convert,
      MakeSquashfs, HashFile, WriteMetadata, BeginTransfer, Ready, DropImage,
      DropMeta, ExpiredJob, FailJob, FailJobAgain, OnlyJob, FilesSame

LEMMA NextGrows ==
  ASSUME FInv, Unexpired, NoneLost, [WNext]_wvars
  PROVE  StoreGrows
BY JobStepGrows DEF WNext, RestartJobs, FilesSame, StoreGrows, wvars, fvars

\* Where the files of a request are.
LEMMA PlaceTyped ==
  ASSUME FInv, NEW t \in Threads, job[t].pc \in KnownPC
  PROVE  job[t].task.system \in Systems /\ job[t].id \in ImageIds
BY JobTyped DEF FInv, KnownPC, JobFacts, Tasks

\* The request that makes the step.
LEMMA JobStepStored ==
  ASSUME FInv, Unexpired, NoneLost, JobsStored, NEW t \in Threads, JobStep(t),
         ~TakeJob(t)
  PROVE  /\ job'[t].pc \in UnfoundPC => ~job'[t].meta_only
         /\ FoundThere(t)' => store'[<<job'[t].task.system, job'[t].id>>].image # "none"
<1> USE DEF UnfoundPC
<1>1. job[t].pc # "none" /\ job[t] \in Jobs /\ job \in [Threads -> Jobs \cup {NoJob}]
  BY JobKeeps, JobTyped DEF FInv, FilesTypeOK
<1>2. /\ job[t].pc \in UnfoundPC => ~job[t].meta_only
      /\ FoundThere(t) => store[<<job[t].task.system, job[t].id>>].image # "none"
      /\ FoundThere(t) => store'[<<job[t].task.system, job[t].id>>].image # "none"
  BY PlaceTyped, JobStepGrows DEF JobsStored, FoundThere, OnSystem, StoreGrows, KnownPC
<1>3. ASSUME job'[t].pc \notin UnfoundPC \cup {"ready", "meta", "announce", "copymeta"}
      PROVE  /\ job'[t].pc \in UnfoundPC => ~job'[t].meta_only
             /\ FoundThere(t)' => store'[<<job'[t].task.system, job'[t].id>>].image # "none"
  BY <1>3 DEF FoundThere
<1>4. ASSUME job[t].pc \in UnfoundPC, job'[t].meta_only = job[t].meta_only,
             job'[t].pc # "ready"
      PROVE  /\ job'[t].pc \in UnfoundPC => ~job'[t].meta_only
             /\ FoundThere(t)' => store'[<<job'[t].task.system, job'[t].id>>].image # "none"
  BY <1>2, <1>4 DEF FoundThere
<1>5. CASE BeginJob(t)
  <2>1. job[t].pc = "start" /\ \E pc \in {"manifest", "hash", "rmmeta"} : JobTo(t, pc)
    BY <1>1, <1>5, JobTyped DEF BeginJob, FInv, Tasks
  <2>2. QED
    BY <1>1, <1>4, <2>1, JobToAt
<1>6. CASE GetManifest(t)
  BY <1>1, <1>4, <1>6 DEF GetManifest, Jobs
<1>7. CASE PullLayers(t)
  BY <1>1, <1>4, <1>7 DEF PullLayers, Jobs
<1>8. CASE CheckAgain(t)
  <2>1. /\ job[t].pc = "check" /\ UNCHANGED store
        /\ job'[t].meta_only = CheckImage(t)
        /\ job'[t].pc = IF CheckImage(t) THEN "meta" ELSE "convert"
        /\ job'[t].task = job[t].task /\ job'[t].id = job[t].id
    BY <1>1, <1>8 DEF CheckAgain, OnlyJob, Jobs
  <2>2. CASE CheckImage(t)
    BY <2>1, <2>2 DEF CheckImage, Stored, Place
  <2>3. CASE ~CheckImage(t)
    BY <2>1, <2>3 DEF FoundThere
  <2>4. QED
    BY <2>2, <2>3
<1>9. CASE Convert(t)
  BY <1>1, <1>4, <1>9 DEF Convert, Jobs
<1>10. CASE HashFile(t)
  BY <1>1, <1>4, <1>10 DEF HashFile, Jobs
<1>11. CASE MakeSquashfs(t)
  BY <1>1, <1>4, <1>11, JobToAt DEF MakeSquashfs
<1>12. CASE WriteMetadata(t) \/ BeginTransfer(t)
  <2>1. /\ job[t].pc \in {"meta", "announce"} /\ UNCHANGED store
        /\ job'[t].pc \in {"announce", "copymeta"}
        /\ job'[t].meta_only = job[t].meta_only
        /\ job'[t].task = job[t].task /\ job'[t].id = job[t].id
    <3>1. CASE WriteMetadata(t)
      BY <1>1, <3>1 DEF WriteMetadata, Jobs
    <3>2. CASE BeginTransfer(t)
      BY <1>1, <3>2, JobToAt DEF BeginTransfer, FilesSame
    <3>3. QED
      BY <1>12, <3>1, <3>2
  <2>2. QED
    BY <1>2, <2>1 DEF FoundThere
<1>13. CASE CopyMeta(t)
  <2>1. /\ job[t].pc = "copymeta"
        /\ \E pc \in {"ready", "copyimage", "raise"} :
             JobTo(t, pc) /\ (pc = "ready" => job[t].meta_only)
    BY <1>13 DEF CopyMeta
  <2>2. /\ job'[t].pc \in {"ready", "copyimage", "raise"}
        /\ job'[t].pc = "ready" => job[t].meta_only
        /\ job'[t].task = job[t].task /\ job'[t].id = job[t].id
    BY <1>1, <2>1, JobToAt
  <2>3. CASE job'[t].pc = "ready"
    BY <1>2, <2>1, <2>2, <2>3 DEF FoundThere
  <2>4. CASE job'[t].pc # "ready"
    BY <1>3, <2>2, <2>4
  <2>5. QED
    BY <2>3, <2>4
<1>14. CASE CopyImage(t)
  <2>1. CASE JobTo(t, "raise")
    BY <1>1, <1>3, <2>1, JobToAt
  <2>2. CASE ~JobTo(t, "raise")
    <3>1. PICK image : /\ image # "none" /\ JobTo(t, "ready")
                       /\ store' = [store EXCEPT ![Place(t)].image = image]
      BY <1>14, <2>2 DEF CopyImage
    <3>2. /\ job'[t].pc = "ready" /\ job'[t].task = job[t].task
          /\ job'[t].id = job[t].id
      BY <1>1, <3>1, JobToAt
    <3>3. job[t].task.system \in Systems /\ job[t].id \in ImageIds
      BY <1>14, PlaceTyped DEF CopyImage, KnownPC
    <3>4. store'[<<job[t].task.system, job[t].id>>].image = image
      BY <3>1, <3>3 DEF Place, FInv, FilesTypeOK, FileSet
    <3>5. QED
      BY <3>1, <3>2, <3>4
  <2>3. QED
    BY <2>1, <2>2
<1>15. CASE Ready(t) \/ DropImage(t)
  <2>1. JobTo(t, "dropimage") \/ JobTo(t, "dropmeta")
    BY <1>15 DEF Ready, DropImage
  <2>2. QED
    BY <1>1, <1>3, <2>1, JobToAt
<1>16. CASE DropMeta(t) \/ FailJob(t) \/ FailJobAgain(t) \/ ExpiredJob(t)
  <2>1. JobTo(t, "failed") \/ JobTo(t, "dropimage") \/ job' = [job EXCEPT ![t] = NoJob]
    BY <1>16 DEF DropMeta, FailJob, FailJobAgain, ExpiredJob
  <2>2. QED
    BY <1>1, <1>3, <2>1, JobToAt, NoJobAt
<1>17. ~RemoveMeta(t) /\ ~RemoveImage(t)
  BY DEF RemoveMeta, RemoveImage, Unexpired, RemovePC
<1>18. QED
  BY <1>5, <1>6, <1>7, <1>8, <1>9, <1>10, <1>11, <1>12, <1>13, <1>14, <1>15,
     <1>16, <1>17
  DEF JobStep

LEMMA JobsStoredNext ==
  ASSUME FInv, Unexpired, NoneLost, JobsStored, [WNext]_wvars
  PROVE  JobsStored'
<1>1. CASE UNCHANGED fvars
  BY <1>1 DEF fvars, JobsStored, FoundThere, OnSystem
<1>2. ASSUME NEW t \in Threads, JobStep(t)
      PROVE  JobsStored'
  <2>1. \A u \in Threads : u # t => job'[u] = job[u]
    BY <1>2, JobKeeps, TakeJobAt
  <2>2. ASSUME NEW u \in Threads, u # t
        PROVE  /\ job'[u].pc \in UnfoundPC => ~job'[u].meta_only
               /\ FoundThere(u)' => store'[<<job'[u].task.system, job'[u].id>>].image # "none"
    <3>1. job'[u] = job[u] /\ StoreGrows
      BY <1>2, <2>1, <2>2, JobStepGrows
    <3>2. FoundThere(u) =>
            /\ job[u].task.system \in Systems /\ job[u].id \in ImageIds
            /\ store[<<job[u].task.system, job[u].id>>].image # "none"
      BY PlaceTyped DEF JobsStored, FoundThere, OnSystem, KnownPC
    <3>3. FoundThere(u)' => FoundThere(u)
      BY <3>1 DEF FoundThere
    <3>4. QED
      BY <3>1, <3>2, <3>3 DEF JobsStored, StoreGrows
  <2>3. /\ job'[t].pc \in UnfoundPC => ~job'[t].meta_only
        /\ FoundThere(t)' => store'[<<job'[t].task.system, job'[t].id>>].image # "none"
    <3>1. CASE TakeJob(t)
      BY <3>1, TakeJobAt DEF FoundThere
    <3>2. QED
      BY <1>2, <3>1, JobStepStored
  <2>4. QED
    BY <2>2, <2>3 DEF JobsStored, OnSystem
<1>3. CASE RestartJobs
  BY <1>3 DEF RestartJobs, JobsStored, FoundThere, NoJob, UnfoundPC
<1>4. QED
  BY <1>1, <1>2, <1>3 DEF WNext, wvars

-----------------------------------------------------------------------------
(* The messages and the documents name images that are there.               *)

\* What a request posts: READY only when its image is on the system.
LEMMA JobPosts ==
  ASSUME FInv, Unexpired, JobRuns, SystemKept, JobsStored, NEW t \in Threads, JobStep(t)
  PROVE  \/ UNCHANGED queue
         \/ \E m \in Messages :
              /\ queue' = Append(queue, m)
              /\ m.state = "READY" /\ Exists(images[m.ident]) =>
                   store[<<images[m.ident].system, m.response.id>>].image # "none"
<1>1. CASE Ready(t)
  <2> DEFINE resp == [ id        |-> job[t].id,
                       acl       |-> IF job[t].task.op = "import" THEN Null
                                                         ELSE AccessLists(t),
                       meta_only |-> job[t].meta_only ]
             m == [ ident |-> worker[t].task.ident, state |-> "READY",
                    response |-> resp ]
  <2>1. job[t].pc = "ready" /\ CompleteWith(t, resp)
    BY <1>1 DEF Ready
  <2>2. /\ worker[t].pc # "idle" /\ worker[t].task = job[t].task
        /\ job[t].task.op # "expire"
    BY <2>1 DEF JobRuns, Unexpired, EndedPC
  <2>3. queue' = Append(queue, m)
    BY <2>1 DEF CompleteWith, Post
  <2>4. m.ident \in Idents /\ Runs(t, m.ident)
    BY <2>2, JobTyped, <2>1 DEF Runs, FInv, Tasks
  <2>5. m \in Messages
    <3>1. /\ job[t] \in Jobs /\ job[t].id \in ImageIds
          /\ AccessLists(t) \in Access
      BY <2>1, JobTyped, ListsTyped DEF FInv, JobFacts, KnownPC
    <3>2. resp \in Responses
      BY <3>1 DEF Responses, Jobs, Access
    <3>3. resp # NoResponse
      BY <3>1, ImageDBAssumption DEF NoResponse, ImageIds
    <3>4. "READY" \in Status
      BY DEF Status
    <3> HIDE DEF resp
    <3>5. QED
      BY <2>4, <3>2, <3>3, <3>4 DEF Messages
  <2>6. OnSystem(job[t].task.system, job[t].id)
    BY <2>1 DEF JobsStored, FoundThere
  <2>7. Exists(images[m.ident]) => images[m.ident].system = job[t].task.system
    BY <2>2, <2>4 DEF SystemKept
  <2>8. m.response.id = job[t].id
    OBVIOUS
  <2> HIDE DEF m, resp
  <2>9. QED
    BY <2>3, <2>5, <2>6, <2>7, <2>8 DEF OnSystem
<1>2. CASE TakeJob(t)
  BY <1>2 DEF TakeJob, Take
<1>3. CASE ~Ready(t) /\ ~TakeJob(t)
  <2>1. CASE UNCHANGED queue
    BY <2>1
  <2>2. CASE BeginJob(t) \/ BeginTransfer(t) \/ ExpiredJob(t) \/ FailJob(t)
               \/ FailJobAgain(t)
    <3>1. worker[t].pc # "idle"
      BY <2>2 DEF BeginJob, BeginTransfer, ExpiredJob, FailJob, FailJobAgain,
                  Begin, Transfer, Expired, Fail, FailAgain
    <3>2. worker[t].task \in Tasks
      BY <3>1 DEF FInv, Inv, TypeOK, Idle, WorkerStates
    <3>3. \E state \in Status \ {"READY"} : Post(t, state, NoResponse)
      BY <2>2, <3>2
      DEF BeginJob, BeginTransfer, ExpiredJob, FailJob, FailJobAgain,
          Begin, Transfer, Expired, Fail, FailAgain, Tasks, Status, InFlight, Working
    <3>4. PICK state \in Status \ {"READY"} :
            queue' = Append(queue, [ ident    |-> worker[t].task.ident,
                                     state    |-> state,
                                     response |-> NoResponse ])
      BY <3>3 DEF Post
    <3> DEFINE m == [ ident |-> worker[t].task.ident, state |-> state,
                      response |-> NoResponse ]
    <3>5. m \in Messages /\ m.state # "READY"
      BY <3>2 DEF Messages, Tasks
    <3>6. queue' = Append(queue, m)
      BY <3>4
    <3> HIDE DEF m
    <3>7. QED
      BY <3>5, <3>6
  <2>3. QED
    BY <1>3, <2>1, <2>2
    DEF JobStep, GetManifest, PullLayers, CheckAgain, Convert, MakeSquashfs,
        HashFile, WriteMetadata, CopyMeta, CopyImage, DropImage, DropMeta,
        RemoveMeta, RemoveImage, OnlyJob, vars
<1>4. QED
  BY <1>1, <1>2, <1>3

\* Documents that are there keep their system.
SystemsStay ==
  \A i \in Idents : Exists(images'[i]) =>
    Exists(images[i]) /\ images'[i].system = images[i].system

LEMMA CarriesSystems ==
  ASSUME CarriesAll
  PROVE  SystemsStay
BY AbsentFacts DEF CarriesAll, Carried, SystemsStay

LEMMA MessagesKept ==
  ASSUME FInv, MessagesStored, StoreGrows, SystemsStay,
         \A k \in 1..Len(queue') :
           \/ \E n \in 1..Len(queue) : queue'[k] = queue[n]
           \/ /\ queue'[k] \in Messages
              /\ queue'[k].state = "READY" /\ Exists(images[queue'[k].ident]) =>
                   store[<<images[queue'[k].ident].system, queue'[k].response.id>>].image # "none",
         Busy' =>
           \/ Busy /\ status'.system = status.system
                   /\ status'.response = status.response
           \/ /\ status'.system \in Systems /\ status'.response.id \in ImageIds
              /\ store[<<status'.system, status'.response.id>>].image # "none"
  PROVE  MessagesStored'
<1> USE DEF FInv
<1>1. ASSUME NEW k \in 1..Len(queue'), queue'[k].state = "READY",
             Exists(images'[queue'[k].ident])
      PROVE  store'[<<images'[queue'[k].ident].system, queue'[k].response.id>>].image # "none"
  <2> DEFINE m == queue'[k]
  <2>1. /\ m \in Messages
        /\ Exists(images[m.ident]) =>
             store[<<images[m.ident].system, m.response.id>>].image # "none"
    <3>1. CASE \E n \in 1..Len(queue) : queue'[k] = queue[n]
      BY <1>1, <3>1 DEF MessagesStored, OnSystem, Inv, TypeOK
    <3>2. QED
      BY <1>1, <3>1
  <2>2. m.ident \in Idents /\ m.response \in Responses
    BY <1>1, <2>1 DEF Messages
  <2>3. /\ Exists(images[m.ident])
        /\ images'[m.ident].system = images[m.ident].system
    BY <1>1, <2>2 DEF SystemsStay
  <2>4. images[m.ident].system \in Systems /\ m.response.id \in ImageIds
    BY <2>2, <2>3, DocumentCases DEF Inv, TypeOK, Record, Responses
  <2> HIDE DEF m
  <2>5. QED
    BY <2>1, <2>3, <2>4 DEF m, StoreGrows
<1>2. ASSUME Busy'
      PROVE  store'[<<status'.system, status'.response.id>>].image # "none"
  <2>1. CASE Busy /\ status'.system = status.system
             /\ status'.response = status.response
    <3>1. status.system \in Systems /\ status.response.id \in ImageIds
      BY <2>1, BusyFacts DEF Inv, Responses
    <3>2. store[<<status.system, status.response.id>>].image # "none"
      BY <2>1 DEF MessagesStored, OnSystem
    <3>3. QED
      BY <2>1, <3>1, <3>2 DEF StoreGrows
  <2>2. CASE ~(Busy /\ status'.system = status.system
               /\ status'.response = status.response)
    BY <1>2, <2>2 DEF StoreGrows
  <2>3. QED
    BY <2>1, <2>2
<1>3. QED
  BY <1>1, <1>2 DEF MessagesStored, OnSystem

LEMMA MessagesStoredNext ==
  ASSUME FInv, StoredInv, NoneLost, [WNext]_wvars
  PROVE  MessagesStored'
<1> USE DEF StoredInv, ResultsStored, FInv
<1>1. StoreGrows
  BY NextGrows
<1>2. \A k \in 1..Len(queue) : \E n \in 1..Len(queue) : queue[k] = queue[n]
  OBVIOUS
<1>3. ASSUME UNCHANGED <<queue, status>>, SystemsStay
      PROVE  MessagesStored'
  BY <1>1, <1>2, <1>3, MessagesKept DEF Busy
<1>4. ASSUME NEW h \in Handlers,
             Receive(h) \/ HandlerStep(h) \/ HandlerRaises(h)
      PROVE  MessagesStored'
  <2>1. UNCHANGED <<queue, status>>
    BY <1>4, HandlerPool
  <2>2. CASE ~Insert(h)
    BY <1>3, <1>4, <2>1, <2>2, HandlerCarries, CarriesSystems
  <2>3. CASE Insert(h)
    <3>1. PICK i \in Idents : Unused(i) /\ Set(i, NewRecord(handler[h].req))
      BY <2>3 DEF Insert
    <3>2. \A j \in Idents : j # i => images'[j] = images[j]
      BY <3>1 DEF Set, Inv, TypeOK
    <3>3. \A k \in 1..Len(queue) : queue[k].ident \in Idents \ {i}
      BY <3>1 DEF Unused, Messages, Inv, TypeOK
    <3>4. \A k \in 1..Len(queue) : images'[queue[k].ident] = images[queue[k].ident]
      BY <3>2, <3>3
    <3>5. ASSUME NEW k \in 1..Len(queue), queue[k].state = "READY",
                 Exists(images[queue[k].ident])
          PROVE  store'[<<images[queue[k].ident].system, queue[k].response.id>>].image # "none"
      <4>1. queue[k] \in Messages /\ queue[k].ident \in Idents
        BY DEF Messages, Inv, TypeOK
      <4>2. /\ images[queue[k].ident].system \in Systems
            /\ queue[k].response.id \in ImageIds
        BY <3>5, <4>1, DocumentCases DEF Messages, Responses, Record, Inv, TypeOK
      <4>3. QED
        BY <1>1, <3>5, <4>2 DEF MessagesStored, OnSystem, StoreGrows
    <3>6. Busy => store'[<<status.system, status.response.id>>].image # "none"
      <4>1. Busy => status.system \in Systems /\ status.response.id \in ImageIds
        BY BusyFacts DEF Inv, Responses
      <4>2. QED
        BY <1>1, <4>1 DEF MessagesStored, OnSystem, StoreGrows
    <3>7. QED
      BY <2>1, <3>4, <3>5, <3>6 DEF MessagesStored, OnSystem, Busy
  <2>4. QED
    BY <2>2, <2>3
<1>5. CASE StatusStep \/ StatusRaises
  <2>1. SystemsStay
    BY <1>5, StatusCarries, CarriesSystems
  <2>2. \A k \in 1..Len(queue') : \E n \in 1..Len(queue) : queue'[k] = queue[n]
    <3>1. CASE UNCHANGED queue
      BY <1>2, <3>1
    <3>2. CASE queue # <<>> /\ queue' = Tail(queue)
      BY <3>2, TailIs
    <3>3. QED
      BY <1>5, <3>1, <3>2, StatusTakes
  <2>3. CASE BeginReady
    <3>1. /\ queue # <<>> /\ Head(queue).state = "READY"
          /\ Exists(images[Head(queue).ident])
          /\ status'.system = images[Head(queue).ident].system
          /\ status'.response = Head(queue).response
      BY <2>3 DEF BeginReady
    <3>2. 1 \in 1..Len(queue) /\ Head(queue) = queue[1] /\ Head(queue) \in Messages
      BY <3>1, MessageFacts DEF Inv, TypeOK
    <3>3. OnSystem(images[queue[1].ident].system, queue[1].response.id)
      BY <3>1, <3>2 DEF MessagesStored
    <3>4. /\ images[queue[1].ident].system \in Systems
          /\ queue[1].response.id \in ImageIds
      BY <3>1, <3>2, DocumentCases DEF Messages, Responses, Record, Inv, TypeOK
    <3>5. /\ status'.system \in Systems /\ status'.response.id \in ImageIds
          /\ store[<<status'.system, status'.response.id>>].image # "none"
      BY <3>1, <3>2, <3>3, <3>4 DEF OnSystem
    <3>6. QED
      BY <1>1, <2>1, <2>2, <3>5, MessagesKept
  <2>4. CASE ~BeginReady
    <3>1. Busy' => Busy /\ status'.system = status.system
                        /\ status'.response = status.response
      BY <1>5, <2>4, StatusTakes
    <3>2. QED
      BY <1>1, <2>1, <2>2, <3>1, MessagesKept
  <2>5. QED
    BY <2>3, <2>4
<1>6. ASSUME NEW i \in Idents, Age(i)
      PROVE  MessagesStored'
  BY <1>3, <1>6, AgeCarries, CarriesSystems DEF Age
<1>7. ASSUME NEW t \in Threads, JobStep(t)
      PROVE  MessagesStored'
  <2>1. UNCHANGED <<images, status>>
    <3>1. CASE TakeJob(t)
      BY <3>1, TakeJobAt, TakenIs
    <3>2. CASE ~TakeJob(t)
      BY <1>7, <3>2, JobStepSeen, ThreadPosts DEF vars
    <3>3. QED
      BY <3>1, <3>2
  <2>2. SystemsStay
    BY <2>1 DEF SystemsStay
  <2>3. CASE UNCHANGED queue
    BY <1>3, <2>1, <2>2, <2>3
  <2>4. ASSUME NEW m \in Messages, queue' = Append(queue, m),
               m.state = "READY" /\ Exists(images[m.ident]) =>
                 store[<<images[m.ident].system, m.response.id>>].image # "none"
        PROVE  MessagesStored'
    <3>1. \A k \in 1..Len(queue') :
            queue'[k] = m \/ (k \in 1..Len(queue) /\ queue'[k] = queue[k])
      BY <2>4 DEF Inv, TypeOK
    <3>2. \A k \in 1..Len(queue') :
            \/ \E n \in 1..Len(queue) : queue'[k] = queue[n]
            \/ /\ queue'[k] \in Messages
               /\ queue'[k].state = "READY" /\ Exists(images[queue'[k].ident]) =>
                    store[<<images[queue'[k].ident].system, queue'[k].response.id>>].image # "none"
      BY <2>4, <3>1
    <3>3. QED
      BY <1>1, <2>1, <2>2, <3>2, MessagesKept DEF Busy
  <2>5. QED
    BY <1>7, <2>3, <2>4, JobPosts
<1>8. CASE RestartJobs
  BY <1>8 DEF RestartJobs, Restart, MessagesStored, Busy, Idle
<1>9. CASE UNCHANGED wvars
  <2>1. UNCHANGED <<queue, status, images>>
    BY <1>9 DEF wvars, vars
  <2>2. QED
    BY <1>3, <2>1 DEF SystemsStay
<1>10. QED
  BY <1>4, <1>5, <1>6, <1>7, <1>8, <1>9 DEF WNext, Manage

LEMMA DocsStoredNext ==
  ASSUME FInv, StoredInv, NoneLost, [WNext]_wvars
  PROVE  DocsStored'
<1> USE DEF StoredInv, ResultsStored, FInv
<1>1. StoreGrows /\ [Next]_vars
  BY NextGrows, StepMngr
<1>2. ASSUME NEW i \in Idents, Exists(images[i]), images[i].id # NoImage
      PROVE  store'[<<images[i].system, images[i].id>>].image # "none"
  <2>1. images[i].system \in Systems /\ images[i].id \in ImageIds
    BY <1>2, DocumentCases DEF Inv, TypeOK, Record
  <2>2. QED
    BY <1>1, <1>2, <2>1 DEF DocsStored, OnSystem, StoreGrows
<1>3. CASE \A h \in Handlers : ~Insert(h)
  <2>1. CarriesAll
    BY <1>1, <1>3, StepCarries
  <2>2. ASSUME NEW i \in Idents, Exists(images'[i]), images'[i].id # NoImage
        PROVE  store'[<<images'[i].system, images'[i].id>>].image # "none"
    <3>1. /\ Exists(images[i]) /\ images'[i].system = images[i].system
          /\ \/ images'[i].id = images[i].id
             \/ /\ Busy /\ images'[i].id = status.response.id
                /\ images[i].system = status.system
      BY <2>1, <2>2, AbsentFacts DEF CarriesAll, Carried
    <3>2. CASE images'[i].id = images[i].id
      BY <1>2, <2>2, <3>1, <3>2
    <3>3. CASE Busy /\ images'[i].id = status.response.id
                    /\ images[i].system = status.system
      <4>1. status.system \in Systems /\ status.response.id \in ImageIds
        BY <3>3, BusyFacts DEF Inv, Responses
      <4>2. store[<<status.system, status.response.id>>].image # "none"
        BY <3>3 DEF MessagesStored, OnSystem
      <4>3. QED
        BY <1>1, <3>1, <3>3, <4>1, <4>2 DEF StoreGrows
    <3>4. QED
      BY <3>1, <3>2, <3>3
  <2>3. QED
    BY <2>2 DEF DocsStored, OnSystem
<1>4. ASSUME NEW h \in Handlers, Insert(h)
      PROVE  DocsStored'
  <2>1. PICK i \in Idents : Set(i, NewRecord(handler[h].req))
    BY <1>4 DEF Insert
  <2>2. /\ images'[i].id = NoImage
        /\ \A j \in Idents : j # i => images'[j] = images[j]
    BY <2>1 DEF Set, NewRecord, Inv, TypeOK
  <2>3. QED
    BY <1>2, <2>2 DEF DocsStored, OnSystem
<1>5. QED
  BY <1>3, <1>4

LEMMA StoredInit == WInit => StoredInv
<1> SUFFICES ASSUME WInit PROVE StoredInv
  OBVIOUS
<1>1. /\ Len(pool) = 0 /\ Len(queue) = 0 /\ ~Busy
      /\ \A t \in Threads : job[t].pc = "none" /\ worker[t].pc = "idle"
      /\ \A h \in Handlers : handler[h].pc = "idle"
      /\ \A i \in Idents : ~Exists(images[i])
  BY AbsentFacts DEF WInit, Init, Idle, Busy, NoJob
<1>2. Unexpired /\ JobRuns
  BY <1>1 DEF Unexpired, JobRuns, ExpirePC, EndedPC
<1>3. SystemKept
  BY <1>1 DEF SystemKept
<1>4. ResultsStored
  BY <1>1 DEF ResultsStored, JobsStored, MessagesStored, DocsStored, FoundThere, UnfoundPC
<1>5. QED
  BY <1>2, <1>3, <1>4 DEF StoredInv

LEMMA StoredNext ==
  ASSUME FInv, NeverExpire, StoredInv, NoneLost, [WNext]_wvars
  PROVE  StoredInv'
BY UnexpiredNext, JobRunsNext, SystemKeptNext, JobsStoredNext,
   MessagesStoredNext, DocsStoredNext
DEF StoredInv, ResultsStored

LEMMA NothingExpires ==
  NeverExpire /\ "unimage" \notin Breaks /\ WSpec => [](FInv /\ StoredInv)
<1> DEFINE Unharmed == NeverExpire /\ "unimage" \notin Breaks
<1>1. FInv /\ Unharmed /\ StoredInv /\ [WNext]_wvars => StoredInv'
  BY StoredNext DEF NoneLost
<1>2. Unharmed => []Unharmed
  <2>1. Unharmed => Unharmed'
    BY DEF NeverExpire
  <2> HIDE DEF Unharmed
  <2>2. QED
    BY <2>1, PTL
<1>3. QED
  BY <1>1, <1>2, StoredInit, WorkerImplementsMngr, PTL DEF WSpec

-----------------------------------------------------------------------------
(* One worker thread: nobody else touches the files a request has made.     *)

OneThread == \A t, u \in Threads : t = u

LEMMA JobStepSole ==
  ASSUME FInv, NEW t \in Threads, SoleFacts(t), JobStep(t)
  PROVE  SoleFacts(t)'
<1> USE DEF SoleFacts
<1>1. CASE job'[t].pc \notin MadePC \cup KnownPC
  BY <1>1 DEF MadePC
<1>2. /\ job \in [Threads -> Jobs \cup {NoJob}]
      /\ stage \in [ImageIds -> FileSet]
      /\ job[t].pc # "none" => job[t] \in Jobs /\ JobFacts(job[t]) /\ job[t].task \in Tasks
  BY JobTyped DEF FInv, FilesTypeOK
<1> USE DEF MadePC, KnownPC
<1>3. CASE TakeJob(t)
  BY <1>1, <1>3, TakeJobAt
<1>4. CASE BeginJob(t)
  <2>1. job[t].pc = "start" /\ \E pc \in {"manifest", "hash", "rmmeta"} : JobTo(t, pc)
    BY <1>2, <1>4 DEF BeginJob, Tasks
  <2>2. QED
    BY <1>1, <2>1, JobToAt
<1>5. CASE GetManifest(t)
  <2>1. /\ job'[t].pc = "precheck" /\ job'[t].task = job[t].task
        /\ job'[t].id \in Images /\ job[t].task.op = "pull"
    BY <1>2, <1>5 DEF GetManifest, Jobs, JobFacts
  <2>2. QED
    BY <2>1
<1>6. CASE PullLayers(t)
  BY <1>2, <1>6 DEF PullLayers, Jobs
<1>7. CASE CheckAgain(t)
  <2>1. /\ job[t].pc = "check" /\ job'[t].meta_only = CheckImage(t)
        /\ job'[t].pc = IF CheckImage(t) THEN "meta" ELSE "convert"
        /\ job'[t].task = job[t].task /\ job'[t].id = job[t].id
    BY <1>2, <1>7 DEF CheckAgain, Jobs
  <2>2. QED
    BY <2>1
<1>8. CASE Convert(t)
  <2>1. /\ job[t].pc = "convert" /\ UNCHANGED stage
        /\ job'[t].pc \in {"meta", "squash", "raise"}
        /\ job'[t].pc = "meta" => stage[job[t].id].image # "none"
        /\ job'[t].task = job[t].task /\ job'[t].id = job[t].id
    BY <1>2, <1>8 DEF Convert, OnlyJob, Staged, Jobs
  <2>2. QED
    BY <2>1
<1>9. CASE MakeSquashfs(t)
  <2>1. /\ job[t].pc = "squash" /\ job'[t].pc = "meta"
        /\ job'[t].task = job[t].task /\ job'[t].id = job[t].id
    BY <1>9, JobToAt DEF MakeSquashfs
  <2>2. PICK image \in Squash : stage' = [stage EXCEPT ![job[t].id].image = image]
    BY <1>9 DEF MakeSquashfs
  <2>3. image # "none" /\ job[t].id \in ImageIds
    BY <2>1, PlaceTyped, ImageWorkerAssumption
  <2>4. stage'[job[t].id].image = image
    BY <1>2, <2>2, <2>3 DEF FileSet
  <2>5. QED
    BY <2>1, <2>3, <2>4
<1>10. CASE HashFile(t)
  <2>1. /\ job'[t].pc = "meta" /\ job'[t].task = job[t].task
        /\ job'[t].id = job[t].task.file /\ job[t].task.op = "import"
        /\ job[t].task.file \in Files
    BY <1>2, <1>10 DEF HashFile, Jobs, JobFacts, Tasks
  <2>2. QED
    BY <2>1
<1>11. CASE WriteMetadata(t)
  <2>1. /\ job[t].pc = "meta" /\ job'[t].pc = "announce"
        /\ job'[t].task = job[t].task /\ job'[t].id = job[t].id
        /\ job'[t].meta_only = job[t].meta_only
    BY <1>2, <1>11 DEF WriteMetadata, Jobs
  <2>2. job[t].id \in ImageIds /\ AccessLists(t) # NoMeta
    BY <2>1, PlaceTyped, ListsTyped
  <2>3. /\ stage'[job[t].id].meta = AccessLists(t)
        /\ stage'[job[t].id].image = stage[job[t].id].image
    BY <1>2, <1>11, <2>2 DEF WriteMetadata, FileSet
  <2>4. QED
    BY <2>1, <2>2, <2>3
<1>12. CASE BeginTransfer(t)
  <2>1. /\ job[t].pc = "announce" /\ job'[t].pc = "copymeta" /\ UNCHANGED stage
        /\ job'[t].task = job[t].task /\ job'[t].id = job[t].id
        /\ job'[t].meta_only = job[t].meta_only
    BY <1>12, JobToAt DEF BeginTransfer, FilesSame
  <2>2. QED
    BY <2>1
<1>13. CASE CopyMeta(t)
  <2>1. /\ job[t].pc = "copymeta" /\ UNCHANGED stage
        /\ \E pc \in {"ready", "copyimage", "raise"} :
             JobTo(t, pc) /\ (pc = "copyimage" => ~job[t].meta_only)
    BY <1>13 DEF CopyMeta
  <2>2. /\ job'[t].pc \in {"ready", "copyimage", "raise"}
        /\ job'[t].pc = "copyimage" => ~job[t].meta_only
        /\ job'[t].task = job[t].task /\ job'[t].id = job[t].id
        /\ job'[t].meta_only = job[t].meta_only
    BY <2>1, JobToAt
  <2>3. QED
    BY <2>1, <2>2
<1>14. CASE CopyImage(t)
  <2>1. job[t].pc = "copyimage" /\ (JobTo(t, "ready") \/ JobTo(t, "raise"))
    BY <1>14 DEF CopyImage
  <2>2. /\ job'[t].pc \in {"ready", "raise"}
        /\ job'[t].task = job[t].task /\ job'[t].id = job[t].id
    BY <2>1, JobToAt
  <2>3. QED
    BY <2>1, <2>2
<1>15. CASE Ready(t) \/ DropImage(t) \/ RemoveMeta(t) \/ RemoveImage(t)
  <2>1. /\ job[t].pc # "none"
        /\ \E pc \in {"dropimage", "dropmeta", "rmimage", "expired"} : JobTo(t, pc)
    BY <1>15 DEF Ready, DropImage, RemoveMeta, RemoveImage
  <2>2. QED
    BY <1>1, <2>1, JobToAt
<1>16. CASE DropMeta(t) \/ FailJob(t) \/ FailJobAgain(t) \/ ExpiredJob(t)
  <2>1. job[t].pc # "none"
    BY <1>16, JobKeeps, TakeJobAt, ImageWorkerAssumption
    DEF DropMeta, FailJob, FailJobAgain, ExpiredJob, Raising
  <2>2. JobTo(t, "failed") \/ JobTo(t, "dropimage") \/ job' = [job EXCEPT ![t] = NoJob]
    BY <1>16 DEF DropMeta, FailJob, FailJobAgain, ExpiredJob
  <2>3. QED
    BY <1>1, <2>1, <2>2, JobToAt, NoJobAt
<1>17. QED
  BY <1>3, <1>4, <1>5, <1>6, <1>7, <1>8, <1>9, <1>10, <1>11, <1>12, <1>13,
     <1>14, <1>15, <1>16
  DEF JobStep

LEMMA SoleNext ==
  ASSUME FInv, OneThread, SoleInv, [WNext]_wvars
  PROVE  SoleInv'
<1>1. CASE UNCHANGED fvars
  BY <1>1 DEF fvars, SoleInv, SoleFacts
<1>2. ASSUME NEW t \in Threads, JobStep(t)
      PROVE  SoleInv'
  <2>1. SoleFacts(t)'
    BY <1>2, JobStepSole DEF SoleInv
  <2>2. \A u \in Threads : u = t
    BY DEF OneThread
  <2>3. QED
    BY <2>1, <2>2 DEF SoleInv
<1>3. CASE RestartJobs
  BY <1>3 DEF RestartJobs, SoleInv, SoleFacts, NoJob, MadePC, KnownPC
<1>4. QED
  BY <1>1, <1>2, <1>3 DEF WNext, wvars

LEMMA SoleRequests == OneThread /\ WSpec => [](FInv /\ SoleInv)
<1>1. WInit => SoleInv
  BY DEF WInit, SoleInv, SoleFacts, NoJob, MadePC, KnownPC
<1>2. FInv /\ OneThread /\ SoleInv /\ [WNext]_wvars => SoleInv'
  BY SoleNext
<1>3. OneThread => []OneThread
  <2>1. OneThread => OneThread'
    BY DEF OneThread
  <2>2. QED
    BY <2>1, PTL
<1>4. QED
  BY <1>1, <1>2, <1>3, WorkerImplementsMngr, PTL DEF WSpec

\* How a request gets on before its image is on the system.
LEMMA JobGoes ==
  ASSUME FInv, NEW t \in Threads, JobStep(t), ~TakeJob(t),
         job'[t].pc \in UnfoundPC \cup MadePC
  PROVE  /\ job'[t].task = job[t].task
         /\ \/ /\ job[t].pc = "check" /\ UNCHANGED store
               /\ job'[t].id = job[t].id /\ job'[t].meta_only = CheckImage(t)
               /\ job'[t].pc = IF CheckImage(t) THEN "meta" ELSE "convert"
            \/ /\ job[t].pc \in UnfoundPC \ {"check"} /\ UNCHANGED store
               /\ job'[t].pc \in UnfoundPC \cup {"meta"}
               /\ job'[t].meta_only = job[t].meta_only
               /\ job[t].pc \in {"convert", "squash"} => job'[t].id = job[t].id
               /\ job'[t].pc \in {"convert", "squash", "meta"} =>
                    job[t].pc \in {"convert", "squash"} \/ job[t].task.op = "import"
            \/ /\ job[t].pc \in MadePC /\ job'[t].pc \in MadePC
               /\ job'[t].id = job[t].id /\ job'[t].meta_only = job[t].meta_only
               /\ job'[t].pc = "copyimage" => CopyMeta(t) /\ ~job[t].meta_only
               /\ job'[t].pc # "copyimage" =>
                    job[t].pc \in {"meta", "announce"} /\ UNCHANGED store
<1> USE DEF UnfoundPC, MadePC
<1>1. /\ job \in [Threads -> Jobs \cup {NoJob}]
      /\ job[t].pc # "none" /\ job[t] \in Jobs /\ JobFacts(job[t]) /\ job[t].task \in Tasks
  BY JobKeeps, JobTyped DEF FInv, FilesTypeOK
<1>2. CASE BeginJob(t)
  <2>1. job[t].pc = "start" /\ \E pc \in {"manifest", "hash", "rmmeta"} : JobTo(t, pc)
    BY <1>1, <1>2 DEF BeginJob, Tasks
  <2>2. UNCHANGED store
    BY <1>2 DEF BeginJob, FilesSame
  <2>3. /\ job'[t].pc \in {"manifest", "hash", "rmmeta"}
        /\ job'[t].task = job[t].task /\ job'[t].meta_only = job[t].meta_only
    BY <2>1, JobToAt
  <2>4. QED
    BY <2>1, <2>2, <2>3
<1>3. CASE GetManifest(t)
  <2>1. /\ job[t].pc = "manifest" /\ UNCHANGED store
        /\ job'[t].pc = "precheck" /\ job'[t].task = job[t].task
        /\ job'[t].meta_only = job[t].meta_only
    BY <1>1, <1>3 DEF GetManifest, OnlyJob, Jobs
  <2>2. QED
    BY <2>1
<1>4. CASE PullLayers(t)
  <2>1. /\ job[t].pc = "precheck" /\ UNCHANGED store
        /\ job'[t].pc = "check" /\ job'[t].task = job[t].task
        /\ job'[t].meta_only = job[t].meta_only
    BY <1>1, <1>4 DEF PullLayers, OnlyJob, Jobs
  <2>2. QED
    BY <2>1
<1>5. CASE CheckAgain(t)
  BY <1>1, <1>5 DEF CheckAgain, OnlyJob, Jobs
<1>6. CASE Convert(t)
  <2>1. /\ job[t].pc = "convert" /\ UNCHANGED store
        /\ job'[t].pc \in {"meta", "squash", "raise"}
        /\ job'[t].task = job[t].task /\ job'[t].id = job[t].id
        /\ job'[t].meta_only = job[t].meta_only
    BY <1>1, <1>6 DEF Convert, OnlyJob, Jobs
  <2>2. QED
    BY <2>1
<1>7. CASE MakeSquashfs(t)
  <2>1. /\ job[t].pc = "squash" /\ UNCHANGED store /\ JobTo(t, "meta")
    BY <1>7 DEF MakeSquashfs
  <2>2. QED
    BY <2>1, JobToAt
<1>8. CASE HashFile(t)
  <2>1. /\ job[t].pc = "hash" /\ UNCHANGED store /\ job[t].task.op = "import"
        /\ job'[t].pc = "meta" /\ job'[t].task = job[t].task
        /\ job'[t].meta_only = job[t].meta_only
    BY <1>1, <1>8 DEF HashFile, OnlyJob, Jobs, JobFacts
  <2>2. QED
    BY <2>1
<1>9. CASE WriteMetadata(t)
  BY <1>1, <1>9 DEF WriteMetadata, Jobs
<1>10. CASE BeginTransfer(t)
  <2>1. job[t].pc = "announce" /\ UNCHANGED store /\ JobTo(t, "copymeta")
    BY <1>10 DEF BeginTransfer, FilesSame
  <2>2. QED
    BY <2>1, JobToAt
<1>11. CASE CopyMeta(t)
  <2>1. /\ job[t].pc = "copymeta"
        /\ \E pc \in {"ready", "copyimage", "raise"} :
             JobTo(t, pc) /\ (pc = "copyimage" => ~job[t].meta_only)
    BY <1>11 DEF CopyMeta
  <2>2. /\ job'[t].pc \in {"ready", "copyimage", "raise"}
        /\ job'[t].pc = "copyimage" => ~job[t].meta_only
        /\ job'[t].task = job[t].task /\ job'[t].id = job[t].id
        /\ job'[t].meta_only = job[t].meta_only
    BY <2>1, JobToAt
  <2>3. job'[t].pc = "copyimage" /\ ~job[t].meta_only
    BY <2>2
  <2>4. QED
    BY <1>11, <2>1, <2>2, <2>3
<1>12. ~CopyImage(t) /\ ~Ready(t) /\ ~DropImage(t) /\ ~RemoveMeta(t) /\ ~RemoveImage(t)
  <2>1. CopyImage(t) \/ Ready(t) \/ DropImage(t) \/ RemoveMeta(t) \/ RemoveImage(t)
          => \E pc \in {"ready", "raise", "dropimage", "dropmeta", "rmimage", "expired"} :
               JobTo(t, pc)
    BY DEF CopyImage, Ready, DropImage, RemoveMeta, RemoveImage
  <2>2. QED
    BY <1>1, <2>1, JobToAt
<1>13. ~DropMeta(t) /\ ~FailJob(t) /\ ~FailJobAgain(t) /\ ~ExpiredJob(t)
  <2>1. DropMeta(t) \/ FailJob(t) \/ FailJobAgain(t) \/ ExpiredJob(t)
          => JobTo(t, "failed") \/ JobTo(t, "dropimage") \/ job' = [job EXCEPT ![t] = NoJob]
    BY DEF DropMeta, FailJob, FailJobAgain, ExpiredJob
  <2>2. QED
    BY <1>1, <2>1, JobToAt, NoJobAt
<1>14. QED
  BY <1>2, <1>3, <1>4, <1>5, <1>6, <1>7, <1>8, <1>9, <1>10, <1>11, <1>12, <1>13
  DEF JobStep

\* The copy of metadata does not fail: no step after it looks at the result.
CopiesMeta == {"nometa", "unmeta"} \cap Breaks = {}

\* The one step that copies metadata, and the one that copies an image.
LEMMA CopyMetaStore ==
  ASSUME FInv, NEW t \in Threads, SoleFacts(t), CopyMeta(t), CopiesMeta
  PROVE  /\ job[t].pc = "copymeta"
         /\ job[t].task.system \in Systems /\ job[t].id \in ImageIds
         /\ job'[t].pc = (IF job[t].meta_only THEN "ready" ELSE "copyimage")
         /\ job'[t].task = job[t].task /\ job'[t].id = job[t].id
         /\ job'[t].meta_only = job[t].meta_only
         /\ \A s \in Systems, id \in ImageIds :
              /\ store'[<<s, id>>].image = store[<<s, id>>].image
              /\ IF s = job[t].task.system /\ id = job[t].id
                 THEN store'[<<s, id>>].meta # NoMeta
                 ELSE store'[<<s, id>>].meta = store[<<s, id>>].meta
<1>1. job[t].pc = "copymeta"
  BY DEF CopyMeta
<1>2. job[t].task.system \in Systems /\ job[t].id \in ImageIds
  BY <1>1, PlaceTyped DEF KnownPC
<1>3. JobTo(t, IF job[t].meta_only THEN "ready" ELSE "copyimage")
  BY DEF CopyMeta, CopiesMeta
<1>4. PICK meta : /\ meta # NoMeta
                  /\ store' = [store EXCEPT
                       ![<<job[t].task.system, job[t].id>>].meta = meta]
  BY <1>1 DEF CopyMeta, CopiesMeta, SoleFacts, Staged, Place
<1>5. store \in [Systems \X ImageIds -> FileSet]
  BY DEF FInv, FilesTypeOK
<1>6. \A s \in Systems, id \in ImageIds :
        /\ store'[<<s, id>>].image = store[<<s, id>>].image
        /\ IF s = job[t].task.system /\ id = job[t].id
           THEN store'[<<s, id>>].meta = meta
           ELSE store'[<<s, id>>].meta = store[<<s, id>>].meta
  BY <1>2, <1>4, <1>5 DEF FileSet
<1>7. QED
  BY <1>1, <1>2, <1>3, <1>4, <1>6, JobToAt

LEMMA CopyImageStore ==
  ASSUME FInv, NEW t \in Threads, SoleFacts(t), CopyImage(t)
  PROVE  /\ job[t].pc = "copyimage" /\ ~job[t].meta_only
         /\ job[t].task.system \in Systems /\ job[t].id \in ImageIds
         /\ job'[t].pc \in {"ready", "raise"}
         /\ "unimage" \notin Breaks => job'[t].pc = "ready"
         /\ \/ job[t].task.op = "pull" /\ job[t].id \in Images
            \/ job[t].task.op = "import" /\ job[t].id \in Files
         /\ \A s \in Systems, id \in ImageIds :
              /\ store'[<<s, id>>].meta = store[<<s, id>>].meta
              /\ IF s = job[t].task.system /\ id = job[t].id
                 THEN /\ job'[t].pc = "ready" => store'[<<s, id>>].image # "none"
                      /\ job[t].task.op = "import" => store'[<<s, id>>].image = "whole"
                 ELSE store'[<<s, id>>].image = store[<<s, id>>].image
<1>1. job[t].pc = "copyimage" /\ ~job[t].meta_only
  BY DEF CopyImage, SoleFacts
<1>2. job[t].task.system \in Systems /\ job[t].id \in ImageIds
  BY <1>1, PlaceTyped DEF KnownPC
<1>3. job[t].task.op \in {"pull", "import"}
  BY <1>1, JobTyped DEF FInv, JobFacts, KnownPC, Tasks
<1>4. Sent(t) # "none" /\ (job[t].task.op = "import" => Sent(t) = "whole")
  BY <1>1, <1>3 DEF SoleFacts, Sent, Staged, MadePC
<1>5. PICK image \in {"none", Sent(t)}, pc \in {"ready", "raise"} :
        /\ JobTo(t, pc)
        /\ store' = [store EXCEPT ![<<job[t].task.system, job[t].id>>].image = image]
        /\ pc = "ready" \/ job[t].task.op = "import" => image = Sent(t)
        /\ pc = "raise" => "unimage" \in Breaks
  <2>1. CASE /\ store' = [store EXCEPT ![Place(t)].image = Sent(t)]
             /\ JobTo(t, "ready")
    BY <2>1 DEF Place
  <2>2. CASE /\ "unimage" \in Breaks /\ job[t].task.op # "import"
             /\ \E image \in {"none", Sent(t)} :
                  store' = [store EXCEPT ![Place(t)].image = image]
             /\ JobTo(t, "raise")
    BY <2>2 DEF Place
  <2>3. QED
    BY <1>4, <2>1, <2>2 DEF CopyImage
<1>6. store \in [Systems \X ImageIds -> FileSet]
  BY DEF FInv, FilesTypeOK
<1>7. \A s \in Systems, id \in ImageIds :
        /\ store'[<<s, id>>].meta = store[<<s, id>>].meta
        /\ IF s = job[t].task.system /\ id = job[t].id
           THEN store'[<<s, id>>].image = image
           ELSE store'[<<s, id>>].image = store[<<s, id>>].image
  BY <1>2, <1>5, <1>6 DEF FileSet
<1>8. job'[t].pc = pc
  BY <1>1, <1>5, JobToAt
<1>9. \/ job[t].task.op = "pull" /\ job[t].id \in Images
      \/ job[t].task.op = "import" /\ job[t].id \in Files
  BY <1>1, <1>3 DEF SoleFacts, KnownPC
<1>10. job[t].task.op = "import" => image = "whole"
  BY <1>4, <1>5
<1>11. pc = "ready" => image # "none"
  BY <1>4, <1>5
<1>12. QED
  BY <1>1, <1>2, <1>5, <1>7, <1>8, <1>9, <1>10, <1>11

LEMMA StoreSteps ==
  ASSUME FInv, NEW t \in Threads, JobStep(t)
  PROVE  UNCHANGED store \/ CopyMeta(t) \/ CopyImage(t) \/ RemoveMeta(t) \/ RemoveImage(t)
BY DEF JobStep, TakeJob, BeginJob, GetManifest, PullLayers, CheckAgain, Convert,
       MakeSquashfs, HashFile, WriteMetadata, BeginTransfer, Ready, DropImage,
       DropMeta, ExpiredJob, FailJob, FailJobAgain, OnlyJob, FilesSame

-----------------------------------------------------------------------------
(* One worker thread and no expiry: an image on a system has its metadata, *)
(* and stays as it is.                                                     *)

LEMMA JobStepCovers ==
  ASSUME FInv, Unexpired, NEW t \in Threads, JobStep(t), SoleFacts(t),
         Covered, CoverFacts(t), CopiesMeta
  PROVE  Covered' /\ CoverFacts(t)'
<1>1. CASE UNCHANGED store /\ ~CopyMeta(t)
  <2>1. Covered'
    BY <1>1 DEF Covered
  <2>2. CASE job'[t].pc \notin {"convert", "squash"} \cup MadePC
    BY <2>1, <2>2 DEF CoverFacts, MadePC
  <2>3. CASE job'[t].pc \in {"convert", "squash"} \cup MadePC
    <3>1. ~TakeJob(t) /\ job'[t].pc \in UnfoundPC \cup MadePC
      BY <2>3, TakeJobAt DEF UnfoundPC, MadePC
    <3>2. job'[t].pc # "copyimage"
      BY <1>1, <3>1, JobGoes DEF UnfoundPC
    <3>3. ASSUME job'[t].task.op = "pull", ~job'[t].meta_only
          PROVE  store'[<<job'[t].task.system, job'[t].id>>].image = "none"
      <4>1. job'[t].task = job[t].task
        BY <3>1, JobGoes
      <4>2. CASE /\ job[t].pc = "check" /\ job'[t].id = job[t].id
                 /\ job'[t].meta_only = CheckImage(t)
        <5>1. job[t].task.system \in Systems /\ job[t].id \in ImageIds
          BY <4>2, PlaceTyped DEF KnownPC
        <5>2. store[<<job[t].task.system, job[t].id>>].image = "none"
          BY <3>3, <4>2, <5>1 DEF Covered, CheckImage, Stored, Place
        <5>3. QED
          BY <1>1, <4>1, <4>2, <5>2
      <4>3. CASE /\ job[t].pc \in {"convert", "squash"} \cup MadePC
                 /\ job'[t].id = job[t].id /\ job'[t].meta_only = job[t].meta_only
        BY <1>1, <3>3, <4>1, <4>3 DEF CoverFacts
      <4>4. QED
        <5>1. job[t].task.op # "import"
          BY <3>3, <4>1
        <5>2. \/ job[t].pc = "check" /\ job'[t].id = job[t].id
                 /\ job'[t].meta_only = CheckImage(t)
              \/ /\ job[t].pc \in {"convert", "squash"} \cup MadePC
                 /\ job'[t].id = job[t].id /\ job'[t].meta_only = job[t].meta_only
          BY <2>3, <3>1, <5>1, JobGoes DEF MadePC, UnfoundPC
        <5>3. QED
          BY <4>2, <4>3, <5>2
    <3>4. QED
      BY <2>1, <3>2, <3>3 DEF CoverFacts
  <2>4. QED
    BY <2>2, <2>3
<1>2. CASE CopyMeta(t)
  <2>1. Covered'
    BY <1>2, CopyMetaStore DEF Covered
  <2>2. CoverFacts(t)'
    BY <1>2, CopyMetaStore DEF CoverFacts, MadePC
  <2>3. QED
    BY <2>1, <2>2
<1>3. CASE CopyImage(t)
  <2>1. Covered'
    BY <1>3, CopyImageStore DEF Covered, CoverFacts
  <2>2. CoverFacts(t)'
    BY <1>3, CopyImageStore DEF CoverFacts, MadePC
  <2>3. QED
    BY <2>1, <2>2
<1>4. ~RemoveMeta(t) /\ ~RemoveImage(t)
  BY DEF RemoveMeta, RemoveImage, Unexpired, RemovePC
<1>5. QED
  BY <1>1, <1>2, <1>3, <1>4, StoreSteps

LEMMA CoverNext ==
  ASSUME FInv, Unexpired, SoleInv, CoverInv, OneThread, CopiesMeta,
         [WNext]_wvars
  PROVE  CoverInv'
<1>1. CASE UNCHANGED fvars
  BY <1>1 DEF fvars, CoverInv, Covered, CoverFacts
<1>2. ASSUME NEW t \in Threads, JobStep(t)
      PROVE  CoverInv'
  <2>1. Covered' /\ CoverFacts(t)'
    BY <1>2, JobStepCovers DEF SoleInv, CoverInv
  <2>2. \A u \in Threads : u = t
    BY DEF OneThread
  <2>3. QED
    BY <2>1, <2>2 DEF CoverInv
<1>3. CASE RestartJobs
  BY <1>3 DEF RestartJobs, FilesSame, CoverInv, Covered, CoverFacts, NoJob, MadePC
<1>4. QED
  BY <1>1, <1>2, <1>3 DEF WNext, wvars

\* One thread serves the requests, nobody asks for an expiry, and metadata
\* can be copied.
Orderly == OneThread /\ NeverExpire /\ CopiesMeta

LEMMA OrderlyStays == Orderly => []Orderly
<1>1. Orderly => Orderly'
  BY DEF Orderly, OneThread, NeverExpire, CopiesMeta
<1>2. QED
  BY <1>1, PTL

LEMMA ImagesAreCovered ==
  Orderly /\ WSpec => [](FInv /\ StoredInv /\ SoleInv /\ CoverInv)
<1>1. WInit => CoverInv
  BY DEF WInit, CoverInv, Covered, CoverFacts, NoFiles, NoJob, MadePC
<1>2. FInv /\ StoredInv /\ SoleInv /\ CoverInv /\ Orderly /\ [WNext]_wvars
        => StoredInv' /\ CoverInv'
  BY StoredNext, CoverNext DEF Orderly, StoredInv, NoneLost
<1>3. Orderly => OneThread
  BY DEF Orderly
<1>4. QED
  BY <1>1, <1>2, <1>3, OrderlyStays, SoleRequests, StoredInit, PTL DEF WSpec

\* ImageStored: a pull or an import posts READY only when its image file is
\* on the system, found there or copied.  Besides an expiry only copy_file
\* takes a file away, when its chmod fails after the mv.  As long as nothing
\* is expired a READY document leads to a file: with any number of threads,
\* systems and handlers, whatever raises, is lost or restarts, if that chmod
\* works for images; and when it may fail, if one thread does all requests
\* and metadata can be copied, for then a pull copies no image that is there.
THEOREM ReadyImagesAreStored ==
  NeverExpire /\ ("unimage" \notin Breaks \/ Orderly) /\ WSpec => []ImageStored
<1>1. FInv /\ StoredInv => ImageStored
  <2> SUFFICES ASSUME FInv, StoredInv, NEW i \in Idents, IsReady(images[i])
               PROVE  store[images[i].system, images[i].id].image # "none"
    BY DEF ImageStored
  <2>1. Exists(images[i]) /\ images[i].id # NoImage
    BY DEF FInv, Inv, DocInv, ReadyHasImage, HasImage, IsReady, Exists
  <2>2. OnSystem(images[i].system, images[i].id)
    BY <2>1 DEF StoredInv, ResultsStored, DocsStored
  <2>3. QED
    BY <2>2 DEF OnSystem
<1>2. QED
  BY <1>1, NothingExpires, ImagesAreCovered, PTL

\* MetaStored: transfer sends the metadata file first and does not look
\* whether that worked.  With one worker thread the file is in
\* ExpandDirectory when it is sent; as long as neither the copy nor the
\* chmod after it fails, a READY document has both files on its system,
\* whatever else raises or restarts, a failing copy of the image included.
THEOREM MetadataIsStored == Orderly /\ WSpec => []MetaStored
<1>1. FInv /\ StoredInv /\ CoverInv => MetaStored
  <2> SUFFICES ASSUME FInv, StoredInv, CoverInv, NEW i \in Idents, IsReady(images[i])
               PROVE  store[images[i].system, images[i].id].meta # NoMeta
    BY DEF MetaStored
  <2>1. Exists(images[i]) /\ images[i].id # NoImage
    BY DEF FInv, Inv, DocInv, ReadyHasImage, HasImage, IsReady, Exists
  <2>2. images[i].system \in Systems /\ images[i].id \in ImageIds
    BY <2>1, DocumentCases DEF FInv, Inv, TypeOK, Record
  <2>3. store[<<images[i].system, images[i].id>>].image # "none"
    BY <2>1 DEF StoredInv, ResultsStored, DocsStored, OnSystem
  <2>4. store[<<images[i].system, images[i].id>>].meta # NoMeta
    BY <2>2, <2>3 DEF CoverInv, Covered
  <2>5. QED
    BY <2>4
<1>2. QED
  BY <1>1, ImagesAreCovered, PTL

-----------------------------------------------------------------------------
(* An image is not made twice.                                             *)

\* No image of a registry has the hash of a file that is imported.
HashesApart == Images \cap Files = {}

\* An import copies over what is there; it is the file itself.
FilesWhole ==
  \A s \in Systems, id \in Files : store[<<s, id>>].image # "broken"

LEMMA JobStepWhole ==
  ASSUME FInv, Unexpired, NEW t \in Threads, JobStep(t), SoleFacts(t),
         FilesWhole, CopiesMeta, HashesApart
  PROVE  FilesWhole'
<1>1. CASE UNCHANGED store
  BY <1>1 DEF FilesWhole
<1>2. CASE CopyMeta(t)
  <2>1. \A s \in Systems, id \in ImageIds :
          store[<<s, id>>].image # "broken" => store'[<<s, id>>].image # "broken"
    BY <1>2, CopyMetaStore
  <2>2. QED
    BY <2>1 DEF FilesWhole, ImageIds
<1>3. CASE CopyImage(t)
  <2>1. job[t].id \in Files => job[t].task.op = "import"
    BY <1>3, CopyImageStore DEF HashesApart
  <2>2. \A s \in Systems, id \in ImageIds :
          /\ store[<<s, id>>].image # "broken"
          /\ id = job[t].id => job[t].task.op = "import"
          => store'[<<s, id>>].image # "broken"
    BY <1>3, CopyImageStore
  <2>3. QED
    BY <2>1, <2>2 DEF FilesWhole, ImageIds
<1>4. ~RemoveMeta(t) /\ ~RemoveImage(t)
  BY DEF RemoveMeta, RemoveImage, Unexpired, RemovePC
<1>5. QED
  BY <1>1, <1>2, <1>3, <1>4, StoreSteps

LEMMA WholeNext ==
  ASSUME FInv, Unexpired, SoleInv, FilesWhole, CopiesMeta,
         HashesApart, [WNext]_wvars
  PROVE  FilesWhole'
<1>1. CASE UNCHANGED store
  BY <1>1 DEF FilesWhole
<1>2. ASSUME NEW t \in Threads, JobStep(t)
      PROVE  FilesWhole'
  BY <1>2, JobStepWhole DEF SoleInv
<1>3. QED
  BY <1>1, <1>2 DEF WNext, wvars, fvars, RestartJobs, FilesSame

\* No step changes an image that is there.
ImagesFixed ==
  \A s \in Systems, id \in ImageIds :
    store[<<s, id>>].image # "none" =>
      store'[<<s, id>>].image = store[<<s, id>>].image

ReadyFixed ==
  \A i \in Idents :
    /\ IsReady(images[i])
    /\ store[<<images[i].system, images[i].id>>].image # "none"
    => store'[<<images[i].system, images[i].id>>].image =
         store[<<images[i].system, images[i].id>>].image

LEMMA JobStepFixed ==
  ASSUME FInv, Unexpired, NEW t \in Threads, JobStep(t), SoleFacts(t),
         CoverFacts(t), FilesWhole, CopiesMeta
  PROVE  ImagesFixed
<1>1. CASE UNCHANGED store
  BY <1>1 DEF ImagesFixed
<1>2. CASE CopyMeta(t)
  BY <1>2, CopyMetaStore DEF ImagesFixed
<1>3. CASE CopyImage(t)
  <2>1. ASSUME NEW s \in Systems, NEW id \in ImageIds,
               store[<<s, id>>].image # "none"
        PROVE  store'[<<s, id>>].image = store[<<s, id>>].image
    <3>1. CASE s = job[t].task.system /\ id = job[t].id
      <4>1. job[t].task.op = "import" /\ job[t].id \in Files
        BY <1>3, <2>1, <3>1, CopyImageStore DEF CoverFacts, MadePC
      <4>2. store[<<s, id>>].image \in Image
        BY DEF FInv, FilesTypeOK, FileSet
      <4>3. store[<<s, id>>].image = "whole"
        BY <2>1, <3>1, <4>1, <4>2 DEF Image, FilesWhole
      <4>4. store'[<<s, id>>].image = "whole"
        BY <1>3, <3>1, <4>1, CopyImageStore
      <4>5. QED
        BY <4>3, <4>4
    <3>2. CASE ~(s = job[t].task.system /\ id = job[t].id)
      BY <1>3, <3>2, CopyImageStore
    <3>3. QED
      BY <3>1, <3>2
  <2>2. QED
    BY <2>1 DEF ImagesFixed
<1>4. ~RemoveMeta(t) /\ ~RemoveImage(t)
  BY DEF RemoveMeta, RemoveImage, Unexpired, RemovePC
<1>5. QED
  BY <1>1, <1>2, <1>3, <1>4, StoreSteps

LEMMA FixedNext ==
  ASSUME FInv, Unexpired, SoleInv, CoverInv, FilesWhole, CopiesMeta,
         [WNext]_wvars
  PROVE  ImagesFixed
<1>1. CASE UNCHANGED store
  BY <1>1 DEF ImagesFixed
<1>2. ASSUME NEW t \in Threads, JobStep(t)
      PROVE  ImagesFixed
  BY <1>2, JobStepFixed DEF SoleInv, CoverInv
<1>3. QED
  BY <1>1, <1>2 DEF WNext, wvars, fvars, RestartJobs, FilesSame

\* ImageStays: what jobs may have mounted is neither replaced nor removed by
\* a pull: _check_image finds both files of an image that is there, and the
\* pull sends its metadata only.  That takes one thread and metadata that
\* can be copied: with half an image the pull copies the other file again,
\* and removes it when that fails.  An import, which does not look, copies
\* the same file again; it is another one than any image of a registry.
THEOREM MountedImagesStay ==
  Orderly /\ HashesApart /\ WSpec => ImageStays
<1>1. WInit => FilesWhole
  BY DEF WInit, FilesWhole, NoFiles, ImageIds
<1>2. /\ FInv /\ StoredInv /\ SoleInv /\ CoverInv /\ FilesWhole
      /\ Orderly /\ HashesApart /\ [WNext]_wvars
      => FilesWhole'
  <2> SUFFICES ASSUME FInv, StoredInv, SoleInv, CoverInv, FilesWhole, Orderly,
                      HashesApart, [WNext]_wvars
               PROVE  FilesWhole'
    OBVIOUS
  <2>1. Unexpired /\ CopiesMeta
    BY DEF StoredInv, Orderly
  <2>2. QED
    BY <2>1, WholeNext
<1>3. /\ FInv /\ StoredInv /\ SoleInv /\ CoverInv /\ FilesWhole
      /\ Orderly /\ [WNext]_wvars
      => [ReadyFixed]_store
  <2> SUFFICES ASSUME FInv, StoredInv, SoleInv, CoverInv, FilesWhole, Orderly,
                      [WNext]_wvars
               PROVE  ReadyFixed
    OBVIOUS
  <2>1. ImagesFixed
    BY FixedNext DEF Orderly, StoredInv
  <2>2. \A i \in Idents : IsReady(images[i]) =>
          images[i].system \in Systems /\ images[i].id \in ImageIds
    BY DocumentCases
    DEF FInv, Inv, TypeOK, DocInv, ReadyHasImage, HasImage, IsReady, Exists, Record
  <2>3. QED
    BY <2>1, <2>2 DEF ImagesFixed, ReadyFixed
<1>4. HashesApart => []HashesApart
  <2>1. HashesApart => HashesApart'
    BY DEF HashesApart
  <2>2. QED
    BY <2>1, PTL
<1>5. [ReadyFixed]_store =>
      [\A i \in Idents :
         /\ IsReady(images[i])
         /\ store[images[i].system, images[i].id].image # "none"
         => store'[images[i].system, images[i].id].image =
              store[images[i].system, images[i].id].image]_store
  BY DEF ReadyFixed
<1>6. QED
  BY <1>1, <1>2, <1>3, <1>4, <1>5, OrderlyStays, ImagesAreCovered, PTL
  DEF WSpec, ImageStays


-----------------------------------------------------------------------------
(* One worker thread, no restart and no failed copy or removal: a system   *)
(* has both files of an image or neither.                                  *)

\* After the first file of an image comes the second one.
FilesGoOn ==
  Breaks \cap {"nometa", "unmeta", "unimage", "copyimage", "rmimage"} = {}

Careful == OneThread /\ "crash" \notin Faults /\ FilesGoOn

HasBoth(s, id) ==
  (store[<<s, id>>].image # "none") <=> (store[<<s, id>>].meta # NoMeta)

\* The request that is between the two files of an image.
Between(t, s, id) ==
  /\ job[t].pc \in {"copyimage", "rmimage"}
  /\ job[t].task.system = s /\ job[t].id = id

Pairing ==
  \A s \in Systems, id \in ImageIds :
    HasBoth(s, id) \/ \E t \in Threads : Between(t, s, id)

PairFacts(t) ==
  /\ job[t].pc = "copyimage" =>
       store[<<job[t].task.system, job[t].id>>].meta # NoMeta
  /\ job[t].pc \in {"meta", "announce", "copymeta"} /\ job[t].meta_only =>
       store[<<job[t].task.system, job[t].id>>].image # "none"
  /\ job[t].pc = "rmimage" => \A s \in Systems, id \in ImageIds :
       Between(t, s, id) => store[<<s, id>>].meta = NoMeta
  /\ job[t].pc \in UnfoundPC => ~job[t].meta_only

PairInv == Pairing /\ \A t \in Threads : PairFacts(t)

LEMMA RemoveSteps ==
  ASSUME FInv, NEW t \in Threads, RemoveMeta(t) \/ RemoveImage(t)
  PROVE  /\ job'[t].task = job[t].task /\ job'[t].id = job[t].id
         /\ RemoveMeta(t) =>
              /\ job[t].pc = "rmmeta" /\ job'[t].pc = "rmimage"
              /\ \A s \in Systems, id \in ImageIds :
                   IF s = job[t].task.system /\ id = job[t].id
                   THEN store'[<<s, id>>].meta = NoMeta
                   ELSE store'[<<s, id>>] = store[<<s, id>>]
         /\ RemoveImage(t) =>
              /\ job[t].pc = "rmimage" /\ job'[t].pc = "expired"
              /\ \A s \in Systems, id \in ImageIds :
                   IF s = job[t].task.system /\ id = job[t].id
                   THEN /\ store'[<<s, id>>].image = "none"
                        /\ store'[<<s, id>>].meta = store[<<s, id>>].meta
                   ELSE store'[<<s, id>>] = store[<<s, id>>]
<1>1. job[t].pc # "none" /\ \E pc \in {"rmimage", "expired"} : JobTo(t, pc)
  BY DEF RemoveMeta, RemoveImage
<1>2. job'[t].task = job[t].task /\ job'[t].id = job[t].id
  BY <1>1, JobToAt
<1>3. store \in [Systems \X ImageIds -> FileSet]
  BY DEF FInv, FilesTypeOK
<1>4. CASE RemoveMeta(t)
  <2>1. job[t].pc = "rmmeta" /\ JobTo(t, "rmimage") /\ ~RemoveImage(t)
    BY <1>4 DEF RemoveMeta, RemoveImage
  <2>2. job'[t].pc = "rmimage"
    BY <2>1, JobToAt
  <2>3. store' = [store EXCEPT ![<<job[t].task.system, job[t].id>>].meta = NoMeta]
    BY <1>4 DEF RemoveMeta, Place
  <2>4. \A s \in Systems, id \in ImageIds :
          IF s = job[t].task.system /\ id = job[t].id
          THEN store'[<<s, id>>].meta = NoMeta
          ELSE store'[<<s, id>>] = store[<<s, id>>]
    BY <1>3, <2>3 DEF FileSet
  <2>5. QED
    BY <1>2, <2>1, <2>2, <2>4
<1>5. CASE RemoveImage(t)
  <2>1. job[t].pc = "rmimage" /\ JobTo(t, "expired") /\ ~RemoveMeta(t)
    BY <1>5 DEF RemoveMeta, RemoveImage
  <2>2. job'[t].pc = "expired"
    BY <2>1, JobToAt
  <2>3. store' = [store EXCEPT ![<<job[t].task.system, job[t].id>>].image = "none"]
    BY <1>5 DEF RemoveImage, Place
  <2>4. \A s \in Systems, id \in ImageIds :
          IF s = job[t].task.system /\ id = job[t].id
          THEN /\ store'[<<s, id>>].image = "none"
               /\ store'[<<s, id>>].meta = store[<<s, id>>].meta
          ELSE store'[<<s, id>>] = store[<<s, id>>]
    BY <1>3, <2>3 DEF FileSet
  <2>5. QED
    BY <1>2, <2>1, <2>2, <2>4
<1>6. QED
  BY <1>4, <1>5

\* A request that is between the two files goes on with the second one.
LEMMA SecondFile ==
  ASSUME FInv, NEW t \in Threads, JobStep(t),
         FilesGoOn
  PROVE  /\ job[t].pc \in {"copyimage", "rmimage"} => CopyImage(t) \/ RemoveImage(t)
         /\ job'[t].pc = "rmimage" => RemoveMeta(t)
<1>1. job[t].pc \in {"copyimage", "rmimage"} => CopyImage(t) \/ RemoveImage(t)
  <2> SUFFICES ASSUME job[t].pc \in {"copyimage", "rmimage"}
               PROVE  CopyImage(t) \/ RemoveImage(t)
    OBVIOUS
  <2>1. ~FailJob(t)
    BY DEF FailJob, Raising, FilesGoOn
  <2>2. ~TakeJob(t)
    BY DEF TakeJob, NoJob
  <2>3. QED
    BY <2>1, <2>2
    DEF JobStep, BeginJob, GetManifest, PullLayers, CheckAgain, Convert,
        MakeSquashfs, HashFile, WriteMetadata, BeginTransfer, CopyMeta, Ready,
        DropImage, DropMeta, RemoveMeta, ExpiredJob, FailJobAgain
<1>2. job'[t].pc = "rmimage" => RemoveMeta(t)
  <2> SUFFICES ASSUME job'[t].pc = "rmimage", ~RemoveMeta(t)
               PROVE  FALSE
    OBVIOUS
  <2>1. ~TakeJob(t)
    BY TakeJobAt
  <2>2. /\ job \in [Threads -> Jobs \cup {NoJob}]
        /\ job[t].pc # "none" /\ job[t] \in Jobs /\ job[t].task \in Tasks
    BY <2>1, JobKeeps, JobTyped DEF FInv, FilesTypeOK
  <2>3. ~GetManifest(t) /\ ~PullLayers(t) /\ ~CheckAgain(t) /\ ~Convert(t)
    <3>1. ~GetManifest(t)
      BY <2>2 DEF GetManifest, Jobs
    <3>2. ~PullLayers(t)
      BY <2>2 DEF PullLayers, Jobs
    <3>3. ~CheckAgain(t)
      <4>1. CheckAgain(t) =>
              job'[t].pc = IF CheckImage(t) THEN "meta" ELSE "convert"
        BY <2>2 DEF CheckAgain, Jobs
      <4>2. QED
        BY <4>1
    <3>4. ~Convert(t)
      <4>1. Convert(t) => job'[t].pc \in {"meta", "squash", "raise"}
        BY <2>2 DEF Convert, Jobs
      <4>2. QED
        BY <4>1
    <3>5. QED
      BY <3>1, <3>2, <3>3, <3>4
  <2>4. ~HashFile(t) /\ ~WriteMetadata(t)
    BY <2>2 DEF HashFile, WriteMetadata, Jobs
  <2>5. \A pc : JobTo(t, pc) => pc = "rmimage"
    BY <2>2, JobToAt
  <2>6. job' # [job EXCEPT ![t] = NoJob]
    BY <2>2, NoJobAt
  <2>7. ~BeginJob(t) /\ ~MakeSquashfs(t) /\ ~BeginTransfer(t)
    BY <2>2, <2>5 DEF BeginJob, MakeSquashfs, BeginTransfer, Tasks
  <2>8. /\ ~CopyMeta(t) /\ ~CopyImage(t) /\ ~Ready(t) /\ ~DropImage(t)
        /\ ~RemoveImage(t)
    <3>1. ~CopyMeta(t)
      BY <2>5 DEF CopyMeta
    <3>2. ~CopyImage(t) /\ ~Ready(t) /\ ~DropImage(t) /\ ~RemoveImage(t)
      BY <2>5 DEF CopyImage, Ready, DropImage, RemoveImage
    <3>3. QED
      BY <3>1, <3>2
  <2>9. ~DropMeta(t) /\ ~FailJob(t) /\ ~FailJobAgain(t) /\ ~ExpiredJob(t)
    BY <2>5, <2>6 DEF DropMeta, FailJob, FailJobAgain, ExpiredJob
  <2>10. QED
    BY <2>1, <2>3, <2>4, <2>7, <2>8, <2>9 DEF JobStep
<1>3. QED
  BY <1>1, <1>2

\* The thread whose request makes the step is the only one.
LEMMA JobStepPairs ==
  ASSUME FInv, NEW t \in Threads, JobStep(t), SoleFacts(t), PairFacts(t),
         \A s \in Systems, id \in ImageIds : HasBoth(s, id) \/ Between(t, s, id),
         FilesGoOn
  PROVE  /\ PairFacts(t)'
         /\ \A s \in Systems, id \in ImageIds :
              HasBoth(s, id)' \/ Between(t, s, id)'
<1>1. CopiesMeta
  BY DEF CopiesMeta, FilesGoOn
<1>2. CASE UNCHANGED store /\ ~CopyMeta(t) /\ ~CopyImage(t) /\ ~RemoveMeta(t) /\ ~RemoveImage(t)
  <2>1. job[t].pc \notin {"copyimage", "rmimage"} /\ job'[t].pc # "rmimage"
    BY <1>2, SecondFile
  <2>2. \A s \in Systems, id \in ImageIds : HasBoth(s, id)'
    BY <1>2, <2>1 DEF HasBoth, Between
  <2>3. PairFacts(t)'
    <3>1. CASE TakeJob(t)
      BY <3>1, TakeJobAt DEF PairFacts
    <3>2. CASE job'[t].pc \notin UnfoundPC \cup MadePC
      BY <2>1, <3>2 DEF PairFacts, MadePC, UnfoundPC
    <3>3. CASE ~TakeJob(t) /\ job'[t].pc \in UnfoundPC \cup MadePC
      <4>1. job'[t].pc # "copyimage"
        BY <1>2, <3>3, JobGoes DEF UnfoundPC, MadePC
      <4>2. CASE /\ job[t].pc = "check"
                 /\ job'[t].id = job[t].id /\ job'[t].task = job[t].task
                 /\ job'[t].meta_only = CheckImage(t)
                 /\ job'[t].pc = IF CheckImage(t) THEN "meta" ELSE "convert"
        BY <1>2, <4>2 DEF PairFacts, CheckImage, Stored, Place, UnfoundPC
      <4>3. CASE /\ job[t].pc \in UnfoundPC /\ job'[t].meta_only = job[t].meta_only
        BY <2>1, <4>1, <4>3 DEF PairFacts
      <4>4. CASE /\ job[t].pc \in {"meta", "announce"}
                 /\ job'[t].pc \in MadePC /\ job'[t].task = job[t].task
                 /\ job'[t].id = job[t].id /\ job'[t].meta_only = job[t].meta_only
        BY <1>2, <2>1, <4>1, <4>4 DEF PairFacts, MadePC, UnfoundPC
      <4>5. QED
        BY <3>3, <4>1, <4>2, <4>3, <4>4, JobGoes
    <3>4. QED
      BY <3>1, <3>2, <3>3
  <2>4. QED
    BY <2>2, <2>3
<1>3. CASE CopyMeta(t)
  <2>1. PairFacts(t)'
    BY <1>1, <1>3, CopyMetaStore DEF PairFacts, UnfoundPC
  <2>2. \A s \in Systems, id \in ImageIds : HasBoth(s, id)' \/ Between(t, s, id)'
    <3> SUFFICES ASSUME NEW s \in Systems, NEW id \in ImageIds
                 PROVE  HasBoth(s, id)' \/ Between(t, s, id)'
      OBVIOUS
    <3>1. CASE s = job[t].task.system /\ id = job[t].id
      BY <1>1, <1>3, CopyMetaStore, <3>1 DEF PairFacts, HasBoth, Between
    <3>2. CASE ~(s = job[t].task.system /\ id = job[t].id)
      <4>1. HasBoth(s, id)
        BY <3>2 DEF Between
      <4>2. /\ store'[<<s, id>>].image = store[<<s, id>>].image
            /\ store'[<<s, id>>].meta = store[<<s, id>>].meta
        BY <1>1, <1>3, CopyMetaStore, <3>2
      <4>3. QED
        BY <4>1, <4>2 DEF HasBoth
    <3>3. QED
      BY <3>1, <3>2
  <2>3. QED
    BY <2>1, <2>2
<1>4. CASE CopyImage(t)
  <2>1. PairFacts(t)'
    BY <1>4, CopyImageStore DEF PairFacts, UnfoundPC
  <2>2. \A s \in Systems, id \in ImageIds : HasBoth(s, id)' \/ Between(t, s, id)'
    <3> SUFFICES ASSUME NEW s \in Systems, NEW id \in ImageIds
                 PROVE  HasBoth(s, id)' \/ Between(t, s, id)'
      OBVIOUS
    <3>1. CASE s = job[t].task.system /\ id = job[t].id
      BY <1>4, CopyImageStore, <3>1 DEF PairFacts, HasBoth, Between, FilesGoOn
    <3>2. CASE ~(s = job[t].task.system /\ id = job[t].id)
      <4>1. HasBoth(s, id)
        BY <3>2 DEF Between
      <4>2. /\ store'[<<s, id>>].image = store[<<s, id>>].image
            /\ store'[<<s, id>>].meta = store[<<s, id>>].meta
        BY <1>4, CopyImageStore, <3>2
      <4>3. QED
        BY <4>1, <4>2 DEF HasBoth
    <3>3. QED
      BY <3>1, <3>2
  <2>3. QED
    BY <2>1, <2>2
<1>5. CASE RemoveMeta(t)
  <2>1. PairFacts(t)'
    BY <1>5, RemoveSteps DEF PairFacts, UnfoundPC, Between
  <2>2. \A s \in Systems, id \in ImageIds : HasBoth(s, id)' \/ Between(t, s, id)'
    <3> SUFFICES ASSUME NEW s \in Systems, NEW id \in ImageIds
                 PROVE  HasBoth(s, id)' \/ Between(t, s, id)'
      OBVIOUS
    <3>1. CASE s = job[t].task.system /\ id = job[t].id
      BY <1>5, RemoveSteps, <3>1 DEF PairFacts, HasBoth, Between
    <3>2. CASE ~(s = job[t].task.system /\ id = job[t].id)
      <4>1. HasBoth(s, id)
        BY <3>2 DEF Between
      <4>2. /\ store'[<<s, id>>].image = store[<<s, id>>].image
            /\ store'[<<s, id>>].meta = store[<<s, id>>].meta
        BY <1>5, RemoveSteps, <3>2
      <4>3. QED
        BY <4>1, <4>2 DEF HasBoth
    <3>3. QED
      BY <3>1, <3>2
  <2>3. QED
    BY <2>1, <2>2
<1>6. CASE RemoveImage(t)
  <2>1. PairFacts(t)'
    BY <1>6, RemoveSteps DEF PairFacts, UnfoundPC
  <2>2. \A s \in Systems, id \in ImageIds : HasBoth(s, id)' \/ Between(t, s, id)'
    <3> SUFFICES ASSUME NEW s \in Systems, NEW id \in ImageIds
                 PROVE  HasBoth(s, id)' \/ Between(t, s, id)'
      OBVIOUS
    <3>1. CASE s = job[t].task.system /\ id = job[t].id
      BY <1>6, RemoveSteps, <3>1 DEF PairFacts, HasBoth, Between
    <3>2. CASE ~(s = job[t].task.system /\ id = job[t].id)
      <4>1. HasBoth(s, id)
        BY <3>2 DEF Between
      <4>2. /\ store'[<<s, id>>].image = store[<<s, id>>].image
            /\ store'[<<s, id>>].meta = store[<<s, id>>].meta
        BY <1>6, RemoveSteps, <3>2
      <4>3. QED
        BY <4>1, <4>2 DEF HasBoth
    <3>3. QED
      BY <3>1, <3>2
  <2>3. QED
    BY <2>1, <2>2
<1>7. QED
  BY <1>2, <1>3, <1>4, <1>5, <1>6, StoreSteps

LEMMA PairNext ==
  ASSUME FInv, SoleInv, PairInv, Careful, [WNext]_wvars
  PROVE  PairInv'
<1>1. CASE UNCHANGED fvars
  BY <1>1 DEF fvars, PairInv, Pairing, PairFacts, HasBoth, Between
<1>2. ASSUME NEW t \in Threads, JobStep(t)
      PROVE  PairInv'
  <2>1. \A u \in Threads : u = t
    BY DEF Careful, OneThread
  <2>2. \A s \in Systems, id \in ImageIds : HasBoth(s, id) \/ Between(t, s, id)
    BY <2>1 DEF PairInv, Pairing
  <2>3. FilesGoOn
    BY DEF Careful
  <2>4. SoleFacts(t) /\ PairFacts(t)
    BY DEF SoleInv, PairInv
  <2>5. /\ PairFacts(t)'
        /\ \A s \in Systems, id \in ImageIds :
             HasBoth(s, id)' \/ Between(t, s, id)'
    BY <1>2, <2>2, <2>3, <2>4, JobStepPairs
  <2>6. Pairing'
    BY <2>5 DEF Pairing
  <2>7. QED
    BY <2>1, <2>5, <2>6 DEF PairInv
<1>3. ~RestartJobs
  BY DEF RestartJobs, Restart, Careful
<1>4. QED
  BY <1>1, <1>2, <1>3 DEF WNext, wvars

\* FilesPaired: the files come and go one at a time, metadata first, and
\* _check_image takes both or none.  When no request runs there is no half
\* of an image, whatever was pulled, imported or expired, and whatever raised
\* but a copy or the removal of an image; a failing copy, a restart of the
\* gateway or a second worker thread may leave one.
THEOREM FilesGoInPairs == Careful /\ WSpec => []FilesPaired
<1>1. WInit => PairInv
  BY DEF WInit, PairInv, Pairing, PairFacts, HasBoth, NoFiles, NoJob, UnfoundPC
<1>2. FInv /\ SoleInv /\ PairInv /\ Careful /\ [WNext]_wvars => PairInv'
  BY PairNext
<1>3. Careful => OneThread
  BY DEF Careful
<1>4. Careful => []Careful
  <2>1. Careful => Careful'
    BY DEF Careful, OneThread, FilesGoOn
  <2>2. QED
    BY <2>1, PTL
<1>5. PairInv => FilesPaired
  <2> SUFFICES ASSUME PairInv, \A t \in Threads : job[t] = NoJob,
                      NEW s \in Systems, NEW id \in ImageIds
               PROVE  (store[s, id].image # "none") <=> (store[s, id].meta # NoMeta)
    BY DEF FilesPaired
  <2>1. \A t \in Threads : ~Between(t, s, id)
    BY DEF Between, NoJob
  <2>2. HasBoth(s, id)
    BY <2>1 DEF PairInv, Pairing
  <2>3. (store[<<s, id>>].image # "none") <=> (store[<<s, id>>].meta # NoMeta)
    BY <2>2 DEF HasBoth
  <2>4. QED
    BY <2>3
<1>6. QED
  BY <1>1, <1>2, <1>3, <1>4, <1>5, SoleRequests, PTL DEF WSpec

=============================================================================
