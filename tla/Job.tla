-------------------------------- MODULE Job --------------------------------
(***************************************************************************)
(* The callbacks of the SLURM plugin (shifterSpank.c and wrapper.c in      *)
(* wlm_integration/slurm) over the life of jobs that follow one another on *)
(* a node: submission, prolog, the extern step beside the tasks, epilog.   *)
(* setupRoot and unsetupRoot, which Udi has in full, are one step each.    *)
(*                                                                         *)
(* SLURM is external: it calls the prolog first, the extern step and tasks *)
(* in any order, ends the processes of the extern step with the job, and   *)
(* calls the epilog last.  The sshd of a job and what it forks for the     *)
(* user are processes; where says what keeps track of one: "cgroup" (that  *)
(* of its job), "extern" (the extern step), or "node" (nothing).           *)
(***************************************************************************)
EXTENDS Naturals, FiniteSets

CONSTANTS
  JobRequests,     \* options of sbatch or srun: [image, ccm, volume]
  Plugins,      \* plugstack.conf: [memory, extern, sshd]; memory when its base is there too
  Ids,          \* of images
  MaxJobs, MaxProcs,
  JobFaults     \* see FaultsOfJob

FaultsOfJob == {"info", "cgroup", "setup", "unsetup", "stepd", "switch", "epilog", "fork"}
Local == "/"

ASSUME JobAssumption ==
  /\ JobFaults \subseteq FaultsOfJob
  /\ JobRequests \subseteq [image : {"none", "tag", Local}, ccm : BOOLEAN, volume : BOOLEAN]
  /\ Plugins \subseteq [memory : BOOLEAN, extern : BOOLEAN, sshd : BOOLEAN]
  /\ {"none", "tag", Local} \cap Ids = {} /\ Ids # {}
  /\ MaxJobs \in Nat /\ MaxProcs \in Nat

VARIABLES
  plugin,   \* what the site has configured
  tag,      \* the image that the tag means now
  job,      \* the job: [n, opts, image, shared, inside, phase, todo]; inside its cgroup
  extern,   \* where the extern step is, and the processes it has read
  task,     \* a task: its step's options, where it is, its root and its ids
  udi,      \* what is at udiMountPoint: [by, image, whole, complete]
  cgroups,  \* the jobs that have a directory in the memory cgroup
  procs,    \* processes: [job, n, where, sshd]
  meant,    \* what the tag meant when each job was submitted
  left      \* what epilogs left, and why: pairs <<n, "udi">> and <<n, "procs">>
            \* for the job n it is of (meant and left are of the model alone)

jvars == <<plugin, tag, job, extern, task, udi, cgroups, procs, meant, left>>

NoOpts == [image |-> "none", ccm |-> FALSE, volume |-> FALSE]
NoJob  == [n |-> 0, opts |-> NoOpts, image |-> "none", shared |-> FALSE, inside |-> FALSE,
           phase |-> "none", todo |-> {}]
NoUdi  == [by |-> 0, image |-> "none", whole |-> FALSE, complete |-> FALSE]
Quiet  == [at |-> "none", todo |-> {}]
NoTask == [opts |-> NoOpts, at |-> "none", root |-> NoUdi, own |-> TRUE]

JobStart(p) ==
  /\ plugin = p
  /\ tag = CHOOSE i \in Ids : TRUE
  /\ job = NoJob /\ extern = Quiet /\ task = NoTask /\ udi = NoUdi
  /\ cgroups = {} /\ procs = {} /\ meant = [n \in 1 .. MaxJobs |-> "none"] /\ left = {}

JobInit == \E p \in Plugins : JobStart(p)

Fault(f) == f \in JobFaults
-----------------------------------------------------------------------------
(* On the submit host.                                                     *)

\* The process_option functions: ccm without an image is the image "/".
Processed(r) == [r EXCEPT !.image = IF @ = "none" /\ r.ccm THEN Local ELSE @]

\* Mistake: ccm goes with any image.
validate_inputWithCcm(c) == c.volume => c.image # "none"

\* shifterSpank_validate_input in the allocator, which exits when it fails.
validate_input(c) ==
  /\ c.ccm => c.image = Local
  /\ c.volume => c.image # "none"

\* What an srun inherits: the image as it was looked up, and ccm.
Inherited(r) ==
  Processed([image |-> IF r.image = "none" THEN job.image ELSE r.image,
         ccm |-> r.ccm \/ job.opts.ccm, volume |-> r.volume])

\* shifterSpank_init_allocator_setup: a tag becomes an id.  Without an
\* answer of the gateway the job is refused.
Submit(r, shared) ==
  /\ job.phase = "none" /\ job.n < MaxJobs
  /\ validate_input(Processed(r))
  /\ LET looked == IF Processed(r).image = "tag" THEN tag ELSE Processed(r).image
     IN  /\ job' = [n |-> job.n + 1, opts |-> Processed(r), image |-> looked, shared |-> shared,
                    inside |-> FALSE, phase |-> "prolog", todo |-> {}]
         /\ meant' = [meant EXCEPT ![job.n + 1] = looked]
  /\ UNCHANGED <<plugin, tag, extern, task, udi, cgroups, procs, left>>

\* Another image is pulled under the tag.
Retag ==
  /\ tag' \in Ids \ {tag}
  /\ UNCHANGED <<plugin, job, extern, task, udi, cgroups, procs, meant, left>>
-----------------------------------------------------------------------------
(* shifterSpank_job_prolog.                                                *)

Phase(p) == job' = [job EXCEPT !.phase = p]

\* An existing shifterConfig.json ends it without an error, and so does a
\* shared node.  A job whose prolog fails is not started.
PrologCheck ==
  /\ job.phase = "prolog"
  /\ \/ Phase(IF job.opts.image = "none" \/ udi.whole \/ job.shared THEN "run" ELSE "cgroup")
     \/ Fault("info") /\ job.opts.image # "none" /\ ~udi.whole /\ Phase("end")
  /\ UNCHANGED <<plugin, tag, extern, task, udi, cgroups, procs, meant, left>>

\* setup_memory_cgroup makes the directories and the prolog puts itself
\* there.  When a directory cannot be made, or the list of tasks not be
\* opened, it goes on outside.
PrologCgroup ==
  /\ job.phase = "cgroup"
  /\ \/ /\ plugin.memory
        /\ cgroups' = cgroups \cup {job.n}
        /\ job' = [job EXCEPT !.phase = "setup", !.inside = TRUE]
     \/ ~plugin.memory /\ UNCHANGED cgroups /\ Phase("setup")
     \/ /\ Fault("cgroup") /\ plugin.memory
        /\ cgroups' \in {cgroups, cgroups \cup {job.n}}
        /\ Phase("setup")
  /\ UNCHANGED <<plugin, tag, extern, task, udi, procs, meant, left>>

Sshd == [job |-> job.n, n |-> 1, where |-> IF job.inside THEN "cgroup" ELSE "node", sshd |-> TRUE]

\* The image of the job's environment comes before that of its options.
SetupImage == job.image

\* setupRoot and its sshd, with the key of generateSshKey or without one.
\* Whatever becomes of it, the prolog returns what the last call before it
\* returned, and that is success.
SetupRoot ==
  /\ job.phase = "setup"
  /\ \E whole \in BOOLEAN, started \in BOOLEAN :
       /\ whole \/ Fault("setup")
       /\ started => plugin.sshd
       /\ udi' = [by |-> job.n, image |-> SetupImage, whole |-> whole, complete |-> FALSE]
       /\ procs' = IF started THEN procs \cup {Sshd} ELSE procs
  /\ Phase("run")
  /\ UNCHANGED <<plugin, tag, extern, task, cgroups, meant, left>>
-----------------------------------------------------------------------------
(* doExternStepTaskSetup, called once when SLURM contains the job.         *)

ExternStart ==
  /\ job.phase = "run" /\ extern.at = "none" /\ plugin.extern
  /\ extern' = [extern EXCEPT !.at = IF udi.whole THEN "read" ELSE "over"]
  /\ UNCHANGED <<plugin, tag, job, task, udi, cgroups, procs, meant, left>>

InCgroup == {p \in procs : p.where = "cgroup" /\ p.job = job.n}
Listening == {p \in procs : p.sshd}

\* The tasks of the cgroup are read; with none, one sshd is looked for.
ExternRead ==
  /\ extern.at = "read"
  /\ \E found \in {{}} \cup {{p} : p \in Listening} :
       /\ found = {} => plugin.memory \/ Listening = {}
       /\ extern' = [at |-> "move", todo |-> IF plugin.memory THEN InCgroup ELSE found]
  /\ UNCHANGED <<plugin, tag, job, task, udi, cgroups, procs, meant, left>>

\* One is given to slurmstepd; it may have ended.
ExternMove ==
  /\ extern.at = "move" /\ extern.todo # {}
  /\ \E p \in extern.todo :
       /\ extern' = [extern EXCEPT !.todo = @ \ {p}]
       /\ \/ procs' = IF p \in procs THEN (procs \ {p}) \cup {[p EXCEPT !.where = "extern"]} ELSE procs
          \/ Fault("stepd") /\ UNCHANGED procs
  /\ UNCHANGED <<plugin, tag, job, task, udi, cgroups, meant, left>>

\* extern_setup, and whatever its status, shifterExtern.complete.
ExternComplete ==
  /\ extern.at = "move" /\ extern.todo = {}
  /\ extern' = [extern EXCEPT !.at = "over"]
  /\ udi' = [udi EXCEPT !.complete = udi.by # 0]
  /\ UNCHANGED <<plugin, tag, job, task, cgroups, procs, meant, left>>
-----------------------------------------------------------------------------
(* shifterSpank_task_init_privileged.                                      *)

\* srun has the checks of the submit host.
Srun(r) ==
  /\ job.phase = "run" /\ task.at = "none"
  /\ validate_input(Inherited(r))
  /\ task' = [NoTask EXCEPT !.opts = Inherited(r), !.at = "wait"]
  /\ UNCHANGED <<plugin, tag, job, extern, udi, cgroups, procs, meant, left>>

\* Ten tries for shifterExtern.complete, and then without it.
TaskWait ==
  /\ task.at = "wait"
  /\ task' = [task EXCEPT !.at = IF task.opts.image # "none" /\ task.opts.ccm THEN "chroot" ELSE "run"]
  /\ UNCHANGED <<plugin, tag, job, extern, udi, cgroups, procs, meant, left>>

\* A task in ccm mode is put into whatever is at udiMountPoint.
TaskChroot ==
  /\ task.at = "chroot"
  /\ \/ task' = [task EXCEPT !.at = "switch", !.root = udi]
     \/ Fault("switch") /\ task' = [task EXCEPT !.at = "failed"]
  /\ UNCHANGED <<plugin, tag, job, extern, udi, cgroups, procs, meant, left>>

\* It looks for its directory as the user; where nothing is mounted there
\* is not even /tmp.
TaskSwitch ==
  /\ task.at = "switch"
  /\ \/ task.root # NoUdi /\ task' = [task EXCEPT !.at = "back", !.own = FALSE]
     \/ task.root = NoUdi /\ task' = [task EXCEPT !.at = "failed", !.own = FALSE]
     \/ Fault("switch") /\ task' \in {[task EXCEPT !.at = "failed", !.own = o] : o \in BOOLEAN}
  /\ UNCHANGED <<plugin, tag, job, extern, udi, cgroups, procs, meant, left>>

TaskBack ==
  /\ task.at = "back"
  /\ \/ task' = [task EXCEPT !.at = "run", !.own = TRUE]
     \/ Fault("switch") /\ task' = [task EXCEPT !.at = "failed"]
  /\ UNCHANGED <<plugin, tag, job, extern, udi, cgroups, procs, meant, left>>

TaskEnds ==
  /\ task.at \in {"run", "failed"}
  /\ task' = NoTask
  /\ UNCHANGED <<plugin, tag, job, extern, udi, cgroups, procs, meant, left>>
-----------------------------------------------------------------------------
(* Processes, and the end of a job.                                        *)

Unused(n) == CHOOSE k \in 1 .. MaxProcs + 1 : \A q \in procs : q.job = n => q.n # k

\* Sessions of sshd, and programs they start.
Fork(p) ==
  /\ Cardinality(procs) < MaxProcs
  /\ job.phase # "kill" \/ Fault("fork")
  /\ procs' = procs \cup {[p EXCEPT !.n = Unused(p.job), !.sshd = FALSE]}
  /\ left' = IF job.phase = "kill" THEN left \cup {<<p.job, "procs">>} ELSE left
  /\ UNCHANGED <<plugin, tag, job, extern, task, udi, cgroups, meant>>

\* SLURM ends what it keeps track of, and then calls the epilog.
JobEnds ==
  /\ job.phase = "run" /\ task.at = "none"
  /\ extern.at = "over" \/ ~plugin.extern
  /\ procs' = {p \in procs : p.where # "extern"}
  /\ extern' = Quiet
  /\ Phase("end")
  /\ UNCHANGED <<plugin, tag, task, udi, cgroups, meant, left>>

NextJob == job' = [NoJob EXCEPT !.n = job.n]

EpilogTasks == IF plugin.memory THEN InCgroup ELSE {}

\* shifterSpank_job_epilog: the tasks of the cgroup are read, unless the
\* list cannot be opened, ...
EpilogRead ==
  /\ job.phase = "end" /\ job.opts.image # "none"
  /\ \/ job' = [job EXCEPT !.phase = "kill", !.todo = EpilogTasks] /\ UNCHANGED left
     \/ Fault("cgroup") /\ Phase("kill") /\ left' = left \cup {<<job.n, "procs">>}
  /\ UNCHANGED <<plugin, tag, extern, task, udi, cgroups, procs, meant>>

\* A job without an image has no epilog.
EpilogNone ==
  /\ job.phase = "end" /\ job.opts.image = "none"
  /\ NextJob
  /\ UNCHANGED <<plugin, tag, extern, task, udi, cgroups, procs, meant, left>>

\* Without the user's id or the job's it ends before it does anything.
EpilogFails ==
  /\ Fault("epilog") /\ job.phase = "end" /\ job.opts.image # "none"
  /\ NextJob
  /\ left' = left \cup {<<udi.by, "udi">>, <<job.n, "procs">>}
  /\ UNCHANGED <<plugin, tag, extern, task, udi, cgroups, procs, meant>>

\* ... and killed.
EpilogKill ==
  /\ job.phase = "kill" /\ job.todo # {}
  /\ \E p \in job.todo :
       job' = [job EXCEPT !.todo = @ \ {p}] /\ procs' = procs \ {p}
  /\ UNCHANGED <<plugin, tag, extern, task, udi, cgroups, meant, left>>

\* The loop that removes the directories begins at the end of their list
\* and does nothing.  unsetupRoot ends one sshd in each of its tries; its
\* failure is not told.
Unsetup ==
  /\ job.phase = "kill" /\ job.todo = {}
  /\ \/ \E p \in Listening : procs' = procs \ {p} /\ udi' = NoUdi /\ UNCHANGED left
     \/ Listening = {} /\ UNCHANGED procs /\ udi' = NoUdi /\ UNCHANGED left
     \/ /\ Fault("unsetup") /\ procs' = procs \ Listening
        /\ UNCHANGED udi /\ left' = left \cup {<<udi.by, "udi">>}
  /\ NextJob
  /\ UNCHANGED <<plugin, tag, extern, task, cgroups, meant>>

JobNext ==
  \/ Retag \/ \E r \in JobRequests, shared \in BOOLEAN : Submit(r, shared)
  \/ PrologCheck \/ PrologCgroup \/ SetupRoot
  \/ ExternStart \/ ExternRead \/ ExternMove \/ ExternComplete
  \/ \E r \in JobRequests : Srun(r)
  \/ TaskWait \/ TaskChroot \/ TaskSwitch \/ TaskBack \/ TaskEnds
  \/ \E p \in procs : Fork(p)
  \/ JobEnds \/ EpilogRead \/ EpilogNone \/ EpilogFails \/ EpilogKill \/ Unsetup
-----------------------------------------------------------------------------
\* Whatever fails, in any of the jobs.  The UDI at udiMountPoint is made of
\* the image that the tag meant when the job it is of was submitted.  A task
\* that starts in a chroot has its identity back, and is in the UDI of its
\* own job, made of the node's own environment, unless an epilog did not get
\* to remove the one it is in.  When no job is on the node, a process that
\* was in a cgroup or in the extern step is of a job whose epilog did not
\* read the cgroup, or that forked while the epilog killed.
JobsApart ==
  /\ udi.by # 0 => udi.image = meant[udi.by]
  /\ task.at = "run" /\ task.root # NoUdi =>
       /\ task.own
       /\ (task.root.by = job.n /\ task.root.image = Local) \/ <<task.root.by, "udi">> \in left
  /\ job.phase = "none" => \A p \in procs : p.where = "node" \/ <<p.job, "procs">> \in left

\* A task in ccm mode gets the UDI of its own job: "the shifter executable
\* can be relied upon to detect the mismatch" that the prolog leaves.
MismatchSeen == task.at = "run" /\ task.root # NoUdi => task.root.by = job.n

\* "kill all the processes in the cgroup tasks": when the epilog is over,
\* none is in a cgroup.
AllKilled == job.phase = "none" => \A p \in procs : p.where # "cgroup"

\* "remove the empty cgroups"
CgroupsRemoved == job.phase = "none" => cgroups = {}
=============================================================================
