----------------------------- MODULE NodeProofs -----------------------------
(***************************************************************************)
(* Theorems about what runs on a node beside the construction of a UDI:    *)
(* the callbacks of SLURM (Job), the parent that reads what setupRoot      *)
(* writes (ChildLog) and the list of mounts that all of them work with     *)
(* (MountList).                                                            *)
(***************************************************************************)
EXTENDS Job, ChildLog, MountList, FiniteSetTheorems, SequenceTheorems, WellFoundedInduction, TLAPS

ImagesOfJobs == Ids \cup {"none", "tag", Local}
OptsOfJobs   == [image : ImagesOfJobs, ccm : BOOLEAN, volume : BOOLEAN]
Procs        == [job : 0 .. MaxJobs, n : 1 .. MaxProcs + 1, where : {"cgroup", "extern", "node"}, sshd : BOOLEAN]
Udis         == [by : 0 .. MaxJobs, image : ImagesOfJobs, whole : BOOLEAN, complete : BOOLEAN]
InProlog     == {"prolog", "cgroup", "setup"}
InEpilog     == {"end", "kill"}

JobTypeOK ==
  /\ plugin \in Plugins /\ tag \in Ids
  /\ job \in [n : 0 .. MaxJobs, opts : OptsOfJobs, image : ImagesOfJobs, shared : BOOLEAN,
              inside : BOOLEAN, phase : InProlog \cup InEpilog \cup {"none", "run"}, todo : SUBSET Procs]
  /\ extern \in [at : {"none", "read", "move", "over"}, todo : SUBSET Procs]
  /\ task \in [opts : OptsOfJobs, at : {"none", "wait", "chroot", "switch", "back", "run", "failed"},
               root : Udis, own : BOOLEAN]
  /\ udi \in Udis
  /\ cgroups \subseteq 0 .. MaxJobs
  /\ procs \subseteq Procs
  /\ meant \in [1 .. MaxJobs -> ImagesOfJobs]

\* A job on the node has a number, the image it was submitted for, and no
\* image exactly when none was asked for; a UDI is made of the image of a job
\* that has been on the node.
Numbered ==
  /\ job.phase # "none" =>
       /\ job.n >= 1 /\ job.image = meant[job.n]
       /\ job.image = "none" <=> job.opts.image = "none"
  /\ udi.by =< job.n
  /\ udi.by # 0 => udi.image = meant[udi.by]

\* The UDI is that of the job on the node, unless an epilog left it.
UdiOfJob ==
  /\ udi.by = 0 => udi = NoUdi
  /\ udi.by # 0 => \/ <<udi.by, "udi">> \in left
                   \/ /\ udi.by = job.n /\ job.opts.image # "none"
                      /\ job.phase \in InEpilog \cup {"run"}

\* A task runs while its job does; ccm is for the environment of the node.
TaskOfJob ==
  /\ task.at = "none" => task.root = NoUdi
  /\ task.at # "none" => job.phase = "run"
  /\ task.at # "none" /\ task.opts.ccm => job.image \in {Local, "none"}
  /\ task.at \in {"wait", "chroot"} /\ task.opts.ccm => task.opts.image = Local
  /\ task.at \in {"chroot", "switch", "back"} => task.opts.ccm
  /\ task.at \in {"wait", "chroot", "switch", "run"} => task.own
  /\ task.root # NoUdi => \/ <<task.root.by, "udi">> \in left
                          \/ task.root.by = job.n /\ task.root.image = Local

\* A process of the extern step is there while the job runs.  One in a
\* cgroup is of the job on the node, and from the time the cgroup was read
\* on the list of those to kill; or an epilog left it.
ProcsOfJob ==
  /\ extern.at # "none" => job.phase = "run"
  /\ job.inside => plugin.memory
  /\ job.phase \in {"cgroup", "setup"} => job.opts.image # "none"
  /\ \A p \in procs :
       /\ p.where = "cgroup" => plugin.memory
       /\ p.where = "extern" => job.phase = "run"
       /\ p.where = "cgroup" /\ <<p.job, "procs">> \notin left =>
            /\ job.phase # "none" /\ p.job = job.n /\ job.opts.image # "none"
            /\ job.phase = "kill" => p \in job.todo

JobBase == JobTypeOK /\ IsFiniteSet(procs) /\ Numbered
JobApart == UdiOfJob /\ TaskOfJob /\ ProcsOfJob
-----------------------------------------------------------------------------
\* The environment of the node is asked for by --ccm alone: no image is "/".
\* (In a job with another image, --image=local:/ --ccm is a task of that
\* job's UDI.)
LocalByCcm == \A r \in JobRequests : r.image # Local

\* There is a number left for a process as long as there are fewer than
\* MaxProcs.
LEMMA UnusedIs ==
  ASSUME JobTypeOK, IsFiniteSet(procs), Cardinality(procs) < MaxProcs, NEW n
  PROVE  Unused(n) \in 1 .. MaxProcs + 1
<1> DEFINE used == {q.n : q \in procs}
<1>1. IsFiniteSet(used) /\ Cardinality(used) =< Cardinality(procs)
  <2> DEFINE f == [q \in procs |-> q.n]
  <2>1. f \in Surjection(procs, used) BY DEF Surjection
  <2> HIDE DEF f
  <2> QED BY <2>1, FS_Surjection DEF ExistsSurjection
<1>2. PICK k \in 1 .. MaxProcs + 1 : k \notin used
  <2>1. SUFFICES ASSUME 1 .. MaxProcs + 1 \subseteq used PROVE FALSE OBVIOUS
  <2>2. Cardinality(1 .. MaxProcs + 1) = MaxProcs + 1
    BY JobAssumption, FS_Interval
  <2>3. MaxProcs + 1 =< Cardinality(used)
    <3> HIDE DEF used
    <3>1. Cardinality(1 .. MaxProcs + 1) =< Cardinality(used) BY <1>1, <2>1, FS_Subset
    <3> QED BY <2>2, <3>1
  <2> QED BY <1>1, <2>3, JobAssumption, FS_CardinalityType
<1>3. \A q \in procs : q.job = n => q.n # k BY <1>2
<1> QED BY <1>3 DEF Unused

\* The parts of the states before the first job are of their types.
LEMMA StartTypes ==
  /\ NoOpts \in OptsOfJobs /\ NoUdi \in Udis
  /\ NoJob \in [n : 0 .. MaxJobs, opts : OptsOfJobs, image : ImagesOfJobs, shared : BOOLEAN,
                inside : BOOLEAN, phase : InProlog \cup InEpilog \cup {"none", "run"}, todo : SUBSET Procs]
  /\ Quiet \in [at : {"none", "read", "move", "over"}, todo : SUBSET Procs]
  /\ NoTask \in [opts : OptsOfJobs, at : {"none", "wait", "chroot", "switch", "back", "run", "failed"},
                 root : Udis, own : BOOLEAN]
<1>1. NoOpts \in OptsOfJobs BY DEF NoOpts, OptsOfJobs, ImagesOfJobs
<1>2. NoUdi \in Udis BY JobAssumption DEF NoUdi, Udis, ImagesOfJobs
<1> QED BY <1>1, <1>2, JobAssumption DEF NoJob, Quiet, NoTask, ImagesOfJobs, InProlog, InEpilog

LEMMA BaseInit == JobInit => JobBase
<1> SUFFICES ASSUME JobInit PROVE JobBase OBVIOUS
<1> PICK p \in Plugins : JobStart(p) BY DEF JobInit
<1>1. tag \in Ids BY JobAssumption DEF JobStart
<1>2. meant \in [1 .. MaxJobs -> ImagesOfJobs] BY DEF JobStart, ImagesOfJobs
<1>3. JobTypeOK BY <1>1, <1>2, StartTypes DEF JobStart, JobTypeOK
<1>4. IsFiniteSet(procs) BY FS_EmptySet DEF JobStart
<1>5. Numbered BY DEF JobStart, Numbered, NoJob, NoUdi
<1> QED BY <1>3, <1>4, <1>5 DEF JobBase

LEMMA ApartInit == JobInit => JobApart
BY DEF JobInit, JobStart, JobApart, UdiOfJob, TaskOfJob, ProcsOfJob, NoUdi, NoTask, NoJob, Quiet,
       InProlog

\* What a request is made into.
LEMMA ProcessedType ==
  ASSUME NEW r \in OptsOfJobs
  PROVE  /\ Processed(r) \in OptsOfJobs
         /\ Processed(r).ccm = r.ccm
         /\ Processed(r).image = IF r.image = "none" /\ r.ccm THEN Local ELSE r.image
BY DEF Processed, OptsOfJobs, ImagesOfJobs

LEMMA InheritedType ==
  ASSUME JobTypeOK, NEW r \in JobRequests
  PROVE  /\ r \in OptsOfJobs
         /\ Inherited(r) \in OptsOfJobs
         /\ Inherited(r).image = LET image == IF r.image = "none" THEN job.image ELSE r.image
                                 IN  IF image = "none" /\ Inherited(r).ccm THEN Local ELSE image
<1>1. r \in OptsOfJobs BY JobAssumption DEF OptsOfJobs, ImagesOfJobs
<1> DEFINE asked == [image |-> IF r.image = "none" THEN job.image ELSE r.image,
                     ccm |-> r.ccm \/ job.opts.ccm, volume |-> r.volume]
<1>2. asked \in OptsOfJobs
  BY <1>1 DEF JobTypeOK, OptsOfJobs
<1> QED BY <1>1, <1>2, ProcessedType DEF Inherited

LEMMA SubmitBase == ASSUME JobBase, NEW r \in JobRequests, NEW shared \in BOOLEAN, Submit(r, shared) PROVE JobBase'
<1>1. r \in OptsOfJobs BY InheritedType DEF JobBase
<1> DEFINE looked == IF Processed(r).image = "tag" THEN tag ELSE Processed(r).image
<1>2. Processed(r) \in OptsOfJobs /\ looked \in ImagesOfJobs
  BY <1>1, ProcessedType DEF JobBase, JobTypeOK, OptsOfJobs, ImagesOfJobs
<1>3. looked = "none" <=> Processed(r).image = "none"
  BY JobAssumption DEF JobBase, JobTypeOK
<1> HIDE DEF looked
<1>4. /\ job' = [n |-> job.n + 1, opts |-> Processed(r), image |-> looked, shared |-> shared,
                 inside |-> FALSE, phase |-> "prolog", todo |-> {}]
      /\ meant' = [meant EXCEPT ![job.n + 1] = looked]
      /\ job.n + 1 \in 1 .. MaxJobs
  BY JobAssumption DEF Submit, looked, JobBase, JobTypeOK
<1>5. JobTypeOK' BY <1>2, <1>4 DEF Submit, JobBase, JobTypeOK, InProlog
<1>6. Numbered'
  <2>1. meant'[job.n + 1] = looked /\ \A n \in 1 .. job.n : meant'[n] = meant[n]
    BY <1>4, JobAssumption DEF JobBase, JobTypeOK
  <2> QED BY <1>3, <1>4, <2>1 DEF Submit, JobBase, JobTypeOK, Numbered, Udis
<1> QED BY <1>5, <1>6 DEF JobBase, Submit

\* The state of the steps and the processes, which a step of the job's own
\* phases leaves typed.
RestTyped ==
  /\ extern \in [at : {"none", "read", "move", "over"}, todo : SUBSET Procs]
  /\ task \in [opts : OptsOfJobs, at : {"none", "wait", "chroot", "switch", "back", "run", "failed"},
               root : Udis, own : BOOLEAN]
  /\ procs \subseteq Procs /\ IsFiniteSet(procs)

LEMMA StillTyped ==
  ASSUME JobBase, UNCHANGED <<extern, task, procs>>
  PROVE  RestTyped'
BY DEF JobBase, JobTypeOK, RestTyped

\* Steps that change at most the phase of the job, or end it.
LEMMA PhaseBase ==
  ASSUME JobBase, UNCHANGED <<plugin, tag, udi, cgroups, meant>>,
         \E ph \in InProlog \cup InEpilog \cup {"run"}, todo \in SUBSET Procs :
           job.phase # "none" /\ job' = [job EXCEPT !.phase = ph, !.todo = todo],
         RestTyped'
  PROVE  JobBase'
<1> PICK ph \in InProlog \cup InEpilog \cup {"run"}, todo \in SUBSET Procs :
      job.phase # "none" /\ job' = [job EXCEPT !.phase = ph, !.todo = todo]
  OBVIOUS
<1>1. JobTypeOK' BY DEF JobBase, JobTypeOK, RestTyped
<1>2. Numbered' BY DEF JobBase, JobTypeOK, Numbered
<1> QED BY <1>1, <1>2 DEF JobBase, RestTyped

\* The next job of the node finds nothing of the one before in job.
LEMMA NextJobBase ==
  ASSUME JobBase, NextJob, UNCHANGED <<plugin, tag, extern, task, cgroups, meant>>,
         udi' \in {NoUdi, udi}, procs' \subseteq procs
  PROVE  JobBase'
<1>1. /\ job' \in [n : 0 .. MaxJobs, opts : OptsOfJobs, image : ImagesOfJobs, shared : BOOLEAN,
                  inside : BOOLEAN, phase : InProlog \cup InEpilog \cup {"none", "run"}, todo : SUBSET Procs]
      /\ job'.n = job.n /\ job'.phase = "none"
  BY StartTypes DEF NextJob, NoJob, JobBase, JobTypeOK
<1>2. JobTypeOK' BY <1>1, StartTypes DEF JobBase, JobTypeOK
<1>3. Numbered' BY <1>1 DEF JobBase, JobTypeOK, Numbered, NoUdi
<1>4. IsFiniteSet(procs)' BY FS_Subset DEF JobBase
<1> QED BY <1>2, <1>3, <1>4 DEF JobBase

\* A process of the kinds that there are.
LEMMA SshdType == JobTypeOK /\ job.n >= 1 => Sshd \in Procs
BY JobAssumption DEF JobTypeOK, Sshd, Procs

LEMMA SetupRootBase == ASSUME JobBase, SetupRoot PROVE JobBase'
<1> PICK whole \in BOOLEAN, started \in BOOLEAN :
      /\ udi' = [by |-> job.n, image |-> SetupImage, whole |-> whole, complete |-> FALSE]
      /\ procs' = IF started THEN procs \cup {Sshd} ELSE procs
  BY DEF SetupRoot
<1>1. job' = [job EXCEPT !.phase = "run"] /\ job.phase = "setup"
  BY DEF SetupRoot, Phase
<1>2. Sshd \in Procs BY <1>1, SshdType DEF JobBase, Numbered
<1>3. JobTypeOK' BY <1>1, <1>2 DEF SetupRoot, SetupImage, JobBase, JobTypeOK, Udis
<1>4. Numbered' BY <1>1 DEF SetupRoot, SetupImage, JobBase, JobTypeOK, Numbered
<1>5. IsFiniteSet(procs)' BY FS_AddElement DEF JobBase
<1> QED BY <1>3, <1>4, <1>5 DEF JobBase

LEMMA ExternCompleteBase == ASSUME JobBase, ExternComplete PROVE JobBase'
<1>1. JobTypeOK' BY DEF ExternComplete, JobBase, JobTypeOK, Udis
<1>2. Numbered' BY DEF ExternComplete, JobBase, JobTypeOK, Udis, Numbered
<1> QED BY <1>1, <1>2 DEF JobBase, ExternComplete

LEMMA ForkBase == ASSUME JobBase, NEW p \in procs, Fork(p) PROVE JobBase'
<1> DEFINE forked == [p EXCEPT !.n = Unused(p.job), !.sshd = FALSE]
<1>1. Unused(p.job) \in 1 .. MaxProcs + 1 BY UnusedIs DEF Fork, JobBase
<1>2. p \in Procs BY DEF JobBase, JobTypeOK
<1>3. forked \in Procs BY <1>1, <1>2 DEF Procs
<1>4. procs' = procs \cup {forked} BY DEF Fork
<1> HIDE DEF forked
<1>5. IsFiniteSet(procs)' BY <1>4, FS_AddElement DEF JobBase
<1>6. JobTypeOK' BY <1>3, <1>4 DEF Fork, JobBase, JobTypeOK
<1>7. Numbered' BY DEF Fork, JobBase, Numbered
<1> QED BY <1>5, <1>6, <1>7 DEF JobBase

LEMMA ExternMoveBase == ASSUME JobBase, ExternMove PROVE JobBase'
<1> PICK p \in extern.todo :
      /\ extern' = [extern EXCEPT !.todo = @ \ {p}]
      /\ \/ procs' = IF p \in procs THEN (procs \ {p}) \cup {[p EXCEPT !.where = "extern"]} ELSE procs
         \/ procs' = procs
  BY DEF ExternMove
<1> DEFINE moved == [p EXCEPT !.where = "extern"]
<1>1. moved \in Procs BY DEF JobBase, JobTypeOK, Procs
<1> HIDE DEF moved
<1>2. procs' = procs \/ procs' = (procs \ {p}) \cup {moved} BY DEF moved
<1>3. IsFiniteSet(procs')
  <2>1. IsFiniteSet(procs \ {p}) BY FS_RemoveElement DEF JobBase
  <2> QED BY <1>2, <2>1, FS_AddElement DEF JobBase
<1>4. JobTypeOK' BY <1>1, <1>2 DEF ExternMove, JobBase, JobTypeOK
<1>5. Numbered' BY DEF ExternMove, JobBase, Numbered
<1> QED BY <1>3, <1>4, <1>5 DEF JobBase

\* The steps of a task change the task alone, and leave it one.
LEMMA TaskSteps ==
  ASSUME JobBase,
         (\E r \in JobRequests : Srun(r)) \/ TaskWait \/ TaskChroot \/ TaskSwitch \/ TaskBack \/ TaskEnds
  PROVE  /\ UNCHANGED <<plugin, tag, job, extern, udi, cgroups, procs, meant, left>>
         /\ task' \in [opts : OptsOfJobs, at : {"none", "wait", "chroot", "switch", "back", "run", "failed"},
                       root : Udis, own : BOOLEAN]
<1>1. CASE \E r \in JobRequests : Srun(r)
  <2> PICK r \in JobRequests : Srun(r) BY <1>1
  <2>1. Inherited(r) \in OptsOfJobs BY InheritedType DEF JobBase
  <2> QED BY <2>1, StartTypes DEF Srun
<1>2. CASE TaskWait BY <1>2 DEF TaskWait, JobBase, JobTypeOK
<1>3. CASE TaskChroot BY <1>3 DEF TaskChroot, JobBase, JobTypeOK
<1>4. CASE TaskSwitch BY <1>4 DEF TaskSwitch, JobBase, JobTypeOK
<1>5. CASE TaskBack BY <1>5 DEF TaskBack, JobBase, JobTypeOK
<1>6. CASE TaskEnds BY <1>6, StartTypes DEF TaskEnds
<1> QED BY <1>1, <1>2, <1>3, <1>4, <1>5, <1>6

LEMMA TaskStepsBase ==
  ASSUME JobBase,
         (\E r \in JobRequests : Srun(r)) \/ TaskWait \/ TaskChroot \/ TaskSwitch \/ TaskBack \/ TaskEnds
  PROVE  JobBase'
<1>1. JobTypeOK' BY TaskSteps DEF JobBase, JobTypeOK
<1> QED BY <1>1, TaskSteps DEF JobBase, Numbered

LEMMA BaseNext == ASSUME JobBase, [JobNext]_jvars PROVE JobBase'
<1>1. CASE UNCHANGED jvars BY <1>1 DEF jvars, JobBase, JobTypeOK, Numbered
<1>2. CASE Retag
  <2>1. JobTypeOK' BY <1>2 DEF Retag, JobBase, JobTypeOK
  <2> QED BY <1>2, <2>1 DEF Retag, JobBase, Numbered
<1>3. ASSUME NEW r \in JobRequests, NEW shared \in BOOLEAN, Submit(r, shared) PROVE JobBase'
  BY <1>3, SubmitBase
<1>4. CASE PrologCheck
  <2> PICK ph \in {"run", "cgroup", "end"} : job' = [job EXCEPT !.phase = ph]
    BY <1>4 DEF PrologCheck, Phase
  <2>1. job' = [job EXCEPT !.phase = ph, !.todo = job.todo] /\ job.todo \in SUBSET Procs
    BY DEF JobBase, JobTypeOK
  <2>2. ph \in InProlog \cup InEpilog \cup {"run"} BY DEF InProlog, InEpilog
  <2>3. UNCHANGED <<plugin, tag, extern, task, udi, cgroups, procs, meant>> /\ job.phase # "none"
    BY <1>4 DEF PrologCheck
  <2>4. RestTyped' BY <2>3, StillTyped DEF JobBase
  <2>5. \E p \in InProlog \cup InEpilog \cup {"run"}, todo \in SUBSET Procs :
          job.phase # "none" /\ job' = [job EXCEPT !.phase = p, !.todo = todo]
    BY <2>1, <2>2, <2>3
  <2> QED BY <2>3, <2>4, <2>5, PhaseBase
<1>5. CASE PrologCgroup
  <2>1. JobTypeOK' BY <1>5 DEF PrologCgroup, Phase, InProlog, JobBase, JobTypeOK
  <2>2. Numbered' BY <1>5 DEF PrologCgroup, Phase, JobBase, JobTypeOK, Numbered
  <2> QED BY <1>5, <2>1, <2>2 DEF PrologCgroup, JobBase
<1>6. CASE SetupRoot BY <1>6, SetupRootBase
<1>7. CASE ExternStart
  <2>1. JobTypeOK' BY <1>7 DEF ExternStart, JobBase, JobTypeOK
  <2> QED BY <1>7, <2>1 DEF ExternStart, JobBase, Numbered
<1>8. CASE ExternRead
  <2>1. JobTypeOK' BY <1>8 DEF ExternRead, InCgroup, Listening, JobBase, JobTypeOK
  <2> QED BY <1>8, <2>1 DEF ExternRead, JobBase, Numbered
<1>9. CASE ExternMove BY <1>9, ExternMoveBase
<1>10. CASE ExternComplete BY <1>10, ExternCompleteBase
<1>11. CASE (\E r \in JobRequests : Srun(r)) \/ TaskWait \/ TaskChroot \/ TaskSwitch \/ TaskBack \/ TaskEnds
  BY <1>11, TaskStepsBase
<1>12. ASSUME NEW p \in procs, Fork(p) PROVE JobBase'
  BY <1>12, ForkBase
<1>13. CASE JobEnds
  <2>1. procs' \subseteq procs /\ IsFiniteSet(procs') BY <1>13, FS_Subset DEF JobEnds, JobBase
  <2>2. job' = [job EXCEPT !.phase = "end", !.todo = job.todo] /\ job.todo \in SUBSET Procs
    BY <1>13 DEF JobEnds, Phase, JobBase, JobTypeOK
  <2>3. RestTyped' BY <1>13, <2>1, StartTypes DEF JobEnds, RestTyped, JobBase, JobTypeOK
  <2>4. UNCHANGED <<plugin, tag, udi, cgroups, meant>> /\ job.phase # "none"
    BY <1>13 DEF JobEnds
  <2> QED BY <2>2, <2>3, <2>4, PhaseBase DEF InEpilog
<1>14. CASE EpilogRead
  <2>1. PICK todo \in {job.todo, EpilogTasks} : job' = [job EXCEPT !.phase = "kill", !.todo = todo]
    BY <1>14 DEF EpilogRead, Phase, JobBase, JobTypeOK
  <2>2. todo \in SUBSET Procs BY DEF EpilogTasks, InCgroup, JobBase, JobTypeOK
  <2>3. UNCHANGED <<plugin, tag, extern, task, udi, cgroups, procs, meant>> /\ job.phase # "none"
    BY <1>14 DEF EpilogRead
  <2>4. RestTyped' BY <2>3, StillTyped
  <2>5. \E p \in InProlog \cup InEpilog \cup {"run"}, t \in SUBSET Procs :
          job.phase # "none" /\ job' = [job EXCEPT !.phase = p, !.todo = t]
    BY <2>1, <2>2, <2>3 DEF InEpilog
  <2> QED BY <2>3, <2>4, <2>5, PhaseBase
<1>15. CASE EpilogKill
  <2>1. PICK p \in job.todo : job' = [job EXCEPT !.todo = @ \ {p}] /\ procs' = procs \ {p}
    BY <1>15 DEF EpilogKill
  <2>2. IsFiniteSet(procs') BY <2>1, FS_RemoveElement DEF JobBase
  <2>3. JobTypeOK' BY <1>15, <2>1 DEF EpilogKill, JobBase, JobTypeOK
  <2>4. Numbered' BY <1>15, <2>1 DEF EpilogKill, JobBase, JobTypeOK, Numbered
  <2> QED BY <2>2, <2>3, <2>4 DEF JobBase
<1>16. CASE Unsetup
  BY <1>16, NextJobBase DEF Unsetup
<1>17. CASE EpilogNone \/ EpilogFails
  BY <1>17, NextJobBase DEF EpilogNone, EpilogFails
<1> QED BY <1>1, <1>2, <1>3, <1>4, <1>5, <1>6, <1>7, <1>8, <1>9, <1>10, <1>11, <1>12, <1>13, <1>14,
           <1>15, <1>16, <1>17 DEF JobNext

-----------------------------------------------------------------------------
\* The UDI: only SetupRoot makes one, and what removes it is Unsetup, or an
\* epilog leaves it.
LEMMA UdiNext == ASSUME JobBase, JobApart, JobNext PROVE UdiOfJob'
<1> USE DEF JobApart, UdiOfJob, InProlog, InEpilog
<1>1. CASE Retag BY <1>1 DEF Retag
<1>2. ASSUME NEW r \in JobRequests, NEW shared \in BOOLEAN, Submit(r, shared) PROVE UdiOfJob'
  BY <1>2 DEF Submit
<1>3. CASE PrologCheck BY <1>3 DEF PrologCheck, Phase, JobBase, JobTypeOK
<1>4. CASE PrologCgroup
  <2>1. job.phase = "cgroup" /\ UNCHANGED <<udi, left>> BY <1>4 DEF PrologCgroup
  <2>2. udi.by # 0 => <<udi.by, "udi">> \in left BY <2>1
  <2> QED BY <2>1, <2>2
<1>5. CASE SetupRoot
  <2>1. job.n # 0 /\ job.phase = "setup" BY <1>5 DEF SetupRoot, JobBase, JobTypeOK, Numbered
  <2>2. udi'.by = job.n BY <1>5 DEF SetupRoot
  <2>3. job' = [job EXCEPT !.phase = "run"] BY <1>5 DEF SetupRoot, Phase
  <2>4. job.opts.image # "none" BY <2>1 DEF ProcsOfJob
  <2> QED BY <2>1, <2>2, <2>3, <2>4 DEF JobBase, JobTypeOK
<1>6. CASE ExternStart \/ ExternRead \/ ExternMove
  BY <1>6 DEF ExternStart, ExternRead, ExternMove
<1>7. CASE ExternComplete
  <2> DEFINE complete == udi.by # 0
  <2>1. udi' = [udi EXCEPT !.complete = complete] /\ complete \in BOOLEAN /\ (complete <=> udi.by # 0)
    BY <1>7 DEF ExternComplete
  <2> HIDE DEF complete
  <2>2. /\ udi'.by = udi.by /\ udi'.image = udi.image /\ udi'.whole = udi.whole
        /\ udi' = [by |-> udi.by, image |-> udi.image, whole |-> udi.whole, complete |-> complete]
    BY <2>1 DEF JobBase, JobTypeOK, Udis
  <2>3. udi.by = 0 => udi' = NoUdi
    <3>1. SUFFICES ASSUME udi.by = 0 PROVE udi' = NoUdi OBVIOUS
    <3>2. complete = FALSE BY <2>1, <3>1
    <3>3. udi.image = NoUdi.image /\ udi.whole = NoUdi.whole /\ NoUdi.by = 0 BY <3>1
    <3> QED BY <2>2, <3>1, <3>2, <3>3 DEF NoUdi
  <2>4. UNCHANGED <<job, left>> BY <1>7 DEF ExternComplete
  <2> QED BY <2>2, <2>3, <2>4
<1>8. CASE (\E r \in JobRequests : Srun(r)) \/ TaskWait \/ TaskChroot \/ TaskSwitch \/ TaskBack \/ TaskEnds
  BY <1>8, TaskSteps
<1>9. CASE \E p \in procs : Fork(p)
  <2>1. UNCHANGED <<udi, job>> /\ left \subseteq left' BY <1>9 DEF Fork
  <2> QED BY <2>1
<1>10. CASE JobEnds BY <1>10 DEF JobEnds, Phase, JobBase, JobTypeOK
<1>11. CASE EpilogRead
  <2>1. UNCHANGED udi /\ left \subseteq left' BY <1>11 DEF EpilogRead
  <2>2. job'.n = job.n /\ job'.opts = job.opts /\ job'.phase = "kill"
    BY <1>11 DEF EpilogRead, Phase, JobBase, JobTypeOK
  <2> QED BY <2>1, <2>2
<1>12. CASE EpilogNone
  <2>1. UNCHANGED <<udi, left>> /\ job.opts.image = "none" BY <1>12 DEF EpilogNone
  <2>2. udi.by # 0 => <<udi.by, "udi">> \in left BY <2>1
  <2> QED BY <2>1, <2>2
<1>13. CASE EpilogFails
  <2>1. UNCHANGED udi /\ <<udi.by, "udi">> \in left' BY <1>13 DEF EpilogFails
  <2> QED BY <2>1
<1>14. CASE EpilogKill BY <1>14 DEF EpilogKill, JobBase, JobTypeOK
<1>15. CASE Unsetup
  <2>1. udi' = NoUdi \/ (UNCHANGED udi /\ <<udi.by, "udi">> \in left') BY <1>15 DEF Unsetup
  <2> QED BY <2>1 DEF NoUdi
<1> QED BY <1>1, <1>2, <1>3, <1>4, <1>5, <1>6, <1>7, <1>8, <1>9, <1>10, <1>11, <1>12, <1>13, <1>14, <1>15
        DEF JobNext

\* A task leaves its root where it is, or takes the UDI for it.
LEMMA SrunTask == ASSUME LocalByCcm, JobBase, JobApart, NEW r \in JobRequests, Srun(r) PROVE TaskOfJob'
<1> DEFINE opts == Inherited(r)
<1>1. /\ opts \in OptsOfJobs
      /\ opts.image = LET image == IF r.image = "none" THEN job.image ELSE r.image
                      IN  IF image = "none" /\ opts.ccm THEN Local ELSE image
  BY InheritedType DEF JobBase
<1>2. opts.ccm => opts.image = Local BY DEF Srun, validate_input
<1>3. r.image # Local BY DEF LocalByCcm
<1>4. opts.ccm => job.image \in {Local, "none"}
  <2> HIDE DEF opts
  <2> QED BY <1>1, <1>2, <1>3, JobAssumption DEF Local
<1>5. task' = [NoTask EXCEPT !.opts = opts, !.at = "wait"] /\ UNCHANGED job /\ job.phase = "run"
  BY DEF Srun
<1> HIDE DEF opts
<1>6. task'.opts = opts /\ task'.at = "wait" /\ task'.own = TRUE /\ task'.root = NoUdi
  BY <1>5, StartTypes DEF NoTask
<1> QED BY <1>2, <1>4, <1>5, <1>6 DEF TaskOfJob, NoUdi

LEMMA TaskNext ==
  ASSUME JobBase, JobApart,
         TaskWait \/ TaskChroot \/ TaskSwitch \/ TaskBack \/ TaskEnds
  PROVE  TaskOfJob'
<1> USE DEF JobApart, TaskOfJob
<1>1. UNCHANGED <<job, left>> BY TaskSteps
<1>2. CASE TaskWait BY <1>1, <1>2 DEF TaskWait, JobBase, JobTypeOK
<1>3. CASE TaskChroot
  <2>1. udi # NoUdi => \/ <<udi.by, "udi">> \in left
                       \/ udi.by = job.n /\ udi.image = job.image /\ job.image # "none"
    BY <1>3 DEF TaskChroot, UdiOfJob, JobBase, Numbered, InEpilog
  <2>2. task.at = "chroot" /\ task.opts.ccm BY <1>3 DEF TaskChroot
  <2>3. udi # NoUdi => <<udi.by, "udi">> \in left \/ (udi.by = job.n /\ udi.image = Local)
    BY <2>1, <2>2
  <2> QED BY <1>1, <1>3, <2>3 DEF TaskChroot, JobBase, JobTypeOK
<1>4. CASE TaskSwitch
  <2>1. task' = [task EXCEPT !.at = "back", !.own = FALSE]
          \/ \E o \in BOOLEAN : task' = [task EXCEPT !.at = "failed", !.own = o]
    BY <1>4 DEF TaskSwitch
  <2>2. task.opts.ccm BY <1>4 DEF TaskSwitch
  <2>3. /\ task'.at \in {"back", "failed"} /\ task'.root = task.root /\ task'.opts = task.opts
    BY <2>1 DEF JobBase, JobTypeOK
  <2>4. task.at = "switch" BY <1>4 DEF TaskSwitch
  <2> QED BY <1>1, <2>2, <2>3, <2>4
<1>5. CASE TaskBack BY <1>1, <1>5 DEF TaskBack, JobBase, JobTypeOK
<1>6. CASE TaskEnds BY <1>1, <1>6 DEF TaskEnds, NoTask, NoUdi
<1> QED BY <1>2, <1>3, <1>4, <1>5, <1>6

\* All other steps leave the task alone, and the job of one that runs.
LEMMA OthersTask ==
  ASSUME JobBase, JobApart, UNCHANGED task, UNCHANGED job \/ task.at = "none", left \subseteq left'
  PROVE  TaskOfJob'
BY DEF JobApart, TaskOfJob

\* Steps at which there is no task, or that leave the job alone.
LEMMA TaskOfJobNext == ASSUME LocalByCcm, JobBase, JobApart, JobNext PROVE TaskOfJob'
<1>1. CASE Retag \/ ExternStart \/ ExternRead \/ ExternMove \/ ExternComplete \/ \E p \in procs : Fork(p)
  BY <1>1, OthersTask DEF Retag, ExternStart, ExternRead, ExternMove, ExternComplete, Fork
<1>2. ASSUME NEW r \in JobRequests, NEW shared \in BOOLEAN, Submit(r, shared) PROVE TaskOfJob'
  BY <1>2, OthersTask DEF Submit, JobApart, TaskOfJob
<1>3. CASE PrologCheck \/ PrologCgroup \/ SetupRoot
  BY <1>3, OthersTask DEF PrologCheck, PrologCgroup, SetupRoot, JobApart, TaskOfJob
<1>4. CASE JobEnds BY <1>4, OthersTask DEF JobEnds
<1>5. CASE EpilogRead \/ EpilogNone \/ EpilogFails \/ EpilogKill \/ Unsetup
  BY <1>5, OthersTask DEF EpilogRead, EpilogNone, EpilogFails, EpilogKill, Unsetup, JobApart, TaskOfJob
<1>6. ASSUME NEW r \in JobRequests, Srun(r) PROVE TaskOfJob' BY <1>6, SrunTask
<1>7. CASE TaskWait \/ TaskChroot \/ TaskSwitch \/ TaskBack \/ TaskEnds BY <1>7, TaskNext
<1> QED BY <1>1, <1>2, <1>3, <1>4, <1>5, <1>6, <1>7 DEF JobNext
-----------------------------------------------------------------------------
\* The processes of a job are in its cgroup from its sshd on, go to the
\* extern step from there, and are killed at its end.
LEMMA ProcsNext == ASSUME JobBase, JobApart, JobNext PROVE ProcsOfJob'
<1> USE DEF JobApart, ProcsOfJob
<1>1. CASE Retag BY <1>1 DEF Retag
<1>2. ASSUME NEW r \in JobRequests, NEW shared \in BOOLEAN, Submit(r, shared) PROVE ProcsOfJob'
  <2>1. job'.inside = FALSE /\ job'.phase = "prolog" /\ job.phase = "none" BY <1>2 DEF Submit
  <2>2. UNCHANGED <<procs, plugin, extern, left>> BY <1>2 DEF Submit
  <2> QED BY <2>1, <2>2
<1>3. CASE PrologCheck
  <2>1. PICK ph \in {"run", "cgroup", "end"} : job' = [job EXCEPT !.phase = ph]
    BY <1>3 DEF PrologCheck, Phase
  <2>2. /\ job'.n = job.n /\ job'.opts = job.opts /\ job'.phase = ph /\ job'.inside = job.inside
        /\ job.phase = "prolog" /\ (ph = "cgroup" => job.opts.image # "none")
        /\ UNCHANGED <<procs, plugin, extern, left>>
    BY <1>3, <2>1 DEF PrologCheck, Phase, JobBase, JobTypeOK
  <2> QED BY <2>2
<1>4. CASE PrologCgroup
  <2>1. /\ job'.n = job.n /\ job'.opts = job.opts /\ job'.phase = "setup" /\ job.phase = "cgroup"
        /\ job'.inside => job.inside \/ plugin.memory
        /\ UNCHANGED <<procs, plugin, extern, left>>
    BY <1>4 DEF PrologCgroup, Phase, JobBase, JobTypeOK
  <2> QED BY <2>1
<1>5. CASE SetupRoot
  <2>1. /\ job'.n = job.n /\ job'.opts = job.opts /\ job'.phase = "run" /\ job.phase = "setup"
        /\ job'.inside = job.inside /\ UNCHANGED <<plugin, extern, left>>
        /\ procs' = procs \/ procs' = procs \cup {Sshd}
    BY <1>5 DEF SetupRoot, Phase, JobBase, JobTypeOK
  <2>2. /\ Sshd.job = job.n /\ Sshd.where # "extern"
        /\ Sshd.where = "cgroup" => job.inside
    BY DEF Sshd
  <2> HIDE DEF ProcsOfJob
  <2>3. ProcsOfJob BY DEF JobApart
  <2> QED BY <2>1, <2>2, <2>3 DEF ProcsOfJob
<1>6. CASE ExternStart \/ ExternRead \/ ExternComplete
  BY <1>6 DEF ExternStart, ExternRead, ExternComplete
<1>7. CASE ExternMove
  <2> PICK p \in extern.todo :
        procs' = procs \/ (p \in procs /\ procs' = (procs \ {p}) \cup {[p EXCEPT !.where = "extern"]})
    BY <1>7 DEF ExternMove
  <2> DEFINE moved == [p EXCEPT !.where = "extern"]
  <2>1. p \in Procs BY <1>7 DEF ExternMove, JobBase, JobTypeOK
  <2>2. moved.job = p.job /\ moved.where = "extern" BY <2>1 DEF Procs
  <2>3. UNCHANGED <<plugin, job, left>> /\ job.phase = "run" BY <1>7 DEF ExternMove
  <2> HIDE DEF moved
  <2>4. CASE procs' = procs BY <2>3, <2>4
  <2>5. CASE p \in procs /\ procs' = (procs \ {p}) \cup {moved}
    BY <1>7, <2>2, <2>3, <2>5
  <2> QED BY <2>4, <2>5 DEF moved
<1>8. CASE (\E r \in JobRequests : Srun(r)) \/ TaskWait \/ TaskChroot \/ TaskSwitch \/ TaskBack \/ TaskEnds
  BY <1>8, TaskSteps
<1>9. ASSUME NEW p \in procs, Fork(p) PROVE ProcsOfJob'
  <2> DEFINE forked == [p EXCEPT !.n = Unused(p.job), !.sshd = FALSE]
  <2>1. /\ procs' = procs \cup {forked} /\ UNCHANGED <<plugin, job, extern>> /\ left \subseteq left'
        /\ job.phase = "kill" => <<p.job, "procs">> \in left'
    BY <1>9 DEF Fork
  <2>2. forked.job = p.job /\ forked.where = p.where BY DEF JobBase, JobTypeOK, Procs
  <2> HIDE DEF forked
  <2> QED BY <2>1, <2>2
<1>10. CASE JobEnds
  <2>1. /\ job'.n = job.n /\ job'.opts = job.opts /\ job'.phase = "end" /\ job.phase = "run"
        /\ job'.inside = job.inside /\ extern'.at = "none" /\ UNCHANGED <<plugin, left>>
        /\ procs' = {p \in procs : p.where # "extern"}
    BY <1>10 DEF JobEnds, Phase, Quiet, JobBase, JobTypeOK
  <2> QED BY <2>1
<1>11. CASE EpilogRead
  <2>1. /\ job'.n = job.n /\ job'.opts = job.opts /\ job'.phase = "kill" /\ job.phase = "end"
        /\ job'.inside = job.inside /\ left \subseteq left'
        /\ job'.todo = EpilogTasks \/ <<job.n, "procs">> \in left'
        /\ UNCHANGED <<plugin, procs, extern>>
    BY <1>11 DEF EpilogRead, Phase, JobBase, JobTypeOK
  <2>2. \A p \in procs : p.where = "cgroup" /\ <<p.job, "procs">> \notin left => p \in EpilogTasks
    BY <2>1 DEF EpilogTasks, InCgroup
  <2> QED BY <2>1, <2>2
<1>12. CASE EpilogNone \/ EpilogFails
  <2>1. /\ job'.phase = "none" /\ job'.inside = FALSE /\ job.phase = "end" /\ left \subseteq left'
        /\ job.opts.image = "none" \/ <<job.n, "procs">> \in left'
        /\ UNCHANGED <<plugin, procs, extern>>
    BY <1>12 DEF EpilogNone, EpilogFails, NextJob, NoJob
  <2> QED BY <2>1
<1>13. CASE EpilogKill
  <2>1. PICK p \in job.todo : job' = [job EXCEPT !.todo = @ \ {p}] /\ procs' = procs \ {p}
    BY <1>13 DEF EpilogKill
  <2>2. /\ job'.n = job.n /\ job'.opts = job.opts /\ job'.phase = job.phase /\ job.phase = "kill"
        /\ job'.inside = job.inside /\ job'.todo = job.todo \ {p}
        /\ UNCHANGED <<plugin, extern, left>>
    BY <1>13, <2>1 DEF EpilogKill, JobBase, JobTypeOK
  <2> QED BY <2>1, <2>2
<1>14. CASE Unsetup
  <2>1. /\ job'.phase = "none" /\ job'.inside = FALSE /\ UNCHANGED <<plugin, extern>>
        /\ procs' \subseteq procs /\ job.phase = "kill" /\ job.todo = {} /\ left \subseteq left'
    BY <1>14 DEF Unsetup, NextJob, NoJob
  <2>2. \A p \in procs : p.where = "cgroup" => <<p.job, "procs">> \in left BY <2>1
  <2> QED BY <2>1, <2>2
<1> QED BY <1>1, <1>2, <1>3, <1>4, <1>5, <1>6, <1>7, <1>8, <1>9, <1>10, <1>11, <1>12, <1>13, <1>14
        DEF JobNext

LEMMA ApartNext == ASSUME LocalByCcm, JobBase, JobApart, [JobNext]_jvars PROVE JobApart'
<1>1. CASE UNCHANGED jvars
  BY <1>1 DEF jvars, JobApart, UdiOfJob, TaskOfJob, ProcsOfJob
<1>2. CASE JobNext BY <1>2, UdiNext, TaskOfJobNext, ProcsNext DEF JobApart
<1> QED BY <1>1, <1>2

JobSpec == JobInit /\ [][JobNext]_jvars

\* Whatever fails, and whatever is asked for: the UDI at udiMountPoint is
\* made of the image that the tag meant when its job was submitted
\* (shifterSpank_init_allocator_setup and the prolog).
THEOREM UdiIsMeant == JobSpec => [](udi.by # 0 => udi.image = meant[udi.by])
<1>1. JobSpec => []JobBase
  BY BaseInit, BaseNext, PTL DEF JobSpec
<1>2. JobBase => (udi.by # 0 => udi.image = meant[udi.by]) BY DEF JobBase, Numbered
<1> QED BY <1>1, <1>2, PTL

\* Jobs that follow one another on a node stay apart (JobsApart), whatever
\* fails: a task in ccm mode is in another job's UDI, and a process of a
\* cgroup outlives its job, only where an epilog has left them.
THEOREM JobsStayApart == LocalByCcm /\ JobSpec => []JobsApart
<1> SUFFICES ASSUME LocalByCcm PROVE JobSpec => []JobsApart OBVIOUS
<1>1. JobSpec => [](JobBase /\ JobApart)
  <2>1. JobInit => JobBase /\ JobApart BY BaseInit, ApartInit
  <2>2. JobBase /\ JobApart /\ [JobNext]_jvars => (JobBase /\ JobApart)' BY BaseNext, ApartNext
  <2> QED BY <2>1, <2>2, PTL DEF JobSpec
<1>2. JobBase /\ JobApart => JobsApart
  <2> SUFFICES ASSUME JobBase, JobApart PROVE JobsApart OBVIOUS
  <2>1. \A p \in procs : p.where \in {"cgroup", "extern", "node"} BY DEF JobBase, JobTypeOK, Procs
  <2> QED BY <2>1 DEF JobBase, Numbered, JobApart, UdiOfJob, TaskOfJob, ProcsOfJob, JobsApart
<1> QED BY <1>1, <1>2, PTL

-----------------------------------------------------------------------------
(* ChildLog.                                                               *)

ChildTypeOK ==
  /\ program \in Seq(Streams) /\ written \in 0 .. Len(program)
  /\ status \in {0, 1, 15, Running}
  /\ pipe \in [Streams -> 0 .. Room] /\ logged \in [Streams -> Nat]
  /\ ended \in SUBSET Streams
  /\ reader \in Streams \cup {"wait", "over"}

\* Every line that was written is in its pipe or logged.
LinesKept == \A s \in Streams : Count(s, written) = pipe[s] + logged[s]

\* The streams are read in turn.  A stream has ended when its pipe is empty
\* and the child gone; after the one of stdout stderr is read once more.
InTurn ==
  /\ \A s \in ended : pipe[s] = 0 /\ ~Runs
  /\ reader = "out" => ended = {} /\ logged["out"] = logged["err"]
  /\ reader = "err" => \/ ended = {} /\ logged["out"] = logged["err"] + 1
                       \/ ended = {"out"} /\ logged["out"] = logged["err"]
  /\ reader \in {"wait", "over"} =>
       \/ ended = {"out"} /\ logged["err"] = logged["out"] + 1
       \/ ended = {"err"} /\ logged["out"] = logged["err"] + 1
       \/ ended = Streams /\ logged["out"] = logged["err"]
  /\ reader = "over" => reported = Result

ChildInv == ChildTypeOK /\ LinesKept /\ InTurn

\* Another line counts for its own stream alone.
LEMMA CountNext ==
  ASSUME NEW p \in Seq(Streams), NEW n \in Nat, n < Len(p), NEW s \in Streams
  PROVE  LET Of(m) == Cardinality({k \in 1 .. m : p[k] = s})
         IN  /\ Of(0) = 0 /\ Of(n) \in Nat
             /\ Of(n + 1) = IF p[n + 1] = s THEN Of(n) + 1 ELSE Of(n)
<1> DEFINE On(m) == {k \in 1 .. m : p[k] = s}
<1>1. On(0) = {} OBVIOUS
<1>2. IsFiniteSet(On(n))
  <2>1. IsFiniteSet(1 .. n) BY FS_Interval
  <2>2. On(n) \subseteq 1 .. n OBVIOUS
  <2> QED BY <2>1, <2>2, FS_Subset
<1>3. n + 1 \notin On(n) OBVIOUS
<1>4. On(n + 1) = IF p[n + 1] = s THEN On(n) \cup {n + 1} ELSE On(n) OBVIOUS
<1> HIDE DEF On
<1>5. Cardinality(On(n)) \in Nat BY <1>2, FS_CardinalityType
<1>6. Cardinality(On(n) \cup {n + 1}) = Cardinality(On(n)) + 1 BY <1>2, <1>3, FS_AddElement
<1>7. Cardinality(On(0)) = 0 BY <1>1, FS_EmptySet
<1> QED BY <1>4, <1>5, <1>6, <1>7 DEF On

LEMMA WrittenNext ==
  ASSUME ChildTypeOK, written < Len(program), NEW s \in Streams
  PROVE  /\ Count(s, written) \in Nat
         /\ Count(s, written + 1) =
              IF program[written + 1] = s THEN Count(s, written) + 1 ELSE Count(s, written)
<1>1. program \in Seq(Streams) /\ written \in Nat BY DEF ChildTypeOK
<1> QED BY <1>1, CountNext DEF Count

LEMMA ChildInit == ChildLogInit => ChildInv
<1> SUFFICES ASSUME ChildLogInit PROVE ChildInv OBVIOUS
<1> PICK p \in Programs : ChildLogStart(p) BY DEF ChildLogInit
<1>1. ChildTypeOK
  BY ChildLogAssumption DEF ChildLogStart, ChildTypeOK, Streams, Zero, Running
<1>2. LinesKept
  <2> SUFFICES ASSUME NEW s \in Streams PROVE Count(s, written) = pipe[s] + logged[s] BY DEF LinesKept
  <2>1. {k \in 1 .. 0 : program[k] = s} = {} OBVIOUS
  <2>2. Count(s, 0) = 0 BY <2>1, FS_EmptySet DEF Count
  <2> QED BY <2>2 DEF ChildLogStart, Zero
<1>3. InTurn BY DEF ChildLogStart, InTurn, Zero, Streams
<1> QED BY <1>1, <1>2, <1>3 DEF ChildInv

LEMMA ChildNext == ASSUME ChildInv, [ChildLogNext]_chvars PROVE ChildInv'
<1> USE DEF ChildInv
<1>1. CASE UNCHANGED chvars
  <2>1. ChildTypeOK' BY <1>1 DEF chvars, ChildTypeOK
  <2>2. LinesKept' BY <1>1 DEF chvars, LinesKept, Count
  <2>3. InTurn' BY <1>1 DEF chvars, InTurn, Runs, Result
  <2> QED BY <2>1, <2>2, <2>3
<1>2. CASE Write1
  <2> DEFINE line == program[written + 1]
  <2>1. written + 1 \in 1 .. Len(program) /\ line \in Streams BY <1>2 DEF Write1, ChildTypeOK
  <2>2. /\ pipe[line] < Room /\ written' = written + 1 /\ Runs
        /\ pipe' = [pipe EXCEPT ![line] = @ + 1]
        /\ UNCHANGED <<program, status, ended, reader, logged, reported>>
    BY <1>2, <2>1, ChildLogAssumption DEF Write1, Blocked, ChildTypeOK
  <2> HIDE DEF line
  <2>3. ChildTypeOK' BY <2>1, <2>2, ChildLogAssumption DEF ChildTypeOK
  <2>4. ASSUME NEW s \in Streams PROVE Count(s, written + 1) = pipe'[s] + logged[s]
    <3>1. Count(s, written + 1) = IF line = s THEN Count(s, written) + 1 ELSE Count(s, written)
      BY <2>1, WrittenNext DEF line, ChildTypeOK
    <3>2. Count(s, written) = pipe[s] + logged[s] BY DEF LinesKept
    <3> QED BY <2>1, <2>2, <3>1, <3>2 DEF ChildTypeOK
  <2>5. LinesKept' BY <2>2, <2>4 DEF LinesKept, Count
  <2>6. InTurn' BY <2>2 DEF InTurn, Runs, Result
  <2> QED BY <2>3, <2>5, <2>6
<1>3. CASE ChildEnds
  <2>1. ChildTypeOK' BY <1>3 DEF ChildEnds, ChildTypeOK
  <2>2. LinesKept' BY <1>3 DEF ChildEnds, LinesKept, Count
  <2>3. ended = {} /\ reader # "over" BY <1>3 DEF ChildEnds, InTurn, Streams
  <2>4. InTurn' BY <1>3, <2>3 DEF ChildEnds, InTurn, Streams
  <2> QED BY <2>1, <2>2, <2>4
<1>4. ASSUME NEW s \in Streams, ReadLine(s) PROVE ChildInv'
  <2>1. CASE pipe[s] > 0 /\ pipe' = [pipe EXCEPT ![s] = @ - 1]
             /\ logged' = [logged EXCEPT ![s] = @ + 1] /\ UNCHANGED ended
    <3>1. ChildTypeOK' BY <1>4, <2>1, ChildLogAssumption DEF ReadLine, ChildTypeOK, Streams
    <3>2. LinesKept' BY <1>4, <2>1 DEF ReadLine, LinesKept, Count, ChildTypeOK
    <3>3. InTurn' BY <1>4, <2>1 DEF ReadLine, InTurn, ChildTypeOK, Runs, Streams
    <3> QED BY <3>1, <3>2, <3>3
  <2>2. CASE pipe[s] = 0 /\ ~Runs /\ ended' = ended \cup {s} /\ UNCHANGED <<pipe, logged>>
    <3>1. ChildTypeOK' BY <1>4, <2>2 DEF ReadLine, ChildTypeOK, Streams
    <3>2. LinesKept' BY <1>4, <2>2 DEF ReadLine, LinesKept, Count
    <3>3. InTurn' BY <1>4, <2>2 DEF ReadLine, InTurn, ChildTypeOK, Runs, Streams
    <3> QED BY <3>1, <3>2, <3>3
  <2> QED BY <1>4, <2>1, <2>2 DEF ReadLine
<1>5. CASE WaitChild
  <2>1. ChildTypeOK' BY <1>5 DEF WaitChild, ChildTypeOK
  <2>2. LinesKept' BY <1>5 DEF WaitChild, LinesKept, Count
  <2>3. InTurn' BY <1>5 DEF WaitChild, InTurn, Runs, Result
  <2> QED BY <2>1, <2>2, <2>3
<1> QED BY <1>1, <1>2, <1>3, <1>4, <1>5 DEF ChildLogNext

\* Who waits for whom, and how many lines it takes.
LEMMA WaitsForMore ==
  ASSUME ChildInv, Deadlocked
  PROVE  \E n \in 1 .. Len(program), s \in Streams : Count(s, n) > Count(Other(s), n) + Room
<1> DEFINE s == program[written + 1]
<1>1. written + 1 \in 1 .. Len(program) /\ s \in Streams /\ written \in Nat /\ written < Len(program)
  BY DEF Deadlocked, Blocked, ChildInv, ChildTypeOK
<1>2. pipe[s] = Room /\ Runs /\ reader \in Streams /\ pipe[reader] = 0 BY DEF Deadlocked, Blocked
<1> HIDE DEF s
<1>3. ended = {} BY <1>2 DEF ChildInv, InTurn, ChildTypeOK
<1>4. reader = Other(s) /\ Other(s) \in Streams /\ Other(s) # s
  BY <1>1, <1>2, ChildLogAssumption DEF Streams, Other
<1>5. /\ Count(s, written + 1) = Room + logged[s] + 1
      /\ Count(Other(s), written + 1) = logged[Other(s)]
  <2>1. /\ Count(s, written) = Room + logged[s] /\ Count(Other(s), written) = logged[Other(s)]
        /\ Count(s, written + 1) = Count(s, written) + 1
        /\ Count(Other(s), written + 1) = Count(Other(s), written)
    <3>1. Count(s, written) = pipe[s] + logged[s] /\ Count(Other(s), written) = pipe[Other(s)] + logged[Other(s)]
      BY <1>1, <1>4 DEF ChildInv, LinesKept
    <3>2. /\ Count(s, written + 1) = Count(s, written) + 1
          /\ Count(Other(s), written + 1) = Count(Other(s), written)
      BY <1>1, <1>4, WrittenNext DEF ChildInv, s
    <3>3. logged[Other(s)] \in Nat BY <1>4 DEF ChildInv, ChildTypeOK
    <3> QED BY <1>2, <1>4, <3>1, <3>2, <3>3
  <2>2. Room \in Nat /\ logged[s] \in Nat BY <1>1, ChildLogAssumption DEF ChildInv, ChildTypeOK
  <2> QED BY <2>1, <2>2
<1>6. logged[s] + 1 > logged[Other(s)]
  BY <1>1, <1>2, <1>3, <1>4 DEF ChildInv, InTurn, ChildTypeOK, Streams
<1>7. Count(s, written + 1) > Count(Other(s), written + 1) + Room
  BY <1>1, <1>4, <1>5, <1>6, ChildLogAssumption DEF ChildInv, ChildTypeOK
<1> QED BY <1>1, <1>7

\* forkAndExecvLogToSlurm hears its child, for programs of any length and
\* pipes of any size.
THEOREM ChildIsHeard == ChildLogInit /\ [][ChildLogNext]_chvars => []ChildHeard
<1>1. ChildLogInit /\ [][ChildLogNext]_chvars => []ChildInv
  BY ChildInit, ChildNext, PTL
<1>2. ChildInv => ChildHeard
  <2> SUFFICES ASSUME ChildInv PROVE ChildHeard OBVIOUS
  <2>1. ASSUME reader = "over", NEW s \in Streams
        PROVE  LET all == Count(s, written)
                   some == Count(Other(s), written) + 1
               IN  logged[s] = IF all < some THEN all ELSE some
    BY <2>1 DEF ChildInv, ChildTypeOK, InTurn, LinesKept, Other, Streams
  <2>2. reader = "over" => (reported = 0 <=> status = 0)
    BY DEF ChildInv, InTurn, Result
  <2> QED BY <2>1, <2>2, WaitsForMore DEF ChildHeard
<1> QED BY <1>1, <1>2, PTL

-----------------------------------------------------------------------------
(* Least and greatest numbers, and induction, as facts about sets.         *)

LEMMA LeastIn ==
  ASSUME NEW S, S \subseteq Nat, S # {}
  PROVE  Min(S) \in S /\ \A y \in S : Min(S) <= y
<1> DEFINE R == OpToRel(<, Nat)
<1>1. PICK x \in S : \A y \in S : ~(<<y, x>> \in R)
  <2>1. IsWellFoundedOn(R, Nat)
    BY NatLessThanWellFounded
  <2> HIDE DEF R
  <2> QED
    BY <2>1, WFMin
<1>2. \A y \in S : x <= y
  <2> TAKE y \in S
  <2>1. y \in Nat /\ x \in Nat
    OBVIOUS
  <2>2. ~(y < x)
    <3>1. y < x => <<y, x>> \in R
      BY <2>1 DEF OpToRel
    <3> HIDE DEF R
    <3> QED
      BY <1>1, <3>1
  <2> QED
    BY <2>1, <2>2
<1> HIDE DEF R
<1> QED
  BY <1>2 DEF Min

LEMMA GreatestIn ==
  ASSUME NEW S, S \subseteq Nat, S # {}, NEW n \in Nat, \A y \in S : y <= n
  PROVE  Max(S) \in S /\ \A y \in S : y <= Max(S)
<1> DEFINE T == {b \in Nat : \A y \in S : y <= b}
           b == Min(T)
<1>1. T \subseteq Nat /\ n \in T
  OBVIOUS
<1>2. b \in T /\ \A y \in T : b <= y
  BY <1>1, LeastIn
<1> HIDE DEF b
<1>3. b \in S
  <2> SUFFICES ASSUME b \notin S PROVE FALSE
    OBVIOUS
  <2>1. \A y \in S : y <= b /\ y # b /\ y \in Nat
    BY <1>2
  <2>2. PICK z \in S : TRUE
    OBVIOUS
  <2>3. b \in Nat /\ b - 1 \in Nat
    BY <1>2, <2>1, <2>2
  <2>4. b - 1 \in T
    BY <2>1, <2>3
  <2> QED
    BY <1>2, <2>3, <2>4
<1>4. \E x \in S : \A y \in S : x >= y
  BY <1>2, <1>3
<1> QED
  BY <1>4 DEF Max

LEMMA NumberInduction ==
  ASSUME NEW S, 0 \in S, \A n \in Nat : n \in S => n + 1 \in S
  PROVE  Nat \subseteq S
<1> SUFFICES ASSUME Nat \ S # {} PROVE FALSE
  OBVIOUS
<1> DEFINE x == Min(Nat \ S)
<1>1. x \in Nat \ S /\ \A y \in Nat \ S : x <= y
  BY LeastIn
<1> HIDE DEF x
<1>2. x - 1 \in Nat /\ x - 1 \notin Nat \ S
  BY <1>1
<1>3. (x - 1) + 1 = x
  BY <1>1
<1> QED
  BY <1>1, <1>2, <1>3

\* Up to a bound.
LEMMA NumberInductionTo ==
  ASSUME NEW S, NEW N \in Nat, 0 \in S,
         \A n \in 0 .. (N - 1) : n \in S => n + 1 \in S
  PROVE  0 .. N \subseteq S
<1> DEFINE T == {n \in Nat : n <= N => n \in S}
<1>1. 0 \in T /\ \A n \in Nat : n \in T => n + 1 \in T
  OBVIOUS
<1> HIDE DEF T
<1>2. Nat \subseteq T
  BY <1>1, NumberInduction
<1> QED
  BY <1>2 DEF T

-----------------------------------------------------------------------------
(* Recursive definitions and folds.  What is done in a round is a function *)
(* g here: the provers cannot instantiate an operator.                     *)

Rounds(X, z, N, g, f) ==
  /\ f \in [0 .. N -> X]
  /\ f[0] = z
  /\ \A k \in 1 .. N : f[k] = g[k][f[k - 1]]

LEMMA RoundsExist ==
  ASSUME NEW X, NEW z \in X, NEW N \in Nat, NEW g \in [1 .. N -> [X -> X]]
  PROVE  \E f : Rounds(X, z, N, g, f)
<1> DEFINE S == {n \in Nat : \E f \in [0 .. n -> X] :
                   f[0] = z /\ \A k \in 1 .. n : f[k] = g[k][f[k - 1]]}
<1>1. 0 \in S
  <2> DEFINE f == [k \in 0 .. 0 |-> z]
  <2>1. f \in [0 .. 0 -> X] /\ f[0] = z /\ 1 .. 0 = {}
    OBVIOUS
  <2> HIDE DEF f
  <2> QED
    BY <2>1
<1>2. ASSUME NEW n \in 0 .. (N - 1), n \in S PROVE n + 1 \in S
  <2>1. PICK f \in [0 .. n -> X] :
          f[0] = z /\ \A k \in 1 .. n : f[k] = g[k][f[k - 1]]
    BY <1>2
  <2> DEFINE h == [k \in 0 .. (n + 1) |->
                     IF k = n + 1 THEN g[n + 1][f[n]] ELSE f[k]]
  <2>2. f[n] \in X /\ g[n + 1][f[n]] \in X
    OBVIOUS
  <2>3. h \in [0 .. (n + 1) -> X]
    BY <2>2
  <2>4. h[0] = z /\ h[n + 1] = g[n + 1][f[n]] /\ \A k \in 0 .. n : h[k] = f[k]
    BY <2>1
  <2> HIDE DEF h
  <2>5. ASSUME NEW k \in 1 .. (n + 1) PROVE h[k] = g[k][h[k - 1]]
    <3>1. CASE k = n + 1
      <4>1. k - 1 = n /\ h[k - 1] = f[n]
        BY <3>1, <2>4
      <4> QED
        BY <3>1, <4>1, <2>4
    <3>2. CASE k \in 1 .. n
      <4>1. h[k] = f[k] /\ h[k - 1] = f[k - 1]
        BY <3>2, <2>4
      <4> QED
        BY <3>2, <4>1, <2>1
    <3> QED
      BY <3>1, <3>2
  <2>6. n + 1 \in Nat
    OBVIOUS
  <2> QED
    BY <2>3, <2>4, <2>5, <2>6
<1>3. N \in S
  <2> HIDE DEF S
  <2>1. 0 .. N \subseteq S
    BY <1>1, <1>2, NumberInductionTo
  <2> QED
    BY <2>1
<1> QED
  BY <1>3 DEF Rounds

LEMMA GreatestOf ==
  ASSUME NEW N \in Nat, NEW S \in SUBSET (1 .. N), S # {}
  PROVE  Max(S) \in S /\ \A y \in S : y <= Max(S)
<1>1. S \subseteq Nat /\ \A y \in S : y <= N
  OBVIOUS
<1> QED
  BY <1>1, GreatestIn

\* The function that MapThenFoldSet uses, for a sequence with N elements.
Folded(X, z, N, g, iter) ==
  /\ iter \in [SUBSET (1 .. N) -> X]
  /\ \A S \in SUBSET (1 .. N) :
       iter[S] = IF S = {} THEN z ELSE g[Max(S)][iter[S \ {Max(S)}]]

LEMMA FoldExists ==
  ASSUME NEW X, NEW z \in X, NEW N \in Nat, NEW g \in [1 .. N -> [X -> X]]
  PROVE  \E iter : Folded(X, z, N, g, iter)
<1> DEFINE D == SUBSET (1 .. N)
           P == {n \in Nat : \E f \in [D -> X] : \A S \in D :
                   (\A y \in S : y <= n) =>
                     f[S] = IF S = {} THEN z ELSE g[Max(S)][f[S \ {Max(S)}]]}
<1>1. 0 \in P
  <2> DEFINE f == [S \in D |-> z]
  <2>1. f \in [D -> X] /\ f[{}] = z
    OBVIOUS
  <2>2. \A S \in D : (\A y \in S : y <= 0) => S = {}
    OBVIOUS
  <2> HIDE DEF f
  <2>3. \A S \in D : (\A y \in S : y <= 0) =>
          f[S] = IF S = {} THEN z ELSE g[Max(S)][f[S \ {Max(S)}]]
    BY <2>1, <2>2
  <2> QED
    BY <2>1, <2>3
<1>2. ASSUME NEW n \in Nat, n \in P PROVE n + 1 \in P
  <2>1. PICK f \in [D -> X] : \A S \in D :
          (\A y \in S : y <= n) =>
            f[S] = IF S = {} THEN z ELSE g[Max(S)][f[S \ {Max(S)}]]
    BY <1>2
  <2> DEFINE h == [S \in D |-> IF S = {} THEN z
                               ELSE g[Max(S)][f[S \ {Max(S)}]]]
  <2>2. ASSUME NEW S \in D, S # {}
        PROVE  Max(S) \in 1 .. N /\ f[S \ {Max(S)}] \in X
    <3>1. Max(S) \in S
      BY <2>2, GreatestOf
    <3> QED
      BY <3>1
  <2>3. h \in [D -> X]
    <3>1. \A S \in D : S # {} => g[Max(S)][f[S \ {Max(S)}]] \in X
      BY <2>2
    <3> QED
      BY <3>1
  <2>4. ASSUME NEW S \in D, \A y \in S : y <= n PROVE h[S] = f[S]
    BY <2>1, <2>4
  <2>5. ASSUME NEW S \in D, \A y \in S : y <= n + 1
        PROVE  h[S] = IF S = {} THEN z ELSE g[Max(S)][h[S \ {Max(S)}]]
    <3>1. CASE S = {}
      BY <3>1
    <3>2. CASE S # {}
      <4> DEFINE T == S \ {Max(S)}
      <4>1. Max(S) \in S /\ \A y \in S : y <= Max(S)
        BY <3>2, GreatestOf
      <4> HIDE DEF h
      <4>2. \A y \in T : y <= n
        <5> DEFINE b == Max(S)
        <5> HIDE DEF b
        <5>1. \A y \in S : y \in Nat /\ y <= n + 1
          BY <2>5
        <5>2. b \in Nat /\ b <= n + 1 /\ \A y \in S : y <= b
          BY <4>1, <5>1 DEF b
        <5>3. \A y \in S \ {b} : y <= n
          BY <5>1, <5>2
        <5> QED
          BY <5>3 DEF b
      <4>3. T \in D
        OBVIOUS
      <4>4. h[T] = f[T]
        BY <4>2, <4>3, <2>4
      <4> QED
        BY <3>2, <4>4 DEF h
    <3> QED
      BY <3>1, <3>2
  <2> HIDE DEF h
  <2>6. n + 1 \in Nat
    OBVIOUS
  <2> QED
    BY <2>3, <2>5, <2>6
<1>3. N \in P
  <2> HIDE DEF P
  <2> QED
    BY <1>1, <1>2, NumberInduction
<1>4. PICK f \in [D -> X] : \A S \in D :
        (\A y \in S : y <= N) =>
          f[S] = IF S = {} THEN z ELSE g[Max(S)][f[S \ {Max(S)}]]
  BY <1>3
<1>5. \A S \in D : f[S] = IF S = {} THEN z ELSE g[Max(S)][f[S \ {Max(S)}]]
  <2> TAKE S \in D
  <2>1. \A y \in S : y <= N
    OBVIOUS
  <2> QED
    BY <1>4, <2>1
<1> QED
  BY <1>5 DEF Folded

\* A fold goes through the first k elements to the next one.
LEMMA FirstElements ==
  ASSUME NEW N \in Nat, NEW k \in 1 .. N
  PROVE  /\ 1 .. k \in SUBSET (1 .. N) /\ 1 .. k # {}
         /\ Max(1 .. k) = k
         /\ (1 .. k) \ {Max(1 .. k)} = 1 .. (k - 1)
<1>1. 1 .. k \in SUBSET (1 .. N) /\ 1 .. k # {} /\ k \in 1 .. k
  OBVIOUS
<1>2. Max(1 .. k) \in 1 .. k /\ \A y \in 1 .. k : y <= Max(1 .. k)
  BY <1>1, GreatestOf
<1>3. Max(1 .. k) = k
  BY <1>1, <1>2
<1> QED
  BY <1>1, <1>3

-----------------------------------------------------------------------------
(* The array of mount points.                                              *)

MountLists == [list : Seq(Dirs), sorted : {"unsorted", "forward", "reverse"}]

\* The array is in its order, and empty as long as it has none.
InOrder(m) ==
  /\ m \in MountLists
  /\ m.sorted = "unsorted" => m.list = <<>>
  /\ \A i, j \in DOMAIN m.list : i < j => Before(m.sorted, m.list[i], m.list[j])

LEMMA BeforeIsOrder ==
  ASSUME NEW p \in Dirs, NEW q \in Dirs, NEW s
  PROVE  /\ ~Before(s, p, p)
         /\ p # q => Before(s, p, q) \/ Before(s, q, p)
         /\ ~(Before(s, p, q) /\ Before(s, q, p))
  BY MountListAssumption DEF Before


\* bsearch: one round closes in on an entry that is there.
LEMMA RoundCloses ==
  ASSUME NEW list \in Seq(Dirs), NEW s, NEW p \in Dirs,
         \A i, j \in DOMAIN list : i < j => Before(s, list[i], list[j]),
         NEW low \in 0 .. Len(list), NEW high \in 0 .. Len(list), low < high,
         \A i \in DOMAIN list : list[i] = p => low < i /\ i <= high
  PROVE  LET mid == (low + high) \div 2
             at  == list[mid + 1]
         IN  /\ mid \in low .. (high - 1) /\ mid + 1 \in 1 .. Len(list)
             /\ at # p /\ Before(s, p, at) =>
                  \A i \in DOMAIN list : list[i] = p => low < i /\ i <= mid
             /\ at # p /\ ~Before(s, p, at) =>
                  \A i \in DOMAIN list : list[i] = p => mid + 1 < i /\ i <= high
<1> DEFINE mid == (low + high) \div 2
           at  == list[mid + 1]
<1>1. Len(list) \in Nat /\ DOMAIN list = 1 .. Len(list)
  OBVIOUS
<1>2. mid \in low .. (high - 1)
  BY <1>1
<1> HIDE DEF mid
<1>3. mid + 1 \in 1 .. Len(list) /\ at \in Dirs /\ mid \in Nat
  BY <1>1, <1>2
<1>4. ASSUME at # p, Before(s, p, at), NEW i \in DOMAIN list, list[i] = p
      PROVE  low < i /\ i <= mid
  <2>1. ~(mid + 1 < i)
    BY <1>1, <1>3, <1>4, BeforeIsOrder
  <2>2. i # mid + 1
    BY <1>4
  <2> QED
    BY <1>1, <1>3, <1>4, <2>1, <2>2
<1>5. ASSUME at # p, ~Before(s, p, at), NEW i \in DOMAIN list, list[i] = p
      PROVE  mid + 1 < i /\ i <= high
  <2>1. ~(i < mid + 1)
    BY <1>1, <1>3, <1>5
  <2>2. i # mid + 1
    BY <1>5
  <2> QED
    BY <1>1, <1>3, <1>5, <2>1, <2>2
<1> QED
  BY <1>2, <1>3, <1>4, <1>5 DEF mid

LEMMA Searched ==
  ASSUME NEW list \in Seq(Dirs), NEW s, NEW p \in Dirs,
         \A i, j \in DOMAIN list : i < j => Before(s, list[i], list[j]),
         NEW half,
         half = [n \in 0 .. Len(list) |->
           IF n = 0 THEN [low |-> 0, high |-> Len(list)]
           ELSE LET r   == half[n - 1]
                    mid == (r.low + r.high) \div 2
                    at  == list[mid + 1]
                IN  IF r.low >= r.high \/ at = p THEN r
                    ELSE IF Before(s, p, at)
                         THEN [low |-> r.low, high |-> mid]
                         ELSE [low |-> mid + 1, high |-> r.high]]
  PROVE  LET r   == half[Len(list)]
             mid == (r.low + r.high) \div 2
         IN  /\ r.low < r.high => mid + 1 \in 1 .. Len(list) /\ list[mid + 1] = p
             /\ p \in ToSet(list) => r.low < r.high
<1> DEFINE L == Len(list)
           M(r) == (r.low + r.high) \div 2
           Round(r) ==
             IF r.low >= r.high \/ list[M(r) + 1] = p THEN r
             ELSE IF Before(s, p, list[M(r) + 1])
                  THEN [low |-> r.low, high |-> M(r)]
                  ELSE [low |-> M(r) + 1, high |-> r.high]
           Close(n, r) ==
             /\ r.low \in 0 .. L /\ r.high \in 0 .. L
             /\ \A i \in DOMAIN list : list[i] = p => r.low < i /\ i <= r.high
             /\ \/ r.low >= r.high
                \/ list[M(r) + 1] = p
                \/ r.high - r.low <= L - n
           S == {n \in Nat : Close(n, half[n])}
<1>1. L \in Nat /\ DOMAIN list = 1 .. L
  OBVIOUS
<1>2. half[0] = [low |-> 0, high |-> L]
  BY <1>1
<1>3. ASSUME NEW n \in 0 .. (L - 1) PROVE half[n + 1] = Round(half[n])
  <2>1. n + 1 \in 0 .. L /\ n + 1 # 0 /\ (n + 1) - 1 = n
    BY <1>1
  <2> QED
    BY <2>1
<1>4. Close(0, half[0])
  BY <1>1, <1>2
<1>5. ASSUME NEW n \in 0 .. (L - 1), NEW r, Close(n, r)
      PROVE  Close(n + 1, Round(r))
  <2>1. CASE r.low >= r.high \/ list[M(r) + 1] = p
    BY <1>5, <2>1
  <2>2. CASE ~(r.low >= r.high) /\ list[M(r) + 1] # p
    <3>0. r.low \in 0 .. L /\ r.high \in 0 .. L /\ r.low < r.high
          /\ r.high - r.low <= L - n
      BY <1>5, <2>2
    <3>1. /\ M(r) \in r.low .. (r.high - 1) /\ M(r) + 1 \in 1 .. L
          /\ Before(s, p, list[M(r) + 1]) =>
               \A i \in DOMAIN list : list[i] = p => r.low < i /\ i <= M(r)
          /\ ~Before(s, p, list[M(r) + 1]) =>
               \A i \in DOMAIN list : list[i] = p => M(r) + 1 < i /\ i <= r.high
      <4> DEFINE low == r.low
                 high == r.high
      <4>1. /\ low \in 0 .. Len(list) /\ high \in 0 .. Len(list) /\ low < high
            /\ \A i \in DOMAIN list : list[i] = p => low < i /\ i <= high
            /\ list[(low + high) \div 2 + 1] # p
        BY <1>5, <2>2, <3>0
      <4> HIDE DEF low, high
      <4>2. LET mid == (low + high) \div 2
                at  == list[mid + 1]
            IN  /\ mid \in low .. (high - 1) /\ mid + 1 \in 1 .. Len(list)
                /\ at # p /\ Before(s, p, at) =>
                     \A i \in DOMAIN list : list[i] = p => low < i /\ i <= mid
                /\ at # p /\ ~Before(s, p, at) =>
                     \A i \in DOMAIN list : list[i] = p => mid + 1 < i /\ i <= high
        BY <4>1, RoundCloses
      <4> QED
        BY <4>1, <4>2 DEF low, high
    <3>2. CASE Before(s, p, list[M(r) + 1])
      <4> DEFINE q == Round(r)
      <4>1. q.low = r.low /\ q.high = M(r)
        BY <2>2, <3>2
      <4> HIDE DEF q, M
      <4>2. q.low \in 0 .. L /\ q.high \in 0 .. L /\ q.high - q.low <= L - (n + 1)
        BY <4>1, <3>0, <3>1, <1>1
      <4>3. \A i \in DOMAIN list : list[i] = p => q.low < i /\ i <= q.high
        BY <4>1, <3>1, <3>2
      <4> QED
        BY <4>2, <4>3 DEF q
    <3>3. CASE ~Before(s, p, list[M(r) + 1])
      <4> DEFINE q == Round(r)
      <4>1. q.low = M(r) + 1 /\ q.high = r.high
        BY <2>2, <3>3
      <4> HIDE DEF q, M
      <4>2. q.low \in 0 .. L /\ q.high \in 0 .. L /\ q.high - q.low <= L - (n + 1)
        BY <4>1, <3>0, <3>1, <1>1
      <4>3. \A i \in DOMAIN list : list[i] = p => q.low < i /\ i <= q.high
        BY <4>1, <3>1, <3>3
      <4> QED
        BY <4>2, <4>3 DEF q
    <3> QED
      BY <3>2, <3>3
  <2> QED
    BY <2>1, <2>2
<1> HIDE DEF Close, Round
<1>6. \A n \in 0 .. (L - 1) : n \in S => n + 1 \in S
  <2> TAKE n \in 0 .. (L - 1)
  <2>1. n + 1 \in Nat
    OBVIOUS
  <2> QED
    BY <1>3, <1>5, <2>1
<1>7. 0 \in S
  BY <1>4
<1>8. L \in S
  <2> HIDE DEF S
  <2>1. 0 .. L \subseteq S
    BY <1>1, <1>6, <1>7, NumberInductionTo
  <2> QED
    BY <1>1, <2>1
<1> DEFINE r == half[L]
<1>9. Close(L, r)
  BY <1>8
<1> HIDE DEF r
<1>10. /\ r.low \in 0 .. L /\ r.high \in 0 .. L
       /\ \A i \in DOMAIN list : list[i] = p => r.low < i /\ i <= r.high
       /\ r.low >= r.high \/ list[M(r) + 1] = p \/ r.high - r.low <= L - L
  BY <1>9 DEF Close
<1>11. r.low < r.high => M(r) \in r.low .. (r.high - 1) /\ list[M(r) + 1] = p
  BY <1>1, <1>10
<1>12. p \in ToSet(list) => r.low < r.high
  BY <1>1, <1>10 DEF ToSet
<1>13. r.low < r.high => M(r) + 1 \in 1 .. L
  <2> HIDE DEF M
  <2> QED
    BY <1>1, <1>10, <1>11
<1> QED
  BY <1>11, <1>12, <1>13 DEF r

\* find_MountList finds what is in the array, and nothing else.
LEMMA FindFinds ==
  ASSUME NEW m, InOrder(m), NEW p \in Dirs
  PROVE  /\ find_MountList(m, p) \in 0 .. Len(m.list)
         /\ find_MountList(m, p) # 0 <=> p \in ToSet(m.list)
         /\ find_MountList(m, p) # 0 => m.list[find_MountList(m, p)] = p
<1> DEFINE list == m.list
           s == m.sorted
           L == Len(list)
<1>1. list \in Seq(Dirs) /\ L \in Nat /\ DOMAIN list = 1 .. L
  BY DEF InOrder, MountLists
<1>2. \A i, j \in DOMAIN list : i < j => Before(s, list[i], list[j])
  BY DEF InOrder
<1>3. CASE s = "unsorted"
  <2>1. list = <<>> /\ ToSet(list) = {}
    BY <1>3 DEF InOrder, ToSet
  <2>2. find_MountList(m, p) = 0
    BY <1>3, <2>1 DEF find_MountList
  <2> QED
    BY <2>1, <2>2
<1>4. CASE s # "unsorted"
  <2> DEFINE M(r) == (r.low + r.high) \div 2
             H(half) == [n \in 0 .. L |->
               IF n = 0 THEN [low |-> 0, high |-> L]
               ELSE LET r   == half[n - 1]
                        mid == (r.low + r.high) \div 2
                        at  == list[mid + 1]
                    IN  IF r.low >= r.high \/ at = p THEN r
                        ELSE IF Before(s, p, at)
                             THEN [low |-> r.low, high |-> mid]
                             ELSE [low |-> mid + 1, high |-> r.high]]
             half == CHOOSE h : h = H(h)
  <2>1. \E h : h = H(h)
    <3> DEFINE X == [low : Int, high : Int]
               z == [low |-> 0, high |-> L]
               B(r) == LET mid == (r.low + r.high) \div 2
                           at  == list[mid + 1]
                       IN  IF r.low >= r.high \/ at = p THEN r
                           ELSE IF Before(s, p, at)
                                THEN [low |-> r.low, high |-> mid]
                                ELSE [low |-> mid + 1, high |-> r.high]
               g == [k \in 1 .. L |-> [r \in X |-> B(r)]]
    <3>1. z \in X
      BY <1>1
    <3>2. \A r \in X : B(r) \in X
      OBVIOUS
    <3>3. \A k \in 1 .. L, r \in X : g[k][r] = B(r)
      OBVIOUS
    <3> HIDE DEF X, z, B
    <3>4. g \in [1 .. L -> [X -> X]]
      BY <3>2
    <3> HIDE DEF g, L, H
    <3>5. PICK f \in [0 .. L -> X] :
            f[0] = z /\ \A k \in 1 .. L : f[k] = g[k][f[k - 1]]
      <4>1. L \in Nat
        BY <1>1 DEF L
      <4>2. PICK f : Rounds(X, z, L, g, f)
        BY <3>1, <3>4, <4>1, RoundsExist
      <4> QED
        BY <4>2 DEF Rounds
    <3>6. \A k \in 0 .. L : f[k] = IF k = 0 THEN z ELSE B(f[k - 1])
      <4> TAKE k \in 0 .. L
      <4>1. k = 0 \/ (k \in 1 .. L /\ k - 1 \in 0 .. L)
        BY <1>1
      <4> QED
        BY <3>3, <3>5, <4>1
    <3>7. f = [k \in 0 .. L |-> IF k = 0 THEN z ELSE B(f[k - 1])]
      <4>1. f = [k \in 0 .. L |-> f[k]]
        OBVIOUS
      <4> QED
        BY <3>6, <4>1
    <3>8. f = H(f)
      BY <3>7 DEF z, B, H
    <3> QED
      BY <3>8
  <2>2. half = H(half)
    BY <2>1
  <2>3. find_MountList(m, p) =
          IF half[L].low < half[L].high THEN M(half[L]) + 1 ELSE 0
    BY <1>4 DEF find_MountList
  <2> HIDE DEF half
  <2>4. /\ half[L].low < half[L].high =>
             M(half[L]) + 1 \in 1 .. L /\ list[M(half[L]) + 1] = p
        /\ p \in ToSet(list) => half[L].low < half[L].high
    BY <1>1, <1>2, <2>2, Searched
  <2>5. find_MountList(m, p) # 0 =>
          find_MountList(m, p) \in 1 .. L /\ list[find_MountList(m, p)] = p
    BY <2>3, <2>4
  <2>6. p \in ToSet(list) => find_MountList(m, p) # 0
    BY <2>3, <2>4, <1>1
  <2> QED
    BY <1>1, <2>3, <2>4, <2>5, <2>6 DEF ToSet
<1> QED
  BY <1>3, <1>4

\* A list with an element put in after the first a, or with element a taken
\* out, as a function of positions.
LEMMA InsertedAt ==
  ASSUME NEW list \in Seq(Dirs), NEW p \in Dirs, NEW a \in 0 .. Len(list)
  PROVE  LET r == InsertAt(list, a + 1, p)
         IN  /\ r \in Seq(Dirs) /\ Len(r) = Len(list) + 1
             /\ \A i \in 1 .. Len(list) + 1 :
                  r[i] = IF i <= a THEN list[i] ELSE IF i = a + 1 THEN p ELSE list[i - 1]
<1> DEFINE L == Len(list)
           h == SubSeq(list, 1, a)
           t == SubSeq(list, a + 1, L)
           r == InsertAt(list, a + 1, p)
<1>1. L \in Nat /\ a \in Nat /\ a <= L /\ \A i \in 1 .. L : list[i] \in Dirs
  OBVIOUS
<1>2. h \in Seq(Dirs) /\ Len(h) = a /\ \A i \in 1 .. a : h[i] = list[i]
  BY <1>1, SubSeqProperties
<1>3. t \in Seq(Dirs) /\ Len(t) = L - a /\ \A i \in 1 .. (L - a) : t[i] = list[a + i]
  <2>1. \A i \in (a + 1) .. L : list[i] \in Dirs
    BY <1>1
  <2>2. /\ t \in Seq(Dirs) /\ Len(t) = IF a + 1 <= L THEN L - (a + 1) + 1 ELSE 0
        /\ \A i \in 1 .. L - (a + 1) + 1 : t[i] = list[(a + 1) + i - 1]
    BY <1>1, <2>1, SubSeqProperties
  <2> QED
    BY <1>1, <2>2
<1>4. r = (h \o <<p>>) \o t
  <2>1. (a + 1) - 1 = a
    BY <1>1
  <2> QED
    BY <2>1 DEF InsertAt
<1> HIDE DEF h, t, r, L
<1>5. <<p>> \in Seq(Dirs) /\ Len(<<p>>) = 1 /\ <<p>>[1] = p
  OBVIOUS
<1>6. /\ h \o <<p>> \in Seq(Dirs) /\ Len(h \o <<p>>) = a + 1
      /\ \A i \in 1 .. (a + 1) : (h \o <<p>>)[i] = IF i <= a THEN list[i] ELSE p
  <2> HIDE <1>4
  <2> QED
    BY <1>1, <1>2, <1>5
<1>7. /\ r \in Seq(Dirs) /\ Len(r) = (a + 1) + (L - a)
      /\ \A i \in 1 .. (a + 1) + (L - a) :
           r[i] = IF i <= a + 1 THEN (h \o <<p>>)[i] ELSE t[i - (a + 1)]
  <2> DEFINE u == h \o <<p>>
  <2>1. u \in Seq(Dirs) /\ Len(u) = a + 1
    BY <1>6
  <2> HIDE DEF u
  <2>2. /\ u \o t \in Seq(Dirs) /\ Len(u \o t) = Len(u) + Len(t)
        /\ \A i \in 1 .. Len(u) + Len(t) :
             (u \o t)[i] = IF i <= Len(u) THEN u[i] ELSE t[i - Len(u)]
    BY <1>3, <2>1, ConcatProperties
  <2> QED
    BY <1>3, <1>4, <2>1, <2>2 DEF u
<1>8. (a + 1) + (L - a) = L + 1
  BY <1>1
<1>9. \A i \in 1 .. (L + 1) : i > a + 1 => t[i - (a + 1)] = list[i - 1]
  <2> TAKE i \in 1 .. (L + 1)
  <2>1. i > a + 1 => i - (a + 1) \in 1 .. (L - a) /\ a + (i - (a + 1)) = i - 1
    BY <1>1
  <2> QED
    BY <1>3, <2>1
<1>10. \A i \in 1 .. (L + 1) :
         r[i] = IF i <= a THEN list[i] ELSE IF i = a + 1 THEN p ELSE list[i - 1]
  <2> TAKE i \in 1 .. (L + 1)
  <2>1. CASE i <= a
    <3>1. i <= a + 1 /\ i \in 1 .. (a + 1)
      BY <1>1, <2>1
    <3> QED
      BY <1>6, <1>7, <1>8, <2>1, <3>1
  <2>2. CASE i = a + 1
    BY <1>1, <1>6, <1>7, <1>8, <2>2
  <2>3. CASE i > a + 1
    BY <1>1, <1>7, <1>8, <1>9, <2>3
  <2> QED
    BY <1>1, <2>1, <2>2, <2>3
<1> QED
  BY <1>7, <1>8, <1>10 DEF r, L

LEMMA RemovedAt ==
  ASSUME NEW list \in Seq(Dirs), NEW a \in 1 .. Len(list)
  PROVE  LET r == RemoveAt(list, a)
         IN  /\ r \in Seq(Dirs) /\ Len(r) = Len(list) - 1
             /\ \A i \in 1 .. Len(list) - 1 : r[i] = IF i < a THEN list[i] ELSE list[i + 1]
<1> DEFINE L == Len(list)
           h == SubSeq(list, 1, a - 1)
           t == SubSeq(list, a + 1, L)
           r == RemoveAt(list, a)
<1>1. L \in Nat /\ a \in Nat /\ a >= 1 /\ a <= L /\ \A i \in 1 .. L : list[i] \in Dirs
  OBVIOUS
<1>2. h \in Seq(Dirs) /\ Len(h) = a - 1 /\ \A i \in 1 .. (a - 1) : h[i] = list[i]
  <2>1. \A i \in 1 .. (a - 1) : list[i] \in Dirs
    BY <1>1
  <2>2. /\ h \in Seq(Dirs) /\ Len(h) = IF 1 <= a - 1 THEN (a - 1) - 1 + 1 ELSE 0
        /\ \A i \in 1 .. (a - 1) - 1 + 1 : h[i] = list[1 + i - 1]
    BY <1>1, <2>1, SubSeqProperties
  <2> QED
    BY <1>1, <2>2
<1>3. t \in Seq(Dirs) /\ Len(t) = L - a /\ \A i \in 1 .. (L - a) : t[i] = list[a + i]
  <2>1. \A i \in (a + 1) .. L : list[i] \in Dirs
    BY <1>1
  <2>2. /\ t \in Seq(Dirs) /\ Len(t) = IF a + 1 <= L THEN L - (a + 1) + 1 ELSE 0
        /\ \A i \in 1 .. L - (a + 1) + 1 : t[i] = list[(a + 1) + i - 1]
    BY <1>1, <2>1, SubSeqProperties
  <2> QED
    BY <1>1, <2>2
<1>4. r = h \o t
  BY DEF RemoveAt
<1> HIDE DEF h, t, r, L
<1>5. /\ r \in Seq(Dirs) /\ Len(r) = Len(h) + Len(t)
      /\ \A i \in 1 .. Len(h) + Len(t) :
           r[i] = IF i <= Len(h) THEN h[i] ELSE t[i - Len(h)]
  BY <1>2, <1>3, <1>4, ConcatProperties
<1>6. Len(h) + Len(t) = L - 1
  BY <1>1, <1>2, <1>3
<1>7. \A i \in 1 .. (L - 1) : r[i] = IF i < a THEN list[i] ELSE list[i + 1]
  <2> TAKE i \in 1 .. (L - 1)
  <2>1. CASE i < a
    <3>1. i <= Len(h) /\ i \in 1 .. (a - 1)
      BY <1>1, <1>2, <2>1
    <3> QED
      BY <1>2, <1>5, <1>6, <2>1, <3>1
  <2>2. CASE ~(i < a)
    <3>1. ~(i <= Len(h)) /\ i - Len(h) \in 1 .. (L - a) /\ a + (i - Len(h)) = i + 1
      BY <1>1, <1>2, <2>2
    <3> QED
      BY <1>3, <1>5, <1>6, <2>2, <3>1
  <2> QED
    BY <2>1, <2>2
<1> QED
  BY <1>5, <1>6, <1>7 DEF r, L

\* Where insert_MountList puts an entry: after all that are less.
LEMMA PlacedKeeps ==
  ASSUME NEW list \in Seq(Dirs), NEW p \in Dirs, p \notin ToSet(list),
         \A i, j \in DOMAIN list : i < j => Rank[list[i]] < Rank[list[j]]
  PROVE  /\ Placed(list, p) \in Seq(Dirs)
         /\ \A i, j \in DOMAIN Placed(list, p) : i < j =>
              Rank[Placed(list, p)[i]] < Rank[Placed(list, p)[j]]
         /\ ToSet(Placed(list, p)) = ToSet(list) \cup {p}
<1> DEFINE L == Len(list)
           least == {i \in 0 .. L : \A j \in i + 1 .. L : Rank[list[j]] > Rank[p]}
           a == Min(least)
           r == Placed(list, p)
<1>1. L \in Nat /\ DOMAIN list = 1 .. L /\ \A i \in 1 .. L : list[i] \in Dirs /\ list[i] # p
  BY DEF ToSet
<1>2. \A q \in Dirs : Rank[q] \in Nat
  BY MountListAssumption
<1>3. a \in least /\ \A y \in least : a <= y
  <2>1. L \in least /\ least \subseteq Nat
    BY <1>1
  <2> HIDE DEF least
  <2> QED
    BY <2>1, LeastIn
<1>4. r = InsertAt(list, a + 1, p)
  BY DEF Placed
<1> HIDE DEF a, r
<1>5. a \in 0 .. L /\ \A j \in (a + 1) .. L : Rank[list[j]] > Rank[p]
  BY <1>3
<1>6. \A i \in 1 .. a : Rank[list[i]] < Rank[p]
  <2>1. CASE a = 0
    BY <2>1
  <2>2. CASE a # 0
    <3>1. a - 1 \in 0 .. L /\ a \in 1 .. L /\ ~(a <= a - 1)
      BY <1>1, <1>5, <2>2
    <3>2. PICK j \in a - 1 + 1 .. L : ~(Rank[list[j]] > Rank[p])
      BY <1>3, <3>1
    <3>3. j \in a .. L
      BY <3>1, <3>2
    <3>4. j = a
      BY <1>1, <1>5, <3>1, <3>2, <3>3
    <3>5. Rank[list[a]] # Rank[p] /\ Rank[list[a]] \in Nat /\ Rank[p] \in Nat
      BY <1>1, <1>2, <3>1, MountListAssumption
    <3>6. Rank[list[a]] < Rank[p]
      BY <3>2, <3>4, <3>5
    <3> TAKE i \in 1 .. a
    <3>7. i = a \/ (i \in 1 .. L /\ i < a)
      BY <1>1, <3>1
    <3>8. CASE i = a
      BY <3>6, <3>8
    <3>9. CASE i \in 1 .. L /\ i < a
      <4>1. Rank[list[i]] < Rank[list[a]] /\ Rank[list[i]] \in Nat
        BY <1>1, <1>2, <3>1, <3>9
      <4> QED
        BY <3>5, <3>6, <4>1
    <3> QED
      BY <3>7, <3>8, <3>9
  <2> QED
    BY <2>1, <2>2
<1>7. /\ r \in Seq(Dirs) /\ Len(r) = L + 1
      /\ \A i \in 1 .. L + 1 :
           r[i] = IF i <= a THEN list[i] ELSE IF i = a + 1 THEN p ELSE list[i - 1]
  BY <1>4, <1>5, InsertedAt
<1>8. DOMAIN r = 1 .. (L + 1)
  BY <1>7
<1> HIDE DEF L, least
<1>9. ASSUME NEW i \in 1 .. (L + 1), NEW j \in 1 .. (L + 1), i < j
      PROVE  Rank[r[i]] < Rank[r[j]]
  <2>1. CASE j <= a
    <3>1. i <= a /\ i \in 1 .. L /\ j \in 1 .. L
      BY <1>1, <1>5, <1>9, <2>1
    <3> QED
      BY <1>1, <1>7, <1>9, <2>1, <3>1
  <2>2. CASE j = a + 1
    <3>1. i <= a /\ i \in 1 .. a /\ ~(j <= a)
      BY <1>1, <1>5, <1>9, <2>2
    <3> QED
      BY <1>6, <1>7, <2>2, <3>1
  <2>3. CASE j > a + 1
    <3>1. ~(j <= a) /\ j # a + 1 /\ j - 1 \in 1 .. L /\ j - 1 \in (a + 1) .. L
      BY <1>1, <1>5, <1>9, <2>3
    <3>2. r[j] = list[j - 1] /\ Rank[list[j - 1]] > Rank[p]
      BY <1>5, <1>7, <3>1
    <3>3. CASE i <= a
      <4>1. i \in 1 .. L /\ i < j - 1
        BY <1>1, <1>5, <1>9, <2>3, <3>3
      <4> QED
        BY <1>1, <1>7, <3>1, <3>2, <3>3, <4>1
    <3>4. CASE i = a + 1
      <4>1. ~(i <= a) /\ r[i] = p
        BY <1>1, <1>5, <1>7, <3>4
      <4> QED
        BY <1>1, <1>2, <3>1, <3>2, <4>1
    <3>5. CASE i > a + 1
      <4>1. ~(i <= a) /\ i # a + 1 /\ i - 1 \in 1 .. L /\ i - 1 < j - 1
        BY <1>1, <1>5, <1>9, <3>5
      <4>2. r[i] = list[i - 1]
        BY <1>7, <4>1
      <4>3. Rank[list[i - 1]] < Rank[list[j - 1]]
        BY <1>1, <3>1, <4>1
      <4> QED
        BY <3>2, <4>2, <4>3
    <3> QED
      BY <1>1, <1>5, <3>3, <3>4, <3>5
  <2> QED
    BY <1>1, <1>5, <2>1, <2>2, <2>3
<1>10. ToSet(r) = ToSet(list) \cup {p}
  <2>1. ASSUME NEW i \in 1 .. (L + 1) PROVE r[i] \in ToSet(list) \cup {p}
    <3>1. CASE i <= a
      <4>1. i \in 1 .. L /\ r[i] = list[i]
        BY <1>1, <1>5, <1>7, <3>1
      <4> QED
        BY <1>1, <4>1 DEF ToSet
    <3>2. CASE i = a + 1
      <4>1. ~(i <= a)
        BY <1>5, <3>2
      <4>2. r[i] = p
        BY <1>7, <3>2, <4>1
      <4> QED
        BY <4>2
    <3>3. CASE i > a + 1
      <4>1. ~(i <= a) /\ i # a + 1 /\ i - 1 \in 1 .. L
        BY <1>1, <1>5, <3>3
      <4>2. r[i] = list[i - 1]
        BY <1>7, <4>1
      <4> QED
        BY <1>1, <4>1, <4>2 DEF ToSet
    <3> QED
      BY <1>1, <1>5, <3>1, <3>2, <3>3
  <2>2. p \in ToSet(r)
    <3>1. a + 1 \in 1 .. (L + 1) /\ ~(a + 1 <= a)
      BY <1>1, <1>5
    <3> QED
      BY <1>7, <1>8, <3>1 DEF ToSet
  <2>3. ASSUME NEW i \in 1 .. L PROVE list[i] \in ToSet(r)
    <3>1. CASE i <= a
      <4>1. i \in 1 .. (L + 1) /\ r[i] = list[i]
        BY <1>1, <1>5, <1>7, <3>1
      <4> QED
        BY <1>8, <4>1 DEF ToSet
    <3>2. CASE ~(i <= a)
      <4>1. i + 1 \in 1 .. (L + 1) /\ ~(i + 1 <= a) /\ i + 1 # a + 1 /\ (i + 1) - 1 = i
        BY <1>1, <1>5, <3>2
      <4>2. r[i + 1] = list[i]
        BY <1>7, <4>1
      <4> QED
        BY <1>8, <4>1, <4>2 DEF ToSet
    <3> QED
      BY <3>1, <3>2
  <2> QED
    BY <1>1, <1>8, <2>1, <2>2, <2>3 DEF ToSet
<1> QED
  BY <1>7, <1>8, <1>9, <1>10 DEF r

\* insert_MountList into a list that is not in reverse order.
LEMMA InsertKeeps ==
  ASSUME NEW m, InOrder(m), m.sorted # "reverse", NEW p \in Dirs
  PROVE  LET r == insert_MountList(m, p)
         IN  InOrder(r) /\ r.sorted = "forward" /\ ToSet(r.list) = ToSet(m.list) \cup {p}
<1> DEFINE n == [list |-> m.list, sorted |-> "forward"]
           r == insert_MountList(m, p)
           sorted == IF m = [list |-> <<>>, sorted |-> "unsorted"] THEN "forward" ELSE m.sorted
<1>1. m \in MountLists /\ m = [list |-> m.list, sorted |-> m.sorted]
  BY DEF InOrder, MountLists
<1>2. sorted = "forward"
  BY <1>1 DEF InOrder, MountLists
<1>3. [m EXCEPT !.sorted = sorted] = n
  BY <1>1, <1>2
<1>4. /\ n \in MountLists /\ n.list \in Seq(Dirs) /\ n.sorted = "forward" /\ n.list = m.list
      /\ m.sorted = "forward" \/ m.list = <<>>
  BY <1>1 DEF InOrder, MountLists
<1>5. InOrder(n)
  <2>1. CASE m.sorted = "forward"
    BY <1>1, <2>1
  <2>2. CASE m.list = <<>>
    BY <1>4, <2>2 DEF InOrder
  <2> QED
    BY <1>4, <2>1, <2>2
<1>9. r = IF find_MountList([m EXCEPT !.sorted = sorted], p) # 0 THEN [m EXCEPT !.sorted = sorted]
          ELSE IF m.list = <<>> THEN [list |-> <<p>>, sorted |-> sorted]
          ELSE IF sorted = "forward" THEN [m EXCEPT !.list = Placed(@, p)]
          ELSE setSort_MountList([m EXCEPT !.list = Append(@, p)], "forward")
  BY DEF insert_MountList
<1> HIDE DEF n, r, sorted
<1>6. CASE find_MountList(n, p) # 0
  <2>1. r = n
    BY <1>3, <1>6, <1>9
  <2>2. p \in ToSet(n.list)
    BY <1>5, <1>6, FindFinds
  <2> QED
    BY <1>4, <1>5, <2>1, <2>2 DEF r
<1>7. CASE find_MountList(n, p) = 0 /\ m.list = <<>>
  <2>1. r = [list |-> <<p>>, sorted |-> "forward"]
    BY <1>2, <1>3, <1>7, <1>9
  <2>2. InOrder(r)
    BY <2>1 DEF InOrder, MountLists
  <2>3. ToSet(<<p>>) = {p} /\ ToSet(m.list) = {}
    BY <1>7 DEF ToSet
  <2> QED
    BY <2>1, <2>2, <2>3 DEF r
<1>8. CASE find_MountList(n, p) = 0 /\ m.list # <<>>
  <2> DEFINE l == Placed(m.list, p)
  <2>1. m.sorted = "forward"
    BY <1>4, <1>8
  <2>2. r = [m EXCEPT !.list = l]
    BY <1>2, <1>3, <1>8, <1>9
  <2>3. r = [list |-> l, sorted |-> "forward"]
    BY <1>1, <2>1, <2>2
  <2>4. p \notin ToSet(m.list)
    BY <1>4, <1>5, <1>8, FindFinds
  <2>5. \A i, j \in DOMAIN m.list : i < j => Rank[m.list[i]] < Rank[m.list[j]]
    BY <2>1 DEF InOrder, Before
  <2>6. /\ l \in Seq(Dirs)
        /\ \A i, j \in DOMAIN l : i < j => Rank[l[i]] < Rank[l[j]]
        /\ ToSet(l) = ToSet(m.list) \cup {p}
    BY <1>4, <2>4, <2>5, PlacedKeeps
  <2> HIDE DEF l
  <2>7. InOrder(r)
    BY <2>3, <2>6 DEF InOrder, MountLists, Before
  <2> QED
    BY <2>3, <2>6, <2>7 DEF r
<1> QED
  BY <1>6, <1>7, <1>8 DEF r

\* remove_MountList takes out what it is told to and nothing else.
LEMMA RemoveKeeps ==
  ASSUME NEW m, InOrder(m), NEW p \in Dirs
  PROVE  LET r == remove_MountList(m, p)
         IN  InOrder(r) /\ r.sorted = m.sorted /\ ToSet(r.list) = ToSet(m.list) \ {p}
<1> DEFINE a == find_MountList(m, p)
           r == remove_MountList(m, p)
           list == m.list
           L == Len(list)
<1>1. /\ list \in Seq(Dirs) /\ L \in Nat /\ DOMAIN list = 1 .. L /\ m \in MountLists
      /\ \A i \in 1 .. L : list[i] \in Dirs
  BY DEF InOrder, MountLists
<1>2. a \in 0 .. L /\ (a # 0 <=> p \in ToSet(list)) /\ (a # 0 => list[a] = p)
  BY FindFinds
<1> HIDE DEF a
<1>3. CASE a = 0
  <2>1. r = m
    BY <1>3 DEF remove_MountList, a
  <2> QED
    BY <1>2, <1>3, <2>1
<1>4. CASE a # 0
  <2> DEFINE l == RemoveAt(list, a)
  <2>1. r = [m EXCEPT !.list = l]
    BY <1>4 DEF remove_MountList, a
  <2>2. r = [list |-> l, sorted |-> m.sorted]
    BY <1>1, <2>1 DEF MountLists
  <2>3. a \in 1 .. L
    BY <1>1, <1>2, <1>4
  <2>4. /\ l \in Seq(Dirs) /\ Len(l) = L - 1
        /\ \A i \in 1 .. L - 1 : l[i] = IF i < a THEN list[i] ELSE list[i + 1]
    BY <1>1, <2>3, RemovedAt
  <2>5. DOMAIN l = 1 .. (L - 1)
    BY <2>4
  <2> HIDE DEF l, r
  <2>6. \A i, j \in 1 .. L : i < j => Before(m.sorted, list[i], list[j])
    BY <1>1 DEF InOrder
  <2> HIDE DEF L, list
  <2>7. \A i, j \in DOMAIN l : i < j => Before(m.sorted, l[i], l[j])
    <3>1. ASSUME NEW i \in 1 .. (L - 1), NEW j \in 1 .. (L - 1), i < j
          PROVE  Before(m.sorted, l[i], l[j])
      <4>1. i \in 1 .. L /\ j \in 1 .. L /\ i + 1 \in 1 .. L /\ j + 1 \in 1 .. L
        BY <1>1
      <4>2. i + 1 < j + 1 /\ i < j + 1 /\ (j < a => i < a)
        BY <1>1, <2>3, <3>1
      <4>3. CASE j < a
        BY <2>4, <2>6, <3>1, <4>1, <4>2, <4>3
      <4>4. CASE ~(j < a) /\ i < a
        BY <2>4, <2>6, <3>1, <4>1, <4>2, <4>4
      <4>5. CASE ~(j < a) /\ ~(i < a)
        BY <2>4, <2>6, <3>1, <4>1, <4>2, <4>5
      <4> QED
        BY <4>2, <4>3, <4>4, <4>5
    <3> QED
      BY <2>5, <3>1
  <2>8. ToSet(l) = ToSet(list) \ {p}
    <3>1. ASSUME NEW i \in 1 .. (L - 1) PROVE l[i] \in ToSet(list) \ {p}
      <4>1. i \in 1 .. L /\ i + 1 \in 1 .. L /\ i < i + 1
        BY <1>1
      <4>2. CASE i < a
        <5>1. l[i] = list[i] /\ Before(m.sorted, list[i], list[a])
          BY <2>3, <2>4, <2>6, <4>1, <4>2
        <5> QED
          BY <1>1, <1>2, <1>4, <4>1, <5>1, BeforeIsOrder DEF ToSet
      <4>3. CASE ~(i < a)
        <5>1. a < i + 1
          BY <2>3, <1>1, <4>3
        <5>2. l[i] = list[i + 1] /\ Before(m.sorted, list[a], list[i + 1])
          BY <2>3, <2>4, <2>6, <4>1, <4>3, <5>1
        <5> QED
          BY <1>1, <1>2, <1>4, <4>1, <5>2, BeforeIsOrder DEF ToSet
      <4> QED
        BY <4>2, <4>3
    <3>2. ASSUME NEW i \in 1 .. L, list[i] # p PROVE list[i] \in ToSet(l)
      <4>1. i # a
        BY <1>2, <1>4, <3>2
      <4>2. CASE i < a
        <5>1. i \in 1 .. (L - 1) /\ l[i] = list[i]
          BY <1>1, <2>3, <2>4, <4>2
        <5> QED
          BY <2>5, <5>1 DEF ToSet
      <4>3. CASE i > a
        <5>1. i - 1 \in 1 .. (L - 1) /\ ~(i - 1 < a) /\ (i - 1) + 1 = i
          BY <1>1, <2>3, <4>3
        <5>2. l[i - 1] = list[i]
          BY <2>4, <5>1
        <5> QED
          BY <2>5, <5>1, <5>2 DEF ToSet
      <4> QED
        BY <1>1, <2>3, <4>1, <4>2, <4>3
    <3> QED
      BY <1>1, <2>5, <3>1, <3>2 DEF ToSet
  <2>9. InOrder(r)
    <3>1. m.sorted = "unsorted" => l = <<>>
      BY <1>2, <1>4, <1>1 DEF InOrder, ToSet, list
    <3> QED
      BY <1>1, <2>2, <2>4, <2>7, <3>1 DEF InOrder, MountLists
  <2> QED
    BY <2>2, <2>8, <2>9 DEF list, r
<1> QED
  BY <1>3, <1>4

\* setSort_MountList turns a sorted list round.
LEMMA SortKeeps ==
  ASSUME NEW m, InOrder(m), NEW sorted \in {"unsorted", "forward", "reverse"},
         m.sorted # "unsorted"
  PROVE  LET r == setSort_MountList(m, sorted)
         IN  /\ InOrder(r) /\ ToSet(r.list) = ToSet(m.list)
             /\ r.sorted = IF sorted = "unsorted" THEN m.sorted ELSE sorted
<1> DEFINE r == setSort_MountList(m, sorted)
           list == m.list
           L == Len(list)
           l == Reverse(list)
<1>1. /\ list \in Seq(Dirs) /\ L \in Nat /\ DOMAIN list = 1 .. L /\ m \in MountLists
      /\ \A i \in 1 .. L : list[i] \in Dirs
  BY DEF InOrder, MountLists
<1>2. CASE sorted = "unsorted" \/ m.sorted = sorted
  BY <1>2 DEF setSort_MountList
<1>3. CASE ~(sorted = "unsorted" \/ m.sorted = sorted)
  <2>1. r = [list |-> l, sorted |-> sorted]
    BY <1>3 DEF setSort_MountList
  <2>2. l \in Seq(Dirs) /\ DOMAIN l = 1 .. L /\ \A i \in 1 .. L : l[i] = list[(L - i) + 1]
    <3>1. l = [i \in 1 .. L |-> list[(L - i) + 1]]
      BY DEF Reverse
    <3>2. \A i \in 1 .. L : (L - i) + 1 \in 1 .. L
      BY <1>1
    <3> HIDE DEF l, L
    <3>3. l \in [1 .. L -> Dirs]
      BY <1>1, <3>1, <3>2
    <3> QED
      BY <1>1, <3>1, <3>3
  <2> HIDE DEF l, r
  <2>3. \A i, j \in 1 .. L : i < j => Before(sorted, l[i], l[j])
    <3>1. SUFFICES ASSUME NEW i \in 1 .. L, NEW j \in 1 .. L, i < j
                   PROVE  Before(sorted, l[i], l[j])
      OBVIOUS
    <3> DEFINE a == (L - i) + 1
               b == (L - j) + 1
    <3>2. a \in 1 .. L /\ b \in 1 .. L /\ b < a
      BY <1>1, <3>1
    <3>3. l[i] = list[a] /\ l[j] = list[b]
      BY <2>2
    <3> HIDE DEF a, b, L, list
    <3>4. Before(m.sorted, list[b], list[a])
      BY <1>1, <3>2 DEF InOrder, list
    <3>5. m.sorted \in {"forward", "reverse"} /\ sorted \in {"forward", "reverse"} /\ m.sorted # sorted
      BY <1>1, <1>3 DEF MountLists
    <3>6. Rank[list[a]] \in Nat /\ Rank[list[b]] \in Nat
      BY <1>1, <3>2, MountListAssumption
    <3> QED
      BY <3>3, <3>4, <3>5, <3>6 DEF Before
  <2>4. ToSet(l) = ToSet(list)
    <3>1. \A i \in 1 .. L : (L - i) + 1 \in 1 .. L /\ (L - ((L - i) + 1)) + 1 = i
      BY <1>1
    <3>2. \A i \in 1 .. L : l[i] \in ToSet(list)
      BY <1>1, <2>2, <3>1 DEF ToSet
    <3>3. \A i \in 1 .. L : list[i] \in ToSet(l)
      <4> TAKE i \in 1 .. L
      <4>1. l[(L - i) + 1] = list[i]
        BY <2>2, <3>1
      <4> QED
        BY <2>2, <3>1, <4>1 DEF ToSet
    <3> QED
      BY <1>1, <2>2, <3>2, <3>3 DEF ToSet
  <2> QED
    BY <1>3, <2>1, <2>2, <2>3, <2>4 DEF InOrder, MountLists, r
<1> QED
  BY <1>2, <1>3

-----------------------------------------------------------------------------
(* The kernel: what is left without some mounts.                           *)

\* The sequence that Without builds up, mount by mount.
Left(k, gone, f) ==
  /\ f \in [0 .. Len(k) -> Seq(Dirs)]
  /\ f[0] = <<>>
  /\ \A i \in 1 .. Len(k) : f[i] = IF i \in gone THEN f[i - 1] ELSE Append(f[i - 1], k[i])

LEMMA WithoutIs ==
  ASSUME NEW k \in Seq(Dirs), NEW gone
  PROVE  \E f : Left(k, gone, f) /\ Without(k, gone) = f[Len(k)]
<1> DEFINE N == Len(k)
           X == Seq(Dirs)
           z == <<>>
           g == [i \in 1 .. N |-> [s \in X |-> IF i \in gone THEN s ELSE Append(s, k[i])]]
           H(rest) == [i \in 0 .. N |->
             IF i = 0 THEN <<>> ELSE IF i \in gone THEN rest[i - 1] ELSE Append(rest[i - 1], k[i])]
           rest == CHOOSE l : l = H(l)
<1>1. N \in Nat /\ z \in X /\ \A i \in 1 .. N : k[i] \in Dirs
  OBVIOUS
<1>2. \A i \in 1 .. N : \A s \in X : g[i][s] = IF i \in gone THEN s ELSE Append(s, k[i])
  OBVIOUS
<1>3. g \in [1 .. N -> [X -> X]]
  <2>1. \A i \in 1 .. N : \A s \in X : (IF i \in gone THEN s ELSE Append(s, k[i])) \in X
    BY <1>1
  <2> HIDE DEF X, N
  <2> QED
    BY <2>1
<1>4. Without(k, gone) = rest[N]
  BY DEF Without
<1> HIDE DEF g, X, z, N, H, rest
<1>5. PICK f \in [0 .. N -> X] : f[0] = z /\ \A i \in 1 .. N : f[i] = g[i][f[i - 1]]
  <2>1. N \in Nat /\ z \in X
    BY <1>1
  <2> QED
    <3>1. PICK f : Rounds(X, z, N, g, f)
      BY <2>1, <1>3, RoundsExist
    <3> QED
      BY <3>1 DEF Rounds
<1>6. \A i \in 1 .. N : f[i] = IF i \in gone THEN f[i - 1] ELSE Append(f[i - 1], k[i])
  <2> TAKE i \in 1 .. N
  <2>1. i - 1 \in 0 .. N
    BY <1>1
  <2> QED
    BY <1>2, <1>5, <2>1
<1>7. f = H(f)
  <2>1. \A i \in 0 .. N :
          f[i] = IF i = 0 THEN z ELSE IF i \in gone THEN f[i - 1] ELSE Append(f[i - 1], k[i])
    <3> TAKE i \in 0 .. N
    <3>1. i = 0 \/ (i # 0 /\ i \in 1 .. N)
      BY <1>1
    <3> QED
      BY <1>5, <1>6, <3>1
  <2>2. f = [i \in 0 .. N |-> f[i]]
    BY <1>5
  <2> QED
    BY <2>1, <2>2 DEF H, z
<1>8. rest = H(rest)
  BY <1>7 DEF rest
<1>9. /\ rest[0] = z
      /\ \A i \in 1 .. N : rest[i] = IF i \in gone THEN rest[i - 1] ELSE Append(rest[i - 1], k[i])
  <2>1. \A i \in 0 .. N :
          rest[i] = IF i = 0 THEN z ELSE IF i \in gone THEN rest[i - 1] ELSE Append(rest[i - 1], k[i])
    BY <1>8 DEF H, z
  <2>2. 0 \in 0 .. N /\ \A i \in 1 .. N : i \in 0 .. N /\ i # 0
    BY <1>1
  <2> QED
    BY <2>1, <2>2
<1>10. \A i \in 0 .. N : rest[i] = f[i]
  <2> DEFINE S == {i \in Nat : rest[i] = f[i]}
  <2>1. 0 \in S
    BY <1>5, <1>9
  <2>2. \A i \in 0 .. (N - 1) : i \in S => i + 1 \in S
    <3> TAKE i \in 0 .. (N - 1)
    <3>1. i + 1 \in 1 .. N /\ (i + 1) - 1 = i /\ i + 1 \in Nat
      BY <1>1
    <3> QED
      BY <1>6, <1>9, <3>1
  <2> HIDE DEF S
  <2>3. 0 .. N \subseteq S
    BY <1>1, <2>1, <2>2, NumberInductionTo
  <2> QED
    BY <2>3 DEF S
<1>11. Left(k, gone, f)
  BY <1>5, <1>6 DEF Left, X, z, N
<1> QED
  BY <1>1, <1>4, <1>10, <1>11 DEF N

\* The same from the same mounts.
LEMMA LeftAgree ==
  ASSUME NEW k, NEW l, NEW gone, NEW lost, NEW f, NEW h, NEW n \in Nat,
         Left(k, gone, f), Left(l, lost, h),
         Len(k) \in Nat, Len(l) \in Nat, n <= Len(k), n <= Len(l),
         \A i \in 1 .. n : k[i] = l[i] /\ (i \in gone <=> i \in lost)
  PROVE  f[n] = h[n]
<1> DEFINE S == {i \in Nat : f[i] = h[i]}
<1>1. 0 \in S
  BY DEF Left
<1>2. \A i \in 0 .. (n - 1) : i \in S => i + 1 \in S
  <2> TAKE i \in 0 .. (n - 1)
  <2>1. /\ i + 1 \in 1 .. n /\ i + 1 \in 1 .. Len(k) /\ i + 1 \in 1 .. Len(l)
        /\ (i + 1) - 1 = i /\ i + 1 \in Nat
    OBVIOUS
  <2>2. /\ f[i + 1] = IF i + 1 \in gone THEN f[i] ELSE Append(f[i], k[i + 1])
        /\ h[i + 1] = IF i + 1 \in lost THEN h[i] ELSE Append(h[i], l[i + 1])
    BY <2>1 DEF Left
  <2>3. k[i + 1] = l[i + 1] /\ (i + 1 \in gone <=> i + 1 \in lost)
    BY <2>1
  <2> QED
    BY <2>1, <2>2, <2>3
<1> HIDE DEF S
<1>3. 0 .. n \subseteq S
  BY <1>1, <1>2, NumberInductionTo
<1> QED
  BY <1>3 DEF S

LEMMA WithoutAppend ==
  ASSUME NEW k \in Seq(Dirs), NEW p \in Dirs, NEW gone
  PROVE  Without(Append(k, p), gone) =
           IF Len(k) + 1 \in gone THEN Without(k, gone) ELSE Append(Without(k, gone), p)
<1> DEFINE l == Append(k, p)
           N == Len(k)
<1>1. /\ l \in Seq(Dirs) /\ N \in Nat /\ Len(l) = N + 1 /\ l[N + 1] = p
      /\ \A i \in 1 .. N : l[i] = k[i]
  OBVIOUS
<1> HIDE DEF l
<1>2. PICK f : Left(k, gone, f) /\ Without(k, gone) = f[N]
  BY WithoutIs
<1>3. PICK h : Left(l, gone, h) /\ Without(l, gone) = h[N + 1]
  BY <1>1, WithoutIs
<1>4. f[N] = h[N]
  <2>1. /\ Len(k) \in Nat /\ Len(l) \in Nat /\ N <= Len(k) /\ N <= Len(l)
        /\ \A i \in 1 .. N : k[i] = l[i] /\ (i \in gone <=> i \in gone)
    BY <1>1
  <2> HIDE DEF N
  <2> QED
    BY <1>1, <1>2, <1>3, <2>1, LeftAgree
<1>5. h[N + 1] = IF N + 1 \in gone THEN h[N] ELSE Append(h[N], p)
  <2>1. N + 1 \in 1 .. Len(l) /\ (N + 1) - 1 = N
    BY <1>1
  <2> QED
    BY <1>1, <1>3, <2>1 DEF Left
<1> QED
  BY <1>2, <1>3, <1>4, <1>5 DEF l

LEMMA WithoutSame ==
  ASSUME NEW k \in Seq(Dirs), NEW gone, NEW lost,
         \A i \in 1 .. Len(k) : i \in gone <=> i \in lost
  PROVE  Without(k, gone) = Without(k, lost)
<1>1. Len(k) \in Nat
  OBVIOUS
<1>2. PICK f : Left(k, gone, f) /\ Without(k, gone) = f[Len(k)]
  BY WithoutIs
<1>3. PICK h : Left(k, lost, h) /\ Without(k, lost) = h[Len(k)]
  BY WithoutIs
<1>4. f[Len(k)] = h[Len(k)]
  <2> DEFINE n == Len(k)
  <2>1. n <= Len(k) /\ \A i \in 1 .. n : k[i] = k[i] /\ (i \in gone <=> i \in lost)
    BY <1>1
  <2>2. n \in Nat
    BY <1>1
  <2> HIDE DEF n
  <2>3. f[n] = h[n]
    BY <1>1, <1>2, <1>3, <2>1, <2>2, LeftAgree
  <2> QED
    BY <2>3 DEF n
<1> QED
  BY <1>2, <1>3, <1>4

LEMMA WithoutNone ==
  ASSUME NEW gone
  PROVE  Without(<<>>, gone) = <<>>
<1>1. <<>> \in Seq(Dirs) /\ Len(<<>>) = 0
  OBVIOUS
<1>2. PICK f : Left(<<>>, gone, f) /\ Without(<<>>, gone) = f[Len(<<>>)]
  BY <1>1, WithoutIs
<1> QED
  BY <1>1, <1>2 DEF Left

\* What is left are the mounts at the other positions.
LEMMA WithoutKeeps ==
  ASSUME NEW k \in Seq(Dirs), NEW gone
  PROVE  /\ Without(k, gone) \in Seq(Dirs)
         /\ ToSet(Without(k, gone)) = {k[i] : i \in DOMAIN k \ gone}
         /\ IsInjective(k) => IsInjective(Without(k, gone))
         /\ Len(Without(k, gone)) <= Len(k)
         /\ (\E i \in DOMAIN k : i \in gone) => Len(Without(k, gone)) < Len(k)
<1> DEFINE N == Len(k)
<1>1. N \in Nat /\ DOMAIN k = 1 .. N /\ \A i \in 1 .. N : k[i] \in Dirs
  OBVIOUS
<1>2. PICK f : Left(k, gone, f) /\ Without(k, gone) = f[N]
  BY WithoutIs
<1> HIDE DEF N
<1>3. f \in [0 .. N -> Seq(Dirs)]
  BY <1>2 DEF Left, N
<1> DEFINE Some(n) == \E i \in 1 .. n : i \in gone
           Inv(n, s) == /\ s \in Seq(Dirs)
                        /\ ToSet(s) = {k[i] : i \in (1 .. n) \ gone}
                        /\ IsInjective(k) => IsInjective(s)
                        /\ Len(s) <= n
                        /\ Some(n) => Len(s) < n
           S == {n \in Nat : n <= N => Inv(n, f[n])}
<1>4. Inv(0, <<>>)
  BY DEF ToSet, IsInjective
<1>5. ASSUME NEW n \in 0 .. (N - 1), NEW s, Inv(n, s)
      PROVE  Inv(n + 1, IF n + 1 \in gone THEN s ELSE Append(s, k[n + 1]))
  <2> DEFINE x == k[n + 1]
             t == Append(s, x)
  <2>1. n + 1 \in 1 .. N /\ n \in Nat /\ x \in Dirs
    BY <1>1
  <2>2. CASE n + 1 \in gone
    <3>1. (1 .. (n + 1)) \ gone = (1 .. n) \ gone
      BY <2>1, <2>2
    <3>2. Len(s) \in Nat /\ Len(s) <= n + 1 /\ Len(s) < n + 1
      BY <1>5, <2>1
    <3> QED
      BY <1>5, <2>2, <3>1, <3>2
  <2>3. CASE n + 1 \notin gone
    <3>1. (1 .. (n + 1)) \ gone = ((1 .. n) \ gone) \cup {n + 1}
      BY <2>1, <2>3
    <3>2. /\ t \in Seq(Dirs) /\ Len(t) = Len(s) + 1 /\ t[Len(s) + 1] = x /\ Len(s) \in Nat
          /\ \A i \in 1 .. Len(s) : t[i] = s[i]
      BY <1>5, <2>1
    <3>3. DOMAIN s = 1 .. Len(s) /\ DOMAIN t = 1 .. (Len(s) + 1)
      BY <1>5, <3>2
    <3> HIDE DEF t, x
    <3>4. ToSet(t) = ToSet(s) \cup {x}
      <4>1. \A i \in 1 .. (Len(s) + 1) : i \in 1 .. Len(s) \/ i = Len(s) + 1
        BY <3>2
      <4>2. 1 .. Len(s) \subseteq 1 .. (Len(s) + 1) /\ Len(s) + 1 \in 1 .. (Len(s) + 1)
        BY <3>2
      <4> QED
        BY <3>2, <3>3, <4>1, <4>2 DEF ToSet
    <3>5. ToSet(t) = {k[i] : i \in (1 .. (n + 1)) \ gone}
      BY <1>5, <3>1, <3>4 DEF x
    <3>6. IsInjective(k) => IsInjective(t)
      <4> SUFFICES ASSUME IsInjective(k) PROVE IsInjective(t)
        OBVIOUS
      <4>1. x \notin ToSet(s)
        <5>1. \A i \in (1 .. n) \ gone : k[i] # k[n + 1]
          BY <1>1, <2>1 DEF IsInjective
        <5> QED
          BY <1>5, <5>1 DEF x
      <4>2. IsInjective(s)
        BY <1>5
      <4>3. ASSUME NEW a \in 1 .. (Len(s) + 1), NEW b \in 1 .. (Len(s) + 1), t[a] = t[b]
            PROVE  a = b
        <5>1. (a \in 1 .. Len(s) \/ a = Len(s) + 1) /\ (b \in 1 .. Len(s) \/ b = Len(s) + 1)
          BY <3>2
        <5>2. CASE a \in 1 .. Len(s) /\ b \in 1 .. Len(s)
          BY <3>2, <3>3, <4>2, <4>3, <5>2 DEF IsInjective
        <5>3. CASE a \in 1 .. Len(s) /\ b = Len(s) + 1
          BY <3>2, <3>3, <4>1, <4>3, <5>3 DEF ToSet
        <5>4. CASE b \in 1 .. Len(s) /\ a = Len(s) + 1
          BY <3>2, <3>3, <4>1, <4>3, <5>4 DEF ToSet
        <5> QED
          BY <5>1, <5>2, <5>3, <5>4
      <4> QED
        BY <3>3, <4>3 DEF IsInjective
    <3>7. Len(t) <= n + 1 /\ (Some(n + 1) => Len(t) < n + 1)
      <4>1. Some(n + 1) => Some(n)
        BY <2>1, <2>3
      <4> HIDE DEF Some
      <4> QED
        BY <1>5, <2>1, <3>2, <4>1
    <3> QED
      BY <2>3, <3>2, <3>5, <3>6, <3>7 DEF t, x
  <2> QED
    BY <2>2, <2>3
<1>6. \A n \in 0 .. (N - 1) : n \in S => n + 1 \in S
  <2> TAKE n \in 0 .. (N - 1)
  <2>1. n + 1 \in 1 .. N /\ (n + 1) - 1 = n /\ n <= N /\ n + 1 \in Nat
    BY <1>1
  <2>2. f[n + 1] = IF n + 1 \in gone THEN f[n] ELSE Append(f[n], k[n + 1])
    BY <1>2, <2>1 DEF Left, N
  <2> HIDE DEF Inv
  <2> QED
    BY <1>5, <2>1, <2>2
<1>7. 0 \in S
  <2>1. f[0] = <<>>
    BY <1>2 DEF Left
  <2> HIDE DEF Inv
  <2> QED
    BY <1>4, <2>1
<1> HIDE DEF S
<1>8. 0 .. N \subseteq S
  BY <1>1, <1>6, <1>7, NumberInductionTo
<1>9. N \in S
  BY <1>1, <1>8
<1>10. Inv(N, f[N])
  BY <1>1, <1>9 DEF S
<1> QED
  BY <1>1, <1>2, <1>10 DEF N

\* What is mounted elsewhere than below base, in its order.
Outside(base, k) == Without(k, {i \in DOMAIN k : IsBelow(base, k[i])})

LEMMA OutsideAppend ==
  ASSUME NEW k \in Seq(Dirs), NEW p \in Dirs, NEW base
  PROVE  Outside(base, Append(k, p)) =
           IF IsBelow(base, p) THEN Outside(base, k) ELSE Append(Outside(base, k), p)
<1> DEFINE l == Append(k, p)
           gone == {i \in DOMAIN l : IsBelow(base, l[i])}
           lost == {i \in DOMAIN k : IsBelow(base, k[i])}
           N == Len(k)
<1>1. N \in Nat /\ DOMAIN k = 1 .. N /\ DOMAIN l = 1 .. (N + 1) /\ l[N + 1] = p
      /\ \A i \in 1 .. N : l[i] = k[i] /\ i \in 1 .. (N + 1)
  OBVIOUS
<1>2. N + 1 \in gone <=> IsBelow(base, p)
  BY <1>1
<1>3. \A i \in 1 .. N : i \in gone <=> i \in lost
  BY <1>1
<1>4. Outside(base, l) = Without(l, gone) /\ Outside(base, k) = Without(k, lost)
  BY DEF Outside
<1> HIDE DEF gone, lost, l
<1>5. Without(k, gone) = Without(k, lost)
  BY <1>3, WithoutSame
<1>6. Without(l, gone) = IF N + 1 \in gone THEN Without(k, gone) ELSE Append(Without(k, gone), p)
  BY WithoutAppend DEF l
<1> QED
  BY <1>2, <1>4, <1>5, <1>6 DEF l

\* Taking away what is below base does not show outside.
LEMMA OutsideWithout ==
  ASSUME NEW k \in Seq(Dirs), NEW gone, NEW base,
         \A i \in DOMAIN k : i \in gone => IsBelow(base, k[i])
  PROVE  Outside(base, Without(k, gone)) = Outside(base, k)
<1> DEFINE N == Len(k)
           lost == {i \in DOMAIN k : IsBelow(base, k[i])}
<1>1. N \in Nat /\ DOMAIN k = 1 .. N /\ \A i \in 1 .. N : k[i] \in Dirs
  OBVIOUS
<1>2. PICK f : Left(k, gone, f) /\ Without(k, gone) = f[N]
  BY WithoutIs
<1>3. PICK o : Left(k, lost, o) /\ Without(k, lost) = o[N]
  BY WithoutIs
<1>4. \A i \in 1 .. N : (i \in lost <=> IsBelow(base, k[i])) /\ (i \in gone => i \in lost)
  BY <1>1
<1> HIDE DEF lost, N
<1> DEFINE S == {n \in Nat : n <= N => Outside(base, f[n]) = o[n]}
<1>5. 0 \in S
  <2>1. f[0] = <<>> /\ o[0] = <<>>
    BY <1>2, <1>3 DEF Left
  <2>2. Outside(base, <<>>) = <<>>
    BY WithoutNone DEF Outside
  <2> QED
    BY <2>1, <2>2
<1>6. \A n \in 0 .. (N - 1) : n \in S => n + 1 \in S
  <2> SUFFICES ASSUME NEW n \in 0 .. (N - 1), n \in S PROVE n + 1 \in S
    OBVIOUS
  <2>1. n + 1 \in 1 .. N /\ (n + 1) - 1 = n /\ n <= N /\ n + 1 \in Nat /\ n \in 0 .. N
    BY <1>1
  <2>2. /\ f[n + 1] = IF n + 1 \in gone THEN f[n] ELSE Append(f[n], k[n + 1])
        /\ o[n + 1] = IF n + 1 \in lost THEN o[n] ELSE Append(o[n], k[n + 1])
        /\ f[n] \in Seq(Dirs)
    BY <1>2, <1>3, <2>1 DEF Left, N
  <2>3. Outside(base, f[n]) = o[n]
    BY <2>1
  <2>4. k[n + 1] \in Dirs
    BY <1>1, <2>1
  <2>5. Outside(base, Append(f[n], k[n + 1])) =
          IF IsBelow(base, k[n + 1]) THEN Outside(base, f[n]) ELSE Append(Outside(base, f[n]), k[n + 1])
    BY <2>2, <2>4, OutsideAppend
  <2>6. Outside(base, f[n + 1]) = o[n + 1]
    BY <1>4, <2>1, <2>2, <2>3, <2>5
  <2> QED
    BY <2>1, <2>6
<1> HIDE DEF S
<1>7. 0 .. N \subseteq S
  BY <1>1, <1>5, <1>6, NumberInductionTo
<1>8. N \in S
  BY <1>1, <1>7
<1>9. Outside(base, f[N]) = o[N]
  BY <1>1, <1>8 DEF S
<1> QED
  BY <1>2, <1>3, <1>9 DEF Outside, lost

LEMMA LatestIs ==
  ASSUME NEW k \in Seq(Dirs), NEW p \in ToSet(k)
  PROVE  Latest(k, p) \in DOMAIN k /\ k[Latest(k, p)] = p
<1> DEFINE S == {i \in DOMAIN k : k[i] = p}
<1>1. S \subseteq Nat /\ S # {} /\ Len(k) \in Nat /\ \A y \in S : y <= Len(k)
  BY DEF ToSet
<1>2. Latest(k, p) = Max(S)
  BY DEF Latest
<1> HIDE DEF S
<1>3. Max(S) \in S
  BY <1>1, GreatestIn
<1> QED
  BY <1>2, <1>3 DEF S

LEMMA DetachKeeps ==
  ASSUME NEW k \in Seq(Dirs), NEW p \in Dirs
  PROVE  /\ Detach(k, p) \in Seq(Dirs)
         /\ IsInjective(k) => IsInjective(Detach(k, p))
         /\ Len(Detach(k, p)) <= Len(k)
         /\ p \in ToSet(k) => Len(Detach(k, p)) < Len(k)
         /\ \A base \in Dirs : IsBelow(base, p) => Outside(base, Detach(k, p)) = Outside(base, k)
<1> DEFINE gone == {i \in Latest(k, p) .. Len(k) : IsBelow(p, k[i])}
<1>1. Detach(k, p) = Without(k, gone)
  BY DEF Detach
<1>2. p \in ToSet(k) => \E i \in DOMAIN k : i \in gone
  <2> SUFFICES ASSUME p \in ToSet(k) PROVE \E i \in DOMAIN k : i \in gone
    OBVIOUS
  <2>1. Latest(k, p) \in 1 .. Len(k) /\ k[Latest(k, p)] = p /\ Latest(k, p) \in DOMAIN k
    BY LatestIs
  <2>2. IsBelow(p, p)
    BY MountListAssumption DEF IsBelow
  <2>3. Latest(k, p) \in Latest(k, p) .. Len(k)
    BY <2>1
  <2> QED
    BY <2>1, <2>2, <2>3
<1>3. ASSUME NEW base \in Dirs, IsBelow(base, p), NEW i \in DOMAIN k, i \in gone
      PROVE  IsBelow(base, k[i])
  <2>1. k[i] \in Dirs /\ IsBelow(p, k[i])
    BY <1>3
  <2> QED
    BY <1>3, <2>1, MountListAssumption DEF IsBelow
<1> HIDE DEF gone
<1>4. \A base \in Dirs : IsBelow(base, p) => Outside(base, Without(k, gone)) = Outside(base, k)
  BY <1>3, OutsideWithout
<1> QED
  BY <1>1, <1>2, <1>4, WithoutKeeps

\* What has nothing below it goes alone.
LEMMA DetachOnly ==
  ASSUME NEW k \in Seq(Dirs), NEW p \in ToSet(k), IsInjective(k),
         \A q \in ToSet(k) : IsBelow(p, q) => q = p
  PROVE  ToSet(Detach(k, p)) = ToSet(k) \ {p}
<1> DEFINE gone == {i \in Latest(k, p) .. Len(k) : IsBelow(p, k[i])}
<1>1. Detach(k, p) = Without(k, gone)
  BY DEF Detach
<1>2. Latest(k, p) \in 1 .. Len(k) /\ k[Latest(k, p)] = p /\ DOMAIN k = 1 .. Len(k) /\ Len(k) \in Nat
  BY LatestIs
<1>3. \A i \in 1 .. Len(k) : k[i] \in ToSet(k) /\ (k[i] = p => i = Latest(k, p))
  BY <1>2 DEF ToSet, IsInjective
<1>4. p \in Dirs /\ IsBelow(p, p)
  BY MountListAssumption DEF IsBelow, ToSet
<1>5. \A i \in 1 .. Len(k) : i \in gone <=> k[i] = p
  <2> TAKE i \in 1 .. Len(k)
  <2>1. i \in gone => k[i] = p
    BY <1>2, <1>3
  <2>2. k[i] = p => i \in Latest(k, p) .. Len(k)
    BY <1>2, <1>3
  <2> QED
    BY <1>4, <2>1, <2>2
<1> HIDE DEF gone
<1>6. ToSet(Without(k, gone)) = {k[i] : i \in DOMAIN k \ gone}
  BY WithoutKeeps
<1>7. {k[i] : i \in DOMAIN k \ gone} = ToSet(k) \ {p}
  BY <1>2, <1>5 DEF ToSet
<1> QED
  BY <1>1, <1>6, <1>7

-----------------------------------------------------------------------------
(* unmountTree.                                                            *)

LEMMA InTreeIsBelow ==
  ASSUME NEW base, NEW p
  PROVE  InTree(base, p) <=> IsBelow(base, p)
  BY MountListAssumption DEF InTree, IsBelow

\* What it does with one entry.
UnmountOne(base, stuck, s, p) ==
  IF s.rc # 0 \/ ~InTree(base, p) THEN s
  ELSE IF p \in stuck \/ ~Reachable(s.k, p) THEN [s EXCEPT !.rc = 1]
  ELSE [s EXCEPT !.k = Detach(@, p), !.m = remove_MountList(@, p)]

\* States of unmountTree and of _shifterCore_bindMount.
Reversed   == {m \in MountLists : InOrder(m) /\ m.sorted = "reverse"}
Unmounting == [m : Reversed, k : Seq(Dirs), rc : {0, 1}]

LEMMA OneIs ==
  ASSUME NEW base, NEW stuck, NEW s \in Unmounting, NEW p \in Dirs
  PROVE  /\ UnmountOne(base, stuck, s, p) \in Unmounting
         /\ \/ UnmountOne(base, stuck, s, p) = s /\ (s.rc # 0 \/ ~IsBelow(base, p))
            \/ UnmountOne(base, stuck, s, p) = [m |-> s.m, k |-> s.k, rc |-> 1]
            \/ /\ s.rc = 0 /\ IsBelow(base, p) /\ p \in ToSet(s.k)
               /\ UnmountOne(base, stuck, s, p) =
                    [m |-> remove_MountList(s.m, p), k |-> Detach(s.k, p), rc |-> 0]
<1> DEFINE r == UnmountOne(base, stuck, s, p)
<1>1. s = [m |-> s.m, k |-> s.k, rc |-> s.rc] /\ s.m \in Reversed /\ s.k \in Seq(Dirs) /\ s.rc \in {0, 1}
  BY DEF Unmounting
<1>2. CASE s.rc # 0 \/ ~InTree(base, p)
  <2>1. r = s
    BY <1>2 DEF UnmountOne
  <2> QED
    BY <1>2, <2>1, InTreeIsBelow
<1>3. CASE s.rc = 0 /\ InTree(base, p) /\ (p \in stuck \/ ~Reachable(s.k, p))
  <2>1. r = [s EXCEPT !.rc = 1]
    BY <1>3 DEF UnmountOne
  <2>2. r = [m |-> s.m, k |-> s.k, rc |-> 1]
    BY <1>1, <2>1
  <2>3. r \in Unmounting
    BY <1>1, <2>2 DEF Unmounting
  <2> QED
    BY <2>2, <2>3
<1>4. CASE s.rc = 0 /\ InTree(base, p) /\ p \notin stuck /\ Reachable(s.k, p)
  <2> DEFINE d == Detach(s.k, p)
             e == remove_MountList(s.m, p)
  <2>1. r = [s EXCEPT !.k = d, !.m = e]
    BY <1>4 DEF UnmountOne
  <2>2. d \in Seq(Dirs)
    BY <1>1, DetachKeeps
  <2>3. e \in Reversed
    BY <1>1, RemoveKeeps DEF Reversed, InOrder
  <2> HIDE DEF d, e, r
  <2>4. r = [m |-> e, k |-> d, rc |-> 0]
    BY <1>1, <1>4, <2>1
  <2>5. r \in Unmounting
    BY <2>2, <2>3, <2>4 DEF Unmounting
  <2>6. p \in ToSet(s.k)
    BY <1>4 DEF Reachable, Mounted
  <2> QED
    BY <1>4, <2>4, <2>5, <2>6, InTreeIsBelow DEF d, e, r
<1> QED
  BY <1>1, <1>2, <1>3, <1>4

\* unmountTree goes through the reversed list entry by entry.
Steps(base, stuck, s, list, f) ==
  /\ f \in [0 .. Len(list) -> Unmounting]
  /\ f[0] = s
  /\ \A n \in 1 .. Len(list) : f[n] = UnmountOne(base, stuck, f[n - 1], list[n])

LEMMA UnmountTreeIs ==
  ASSUME NEW m, InOrder(m), m.sorted # "unsorted", NEW k \in Seq(Dirs), NEW base, NEW stuck
  PROVE  LET down == setSort_MountList(m, "reverse")
         IN  \E f : /\ Steps(base, stuck, [m |-> down, k |-> k, rc |-> 0], down.list, f)
                    /\ UnmountTree(m, k, base, stuck) =
                         [m  |-> setSort_MountList(f[Len(down.list)].m, m.sorted),
                          k  |-> f[Len(down.list)].k,
                          rc |-> f[Len(down.list)].rc]
<1> DEFINE down == setSort_MountList(m, "reverse")
           list == down.list
           N == Len(list)
           z == [m |-> down, k |-> k, rc |-> 0]
           X == Unmounting
           g == [n \in 1 .. N |-> [s \in X |-> UnmountOne(base, stuck, s, list[n])]]
           H(it) == [S \in SUBSET DOMAIN list |->
                      IF S = {} THEN z
                      ELSE LET x == Max(S) IN UnmountOne(base, stuck, it[S \ {x}], list[x])]
           iter == CHOOSE it : it = H(it)
           r == UnmountTree(m, k, base, stuck)
<1>1. /\ InOrder(down) /\ down.sorted = "reverse" /\ list \in Seq(Dirs) /\ N \in Nat
      /\ DOMAIN list = 1 .. N /\ \A n \in 1 .. N : list[n] \in Dirs
  BY SortKeeps DEF InOrder, MountLists
<1>2. z \in X
  BY <1>1 DEF Unmounting, Reversed, InOrder
<1>3. r = [iter[DOMAIN list] EXCEPT !.m = setSort_MountList(@, m.sorted)]
  BY DEF UnmountTree, FoldLeft, MapThenFoldSet, UnmountOne
<1>4. \A n \in 1 .. N, s \in X : g[n][s] = UnmountOne(base, stuck, s, list[n])
  OBVIOUS
<1>5. g \in [1 .. N -> [X -> X]]
  <2>1. \A n \in 1 .. N, s \in X : UnmountOne(base, stuck, s, list[n]) \in X
    BY <1>1, OneIs
  <2> HIDE DEF X, N, list
  <2> QED
    BY <2>1
<1> HIDE DEF down, list, N, z, X, g, iter, r
<1>6. PICK it : Folded(X, z, N, g, it)
  <2>1. N \in Nat
    BY <1>1
  <2> QED
    BY <1>2, <1>5, <2>1, FoldExists
<1>7. ASSUME NEW S \in SUBSET (1 .. N), S # {}
      PROVE  Max(S) \in 1 .. N /\ S \ {Max(S)} \in SUBSET (1 .. N)
  <2>1. N \in Nat
    BY <1>1
  <2>2. Max(S) \in S
    BY <1>7, <2>1, GreatestOf
  <2> QED
    BY <2>2
<1>8. \A S \in SUBSET (1 .. N) :
        it[S] = IF S = {} THEN z ELSE UnmountOne(base, stuck, it[S \ {Max(S)}], list[Max(S)])
  <2> TAKE S \in SUBSET (1 .. N)
  <2>1. CASE S = {}
    BY <1>6, <2>1 DEF Folded
  <2>2. CASE S # {}
    <3> DEFINE x == Max(S)
               T == S \ {x}
    <3>1. x \in 1 .. N /\ T \in SUBSET (1 .. N)
      BY <1>7, <2>2
    <3>2. it[S] = g[x][it[T]]
      BY <1>6, <2>2 DEF Folded
    <3> HIDE DEF x, T
    <3>3. it[T] \in X
      BY <1>6, <3>1 DEF Folded
    <3>4. it[S] = UnmountOne(base, stuck, it[T], list[x])
      BY <1>4, <3>1, <3>2, <3>3
    <3> QED
      BY <2>2, <3>4 DEF x, T
  <2> QED
    BY <2>1, <2>2
<1>9. it = H(it)
  <2>1. it = [S \in SUBSET (1 .. N) |-> it[S]]
    BY <1>6 DEF Folded
  <2>2. DOMAIN list = 1 .. N
    BY <1>1
  <2> QED
    BY <1>8, <2>1, <2>2
<1>10. iter = H(iter)
  <2> HIDE DEF H
  <2> QED
    BY <1>9 DEF iter
<1>11. \A S \in SUBSET (1 .. N) :
         iter[S] = IF S = {} THEN z ELSE UnmountOne(base, stuck, iter[S \ {Max(S)}], list[Max(S)])
  <2>1. DOMAIN list = 1 .. N
    BY <1>1
  <2> QED
    BY <1>10, <2>1
<1> DEFINE f == [n \in 0 .. N |-> iter[1 .. n]]
<1>12. f[0] = z
  <2>1. 1 .. 0 = {} /\ {} \in SUBSET (1 .. N) /\ 0 \in 0 .. N
    BY <1>1
  <2> QED
    BY <1>11, <2>1
<1>13. \A n \in 1 .. N : f[n] = UnmountOne(base, stuck, f[n - 1], list[n])
  <2> TAKE n \in 1 .. N
  <2>1. /\ 1 .. n \in SUBSET (1 .. N) /\ 1 .. n # {} /\ Max(1 .. n) = n
        /\ (1 .. n) \ {Max(1 .. n)} = 1 .. (n - 1)
    BY <1>1, FirstElements
  <2>2. n \in 0 .. N /\ n - 1 \in 0 .. N
    BY <1>1
  <2>3. iter[1 .. n] = UnmountOne(base, stuck, iter[1 .. (n - 1)], list[n])
    BY <1>11, <2>1
  <2> QED
    BY <2>2, <2>3
<1>14. iter[DOMAIN list] = f[N]
  <2>1. DOMAIN list = 1 .. N /\ N \in 0 .. N
    BY <1>1
  <2> QED
    BY <2>1
<1>15. f = [n \in 0 .. N |-> f[n]]
  OBVIOUS
<1> HIDE DEF f
<1>16. \A n \in 0 .. N : f[n] \in X
  <2> DEFINE S == {n \in Nat : f[n] \in X}
  <2>1. 0 \in S
    BY <1>2, <1>12
  <2>2. \A n \in 0 .. (N - 1) : n \in S => n + 1 \in S
    <3> TAKE n \in 0 .. (N - 1)
    <3>1. n + 1 \in 1 .. N /\ (n + 1) - 1 = n /\ n + 1 \in Nat
      BY <1>1
    <3>2. f[n + 1] = UnmountOne(base, stuck, f[n], list[n + 1]) /\ list[n + 1] \in Dirs
      BY <1>1, <1>13, <3>1
    <3>3. f[n] \in X => f[n + 1] \in X
      BY <3>2, OneIs DEF X
    <3> QED
      BY <3>1, <3>3
  <2> HIDE DEF S
  <2>3. 0 .. N \subseteq S
    BY <1>1, <2>1, <2>2, NumberInductionTo
  <2> QED
    BY <2>3 DEF S
<1>17. Steps(base, stuck, z, list, f)
  <2>1. f \in [0 .. N -> Unmounting]
    BY <1>15, <1>16 DEF X
  <2> QED
    BY <1>12, <1>13, <2>1 DEF Steps, N
<1>18. r = [m |-> setSort_MountList(f[N].m, m.sorted), k |-> f[N].k, rc |-> f[N].rc]
  <2>1. f[N] \in Unmounting
    BY <1>1, <1>16 DEF X
  <2> QED
    BY <1>3, <1>14, <2>1 DEF Unmounting
<1> QED
  BY <1>17, <1>18 DEF r, z, down, list, N

\* The list names what is mounted, each place once.
Agrees(m, k) == IsInjective(k) /\ ToSet(m.list) = ToSet(k)

\* What unmountTree has achieved when it has gone through n entries of down.
Cleared(base, down, k, n, s) ==
  /\ s \in Unmounting
  /\ ToSet(s.m.list) \subseteq ToSet(down.list)
  /\ Outside(base, s.k) = Outside(base, k)
  /\ Len(s.k) <= Len(k)
  /\ ToSet(s.m.list) # ToSet(down.list) => Len(s.k) < Len(k)
  /\ s.rc = 0 => \A i \in 1 .. n : IsBelow(base, down.list[i]) => down.list[i] \notin ToSet(s.m.list)
  /\ Agrees(down, k) => Agrees(s.m, s.k)

LEMMA OneClears ==
  ASSUME NEW base \in Dirs, NEW stuck, NEW down \in Reversed, NEW k \in Seq(Dirs),
         NEW n \in 0 .. (Len(down.list) - 1), NEW s, Cleared(base, down, k, n, s)
  PROVE  Cleared(base, down, k, n + 1, UnmountOne(base, stuck, s, down.list[n + 1]))
<1> DEFINE list == down.list
           p == list[n + 1]
           r == UnmountOne(base, stuck, s, p)
<1>1. /\ list \in Seq(Dirs) /\ Len(list) \in Nat /\ DOMAIN list = 1 .. Len(list)
      /\ n \in Nat /\ n + 1 \in 1 .. Len(list) /\ p \in Dirs /\ p \in ToSet(list)
      /\ InOrder(down) /\ down.sorted = "reverse"
  BY DEF Reversed, InOrder, MountLists, ToSet
<1>2. s \in Unmounting /\ s.m \in Reversed /\ s.k \in Seq(Dirs) /\ InOrder(s.m) /\ s.rc \in {0, 1}
  BY DEF Cleared, Unmounting, Reversed
<1>3. \A i \in 1 .. (n + 1) : i \in 1 .. n \/ i = n + 1
  BY <1>1
<1>4. /\ r \in Unmounting
      /\ \/ r = s /\ (s.rc # 0 \/ ~IsBelow(base, p))
         \/ r = [m |-> s.m, k |-> s.k, rc |-> 1]
         \/ /\ s.rc = 0 /\ IsBelow(base, p) /\ p \in ToSet(s.k)
            /\ r = [m |-> remove_MountList(s.m, p), k |-> Detach(s.k, p), rc |-> 0]
  BY <1>1, <1>2, OneIs
<1> HIDE DEF r
<1>5. CASE r = s /\ (s.rc # 0 \/ ~IsBelow(base, p))
  <2>1. s.rc = 0 => \A i \in 1 .. (n + 1) : IsBelow(base, list[i]) => list[i] \notin ToSet(s.m.list)
    BY <1>3, <1>5 DEF Cleared
  <2> QED
    BY <1>5, <2>1 DEF Cleared, r
<1>6. CASE r = [m |-> s.m, k |-> s.k, rc |-> 1]
  <2>1. r.m = s.m /\ r.k = s.k /\ r.rc = 1
    BY <1>6
  <2> QED
    BY <1>4, <2>1 DEF Cleared, r
<1>7. CASE /\ s.rc = 0 /\ IsBelow(base, p) /\ p \in ToSet(s.k)
           /\ r = [m |-> remove_MountList(s.m, p), k |-> Detach(s.k, p), rc |-> 0]
  <2>1. r.m = remove_MountList(s.m, p) /\ r.k = Detach(s.k, p) /\ r.rc = 0
    BY <1>7
  <2>2. ToSet(r.m.list) = ToSet(s.m.list) \ {p}
    <3> DEFINE m == s.m
               e == remove_MountList(m, p)
    <3>1. InOrder(m) /\ p \in Dirs
      BY <1>1, <1>2
    <3> HIDE DEF m, p
    <3>2. ToSet(e.list) = ToSet(m.list) \ {p}
      BY <3>1, RemoveKeeps
    <3> QED
      BY <2>1, <3>2 DEF m
  <2>3. /\ r.k \in Seq(Dirs) /\ Len(r.k) < Len(s.k)
        /\ Outside(base, r.k) = Outside(base, s.k)
        /\ IsInjective(s.k) => IsInjective(r.k)
    BY <1>1, <1>2, <1>7, <2>1, DetachKeeps
  <2>4. Len(r.k) < Len(k)
    <3>1. Len(r.k) \in Nat /\ Len(s.k) \in Nat /\ Len(k) \in Nat /\ Len(s.k) <= Len(k)
      BY <1>2, <2>3 DEF Cleared
    <3> QED
      BY <2>3, <3>1
  <2>5. \A i \in 1 .. (n + 1) : IsBelow(base, list[i]) => list[i] \notin ToSet(r.m.list)
    <3> TAKE i \in 1 .. (n + 1)
    <3>1. CASE i = n + 1
      BY <2>2, <3>1
    <3>2. CASE i \in 1 .. n
      BY <1>7, <2>2, <3>2 DEF Cleared
    <3> QED
      BY <1>3, <3>1, <3>2
  <2>6. ASSUME Agrees(s.m, s.k) PROVE Agrees(r.m, r.k)
    <3>1. ASSUME NEW q \in ToSet(s.k), IsBelow(p, q) PROVE q = p
      <4>1. q \in ToSet(s.m.list)
        BY <2>6 DEF Agrees
      <4>2. PICK j \in 1 .. Len(list) : q = list[j]
        BY <1>1, <4>1 DEF Cleared, ToSet
      <4>3. q \in Dirs
        BY <1>1, <4>2
      <4>4. IsBelow(base, q) /\ Rank[p] <= Rank[q]
        BY <1>1, <1>7, <3>1, <4>3, MountListAssumption DEF IsBelow
      <4>5. ~(j \in 1 .. n)
        BY <1>7, <4>1, <4>2, <4>4 DEF Cleared
      <4>6. ~(n + 1 < j)
        <5> SUFFICES ASSUME n + 1 < j PROVE FALSE
          OBVIOUS
        <5>1. Before("reverse", p, q)
          BY <1>1, <4>2 DEF InOrder
        <5>2. Rank[p] > Rank[q] /\ Rank[p] \in Nat /\ Rank[q] \in Nat
          BY <1>1, <4>3, <5>1, MountListAssumption DEF Before
        <5> QED
          BY <4>4, <5>2
      <4>7. j = n + 1
        BY <1>1, <4>2, <4>5, <4>6
      <4> QED
        BY <4>2, <4>7
    <3>2. IsInjective(s.k)
      BY <2>6 DEF Agrees
    <3>3. ToSet(r.k) = ToSet(s.k) \ {p}
      BY <1>2, <1>7, <2>1, <3>1, <3>2, DetachOnly
    <3> QED
      BY <2>2, <2>3, <2>6, <3>2, <3>3 DEF Agrees
  <2>7. /\ ToSet(r.m.list) \subseteq ToSet(list)
        /\ Outside(base, r.k) = Outside(base, k)
        /\ Agrees(down, k) => Agrees(s.m, s.k)
    BY <2>2, <2>3 DEF Cleared
  <2>8. Len(r.k) <= Len(k)
    <3>1. Len(r.k) \in Nat /\ Len(k) \in Nat
      BY <2>3
    <3> QED
      BY <2>4, <3>1
  <2> QED
    BY <1>4, <2>4, <2>5, <2>6, <2>7, <2>8 DEF Cleared, r
<1> QED
  BY <1>4, <1>5, <1>6, <1>7

\* unmountTree keeps the order of the list, takes nothing from outside of
\* base, and has cleared it when it returns 0.
LEMMA UnmountGood ==
  ASSUME NEW m, InOrder(m), m.sorted # "unsorted", NEW k \in Seq(Dirs), NEW base \in Dirs, NEW stuck
  PROVE  LET r == UnmountTree(m, k, base, stuck)
         IN  /\ r = [m |-> r.m, k |-> r.k, rc |-> r.rc]
             /\ InOrder(r.m) /\ r.m.sorted = m.sorted /\ r.k \in Seq(Dirs) /\ r.rc \in {0, 1}
             /\ Outside(base, r.k) = Outside(base, k)
             /\ Len(r.k) <= Len(k)
             /\ r.rc = 0 => \A q \in ToSet(m.list) : IsBelow(base, q) =>
                  q \notin ToSet(r.m.list) /\ Len(r.k) < Len(k)
             /\ r.rc = 0 => \A q \in ToSet(r.m.list) : ~IsBelow(base, q)
             /\ Agrees(m, k) => Agrees(r.m, r.k)
<1> DEFINE down == setSort_MountList(m, "reverse")
           list == down.list
           N == Len(list)
           z == [m |-> down, k |-> k, rc |-> 0]
           r == UnmountTree(m, k, base, stuck)
<1>1. /\ InOrder(down) /\ down.sorted = "reverse" /\ list \in Seq(Dirs) /\ N \in Nat
      /\ DOMAIN list = 1 .. N /\ ToSet(list) = ToSet(m.list) /\ down \in Reversed
  BY SortKeeps DEF InOrder, MountLists, Reversed
<1>2. PICK f : /\ Steps(base, stuck, z, list, f)
               /\ r = [m |-> setSort_MountList(f[N].m, m.sorted), k |-> f[N].k, rc |-> f[N].rc]
  BY UnmountTreeIs
<1> HIDE DEF down, r
<1> DEFINE S == {n \in Nat : n <= N => Cleared(base, down, k, n, f[n])}
<1>3. 0 \in S
  <2>1. f[0] = z /\ z \in Unmounting /\ z.m = down /\ z.k = k /\ z.rc = 0
    BY <1>1, <1>2 DEF Steps, Unmounting
  <2>2. Len(k) \in Nat /\ Len(k) <= Len(k)
    OBVIOUS
  <2>3. \A i \in 1 .. 0 : FALSE
    OBVIOUS
  <2> HIDE DEF z
  <2>4. Cleared(base, down, k, 0, z)
    BY <2>1, <2>2, <2>3 DEF Cleared
  <2> QED
    BY <2>1, <2>4
<1>4. \A n \in 0 .. (N - 1) : n \in S => n + 1 \in S
  <2> SUFFICES ASSUME NEW n \in 0 .. (N - 1), n \in S PROVE n + 1 \in S
    OBVIOUS
  <2>1. n + 1 \in 1 .. N /\ (n + 1) - 1 = n /\ n <= N /\ n + 1 \in Nat
    BY <1>1
  <2>2. f[n + 1] = UnmountOne(base, stuck, f[n], list[n + 1])
    BY <1>2, <2>1 DEF Steps
  <2>3. Cleared(base, down, k, n, f[n])
    BY <2>1
  <2>4. Cleared(base, down, k, n + 1, UnmountOne(base, stuck, f[n], list[n + 1]))
    BY <1>1, <2>3, OneClears
  <2> QED
    BY <2>1, <2>2, <2>4
<1> HIDE DEF S, z
<1>5. 0 .. N \subseteq S
  BY <1>1, <1>3, <1>4, NumberInductionTo
<1>6. N \in S
  BY <1>1, <1>5
<1> DEFINE s == f[N]
<1>7. Cleared(base, down, k, N, s)
  BY <1>1, <1>6 DEF S
<1>8. r = [m |-> setSort_MountList(s.m, m.sorted), k |-> s.k, rc |-> s.rc]
  BY <1>2
<1> HIDE DEF s
<1>9. s.m \in Reversed /\ s.k \in Seq(Dirs) /\ s.rc \in {0, 1} /\ InOrder(s.m) /\ s.m.sorted = "reverse"
  BY <1>7 DEF Cleared, Unmounting, Reversed
<1>10. m.sorted \in {"forward", "reverse"}
  BY DEF InOrder, MountLists
<1>11. /\ InOrder(r.m) /\ r.m.sorted = m.sorted /\ ToSet(r.m.list) = ToSet(s.m.list)
       /\ r.k = s.k /\ r.rc = s.rc
  BY <1>8, <1>9, <1>10, SortKeeps
<1>12. s.rc = 0 => \A q \in ToSet(m.list) : IsBelow(base, q) => q \notin ToSet(s.m.list)
  BY <1>1, <1>7 DEF Cleared, ToSet
<1>13. Agrees(m, k) => Agrees(r.m, r.k)
  BY <1>1, <1>7, <1>11 DEF Cleared, Agrees
<1>14. ToSet(s.m.list) \subseteq ToSet(m.list)
  BY <1>1, <1>7 DEF Cleared
<1>15. s.rc = 0 => \A q \in ToSet(m.list) : IsBelow(base, q) => Len(s.k) < Len(k)
  BY <1>1, <1>7, <1>12 DEF Cleared
<1>16. Outside(base, s.k) = Outside(base, k) /\ Len(s.k) <= Len(k)
  BY <1>7 DEF Cleared
<1>17. r = [m |-> r.m, k |-> r.k, rc |-> r.rc]
  BY <1>8
<1> QED
  BY <1>9, <1>11, <1>12, <1>13, <1>14, <1>15, <1>16, <1>17 DEF r

-----------------------------------------------------------------------------
(* parse_MountList and _shifterCore_bindMount.                             *)

Forward == {m \in MountLists : InOrder(m) /\ m.sorted = "forward"}
NotReversed   == {m \in MountLists : InOrder(m) /\ m.sorted # "reverse"}

\* parse_MountList inserts what is mounted, one mount after the other.
LEMMA ParsedGood ==
  ASSUME NEW k \in Seq(Dirs)
  PROVE  InOrder(Parsed(k)) /\ ToSet(Parsed(k).list) = ToSet(k)
<1> DEFINE N == Len(k)
           z == [list |-> <<>>, sorted |-> "unsorted"]
           X == NotReversed
           g == [n \in 1 .. N |-> [m \in X |-> insert_MountList(m, k[n])]]
           H(it) == [S \in SUBSET DOMAIN k |->
                      IF S = {} THEN z
                      ELSE LET x == Max(S) IN insert_MountList(it[S \ {x}], k[x])]
           iter == CHOOSE it : it = H(it)
<1>1. N \in Nat /\ DOMAIN k = 1 .. N /\ \A n \in 1 .. N : k[n] \in Dirs
  OBVIOUS
<1>2. z \in X
  <2>1. z.list = <<>> /\ z.list \in Seq(Dirs) /\ DOMAIN z.list = {} /\ z.sorted = "unsorted"
    OBVIOUS
  <2>2. z \in MountLists
    BY DEF MountLists
  <2> HIDE DEF z
  <2> QED
    BY <2>1, <2>2 DEF NotReversed, InOrder
<1>3. Parsed(k) = iter[DOMAIN k]
  BY DEF Parsed, FoldLeft, MapThenFoldSet
<1>4. \A n \in 1 .. N, m \in X : g[n][m] = insert_MountList(m, k[n])
  OBVIOUS
<1>5. ASSUME NEW m \in X, NEW n \in 1 .. N
      PROVE  /\ insert_MountList(m, k[n]) \in X
             /\ ToSet(insert_MountList(m, k[n]).list) = ToSet(m.list) \cup {k[n]}
  <2> DEFINE p == k[n]
             r == insert_MountList(m, p)
  <2>1. InOrder(m) /\ m.sorted # "reverse" /\ p \in Dirs
    BY <1>1 DEF NotReversed
  <2> HIDE DEF p
  <2>2. InOrder(r) /\ r.sorted = "forward" /\ ToSet(r.list) = ToSet(m.list) \cup {p}
    BY <2>1, InsertKeeps
  <2> HIDE DEF r
  <2>3. r \in X
    BY <2>2 DEF NotReversed, InOrder
  <2> QED
    BY <2>2, <2>3 DEF r, p
<1>6. g \in [1 .. N -> [X -> X]]
  <2>1. \A n \in 1 .. N, m \in X : insert_MountList(m, k[n]) \in X
    BY <1>5
  <2> HIDE DEF X, N
  <2> QED
    BY <2>1
<1> HIDE DEF N, z, X, g, iter
<1>7. PICK it : Folded(X, z, N, g, it)
  <2>1. N \in Nat
    BY <1>1
  <2> QED
    BY <1>2, <1>6, <2>1, FoldExists
<1>8. \A S \in SUBSET (1 .. N) :
        it[S] = IF S = {} THEN z ELSE insert_MountList(it[S \ {Max(S)}], k[Max(S)])
  <2> TAKE S \in SUBSET (1 .. N)
  <2>1. CASE S = {}
    BY <1>7, <2>1 DEF Folded
  <2>2. CASE S # {}
    <3> DEFINE x == Max(S)
               T == S \ {x}
    <3>1. x \in 1 .. N /\ T \in SUBSET (1 .. N)
      <4>1. N \in Nat
        BY <1>1
      <4>2. Max(S) \in S
        BY <2>2, <4>1, GreatestOf
      <4> QED
        BY <4>2
    <3>2. it[S] = g[x][it[T]]
      BY <1>7, <2>2 DEF Folded
    <3> HIDE DEF x, T
    <3>3. it[T] \in X
      BY <1>7, <3>1 DEF Folded
    <3>4. it[S] = insert_MountList(it[T], k[x])
      BY <1>4, <3>1, <3>2, <3>3
    <3> QED
      BY <2>2, <3>4 DEF x, T
  <2> QED
    BY <2>1, <2>2
<1>9. it = H(it)
  <2>1. it = [S \in SUBSET (1 .. N) |-> it[S]]
    BY <1>7 DEF Folded
  <2>2. DOMAIN k = 1 .. N
    BY <1>1
  <2> QED
    BY <1>8, <2>1, <2>2
<1>10. iter = H(iter)
  <2> HIDE DEF H
  <2> QED
    BY <1>9 DEF iter
<1>11. \A S \in SUBSET (1 .. N) :
         iter[S] = IF S = {} THEN z ELSE insert_MountList(iter[S \ {Max(S)}], k[Max(S)])
  <2>1. DOMAIN k = 1 .. N
    BY <1>1
  <2> QED
    BY <1>10, <2>1
<1> DEFINE S == {n \in Nat : n <= N => /\ iter[1 .. n] \in X
                                      /\ ToSet(iter[1 .. n].list) = {k[i] : i \in 1 .. n}}
<1>12. 0 \in S
  <2>1. 1 .. 0 = {} /\ {} \in SUBSET (1 .. N)
    OBVIOUS
  <2>2. iter[1 .. 0] = z
    BY <1>11, <2>1
  <2>3. ToSet(z.list) = {}
    BY DEF z, ToSet
  <2> QED
    BY <1>2, <2>1, <2>2, <2>3
<1>13. \A n \in 0 .. (N - 1) : n \in S => n + 1 \in S
  <2> SUFFICES ASSUME NEW n \in 0 .. (N - 1), n \in S PROVE n + 1 \in S
    OBVIOUS
  <2> DEFINE a == n + 1
             m == iter[1 .. n]
  <2>1. a \in 1 .. N /\ a - 1 = n /\ n <= N /\ a \in Nat /\ n \in Nat
    BY <1>1
  <2>2. m \in X /\ ToSet(m.list) = {k[i] : i \in 1 .. n}
    BY <2>1
  <2>3. 1 .. a = (1 .. n) \cup {a}
    BY <2>1
  <2> HIDE DEF a
  <2>4. /\ 1 .. a \in SUBSET (1 .. N) /\ 1 .. a # {} /\ Max(1 .. a) = a
        /\ (1 .. a) \ {Max(1 .. a)} = 1 .. (a - 1)
    BY <1>1, <2>1, FirstElements
  <2>5. iter[1 .. a] = insert_MountList(m, k[a])
    BY <1>11, <2>1, <2>4
  <2> HIDE DEF m
  <2>6. iter[1 .. a] \in X /\ ToSet(iter[1 .. a].list) = ToSet(m.list) \cup {k[a]}
    BY <1>5, <2>1, <2>2, <2>5
  <2>7. ToSet(iter[1 .. a].list) = {k[i] : i \in 1 .. a}
    BY <2>2, <2>3, <2>6
  <2> QED
    BY <2>1, <2>6, <2>7 DEF a
<1> HIDE DEF S
<1>14. 0 .. N \subseteq S
  BY <1>1, <1>12, <1>13, NumberInductionTo
<1>15. N \in S
  BY <1>1, <1>14
<1>16. iter[1 .. N] \in X /\ ToSet(iter[1 .. N].list) = {k[i] : i \in 1 .. N}
  BY <1>1, <1>15 DEF S
<1> QED
  BY <1>1, <1>3, <1>16 DEF X, NotReversed, ToSet

\* After the tries to make a place free, it is off the list when they
\* worked.
Freeing == [m : Forward, k : Seq(Dirs), rc : {0, 1}]

LEMMA UnmountFrees ==
  ASSUME NEW s \in Freeing, NEW to \in Dirs, NEW stuck
  PROVE  LET r == UnmountTree(s.m, s.k, to, stuck)
         IN  /\ r \in Freeing
             /\ Agrees(s.m, s.k) => Agrees(r.m, r.k)
             /\ r.rc = 0 => to \notin ToSet(r.m.list)
<1> DEFINE m == s.m
           k == s.k
           r == UnmountTree(m, k, to, stuck)
<1>1. InOrder(m) /\ m.sorted = "forward" /\ m.sorted # "unsorted" /\ k \in Seq(Dirs)
  BY DEF Freeing, Forward
<1>2. IsBelow(to, to)
  BY MountListAssumption DEF IsBelow
<1> HIDE DEF m, k
<1>3. /\ r = [m |-> r.m, k |-> r.k, rc |-> r.rc]
      /\ InOrder(r.m) /\ r.m.sorted = "forward" /\ r.k \in Seq(Dirs) /\ r.rc \in {0, 1}
      /\ r.rc = 0 => \A q \in ToSet(r.m.list) : ~IsBelow(to, q)
      /\ Agrees(m, k) => Agrees(r.m, r.k)
  BY <1>1, UnmountGood
<1> HIDE DEF r
<1>4. r.m \in Forward
  BY <1>3 DEF Forward, InOrder
<1>5. r \in Freeing
  BY <1>3, <1>4 DEF Freeing
<1> QED
  BY <1>2, <1>3, <1>5 DEF r, m, k

LEMMA MakeFreeGood ==
  ASSUME NEW m \in Forward, NEW k \in Seq(Dirs), NEW to \in Dirs, NEW stuck
  PROVE  LET r == MakeFree(m, k, to, stuck)
         IN  /\ r \in Freeing
             /\ Agrees(m, k) => Agrees(r.m, r.k)
             /\ r.rc = 0 => to \notin ToSet(r.m.list)
<1> DEFINE N == Retries
           X == Freeing
           z == [m |-> m, k |-> k, rc |-> 0]
           Try(n, s) == IF s.rc # 0 \/ (n > 1 /\ ~Mounted(s.k, to)) THEN s
                        ELSE UnmountTree(s.m, s.k, to, stuck)
           g == [n \in 1 .. N |-> [s \in X |-> Try(n, s)]]
           H(after) == [n \in 0 .. N |->
             IF n = 0 THEN z
             ELSE LET s == after[n - 1]
                  IN  IF s.rc # 0 \/ (n > 1 /\ ~Mounted(s.k, to)) THEN s
                      ELSE UnmountTree(s.m, s.k, to, stuck)]
           after == CHOOSE h : h = H(h)
<1>1. N \in Nat /\ N >= 1
  BY MountListAssumption
<1>2. z \in X
  BY DEF Freeing
<1>3. MakeFree(m, k, to, stuck) = after[N]
  BY DEF MakeFree
<1>4. \A n \in 1 .. N, s \in X : Try(n, s) \in X
  BY UnmountFrees
<1>5. \A n \in 1 .. N, s \in X : g[n][s] = Try(n, s)
  OBVIOUS
<1>6. \A f : H(f) = [n \in 0 .. N |-> IF n = 0 THEN z ELSE Try(n, f[n - 1])]
  OBVIOUS
<1> HIDE DEF X, Try, N, H, z
<1>7. g \in [1 .. N -> [X -> X]]
  BY <1>4
<1> HIDE DEF g, after
<1>8. PICK f \in [0 .. N -> X] : f[0] = z /\ \A n \in 1 .. N : f[n] = g[n][f[n - 1]]
  <2>1. N \in Nat
    BY <1>1
  <2> QED
    <3>1. PICK f : Rounds(X, z, N, g, f)
      BY <2>1, <1>2, <1>7, RoundsExist
    <3> QED
      BY <3>1 DEF Rounds
<1>9. \A n \in 0 .. N : f[n] = IF n = 0 THEN z ELSE Try(n, f[n - 1])
  <2> TAKE n \in 0 .. N
  <2>1. n = 0 \/ (n # 0 /\ n \in 1 .. N /\ n - 1 \in 0 .. N)
    BY <1>1
  <2> QED
    BY <1>5, <1>8, <2>1
<1>10. f = H(f)
  <2>1. f = [n \in 0 .. N |-> f[n]]
    BY <1>8
  <2> QED
    BY <1>6, <1>9, <2>1
<1>11. after = H(after)
  BY <1>10 DEF after
<1>12. \A n \in 0 .. N : after[n] = IF n = 0 THEN z ELSE Try(n, after[n - 1])
  <2>1. after = [n \in 0 .. N |-> IF n = 0 THEN z ELSE Try(n, after[n - 1])]
    BY <1>6, <1>11
  <2> HIDE <1>6, <1>11
  <2> QED
    BY <2>1
<1> DEFINE Good(n, s) == /\ s \in X
                         /\ Agrees(m, k) => Agrees(s.m, s.k)
                         /\ n # 0 /\ s.rc = 0 => to \notin ToSet(s.m.list)
           S == {n \in Nat : n <= N => Good(n, after[n])}
<1>13. 0 \in S
  <2>1. after[0] = z
    BY <1>1, <1>12
  <2>2. z.m = m /\ z.k = k
    BY DEF z
  <2> QED
    BY <1>2, <2>1, <2>2
<1>14. ASSUME NEW n \in Nat, NEW s, Good(n, s) PROVE Good(n + 1, Try(n + 1, s))
  <2>1. /\ UnmountTree(s.m, s.k, to, stuck) \in X
        /\ Agrees(s.m, s.k) => Agrees(UnmountTree(s.m, s.k, to, stuck).m, UnmountTree(s.m, s.k, to, stuck).k)
        /\ UnmountTree(s.m, s.k, to, stuck).rc = 0 =>
             to \notin ToSet(UnmountTree(s.m, s.k, to, stuck).m.list)
    BY <1>14, UnmountFrees DEF X
  <2>2. n + 1 > 1 => n # 0
    OBVIOUS
  <2>3. CASE s.rc # 0 \/ (n + 1 > 1 /\ ~Mounted(s.k, to))
    <3>1. Try(n + 1, s) = s
      BY <2>3 DEF Try
    <3> QED
      BY <1>14, <2>2, <2>3, <3>1
  <2>4. CASE ~(s.rc # 0 \/ (n + 1 > 1 /\ ~Mounted(s.k, to)))
    <3>1. Try(n + 1, s) = UnmountTree(s.m, s.k, to, stuck)
      BY <2>4 DEF Try
    <3> QED
      BY <1>14, <2>1, <3>1
  <2> QED
    BY <2>3, <2>4
<1> HIDE DEF Good
<1>15. \A n \in 0 .. (N - 1) : n \in S => n + 1 \in S
  <2> TAKE n \in 0 .. (N - 1)
  <2>1. n + 1 \in 0 .. N /\ n + 1 # 0 /\ (n + 1) - 1 = n /\ n <= N /\ n \in Nat /\ n + 1 \in Nat
    BY <1>1
  <2>2. after[n + 1] = Try(n + 1, after[n])
    BY <1>12, <2>1
  <2> QED
    BY <1>14, <2>1, <2>2
<1> HIDE DEF S
<1>16. 0 .. N \subseteq S
  BY <1>1, <1>13, <1>15, NumberInductionTo
<1>17. N \in S
  BY <1>1, <1>16
<1>18. Good(N, after[N])
  BY <1>1, <1>17 DEF S
<1> QED
  BY <1>1, <1>3, <1>18 DEF Good, X

\* A mount that is made and taken away again leaves the others.
LEMMA DetachLast ==
  ASSUME NEW k \in Seq(Dirs), NEW p \in Dirs
  PROVE  ToSet(Detach(Append(k, p), p)) = ToSet(k)
<1> DEFINE l == Append(k, p)
           N == Len(k)
           gone == {i \in Latest(l, p) .. Len(l) : IsBelow(p, l[i])}
           at == {i \in DOMAIN l : l[i] = p}
<1>1. /\ N \in Nat /\ DOMAIN k = 1 .. N /\ l \in Seq(Dirs) /\ Len(l) = N + 1 /\ DOMAIN l = 1 .. (N + 1)
      /\ l[N + 1] = p /\ \A i \in 1 .. N : l[i] = k[i]
  OBVIOUS
<1>2. Latest(l, p) = Max(at)
  BY DEF Latest
<1>3. Detach(l, p) = Without(l, gone)
  BY DEF Detach
<1> HIDE DEF l, N
<1>4. at \subseteq Nat /\ N + 1 \in at /\ \A y \in at : y <= N + 1
  BY <1>1
<1> HIDE DEF at
<1>5. Max(at) = N + 1
  <2>1. Max(at) \in at /\ \A y \in at : y <= Max(at)
    BY <1>1, <1>4, GreatestIn
  <2>2. Max(at) \in Nat /\ Max(at) <= N + 1 /\ N + 1 <= Max(at)
    BY <1>4, <2>1
  <2> QED
    BY <1>1, <2>2
<1>6. IsBelow(p, p)
  BY MountListAssumption DEF IsBelow
<1>7. \A i \in 1 .. (N + 1) : i \in gone <=> i = N + 1
  BY <1>1, <1>2, <1>5, <1>6
<1> HIDE DEF gone
<1>8. ToSet(Without(l, gone)) = {l[i] : i \in DOMAIN l \ gone}
  BY <1>1, WithoutKeeps
<1>9. DOMAIN l \ gone = 1 .. N
  BY <1>1, <1>7
<1> QED
  BY <1>1, <1>3, <1>8, <1>9 DEF ToSet, l

LEMMA AppendIs ==
  ASSUME NEW k \in Seq(Dirs), NEW p \in Dirs
  PROVE  /\ Append(k, p) \in Seq(Dirs)
         /\ ToSet(Append(k, p)) = ToSet(k) \cup {p}
         /\ IsInjective(k) /\ p \notin ToSet(k) => IsInjective(Append(k, p))
<1> DEFINE l == Append(k, p)
           N == Len(k)
<1>1. /\ N \in Nat /\ DOMAIN k = 1 .. N /\ l \in Seq(Dirs) /\ DOMAIN l = 1 .. (N + 1)
      /\ l[N + 1] = p /\ \A i \in 1 .. N : l[i] = k[i]
  OBVIOUS
<1> HIDE DEF l, N
<1>2. \A i \in 1 .. (N + 1) : i \in 1 .. N \/ i = N + 1
  BY <1>1
<1>3. 1 .. N \subseteq 1 .. (N + 1) /\ N + 1 \in 1 .. (N + 1)
  BY <1>1
<1>4. ToSet(l) = ToSet(k) \cup {p}
  BY <1>1, <1>2, <1>3 DEF ToSet
<1>5. ASSUME IsInjective(k), p \notin ToSet(k), NEW a \in 1 .. (N + 1), NEW b \in 1 .. (N + 1), l[a] = l[b]
      PROVE  a = b
  <2>1. \A i \in 1 .. N : l[i] # p
    BY <1>1, <1>5 DEF ToSet
  <2>2. CASE a \in 1 .. N /\ b \in 1 .. N
    BY <1>1, <1>5, <2>2 DEF IsInjective
  <2>3. CASE a = N + 1 \/ b = N + 1
    BY <1>1, <1>2, <1>5, <2>1, <2>3
  <2> QED
    BY <1>2, <2>2, <2>3
<1> QED
  BY <1>1, <1>4, <1>5 DEF IsInjective, l

\* _shifterCore_bindMount keeps the order of the list, and the list what is
\* mounted, unless it leaves a mount behind that it has taken off the list.
LEMMA BindGood ==
  ASSUME NEW m \in Forward, NEW k \in Seq(Dirs), NEW to \in Dirs,
         NEW overwrite \in BOOLEAN, NEW stuck, NEW upto \in {"nothing", "mount", "end"}
  PROVE  LET r == BindMount(m, k, to, overwrite, stuck, upto)
         IN  /\ r.m \in Forward /\ r.k \in Seq(Dirs)
             /\ /\ Agrees(m, k)
                /\ r.rc # 0 => (to \in ToSet(r.k) => to \in ToSet(r.m.list))
                => Agrees(r.m, r.k)
<1> DEFINE free == IF find_MountList(m, to) = 0 THEN [m |-> m, k |-> k, rc |-> 0]
                   ELSE IF overwrite THEN MakeFree(m, k, to, stuck)
                   ELSE [m |-> m, k |-> k, rc |-> 1]
           over == Append(free.k, to)
           kept == insert_MountList(free.m, to)
           r == BindMount(m, k, to, overwrite, stuck, upto)
<1>1. r = CASE free.rc # 0 -> free
            [] free.rc = 0 /\ upto = "nothing" ->
                 [m |-> remove_MountList(free.m, to), rc |-> 1,
                  k |-> IF Reachable(free.k, to) /\ to \notin stuck THEN Detach(free.k, to) ELSE free.k]
            [] free.rc = 0 /\ upto = "mount" -> Unclean(kept, over, to, stuck)
            [] OTHER -> [m |-> kept, k |-> over, rc |-> 0]
  BY DEF BindMount
<1>2. /\ free \in Freeing
      /\ Agrees(m, k) => Agrees(free.m, free.k)
      /\ free.rc = 0 => to \notin ToSet(free.m.list)
  <2>1. CASE find_MountList(m, to) = 0
    <3>1. free = [m |-> m, k |-> k, rc |-> 0]
      BY <2>1
    <3>2. to \notin ToSet(m.list)
      BY <2>1, FindFinds DEF Forward
    <3> HIDE DEF free
    <3> QED
      BY <3>1, <3>2 DEF Freeing
  <2>2. CASE find_MountList(m, to) # 0 /\ overwrite
    <3>1. free = MakeFree(m, k, to, stuck)
      BY <2>2
    <3> HIDE DEF free
    <3> QED
      BY <3>1, MakeFreeGood
  <2>3. CASE find_MountList(m, to) # 0 /\ ~overwrite
    <3>1. free = [m |-> m, k |-> k, rc |-> 1]
      BY <2>3
    <3> HIDE DEF free
    <3> QED
      BY <3>1 DEF Freeing
  <2> QED
    BY <2>1, <2>2, <2>3
<1> HIDE DEF free, r
<1>3. /\ free.m \in Forward /\ free.k \in Seq(Dirs) /\ free.rc \in {0, 1}
      /\ InOrder(free.m) /\ free.m.sorted = "forward"
  BY <1>2 DEF Freeing, Forward
<1>4. ASSUME NEW x, InOrder(x), x.sorted = "forward"
      PROVE  /\ x \in Forward
             /\ remove_MountList(x, to) \in Forward
             /\ ToSet(remove_MountList(x, to).list) = ToSet(x.list) \ {to}
  BY <1>4, RemoveKeeps DEF Forward, InOrder
<1>5. InOrder(kept) /\ kept.sorted = "forward" /\ ToSet(kept.list) = ToSet(free.m.list) \cup {to}
  <2> DEFINE x == free.m
  <2>1. InOrder(x) /\ x.sorted # "reverse"
    BY <1>3
  <2> HIDE DEF x
  <2>2. LET y == insert_MountList(x, to)
        IN  InOrder(y) /\ y.sorted = "forward" /\ ToSet(y.list) = ToSet(x.list) \cup {to}
    BY <2>1, InsertKeeps
  <2> QED
    BY <2>2 DEF x
<1>6. /\ over \in Seq(Dirs) /\ ToSet(over) = ToSet(free.k) \cup {to}
      /\ IsInjective(free.k) /\ to \notin ToSet(free.k) => IsInjective(over)
  BY <1>3, AppendIs
<1>7. ToSet(Detach(over, to)) = ToSet(free.k)
  BY <1>3, DetachLast
<1>8. Agrees(m, k) /\ free.rc = 0 =>
        IsInjective(free.k) /\ ToSet(free.m.list) = ToSet(free.k) /\ to \notin ToSet(free.k)
  BY <1>2 DEF Agrees
<1> HIDE DEF over, kept
<1>9. CASE free.rc # 0
  <2>1. r = free
    BY <1>1, <1>9
  <2> QED
    BY <1>2, <1>3, <2>1 DEF r
<1>10. CASE free.rc = 0 /\ upto = "nothing"
  <2>1. r = [m |-> remove_MountList(free.m, to), rc |-> 1,
             k |-> IF Reachable(free.k, to) /\ to \notin stuck THEN Detach(free.k, to) ELSE free.k]
    BY <1>1, <1>10
  <2>2. Agrees(m, k) => ~Reachable(free.k, to)
    BY <1>8, <1>10 DEF Reachable, Mounted
  <2>3. Detach(free.k, to) \in Seq(Dirs)
    BY <1>3, DetachKeeps
  <2>4. r.m = remove_MountList(free.m, to) /\ r.k \in {free.k, Detach(free.k, to)}
        /\ (Agrees(m, k) => r.k = free.k)
    BY <2>1, <2>2
  <2>5. r.m \in Forward /\ ToSet(r.m.list) = ToSet(free.m.list) \ {to}
    BY <1>3, <1>4, <2>4
  <2> QED
    BY <1>3, <1>8, <1>10, <2>3, <2>4, <2>5 DEF r, Agrees
<1>11. CASE free.rc = 0 /\ upto = "mount"
  <2>1. r = Unclean(kept, over, to, stuck)
    BY <1>1, <1>11
  <2>2. /\ r.m = remove_MountList(kept, to) /\ r.rc = 1
        /\ r.k = IF to \in stuck THEN over ELSE Detach(over, to)
    BY <2>1 DEF Unclean
  <2>3. r.m \in Forward /\ ToSet(r.m.list) = ToSet(kept.list) \ {to}
    BY <1>4, <1>5, <2>2
  <2>4. Detach(over, to) \in Seq(Dirs) /\ (IsInjective(over) => IsInjective(Detach(over, to)))
    BY <1>6, DetachKeeps
  <2> QED
    BY <1>5, <1>6, <1>7, <1>8, <1>11, <2>2, <2>3, <2>4 DEF r, Agrees
<1>12. CASE free.rc = 0 /\ upto = "end"
  <2>1. r = [m |-> kept, k |-> over, rc |-> 0]
    BY <1>1, <1>12
  <2>2. r.m = kept /\ r.k = over
    BY <2>1
  <2> QED
    BY <1>4, <1>5, <1>6, <1>8, <1>12, <2>2 DEF r, Agrees
<1> QED
  BY <1>9, <1>10, <1>11, <1>12

-----------------------------------------------------------------------------
(* The list and what is mounted, in every state.                           *)

ListAndKernel(m, k, a) ==
  /\ InOrder(m)
  /\ k \in Seq(Dirs)
  /\ a => IsInjective(k)
  /\ a /\ m.sorted # "unsorted" => ToSet(m.list) = ToSet(k)

MountInv == ListAndKernel(mounts, kernel, alone)

MountListSpec == MountListInit /\ [][MountListNext]_mlvars

\* As all callers do: unmountTree restores the order of its list.
InsertsForward == InsertInto = {"forward"}

LEMMA MountStart == MountListInit => MountInv
<1> SUFFICES ASSUME MountListInit PROVE MountInv
  OBVIOUS
<1>1. PICK n \in 0 .. MaxMounts - 1 : \E k \in [1 .. n -> Dirs] : MountListStart(k)
  BY DEF MountListInit
<1>2. PICK k \in [1 .. n -> Dirs] : MountListStart(k)
  BY <1>1
<1>3. n \in Nat
  BY <1>1, MountListAssumption
<1>4. k \in Seq(Dirs)
  BY <1>2, <1>3
<1>5. /\ mounts = [list |-> <<>>, sorted |-> "unsorted"] /\ kernel = k
      /\ alone = IsInjective(k)
  BY <1>2 DEF MountListStart
<1>6. InOrder(mounts)
  <2>1. /\ mounts.list = <<>> /\ mounts.list \in Seq(Dirs) /\ DOMAIN mounts.list = {}
        /\ mounts.sorted = "unsorted"
    BY <1>5
  <2>2. mounts \in MountLists
    BY <1>5 DEF MountLists
  <2> QED
    BY <2>1, <2>2 DEF InOrder
<1> QED
  BY <1>4, <1>5, <1>6 DEF MountInv, ListAndKernel

LEMMA MountStep ==
  ASSUME MountInv, [MountListNext]_mlvars, InsertsForward
  PROVE  MountInv'
<1>1. InOrder(mounts) /\ kernel \in Seq(Dirs)
  BY DEF MountInv, ListAndKernel
<1>2. mounts.list # <<>> => mounts.sorted # "unsorted"
  BY <1>1 DEF InOrder
<1>3. CASE UNCHANGED mlvars
  BY <1>3 DEF mlvars, MountInv, ListAndKernel
<1>4. CASE Read
  <2>1. mounts' = Parsed(kernel) /\ kernel' = kernel /\ (alone' => alone)
    BY <1>4 DEF Read, Ended
  <2>2. InOrder(mounts') /\ ToSet(mounts'.list) = ToSet(kernel)
    BY <1>1, <2>1, ParsedGood
  <2> QED
    BY <1>1, <2>1, <2>2 DEF MountInv, ListAndKernel
<1>5. ASSUME NEW sorted \in {"forward", "reverse"}, Sort(sorted) PROVE MountInv'
  <2>1. mounts' = setSort_MountList(mounts, sorted) /\ kernel' = kernel /\ (alone' => alone)
        /\ mounts.list # <<>>
    BY <1>5 DEF Sort, Ended
  <2>2. InOrder(mounts') /\ ToSet(mounts'.list) = ToSet(mounts.list)
    BY <1>1, <1>2, <2>1, SortKeeps
  <2> QED
    BY <1>1, <1>2, <2>1, <2>2 DEF MountInv, ListAndKernel
<1>6. ASSUME NEW p \in Dirs, Elsewhere(p) PROVE MountInv'
  <2>1. mounts' = mounts /\ kernel' = Append(kernel, p) /\ ~alone'
    BY <1>6 DEF Elsewhere, Ended
  <2>2. Append(kernel, p) \in Seq(Dirs)
    BY <1>1
  <2> QED
    BY <1>1, <2>1, <2>2 DEF MountInv, ListAndKernel
<1>7. ASSUME NEW p \in Dirs, Bind(p) PROVE MountInv'
  <2>1. mounts \in Forward
    BY <1>1, <1>7 DEF Bind, Forward, InOrder, InsertsForward
  <2>2. PICK overwrite \in BOOLEAN, stuck \in SUBSET Dirs, upto \in {"nothing", "mount", "end"} :
          Ended("bind", p, BindMount(mounts, kernel, p, overwrite, stuck, upto))
    BY <1>7 DEF Bind
  <2> DEFINE r == BindMount(mounts, kernel, p, overwrite, stuck, upto)
  <2>3. /\ r.m \in Forward /\ r.k \in Seq(Dirs)
        /\ /\ Agrees(mounts, kernel)
           /\ r.rc # 0 => (p \in ToSet(r.k) => p \in ToSet(r.m.list))
           => Agrees(r.m, r.k)
    BY <1>1, <2>1, BindGood
  <2> HIDE DEF r
  <2>4. /\ mounts' = r.m /\ kernel' = r.k
        /\ alone' => alone /\ (r.rc # 0 => (p \in ToSet(r.k) => p \in ToSet(r.m.list)))
    BY <2>2 DEF Ended, r
  <2>5. alone => Agrees(mounts, kernel)
    BY <2>1 DEF MountInv, ListAndKernel, Agrees, Forward
  <2> QED
    BY <2>3, <2>4, <2>5 DEF MountInv, ListAndKernel, Agrees, Forward
<1>8. ASSUME NEW p \in Dirs, Unmount(p) PROVE MountInv'
  <2>1. PICK stuck \in SUBSET Dirs : Ended("unmount", p, UnmountTree(mounts, kernel, p, stuck))
    BY <1>8 DEF Unmount
  <2>2. mounts.sorted # "unsorted"
    BY <1>2, <1>8 DEF Unmount
  <2> DEFINE r == UnmountTree(mounts, kernel, p, stuck)
  <2>3. /\ InOrder(r.m) /\ r.k \in Seq(Dirs)
        /\ Agrees(mounts, kernel) => Agrees(r.m, r.k)
    BY <1>1, <2>2, UnmountGood
  <2> HIDE DEF r
  <2>4. mounts' = r.m /\ kernel' = r.k /\ (alone' => alone)
    BY <2>1 DEF Ended, r
  <2>5. alone => Agrees(mounts, kernel)
    BY <2>2 DEF MountInv, ListAndKernel, Agrees
  <2> QED
    BY <2>3, <2>4, <2>5 DEF MountInv, ListAndKernel, Agrees
<1> QED
  BY <1>3, <1>4, <1>5, <1>6, <1>7, <1>8 DEF MountListNext

LEMMA MountAlways == InsertsForward /\ MountListSpec => []MountInv
<1> SUFFICES ASSUME InsertsForward PROVE MountListSpec => []MountInv OBVIOUS
<1>1. MountListInit => MountInv BY MountStart
<1>2. MountInv /\ [MountListNext]_mlvars => MountInv' BY MountStep
<1> QED BY <1>1, <1>2, PTL DEF MountListSpec

\* ListSound: whatever was removed and reversed, and inserted while the list
\* was in forward order, and whatever failed, bsearch finds in the array of
\* mount points what is in it and nothing else, and what is in it is mounted
\* as long as nobody else mounts.  Of a list in reverse order it is not so.
THEOREM ListStaysSound == InsertsForward /\ MountListSpec => []ListSound
<1>1. MountInv => ListSound
  <2> SUFFICES ASSUME MountInv PROVE ListSound
    OBVIOUS
  <2>1. InOrder(mounts)
    BY DEF MountInv, ListAndKernel
  <2>2. \A p \in Dirs : (find_MountList(mounts, p) # 0) <=> p \in ToSet(mounts.list)
    BY <2>1, FindFinds
  <2>3. alone => ToSet(mounts.list) \subseteq ToSet(kernel)
    <3>1. CASE mounts.sorted = "unsorted"
      <4>1. mounts.list = <<>>
        BY <2>1, <3>1 DEF InOrder
      <4>2. ToSet(mounts.list) = {}
        BY <4>1 DEF ToSet
      <4> QED
        BY <4>2
    <3>2. CASE mounts.sorted # "unsorted"
      BY <3>2 DEF MountInv, ListAndKernel
    <3> QED
      BY <3>1, <3>2
  <2> QED
    BY <2>1, <2>2, <2>3 DEF ListSound, Ordered, InOrder
<1> QED
  BY <1>1, MountAlways, PTL

\* UnmountExact: unmountTree takes nothing away that is not below its base,
\* and when it returns 0 nothing of what was listed below it is still listed
\* or mounted as often as before; of lists as the program makes them.
THEOREM UnmountsExactly == InsertsForward /\ MountListSpec => UnmountExact
<1> DEFINE Exactly ==
      done'.op = "unmount" =>
        LET outside(k) == Without(k, {i \in DOMAIN k : IsBelow(done'.arg, k[i])})
        IN  /\ outside(kernel') = outside(kernel)
            /\ done'.rc = 0 => \A q \in ToSet(mounts.list) :
                 IsBelow(done'.arg, q) => /\ q \notin ToSet(mounts'.list)
                                          /\ Len(kernel') < Len(kernel)
<1>1. ASSUME MountInv, MountListNext PROVE Exactly
  <2>1. InOrder(mounts) /\ kernel \in Seq(Dirs)
    BY <1>1 DEF MountInv, ListAndKernel
  <2>2. CASE \E p \in Dirs : Unmount(p)
    <3>1. PICK p \in Dirs : Unmount(p)
      BY <2>2
    <3>2. PICK stuck \in SUBSET Dirs : Ended("unmount", p, UnmountTree(mounts, kernel, p, stuck))
      BY <3>1 DEF Unmount
    <3>3. mounts.sorted # "unsorted"
      BY <2>1, <3>1 DEF Unmount, InOrder
    <3> DEFINE r == UnmountTree(mounts, kernel, p, stuck)
    <3>4. /\ Outside(p, r.k) = Outside(p, kernel)
          /\ r.rc = 0 => \A q \in ToSet(mounts.list) : IsBelow(p, q) =>
               q \notin ToSet(r.m.list) /\ Len(r.k) < Len(kernel)
      BY <2>1, <3>3, UnmountGood
    <3> HIDE DEF r
    <3>5. mounts' = r.m /\ kernel' = r.k /\ done' = [op |-> "unmount", arg |-> p, rc |-> r.rc]
      BY <3>2 DEF Ended, r
    <3>6. done'.arg = p /\ done'.rc = r.rc
      BY <3>5
    <3> QED
      BY <3>4, <3>5, <3>6 DEF Outside
  <2>3. CASE ~(\E p \in Dirs : Unmount(p))
    <3>1. done'.op # "unmount"
      <4>1. \A op, p, s : Ended(op, p, s) => done'.op = op
        BY DEF Ended
      <4>2. Read => done'.op = "parse"
        BY <4>1 DEF Read
      <4>3. \A sorted : Sort(sorted) => done'.op = "sort"
        BY <4>1 DEF Sort
      <4>4. \A p : Elsewhere(p) => done'.op = "else"
        BY <4>1 DEF Elsewhere
      <4>5. \A p : Bind(p) => done'.op = "bind"
        BY <4>1 DEF Bind
      <4> QED
        BY <1>1, <2>3, <4>2, <4>3, <4>4, <4>5 DEF MountListNext
    <3> QED
      BY <3>1
  <2> QED
    BY <2>2, <2>3
<1>2. MountInv /\ [MountListNext]_mlvars => [Exactly]_mlvars
  BY <1>1
<1> QED
  BY <1>2, MountAlways, PTL DEF MountListSpec, UnmountExact
=============================================================================
