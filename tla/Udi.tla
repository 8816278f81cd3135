-------------------------------- MODULE Udi --------------------------------
(***************************************************************************)
(* The life of a user defined image (UDI) on a compute node.  The prolog   *)
(* of a job (wlm_integration/slurm/shifterSpank.c) has setupRoot build the *)
(* UDI of the job in the mount namespace of the node, the epilog has       *)
(* unsetupRoot destroy it, and between the two the tasks of the job run    *)
(* shifter, which uses the UDI it finds when that is the one it wants and  *)
(* else builds one of its own in a mount namespace of its own.             *)
(*                                                                         *)
(* setupRoot and shifter share the steps (src/shifter_core.c), one action  *)
(* each.  The kernel is external: mounts on one path stack up, a path is   *)
(* unmounted only when it is reached through the topmost mount, and        *)
(* /proc/mounts lists what is covered as well.                             *)
(***************************************************************************)
EXTENDS Naturals, Sequences

CONSTANTS
  Node, Shifters,    \* the programs of prolog and epilog; shifter processes
  Request,           \* image, user, volumes and modules: what is compared
  Looped,            \* the requests whose image is a file to mount
  Paths, Rank,       \* mount points below udiMountPoint, and their order
  Site,              \* those that prepareSiteModifications makes
  Image, Volumes,    \* those of the image and of the volumes of a request
  Ssh,               \* the ssh programs of its image that setupRoot covers
  Writable,          \* mountUdiRootWritable
  Tries,             \* how often destructUDI tries
  Faults,            \* what may go wrong, see CanFail
  MaxFaults,         \* how often that may happen to the node's programs
  None

FaultKinds == {"step", "die", "umount", "torn", "early", "lost", "unsetup"}

ASSUME UdiAssumption ==
  /\ Node \notin Shifters
  /\ None \notin Request /\ None # "torn"
  /\ "torn" \notin Request
  /\ Looped \subseteq Request
  /\ {"root", "loop"} \cap Paths = {}
  /\ Rank \in [Paths -> Nat]
  /\ Site \subseteq Paths
  /\ Image \in [Request -> SUBSET Paths]
  /\ Volumes \in [Request -> SUBSET Paths]
  /\ Ssh \in [Request -> SUBSET Paths]
  /\ Writable \in BOOLEAN
  /\ Tries \in Nat \ {0}
  /\ Faults \subseteq FaultKinds
  /\ MaxFaults \in Nat

VARIABLES
  proc,      \* where each program is
  mnt,       \* what is mounted in the namespace of each
  faults     \* how much has gone wrong with the node's programs

vars == <<proc, mnt, faults>>

Procs == {Node} \cup Shifters

\* A UDI: the request it was built for, the mounts below its root,
\* var/shifterConfig.json in it, and whether its root is read-only.
UDI == [of : Request, has : SUBSET Paths,
        config : Request \cup {None, "torn"}, ro : BOOLEAN]
Blank(r) == [of |-> r, has |-> {}, config |-> None, ro |-> FALSE]
Points(r) == Site \cup Image[r] \cup Volumes[r]
Whole(u)  == /\ Points(u.of) \subseteq u.has
             /\ u.has \subseteq Points(u.of) \cup Ssh[u.of]

\* A namespace: the UDIs on udiMountPoint and the images on
\* loopMountPoint, the topmost first.
Bare == [udi |-> <<>>, loop |-> <<>>]

Idle == [pc |-> "idle", req |-> None, ns |-> "node", next |-> "idle",
         list |-> {}, try |-> 0, root |-> None]

Steps == {"loop", "rootfs", "site", "image", "ssh", "user", "save", "readonly"}

Init ==
  /\ proc = [p \in Procs |-> Idle]
  /\ mnt  = [p \in Procs |-> Bare]
  /\ faults = 0
-----------------------------------------------------------------------------
(* Mounts.                                                                 *)

\* The namespace a program is in, and those its mounts and unmounts reach:
\* before "/" is made a slave they come back to the node.
At(p)      == IF p = Node \/ proc[p].ns = "node" THEN Node ELSE p
Reached(p) == IF At(p) = p /\ proc[p].ns = "peer" THEN {p, Node} ELSE {At(p)}
Mounts(p)  == mnt[At(p)]
Put(p, m)  == mnt' = [q \in Procs |-> IF q \in Reached(p) THEN m ELSE mnt[q]]

Stack(m, u)    == [m EXCEPT !.udi = <<u>> \o @]
Top(m)         == Head(m.udi)
Change(m, u)   == [m EXCEPT !.udi = <<u>> \o Tail(@)]
With(m, paths) == Change(m, [Top(m) EXCEPT !.has = @ \cup paths])

\* parse_MountList: every path once, however many mounts are on it.
Listed(m) ==
  (UNION {m.udi[i].has : i \in DOMAIN m.udi})
    \cup (IF m.udi = <<>> THEN {} ELSE {"root"})
    \cup (IF m.loop = <<>> THEN {} ELSE {"loop"})

\* umount2: what is covered cannot be reached, and a mount point takes what
\* is mounted below it along.
Umountable(m, x) ==
  IF x = "loop" THEN m.loop # <<>>
                ELSE m.udi # <<>> /\ x \in Top(m).has \cup {"root"}
Umount(m, x) ==
  CASE x = "loop" -> [m EXCEPT !.loop = Tail(@)]
    [] x = "root" -> [m EXCEPT !.udi = Tail(@)]
    [] OTHER      -> Change(m, [Top(m) EXCEPT !.has = @ \ {x}])
-----------------------------------------------------------------------------
(* Faults.  "step": a step of the setup fails; "die": setupRoot or shifter *)
(* is killed; "unsetup": unsetupRoot is; "umount": an unmount fails;       *)
(* "torn": shifterConfig.json is written in part; "early": the epilog ends *)
(* before unsetupRoot; "lost": a bind mount of a part of the image fails.  *)

CanFail(kind, p) == kind \in Faults /\ (p = Node => faults < MaxFaults)
Count(p)         == faults' = IF p = Node THEN faults + 1 ELSE faults

Goto(p, pc) == proc' = [proc EXCEPT ![p].pc = pc]

\* The prolog goes on when setupRoot fails, so the job starts nevertheless;
\* the namespace of a shifter ends with it.
GiveUp(p, m) ==
  IF p = Node
    THEN Put(p, m) /\ Goto(p, "job")
    ELSE mnt' = [mnt EXCEPT ![p] = Bare] /\ proc' = [proc EXCEPT ![p] = Idle]
-----------------------------------------------------------------------------
(* destructUDI.                                                            *)

\* It reads the mounts once.
Destruct(p, m, next) ==
  proc' = [proc EXCEPT ![p] = [@ EXCEPT !.pc = "destruct", !.next = next,
                                        !.list = Listed(m), !.try = 0]]

Destructed(p) ==
  IF p # Node /\ proc[p].next = "idle"
    THEN GiveUp(p, Mounts(p))
    ELSE Goto(p, proc[p].next) /\ UNCHANGED mnt

\* Mistake: no second round.
AgainNever(p) == Destructed(p)

\* The next round, or the end: no caller looks at what is returned.
Again(p) ==
  IF proc[p].try + 1 < Tries
    THEN proc' = [proc EXCEPT ![p].try = @ + 1] /\ UNCHANGED mnt
    ELSE Destructed(p)

\* unmountTree goes through the list in reverse order and ends with the
\* first error; what it has unmounted goes off the list.
Below(p) == proc[p].list \cap Paths
Deepest(p, x) ==
  IF Below(p) = {}
    THEN x = "root" /\ x \in proc[p].list
    ELSE x \in Below(p) /\ \A y \in Below(p) : Rank[x] =< Rank[y]

UnmountDone(p, x) ==
  /\ Umountable(Mounts(p), x)
  /\ Put(p, Umount(Mounts(p), x))
  /\ proc' = [proc EXCEPT ![p].list = @ \ {x}]
  /\ UNCHANGED faults

UnmountFails(p, x) ==
  /\ Again(p)
  /\ \/ ~Umountable(Mounts(p), x) /\ UNCHANGED faults
     \/ CanFail("umount", p) /\ Count(p)

UnmountTree(p, x) == UnmountDone(p, x) \/ UnmountFails(p, x)

DestructUDI(p) ==
  /\ proc[p].pc = "destruct"
  /\ \/ \E x \in Paths \cup {"root"} : Deepest(p, x) /\ UnmountTree(p, x)
     \* validateUnmounted of the root, unmountTree of the loop mount.
     \/ /\ proc[p].list \subseteq {"loop"}
        /\ Mounts(p).udi = <<>>
        /\ "loop" \in proc[p].list
        /\ UnmountTree(p, "loop")
     \* One of the two is still there.
     \/ /\ proc[p].list \subseteq {"loop"}
        /\ \/ Mounts(p).udi # <<>>
           \/ proc[p].list = {} /\ Mounts(p).loop # <<>>
        /\ Again(p)
        /\ UNCHANGED faults
     \/ /\ proc[p].list = {}
        /\ Mounts(p) = Bare
        /\ Destructed(p)
        /\ UNCHANGED faults
-----------------------------------------------------------------------------
(* The steps of setupRoot and of loadImage.                                *)

Do(p, step, m, pc) ==
  /\ proc[p].pc = step
  /\ Put(p, m)
  /\ Goto(p, pc)

FirstStep(r) == IF r \in Looped THEN "loop" ELSE "rootfs"
Ready(p)     == IF p = Node THEN "job" ELSE "chroot"

MountImageLoop(p) ==
  /\ Do(p, "loop", [Mounts(p) EXCEPT !.loop = <<proc[p].req>> \o @], "rootfs")
  /\ UNCHANGED faults

MountRootfs(p) ==
  /\ Do(p, "rootfs", Stack(Mounts(p), Blank(proc[p].req)), "site")
  /\ UNCHANGED faults

PrepareSite(p) ==
  /\ Do(p, "site", With(Mounts(p), Site), "image")
  /\ UNCHANGED faults

\* Mistake: a bind mount that fails does not end the setup.
BoundInPart(r) == SUBSET Image[r]

\* bindImageIntoUDI, of "/", "/var", "/opt" and "/etc".  When a directory
\* cannot be made or bound it gives up the tree it is in but returns 0.
Bound(r) == IF "lost" \in Faults THEN SUBSET Image[r] ELSE {Image[r]}

BindImage(p) ==
  /\ proc[p].pc = "image"
  /\ \E paths \in Bound(proc[p].req) :
       Do(p, "image", With(Mounts(p), paths), IF p = Node THEN "ssh" ELSE "user")
  /\ UNCHANGED faults

\* setupImageSsh, in setupRoot and for a user with a key: the ssh of the node
\* is bound onto bin/ssh and usr/bin/ssh where the image has them.
SetupSsh(p) ==
  /\ proc[p].pc = "ssh"
  /\ \E paths \in {{}, Ssh[proc[p].req]} :
       Do(p, "ssh", With(Mounts(p), paths), "user")
  /\ UNCHANGED faults

SetupUserMounts(p) ==
  /\ Do(p, "user", With(Mounts(p), Volumes[proc[p].req]), "save")
  /\ UNCHANGED faults

\* saveShifterConfig looks neither at what fprintf nor at what fclose return.
SaveConfig(p) ==
  \E config \in {proc[p].req, "torn"} :
    /\ Do(p, "save",
          Change(Mounts(p), [Top(Mounts(p)) EXCEPT !.config = config]),
          IF Writable THEN Ready(p) ELSE "readonly")
    /\ IF config = "torn" THEN CanFail("torn", p) /\ Count(p)
                          ELSE UNCHANGED faults

RemountReadonly(p) ==
  /\ Do(p, "readonly",
        Change(Mounts(p), [Top(Mounts(p)) EXCEPT !.ro = TRUE]),
        Ready(p))
  /\ UNCHANGED faults

\* What a step may leave behind that does not come to its end.
Partly(p) ==
  LET m    == Mounts(p)
      r    == proc[p].req
      some == [site |-> Site, image |-> Image[r], ssh |-> Ssh[r],
               user |-> Volumes[r]]
  IN  CASE proc[p].pc \in DOMAIN some ->
             {With(m, paths) : paths \in SUBSET some[proc[p].pc]}
        [] proc[p].pc = "rootfs" -> {m, Stack(m, Blank(r))}
        [] OTHER -> {m}

\* prepareSiteModifications alone cleans up after itself.
StepFails(p) ==
  /\ proc[p].pc \in Steps
  /\ CanFail("step", p)
  /\ \E m \in Partly(p) :
       IF proc[p].pc = "site"
         THEN Put(p, m) /\ Destruct(p, m, IF p = Node THEN "job" ELSE "idle")
         ELSE GiveUp(p, m)
  /\ Count(p)

\* A killed setupRoot leaves what it has mounted.
Die(p) ==
  /\ \/ proc[p].pc \in Steps
     \/ proc[p].pc = "destruct" /\ (p # Node \/ proc[p].next = "job")
  /\ CanFail("die", p)
  /\ \E m \in Partly(p) : GiveUp(p, m)
  /\ Count(p)
-----------------------------------------------------------------------------
(* The job on the node.                                                    *)

Loaded(m) == m.udi # <<>> /\ Top(m).config # None

\* shifterSpank_job_prolog, of a job that asks for an image or for none.
\* It runs setupRoot unless there is a shifterConfig.json or the node is
\* shared, and it does not look at what setupRoot returns.
Prolog ==
  /\ proc[Node].pc = "idle"
  /\ \E r \in Request \cup {None}, shared \in BOOLEAN :
       LET skips == r = None \/ shared \/ Loaded(mnt[Node])
           pc    == IF skips THEN "job" ELSE FirstStep(r)
       IN  proc' = [proc EXCEPT ![Node] = [@ EXCEPT !.req = r, !.pc = pc]]
  /\ UNCHANGED <<mnt, faults>>

\* shifterSpank_job_epilog, once no process of the job is left.
JobEnds ==
  /\ proc[Node].pc = "job"
  /\ \A s \in Shifters : proc[s] = Idle

Epilog ==
  /\ JobEnds
  /\ IF proc[Node].req = None
       THEN proc' = [proc EXCEPT ![Node] = Idle]
       ELSE Destruct(Node, mnt[Node], "idle")
  /\ UNCHANGED <<mnt, faults>>

\* The epilog cannot tell the job, or unsetupRoot is killed.  SLURM takes
\* the node out of service; an operator has put it back.
Hits(kind) ==
  IF kind = "early" THEN JobEnds /\ proc[Node].req # None
                    ELSE proc[Node].pc = "destruct" /\ proc[Node].next = "idle"
EpilogFails ==
  /\ \E kind \in {"early", "unsetup"} : Hits(kind) /\ CanFail(kind, Node)
  /\ proc' = [proc EXCEPT ![Node] = Idle]
  /\ Count(Node)
  /\ UNCHANGED mnt
-----------------------------------------------------------------------------
(* shifter.                                                                *)

Start(s) ==
  /\ proc[Node].pc = "job"
  /\ proc[s].pc = "idle"
  /\ \E r \in Request : proc' = [proc EXCEPT ![s] = [@ EXCEPT !.pc = "check", !.req = r]]
  /\ UNCHANGED <<mnt, faults>>

\* Mistake: any shifterConfig.json will do.
MatchesAny(m, r) == m.udi # <<>> /\ Top(m).config # None

\* isImageLoaded: compareShifterConfig.
Matches(m, r) == m.udi # <<>> /\ Top(m).config = r

Check(s) ==
  /\ proc[s].pc = "check"
  /\ Goto(s, IF Matches(Mounts(s), proc[s].req) THEN "chroot" ELSE "unshare")
  /\ UNCHANGED <<mnt, faults>>

\* loadImage: a namespace of its own, ...
Unshare(s) ==
  /\ proc[s].pc = "unshare"
  /\ mnt' = [mnt EXCEPT ![s] = mnt[Node]]
  /\ proc' = [proc EXCEPT ![s] = [@ EXCEPT !.ns = "peer", !.pc = "slave"]]
  /\ UNCHANGED faults

\* ... from which nothing goes back to the node, ...
MakeSlave(s) ==
  /\ proc[s].pc = "slave"
  /\ proc' = [proc EXCEPT ![s] =
                [@ EXCEPT !.ns = "slave", !.pc = "destruct", !.try = 0,
                          !.list = Listed(mnt[s]), !.next = "validate"]]
  /\ UNCHANGED <<mnt, faults>>

\* Mistake: destructUDI is taken at its word.
ValidateNot(s) ==
  /\ proc[s].pc = "validate"
  /\ Goto(s, FirstStep(proc[s].req))
  /\ UNCHANGED <<mnt, faults>>

\* ... and without the UDI of the node: this is looked at again after
\* destructUDI.  Nothing else changes it, so looking ten times is as once.
Validate(s) ==
  /\ proc[s].pc = "validate"
  /\ IF mnt[s].udi = <<>>
       THEN Goto(s, FirstStep(proc[s].req)) /\ UNCHANGED mnt
       ELSE GiveUp(s, mnt[s])
  /\ UNCHANGED faults

\* chroot, and the program of the user.
Chroot(s) ==
  /\ proc[s].pc = "chroot"
  /\ proc' = [proc EXCEPT ![s] = [@ EXCEPT !.pc = "in", !.root = Top(Mounts(s))]]
  /\ UNCHANGED <<mnt, faults>>

Exit(s) ==
  /\ proc[s].pc = "in"
  /\ GiveUp(s, mnt[s])
  /\ UNCHANGED faults
-----------------------------------------------------------------------------
Setup(p) ==
  \/ MountImageLoop(p) \/ MountRootfs(p) \/ PrepareSite(p) \/ BindImage(p)
  \/ SetupSsh(p) \/ SetupUserMounts(p) \/ SaveConfig(p) \/ RemountReadonly(p)
  \/ StepFails(p) \/ Die(p)

Shifter(s) ==
  \/ Start(s) \/ Check(s) \/ Unshare(s) \/ MakeSlave(s) \/ Validate(s)
  \/ Chroot(s) \/ Exit(s)

Next ==
  \/ Prolog \/ Epilog \/ EpilogFails
  \/ \E p \in Procs : Setup(p) \/ DestructUDI(p)
  \/ \E s \in Shifters : Shifter(s)

Spec == Init /\ [][Next]_vars
-----------------------------------------------------------------------------
(* Properties.                                                             *)

Proc ==
  [ pc   : Steps \cup {"idle", "job", "destruct", "check", "unshare", "slave",
                       "validate", "chroot", "in"},
    req  : Request \cup {None},
    ns   : {"node", "peer", "slave"},
    next : {"idle", "job", "validate"},
    list : SUBSET (Paths \cup {"root", "loop"}),
    try  : 0 .. Tries - 1,
    root : UDI \cup {None} ]

\* Types of the programs, of the namespaces and of the count of faults.
TypeOK ==
  /\ proc \in [Procs -> Proc]
  /\ mnt \in [Procs -> [udi : Seq(UDI), loop : Seq(Looped)]]
  /\ faults \in 0 .. MaxFaults

InImage(s) == proc[s].pc = "in"
Right(s)   == proc[s].root.of = proc[s].req /\ Whole(proc[s].root)

\* A program that shifter started in the UDI of the node (isImageLoaded)
\* runs in the whole of what was asked for, whatever the prologs and
\* epilogs of this job and of those before have left undone.
NodeImage ==
  \A s \in Shifters : InImage(s) /\ proc[s].ns = "node" => Right(s)

\* So does one for which shifter built the UDI itself (loadImage), whatever
\* it found on the node and whichever of its steps failed; its root is
\* read-only unless the site has it writable.
OwnImage ==
  \A s \in Shifters : InImage(s) /\ proc[s].ns # "node" =>
    Right(s) /\ (proc[s].root.ro \/ Writable)

\* The root of every program is read-only unless the site has it writable:
\* of the node's UDI only as long as RemountReadonly, which comes after
\* SaveConfig, does not fail.
ReadonlyRoot ==
  \A s \in Shifters : InImage(s) => proc[s].root.ro \/ Writable

\* A UDI of the node is not below or in place of the one that a shifter
\* builds: destructUDI may fail in loadImage, but then nothing is built.
NothingOld ==
  \A s \in Shifters : proc[s].pc \in Steps =>
    /\ Len(mnt[s].udi) =< 1
    /\ \A i \in DOMAIN mnt[s].udi : mnt[s].udi[i].of = proc[s].req

\* What a shifter mounts and unmounts, in whatever order beside others,
\* is never seen on the node.
NodeUntouched ==
  [][(\E s \in Shifters : proc'[s] # proc[s]) => mnt'[Node] = mnt[Node]]_vars

\* When unsetupRoot comes to its end (and is not killed) nothing of the job is left mounted.
EpilogCleans ==
  [][ proc[Node].pc = "destruct" /\ proc'[Node].pc = "idle" /\ proc'[Node].req # None
        => mnt'[Node] = Bare ]_vars
=============================================================================
