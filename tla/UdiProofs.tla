----------------------------- MODULE UdiProofs -----------------------------
(***************************************************************************)
(* What a shifter may rely on, for every number of shifters, requests,     *)
(* mount points, faults and retries.                                       *)
(*                                                                         *)
(* The invariant has one part for each program: in which states it is in a *)
(* namespace of its own, and what is in the UDI it builds there at each    *)
(* step.  The parts are independent because a program changes its own      *)
(* namespace only, and because nothing runs on the node while shifters do. *)
(***************************************************************************)
EXTENDS Udi, TLAPS

NS == [udi : Seq(UDI), loop : Seq(Looped)]

\* The steps that work on a UDI that has been mounted.
Stage == {"site", "image", "ssh", "user", "save", "readonly"}

\* What a UDI has when a step begins.
Filled(r, pc) ==
  CASE pc = "site"  -> {}
    [] pc = "image" -> Site
    [] pc = "user"  -> Site \cup Image[r]
    [] OTHER        -> Points(r)

\* The UDI that a shifter is building, or has built.
OwnUdi(s, u, pc) ==
  /\ u.of = proc[s].req
  /\ "lost" \notin Faults => u.has = Filled(proc[s].req, pc)
  /\ pc \in {"chroot", "in"} => u.ro \/ Writable

OwnInv(s) ==
  /\ proc[s].pc \in {"loop", "rootfs"} => mnt[s].udi = <<>>
  /\ proc[s].pc \in Stage \cup {"chroot"} =>
       Len(mnt[s].udi) = 1 /\ OwnUdi(s, mnt[s].udi[1], proc[s].pc)
  /\ proc[s].pc = "in" => OwnUdi(s, proc[s].root, "in")

ShifterInv(s) ==
  /\ proc[s].pc \in (Steps \ {"ssh"})
       \cup {"idle", "destruct", "check", "unshare", "slave", "validate",
             "chroot", "in"}
  /\ proc[s].pc = "idle" => proc[s] = Idle
  /\ proc[s].pc # "idle" => proc[s].req \in Request
  /\ proc[s].pc \in {"check", "unshare"} => proc[s].ns = "node"
  /\ proc[s].pc = "slave" => proc[s].ns = "peer"
  /\ proc[s].pc \in Steps \cup {"destruct", "validate"} => proc[s].ns = "slave"
  /\ proc[s].pc \in {"chroot", "in"} => proc[s].ns # "peer"
  /\ proc[s].pc = "destruct" => proc[s].next \in {"idle", "validate"}
  /\ proc[s].pc = "loop" => proc[s].req \in Looped
  /\ proc[s].pc = "in" => proc[s].root \in UDI
  /\ proc[s].ns = "slave" => OwnInv(s)

NodeInv ==
  /\ proc[Node].ns = "node"
  /\ proc[Node].pc \in Steps \cup {"idle", "job", "destruct"}
  /\ proc[Node].pc \in Steps => proc[Node].req \in Request
  /\ proc[Node].pc \in Stage => mnt[Node].udi # <<>>
  /\ proc[Node].pc = "destruct" => proc[Node].next \in {"idle", "job"}
  /\ proc[Node].pc = "loop" => proc[Node].req \in Looped

\* Shifters run in a job only, and one that has found the UDI of the node
\* still finds it there.
JobInv ==
  \A s \in Shifters :
    /\ proc[s].pc # "idle" => proc[Node].pc = "job"
    /\ proc[s].pc = "chroot" /\ proc[s].ns = "node" => mnt[Node].udi # <<>>

UInv ==
  /\ TypeOK
  /\ NodeInv
  /\ JobInv
  /\ \A s \in Shifters : ShifterInv(s)

-----------------------------------------------------------------------------
(* Namespaces.                                                             *)

LEMMA RecordForm ==
  ASSUME NEW m \in NS, NEW x
  PROVE  /\ [m EXCEPT !.udi = x] = [udi |-> x, loop |-> m.loop]
         /\ [m EXCEPT !.loop = x] = [udi |-> m.udi, loop |-> x]
  <1>1. m = [udi |-> m.udi, loop |-> m.loop]
    BY DEF NS
  <1> QED
    BY <1>1

LEMMA BlankType == ASSUME NEW r \in Request PROVE Blank(r) \in UDI
  BY DEF Blank, UDI

LEMMA StackType ==
  ASSUME NEW m \in NS, NEW u \in UDI
  PROVE  Stack(m, u) \in NS /\ Stack(m, u).udi # <<>>
           /\ Len(Stack(m, u).udi) = Len(m.udi) + 1 /\ Top(Stack(m, u)) = u
           /\ Stack(m, u).udi[1] = u
  <1>1. m.udi \in Seq(UDI) /\ m.loop \in Seq(Looped)
    BY DEF NS
  <1>2. <<u>> \o m.udi \in Seq(UDI) /\ Len(<<u>> \o m.udi) = Len(m.udi) + 1
          /\ (<<u>> \o m.udi)[1] = u
    BY <1>1
  <1>3. Stack(m, u) = [udi |-> <<u>> \o m.udi, loop |-> m.loop]
    BY RecordForm DEF Stack
  <1> QED
    BY <1>1, <1>2, <1>3 DEF NS, Top

LEMMA TopType ==
  ASSUME NEW m \in NS, m.udi # <<>>
  PROVE  Top(m) \in UDI /\ Top(m) = m.udi[1] /\ Tail(m.udi) \in Seq(UDI)
           /\ Len(Tail(m.udi)) = Len(m.udi) - 1 /\ Len(m.udi) \in Nat \ {0}
  BY DEF NS, Top

LEMMA ChangeType ==
  ASSUME NEW m \in NS, NEW u \in UDI, m.udi # <<>>
  PROVE  Change(m, u) \in NS /\ Change(m, u).udi # <<>>
           /\ Len(Change(m, u).udi) = Len(m.udi) /\ Change(m, u).udi[1] = u
  <1>1. m.loop \in Seq(Looped) /\ Tail(m.udi) \in Seq(UDI)
          /\ Len(Tail(m.udi)) = Len(m.udi) - 1 /\ Len(m.udi) \in Nat \ {0}
    BY TopType DEF NS
  <1>2. <<u>> \o Tail(m.udi) \in Seq(UDI)
          /\ Len(<<u>> \o Tail(m.udi)) = Len(m.udi)
          /\ (<<u>> \o Tail(m.udi))[1] = u
    BY <1>1
  <1>3. Change(m, u) = [udi |-> <<u>> \o Tail(m.udi), loop |-> m.loop]
    BY RecordForm DEF Change
  <1> QED
    BY <1>1, <1>2, <1>3 DEF NS

LEMMA WithType ==
  ASSUME NEW m \in NS, m.udi # <<>>, NEW paths \in SUBSET Paths
  PROVE  With(m, paths) \in NS /\ With(m, paths).udi # <<>>
           /\ Len(With(m, paths).udi) = Len(m.udi)
           /\ With(m, paths).udi[1] = [m.udi[1] EXCEPT !.has = @ \cup paths]
  <1>1. Top(m) \in UDI /\ Top(m) = m.udi[1]
    BY TopType
  <1>2. [Top(m) EXCEPT !.has = @ \cup paths] \in UDI
    BY <1>1 DEF UDI
  <1> QED
    BY <1>1, <1>2, ChangeType DEF With

LEMMA UmountType ==
  ASSUME NEW m \in NS, NEW x \in Paths \cup {"root", "loop"}, Umountable(m, x)
  PROVE  Umount(m, x) \in NS
  <1>1. CASE x = "loop"
    <2>1. m.loop # <<>> /\ m.loop \in Seq(Looped) /\ m.udi \in Seq(UDI)
      BY <1>1 DEF Umountable, NS
    <2>2. Tail(m.loop) \in Seq(Looped)
      BY <2>1
    <2>3. Umount(m, x) = [udi |-> m.udi, loop |-> Tail(m.loop)]
      BY <1>1, RecordForm DEF Umount
    <2> QED
      BY <2>1, <2>2, <2>3 DEF NS
  <1>2. CASE x = "root"
    <2>1. m.udi # <<>> /\ m.loop \in Seq(Looped)
      BY <1>2 DEF Umountable, NS
    <2>2. Tail(m.udi) \in Seq(UDI)
      BY <2>1, TopType
    <2>3. Umount(m, x) = [udi |-> Tail(m.udi), loop |-> m.loop]
      BY <1>2, RecordForm DEF Umount
    <2> QED
      BY <2>1, <2>2, <2>3 DEF NS
  <1>3. CASE x \notin {"loop", "root"}
    <2>1. m.udi # <<>>
      BY <1>3 DEF Umountable
    <2>2. Top(m) \in UDI
      BY <2>1, TopType
    <2>3. [Top(m) EXCEPT !.has = @ \ {x}] \in UDI
      BY <2>2 DEF UDI
    <2>4. Umount(m, x) = Change(m, [Top(m) EXCEPT !.has = @ \ {x}])
      BY <1>3 DEF Umount
    <2> QED
      BY <2>1, <2>3, <2>4, ChangeType
  <1> QED
    BY <1>1, <1>2, <1>3

LEMMA ListedType ==
  ASSUME NEW m \in NS
  PROVE  Listed(m) \in SUBSET (Paths \cup {"root", "loop"})
  <1>1. \A i \in DOMAIN m.udi : m.udi[i].has \subseteq Paths
    <2> TAKE i \in DOMAIN m.udi
    <2>1. m.udi \in Seq(UDI)
      BY DEF NS
    <2>2. m.udi[i] \in UDI
      BY <2>1
    <2> QED
      BY <2>2 DEF UDI
  <1> QED
    BY <1>1 DEF Listed
-----------------------------------------------------------------------------
(* What the invariant says of a program that is at work, and what has to   *)
(* be shown of a step of it.                                               *)

Working(p) == proc[p].pc \in Steps \cup {"destruct"}

\* A program at work acts on one namespace.
LEMMA AtWork ==
  ASSUME UInv, NEW p \in Procs, Working(p)
  PROVE  At(p) = p /\ Reached(p) = {p} /\ Mounts(p) = mnt[p] /\ mnt[p] \in NS
           /\ \A m : Put(p, m) => mnt' = [mnt EXCEPT ![p] = m]
  <1> USE UdiAssumption
  <1>1. At(p) = p
    <2>1. CASE p = Node
      BY <2>1 DEF At
    <2>2. CASE p # Node
      <3>1. p \in Shifters /\ proc[p].ns = "slave"
        BY <2>2 DEF UInv, ShifterInv, Working, Procs
      <3> QED
        BY <3>1, <2>2 DEF At
    <2> QED
      BY <2>1, <2>2
  <1>2. Reached(p) = {p}
    <2>1. proc[p].ns # "peer"
      BY DEF UInv, ShifterInv, NodeInv, Working, Procs
    <2> QED
      BY <1>1, <2>1 DEF Reached
  <1>3. mnt \in [Procs -> NS]
    BY DEF UInv, TypeOK, NS
  <1>4. \A m : Put(p, m) => mnt' = [mnt EXCEPT ![p] = m]
    BY <1>2, <1>3 DEF Put
  <1> QED
    BY <1>1, <1>2, <1>3, <1>4 DEF Mounts

\* While a program other than a shifter moves, no shifter is there.
LEMMA NodeAlone ==
  ASSUME UInv, proc[Node].pc # "job" \/ JobEnds
  PROVE  \A s \in Shifters : proc[s] = Idle
  BY DEF UInv, JobInv, ShifterInv, JobEnds

LEMMA ShifterFrame ==
  ASSUME UInv, NEW s \in Shifters,
         proc' \in [Procs -> Proc], mnt' \in [Procs -> NS],
         faults' \in 0 .. MaxFaults,
         \A q \in Procs \ {s} : proc'[q] = proc[q] /\ mnt'[q] = mnt[q],
         proc[Node].pc = "job",
         proc'[s].pc = "chroot" /\ proc'[s].ns = "node" => mnt[Node].udi # <<>>,
         ShifterInv(s)'
  PROVE  UInv'
  <1> USE UdiAssumption
  <1>1. TypeOK'
    BY DEF TypeOK, NS
  <1>2. Node \in Procs \ {s}
    BY DEF Procs
  <1>3. NodeInv'
    BY <1>2 DEF UInv, NodeInv
  <1>4. \A t \in Shifters \ {s} : ShifterInv(t)'
    <2> TAKE t \in Shifters \ {s}
    <2>1. proc'[t] = proc[t] /\ mnt'[t] = mnt[t]
      BY DEF Procs
    <2>2. ShifterInv(t)
      BY DEF UInv
    <2> QED
      BY <2>1, <2>2 DEF ShifterInv, OwnInv, OwnUdi
  <1>5. JobInv'
    <2>1. \A t \in Shifters \ {s} : proc'[t] = proc[t]
      BY DEF Procs
    <2>2. proc'[Node] = proc[Node] /\ mnt'[Node] = mnt[Node]
      BY <1>2
    <2> QED
      BY <2>1, <2>2 DEF UInv, JobInv
  <1> QED
    BY <1>1, <1>3, <1>4, <1>5 DEF UInv

LEMMA NodeFrame ==
  ASSUME UInv, \A s \in Shifters : proc[s] = Idle,
         proc' \in [Procs -> Proc], mnt' \in [Procs -> NS],
         faults' \in 0 .. MaxFaults,
         \A q \in Shifters : proc'[q] = proc[q] /\ mnt'[q] = mnt[q],
         NodeInv'
  PROVE  UInv'
  <1> USE UdiAssumption
  <1>1. TypeOK'
    BY DEF TypeOK, NS
  <1>0. Idle.pc = "idle" /\ Idle.ns = "node"
    BY DEF Idle
  <1>2. \A s \in Shifters : proc'[s] = Idle /\ proc'[s].pc = "idle"
          /\ proc'[s].ns = "node"
    <2> TAKE s \in Shifters
    <2>1. proc'[s] = Idle
      OBVIOUS
    <2> QED
      BY <1>0, <2>1
  <1>3. \A s \in Shifters : ShifterInv(s)'
    BY <1>2 DEF ShifterInv, Steps
  <1>4. JobInv'
    BY <1>2 DEF JobInv
  <1> QED
    BY <1>1, <1>3, <1>4 DEF UInv

\* A program at work goes on in its own namespace, or is done.
LEMMA WorkStep ==
  ASSUME UInv, NEW p \in Procs, Working(p), NEW m \in NS, NEW r \in Proc,
         mnt' = [mnt EXCEPT ![p] = m], proc' = [proc EXCEPT ![p] = r],
         faults' \in 0 .. MaxFaults,
         p = Node => NodeInv',
         p \in Shifters => ShifterInv(p)' /\ (r.ns = "node" => r.pc # "chroot")
  PROVE  UInv'
  <1> USE UdiAssumption
  <1>1. proc \in [Procs -> Proc] /\ mnt \in [Procs -> NS]
    BY DEF UInv, TypeOK, NS
  <1>2. proc' \in [Procs -> Proc] /\ mnt' \in [Procs -> NS]
          /\ proc'[p] = r /\ mnt'[p] = m
          /\ \A q \in Procs \ {p} : proc'[q] = proc[q] /\ mnt'[q] = mnt[q]
    BY <1>1
  <1>3. CASE p = Node
    <2>1. proc[Node].pc # "job"
      BY <1>3 DEF Working, Steps
    <2>2. \A s \in Shifters : proc[s] = Idle
      BY <2>1, NodeAlone
    <2>3. \A q \in Shifters : proc'[q] = proc[q] /\ mnt'[q] = mnt[q]
      BY <1>2, <1>3 DEF Procs
    <2> QED
      BY <1>2, <1>3, <2>2, <2>3, NodeFrame
  <1>4. CASE p \in Shifters
    <2>1. proc[p].pc # "idle"
      BY DEF Working, Steps
    <2>2. proc[Node].pc = "job"
      BY <1>4, <2>1 DEF UInv, JobInv
    <2> QED
      BY <1>2, <1>4, <2>2, ShifterFrame
  <1> QED
    BY <1>3, <1>4 DEF Procs

LEMMA ProcForm ==
  ASSUME NEW r \in Proc, NEW x
  PROVE  [r EXCEPT !.pc = x] = [pc |-> x, req |-> r.req, ns |-> r.ns,
           next |-> r.next, list |-> r.list, try |-> r.try, root |-> r.root]
  <1>1. r = [pc |-> r.pc, req |-> r.req, ns |-> r.ns, next |-> r.next,
             list |-> r.list, try |-> r.try, root |-> r.root]
    BY DEF Proc
  <1> QED
    BY <1>1

\* A step of the setup that comes to its end.
LEMMA SetupStep ==
  ASSUME UInv, NEW p \in Procs, proc[p].pc \in Steps, NEW m \in NS,
         NEW pc \in Stage \cup {"rootfs", Ready(p)},
         Put(p, m), Goto(p, pc), faults' \in 0 .. MaxFaults,
         p = Node /\ pc \in Stage => m.udi # <<>>,
         p \in Shifters =>
           /\ pc # "ssh"
           /\ pc = "rootfs" => m.udi = <<>>
           /\ pc # "rootfs" => Len(m.udi) = 1 /\ OwnUdi(p, m.udi[1], pc)
  PROVE  UInv'
  <1> USE UdiAssumption
  <1> DEFINE r == [proc[p] EXCEPT !.pc = pc]
  <1>1. proc \in [Procs -> Proc] /\ mnt \in [Procs -> NS] /\ proc[p] \in Proc
    BY DEF UInv, TypeOK, NS
  <1>2. r = [pc |-> pc, req |-> proc[p].req, ns |-> proc[p].ns,
             next |-> proc[p].next, list |-> proc[p].list,
             try |-> proc[p].try, root |-> proc[p].root]
    BY <1>1, ProcForm
  <1>3. pc \in Steps \cup {"job", "chroot"} /\ pc # "loop"
    BY DEF Stage, Ready, Steps
  <1>4. r \in Proc
    BY <1>1, <1>2, <1>3 DEF Proc
  <1>5. Working(p)
    BY DEF Working
  <1>6. mnt' = [mnt EXCEPT ![p] = m]
    BY <1>5, AtWork
  <1>7. proc' = [proc EXCEPT ![p] = r]
    BY DEF Goto
  <1>8. proc'[p] = r /\ mnt'[p] = m
    BY <1>1, <1>6, <1>7
  <1>9. ASSUME p = Node PROVE NodeInv'
    <2>1. NodeInv /\ pc # "chroot"
      BY <1>9 DEF UInv, Ready, Stage
    <2>2. proc'[Node].pc = pc /\ proc'[Node].req = proc[Node].req
            /\ proc'[Node].ns = proc[Node].ns /\ mnt'[Node] = m
      BY <1>2, <1>8, <1>9
    <2>3. pc # "destruct" /\ (pc \in Stage => m.udi # <<>>)
      BY <1>3, <1>9 DEF Steps
    <2> QED
      BY <1>3, <1>9, <2>1, <2>2, <2>3 DEF NodeInv
  <1>10. ASSUME p \in Shifters
         PROVE  ShifterInv(p)' /\ (r.ns = "node" => r.pc # "chroot")
    <2>1. ShifterInv(p) /\ proc[p].ns = "slave" /\ pc # "job"
            /\ proc[p].req \in Request
      BY <1>10 DEF UInv, ShifterInv, Ready, Stage, Steps
    <2>2. pc \in (Steps \ {"loop", "ssh"}) \cup {"chroot"}
      BY <1>3, <1>10, <2>1
    <2>3. OwnInv(p)'
      <3>1. pc # "rootfs" => OwnUdi(p, m.udi[1], pc)'
        BY <1>2, <1>8, <1>10 DEF OwnUdi
      <3>2. proc'[p].pc = pc /\ pc # "in"
        BY <1>2, <1>8, <2>2 DEF Steps
      <3> QED
        BY <1>3, <1>8, <1>10, <3>1, <3>2 DEF OwnInv, Stage
    <2> QED
      BY <1>2, <1>8, <2>1, <2>2, <2>3 DEF ShifterInv, Steps
  <1> HIDE DEF r
  <1> QED
    BY <1>4, <1>5, <1>6, <1>7, <1>9, <1>10, WorkStep

-----------------------------------------------------------------------------
(* The steps of the setup.                                                 *)

LEMMA AtStep ==
  ASSUME UInv, NEW p \in Procs, proc[p].pc \in Steps
  PROVE  /\ Working(p) /\ Mounts(p) = mnt[p] /\ mnt[p] \in NS
         /\ proc[p].req \in Request
         /\ proc[p].pc \in Stage => mnt[p].udi # <<>>
         /\ p \in Shifters /\ proc[p].pc \in Stage =>
              Len(mnt[p].udi) = 1 /\ OwnUdi(p, mnt[p].udi[1], proc[p].pc)
  <1>1. Working(p)
    BY DEF Working
  <1>2. CASE p = Node
    <2>1. NodeInv /\ Node \notin Shifters
      BY UdiAssumption DEF UInv
    <2> QED
      BY <1>1, <1>2, <2>1, AtWork DEF NodeInv
  <1>3. CASE p \in Shifters
    <2>1. ShifterInv(p) /\ proc[p].pc # "idle"
      BY <1>3 DEF UInv, Steps
    <2>2. OwnInv(p) /\ proc[p].req \in Request
      BY <2>1 DEF ShifterInv
    <2>3. proc[p].pc \in Stage =>
            Len(mnt[p].udi) = 1 /\ OwnUdi(p, mnt[p].udi[1], proc[p].pc)
      BY <2>2 DEF OwnInv
    <2>4. Len(mnt[p].udi) = 1 => mnt[p].udi # <<>>
      OBVIOUS
    <2> QED
      BY <1>1, <2>2, <2>3, <2>4, AtWork
  <1> QED
    BY <1>2, <1>3 DEF Procs

LEMMA FaultsType ==
  ASSUME UInv
  PROVE  /\ UNCHANGED faults => faults' \in 0 .. MaxFaults
         /\ \A kind, p : CanFail(kind, p) /\ Count(p) => faults' \in 0 .. MaxFaults
  <1>1. faults \in 0 .. MaxFaults /\ MaxFaults \in Nat
    BY UdiAssumption DEF UInv, TypeOK
  <1> QED
    BY <1>1 DEF CanFail, Count

LEMMA MountImageLoopStep ==
  ASSUME UInv, NEW p \in Procs, MountImageLoop(p) PROVE UInv'
  <1> DEFINE m == [mnt[p] EXCEPT !.loop = <<proc[p].req>> \o @]
  <1>1. proc[p].pc = "loop" /\ proc[p].pc \in Steps
    BY DEF MountImageLoop, Do, Steps
  <1>2. Mounts(p) = mnt[p] /\ mnt[p] \in NS /\ faults' \in 0 .. MaxFaults
    BY <1>1, AtStep, FaultsType DEF MountImageLoop
  <1>3. proc[p].req \in Looped
    BY <1>1 DEF UInv, NodeInv, ShifterInv, Procs
  <1>4. m = [udi |-> mnt[p].udi, loop |-> <<proc[p].req>> \o mnt[p].loop]
    BY <1>2, RecordForm
  <1>5. <<proc[p].req>> \o mnt[p].loop \in Seq(Looped) /\ mnt[p].udi \in Seq(UDI)
    BY <1>2, <1>3 DEF NS
  <1>6. m \in NS
    BY <1>4, <1>5 DEF NS
  <1>7. Put(p, m) /\ Goto(p, "rootfs")
    BY <1>2 DEF MountImageLoop, Do
  <1>8. p \in Shifters => m.udi = <<>>
    <2>1. p \in Shifters => proc[p].ns = "slave" /\ OwnInv(p)
      BY <1>1 DEF UInv, ShifterInv
    <2> QED
      BY <1>1, <1>4, <2>1 DEF OwnInv
  <1> HIDE DEF m
  <1> QED
    BY <1>1, <1>2, <1>6, <1>7, <1>8, SetupStep DEF Stage

LEMMA MountRootfsStep ==
  ASSUME UInv, NEW p \in Procs, MountRootfs(p) PROVE UInv'
  <1> DEFINE u == Blank(proc[p].req)
             m == Stack(mnt[p], u)
  <1>1. proc[p].pc = "rootfs" /\ proc[p].pc \in Steps
    BY DEF MountRootfs, Do, Steps
  <1>2. Mounts(p) = mnt[p] /\ mnt[p] \in NS /\ faults' \in 0 .. MaxFaults
          /\ proc[p].req \in Request
    BY <1>1, AtStep, FaultsType DEF MountRootfs
  <1>3. u \in UDI
    BY <1>2, BlankType
  <1>4. m \in NS /\ m.udi # <<>> /\ m.udi[1] = u
          /\ Len(m.udi) = Len(mnt[p].udi) + 1
    BY <1>2, <1>3, StackType
  <1>5. Put(p, m) /\ Goto(p, "site")
    BY <1>2 DEF MountRootfs, Do
  <1>6. p \in Shifters => Len(m.udi) = 1
    <2>1. p \in Shifters => proc[p].ns = "slave" /\ OwnInv(p)
      BY <1>1 DEF UInv, ShifterInv, Steps
    <2>2. p \in Shifters => mnt[p].udi = <<>>
      BY <1>1, <2>1 DEF OwnInv
    <2> HIDE DEF m
    <2> QED
      BY <1>4, <2>2
  <1>7. OwnUdi(p, u, "site")
    BY DEF OwnUdi, Blank, Filled
  <1> HIDE DEF m, u
  <1> QED
    BY <1>1, <1>2, <1>4, <1>5, <1>6, <1>7, SetupStep DEF Stage

\* A step that adds mounts to the UDI.
LEMMA AddStep ==
  ASSUME UInv, NEW p \in Procs, proc[p].pc \in Stage,
         NEW paths \in SUBSET Paths, NEW pc \in Stage, pc \notin {"site"},
         p \in Shifters => pc # "ssh",
         p \in Shifters /\ "lost" \notin Faults =>
           Filled(proc[p].req, pc) = Filled(proc[p].req, proc[p].pc) \cup paths,
         Put(p, With(Mounts(p), paths)), Goto(p, pc), UNCHANGED faults
  PROVE  UInv'
  <1> DEFINE m == With(mnt[p], paths)
             u == mnt[p].udi[1]
  <1>1. proc[p].pc \in Steps
    BY DEF Stage, Steps
  <1>2. Mounts(p) = mnt[p] /\ mnt[p] \in NS /\ faults' \in 0 .. MaxFaults
          /\ mnt[p].udi # <<>>
    BY <1>1, AtStep, FaultsType
  <1>3. m \in NS /\ m.udi # <<>> /\ Len(m.udi) = Len(mnt[p].udi)
          /\ m.udi[1] = [u EXCEPT !.has = @ \cup paths]
    BY <1>2, WithType
  <1>4. Put(p, m)
    BY <1>2
  <1>5. ASSUME p \in Shifters
        PROVE  Len(m.udi) = 1 /\ OwnUdi(p, m.udi[1], pc)
    <2>1. Len(mnt[p].udi) = 1 /\ OwnUdi(p, u, proc[p].pc)
      BY <1>1, <1>5, AtStep
    <2>2. u \in UDI
      BY <1>2, TopType
    <2>3. m.udi[1].of = u.of /\ m.udi[1].has = u.has \cup paths
      <3> HIDE DEF m, u
      <3> QED
        BY <1>3, <2>2 DEF UDI
    <2>4. pc \notin {"chroot", "in"}
      BY DEF Stage
    <2> HIDE DEF m, u
    <2> QED
      BY <1>3, <1>5, <2>1, <2>3, <2>4 DEF OwnUdi
  <1> HIDE DEF m, u
  <1> QED
    BY <1>1, <1>2, <1>3, <1>4, <1>5, SetupStep DEF Stage

LEMMA PrepareSiteStep ==
  ASSUME UInv, NEW p \in Procs, PrepareSite(p) PROVE UInv'
  <1>1. proc[p].pc = "site" /\ proc[p].pc \in Stage
    BY DEF PrepareSite, Do, Stage
  <1>2. Site \in SUBSET Paths
    BY UdiAssumption DEF UdiAssumption
  <1>3. Filled(proc[p].req, "image") = Filled(proc[p].req, proc[p].pc) \cup Site
    BY <1>1 DEF Filled
  <1>4. Put(p, With(Mounts(p), Site)) /\ Goto(p, "image") /\ UNCHANGED faults
    BY DEF PrepareSite, Do
  <1>5. "image" \in Stage
    BY DEF Stage
  <1> QED
    BY <1>1, <1>2, <1>3, <1>4, <1>5, AddStep

LEMMA BindImageStep ==
  ASSUME UInv, NEW p \in Procs, BindImage(p) PROVE UInv'
  <1>1. proc[p].pc = "image" /\ proc[p].pc \in Stage \cap Steps
    BY DEF BindImage, Stage, Steps
  <1>2. PICK paths \in Bound(proc[p].req) :
          Do(p, "image", With(Mounts(p), paths), IF p = Node THEN "ssh" ELSE "user")
    BY DEF BindImage
  <1>3. proc[p].req \in Request
    BY <1>1, AtStep
  <1>4. paths \in SUBSET Paths /\ ("lost" \notin Faults => paths = Image[proc[p].req])
    BY <1>2, <1>3, UdiAssumption DEF UdiAssumption, Bound
  <1>5. Filled(proc[p].req, "image") = Site
          /\ Filled(proc[p].req, "user") = Site \cup Image[proc[p].req]
    BY DEF Filled
  <1>6. Put(p, With(Mounts(p), paths)) /\ UNCHANGED faults
          /\ Goto(p, IF p = Node THEN "ssh" ELSE "user")
    BY <1>2 DEF BindImage, Do
  <1>7. {"ssh", "user"} \subseteq Stage
    BY DEF Stage
  <1>8. CASE p = Node
    BY <1>1, <1>4, <1>6, <1>7, <1>8, AddStep, UdiAssumption DEF UdiAssumption
  <1>9. CASE p # Node
    BY <1>1, <1>4, <1>5, <1>6, <1>7, <1>9, AddStep
  <1> QED
    BY <1>8, <1>9

LEMMA SetupSshStep ==
  ASSUME UInv, NEW p \in Procs, SetupSsh(p) PROVE UInv'
  <1>1. proc[p].pc = "ssh" /\ proc[p].pc \in Stage \cap Steps
    BY DEF SetupSsh, Do, Stage, Steps
  <1>2. p \notin Shifters
    BY <1>1 DEF UInv, ShifterInv
  <1>3. PICK paths \in {{}, Ssh[proc[p].req]} :
          Do(p, "ssh", With(Mounts(p), paths), "user")
    BY DEF SetupSsh
  <1>4. proc[p].req \in Request
    BY <1>1, AtStep
  <1>5. paths \in SUBSET Paths
    BY <1>3, <1>4, UdiAssumption DEF UdiAssumption
  <1>6. Put(p, With(Mounts(p), paths)) /\ Goto(p, "user") /\ UNCHANGED faults
    BY <1>3 DEF SetupSsh, Do
  <1>7. "user" \in Stage
    BY DEF Stage
  <1> QED
    BY <1>1, <1>2, <1>5, <1>6, <1>7, AddStep

LEMMA SetupUserMountsStep ==
  ASSUME UInv, NEW p \in Procs, SetupUserMounts(p) PROVE UInv'
  <1> DEFINE paths == Volumes[proc[p].req]
  <1>1. proc[p].pc = "user" /\ proc[p].pc \in Stage \cap Steps
    BY DEF SetupUserMounts, Do, Stage, Steps
  <1>2. proc[p].req \in Request
    BY <1>1, AtStep
  <1>3. paths \in SUBSET Paths
    BY <1>2, UdiAssumption DEF UdiAssumption
  <1>4. Filled(proc[p].req, "save") = Filled(proc[p].req, proc[p].pc) \cup paths
    BY <1>1 DEF Filled, Points
  <1>5. Put(p, With(Mounts(p), paths)) /\ Goto(p, "save") /\ UNCHANGED faults
    BY DEF SetupUserMounts, Do
  <1>6. "save" \in Stage
    BY DEF Stage
  <1> HIDE DEF paths
  <1> QED
    BY <1>1, <1>3, <1>4, <1>5, <1>6, AddStep

\* A step that marks the UDI, which is complete.
LEMMA MarkStep ==
  ASSUME UInv, NEW p \in Procs, proc[p].pc \in {"save", "readonly"},
         NEW u \in UDI, u.of = mnt[p].udi[1].of, u.has = mnt[p].udi[1].has,
         NEW pc \in {"readonly", Ready(p)},
         pc # "readonly" => u.ro \/ Writable,
         Put(p, Change(Mounts(p), u)), Goto(p, pc), faults' \in 0 .. MaxFaults
  PROVE  UInv'
  <1> DEFINE m == Change(mnt[p], u)
  <1>1. proc[p].pc \in Steps \cap Stage
    BY DEF Stage, Steps
  <1>2. Mounts(p) = mnt[p] /\ mnt[p] \in NS /\ mnt[p].udi # <<>>
    BY <1>1, AtStep
  <1>3. m \in NS /\ m.udi # <<>> /\ Len(m.udi) = Len(mnt[p].udi)
          /\ m.udi[1] = u
    BY <1>2, ChangeType
  <1>4. Put(p, m)
    BY <1>2
  <1>5. ASSUME p \in Shifters
        PROVE  pc \in {"readonly", "chroot"} /\ Len(m.udi) = 1
                 /\ OwnUdi(p, m.udi[1], pc)
    <2>1. Len(mnt[p].udi) = 1 /\ OwnUdi(p, mnt[p].udi[1], proc[p].pc)
      BY <1>1, <1>5, AtStep
    <2>2. pc \in {"readonly", "chroot"}
      BY <1>5, UdiAssumption DEF UdiAssumption, Ready
    <2>3. Filled(proc[p].req, pc) = Filled(proc[p].req, proc[p].pc)
      BY <2>2 DEF Filled
    <2> HIDE DEF m
    <2> QED
      BY <1>3, <2>1, <2>2, <2>3 DEF OwnUdi
  <1>6. pc \in Stage \cup {"rootfs", Ready(p)} /\ pc \notin {"ssh", "rootfs"}
    BY DEF Stage, Ready
  <1> HIDE DEF m
  <1> QED
    BY <1>1, <1>2, <1>3, <1>4, <1>5, <1>6, SetupStep

LEMMA SaveConfigStep ==
  ASSUME UInv, NEW p \in Procs, SaveConfig(p) PROVE UInv'
  <1> DEFINE top       == mnt[p].udi[1]
             u(config) == [top EXCEPT !.config = config]
             pc        == IF Writable THEN Ready(p) ELSE "readonly"
  <1>1. PICK config \in {proc[p].req, "torn"} :
          /\ Do(p, "save", Change(Mounts(p), [Top(Mounts(p)) EXCEPT !.config = config]),
                pc)
          /\ IF config = "torn" THEN CanFail("torn", p) /\ Count(p)
                                ELSE UNCHANGED faults
    BY DEF SaveConfig
  <1>2. proc[p].pc = "save" /\ proc[p].pc \in Steps \cap Stage
    BY <1>1 DEF Do, Stage, Steps
  <1>3. Mounts(p) = mnt[p] /\ mnt[p] \in NS /\ mnt[p].udi # <<>>
          /\ proc[p].req \in Request
    BY <1>2, AtStep
  <1>4. Top(mnt[p]) = top /\ top \in UDI
    BY <1>3, TopType
  <1>5. u(config) \in UDI /\ u(config).of = top.of /\ u(config).has = top.has
    <2> HIDE DEF top
    <2>1. config \in Request \cup {None, "torn"}
      BY <1>3
    <2> QED
      BY <1>4, <2>1 DEF UDI
  <1>6. Put(p, Change(Mounts(p), u(config))) /\ Goto(p, pc)
    BY <1>1, <1>3, <1>4 DEF Do
  <1>7. faults' \in 0 .. MaxFaults
    BY <1>1, FaultsType
  <1>8. pc \in {"readonly", Ready(p)} /\ (pc # "readonly" => Writable)
    OBVIOUS
  <1> HIDE DEF u, pc
  <1> QED
    BY <1>2, <1>5, <1>6, <1>7, <1>8, MarkStep

LEMMA RemountReadonlyStep ==
  ASSUME UInv, NEW p \in Procs, RemountReadonly(p) PROVE UInv'
  <1> DEFINE top == mnt[p].udi[1]
             u   == [top EXCEPT !.ro = TRUE]
  <1>1. proc[p].pc = "readonly" /\ proc[p].pc \in Steps \cap Stage
    BY DEF RemountReadonly, Do, Stage, Steps
  <1>2. Mounts(p) = mnt[p] /\ mnt[p] \in NS /\ mnt[p].udi # <<>>
          /\ faults' \in 0 .. MaxFaults
    BY <1>1, AtStep, FaultsType DEF RemountReadonly
  <1>3. Top(mnt[p]) = top /\ top \in UDI
    BY <1>2, TopType
  <1>4. u \in UDI /\ u.of = top.of /\ u.has = top.has /\ u.ro = TRUE
    <2> HIDE DEF top
    <2> QED
      BY <1>3 DEF UDI
  <1>5. Put(p, Change(Mounts(p), u)) /\ Goto(p, Ready(p))
    BY <1>2, <1>3 DEF RemountReadonly, Do
  <1> HIDE DEF u
  <1> QED
    BY <1>1, <1>2, <1>4, <1>5, MarkStep

-----------------------------------------------------------------------------
(* The ends of the setup, and destructUDI.                                 *)

LEMMA IdleType == Idle \in Proc /\ Bare \in NS
  <1>1. 0 \in 0 .. Tries - 1
    BY UdiAssumption DEF UdiAssumption
  <1> QED
    BY <1>1 DEF Idle, Bare, Proc, NS

LEMMA ShifterEnds ==
  ASSUME UInv, NEW s \in Shifters, proc[s].pc # "idle",
         \E m : GiveUp(s, m), faults' \in 0 .. MaxFaults
  PROVE  UInv'
  <1> USE UdiAssumption DEF UdiAssumption
  <1>1. mnt' = [mnt EXCEPT ![s] = Bare] /\ proc' = [proc EXCEPT ![s] = Idle]
    BY DEF GiveUp
  <1>2. proc \in [Procs -> Proc] /\ mnt \in [Procs -> NS] /\ s \in Procs
    BY DEF UInv, TypeOK, NS, Procs
  <1>3. proc' \in [Procs -> Proc] /\ mnt' \in [Procs -> NS] /\ proc'[s] = Idle
          /\ \A q \in Procs \ {s} : proc'[q] = proc[q] /\ mnt'[q] = mnt[q]
    BY <1>1, <1>2, IdleType
  <1>4. Idle.pc = "idle" /\ Idle.ns = "node"
    BY DEF Idle
  <1>5. proc'[s].pc = "idle" /\ proc'[s].ns = "node"
    BY <1>3, <1>4
  <1>6. ShifterInv(s)'
    BY <1>3, <1>5 DEF ShifterInv, Steps
  <1>7. proc[Node].pc = "job"
    BY DEF UInv, JobInv
  <1> QED
    BY <1>3, <1>5, <1>6, <1>7, ShifterFrame

\* setupRoot goes away, the job starts.
LEMMA NodeGivesUp ==
  ASSUME UInv, Working(Node), NEW m \in NS, Put(Node, m),
         NEW pc \in {"job", "idle"}, Goto(Node, pc), faults' \in 0 .. MaxFaults
  PROVE  UInv'
  <1> USE UdiAssumption DEF UdiAssumption
  <1> DEFINE r == [proc[Node] EXCEPT !.pc = pc]
  <1>1. Node \in Procs /\ proc \in [Procs -> Proc] /\ mnt \in [Procs -> NS]
          /\ proc[Node] \in Proc
    BY DEF UInv, TypeOK, NS, Procs
  <1>2. r = [pc |-> pc, req |-> proc[Node].req, ns |-> proc[Node].ns,
             next |-> proc[Node].next, list |-> proc[Node].list,
             try |-> proc[Node].try, root |-> proc[Node].root]
    BY <1>1, ProcForm
  <1>3. r \in Proc /\ r.pc = pc /\ r.ns = proc[Node].ns
    BY <1>1, <1>2 DEF Proc
  <1>4. mnt' = [mnt EXCEPT ![Node] = m]
    BY <1>1, AtWork
  <1>5. proc' = [proc EXCEPT ![Node] = r] /\ proc'[Node] = r
    BY <1>1 DEF Goto
  <1> HIDE DEF r
  <1>6. pc \notin Steps \cup Stage \cup {"destruct"}
    BY DEF Steps, Stage
  <1>7. "loop" \in Steps
    BY DEF Steps
  <1>8. NodeInv'
    BY <1>3, <1>5, <1>6, <1>7 DEF UInv, NodeInv
  <1> QED
    BY <1>1, <1>3, <1>4, <1>5, <1>8, WorkStep

LEMMA GiveUpStep ==
  ASSUME UInv, NEW p \in Procs, Working(p), NEW m \in NS, GiveUp(p, m),
         faults' \in 0 .. MaxFaults
  PROVE  UInv'
  <1>1. CASE p = Node
    BY <1>1, NodeGivesUp DEF GiveUp
  <1>2. CASE p \in Shifters
    <2>1. proc[p].pc # "idle"
      BY DEF Working, Steps
    <2> QED
      BY <1>2, <2>1, ShifterEnds
  <1> QED
    BY <1>1, <1>2 DEF Procs

LEMMA PartlyType ==
  ASSUME UInv, NEW p \in Procs, Working(p), NEW m \in Partly(p)
  PROVE  m \in NS
  <1> DEFINE r == proc[p].req
             pc == proc[p].pc
  <1>1. Mounts(p) = mnt[p] /\ mnt[p] \in NS
    BY AtWork
  <1>2. CASE pc \in {"site", "image", "ssh", "user"}
    <2>1. pc \in Steps \cap Stage
      BY <1>2 DEF Steps, Stage
    <2>2. mnt[p].udi # <<>> /\ r \in Request
      BY <2>1, AtStep
    <2>3. /\ Site \subseteq Paths /\ Image[r] \subseteq Paths
          /\ Volumes[r] \subseteq Paths /\ Ssh[r] \subseteq Paths
      BY <2>2, UdiAssumption DEF UdiAssumption
    <2>4. \E paths \in SUBSET Paths : m = With(mnt[p], paths)
      BY <1>1, <1>2, <2>3 DEF Partly
    <2> QED
      BY <1>1, <2>2, <2>4, WithType
  <1>3. CASE pc = "rootfs"
    <2>1. r \in Request
      BY <1>3, AtStep DEF Steps
    <2>2. m \in {mnt[p], Stack(mnt[p], Blank(r))}
      BY <1>1, <1>3 DEF Partly
    <2> QED
      BY <1>1, <2>1, <2>2, BlankType, StackType
  <1>4. CASE pc \notin {"site", "image", "ssh", "user", "rootfs"}
    <2>1. m = mnt[p]
      BY <1>1, <1>4 DEF Partly
    <2> QED
      BY <1>1, <2>1
  <1> QED
    BY <1>2, <1>3, <1>4

\* A program begins or goes on with destructUDI.
LEMMA DestructStep ==
  ASSUME UInv, NEW p \in Procs, Working(p), NEW m \in NS, NEW r \in Proc,
         mnt' = [mnt EXCEPT ![p] = m], proc' = [proc EXCEPT ![p] = r],
         faults' \in 0 .. MaxFaults,
         r.pc \in {"destruct", "validate"}, r.ns = proc[p].ns,
         r.req = proc[p].req,
         p = Node => r.pc = "destruct" /\ r.next \in {"idle", "job"},
         p \in Shifters => r.next \in {"idle", "validate"}
  PROVE  UInv'
  <1> USE UdiAssumption DEF UdiAssumption
  <1>1. proc \in [Procs -> Proc] /\ mnt \in [Procs -> NS]
    BY DEF UInv, TypeOK, NS
  <1>2. proc'[p] = r /\ mnt'[p] = m
    BY <1>1
  <1>3. r.pc \notin Steps \cup Stage \cup {"loop", "idle", "in", "chroot"}
    BY DEF Steps, Stage
  <1>4. ASSUME p = Node PROVE NodeInv'
    BY <1>2, <1>3, <1>4 DEF UInv, NodeInv
  <1>5. ASSUME p \in Shifters PROVE ShifterInv(p)' /\ r.pc # "chroot"
    <2>1. ShifterInv(p) /\ proc[p].pc # "idle" /\ proc[p].ns = "slave"
      BY <1>5 DEF UInv, ShifterInv, Working, Steps
    <2>2. r.req \in Request /\ r.ns = "slave"
      BY <2>1 DEF ShifterInv
    <2>3. OwnInv(p)'
      BY <1>2, <1>3 DEF OwnInv, Steps
    <2>4. r.pc # "slave" /\ r.pc # "check" /\ r.pc # "unshare"
      OBVIOUS
    <2> QED
      BY <1>2, <1>3, <1>5, <2>2, <2>3, <2>4 DEF ShifterInv
  <1> QED
    BY <1>4, <1>5, WorkStep

\* What Destruct makes of the state of a program.
LEMMA DestructForm ==
  ASSUME UInv, NEW p \in Procs, NEW m \in NS,
         NEW next \in {"idle", "job", "validate"}, Destruct(p, m, next)
  PROVE  \E r \in Proc : /\ proc' = [proc EXCEPT ![p] = r]
                         /\ r.pc = "destruct" /\ r.next = next
                         /\ r.ns = proc[p].ns /\ r.req = proc[p].req
  <1> DEFINE r == [proc[p] EXCEPT !.pc = "destruct", !.next = next,
                                  !.list = Listed(m), !.try = 0]
  <1>1. proc \in [Procs -> Proc] /\ proc[p] \in Proc
    BY DEF UInv, TypeOK
  <1>2. Listed(m) \in SUBSET (Paths \cup {"root", "loop"}) /\ 0 \in 0 .. Tries - 1
    BY ListedType, UdiAssumption DEF UdiAssumption
  <1>3. r \in Proc /\ r.pc = "destruct" /\ r.next = next /\ r.ns = proc[p].ns
          /\ r.req = proc[p].req
    BY <1>1, <1>2 DEF Proc
  <1>4. proc' = [proc EXCEPT ![p] = r]
    BY <1>1 DEF Destruct
  <1> HIDE DEF r
  <1> QED
    BY <1>3, <1>4

LEMMA StepFailsStep ==
  ASSUME UInv, NEW p \in Procs, StepFails(p) PROVE UInv'
  <1>1. proc[p].pc \in Steps /\ Working(p) /\ faults' \in 0 .. MaxFaults
    BY FaultsType DEF StepFails, Working
  <1>2. PICK m \in Partly(p) :
          IF proc[p].pc = "site"
            THEN Put(p, m) /\ Destruct(p, m, IF p = Node THEN "job" ELSE "idle")
            ELSE GiveUp(p, m)
    BY DEF StepFails
  <1>3. m \in NS
    BY <1>1, PartlyType
  <1>4. CASE proc[p].pc # "site"
    BY <1>1, <1>2, <1>3, <1>4, GiveUpStep
  <1>5. CASE proc[p].pc = "site"
    <2> DEFINE next == IF p = Node THEN "job" ELSE "idle"
    <2>1. Destruct(p, m, next) /\ mnt' = [mnt EXCEPT ![p] = m]
      BY <1>1, <1>2, <1>5, AtWork
    <2>2. next \in {"idle", "job", "validate"}
            /\ (p = Node => next = "job") /\ (p \in Shifters => next = "idle")
      BY UdiAssumption DEF UdiAssumption
    <2> HIDE DEF next
    <2>3. PICK r \in Proc : /\ proc' = [proc EXCEPT ![p] = r]
                            /\ r.pc = "destruct" /\ r.next = next
                            /\ r.ns = proc[p].ns /\ r.req = proc[p].req
      BY <1>3, <2>1, <2>2, DestructForm
    <2> QED
      BY <1>1, <1>3, <2>1, <2>2, <2>3, DestructStep
  <1> QED
    BY <1>4, <1>5

LEMMA DieStep ==
  ASSUME UInv, NEW p \in Procs, Die(p) PROVE UInv'
  <1>1. Working(p) /\ faults' \in 0 .. MaxFaults
    BY FaultsType DEF Die, Working
  <1>2. PICK m \in Partly(p) : GiveUp(p, m)
    BY DEF Die
  <1> QED
    BY <1>1, <1>2, PartlyType, GiveUpStep

\* The state of a program in destructUDI, another part of it changed.
LEMMA InDestruct ==
  ASSUME UInv, NEW p \in Procs, proc[p].pc = "destruct"
  PROVE  /\ Working(p) /\ Mounts(p) = mnt[p] /\ mnt[p] \in NS
         /\ proc \in [Procs -> Proc] /\ proc[p] \in Proc
         /\ mnt = [mnt EXCEPT ![p] = mnt[p]]
         /\ p = Node => proc[p].next \in {"idle", "job"}
         /\ p \in Shifters => proc[p].next \in {"idle", "validate"}
         /\ proc[p] = [pc |-> "destruct", req |-> proc[p].req,
              ns |-> proc[p].ns, next |-> proc[p].next, list |-> proc[p].list,
              try |-> proc[p].try, root |-> proc[p].root]
  <1>1. Working(p)
    BY DEF Working
  <1>2. proc \in [Procs -> Proc] /\ mnt \in [Procs -> NS] /\ proc[p] \in Proc
    BY DEF UInv, TypeOK, NS
  <1>3. mnt = [mnt EXCEPT ![p] = mnt[p]]
    BY <1>2
  <1>4. p = Node => proc[p].next \in {"idle", "job"}
    BY DEF UInv, NodeInv
  <1>5. p \in Shifters => proc[p].next \in {"idle", "validate"}
    BY DEF UInv, ShifterInv
  <1>6. proc[p] = [pc |-> "destruct", req |-> proc[p].req,
              ns |-> proc[p].ns, next |-> proc[p].next, list |-> proc[p].list,
              try |-> proc[p].try, root |-> proc[p].root]
    BY <1>2 DEF Proc
  <1> QED
    BY <1>1, <1>2, <1>3, <1>4, <1>5, <1>6, AtWork

LEMMA DestructedStep ==
  ASSUME UInv, NEW p \in Procs, proc[p].pc = "destruct", Destructed(p),
         faults' \in 0 .. MaxFaults
  PROVE  UInv'
  <1> USE UdiAssumption DEF UdiAssumption
  <1>1. Working(p) /\ Mounts(p) = mnt[p] /\ mnt[p] \in NS
    BY InDestruct
  <1>2. CASE p # Node /\ proc[p].next = "idle"
    BY <1>1, <1>2, GiveUpStep DEF Destructed
  <1>3. CASE p = Node
    <2>1. Goto(Node, proc[Node].next) /\ UNCHANGED mnt
            /\ proc[Node].next \in {"idle", "job"}
      BY <1>3, InDestruct DEF Destructed
    <2>2. Put(Node, mnt[Node])
      <3>1. Reached(Node) = {Node} /\ mnt \in [Procs -> NS]
        BY <1>1, <1>3, AtWork DEF UInv, TypeOK, NS
      <3>2. mnt = [q \in Procs |-> IF q \in {Node} THEN mnt[Node] ELSE mnt[q]]
        BY <3>1
      <3> QED
        BY <2>1, <3>1, <3>2 DEF Put
    <2> QED
      BY <1>1, <1>3, <2>1, <2>2, NodeGivesUp
  <1>4. CASE p \in Shifters /\ proc[p].next # "idle"
    <2> DEFINE r == [proc[p] EXCEPT !.pc = "validate"]
    <2>0. proc[p] \in Proc
      BY InDestruct
    <2>1. proc[p].next = "validate" /\ p # Node
      BY <1>4, InDestruct
    <2>2. proc' = [proc EXCEPT ![p] = r] /\ mnt' = [mnt EXCEPT ![p] = mnt[p]]
      BY <2>1, InDestruct DEF Destructed, Goto
    <2>3. r = [pc |-> "validate", req |-> proc[p].req, ns |-> proc[p].ns,
               next |-> proc[p].next, list |-> proc[p].list,
               try |-> proc[p].try, root |-> proc[p].root]
      BY <2>0, ProcForm
    <2>4. r \in Proc
      BY <2>0, <2>3 DEF Proc
    <2>5. r.pc = "validate" /\ r.ns = proc[p].ns /\ r.req = proc[p].req
            /\ r.next = proc[p].next
      BY <2>3
    <2> HIDE DEF r
    <2> QED
      BY <1>1, <2>1, <2>2, <2>4, <2>5, DestructStep
  <1> QED
    BY <1>2, <1>3, <1>4 DEF Procs

LEMMA AgainStep ==
  ASSUME UInv, NEW p \in Procs, proc[p].pc = "destruct", Again(p),
         faults' \in 0 .. MaxFaults
  PROVE  UInv'
  <1> DEFINE r == [proc[p] EXCEPT !.try = proc[p].try + 1]
  <1>1. CASE proc[p].try + 1 < Tries
    <2>1. proc' = [proc EXCEPT ![p] = r] /\ UNCHANGED mnt
      BY <1>1, InDestruct DEF Again
    <2>2. proc[p].try + 1 \in 0 .. Tries - 1
      <3>1. proc[p].try \in 0 .. Tries - 1
        BY InDestruct DEF Proc
      <3> QED
        BY <1>1, <3>1, UdiAssumption DEF UdiAssumption
    <2>3. r \in Proc /\ r.pc = "destruct" /\ r.ns = proc[p].ns
            /\ r.req = proc[p].req /\ r.next = proc[p].next
      <3>1. proc[p] \in Proc
        BY InDestruct
      <3> QED
        BY <2>2, <3>1 DEF Proc
    <2> HIDE DEF r
    <2> QED
      BY <2>1, <2>3, InDestruct, DestructStep
  <1>2. CASE ~(proc[p].try + 1 < Tries)
    BY <1>2, DestructedStep DEF Again
  <1> QED
    BY <1>1, <1>2

LEMMA UnmountTreeStep ==
  ASSUME UInv, NEW p \in Procs, proc[p].pc = "destruct",
         NEW x \in Paths \cup {"root", "loop"}, UnmountTree(p, x)
  PROVE  UInv'
  <1>1. CASE UnmountFails(p, x)
    <2>1. faults' \in 0 .. MaxFaults
      BY <1>1, FaultsType DEF UnmountFails
    <2> QED
      BY <1>1, <2>1, AgainStep DEF UnmountFails
  <1>2. CASE UnmountDone(p, x)
    <2> DEFINE m == Umount(mnt[p], x)
               r == [proc[p] EXCEPT !.list = proc[p].list \ {x}]
    <2>1. m \in NS
      BY <1>2, InDestruct, UmountType DEF UnmountDone
    <2>2. Put(p, m) /\ faults' \in 0 .. MaxFaults
      BY <1>2, InDestruct, FaultsType DEF UnmountDone
    <2>3. proc' = [proc EXCEPT ![p] = r]
      BY <1>2, InDestruct DEF UnmountDone
    <2>4. r \in Proc /\ r.pc = "destruct" /\ r.ns = proc[p].ns
            /\ r.req = proc[p].req /\ r.next = proc[p].next
      <3>1. proc[p] \in Proc
        BY InDestruct
      <3> QED
        BY <3>1 DEF Proc
    <2> HIDE DEF m, r
    <2>5. Working(p) /\ mnt' = [mnt EXCEPT ![p] = m]
      BY <2>2, InDestruct, AtWork
    <2> QED
      BY <2>1, <2>2, <2>3, <2>4, <2>5, InDestruct, DestructStep
  <1> QED
    BY <1>1, <1>2 DEF UnmountTree

LEMMA DestructUDIStep ==
  ASSUME UInv, NEW p \in Procs, DestructUDI(p) PROVE UInv'
  <1>1. proc[p].pc = "destruct"
    BY DEF DestructUDI
  <1>2. CASE \E x \in Paths \cup {"root", "loop"} : UnmountTree(p, x)
    BY <1>1, <1>2, UnmountTreeStep
  <1>3. CASE (Again(p) \/ Destructed(p)) /\ UNCHANGED faults
    BY <1>1, <1>3, FaultsType, AgainStep, DestructedStep
  <1> QED
    BY <1>2, <1>3 DEF DestructUDI
-----------------------------------------------------------------------------
(* The job on the node.                                                    *)

\* A step of the prolog or epilog.
LEMMA NodeStep ==
  ASSUME UInv, \A s \in Shifters : proc[s] = Idle, NEW r \in Proc,
         proc' = [proc EXCEPT ![Node] = r], UNCHANGED mnt,
         faults' \in 0 .. MaxFaults, r.ns = "node",
         r.pc \in {"idle", "job", "destruct", "loop", "rootfs"},
         r.pc = "destruct" => r.next \in {"idle", "job"},
         r.pc = "loop" => r.req \in Looped,
         r.pc = "rootfs" => r.req \in Request
  PROVE  UInv'
  <1> USE UdiAssumption DEF UdiAssumption
  <1>1. proc \in [Procs -> Proc] /\ mnt \in [Procs -> NS] /\ Node \in Procs
    BY DEF UInv, TypeOK, NS, Procs
  <1>2. proc' \in [Procs -> Proc] /\ mnt' \in [Procs -> NS] /\ proc'[Node] = r
          /\ \A s \in Shifters : proc'[s] = proc[s] /\ mnt'[s] = mnt[s]
    BY <1>1
  <1>3. r.pc \notin Stage
    BY DEF Stage
  <1>4. NodeInv'
    BY <1>2, <1>3 DEF NodeInv, Steps
  <1> QED
    BY <1>2, <1>4, NodeFrame

LEMMA PrologStep ==
  ASSUME UInv, Prolog PROVE UInv'
  <1> USE UdiAssumption DEF UdiAssumption
  <1>1. PICK req \in Request \cup {None}, pc \in {"job", "loop", "rootfs"} :
          /\ proc' = [proc EXCEPT ![Node] = [@ EXCEPT !.req = req, !.pc = pc]]
          /\ pc # "job" => req \in Request /\ pc = FirstStep(req)
    BY DEF Prolog, FirstStep
  <1> DEFINE r == [proc[Node] EXCEPT !.req = req, !.pc = pc]
  <1>2. proc \in [Procs -> Proc] /\ Node \in Procs /\ proc[Node] \in Proc
          /\ proc[Node].ns = "node"
    BY DEF UInv, TypeOK, NodeInv, Procs
  <1>3. proc' = [proc EXCEPT ![Node] = r]
    BY <1>1, <1>2
  <1>4. pc \in {"job", "loop", "rootfs"} /\ (pc = "loop" => req \in Looped)
    BY <1>1 DEF FirstStep
  <1>5. r \in Proc /\ r.pc = pc /\ r.req = req /\ r.ns = proc[Node].ns
    BY <1>2, <1>4 DEF Proc, Steps
  <1>6. proc[Node].pc = "idle"
    BY DEF Prolog
  <1>7. \A s \in Shifters : proc[s] = Idle
    BY <1>6, NodeAlone
  <1>8. UNCHANGED mnt /\ faults' \in 0 .. MaxFaults
    BY FaultsType DEF Prolog
  <1> HIDE DEF r
  <1> QED
    BY <1>1, <1>2, <1>3, <1>4, <1>5, <1>7, <1>8, NodeStep

LEMMA EpilogStep ==
  ASSUME UInv, Epilog PROVE UInv'
  <1> USE UdiAssumption DEF UdiAssumption
  <1>1. \A s \in Shifters : proc[s] = Idle
    BY DEF Epilog, JobEnds
  <1>2. UNCHANGED mnt /\ faults' \in 0 .. MaxFaults
    BY FaultsType DEF Epilog
  <1>3. Node \in Procs /\ proc[Node].ns = "node" /\ mnt[Node] \in NS
    BY DEF UInv, TypeOK, NodeInv, Procs, NS
  <1>4. CASE proc[Node].req = None
    <2>1. proc' = [proc EXCEPT ![Node] = Idle]
      BY <1>4 DEF Epilog
    <2>2. Idle.ns = "node" /\ Idle.pc = "idle"
      BY DEF Idle
    <2> QED
      BY <1>1, <1>2, <2>1, <2>2, IdleType, NodeStep
  <1>5. CASE proc[Node].req # None
    <2>1. Destruct(Node, mnt[Node], "idle")
      BY <1>5 DEF Epilog
    <2>2. PICK r \in Proc : /\ proc' = [proc EXCEPT ![Node] = r]
                            /\ r.pc = "destruct" /\ r.next = "idle"
                            /\ r.ns = proc[Node].ns
      BY <1>3, <2>1, DestructForm
    <2> QED
      BY <1>1, <1>2, <1>3, <2>2, NodeStep
  <1> QED
    BY <1>4, <1>5

LEMMA EpilogFailsStep ==
  ASSUME UInv, EpilogFails PROVE UInv'
  <1>1. \A s \in Shifters : proc[s] = Idle
    BY NodeAlone DEF EpilogFails, Hits
  <1>2. UNCHANGED mnt /\ faults' \in 0 .. MaxFaults
    BY FaultsType DEF EpilogFails
  <1>3. proc' = [proc EXCEPT ![Node] = Idle]
    BY DEF EpilogFails
  <1>4. Idle.ns = "node" /\ Idle.pc = "idle"
    BY DEF Idle
  <1> QED
    BY <1>1, <1>2, <1>3, <1>4, IdleType, NodeStep

-----------------------------------------------------------------------------
(* shifter.                                                                *)

\* A step of a shifter by itself.
LEMMA ShifterStep ==
  ASSUME UInv, NEW s \in Shifters, NEW r \in Proc, NEW m \in NS,
         proc' = [proc EXCEPT ![s] = r], mnt' = [mnt EXCEPT ![s] = m],
         UNCHANGED faults, proc[Node].pc = "job",
         r.pc = "chroot" /\ r.ns = "node" => mnt[Node].udi # <<>>,
         proc'[s] = r /\ mnt'[s] = m => ShifterInv(s)'
  PROVE  UInv'
  <1>1. proc \in [Procs -> Proc] /\ mnt \in [Procs -> NS] /\ s \in Procs
    BY DEF UInv, TypeOK, NS, Procs
  <1>2. proc' \in [Procs -> Proc] /\ mnt' \in [Procs -> NS]
          /\ proc'[s] = r /\ mnt'[s] = m
          /\ \A q \in Procs \ {s} : proc'[q] = proc[q] /\ mnt'[q] = mnt[q]
    BY <1>1
  <1> QED
    BY <1>2, FaultsType, ShifterFrame

LEMMA AtShifter ==
  ASSUME UInv, NEW s \in Shifters
  PROVE  /\ proc[s] \in Proc /\ mnt[s] \in NS /\ proc[s].ns \in {"node", "peer", "slave"}
         /\ mnt = [mnt EXCEPT ![s] = mnt[s]] /\ mnt[Node] \in NS
         /\ s \in Procs /\ proc \in [Procs -> Proc]
         /\ ShifterInv(s) /\ s # Node
         /\ proc[s].pc # "idle" =>
              proc[Node].pc = "job" /\ proc[s].req \in Request
  <1>1. proc \in [Procs -> Proc] /\ mnt \in [Procs -> NS]
          /\ s \in Procs /\ Node \in Procs
    BY DEF UInv, TypeOK, NS, Procs
  <1>2. proc[s] \in Proc /\ proc[s].ns \in {"node", "peer", "slave"}
    BY <1>1 DEF Proc
  <1>3. ShifterInv(s) /\ s # Node
    BY UdiAssumption DEF UInv, UdiAssumption
  <1>4. proc[s].pc # "idle" => proc[Node].pc = "job" /\ proc[s].req \in Request
    BY <1>3 DEF UInv, JobInv, ShifterInv
  <1> QED
    BY <1>1, <1>2, <1>3, <1>4

LEMMA StartStep ==
  ASSUME UInv, NEW s \in Shifters, Start(s) PROVE UInv'
  <1>1. PICK req \in Request :
          proc' = [proc EXCEPT ![s] = [@ EXCEPT !.pc = "check", !.req = req]]
    BY DEF Start
  <1> DEFINE r == [proc[s] EXCEPT !.pc = "check", !.req = req]
  <1>2. proc[Node].pc = "job" /\ proc[s] = Idle /\ UNCHANGED <<mnt, faults>>
    BY AtShifter DEF Start, ShifterInv
  <1>3. proc[s] \in Proc /\ proc[s].ns = "node"
    BY <1>2, AtShifter DEF Idle
  <1>4. r \in Proc /\ r.pc = "check" /\ r.req = req /\ r.ns = "node"
    BY <1>3 DEF Proc
  <1>5. proc' = [proc EXCEPT ![s] = r]
    BY <1>1, AtShifter
  <1> HIDE DEF r
  <1>6. proc'[s] = r => ShifterInv(s)'
    BY <1>4 DEF ShifterInv, Steps
  <1> QED
    BY <1>2, <1>4, <1>5, <1>6, AtShifter, ShifterStep

LEMMA CheckStep ==
  ASSUME UInv, NEW s \in Shifters, Check(s) PROVE UInv'
  <1> DEFINE pc == IF Matches(Mounts(s), proc[s].req) THEN "chroot" ELSE "unshare"
             r  == [proc[s] EXCEPT !.pc = pc]
  <1>1. proc[s].pc = "check" /\ proc' = [proc EXCEPT ![s] = r]
          /\ UNCHANGED <<mnt, faults>>
    BY DEF Check, Goto
  <1>2. proc[s] \in Proc /\ proc[s].ns = "node" /\ proc[s].req \in Request
          /\ proc[Node].pc = "job"
    BY <1>1, AtShifter DEF ShifterInv
  <1>3. pc \in {"chroot", "unshare"} /\ (pc = "chroot" => mnt[Node].udi # <<>>)
    BY <1>2 DEF Matches, Mounts, At
  <1> HIDE DEF pc
  <1>4. r \in Proc /\ r.pc = pc /\ r.ns = "node" /\ r.req = proc[s].req
    BY <1>2, <1>3 DEF Proc
  <1> HIDE DEF r
  <1>5. proc'[s] = r => ShifterInv(s)'
    BY <1>2, <1>3, <1>4 DEF ShifterInv, Steps
  <1> QED
    BY <1>1, <1>2, <1>3, <1>4, <1>5, AtShifter, ShifterStep

LEMMA UnshareStep ==
  ASSUME UInv, NEW s \in Shifters, Unshare(s) PROVE UInv'
  <1> DEFINE r == [proc[s] EXCEPT !.ns = "peer", !.pc = "slave"]
  <1>1. proc[s].pc = "unshare" /\ mnt' = [mnt EXCEPT ![s] = mnt[Node]]
          /\ UNCHANGED faults
    BY DEF Unshare
  <1>2. proc[s] \in Proc /\ proc[s].req \in Request /\ proc[Node].pc = "job"
    BY <1>1, AtShifter
  <1>3. proc' = [proc EXCEPT ![s] = r]
    BY AtShifter DEF Unshare
  <1>4. r \in Proc /\ r.pc = "slave" /\ r.ns = "peer" /\ r.req = proc[s].req
    BY <1>2 DEF Proc
  <1> HIDE DEF r
  <1>5. proc'[s] = r => ShifterInv(s)'
    BY <1>2, <1>4 DEF ShifterInv, Steps
  <1> QED
    BY <1>1, <1>2, <1>3, <1>4, <1>5, AtShifter, ShifterStep

LEMMA MakeSlaveStep ==
  ASSUME UInv, NEW s \in Shifters, MakeSlave(s) PROVE UInv'
  <1> DEFINE r == [proc[s] EXCEPT !.ns = "slave", !.pc = "destruct", !.try = 0,
                                  !.list = Listed(mnt[s]), !.next = "validate"]
  <1>1. proc[s].pc = "slave" /\ UNCHANGED <<mnt, faults>>
    BY DEF MakeSlave
  <1>2. proc[s] \in Proc /\ proc[s].req \in Request /\ proc[Node].pc = "job"
          /\ mnt[s] \in NS
    BY <1>1, AtShifter
  <1>3. proc' = [proc EXCEPT ![s] = r]
    BY AtShifter DEF MakeSlave
  <1>4. Listed(mnt[s]) \in SUBSET (Paths \cup {"root", "loop"}) /\ 0 \in 0 .. Tries - 1
    BY <1>2, ListedType, UdiAssumption DEF UdiAssumption
  <1>5. r \in Proc /\ r.pc = "destruct" /\ r.ns = "slave" /\ r.req = proc[s].req
          /\ r.next = "validate"
    BY <1>2, <1>4 DEF Proc
  <1> HIDE DEF r
  <1>6. proc'[s] = r => ShifterInv(s)'
    BY <1>2, <1>5 DEF ShifterInv, OwnInv, Steps, Stage
  <1> QED
    BY <1>1, <1>2, <1>3, <1>5, <1>6, AtShifter, ShifterStep

LEMMA ValidateStep ==
  ASSUME UInv, NEW s \in Shifters, Validate(s) PROVE UInv'
  <1>1. proc[s].pc = "validate" /\ UNCHANGED faults
    BY DEF Validate
  <1>2. proc[s] \in Proc /\ proc[s].req \in Request /\ proc[Node].pc = "job"
          /\ proc[s].ns = "slave"
    BY <1>1, AtShifter DEF ShifterInv
  <1>3. CASE mnt[s].udi # <<>>
    BY <1>1, <1>3, FaultsType, ShifterEnds DEF Validate
  <1>4. CASE mnt[s].udi = <<>>
    <2> DEFINE pc == FirstStep(proc[s].req)
               r  == [proc[s] EXCEPT !.pc = pc]
    <2>1. proc' = [proc EXCEPT ![s] = r] /\ UNCHANGED mnt
      BY <1>4 DEF Validate, Goto
    <2>2. pc \in {"loop", "rootfs"} /\ (pc = "loop" => proc[s].req \in Looped)
      BY DEF FirstStep
    <2> HIDE DEF pc
    <2>3. r \in Proc /\ r.pc = pc /\ r.ns = "slave" /\ r.req = proc[s].req
      BY <1>2, <2>2 DEF Proc, Steps
    <2> HIDE DEF r
    <2>4. proc'[s] = r => ShifterInv(s)'
      BY <1>2, <1>4, <2>1, <2>2, <2>3 DEF ShifterInv, OwnInv, Steps, Stage
    <2> QED
      BY <1>1, <1>2, <2>1, <2>2, <2>3, <2>4, AtShifter, ShifterStep
  <1> QED
    BY <1>3, <1>4

LEMMA ChrootStep ==
  ASSUME UInv, NEW s \in Shifters, Chroot(s) PROVE UInv'
  <1> DEFINE u == Top(Mounts(s))
             r == [proc[s] EXCEPT !.pc = "in", !.root = u]
  <1>1. proc[s].pc = "chroot" /\ UNCHANGED <<mnt, faults>>
    BY DEF Chroot
  <1>2. proc[s] \in Proc /\ proc[s].req \in Request /\ proc[Node].pc = "job"
          /\ proc[s].ns \in {"node", "slave"}
    BY <1>1, AtShifter DEF ShifterInv
  <1>3. proc' = [proc EXCEPT ![s] = r]
    BY AtShifter DEF Chroot
  <1>4. ASSUME proc[s].ns = "node" PROVE u \in UDI
    <2>1. Mounts(s) = mnt[Node] /\ mnt[Node].udi # <<>>
      BY <1>1, <1>4 DEF UInv, JobInv, Mounts, At
    <2> QED
      BY <2>1, AtShifter, TopType
  <1>5. ASSUME proc[s].ns = "slave"
        PROVE  u \in UDI /\ OwnUdi(s, u, "chroot")
    <2>1. Mounts(s) = mnt[s] /\ OwnInv(s)
      BY <1>5, AtShifter DEF ShifterInv, Mounts, At
    <2>2. Len(mnt[s].udi) = 1 /\ OwnUdi(s, mnt[s].udi[1], "chroot")
      BY <1>1, <2>1 DEF OwnInv
    <2>3. mnt[s].udi # <<>>
      BY <2>2
    <2> QED
      BY <2>1, <2>2, <2>3, AtShifter, TopType
  <1> HIDE DEF u
  <1>6. PICK root \in UDI : root = u
    BY <1>2, <1>4, <1>5
  <1>7. r \in Proc /\ r.pc = "in" /\ r.root = root /\ r.ns = proc[s].ns
          /\ r.req = proc[s].req
    BY <1>2, <1>6 DEF Proc
  <1> HIDE DEF r
  <1>8. ASSUME proc'[s] = r PROVE ShifterInv(s)'
    <2>1. r.ns = "slave" => OwnUdi(s, root, "in")'
      <3>1. Filled(proc[s].req, "in") = Filled(proc[s].req, "chroot")
        BY DEF Filled
      <3> QED
        BY <1>5, <1>6, <1>7, <1>8, <3>1 DEF OwnUdi
    <2>2. r.ns = "slave" => OwnInv(s)'
      BY <1>7, <1>8, <2>1 DEF OwnInv, Stage
    <2> QED
      BY <1>2, <1>6, <1>7, <1>8, <2>2 DEF ShifterInv, Steps
  <1> QED
    BY <1>1, <1>2, <1>3, <1>7, <1>8, AtShifter, ShifterStep

LEMMA ExitStep ==
  ASSUME UInv, NEW s \in Shifters, Exit(s) PROVE UInv'
  BY FaultsType, ShifterEnds DEF Exit

-----------------------------------------------------------------------------
(* The invariant, and what follows from it.                                *)

LEMMA UdiInit == Init => UInv
  <1> SUFFICES ASSUME Init PROVE UInv
    OBVIOUS
  <1> USE UdiAssumption DEF UdiAssumption
  <1>1. \A p \in Procs : proc[p] = Idle /\ mnt[p] = Bare
    BY DEF Init
  <1>2. TypeOK
    BY IdleType DEF Init, TypeOK, NS
  <1>3. Idle.pc = "idle" /\ Idle.ns = "node"
    BY DEF Idle
  <1>4. NodeInv
    BY <1>1, <1>3 DEF NodeInv, Procs, Steps, Stage
  <1>5. \A s \in Shifters : proc[s] = Idle /\ proc[s].pc = "idle" /\ proc[s].ns = "node"
    BY <1>1, <1>3 DEF Procs
  <1>6. JobInv
    BY <1>5 DEF JobInv
  <1>7. \A s \in Shifters : ShifterInv(s)
    BY <1>5 DEF ShifterInv, Steps
  <1> QED
    BY <1>2, <1>4, <1>6, <1>7 DEF UInv

LEMMA UdiNext == UInv /\ [Next]_vars => UInv'
  <1> SUFFICES ASSUME UInv, [Next]_vars PROVE UInv'
    OBVIOUS
  <1>1. CASE Prolog \/ Epilog \/ EpilogFails
    BY <1>1, PrologStep, EpilogStep, EpilogFailsStep
  <1>2. ASSUME NEW p \in Procs, Setup(p) PROVE UInv'
    BY <1>2, MountImageLoopStep, MountRootfsStep, PrepareSiteStep, BindImageStep,
       SetupSshStep, SetupUserMountsStep, SaveConfigStep, RemountReadonlyStep,
       StepFailsStep, DieStep DEF Setup
  <1>3. ASSUME NEW p \in Procs, DestructUDI(p) PROVE UInv'
    BY <1>3, DestructUDIStep
  <1>4. ASSUME NEW s \in Shifters, Shifter(s) PROVE UInv'
    BY <1>4, StartStep, CheckStep, UnshareStep, MakeSlaveStep, ValidateStep,
       ChrootStep, ExitStep DEF Shifter
  <1>5. CASE UNCHANGED vars
    BY <1>5 DEF vars, UInv, TypeOK, NodeInv, JobInv, ShifterInv, OwnInv, OwnUdi
  <1> QED
    BY <1>1, <1>2, <1>3, <1>4, <1>5 DEF Next

\* The invariant above holds in every state: what each program of the node
\* and each shifter is about to do fits what is mounted where it does it.
THEOREM UdiInvariance == Spec => []UInv
  BY UdiInit, UdiNext, PTL DEF Spec

\* Types: the stacks of mounts hold UDIs and image files, destructUDI keeps
\* to its number of tries, and no more faults happen than are allowed.
THEOREM UdiTypeCorrect == Spec => []TypeOK
  <1>1. UInv => TypeOK
    BY DEF UInv
  <1> QED
    BY <1>1, UdiInvariance, PTL

\* loadImage (shifter.c) builds on a clean place: while a shifter sets up
\* its UDI nothing that the prolog of this or of an earlier job has left is
\* mounted in its namespace at udiMountPoint, since it has looked at that
\* after destructUDI.
THEOREM NothingOldBelow == Spec => []NothingOld
  <1>1. UInv => NothingOld
    <2> SUFFICES ASSUME UInv, NEW s \in Shifters, proc[s].pc \in Steps
                 PROVE  /\ Len(mnt[s].udi) =< 1
                        /\ \A i \in DOMAIN mnt[s].udi : mnt[s].udi[i].of = proc[s].req
      BY DEF NothingOld
    <2>1. OwnInv(s) /\ proc[s].pc # "ssh"
      BY AtShifter DEF ShifterInv
    <2>2. CASE proc[s].pc \in {"loop", "rootfs"}
      BY <2>1, <2>2 DEF OwnInv
    <2>3. CASE proc[s].pc \in Stage
      <3>1. Len(mnt[s].udi) = 1 /\ mnt[s].udi[1].of = proc[s].req
        BY <2>1, <2>3 DEF OwnInv, OwnUdi
      <3>2. mnt[s].udi \in Seq(UDI)
        BY AtShifter DEF NS
      <3>3. DOMAIN mnt[s].udi = {1}
        BY <3>1, <3>2
      <3> QED
        BY <3>1, <3>3
    <2> QED
      BY <2>2, <2>3 DEF Steps, Stage
  <1> QED
    BY <1>1, UdiInvariance, PTL

\* A program that runs in a UDI which its shifter has built (loadImage) has
\* all that prepareSiteModifications, bindImageIntoUDI and setupUserMounts
\* mount for its request, below a read-only root unless the site wants a
\* writable one; so long as no bind mount of a part of the image fails,
\* which bindImageIntoUDI does not tell.
THEOREM OwnImageWhole ==
  ASSUME "lost" \notin Faults
  PROVE  Spec => []OwnImage
  <1>1. UInv => OwnImage
    <2> SUFFICES ASSUME UInv, NEW s \in Shifters, InImage(s), proc[s].ns # "node"
                 PROVE  Right(s) /\ (proc[s].root.ro \/ Writable)
      BY DEF OwnImage
    <2>1. proc[s].ns = "slave" /\ proc[s].pc = "in"
      BY AtShifter DEF ShifterInv, InImage
    <2>2. OwnUdi(s, proc[s].root, "in")
      BY <2>1, AtShifter DEF ShifterInv, OwnInv
    <2>3. Filled(proc[s].req, "in") = Points(proc[s].req)
      BY DEF Filled
    <2> QED
      BY <2>2, <2>3 DEF OwnUdi, Right, Whole
  <1> QED
    BY <1>1, UdiInvariance, PTL

\* What a program at work changes.
LEMMA WorkChanges ==
  ASSUME UInv, NEW p \in Procs, Setup(p) \/ DestructUDI(p)
  PROVE  /\ Working(p)
         /\ \/ UNCHANGED mnt
            \/ \E m : Put(p, m)
            \/ \E m : GiveUp(p, m)
  <1>1. CASE Setup(p) /\ ~StepFails(p) /\ ~Die(p)
    BY <1>1 DEF Setup, MountImageLoop, MountRootfs, PrepareSite, BindImage,
         SetupSsh, SetupUserMounts, SaveConfig, RemountReadonly, Do, Working, Steps
  <1>2. CASE StepFails(p) \/ Die(p)
    BY <1>2 DEF StepFails, Die, Working
  <1>3. CASE DestructUDI(p)
    BY <1>3 DEF DestructUDI, UnmountTree, UnmountDone, UnmountFails, Again,
         Destructed, Working
  <1> QED
    BY <1>1, <1>2, <1>3

LEMMA NodeChanges ==
  ASSUME UInv, Prolog \/ Epilog \/ EpilogFails \/ Setup(Node) \/ DestructUDI(Node)
  PROVE  \A s \in Shifters : proc'[s] = proc[s]
  <1> USE UdiAssumption DEF UdiAssumption
  <1> SUFFICES ASSUME NEW s \in Shifters PROVE proc'[s] = proc[s]
    OBVIOUS
  <1>1. proc \in [Procs -> Proc] /\ s \in Procs /\ s # Node
    BY DEF UInv, TypeOK, Procs
  <1>2. \A pc : Goto(Node, pc) => proc'[s] = proc[s]
    BY <1>1 DEF Goto
  <1>3. \A m, next : Destruct(Node, m, next) => proc'[s] = proc[s]
    BY <1>1 DEF Destruct
  <1>4. \A m : GiveUp(Node, m) => proc'[s] = proc[s]
    BY <1>2 DEF GiveUp
  <1>5. CASE Prolog
    BY <1>1, <1>5 DEF Prolog
  <1>6. CASE Epilog \/ EpilogFails
    BY <1>1, <1>3, <1>6 DEF Epilog, EpilogFails
  <1>7. CASE Setup(Node)
    BY <1>2, <1>3, <1>4, <1>7 DEF Setup, MountImageLoop, MountRootfs, PrepareSite,
         BindImage, SetupSsh, SetupUserMounts, SaveConfig, RemountReadonly, Do,
         StepFails, Die
  <1>8. CASE DestructUDI(Node)
    <2>1. Again(Node) \/ Destructed(Node) => proc'[s] = proc[s]
      BY <1>1, <1>2 DEF Again, Destructed
    <2>2. \A x : UnmountTree(Node, x) => proc'[s] = proc[s]
      BY <1>1, <2>1 DEF UnmountTree, UnmountDone, UnmountFails
    <2> QED
      BY <1>8, <2>1, <2>2 DEF DestructUDI
  <1> QED
    BY <1>5, <1>6, <1>7, <1>8

LEMMA ShifterKeepsNode ==
  ASSUME UInv, NEW s \in Shifters, Setup(s) \/ DestructUDI(s) \/ Shifter(s)
  PROVE  mnt'[Node] = mnt[Node]
  <1>1. s # Node /\ s \in Procs /\ mnt \in [Procs -> NS] /\ Node \in Procs
    BY UdiAssumption DEF UdiAssumption, UInv, TypeOK, NS, Procs
  <1>2. \A m : GiveUp(s, m) => mnt'[Node] = mnt[Node]
    BY <1>1 DEF GiveUp
  <1>3. CASE Setup(s) \/ DestructUDI(s)
    BY <1>1, <1>2, <1>3, WorkChanges, AtWork
  <1>4. CASE Shifter(s)
    BY <1>1, <1>2, <1>4 DEF Shifter, Start, Check, Unshare, MakeSlave, Validate,
         Chroot, Exit
  <1> QED
    BY <1>3, <1>4

\* unshare and the slave mount of "/" (loadImage) keep a shifter to itself:
\* no step of a shifter, be it of the setup, of destructUDI, or its end,
\* changes what is mounted on the node, where others look at the same time.
THEOREM NodeStaysUntouched == Spec => NodeUntouched
  <1> DEFINE Act == (\E s \in Shifters : proc'[s] # proc[s]) => mnt'[Node] = mnt[Node]
  <1>1. UInv /\ [Next]_vars => [Act]_vars
    <2> SUFFICES ASSUME UInv, Next PROVE Act
      OBVIOUS
    <2>1. CASE Prolog \/ Epilog \/ EpilogFails \/ Setup(Node) \/ DestructUDI(Node)
      BY <2>1, NodeChanges
    <2>2. CASE \E s \in Shifters : Setup(s) \/ DestructUDI(s) \/ Shifter(s)
      BY <2>2, ShifterKeepsNode
    <2> QED
      BY <2>1, <2>2 DEF Next, Procs
  <1>2. Spec => [][Act]_vars
    BY <1>1, UdiInvariance, PTL DEF Spec
  <1> QED
    BY <1>2 DEF NodeUntouched
-----------------------------------------------------------------------------
(* The UDI of the node.                                                    *)

\* When the node is left as it should be: neither a bind mount nor
\* unsetupRoot is lost, destructUDI tries more often than an unmount can
\* fail, and no epilog ends early after a setupRoot that has failed.
Recoverable ==
  /\ "lost" \notin Faults /\ "unsetup" \notin Faults
  /\ "umount" \in Faults => MaxFaults < Tries
  /\ "early" \in Faults /\ ("step" \in Faults \/ "die" \in Faults) => MaxFaults =< 1

\* One UDI at most, and one image on a loop device.
Single(m) == Len(m.udi) =< 1 /\ Len(m.loop) =< 1

\* Nothing, or the whole of what the prolog of some job has built.
Settled(m) ==
  \/ m = Bare
  \/ /\ Len(m.udi) = 1
     /\ Whole(m.udi[1])
     /\ m.udi[1].config \in {m.udi[1].of, "torn"}

\* A UDI that no shifter takes: setupRoot has not come to its end.
Unfinished(m) == m.udi # <<>> => m.udi[1].config = None
Failed(r, f) ==
  /\ r.req # None
  /\ f >= 1
  /\ "step" \in Faults \/ "die" \in Faults

\* The UDI that setupRoot is building.
NodeFilled(r, pc) == IF pc = "ssh" THEN Site \cup Image[r] ELSE Filled(r, pc)
Building(m, r, pc) ==
  /\ Len(m.udi) = 1
  /\ m.udi[1].of = r
  /\ NodeFilled(r, pc) \subseteq m.udi[1].has
  /\ m.udi[1].has \subseteq NodeFilled(r, pc) \cup Ssh[r]
  /\ m.udi[1].config \in IF pc = "readonly" THEN {r, "torn"} ELSE {None}

\* What is mounted on the node while its programs are in the state r and f
\* faults have happened to them.
Held(m, r, f) ==
  /\ Single(m)
  /\ r.pc = "idle" => Settled(m)
  /\ r.pc = "job" => Settled(m) \/ (Unfinished(m) /\ Failed(r, f))
  /\ r.pc = "loop" => m = Bare
  /\ r.pc = "rootfs" => m.udi = <<>>
  /\ r.pc \in Stage => Building(m, r.req, r.pc)
  /\ r.pc = "destruct" =>
       /\ r.list = Listed(m)
       /\ r.try =< f
       /\ r.next = "job" => Unfinished(m) /\ Failed(r, f)

\* A shifter that has taken the UDI of the node.
Found(s) ==
  /\ proc[s].pc = "chroot" /\ proc[s].ns = "node" =>
       Matches(mnt[Node], proc[s].req)
  /\ proc[s].pc = "in" /\ proc[s].ns = "node" => Right(s)

FInv ==
  /\ Held(mnt[Node], proc[Node], faults)
  /\ \A s \in Shifters : Found(s)

LEMMA AtNode ==
  ASSUME UInv
  PROVE  /\ Node \in Procs /\ Node \notin Shifters
         /\ proc \in [Procs -> Proc] /\ proc[Node] \in Proc
         /\ mnt \in [Procs -> NS] /\ mnt[Node] \in NS
         /\ faults \in 0 .. MaxFaults /\ MaxFaults \in Nat /\ faults \in Nat
         /\ NodeInv
  <1>1. Node \in Procs /\ Node \notin Shifters /\ MaxFaults \in Nat
    BY UdiAssumption DEF UdiAssumption, Procs
  <1>2. proc \in [Procs -> Proc] /\ mnt \in [Procs -> NS]
          /\ faults \in 0 .. MaxFaults /\ NodeInv
    BY DEF UInv, TypeOK, NS
  <1> QED
    BY <1>1, <1>2

LEMMA LoopStays ==
  ASSUME NEW m \in NS, NEW u
  PROVE  Stack(m, u).loop = m.loop /\ Change(m, u).loop = m.loop
  <1>1. Stack(m, u) = [udi |-> <<u>> \o m.udi, loop |-> m.loop]
    BY RecordForm DEF Stack
  <1>2. Change(m, u) = [udi |-> <<u>> \o Tail(m.udi), loop |-> m.loop]
    BY RecordForm DEF Change
  <1> QED
    BY <1>1, <1>2

\* What Put and Goto make of the state of the node.
LEMMA NodeSets ==
  ASSUME UInv, Working(Node), NEW m \in NS, Put(Node, m), NEW pc, Goto(Node, pc)
  PROVE  /\ mnt'[Node] = m
         /\ proc'[Node].pc = pc /\ proc'[Node].req = proc[Node].req
         /\ proc'[Node].next = proc[Node].next
         /\ proc'[Node].list = proc[Node].list
         /\ proc'[Node].try = proc[Node].try
  <1> DEFINE r == [proc[Node] EXCEPT !.pc = pc]
  <1>1. mnt' = [mnt EXCEPT ![Node] = m]
    BY AtNode, AtWork
  <1>2. mnt'[Node] = m
    BY <1>1, AtNode
  <1>3. r = [pc |-> pc, req |-> proc[Node].req, ns |-> proc[Node].ns,
             next |-> proc[Node].next, list |-> proc[Node].list,
             try |-> proc[Node].try, root |-> proc[Node].root]
    BY AtNode, ProcForm
  <1>4. proc'[Node] = r
    BY AtNode DEF Goto
  <1> HIDE DEF r
  <1> QED
    BY <1>2, <1>3, <1>4

\* A step of setupRoot that comes to its end.
LEMMA BuildingStep ==
  ASSUME UInv, Working(Node), NEW m \in NS, Put(Node, m), NEW pc, Goto(Node, pc),
         Single(m),
         \/ pc \in Stage /\ Building(m, proc[Node].req, pc)
         \/ pc = "rootfs" /\ m.udi = <<>>
         \/ pc = "job" /\ Settled(m)
  PROVE  Held(mnt'[Node], proc'[Node], faults')
  <1>1. mnt'[Node] = m /\ proc'[Node].pc = pc /\ proc'[Node].req = proc[Node].req
    BY NodeSets
  <1>2. pc \in Stage \cup {"rootfs", "job"}
    OBVIOUS
  <1> QED
    BY <1>1, <1>2 DEF Held, Stage

LEMMA MountImageLoopHeld ==
  ASSUME UInv, FInv, MountImageLoop(Node)
  PROVE  Held(mnt'[Node], proc'[Node], faults')
  <1> DEFINE m == [mnt[Node] EXCEPT !.loop = <<proc[Node].req>> \o @]
  <1>1. proc[Node].pc = "loop" /\ proc[Node].pc \in Steps
    BY DEF MountImageLoop, Do, Steps
  <1>2. Mounts(Node) = mnt[Node] /\ mnt[Node] \in NS /\ Working(Node)
          /\ proc[Node].req \in Looped
    BY <1>1, AtNode, AtStep DEF NodeInv
  <1>3. mnt[Node] = Bare
    BY <1>1 DEF FInv, Held
  <1>4. m = [udi |-> <<>>, loop |-> <<proc[Node].req>>]
    <2>1. <<proc[Node].req>> \o <<>> = <<proc[Node].req>>
      BY <1>2
    <2> QED
      BY <1>2, <1>3, <2>1, RecordForm DEF Bare
  <1>5. <<proc[Node].req>> \in Seq(Looped) /\ Len(<<proc[Node].req>>) = 1
          /\ <<>> \in Seq(UDI) /\ Len(<<>>) = 0
    BY <1>2
  <1>6. m \in NS /\ Single(m) /\ m.udi = <<>>
    <2>1. m.udi = <<>> /\ m.loop = <<proc[Node].req>>
      BY <1>4
    <2>2. m \in NS
      BY <1>4, <1>5 DEF NS
    <2> HIDE DEF m
    <2> QED
      BY <1>5, <2>1, <2>2 DEF Single
  <1>7. Put(Node, m) /\ Goto(Node, "rootfs")
    BY <1>2 DEF MountImageLoop, Do
  <1> HIDE DEF m
  <1> QED
    BY <1>2, <1>6, <1>7, BuildingStep

LEMMA MountRootfsHeld ==
  ASSUME UInv, FInv, MountRootfs(Node)
  PROVE  Held(mnt'[Node], proc'[Node], faults')
  <1> DEFINE u == Blank(proc[Node].req)
             m == Stack(mnt[Node], u)
  <1>1. proc[Node].pc = "rootfs" /\ proc[Node].pc \in Steps
    BY DEF MountRootfs, Do, Steps
  <1>2. Mounts(Node) = mnt[Node] /\ mnt[Node] \in NS /\ Working(Node)
          /\ proc[Node].req \in Request
    BY <1>1, AtNode, AtStep
  <1>3. mnt[Node].udi = <<>> /\ Len(mnt[Node].loop) =< 1
    BY <1>1 DEF FInv, Held, Single
  <1>4. u \in UDI /\ u.of = proc[Node].req /\ u.has = {} /\ u.config = None
    BY <1>2, BlankType DEF Blank
  <1>5. m \in NS /\ Len(m.udi) = 1 /\ m.udi[1] = u /\ m.loop = mnt[Node].loop
    <2>1. Len(mnt[Node].udi) + 1 = 1
      BY <1>3
    <2> QED
      BY <1>2, <1>4, <2>1, StackType, LoopStays
  <1>6. Put(Node, m) /\ Goto(Node, "site")
    BY <1>2 DEF MountRootfs, Do
  <1> HIDE DEF m, u
  <1>7. Single(m) /\ Building(m, proc[Node].req, "site")
    BY <1>3, <1>4, <1>5 DEF Single, Building, NodeFilled, Filled
  <1>8. "site" \in Stage
    BY DEF Stage
  <1> QED
    BY <1>2, <1>5, <1>6, <1>7, <1>8, BuildingStep

\* What setupRoot has built so far.
LEMMA AtBuilding ==
  ASSUME UInv, FInv, proc[Node].pc \in Stage
  PROVE  /\ Working(Node) /\ Mounts(Node) = mnt[Node] /\ mnt[Node] \in NS
         /\ mnt[Node].udi # <<>> /\ Top(mnt[Node]) = mnt[Node].udi[1]
         /\ mnt[Node].udi[1] \in UDI
         /\ Len(mnt[Node].loop) =< 1
         /\ proc[Node].req \in Request
         /\ Building(mnt[Node], proc[Node].req, proc[Node].pc)
  <1>1. proc[Node].pc \in Steps
    BY DEF Stage, Steps
  <1>2. Working(Node) /\ Mounts(Node) = mnt[Node] /\ mnt[Node] \in NS
          /\ proc[Node].req \in Request /\ mnt[Node].udi # <<>>
    BY <1>1, AtNode, AtStep
  <1>3. Building(mnt[Node], proc[Node].req, proc[Node].pc)
          /\ Len(mnt[Node].loop) =< 1
    BY DEF FInv, Held, Single
  <1> QED
    BY <1>2, <1>3, TopType

LEMMA AddHeld ==
  ASSUME UInv, FInv, proc[Node].pc \in Stage, proc[Node].pc # "readonly",
         NEW paths \in SUBSET Paths, NEW pc \in Stage, pc # "readonly",
         NodeFilled(proc[Node].req, pc)
           \in {NodeFilled(proc[Node].req, proc[Node].pc) \cup paths,
                NodeFilled(proc[Node].req, proc[Node].pc) \cup
                  (paths \ Ssh[proc[Node].req])},
         Put(Node, With(Mounts(Node), paths)), Goto(Node, pc)
  PROVE  Held(mnt'[Node], proc'[Node], faults')
  <1> DEFINE u == mnt[Node].udi[1]
             m == With(mnt[Node], paths)
  <1>1. m \in NS /\ Len(m.udi) = Len(mnt[Node].udi)
          /\ m.udi[1] = [u EXCEPT !.has = @ \cup paths]
    BY AtBuilding, WithType
  <1>2. m.loop = mnt[Node].loop
    BY AtBuilding, LoopStays DEF With
  <1>3. m.udi[1].of = u.of /\ m.udi[1].has = u.has \cup paths
          /\ m.udi[1].config = u.config
    <2>1. u \in UDI
      BY AtBuilding
    <2> HIDE DEF m, u
    <2> QED
      BY <1>1, <2>1 DEF UDI
  <1>4. Put(Node, m)
    BY AtBuilding
  <1>5. Building(mnt[Node], proc[Node].req, proc[Node].pc)
          /\ Len(mnt[Node].loop) =< 1
    BY AtBuilding
  <1> HIDE DEF m
  <1>6. Single(m) /\ Building(m, proc[Node].req, pc)
    BY <1>1, <1>2, <1>3, <1>5 DEF Single, Building
  <1> QED
    BY <1>1, <1>4, <1>6, AtBuilding, BuildingStep

LEMMA PrepareSiteHeld ==
  ASSUME UInv, FInv, PrepareSite(Node)
  PROVE  Held(mnt'[Node], proc'[Node], faults')
  <1>1. proc[Node].pc = "site" /\ "site" \in Stage /\ "image" \in Stage
    BY DEF PrepareSite, Do, Stage
  <1>2. Site \in SUBSET Paths
    BY UdiAssumption DEF UdiAssumption
  <1>3. NodeFilled(proc[Node].req, "image")
          = NodeFilled(proc[Node].req, "site") \cup Site
    BY DEF NodeFilled, Filled
  <1>4. Put(Node, With(Mounts(Node), Site)) /\ Goto(Node, "image")
    BY DEF PrepareSite, Do
  <1> QED
    BY <1>1, <1>2, <1>3, <1>4, AddHeld

LEMMA BindImageHeld ==
  ASSUME UInv, FInv, Recoverable, BindImage(Node)
  PROVE  Held(mnt'[Node], proc'[Node], faults')
  <1> DEFINE paths == Image[proc[Node].req]
  <1>1. proc[Node].pc = "image" /\ "image" \in Stage /\ "ssh" \in Stage
    BY DEF BindImage, Stage
  <1>2. paths \in SUBSET Paths
    BY <1>1, AtBuilding, UdiAssumption DEF UdiAssumption
  <1>3. NodeFilled(proc[Node].req, "ssh")
          = NodeFilled(proc[Node].req, "image") \cup paths
    BY DEF NodeFilled, Filled
  <1>4. Put(Node, With(Mounts(Node), paths)) /\ Goto(Node, "ssh")
    BY DEF BindImage, Bound, Recoverable, Do
  <1> HIDE DEF paths
  <1> QED
    BY <1>1, <1>2, <1>3, <1>4, AddHeld

LEMMA SetupUserMountsHeld ==
  ASSUME UInv, FInv, SetupUserMounts(Node)
  PROVE  Held(mnt'[Node], proc'[Node], faults')
  <1> DEFINE paths == Volumes[proc[Node].req]
  <1>1. proc[Node].pc = "user" /\ "user" \in Stage /\ "save" \in Stage
    BY DEF SetupUserMounts, Do, Stage
  <1>2. paths \in SUBSET Paths
    BY <1>1, AtBuilding, UdiAssumption DEF UdiAssumption
  <1>3. NodeFilled(proc[Node].req, "save")
          = NodeFilled(proc[Node].req, "user") \cup paths
    BY DEF NodeFilled, Filled, Points
  <1>4. Put(Node, With(Mounts(Node), paths)) /\ Goto(Node, "save")
    BY DEF SetupUserMounts, Do
  <1> HIDE DEF paths
  <1> QED
    BY <1>1, <1>2, <1>3, <1>4, AddHeld

LEMMA SetupSshHeld ==
  ASSUME UInv, FInv, SetupSsh(Node)
  PROVE  Held(mnt'[Node], proc'[Node], faults')
  <1>1. proc[Node].pc = "ssh" /\ "ssh" \in Stage /\ "user" \in Stage
    BY DEF SetupSsh, Do, Stage
  <1>2. PICK paths \in {{}, Ssh[proc[Node].req]} :
          Do(Node, "ssh", With(Mounts(Node), paths), "user")
    BY DEF SetupSsh
  <1>3. paths \in SUBSET Paths /\ paths \ Ssh[proc[Node].req] = {}
    BY <1>1, <1>2, AtBuilding, UdiAssumption DEF UdiAssumption
  <1>4. NodeFilled(proc[Node].req, "user")
          = NodeFilled(proc[Node].req, "ssh") \cup (paths \ Ssh[proc[Node].req])
    BY <1>3 DEF NodeFilled, Filled
  <1>5. Put(Node, With(Mounts(Node), paths)) /\ Goto(Node, "user")
    BY <1>2 DEF SetupSsh, Do
  <1> QED
    BY <1>1, <1>3, <1>4, <1>5, AddHeld

\* A step that marks the UDI, which has all its mounts.
LEMMA MarkHeld ==
  ASSUME UInv, FInv, proc[Node].pc \in {"save", "readonly"},
         NEW u \in UDI, u.of = mnt[Node].udi[1].of, u.has = mnt[Node].udi[1].has,
         u.config \in {proc[Node].req, "torn"},
         NEW pc \in {"readonly", "job"},
         Put(Node, Change(Mounts(Node), u)), Goto(Node, pc)
  PROVE  Held(mnt'[Node], proc'[Node], faults')
  <1> DEFINE m == Change(mnt[Node], u)
             r == proc[Node].req
  <1>1. proc[Node].pc \in Stage /\ "readonly" \in Stage
    BY DEF Stage
  <1>2. m \in NS /\ Len(m.udi) = Len(mnt[Node].udi) /\ m.udi[1] = u
          /\ m.loop = mnt[Node].loop
    BY <1>1, AtBuilding, ChangeType, LoopStays
  <1>3. Building(mnt[Node], r, proc[Node].pc) /\ Len(mnt[Node].loop) =< 1
    BY <1>1, AtBuilding
  <1>4. Put(Node, m)
    BY <1>1, AtBuilding
  <1> HIDE DEF m
  <1>5. Len(m.udi) = 1 /\ Single(m)
    BY <1>2, <1>3 DEF Building, Single
  <1>6. /\ u.of = r /\ Points(r) \subseteq u.has
        /\ u.has \subseteq Points(r) \cup Ssh[r]
    BY <1>3 DEF Building, NodeFilled, Filled
  <1>7. Building(m, r, "readonly")
    BY <1>2, <1>5, <1>6 DEF Building, NodeFilled, Filled
  <1>8. Settled(m)
    BY <1>2, <1>5, <1>6 DEF Settled, Whole
  <1> QED
    BY <1>1, <1>2, <1>4, <1>5, <1>7, <1>8, AtBuilding, BuildingStep

LEMMA SaveConfigHeld ==
  ASSUME UInv, FInv, SaveConfig(Node)
  PROVE  Held(mnt'[Node], proc'[Node], faults')
  <1> DEFINE top       == mnt[Node].udi[1]
             u(config) == [top EXCEPT !.config = config]
             pc        == IF Writable THEN Ready(Node) ELSE "readonly"
  <1>1. PICK config \in {proc[Node].req, "torn"} :
          Do(Node, "save",
             Change(Mounts(Node), [Top(Mounts(Node)) EXCEPT !.config = config]), pc)
    BY DEF SaveConfig
  <1>2. proc[Node].pc = "save" /\ proc[Node].pc \in Stage
    BY <1>1 DEF Do, Stage
  <1>3. top \in UDI /\ Mounts(Node) = mnt[Node] /\ Top(mnt[Node]) = top
          /\ proc[Node].req \in Request
    BY <1>2, AtBuilding
  <1>4. u(config) \in UDI /\ u(config).of = top.of /\ u(config).has = top.has
          /\ u(config).config = config
    <2> HIDE DEF top
    <2>1. config \in Request \cup {None, "torn"}
      BY <1>3
    <2> QED
      BY <1>3, <2>1 DEF UDI
  <1>5. Put(Node, Change(Mounts(Node), u(config))) /\ Goto(Node, pc)
    BY <1>1, <1>3 DEF Do
  <1>6. pc \in {"readonly", "job"}
    BY DEF Ready
  <1> HIDE DEF u, pc
  <1> QED
    BY <1>2, <1>4, <1>5, <1>6, MarkHeld

LEMMA RemountReadonlyHeld ==
  ASSUME UInv, FInv, RemountReadonly(Node)
  PROVE  Held(mnt'[Node], proc'[Node], faults')
  <1> DEFINE top == mnt[Node].udi[1]
             u   == [top EXCEPT !.ro = TRUE]
  <1>1. proc[Node].pc = "readonly" /\ proc[Node].pc \in Stage
    BY DEF RemountReadonly, Do, Stage
  <1>2. top \in UDI /\ Mounts(Node) = mnt[Node] /\ Top(mnt[Node]) = top
          /\ top.config \in {proc[Node].req, "torn"}
    BY <1>1, AtBuilding DEF Building
  <1>3. u \in UDI /\ u.of = top.of /\ u.has = top.has /\ u.config = top.config
    <2> HIDE DEF top
    <2> QED
      BY <1>2 DEF UDI
  <1>4. Put(Node, Change(Mounts(Node), u)) /\ Goto(Node, "job")
    BY <1>2 DEF RemountReadonly, Do, Ready
  <1> HIDE DEF u
  <1> QED
    BY <1>1, <1>2, <1>3, <1>4, MarkHeld

-----------------------------------------------------------------------------
(* The ends of setupRoot, and destructUDI on the node.                     *)

LEMMA PartlyHeld ==
  ASSUME UInv, FInv, proc[Node].pc \in Steps, NEW m \in Partly(Node)
  PROVE  /\ m \in NS /\ Single(m)
         /\ Settled(m) \/ Unfinished(m)
         /\ proc[Node].pc = "site" => Unfinished(m)
  <1> DEFINE r  == proc[Node].req
             pc == proc[Node].pc
             u  == mnt[Node].udi[1]
  <1>1. Working(Node) /\ Mounts(Node) = mnt[Node] /\ mnt[Node] \in NS
          /\ r \in Request /\ Node \in Procs
    BY AtNode, AtStep
  <1>2. m \in NS
    BY <1>1, PartlyType
  <1>3. Single(mnt[Node])
    BY DEF FInv, Held
  <1>4. CASE pc = "loop"
    <2>1. m = mnt[Node] /\ mnt[Node] = Bare
      BY <1>1, <1>4 DEF Partly, FInv, Held
    <2> QED
      BY <1>2, <1>3, <1>4, <2>1 DEF Settled
  <1>5. CASE pc = "rootfs"
    <2>1. mnt[Node].udi = <<>>
      BY <1>5 DEF FInv, Held
    <2>2. CASE m = mnt[Node]
      BY <1>2, <1>3, <1>5, <2>1, <2>2 DEF Unfinished
    <2>3. CASE m = Stack(mnt[Node], Blank(r))
      <3>1. Blank(r) \in UDI /\ Blank(r).config = None
        BY <1>1, BlankType DEF Blank
      <3>2. Len(m.udi) = Len(mnt[Node].udi) + 1 /\ m.udi[1] = Blank(r)
              /\ m.loop = mnt[Node].loop
        BY <1>1, <2>3, <3>1, StackType, LoopStays
      <3>3. Len(m.udi) = 1
        BY <2>1, <3>2
      <3>4. Single(m)
        <4>1. Len(m.loop) =< 1
          BY <1>3, <3>2 DEF Single
        <4> QED
          BY <3>3, <4>1 DEF Single
      <3>5. Unfinished(m)
        BY <3>1, <3>2 DEF Unfinished
      <3> QED
        BY <1>2, <1>5, <3>4, <3>5
    <2>4. m \in {mnt[Node], Stack(mnt[Node], Blank(r))}
      BY <1>1, <1>5 DEF Partly
    <2> QED
      BY <2>2, <2>3, <2>4
  <1>6. CASE pc \in {"site", "image", "ssh", "user"}
    <2>1. pc \in Stage
      BY <1>6 DEF Stage
    <2>2. /\ Site \subseteq Paths /\ Image[r] \subseteq Paths
          /\ Volumes[r] \subseteq Paths /\ Ssh[r] \subseteq Paths
      BY <1>1, UdiAssumption DEF UdiAssumption
    <2>3. PICK paths \in SUBSET Paths : m = With(mnt[Node], paths)
      BY <1>1, <1>6, <2>2 DEF Partly
    <2>4. u \in UDI /\ u.config = None /\ mnt[Node].udi # <<>>
      BY <1>6, <2>1, AtBuilding DEF Building
    <2>5. Len(m.udi) = Len(mnt[Node].udi) /\ m.loop = mnt[Node].loop
            /\ m.udi[1] = [u EXCEPT !.has = @ \cup paths]
      BY <1>1, <2>3, <2>4, WithType, LoopStays DEF With
    <2>6. m.udi[1].config = None
      <3> HIDE DEF u
      <3> QED
        BY <2>4, <2>5 DEF UDI
    <2> QED
      BY <1>2, <1>3, <2>5, <2>6 DEF Single, Unfinished
  <1>7. CASE pc \in {"save", "readonly"}
    <2>1. m = mnt[Node] /\ pc \in Stage
      BY <1>1, <1>7 DEF Partly, Stage
    <2>2. Building(mnt[Node], r, pc)
      BY <2>1, AtBuilding
    <2>3. CASE pc = "readonly"
      <3>1. Settled(m)
        BY <2>1, <2>2, <2>3 DEF Building, NodeFilled, Filled, Settled, Whole
      <3> QED
        BY <1>2, <1>3, <2>1, <2>3, <3>1
    <2>4. CASE pc # "readonly"
      BY <1>2, <1>3, <1>7, <2>1, <2>2, <2>4 DEF Building, Unfinished
    <2> QED
      BY <2>3, <2>4
  <1> QED
    BY <1>4, <1>5, <1>6, <1>7 DEF Steps

LEMMA FailedNow ==
  ASSUME UInv, proc[Node].req # None, NEW kind \in {"step", "die"},
         CanFail(kind, Node), Count(Node)
  PROVE  Failed(proc[Node], faults')
  <1>1. faults' = faults + 1 /\ faults \in Nat /\ kind \in Faults
    BY AtNode DEF CanFail, Count
  <1> QED
    BY <1>1 DEF Failed

LEMMA GiveUpHeld ==
  ASSUME UInv, Working(Node), NEW m \in NS, Single(m), GiveUp(Node, m),
         Settled(m) \/ (Unfinished(m) /\ Failed(proc[Node], faults'))
  PROVE  Held(mnt'[Node], proc'[Node], faults')
  <1>1. Put(Node, m) /\ Goto(Node, "job")
    BY DEF GiveUp
  <1>2. mnt'[Node] = m /\ proc'[Node].pc = "job" /\ proc'[Node].req = proc[Node].req
    BY <1>1, NodeSets
  <1> QED
    BY <1>2 DEF Held, Failed, Stage

\* A program of the node begins with destructUDI.
LEMMA DestructHeld ==
  ASSUME UInv, NEW m \in NS, mnt'[Node] = m, Single(m), faults' \in Nat,
         NEW next \in {"idle", "job"}, Destruct(Node, m, next),
         next = "job" => Unfinished(m) /\ Failed(proc[Node], faults')
  PROVE  Held(mnt'[Node], proc'[Node], faults')
  <1> DEFINE r == [proc[Node] EXCEPT !.pc = "destruct", !.next = next,
                                     !.list = Listed(m), !.try = 0]
  <1>1. proc'[Node] = r
    BY AtNode DEF Destruct
  <1>2. r.pc = "destruct" /\ r.next = next /\ r.list = Listed(m) /\ r.try = 0
          /\ r.req = proc[Node].req
    BY AtNode DEF Proc
  <1> HIDE DEF r
  <1> QED
    BY <1>1, <1>2 DEF Held, Failed, Stage

LEMMA StepFailsHeld ==
  ASSUME UInv, FInv, StepFails(Node)
  PROVE  Held(mnt'[Node], proc'[Node], faults')
  <1>1. proc[Node].pc \in Steps /\ CanFail("step", Node) /\ Count(Node)
    BY DEF StepFails
  <1>2. PICK m \in Partly(Node) :
          IF proc[Node].pc = "site"
            THEN Put(Node, m) /\ Destruct(Node, m, "job")
            ELSE GiveUp(Node, m)
    BY DEF StepFails
  <1>3. /\ m \in NS /\ Single(m)
        /\ Settled(m) \/ Unfinished(m)
        /\ proc[Node].pc = "site" => Unfinished(m)
    BY <1>1, PartlyHeld
  <1>4. Working(Node) /\ proc[Node].req # None
    BY <1>1, AtNode, UdiAssumption DEF UdiAssumption, NodeInv, Working
  <1>5. Failed(proc[Node], faults') /\ faults' \in Nat
    <2>1. faults' = faults + 1 /\ faults \in Nat
      BY <1>1, AtNode DEF Count
    <2> QED
      BY <1>1, <1>4, <2>1, FailedNow
  <1>6. CASE proc[Node].pc # "site"
    BY <1>2, <1>3, <1>4, <1>5, <1>6, GiveUpHeld
  <1>7. CASE proc[Node].pc = "site"
    <2>1. mnt'[Node] = m
      BY <1>2, <1>4, <1>7, AtNode, AtWork
    <2> QED
      BY <1>2, <1>3, <1>5, <1>7, <2>1, DestructHeld
  <1> QED
    BY <1>6, <1>7

LEMMA DieHeld ==
  ASSUME UInv, FInv, Die(Node)
  PROVE  Held(mnt'[Node], proc'[Node], faults') /\ proc'[Node].pc = "job"
  <1>1. PICK m \in Partly(Node) : GiveUp(Node, m)
    BY DEF Die
  <1>2. CanFail("die", Node) /\ Count(Node) /\ Working(Node)
    BY DEF Die, Working
  <1>3. m \in NS
    BY <1>1, <1>2, AtNode, PartlyType
  <1>4. proc'[Node].pc = "job"
    BY <1>1, <1>2, <1>3, NodeSets DEF GiveUp
  <1>5. CASE proc[Node].pc \in Steps
    <2>1. proc[Node].req # None
      BY <1>5, AtNode, UdiAssumption DEF UdiAssumption, NodeInv
    <2>2. Failed(proc[Node], faults')
      BY <1>2, <2>1, FailedNow
    <2>3. Single(m) /\ (Settled(m) \/ Unfinished(m))
      BY <1>1, <1>5, PartlyHeld
    <2> QED
      BY <1>1, <1>2, <1>3, <1>4, <2>2, <2>3, GiveUpHeld
  <1>6. CASE proc[Node].pc = "destruct" /\ proc[Node].next = "job"
    <2>1. m = mnt[Node]
      BY <1>1, <1>2, <1>6, AtNode, AtWork DEF Partly
    <2>2. Single(m) /\ Unfinished(m) /\ Failed(proc[Node], faults)
      BY <1>6, <2>1 DEF FInv, Held
    <2>3. faults' = faults + 1 /\ faults \in Nat
      BY <1>2, AtNode DEF Count
    <2>4. Failed(proc[Node], faults')
      BY <2>2, <2>3 DEF Failed
    <2> QED
      BY <1>1, <1>2, <1>3, <1>4, <2>2, <2>4, GiveUpHeld
  <1> QED
    BY <1>5, <1>6 DEF Die

LEMMA SingleSeq ==
  ASSUME NEW S, NEW q \in Seq(S), q # <<>>, Len(q) =< 1
  PROVE  Len(q) = 1 /\ Tail(q) = <<>> /\ DOMAIN q = {1} /\ q[1] \in S
  <1>1. Len(q) \in Nat /\ Len(q) # 0
    OBVIOUS
  <1>2. Len(q) = 1
    BY <1>1
  <1>3. DOMAIN q = {1} /\ q[1] \in S
    BY <1>2
  <1>4. Tail(q) \in Seq(S) /\ Len(Tail(q)) = 0
    BY <1>2
  <1>5. \A t \in Seq(S) : Len(t) = 0 => t = <<>>
    OBVIOUS
  <1> QED
    BY <1>2, <1>3, <1>4, <1>5

LEMMA ListedSingle ==
  ASSUME NEW m \in NS, Single(m)
  PROVE  /\ m.udi = <<>> =>
              Listed(m) = IF m.loop = <<>> THEN {} ELSE {"loop"}
         /\ m.udi # <<>> =>
              Len(m.udi) = 1 /\ m.udi[1] \in UDI /\ Top(m) = m.udi[1] /\
              Listed(m) = m.udi[1].has \cup {"root"}
                            \cup IF m.loop = <<>> THEN {} ELSE {"loop"}
  <1>1. m.udi \in Seq(UDI)
    BY DEF NS
  <1>2. CASE m.udi = <<>>
    <2>1. DOMAIN m.udi = {}
      BY <1>2
    <2>2. UNION {m.udi[i].has : i \in DOMAIN m.udi} = {}
      BY <2>1
    <2> QED
      BY <1>2, <2>2 DEF Listed
  <1>3. CASE m.udi # <<>>
    <2>1. Len(m.udi) = 1 /\ m.udi[1] \in UDI /\ DOMAIN m.udi = {1}
      BY <1>1, <1>3, SingleSeq DEF Single
    <2>2. Top(m) = m.udi[1]
      BY <1>3, TopType
    <2>3. UNION {m.udi[i].has : i \in DOMAIN m.udi} = m.udi[1].has
      BY <2>1
    <2> QED
      BY <1>3, <2>1, <2>2, <2>3 DEF Listed
  <1> QED
    BY <1>2, <1>3

\* What is listed of one UDI can be unmounted, if the root comes last, and
\* is off the list then.
LEMMA UmountListed ==
  ASSUME NEW m \in NS, Single(m), NEW x \in Listed(m),
         x = "root" => Listed(m) \cap Paths = {}
  PROVE  /\ Umountable(m, x)
         /\ Umount(m, x) \in NS /\ Single(Umount(m, x))
         /\ Listed(Umount(m, x)) = Listed(m) \ {x}
         /\ Unfinished(m) => Unfinished(Umount(m, x))
  <1> DEFINE n == Umount(m, x)
             u == m.udi[1]
  <1>0. "root" \notin Paths /\ "loop" \notin Paths /\ x \in Paths \cup {"root", "loop"}
    BY ListedType, UdiAssumption DEF UdiAssumption
  <1>a. m.udi # <<>> => u \in UDI /\ u.has \subseteq Paths
    BY ListedSingle DEF UDI
  <1>1. Umountable(m, x)
    <2>1. CASE x = "loop"
      BY <1>0, <1>a, <2>1, ListedSingle DEF Umountable
    <2>2. CASE x # "loop"
      BY <2>2, ListedSingle DEF Umountable
    <2> QED
      BY <2>1, <2>2
  <1>2. n \in NS
    BY <1>0, <1>1, UmountType
  <1>3. CASE x = "loop"
    <2>1. m.loop # <<>> /\ m.loop \in Seq(Looped) /\ Len(m.loop) =< 1
      BY <1>1, <1>3 DEF Umountable, NS, Single
    <2>2. Tail(m.loop) = <<>>
      BY <2>1, SingleSeq
    <2>3. n = [udi |-> m.udi, loop |-> <<>>]
      BY <1>3, <2>2, RecordForm DEF Umount
    <2>4. n.udi = m.udi /\ n.loop = <<>> /\ Len(<<>>) = 0
      BY <2>3
    <2> HIDE DEF n
    <2>5. Single(n) /\ (Unfinished(m) => Unfinished(n))
      BY <2>4 DEF Single, Unfinished
    <2>6. Listed(n) = Listed(m) \ {x}
      <3>1. CASE m.udi = <<>>
        BY <1>2, <1>3, <2>1, <2>4, <2>5, <3>1, ListedSingle
      <3>2. CASE m.udi # <<>>
        <4>1. Listed(n) = u.has \cup {"root"}
          BY <1>2, <2>4, <2>5, <3>2, ListedSingle
        <4>2. Listed(m) = u.has \cup {"root"} \cup {"loop"}
          BY <2>1, <3>2, ListedSingle
        <4> QED
          BY <1>0, <1>a, <1>3, <3>2, <4>1, <4>2
      <3> QED
        BY <3>1, <3>2
    <2> QED
      BY <1>1, <1>2, <2>5, <2>6 DEF n
  <1>4. CASE x = "root"
    <2>1. m.udi # <<>> /\ m.udi \in Seq(UDI) /\ Len(m.udi) =< 1
      BY <1>1, <1>4 DEF Umountable, NS, Single
    <2>2. Tail(m.udi) = <<>>
      BY <2>1, SingleSeq
    <2>3. n = [udi |-> <<>>, loop |-> m.loop]
      BY <1>4, <2>2, RecordForm DEF Umount
    <2>4. n.udi = <<>> /\ n.loop = m.loop /\ Len(<<>>) = 0
      BY <2>3
    <2> HIDE DEF n
    <2>5. Single(n) /\ Unfinished(n)
      BY <2>4 DEF Single, Unfinished
    <2>6. Listed(n) = IF m.loop = <<>> THEN {} ELSE {"loop"}
      BY <1>2, <2>4, <2>5, ListedSingle
    <2>7. Listed(m) = u.has \cup {"root"} \cup IF m.loop = <<>> THEN {} ELSE {"loop"}
      BY <2>1, ListedSingle
    <2>8. u.has = {}
      BY <1>a, <1>4, <2>1, <2>7
    <2>9. Listed(n) = Listed(m) \ {x}
      BY <1>0, <1>4, <2>6, <2>7, <2>8
    <2> QED
      BY <1>1, <1>2, <2>5, <2>9 DEF n
  <1>5. CASE x \in Paths
    <2> DEFINE v == [u EXCEPT !.has = @ \ {x}]
    <2>1. m.udi # <<>> /\ u \in UDI /\ Top(m) = u /\ Len(m.udi) = 1
            /\ x \notin {"root", "loop"}
      BY <1>0, <1>1, <1>5, ListedSingle DEF Umountable
    <2>2. v \in UDI /\ v.has = u.has \ {x} /\ v.config = u.config
      <3> HIDE DEF u
      <3> QED
        BY <2>1 DEF UDI
    <2>3. n = Change(m, v)
      BY <2>1 DEF Umount
    <2>4. n.udi # <<>> /\ Len(n.udi) = 1 /\ n.udi[1] = v /\ n.loop = m.loop
      BY <2>1, <2>2, <2>3, ChangeType, LoopStays
    <2> HIDE DEF n, u, v
    <2>5. Single(n) /\ (Unfinished(m) => Unfinished(n))
      <3>1. Unfinished(m) => u.config = None
        BY <2>1 DEF Unfinished, u
      <3> QED
        BY <2>2, <2>4, <3>1 DEF Single, Unfinished
    <2>6. Listed(n) = v.has \cup {"root"} \cup IF m.loop = <<>> THEN {} ELSE {"loop"}
      BY <1>2, <2>4, <2>5, ListedSingle
    <2>7. Listed(m) = u.has \cup {"root"} \cup IF m.loop = <<>> THEN {} ELSE {"loop"}
      BY <2>1, ListedSingle DEF u
    <2> QED
      BY <1>1, <1>2, <2>1, <2>2, <2>5, <2>6, <2>7 DEF n
  <1> QED
    BY <1>0, <1>3, <1>4, <1>5

\* An unmount that fails, of which there are fewer than tries.
LEMMA AgainHeld ==
  ASSUME UInv, FInv, Recoverable, proc[Node].pc = "destruct", Again(Node),
         CanFail("umount", Node), Count(Node)
  PROVE  Held(mnt'[Node], proc'[Node], faults') /\ proc'[Node].pc = "destruct"
  <1> DEFINE r == [proc[Node] EXCEPT !.try = @ + 1]
  <1>1. faults < MaxFaults /\ faults' = faults + 1 /\ MaxFaults < Tries
          /\ faults \in Nat /\ MaxFaults \in Nat
    BY AtNode DEF CanFail, Count, Recoverable
  <1>2. proc[Node].try \in Nat /\ Tries \in Nat /\ proc[Node] \in Proc
    BY AtNode, UdiAssumption DEF UdiAssumption, Proc
  <1>3. /\ proc[Node].try =< faults /\ Single(mnt[Node])
        /\ proc[Node].list = Listed(mnt[Node])
        /\ proc[Node].next = "job" =>
             Unfinished(mnt[Node]) /\ Failed(proc[Node], faults)
    BY DEF FInv, Held
  <1>4. proc[Node].try + 1 < Tries /\ proc[Node].try + 1 =< faults'
    BY <1>1, <1>2, <1>3
  <1>5. proc'[Node] = r /\ mnt'[Node] = mnt[Node]
    BY <1>4, AtNode DEF Again
  <1>6. r.pc = "destruct" /\ r.try = proc[Node].try + 1 /\ r.list = proc[Node].list
          /\ r.next = proc[Node].next /\ r.req = proc[Node].req
    BY <1>2 DEF Proc
  <1> HIDE DEF r
  <1>7. Failed(proc[Node], faults) => Failed(r, faults')
    BY <1>1, <1>6 DEF Failed
  <1>8. r.pc \notin {"idle", "job", "loop", "rootfs"} \cup Stage
    BY <1>6 DEF Stage
  <1> QED
    BY <1>3, <1>4, <1>5, <1>6, <1>7, <1>8 DEF Held

LEMMA UnmountTreeHeld ==
  ASSUME UInv, FInv, Recoverable, proc[Node].pc = "destruct",
         NEW x \in proc[Node].list, x = "root" => Below(Node) = {},
         UnmountTree(Node, x)
  PROVE  Held(mnt'[Node], proc'[Node], faults') /\ proc'[Node].pc = "destruct"
  <1> DEFINE m == mnt[Node]
  <1>1. /\ Single(m) /\ proc[Node].list = Listed(m) /\ proc[Node].try =< faults
        /\ proc[Node].next = "job" => Unfinished(m) /\ Failed(proc[Node], faults)
    BY DEF FInv, Held
  <1>2. Mounts(Node) = m /\ m \in NS /\ Working(Node) /\ proc[Node] \in Proc
    BY AtNode, InDestruct
  <1>3. x \in Listed(m) /\ (x = "root" => Listed(m) \cap Paths = {})
    BY <1>1 DEF Below
  <1>4. /\ Umountable(m, x)
        /\ Umount(m, x) \in NS /\ Single(Umount(m, x))
        /\ Listed(Umount(m, x)) = Listed(m) \ {x}
        /\ Unfinished(m) => Unfinished(Umount(m, x))
    BY <1>1, <1>2, <1>3, UmountListed
  <1>5. CASE UnmountFails(Node, x)
    BY <1>2, <1>4, <1>5, AgainHeld DEF UnmountFails
  <1>6. CASE UnmountDone(Node, x)
    <2> DEFINE r == [proc[Node] EXCEPT !.list = @ \ {x}]
               n == Umount(m, x)
    <2>1. Put(Node, n) /\ faults' = faults /\ proc'[Node] = r
      BY <1>2, <1>6, AtNode DEF UnmountDone
    <2>2. mnt'[Node] = n
      BY <1>2, <1>4, <2>1, AtNode, AtWork
    <2>3. r.pc = "destruct" /\ r.try = proc[Node].try
            /\ r.list = proc[Node].list \ {x}
            /\ r.next = proc[Node].next /\ r.req = proc[Node].req
      BY <1>2 DEF Proc
    <2> HIDE DEF r, n
    <2>4. Failed(proc[Node], faults) => Failed(r, faults)
      BY <2>3 DEF Failed
    <2>5. r.pc \notin {"idle", "job", "loop", "rootfs"} \cup Stage
      BY <2>3 DEF Stage
    <2>6. Single(n) /\ r.list = Listed(n) /\ (Unfinished(m) => Unfinished(n))
      BY <1>1, <1>4, <2>3 DEF n
    <2> HIDE DEF m
    <2> QED
      BY <1>1, <2>1, <2>2, <2>3, <2>4, <2>5, <2>6 DEF Held
  <1> QED
    BY <1>5, <1>6 DEF UnmountTree

\* destructUDI on the node does not end before nothing is left.
LEMMA DestructUDIHeld ==
  ASSUME UInv, FInv, Recoverable, DestructUDI(Node)
  PROVE  /\ Held(mnt'[Node], proc'[Node], faults')
         /\ proc'[Node].pc = "destruct" \/ mnt'[Node] = Bare
  <1>1. proc[Node].pc = "destruct"
    BY DEF DestructUDI
  <1>2. Mounts(Node) = mnt[Node] /\ mnt[Node] \in NS /\ Working(Node)
    BY <1>1, AtNode, InDestruct
  <1>3. Single(mnt[Node]) /\ proc[Node].list = Listed(mnt[Node])
    BY <1>1 DEF FInv, Held
  <1>4. ASSUME NEW x \in Paths \cup {"root"}, Deepest(Node, x), UnmountTree(Node, x)
        PROVE  Held(mnt'[Node], proc'[Node], faults') /\ proc'[Node].pc = "destruct"
    <2>1. "root" \notin Paths
      BY UdiAssumption DEF UdiAssumption
    <2>2. x \in proc[Node].list /\ (x = "root" => Below(Node) = {})
      BY <1>4, <2>1 DEF Deepest, Below
    <2> QED
      BY <1>1, <1>4, <2>2, UnmountTreeHeld
  <1>5. ASSUME "loop" \in proc[Node].list, UnmountTree(Node, "loop")
        PROVE  Held(mnt'[Node], proc'[Node], faults') /\ proc'[Node].pc = "destruct"
    BY <1>1, <1>5, UnmountTreeHeld
  <1>6. ~ /\ proc[Node].list \subseteq {"loop"}
          /\ \/ Mounts(Node).udi # <<>>
             \/ proc[Node].list = {} /\ Mounts(Node).loop # <<>>
    BY <1>2, <1>3, ListedSingle
  <1>7. ASSUME Mounts(Node) = Bare, Destructed(Node)
        PROVE  Held(mnt'[Node], proc'[Node], faults') /\ mnt'[Node] = Bare
    <2>1. UNCHANGED mnt /\ Goto(Node, proc[Node].next)
            /\ proc[Node].next \in {"idle", "job"}
      BY <1>1, <1>7, AtNode DEF Destructed, NodeInv
    <2>2. mnt'[Node] = Bare
      BY <1>2, <1>7, <2>1
    <2>3. proc'[Node].pc = proc[Node].next
      BY <2>1, AtNode DEF Goto, Proc
    <2>4. Settled(Bare) /\ Single(Bare)
      BY <1>2, <1>3, <1>7 DEF Settled
    <2> QED
      BY <2>1, <2>2, <2>3, <2>4 DEF Held, Stage
  <1> QED
    BY <1>4, <1>5, <1>6, <1>7 DEF DestructUDI

-----------------------------------------------------------------------------
(* The prolog and the epilog.                                              *)

LEMMA PrologHeld ==
  ASSUME UInv, FInv, Prolog
  PROVE  Held(mnt'[Node], proc'[Node], faults')
  <1>1. PICK req \in Request \cup {None}, pc \in {"job", "loop", "rootfs"} :
          /\ proc' = [proc EXCEPT ![Node] = [@ EXCEPT !.req = req, !.pc = pc]]
          /\ pc # "job" => ~Loaded(mnt[Node])
    BY DEF Prolog, FirstStep
  <1> DEFINE r == [proc[Node] EXCEPT !.req = req, !.pc = pc]
  <1>2. proc'[Node] = r /\ mnt'[Node] = mnt[Node]
    BY <1>1, AtNode DEF Prolog
  <1>3. r.pc = pc
    BY AtNode DEF Proc
  <1>4. Settled(mnt[Node]) /\ Single(mnt[Node])
    BY DEF Prolog, FInv, Held
  <1>5. ASSUME ~Loaded(mnt[Node]) PROVE mnt[Node] = Bare
    <2> SUFFICES ASSUME mnt[Node] # Bare PROVE FALSE
      OBVIOUS
    <2>1. Len(mnt[Node].udi) = 1 /\ mnt[Node].udi[1].config \in {mnt[Node].udi[1].of, "torn"}
      BY <1>4 DEF Settled
    <2>2. mnt[Node].udi # <<>>
      BY <2>1
    <2>3. mnt[Node].udi[1] \in UDI /\ Top(mnt[Node]) = mnt[Node].udi[1]
      BY <2>2, AtNode, TopType
    <2>4. Top(mnt[Node]).config = None
      BY <1>5, <2>2 DEF Loaded
    <2>5. mnt[Node].udi[1].of \in Request
      BY <2>3 DEF UDI
    <2> QED
      BY <2>1, <2>3, <2>4, <2>5, UdiAssumption DEF UdiAssumption, UDI
  <1>6. Bare.udi = <<>>
    BY DEF Bare
  <1> HIDE DEF r
  <1> QED
    BY <1>1, <1>2, <1>3, <1>4, <1>5, <1>6 DEF Held, Stage

LEMMA IdleHeld ==
  ASSUME UInv, Settled(mnt[Node]), Single(mnt[Node]),
         proc' = [proc EXCEPT ![Node] = Idle], UNCHANGED mnt
  PROVE  Held(mnt'[Node], proc'[Node], faults')
  <1>1. proc'[Node] = Idle /\ mnt'[Node] = mnt[Node]
    BY AtNode
  <1>2. Idle.pc = "idle"
    BY DEF Idle
  <1> QED
    BY <1>1, <1>2 DEF Held, Stage

LEMMA EpilogHeld ==
  ASSUME UInv, FInv, Epilog
  PROVE  Held(mnt'[Node], proc'[Node], faults')
  <1>1. proc[Node].pc = "job" /\ UNCHANGED <<mnt, faults>>
    BY DEF Epilog, JobEnds
  <1>2. /\ Single(mnt[Node])
        /\ Settled(mnt[Node]) \/ (Unfinished(mnt[Node]) /\ Failed(proc[Node], faults))
    BY <1>1 DEF FInv, Held
  <1>3. CASE proc[Node].req = None
    BY <1>1, <1>2, <1>3, IdleHeld DEF Epilog, Failed
  <1>4. CASE proc[Node].req # None
    <2>1. Destruct(Node, mnt[Node], "idle")
      BY <1>4 DEF Epilog
    <2>2. mnt'[Node] = mnt[Node] /\ mnt[Node] \in NS /\ faults' \in Nat
      BY <1>1, AtNode
    <2> QED
      BY <1>2, <2>1, <2>2, DestructHeld
  <1> QED
    BY <1>3, <1>4

LEMMA EpilogFailsHeld ==
  ASSUME UInv, FInv, Recoverable, EpilogFails
  PROVE  Held(mnt'[Node], proc'[Node], faults')
  <1>1. proc[Node].pc = "job" /\ CanFail("early", Node)
    BY DEF EpilogFails, Recoverable, CanFail, Hits, JobEnds
  <1>2. "early" \in Faults /\ faults < MaxFaults /\ faults \in Nat /\ MaxFaults \in Nat
    BY <1>1, AtNode DEF CanFail
  <1>3. Single(mnt[Node]) /\ Settled(mnt[Node])
    <2>1. /\ Single(mnt[Node])
          /\ Settled(mnt[Node]) \/ (Unfinished(mnt[Node]) /\ Failed(proc[Node], faults))
      BY <1>1 DEF FInv, Held
    <2>2. ~Failed(proc[Node], faults)
      BY <1>2 DEF Failed, Recoverable
    <2> QED
      BY <2>1, <2>2
  <1> QED
    BY <1>3, IdleHeld DEF EpilogFails

LEMMA NodeHeld ==
  ASSUME UInv, FInv, Recoverable,
         Prolog \/ Epilog \/ EpilogFails \/ Setup(Node) \/ DestructUDI(Node)
  PROVE  FInv'
  <1>1. Held(mnt'[Node], proc'[Node], faults')
    BY PrologHeld, EpilogHeld, EpilogFailsHeld, DestructUDIHeld,
       MountImageLoopHeld, MountRootfsHeld, PrepareSiteHeld, BindImageHeld,
       SetupSshHeld, SetupUserMountsHeld, SaveConfigHeld, RemountReadonlyHeld,
       StepFailsHeld, DieHeld DEF Setup
  <1>2. \A s \in Shifters : proc[s] = Idle
    <2>1. proc[Node].pc # "job" \/ JobEnds
      <3>1. CASE Prolog \/ Epilog \/ EpilogFails
        BY <3>1 DEF Prolog, Epilog, EpilogFails, Hits
      <3>2. CASE Setup(Node) \/ DestructUDI(Node)
        <4>1. Working(Node)
          BY <3>2, AtNode, WorkChanges
        <4> QED
          BY <4>1 DEF Working, Steps
      <3> QED
        BY <3>1, <3>2
    <2> QED
      BY <2>1, NodeAlone
  <1>3. \A s \in Shifters : proc'[s] = Idle
    BY <1>2, NodeChanges
  <1>4. Idle.pc = "idle"
    BY DEF Idle
  <1>5. \A s \in Shifters : Found(s)'
    BY <1>3, <1>4 DEF Found
  <1> QED
    BY <1>1, <1>5 DEF FInv

-----------------------------------------------------------------------------
(* The shifters that take the UDI of the node.                             *)

\* A shifter changes nothing of the state of others.
LEMMA ShifterChanges ==
  ASSUME UInv, NEW s \in Shifters, Setup(s) \/ DestructUDI(s) \/ Shifter(s)
  PROVE  faults' = faults /\ \A q \in Procs \ {s} : proc'[q] = proc[q]
  <1>1. s # Node /\ s \in Procs /\ proc \in [Procs -> Proc]
    BY AtShifter
  <1>2. Count(s) => faults' = faults
    BY <1>1 DEF Count
  <1>3. \A pc : Goto(s, pc) => \A q \in Procs \ {s} : proc'[q] = proc[q]
    BY <1>1 DEF Goto
  <1>4. \A m, next : Destruct(s, m, next) => \A q \in Procs \ {s} : proc'[q] = proc[q]
    BY <1>1 DEF Destruct
  <1>5. \A m : GiveUp(s, m) => \A q \in Procs \ {s} : proc'[q] = proc[q]
    BY <1>1 DEF GiveUp
  <1>6. CASE Setup(s)
    <2>1. CASE StepFails(s) \/ Die(s)
      BY <1>2, <1>4, <1>5, <2>1 DEF StepFails, Die
    <2>2. CASE SaveConfig(s)
      BY <1>2, <1>3, <2>2 DEF SaveConfig, Do
    <2>3. CASE ~(StepFails(s) \/ Die(s) \/ SaveConfig(s))
      BY <1>3, <1>6, <2>3 DEF Setup, MountImageLoop, MountRootfs, PrepareSite,
         BindImage, SetupSsh, SetupUserMounts, RemountReadonly, Do
    <2> QED
      BY <2>1, <2>2, <2>3
  <1>7. CASE DestructUDI(s)
    <2>1. Again(s) \/ Destructed(s) => \A q \in Procs \ {s} : proc'[q] = proc[q]
      BY <1>1, <1>3, <1>5 DEF Again, Destructed
    <2>2. \A x : UnmountTree(s, x) =>
            faults' = faults /\ \A q \in Procs \ {s} : proc'[q] = proc[q]
      BY <1>1, <1>2, <2>1 DEF UnmountTree, UnmountDone, UnmountFails
    <2> QED
      BY <1>7, <2>1, <2>2 DEF DestructUDI
  <1>8. CASE Shifter(s)
    BY <1>1, <1>3, <1>5, <1>8 DEF Shifter, Start, Check, Unshare, MakeSlave,
       Validate, Chroot, Exit
  <1> QED
    BY <1>6, <1>7, <1>8

\* One that builds a UDI of its own has left the namespace of the node.
LEMMA WorkAway ==
  ASSUME UInv, NEW s \in Shifters, Setup(s) \/ DestructUDI(s)
  PROVE  proc'[s] = Idle \/ proc'[s].ns = "slave"
  <1>1. s # Node /\ s \in Procs /\ proc \in [Procs -> Proc] /\ proc[s] \in Proc
    BY AtShifter
  <1>2. proc[s].ns = "slave"
    <2>1. Working(s)
      BY <1>1, WorkChanges
    <2> QED
      BY <2>1, AtShifter DEF ShifterInv, Working
  <1>3. \A pc : Goto(s, pc) => proc'[s].ns = "slave"
    BY <1>1, <1>2 DEF Goto, Proc
  <1>4. \A m, next : Destruct(s, m, next) => proc'[s].ns = "slave"
    BY <1>1, <1>2 DEF Destruct, Proc
  <1>5. \A m : GiveUp(s, m) => proc'[s] = Idle
    BY <1>1 DEF GiveUp
  <1>6. CASE Setup(s)
    <2>1. CASE StepFails(s) \/ Die(s)
      BY <1>4, <1>5, <2>1 DEF StepFails, Die
    <2>2. CASE ~(StepFails(s) \/ Die(s))
      BY <1>3, <1>6, <2>2 DEF Setup, MountImageLoop, MountRootfs, PrepareSite,
         BindImage, SetupSsh, SetupUserMounts, SaveConfig, RemountReadonly, Do
    <2> QED
      BY <2>1, <2>2
  <1>7. CASE DestructUDI(s)
    <2>1. Destructed(s) => proc'[s] = Idle \/ proc'[s].ns = "slave"
      BY <1>3, <1>5 DEF Destructed
    <2>2. proc' = [proc EXCEPT ![s].try = @ + 1] => proc'[s].ns = "slave"
      BY <1>1, <1>2 DEF Proc
    <2>3. Again(s) => proc'[s] = Idle \/ proc'[s].ns = "slave"
      BY <2>1, <2>2 DEF Again
    <2>4. ASSUME NEW x, UnmountDone(s, x) PROVE proc'[s].ns = "slave"
      BY <1>1, <1>2, <2>4 DEF UnmountDone, Proc
    <2> QED
      BY <1>7, <2>1, <2>3, <2>4 DEF DestructUDI, UnmountTree, UnmountFails
  <1> QED
    BY <1>6, <1>7

\* The UDI of the node that is the one a shifter wants has all of it.
LEMMA MatchesWhole ==
  ASSUME UInv, FInv, proc[Node].pc = "job", NEW r \in Request,
         Matches(mnt[Node], r)
  PROVE  Top(mnt[Node]).of = r /\ Whole(Top(mnt[Node]))
  <1>1. mnt[Node].udi # <<>> /\ Top(mnt[Node]).config = r
    BY DEF Matches
  <1>2. Top(mnt[Node]) = mnt[Node].udi[1]
    BY <1>1, AtNode, TopType
  <1>3. r # None /\ r # "torn"
    BY UdiAssumption DEF UdiAssumption
  <1>4. Settled(mnt[Node]) \/ Unfinished(mnt[Node])
    BY DEF FInv, Held
  <1>5. mnt[Node] # Bare
    BY <1>1 DEF Bare
  <1>6. ~Unfinished(mnt[Node])
    BY <1>1, <1>2, <1>3 DEF Unfinished
  <1> QED
    BY <1>1, <1>2, <1>3, <1>4, <1>5, <1>6 DEF Settled

LEMMA ShifterFound ==
  ASSUME UInv, FInv, NEW s \in Shifters, Shifter(s), mnt'[Node] = mnt[Node]
  PROVE  Found(s)'
  <1>1. s # Node /\ s \in Procs /\ proc \in [Procs -> Proc] /\ proc[s] \in Proc
    BY AtShifter
  <1>2. \A pc : Goto(s, pc) => proc'[s].pc = pc /\ proc'[s].ns = proc[s].ns
                                 /\ proc'[s].req = proc[s].req
    BY <1>1 DEF Goto, Proc
  <1>3. ASSUME NEW m, GiveUp(s, m) PROVE proc'[s].pc = "idle"
    <2>1. proc'[s] = Idle
      BY <1>1, <1>3 DEF GiveUp
    <2> QED
      BY <2>1 DEF Idle
  <1>4. CASE Start(s) \/ Unshare(s) \/ MakeSlave(s) \/ Validate(s) \/ Exit(s)
    <2>1. proc'[s].pc \notin {"chroot", "in"}
      <3>1. CASE Start(s)
        BY <1>1, <3>1 DEF Start, Proc
      <3>3. CASE Unshare(s)
        BY <1>1, <3>3 DEF Unshare, Proc
      <3>4. CASE MakeSlave(s)
        BY <1>1, <3>4 DEF MakeSlave, Proc
      <3>2. CASE Validate(s) \/ Exit(s)
        BY <1>2, <1>3, <3>2 DEF Validate, Exit, FirstStep
      <3> QED
        BY <1>4, <3>1, <3>2, <3>3, <3>4
    <2> QED
      BY <2>1 DEF Found
  <1>5. CASE Check(s)
    <2>1. proc[s].pc = "check" /\ proc[s].ns = "node"
      BY <1>5, AtShifter DEF Check, ShifterInv
    <2>2. Mounts(s) = mnt[Node]
      BY <2>1 DEF Mounts, At
    <2>3. proc'[s].pc \in {"chroot", "unshare"} /\ proc'[s].req = proc[s].req
            /\ (proc'[s].pc = "chroot" => Matches(mnt[Node], proc[s].req))
      BY <1>2, <1>5, <2>2 DEF Check
    <2>4. proc'[s].pc = "chroot" => Matches(mnt'[Node], proc'[s].req)
      BY <2>3
    <2> QED
      BY <2>3, <2>4 DEF Found
  <1>6. CASE Chroot(s)
    <2> DEFINE u == Top(Mounts(s))
    <2>1. proc[s].pc = "chroot" /\ proc[Node].pc = "job" /\ proc[s].req \in Request
      BY <1>6, AtShifter DEF Chroot
    <2>2. proc' = [proc EXCEPT ![s] = [@ EXCEPT !.pc = "in", !.root = u]]
      BY <1>6 DEF Chroot
    <2> HIDE DEF u
    <2>3. proc'[s].pc = "in" /\ proc'[s].root = u /\ proc'[s].ns = proc[s].ns
            /\ proc'[s].req = proc[s].req
      BY <1>1, <2>2 DEF Proc
    <2>4. ASSUME proc[s].ns = "node" PROVE u.of = proc[s].req /\ Whole(u)
      <3>1. u = Top(mnt[Node])
        BY <2>4 DEF u, Mounts, At
      <3>2. Matches(mnt[Node], proc[s].req)
        BY <2>1, <2>4 DEF FInv, Found
      <3> QED
        BY <2>1, <3>1, <3>2, MatchesWhole
    <2> QED
      BY <2>3, <2>4 DEF Found, Right
  <1> QED
    BY <1>4, <1>5, <1>6 DEF Shifter

LEMMA ShifterHeld ==
  ASSUME UInv, FInv, NEW s \in Shifters, Setup(s) \/ DestructUDI(s) \/ Shifter(s)
  PROVE  FInv'
  <1>1. mnt'[Node] = mnt[Node]
    BY ShifterKeepsNode
  <1>2. faults' = faults /\ \A q \in Procs \ {s} : proc'[q] = proc[q]
    BY ShifterChanges
  <1>3. proc'[Node] = proc[Node]
    BY <1>2, AtNode
  <1>4. \A t \in Shifters \ {s} : Found(t)'
    <2> TAKE t \in Shifters \ {s}
    <2>1. proc'[t] = proc[t]
      BY <1>2 DEF Procs
    <2>2. Found(t)
      BY DEF FInv
    <2> QED
      BY <1>1, <2>1, <2>2 DEF Found, Right
  <1>5. Found(s)'
    <2>1. CASE Setup(s) \/ DestructUDI(s)
      <3>1. proc'[s].pc = "idle" \/ proc'[s].ns = "slave"
        BY <2>1, WorkAway DEF Idle
      <3> QED
        BY <3>1 DEF Found
    <2>2. CASE Shifter(s)
      BY <1>1, <2>2, ShifterFound
    <2> QED
      BY <2>1, <2>2
  <1> QED
    BY <1>1, <1>2, <1>3, <1>4, <1>5 DEF FInv

-----------------------------------------------------------------------------
(* The second invariant, and what follows from it.                         *)

LEMMA FoundInit == Init => FInv
  <1> SUFFICES ASSUME Init PROVE FInv
    OBVIOUS
  <1>1. \A p \in Procs : proc[p] = Idle /\ mnt[p] = Bare
    BY DEF Init
  <1>2. Idle.pc = "idle" /\ Len(Bare.udi) = 0 /\ Len(Bare.loop) = 0
    BY DEF Idle, Bare
  <1>3. Held(mnt[Node], proc[Node], faults)
    BY <1>1, <1>2 DEF Held, Procs, Single, Settled, Stage
  <1> QED
    BY <1>1, <1>2, <1>3 DEF FInv, Found, Procs

LEMMA FoundNext == Recoverable /\ UInv /\ FInv /\ [Next]_vars => FInv'
  <1> SUFFICES ASSUME Recoverable, UInv, FInv, [Next]_vars PROVE FInv'
    OBVIOUS
  <1>1. CASE Prolog \/ Epilog \/ EpilogFails \/ Setup(Node) \/ DestructUDI(Node)
    BY <1>1, NodeHeld
  <1>2. CASE \E s \in Shifters : Setup(s) \/ DestructUDI(s) \/ Shifter(s)
    BY <1>2, ShifterHeld
  <1>3. CASE UNCHANGED vars
    BY <1>3 DEF vars, FInv, Found, Right
  <1> QED
    BY <1>1, <1>2, <1>3 DEF Next, Procs

LEMMA RecoverableStays == Recoverable => []Recoverable
  <1>1. Recoverable => Recoverable'
    BY DEF Recoverable
  <1> QED
    BY <1>1, PTL

LEMMA FoundInvariance == Recoverable /\ Spec => [](UInv /\ FInv)
  BY RecoverableStays, FoundInit, FoundNext, UdiInvariance, PTL DEF Spec

\* A program that shifter started in the UDI of the node (isImageLoaded,
\* shifter_core.c) runs in the whole of what was asked for, whatever setups
\* of this job and of those before it failed or were killed, and whichever
\* epilogs ended early: what setupRoot has not come to the end of has no
\* shifterConfig.json that would match, and nothing is built on top of it.
\* Recoverable tells what must not happen: without any part of it TLC finds
\* a counterexample.
THEOREM NodeImageWhole == Recoverable /\ Spec => []NodeImage
  <1>1. UInv /\ FInv => NodeImage
    BY DEF FInv, Found, NodeImage, InImage
  <1> QED
    BY <1>1, FoundInvariance, PTL

\* When unsetupRoot comes to its end, which looks at nothing that
\* destructUDI returns, nothing of the job is left mounted on the node: all
\* that is listed can be unmounted in the order of the list, so destructUDI
\* has to try again after a failed unmount only, and that often it can.
THEOREM EpilogCleansUp == Recoverable /\ Spec => EpilogCleans
  <1> DEFINE Act == proc[Node].pc = "destruct" /\ proc'[Node].pc = "idle"
                      /\ proc'[Node].req # None => mnt'[Node] = Bare
  <1>1. Recoverable /\ UInv /\ FInv /\ [Next]_vars => [Act]_vars
    <2> SUFFICES ASSUME Recoverable, UInv, FInv, Next,
                        proc[Node].pc = "destruct", proc'[Node].pc = "idle",
                        proc'[Node].req # None
                 PROVE  mnt'[Node] = Bare
      OBVIOUS
    <2>1. CASE DestructUDI(Node)
      BY <2>1, DestructUDIHeld
    <2>2. CASE Prolog \/ Epilog
      BY <2>2 DEF Prolog, Epilog, JobEnds
    <2>3. CASE EpilogFails
      <3>1. proc'[Node] = Idle
        BY <2>3, AtNode DEF EpilogFails
      <3> QED
        BY <3>1 DEF Idle
    <2>4. CASE Setup(Node)
      <3>1. Die(Node)
        BY <2>4 DEF Setup, MountImageLoop, MountRootfs, PrepareSite, BindImage,
           SetupSsh, SetupUserMounts, SaveConfig, RemountReadonly, Do, StepFails,
           Steps
      <3> QED
        BY <3>1, DieHeld
    <2>5. CASE \E s \in Shifters : Setup(s) \/ DestructUDI(s) \/ Shifter(s)
      <3>1. proc'[Node] = proc[Node]
        BY <2>5, AtNode, ShifterChanges
      <3> QED
        BY <3>1
    <2> QED
      BY <2>1, <2>2, <2>3, <2>4, <2>5 DEF Next, Procs
  <1>2. Recoverable /\ Spec => [][Act]_vars
    BY <1>1, RecoverableStays, FoundInvariance, PTL DEF Spec
  <1> QED
    BY <1>2 DEF EpilogCleans
=============================================================================
