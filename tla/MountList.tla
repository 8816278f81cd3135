------------------------------ MODULE MountList ------------------------------
(***************************************************************************)
(* The list of mounts that every step inside a UDI works with              *)
(* (src/MountList.c) and the two operations of src/shifter_core.c that     *)
(* keep it in step with the kernel: _shifterCore_bindMount and             *)
(* unmountTree.  Steps are not interleaved: one process uses one list, but *)
(* mounts may be made by others after it was read.                         *)
(*                                                                         *)
(* A mount point is a model value; Rank is the order of strcmp, Below has  *)
(* the pairs <<p, q>> where q is p or below it.  The kernel is external: a *)
(* sequence of mount points, the latest mount last.                        *)
(***************************************************************************)
EXTENDS Naturals, Sequences, FiniteSets, Functions, SequencesExt

CONSTANTS
  Dirs, Rank, Below, Prefix,
  MaxMounts,     \* bound on the mounts in the kernel
  InsertInto,    \* the orders in which lists are when something is inserted
  Retries        \* BINDMOUNT_OVERWRITE_UNMOUNT_RETRY

ASSUME MountListAssumption ==
  /\ Rank \in [Dirs -> Nat]
  /\ \A p, q \in Dirs : p # q => Rank[p] # Rank[q]
  /\ Below \subseteq Prefix /\ Prefix \subseteq Dirs \X Dirs
  /\ \A p \in Dirs : <<p, p>> \in Below
  /\ \A p, q, r \in Dirs : {<<p, q>>, <<q, r>>} \subseteq Below => <<p, r>> \in Below
  /\ \A p, q \in Dirs : <<p, q>> \in Prefix => Rank[p] =< Rank[q]
  /\ MaxMounts \in Nat /\ Retries \in Nat \ {0}
  /\ InsertInto \subseteq {"forward", "reverse"}

VARIABLES
  mounts,   \* the MountList: mountPointList and sorted
  kernel,   \* what is mounted in the namespace, the latest last
  done,     \* the last operation, its argument and what it returned
  alone     \* no two mounts on one point, none by others, none left unlisted

mlvars == <<mounts, kernel, done, alone>>

MountListStart(k) ==
  /\ mounts = [list |-> <<>>, sorted |-> "unsorted"]
  /\ kernel = k
  /\ done = [op |-> "none"]
  /\ alone = IsInjective(k)

MountListInit == \E n \in 0 .. MaxMounts - 1 : \E k \in [1..n -> Dirs] : MountListStart(k)
-----------------------------------------------------------------------------
(* src/MountList.c                                                         *)

Before(sorted, p, q) == IF sorted = "reverse" THEN Rank[p] > Rank[q] ELSE Rank[p] < Rank[q]

setSort_MountList(m, sorted) ==
  IF sorted = "unsorted" \/ m.sorted = sorted THEN m
  ELSE [list |-> IF m.sorted = "unsorted"
                   THEN SortSeq(m.list, LAMBDA p, q : Before(sorted, p, q))
                   ELSE Reverse(m.list),
        sorted |-> sorted]

\* The position bsearch finds, or that of the first entry; 0 for none.
find_MountList(m, p) ==
  LET mid(r) == (r.low + r.high) \div 2
      half[n \in 0 .. Len(m.list)] ==
        IF n = 0 THEN [low |-> 0, high |-> Len(m.list)]
        ELSE LET r  == half[n - 1]
                 at == m.list[mid(r) + 1]
             IN  IF r.low >= r.high \/ at = p THEN r
                 ELSE IF Before(m.sorted, p, at) THEN [low |-> r.low, high |-> mid(r)]
                 ELSE [low |-> mid(r) + 1, high |-> r.high]
      last == half[Len(m.list)]
  IN  IF m.sorted # "unsorted" THEN (IF last.low < last.high THEN mid(last) + 1 ELSE 0)
      ELSE IF p \in ToSet(m.list) THEN Min({i \in DOMAIN m.list : m.list[i] = p})
      ELSE 0

\* Mistake: the new entry stays at the end.
PlacedLast(list, p) == Append(list, p)

\* From the end, past all entries that are greater.
Placed(list, p) ==
  LET least == {i \in 0 .. Len(list) : \A j \in i + 1 .. Len(list) : Rank[list[j]] > Rank[p]}
  IN  InsertAt(list, Min(least) + 1, p)

\* Into a list in reverse order it is put wrongly: the test for
\* MOUNT_SORT_FORWARD is made twice, and what follows reverses the list.
insert_MountList(m, p) ==
  LET sorted == IF m = [list |-> <<>>, sorted |-> "unsorted"] THEN "forward" ELSE m.sorted
  IN  IF find_MountList([m EXCEPT !.sorted = sorted], p) # 0 THEN [m EXCEPT !.sorted = sorted]
      ELSE IF m.list = <<>> THEN [list |-> <<p>>, sorted |-> sorted]
      ELSE IF sorted = "forward" THEN [m EXCEPT !.list = Placed(@, p)]
      ELSE setSort_MountList([m EXCEPT !.list = Append(@, p)], "forward")

remove_MountList(m, p) ==
  IF find_MountList(m, p) = 0 THEN m ELSE [m EXCEPT !.list = RemoveAt(@, find_MountList(m, p))]

\* parse_MountList: one line of /proc/<pid>/mounts after the other.
Parsed(k) == FoldLeft(insert_MountList, [list |-> <<>>, sorted |-> "unsorted"], k)
-----------------------------------------------------------------------------
(* The kernel.                                                             *)

Mounted(k, p)   == p \in ToSet(k)
Latest(k, p)    == Max({i \in DOMAIN k : k[i] = p})
IsBelow(p, q)   == <<p, q>> \in Below

\* A later mount above p covers it.
Reachable(k, p) == Mounted(k, p) /\ \A i \in Latest(k, p) + 1 .. Len(k) : ~IsBelow(k[i], p)

\* What is left without the mounts at some positions.
Without(k, gone) ==
  LET left[i \in 0 .. Len(k)] ==
        IF i = 0 THEN <<>> ELSE IF i \in gone THEN left[i - 1] ELSE Append(left[i - 1], k[i])
  IN  left[Len(k)]

\* umount2(MNT_DETACH): with it goes what was mounted below it since.
Detach(k, p) == Without(k, {i \in Latest(k, p) .. Len(k) : IsBelow(p, k[i])})
-----------------------------------------------------------------------------
(* src/shifter_core.c                                                      *)

\* Mistake: /a_b is taken to be below /a.
InTreeByPrefix(base, p) == <<base, p>> \in Prefix

\* A base that is only a part of a name does not count.
InTree(base, p) == IF <<base, p>> \in Prefix THEN IsBelow(base, p) ELSE FALSE

\* unmountTree: from the greatest to the least, until one fails; stuck are
\* the mount points that cannot be unmounted.
UnmountTree(m, k, base, stuck) ==
  LET down == setSort_MountList(m, "reverse")
      One(s, p) ==
        IF s.rc # 0 \/ ~InTree(base, p) THEN s
        ELSE IF p \in stuck \/ ~Reachable(s.k, p) THEN [s EXCEPT !.rc = 1]
        ELSE [s EXCEPT !.k = Detach(@, p), !.m = remove_MountList(@, p)]
      all  == FoldLeft(One, [m |-> down, k |-> k, rc |-> 0], down.list)
  IN  [all EXCEPT !.m = setSort_MountList(@, m.sorted)]

\* The tries of _shifterCore_bindMount to make the place free.  The second
\* finds nothing to unmount, for what is unmounted is off the list.
MakeFree(m, k, to, stuck) ==
  LET after[n \in 0 .. Retries] ==
        IF n = 0 THEN [m |-> m, k |-> k, rc |-> 0]
        ELSE LET s == after[n - 1]
             IN  IF s.rc # 0 \/ (n > 1 /\ ~Mounted(s.k, to)) THEN s
                 ELSE UnmountTree(s.m, s.k, to, stuck)
  IN  after[Retries]

Unclean(m, k, to, stuck) ==
  [m |-> remove_MountList(m, to), k |-> IF to \in stuck THEN k ELSE Detach(k, to), rc |-> 1]

\* How far it gets: the bind mount, the two remounts.
BindMount(m, k, to, overwrite, stuck, upto) ==
  LET free == IF find_MountList(m, to) = 0 THEN [m |-> m, k |-> k, rc |-> 0]
              ELSE IF overwrite THEN MakeFree(m, k, to, stuck)
              ELSE [m |-> m, k |-> k, rc |-> 1]
      over == Append(free.k, to)
      kept == insert_MountList(free.m, to)
  IN  CASE free.rc # 0 -> free
        [] free.rc = 0 /\ upto = "nothing" ->
             \* Nothing of it is mounted, but umount2 is called.
             [m |-> remove_MountList(free.m, to), rc |-> 1,
              k |-> IF Reachable(free.k, to) /\ to \notin stuck THEN Detach(free.k, to) ELSE free.k]
        [] free.rc = 0 /\ upto = "mount" -> Unclean(kept, over, to, stuck)
        [] OTHER -> [m |-> kept, k |-> over, rc |-> 0]
-----------------------------------------------------------------------------
Ended(op, p, s) ==
  /\ mounts' = s.m
  /\ kernel' = s.k
  /\ done' = [op |-> op, arg |-> p, rc |-> s.rc]
  /\ alone' = /\ alone /\ op # "else"
              /\ op = "bind" /\ s.rc # 0 =>
                    (p \in ToSet(s.k) => p \in ToSet(s.m.list))

Read ==
  /\ Ended("parse", "none", [m |-> Parsed(kernel), k |-> kernel, rc |-> 0])

Sort(sorted) ==
  /\ mounts.list # <<>>
  /\ Ended("sort", "none", [m |-> setSort_MountList(mounts, sorted), k |-> kernel, rc |-> 0])

\* Another program mounts something.
Elsewhere(p) ==
  /\ Len(kernel) < MaxMounts
  /\ Ended("else", p, [m |-> mounts, k |-> Append(kernel, p), rc |-> 0])

\* The program makes its list with parse_MountList, which leaves it forward,
\* and only unmountTree reverses it, for as long as it runs: its InsertInto
\* is {"forward"}.
Bind(p) ==
  /\ mounts.sorted \in InsertInto
  /\ Len(kernel) < MaxMounts
  /\ \E overwrite \in BOOLEAN, stuck \in SUBSET Dirs, upto \in {"nothing", "mount", "end"} :
       Ended("bind", p, BindMount(mounts, kernel, p, overwrite, stuck, upto))

Unmount(p) ==
  /\ mounts.list # <<>>
  /\ \E stuck \in SUBSET Dirs : Ended("unmount", p, UnmountTree(mounts, kernel, p, stuck))

MountListNext ==
  \/ Read
  \/ \E sorted \in {"forward", "reverse"} : Sort(sorted)
  \/ \E p \in Dirs : Elsewhere(p) \/ Bind(p) \/ Unmount(p)
-----------------------------------------------------------------------------
\* "Add copy of key to MountList, maintaining sorted status": the array is
\* in the order it claims to be in.  Not so when something is inserted into
\* a list in reverse order.
Ordered ==
  \A i, j \in DOMAIN mounts.list : i < j =>
    Before(mounts.sorted, mounts.list[i], mounts.list[j])

\* Whatever is removed and reversed, and inserted into a list in forward
\* order, the array is in the order it claims to be in, so that bsearch finds
\* exactly what is in it, and nothing is in it that is not mounted, also
\* after mounts that failed in part: as long as there are no mounts it does
\* not know of, for when mount(2) fails bindMount unmounts what it finds in
\* its place, with all that is below.
ListSound ==
  /\ Ordered
  /\ \A p \in Dirs : (find_MountList(mounts, p) # 0) <=> p \in ToSet(mounts.list)
  /\ alone => ToSet(mounts.list) \subseteq ToSet(kernel)

\* unmountTree leaves alone what is not below its base, and when it returns
\* 0 nothing of what was listed below it is on the list, or mounted as
\* often as before.
UnmountExact ==
  [][ done'.op = "unmount" =>
        LET outside(k) == Without(k, {i \in DOMAIN k : IsBelow(done'.arg, k[i])})
        IN  /\ outside(kernel') = outside(kernel)
            /\ done'.rc = 0 => \A q \in ToSet(mounts.list) :
                 IsBelow(done'.arg, q) => /\ q \notin ToSet(mounts'.list)
                                          /\ Len(kernel') < Len(kernel) ]_mlvars

\* "not interested in mounting over existing mounts": where bindMount has
\* mounted something, nothing else is mounted below it.
NothingUnder ==
  done.op = "bind" => (done.rc = 0 =>
    Cardinality({i \in DOMAIN kernel : kernel[i] = done.arg}) = 1)
=============================================================================
