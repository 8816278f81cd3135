------------------------------ MODULE PathList ------------------------------
(***************************************************************************)
(* How a path inside a container is resolved from the outside              *)
(* (src/PathList.c, shifter_realpath in src/shifter_core.c): before the    *)
(* chroot, links of the image would lead out of it, so shifter walks along *)
(* the path itself and puts the value of every link in its place, below    *)
(* udiMountPoint.                                                          *)
(*                                                                         *)
(* A PathList is the sequence of its components below relroot; relroot     *)
(* itself has no links.  The file tree is external.                        *)
(***************************************************************************)
EXTENDS Naturals, Sequences, SequencesExt

CONSTANTS
  Nodes,      \* the paths of the file tree below its root
  Values,     \* of links: whether they are absolute, and their components
  Sources,    \* the paths that are asked for
  PathMax,    \* the longest path stringPartial writes
  MaxLinks    \* bound on the links that are put in

Up == ".."

ASSUME PathListAssumption ==
  /\ Nodes \subseteq Seq(STRING \ {Up, "."})
  /\ \A v \in Values : v.absolute \in BOOLEAN /\ v.items \in Seq(STRING) \ {<<>>, <<".">>}
  /\ Sources \subseteq Seq(STRING)
  /\ PathMax \in Nat /\ MaxLinks \in Nat

VARIABLES
  files,    \* what is at every node: Nil, Dir, or the value of a link
  source,   \* src_path
  path,     \* searchPath
  at,       \* pathPtr: how many components are looked at, the last one next
  links,    \* how many links have been put in
  result    \* "search", "found", "error", "undefined"

plvars == <<files, source, path, at, links, result>>

Parent(p)  == SubSeq(p, 1, Len(p) - 1)
Rest(p, i) == SubSeq(p, i + 1, Len(p))

pathList_duplicatePartial(p, i) == SubSeq(p, 1, i)
pathList_commonPath(p, q)       == LongestCommonPrefix({p, q})
Nil == [absolute |-> FALSE, items |-> <<>>]
Dir == [absolute |-> FALSE, items |-> <<".">>]
What(t, p) == IF p = <<>> THEN Dir ELSE IF p \in DOMAIN t THEN t[p] ELSE Nil
IsLink(t, p) == What(t, p) \notin {Nil, Dir}

\* What is below something has a directory above it.
Trees == {t \in [Nodes -> {Nil, Dir} \cup Values] :
            \A p \in Nodes : t[p] # Nil => What(t, Parent(p)) = Dir}

\* pathList_init drops "." and empty components, pathList_resolve takes off
\* ".." with the component before, and at relroot alone.
Dropped(items) == SelectSeq(items, LAMBDA x : x # ".")

Resolved(items) ==
  FoldLeft(LAMBDA p, x : IF x # Up THEN Append(p, x) ELSE IF p = <<>> THEN p ELSE Parent(p),
           <<>>, Dropped(items))

\* Below udiMountPoint, which is relroot.
pathList_append(base, items) == Resolved(base \o items)

PathListStart(t, src) ==
  /\ files = t
  /\ source = src
  /\ path = pathList_append(<<>>, source)
  /\ at = 0
  /\ links = 0
  /\ result = "search"

PathListInit == \E t \in Trees, src \in Sources : PathListStart(t, src)
-----------------------------------------------------------------------------
\* pathList_symlinkResolve reads the first component of a value that has
\* none, and makes the first component its own parent when it comes right
\* below relroot: when ".." takes it off, or is it, pathList_resolve frees
\* it twice.
Undefined(parent, value) ==
  LET items  == IF value.absolute THEN Resolved(value.items) ELSE Dropped(value.items)
      ups(i) == Cardinality({j \in 1..i : items[j] = Up})
  IN  \/ items = <<>>
      \/ parent = <<>> /\ \E i \in DOMAIN items : 2 * ups(i) >= i

\* Mistake: the value of an absolute link stays below the link's parent.
LinkPathBelow(parent, value) == Resolved(parent \o value.items)

\* pathList_symlinkResolve: an absolute value starts at relroot.
LinkPath(parent, value) ==
  IF value.absolute THEN Resolved(value.items) ELSE Resolved(parent \o value.items)

\* pathList_symlinkSubstitute: the path with the value instead of the link
\* at i, and the first of its components that has not been looked at: those
\* that it has in common with what led to the link are not looked at again.
Substituted(p, i, value) ==
  LET link   == pathList_duplicatePartial(p, i)
      new    == LinkPath(Parent(link), value)
      common == Len(pathList_commonPath(link, new))
      whole  == new \o Rest(p, i)
  IN  [path |-> whole,
       at |-> IF common < Len(new) THEN common + 1
              ELSE IF Len(whole) > common THEN common + 1 ELSE common]

\* shifter_realpath: one round of its loop.
LookAt ==
  LET here == SubSeq(path, 1, at)
  IN  /\ result = "search"
      /\ IF Len(here) > PathMax \/ What(files, here) = Nil THEN
                result' = "error" /\ UNCHANGED <<path, at, links>>
         ELSE IF IsLink(files, here) THEN
                IF Undefined(Parent(here), What(files, here))
                  THEN result' = "undefined" /\ UNCHANGED <<path, at, links>>
                  ELSE LET s == Substituted(path, at, What(files, here))
                       IN  /\ links < MaxLinks
                           /\ path' = s.path /\ at' = s.at /\ links' = links + 1
                           /\ UNCHANGED result
         ELSE IF What(files, here) = Dir /\ at < Len(path) THEN
                at' = at + 1 /\ UNCHANGED <<path, links, result>>
         ELSE result' = "found" /\ UNCHANGED <<path, at, links>>
      /\ UNCHANGED <<files, source>>

PathListNext == LookAt
-----------------------------------------------------------------------------
(* The walk of the kernel in a chroot, with n links to go: a path without  *)
(* links, or <<"error">>.                                                  *)

RECURSIVE Walk(_, _, _, _)
Walk(t, dir, todo, n) ==
  IF todo = <<>> THEN dir
  ELSE LET x    == Head(todo)
           next == Append(dir, x)
           v    == What(t, next)
       IN  CASE x = "." -> Walk(t, dir, Tail(todo), n)
             [] x = Up -> Walk(t, IF dir = <<>> THEN dir ELSE Parent(dir), Tail(todo), n)
             [] x \notin {".", Up} /\ v = Dir -> Walk(t, next, Tail(todo), n)
             [] x \notin {".", Up} /\ (v = Nil \/ (v # Dir /\ n = 0)) -> <<"error">>
             [] OTHER -> Walk(t, IF v.absolute THEN <<>> ELSE dir, v.items \o Tail(todo), n - 1)

InChroot == Walk(files, <<>>, source, MaxLinks)

\* ".." after a link: in the source or in the value of some link.
GoesUp == \/ Up \in ToSet(source)
          \/ \E p \in Nodes : IsLink(files, p) /\ Up \in ToSet(files[p].items)

\* What shifter_realpath finds has no link in it.  Where no ".." is passed
\* on the way it is what the kernel finds in the container, and it is found
\* whenever the kernel finds something, after as many links: however the
\* links lead to others, upwards, or back to what has been looked at.
RealpathRight ==
  /\ result = "found" => Walk(files, <<>>, path, 0) = path
  /\ ~GoesUp /\ result = "found" => path = InChroot
  /\ ~GoesUp /\ result = "error" => InChroot = <<"error">>
  /\ ~GoesUp /\ result = "search" /\ links = MaxLinks /\ IsLink(files, SubSeq(path, 1, at))
       => InChroot = <<"error">>

\* "perform standard realpath operation": also with "..".
RealpathStandard == result = "found" => path = InChroot
=============================================================================
