------------------------------- MODULE Layers -------------------------------
(***************************************************************************)
(* How the layers of an image become one tree                              *)
(* (imagegw/shifter_imagegw/dockerv2.py, extract_docker_layers).           *)
(*                                                                         *)
(* Layers come eldest first.  A later layer replaces files of earlier ones *)
(* and deletes with whiteouts (.wh.<name>) what earlier ones put there.    *)
(* The code does not extract one layer over the other: it first crosses    *)
(* off, in the lists of members of all earlier layers, what a layer        *)
(* replaces or deletes, and then extracts what is left of each list.       *)
(*                                                                         *)
(* A path is a sequence of names.  "file" is everything that is not a      *)
(* directory.  A layer lists the directories above its members, as the     *)
(* ones docker writes do.  Members with names that are not extracted (in   *)
(* /, in dev or with ..) are dropped at once: a Layer is what is left.     *)
(***************************************************************************)
EXTENDS Naturals, Sequences

CONSTANTS
  Paths,      \* the paths that occur in layers
  MaxLayers   \* bound on the layers of an image

Under(p, q) == Len(q) < Len(p) /\ SubSeq(p, 1, Len(q)) = q
At(p, q)    == p = q \/ Under(p, q)

ASSUME LayersAssumption ==
  /\ Paths \subseteq Seq(STRING)
  /\ MaxLayers \in Nat

Kinds == {"none", "dir", "file"}

\* excluded: the layer is one of excludeBlobSums.
Layer ==
  { l \in [kind : [Paths -> Kinds], whiteouts : SUBSET Paths,
           excluded : BOOLEAN] :
      /\ \A p, q \in Paths :
           l.kind[p] # "none" /\ Under(p, q) => l.kind[q] = "dir"
      /\ l.excluded => /\ l.whiteouts = {}
                       /\ \A p \in Paths : l.kind[p] = "none" }

\* What is at a path: a kind, and which layer it is from.
Nothing == [kind |-> "none", layer |-> 0]
Empty   == [p \in Paths |-> Nothing]

VARIABLES
  eldest,        \* the layers of the image, from the eldest to the youngest
  child,         \* the layer the loop is at
  layer_paths,   \* what is left of the members of each layer read
  tar_file_refs, \* the layers these lists belong to, as positions in eldest
  layer_idx,     \* how many lists have been extracted
  tree,          \* base_path
  pc             \* "read", "extract", "done", "raised"

vars == <<eldest, child, layer_paths, tar_file_refs, layer_idx, tree, pc>>

Init ==
  /\ eldest \in UNION {[1..n -> Layer] : n \in 1..MaxLayers}
  /\ child = 1
  /\ layer_paths = <<>>
  /\ tar_file_refs = <<>>
  /\ layer_idx = 0
  /\ tree = Empty
  /\ pc = "read"
-----------------------------------------------------------------------------
(* Reading: members of l, and what it leaves of an earlier list.           *)

Members(l) == {p \in Paths : l.kind[p] # "none"}
NotDirs(l) == {p \in Paths : l.kind[p] = "file"}

\* A whiteout works on an earlier list that has its target as a member.
Unwhited(paths, l) ==
  { p \in paths : ~\E w \in l.whiteouts \cap paths : At(p, w) }

\* Mistake: the loop for files that were directories is missing.
UnreplacedExact(paths, l, old) == paths \ NotDirs(l)

\* Of old, what is a file in l goes, with all that was below it.
Unreplaced(paths, l, old) ==
  { p \in paths : ~\E f \in NotDirs(l) :
      p = f \/ (f \in paths /\ old.kind[f] = "dir" /\ Under(p, f)) }

Left(i, l) == Unreplaced(Unwhited(layer_paths[i], l), l,
                         eldest[tar_file_refs[i]])

\* Mistake: only the list before this one is changed.
ReadLayerPrevious ==
  /\ pc = "read" /\ child <= Len(eldest)
  /\ ~eldest[child].excluded
  /\ layer_paths' =
       Append([i \in 1..Len(layer_paths) |->
                 IF i = Len(layer_paths) THEN Left(i, eldest[child])
                                         ELSE layer_paths[i]],
              Members(eldest[child]))
  /\ tar_file_refs' = Append(tar_file_refs, child)
  /\ child' = child + 1
  /\ UNCHANGED <<eldest, layer_idx, tree, pc>>

ReadLayer ==
  /\ pc = "read" /\ child <= Len(eldest)
  /\ ~eldest[child].excluded
  /\ layer_paths' =
       Append([i \in 1..Len(layer_paths) |-> Left(i, eldest[child])],
              Members(eldest[child]))
  /\ tar_file_refs' = Append(tar_file_refs, child)
  /\ child' = child + 1
  /\ UNCHANGED <<eldest, layer_idx, tree, pc>>

SkipLayer ==
  /\ pc \in {"read", "extract"} /\ child <= Len(eldest)
  /\ eldest[child].excluded
  /\ child' = child + 1
  /\ UNCHANGED <<eldest, layer_paths, tar_file_refs, layer_idx, tree, pc>>

AllRead ==
  /\ pc = "read" /\ child > Len(eldest)
  /\ pc' = "extract"
  /\ child' = 1
  /\ UNCHANGED <<eldest, layer_paths, tar_file_refs, layer_idx, tree>>
-----------------------------------------------------------------------------
(* Extracting.  A directory that exists is taken as it is, and so is       *)
(* anything else where a directory should be made; a file can neither      *)
(* replace a directory nor be put below another file.                      *)

Conflict(paths, l) ==
  \E p \in paths :
    \/ l.kind[p] = "file" /\ tree[p].kind = "dir"
    \/ \E q \in Paths : Under(p, q) /\ tree[q].kind = "file"

Extracted(paths, l, k) ==
  [ p \in Paths |->
      IF p \in paths /\ ~(l.kind[p] = "dir" /\ tree[p].kind = "file")
      THEN [kind |-> l.kind[p], layer |-> k] ELSE tree[p] ]

ExtractLayer ==
  /\ pc = "extract" /\ child <= Len(eldest)
  /\ ~eldest[child].excluded
  /\ LET i == layer_idx + 1
         k == tar_file_refs[i]
     IN IF Conflict(layer_paths[i], eldest[k])
        THEN pc' = "raised" /\ UNCHANGED tree
        ELSE /\ tree' = Extracted(layer_paths[i], eldest[k], k)
             /\ UNCHANGED pc
  /\ layer_idx' = layer_idx + 1
  /\ child' = child + 1
  /\ UNCHANGED <<eldest, layer_paths, tar_file_refs>>

AllExtracted ==
  /\ pc = "extract" /\ child > Len(eldest)
  /\ pc' = "done"
  /\ UNCHANGED <<eldest, child, layer_paths, tar_file_refs, layer_idx, tree>>

Next ==
  ReadLayer \/ SkipLayer \/ AllRead \/ ExtractLayer \/ AllExtracted

Spec == Init /\ [][Next]_vars
-----------------------------------------------------------------------------
(* What layers mean: one applied to the tree after the other.              *)

Hidden(t, l) ==
  [ p \in Paths |->
      IF \E w \in l.whiteouts : At(p, w) THEN Nothing ELSE t[p] ]

Applied(t, l, k) ==
  [ p \in Paths |->
      IF p \in Members(l) THEN [kind |-> l.kind[p], layer |-> k]
      ELSE IF \E f \in NotDirs(l) : Under(p, f) THEN Nothing
      ELSE Hidden(t, l)[p] ]

Merge[k \in 0..MaxLayers] ==
  IF k = 0 THEN Empty ELSE Applied(Merge[k - 1], eldest[k], k)

\* A file of an earlier layer becomes a directory without a whiteout.
FileBecomesDir ==
  \E k \in 1..Len(eldest) : \E p \in Members(eldest[k]) :
    /\ eldest[k].kind[p] = "dir"
    /\ Hidden(Merge[k - 1], eldest[k])[p].kind = "file"

\* Only such a file keeps the tree from being what the layers mean, and only
\* such a file makes an extraction fail.
Merged ==
  ~FileBecomesDir =>
    /\ pc # "raised"
    /\ pc = "done" => tree = Merge[Len(eldest)]

\* "extract minimal set": no file is written that a later layer writes
\* again or deletes.
MinimalSet ==
  \A i, j \in 1..Len(layer_paths) : i < j =>
    LET later == eldest[tar_file_refs[j]] IN
      /\ layer_paths[i] \cap NotDirs(later) = {}
      /\ layer_paths[i] \cap later.whiteouts = {}

\* A file is only ever written where nothing is: whatever an earlier layer
\* had there was crossed off, a directory with all that is in it.
NoFileOnDir ==
  pc = "extract" /\ layer_idx < Len(layer_paths) =>
    LET l == eldest[tar_file_refs[layer_idx + 1]] IN
      \A p \in layer_paths[layer_idx + 1] :
        l.kind[p] = "file" => tree[p].kind = "none"
=============================================================================
