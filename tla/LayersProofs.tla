---------------------------- MODULE LayersProofs ----------------------------
(***************************************************************************)
(* What holds of the lists of Layers, and of the tree they are extracted   *)
(* to, for every set of paths and any number of layers.  Merge is defined  *)
(* by recursion: the induction that says what it computes is over sets of  *)
(* numbers, for the provers cannot instantiate an operator.                *)
(***************************************************************************)
EXTENDS Layers, TLAPS, WellFoundedInduction

\* Every list belongs to a layer that is not excluded, in the order of the
\* layers, and holds members of that layer only.
ListsInv ==
  /\ eldest \in Seq(Layer)
  /\ layer_paths \in Seq(SUBSET Paths)
  /\ tar_file_refs \in Seq(1..Len(eldest))
  /\ Len(tar_file_refs) = Len(layer_paths)
  /\ \A i \in 1..Len(layer_paths) :
       /\ ~eldest[tar_file_refs[i]].excluded
       /\ layer_paths[i] \subseteq Members(eldest[tar_file_refs[i]])
  /\ \A i, j \in 1..Len(layer_paths) :
       i < j => tar_file_refs[i] < tar_file_refs[j]

\* The loop that reads has a list for every layer it has passed; the loop
\* that extracts is at the layer its next list belongs to.
LoopInv ==
  /\ pc \in {"read", "extract", "done", "raised"}
  /\ child \in Nat \ {0}
  /\ layer_idx \in Nat
  /\ pc = "read" =>
       /\ layer_idx = 0
       /\ \A i \in 1..Len(layer_paths) : tar_file_refs[i] < child
       /\ \A k \in 1..Len(eldest) : k < child /\ ~eldest[k].excluded =>
            \E i \in 1..Len(layer_paths) : tar_file_refs[i] = k
  /\ pc = "extract" =>
       /\ \A i \in 1..Len(layer_paths) :
            i <= layer_idx <=> tar_file_refs[i] < child
       /\ \A k \in 1..Len(eldest) : ~eldest[k].excluded =>
            \E i \in 1..Len(layer_paths) : tar_file_refs[i] = k

\* What is in the tree comes from a list that has been extracted.
TreeInv ==
  /\ tree \in [Paths -> [kind : Kinds, layer : Nat]]
  /\ pc \in {"read", "extract"} =>
       \A p \in Paths : tree[p].kind # "none" =>
         \E i \in 1..Len(layer_paths) : i <= layer_idx /\ p \in layer_paths[i]

LInv == ListsInv /\ LoopInv /\ TreeInv /\ MinimalSet

\* A layer deletes what is at or below its whiteouts, and replaces what is at
\* or below its files.
Gone(p, l) == \E x \in l.whiteouts \cup NotDirs(l) : At(p, x)

\* The members of layer k of e that the layers between k and c leave.
Kept(e, k, c) ==
  {p \in Members(e[k]) : \A m \in (k + 1)..(c - 1) : ~Gone(p, e[m])}

\* A path shows what the youngest of the first n layers that has it kept until
\* c put there, and nothing if there is none.
ShowsAt(t, p, e, n, c) ==
  \/ /\ t[p] = Nothing
     /\ \A k \in 1..n : p \notin Kept(e, k, c)
  \/ \E k \in 1..n :
       /\ p \in Kept(e, k, c)
       /\ t[p] = [kind |-> e[k].kind[p], layer |-> k]
       /\ \A j \in (k + 1)..n : p \notin Kept(e, j, c)

Shows(t, e, n, c) == \A p \in Paths : ShowsAt(t, p, e, n, c)

\* Each list is what the layers read since left of its layer; while nothing is
\* in the way, the tree shows the layers that have been extracted.
MergeInv ==
  /\ Len(eldest) <= MaxLayers
  /\ pc = "read" =>
       /\ tree = Empty
       /\ child <= Len(eldest) + 1
       /\ \A i \in 1..Len(layer_paths) :
            layer_paths[i] = Kept(eldest, tar_file_refs[i], child)
  /\ pc = "extract" =>
       /\ child <= Len(eldest) + 1
       /\ \A i \in 1..Len(layer_paths) :
            layer_paths[i] = Kept(eldest, tar_file_refs[i], Len(eldest) + 1)
  /\ pc = "extract" /\ ~FileBecomesDir =>
       Shows(tree, eldest, child - 1, Len(eldest) + 1)
  /\ pc = "done" /\ ~FileBecomesDir =>
       Shows(tree, eldest, Len(eldest), Len(eldest) + 1)
  /\ pc = "raised" => FileBecomesDir

-----------------------------------------------------------------------------
LEMMA InitL == Init => LInv
<1> SUFFICES ASSUME Init PROVE LInv
  OBVIOUS
<1>1. eldest \in Seq(Layer)
  BY DEF Init
<1>2. layer_paths = <<>> /\ tar_file_refs = <<>> /\ Len(layer_paths) = 0
  BY DEF Init
<1>3. ListsInv
  BY <1>1, <1>2 DEF ListsInv
<1>4. LoopInv
  BY <1>1, <1>2 DEF LoopInv, Init
<1>5. TreeInv
  BY DEF TreeInv, Init, Empty, Nothing, Kinds
<1>6. MinimalSet
  BY <1>2 DEF MinimalSet
<1> QED
  BY <1>3, <1>4, <1>5, <1>6 DEF LInv

\* What a layer leaves of a list is a part of it that the layer neither
\* replaces nor deletes.
LEMMA LeftIsLess ==
  ASSUME NEW i \in 1..Len(layer_paths), NEW l \in Layer, ListsInv
  PROVE  /\ Left(i, l) \subseteq layer_paths[i]
         /\ Left(i, l) \cap NotDirs(l) = {}
         /\ Left(i, l) \cap l.whiteouts = {}
<1>1. layer_paths[i] \subseteq Paths
  BY DEF ListsInv
<1> QED
  BY <1>1 DEF Left, Unreplaced, Unwhited, At

LEMMA ReadLayerKeeps == LInv /\ ReadLayer => LInv'
<1> SUFFICES ASSUME LInv, ReadLayer PROVE LInv'
  OBVIOUS
<1> DEFINE n    == Len(layer_paths)
           new  == eldest[child]
           kept == [i \in 1..n |-> Left(i, new)]
<1>1. /\ eldest \in Seq(Layer) /\ layer_paths \in Seq(SUBSET Paths)
      /\ tar_file_refs \in Seq(1..Len(eldest)) /\ Len(tar_file_refs) = n
      /\ n \in Nat
  BY DEF LInv, ListsInv
<1>2. child \in 1..Len(eldest) /\ new \in Layer /\ ~new.excluded
  <2>1. child \in Nat \ {0} /\ child <= Len(eldest)
    BY DEF LInv, LoopInv, ReadLayer
  <2> QED
    BY <1>1, <2>1 DEF ReadLayer
<1>3. Members(new) \subseteq Paths
  BY DEF Members
<1>4. /\ kept \in Seq(SUBSET Paths) /\ Len(kept) = n
      /\ \A i \in 1..n : kept[i] = Left(i, new)
  <2>1. \A i \in 1..n : Left(i, new) \subseteq Paths
    BY <1>1 DEF Left, Unreplaced, Unwhited
  <2> QED
    BY <1>1, <2>1
<1>5. /\ layer_paths' = Append(kept, Members(new))
      /\ tar_file_refs' = Append(tar_file_refs, child)
      /\ child' = child + 1
      /\ UNCHANGED <<eldest, layer_idx, tree, pc>> /\ pc = "read"
  BY DEF ReadLayer
<1> HIDE DEF kept
<1>6. /\ layer_paths' \in Seq(SUBSET Paths) /\ Len(layer_paths') = n + 1
      /\ \A i \in 1..n : layer_paths'[i] = Left(i, new)
      /\ layer_paths'[n + 1] = Members(new)
  BY <1>1, <1>3, <1>4, <1>5
<1>7. /\ tar_file_refs' \in Seq(1..Len(eldest)) /\ Len(tar_file_refs') = n + 1
      /\ \A i \in 1..n : tar_file_refs'[i] = tar_file_refs[i]
      /\ tar_file_refs'[n + 1] = child
  BY <1>1, <1>2, <1>5
<1> HIDE DEF new, n
<1>8. \A i \in 1..n : /\ layer_paths'[i] \subseteq layer_paths[i]
                      /\ layer_paths'[i] \cap NotDirs(new) = {}
                      /\ layer_paths'[i] \cap new.whiteouts = {}
  BY <1>2, <1>6, LeftIsLess DEF LInv, n
<1>9. ListsInv'
  <2>1. /\ \A i \in 1..n : /\ ~eldest[tar_file_refs[i]].excluded
                           /\ layer_paths[i] \subseteq Members(eldest[tar_file_refs[i]])
        /\ \A i, j \in 1..n : i < j => tar_file_refs[i] < tar_file_refs[j]
        /\ \A i \in 1..n : tar_file_refs[i] < child
    BY <1>5 DEF LInv, ListsInv, LoopInv, n
  <2>2. \A i \in 1..(n + 1) :
          /\ ~eldest[tar_file_refs'[i]].excluded
          /\ layer_paths'[i] \subseteq Members(eldest[tar_file_refs'[i]])
    <3> TAKE i \in 1..(n + 1)
    <3>1. CASE i = n + 1
      BY <3>1, <1>2, <1>6, <1>7 DEF new
    <3>2. CASE i \in 1..n
      BY <3>2, <2>1, <1>6, <1>7, <1>8
    <3> QED
      BY <3>1, <3>2, <1>1
  <2>3. \A i, j \in 1..(n + 1) : i < j => tar_file_refs'[i] < tar_file_refs'[j]
    <3> TAKE i, j \in 1..(n + 1)
    <3>1. CASE i \in 1..n /\ j \in 1..n
      BY <3>1, <2>1, <1>7
    <3>2. CASE i \in 1..n /\ j = n + 1
      BY <3>2, <2>1, <1>7
    <3> QED
      BY <3>1, <3>2, <1>1
  <2> QED
    BY <2>2, <2>3, <1>1, <1>5, <1>6, <1>7 DEF ListsInv, n, Members
<1>10. LoopInv'
  <2>1. \A i \in 1..(n + 1) : tar_file_refs'[i] < child + 1
    <3> TAKE i \in 1..(n + 1)
    <3>1. CASE i = n + 1
      BY <3>1, <1>2, <1>7
    <3>2. CASE i \in 1..n
      <4>1. tar_file_refs[i] < child /\ tar_file_refs[i] \in Nat
        BY <3>2, <1>1, <1>5 DEF LInv, LoopInv, n
      <4> QED
        BY <3>2, <4>1, <1>2, <1>7
    <3> QED
      BY <3>1, <3>2, <1>1
  <2>2. ASSUME NEW k \in 1..Len(eldest), k < child + 1, ~eldest[k].excluded
        PROVE  \E i \in 1..(n + 1) : tar_file_refs'[i] = k
    <3>1. CASE k = child
      BY <3>1, <1>1, <1>7
    <3>2. CASE k < child
      <4>1. PICK i \in 1..n : tar_file_refs[i] = k
        BY <3>2, <2>2, <1>5 DEF LInv, LoopInv, n
      <4> QED
        BY <4>1, <1>1, <1>7
    <3> QED
      BY <3>1, <3>2, <2>2, <1>2
  <2>3. /\ Len(layer_paths') = n + 1 /\ eldest' = eldest /\ child' = child + 1
        /\ layer_idx' = layer_idx /\ pc' = "read" /\ pc = "read"
    BY <1>5, <1>6
  <2>4. layer_idx = 0 /\ child \in Nat \ {0}
    BY <2>3 DEF LInv, LoopInv
  <2>5. \A k \in 1..Len(eldest') : k < child' /\ ~eldest'[k].excluded =>
          \E i \in 1..Len(layer_paths') : tar_file_refs'[i] = k
    BY <2>2, <2>3
  <2>6. \A i \in 1..Len(layer_paths') : tar_file_refs'[i] < child'
    BY <2>1, <2>3
  <2> QED
    BY <2>3, <2>4, <2>5, <2>6 DEF LoopInv
<1>11. TreeInv'
  <2>1. \A p \in Paths : tree[p].kind = "none"
    BY <1>5 DEF LInv, LoopInv, TreeInv
  <2> QED
    BY <2>1, <1>5 DEF LInv, TreeInv
<1>12. MinimalSet'
  <2>1. \A i, j \in 1..n : i < j =>
          /\ layer_paths[i] \cap NotDirs(eldest[tar_file_refs[j]]) = {}
          /\ layer_paths[i] \cap eldest[tar_file_refs[j]].whiteouts = {}
    BY DEF LInv, MinimalSet, n
  <2>2. ASSUME NEW i \in 1..(n + 1), NEW j \in 1..(n + 1), i < j
        PROVE  /\ layer_paths'[i] \cap NotDirs(eldest[tar_file_refs'[j]]) = {}
               /\ layer_paths'[i] \cap eldest[tar_file_refs'[j]].whiteouts = {}
    <3>1. i \in 1..n
      BY <2>2, <1>1
    <3>2. CASE j = n + 1
      BY <3>1, <3>2, <1>7, <1>8 DEF new
    <3>3. CASE j \in 1..n
      BY <3>1, <3>3, <2>1, <2>2, <1>7, <1>8
    <3> QED
      BY <3>2, <3>3, <1>1
  <2>3. Len(layer_paths') = n + 1 /\ eldest' = eldest
    BY <1>5, <1>6
  <2>4. \A i, j \in 1..Len(layer_paths') : i < j =>
          /\ layer_paths'[i] \cap NotDirs(eldest'[tar_file_refs'[j]]) = {}
          /\ layer_paths'[i] \cap eldest'[tar_file_refs'[j]].whiteouts = {}
    BY <2>2, <2>3
  <2> QED
    BY <2>4 DEF MinimalSet, NotDirs
<1> QED
  BY <1>9, <1>10, <1>11, <1>12 DEF LInv

LEMMA SkipLayerKeeps == LInv /\ SkipLayer => LInv'
<1> SUFFICES ASSUME LInv, SkipLayer PROVE LInv'
  OBVIOUS
<1>1. /\ UNCHANGED <<eldest, layer_paths, tar_file_refs, layer_idx, tree, pc>>
      /\ child' = child + 1 /\ child \in Nat \ {0} /\ child <= Len(eldest)
      /\ eldest[child].excluded /\ pc \in {"read", "extract"}
  BY DEF SkipLayer, LInv, LoopInv
<1>2. ListsInv' /\ TreeInv' /\ MinimalSet'
  BY <1>1 DEF LInv, ListsInv, TreeInv, MinimalSet, NotDirs, Members
<1>3. \A i \in 1..Len(layer_paths) :
        /\ tar_file_refs[i] \in Nat /\ tar_file_refs[i] # child
        /\ tar_file_refs[i] < child + 1 <=> tar_file_refs[i] < child
  <2>1. \A i \in 1..Len(layer_paths) :
          tar_file_refs[i] \in Nat /\ ~eldest[tar_file_refs[i]].excluded
    BY DEF LInv, ListsInv
  <2> QED
    BY <1>1, <2>1
<1>4. LoopInv'
  <2>1. CASE pc = "read"
    <3>1. \A k \in 1..Len(eldest) : k < child + 1 /\ ~eldest[k].excluded =>
            \E i \in 1..Len(layer_paths) : tar_file_refs[i] = k
      BY <1>1, <2>1 DEF LInv, LoopInv
    <3> QED
      BY <1>1, <1>3, <2>1, <3>1 DEF LInv, LoopInv
  <2>2. CASE pc = "extract"
    BY <1>1, <1>3, <2>2 DEF LInv, LoopInv
  <2> QED
    BY <1>1, <2>1, <2>2
<1> QED
  BY <1>2, <1>4 DEF LInv

LEMMA AllReadKeeps == LInv /\ AllRead => LInv'
<1> SUFFICES ASSUME LInv, AllRead PROVE LInv'
  OBVIOUS
<1>1. /\ UNCHANGED <<eldest, layer_paths, tar_file_refs, layer_idx, tree>>
      /\ pc = "read" /\ pc' = "extract" /\ child' = 1 /\ child > Len(eldest)
      /\ layer_idx = 0 /\ child \in Nat
  BY DEF AllRead, LInv, LoopInv
<1>2. ListsInv' /\ TreeInv' /\ MinimalSet'
  BY <1>1 DEF LInv, ListsInv, TreeInv, MinimalSet, NotDirs, Members
<1>3. \A i \in 1..Len(layer_paths) :
        i <= layer_idx <=> tar_file_refs[i] < 1
  BY <1>1 DEF LInv, ListsInv
<1>4. \A k \in 1..Len(eldest) : ~eldest[k].excluded =>
        \E i \in 1..Len(layer_paths) : tar_file_refs[i] = k
  <2>1. Len(eldest) \in Nat
    BY DEF LInv, ListsInv
  <2> QED
    BY <1>1, <2>1 DEF LInv, LoopInv
<1>5. LoopInv'
  BY <1>1, <1>3, <1>4 DEF LInv, LoopInv
<1> QED
  BY <1>2, <1>5 DEF LInv

\* The list that is extracted next is that of the layer the loop is at.
LEMMA NextList ==
  ASSUME LInv, pc = "extract", child <= Len(eldest), ~eldest[child].excluded
  PROVE  /\ layer_idx + 1 \in 1..Len(layer_paths)
         /\ tar_file_refs[layer_idx + 1] = child
<1>1. /\ child \in 1..Len(eldest) /\ layer_idx \in Nat
      /\ Len(layer_paths) \in Nat
      /\ \A i \in 1..Len(layer_paths) : tar_file_refs[i] \in Nat
      /\ \A i \in 1..Len(layer_paths) :
           i <= layer_idx <=> tar_file_refs[i] < child
      /\ \A i, j \in 1..Len(layer_paths) :
           i < j => tar_file_refs[i] < tar_file_refs[j]
  <2>1. Len(eldest) \in Nat
    BY DEF LInv, ListsInv
  <2>2. child \in Nat \ {0} /\ layer_idx \in Nat
    BY DEF LInv, LoopInv
  <2> QED
    BY <2>1, <2>2 DEF LInv, ListsInv, LoopInv
<1>2. PICK i \in 1..Len(layer_paths) : tar_file_refs[i] = child
  BY <1>1 DEF LInv, LoopInv
<1>3. i > layer_idx
  BY <1>1, <1>2
<1>4. layer_idx + 1 \in 1..Len(layer_paths)
  BY <1>1, <1>3
<1>5. ~(tar_file_refs[layer_idx + 1] < child)
  BY <1>1, <1>4
<1>6. ~(layer_idx + 1 < i)
  BY <1>1, <1>2, <1>4, <1>5
<1> QED
  BY <1>1, <1>2, <1>3, <1>4, <1>6

LEMMA ExtractLayerKeeps == LInv /\ ExtractLayer => LInv'
<1> SUFFICES ASSUME LInv, ExtractLayer PROVE LInv'
  OBVIOUS
<1> DEFINE n == layer_idx + 1
<1>1. /\ UNCHANGED <<eldest, layer_paths, tar_file_refs>>
      /\ layer_idx' = n /\ child' = child + 1 /\ pc = "extract"
      /\ child <= Len(eldest) /\ ~eldest[child].excluded
      /\ layer_idx \in Nat /\ child \in Nat \ {0}
  BY DEF ExtractLayer, LInv, LoopInv
<1>2. n \in 1..Len(layer_paths) /\ tar_file_refs[n] = child
  BY <1>1, NextList
<1>3. ListsInv' /\ MinimalSet'
  BY <1>1 DEF LInv, ListsInv, MinimalSet, NotDirs, Members
<1>4. \/ pc' = "raised" /\ tree' = tree
      \/ pc' = pc /\ tree' = Extracted(layer_paths[n], eldest[child], child)
  BY <1>2 DEF ExtractLayer
<1>5. LoopInv'
  <2>1. \A i \in 1..Len(layer_paths) : i <= n <=> tar_file_refs[i] < child + 1
    <3>1. \A i, j \in 1..Len(layer_paths) :
            i < j => tar_file_refs[i] < tar_file_refs[j]
      BY DEF LInv, ListsInv
    <3>2. \A i \in 1..Len(layer_paths) : tar_file_refs[i] \in Nat
      BY DEF LInv, ListsInv
    <3> TAKE i \in 1..Len(layer_paths)
    <3>3. CASE i < n
      BY <3>1, <3>2, <3>3, <1>1, <1>2
    <3>4. CASE i = n
      BY <3>4, <1>1, <1>2
    <3>5. CASE i > n
      BY <3>1, <3>2, <3>5, <1>1, <1>2
    <3> QED
      BY <3>3, <3>4, <3>5, <1>1
  <2> QED
    BY <2>1, <1>1, <1>4 DEF LInv, LoopInv
<1>6. TreeInv'
  <2>1. /\ tree \in [Paths -> [kind : Kinds, layer : Nat]]
        /\ \A p \in Paths : tree[p].kind # "none" =>
             \E i \in 1..Len(layer_paths) : i <= layer_idx /\ p \in layer_paths[i]
    BY <1>1 DEF LInv, TreeInv
  <2>2. eldest[child] \in Layer
    <3>1. child \in 1..Len(eldest)
      BY <1>1 DEF LInv, ListsInv
    <3> QED
      BY <3>1 DEF LInv, ListsInv
  <2>3. CASE tree' = tree
    BY <2>1, <2>3, <1>1, <1>4 DEF TreeInv
  <2>4. CASE tree' = Extracted(layer_paths[n], eldest[child], child)
    <3>1. tree' \in [Paths -> [kind : Kinds, layer : Nat]]
      BY <2>1, <2>2, <2>4, <1>1 DEF Extracted, Layer
    <3>2. ASSUME NEW p \in Paths, tree'[p].kind # "none"
          PROVE  \E i \in 1..Len(layer_paths) : i <= n /\ p \in layer_paths[i]
      <4>1. CASE p \in layer_paths[n]
        BY <4>1, <1>2
      <4>2. CASE p \notin layer_paths[n]
        <5>1. tree'[p] = tree[p]
          BY <2>4, <4>2 DEF Extracted
        <5> QED
          BY <5>1, <3>2, <2>1, <1>1
      <4> QED
        BY <4>1, <4>2
    <3> QED
      BY <3>1, <3>2, <1>1 DEF TreeInv
  <2> QED
    BY <2>3, <2>4, <1>4
<1> QED
  BY <1>3, <1>5, <1>6 DEF LInv

LEMMA NextL == LInv /\ [Next]_vars => LInv'
<1> SUFFICES ASSUME LInv, [Next]_vars PROVE LInv'
  OBVIOUS
<1>1. CASE AllExtracted
  <2>1. UNCHANGED <<eldest, child, layer_paths, tar_file_refs, layer_idx, tree>>
        /\ pc' = "done"
    BY <1>1 DEF AllExtracted
  <2> QED
    BY <2>1 DEF LInv, ListsInv, LoopInv, TreeInv, MinimalSet, NotDirs, Members
<1>2. CASE UNCHANGED vars
  BY <1>2 DEF vars, LInv, ListsInv, LoopInv, TreeInv, MinimalSet, NotDirs, Members
<1> QED
  BY <1>1, <1>2, ReadLayerKeeps, SkipLayerKeeps, AllReadKeeps, ExtractLayerKeeps
     DEF Next

\* extract_docker_layers, lines 656-679: for any set of paths and any number
\* of layers, excluded ones among them, no list keeps a member that a later
\* layer replaces with a file or deletes.
THEOREM ListsAreMinimal == Spec => []MinimalSet
<1>1. Init => LInv
  BY InitL
<1>2. LInv /\ [Next]_vars => LInv'
  BY NextL
<1>3. LInv => MinimalSet
  BY DEF LInv
<1> QED
  BY <1>1, <1>2, <1>3, PTL DEF Spec

\* Nothing is in the tree where the next list has a file.
LEMMA FilesHaveRoomL == LInv => NoFileOnDir
<1> SUFFICES ASSUME LInv, pc = "extract", layer_idx < Len(layer_paths),
                    NEW p \in layer_paths[layer_idx + 1],
                    eldest[tar_file_refs[layer_idx + 1]].kind[p] = "file",
                    tree[p].kind # "none"
             PROVE  FALSE
  BY DEF NoFileOnDir
<1>1. layer_idx \in Nat /\ layer_idx + 1 \in 1..Len(layer_paths)
  BY DEF LInv, LoopInv, ListsInv
<1>2. p \in Paths
  BY <1>1 DEF LInv, ListsInv
<1>3. PICK i \in 1..Len(layer_paths) : i <= layer_idx /\ p \in layer_paths[i]
  BY <1>2 DEF LInv, TreeInv
<1>4. layer_paths[i] \cap NotDirs(eldest[tar_file_refs[layer_idx + 1]]) = {}
  <2>1. i < layer_idx + 1
    BY <1>1, <1>3
  <2> QED
    BY <2>1, <1>1 DEF LInv, MinimalSet
<1> QED
  BY <1>2, <1>3, <1>4 DEF NotDirs

\* extract_docker_layers, lines 680-697: for any layers, the loop that
\* extracts finds the list that belongs to the layer it is at, and extractall
\* never meets something where it is to make a file.
THEOREM FilesHaveRoom == Spec => []NoFileOnDir
<1>1. Init => LInv
  BY InitL
<1>2. LInv /\ [Next]_vars => LInv'
  BY NextL
<1>3. LInv => NoFileOnDir
  BY FilesHaveRoomL
<1> QED
  BY <1>1, <1>2, <1>3, PTL DEF Spec
-----------------------------------------------------------------------------
(* Induction over the natural numbers, as a fact about sets.               *)

\* A set with 0 that holds n + 1 whenever it holds n holds every natural number.
LEMMA NatInd ==
  ASSUME NEW S, 0 \in S, \A n \in Nat : n \in S => n + 1 \in S
  PROVE  Nat \subseteq S
<1> DEFINE T == Nat \ S
           R == OpToRel(<, Nat)
<1> SUFFICES ASSUME T # {} PROVE FALSE
  OBVIOUS
<1>1. PICK x \in T : \A y \in T : ~(<<y, x>> \in R)
  <2>1. T \subseteq Nat
    OBVIOUS
  <2>2. IsWellFoundedOn(R, Nat)
    BY NatLessThanWellFounded
  <2> HIDE DEF T, R
  <2> QED
    BY <2>1, <2>2, WFMin
<1>2. x \in Nat /\ x # 0 /\ x - 1 \in Nat
  OBVIOUS
<1>3. x - 1 \in T
  <2>1. (x - 1) + 1 = x
    BY <1>2
  <2> QED
    BY <1>2, <2>1
<1>4. <<x - 1, x>> \in R
  BY <1>2 DEF OpToRel
<1> QED
  BY <1>1, <1>3, <1>4

\* There is a function that satisfies the equation of Merge, and Merge is one.
LEMMA MergeDef ==
  Merge = [k \in 0..MaxLayers |->
             IF k = 0 THEN Empty ELSE Applied(Merge[k - 1], eldest[k], k)]
<1> DEFINE G(f, n) == [k \in 0..n |-> IF k = 0 THEN Empty
                                      ELSE Applied(f[k - 1], eldest[k], k)]
           S == {n \in Nat : \E f : f = G(f, n)}
<1>1. 0 \in S
  <2>1. [k \in 0..0 |-> Empty] = G([k \in 0..0 |-> Empty], 0)
    OBVIOUS
  <2> QED
    BY <2>1
<1>2. ASSUME NEW n \in Nat, n \in S PROVE n + 1 \in S
  <2>1. PICK f : f = G(f, n)
    BY <1>2
  <2> DEFINE g == [k \in 0..(n + 1) |->
                     IF k = n + 1 THEN Applied(f[n], eldest[n + 1], n + 1)
                     ELSE f[k]]
  <2>2. g = G(g, n + 1)
    <3>1. ASSUME NEW k \in 0..(n + 1)
          PROVE  g[k] = IF k = 0 THEN Empty
                        ELSE Applied(g[k - 1], eldest[k], k)
      <4>1. CASE k = n + 1
        <5>1. g[k - 1] = f[n] /\ k # 0
          BY <4>1
        <5> QED
          BY <4>1, <5>1
      <4>2. CASE k # n + 1
        <5>1. k \in 0..n /\ (k # 0 => k - 1 \in 0..n /\ k - 1 # n + 1)
          BY <4>2
        <5>2. g[k] = f[k] /\ (k # 0 => g[k - 1] = f[k - 1])
          BY <4>2, <5>1
        <5>3. f[k] = IF k = 0 THEN Empty
                     ELSE Applied(f[k - 1], eldest[k], k)
          BY <2>1, <5>1
        <5> QED
          BY <5>2, <5>3
      <4> QED
        BY <4>1, <4>2
    <3>2. g = [k \in 0..(n + 1) |-> g[k]]
      OBVIOUS
    <3> HIDE DEF g
    <3> QED
      BY <3>1, <3>2
  <2> HIDE DEF G, g
  <2>3. \E h : h = G(h, n + 1)
    BY <2>2
  <2> QED
    BY <2>3
<1>3. MaxLayers \in S
  <2> HIDE DEF S
  <2> QED
    BY <1>1, <1>2, NatInd, LayersAssumption
<1>4. \E f : f = G(f, MaxLayers)
  BY <1>3
<1> QED
  BY <1>4 DEF Merge

-----------------------------------------------------------------------------
(* What layers leave of the members of an earlier one.                     *)

LEMMA UnderIsTransitive ==
  ASSUME NEW p \in Paths, NEW q \in Paths, NEW r \in Paths, At(p, q), At(q, r)
  PROVE  At(p, r)
<1>1. p \in Seq(STRING) /\ q \in Seq(STRING) /\ r \in Seq(STRING)
  BY LayersAssumption
<1>2. CASE p = q \/ q = r
  BY <1>2 DEF At
<1>3. CASE Under(p, q) /\ Under(q, r)
  <2>1. Len(q) < Len(p) /\ Len(r) < Len(q)
    BY <1>3 DEF Under
  <2>2. \A i \in 1..Len(r) : r[i] = q[i]
    <3> TAKE i \in 1..Len(r)
    <3>1. SubSeq(q, 1, Len(r))[i] = q[i]
      BY <1>1, <2>1
    <3> QED
      BY <3>1, <1>3 DEF Under
  <2>3. \A i \in 1..Len(q) : q[i] = p[i]
    <3> TAKE i \in 1..Len(q)
    <3>1. SubSeq(p, 1, Len(q))[i] = p[i]
      BY <1>1, <2>1
    <3> QED
      BY <3>1, <1>3 DEF Under
  <2>4. \A i \in 1..Len(r) : r[i] = p[i]
    BY <1>1, <2>1, <2>2, <2>3
  <2>5. /\ SubSeq(p, 1, Len(r)) \in Seq(STRING)
        /\ Len(SubSeq(p, 1, Len(r))) = Len(r)
        /\ \A i \in 1..Len(r) : SubSeq(p, 1, Len(r))[i] = p[i]
    BY <1>1, <2>1
  <2>6. SubSeq(p, 1, Len(r)) = r
    BY <1>1, <2>4, <2>5
  <2> QED
    BY <1>1, <2>1, <2>6 DEF At, Under
<1> QED
  BY <1>2, <1>3 DEF At

LEMMA GoneFromAbove ==
  ASSUME NEW p \in Paths, NEW q \in Paths, At(p, q), NEW l \in Layer, Gone(q, l)
  PROVE  Gone(p, l)
<1>1. l.whiteouts \subseteq Paths
  BY DEF Layer
<1>2. PICK x \in l.whiteouts \cup NotDirs(l) : At(q, x)
  BY DEF Gone
<1>3. x \in Paths
  BY <1>1, <1>2 DEF NotDirs
<1> QED
  BY <1>2, <1>3, UnderIsTransitive DEF Gone

\* The directories above a member that is kept are members that are kept.
LEMMA KeptIsClosed ==
  ASSUME NEW e \in Seq(Layer), NEW k \in 1..Len(e), NEW c \in 1..(Len(e) + 1),
         NEW p \in Kept(e, k, c), NEW q \in Paths, Under(p, q)
  PROVE  q \in Kept(e, k, c) /\ e[k].kind[q] = "dir"
<1>1. e[k] \in Layer /\ p \in Paths /\ e[k].kind[p] # "none"
  BY DEF Kept, Members
<1>2. e[k].kind[q] = "dir"
  BY <1>1 DEF Layer
<1>3. ASSUME NEW m \in (k + 1)..(c - 1), Gone(q, e[m]) PROVE FALSE
  <2>1. e[m] \in Layer
    BY <1>3
  <2>2. Gone(p, e[m])
    BY <1>1, <1>3, <2>1, GoneFromAbove DEF At
  <2> QED
    BY <2>2 DEF Kept
<1> QED
  BY <1>2, <1>3 DEF Kept, Members

LEMMA KeptByNext ==
  ASSUME NEW e \in Seq(Layer), NEW c \in 1..Len(e)
  PROVE  /\ Kept(e, c, c + 1) = Members(e[c])
         /\ \A k \in 1..(c - 1) :
              Kept(e, k, c + 1) = {p \in Kept(e, k, c) : ~Gone(p, e[c])}
<1>1. Kept(e, c, c + 1) = Members(e[c])
  BY DEF Kept
<1>2. ASSUME NEW k \in 1..(c - 1)
      PROVE  Kept(e, k, c + 1) = {p \in Kept(e, k, c) : ~Gone(p, e[c])}
  <2>1. \A m : m \in (k + 1)..((c + 1) - 1) <=>
               (m \in (k + 1)..(c - 1) \/ m = c)
    OBVIOUS
  <2> QED
    BY <2>1 DEF Kept
<1> QED
  BY <1>1, <1>2

\* The members that are crossed off a list are those that the layer deletes
\* or replaces: targets of whiteouts and directories that became files are
\* looked for in what is left of the list, and are there.
LEMMA LeftIsNotGone ==
  ASSUME NEW e \in Seq(Layer), NEW c \in 1..Len(e), NEW k \in 1..(c - 1)
  PROVE  Unreplaced(Unwhited(Kept(e, k, c), e[c]), e[c], e[k])
           = Kept(e, k, c + 1)
<1> DEFINE P == Kept(e, k, c)
           U == Unwhited(P, e[c])
<1>1. /\ e[c] \in Layer /\ e[k] \in Layer /\ e[c].whiteouts \subseteq Paths
      /\ k \in 1..Len(e)
  <2>1. e[c] \in Layer /\ e[k] \in Layer /\ k \in 1..Len(e)
    OBVIOUS
  <2> QED
    BY <2>1 DEF Layer
<1>2. \A p \in P : \A q \in Paths :
        Under(p, q) => q \in P /\ e[k].kind[q] = "dir"
  BY <1>1, KeptIsClosed
<1>3. P \subseteq Paths
  BY DEF Kept, Members
<1> HIDE DEF P
<1>4. U = {p \in P : ~\E w \in e[c].whiteouts : At(p, w)}
  <2>1. ASSUME NEW p \in P, NEW w \in e[c].whiteouts, At(p, w) PROVE w \in P
    BY <1>1, <1>2, <2>1 DEF At
  <2> QED
    BY <2>1 DEF Unwhited
<1>5. ASSUME NEW p \in U, NEW q \in Paths, Under(p, q)
      PROVE  q \in U /\ e[k].kind[q] = "dir"
  <2>1. p \in P
    BY <1>4
  <2>2. q \in P /\ e[k].kind[q] = "dir"
    BY <1>2, <1>5, <2>1
  <2>3. ASSUME NEW w \in e[c].whiteouts, At(q, w) PROVE FALSE
    <3>1. At(p, w)
      BY <1>1, <1>3, <1>5, <2>1, <2>3, UnderIsTransitive DEF At
    <3> QED
      BY <3>1, <1>4
  <2> QED
    BY <2>2, <2>3, <1>4
<1>6. NotDirs(e[c]) \subseteq Paths /\ U \subseteq P
  BY <1>4 DEF NotDirs
<1> HIDE DEF U
<1>7. Unreplaced(U, e[c], e[k]) = {p \in U : ~\E f \in NotDirs(e[c]) : At(p, f)}
  BY <1>5, <1>6 DEF Unreplaced, At
<1>8. {p \in U : ~\E f \in NotDirs(e[c]) : At(p, f)} = {p \in P : ~Gone(p, e[c])}
  BY <1>4, <1>6 DEF Gone
<1> QED
  BY <1>7, <1>8, KeptByNext DEF P, U

\* An excluded layer has no members and crosses nothing off.
LEMMA ExcludedIsEmpty ==
  ASSUME NEW e \in Seq(Layer), NEW c \in 1..Len(e), e[c].excluded
  PROVE  /\ \A p : ~Gone(p, e[c])
         /\ \A d : Kept(e, c, d) = {}
         /\ \A k \in 1..(c - 1) : Kept(e, k, c + 1) = Kept(e, k, c)
<1>1. /\ e[c] \in Layer
  OBVIOUS
<1>2. e[c].whiteouts = {} /\ \A p \in Paths : e[c].kind[p] = "none"
  BY <1>1 DEF Layer
<1>3. NotDirs(e[c]) = {} /\ Members(e[c]) = {}
  BY <1>2 DEF NotDirs, Members
<1>4. \A p : ~Gone(p, e[c])
  BY <1>2, <1>3 DEF Gone
<1>5. \A d : Kept(e, c, d) = {}
  BY <1>3 DEF Kept
<1>6. \A k \in 1..(c - 1) : Kept(e, k, c + 1) = Kept(e, k, c)
  <2> TAKE k \in 1..(c - 1)
  <2>1. Kept(e, k, c + 1) = {p \in Kept(e, k, c) : ~Gone(p, e[c])}
    BY KeptByNext
  <2> QED
    BY <2>1, <1>4
<1> QED
  BY <1>4, <1>5, <1>6

-----------------------------------------------------------------------------
(* What layers mean, in a closed form.                                     *)

LEMMA MergeStep ==
  ASSUME NEW k \in 0..MaxLayers
  PROVE  Merge[k] = IF k = 0 THEN Empty
                    ELSE Applied(Merge[k - 1], eldest[k], k)
<1> DEFINE M == Merge
<1>1. M = [j \in 0..MaxLayers |->
             IF j = 0 THEN Empty ELSE Applied(M[j - 1], eldest[j], j)]
  BY MergeDef
<1> HIDE DEF M
<1>2. M[k] = IF k = 0 THEN Empty ELSE Applied(M[k - 1], eldest[k], k)
  BY <1>1
<1> QED
  BY <1>2 DEF M

\* One layer applied to a tree that shows those before it.
LEMMA AppliedShows ==
  ASSUME NEW e \in Seq(Layer), NEW c \in 1..Len(e), NEW t,
         Shows(t, e, c - 1, c)
  PROVE  Shows(Applied(t, e[c], c), e, c, c + 1)
<1> DEFINE l == e[c]
           u == Applied(t, l, c)
<1> SUFFICES ASSUME NEW p \in Paths PROVE ShowsAt(u, p, e, c, c + 1)
  BY DEF Shows
<1>0. l \in Layer /\ l.whiteouts \subseteq Paths /\ c \in Nat /\ c >= 1
  <2>1. l \in Layer
    OBVIOUS
  <2> QED
    BY <2>1 DEF Layer
<1>1. /\ Kept(e, c, c + 1) = Members(l)
      /\ \A k \in 1..(c - 1) :
           p \in Kept(e, k, c + 1) <=> p \in Kept(e, k, c) /\ ~Gone(p, l)
  BY KeptByNext
<1>2. u[p] = IF p \in Members(l) THEN [kind |-> l.kind[p], layer |-> c]
             ELSE IF \E f \in NotDirs(l) : Under(p, f) THEN Nothing
             ELSE IF \E w \in l.whiteouts : At(p, w) THEN Nothing ELSE t[p]
  BY DEF Applied, Hidden
<1>3. ShowsAt(t, p, e, c - 1, c)
  BY DEF Shows
<1> HIDE DEF l, u
<1>4. CASE p \in Members(l)
  <2>1. p \in Kept(e, c, c + 1) /\ u[p] = [kind |-> l.kind[p], layer |-> c]
    BY <1>1, <1>2, <1>4
  <2>2. \A j \in (c + 1)..c : p \notin Kept(e, j, c + 1)
    BY <1>0
  <2>3. c \in 1..c
    BY <1>0
  <2> QED
    BY <2>1, <2>2, <2>3 DEF ShowsAt, l
<1>5. CASE p \notin Members(l) /\ Gone(p, l)
  <2>1. PICK x \in l.whiteouts \cup NotDirs(l) : At(p, x)
    BY <1>5 DEF Gone
  <2>2. p \notin NotDirs(l)
    BY <1>5 DEF NotDirs, Members
  <2>3. u[p] = Nothing
    BY <1>2, <1>5, <2>1, <2>2 DEF At
  <2>4. \A k \in 1..c : p \notin Kept(e, k, c + 1)
    <3> TAKE k \in 1..c
    <3>1. CASE k = c
      BY <3>1, <1>1, <1>5
    <3>2. CASE k \in 1..(c - 1)
      BY <3>2, <1>1, <1>5
    <3> QED
      BY <3>1, <3>2, <1>0
  <2> QED
    BY <2>3, <2>4 DEF ShowsAt
<1>6. CASE p \notin Members(l) /\ ~Gone(p, l)
  <2>1. u[p] = t[p]
    BY <1>2, <1>6 DEF Gone, At
  <2>2. \A k \in 1..(c - 1) : p \in Kept(e, k, c + 1) <=> p \in Kept(e, k, c)
    BY <1>1, <1>6
  <2>3. p \notin Kept(e, c, c + 1)
    BY <1>1, <1>6
  <2>4. CASE t[p] = Nothing /\ \A k \in 1..(c - 1) : p \notin Kept(e, k, c)
    <3>1. \A k \in 1..c : p \notin Kept(e, k, c + 1)
      BY <2>2, <2>3, <2>4, <1>0
    <3> QED
      BY <3>1, <2>1, <2>4 DEF ShowsAt
  <2>5. ASSUME NEW k \in 1..(c - 1), p \in Kept(e, k, c),
               t[p] = [kind |-> e[k].kind[p], layer |-> k],
               \A j \in (k + 1)..(c - 1) : p \notin Kept(e, j, c)
        PROVE  ShowsAt(u, p, e, c, c + 1)
    <3>1. \A j \in (k + 1)..c : p \notin Kept(e, j, c + 1)
      <4> TAKE j \in (k + 1)..c
      <4>1. CASE j = c
        BY <4>1, <2>3
      <4>2. CASE j \in (k + 1)..(c - 1)
        BY <4>2, <2>2, <2>5, <1>0
      <4> QED
        BY <4>1, <4>2, <1>0
    <3>2. k \in 1..c /\ p \in Kept(e, k, c + 1)
      BY <2>2, <2>5, <1>0
    <3> QED
      BY <3>1, <3>2, <2>1, <2>5 DEF ShowsAt
  <2> QED
    BY <2>4, <2>5, <1>3 DEF ShowsAt
<1> QED
  BY <1>4, <1>5, <1>6 DEF u, l

\* Merge shows, of the layers it was made of, the youngest at each path.
LEMMA MergeShows ==
  ASSUME eldest \in Seq(Layer), Len(eldest) <= MaxLayers,
         NEW n \in 0..Len(eldest)
  PROVE  Shows(Merge[n], eldest, n, n + 1)
<1> DEFINE S == {k \in Nat : k <= Len(eldest) =>
                              Shows(Merge[k], eldest, k, k + 1)}
<1>0. Len(eldest) \in Nat /\ MaxLayers \in Nat
  BY LayersAssumption
<1>1. 0 \in S
  <2>1. Merge[0] = Empty
    BY <1>0, MergeStep
  <2>2. Shows(Empty, eldest, 0, 0 + 1)
    BY DEF Shows, ShowsAt, Empty
  <2> QED
    BY <2>1, <2>2
<1>2. ASSUME NEW k \in Nat, k \in S PROVE k + 1 \in S
  <2> SUFFICES ASSUME k + 1 <= Len(eldest)
               PROVE  Shows(Merge[k + 1], eldest, k + 1, (k + 1) + 1)
    OBVIOUS
  <2> DEFINE c == k + 1
  <2>1. c \in 1..Len(eldest) /\ c - 1 = k /\ c \in 0..MaxLayers /\ c # 0
    BY <1>0
  <2>2. Shows(Merge[c - 1], eldest, c - 1, c)
    BY <1>0, <1>2, <2>1
  <2>3. Merge[c] = Applied(Merge[c - 1], eldest[c], c)
    BY <2>1, MergeStep
  <2> HIDE DEF c
  <2>4. Shows(Merge[c], eldest, c, c + 1)
    BY <2>1, <2>2, <2>3, AppliedShows
  <2> QED
    BY <2>4 DEF c
<1>3. n \in S
  <2> HIDE DEF S
  <2> QED
    BY <1>0, <1>1, <1>2, NatInd
<1> QED
  BY <1>3

\* A tree is known from what it shows.
LEMMA OneShown ==
  ASSUME NEW t, NEW u, NEW e, NEW n \in Nat, NEW c,
         t = [p \in Paths |-> t[p]], u = [p \in Paths |-> u[p]],
         Shows(t, e, n, c), Shows(u, e, n, c)
  PROVE  t = u
<1>1. ASSUME NEW p \in Paths PROVE t[p] = u[p]
  <2>1. ShowsAt(t, p, e, n, c) /\ ShowsAt(u, p, e, n, c)
    BY DEF Shows
  <2>2. CASE \A k \in 1..n : p \notin Kept(e, k, c)
    BY <2>1, <2>2 DEF ShowsAt
  <2>3. CASE \E k \in 1..n : p \in Kept(e, k, c)
    <3>1. PICK i \in 1..n :
            /\ p \in Kept(e, i, c)
            /\ t[p] = [kind |-> e[i].kind[p], layer |-> i]
            /\ \A j \in (i + 1)..n : p \notin Kept(e, j, c)
      BY <2>1, <2>3 DEF ShowsAt
    <3>2. PICK k \in 1..n :
            /\ p \in Kept(e, k, c)
            /\ u[p] = [kind |-> e[k].kind[p], layer |-> k]
            /\ \A j \in (k + 1)..n : p \notin Kept(e, j, c)
      BY <2>1, <2>3 DEF ShowsAt
    <3>3. i = k
      BY <3>1, <3>2
    <3> QED
      BY <3>1, <3>2, <3>3
  <2> QED
    BY <2>2, <2>3
<1> QED
  BY <1>1

LEMMA MergeIsTree ==
  ASSUME NEW n \in 0..MaxLayers
  PROVE  Merge[n] = [p \in Paths |-> Merge[n][p]]
<1>1. CASE n = 0
  BY <1>1, MergeStep DEF Empty
<1>2. CASE n # 0
  <2>1. Merge[n] = Applied(Merge[n - 1], eldest[n], n)
    BY <1>2, MergeStep
  <2> DEFINE M == Merge[n]
             N == Merge[n - 1]
  <2>2. M = Applied(N, eldest[n], n)
    BY <2>1
  <2> HIDE DEF M, N
  <2>3. M = [p \in Paths |-> M[p]]
    BY <2>2 DEF Applied
  <2> QED
    BY <2>3 DEF M
<1> QED
  BY <1>1, <1>2

-----------------------------------------------------------------------------
(* What extracting shows.                                                  *)

\* A file where a layer has a directory, that no layer crosses off, is one
\* that the tree of the layers before has there too.
LEMMA FileWasThere ==
  ASSUME eldest \in Seq(Layer), Len(eldest) <= MaxLayers,
         NEW c \in 1..Len(eldest), NEW q \in Paths,
         Shows(tree, eldest, c - 1, Len(eldest) + 1),
         eldest[c].kind[q] = "dir", tree[q].kind = "file"
  PROVE  FileBecomesDir
<1> DEFINE N == Len(eldest)
           M == Merge[c - 1]
<1>0. N \in Nat /\ c \in Nat /\ c >= 1 /\ c <= N /\ MaxLayers \in Nat
  BY LayersAssumption
<1>1. PICK k \in 1..(c - 1) :
        /\ q \in Kept(eldest, k, N + 1)
        /\ tree[q] = [kind |-> eldest[k].kind[q], layer |-> k]
        /\ \A j \in (k + 1)..(c - 1) : q \notin Kept(eldest, j, N + 1)
  <2>1. ShowsAt(tree, q, eldest, c - 1, N + 1)
    BY DEF Shows
  <2>2. tree[q] # Nothing
    BY DEF Nothing
  <2> HIDE DEF N
  <2> QED
    BY <2>1, <2>2 DEF ShowsAt
<1>2. ShowsAt(M, q, eldest, c - 1, c)
  <2>1. c - 1 \in 0..Len(eldest) /\ (c - 1) + 1 = c
    BY <1>0
  <2>2. Shows(M, eldest, c - 1, (c - 1) + 1)
    BY <2>1, MergeShows
  <2> QED
    BY <2>1, <2>2 DEF Shows
<1> HIDE DEF M, N
<1>3. q \in Kept(eldest, k, c)
  BY <1>0, <1>1 DEF Kept
<1>4. ~Gone(q, eldest[c])
  BY <1>0, <1>1 DEF Kept
<1>5. PICK i \in 1..(c - 1) :
        /\ q \in Kept(eldest, i, c)
        /\ M[q] = [kind |-> eldest[i].kind[q], layer |-> i]
        /\ \A j \in (i + 1)..(c - 1) : q \notin Kept(eldest, j, c)
  BY <1>2, <1>3 DEF ShowsAt
<1>6. i = k
  <2>1. ~(i < k)
    BY <1>0, <1>3, <1>5
  <2>2. ASSUME k < i PROVE FALSE
    <3>1. q \notin Kept(eldest, i, N + 1)
      BY <1>0, <1>1, <2>2
    <3>2. PICK m \in (i + 1)..N : Gone(q, eldest[m])
      BY <3>1, <1>0, <1>5 DEF Kept
    <3>3. m \in (k + 1)..((N + 1) - 1)
      BY <2>2, <1>0
    <3> QED
      BY <3>2, <3>3, <1>1 DEF Kept
  <2> QED
    BY <2>1, <2>2, <1>0
<1>7. M[q].kind = "file"
  <2>1. eldest[k].kind[q] = "file"
    BY <1>1
  <2> QED
    BY <2>1, <1>5, <1>6
<1>8. Hidden(M, eldest[c])[q].kind = "file"
  BY <1>4, <1>7 DEF Hidden, Gone
<1>9. q \in Members(eldest[c])
  BY DEF Members
<1> QED
  BY <1>8, <1>9, <1>0 DEF FileBecomesDir, M

\* Extracting what is left of a layer raises nothing, and the tree shows one
\* layer more.
LEMMA ExtractedShows ==
  ASSUME eldest \in Seq(Layer), Len(eldest) <= MaxLayers, ~FileBecomesDir,
         NEW c \in 1..Len(eldest),
         Shows(tree, eldest, c - 1, Len(eldest) + 1),
         \A p \in Kept(eldest, c, Len(eldest) + 1) :
           eldest[c].kind[p] = "file" => tree[p].kind = "none"
  PROVE  LET K == Kept(eldest, c, Len(eldest) + 1) IN
           /\ ~Conflict(K, eldest[c])
           /\ Shows(Extracted(K, eldest[c], c), eldest, c, Len(eldest) + 1)
<1> DEFINE N == Len(eldest)
           l == eldest[c]
           K == Kept(eldest, c, N + 1)
           u == Extracted(K, l, c)
<1>0. N \in Nat /\ c \in Nat /\ c >= 1 /\ c <= N /\ l \in Layer
  OBVIOUS
<1>1. K \subseteq Paths /\ \A p \in K : l.kind[p] # "none"
  BY DEF Kept, Members
<1>2. \A q \in Paths : l.kind[q] = "dir" => tree[q].kind # "file"
  BY FileWasThere
<1>3. ASSUME NEW p \in K, NEW q \in Paths, Under(p, q)
      PROVE  tree[q].kind # "file"
  <2>1. l.kind[q] = "dir"
    BY <1>0, <1>1, <1>3 DEF Layer
  <2> QED
    BY <2>1, <1>2
<1>4. ~Conflict(K, l)
  <2>1. ASSUME NEW p \in K, l.kind[p] = "file", tree[p].kind = "dir" PROVE FALSE
    <3>1. tree[p].kind = "none"
      BY <2>1
    <3> QED
      BY <3>1, <2>1
  <2> HIDE DEF K, l
  <2> QED
    BY <1>3, <2>1 DEF Conflict
<1>5. ASSUME NEW p \in Paths PROVE ShowsAt(u, p, eldest, c, N + 1)
  <2>1. CASE p \in K
    <3>1. u[p] = [kind |-> l.kind[p], layer |-> c]
      BY <2>1, <1>2, <1>5 DEF Extracted
    <3>2. \A j \in (c + 1)..c : p \notin Kept(eldest, j, N + 1)
      BY <1>0
    <3>3. c \in 1..c
      BY <1>0
    <3> QED
      BY <2>1, <3>1, <3>2, <3>3 DEF ShowsAt
  <2>2. CASE p \notin K
    <3>1. u[p] = tree[p]
      BY <2>2, <1>5 DEF Extracted
    <3>2. ShowsAt(tree, p, eldest, c - 1, N + 1)
      BY <1>5 DEF Shows
    <3> HIDE DEF u, N, l
    <3>3. CASE /\ tree[p] = Nothing
               /\ \A k \in 1..(c - 1) : p \notin Kept(eldest, k, N + 1)
      <4>1. \A k \in 1..c : p \notin Kept(eldest, k, N + 1)
        BY <3>3, <2>2, <1>0
      <4> QED
        BY <4>1, <3>1, <3>3 DEF ShowsAt
    <3>4. ASSUME NEW k \in 1..(c - 1), p \in Kept(eldest, k, N + 1),
                 tree[p] = [kind |-> eldest[k].kind[p], layer |-> k],
                 \A j \in (k + 1)..(c - 1) : p \notin Kept(eldest, j, N + 1)
          PROVE  ShowsAt(u, p, eldest, c, N + 1)
      <4>1. \A j \in (k + 1)..c : p \notin Kept(eldest, j, N + 1)
        BY <3>4, <2>2, <1>0
      <4>2. k \in 1..c
        BY <1>0
      <4> QED
        BY <4>1, <4>2, <3>1, <3>4 DEF ShowsAt
    <3> QED
      BY <3>2, <3>3, <3>4 DEF ShowsAt
  <2> QED
    BY <2>1, <2>2
<1> QED
  BY <1>4, <1>5 DEF Shows

-----------------------------------------------------------------------------
(* The lists and the tree on the way.                                      *)

LEMMA InitM == Init => MergeInv
<1> SUFFICES ASSUME Init PROVE MergeInv
  OBVIOUS
<1>1. PICK n \in 1..MaxLayers : eldest \in [1..n -> Layer]
  BY DEF Init
<1>2. Len(eldest) = n /\ n \in Nat /\ n <= MaxLayers
  BY <1>1, LayersAssumption
<1> QED
  BY <1>2 DEF Init, MergeInv

LEMMA SameLayers == UNCHANGED eldest => FileBecomesDir' = FileBecomesDir
  BY DEF FileBecomesDir, Merge, Members

LEMMA ReadLayerMerges == LInv /\ MergeInv /\ ReadLayer => MergeInv'
<1> SUFFICES ASSUME LInv, MergeInv, ReadLayer PROVE MergeInv'
  OBVIOUS
<1> DEFINE n == Len(layer_paths)
<1>1. /\ eldest \in Seq(Layer) /\ layer_paths \in Seq(SUBSET Paths)
      /\ tar_file_refs \in Seq(1..Len(eldest)) /\ Len(tar_file_refs) = n
      /\ n \in Nat /\ Len(eldest) \in Nat
  BY DEF LInv, ListsInv
<1>2. child \in 1..Len(eldest)
  BY <1>1 DEF LInv, LoopInv, ReadLayer
<1>3. /\ layer_paths' = Append([i \in 1..n |-> Left(i, eldest[child])],
                               Members(eldest[child]))
      /\ tar_file_refs' = Append(tar_file_refs, child)
      /\ child' = child + 1
      /\ UNCHANGED <<eldest, layer_idx, tree, pc>> /\ pc = "read"
  BY DEF ReadLayer
<1>4. /\ Len(layer_paths') = n + 1
      /\ \A i \in 1..n : layer_paths'[i] = Left(i, eldest[child])
      /\ layer_paths'[n + 1] = Members(eldest[child])
  <2> DEFINE kept == [i \in 1..n |-> Left(i, eldest[child])]
  <2>1. /\ kept \in Seq(SUBSET Paths) /\ Len(kept) = n
        /\ \A i \in 1..n : kept[i] = Left(i, eldest[child])
    <3>1. \A i \in 1..n : Left(i, eldest[child]) \subseteq Paths
      BY <1>1 DEF Left, Unreplaced, Unwhited
    <3> QED
      BY <1>1, <3>1
  <2>2. Members(eldest[child]) \subseteq Paths
    BY DEF Members
  <2> HIDE DEF kept
  <2>3. layer_paths' = Append(kept, Members(eldest[child]))
    BY <1>3 DEF kept
  <2> QED
    BY <2>1, <2>2, <2>3, <1>1
<1>5. /\ \A i \in 1..n : tar_file_refs'[i] = tar_file_refs[i]
      /\ tar_file_refs'[n + 1] = child
  BY <1>1, <1>2, <1>3
<1> HIDE DEF n
<1>6. ASSUME NEW i \in 1..(n + 1)
      PROVE  layer_paths'[i] = Kept(eldest, tar_file_refs'[i], child + 1)
  <2>1. CASE i = n + 1
    BY <2>1, <1>1, <1>2, <1>4, <1>5, KeptByNext
  <2>2. CASE i \in 1..n
    <3>1. tar_file_refs[i] \in 1..(child - 1)
      <4>1. tar_file_refs[i] \in 1..Len(eldest) /\ tar_file_refs[i] < child
        BY <2>2, <1>1, <1>3 DEF LInv, LoopInv, n
      <4> QED
        BY <4>1, <1>2
    <3>2. layer_paths[i] = Kept(eldest, tar_file_refs[i], child)
      BY <2>2, <1>3 DEF MergeInv, n
    <3>3. layer_paths'[i] = Kept(eldest, tar_file_refs[i], child + 1)
      BY <3>1, <3>2, <2>2, <1>1, <1>2, <1>4, LeftIsNotGone DEF Left
    <3> QED
      BY <3>3, <2>2, <1>5
  <2> QED
    BY <2>1, <2>2, <1>1
<1>7. child + 1 <= Len(eldest) + 1 /\ Len(eldest) <= MaxLayers /\ tree = Empty
  BY <1>1, <1>2, <1>3 DEF MergeInv
<1>8. /\ eldest' = eldest /\ child' = child + 1 /\ tree' = tree
      /\ pc' = "read" /\ Len(layer_paths') = n + 1
  BY <1>3, <1>4
<1>9. \A i \in 1..Len(layer_paths') :
        layer_paths'[i] = Kept(eldest', tar_file_refs'[i], child')
  BY <1>6, <1>8
<1> QED
  BY <1>7, <1>8, <1>9 DEF MergeInv

LEMMA SkipLayerMerges == LInv /\ MergeInv /\ SkipLayer => MergeInv'
<1> SUFFICES ASSUME LInv, MergeInv, SkipLayer PROVE MergeInv'
  OBVIOUS
<1> DEFINE N == Len(eldest)
<1>1. /\ UNCHANGED <<eldest, layer_paths, tar_file_refs, layer_idx, tree, pc>>
      /\ child' = child + 1 /\ pc \in {"read", "extract"}
      /\ eldest[child].excluded
  BY DEF SkipLayer
<1>2. /\ eldest \in Seq(Layer) /\ N \in Nat /\ child \in 1..N
      /\ \A i \in 1..Len(layer_paths) : tar_file_refs[i] \in 1..N
      /\ N <= MaxLayers
  <2>1. eldest \in Seq(Layer) /\ N \in Nat /\ N <= MaxLayers
    BY DEF LInv, ListsInv, MergeInv
  <2>2. child \in Nat \ {0} /\ child <= N
    BY DEF LInv, LoopInv, SkipLayer
  <2>3. \A i \in 1..Len(layer_paths) : tar_file_refs[i] \in 1..N
    BY DEF LInv, ListsInv
  <2> QED
    BY <2>1, <2>2, <2>3
<1>3. /\ Kept(eldest, child, N + 1) = {}
      /\ \A k \in 1..(child - 1) :
           Kept(eldest, k, child + 1) = Kept(eldest, k, child)
  BY <1>1, <1>2, ExcludedIsEmpty
<1>4. CASE pc = "read"
  <2>1. ASSUME NEW i \in 1..Len(layer_paths)
        PROVE  layer_paths[i] = Kept(eldest, tar_file_refs[i], child + 1)
    <3>1. tar_file_refs[i] \in 1..(child - 1)
      <4>1. tar_file_refs[i] \in 1..N /\ tar_file_refs[i] < child
        BY <1>2, <1>4 DEF LInv, LoopInv
      <4> QED
        BY <4>1, <1>2
    <3>2. layer_paths[i] = Kept(eldest, tar_file_refs[i], child)
      BY <1>4 DEF MergeInv
    <3> QED
      BY <3>1, <3>2, <1>3
  <2>2. tree = Empty /\ child + 1 <= N + 1
    BY <1>2, <1>4 DEF MergeInv
  <2> QED
    BY <2>1, <2>2, <1>1, <1>2, <1>4 DEF MergeInv
<1>5. CASE pc = "extract"
  <2>1. \A i \in 1..Len(layer_paths) :
          layer_paths[i] = Kept(eldest, tar_file_refs[i], N + 1)
    BY <1>5 DEF MergeInv
  <2>2. ASSUME ~FileBecomesDir PROVE Shows(tree, eldest, child, N + 1)
    <3> SUFFICES ASSUME NEW p \in Paths
                 PROVE  ShowsAt(tree, p, eldest, child, N + 1)
      BY DEF Shows
    <3>1. ShowsAt(tree, p, eldest, child - 1, N + 1)
      BY <1>5, <2>2 DEF MergeInv, Shows
    <3>2. p \notin Kept(eldest, child, N + 1)
      BY <1>3
    <3> HIDE DEF N
    <3>3. CASE /\ tree[p] = Nothing
               /\ \A k \in 1..(child - 1) : p \notin Kept(eldest, k, N + 1)
      <4>1. \A k \in 1..child : p \notin Kept(eldest, k, N + 1)
        BY <3>2, <3>3, <1>2
      <4> QED
        BY <4>1, <3>3 DEF ShowsAt
    <3>4. ASSUME NEW k \in 1..(child - 1), p \in Kept(eldest, k, N + 1),
                 tree[p] = [kind |-> eldest[k].kind[p], layer |-> k],
                 \A j \in (k + 1)..(child - 1) : p \notin Kept(eldest, j, N + 1)
          PROVE  ShowsAt(tree, p, eldest, child, N + 1)
      <4>1. \A j \in (k + 1)..child : p \notin Kept(eldest, j, N + 1)
        BY <3>2, <3>4, <1>2
      <4>2. k \in 1..child
        BY <1>2
      <4> QED
        BY <4>1, <4>2, <3>4 DEF ShowsAt
    <3> QED
      BY <3>1, <3>3, <3>4 DEF ShowsAt
  <2>3. FileBecomesDir' = FileBecomesDir
    BY <1>1, SameLayers
  <2>4. /\ eldest' = eldest /\ layer_paths' = layer_paths /\ tree' = tree
        /\ tar_file_refs' = tar_file_refs /\ pc' = "extract"
        /\ child' = child + 1 /\ (child + 1) - 1 = child /\ child + 1 <= N + 1
    BY <1>1, <1>2, <1>5
  <2> QED
    BY <2>1, <2>2, <2>3, <2>4, <1>2 DEF MergeInv
<1> QED
  BY <1>1, <1>4, <1>5

LEMMA AllReadMerges == LInv /\ MergeInv /\ AllRead => MergeInv'
<1> SUFFICES ASSUME LInv, MergeInv, AllRead PROVE MergeInv'
  OBVIOUS
<1>1. /\ UNCHANGED <<eldest, layer_paths, tar_file_refs, layer_idx, tree>>
      /\ pc = "read" /\ pc' = "extract" /\ child' = 1 /\ child > Len(eldest)
  BY DEF AllRead
<1>2. /\ Len(eldest) \in Nat /\ child \in Nat /\ tree = Empty
      /\ child <= Len(eldest) + 1 /\ Len(eldest) <= MaxLayers
      /\ \A i \in 1..Len(layer_paths) :
           layer_paths[i] = Kept(eldest, tar_file_refs[i], child)
  BY <1>1 DEF LInv, ListsInv, LoopInv, MergeInv
<1>3. child = Len(eldest) + 1
  BY <1>1, <1>2
<1>4. Shows(tree, eldest, 1 - 1, Len(eldest) + 1)
  <2>1. \A p \in Paths : tree[p] = Nothing
    BY <1>2 DEF Empty
  <2>2. 1..(1 - 1) = {}
    OBVIOUS
  <2> QED
    BY <2>1, <2>2 DEF Shows, ShowsAt
<1> QED
  BY <1>1, <1>2, <1>3, <1>4 DEF MergeInv

LEMMA ExtractLayerMerges ==
  LInv /\ NoFileOnDir /\ MergeInv /\ ExtractLayer => MergeInv'
<1> SUFFICES ASSUME LInv, NoFileOnDir, MergeInv, ExtractLayer PROVE MergeInv'
  OBVIOUS
<1> DEFINE N == Len(eldest)
           i == layer_idx + 1
           K == Kept(eldest, child, N + 1)
<1>1. /\ UNCHANGED <<eldest, layer_paths, tar_file_refs>>
      /\ layer_idx' = i /\ child' = child + 1 /\ pc = "extract"
      /\ child <= N /\ ~eldest[child].excluded
  BY DEF ExtractLayer
<1>2. i \in 1..Len(layer_paths) /\ tar_file_refs[i] = child
  BY <1>1, NextList
<1>3. layer_paths[i] = K
  BY <1>1, <1>2 DEF MergeInv
<1>4. \/ pc' = "raised" /\ tree' = tree /\ Conflict(K, eldest[child])
      \/ /\ pc' = pc /\ ~Conflict(K, eldest[child])
         /\ tree' = Extracted(K, eldest[child], child)
  BY <1>2, <1>3 DEF ExtractLayer
<1>5. /\ eldest \in Seq(Layer) /\ N \in Nat /\ child \in 1..N /\ N <= MaxLayers
  <2>1. eldest \in Seq(Layer) /\ N \in Nat /\ N <= MaxLayers
    BY DEF LInv, ListsInv, MergeInv
  <2>2. child \in Nat \ {0}
    BY DEF LInv, LoopInv
  <2> QED
    BY <2>1, <2>2, <1>1
<1>6. \A p \in K : eldest[child].kind[p] = "file" => tree[p].kind = "none"
  <2>1. layer_idx < Len(layer_paths)
    BY <1>2 DEF LInv, LoopInv, ListsInv
  <2> QED
    BY <2>1, <1>1, <1>2, <1>3 DEF NoFileOnDir
<1>7. FileBecomesDir' = FileBecomesDir
  BY <1>1, SameLayers
<1>8. ASSUME ~FileBecomesDir
      PROVE  /\ ~Conflict(K, eldest[child])
             /\ Shows(Extracted(K, eldest[child], child), eldest, child, N + 1)
  <2>1. Shows(tree, eldest, child - 1, N + 1)
    BY <1>1, <1>8 DEF MergeInv
  <2> QED
    BY <2>1, <1>5, <1>6, <1>8, ExtractedShows
<1>9. \A j \in 1..Len(layer_paths) :
        layer_paths[j] = Kept(eldest, tar_file_refs[j], N + 1)
  BY <1>1 DEF MergeInv
<1> HIDE DEF K
<1>10. CASE FileBecomesDir
  BY <1>10, <1>1, <1>4, <1>5, <1>7, <1>9 DEF MergeInv
<1>11. CASE ~FileBecomesDir
  <2>1. pc' = "extract" /\ tree' = Extracted(K, eldest[child], child)
    BY <1>1, <1>4, <1>8, <1>11
  <2>2. Shows(tree', eldest, child, N + 1)
    BY <2>1, <1>8, <1>11
  <2>3. child' - 1 = child /\ child' <= N + 1
    BY <1>1, <1>5
  <2> QED
    BY <2>1, <2>2, <2>3, <1>1, <1>5, <1>9 DEF MergeInv
<1> QED
  BY <1>10, <1>11

LEMMA NextM == LInv /\ NoFileOnDir /\ MergeInv /\ [Next]_vars => MergeInv'
<1> SUFFICES ASSUME LInv, NoFileOnDir, MergeInv, [Next]_vars PROVE MergeInv'
  OBVIOUS
<1>1. CASE AllExtracted
  <2>1. /\ UNCHANGED <<eldest, child, layer_paths, tar_file_refs, layer_idx, tree>>
        /\ pc = "extract" /\ pc' = "done" /\ child > Len(eldest)
    BY <1>1 DEF AllExtracted
  <2>2. /\ child \in Nat /\ child <= Len(eldest) + 1 /\ Len(eldest) \in Nat
        /\ Len(eldest) <= MaxLayers
    BY <2>1 DEF LInv, LoopInv, ListsInv, MergeInv
  <2>3. child - 1 = Len(eldest)
    BY <2>1, <2>2
  <2>4. ~FileBecomesDir => Shows(tree, eldest, Len(eldest), Len(eldest) + 1)
    BY <2>1, <2>3 DEF MergeInv
  <2>5. FileBecomesDir' = FileBecomesDir
    BY <2>1, SameLayers
  <2> QED
    BY <2>1, <2>2, <2>4, <2>5 DEF MergeInv
<1>2. CASE UNCHANGED vars
  <2>1. UNCHANGED <<eldest, child, layer_paths, tar_file_refs, layer_idx, tree, pc>>
    BY <1>2 DEF vars
  <2>2. FileBecomesDir' = FileBecomesDir
    BY <2>1, SameLayers
  <2> QED
    BY <2>1, <2>2 DEF MergeInv
<1> QED
  BY <1>1, <1>2, ReadLayerMerges, SkipLayerMerges, AllReadMerges,
     ExtractLayerMerges DEF Next

LEMMA MergeInvMerges == LInv /\ MergeInv => Merged
<1> SUFFICES ASSUME LInv, MergeInv, ~FileBecomesDir
             PROVE  pc # "raised" /\ (pc = "done" => tree = Merge[Len(eldest)])
  BY DEF Merged
<1>1. pc # "raised"
  BY DEF MergeInv
<1>2. ASSUME pc = "done" PROVE tree = Merge[Len(eldest)]
  <2> DEFINE N == Len(eldest)
             M == Merge[N]
  <2>1. eldest \in Seq(Layer) /\ N \in 0..MaxLayers /\ N \in 0..N /\ N \in Nat
        /\ N <= MaxLayers
    BY LayersAssumption DEF LInv, ListsInv, MergeInv
  <2>2. Shows(tree, eldest, N, N + 1)
    BY <1>2 DEF MergeInv
  <2>3. Shows(M, eldest, N, N + 1)
    BY <2>1, MergeShows
  <2>4. M = [p \in Paths |-> M[p]]
    BY <2>1, MergeIsTree
  <2>5. tree = [p \in Paths |-> tree[p]]
    BY DEF LInv, TreeInv
  <2> HIDE DEF N, M
  <2>6. tree = M
    BY <2>1, <2>2, <2>3, <2>4, <2>5, OneShown
  <2> QED
    BY <2>6 DEF M, N
<1> QED
  BY <1>1, <1>2

\* extract_docker_layers, lines 646-697: crossing off in the lists of earlier
\* layers and extracting what is left makes the tree that the layers mean when
\* they are applied one after the other, and raises nothing, unless a layer has
\* a directory where a file of an earlier one still is; for any set of paths and
\* any number of layers.
THEOREM LayersMerge == Spec => []Merged
<1>1. Init => LInv /\ MergeInv
  BY InitL, InitM
<1>2. LInv => NoFileOnDir
  BY FilesHaveRoomL
<1>3. LInv /\ MergeInv /\ [Next]_vars => (LInv /\ MergeInv)'
  BY <1>2, NextL, NextM
<1>4. LInv /\ MergeInv => Merged
  BY MergeInvMerges
<1> QED
  BY <1>1, <1>3, <1>4, PTL DEF Spec
=============================================================================
