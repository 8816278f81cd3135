---------------------------- MODULE MCImageWorker ----------------------------
(* Instances of ImageWorker for TLC: the .cfg files give the sets.          *)
EXTENDS ImageWorker, TLC

\* Object ids, systems, tags and image ids are interchangeable.
Symmetry == Permutations(Idents) \cup Permutations(Systems) \cup
            Permutations(Tags) \cup Permutations(Images)
=============================================================================
