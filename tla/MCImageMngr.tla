----------------------------- MODULE MCImageMngr -----------------------------
(* Instances of ImageMngr for TLC: the .cfg files give the sets.            *)
EXTENDS ImageMngr, TLC

\* Object ids, systems, tags and image ids are interchangeable.
Symmetry == Permutations(Idents) \cup Permutations(Systems) \cup
            Permutations(Tags) \cup Permutations(Images)
=============================================================================
