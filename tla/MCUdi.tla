------------------------------- MODULE MCUdi -------------------------------
(* An instance of Udi for TLC: a request for an image on a loop device and *)
(* one for an image in a directory, with an ssh in it and a volume.        *)
EXTENDS Udi, TLC

CONSTANTS a, b, s1, s2

MCRequest == {a, b}
MCLooped  == {a}
MCPaths   == {"ssh", "usr", "proc", "opt", "data"}
MCRank    == "ssh" :> 0 @@ "usr" :> 1 @@ "proc" :> 2 @@ "opt" :> 3 @@ "data" :> 4
MCSite    == {"proc"}
MCImage   == a :> {"usr", "opt"} @@ b :> {"usr"}
MCVolumes == a :> {} @@ b :> {"data"}
MCSsh     == a :> {} @@ b :> {"ssh"}

MCSymmetry == Permutations(Shifters)
=============================================================================
