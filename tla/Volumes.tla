------------------------------ MODULE Volumes ------------------------------
(***************************************************************************)
(* Volume maps (src/VolumeMap.c) and the mounts that are made of them in a *)
(* UDI (setupVolumeMapMounts in src/shifter_core.c): parse and validate    *)
(* the whole request, then one volume after the other, where each step may *)
(* fail and the first failure ends the setup.                              *)
(*                                                                         *)
(* A path is what userInputPathFilter leaves of it.  Links in the image    *)
(* are the function real; which paths exist is left open.                  *)
(***************************************************************************)
EXTENDS Naturals, Sequences, FiniteSets, Functions, SequencesExt

CONSTANTS
  Places,      \* absolute paths inside the UDI
  BelowPlace,  \* the pairs <<p, q>> where q is p or below it
  Closed,     \* by kind of request: the paths nothing is mounted on
  NoPlace,
  Requests    \* sequences of volumes [from, to, flags]

UserFlags == {"ro", "cache"}
SiteFlags == UserFlags \cup {"rec", "slave", "private"}

ASSUME VolumesAssumption ==
  /\ BelowPlace \subseteq Places \X Places
  /\ Closed \in [{"user", "site"} -> SUBSET Places]
  /\ NoPlace \notin Places
  /\ Requests \subseteq Seq([from : Places, to : Places \cup {NoPlace}, flags : Seq(SiteFlags)])

VARIABLES
  kind,      \* who asks: "user" or "site"
  request,
  real,      \* what realpath says of every path
  maps,      \* the parsed VolumeMap
  mapIdx,    \* the volume that is set up
  step,      \* the next step: "parse", "cache", "store", "from", "back",
             \* "to", "mount", "chown", "unlink", "ok", "error"
  euid,      \* "root" or "user"
  store,     \* the backing files of per-node caches: how far they got
  mounted    \* the mounts made, the latest last

vvars == <<kind, request, real, maps, mapIdx, step, euid, store, mounted>>

VolumesStart(k, vs, r) ==
  /\ kind = k
  /\ request = vs
  /\ real = r
  /\ maps = <<>> /\ mapIdx = 1 /\ step = "parse"
  /\ euid = "root" /\ store = {} /\ mounted = <<>>

VolumesInit ==
  \E k \in {"user", "site"}, vs \in Requests :
    \E r \in [Places -> Places] :
      /\ \A p \in Places : r[r[p]] = r[p]
      /\ VolumesStart(k, vs, r)
-----------------------------------------------------------------------------
(* src/VolumeMap.c                                                         *)

\* The flags of a volume, all of them known, are kept in one order.
_parseFlag(flags) == ToSet(flags)

\* Without a second path, a volume of the site goes to the first.
ParsedVolume(k, v) ==
  [from |-> v.from, flags |-> _parseFlag(v.flags),
   to |-> IF v.to = NoPlace /\ k = "site" THEN v.from ELSE v.to]

\* _validateVolumeMap.  Both paths are absolute by definition here.
Valid(k, v) ==
  /\ v.to # NoPlace /\ v.to \notin Closed[k]
  /\ v.flags \subseteq (IF k = "user" THEN UserFlags ELSE SiteFlags)
  /\ ~{"slave", "private"} \subseteq v.flags

\* _parseVolumeMap: one volume after the other, until one is not valid or
\* has a flag twice.
parseVolumeMap(k, r) ==
  IF \A i \in DOMAIN r : Valid(k, ParsedVolume(k, r[i])) /\ IsInjective(r[i].flags)
    THEN [i \in DOMAIN r |-> ParsedVolume(k, r[i])] ELSE <<>>

\* getVolMapSignature: the volumes, sorted; that is, how often each comes.
Signature(m) == [v \in Range(m) |-> Cardinality({i \in DOMAIN m : m[i] = v})]
-----------------------------------------------------------------------------
(* src/shifter_core.c                                                      *)

Volume == maps[mapIdx]
Cached == "cache" \in Volume.flags

Within(p, q) == <<p, q>> \in BelowPlace

\* Mistake: only the path as it was written is looked at.
ValidRealNot(k, v) == v.to \in Places

\* The paths are looked at again, after links.
ValidReal(k, v) == Valid(k, [v EXCEPT !.to = real[@]])

\* _shifterCore_bindMount with allowOverwriteBind: what the list has at the
\* place, and all that is below it, is unmounted.  (Of two mounts on one
\* place the list has one; the other stays, covered.)
Bound(ms, m) ==
  LET over == \E i \in DOMAIN ms : ms[i].to = m.to
  IN  Append(IF over THEN SelectSeq(ms, LAMBDA x : ~Within(m.to, x.to)) ELSE ms, m)

\* loopMount does not look at the list of mounts.
Looped(ms, m) == Append(ms, m)

Mount == [to |-> real[Volume.to], flags |-> Volume.flags,
          from |-> IF Cached THEN NoPlace ELSE real[Volume.from]]

\* The first step of the next volume.
FirstStep(ms, i) ==
  IF i > Len(ms) THEN "ok" ELSE IF "cache" \in ms[i].flags THEN "cache" ELSE "from"

Parse ==
  /\ step = "parse"
  /\ maps' = parseVolumeMap(kind, request)
  /\ step' = IF maps' = <<>> THEN "error" ELSE FirstStep(maps', 1)
  /\ UNCHANGED <<kind, request, real, mapIdx, euid, store, mounted>>

Goto(s) == step' = s /\ UNCHANGED <<kind, request, real, maps>>

\* _handleVolMountError: the backing file is removed if it was finished.
Fails ==
  /\ store' = IF Cached /\ <<mapIdx, "made">> \in store THEN {} ELSE store
  /\ Goto("error") /\ UNCHANGED <<mapIdx, euid, mounted>>

\* setupPerNodeCacheFilename: mkstemp.
CacheFilename ==
  /\ step = "cache"
  /\ \/ store' = store \cup {<<mapIdx, "empty">>} /\ Goto("store") /\ UNCHANGED <<mapIdx, euid, mounted>>
     \/ Fails

\* setupPerNodeCacheBackingStore: dd and mkfs.
BackingStore ==
  /\ step = "store"
  /\ \/ store' = {<<mapIdx, "made">>} /\ Goto("to") /\ UNCHANGED <<mapIdx, euid, mounted>>
     \/ Fails

\* Whether the user can reach the directory is tried as the user.
FindFrom ==
  /\ step = "from"
  /\ \/ euid' = (IF kind = "user" THEN "user" ELSE euid) /\ Goto("back")
     \/ euid' \in (IF kind = "user" THEN {"user", "root"} ELSE {euid}) /\ Goto("error")
  /\ UNCHANGED <<mapIdx, store, mounted>>

\* seteuid, setegid, setgroups: a failure leaves things as they are.
SwitchBack ==
  /\ step = "back"
  /\ \/ euid' = "root" /\ Goto("to")
     \/ kind = "user" /\ euid' \in {"user", "root"} /\ Goto("error")
  /\ UNCHANGED <<mapIdx, store, mounted>>

\* The place is there or is made, is valid, and on a device that may be
\* mounted on.
FindTo ==
  /\ step = "to"
  /\ \/ ValidReal(kind, Volume) /\ Goto("mount") /\ UNCHANGED <<mapIdx, euid, store, mounted>>
     \/ Fails

MountIt ==
  /\ step = "mount"
  /\ \/ /\ mounted' = IF Cached THEN Looped(mounted, Mount) ELSE Bound(mounted, Mount)
        /\ IF Cached THEN Goto("chown") /\ UNCHANGED mapIdx
           ELSE Goto(FirstStep(maps, mapIdx + 1)) /\ mapIdx' = mapIdx + 1
        /\ UNCHANGED <<euid, store>>
     \/ Fails

Chown ==
  /\ step = "chown"
  /\ \/ Goto("unlink") /\ UNCHANGED <<mapIdx, euid, store, mounted>>
     \/ Fails

\* Until it is unmounted the file has no name.
Unlink ==
  /\ step = "unlink"
  /\ \/ /\ store' = {}
        /\ Goto(FirstStep(maps, mapIdx + 1)) /\ mapIdx' = mapIdx + 1
        /\ UNCHANGED <<euid, mounted>>
     \/ Goto("error") /\ UNCHANGED <<mapIdx, euid, store, mounted>>

VolumesNext ==
  \/ Parse \/ CacheFilename \/ BackingStore \/ FindFrom \/ SwitchBack
  \/ FindTo \/ MountIt \/ Chown \/ Unlink
-----------------------------------------------------------------------------
\* What is seen at a path: the latest mount at or above it.
Seen(ms) ==
  [p \in Places |->
     LET on == {i \in DOMAIN ms : Within(ms[i].to, p)}
     IN  IF on = {} THEN <<>> ELSE <<ms[Max(on)]>>]

Apart(m) == \A i, j \in DOMAIN m : i # j => ~Within(real[m[i].to], real[m[j].to])

\* What a request makes when nothing fails.
Made(m) ==
  LET One(v) == [to |-> real[v.to], flags |-> v.flags,
                 from |-> IF "cache" \in v.flags THEN NoPlace ELSE real[v.from]]
  IN  FoldLeft(LAMBDA ms, v : IF "cache" \in v.flags THEN Append(ms, One(v)) ELSE Bound(ms, One(v)),
               <<>>, m)

\* Nothing is ever mounted on a place that is closed to the request, also
\* not through links.  When all volumes are mounted, every path shows the
\* volume that was asked for last at or above it, no backing file is left,
\* and the caller is itself again.  A setup that fails leaves a backing file
\* only where making it, or removing it, failed.  Two requests with the same
\* signature make the same UDI, as long as no volume goes into another.
VolumesSound ==
  /\ \A i \in DOMAIN mounted : mounted[i].to \notin Closed[kind]
  /\ step = "ok" =>
       /\ euid = "root" /\ store = {}
       /\ \A i \in DOMAIN maps :
            (\A j \in i + 1 .. Len(maps) : ~Within(real[maps[j].to], real[maps[i].to]))
              => \E m \in Range(Seen(mounted)[real[maps[i].to]]) :
                   m.from = (IF "cache" \in maps[i].flags THEN NoPlace ELSE real[maps[i].from])
       /\ \A r \in Requests :
            LET m == parseVolumeMap(kind, r)
            IN  Apart(maps) /\ Signature(m) = Signature(maps) => Seen(Made(m)) = Seen(mounted)
  /\ step = "error" /\ store # {} =>
       store = {<<mapIdx, "empty">>} \/ Last(mounted) = Mount

\* "sort the volmaps to ensure different invocations of the same request are
\* seen as identical": and no others.
SignatureSame ==
  step = "ok" => \A r \in Requests :
    LET m == parseVolumeMap(kind, r)
    IN  Signature(m) = Signature(maps) => Seen(Made(m)) = Seen(mounted)
=============================================================================
