--------------------------------- MODULE Site ---------------------------------
(***************************************************************************)
(* What the site puts into a UDI (prepareSiteModifications and the         *)
(* functions it calls in src/shifter_core.c), what the image may add to    *)
(* its /etc, and the sshd that setupRoot starts in it.  Udi has the same   *)
(* steps without what is in them.                                          *)
(*                                                                         *)
(* The hooks of the site are external: one that runs before /etc is filled *)
(* may have made a file there.  A group is [name, password, gid, users],   *)
(* where password says that the field is not empty.                        *)
(***************************************************************************)
EXTENDS Naturals, Sequences, FiniteSets, SequencesExt

CONSTANT Preparations  \* [user, dynamic, etcPath, groups, max, spec, siteFs, imageEtc, key]

Mandatory == {"passwd", "group", "nsswitch.conf"}
NodeFiles     == {"hosts", "resolv.conf"}
MadeFiles      == {"mtab", "shadow", "host.conf", "group.orig", "ssh"}
EtcFiles  == Mandatory \cup NodeFiles \cup MadeFiles \cup {"motd", "big"}
SystemPlaces    == <<"proc", "sys", "dev", "tmp">>

ASSUME SiteAssumption ==
  \A p \in Preparations :
    /\ p.dynamic \in BOOLEAN /\ p.key \in BOOLEAN /\ p.max \in Nat
    /\ p.etcPath \cup p.imageEtc \subseteq EtcFiles
    /\ \A i \in DOMAIN p.spec : p.spec[i][2] \in Nat

VARIABLES
  prep,       \* what is asked for
  siteStep,   \* the next step, "ok", or "error"
  etc,        \* where every file of the UDI's /etc is from; "none": not there
  groupFile,  \* what is in its /etc/group
  hostsfile,  \* and in its /var/hostsfile
  onTop,      \* the mounts inside the UDI, the latest last: <<place, from>>
  sshConfig,  \* whom sshd_config allows, and whose key user_auth_keys has
  sshd        \* the child that becomes the sshd

svars == <<prep, siteStep, etc, groupFile, hostsfile, onTop, sshConfig, sshd>>

NoSshd == [root |-> "node", groups |-> "root", gid |-> "root", uid |-> "root", caps |-> "all", runs |-> FALSE]

SiteStart(p) ==
  /\ prep = p /\ siteStep = "prehook"
  /\ etc = [f \in EtcFiles |-> "none"]
  /\ groupFile = <<>> /\ hostsfile = <<>> /\ onTop = <<>>
  /\ sshConfig = [allow |-> "any", keys |-> "none"] /\ sshd = NoSshd

SiteInit == \E p \in Preparations : SiteStart(p)

NextStep(s) == siteStep' = s /\ UNCHANGED prep

\* Whatever fails ends in destructUDI, which may fail itself.
SiteUnclean ==
  /\ NextStep("error")
  /\ onTop' \in {<<>>, onTop}
  /\ UNCHANGED <<etc, groupFile, hostsfile, sshConfig, sshd>>

\* After the site's part a failure ends setupRoot.
GivesUp == NextStep("error") /\ UNCHANGED <<etc, groupFile, hostsfile, onTop, sshConfig, sshd>>
-----------------------------------------------------------------------------
\* The directories, then the hook before the mounts.
PreHook ==
  /\ siteStep = "prehook"
  /\ \/ \E f \in {{}} \cup {{x} : x \in EtcFiles} :
          etc' = [g \in EtcFiles |-> IF g \in f THEN "hook" ELSE "none"]
        /\ NextStep("sitefs")
        /\ UNCHANGED <<groupFile, hostsfile, onTop, sshConfig, sshd>>
     \/ SiteUnclean

\* setupVolumeMapMounts of siteFs and of the modules, and the hook between
\* them; Volumes has what is allowed.
SiteFs ==
  /\ siteStep = "sitefs"
  /\ \/ onTop' = [i \in DOMAIN prep.siteFs |-> <<prep.siteFs[i], "site">>]
        /\ NextStep("local")
        /\ UNCHANGED <<etc, groupFile, hostsfile, sshConfig, sshd>>
     \/ SiteUnclean

EtcIs(etcNow) == etc' = etcNow /\ UNCHANGED <<groupFile, hostsfile, onTop, sshConfig, sshd>>

FilledWith(files, from) == [f \in EtcFiles |-> IF f \in files THEN from ELSE etc[f]]

\* symlink and _shifterCore_copyFile, which tries twice, refuse what is
\* there; then none of the mandatory files may be there.
LocalFiles ==
  /\ siteStep = "local"
  /\ \/ /\ \A f \in NodeFiles \cup {"mtab"} \cup Mandatory : etc[f] = "none"
        /\ EtcIs([FilledWith(NodeFiles, "node") EXCEPT !.mtab = "made"])
        /\ NextStep("etc")
     \/ SiteUnclean

\* The files of etcPath are copied.
CopyEtc ==
  /\ siteStep = "etc" /\ ~prep.dynamic
  /\ \/ /\ \A f \in prep.etcPath : etc[f] = "none"
        /\ EtcIs(FilledWith(prep.etcPath, "site"))
        /\ NextStep("present")
     \/ SiteUnclean

\* Or they are made from what the node knows of the user (_import_user);
\* nsswitch.conf and host.conf have a text of their own.
MakeEtc ==
  /\ siteStep = "etc" /\ prep.dynamic
  /\ \/ EtcIs(FilledWith(Mandatory \cup {"host.conf"}, "made")) /\ NextStep("present")
     \/ SiteUnclean

\* /etc/shadow is emptied; the mandatory files get their owner and mode.
Present ==
  /\ siteStep = "present"
  /\ \/ /\ \A f \in Mandatory : etc[f] # "none"
        /\ EtcIs([etc EXCEPT !.shadow = "made"])
        /\ NextStep("group")
     \/ SiteUnclean

\* _import_user writes the groups of a user without members.
SiteGroups ==
  IF prep.dynamic THEN [i \in DOMAIN prep.groups |-> [prep.groups[i] EXCEPT !.users = <<>>]]
  ELSE prep.groups

\* The words of a line between colons and commas: strtok_r skips what is
\* empty.  strtoul of a name is 0.
Tokens(g) ==
  <<[text |-> g.name, number |-> 0]>>
    \o (IF g.password THEN <<[text |-> "x", number |-> 0]>> ELSE <<>>)
    \o <<[text |-> "", number |-> g.gid]>>
    \o [i \in DOMAIN g.users |-> [text |-> g.users[i], number |-> 0]]

\* The third word is the group id; the user is the name of the group, or a
\* word after the third.  The line is read no further than it must be.
Read3(ts, user) ==
  [gid   |-> IF Len(ts) < 3 THEN 0 ELSE ts[3].number,
   found |-> ts[1].text = user \/ \E i \in 4 .. Len(ts) : ts[i].text = user]

\* Mistake: one group too many.
EnoughAfter(found, max) == found > max

Enough(found, max) == found >= max

\* filterEtcGroup.  Its last round, when getline has failed and the line is
\* still there, writes nothing: of the line only the name is left.
filterEtcGroup(gs, user, max) ==
  LET One(s, g) ==
        LET r == Read3(Tokens(g), user)
            member == r.found /\ ~Enough(s.found, max)
        IN  IF r.gid = 0 THEN s
            ELSE [found |-> IF member THEN s.found + 1 ELSE s.found,
                  out   |-> Append(s.out, [name |-> g.name, gid |-> r.gid, member |-> member])]
  IN  FoldLeft(One, [found |-> 0, out |-> <<>>], gs).out

FilterGroup ==
  /\ siteStep = "group"
  /\ \/ /\ groupFile' = filterEtcGroup(SiteGroups, prep.user, prep.max)
        /\ etc' = [etc EXCEPT !["group.orig"] = etc["group"], !.group = "made"]
        /\ UNCHANGED <<hostsfile, onTop, sshConfig, sshd>>
        /\ NextStep("hosts")
     \/ SiteUnclean

\* writeHostFile: a count that is not a number, or 0, ends it.
HostLines(spec) == FlattenSeq([i \in DOMAIN spec |-> [n \in 1 .. spec[i][2] |-> spec[i][1]]])

WriteHostFile ==
  /\ siteStep = "hosts"
  /\ \/ /\ \A i \in DOMAIN prep.spec : prep.spec[i][2] # 0
        /\ hostsfile' = HostLines(prep.spec)
        /\ NextStep("system")
        /\ UNCHANGED <<etc, groupFile, onTop, sshConfig, sshd>>
     \/ SiteUnclean

\* /proc is mounted on what is there; the others, by bindMount, instead of
\* what the site mounted there.
SystemMounts ==
  /\ siteStep = "system"
  /\ \/ /\ onTop' = SelectSeq(onTop, LAMBDA m : m[1] \notin {"sys", "dev", "tmp"})
                      \o [i \in DOMAIN SystemPlaces |-> <<SystemPlaces[i], "node">>]
        /\ NextStep("image")
        /\ UNCHANGED <<etc, groupFile, hostsfile, sshConfig, sshd>>
     \/ SiteUnclean

\* bindImageIntoUDI of /etc: what is there is kept, and of the rest files
\* are copied that are not too big.
ImageEtc ==
  /\ siteStep = "image"
  /\ \/ /\ etc' = [f \in EtcFiles |->
                     IF f \in prep.imageEtc /\ etc[f] = "none" /\ f \notin {"big", "ssh"} THEN "image"
                     ELSE IF f = "ssh" /\ etc[f] = "none" THEN "made" ELSE etc[f]]
        /\ etc["ssh"] = "none"
        /\ NextStep(IF prep.key THEN "sshconfig" ELSE "ok")
        /\ UNCHANGED <<groupFile, hostsfile, onTop, sshConfig, sshd>>
     \/ GivesUp
-----------------------------------------------------------------------------
\* setupImageSsh: host keys, sshd_config for the user alone, and the key of
\* the job; then the ssh of the node instead of that of the image.
SetupImageSsh ==
  /\ siteStep = "sshconfig"
  /\ \/ /\ sshConfig' = [allow |-> prep.user, keys |-> "job"]
        /\ NextStep("groups")
     \/ /\ sshConfig' \in {sshConfig, [allow |-> prep.user, keys |-> "none"]}
        /\ NextStep("error")
  /\ UNCHANGED <<etc, groupFile, hostsfile, onTop, sshd>>

\* startSshd: the child looks up the groups outside, and then gives up all
\* that root has, in this order.
StartOrder == <<"groups", "chroot", "caps", "setgroups", "setgid", "setuid", "exec">>

NextOf(s) ==
  LET i == SelectInSeq(StartOrder, LAMBDA x : x = s)
  IN  IF i = Len(StartOrder) THEN "ok" ELSE StartOrder[i + 1]

\* Only root may change its groups and become another.
Relinquished(s) ==
  CASE s = "groups" -> sshd
    [] s = "chroot" -> [sshd EXCEPT !.root = "udi"]
    [] s = "caps" -> [sshd EXCEPT !.caps = "none"]
    [] s = "setgroups" -> [sshd EXCEPT !.groups = "user"]
    [] s = "setgid" -> [sshd EXCEPT !.gid = "user"]
    [] s = "setuid" -> [sshd EXCEPT !.uid = "user"]
    [] OTHER -> [sshd EXCEPT !.runs = TRUE]

StartSshd ==
  /\ siteStep \in ToSet(StartOrder)
  /\ UNCHANGED <<etc, groupFile, hostsfile, onTop, sshConfig>>
  /\ \/ /\ siteStep \in {"setgroups", "setgid"} => sshd.uid = "root"
        /\ sshd' = Relinquished(siteStep)
        /\ NextStep(NextOf(siteStep))
     \/ NextStep("error") /\ UNCHANGED sshd

SiteNext ==
  \/ PreHook \/ SiteFs \/ LocalFiles \/ CopyEtc \/ MakeEtc \/ Present
  \/ FilterGroup \/ WriteHostFile \/ SystemMounts \/ ImageEtc
  \/ SetupImageSsh \/ StartSshd
-----------------------------------------------------------------------------
IsMember(g) == g.name = prep.user \/ prep.user \in ToSet(g.users)
NewUser == [root |-> "udi", groups |-> "user", gid |-> "user", uid |-> "user", caps |-> "none", runs |-> TRUE]

\* When the site's part is over, users and groups are those of the site (or
\* of the node), whatever its hooks have made and the image has there, and
\* nobody has a password.  /etc/group has every group that has a password
\* field and is not that of root, in order, and the user in the first of his
\* groups, as many as maxGroupCount says.  /var/hostsfile has as many lines
\* for a host as asked for; /proc, /sys, /dev and /tmp are those of the node,
\* whatever the site mounted there.  An sshd runs only for a job with a key,
\* in the UDI, for the user alone and as the user.
SiteSound ==
  /\ siteStep \in {"image", "sshconfig", "ok"} \cup ToSet(StartOrder) =>
       /\ \A f \in {"passwd", "group.orig", "nsswitch.conf"} :
            etc[f] = IF prep.dynamic THEN "made" ELSE "site"
       /\ etc["group"] = "made" /\ etc["shadow"] = "made" /\ \A f \in NodeFiles : etc[f] = "node"
       /\ LET kept == SelectSeq(SiteGroups, LAMBDA g : g.password /\ g.gid # 0)
          IN  /\ Len(groupFile) = Len(kept)
              /\ \A i \in DOMAIN kept :
                   /\ groupFile[i].name = kept[i].name /\ groupFile[i].gid = kept[i].gid
                   /\ groupFile[i].member <=>
                        IsMember(kept[i]) /\ Cardinality({j \in 1 .. i : IsMember(kept[j])}) =< prep.max
       /\ \A i \in DOMAIN prep.spec :
            Cardinality({n \in DOMAIN hostsfile : hostsfile[n] = prep.spec[i][1]}) >= prep.spec[i][2]
       /\ \A i \in DOMAIN onTop :
            onTop[i][2] = "site" =>
              onTop[i][1] \notin ToSet(SystemPlaces) \/ \E j \in i + 1 .. Len(onTop) : onTop[j] = <<onTop[i][1], "node">>
  /\ sshd.runs => prep.key /\ sshd = NewUser /\ sshConfig = [allow |-> prep.user, keys |-> "job"]

\* "maximum number of groups to write out for user, 0 for unlimited"
Unlimited ==
  siteStep = "ok" /\ prep.max = 0 =>
    \A i \in DOMAIN groupFile :
      (\E g \in ToSet(SiteGroups) : g.name = groupFile[i].name /\ IsMember(g)) => groupFile[i].member

\* "Stub entries for all remaining groups will be added": of all groups.
AllGroups ==
  siteStep = "ok" => Len(groupFile) = Len(SiteGroups)

\* "copy image /etc into place": all of it that the site has not.
EtcWhole == siteStep = "ok" => \A f \in prep.imageEtc : etc[f] # "none"
=============================================================================
