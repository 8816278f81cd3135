----------------------------- MODULE MCLibrary -----------------------------
(***************************************************************************)
(* The components that work alone, each with an instance for TLC: in a     *)
(* behaviour one of them, part, takes steps and the others stay as they    *)
(* started, so that the states of all add up.                              *)
(***************************************************************************)
EXTENDS Layers, Login, MountList, PathList, Metadata, Volumes, Exec, Job, ChildLog, Site, TLC

\* Layers: three paths, each below the one before, and one whiteout in a
\* layer at most: of two the upper one hides all that the lower one hides.
MCPaths == {<<"a">>, <<"a", "b">>, <<"a", "b", "c">>}

\* MountList: a name that begins like another, and one below another.
MCDirs   == {"a", "a_b", "a/b", "c"}
MCRank   == "a" :> 1 @@ "a/b" :> 2 @@ "a_b" :> 3 @@ "c" :> 4
MCBelow  == {<<d, d>> : d \in MCDirs} \cup {<<"a", "a/b">>}
MCPrefix == MCBelow \cup {<<"a", "a_b">>}

\* PathList: links up and down, absolute ones, and ones to themselves.
MCNodes   == {<<"a">>, <<"b">>, <<"a", "a">>, <<"a", "b">>, <<"a", "a", "b">>}
V(abs, items) == [absolute |-> abs, items |-> items]
MCValues  == {V(TRUE, <<"a">>), V(FALSE, <<"b">>), V(FALSE, <<"a", "b">>), V(FALSE, <<Up, "b">>),
              V(FALSE, <<Up>>), V(TRUE, <<"b", "b">>)}
MCSources == {<<"a", "b">>, <<"b">>, <<"a", "a", "b">>, <<"b", Up, "a">>, <<"b", "b">>}

\* Config: values of one or two lines, the second with a delimiter or not;
\* and two modules, with an enabled flag and conflicts, and one that is not.
Setting(key, pieces) == [key |-> key, pieces |-> pieces]
MCNoKey      == "-"
Plain(word)  == <<MCNoKey, word>>
MCKind       == "udiMount" :> "single" @@ "siteEnv" :> "list" @@ "defaultModules" :> "default"
             @@ "m_conflict" :> "conflict" @@ "n_conflict" :> "conflict"
             @@ "m_enabled" :> "enabled" @@ "n_enabled" :> "enabled"
MCModuleOf   == "m_conflict" :> "m" @@ "m_enabled" :> "m" @@ "n_conflict" :> "n" @@ "n_enabled" :> "n"
             @@ "udiMount" :> "-" @@ "siteEnv" :> "-" @@ "defaultModules" :> "-"
MCSettings   == {Setting(k, p) : k \in {"udiMount", "siteEnv"},
                   p \in {<<Plain("x")>>, <<Plain("x"), Plain("x")>>, <<Plain("x"), <<"A", "x">>>>}}
MCOfModules  == {Setting(k, <<Plain(w)>>) : k \in {"m_enabled", "n_enabled"}, w \in {"0", "1"}}
             \cup {Setting("m_conflict", <<Plain("n")>>), Setting("n_conflict", <<Plain("m")>>),
                   Setting("defaultModules", <<Plain("m")>>),
                   Setting("defaultModules", <<Plain("n"), Plain("m")>>)}
MCFiles      == UNION {[1..n -> MCSettings] : n \in 1..3}
             \cup {<<Setting("udiMount", <<Plain("x")>>)>> \o f :
                     f \in UNION {[1..n -> MCOfModules] : n \in 1..3}}
MCSelections == {<<"none">>, <<"m">>, <<"n">>, <<"m", "n">>, <<"n", "m">>, <<"m", "o">>}

\* Metadata: every kind of string in every key.
Lists    == {Null} \cup UNION {[1..n -> Strings] : n \in 0..2}
\* A request has both lists or none.
MCAccess == {<<Null, Null>>, <<<<>>, <<>>>>, <<<<"u1">>, <<>>>>, <<<<>>, <<"g1">>>>, <<<<"u1", "u2">>, <<"g1">>>>}
MCImages == [format : {"squashfs"}, entry : Lists, cmd : {Null, <<"plain", "quote", "quote">>, <<"word", "slash">>},
             workdir : {"none", "plain", "slash"},
             env : UNION {[1..n -> {"plain", "word", "slash"}] : n \in 0..2},
             private : {FALSE}, users : {Null}, groups : {Null}]
         \cup {[format |-> "squashfs", entry |-> e, cmd |-> Null, workdir |-> w, env |-> v,
                private |-> p, users |-> a[1], groups |-> a[2]] :
                  e \in {Null, <<"quote">>}, w \in {"none", "plain", "slash"}, v \in {<<>>, <<"slash">>},
                  p \in BOOLEAN, a \in MCAccess}

\* Volumes: a place below another, one that is closed.
MCPlaces     == {"x", "xy", "etc"}
MCBelowPlace == {<<p, p>> : p \in MCPlaces} \cup {<<"x", "xy">>}
MCClosed     == "user" :> {"etc"} @@ "site" :> {"etc"}
MCNoPlace    == "-"
Vol(from, to, flags) == [from |-> from, to |-> to, flags |-> flags]
MCVols       == {Vol("x", "xy", <<>>), Vol("xy", "x", <<"ro">>), Vol("xy", "-", <<"slave">>),
                 Vol("x", "x", <<"cache", "ro">>), Vol("xy", "etc", <<>>), Vol("x", "xy", <<"ro", "ro">>)}
MCRequests   == UNION {[1..n -> MCVols] : n \in 1..3}

\* Exec: variables that the caller, the user, a file, the image and the site
\* set, empty values, and a variable that the image only leaves empty.
Set(n, w) == <<n, <<w>>>>
MCOuter   == {<<Set("A", "o"), Set("SHELL", "zsh"), Set("REQUEST", "r")>>,
              <<Set("TYPE", "id"), Set("IMAGE", "i"), Set("B", "o")>>, <<>>}
Opt(img, clearenv, e, file, args, use, entrypoint) ==
  [image |-> img, clearenv |-> clearenv, env |-> e, envfile |-> file, args |-> args,
   useEntry |-> use, entrypoint |-> entrypoint]
MCOptions ==
  {Opt(NoArg, FALSE, <<>>, <<>>, args, use, entry) :
     args \in {NoArg, <<"ls">>}, use \in BOOLEAN, entry \in {NoArg, <<"e">>}}
  \cup {Opt(<<"img">>, clear, e, file, <<"ls">>, FALSE, NoArg) :
          clear \in BOOLEAN, e \in {<<>>, <<Set("A", "u")>>},
          file \in {<<>>, <<Set("B", "f")>>, << <<"A", <<>>>> >>}}
MCContents == [env : {<<>>, <<Set("A", "i"), <<"B", <<>>>>>>}, entry : {NoArg, <<"entry">>}, cmd : {<<"cmd">>}]
Changes(set, append, prepend, unset, hook) ==
  [set |-> set, append |-> append, prepend |-> prepend, unset |-> unset, hook |-> hook]
MCSiteEnvs == {Changes(<<>>, <<>>, <<>>, <<>>, FALSE), Changes(<<>>, <<>>, <<>>, <<"A">>, FALSE),
               Changes(<<Set("A", "s")>>, <<Set("A", "t"), Set("B", "t")>>, <<Set("A", "p"), Set("A", "q")>>, <<>>, TRUE)}

\* Job: tasks in ccm mode and in an image, two jobs on a node.
Req(img, ccm, volume) == [image |-> img, ccm |-> ccm, volume |-> volume]
MCJobRequests == {Req("none", FALSE, FALSE), Req("tag", FALSE, TRUE), Req("none", TRUE, FALSE), Req("tag", TRUE, FALSE)}
MCPlugins     == [memory : BOOLEAN, extern : BOOLEAN, sshd : {TRUE}]

\* ChildLog: every order of lines, three times what a pipe holds.
MCPrograms == UNION {[1..n -> {"out", "err"}] : n \in 0..6}

\* Site: groups of the user by name and by list, one of root, one without a
\* password; a limit that is reached, just so and not; what the site mounts
\* where the node's own mounts go.
Grp(name, password, gid, users) == [name |-> name, password |-> password, gid |-> gid, users |-> users]
MCGroups == {Grp("u", TRUE, 1, <<>>), Grp("g", TRUE, 2, <<"v", "u">>), Grp("h", TRUE, 3, <<"u", "u">>),
             Grp("n", FALSE, 4, <<"u">>), Grp("root", TRUE, 0, <<"u">>)}
Prep(dynamic, groups, max, key, rest) ==
  [user |-> "u", dynamic |-> dynamic, groups |-> groups, max |-> max, key |-> key,
   etcPath |-> rest[1], imageEtc |-> rest[2], siteFs |-> rest[3], spec |-> rest[4]]
MCPreparations ==
  {Prep(FALSE, g, n, FALSE, <<Mandatory, {}, <<>>, <<>>>>) :
     g \in UNION {[1..m -> MCGroups] : m \in 0..3}, n \in 0..2}
  \cup {Prep(d, <<Grp("u", TRUE, 1, <<>>)>>, 1, k, <<e, i, m, h>>) :
          d, k \in BOOLEAN, e \in {Mandatory, Mandatory \cup {"shadow", "motd"}, {"passwd"}, Mandatory \cup {"hosts"}},
          i \in {{"passwd", "motd", "shadow", "big"}}, m \in {<<>>, <<"tmp", "proc">>},
          h \in {<<>>, << <<"a", 2>>, <<"b", 1>> >>, << <<"a", 0>> >>}}
-----------------------------------------------------------------------------
CONSTANT Parts   \* the parts that are looked at
VARIABLE part

libvars == <<part, vars, lvars, mlvars, plvars, cvars, mvars, vvars, evars, jvars, chvars, svars>>

\* Layers without an image.
NoLayers ==
  /\ eldest = <<>> /\ child = 1 /\ layer_paths = <<>> /\ tar_file_refs = <<>>
  /\ layer_idx = 0 /\ tree = Empty /\ pc = "read"

\* Every part is as it starts; those that stay are all alike.
LibInit ==
  /\ part \in Parts
  /\ IF part = "layers" THEN Init ELSE NoLayers
  /\ \A i \in DOMAIN eldest : Cardinality(eldest[i].whiteouts) =< 1
  /\ LoginInit
  /\ IF part = "mounts" THEN MountListInit ELSE MountListStart(<<>>)
  /\ IF part = "path" THEN PathListInit ELSE PathListStart([n \in Nodes |-> Nil], <<>>)
  /\ IF part = "config" THEN ConfigInit ELSE ConfigStart(<<>>, FALSE, FALSE)
  /\ IF part = "meta" THEN MetadataInit ELSE MetadataStart([format |-> "none", entry |-> Null,
                                     cmd |-> Null, workdir |-> "none", env |-> <<>>,
                                     private |-> FALSE, users |-> Null, groups |-> Null])
  /\ IF part = "volumes" THEN VolumesInit ELSE VolumesStart("user", <<>>, [p \in Places |-> p])
  /\ IF part = "exec" THEN ExecInit
     ELSE ExecStart(<<>>, [image |-> NoArg], [env |-> <<>>], [hook |-> FALSE], <<>>)
  /\ IF part = "job" THEN JobInit ELSE JobStart([memory |-> FALSE, extern |-> FALSE, sshd |-> FALSE])
  /\ IF part = "childlog" THEN ChildLogInit ELSE ChildLogStart(<<>>)
  /\ IF part = "site" THEN SiteInit
     ELSE SiteStart([user |-> "u", dynamic |-> TRUE, groups |-> <<>>, max |-> 0, key |-> FALSE,
                     etcPath |-> {}, imageEtc |-> {}, siteFs |-> <<>>, spec |-> <<>>])

LibNext ==
  \/ part = "layers" /\ Next
     /\ UNCHANGED <<part, lvars, mlvars, plvars, cvars, mvars, vvars, evars, jvars, chvars, svars>>
  \/ part = "login" /\ LoginNext
     /\ UNCHANGED <<part, vars, mlvars, plvars, cvars, mvars, vvars, evars, jvars, chvars, svars>>
  \/ part = "mounts" /\ MountListNext
     /\ UNCHANGED <<part, vars, lvars, plvars, cvars, mvars, vvars, evars, jvars, chvars, svars>>
  \/ part = "path" /\ PathListNext
     /\ UNCHANGED <<part, vars, lvars, mlvars, cvars, mvars, vvars, evars, jvars, chvars, svars>>
  \/ part = "config" /\ ConfigNext
     /\ UNCHANGED <<part, vars, lvars, mlvars, plvars, mvars, vvars, evars, jvars, chvars, svars>>
  \/ part = "meta" /\ MetadataNext
     /\ UNCHANGED <<part, vars, lvars, mlvars, plvars, cvars, vvars, evars, jvars, chvars, svars>>
  \/ part = "volumes" /\ VolumesNext
     /\ UNCHANGED <<part, vars, lvars, mlvars, plvars, cvars, mvars, evars, jvars, chvars, svars>>
  \/ part = "exec" /\ ExecNext
     /\ UNCHANGED <<part, vars, lvars, mlvars, plvars, cvars, mvars, vvars, jvars, chvars, svars>>
  \/ part = "job" /\ JobNext
     /\ UNCHANGED <<part, vars, lvars, mlvars, plvars, cvars, mvars, vvars, evars, chvars, svars>>
  \/ part = "childlog" /\ ChildLogNext
     /\ UNCHANGED <<part, vars, lvars, mlvars, plvars, cvars, mvars, vvars, evars, jvars, svars>>
  \/ part = "site" /\ SiteNext
     /\ UNCHANGED <<part, vars, lvars, mlvars, plvars, cvars, mvars, vvars, evars, jvars, chvars>>

LibSpec == LibInit /\ [][LibNext]_libvars
=============================================================================
