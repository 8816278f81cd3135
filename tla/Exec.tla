-------------------------------- MODULE Exec --------------------------------
(***************************************************************************)
(* The program shifter from its start to execvpe (main, parse_environment  *)
(* and parse_options in src/shifter.c; the environment, calculate_args and *)
(* the capabilities in src/shifter_core.c).  Finding and making the UDI is *)
(* one step here, which Udi has in full.                                   *)
(*                                                                         *)
(* An environment is a sequence of pairs <<name, value>> where a value is  *)
(* a sequence of words, joined by colons.                                  *)
(***************************************************************************)
EXTENDS Naturals, Sequences, FiniteSets, SequencesExt

CONSTANTS
  Outer,     \* environments that shifter is started in
  Options,   \* command lines: [image, modules, clearenv, env, envfile, args, useEntry, entrypoint]
  Contents,  \* images: [env, entry, cmd]
  SiteEnvs   \* what a module or the site does: [set, append, prepend, unset, hook]

NoArg == <<"none">>   \* of what is not given

ASSUME ExecAssumption ==
  /\ \A s \in SiteEnvs : {"set", "append", "prepend", "unset", "hook"} = DOMAIN s
  /\ \A o \in Options : o.clearenv \in BOOLEAN /\ o.useEntry \in BOOLEAN

VARIABLES
  outer, opts, content, site, mods,   \* what it is started with
  chosen,    \* the image, and the request that is passed on
  environ,   \* the environment of the process
  env,       \* environ_copy
  argv,      \* run_args
  who,       \* [root, groups, gid, uid, caps] of the process
  stage,
  ran        \* the hooks and the program that ran, and as whom

evars == <<outer, opts, content, site, mods, chosen, environ, env, argv, who, stage, ran>>

Node == [root |-> "node", groups |-> "root", gid |-> "root", uid |-> "root", caps |-> "all"]

ExecStart(e, o, i, s, m) ==
  /\ outer = e /\ opts = o /\ content = i /\ site = s /\ mods = m
  /\ chosen = [image |-> NoArg, request |-> NoArg]
  /\ environ = outer /\ env = outer
  /\ argv = <<>> /\ who = Node /\ stage = "options" /\ ran = <<>>

ExecInit ==
  \E e \in Outer, o \in Options, i \in Contents, s, m \in SiteEnvs : ExecStart(e, o, i, s, <<m>>)
-----------------------------------------------------------------------------
(* The environment.                                                        *)

Find(e, name) == SelectInSeq(e, LAMBDA x : x[1] = name)
Get(e, name)  == IF Find(e, name) = 0 THEN NoArg ELSE e[Find(e, name)][2]

\* Mistake: append and prepend are the other way round.
PutSwapped(e, var, mode) ==
  LET i == Find(e, var[1])
  IN  IF var[2] = <<>> THEN e
      ELSE IF i = 0 THEN Append(e, var)
      ELSE [e EXCEPT ![i][2] = CASE mode = "replace" -> var[2]
                                 [] mode = "append" -> var[2] \o @
                                 [] OTHER -> @ \o var[2]]

\* _shifter_putenv: an empty value is an error, which leaves all as it is.
Put(e, var, mode) ==
  LET i == Find(e, var[1])
  IN  IF var[2] = <<>> THEN e
      ELSE IF i = 0 THEN Append(e, var)
      ELSE [e EXCEPT ![i][2] = CASE mode = "replace" -> var[2]
                                 [] mode = "append" -> @ \o var[2]
                                 [] OTHER -> var[2] \o @]

\* _shifter_unsetenv: the last entry takes the place.
Unset(e, name) ==
  IF Find(e, name) = 0 THEN e ELSE Front([e EXCEPT ![Find(e, name)] = Last(e)])

PutAll(e, vars, mode) == FoldLeft(LAMBDA a, v : Put(a, v, mode), e, vars)

Changed(e, s) ==
  LET put == PutAll(PutAll(PutAll(e, s.set, "replace"), s.append, "append"), s.prepend, "prepend")
  IN  FoldLeft(Unset, put, s.unset)

\* shifter_setupenv.
SetupEnv(e) ==
  LET asked == PutAll(PutAll(PutAll(e, content.env, "replace"), opts.envfile, "replace"),
                      opts.env, "replace")
  IN  Changed(FoldLeft(Changed, asked, mods), site)

\* An empty value in the file or from the user ends shifter.
EnvBad == \E v \in ToSet(opts.envfile) \cup ToSet(opts.env) : v[2] = <<>>
-----------------------------------------------------------------------------
(* The program.                                                            *)

\* calculate_args: without entry point and command a shell, and the command
\* of the image only together with its entry point.
Args ==
  LET cmd   == IF opts.args # NoArg /\ opts.args # <<>> THEN opts.args
               ELSE IF content.cmd # NoArg /\ opts.entrypoint = NoArg THEN content.cmd ELSE <<>>
      entry == IF opts.entrypoint # NoArg THEN opts.entrypoint ELSE content.entry
  IN  IF opts.useEntry THEN (IF entry \in {NoArg, <<>>} THEN NoArg ELSE entry \o cmd)
      ELSE IF opts.args # NoArg THEN cmd
      ELSE IF Get(environ, "SHELL") # NoArg THEN Get(environ, "SHELL") ELSE <<"/bin/sh">>

Continue(l) == stage' = l /\ UNCHANGED <<outer, opts, content, site, mods>>

Exit == stage # "exec" /\ Continue("exit")

\* parse_environment, clearenv, parse_options: an image on the command line
\* comes first, then type and tag of the environment, then the request.
ParseOptions ==
  /\ stage = "options"
  /\ chosen' =
       LET request == IF opts.image # NoArg THEN opts.image ELSE Get(outer, "REQUEST")
       IN  [request |-> request,
            image |-> IF opts.image = NoArg /\ NoArg \notin {Get(outer, "TYPE"), Get(outer, "IMAGE")}
                        THEN Get(outer, "IMAGE") ELSE request]
  /\ environ' = <<>>
  /\ IF chosen'.image = NoArg \/ EnvBad THEN Exit ELSE Continue("args")
  /\ UNCHANGED <<env, argv, who, ran>>

\* The image is looked up and read, the program chosen, the caller
\* identified; any of it may fail.
CalculateArgs ==
  /\ stage = "args"
  /\ argv' = Args
  /\ \/ argv' # NoArg /\ Continue("load")
     \/ Exit
  /\ UNCHANGED <<chosen, environ, env, who, ran>>

\* isImageLoaded or loadImage, chdir, chroot, chdir.
Enter ==
  /\ stage = "load"
  /\ \/ who' = [who EXCEPT !.root = "udi"] /\ Continue("caps")
     \/ Exit /\ UNCHANGED who
  /\ UNCHANGED <<chosen, environ, env, argv, ran>>

\* shifter_set_capability_boundingset_null tries all, also after a failure.
DropCaps ==
  /\ stage = "caps"
  /\ \/ who' = [who EXCEPT !.caps = "none"] /\ Continue("groups")
     \/ who' = [who EXCEPT !.caps = "some"] /\ Exit
  /\ UNCHANGED <<chosen, environ, env, argv, ran>>

\* Only root may change its groups and become another.
Become(field, next) ==
  \/ who.uid = "root" /\ who' = [who EXCEPT ![field] = "user"] /\ Continue(next)
  \/ Exit /\ UNCHANGED who

DropUser ==
  /\ \/ stage = "groups" /\ Become("groups", "gid")
     \/ stage = "gid" /\ Become("gid", "uid")
     \/ stage = "uid" /\ Become("uid", "env")
  /\ UNCHANGED <<chosen, environ, env, argv, ran>>

SetupEnviron ==
  /\ stage = "env"
  /\ LET kept == IF opts.clearenv THEN <<>> ELSE env
         own  == (IF chosen.request = NoArg THEN <<>> ELSE << <<"REQUEST", chosen.request>> >>)
                   \o << <<"IMAGE", chosen.image>> >>
     IN  env' = SetupEnv(PutAll(kept, own, "replace"))
  /\ Continue("hooks")
  /\ UNCHANGED <<chosen, environ, argv, who, ran>>

\* The hooks of the modules run one after the other, the first failure ends
\* shifter.
Hooks ==
  /\ stage = "hooks"
  /\ LET due == SelectSeq(mods, LAMBDA s : s.hook)
     IN  \E n \in 0 .. Len(due) :
           /\ ran' = [i \in 1 .. n |-> [what |-> "hook", who |-> who, env |-> environ]]
           /\ IF n = Len(due) THEN Continue("run") ELSE Exit
  /\ UNCHANGED <<chosen, environ, env, argv, who>>

Run ==
  /\ stage = "run"
  /\ ran' = Append(ran, [what |-> argv, who |-> who, env |-> env])
  /\ Continue("exec")
  /\ UNCHANGED <<chosen, environ, env, argv, who>>

ExecNext ==
  \/ ParseOptions \/ CalculateArgs \/ Enter \/ DropCaps \/ DropUser
  \/ SetupEnviron \/ Hooks \/ Run
-----------------------------------------------------------------------------
Valued(vars, name) == SelectSeq(vars, LAMBDA v : v[1] = name /\ v[2] # <<>>)
Touches(s, name) ==
  name \in ToSet(s.unset) \/ \E v \in ToSet(s.set \o s.append \o s.prepend) : v[1] = name

\* By the documented order: the user, the file, the image, and the caller.
Precedence(name) ==
  LET all == (IF opts.clearenv THEN <<>> ELSE SelectSeq(outer, LAMBDA v : v[1] = name))
               \o Valued(content.env, name) \o Valued(opts.envfile, name) \o Valued(opts.env, name)
  IN  IF all = <<>> THEN NoArg ELSE Last(all)[2]

AsUser == [root |-> "udi", groups |-> "user", gid |-> "user", uid |-> "user", caps |-> "none"]

\* Hooks and the program run inside the UDI, as the user in every respect
\* and without capabilities.  A variable that no module and not the site
\* touches has the value of the highest in the documented order; of what
\* the site does, unset prevails over all, and a value it sets is between
\* what it prepends and appends, whatever the modules and the user did.
ExecRight ==
  /\ \A i \in DOMAIN ran : ran[i].who = AsUser
  /\ stage = "exec" => \A v \in ToSet(env) \cup {<<x, NoArg>> : x \in {"A", "B"}} :
       LET name  == v[1]
           value == Get(env, name)
           set   == Valued(site.set, name)
           of(q) == FlattenSeq([i \in DOMAIN Valued(q, name) |-> Valued(q, name)[i][2]])
       IN  /\ name \in ToSet(site.unset) => value = NoArg
           /\ ~Touches(site, name) /\ (\A s \in ToSet(mods) : ~Touches(s, name)) /\ name \notin {"REQUEST", "IMAGE"}
                => value = Precedence(name)
           /\ name \notin ToSet(site.unset) /\ set # <<>> =>
                value = of(Reverse(site.prepend)) \o Last(set)[2] \o of(site.append)

\* "Finally if nothing else is specified $SHELL or /bin/sh will be
\* attempted": $SHELL of the one who calls.
ShellFirst ==
  stage = "exec" /\ opts.args = NoArg /\ ~opts.useEntry /\ Get(outer, "SHELL") # NoArg =>
    Last(ran).what = Get(outer, "SHELL")
=============================================================================
