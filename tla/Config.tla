------------------------------- MODULE Config -------------------------------
(***************************************************************************)
(* udiRoot.conf: how its lines become settings (shifter_parseConfig in     *)
(* src/utility.c, _assign and the rest of src/UdiRootConfig.c) and how     *)
(* modules of the site are selected by default and by the user.            *)
(*                                                                         *)
(* A line is a record: key is what stands before the delimiter, NoKey      *)
(* without one and "#" in a comment; text is the word after it, and cont   *)
(* says that the line ends in a backslash.  A value is a sequence of       *)
(* words; the word <<k, t>> of a continuation line is "k=t".               *)
(***************************************************************************)
EXTENDS Naturals, Sequences, FiniteSets, SequencesExt

CONSTANTS
  Kind,         \* of every key: "single", "list", "conflict", "enabled", "default"
  ModuleOf,     \* the module that a key is about
  Required,     \* keys that validate_UdiRootConfig insists on
  NoKey,
  Files,        \* what a site means: sequences of entries [key, pieces]
  Selections    \* what users ask for

Keys    == DOMAIN Kind
Modules == {ModuleOf[k] : k \in DOMAIN ModuleOf}

ASSUME ConfigAssumption ==
  /\ Kind \in [Keys -> {"single", "list", "conflict", "enabled", "default"}]
  /\ {k \in Keys : Kind[k] \in {"conflict", "enabled"}} \subseteq DOMAIN ModuleOf
  /\ Required \subseteq {k \in Keys : Kind[k] = "single"}
  /\ NoKey \notin Keys \cup {"#"}

VARIABLES
  wanted,   \* the entries that are meant
  lines,    \* the file they are written to
  newline,  \* whether its last line ends in one
  pairs,    \* the keys and values given to _assign
  conf,     \* UdiRootConfig
  active,   \* active_modules
  rc        \* "none" before, then "ok" or "error"

cvars == <<wanted, lines, newline, pairs, conf, active, rc>>

Line(piece, cont) == [key |-> piece[1], text |-> piece[2], cont |-> cont]

\* An entry has its key in front of its first piece, and every line but the
\* last ends in a backslash.  A comment may follow the first line.
Written(entries, comment) ==
  FlattenSeq([e \in DOMAIN entries |->
    LET pieces == entries[e].pieces
        all == [i \in DOMAIN pieces |->
                  Line(IF i = 1 THEN <<entries[e].key, pieces[1][2]>> ELSE pieces[i], i < Len(pieces))]
    IN  IF comment THEN InsertAt(all, 2, Line(<<"#", "text">>, FALSE)) ELSE all])

Word(piece) == IF piece[1] = NoKey THEN <<piece[2]>> ELSE piece

Meant(entries) ==
  [e \in DOMAIN entries |->
     <<entries[e].key, [i \in DOMAIN entries[e].pieces |->
        IF i = 1 THEN <<entries[e].pieces[1][2]>> ELSE Word(entries[e].pieces[i])]>>]

NoConf == [single |-> [k \in {} |-> <<>>], list |-> [k \in Keys |-> <<>>],
           conflict |-> [m \in {} |-> <<>>], enabled |-> [m \in {} |-> TRUE],
           default |-> <<>>, rc |-> 0]

ConfigStart(entries, comment, nl) ==
  /\ wanted = entries
  /\ lines = Written(entries, comment)
  /\ newline = nl
  /\ pairs = <<>> /\ conf = NoConf /\ active = <<>> /\ rc = "none"

ConfigInit ==
  \E entries \in Files : \E comment, nl \in BOOLEAN : ConfigStart(entries, comment, nl)
-----------------------------------------------------------------------------
Words(value) == [i \in DOMAIN value |-> value[i][Len(value[i])]]

\* A module is there from the first key that names it.
Named(c, m) ==
  IF m \in DOMAIN c.enabled THEN c
  ELSE [c EXCEPT !.enabled = @ @@ (m :> TRUE), !.conflict = @ @@ (m :> <<>>)]

\* _assign and parse_ShifterModule_key: the last value of a setting counts,
\* lists grow, the conflicts of a module are replaced.
Assigned(c, key, value) ==
  IF key \notin Keys THEN [c EXCEPT !.rc = 2]
  ELSE LET m == ModuleOf[key]
       IN  CASE Kind[key] = "single" -> [c EXCEPT !.single = (key :> value) @@ @]
             [] Kind[key] = "list" -> [c EXCEPT !.list[key] = @ \o value]
             [] Kind[key] = "default" -> [c EXCEPT !.default = Words(value)]
             [] Kind[key] = "conflict" -> [Named(c, m) EXCEPT !.conflict[m] = Words(value)]
             [] OTHER -> [Named(c, m) EXCEPT !.enabled[m] = Head(Words(value)) # "0"]

\* One round of the loop of shifter_parseConfig.
Taken(s, l) ==
  LET key   == IF s.multiline THEN s.key ELSE l.key
      value == Append(s.value, IF s.multiline THEN Word(<<l.key, l.text>>) ELSE <<l.text>>)
  IN  CASE l.key = "#" \/ key = NoKey -> s
        [] l.key # "#" /\ key # NoKey /\ l.cont ->
             [s EXCEPT !.multiline = TRUE, !.key = key, !.value = value]
        [] OTHER ->
             [multiline |-> FALSE, key |-> NoKey, value |-> <<>>, pairs |-> Append(s.pairs, <<key, value>>)]

\* getline fails at the end of a file that ends in a newline, but nRead is
\* unsigned: the last line is taken once more as it was left in the buffer,
\* cut at the delimiter unless it continued a value.
LeftInBuffer(ls) ==
  LET l == Last(ls)
      continues == \E i \in DOMAIN ls : /\ i < Len(ls) /\ ls[i].cont
                                        /\ \A j \in i + 1 .. Len(ls) - 1 : ls[j].key = "#"
  IN  IF continues \/ l.key \in {"#", NoKey} THEN [l EXCEPT !.cont = FALSE]
      ELSE Line(<<NoKey, l.key>>, FALSE)

\* The pairs for assign_fp; the first one that it refuses ends the loop, which
\* is left to those who assign them.
shifter_parseConfig(ls, nl) ==
  FoldLeft(Taken, [multiline |-> FALSE, key |-> NoKey, value |-> <<>>, pairs |-> <<>>],
           IF nl THEN Append(ls, LeftInBuffer(ls)) ELSE ls).pairs

Assign(s, pair) ==
  IF s.obj.rc # 0 THEN s
  ELSE [pairs |-> Append(s.pairs, pair), obj |-> Assigned(s.obj, pair[1], pair[2])]
-----------------------------------------------------------------------------
\* Mistake: only the conflicts that the new module lists itself count.
ConflictingOneWay(c, now, m) == ToSet(c.conflict[m]) \cap ToSet(now) # {}

\* A conflict counts whichever of the two lists it.
Conflicting(c, now, m) ==
  \/ ToSet(c.conflict[m]) \cap ToSet(now) # {}
  \/ \E a \in ToSet(now) : m \in ToSet(c.conflict[a])

\* parse_selected_ShifterModule: what was active is dropped, and after an
\* error the modules before stay.
Selected(c, names) ==
  IF names = <<"none">> THEN [rc |-> 0, active |-> <<>>]
  ELSE FoldLeft(LAMBDA s, m :
         IF s.rc # 0 THEN s
         ELSE IF m \notin DOMAIN c.enabled \/ ~c.enabled[m] \/ Conflicting(c, s.active, m)
              THEN [s EXCEPT !.rc = -1]
         ELSE [s EXCEPT !.active = Append(@, m)],
         [rc |-> 0, active |-> <<>>], names)

\* ShifterModule_postprocessing: every conflict is a module.
Resolvable(c) == \A m \in DOMAIN c.conflict : ToSet(c.conflict[m]) \subseteq DOMAIN c.enabled

validate_UdiRootConfig(c) == \A k \in Required : k \in DOMAIN c.single

\* parse_UdiRootConfig, of a file that root owns and nobody else may write.
Load ==
  /\ rc = "none"
  /\ LET s == FoldLeft(Assign, [pairs |-> <<>>, obj |-> NoConf], shifter_parseConfig(lines, newline))
         c == s.obj
         d == IF c.default = <<>> THEN [rc |-> 0, active |-> <<>>] ELSE Selected(c, c.default)
     IN  /\ pairs' = s.pairs
         /\ conf' = c
         /\ active' = IF c.rc = 0 /\ Resolvable(c) THEN d.active ELSE <<>>
         /\ rc' = IF c.rc = 0 /\ Resolvable(c) /\ d.rc = 0 /\ validate_UdiRootConfig(c)
                    THEN "ok" ELSE "error"
  /\ UNCHANGED <<wanted, lines, newline>>

\* --module of shifter, or the option of the job.
Select(names) ==
  /\ rc = "ok"
  /\ LET s == Selected(conf, names)
     IN  active' = s.active /\ rc' = IF s.rc = 0 THEN "ok" ELSE "error"
  /\ UNCHANGED <<wanted, lines, newline, pairs, conf>>

ConfigNext == Load \/ \E names \in Selections : Select(names)
-----------------------------------------------------------------------------
\* Every value is given to _assign as it is meant, over however many lines,
\* with comments inside, and in order; a failure of the file is one of what
\* it means.  The exception is the last line of a file, when it is the end
\* of a longer value and has a delimiter: it is read again as a setting.
\* The modules in use are enabled and none is in conflict with another,
\* whichever of them says so and whichever was selected first.
ReadAgain ==
  newline /\ lines # <<>> /\ Last(lines).key # NoKey /\ Len(Last(wanted).pieces) > 1

ConfigSound ==
  /\ rc # "none" /\ ~ReadAgain => pairs = Meant(wanted)
  /\ rc # "none" => IsPrefix(Meant(wanted), pairs)
  /\ rc = "ok" => \A m \in ToSet(active) :
       /\ conf.enabled[m]
       /\ ToSet(conf.conflict[m]) \cap ToSet(active) \subseteq {m}

\* "check to see if value extends over multiple lines": the value, and no
\* more than the value.
ReadAsMeant == rc # "none" => pairs = Meant(wanted)
=============================================================================
