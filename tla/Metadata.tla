------------------------------ MODULE Metadata ------------------------------
(***************************************************************************)
(* The .meta file of an image, from the gateway that writes it (writemeta  *)
(* in converters.py) to the nodes that read it (src/ImageData.c): Python   *)
(* writes lists the way it prints them, and C reads lines, with the reader *)
(* of udiRoot.conf.                                                        *)
(*                                                                         *)
(* A string is one of four: "plain"; "quote", which has an apostrophe in   *)
(* it, so that Python prints it between double quotes; "slash", which ends *)
(* in a backslash; and "word", plain as well.  Who may use an image is     *)
(* decided twice: by the gateway for lookups (_checkread), and from the    *)
(* .meta file by shifter and setupRoot on the node.                        *)
(***************************************************************************)
EXTENDS Config

CONSTANTS
  Images,  \* [format, entry, cmd, workdir, env, private, users, groups]; Null where not given
  Uids, Gids

Null    == <<"null">>
Strings == {"plain", "word", "quote", "slash"}

ASSUME MetadataAssumption ==
  \A i \in Images : /\ i.entry = Null \/ i.entry \in Seq(Strings)
                    /\ i.cmd = Null \/ i.cmd \in Seq(Strings)
                    /\ i.env \in Seq(Strings) /\ i.workdir \in Strings \cup {"none"}
                    /\ i.private \in BOOLEAN
                    /\ i.users = Null \/ i.users \in Seq(Uids)
                    /\ i.groups = Null \/ i.groups \in Seq(Gids)

VARIABLES
  image,   \* what the registry says of the image
  meta,    \* the lines of its .meta file, once it is written
  data     \* ImageData

mvars == <<image, meta, data>>

NoData == [rc |-> 0, format |-> "none", entry |-> Null, cmd |-> Null, workdir |-> "none", env |-> <<>>,
           uids |-> {}, gids |-> {}]

MetadataStart(i) == image = i /\ meta = <<>> /\ data = NoData
MetadataInit     == \E i \in Images : MetadataStart(i)
-----------------------------------------------------------------------------
\* A line that ends in a backslash is continued, whoever wrote it.
MetaLine(key, text) == Line(<<key, text>>, text = "slash")

\* A list is one text; it ends in "]".
Given(key, list) == IF list \in {Null, <<>>} THEN <<>> ELSE <<Line(<<key, list>>, FALSE)>>

\* The lists of a private image; there may be nobody on one.
Access(key, i, ids) == IF i.private /\ ids # Null THEN <<Line(<<key, ids>>, FALSE)>> ELSE <<>>

writemeta(i) ==
  <<Line(<<"FORMAT", i.format>>, FALSE)>> \o Given("ENTRY", i.entry) \o Given("CMD", i.cmd)
    \o (IF i.workdir = "none" THEN <<>> ELSE <<MetaLine("WORKDIR", i.workdir)>>)
    \o Access("USERACL", i, i.users) \o Access("GROUPACL", i, i.groups)
    \o [e \in DOMAIN i.env |-> MetaLine("ENV", i.env[e])]

\* is_json_array wants the first string between apostrophes; then
\* split_json_array counts them: an odd number is an error, and an even one
\* more than that of the strings gives other strings.  Backslashes stay
\* doubled.
Split(list) ==
  LET quotes == Cardinality({i \in DOMAIN list : list[i] = "quote"})
  IN  CASE Head(list) = "quote" -> <<"whole">>
        [] Head(list) # "quote" /\ quotes % 2 = 1 -> Null
        [] Head(list) # "quote" /\ quotes % 2 = 0 /\ quotes > 0 -> <<"mixed">>
        [] OTHER -> [i \in DOMAIN list |-> IF list[i] = "slash" THEN "slashes" ELSE list[i]]

\* A value of one piece is a string or a list, one of several is joined.
Text(value) == IF Len(value) = 1 THEN value[1][Len(value[1])] ELSE "joined"

\* Mistake: ENV is kept once, like the other keys.
AssignedOnce(d, key, value) ==
  CASE key = "FORMAT"  -> [d EXCEPT !.format = Text(value)]
    [] key = "ENTRY"   -> [d EXCEPT !.entry = Split(Text(value)), !.rc = IF @ = 0 /\ Split(Text(value)) = Null THEN 1 ELSE @]
    [] key = "CMD"     -> [d EXCEPT !.cmd = Split(Text(value)), !.rc = IF @ = 0 /\ Split(Text(value)) = Null THEN 1 ELSE @]
    [] key = "WORKDIR" -> [d EXCEPT !.workdir = Text(value)]
    [] key = "USERACL" -> [d EXCEPT !.uids = ToSet(Text(value))]
    [] key = "GROUPACL" -> [d EXCEPT !.gids = ToSet(Text(value))]
    [] OTHER -> [d EXCEPT !.env = <<Text(value)>>]

\* _ImageData_assign: a key that it does not know is no error.
_ImageData_assign(d, key, value) ==
  CASE key = "FORMAT"  -> [d EXCEPT !.format = Text(value)]
    [] key = "ENTRY"   -> [d EXCEPT !.entry = Split(Text(value)), !.rc = IF Split(Text(value)) = Null THEN 1 ELSE 0]
    [] key = "CMD"     -> [d EXCEPT !.cmd = Split(Text(value)), !.rc = IF Split(Text(value)) = Null THEN 1 ELSE 0]
    [] key = "WORKDIR" -> [d EXCEPT !.workdir = Text(value)]
    [] key = "USERACL" -> [d EXCEPT !.uids = ToSet(Text(value))]
    [] key = "GROUPACL" -> [d EXCEPT !.gids = ToSet(Text(value))]
    [] key = "ENV"     -> [d EXCEPT !.env = Append(@, Text(value))]
    [] OTHER -> d

check_image_permissions(d, uid, gids) ==
  \/ d.uids = {} /\ d.gids = {}
  \/ uid \in d.uids \/ gids \cap d.gids # {}

WriteMeta ==
  /\ meta = <<>>
  /\ meta' = writemeta(image)
  /\ UNCHANGED <<image, data>>

\* parse_ImageData: with an error it returns without a filename.
ParseMeta ==
  /\ meta # <<>> /\ data = NoData
  /\ data' = FoldLeft(LAMBDA d, p : IF d.rc # 0 THEN d ELSE _ImageData_assign(d, p[1], p[2]),
                      NoData, shifter_parseConfig(meta, TRUE))
  /\ UNCHANGED <<image, meta>>

MetadataNext == WriteMeta \/ ParseMeta
-----------------------------------------------------------------------------
(* The gateway, which has the lists in its collection.                     *)

_checkread(i, uid, gids) ==
  \/ ~i.private
  \/ i.users = i.groups /\ i.users \in {Null, <<>>}
  \/ i.users # Null /\ uid \in ToSet(i.users)
  \/ i.groups # Null /\ gids \cap ToSet(i.groups) # {}
-----------------------------------------------------------------------------
Listed(list) == IF list = <<>> THEN Null ELSE list

Told == [rc |-> 0, format |-> image.format, entry |-> Listed(image.entry), cmd |-> Listed(image.cmd),
         workdir |-> image.workdir, env |-> image.env,
         uids |-> IF image.private /\ image.users # Null THEN ToSet(image.users) ELSE {},
         gids |-> IF image.private /\ image.groups # Null THEN ToSet(image.groups) ELSE {}]

Ordinary ==
  LET all == {image.workdir} \cup ToSet(image.env) \cup ToSet(image.entry) \cup ToSet(image.cmd)
  IN  all \cap {"quote", "slash"} = {}

\* The nodes know of an image what the registry says of it, in its order,
\* when no string in it has an apostrophe or ends in a backslash.  A string
\* with one does not get into the other keys: an apostrophe in a list spoils
\* that list, and a backslash the line it ends and the one after it.  When
\* that is not the line of a list, the nodes let those use the image whom
\* the gateway lets look it up, and no others.
MetaTold ==
  data # NoData =>
    /\ Ordinary => data = Told
    /\ data.format = image.format
    /\ data.rc = 0 /\ "slash" \notin {image.workdir} \cup ToSet(image.env) =>
         data.env = image.env /\ data.workdir = image.workdir
    /\ data.rc = 0 /\ image.workdir # "slash" =>
         \A uid \in Uids, gids \in SUBSET Gids :
           check_image_permissions(data, uid, gids) = _checkread(image, uid, gids)

\* Of every image.
MetaToldAll == data # NoData => data = Told
=============================================================================
