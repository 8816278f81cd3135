------------------------------- MODULE ImageDB -------------------------------
(***************************************************************************)
(* The documents of the gateway's Mongo collection "images"                *)
(* (imagegw/shifter_imagegw/imagemngr.py): their shape and the pure        *)
(* operators that read or rewrite one document.  A collection is a         *)
(* function from object ids (_id) to documents; an object id that is not   *)
(* in the collection maps to Absent.                                       *)
(*                                                                         *)
(* Clock values are kept only up to the thresholds the code compares them  *)
(* with:                                                                   *)
(*   last_pull       recent (< 10 s), fresh (<= pullupdatetimeout), stale  *)
(*   last_heartbeat  fresh (<= 3600 s), old                                *)
(*   expiration      future, past                                          *)
(* and "none" is a missing key.                                            *)
(***************************************************************************)
EXTENDS FiniteSets, Sequences

CONSTANTS
  Systems,   \* platforms of the configuration
  ITypes,    \* image types (docker, custom)
  Tags,      \* repository:tag names
  Images,    \* image ids a registry can hand out
  Files,     \* files that can be imported; a file's hash is its image id
  ACLs,      \* non-empty pairs of user and group lists a request can carry
  Public,    \* both lists empty
  Null,      \* both lists None, which is what an import stores
  NoImage,   \* no key 'id'
  NoFile,    \* no key 'filepath'
  NoName     \* a system, type or tag where there is no document

ASSUME ImageDBAssumption ==
  /\ NoImage \notin Images \cup Files
  /\ NoFile \notin Files
  /\ Public \notin ACLs
  /\ Null \notin ACLs \cup {Public}
  /\ NoName \notin Systems \cup ITypes \cup Tags

-----------------------------------------------------------------------------
(* Statuses.  The four words a pull goes through before READY are told     *)
(* apart by no guard; EXAMINATION and CONVERSION are covered by PULLING.   *)

Working  == {"PULLING", "HASHING", "TRANSFER"}
InFlight == {"INIT", "PENDING"} \cup Working
Status   == InFlight \cup {"READY", "FAILURE", "EXPIRING", "EXPIRED"}

ImageIds  == Images \cup Files
Access    == ACLs \cup {Public, Null}
PullAge   == {"none", "recent", "fresh", "stale"}
BeatAge   == {"none", "fresh", "old"}
ExpiryAge == {"none", "future", "past"}

Record ==
  [ status : Status, system : Systems, itype : ITypes, pulltag : Tags,
    tag : SUBSET Tags, id : ImageIds \cup {NoImage}, acl : Access,
    file : Files \cup {NoFile}, last_pull : PullAge,
    last_heartbeat : BeatAge, expiration : ExpiryAge ]

Absent ==
  [ status |-> "ABSENT", system |-> NoName, itype |-> NoName,
    pulltag |-> NoName, tag |-> {}, id |-> NoImage, acl |-> Null,
    file |-> NoFile, last_pull |-> "none", last_heartbeat |-> "none",
    expiration |-> "none" ]

Document == Record \cup {Absent}

Exists(d)  == d.status # "ABSENT"
IsReady(d) == d.status = "READY"

\* What a $set on one document does: nothing when the document is gone.
Assign(d, new) == IF Exists(d) THEN new ELSE d

-----------------------------------------------------------------------------
(* Queries.  r is a request: system, itype, tag, acl, file, op.  Here and   *)
(* below, a definition marked "Mistake" is a plausible bug in the one that *)
(* follows it; nothing uses it, and it shows which property would tell.    *)

\* The active image of a name: READY, and its tag list holds the tag.
IsActive(d, r) ==
  IsReady(d) /\ d.system = r.system /\ d.itype = r.itype /\ r.tag \in d.tag

\* Any document, whatever its status, that carries the tag.
Carries(d, r) ==
  Exists(d) /\ d.system = r.system /\ d.itype = r.itype /\ r.tag \in d.tag

\* Mistake: the published tags are searched, not the requested one.
RequestedByTag(d, r) ==
  Exists(d) /\ d.system = r.system /\ d.itype = r.itype /\ r.tag \in d.tag

\* A document created by a request for this name.
RequestedAs(d, r) ==
  Exists(d) /\ d.system = r.system /\ d.itype = r.itype /\ d.pulltag = r.tag

\* The query of new_pull_record: the whole request, with the access lists
\* of a pull or the file of an import.
SameRequest(d, r) ==
  /\ RequestedAs(d, r)
  /\ IF r.op = "import" THEN d.file = r.file ELSE d.acl = r.acl

\* Mistake: any pull is over after the update timeout.
PullableWhenStale(d) == ~Exists(d) \/ d.last_pull \in {"none", "stale"}

\* _pullable.
Pullable(d) ==
  \/ ~Exists(d)
  \/ d.status = "EXPIRED"
  \/ d.last_pull = "none"
  \/ d.status \in {"READY", "FAILURE"} /\ d.last_pull = "stale"
  \/ d.status # "READY" /\ d.last_heartbeat = "old"

-----------------------------------------------------------------------------
(* Updates.                                                                *)

\* Mistake: the requested tag is copied like the other parameters.
NewRecordWithTag(r) ==
  [ status |-> "INIT", system |-> r.system, itype |-> r.itype,
    pulltag |-> r.tag, tag |-> {r.tag, r.op}, id |-> NoImage, acl |-> r.acl,
    file |-> r.file, last_pull |-> "none", last_heartbeat |-> "none",
    expiration |-> "none" ]

\* The document new_pull_record inserts.
NewRecord(r) ==
  [ status |-> "INIT", system |-> r.system, itype |-> r.itype,
    pulltag |-> r.tag, tag |-> {}, id |-> NoImage, acl |-> r.acl,
    file |-> r.file, last_pull |-> "none", last_heartbeat |-> "none",
    expiration |-> "none" ]

\* update_mongo_state, with and without the heartbeat of a worker.
SetState(d, state) == Assign(d, [d EXCEPT !.status = state])
SetBeat(d, state)  ==
  Assign(d, [d EXCEPT !.status = state, !.last_heartbeat = "fresh"])

\* update_mongo(ident, {'last_pull': time()}).
Touch(d) == Assign(d, [d EXCEPT !.last_pull = "recent"])

\* Mistake: the id of the response is not among the keys that are mapped.
MakeReadyNoId(d, resp) ==
  Assign(d, [d EXCEPT !.status = "READY", !.acl = resp.acl,
                      !.last_pull = "recent"])

\* update_mongo(ident, response) with status READY.
MakeReady(d, resp) ==
  Assign(d, [d EXCEPT !.status = "READY", !.id = resp.id, !.acl = resp.acl,
                      !.last_pull = "recent"])

\* update_mongo(ident, {userACL, groupACL, private, last_pull}).
SetAccess(d, acl) == Assign(d, [d EXCEPT !.acl = acl, !.last_pull = "recent"])

\* _resetexpire.
ResetExpire(d) == Assign(d, [d EXCEPT !.expiration = "future"])

\* Mistake: the tag stays on the documents that have it.
KeepTag(d, system, tag) == d

\* The two updates of add_tag.
RemoveTag(d, system, tag) ==
  IF d.system = system THEN [d EXCEPT !.tag = @ \ {tag}] ELSE d
AddToSet(d, tag) == Assign(d, [d EXCEPT !.tag = @ \cup {tag}])
=============================================================================
