------------------------------ MODULE Registry ------------------------------
(***************************************************************************)
(* The client of a docker registry and the cache of layers                 *)
(* (imagegw/shifter_imagegw/dockerv2.py, DockerV2Handle).  Each thread     *)
(* pulls one image after the other with a handle of its own; all share     *)
(* CacheDirectory, where a layer is the file <blobSum>.tar.                *)
(*                                                                         *)
(* One action is one exchange with the registry or one operation on the    *)
(* cache.  The registry is external: it wants a token for everything, and  *)
(* one made with credentials for what is private.                          *)
(***************************************************************************)
EXTENDS Naturals, Sequences

CONSTANTS
  Threads,
  Images, Private,   \* the images of the registry, and the private ones
  Blobs, Manifest,   \* the layers of each image, from the eldest
  Damaged,           \* layers whose file in the cache is damaged at first
  Events             \* what may happen: "expire", a token does; "error", an
                     \* exchange fails; "redirect", blobs are elsewhere;
                     \* "truncate", a connection ends early

ASSUME RegistryAssumption ==
  /\ Private \subseteq Images
  /\ Manifest \in [Images -> Seq(Blobs)]
  /\ Damaged \subseteq Blobs
  /\ Events \subseteq {"expire", "error", "redirect", "truncate"}

VARIABLES
  handle,    \* the DockerV2Handle of each thread, and how far it is
  cache      \* the file of each layer in CacheDirectory

vars == <<handle, cache>>

\* A partial download is under another name until its checksum is right.
File  == {"none", "good", "bad"}
\* What a request is sent with: no token, one got without or with
\* credentials, or one that is no longer accepted.
Token == {"none", "anonymous", "user", "expired"}

Idle == [pc |-> "idle"]

Init ==
  /\ handle = [t \in Threads |-> Idle]
  /\ cache \in [Blobs -> File]
  /\ \A b \in Blobs : cache[b] = "bad" <=> b \in Damaged
-----------------------------------------------------------------------------
(* The registry.                                                           *)

Accepts(image, headers) ==
  headers = "user" \/ (headers = "anonymous" /\ image \notin Private)

\* What it may answer to a request for a token: one that goes with the
\* credentials, one for everybody, or a refusal.
Grants(basic) ==
  CASE basic = "none"    -> {"anonymous"}
    [] basic = "proper"  -> {"user"}
    [] basic = "garbled" -> {"anonymous", "refused"}

\* do_token_auth formats the bytes that b64encode returns: the header reads
\* Basic b'...', which is no encoding of the credentials.
BasicHeader(username) == IF username THEN "garbled" ELSE "none"

To(t, pc)  == handle' = [handle EXCEPT ![t].pc = pc]
Here(t)    == Head(handle[t].layers)

\* An exchange that may fail.
May(event) == event \in Events

\* __init__.
Open(t) ==
  /\ handle[t] = Idle
  /\ \E image \in Images, username \in BOOLEAN :
       handle' = [handle EXCEPT ![t] =
         [ pc |-> "manifest", image |-> image, username |-> username,
           private |-> FALSE, token |-> "none", headers |-> "none",
           layers |-> <<>>, there |-> FALSE ]]
  /\ UNCHANGED cache

\* The first request has no token; the registry says where to get one.
GetManifest(t) ==
  /\ handle[t].pc = "manifest"
  /\ \/ To(t, "anonymous")
     \/ May("error") /\ To(t, "raised")
  /\ UNCHANGED cache

\* do_token_auth without credentials.
TokenAnonymous(t) ==
  /\ handle[t].pc = "anonymous"
  /\ \/ handle' = [handle EXCEPT ![t].pc = "anonymousretry",
                                 ![t].token = "anonymous"]
     \/ May("error") /\ To(t, "raised")
  /\ UNCHANGED cache

\* get_image_manifest(retrying): a refusal is an exception.
Retry(t, refused) ==
  LET headers == handle[t].token IN
  /\ \/ /\ Accepts(handle[t].image, headers)
        /\ LET layers == Manifest[handle[t].image] IN
           handle' = [handle EXCEPT ![t].headers = headers,
             ![t].layers = layers,
             ![t].pc = IF layers = <<>> THEN "extract" ELSE "exists"]
     \/ /\ ~Accepts(handle[t].image, headers) \/ May("error")
        /\ handle' = [handle EXCEPT ![t].pc = refused,
                                    ![t].headers = headers]
  /\ UNCHANGED cache

RetryAnonymous(t) ==
  handle[t].pc = "anonymousretry" /\ Retry(t, "credentials")

\* do_token_auth with credentials, if there are any.
TokenUser(t) ==
  /\ handle[t].pc = "credentials"
  /\ \/ \E answer \in Grants(BasicHeader(handle[t].username)) :
          IF answer = "refused"
          THEN To(t, "raised")
          ELSE handle' = [handle EXCEPT ![t].pc = "userretry",
                 ![t].private = handle[t].username, ![t].token = answer]
     \/ May("error") /\ To(t, "raised")
  /\ UNCHANGED cache

RetryUser(t) == handle[t].pc = "userretry" /\ Retry(t, "raised")
-----------------------------------------------------------------------------
(* save_layer, for each layer in turn.                                     *)

NextLayer(t) ==
  handle' = [handle EXCEPT ![t].layers = Tail(@), ![t].there = FALSE,
    ![t].pc = IF Len(handle[t].layers) = 1 THEN "extract" ELSE "exists"]

\* Mistake: a file under the name is taken as it is.
ExistsUnchecked(t) ==
  /\ handle[t].pc = "exists"
  /\ IF cache[Here(t)] = "none" THEN To(t, "request") ELSE NextLayer(t)
  /\ UNCHANGED cache

Exists(t) ==
  /\ handle[t].pc = "exists"
  /\ To(t, IF cache[Here(t)] = "none" THEN "request" ELSE "check")
  /\ UNCHANGED cache

\* check_layer_checksum of the file; one that has gone has no checksum.
Check(t) ==
  /\ handle[t].pc = "check"
  /\ IF cache[Here(t)] = "good" THEN NextLayer(t) ELSE To(t, "unlink")
  /\ UNCHANGED cache

Unlink(t) ==
  /\ handle[t].pc = "unlink"
  /\ To(t, IF cache[Here(t)] = "none" THEN "raised" ELSE "request")
  /\ cache' = [cache EXCEPT ![Here(t)] = "none"]

\* Mistake: the address a redirection gave is not kept.
RequestForgets(t) ==
  /\ handle[t].pc = "request"
  /\ \/ /\ Accepts(handle[t].image, handle[t].headers)
        /\ To(t, "download") \/ (May("redirect") /\ To(t, "exists"))
     \/ May("error") /\ (NextLayer(t) \/ To(t, "raised"))
  /\ UNCHANGED cache

\* The request for a layer.  After a redirection, and after a token was
\* got, the loop begins again; the headers stay as they are.  A layer that
\* cannot be had is passed over.
Request(t) ==
  LET accepted == handle[t].there \/ Accepts(handle[t].image, handle[t].headers)
  IN
  /\ handle[t].pc = "request"
  /\ \/ accepted /\ To(t, "download")
     \/ /\ May("redirect") /\ accepted /\ ~handle[t].there
        /\ handle' = [handle EXCEPT ![t].there = TRUE, ![t].pc = "exists"]
     \/ /\ ~accepted
        /\ handle' = [handle EXCEPT ![t].token = "anonymous",
                                    ![t].pc = "exists"]
     \/ May("error") /\ (NextLayer(t) \/ To(t, "raised"))
  /\ UNCHANGED cache

\* Into a temporary file, whose checksum must be right.  read() of a
\* connection that has ended returns nothing, for ever.
Download(t) ==
  /\ handle[t].pc = "download"
  /\ \/ To(t, "rename")
     \/ May("error") /\ To(t, "raised")
     \/ May("truncate") /\ To(t, "reading")
  /\ UNCHANGED cache

\* Mistake: the temporary file gets its name before it is checked.
RenameUnchecked(t) ==
  /\ handle[t].pc = "rename"
  /\ \E file \in {"good", "bad"} : cache' = [cache EXCEPT ![Here(t)] = file]
  /\ NextLayer(t)

Rename(t) ==
  /\ handle[t].pc = "rename"
  /\ cache' = [cache EXCEPT ![Here(t)] = "good"]
  /\ NextLayer(t)

\* extract_docker_layers opens the files of all layers.
Extract(t) ==
  /\ handle[t].pc = "extract"
  /\ LET layers == Manifest[handle[t].image] IN
       To(t, IF \E k \in 1..Len(layers) : cache[layers[k]] = "none"
             THEN "raised" ELSE "done")
  /\ UNCHANGED cache

\* The request is over, and the handle gone.
Close(t) ==
  /\ handle[t].pc \in {"done", "raised"}
  /\ handle' = [handle EXCEPT ![t] = Idle]
  /\ UNCHANGED cache

\* Tokens are good for some minutes.
Expire(t) ==
  /\ May("expire")
  /\ handle[t] # Idle
  /\ handle[t].headers \in {"anonymous", "user"}
  /\ handle' = [handle EXCEPT ![t].headers = "expired"]
  /\ UNCHANGED cache

PullStep(t) ==
  \/ GetManifest(t) \/ TokenAnonymous(t) \/ RetryAnonymous(t)
  \/ TokenUser(t) \/ RetryUser(t)
  \/ Exists(t) \/ Check(t) \/ Unlink(t) \/ Request(t) \/ Download(t)
  \/ Rename(t) \/ Extract(t) \/ Close(t)

Next == \E t \in Threads : Open(t) \/ PullStep(t) \/ Expire(t)

Spec == Init /\ [][Next]_vars

\* A thread that can go on does, and exchanges with the registry end.
FairSpec == Spec /\ \A t \in Threads : WF_vars(PullStep(t))
-----------------------------------------------------------------------------
Handles ==
  [ pc : {"manifest", "anonymous", "anonymousretry", "credentials",
          "userretry", "exists", "check", "unlink", "request", "download",
          "reading", "rename", "extract", "done", "raised"},
    image : Images, username : BOOLEAN, private : BOOLEAN,
    token : Token, headers : Token, layers : Seq(Blobs), there : BOOLEAN ]

InLoop(t) ==
  handle[t].pc \in {"exists", "check", "unlink", "request", "download",
                    "reading", "rename"}

\* The types, and pull_layers always has a layer at hand.
TypeOK ==
  /\ handle \in [Threads -> Handles \cup {Idle}]
  /\ cache \in [Blobs -> File]
  /\ \A t \in Threads : InLoop(t) => handle[t].layers # <<>>

\* The layers of its image that thread t has been through.
Been(t) ==
  LET layers == Manifest[handle[t].image] IN
  {layers[k] : k \in 1..(Len(layers) - Len(handle[t].layers))}

\* However the threads interleave, and although the file of a layer may be
\* damaged and another thread be at it: a layer that a thread has been
\* through is sound, or not there at all, and then the extraction raises.
LayersVerified ==
  \A t \in Threads :
    InLoop(t) \/ handle[t].pc \in {"extract", "done"} =>
      \A b \in Been(t) : cache[b] # "bad"

\* A file in the cache never goes bad.  A sound one can only be removed
\* where a damaged one was: by a thread that checked that one.
StaysSound ==
  [][\A b \in Blobs :
       /\ cache'[b] = "bad" => cache[b] = "bad"
       /\ cache[b] = "good" /\ cache'[b] = "none" => b \in Damaged]_cache

Ended(t) == handle[t].pc \in {"done", "raised"}
\* The requests of t will not be answered any more.
CutOff(t) ==
  handle[t].pc = "reading" \/ (InLoop(t) /\ handle[t].headers = "expired")

\* A pull comes to an end, with a tree or with an exception, however often
\* other threads remove the layers it has seen, unless its connection ends
\* early or its token expires while it pulls layers.
PullEnds ==
  \A t \in Threads : handle[t].pc = "manifest" ~> Ended(t) \/ CutOff(t)

\* "Download layers to cachedir if they do not exist" (dockerv2.py:495): a
\* token that expires does not keep a pull from its end.
PullOutlivesToken ==
  \A t \in Threads : handle[t].pc = "manifest" ~> Ended(t)

\* "username/password to specify a login" (dockerv2.py:255): with
\* credentials, and with no failure of the registry, every image is pulled.
LoginWorks ==
  \A t \in Threads :
    handle[t].pc = "manifest" /\ handle[t].username ~> handle[t].pc = "done"
=============================================================================
