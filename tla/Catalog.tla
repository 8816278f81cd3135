------------------------------- MODULE Catalog -------------------------------
(***************************************************************************)
(* What clients of the image gateway are promised: a catalogue that gives  *)
(* every tag of a system at most one image, and that only ever names an    *)
(* image a pull or an import of that very tag delivered.                   *)
(*                                                                         *)
(* A tag may be without an image for a moment while a delivered result is  *)
(* being published: it never leads from one image straight to another.     *)
(***************************************************************************)
CONSTANTS Systems, Tags, ImageIds, NoImage

VARIABLES
  catalog,   \* the image each tag of a system leads to, or NoImage
  results    \* what workers delivered and nobody has published yet

Names   == Systems \X Tags
Result  == [name : Names, id : ImageIds]
cvars   == <<catalog, results>>

CInit ==
  /\ catalog = [n \in Names |-> NoImage]
  /\ results = {}

\* A worker reports the image of a tag.
Deliver(n, id) ==
  /\ results' = results \cup {[name |-> n, id |-> id]}
  /\ UNCHANGED catalog

\* Results are forgotten: the request was removed, or a restart lost them.
Forget ==
  /\ results' \subseteq results
  /\ UNCHANGED catalog

\* The tag of a delivered result is taken from the image that has it ...
Unpublish(n) ==
  /\ \E r \in results : r.name = n
  /\ catalog' = [catalog EXCEPT ![n] = NoImage]
  /\ UNCHANGED results

\* ... and given to the delivered one.
Publish(n, id) ==
  /\ [name |-> n, id |-> id] \in results
  /\ catalog[n] = NoImage
  /\ catalog' = [catalog EXCEPT ![n] = id]
  /\ results' \subseteq results

\* An image is expired, or removed: it loses all its tags at once.
Withdraw(system, id) ==
  /\ catalog' = [n \in Names |->
       IF n[1] = system /\ catalog[n] = id THEN NoImage ELSE catalog[n]]
  /\ results' \subseteq results

CNext ==
  \/ \E n \in Names, id \in ImageIds : Deliver(n, id) \/ Publish(n, id)
  \/ \E n \in Names : Unpublish(n)
  \/ \E s \in Systems, id \in ImageIds : Withdraw(s, id)
  \/ Forget

CSpec == CInit /\ [][CNext]_cvars
=============================================================================
