------------------------------ MODULE ImageMngr ------------------------------
(***************************************************************************)
(* The image gateway's manager (imagegw/shifter_imagegw/imagemngr.py): the *)
(* API process that handles one request at a time, the ThreadPool it       *)
(* queues pulls, imports and expiries on, the FIFO status queue the worker *)
(* threads post to, and the separate status process that turns those       *)
(* messages into updates of the Mongo collection.  Every query and every   *)
(* update of the collection is a step, so that the API process, the worker *)
(* threads and the status process interleave between them.                 *)
(*                                                                         *)
(* What a worker thread does between two status messages is abstract here: *)
(* it may fail at any point, and it reports any image id the registry may  *)
(* give the tag.                                                           *)
(***************************************************************************)
EXTENDS ImageDB, Naturals

CONSTANTS
  Idents,    \* Mongo object ids
  NoIdent,   \* no object id
  Handlers,  \* API processes on this collection (WORKERS, 1 by default)
  Threads,   \* worker threads (WorkerThreads, 1 by default)
  Ops,       \* the API calls clients make
  Faults,    \* what may break: "mongo" (a query raises), "crash" (restart)
  Clock,     \* the thresholds time may cross: fresh, stale, old, past
  MaxPool,   \* bound: tasks waiting in the pool
  MaxQueue   \* bound: messages waiting in the status queue

ASSUME ImageMngrAssumption ==
  /\ NoIdent \notin Idents
  /\ Ops \subseteq {"pull", "import", "lookup", "list", "expire", "autoexpire"}
  /\ Faults \subseteq {"mongo", "crash"}
  /\ Clock \subseteq {"fresh", "stale", "old", "past"}
  /\ MaxPool \in Nat
  /\ MaxQueue \in Nat

VARIABLES
  images,    \* the collection: [Idents -> Document]
  handler,   \* the request each API process is serving, and how far it is
  pool,      \* the ThreadPool's queue of tasks
  worker,    \* what each worker thread runs, and how far it is
  queue,     \* the status queue
  status     \* the status process: the message it applies, and how far it is

vars == <<images, handler, pool, worker, queue, status>>

-----------------------------------------------------------------------------
(* Requests, tasks, messages.                                              *)

\* A pull carries access lists, an import a file; listing and autoexpire
\* name only a system.
Requests ==
  { r \in [ op : Ops, system : Systems, itype : ITypes \cup {NoName},
            tag : Tags \cup {NoName}, acl : ACLs \cup {Public},
            file : Files \cup {NoFile} ] :
      /\ (r.op \in {"list", "autoexpire"}) <=> (r.tag = NoName)
      /\ (r.tag = NoName) <=> (r.itype = NoName)
      /\ (r.op # "pull") => (r.acl = Public)
      /\ (r.op = "import") <=> (r.file # NoFile) }

Tasks ==
  { k \in [ op : {"pull", "import", "expire"}, ident : Idents,
             system : Systems, id : ImageIds \cup {NoImage}, acl : Access,
             file : Files \cup {NoFile} ] :
      k.op = "import" <=> k.file # NoFile }

Responses  == [ id : ImageIds, acl : Access, meta_only : BOOLEAN ]
NoResponse == [ id |-> NoImage, acl |-> Null, meta_only |-> FALSE ]

\* Only READY comes with a response.
Messages ==
  { m \in [ ident : Idents, state : Status,
             response : Responses \cup {NoResponse} ] :
      m.state = "READY" <=> m.response # NoResponse }

\* A process with nothing to do, and a status process that has died.
Idle == [pc |-> "idle"]
Dead == [pc |-> "dead"]

\* Object ids are never used twice; an id that nothing refers to any more
\* stands for one that has never been used.
InTodo(h, i) == \E v \in handler[h].todo : v[1] = i

Unused(i) ==
  /\ ~Exists(images[i])
  /\ \A h \in Handlers :
       handler[h].pc # "idle" => handler[h].ident # i /\ ~InTodo(h, i)
  /\ \A k \in 1..Len(pool) : pool[k].ident # i
  /\ \A t \in Threads : worker[t].pc # "idle" => worker[t].task.ident # i
  /\ \A k \in 1..Len(queue) : queue[k].ident # i
  /\ status.pc \notin {"idle", "dead"} =>
       status.ident # i /\ status.target # i

Init ==
  /\ images  = [i \in Idents |-> Absent]
  /\ handler = [h \in Handlers |-> Idle]
  /\ pool    = <<>>
  /\ worker  = [t \in Threads |-> Idle]
  /\ queue   = <<>>
  /\ status  = Idle

-----------------------------------------------------------------------------
(* The API process.                                                        *)

Goto(h, pc)   == handler' = [handler EXCEPT ![h].pc = pc]
Return(h)     == handler' = [handler EXCEPT ![h] = Idle]
OnlyHandler   == UNCHANGED <<images, pool, worker, queue, status>>
ImagesChange  == UNCHANGED <<pool, worker, queue, status>>
Set(i, d)     == images' = [images EXCEPT ![i] = d]

\* A request arrives and its session is valid.  Bound: a pull or an import
\* starts only when an object id is left for the document it may insert.
Receive(h) ==
  /\ handler[h].pc = "idle"
  /\ \E r \in Requests :
     /\ r.op \in {"pull", "import"} =>
          Cardinality({i \in Idents : Unused(i)})
            > Cardinality({k \in Handlers : handler[k].pc # "idle"})
     /\ handler' = [handler EXCEPT ![h] =
         [ pc    |-> CASE r.op = "import" -> "findany"
                       [] r.op = "expire" -> "findtag"
                       [] OTHER           -> "states",
           req   |-> r, seen |-> Absent, todo |-> {}, ident |-> NoIdent ]]
  /\ OnlyHandler

\* update_states: drop the failed documents that are old enough.  A failed
\* document without last_pull raises a KeyError, and the loop may already
\* have dropped some of the others.
UpdateStates(h) ==
  LET failed == {i \in Idents : images[i].status = "FAILURE"}
      old    == {i \in failed : images[i].last_pull = "stale"}
      Drop(gone) == images' = [i \in Idents |->
                                 IF i \in gone THEN Absent ELSE images[i]]
  IN /\ handler[h].pc = "states"
     /\ ImagesChange
     /\ \/ /\ \A i \in failed : images[i].last_pull # "none"
           /\ Drop(old)
           /\ CASE handler[h].req.op = "pull"       -> Goto(h, "findready")
                [] handler[h].req.op = "lookup"     -> Goto(h, "find")
                [] handler[h].req.op = "autoexpire" -> Goto(h, "findstuck")
                [] OTHER                              -> Return(h)
        \/ /\ \E i \in failed : images[i].last_pull = "none"
           /\ \E gone \in SUBSET old : Drop(gone)
           /\ Goto(h, "KeyError")

\* The two ways a handler raises: answered 404, nothing more is done.
Raise(h) ==
  /\ handler[h].pc \in {"KeyError", "TypeError"}
  /\ Return(h)
  /\ OnlyHandler

-----------------------------------------------------------------------------
(* pull.                                                                   *)

\* The active image of the name, if there is one.
FindReady(h) ==
  /\ handler[h].pc = "findready"
  /\ \E d \in {images[i] : i \in {j \in Idents :
                  IsActive(images[j], handler[h].req)}} \cup {Absent} :
       /\ d = Absent => \A i \in Idents : ~IsActive(images[i], handler[h].req)
       /\ handler' = [handler EXCEPT ![h].seen = d, ![h].pc = "findpull"]
  /\ OnlyHandler

\* Whether pull() makes a new pull record, given the document it found.
\* Comparing access lists with those of an import raises a TypeError.
NeedsPull(d, acl) ==
  \/ IsReady(d) /\ d.last_pull # "recent" /\ d.acl # acl
  \/ Pullable(d)

\* A document of the same request that is not READY overrides the active
\* image; then decide.
FindPull(h) ==
  LET r       == handler[h].req
      pending == {i \in Idents : RequestedAs(images[i], r)
                                   /\ ~IsReady(images[i])}
  IN /\ handler[h].pc = "findpull"
     /\ \E d \in {images[i] : i \in pending} \cup {handler[h].seen} :
          /\ pending # {} => d \in {images[i] : i \in pending}
          /\ IF IsReady(d) /\ d.last_pull = "none" THEN Goto(h, "KeyError")
             ELSE IF Exists(d) /\ d.acl = Null THEN Goto(h, "TypeError")
             ELSE IF NeedsPull(d, r.acl)
               THEN handler' = [handler EXCEPT ![h].pc = "clean", ![h].seen = Absent]
             ELSE Return(h)
     /\ OnlyHandler

-----------------------------------------------------------------------------
(* mngrimport.                                                             *)

\* Any document of the name, whatever its status.
FindAny(h) ==
  LET r     == handler[h].req
      named == {i \in Idents : RequestedAs(images[i], r)}
  IN /\ handler[h].pc = "findany"
     /\ \/ /\ named = {} \/ \E i \in named : Pullable(images[i])
           /\ Goto(h, "clean")
        \/ /\ \E i \in named : ~Pullable(images[i])
           /\ Return(h)
     /\ OnlyHandler

-----------------------------------------------------------------------------
(* new_pull_record and what pull and mngrimport do after it.               *)

\* Find the documents of the same request that are not READY ...
Clean(h) ==
  /\ handler[h].pc = "clean"
  /\ handler' = [handler EXCEPT ![h].pc = "remove", ![h].todo =
       {<<i, NoImage>> : i \in {j \in Idents :
          SameRequest(images[j], handler[h].req) /\ ~IsReady(images[j])}}]
  /\ OnlyHandler

\* ... and remove them by object id, one at a time.
Remove(h) ==
  /\ handler[h].pc = "remove"
  /\ \E v \in handler[h].todo :
       /\ Set(v[1], Absent)
       /\ handler' = [handler EXCEPT ![h].todo = @ \ {v}]
  /\ ImagesChange

Removed(h) ==
  /\ handler[h].pc = "remove"
  /\ handler[h].todo = {}
  /\ Goto(h, IF handler[h].req.op = "autoexpire" THEN "findold" ELSE "insert")
  /\ OnlyHandler

Insert(h) ==
  /\ handler[h].pc = "insert"
  /\ \E i \in {j \in Idents : Unused(j)} :
       /\ Set(i, NewRecord(handler[h].req))
       /\ handler' = [handler EXCEPT ![h].pc = "pending", ![h].ident = i]
  /\ ImagesChange

MarkPending(h) ==
  /\ handler[h].pc = "pending"
  /\ Set(handler[h].ident, SetState(images[handler[h].ident], "PENDING"))
  /\ Goto(h, "submit")
  /\ ImagesChange

\* dopull, dowrkimport: hand the request to the pool.
Submit(h) ==
  LET r == handler[h].req
  IN /\ handler[h].pc = "submit"
     /\ Len(pool) < MaxPool
     /\ pool' = Append(pool,
          [ op |-> r.op, ident |-> handler[h].ident,
            system |-> r.system, id |-> NoImage, acl |-> IF r.op = "import" THEN Null ELSE r.acl,
            file |-> r.file ])
     /\ Goto(h, "stamp")
     /\ UNCHANGED <<images, worker, queue, status>>

\* Mistake: the document does not get its last_pull.
StampNothing(h) ==
  /\ handler[h].pc = "stamp"
  /\ Return(h)
  /\ OnlyHandler

\* Only now does the document get its last_pull.
StampPull(h) ==
  /\ handler[h].pc = "stamp"
  /\ Set(handler[h].ident, Touch(images[handler[h].ident]))
  /\ Return(h)
  /\ ImagesChange

-----------------------------------------------------------------------------
(* lookup.                                                                 *)

\* The answer is None when there is no active image, or when _checkread
\* refuses this caller.
Find(h) ==
  /\ handler[h].pc = "find"
  /\ \/ Return(h)
     \/ \E i \in Idents :
          /\ IsActive(images[i], handler[h].req)
          /\ handler' = [handler EXCEPT ![h].pc = "resetexpire",
                                        ![h].ident = i]
  /\ OnlyHandler

ResetExpiry(h) ==
  /\ handler[h].pc = "resetexpire"
  /\ Set(handler[h].ident, ResetExpire(images[handler[h].ident]))
  /\ Return(h)
  /\ ImagesChange

-----------------------------------------------------------------------------
(* autoexpire and expire, called by an administrator.                      *)

\* Documents stuck before READY: the loop skips those without last_pull.
FindStuck(h) ==
  /\ handler[h].pc = "findstuck"
  /\ handler' = [handler EXCEPT ![h].pc = "remove", ![h].todo =
       {<<i, NoImage>> : i \in {j \in Idents :
          /\ Exists(images[j])
          /\ images[j].system = handler[h].req.system
          /\ ~IsReady(images[j])
          /\ images[j].last_pull = "stale"}}]
  /\ OnlyHandler

FindOld(h) ==
  /\ handler[h].pc = "findold"
  /\ handler' = [handler EXCEPT ![h].pc = "doexpire", ![h].todo =
       {<<i, images[i].id>> : i \in {j \in Idents :
          /\ IsReady(images[j])
          /\ images[j].system = handler[h].req.system
          /\ images[j].expiration = "past"}}]
  /\ OnlyHandler

ExpireTask(i, system, id) ==
  [ op |-> "expire", ident |-> i, system |-> system, id |-> id,
    acl |-> Null, file |-> NoFile ]

ExpireId(h) ==
  /\ handler[h].pc = "doexpire"
  /\ Len(pool) < MaxPool
  /\ \E v \in handler[h].todo :
       /\ pool' = Append(pool, ExpireTask(v[1], handler[h].req.system, v[2]))
       /\ handler' = [handler EXCEPT ![h].todo = @ \ {v}]
  /\ UNCHANGED <<images, worker, queue, status>>

AutoExpired(h) ==
  /\ handler[h].pc = "doexpire"
  /\ handler[h].todo = {}
  /\ Return(h)
  /\ OnlyHandler

\* expire looks the tag up whatever the status of the document.
Expire(h) ==
  LET carriers == {i \in Idents : Carries(images[i], handler[h].req)}
  IN /\ handler[h].pc = "findtag"
     /\ \/ /\ carriers = {}
           /\ UNCHANGED pool
        \/ /\ Len(pool) < MaxPool
           /\ \E i \in carriers :
                pool' = Append(pool,
                  ExpireTask(i, handler[h].req.system, images[i].id))
     /\ Return(h)
     /\ UNCHANGED <<images, worker, queue, status>>

HandlerStep(h) ==
  \/ UpdateStates(h) \/ Raise(h)
  \/ FindReady(h) \/ FindPull(h) \/ FindAny(h)
  \/ Clean(h) \/ Remove(h) \/ Removed(h) \/ Insert(h)
  \/ MarkPending(h) \/ Submit(h) \/ StampPull(h)
  \/ Find(h) \/ ResetExpiry(h)
  \/ FindStuck(h) \/ FindOld(h) \/ ExpireId(h) \/ AutoExpired(h) \/ Expire(h)

-----------------------------------------------------------------------------
(* The worker threads (imageworker.py), reduced to what they post.         *)

\* Mistake: the latest message comes first.
PostFirst(t, state, response) ==
  /\ Len(queue) < MaxQueue
  /\ queue' = <<[ident    |-> worker[t].task.ident,
                 state    |-> state,
                 response |-> response]>> \o queue

Post(t, state, response) ==
  /\ Len(queue) < MaxQueue
  /\ queue' = Append(queue, [ident    |-> worker[t].task.ident,
                             state    |-> state,
                             response |-> response])
WorkerTo(t, pc) == worker' = [worker EXCEPT ![t].pc = pc]
WorkerDone(t)   == worker' = [worker EXCEPT ![t] = Idle]
OnlyWorker      == UNCHANGED <<images, handler, pool, status>>

Take(t) ==
  /\ worker[t].pc = "idle"
  /\ pool # <<>>
  /\ worker' = [worker EXCEPT ![t] = [pc |-> "start", task |-> Head(pool)]]
  /\ pool' = Tail(pool)
  /\ UNCHANGED <<images, handler, queue, status>>

\* The first message of each kind of task.
Begin(t) ==
  /\ worker[t].pc = "start"
  /\ Post(t, CASE worker[t].task.op = "pull"   -> "PULLING"
               [] worker[t].task.op = "import" -> "HASHING"
               [] worker[t].task.op = "expire" -> "EXPIRING", NoResponse)
  /\ WorkerTo(t, "work")
  /\ OnlyWorker

Transfer(t) ==
  /\ worker[t].pc = "work"
  /\ worker[t].task.op \in {"pull", "import"}
  /\ Post(t, "TRANSFER", NoResponse)
  /\ WorkerTo(t, "transfer")
  /\ OnlyWorker

\* A pull answers with the id of the manifest, with no access lists when
\* the image needs no credentials, and with meta_only when both files were
\* on the platform already.  An import answers with the hash of its file.
CompleteWith(t, resp) ==
  /\ worker[t].pc = "transfer"
  /\ IF worker[t].task.op = "import"
     THEN resp = [ id |-> worker[t].task.file, acl |-> Null,
                   meta_only |-> FALSE ]
     ELSE resp.id \in Images /\ resp.acl \in {worker[t].task.acl, Public}
  /\ Post(t, "READY", resp)
  /\ WorkerDone(t)
  /\ OnlyWorker

Complete(t) == \E resp \in Responses : CompleteWith(t, resp)

Expired(t) ==
  /\ worker[t].pc = "work"
  /\ worker[t].task.op = "expire"
  /\ Post(t, "EXPIRED", NoResponse)
  /\ WorkerDone(t)
  /\ OnlyWorker

\* A pull or an import that raises posts FAILURE itself and raises again;
\* WorkerThreads then posts a second one.  An expire posts only that one.
Fail(t) ==
  /\ \/ worker[t].pc \in {"work", "transfer"}
     \/ worker[t].pc = "start" /\ worker[t].task.op = "import"
  /\ Post(t, "FAILURE", NoResponse)
  /\ IF worker[t].task.op = "expire" THEN WorkerDone(t)
                                     ELSE WorkerTo(t, "failed")
  /\ OnlyWorker

FailAgain(t) ==
  /\ worker[t].pc = "failed"
  /\ Post(t, "FAILURE", NoResponse)
  /\ WorkerDone(t)
  /\ OnlyWorker

WorkerStep(t) ==
  \/ Take(t) \/ Begin(t) \/ Transfer(t) \/ Complete(t)
  \/ Expired(t) \/ Fail(t) \/ FailAgain(t)

-----------------------------------------------------------------------------
(* The status process.                                                     *)

StatusTo(pc) == status' = [status EXCEPT !.pc = pc]
OnlyStatus   == UNCHANGED <<handler, pool, worker>>

\* Mistake: a failed operation is logged and left at that.
LogFailure ==
  /\ status.pc = "idle"
  /\ queue # <<>>
  /\ Head(queue).state # "READY"
  /\ IF Head(queue).state = "FAILURE"
     THEN UNCHANGED images
     ELSE Set(Head(queue).ident,
              SetBeat(images[Head(queue).ident], Head(queue).state))
  /\ queue' = Tail(queue)
  /\ UNCHANGED status
  /\ OnlyStatus

\* Every state but READY is written to the document as it is.
UpdateMongoState ==
  /\ status.pc = "idle"
  /\ queue # <<>>
  /\ Head(queue).state # "READY"
  /\ Set(Head(queue).ident,
         SetBeat(images[Head(queue).ident], Head(queue).state))
  /\ queue' = Tail(queue)
  /\ UNCHANGED status
  /\ OnlyStatus

\* READY for a pull record that is gone: the result is dropped.
MissingPull ==
  /\ status.pc = "idle"
  /\ queue # <<>>
  /\ Head(queue).state = "READY"
  /\ ~Exists(images[Head(queue).ident])
  /\ queue' = Tail(queue)
  /\ UNCHANGED <<images, status>>
  /\ OnlyStatus

\* Mistakes: an image is never found, or found by its system alone.
NoSameImage(i, resp) == {}
SameSystem(i, resp) ==
  {j \in Idents : IsReady(images[j]) /\ images[j].system = images[i].system}

\* The READY documents of the same image on the same system.
SameImage(i, resp) ==
  {j \in Idents : /\ IsReady(images[j])
                  /\ images[j].id = resp.id
                  /\ images[j].system = images[i].system}

\* complete_pull and update_acls begin alike: the pull record and a READY
\* document of the same image are looked up, and decide what follows.
BeginReady ==
  LET m == Head(queue)
      i == m.ident
      Begun(target, pc) ==
        status' = [ pc |-> pc, ident |-> i, target |-> target,
                    system |-> images[i].system, tag |-> images[i].pulltag,
                    response |-> m.response, acls |-> pc = "untag" ]
  IN /\ status.pc = "idle"
     /\ queue # <<>>
     /\ m.state = "READY"
     /\ Exists(images[i])
     /\ \/ /\ SameImage(i, m.response) = {}
           /\ Begun(i, "ready")
        \/ \E j \in SameImage(i, m.response) :
             Begun(j, IF m.response.meta_only THEN "untag" ELSE "touch")
     /\ queue' = Tail(queue)
     /\ UNCHANGED images
     /\ OnlyStatus

\* The image is new: the pull record becomes its READY document.
SetReady ==
  /\ status.pc = "ready"
  /\ Set(status.ident, MakeReady(images[status.ident], status.response))
  /\ StatusTo("untag")
  /\ UNCHANGED queue
  /\ OnlyStatus

\* The image has a READY document: refresh it, drop the pull record.
TouchTarget ==
  /\ status.pc = "touch"
  /\ Set(status.target, Touch(images[status.target]))
  /\ StatusTo("drop")
  /\ UNCHANGED queue
  /\ OnlyStatus

DropDuplicate ==
  /\ status.pc = "drop"
  /\ Set(status.ident, Absent)
  /\ StatusTo("untag")
  /\ UNCHANGED queue
  /\ OnlyStatus

\* add_tag: take the tag from every document of the system, then add it.
Untag ==
  /\ status.pc = "untag"
  /\ images' = [i \in Idents |->
                  RemoveTag(images[i], status.system, status.tag)]
  /\ StatusTo("retag")
  /\ UNCHANGED queue
  /\ OnlyStatus

\* Mistake: the tag goes to the pull record, not to the image's document.
RetagPull ==
  /\ status.pc = "retag"
  /\ Set(status.ident, AddToSet(images[status.ident], status.tag))
  /\ IF status.acls THEN StatusTo("acls") ELSE status' = Idle
  /\ UNCHANGED queue
  /\ OnlyStatus

Retag ==
  /\ status.pc = "retag"
  /\ Set(status.target, AddToSet(images[status.target], status.tag))
  /\ IF status.acls THEN StatusTo("acls") ELSE status' = Idle
  /\ UNCHANGED queue
  /\ OnlyStatus

\* update_acls goes on to write the access lists and drop the pull record.
UpdateAcls ==
  /\ status.pc = "acls"
  /\ Set(status.target,
         SetAccess(images[status.target], status.response.acl))
  /\ StatusTo("dropacls")
  /\ UNCHANGED queue
  /\ OnlyStatus

DropAclPull ==
  /\ status.pc = "dropacls"
  /\ Set(status.ident, Absent)
  /\ status' = Idle
  /\ UNCHANGED queue
  /\ OnlyStatus

StatusStep ==
  \/ UpdateMongoState \/ MissingPull \/ BeginReady
  \/ SetReady \/ TouchTarget \/ DropDuplicate \/ Untag \/ Retag
  \/ UpdateAcls \/ DropAclPull

-----------------------------------------------------------------------------
(* The clock, faults and restarts.                                         *)

\* Time passes for one document.  The heartbeat is read only while the
\* document is not READY, and is old (an hour) only long after the pull it
\* belongs to is stale (five minutes).
Age(i) ==
  LET d == images[i]
  IN /\ Exists(d)
     /\ \/ /\ "fresh" \in Clock
           /\ d.last_pull = "recent"
           /\ Set(i, [d EXCEPT !.last_pull = "fresh"])
        \/ /\ "stale" \in Clock
           /\ d.last_pull \in {"recent", "fresh"}
           /\ Set(i, [d EXCEPT !.last_pull = "stale"])
        \/ /\ "old" \in Clock
           /\ d.last_heartbeat = "fresh"
           /\ ~IsReady(d)
           /\ d.last_pull \in {"none", "stale"}
           /\ Set(i, [d EXCEPT !.last_heartbeat = "old"])
        \/ /\ "past" \in Clock
           /\ d.expiration = "future"
           /\ Set(i, [d EXCEPT !.expiration = "past"])
     /\ UNCHANGED <<handler, pool, worker, queue, status>>

\* A query fails after its retry: the handler raises and is answered 404,
\* the status process dies of the exception and is never started again.
HandlerRaises(h) ==
  /\ "mongo" \in Faults
  /\ handler[h].pc \notin {"idle", "KeyError", "TypeError"}
  /\ Return(h)
  /\ OnlyHandler

StatusRaises ==
  /\ "mongo" \in Faults
  /\ status.pc # "dead"
  /\ status.pc = "idle" => queue # <<>>
  /\ status' = Dead
  /\ queue' = IF status.pc = "idle" THEN Tail(queue) ELSE queue
  /\ UNCHANGED <<images, handler, pool, worker>>

\* The gateway stops and is started again: only the collection survives,
\* and its PENDING documents are removed.
Restart ==
  /\ "crash" \in Faults
  /\ images' = [i \in Idents |->
       IF images[i].status = "PENDING" THEN Absent ELSE images[i]]
  /\ handler' = [h \in Handlers |-> Idle]
  /\ pool' = <<>>
  /\ worker' = [t \in Threads |-> Idle]
  /\ queue' = <<>>
  /\ status' = Idle

\* Everything but the worker threads and a restart.
Manage ==
  \/ \E h \in Handlers : Receive(h) \/ HandlerStep(h) \/ HandlerRaises(h)
  \/ StatusStep \/ StatusRaises
  \/ \E i \in Idents : Age(i)

Next == Manage \/ (\E t \in Threads : WorkerStep(t)) \/ Restart

Spec == Init /\ [][Next]_vars

\* The event loop runs a handler to its end, the pool runs its threads, and
\* the status process reads its queue as long as it lives.
Fairness ==
  /\ \A h \in Handlers : WF_vars(HandlerStep(h))
  /\ \A t \in Threads : WF_vars(WorkerStep(t))
  /\ WF_vars(StatusStep)

FairSpec == Spec /\ Fairness
-----------------------------------------------------------------------------
(* Properties.                                                             *)

HandlerPC == {"states", "findready", "findpull", "findany", "clean",
              "remove", "insert", "pending", "submit", "stamp", "find",
              "resetexpire", "findstuck", "findold", "doexpire", "findtag",
              "KeyError", "TypeError"}
WorkerPC  == {"start", "work", "transfer", "failed"}
StatusPC  == {"ready", "touch", "drop", "untag", "retag", "acls", "dropacls"}

HandlerStates ==
  [ pc : HandlerPC, req : Requests, seen : Document,
    todo : SUBSET (Idents \X (ImageIds \cup {NoImage})),
    ident : Idents \cup {NoIdent} ]
WorkerStates == [ pc : WorkerPC, task : Tasks ]
StatusStates ==
  [ pc : StatusPC, ident : Idents, target : Idents,
    system : Systems, tag : Tags, response : Responses, acls : BOOLEAN ]

\* Every variable has its type.
TypeOK ==
  /\ images \in [Idents -> Document]
  /\ handler \in [Handlers -> {Idle} \cup HandlerStates]
  /\ pool \in Seq(Tasks)
  /\ worker \in [Threads -> {Idle} \cup WorkerStates]
  /\ queue \in Seq(Messages)
  /\ status \in {Idle, Dead} \cup StatusStates

\* add_tag removes a tag from every document of the system before it adds
\* it to one: at no moment does a tag name two documents of a system.
TagUnique ==
  \A i, j \in Idents :
    i # j /\ images[i].system = images[j].system
      => images[i].tag \cap images[j].tag = {}

\* complete_pull and update_acls reuse the READY document of an image, so
\* that a system never has two READY documents of one image.
ReadyUnique ==
  \A i, j \in Idents :
    /\ IsReady(images[i]) /\ IsReady(images[j])
    /\ images[i].system = images[j].system
    /\ images[i].id = images[j].id
    => i = j

\* pull() reads last_pull of the document a tag leads to and expire its id
\* without looking whether the keys are there: they always are.
TaggedHasImage ==
  \A i \in Idents :
    images[i].tag # {} => images[i].id # NoImage /\ images[i].last_pull # "none"

\* dopull is called on a PENDING document, and every message about a pull
\* is in the queue before its READY or FAILURE: a document that has been
\* through its pull never shows a pull in progress again.
NoReturnToFlight ==
  [][\A i \in Idents :
       images[i].status \in {"READY", "FAILURE", "EXPIRING", "EXPIRED"}
         => images'[i].status \notin InFlight]_images

\* autoexpire means to remove "things stuck in non-READY state": an image that
\* is READY by the time of the removal is not one of them.
ReadyKept ==
  [][\A i \in Idents : IsReady(images[i]) => Exists(images'[i])]_images

\* A pull waits in the pool, or a worker is at it.
UnderWay(i) ==
  \/ \E k \in 1..Len(pool) : pool[k].op = "pull" /\ pool[k].ident = i
  \/ \E t \in Threads : /\ worker[t].pc \in {"start", "work", "transfer"}
                        /\ worker[t].task.op = "pull"
                        /\ worker[t].task.ident = i

SameName(d, e) ==
  d.system = e.system /\ d.itype = e.itype /\ d.pulltag = e.pulltag

\* "If a pull request exist for this tag ... return the record": no two pulls
\* of one name are under way, and none goes on unseen, without its record.
OnePullPerName ==
  \A i, j \in Idents :
    UnderWay(i) /\ UnderWay(j) =>
      Exists(images[i]) /\ (SameName(images[i], images[j]) => i = j)

\* complete_pull finds the pull record of every result a worker delivers.
ResultHasRecord ==
  status.pc = "idle" /\ queue # <<>> /\ Head(queue).state = "READY"
    => Exists(images[Head(queue).ident])

\* The loop of update_states always reaches its end: "Cleanup failed
\* transcations after a period".
FailuresCleaned == \A h \in Handlers : handler[h].pc # "KeyError"

\* pull() always gets to compare the access lists: "If the key isn't in the
\* objects or something else fails, then it must have changed".
ListsCompared == \A h \in Handlers : handler[h].pc # "TypeError"

\* Every queued pull or import is over some day: READY, failed or removed.
PullEnds ==
  \A i \in Idents :
    images[i].status = "PENDING" ~> images[i].status \notin InFlight

\* The name a client looks up leads to an image.
Resolves(s, y, t) ==
  \E i \in Idents :
    IsActive(images[i], [system |-> s, itype |-> y, tag |-> t])

\* A tag is away from lookup only while add_tag moves it: as long as nothing
\* is expired, what could be looked up once can be looked up again.
TagComesBack ==
  \A s \in Systems, y \in ITypes, t \in Tags :
    [](Resolves(s, y, t) => []<>Resolves(s, y, t))

-----------------------------------------------------------------------------
(* The catalogue the clients see.                                          *)

ImageOf(s, t) ==
  LET active == {i \in Idents : /\ IsReady(images[i])
                                /\ images[i].system = s
                                /\ t \in images[i].tag}
  IN IF active = {} THEN NoImage ELSE images[CHOOSE i \in active : TRUE].id

ResultOf(system, tag, id) == [name |-> <<system, tag>>, id |-> id]

\* Results whose pull record is there: waiting in the queue, or in the hands
\* of the status process until the tag is set.
Delivered ==
  {ResultOf(images[queue[k].ident].system, images[queue[k].ident].pulltag,
            queue[k].response.id) :
     k \in {n \in 1..Len(queue) : /\ queue[n].state = "READY"
                                  /\ Exists(images[queue[n].ident])}}
  \cup
  IF status.pc \in {"ready", "touch", "drop", "untag", "retag"}
  THEN {ResultOf(status.system, status.tag, status.response.id)}
  ELSE {}

TheCatalog == INSTANCE Catalog WITH
  catalog <- [n \in Systems \X Tags |-> ImageOf(n[1], n[2])],
  results <- Delivered

\* The gateway implements the catalogue.
ImplementsCatalog == TheCatalog!CSpec
=============================================================================
