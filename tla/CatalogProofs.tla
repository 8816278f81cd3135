---------------------------- MODULE CatalogProofs ----------------------------
(***************************************************************************)
(* How a request travels through the gateway, and what clients are promised*)
(* of it.  A pull or an import is in one place at a time: with the handler *)
(* that inserted its document, in the pool, with a worker thread, and at   *)
(* last as messages in the status queue.  From that follow that a document *)
(* which has been through its pull never shows a pull in progress again,   *)
(* and that ImageMngr implements the catalogue of module Catalog.          *)
(***************************************************************************)
EXTENDS ImageMngrProofs

-----------------------------------------------------------------------------
(* Where a request can be.                                                 *)

\* The statuses of a document that has been through its pull.
Over == {"READY", "FAILURE", "EXPIRING", "EXPIRED"}

\* The request of document i is with the handler that inserted it, it waits
\* in the pool, or a worker thread has it.
Inserted(h, i) ==
  handler[h].pc \in {"pending", "submit"} /\ handler[h].ident = i
Queued(k, i) == pool[k].op # "expire" /\ pool[k].ident = i
Runs(t, i) ==
  /\ worker[t].pc # "idle"
  /\ worker[t].task.op # "expire"
  /\ worker[t].task.ident = i

\* More messages of a pull in progress may follow.
Early(i) ==
  \/ \E h \in Handlers : Inserted(h, i)
  \/ \E k \in 1..Len(pool) : Queued(k, i)
  \/ \E t \in Threads : Runs(t, i) /\ worker[t].pc \in {"start", "work"}

\* A result may follow.
Awaiting(i) ==
  Early(i) \/ \E t \in Threads : Runs(t, i) /\ worker[t].pc = "transfer"

\* Somebody is about to expire the document.
Expires(i) ==
  \/ \E h \in Handlers : handler[h].pc = "doexpire" /\ InTodo(h, i)
  \/ \E k \in 1..Len(pool) : pool[k].op = "expire" /\ pool[k].ident = i
  \/ \E t \in Threads : /\ worker[t].pc # "idle"
                        /\ worker[t].task.op = "expire"
                        /\ worker[t].task.ident = i

\* Somebody takes the pull of the document for over.
Done(i) ==
  \/ images[i].status \in Over \/ images[i].tag # {}
  \/ Expires(i)
  \/ Busy /\ i \in {status.ident, status.target}

\* The document holds an image, or is about to get the tag of one.
Published(i) ==
  \/ IsReady(images[i]) \/ images[i].tag # {}
  \/ status.pc \in StatusPC \ {"ready"} /\ status.target = i

\* The status process is about to make the document READY.
Applying(i) == status.pc = "ready" /\ status.ident = i

-----------------------------------------------------------------------------
(* The second inductive invariant.                                         *)

\* A request is in one place.
HoldOne ==
  \A i \in Idents :
    /\ \A h, g \in Handlers : Inserted(h, i) /\ Inserted(g, i) => g = h
    /\ \A k, n \in 1..Len(pool) : Queued(k, i) /\ Queued(n, i) => n = k
    /\ \A t, u \in Threads : Runs(t, i) /\ Runs(u, i) => u = t
    /\ \A h \in Handlers, k \in 1..Len(pool) : ~(Inserted(h, i) /\ Queued(k, i))
    /\ \A h \in Handlers, t \in Threads : ~(Inserted(h, i) /\ Runs(t, i))
    /\ \A k \in 1..Len(pool), t \in Threads : ~(Queued(k, i) /\ Runs(t, i))

\* As long as messages of a pull in progress may follow, nobody takes the
\* pull for over, in the queue neither ...
EarlyFresh ==
  \A i \in Idents : Early(i) =>
    /\ ~Done(i)
    /\ \A k \in 1..Len(queue) :
         queue[k].ident = i => queue[k].state \in InFlight

\* ... and those in the queue come before the message that ends the pull.
InOrder ==
  \A i \in Idents, k \in 1..Len(queue) :
    queue[k].ident = i /\ queue[k].state \in InFlight =>
      /\ ~Done(i)
      /\ \A n \in 1..Len(queue) :
           n < k /\ queue[n].ident = i => queue[n].state \in InFlight

\* A document gets at most one result, and holds no image and no tag before.
Once ==
  /\ \A i \in Idents : Awaiting(i) =>
       /\ ~Published(i) /\ ~Applying(i)
       /\ \A k \in 1..Len(queue) :
            queue[k].ident = i => queue[k].state # "READY"
  /\ \A i \in Idents, k \in 1..Len(queue) :
       queue[k].ident = i /\ queue[k].state = "READY" =>
         /\ ~Published(i) /\ ~Applying(i)
         /\ \A n \in 1..Len(queue) :
              queue[n].ident = i /\ queue[n].state = "READY" => n = k
  /\ \A i \in Idents : Applying(i) => ~Published(i)

\* The document that is about to get the tag holds the image of the result.
TargetImage ==
  status.pc \in {"touch", "drop", "untag", "retag"}
    => (Exists(images[status.target])
          => images[status.target].id = status.response.id)

\* An expiry has no transfer, and fails only once.
ExpireThreads ==
  \A t \in Threads :
    worker[t].pc \in {"transfer", "failed"} => worker[t].task.op # "expire"

Flow ==
  HoldOne /\ EarlyFresh /\ InOrder /\ Once /\ TargetImage /\ ExpireThreads

-----------------------------------------------------------------------------
(* What keeps the order of the queue: the three things a step does to it.  *)

\* Nobody takes a pull for over, or publishes a document, unless the message
\* that a step consumes says so, and requests come only with fresh documents.
Comes(i, states) == Head(queue).ident = i /\ Head(queue).state \in states

LEMMA FreshFacts ==
  ASSUME TypeOK, NEW i \in Idents, Unused(i)
  PROVE  /\ ~Early(i) /\ ~Awaiting(i) /\ ~Done(i) /\ ~Published(i) /\ ~Applying(i)
         /\ \A k \in 1..Len(queue) : queue[k].ident # i
<1>1. images[i] = Absent
  BY DocumentCases DEF Unused, TypeOK
<1>2. ~Early(i) /\ ~Awaiting(i) /\ ~Expires(i)
  BY DEF Unused, Early, Awaiting, Expires, Inserted, Queued, Runs
<1>3. Busy => status.ident # i /\ status.target # i
  BY DEF Unused, Busy
<1>4. QED
  BY <1>1, <1>2, <1>3, AbsentFacts
  DEF Unused, Done, Published, Applying, Over, Absent, Busy, StatusPC

LEMMA KeepsQueue ==
  ASSUME TypeOK, EarlyFresh, InOrder, Once, UNCHANGED queue,
         \A i \in Idents :
           /\ Early(i)' => Early(i) \/ Unused(i)
           /\ Awaiting(i)' => Awaiting(i) \/ Unused(i)
           /\ Done(i)' => Done(i)
           /\ Published(i)' => Published(i) \/ (Applying(i) /\ ~Applying(i)')
           /\ Applying(i)' => Applying(i)
  PROVE  EarlyFresh' /\ InOrder' /\ Once'
BY FreshFacts DEF EarlyFresh, InOrder, Once

LEMMA TakesMessage ==
  ASSUME TypeOK, EarlyFresh, InOrder, Once,
         queue # <<>>, queue' = Tail(queue),
         \A i \in Idents :
           /\ Early(i)' => Early(i)
           /\ Awaiting(i)' => Awaiting(i)
           /\ Done(i)' => Done(i) \/ Comes(i, Over)
           /\ Published(i)' => Published(i) \/ (Applying(i) /\ ~Applying(i)')
           /\ Applying(i)' => Applying(i) \/ Comes(i, {"READY"})
  PROVE  EarlyFresh' /\ InOrder' /\ Once'
<1>1. /\ Len(queue') = Len(queue) - 1 /\ Len(queue) \in Nat \ {0}
      /\ \A k \in 1..Len(queue') : k + 1 \in 1..Len(queue)
                                   /\ queue'[k] = queue[k + 1]
      /\ Head(queue) = queue[1] /\ 1 \in 1..Len(queue)
  BY DEF TypeOK
<1>2. Over \cap InFlight = {} /\ "READY" \in Over
  BY DEF Over, InFlight, Working
<1>3. EarlyFresh'
  BY <1>1, <1>2 DEF EarlyFresh, Comes
<1>4. InOrder'
  <2> SUFFICES ASSUME NEW i \in Idents, NEW k \in 1..Len(queue'),
                      queue'[k].ident = i, queue'[k].state \in InFlight
               PROVE  /\ ~Done(i)'
                      /\ \A n \in 1..Len(queue') :
                           n < k /\ queue'[n].ident = i
                             => queue'[n].state \in InFlight
    BY DEF InOrder
  <2>1. k + 1 \in 1..Len(queue) /\ queue'[k] = queue[k + 1] /\ 1 < k + 1
    BY <1>1
  <2>2. ~Done(i) /\ ~Comes(i, Over)
    BY <1>1, <1>2, <2>1 DEF InOrder, Comes
  <2>3. ASSUME NEW n \in 1..Len(queue'), n < k, queue'[n].ident = i
        PROVE  queue'[n].state \in InFlight
    <3>1. n + 1 \in 1..Len(queue) /\ queue'[n] = queue[n + 1] /\ n + 1 < k + 1
      BY <1>1, <2>3
    <3>2. QED
      BY <2>1, <2>3, <3>1 DEF InOrder
  <2>4. QED
    BY <2>2, <2>3
<1>5. \A i \in Idents : Awaiting(i)' =>
         /\ ~Published(i)' /\ ~Applying(i)'
         /\ \A k \in 1..Len(queue') :
              queue'[k].ident = i => queue'[k].state # "READY"
  BY <1>1 DEF Once, Comes
<1>6. ASSUME NEW i \in Idents, NEW k \in 1..Len(queue'),
             queue'[k].ident = i, queue'[k].state = "READY"
      PROVE  /\ ~Published(i)' /\ ~Applying(i)'
             /\ \A n \in 1..Len(queue') :
                  queue'[n].ident = i /\ queue'[n].state = "READY" => n = k
  <2>1. k + 1 \in 1..Len(queue) /\ queue'[k] = queue[k + 1] /\ 1 # k + 1
    BY <1>1
  <2>2. ~Published(i) /\ ~Applying(i) /\ ~Comes(i, {"READY"})
    BY <1>1, <1>6, <2>1 DEF Once, Comes
  <2>3. ASSUME NEW n \in 1..Len(queue'),
               queue'[n].ident = i, queue'[n].state = "READY"
        PROVE  n = k
    <3>1. n + 1 \in 1..Len(queue) /\ queue'[n] = queue[n + 1]
      BY <1>1
    <3>2. n + 1 = k + 1
      BY <1>6, <2>1, <2>3, <3>1 DEF Once
    <3>3. QED
      BY <3>2
  <2>4. QED
    BY <2>2, <2>3
<1>7. \A i \in Idents : Applying(i)' => ~Published(i)'
  BY <1>1 DEF Once, Comes
<1>8. QED
  BY <1>3, <1>4, <1>5, <1>6, <1>7 DEF Once

LEMMA PostsMessage ==
  ASSUME TypeOK, EarlyFresh, InOrder, Once,
         NEW m \in Messages, queue' = Append(queue, m),
         \A i \in Idents :
           /\ Early(i)' => Early(i)
           /\ Awaiting(i)' => Awaiting(i)
           /\ Done(i)' => Done(i)
           /\ Published(i)' => Published(i)
           /\ Applying(i)' => Applying(i),
         m.state \in InFlight => Early(m.ident),
         m.state \notin InFlight => ~Early(m.ident)',
         m.state = "READY" => Awaiting(m.ident) /\ ~Awaiting(m.ident)'
  PROVE  EarlyFresh' /\ InOrder' /\ Once'
<1>1. /\ \A k \in 1..Len(queue) : queue'[k] = queue[k]
      /\ Len(queue') = Len(queue) + 1 /\ Len(queue) \in Nat
      /\ queue'[Len(queue')] = m /\ m.ident \in Idents
      /\ \A k \in 1..Len(queue') : k = Len(queue') \/ k \in 1..Len(queue)
  BY DEF TypeOK, Messages
<1>2. EarlyFresh'
  BY <1>1 DEF EarlyFresh
<1>3. InOrder'
  <2> SUFFICES ASSUME NEW i \in Idents, NEW k \in 1..Len(queue'),
                      queue'[k].ident = i, queue'[k].state \in InFlight
               PROVE  /\ ~Done(i)'
                      /\ \A n \in 1..Len(queue') :
                           n < k /\ queue'[n].ident = i
                             => queue'[n].state \in InFlight
    BY DEF InOrder
  <2>1. CASE k \in 1..Len(queue)
    BY <1>1, <2>1 DEF InOrder
  <2>2. CASE k = Len(queue')
    BY <1>1, <2>2 DEF EarlyFresh
  <2>3. QED
    BY <1>1, <2>1, <2>2
<1>4. \A i \in Idents : Awaiting(i)' =>
         /\ ~Published(i)' /\ ~Applying(i)'
         /\ \A k \in 1..Len(queue') :
              queue'[k].ident = i => queue'[k].state # "READY"
  BY <1>1 DEF Once
<1>5. ASSUME NEW i \in Idents, NEW k \in 1..Len(queue'),
             queue'[k].ident = i, queue'[k].state = "READY"
      PROVE  /\ ~Published(i)' /\ ~Applying(i)'
             /\ \A n \in 1..Len(queue') :
                  queue'[n].ident = i /\ queue'[n].state = "READY" => n = k
  <2>1. CASE k \in 1..Len(queue)
    <3>1. ~Published(i)' /\ ~Applying(i)'
      BY <1>1, <1>5, <2>1 DEF Once
    <3>2. ASSUME NEW n \in 1..Len(queue'),
                 queue'[n].ident = i, queue'[n].state = "READY"
          PROVE  n = k
      BY <1>1, <1>5, <2>1, <3>2 DEF Once
    <3>3. QED
      BY <3>1, <3>2
  <2>2. CASE k = Len(queue')
    <3>1. m.ident = i /\ m.state = "READY"
      BY <1>1, <1>5, <2>2
    <3>2. ASSUME NEW n \in 1..Len(queue'),
                 queue'[n].ident = i, queue'[n].state = "READY"
          PROVE  n = k
      BY <1>1, <2>2, <3>1, <3>2 DEF Once
    <3>3. QED
      BY <3>1, <3>2 DEF Once
  <2>3. QED
    BY <1>1, <2>1, <2>2
<1>6. \A i \in Idents : Applying(i)' => ~Published(i)'
  BY DEF Once
<1>7. QED
  BY <1>2, <1>3, <1>4, <1>5, <1>6 DEF Once

-----------------------------------------------------------------------------
(* Steps that neither hand a request on nor touch a message.               *)

\* What most steps leave of a document: its name and its status, and but for
\* those of add_tag its tags.
Named(e, d) ==
  e = Absent \/ /\ Exists(d)
                /\ e.system = d.system /\ e.pulltag = d.pulltag
                /\ e.status = d.status
Kept(e, d) == Named(e, d) /\ (e = Absent \/ e.tag = d.tag)

NamesAll == \A i \in Idents : Named(images'[i], images[i])
KeepsAll == \A i \in Idents : Kept(images'[i], images[i])

\* No handler comes by a request, and what one is about to expire is READY.
HandlersStay ==
  \A h \in Handlers, i \in Idents :
    /\ Inserted(h, i)' => Inserted(h, i)
    /\ (handler[h].pc = "doexpire" /\ InTodo(h, i))'
         => (handler[h].pc = "doexpire" /\ InTodo(h, i)) \/ IsReady(images[i])

LEMMA KeptNames ==
  ASSUME KeepsAll
  PROVE  NamesAll
BY DEF KeepsAll, Kept, NamesAll

LEMMA KeptOver ==
  ASSUME NamesAll
  PROVE  \A i \in Idents :
           images'[i].status \in Over => images[i].status \in Over
BY DEF NamesAll, Named, Over, Absent

LEMMA TamePublished ==
  ASSUME TypeOK, Tame
  PROVE  \A i \in Idents : /\ IsReady(images'[i]) => IsReady(images[i])
                           /\ images'[i].tag # {} => images[i].tag # {}
BY AbsentFacts DEF Tame, Tamer

LEMMA QuietFlow ==
  ASSUME Inv, Flow, Tame, HandlersStay,
         \A i \in Idents :
           images'[i].status \in Over => images[i].status \in Over,
         UNCHANGED <<pool, worker, queue, status>>
  PROVE  Flow'
<1>1. \A i \in Idents :
        /\ images'[i].status \in Over => images[i].status \in Over
        /\ IsReady(images'[i]) => IsReady(images[i])
        /\ images'[i].tag # {} => images[i].tag # {}
  BY TamePublished DEF Inv
<1>2. \A i \in Idents : /\ Early(i)' => Early(i)
                        /\ Awaiting(i)' => Awaiting(i)
  BY DEF HandlersStay, Early, Awaiting, Queued, Runs
<1>3. \A i \in Idents : Expires(i)' => Expires(i) \/ IsReady(images[i])
  BY DEF HandlersStay, Expires
<1>4. \A i \in Idents : Done(i)' => Done(i)
  BY <1>1, <1>3 DEF Done, Busy, IsReady, Over
<1>5. \A i \in Idents : /\ Published(i)' => Published(i)
                        /\ Applying(i)' => Applying(i)
  BY <1>1 DEF Published, Applying
<1>6. EarlyFresh' /\ InOrder' /\ Once'
  BY <1>2, <1>4, <1>5, KeepsQueue DEF Inv, Flow
<1>7. HoldOne' /\ ExpireThreads'
  BY DEF HandlersStay, HoldOne, ExpireThreads, Queued, Runs, Flow
<1>8. TargetImage'
  <2>1. Busy => status.target \in Idents
    BY BusyFacts DEF Inv
  <2>2. QED
    BY <2>1, AbsentFacts DEF Tame, Tamer, TargetImage, Busy, Flow
<1>9. QED
  BY <1>6, <1>7, <1>8 DEF Flow

LEMMA StayMove ==
  ASSUME TypeOK, NEW h \in Handlers, NEW s,
         handler' = [handler EXCEPT ![h] = s],
         s.pc \in {"pending", "submit"} =>
           /\ handler[h].pc \in {"pending", "submit"}
           /\ s.ident = handler[h].ident,
         s.pc = "doexpire" =>
           \A v \in s.todo :
             \/ handler[h].pc = "doexpire" /\ v \in handler[h].todo
             \/ v[1] \in Idents => IsReady(images[v[1]])
  PROVE  HandlersStay
<1>1. /\ handler'[h] = s
      /\ \A g \in Handlers : g # h => handler'[g] = handler[g]
  BY DEF TypeOK
<1>2. QED
  BY <1>1 DEF HandlersStay, Inserted, InTodo

LEMMA StayGoto ==
  ASSUME TypeOK, NEW h \in Handlers, handler[h].pc # "idle", NEW pc,
         Goto(h, pc),
         pc \notin {"pending", "doexpire"},
         pc = "submit" => handler[h].pc = "pending"
  PROVE  HandlersStay
<1> DEFINE s == [handler[h] EXCEPT !.pc = pc]
<1>1. handler' = [handler EXCEPT ![h] = s]
  BY DEF Goto
<1>2. s.pc = pc /\ s.ident = handler[h].ident
  BY HandlerBusy DEF HandlerStates
<1> HIDE DEF s
<1>3. QED
  BY <1>1, <1>2, StayMove

LEMMA StayReturn ==
  ASSUME TypeOK, NEW h \in Handlers, Return(h)
  PROVE  HandlersStay
BY StayMove DEF Return, Idle

LEMMA KeepsUnchanged ==
  ASSUME TypeOK, UNCHANGED images
  PROVE  KeepsAll
<1>1. \A i \in Idents : images[i] \in Document
  BY DEF TypeOK
<1>2. QED
  BY <1>1, DocumentCases DEF KeepsAll, Kept, Named

LEMMA KeepsSet ==
  ASSUME TypeOK, NEW i \in Idents, NEW d, Kept(d, images[i]), Set(i, d)
  PROVE  KeepsAll
<1>1. \A j \in Idents : images'[j] = IF j = i THEN d ELSE images[j]
  BY DEF TypeOK, Set
<1>2. \A j \in Idents : images[j] \in Document
  BY DEF TypeOK
<1>3. QED
  BY <1>1, <1>2, DocumentCases DEF KeepsAll, Kept, Named

\* The updates of one document that keep it.
LEMMA KeptUpdates ==
  ASSUME NEW d \in Document, NEW acl
  PROVE  /\ Kept(d, d) /\ Kept(Absent, d)
         /\ Kept(Touch(d), d) /\ Kept(ResetExpire(d), d)
         /\ Kept(SetAccess(d, acl), d)
<1>1. CASE ~Exists(d)
  BY <1>1, DocumentCases
  DEF Kept, Named, Touch, ResetExpire, SetAccess, Assign
<1>2. CASE Exists(d)
  <2>1. d \in Record
    BY <1>2, DocumentCases
  <2>2. QED
    BY <1>2, <2>1
    DEF Kept, Named, Touch, ResetExpire, SetAccess, Assign, Record
<1>3. QED
  BY <1>1, <1>2

LEMMA NamedTagging ==
  ASSUME NEW d \in Document, NEW system \in Systems, NEW tag
  PROVE  Named(AddToSet(d, tag), d) /\ Named(RemoveTag(d, system, tag), d)
<1>1. CASE ~Exists(d)
  BY <1>1, DocumentCases, AbsentFacts, ImageDBAssumption
  DEF Named, AddToSet, RemoveTag, Assign
<1>2. CASE Exists(d)
  <2>1. d \in Record
    BY <1>2, DocumentCases
  <2>2. QED
    BY <1>2, <2>1 DEF Named, AddToSet, RemoveTag, Assign, Record
<1>3. QED
  BY <1>1, <1>2

-----------------------------------------------------------------------------
(* The steps of a handler.                                                 *)

LEMMA QuietHandler ==
  ASSUME Inv, NEW h \in Handlers,
         \/ Receive(h) \/ UpdateStates(h) \/ Raise(h) \/ FindReady(h)
         \/ FindPull(h) \/ FindAny(h) \/ Clean(h) \/ Remove(h) \/ Removed(h)
         \/ StampPull(h) \/ Find(h) \/ ResetExpiry(h)
         \/ FindStuck(h) \/ FindOld(h) \/ AutoExpired(h) \/ HandlerRaises(h)
  PROVE  KeepsAll /\ HandlersStay /\ UNCHANGED <<pool, worker, queue, status>>
<1> USE DEF Inv
<1>1. CASE Receive(h)
  <2>1. PICK r \in Requests :
          handler' = [handler EXCEPT ![h] =
            [ pc    |-> CASE r.op = "import" -> "findany"
                          [] r.op = "expire" -> "findtag"
                          [] OTHER           -> "states",
              req   |-> r, seen |-> Absent, todo |-> {}, ident |-> NoIdent ]]
    BY <1>1 DEF Receive
  <2>2. HandlersStay
    BY <2>1, StayMove
  <2>3. QED
    BY <1>1, <2>2, KeepsUnchanged DEF Receive, OnlyHandler
<1>2. CASE UpdateStates(h)
  <2>1. PICK gone \in SUBSET Idents :
          images' = [i \in Idents |-> IF i \in gone THEN Absent ELSE images[i]]
    BY <1>2 DEF UpdateStates
  <2>2. KeepsAll
    BY <2>1, DocumentCases DEF TypeOK, KeepsAll, Kept, Named
  <2>3. HandlersStay
    BY <1>2, StayGoto, StayReturn DEF UpdateStates
  <2>4. QED
    BY <1>2, <2>2, <2>3 DEF UpdateStates, ImagesChange
<1>3. CASE Raise(h) \/ AutoExpired(h) \/ HandlerRaises(h)
  BY <1>3, StayReturn, KeepsUnchanged
  DEF Raise, AutoExpired, HandlerRaises, OnlyHandler
<1>4. CASE FindReady(h)
  <2>1. PICK d : handler' = [handler EXCEPT ![h].seen = d, ![h].pc = "findpull"]
    BY <1>4 DEF FindReady
  <2> DEFINE s == [handler[h] EXCEPT !.seen = d, !.pc = "findpull"]
  <2>2. handler' = [handler EXCEPT ![h] = s] /\ s.pc = "findpull"
    BY <1>4, <2>1, HandlerBusy DEF FindReady, HandlerStates
  <2> HIDE DEF s
  <2>3. HandlersStay
    BY <2>2, StayMove
  <2>4. QED
    BY <1>4, <2>3, KeepsUnchanged DEF FindReady, OnlyHandler
<1>5. CASE FindPull(h)
  <2>1. CASE Return(h) \/ Goto(h, "KeyError") \/ Goto(h, "TypeError")
    BY <1>5, <2>1, StayReturn, StayGoto, KeepsUnchanged DEF FindPull, OnlyHandler
  <2>2. CASE handler' = [handler EXCEPT ![h].pc = "clean", ![h].seen = Absent]
    <3> DEFINE s == [handler[h] EXCEPT !.pc = "clean", !.seen = Absent]
    <3>1. handler' = [handler EXCEPT ![h] = s] /\ s.pc = "clean"
      BY <1>5, <2>2, HandlerBusy DEF FindPull, HandlerStates
    <3> HIDE DEF s
    <3>2. HandlersStay
      BY <3>1, StayMove
    <3>3. QED
      BY <1>5, <3>2, KeepsUnchanged DEF FindPull, OnlyHandler
  <2>3. QED
    BY <1>5, <2>1, <2>2 DEF FindPull
<1>6. CASE FindAny(h) \/ Removed(h)
  BY <1>6, StayReturn, StayGoto, KeepsUnchanged DEF FindAny, Removed, OnlyHandler
<1>7. CASE Clean(h) \/ FindStuck(h)
  <2>1. PICK todo : handler' = [handler EXCEPT ![h].pc = "remove", ![h].todo = todo]
    BY <1>7 DEF Clean, FindStuck
  <2> DEFINE s == [handler[h] EXCEPT !.pc = "remove", !.todo = todo]
  <2>2. handler' = [handler EXCEPT ![h] = s] /\ s.pc = "remove"
    BY <1>7, <2>1, HandlerBusy DEF Clean, FindStuck, HandlerStates
  <2> HIDE DEF s
  <2>3. HandlersStay
    BY <2>2, StayMove
  <2>4. QED
    BY <1>7, <2>3, KeepsUnchanged DEF Clean, FindStuck, OnlyHandler
<1>8. CASE FindOld(h)
  <2> DEFINE todo == {<<i, images[i].id>> : i \in {j \in Idents :
                        /\ IsReady(images[j])
                        /\ images[j].system = handler[h].req.system
                        /\ images[j].expiration = "past"}}
             s    == [handler[h] EXCEPT !.pc = "doexpire", !.todo = todo]
  <2>1. \A v \in todo : IsReady(images[v[1]])
    OBVIOUS
  <2>2. handler' = [handler EXCEPT ![h] = s]
    BY <1>8 DEF FindOld
  <2> HIDE DEF todo
  <2>3. s.pc = "doexpire" /\ s.todo = todo
    BY <1>8, HandlerBusy DEF FindOld, HandlerStates
  <2> HIDE DEF s
  <2>4. HandlersStay
    BY <2>1, <2>2, <2>3, StayMove
  <2>5. QED
    BY <1>8, <2>4, KeepsUnchanged DEF FindOld, OnlyHandler
<1>9. CASE Remove(h)
  <2>1. PICK v \in handler[h].todo :
          /\ Set(v[1], Absent)
          /\ handler' = [handler EXCEPT ![h].todo = @ \ {v}]
    BY <1>9 DEF Remove
  <2> DEFINE s == [handler[h] EXCEPT !.todo = @ \ {v}]
  <2>2. handler[h] \in HandlerStates /\ handler[h].pc = "remove"
    BY <1>9, HandlerBusy DEF Remove
  <2>3. handler' = [handler EXCEPT ![h] = s] /\ s.pc = "remove"
    BY <2>1, <2>2 DEF HandlerStates
  <2> HIDE DEF s
  <2>4. HandlersStay
    BY <2>3, StayMove
  <2>5. v[1] \in Idents
    BY <2>1, <2>2 DEF HandlerStates
  <2>6. KeepsAll
    BY <2>1, <2>5, KeepsSet DEF Kept, Named
  <2>7. QED
    BY <1>9, <2>4, <2>6 DEF Remove, ImagesChange
<1>10. CASE StampPull(h) \/ ResetExpiry(h)
  <2>1. handler[h].ident \in Idents /\ images[handler[h].ident] \in Document
    BY <1>10 DEF StampPull, ResetExpiry, HandlerInv, TypeOK
  <2>2. KeepsAll
    BY <1>10, <2>1, KeptUpdates, KeepsSet DEF StampPull, ResetExpiry
  <2>3. HandlersStay
    BY <1>10, StayReturn DEF StampPull, ResetExpiry
  <2>4. QED
    BY <1>10, <2>2, <2>3 DEF StampPull, ResetExpiry, ImagesChange
<1>11. CASE Find(h)
  <2>1. CASE Return(h)
    BY <1>11, <2>1, StayReturn, KeepsUnchanged DEF Find, OnlyHandler
  <2>2. CASE \E i \in Idents :
               handler' = [handler EXCEPT ![h].pc = "resetexpire",
                                          ![h].ident = i]
    <3>1. PICK i : handler' = [handler EXCEPT ![h].pc = "resetexpire",
                                              ![h].ident = i]
      BY <2>2
    <3> DEFINE s == [handler[h] EXCEPT !.pc = "resetexpire", !.ident = i]
    <3>2. handler' = [handler EXCEPT ![h] = s] /\ s.pc = "resetexpire"
      BY <1>11, <3>1, HandlerBusy DEF Find, HandlerStates
    <3> HIDE DEF s
    <3>3. HandlersStay
      BY <3>2, StayMove
    <3>4. QED
      BY <1>11, <3>3, KeepsUnchanged DEF Find, OnlyHandler
  <2>3. QED
    BY <1>11, <2>1, <2>2 DEF Find
<1>12. QED
  BY <1>1, <1>2, <1>3, <1>4, <1>5, <1>6, <1>7, <1>8, <1>9, <1>10, <1>11

LEMMA MarkPendingFlow ==
  ASSUME Inv, Flow, NEW h \in Handlers, MarkPending(h)
  PROVE  Flow'
<1>1. handler[h].ident \in Idents /\ images[handler[h].ident] \in Document
  BY DEF MarkPending, HandlerInv, Inv, TypeOK
<1>2. \A i \in Idents :
        images'[i].status \in Over => images[i].status \in Over
  BY <1>1 DEF MarkPending, Set, SetState, Assign, Over, Inv, TypeOK
<1>3. HandlersStay
  BY StayGoto DEF MarkPending, Inv
<1>4. Tame
  BY MarkPendingStep DEF HandlerGoal, Inv
<1>5. QED
  BY <1>2, <1>3, <1>4, QuietFlow DEF MarkPending, ImagesChange

\* An object id that nothing refers to comes into a handler's hands.
LEMMA InsertFlow ==
  ASSUME Inv, Flow, NEW h \in Handlers, Insert(h)
  PROVE  Flow'
<1>1. PICK i \in Idents :
        /\ Unused(i)
        /\ Set(i, NewRecord(handler[h].req))
        /\ handler' = [handler EXCEPT ![h].pc = "pending", ![h].ident = i]
  BY DEF Insert
<1> DEFINE s == [handler[h] EXCEPT !.pc = "pending", !.ident = i]
<1>2. /\ handler' = [handler EXCEPT ![h] = s]
      /\ s.pc = "pending" /\ s.ident = i
  BY <1>1, HandlerBusy DEF HandlerStates, Insert, Inv
<1> HIDE DEF s
<1>3. /\ handler'[h] = s
      /\ \A g \in Handlers : g # h => handler'[g] = handler[g]
  BY <1>2 DEF Inv, TypeOK
<1>4. UNCHANGED <<pool, worker, queue, status>>
  BY DEF Insert, ImagesChange
<1>5. \A j \in Idents :
        images'[j] = IF j = i THEN NewRecord(handler[h].req) ELSE images[j]
  BY <1>1 DEF Set, Inv, TypeOK
<1>6. \A g \in Handlers, j \in Idents :
        Inserted(g, j)' => Inserted(g, j) \/ (g = h /\ j = i)
  BY <1>2, <1>3 DEF Inserted
<1>7. \A j \in Idents : /\ Early(j)' => Early(j) \/ Unused(j)
                        /\ Awaiting(j)' => Awaiting(j) \/ Unused(j)
  BY <1>1, <1>4, <1>6 DEF Early, Awaiting, Queued, Runs
<1>8. \A j \in Idents : Expires(j)' => Expires(j)
  BY <1>2, <1>3, <1>4 DEF Expires, InTodo
<1>9. \A j \in Idents :
        /\ images'[j].status \in Over => images[j].status \in Over
        /\ IsReady(images'[j]) => IsReady(images[j])
        /\ images'[j].tag # {} => images[j].tag # {}
  BY <1>5 DEF NewRecord, Over, IsReady
<1>10. \A j \in Idents : /\ Done(j)' => Done(j)
                         /\ Published(j)' => Published(j)
                         /\ Applying(j)' => Applying(j)
  BY <1>4, <1>8, <1>9 DEF Done, Published, Applying, Busy
<1>11. EarlyFresh' /\ InOrder' /\ Once'
  BY <1>4, <1>7, <1>10, KeepsQueue DEF Inv, Flow
<1>12. HoldOne' /\ ExpireThreads'
  <2>1. /\ \A g \in Handlers : ~Inserted(g, i)
        /\ \A k \in 1..Len(pool) : ~Queued(k, i)
        /\ \A t \in Threads : ~Runs(t, i)
    BY <1>1 DEF Unused, Inserted, Queued, Runs
  <2>2. QED
    BY <1>4, <1>6, <2>1 DEF HoldOne, ExpireThreads, Flow, Queued, Runs
<1>13. TargetImage'
  <2>1. Busy => status.target # i /\ status.target \in Idents
    BY <1>1, BusyFacts DEF Unused, Busy, Inv
  <2>2. QED
    BY <1>4, <1>5, <2>1 DEF TargetImage, Flow, Busy
<1>14. QED
  BY <1>11, <1>12, <1>13 DEF Flow

\* A handler hands its request to the pool, or an expiry of a document that
\* is over already.
LEMMA PoolFlow ==
  ASSUME Inv, Flow, NEW h \in Handlers, NEW k \in Tasks,
         pool' = Append(pool, k), UNCHANGED <<images, worker, queue, status>>,
         HandlersStay,
         IF k.op = "expire"
         THEN Done(k.ident)
         ELSE /\ Inserted(h, k.ident)
              /\ \A i \in Idents : ~Inserted(h, i)'
  PROVE  Flow'
<1>1. /\ \A n \in 1..Len(pool) : pool'[n] = pool[n]
      /\ Len(pool') = Len(pool) + 1 /\ Len(pool) \in Nat
      /\ pool'[Len(pool')] = k /\ k.ident \in Idents
      /\ \A n \in 1..Len(pool') : n = Len(pool') \/ n \in 1..Len(pool)
  BY DEF Inv, TypeOK, Tasks
<1>2. \A i \in Idents, n \in 1..Len(pool') :
        /\ Queued(n, i)' => \/ n \in 1..Len(pool) /\ Queued(n, i)
                            \/ n = Len(pool') /\ Inserted(h, i)
        /\ pool'[n].op = "expire" /\ pool'[n].ident = i
             => \/ n \in 1..Len(pool) /\ pool[n].op = "expire" /\ pool[n].ident = i
                \/ Done(i)
  BY <1>1 DEF Queued
<1>3. \A i \in Idents : /\ Early(i)' => Early(i)
                        /\ Awaiting(i)' => Awaiting(i)
  BY <1>2 DEF HandlersStay, Early, Awaiting, Runs
<1>4. \A i \in Idents : Done(i)' => Done(i)
  <2>1. \A i \in Idents : IsReady(images[i]) => Done(i)
    BY DEF IsReady, Done, Over
  <2>2. \A i \in Idents : Expires(i)' => Expires(i) \/ Done(i)
    BY <1>2, <2>1 DEF HandlersStay, Expires
  <2>3. QED
    BY <2>2 DEF Done, Busy
<1>5. \A i \in Idents : /\ Published(i)' => Published(i)
                        /\ Applying(i)' => Applying(i)
  BY DEF Published, Applying
<1>6. EarlyFresh' /\ InOrder' /\ Once'
  BY <1>3, <1>4, <1>5, KeepsQueue DEF Inv, Flow
<1>7. HoldOne'
  <2> SUFFICES ASSUME NEW i \in Idents
               PROVE
        /\ \A g, f \in Handlers : Inserted(g, i)' /\ Inserted(f, i)' => f = g
        /\ \A m, n \in 1..Len(pool') : Queued(m, i)' /\ Queued(n, i)' => n = m
        /\ \A t, u \in Threads : Runs(t, i)' /\ Runs(u, i)' => u = t
        /\ \A g \in Handlers, n \in 1..Len(pool') :
             ~(Inserted(g, i)' /\ Queued(n, i)')
        /\ \A g \in Handlers, t \in Threads : ~(Inserted(g, i)' /\ Runs(t, i)')
        /\ \A n \in 1..Len(pool'), t \in Threads : ~(Queued(n, i)' /\ Runs(t, i)')
    BY DEF HoldOne
  <2>1. /\ \A g \in Handlers : Inserted(g, i)' => Inserted(g, i)
        /\ \A t \in Threads : Runs(t, i)' => Runs(t, i)
        /\ \A n \in 1..Len(pool') :
             Queued(n, i)' => \/ n \in 1..Len(pool) /\ Queued(n, i)
                              \/ n = Len(pool') /\ Inserted(h, i)
    BY <1>2 DEF HandlersStay, Runs
  <2>2. /\ \A g, f \in Handlers : Inserted(g, i) /\ Inserted(f, i) => f = g
        /\ \A m, n \in 1..Len(pool) : Queued(m, i) /\ Queued(n, i) => n = m
        /\ \A t, u \in Threads : Runs(t, i) /\ Runs(u, i) => u = t
        /\ \A g \in Handlers, n \in 1..Len(pool) : ~(Inserted(g, i) /\ Queued(n, i))
        /\ \A g \in Handlers, t \in Threads : ~(Inserted(g, i) /\ Runs(t, i))
        /\ \A n \in 1..Len(pool), t \in Threads : ~(Queued(n, i) /\ Runs(t, i))
    BY DEF HoldOne, Flow
  <2>3. \A n \in 1..Len(pool') :
          Queued(n, i)' /\ n = Len(pool') =>
            /\ \A g \in Handlers : ~Inserted(g, i)'
            /\ \A m \in 1..Len(pool) : ~Queued(m, i)
    <3>1. SUFFICES ASSUME NEW n \in 1..Len(pool'), Queued(n, i)', n = Len(pool')
                   PROVE  /\ \A g \in Handlers : ~Inserted(g, i)'
                          /\ \A m \in 1..Len(pool) : ~Queued(m, i)
      OBVIOUS
    <3>2. k.op # "expire" /\ k.ident = i
      BY <1>1, <3>1 DEF Queued
    <3>3. Inserted(h, i) /\ ~Inserted(h, i)'
      BY <3>2
    <3>4. QED
      BY <2>1, <2>2, <3>3
  <2>4. QED
    BY <2>1, <2>2, <2>3
<1>8. TargetImage' /\ ExpireThreads'
  BY DEF TargetImage, ExpireThreads, Flow
<1>9. QED
  BY <1>6, <1>7, <1>8 DEF Flow

LEMMA SubmitFlow ==
  ASSUME Inv, Flow, NEW h \in Handlers, Submit(h)
  PROVE  Flow'
<1> DEFINE r == handler[h].req
           k == [ op |-> r.op, ident |-> handler[h].ident,
                  system |-> r.system, id |-> NoImage,
                  acl |-> IF r.op = "import" THEN Null ELSE r.acl,
                  file |-> r.file ]
<1>1. /\ handler[h] \in HandlerStates /\ handler[h].pc = "submit"
      /\ handler[h].ident \in Idents /\ r.op \in {"pull", "import"}
  BY HandlerBusy DEF Submit, HandlerInv, Inv
<1>2. k \in Tasks
  BY <1>1 DEF HandlerStates, Requests, Tasks, Access
<1>3. pool' = Append(pool, k) /\ UNCHANGED <<images, worker, queue, status>>
  BY DEF Submit
<1>4. k.op # "expire" /\ Inserted(h, k.ident)
  BY <1>1 DEF Inserted
<1>5. HandlersStay
  BY <1>1, StayGoto DEF Submit, Inv
<1>6. \A i \in Idents : ~Inserted(h, i)'
  BY <1>1 DEF Submit, Goto, Inserted, Inv, TypeOK
<1> HIDE DEF k
<1>7. QED
  BY <1>2, <1>3, <1>4, <1>5, <1>6, PoolFlow

LEMMA ExpireFlow ==
  ASSUME Inv, Flow, NEW h \in Handlers, ExpireId(h) \/ Expire(h)
  PROVE  Flow'
<1>1. handler[h] \in HandlerStates /\ handler[h].pc # "idle"
  BY HandlerBusy DEF ExpireId, Expire, Inv
<1>2. CASE ExpireId(h)
  <2>1. PICK v \in handler[h].todo :
          /\ pool' = Append(pool, ExpireTask(v[1], handler[h].req.system, v[2]))
          /\ handler' = [handler EXCEPT ![h].todo = @ \ {v}]
    BY <1>2 DEF ExpireId
  <2> DEFINE s == [handler[h] EXCEPT !.todo = @ \ {v}]
             k == ExpireTask(v[1], handler[h].req.system, v[2])
  <2>2. /\ v[1] \in Idents /\ v[2] \in ImageIds \cup {NoImage}
        /\ handler[h].req.system \in Systems
    BY <1>1 DEF HandlerStates, Requests
  <2>3. k \in Tasks /\ k.op = "expire" /\ k.ident = v[1]
    BY <2>2, ExpireTaskTyped DEF ExpireTask
  <2>4. /\ handler' = [handler EXCEPT ![h] = s]
        /\ s.pc = "doexpire" /\ s.todo = handler[h].todo \ {v}
        /\ handler[h].pc = "doexpire"
    BY <1>1, <1>2, <2>1 DEF HandlerStates, ExpireId
  <2> HIDE DEF s, k
  <2>5. HandlersStay
    BY <2>4, StayMove DEF Inv
  <2>6. Done(k.ident)
    BY <2>3, <2>4 DEF Done, Expires, InTodo
  <2>7. pool' = Append(pool, k) /\ UNCHANGED <<images, worker, queue, status>>
    BY <1>2, <2>1 DEF ExpireId, k
  <2>8. QED
    BY <2>3, <2>5, <2>6, <2>7, PoolFlow
<1>3. CASE Expire(h)
  <2>1. HandlersStay
    BY <1>3, StayReturn DEF Expire, Inv
  <2>2. CASE UNCHANGED pool
    <3>1. Tame /\ KeepsAll
      BY <1>3, TameUnchanged, KeepsUnchanged DEF Expire, Inv
    <3>2. QED
      BY <1>3, <2>1, <2>2, <3>1, KeptNames, KeptOver, QuietFlow DEF Expire, Inv
  <2>3. ASSUME NEW i \in Idents, Carries(images[i], handler[h].req),
               pool' = Append(pool, ExpireTask(i, handler[h].req.system,
                                               images[i].id))
        PROVE  Flow'
    <3> DEFINE k == ExpireTask(i, handler[h].req.system, images[i].id)
    <3>1. /\ images[i].id \in ImageIds \cup {NoImage}
          /\ handler[h].req.system \in Systems
      BY <1>1, DocumentCases DEF HandlerStates, Requests, Inv, TypeOK
    <3>2. k \in Tasks /\ k.op = "expire" /\ k.ident = i
      BY <3>1, ExpireTaskTyped DEF ExpireTask
    <3>3. Done(i)
      BY <2>3 DEF Carries, Done
    <3> HIDE DEF k
    <3>4. pool' = Append(pool, k)
      BY <2>3 DEF k
    <3>5. QED
      BY <1>3, <2>1, <3>2, <3>3, <3>4, PoolFlow DEF Expire
  <2>4. QED
    BY <1>3, <2>2, <2>3 DEF Expire
<1>4. QED
  BY <1>2, <1>3

-----------------------------------------------------------------------------
(* The steps of a worker thread.                                           *)

LEMMA TakeFlow ==
  ASSUME Inv, Flow, NEW t \in Threads, Take(t)
  PROVE  Flow'
<1>1. /\ Len(pool') = Len(pool) - 1 /\ Len(pool) \in Nat \ {0}
      /\ \A n \in 1..Len(pool') : n + 1 \in 1..Len(pool)
                                  /\ pool'[n] = pool[n + 1]
      /\ 1 \in 1..Len(pool)
      /\ worker'[t] = [pc |-> "start", task |-> pool[1]]
      /\ \A u \in Threads : u # t => worker'[u] = worker[u]
      /\ worker[t].pc = "idle"
      /\ UNCHANGED <<images, handler, queue, status>>
  BY DEF Take, Inv, TypeOK
<1>2. \A i \in Idents :
        /\ \A n \in 1..Len(pool') : Queued(n, i)' => n + 1 \in 1..Len(pool)
                                                     /\ Queued(n + 1, i)
        /\ \A u \in Threads : Runs(u, i)' =>
             IF u = t THEN Queued(1, i)
                      ELSE Runs(u, i) /\ worker'[u].pc = worker[u].pc
        /\ \A h \in Handlers : Inserted(h, i)' <=> Inserted(h, i)
  BY <1>1 DEF Queued, Runs, Inserted
<1>3. \A i \in Idents : Early(i)' => Early(i)
  BY <1>1, <1>2 DEF Early
<1>4. \A i \in Idents : Awaiting(i)' => Awaiting(i)
  BY <1>1, <1>2, <1>3 DEF Awaiting, Early
<1>5. \A i \in Idents : Expires(i)' => Expires(i)
  <2> SUFFICES ASSUME NEW i \in Idents, Expires(i)'
               PROVE  Expires(i)
    OBVIOUS
  <2>1. CASE \E h \in Handlers : (handler[h].pc = "doexpire" /\ InTodo(h, i))'
    BY <1>1, <2>1 DEF Expires, InTodo
  <2>2. ASSUME NEW n \in 1..Len(pool'),
               pool'[n].op = "expire" /\ pool'[n].ident = i
        PROVE  Expires(i)
    BY <1>1, <2>2 DEF Expires
  <2>3. ASSUME NEW u \in Threads, worker'[u].pc # "idle",
               worker'[u].task.op = "expire", worker'[u].task.ident = i
        PROVE  Expires(i)
    <3>1. CASE u = t
      BY <1>1, <2>3, <3>1 DEF Expires
    <3>2. CASE u # t
      BY <1>1, <2>3, <3>2 DEF Expires
    <3>3. QED
      BY <3>1, <3>2
  <2>4. QED
    BY <2>1, <2>2, <2>3 DEF Expires
<1>6. \A i \in Idents : /\ Done(i)' => Done(i)
                        /\ Published(i)' => Published(i)
                        /\ Applying(i)' => Applying(i)
  BY <1>1, <1>5 DEF Done, Busy, Published, Applying
<1>7. EarlyFresh' /\ InOrder' /\ Once'
  BY <1>1, <1>3, <1>4, <1>6, KeepsQueue DEF Inv, Flow
<1>8. HoldOne'
  <2> SUFFICES ASSUME NEW i \in Idents
               PROVE
        /\ \A g, f \in Handlers : Inserted(g, i)' /\ Inserted(f, i)' => f = g
        /\ \A m, n \in 1..Len(pool') : Queued(m, i)' /\ Queued(n, i)' => n = m
        /\ \A u, v \in Threads : Runs(u, i)' /\ Runs(v, i)' => v = u
        /\ \A g \in Handlers, n \in 1..Len(pool') :
             ~(Inserted(g, i)' /\ Queued(n, i)')
        /\ \A g \in Handlers, u \in Threads : ~(Inserted(g, i)' /\ Runs(u, i)')
        /\ \A n \in 1..Len(pool'), u \in Threads : ~(Queued(n, i)' /\ Runs(u, i)')
    BY DEF HoldOne
  <2>1. /\ \A g, f \in Handlers : Inserted(g, i) /\ Inserted(f, i) => f = g
        /\ \A m, n \in 1..Len(pool) : Queued(m, i) /\ Queued(n, i) => n = m
        /\ \A u, v \in Threads : Runs(u, i) /\ Runs(v, i) => v = u
        /\ \A g \in Handlers, n \in 1..Len(pool) : ~(Inserted(g, i) /\ Queued(n, i))
        /\ \A g \in Handlers, u \in Threads : ~(Inserted(g, i) /\ Runs(u, i))
        /\ \A n \in 1..Len(pool), u \in Threads : ~(Queued(n, i) /\ Runs(u, i))
    BY DEF HoldOne, Flow
  <2>2. \A m, n \in 1..Len(pool') : Queued(m, i)' /\ Queued(n, i)' => n = m
    <3> SUFFICES ASSUME NEW m \in 1..Len(pool'), NEW n \in 1..Len(pool'),
                        Queued(m, i)', Queued(n, i)'
                 PROVE  n = m
      OBVIOUS
    <3>1. /\ m + 1 \in 1..Len(pool) /\ Queued(m + 1, i)
          /\ n + 1 \in 1..Len(pool) /\ Queued(n + 1, i)
      BY <1>2
    <3>2. n + 1 = m + 1
      BY <2>1, <3>1
    <3>3. QED
      BY <3>2
  <2>3. \A n \in 1..Len(pool') : Queued(n, i)' => ~Queued(1, i)
    <3> SUFFICES ASSUME NEW n \in 1..Len(pool'), Queued(n, i)', Queued(1, i)
                 PROVE  FALSE
      OBVIOUS
    <3>1. n + 1 \in 1..Len(pool) /\ Queued(n + 1, i)
      BY <1>2
    <3>2. n + 1 = 1
      BY <1>1, <2>1, <3>1
    <3>3. QED
      BY <3>2
  <2>4. \A u, v \in Threads : Runs(u, i)' /\ Runs(v, i)' => v = u
    BY <1>1, <1>2, <2>1
  <2>5. \A g \in Handlers, n \in 1..Len(pool') :
          ~(Inserted(g, i)' /\ Queued(n, i)')
    BY <1>2, <2>1
  <2>6. \A g \in Handlers, u \in Threads : ~(Inserted(g, i)' /\ Runs(u, i)')
    BY <1>1, <1>2, <2>1
  <2>7. \A n \in 1..Len(pool'), u \in Threads : ~(Queued(n, i)' /\ Runs(u, i)')
    <3> SUFFICES ASSUME NEW n \in 1..Len(pool'), NEW u \in Threads,
                        Queued(n, i)', Runs(u, i)'
                 PROVE  FALSE
      OBVIOUS
    <3>1. n + 1 \in 1..Len(pool) /\ Queued(n + 1, i) /\ ~Queued(1, i)
      BY <1>2, <2>3
    <3>2. Runs(u, i)
      BY <1>2, <3>1
    <3>3. QED
      BY <2>1, <3>1, <3>2
  <2>8. QED
    BY <1>2, <2>1, <2>2, <2>4, <2>5, <2>6, <2>7
<1>9. TargetImage' /\ ExpireThreads'
  BY <1>1 DEF TargetImage, ExpireThreads, Flow
<1>10. QED
  BY <1>7, <1>8, <1>9 DEF Flow

\* A thread that goes on with its task, or is done with it, holds no other
\* request than before.
LEMMA ThreadMoves ==
  ASSUME Inv, Flow, NEW t \in Threads, worker[t].pc # "idle", NEW pc,
         IF pc = "idle" THEN WorkerDone(t) ELSE WorkerTo(t, pc),
         pc \in {"transfer", "failed"} => worker[t].task.op # "expire",
         UNCHANGED <<images, handler, pool, status>>
  PROVE  /\ HoldOne' /\ TargetImage' /\ ExpireThreads'
         /\ \A i \in Idents :
              /\ Expires(i)' => Expires(i)
              /\ Done(i)' => Done(i)
              /\ Published(i)' => Published(i)
              /\ Applying(i)' => Applying(i)
              /\ \A u \in Threads :
                   Runs(u, i)' => /\ Runs(u, i)
                                  /\ worker'[u].pc = IF u = t THEN pc
                                                     ELSE worker[u].pc
              /\ \A h \in Handlers : Inserted(h, i)' => Inserted(h, i)
              /\ \A k \in 1..Len(pool) : Queued(k, i)' => Queued(k, i)
<1>1. worker[t] \in WorkerStates
  BY DEF Inv, TypeOK, Idle
<1>2. /\ worker'[t].pc = pc
      /\ pc # "idle" => worker'[t].task = worker[t].task
      /\ \A u \in Threads : u # t => worker'[u] = worker[u]
  BY <1>1 DEF WorkerDone, WorkerTo, WorkerStates, Idle, Inv, TypeOK
<1>3. \A i \in Idents :
        /\ \A u \in Threads :
             Runs(u, i)' => /\ Runs(u, i)
                            /\ worker'[u].pc = IF u = t THEN pc
                                               ELSE worker[u].pc
        /\ \A h \in Handlers : Inserted(h, i)' => Inserted(h, i)
        /\ \A k \in 1..Len(pool) : Queued(k, i)' => Queued(k, i)
  BY <1>2 DEF Runs, Inserted, Queued
<1>4. HoldOne'
  BY <1>3 DEF HoldOne, Flow
<1>5. TargetImage' /\ ExpireThreads'
  BY <1>2 DEF TargetImage, ExpireThreads, Flow
<1>6. \A i \in Idents : Expires(i)' => Expires(i)
  BY <1>2 DEF Expires, InTodo
<1>7. \A i \in Idents : /\ Done(i)' => Done(i)
                        /\ Published(i)' => Published(i)
                        /\ Applying(i)' => Applying(i)
  BY <1>6 DEF Done, Busy, Published, Applying
<1>8. QED
  BY <1>3, <1>4, <1>5, <1>6, <1>7

\* A thread posts a message and goes on.
LEMMA PostFlow ==
  ASSUME Inv, Flow, NEW t \in Threads, worker[t].pc # "idle", NEW pc,
         NEW state \in Status, NEW response \in Responses \cup {NoResponse},
         state = "READY" <=> response # NoResponse,
         Post(t, state, response),
         IF pc = "idle" THEN WorkerDone(t) ELSE WorkerTo(t, pc),
         OnlyWorker,
         worker[t].task.op # "expire" =>
           \/ /\ state \in InFlight /\ worker[t].pc \in {"start", "work"}
              /\ pc \in {"work", "transfer"}
              /\ worker[t].pc = "start" => pc = "work"
           \/ state = "READY" /\ worker[t].pc = "transfer" /\ pc = "idle"
           \/ state = "FAILURE" /\ pc \in {"failed", "idle"},
         worker[t].task.op = "expire" => /\ state \in Over \ {"READY"}
                                         /\ pc \notin {"transfer", "failed"}
  PROVE  Flow'
<1>1. PICK i \in Idents : i = worker[t].task.ident
  BY DEF Inv, TypeOK, Idle, WorkerStates, Tasks
<1> DEFINE m == [ident |-> i, state |-> state, response |-> response]
<1>2. m \in Messages /\ m.ident = i /\ m.state = state
  BY DEF Messages
<1>3. queue' = Append(queue, m)
  BY <1>1 DEF Post
<1>4. /\ HoldOne' /\ TargetImage' /\ ExpireThreads'
      /\ \A j \in Idents :
           /\ Done(j)' => Done(j)
           /\ Published(j)' => Published(j)
           /\ Applying(j)' => Applying(j)
           /\ \A u \in Threads :
                Runs(u, j)' => /\ Runs(u, j)
                               /\ worker'[u].pc = IF u = t THEN pc
                                                  ELSE worker[u].pc
           /\ \A h \in Handlers : Inserted(h, j)' => Inserted(h, j)
           /\ \A k \in 1..Len(pool) : Queued(k, j)' => Queued(k, j)
  BY ThreadMoves DEF OnlyWorker
<1>5. Over \cap InFlight = {} /\ "FAILURE" \in Over /\ "READY" \in Over
  BY DEF Over, InFlight, Working
<1>6. \A j \in Idents : Early(j)' => Early(j)
  <2> SUFFICES ASSUME NEW j \in Idents, Early(j)'
               PROVE  Early(j)
    OBVIOUS
  <2>1. CASE \E u \in Threads : Runs(u, j)' /\ worker'[u].pc \in {"start", "work"}
    <3>1. PICK u \in Threads : Runs(u, j)' /\ worker'[u].pc \in {"start", "work"}
      BY <2>1
    <3>2. Runs(u, j)
      BY <1>4, <3>1
    <3>3. CASE u # t
      BY <1>4, <3>1, <3>2, <3>3 DEF Early
    <3>4. CASE u = t
      <4>1. pc \in {"start", "work"} /\ worker[t].task.op # "expire"
        BY <1>4, <3>1, <3>2, <3>4 DEF Runs
      <4>2. worker[t].pc \in {"start", "work"}
        BY <4>1
      <4>3. QED
        BY <3>2, <3>4, <4>2 DEF Early
    <3>5. QED
      BY <3>3, <3>4
  <2>2. CASE \E h \in Handlers : Inserted(h, j)'
    BY <1>4, <2>2 DEF Early
  <2>3. CASE \E k \in 1..Len(pool) : Queued(k, j)'
    BY <1>4, <2>3 DEF Early
  <2>4. QED
    BY <2>1, <2>2, <2>3 DEF Early, OnlyWorker
<1>7. \A j \in Idents : Awaiting(j)' => Awaiting(j)
  <2> SUFFICES ASSUME NEW j \in Idents, NEW u \in Threads, Runs(u, j)',
                      worker'[u].pc = "transfer"
               PROVE  Awaiting(j)
    BY <1>6 DEF Awaiting
  <2>1. Runs(u, j)
    BY <1>4
  <2>2. CASE u # t
    BY <1>4, <2>1, <2>2 DEF Awaiting
  <2>3. CASE u = t
    <3>1. pc = "transfer" /\ worker[t].task.op # "expire"
      BY <1>4, <2>1, <2>3 DEF Runs
    <3>2. worker[t].pc \in {"start", "work"}
      BY <3>1
    <3>3. QED
      BY <2>1, <2>3, <3>2 DEF Awaiting, Early
  <2>4. QED
    BY <2>2, <2>3
<1>8. state \in InFlight => Early(i)
  <2>1. CASE worker[t].task.op = "expire"
    BY <1>5, <2>1
  <2>2. CASE worker[t].task.op # "expire"
    BY <1>1, <1>5, <2>2 DEF Early, Runs
  <2>3. QED
    BY <2>1, <2>2
<1>9. ASSUME state \notin InFlight
      PROVE  ~Early(i)'
  <2>1. CASE worker[t].task.op = "expire"
    <3>1. Done(i)
      BY <1>1, <2>1 DEF Done, Expires
    <3>2. QED
      BY <1>6, <3>1 DEF EarlyFresh, Flow
  <2>2. CASE worker[t].task.op # "expire"
    <3>1. Runs(t, i) /\ pc \in {"failed", "idle"}
      BY <1>1, <1>9, <2>2 DEF Runs
    <3>2. \A h \in Handlers : ~Inserted(h, i)'
      BY <1>4, <3>1 DEF HoldOne, Flow
    <3>3. \A k \in 1..Len(pool) : ~Queued(k, i)'
      BY <1>4, <3>1 DEF HoldOne, Flow
    <3>4. \A u \in Threads : Runs(u, i)' => worker'[u].pc \notin {"start", "work"}
      BY <1>4, <3>1 DEF HoldOne, Flow
    <3>5. QED
      BY <3>2, <3>3, <3>4 DEF Early, OnlyWorker
  <2>3. QED
    BY <2>1, <2>2
<1>10. ASSUME state = "READY"
       PROVE  Awaiting(i) /\ ~Awaiting(i)'
  <2>1. worker[t].task.op # "expire"
    BY <1>10
  <2>2. worker[t].pc = "transfer" /\ pc = "idle" /\ Runs(t, i)
    BY <1>1, <1>5, <1>10, <2>1 DEF Runs
  <2>3. ~Early(i)'
    BY <1>5, <1>9, <1>10
  <2>4. \A u \in Threads : Runs(u, i)' => worker'[u].pc # "transfer"
    BY <1>4, <2>2 DEF HoldOne, Flow
  <2>5. QED
    BY <2>2, <2>3, <2>4 DEF Awaiting
<1> HIDE DEF m
<1>11. EarlyFresh' /\ InOrder' /\ Once'
  BY <1>2, <1>3, <1>4, <1>6, <1>7, <1>8, <1>9, <1>10, PostsMessage DEF Inv, Flow
<1>12. QED
  BY <1>4, <1>11 DEF Flow

LEMMA WorkerFlow ==
  ASSUME Inv, Flow, NEW t \in Threads, WorkerStep(t)
  PROVE  Flow'
<1>1. CASE Take(t)
  BY <1>1, TakeFlow
<1>2. CASE Begin(t)
  <2>1. worker[t].task.op \in {"pull", "import", "expire"}
    BY <1>2 DEF Begin, Inv, TypeOK, Idle, WorkerStates, Tasks
  <2>2. PICK state \in Status \ {"READY"} :
          /\ Post(t, state, NoResponse)
          /\ IF worker[t].task.op = "expire" THEN state = "EXPIRING"
                                             ELSE state \in InFlight
    BY <1>2, <2>1 DEF Begin, Status, InFlight, Working
  <2>3. QED
    BY <1>2, <2>2, PostFlow DEF Begin, Over
<1>3. CASE Transfer(t)
  <2>1. "TRANSFER" \in InFlight /\ "TRANSFER" \in Status
    BY DEF Status, InFlight, Working
  <2>2. QED
    BY <1>3, <2>1, PostFlow DEF Transfer, Status
<1>4. CASE Complete(t)
  <2>1. PICK resp \in Responses : CompleteWith(t, resp)
    BY <1>4 DEF Complete
  <2>2. resp # NoResponse
    BY ImageDBAssumption DEF Responses, NoResponse, ImageIds
  <2>3. "READY" \in Status
    BY DEF Status
  <2>4. worker[t].task.op # "expire"
    BY <2>1 DEF CompleteWith, ExpireThreads, Flow
  <2>5. QED
    BY <2>1, <2>2, <2>3, <2>4, PostFlow DEF CompleteWith
<1>5. CASE Expired(t)
  BY <1>5, PostFlow DEF Expired, Status, Over
<1>6. CASE Fail(t)
  BY <1>6, PostFlow DEF Fail, Status, Over
<1>7. CASE FailAgain(t)
  BY <1>7, PostFlow DEF FailAgain, Status, Over
<1>8. QED
  BY <1>1, <1>2, <1>3, <1>4, <1>5, <1>6, <1>7 DEF WorkerStep

-----------------------------------------------------------------------------
(* The steps of the status process, faults and restarts.                   *)

\* The status process leaves the requests where they are.
LEMMA StatusHolds ==
  ASSUME Flow, OnlyStatus
  PROVE  /\ HoldOne' /\ ExpireThreads'
         /\ \A i \in Idents : /\ Early(i)' => Early(i)
                              /\ Awaiting(i)' => Awaiting(i)
                              /\ Expires(i)' => Expires(i)
BY DEF Flow, HoldOne, ExpireThreads, Early, Awaiting, Expires, Inserted, Queued,
       Runs, InTodo, OnlyStatus

LEMMA UpdateMongoStateFlow ==
  ASSUME Inv, Flow, UpdateMongoState
  PROVE  Flow'
<1> DEFINE m == Head(queue)
<1>1. /\ m \in Messages /\ m.state # "READY"
      /\ Set(m.ident, SetBeat(images[m.ident], m.state))
      /\ queue # <<>> /\ queue' = Tail(queue) /\ UNCHANGED status /\ OnlyStatus
  BY MessageFacts DEF UpdateMongoState, Inv
<1>2. m.ident \in Idents /\ m.state \in Status \ {"READY"}
  BY <1>1 DEF Messages
<1>3. images[m.ident] \in Document
  BY <1>2 DEF Inv, TypeOK
<1>4. Tame
  BY <1>1, <1>2, <1>3, TamerState, TameSet DEF Inv
<1>5. \A i \in Idents : images'[i].status \in Over =>
        images[i].status \in Over \/ Comes(i, Over)
  BY <1>1, <1>3 DEF Set, SetBeat, Assign, Comes, Inv, TypeOK
<1>6. \A i \in Idents : Done(i)' => Done(i) \/ Comes(i, Over)
  BY <1>1, <1>4, <1>5, StatusHolds, TamePublished DEF Done, Busy, Inv
<1>7. \A i \in Idents : /\ Published(i)' => Published(i)
                        /\ Applying(i)' => Applying(i)
  BY <1>1, <1>4, TamePublished DEF Published, Applying, Inv
<1>8. EarlyFresh' /\ InOrder' /\ Once'
  BY <1>1, <1>6, <1>7, StatusHolds, TakesMessage DEF Inv, Flow
<1>9. TargetImage'
  <2>1. Busy => status.target \in Idents
    BY BusyFacts DEF Inv
  <2>2. QED
    BY <1>1, <1>4, <2>1, AbsentFacts DEF Tame, Tamer, TargetImage, Busy, Flow
<1>10. QED
  BY <1>1, <1>8, <1>9, StatusHolds DEF Flow

LEMMA MissingPullFlow ==
  ASSUME Inv, Flow, MissingPull
  PROVE  Flow'
<1>1. /\ queue # <<>> /\ queue' = Tail(queue)
      /\ UNCHANGED <<images, status>> /\ OnlyStatus
  BY DEF MissingPull
<1>2. \A i \in Idents : /\ Done(i)' => Done(i)
                        /\ Published(i)' => Published(i)
                        /\ Applying(i)' => Applying(i)
  BY <1>1, StatusHolds DEF Done, Busy, Published, Applying
<1>3. EarlyFresh' /\ InOrder' /\ Once'
  BY <1>1, <1>2, StatusHolds, TakesMessage DEF Inv, Flow
<1>4. QED
  BY <1>1, <1>3, StatusHolds DEF Flow, TargetImage

LEMMA BeginReadyFlow ==
  ASSUME Inv, Flow, BeginReady
  PROVE  Flow'
<1> DEFINE m == Head(queue)
<1>1. /\ m \in Messages /\ m.state = "READY" /\ Exists(images[m.ident])
      /\ queue # <<>> /\ queue' = Tail(queue) /\ UNCHANGED images /\ OnlyStatus
      /\ status.pc = "idle"
  BY MessageFacts DEF BeginReady, Inv
<1>2. m.ident \in Idents /\ m.response \in Responses
  BY <1>1 DEF Messages
<1>3. PICK target \in Idents, pc \in {"ready", "untag", "touch"} :
        /\ status' = [ pc |-> pc, ident |-> m.ident, target |-> target,
                       system |-> images[m.ident].system,
                       tag |-> images[m.ident].pulltag,
                       response |-> m.response, acls |-> pc = "untag" ]
        /\ \/ pc = "ready" /\ target = m.ident
           \/ pc # "ready" /\ target \in SameImage(m.ident, m.response)
  BY <1>2 DEF BeginReady, SameImage
<1>4. pc # "ready" => /\ IsReady(images[target])
                      /\ images[target].id = m.response.id
  BY <1>3 DEF SameImage
<1>5. "READY" \in Over /\ \A i \in Idents : IsReady(images[i]) => Done(i)
  BY DEF Over, IsReady, Done
<1>6. \A i \in Idents : Done(i)' => Done(i) \/ Comes(i, Over)
  BY <1>1, <1>3, <1>4, <1>5, StatusHolds DEF Done, Comes
<1>7. \A i \in Idents : Published(i)' => Published(i)
  BY <1>1, <1>3, <1>4 DEF Published, StatusPC
<1>8. \A i \in Idents : Applying(i)' => Comes(i, {"READY"})
  BY <1>1, <1>3 DEF Applying, Comes
<1>9. EarlyFresh' /\ InOrder' /\ Once'
  BY <1>1, <1>6, <1>7, <1>8, StatusHolds, TakesMessage DEF Inv, Flow
<1>10. TargetImage'
  BY <1>1, <1>3, <1>4 DEF TargetImage
<1>11. QED
  BY <1>1, <1>9, <1>10, StatusHolds DEF Flow

\* A step of the status process with a document in its hands.
LEMMA StatusFlow ==
  ASSUME Inv, Flow, Busy, OnlyStatus, UNCHANGED queue,
         \/ status' \in {Idle, Dead}
         \/ \E pc \in StatusPC \ {"ready"} : StatusTo(pc),
         \A i \in Idents :
           /\ images'[i].status \in Over =>
                images[i].status \in Over \/ i = status.ident
           /\ IsReady(images'[i]) => IsReady(images[i]) \/ Applying(i)
           /\ images'[i].tag # {} =>
                images[i].tag # {} \/ (status.pc = "retag" /\ i = status.target),
         TargetImage'
  PROVE  Flow'
<1>1. \/ status' \in {Idle, Dead}
      \/ /\ status'.pc \in StatusPC \ {"ready"}
         /\ status'.ident = status.ident /\ status'.target = status.target
  BY StatusMove DEF Inv
<1>2. /\ \A i \in Idents : ~Applying(i)'
      /\ Busy' => status'.ident = status.ident /\ status'.target = status.target
  BY <1>1 DEF Applying, Idle, Dead, Busy
<1>3. \A i \in Idents : Done(i)' => Done(i)
  <2> SUFFICES ASSUME NEW i \in Idents, Done(i)'
               PROVE  Done(i)
    OBVIOUS
  <2>1. CASE images'[i].status \in Over \/ images'[i].tag # {}
    BY <2>1 DEF Done, Busy
  <2>2. CASE Expires(i)'
    BY <2>2, StatusHolds DEF Done
  <2>3. CASE Busy' /\ i \in {status'.ident, status'.target}
    BY <1>2, <2>3 DEF Done
  <2>4. QED
    BY <2>1, <2>2, <2>3 DEF Done
<1>4. status.pc = "ready" => status.target = status.ident
  BY DEF Inv, StatusInv
<1>5. \A i \in Idents : Published(i)' => Published(i) \/ Applying(i)
  <2> SUFFICES ASSUME NEW i \in Idents, Published(i)'
               PROVE  Published(i) \/ Applying(i)
    OBVIOUS
  <2>1. CASE IsReady(images'[i]) \/ images'[i].tag # {}
    BY <2>1 DEF Published, StatusPC
  <2>2. CASE status'.pc \in StatusPC \ {"ready"} /\ status'.target = i
    <3>1. status.target = i
      BY <1>1, <2>2 DEF Idle, Dead, StatusPC
    <3>2. status.pc \in StatusPC
      BY BusyFacts DEF StatusStates, Inv
    <3>3. QED
      BY <1>4, <3>1, <3>2 DEF Published, Applying
  <2>3. QED
    BY <2>1, <2>2 DEF Published
<1>6. EarlyFresh' /\ InOrder' /\ Once'
  BY <1>2, <1>3, <1>5, StatusHolds, KeepsQueue DEF Inv, Flow
<1>7. QED
  BY <1>6, StatusHolds DEF Flow

LEMMA TameStatusFlow ==
  ASSUME Inv, Flow, Busy, OnlyStatus, UNCHANGED queue, Tame, NamesAll,
         \/ status' \in {Idle, Dead}
         \/ \E pc \in StatusPC \ {"ready"} :
              /\ StatusTo(pc)
              /\ pc \in {"touch", "drop", "untag", "retag"} =>
                   status.pc \in {"touch", "drop", "untag", "retag"}
  PROVE  Flow'
<1>1. \A i \in Idents :
        /\ images'[i].status \in Over => images[i].status \in Over
        /\ IsReady(images'[i]) => IsReady(images[i])
        /\ images'[i].tag # {} => images[i].tag # {}
  BY KeptOver, TamePublished DEF Inv
<1>2. TargetImage'
  <2>1. status.target \in Idents
    BY BusyFacts DEF Inv
  <2>2. Exists(images'[status.target]) =>
          /\ Exists(images[status.target])
          /\ images'[status.target].id = images[status.target].id
    BY <2>1, AbsentFacts DEF Tame, Tamer
  <2>3. \/ status' \in {Idle, Dead}
        \/ /\ status'.pc \in {"touch", "drop", "untag", "retag"} =>
                status.pc \in {"touch", "drop", "untag", "retag"}
           /\ status'.target = status.target
           /\ status'.response = status.response
    BY StatusMove DEF Inv
  <2>4. QED
    BY <2>2, <2>3 DEF TargetImage, Flow, Idle, Dead
<1>3. QED
  BY <1>1, <1>2, StatusFlow

LEMMA SetReadyFlow ==
  ASSUME Inv, Flow, SetReady
  PROVE  Flow'
<1>1. Busy /\ OnlyStatus /\ UNCHANGED queue /\ StatusTo("untag")
  BY DEF SetReady, Busy
<1>2. /\ status.target = status.ident /\ status.ident \in Idents
      /\ images[status.ident] \in Document /\ status.response \in Responses
  BY <1>1, BusyFacts DEF SetReady, Inv, StatusInv
<1> DEFINE e == MakeReady(images[status.ident], status.response)
<1>3. \A i \in Idents :
        images'[i] = IF i = status.ident THEN e ELSE images[i]
  BY DEF SetReady, Set, Inv, TypeOK
<1>4. /\ Exists(e) <=> Exists(images[status.ident])
      /\ e.tag = images[status.ident].tag
      /\ Exists(e) => e.id = status.response.id
  BY <1>2, MakeReadyFacts
<1> HIDE DEF e
<1>5. \A i \in Idents :
        /\ images'[i].status \in Over =>
             images[i].status \in Over \/ i = status.ident
        /\ IsReady(images'[i]) => IsReady(images[i]) \/ Applying(i)
        /\ images'[i].tag # {} => images[i].tag # {}
  BY <1>3, <1>4 DEF Applying, SetReady
<1>6. TargetImage'
  BY <1>1, <1>2, <1>3, <1>4, StatusMove DEF TargetImage, StatusPC, Inv
<1>7. QED
  BY <1>1, <1>5, <1>6, StatusFlow DEF StatusPC

LEMMA RetagFlow ==
  ASSUME Inv, Flow, Retag
  PROVE  Flow'
<1>1. Busy /\ OnlyStatus /\ UNCHANGED queue
  BY DEF Retag, Busy
<1>2. /\ status.target \in Idents /\ images[status.target] \in Document
      /\ status.tag \in Tags
  BY <1>1, BusyFacts DEF Inv
<1>3. Set(status.target, AddToSet(images[status.target], status.tag))
  BY DEF Retag
<1>4. \/ StatusTo("acls") \/ status' = Idle
  BY DEF Retag
<1>5. NamesAll
  <2>1. /\ \A i \in Idents : images[i] \in Document
        /\ status.system \in Systems
        /\ \A i \in Idents : images'[i] =
             IF i = status.target THEN AddToSet(images[i], status.tag)
                                  ELSE images[i]
    BY <1>1, <1>3, BusyFacts DEF Set, Inv, TypeOK
  <2>2. QED
    BY <2>1, NamedTagging, KeptUpdates DEF NamesAll, Kept
<1>6. \A i \in Idents : i # status.target => images'[i] = images[i]
  BY <1>3 DEF Set, Inv, TypeOK
<1>7. IsReady(images'[status.target]) => IsReady(images[status.target])
  BY <1>2, <1>3, AddToSetFacts DEF Set, Inv, TypeOK
<1>8. TargetImage'
  BY <1>1, <1>4, StatusMove DEF TargetImage, Idle, StatusPC, Inv
<1>9. \A i \in Idents :
        /\ images'[i].status \in Over => images[i].status \in Over
        /\ IsReady(images'[i]) => IsReady(images[i])
        /\ images'[i].tag # {} => images[i].tag # {} \/ i = status.target
  BY <1>5, <1>6, <1>7, KeptOver
<1>10. status.pc = "retag"
  BY DEF Retag
<1>11. QED
  BY <1>1, <1>4, <1>8, <1>9, <1>10, StatusFlow DEF StatusPC

\* The steps that touch, untag or remove a document.
TameStatusStep ==
  TouchTarget \/ DropDuplicate \/ Untag \/ UpdateAcls \/ DropAclPull

LEMMA TameStatusKeeps ==
  ASSUME Inv, TameStatusStep
  PROVE  /\ Tame /\ NamesAll /\ (~Untag => KeepsAll)
         /\ Busy /\ OnlyStatus /\ UNCHANGED queue
<1>1. Busy /\ OnlyStatus /\ UNCHANGED queue
  BY DEF TameStatusStep, TouchTarget, DropDuplicate, Untag, UpdateAcls,
         DropAclPull, Busy
<1>2. /\ status.ident \in Idents /\ images[status.ident] \in Document
      /\ status.target \in Idents /\ images[status.target] \in Document
      /\ status.system \in Systems /\ status.tag \in Tags
      /\ status.response.acl \in Access
  BY <1>1, BusyFacts DEF Inv, Responses
<1>3. CASE TouchTarget
  BY <1>1, <1>2, <1>3, TamerTimes, TameSet, KeptUpdates, KeepsSet, KeptNames
  DEF TouchTarget, Inv
<1>4. CASE DropDuplicate \/ DropAclPull
  BY <1>1, <1>2, <1>4, TamerSelf, TameSet, KeptUpdates, KeepsSet, KeptNames
  DEF DropDuplicate, DropAclPull, Inv
<1>5. CASE UpdateAcls
  BY <1>1, <1>2, <1>5, TamerAccess, TameSet, KeptUpdates, KeepsSet, KeptNames
  DEF UpdateAcls, Inv
<1>6. CASE Untag
  <2>1. \A i \in Idents : images[i] \in Document
    BY DEF Inv, TypeOK
  <2>2. \A i \in Idents :
          images'[i] = RemoveTag(images[i], status.system, status.tag)
    BY <1>6 DEF Untag
  <2>3. Tame /\ NamesAll
    BY <1>2, <2>1, <2>2, TamerUntag, NamedTagging DEF Tame, NamesAll
  <2>4. QED
    BY <1>1, <1>6, <2>3
<1>7. QED
  BY <1>3, <1>4, <1>5, <1>6 DEF TameStatusStep

LEMMA TameStatusStepFlow ==
  ASSUME Inv, Flow, TameStatusStep
  PROVE  Flow'
<1>1. Tame /\ NamesAll /\ Busy /\ OnlyStatus /\ UNCHANGED queue
  BY TameStatusKeeps
<1>2. CASE TouchTarget
  BY <1>1, <1>2, TameStatusFlow DEF TouchTarget, StatusPC
<1>3. CASE DropDuplicate
  BY <1>1, <1>3, TameStatusFlow DEF DropDuplicate, StatusPC
<1>4. CASE Untag
  BY <1>1, <1>4, TameStatusFlow DEF Untag, StatusPC
<1>5. CASE UpdateAcls
  BY <1>1, <1>5, TameStatusFlow DEF UpdateAcls, StatusPC
<1>6. CASE DropAclPull
  BY <1>1, <1>6, TameStatusFlow DEF DropAclPull
<1>7. QED
  BY <1>2, <1>3, <1>4, <1>5, <1>6 DEF TameStatusStep

LEMMA StatusRaisesFlow ==
  ASSUME Inv, Flow, StatusRaises
  PROVE  Flow'
<1>1. /\ UNCHANGED <<images, handler, pool, worker>> /\ OnlyStatus
      /\ status' = Dead
  BY DEF StatusRaises, OnlyStatus
<1>2. \A i \in Idents : Published(i)' => Published(i)
  BY <1>1 DEF Published, Dead, StatusPC
<1>3. \A i \in Idents : ~Applying(i)'
  BY <1>1 DEF Applying, Dead
<1>4. \A i \in Idents : Done(i)' => Done(i)
  BY <1>1, StatusHolds DEF Done, Busy, Dead
<1>5. EarlyFresh' /\ InOrder' /\ Once'
  <2>1. CASE status.pc = "idle"
    <3>1. queue # <<>> /\ queue' = Tail(queue)
      BY <2>1 DEF StatusRaises
    <3>2. QED
      BY <1>1, <1>2, <1>3, <1>4, <3>1, StatusHolds, TakesMessage DEF Inv, Flow
  <2>2. CASE status.pc # "idle"
    <3>1. UNCHANGED queue
      BY <2>2 DEF StatusRaises
    <3>2. QED
      BY <1>1, <1>2, <1>3, <1>4, <3>1, StatusHolds, KeepsQueue DEF Inv, Flow
  <2>3. QED
    BY <2>1, <2>2
<1>6. QED
  BY <1>1, <1>5, StatusHolds DEF Flow, TargetImage, Dead

\* A restart forgets every request.
LEMMA NothingFlow ==
  ASSUME handler' = [h \in Handlers |-> Idle], pool' = <<>>,
         worker' = [t \in Threads |-> Idle], queue' = <<>>, status' = Idle
  PROVE  Flow'
<1>1. /\ \A h \in Handlers, i \in Idents : ~Inserted(h, i)'
      /\ \A t \in Threads, i \in Idents : ~Runs(t, i)'
      /\ Len(pool') = 0 /\ Len(queue') = 0
  BY DEF Inserted, Runs, Idle
<1>2. \A i \in Idents : ~Early(i)' /\ ~Awaiting(i)' /\ ~Applying(i)'
  BY <1>1 DEF Early, Awaiting, Applying, Idle
<1>3. HoldOne' /\ ExpireThreads' /\ TargetImage'
  BY <1>1 DEF HoldOne, ExpireThreads, TargetImage, Idle
<1>4. EarlyFresh' /\ InOrder' /\ Once'
  BY <1>1, <1>2 DEF EarlyFresh, InOrder, Once
<1>5. QED
  BY <1>3, <1>4 DEF Flow

LEMMA AgeKeeps ==
  ASSUME Inv, NEW i \in Idents, Age(i)
  PROVE  /\ Tame /\ KeepsAll /\ HandlersStay
         /\ UNCHANGED <<handler, pool, worker, queue, status>>
<1>1. images[i] \in Record /\ Exists(images[i])
  BY DocumentCases DEF Age, Inv, TypeOK
<1>2. PICK d \in Record :
        Set(i, d) /\ Tamer(d, images[i]) /\ Kept(d, images[i])
  <2>1. \A x \in PullAge \ {"none"} :
          /\ [images[i] EXCEPT !.last_pull = x] \in Record
          /\ Tamer([images[i] EXCEPT !.last_pull = x], images[i])
          /\ Kept([images[i] EXCEPT !.last_pull = x], images[i])
    BY <1>1 DEF Tamer, Kept, Named, Record, Document, PullAge, IsReady
  <2>2. \A x \in BeatAge :
          /\ [images[i] EXCEPT !.last_heartbeat = x] \in Record
          /\ Tamer([images[i] EXCEPT !.last_heartbeat = x], images[i])
          /\ Kept([images[i] EXCEPT !.last_heartbeat = x], images[i])
    BY <1>1 DEF Tamer, Kept, Named, Record, Document, BeatAge, IsReady
  <2>3. \A x \in ExpiryAge :
          /\ [images[i] EXCEPT !.expiration = x] \in Record
          /\ Tamer([images[i] EXCEPT !.expiration = x], images[i])
          /\ Kept([images[i] EXCEPT !.expiration = x], images[i])
    BY <1>1 DEF Tamer, Kept, Named, Record, Document, ExpiryAge, IsReady
  <2>4. QED
    BY <2>1, <2>2, <2>3 DEF Age, PullAge, BeatAge, ExpiryAge
<1>3. UNCHANGED <<handler, pool, worker, queue, status>>
  BY DEF Age
<1>4. HandlersStay
  BY <1>3 DEF HandlersStay, Inserted, InTodo
<1>5. QED
  BY <1>2, <1>3, <1>4, TameSet, KeepsSet DEF Inv

-----------------------------------------------------------------------------
(* The second invariant is inductive, given the first.                     *)

LEMMA NextFlow ==
  ASSUME Inv, Flow, [Next]_vars
  PROVE  Flow'
<1>1. ASSUME NEW h \in Handlers,
             Receive(h) \/ HandlerStep(h) \/ HandlerRaises(h)
      PROVE  Flow'
  <2>1. CASE Insert(h)
    BY <2>1, InsertFlow
  <2>2. CASE Submit(h)
    BY <2>2, SubmitFlow
  <2>3. CASE ExpireId(h) \/ Expire(h)
    BY <2>3, ExpireFlow
  <2>4. CASE MarkPending(h)
    BY <2>4, MarkPendingFlow
  <2>5. CASE ~(\/ Insert(h) \/ Submit(h) \/ ExpireId(h) \/ Expire(h)
               \/ MarkPending(h))
    <3>1. Tame
      BY <1>1, <2>5, HandlerStepGoal DEF HandlerGoal, Inv
    <3>2. KeepsAll /\ HandlersStay /\ UNCHANGED <<pool, worker, queue, status>>
      BY <1>1, <2>5, QuietHandler DEF HandlerStep
    <3>3. QED
      BY <3>1, <3>2, KeptNames, KeptOver, QuietFlow DEF Inv
  <2>6. QED
    BY <2>1, <2>2, <2>3, <2>4, <2>5
<1>2. ASSUME NEW t \in Threads, WorkerStep(t)
      PROVE  Flow'
  BY <1>2, WorkerFlow
<1>3. CASE StatusStep
  BY <1>3, UpdateMongoStateFlow, MissingPullFlow, BeginReadyFlow, SetReadyFlow,
     RetagFlow, TameStatusStepFlow DEF StatusStep, TameStatusStep
<1>4. CASE StatusRaises
  BY <1>4, StatusRaisesFlow
<1>5. CASE \E i \in Idents : Age(i)
  BY <1>5, AgeKeeps, KeptNames, KeptOver, QuietFlow DEF Inv
<1>6. CASE Restart
  BY <1>6, NothingFlow DEF Restart
<1>7. CASE UNCHANGED vars
  <2>1. HandlersStay
    BY <1>7 DEF vars, HandlersStay, Inserted, InTodo
  <2>2. QED
    BY <1>7, <2>1, TameUnchanged, QuietFlow DEF vars, Inv
<1>8. QED
  BY <1>1, <1>2, <1>3, <1>4, <1>5, <1>6, <1>7 DEF Next, Manage

LEMMA InitFlow ==
  ASSUME Init
  PROVE  Flow
<1>1. /\ \A h \in Handlers, i \in Idents : ~Inserted(h, i)
      /\ \A t \in Threads, i \in Idents : ~Runs(t, i)
      /\ Len(pool) = 0 /\ Len(queue) = 0
  BY DEF Init, Inserted, Runs, Idle
<1>2. \A i \in Idents : ~Early(i) /\ ~Awaiting(i) /\ ~Applying(i)
  BY <1>1 DEF Early, Awaiting, Applying, Idle, Init
<1>3. HoldOne /\ ExpireThreads /\ TargetImage
  BY <1>1 DEF HoldOne, ExpireThreads, TargetImage, Idle, Init
<1>4. EarlyFresh /\ InOrder /\ Once
  BY <1>1, <1>2 DEF EarlyFresh, InOrder, Once
<1>5. QED
  BY <1>3, <1>4 DEF Flow

\* A request of the gateway is in one place at a time, and its messages are
\* applied in the order in which they make sense: whatever the number of API
\* processes and threads, and whatever breaks.
THEOREM RequestsFlow == Spec => [](Inv /\ Flow)
<1>1. Init => Inv /\ Flow
  BY InitInv, InitFlow
<1>2. Inv /\ Flow /\ [Next]_vars => Inv' /\ Flow'
  BY NextInv, NextFlow
<1>3. QED
  BY <1>1, <1>2, PTL DEF Spec

-----------------------------------------------------------------------------
(* A pull that is over stays over.                                         *)

\* What NoReturnToFlight says of one step.
StaysOver ==
  \A i \in Idents :
    images[i].status \in Over => images'[i].status \notin InFlight

LEMMA KeptStaysOver ==
  ASSUME NamesAll
  PROVE  StaysOver
BY DEF NamesAll, Named, StaysOver, Over, InFlight, Working, Absent

LEMMA StepStaysOver ==
  ASSUME Inv, Flow, [Next]_vars
  PROVE  StaysOver
<1> USE DEF Over, InFlight, Working
<1>1. ASSUME NEW h \in Handlers,
             Receive(h) \/ HandlerStep(h) \/ HandlerRaises(h)
      PROVE  StaysOver
  <2>1. CASE Insert(h)
    <3>1. PICK i \in Idents : Unused(i) /\ Set(i, NewRecord(handler[h].req))
      BY <2>1 DEF Insert
    <3>2. images[i].status \notin Over
      BY <3>1, DocumentCases DEF Unused, Absent, Inv, TypeOK
    <3>3. \A j \in Idents : j # i => images'[j] = images[j]
      BY <3>1 DEF Set, Inv, TypeOK
    <3>4. QED
      BY <3>2, <3>3 DEF StaysOver
  <2>2. CASE Submit(h) \/ ExpireId(h) \/ Expire(h)
    BY <2>2 DEF Submit, ExpireId, Expire, StaysOver
  <2>3. CASE MarkPending(h)
    <3>1. PICK i \in Idents : i = handler[h].ident
      BY <2>3 DEF MarkPending, Inv, HandlerInv
    <3>2. Early(i)
      BY <2>3, <3>1 DEF MarkPending, Early, Inserted
    <3>3. images[i].status \notin Over
      BY <3>2 DEF Flow, EarlyFresh, Done
    <3>4. \A j \in Idents : j # i => images'[j] = images[j]
      BY <2>3, <3>1 DEF MarkPending, Set, Inv, TypeOK
    <3>5. QED
      BY <3>3, <3>4 DEF StaysOver
  <2>4. CASE ~(\/ Insert(h) \/ Submit(h) \/ ExpireId(h) \/ Expire(h)
               \/ MarkPending(h))
    BY <1>1, <2>4, QuietHandler, KeptNames, KeptStaysOver DEF HandlerStep
  <2>5. QED
    BY <2>1, <2>2, <2>3, <2>4
<1>2. ASSUME NEW t \in Threads, WorkerStep(t)
      PROVE  StaysOver
  BY <1>2, WorkerStepGoal DEF StaysOver, Inv
<1>3. CASE UpdateMongoState
  <2> DEFINE m == Head(queue)
  <2>1. /\ m \in Messages /\ queue # <<>>
        /\ Set(m.ident, SetBeat(images[m.ident], m.state))
    BY <1>3, MessageFacts DEF UpdateMongoState, Inv
  <2>2. m.ident \in Idents /\ m = queue[1] /\ 1 \in 1..Len(queue)
    BY <2>1 DEF Messages, Inv, TypeOK
  <2>3. m.state \in InFlight => images[m.ident].status \notin Over
    BY <2>2 DEF Flow, InOrder, Done
  <2>4. \A i \in Idents : i # m.ident => images'[i] = images[i]
    BY <2>1 DEF Set, Inv, TypeOK
  <2>5. images[m.ident].status \in Over => images'[m.ident].status = m.state
    <3>1. images[m.ident] \in Document
      BY <2>2 DEF Inv, TypeOK
    <3>2. images[m.ident].status \in Over => images[m.ident] \in Record
      BY <3>1, DocumentCases DEF Exists
    <3>3. images'[m.ident] = SetBeat(images[m.ident], m.state)
      BY <2>1, <2>2 DEF Set, Inv, TypeOK
    <3>4. QED
      BY <3>2, <3>3 DEF SetBeat, Assign, Exists, Record
  <2>6. QED
    BY <2>3, <2>4, <2>5 DEF StaysOver
<1>4. CASE MissingPull \/ BeginReady \/ StatusRaises
  BY <1>4 DEF MissingPull, BeginReady, StatusRaises, StaysOver
<1>5. CASE SetReady
  <2>1. /\ status.ident \in Idents /\ images[status.ident] \in Document
        /\ status.response \in Responses
    BY <1>5, BusyFacts DEF SetReady, Busy, Inv
  <2>2. \A i \in Idents : images'[i] =
          IF i = status.ident THEN MakeReady(images[i], status.response)
                              ELSE images[i]
    BY <1>5 DEF SetReady, Set, Inv, TypeOK
  <2>3. images[status.ident].status \in Over =>
          images'[status.ident].status = "READY"
    BY <2>1, <2>2, MakeReadyFacts DEF IsReady, Exists
  <2>4. QED
    BY <2>2, <2>3 DEF StaysOver
<1>6. CASE Retag
  <2>1. /\ status.target \in Idents /\ images[status.target] \in Document
    BY <1>6, BusyFacts DEF Retag, Busy, Inv
  <2>2. \A i \in Idents : images'[i] =
          IF i = status.target THEN AddToSet(images[i], status.tag)
                               ELSE images[i]
    BY <1>6 DEF Retag, Set, Inv, TypeOK
  <2>3. AddToSet(images[status.target], status.tag).status
          = images[status.target].status
    BY <2>1, DocumentCases DEF AddToSet, Assign, Record
  <2>4. QED
    BY <2>2, <2>3 DEF StaysOver
<1>7. CASE TameStatusStep
  BY <1>7, TameStatusKeeps, KeptStaysOver
<1>8. CASE \E i \in Idents : Age(i)
  BY <1>8, AgeKeeps, KeptNames, KeptStaysOver
<1>9. CASE Restart
  BY <1>9 DEF Restart, StaysOver, Absent
<1>10. CASE UNCHANGED vars
  BY <1>10 DEF vars, StaysOver
<1>11. QED
  BY <1>1, <1>2, <1>3, <1>4, <1>5, <1>6, <1>7, <1>8, <1>9, <1>10
  DEF Next, Manage, StatusStep, TameStatusStep

\* NoReturnToFlight: dopull is called on a PENDING document and the messages
\* of a pull are queued in order, so that a document that has been through its
\* pull never shows a pull in progress again.
THEOREM OverStaysOver == Spec => NoReturnToFlight
<1>1. Inv /\ Flow /\ [Next]_vars =>
        [\A i \in Idents :
           images[i].status \in {"READY", "FAILURE", "EXPIRING", "EXPIRED"}
             => images'[i].status \notin InFlight]_images
  BY StepStaysOver DEF StaysOver, Over
<1>2. QED
  BY <1>1, RequestsFlow, PTL DEF Spec, NoReturnToFlight

-----------------------------------------------------------------------------
(* The catalogue.                                                          *)

\* What a tag of a system leads to in a collection.
ActiveIn(docs, i, s, t) ==
  IsReady(docs[i]) /\ docs[i].system = s /\ t \in docs[i].tag
ImageIn(docs, s, t) ==
  LET active == {i \in Idents : /\ IsReady(docs[i])
                                /\ docs[i].system = s
                                /\ t \in docs[i].tag}
  IN IF active = {} THEN NoImage ELSE docs[CHOOSE i \in active : TRUE].id

LEMMA ImageOfIn == \A s, t : ImageOf(s, t) = ImageIn(images, s, t)
BY DEF ImageOf, ImageIn

\* Tags are unique, so that it is the image of whichever document has it.
LEMMA ImageFacts ==
  ASSUME NEW docs,
         \A i, j \in Idents : i # j /\ docs[i].system = docs[j].system
                                => docs[i].tag \cap docs[j].tag = {},
         NEW s, NEW t
  PROVE  /\ \A i \in Idents : ActiveIn(docs, i, s, t)
                                => ImageIn(docs, s, t) = docs[i].id
         /\ (\A i \in Idents : ~ActiveIn(docs, i, s, t))
              => ImageIn(docs, s, t) = NoImage
<1> DEFINE active == {i \in Idents : /\ IsReady(docs[i])
                                     /\ docs[i].system = s
                                     /\ t \in docs[i].tag}
<1>1. ImageIn(docs, s, t) =
        IF active = {} THEN NoImage ELSE docs[CHOOSE i \in active : TRUE].id
  BY DEF ImageIn
<1>2. \A i \in Idents : ActiveIn(docs, i, s, t) <=> i \in active
  BY DEF ActiveIn
<1>3. \A i, j \in active : i = j
  OBVIOUS
<1>4. /\ active \subseteq Idents
      /\ active # {} => (CHOOSE i \in active : TRUE) \in active
  OBVIOUS
<1> HIDE DEF active
<1>5. ASSUME NEW i \in Idents, ActiveIn(docs, i, s, t)
      PROVE  ImageIn(docs, s, t) = docs[i].id
  <2>1. i \in active
    BY <1>2, <1>5
  <2>2. (CHOOSE j \in active : TRUE) = i
    BY <1>3, <1>4, <2>1
  <2>3. QED
    BY <1>1, <2>1, <2>2
<1>6. ASSUME \A i \in Idents : ~ActiveIn(docs, i, s, t)
      PROVE  ImageIn(docs, s, t) = NoImage
  <2>1. active = {}
    BY <1>2, <1>4, <1>6
  <2>2. QED
    BY <1>1, <2>1
<1>7. QED
  BY <1>5, <1>6

\* The catalogue a collection stands for.
CatalogIn(docs) == [n \in Systems \X Tags |-> ImageIn(docs, n[1], n[2])]

LEMMA CatalogIs ==
  /\ [n \in Systems \X Tags |-> ImageOf(n[1], n[2])] = CatalogIn(images)
  /\ [n \in Systems \X Tags |-> ImageOf(n[1], n[2])]' = CatalogIn(images')
BY DEF ImageOf, ImageIn, CatalogIn

\* The tags a document shows in the catalogue.
Shown(d) == IF IsReady(d) THEN d.tag ELSE {}
Same(e, d) == /\ Shown(e) = Shown(d)
              /\ Shown(d) # {} => e.system = d.system /\ e.id = d.id

SameAll == \A i \in Idents : Same(images'[i], images[i])
LosesOne ==
  \E i \in Idents :
    /\ IsReady(images[i]) /\ Shown(images'[i]) = {}
    /\ \A j \in Idents : j # i => Same(images'[j], images[j])

LEMMA SameCatalog ==
  ASSUME TagUnique, TagUnique', SameAll
  PROVE  CatalogIn(images') = CatalogIn(images)
<1>1. ASSUME NEW n \in Systems \X Tags
      PROVE  ImageIn(images', n[1], n[2]) = ImageIn(images, n[1], n[2])
  <2>1. \A i \in Idents :
          /\ ActiveIn(images', i, n[1], n[2]) <=> ActiveIn(images, i, n[1], n[2])
          /\ ActiveIn(images, i, n[1], n[2]) => images'[i].id = images[i].id
    BY DEF SameAll, Same, Shown, ActiveIn
  <2>2. CASE \E i \in Idents : ActiveIn(images, i, n[1], n[2])
    <3>1. PICK i \in Idents : ActiveIn(images, i, n[1], n[2])
      BY <2>2
    <3>2. ImageIn(images, n[1], n[2]) = images[i].id
      BY <3>1, ImageFacts DEF TagUnique
    <3>3. ImageIn(images', n[1], n[2]) = images'[i].id
      BY <2>1, <3>1, ImageFacts DEF TagUnique
    <3>4. QED
      BY <2>1, <3>1, <3>2, <3>3
  <2>3. CASE \A i \in Idents : ~ActiveIn(images, i, n[1], n[2])
    <3>1. ImageIn(images, n[1], n[2]) = NoImage
      BY <2>3, ImageFacts DEF TagUnique
    <3>2. ImageIn(images', n[1], n[2]) = NoImage
      BY <2>1, <2>3, ImageFacts DEF TagUnique
    <3>3. QED
      BY <3>1, <3>2
  <2>4. QED
    BY <2>2, <2>3
<1>2. QED
  BY <1>1 DEF CatalogIn

\* A READY document that goes takes its image out of the catalogue.
LEMMA LosesCatalog ==
  ASSUME TagUnique, TagUnique', ReadyUnique,
         NEW i \in Idents, IsReady(images[i]), Shown(images'[i]) = {},
         \A j \in Idents : j # i => Same(images'[j], images[j])
  PROVE  CatalogIn(images') =
           [n \in Systems \X Tags |->
              IF n[1] = images[i].system /\ CatalogIn(images)[n] = images[i].id
              THEN NoImage ELSE CatalogIn(images)[n]]
<1>1. ASSUME NEW n \in Systems \X Tags
      PROVE  ImageIn(images', n[1], n[2]) =
               IF /\ n[1] = images[i].system
                  /\ ImageIn(images, n[1], n[2]) = images[i].id
               THEN NoImage ELSE ImageIn(images, n[1], n[2])
  <2>1. \A j \in Idents :
          /\ ActiveIn(images', j, n[1], n[2])
               <=> j # i /\ ActiveIn(images, j, n[1], n[2])
          /\ j # i /\ ActiveIn(images, j, n[1], n[2])
               => images'[j].id = images[j].id
    BY DEF Same, Shown, ActiveIn
  <2>2. CASE ActiveIn(images, i, n[1], n[2])
    <3>1. /\ ImageIn(images, n[1], n[2]) = images[i].id
          /\ n[1] = images[i].system
      BY <2>2, ImageFacts DEF TagUnique, ActiveIn
    <3>2. \A j \in Idents : ActiveIn(images, j, n[1], n[2]) => j = i
      BY <2>2 DEF TagUnique, ActiveIn
    <3>3. ImageIn(images', n[1], n[2]) = NoImage
      BY <2>1, <3>2, ImageFacts DEF TagUnique
    <3>4. QED
      BY <3>1, <3>3
  <2>3. CASE \E j \in Idents : j # i /\ ActiveIn(images, j, n[1], n[2])
    <3>1. PICK j \in Idents : j # i /\ ActiveIn(images, j, n[1], n[2])
      BY <2>3
    <3>2. ImageIn(images, n[1], n[2]) = images[j].id
      BY <3>1, ImageFacts DEF TagUnique
    <3>3. ImageIn(images', n[1], n[2]) = images'[j].id
      BY <2>1, <3>1, ImageFacts DEF TagUnique
    <3>4. n[1] = images[i].system => images[j].id # images[i].id
      BY <3>1 DEF ReadyUnique, ActiveIn
    <3>5. QED
      BY <2>1, <3>1, <3>2, <3>3, <3>4
  <2>4. CASE \A j \in Idents : ~ActiveIn(images, j, n[1], n[2])
    <3>1. ImageIn(images, n[1], n[2]) = NoImage
      BY <2>4, ImageFacts DEF TagUnique
    <3>2. ImageIn(images', n[1], n[2]) = NoImage
      BY <2>1, <2>4, ImageFacts DEF TagUnique
    <3>3. QED
      BY <3>1, <3>2
  <2>5. QED
    BY <2>2, <2>3, <2>4
<1>2. QED
  BY <1>1 DEF CatalogIn

\* What is in Delivered, now and after a step.
LEMMA DeliveredHas ==
  \A r :
    /\ r \in Delivered <=>
         \/ \E k \in 1..Len(queue) :
              /\ queue[k].state = "READY" /\ Exists(images[queue[k].ident])
              /\ r = ResultOf(images[queue[k].ident].system,
                              images[queue[k].ident].pulltag,
                              queue[k].response.id)
         \/ /\ status.pc \in {"ready", "touch", "drop", "untag", "retag"}
            /\ r = ResultOf(status.system, status.tag, status.response.id)
    /\ r \in Delivered' <=>
         \/ \E k \in 1..Len(queue') :
              /\ queue'[k].state = "READY" /\ Exists(images'[queue'[k].ident])
              /\ r = ResultOf(images'[queue'[k].ident].system,
                              images'[queue'[k].ident].pulltag,
                              queue'[k].response.id)
         \/ /\ status'.pc \in {"ready", "touch", "drop", "untag", "retag"}
            /\ r = ResultOf(status'.system, status'.tag, status'.response.id)
BY DEF Delivered, ResultOf

\* A step that takes at most one image out, and adds no result.
LEMMA Forgets ==
  ASSUME Inv, TagUnique', SameAll \/ LosesOne, Delivered' \subseteq Delivered
  PROVE  TheCatalog!CNext
<1>1. CASE SameAll
  <2>1. CatalogIn(images') = CatalogIn(images)
    BY <1>1, SameCatalog DEF Inv, DocInv
  <2>2. TheCatalog!Forget
    BY <2>1, CatalogIs DEF TheCatalog!Forget
  <2>3. QED
    BY <2>2 DEF TheCatalog!CNext
<1>2. CASE LosesOne
  <2>1. PICK i \in Idents :
          /\ IsReady(images[i]) /\ Shown(images'[i]) = {}
          /\ \A j \in Idents : j # i => Same(images'[j], images[j])
    BY <1>2 DEF LosesOne
  <2>2. images[i].system \in Systems /\ images[i].id \in ImageIds
    <3>1. images[i] \in Record
      BY <2>1, DocumentCases DEF Inv, TypeOK, IsReady, Exists
    <3>2. images[i].id # NoImage
      BY <2>1 DEF Inv, DocInv, ReadyHasImage, HasImage
    <3>3. QED
      BY <3>1, <3>2 DEF Record
  <2>3. CatalogIn(images') =
          [n \in Systems \X Tags |->
             IF n[1] = images[i].system /\ CatalogIn(images)[n] = images[i].id
             THEN NoImage ELSE CatalogIn(images)[n]]
    BY <2>1, LosesCatalog DEF Inv, DocInv
  <2>4. TheCatalog!Withdraw(images[i].system, images[i].id)
    BY <2>3, CatalogIs DEF TheCatalog!Withdraw, TheCatalog!Names
  <2>5. QED
    BY <2>2, <2>4 DEF TheCatalog!CNext
<1>3. QED
  BY <1>1, <1>2

\* Removals and tame updates take out what they remove.
LEMMA KeptSame ==
  ASSUME TypeOK, KeepsAll, Tame
  PROVE  /\ \A i \in Idents : IsReady(images'[i]) => Same(images'[i], images[i])
         /\ \A i \in Idents : ~IsReady(images[i]) => Same(images'[i], images[i])
         /\ \A i \in Idents :
              Same(images'[i], images[i])
                \/ (IsReady(images[i]) /\ Shown(images'[i]) = {})
BY AbsentFacts DEF KeepsAll, Kept, Named, Tame, Tamer, Same, Shown, IsReady

LEMMA KeptLoses ==
  ASSUME TypeOK, KeepsAll, Tame,
         \A i, j \in Idents : /\ IsReady(images[i]) /\ images'[i] = Absent
                              /\ IsReady(images[j]) /\ images'[j] = Absent
                              => i = j
  PROVE  SameAll \/ LosesOne
<1>1. CASE SameAll
  BY <1>1
<1>2. CASE ~SameAll
  <2>1. PICK i \in Idents : ~Same(images'[i], images[i])
    BY <1>2 DEF SameAll
  <2>2. IsReady(images[i]) /\ Shown(images'[i]) = {}
    BY <2>1, KeptSame
  <2>3. \A j \in Idents : ~Same(images'[j], images[j])
          => IsReady(images[j]) /\ images'[j] = Absent
    BY KeptSame DEF KeepsAll, Kept, Named, IsReady
  <2>4. QED
    BY <2>1, <2>2, <2>3 DEF LosesOne
<1>3. QED
  BY <1>1, <1>2

\* No result comes from documents that keep their names.
LEMMA NamesDelivered ==
  ASSUME NamesAll, \A k \in 1..Len(queue) : queue[k].ident \in Idents,
         UNCHANGED <<queue, status>>
  PROVE  Delivered' \subseteq Delivered
<1>1. \A i \in Idents : Exists(images'[i]) =>
        /\ Exists(images[i])
        /\ images'[i].system = images[i].system
        /\ images'[i].pulltag = images[i].pulltag
  BY AbsentFacts DEF NamesAll, Named
<1>2. QED
  BY <1>1, DeliveredHas

-----------------------------------------------------------------------------
(* Every step, seen from the catalogue.                                    *)

QueueIdents == \A k \in 1..Len(queue) : queue[k].ident \in Idents

LEMMA QueueTyped ==
  ASSUME TypeOK
  PROVE  QueueIdents
BY DEF TypeOK, QueueIdents, Messages

\* A step that leaves the collection and the messages alone.
LEMMA ImagesStand ==
  ASSUME Inv, Inv', UNCHANGED images, Delivered' \subseteq Delivered
  PROVE  TheCatalog!CNext
<1>1. SameAll
  BY DEF SameAll, Same
<1>2. QED
  BY <1>1, Forgets DEF Inv, DocInv

LEMMA HandlerCatalog ==
  ASSUME Inv, Inv', Flow, NEW h \in Handlers,
         Receive(h) \/ HandlerStep(h) \/ HandlerRaises(h)
  PROVE  TheCatalog!CNext
<1>1. CASE Insert(h)
  <2>1. PICK i \in Idents : Unused(i) /\ Set(i, NewRecord(handler[h].req))
    BY <1>1 DEF Insert
  <2>2. /\ \A j \in Idents : j # i => images'[j] = images[j]
        /\ images'[i] = NewRecord(handler[h].req) /\ ~Exists(images[i])
        /\ \A k \in 1..Len(queue) : queue[k].ident # i
    BY <2>1 DEF Unused, Set, Inv, TypeOK
  <2>3. SameAll
    BY <2>2 DEF SameAll, Same, Shown, NewRecord, IsReady, Exists
  <2>4. UNCHANGED <<queue, status>>
    BY <1>1 DEF Insert, ImagesChange
  <2>5. Delivered' \subseteq Delivered
    BY <2>2, <2>4, DeliveredHas, QueueTyped DEF QueueIdents, Inv
  <2>6. QED
    BY <2>3, <2>5, Forgets DEF Inv, DocInv
<1>2. CASE Submit(h) \/ ExpireId(h) \/ Expire(h)
  <2>1. UNCHANGED <<images, queue, status>>
    BY <1>2 DEF Submit, ExpireId, Expire
  <2>2. Delivered' \subseteq Delivered
    BY <2>1, DeliveredHas
  <2>3. QED
    BY <2>1, <2>2, ImagesStand
<1>3. CASE MarkPending(h)
  <2>1. PICK i \in Idents : i = handler[h].ident
    BY <1>3 DEF MarkPending, Inv, HandlerInv
  <2>2. Early(i)
    BY <1>3, <2>1 DEF MarkPending, Early, Inserted
  <2>3. ~IsReady(images[i]) /\ images[i] \in Document
    BY <2>2 DEF Flow, EarlyFresh, Done, IsReady, Over, Inv, TypeOK
  <2>4. /\ \A j \in Idents : j # i => images'[j] = images[j]
        /\ images'[i] = SetState(images[i], "PENDING")
        /\ UNCHANGED <<queue, status>>
    BY <1>3, <2>1 DEF MarkPending, Set, ImagesChange, Inv, TypeOK
  <2>5. /\ ~IsReady(images'[i])
        /\ Exists(images'[i]) => /\ Exists(images[i])
                                 /\ images'[i].system = images[i].system
                                 /\ images'[i].pulltag = images[i].pulltag
    BY <2>3, <2>4, DocumentCases DEF SetState, Assign, IsReady, Record, Exists
  <2>6. SameAll
    BY <2>3, <2>4, <2>5 DEF SameAll, Same, Shown
  <2>7. Delivered' \subseteq Delivered
    BY <2>4, <2>5, DeliveredHas, QueueTyped DEF QueueIdents, Inv
  <2>8. QED
    BY <2>6, <2>7, Forgets DEF Inv, DocInv
<1>4. CASE ~(\/ Insert(h) \/ Submit(h) \/ ExpireId(h) \/ Expire(h)
             \/ MarkPending(h))
  <2>1. KeepsAll /\ UNCHANGED <<queue, status>>
    BY <1>4, QuietHandler DEF HandlerStep
  <2>2. Tame
    BY <1>4, HandlerStepGoal DEF HandlerGoal, Inv
  <2>3. \A i, j \in Idents : /\ IsReady(images[i]) /\ images'[i] = Absent
                             /\ IsReady(images[j]) /\ images'[j] = Absent
                             => i = j
    <3>1. CASE UNCHANGED images
      BY <3>1, AbsentFacts
    <3>2. CASE UpdateStates(h)
      <4>1. PICK gone \in SUBSET {i \in Idents : images[i].status = "FAILURE"} :
              images' = [i \in Idents |->
                           IF i \in gone THEN Absent ELSE images[i]]
        BY <3>2 DEF UpdateStates
      <4>2. \A i \in Idents : IsReady(images[i]) => images'[i] = images[i]
        BY <4>1 DEF IsReady
      <4>3. QED
        BY <4>2, AbsentFacts
    <3>3. CASE Remove(h)
      <4>1. PICK v \in handler[h].todo : Set(v[1], Absent)
        BY <3>3 DEF Remove
      <4>2. \A i \in Idents : i # v[1] => images'[i] = images[i]
        BY <4>1 DEF Set, Inv, TypeOK
      <4>3. QED
        BY <4>2, AbsentFacts
    <3>4. CASE StampPull(h) \/ ResetExpiry(h)
      <4>1. PICK i \in Idents : i = handler[h].ident
        BY <3>4 DEF StampPull, ResetExpiry, Inv, HandlerInv
      <4>2. \A j \in Idents : j # i => images'[j] = images[j]
        BY <3>4, <4>1 DEF StampPull, ResetExpiry, Set, Inv, TypeOK
      <4>3. QED
        BY <4>2, AbsentFacts
    <3>5. QED
      BY <1>4, <3>1, <3>2, <3>3, <3>4
      DEF HandlerStep, Receive, Raise, FindReady, FindPull, FindAny, Clean,
          Removed, Find, FindStuck, FindOld, AutoExpired, HandlerRaises,
          OnlyHandler
  <2>4. SameAll \/ LosesOne
    BY <2>1, <2>2, <2>3, KeptLoses DEF Inv
  <2>5. Delivered' \subseteq Delivered
    BY <2>1, KeptNames, NamesDelivered, QueueTyped DEF QueueIdents, Inv
  <2>6. QED
    BY <2>4, <2>5, Forgets DEF Inv, DocInv
<1>5. QED
  BY <1>1, <1>2, <1>3, <1>4

\* The result that a thread posts for a document that is there is a Deliver.
LEMMA PostCatalog ==
  ASSUME Inv, Inv', UNCHANGED <<images, status>>, NEW m \in Messages,
         queue' = Append(queue, m)
  PROVE  TheCatalog!CNext
<1>1. /\ \A k \in 1..Len(queue) : queue'[k] = queue[k]
      /\ Len(queue') = Len(queue) + 1 /\ Len(queue) \in Nat
      /\ queue'[Len(queue')] = m
      /\ \A k \in 1..Len(queue') : k = Len(queue') \/ k \in 1..Len(queue)
      /\ \A k \in 1..Len(queue) : k \in 1..Len(queue')
      /\ Len(queue') \in 1..Len(queue')
  BY DEF Inv, TypeOK
<1>2. \A k \in 1..Len(queue) :
        images'[queue'[k].ident] = images[queue[k].ident]
  BY <1>1
<1>3. images'[queue'[Len(queue')].ident] = images[m.ident]
  BY <1>1
<1>4. CASE ~(m.state = "READY" /\ Exists(images[m.ident]))
  <2>1. Delivered' \subseteq Delivered
    BY <1>1, <1>2, <1>3, <1>4, DeliveredHas
  <2>2. QED
    BY <2>1, ImagesStand
<1>5. CASE m.state = "READY" /\ Exists(images[m.ident])
  <2> DEFINE d == images[m.ident]
             n == <<d.system, d.pulltag>>
             id == m.response.id
  <2>1. d \in Record /\ m.response \in Responses
    BY <1>5, DocumentCases DEF Messages, Inv, TypeOK
  <2>2. n \in TheCatalog!Names /\ id \in ImageIds
    BY <2>1 DEF Record, Responses, TheCatalog!Names
  <2>3. \A r : r \in Delivered'
                 <=> r \in Delivered \/ r = ResultOf(d.system, d.pulltag, id)
    BY <1>1, <1>2, <1>3, <1>5, DeliveredHas
  <2>4. Delivered' = Delivered \cup {[name |-> n, id |-> id]}
    BY <2>3 DEF ResultOf
  <2>5. [p \in Systems \X Tags |-> ImageOf(p[1], p[2])]'
          = [p \in Systems \X Tags |-> ImageOf(p[1], p[2])]
    BY CatalogIs
  <2> HIDE DEF n, id
  <2>6. TheCatalog!Deliver(n, id)
    BY <2>4, <2>5 DEF TheCatalog!Deliver
  <2>7. QED
    BY <2>2, <2>6 DEF TheCatalog!CNext
<1>6. QED
  BY <1>4, <1>5

LEMMA WorkerCatalog ==
  ASSUME Inv, Inv', NEW t \in Threads, WorkerStep(t)
  PROVE  TheCatalog!CNext
<1>1. UNCHANGED <<images, status>>
  BY WorkerStepGoal DEF Inv
<1>2. CASE Take(t)
  <2>1. UNCHANGED queue
    BY <1>2 DEF Take
  <2>2. Delivered' \subseteq Delivered
    BY <1>1, <2>1, DeliveredHas
  <2>3. QED
    BY <1>1, <2>2, ImagesStand
<1>3. CASE ~Take(t)
  <2>1. \E state, response : Post(t, state, response)
    BY <1>3 DEF WorkerStep, Begin, Transfer, Complete, CompleteWith, Expired,
                Fail, FailAgain
  <2>2. PICK state, response : Post(t, state, response)
    BY <2>1
  <2> DEFINE m == [ident    |-> worker[t].task.ident,
                   state    |-> state,
                   response |-> response]
  <2>3. queue' = Append(queue, m)
    BY <2>2 DEF Post
  <2>4. m \in Messages
    <3>1. queue \in Seq(Messages) /\ queue' \in Seq(Messages)
      BY DEF Inv, TypeOK
    <3> HIDE DEF m
    <3>2. Len(queue') = Len(queue) + 1 /\ Len(queue) \in Nat
      BY <2>3, <3>1
    <3>3. queue'[Len(queue) + 1] \in Messages
      BY <3>1, <3>2
    <3>4. QED
      BY <2>3, <3>1, <3>3
  <2>5. QED
    BY <1>1, <2>3, <2>4, PostCatalog
<1>4. QED
  BY <1>2, <1>3

\* A message is taken from the queue, and the documents keep their names.
LEMMA TakenDelivered ==
  ASSUME TypeOK, NamesAll, queue # <<>>, queue' = Tail(queue),
         NEW r, r \in Delivered',
         ~(/\ status'.pc \in {"ready", "touch", "drop", "untag", "retag"}
           /\ r = ResultOf(status'.system, status'.tag, status'.response.id))
  PROVE  r \in Delivered
<1>1. /\ Len(queue') = Len(queue) - 1 /\ Len(queue) \in Nat
      /\ \A k \in 1..Len(queue') : k + 1 \in 1..Len(queue)
                                   /\ queue'[k] = queue[k + 1]
  BY DEF TypeOK
<1>2. \A i \in Idents : Exists(images'[i]) =>
        /\ Exists(images[i])
        /\ images'[i].system = images[i].system
        /\ images'[i].pulltag = images[i].pulltag
  BY AbsentFacts DEF NamesAll, Named
<1>3. PICK k \in 1..Len(queue') :
        /\ queue'[k].state = "READY" /\ Exists(images'[queue'[k].ident])
        /\ r = ResultOf(images'[queue'[k].ident].system,
                        images'[queue'[k].ident].pulltag,
                        queue'[k].response.id)
  BY DeliveredHas
<1>4. k + 1 \in 1..Len(queue) /\ queue'[k] = queue[k + 1]
  BY <1>1
<1>5. PICK i \in Idents : i = queue[k + 1].ident
  BY <1>4, QueueTyped DEF QueueIdents
<1>6. /\ queue[k + 1].state = "READY" /\ Exists(images'[i])
      /\ r = ResultOf(images'[i].system, images'[i].pulltag,
                      queue[k + 1].response.id)
  BY <1>3, <1>4, <1>5
<1>7. QED
  BY <1>2, <1>4, <1>5, <1>6, DeliveredHas

LEMMA UpdateMongoStateCatalog ==
  ASSUME Inv, Inv', UpdateMongoState
  PROVE  TheCatalog!CNext
<1> DEFINE m == Head(queue)
<1>1. /\ m \in Messages /\ m.state # "READY"
      /\ Set(m.ident, SetBeat(images[m.ident], m.state))
      /\ queue # <<>> /\ queue' = Tail(queue) /\ UNCHANGED status
  BY MessageFacts DEF UpdateMongoState, Inv
<1>2. PICK i \in Idents : i = m.ident
  BY <1>1 DEF Messages
<1>3. images[i] \in Document /\ m.state \in Status
  BY <1>1 DEF Inv, TypeOK, Messages
<1>4. /\ images'[i] = SetBeat(images[i], m.state)
      /\ \A j \in Idents : j # i => images'[j] = images[j]
  BY <1>1, <1>2 DEF Set, Inv, TypeOK
<1>5. /\ Exists(images'[i]) => Exists(images[i])
      /\ images'[i].system = images[i].system
      /\ images'[i].pulltag = images[i].pulltag
      /\ ~IsReady(images'[i])
  <2>1. CASE ~Exists(images[i])
    BY <1>4, <2>1 DEF SetBeat, Assign, Exists, IsReady
  <2>2. CASE Exists(images[i])
    BY <1>1, <1>3, <1>4, <2>2, DocumentCases DEF SetBeat, Assign, Record, IsReady
  <2>3. QED
    BY <2>1, <2>2
<1>6. SameAll \/ LosesOne
  BY <1>4, <1>5 DEF SameAll, LosesOne, Same, Shown
<1>7. Delivered' \subseteq Delivered
  <2>1. /\ Len(queue') = Len(queue) - 1 /\ Len(queue) \in Nat
        /\ \A k \in 1..Len(queue') : k + 1 \in 1..Len(queue)
                                     /\ queue'[k] = queue[k + 1]
    BY <1>1 DEF Inv, TypeOK
  <2>2. \A j \in Idents : Exists(images'[j]) =>
          /\ Exists(images[j])
          /\ images'[j].system = images[j].system
          /\ images'[j].pulltag = images[j].pulltag
    BY <1>4, <1>5
  <2>3. \A k \in 1..Len(queue') : queue'[k].ident \in Idents
    BY <2>1, QueueTyped DEF QueueIdents, Inv
  <2>4. QED
    BY <1>1, <2>1, <2>2, <2>3, DeliveredHas
<1>8. QED
  BY <1>6, <1>7, Forgets DEF Inv, DocInv

LEMMA MissingPullCatalog ==
  ASSUME Inv, Inv', MissingPull \/ StatusRaises
  PROVE  TheCatalog!CNext
<1>1. /\ UNCHANGED images
      /\ \/ queue' = queue
         \/ queue # <<>> /\ queue' = Tail(queue)
      /\ status' = status \/ status' = Dead
  BY DEF MissingPull, StatusRaises
<1>2. NamesAll
  BY <1>1, KeepsUnchanged, KeptNames DEF Inv
<1>3. Delivered' \subseteq Delivered
  <2>1. CASE queue' = queue
    BY <1>1, <2>1, DeliveredHas DEF Dead
  <2>2. CASE queue # <<>> /\ queue' = Tail(queue)
    <3>1. ASSUME NEW r \in Delivered'
          PROVE  r \in Delivered
      <4>1. CASE /\ status'.pc \in {"ready", "touch", "drop", "untag", "retag"}
                 /\ r = ResultOf(status'.system, status'.tag,
                                 status'.response.id)
        BY <1>1, <4>1, DeliveredHas DEF Dead
      <4>2. QED
        BY <1>2, <2>2, <4>1, TakenDelivered DEF Inv
    <3>2. QED
      BY <3>1
  <2>3. QED
    BY <1>1, <2>1, <2>2
<1>4. QED
  BY <1>1, <1>3, ImagesStand

LEMMA BeginReadyCatalog ==
  ASSUME Inv, Inv', BeginReady
  PROVE  TheCatalog!CNext
<1> DEFINE m == Head(queue)
<1>1. /\ m.state = "READY" /\ Exists(images[m.ident])
      /\ queue # <<>> /\ queue' = Tail(queue) /\ UNCHANGED images
      /\ m = queue[1] /\ 1 \in 1..Len(queue)
  BY DEF BeginReady, Inv, TypeOK
<1>2. /\ status'.system = images[m.ident].system
      /\ status'.tag = images[m.ident].pulltag
      /\ status'.response = m.response
  BY DEF BeginReady
<1>3. NamesAll
  BY <1>1, KeepsUnchanged, KeptNames DEF Inv
<1>4. ASSUME NEW r \in Delivered'
      PROVE  r \in Delivered
  <2>1. CASE r = ResultOf(status'.system, status'.tag, status'.response.id)
    BY <1>1, <1>2, <2>1, DeliveredHas
  <2>2. CASE r # ResultOf(status'.system, status'.tag, status'.response.id)
    BY <1>1, <1>3, <2>2, TakenDelivered DEF Inv
  <2>3. QED
    BY <2>1, <2>2
<1>5. QED
  BY <1>1, <1>4, ImagesStand

\* The pull record that becomes READY shows no tag yet.
LEMMA SetReadyCatalog ==
  ASSUME Inv, Inv', Flow, SetReady
  PROVE  TheCatalog!CNext
<1>1. Busy /\ UNCHANGED queue /\ StatusTo("untag") /\ status.pc = "ready"
  BY DEF SetReady, Busy
<1>2. PICK i \in Idents : i = status.ident
  BY <1>1, BusyFacts DEF Inv
<1>3. images[i] \in Document /\ status.response \in Responses
  BY <1>1, <1>2, BusyFacts DEF Inv
<1>4. ~Published(i)
  BY <1>1, <1>2 DEF Flow, Once, Applying
<1>5. /\ \A j \in Idents : j # i => images'[j] = images[j]
      /\ images'[i] = MakeReady(images[i], status.response)
  BY <1>2 DEF SetReady, Set, Inv, TypeOK
<1>6. SameAll
  <2>1. images[i].tag = {} /\ images'[i].tag = images[i].tag
    BY <1>3, <1>4, <1>5, MakeReadyFacts DEF Published
  <2>2. Shown(images[i]) = {} /\ Shown(images'[i]) = {}
    BY <2>1 DEF Shown
  <2>3. QED
    BY <1>5, <2>2 DEF SameAll, Same
<1>7. \A j \in Idents : /\ Exists(images'[j]) => Exists(images[j])
                        /\ images'[j].system = images[j].system
                        /\ images'[j].pulltag = images[j].pulltag
  <2>1. /\ Exists(images'[i]) => Exists(images[i])
        /\ images'[i].system = images[i].system
        /\ images'[i].pulltag = images[i].pulltag
    BY <1>3, <1>5, DocumentCases DEF MakeReady, Assign, Record
  <2>2. QED
    BY <1>5, <2>1
<1>8. Delivered' \subseteq Delivered
  <2>1. /\ status'.system = status.system /\ status'.tag = status.tag
        /\ status'.response = status.response
    BY <1>1, StatusMove DEF StatusPC, Inv
  <2>2. QED
    BY <1>1, <1>7, <2>1, DeliveredHas, QueueTyped DEF QueueIdents, Inv
<1>9. QED
  BY <1>6, <1>8, Forgets DEF Inv, DocInv

\* No result comes while the status process goes on with the one it has.
LEMMA GoesOn ==
  ASSUME TypeOK, NamesAll, UNCHANGED queue,
         \/ status' = Idle
         \/ \E pc : /\ StatusTo(pc)
                    /\ pc \in {"ready", "touch", "drop", "untag", "retag"} =>
                         status.pc \in {"ready", "touch", "drop", "untag", "retag"}
                    /\ Busy
  PROVE  Delivered' \subseteq Delivered
<1>1. \A i \in Idents : Exists(images'[i]) =>
        /\ Exists(images[i])
        /\ images'[i].system = images[i].system
        /\ images'[i].pulltag = images[i].pulltag
  BY AbsentFacts DEF NamesAll, Named
<1>2. /\ status'.pc \in {"ready", "touch", "drop", "untag", "retag"} =>
           /\ status.pc \in {"ready", "touch", "drop", "untag", "retag"}
           /\ status'.system = status.system /\ status'.tag = status.tag
           /\ status'.response = status.response
  <2>1. CASE status' = Idle
    BY <2>1 DEF Idle
  <2>2. CASE status' # Idle
    <3>1. PICK pc :
            /\ StatusTo(pc)
            /\ pc \in {"ready", "touch", "drop", "untag", "retag"} =>
                 status.pc \in {"ready", "touch", "drop", "untag", "retag"}
            /\ Busy
      BY <2>2
    <3>2. status \in StatusStates
      BY <3>1, BusyFacts
    <3>3. QED
      BY <3>1, <3>2 DEF StatusTo, StatusStates
  <2>3. QED
    BY <2>1, <2>2
<1>3. QED
  BY <1>1, <1>2, DeliveredHas, QueueTyped DEF QueueIdents

\* The steps that touch, rewrite or remove one document.
LEMMA TameStatusCatalog ==
  ASSUME Inv, Inv', TameStatusStep, ~Untag
  PROVE  TheCatalog!CNext
<1>1. Tame /\ NamesAll /\ KeepsAll /\ Busy /\ UNCHANGED queue
  BY TameStatusKeeps
<1>2. PICK i \in {status.ident, status.target} :
        \A j \in Idents : j # i => images'[j] = images[j]
  BY DEF TameStatusStep, TouchTarget, DropDuplicate, UpdateAcls, DropAclPull,
         Set, Inv, TypeOK
<1>3. SameAll \/ LosesOne
  BY <1>1, <1>2, KeptLoses, AbsentFacts DEF Inv
<1>4. \/ status' = Idle
      \/ \E pc : /\ StatusTo(pc)
                 /\ pc \in {"ready", "touch", "drop", "untag", "retag"} =>
                      status.pc \in {"ready", "touch", "drop", "untag", "retag"}
                 /\ Busy
  <2>1. CASE TouchTarget
    <3>1. StatusTo("drop") /\ status.pc = "touch"
      BY <2>1 DEF TouchTarget
    <3>2. QED
      BY <1>1, <3>1
  <2>2. CASE DropDuplicate
    <3>1. StatusTo("untag") /\ status.pc = "drop"
      BY <2>2 DEF DropDuplicate
    <3>2. QED
      BY <1>1, <3>1
  <2>3. CASE UpdateAcls
    <3>1. StatusTo("dropacls")
      BY <2>3 DEF UpdateAcls
    <3>2. QED
      BY <1>1, <3>1
  <2>4. CASE DropAclPull
    BY <2>4 DEF DropAclPull
  <2>5. QED
    BY <2>1, <2>2, <2>3, <2>4 DEF TameStatusStep
<1>5. Delivered' \subseteq Delivered
  BY <1>1, <1>4, GoesOn DEF Inv
<1>6. QED
  BY <1>3, <1>5, Forgets DEF Inv, DocInv

\* add_tag takes the tag from the document that has it ...
LEMMA UntagCatalog ==
  ASSUME Inv, Inv', Untag
  PROVE  TheCatalog!CNext
<1>1. Busy /\ UNCHANGED queue /\ StatusTo("retag") /\ status.pc = "untag"
  BY DEF Untag, Busy
<1>2. status.system \in Systems /\ status.tag \in Tags
  BY <1>1, BusyFacts DEF Inv
<1> DEFINE s == status.system
           t == status.tag
<1>3. \A i \in Idents : /\ images[i] \in Document
                        /\ images'[i] = RemoveTag(images[i], s, t)
  BY DEF Untag, Inv, TypeOK
<1>4. \A i \in Idents :
        /\ IsReady(images'[i]) <=> IsReady(images[i])
        /\ Exists(images'[i]) <=> Exists(images[i])
        /\ images'[i].system = images[i].system
        /\ images'[i].pulltag = images[i].pulltag
        /\ images'[i].id = images[i].id
        /\ images'[i].tag = IF images[i].system = s THEN images[i].tag \ {t}
                                                    ELSE images[i].tag
  <2> SUFFICES ASSUME NEW i \in Idents
               PROVE  /\ IsReady(images'[i]) <=> IsReady(images[i])
                      /\ Exists(images'[i]) <=> Exists(images[i])
                      /\ images'[i].system = images[i].system
                      /\ images'[i].pulltag = images[i].pulltag
                      /\ images'[i].id = images[i].id
                      /\ images'[i].tag =
                           IF images[i].system = s THEN images[i].tag \ {t}
                                                   ELSE images[i].tag
    OBVIOUS
  <2>1. CASE images[i].system # s
    BY <1>3, <2>1 DEF RemoveTag
  <2>2. CASE images[i].system = s
    <3>1. images[i] \in Record
      BY <1>2, <1>3, <2>2, DocumentCases, AbsentFacts, ImageDBAssumption
    <3>2. QED
      BY <1>3, <2>2, <3>1 DEF RemoveTag, Record, IsReady, Exists
  <2>3. QED
    BY <2>1, <2>2
<1> HIDE DEF s, t
<1>5. ASSUME NEW n \in Systems \X Tags
      PROVE  ImageIn(images', n[1], n[2]) =
               IF n = <<s, t>> THEN NoImage ELSE ImageIn(images, n[1], n[2])
  <2>1. \A i \in Idents :
          ActiveIn(images', i, n[1], n[2])
            <=> n # <<s, t>> /\ ActiveIn(images, i, n[1], n[2])
    <3>1. n = <<s, t>> <=> n[1] = s /\ n[2] = t
      OBVIOUS
    <3>2. QED
      BY <1>4, <3>1 DEF ActiveIn
  <2>2. CASE \E i \in Idents : ActiveIn(images', i, n[1], n[2])
    <3>1. PICK i \in Idents : ActiveIn(images', i, n[1], n[2])
      BY <2>2
    <3>2. ActiveIn(images, i, n[1], n[2]) /\ n # <<s, t>>
      BY <2>1, <3>1
    <3>3. ImageIn(images', n[1], n[2]) = images'[i].id
      BY <3>1, ImageFacts DEF TagUnique, Inv, DocInv
    <3>4. ImageIn(images, n[1], n[2]) = images[i].id
      BY <3>2, ImageFacts DEF TagUnique, Inv, DocInv
    <3>5. QED
      BY <1>4, <3>2, <3>3, <3>4
  <2>3. CASE \A i \in Idents : ~ActiveIn(images', i, n[1], n[2])
    <3>1. ImageIn(images', n[1], n[2]) = NoImage
      BY <2>3, ImageFacts DEF TagUnique, Inv, DocInv
    <3>2. n # <<s, t>> => ImageIn(images, n[1], n[2]) = NoImage
      BY <2>1, <2>3, ImageFacts DEF TagUnique, Inv, DocInv
    <3>3. QED
      BY <3>1, <3>2
  <2>4. QED
    BY <2>2, <2>3
<1>6. CatalogIn(images') = [CatalogIn(images) EXCEPT ![<<s, t>>] = NoImage]
  BY <1>5 DEF CatalogIn
<1>7. /\ status'.pc = "retag"
      /\ status'.system = s /\ status'.tag = t
      /\ status'.response = status.response
  BY <1>1, StatusMove DEF StatusPC, Inv, s, t
<1>8. Delivered' = Delivered
  <2>1. \A r : r \in Delivered' <=> r \in Delivered
    BY <1>1, <1>4, <1>7, DeliveredHas, QueueTyped DEF QueueIdents, Inv, s, t
  <2>2. QED
    BY <2>1
<1>9. \E r \in Delivered : r.name = <<s, t>>
  <2>1. ResultOf(s, t, status.response.id) \in Delivered
    BY <1>1, DeliveredHas DEF s, t
  <2>2. QED
    BY <2>1 DEF ResultOf
<1>10. <<s, t>> \in TheCatalog!Names
  BY <1>2 DEF TheCatalog!Names, s, t
<1>11. TheCatalog!Unpublish(<<s, t>>)
  BY <1>6, <1>8, <1>9, CatalogIs DEF TheCatalog!Unpublish
<1>12. QED
  BY <1>10, <1>11 DEF TheCatalog!CNext

\* ... and gives it to the one the result is about, if that is still there.
LEMMA RetagCatalog ==
  ASSUME Inv, Inv', Flow, Retag
  PROVE  TheCatalog!CNext
<1>1. /\ Busy /\ UNCHANGED queue /\ status.pc = "retag"
      /\ StatusTo("acls") \/ status' = Idle
  BY DEF Retag, Busy
<1>2. /\ status.system \in Systems /\ status.tag \in Tags
      /\ status.response \in Responses
  BY <1>1, BusyFacts DEF Inv
<1>3. PICK i \in Idents : i = status.target
  BY <1>1, BusyFacts DEF Inv
<1> DEFINE s == status.system
           t == status.tag
           id == status.response.id
<1>4. /\ images[i] \in Document
      /\ images'[i] = AddToSet(images[i], t)
      /\ \A j \in Idents : j # i => images'[j] = images[j]
  BY <1>3 DEF Retag, Set, Inv, TypeOK
<1>5. /\ IsReady(images'[i]) <=> IsReady(images[i])
      /\ Exists(images'[i]) <=> Exists(images[i])
      /\ images'[i].system = images[i].system
      /\ images'[i].pulltag = images[i].pulltag
      /\ images'[i].id = images[i].id
      /\ Exists(images[i]) => images'[i].tag = images[i].tag \cup {t}
  <2>1. CASE ~Exists(images[i])
    BY <1>4, <2>1 DEF AddToSet, Assign
  <2>2. CASE Exists(images[i])
    BY <1>4, <2>2, DocumentCases DEF AddToSet, Assign, Record, IsReady, Exists
  <2>3. QED
    BY <2>1, <2>2
<1>6. /\ \A j \in Idents : images[j].system = s => t \notin images[j].tag
      /\ Exists(images[i]) => images[i].system = s /\ images[i].id = id
  BY <1>1, <1>3 DEF Inv, StatusInv, Flow, TargetImage
<1>7. Delivered' \subseteq Delivered
  <2>1. ~(status'.pc \in {"ready", "touch", "drop", "untag", "retag"})
    BY <1>1, StatusMove DEF Idle, StatusPC, Inv
  <2>2. QED
    BY <1>1, <1>4, <1>5, <2>1, DeliveredHas, QueueTyped DEF QueueIdents, Inv
<1>8. CASE ~IsReady(images[i])
  <2>1. SameAll
    BY <1>4, <1>5, <1>8 DEF SameAll, Same, Shown
  <2>2. QED
    BY <1>7, <2>1, Forgets DEF Inv, DocInv
<1>9. CASE IsReady(images[i])
  <2>1. Exists(images[i]) /\ id \in ImageIds
    BY <1>2, <1>9 DEF IsReady, Exists, Responses
  <2> HIDE DEF s, t, id
  <2>2. ASSUME NEW n \in Systems \X Tags
        PROVE  ImageIn(images', n[1], n[2]) =
                 IF n = <<s, t>> THEN id ELSE ImageIn(images, n[1], n[2])
    <3>1. n = <<s, t>> <=> n[1] = s /\ n[2] = t
      OBVIOUS
    <3>2. \A j \in Idents : ActiveIn(images', j, n[1], n[2])
            <=> (n = <<s, t>> /\ j = i) \/ ActiveIn(images, j, n[1], n[2])
      BY <1>4, <1>5, <1>6, <1>9, <2>1, <3>1 DEF ActiveIn
    <3>3. CASE n = <<s, t>>
      BY <1>5, <1>6, <2>1, <3>2, <3>3, ImageFacts DEF TagUnique, Inv, DocInv
    <3>4. CASE n # <<s, t>> /\ \E j \in Idents : ActiveIn(images, j, n[1], n[2])
      <4>1. PICK j \in Idents : ActiveIn(images, j, n[1], n[2])
        BY <3>4
      <4>2. ActiveIn(images', j, n[1], n[2])
        BY <3>2, <4>1
      <4>3. ImageIn(images', n[1], n[2]) = images'[j].id
        BY <4>2, ImageFacts DEF TagUnique, Inv, DocInv
      <4>4. ImageIn(images, n[1], n[2]) = images[j].id
        BY <4>1, ImageFacts DEF TagUnique, Inv, DocInv
      <4>5. QED
        BY <1>4, <1>5, <3>4, <4>3, <4>4
    <3>5. CASE n # <<s, t>> /\ \A j \in Idents : ~ActiveIn(images, j, n[1], n[2])
      <4>1. ImageIn(images, n[1], n[2]) = NoImage
        BY <3>5, ImageFacts DEF TagUnique, Inv, DocInv
      <4>2. ImageIn(images', n[1], n[2]) = NoImage
        BY <3>2, <3>5, ImageFacts DEF TagUnique, Inv, DocInv
      <4>3. QED
        BY <3>5, <4>1, <4>2
    <3>6. QED
      BY <3>3, <3>4, <3>5
  <2>3. CatalogIn(images') = [CatalogIn(images) EXCEPT ![<<s, t>>] = id]
    BY <2>2 DEF CatalogIn
  <2>4. <<s, t>> \in Systems \X Tags
    BY <1>2 DEF s, t
  <2>5. CatalogIn(images)[<<s, t>>] = NoImage
    <3>1. \A j \in Idents : ~ActiveIn(images, j, s, t)
      BY <1>6 DEF ActiveIn
    <3>2. ImageIn(images, s, t) = NoImage
      BY <3>1, ImageFacts DEF TagUnique, Inv, DocInv
    <3>3. QED
      BY <2>4, <3>2 DEF CatalogIn
  <2>6. [name |-> <<s, t>>, id |-> id] \in Delivered
    BY <1>1, DeliveredHas DEF ResultOf, s, t, id
  <2>7. TheCatalog!Publish(<<s, t>>, id)
    BY <1>7, <2>3, <2>5, <2>6, CatalogIs DEF TheCatalog!Publish
  <2>8. <<s, t>> \in TheCatalog!Names
    BY <2>4 DEF TheCatalog!Names
  <2>9. QED
    BY <2>1, <2>7, <2>8 DEF TheCatalog!CNext
<1>10. QED
  BY <1>8, <1>9

LEMMA RestartCatalog ==
  ASSUME Inv, Inv', Restart
  PROVE  TheCatalog!CNext
<1>1. SameAll
  BY AbsentFacts DEF Restart, SameAll, Same, Shown, IsReady
<1>2. Delivered' \subseteq Delivered
  <2>1. Len(queue') = 0 /\ status'.pc = "idle"
    BY DEF Restart, Idle
  <2>2. QED
    BY <2>1, DeliveredHas
<1>3. QED
  BY <1>1, <1>2, Forgets DEF Inv, DocInv

LEMMA AgeCatalog ==
  ASSUME Inv, Inv', NEW i \in Idents, Age(i)
  PROVE  TheCatalog!CNext
<1>1. Tame /\ KeepsAll /\ UNCHANGED <<queue, status>>
  BY AgeKeeps
<1>2. \A j \in Idents : j # i => images'[j] = images[j]
  BY DEF Age, Set, Inv, TypeOK
<1>3. SameAll \/ LosesOne
  BY <1>1, <1>2, KeptLoses, AbsentFacts DEF Inv
<1>4. Delivered' \subseteq Delivered
  BY <1>1, KeptNames, NamesDelivered, QueueTyped DEF QueueIdents, Inv
<1>5. QED
  BY <1>3, <1>4, Forgets DEF Inv, DocInv

LEMMA NextCatalog ==
  ASSUME Inv, Inv', Flow, [Next]_vars
  PROVE  [TheCatalog!CNext]_(TheCatalog!cvars)
<1>1. CASE Next
  BY <1>1, HandlerCatalog, WorkerCatalog, UpdateMongoStateCatalog,
     MissingPullCatalog, BeginReadyCatalog, SetReadyCatalog, TameStatusCatalog,
     UntagCatalog, RetagCatalog, RestartCatalog, AgeCatalog
  DEF Next, Manage, StatusStep, TameStatusStep
<1>2. CASE UNCHANGED vars
  <2>1. UNCHANGED <<images, queue, status>>
    BY <1>2 DEF vars
  <2>2. Delivered' \subseteq Delivered
    BY <2>1, DeliveredHas
  <2>3. QED
    BY <2>1, <2>2, ImagesStand
<1>3. QED
  BY <1>1, <1>2

LEMMA InitCatalog ==
  ASSUME Init, Inv
  PROVE  TheCatalog!CInit
<1>1. \A n \in Systems \X Tags : ImageIn(images, n[1], n[2]) = NoImage
  <2>1. \A i \in Idents : ~IsReady(images[i])
    BY AbsentFacts DEF Init
  <2>2. QED
    BY <2>1, ImageFacts DEF ActiveIn, TagUnique, Inv, DocInv
<1>2. CatalogIn(images) = [n \in Systems \X Tags |-> NoImage]
  BY <1>1 DEF CatalogIn
<1>3. Delivered = {}
  <2>1. Len(queue) = 0 /\ status.pc = "idle"
    BY DEF Init, Idle
  <2>2. QED
    BY <2>1, DeliveredHas
<1>4. QED
  BY <1>2, <1>3, CatalogIs DEF TheCatalog!CInit, TheCatalog!Names

\* ImplementsCatalog: whatever the interleaving of handlers, workers and the
\* status process, with failing queries and restarts, the collection behaves
\* as the catalogue that clients are promised.
THEOREM MngrImplementsCatalog == Spec => ImplementsCatalog
<1>1. Init /\ Inv => TheCatalog!CInit
  BY InitCatalog
<1>2. Inv /\ Inv' /\ Flow /\ [Next]_vars
        => [TheCatalog!CNext]_(TheCatalog!cvars)
  BY NextCatalog
<1>3. QED
  BY <1>1, <1>2, RequestsFlow, PTL
  DEF Spec, ImplementsCatalog, TheCatalog!CSpec

-----------------------------------------------------------------------------
(* One API process.  What follows holds when a single API process feeds the *)
(* pool: with two of them, a request comes between any two steps of        *)
(* another.                                                                *)

Alone == \A g, h \in Handlers : g = h

\* What every step but an insertion leaves of a document: its name, that it
\* was stamped, and, but for those of a result, its access lists and image.
Carried(e, d) ==
  e = Absent \/ /\ Exists(d)
                /\ e.system = d.system /\ e.itype = d.itype
                /\ e.pulltag = d.pulltag
                /\ d.last_pull # "none" => e.last_pull # "none"
                /\ e.acl = d.acl \/ (Busy /\ e.acl = status.response.acl)
                /\ \/ e.id = d.id
                   \/ /\ Busy /\ e.id = status.response.id
                      /\ d.system = status.system
                /\ e.last_heartbeat = "old"
                     => d.last_heartbeat = "old" \/ "old" \in Clock
CarriesAll == \A i \in Idents : Carried(images'[i], images[i])

LEMMA CarriedSame ==
  ASSUME NEW d \in Document
  PROVE  Carried(d, d) /\ Carried(Absent, d)
BY DocumentCases DEF Carried

\* The updates of one document.
LEMMA CarriedUpdates ==
  ASSUME NEW d \in Document, NEW state, NEW tag, NEW system \in Systems
  PROVE  /\ Carried(SetState(d, state), d) /\ Carried(SetBeat(d, state), d)
         /\ Carried(Touch(d), d) /\ Carried(ResetExpire(d), d)
         /\ Carried(AddToSet(d, tag), d)
         /\ Carried(RemoveTag(d, system, tag), d)
<1>1. CASE ~Exists(d)
  BY <1>1, DocumentCases, AbsentFacts, ImageDBAssumption
  DEF Carried, SetState, SetBeat, Touch, ResetExpire, AddToSet, RemoveTag, Assign
<1>2. CASE Exists(d)
  <2>1. d \in Record
    BY <1>2, DocumentCases
  <2>2. Carried(SetState(d, state), d) /\ Carried(SetBeat(d, state), d)
    BY <1>2, <2>1 DEF Carried, SetState, SetBeat, Assign, Record
  <2>3. Carried(Touch(d), d) /\ Carried(ResetExpire(d), d)
    BY <1>2, <2>1 DEF Carried, Touch, ResetExpire, Assign, Record
  <2>4. Carried(AddToSet(d, tag), d) /\ Carried(RemoveTag(d, system, tag), d)
    BY <1>2, <2>1 DEF Carried, AddToSet, RemoveTag, Assign, Record
  <2>5. QED
    BY <2>2, <2>3, <2>4
<1>3. QED
  BY <1>1, <1>2

\* The updates that write what a result says.
LEMMA CarriedResults ==
  ASSUME Busy, NEW d \in Document
  PROVE  /\ (Exists(d) => d.system = status.system)
              => Carried(MakeReady(d, status.response), d)
         /\ Carried(SetAccess(d, status.response.acl), d)
<1>1. CASE ~Exists(d)
  BY <1>1, DocumentCases DEF Carried, MakeReady, SetAccess, Assign
<1>2. CASE Exists(d)
  <2>1. d \in Record
    BY <1>2, DocumentCases
  <2>2. QED
    BY <1>2, <2>1 DEF Carried, MakeReady, SetAccess, Assign, Record
<1>3. QED
  BY <1>1, <1>2

LEMMA CarriesSet ==
  ASSUME TypeOK, NEW i \in Idents, NEW d, Carried(d, images[i]), Set(i, d)
  PROVE  CarriesAll
<1>1. \A j \in Idents : images'[j] = IF j = i THEN d ELSE images[j]
  BY DEF TypeOK, Set
<1>2. \A j \in Idents : images[j] \in Document
  BY DEF TypeOK
<1>3. QED
  BY <1>1, <1>2, CarriedSame DEF CarriesAll

LEMMA CarriesUnchanged ==
  ASSUME TypeOK, UNCHANGED images
  PROVE  CarriesAll
BY CarriedSame DEF CarriesAll, TypeOK

LEMMA AgeCarries ==
  ASSUME Inv, NEW i \in Idents, Age(i)
  PROVE  CarriesAll
<1>1. images[i] \in Record /\ Exists(images[i])
  BY DocumentCases DEF Age, Inv, TypeOK
<1>2. PICK d : Set(i, d) /\ Carried(d, images[i])
  <2>1. \A x \in PullAge \ {"none"} :
          Carried([images[i] EXCEPT !.last_pull = x], images[i])
    BY <1>1 DEF Carried, Record
  <2>2. "old" \in Clock =>
          Carried([images[i] EXCEPT !.last_heartbeat = "old"], images[i])
    BY <1>1 DEF Carried, Record
  <2>3. \A x : Carried([images[i] EXCEPT !.expiration = x], images[i])
    BY <1>1 DEF Carried, Record
  <2>4. QED
    BY <2>1, <2>2, <2>3 DEF Age, PullAge
<1>3. QED
  BY <1>2, CarriesSet DEF Inv

LEMMA HandlerCarries ==
  ASSUME Inv, NEW h \in Handlers,
         Receive(h) \/ HandlerStep(h) \/ HandlerRaises(h), ~Insert(h)
  PROVE  CarriesAll
<1>1. CASE UNCHANGED images
  BY <1>1, CarriesUnchanged DEF Inv
<1>2. CASE UpdateStates(h)
  <2>1. PICK gone \in SUBSET Idents :
          images' = [i \in Idents |-> IF i \in gone THEN Absent ELSE images[i]]
    BY <1>2 DEF UpdateStates
  <2>2. QED
    BY <2>1, CarriedSame DEF CarriesAll, Inv, TypeOK
<1>3. CASE Remove(h)
  <2>1. PICK v \in handler[h].todo : Set(v[1], Absent)
    BY <1>3 DEF Remove
  <2>2. v[1] \in Idents
    BY <1>3, <2>1, HandlerBusy DEF Remove, HandlerStates, Inv
  <2>3. Carried(Absent, images[v[1]])
    BY DEF Carried
  <2>4. QED
    BY <2>1, <2>2, <2>3, CarriesSet DEF Inv
<1>4. CASE MarkPending(h) \/ StampPull(h) \/ ResetExpiry(h)
  <2>1. handler[h].ident \in Idents /\ images[handler[h].ident] \in Document
    BY <1>4 DEF MarkPending, StampPull, ResetExpiry, HandlerInv, Inv, TypeOK
  <2>2. PICK d : Set(handler[h].ident, d) /\ Carried(d, images[handler[h].ident])
    <3>1. PICK system \in Systems : TRUE
      BY <1>4, HandlerBusy
      DEF MarkPending, StampPull, ResetExpiry, HandlerStates, Requests, Inv
    <3>2. QED
      BY <1>4, <2>1, <3>1, CarriedUpdates DEF MarkPending, StampPull, ResetExpiry
  <2>3. QED
    BY <2>1, <2>2, CarriesSet DEF Inv
<1>5. QED
  BY <1>1, <1>2, <1>3, <1>4
  DEF Receive, HandlerRaises, HandlerStep, Raise, FindReady, FindPull, FindAny,
      Clean, Removed, Submit, Find, FindStuck, FindOld, ExpireId, AutoExpired,
      Expire, OnlyHandler

LEMMA StatusCarries ==
  ASSUME Inv, StatusStep \/ StatusRaises
  PROVE  CarriesAll
<1>1. CASE UNCHANGED images
  BY <1>1, CarriesUnchanged DEF Inv
<1>2. CASE UpdateMongoState
  <2>1. Head(queue) \in Messages /\ queue # <<>>
    BY <1>2, MessageFacts DEF UpdateMongoState, Inv
  <2>2. /\ Head(queue).ident \in Idents
        /\ images[Head(queue).ident] \in Document
    BY <2>1 DEF Messages, Inv, TypeOK
  <2>3. Carried(SetBeat(images[Head(queue).ident], Head(queue).state),
                images[Head(queue).ident])
    <3>1. CASE Exists(images[Head(queue).ident])
      <4>1. images[Head(queue).ident].system \in Systems
        BY <2>2, <3>1, DocumentCases DEF Record
      <4>2. QED
        BY <2>2, <4>1, CarriedUpdates
    <3>2. CASE ~Exists(images[Head(queue).ident])
      BY <2>2, <3>2, CarriedSame DEF SetBeat, Assign
    <3>3. QED
      BY <3>1, <3>2
  <2>4. QED
    BY <1>2, <2>2, <2>3, CarriesSet DEF UpdateMongoState, Inv
<1>3. ASSUME Busy
      PROVE  SetReady \/ TouchTarget \/ DropDuplicate \/ Untag \/ Retag
               \/ UpdateAcls \/ DropAclPull => CarriesAll
  <2>1. /\ status.ident \in Idents /\ images[status.ident] \in Document
        /\ status.target \in Idents /\ images[status.target] \in Document
        /\ status.system \in Systems
    BY <1>3, BusyFacts DEF Inv
  <2>2. CASE SetReady
    <3>1. Exists(images[status.ident]) => images[status.ident].system = status.system
      BY <1>3, <2>2 DEF SetReady, Inv, StatusInv
    <3>2. QED
      BY <1>3, <2>1, <2>2, <3>1, CarriedResults, CarriesSet DEF SetReady, Inv
  <2>3. CASE UpdateAcls
    BY <1>3, <2>1, <2>3, CarriedResults, CarriesSet DEF UpdateAcls, Inv
  <2>4. CASE DropDuplicate \/ DropAclPull
    BY <2>1, <2>4, CarriedSame, CarriesSet DEF DropDuplicate, DropAclPull, Inv
  <2>5. CASE TouchTarget
    BY <2>1, <2>5, CarriedUpdates, CarriesSet DEF TouchTarget, Inv
  <2>6. CASE Retag
    BY <2>1, <2>6, CarriedUpdates, CarriesSet DEF Retag, Inv
  <2>7. CASE Untag
    <3>1. \A i \in Idents : images[i] \in Document
      BY DEF Inv, TypeOK
    <3>2. \A i \in Idents :
            images'[i] = RemoveTag(images[i], status.system, status.tag)
      BY <2>7 DEF Untag
    <3>3. QED
      BY <2>1, <3>1, <3>2, CarriedUpdates DEF CarriesAll
  <2>8. QED
    BY <2>2, <2>3, <2>4, <2>5, <2>6, <2>7
<1>4. QED
  BY <1>1, <1>2, <1>3
  DEF StatusStep, StatusRaises, MissingPull, BeginReady, SetReady, TouchTarget,
      DropDuplicate, Untag, Retag, UpdateAcls, DropAclPull, Busy

LEMMA StepCarries ==
  ASSUME Inv, [Next]_vars, \A h \in Handlers : ~Insert(h)
  PROVE  CarriesAll
<1>1. ASSUME NEW t \in Threads, WorkerStep(t)
      PROVE  CarriesAll
  BY <1>1, WorkerStepGoal, CarriesUnchanged DEF Inv
<1>2. CASE Restart
  BY <1>2, CarriedSame DEF Restart, CarriesAll, Inv, TypeOK
<1>3. CASE UNCHANGED vars
  BY <1>3, CarriesUnchanged DEF vars, Inv
<1>4. QED
  BY <1>1, <1>2, <1>3, HandlerCarries, StatusCarries, AgeCarries
  DEF Next, Manage

-----------------------------------------------------------------------------
(* update_states and pull() find last_pull wherever they read it.           *)

\* A document is without last_pull only while the handler that inserted it
\* has not stamped it yet, and a READY document that pull() found has one.
Stamping(i) ==
  \E h \in Handlers : /\ handler[h].pc \in {"pending", "submit", "stamp"}
                      /\ handler[h].ident = i
Stamped ==
  \A i \in Idents :
    Exists(images[i]) /\ images[i].last_pull = "none" => Stamping(i)
SeenStamped ==
  \A h \in Handlers :
    handler[h].pc = "findpull" /\ IsReady(handler[h].seen)
      => handler[h].seen.last_pull # "none"

StampInv == Stamped /\ SeenStamped /\ FailuresCleaned

\* Where a handler is after it moves.
LEMMA GotoAt ==
  ASSUME TypeOK, NEW h \in Handlers, handler[h].pc # "idle", NEW pc, Goto(h, pc)
  PROVE  /\ handler'[h].pc = pc
         /\ handler'[h].req = handler[h].req
         /\ handler'[h].todo = handler[h].todo
         /\ handler'[h].ident = handler[h].ident
         /\ handler'[h].seen = handler[h].seen
         /\ \A g \in Handlers : g # h => handler'[g] = handler[g]
BY HandlerBusy DEF TypeOK, Goto, HandlerStates

LEMMA ReturnAt ==
  ASSUME TypeOK, NEW h \in Handlers, Return(h)
  PROVE  /\ handler'[h] = Idle /\ handler'[h].pc = "idle"
         /\ \A g \in Handlers : g # h => handler'[g] = handler[g]
BY DEF TypeOK, Return, Idle

\* Where a handler that has not inserted its document gets in one step, and
\* with which document in its hands.
LEMMA HandlerReads ==
  ASSUME Inv, StampInv, Alone, Faults = {}, NEW h \in Handlers,
         Receive(h) \/ HandlerStep(h) \/ HandlerRaises(h),
         handler[h].pc \notin {"insert", "pending", "submit", "stamp"}
  PROVE  /\ handler'[h].pc # "KeyError"
         /\ handler'[h].pc = "findpull" /\ IsReady(handler'[h].seen)
              => handler'[h].seen.last_pull # "none"
<1> USE DEF Inv
<1>1. \A i \in Idents : Exists(images[i]) => images[i].last_pull # "none"
  BY DEF StampInv, Stamped, Stamping, Alone
<1>2. \A i \in Idents : images[i].status = "FAILURE" => Exists(images[i])
  BY DEF Exists
<1>3. CASE Receive(h)
  <2>1. PICK r \in Requests :
          handler' = [handler EXCEPT ![h] =
            [ pc    |-> CASE r.op = "import" -> "findany"
                          [] r.op = "expire" -> "findtag"
                          [] OTHER           -> "states",
              req   |-> r, seen |-> Absent, todo |-> {}, ident |-> NoIdent ]]
    BY <1>3 DEF Receive
  <2>2. handler'[h].pc \in {"findany", "findtag", "states"}
    BY <2>1 DEF TypeOK
  <2>3. QED
    BY <2>2
<1>4. CASE UpdateStates(h)
  BY <1>1, <1>2, <1>4, GotoAt, ReturnAt DEF UpdateStates
<1>5. CASE FindReady(h)
  <2>1. PICK d \in {images[i] : i \in {j \in Idents :
                  IsActive(images[j], handler[h].req)}} \cup {Absent} :
          handler' = [handler EXCEPT ![h].seen = d, ![h].pc = "findpull"]
    BY <1>5 DEF FindReady
  <2>2. IsReady(d) => d.last_pull # "none"
    BY <2>1, AbsentFacts DEF DocInv, ReadyHasImage, HasImage
  <2>3. handler'[h].pc = "findpull" /\ handler'[h].seen = d
    BY <1>5, <2>1, HandlerBusy DEF FindReady, HandlerStates, TypeOK
  <2>4. QED
    BY <2>2, <2>3
<1>6. CASE FindPull(h)
  <2> DEFINE pending == {i \in Idents : RequestedAs(images[i], handler[h].req)
                                          /\ ~IsReady(images[i])}
  <2>1. PICK d \in {images[i] : i \in pending} \cup {handler[h].seen} :
          IF IsReady(d) /\ d.last_pull = "none" THEN Goto(h, "KeyError")
          ELSE IF Exists(d) /\ d.acl = Null THEN Goto(h, "TypeError")
          ELSE IF NeedsPull(d, handler[h].req.acl)
            THEN handler' = [handler EXCEPT ![h].pc = "clean", ![h].seen = Absent]
          ELSE Return(h)
    BY <1>6 DEF FindPull
  <2>2. ~(IsReady(d) /\ d.last_pull = "none")
    <3>1. CASE d \in {images[i] : i \in pending}
      BY <3>1
    <3>2. CASE d = handler[h].seen
      BY <1>6, <3>2 DEF FindPull, StampInv, SeenStamped
    <3>3. QED
      BY <3>1, <3>2
  <2>3. \/ Goto(h, "TypeError") \/ Return(h)
        \/ handler' = [handler EXCEPT ![h].pc = "clean", ![h].seen = Absent]
    BY <2>1, <2>2
  <2>4. handler'[h].pc \in {"TypeError", "idle", "clean"}
    <3>1. CASE Goto(h, "TypeError") \/ Return(h)
      BY <1>6, <3>1, GotoAt, ReturnAt DEF FindPull
    <3>2. CASE handler' = [handler EXCEPT ![h].pc = "clean", ![h].seen = Absent]
      BY <1>6, <3>2, HandlerBusy DEF FindPull, HandlerStates, TypeOK
    <3>3. QED
      BY <2>3, <3>1, <3>2
  <2>5. QED
    BY <2>4
<1>7. CASE \/ Raise(h) \/ AutoExpired(h) \/ HandlerRaises(h) \/ Expire(h)
           \/ ResetExpiry(h)
  BY <1>7, ReturnAt
  DEF Raise, AutoExpired, HandlerRaises, Expire, ResetExpiry
<1>8. CASE FindAny(h) \/ Removed(h)
  BY <1>8, ReturnAt, GotoAt DEF FindAny, Removed
<1>9. CASE \/ Clean(h) \/ FindStuck(h) \/ FindOld(h) \/ Remove(h) \/ ExpireId(h)
           \/ Find(h)
  <2>1. handler'[h].pc \in {"remove", "doexpire", "idle", "resetexpire"}
    BY <1>9, ReturnAt, HandlerBusy
    DEF Clean, FindStuck, FindOld, Remove, ExpireId, Find, HandlerStates, TypeOK
  <2>2. QED
    BY <2>1
<1>10. QED
  BY <1>3, <1>4, <1>5, <1>6, <1>7, <1>8, <1>9
  DEF HandlerStep, Insert, MarkPending, Submit, StampPull

\* From the insertion on, the handler that inserted the document has it in
\* its hands until the document is stamped.
LEMMA HandlerStamps ==
  ASSUME Inv, StampInv, Alone, Faults = {}, NEW h \in Handlers,
         Receive(h) \/ HandlerStep(h) \/ HandlerRaises(h),
         handler[h].pc \in {"insert", "pending", "submit", "stamp"}
  PROVE  /\ Stamped'
         /\ handler'[h].pc \notin {"KeyError", "findpull"}
<1> USE DEF Inv
<1>1. \A i \in Idents :
        Exists(images[i]) /\ images[i].last_pull = "none"
          => handler[h].pc # "insert" /\ handler[h].ident = i
  BY DEF StampInv, Stamped, Stamping, Alone
<1>2. CASE Insert(h)
  <2>1. PICK i \in Idents :
          /\ Set(i, NewRecord(handler[h].req))
          /\ handler' = [handler EXCEPT ![h].pc = "pending", ![h].ident = i]
    BY <1>2 DEF Insert
  <2>2. handler'[h].pc = "pending" /\ handler'[h].ident = i
    BY <1>2, <2>1, HandlerBusy DEF Insert, HandlerStates, TypeOK
  <2>3. \A j \in Idents : j # i => images'[j] = images[j]
    BY <2>1 DEF Set, TypeOK
  <2>4. Stamped'
    BY <1>1, <1>2, <2>2, <2>3 DEF Stamped, Stamping, Insert
  <2>5. QED
    BY <2>2, <2>4
<1>3. CASE MarkPending(h) \/ Submit(h)
  <2>1. /\ handler'[h].pc \in {"submit", "stamp"}
        /\ handler'[h].ident = handler[h].ident
    BY <1>3, GotoAt DEF MarkPending, Submit
  <2>2. CarriesAll
    BY <1>3, HandlerCarries DEF HandlerStep, MarkPending, Submit, Insert
  <2>3. Stamped'
    BY <1>1, <2>1, <2>2, AbsentFacts DEF Stamped, Stamping, CarriesAll, Carried
  <2>4. QED
    BY <2>1, <2>3
<1>4. CASE StampPull(h)
  <2>1. handler'[h].pc = "idle"
    BY <1>4, ReturnAt DEF StampPull
  <2>2. handler[h].ident \in Idents /\ images[handler[h].ident] \in Document
    BY <1>4 DEF StampPull, HandlerInv, TypeOK
  <2>3. \A i \in Idents : images'[i] =
          IF i = handler[h].ident THEN Touch(images[i]) ELSE images[i]
    BY <1>4 DEF StampPull, Set, TypeOK
  <2>4. Exists(images[handler[h].ident]) =>
          Touch(images[handler[h].ident]).last_pull = "recent"
    BY <2>2, DocumentCases DEF Touch, Assign, Record
  <2>5. ~Exists(images[handler[h].ident]) =>
          ~Exists(Touch(images[handler[h].ident]))
    BY DEF Touch, Assign
  <2>6. Stamped'
    BY <1>1, <2>3, <2>4, <2>5 DEF Stamped
  <2>7. QED
    BY <2>1, <2>6
<1>5. QED
  BY <1>2, <1>3, <1>4
  DEF HandlerStep, Receive, HandlerRaises, Raise, UpdateStates, FindReady,
      FindPull, FindAny, Clean, Remove, Removed, Find, ResetExpiry, FindStuck,
      FindOld, ExpireId, AutoExpired, Expire

LEMMA NextStamp ==
  ASSUME Inv, StampInv, Alone, Faults = {}, [Next]_vars
  PROVE  StampInv'
<1>1. ASSUME NEW h \in Handlers,
             Receive(h) \/ HandlerStep(h) \/ HandlerRaises(h)
      PROVE  StampInv'
  <2>1. CASE handler[h].pc \in {"insert", "pending", "submit", "stamp"}
    BY <1>1, <2>1, HandlerStamps DEF StampInv, SeenStamped, FailuresCleaned, Alone
  <2>2. CASE handler[h].pc \notin {"insert", "pending", "submit", "stamp"}
    <3>1. CarriesAll
      BY <1>1, <2>2, HandlerCarries DEF Insert
    <3>2. \A i \in Idents : ~(Exists(images[i]) /\ images[i].last_pull = "none")
      BY <2>2 DEF StampInv, Stamped, Stamping, Alone
    <3>3. Stamped'
      BY <3>1, <3>2, AbsentFacts DEF Stamped, CarriesAll, Carried
    <3>4. QED
      BY <1>1, <2>2, <3>3, HandlerReads
      DEF StampInv, SeenStamped, FailuresCleaned, Alone
  <2>3. QED
    BY <2>1, <2>2
<1>2. CASE UNCHANGED handler /\ CarriesAll
  BY <1>2, AbsentFacts
  DEF StampInv, Stamped, Stamping, SeenStamped, FailuresCleaned, CarriesAll, Carried
<1>3. ASSUME NEW t \in Threads, WorkerStep(t)
      PROVE  UNCHANGED handler /\ CarriesAll
  BY <1>3, WorkerStepGoal, CarriesUnchanged DEF Inv
<1>4. CASE StatusStep \/ StatusRaises
  <2>1. UNCHANGED handler
    BY <1>4 DEF StatusStep, StatusRaises, UpdateMongoState, MissingPull,
       BeginReady, SetReady, TouchTarget, DropDuplicate, Untag, Retag,
       UpdateAcls, DropAclPull, OnlyStatus
  <2>2. QED
    BY <1>2, <1>4, <2>1, StatusCarries
<1>5. CASE \E i \in Idents : Age(i)
  BY <1>2, <1>5, AgeCarries, AgeKeeps
<1>6. CASE UNCHANGED vars
  BY <1>2, <1>6, CarriesUnchanged DEF vars, Inv
<1>7. QED
  BY <1>1, <1>2, <1>3, <1>4, <1>5, <1>6 DEF Next, Manage, Restart

\* FailuresCleaned: update_states finds last_pull in every failed document,
\* and pull() in every READY one, so that neither raises a KeyError, whatever
\* the requests and the clock: as long as one API process feeds the pool and
\* no query fails between the insertion of a document and its stamp.
THEOREM CleaningGoesOn == Alone /\ Faults = {} /\ Spec => []FailuresCleaned
<1>1. Init => StampInv
  BY DEF Init, StampInv, Stamped, SeenStamped, FailuresCleaned, Idle, Absent, Exists
<1>2. Inv /\ StampInv /\ Alone /\ Faults = {} /\ [Next]_vars => StampInv'
  BY NextStamp
<1>3. StampInv => FailuresCleaned
  BY DEF StampInv
<1>4. Alone /\ Faults = {} => [](Alone /\ Faults = {})
  <2>1. (Alone /\ Faults = {}) => (Alone /\ Faults = {})'
    BY DEF Alone
  <2>2. QED
    BY <2>1, PTL
<1>5. QED
  BY <1>1, <1>2, <1>3, <1>4, Invariance, PTL DEF Spec

-----------------------------------------------------------------------------
(* What the steps of a handler and of a thread do to the pool, the threads *)
(* and the queue.                                                          *)

\* A handler gives the pool at most one task: that of its request, or an
\* expiry when it is to expire something.
LEMMA HandlerPool ==
  ASSUME Inv, NEW h \in Handlers,
         Receive(h) \/ HandlerStep(h) \/ HandlerRaises(h)
  PROVE  /\ UNCHANGED <<worker, queue, status>>
         /\ \/ UNCHANGED pool
            \/ \E k \in Tasks :
                 /\ pool' = Append(pool, k)
                 /\ \/ /\ k.op = "expire"
                       /\ handler[h].pc \in {"findtag", "doexpire"}
                    \/ /\ handler[h].pc = "submit"
                       /\ k.op = handler[h].req.op
                       /\ k.op = "pull" => k.acl = handler[h].req.acl
                       /\ k.ident = handler[h].ident
                       /\ k.system = handler[h].req.system
<1> USE DEF Inv
<1>1. CASE Submit(h)
  <2> DEFINE r == handler[h].req
             k == [ op |-> r.op, ident |-> handler[h].ident,
                    system |-> r.system, id |-> NoImage,
                    acl |-> IF r.op = "import" THEN Null ELSE r.acl,
                    file |-> r.file ]
  <2>1. /\ r \in Requests /\ handler[h].pc = "submit"
        /\ r.op \in {"pull", "import"} /\ handler[h].ident \in Idents
    BY <1>1, HandlerBusy DEF Submit, HandlerStates, HandlerInv
  <2>2. k \in Tasks
    BY <2>1, ImageDBAssumption DEF Tasks, Requests, Access, ImageIds
  <2>3. pool' = Append(pool, k) /\ UNCHANGED <<worker, queue, status>>
    BY <1>1 DEF Submit
  <2>4. QED
    BY <2>1, <2>2, <2>3
<1>2. CASE ExpireId(h)
  <2>1. /\ handler[h] \in HandlerStates /\ handler[h].pc = "doexpire"
        /\ UNCHANGED <<worker, queue, status>>
    BY <1>2, HandlerBusy DEF ExpireId
  <2>2. PICK v \in handler[h].todo :
          pool' = Append(pool, ExpireTask(v[1], handler[h].req.system, v[2]))
    BY <1>2 DEF ExpireId
  <2>3. v[1] \in Idents /\ v[2] \in ImageIds \cup {NoImage}
        /\ handler[h].req.system \in Systems
    BY <2>1, <2>2 DEF HandlerStates, Requests
  <2>4. ExpireTask(v[1], handler[h].req.system, v[2]) \in Tasks
    BY <2>3, ExpireTaskTyped
  <2>5. ExpireTask(v[1], handler[h].req.system, v[2]).op = "expire"
    BY DEF ExpireTask
  <2>6. QED
    BY <2>1, <2>2, <2>4, <2>5
<1>3. CASE Expire(h)
  <2>1. /\ handler[h] \in HandlerStates /\ handler[h].pc = "findtag"
        /\ UNCHANGED <<worker, queue, status>>
    BY <1>3, HandlerBusy DEF Expire
  <2>2. ASSUME ~UNCHANGED pool
        PROVE  \E k \in Tasks : pool' = Append(pool, k) /\ k.op = "expire"
    <3>1. PICK i \in Idents :
            pool' = Append(pool,
                      ExpireTask(i, handler[h].req.system, images[i].id))
      BY <1>3, <2>2 DEF Expire
    <3>2. images[i].id \in ImageIds \cup {NoImage}
      BY DocumentCases DEF TypeOK
    <3>3. ExpireTask(i, handler[h].req.system, images[i].id) \in Tasks
      BY <2>1, <3>2, ExpireTaskTyped DEF HandlerStates, Requests
    <3>4. ExpireTask(i, handler[h].req.system, images[i].id).op = "expire"
      BY DEF ExpireTask
    <3>5. QED
      BY <3>1, <3>3, <3>4
  <2>3. QED
    BY <2>1, <2>2
<1>4. QED
  BY <1>1, <1>2, <1>3
  DEF Receive, HandlerRaises, HandlerStep, Raise, UpdateStates, FindReady,
      FindPull, FindAny, Clean, Remove, Removed, Insert, MarkPending, StampPull,
      Find, ResetExpiry, FindStuck, FindOld, AutoExpired, OnlyHandler,
      ImagesChange

\* A message of a thread, and where the thread is before and after it.
Posting(t, m) ==
  /\ queue' = Append(queue, m) /\ m.ident = worker[t].task.ident
  /\ m.state = "READY" =>
       /\ worker[t].pc = "transfer" /\ worker'[t].pc = "idle"
       /\ worker[t].task.op # "import"
            => m.response.acl \in {worker[t].task.acl, Public}
  /\ m.state = "FAILURE" =>
       \/ worker[t].pc = "failed"
       \/ worker[t].task.op = "expire"
       \/ worker'[t].pc = "failed"
  /\ m.state \in {"EXPIRING", "EXPIRED"} => worker[t].task.op = "expire"

LEMMA PostedIs ==
  ASSUME TypeOK, NEW t \in Threads, worker[t].pc # "idle",
         NEW state \in Status, NEW response \in Responses \cup {NoResponse},
         state = "READY" <=> response # NoResponse, Post(t, state, response),
         NEW pc, IF pc = "idle" THEN WorkerDone(t) ELSE WorkerTo(t, pc),
         state = "READY" =>
           /\ worker[t].pc = "transfer" /\ pc = "idle"
           /\ worker[t].task.op # "import"
                => response.acl \in {worker[t].task.acl, Public},
         state = "FAILURE" =>
           worker[t].pc = "failed" \/ worker[t].task.op = "expire" \/ pc = "failed",
         state \in {"EXPIRING", "EXPIRED"} => worker[t].task.op = "expire",
         pc = "failed" => worker[t].pc # "failed" /\ worker[t].task.op # "expire"
  PROVE  /\ \E m \in Messages : Posting(t, m)
         /\ \A u \in Threads : worker'[u].pc # "idle" =>
              /\ worker[u].pc # "idle" /\ worker'[u].task = worker[u].task
              /\ u # t => worker'[u] = worker[u]
         /\ worker'[t].pc = "failed" =>
              worker[t].pc # "failed" /\ worker[t].task.op # "expire"
<1> DEFINE m == [ ident |-> worker[t].task.ident, state |-> state,
                  response |-> response ]
<1>1. worker[t] \in WorkerStates
  BY DEF TypeOK, Idle
<1>2. worker[t].task.ident \in Idents
  BY <1>1 DEF WorkerStates, Tasks
<1>3. m \in Messages /\ queue' = Append(queue, m)
  BY <1>2 DEF Messages, Post
<1>4. m.ident = worker[t].task.ident /\ m.state = state /\ m.response = response
  OBVIOUS
<1> HIDE DEF m
<1>5. /\ worker'[t].pc = pc
      /\ \A u \in Threads : worker'[u].pc # "idle" =>
           /\ worker[u].pc # "idle" /\ worker'[u].task = worker[u].task
           /\ u # t => worker'[u] = worker[u]
  BY <1>1 DEF WorkerDone, WorkerTo, WorkerStates, Idle, TypeOK
<1>6. Posting(t, m)
  BY <1>3, <1>4, <1>5 DEF Posting
<1>7. QED
  BY <1>3, <1>5, <1>6

LEMMA ThreadPosts ==
  ASSUME Inv, NEW t \in Threads, WorkerStep(t), ~Take(t)
  PROVE  /\ UNCHANGED <<images, handler, pool, status>>
         /\ worker[t].pc # "idle"
         /\ \E m \in Messages : Posting(t, m)
         /\ \A u \in Threads : worker'[u].pc # "idle" =>
              /\ worker[u].pc # "idle" /\ worker'[u].task = worker[u].task
              /\ u # t => worker'[u] = worker[u]
         /\ worker'[t].pc = "failed" =>
              worker[t].pc # "failed" /\ worker[t].task.op # "expire"
<1>1. UNCHANGED <<images, handler, pool, status>> /\ worker[t].pc # "idle"
  BY DEF WorkerStep, Begin, Transfer, Complete, CompleteWith, Expired, Fail,
         FailAgain, OnlyWorker
<1>2. NoResponse \notin Responses
  BY ImageDBAssumption DEF Responses, NoResponse, ImageIds
<1>3. worker[t].task.op \in {"pull", "import", "expire"}
  BY <1>1 DEF Inv, TypeOK, Idle, WorkerStates, Tasks
<1> USE DEF Inv, Status, InFlight, Working
<1>4. CASE Begin(t)
  <2>1. PICK state \in {"PULLING", "HASHING", "EXPIRING"} :
          /\ Post(t, state, NoResponse)
          /\ state = "EXPIRING" => worker[t].task.op = "expire"
    BY <1>3, <1>4 DEF Begin
  <2>2. WorkerTo(t, "work")
    BY <1>4 DEF Begin
  <2>3. QED
    BY <1>1, <2>1, <2>2, PostedIs
<1>5. CASE Transfer(t)
  BY <1>1, <1>5, PostedIs DEF Transfer
<1>6. CASE Complete(t)
  <2>1. PICK resp \in Responses : CompleteWith(t, resp)
    BY <1>6 DEF Complete
  <2>2. /\ Post(t, "READY", resp) /\ WorkerDone(t) /\ worker[t].pc = "transfer"
        /\ worker[t].task.op # "import" => resp.acl \in {worker[t].task.acl, Public}
    BY <2>1 DEF CompleteWith
  <2>3. QED
    BY <1>1, <1>2, <2>2, PostedIs
<1>7. CASE Expired(t)
  BY <1>1, <1>7, PostedIs DEF Expired
<1>8. CASE Fail(t)
  <2>1. Post(t, "FAILURE", NoResponse) /\ worker[t].pc # "failed"
    BY <1>8 DEF Fail
  <2>2. CASE worker[t].task.op = "expire"
    BY <1>1, <1>8, <2>1, <2>2, PostedIs DEF Fail
  <2>3. CASE worker[t].task.op # "expire"
    BY <1>1, <1>8, <2>1, <2>3, PostedIs DEF Fail
  <2>4. QED
    BY <2>2, <2>3
<1>9. CASE FailAgain(t)
  BY <1>1, <1>9, PostedIs DEF FailAgain
<1>10. QED
  BY <1>4, <1>5, <1>6, <1>7, <1>8, <1>9 DEF WorkerStep

\* A task leaves the pool for a thread.
LEMMA TakenIs ==
  ASSUME Inv, NEW t \in Threads, Take(t)
  PROVE  /\ pool # <<>> /\ 1 \in 1..Len(pool) /\ pool' = Tail(pool)
         /\ worker'[t] = [pc |-> "start", task |-> pool[1]]
         /\ \A u \in Threads : u # t => worker'[u] = worker[u]
         /\ Len(pool') = Len(pool) - 1
         /\ \A k \in 1..Len(pool') : k + 1 \in 1..Len(pool)
                                     /\ pool'[k] = pool[k + 1]
         /\ UNCHANGED <<images, handler, queue, status>>
BY DEF Take, Inv, TypeOK

\* A message leaves the queue.
LEMMA TailIs ==
  ASSUME Inv, queue # <<>>, queue' = Tail(queue)
  PROVE  /\ 1 \in 1..Len(queue) /\ Head(queue) = queue[1]
         /\ Len(queue') = Len(queue) - 1
         /\ \A k \in 1..Len(queue') : k + 1 \in 1..Len(queue)
                                      /\ queue'[k] = queue[k + 1]
BY DEF Inv, TypeOK

\* The status process takes one message or none, and begins nothing but the
\* READY message it took.
LEMMA StatusTakes ==
  ASSUME Inv, StatusStep \/ StatusRaises
  PROVE  /\ OnlyStatus
         /\ UNCHANGED queue \/ (queue # <<>> /\ queue' = Tail(queue))
         /\ Busy' => \/ BeginReady
                     \/ /\ Busy /\ status'.response = status.response
                        /\ status'.ident = status.ident
                        /\ status'.target = status.target
                        /\ status'.acls = status.acls
                        /\ status'.system = status.system
<1>1. CASE UpdateMongoState \/ MissingPull
  BY <1>1 DEF UpdateMongoState, MissingPull, OnlyStatus, Busy
<1>2. CASE BeginReady
  BY <1>2 DEF BeginReady, OnlyStatus
<1>3. CASE StatusRaises
  BY <1>3 DEF StatusRaises, OnlyStatus, Busy, Dead
<1>4. CASE SetReady \/ TouchTarget \/ DropDuplicate \/ Untag \/ UpdateAcls
  <2>1. Busy /\ OnlyStatus /\ UNCHANGED queue
    BY <1>4 DEF SetReady, TouchTarget, DropDuplicate, Untag, UpdateAcls, Busy
  <2>2. \E pc : StatusTo(pc)
    BY <1>4 DEF SetReady, TouchTarget, DropDuplicate, Untag, UpdateAcls
  <2>3. QED
    BY <2>1, <2>2, BusyFacts DEF StatusTo, StatusStates, Inv
<1>5. CASE Retag \/ DropAclPull
  <2>1. Busy /\ OnlyStatus /\ UNCHANGED queue
    BY <1>5 DEF Retag, DropAclPull, Busy
  <2>2. StatusTo("acls") \/ status' = Idle
    BY <1>5 DEF Retag, DropAclPull
  <2>3. QED
    BY <2>1, <2>2, BusyFacts DEF StatusTo, StatusStates, Inv, Idle, Busy
<1>6. QED
  BY <1>1, <1>2, <1>3, <1>4, <1>5 DEF StatusStep

-----------------------------------------------------------------------------
(* pull() starts one pull of a name at a time.                              *)

\* Without imports and without access lists, everything carries the same
\* empty lists.
PublicTask(k) == k.op # "import" /\ (k.op = "pull" => k.acl = Public)
PublicLists ==
  /\ \A i \in Idents : Exists(images[i]) => images[i].acl = Public
  /\ \A k \in 1..Len(pool) : PublicTask(pool[k])
  /\ \A t \in Threads : worker[t].pc # "idle" => PublicTask(worker[t].task)
  /\ \A k \in 1..Len(queue) :
       queue[k].state = "READY" => queue[k].response.acl = Public
  /\ Busy => status.response.acl = Public

\* A pull that is about to insert its document has found every document of
\* the name whose pull is in progress, and removed it.
Flying(i) == images[i].status \in InFlight
Cleaning ==
  \A h \in Handlers, i \in Idents :
    /\ /\ handler[h].pc = "remove" /\ handler[h].req.op = "pull"
       /\ RequestedAs(images[i], handler[h].req) /\ Flying(i)
       => InTodo(h, i)
    /\ handler[h].pc = "insert"
         => ~(RequestedAs(images[i], handler[h].req) /\ Flying(i))

\* No two documents of one name show a pull in progress.
OneFlying ==
  \A i, j \in Idents :
    Flying(i) /\ Flying(j) /\ SameName(images[i], images[j]) => i = j

OnePullInv == PublicLists /\ Cleaning /\ OneFlying

\* Every request carries the empty lists, and none of them is an import.
NoLists == ACLs = {} /\ "import" \notin Ops

LEMMA PublicRequests ==
  ASSUME Inv, NoLists, NEW h \in Handlers, handler[h].pc # "idle"
  PROVE  /\ handler[h].req \in Requests /\ handler[h].req.acl = Public
         /\ handler[h].req.op # "import"
BY HandlerBusy DEF Inv, NoLists, HandlerStates, Requests

LEMMA NextLists ==
  ASSUME Inv, Flow, PublicLists, NoLists, [Next]_vars
  PROVE  PublicLists'
<1>1. ASSUME NEW h \in Handlers,
             Receive(h) \/ HandlerStep(h) \/ HandlerRaises(h)
      PROVE  PublicLists'
  <2>1. \A i \in Idents : Exists(images'[i]) => images'[i].acl = Public
    <3>1. CASE Insert(h)
      <4>1. PICK i \in Idents : Set(i, NewRecord(handler[h].req))
        BY <3>1 DEF Insert
      <4>2. NewRecord(handler[h].req).acl = Public
        BY <3>1, PublicRequests DEF Insert, NewRecord
      <4>3. QED
        BY <4>1, <4>2 DEF Set, Inv, TypeOK, PublicLists
    <3>2. CASE ~Insert(h)
      <4>1. CarriesAll
        BY <1>1, <3>2, HandlerCarries
      <4>2. QED
        BY <4>1, AbsentFacts DEF CarriesAll, Carried, PublicLists
    <3>3. QED
      BY <3>1, <3>2
  <2>2. UNCHANGED <<worker, queue, status>>
    BY <1>1, HandlerPool
  <2>3. \A k \in 1..Len(pool') : PublicTask(pool'[k])
    <3>1. CASE UNCHANGED pool
      BY <3>1 DEF PublicLists
    <3>2. CASE ~UNCHANGED pool
      <4>1. PICK k \in Tasks :
              /\ pool' = Append(pool, k)
              /\ k.op # "expire" => /\ handler[h].pc = "submit"
                                    /\ k.op = handler[h].req.op
                                    /\ k.op = "pull" => k.acl = handler[h].req.acl
        BY <1>1, <3>2, HandlerPool
      <4>2. PublicTask(k)
        BY <4>1, PublicRequests DEF PublicTask
      <4>3. \A n \in 1..Len(pool') :
              pool'[n] = k \/ (n \in 1..Len(pool) /\ pool'[n] = pool[n])
        BY <4>1 DEF Inv, TypeOK
      <4>4. QED
        BY <4>2, <4>3 DEF PublicLists
    <3>3. QED
      BY <3>1, <3>2
  <2>4. QED
    BY <2>1, <2>2, <2>3 DEF PublicLists, Busy
<1>2. ASSUME NEW t \in Threads, Take(t)
      PROVE  PublicLists'
  <2>1. \A u \in Threads : worker'[u].pc # "idle" => PublicTask(worker'[u].task)
    BY <1>2, TakenIs DEF PublicLists
  <2>2. \A k \in 1..Len(pool') : PublicTask(pool'[k])
    BY <1>2, TakenIs DEF PublicLists
  <2>3. UNCHANGED <<images, queue, status>>
    BY <1>2 DEF Take
  <2>4. QED
    BY <2>1, <2>2, <2>3 DEF PublicLists, Busy
<1>3. ASSUME NEW t \in Threads, WorkerStep(t), ~Take(t)
      PROVE  PublicLists'
  <2>1. PICK m \in Messages : Posting(t, m)
    BY <1>3, ThreadPosts
  <2>2. m.state = "READY" => m.response.acl = Public
    <3>1. SUFFICES ASSUME m.state = "READY"
                   PROVE  m.response.acl = Public
      OBVIOUS
    <3>2. worker[t].pc = "transfer"
      BY <2>1, <3>1 DEF Posting
    <3>3. worker[t].task.op # "expire" /\ worker[t].task.op # "import"
      BY <3>2 DEF Flow, ExpireThreads, PublicLists, PublicTask
    <3>4. worker[t].task.op = "pull"
      BY <3>2, <3>3 DEF Inv, TypeOK, Idle, WorkerStates, Tasks
    <3>5. worker[t].task.acl = Public
      BY <3>2, <3>4 DEF PublicLists, PublicTask
    <3>6. QED
      BY <2>1, <3>1, <3>3, <3>5 DEF Posting
  <2>3. \A n \in 1..Len(queue') :
          queue'[n] = m \/ (n \in 1..Len(queue) /\ queue'[n] = queue[n])
    BY <2>1 DEF Posting, Inv, TypeOK
  <2>4. \A k \in 1..Len(queue') :
          queue'[k].state = "READY" => queue'[k].response.acl = Public
    BY <2>2, <2>3 DEF PublicLists
  <2>5. \A u \in Threads : worker'[u].pc # "idle" => PublicTask(worker'[u].task)
    BY <1>3, ThreadPosts DEF PublicLists
  <2>6. UNCHANGED <<images, pool, status>>
    BY <1>3, ThreadPosts
  <2>7. QED
    BY <2>4, <2>5, <2>6 DEF PublicLists, Busy
<1>4. CASE StatusStep \/ StatusRaises
  <2>1. \A i \in Idents : Exists(images'[i]) => images'[i].acl = Public
    BY <1>4, StatusCarries, AbsentFacts DEF CarriesAll, Carried, PublicLists
  <2>2. \A k \in 1..Len(queue') :
          queue'[k].state = "READY" => queue'[k].response.acl = Public
    <3>1. CASE UNCHANGED queue
      BY <3>1 DEF PublicLists
    <3>2. CASE queue # <<>> /\ queue' = Tail(queue)
      BY <3>2, TailIs DEF PublicLists
    <3>3. QED
      BY <1>4, <3>1, <3>2, StatusTakes
  <2>3. Busy' => status'.response.acl = Public
    <3>1. CASE BeginReady
      <4>1. queue # <<>> /\ Head(queue).state = "READY" /\ queue' = Tail(queue)
        BY <3>1 DEF BeginReady
      <4>2. Head(queue).response.acl = Public
        BY <4>1, TailIs DEF PublicLists
      <4>3. status'.response = Head(queue).response
        BY <3>1 DEF BeginReady
      <4>4. QED
        BY <4>2, <4>3
    <3>2. CASE ~BeginReady
      BY <1>4, <3>2, StatusTakes DEF PublicLists
    <3>3. QED
      BY <3>1, <3>2
  <2>4. UNCHANGED <<pool, worker>>
    BY <1>4, StatusTakes DEF OnlyStatus
  <2>5. QED
    BY <2>1, <2>2, <2>3, <2>4 DEF PublicLists
<1>5. ASSUME NEW i \in Idents, Age(i)
      PROVE  PublicLists'
  <2>1. CarriesAll
    BY <1>5, AgeCarries
  <2>2. QED
    BY <1>5, <2>1, AbsentFacts DEF Age, CarriesAll, Carried, PublicLists, Busy
<1>6. CASE Restart
  <2>1. Len(pool') = 0 /\ Len(queue') = 0
    BY <1>6 DEF Restart
  <2>2. \A i \in Idents : Exists(images'[i]) => images'[i].acl = Public
    BY <1>6, AbsentFacts DEF Restart, PublicLists
  <2>3. QED
    BY <1>6, <2>1, <2>2 DEF Restart, PublicLists, Busy, Idle
<1>7. CASE UNCHANGED vars
  BY <1>7 DEF vars, PublicLists, Busy
<1>8. QED
  BY <1>1, <1>2, <1>3, <1>4, <1>5, <1>6, <1>7 DEF Next, Manage

\* A document that shows a pull in progress after a step showed it before,
\* unless it was inserted.
LEMMA FlyingKept ==
  ASSUME Inv, Flow, [Next]_vars, CarriesAll
  PROVE  \A i \in Idents :
           /\ Exists(images'[i]) =>
                /\ Exists(images[i]) /\ images'[i].system = images[i].system
                /\ images'[i].itype = images[i].itype
                /\ images'[i].pulltag = images[i].pulltag
           /\ Flying(i)' => Flying(i)
<1>1. \A i \in Idents :
        Exists(images'[i]) =>
          /\ Exists(images[i]) /\ images'[i].system = images[i].system
          /\ images'[i].itype = images[i].itype
          /\ images'[i].pulltag = images[i].pulltag
  BY AbsentFacts DEF CarriesAll, Carried
<1>2. StaysOver
  BY StepStaysOver
<1>3. ASSUME NEW i \in Idents, Flying(i)'
      PROVE  Flying(i)
  <2>1. Exists(images'[i])
    BY <1>3 DEF Flying, Exists, InFlight, Working
  <2>2. images[i].status \in Status
    BY <1>1, <2>1, DocumentCases DEF Inv, TypeOK, Record
  <2>3. images[i].status \notin Over
    BY <1>2, <1>3 DEF StaysOver, Flying
  <2>4. QED
    BY <2>2, <2>3 DEF Flying, Status, Over
<1>4. QED
  BY <1>1, <1>3

\* While a handler cleans out a name, only it moves the documents to remove.
LEMMA HandlerCleans ==
  ASSUME Inv, Flow, PublicLists, Cleaning, NoLists, NEW h \in Handlers,
         Receive(h) \/ HandlerStep(h) \/ HandlerRaises(h), ~Insert(h)
  PROVE  \A i \in Idents :
           /\ /\ handler'[h].pc = "remove" /\ handler'[h].req.op = "pull"
              /\ RequestedAs(images'[i], handler'[h].req) /\ Flying(i)'
              => InTodo(h, i)'
           /\ handler'[h].pc = "insert"
                => ~(RequestedAs(images'[i], handler'[h].req) /\ Flying(i)')
<1> USE DEF Inv
<1>1. CASE Clean(h)
  <2> DEFINE r    == handler[h].req
             todo == {<<i, NoImage>> : i \in {j \in Idents :
                         SameRequest(images[j], r) /\ ~IsReady(images[j])}}
  <2>1. handler[h] \in HandlerStates /\ handler[h].pc = "clean"
    BY <1>1, HandlerBusy DEF Clean
  <2>2. handler' = [handler EXCEPT ![h].pc = "remove", ![h].todo = todo]
    BY <1>1 DEF Clean
  <2>3. /\ handler'[h].pc = "remove" /\ handler'[h].req = r
        /\ handler'[h].todo = todo
    BY <2>1, <2>2 DEF HandlerStates, TypeOK
  <2>4. r.acl = Public /\ r.op # "import"
    BY <2>1, PublicRequests
  <2>5. ASSUME NEW i \in Idents, RequestedAs(images'[i], r), Flying(i)'
        PROVE  InTodo(h, i)'
    <3>1. images' = images
      BY <1>1 DEF Clean, OnlyHandler
    <3>2. SameRequest(images[i], r) /\ ~IsReady(images[i])
      BY <2>4, <2>5, <3>1
      DEF SameRequest, RequestedAs, PublicLists, Flying, IsReady, InFlight, Working
    <3>3. <<i, NoImage>> \in handler'[h].todo
      BY <2>3, <3>2
    <3>4. QED
      BY <3>3 DEF InTodo
  <2> HIDE DEF r, todo
  <2>6. QED
    BY <2>3, <2>5
<1>2. CASE FindStuck(h)
  <2>1. handler[h] \in HandlerStates /\ handler[h].req.op = "autoexpire"
    BY <1>2, HandlerBusy DEF FindStuck, HandlerInv
  <2>2. handler'[h].pc = "remove" /\ handler'[h].req = handler[h].req
    BY <1>2, <2>1 DEF FindStuck, HandlerStates, TypeOK
  <2>3. QED
    BY <2>1, <2>2
<1>3. CASE Remove(h)
  <2>1. handler[h] \in HandlerStates /\ handler[h].pc = "remove"
    BY <1>3, HandlerBusy DEF Remove
  <2>2. PICK v \in handler[h].todo :
          /\ Set(v[1], Absent)
          /\ handler' = [handler EXCEPT ![h].todo = @ \ {v}]
    BY <1>3 DEF Remove
  <2>3. v[1] \in Idents
    BY <2>1, <2>2 DEF HandlerStates
  <2>4. /\ handler'[h].pc = "remove" /\ handler'[h].req = handler[h].req
        /\ handler'[h].todo = handler[h].todo \ {v}
    BY <2>1, <2>2 DEF HandlerStates, TypeOK
  <2>5. \A i \in Idents : images'[i] = IF i = v[1] THEN Absent ELSE images[i]
    BY <2>2, <2>3 DEF Set, TypeOK
  <2>6. ASSUME NEW i \in Idents, handler'[h].req.op = "pull",
               RequestedAs(images'[i], handler'[h].req), Flying(i)'
        PROVE  InTodo(h, i)'
    <3>1. i # v[1] /\ images'[i] = images[i]
      BY <2>5, <2>6, AbsentFacts DEF RequestedAs
    <3>2. InTodo(h, i)
      BY <2>1, <2>4, <2>6, <3>1 DEF Cleaning, Flying
    <3>3. QED
      BY <2>4, <3>1, <3>2 DEF InTodo
  <2>7. QED
    BY <2>4, <2>6
<1>4. CASE Removed(h)
  <2>1. handler[h].pc = "remove" /\ handler[h].todo = {} /\ UNCHANGED images
    BY <1>4 DEF Removed, OnlyHandler
  <2>2. /\ handler'[h].pc = IF handler[h].req.op = "autoexpire" THEN "findold"
                                                                ELSE "insert"
        /\ handler'[h].req = handler[h].req
    BY <1>4, <2>1, GotoAt DEF Removed
  <2>3. handler[h].req.op # "autoexpire" => handler[h].req.op = "pull"
    BY <2>1, PublicRequests DEF HandlerInv
  <2>4. \A i \in Idents : ~InTodo(h, i)
    BY <2>1 DEF InTodo
  <2>5. QED
    BY <2>1, <2>2, <2>3, <2>4 DEF Cleaning, Flying
<1>5. CASE ~(Clean(h) \/ FindStuck(h) \/ Remove(h) \/ Removed(h))
  <2>1. handler'[h].pc \notin {"remove", "insert"}
    <3>1. CASE Receive(h)
      <4>1. PICK r \in Requests :
              handler' = [handler EXCEPT ![h] =
                [ pc    |-> CASE r.op = "import" -> "findany"
                              [] r.op = "expire" -> "findtag"
                              [] OTHER           -> "states",
                  req   |-> r, seen |-> Absent, todo |-> {}, ident |-> NoIdent ]]
        BY <3>1 DEF Receive
      <4>2. handler'[h].pc \in {"findany", "findtag", "states"}
        BY <4>1 DEF TypeOK
      <4>3. QED
        BY <4>2
    <3>2. CASE UpdateStates(h)
      BY <3>2, GotoAt, ReturnAt DEF UpdateStates
    <3>3. CASE FindPull(h)
      <4>1. \/ Goto(h, "KeyError") \/ Goto(h, "TypeError") \/ Return(h)
            \/ handler' = [handler EXCEPT ![h].pc = "clean", ![h].seen = Absent]
        BY <3>3 DEF FindPull
      <4>2. CASE handler' = [handler EXCEPT ![h].pc = "clean", ![h].seen = Absent]
        BY <3>3, <4>2, HandlerBusy DEF FindPull, HandlerStates, TypeOK
      <4>3. QED
        BY <3>3, <4>1, <4>2, GotoAt, ReturnAt DEF FindPull
    <3>4. CASE FindReady(h) \/ Find(h) \/ FindOld(h) \/ ExpireId(h)
      <4>1. handler[h] \in HandlerStates
        BY <3>4, HandlerBusy DEF FindReady, Find, FindOld, ExpireId
      <4>2. CASE FindReady(h)
        BY <4>1, <4>2 DEF FindReady, HandlerStates, TypeOK
      <4>3. CASE Find(h)
        BY <4>1, <4>3, ReturnAt DEF Find, HandlerStates, TypeOK
      <4>4. CASE FindOld(h)
        BY <4>1, <4>4 DEF FindOld, HandlerStates, TypeOK
      <4>5. CASE ExpireId(h)
        BY <4>1, <4>5 DEF ExpireId, HandlerStates, TypeOK
      <4>6. QED
        BY <3>4, <4>2, <4>3, <4>4, <4>5
    <3>5. CASE \/ Raise(h) \/ AutoExpired(h) \/ HandlerRaises(h) \/ Expire(h)
               \/ ResetExpiry(h) \/ StampPull(h)
      BY <3>5, ReturnAt
      DEF Raise, AutoExpired, HandlerRaises, Expire, ResetExpiry, StampPull
    <3>6. CASE FindAny(h) \/ MarkPending(h) \/ Submit(h)
      BY <3>6, ReturnAt, GotoAt DEF FindAny, MarkPending, Submit
    <3>7. QED
      BY <1>5, <3>1, <3>2, <3>3, <3>4, <3>5, <3>6 DEF HandlerStep
  <2>2. QED
    BY <2>1
<1>6. QED
  BY <1>1, <1>2, <1>3, <1>4, <1>5

\* The insertion: no document of the name shows a pull in progress.
LEMMA InsertOnePull ==
  ASSUME Inv, OnePullInv, Alone, NEW h \in Handlers, Insert(h)
  PROVE  OneFlying' /\ Cleaning'
<1> DEFINE r == handler[h].req
<1>1. PICK i \in Idents :
        /\ Unused(i) /\ Set(i, NewRecord(r))
        /\ handler' = [handler EXCEPT ![h].pc = "pending", ![h].ident = i]
  BY DEF Insert
<1>2. handler[h].pc = "insert" /\ handler[h] \in HandlerStates
  BY HandlerBusy DEF Insert, Inv
<1>3. handler'[h].pc = "pending"
  BY <1>1, <1>2 DEF HandlerStates, Inv, TypeOK
<1>4. Cleaning'
  BY <1>3 DEF Cleaning, Alone
<1>5. \A j \in Idents : images'[j] = IF j = i THEN NewRecord(r) ELSE images[j]
  BY <1>1 DEF Set, Inv, TypeOK
<1>6. /\ NewRecord(r).system = r.system /\ NewRecord(r).itype = r.itype
      /\ NewRecord(r).pulltag = r.tag
  BY DEF NewRecord
<1> HIDE DEF r
<1>7. \A j \in Idents : ~(RequestedAs(images[j], r) /\ Flying(j))
  BY <1>2 DEF OnePullInv, Cleaning, r
<1>8. \A j \in Idents : Flying(j) => Exists(images[j])
  BY DEF Flying, Exists, InFlight, Working
<1>9. OneFlying'
  <2>1. \A j \in Idents : Flying(j)' => j = i \/ Flying(j)
    BY <1>5 DEF Flying
  <2>2. ASSUME NEW j \in Idents, Flying(j), SameName(images[j], NewRecord(r))
        PROVE  FALSE
    BY <1>6, <1>7, <1>8, <2>2 DEF SameName, RequestedAs
  <2>3. \A j, k \in Idents :
          j # i /\ k # i /\ Flying(j) /\ Flying(k)
            /\ SameName(images[j], images[k]) => j = k
    BY DEF OnePullInv, OneFlying
  <2>4. SUFFICES ASSUME NEW j \in Idents, NEW k \in Idents, Flying(j)',
                        Flying(k)', SameName(images'[j], images'[k])
                 PROVE  j = k
    BY DEF OneFlying
  <2>5. QED
    BY <1>5, <2>1, <2>2, <2>3, <2>4 DEF SameName
<1>10. QED
  BY <1>4, <1>9

LEMMA NextOnePull ==
  ASSUME Inv, Flow, OnePullInv, Alone, NoLists, [Next]_vars
  PROVE  OnePullInv'
<1>1. PublicLists'
  BY NextLists DEF OnePullInv
<1>2. CASE \E h \in Handlers : Insert(h)
  BY <1>1, <1>2, InsertOnePull DEF OnePullInv
<1>3. CASE \A h \in Handlers : ~Insert(h)
  <2>1. CarriesAll
    BY <1>3, StepCarries
  <2>2. \A i \in Idents :
          /\ Exists(images'[i]) =>
               /\ Exists(images[i]) /\ images'[i].system = images[i].system
               /\ images'[i].itype = images[i].itype
               /\ images'[i].pulltag = images[i].pulltag
          /\ Flying(i)' => Flying(i) /\ Exists(images'[i])
    BY <2>1, FlyingKept DEF Flying, Exists, InFlight, Working
  <2>3. OneFlying'
    <3>1. SUFFICES ASSUME NEW i \in Idents, NEW j \in Idents, Flying(i)',
                          Flying(j)', SameName(images'[i], images'[j])
                   PROVE  i = j
      BY DEF OneFlying
    <3>2. Flying(i) /\ Flying(j) /\ SameName(images[i], images[j])
      BY <2>2, <3>1 DEF SameName
    <3>3. QED
      BY <3>2 DEF OneFlying, OnePullInv
  <2>4. Cleaning'
    <3>1. CASE UNCHANGED handler
      BY <2>2, <3>1 DEF Cleaning, OnePullInv, RequestedAs, InTodo
    <3>2. ASSUME NEW h \in Handlers,
                 Receive(h) \/ HandlerStep(h) \/ HandlerRaises(h)
          PROVE  Cleaning'
      <4>1. \A i \in Idents :
              /\ /\ handler'[h].pc = "remove" /\ handler'[h].req.op = "pull"
                 /\ RequestedAs(images'[i], handler'[h].req) /\ Flying(i)'
                 => InTodo(h, i)'
              /\ handler'[h].pc = "insert"
                   => ~(RequestedAs(images'[i], handler'[h].req) /\ Flying(i)')
        BY <1>3, <3>2, HandlerCleans DEF OnePullInv
      <4>2. QED
        BY <4>1 DEF Cleaning, Alone
    <3>3. ASSUME NEW t \in Threads, WorkerStep(t)
          PROVE  UNCHANGED handler
      BY <3>3, WorkerStepGoal DEF Inv
    <3>4. ASSUME StatusStep \/ StatusRaises
          PROVE  UNCHANGED handler
      BY <3>4, StatusTakes DEF OnlyStatus
    <3>5. ASSUME NEW i \in Idents, Age(i)
          PROVE  UNCHANGED handler
      BY <3>5 DEF Age
    <3>6. CASE Restart
      BY <3>6 DEF Restart, Cleaning, Idle
    <3>7. QED
      BY <3>1, <3>2, <3>3, <3>4, <3>5, <3>6 DEF Next, Manage, vars
  <2>5. QED
    BY <1>1, <2>3, <2>4 DEF OnePullInv
<1>4. QED
  BY <1>2, <1>3

-----------------------------------------------------------------------------
(* Results find their pull records, and READY documents stay.               *)

\* A result may still be written to the document.
Result(i) ==
  \E k \in 1..Len(queue) : queue[k].ident = i /\ queue[k].state = "READY"
InProgress(i) == Awaiting(i) \/ Result(i) \/ Applying(i)

\* The pull of the document has raised.
Failing(i) ==
  \/ \E k \in 1..Len(queue) : queue[k].ident = i /\ queue[k].state = "FAILURE"
  \/ \E t \in Threads : Runs(t, i) /\ worker[t].pc = "failed"

\* Nothing is expired, and no heartbeat is old.
NoExpiry ==
  /\ \A h \in Handlers :
       handler[h].pc \notin {"findtag", "findstuck", "findold", "doexpire"}
  /\ \A k \in 1..Len(pool) : pool[k].op # "expire"
  /\ \A t \in Threads : worker[t].pc # "idle" => worker[t].task.op # "expire"
  /\ \A k \in 1..Len(queue) : queue[k].state \notin {"EXPIRING", "EXPIRED"}
  /\ \A i \in Idents : /\ images[i].status \notin {"EXPIRING", "EXPIRED"}
                       /\ images[i].last_heartbeat # "old"

\* A pull ends once: with a failure and without an image, or with a result
\* that the status process writes to another document than the pull record,
\* or makes the pull record READY with.
OneEnd ==
  /\ \A i \in Idents : Failing(i) => ~InProgress(i) /\ ~IsReady(images[i])
  /\ Busy => ~Awaiting(status.ident) /\ ~Result(status.ident)
  /\ Busy /\ status.pc # "ready" /\ status.ident # status.target
       => ~IsReady(images[status.ident])
  /\ Busy /\ (status.acls \/ status.pc \in {"touch", "drop", "acls", "dropacls"})
       => status.ident # status.target

\* The document of a pull in progress is there, and shows it.
RecordThere == \A i \in Idents : InProgress(i) => Flying(i)

\* A name has at most one document that is not READY, and what a handler
\* cleans out before an insertion is the document of a failed pull.
Waits(i, r) == RequestedAs(images[i], r) /\ ~IsReady(images[i])
OneWaiting ==
  \A i, j \in Idents :
    /\ Exists(images[i]) /\ ~IsReady(images[i])
    /\ Exists(images[j]) /\ ~IsReady(images[j])
    /\ images[i].system = images[j].system
    /\ images[i].itype = images[j].itype
    /\ images[i].pulltag = images[j].pulltag
    => i = j
CleansFailed ==
  \A h \in Handlers, i \in Idents :
    /\ handler[h].pc = "clean" /\ Waits(i, handler[h].req) => ~Flying(i)
    /\ handler[h].pc = "remove" /\ Waits(i, handler[h].req) => InTodo(h, i)
    /\ handler[h].pc = "remove" /\ InTodo(h, i)
         => ~Flying(i) /\ ~IsReady(images[i])
    /\ handler[h].pc = "insert" => ~Waits(i, handler[h].req)

RecordInv == NoExpiry /\ OneEnd /\ RecordThere /\ OneWaiting /\ CleansFailed

\* One API process, no failing queries and no restart; clients pull, look up
\* and list; and no worker is silent for an hour.
Calm ==
  /\ Alone /\ NoLists /\ Faults = {}
  /\ Ops \subseteq {"pull", "lookup", "list"} /\ "old" \notin Clock

\* The status of a document changes only where the code says so.
LEMMA SameStatus ==
  ASSUME NEW d \in Document, NEW tag, NEW system \in Systems, NEW acl
  PROVE  /\ Touch(d).status = d.status /\ ResetExpire(d).status = d.status
         /\ AddToSet(d, tag).status = d.status
         /\ RemoveTag(d, system, tag).status = d.status
         /\ SetAccess(d, acl).status = d.status
<1>1. CASE ~Exists(d)
  BY <1>1, DocumentCases, AbsentFacts, ImageDBAssumption
  DEF Touch, ResetExpire, AddToSet, RemoveTag, SetAccess, Assign
<1>2. CASE Exists(d)
  <2>1. d \in Record
    BY <1>2, DocumentCases
  <2>2. QED
    BY <1>2, <2>1
    DEF Touch, ResetExpire, AddToSet, RemoveTag, SetAccess, Assign, Record
<1>3. QED
  BY <1>1, <1>2

LEMMA HandlerStatus ==
  ASSUME Inv, NEW h \in Handlers,
         Receive(h) \/ HandlerStep(h) \/ HandlerRaises(h), NEW i \in Idents
  PROVE  \/ images'[i].status = images[i].status
         \/ UpdateStates(h) /\ images[i].status = "FAILURE"
         \/ Remove(h) /\ InTodo(h, i)
         \/ Insert(h) /\ Unused(i) /\ images'[i].status = "INIT"
         \/ /\ MarkPending(h) /\ handler[h].ident = i /\ Exists(images[i])
            /\ images'[i].status = "PENDING"
<1> USE DEF Inv
<1>1. CASE UNCHANGED images
  BY <1>1
<1>2. CASE UpdateStates(h)
  BY <1>2 DEF UpdateStates
<1>3. CASE Remove(h)
  <2>1. PICK v \in handler[h].todo : Set(v[1], Absent)
    BY <1>3 DEF Remove
  <2>2. v[1] \in Idents
    BY <1>3, <2>1, HandlerBusy DEF Remove, HandlerStates
  <2>3. QED
    BY <1>3, <2>1, <2>2 DEF Set, TypeOK, InTodo
<1>4. CASE Insert(h)
  <2>1. PICK j \in Idents : Unused(j) /\ Set(j, NewRecord(handler[h].req))
    BY <1>4 DEF Insert
  <2>2. NewRecord(handler[h].req).status = "INIT"
    BY DEF NewRecord
  <2>3. images'[i] = IF i = j THEN NewRecord(handler[h].req) ELSE images[i]
    BY <2>1 DEF Set, TypeOK
  <2>4. QED
    BY <1>4, <2>1, <2>2, <2>3
<1>5. CASE MarkPending(h)
  <2>1. handler[h].ident \in Idents /\ images[handler[h].ident] \in Document
    BY <1>5 DEF MarkPending, HandlerInv, TypeOK
  <2>2. \A j \in Idents : images'[j] =
          IF j = handler[h].ident THEN SetState(images[j], "PENDING")
                                  ELSE images[j]
    BY <1>5 DEF MarkPending, Set, TypeOK
  <2>3. QED
    BY <1>5, <2>1, <2>2, DocumentCases DEF SetState, Assign, Record
<1>6. CASE StampPull(h) \/ ResetExpiry(h)
  <2>1. handler[h].ident \in Idents /\ images[handler[h].ident] \in Document
    BY <1>6 DEF StampPull, ResetExpiry, HandlerInv, TypeOK
  <2>2. \E system : system \in Systems
    BY <1>6, HandlerBusy DEF StampPull, ResetExpiry, HandlerStates, Requests
  <2>3. /\ Touch(images[handler[h].ident]).status = images[handler[h].ident].status
        /\ ResetExpire(images[handler[h].ident]).status
             = images[handler[h].ident].status
    BY <2>1, <2>2, SameStatus
  <2>4. QED
    BY <1>6, <2>1, <2>3 DEF StampPull, ResetExpiry, Set, TypeOK
<1>7. QED
  BY <1>1, <1>2, <1>3, <1>4, <1>5, <1>6
  DEF Receive, HandlerRaises, HandlerStep, Raise, FindReady, FindPull, FindAny,
      Clean, Removed, Submit, Find, FindStuck, FindOld, ExpireId, AutoExpired,
      Expire, OnlyHandler

LEMMA ProcessStatus ==
  ASSUME Inv, StatusStep \/ StatusRaises, NEW i \in Idents
  PROVE  \/ images'[i].status = images[i].status
         \/ /\ UpdateMongoState /\ Head(queue).ident = i /\ Exists(images[i])
            /\ images'[i].status = Head(queue).state
         \/ SetReady /\ status.ident = i /\ images'[i].status = "READY"
         \/ (DropDuplicate \/ DropAclPull) /\ status.ident = i
<1> USE DEF Inv
<1>1. CASE UNCHANGED images
  BY <1>1
<1>2. CASE UpdateMongoState
  <2> DEFINE m == Head(queue)
  <2>1. m \in Messages /\ Set(m.ident, SetBeat(images[m.ident], m.state))
    BY <1>2, MessageFacts DEF UpdateMongoState
  <2>2. m.ident \in Idents /\ images[m.ident] \in Document
    BY <2>1 DEF Messages, TypeOK
  <2>3. images'[i] = IF i = m.ident THEN SetBeat(images[i], m.state)
                                    ELSE images[i]
    BY <2>1, <2>2 DEF Set, TypeOK
  <2>4. Exists(images[m.ident]) =>
          SetBeat(images[m.ident], m.state).status = m.state
    BY <2>2, DocumentCases DEF SetBeat, Assign, Record
  <2>5. ~Exists(images[m.ident]) =>
          SetBeat(images[m.ident], m.state) = images[m.ident]
    BY DEF SetBeat, Assign
  <2>6. QED
    BY <1>2, <2>3, <2>4, <2>5
<1>3. CASE Busy /\ ~UNCHANGED images
  <2>1. /\ status.ident \in Idents /\ images[status.ident] \in Document
        /\ status.target \in Idents /\ images[status.target] \in Document
        /\ status.system \in Systems /\ status.response \in Responses
    BY <1>3, BusyFacts
  <2>2. CASE SetReady
    <3>1. images'[i] = IF i = status.ident
                       THEN MakeReady(images[i], status.response) ELSE images[i]
      BY <2>1, <2>2 DEF SetReady, Set, TypeOK
    <3>2. IF Exists(images[status.ident])
          THEN MakeReady(images[status.ident], status.response).status = "READY"
          ELSE MakeReady(images[status.ident], status.response)
                 = images[status.ident]
      BY <2>1, DocumentCases DEF MakeReady, Assign, Record
    <3>3. CASE i # status.ident
      BY <3>1, <3>3
    <3>4. CASE i = status.ident
      <4>1. images'[i] = MakeReady(images[i], status.response)
        BY <3>1, <3>4
      <4>2. images'[i].status = "READY" \/ images'[i] = images[i]
        BY <3>2, <3>4, <4>1
      <4>3. QED
        BY <2>2, <3>4, <4>2
    <3>5. QED
      BY <3>3, <3>4
  <2>3. CASE DropDuplicate \/ DropAclPull
    BY <2>1, <2>3 DEF DropDuplicate, DropAclPull, Set, TypeOK
  <2>4. CASE TouchTarget \/ Retag \/ UpdateAcls
    <3> DEFINE d == images[status.target]
    <3>1. /\ Touch(d).status = d.status
          /\ AddToSet(d, status.tag).status = d.status
          /\ SetAccess(d, status.response.acl).status = d.status
      BY <2>1, SameStatus
    <3>2. \/ Set(status.target, Touch(d)) \/ Set(status.target, AddToSet(d, status.tag))
          \/ Set(status.target, SetAccess(d, status.response.acl))
      BY <2>4 DEF TouchTarget, Retag, UpdateAcls
    <3>3. QED
      BY <2>1, <3>1, <3>2 DEF Set, TypeOK
  <2>5. CASE Untag
    <3>1. images'[i] = RemoveTag(images[i], status.system, status.tag)
      BY <2>5 DEF Untag
    <3>2. images[i] \in Document
      BY DEF TypeOK
    <3>3. QED
      BY <2>1, <3>1, <3>2, SameStatus
  <2>6. QED
    BY <1>3, <2>2, <2>3, <2>4, <2>5
    DEF StatusStep, StatusRaises, UpdateMongoState, MissingPull, BeginReady, Busy
<1>4. QED
  BY <1>1, <1>2, <1>3
  DEF StatusStep, StatusRaises, MissingPull, BeginReady, SetReady, TouchTarget,
      DropDuplicate, Untag, Retag, UpdateAcls, DropAclPull, Busy

LEMMA AgeStatus ==
  ASSUME Inv, NEW j \in Idents, Age(j), NEW i \in Idents
  PROVE  images'[i].status = images[i].status
<1>1. images[j] \in Record
  BY DocumentCases DEF Age, Inv, TypeOK
<1>2. PICK d : Set(j, d) /\ d.status = images[j].status
  BY <1>1 DEF Age, Record
<1>3. QED
  BY <1>2 DEF Set, Inv, TypeOK

\* Where a handler gets without an expiry and an import.
LEMMA HandlerGoes ==
  ASSUME Inv, Calm, NoExpiry, NEW h \in Handlers,
         Receive(h) \/ HandlerStep(h) \/ HandlerRaises(h)
  PROVE  /\ handler'[h].pc \notin {"findtag", "findstuck", "findold", "doexpire"}
         /\ handler'[h].pc = "clean" => FindPull(h)
         /\ handler'[h].pc = "remove" => Clean(h) \/ Remove(h)
         /\ handler'[h].pc = "insert" => Removed(h)
<1> USE DEF Inv
<1>1. handler[h].pc \notin {"findtag", "findstuck", "findold", "doexpire"}
  BY DEF NoExpiry
<1>2. handler[h].pc # "idle" =>
        /\ handler[h].req.op \notin {"import", "expire", "autoexpire"}
        /\ handler[h].pc # "findany"
  BY PublicRequests, HandlerBusy DEF Calm, HandlerStates, Requests, HandlerInv
<1>3. CASE Receive(h)
  <2>1. PICK r \in Requests :
          handler' = [handler EXCEPT ![h] =
            [ pc    |-> CASE r.op = "import" -> "findany"
                          [] r.op = "expire" -> "findtag"
                          [] OTHER           -> "states",
              req   |-> r, seen |-> Absent, todo |-> {}, ident |-> NoIdent ]]
    BY <1>3 DEF Receive
  <2>2. r.op \in Ops /\ r.op # "expire"
    BY DEF Requests, Calm
  <2>3. handler'[h].pc \in {"findany", "states"}
    BY <2>1, <2>2 DEF TypeOK
  <2>4. QED
    BY <2>3
<1>4. CASE UpdateStates(h)
  <2>1. \/ Goto(h, "findready") \/ Goto(h, "find") \/ Return(h)
        \/ Goto(h, "KeyError")
    BY <1>2, <1>4 DEF UpdateStates
  <2>2. QED
    BY <1>4, <2>1, GotoAt, ReturnAt DEF UpdateStates
<1>5. CASE FindReady(h) \/ Find(h)
  <2>1. handler[h] \in HandlerStates
    BY <1>5, HandlerBusy DEF FindReady, Find
  <2>2. CASE FindReady(h)
    BY <2>1, <2>2 DEF FindReady, HandlerStates, TypeOK
  <2>3. CASE Find(h)
    BY <2>1, <2>3, ReturnAt DEF Find, HandlerStates, TypeOK
  <2>4. QED
    BY <1>5, <2>2, <2>3
<1>6. CASE FindPull(h)
  <2>1. \/ Goto(h, "KeyError") \/ Goto(h, "TypeError") \/ Return(h)
        \/ handler' = [handler EXCEPT ![h].pc = "clean", ![h].seen = Absent]
    BY <1>6 DEF FindPull
  <2>2. CASE handler' = [handler EXCEPT ![h].pc = "clean", ![h].seen = Absent]
    BY <1>6, <2>2, HandlerBusy DEF FindPull, HandlerStates, TypeOK
  <2>3. QED
    BY <1>6, <2>1, <2>2, GotoAt, ReturnAt DEF FindPull
<1>7. CASE Clean(h) \/ Remove(h)
  <2>1. handler[h] \in HandlerStates
    BY <1>7, HandlerBusy DEF Clean, Remove
  <2>2. handler'[h].pc = "remove"
    BY <1>7, <2>1 DEF Clean, Remove, HandlerStates, TypeOK
  <2>3. QED
    BY <1>7, <2>2
<1>8. CASE Removed(h) \/ MarkPending(h) \/ Submit(h)
  BY <1>2, <1>8, GotoAt DEF Removed, MarkPending, Submit
<1>9. CASE Insert(h)
  BY <1>9, HandlerBusy DEF Insert, HandlerStates, TypeOK
<1>10. CASE Raise(h) \/ HandlerRaises(h) \/ ResetExpiry(h) \/ StampPull(h)
  BY <1>10, ReturnAt DEF Raise, HandlerRaises, ResetExpiry, StampPull
<1>11. QED
  BY <1>1, <1>2, <1>3, <1>4, <1>5, <1>6, <1>7, <1>8, <1>9, <1>10
  DEF HandlerStep, FindAny, FindStuck, FindOld, ExpireId, AutoExpired, Expire

LEMMA NextNoExpiry ==
  ASSUME Inv, Calm, NoExpiry, [Next]_vars
  PROVE  NoExpiry'
<1>1. ASSUME NEW h \in Handlers,
             Receive(h) \/ HandlerStep(h) \/ HandlerRaises(h)
      PROVE  NoExpiry'
  <2>1. \A g \in Handlers :
          handler'[g].pc \notin {"findtag", "findstuck", "findold", "doexpire"}
    BY <1>1, HandlerGoes DEF Calm, Alone
  <2>2. UNCHANGED <<worker, queue, status>>
    BY <1>1, HandlerPool
  <2>3. \A k \in 1..Len(pool') : pool'[k].op # "expire"
    <3>1. CASE UNCHANGED pool
      BY <3>1 DEF NoExpiry
    <3>2. CASE ~UNCHANGED pool
      <4>1. PICK k \in Tasks :
              /\ pool' = Append(pool, k)
              /\ k.op = "expire" => \/ handler[h].pc \in {"findtag", "doexpire"}
                                    \/ /\ handler[h].pc = "submit"
                                       /\ handler[h].req.op = "expire"
        BY <1>1, <3>2, HandlerPool
      <4>2. k.op # "expire"
        BY <4>1 DEF NoExpiry, Inv, HandlerInv
      <4>3. \A n \in 1..Len(pool') :
              pool'[n] = k \/ (n \in 1..Len(pool) /\ pool'[n] = pool[n])
        BY <4>1 DEF Inv, TypeOK
      <4>4. QED
        BY <4>2, <4>3 DEF NoExpiry
    <3>3. QED
      BY <3>1, <3>2
  <2>4. \A i \in Idents : images'[i].status \notin {"EXPIRING", "EXPIRED"}
    <3>1. SUFFICES ASSUME NEW i \in Idents
                   PROVE  images'[i].status \notin {"EXPIRING", "EXPIRED"}
      OBVIOUS
    <3>2. CASE Remove(h) /\ InTodo(h, i)
      <4>1. PICK v \in handler[h].todo : Set(v[1], Absent)
        BY <3>2 DEF Remove
      <4>2. v[1] \in Idents
        BY <3>2, <4>1, HandlerBusy DEF Remove, HandlerStates, Inv
      <4>3. QED
        BY <4>1, <4>2 DEF Set, Absent, NoExpiry, Inv, TypeOK
    <3>3. CASE UpdateStates(h)
      BY <3>3 DEF UpdateStates, Absent, NoExpiry
    <3>4. CASE ~(Remove(h) /\ InTodo(h, i)) /\ ~UpdateStates(h)
      BY <1>1, <3>4, HandlerStatus DEF NoExpiry
    <3>5. QED
      BY <3>2, <3>3, <3>4
  <2>5. \A i \in Idents : images'[i].last_heartbeat # "old"
    <3>1. CASE Insert(h)
      <4>1. PICK i \in Idents : Set(i, NewRecord(handler[h].req))
        BY <3>1 DEF Insert
      <4>2. NewRecord(handler[h].req).last_heartbeat = "none"
        BY DEF NewRecord
      <4>3. QED
        BY <4>1, <4>2 DEF Set, NoExpiry, Inv, TypeOK
    <3>2. CASE ~Insert(h)
      <4>1. CarriesAll
        BY <1>1, <3>2, HandlerCarries
      <4>2. Absent.last_heartbeat = "none"
        BY DEF Absent
      <4>3. QED
        BY <4>1, <4>2 DEF CarriesAll, Carried, NoExpiry, Calm
    <3>3. QED
      BY <3>1, <3>2
  <2>6. QED
    BY <2>1, <2>2, <2>3, <2>4, <2>5 DEF NoExpiry
<1>2. ASSUME NEW t \in Threads, Take(t)
      PROVE  NoExpiry'
  BY <1>2, TakenIs DEF NoExpiry
<1>3. ASSUME NEW t \in Threads, WorkerStep(t), ~Take(t)
      PROVE  NoExpiry'
  <2>1. PICK m \in Messages : Posting(t, m)
    BY <1>3, ThreadPosts
  <2>2. m.state \notin {"EXPIRING", "EXPIRED"}
    BY <1>3, <2>1, ThreadPosts DEF Posting, NoExpiry
  <2>3. \A n \in 1..Len(queue') :
          queue'[n] = m \/ (n \in 1..Len(queue) /\ queue'[n] = queue[n])
    BY <2>1 DEF Posting, Inv, TypeOK
  <2>4. \A u \in Threads :
          worker'[u].pc # "idle" => worker'[u].task.op # "expire"
    BY <1>3, ThreadPosts DEF NoExpiry
  <2>5. UNCHANGED <<images, handler, pool>>
    BY <1>3, ThreadPosts
  <2>6. QED
    BY <2>2, <2>3, <2>4, <2>5 DEF NoExpiry
<1>4. CASE StatusStep \/ StatusRaises
  <2>1. OnlyStatus
    BY <1>4, StatusTakes
  <2>2. \A k \in 1..Len(queue') :
          queue'[k].state \notin {"EXPIRING", "EXPIRED"}
    <3>1. CASE UNCHANGED queue
      BY <3>1 DEF NoExpiry
    <3>2. CASE queue # <<>> /\ queue' = Tail(queue)
      BY <3>2, TailIs DEF NoExpiry
    <3>3. QED
      BY <1>4, <3>1, <3>2, StatusTakes
  <2>3. \A i \in Idents : images'[i].status \notin {"EXPIRING", "EXPIRED"}
    <3>1. SUFFICES ASSUME NEW i \in Idents
                   PROVE  images'[i].status \notin {"EXPIRING", "EXPIRED"}
      OBVIOUS
    <3>2. CASE DropDuplicate \/ DropAclPull
      <4>1. status.ident \in Idents
        BY <3>2, BusyFacts DEF DropDuplicate, DropAclPull, Busy, Inv
      <4>2. Set(status.ident, Absent)
        BY <3>2 DEF DropDuplicate, DropAclPull
      <4>3. QED
        BY <4>1, <4>2 DEF Set, Absent, NoExpiry, Inv, TypeOK
    <3>3. UpdateMongoState => Head(queue).state \notin {"EXPIRING", "EXPIRED"}
      BY TailIs DEF UpdateMongoState, NoExpiry
    <3>4. QED
      BY <1>4, <3>2, <3>3, ProcessStatus DEF NoExpiry
  <2>4. CarriesAll
    BY <1>4, StatusCarries
  <2>5. \A i \in Idents : images'[i].last_heartbeat # "old"
    BY <2>4 DEF CarriesAll, Carried, NoExpiry, Calm, Absent
  <2>6. QED
    BY <2>1, <2>2, <2>3, <2>5 DEF NoExpiry, OnlyStatus
<1>5. ASSUME NEW j \in Idents, Age(j)
      PROVE  NoExpiry'
  <2>1. \A i \in Idents : images'[i].status = images[i].status
    BY <1>5, AgeStatus
  <2>2. CarriesAll
    BY <1>5, AgeCarries
  <2>3. \A i \in Idents : images'[i].last_heartbeat # "old"
    BY <2>2 DEF CarriesAll, Carried, NoExpiry, Calm, Absent
  <2>4. QED
    BY <1>5, <2>1, <2>3 DEF NoExpiry, Age
<1>6. CASE UNCHANGED vars
  BY <1>6 DEF vars, NoExpiry
<1>7. QED
  BY <1>1, <1>2, <1>3, <1>4, <1>5, <1>6 DEF Next, Manage, Restart, Calm

\* What a step may do to a request: it is new, it goes on, or it ends, with a
\* result or with a failure.
Moves(i) ==
  /\ InProgress(i)' => \/ InProgress(i)
                       \/ Unused(i) /\ images'[i].status = "INIT"
  /\ Awaiting(i)' => Awaiting(i) \/ Unused(i)
  /\ Result(i)' => Result(i) \/ Awaiting(i)
  /\ Failing(i)' => Failing(i) \/ (Awaiting(i) /\ ~InProgress(i)')
  /\ IsReady(images'[i]) =>
       IsReady(images[i]) \/ (Applying(i) /\ ~Applying(i)')

LEMMA HandlerMoves ==
  ASSUME Inv, NoExpiry, NEW h \in Handlers,
         Receive(h) \/ HandlerStep(h) \/ HandlerRaises(h), NEW i \in Idents
  PROVE  Moves(i)
<1>1. UNCHANGED <<worker, queue, status>>
  BY HandlerPool
<1>2. /\ Result(i)' => Result(i)
      /\ Failing(i)' => Failing(i)
      /\ Applying(i)' => Applying(i)
  BY <1>1 DEF Result, Failing, Applying, Runs
<1>3. CASE Insert(h)
  <2>1. PICK j \in Idents :
          /\ Unused(j) /\ Set(j, NewRecord(handler[h].req))
          /\ handler' = [handler EXCEPT ![h].pc = "pending", ![h].ident = j]
    BY <1>3 DEF Insert
  <2>2. handler[h] \in HandlerStates /\ UNCHANGED pool
    BY <1>3, HandlerBusy DEF Insert, ImagesChange, Inv
  <2>3. /\ handler'[h].pc = "pending" /\ handler'[h].ident = j
        /\ \A g \in Handlers : g # h => handler'[g] = handler[g]
    BY <2>1, <2>2 DEF HandlerStates, Inv, TypeOK
  <2>4. Awaiting(i)' => Awaiting(i) \/ i = j
    BY <1>1, <2>2, <2>3 DEF Awaiting, Early, Inserted, Queued, Runs
  <2>5. NewRecord(handler[h].req).status = "INIT"
    BY DEF NewRecord
  <2>6. images'[i] = IF i = j THEN NewRecord(handler[h].req) ELSE images[i]
    BY <2>1 DEF Set, Inv, TypeOK
  <2>7. QED
    BY <1>2, <2>1, <2>4, <2>5, <2>6 DEF Moves, InProgress, IsReady
<1>4. CASE ~Insert(h)
  <2>1. Tame
    BY <1>4, HandlerStepGoal DEF HandlerGoal, Inv
  <2>2. IsReady(images'[i]) => IsReady(images[i])
    BY <2>1, TamePublished DEF Inv
  <2>3. ~ExpireId(h) /\ ~Expire(h)
    BY DEF ExpireId, Expire, NoExpiry
  <2>4. CASE Submit(h)
    <3>1. HandlersStay
      BY <2>4, StayGoto DEF Submit, Inv
    <3>2. PICK k \in Tasks : pool' = Append(pool, k) /\ k.ident = handler[h].ident
      <4> DEFINE r == handler[h].req
                 k == [ op |-> r.op, ident |-> handler[h].ident,
                        system |-> r.system, id |-> NoImage,
                        acl |-> IF r.op = "import" THEN Null ELSE r.acl,
                        file |-> r.file ]
      <4>1. /\ r \in Requests /\ handler[h].pc = "submit"
            /\ r.op \in {"pull", "import"} /\ handler[h].ident \in Idents
        BY <2>4, HandlerBusy DEF Submit, HandlerStates, HandlerInv, Inv
      <4>2. k \in Tasks
        BY <4>1, ImageDBAssumption DEF Tasks, Requests, Access, ImageIds
      <4>3. QED
        BY <2>4, <4>2 DEF Submit
    <3>3. \A n \in 1..Len(pool') :
            pool'[n] = k \/ (n \in 1..Len(pool) /\ pool'[n] = pool[n])
      BY <3>2 DEF Inv, TypeOK
    <3>4. k.ident = i => Inserted(h, i)
      BY <2>4, <3>2 DEF Submit, Inserted
    <3>5. (\E n \in 1..Len(pool') : Queued(n, i)') => Awaiting(i)
      BY <3>3, <3>4 DEF Queued, Awaiting, Early
    <3>6. Awaiting(i)' => Awaiting(i)
      BY <1>1, <3>1, <3>5 DEF HandlersStay, Awaiting, Early, Runs
    <3>7. QED
      BY <1>2, <2>2, <3>6 DEF Moves, InProgress
  <2>5. CASE ~Submit(h)
    <3>1. HandlersStay /\ UNCHANGED pool
      <4>1. CASE MarkPending(h)
        BY <4>1, StayGoto DEF MarkPending, ImagesChange, Inv
      <4>2. CASE ~MarkPending(h)
        BY <1>4, <2>3, <2>5, <4>2, QuietHandler DEF HandlerStep
      <4>3. QED
        BY <4>1, <4>2
    <3>2. Awaiting(i)' => Awaiting(i)
      BY <1>1, <3>1 DEF HandlersStay, Awaiting, Early, Queued, Runs
    <3>3. QED
      BY <1>2, <2>2, <3>2 DEF Moves, InProgress
  <2>6. QED
    BY <2>4, <2>5
<1>5. QED
  BY <1>3, <1>4

LEMMA ThreadMovesOn ==
  ASSUME Inv, Flow, NoExpiry, NEW t \in Threads, WorkerStep(t), NEW i \in Idents
  PROVE  Moves(i)
<1>1. CASE Take(t)
  <2>1. /\ Runs(t, i)' => Queued(1, i)
        /\ \A u \in Threads : u # t /\ Runs(u, i)' => Runs(u, i)
        /\ worker'[t].pc = "start"
        /\ \A u \in Threads : u # t => worker'[u] = worker[u]
        /\ 1 \in 1..Len(pool)
    BY <1>1, TakenIs DEF Runs, Queued
  <2>2. \A k \in 1..Len(pool') :
          Queued(k, i)' => k + 1 \in 1..Len(pool) /\ Queued(k + 1, i)
    BY <1>1, TakenIs DEF Queued
  <2>3. UNCHANGED <<images, handler, queue, status>>
    BY <1>1 DEF Take
  <2>4. Awaiting(i)' => Awaiting(i)
    BY <2>1, <2>2, <2>3 DEF Awaiting, Early, Inserted
  <2>5. Failing(i)' => Failing(i)
    BY <2>1, <2>3 DEF Failing
  <2>6. QED
    BY <2>3, <2>4, <2>5 DEF Moves, InProgress, Result, Applying
<1>2. CASE ~Take(t)
  <2>1. PICK m \in Messages : Posting(t, m)
    BY <1>2, ThreadPosts
  <2>2. /\ UNCHANGED <<images, handler, pool, status>>
        /\ worker[t].pc # "idle" /\ worker[t].task.op # "expire"
        /\ \A u \in Threads : worker'[u].pc # "idle" =>
             /\ worker[u].pc # "idle" /\ worker'[u].task = worker[u].task
             /\ u # t => worker'[u] = worker[u]
        /\ worker'[t].pc = "failed" => worker[t].pc # "failed"
    BY <1>2, ThreadPosts DEF NoExpiry
  <2>3. worker[t].pc \in WorkerPC
    BY <2>2 DEF Inv, TypeOK, Idle, WorkerStates
  <2>4. \A u \in Threads : Runs(u, i)' => Runs(u, i)
    BY <2>2 DEF Runs
  <2>5. \A n \in 1..Len(queue') :
          queue'[n] = m \/ (n \in 1..Len(queue) /\ queue'[n] = queue[n])
    BY <2>1 DEF Posting, Inv, TypeOK
  <2>6. m.ident = i => Runs(t, i)
    BY <2>1, <2>2 DEF Posting, Runs
  <2>7. Runs(t, i) /\ worker[t].pc # "failed" => Awaiting(i)
    BY <2>3 DEF Awaiting, Early, WorkerPC
  <2>8. Awaiting(i)' => Awaiting(i)
    <3>1. ASSUME NEW u \in Threads, Runs(u, i)', worker'[u].pc # "failed"
          PROVE  Awaiting(i) \/ (u = t /\ worker[t].pc = "failed")
      <4>1. CASE u = t
        BY <2>4, <2>7, <3>1, <4>1
      <4>2. CASE u # t
        <5>1. Runs(u, i) /\ worker[u] = worker'[u]
          BY <2>2, <2>4, <3>1, <4>2 DEF Runs
        <5>2. worker[u].pc \in WorkerPC \ {"failed"}
          BY <3>1, <5>1 DEF Runs, Inv, TypeOK, Idle, WorkerStates
        <5>3. QED
          BY <5>1, <5>2 DEF Awaiting, Early, WorkerPC
      <4>3. QED
        BY <4>1, <4>2
    <3>2. worker[t].pc = "failed" => worker'[t].pc = "idle"
      BY <1>2, <2>2
      DEF WorkerStep, Begin, Transfer, Complete, CompleteWith, Expired, Fail,
          FailAgain, WorkerDone, Idle, Inv, TypeOK
    <3>3. \A u \in Threads : Runs(u, i)' /\ worker'[u].pc # "failed" => Awaiting(i)
      BY <3>1, <3>2 DEF Runs
    <3>4. QED
      BY <2>2, <3>3 DEF Awaiting, Early, Inserted, Queued
  <2>9. Result(i)' => Result(i) \/ Awaiting(i)
    BY <2>1, <2>5, <2>6, <2>7 DEF Result, Posting
  <2>10. Failing(i)' => Failing(i) \/ (Awaiting(i) /\ ~InProgress(i)')
    <3>1. SUFFICES ASSUME Failing(i)', ~Failing(i)
                   PROVE  Awaiting(i) /\ ~InProgress(i)'
      OBVIOUS
    <3>2. Runs(t, i) /\ worker[t].pc # "failed" /\ worker'[t].pc = "failed"
      <4>1. CASE \E n \in 1..Len(queue') : /\ queue'[n].ident = i
                                           /\ queue'[n].state = "FAILURE"
        <5>1. m.ident = i /\ m.state = "FAILURE"
          BY <2>5, <3>1, <4>1 DEF Failing
        <5>2. Runs(t, i) /\ worker[t].pc # "failed"
          BY <2>6, <3>1, <5>1 DEF Failing
        <5>3. QED
          BY <2>1, <2>2, <5>1, <5>2 DEF Posting
      <4>2. CASE \E u \in Threads : Runs(u, i)' /\ worker'[u].pc = "failed"
        <5>1. PICK u \in Threads : Runs(u, i)' /\ worker'[u].pc = "failed"
          BY <4>2
        <5>2. u = t
          BY <2>2, <2>4, <3>1, <5>1 DEF Failing
        <5>3. QED
          BY <2>2, <2>4, <5>1, <5>2
      <4>3. QED
        BY <3>1, <4>1, <4>2 DEF Failing
    <3>3. Awaiting(i)
      BY <2>7, <3>2
    <3>4. ~Result(i) /\ ~Applying(i)
      BY <3>3 DEF Flow, Once, Result
    <3>5. m.state # "READY"
      BY <2>1, <3>2 DEF Posting
    <3>6. ~Result(i)' /\ ~Applying(i)'
      BY <2>2, <2>5, <3>4, <3>5 DEF Result, Applying
    <3>7. ~Awaiting(i)'
      <4>1. \A u \in Threads : Runs(u, i)' => u = t
        BY <2>4, <3>2 DEF Flow, HoldOne
      <4>2. \A g \in Handlers : ~Inserted(g, i)'
        BY <2>2, <3>2 DEF Flow, HoldOne, Inserted
      <4>3. \A k \in 1..Len(pool') : ~Queued(k, i)'
        BY <2>2, <3>2 DEF Flow, HoldOne, Queued
      <4>4. QED
        BY <3>2, <4>1, <4>2, <4>3 DEF Awaiting, Early
    <3>8. QED
      BY <3>3, <3>6, <3>7 DEF InProgress
  <2>11. Applying(i)' => Applying(i)
    BY <2>2 DEF Applying
  <2>12. QED
    BY <2>2, <2>8, <2>9, <2>10, <2>11 DEF Moves, InProgress
<1>3. QED
  BY <1>1, <1>2

LEMMA ProcessMoves ==
  ASSUME Inv, Flow, NEW i \in Idents,
         \/ StatusStep \/ StatusRaises
         \/ \E j \in Idents : Age(j)
         \/ UNCHANGED vars
  PROVE  Moves(i)
<1>1. CASE StatusStep \/ StatusRaises
  <2>1. OnlyStatus
    BY <1>1, StatusTakes
  <2>2. Awaiting(i)' => Awaiting(i)
    BY <2>1, StatusHolds
  <2>3. /\ Result(i)' => Result(i)
        /\ Failing(i)' => Failing(i)
    <3>1. CASE UNCHANGED queue
      BY <2>1, <3>1 DEF Result, Failing, OnlyStatus, Runs
    <3>2. CASE queue # <<>> /\ queue' = Tail(queue)
      BY <2>1, <3>2, TailIs DEF Result, Failing, OnlyStatus, Runs
    <3>3. QED
      BY <1>1, <3>1, <3>2, StatusTakes
  <2>4. Applying(i)' => Applying(i) \/ Result(i)
    <3>1. CASE BeginReady
      <4>1. /\ queue # <<>> /\ queue' = Tail(queue)
            /\ Head(queue).state = "READY"
            /\ status'.ident = Head(queue).ident
        BY <3>1 DEF BeginReady
      <4>2. QED
        BY <4>1, TailIs DEF Applying, Result
    <3>2. CASE ~BeginReady
      <4>1. SUFFICES ASSUME Applying(i)'
                     PROVE  Applying(i)
        OBVIOUS
      <4>2. status'.pc = "ready"
        BY <4>1 DEF Applying
      <4>3. Busy /\ status'.ident = status.ident
        BY <1>1, <3>2, <4>2, StatusTakes DEF Busy
      <4>4. UNCHANGED status
        BY <1>1, <3>2, <4>2, <4>3, StatusMove
        DEF StatusStep, StatusRaises, UpdateMongoState, MissingPull, SetReady,
            TouchTarget, DropDuplicate, Untag, Retag, UpdateAcls, DropAclPull,
            StatusPC, Idle, Dead, Inv
      <4>5. QED
        BY <4>1, <4>4 DEF Applying
    <3>3. QED
      BY <3>1, <3>2
  <2>5. IsReady(images'[i]) =>
          IsReady(images[i]) \/ (Applying(i) /\ ~Applying(i)')
    <3>1. SUFFICES ASSUME IsReady(images'[i]), ~IsReady(images[i])
                   PROVE  Applying(i) /\ ~Applying(i)'
      OBVIOUS
    <3>2. ~(UpdateMongoState /\ images'[i].status = Head(queue).state)
      BY <3>1 DEF UpdateMongoState, IsReady
    <3>3. ~((DropDuplicate \/ DropAclPull) /\ status.ident = i)
      BY <3>1, AbsentFacts DEF DropDuplicate, DropAclPull, Set, Inv, TypeOK
    <3>4. SetReady /\ status.ident = i
      BY <1>1, <3>1, <3>2, <3>3, ProcessStatus DEF IsReady
    <3>5. Applying(i)
      BY <3>4 DEF SetReady, Applying
    <3>6. status'.pc = "untag"
      BY <3>4, StatusMove DEF SetReady, Busy, StatusPC, Inv
    <3>7. QED
      BY <3>5, <3>6 DEF Applying
  <2>6. QED
    BY <2>2, <2>3, <2>4, <2>5 DEF Moves, InProgress
<1>2. ASSUME UNCHANGED <<handler, pool, worker, queue, status>>,
             images'[i].status = images[i].status
      PROVE  Moves(i)
  <2>1. /\ Awaiting(i)' => Awaiting(i)
        /\ Result(i)' => Result(i)
        /\ Applying(i)' => Applying(i)
        /\ Failing(i)' => Failing(i)
    BY <1>2 DEF Awaiting, Early, Inserted, Queued, Runs, Result, Applying, Failing
  <2>2. QED
    BY <1>2, <2>1 DEF Moves, InProgress, IsReady
<1>3. ASSUME NEW j \in Idents, Age(j)
      PROVE  Moves(i)
  BY <1>2, <1>3, AgeStatus DEF Age
<1>4. QED
  BY <1>1, <1>2, <1>3 DEF vars

LEMMA NextMoves ==
  ASSUME Inv, Flow, NoExpiry, Calm, [Next]_vars
  PROVE  \A i \in Idents : Moves(i)
BY HandlerMoves, ThreadMovesOn, ProcessMoves DEF Next, Manage, Restart, Calm

LEMMA NextEnd ==
  ASSUME Inv, Flow, RecordInv, Calm, [Next]_vars
  PROVE  OneEnd'
<1>1. \A i \in Idents : Moves(i)
  BY NextMoves DEF RecordInv
<1>2. \A i \in Idents : Failing(i)' => ~InProgress(i)' /\ ~IsReady(images'[i])
  <2>1. SUFFICES ASSUME NEW i \in Idents, Failing(i)'
                 PROVE  ~InProgress(i)' /\ ~IsReady(images'[i])
    OBVIOUS
  <2>2. CASE Failing(i)
    <3>1. ~InProgress(i) /\ ~IsReady(images[i])
      BY <2>2 DEF RecordInv, OneEnd
    <3>2. ~Unused(i)
      BY <2>2 DEF Failing, Unused, Runs
    <3>3. QED
      BY <1>1, <3>1, <3>2 DEF Moves, InProgress
  <2>3. CASE Awaiting(i) /\ ~InProgress(i)'
    <3>1. ~Published(i) /\ ~Applying(i)
      BY <2>3 DEF Flow, Once
    <3>2. QED
      BY <1>1, <2>3, <3>1 DEF Moves, Published
  <2>4. QED
    BY <1>1, <2>1, <2>2, <2>3 DEF Moves
<1>3. Busy => /\ status.ident \in Idents
              /\ ~Awaiting(status.ident) /\ ~Result(status.ident)
              /\ ~Unused(status.ident)
  BY BusyFacts DEF RecordInv, OneEnd, Unused, Busy, Inv
<1>4. \A i \in Idents : Busy /\ i = status.ident =>
        ~Awaiting(i)' /\ ~Result(i)'
  BY <1>1, <1>3 DEF Moves
<1>5. Busy /\ status.pc # "ready" /\ status.ident # status.target
        => ~IsReady(images'[status.ident])
  BY <1>1, <1>3 DEF Moves, Applying, RecordInv, OneEnd
<1>6. CASE UNCHANGED status
  BY <1>2, <1>3, <1>4, <1>5, <1>6 DEF OneEnd, RecordInv, Busy
<1>7. CASE BeginReady
  <2> DEFINE m == Head(queue)
  <2>0. PICK i \in Idents : i = m.ident
    BY <1>7, MessageFacts DEF BeginReady, Inv, Messages
  <2>1. /\ m \in Messages /\ queue # <<>> /\ queue' = Tail(queue)
        /\ m.state = "READY" /\ UNCHANGED images /\ OnlyStatus
    BY <1>7, MessageFacts DEF BeginReady, Inv
  <2>2. m.ident = i /\ m = queue[1] /\ 1 \in 1..Len(queue)
    BY <2>0, <2>1, TailIs
  <2>3. ~Published(i) /\ ~Awaiting(i)
    BY <2>1, <2>2 DEF Flow, Once
  <2>4. ~Result(i)'
    <3>1. SUFFICES ASSUME NEW k \in 1..Len(queue'), queue'[k].ident = i,
                          queue'[k].state = "READY"
                   PROVE  FALSE
      BY DEF Result
    <3>2. k + 1 \in 1..Len(queue) /\ queue'[k] = queue[k + 1] /\ k + 1 # 1
      BY <2>1, TailIs
    <3>3. QED
      BY <2>1, <2>2, <3>1, <3>2 DEF Flow, Once
  <2>5. ~Awaiting(i)'
    BY <2>1, <2>3, StatusHolds DEF Flow
  <2>6. PICK target \in Idents, pc \in {"ready", "untag", "touch"} :
          /\ status' = [ pc |-> pc, ident |-> i, target |-> target,
                         system |-> images[i].system,
                         tag |-> images[i].pulltag,
                         response |-> m.response, acls |-> pc = "untag" ]
          /\ pc = "ready" \/ target \in SameImage(i, m.response)
    BY <1>7, <2>0 DEF BeginReady, SameImage
  <2>7. pc # "ready" => target # i
    BY <2>3, <2>6 DEF SameImage, Published
  <2>8. /\ status'.pc = pc /\ status'.ident = i /\ status'.target = target
        /\ status'.acls <=> pc = "untag"
    BY <2>6
  <2>9. ~IsReady(images'[i])
    BY <2>1, <2>3 DEF Published
  <2> HIDE DEF m
  <2>10. QED
    BY <1>2, <2>4, <2>5, <2>7, <2>8, <2>9 DEF OneEnd
<1>8. CASE (StatusStep \/ StatusRaises) /\ ~BeginReady
  <2>1. Busy' => /\ Busy /\ status'.ident = status.ident
                 /\ status'.target = status.target /\ status'.acls = status.acls
    BY <1>8, StatusTakes
  <2>2. status.pc = "ready" => status.ident = status.target
    BY DEF Inv, StatusInv
  <2>3. Busy' /\ status'.pc \in {"touch", "drop", "acls", "dropacls"} =>
          status.acls \/ status.pc \in {"touch", "drop", "acls", "dropacls"}
    <3>1. CASE UNCHANGED status
      BY <3>1
    <3>2. CASE TouchTarget \/ UpdateAcls
      BY <3>2 DEF TouchTarget, UpdateAcls
    <3>3. CASE SetReady \/ DropDuplicate
      BY <3>3, StatusMove DEF SetReady, DropDuplicate, StatusPC, Busy, Inv
    <3>4. CASE Untag
      BY <3>4, StatusMove DEF Untag, StatusPC, Busy, Inv
    <3>5. CASE Retag
      BY <3>5 DEF Retag, Busy, Idle
    <3>6. CASE DropAclPull \/ StatusRaises
      BY <3>6 DEF DropAclPull, StatusRaises, Busy, Idle, Dead
    <3>7. QED
      BY <1>8, <3>1, <3>2, <3>3, <3>4, <3>5, <3>6
      DEF StatusStep, UpdateMongoState, MissingPull
  <2>4. QED
    BY <1>2, <1>3, <1>4, <1>5, <2>1, <2>2, <2>3 DEF OneEnd, RecordInv
<1>9. QED
  <2>1. ASSUME NEW h \in Handlers,
               Receive(h) \/ HandlerStep(h) \/ HandlerRaises(h)
        PROVE  UNCHANGED status
    BY <2>1, HandlerPool
  <2>2. ASSUME NEW t \in Threads, WorkerStep(t)
        PROVE  UNCHANGED status
    BY <2>2, WorkerStepGoal DEF Inv
  <2>3. QED
    BY <1>6, <1>7, <1>8, <2>1, <2>2 DEF Next, Manage, Age, Restart, Calm, vars

\* A READY document stays READY.
LEMMA ReadyStays ==
  ASSUME Inv, Flow, RecordInv, Calm, [Next]_vars, NEW i \in Idents,
         IsReady(images[i])
  PROVE  IsReady(images'[i])
<1>1. Exists(images[i]) /\ images[i].status = "READY"
  BY DEF IsReady, Exists
<1>2. ~Early(i)
  BY <1>1 DEF Flow, EarlyFresh, Done, Over
<1>3. ASSUME NEW h \in Handlers,
             Receive(h) \/ HandlerStep(h) \/ HandlerRaises(h)
      PROVE  IsReady(images'[i])
  <2>1. ~(MarkPending(h) /\ handler[h].ident = i)
    BY <1>2 DEF MarkPending, Early, Inserted
  <2>2. ~(Remove(h) /\ InTodo(h, i))
    BY DEF Remove, RecordInv, CleansFailed
  <2>3. ~Unused(i)
    BY <1>1 DEF Unused
  <2>4. QED
    BY <1>1, <1>3, <2>1, <2>2, <2>3, HandlerStatus DEF IsReady
<1>4. CASE StatusStep \/ StatusRaises
  <2>1. ~(UpdateMongoState /\ Head(queue).ident = i)
    <3>1. SUFFICES ASSUME UpdateMongoState, Head(queue).ident = i
                   PROVE  FALSE
      OBVIOUS
    <3>2. /\ Head(queue) = queue[1] /\ 1 \in 1..Len(queue)
          /\ Head(queue) \in Messages /\ Head(queue).state # "READY"
      BY <3>1, TailIs, MessageFacts DEF UpdateMongoState, Inv
    <3>3. Head(queue).state \notin InFlight
      BY <1>1, <3>1, <3>2 DEF Flow, InOrder, Done, Over
    <3>4. Head(queue).state = "FAILURE"
      BY <3>2, <3>3 DEF Messages, Status, RecordInv, NoExpiry
    <3>5. Failing(i)
      BY <3>1, <3>2, <3>4 DEF Failing
    <3>6. QED
      BY <3>5 DEF RecordInv, OneEnd
  <2>2. ~((DropDuplicate \/ DropAclPull) /\ status.ident = i)
    BY DEF DropDuplicate, DropAclPull, RecordInv, OneEnd, Busy
  <2>3. QED
    BY <1>1, <1>4, <2>1, <2>2, ProcessStatus DEF IsReady
<1>5. ASSUME NEW t \in Threads, WorkerStep(t)
      PROVE  IsReady(images'[i])
  BY <1>5, WorkerStepGoal DEF Inv
<1>6. CASE \E j \in Idents : Age(j)
  BY <1>6, AgeStatus DEF IsReady
<1>7. QED
  BY <1>3, <1>4, <1>5, <1>6 DEF Next, Manage, Restart, Calm, vars

\* A document whose pull is in progress shows it as long as it is.
LEMMA NextThere ==
  ASSUME Inv, Flow, RecordInv, Calm, [Next]_vars
  PROVE  RecordThere'
<1>1. SUFFICES ASSUME NEW i \in Idents, InProgress(i)'
               PROVE  Flying(i)'
  BY DEF RecordThere
<1>2. Moves(i)
  BY NextMoves DEF RecordInv
<1>3. CASE Unused(i) /\ images'[i].status = "INIT"
  BY <1>3 DEF Flying, InFlight
<1>4. CASE InProgress(i)
  <2>1. Flying(i) /\ images[i].status # "FAILURE"
    BY <1>4 DEF RecordInv, RecordThere, Flying, InFlight, Working
  <2>2. ASSUME NEW h \in Handlers,
               Receive(h) \/ HandlerStep(h) \/ HandlerRaises(h)
        PROVE  Flying(i)'
    <3>1. ~(Remove(h) /\ InTodo(h, i))
      BY <2>1 DEF Remove, RecordInv, CleansFailed
    <3>2. QED
      BY <2>1, <2>2, <3>1, HandlerStatus DEF Flying, InFlight
  <2>3. CASE StatusStep \/ StatusRaises
    <3>1. CASE UpdateMongoState /\ Head(queue).ident = i
      <4>1. /\ Head(queue) = queue[1] /\ 1 \in 1..Len(queue)
            /\ Head(queue) \in Messages /\ Head(queue).state # "READY"
        BY <3>1, TailIs, MessageFacts DEF UpdateMongoState, Inv
      <4>2. Head(queue).state # "FAILURE"
        BY <1>4, <3>1, <4>1 DEF RecordInv, OneEnd, Failing
      <4>3. Head(queue).state \in InFlight
        BY <4>1, <4>2 DEF Messages, Status, RecordInv, NoExpiry
      <4>4. ~(SetReady \/ DropDuplicate \/ DropAclPull)
        BY <3>1 DEF UpdateMongoState, SetReady, DropDuplicate, DropAclPull
      <4>5. QED
        BY <2>1, <2>3, <4>3, <4>4, ProcessStatus DEF Flying
    <3>2. CASE (SetReady \/ DropDuplicate \/ DropAclPull) /\ status.ident = i
      <4>1. Busy
        BY <3>2 DEF SetReady, DropDuplicate, DropAclPull, Busy
      <4>2. ~Awaiting(i) /\ ~Result(i) /\ ~Unused(i)
        BY <3>2, <4>1 DEF RecordInv, OneEnd, Unused, Busy
      <4>3. status'.pc # "ready"
        BY <3>2, <4>1, StatusMove
        DEF SetReady, DropDuplicate, DropAclPull, StatusPC, Idle, Inv
      <4>4. QED
        BY <1>1, <1>2, <4>2, <4>3 DEF Moves, InProgress, Applying
    <3>3. CASE /\ ~(UpdateMongoState /\ Head(queue).ident = i)
               /\ ~((SetReady \/ DropDuplicate \/ DropAclPull)
                      /\ status.ident = i)
      BY <2>1, <2>3, <3>3, ProcessStatus DEF Flying
    <3>4. QED
      BY <3>1, <3>2, <3>3
  <2>4. ASSUME NEW t \in Threads, WorkerStep(t)
        PROVE  Flying(i)'
    BY <2>1, <2>4, WorkerStepGoal DEF Inv, Flying
  <2>5. CASE \E j \in Idents : Age(j)
    BY <2>1, <2>5, AgeStatus DEF Flying
  <2>6. CASE UNCHANGED vars
    BY <2>1, <2>6 DEF vars, Flying
  <2>7. QED
    BY <2>2, <2>3, <2>4, <2>5, <2>6 DEF Next, Manage, Restart, Calm
<1>5. QED
  BY <1>1, <1>2, <1>3, <1>4 DEF Moves

\* What a step leaves of the documents: unless one is inserted, a document
\* that is not READY was there before and was not READY, and one that no
\* pull works on does not become READY.
LEMMA WaitsKept ==
  ASSUME Inv, Flow, RecordInv, Calm, [Next]_vars, CarriesAll
  PROVE  \A i \in Idents :
           /\ Exists(images'[i]) /\ ~IsReady(images'[i]) =>
                /\ Exists(images[i]) /\ ~IsReady(images[i])
                /\ images'[i].system = images[i].system
                /\ images'[i].itype = images[i].itype
                /\ images'[i].pulltag = images[i].pulltag
           /\ Flying(i)' => Flying(i)
           /\ ~Flying(i) /\ ~IsReady(images[i]) => ~IsReady(images'[i])
<1>1. \A i \in Idents :
        IsReady(images[i]) => IsReady(images'[i])
  BY ReadyStays
<1>2. \A i \in Idents : Moves(i)
  BY NextMoves DEF RecordInv
<1>3. \A i \in Idents : Applying(i) => Flying(i)
  BY DEF RecordInv, RecordThere, InProgress
<1>4. \A i \in Idents :
        ~Flying(i) /\ ~IsReady(images[i]) => ~IsReady(images'[i])
  BY <1>2, <1>3 DEF Moves
<1>5. QED
  BY <1>1, <1>4, FlyingKept

LEMMA NextWaiting ==
  ASSUME Inv, Flow, RecordInv, Calm, [Next]_vars
  PROVE  OneWaiting'
<1>1. CASE \A h \in Handlers : ~Insert(h)
  <2>1. CarriesAll
    BY <1>1, StepCarries
  <2>2. QED
    BY <2>1, WaitsKept DEF OneWaiting, RecordInv
<1>2. ASSUME NEW h \in Handlers, Insert(h)
      PROVE  OneWaiting'
  <2> DEFINE r == handler[h].req
  <2>1. PICK i \in Idents : Set(i, NewRecord(r))
    BY <1>2 DEF Insert
  <2>2. handler[h].pc = "insert"
    BY <1>2 DEF Insert
  <2>3. \A j \in Idents : images'[j] = IF j = i THEN NewRecord(r) ELSE images[j]
    BY <2>1 DEF Set, Inv, TypeOK
  <2>4. /\ NewRecord(r).system = r.system /\ NewRecord(r).itype = r.itype
        /\ NewRecord(r).pulltag = r.tag
    BY DEF NewRecord
  <2>5. \A j \in Idents : ~Waits(j, r)
    BY <2>2 DEF RecordInv, CleansFailed
  <2> HIDE DEF r
  <2>6. QED
    BY <2>3, <2>4, <2>5 DEF OneWaiting, RecordInv, Waits, RequestedAs
<1>3. QED
  BY <1>1, <1>2

\* pull() goes on only when the document of the name, if it is not READY,
\* is that of a failed pull.
LEMMA PullCleansFailed ==
  ASSUME Inv, StampInv, RecordInv, Calm, NEW h \in Handlers, FindPull(h),
         handler'[h].pc = "clean", NEW i \in Idents,
         Waits(i, handler[h].req)
  PROVE  ~Flying(i)
<1> DEFINE r       == handler[h].req
           pending == {j \in Idents : RequestedAs(images[j], r)
                                        /\ ~IsReady(images[j])}
<1>1. handler[h].pc = "findpull" /\ handler[h] \in HandlerStates
  BY HandlerBusy DEF FindPull, Inv
<1>2. i \in pending
  BY DEF Waits
<1>3. PICK j \in pending :
        IF IsReady(images[j]) /\ images[j].last_pull = "none" THEN Goto(h, "KeyError")
        ELSE IF Exists(images[j]) /\ images[j].acl = Null THEN Goto(h, "TypeError")
        ELSE IF NeedsPull(images[j], r.acl)
          THEN handler' = [handler EXCEPT ![h].pc = "clean", ![h].seen = Absent]
        ELSE Return(h)
  BY <1>2 DEF FindPull
<1>4. j = i
  BY <1>2, <1>3 DEF RecordInv, OneWaiting, RequestedAs
<1>5. Exists(images[i]) /\ ~IsReady(images[i])
  BY <1>2 DEF RequestedAs
<1> HIDE DEF r, pending
<1>6. NeedsPull(images[i], r.acl)
  BY <1>1, <1>3, <1>4, <1>5, GotoAt, ReturnAt DEF Inv
<1>7. images[i].last_pull # "none"
  BY <1>1, <1>5 DEF StampInv, Stamped, Stamping, Calm, Alone
<1>8. images[i].status = "FAILURE"
  BY <1>5, <1>6, <1>7 DEF NeedsPull, Pullable, IsReady, RecordInv, NoExpiry
<1>9. QED
  BY <1>8 DEF Flying, InFlight, Working

\* What the API process's own steps do to the documents it cleans out.
LEMMA HandlerCleansFailed ==
  ASSUME Inv, Flow, StampInv, OnePullInv, RecordInv, Calm, [Next]_vars,
         NEW h \in Handlers,
         Receive(h) \/ HandlerStep(h) \/ HandlerRaises(h), ~Insert(h),
         NEW i \in Idents
  PROVE  /\ handler'[h].pc = "clean" /\ Waits(i, handler[h].req)'
              => ~Flying(i)'
         /\ handler'[h].pc = "remove" /\ Waits(i, handler[h].req)'
              => InTodo(h, i)'
         /\ handler'[h].pc = "remove" /\ InTodo(h, i)'
              => ~Flying(i)' /\ ~IsReady(images'[i])
         /\ handler'[h].pc = "insert" => ~Waits(i, handler[h].req)'
<1> USE DEF Inv
<1>1. CASE handler'[h].pc = "clean"
  <2>1. FindPull(h)
    BY <1>1, HandlerGoes DEF RecordInv
  <2>2. handler[h].pc = "findpull" /\ UNCHANGED images
    BY <2>1 DEF FindPull, OnlyHandler
  <2>3. \/ Goto(h, "KeyError") \/ Goto(h, "TypeError") \/ Return(h)
        \/ handler' = [handler EXCEPT ![h].pc = "clean", ![h].seen = Absent]
    BY <2>1 DEF FindPull
  <2>4. handler' = [handler EXCEPT ![h].pc = "clean", ![h].seen = Absent]
    BY <1>1, <2>2, <2>3, GotoAt, ReturnAt
  <2>5. handler'[h].req = handler[h].req
    BY <2>2, <2>4, HandlerBusy DEF HandlerStates, TypeOK
  <2>6. Waits(i, handler[h].req) => ~Flying(i)
    BY <1>1, <2>1, PullCleansFailed
  <2>7. QED
    BY <1>1, <2>2, <2>5, <2>6 DEF Waits, Flying
<1>2. CASE Clean(h)
  <2> DEFINE r    == handler[h].req
             todo == {<<j, NoImage>> : j \in {k \in Idents :
                         SameRequest(images[k], r) /\ ~IsReady(images[k])}}
  <2>1. handler[h] \in HandlerStates /\ handler[h].pc = "clean" /\ UNCHANGED images
    BY <1>2, HandlerBusy DEF Clean, OnlyHandler
  <2>2. handler' = [handler EXCEPT ![h].pc = "remove", ![h].todo = todo]
    BY <1>2 DEF Clean
  <2>3. /\ handler'[h].pc = "remove" /\ handler'[h].req = r
        /\ handler'[h].todo = todo
    BY <2>1, <2>2 DEF HandlerStates, TypeOK
  <2>4. r.acl = Public /\ r.op # "import"
    BY <2>1, PublicRequests DEF Calm
  <2>5. SameRequest(images[i], r) <=> RequestedAs(images[i], r)
    BY <2>4 DEF SameRequest, RequestedAs, OnePullInv, PublicLists
  <2>6. InTodo(h, i)' <=> Waits(i, r)
    <3>1. InTodo(h, i)' <=> \E v \in todo : v[1] = i
      BY <2>3 DEF InTodo
    <3>2. (\E v \in todo : v[1] = i)
            <=> SameRequest(images[i], r) /\ ~IsReady(images[i])
      <4>1. ASSUME NEW v \in todo, v[1] = i
            PROVE  SameRequest(images[i], r) /\ ~IsReady(images[i])
        <5>1. PICK j \in Idents : /\ v = <<j, NoImage>>
                                  /\ SameRequest(images[j], r)
                                  /\ ~IsReady(images[j])
          BY <4>1
        <5>2. j = i
          BY <4>1, <5>1
        <5>3. QED
          BY <5>1, <5>2
      <4>2. ASSUME SameRequest(images[i], r), ~IsReady(images[i])
            PROVE  \E v \in todo : v[1] = i
        <5>1. <<i, NoImage>> \in todo /\ <<i, NoImage>>[1] = i
          BY <4>2
        <5>2. QED
          BY <5>1
      <4>3. QED
        BY <4>1, <4>2
    <3>3. QED
      BY <2>5, <3>1, <3>2 DEF Waits
  <2>7. Waits(i, r) => ~Flying(i)
    BY <2>1 DEF RecordInv, CleansFailed
  <2>8. Waits(i, r) => ~IsReady(images[i])
    BY DEF Waits
  <2> HIDE DEF r, todo
  <2>9. QED
    BY <2>1, <2>3, <2>6, <2>7, <2>8 DEF Waits, Flying
<1>3. CASE Remove(h)
  <2>1. handler[h] \in HandlerStates /\ handler[h].pc = "remove"
    BY <1>3, HandlerBusy DEF Remove
  <2>2. PICK v \in handler[h].todo :
          /\ Set(v[1], Absent)
          /\ handler' = [handler EXCEPT ![h].todo = @ \ {v}]
    BY <1>3 DEF Remove
  <2>3. v[1] \in Idents
    BY <2>1, <2>2 DEF HandlerStates
  <2>4. /\ handler'[h].pc = "remove" /\ handler'[h].req = handler[h].req
        /\ handler'[h].todo = handler[h].todo \ {v}
    BY <2>1, <2>2 DEF HandlerStates, TypeOK
  <2>5. images'[i] = IF i = v[1] THEN Absent ELSE images[i]
    BY <2>2, <2>3 DEF Set, TypeOK
  <2>6. Absent.status \notin InFlight
    BY DEF Absent, InFlight, Working
  <2>7. Waits(i, handler[h].req)' => InTodo(h, i)'
    <3>1. SUFFICES ASSUME RequestedAs(images'[i], handler'[h].req),
                          ~IsReady(images'[i])
                   PROVE  InTodo(h, i)'
      BY DEF Waits
    <3>2. i # v[1] /\ images'[i] = images[i]
      BY <2>5, <3>1, AbsentFacts DEF RequestedAs
    <3>3. InTodo(h, i)
      BY <2>1, <2>4, <3>1, <3>2 DEF RecordInv, CleansFailed, Waits
    <3>4. QED
      BY <2>4, <3>2, <3>3 DEF InTodo
  <2>8. InTodo(h, i)' => InTodo(h, i)
    BY <2>4 DEF InTodo
  <2>9. InTodo(h, i) => ~Flying(i) /\ ~IsReady(images[i])
    BY <2>1 DEF RecordInv, CleansFailed
  <2>10. QED
    BY <2>4, <2>5, <2>6, <2>7, <2>8, <2>9, AbsentFacts DEF Flying
<1>4. CASE Removed(h)
  <2>1. handler[h].pc = "remove" /\ handler[h].todo = {} /\ UNCHANGED images
    BY <1>4 DEF Removed, OnlyHandler
  <2>2. /\ handler'[h].pc \in {"findold", "insert"}
        /\ handler'[h].req = handler[h].req
    BY <1>4, <2>1, GotoAt DEF Removed
  <2>3. ~InTodo(h, i)
    BY <2>1 DEF InTodo
  <2>4. QED
    BY <2>1, <2>2, <2>3 DEF RecordInv, CleansFailed, Waits
<1>5. QED
  BY <1>1, <1>2, <1>3, <1>4, HandlerGoes DEF RecordInv

LEMMA NextCleans ==
  ASSUME Inv, Flow, StampInv, OnePullInv, RecordInv, Calm, [Next]_vars
  PROVE  CleansFailed'
<1>1. ASSUME NEW h \in Handlers, Insert(h)
      PROVE  CleansFailed'
  <2>1. handler[h] \in HandlerStates
    BY <1>1, HandlerBusy DEF Insert, Inv
  <2>2. handler'[h].pc = "pending"
    BY <1>1, <2>1 DEF Insert, HandlerStates, Inv, TypeOK
  <2>3. QED
    BY <2>2 DEF CleansFailed, Calm, Alone
<1>2. ASSUME NEW h \in Handlers,
             Receive(h) \/ HandlerStep(h) \/ HandlerRaises(h), ~Insert(h)
      PROVE  CleansFailed'
  <2>1. \A g \in Handlers : g = h
    BY DEF Calm, Alone
  <2>2. QED
    BY <1>2, <2>1, HandlerCleansFailed DEF CleansFailed
<1>3. CASE UNCHANGED handler
  <2>1. \A h \in Handlers : ~Insert(h)
    <3>1. SUFFICES ASSUME NEW h \in Handlers, Insert(h)
                   PROVE  FALSE
      OBVIOUS
    <3>2. handler[h] \in HandlerStates /\ handler[h].pc = "insert"
      BY <3>1, HandlerBusy DEF Insert, Inv
    <3>3. handler'[h].pc = "pending"
      BY <3>1, <3>2 DEF Insert, HandlerStates, Inv, TypeOK
    <3>4. QED
      BY <1>3, <3>2, <3>3
  <2>2. CarriesAll
    BY <2>1, StepCarries
  <2>3. \A i \in Idents, h \in Handlers :
          /\ Waits(i, handler[h].req)' => Waits(i, handler[h].req)
          /\ InTodo(h, i)' <=> InTodo(h, i)
    BY <1>3, <2>2, WaitsKept DEF Waits, RequestedAs, InTodo
  <2>4. \A i \in Idents : /\ Flying(i)' => Flying(i)
                          /\ ~Flying(i) /\ ~IsReady(images[i])
                               => ~IsReady(images'[i])
    BY <2>2, WaitsKept
  <2>5. QED
    BY <1>3, <2>3, <2>4 DEF CleansFailed, RecordInv
<1>4. ASSUME NEW t \in Threads, WorkerStep(t)
      PROVE  UNCHANGED handler
  BY <1>4, WorkerStepGoal DEF Inv
<1>5. ASSUME StatusStep \/ StatusRaises
      PROVE  UNCHANGED handler
  BY <1>5, StatusTakes DEF OnlyStatus
<1>6. QED
  BY <1>1, <1>2, <1>3, <1>4, <1>5 DEF Next, Manage, Age, Restart, Calm, vars

LEMMA NextRecord ==
  ASSUME Inv, Flow, StampInv, OnePullInv, RecordInv, Calm, [Next]_vars
  PROVE  RecordInv'
<1>1. NoExpiry'
  BY NextNoExpiry DEF RecordInv
<1>2. QED
  BY <1>1, NextEnd, NextThere, NextWaiting, NextCleans DEF RecordInv

\* A calm system keeps its invariant.
LEMMA CalmRecords ==
  Calm /\ Spec => [](Inv /\ Flow /\ StampInv /\ OnePullInv /\ RecordInv)
<1>1. Init => StampInv /\ OnePullInv /\ RecordInv
  <2> SUFFICES ASSUME Init
               PROVE  StampInv /\ OnePullInv /\ RecordInv
    OBVIOUS
  <2>1. /\ Len(pool) = 0 /\ Len(queue) = 0 /\ ~Busy
        /\ \A t \in Threads : worker[t].pc = "idle"
        /\ \A h \in Handlers : handler[h].pc = "idle"
        /\ \A i \in Idents : images[i] = Absent
    BY DEF Init, Idle, Busy
  <2>2. \A i \in Idents : ~Exists(images[i])
    BY <2>1, AbsentFacts
  <2>3. \A i \in Idents : ~Flying(i)
    BY <2>1 DEF Flying, Absent, InFlight, Working
  <2>4. StampInv
    BY <2>1, <2>2 DEF StampInv, Stamped, SeenStamped, FailuresCleaned
  <2>5. OnePullInv
    BY <2>1, <2>2, <2>3
    DEF OnePullInv, PublicLists, Cleaning, OneFlying
  <2>6. NoExpiry
    BY <2>1 DEF NoExpiry, Absent
  <2>7. \A i \in Idents : ~Failing(i) /\ ~Result(i) /\ ~Awaiting(i)
    BY <2>1 DEF Failing, Result, Awaiting, Early, Inserted, Queued, Runs
  <2>8. \A i \in Idents : ~Applying(i)
    BY <2>1 DEF Applying, Busy
  <2>9. OneEnd /\ RecordThere
    BY <2>1, <2>7, <2>8 DEF OneEnd, RecordThere, InProgress
  <2>10. OneWaiting /\ CleansFailed
    BY <2>1, <2>2 DEF OneWaiting, CleansFailed
  <2>11. QED
    BY <2>4, <2>5, <2>6, <2>9, <2>10 DEF RecordInv
<1>2. /\ Inv /\ Flow /\ StampInv /\ OnePullInv /\ RecordInv
      /\ Calm /\ [Next]_vars
      => (StampInv /\ OnePullInv /\ RecordInv)'
  BY NextStamp, NextOnePull, NextRecord DEF Calm
<1>3. Calm => []Calm
  <2>1. Calm => Calm'
    BY DEF Calm, Alone, NoLists
  <2>2. QED
    BY <2>1, PTL
<1>4. QED
  BY <1>1, <1>2, <1>3, RequestsFlow, PTL DEF Spec

\* ResultHasRecord: complete_pull finds the pull record of every result a
\* worker delivers, and no pull is thrown away, as long as one API process
\* serves pulls, lookups and lists, no query fails and nothing is restarted,
\* and no worker is silent for an hour: neither update_states nor
\* new_pull_record then removes the document of a pull in progress.
THEOREM ResultsHaveRecords == Calm /\ Spec => []ResultHasRecord
<1>1. Inv /\ RecordInv => ResultHasRecord
  <2>1. SUFFICES ASSUME Inv, RecordInv, queue # <<>>,
                        Head(queue).state = "READY"
                 PROVE  Exists(images[Head(queue).ident])
    BY DEF ResultHasRecord
  <2>2. PICK i \in Idents : i = Head(queue).ident
    BY <2>1, MessageFacts DEF Inv, Messages
  <2>3. Head(queue) = queue[1] /\ 1 \in 1..Len(queue)
    BY <2>1 DEF Inv, TypeOK
  <2>4. InProgress(i)
    BY <2>1, <2>2, <2>3 DEF InProgress, Result
  <2>5. Flying(i)
    BY <2>1, <2>4 DEF RecordInv, RecordThere
  <2>6. QED
    BY <2>2, <2>5 DEF Flying, Exists, InFlight, Working
<1>2. QED
  BY <1>1, CalmRecords, PTL

\* OnePullPerName: every pull in the pool or in the hands of a thread has its
\* record, and none is of the name of another, however pulls, lookups and lists
\* follow each other and however long update_states, the pool, the threads and
\* the status process take.  It needs one API process (two may both find no
\* record before either inserts one), that no query fails and nothing restarts,
\* and that no heartbeat is an hour old, for pull() then takes the pull to be
\* dead and starts another.
THEOREM OnePullAtATime == Calm /\ Spec => []OnePullPerName
<1>1. Inv /\ OnePullInv /\ RecordInv => OnePullPerName
  <2>1. ASSUME Inv, RecordInv, NEW i \in Idents, UnderWay(i)
        PROVE  Flying(i)
    <3>1. CASE \E k \in 1..Len(pool) : pool[k].op = "pull" /\ pool[k].ident = i
      <4>1. Early(i)
        BY <3>1 DEF Early, Queued
      <4>2. QED
        BY <2>1, <4>1 DEF Awaiting, InProgress, RecordInv, RecordThere
    <3>2. CASE \E t \in Threads : /\ worker[t].pc \in {"start", "work", "transfer"}
                                  /\ worker[t].task.op = "pull"
                                  /\ worker[t].task.ident = i
      <4>1. Awaiting(i)
        BY <3>2 DEF Awaiting, Early, Runs
      <4>2. QED
        BY <2>1, <4>1 DEF InProgress, RecordInv, RecordThere
    <3>3. QED
      BY <2>1, <3>1, <3>2 DEF UnderWay
  <2>2. \A i \in Idents : Flying(i) => Exists(images[i])
    BY DEF Flying, Exists, InFlight, Working
  <2>3. SUFFICES ASSUME Inv, OnePullInv, RecordInv, NEW i \in Idents,
                        NEW j \in Idents, UnderWay(i), UnderWay(j)
                 PROVE  /\ Exists(images[i])
                        /\ SameName(images[i], images[j]) => i = j
    BY DEF OnePullPerName
  <2>4. Flying(i) /\ Flying(j)
    BY <2>1, <2>3
  <2>5. QED
    BY <2>2, <2>3, <2>4 DEF OnePullInv, OneFlying
<1>2. QED
  BY <1>1, CalmRecords, PTL
=============================================================================
