--------------------------- MODULE ImageMngrProofs ---------------------------
(***************************************************************************)
(* Theorems about ImageMngr, for any number of API processes, worker       *)
(* threads, documents, systems, types and tags.                            *)
(***************************************************************************)
EXTENDS ImageMngr, TLAPS

-----------------------------------------------------------------------------
(* One document.                                                           *)

\* What almost every update leaves of a document: it gains no tag, it does
\* not become READY, it does not move to another system, and what identifies
\* its image stays.
Tamer(e, d) ==
  /\ e \in Document
  /\ e = Absent \/ /\ Exists(d)
                   /\ e.system = d.system
                   /\ e.tag \subseteq d.tag
                   /\ IsReady(e) => IsReady(d)
                   /\ e.id = d.id
                   /\ d.last_pull # "none" => e.last_pull # "none"

HasImage(d) == d.id # NoImage /\ d.last_pull # "none"

LEMMA AbsentFacts ==
  /\ Absent \in Document
  /\ ~Exists(Absent) /\ ~IsReady(Absent)
  /\ Absent.tag = {} /\ Absent.system = NoName
BY DEF Absent, Document, Exists, IsReady

\* A document is Absent or has every key of a record.
LEMMA DocumentCases ==
  ASSUME NEW d \in Document
  PROVE  /\ Exists(d) => d \in Record
         /\ ~Exists(d) => d = Absent
         /\ d.tag \in SUBSET Tags
         /\ d.id \in ImageIds \cup {NoImage}
         /\ d.system \in Systems \cup {NoName}
BY DEF Document, Record, Absent, Exists, Status, InFlight, Working

LEMMA TamerSelf ==
  ASSUME NEW d \in Document
  PROVE  Tamer(d, d) /\ Tamer(Absent, d)
BY DocumentCases, AbsentFacts DEF Tamer

LEMMA TamerState ==
  ASSUME NEW d \in Document, NEW state \in Status, state # "READY"
  PROVE  Tamer(SetState(d, state), d) /\ Tamer(SetBeat(d, state), d)
<1>1. CASE ~Exists(d)
  BY <1>1, DocumentCases, TamerSelf DEF SetState, SetBeat, Assign
<1>2. CASE Exists(d)
  <2>1. d \in Record
    BY <1>2, DocumentCases
  <2>2. /\ [d EXCEPT !.status = state] \in Record
        /\ [d EXCEPT !.status = state, !.last_heartbeat = "fresh"] \in Record
    BY <2>1 DEF Record, BeatAge
  <2>3. QED
    BY <1>2, <2>1, <2>2
    DEF Tamer, Document, SetState, SetBeat, Assign, Record, IsReady
<1>3. QED
  BY <1>1, <1>2

LEMMA TamerTimes ==
  ASSUME NEW d \in Document
  PROVE  Tamer(Touch(d), d) /\ Tamer(ResetExpire(d), d)
<1>1. CASE ~Exists(d)
  BY <1>1, DocumentCases, TamerSelf DEF Touch, ResetExpire, Assign
<1>2. CASE Exists(d)
  <2>1. d \in Record
    BY <1>2, DocumentCases
  <2>2. /\ [d EXCEPT !.last_pull = "recent"] \in Record
        /\ [d EXCEPT !.expiration = "future"] \in Record
    BY <2>1 DEF Record, PullAge, ExpiryAge
  <2>3. QED
    BY <1>2, <2>1, <2>2
    DEF Tamer, Document, Touch, ResetExpire, Assign, Record, IsReady
<1>3. QED
  BY <1>1, <1>2

LEMMA TamerAccess ==
  ASSUME NEW d \in Document, NEW acl \in Access
  PROVE  Tamer(SetAccess(d, acl), d)
<1>1. CASE ~Exists(d)
  BY <1>1, DocumentCases, TamerSelf DEF SetAccess, Assign
<1>2. CASE Exists(d)
  <2>1. d \in Record
    BY <1>2, DocumentCases
  <2>2. [d EXCEPT !.acl = acl, !.last_pull = "recent"] \in Record
    BY <2>1 DEF Record, PullAge
  <2>3. QED
    BY <1>2, <2>1, <2>2 DEF Tamer, Document, SetAccess, Assign, Record, IsReady
<1>3. QED
  BY <1>1, <1>2

LEMMA TamerUntag ==
  ASSUME NEW d \in Document, NEW system \in Systems, NEW tag \in Tags
  PROVE  /\ Tamer(RemoveTag(d, system, tag), d)
         /\ RemoveTag(d, system, tag).system = system
              => tag \notin RemoveTag(d, system, tag).tag
<1>1. CASE d.system # system
  BY <1>1, TamerSelf DEF RemoveTag
<1>2. CASE d.system = system
  <2>1. Exists(d) /\ d \in Record
    BY <1>2, DocumentCases, AbsentFacts, ImageDBAssumption
  <2>2. [d EXCEPT !.tag = @ \ {tag}] \in Record
    BY <2>1 DEF Record
  <2>3. QED
    BY <1>2, <2>1, <2>2 DEF Tamer, Document, RemoveTag, Record, IsReady
<1>3. QED
  BY <1>1, <1>2

\* The two updates that are not tame.
LEMMA MakeReadyFacts ==
  ASSUME NEW d \in Document, NEW resp \in Responses
  PROVE  LET e == MakeReady(d, resp)
         IN  /\ e \in Document
             /\ Exists(e) <=> Exists(d)
             /\ e.tag = d.tag /\ e.system = d.system
             /\ Exists(e) => /\ e.id = resp.id /\ HasImage(e)
                             /\ IsReady(e)
<1>1. CASE ~Exists(d)
  BY <1>1 DEF MakeReady, Assign
<1>2. CASE Exists(d)
  <2>1. d \in Record
    BY <1>2, DocumentCases
  <2>2. resp.id \in ImageIds /\ resp.acl \in Access /\ resp.id # NoImage
    BY ImageDBAssumption DEF Responses, ImageIds
  <2>3. [d EXCEPT !.status = "READY", !.id = resp.id, !.acl = resp.acl,
                  !.last_pull = "recent"] \in Record
    BY <2>1, <2>2 DEF Record, PullAge, Status
  <2>4. QED
    BY <1>2, <2>1, <2>2, <2>3
    DEF MakeReady, Assign, Document, Record, Exists, IsReady, HasImage
<1>3. QED
  BY <1>1, <1>2

LEMMA AddToSetFacts ==
  ASSUME NEW d \in Document, NEW tag \in Tags
  PROVE  LET e == AddToSet(d, tag)
         IN  /\ e \in Document
             /\ Exists(e) <=> Exists(d)
             /\ e.system = d.system /\ e.id = d.id
             /\ e.last_pull = d.last_pull
             /\ IsReady(e) <=> IsReady(d)
             /\ e.tag \subseteq d.tag \cup {tag}
             /\ ~Exists(d) => e = d
<1>1. CASE ~Exists(d)
  BY <1>1 DEF AddToSet, Assign
<1>2. CASE Exists(d)
  <2>1. d \in Record
    BY <1>2, DocumentCases
  <2>2. [d EXCEPT !.tag = @ \cup {tag}] \in Record
    BY <2>1 DEF Record
  <2>3. QED
    BY <1>2, <2>1, <2>2 DEF AddToSet, Assign, Document, Record, Exists, IsReady
<1>3. QED
  BY <1>1, <1>2

LEMMA NewRecordFacts ==
  ASSUME NEW r \in Requests, r.op \in {"pull", "import"}
  PROVE  LET e == NewRecord(r)
         IN  e \in Document /\ e.tag = {} /\ ~IsReady(e) /\ e.id = NoImage
<1>1. /\ r.system \in Systems /\ r.itype \in ITypes /\ r.tag \in Tags
      /\ r.acl \in Access /\ r.file \in Files \cup {NoFile}
  BY ImageDBAssumption DEF Requests, Access
<1>2. NewRecord(r) \in Record
  BY <1>1 DEF NewRecord, Record, Status, InFlight, PullAge, BeatAge, ExpiryAge
<1>3. QED
  BY <1>2 DEF Document, NewRecord, IsReady

-----------------------------------------------------------------------------
(* The inductive invariant.                                                *)

\* What a handler does at each point is what its request asks for, and from
\* the insertion on it has an object id.
HandlerInv ==
  \A h \in Handlers :
    LET s == handler[h]
    IN  /\ s.pc \in {"findready", "findpull"} => s.req.op = "pull"
        /\ s.pc = "findany" => s.req.op = "import"
        /\ s.pc = "findstuck" => s.req.op = "autoexpire"
        /\ s.pc = "remove" => s.req.op \in {"pull", "import", "autoexpire"}
        /\ s.pc \in {"clean", "insert", "pending", "submit", "stamp"}
             => s.req.op \in {"pull", "import"}
        /\ s.pc \in {"pending", "submit", "stamp", "resetexpire"}
             => s.ident \in Idents

Busy == status.pc \notin {"idle", "dead"}

\* What the status process found out stays true while it applies it.
StatusInv ==
  /\ Busy /\ Exists(images[status.target])
       => images[status.target].system = status.system
  /\ status.pc = "ready" =>
       /\ status.target = status.ident
       /\ \A j \in Idents :
            IsReady(images[j]) /\ images[j].id = status.response.id
              => images[j].system # status.system
  /\ status.pc = "retag" =>
       \A j \in Idents : images[j].system = status.system
                            => status.tag \notin images[j].tag
  /\ status.pc \in {"touch", "drop", "untag", "retag"}
       => (Exists(images[status.target])
             => HasImage(images[status.target]))

\* A READY document has an image and the time it was pulled.
ReadyHasImage == \A i \in Idents : IsReady(images[i]) => HasImage(images[i])

DocInv == TagUnique /\ ReadyUnique /\ TaggedHasImage /\ ReadyHasImage

Inv == TypeOK /\ HandlerInv /\ StatusInv /\ DocInv

-----------------------------------------------------------------------------
(* Steps that are tame for every document.                                 *)

Tame == \A i \in Idents : Tamer(images'[i], images[i])

LEMMA TameSet ==
  ASSUME TypeOK, NEW i \in Idents, NEW d, Tamer(d, images[i]), Set(i, d)
  PROVE  Tame /\ images' \in [Idents -> Document]
<1>1. images \in [Idents -> Document]
  BY DEF TypeOK
<1>2. \A j \in Idents : images'[j] = IF j = i THEN d ELSE images[j]
  BY <1>1 DEF Set
<1>3. \A j \in Idents : images[j] \in Document
  BY <1>1
<1>4. Tame
  BY <1>2, <1>3, TamerSelf DEF Tame
<1>5. QED
  BY <1>1, <1>4 DEF Tame, Tamer, Set

LEMMA TameUnchanged ==
  ASSUME TypeOK, UNCHANGED images
  PROVE  Tame /\ images' \in [Idents -> Document]
<1>1. images \in [Idents -> Document]
  BY DEF TypeOK
<1>2. \A j \in Idents : images[j] \in Document /\ images'[j] = images[j]
  BY <1>1
<1>3. QED
  BY <1>1, <1>2, TamerSelf DEF Tame

\* A step that is tame for every document keeps the invariants of the
\* collection, and what the status process knows if that does not change.
LEMMA TameKeepsDocInv ==
  ASSUME TypeOK, DocInv, Tame
  PROVE  DocInv'
<1>1. \A i \in Idents : images[i] \in Document
  BY DEF TypeOK
<1>2. \A i \in Idents :
        /\ images'[i].tag \subseteq images[i].tag
        /\ images'[i].tag # {} => /\ images'[i].system = images[i].system
                                  /\ HasImage(images[i]) => HasImage(images'[i])
        /\ IsReady(images'[i]) => /\ IsReady(images[i])
                                  /\ images'[i].system = images[i].system
                                  /\ images'[i].id = images[i].id
                                  /\ HasImage(images[i]) => HasImage(images'[i])
  BY <1>1, AbsentFacts DEF Tame, Tamer, HasImage
<1>3. TagUnique'
  BY <1>2 DEF DocInv, TagUnique
<1>4. ReadyUnique'
  BY <1>2 DEF DocInv, ReadyUnique
<1>5. TaggedHasImage'
  BY <1>2 DEF DocInv, TaggedHasImage, HasImage
<1>6. ReadyHasImage'
  BY <1>2 DEF DocInv, ReadyHasImage
<1>7. QED
  BY <1>3, <1>4, <1>5, <1>6 DEF DocInv

LEMMA TameKeepsStatusInv ==
  ASSUME TypeOK, StatusInv, Tame, UNCHANGED status
  PROVE  StatusInv'
<1>1. \A i \in Idents : images[i] \in Document
  BY DEF TypeOK
<1>2. Busy => status.target \in Idents /\ status.system \in Systems
  BY DEF TypeOK, Busy, Idle, Dead, StatusStates
<1>3. \A i \in Idents :
        /\ Exists(images'[i]) => /\ Exists(images[i])
                                 /\ images'[i].system = images[i].system
                                 /\ HasImage(images[i]) => HasImage(images'[i])
        /\ images'[i].tag \subseteq images[i].tag
        /\ images'[i].tag # {} => images'[i].system = images[i].system
        /\ IsReady(images'[i]) => /\ IsReady(images[i])
                                  /\ images'[i].system = images[i].system
                                  /\ images'[i].id = images[i].id
  BY <1>1, AbsentFacts DEF Tame, Tamer, HasImage
<1>4. QED
  BY <1>2, <1>3 DEF StatusInv, Busy

-----------------------------------------------------------------------------
(* The steps of a handler.                                                 *)

HandlerTypes == handler \in [Handlers -> {Idle} \cup HandlerStates]

\* What every step of a handler but the insertion does.
HandlerGoal == /\ TypeOK' /\ HandlerInv' /\ Tame /\ UNCHANGED status

LEMMA HandlerBusy ==
  ASSUME TypeOK, NEW h \in Handlers, handler[h].pc # "idle"
  PROVE  handler[h] \in HandlerStates
BY DEF TypeOK, Idle

LEMMA HandlerGoto ==
  ASSUME TypeOK, HandlerInv, NEW h \in Handlers, handler[h].pc # "idle",
         NEW pc \in HandlerPC, Goto(h, pc),
         /\ pc \in {"findready", "findpull"} => handler[h].req.op = "pull"
         /\ pc = "findany" => handler[h].req.op = "import"
         /\ pc = "findstuck" => handler[h].req.op = "autoexpire"
         /\ pc = "remove" => handler[h].req.op \in {"pull", "import", "autoexpire"}
         /\ pc \in {"clean", "insert", "pending", "submit", "stamp"}
              => handler[h].req.op \in {"pull", "import"}
         /\ pc \in {"pending", "submit", "stamp", "resetexpire"}
              => handler[h].ident \in Idents
  PROVE  HandlerTypes' /\ HandlerInv'
<1>1. handler[h] \in HandlerStates
  BY HandlerBusy
<1>2. [handler[h] EXCEPT !.pc = pc] \in HandlerStates
  BY <1>1 DEF HandlerStates
<1>3. /\ handler \in [Handlers -> {Idle} \cup HandlerStates]
      /\ handler' = [handler EXCEPT ![h] = [handler[h] EXCEPT !.pc = pc]]
  BY DEF TypeOK, Goto
<1>4. HandlerTypes'
  BY <1>2, <1>3 DEF HandlerTypes
<1>5. \A k \in Handlers : k # h => handler'[k] = handler[k]
  BY <1>3
<1>6. handler'[h] = [handler[h] EXCEPT !.pc = pc]
  BY <1>3
<1>7. /\ handler'[h].pc = pc
      /\ handler'[h].req = handler[h].req
      /\ handler'[h].ident = handler[h].ident
  BY <1>6, <1>1 DEF HandlerStates
<1>8. QED
  BY <1>4, <1>5, <1>7 DEF HandlerInv

LEMMA HandlerReturn ==
  ASSUME TypeOK, HandlerInv, NEW h \in Handlers, Return(h)
  PROVE  HandlerTypes' /\ HandlerInv'
BY DEF TypeOK, HandlerTypes, HandlerInv, Return, Idle

\* A handler moves on and changes the rest of its local state.
LEMMA HandlerMove ==
  ASSUME TypeOK, HandlerInv, NEW h \in Handlers,
         NEW s \in HandlerStates, handler' = [handler EXCEPT ![h] = s],
         /\ s.pc \in {"findready", "findpull"} => s.req.op = "pull"
         /\ s.pc = "findany" => s.req.op = "import"
         /\ s.pc = "findstuck" => s.req.op = "autoexpire"
         /\ s.pc = "remove" => s.req.op \in {"pull", "import", "autoexpire"}
         /\ s.pc \in {"clean", "insert", "pending", "submit", "stamp"}
              => s.req.op \in {"pull", "import"}
         /\ s.pc \in {"pending", "submit", "stamp", "resetexpire"}
              => s.ident \in Idents
  PROVE  HandlerTypes' /\ HandlerInv'
BY DEF TypeOK, HandlerTypes, HandlerInv

\* The other variables of a step that touches only the collection, or
\* nothing.
LEMMA RestTyped ==
  ASSUME TypeOK, HandlerTypes', images' \in [Idents -> Document], ImagesChange
  PROVE  TypeOK'
BY DEF TypeOK, HandlerTypes, ImagesChange

LEMMA ReceiveStep ==
  ASSUME TypeOK, HandlerInv, NEW h \in Handlers, Receive(h)
  PROVE  HandlerGoal
<1>1. PICK r \in Requests :
        handler' = [handler EXCEPT ![h] =
          [ pc    |-> CASE r.op = "import" -> "findany"
                        [] r.op = "expire" -> "findtag"
                        [] OTHER           -> "states",
            req   |-> r, seen |-> Absent, todo |-> {}, ident |-> NoIdent ]]
  BY DEF Receive
<1> DEFINE s == [ pc |-> CASE r.op = "import" -> "findany"
                           [] r.op = "expire" -> "findtag"
                           [] OTHER           -> "states",
                  req |-> r, seen |-> Absent, todo |-> {}, ident |-> NoIdent ]
<1>2. s \in HandlerStates
  BY AbsentFacts DEF HandlerStates, HandlerPC
<1>3. s.pc \in {"findany", "findtag", "states"}
      /\ (s.pc = "findany" => s.req.op = "import")
  OBVIOUS
<1>4. HandlerTypes' /\ HandlerInv'
  <2> HIDE DEF s
  <2>1. handler' = [handler EXCEPT ![h] = s]
    BY <1>1 DEF s
  <2> QED
    BY <1>2, <1>3, <2>1, HandlerMove
<1>5. OnlyHandler
  BY DEF Receive
<1>6. QED
  BY <1>4, <1>5, TameUnchanged, RestTyped
  DEF HandlerGoal, OnlyHandler, ImagesChange

\* A step that leaves the collection and all but the handler alone.
LEMMA OnlyHandlerGoal ==
  ASSUME TypeOK, HandlerTypes', HandlerInv', OnlyHandler
  PROVE  HandlerGoal
BY TameUnchanged, RestTyped DEF HandlerGoal, OnlyHandler, ImagesChange

\* A step that tamely changes one document and the handler.
LEMMA SetGoal ==
  ASSUME TypeOK, HandlerTypes', HandlerInv', ImagesChange,
         NEW i \in Idents, NEW d, Tamer(d, images[i]), Set(i, d)
  PROVE  HandlerGoal
BY TameSet, RestTyped DEF HandlerGoal, ImagesChange

LEMMA UpdateStatesStep ==
  ASSUME TypeOK, HandlerInv, NEW h \in Handlers, UpdateStates(h)
  PROVE  HandlerGoal
<1>1. handler[h].pc # "idle" /\ ImagesChange
  BY DEF UpdateStates
<1>2. PICK gone \in SUBSET Idents :
        images' = [i \in Idents |-> IF i \in gone THEN Absent ELSE images[i]]
  BY DEF UpdateStates
<1>3. \A i \in Idents : images[i] \in Document
  BY DEF TypeOK
<1>4. Tame /\ images' \in [Idents -> Document]
  BY <1>2, <1>3, TamerSelf, AbsentFacts DEF Tame
<1>6. HandlerTypes' /\ HandlerInv'
  <2>1. CASE Return(h)
    BY <2>1, HandlerReturn
  <2>2. CASE Goto(h, "findready") /\ handler[h].req.op = "pull"
    BY <2>2, <1>1, HandlerGoto DEF HandlerPC
  <2>3. CASE Goto(h, "find")
    BY <2>3, <1>1, HandlerGoto DEF HandlerPC
  <2>4. CASE Goto(h, "findstuck") /\ handler[h].req.op = "autoexpire"
    BY <2>4, <1>1, HandlerGoto DEF HandlerPC
  <2>5. CASE Goto(h, "KeyError")
    BY <2>5, <1>1, HandlerGoto DEF HandlerPC
  <2>6. QED
    BY <2>1, <2>2, <2>3, <2>4, <2>5 DEF UpdateStates
<1>7. QED
  BY <1>1, <1>4, <1>6, RestTyped DEF HandlerGoal, ImagesChange
LEMMA RaiseStep ==
  ASSUME TypeOK, HandlerInv, NEW h \in Handlers,
         \/ Raise(h) \/ AutoExpired(h) \/ HandlerRaises(h)
  PROVE  HandlerGoal
BY HandlerReturn, OnlyHandlerGoal DEF Raise, AutoExpired, HandlerRaises

LEMMA FindReadyStep ==
  ASSUME TypeOK, HandlerInv, NEW h \in Handlers, FindReady(h)
  PROVE  HandlerGoal
<1>1. \A i \in Idents : images[i] \in Document
  BY DEF TypeOK
<1>2. PICK d \in Document :
        handler' = [handler EXCEPT ![h].seen = d, ![h].pc = "findpull"]
  BY <1>1, AbsentFacts DEF FindReady
<1> DEFINE s == [handler[h] EXCEPT !.seen = d, !.pc = "findpull"]
<1>3. handler[h] \in HandlerStates
  BY HandlerBusy DEF FindReady
<1>4. s \in HandlerStates /\ s.pc = "findpull" /\ s.req.op = "pull"
  BY <1>3 DEF HandlerStates, HandlerPC, FindReady, HandlerInv
<1>5. handler' = [handler EXCEPT ![h] = s]
  BY <1>2
<1> HIDE DEF s
<1>6. HandlerTypes' /\ HandlerInv'
  BY <1>4, <1>5, HandlerMove
<1>7. QED
  BY <1>6, OnlyHandlerGoal DEF FindReady

LEMMA FindPullStep ==
  ASSUME TypeOK, HandlerInv, NEW h \in Handlers, FindPull(h)
  PROVE  HandlerGoal
<1>1. /\ handler[h] \in HandlerStates
      /\ handler[h].pc # "idle" /\ handler[h].req.op = "pull"
  BY HandlerBusy DEF FindPull, HandlerInv
<1>2. HandlerTypes' /\ HandlerInv'
  <2>1. CASE Return(h)
    BY <2>1, HandlerReturn
  <2>2. CASE Goto(h, "KeyError")
    BY <2>2, <1>1, HandlerGoto DEF HandlerPC
  <2>3. CASE Goto(h, "TypeError")
    BY <2>3, <1>1, HandlerGoto DEF HandlerPC
  <2>4. CASE handler' = [handler EXCEPT ![h].pc = "clean", ![h].seen = Absent]
    <3> DEFINE s == [handler[h] EXCEPT !.pc = "clean", !.seen = Absent]
    <3>1. s \in HandlerStates /\ s.pc = "clean" /\ s.req.op = "pull"
      BY <1>1, AbsentFacts DEF HandlerStates, HandlerPC
    <3>2. handler' = [handler EXCEPT ![h] = s]
      BY <2>4
    <3> HIDE DEF s
    <3>3. QED
      BY <3>1, <3>2, HandlerMove
  <2>5. QED
    BY <2>1, <2>2, <2>3, <2>4 DEF FindPull
<1>3. QED
  BY <1>2, OnlyHandlerGoal DEF FindPull

LEMMA FindAnyStep ==
  ASSUME TypeOK, HandlerInv, NEW h \in Handlers, FindAny(h)
  PROVE  HandlerGoal
<1>1. handler[h].pc # "idle" /\ handler[h].req.op = "import"
  BY DEF FindAny, HandlerInv
<1>2. CASE Goto(h, "clean")
  BY <1>1, <1>2, HandlerGoto, OnlyHandlerGoal DEF FindAny, HandlerPC
<1>3. CASE Return(h)
  BY <1>3, HandlerReturn, OnlyHandlerGoal DEF FindAny
<1>4. QED
  BY <1>2, <1>3 DEF FindAny

Todo == Idents \X (ImageIds \cup {NoImage})

\* A step that collects what a loop will go through.
LEMMA CollectGoal ==
  ASSUME TypeOK, HandlerInv, NEW h \in Handlers, handler[h].pc # "idle",
         NEW pc \in {"remove", "doexpire"}, NEW todo \in SUBSET Todo,
         handler' = [handler EXCEPT ![h].pc = pc, ![h].todo = todo],
         pc = "remove" => handler[h].req.op \in {"pull", "import", "autoexpire"},
         OnlyHandler
  PROVE  HandlerGoal
<1> DEFINE s == [handler[h] EXCEPT !.pc = pc, !.todo = todo]
<1>1. handler[h] \in HandlerStates
  BY HandlerBusy
<1>2. /\ s \in HandlerStates /\ s.pc \in {"remove", "doexpire"}
      /\ s.pc = "remove" => s.req.op \in {"pull", "import", "autoexpire"}
  BY <1>1 DEF HandlerStates, HandlerPC, Todo
<1>3. handler' = [handler EXCEPT ![h] = s]
  OBVIOUS
<1> HIDE DEF s
<1>4. HandlerTypes' /\ HandlerInv'
  BY <1>2, <1>3, HandlerMove
<1>5. QED
  BY <1>4, OnlyHandlerGoal

LEMMA CollectStep ==
  ASSUME TypeOK, HandlerInv, NEW h \in Handlers,
         Clean(h) \/ FindStuck(h) \/ FindOld(h)
  PROVE  HandlerGoal
<1>1. \A i \in Idents : images[i].id \in ImageIds \cup {NoImage}
  BY DocumentCases DEF TypeOK
<1>2. CASE Clean(h)
  <2> DEFINE todo == {<<i, NoImage>> : i \in {j \in Idents :
               SameRequest(images[j], handler[h].req) /\ ~IsReady(images[j])}}
  <2>1. todo \in SUBSET Todo
    BY DEF Todo
  <2>2. /\ handler' = [handler EXCEPT ![h].pc = "remove", ![h].todo = todo]
        /\ handler[h].pc = "clean" /\ OnlyHandler
    BY <1>2 DEF Clean
  <2>3. handler[h].req.op \in {"pull", "import"}
    BY <2>2 DEF HandlerInv
  <2> HIDE DEF todo
  <2>4. QED
    BY <2>1, <2>2, <2>3, CollectGoal
<1>3. CASE FindStuck(h)
  <2> DEFINE todo == {<<i, NoImage>> : i \in {j \in Idents :
                        /\ Exists(images[j])
                        /\ images[j].system = handler[h].req.system
                        /\ ~IsReady(images[j])
                        /\ images[j].last_pull = "stale"}}
  <2>1. todo \in SUBSET Todo
    BY DEF Todo
  <2>2. /\ handler' = [handler EXCEPT ![h].pc = "remove", ![h].todo = todo]
        /\ handler[h].pc = "findstuck" /\ OnlyHandler
    BY <1>3 DEF FindStuck
  <2>3. handler[h].req.op = "autoexpire"
    BY <2>2 DEF HandlerInv
  <2> HIDE DEF todo
  <2>4. QED
    BY <2>1, <2>2, <2>3, CollectGoal
<1>4. CASE FindOld(h)
  <2> DEFINE todo == {<<i, images[i].id>> : i \in {j \in Idents :
                        /\ IsReady(images[j])
                        /\ images[j].system = handler[h].req.system
                        /\ images[j].expiration = "past"}}
  <2>1. todo \in SUBSET Todo
    BY <1>1 DEF Todo
  <2>2. /\ handler' = [handler EXCEPT ![h].pc = "doexpire", ![h].todo = todo]
        /\ handler[h].pc = "findold" /\ OnlyHandler
    BY <1>4 DEF FindOld
  <2> HIDE DEF todo
  <2>3. QED
    BY <2>1, <2>2, CollectGoal
<1>5. QED
  BY <1>2, <1>3, <1>4

LEMMA RemoveStep ==
  ASSUME TypeOK, HandlerInv, NEW h \in Handlers, Remove(h)
  PROVE  HandlerGoal
<1>1. handler[h] \in HandlerStates /\ handler[h].pc = "remove"
  BY HandlerBusy DEF Remove
<1>2. PICK v \in handler[h].todo :
        /\ Set(v[1], Absent)
        /\ handler' = [handler EXCEPT ![h].todo = @ \ {v}]
  BY DEF Remove
<1>3. v[1] \in Idents
  BY <1>1 DEF HandlerStates
<1> DEFINE s == [handler[h] EXCEPT !.todo = @ \ {v}]
<1>4. s \in HandlerStates /\ s.pc = "remove" /\ s.req = handler[h].req
  BY <1>1 DEF HandlerStates
<1>5. handler' = [handler EXCEPT ![h] = s]
  BY <1>2
<1>6. s.req.op \in {"pull", "import", "autoexpire"}
  BY <1>1, <1>4 DEF HandlerInv
<1> HIDE DEF s
<1>7. HandlerTypes' /\ HandlerInv'
  BY <1>4, <1>5, <1>6, HandlerMove
<1>8. Tamer(Absent, images[v[1]])
  BY AbsentFacts DEF Tamer
<1>9. QED
  BY <1>2, <1>3, <1>7, <1>8, SetGoal DEF Remove

LEMMA RemovedStep ==
  ASSUME TypeOK, HandlerInv, NEW h \in Handlers, Removed(h)
  PROVE  HandlerGoal
<1>1. /\ handler[h].pc # "idle"
      /\ handler[h].req.op \in {"pull", "import", "autoexpire"}
  BY DEF Removed, HandlerInv
<1>2. CASE Goto(h, "findold")
  BY <1>1, <1>2, HandlerGoto, OnlyHandlerGoal DEF Removed, HandlerPC
<1>3. CASE Goto(h, "insert") /\ handler[h].req.op # "autoexpire"
  BY <1>1, <1>3, HandlerGoto, OnlyHandlerGoal DEF Removed, HandlerPC
<1>4. QED
  BY <1>2, <1>3 DEF Removed

LEMMA MarkPendingStep ==
  ASSUME TypeOK, HandlerInv, NEW h \in Handlers, MarkPending(h)
  PROVE  HandlerGoal
<1>1. /\ handler[h].pc # "idle" /\ handler[h].ident \in Idents
      /\ handler[h].req.op \in {"pull", "import"}
  BY DEF MarkPending, HandlerInv
<1>2. HandlerTypes' /\ HandlerInv'
  BY <1>1, HandlerGoto DEF MarkPending, HandlerPC
<1>3. images[handler[h].ident] \in Document
  BY <1>1 DEF TypeOK
<1>4. Tamer(SetState(images[handler[h].ident], "PENDING"),
            images[handler[h].ident])
  BY <1>3, TamerState DEF Status, InFlight
<1>5. QED
  BY <1>1, <1>2, <1>4, SetGoal DEF MarkPending

LEMMA StampPullStep ==
  ASSUME TypeOK, HandlerInv, NEW h \in Handlers,
         StampPull(h) \/ ResetExpiry(h)
  PROVE  HandlerGoal
<1>1. handler[h].ident \in Idents
  BY DEF StampPull, ResetExpiry, HandlerInv
<1>2. HandlerTypes' /\ HandlerInv'
  BY HandlerReturn DEF StampPull, ResetExpiry
<1>3. images[handler[h].ident] \in Document
  BY <1>1 DEF TypeOK
<1>4. QED
  BY <1>1, <1>2, <1>3, TamerTimes, SetGoal DEF StampPull, ResetExpiry

LEMMA FindStep ==
  ASSUME TypeOK, HandlerInv, NEW h \in Handlers, Find(h)
  PROVE  HandlerGoal
<1>1. CASE Return(h)
  BY <1>1, HandlerReturn, OnlyHandlerGoal DEF Find
<1>2. CASE \E i \in Idents :
             handler' = [handler EXCEPT ![h].pc = "resetexpire",
                                        ![h].ident = i]
  <2>1. PICK i \in Idents :
          handler' = [handler EXCEPT ![h].pc = "resetexpire",
                                     ![h].ident = i]
    BY <1>2
  <2> DEFINE s == [handler[h] EXCEPT !.pc = "resetexpire", !.ident = i]
  <2>2. handler[h] \in HandlerStates
    BY HandlerBusy DEF Find
  <2>3. s \in HandlerStates /\ s.pc = "resetexpire" /\ s.ident \in Idents
    BY <2>2 DEF HandlerStates, HandlerPC
  <2>4. handler' = [handler EXCEPT ![h] = s]
    BY <2>1
  <2> HIDE DEF s
  <2>5. HandlerTypes' /\ HandlerInv'
    BY <2>3, <2>4, HandlerMove
  <2>6. QED
    BY <2>5, OnlyHandlerGoal DEF Find
<1>3. QED
  BY <1>1, <1>2 DEF Find

\* A step that hands the pool at most one task.
LEMMA PoolGoal ==
  ASSUME TypeOK, HandlerTypes', HandlerInv', pool' \in Seq(Tasks),
         UNCHANGED <<images, worker, queue, status>>
  PROVE  HandlerGoal
BY TameUnchanged DEF HandlerGoal, TypeOK, HandlerTypes

LEMMA ExpireTaskTyped ==
  ASSUME NEW i \in Idents, NEW system \in Systems,
         NEW id \in ImageIds \cup {NoImage}
  PROVE  ExpireTask(i, system, id) \in Tasks
BY DEF ExpireTask, Tasks, Access

LEMMA SubmitStep ==
  ASSUME TypeOK, HandlerInv, NEW h \in Handlers, Submit(h)
  PROVE  HandlerGoal
<1> DEFINE r    == handler[h].req
           task == [ op |-> r.op, ident |-> handler[h].ident,
                     system |-> r.system, id |-> NoImage,
                     acl |-> IF r.op = "import" THEN Null ELSE r.acl,
                     file |-> r.file ]
<1>1. /\ handler[h] \in HandlerStates
      /\ handler[h].pc # "idle" /\ handler[h].ident \in Idents
      /\ r.op \in {"pull", "import"}
  BY HandlerBusy DEF Submit, HandlerInv
<1>2. HandlerTypes' /\ HandlerInv'
  BY <1>1, HandlerGoto DEF Submit, HandlerPC
<1>3. task \in Tasks
  BY <1>1 DEF HandlerStates, Requests, Tasks, Access
<1>4. pool' = Append(pool, task) /\ UNCHANGED <<images, worker, queue, status>>
  BY DEF Submit
<1> HIDE DEF task
<1>5. pool' \in Seq(Tasks)
  BY <1>3, <1>4 DEF TypeOK
<1>6. QED
  BY <1>2, <1>4, <1>5, PoolGoal

LEMMA ExpireIdStep ==
  ASSUME TypeOK, HandlerInv, NEW h \in Handlers, ExpireId(h)
  PROVE  HandlerGoal
<1>1. PICK v \in handler[h].todo :
        /\ pool' = Append(pool, ExpireTask(v[1], handler[h].req.system, v[2]))
        /\ handler' = [handler EXCEPT ![h].todo = @ \ {v}]
  BY DEF ExpireId
<1>2. handler[h] \in HandlerStates /\ handler[h].pc = "doexpire"
  BY HandlerBusy DEF ExpireId
<1>3. /\ v[1] \in Idents /\ v[2] \in ImageIds \cup {NoImage}
      /\ handler[h].req.system \in Systems
  BY <1>2 DEF HandlerStates, Requests
<1> DEFINE s == [handler[h] EXCEPT !.todo = @ \ {v}]
<1>4. s \in HandlerStates /\ s.pc = "doexpire"
  BY <1>2 DEF HandlerStates
<1>5. handler' = [handler EXCEPT ![h] = s]
  BY <1>1
<1> HIDE DEF s
<1>6. HandlerTypes' /\ HandlerInv'
  BY <1>4, <1>5, HandlerMove
<1>7. pool' \in Seq(Tasks)
  BY <1>1, <1>3, ExpireTaskTyped DEF TypeOK
<1>8. QED
  BY <1>6, <1>7, PoolGoal DEF ExpireId

LEMMA ExpireStep ==
  ASSUME TypeOK, HandlerInv, NEW h \in Handlers, Expire(h)
  PROVE  HandlerGoal
<1>1. \A i \in Idents : images[i].id \in ImageIds \cup {NoImage}
  BY DocumentCases DEF TypeOK
<1>2. handler[h] \in HandlerStates
  BY HandlerBusy DEF Expire
<1>3. handler[h].req.system \in Systems
  BY <1>2 DEF HandlerStates, Requests
<1>4. pool' \in Seq(Tasks)
  <2>1. CASE UNCHANGED pool
    BY <2>1 DEF TypeOK
  <2>2. ASSUME NEW i \in Idents,
               pool' = Append(pool, ExpireTask(i, handler[h].req.system,
                                               images[i].id))
        PROVE  pool' \in Seq(Tasks)
    <3>1. ExpireTask(i, handler[h].req.system, images[i].id) \in Tasks
      BY <1>1, <1>3, ExpireTaskTyped
    <3>2. QED
      BY <2>2, <3>1 DEF TypeOK
  <2>3. QED
    BY <2>1, <2>2 DEF Expire
<1>5. HandlerTypes' /\ HandlerInv'
  BY HandlerReturn DEF Expire
<1>6. QED
  BY <1>4, <1>5, PoolGoal DEF Expire

\* Every step of a handler that is serving a request, but the insertion.
LEMMA HandlerStepGoal ==
  ASSUME TypeOK, HandlerInv, NEW h \in Handlers,
         Receive(h) \/ HandlerStep(h) \/ HandlerRaises(h), ~Insert(h)
  PROVE  HandlerGoal
BY ReceiveStep, RaiseStep, UpdateStatesStep, FindReadyStep, FindPullStep,
   FindAnyStep, CollectStep, RemoveStep, RemovedStep, MarkPendingStep,
   StampPullStep, FindStep, SubmitStep, ExpireIdStep, ExpireStep
DEF HandlerStep

\* The insertion: a new document without tags, at an object id that the
\* status process does not refer to.
LEMMA InsertStep ==
  ASSUME Inv, NEW h \in Handlers, Insert(h)
  PROVE  Inv'
<1>1. PICK i \in Idents :
        /\ Unused(i)
        /\ Set(i, NewRecord(handler[h].req))
        /\ handler' = [handler EXCEPT ![h].pc = "pending", ![h].ident = i]
  BY DEF Insert
<1> DEFINE e == NewRecord(handler[h].req)
           s == [handler[h] EXCEPT !.pc = "pending", !.ident = i]
<1>2. /\ handler[h] \in HandlerStates
      /\ handler[h].req.op \in {"pull", "import"}
  BY HandlerBusy DEF Insert, HandlerInv, Inv
<1>3. e \in Document /\ e.tag = {} /\ ~IsReady(e)
  BY <1>2, NewRecordFacts DEF HandlerStates
<1>4. /\ s \in HandlerStates /\ s.pc = "pending" /\ s.ident \in Idents
      /\ s.req.op \in {"pull", "import"}
  BY <1>2 DEF HandlerStates, HandlerPC
<1>5. handler' = [handler EXCEPT ![h] = s]
  BY <1>1
<1> HIDE DEF s, e
<1>6. HandlerTypes' /\ HandlerInv'
  BY <1>4, <1>5, HandlerMove DEF Inv
<1>7. /\ images \in [Idents -> Document]
      /\ images' = [images EXCEPT ![i] = e]
  BY <1>1 DEF e, Set, Inv, TypeOK
<1>8. /\ images' \in [Idents -> Document]
      /\ \A j \in Idents : images'[j] = IF j = i THEN e ELSE images[j]
  BY <1>3, <1>7
<1>9. ImagesChange
  BY DEF Insert
<1>10. TypeOK'
  BY <1>6, <1>8, <1>9, RestTyped DEF Inv
<1>11. DocInv'
  BY <1>3, <1>8
  DEF Inv, DocInv, TagUnique, ReadyUnique, TaggedHasImage, ReadyHasImage
<1>12. StatusInv'
  <2>1. UNCHANGED status
    BY <1>9 DEF ImagesChange
  <2>2. Busy => status.target # i
    BY <1>1 DEF Unused, Busy
  <2>3. Busy => status.target \in Idents
    BY DEF Inv, TypeOK, Busy, Idle, Dead, StatusStates
  <2>4. QED
    BY <1>3, <1>8, <2>1, <2>2, <2>3 DEF Inv, StatusInv, Busy
<1>13. QED
  BY <1>6, <1>10, <1>11, <1>12 DEF Inv

-----------------------------------------------------------------------------
(* The steps of a worker thread.                                           *)

LEMMA PostTyped ==
  ASSUME TypeOK, NEW t \in Threads, worker[t].pc # "idle",
         NEW state \in Status, NEW response \in Responses \cup {NoResponse},
         state = "READY" <=> response # NoResponse, Post(t, state, response)
  PROVE  queue' \in Seq(Messages)
<1>1. worker[t].task.ident \in Idents
  BY DEF TypeOK, Idle, WorkerStates, Tasks
<1>2. [ident |-> worker[t].task.ident, state |-> state, response |-> response]
        \in Messages
  BY <1>1 DEF Messages
<1>3. QED
  BY <1>2 DEF Post, TypeOK

LEMMA WorkerMoves ==
  ASSUME TypeOK, NEW t \in Threads, worker[t].pc # "idle",
         WorkerDone(t) \/ \E pc \in WorkerPC : WorkerTo(t, pc)
  PROVE  worker' \in [Threads -> {Idle} \cup WorkerStates]
<1>1. worker[t] \in WorkerStates
  BY DEF TypeOK, Idle
<1>2. CASE WorkerDone(t)
  BY <1>2 DEF TypeOK, WorkerDone
<1>3. ASSUME NEW pc \in WorkerPC, WorkerTo(t, pc)
      PROVE  worker' \in [Threads -> {Idle} \cup WorkerStates]
  <2>1. [worker[t] EXCEPT !.pc = pc] \in WorkerStates
    BY <1>1 DEF WorkerStates
  <2>2. QED
    BY <1>3, <2>1 DEF TypeOK, WorkerTo
<1>4. QED
  BY <1>2, <1>3

\* A worker thread touches neither the collection nor the processes.
LEMMA WorkerStepGoal ==
  ASSUME TypeOK, NEW t \in Threads, WorkerStep(t)
  PROVE  TypeOK' /\ UNCHANGED <<images, handler, status>>
<1>1. CASE Take(t)
  <2>1. Head(pool) \in Tasks /\ Tail(pool) \in Seq(Tasks)
    BY <1>1 DEF Take, TypeOK
  <2>2. [pc |-> "start", task |-> Head(pool)] \in WorkerStates
    BY <2>1 DEF WorkerStates, WorkerPC
  <2>3. QED
    BY <1>1, <2>1, <2>2 DEF Take, TypeOK
<1>2. CASE Begin(t)
  <2>1. worker[t].task.op \in {"pull", "import", "expire"}
    BY <1>2 DEF Begin, TypeOK, Idle, WorkerStates, Tasks
  <2>2. PICK state \in Status \ {"READY"} : Post(t, state, NoResponse)
    BY <1>2, <2>1 DEF Begin, Status, InFlight, Working
  <2>3. queue' \in Seq(Messages)
    BY <1>2, <2>2, PostTyped DEF Begin
  <2>4. worker' \in [Threads -> {Idle} \cup WorkerStates]
    BY <1>2, WorkerMoves DEF Begin, WorkerPC
  <2>5. QED
    BY <1>2, <2>3, <2>4 DEF Begin, OnlyWorker, TypeOK
<1>3. CASE Transfer(t)
  <2>1. queue' \in Seq(Messages)
    BY <1>3, PostTyped DEF Transfer, Status, InFlight, Working
  <2>2. worker' \in [Threads -> {Idle} \cup WorkerStates]
    BY <1>3, WorkerMoves DEF Transfer, WorkerPC
  <2>3. QED
    BY <1>3, <2>1, <2>2 DEF Transfer, OnlyWorker, TypeOK
<1>4. CASE Complete(t)
  <2>1. PICK resp \in Responses : CompleteWith(t, resp)
    BY <1>4 DEF Complete
  <2>2. resp # NoResponse
    BY ImageDBAssumption DEF Responses, NoResponse, ImageIds
  <2>3. queue' \in Seq(Messages)
    BY <2>1, <2>2, PostTyped DEF CompleteWith, Status
  <2>4. worker' \in [Threads -> {Idle} \cup WorkerStates]
    BY <2>1, WorkerMoves DEF CompleteWith
  <2>5. QED
    BY <2>1, <2>3, <2>4 DEF CompleteWith, OnlyWorker, TypeOK
<1>5. CASE Expired(t)
  <2>1. queue' \in Seq(Messages)
    BY <1>5, PostTyped DEF Expired, Status
  <2>2. worker' \in [Threads -> {Idle} \cup WorkerStates]
    BY <1>5, WorkerMoves DEF Expired
  <2>3. QED
    BY <1>5, <2>1, <2>2 DEF Expired, OnlyWorker, TypeOK
<1>6. CASE Fail(t)
  <2>1. queue' \in Seq(Messages)
    BY <1>6, PostTyped DEF Fail, Status
  <2>2. worker' \in [Threads -> {Idle} \cup WorkerStates]
    BY <1>6, WorkerMoves DEF Fail, WorkerPC
  <2>3. QED
    BY <1>6, <2>1, <2>2 DEF Fail, OnlyWorker, TypeOK
<1>7. CASE FailAgain(t)
  <2>1. queue' \in Seq(Messages)
    BY <1>7, PostTyped DEF FailAgain, Status
  <2>2. worker' \in [Threads -> {Idle} \cup WorkerStates]
    BY <1>7, WorkerMoves DEF FailAgain
  <2>3. QED
    BY <1>7, <2>1, <2>2 DEF FailAgain, OnlyWorker, TypeOK
<1>8. QED
  BY <1>1, <1>2, <1>3, <1>4, <1>5, <1>6, <1>7 DEF WorkerStep

-----------------------------------------------------------------------------
(* The steps of the status process.                                        *)

LEMMA BusyFacts ==
  ASSUME TypeOK, Busy
  PROVE  /\ status \in StatusStates
         /\ status.ident \in Idents /\ status.target \in Idents
         /\ status.system \in Systems /\ status.tag \in Tags
         /\ status.response \in Responses
         /\ images[status.ident] \in Document
         /\ images[status.target] \in Document
BY DEF TypeOK, Busy, Idle, Dead, StatusStates

LEMMA StatusMove ==
  ASSUME TypeOK, Busy, NEW pc \in StatusPC, StatusTo(pc)
  PROVE  /\ status' \in StatusStates
         /\ Busy' /\ status'.pc = pc
         /\ status'.ident = status.ident /\ status'.target = status.target
         /\ status'.system = status.system /\ status'.tag = status.tag
         /\ status'.response = status.response
BY BusyFacts DEF StatusTo, StatusStates, StatusPC, Busy

LEMMA MessageFacts ==
  ASSUME TypeOK, queue # <<>>
  PROVE  Head(queue) \in Messages /\ Tail(queue) \in Seq(Messages)
BY DEF TypeOK

\* What is left to show when a step of the status process is over.
LEMMA StatusStepInv ==
  ASSUME Inv, OnlyStatus, images' \in [Idents -> Document],
         queue' \in Seq(Messages), status' \in {Idle, Dead} \cup StatusStates,
         DocInv', StatusInv'
  PROVE  Inv'
BY DEF Inv, TypeOK, OnlyStatus, HandlerInv

\* The status process moves on over a step that is tame for every document.
LEMMA TameMove ==
  ASSUME Inv, Busy, Tame, NEW pc \in StatusPC \ {"ready", "retag"},
         StatusTo(pc),
         pc \in {"touch", "drop", "untag"} => status.pc \in {"touch", "drop"}
  PROVE  StatusInv'
<1>1. \A i \in Idents :
        Exists(images'[i]) => /\ Exists(images[i])
                              /\ images'[i].system = images[i].system
                              /\ HasImage(images[i]) => HasImage(images'[i])
  BY AbsentFacts DEF Tame, Tamer, HasImage
<1>2. /\ status'.pc = pc /\ status'.target = status.target
      /\ status'.system = status.system
  BY StatusMove DEF Inv
<1>3. status.target \in Idents
  BY BusyFacts DEF Inv
<1>4. QED
  BY <1>1, <1>2, <1>3 DEF StatusInv, Busy, Inv

LEMMA IdleKeepsStatusInv ==
  ASSUME status' \in {Idle, Dead}
  PROVE  StatusInv'
BY DEF StatusInv, Busy, Idle, Dead

LEMMA UpdateMongoStateStep ==
  ASSUME Inv, UpdateMongoState
  PROVE  Inv'
<1> DEFINE m == Head(queue)
<1>1. m \in Messages /\ Tail(queue) \in Seq(Messages)
  BY MessageFacts DEF UpdateMongoState, Inv
<1>2. m.ident \in Idents /\ m.state \in Status /\ m.state # "READY"
  BY <1>1 DEF Messages, UpdateMongoState
<1>3. images[m.ident] \in Document
  BY <1>2 DEF Inv, TypeOK
<1>4. Tamer(SetBeat(images[m.ident], m.state), images[m.ident])
  BY <1>2, <1>3, TamerState
<1>5. Tame /\ images' \in [Idents -> Document]
  BY <1>2, <1>4, TameSet DEF UpdateMongoState, Inv
<1>6. DocInv' /\ StatusInv'
  BY <1>5, TameKeepsDocInv, TameKeepsStatusInv DEF UpdateMongoState, Inv
<1>7. QED
  BY <1>1, <1>5, <1>6, StatusStepInv DEF UpdateMongoState, Inv, TypeOK

LEMMA MissingPullStep ==
  ASSUME Inv, MissingPull
  PROVE  Inv'
<1>1. Tail(queue) \in Seq(Messages)
  BY MessageFacts DEF MissingPull, Inv
<1>2. DocInv' /\ StatusInv' /\ images' \in [Idents -> Document]
  BY TameUnchanged, TameKeepsDocInv, TameKeepsStatusInv DEF MissingPull, Inv
<1>3. QED
  BY <1>1, <1>2, StatusStepInv DEF MissingPull, Inv, TypeOK

LEMMA BeginReadyStep ==
  ASSUME Inv, BeginReady
  PROVE  Inv'
<1> DEFINE m == Head(queue)
           i == m.ident
<1>1. /\ m \in Messages /\ Tail(queue) \in Seq(Messages)
      /\ m.state = "READY" /\ Exists(images[i])
      /\ queue' = Tail(queue) /\ UNCHANGED images /\ OnlyStatus
  BY MessageFacts DEF BeginReady, Inv
<1>2. i \in Idents /\ m.response \in Responses
  BY <1>1 DEF Messages
<1>3. images[i] \in Record
  BY <1>1, <1>2, DocumentCases DEF Inv, TypeOK
<1>4. images[i].system \in Systems /\ images[i].pulltag \in Tags
  BY <1>3 DEF Record
<1>5. DocInv' /\ images' \in [Idents -> Document]
  BY <1>1, TameUnchanged, TameKeepsDocInv DEF Inv
<1>6. PICK target \in Idents, pc \in {"ready", "untag", "touch"} :
        /\ status' = [ pc |-> pc, ident |-> i, target |-> target,
                       system |-> images[i].system, tag |-> images[i].pulltag,
                       response |-> m.response, acls |-> pc = "untag" ]
        /\ \/ pc = "ready" /\ target = i /\ SameImage(i, m.response) = {}
           \/ pc # "ready" /\ target \in SameImage(i, m.response)
  BY <1>2 DEF BeginReady, SameImage
<1>7. status' \in StatusStates
  BY <1>2, <1>4, <1>6 DEF StatusStates, StatusPC
<1>8. images[target].system = images[i].system
  BY <1>6 DEF SameImage
<1>9. pc = "ready" =>
        \A j \in Idents : IsReady(images[j]) /\ images[j].id = m.response.id
                            => images[j].system # images[i].system
  BY <1>6 DEF SameImage
<1>10. pc # "ready" => HasImage(images[target])
  BY <1>6 DEF SameImage, Inv, DocInv, ReadyHasImage
<1>11. StatusInv'
  BY <1>1, <1>6, <1>8, <1>9, <1>10 DEF StatusInv, Busy
<1>12. QED
  BY <1>1, <1>5, <1>7, <1>11, StatusStepInv

LEMMA SetReadyStep ==
  ASSUME Inv, SetReady
  PROVE  Inv'
<1> DEFINE i == status.ident
           e == MakeReady(images[i], status.response)
<1>1. Busy /\ status.target = i
  BY DEF SetReady, Busy, Inv, StatusInv
<1>2. /\ i \in Idents /\ images[i] \in Document
      /\ status.response \in Responses
  BY <1>1, BusyFacts DEF Inv
<1>3. /\ e \in Document
      /\ Exists(e) <=> Exists(images[i])
      /\ e.tag = images[i].tag /\ e.system = images[i].system
      /\ Exists(e) => e.id = status.response.id /\ HasImage(e)
  BY <1>2, MakeReadyFacts
<1> HIDE DEF e
<1>4. /\ images' = [images EXCEPT ![i] = e]
      /\ images \in [Idents -> Document]
  BY DEF SetReady, Set, e, Inv, TypeOK
<1>5. /\ images' \in [Idents -> Document]
      /\ \A j \in Idents : images'[j] = IF j = i THEN e ELSE images[j]
  BY <1>3, <1>4
<1>6. IsReady(e) => Exists(e)
  BY DEF IsReady, Exists
<1>7. e.tag # {} => Exists(e)
  BY <1>3, AbsentFacts, DocumentCases
<1>8. TagUnique'
  BY <1>3, <1>5 DEF Inv, DocInv, TagUnique
<1>9. ReadyUnique'
  <2>1. IsReady(e) => e.id = status.response.id /\ e.system = status.system
    BY <1>1, <1>3, <1>6 DEF Inv, StatusInv
  <2>2. \A j \in Idents : IsReady(images[j])
                            /\ images[j].id = status.response.id
                          => images[j].system # status.system
    BY DEF SetReady, Inv, StatusInv
  <2>3. QED
    BY <1>5, <2>1, <2>2 DEF Inv, DocInv, ReadyUnique
<1>10. TaggedHasImage' /\ ReadyHasImage'
  BY <1>3, <1>5, <1>6, <1>7
  DEF Inv, DocInv, TaggedHasImage, ReadyHasImage, HasImage
<1>11. /\ status' \in StatusStates
       /\ status'.pc = "untag" /\ status'.target = i
       /\ status'.system = status.system
  BY <1>1, StatusMove DEF SetReady, StatusPC, Inv
<1>12. StatusInv'
  BY <1>1, <1>2, <1>3, <1>5, <1>11 DEF StatusInv, Busy, Inv
<1>13. QED
  BY <1>5, <1>8, <1>9, <1>10, <1>11, <1>12, StatusStepInv
  DEF SetReady, DocInv, Inv, TypeOK

LEMMA TouchTargetStep ==
  ASSUME Inv, TouchTarget
  PROVE  Inv'
<1>1. Busy
  BY DEF TouchTarget, Busy
<1>2. Tame /\ images' \in [Idents -> Document]
  BY <1>1, BusyFacts, TamerTimes, TameSet DEF TouchTarget, Inv
<1>3. DocInv'
  BY <1>2, TameKeepsDocInv DEF Inv
<1>4. StatusInv' /\ status' \in StatusStates
  BY <1>1, <1>2, TameMove, StatusMove DEF TouchTarget, StatusPC, Inv
<1>5. QED
  BY <1>2, <1>3, <1>4, StatusStepInv DEF TouchTarget, Inv, TypeOK

LEMMA DropDuplicateStep ==
  ASSUME Inv, DropDuplicate
  PROVE  Inv'
<1>1. Busy
  BY DEF DropDuplicate, Busy
<1>2. Tame /\ images' \in [Idents -> Document]
  BY <1>1, BusyFacts, TamerSelf, TameSet DEF DropDuplicate, Inv
<1>3. DocInv'
  BY <1>2, TameKeepsDocInv DEF Inv
<1>4. StatusInv' /\ status' \in StatusStates
  BY <1>1, <1>2, TameMove, StatusMove DEF DropDuplicate, StatusPC, Inv
<1>5. QED
  BY <1>2, <1>3, <1>4, StatusStepInv DEF DropDuplicate, Inv, TypeOK

\* After the untagging no document of the system carries the tag.
LEMMA UntagStep ==
  ASSUME Inv, Untag
  PROVE  Inv'
<1>1. Busy
  BY DEF Untag, Busy
<1>2. status.target \in Idents /\ status.system \in Systems /\ status.tag \in Tags
  BY <1>1, BusyFacts DEF Inv
<1>3. \A i \in Idents : images[i] \in Document
  BY DEF Inv, TypeOK
<1>4. \A i \in Idents :
        images'[i] = RemoveTag(images[i], status.system, status.tag)
  BY DEF Untag
<1>5. \A i \in Idents :
        /\ Tamer(images'[i], images[i])
        /\ images'[i].system = status.system => status.tag \notin images'[i].tag
  BY <1>2, <1>3, <1>4, TamerUntag
<1>6. Tame
  BY <1>5 DEF Tame
<1>7. images' \in [Idents -> Document]
  BY <1>4, <1>5 DEF Untag, Tamer
<1>8. DocInv'
  BY <1>6, TameKeepsDocInv DEF Inv
<1>9. /\ status' \in StatusStates
      /\ status'.pc = "retag" /\ status'.target = status.target
      /\ status'.system = status.system /\ status'.tag = status.tag
  BY <1>1, StatusMove DEF Untag, StatusPC, Inv
<1>10. \A i \in Idents :
         Exists(images'[i]) => /\ Exists(images[i])
                               /\ images'[i].system = images[i].system
                               /\ HasImage(images[i]) => HasImage(images'[i])
  BY <1>5, AbsentFacts DEF Tamer, HasImage
<1>11. StatusInv'
  BY <1>2, <1>5, <1>9, <1>10 DEF StatusInv, Busy, Inv, Untag
<1>12. QED
  BY <1>7, <1>8, <1>9, <1>11, StatusStepInv DEF Untag, Inv, TypeOK

\* So that the document that gets it is the only one.
LEMMA RetagStep ==
  ASSUME Inv, Retag
  PROVE  Inv'
<1> DEFINE i == status.target
           e == AddToSet(images[i], status.tag)
<1>1. Busy
  BY DEF Retag, Busy
<1>2. /\ i \in Idents /\ images[i] \in Document
      /\ status.system \in Systems /\ status.tag \in Tags
  BY <1>1, BusyFacts DEF Inv
<1>3. /\ e \in Document
      /\ Exists(e) <=> Exists(images[i])
      /\ e.system = images[i].system /\ e.id = images[i].id
      /\ e.last_pull = images[i].last_pull
      /\ IsReady(e) <=> IsReady(images[i])
      /\ e.tag \subseteq images[i].tag \cup {status.tag}
      /\ ~Exists(images[i]) => e = images[i]
  BY <1>2, AddToSetFacts
<1> HIDE DEF e
<1>4. /\ images' = [images EXCEPT ![i] = e]
      /\ images \in [Idents -> Document]
  BY DEF Retag, Set, e, Inv, TypeOK
<1>5. /\ images' \in [Idents -> Document]
      /\ \A j \in Idents : images'[j] = IF j = i THEN e ELSE images[j]
  BY <1>3, <1>4
<1>6. /\ Exists(images[i]) => images[i].system = status.system
                              /\ HasImage(images[i])
      /\ \A j \in Idents : images[j].system = status.system
                             => status.tag \notin images[j].tag
  BY <1>1 DEF Retag, Inv, StatusInv
<1>7. TagUnique'
  BY <1>3, <1>5, <1>6 DEF Inv, DocInv, TagUnique
<1>8. ReadyUnique'
  BY <1>3, <1>5 DEF Inv, DocInv, ReadyUnique
<1>9. TaggedHasImage' /\ ReadyHasImage'
  BY <1>3, <1>5, <1>6
  DEF Inv, DocInv, TaggedHasImage, ReadyHasImage, HasImage
<1>10. CASE status' = Idle
  BY <1>5, <1>7, <1>8, <1>9, <1>10, IdleKeepsStatusInv, StatusStepInv
  DEF Retag, DocInv, Inv, TypeOK
<1>11. CASE StatusTo("acls")
  <2>1. /\ status' \in StatusStates
        /\ status'.pc = "acls" /\ status'.target = i
        /\ status'.system = status.system
    BY <1>1, <1>11, StatusMove DEF StatusPC, Inv
  <2>2. StatusInv'
    BY <1>2, <1>3, <1>5, <1>6, <2>1 DEF StatusInv, Busy, Inv
  <2>3. QED
    BY <1>5, <1>7, <1>8, <1>9, <2>1, <2>2, StatusStepInv
    DEF Retag, DocInv, Inv, TypeOK
<1>12. QED
  BY <1>10, <1>11 DEF Retag

LEMMA UpdateAclsStep ==
  ASSUME Inv, UpdateAcls
  PROVE  Inv'
<1>1. Busy
  BY DEF UpdateAcls, Busy
<1>2. status.response.acl \in Access
  BY <1>1, BusyFacts DEF Responses, Inv
<1>3. Tame /\ images' \in [Idents -> Document]
  BY <1>1, <1>2, BusyFacts, TamerAccess, TameSet DEF UpdateAcls, Inv
<1>4. DocInv'
  BY <1>3, TameKeepsDocInv DEF Inv
<1>5. StatusInv' /\ status' \in StatusStates
  BY <1>1, <1>3, TameMove, StatusMove DEF UpdateAcls, StatusPC, Inv
<1>6. QED
  BY <1>3, <1>4, <1>5, StatusStepInv DEF UpdateAcls, Inv, TypeOK

LEMMA DropAclPullStep ==
  ASSUME Inv, DropAclPull
  PROVE  Inv'
<1>1. Busy
  BY DEF DropAclPull, Busy
<1>2. Tame /\ images' \in [Idents -> Document]
  BY <1>1, BusyFacts, TamerSelf, TameSet DEF DropAclPull, Inv
<1>3. QED
  BY <1>2, TameKeepsDocInv, IdleKeepsStatusInv, StatusStepInv
  DEF DropAclPull, Inv, TypeOK

-----------------------------------------------------------------------------
(* The clock, faults and restarts.                                         *)

LEMMA AgeStep ==
  ASSUME Inv, NEW i \in Idents, Age(i)
  PROVE  Inv'
<1>1. images[i] \in Document /\ Exists(images[i])
  BY DEF Age, Inv, TypeOK
<1>2. images[i] \in Record
  BY <1>1, DocumentCases
<1>3. PICK d \in Record : Set(i, d) /\ Tamer(d, images[i])
  <2>1. \A x \in PullAge \ {"none"} :
          /\ [images[i] EXCEPT !.last_pull = x] \in Record
          /\ Tamer([images[i] EXCEPT !.last_pull = x], images[i])
    BY <1>1, <1>2 DEF Tamer, Record, Document, PullAge, IsReady
  <2>2. \A x \in BeatAge :
          /\ [images[i] EXCEPT !.last_heartbeat = x] \in Record
          /\ Tamer([images[i] EXCEPT !.last_heartbeat = x], images[i])
    BY <1>1, <1>2 DEF Tamer, Record, Document, BeatAge, IsReady
  <2>3. \A x \in ExpiryAge :
          /\ [images[i] EXCEPT !.expiration = x] \in Record
          /\ Tamer([images[i] EXCEPT !.expiration = x], images[i])
    BY <1>1, <1>2 DEF Tamer, Record, Document, ExpiryAge, IsReady
  <2>4. QED
    BY <2>1, <2>2, <2>3 DEF Age, PullAge, BeatAge, ExpiryAge
<1>4. Tame /\ images' \in [Idents -> Document]
  BY <1>3, TameSet DEF Inv
<1>5. UNCHANGED <<handler, pool, worker, queue, status>>
  BY DEF Age
<1>6. DocInv' /\ StatusInv'
  BY <1>4, <1>5, TameKeepsDocInv, TameKeepsStatusInv DEF Inv
<1>7. QED
  BY <1>4, <1>5, <1>6 DEF Inv, TypeOK, HandlerInv

LEMMA StatusRaisesStep ==
  ASSUME Inv, StatusRaises
  PROVE  Inv'
<1>1. queue' \in Seq(Messages)
  BY MessageFacts DEF StatusRaises, Inv, TypeOK
<1>2. StatusInv'
  BY IdleKeepsStatusInv DEF StatusRaises
<1>3. DocInv' /\ images' \in [Idents -> Document]
  BY TameUnchanged, TameKeepsDocInv DEF StatusRaises, Inv
<1>4. QED
  BY <1>1, <1>2, <1>3, StatusStepInv DEF StatusRaises, OnlyStatus, Inv

LEMMA RestartStep ==
  ASSUME Inv, Restart
  PROVE  Inv'
<1>1. \A i \in Idents : images[i] \in Document
  BY DEF Inv, TypeOK
<1>2. Tame /\ images' \in [Idents -> Document]
  BY <1>1, TamerSelf, AbsentFacts DEF Restart, Tame
<1>3. DocInv' /\ StatusInv'
  BY <1>2, TameKeepsDocInv, IdleKeepsStatusInv DEF Restart, Inv
<1>4. HandlerInv'
  BY DEF Restart, HandlerInv, Idle
<1>5. QED
  BY <1>2, <1>3, <1>4 DEF Restart, Inv, TypeOK

-----------------------------------------------------------------------------
(* The theorems.                                                           *)

LEMMA InitInv == Init => Inv
BY AbsentFacts
DEF Init, Inv, TypeOK, HandlerInv, StatusInv, Busy, DocInv, TagUnique,
    ReadyUnique, TaggedHasImage, ReadyHasImage, Idle, Dead

LEMMA NextInv ==
  ASSUME Inv, [Next]_vars
  PROVE  Inv'
<1>1. ASSUME NEW h \in Handlers,
             Receive(h) \/ HandlerStep(h) \/ HandlerRaises(h)
      PROVE  Inv'
  <2>1. CASE Insert(h)
    BY <2>1, InsertStep
  <2>2. CASE ~Insert(h)
    <3>1. HandlerGoal
      BY <1>1, <2>2, HandlerStepGoal DEF Inv
    <3>2. DocInv' /\ StatusInv'
      BY <3>1, TameKeepsDocInv, TameKeepsStatusInv DEF HandlerGoal, Inv
    <3>3. QED
      BY <3>1, <3>2 DEF HandlerGoal, Inv
  <2>3. QED
    BY <2>1, <2>2
<1>2. ASSUME NEW t \in Threads, WorkerStep(t)
      PROVE  Inv'
  <2>1. TypeOK' /\ UNCHANGED <<images, handler, status>>
    BY <1>2, WorkerStepGoal DEF Inv
  <2>2. DocInv' /\ StatusInv'
    BY <2>1, TameUnchanged, TameKeepsDocInv, TameKeepsStatusInv DEF Inv
  <2>3. QED
    BY <2>1, <2>2 DEF Inv, HandlerInv
<1>3. CASE StatusStep
  BY <1>3, UpdateMongoStateStep, MissingPullStep, BeginReadyStep, SetReadyStep,
     TouchTargetStep, DropDuplicateStep, UntagStep, RetagStep, UpdateAclsStep,
     DropAclPullStep
  DEF StatusStep
<1>4. CASE StatusRaises
  BY <1>4, StatusRaisesStep
<1>5. CASE \E i \in Idents : Age(i)
  BY <1>5, AgeStep
<1>6. CASE Restart
  BY <1>6, RestartStep
<1>7. CASE UNCHANGED vars
  <2>1. DocInv' /\ StatusInv'
    BY <1>7, TameUnchanged, TameKeepsDocInv, TameKeepsStatusInv DEF Inv, vars
  <2>2. QED
    BY <1>7, <2>1 DEF Inv, TypeOK, HandlerInv, vars
<1>8. QED
  BY <1>1, <1>2, <1>3, <1>4, <1>5, <1>6, <1>7 DEF Next, Manage

\* The invariant is inductive, whatever the faults and the clock do.
THEOREM Invariance == Spec => []Inv
<1>1. Init => Inv
  BY InitInv
<1>2. Inv /\ [Next]_vars => Inv'
  BY NextInv
<1>3. QED
  BY <1>1, <1>2, PTL DEF Spec

\* The documents, the tasks and the messages always have the keys and values
\* that the handlers, the threads and the status process read from them.
THEOREM TypeCorrect == Spec => []TypeOK
BY Invariance, PTL DEF Inv

\* add_tag: at no moment, not even between its two updates or after a restart
\* between them, does a tag name two documents of a system.
THEOREM TagsAreUnique == Spec => []TagUnique
BY Invariance, PTL DEF Inv, DocInv

\* complete_pull and update_acls: two pulls that end with the same image
\* never leave a system with two READY documents of it.
THEOREM ReadyImagesAreUnique == Spec => []ReadyUnique
BY Invariance, PTL DEF Inv, DocInv

\* pull and expire: a document found by its tag has the id and the last_pull
\* they read without looking whether the keys are there.
THEOREM TaggedDocumentsHaveImages == Spec => []TaggedHasImage
BY Invariance, PTL DEF Inv, DocInv
=============================================================================
