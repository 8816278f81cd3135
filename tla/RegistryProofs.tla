--------------------------- MODULE RegistryProofs ---------------------------
(***************************************************************************)
(* What the cache of layers promises, for every set of threads, images and *)
(* manifests, and whatever the registry does.                              *)
(*                                                                         *)
(* The invariant has to say where a thread is in its manifest (what is     *)
(* left is a suffix of it), that the layer at hand is not damaged once the *)
(* thread has found no file or removed one, and that a thread only removes *)
(* a file where a damaged one was at first.                                *)
(***************************************************************************)
EXTENDS Registry, TLAPS

\* The states in which a file was not there, or has been removed.
Fetching(t) == handle[t].pc \in {"request", "download", "reading", "rename"}

Placed(t) == InLoop(t) \/ handle[t].pc \in {"extract", "done"}

\* What is left to do is the end of the manifest.
Suffix(t) ==
  LET layers == Manifest[handle[t].image] IN
  /\ Len(handle[t].layers) <= Len(layers)
  /\ \A k \in 1..Len(handle[t].layers) :
       handle[t].layers[k]
         = layers[Len(layers) - Len(handle[t].layers) + k]

\* What holds of one thread, whatever the others do.
ThreadInv(t) ==
  /\ handle[t] \in Handles \cup {Idle}
  /\ InLoop(t) => handle[t].layers # <<>>
  /\ Placed(t) => Suffix(t) /\ \A b \in Been(t) : cache[b] # "bad"
  /\ Fetching(t) => cache[Here(t)] # "bad"
  /\ handle[t].pc = "check" /\ cache[Here(t)] = "none" => Here(t) \in Damaged
  /\ handle[t].pc = "unlink" => Here(t) \in Damaged

CacheInv ==
  /\ cache \in [Blobs -> File]
  /\ \A b \in Blobs : cache[b] = "bad" => b \in Damaged

RInv ==
  /\ handle = [t \in Threads |-> handle[t]]
  /\ CacheInv
  /\ \A t \in Threads : ThreadInv(t)

\* A step changes a file into a sound one, or removes one that was damaged
\* at first.
CacheMove ==
  \/ cache' = cache
  \/ \E b \in Blobs, file \in {"none", "good"} :
       /\ cache' = [cache EXCEPT ![b] = file]
       /\ file = "none" => b \in Damaged

\* A step is one thread's.
OneMoves(t) ==
  \E h \in Handles \cup {Idle} : handle' = [handle EXCEPT ![t] = h]
-----------------------------------------------------------------------------
LEMMA InvImplies == RInv => TypeOK /\ LayersVerified
  <1>1. RInv => TypeOK
    BY DEF RInv, CacheInv, ThreadInv, TypeOK
  <1>2. RInv => LayersVerified
    BY DEF RInv, ThreadInv, LayersVerified, Placed
  <1> QED BY <1>1, <1>2

LEMMA InitInv == Init => RInv
  <1> SUFFICES ASSUME Init PROVE RInv
    OBVIOUS
  <1>1. CacheInv
    BY DEF Init, CacheInv
  <1>2. ASSUME NEW t \in Threads PROVE ThreadInv(t)
    <2>1. handle[t] = Idle /\ handle[t].pc = "idle"
      BY DEF Init, Idle
    <2> QED BY <2>1 DEF ThreadInv, InLoop, Placed, Fetching
  <1> QED BY <1>1, <1>2 DEF RInv, Init

\* A thread with a manifest has a handle, and its layers are blobs.
LEMMA Busy ==
  ASSUME NEW t \in Threads, handle[t] \in Handles \cup {Idle},
         handle[t] # Idle
  PROVE  /\ handle[t] \in Handles
         /\ handle[t].image \in Images
         /\ handle[t].layers \in Seq(Blobs)
         /\ Manifest[handle[t].image] \in Seq(Blobs)
         /\ Been(t) \subseteq Blobs
         /\ handle[t].layers # <<>> => Here(t) \in Blobs
  <1>1. handle[t] \in Handles
    OBVIOUS
  <1>2. handle[t].image \in Images /\ handle[t].layers \in Seq(Blobs)
    BY <1>1 DEF Handles
  <1>3. Manifest[handle[t].image] \in Seq(Blobs)
    BY <1>2, RegistryAssumption
  <1>4. Been(t) \subseteq Blobs
    <2> DEFINE layers == Manifest[handle[t].image]
               todo == handle[t].layers
    <2>1. layers \in Seq(Blobs) /\ todo \in Seq(Blobs)
      BY <1>2, <1>3
    <2> HIDE DEF layers, todo
    <2>2. \A k \in 1..(Len(layers) - Len(todo)) : layers[k] \in Blobs
      BY <2>1
    <2> QED BY <2>2 DEF Been, layers, todo
  <1>5. handle[t].layers # <<>> => Here(t) \in Blobs
    BY <1>2 DEF Here
  <1> QED BY <1>1, <1>2, <1>3, <1>4, <1>5

LEMMA IdleIsOut ==
  ASSUME NEW t, InLoop(t) \/ Placed(t) \/ Fetching(t) \/ handle[t].pc = "unlink"
  PROVE  handle[t] # Idle
  BY DEF InLoop, Placed, Fetching, Idle

\* What a step of t means for the others: they only see the cache.
LEMMA OthersKept ==
  ASSUME NEW t \in Threads, NEW u \in Threads, u # t,
         RInv, OneMoves(t), CacheMove
  PROVE  ThreadInv(u)'
  <1>1. handle'[u] = handle[u]
    BY DEF OneMoves, RInv
  <1>2. \A b \in Blobs : cache'[b] = "bad" => cache[b] = "bad"
    BY DEF CacheMove, RInv, CacheInv
  <1>3. ThreadInv(u)
    BY DEF RInv
  <1>4. Been(u)' = Been(u) /\ Here(u)' = Here(u) /\ Suffix(u)' = Suffix(u)
    BY <1>1 DEF Been, Here, Suffix
  <1>5. /\ InLoop(u)' = InLoop(u) /\ Placed(u)' = Placed(u)
        /\ Fetching(u)' = Fetching(u)
    BY <1>1 DEF InLoop, Placed, Fetching
  <1>6. Placed(u) => \A b \in Been(u) : cache'[b] # "bad"
    BY <1>2, <1>3, Busy, IdleIsOut DEF ThreadInv
  <1>7. Fetching(u) => cache'[Here(u)] # "bad"
    BY <1>2, <1>3, Busy, IdleIsOut DEF ThreadInv, Fetching, InLoop
  <1>8. \A b \in Blobs : cache'[b] = "none" => cache[b] = "none" \/ b \in Damaged
    BY DEF CacheMove, RInv, CacheInv
  <1>9. handle[u].pc = "check" => Here(u) \in Blobs
    BY <1>3, Busy, IdleIsOut DEF ThreadInv, InLoop
  <1>10. handle[u].pc = "check" /\ cache'[Here(u)] = "none" => Here(u) \in Damaged
    BY <1>3, <1>8, <1>9 DEF ThreadInv
  <1> QED
    BY <1>1, <1>3, <1>4, <1>5, <1>6, <1>7, <1>10 DEF ThreadInv

\* A step that leaves pull_layers, or is not there yet.
LEMMA Outside ==
  ASSUME NEW t \in Threads, handle'[t] \in Handles \cup {Idle},
         handle'[t].pc \in {"idle", "manifest", "anonymous", "anonymousretry",
                            "credentials", "userretry", "raised"}
  PROVE  ThreadInv(t)'
  BY DEF ThreadInv, InLoop, Placed, Fetching

\* A step that stays with the layer at hand.
LEMMA SameLayer ==
  ASSUME NEW t \in Threads, RInv, CacheMove, Placed(t),
         handle'[t] \in Handles,
         handle'[t].image = handle[t].image,
         handle'[t].layers = handle[t].layers,
         InLoop(t)' => InLoop(t),
         Fetching(t)' => cache'[Here(t)] # "bad",
         handle'[t].pc = "check" => cache'[Here(t)] # "none",
         handle'[t].pc = "unlink" => Here(t) \in Damaged
  PROVE  ThreadInv(t)'
  <1>1. Been(t)' = Been(t) /\ Here(t)' = Here(t) /\ Suffix(t)' = Suffix(t)
    BY DEF Been, Here, Suffix
  <1>2. ThreadInv(t)
    BY DEF RInv
  <1>3. Been(t) \subseteq Blobs
    BY <1>2, Busy, IdleIsOut DEF ThreadInv
  <1>4. \A b \in Blobs : cache'[b] = "bad" => cache[b] = "bad"
    BY DEF CacheMove, RInv, CacheInv
  <1>5. Suffix(t) /\ \A b \in Been(t) : cache'[b] # "bad"
    BY <1>2, <1>3, <1>4 DEF ThreadInv
  <1>6. InLoop(t)' => handle'[t].layers # <<>>
    BY <1>2 DEF ThreadInv
  <1> QED BY <1>1, <1>5, <1>6 DEF ThreadInv

\* NextLayer leaves a layer behind that is not damaged.
LEMMA Behind ==
  ASSUME NEW t \in Threads, RInv, CacheMove, InLoop(t), NextLayer(t),
         cache'[Here(t)] # "bad"
  PROVE  OneMoves(t) /\ ThreadInv(t)'
  <1> DEFINE M == Manifest[handle[t].image]
             todo == handle[t].layers
  <1>1. ThreadInv(t) /\ Placed(t)
    BY DEF RInv, Placed
  <1>2. /\ handle[t] \in Handles
        /\ M \in Seq(Blobs) /\ todo \in Seq(Blobs) /\ todo # <<>>
        /\ Been(t) \subseteq Blobs
    BY <1>1, Busy, IdleIsOut DEF ThreadInv
  <1>3. \A b \in Blobs : cache'[b] = "bad" => cache[b] = "bad"
    BY DEF CacheMove, RInv, CacheInv
  <1>t. /\ Tail(todo) \in Seq(Blobs)
        /\ Len(Tail(todo)) = Len(todo) - 1 /\ Len(todo) \in Nat \ {0}
        /\ \A k \in 1..(Len(todo) - 1) : Tail(todo)[k] = todo[k + 1]
        /\ Head(todo) = todo[1]
    <2> HIDE DEF todo, M
    <2> QED BY <1>2
  <1>4. PICK pc \in {"extract", "exists"} :
          /\ pc = IF Len(todo) = 1 THEN "extract" ELSE "exists"
          /\ handle' = [handle EXCEPT ![t].layers = Tail(todo),
                                      ![t].there = FALSE, ![t].pc = pc]
    BY DEF NextLayer
  <1> DEFINE h == [handle[t] EXCEPT !.layers = Tail(todo),
                                    !.there = FALSE, !.pc = pc]
  <1>5. h \in Handles /\ h.layers = Tail(todo) /\ h.pc = pc
        /\ h.image = handle[t].image
    BY <1>2, <1>t DEF Handles
  <1>6. handle' = [handle EXCEPT ![t] = h]
    BY <1>4
  <1>7. handle'[t] = h
    BY <1>6 DEF RInv
  <1> HIDE DEF h
  <1>8. OneMoves(t)
    BY <1>5, <1>6 DEF OneMoves
  <1> DEFINE n == Len(M)
             d == Len(todo)
  <1>9. /\ n \in Nat /\ d \in Nat \ {0} /\ d <= n
        /\ Len(Tail(todo)) = d - 1 /\ Here(t) = todo[1]
        /\ \A k \in 1..d : todo[k] = M[n - d + k]
        /\ \A k \in 1..(d - 1) : Tail(todo)[k] = todo[k + 1]
    <2>1. Suffix(t)
      BY <1>1 DEF ThreadInv
    <2>2. d <= n /\ \A k \in 1..d : todo[k] = M[n - d + k]
      BY <2>1 DEF Suffix
    <2>3. Here(t) = todo[1]
      BY <1>t DEF Here
    <2> HIDE DEF M, todo
    <2> QED BY <1>2, <1>t, <2>2, <2>3
  <1>a. /\ Been(t)' = {M[k] : k \in 1..(n - (d - 1))}
        /\ Been(t) = {M[k] : k \in 1..(n - d)}
        /\ Suffix(t)' = (/\ d - 1 <= n
                         /\ \A k \in 1..(d - 1) :
                              Tail(todo)[k] = M[n - (d - 1) + k])
    <2>1. Been(t) = {M[k] : k \in 1..(n - d)}
      BY DEF Been
    <2>2. /\ Manifest[handle'[t].image] = M
          /\ handle'[t].layers = Tail(todo)
      BY <1>5, <1>7
    <2> DEFINE r == Len(Tail(todo))
    <2>3. r = d - 1
      BY <1>9
    <2>4. Been(t)' = {M[k] : k \in 1..(n - r)}
      BY <2>2 DEF Been
    <2>5. Suffix(t)' = (/\ r <= n
                       /\ \A k \in 1..r : Tail(todo)[k] = M[n - r + k])
      BY <2>2 DEF Suffix
    <2> HIDE DEF r
    <2> QED BY <2>1, <2>3, <2>4, <2>5
  <1>b. InLoop(t)' => d # 1
    BY <1>4, <1>5, <1>7 DEF InLoop
  <1>c. ~Fetching(t)' /\ handle'[t].pc \notin {"check", "unlink"}
    BY <1>5, <1>7 DEF Fetching
  <1> HIDE DEF n, d, M, todo
  <1>10. \A k \in 1..(d - 1) : k + 1 \in 1..d /\ n - d + (k + 1) = n - (d - 1) + k
    BY <1>9
  <1>11. Suffix(t)'
    BY <1>9, <1>10, <1>a
  <1>12. \A b \in Been(t)' : b \in Been(t) \/ b = Here(t)
    <2>1. \A k \in 1..(n - (d - 1)) : k \in 1..(n - d) \/ k = n - d + 1
      BY <1>9
    <2>2. Here(t) = M[n - d + 1]
      BY <1>9
    <2> QED BY <1>a, <2>1, <2>2
  <1>13. \A b \in Been(t)' : cache'[b] # "bad"
    BY <1>1, <1>2, <1>3, <1>12 DEF ThreadInv
  <1>14. InLoop(t)' => handle'[t].layers # <<>>
    <2> SUFFICES ASSUME InLoop(t)', Tail(todo) = <<>> PROVE FALSE
      BY <1>5, <1>7
    <2>1. d - 1 = 0
      BY <1>9
    <2> QED BY <1>9, <1>b, <2>1
  <1> QED BY <1>5, <1>7, <1>8, <1>11, <1>13, <1>14, <1>c DEF ThreadInv
-----------------------------------------------------------------------------
\* What every action shows of the thread that takes it.
Moves(t) == OneMoves(t) /\ CacheMove /\ ThreadInv(t)'

Pcs == {"manifest", "anonymous", "anonymousretry", "credentials",
        "userretry", "exists", "check", "unlink", "request", "download",
        "reading", "rename", "extract", "done", "raised"}

\* A step to another pc.
LEMMA ToTyped ==
  ASSUME NEW t \in Threads, RInv, handle[t] # Idle, NEW pc \in Pcs, To(t, pc)
  PROVE  /\ OneMoves(t)
         /\ handle'[t] \in Handles /\ handle'[t].pc = pc
         /\ handle'[t].image = handle[t].image
         /\ handle'[t].layers = handle[t].layers
         /\ handle'[t].headers = handle[t].headers
  <1> DEFINE h == [handle[t] EXCEPT !.pc = pc]
  <1>1. handle[t] \in Handles
    BY DEF RInv, ThreadInv
  <1>2. h \in Handles /\ h.pc = pc /\ h.image = handle[t].image
        /\ h.layers = handle[t].layers /\ h.headers = handle[t].headers
    BY <1>1 DEF Handles, Pcs
  <1>3. handle' = [handle EXCEPT ![t] = h]
    BY DEF To
  <1> HIDE DEF h
  <1>4. handle'[t] = h
    BY <1>3 DEF RInv
  <1> QED BY <1>2, <1>3, <1>4 DEF OneMoves

\* An exception ends a pull at any point.
LEMMA RaisedMoves ==
  ASSUME NEW t \in Threads, RInv, handle[t] # Idle, CacheMove, To(t, "raised")
  PROVE  Moves(t)
  <1>1. OneMoves(t) /\ handle'[t] \in Handles /\ handle'[t].pc = "raised"
    BY ToTyped DEF Pcs
  <1> QED BY <1>1, Outside DEF Moves

LEMMA OpenMoves ==
  ASSUME NEW t \in Threads, RInv, Open(t)
  PROVE  Moves(t)
  <1>1. PICK image \in Images, username \in BOOLEAN :
          handle' = [handle EXCEPT ![t] =
            [ pc |-> "manifest", image |-> image, username |-> username,
              private |-> FALSE, token |-> "none", headers |-> "none",
              layers |-> <<>>, there |-> FALSE ]]
    BY DEF Open
  <1> DEFINE h == [ pc |-> "manifest", image |-> image,
              username |-> username,
              private |-> FALSE, token |-> "none", headers |-> "none",
              layers |-> <<>>, there |-> FALSE ]
  <1>e. <<>> \in Seq(Blobs)
    OBVIOUS
  <1>2. h \in Handles /\ h.pc = "manifest"
    BY <1>e DEF Handles, Token
  <1>3. handle' = [handle EXCEPT ![t] = h]
    BY <1>1
  <1> HIDE DEF h
  <1>4. handle'[t] = h
    BY <1>3 DEF RInv
  <1>5. OneMoves(t) /\ CacheMove
    BY <1>2, <1>3 DEF OneMoves, Open, CacheMove
  <1> QED BY <1>2, <1>4, <1>5, Outside DEF Moves

LEMMA GetManifestMoves ==
  ASSUME NEW t \in Threads, RInv, GetManifest(t)
  PROVE  Moves(t)
  <1>1. handle[t] # Idle /\ CacheMove
    BY DEF GetManifest, Idle, CacheMove
  <1>2. CASE To(t, "anonymous")
    <2>1. OneMoves(t) /\ handle'[t] \in Handles /\ handle'[t].pc = "anonymous"
      BY <1>1, <1>2, ToTyped DEF Pcs
    <2> QED BY <1>1, <2>1, Outside DEF Moves
  <1>3. CASE To(t, "raised")
    BY <1>1, <1>3, RaisedMoves
  <1> QED BY <1>2, <1>3 DEF GetManifest

LEMMA TokenAnonymousMoves ==
  ASSUME NEW t \in Threads, RInv, TokenAnonymous(t)
  PROVE  Moves(t)
  <1>1. handle[t] # Idle /\ CacheMove
    BY DEF TokenAnonymous, Idle, CacheMove
  <1>2. CASE handle' = [handle EXCEPT ![t].pc = "anonymousretry",
                                      ![t].token = "anonymous"]
    <2> DEFINE h == [handle[t] EXCEPT !.pc = "anonymousretry",
                                      !.token = "anonymous"]
    <2>1. handle[t] \in Handles
      BY <1>1 DEF RInv, ThreadInv
    <2>2. h \in Handles /\ h.pc = "anonymousretry"
      BY <2>1 DEF Handles, Token
    <2>3. handle' = [handle EXCEPT ![t] = h]
      BY <1>2
    <2> HIDE DEF h
    <2>4. handle'[t] = h
      BY <2>3 DEF RInv
    <2>5. OneMoves(t)
      BY <2>2, <2>3 DEF OneMoves
    <2> QED BY <1>1, <2>2, <2>4, <2>5, Outside DEF Moves
  <1>3. CASE To(t, "raised")
    BY <1>1, <1>3, RaisedMoves
  <1> QED BY <1>2, <1>3 DEF TokenAnonymous

LEMMA TokenUserMoves ==
  ASSUME NEW t \in Threads, RInv, TokenUser(t)
  PROVE  Moves(t)
  <1>1. handle[t] # Idle /\ CacheMove
    BY DEF TokenUser, Idle, CacheMove
  <1>2. ASSUME NEW answer \in Token,
               handle' = [handle EXCEPT ![t].pc = "userretry",
                 ![t].private = handle[t].username, ![t].token = answer]
        PROVE  Moves(t)
    <2> DEFINE h == [handle[t] EXCEPT !.pc = "userretry",
                       !.private = handle[t].username, !.token = answer]
    <2>1. handle[t] \in Handles
      BY <1>1 DEF RInv, ThreadInv
    <2>2. h \in Handles /\ h.pc = "userretry"
      BY <2>1 DEF Handles
    <2>3. handle' = [handle EXCEPT ![t] = h]
      BY <1>2
    <2> HIDE DEF h
    <2>4. handle'[t] = h
      BY <2>3 DEF RInv
    <2>5. OneMoves(t)
      BY <2>2, <2>3 DEF OneMoves
    <2> QED BY <1>1, <2>2, <2>4, <2>5, Outside DEF Moves
  <1>3. CASE To(t, "raised")
    BY <1>1, <1>3, RaisedMoves
  <1>4. \A answer \in Grants(BasicHeader(handle[t].username)) :
          answer = "refused" \/ answer \in Token
    BY DEF Grants, BasicHeader, Token
  <1> QED BY <1>2, <1>3, <1>4 DEF TokenUser

LEMMA RetryMoves ==
  ASSUME NEW t \in Threads, RInv, handle[t] # Idle,
         NEW refused \in {"credentials", "raised"}, Retry(t, refused)
  PROVE  Moves(t)
  <1> DEFINE token == handle[t].token
             M == Manifest[handle[t].image]
  <1>1. handle[t] \in Handles /\ CacheMove
    BY DEF RInv, ThreadInv, Retry, CacheMove
  <1>2. token \in Token /\ M \in Seq(Blobs)
    BY <1>1, RegistryAssumption DEF Handles
  <1>3. CASE handle' = [handle EXCEPT ![t].headers = token, ![t].layers = M,
                 ![t].pc = IF M = <<>> THEN "extract" ELSE "exists"]
    <2> DEFINE h == [handle[t] EXCEPT !.headers = token, !.layers = M,
                       !.pc = IF M = <<>> THEN "extract" ELSE "exists"]
    <2>1. h \in Handles /\ h.image = handle[t].image /\ h.layers = M
          /\ h.pc = IF M = <<>> THEN "extract" ELSE "exists"
      BY <1>1, <1>2 DEF Handles
    <2>2. handle' = [handle EXCEPT ![t] = h]
      BY <1>3
    <2> HIDE DEF h
    <2>3. handle'[t] = h
      BY <2>2 DEF RInv
    <2>4. OneMoves(t)
      BY <2>1, <2>2 DEF OneMoves
    <2>5. Manifest[handle'[t].image] = M /\ handle'[t].layers = M
      BY <2>1, <2>3
    <2> DEFINE n == Len(M)
    <2>6. n \in Nat
      BY <1>2
    <2>7. Been(t)' = {M[k] : k \in 1..(n - n)}
      BY <2>5 DEF Been
    <2>8. Suffix(t)' = (n <= n /\ \A k \in 1..n : M[k] = M[n - n + k])
      BY <2>5 DEF Suffix
    <2>9. InLoop(t)' => M # <<>>
      BY <2>1, <2>3 DEF InLoop
    <2> HIDE DEF n, M
    <2>10. Been(t)' = {} /\ Suffix(t)'
      <3>1. n - n = 0 /\ \A k \in 1..n : n - n + k = k
        BY <2>6
      <3>2. 1..(n - n) = {}
        BY <3>1
      <3>3. n <= n
        BY <2>6
      <3> QED BY <2>7, <2>8, <3>1, <3>2, <3>3
    <2>11. ~Fetching(t)' /\ handle'[t].pc \notin {"check", "unlink"}
      BY <2>1, <2>3 DEF Fetching
    <2> QED
      BY <1>1, <2>1, <2>3, <2>4, <2>5, <2>9, <2>10, <2>11 DEF Moves, ThreadInv
  <1>4. CASE handle' = [handle EXCEPT ![t].pc = refused,
                                      ![t].headers = token]
    <2> DEFINE h == [handle[t] EXCEPT !.pc = refused, !.headers = token]
    <2>1. h \in Handles /\ h.pc \in {"credentials", "raised"}
      BY <1>1, <1>2 DEF Handles
    <2>2. handle' = [handle EXCEPT ![t] = h]
      BY <1>4
    <2> HIDE DEF h
    <2>3. handle'[t] = h
      BY <2>2 DEF RInv
    <2>4. OneMoves(t)
      BY <2>1, <2>2 DEF OneMoves
    <2> QED BY <1>1, <2>1, <2>3, <2>4, Outside DEF Moves
  <1> QED BY <1>3, <1>4 DEF Retry

LEMMA ExistsMoves ==
  ASSUME NEW t \in Threads, RInv, Exists(t)
  PROVE  Moves(t)
  <1>1. handle[t] # Idle /\ CacheMove /\ Placed(t) /\ InLoop(t)
    BY DEF Exists, Idle, CacheMove, Placed, InLoop
  <1>2. PICK pc \in {"request", "check"} :
          To(t, pc) /\ (pc = "request" <=> cache[Here(t)] = "none")
    BY DEF Exists
  <1>3. /\ OneMoves(t) /\ handle'[t] \in Handles /\ handle'[t].pc = pc
        /\ handle'[t].image = handle[t].image
        /\ handle'[t].layers = handle[t].layers
    BY <1>1, <1>2, ToTyped DEF Pcs
  <1>4. Fetching(t)' => cache'[Here(t)] # "bad"
    BY <1>2, <1>3 DEF Fetching, Exists
  <1>5. handle'[t].pc = "check" => cache'[Here(t)] # "none"
    BY <1>2, <1>3 DEF Exists
  <1>6. ThreadInv(t)'
    BY <1>1, <1>3, <1>4, <1>5, SameLayer
  <1> QED BY <1>1, <1>3, <1>6 DEF Moves

LEMMA CheckMoves ==
  ASSUME NEW t \in Threads, RInv, Check(t)
  PROVE  Moves(t)
  <1>1. handle[t] # Idle /\ CacheMove /\ Placed(t) /\ InLoop(t)
        /\ cache' = cache
    BY DEF Check, Idle, CacheMove, Placed, InLoop
  <1>2. CASE cache[Here(t)] = "good"
    <2>1. NextLayer(t)
      BY <1>2 DEF Check
    <2> QED BY <1>1, <1>2, <2>1, Behind DEF Moves
  <1>3. CASE cache[Here(t)] # "good"
    <2>1. To(t, "unlink")
      BY <1>3 DEF Check
    <2>2. /\ OneMoves(t) /\ handle'[t] \in Handles
          /\ handle'[t].pc = "unlink"
          /\ handle'[t].image = handle[t].image
          /\ handle'[t].layers = handle[t].layers
      BY <1>1, <2>1, ToTyped DEF Pcs
    <2>3. ~Fetching(t)'
      BY <2>2 DEF Fetching
    <2>4. ThreadInv(t) /\ Here(t) \in Blobs /\ CacheInv
      BY <1>1, Busy DEF RInv, ThreadInv
    <2>5. Here(t) \in Damaged
      BY <1>3, <2>4 DEF Check, ThreadInv, CacheInv, File
    <2> QED BY <1>1, <2>2, <2>3, <2>5, SameLayer DEF Moves
  <1> QED BY <1>2, <1>3

LEMMA UnlinkMoves ==
  ASSUME NEW t \in Threads, RInv, Unlink(t)
  PROVE  Moves(t)
  <1>1. handle[t] # Idle /\ Placed(t) /\ InLoop(t)
    BY DEF Unlink, Idle, Placed, InLoop
  <1>2. ThreadInv(t) /\ Here(t) \in Blobs /\ Here(t) \in Damaged
    BY <1>1, Busy DEF RInv, ThreadInv, Unlink
  <1>3. cache' = [cache EXCEPT ![Here(t)] = "none"]
    BY DEF Unlink
  <1>4. CacheMove
    BY <1>2, <1>3 DEF CacheMove
  <1>5. CASE To(t, "raised")
    BY <1>1, <1>4, <1>5, RaisedMoves
  <1>6. CASE To(t, "request")
    <2>1. /\ OneMoves(t) /\ handle'[t] \in Handles
          /\ handle'[t].pc = "request"
          /\ handle'[t].image = handle[t].image
          /\ handle'[t].layers = handle[t].layers
      BY <1>1, <1>6, ToTyped DEF Pcs
    <2>2. cache'[Here(t)] # "bad"
      BY <1>2, <1>3 DEF RInv, CacheInv
    <2> QED BY <1>1, <1>4, <2>1, <2>2, SameLayer DEF Moves
  <1> QED BY <1>5, <1>6 DEF Unlink

\* A step within save_layer after the file was found missing.
LEMMA FetchTo ==
  ASSUME NEW t \in Threads, RInv, Fetching(t), cache' = cache,
         NEW pc \in {"download", "reading", "rename", "exists"}, To(t, pc)
  PROVE  Moves(t)
  <1>1. handle[t] # Idle /\ Placed(t) /\ InLoop(t) /\ CacheMove
    BY DEF Fetching, Idle, Placed, InLoop, CacheMove
  <1>2. /\ OneMoves(t) /\ handle'[t] \in Handles /\ handle'[t].pc = pc
        /\ handle'[t].image = handle[t].image
        /\ handle'[t].layers = handle[t].layers
    BY <1>1, ToTyped DEF Pcs
  <1>3. cache'[Here(t)] # "bad"
    BY DEF RInv, ThreadInv
  <1> QED BY <1>1, <1>2, <1>3, SameLayer DEF Moves

LEMMA RequestMoves ==
  ASSUME NEW t \in Threads, RInv, Request(t)
  PROVE  Moves(t)
  <1>1. /\ handle[t] # Idle /\ Placed(t) /\ InLoop(t) /\ Fetching(t)
        /\ CacheMove /\ cache' = cache
    BY DEF Request, Idle, Placed, InLoop, Fetching, CacheMove
  <1>2. ThreadInv(t) /\ cache'[Here(t)] # "bad" /\ handle[t] \in Handles
    BY <1>1 DEF RInv, ThreadInv
  <1>3. CASE To(t, "download")
    BY <1>1, <1>3, FetchTo
  <1>4. ASSUME NEW h \in Handles, handle' = [handle EXCEPT ![t] = h],
               h.pc = "exists", h.image = handle[t].image,
               h.layers = handle[t].layers
        PROVE  Moves(t)
    <2>1. handle'[t] = h /\ OneMoves(t)
      BY <1>4 DEF RInv, OneMoves
    <2> QED BY <1>1, <1>2, <1>4, <2>1, SameLayer DEF Moves
  <1>5. CASE handle' = [handle EXCEPT ![t].there = TRUE, ![t].pc = "exists"]
    <2> DEFINE h == [handle[t] EXCEPT !.there = TRUE, !.pc = "exists"]
    <2>1. /\ h \in Handles /\ h.pc = "exists" /\ h.image = handle[t].image
          /\ h.layers = handle[t].layers
      BY <1>2 DEF Handles
    <2>2. handle' = [handle EXCEPT ![t] = h]
      BY <1>5
    <2> HIDE DEF h
    <2> QED BY <1>4, <2>1, <2>2
  <1>6. CASE handle' = [handle EXCEPT ![t].token = "anonymous",
                                      ![t].pc = "exists"]
    <2> DEFINE h == [handle[t] EXCEPT !.token = "anonymous", !.pc = "exists"]
    <2>1. /\ h \in Handles /\ h.pc = "exists" /\ h.image = handle[t].image
          /\ h.layers = handle[t].layers
      BY <1>2 DEF Handles, Token
    <2>2. handle' = [handle EXCEPT ![t] = h]
      BY <1>6
    <2> HIDE DEF h
    <2> QED BY <1>4, <2>1, <2>2
  <1>7. CASE NextLayer(t)
    BY <1>1, <1>2, <1>7, Behind DEF Moves
  <1>8. CASE To(t, "raised")
    BY <1>1, <1>8, RaisedMoves
  <1> QED BY <1>3, <1>5, <1>6, <1>7, <1>8 DEF Request

LEMMA DownloadMoves ==
  ASSUME NEW t \in Threads, RInv, Download(t)
  PROVE  Moves(t)
  <1>1. handle[t] # Idle /\ Fetching(t) /\ CacheMove /\ cache' = cache
    BY DEF Download, Idle, Fetching, CacheMove
  <1>2. CASE To(t, "rename")
    BY <1>1, <1>2, FetchTo
  <1>3. CASE To(t, "reading")
    BY <1>1, <1>3, FetchTo
  <1>4. CASE To(t, "raised")
    BY <1>1, <1>4, RaisedMoves
  <1> QED BY <1>2, <1>3, <1>4 DEF Download

LEMMA RenameMoves ==
  ASSUME NEW t \in Threads, RInv, Rename(t)
  PROVE  Moves(t)
  <1>1. handle[t] # Idle /\ InLoop(t) /\ NextLayer(t)
    BY DEF Rename, Idle, InLoop
  <1>2. Here(t) \in Blobs
    BY <1>1, Busy DEF RInv, ThreadInv
  <1>3. cache' = [cache EXCEPT ![Here(t)] = "good"]
    BY DEF Rename
  <1>4. CacheMove /\ cache'[Here(t)] = "good"
    BY <1>2, <1>3 DEF CacheMove, RInv, CacheInv
  <1> QED BY <1>1, <1>4, Behind DEF Moves

LEMMA ExtractMoves ==
  ASSUME NEW t \in Threads, RInv, Extract(t)
  PROVE  Moves(t)
  <1>1. handle[t] # Idle /\ Placed(t) /\ CacheMove
    BY DEF Extract, Idle, Placed, CacheMove
  <1>2. CASE To(t, "done")
    <2>1. /\ OneMoves(t) /\ handle'[t] \in Handles
          /\ handle'[t].pc = "done"
          /\ handle'[t].image = handle[t].image
          /\ handle'[t].layers = handle[t].layers
      BY <1>1, <1>2, ToTyped DEF Pcs
    <2>2. ~InLoop(t)' /\ ~Fetching(t)'
      BY <2>1 DEF InLoop, Fetching
    <2> QED BY <1>1, <2>1, <2>2, SameLayer DEF Moves
  <1>3. CASE To(t, "raised")
    BY <1>1, <1>3, RaisedMoves
  <1> QED BY <1>2, <1>3 DEF Extract

LEMMA CloseMoves ==
  ASSUME NEW t \in Threads, RInv, Close(t)
  PROVE  Moves(t)
  <1>1. handle' = [handle EXCEPT ![t] = Idle] /\ CacheMove
    BY DEF Close, CacheMove
  <1>2. handle'[t] = Idle
    BY <1>1 DEF RInv
  <1>3. handle'[t].pc = "idle"
    BY <1>2 DEF Idle
  <1>4. OneMoves(t)
    BY <1>1 DEF OneMoves
  <1> QED BY <1>1, <1>2, <1>3, <1>4, Outside DEF Moves

\* An expired token leaves the thread where it is.
LEMMA ExpireMoves ==
  ASSUME NEW t \in Threads, RInv, Expire(t)
  PROVE  Moves(t)
  <1> DEFINE h == [handle[t] EXCEPT !.headers = "expired"]
  <1>1. handle[t] \in Handles /\ CacheMove /\ cache' = cache
    BY DEF Expire, RInv, ThreadInv, CacheMove
  <1>2. h \in Handles /\ h.pc = handle[t].pc /\ h.image = handle[t].image
        /\ h.layers = handle[t].layers
    BY <1>1 DEF Handles, Token
  <1>3. handle' = [handle EXCEPT ![t] = h]
    BY DEF Expire
  <1> HIDE DEF h
  <1>4. handle'[t] = h
    BY <1>3 DEF RInv
  <1>5. OneMoves(t)
    BY <1>2, <1>3 DEF OneMoves
  <1>6. /\ Been(t)' = Been(t) /\ Here(t)' = Here(t) /\ Suffix(t)' = Suffix(t)
        /\ InLoop(t)' = InLoop(t) /\ Placed(t)' = Placed(t)
        /\ Fetching(t)' = Fetching(t)
    BY <1>2, <1>4 DEF Been, Here, Suffix, InLoop, Placed, Fetching
  <1>7. ThreadInv(t)
    BY DEF RInv
  <1> QED BY <1>1, <1>2, <1>4, <1>5, <1>6, <1>7 DEF Moves, ThreadInv
-----------------------------------------------------------------------------
LEMMA StepMoves ==
  ASSUME RInv, Next
  PROVE  \E t \in Threads : Moves(t)
  <1>1. PICK t \in Threads : Open(t) \/ PullStep(t) \/ Expire(t)
    BY DEF Next
  <1>2. CASE Open(t)
    BY <1>2, OpenMoves
  <1>3. CASE Expire(t)
    BY <1>3, ExpireMoves
  <1>4. CASE RetryAnonymous(t)
    <2>1. handle[t] # Idle /\ Retry(t, "credentials")
      BY <1>4 DEF RetryAnonymous, Idle
    <2> QED BY <2>1, RetryMoves
  <1>5. CASE RetryUser(t)
    <2>1. handle[t] # Idle /\ Retry(t, "raised")
      BY <1>5 DEF RetryUser, Idle
    <2> QED BY <2>1, RetryMoves
  <1>6. CASE GetManifest(t) \/ TokenAnonymous(t) \/ TokenUser(t)
    BY <1>6, GetManifestMoves, TokenAnonymousMoves, TokenUserMoves
  <1>7. CASE Exists(t) \/ Check(t) \/ Unlink(t) \/ Request(t)
    BY <1>7, ExistsMoves, CheckMoves, UnlinkMoves, RequestMoves
  <1>8. CASE Download(t) \/ Rename(t) \/ Extract(t) \/ Close(t)
    BY <1>8, DownloadMoves, RenameMoves, ExtractMoves, CloseMoves
  <1> QED
    BY <1>1, <1>2, <1>3, <1>4, <1>5, <1>6, <1>7, <1>8 DEF PullStep

LEMMA CacheKept ==
  ASSUME RInv, CacheMove
  PROVE  CacheInv'
  BY DEF RInv, CacheInv, CacheMove, File

LEMMA NextInv == RInv /\ [Next]_vars => RInv'
  <1>1. ASSUME RInv, Next PROVE RInv'
    <2>1. PICK t \in Threads : Moves(t)
      BY <1>1, StepMoves
    <2>2. \A u \in Threads : ThreadInv(u)'
      BY <1>1, <2>1, OthersKept DEF Moves
    <2>3. handle' = [u \in Threads |-> handle'[u]]
      BY <1>1, <2>1 DEF Moves, OneMoves, RInv
    <2>4. CacheInv'
      BY <1>1, <2>1, CacheKept DEF Moves
    <2> QED BY <2>2, <2>3, <2>4 DEF RInv
  <1>2. ASSUME RInv, UNCHANGED vars PROVE RInv'
    <2>1. handle' = handle /\ cache' = cache
      BY <1>2 DEF vars
    <2>2. CacheInv'
      BY <1>2, <2>1 DEF RInv, CacheInv
    <2>3. ASSUME NEW t \in Threads PROVE ThreadInv(t)'
      <3>1. /\ Been(t)' = Been(t) /\ Here(t)' = Here(t)
            /\ Suffix(t)' = Suffix(t) /\ InLoop(t)' = InLoop(t)
            /\ Placed(t)' = Placed(t) /\ Fetching(t)' = Fetching(t)
        BY <2>1 DEF Been, Here, Suffix, InLoop, Placed, Fetching
      <3>2. ThreadInv(t)
        BY <1>2 DEF RInv
      <3> QED BY <2>1, <3>1, <3>2 DEF ThreadInv
    <2> QED BY <1>2, <2>1, <2>2, <2>3 DEF RInv
  <1> QED BY <1>1, <1>2

\* DockerV2Handle: what is left of an image is always an end of its manifest,
\* what a thread has been through is sound, and a thread only removes a file
\* from the cache where a damaged one was at first.
THEOREM RegistryInvariance == Spec => []RInv
  <1> QED BY InitInv, NextInv, PTL DEF Spec

\* pull_layers always has a layer at hand while it is in its loop, and the
\* handles and the cache are what the code expects.
THEOREM RegistryTypeCorrect == Spec => []TypeOK
  <1>1. RInv => TypeOK
    BY InvImplies
  <1> QED BY <1>1, RegistryInvariance, PTL

\* The layers a pull has been through are verified, whatever the threads and
\* the registry do: no damaged file is ever extracted.
THEOREM LayersAreVerified == Spec => []LayersVerified
  <1>1. RInv => LayersVerified
    BY InvImplies
  <1> QED BY <1>1, RegistryInvariance, PTL

\* A layer of the cache never goes bad, and goes missing only where a
\* damaged one was replaced.
THEOREM SoundLayersStay == Spec => StaysSound
  <1>1. ASSUME RInv, [Next]_vars
        PROVE  [\A b \in Blobs :
                 /\ cache'[b] = "bad" => cache[b] = "bad"
                 /\ cache[b] = "good" /\ cache'[b] = "none" => b \in Damaged]_cache
    <2>1. CacheMove
      BY <1>1, StepMoves DEF Moves, CacheMove, vars
    <2> QED BY <1>1, <2>1 DEF CacheMove, RInv, CacheInv
  <1> QED BY <1>1, RegistryInvariance, PTL DEF Spec, StaysSound
=============================================================================
