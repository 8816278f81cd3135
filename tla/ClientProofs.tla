---------------------------- MODULE ClientProofs ----------------------------
(***************************************************************************)
(* Theorems about Client, for any number of shifterimg processes and       *)
(* gateways and whatever answers are lost, and about Login, for any number *)
(* of shells, systems, locations and logins.                               *)
(***************************************************************************)
EXTENDS Client, Login, SequenceTheorems, WellFoundedInduction, TLAPS

-----------------------------------------------------------------------------
(* Client: types.                                                          *)

LEMMA StageFacts ==
  /\ DOMAIN Stages = 1 .. 6
  /\ \A i \in 1 .. 6 : Stages[i] \in Status /\ (i # 6 => Stages[i + 1] \in Status)
  /\ "INIT" \in Status /\ "TRANSFER" \in Status /\ "HASHING" \in Status
  /\ {"NONE", "READY", "FAILURE"} \subseteq Status
<1>1. DOMAIN Stages = 1 .. 6
  BY DEF Stages
<1>2. \A i \in 1 .. 6 : Stages[i] \in Status
  BY <1>1 DEF Status, InFlight
<1>3. Stages[1] = "INIT" /\ Stages[6] = "TRANSFER"
  BY DEF Stages
<1>4. \A i \in 1 .. 6 : i # 6 => i + 1 \in 1 .. 6
  OBVIOUS
<1>5. QED
  BY <1>1, <1>2, <1>3, <1>4 DEF Status, InFlight

\* One process changes, and has its type.
LEMMA SetTyped ==
  ASSUME TypeOK, NEW c \in Clients, NEW r \in Process, Set(c, r)
  PROVE  /\ client' \in [Clients -> Process]
         /\ client'[c] = r
         /\ \A d \in Clients : d # c => client'[d] = client[d]
BY DEF TypeOK, Set

LEMMA EndTyped ==
  ASSUME NEW r \in Process, NEW exit \in {0, 1, 128}
  PROVE  Done(r, exit) \in Process
<1>1. 0 \in 0 .. Gateways
  BY ClientAssumption
<1>2. Idle \in Process
  BY <1>1 DEF Idle, Process
<1>3. /\ r.cmd \in {"pull", "pullnb", "lookup", "expire"}
      /\ r.reply \in Reply \cup {Lost} /\ r.sure \in BOOLEAN
  BY DEF Process
<1> DEFINE reply == IF r.cmd = "pull" THEN r.reply ELSE Lost
           cmd == r.cmd
           sure == r.sure
<1>4. reply \in Reply \cup {Lost}
  BY <1>3
<1>5. Done(r, exit) = [Idle EXCEPT !.cmd = cmd, !.exit = exit, !.sure = sure,
                                   !.reply = reply]
  BY DEF Done
<1> HIDE DEF reply, cmd, sure
<1>6. [Idle EXCEPT !.cmd = cmd, !.exit = exit, !.sure = sure, !.reply = reply]
        \in Process
  BY <1>2, <1>3, <1>4 DEF Process, cmd, sure
<1>7. QED
  BY <1>5, <1>6

\* The gateways serve a request with an image that has a status.
LEMMA EffectTyped ==
  ASSUME TypeOK, NEW mode, Effect(mode)
  PROVE  image' \in Status /\ changes' \in 0 .. MaxChanges
<1>1. image \in Status /\ changes \in 0 .. MaxChanges
  BY DEF TypeOK
<1>2. CASE image' = image /\ UNCHANGED changes
  BY <1>1, <1>2
<1>3. CASE image' = "INIT" /\ UNCHANGED changes
  BY <1>1, <1>3, StageFacts
<1>4. CASE /\ changes < MaxChanges /\ changes' = changes + 1
           /\ image' = IF mode = "expire" THEN "NONE" ELSE "INIT"
  BY <1>1, <1>4, StageFacts, ClientAssumption
<1>5. QED
  BY <1>2, <1>3, <1>4 DEF Effect

LEMMA AnswerTyped ==
  ASSUME NEW mode, NEW status \in Status
  PROVE  Answer(mode, status) \in Reply
BY DEF Answer, Reply

-----------------------------------------------------------------------------
(* Client: what a process knows at every point of a pull.                  *)

\* A process asks for what the user wants until it polls; then it asks for
\* the status alone, and an answer that was not lost has one.
Fine(r) ==
  /\ r.pc = "idle" /\ r.cmd = "pull" /\ r.exit = 0 /\ r.sure =>
       r.reply.status \in {"READY", "FAILURE", "HASHING"}
  /\ r.pc = "ask" => r.mode = r.cmd /\ ~r.polls
  /\ r.pc \in {"sent", "replied"} /\ ~r.polls => r.mode = r.cmd
  /\ r.pc = "sleep" => r.polls
  /\ r.pc # "idle" /\ r.polls => r.cmd = "pull"
  /\ r.pc \in {"sent", "replied"} /\ r.polls => r.mode = "pullnb"
  /\ r.pc = "replied" /\ r.polls /\ r.sure =>
       r.reply.code = 200 /\ r.reply.status \in Status \ {"NONE"}

ClientInv == TypeOK /\ \A c \in Clients : Fine(client[c])

\* What is left to show of a step of a process that leaves the image alone.
LEMMA SetInv ==
  ASSUME ClientInv, NEW c \in Clients, NEW r \in Process, Fine(r), Set(c, r),
         image' \in Status, changes' \in 0 .. MaxChanges
  PROVE  ClientInv'
BY SetTyped DEF ClientInv, TypeOK

LEMMA StartInv ==
  ASSUME ClientInv, NEW c \in Clients, Start(c)
  PROVE  ClientInv'
<1>1. PICK cmd \in Commands[c] :
        Set(c, [Idle EXCEPT !.pc = "ask", !.cmd = cmd, !.mode = cmd,
                            !.left = Gateways])
  BY DEF Start
<1>2. cmd \in {"pull", "pullnb", "lookup", "expire"} /\ Gateways \in 0 .. Gateways
  BY ClientAssumption
<1>3. Idle \in Process
  BY ClientAssumption DEF Idle, Process
<1> DEFINE r == [Idle EXCEPT !.pc = "ask", !.cmd = cmd, !.mode = cmd,
                             !.left = Gateways]
<1>4. r \in Process
  BY <1>2, <1>3 DEF Process
<1>5. r.pc = "ask" /\ r.mode = r.cmd /\ r.polls = FALSE
  BY DEF Idle
<1> HIDE DEF r
<1>6. Fine(r)
  BY <1>5 DEF Fine
<1>7. UNCHANGED <<image, changes>>
  BY DEF Start
<1>8. QED
  BY <1>1, <1>4, <1>6, <1>7, SetInv DEF ClientInv, TypeOK, r

LEMMA AskInv ==
  ASSUME ClientInv, NEW c \in Clients, Ask(c)
  PROVE  ClientInv'
<1> DEFINE p == client[c]
<1>1. p \in Process /\ Fine(p) /\ p.pc = "ask"
  BY DEF ClientInv, TypeOK, Ask
<1>2. UNCHANGED <<image, changes>> /\ TypeOK
  BY DEF Ask, ClientInv
<1>3. CASE p.left = 0
  <2>1. Set(c, Done(p, 1))
    BY <1>3 DEF Ask
  <2>2. Done(p, 1) \in Process
    BY <1>1, EndTyped
  <2>3. Done(p, 1).pc = "idle" /\ Done(p, 1).exit = 1
    BY DEF Done, Idle
  <2>4. Fine(Done(p, 1))
    BY <2>3 DEF Fine
  <2>5. QED
    BY <1>2, <2>1, <2>2, <2>4, SetInv DEF TypeOK
<1>4. CASE p.left # 0
  <2> DEFINE r == [p EXCEPT !.pc = "sent", !.left = @ - 1]
  <2>1. Set(c, r)
    BY <1>4 DEF Ask
  <2>2. p.left - 1 \in 0 .. Gateways
    BY <1>1, <1>4, ClientAssumption DEF Process
  <2> HIDE DEF p
  <2>3. r \in Process
    BY <1>1, <2>2 DEF Process
  <2>4. /\ r.pc = "sent" /\ r.mode = p.mode /\ r.cmd = p.cmd
        /\ r.polls = p.polls
    BY <1>1 DEF Process
  <2> HIDE DEF r
  <2>5. Fine(r)
    BY <1>1, <2>4 DEF Fine
  <2>6. QED
    BY <1>2, <2>1, <2>3, <2>5, SetInv DEF TypeOK
<1>5. QED
  BY <1>3, <1>4

LEMMA ServeInv ==
  ASSUME ClientInv, NEW c \in Clients, Serve(c)
  PROVE  ClientInv'
<1> DEFINE p == client[c]
           reply == Answer(p.mode, image')
           r == [p EXCEPT !.pc = "replied", !.reply = reply]
<1>1. p \in Process /\ Fine(p) /\ p.pc = "sent" /\ Effect(p.mode) /\ Set(c, r)
  BY DEF ClientInv, TypeOK, Serve
<1>2. image' \in Status /\ changes' \in 0 .. MaxChanges
  BY <1>1, EffectTyped DEF ClientInv
<1>3. reply \in Reply
  BY <1>2, AnswerTyped
<1>4. p.mode = "pullnb" => /\ reply.code = 200
                           /\ reply.status \in Status \ {"NONE"}
  BY <1>1, <1>2 DEF Answer, Effect
<1> HIDE DEF p, reply
<1>5. r \in Process
  BY <1>1, <1>3 DEF Process
<1>6. /\ r.pc = "replied" /\ r.mode = p.mode /\ r.cmd = p.cmd
      /\ r.polls = p.polls /\ r.reply = reply
  BY <1>1 DEF Process
<1> HIDE DEF r
<1>7. Fine(r)
  BY <1>1, <1>4, <1>6 DEF Fine
<1>8. QED
  BY <1>1, <1>2, <1>5, <1>7, SetInv

LEMMA LoseInv ==
  ASSUME ClientInv, NEW c \in Clients, Lose(c)
  PROVE  ClientInv'
<1> DEFINE p == client[c]
           sure == p.sure /\ ~p.polls
           r == [p EXCEPT !.pc = "replied", !.reply = Lost, !.sure = sure]
<1>1. /\ p \in Process /\ Fine(p) /\ p.pc \in {"sent", "replied"}
      /\ UNCHANGED <<image, changes>> /\ TypeOK
  BY DEF ClientInv, TypeOK, Lose
<1>2. Set(c, r)
  BY DEF Lose
<1>3. sure \in BOOLEAN /\ (p.polls => ~sure)
  OBVIOUS
<1> HIDE DEF p, sure
<1>4. r \in Process
  BY <1>1, <1>3 DEF Process
<1>5. /\ r.pc = "replied" /\ r.mode = p.mode /\ r.cmd = p.cmd
      /\ r.polls = p.polls /\ r.sure = sure
  BY <1>1 DEF Process
<1> HIDE DEF r
<1>6. Fine(r)
  BY <1>1, <1>3, <1>5 DEF Fine
<1>7. QED
  BY <1>1, <1>2, <1>4, <1>6, SetInv DEF TypeOK

\* A process ends after an answer, or after an interruption.
LEMMA EndInv ==
  ASSUME ClientInv, NEW c \in Clients, NEW exit \in {0, 128},
         Set(c, Done(client[c], exit)), UNCHANGED <<image, changes>>,
         /\ exit = 0 /\ client[c].cmd = "pull" /\ client[c].sure
              => client[c].reply.status \in {"READY", "FAILURE", "HASHING"}
  PROVE  ClientInv'
<1> DEFINE p == client[c]
           d == Done(p, exit)
<1>1. p \in Process /\ TypeOK
  BY DEF ClientInv, TypeOK
<1>2. d \in Process
  BY <1>1, EndTyped
<1> HIDE DEF p
<1>3. /\ d.pc = "idle" /\ d.exit = exit /\ d.cmd = p.cmd
      /\ d.sure = p.sure
      /\ d.cmd = "pull" => d.reply = p.reply
  BY DEF Done, Idle
<1> HIDE DEF d
<1>4. Fine(d)
  BY <1>3 DEF Fine, p
<1>5. QED
  BY <1>1, <1>2, <1>4, SetInv DEF TypeOK, d, p

LEMMA ReceiveInv ==
  ASSUME ClientInv, NEW c \in Clients, Receive(c)
  PROVE  ClientInv'
<1> DEFINE p == client[c]
<1>1. /\ p \in Process /\ Fine(p) /\ p.pc = "replied"
      /\ UNCHANGED <<image, changes>> /\ TypeOK
  BY DEF ClientInv, TypeOK, Receive
<1>2. CASE p.polls /\ Something(p)
  <2> DEFINE r == [p EXCEPT !.pc = "sleep", !.mode = "pull"]
  <2>1. Set(c, r)
    BY <1>2 DEF Receive, PollEnds
  <2> HIDE DEF p
  <2>2. r \in Process
    BY <1>1 DEF Process
  <2>3. r.pc = "sleep" /\ r.polls = p.polls /\ r.cmd = p.cmd
    BY <1>1 DEF Process
  <2> HIDE DEF r
  <2>4. Fine(r)
    BY <1>1, <1>2, <2>3 DEF Fine
  <2>5. QED
    BY <1>1, <2>1, <2>2, <2>4, SetInv DEF TypeOK
<1>3. CASE p.polls /\ ~Something(p)
  <2>1. Set(c, Done(p, 0))
    BY <1>3 DEF Receive, PollEnds
  <2>2. p.sure => p.reply.status \in {"READY", "FAILURE", "HASHING"}
    BY <1>1, <1>3 DEF Something, Awaited, Fine, Status
  <2>3. QED
    BY <1>1, <2>1, <2>2, EndInv
<1>4. CASE ~p.polls /\ p.mode = "pull" /\ Something(p)
  <2> DEFINE r == [p EXCEPT !.pc = "sleep", !.polls = TRUE]
  <2>1. Set(c, r)
    BY <1>4 DEF Receive
  <2> HIDE DEF p
  <2>2. r \in Process
    BY <1>1 DEF Process
  <2>3. r.pc = "sleep" /\ r.polls = TRUE /\ r.cmd = p.cmd
    BY <1>1 DEF Process
  <2> HIDE DEF r
  <2>4. Fine(r)
    BY <1>1, <1>4, <2>3 DEF Fine
  <2>5. QED
    BY <1>1, <2>1, <2>2, <2>4, SetInv DEF TypeOK
<1>5. CASE ~p.polls /\ p.mode # "pull" /\ Something(p)
  <2>1. Set(c, Done(p, 0))
    BY <1>5 DEF Receive
  <2>2. p.cmd # "pull"
    BY <1>1, <1>5 DEF Fine
  <2>3. QED
    BY <1>1, <2>1, <2>2, EndInv
<1>6. CASE ~p.polls /\ ~Something(p)
  <2> DEFINE r == [p EXCEPT !.pc = "ask"]
  <2>1. Set(c, r)
    BY <1>6 DEF Receive
  <2> HIDE DEF p
  <2>2. r \in Process
    BY <1>1 DEF Process
  <2>3. r.pc = "ask" /\ r.polls = p.polls /\ r.cmd = p.cmd /\ r.mode = p.mode
    BY <1>1 DEF Process
  <2> HIDE DEF r
  <2>4. Fine(r)
    BY <1>1, <1>6, <2>3 DEF Fine
  <2>5. QED
    BY <1>1, <2>1, <2>2, <2>4, SetInv DEF TypeOK
<1>7. QED
  BY <1>2, <1>3, <1>4, <1>5, <1>6

LEMMA PollInv ==
  ASSUME ClientInv, NEW c \in Clients, Poll(c)
  PROVE  ClientInv'
<1> DEFINE p == client[c]
           r == [p EXCEPT !.pc = "sent", !.mode = "pullnb"]
<1>1. /\ p \in Process /\ Fine(p) /\ p.pc = "sleep"
      /\ UNCHANGED <<image, changes>> /\ TypeOK /\ Set(c, r)
  BY DEF ClientInv, TypeOK, Poll
<1> HIDE DEF p
<1>2. r \in Process
  BY <1>1 DEF Process
<1>3. r.pc = "sent" /\ r.polls = p.polls /\ r.cmd = p.cmd /\ r.mode = "pullnb"
  BY <1>1 DEF Process
<1> HIDE DEF r
<1>4. Fine(r)
  BY <1>1, <1>3 DEF Fine
<1>5. QED
  BY <1>1, <1>2, <1>4, SetInv DEF TypeOK

LEMMA InterruptInv ==
  ASSUME ClientInv, NEW c \in Clients, Interrupt(c)
  PROVE  ClientInv'
BY EndInv DEF Interrupt

LEMMA ImageInv ==
  ASSUME ClientInv, Advance \/ Import
  PROVE  ClientInv'
<1>1. image' \in Status /\ changes' \in 0 .. MaxChanges /\ client' = client
  <2>1. CASE Advance
    BY <2>1, StageFacts DEF Advance, ClientInv, TypeOK
  <2>2. CASE Import
    BY <2>2, StageFacts, ClientAssumption DEF Import, ClientInv, TypeOK
  <2>3. QED
    BY <2>1, <2>2
<1>2. QED
  BY <1>1 DEF ClientInv, TypeOK

LEMMA InitClientInv ==
  ASSUME Init
  PROVE  ClientInv
<1>1. Idle \in Process
  BY ClientAssumption DEF Idle, Process
<1>2. Idle.pc = "idle" /\ Idle.cmd = "lookup"
  BY DEF Idle
<1>3. Fine(Idle)
  BY <1>2 DEF Fine
<1>4. QED
  BY <1>1, <1>3, ClientAssumption DEF Init, ClientInv, TypeOK, Status

\* The statuses on which a pull is polled again are all those that a worker
\* posts before the pull is over, and the mode that polling changes does not
\* outlive the poll.
THEOREM PollsToTheEnd == Spec => []ClientInv
<1>1. ClientInv /\ [Next]_vars => ClientInv'
  <2> SUFFICES ASSUME ClientInv, [Next]_vars
               PROVE  ClientInv'
    OBVIOUS
  <2>1. CASE Advance \/ Import
    BY <2>1, ImageInv
  <2>2. ASSUME NEW c \in Clients,
               Start(c) \/ Run(c) \/ Serve(c) \/ Lose(c) \/ Interrupt(c)
        PROVE  ClientInv'
    BY <2>2, StartInv, AskInv, ReceiveInv, PollInv, ServeInv, LoseInv,
       InterruptInv DEF Run
  <2>3. CASE UNCHANGED vars
    BY <2>3 DEF vars, ClientInv, TypeOK
  <2>4. QED
    BY <2>1, <2>2, <2>3 DEF Next
<1>2. QED
  BY <1>1, InitClientInv, PTL DEF Spec

\* Every variable of Client keeps its type.
THEOREM ClientTypeCorrect == Spec => []TypeOK
BY PollsToTheEnd, PTL DEF ClientInv

\* PullWaits: a blocking pull that returns 0, and lost no answer to a poll,
\* has seen the pull end; and a gateway is asked for what the user wants.
THEOREM PullsWait == Spec => []PullWaits
<1>1. ClientInv => PullWaits
  BY DEF ClientInv, Fine, PullWaits
<1>2. QED
  BY <1>1, PollsToTheEnd, PTL

-----------------------------------------------------------------------------
(* Login: the lines of the file and of what a login is about to write.     *)

\* A set of numbers up to n has a least and a greatest.
LEMMA LeastOf ==
  ASSUME NEW S, S \subseteq Nat, S # {}
  PROVE  \E x \in S : \A y \in S : x =< y
<1> DEFINE R == OpToRel(<, Nat)
<1>1. PICK x \in S : \A y \in S : ~(<<y, x>> \in R)
  <2>1. IsWellFoundedOn(R, Nat)
    BY NatLessThanWellFounded
  <2> HIDE DEF R
  <2> QED
    BY <2>1, WFMin
<1>2. ASSUME NEW y \in S
      PROVE  x =< y
  <2>1. y \in Nat /\ x \in Nat
    OBVIOUS
  <2>2. y < x => <<y, x>> \in R
    BY <2>1 DEF OpToRel
  <2> HIDE DEF R
  <2> QED
    BY <1>1, <2>1, <2>2
<1> HIDE DEF R
<1> QED
  BY <1>2

LEMMA GreatestOf ==
  ASSUME NEW n \in Nat, NEW S, S \subseteq 1 .. n, S # {}
  PROVE  \E x \in S : \A y \in S : y =< x
<1> DEFINE T == {n - y : y \in S}
<1>1. T \subseteq Nat /\ T # {}
  <2>1. \A y \in S : n - y \in Nat
    OBVIOUS
  <2> QED
    BY <2>1
<1>2. PICK t \in T : \A u \in T : t =< u
  <2> HIDE DEF T
  <2> QED
    BY <1>1, LeastOf
<1>3. PICK x \in S : t = n - x
  OBVIOUS
<1>4. ASSUME NEW y \in S
      PROVE  y =< x
  <2>1. n - y \in T
    OBVIOUS
  <2>2. n - x =< n - y
    BY <1>2, <1>3, <2>1
  <2>3. x \in 1 .. n /\ y \in 1 .. n
    OBVIOUS
  <2> QED
    BY <2>2, <2>3
<1> QED
  BY <1>4

\* Lines of entries, each with a credential that was made for its entry.
Lined(list) ==
  /\ list \in Seq(Entries \X Nat)
  /\ \A i \in DOMAIN list : /\ list[i][2] \in 1 .. Len(made)
                            /\ made[list[i][2]][1] = list[i][1]

\* No entry has two lines.
Single(list) ==
  \A i \in DOMAIN list, j \in DOMAIN list : list[i][1] = list[j][1] => i = j

\* The value of an entry is that of one of its lines.
LEMMA ValueOfLine ==
  ASSUME NEW list \in Seq(Entries \X Nat), NEW e
  PROVE  \/ Value(list, e) = 0 /\ Lines(list, e) = {}
         \/ \E i \in Lines(list, e) : Value(list, e) = list[i][2]
<1>1. CASE Lines(list, e) = {}
  BY <1>1 DEF Value
<1>2. CASE Lines(list, e) # {}
  <2>1. Lines(list, e) \subseteq 1 .. Len(list) /\ Len(list) \in Nat
    BY DEF Lines
  <2>2. \E x \in Lines(list, e) : \A y \in Lines(list, e) : y =< x
    BY <1>2, <2>1, GreatestOf
  <2> QED
    BY <1>2, <2>2 DEF Value
<1> QED
  BY <1>1, <1>2

LEMMA ValueOfSingle ==
  ASSUME NEW list \in Seq(Entries \X Nat), Single(list), NEW i \in DOMAIN list
  PROVE  Value(list, list[i][1]) = list[i][2]
<1>1. i \in Lines(list, list[i][1])
  BY DEF Lines
<1>2. \A j \in Lines(list, list[i][1]) : j = i
  BY DEF Lines, Single
<1> QED
  BY <1>1, <1>2, ValueOfLine

\* Replace leaves lines of the same entries, and of its own entry at least
\* one with the new credential; the others keep theirs.
Updates(new, list, entry, n) ==
  /\ new \in Seq(Entries \X Nat)
  /\ \A i \in DOMAIN new : \/ new[i][1] = entry /\ new[i][2] = n
                           \/ i \in DOMAIN list /\ new[i] = list[i]
  /\ \A i \in DOMAIN list : i \in DOMAIN new /\ new[i][1] = list[i][1]
  /\ \E i \in DOMAIN new : new[i][1] = entry /\ new[i][2] = n
  /\ Single(list) => Single(new)

LEMMA Replaced ==
  ASSUME NEW list \in Seq(Entries \X Nat), NEW entry \in Entries, NEW n \in Nat,
         NEW new, new = Replace(list, entry, n)
  PROVE  Updates(new, list, entry, n)
<1>1. CASE Lines(list, entry) = {}
  <2>1. new = Append(list, <<entry, n>>) /\ <<entry, n>> \in Entries \X Nat
    BY <1>1 DEF Replace
  <2>2. /\ new \in Seq(Entries \X Nat) /\ DOMAIN list = 1 .. Len(list)
        /\ DOMAIN new = 1 .. Len(list) + 1 /\ Len(list) \in Nat
        /\ new[Len(list) + 1][1] = entry /\ new[Len(list) + 1][2] = n
        /\ \A i \in 1 .. Len(list) : new[i] = list[i]
    BY <2>1
  <2>3. \A i \in DOMAIN list : list[i][1] # entry
    BY <1>1 DEF Lines
  <2>4. ASSUME Single(list), NEW i \in DOMAIN new, NEW j \in DOMAIN new, new[i][1] = new[j][1]
        PROVE  i = j
    <3>1. CASE i \in DOMAIN list /\ j \in DOMAIN list
      <4>1. list[i][1] = list[j][1]
        BY <2>2, <2>4, <3>1
      <4> QED
        BY <2>4, <3>1, <4>1 DEF Single
    <3>2. CASE i \notin DOMAIN list \/ j \notin DOMAIN list
      BY <2>2, <2>3, <2>4, <3>2
    <3> QED
      BY <3>1, <3>2
  <2> QED
    <3>1. Single(list) => Single(new)
      BY <2>4 DEF Single
    <3>2. \A i \in DOMAIN new :
            \/ new[i][1] = entry /\ new[i][2] = n
            \/ i \in DOMAIN list /\ new[i] = list[i]
      BY <2>2
    <3>3. \A i \in DOMAIN list : i \in DOMAIN new /\ new[i][1] = list[i][1]
      BY <2>2
    <3>4. \E i \in DOMAIN new : new[i][1] = entry /\ new[i][2] = n
      BY <2>2
    <3> QED
      BY <2>2, <3>1, <3>2, <3>3, <3>4 DEF Updates
<1>2. CASE Lines(list, entry) # {}
  <2> DEFINE first == CHOOSE i \in Lines(list, entry) : \A j \in Lines(list, entry) : i =< j
  <2>1. Lines(list, entry) \subseteq Nat
    BY DEF Lines
  <2>2. \E x \in Lines(list, entry) : \A y \in Lines(list, entry) : x =< y
    BY <1>2, <2>1, LeastOf
  <2>3. first \in Lines(list, entry)
    BY <2>2
  <2>4. new = [list EXCEPT ![first] = <<list[first][1], n>>]
    BY <1>2 DEF Replace
  <2> HIDE DEF first
  <2>5. first \in DOMAIN list /\ list[first][1] = entry
    BY <2>3 DEF Lines
  <2>6. <<entry, n>> \in Entries \X Nat
    OBVIOUS
  <2>7. new = [list EXCEPT ![first] = <<entry, n>>]
    BY <2>4, <2>5
  <2>8. /\ new \in Seq(Entries \X Nat) /\ DOMAIN new = DOMAIN list
        /\ new[first][1] = entry /\ new[first][2] = n
        /\ \A i \in DOMAIN list : i # first => new[i] = list[i]
    BY <2>5, <2>6, <2>7
  <2>9. \A i \in DOMAIN list : new[i][1] = list[i][1]
    BY <2>5, <2>8
  <2>10. Single(list) => Single(new)
    BY <2>8, <2>9 DEF Single
  <2> QED
    BY <2>5, <2>8, <2>9, <2>10 DEF Updates
<1> QED
  BY <1>1, <1>2

LEMMA ReplacedLined ==
  ASSUME NEW list, Lined(list), NEW entry \in Entries, NEW typed,
         made \in Seq(Entries \X BOOLEAN), typed \in BOOLEAN,
         made' = Append(made, <<entry, typed>>), NEW new,
         new = Replace(list, entry, Len(made) + 1)
  PROVE  Lined(new)'
<1> DEFINE n == Len(made) + 1
<1>1. /\ n \in Nat /\ Len(made) \in Nat /\ Len(made') = n /\ made'[n][1] = entry
      /\ \A i \in 1 .. Len(made) : made'[i] = made[i]
  OBVIOUS
<1> HIDE DEF n
<1>2. list \in Seq(Entries \X Nat)
  BY DEF Lined
<1>3. new = Replace(list, entry, n)
  BY DEF n
<1>4. /\ new \in Seq(Entries \X Nat)
      /\ \A i \in DOMAIN new :
           \/ new[i][1] = entry /\ new[i][2] = n
           \/ i \in DOMAIN list /\ new[i] = list[i]
  <2>1. n \in Nat
    BY <1>1
  <2> QED
    <3>1. Updates(new, list, entry, n)
      BY <1>2, <1>3, <2>1, Replaced
    <3> QED
      BY <3>1 DEF Updates
<1>5. \A i \in DOMAIN new : /\ new[i][2] \in 1 .. Len(made')
                            /\ made'[new[i][2]][1] = new[i][1]
  <2> TAKE i \in DOMAIN new
  <2>1. CASE new[i][1] = entry /\ new[i][2] = n
    BY <1>1, <2>1
  <2>2. CASE i \in DOMAIN list /\ new[i] = list[i]
    <3>1. list[i][2] \in 1 .. Len(made) /\ made[list[i][2]][1] = list[i][1]
      BY <2>2 DEF Lined
    <3>2. list[i][2] \in 1 .. Len(made')
      BY <1>1, <3>1 DEF n
    <3> QED
      BY <1>1, <2>2, <3>1, <3>2
  <2> QED
    BY <1>4, <2>1, <2>2
<1> QED
  BY <1>4, <1>5 DEF Lined

\* Lines stay such while credentials are made.
LEMMA StayLined ==
  ASSUME NEW list, Lined(list), made \in Seq(Entries \X BOOLEAN), NEW line,
         line \in Entries \X BOOLEAN, made' = Append(made, line)
  PROVE  Lined(list)'
<1>1. /\ Len(made) \in Nat /\ Len(made') = Len(made) + 1
      /\ \A i \in 1 .. Len(made) : made'[i] = made[i]
  OBVIOUS
<1> QED
  BY <1>1 DEF Lined

\* What a writer leaves of the lines of another is lines.
LEMMA OverwrittenLined ==
  ASSUME NEW list, Lined(list), NEW old, Lined(old), NEW k \in Nat \ {0}, NEW new,
         new = list \o SubSeq(old, k, Len(old))
  PROVE  Lined(new)
<1> DEFINE tail == SubSeq(old, k, Len(old))
<1>1. list \in Seq(Entries \X Nat) /\ old \in Seq(Entries \X Nat) /\ Len(old) \in Nat
  BY DEF Lined
<1>2. \A i \in k .. Len(old) : i \in DOMAIN old /\ old[i] \in Entries \X Nat
  BY <1>1
<1>3. /\ tail \in Seq(Entries \X Nat)
      /\ Len(tail) = (IF k =< Len(old) THEN Len(old) - k + 1 ELSE 0)
      /\ \A i \in 1 .. Len(old) - k + 1 : tail[i] = old[k + i - 1]
  BY <1>1, <1>2, SubSeqProperties
<1> HIDE DEF tail
<1>4. new = list \o tail
  BY DEF tail
<1>5. ASSUME NEW i \in DOMAIN tail
      PROVE  k + i - 1 \in DOMAIN old /\ tail[i] = old[k + i - 1]
  <2>1. DOMAIN old = 1 .. Len(old)
    BY <1>1
  <2>2. tail \in Seq(Entries \X Nat)
    BY <1>3
  <2>3. i \in 1 .. Len(tail)
    BY <2>2
  <2>4. Len(tail) = (IF k =< Len(old) THEN Len(old) - k + 1 ELSE 0)
    BY <1>3
  <2>5. Len(old) \in Nat
    BY <1>1
  <2>6. k =< Len(old) /\ i \in 1 .. Len(old) - k + 1
    BY <2>3, <2>4, <2>5
  <2>7. tail[i] = old[k + i - 1]
    BY <1>3, <2>6
  <2>8. k + i - 1 \in 1 .. Len(old)
    BY <2>5, <2>6
  <2> QED
    BY <2>1, <2>7, <2>8
<1>6. /\ new \in Seq(Entries \X Nat) /\ Len(list) \in Nat
      /\ \A i \in DOMAIN new : \/ i \in DOMAIN list /\ new[i] = list[i]
                               \/ i - Len(list) \in DOMAIN tail /\ new[i] = tail[i - Len(list)]
  BY <1>1, <1>3, <1>4
<1>7. \A i \in DOMAIN new : \/ \E j \in DOMAIN list : new[i] = list[j]
                            \/ \E j \in DOMAIN old : new[i] = old[j]
  BY <1>5, <1>6
<1>8. ASSUME NEW i \in DOMAIN new
      PROVE  /\ new[i][2] \in 1 .. Len(made)
             /\ made[new[i][2]][1] = new[i][1]
  <2>1. CASE \E j \in DOMAIN list : new[i] = list[j]
    BY <2>1 DEF Lined
  <2>2. CASE \E j \in DOMAIN old : new[i] = old[j]
    BY <2>2 DEF Lined
  <2> QED
    BY <1>7, <2>1, <2>2
<1> QED
  BY <1>6, <1>8 DEF Lined

\* While no two lines are of one entry, an update gives its entry the new
\* credential and leaves all others theirs.
LEMMA UpdatedValue ==
  ASSUME NEW list \in Seq(Entries \X Nat), Single(list), NEW entry \in Entries,
         NEW n \in Nat, NEW new, Updates(new, list, entry, n), NEW e \in Entries
  PROVE  Value(new, e) = IF e = entry THEN n ELSE Value(list, e)
<1>1. new \in Seq(Entries \X Nat) /\ Single(new)
  BY DEF Updates
<1>2. CASE e = entry
  <2>1. PICK i \in DOMAIN new : new[i][1] = entry /\ new[i][2] = n
    BY DEF Updates
  <2> QED
    BY <1>1, <1>2, <2>1, ValueOfSingle
<1>3. CASE e # entry /\ Lines(list, e) = {}
  <2>1. Value(list, e) = 0
    BY <1>3 DEF Value
  <2>2. Lines(new, e) = {}
    BY <1>3 DEF Lines, Updates
  <2> QED
    BY <1>3, <2>1, <2>2 DEF Value
<1>4. CASE e # entry /\ Lines(list, e) # {}
  <2>1. PICK i \in DOMAIN list : list[i][1] = e
    BY <1>4 DEF Lines
  <2>2. i \in DOMAIN new /\ new[i][1] = e
    BY <2>1 DEF Updates
  <2>3. new[i] = list[i]
    BY <1>4, <2>1, <2>2 DEF Updates
  <2>4. Value(list, e) = list[i][2]
    BY <2>1, ValueOfSingle
  <2>5. Value(new, e) = new[i][2]
    BY <1>1, <2>2, ValueOfSingle
  <2> QED
    BY <1>4, <2>3, <2>4, <2>5
<1> QED
  BY <1>2, <1>3, <1>4

LEMMA NothingWritten ==
  /\ Lined(<<>>) /\ Single(<<>>)
  /\ \A e : Value(<<>>, e) = 0
<1>1. <<>> \in Seq(Entries \X Nat) /\ DOMAIN <<>> = {}
  OBVIOUS
<1> QED
  BY <1>1 DEF Lined, Single, Value, Lines

LEMMA LinedStays ==
  ASSUME NEW list, Lined(list), UNCHANGED made
  PROVE  Lined(list)'
BY DEF Lined

-----------------------------------------------------------------------------
(* Login: what holds of the file and of the logins.                        *)

LoginTyped ==
  /\ login \in [Shells -> [pc : {"none", "open", "write"}, entry : Entries \cup {NoLogin.entry},
                           n : Nat, list : Seq(Entries \X Nat)]]
  /\ \A p \in Shells : login[p].pc # "none" => login[p].entry \in Entries /\ Lined(login[p].list)
  /\ made \in Seq(Entries \X BOOLEAN) /\ latest \in [Entries -> Nat]
  /\ apart \in BOOLEAN /\ whole \in BOOLEAN
  /\ Lined(cred)

\* A value of the last login, and no other unless one was interrupted.
UpToDate(value, e) == value \in {0, latest[e]} /\ (whole => value = latest[e])

\* The login p, alone, writes what the file had, and its own credential.
Rewrites(p) ==
  /\ Single(login[p].list)
  /\ Value(login[p].list, login[p].entry) = login[p].n
  /\ \A e \in Entries : e # login[p].entry => UpToDate(Value(login[p].list, e), e)
  /\ login[p].pc = "write" => cred = <<>>

AloneInv ==
  /\ \A p \in Shells, q \in Shells : login[p].pc # "none" /\ login[q].pc # "none" => p = q
  /\ Single(cred)
  /\ \A e \in Entries : Value(cred, e) \in {0, latest[e]}
  /\ whole /\ (\A p \in Shells : login[p].pc # "write") =>
       \A e \in Entries : Value(cred, e) = latest[e]
  /\ \A p \in Shells : login[p].pc # "none" => Rewrites(p)

LoginInv == LoginTyped /\ (apart => AloneInv)

LEMMA LoginInvInit ==
  ASSUME LoginInit
  PROVE  LoginInv
<1>1. /\ login = [p \in Shells |-> NoLogin] /\ cred = <<>> /\ made = <<>>
      /\ latest = [e \in Entries |-> 0] /\ apart = TRUE /\ whole = TRUE
  BY DEF LoginInit
<1>2. \A p \in Shells : login[p] = NoLogin
  BY <1>1
<1>3. NoLogin.pc = "none"
  BY DEF NoLogin
<1>4. LoginTyped
  <2>1. NoLogin \in [pc : {"none", "open", "write"}, entry : Entries \cup {NoLogin.entry},
                     n : Nat, list : Seq(Entries \X Nat)]
    BY DEF NoLogin
  <2>2. made \in Seq(Entries \X BOOLEAN) /\ latest \in [Entries -> Nat]
    BY <1>1
  <2> QED
    BY <1>1, <1>2, <1>3, <2>1, <2>2, NothingWritten DEF LoginTyped
<1>5. AloneInv
  BY <1>1, <1>2, <1>3, NothingWritten DEF AloneInv
<1> QED
  BY <1>4, <1>5 DEF LoginInv

LEMMA LogInInv ==
  ASSUME LoginInv, NEW p \in Shells, NEW entry \in Entries, LogIn(p, entry)
  PROVE  LoginInv'
<1>a. PICK n : n = Len(made) + 1
  OBVIOUS
<1>b. PICK list : list = Replace(cred, entry, n)
  OBVIOUS
<1> DEFINE process == [pc |-> "open", entry |-> entry, n |-> n, list |-> list]
<1>1. PICK typed \in BOOLEAN : made' = Append(made, <<entry, typed>>)
  BY DEF LogIn
<1>2. /\ login' = [login EXCEPT ![p] = process]
      /\ apart' = (apart /\ \A q \in Shells : login[q].pc = "none")
      /\ UNCHANGED <<cred, latest, whole>>
  BY <1>a, <1>b DEF LogIn
<1>3. LoginTyped
  BY DEF LoginInv
<1>4. made \in Seq(Entries \X BOOLEAN) /\ n \in Nat
  BY <1>3, <1>a DEF LoginTyped
<1>5. Lined(cred) /\ cred \in Seq(Entries \X Nat)
  BY <1>3 DEF LoginTyped, Lined
<1>6. Updates(list, cred, entry, n)
  BY <1>4, <1>5, <1>b, Replaced
<1>7. Lined(list)'
  BY <1>1, <1>4, <1>5, <1>a, <1>b, ReplacedLined
<1>8. \A l : Lined(l) => Lined(l)'
  <2>1. <<entry, typed>> \in Entries \X BOOLEAN
    OBVIOUS
  <2> QED
    BY <1>1, <1>4, <2>1, StayLined
<1>9. /\ process.pc = "open" /\ process.entry = entry /\ process.n = n /\ process.list = list
      /\ process \in [pc : {"none", "open", "write"}, entry : Entries \cup {NoLogin.entry},
                      n : Nat, list : Seq(Entries \X Nat)]
  BY <1>4, <1>6 DEF Updates
<1> HIDE DEF process
<1>10. \A q \in Shells : login'[q] = IF q = p THEN process ELSE login[q]
  BY <1>2, <1>3 DEF LoginTyped
<1>11. LoginTyped'
  <2>1. login' \in [Shells -> [pc : {"none", "open", "write"}, entry : Entries \cup {NoLogin.entry},
                               n : Nat, list : Seq(Entries \X Nat)]]
    BY <1>2, <1>3, <1>9 DEF LoginTyped
  <2>2. made' \in Seq(Entries \X BOOLEAN)
    BY <1>1, <1>4
  <2>3. Lined(cred)'
    BY <1>2, <1>5, <1>8 DEF Lined
  <2>4. ASSUME NEW q \in Shells, login'[q].pc # "none"
        PROVE  login'[q].entry \in Entries /\ Lined(login[q].list)'
    <3>1. CASE q = p
      <4>1. login'[q].entry = entry /\ login'[q].list = list
        BY <1>9, <1>10, <3>1
      <4> QED
        BY <1>7, <4>1 DEF Lined
    <3>2. CASE q # p
      <4>1. login'[q] = login[q]
        BY <1>10, <3>2
      <4>2. login[q].entry \in Entries /\ Lined(login[q].list)
        BY <1>3, <2>4, <4>1 DEF LoginTyped
      <4>3. Lined(login[q].list) => /\ login[q].list \in Seq(Entries \X Nat)
              /\ \A i \in DOMAIN login[q].list :
                   /\ login[q].list[i][2] \in 1 .. Len(made')
                   /\ made'[login[q].list[i][2]][1] = login[q].list[i][1]
        BY <1>8 DEF Lined
      <4> QED
        BY <4>1, <4>2, <4>3 DEF Lined
    <3> QED
      BY <3>1, <3>2
  <2> QED
    BY <1>2, <1>3, <2>1, <2>2, <2>3, <2>4 DEF LoginTyped
<1>12. ASSUME apart'
       PROVE  AloneInv'
  <2>1. AloneInv /\ \A q \in Shells : login[q].pc = "none"
    BY <1>2, <1>3, <1>12 DEF LoginInv, LoginTyped
  <2>2. Single(cred)
    BY <2>1 DEF AloneInv
  <2>3. \A q \in Shells : login'[q].pc # "none" => q = p
    BY <1>10, <2>1
  <2>4. Single(list)
    BY <1>6, <2>2 DEF Updates
  <2>5. \A e \in Entries : Value(list, e) = IF e = entry THEN n ELSE Value(cred, e)
    BY <1>4, <1>5, <1>6, <2>2, UpdatedValue
  <2>6. \A e \in Entries : Value(cred, e) \in {0, latest[e]} /\ (whole => Value(cred, e) = latest[e])
    BY <2>1 DEF AloneInv
  <2>7. Rewrites(p)'
    BY <1>2, <1>9, <1>10, <2>4, <2>5, <2>6 DEF Rewrites, UpToDate
  <2> QED
    BY <1>2, <2>2, <2>3, <2>6, <2>7 DEF AloneInv
<1> QED
  BY <1>11, <1>12 DEF LoginInv

LEMMA OpenInv ==
  ASSUME LoginInv, NEW p \in Shells, Open(p)
  PROVE  LoginInv'
<1>1. /\ login[p].pc = "open" /\ cred' = <<>>
      /\ login' = [login EXCEPT ![p] = [@ EXCEPT !.pc = "write"]]
      /\ UNCHANGED <<made, latest, apart, whole>>
  BY DEF Open
<1>2. LoginTyped
  BY DEF LoginInv
<1>3. /\ \A q \in Shells : q # p => login'[q] = login[q]
      /\ login'[p].pc = "write" /\ login'[p].entry = login[p].entry
      /\ login'[p].n = login[p].n /\ login'[p].list = login[p].list
      /\ login' \in [Shells -> [pc : {"none", "open", "write"}, entry : Entries \cup {NoLogin.entry},
                                n : Nat, list : Seq(Entries \X Nat)]]
  BY <1>1, <1>2 DEF LoginTyped
<1>4. LoginTyped'
  <2>1. ASSUME NEW q \in Shells, login'[q].pc # "none"
        PROVE  login'[q].entry \in Entries /\ Lined(login[q].list)'
    <3>1. login[q].pc # "none" /\ login'[q].entry = login[q].entry /\ login'[q].list = login[q].list
      BY <1>1, <1>3, <2>1
    <3> QED
      BY <1>1, <1>2, <3>1 DEF LoginTyped, Lined
  <2> QED
    BY <1>1, <1>2, <1>3, <2>1, NothingWritten DEF LoginTyped, Lined
<1>5. ASSUME apart
      PROVE  AloneInv'
  <2>1. AloneInv
    BY <1>5 DEF LoginInv
  <2>2. \A q \in Shells : login'[q].pc # "none" => q = p
    BY <1>1, <1>3, <2>1 DEF AloneInv
  <2>3. Rewrites(p)
    BY <1>1, <2>1 DEF AloneInv
  <2>4. Rewrites(p)'
    BY <1>1, <1>3, <2>3 DEF Rewrites, UpToDate
  <2> QED
    BY <1>1, <1>3, <2>2, <2>4, NothingWritten DEF AloneInv
<1> QED
  BY <1>1, <1>4, <1>5 DEF LoginInv

LEMMA WriteInv ==
  ASSUME LoginInv, NEW p \in Shells, Write(p)
  PROVE  LoginInv'
<1> DEFINE list == login[p].list
           entry == login[p].entry
           n == login[p].n
<1>1. /\ login[p].pc = "write"
      /\ latest' = [latest EXCEPT ![entry] = n]
      /\ login' = [login EXCEPT ![p] = NoLogin]
      /\ UNCHANGED <<made, apart, whole>>
  BY DEF Write
<1>2. PICK k \in {1, 2} : cred' = list \o SubSeq(cred, Len(list) + k, Len(cred))
  BY DEF Write
<1>3. LoginTyped
  BY DEF LoginInv
<1>4. entry \in Entries /\ Lined(list) /\ Lined(cred) /\ n \in Nat
  BY <1>1, <1>3 DEF LoginTyped
<1> HIDE DEF list, entry, n
<1>5. list \in Seq(Entries \X Nat) /\ Len(list) \in Nat
  BY <1>4 DEF Lined
<1>6. Lined(cred)'
  <2> DEFINE new == list \o SubSeq(cred, Len(list) + k, Len(cred))
  <2>1. Len(list) + k \in Nat \ {0}
    BY <1>5
  <2>2. Lined(new)
    BY <1>4, <2>1, OverwrittenLined
  <2> HIDE DEF new
  <2>3. cred' = new
    BY <1>2 DEF new
  <2> QED
    BY <1>1, <2>2, <2>3 DEF Lined
<1>7. /\ \A q \in Shells : login'[q] = IF q = p THEN NoLogin ELSE login[q]
      /\ NoLogin.pc = "none"
      /\ login' \in [Shells -> [pc : {"none", "open", "write"}, entry : Entries \cup {NoLogin.entry},
                                n : Nat, list : Seq(Entries \X Nat)]]
  <2>1. NoLogin.pc = "none"
    BY DEF NoLogin
  <2>2. NoLogin \in [pc : {"none", "open", "write"}, entry : Entries \cup {NoLogin.entry},
                     n : Nat, list : Seq(Entries \X Nat)]
    BY DEF NoLogin
  <2> QED
    BY <1>1, <1>3, <2>1, <2>2 DEF LoginTyped
<1>8. /\ latest' \in [Entries -> Nat]
      /\ \A e \in Entries : latest'[e] = IF e = entry THEN n ELSE latest[e]
  BY <1>1, <1>3, <1>4 DEF LoginTyped
<1>9. LoginTyped'
  <2>1. ASSUME NEW q \in Shells, login'[q].pc # "none"
        PROVE  login'[q].entry \in Entries /\ Lined(login[q].list)'
    <3>1. login'[q] = login[q] /\ login[q].pc # "none"
      BY <1>7, <2>1
    <3>2. login[q].entry \in Entries /\ Lined(login[q].list)
      BY <1>3, <3>1 DEF LoginTyped
    <3> QED
      BY <1>1, <3>1, <3>2 DEF Lined
  <2> QED
    BY <1>1, <1>3, <1>6, <1>7, <1>8, <2>1 DEF LoginTyped
<1>10. ASSUME apart
       PROVE  AloneInv'
  <2>1. AloneInv
    BY <1>10 DEF LoginInv
  <2>2. /\ Single(list) /\ Value(list, entry) = n /\ cred = <<>>
        /\ \A e \in Entries : e # entry => UpToDate(Value(list, e), e)
    BY <1>1, <2>1 DEF AloneInv, Rewrites, list, entry, n
  <2>3. cred' = list
    <3>1. SubSeq(cred, Len(list) + k, Len(cred)) = <<>>
      <4>1. Len(cred) = 0
        BY <2>2
      <4>2. Len(list) + k \in Int /\ Len(cred) \in Int /\ Len(cred) < Len(list) + k
        BY <1>5, <4>1
      <4> QED
        BY <4>2, SubSeqEmpty
    <3>2. list \o <<>> = list
      BY <1>5
    <3> QED
      BY <1>2, <3>1, <3>2
  <2>4. \A q \in Shells : login'[q].pc = "none"
    BY <1>1, <1>7, <2>1 DEF AloneInv
  <2>5. ASSUME NEW e \in Entries
        PROVE  /\ Value(list, e) \in {0, latest'[e]}
               /\ whole => Value(list, e) = latest'[e]
    <3>1. CASE e = entry
      BY <1>8, <2>2, <3>1
    <3>2. CASE e # entry
      BY <1>8, <2>2, <3>2 DEF UpToDate
    <3> QED
      BY <3>1, <3>2
  <2> QED
    BY <1>1, <2>2, <2>3, <2>4, <2>5 DEF AloneInv
<1> QED
  BY <1>1, <1>9, <1>10 DEF LoginInv

LEMMA KillInv ==
  ASSUME LoginInv, NEW p \in Shells, Kill(p)
  PROVE  LoginInv'
<1>1. /\ login[p].pc # "none"
      /\ login' = [login EXCEPT ![p] = NoLogin]
      /\ whole' = (whole /\ login[p].pc = "open")
      /\ UNCHANGED <<cred, made, latest, apart>>
  BY DEF Kill
<1>2. LoginTyped
  BY DEF LoginInv
<1>3. /\ \A q \in Shells : login'[q] = IF q = p THEN NoLogin ELSE login[q]
      /\ NoLogin.pc = "none"
      /\ login' \in [Shells -> [pc : {"none", "open", "write"}, entry : Entries \cup {NoLogin.entry},
                                n : Nat, list : Seq(Entries \X Nat)]]
  <2>1. NoLogin.pc = "none"
    BY DEF NoLogin
  <2>2. NoLogin \in [pc : {"none", "open", "write"}, entry : Entries \cup {NoLogin.entry},
                     n : Nat, list : Seq(Entries \X Nat)]
    BY DEF NoLogin
  <2> QED
    BY <1>1, <1>2, <2>1, <2>2 DEF LoginTyped
<1>4. LoginTyped'
  <2>1. ASSUME NEW q \in Shells, login'[q].pc # "none"
        PROVE  login'[q].entry \in Entries /\ Lined(login[q].list)'
    <3>1. login'[q] = login[q] /\ login[q].pc # "none"
      BY <1>3, <2>1
    <3>2. login[q].entry \in Entries /\ Lined(login[q].list)
      BY <1>2, <3>1 DEF LoginTyped
    <3> QED
      BY <1>1, <3>1, <3>2 DEF Lined
  <2> QED
    BY <1>1, <1>2, <1>3, <2>1 DEF LoginTyped, Lined
<1>5. ASSUME apart
      PROVE  AloneInv'
  <2>1. AloneInv
    BY <1>5 DEF LoginInv
  <2>2. \A q \in Shells : login'[q].pc = "none"
    BY <1>1, <1>3, <2>1 DEF AloneInv
  <2>3. whole' => whole /\ \A q \in Shells : login[q].pc # "write"
    BY <1>1, <2>1 DEF AloneInv
  <2> QED
    BY <1>1, <2>1, <2>2, <2>3 DEF AloneInv
<1> QED
  BY <1>1, <1>4, <1>5 DEF LoginInv

\* A step that changes no variable of the invariant keeps it.
LEMMA LoginUnchanged ==
  ASSUME LoginInv, UNCHANGED <<login, cred, made, latest, apart, whole>>
  PROVE  LoginInv'
BY DEF LoginInv, LoginTyped, AloneInv, Rewrites, UpToDate, Lined

LEMMA LoginInvNext ==
  ASSUME LoginInv, [LoginNext]_lvars
  PROVE  LoginInv'
<1>1. ASSUME NEW p \in Shells, NEW entry \in Entries, LogIn(p, entry)
      PROVE  LoginInv'
  BY <1>1, LogInInv
<1>2. ASSUME NEW p \in Shells, Open(p) \/ Write(p) \/ Kill(p)
      PROVE  LoginInv'
  BY <1>2, OpenInv, WriteInv, KillInv
<1>3. ASSUME NEW sys \in Systems, Send(sys)
      PROVE  LoginInv'
  BY <1>3, LoginUnchanged DEF Send
<1>4. CASE UNCHANGED lvars
  BY <1>4, LoginUnchanged DEF lvars
<1> QED
  BY <1>1, <1>2, <1>3, <1>4 DEF LoginNext

\* CredsCurrent: what a command sends for a location was made by a login for
\* it on this system, however many logins overlap and are interrupted; while
\* none overlapped it is of the last login, or nothing once one was
\* interrupted or while one writes.
THEOREM CredsAreCurrent == LoginInit /\ [][LoginNext]_lvars => CredsCurrent
<1>1. ASSUME LoginInv, NEW sys \in Systems, Send(sys), NEW l \in Locations
      PROVE  LET e == <<sys, l>>  c == sent'[l]
             IN  /\ c # 0 => made[c][1] = e
                 /\ apart => c \in {0, latest[e]}
                 /\ apart /\ whole /\ (\A p \in Shells : login[p].pc # "write") => c = latest[e]
  <2> DEFINE e == <<sys, l>>
  <2>1. e \in Entries
    BY DEF Entries
  <2>2. sent'[l] = Value(cred, e)
    BY <1>1 DEF Send
  <2> HIDE DEF e
  <2>3. Lined(cred)
    BY <1>1 DEF LoginInv, LoginTyped
  <2>4. Value(cred, e) # 0 => made[Value(cred, e)][1] = e
    <3>1. cred \in Seq(Entries \X Nat)
      BY <2>3 DEF Lined
    <3>2. Value(cred, e) # 0 => \E i \in Lines(cred, e) : Value(cred, e) = cred[i][2]
      BY <3>1, ValueOfLine
    <3>3. \A i \in Lines(cred, e) : made[cred[i][2]][1] = e
      BY <2>3 DEF Lined, Lines
    <3> QED
      BY <3>2, <3>3
  <2>5. /\ apart => Value(cred, e) \in {0, latest[e]}
        /\ apart /\ whole /\ (\A p \in Shells : login[p].pc # "write") => Value(cred, e) = latest[e]
    BY <1>1, <2>1 DEF LoginInv, AloneInv
  <2> QED
    BY <2>2, <2>4, <2>5 DEF e
<1>2. LoginInv =>
        [ \A sys \in Systems : Send(sys) =>
            \A l \in Locations :
              LET e == <<sys, l>>  c == sent'[l]
              IN  /\ c # 0 => made[c][1] = e
                  /\ apart => c \in {0, latest[e]}
                  /\ apart /\ whole /\ (\A p \in Shells : login[p].pc # "write") => c = latest[e] ]_lvars
  BY <1>1
<1> QED
  BY <1>2, LoginInvInit, LoginInvNext, PTL DEF CredsCurrent
=============================================================================
