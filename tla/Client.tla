------------------------------- MODULE Client -------------------------------
(***************************************************************************)
(* shifterimg, the command line of the image gateway (src/shifterimg.c):   *)
(* how it asks one gateway after the other, how a pull is polled until it  *)
(* ends.  Login has the credentials it sends.                              *)
(*                                                                         *)
(* The gateways are external: they share one database, of which this       *)
(* module sees the status of one image; ImageMngr has the rest.  They give *)
(* a Content-Length and the type application/json, so that an answer with  *)
(* code 200 is complete (handleResponseHeader, handleResponseData).        *)
(***************************************************************************)
EXTENDS Naturals

CONSTANTS
  Clients, Commands,  \* shifterimg processes, and what each is called for
  Gateways,           \* how many there are in ImageGatewayUrl
  Faults,             \* what may go wrong, see CanFail
  MaxChanges          \* how often the image is expired, imported or pulled again

FaultKinds == {"lost", "refused", "die"}

ASSUME ClientAssumption ==
  /\ Commands \in [Clients -> SUBSET {"pull", "pullnb", "lookup", "expire"}]
  /\ Faults \subseteq FaultKinds
  /\ Gateways \in Nat \ {0}
  /\ MaxChanges \in Nat

VARIABLES
  image,    \* the status of the image in the database of the gateways
  changes,  \* how often it was expired, imported or pulled again
  client    \* the shifterimg processes

vars == <<image, changes, client>>

\* The words of the worker threads, in their order.
Stages   == <<"INIT", "PENDING", "PULLING", "EXAMINATION", "CONVERSION", "TRANSFER">>
InFlight == {Stages[i] : i \in DOMAIN Stages} \cup {"HASHING"}
Status   == InFlight \cup {"NONE", "READY", "FAILURE"}
Reply    == [code : {200, 404}, status : Status]
Lost     == [code |-> 0, status |-> "NONE"]

\* mode is changed while a pull is polled; left says how many gateways main
\* has not asked; sure says that no answer to a poll was lost.
Idle == [pc |-> "idle", cmd |-> "lookup", mode |-> "lookup",
         left |-> 0, polls |-> FALSE, reply |-> Lost, exit |-> 0, sure |-> TRUE]

Init ==
  /\ image = "NONE"
  /\ changes = 0
  /\ client = [c \in Clients |-> Idle]

Set(c, r) == client' = [client EXCEPT ![c] = r]

\* What is left of a process: how it ended.
Done(r, exit) == [Idle EXCEPT !.cmd = r.cmd, !.exit = exit, !.sure = r.sure,
                              !.reply = IF r.cmd = "pull" THEN r.reply ELSE Lost]

CanFail(kind) == kind \in Faults
-----------------------------------------------------------------------------
(* The gateways.                                                           *)

Advance ==
  /\ \/ \E i \in DOMAIN Stages :
          /\ image = Stages[i]
          /\ image' = IF i = 6 THEN "READY" ELSE Stages[i + 1]
     \/ image \in InFlight /\ image' = "FAILURE"
     \/ image = "HASHING" /\ image' = "TRANSFER"
  /\ UNCHANGED <<changes, client>>

\* An administrator imports an image under the same tag.
Import ==
  /\ changes < MaxChanges /\ image = "NONE"
  /\ image' = "HASHING"
  /\ changes' = changes + 1
  /\ UNCHANGED client

\* What a request makes of the image.  READY and FAILURE may be old enough
\* for another pull.
Effect(mode) ==
  \/ image' = image /\ UNCHANGED changes /\ (mode \in {"pull", "pullnb"} => image # "NONE")
  \/ mode \in {"pull", "pullnb"} /\ image = "NONE" /\ image' = "INIT" /\ UNCHANGED changes
  \/ /\ changes < MaxChanges
     /\ image \in {"READY", "FAILURE"}
     /\ image' = IF mode = "expire" THEN "NONE" ELSE "INIT"
     /\ mode # "lookup"
     /\ changes' = changes + 1

Answer(mode, status) ==
  [code |-> IF mode = "lookup" /\ status # "READY" THEN 404 ELSE 200, status |-> status]

Serve(c) ==
  /\ client[c].pc = "sent"
  /\ Effect(client[c].mode)
  /\ Set(c, [client[c] EXCEPT !.pc = "replied", !.reply = Answer(client[c].mode, image')])

\* The gateway is down, answers with an error, or its answer comes too late.
Lose(c) ==
  /\ \/ client[c].pc = "sent" /\ CanFail("refused")
     \/ client[c].pc = "replied" /\ CanFail("lost")
  /\ Set(c, [client[c] EXCEPT !.pc = "replied", !.reply = Lost,
                              !.sure = @ /\ ~client[c].polls])
  /\ client[c].reply # Lost \/ client[c].pc = "sent"
  /\ UNCHANGED <<image, changes>>
-----------------------------------------------------------------------------
(* shifterimg.                                                             *)

Start(c) ==
  /\ client[c].pc = "idle"
  /\ \E cmd \in Commands[c] :
       Set(c, [Idle EXCEPT !.pc = "ask", !.cmd = cmd, !.mode = cmd, !.left = Gateways])
  /\ UNCHANGED <<image, changes>>

\* main asks the gateways in random order, each once: all are alike.
Ask(c) ==
  /\ client[c].pc = "ask"
  /\ Set(c, IF client[c].left = 0
              THEN Done(client[c], 1)
              ELSE [client[c] EXCEPT !.pc = "sent", !.left = @ - 1])
  /\ UNCHANGED <<image, changes>>

\* Mistakes: a status is missing, or one is there that does not pass.
AwaitedButTransfer == InFlight \ {"HASHING", "TRANSFER"}
AwaitedFailure     == (InFlight \ {"HASHING"}) \cup {"FAILURE"}

\* The statuses on which a poll is repeated.
Awaited == InFlight \ {"HASHING"}

\* What queryGateway returns: NULL, or something.
Something(r) ==
  /\ r.reply.code = 200
  /\ r.mode = "pullnb" => r.reply.status \in Awaited

\* The loop in queryGateway ends with the poll that returns NULL, and then
\* returns what the first answer was kept in.
PollEnds(r) ==
  IF Something(r) THEN [r EXCEPT !.pc = "sleep", !.mode = "pull"]
                  ELSE Done(r, 0)

Receive(c) ==
  LET r == client[c]
  IN  /\ r.pc = "replied"
      /\ Set(c, CASE r.polls -> PollEnds(r)
                  [] ~r.polls /\ r.mode = "pull" /\ Something(r) ->
                       [r EXCEPT !.pc = "sleep", !.polls = TRUE]
                  [] ~r.polls /\ r.mode # "pull" /\ Something(r) ->
                       Done(r, 0)
                  [] OTHER -> [r EXCEPT !.pc = "ask"])
      /\ UNCHANGED <<image, changes>>

Poll(c) ==
  /\ client[c].pc = "sleep"
  /\ Set(c, [client[c] EXCEPT !.pc = "sent", !.mode = "pullnb"])
  /\ UNCHANGED <<image, changes>>
-----------------------------------------------------------------------------
\* The user interrupts a pull.
Interrupt(c) ==
  /\ CanFail("die")
  /\ client[c].pc = "sleep"
  /\ Set(c, Done(client[c], 128))
  /\ UNCHANGED <<image, changes>>
-----------------------------------------------------------------------------
Run(c) == Ask(c) \/ Receive(c) \/ Poll(c)

Next ==
  \/ Advance \/ Import
  \/ \E c \in Clients :
       Start(c) \/ Run(c) \/ Serve(c) \/ Lose(c) \/ Interrupt(c)

\* A process that can go on does, gateways answer or time out, and a pull
\* ends (ImageMngr, PullEnds).
Fairness ==
  /\ WF_vars(Advance)
  /\ \A c \in Clients : WF_vars(Run(c)) /\ WF_vars(Serve(c) \/ Lose(c))

Spec     == Init /\ [][Next]_vars
LiveSpec == Spec /\ Fairness
-----------------------------------------------------------------------------
(* Properties.                                                             *)

Process ==
  [ pc : {"idle", "ask", "sent", "replied", "sleep"},
    cmd : {"pull", "pullnb", "lookup", "expire"},
    mode : {"pull", "pullnb", "lookup", "expire"},
    left : 0 .. Gateways, polls : BOOLEAN,
    reply : Reply \cup {Lost}, exit : {0, 1, 128}, sure : BOOLEAN ]

TypeOK ==
  /\ image \in Status /\ changes \in 0 .. MaxChanges
  /\ client \in [Clients -> Process]

\* A blocking pull that returns 0 has seen the pull end, as long as no
\* answer to a poll was lost: the statuses queryGateway waits through are
\* all those that the workers of the gateway post for a pull.  An import
\* under the same tag is not waited for: HASHING ends the poll.  And
\* whatever gateway main asks, it asks for what the user wants: the mode
\* that polling changes does not outlive the poll.
PullWaits ==
  \A c \in Clients :
    LET r == client[c]
    IN  /\ r.pc = "idle" /\ r.cmd = "pull" /\ r.exit = 0 /\ r.sure =>
             r.reply.status \in {"READY", "FAILURE", "HASHING"}
        /\ r.pc = "ask" => r.mode = r.cmd

\* Every command that asks a gateway comes to an end.
CommandEnds ==
  \A c \in Clients : client[c].pc = "ask" ~> client[c].pc = "idle"
=============================================================================
