------------------------------- MODULE Login -------------------------------
(***************************************************************************)
(* The credentials that shifterimg keeps for the user in ~/.udiRoot/.cred  *)
(* (src/shifterimg.c): login reads the file, asks for a credential and     *)
(* writes the file again, every other command reads the file and sends     *)
(* what is there for its system.  The file is of the home directory, which *)
(* several systems share, and nothing locks it: logins of several shells   *)
(* overlap.                                                                *)
(*                                                                         *)
(* munge is external: what it encodes it decodes again, expired or not     *)
(* (constructAuthMessage), so a credential is the number of the login that *)
(* made it.                                                                *)
(***************************************************************************)
EXTENDS Naturals, Sequences

CONSTANTS
  Shells,               \* that run commands of the user
  Systems, Locations,   \* of an entry; ":" in a location is part of it
  LoginFaults,          \* "tty": the terminal gives nothing; "kill"
  MaxLogins

ASSUME LoginAssumption ==
  /\ LoginFaults \subseteq {"tty", "kill"}
  /\ MaxLogins \in Nat

VARIABLES
  login,    \* the login that a shell runs, if it does
  cred,     \* the file: its lines, of an entry and a credential
  made,     \* the credentials: for what entry, and whether the user typed it
  latest,   \* the credential of the last login that ended, for every entry
  apart,    \* no two logins overlapped so far
  whole,    \* none was interrupted while the file was empty
  sent      \* what the last command sent

lvars == <<login, cred, made, latest, apart, whole, sent>>

Entries == Systems \X Locations
NoLogin == [pc |-> "none", entry |-> CHOOSE e \in Entries : TRUE, n |-> 0, list |-> <<>>]

LoginInit ==
  /\ login  = [p \in Shells |-> NoLogin]
  /\ cred   = <<>>
  /\ made   = <<>>
  /\ latest = [e \in Entries |-> 0]
  /\ apart  = TRUE
  /\ whole  = TRUE
  /\ sent   = [l \in Locations |-> 0]

\* The lines of an entry: one, unless writers overlapped.
Lines(list, e) == {i \in DOMAIN list : list[i][1] = e}

\* Mistake: the location decides alone, so that the first such line is taken.
ReplaceByLocation(list, e, n) ==
  IF \A i \in DOMAIN list : list[i][1][2] # e[2] THEN Append(list, <<e, n>>)
  ELSE LET first == CHOOSE i \in DOMAIN list :
                      list[i][1][2] = e[2] /\ \A j \in 1 .. i - 1 : list[j][1][2] # e[2]
       IN  [list EXCEPT ![first] = <<list[first][1], n>>]

\* doLogin replaces the first line of the entry, or appends one.
Replace(list, e, n) ==
  IF Lines(list, e) = {} THEN Append(list, <<e, n>>)
  ELSE LET first == CHOOSE i \in Lines(list, e) : \A j \in Lines(list, e) : i =< j
       IN  [list EXCEPT ![first] = <<list[first][1], n>>]

\* All lines of the system are sent, and of one location the last counts.
Value(list, e) ==
  IF Lines(list, e) = {} THEN 0
  ELSE list[CHOOSE i \in Lines(list, e) : \A j \in Lines(list, e) : j =< i][2]

\* parse_options has read the file when doLogin asks.  getttycred may fail:
\* then the credential is made of NULL pointers, and the login goes on.
LogIn(p, entry) ==
  LET n == Len(made) + 1
  IN  /\ login[p].pc = "none" /\ n =< MaxLogins
      /\ \E typed \in BOOLEAN :
           /\ typed \/ "tty" \in LoginFaults
           /\ made' = Append(made, <<entry, typed>>)
      /\ login' = [login EXCEPT ![p] =
                     [pc |-> "open", entry |-> entry, n |-> n, list |-> Replace(cred, entry, n)]]
      /\ apart' = (apart /\ \A q \in Shells : login[q].pc = "none")
      /\ UNCHANGED <<cred, latest, whole, sent>>

\* fopen(path, "w") empties the file, ...
Open(p) ==
  /\ login[p].pc = "open"
  /\ cred' = <<>>
  /\ login' = [login EXCEPT ![p] = [@ EXCEPT !.pc = "write"]]
  /\ UNCHANGED <<made, latest, apart, whole, sent>>

\* ... and it gets all lines, from its beginning: of what another login
\* wrote since, only lines behind them stay, the next one cut or not.
Write(p) ==
  LET list == login[p].list
  IN  /\ login[p].pc = "write"
      /\ \E k \in {1, 2} : cred' = list \o SubSeq(cred, Len(list) + k, Len(cred))
      /\ latest' = [latest EXCEPT ![login[p].entry] = login[p].n]
      /\ login' = [login EXCEPT ![p] = NoLogin]
      /\ UNCHANGED <<made, apart, whole, sent>>

Kill(p) ==
  /\ login[p].pc # "none" /\ "kill" \in LoginFaults
  /\ login' = [login EXCEPT ![p] = NoLogin]
  /\ whole' = (whole /\ login[p].pc = "open")
  /\ UNCHANGED <<cred, made, latest, apart, sent>>

\* parse_options and constructAuthMessage of any other command, on one of
\* the systems, also while a login writes.
Send(sys) ==
  /\ sent' = [l \in Locations |-> Value(cred, <<sys, l>>)]
  /\ UNCHANGED <<login, cred, made, latest, apart, whole>>

LoginNext ==
  \/ \E p \in Shells : \/ \E entry \in Entries : LogIn(p, entry)
                       \/ Open(p) \/ Write(p) \/ Kill(p)
  \/ \E sys \in Systems : Send(sys)
-----------------------------------------------------------------------------
\* What a command sends for a location was made by a login for it on this
\* system, however logins overlap.  While none overlapped, it is the last
\* one, or nothing when a login is or was interrupted while it wrote; the
\* logins for other entries rewrite the whole file and leave it alone.
CredsCurrent ==
  [][ \A sys \in Systems : Send(sys) =>
        \A l \in Locations :
          LET e == <<sys, l>>  c == sent'[l]
          IN  /\ c # 0 => made[c][1] = e
              /\ apart => c \in {0, latest[e]}
              /\ apart /\ whole /\ (\A p \in Shells : login[p].pc # "write") => c = latest[e] ]_lvars

\* What the documentation says: login saves the credential, and it is sent
\* with the requests to come.  Logins that overlap write back what they read
\* before the others wrote, so the violation is found without any fault.
LoginSaved ==
  (\A p \in Shells : login[p].pc = "none") /\ whole =>
    \A e \in Entries : Value(cred, e) = latest[e]

\* Not so either: of a login whose prompt failed "(null):(null)" is sent.
TypedSent == \A i \in DOMAIN cred : made[cred[i][2]][2]
=============================================================================
