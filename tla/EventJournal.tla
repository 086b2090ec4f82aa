----------------------------- MODULE EventJournal -----------------------------
(***************************************************************************)
(* What EventLog promises about the events that visitors report, without   *)
(* threads, transactions and the second log: a report that is accepted is  *)
(* recorded once and whole or not at all, only a recorded one is answered  *)
(* with success, and whatever fails, nothing recorded is ever taken back.  *)
(***************************************************************************)
EXTENDS Naturals, Sequences

CONSTANT Reports   \* what is accepted

VARIABLES journal,  \* the reports recorded, in their order
          received, \* how many requests there were
          open,     \* accepted requests that are not recorded yet
          owed,     \* recorded requests that are not answered yet
          told      \* requests that were answered with success

journalVars == <<received, told, owed, open, journal>>

JInit == journal = <<>> /\ received = 0 /\ open = {} /\ owed = {} /\ told = {}

(* A request, which is refused or accepted. *)
Receive ==
    /\ received' = received + 1
    /\ \/ UNCHANGED open
       \/ \E report \in Reports :
             open' = open \cup {[n |-> received', report |-> report]}
    /\ UNCHANGED <<told, owed, journal>>

Record(r) ==
    /\ owed' = owed \cup {r.n}
    /\ open' = open \ {r}
    /\ journal' = Append(journal, r)
    /\ UNCHANGED <<received, told>>

Tell(n) ==
    /\ told' = told \cup {n}
    /\ owed' = owed \ {n}
    /\ UNCHANGED <<received, open, journal>>

(* The database fails, and the request is answered with an error. *)
Lose(r) ==
    /\ open' = open \ {r}
    /\ UNCHANGED <<received, told, owed, journal>>

(* A crash: nobody is answered, recorded or not. *)
LoseAll ==
    /\ owed' = {} /\ open' = {}
    /\ UNCHANGED <<received, told, journal>>

JNext ==
    \/ Receive \/ LoseAll
    \/ \E r \in open : Record(r) \/ Lose(r)
    \/ \E n \in owed : Tell(n)

JSpec == JInit /\ [][JNext]_journalVars
=============================================================================
