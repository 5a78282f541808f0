----------------------------- MODULE TrustedPin -----------------------------
(***************************************************************************)
(* What every gate of the guard promises, whatever holds its pin: the      *)
(* gate opens only for the catalog that is trusted at that moment, and a   *)
(* catalog becomes trusted only after a person granted it.                 *)
(*                                                                         *)
(* trusted  the catalog the pin holds, None when there is no usable pin    *)
(* granted  every catalog a person installed or approved so far            *)
(* open     the catalog the latest decision let through, None when the     *)
(*          latest step let nothing through                                *)
(***************************************************************************)

CONSTANTS Catalogs, None

VARIABLES trusted, granted, open

vars == <<trusted, granted, open>>

Init ==
  /\ granted \in SUBSET Catalogs
  /\ trusted \in granted \union {None}
  /\ open = None

\* A listing equal to the trusted catalog may pass; nothing else changes.
Open ==
  /\ trusted # None
  /\ open' = trusted
  /\ UNCHANGED <<trusted, granted>>

\* Any listing may be refused at any time.
Close ==
  /\ open' = None
  /\ UNCHANGED <<trusted, granted>>

\* A person grants a catalog, which may take effect at once, or be lost.
Grant(c) ==
  /\ granted' = granted \union {c}
  /\ trusted' \in {trusted, c}
  /\ open' = None

\* A catalog granted earlier takes effect: its pin reaches the file.
Install ==
  /\ trusted' \in granted
  /\ open' = None
  /\ UNCHANGED granted

\* The pin is lost: deleted, damaged, or held in memory by a dead process.
Lose ==
  /\ trusted' = None
  /\ open' = None
  /\ UNCHANGED granted

Next == Open \/ Close \/ Install \/ Lose \/ \E c \in Catalogs : Grant(c)

Spec == Init /\ [][Next]_vars

\* What is trusted was granted, and only what is trusted is let through.
FailClosed ==
  /\ trusted \in granted \union {None}
  /\ open \in {None, trusted}
=============================================================================
