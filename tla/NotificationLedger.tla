------------------------- MODULE NotificationLedger -------------------------
(***************************************************************************)
(* What the notification service promises about each dedup key, whoever    *)
(* asks for it and however often: no attempt to mail a key starts once the *)
(* key is recorded as sent, a key is recorded or reported as sent only     *)
(* after its mail was accepted, and neither is ever taken back.  Attempts  *)
(* may be abandoned at any time, which is all a failure can do.            *)
(***************************************************************************)
EXTENDS Naturals

CONSTANT Keys

VARIABLES
  attempts,  \* per key: attempts that have won the key and not yet mailed it
  mails,     \* per key: mails the SMTP server accepted
  recorded,  \* keys whose row is confirmed
  reported   \* keys somebody was told are done

vars == <<attempts, mails, recorded, reported>>

Init ==
  /\ attempts = [k \in Keys |-> 0]
  /\ mails = [k \in Keys |-> 0]
  /\ recorded = {}
  /\ reported = {}

Attempt(k) ==
  /\ k \notin recorded
  /\ attempts' = [attempts EXCEPT ![k] = @ + 1]
  /\ UNCHANGED <<mails, recorded, reported>>

Mail(k) ==
  /\ attempts[k] > 0
  /\ attempts' = [attempts EXCEPT ![k] = @ - 1]
  /\ mails' = [mails EXCEPT ![k] = @ + 1]
  /\ UNCHANGED <<recorded, reported>>

Abandon ==
  /\ \A k \in Keys : attempts'[k] <= attempts[k]
  /\ attempts' \in [Keys -> Nat]
  /\ UNCHANGED <<mails, recorded, reported>>

\* A call that records its key may be answered in the same breath.
Record(k) ==
  /\ mails[k] > 0
  /\ recorded' = recorded \cup {k}
  /\ reported' \in {reported, reported \cup {k}}
  /\ UNCHANGED <<attempts, mails>>

Report(k) ==
  /\ mails[k] > 0
  /\ reported' = reported \cup {k}
  /\ UNCHANGED <<attempts, mails, recorded>>

Next ==
  \/ Abandon
  \/ \E k \in Keys : Attempt(k) \/ Mail(k) \/ Record(k) \/ Report(k)

Spec == Init /\ [][Next]_vars
=============================================================================
