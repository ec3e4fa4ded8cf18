----------------------------- MODULE MCNotifier -----------------------------
EXTENDS Notifier

\* s1, e1, e2 and c1 share key k1: a notification published twice that is also
\* requested over RPC.  The malformed messages have a key of their own.
MCKeyOf == [t \in Tasks |-> IF t \in {"s2", "s3"} THEN "k2" ELSE "k1"]

\* s2 lacks a field and s3 cannot be decoded.
MCForm == [t \in Tasks |-> IF t = "s2" THEN "incomplete"
                           ELSE IF t = "s3" THEN "garbled" ELSE "valid"]
=============================================================================
