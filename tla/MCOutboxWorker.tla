--------------------------- MODULE MCOutboxWorker ---------------------------
(* Instances of OutboxWorker.  MaxAttempts is 2 where the schema has 8: one *)
(* attempt to fail and one to be the last.                                  *)
EXTENDS OutboxWorker

CONSTANTS w1, w2

OnePass   == {w1}
TwoPasses == {w1, w2}
=============================================================================
