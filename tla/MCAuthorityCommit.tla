-------------------------- MODULE MCAuthorityCommit --------------------------
(***************************************************************************)
(* Two threads running any transactions, with failures, panics and restarts*)
(* anywhere; the ticket counter runs out after MaxTicket arrivals.         *)
(***************************************************************************)
EXTENDS AuthorityCommit

CONSTANTS t1, t2

TwoThreads == {t1, t2}
=============================================================================
