------------------------------- MODULE MCLog -------------------------------
(* Two threads, three blocks; an operation writes one block less than it   *)
(* reserves, and the log has room for two reservations.                    *)
EXTENDS Log

=============================================================================
