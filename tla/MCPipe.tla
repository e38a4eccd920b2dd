------------------------------- MODULE MCPipe -------------------------------
(* A pipe of two bytes whose counters wrap at four; calls of up to two     *)
(* bytes block half way when the pipe is not empty.                        *)
EXTENDS Pipe

=============================================================================
