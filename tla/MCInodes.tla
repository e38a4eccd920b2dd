------------------------------ MODULE MCInodes ------------------------------
(* Two threads; the root, a directory /a and, in some behaviours, a file   *)
(* /b or /a/b; three inodes and paths of up to three names.                *)
EXTENDS Inodes

Abs(elems) == [abs |-> TRUE, elems |-> elems]
Rel(elems) == [abs |-> FALSE, elems |-> elems]

(* Without "..": every entry that a walk follows is a link.                *)
Paths == {Abs(<<"a">>), Abs(<<"a", "b">>), Rel(<<"b">>)}
NewPaths == {Abs(<<"a", "b">>)}

DotPaths == {Abs(<<"a">>), Abs(<<"a", "b">>), Abs(<<"a", "b", "..">>)}

=============================================================================
