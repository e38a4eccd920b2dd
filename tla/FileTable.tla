----------------------------- MODULE FileTable -----------------------------
(***************************************************************************)
(* The table of open files and those who share it, as Files has them, with *)
(* names that do not meet those of the devices.                            *)
(***************************************************************************)
EXTENDS Naturals, Sequences, FiniteSets

CONSTANTS
  Process, First, NFILE, NOFILE, Inode, Device, Page, Nothing, CHUNK, MaxSize, MaxWrite,
  MaxCalls   \* of Files, which calls Nothing None

VARIABLES file, ofile, status, open, iref, holder, data, todo, calls, stored, openings

table == <<file, ofile, status, open, iref, holder, data, todo, calls, stored, openings>>

Open == INSTANCE Files WITH None <- Nothing

ASSUME FileConstants == Open!FilesAssumption

(* Open files: references, ends of pipes and inodes are counted once, also *)
(* when processes share a file and give it up half way; and processes that *)
(* share a file do not overwrite each other's writes.                      *)
FilesCounted == Open!FilesCounted /\ Open!WritesKept

=============================================================================
