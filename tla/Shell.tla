------------------------------- MODULE Shell --------------------------------
(***************************************************************************)
(* user/sh.c and user/init.c: init keeps a shell running, the shell runs   *)
(* the lines it is given.  A process holds the tasks it has still to do    *)
(* and its descriptors; a task is as long as a process can run without     *)
(* waiting for another and without another seeing it half done.  An        *)
(* argument list is cut down to its first word, the name of the program:   *)
(* "e" writes once (echo), "c" copies its input (cat), no other is there.  *)
(***************************************************************************)
EXTENDS ShellParser, TLC

CONSTANTS NPROC, NPIPE, PIPESIZE, Script, Missing

ShellAssumption ==
  /\ ParserAssumption /\ {NPROC, NPIPE, PIPESIZE} \subseteq Nat \ {0}
  /\ \A script \in Script : \A n \in DOMAIN script : Parsecmd(script[n]) # Bad

VARIABLES
  tasks,   \* what is left to do; behind the last task a process exits
  parent, fd,
  items,   \* what is in each pipe
  line,    \* [text, nth, at]: the line a process works for, and the place in its tree it began at
  pipeof,  \* the pipe made at each place of the line's tree
  script,  \* the lines that are still to be typed
  broken   \* the lines for which a fork() or a pipe() failed

vars == <<tasks, parent, fd, items, line, pipeof, script, broken>>

Slot == 1 .. NPROC
init == 1
Fd == 0 .. 5
Shut == [kind |-> "none"]
Console == [kind |-> "console"]
File(name) == [kind |-> "file", name |-> name]
End(id, end) == [kind |-> "pipe", id |-> id, end |-> end]

Task(p) == tasks[p][1]
Do(p, op) == tasks[p] # <<>> /\ Task(p).op = op
Goes(p, ts) == tasks' = [tasks EXCEPT ![p] = ts]
Only(op) == [op |-> op]
Unused == <<Only("unused")>>
Zombie == <<Only("zombie")>>

Down == Do(init, "panic")

(* What parsecmd() makes of each line, and of no line.                     *)
Tree == [text \in {<<>>} \cup UNION {Range(lines) : lines \in Script} |-> Parsecmd(text)]
Word(b, word) == SubSeq(b, word[1], word[2] - 1)

-----------------------------------------------------------------------------
(* Descriptors.                                                            *)
FirstFree(f) == Min({k \in Fd : f[k] = Shut})
Opened(f, obj) == [f EXCEPT ![FirstFree(f)] = obj]
Closed(f, ks) == [k \in Fd |-> IF k \in ks THEN Shut ELSE f[k]]
WithConsole(f) == [k \in Fd |-> IF k < 3 /\ f[k] = Shut THEN Console ELSE f[k]]

Held(id, end) == \E p \in Slot : End(id, end) \in {fd[p][k] : k \in Fd}

(* Slip: the ends of the pipe stay open in the child.                   *)
PlumbedOnly(f, k, end) == Opened(Closed(f, {k}), f[end])

(* close(k); dup(end); close(p[0]); close(p[1]), where p is {3, 4}         *)
Plumbed(f, k, end) == Closed(Opened(Closed(f, {k}), f[end]), {3, 4})

-----------------------------------------------------------------------------
(* Processes.                                                              *)
Rest(p) == Tail(tasks[p])
Free == {q \in Slot : tasks[q] = Unused}

(* fork() takes the first free slot; without one, fork1() panics.          *)
Forked(p, child, path, rest, f) ==
  LET q == Min(Free)
  IN /\ tasks' = [tasks EXCEPT ![q] = child, ![p] = rest]
     /\ parent' = [parent EXCEPT ![q] = p]
     /\ fd' = [fd EXCEPT ![q] = f]
     /\ line' = [line EXCEPT ![q] = [line[p] EXCEPT !.at = path]]
     /\ pipeof' = [pipeof EXCEPT ![q] = pipeof[p]]
     /\ UNCHANGED <<items, script, broken>>

Fork1(p) ==
  /\ Do(p, "fork")
  /\ IF Free # {} THEN Forked(p, Task(p).child, Task(p).path, Rest(p), fd[p])
     ELSE /\ Goes(p, <<>>)
          /\ broken' = broken \cup {line[p].nth}
          /\ UNCHANGED <<parent, fd, items, line, pipeof, script>>

(* Reaps one child, or returns at once when there is none.                 *)
Children(p) == {q \in Slot : tasks[q] # Unused /\ parent[q] = p}
Zombies(p) == {q \in Children(p) : tasks[q] = Zombie}
Wait(p) ==
  /\ Do(p, "wait")
  /\ Children(p) # {} => Zombies(p) # {}
  /\ tasks' = [q \in Slot |-> IF Children(p) # {} /\ q = Min(Zombies(p)) THEN Unused
                              ELSE IF q = p THEN Rest(p) ELSE tasks[q]]
  /\ UNCHANGED <<parent, fd, items, line, pipeof, script, broken>>

Exit(p) ==
  /\ tasks[p] = <<>>
  /\ Goes(p, Zombie)
  /\ parent' = [q \in Slot |-> IF parent[q] = p THEN init ELSE parent[q]]
  /\ fd' = [fd EXCEPT ![p] = Closed(@, Fd)]
  /\ UNCHANGED <<items, line, pipeof, script, broken>>

-----------------------------------------------------------------------------
(* init: starts a shell, reaps what it finds and starts the next one when  *)
(* the shell is among it.  When fork() fails it exits, and the kernel      *)
(* panics ("init exiting").                                                *)
InitStarts ==
  /\ Do(init, "start")
  /\ IF Free = {} THEN Goes(init, <<Only("panic")>>) /\ UNCHANGED <<parent, fd, items, line, pipeof, script, broken>>
     ELSE Forked(init, <<Only("prompt")>>, <<>>, <<[op |-> "reap", sh |-> Min(Free)]>>, WithConsole(fd[init]))

InitReaps ==
  /\ Do(init, "reap") /\ Zombies(init) # {}
  /\ LET q == Min(Zombies(init))
     IN tasks' = [tasks EXCEPT ![q] = Unused,
                               ![init] = IF q = Task(init).sh THEN <<Only("start")>> ELSE @]
  /\ UNCHANGED <<parent, fd, items, line, pipeof, script, broken>>

-----------------------------------------------------------------------------
(* runcmd(): what a process has to do for the command at a place of the    *)
(* tree.  There is no way back from it: behind the last task is exit().    *)
FdOf(mode) == IF mode = "read" THEN 0 ELSE 1

Program(name, path) ==
  CASE name = <<"e">> -> <<[op |-> "write", path |-> path]>>
    [] name = <<"c">> -> <<[op |-> "read", path |-> path, left |-> 1]>>
    [] OTHER -> <<>>

(* Slip: the second wait() is missing.                                  *)
OneWait == <<Only("wait")>>

Waits == <<Only("wait"), Only("wait")>>

RECURSIVE Runcmd(_, _, _)
Runcmd(b, cmd, path) ==
  LET Sub(c, side) == Runcmd(b, c, Append(path, side))
      Fork(first, c, side) ==
        [op |-> "fork", child |-> first \o Sub(c, side), path |-> Append(path, side)]
  IN CASE cmd.type = "exec" -> IF cmd.argv = <<>> THEN <<>> ELSE Program(Word(b, cmd.argv[1]), path)
       [] cmd.type = "redir" ->
            <<[op |-> "redir", file |-> Word(b, cmd.file), mode |-> cmd.mode]>> \o Sub(cmd.cmd, "s")
       [] cmd.type = "list" -> <<Fork(<<>>, cmd.left, "l"), Only("wait")>> \o Sub(cmd.right, "r")
       [] cmd.type = "pipe" ->
            <<[op |-> "pipe", path |-> path],
              Fork(<<[op |-> "plumb", k |-> 1, end |-> 4]>>, cmd.left, "l"),
              Fork(<<[op |-> "plumb", k |-> 0, end |-> 3]>>, cmd.right, "r"), Only("close")>> \o Waits
       [] cmd.type = "back" -> <<Fork(<<>>, cmd.cmd, "s")>>

(* A file that cannot be opened leaves the descriptor closed.              *)
Redir(p) ==
  /\ Do(p, "redir")
  /\ LET t == Task(p)
         closed == Closed(fd[p], {FdOf(t.mode)})
     IN IF t.mode = "read" /\ t.file \in Missing
        THEN Goes(p, <<>>) /\ fd' = [fd EXCEPT ![p] = closed]
        ELSE Goes(p, Rest(p)) /\ fd' = [fd EXCEPT ![p] = Opened(closed, File(t.file))]
  /\ UNCHANGED <<parent, items, line, pipeof, script, broken>>

(* pipe() takes the two lowest descriptors, the ends of a new pipe.        *)
FreePipes == {id \in 1 .. NPIPE : ~Held(id, "r") /\ ~Held(id, "w")}
Pipe(p) ==
  /\ Do(p, "pipe")
  /\ IF FreePipes = {}
     THEN Goes(p, <<>>) /\ broken' = broken \cup {line[p].nth} /\ UNCHANGED <<fd, items, pipeof>>
     ELSE LET id == Min(FreePipes)
          IN /\ fd' = [fd EXCEPT ![p] = Opened(Opened(@, End(id, "r")), End(id, "w"))]
             /\ items' = [items EXCEPT ![id] = 0]
             /\ pipeof' = [pipeof EXCEPT ![p] = (Task(p).path :> id) @@ @]
             /\ Goes(p, Rest(p)) /\ UNCHANGED broken
  /\ UNCHANGED <<parent, line, script>>

Plumb(p) ==
  /\ Do(p, "plumb")
  /\ fd' = [fd EXCEPT ![p] = Plumbed(@, Task(p).k, Task(p).end)]
  /\ Goes(p, Rest(p))
  /\ UNCHANGED <<parent, items, line, pipeof, script, broken>>

(* Slip: the shell keeps the end to write to.                           *)
CloseRead(f) == Closed(f, {3})

CloseBoth(f) == Closed(f, {3, 4})

Close(p) ==
  /\ Do(p, "close")
  /\ fd' = [fd EXCEPT ![p] = CloseBoth(@)]
  /\ Goes(p, Rest(p))
  /\ UNCHANGED <<parent, items, line, pipeof, script, broken>>

(* The shell's loop.  At the end of the input it exits.                    *)
Getcmd(p) ==
  /\ Do(p, "prompt") /\ script # <<>>
  /\ script' = Tail(script)
  /\ \/ LET text == Head(script)
        IN /\ line' = [line EXCEPT ![p] = [text |-> text, nth |-> Len(script), at |-> <<>>]]
           /\ Goes(p, <<[op |-> "fork", child |-> Runcmd(text, Parsecmd(text), <<>>), path |-> <<>>],
                      Only("wait"), Only("prompt")>>)
     \/ Goes(p, <<>>) /\ UNCHANGED line
  /\ UNCHANGED <<parent, fd, items, pipeof, broken>>

-----------------------------------------------------------------------------
(* The programs.  What is typed and what is in a file is one item long.    *)
Change(obj, n) == IF obj.kind = "pipe" THEN [items EXCEPT ![obj.id] = @ + n] ELSE items

(* write() waits for room in a pipe that has a reader, and fails if there  *)
(* is none.  echo does not look at the result, cat exits.                  *)
Write(p) ==
  /\ Do(p, "write") \/ Do(p, "copy")
  /\ LET out == fd[p][1]
         ok == out.kind = "pipe" => Held(out.id, "r")
     IN /\ (ok /\ out.kind = "pipe") => items[out.id] < PIPESIZE
        /\ items' = IF ok THEN Change(out, 1) ELSE items
        /\ Goes(p, IF ok /\ Do(p, "copy") THEN <<[Task(p) EXCEPT !.op = "read"]>> ELSE <<>>)
  /\ UNCHANGED <<parent, fd, line, pipeof, script, broken>>

(* read() waits for something in a pipe that has a writer, and returns 0   *)
(* if there is none.                                                       *)
Read(p) ==
  /\ Do(p, "read")
  /\ LET in == fd[p][0]
         some == IF in.kind = "pipe" THEN items[in.id] > 0 ELSE Task(p).left > 0
         left == IF in.kind = "pipe" \/ ~some THEN Task(p).left ELSE Task(p).left - 1
     IN /\ in.kind = "pipe" => some \/ ~Held(in.id, "w")
        /\ items' = IF some THEN Change(in, -1) ELSE items
        /\ Goes(p, IF some THEN <<[Task(p) EXCEPT !.op = "copy", !.left = left]>> ELSE <<>>)
  /\ UNCHANGED <<parent, fd, line, pipeof, script, broken>>

-----------------------------------------------------------------------------
Nothing == [text |-> <<>>, nth |-> 0, at |-> <<>>]

Init ==
  /\ tasks = [p \in Slot |-> IF p = init THEN <<Only("start")>> ELSE Unused]
  /\ parent = [p \in Slot |-> init]
  /\ fd = [p \in Slot |-> [k \in Fd |-> IF p = init /\ k < 3 THEN Console ELSE Shut]]
  /\ items = [id \in 1 .. NPIPE |-> 0]
  /\ line = [p \in Slot |-> Nothing]
  /\ pipeof = [p \in Slot |-> <<>>]
  /\ script \in Script /\ broken = {}

Step(p) ==
  /\ ~Down
  /\ \/ Fork1(p) \/ Wait(p) \/ Exit(p)
     \/ Redir(p) \/ Pipe(p) \/ Plumb(p) \/ Close(p) \/ Write(p) \/ Read(p)

InitStep == ~Down /\ (InitStarts \/ InitReaps)

Next == InitStep \/ \E p \in Slot : Step(p) \/ (~Down /\ Getcmd(p))

Spec == Init /\ [][Next]_vars

-----------------------------------------------------------------------------
Programs == {p \in Slot : Do(p, "write") \/ Do(p, "read") \/ Do(p, "copy")}

(* What the line says of the input and output at a place of its tree: from *)
(* the outside in, a pipe and a redirection replace what was there.        *)
RECURSIVE Says(_, _, _, _)
Says(cmd, path, n, io) ==
  IF n > Len(path) THEN io
  ELSE LET at == SubSeq(path, 1, n - 1)
           sub == CASE path[n] = "l" -> cmd.left [] path[n] = "r" -> cmd.right [] OTHER -> cmd.cmd
       IN Says(sub, path, n + 1,
               CASE cmd.type = "redir" -> [io EXCEPT ![FdOf(cmd.mode)] = <<"file", cmd.file>>]
                 [] cmd.type = "pipe" /\ path[n] = "l" -> [io EXCEPT ![1] = <<"w", at>>]
                 [] cmd.type = "pipe" /\ path[n] = "r" -> [io EXCEPT ![0] = <<"r", at>>]
                 [] OTHER -> io)

Meant(p, where) ==
  CASE where[1] = "console" -> Console
    [] where[1] = "file" -> File(Word(line[p].text, where[2]))
    [] OTHER -> End(pipeof[p][where[2]], where[1])

(* Every program runs with the input and the output its place in the line  *)
(* gives it, with the console behind descriptor 2, and with nothing else   *)
(* open: an end of a pipe left open in one process keeps another waiting.  *)
PlumbingRight ==
  \A p \in Programs :
    LET io == Says(Tree[line[p].text], Task(p).path, 1, [k \in {0, 1} |-> <<"console">>])
    IN fd[p] = [k \in Fd |-> CASE k \in {0, 1} -> Meant(p, io[k]) [] k = 2 -> Console [] OTHER -> Shut]

RECURSIVE InBackground(_, _)
InBackground(cmd, path) ==
  /\ path # <<>>
  /\ \/ cmd.type = "back"
     \/ InBackground(CASE path[1] = "l" -> cmd.left [] path[1] = "r" -> cmd.right [] OTHER -> cmd.cmd,
                     Tail(path))

(* The shell asks for the next line when nothing of the last one runs any  *)
(* longer but what is behind an "&".                                       *)
Alive(p) == tasks[p] \notin {Unused, Zombie}
ForegroundDone ==
  \A sh, p \in Slot :
    Do(sh, "prompt") /\ p \notin {sh, init} /\ Alive(p) /\ line[p].nth \notin broken =>
      InBackground(Tree[line[p].text], line[p].at)

(* Nothing hangs: when nobody can go on, the shell, or another one, is     *)
(* back at the prompt, and what has run is gone.  (As long as no line is   *)
(* typed, every step leaves less to do, so this is how a line ends.)       *)
AtRest == \E sh \in Slot : Do(sh, "prompt") /\ \A p \in Slot : tasks[p] = Unused \/ p \in {sh, init}
Stuck == ~ENABLED (InitStep \/ \E p \in Slot : Step(p))
LinesEnd == Stuck => AtRest \/ Down

=============================================================================
