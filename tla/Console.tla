------------------------------ MODULE Console ------------------------------
(***************************************************************************)
(* The console: lines typed, kernel/console.c, and characters written,     *)
(* kernel/uart.c.  One interrupt is handled at a time, since plic_claim()  *)
(* gives it to one hart.  A critical section of cons.lock is one action;   *)
(* uart_tx_lock is held from action to action in the loop of uartstart().  *)
(*                                                                         *)
(* The device (external) takes a character when it is not busy, interrupts *)
(* when it can take another, and as long as there is input.                *)
(***************************************************************************)
EXTENDS Naturals, Sequences, FiniteSetsExt

CONSTANTS
  INPUT_BUF_SIZE, UART_TX_BUF_SIZE,
  INDEX_WRAP,  \* where cons.r, cons.w, cons.e wrap: 2^32 in the code
  TX_WRAP,     \* where uart_tx_r and uart_tx_w wrap: 2^64
  Reader, Writer,
  Killable,    \* readers that may be killed while they sleep
  None, Uart,  \* nobody, and the handler of the interrupt
  MaxRead      \* bound on what a read() asks for

ConsoleAssumption ==
  /\ INPUT_BUF_SIZE \in Nat \ {0} /\ UART_TX_BUF_SIZE \in Nat \ {0}
  /\ \E k \in 2 .. INDEX_WRAP : INDEX_WRAP = k * INPUT_BUF_SIZE
  /\ \E k \in 2 .. TX_WRAP : TX_WRAP = k * UART_TX_BUF_SIZE
  /\ None # Uart /\ {None, Uart} \cap (Reader \cup Writer) = {}
  /\ Reader \cap Writer = {} /\ MaxRead \in Nat /\ Killable \subseteq Reader

(* Characters: an ordinary one, the end of a line, C('D'), and the keys    *)
(* backspace and C('U').                                                   *)
Char == {"a", "newline", "eof"}
Key == Char \cup {"backspace", "kill"}

VARIABLES
  buf, r, w, e,        \* cons
  txR, txW,            \* uart_tx_r, uart_tx_w; the characters do not matter
  txLock,              \* who holds uart_tx_lock
  pc,                  \* per thread, and of the handler
  left, first,         \* of a read(): n, and whether n = target
  killed,              \* readers that were killed
  rx, busy, txIrq,     \* of the device: input is ready, a character is being
                       \* sent, the interrupt for more is pending
  line, draft          \* what was typed and not read, the unfinished line

input == <<buf, r, w, e, line, draft>>
reading == <<left, first, killed>>
sending == <<txR, txW>>
device == <<rx, busy, txIrq>>
vars == <<input, reading, sending, device, txLock, pc>>

Init ==
  /\ buf = [k \in 0 .. INPUT_BUF_SIZE - 1 |-> "a"] /\ r = 0 /\ w = 0 /\ e = 0
  /\ txR = 0 /\ txW = 0
  /\ txLock = None
  /\ pc = [t \in Reader \cup Writer \cup {Uart} |-> "idle"]
  /\ left = [t \in Reader |-> 0] /\ first = [t \in Reader |-> TRUE] /\ killed = {}
  /\ rx = FALSE /\ busy = FALSE /\ txIrq = FALSE
  /\ line = <<>> /\ draft = <<>>

Goto(t, l) == pc' = [pc EXCEPT ![t] = l]
Succ(x) == (x + 1) % INDEX_WRAP

(* The characters of the ring from index i up to index j.                  *)
Distance(i, j) == (j + INDEX_WRAP - i) % INDEX_WRAP
Ring(i, j) == [k \in 1 .. Distance(i, j) |-> buf[(i + k - 1) % INPUT_BUF_SIZE]]

(***************************************************************************)
(* consoleread()                                                           *)
(***************************************************************************)

(* Reads up to a line's end or n characters, whichever comes first; without *)
(* either it sleeps or, killed, returns.  all: nothing has been read yet.  *)
(* Otherwise C('D') is kept for the next call.  A buffer of the user that  *)
(* ends early does what a smaller n does.                                  *)
ReadLine(t, n, all) ==
  LET s == Ring(r, w)
      stop == Min({n} \cup {k \in 1 .. Len(s) : s[k] \in {"newline", "eof"}})
      found == stop <= Len(s)
      kept == found /\ s[stop] = "eof" /\ ~(all /\ stop = 1)
      taken == IF kept THEN stop - 1 ELSE Min({stop, Len(s)})
  IN
  /\ Goto(t, IF found \/ t \in killed THEN "idle" ELSE "asleep")
  /\ r' = (r + taken) % INDEX_WRAP
  /\ line' = SubSeq(line, taken + 1, Len(line))
  /\ left' = [left EXCEPT ![t] = IF pc'[t] = "idle" THEN 0 ELSE n - taken]
  /\ first' = [first EXCEPT ![t] = pc'[t] = "idle" \/ (all /\ taken = 0)]
  /\ killed' = killed \ {t}
  /\ UNCHANGED <<buf, w, e, draft, sending, device, txLock>>

Read(t, n) == pc[t] = "idle" /\ ReadLine(t, n, TRUE)
ReadOn(t) == pc[t] = "woken" /\ ReadLine(t, left[t], first[t])

(* kill() of a reader, which makes it run.  A killed one is not seen again *)
(* after it has returned; another takes its place.                         *)
Kill(t) ==
  /\ pc[t] = "asleep" /\ Goto(t, "woken") /\ killed' = killed \cup {t}
  /\ UNCHANGED <<input, left, first, sending, device, txLock>>

(***************************************************************************)
(* uartintr() and consoleintr()                                            *)
(***************************************************************************)
Interrupt ==
  /\ pc[Uart] = "idle" /\ (rx \/ txIrq)
  /\ Goto(Uart, "getc") /\ txIrq' = FALSE
  /\ UNCHANGED <<input, reading, sending, rx, busy, txLock>>

(* wakeup(&cons.r)                                                         *)
WakeNobody == UNCHANGED pc
WakeReaders ==
  pc' = [t \in DOMAIN pc |->
           IF t \in Reader /\ pc[t] = "asleep" THEN "woken" ELSE pc[t]]

(* consputc() spins until the device takes the echo.                       *)
Echo == ~busy /\ busy' = TRUE

(* Of what is not committed, the part up to the end of a line stays.       *)
KillLine ==
  LET d == Ring(w, e)
      keep == Max({0} \cup {k \in 1 .. Len(d) : d[k] = "newline"})
  IN e' = (w + keep) % INDEX_WRAP

Erase(c) ==
  /\ \/ /\ e # w /\ Echo
        /\ \/ c = "kill" /\ KillLine /\ draft' = <<>>
           \/ c = "backspace" /\ e' = (e + INDEX_WRAP - 1) % INDEX_WRAP
              /\ draft' = SubSeq(draft, 1, Len(draft) - 1)
     \/ e = w /\ UNCHANGED <<e, draft, busy>>
  /\ UNCHANGED <<buf, w, line, pc>>

RoomOffByOne == Distance(r, e) <= INPUT_BUF_SIZE
Room == Distance(r, e) < INPUT_BUF_SIZE

(* A line is committed at its end, at C('D') and when the ring is full.    *)
Store(c) ==
  \/ /\ Room /\ Echo
     /\ buf' = [buf EXCEPT ![e % INPUT_BUF_SIZE] = c] /\ e' = Succ(e)
     /\ IF c \in {"newline", "eof"} \/ Distance(r, e') = INPUT_BUF_SIZE
        THEN w' = e' /\ line' = line \o Append(draft, c) /\ draft' = <<>> /\ WakeReaders
        ELSE draft' = Append(draft, c) /\ UNCHANGED <<w, line, pc>>
  \/ ~Room /\ UNCHANGED <<buf, w, e, line, draft, busy, pc>>

ConsoleIntr(c) ==
  /\ pc[Uart] = "getc" /\ rx /\ rx' = FALSE
  /\ IF c \in Char THEN Store(c) ELSE Erase(c)
  /\ UNCHANGED <<r, reading, sending, txIrq, txLock>>

NoInput ==
  /\ pc[Uart] = "getc" /\ ~rx /\ txLock = None
  /\ txLock' = Uart /\ Goto(Uart, "start")
  /\ UNCHANGED <<input, reading, sending, device>>

(***************************************************************************)
(* uartputc(), and uartstart() for whoever holds uart_tx_lock              *)
(***************************************************************************)
TxFull == txW = (txR + UART_TX_BUF_SIZE) % TX_WRAP

Uartputc(t) ==
  /\ pc[t] \in {"idle", "woken"} /\ txLock = None
  /\ \/ TxFull /\ Goto(t, "asleep") /\ UNCHANGED <<sending, txLock>>
     \/ /\ ~TxFull /\ txLock' = t /\ Goto(t, "start")
        /\ txW' = (txW + 1) % TX_WRAP /\ UNCHANGED txR
  /\ UNCHANGED <<input, reading, device>>

UartStart(t) ==
  /\ pc[t] = "start"
  /\ \/ /\ txR = txW \/ busy
        /\ Goto(t, "idle") /\ txLock' = None /\ UNCHANGED <<sending, busy>>
     \/ /\ txR # txW /\ ~busy /\ busy' = TRUE
        /\ txR' = (txR + 1) % TX_WRAP
        /\ pc' = [s \in DOMAIN pc |->
                    IF s \in Writer /\ pc[s] = "asleep" THEN "woken" ELSE pc[s]]
        /\ UNCHANGED <<txW, txLock>>
  /\ UNCHANGED <<input, reading, rx, txIrq>>

(***************************************************************************)
(* The device and who types.                                               *)
(***************************************************************************)
Sent ==
  /\ busy /\ busy' = FALSE /\ txIrq' = TRUE
  /\ UNCHANGED <<input, reading, sending, rx, txLock, pc>>

Type ==
  /\ ~rx /\ rx' = TRUE
  /\ UNCHANGED <<input, reading, sending, busy, txIrq, txLock, pc>>

Next ==
  \/ \E t \in Reader :
       \/ \E n \in 1 .. MaxRead : Read(t, n)
       \/ ReadOn(t)
  \/ \E t \in Killable : Kill(t)
  \/ Interrupt \/ NoInput \/ \E c \in Key : ConsoleIntr(c)
  \/ \E t \in Writer : Uartputc(t)
  \/ \E t \in Writer \cup {Uart} : UartStart(t)
  \/ Sent \/ Type

Spec == Init /\ [][Next]_vars

(***************************************************************************)
(* Properties.                                                             *)
(***************************************************************************)
TypeOK ==
  /\ buf \in [0 .. INPUT_BUF_SIZE - 1 -> Char]
  /\ {r, w, e} \subseteq 0 .. INDEX_WRAP - 1 /\ {txR, txW} \subseteq 0 .. TX_WRAP - 1
  /\ line \in Seq(Char) /\ draft \in Seq(Char)
  /\ txLock \in Writer \cup {Uart, None}
  /\ \A t \in DOMAIN pc : pc[t] \in {"idle", "asleep", "woken", "start",
                                    "getc"}
  /\ left \in [Reader -> 0 .. MaxRead] /\ first \in [Reader -> BOOLEAN]
  /\ killed \subseteq Reader /\ {rx, busy} \subseteq BOOLEAN /\ txIrq \in BOOLEAN

(* What was typed is what will be read: the ring holds the lines not read  *)
(* yet and after them the unfinished one, without what was erased, however *)
(* often the indices wrap.                                                 *)
TypedIsRead == TypeOK /\ Ring(r, w) = line /\ Ring(w, e) = draft

(* Who sleeps is going to be woken: a reader sleeps only while there is no *)
(* line, a writer only while the ring is full; a full input ring has a     *)
(* line; and what waits to be sent has an interrupt to come, the handler,  *)
(* or another writer to send it.                                           *)
ConsoleAwake ==
  /\ \A t \in Reader : pc[t] = "asleep" => r = w
  /\ \A t \in Writer : pc[t] = "asleep" => TxFull
  /\ Distance(r, e) = INPUT_BUF_SIZE => r # w
  /\ txR # txW => busy \/ txIrq \/ pc[Uart] # "idle" \/ txLock # None

=============================================================================
