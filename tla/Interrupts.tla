----------------------------- MODULE Interrupts -----------------------------
(***************************************************************************)
(* What interrupts do.                                                     *)
(* The timer interrupt from both sides: what the harts of the kernel do    *)
(* with it and with the locks that keep it away (Spinlock), and what the   *)
(* process that it stops in user space makes of it (Alarm).  usertrap()    *)
(* calls the alarm code before yield(), with no lock held, and that code   *)
(* uses only fields that are private to the process: neither side reads    *)
(* what the other writes.                                                  *)
(* The interrupt of the UART: what is typed and sent (Console).  It has    *)
(* its own buffers, whose critical sections are single steps because of    *)
(* what Spinlock shows of locks and handlers.                              *)
(***************************************************************************)
EXTENDS Spinlock

CONSTANTS
  Intervals, Rearms, ForkCode, MaxPoint, MaxTicks,   \* of Alarm
  INPUT_BUF_SIZE, UART_TX_BUF_SIZE, INDEX_WRAP, TX_WRAP,
  Reader, Writer, Killable, None, Uart, MaxRead      \* of Console

VARIABLES
  tf, backup, alarmState, ticks, total, interrupted,   \* of Alarm
  inBuf, inR, inW, inE, outR, outW, outLock, at, left, first, dead,
  rx, busy, txIrq, line, draft                         \* of Console

user == <<tf, backup, alarmState, ticks, total, interrupted>>

terminal ==
  <<inBuf, inR, inW, inE, outR, outW, outLock, at, left, first, dead, rx, busy, txIrq, line, draft>>

User == INSTANCE Alarm
Tty == INSTANCE Console WITH
  buf <- inBuf, r <- inR, w <- inW, e <- inE, txR <- outR, txW <- outW, txLock <- outLock,
  pc <- at, killed <- dead

ASSUME SpinConstants == SpinAssumption
ASSUME AlarmConstants == User!AlarmAssumption
ASSUME ConsoleConstants == Tty!ConsoleAssumption

(* No alarm is jumped over; a handler returns to where it was called; it   *)
(* is not called while it runs (the definitions in Alarm say more).        *)
NoOvershoot == User!NoOvershoot
ResumesExactly == User!ResumesExactly
NotReentrant == User!NotReentrant

(* Console: what was typed, without what was erased, is what will be read; *)
(* a line for a sleeping reader and room or work for the transmitter are   *)
(* not overlooked.                                                         *)
TypedIsRead == Tty!TypedIsRead /\ Tty!ConsoleAwake

=============================================================================
