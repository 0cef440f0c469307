------------------------------ MODULE Console -------------------------------
(***************************************************************************)
(* The services every program of Morbo is linked with: wait() on the       *)
(* 8-bit timer and the way out by __exit() (standalone/util.c), the serial *)
(* line (serial.c) and reboot() (reboot.c).  The programs that use them    *)
(* are in Bender.tla.                                                      *)
(*                                                                         *)
(* `ret' is where the program goes on when the text is out or the time is  *)
(* over; neither of the two services calls the other.  The timer runs by   *)
(* itself: between two reads of it up to maxGap ticks pass, more than one  *)
(* period on a machine whose firmware steals that much time.               *)
(***************************************************************************)
EXTENDS Integers, Sequences

CONSTANTS Period,   \* of the timer                     (util.c: 256)
          Ms,       \* ticks in a millisecond           (util.c: 1193)
          Second,   \* milliseconds between two dots    (util.c: 1000)
          Dots,     \*                                  (util.c: 300)
          Tries,    \* reads of the line status         (serial.c: 0x10000)
          KbTries,  \* reads of the keyboard controller (reboot.c: 0x10000)
          Pulses,   \* of the reset line                (reboot.c: 10)
          MaxGaps,  \* ticks between two reads: the machines looked at
          MaxTicks, \* bounds the ticks of one wait()
          Uarts     \* what answers at the I/O ports: functions to UartKinds

ASSUME ConsoleAssumption ==
  /\ {Period, Ms, Second, Dots, Tries, KbTries, Pulses, MaxTicks} \subseteq Nat
  /\ Period > 0 /\ MaxGaps \subseteq Nat \ {0}

VARIABLES
  pc, ret,
  counter, old, left, gap,  \* timer, its last reading, ms of wait(), ticks since
  asked, elapsed, maxGap,   \* ticks asked for, ticks that passed
  com, enabled, tries,      \* serial_base, output_enabled, max_tries
  todo, lost,               \* what is left to print, did something not get out
  uart,                     \* what answers at each port
  count, kb                 \* dots or pulses, iterations of kb_wait

timeVars == <<counter, old, left, gap, asked, elapsed>>
lineVars == <<com, enabled, tries, todo, lost>>
bootVars == <<count, kb>>
hardware == <<maxGap, uart>>

UartKinds == {"works", "slow", "dead", "absent"}

ConsoleInit ==
  /\ ret = "none" /\ maxGap \in MaxGaps /\ uart \in Uarts
  /\ counter = 0 /\ old = 0 /\ left = 0 /\ gap = 0 /\ asked = 0 /\ elapsed = 0
  /\ com = 0 /\ enabled = FALSE /\ tries = Tries /\ todo = <<>> /\ lost = FALSE
  /\ count = 0 /\ kb = 0

-----------------------------------------------------------------------------
(* wait(): the timer is set to count down from one period, which reads as   *)
(* zero.                                                                    *)
Wait(ms, then) ==
  /\ pc' = "wait" /\ ret' = then
  /\ asked' = Ms * ms /\ left' = Ms * ms /\ elapsed' = 0
  /\ counter' = 0 /\ old' = 0 /\ gap' = 0

Tick ==
  /\ pc = "wait" /\ left > 0 /\ gap < maxGap /\ elapsed < MaxTicks
  /\ counter' = IF counter = 0 THEN Period - 1 ELSE counter - 1
  /\ gap' = gap + 1 /\ elapsed' = elapsed + 1
  /\ UNCHANGED <<pc, ret, old, left, asked, lineVars, bootVars, hardware>>

(* (unsigned char)(old - state), a difference modulo the period.            *)
Difference == IF old >= counter THEN old - counter ELSE old - counter + Period

(* Mutant: the difference is taken the wrong way round.                     *)
ReadUp ==
  /\ pc = "wait" /\ left > 0
  /\ left' = left - (IF counter >= old THEN counter - old ELSE counter - old + Period)
  /\ old' = counter /\ gap' = 0
  /\ UNCHANGED <<pc, ret, counter, asked, elapsed, lineVars, bootVars, hardware>>

(* Mutant: a difference that wrapped is dropped.                            *)
ReadSigned ==
  /\ pc = "wait" /\ left > 0
  /\ left' = left - (IF old >= counter THEN old - counter ELSE 0)
  /\ old' = counter /\ gap' = 0
  /\ UNCHANGED <<pc, ret, counter, asked, elapsed, lineVars, bootVars, hardware>>

ReadTimer ==
  /\ pc = "wait" /\ left > 0
  /\ left' = left - Difference /\ old' = counter /\ gap' = 0
  /\ UNCHANGED <<pc, ret, counter, asked, elapsed, lineVars, bootVars, hardware>>

WaitDone ==
  /\ pc = "wait" /\ left <= 0 /\ pc' = ret
  /\ UNCHANGED <<ret, timeVars, lineVars, bootVars, hardware>>

-----------------------------------------------------------------------------
(* printf: the characters are put out one by one, a new line as "\n\r".     *)
Printing(text, then) == pc' = "print" /\ ret' = then /\ todo' = text
Line(text) == <<text, "nl", "cr">>

(* serial_init, with the port the BIOS data area names.                     *)
SerialInit(port) == com' = port /\ enabled' = TRUE

(* Transmit holding register empty: ones are read where nothing answers; a  *)
(* port that works is ready before the tries are over.                      *)
Ready == CASE uart[com] = "absent" -> {TRUE}
           [] uart[com] = "dead"   -> {FALSE}
           [] uart[com] = "slow"   -> BOOLEAN
           [] uart[com] = "works"  -> IF tries = 0 THEN {TRUE} ELSE BOOLEAN

NextChar == todo' = Tail(todo) /\ tries' = Tries

(* Mutant: the line status is polled for ever.                              *)
SerialSendForever ==
  /\ pc = "print" /\ todo # <<>>
  /\ \/ /\ ~enabled /\ NextChar /\ lost' = TRUE /\ UNCHANGED enabled
     \/ /\ enabled /\ TRUE \in Ready /\ NextChar /\ UNCHANGED enabled
        /\ lost' = (lost \/ uart[com] \notin {"works", "slow"})
     \/ enabled /\ FALSE \in Ready /\ UNCHANGED <<todo, tries, lost, enabled>>
  /\ UNCHANGED <<pc, ret, com, timeVars, bootVars, hardware>>

(* serial_send: the port is given up for good when its transmitter stays    *)
(* busy.                                                                    *)
SerialSend ==
  /\ pc = "print" /\ todo # <<>>
  /\ \/ /\ ~enabled /\ NextChar /\ lost' = TRUE /\ UNCHANGED enabled
     \/ /\ enabled /\ TRUE \in Ready /\ NextChar /\ UNCHANGED enabled
        /\ lost' = (lost \/ uart[com] \notin {"works", "slow"})
     \/ /\ enabled /\ FALSE \in Ready /\ tries > 0
        /\ tries' = tries - 1 /\ UNCHANGED <<todo, lost, enabled>>
     \/ /\ enabled /\ FALSE \in Ready /\ tries = 0
        /\ enabled' = FALSE /\ NextChar /\ lost' = TRUE
  /\ UNCHANGED <<pc, ret, com, timeVars, bootVars, hardware>>

Printed ==
  /\ pc = "print" /\ todo = <<>> /\ pc' = ret
  /\ UNCHANGED <<ret, timeVars, lineVars, bootVars, hardware>>

-----------------------------------------------------------------------------
(* __exit: main() returned, or an assertion failed.                         *)
Exit ==
  /\ pc = "exit" /\ Printing(Line("status"), "dots") /\ count' = 0
  /\ UNCHANGED <<kb, timeVars, com, enabled, tries, lost, hardware>>

NextDot ==
  /\ pc = "dots" /\ count < Dots /\ Wait(Second, "dot") /\ count' = count + 1
  /\ UNCHANGED <<kb, lineVars, hardware>>

Dot ==
  /\ pc = "dot" /\ Printing(<<"dot">>, "dots")
  /\ UNCHANGED <<timeVars, com, enabled, tries, lost, bootVars, hardware>>

(* reboot().                                                                *)
Reboot ==
  /\ pc = "dots" /\ count = Dots /\ Printing(Line("reset"), "pulses") /\ count' = 0
  /\ UNCHANGED <<kb, timeVars, com, enabled, tries, lost, hardware>>

NextPulse ==
  /\ pc = "pulses" /\ count < Pulses /\ pc' = "kbWait" /\ kb' = 0 /\ count' = count + 1
  /\ UNCHANGED <<ret, timeVars, lineVars, hardware>>

(* kb_wait: the input buffer may be full for ever.                          *)
KbBusy ==
  /\ pc = "kbWait" /\ kb < KbTries /\ kb' = kb + 1 /\ Wait(1, "kbWait")
  /\ UNCHANGED <<count, lineVars, hardware>>

KbReady ==
  /\ pc = "kbWait" /\ pc' = "pulse"
  /\ UNCHANGED <<ret, timeVars, lineVars, bootVars, hardware>>

(* "pulse reset low": the machine starts again, or does not care.           *)
Pulse ==
  /\ pc = "pulse"
  /\ \/ pc' = "reset" /\ UNCHANGED <<ret, timeVars>>
     \/ Wait(1, "pulses")
  /\ UNCHANGED <<lineVars, bootVars, hardware>>

Hang ==
  /\ pc = "pulses" /\ count = Pulses /\ Printing(Line("didn't work"), "hung")
  /\ UNCHANGED <<timeVars, com, enabled, tries, lost, bootVars, hardware>>

Service ==
  \/ ReadTimer \/ WaitDone \/ SerialSend \/ Printed
  \/ Exit \/ NextDot \/ Dot \/ Reboot \/ NextPulse \/ KbBusy \/ KbReady \/ Pulse \/ Hang
=============================================================================
