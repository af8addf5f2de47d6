----------------------------- MODULE SystemTimer -----------------------------
(***************************************************************************)
(* The 64-bit timer behind a 32-bit bus: SystemTimer, the driver that      *)
(* reads and writes it word by word while it counts (hb32::Mtime), and the *)
(* program that has itself woken periodically (the example mtime.rs).      *)
(*                                                                         *)
(* A time is the pair of its high and its low word.  A step is an edge of  *)
(* the bus clock, at which time may advance and at which the hart makes at *)
(* most one access, or a step of software between two edges.               *)
(***************************************************************************)
EXTENDS HalCall

CONSTANTS
  B,        \* number of values of a word: 2^32
  Times,    \* the times that software sets
  Intervals \* the intervals for which it sets an alarm

Word == 0 .. B - 1
Time == Word \X Word
MAX  == B - 1

\* No program sets a time whose high word is the largest one, and an alarm
\* is set for at most a low word ahead.
ASSUME TimerAssumption ==
  /\ B \in Nat /\ B >= 2
  /\ Times \subseteq {t \in Time : t[1] < MAX}
  /\ Intervals \subseteq Word

VARIABLES
  mtime, mtimecmp, update_irq, mtimer_int,  \* the registers of SystemTimer
  arg, high, low,                           \* the locals of the driver
  since,      \* history: mtime, or mtimecmp, when the call began
  MTIMER_IRQ_FLAG, mtie                     \* of the periodic program

mtimer_vars == <<mtime, mtimecmp, update_irq, mtimer_int>>
mlocal_vars == <<arg, high, low, since>>
alarm_vars  == <<MTIMER_IRQ_FLAG, mtie>>
timer_vars  == <<mtimer_vars, mlocal_vars, alarm_vars>>
tvars       == <<call_vars, timer_vars>>

Le(s, t) == s[1] < t[1] \/ (s[1] = t[1] /\ s[2] <= t[2])

NextWord(w) == IF w < MAX THEN w + 1 ELSE 0

\* The 64-bit counter, with its carry.
Succ(t) == IF t[2] < MAX THEN <<t[1], t[2] + 1>> ELSE <<NextWord(t[1]), 0>>

\* time += ticks, in update_mtimecmp_forward.
Forward(t, ticks) == IF t[2] + ticks < B THEN <<t[1], t[2] + ticks>>
                     ELSE <<NextWord(t[1]), t[2] + ticks - B>>

-----------------------------------------------------------------------------
(***************************************************************************)
(* The timer.  wen is the register that is written, or "no".               *)
(***************************************************************************)
\* The counter does not come to the end of its 64 bits, unless set_mtime has
\* just moved it there.
CanTick == mtime # <<MAX, MAX>> \/ call = "set_mtime"

Counter(wen, wdata, time_update) ==
  mtime' = IF wen = "mtimeh" THEN <<wdata, mtime[2]>>
           ELSE IF wen = "mtimel" THEN <<mtime[1], wdata>>
           ELSE IF time_update THEN Succ(mtime) ELSE mtime

Compare(wen, wdata) ==
  IF wen \in {"mtimecmph", "mtimecmpl"}
  THEN /\ mtimer_int' = FALSE
       /\ mtimecmp' = IF wen = "mtimecmph" THEN <<wdata, mtimecmp[2]>>
                                           ELSE <<mtimecmp[1], wdata>>
  ELSE /\ mtimer_int' = IF update_irq THEN Le(mtimecmp, mtime) ELSE mtimer_int
       /\ UNCHANGED mtimecmp

Edge(wen, wdata, time_update) ==
  /\ time_update => CanTick
  /\ Counter(wen, wdata, time_update)
  /\ update_irq' = (wen # "no" \/ time_update)
  /\ Compare(wen, wdata)

WriteReg(reg, w) == \E time_update \in BOOLEAN : Edge(reg, w, time_update)
ReadReg == \E time_update \in BOOLEAN : Edge("no", 0, time_update)

-----------------------------------------------------------------------------
(***************************************************************************)
(* The driver: one action per access of a call.                            *)
(***************************************************************************)
Reading == {"mtime", "forward"}

\* At the end of a call its locals are dead.
Forget  == arg' = <<0, 0>> /\ high' = 0 /\ low' = 0 /\ since' = <<0, 0>>
InCall  == Continue /\ UNCHANGED mlocal_vars
EndCall == Return /\ Forget

ReadHigh ==
  /\ call \in Reading /\ step = 1 /\ ReadReg
  /\ high' = mtime[1] /\ Continue /\ UNCHANGED <<arg, low, since>>

ReadLow ==
  /\ call \in Reading /\ step = 2 /\ ReadReg
  /\ low' = mtime[2] /\ Continue /\ UNCHANGED <<arg, high, since>>

\* The value is taken if the high word is still the same, otherwise all is
\* read again; update_mtimecmp_forward goes on to set_mtimecmp with it.
MutNoRetry ==
  /\ call \in Reading /\ step = 3 /\ ReadReg /\ EndCall
ReadHighAgain ==
  /\ call \in Reading /\ step = 3 /\ ReadReg
  /\ \/ mtime[1] # high /\ Goto(call, 1) /\ UNCHANGED mlocal_vars
     \/ mtime[1] = high /\ call = "mtime" /\ EndCall
     \/ /\ mtime[1] = high /\ call = "forward"
        /\ Begin("set_mtimecmp")
        /\ arg' = Forward(<<high, low>>, arg[2]) /\ since' = mtimecmp
        /\ high' = 0 /\ low' = 0

ReadMtime == ReadHigh \/ ReadLow \/ ReadHighAgain

\* The low word is made the largest first, so that no mixture of the old and
\* the new deadline is earlier than both.  Mutant: high word, low word.
MutHighFirst ==
  \/ At("set_mtimecmp", 1) /\ WriteReg("mtimecmph", arg[1]) /\ InCall
  \/ At("set_mtimecmp", 2) /\ WriteReg("mtimecmpl", arg[2]) /\ EndCall
set_mtimecmp ==
  \/ At("set_mtimecmp", 1) /\ WriteReg("mtimecmpl", MAX) /\ InCall
  \/ At("set_mtimecmp", 2) /\ WriteReg("mtimecmph", arg[1]) /\ InCall
  \/ At("set_mtimecmp", 3) /\ WriteReg("mtimecmpl", arg[2]) /\ EndCall

set_mtime ==
  \/ At("set_mtime", 1) /\ WriteReg("mtimeh", MAX) /\ InCall
  \/ At("set_mtime", 2) /\ WriteReg("mtimel", arg[2]) /\ InCall
  \/ At("set_mtime", 3) /\ WriteReg("mtimeh", arg[1]) /\ EndCall

\* An edge without an access.
Idle == ReadReg /\ UNCHANGED mlocal_vars /\ Wait

-----------------------------------------------------------------------------
(***************************************************************************)
(* The programs: any order of calls, and mtime.rs.                         *)
(***************************************************************************)
BeginWith(c, value, history) ==
  Begin(c) /\ arg' = value /\ since' = history /\ UNCHANGED <<high, low>>

CallTimer ==
  /\ program = "timer" /\ Resting
  /\ \/ BeginWith("mtime", <<0, 0>>, mtime)
     \/ \E ticks \in Intervals : BeginWith("forward", <<0, ticks>>, mtime)
     \/ \E t \in Times : \/ BeginWith("set_mtimecmp", t, mtimecmp)
                         \/ BeginWith("set_mtime", t, mtime)
  /\ UNCHANGED alarm_vars

\* The loop of mtime.rs: the flag is taken and the alarm set again; when that
\* is done the interrupt is enabled.
TakeFlag ==
  /\ program = "periodic" /\ Resting /\ MTIMER_IRQ_FLAG
  /\ MTIMER_IRQ_FLAG' = FALSE /\ UNCHANGED mtie
  /\ \E ticks \in Intervals : BeginWith("forward", <<0, ticks>>, mtime)

\* Mutant: the loop does not enable the interrupt again.
MutStayDisabled == FALSE
AlarmIsSet == program = "periodic" /\ Resting /\ ~MTIMER_IRQ_FLAG /\ ~mtie
EnableTimer ==
  /\ AlarmIsSet /\ mtie' = TRUE
  /\ UNCHANGED <<MTIMER_IRQ_FLAG, mlocal_vars>> /\ Wait

\* The interrupt handler comes between any two instructions.  It disables its
\* interrupt: one that came back with it pending would be entered again before
\* the program executed anything.
mtimer_IRQ_Handler ==
  /\ mtimer_int /\ mtie
  /\ mtie' = FALSE /\ MTIMER_IRQ_FLAG' = TRUE
  /\ UNCHANGED mlocal_vars /\ Wait

TimerRest ==
  /\ mtime = <<0, 0>> /\ update_irq = FALSE /\ mtimer_int = FALSE
  /\ high = 0 /\ low = 0 /\ since = mtime
  /\ MTIMER_IRQ_FLAG = FALSE /\ mtie = FALSE

\* mtimecmp has no defined value before software sets it.
TimerInit ==
  /\ program \in {"timer", "periodic"}
  /\ TimerRest /\ mtimecmp \in Time
  /\ IF program = "timer"
     THEN call = "none" /\ step = 0 /\ arg = <<0, 0>>
     ELSE call = "forward" /\ step = 1 /\ arg \in {0} \X Intervals

TimerDriver  == (ReadMtime \/ set_mtimecmp \/ set_mtime) /\ UNCHANGED alarm_vars
TimerQuiet   == program \in {"timer", "periodic"} /\ Idle /\ UNCHANGED alarm_vars
TimerProgram == (TakeFlag \/ EnableTimer \/ mtimer_IRQ_Handler) /\ UNCHANGED mtimer_vars

TimerNext ==
  \/ TimerDriver \/ TimerQuiet \/ TimerProgram
  \/ CallTimer /\ UNCHANGED mtimer_vars

TimerSpec == TimerInit /\ [][TimerNext]_tvars

\* The crystal ticks, the hart executes the program, and not every edge of
\* the bus clock carries an access.
TimerFairness ==
  /\ WF_tvars(TimerQuiet /\ mtime' # mtime)
  /\ WF_tvars(TimerQuiet)
  /\ WF_tvars(TimerDriver)
  /\ WF_tvars(TimerProgram)

-----------------------------------------------------------------------------
TimerTypeOK ==
  /\ mtime \in Time /\ mtimecmp \in Time
  /\ update_irq \in BOOLEAN /\ mtimer_int \in BOOLEAN
  /\ step \in 0 .. 3
  /\ arg \in Time /\ high \in Word /\ low \in Word /\ since \in Time
  /\ MTIMER_IRQ_FLAG \in BOOLEAN /\ mtie \in BOOLEAN

\* A time that is read was the time at some moment of the call, although it
\* is put together from two words read at different ones.
ReadsTrue ==
  [][step = 3 /\ call \in Reading /\ call' # call =>
       Le(since, <<high, low>>) /\ Le(<<high, low>>, mtime)]_tvars

\* The timer interrupt comes at a deadline that software has set: the one in
\* force or, while it is being changed, the old or the new one; never at a
\* mixture of the two.  Setting mtime itself passes through a time far ahead
\* and may raise it.
Due(t) == Le(t, mtime)
NeverEarly ==
  [][~mtimer_int /\ mtimer_int' =>
       \/ call = "set_mtime"
       \/ call = "set_mtimecmp" /\ (Due(since) \/ Due(arg))
       \/ call # "set_mtimecmp" /\ Due(mtimecmp)]_tvars

\* The periodic program is woken again and again: no order of ticks, handler
\* and main loop leaves the alarm in the future for ever, the interrupt disabled
\* or the flag unseen.  (Where the model's time ends the next deadline wraps
\* and is due at once.)
KeepsWaking == []<>(program = "periodic" => MTIMER_IRQ_FLAG)
=============================================================================
