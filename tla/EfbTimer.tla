------------------------------ MODULE EfbTimer ------------------------------
(***************************************************************************)
(* The 16-bit timer of the hard core behind its 8-bit registers: the       *)
(* driver wisbone::Timer and the program timer.rs, whose interrupt handler *)
(* only sets a flag and leaves the rest, also the source, to the main loop.*)
(*                                                                         *)
(* A value of 16 bits is a number below R * R, its bytes are below R.      *)
(***************************************************************************)
EXTENDS HalCall, Sequences

CONSTANTS
  R,                              \* number of values of a byte: 256
  TOP_1HZ, TOP_PWM, COMPARE_PWM,  \* 46875, 40000, 20000
  TOP_BREATHING, LIMIT            \* 468, 460

ASSUME EfbTimerAssumption ==
  /\ {R, TOP_1HZ, TOP_PWM, COMPARE_PWM, TOP_BREATHING, LIMIT} \subseteq Nat \ {0}
  /\ R >= 2 /\ LIMIT < TOP_BREATHING
  /\ {TOP_1HZ, TOP_PWM, COMPARE_PWM, TOP_BREATHING} \subseteq 0 .. R * R - 1

VARIABLES
  regs, counter, ovf,         \* the registers, the counter, its status bit
  plan,                       \* the writes that the driver has still to make
  pending, returned,          \* the interrupt controller's bit; the hart comes
                              \* from the handler
  low_byte, value, count0,    \* counter(): first byte, result, history
  COMPARE, ADD, TIMER_IRQ_FLAG \* the statics of timer.rs

interrupt_vars == <<pending, returned>>
efb_vars == <<regs, counter, ovf, plan, interrupt_vars, low_byte, value, count0,
              COMPARE, ADD, TIMER_IRQ_FLAG>>
evars    == <<call_vars, efb_vars>>

LowByte(v)  == v % R
HighByte(v) == v \div R

\* TimerMode: the output and the counter mode of each.
ModeBits ==
  [StaticLow |-> <<"StaticLow", "Watchdog">>,
   ToggleOnTopWatchDog |-> <<"ToggleOnTop", "Watchdog">>,
   ToggleOnTopClearTimerOnTop |-> <<"ToggleOnTop", "ClearTimerOnTop">>,
   SetClearFastPWM |-> <<"SetClear", "FastPWM">>,
   ClearSetFastPWM |-> <<"ClearSet", "FastPWM">>,
   SetClearPhaseAndFrequencyCorrectPWM |-> <<"SetClear", "PhaseAndFrequencyCorrectPWM">>,
   ClearSetPhaseAndFrequencyCorrectPWM |-> <<"ClearSet", "PhaseAndFrequencyCorrectPWM">>]

\* TimerDivider; what is left of 0 - 1 in three bits is no divider.
DISABLED == 0
Div1     == 1
Div8     == 2
Div256   == 4
Div1024  == 5
FromBits(bits) == IF bits <= Div1024 THEN bits ELSE 6

-----------------------------------------------------------------------------
(***************************************************************************)
(* What the driver writes: a sequence of pairs of register and value.      *)
(***************************************************************************)
set_control0(prescale) == << <<"prescale", prescale>> >>
set_mode(mode)         == << <<"mode", ModeBits[mode]>> >>
set_top_autoload(on)   == << <<"tsel", on>> >>
set_int_en(on)         == << <<"irqovf", on>> >>
set_top(v)     == << <<"top_setl", LowByte(v)>>, <<"top_seth", HighByte(v)>> >>
set_compare(v) == << <<"compare_setl", LowByte(v)>>, <<"compare_seth", HighByte(v)>> >>

set_duty_cycle(duty) ==
  set_top_autoload(FALSE) \o set_mode("ClearSetFastPWM") \o set_control0(Div1)
    \o set_compare(duty)

set_1hz == set_control0(Div256) \o set_mode("ToggleOnTopClearTimerOnTop") \o set_top(TOP_1HZ)
pwm     == set_control0(Div8) \o set_mode("SetClearFastPWM") \o set_top(TOP_PWM)
             \o set_compare(COMPARE_PWM)
breathing_light ==
  set_control0(Div1) \o set_mode("SetClearFastPWM") \o set_top(TOP_BREATHING)
    \o << <<"COMPARE", 0>> >> \o set_compare(0) \o set_int_en(TRUE)
exit_breathing_light == set_int_en(FALSE)

clkdiv_up ==
  IF regs.prescale = Div1024 THEN <<>> ELSE set_control0(FromBits(regs.prescale + 1))
clkdiv_down ==
  IF regs.prescale = Div1 THEN <<>>
  ELSE set_control0(FromBits(IF regs.prescale = 0 THEN 7 ELSE regs.prescale - 1))

-----------------------------------------------------------------------------
(***************************************************************************)
(* The core: the counter runs from 0 to top and sets its status bit there. *)
(***************************************************************************)
\* The controller shows the interrupt a step after its source.
ShowPending == pending' = (ovf /\ regs.irqovf)

Restarted == R * R
Top == regs.top_seth * R + regs.top_setl

EfbTick ==
  /\ regs.prescale \notin {DISABLED, 6}
  /\ IF counter \in {Top, R * R - 1}
     THEN counter' = 0 /\ ovf' = TRUE /\ count0' = IF call = "counter" THEN Restarted ELSE 0
     ELSE counter' = counter + 1 /\ UNCHANGED <<ovf, count0>>
  /\ ShowPending /\ UNCHANGED returned
  /\ UNCHANGED <<call_vars, regs, plan, low_byte, value, COMPARE, ADD, TIMER_IRQ_FLAG>>

-----------------------------------------------------------------------------
(***************************************************************************)
(* The hart.                                                               *)
(***************************************************************************)
\* An interrupt that is pending when a handler returns is taken before the main
\* program executes any instruction.
MainStep == ~(returned /\ pending) /\ returned' = FALSE /\ ShowPending

WriteNext ==
  /\ MainStep
  /\ call \in {"write_regs", "do_timer_irq"} /\ plan # <<>>
  /\ LET r == plan[1][1]
         v == plan[1][2]
     IN  IF r = "COMPARE" THEN COMPARE' = v /\ UNCHANGED regs
         ELSE regs' = [regs EXCEPT ![r] = v] /\ UNCHANGED COMPARE
  /\ plan' = Tail(plan)
  /\ IF Len(plan) > 1 THEN Wait
     ELSE IF call = "write_regs" THEN Begin("do_timer_irq") ELSE Return
  /\ UNCHANGED <<counter, ovf, low_byte, value, count0, ADD, TIMER_IRQ_FLAG>>

\* counter(): the low byte, then the high one.  Mutant: the other way round.
MutHighByteFirst ==
  /\ call = "counter" /\ MainStep
  /\ \/ step = 1 /\ low_byte' = HighByte(counter) /\ Continue /\ UNCHANGED value
     \/ /\ step = 2 /\ value' = low_byte * R + LowByte(counter)
        /\ Begin("do_timer_irq") /\ UNCHANGED low_byte
  /\ UNCHANGED <<regs, counter, ovf, plan, count0, COMPARE, ADD, TIMER_IRQ_FLAG>>
get_u16_from_2_u8 ==
  /\ call = "counter" /\ MainStep
  /\ \/ step = 1 /\ low_byte' = LowByte(counter) /\ Continue /\ UNCHANGED value
     \/ /\ step = 2 /\ value' = HighByte(counter) * R + low_byte
        /\ Begin("do_timer_irq") /\ UNCHANGED low_byte
  /\ UNCHANGED <<regs, counter, ovf, plan, count0, COMPARE, ADD, TIMER_IRQ_FLAG>>

Timer_IRQ_Handler ==
  /\ pending /\ ShowPending
  /\ TIMER_IRQ_FLAG' = TRUE /\ returned' = TRUE
  /\ UNCHANGED <<call_vars, regs, counter, ovf, plan, low_byte, value, count0, COMPARE, ADD>>

\* Once in each round of the main loop, after a command if there is one.  The
\* duty swings between 0 and LIMIT.
do_timer_irq ==
  /\ MainStep /\ UNCHANGED <<counter, regs>>
  /\ low_byte' = 0 /\ value' = 0 /\ count0' = 0
  /\ \/ /\ program = "efb" /\ Resting /\ Begin("do_timer_irq")
        /\ UNCHANGED <<ovf, plan, COMPARE, ADD, TIMER_IRQ_FLAG>>
     \/ /\ At("do_timer_irq", 1) /\ TIMER_IRQ_FLAG' = FALSE
        /\ IF TIMER_IRQ_FLAG THEN Continue ELSE Return
        /\ UNCHANGED <<ovf, plan, COMPARE, ADD>>
     \/ /\ At("do_timer_irq", 2) /\ ovf' = FALSE /\ Continue
        /\ UNCHANGED <<plan, COMPARE, ADD, TIMER_IRQ_FLAG>>
     \/ /\ At("do_timer_irq", 3) /\ plan = <<>>
        /\ ADD' = IF COMPARE = 0 THEN TRUE ELSE IF COMPARE = LIMIT THEN FALSE ELSE ADD
        /\ COMPARE' = IF ADD' THEN COMPARE + 1 ELSE COMPARE - 1
        /\ plan' = set_compare(COMPARE')
        /\ Wait /\ UNCHANGED <<ovf, TIMER_IRQ_FLAG>>

Commands == {set_1hz, pwm, clkdiv_up, clkdiv_down, breathing_light,
             exit_breathing_light, set_duty_cycle(COMPARE_PWM)} \ {<<>>}

CallEfb ==
  /\ program = "efb" /\ Resting /\ MainStep
  /\ UNCHANGED <<regs, counter, ovf, low_byte, value, COMPARE, ADD, TIMER_IRQ_FLAG>>
  /\ \/ \E c \in Commands : plan' = c /\ Begin("write_regs") /\ UNCHANGED count0
     \/ Begin("counter") /\ count0' = counter /\ UNCHANGED plan

EfbRest ==
  /\ regs = [prescale |-> DISABLED, mode |-> ModeBits["StaticLow"], tsel |-> TRUE,
             irqovf |-> FALSE, top_setl |-> 0, top_seth |-> 0,
             compare_setl |-> 0, compare_seth |-> 0]
  /\ counter = 0 /\ ovf = FALSE /\ plan = <<>> /\ pending = FALSE /\ returned = FALSE
  /\ low_byte = 0 /\ value = 0 /\ count0 = 0
  /\ COMPARE = 0 /\ ADD = FALSE /\ TIMER_IRQ_FLAG = FALSE

EfbInit == program = "efb" /\ call = "none" /\ step = 0 /\ EfbRest

EfbDriver == WriteNext \/ get_u16_from_2_u8 \/ do_timer_irq
EfbNext   == EfbDriver \/ EfbTick \/ Timer_IRQ_Handler \/ CallEfb

EfbSpec == EfbInit /\ [][EfbNext]_evars

-----------------------------------------------------------------------------
\* counter() reads two bytes of a running counter without reading again, low
\* byte first.  Its result may be torn, a value that the counter has never had;
\* this only bounds it: it is not behind the counter as it was at the call, and
\* it lies in the block of low bytes in which the counter is on return, unless
\* the counter has started again in between.
CounterRead ==
  [][At("counter", 2) /\ call' # call /\ count0 # Restarted =>
       value' >= count0 /\ HighByte(value') = HighByte(counter)]_evars
=============================================================================
