------------------------- MODULE ExternalInterrupts -------------------------
(***************************************************************************)
(* The enable register of the external interrupts, which the main program  *)
(* and the interrupt handlers change by reading, modifying and writing it: *)
(* External_INT_Ctrl, the driver hb32::EintController, and the hart's      *)
(* request of an interrupt and its entry.  The driver has no critical      *)
(* section: an interrupt may come between the reading and the writing.     *)
(*                                                                         *)
(* A step is an instruction, at its last edge of the clock, or an edge at  *)
(* which the hart only waits.                                              *)
(***************************************************************************)
EXTENDS HalCall, FiniteSets

CONSTANTS
  Sources  \* the interrupt sources in use

\* Their numbers are their bits in the registers, and in a mask.
ExternalInterrupt ==
  [Uart |-> 0, I2c1 |-> 8, I2c2 |-> 9, Spi |-> 10, Timer |-> 11, Wbcufm |-> 12]

ASSUME InterruptAssumption ==
  Sources \subseteq {ExternalInterrupt[name] : name \in DOMAIN ExternalInterrupt}

\* Code 0, which is no interrupt's: its vector is that of the exceptions.
NoCause == 32

VARIABLES
  irq_source, INT_enable_reg, INT_pending_reg, \* the controller
  mie, ready_for_int,   \* mstatus.MIE; an interrupt has been requested
  handling,             \* the set of the source whose handler runs
  main_at, main_locals, \* where it has interrupted the main program
  request, mask,        \* of a call: what it asks for, its local
  asked,                \* history: the sources that software wants
  lost,                 \* history: changes within the other's window
  trailing,             \* history: those that have come after their disabling
  raced                 \* history: those gone at the very edge at which they rose

eint_device  == <<INT_enable_reg, INT_pending_reg, ready_for_int>>
eint_trap    == <<mie, handling, main_at, main_locals>>
locals       == <<request, mask>>
eint_history == <<asked, lost, trailing, raced>>
eint_vars    == <<irq_source, eint_device, eint_trap, locals, eint_history>>
xvars        == <<call_vars, eint_vars>>

AtRest == [enable |-> TRUE, mask |-> {}]

-----------------------------------------------------------------------------
\* An edge: a source is pending from the edge after it is enabled, and the hart
\* requests the interrupt at the end of an instruction that finds it pending.
External_INT_Ctrl(enable) ==
  /\ INT_enable_reg' = enable
  /\ INT_pending_reg' = irq_source \cap INT_enable_reg

\* Mutant: what is pending stays so without being enabled.
MutLatched(enable) ==
  /\ INT_enable_reg' = enable
  /\ INT_pending_reg' = irq_source \cap (INT_enable_reg \cup INT_pending_reg)
Controller(enable) == External_INT_Ctrl(enable)

valid_int_req == INT_pending_reg # {} /\ mie /\ ~ready_for_int

EintEdge(enable) == Controller(enable) /\ ready_for_int' = valid_int_req
NoWrite == EintEdge(INT_enable_reg)

\* Risen at this edge: not pending before the next one.
JustRisen == (irq_source \cap INT_enable_reg) \ INT_pending_reg

\* The level of a source rises at any time, and falls when the main program or
\* its handler serves it.
RaiseSource ==
  /\ program = "eint"
  /\ \E s \in Sources \ irq_source : irq_source' = irq_source \cup {s}
  /\ UNCHANGED <<eint_device, eint_trap, locals, eint_history>>
  /\ Wait

PollSource ==
  /\ program = "eint" /\ Resting /\ ~ready_for_int
  /\ \E s \in irq_source :
       irq_source' = irq_source \ {s} /\ raced' = raced \cup (JustRisen \cap {s})
  /\ NoWrite /\ Wait /\ UNCHANGED <<eint_trap, locals, asked, lost, trailing>>

-----------------------------------------------------------------------------
(***************************************************************************)
(* The call, by the main program or by a handler: enable_interrupt_mask or *)
(* disable_interrupt_mask.                                                 *)
(***************************************************************************)
CallEint ==
  /\ program = "eint" /\ call \in {"none", "handler"} /\ ~ready_for_int
  /\ \E sources \in SUBSET Sources \ {{}}, on \in BOOLEAN :
       request' = [enable |-> on, mask |-> sources]
  /\ Begin("modify_enable") /\ NoWrite
  /\ UNCHANGED <<irq_source, eint_trap, mask, eint_history>>

\* Mutant: the bits enabled before are not kept.
MutOverwrite(old) == IF request.enable THEN request.mask ELSE old \ request.mask
Modified(old) == IF request.enable THEN old \cup request.mask ELSE old \ request.mask

\* A handler has interrupted the main program between its reading and its
\* writing of the register.
InWindow == handling # {} /\ main_at = <<"modify_enable", 2>>

Asked ==
  /\ asked' = IF request.enable THEN asked \cup request.mask ELSE asked \ request.mask
  /\ lost' = IF InWindow THEN lost \cup request.mask ELSE lost \ request.mask
  /\ trailing' = IF request.enable THEN trailing \ request.mask ELSE trailing
  /\ raced' = raced \cup (JustRisen \ Modified(mask))

modify_enable ==
  /\ ~ready_for_int /\ UNCHANGED <<irq_source, eint_trap>>
  /\ \/ At("modify_enable", 1) /\ NoWrite /\ mask' = INT_enable_reg /\ Continue
        /\ UNCHANGED <<request, eint_history>>
     \/ At("modify_enable", 2) /\ EintEdge(Modified(mask)) /\ Asked
        /\ request' = AtRest /\ mask' = {}
        /\ IF handling = {} THEN Return ELSE Begin("handler")

-----------------------------------------------------------------------------
(***************************************************************************)
(* The trap and the handler.                                               *)
(***************************************************************************)
\* The pending source with the lowest number.  None may be left at the entry:
\* then the code of the exceptions is taken.
custom_int_code ==
  IF INT_pending_reg = {} THEN NoCause
  ELSE CHOOSE s \in INT_pending_reg : \A t \in INT_pending_reg : s <= t

TakeInterrupt ==
  /\ program = "eint" /\ ready_for_int
  /\ handling' = {custom_int_code} /\ mie' = FALSE
  /\ main_at' = <<call, step>> /\ main_locals' = locals
  /\ request' = AtRest /\ mask' = {}
  /\ trailing' = trailing \cup ((handling' \cap Sources) \ INT_enable_reg)
  /\ raced' = {}
  /\ Begin("handler") /\ NoWrite /\ UNCHANGED <<irq_source, asked, lost>>

ServeSource ==
  /\ call = "handler" /\ irq_source' = irq_source \ handling
  /\ NoWrite /\ Wait /\ UNCHANGED <<eint_trap, locals, eint_history>>

ReturnFromTrap ==
  /\ call = "handler"
  /\ Goto(main_at[1], main_at[2]) /\ request' = main_locals[1] /\ mask' = main_locals[2]
  /\ main_at' = <<"none", 0>> /\ main_locals' = <<AtRest, {}>>
  /\ mie' = TRUE /\ handling' = {}
  /\ NoWrite /\ UNCHANGED <<irq_source, eint_history>>

EintRest ==
  /\ irq_source = {} /\ INT_enable_reg = {} /\ INT_pending_reg = {}
  /\ mie = TRUE /\ ready_for_int = FALSE /\ handling = {}
  /\ main_at = <<"none", 0>> /\ main_locals = <<AtRest, {}>>
  /\ request = AtRest /\ mask = {}
  /\ asked = {} /\ lost = {} /\ trailing = {} /\ raced = {}

EintInit == program = "eint" /\ call = "none" /\ step = 0 /\ EintRest

\* Another instruction, or a wait for the bus, in which nothing is requested.
EintQuiet ==
  /\ program = "eint" /\ ~ready_for_int /\ Wait
  /\ Controller(INT_enable_reg) /\ ready_for_int' \in {valid_int_req, FALSE}
  /\ UNCHANGED <<irq_source, eint_trap, locals, eint_history>>

EintHart == modify_enable \/ ServeSource \/ ReturnFromTrap
EintNext == EintHart \/ EintQuiet \/ RaiseSource \/ PollSource \/ CallEint \/ TakeInterrupt

EintSpec == EintInit /\ [][EintNext]_xvars

-----------------------------------------------------------------------------
\* The register holds what the main program and the handlers have asked for,
\* whatever interrupts what, but for the sources that a handler has asked for
\* while the main program was between its reading and its writing: those hold
\* again from their next change on.  (The driver does not protect the two
\* accesses: hb32.rs:11.)
MaskAsAsked == program = "eint" => INT_enable_reg \ lost = asked \ lost

\* Handlers do not nest.  The handler of a source that has been disabled may
\* come once, as the write and the request may have met, and does not come
\* again until software enables the source.  An interrupt without a cause, which
\* enters the vector of the exceptions, comes only where since the last one the
\* main program has disabled or served a source at the very edge at which it rose.
SilentWhenDisabled ==
  [][TakeInterrupt =>
       /\ handling = {} /\ handling' \cap trailing = {}
       /\ handling' = {NoCause} => raced # {}]_xvars
=============================================================================
