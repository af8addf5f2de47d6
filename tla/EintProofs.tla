----------------------------- MODULE EintProofs -----------------------------
(***************************************************************************)
(* Proofs about ExternalInterrupts for every set of sources: which changes *)
(* the enable register can lose, and when a handler can come after its     *)
(* source has been disabled.                                               *)
(***************************************************************************)
EXTENDS ExternalInterrupts, TLAPS

\* Two sets of sources differ by lost changes only.
Agree(old, new) == old \ lost = new \ lost

\* A handler runs with the interrupts off; nothing else turns them off.
NotNested ==
  /\ handling = {} <=> mie
  /\ ready_for_int => mie
  /\ call = "handler" => ~mie
  /\ main_at = <<main_at[1], main_at[2]>> /\ main_at[1] # "handler"

\* The program counter of the main program, and what it has read.
AtWindow == \/ handling = {} /\ At("modify_enable", 2)
            \/ InWindow
MainMask == IF handling = {} THEN mask ELSE main_locals[2]

\* What a handler has read, nobody changes before it writes; what the main
\* program has read, only a handler changes.
Reading ==
  /\ handling # {} /\ At("modify_enable", 2) => mask = INT_enable_reg
  /\ AtWindow => Agree(MainMask, asked)

\* A source that has come after its disabling is off, and not in a mask that
\* could turn it on again.
TrailingOff ==
  /\ trailing \subseteq Sources
  /\ trailing \cap INT_enable_reg = {} /\ trailing \cap INT_pending_reg = {}
  /\ AtWindow => trailing \cap MainMask = {}

\* Behind the enable register, the pending one is only right after a write.
PendingBehind == INT_pending_reg \subseteq INT_enable_reg \/ call \in {"none", "handler"}

\* A requested interrupt finds its cause, but for a source that is gone at the
\* very edge at which it rose.
CauseStays ==
  /\ mie /\ ~ready_for_int => INT_pending_reg \subseteq irq_source \cap INT_enable_reg \/ raced # {}
  /\ ready_for_int => INT_pending_reg # {} \/ raced # {}

SourcesOK == irq_source \subseteq Sources /\ INT_pending_reg \subseteq Sources

EintInv ==
  /\ NotNested /\ Agree(INT_enable_reg, asked)
  /\ Reading /\ TrailingOff /\ PendingBehind /\ CauseStays /\ SourcesOK

-----------------------------------------------------------------------------
\* The sources are known numbers, so that a set of them has a lowest one.
LEMMA Lowest == ASSUME NEW P \in SUBSET Sources, P # {}
                PROVE  \E s \in P : \A t \in P : s <= t
<1>1. Sources \subseteq {0, 8, 9, 10, 11, 12}
  BY InterruptAssumption DEF ExternalInterrupt
<1>2. P \subseteq {0, 8, 9, 10, 11, 12}
  BY <1>1
<1>3. CASE 0 \in P
  BY <1>2, <1>3
<1>4. CASE 0 \notin P /\ 8 \in P
  BY <1>2, <1>4
<1>5. CASE 0 \notin P /\ 8 \notin P /\ 9 \in P
  BY <1>2, <1>5
<1>6. CASE P \subseteq {10, 11, 12}
  <2>1. CASE 10 \in P
    BY <1>6, <2>1
  <2>2. CASE 10 \notin P /\ 11 \in P
    BY <1>6, <2>2
  <2>3. CASE 10 \notin P /\ 11 \notin P
    <3>1. 12 \in P /\ \A t \in P : t = 12
      BY <1>6, <2>3
    <3> QED  BY <3>1
  <2> QED  BY <2>1, <2>2, <2>3
<1> QED  BY <1>2, <1>3, <1>4, <1>5, <1>6

LEMMA NoCauseIsNoSource == NoCause \notin Sources
  BY InterruptAssumption DEF ExternalInterrupt, NoCause

\* The code at the entry of an interrupt is that of a pending source, if any.
LEMMA CodeIsPending ==
  ASSUME INT_pending_reg \in SUBSET Sources
  PROVE  /\ INT_pending_reg # {} => custom_int_code \in INT_pending_reg
         /\ INT_pending_reg = {} => custom_int_code = NoCause
  BY Lowest DEF custom_int_code

-----------------------------------------------------------------------------
\* What every edge does: it makes pending what was enabled.
LEMMA EdgeSources ==
  ASSUME EintInv, NEW enable, Controller(enable), irq_source' \subseteq Sources
  PROVE  /\ INT_enable_reg' = enable /\ INT_pending_reg' = irq_source \cap INT_enable_reg
         /\ SourcesOK'
<1>1. INT_enable_reg' = enable /\ INT_pending_reg' = irq_source \cap INT_enable_reg
  BY DEF Controller, External_INT_Ctrl
<1> QED  BY <1>1 DEF SourcesOK, EintInv

\* An instruction that leaves the traps and the register alone.  Of the sources
\* it may serve some, which it notes when they have just risen.
LEMMA PlainStep ==
  ASSUME EintInv, ~ready_for_int, Controller(INT_enable_reg),
         ready_for_int' = valid_int_req \/ (ready_for_int' = FALSE /\ irq_source' = irq_source),
         irq_source' \subseteq irq_source, raced \subseteq raced',
         mie => JustRisen \ irq_source' \subseteq raced',
         UNCHANGED <<eint_trap, asked, lost, trailing>>,
         \/ UNCHANGED <<call, step, mask>>
         \/ call \in {"none", "handler"} /\ call' = "modify_enable" /\ step' = 1
  PROVE  EintInv'
<1>1. /\ INT_enable_reg' = INT_enable_reg /\ INT_pending_reg' = irq_source \cap INT_enable_reg
      /\ SourcesOK'
  BY EdgeSources DEF EintInv, SourcesOK
<1>2. UNCHANGED <<mie, handling, main_at, main_locals>>
  BY DEF eint_trap
<1>3. NotNested'
  BY <1>2 DEF NotNested, EintInv, valid_int_req
<1>4. Agree(INT_enable_reg, asked)'
  BY <1>1 DEF Agree, EintInv
<1>5. /\ AtWindow' => AtWindow /\ MainMask' = MainMask
      /\ handling' # {} /\ At("modify_enable", 2)' =>
           handling # {} /\ At("modify_enable", 2) /\ mask' = mask
  BY <1>2 DEF AtWindow, InWindow, MainMask, At, EintInv
<1>6. Reading' /\ TrailingOff'
  BY <1>1, <1>5 DEF Reading, TrailingOff, Agree, EintInv
<1>7. PendingBehind'
  BY <1>1 DEF PendingBehind
<1>8. CauseStays'
  BY <1>1, <1>2 DEF CauseStays, valid_int_req, JustRisen, EintInv
<1> QED  BY <1>1, <1>3, <1>4, <1>6, <1>7, <1>8 DEF EintInv

\* The reading of the register.
LEMMA ReadStep ==
  ASSUME EintInv, ~ready_for_int, UNCHANGED <<irq_source, eint_trap, eint_history>>,
         At("modify_enable", 1), NoWrite, mask' = INT_enable_reg, Continue
  PROVE  EintInv'
<1>1. /\ INT_enable_reg' = INT_enable_reg /\ INT_pending_reg' = irq_source \cap INT_enable_reg
      /\ SourcesOK'
  BY EdgeSources DEF NoWrite, EintEdge, EintInv, SourcesOK
<1>2. /\ UNCHANGED <<mie, handling, main_at, main_locals, asked, lost, trailing, raced>>
      /\ irq_source' = irq_source /\ call = "modify_enable" /\ call' = "modify_enable"
      /\ ready_for_int' = valid_int_req
  BY DEF eint_trap, eint_history, At, Continue, Goto, NoWrite, EintEdge
<1>3. NotNested'
  BY <1>2 DEF NotNested, EintInv, valid_int_req
<1>4. Agree(INT_enable_reg, asked)' /\ PendingBehind'
  BY <1>1, <1>2 DEF Agree, EintInv, PendingBehind
<1>5. AtWindow' => \/ handling' = {} /\ MainMask' = INT_enable_reg
                   \/ AtWindow /\ MainMask' = MainMask
  BY <1>2 DEF AtWindow, InWindow, MainMask
<1>6. Reading' /\ TrailingOff'
  BY <1>1, <1>2, <1>5 DEF Reading, TrailingOff, Agree, EintInv
<1>7. CauseStays'
  BY <1>1, <1>2 DEF CauseStays, valid_int_req, EintInv
<1> QED  BY <1>1, <1>3, <1>4, <1>6, <1>7 DEF EintInv

\* The writing of it, by the main program and by a handler.
LEMMA WriteStep ==
  ASSUME EintInv, ~ready_for_int, UNCHANGED <<irq_source, eint_trap>>,
         At("modify_enable", 2), EintEdge(Modified(mask)), Asked,
         IF handling = {} THEN Return ELSE Begin("handler")
  PROVE  EintInv'
<1>1. /\ INT_enable_reg' = Modified(mask) /\ INT_pending_reg' = irq_source \cap INT_enable_reg
      /\ SourcesOK'
  BY EdgeSources DEF EintEdge, EintInv, SourcesOK
<1>2. /\ UNCHANGED <<mie, handling, main_at, main_locals>> /\ irq_source' = irq_source
      /\ ready_for_int' = valid_int_req
      /\ IF handling = {} THEN call' = "none" ELSE call' = "handler"
  BY DEF eint_trap, EintEdge, Return, Begin, Goto
<1>3. NotNested'
  BY <1>2 DEF NotNested, EintInv, valid_int_req
<1>4. PendingBehind'
  BY <1>2 DEF PendingBehind
<1>5. CauseStays'
  BY <1>1, <1>2 DEF CauseStays, Asked, JustRisen, valid_int_req, EintInv
<1>6. CASE handling = {}
  <2>1. Agree(mask, asked) /\ trailing \cap mask = {} /\ ~AtWindow'
    BY <1>2, <1>6 DEF EintInv, Reading, TrailingOff, AtWindow, InWindow, MainMask, At
  <2>2. lost' = lost \ request.mask
    BY <1>6 DEF Asked, InWindow
  <2>3. Agree(INT_enable_reg, asked)'
    BY <1>1, <2>1, <2>2 DEF Agree, Asked, Modified
  <2>4. TrailingOff'
    BY <1>1, <2>1 DEF TrailingOff, Asked, Modified, EintInv
  <2>5. Reading'
    BY <1>2, <1>6, <2>1 DEF Reading
  <2> QED  BY <1>1, <1>3, <1>4, <1>5, <2>3, <2>4, <2>5 DEF EintInv
<1>7. CASE handling # {}
  <2>1. mask = INT_enable_reg /\ Agree(mask, asked) /\ trailing \cap mask = {}
    BY <1>7 DEF EintInv, Reading, TrailingOff
  <2>2. Agree(INT_enable_reg, asked)'
    BY <1>1, <2>1 DEF Agree, Asked, Modified
  <2>3. AtWindow' => /\ AtWindow /\ MainMask' = MainMask /\ InWindow
    BY <1>2, <1>7 DEF AtWindow, InWindow, MainMask
  <2>4. AtWindow' => Agree(MainMask, asked)'
    BY <2>3 DEF Agree, Asked, EintInv, Reading
  <2>5. Reading'
    BY <1>2, <1>7, <2>4 DEF Reading, At
  <2>6. TrailingOff'
    BY <1>1, <2>1, <2>3 DEF TrailingOff, Asked, Modified, EintInv
  <2> QED  BY <1>1, <1>3, <1>4, <1>5, <2>2, <2>5, <2>6 DEF EintInv
<1> QED  BY <1>6, <1>7

\* The entry finds no handler running, and a source that is off only right
\* after a write, out of the window.
LEMMA EnterStep == ASSUME EintInv, TakeInterrupt PROVE EintInv'
<1>1. /\ ready_for_int /\ irq_source' = irq_source /\ mie' = FALSE
      /\ main_at' = <<call, step>> /\ main_locals' = <<request, mask>> /\ call' = "handler"
      /\ handling' = {custom_int_code} /\ ready_for_int' = FALSE
      /\ trailing' = trailing \cup ((handling' \cap Sources) \ INT_enable_reg)
      /\ UNCHANGED <<asked, lost>>
  BY DEF TakeInterrupt, Begin, Goto, NoWrite, EintEdge, valid_int_req, locals
<1>2. /\ INT_enable_reg' = INT_enable_reg /\ INT_pending_reg' = irq_source \cap INT_enable_reg
      /\ SourcesOK'
  BY <1>1, EdgeSources DEF TakeInterrupt, NoWrite, EintEdge, EintInv, SourcesOK
<1>3. mie /\ handling = {} /\ call # "handler"
  BY <1>1 DEF EintInv, NotNested
<1>4. NotNested'
  BY <1>1, <1>3 DEF NotNested
<1>5. Agree(INT_enable_reg, asked)' /\ PendingBehind' /\ CauseStays'
  BY <1>1, <1>2 DEF Agree, EintInv, PendingBehind, CauseStays
<1>6. AtWindow' => AtWindow /\ MainMask' = MainMask /\ call = "modify_enable"
  BY <1>1, <1>3 DEF AtWindow, InWindow, MainMask, At
<1>7. Reading'
  BY <1>1, <1>6 DEF Reading, At, Agree, EintInv
<1>8. call = "modify_enable" => trailing' = trailing
  <2>1. SUFFICES ASSUME call = "modify_enable" PROVE (handling' \cap Sources) \ INT_enable_reg = {}
    BY <1>1
  <2>2. INT_pending_reg \subseteq INT_enable_reg /\ INT_pending_reg \in SUBSET Sources
    BY <2>1 DEF EintInv, PendingBehind, SourcesOK
  <2> QED  BY <1>1, <2>2, CodeIsPending, NoCauseIsNoSource
<1>9. TrailingOff'
  BY <1>1, <1>2, <1>6, <1>8 DEF TrailingOff, EintInv
<1> QED  BY <1>2, <1>4, <1>5, <1>7, <1>9 DEF EintInv

LEMMA LeaveStep == ASSUME EintInv, ReturnFromTrap PROVE EintInv'
<1>1. /\ call = "handler" /\ call' = main_at[1] /\ step' = main_at[2] /\ mask' = main_locals[2]
      /\ main_at' = <<"none", 0>> /\ mie' = TRUE /\ handling' = {} /\ irq_source' = irq_source
      /\ UNCHANGED <<asked, lost, trailing, raced>> /\ ready_for_int' = valid_int_req
  BY DEF ReturnFromTrap, Goto, NoWrite, EintEdge, eint_history
<1>2. /\ INT_enable_reg' = INT_enable_reg /\ INT_pending_reg' = irq_source \cap INT_enable_reg
      /\ SourcesOK'
  BY <1>1, EdgeSources DEF ReturnFromTrap, NoWrite, EintEdge, EintInv, SourcesOK
<1>3. /\ ~mie /\ handling # {} /\ main_at = <<main_at[1], main_at[2]>> /\ main_at[1] # "handler"
      /\ ready_for_int' = FALSE
  BY <1>1 DEF EintInv, NotNested, valid_int_req
<1>4. NotNested'
  BY <1>1, <1>3 DEF NotNested
<1>5. Agree(INT_enable_reg, asked)' /\ PendingBehind' /\ CauseStays'
  BY <1>1, <1>2, <1>3 DEF Agree, EintInv, PendingBehind, CauseStays
<1>6. AtWindow' => AtWindow /\ MainMask' = MainMask
  BY <1>1, <1>3 DEF AtWindow, InWindow, MainMask, At
<1>7. Reading' /\ TrailingOff'
  BY <1>1, <1>2, <1>6 DEF Reading, TrailingOff, Agree, EintInv
<1> QED  BY <1>2, <1>4, <1>5, <1>7 DEF EintInv

\* The sources rise between the edges, and software may stutter.
LEMMA Still ==
  ASSUME EintInv, irq_source \subseteq irq_source', irq_source' \subseteq Sources,
         UNCHANGED <<call, step, eint_device, eint_trap, mask, eint_history>>
  PROVE  EintInv'
<1>1. UNCHANGED <<INT_enable_reg, INT_pending_reg, ready_for_int, mie, handling, main_at,
                  main_locals, asked, lost, trailing, raced>>
  BY DEF eint_device, eint_trap, eint_history
<1>2. (AtWindow' <=> AtWindow) /\ MainMask' = MainMask
  BY <1>1 DEF AtWindow, InWindow, MainMask, At
<1>3. NotNested' /\ Agree(INT_enable_reg, asked)' /\ PendingBehind'
  BY <1>1 DEF EintInv, NotNested, Agree, PendingBehind
<1>4. Reading' /\ TrailingOff'
  BY <1>1, <1>2 DEF EintInv, Reading, TrailingOff, Agree, At
<1>5. CauseStays' /\ SourcesOK'
  BY <1>1 DEF EintInv, CauseStays, SourcesOK
<1> QED  BY <1>3, <1>4, <1>5 DEF EintInv

LEMMA EintStep == EintInv /\ [EintNext]_xvars => EintInv'
<1> SUFFICES ASSUME EintInv, [EintNext]_xvars PROVE EintInv'
  OBVIOUS
<1>1. CASE modify_enable
  BY <1>1, ReadStep, WriteStep DEF modify_enable
<1>2. CASE ServeSource
  <2>1. ~mie /\ ~ready_for_int
    BY <1>2 DEF ServeSource, EintInv, NotNested
  <2>2. UNCHANGED <<call, step, mask, asked, lost, trailing, raced, eint_trap>>
    BY <1>2 DEF ServeSource, Wait, call_vars, locals, eint_history
  <2> QED  BY <1>2, <2>1, <2>2, PlainStep DEF ServeSource, NoWrite, EintEdge
<1>3. CASE PollSource
  <2>1. UNCHANGED <<call, step, mask, asked, lost, trailing, eint_trap>> /\ ~ready_for_int
    BY <1>3 DEF PollSource, Wait, call_vars, locals
  <2>2. PICK s \in irq_source : irq_source' = irq_source \ {s} /\ raced' = raced \cup (JustRisen \cap {s})
    BY <1>3 DEF PollSource
  <2>3. JustRisen \ irq_source' \subseteq raced' /\ raced \subseteq raced'
    BY <2>2 DEF JustRisen
  <2> QED  BY <1>3, <2>1, <2>2, <2>3, PlainStep DEF PollSource, NoWrite, EintEdge
<1>4. CASE CallEint
  <2>1. /\ UNCHANGED <<irq_source, asked, lost, trailing, raced, eint_trap>> /\ ~ready_for_int
        /\ call \in {"none", "handler"} /\ call' = "modify_enable" /\ step' = 1
    BY <1>4 DEF CallEint, Begin, Goto, eint_history
  <2>2. JustRisen \ irq_source' = {}
    BY <2>1 DEF JustRisen
  <2> QED  BY <1>4, <2>1, <2>2, PlainStep DEF CallEint, NoWrite, EintEdge
<1>5. CASE EintQuiet
  <2>1. UNCHANGED <<irq_source, call, step, mask, asked, lost, trailing, raced, eint_trap>> /\ ~ready_for_int
    BY <1>5 DEF EintQuiet, Wait, call_vars, locals, eint_history
  <2>2. JustRisen \ irq_source' = {}
    BY <2>1 DEF JustRisen
  <2>3. ready_for_int' = valid_int_req \/ ready_for_int' = FALSE
    BY <1>5 DEF EintQuiet
  <2> QED  BY <1>5, <2>1, <2>2, <2>3, PlainStep DEF EintQuiet
<1>6. CASE RaiseSource
  <2>1. irq_source \subseteq irq_source' /\ irq_source' \subseteq Sources
    BY <1>6 DEF RaiseSource, EintInv, SourcesOK
  <2> QED  BY <1>6, <2>1, Still DEF RaiseSource, Wait, call_vars, locals
<1>7. CASE UNCHANGED xvars
  BY <1>7, Still DEF xvars, eint_vars, locals, call_vars, EintInv, SourcesOK
<1> QED
  BY <1>1, <1>2, <1>3, <1>4, <1>5, <1>6, <1>7, EnterStep, LeaveStep DEF EintNext, EintHart

LEMMA EintStart == EintInit => EintInv
<1> SUFFICES ASSUME EintInit PROVE EintInv
  OBVIOUS
<1> USE DEF EintInit, EintRest
<1>1. NotNested
  BY DEF NotNested
<1>2. ~AtWindow /\ ~At("modify_enable", 2)
  BY DEF AtWindow, InWindow, At
<1>3. Reading /\ TrailingOff
  BY <1>2 DEF Reading, TrailingOff
<1>4. Agree(INT_enable_reg, asked) /\ PendingBehind /\ CauseStays /\ SourcesOK
  BY DEF Agree, PendingBehind, CauseStays, SourcesOK
<1> QED  BY <1>1, <1>3, <1>4 DEF EintInv

-----------------------------------------------------------------------------
(***************************************************************************)
(* The theorems.                                                           *)
(***************************************************************************)
LEMMA EintInvariant == EintSpec => []EintInv
  BY EintStart, EintStep, PTL DEF EintSpec

\* The enable register holds what the main program and the handlers have asked
\* for with EintController, whatever interrupts what, but for the sources that a
\* handler has asked for within the main program's reading and writing.
THEOREM MaskKept == EintSpec => []MaskAsAsked
<1>1. EintInv => MaskAsAsked
  BY DEF EintInv, Agree, MaskAsAsked
<1> QED  BY <1>1, EintInvariant, PTL

\* Handlers do not nest; that of a disabled source comes once at the most; and
\* an interrupt finds its cause, unless a source is gone at the edge at which it
\* rose.
THEOREM DisabledIsSilent == EintSpec => SilentWhenDisabled
<1>1. EintInv /\ [EintNext]_xvars =>
        [TakeInterrupt => /\ handling = {} /\ handling' \cap trailing = {}
                          /\ handling' = {NoCause} => raced # {}]_xvars
  <2>1. SUFFICES ASSUME EintInv, TakeInterrupt
                 PROVE  /\ handling = {} /\ handling' \cap trailing = {}
                        /\ handling' = {NoCause} => raced # {}
    OBVIOUS
  <2>2. ready_for_int /\ handling' = {custom_int_code} /\ INT_pending_reg \in SUBSET Sources
    BY <2>1 DEF TakeInterrupt, EintInv, SourcesOK
  <2>3. handling = {}
    BY <2>1, <2>2 DEF EintInv, NotNested
  <2>4. CASE INT_pending_reg # {}
    <3>1. custom_int_code \in INT_pending_reg
      BY <2>2, <2>4, CodeIsPending
    <3> QED  BY <2>1, <2>2, <2>3, <3>1, NoCauseIsNoSource DEF EintInv, TrailingOff
  <2>5. CASE INT_pending_reg = {}
    <3>1. custom_int_code = NoCause /\ raced # {}
      BY <2>1, <2>2, <2>5, CodeIsPending DEF EintInv, CauseStays
    <3>2. trailing \subseteq Sources
      BY <2>1 DEF EintInv, TrailingOff
    <3> QED  BY <2>2, <2>3, <3>1, <3>2, NoCauseIsNoSource
  <2> QED  BY <2>4, <2>5
<1> QED  BY <1>1, EintInvariant, PTL DEF EintSpec, SilentWhenDisabled
=============================================================================
