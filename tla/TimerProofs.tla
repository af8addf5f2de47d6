----------------------------- MODULE TimerProofs -----------------------------
(***************************************************************************)
(* Proofs about the two timers.  SystemTimer, for words of any width, every *)
(* set of times and intervals: a time that is read is a time that was, and *)
(* the interrupt comes at a deadline that software has set.  EfbTimer, for *)
(* bytes of any width: how far a torn reading of the counter can be off.   *)
(***************************************************************************)
EXTENDS SystemTimer, EfbTimer, TLAPS

\* Where a call is.
CallOK == /\ call \in {"none", "mtime", "forward", "set_mtimecmp", "set_mtime"}
          /\ call # "none" => step \in 1 .. 3

\* While mtime is being read: it has not gone back since the call began, the
\* high word was not too large when it was read and, unless it has changed
\* since, the two words together are a time in between.
ReadInv ==
  call \in Reading =>
    /\ Le(since, mtime)
    /\ step \in {2, 3} => since[1] <= high /\ high <= mtime[1]
    /\ step = 3 /\ mtime[1] = high => Le(since, <<high, low>>) /\ Le(<<high, low>>, mtime)

\* While mtimecmp is being written: the old deadline, then a time behind the
\* old one, then a time behind the new one.
WriteInv ==
  call = "set_mtimecmp" =>
    /\ step = 1 => mtimecmp = since
    /\ step = 2 => mtimecmp = <<since[1], MAX>>
    /\ step = 3 => mtimecmp = <<arg[1], MAX>>

TimerInv == TimerTypeOK /\ CallOK /\ ReadInv /\ WriteInv

-----------------------------------------------------------------------------
\* Zero and the largest word are words.
LEMMA Words == 0 \in Word /\ MAX \in Word /\ MAX \in Nat /\ B = MAX + 1 /\ MAX >= 1
  BY TimerAssumption DEF Word, MAX

\* A pair of words is a time, and its words are natural numbers up to MAX.
LEMMA Pair == ASSUME NEW h \in Word, NEW l \in Word
              PROVE  <<h, l>> \in Time /\ <<h, l>>[1] = h /\ <<h, l>>[2] = l
  BY DEF Time

LEMMA Parts == ASSUME NEW t \in Time
               PROVE  /\ t[1] \in Word /\ t[2] \in Word /\ t = <<t[1], t[2]>>
                      /\ t[1] \in Nat /\ t[2] \in Nat /\ t[1] <= MAX /\ t[2] <= MAX
  BY TimerAssumption DEF Time, Word, MAX

LEMMA NextWordType == ASSUME NEW w \in Word PROVE NextWord(w) \in Word
  BY Words DEF NextWord, Word, MAX

\* The counter stays a time and, unless it wraps, does not go back.
LEMMA SuccType == ASSUME NEW t \in Time PROVE Succ(t) \in Time
<1>1. t[1] \in Word /\ t[2] \in Word
  BY Parts
<1>2. CASE t[2] < MAX
  <2>1. t[2] + 1 \in Word
    BY <1>1, <1>2, Words DEF Word
  <2> QED  BY <1>1, <1>2, <2>1, Pair DEF Succ
<1>3. CASE ~(t[2] < MAX)
  BY <1>1, <1>3, NextWordType, Words, Pair DEF Succ
<1> QED  BY <1>2, <1>3

LEMMA SuccLater == ASSUME NEW t \in Time, t # <<MAX, MAX>>
                   PROVE  Le(t, Succ(t)) /\ t[1] <= Succ(t)[1]
<1>1. /\ t[1] \in Word /\ t[2] \in Word /\ t = <<t[1], t[2]>>
      /\ t[1] \in Nat /\ t[2] \in Nat /\ t[1] <= MAX /\ t[2] <= MAX
  BY Parts
<1>2. CASE t[2] < MAX
  <2>1. Succ(t) = <<t[1], t[2] + 1>>
    BY <1>2 DEF Succ
  <2> QED  BY <1>1, <2>1 DEF Le
<1>3. CASE t[2] = MAX
  <2>1. t[1] # MAX
    BY <1>1, <1>3
  <2>2. t[1] < MAX
    BY <2>1, <1>1, Words
  <2>3. Succ(t) = <<t[1] + 1, 0>>
    BY <1>3, <2>2, Words DEF Succ, NextWord
  <2> QED  BY <1>1, <2>3 DEF Le
<1> QED  BY <1>1, <1>2, <1>3, Words

\* A deadline a number of ticks ahead is a time.
LEMMA ForwardType == ASSUME NEW t \in Time, NEW ticks \in Word
                     PROVE  Forward(t, ticks) \in Time
<1>1. /\ t[1] \in Word /\ t[2] \in Word
      /\ t[2] \in Nat /\ t[2] <= MAX /\ ticks \in Nat /\ ticks <= MAX
  BY Parts, TimerAssumption DEF Word, MAX
<1>2. CASE t[2] + ticks < B
  <2>1. t[2] + ticks \in Word
    BY <1>1, <1>2, Words DEF Word
  <2> QED  BY <1>1, <1>2, <2>1, Pair DEF Forward
<1>3. CASE ~(t[2] + ticks < B)
  <2>1. t[2] + ticks - B \in Word
    BY <1>1, <1>3, Words DEF Word
  <2> QED  BY <1>1, <1>3, <2>1, NextWordType, Pair DEF Forward
<1> QED  BY <1>2, <1>3

\* The order of times.
LEMMA LeTransitive == ASSUME NEW r \in Time, NEW s \in Time, NEW t \in Time,
                             Le(r, s), Le(s, t)
                      PROVE  Le(r, t)
  BY Parts DEF Le

LEMMA LeReflexive == ASSUME NEW t \in Time PROVE Le(t, t)
  BY Parts DEF Le

\* A deadline with the largest low word is not before one with the same high
\* word.
LEMMA LeMax == ASSUME NEW s \in Time, NEW t \in Time, Le(<<s[1], MAX>>, t)
               PROVE  Le(s, t)
<1>1. <<s[1], MAX>>[1] = s[1] /\ <<s[1], MAX>>[2] = MAX
  OBVIOUS
<1> QED  BY <1>1, Parts, Words DEF Le

-----------------------------------------------------------------------------
\* An edge keeps the types; without a write the counter does not go back, if
\* it may tick only before its end, and the deadline stays.
LEMMA EdgeTypes ==
  ASSUME TimerTypeOK, NEW wen, NEW wdata \in Word, NEW tick \in BOOLEAN,
         Edge(wen, wdata, tick)
  PROVE  /\ mtime' \in Time /\ mtimecmp' \in Time
         /\ update_irq' \in BOOLEAN /\ mtimer_int' \in BOOLEAN
<1>1. mtime' \in Time
  <2>1. Succ(mtime) \in Time /\ mtime[1] \in Word /\ mtime[2] \in Word
    BY SuccType, Parts DEF TimerTypeOK
  <2>2. <<wdata, mtime[2]>> \in Time /\ <<mtime[1], wdata>> \in Time
    BY <2>1, Pair
  <2> QED  BY <2>1, <2>2 DEF Edge, Counter, TimerTypeOK
<1>2. mtimecmp' \in Time
  <2>1. mtimecmp[1] \in Word /\ mtimecmp[2] \in Word
    BY Parts DEF TimerTypeOK
  <2>2. <<wdata, mtimecmp[2]>> \in Time /\ <<mtimecmp[1], wdata>> \in Time
    BY <2>1, Pair
  <2> QED  BY <2>2 DEF Edge, Compare, TimerTypeOK
<1>3. update_irq' \in BOOLEAN
  BY DEF Edge
<1>4. mtimer_int' \in BOOLEAN
  <2>1. Le(mtimecmp, mtime) \in BOOLEAN
    BY DEF Le
  <2> QED  BY <2>1 DEF Edge, Compare, TimerTypeOK
<1> QED  BY <1>1, <1>2, <1>3, <1>4

LEMMA QuietEdge ==
  ASSUME TimerTypeOK, ReadReg
  PROVE  /\ mtimecmp' = mtimecmp
         /\ call # "set_mtime" => Le(mtime, mtime') /\ mtime[1] <= mtime'[1]
         /\ mtime' \in Time
         /\ ~mtimer_int /\ mtimer_int' => Due(mtimecmp)
<1>1. PICK tick \in BOOLEAN : Edge("no", 0, tick)
  BY DEF ReadReg
<1>2. mtimecmp' = mtimecmp
  BY <1>1 DEF Edge, Compare
<1>3. mtime' \in Time
  BY <1>1, EdgeTypes, Words
<1>4. ASSUME call # "set_mtime" PROVE Le(mtime, mtime') /\ mtime[1] <= mtime'[1]
  <2>1. CASE tick
    <3>1. mtime # <<MAX, MAX>>
      BY <1>1, <1>4, <2>1 DEF Edge, CanTick
    <3>2. mtime' = Succ(mtime)
      BY <1>1, <2>1 DEF Edge, Counter
    <3> QED  BY <3>1, <3>2, SuccLater DEF TimerTypeOK
  <2>2. CASE ~tick
    <3>1. mtime' = mtime
      BY <1>1, <2>2 DEF Edge, Counter
    <3> QED  BY <3>1, LeReflexive, Parts DEF TimerTypeOK
  <2> QED  BY <2>1, <2>2
<1>5. ~mtimer_int /\ mtimer_int' => Due(mtimecmp)
  BY <1>1 DEF Edge, Compare, Due
<1> QED  BY <1>2, <1>3, <1>4, <1>5

\* The deadline after a write, and the interrupt, which a write withdraws.
LEMMA WriteEdge ==
  ASSUME NEW wen, NEW wdata \in Word, WriteReg(wen, wdata)
  PROVE  /\ wen = "mtimecmph" => mtimecmp' = <<wdata, mtimecmp[2]>> /\ mtimer_int' = FALSE
         /\ wen = "mtimecmpl" => mtimecmp' = <<mtimecmp[1], wdata>> /\ mtimer_int' = FALSE
  BY DEF WriteReg, Edge, Compare

-----------------------------------------------------------------------------
\* Every action keeps the types; first the registers, then the locals.
LEMMA RegisterTypes ==
  ASSUME TimerTypeOK, TimerNext
  PROVE  /\ mtime' \in Time /\ mtimecmp' \in Time
         /\ update_irq' \in BOOLEAN /\ mtimer_int' \in BOOLEAN
<1>1. ASSUME ReadReg PROVE /\ mtime' \in Time /\ mtimecmp' \in Time
                           /\ update_irq' \in BOOLEAN /\ mtimer_int' \in BOOLEAN
  BY <1>1, EdgeTypes, Words DEF ReadReg
<1>2. ASSUME NEW reg, NEW w \in Word, WriteReg(reg, w)
      PROVE  /\ mtime' \in Time /\ mtimecmp' \in Time
             /\ update_irq' \in BOOLEAN /\ mtimer_int' \in BOOLEAN
  BY <1>2, EdgeTypes DEF WriteReg
<1>3. arg[1] \in Word /\ arg[2] \in Word
  BY Parts DEF TimerTypeOK
<1>4. CASE TimerDriver
  <2>1. CASE ReadMtime
    BY <2>1, <1>1 DEF ReadMtime, ReadHigh, ReadLow, ReadHighAgain
  <2>2. CASE set_mtimecmp
    BY <2>2, <1>2, <1>3, Words DEF set_mtimecmp
  <2>3. CASE set_mtime
    BY <2>3, <1>2, <1>3, Words DEF set_mtime
  <2> QED  BY <1>4, <2>1, <2>2, <2>3 DEF TimerDriver
<1>5. CASE TimerQuiet
  BY <1>5, <1>1 DEF TimerQuiet, Idle
<1>6. CASE UNCHANGED mtimer_vars
  BY <1>6 DEF mtimer_vars, TimerTypeOK
<1> QED  BY <1>4, <1>5, <1>6 DEF TimerNext, TimerProgram

LEMMA LocalTypes ==
  ASSUME TimerTypeOK, TimerNext
  PROVE  arg' \in Time /\ high' \in Word /\ low' \in Word /\ since' \in Time
<1>1. ASSUME UNCHANGED mlocal_vars
      PROVE  arg' \in Time /\ high' \in Word /\ low' \in Word /\ since' \in Time
  BY <1>1 DEF mlocal_vars, TimerTypeOK
<1>2. ASSUME Forget
      PROVE  arg' \in Time /\ high' \in Word /\ low' \in Word /\ since' \in Time
  BY <1>2, Words, Pair DEF Forget
<1>3. mtime[1] \in Word /\ mtime[2] \in Word /\ arg[2] \in Word
  BY Parts DEF TimerTypeOK
<1>4. ASSUME NEW c, NEW v \in Time, NEW h \in Time, BeginWith(c, v, h)
      PROVE  arg' \in Time /\ high' \in Word /\ low' \in Word /\ since' \in Time
  BY <1>4 DEF BeginWith, TimerTypeOK
<1>5. \A ticks \in Intervals : <<0, ticks>> \in Time
  BY Pair, Words, TimerAssumption
<1>6. CASE ReadHigh
  BY <1>6, <1>3 DEF ReadHigh, TimerTypeOK
<1>7. CASE ReadLow
  BY <1>7, <1>3 DEF ReadLow, TimerTypeOK
<1>8. CASE ReadHighAgain
  <2>1. Forward(<<high, low>>, arg[2]) \in Time
    BY <1>3, Pair, ForwardType DEF TimerTypeOK
  <2> QED  BY <1>8, <2>1, <1>1, <1>2, Words DEF ReadHighAgain, EndCall, TimerTypeOK
<1>9. CASE set_mtimecmp \/ set_mtime
  BY <1>9, <1>1, <1>2 DEF set_mtimecmp, set_mtime, InCall, EndCall
<1>10. CASE TimerQuiet
  BY <1>10, <1>1 DEF TimerQuiet, Idle
<1>11. CASE TimerProgram
  <2>1. mtime \in Time
    BY DEF TimerTypeOK
  <2> QED  BY <1>11, <2>1, <1>1, <1>4, <1>5 DEF TimerProgram, TakeFlag, EnableTimer, mtimer_IRQ_Handler
<1>12. CASE CallTimer
  <2>1. mtime \in Time /\ mtimecmp \in Time /\ <<0, 0>> \in Time /\ Times \subseteq Time
    BY Pair, Words, TimerAssumption DEF TimerTypeOK
  <2> QED  BY <1>12, <2>1, <1>4, <1>5 DEF CallTimer
<1> QED  BY <1>6, <1>7, <1>8, <1>9, <1>10, <1>11, <1>12 DEF TimerNext, TimerDriver, ReadMtime

LEMMA CallTypes ==
  ASSUME TimerTypeOK, CallOK, TimerNext
  PROVE  /\ CallOK' /\ step' \in 0 .. 3
         /\ MTIMER_IRQ_FLAG' \in BOOLEAN /\ mtie' \in BOOLEAN
<1>1. CASE TimerDriver
  <2>1. MTIMER_IRQ_FLAG' \in BOOLEAN /\ mtie' \in BOOLEAN
    BY <1>1 DEF TimerDriver, alarm_vars, TimerTypeOK
  <2>2. CASE ReadMtime
    BY <2>1, <2>2 DEF ReadMtime, ReadHigh, ReadLow, ReadHighAgain, Reading, EndCall,
       Continue, Goto, Begin, Return, CallOK, TimerTypeOK
  <2>3. CASE set_mtimecmp \/ set_mtime
    BY <2>1, <2>3 DEF set_mtimecmp, set_mtime, InCall, EndCall, At,
       Continue, Goto, Return, CallOK, TimerTypeOK
  <2> QED  BY <1>1, <2>2, <2>3 DEF TimerDriver
<1>2. CASE TimerQuiet
  BY <1>2 DEF TimerQuiet, Idle, Wait, call_vars, alarm_vars, CallOK, TimerTypeOK
<1>3. CASE TimerProgram
  <2>1. CASE TakeFlag
    <3>1. MTIMER_IRQ_FLAG' \in BOOLEAN
      BY <2>1 DEF TakeFlag
    <3>2. mtie' \in BOOLEAN
      BY <2>1 DEF TakeFlag, TimerTypeOK
    <3>3. call' = "forward" /\ step' = 1
      BY <2>1 DEF TakeFlag, BeginWith, Begin, Goto
    <3> QED  BY <3>1, <3>2, <3>3 DEF CallOK
  <2>2. CASE EnableTimer
    BY <2>2 DEF EnableTimer, Wait, call_vars, CallOK, TimerTypeOK
  <2>3. CASE mtimer_IRQ_Handler
    BY <2>3 DEF mtimer_IRQ_Handler, Wait, call_vars, CallOK, TimerTypeOK
  <2> QED  BY <1>3, <2>1, <2>2, <2>3 DEF TimerProgram
<1>4. CASE CallTimer
  BY <1>4 DEF CallTimer, BeginWith, Begin, Goto, alarm_vars, CallOK, TimerTypeOK
<1> QED  BY <1>1, <1>2, <1>3, <1>4 DEF TimerNext

-----------------------------------------------------------------------------
\* What has been read stays as good while the counter goes on.
LEMMA ReadKept ==
  ASSUME TimerTypeOK, ReadInv, ReadReg, call # "set_mtime",
         call' = call, step' = step, high' = high, low' = low, since' = since
  PROVE  ReadInv'
<1>1. SUFFICES ASSUME call \in Reading PROVE ReadInv'
  BY DEF ReadInv, Reading
<1>2. mtime' \in Time /\ Le(mtime, mtime') /\ mtime[1] <= mtime'[1]
  BY QuietEdge
<1>3. since \in Time /\ mtime \in Time /\ <<high, low>> \in Time /\ high \in Nat
  BY Pair, TimerAssumption DEF TimerTypeOK, Word
<1>4. mtime[1] \in Nat /\ mtime'[1] \in Nat
  BY <1>2, <1>3, Parts
<1>5. Le(since, mtime')
  BY <1>1, <1>2, <1>3, LeTransitive DEF ReadInv
<1>6. ASSUME step \in {2, 3} PROVE since[1] <= high /\ high <= mtime'[1]
  BY <1>1, <1>2, <1>3, <1>4, <1>6, Parts DEF ReadInv
<1>7. ASSUME step = 3, mtime'[1] = high
      PROVE  Le(since, <<high, low>>) /\ Le(<<high, low>>, mtime')
  <2>1. mtime[1] = high
    BY <1>1, <1>2, <1>3, <1>4, <1>7 DEF ReadInv
  <2> QED  BY <1>1, <1>2, <1>3, <1>7, <2>1, LeTransitive DEF ReadInv
<1> QED  BY <1>5, <1>6, <1>7 DEF ReadInv

\* The invariant of reading is kept by every action.
LEMMA ReadStep ==
  ASSUME TimerTypeOK, CallOK, ReadInv, TimerNext
  PROVE  ReadInv'
<1>1. since \in Time /\ mtime \in Time
  BY DEF TimerTypeOK
<1>2. mtime' \in Time
  BY RegisterTypes
<1>3. ASSUME call' \in Reading, step' = 1, Le(since', mtime') PROVE ReadInv'
  BY <1>3 DEF ReadInv
<1>4. ASSUME call' \notin Reading PROVE ReadInv'
  BY <1>4 DEF ReadInv
<1>5. CASE ReadHigh
  <2>1. /\ call \in Reading /\ call' = call /\ step' = 2
        /\ high' = mtime[1] /\ since' = since /\ ReadReg
    BY <1>5 DEF ReadHigh, Continue, Goto
  <2>2. Le(mtime, mtime') /\ mtime[1] <= mtime'[1]
    BY <2>1, QuietEdge DEF Reading
  <2>3. Le(since, mtime')
    BY <1>1, <1>2, <2>1, <2>2, LeTransitive DEF ReadInv
  <2>4. since[1] <= mtime[1]
    BY <1>1, <2>1, Parts DEF ReadInv, Le
  <2> QED  BY <2>1, <2>2, <2>3, <2>4 DEF ReadInv
<1>6. CASE ReadLow
  <2>1. /\ call \in Reading /\ step = 2 /\ call' = call /\ step' = 3
        /\ low' = mtime[2] /\ high' = high /\ since' = since /\ ReadReg
    BY <1>6 DEF ReadLow, Continue, Goto
  <2>2. Le(mtime, mtime') /\ mtime[1] <= mtime'[1]
    BY <2>1, QuietEdge DEF Reading
  <2>3. Le(since, mtime')
    BY <1>1, <1>2, <2>1, <2>2, LeTransitive DEF ReadInv
  <2>4. /\ mtime[1] \in Nat /\ mtime'[1] \in Nat /\ since[1] \in Nat
        /\ mtime = <<mtime[1], mtime[2]>> /\ high \in Nat
    BY <1>1, <1>2, Parts, TimerAssumption DEF TimerTypeOK, Word
  <2>5. since[1] <= high /\ high <= mtime[1]
    BY <2>1 DEF ReadInv
  <2>6. high <= mtime'[1]
    BY <2>2, <2>4, <2>5
  <2>7. ASSUME mtime'[1] = high
        PROVE  Le(since, <<high, mtime[2]>>) /\ Le(<<high, mtime[2]>>, mtime')
    <3>1. <<high, mtime[2]>> = mtime
      BY <2>2, <2>4, <2>5, <2>7
    <3> QED  BY <2>1, <2>2, <3>1 DEF ReadInv
  <2> QED  BY <2>1, <2>3, <2>5, <2>6, <2>7 DEF ReadInv
<1>7. CASE ReadHighAgain
  <2>1. CASE mtime[1] # high /\ Goto(call, 1) /\ UNCHANGED mlocal_vars
    <3>1. /\ call \in Reading /\ call' = call /\ step' = 1 /\ since' = since /\ ReadReg
      BY <1>7, <2>1 DEF ReadHighAgain, Goto, mlocal_vars
    <3>2. Le(mtime, mtime')
      BY <3>1, QuietEdge DEF Reading
    <3>3. Le(since, mtime')
      BY <1>1, <1>2, <3>1, <3>2, LeTransitive DEF ReadInv
    <3> QED  BY <3>1, <3>3, <1>3
  <2>2. CASE EndCall
    BY <2>2, <1>4 DEF EndCall, Return, Goto, Reading
  <2>3. CASE Begin("set_mtimecmp")
    BY <2>3, <1>4 DEF Begin, Goto, Reading
  <2> QED  BY <1>7, <2>1, <2>2, <2>3 DEF ReadHighAgain
<1>8. CASE set_mtimecmp \/ set_mtime
  BY <1>8, <1>4 DEF set_mtimecmp, set_mtime, At, InCall, EndCall, Continue, Return, Goto, Reading
<1>9. CASE TimerQuiet
  <2>1. /\ ReadReg /\ call' = call /\ step' = step
        /\ high' = high /\ low' = low /\ since' = since
    BY <1>9 DEF TimerQuiet, Idle, Wait, call_vars, mlocal_vars
  <2>2. CASE call = "set_mtime"
    BY <2>1, <2>2, <1>4 DEF Reading
  <2> QED  BY <2>1, <2>2, ReadKept
<1>10. ASSUME NEW c, NEW v, NEW h, BeginWith(c, v, h), mtime' = mtime,
             c \in Reading => h = mtime
       PROVE ReadInv'
  <2>1. call' = c /\ step' = 1 /\ since' = h
    BY <1>10 DEF BeginWith, Begin, Goto
  <2> QED  BY <1>1, <1>3, <1>4, <1>10, <2>1, LeReflexive
<1>11. CASE TimerProgram /\ UNCHANGED mtimer_vars
  <2>1. mtime' = mtime
    BY <1>11 DEF mtimer_vars
  <2>2. CASE TakeFlag
    BY <2>1, <2>2, <1>10 DEF TakeFlag
  <2>3. CASE EnableTimer \/ mtimer_IRQ_Handler
    BY <2>1, <2>3 DEF EnableTimer, mtimer_IRQ_Handler, Wait, call_vars, mlocal_vars, ReadInv
  <2> QED  BY <1>11, <2>2, <2>3 DEF TimerProgram
<1>12. CASE CallTimer /\ UNCHANGED mtimer_vars
  <2>1. mtime' = mtime
    BY <1>12 DEF mtimer_vars
  <2> QED  BY <1>12, <2>1, <1>10 DEF CallTimer, Reading
<1> QED  BY <1>5, <1>6, <1>7, <1>8, <1>9, <1>11, <1>12 DEF TimerNext, TimerDriver, TimerProgram, ReadMtime

-----------------------------------------------------------------------------
\* The invariant of writing is kept by every action.
LEMMA WriteStep ==
  ASSUME TimerTypeOK, CallOK, WriteInv, TimerNext
  PROVE  WriteInv'
<1>1. arg[1] \in Word /\ arg[2] \in Word
  BY Parts DEF TimerTypeOK
<1>2. ASSUME call' # "set_mtimecmp" PROVE WriteInv'
  BY <1>2 DEF WriteInv
<1>3. ASSUME call' = "set_mtimecmp", step' = 1, mtimecmp' = since' PROVE WriteInv'
  BY <1>3 DEF WriteInv
<1>4. CASE ReadHigh \/ ReadLow
  BY <1>4, <1>2 DEF ReadHigh, ReadLow, Reading, Continue, Goto
<1>5. CASE ReadHighAgain
  <2>1. mtimecmp' = mtimecmp
    BY <1>5, QuietEdge DEF ReadHighAgain
  <2>2. CASE mtime[1] = high /\ call = "forward"
    BY <1>5, <2>1, <2>2, <1>2, <1>3 DEF ReadHighAgain, Begin, Goto, EndCall, Return
  <2>3. CASE ~(mtime[1] = high /\ call = "forward")
    BY <1>5, <2>3, <1>2 DEF ReadHighAgain, Reading, Goto, EndCall, Return
  <2> QED  BY <2>2, <2>3
<1>6. CASE set_mtimecmp
  <2>1. CASE At("set_mtimecmp", 1) /\ WriteReg("mtimecmpl", MAX) /\ InCall
    <3>1. /\ call' = "set_mtimecmp" /\ step' = 2 /\ since' = since /\ arg' = arg
          /\ mtimecmp = since
      BY <2>1 DEF At, InCall, Continue, Goto, mlocal_vars, WriteInv
    <3>2. mtimecmp' = <<mtimecmp[1], MAX>>
      BY <2>1, Words, WriteEdge
    <3> QED  BY <3>1, <3>2 DEF WriteInv
  <2>2. CASE At("set_mtimecmp", 2) /\ WriteReg("mtimecmph", arg[1]) /\ InCall
    <3>1. /\ call' = "set_mtimecmp" /\ step' = 3 /\ since' = since /\ arg' = arg
          /\ mtimecmp = <<since[1], MAX>>
      BY <2>2 DEF At, InCall, Continue, Goto, mlocal_vars, WriteInv
    <3>2. mtimecmp' = <<arg[1], mtimecmp[2]>>
      BY <2>2, <1>1, WriteEdge
    <3> QED  BY <3>1, <3>2 DEF WriteInv
  <2>3. CASE At("set_mtimecmp", 3) /\ WriteReg("mtimecmpl", arg[2]) /\ EndCall
    BY <2>3, <1>2 DEF EndCall, Return, Goto
  <2> QED  BY <1>6, <2>1, <2>2, <2>3 DEF set_mtimecmp
<1>7. CASE set_mtime
  BY <1>7, <1>2 DEF set_mtime, At, InCall, EndCall, Continue, Return, Goto
<1>8. CASE TimerQuiet
  <2>1. mtimecmp' = mtimecmp
    BY <1>8, QuietEdge DEF TimerQuiet, Idle
  <2> QED  BY <1>8, <2>1 DEF TimerQuiet, Idle, Wait, call_vars, mlocal_vars, WriteInv
<1>9. ASSUME NEW c, NEW v, NEW h, BeginWith(c, v, h), mtimecmp' = mtimecmp,
             c = "set_mtimecmp" => h = mtimecmp
      PROVE WriteInv'
  <2>1. call' = c /\ step' = 1 /\ since' = h
    BY <1>9 DEF BeginWith, Begin, Goto
  <2> QED  BY <1>2, <1>3, <1>9, <2>1
<1>10. CASE TimerProgram /\ UNCHANGED mtimer_vars
  <2>1. mtimecmp' = mtimecmp
    BY <1>10 DEF mtimer_vars
  <2>2. CASE TakeFlag
    BY <2>1, <2>2, <1>9 DEF TakeFlag
  <2>3. CASE EnableTimer \/ mtimer_IRQ_Handler
    BY <2>1, <2>3 DEF EnableTimer, mtimer_IRQ_Handler, Wait, call_vars, mlocal_vars, WriteInv
  <2> QED  BY <1>10, <2>2, <2>3 DEF TimerProgram
<1>11. CASE CallTimer /\ UNCHANGED mtimer_vars
  <2>1. mtimecmp' = mtimecmp
    BY <1>11 DEF mtimer_vars
  <2> QED  BY <1>11, <2>1, <1>9 DEF CallTimer
<1> QED  BY <1>4, <1>5, <1>6, <1>7, <1>8, <1>10, <1>11 DEF TimerNext, TimerDriver, TimerProgram, ReadMtime

-----------------------------------------------------------------------------
\* The program starts in the invariant, and every step keeps it.
LEMMA InvInit == TimerInit => TimerInv
<1>1. SUFFICES ASSUME TimerInit PROVE TimerInv
  OBVIOUS
<1>2. mtime = <<0, 0>> /\ since = <<0, 0>> /\ <<0, 0>> \in Time /\ 0 \in Word
  BY <1>1, Words, Pair DEF TimerInit, TimerRest
<1>3. {0} \X Intervals \subseteq Time
  BY Words, TimerAssumption DEF Time
<1>4. /\ call \in {"none", "forward"} /\ step \in 0 .. 1 /\ (call = "forward" => step = 1)
      /\ arg \in Time
  BY <1>1, <1>2, <1>3 DEF TimerInit
<1>5. TimerTypeOK
  <2>1. /\ update_irq \in BOOLEAN /\ mtimer_int \in BOOLEAN
        /\ MTIMER_IRQ_FLAG \in BOOLEAN /\ mtie \in BOOLEAN
    BY <1>1 DEF TimerInit, TimerRest
  <2>2. mtimecmp \in Time /\ high \in Word /\ low \in Word
    BY <1>1, <1>2 DEF TimerInit, TimerRest
  <2>3. step \in 0 .. 3
    BY <1>4
  <2> QED  BY <1>2, <1>4, <2>1, <2>2, <2>3 DEF TimerTypeOK
<1>6. CallOK
  BY <1>4 DEF CallOK
<1>7. ReadInv
  BY <1>2, <1>4, LeReflexive DEF ReadInv, Reading
<1>8. WriteInv
  BY <1>4 DEF WriteInv
<1> QED  BY <1>5, <1>6, <1>7, <1>8 DEF TimerInv

LEMMA InvStep == TimerInv /\ [TimerNext]_tvars => TimerInv'
<1>1. SUFFICES ASSUME TimerInv, [TimerNext]_tvars PROVE TimerInv'
  OBVIOUS
<1>2. CASE TimerNext
  <2>1. TimerTypeOK /\ CallOK /\ ReadInv /\ WriteInv
    BY <1>1 DEF TimerInv
  <2>2. TimerTypeOK'
    <3>1. /\ step' \in 0 .. 3 /\ MTIMER_IRQ_FLAG' \in BOOLEAN /\ mtie' \in BOOLEAN
      BY <1>2, <2>1, CallTypes
    <3> QED  BY <1>2, <2>1, <3>1, RegisterTypes, LocalTypes DEF TimerTypeOK
  <2>3. CallOK'
    BY <1>2, <2>1, CallTypes
  <2>4. ReadInv'
    BY <1>2, <2>1, ReadStep
  <2>5. WriteInv'
    BY <1>2, <2>1, WriteStep
  <2> QED  BY <2>2, <2>3, <2>4, <2>5 DEF TimerInv
<1>3. CASE UNCHANGED tvars
  <2>1. /\ UNCHANGED <<call, step, mtime, mtimecmp, update_irq, mtimer_int>>
        /\ UNCHANGED <<arg, high, low, since, MTIMER_IRQ_FLAG, mtie>>
    BY <1>3 DEF tvars, timer_vars, mtimer_vars, mlocal_vars, alarm_vars, call_vars
  <2>2. TimerTypeOK'
    BY <1>1, <2>1 DEF TimerInv, TimerTypeOK
  <2>3. CallOK'
    BY <1>1, <2>1 DEF TimerInv, CallOK
  <2>4. ReadInv'
    BY <1>1, <2>1 DEF TimerInv, ReadInv
  <2>5. WriteInv'
    BY <1>1, <2>1 DEF TimerInv, WriteInv
  <2> QED  BY <2>2, <2>3, <2>4, <2>5 DEF TimerInv
<1> QED  BY <1>1, <1>2, <1>3

-----------------------------------------------------------------------------
(***************************************************************************)
(* The theorems.                                                           *)
(***************************************************************************)
LEMMA TimerInvariant == TimerSpec => []TimerInv
  BY InvInit, InvStep, PTL DEF TimerSpec

\* The registers of the timer and the locals of the driver keep to their values.
THEOREM TimerTypes == TimerSpec => []TimerTypeOK
<1>1. TimerInv => TimerTypeOK
  BY DEF TimerInv
<1> QED  BY <1>1, TimerInvariant, PTL

\* A time that Mtime::mtime and update_mtimecmp_forward read was the time at
\* some moment of the call.
THEOREM TimeReadIsTrue == TimerSpec => ReadsTrue
<1>1. TimerInv /\ [TimerNext]_tvars =>
        [step = 3 /\ call \in Reading /\ call' # call =>
           Le(since, <<high, low>>) /\ Le(<<high, low>>, mtime)]_tvars
  <2>1. SUFFICES ASSUME TimerInv, TimerNext, step = 3, call \in Reading, call' # call
                 PROVE  Le(since, <<high, low>>) /\ Le(<<high, low>>, mtime)
    BY DEF Reading
  <2>2. mtime[1] = high
    <3>1. CASE ReadHighAgain
      BY <2>1, <3>1 DEF ReadHighAgain, Goto
    <3>2. CASE TimerProgram \/ CallTimer
      BY <2>1, <3>2 DEF TimerProgram, TakeFlag, EnableTimer, mtimer_IRQ_Handler, CallTimer,
         Resting, Reading, Wait, call_vars
    <3>3. CASE TimerQuiet
      BY <2>1, <3>3 DEF TimerQuiet, Idle, Wait, call_vars
    <3>4. CASE set_mtimecmp \/ set_mtime
      BY <2>1, <3>4 DEF set_mtimecmp, set_mtime, At, Reading
    <3>5. ~ReadHigh /\ ~ReadLow
      BY <2>1 DEF ReadHigh, ReadLow
    <3> QED  BY <2>1, <3>1, <3>2, <3>3, <3>4, <3>5 DEF TimerNext, TimerDriver, ReadMtime
  <2> QED  BY <2>1, <2>2 DEF TimerInv, ReadInv
<1> QED  BY <1>1, TimerInvariant, PTL DEF TimerSpec, ReadsTrue

\* The timer interrupt comes at a deadline that software has set, whatever is
\* being written.
THEOREM InterruptNotEarly == TimerSpec => NeverEarly
<1>1. TimerInv /\ [TimerNext]_tvars =>
        [~mtimer_int /\ mtimer_int' =>
           \/ call = "set_mtime"
           \/ call = "set_mtimecmp" /\ (Due(since) \/ Due(arg))
           \/ call # "set_mtimecmp" /\ Due(mtimecmp)]_tvars
  <2>1. SUFFICES ASSUME TimerInv, TimerNext, ~mtimer_int, mtimer_int', call # "set_mtime"
                 PROVE  \/ call = "set_mtimecmp" /\ (Due(since) \/ Due(arg))
                        \/ call # "set_mtimecmp" /\ Due(mtimecmp)
    BY DEF tvars, timer_vars, mtimer_vars
  <2>2. TimerTypeOK
    BY <2>1 DEF TimerInv
  <2>3. ASSUME ReadReg PROVE Due(mtimecmp)
    BY <2>1, <2>2, <2>3, QuietEdge
  <2>4. ReadReg
    <3>1. CASE ReadMtime \/ TimerQuiet
      BY <3>1 DEF ReadMtime, ReadHigh, ReadLow, ReadHighAgain, TimerQuiet, Idle
    <3>2. ~set_mtimecmp
      <4>1. arg[1] \in Word /\ arg[2] \in Word
        BY <2>2, Parts DEF TimerTypeOK
      <4> QED  BY <2>1, <4>1, WriteEdge, Words DEF set_mtimecmp
    <3>3. ~set_mtime
      BY <2>1 DEF set_mtime, At
    <3>4. ~UNCHANGED mtimer_vars
      BY <2>1 DEF mtimer_vars
    <3> QED  BY <2>1, <3>1, <3>2, <3>3, <3>4 DEF TimerNext, TimerDriver, TimerProgram
  <2>5. CASE call # "set_mtimecmp"
    BY <2>3, <2>4, <2>5
  <2>6. CASE call = "set_mtimecmp"
    <3>1. since \in Time /\ arg \in Time /\ mtime \in Time /\ step \in 1 .. 3
      BY <2>1, <2>2, <2>6 DEF TimerTypeOK, TimerInv, CallOK
    <3>2. Le(mtimecmp, mtime)
      BY <2>3, <2>4 DEF Due
    <3>3. CASE step = 1
      BY <2>1, <2>6, <3>2, <3>3 DEF TimerInv, WriteInv, Due
    <3>4. CASE step = 2
      <4>1. Le(<<since[1], MAX>>, mtime)
        BY <2>1, <2>6, <3>2, <3>4 DEF TimerInv, WriteInv
      <4> QED  BY <2>6, <3>1, <4>1, LeMax DEF Due
    <3>5. CASE step = 3
      <4>1. Le(<<arg[1], MAX>>, mtime)
        BY <2>1, <2>6, <3>2, <3>5 DEF TimerInv, WriteInv
      <4> QED  BY <2>6, <3>1, <4>1, LeMax DEF Due
    <3> QED  BY <3>1, <3>3, <3>4, <3>5
  <2> QED  BY <2>5, <2>6
<1> QED  BY <1>1, TimerInvariant, PTL DEF TimerSpec, NeverEarly

-----------------------------------------------------------------------------
(***************************************************************************)
(* EfbTimer.                                                               *)
(***************************************************************************)
\* While counter() runs: the counter has not passed what it was at the call,
\* unless it has started again, and the first byte was the low byte of a value
\* in between.
CounterInv ==
  /\ counter \in 0 .. R * R - 1
  /\ call = "counter" => /\ step \in {1, 2} /\ count0 \in Nat
                         /\ count0 # Restarted => count0 <= counter
  /\ At("counter", 2) /\ count0 # Restarted =>
       \E c \in Nat : count0 <= c /\ c <= counter /\ low_byte = LowByte(c)

\* A number is its two bytes.
LEMMA TwoBytes == ASSUME NEW v \in Nat
               PROVE  /\ HighByte(v) \in Nat /\ LowByte(v) \in 0 .. R - 1
                      /\ v = HighByte(v) * R + LowByte(v)
<1>1. R \in Nat /\ R > 0
  BY EfbTimerAssumption
<1>2. v % R \in 0 .. R - 1
  BY <1>1
<1>3. v \div R \in Nat
  BY <1>1
<1>4. PICK q \in Nat, m \in 0 .. R - 1 : q = v \div R /\ m = v % R
  BY <1>2, <1>3
<1>5. v = R * q + m
  BY <1>1, <1>4
<1>6. v = q * R + m
  BY <1>1, <1>5
<1> QED  BY <1>4, <1>6 DEF HighByte, LowByte

LEMMA Joined == ASSUME NEW h \in Nat, NEW l \in 0 .. R - 1
                PROVE  HighByte(h * R + l) = h
<1>1. R \in Nat \ {0}
  BY EfbTimerAssumption
<1> DEFINE v == h * R + l
<1>2. v \in Nat /\ l \in Nat
  BY <1>1
<1>3. v = HighByte(v) * R + LowByte(v) /\ HighByte(v) \in Nat /\ LowByte(v) \in 0 .. R - 1
  BY <1>2, TwoBytes
<1> HIDE DEF v
<1>4. PICK q \in Nat, m \in 0 .. R - 1 : q = HighByte(v) /\ m = LowByte(v)
  BY <1>3
<1>5. h * R + l = q * R + m
  BY <1>3, <1>4 DEF v
<1>6. (h - q) * R = m - l
  BY <1>1, <1>5
<1>7. h = q
  <2>1. CASE h > q
    <3>1. (h - q) * R >= R
      BY <1>1, <2>1
    <3> QED  BY <1>1, <1>6, <3>1
  <2>2. CASE h < q
    <3>1. (q - h) * R >= R
      BY <1>1, <2>2
    <3>2. (q - h) * R = l - m
      BY <1>1, <1>5
    <3> QED  BY <1>1, <3>1, <3>2
  <2> QED  BY <2>1, <2>2
<1> QED  BY <1>4, <1>7 DEF v

LEMMA HighByteMonotone == ASSUME NEW c \in Nat, NEW d \in Nat, c <= d
                          PROVE  HighByte(c) <= HighByte(d)
<1>1. R \in Nat \ {0}
  BY EfbTimerAssumption
<1>2. PICK q \in Nat, m \in 0 .. R - 1 : q = HighByte(c) /\ m = LowByte(c) /\ c = q * R + m
  BY TwoBytes
<1>3. PICK p \in Nat, n \in 0 .. R - 1 : p = HighByte(d) /\ n = LowByte(d) /\ d = p * R + n
  BY TwoBytes
<1>4. CASE q > p
  <2>1. (q - p) * R >= R
    BY <1>1, <1>4
  <2>2. (q - p) * R <= n - m
    BY <1>1, <1>2, <1>3
  <2> QED  BY <1>1, <2>1, <2>2
<1> QED  BY <1>2, <1>3, <1>4

LEMMA EfbInvariant == EfbSpec => []CounterInv
<1> USE DEF Restarted
<1>0. R \in Nat \ {0, 1} /\ R * R \in Nat /\ R * R >= 1
  BY EfbTimerAssumption
<1>1. EfbInit => CounterInv
  BY <1>0 DEF EfbInit, EfbRest, CounterInv, At
<1>2. CounterInv /\ [EfbNext]_evars => CounterInv'
  <2> SUFFICES ASSUME CounterInv, [EfbNext]_evars PROVE CounterInv'
    OBVIOUS
  <2>1. CASE EfbTick
    <3>1. call' = call /\ step' = step /\ low_byte' = low_byte
      BY <2>1 DEF EfbTick, call_vars
    <3>2. CASE counter' = 0 /\ count0' = IF call = "counter" THEN Restarted ELSE 0
      BY <1>0, <3>1, <3>2 DEF CounterInv, At
    <3>3. CASE counter # R * R - 1 /\ counter' = counter + 1 /\ count0' = count0
      BY <1>0, <3>1, <3>3 DEF CounterInv, At
    <3> QED  BY <2>1, <3>2, <3>3 DEF EfbTick
  <2>2. CASE get_u16_from_2_u8
    <3>1. call = "counter" /\ counter' = counter /\ count0' = count0
      BY <2>2 DEF get_u16_from_2_u8
    <3>2. CASE step = 1 /\ low_byte' = LowByte(counter) /\ Continue
      BY <1>0, <3>1, <3>2 DEF CounterInv, At, Continue, Goto
    <3>3. CASE call' = "do_timer_irq"
      BY <3>1, <3>3 DEF CounterInv, At
    <3> QED  BY <2>2, <3>2, <3>3 DEF get_u16_from_2_u8, Begin, Goto
  <2>3. CASE WriteNext
    <3>1. call # "counter" /\ call' # "counter" /\ counter' = counter
      BY <2>3 DEF WriteNext, Wait, call_vars, Begin, Return, Goto
    <3> QED  BY <3>1 DEF CounterInv, At
  <2>4. CASE do_timer_irq
    <3>1. call' # "counter" /\ counter' = counter
      BY <2>4 DEF do_timer_irq, Wait, call_vars, Begin, Return, Continue, Goto, At
    <3> QED  BY <3>1 DEF CounterInv, At
  <2>5. CASE CallEfb
    <3>1. counter' = counter /\ (call' = "counter" => count0' = counter /\ step' = 1)
      BY <2>5 DEF CallEfb, Begin, Goto
    <3> QED  BY <1>0, <3>1 DEF CounterInv, At
  <2>6. CASE Timer_IRQ_Handler \/ UNCHANGED evars
    <3>1. UNCHANGED <<call, step, counter, low_byte, count0>>
      BY <2>6 DEF Timer_IRQ_Handler, evars, efb_vars, call_vars
    <3> QED  BY <3>1 DEF CounterInv, At
  <2> QED  BY <2>1, <2>2, <2>3, <2>4, <2>5, <2>6 DEF EfbNext, EfbDriver
<1> QED  BY <1>1, <1>2, PTL DEF EfbSpec

\* A reading of the running counter, byte by byte, may be torn, but it is not
\* behind the counter as it was at the call and lies in the block of low bytes
\* that the counter is in on return.
THEOREM TornReading == EfbSpec => CounterRead
<1>1. CounterInv /\ [EfbNext]_evars =>
        [At("counter", 2) /\ call' # call /\ count0 # Restarted =>
           value' >= count0 /\ HighByte(value') = HighByte(counter)]_evars
  <2> SUFFICES ASSUME CounterInv, EfbNext, At("counter", 2), call' # call, count0 # Restarted
               PROVE  value' >= count0 /\ HighByte(value') = HighByte(counter)
    BY DEF evars, efb_vars, call_vars
  <2>1. value' = HighByte(counter) * R + low_byte
    <3>1. ~WriteNext /\ ~do_timer_irq /\ ~CallEfb
      BY DEF WriteNext, do_timer_irq, CallEfb, At, Resting
    <3>2. ~EfbTick /\ ~Timer_IRQ_Handler
      BY DEF EfbTick, Timer_IRQ_Handler, call_vars
    <3>3. get_u16_from_2_u8
      BY <3>1, <3>2 DEF EfbNext, EfbDriver
    <3> QED  BY <3>3 DEF get_u16_from_2_u8, At
  <2>2. R \in Nat \ {0} /\ R * R \in Nat
    BY EfbTimerAssumption
  <2>3. /\ counter \in Nat /\ count0 \in Nat
        /\ \E c \in Nat : count0 <= c /\ c <= counter /\ low_byte = LowByte(c)
    BY <2>2 DEF CounterInv, At
  <2>4. PICK c \in Nat : count0 <= c /\ c <= counter /\ low_byte = LowByte(c)
    BY <2>3
  <2>5. /\ HighByte(counter) \in Nat /\ HighByte(c) \in Nat /\ low_byte \in 0 .. R - 1
        /\ c = HighByte(c) * R + low_byte
    BY <2>3, <2>4, TwoBytes
  <2>6. HighByte(c) <= HighByte(counter)
    BY <2>3, <2>4, HighByteMonotone
  <2>7. HighByte(value') = HighByte(counter)
    BY <2>1, <2>5, Joined
  <2>8. HighByte(c) * R <= HighByte(counter) * R
    BY <2>2, <2>5, <2>6
  <2>9. value' >= c
    BY <2>1, <2>2, <2>5, <2>8
  <2> QED  BY <2>1, <2>2, <2>3, <2>4, <2>5, <2>7, <2>9
<1> QED  BY <1>1, EfbInvariant, PTL DEF EfbSpec, CounterRead
=============================================================================
