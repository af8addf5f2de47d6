------------------------------- MODULE MC_Hal -------------------------------
(***************************************************************************)
(* The firmware library: one hart, which executes one of the programs over *)
(* its drivers, with the device of each of them.                           *)
(***************************************************************************)
EXTENDS SystemTimer, I2cMaster, SpiMaster, EfbTimer, ExternalInterrupts, Boot

TimerUnused == TimerRest /\ mtimecmp = <<0, 0>> /\ arg = <<0, 0>>

HalInit ==
  /\ \/ TimerInit
     \/ TimerUnused /\ (I2cInit \/ SpiInit \/ EfbInit \/ EintInit \/ UartInit \/ BootInit)
  /\ I2cRest /\ SpiRest /\ EfbRest /\ EintRest /\ UartRest /\ BootRest

fw_vars == <<flash_vars, boot_vars>>
HalNext ==
  \/ TimerNext /\ UNCHANGED <<i2c_vars, spi_vars, efb_vars, eint_vars, uart_vars, fw_vars>>
  \/ I2cNext   /\ UNCHANGED <<timer_vars, spi_vars, efb_vars, eint_vars, uart_vars, fw_vars>>
  \/ SpiNext   /\ UNCHANGED <<timer_vars, i2c_vars, efb_vars, eint_vars, uart_vars, fw_vars>>
  \/ EfbNext   /\ UNCHANGED <<timer_vars, i2c_vars, spi_vars, eint_vars, uart_vars, fw_vars>>
  \/ EintNext  /\ UNCHANGED <<timer_vars, i2c_vars, spi_vars, efb_vars, uart_vars, fw_vars>>
  \/ UartNext  /\ UNCHANGED <<timer_vars, i2c_vars, spi_vars, efb_vars, eint_vars, fw_vars>>
  \/ BootNext  /\ UNCHANGED <<timer_vars, i2c_vars, spi_vars, efb_vars, eint_vars>>

hal_vars == <<call_vars, timer_vars, i2c_vars, spi_vars, efb_vars, eint_vars, uart_vars, fw_vars>>

HalSpec ==
  /\ HalInit /\ [][HalNext]_hal_vars
  /\ TimerFairness /\ I2cFairness /\ BootFairness

-----------------------------------------------------------------------------
MCTimes == {<<0, 2>>, <<1, 0>>}

Operations == [kind : {"Read", "Write"}, len : 0 .. 2]

\* A third operation only behind two that transfer something: after a read
\* that an empty write follows, a second read finds the core's flag of the
\* first one, and what it does then is not known.
MCTransactions ==
  {<<o>> : o \in Operations} \cup (Operations \X Operations)
    \cup {o \in Operations \X Operations \X Operations : o[1].len > 0 /\ o[2].len > 0}

MCBuffers == {<<"a">>, <<"b">>, <<"a", "b">>, <<"a", "b", "b">>}
MCFiles   == {<<11>>, <<0, 22, 33>>}
=============================================================================
