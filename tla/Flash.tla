-------------------------------- MODULE Flash --------------------------------
(***************************************************************************)
(* The user flash memory (UFM) behind the command interface of the hard    *)
(* core, and what wisbone::Flash and the loader flash-algorithm write to   *)
(* it.  A command is a frame: its opcode and operands, then data.  One     *)
(* frame is one step; the delays of the driver are waits for the core.     *)
(***************************************************************************)
EXTENDS Naturals, Sequences

CONSTANTS
  TOTAL_PAGE, \* 767
  PAGE_BYTES  \* 16

ASSUME FlashAssumption == TOTAL_PAGE \in Nat \ {0} /\ PAGE_BYTES \in Nat \ {0}

VARIABLES ufm, ufm_addr, ufm_open, ufm_busy

flash_vars == <<ufm, ufm_addr, ufm_open, ufm_busy>>

ISC_ENABLE_X      == 116
ISC_DISABLE       == 38
ISC_NOOP          == 255
LSC_WRITE_ADDRESS == 180
LSC_INIT_ADDR_UFM == 71
LSC_READ_TAG      == 202
LSC_ERASE_TAG     == 203
LSC_PROG_TAG      == 201

Erased == [i \in 1 .. PAGE_BYTES |-> 0]

-----------------------------------------------------------------------------
(***************************************************************************)
(* The core.  The memory obeys while it is open and not busy.  A page that *)
(* is programmed must have been erased: otherwise bits of both remain, for *)
(* which 256 stands.                                                       *)
(***************************************************************************)
obeys == ufm_open /\ ufm_busy = "no"

Programmed(old, new) ==
  [i \in 1 .. PAGE_BYTES |-> IF old[i] \in {0, new[i]} THEN new[i] ELSE 256]

\* Behind the last page the address stays (the limit of the model).
PageAfter(p) == IF p < TOTAL_PAGE THEN p + 1 ELSE p

command(frame, data) ==
  /\ ufm_open' = (frame[1] = ISC_ENABLE_X \/ (ufm_open /\ frame[1] # ISC_DISABLE))
  /\ ufm_addr' = IF ~obeys THEN ufm_addr
                 ELSE IF frame = <<LSC_INIT_ADDR_UFM, 0, 0, 0>> THEN 0
                 ELSE IF frame[1] = LSC_WRITE_ADDRESS THEN data[3] * 256 + data[4]
                 ELSE IF frame \in {<<LSC_READ_TAG, 16, 0, 1>>, <<LSC_PROG_TAG, 0, 0, 1>>}
                 THEN PageAfter(ufm_addr) ELSE ufm_addr
  /\ ufm' = IF ~obeys THEN ufm
            ELSE IF frame[1] = LSC_ERASE_TAG THEN [p \in DOMAIN ufm |-> Erased]
            ELSE IF frame = <<LSC_PROG_TAG, 0, 0, 1>> /\ ufm_addr \in DOMAIN ufm
            THEN [ufm EXCEPT ![ufm_addr] = Programmed(@, data)] ELSE ufm
  /\ ufm_busy' = IF ~obeys THEN ufm_busy
                 ELSE IF frame[1] = LSC_ERASE_TAG THEN "erase"
                 ELSE IF frame[1] = LSC_PROG_TAG THEN "program" ELSE "no"

\* What a frame that reads a page gets; from a memory that does not obey it is
\* taken to be zeros.
read_data == IF obeys /\ ufm_addr \in DOMAIN ufm THEN ufm[ufm_addr] ELSE Erased

FlashCore == ufm_busy # "no" /\ ufm_busy' = "no" /\ UNCHANGED <<ufm, ufm_addr, ufm_open>>

\* A delay is longer than the core takes for the command before it.
Delayed == ufm_busy = "no" /\ UNCHANGED flash_vars

-----------------------------------------------------------------------------
(***************************************************************************)
(* The driver.  command_frame sends the operands from the highest byte on. *)
(***************************************************************************)
cmd_operands_num(cmd) == IF cmd = ISC_DISABLE THEN 3 ELSE 4

asm_cmd_operands_be(cmd, operands) ==
  <<cmd, operands \div 65536, (operands \div 256) % 256, operands % 256>>

command_frame(cmd, operands, data) ==
  command(SubSeq(asm_cmd_operands_be(cmd, operands), 1, cmd_operands_num(cmd)), data)

enable_transparent_ufm  == command(<<ISC_ENABLE_X, 8, 0, 0>>, <<>>)
\* Closed by the second frame at the latest.
disable_transparent_ufm == command(<<ISC_DISABLE, 0, 0>>, <<>>)
reset_ufm_addr          == command(<<LSC_INIT_ADDR_UFM, 0, 0, 0>>, <<>>)
erase_ufm               == command(<<LSC_ERASE_TAG, 0, 0, 0>>, <<>>)

\* Of an address 14 bits are kept.
set_ufm_addr(addr) ==
  LET page == addr % 16384
  IN  command_frame(LSC_WRITE_ADDRESS, 0, <<64, 0, page \div 256, page % 256>>)

read_one_ufm_page        == command_frame(LSC_READ_TAG, 1048577, <<>>)
write_one_ufm_page(data) == command_frame(LSC_PROG_TAG, 1, data)

read_one_ufm_page_ptr        == command(<<LSC_READ_TAG, 16, 0, 1>>, <<>>)
write_one_ufm_page_ptr(data) == command(<<LSC_PROG_TAG, 0, 0, 1>>, data)
=============================================================================
