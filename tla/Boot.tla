-------------------------------- MODULE Boot --------------------------------
(***************************************************************************)
(* From a file on the host to the program that runs: the bootstrap program *)
(* in ROM, which stores what comes from the UART in the flash or loads the *)
(* flash into RAM; the loader flash-algorithm, which a debugger runs to    *)
(* store a file; the host at the serial line, which follows the prompts;   *)
(* and the reset switch.                                                   *)
(*                                                                         *)
(* The bootstrap program is at boot_at whenever it is not in a call of the *)
(* UART's driver.  A prompt is one byte, a page has PAGE_BYTES bytes, and  *)
(* the first of them stands for the first instruction.                     *)
(***************************************************************************)
EXTENDS Uart, Flash

CONSTANTS
  RAM_PAGES,  \* MAX_TEXT_DATA_LEN in pages: 480
  Files,      \* what the host stores: sequences of bytes, whole pages
  Lengths     \* low bytes of the number of pages that it may send by mistake

\* An address of the flash has 14 bits.
ASSUME BootAssumption ==
  /\ RAM_PAGES \in 1 .. TOTAL_PAGE /\ TOTAL_PAGE <= 16384
  /\ Files \subseteq Seq(0 .. 255) /\ Lengths \subseteq Nat
  /\ \A f \in Files : Len(f) % PAGE_BYTES = 0 /\ Len(f) \div PAGE_BYTES \in 1 .. RAM_PAGES

VARIABLES
  boot_at, page_num, count, ram,            \* the bootstrap program, and RAM
  mapped_to_ram,                            \* of HarvardBootstrap
  host, file, left_to_send,                 \* the host
  pages,                                    \* pages the loader has to store
  stored                                    \* history: the file in the flash

boot_vars ==
  <<boot_at, page_num, count, ram, mapped_to_ram, host, file, left_to_send,
    pages, stored>>
bvars == <<call_vars, uart_vars, flash_vars, boot_vars>>

firmware  == <<page_num, count, ram>>
host_vars == <<host, file, left_to_send>>

MAX_PAGES == IF RAM_PAGES < TOTAL_PAGE THEN RAM_PAGES ELSE TOTAL_PAGE

CMD     == 1
LEN     == 2
START_DOWNLOAD == 3
CONFIRM == 4
ERR     == 5

PageCount(f)  == Len(f) \div PAGE_BYTES
PageOf(f, p)  == SubSeq(f, p * PAGE_BYTES + 1, (p + 1) * PAGE_BYTES)
RamBytes      == RAM_PAGES * PAGE_BYTES
Padded(f)     == [i \in 1 .. RamBytes |-> IF i <= Len(f) THEN f[i] ELSE 0]

-----------------------------------------------------------------------------
(***************************************************************************)
(* The bootstrap program, between calls of the driver.                     *)
(***************************************************************************)
AtBoot(place) == program = "boot" /\ Resting /\ boot_at = place

NoUart == UNCHANGED <<call_vars, uart_vars>>
Silent == UNCHANGED <<mapped_to_ram, host_vars, pages, stored>>

\* The keys, which the mode register shows, are held or not when it is read.
Jump(place) == boot_at' = place /\ NoUart

\* The byte received is looked at, once.
Took(place) ==
  /\ boot_at' = place /\ rx_byte' = Stale
  /\ UNCHANGED <<call_vars, uart_device, uart_history, room, todo>>

\* The program goes on at place when the byte is sent or received.
Prompt(prompt, place) ==
  /\ boot_at' = place
  /\ todo' = <<prompt>> /\ Begin("tx_bytes_block")
  /\ UNCHANGED <<uart_device, uart_history, rx_byte, room, flash_vars, firmware>>

Receive1(place) ==
  /\ boot_at' = place /\ Begin("rx_block")
  /\ UNCHANGED <<uart_vars, flash_vars>>

main ==
  /\ Silent
  /\ \/ AtBoot("main") /\ Jump("enabled") /\ enable_transparent_ufm /\ UNCHANGED firmware
     \/ /\ AtBoot("enabled")
        /\ \E download_key \in BOOLEAN : Jump(IF download_key THEN "cmd" ELSE "boot")
        /\ UNCHANGED <<flash_vars, firmware>>

\* All of the RAM is loaded; a first instruction of zeros ends in printing the
\* error for ever, unless the key of the RAM mode is held.  mapped_to_ram
\* changes in the reset that the write of the mode brings, after which the
\* program in RAM runs.
boot ==
  /\ UNCHANGED <<host_vars, pages, stored, page_num>>
  /\ \/ /\ AtBoot("boot") /\ Jump("load") /\ reset_ufm_addr
        /\ count' = 0 /\ UNCHANGED <<ram, mapped_to_ram>>
     \/ /\ AtBoot("load") /\ Jump(IF count + 1 < RAM_PAGES THEN "load" ELSE "check")
        /\ read_one_ufm_page_ptr /\ count' = count + 1
        /\ ram' = [i \in 1 .. RamBytes |->
                     IF (i - 1) \div PAGE_BYTES = count
                     THEN read_data[((i - 1) % PAGE_BYTES) + 1] ELSE ram[i]]
        /\ UNCHANGED mapped_to_ram
     \/ /\ AtBoot("check") /\ UNCHANGED <<ufm, ufm_addr, ufm_busy, ram>>
        /\ count' = 0 /\ \E ram_mode \in BOOLEAN :
             IF ~ram_mode /\ ram[1] = 0
             THEN Jump("err") /\ UNCHANGED <<ufm_open, mapped_to_ram>>
             ELSE Jump("user") /\ ufm_open' = FALSE /\ mapped_to_ram' = TRUE
     \/ AtBoot("err") /\ Prompt(ERR, "err") /\ UNCHANGED mapped_to_ram

\* The loop of download: a prompt in each round, as long as nothing comes.
AwaitCommand ==
  /\ AtBoot("cmd") /\ Silent
  /\ \/ ~rx_end /\ Prompt(CMD, "cmd")
     \/ /\ rx_end /\ rx /\ UNCHANGED <<room, call_vars, flash_vars, firmware>>
        /\ boot_at' = IF rx_byte' = 86 THEN "len" ELSE "cmd"

\* The length, high byte first, until it is valid.
AwaitLength ==
  /\ Silent
  /\ \/ AtBoot("len") /\ Prompt(LEN, "len_hi")
     \/ AtBoot("len_hi") /\ Receive1("len_lo") /\ UNCHANGED firmware
     \/ /\ AtBoot("len_lo") /\ Receive1("len_check")
        /\ page_num' = rx_byte * 256 /\ UNCHANGED <<count, ram>>
     \/ /\ AtBoot("len_check") /\ page_num' = page_num + rx_byte
        /\ Took(IF page_num' > MAX_PAGES \/ page_num' = 0 THEN "len" ELSE "start")
        /\ UNCHANGED <<count, ram, flash_vars>>

AwaitStart ==
  /\ Silent
  /\ \/ AtBoot("start") /\ Prompt(START_DOWNLOAD, "start_key")
     \/ AtBoot("start_key") /\ Receive1("start_check") /\ UNCHANGED firmware
     \/ /\ AtBoot("start_check") /\ Took(IF rx_byte = 120 THEN "erase" ELSE "start_key")
        /\ UNCHANGED <<flash_vars, firmware>>

Erase ==
  /\ UNCHANGED <<mapped_to_ram, host_vars, pages, page_num, ram>>
  /\ \/ AtBoot("erase") /\ erase_ufm /\ Jump("erasing") /\ stored' = <<>> /\ UNCHANGED count
     \/ AtBoot("erasing") /\ Delayed /\ Jump("receive") /\ count' = 0 /\ UNCHANGED stored

\* All bytes go to RAM first, from there page by page to the flash.  Mutants:
\* one byte too many is awaited; no wait between two pages.
MutOneMore(n) == n * PAGE_BYTES + 1
BytesOf(n)    == n * PAGE_BYTES

MutNoDelay == UNCHANGED flash_vars
PageWritten == Delayed

from_uart_download ==
  /\ UNCHANGED <<mapped_to_ram, host_vars, pages, page_num>>
  /\ \/ /\ AtBoot("receive") /\ count < BytesOf(page_num)
        /\ Receive1("store") /\ UNCHANGED <<count, ram, stored>>
     \/ /\ AtBoot("store") /\ Took("receive")
        /\ ram' = [ram EXCEPT ![count + 1] = rx_byte] /\ count' = count + 1
        /\ UNCHANGED <<flash_vars, stored>>
     \/ /\ AtBoot("receive") /\ count = BytesOf(page_num)
        /\ reset_ufm_addr /\ Jump("program") /\ count' = 0 /\ UNCHANGED <<ram, stored>>
     \/ /\ AtBoot("program") /\ count < page_num
        /\ write_one_ufm_page_ptr(PageOf(ram, count)) /\ Jump("programming")
        /\ UNCHANGED <<count, ram, stored>>
     \/ /\ AtBoot("programming") /\ PageWritten /\ Jump("program")
        /\ count' = count + 1 /\ UNCHANGED <<ram, stored>>
     \/ /\ AtBoot("program") /\ count = page_num
        /\ Prompt(CONFIRM, "confirm") /\ stored' = file

AwaitConfirm ==
  /\ Silent
  /\ \/ AtBoot("confirm") /\ Receive1("confirm_check") /\ UNCHANGED firmware
     \/ /\ AtBoot("confirm_check") /\ Took(IF rx_byte = 87 THEN "cmd" ELSE "confirm")
        /\ page_num' = 0 /\ count' = 0 /\ UNCHANGED <<flash_vars, ram>>

Download ==
  AwaitCommand \/ AwaitLength \/ AwaitStart \/ Erase \/ from_uart_download \/ AwaitConfirm

UartCall ==
  /\ program = "boot" /\ ~Resting
  /\ rx_block \/ tx_bytes_block
  /\ UNCHANGED <<flash_vars, boot_vars>>

-----------------------------------------------------------------------------
(***************************************************************************)
(* The host answers the last prompt it has seen, and sends its file at any *)
(* time after the prompt to begin, which comes before the flash is erased. *)
(* The hart takes bytes faster than they come, unless it waits for the     *)
(* flash: then a byte that finds the FIFO full is lost.                    *)
(***************************************************************************)
HostSends(byte) == /\ Receiver(<<byte>>, FALSE) /\ arrived' = arrived /\ taken' = taken
                   /\ UNCHANGED <<tx_fifo, tx_buffer, tx_fifo_ren, uart_locals, got, uart_stale, drained>>

Sees(prompt) == line = <<prompt>> /\ line' = <<>>

Host ==
  /\ program = "boot"
  /\ UNCHANGED <<call_vars, flash_vars, boot_at, firmware, mapped_to_ram, pages, stored>>
  /\ Len(rx_fifo) < DEPTH \/ (host = "send" /\ boot_at = "erasing")
  /\ \/ host = "cmd" /\ Sees(CMD) /\ HostSends(86)
        /\ host' = "len" /\ file' \in Files /\ UNCHANGED left_to_send
     \/ host = "len" /\ Sees(LEN) /\ HostSends(PageCount(file) \div 256)
        /\ host' = "len_lo" /\ UNCHANGED <<file, left_to_send>>
     \/ host = "len_lo" /\ HostSends(PageCount(file) % 256) /\ host' = "start"
        /\ UNCHANGED <<line, file, left_to_send>>
     \/ host = "len_lo" /\ (\E n \in Lengths : HostSends(n)) /\ host' = "len"
        /\ UNCHANGED <<line, file, left_to_send>>
     \/ host = "start" /\ Sees(START_DOWNLOAD) /\ HostSends(120)
        /\ host' = "send" /\ left_to_send' = file /\ UNCHANGED file
     \/ /\ host = "send" /\ left_to_send # <<>>
        /\ HostSends(Head(left_to_send)) /\ left_to_send' = Tail(left_to_send)
        /\ UNCHANGED <<line, host, file>>
     \/ host = "send" /\ left_to_send = <<>> /\ Sees(CONFIRM) /\ HostSends(87)
        /\ host' = "cmd" /\ file' = <<>> /\ UNCHANGED left_to_send

-----------------------------------------------------------------------------
(***************************************************************************)
(* The loader, which a debugger runs on the halted hart: erase_all, and    *)
(* program for each page, in any order.                                    *)
(***************************************************************************)
LoaderStep(place) ==
  boot_at' = place /\ NoUart /\ UNCHANGED <<firmware, mapped_to_ram, host, left_to_send>>

StartLoader ==
  /\ program = "boot" /\ boot_at \in {"user", "err"} /\ Resting
  /\ LoaderStep("load_init") /\ file' \in Files
  /\ UNCHANGED <<flash_vars, pages, stored>>

Loader ==
  \/ /\ AtBoot("load_init") /\ enable_transparent_ufm /\ LoaderStep("load_erase")
     /\ UNCHANGED <<file, pages, stored>>
  \/ /\ AtBoot("load_erase") /\ erase_ufm /\ LoaderStep("load_wait")
     /\ pages' = 0 .. PageCount(file) - 1 /\ stored' = <<>> /\ UNCHANGED file
  \/ /\ AtBoot("load_wait") /\ Delayed /\ LoaderStep("load_addr")
     /\ UNCHANGED <<file, pages, stored>>
  \/ /\ AtBoot("load_addr") /\ pages # {}
     /\ \E p \in pages : set_ufm_addr(p) /\ pages' = {p} \cup pages /\ LoaderStep("load_page")
     /\ UNCHANGED <<file, stored>>
  \/ /\ AtBoot("load_page") /\ LoaderStep("load_wait")
     /\ write_one_ufm_page(PageOf(file, ufm_addr)) /\ pages' = pages \ {ufm_addr}
     /\ UNCHANGED <<file, stored>>
  \/ /\ AtBoot("load_addr") /\ pages = {} /\ disable_transparent_ufm /\ LoaderStep("loaded")
     /\ stored' = file /\ UNCHANGED <<file, pages>>

-----------------------------------------------------------------------------
\* The reset switch.  It is held for longer than the flash programs a page,
\* though not than it erases; the reset controller closes the flash.  The host
\* begins again.
ResetUart ==
  /\ rx_fifo' = <<>> /\ tx_fifo' = <<>> /\ tx_buffer' = <<>> /\ tx_fifo_ren' = FALSE
  /\ line' = <<>> /\ rx_byte' = Stale /\ room' = 0 /\ todo' = <<>>
  /\ UNCHANGED <<rx_irq, arrived, taken, got, uart_stale, drained>>

Reset(to_ram) ==
  /\ Return /\ ResetUart
  /\ mapped_to_ram' = to_ram /\ boot_at' = IF to_ram THEN "user" ELSE "main"
  /\ ufm_open' = FALSE /\ ufm_busy' = IF ufm_busy = "erase" THEN "erase" ELSE "no"
  /\ UNCHANGED <<ufm, ufm_addr>>
  /\ host' = "cmd" /\ left_to_send' = <<>> /\ file' = <<>> /\ pages' = {}
  /\ page_num' = 0 /\ count' = 0 /\ UNCHANGED <<ram, stored>>

\* While the bootstrap program waits, works, or a program runs.
ResetSwitch == program = "boot" /\ Reset(mapped_to_ram)

\* A program in RAM calls into_rom_mode.
into_rom_mode == AtBoot("user") /\ Reset(FALSE)

BootRest ==
  /\ boot_at = "main" /\ page_num = 0 /\ count = 0 /\ ram = [i \in 1 .. RamBytes |-> 0]
  /\ mapped_to_ram = FALSE
  /\ host = "cmd" /\ file = <<>> /\ left_to_send = <<>> /\ pages = {} /\ stored = <<>>
  /\ ufm = [p \in 0 .. TOTAL_PAGE - 1 |-> Erased]
  /\ ufm_addr = 0 /\ ufm_open = FALSE /\ ufm_busy = "no"

BootInit ==
  program = "boot" /\ call = "none" /\ step = 0 /\ UartRest /\ BootRest

BootProgram == main \/ boot \/ Download \/ UartCall
BootDevices ==
  /\ program = "boot"
  /\ \/ TransmitterSteps /\ UNCHANGED <<uart_locals, flash_vars>>
     \/ FlashCore /\ UNCHANGED uart_vars
  /\ UNCHANGED <<call_vars, boot_vars>>
Debugger == StartLoader \/ Loader

BootNext ==
  \/ BootProgram \/ BootDevices \/ Host \/ Debugger
  \/ ResetSwitch \/ into_rom_mode

BootSpec == BootInit /\ [][BootNext]_bvars

\* Hart, devices and host go on; nobody has to reset or to debug.
BootFairness == WF_bvars(BootProgram) /\ WF_bvars(BootDevices) /\ WF_bvars(Host)

-----------------------------------------------------------------------------
\* What a prompt or a loader confirms has been stored: after any sequence of
\* downloads, wrong lengths, loaders and resets the flash holds the last file
\* confirmed and nothing else, until the next erasure; and what is tested, and
\* then started, is the whole of what the flash holds.  (The host's frames end
\* between the program's accesses; one that met the read of the last byte before
\* it would be taken with an old value, see BytesOnce.)
FlashImage == [i \in 1 .. RamBytes |-> ufm[(i - 1) \div PAGE_BYTES][((i - 1) % PAGE_BYTES) + 1]]
ImageWhole ==
  program = "boot" =>
    /\ stored # <<>> => FlashImage = Padded(stored)
    /\ AtBoot("check") => ram = FlashImage

\* While the flash is erased nobody takes bytes: what is neither in the FIFO nor
\* still to be sent is lost.
FileLost == /\ host = "send" /\ boot_at = "erasing"
            /\ Len(rx_fifo) + Len(left_to_send) < Len(file)

\* A host that has been told to send its file is told that it is stored, unless
\* it does not wait for the erasure and more than the FIFO holds comes during it.
\* The program gives no sign of the end of the erasure; with a byte lost it waits
\* for it until a reset.
ToldToSend   == host = "send" /\ left_to_send = file
DownloadEnds == [](ToldToSend => <>(host = "cmd" \/ FileLost))
=============================================================================
