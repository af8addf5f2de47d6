----------------------------- MODULE BootProofs -----------------------------
(***************************************************************************)
(* ImageWhole, for flashes, files, FIFOs and RAM of any size: whatever     *)
(* downloads, loaders and resets there have been, the flash holds the last *)
(* file that was confirmed, and the program that is started is all of it.  *)
(***************************************************************************)
EXTENDS Boot, SerialProofs
-----------------------------------------------------------------------------
(***************************************************************************)
(* Where the boot program is.                                              *)
(***************************************************************************)
Loading   == {"load_init", "load_erase", "load_wait", "load_addr", "load_page", "loaded"}
Alone     == {"main", "enabled", "boot", "load", "check", "err", "user"} \cup Loading
Prompting == {"err", "cmd", "len_hi", "start_key", "confirm"}
Reading   == {"len_lo", "len_check", "start_check", "store", "confirm_check"}
Places    == Alone \cup Prompting \cup Reading
               \cup {"len", "start", "erase", "erasing", "receive", "program", "programming"}
Closed    == {"main", "user", "load_init", "loaded"}

BootTypes ==
  /\ boot_at \in Places /\ page_num \in Nat /\ count \in Nat /\ ram \in [1 .. RamBytes -> Nat]
  /\ file \in {<<>>} \cup Files /\ left_to_send \in Seq(Nat)
  /\ pages \subseteq Nat /\ stored \in {<<>>} \cup Files

-----------------------------------------------------------------------------
(***************************************************************************)
(* The UART, when the boot program uses it.                                *)
(***************************************************************************)
UartTypes ==
  /\ rx_fifo \in Seq(Nat) /\ Len(rx_fifo) <= DEPTH /\ tx_fifo \in Seq(Nat) /\ Len(tx_fifo) <= DEPTH
  /\ tx_fifo_ren \in BOOLEAN /\ tx_buffer \in Seq(Nat) /\ Len(tx_buffer) <= 1 /\ line \in Seq(Nat)
  /\ rx_byte \in Nat /\ todo \in Seq(Nat)

\* Which call of the driver the program is in; a read finds a byte, a write room.
BootCalls ==
  \/ Resting /\ Len(todo) = 0
  \/ /\ call = "rx_block" /\ step \in {1, 2} /\ Len(todo) = 0 /\ boot_at \in Reading
     /\ step = 2 => rx_end
  \/ /\ call = "tx_bytes_block" /\ step \in {1, 2} /\ Len(todo) = 1 /\ boot_at \in Prompting
     /\ step = 2 => tx_ready

Serial == program = "boot" /\ UartTypes /\ BootCalls /\ UartPop

\* The bytes on their way to the program, and the prompts on theirs to the host.
Inbox  == IF Resting /\ boot_at \in Reading THEN <<rx_byte>> \o rx_fifo ELSE rx_fifo
Coming == (tx_buffer \o IF tx_fifo_ren THEN Tail(tx_fifo) ELSE tx_fifo) \o todo

-----------------------------------------------------------------------------
(***************************************************************************)
(* The conversation with the host.                                         *)
(***************************************************************************)
NoBytes == Len(Inbox) = 0
Silence == line = <<>> /\ Len(Coming) = 0
Only(p) == line \in {<<>>, <<p>>} /\ \A i \in 1 .. Len(Coming) : Coming[i] = p
\* The host will see p last of all.
Pending(p) ==
  \/ line = <<p>> /\ Len(Coming) = 0
  \/ /\ line \in {<<>>, <<CMD>>} /\ Len(Coming) > 0 /\ Coming[Len(Coming)] = p
     /\ \A i \in 1 .. Len(Coming) - 1 : Coming[i] = CMD

High == PageCount(file) \div 256
Low  == PageCount(file) % 256

\* The length announced has been seen: it is the file's, or the host does not
\* know that it has been taken for valid.
Agreed == (host = "start" /\ page_num = PageCount(file)) \/ host = "len"

Sending == host = "send" /\ page_num = PageCount(file) /\ Silence

\* n bytes, those in the inbox behind the first k, and the rest of the host.
Sum(n, k) == n + (Len(Inbox) - k) + Len(left_to_send)

\* After n bytes of the file come those in the inbox behind the first k, then
\* those that the host has not sent; or bytes have been lost.
Stream(n, k) ==
  \/ Sum(n, k) < Len(file)
  \/ /\ Sum(n, k) = Len(file)
     /\ \A i \in 1 .. Len(Inbox) - k : Inbox[k + i] = file[n + i]
     /\ \A i \in 1 .. Len(left_to_send) : left_to_send[i] = file[n + Len(Inbox) - k + i]

TalkQuiet ==
  /\ boot_at \in Alone => host = "cmd" /\ NoBytes /\ Only(ERR)
  /\ boot_at \in {"main", "enabled"} => Silence
TalkCmd ==
  /\ boot_at = "cmd" =>
       /\ Only(CMD)
       /\ \/ host = "cmd" /\ NoBytes
          \/ host = "len" /\ Len(Inbox) = 1 /\ Inbox[1] = 86
  /\ boot_at = "len" => Only(CMD) /\ host = "len" /\ NoBytes
TalkLen ==
  /\ boot_at \in {"len_hi", "len_lo"} =>
       \/ host = "len" /\ NoBytes /\ Pending(LEN)
       \/ host = "len_lo" /\ Len(Inbox) = 1 /\ Inbox[1] = High /\ Silence
       \/ host = "start" /\ Len(Inbox) = 2 /\ Inbox[1] = High /\ Inbox[2] = Low /\ Silence
       \/ host = "len" /\ Len(Inbox) = 2 /\ Silence
  /\ boot_at = "len_check" =>
       /\ Silence
       /\ \/ host = "len_lo" /\ NoBytes /\ page_num = High * 256
          \/ host = "start" /\ Len(Inbox) = 1 /\ Inbox[1] = Low /\ page_num = High * 256
          \/ host = "len" /\ Len(Inbox) = 1
TalkStart ==
  /\ boot_at = "start" => Silence /\ NoBytes /\ Agreed
  /\ boot_at \in {"start_key", "start_check"} =>
       \/ Agreed /\ NoBytes /\ Pending(START_DOWNLOAD)
       \/ Sending /\ Len(Inbox) > 0 /\ Inbox[1] = 120 /\ Stream(0, 1)
TalkSend ==
  /\ boot_at \in {"erase", "erasing"} => Sending /\ Stream(0, 0)
  /\ boot_at \in {"receive", "store"} =>
       /\ Sending /\ Stream(count, 0)
       /\ Sum(count, 0) = Len(file) => \A i \in 1 .. count : ram[i] = file[i]
  /\ boot_at \in {"program", "programming"} =>
       /\ Sending /\ NoBytes /\ Len(left_to_send) = 0
       /\ \A i \in 1 .. Len(file) : ram[i] = file[i]
  /\ boot_at \in {"confirm", "confirm_check"} =>
       \/ host = "send" /\ NoBytes /\ Len(left_to_send) = 0 /\ Pending(CONFIRM)
       \/ host = "cmd" /\ Len(Inbox) = 1 /\ Inbox[1] = 87 /\ Silence

Talk ==
  /\ host # "cmd" => file \in Files
  /\ TalkQuiet /\ TalkCmd /\ TalkLen /\ TalkStart /\ TalkSend

-----------------------------------------------------------------------------
(***************************************************************************)
(* The flash.                                                              *)
(***************************************************************************)
FlashTypes ==
  /\ ufm \in [0 .. TOTAL_PAGE - 1 -> [1 .. PAGE_BYTES -> Nat]]
  /\ ufm_addr \in Nat /\ ufm_open \in BOOLEAN /\ ufm_busy \in {"no", "erase", "program"}

AllErased == \A p \in 0 .. TOTAL_PAGE - 1 : ufm[p] = Erased
Written(f, ps) == \A p \in 0 .. TOTAL_PAGE - 1 : ufm[p] = IF p \in ps THEN PageOf(f, p) ELSE Erased

FlashUse ==
  /\ boot_at \notin Closed => ufm_open
  /\ ufm_busy = "erase" => AllErased
  /\ ufm_busy = "program" => boot_at \in {"programming", "load_wait"}

\* What the boot program has written so far.
Downloading ==
  /\ boot_at \in {"erasing", "receive", "store"} => AllErased
  /\ boot_at \in {"receive", "store"} => ufm_busy = "no"
  /\ boot_at = "program" =>
       /\ Written(ram, 0 .. count - 1) /\ ufm_addr = count /\ ufm_busy = "no"
       /\ count <= page_num
  /\ boot_at = "programming" =>
       Written(ram, 0 .. count) /\ ufm_addr = count + 1 /\ count < page_num

\* What the loader has written so far.
LoaderPages ==
  /\ boot_at \in Loading => file \in Files
  /\ boot_at \in {"load_wait", "load_addr", "load_page"} =>
       /\ pages \subseteq 0 .. PageCount(file) - 1
       /\ Written(file, (0 .. PageCount(file) - 1) \ pages)
  /\ boot_at \in {"load_addr", "load_page"} => ufm_busy = "no"
  /\ boot_at = "load_page" => ufm_addr \in pages

\* What is in RAM of what is in the flash.
Loaded ==
  /\ boot_at = "load" =>
       /\ count < RAM_PAGES /\ (AllErased \/ ufm_addr = count)
       /\ \A i \in 1 .. RamBytes : (i - 1) \div PAGE_BYTES < count => ram[i] = FlashImage[i]
  /\ boot_at = "check" => ram = FlashImage

\* A file that has been confirmed stays until the next erasure.
Programming == {"erasing", "receive", "store", "program", "programming",
                "load_wait", "load_addr", "load_page"}
Kept == stored # <<>> => FlashImage = Padded(stored) /\ boot_at \notin Programming

Stores == FlashTypes /\ FlashUse /\ Downloading /\ LoaderPages /\ Loaded /\ Kept

BootInv == Serial /\ BootTypes /\ Talk /\ Stores
-----------------------------------------------------------------------------
(***************************************************************************)
(* Pages.                                                                  *)
(***************************************************************************)
LEMMA BootConstants ==
  /\ TOTAL_PAGE \in Nat \ {0} /\ PAGE_BYTES \in Nat \ {0} /\ RAM_PAGES \in Nat \ {0}
  /\ RAM_PAGES <= TOTAL_PAGE /\ TOTAL_PAGE <= 16384 /\ MAX_PAGES = RAM_PAGES
  /\ RamBytes \in Nat /\ RamBytes = RAM_PAGES * PAGE_BYTES
BY FlashAssumption, BootAssumption DEF MAX_PAGES, RamBytes

\* The i-th byte is in a page, at an offset.
LEMMA Offset ==
  ASSUME NEW i \in Nat \ {0}
  PROVE  /\ (i - 1) \div PAGE_BYTES \in Nat /\ ((i - 1) % PAGE_BYTES) + 1 \in 1 .. PAGE_BYTES
         /\ i = ((i - 1) \div PAGE_BYTES) * PAGE_BYTES + (((i - 1) % PAGE_BYTES) + 1)
<1>1. PAGE_BYTES \in Nat \ {0}
  BY BootConstants
<1> DEFINE j == i - 1
<1>2. j \in Nat
  OBVIOUS
<1>3. j \div PAGE_BYTES \in Nat /\ j % PAGE_BYTES \in 0 .. PAGE_BYTES - 1
  BY <1>1, <1>2
<1>4. PICK q, r \in Nat : q = j \div PAGE_BYTES /\ r = j % PAGE_BYTES
  BY <1>3
<1>5. j = PAGE_BYTES * q + r
  BY <1>1, <1>2, <1>4
<1>6. r + 1 \in 1 .. PAGE_BYTES
  BY <1>1, <1>3, <1>4
<1>7. i = q * PAGE_BYTES + (r + 1)
  BY <1>1, <1>4, <1>5
<1> QED  BY <1>4, <1>6, <1>7

LEMMA Before ==
  ASSUME NEW i \in Nat \ {0}, NEW n \in Nat
  PROVE  i <= n * PAGE_BYTES <=> (i - 1) \div PAGE_BYTES < n
<1>1. PICK q \in Nat, r \in 1 .. PAGE_BYTES :
        q = (i - 1) \div PAGE_BYTES /\ i = q * PAGE_BYTES + r
  BY Offset
<1>2. PAGE_BYTES \in Nat \ {0}
  BY BootConstants
<1>3. CASE q < n
  <2>1. PICK d \in Nat : n = q + 1 + d
    <3>1. n - (q + 1) \in Nat /\ n = q + 1 + (n - (q + 1))
      BY <1>3
    <3> QED  BY <3>1
  <2>2. n * PAGE_BYTES = q * PAGE_BYTES + PAGE_BYTES + d * PAGE_BYTES
    BY <1>2, <2>1
  <2>3. d * PAGE_BYTES \in Nat /\ q * PAGE_BYTES \in Nat
    BY <1>2
  <2> QED  BY <1>1, <1>2, <1>3, <2>2, <2>3
<1>4. CASE ~(q < n)
  <2>1. PICK d \in Nat : q = n + d
    <3>1. q - n \in Nat /\ q = n + (q - n)
      BY <1>4
    <3> QED  BY <3>1
  <2>2. q * PAGE_BYTES = n * PAGE_BYTES + d * PAGE_BYTES
    BY <1>2, <2>1
  <2>3. d * PAGE_BYTES \in Nat /\ n * PAGE_BYTES \in Nat
    BY <1>2
  <2> QED  BY <1>1, <1>2, <1>4, <2>2, <2>3
<1> QED  BY <1>3, <1>4

\* A file is a whole number of pages.
LEMMA FilePages ==
  ASSUME NEW f \in Files
  PROVE  /\ f \in Seq(Nat) /\ PageCount(f) \in 1 .. RAM_PAGES
         /\ Len(f) = PageCount(f) * PAGE_BYTES
         /\ Len(f) \in Nat /\ Len(f) <= RamBytes /\ f # <<>>
<1>1. f \in Seq(0 .. 255) /\ Len(f) % PAGE_BYTES = 0 /\ PageCount(f) \in 1 .. RAM_PAGES
  BY BootAssumption DEF PageCount
<1>2. f \in Seq(Nat) /\ Len(f) \in Nat
  <2>1. 0 .. 255 \subseteq Nat
    OBVIOUS
  <2>2. f \in Seq(Nat)
    BY <1>1, <2>1, SeqMonotonic
  <2> QED  BY <2>2, LenProperties
<1>3. PAGE_BYTES \in Nat \ {0} /\ RAM_PAGES \in Nat /\ RamBytes = RAM_PAGES * PAGE_BYTES
  BY BootConstants
<1>4. PICK q \in Nat : q = PageCount(f) /\ q >= 1 /\ q <= RAM_PAGES
  BY <1>1, <1>3
<1>5. Len(f) = PAGE_BYTES * q + 0
  BY <1>1, <1>2, <1>3, <1>4 DEF PageCount
<1>6. Len(f) = q * PAGE_BYTES
  BY <1>3, <1>5
<1>7. Len(f) <= RamBytes
  <2>1. PICK d \in Nat : RAM_PAGES = q + d
    <3>1. RAM_PAGES - q \in Nat /\ RAM_PAGES = q + (RAM_PAGES - q)
      BY <1>3, <1>4
    <3> QED  BY <3>1
  <2>2. RamBytes = q * PAGE_BYTES + d * PAGE_BYTES /\ d * PAGE_BYTES \in Nat
    BY <1>3, <2>1
  <2> QED  BY <1>2, <1>6, <2>2
<1>8. Len(f) # 0
  BY <1>3, <1>4, <1>6
<1>9. f # <<>>
  BY <1>8
<1> QED  BY <1>1, <1>2, <1>4, <1>6, <1>7, <1>9

LEMMA PageElements ==
  ASSUME NEW s \in Seq(Nat), NEW p \in Nat, NEW n \in Nat, p < n, n * PAGE_BYTES <= Len(s)
  PROVE  /\ PageOf(s, p) \in [1 .. PAGE_BYTES -> Nat]
         /\ \A k \in 1 .. PAGE_BYTES : PageOf(s, p)[k] = s[p * PAGE_BYTES + k]
<1>1. PAGE_BYTES \in Nat \ {0} /\ Len(s) \in Nat
  BY BootConstants
<1>2. PICK a \in Nat : a = p * PAGE_BYTES
  BY <1>1
<1>3. (p + 1) * PAGE_BYTES = a + PAGE_BYTES
  BY <1>1, <1>2
<1>4. a + PAGE_BYTES <= Len(s)
  <2>1. PICK d \in Nat : n = p + 1 + d
    <3>1. n - (p + 1) \in Nat /\ n = p + 1 + (n - (p + 1))
      OBVIOUS
    <3> QED  BY <3>1
  <2>2. n * PAGE_BYTES = p * PAGE_BYTES + PAGE_BYTES + d * PAGE_BYTES /\ d * PAGE_BYTES \in Nat
    BY <1>1, <2>1
  <2> QED  BY <1>1, <1>2, <2>2
<1>5. PageOf(s, p) = SubSeq(s, a + 1, a + PAGE_BYTES)
  BY <1>2, <1>3 DEF PageOf
<1>6. \A i \in a + 1 .. a + PAGE_BYTES : s[i] \in Nat
  BY <1>1, <1>4, ElementOfSeq
<1>7. /\ SubSeq(s, a + 1, a + PAGE_BYTES) \in Seq(Nat)
      /\ Len(SubSeq(s, a + 1, a + PAGE_BYTES)) = PAGE_BYTES
      /\ \A i \in 1 .. PAGE_BYTES : SubSeq(s, a + 1, a + PAGE_BYTES)[i] = s[a + i]
  <2>1. a + 1 \in Int /\ a + PAGE_BYTES \in Int /\ a + 1 <= a + PAGE_BYTES
        /\ (a + PAGE_BYTES) - (a + 1) + 1 = PAGE_BYTES
    BY <1>1
  <2>2. /\ SubSeq(s, a + 1, a + PAGE_BYTES) \in Seq(Nat)
        /\ Len(SubSeq(s, a + 1, a + PAGE_BYTES)) = (a + PAGE_BYTES) - (a + 1) + 1
        /\ \A i \in 1 .. (a + PAGE_BYTES) - (a + 1) + 1 :
             SubSeq(s, a + 1, a + PAGE_BYTES)[i] = s[(a + 1) + i - 1]
    BY <1>6, <2>1, SubSeqProperties
  <2> QED  BY <1>1, <2>1, <2>2
<1>8. PageOf(s, p) \in [1 .. PAGE_BYTES -> Nat]
  BY <1>5, <1>7, LenProperties
<1> QED  BY <1>2, <1>5, <1>7, <1>8

\* RAM is a sequence too.
LEMMA RamIsSeq == ASSUME NEW r \in [1 .. RamBytes -> Nat] PROVE r \in Seq(Nat) /\ Len(r) = RamBytes
<1>1. RamBytes \in Nat
  BY BootConstants
<1>2. r \in Seq(Nat)
  BY <1>1
<1> QED  BY <1>1, <1>2, LenProperties

\* With all its pages in the flash, and nothing else, the flash holds the file.
LEMMA WrittenImage ==
  ASSUME NEW f \in Files, NEW g \in Seq(Nat), Len(f) <= Len(g), \A i \in 1 .. Len(f) : g[i] = f[i],
         Written(g, 0 .. PageCount(f) - 1)
  PROVE  FlashImage = Padded(f)
<1>1. /\ PageCount(f) \in Nat \ {0} /\ PageCount(f) <= RAM_PAGES /\ RAM_PAGES <= TOTAL_PAGE
      /\ Len(f) = PageCount(f) * PAGE_BYTES /\ Len(f) \in Nat /\ RAM_PAGES \in Nat /\ TOTAL_PAGE \in Nat
      /\ RamBytes \in Nat /\ RamBytes = RAM_PAGES * PAGE_BYTES
  BY FilePages, BootConstants
<1>2. SUFFICES ASSUME NEW i \in 1 .. RamBytes
      PROVE ufm[(i - 1) \div PAGE_BYTES][((i - 1) % PAGE_BYTES) + 1] = IF i <= Len(f) THEN f[i] ELSE 0
  BY DEF FlashImage, Padded
<1>3. PICK p \in Nat, r \in 1 .. PAGE_BYTES :
        /\ p = (i - 1) \div PAGE_BYTES /\ r = ((i - 1) % PAGE_BYTES) + 1
        /\ i = p * PAGE_BYTES + r
  <2>1. i \in Nat \ {0}
    BY <1>1
  <2> QED  BY <2>1, Offset
<1>4. p < RAM_PAGES /\ (i <= Len(f) <=> p < PageCount(f))
  <2>1. i \in Nat \ {0} /\ i <= RAM_PAGES * PAGE_BYTES
    BY <1>1
  <2> QED  BY <1>1, <1>3, <2>1, Before
<1>5. p \in 0 .. TOTAL_PAGE - 1
  BY <1>1, <1>4
<1>6. CASE i <= Len(f)
  <2>1. ufm[p] = PageOf(g, p)
    BY <1>1, <1>4, <1>5, <1>6 DEF Written
  <2>2. PageOf(g, p)[r] = g[p * PAGE_BYTES + r]
    <3>1. PageCount(f) * PAGE_BYTES <= Len(g)
      BY <1>1
    <3> QED  BY <1>1, <1>4, <1>6, <3>1, PageElements
  <2> QED  BY <1>3, <1>6, <2>1, <2>2
<1>7. CASE ~(i <= Len(f))
  <2>1. ufm[p] = Erased
    BY <1>1, <1>4, <1>5, <1>7 DEF Written
  <2>2. r \in 1 .. PAGE_BYTES => Erased[r] = 0
    BY DEF Erased
  <2> QED  BY <1>3, <1>7, <2>1, <2>2
<1> QED  BY <1>6, <1>7

-----------------------------------------------------------------------------
(***************************************************************************)
(* What the steps do to the bytes under way.                               *)
(***************************************************************************)
LEMMA InboxFacts ==
  ASSUME Serial
  PROVE  /\ Inbox \in Seq(Nat) /\ Len(Inbox) \in Nat /\ Len(rx_fifo) \in Nat
         /\ ~(Resting /\ boot_at \in Reading) => Inbox = rx_fifo
         /\ Resting /\ boot_at \in Reading =>
              /\ Inbox = <<rx_byte>> \o rx_fifo
              /\ Len(Inbox) = Len(rx_fifo) + 1 /\ Inbox[1] = rx_byte
              /\ \A i \in 1 .. Len(rx_fifo) : Inbox[i + 1] = rx_fifo[i]
<1>1. rx_fifo \in Seq(Nat) /\ Len(rx_fifo) \in Nat
  BY LenProperties DEF Serial, UartTypes
<1>2. <<rx_byte>> \in Seq(Nat) /\ Len(<<rx_byte>>) = 1 /\ <<rx_byte>>[1] = rx_byte
  BY DEF Serial, UartTypes
<1>3. /\ <<rx_byte>> \o rx_fifo \in Seq(Nat) /\ Len(<<rx_byte>> \o rx_fifo) = 1 + Len(rx_fifo)
      /\ \A i \in 1 .. 1 + Len(rx_fifo) : (<<rx_byte>> \o rx_fifo)[i] =
           IF i <= 1 THEN <<rx_byte>>[i] ELSE rx_fifo[i - 1]
  BY <1>1, <1>2, ConcatProperties
<1>4. CASE Resting /\ boot_at \in Reading
  <2>1. Inbox = <<rx_byte>> \o rx_fifo
    BY <1>4 DEF Inbox
  <2>2. Inbox[1] = rx_byte /\ \A i \in 1 .. Len(rx_fifo) : Inbox[i + 1] = rx_fifo[i]
    BY <1>1, <1>2, <1>3, <2>1
  <2> QED  BY <1>1, <1>3, <1>4, <2>1, <2>2
<1>5. CASE ~(Resting /\ boot_at \in Reading)
  BY <1>1, <1>5 DEF Inbox
<1> QED  BY <1>4, <1>5

LEMMA ComingFacts ==
  ASSUME Serial
  PROVE  /\ Queued \in Seq(Nat) /\ tx_buffer \o Queued \in Seq(Nat)
         /\ Coming = (tx_buffer \o Queued) \o todo
         /\ Coming \in Seq(Nat) /\ Len(Coming) \in Nat
         /\ Len(Coming) = Len(tx_buffer) + Len(Queued) + Len(todo)
<1>1. Queued \in Seq(Nat) /\ tx_buffer \in Seq(Nat) /\ todo \in Seq(Nat)
  BY HeadTailProperties DEF Serial, UartTypes, UartPop, Queued
<1>2. tx_buffer \o Queued \in Seq(Nat) /\ Len(tx_buffer \o Queued) = Len(tx_buffer) + Len(Queued)
  BY <1>1, ConcatProperties
<1>3. Coming = (tx_buffer \o Queued) \o todo
  BY DEF Coming, Queued
<1>4. (tx_buffer \o Queued) \o todo \in Seq(Nat)
      /\ Len((tx_buffer \o Queued) \o todo) = Len(tx_buffer \o Queued) + Len(todo)
  BY <1>1, <1>2, ConcatProperties
<1> QED  BY <1>1, <1>2, <1>3, <1>4, LenProperties

\* The first and the other bytes of the inbox.
LEMMA FirstByte ==
  ASSUME NEW s \in Seq(Nat), s # <<>>
  PROVE  /\ Len(s) > 0 /\ s[1] = Head(s) /\ Head(s) \in Nat /\ Tail(s) \in Seq(Nat)
         /\ Len(Tail(s)) = Len(s) - 1 /\ Len(s) \in Nat
         /\ \A i \in 1 .. Len(s) - 1 : Tail(s)[i] = s[i + 1]
BY HeadTailProperties, EmptySeq

\* An access of the boot program: no frame ends at it, for the frames are those
\* of the host.
LEMMA BootEdge ==
  ASSUME Serial, NEW byte \in Seq(Nat), NEW ren \in BOOLEAN, UartEdge(byte, ren),
         byte = <<>> \/ (tx_ready /\ \E b \in Nat : byte = <<b>>), ren => rx_end
  PROVE  /\ rx_fifo' = (IF ren THEN Tail(rx_fifo) ELSE rx_fifo)
         /\ rx_fifo' \in Seq(Nat) /\ Len(rx_fifo') <= DEPTH
         /\ tx_fifo' \in Seq(Nat) /\ Len(tx_fifo') <= DEPTH /\ tx_fifo_ren' \in BOOLEAN
         /\ tx_buffer' = tx_buffer
         /\ Queued' = Queued \o byte /\ UartPop'
         /\ byte = <<>> /\ tx_ready => tx_ready'
<1>1. UartTypes /\ UartPop
  BY DEF Serial
<1>2. PICK frame \in Incoming : Receiver(frame, ren)
  BY DEF UartEdge
<1>3. PICK pop \in BOOLEAN : Transmitter(byte, pop)
  BY DEF UartEdge
<1>4. frame = <<>>
  BY <1>2 DEF Incoming, Serial
<1>5. rx_fifo' = (IF ren THEN Tail(rx_fifo) ELSE rx_fifo)
  <2>1. Shown(rx_fifo, frame, ren) = <<>>
    BY <1>4 DEF Shown, Meets
  <2>2. rx_fifo \in Seq(Nat) /\ (rx_fifo # <<>> => Tail(rx_fifo) \in Seq(Nat))
    BY <1>1, FirstByte DEF UartTypes
  <2>3. rx_fifo \o <<>> = rx_fifo /\ (rx_fifo # <<>> => Tail(rx_fifo) \o <<>> = Tail(rx_fifo))
    BY <2>2, ConcatEmptySeq
  <2> QED  BY <1>2, <2>1, <2>3 DEF Receiver, FIFO_SC, rx_end
<1>6. rx_fifo' \in Seq(Nat) /\ Len(rx_fifo') <= DEPTH
  <2>1. CASE ren
    <3>1. rx_fifo \in Seq(Nat) /\ rx_fifo # <<>> /\ Len(rx_fifo) <= DEPTH /\ DEPTH \in Nat
      BY <1>1, <2>1, UartAssumption DEF rx_end, UartTypes
    <3> QED  BY <1>5, <2>1, <3>1, FirstByte
  <2>2. CASE ~ren
    BY <1>1, <1>5, <2>2 DEF UartTypes
  <2> QED  BY <2>1, <2>2
<1>7. /\ tx_fifo' \in Seq(Nat) /\ Len(tx_fifo') <= DEPTH /\ tx_fifo_ren' \in BOOLEAN
      /\ tx_buffer' = tx_buffer
      /\ Queued' = Queued \o Shown(tx_fifo, byte, pop) /\ UartPop'
      /\ (program = "boot" => Shown(tx_fifo, byte, pop) = byte)
      /\ byte = <<>> /\ tx_ready => tx_ready'
  BY <1>1, <1>3, TransmitterQueue DEF UartTypes
<1>8. Queued' = Queued \o byte
  BY <1>7 DEF Serial
<1> QED  BY <1>5, <1>6, <1>7, <1>8

SameBytes == Inbox' = Inbox /\ Coming' = Coming /\ line' = line

LEMMA StatusOfBoot ==
  ASSUME Serial, Status
  PROVE  /\ UartTypes' /\ UartPop' /\ Coming' = Coming
         /\ rx_fifo' = rx_fifo /\ UNCHANGED <<uart_locals, line>>
         /\ tx_ready => tx_ready'
<1>1. UartEdge(<<>>, FALSE) /\ UNCHANGED <<uart_locals, line>>
  BY DEF Status
<1>2. <<>> \in Seq(Nat)
  BY EmptySeq
<1>3. /\ rx_fifo' = rx_fifo /\ rx_fifo' \in Seq(Nat) /\ Len(rx_fifo') <= DEPTH
      /\ tx_fifo' \in Seq(Nat) /\ Len(tx_fifo') <= DEPTH /\ tx_fifo_ren' \in BOOLEAN
      /\ tx_buffer' = tx_buffer
      /\ Queued' = Queued \o <<>> /\ UartPop'
      /\ tx_ready => tx_ready'
  BY <1>1, <1>2, BootEdge
<1>4. Queued' = Queued
  BY <1>3, ComingFacts, ConcatEmptySeq
<1>5. Coming' = Coming
  <2>1. Coming = (tx_buffer \o Queued) \o todo /\ Coming' = (tx_buffer' \o Queued') \o todo'
    BY DEF Coming, Queued
  <2> QED  BY <1>1, <1>3, <1>4, <2>1 DEF uart_locals
<1>6. UartTypes'
  BY <1>1, <1>3 DEF Serial, UartTypes, uart_locals
<1> QED  BY <1>1, <1>3, <1>5, <1>6

\* A call of the driver moves the bytes along, and no more.
LEMMA UartCallSteps ==
  ASSUME Serial, UartCall
  PROVE  Serial' /\ SameBytes
<1>1. UartTypes /\ UartPop /\ program = "boot" /\ BootCalls /\ ~Resting /\ boot_at' = boot_at
  BY DEF Serial, UartCall, boot_vars
<1>2. CASE rx_block /\ step = 1
  <2>1. At("rx_block", 1) /\ rx_end /\ Status /\ Continue
    BY <1>2 DEF rx_block, At
  <2>2. /\ UartTypes' /\ UartPop' /\ Coming' = Coming
        /\ rx_fifo' = rx_fifo /\ UNCHANGED <<uart_locals, line>>
    BY <2>1, StatusOfBoot
  <2>3. call' = "rx_block" /\ step' = 2 /\ program' = "boot" /\ call = "rx_block" /\ step = 1
    BY <1>1, <2>1 DEF Continue, Goto, At
  <2>4. Inbox' = Inbox
    BY <2>2, <2>3 DEF Inbox, Resting
  <2>5. BootCalls'
    BY <1>1, <2>1, <2>2, <2>3 DEF BootCalls, Resting, rx_end, uart_locals
  <2> QED  BY <2>2, <2>3, <2>4, <2>5 DEF Serial, SameBytes
<1>3. CASE rx_block /\ step = 2
  <2>1. At("rx_block", 2) /\ rx /\ UNCHANGED room /\ Return
    BY <1>3 DEF rx_block, At
  <2>2. rx_end /\ boot_at \in Reading /\ Len(todo) = 0
    BY <1>1, <2>1 DEF BootCalls, Resting, At
  <2>3. /\ UartEdge(<<>>, TRUE) /\ rx_byte' = Head(rx_fifo)
        /\ todo' = todo /\ line' = line /\ room' = room
    BY <2>1, <2>2 DEF rx
  <2>4. <<>> \in Seq(Nat)
    BY EmptySeq
  <2>5. /\ rx_fifo' = Tail(rx_fifo)
        /\ rx_fifo' \in Seq(Nat) /\ Len(rx_fifo') <= DEPTH
        /\ tx_fifo' \in Seq(Nat) /\ Len(tx_fifo') <= DEPTH /\ tx_fifo_ren' \in BOOLEAN
        /\ tx_buffer' = tx_buffer
        /\ Queued' = Queued \o <<>> /\ UartPop'
    BY <2>2, <2>3, <2>4, BootEdge
  <2>6. Queued' = Queued
    BY <2>5, ComingFacts, ConcatEmptySeq
  <2>7. Coming' = Coming
    <3>1. Coming = (tx_buffer \o Queued) \o todo /\ Coming' = (tx_buffer' \o Queued') \o todo'
      BY DEF Coming, Queued
    <3> QED  BY <2>3, <2>5, <2>6, <3>1
  <2>8. rx_fifo \in Seq(Nat) /\ rx_fifo # <<>>
    BY <1>1, <2>2 DEF rx_end, UartTypes
  <2>9. call' = "none" /\ step' = 0 /\ program' = "boot"
    BY <1>1, <2>1 DEF Return, Goto
  <2>10. Inbox' = Inbox
    <3>1. Inbox' = <<Head(rx_fifo)>> \o Tail(rx_fifo)
      BY <1>1, <2>2, <2>3, <2>5, <2>9 DEF Inbox, Resting
    <3>2. Inbox = rx_fifo
      BY <1>1 DEF Inbox
    <3> QED  BY <2>8, <3>1, <3>2, HeadAndTail
  <2>11. UartTypes'
    BY <1>1, <2>3, <2>5, <2>8, FirstByte DEF UartTypes
  <2>12. BootCalls'
    BY <2>2, <2>3, <2>9 DEF BootCalls, Resting
  <2> QED  BY <2>3, <2>5, <2>7, <2>9, <2>10, <2>11, <2>12 DEF Serial, SameBytes
<1>4. CASE tx_bytes_block /\ step = 1
  <2>1. At("tx_bytes_block", 1) /\ tx_ready /\ Status /\ Continue
    BY <1>4 DEF tx_bytes_block, At
  <2>2. /\ UartTypes' /\ UartPop' /\ Coming' = Coming
        /\ rx_fifo' = rx_fifo /\ UNCHANGED <<uart_locals, line>> /\ tx_ready'
    BY <2>1, StatusOfBoot
  <2>3. call' = "tx_bytes_block" /\ step' = 2 /\ program' = "boot" /\ call = "tx_bytes_block" /\ step = 1
    BY <1>1, <2>1 DEF Continue, Goto, At
  <2>4. Inbox' = Inbox
    BY <2>2, <2>3 DEF Inbox, Resting
  <2>5. BootCalls'
    BY <1>1, <2>1, <2>2, <2>3 DEF BootCalls, Resting, uart_locals
  <2> QED  BY <2>2, <2>3, <2>4, <2>5 DEF Serial, SameBytes
<1>5. CASE tx_bytes_block /\ step = 2
  <2>1. /\ At("tx_bytes_block", 2) /\ tx(Head(todo)) /\ todo' = Tail(todo)
        /\ IF Len(todo) > 1 THEN Begin(call) ELSE Return
    BY <1>5 DEF tx_bytes_block, At
  <2>2. tx_ready /\ Len(todo) = 1 /\ boot_at \in Prompting /\ todo \in Seq(Nat) /\ todo # <<>>
    <3>1. tx_ready /\ Len(todo) = 1 /\ boot_at \in Prompting /\ todo \in Seq(Nat)
      BY <1>1, <2>1 DEF BootCalls, Resting, At, UartTypes
    <3>2. todo = <<>> => Len(todo) = 0
      OBVIOUS
    <3> QED  BY <3>1, <3>2
  <2>3. call' = "none" /\ step' = 0 /\ program' = "boot"
    BY <1>1, <2>1, <2>2 DEF Return, Goto
  <2>4. UartEdge(<<Head(todo)>>, FALSE) /\ rx_byte' = rx_byte /\ line' = line
    BY <2>1 DEF tx
  <2>5. /\ Head(todo) \in Nat /\ <<Head(todo)>> \in Seq(Nat)
        /\ Tail(todo) \in Seq(Nat) /\ Len(Tail(todo)) = 0
    <3>1. Head(todo) \in Nat /\ Tail(todo) \in Seq(Nat) /\ Len(Tail(todo)) = 0
      BY <2>2, FirstByte
    <3> QED  BY <3>1
  <2>6. /\ rx_fifo' = rx_fifo
        /\ rx_fifo' \in Seq(Nat) /\ Len(rx_fifo') <= DEPTH
        /\ tx_fifo' \in Seq(Nat) /\ Len(tx_fifo') <= DEPTH /\ tx_fifo_ren' \in BOOLEAN
        /\ tx_buffer' = tx_buffer
        /\ Queued' = Queued \o <<Head(todo)>> /\ UartPop'
    BY <2>2, <2>4, <2>5, BootEdge
  <2>7. Coming' = Coming
    <3>1. Coming = (tx_buffer \o Queued) \o todo /\ Coming' = (tx_buffer' \o Queued') \o todo'
      BY DEF Coming, Queued
    <3>2. Tail(todo) = <<>> /\ todo = <<Head(todo)>>
      <4>1. Tail(todo) = <<>>
        BY <2>5, EmptySeq
      <4>2. <<Head(todo)>> \o Tail(todo) = todo
        BY <2>2, HeadAndTail
      <4>3. <<Head(todo)>> \o <<>> = <<Head(todo)>>
        BY <2>5, ConcatEmptySeq
      <4> QED  BY <4>1, <4>2, <4>3
    <3>3. PICK b, q, d \in Seq(Nat) : b = tx_buffer /\ q = Queued /\ d = todo
      BY <1>1, <2>2, ComingFacts, Zenon DEF UartTypes
    <3>4. (b \o q) \o d = b \o (q \o d)
      BY Regroup
    <3>5. b \o (q \o d) \in Seq(Nat)
      BY ConcatProperties
    <3>6. Coming' = (b \o (q \o d)) \o <<>>
      BY <2>1, <2>6, <3>1, <3>2, <3>3
    <3>7. (b \o (q \o d)) \o <<>> = b \o (q \o d)
      BY <3>5, ConcatEmptySeq
    <3> QED  BY <3>1, <3>3, <3>4, <3>6, <3>7
  <2>8. Inbox' = Inbox
    <3>1. boot_at \notin Reading
      BY <2>2 DEF Prompting, Reading
    <3> QED  BY <1>1, <2>6, <3>1 DEF Inbox
  <2>9. UartTypes'
    BY <1>1, <2>1, <2>4, <2>5, <2>6 DEF UartTypes
  <2>10. BootCalls'
    BY <2>1, <2>3, <2>5 DEF BootCalls, Resting
  <2> QED  BY <2>3, <2>4, <2>6, <2>7, <2>8, <2>9, <2>10 DEF Serial, SameBytes
<1> QED  BY <1>2, <1>3, <1>4, <1>5 DEF UartCall, rx_block, tx_bytes_block, At

\* A byte moves to the line, or nothing does.
ByteSentOn ==
  /\ Inbox' = Inbox /\ Len(Coming) > 0 /\ line' = <<Coming[1]>>
  /\ Len(Coming') = Len(Coming) - 1
  /\ \A i \in 1 .. Len(Coming) - 1 : Coming'[i] = Coming[i + 1]

LEMMA TransmitterSent ==
  ASSUME Serial, TransmitterSteps, UNCHANGED <<uart_locals, call_vars, boot_at>>
  PROVE  Serial' /\ (SameBytes \/ ByteSentOn)
<1>1. UartTypes /\ UartPop /\ program = "boot" /\ BootCalls
  BY DEF Serial
<1>2. rx_fifo' = rx_fifo /\ Inbox' = Inbox
  BY DEF TransmitterSteps, CopyFifo, PopFifo, ByteSent, call_vars, uart_locals, Inbox, Resting
<1>3. CASE CopyFifo
  <2>1. /\ tx_buffer = <<>> /\ tx_fifo # <<>> /\ ~tx_fifo_ren /\ tx_fifo \in Seq(Nat)
        /\ tx_buffer' = <<Head(tx_fifo)>> /\ tx_fifo_ren' = TRUE /\ tx_fifo' = tx_fifo
        /\ line' = line /\ todo' = todo
    BY <1>1, <1>3 DEF CopyFifo, tx_empty, uart_history, uart_locals, UartTypes
  <2>2. Head(tx_fifo) \in Nat /\ <<Head(tx_fifo)>> \o Tail(tx_fifo) = tx_fifo
    BY <2>1, FirstByte, HeadAndTail
  <2>3. <<>> \o tx_fifo = tx_fifo
    BY <2>1, ConcatEmptySeq
  <2>4. Coming' = Coming
    BY <2>1, <2>2, <2>3 DEF Coming
  <2>5. UartTypes' /\ UartPop'
    <3>1. tx_buffer' \in Seq(Nat) /\ Len(tx_buffer') <= 1
      BY <2>1, <2>2
    <3> QED  BY <1>1, <1>2, <2>1, <3>1 DEF UartTypes, UartPop, uart_locals
  <2>6. BootCalls' /\ program' = "boot"
    BY <1>1, <1>2, <2>1 DEF BootCalls, Resting, rx_end, tx_ready, call_vars
  <2> QED  BY <1>2, <2>1, <2>4, <2>5, <2>6 DEF Serial, SameBytes
<1>4. CASE PopFifo
  <2>1. tx_fifo_ren /\ Transmitter(<<>>, TRUE) /\ line' = line /\ todo' = todo
    BY <1>4 DEF PopFifo, uart_history, uart_locals
  <2>2. <<>> \in Seq(Nat)
    BY EmptySeq
  <2>3. /\ tx_fifo' \in Seq(Nat) /\ Len(tx_fifo') <= DEPTH /\ tx_fifo_ren' \in BOOLEAN
        /\ tx_buffer' = tx_buffer
        /\ Queued \in Seq(Nat) /\ Queued' = Queued \o <<>> /\ UartPop'
        /\ tx_ready => tx_ready'
    <3>1. PICK byte \in Seq(Nat), pop \in BOOLEAN : byte = <<>> /\ pop = TRUE
      BY <2>2
    <3>2. Transmitter(byte, pop) /\ (byte = <<>> \/ (tx_ready /\ \E b \in Nat : byte = <<b>>))
      BY <2>1, <3>1
    <3>3. /\ tx_fifo' \in Seq(Nat) /\ Len(tx_fifo') <= DEPTH /\ tx_fifo_ren' \in BOOLEAN
          /\ tx_buffer' = tx_buffer
          /\ Queued \in Seq(Nat) /\ Queued' = Queued \o Shown(tx_fifo, byte, pop) /\ UartPop'
          /\ (program = "boot" => Shown(tx_fifo, byte, pop) = byte)
          /\ byte = <<>> /\ tx_ready => tx_ready'
      BY <1>1, <3>2, TransmitterQueue DEF UartTypes
    <3> QED  BY <1>1, <3>1, <3>3
  <2>4. Queued' = Queued
    BY <2>3, ConcatEmptySeq
  <2>5. Coming' = Coming
    <3>1. Coming = (tx_buffer \o Queued) \o todo /\ Coming' = (tx_buffer' \o Queued') \o todo'
      BY DEF Coming, Queued
    <3> QED  BY <2>1, <2>3, <2>4, <3>1
  <2>6. UartTypes'
    BY <1>1, <1>2, <2>1, <2>3 DEF UartTypes, uart_locals
  <2>7. BootCalls' /\ program' = "boot"
    BY <1>1, <1>2, <2>1, <2>3 DEF BootCalls, Resting, rx_end, call_vars
  <2> QED  BY <1>2, <2>1, <2>3, <2>5, <2>6, <2>7 DEF Serial, SameBytes
<1>5. CASE ByteSent
  <2>1. /\ tx_buffer # <<>> /\ tx_buffer \in Seq(Nat) /\ Len(tx_buffer) <= 1 /\ ~tx_fifo_ren
        /\ tx_buffer' = <<>> /\ line' = tx_buffer
        /\ tx_fifo' = tx_fifo /\ tx_fifo_ren' = tx_fifo_ren /\ todo' = todo
    BY <1>1, <1>5 DEF ByteSent, uart_locals, UartTypes
  <2>2. PICK b \in Nat : tx_buffer = <<b>>
    <3>1. Head(tx_buffer) \in Nat /\ Tail(tx_buffer) \in Seq(Nat) /\ Len(Tail(tx_buffer)) = 0
      <4>1. /\ Len(tx_buffer) > 0 /\ Len(tx_buffer) \in Nat /\ Head(tx_buffer) \in Nat
            /\ Tail(tx_buffer) \in Seq(Nat) /\ Len(Tail(tx_buffer)) = Len(tx_buffer) - 1
        BY <2>1, FirstByte, Zenon
      <4> QED  BY <2>1, <4>1
    <3>2. Tail(tx_buffer) = <<>>
      BY <3>1, EmptySeq
    <3>3. <<Head(tx_buffer)>> \o <<>> = tx_buffer
      BY <2>1, <3>2, HeadAndTail
    <3>4. <<Head(tx_buffer)>> \in Seq(Nat)
      BY <3>1
    <3>5. <<Head(tx_buffer)>> \o <<>> = <<Head(tx_buffer)>>
      BY <3>4, ConcatEmptySeq
    <3> QED  BY <3>1, <3>3, <3>5
  <2>3. PICK q, d \in Seq(Nat) : q = Queued /\ d = todo
    BY <1>1, ComingFacts DEF UartTypes
  <2>4. Queued' = q
    BY <2>1, <2>3 DEF Queued
  <2>5. <<b>> \in Seq(Nat) /\ <<>> \in Seq(Nat) /\ Len(<<b>>) = 1 /\ <<b>>[1] = b
    BY <2>2, EmptySeq
  <2>6. Coming = <<b>> \o (q \o d) /\ Coming' = q \o d
    <3>1. Coming = (<<b>> \o q) \o d
      BY <2>2, <2>3, ComingFacts
    <3>2. Coming' = (<<>> \o q) \o d
      <4>1. Coming' = (tx_buffer' \o Queued') \o todo'
        BY DEF Coming, Queued
      <4> QED  BY <2>1, <2>3, <2>4, <4>1
    <3>3. <<>> \o q = q
      BY ConcatEmptySeq
    <3>4. (<<b>> \o q) \o d = <<b>> \o (q \o d)
      BY <2>5, Regroup, Zenon
    <3> QED  BY <3>1, <3>2, <3>3, <3>4
  <2>7. PICK c \in Seq(Nat) : c = q \o d
    BY ConcatProperties
  <2>8. Len(c) \in Nat /\ Len(<<b>> \o c) = 1 + Len(c)
        /\ \A i \in 1 .. 1 + Len(c) : (<<b>> \o c)[i] = IF i <= 1 THEN <<b>>[i] ELSE c[i - 1]
    BY <2>5, ConcatProperties, LenProperties
  <2>9. ByteSentOn
    <3>1. Len(Coming) = 1 + Len(c) /\ Coming[1] = b
      BY <2>5, <2>6, <2>7, <2>8
    <3>2. \A i \in 1 .. Len(c) : c[i] = Coming[i + 1]
      BY <2>6, <2>7, <2>8
    <3> QED  BY <1>2, <2>1, <2>2, <2>6, <2>7, <2>8, <3>1, <3>2 DEF ByteSentOn
  <2>10. UartTypes' /\ UartPop'
    <3>1. tx_buffer' \in Seq(Nat) /\ Len(tx_buffer') <= 1
      BY <2>1, EmptySeq
    <3> QED  BY <1>1, <1>2, <2>1, <3>1 DEF UartTypes, UartPop, uart_locals
  <2>11. BootCalls' /\ program' = "boot"
    BY <1>1, <1>2, <2>1 DEF BootCalls, Resting, rx_end, tx_ready, call_vars
  <2> QED  BY <2>9, <2>10, <2>11 DEF Serial
<1> QED  BY <1>3, <1>4, <1>5 DEF TransmitterSteps

\* The program, between two calls, begins a call that sends a prompt.
LEMMA PromptStep ==
  ASSUME Serial, NEW p \in Nat, NEW place \in Prompting, Resting, boot_at \notin Reading,
         Prompt(p, place)
  PROVE  /\ Serial' /\ Inbox' = Inbox /\ line' = line /\ boot_at' = place
         /\ Len(Coming') = Len(Coming) + 1 /\ Coming'[Len(Coming) + 1] = p
         /\ \A i \in 1 .. Len(Coming) : Coming'[i] = Coming[i]
<1>1. UartTypes /\ UartPop /\ program = "boot" /\ todo \in Seq(Nat) /\ Len(todo) = 0
  BY DEF Serial, BootCalls, Resting, UartTypes
<1>2. /\ boot_at' = place /\ todo' = <<p>> /\ call' = "tx_bytes_block" /\ step' = 1 /\ program' = "boot"
      /\ UNCHANGED <<rx_fifo, rx_irq, tx_fifo, tx_buffer, tx_fifo_ren, rx_byte, room, line>>
  BY <1>1 DEF Prompt, Begin, Goto, uart_device, uart_history
<1>3. <<p>> \in Seq(Nat) /\ Len(<<p>>) = 1
  OBVIOUS
<1>4. Serial'
  BY <1>1, <1>2, <1>3 DEF Serial, UartTypes, UartPop, BootCalls
<1>5. Inbox' = Inbox
  BY <1>2 DEF Inbox, Resting
<1>6. todo = <<>>
  BY <1>1, EmptySeq
<1>7. Coming = tx_buffer \o Queued /\ Coming' = (tx_buffer \o Queued) \o <<p>>
  <2>1. (tx_buffer \o Queued) \o <<>> = tx_buffer \o Queued
    BY ComingFacts, ConcatEmptySeq
  <2>2. Coming' = (tx_buffer \o Queued) \o <<p>>
    BY <1>2 DEF Coming, Queued
  <2> QED  BY <1>6, <2>1, <2>2, ComingFacts
<1>8. PICK c \in Seq(Nat) : c = Coming
  BY ComingFacts
<1>9. /\ Len(c) \in Nat /\ Len(c \o <<p>>) = Len(c) + 1
      /\ \A i \in 1 .. Len(c) + 1 : (c \o <<p>>)[i] = IF i <= Len(c) THEN c[i] ELSE <<p>>[i - Len(c)]
  BY <1>3, ConcatProperties, LenProperties
<1>10. (c \o <<p>>)[Len(c) + 1] = p
  BY <1>9
<1>11. \A i \in 1 .. Len(c) : (c \o <<p>>)[i] = c[i]
  BY <1>9
<1> QED  BY <1>2, <1>4, <1>5, <1>7, <1>8, <1>9, <1>10, <1>11

\* A byte is taken from the inbox.
TookByte(b) ==
  /\ Len(Inbox) > 0 /\ Inbox[1] = b /\ Len(Inbox') = Len(Inbox) - 1
  /\ \A i \in 1 .. Len(Inbox) - 1 : Inbox'[i] = Inbox[i + 1]
  /\ Coming' = Coming /\ line' = line

LEMMA ReceiveBegins ==
  ASSUME Serial, NEW place \in Reading, Resting, Receive1(place)
  PROVE  /\ Serial' /\ boot_at' = place
         /\ IF boot_at \in Reading THEN TookByte(rx_byte) ELSE SameBytes
<1>1. UartTypes /\ UartPop /\ program = "boot" /\ Len(todo) = 0
  BY DEF Serial, BootCalls, Resting
<1>2. /\ boot_at' = place /\ call' = "rx_block" /\ step' = 1 /\ program' = "boot"
      /\ UNCHANGED <<rx_fifo, tx_fifo, tx_buffer, tx_fifo_ren, rx_byte, todo, line>>
  BY <1>1 DEF Receive1, Begin, Goto, uart_vars, uart_device, uart_locals, uart_history
<1>3. Serial'
  BY <1>1, <1>2 DEF Serial, UartTypes, UartPop, BootCalls
<1>4. Coming' = Coming /\ Inbox' = rx_fifo /\ line' = line
  BY <1>2 DEF Coming, Inbox, Resting
<1>5. CASE boot_at \in Reading
  BY <1>2, <1>3, <1>4, <1>5, InboxFacts DEF TookByte
<1>6. CASE boot_at \notin Reading
  BY <1>2, <1>3, <1>4, <1>6, InboxFacts DEF SameBytes
<1> QED  BY <1>5, <1>6

LEMMA TookStep ==
  ASSUME Serial, NEW place \in Places \ Reading, Resting, boot_at \in Reading, Took(place)
  PROVE  Serial' /\ boot_at' = place /\ Resting' /\ TookByte(rx_byte)
<1>1. UartTypes /\ UartPop /\ program = "boot" /\ Len(todo) = 0
  BY DEF Serial, BootCalls, Resting
<1>2. /\ boot_at' = place /\ UNCHANGED <<call, step, program>> /\ rx_byte' = 0
      /\ UNCHANGED <<rx_fifo, tx_fifo, tx_buffer, tx_fifo_ren, todo, line>>
  BY <1>1 DEF Took, call_vars, uart_device, uart_history, Stale
<1>3. Serial' /\ Resting'
  BY <1>1, <1>2 DEF Serial, UartTypes, UartPop, BootCalls, Resting
<1>4. Coming' = Coming /\ Inbox' = rx_fifo /\ line' = line
  BY <1>2 DEF Coming, Inbox, Resting
<1> QED  BY <1>2, <1>3, <1>4, InboxFacts DEF TookByte

\* The program goes on without the UART.
LEMMA JumpStep ==
  ASSUME Serial, NoUart, Resting, boot_at \notin Reading, boot_at' \notin Reading
  PROVE  Serial' /\ SameBytes /\ Resting'
<1>1. UartTypes /\ UartPop /\ program = "boot" /\ Len(todo) = 0
  BY DEF Serial, BootCalls, Resting
<1>2. /\ UNCHANGED <<call, step, program>>
      /\ UNCHANGED <<rx_fifo, tx_fifo, tx_buffer, tx_fifo_ren, rx_byte, todo, line>>
  BY DEF NoUart, call_vars, uart_vars, uart_device, uart_locals, uart_history
<1>3. Serial' /\ Resting'
  BY <1>1, <1>2 DEF Serial, UartTypes, UartPop, BootCalls, Resting
<1>4. SameBytes
  BY <1>2 DEF Coming, Inbox, Resting, SameBytes
<1> QED  BY <1>3, <1>4

\* The loop that waits for a command takes the byte as soon as it comes.
LEMMA CommandByte ==
  ASSUME Serial, Resting, boot_at = "cmd", boot_at' \in {"cmd", "len"}, rx_end, rx,
         UNCHANGED <<room, call_vars>>
  PROVE  Serial' /\ Resting' /\ TookByte(rx_byte')
<1>1. UartTypes /\ UartPop /\ program = "boot" /\ Len(todo) = 0
  BY DEF Serial, BootCalls, Resting
<1>2. /\ UNCHANGED <<call, step, program>> /\ UartEdge(<<>>, TRUE) /\ rx_byte' = Head(rx_fifo)
      /\ UNCHANGED <<todo, line>>
  BY DEF rx, call_vars
<1>3. <<>> \in Seq(Nat)
  BY EmptySeq
<1>4. /\ rx_fifo' = Tail(rx_fifo)
      /\ rx_fifo' \in Seq(Nat) /\ Len(rx_fifo') <= DEPTH
      /\ tx_fifo' \in Seq(Nat) /\ Len(tx_fifo') <= DEPTH /\ tx_fifo_ren' \in BOOLEAN
      /\ tx_buffer' = tx_buffer
      /\ Queued' = Queued \o <<>> /\ UartPop'
  BY <1>2, <1>3, BootEdge
<1>5. Queued' = Queued
  BY <1>4, ComingFacts, ConcatEmptySeq
<1>6. Coming' = Coming
  <2>1. Coming = (tx_buffer \o Queued) \o todo /\ Coming' = (tx_buffer' \o Queued') \o todo'
    BY DEF Coming, Queued
  <2> QED  BY <1>2, <1>4, <1>5, <2>1
<1>7. rx_fifo \in Seq(Nat) /\ rx_fifo # <<>>
  BY <1>1 DEF rx_end, UartTypes
<1>8. /\ Len(rx_fifo) > 0 /\ rx_fifo[1] = Head(rx_fifo) /\ Head(rx_fifo) \in Nat
      /\ Len(Tail(rx_fifo)) = Len(rx_fifo) - 1
      /\ \A i \in 1 .. Len(rx_fifo) - 1 : Tail(rx_fifo)[i] = rx_fifo[i + 1]
  BY <1>7, FirstByte
<1>9. Inbox = rx_fifo /\ Inbox' = rx_fifo'
  BY DEF Inbox, Reading
<1>10. UartTypes'
  BY <1>1, <1>2, <1>4, <1>8 DEF UartTypes
<1>11. Serial' /\ Resting'
  BY <1>1, <1>2, <1>4, <1>10 DEF Serial, BootCalls, Resting
<1> QED  BY <1>2, <1>4, <1>6, <1>8, <1>9, <1>11 DEF TookByte

\* A byte of the host finds room, or is lost.
SentByte(b) ==
  /\ IF Len(rx_fifo) < DEPTH
     THEN /\ Len(Inbox') = Len(Inbox) + 1 /\ Inbox'[Len(Inbox) + 1] = b
          /\ \A i \in 1 .. Len(Inbox) : Inbox'[i] = Inbox[i]
     ELSE Inbox' = Inbox
  /\ Coming' = Coming

LEMMA HostByte ==
  ASSUME Serial, NEW b \in Nat, HostSends(b), UNCHANGED <<call_vars, boot_at>>, line' \in Seq(Nat)
  PROVE  Serial' /\ SentByte(b)
<1>1. UartTypes /\ UartPop /\ program = "boot" /\ BootCalls /\ rx_fifo \in Seq(Nat) /\ Len(rx_fifo) <= DEPTH
  BY DEF Serial, UartTypes
<1>2. /\ UNCHANGED <<tx_fifo, tx_buffer, tx_fifo_ren, rx_byte, room, todo, call, step, program, boot_at>>
      /\ rx_fifo' = FIFO_SC(rx_fifo, <<b>>, FALSE)
  BY DEF HostSends, Receiver, uart_locals, call_vars
<1>3. <<b>> \in Seq(Nat) /\ Len(<<b>>) = 1
  OBVIOUS
<1>4. ~Meets(rx_fifo, <<b>>, FALSE)
  BY DEF Meets
<1>5. /\ rx_fifo' \in Seq(Nat) /\ Len(rx_fifo') <= DEPTH
      /\ rx_fifo' = rx_fifo \o (IF Len(rx_fifo) < DEPTH THEN <<b>> ELSE <<>>)
      /\ Len(rx_fifo') = Len(rx_fifo) + (IF Len(rx_fifo) < DEPTH THEN 1 ELSE 0)
  <2>1. PICK ren \in BOOLEAN : ren = FALSE
    OBVIOUS
  <2>2. PICK in \in Seq(Nat) : in = <<b>>
    BY <1>3
  <2>3. ~Meets(rx_fifo, in, ren) /\ Len(in) = 1 /\ rx_fifo' = FIFO_SC(rx_fifo, in, ren)
    BY <1>2, <1>3, <1>4, <2>1, <2>2
  <2>6. Shown(rx_fifo, in, ren) = in
    BY <2>3 DEF Shown
  <2>4. /\ FIFO_SC(rx_fifo, in, ren) \in Seq(Nat) /\ Len(FIFO_SC(rx_fifo, in, ren)) <= DEPTH
        /\ FIFO_SC(rx_fifo, in, ren) = (IF ren /\ rx_fifo # <<>> THEN Tail(rx_fifo) ELSE rx_fifo)
                                       \o (IF Len(rx_fifo) < DEPTH THEN Shown(rx_fifo, in, ren) ELSE <<>>)
        /\ Len(FIFO_SC(rx_fifo, in, ren)) =
              Len(rx_fifo) - (IF ren /\ rx_fifo # <<>> THEN 1 ELSE 0)
                + (IF Len(rx_fifo) < DEPTH THEN Len(in) ELSE 0)
    <3>1. Len(in) <= 1
      BY <2>3
    <3> QED  BY <1>1, <2>3, <3>1, FifoEdge, Zenon
  <2>5. Len(rx_fifo) \in Nat
    BY <1>1, LenProperties
  <2>7. /\ rx_fifo' = rx_fifo \o (IF Len(rx_fifo) < DEPTH THEN in ELSE <<>>)
        /\ rx_fifo' \in Seq(Nat) /\ Len(rx_fifo') <= DEPTH
    BY <2>1, <2>3, <2>4, <2>6
  <2>8. Len(rx_fifo') = Len(rx_fifo) + (IF Len(rx_fifo) < DEPTH THEN 1 ELSE 0)
    <3>1. Len(FIFO_SC(rx_fifo, in, ren)) = Len(rx_fifo) + (IF Len(rx_fifo) < DEPTH THEN Len(in) ELSE 0)
      BY <2>1, <2>4, <2>5
    <3> QED  BY <2>3, <3>1
  <2> QED  BY <2>2, <2>7, <2>8
<1>6. rx_end => rx_end'
  <2> SUFFICES ASSUME rx_end PROVE rx_end'
    OBVIOUS
  <2>1. Len(rx_fifo) > 0 /\ Len(rx_fifo) \in Nat
    BY <1>1, FirstByte DEF rx_end
  <2>2. Len(rx_fifo') > 0
    BY <1>5, <2>1
  <2>3. rx_fifo' # <<>>
    BY <2>2
  <2> QED  BY <2>3 DEF rx_end
<1>7. UartTypes' /\ UartPop'
  BY <1>1, <1>2, <1>5 DEF UartTypes, UartPop
<1>8. BootCalls' /\ program' = "boot"
  BY <1>1, <1>2, <1>6 DEF BootCalls, Resting, tx_ready
<1>9. Coming' = Coming
  BY <1>2 DEF Coming
<1>10. PICK r, i \in Seq(Nat) : r = rx_fifo /\ i = Inbox
  BY <1>1, InboxFacts
<1>11. CASE Len(rx_fifo) < DEPTH
  <2>1. Inbox' = i \o <<b>>
    <3>1. CASE Resting /\ boot_at \in Reading
      <4>1. Inbox' = <<rx_byte>> \o (r \o <<b>>) /\ i = <<rx_byte>> \o r
        BY <1>2, <1>5, <1>10, <1>11, <3>1 DEF Inbox, Resting
      <4>2. <<rx_byte>> \in Seq(Nat)
        BY <1>1 DEF UartTypes
      <4>3. (<<rx_byte>> \o r) \o <<b>> = <<rx_byte>> \o (r \o <<b>>)
        BY <1>3, <4>2, Regroup, Zenon
      <4> QED  BY <4>1, <4>3
    <3>2. CASE ~(Resting /\ boot_at \in Reading)
      BY <1>2, <1>5, <1>10, <1>11, <3>2 DEF Inbox, Resting
    <3> QED  BY <3>1, <3>2
  <2>2. /\ Len(i) \in Nat /\ Len(i \o <<b>>) = Len(i) + 1
        /\ \A k \in 1 .. Len(i) + 1 : (i \o <<b>>)[k] = IF k <= Len(i) THEN i[k] ELSE <<b>>[k - Len(i)]
    BY <1>3, ConcatProperties, LenProperties
  <2>3. (i \o <<b>>)[Len(i) + 1] = b
    BY <2>2
  <2>4. \A k \in 1 .. Len(i) : (i \o <<b>>)[k] = i[k]
    BY <2>2
  <2> QED  BY <1>7, <1>8, <1>9, <1>10, <1>11, <2>1, <2>2, <2>3, <2>4 DEF Serial, SentByte
<1>12. CASE ~(Len(rx_fifo) < DEPTH)
  <2>1. rx_fifo' = rx_fifo
    BY <1>1, <1>5, <1>12, ConcatEmptySeq
  <2>2. Inbox' = Inbox
    BY <1>2, <2>1 DEF Inbox, Resting
  <2> QED  BY <1>7, <1>8, <1>9, <1>12, <2>2 DEF Serial, SentByte
<1> QED  BY <1>11, <1>12

LEMMA ResetSilence ==
  ASSUME Serial, ResetUart, Return, boot_at' \notin Reading
  PROVE  Serial' /\ Resting' /\ Len(Inbox') = 0 /\ Len(Coming') = 0 /\ line' = <<>>
<1>1. /\ rx_fifo' = <<>> /\ tx_fifo' = <<>> /\ tx_buffer' = <<>> /\ tx_fifo_ren' = FALSE
      /\ line' = <<>> /\ rx_byte' = 0 /\ todo' = <<>>
      /\ call' = "none" /\ step' = 0 /\ program' = "boot"
  BY DEF ResetUart, Return, Goto, Serial, Stale
<1>2. <<>> \in Seq(Nat) /\ Len(<<>>) = 0 /\ DEPTH \in Nat
  BY EmptySeq, UartAssumption
<1>3. Serial' /\ Resting'
  <2>1. UartTypes'
    <3>1. rx_fifo' \in Seq(Nat) /\ tx_fifo' \in Seq(Nat) /\ tx_buffer' \in Seq(Nat)
          /\ line' \in Seq(Nat) /\ todo' \in Seq(Nat)
      BY <1>1, <1>2
    <3>2. Len(rx_fifo') <= DEPTH /\ Len(tx_fifo') <= DEPTH /\ Len(tx_buffer') <= 1
      BY <1>1, <1>2
    <3>3. tx_fifo_ren' \in BOOLEAN /\ rx_byte' \in Nat
      BY <1>1
    <3> QED  BY <3>1, <3>2, <3>3 DEF UartTypes
  <2>2. Resting' /\ Len(todo') = 0
    BY <1>1, <1>2 DEF Resting
  <2> QED  BY <1>1, <2>1, <2>2 DEF Serial, BootCalls, UartPop
<1>4. Inbox' = <<>>
  BY <1>1 DEF Inbox
<1>5. Coming' = <<>>
  <2>1. <<>> \o <<>> = <<>>
    BY <1>2, ConcatEmptySeq
  <2> QED  BY <1>1, <2>1 DEF Coming
<1> QED  BY <1>1, <1>2, <1>3, <1>4, <1>5

-----------------------------------------------------------------------------
(***************************************************************************)
(* The conversation, step by step.                                         *)
(***************************************************************************)
talk_vars == <<boot_at, host, file, left_to_send, page_num, count, ram>>

LEMMA TalkStill == ASSUME Talk, SameBytes, UNCHANGED talk_vars PROVE Talk'
<1>1. /\ NoBytes' = NoBytes /\ Silence' = Silence /\ High' = High /\ Low' = Low
      /\ Agreed' = Agreed /\ Sending' = Sending
      /\ \A p : Only(p)' = Only(p) /\ Pending(p)' = Pending(p)
      /\ \A n, k : Sum(n, k)' = Sum(n, k) /\ Stream(n, k)' = Stream(n, k)
  BY DEF talk_vars, SameBytes, NoBytes, Silence, High, Low, Agreed, Sending, Only, Pending, Sum, Stream
<1>2. TalkQuiet' /\ TalkCmd'
  BY <1>1 DEF Talk, TalkQuiet, TalkCmd, SameBytes, talk_vars
<1>3. TalkLen'
  BY <1>1 DEF Talk, TalkLen, SameBytes, talk_vars
<1>4. TalkStart'
  BY <1>1 DEF Talk, TalkStart, SameBytes, talk_vars
<1>5. TalkSend'
  <2>1. Sum(count, 0)' = Sum(count, 0) /\ Stream(count, 0)' = Stream(count, 0)
        /\ Stream(0, 0)' = Stream(0, 0)
    BY <1>1 DEF talk_vars
  <2> QED  BY <1>1, <2>1 DEF Talk, TalkSend, SameBytes, talk_vars
<1> QED  BY <1>2, <1>3, <1>4, <1>5 DEF Talk, talk_vars

LEMMA PromptSent ==
  ASSUME Serial, ByteSentOn, NEW p
  PROVE  (Only(p) => Only(p)') /\ (Pending(p) => Pending(p)') /\ ~Silence
<1>1. Len(Coming) \in Nat /\ Len(Coming') = Len(Coming) - 1 /\ Len(Coming) > 0
  BY ComingFacts DEF ByteSentOn
<1>2. Only(p) => Only(p)'
  BY <1>1 DEF Only, ByteSentOn
<1>3. Pending(p) => Pending(p)'
  <2> SUFFICES ASSUME Pending(p) PROVE Pending(p)'
    OBVIOUS
  <2>1. Coming[Len(Coming)] = p /\ \A i \in 1 .. Len(Coming) - 1 : Coming[i] = CMD
    BY <1>1 DEF Pending
  <2>2. CASE Len(Coming) = 1
    BY <1>1, <2>1, <2>2 DEF Pending, ByteSentOn
  <2>3. CASE Len(Coming) > 1
    <3>1. line' = <<CMD>>
      BY <1>1, <2>1, <2>3 DEF ByteSentOn
    <3>2. Coming'[Len(Coming')] = p
      BY <1>1, <2>1, <2>3 DEF ByteSentOn
    <3>3. \A i \in 1 .. Len(Coming') - 1 : Coming'[i] = CMD
      BY <1>1, <2>1, <2>3 DEF ByteSentOn
    <3> QED  BY <1>1, <2>3, <3>1, <3>2, <3>3 DEF Pending
  <2> QED  BY <1>1, <2>2, <2>3
<1>4. ~Silence
  BY <1>1 DEF Silence
<1> QED  BY <1>2, <1>3, <1>4

\* A prompt on its way to the line changes nothing of what it says.
LEMMA TalkSent == ASSUME Serial, Talk, ByteSentOn, UNCHANGED talk_vars PROVE Talk'
<1>1. /\ NoBytes' = NoBytes /\ ~Silence /\ High' = High /\ Low' = Low
      /\ Agreed' = Agreed /\ ~Sending /\ Inbox' = Inbox
      /\ \A p : (Only(p) => Only(p)') /\ (Pending(p) => Pending(p)')
  BY PromptSent DEF talk_vars, ByteSentOn, NoBytes, High, Low, Agreed, Sending
<1>2. TalkQuiet' /\ TalkCmd'
  BY <1>1 DEF Talk, TalkQuiet, TalkCmd, talk_vars
<1>3. TalkLen'
  BY <1>1 DEF Talk, TalkLen, talk_vars
<1>4. TalkStart'
  BY <1>1 DEF Talk, TalkStart, talk_vars
<1>5. TalkSend'
  BY <1>1 DEF Talk, TalkSend, talk_vars
<1> QED  BY <1>2, <1>3, <1>4, <1>5 DEF Talk, talk_vars

\* Nobody talks while the program is not in the loop of download.
LEMMA TalkQuietly ==
  ASSUME Talk, boot_at \in Alone, boot_at' \in Alone, SameBytes, host' = host,
         boot_at' \in {"main", "enabled"} => boot_at \in {"main", "enabled"}
  PROVE  Talk'
<1>1. host' = "cmd" /\ NoBytes' /\ Only(ERR)' /\ (boot_at' \in {"main", "enabled"} => Silence')
  BY DEF Talk, TalkQuiet, SameBytes, NoBytes, Only, Silence
<1>2. /\ boot_at' \notin {"cmd", "len", "len_hi", "len_lo", "len_check", "start", "start_key", "start_check"}
      /\ boot_at' \notin {"erase", "erasing", "receive", "store", "program", "programming",
                         "confirm", "confirm_check"}
  BY DEF Alone, Loading
<1> QED  BY <1>1, <1>2 DEF Talk, TalkQuiet, TalkCmd, TalkLen, TalkStart, TalkSend

LEMMA OnlyPrompted ==
  ASSUME Serial, NEW p, Only(p), line' = line,
         Len(Coming') = Len(Coming) + 1, Coming'[Len(Coming) + 1] = p,
         \A i \in 1 .. Len(Coming) : Coming'[i] = Coming[i]
  PROVE  Only(p)'
<1>1. Len(Coming) \in Nat
  BY ComingFacts
<1>2. \A i \in 1 .. Len(Coming') : Coming'[i] = p
  BY <1>1 DEF Only
<1> QED  BY <1>2 DEF Only

LEMMA OtherPrompted ==
  ASSUME Serial, NEW p, Only(CMD), line' = line,
         Len(Coming') = Len(Coming) + 1, Coming'[Len(Coming) + 1] = p,
         \A i \in 1 .. Len(Coming) : Coming'[i] = Coming[i]
  PROVE  Pending(p)'
BY ComingFacts DEF Only, Pending

\* Where only one part of Talk speaks of the place.
LEMMA TalkAtQuiet ==
  ASSUME boot_at' \in Alone, host' = "cmd", NoBytes', Only(ERR)', boot_at' \in {"main", "enabled"} => Silence'
  PROVE  Talk'
<1>1. /\ boot_at' \notin {"cmd", "len", "len_hi", "len_lo", "len_check", "start", "start_key", "start_check"}
      /\ boot_at' \notin {"erase", "erasing", "receive", "store", "program", "programming",
                         "confirm", "confirm_check"}
  BY DEF Alone, Loading
<1> QED  BY <1>1 DEF Talk, TalkQuiet, TalkCmd, TalkLen, TalkStart, TalkSend

LEMMA TalkAtCmd ==
  ASSUME boot_at' \in {"cmd", "len"}, host' # "cmd" => file' \in Files, TalkCmd' PROVE Talk'
<1>1. boot_at' \notin Alone
  BY DEF Alone, Loading
<1> QED  BY <1>1 DEF Talk, TalkQuiet, TalkLen, TalkStart, TalkSend

LEMMA TalkAtLen ==
  ASSUME boot_at' \in {"len_hi", "len_lo", "len_check"}, host' # "cmd" => file' \in Files, TalkLen' PROVE Talk'
<1>1. boot_at' \notin Alone
  BY DEF Alone, Loading
<1> QED  BY <1>1 DEF Talk, TalkQuiet, TalkCmd, TalkStart, TalkSend

LEMMA TalkAtStart ==
  ASSUME boot_at' \in {"start", "start_key", "start_check"}, host' # "cmd" => file' \in Files, TalkStart'
  PROVE  Talk'
<1>1. boot_at' \notin Alone
  BY DEF Alone, Loading
<1> QED  BY <1>1 DEF Talk, TalkQuiet, TalkCmd, TalkLen, TalkSend

LEMMA TalkAtSend ==
  ASSUME boot_at' \in {"erase", "erasing", "receive", "store", "program", "programming",
                      "confirm", "confirm_check"},
         host' # "cmd" => file' \in Files, TalkSend'
  PROVE  Talk'
<1>1. boot_at' \notin Alone
  BY DEF Alone, Loading
<1> QED  BY <1>1 DEF Talk, TalkQuiet, TalkCmd, TalkLen, TalkStart

LEMMA SilenceIsOnly ==
  ASSUME Serial, NEW p, Silence, SameBytes PROVE Silence' /\ Only(p)'
<1>1. Silence'
  BY DEF Silence, SameBytes
<1>2. Only(p)'
  BY DEF Only, Silence, SameBytes
<1> QED  BY <1>1, <1>2

LEMMA TalkMain == ASSUME Serial, Talk, main PROVE Serial' /\ Talk'
<1>1. host' = host /\ file' = file
  BY DEF main, Silent, host_vars
<1>2. CASE AtBoot("main") /\ Jump("enabled")
  <2>1. Resting /\ NoUart /\ boot_at = "main" /\ boot_at' = "enabled"
    BY <1>2 DEF AtBoot, Jump
  <2>2. Serial' /\ SameBytes
    BY <2>1, JumpStep DEF Reading
  <2> QED  BY <1>1, <2>1, <2>2, TalkQuietly DEF Alone
<1>3. CASE AtBoot("enabled") /\ Jump("boot")
  <2>1. Resting /\ NoUart /\ boot_at = "enabled" /\ boot_at' = "boot"
    BY <1>3 DEF AtBoot, Jump
  <2>2. Serial' /\ SameBytes
    BY <2>1, JumpStep DEF Reading
  <2> QED  BY <1>1, <2>1, <2>2, TalkQuietly DEF Alone
<1>4. CASE AtBoot("enabled") /\ Jump("cmd")
  <2>1. Resting /\ NoUart /\ boot_at = "enabled" /\ boot_at' = "cmd"
    BY <1>4 DEF AtBoot, Jump
  <2>2. Serial' /\ SameBytes
    BY <2>1, JumpStep DEF Reading
  <2>3. host = "cmd" /\ NoBytes /\ Silence
    BY <2>1 DEF Talk, TalkQuiet, Alone
  <2>4. host' = "cmd" /\ NoBytes' /\ Only(CMD)'
    BY <1>1, <2>2, <2>3, SilenceIsOnly DEF NoBytes, SameBytes
  <2>5. TalkCmd'
    BY <2>1, <2>4 DEF TalkCmd
  <2> QED  BY <2>1, <2>2, <2>4, <2>5, TalkAtCmd
<1> QED  BY <1>2, <1>3, <1>4 DEF main

LEMMA TalkBoot == ASSUME Serial, Talk, boot PROVE Serial' /\ Talk'
<1>1. host' = host /\ file' = file
  BY DEF boot, host_vars
<1>2. CASE AtBoot("err") /\ Prompt(ERR, "err")
  <2>1. Resting /\ boot_at = "err" /\ boot_at \notin Reading /\ "err" \in Prompting
    BY <1>2 DEF AtBoot, Reading, Prompting
  <2>2. /\ Serial' /\ Inbox' = Inbox /\ line' = line /\ boot_at' = "err"
        /\ Len(Coming') = Len(Coming) + 1 /\ Coming'[Len(Coming) + 1] = ERR
        /\ \A i \in 1 .. Len(Coming) : Coming'[i] = Coming[i]
    BY <1>2, <2>1, PromptStep DEF ERR
  <2>3. host = "cmd" /\ NoBytes /\ Only(ERR)
    BY <2>1 DEF Talk, TalkQuiet, Alone
  <2>4. Only(ERR)'
    BY <2>2, <2>3, OnlyPrompted
  <2>5. host' = "cmd" /\ NoBytes' /\ boot_at' \in Alone /\ boot_at' \notin {"main", "enabled"}
    BY <1>1, <2>2, <2>3 DEF NoBytes, Alone
  <2> QED  BY <2>2, <2>4, <2>5, TalkAtQuiet
<1>3. CASE ~(AtBoot("err") /\ Prompt(ERR, "err"))
  <2>1. /\ Resting /\ NoUart /\ boot_at \in {"boot", "load", "check"}
        /\ boot_at' \in {"load", "check", "err", "user"}
    BY <1>3 DEF boot, AtBoot, Jump
  <2>2. Serial' /\ SameBytes
    BY <2>1, JumpStep DEF Reading
  <2> QED  BY <1>1, <2>1, <2>2, TalkQuietly DEF Alone
<1> QED  BY <1>2, <1>3

LEMMA TalkDebugger == ASSUME Serial, Talk, Debugger PROVE Serial' /\ Talk'
<1>1. /\ Resting /\ NoUart /\ host' = host
      /\ boot_at \in {"user", "err", "load_init", "load_erase", "load_wait", "load_addr", "load_page"}
      /\ boot_at' \in {"load_init", "load_erase", "load_wait", "load_addr", "load_page", "loaded"}
  BY DEF Debugger, StartLoader, Loader, LoaderStep, AtBoot
<1>2. Serial' /\ SameBytes
  BY <1>1, JumpStep DEF Reading
<1> QED  BY <1>1, <1>2, TalkQuietly DEF Alone, Loading

\* A byte taken from an inbox, seen from Talk.
LEMMA TookFromInbox ==
  ASSUME Serial, NEW b, TookByte(b)
  PROVE  /\ Len(Inbox) \in Nat /\ Len(Inbox) > 0 /\ Inbox[1] = b /\ ~NoBytes
         /\ Len(Inbox) = 1 => NoBytes'
         /\ Len(Inbox) = 2 => Len(Inbox') = 1 /\ Inbox'[1] = Inbox[2]
         /\ Silence' = Silence /\ \A p : Only(p)' = Only(p) /\ Pending(p)' = Pending(p)
<1>1. Len(Inbox) \in Nat
  BY InboxFacts
<1>2. Silence' = Silence /\ \A p : Only(p)' = Only(p) /\ Pending(p)' = Pending(p)
  BY DEF TookByte, Silence, Only, Pending
<1>3. Len(Inbox) > 0 /\ Inbox[1] = b /\ ~NoBytes /\ (Len(Inbox) = 1 => NoBytes')
  BY <1>1 DEF TookByte, NoBytes
<1>4. Len(Inbox) = 2 => Len(Inbox') = 1 /\ Inbox'[1] = Inbox[2]
  BY <1>1 DEF TookByte
<1> QED  BY <1>1, <1>2, <1>3, <1>4

LEMMA TalkCommand == ASSUME Serial, Talk, AwaitCommand PROVE Serial' /\ Talk'
<1>1. Resting /\ boot_at = "cmd" /\ UNCHANGED <<host, file>> /\ boot_at \notin Reading
  BY DEF AwaitCommand, AtBoot, Silent, host_vars, Reading
<1>2. /\ Only(CMD) /\ (host # "cmd" => file \in Files)
      /\ \/ host = "cmd" /\ NoBytes
         \/ host = "len" /\ Len(Inbox) = 1 /\ Inbox[1] = 86
  BY <1>1 DEF Talk, TalkCmd
<1>3. CASE Prompt(CMD, "cmd")
  <2>1. /\ Serial' /\ Inbox' = Inbox /\ line' = line /\ boot_at' = "cmd"
        /\ Len(Coming') = Len(Coming) + 1 /\ Coming'[Len(Coming) + 1] = CMD
        /\ \A i \in 1 .. Len(Coming) : Coming'[i] = Coming[i]
    BY <1>1, <1>3, PromptStep DEF CMD, Prompting
  <2>2. Only(CMD)'
    BY <1>2, <2>1, OnlyPrompted
  <2>3. TalkCmd'
    BY <1>1, <1>2, <2>1, <2>2 DEF TalkCmd, NoBytes
  <2> QED  BY <1>1, <1>2, <2>1, <2>3, TalkAtCmd
<1>4. CASE rx_end /\ rx /\ UNCHANGED <<room, call_vars>> /\ boot_at' = IF rx_byte' = 86 THEN "len" ELSE "cmd"
  <2>1. Serial' /\ TookByte(rx_byte')
    BY <1>1, <1>4, CommandByte
  <2>2. /\ Inbox[1] = rx_byte' /\ ~NoBytes /\ (Len(Inbox) = 1 => NoBytes') /\ Only(CMD)' = Only(CMD)
    BY <2>1, TookFromInbox
  <2>3. boot_at' = "len" /\ NoBytes' /\ host' = "len" /\ Only(CMD)'
    BY <1>1, <1>2, <1>4, <2>2
  <2>4. TalkCmd'
    BY <2>3 DEF TalkCmd
  <2> QED  BY <1>1, <1>2, <2>1, <2>3, <2>4, TalkAtCmd
<1> QED  BY <1>3, <1>4 DEF AwaitCommand

LEMMA PageCountBytes ==
  ASSUME NEW f \in Files
  PROVE  (PageCount(f) \div 256) * 256 + (PageCount(f) % 256) = PageCount(f)
<1>1. PageCount(f) \in Nat
  BY FilePages, BootConstants
<1> QED  BY <1>1

LEMMA TalkLength == ASSUME Serial, BootTypes, Talk, AwaitLength PROVE Serial' /\ Talk'
<1>1. Resting /\ UNCHANGED <<host, file>> /\ (host # "cmd" => file \in Files)
  BY DEF AwaitLength, AtBoot, Silent, host_vars, Talk
<1>2. CASE boot_at = "len"
  <2>1. Prompt(LEN, "len_hi") /\ boot_at \notin Reading /\ "len_hi" \in Prompting
    BY <1>2 DEF AwaitLength, AtBoot, Reading, Prompting
  <2>2. /\ Serial' /\ Inbox' = Inbox /\ line' = line /\ boot_at' = "len_hi"
        /\ Len(Coming') = Len(Coming) + 1 /\ Coming'[Len(Coming) + 1] = LEN
        /\ \A i \in 1 .. Len(Coming) : Coming'[i] = Coming[i]
    BY <1>1, <2>1, PromptStep DEF LEN
  <2>3. Only(CMD) /\ host = "len" /\ NoBytes
    BY <1>2 DEF Talk, TalkCmd
  <2>4. Pending(LEN)' /\ NoBytes' /\ host' = "len"
    BY <1>1, <2>2, <2>3, OtherPrompted DEF NoBytes
  <2>5. TalkLen'
    BY <2>2, <2>4 DEF TalkLen
  <2> QED  BY <1>1, <2>2, <2>5, TalkAtLen
<1>3. CASE boot_at = "len_hi"
  <2>1. Receive1("len_lo") /\ "len_lo" \in Reading /\ boot_at \notin Reading
    BY <1>3 DEF AwaitLength, AtBoot, Reading
  <2>2. Serial' /\ boot_at' = "len_lo" /\ SameBytes
    BY <1>1, <2>1, ReceiveBegins
  <2>3. /\ NoBytes' = NoBytes /\ Silence' = Silence /\ Pending(LEN)' = Pending(LEN)
        /\ High' = High /\ Low' = Low
    BY <1>1, <2>2 DEF SameBytes, NoBytes, Silence, Pending, High, Low
  <2>4. TalkLen'
    BY <1>1, <1>3, <2>2, <2>3 DEF Talk, TalkLen, SameBytes
  <2> QED  BY <1>1, <2>2, <2>4, TalkAtLen
<1>4. CASE boot_at = "len_lo"
  <2>1. Receive1("len_check") /\ "len_check" \in Reading /\ boot_at \in Reading /\ page_num' = rx_byte * 256
    BY <1>4 DEF AwaitLength, AtBoot, Reading
  <2>2. Serial' /\ boot_at' = "len_check" /\ TookByte(rx_byte)
    BY <1>1, <2>1, ReceiveBegins
  <2>3. /\ Inbox[1] = rx_byte /\ ~NoBytes
        /\ Len(Inbox) = 1 => NoBytes'
        /\ Len(Inbox) = 2 => Len(Inbox') = 1 /\ Inbox'[1] = Inbox[2]
        /\ Silence' = Silence
    BY <2>2, TookFromInbox
  <2>4. High' = High /\ Low' = Low
    BY <1>1 DEF High, Low
  <2>5. \/ host = "len_lo" /\ Len(Inbox) = 1 /\ Inbox[1] = High /\ Silence
        \/ host = "start" /\ Len(Inbox) = 2 /\ Inbox[1] = High /\ Inbox[2] = Low /\ Silence
        \/ host = "len" /\ Len(Inbox) = 2 /\ Silence
    BY <1>4, <2>3 DEF Talk, TalkLen
  <2>6. TalkLen'
    BY <1>1, <2>1, <2>2, <2>3, <2>4, <2>5 DEF TalkLen
  <2> QED  BY <1>1, <2>2, <2>6, TalkAtLen
<1>5. CASE boot_at = "len_check"
  <2>1. /\ page_num' = page_num + rx_byte /\ boot_at \in Reading
        /\ Took(IF page_num' > MAX_PAGES \/ page_num' = 0 THEN "len" ELSE "start")
    BY <1>5 DEF AwaitLength, AtBoot, Reading
  <2>2. PICK place \in {"len", "start"} :
          place = (IF page_num' > MAX_PAGES \/ page_num' = 0 THEN "len" ELSE "start")
    OBVIOUS
  <2>3. Took(place) /\ place \in Places \ Reading
    BY <2>1, <2>2 DEF Places, Reading
  <2>4. Serial' /\ boot_at' = place /\ TookByte(rx_byte)
    BY <1>1, <2>1, <2>3, TookStep
  <2>5. Inbox[1] = rx_byte /\ ~NoBytes /\ (Len(Inbox) = 1 => NoBytes') /\ Silence' = Silence
    BY <2>4, TookFromInbox
  <2>6. /\ Silence /\ Len(Inbox) = 1
        /\ \/ host = "start" /\ rx_byte = Low /\ page_num = High * 256
           \/ host = "len"
    BY <1>5, <2>5 DEF Talk, TalkLen
  <2>7. host = "start" => page_num' = PageCount(file) /\ place = "start"
    <3> SUFFICES ASSUME host = "start" PROVE page_num' = PageCount(file) /\ place = "start"
      OBVIOUS
    <3>1. file \in Files
      BY <1>1
    <3>2. PageCount(file) \in 1 .. RAM_PAGES
      BY <3>1, FilePages
    <3>3. page_num' = High * 256 + Low
      BY <2>1, <2>6
    <3>4. page_num' = PageCount(file)
      BY <3>1, <3>3, PageCountBytes DEF High, Low
    <3> QED  BY <2>2, <3>2, <3>4, BootConstants
  <2>8. NoBytes' /\ Silence' /\ Only(CMD)'
    <3>1. Only(CMD)'
      BY <2>5, <2>6, <2>4 DEF Silence, Only, TookByte
    <3> QED  BY <2>5, <2>6, <3>1
  <2>9. CASE place = "len"
    <3>1. TalkCmd'
      BY <1>1, <2>4, <2>6, <2>7, <2>8, <2>9 DEF TalkCmd
    <3> QED  BY <1>1, <2>4, <2>9, <3>1, TalkAtCmd
  <2>10. CASE place = "start"
    <3>1. Agreed'
      BY <1>1, <2>6, <2>7 DEF Agreed
    <3>2. TalkStart'
      BY <2>4, <2>8, <2>10, <3>1 DEF TalkStart
    <3> QED  BY <1>1, <2>4, <2>10, <3>2, TalkAtStart
  <2> QED  BY <2>9, <2>10
<1> QED  BY <1>2, <1>3, <1>4, <1>5 DEF AwaitLength, AtBoot

\* The bytes of the file, when one of them is taken or sent.
LEMMA StreamTypes ==
  ASSUME Serial, BootTypes
  PROVE  /\ Len(Inbox) \in Nat /\ Len(left_to_send) \in Nat /\ Len(file) \in Nat
         /\ count \in Nat /\ page_num \in Nat
<1>1. file \in {<<>>} \cup Files
  BY DEF BootTypes
<1>2. Len(file) \in Nat
  <2>1. CASE file = <<>>
    BY <2>1
  <2>2. CASE file \in Files
    BY <2>2, FilePages
  <2> QED  BY <1>1, <2>1, <2>2
<1> QED  BY <1>2, InboxFacts, LenProperties DEF BootTypes

LEMMA StreamTook ==
  ASSUME Serial, BootTypes, NEW b, TookByte(b), UNCHANGED <<file, left_to_send>>, NEW n \in Nat
  PROVE  /\ Stream(n, 1) => Stream(n, 0)'
         /\ Stream(n, 0) => Stream(n + 1, 0)'
         /\ Sum(n + 1, 0)' = Sum(n, 0) /\ Sum(n, 0)' = Sum(n, 1)
         /\ Stream(n, 0) /\ Sum(n, 0) = Len(file) => b = file[n + 1]
<1>1. Len(Inbox) \in Nat /\ Len(left_to_send) \in Nat /\ Len(file) \in Nat
  BY StreamTypes
<1>2. Len(Inbox) > 0 /\ Inbox[1] = b /\ Len(Inbox') = Len(Inbox) - 1
      /\ \A i \in 1 .. Len(Inbox) - 1 : Inbox'[i] = Inbox[i + 1]
  BY DEF TookByte
<1>3. Sum(n + 1, 0)' = Sum(n, 0) /\ Sum(n, 0)' = Sum(n, 1)
  BY <1>1, <1>2 DEF Sum
<1>4. Stream(n, 1) => Stream(n, 0)'
  <2>1. CASE Sum(n, 1) < Len(file)
    BY <1>3, <2>1 DEF Stream
  <2>2. CASE /\ Sum(n, 1) = Len(file)
             /\ \A i \in 1 .. Len(Inbox) - 1 : Inbox[1 + i] = file[n + i]
             /\ \A i \in 1 .. Len(left_to_send) : left_to_send[i] = file[n + Len(Inbox) - 1 + i]
    <3>1. \A i \in 1 .. Len(Inbox') - 0 : Inbox'[0 + i] = file'[n + i]
      BY <1>1, <1>2, <2>2
    <3>2. \A i \in 1 .. Len(left_to_send') : left_to_send'[i] = file'[n + Len(Inbox') - 0 + i]
      BY <1>1, <1>2, <2>2
    <3> QED  BY <1>3, <2>2, <3>1, <3>2 DEF Stream
  <2> QED  BY <2>1, <2>2 DEF Stream
<1>5. Stream(n, 0) => Stream(n + 1, 0)' /\ (Sum(n, 0) = Len(file) => b = file[n + 1])
  <2>1. CASE Sum(n, 0) < Len(file)
    BY <1>1, <1>3, <2>1 DEF Stream, Sum
  <2>2. CASE /\ Sum(n, 0) = Len(file)
             /\ \A i \in 1 .. Len(Inbox) - 0 : Inbox[0 + i] = file[n + i]
             /\ \A i \in 1 .. Len(left_to_send) : left_to_send[i] = file[n + Len(Inbox) - 0 + i]
    <3>1. \A i \in 1 .. Len(Inbox') - 0 : Inbox'[0 + i] = file'[(n + 1) + i]
      <4> SUFFICES ASSUME NEW i \in 1 .. Len(Inbox) - 1 PROVE Inbox'[i] = file[(n + 1) + i]
        BY <1>1, <1>2
      <4>1. Inbox'[i] = Inbox[i + 1] /\ i + 1 \in 1 .. Len(Inbox) - 0
        BY <1>1, <1>2
      <4>2. Inbox[0 + (i + 1)] = file[n + (i + 1)]
        BY <2>2, <4>1
      <4> QED  BY <4>1, <4>2
    <3>2. \A i \in 1 .. Len(left_to_send') : left_to_send'[i] = file'[(n + 1) + Len(Inbox') - 0 + i]
      BY <1>1, <1>2, <2>2
    <3>3. b = file[n + 1]
      BY <1>1, <1>2, <2>2
    <3> QED  BY <1>3, <2>2, <3>1, <3>2, <3>3 DEF Stream
  <2> QED  BY <2>1, <2>2 DEF Stream
<1> QED  BY <1>3, <1>4, <1>5

LEMMA StreamSent ==
  ASSUME Serial, BootTypes, Len(left_to_send) > 0, SentByte(Head(left_to_send)),
         left_to_send' = Tail(left_to_send), file' = file,
         NEW n \in Nat, NEW k \in Nat, k <= Len(Inbox), Stream(n, k)
  PROVE  Stream(n, k)' /\ (Sum(n, k)' = Len(file') => Sum(n, k) = Len(file))
<1>1. Len(Inbox) \in Nat /\ Len(left_to_send) \in Nat /\ Len(file) \in Nat
  BY StreamTypes
<1>2. /\ left_to_send \in Seq(Nat) /\ left_to_send # <<>>
      /\ left_to_send[1] = Head(left_to_send) /\ Len(left_to_send') = Len(left_to_send) - 1
      /\ \A i \in 1 .. Len(left_to_send) - 1 : left_to_send'[i] = left_to_send[i + 1]
  <2>1. left_to_send \in Seq(Nat)
    BY DEF BootTypes
  <2>2. left_to_send # <<>>
    BY <1>1
  <2> QED  BY <2>1, <2>2, FirstByte
<1>3. CASE ~(Len(rx_fifo) < DEPTH)
  <2>1. Inbox' = Inbox
    BY <1>3 DEF SentByte
  <2>2. Sum(n, k)' = Sum(n, k) - 1 /\ Sum(n, k) \in Nat
    BY <1>1, <1>2, <2>1 DEF Sum
  <2>3. Sum(n, k) <= Len(file)
    BY <1>1, <2>2 DEF Stream
  <2>4. Sum(n, k)' < Len(file)
    BY <1>1, <2>2, <2>3
  <2> QED  BY <1>1, <2>2, <2>4 DEF Stream
<1>4. CASE Len(rx_fifo) < DEPTH
  <2>1. /\ Len(Inbox') = Len(Inbox) + 1 /\ Inbox'[Len(Inbox) + 1] = left_to_send[1]
        /\ \A i \in 1 .. Len(Inbox) : Inbox'[i] = Inbox[i]
    BY <1>2, <1>4 DEF SentByte
  <2>2. Sum(n, k)' = Sum(n, k)
    BY <1>1, <1>2, <2>1 DEF Sum
  <2>3. CASE Sum(n, k) < Len(file)
    BY <2>2, <2>3 DEF Stream
  <2>4. CASE /\ Sum(n, k) = Len(file)
             /\ \A i \in 1 .. Len(Inbox) - k : Inbox[k + i] = file[n + i]
             /\ \A i \in 1 .. Len(left_to_send) : left_to_send[i] = file[n + Len(Inbox) - k + i]
    <3>1. \A i \in 1 .. Len(Inbox') - k : Inbox'[k + i] = file'[n + i]
      <4> SUFFICES ASSUME NEW i \in 1 .. (Len(Inbox) + 1) - k PROVE Inbox'[k + i] = file[n + i]
        BY <2>1
      <4>1. CASE i \in 1 .. Len(Inbox) - k
        <5>1. k + i \in 1 .. Len(Inbox)
          BY <1>1, <4>1
        <5> QED  BY <2>1, <2>4, <4>1, <5>1
      <4>2. CASE i = (Len(Inbox) + 1) - k
        <5>1. k + i = Len(Inbox) + 1 /\ n + i = n + Len(Inbox) - k + 1 /\ 1 \in 1 .. Len(left_to_send)
          BY <1>1, <1>2, <4>2
        <5> QED  BY <2>1, <2>4, <5>1
      <4> QED  BY <1>1, <4>1, <4>2
    <3>2. \A i \in 1 .. Len(left_to_send') : left_to_send'[i] = file'[n + Len(Inbox') - k + i]
      <4> SUFFICES ASSUME NEW i \in 1 .. Len(left_to_send) - 1
                   PROVE  left_to_send'[i] = file[n + (Len(Inbox) + 1) - k + i]
        BY <1>2, <2>1
      <4>1. left_to_send'[i] = left_to_send[i + 1] /\ i + 1 \in 1 .. Len(left_to_send)
        BY <1>1, <1>2
      <4>2. n + Len(Inbox) - k + (i + 1) = n + (Len(Inbox) + 1) - k + i
        BY <1>1
      <4> QED  BY <2>4, <4>1, <4>2
    <3> QED  BY <2>2, <2>4, <3>1, <3>2 DEF Stream
  <2>5. Stream(n, k)'
    BY <2>3, <2>4 DEF Stream
  <2> QED  BY <2>2, <2>5
<1> QED  BY <1>3, <1>4

LEMMA StreamStill ==
  ASSUME SameBytes, UNCHANGED <<file, left_to_send>>, NEW n, NEW k
  PROVE  Stream(n, k)' = Stream(n, k) /\ Sum(n, k)' = Sum(n, k)
BY DEF SameBytes, Stream, Sum

LEMMA TalkStarting == ASSUME Serial, BootTypes, Talk, AwaitStart PROVE Serial' /\ Talk'
<1>1. /\ Resting /\ UNCHANGED <<host, file, left_to_send, page_num>> /\ (host # "cmd" => file \in Files)
  BY DEF AwaitStart, AtBoot, Silent, host_vars, Talk, firmware, Prompt
<1>2. CASE boot_at = "start"
  <2>1. Prompt(START_DOWNLOAD, "start_key") /\ boot_at \notin Reading /\ "start_key" \in Prompting
    BY <1>2 DEF AwaitStart, AtBoot, Reading, Prompting
  <2>2. /\ Serial' /\ Inbox' = Inbox /\ line' = line /\ boot_at' = "start_key"
        /\ Len(Coming') = Len(Coming) + 1 /\ Coming'[Len(Coming) + 1] = START_DOWNLOAD
        /\ \A i \in 1 .. Len(Coming) : Coming'[i] = Coming[i]
    BY <1>1, <2>1, PromptStep DEF START_DOWNLOAD
  <2>3. Silence /\ NoBytes /\ Agreed
    BY <1>2 DEF Talk, TalkStart
  <2>4. Only(CMD)
    BY <2>3 DEF Silence, Only
  <2>5. Pending(START_DOWNLOAD)' /\ NoBytes' /\ Agreed'
    BY <1>1, <2>2, <2>3, <2>4, OtherPrompted DEF NoBytes, Agreed
  <2>6. TalkStart'
    BY <2>2, <2>5 DEF TalkStart
  <2> QED  BY <1>1, <2>2, <2>6, TalkAtStart
<1>3. CASE boot_at = "start_key"
  <2>1. Receive1("start_check") /\ "start_check" \in Reading /\ boot_at \notin Reading
    BY <1>3 DEF AwaitStart, AtBoot, Reading
  <2>2. Serial' /\ boot_at' = "start_check" /\ SameBytes
    BY <1>1, <2>1, ReceiveBegins
  <2>3. /\ NoBytes' = NoBytes /\ Pending(START_DOWNLOAD)' = Pending(START_DOWNLOAD)
        /\ Agreed' = Agreed /\ Sending' = Sending /\ Stream(0, 1)' = Stream(0, 1)
    BY <1>1, <2>2, StreamStill DEF SameBytes, NoBytes, Silence, Pending, Agreed, Sending
  <2>4. TalkStart'
    BY <1>3, <2>2, <2>3 DEF Talk, TalkStart, SameBytes
  <2> QED  BY <1>1, <2>2, <2>4, TalkAtStart
<1>4. CASE boot_at = "start_check"
  <2>1. boot_at \in Reading /\ Took(IF rx_byte = 120 THEN "erase" ELSE "start_key")
    BY <1>4 DEF AwaitStart, AtBoot, Reading
  <2>2. PICK place \in {"erase", "start_key"} : place = (IF rx_byte = 120 THEN "erase" ELSE "start_key")
    OBVIOUS
  <2>3. Took(place) /\ place \in Places \ Reading
    BY <2>1, <2>2 DEF Places, Reading, Prompting
  <2>4. Serial' /\ boot_at' = place /\ TookByte(rx_byte)
    BY <1>1, <2>1, <2>3, TookStep
  <2>5. Inbox[1] = rx_byte /\ ~NoBytes /\ Silence' = Silence
    BY <2>4, TookFromInbox
  <2>6. Sending /\ rx_byte = 120 /\ Stream(0, 1)
    BY <1>4, <2>5 DEF Talk, TalkStart
  <2>7. Stream(0, 0)'
    BY <1>1, <2>4, <2>6, StreamTook
  <2>8. Sending' /\ boot_at' = "erase"
    BY <1>1, <2>2, <2>4, <2>5, <2>6 DEF Sending
  <2>9. TalkSend'
    BY <2>7, <2>8 DEF TalkSend
  <2> QED  BY <1>1, <2>4, <2>8, <2>9, TalkAtSend
<1> QED  BY <1>2, <1>3, <1>4 DEF AwaitStart, AtBoot

LEMMA TalkErase == ASSUME Serial, BootTypes, Talk, Erase PROVE Serial' /\ Talk'
<1>1. /\ Resting /\ NoUart /\ UNCHANGED <<host, file, left_to_send, page_num, ram>>
      /\ (host # "cmd" => file \in Files)
      /\ \/ boot_at = "erase" /\ boot_at' = "erasing"
         \/ boot_at = "erasing" /\ boot_at' = "receive" /\ count' = 0
  BY DEF Erase, AtBoot, Jump, host_vars, Talk
<1>2. Serial' /\ SameBytes
  BY <1>1, JumpStep DEF Reading
<1>3. Sending' /\ Stream(0, 0)'
  <2>1. Sending /\ Stream(0, 0)
    BY <1>1 DEF Talk, TalkSend
  <2>2. Silence' = Silence
    BY <1>2 DEF SameBytes, Silence
  <2> QED  BY <1>1, <1>2, <2>1, <2>2, StreamStill DEF Sending
<1>4. TalkSend'
  <2>1. CASE boot_at' = "erasing"
    BY <1>3, <2>1 DEF TalkSend
  <2>2. CASE boot_at' = "receive" /\ count' = 0
    <3>1. Stream(count, 0)' /\ \A i \in 1 .. count' : ram'[i] = file'[i]
      BY <1>3, <2>2 DEF Stream, Sum
    <3> QED  BY <1>3, <2>2, <3>1 DEF TalkSend
  <2> QED  BY <1>1, <2>1, <2>2
<1> QED  BY <1>1, <1>2, <1>4, TalkAtSend

LEMMA TalkReceive == ASSUME Serial, BootTypes, Talk, from_uart_download PROVE Serial' /\ Talk'
<1>1. /\ Resting /\ UNCHANGED <<host, file, left_to_send, page_num>> /\ (host # "cmd" => file \in Files)
      /\ boot_at \in {"receive", "store", "program", "programming"}
  BY DEF from_uart_download, AtBoot, host_vars, Talk
<1>2. /\ Sending /\ file \in Files /\ page_num = PageCount(file) /\ Len(file) = page_num * PAGE_BYTES
      /\ Len(file) <= RamBytes
  <2>1. Sending
    BY <1>1 DEF Talk, TalkSend
  <2> QED  BY <1>1, <2>1, FilePages DEF Sending
<1>3. Len(Inbox) \in Nat /\ Len(left_to_send) \in Nat /\ Len(file) \in Nat /\ count \in Nat
  BY StreamTypes
<1>4. CASE boot_at = "receive" /\ Receive1("store") /\ UNCHANGED <<count, ram>>
  <2>1. "store" \in Reading /\ boot_at \notin Reading
    BY <1>4 DEF Reading
  <2>2. Serial' /\ boot_at' = "store" /\ SameBytes
    BY <1>1, <1>4, <2>1, ReceiveBegins
  <2>3. Sending' /\ Stream(count, 0)' = Stream(count, 0) /\ Sum(count, 0)' = Sum(count, 0)
    <3>1. Sending' = Sending
      BY <1>1, <2>2 DEF SameBytes, Silence, Sending
    <3> QED  BY <1>1, <1>2, <1>4, <2>2, <3>1, StreamStill DEF Stream, Sum, SameBytes
  <2>4. TalkSend'
    BY <1>1, <1>4, <2>2, <2>3 DEF Talk, TalkSend
  <2> QED  BY <1>1, <2>2, <2>4, TalkAtSend
<1>5. CASE /\ boot_at = "store" /\ Took("receive")
           /\ ram' = [ram EXCEPT ![count + 1] = rx_byte] /\ count' = count + 1
  <2>1. "receive" \in Places \ Reading /\ boot_at \in Reading
    BY <1>5 DEF Places, Reading
  <2>2. Serial' /\ boot_at' = "receive" /\ TookByte(rx_byte)
    BY <1>1, <1>5, <2>1, TookStep
  <2>3. Sending'
    <3>1. Silence' = Silence
      BY <2>2, TookFromInbox
    <3> QED  BY <1>1, <1>2, <3>1 DEF Sending
  <2>4. PICK n \in Nat : n = count
    BY <1>3
  <2>5. /\ Stream(n, 0) /\ (Sum(n, 0) = Len(file) => \A i \in 1 .. n : ram[i] = file[i])
    BY <1>5, <2>4 DEF Talk, TalkSend
  <2>6. /\ Stream(n + 1, 0)' /\ Sum(n + 1, 0)' = Sum(n, 0)
        /\ Sum(n, 0) = Len(file) => rx_byte = file[n + 1]
    BY <1>1, <2>2, <2>5, StreamTook
  <2>7. Stream(count, 0)' /\ Sum(count, 0)' = Sum(n, 0)
    BY <1>5, <2>4, <2>6 DEF Stream, Sum
  <2>8. ASSUME Sum(n, 0) = Len(file)
        PROVE  \A i \in 1 .. count' : ram'[i] = file'[i]
    <3>1. n + 1 <= Len(file)
      <4>1. Len(Inbox) > 0
        BY <2>2 DEF TookByte
      <4> QED  BY <1>3, <2>8, <4>1 DEF Sum
    <3>2. n + 1 \in 1 .. RamBytes
      BY <1>2, <1>3, <3>1, BootConstants
    <3>3. ram \in [1 .. RamBytes -> Nat]
      BY DEF BootTypes
    <3>4. ram'[n + 1] = file[n + 1]
      BY <1>5, <2>4, <2>6, <2>8, <3>2, <3>3
    <3>5. \A i \in 1 .. n : ram'[i] = file[i]
      <4>1. \A i \in 1 .. n : i \in 1 .. RamBytes /\ i # n + 1
        BY <3>2, BootConstants
      <4> QED  BY <1>5, <2>4, <2>5, <2>8, <3>3, <4>1
    <3>6. \A i \in 1 .. n + 1 : i = n + 1 \/ i \in 1 .. n
      OBVIOUS
    <3> QED  BY <1>1, <1>5, <2>4, <3>4, <3>5, <3>6
  <2>9. TalkSend'
    BY <1>1, <2>2, <2>3, <2>7, <2>8 DEF TalkSend
  <2> QED  BY <1>1, <2>2, <2>9, TalkAtSend
<1>6. CASE boot_at = "receive" /\ count = BytesOf(page_num) /\ Jump("program") /\ ram' = ram
  <2>1. Serial' /\ SameBytes /\ boot_at' = "program"
    BY <1>1, <1>6, JumpStep DEF Reading, Jump
  <2>2. Stream(count, 0) /\ count = Len(file)
    BY <1>2, <1>6 DEF Talk, TalkSend, BytesOf
  <2>3. Sum(count, 0) = Len(file) /\ Len(Inbox) = 0 /\ Len(left_to_send) = 0
    BY <1>3, <2>2 DEF Stream, Sum
  <2>4. \A i \in 1 .. Len(file) : ram[i] = file[i]
    BY <1>6, <2>2, <2>3 DEF Talk, TalkSend
  <2>5. Sending' = Sending /\ NoBytes'
    BY <1>1, <2>1, <2>3 DEF SameBytes, Silence, Sending, NoBytes
  <2>6. TalkSend'
    BY <1>1, <1>2, <1>6, <2>1, <2>3, <2>4, <2>5 DEF TalkSend
  <2> QED  BY <1>1, <2>1, <2>6, TalkAtSend
<1>7. CASE /\ boot_at \in {"program", "programming"} /\ ram' = ram
           /\ Jump("programming") \/ Jump("program")
  <2>1. Serial' /\ SameBytes /\ boot_at' \in {"program", "programming"}
    BY <1>1, <1>7, JumpStep DEF Reading, Jump
  <2>2. /\ NoBytes /\ Len(left_to_send) = 0 /\ \A i \in 1 .. Len(file) : ram[i] = file[i]
    BY <1>7 DEF Talk, TalkSend
  <2>3. Sending' = Sending /\ NoBytes' = NoBytes
    BY <1>1, <2>1 DEF SameBytes, Silence, Sending, NoBytes
  <2>4. TalkSend'
    BY <1>1, <1>2, <1>7, <2>1, <2>2, <2>3 DEF TalkSend
  <2> QED  BY <1>1, <2>1, <2>4, TalkAtSend
<1>8. CASE boot_at = "program" /\ Prompt(CONFIRM, "confirm")
  <2>1. boot_at \notin Reading /\ "confirm" \in Prompting
    BY <1>8 DEF Reading, Prompting
  <2>2. /\ Serial' /\ Inbox' = Inbox /\ line' = line /\ boot_at' = "confirm"
        /\ Len(Coming') = Len(Coming) + 1 /\ Coming'[Len(Coming) + 1] = CONFIRM
        /\ \A i \in 1 .. Len(Coming) : Coming'[i] = Coming[i]
    BY <1>1, <1>8, <2>1, PromptStep DEF CONFIRM
  <2>3. Silence /\ NoBytes /\ host = "send" /\ Len(left_to_send) = 0
    BY <1>8 DEF Talk, TalkSend, Sending
  <2>4. Only(CMD)
    BY <2>3 DEF Silence, Only
  <2>5. Pending(CONFIRM)' /\ NoBytes'
    BY <2>2, <2>3, <2>4, OtherPrompted DEF NoBytes
  <2>6. TalkSend'
    BY <1>1, <2>2, <2>3, <2>5 DEF TalkSend
  <2> QED  BY <1>1, <2>2, <2>6, TalkAtSend
<1> QED  BY <1>4, <1>5, <1>6, <1>7, <1>8 DEF from_uart_download, AtBoot

LEMMA TalkConfirm == ASSUME Serial, BootTypes, Talk, AwaitConfirm PROVE Serial' /\ Talk'
<1>1. /\ Resting /\ UNCHANGED <<host, file, left_to_send>> /\ (host # "cmd" => file \in Files)
      /\ boot_at \in {"confirm", "confirm_check"}
  BY DEF AwaitConfirm, AtBoot, Silent, host_vars, Talk
<1>2. \/ host = "send" /\ NoBytes /\ Len(left_to_send) = 0 /\ Pending(CONFIRM)
      \/ host = "cmd" /\ Len(Inbox) = 1 /\ Inbox[1] = 87 /\ Silence
  BY <1>1 DEF Talk, TalkSend
<1>3. CASE boot_at = "confirm" /\ Receive1("confirm_check")
  <2>1. "confirm_check" \in Reading /\ boot_at \notin Reading
    BY <1>3 DEF Reading
  <2>2. Serial' /\ boot_at' = "confirm_check" /\ SameBytes
    BY <1>1, <1>3, <2>1, ReceiveBegins
  <2>3. NoBytes' = NoBytes /\ Pending(CONFIRM)' = Pending(CONFIRM) /\ Silence' = Silence
    BY <2>2 DEF SameBytes, NoBytes, Silence, Pending
  <2>4. TalkSend'
    BY <1>1, <1>2, <2>2, <2>3 DEF TalkSend, SameBytes
  <2> QED  BY <1>1, <2>2, <2>4, TalkAtSend
<1>4. CASE boot_at = "confirm_check" /\ Took(IF rx_byte = 87 THEN "cmd" ELSE "confirm")
  <2>1. PICK place \in {"cmd", "confirm"} : place = (IF rx_byte = 87 THEN "cmd" ELSE "confirm")
    OBVIOUS
  <2>2. Took(place) /\ place \in Places \ Reading /\ boot_at \in Reading
    BY <1>4, <2>1 DEF Places, Reading, Prompting
  <2>3. Serial' /\ boot_at' = place /\ TookByte(rx_byte)
    BY <1>1, <2>2, TookStep
  <2>4. Inbox[1] = rx_byte /\ ~NoBytes /\ (Len(Inbox) = 1 => NoBytes') /\ Silence' = Silence
    BY <2>3, TookFromInbox
  <2>5. host' = "cmd" /\ NoBytes' /\ Silence' /\ boot_at' = "cmd"
    BY <1>1, <1>2, <2>1, <2>3, <2>4
  <2>6. Only(CMD)'
    BY <2>5 DEF Only, Silence
  <2>7. TalkCmd'
    BY <2>5, <2>6 DEF TalkCmd
  <2> QED  BY <1>1, <2>3, <2>5, <2>7, TalkAtCmd
<1> QED  BY <1>3, <1>4 DEF AwaitConfirm, AtBoot

\* The prompt that the host sees tells it where the program is.
LEMMA PromptSeen ==
  ASSUME Talk, NEW p \in {CMD, LEN, START_DOWNLOAD, CONFIRM}, line = <<p>>
  PROVE  /\ ~Silence /\ ~Sending /\ ~Only(ERR)
         /\ p # CMD => ~Only(CMD)
         /\ \A q \in {LEN, START_DOWNLOAD, CONFIRM} : Pending(q) => p = CMD \/ (p = q /\ Len(Coming) = 0)
<1>1. <<p>> # <<>> /\ \A q : <<p>> = <<q>> => p = q
  OBVIOUS
<1>2. ~Silence /\ ~Sending
  BY <1>1 DEF Silence, Sending
<1>3. ~Only(ERR) /\ (p # CMD => ~Only(CMD))
  BY <1>1 DEF Only, CMD, LEN, START_DOWNLOAD, CONFIRM, ERR
<1>4. \A q \in {LEN, START_DOWNLOAD, CONFIRM} : Pending(q) => p = CMD \/ (p = q /\ Len(Coming) = 0)
  BY <1>1 DEF Pending
<1> QED  BY <1>2, <1>3, <1>4

\* A first byte of an answer.
LEMMA FirstAnswer ==
  ASSUME Serial, NoBytes, Len(rx_fifo) < DEPTH, NEW b, SentByte(b), line' = <<>>
  PROVE  /\ Len(Inbox') = 1 /\ Inbox'[1] = b
         /\ Len(Coming) = 0 => Silence'
         /\ Only(CMD) => Only(CMD)'
<1>1. Len(Inbox) = 0 /\ Coming' = Coming
  BY DEF NoBytes, SentByte
<1>2. Len(Inbox') = 1 /\ Inbox'[1] = b
  BY <1>1 DEF SentByte
<1> QED  BY <1>1, <1>2 DEF Silence, Only

LEMMA FileTypes ==
  ASSUME BootTypes, Talk, host # "cmd"
  PROVE  /\ file \in Files /\ PageCount(file) \in Nat
         /\ PageCount(file) \div 256 \in Nat /\ PageCount(file) % 256 \in Nat
<1>1. file \in Files
  BY DEF Talk
<1>2. PageCount(file) \in Nat
  BY <1>1, FilePages, BootConstants
<1> QED  BY <1>1, <1>2

LEMMA TalkHost == ASSUME Serial, BootTypes, Talk, Host PROVE Serial' /\ Talk'
<1>1. /\ UNCHANGED <<call_vars, boot_at, page_num, count, ram>>
      /\ Len(rx_fifo) < DEPTH \/ (host = "send" /\ boot_at = "erasing")
      /\ boot_at \in Places
  BY DEF Host, firmware, BootTypes
<1>2. <<>> \in Seq(Nat) /\ line \in Seq(Nat) /\ left_to_send \in Seq(Nat)
  BY EmptySeq DEF Serial, UartTypes, BootTypes
<1>3. CASE host = "cmd" /\ Sees(CMD) /\ HostSends(86) /\ host' = "len" /\ file' \in Files
  <2>1. line = <<CMD>> /\ line' = <<>>
    BY <1>3 DEF Sees
  <2>2. Serial' /\ SentByte(86)
    BY <1>1, <1>2, <1>3, <2>1, HostByte
  <2>3. ~Silence /\ ~Only(ERR)
    BY <2>1, PromptSeen
  <2>4. boot_at = "cmd"
    <3>1. boot_at \notin Alone
      BY <2>3 DEF Talk, TalkQuiet
    <3>2. boot_at \notin {"len", "len_hi", "len_lo", "len_check"}
      BY <1>3, <2>3 DEF Talk, TalkCmd, TalkLen
    <3>3. boot_at \notin {"start", "start_key", "start_check"}
      BY <1>3, <2>3 DEF Talk, TalkStart, Sending, Agreed
    <3>4. boot_at \notin {"erase", "erasing", "receive", "store", "program", "programming",
                          "confirm", "confirm_check"}
      BY <1>3, <2>3 DEF Talk, TalkSend, Sending
    <3> QED  BY <1>1, <3>1, <3>2, <3>3, <3>4 DEF Places, Prompting, Reading, Alone
  <2>5. NoBytes /\ Only(CMD)
    BY <1>3, <2>4 DEF Talk, TalkCmd
  <2>6. Len(Inbox') = 1 /\ Inbox'[1] = 86 /\ Only(CMD)'
    BY <1>1, <1>3, <2>1, <2>2, <2>5, FirstAnswer
  <2>7. TalkCmd'
    BY <1>1, <1>3, <2>4, <2>6 DEF TalkCmd
  <2> QED  BY <1>1, <1>3, <2>2, <2>4, <2>7, TalkAtCmd
<1>4. CASE host = "len" /\ Sees(LEN) /\ HostSends(PageCount(file) \div 256) /\ host' = "len_lo" /\ file' = file
  <2>1. line = <<LEN>> /\ line' = <<>>
    BY <1>4 DEF Sees
  <2>2. file \in Files /\ PageCount(file) \div 256 \in Nat
    BY <1>4, FileTypes
  <2>3. Serial' /\ SentByte(PageCount(file) \div 256)
    BY <1>1, <1>2, <1>4, <2>1, <2>2, HostByte
  <2>4. ~Silence /\ ~Only(ERR) /\ ~Only(CMD) /\ ~Pending(START_DOWNLOAD)
        /\ (Pending(LEN) => Len(Coming) = 0)
    <3>1. LEN \in {CMD, LEN, START_DOWNLOAD, CONFIRM} /\ LEN # CMD /\ LEN # START_DOWNLOAD
      BY DEF CMD, LEN, START_DOWNLOAD
    <3> QED  BY <2>1, <3>1, PromptSeen
  <2>5. boot_at \in {"len_hi", "len_lo"}
    <3>1. boot_at \notin Alone
      BY <2>4 DEF Talk, TalkQuiet
    <3>2. boot_at \notin {"cmd", "len", "len_check"}
      BY <2>4 DEF Talk, TalkCmd, TalkLen
    <3>3. boot_at \notin {"start", "start_key", "start_check"}
      BY <1>4, <2>4 DEF Talk, TalkStart, Sending
    <3>4. boot_at \notin {"erase", "erasing", "receive", "store", "program", "programming",
                          "confirm", "confirm_check"}
      BY <1>4, <2>4 DEF Talk, TalkSend, Sending
    <3> QED  BY <1>1, <3>1, <3>2, <3>3, <3>4 DEF Places, Prompting, Reading, Alone
  <2>6. NoBytes /\ Len(Coming) = 0
    BY <1>4, <2>4, <2>5 DEF Talk, TalkLen
  <2>7. Len(Inbox') = 1 /\ Inbox'[1] = PageCount(file) \div 256 /\ Silence'
    BY <1>1, <1>4, <2>1, <2>3, <2>6, FirstAnswer
  <2>8. TalkLen'
    BY <1>1, <1>4, <2>5, <2>7 DEF TalkLen, High
  <2> QED  BY <1>1, <1>4, <2>2, <2>3, <2>5, <2>8, TalkAtLen
<1>5. CASE /\ host = "len_lo" /\ UNCHANGED <<line, file>>
           /\ \/ HostSends(PageCount(file) % 256) /\ host' = "start"
              \/ (\E n \in Lengths : HostSends(n)) /\ host' = "len"
  <2>1. file \in Files /\ PageCount(file) % 256 \in Nat
    BY <1>5, FileTypes
  <2>2. PICK b \in Nat : HostSends(b) /\ (host' = "len" \/ (host' = "start" /\ b = PageCount(file) % 256))
    <3>1. \A n \in Lengths : n \in Nat
      BY BootAssumption
    <3> QED  BY <1>5, <2>1, <3>1
  <2>3. Serial' /\ SentByte(b)
    BY <1>1, <1>2, <1>5, <2>2, HostByte
  <2>4. Len(rx_fifo) < DEPTH
    BY <1>1, <1>5
  <2>5. boot_at \in {"len_hi", "len_lo", "len_check"}
    <3>1. boot_at \notin Alone
      BY <1>5 DEF Talk, TalkQuiet
    <3>2. boot_at \notin {"cmd", "len"}
      BY <1>5 DEF Talk, TalkCmd
    <3>3. boot_at \notin {"start", "start_key", "start_check"}
      BY <1>5 DEF Talk, TalkStart, Sending, Agreed
    <3>4. boot_at \notin {"erase", "erasing", "receive", "store", "program", "programming",
                          "confirm", "confirm_check"}
      BY <1>5 DEF Talk, TalkSend, Sending
    <3> QED  BY <1>1, <3>1, <3>2, <3>3, <3>4 DEF Places, Prompting, Reading, Alone
  <2>6. Silence' = Silence /\ High' = High /\ Low' = Low
    BY <1>5, <2>3 DEF SentByte, Silence, High, Low
  <2>7. /\ Len(Inbox') = Len(Inbox) + 1 /\ Inbox'[Len(Inbox) + 1] = b /\ Len(Inbox) \in Nat
        /\ \A i \in 1 .. Len(Inbox) : Inbox'[i] = Inbox[i]
    BY <2>3, <2>4, InboxFacts DEF SentByte
  <2>8. CASE boot_at \in {"len_hi", "len_lo"}
    <3>1. Len(Inbox) = 1 /\ Inbox[1] = High /\ Silence
      BY <1>5, <2>8 DEF Talk, TalkLen
    <3>2. Len(Inbox') = 2 /\ Inbox'[1] = High /\ Inbox'[2] = b
      BY <2>7, <3>1
    <3>3. TalkLen'
      BY <1>1, <2>2, <2>6, <2>8, <3>1, <3>2 DEF TalkLen, Low
    <3> QED  BY <1>1, <1>5, <2>1, <2>3, <2>5, <3>3, TalkAtLen
  <2>9. CASE boot_at = "len_check"
    <3>1. NoBytes /\ page_num = High * 256 /\ Silence
      BY <1>5, <2>9 DEF Talk, TalkLen
    <3>2. Len(Inbox') = 1 /\ Inbox'[1] = b
      BY <2>7, <3>1 DEF NoBytes
    <3>3. TalkLen'
      BY <1>1, <2>2, <2>6, <2>9, <3>1, <3>2 DEF TalkLen, Low
    <3> QED  BY <1>1, <1>5, <2>1, <2>3, <2>5, <3>3, TalkAtLen
  <2> QED  BY <2>5, <2>8, <2>9
<1>6. CASE /\ host = "start" /\ Sees(START_DOWNLOAD) /\ HostSends(120) /\ host' = "send"
           /\ left_to_send' = file /\ file' = file
  <2>1. line = <<START_DOWNLOAD>> /\ line' = <<>>
    BY <1>6 DEF Sees
  <2>2. file \in Files /\ file \in Seq(Nat) /\ Len(file) \in Nat
    BY <1>6, FileTypes, FilePages
  <2>3. Serial' /\ SentByte(120)
    BY <1>1, <1>2, <1>6, <2>1, HostByte
  <2>4. ~Silence /\ ~Only(ERR) /\ ~Only(CMD)
        /\ (Pending(START_DOWNLOAD) => Len(Coming) = 0)
    <3>1. START_DOWNLOAD \in {CMD, LEN, START_DOWNLOAD, CONFIRM} /\ START_DOWNLOAD # CMD
      BY DEF CMD, START_DOWNLOAD
    <3> QED  BY <2>1, <3>1, PromptSeen
  <2>5. boot_at \in {"start_key", "start_check"}
    <3>1. boot_at \notin Alone
      BY <2>4 DEF Talk, TalkQuiet
    <3>2. boot_at \notin {"cmd", "len", "len_hi", "len_lo", "len_check"}
      BY <1>6, <2>4 DEF Talk, TalkCmd, TalkLen
    <3>3. boot_at # "start"
      BY <2>4 DEF Talk, TalkStart
    <3>4. boot_at \notin {"erase", "erasing", "receive", "store", "program", "programming",
                          "confirm", "confirm_check"}
      BY <1>6, <2>4 DEF Talk, TalkSend, Sending
    <3> QED  BY <1>1, <3>1, <3>2, <3>3, <3>4 DEF Places, Prompting, Reading, Alone
  <2>6. Agreed /\ NoBytes /\ Len(Coming) = 0
    BY <1>6, <2>4, <2>5 DEF Talk, TalkStart, Sending
  <2>7. Len(Inbox') = 1 /\ Inbox'[1] = 120 /\ Silence'
    BY <1>1, <1>6, <2>1, <2>3, <2>6, FirstAnswer
  <2>8. Sending'
    BY <1>1, <1>6, <2>6, <2>7 DEF Sending, Agreed
  <2>9. Stream(0, 1)'
    BY <1>6, <2>2, <2>7 DEF Stream, Sum
  <2>10. TalkStart'
    BY <1>1, <2>5, <2>7, <2>8, <2>9 DEF TalkStart
  <2> QED  BY <1>1, <1>6, <2>2, <2>3, <2>5, <2>10, TalkAtStart
<1>7. CASE /\ host = "send" /\ left_to_send # <<>> /\ HostSends(Head(left_to_send))
           /\ left_to_send' = Tail(left_to_send) /\ UNCHANGED <<line, host, file>>
  <2>1. Head(left_to_send) \in Nat /\ Len(left_to_send) > 0 /\ file \in Files
    BY <1>2, <1>7, FirstByte, FileTypes
  <2>2. Serial' /\ SentByte(Head(left_to_send))
    BY <1>1, <1>2, <1>7, <2>1, HostByte
  <2>3. boot_at \in {"start_key", "start_check", "erase", "erasing", "receive", "store"}
    <3>1. boot_at \notin Alone
      BY <1>7 DEF Talk, TalkQuiet
    <3>2. boot_at \notin {"cmd", "len", "len_hi", "len_lo", "len_check"}
      BY <1>7 DEF Talk, TalkCmd, TalkLen
    <3>3. boot_at # "start"
      BY <1>7 DEF Talk, TalkStart, Agreed
    <3>4. boot_at \notin {"program", "programming", "confirm", "confirm_check"}
      BY <1>7, <2>1 DEF Talk, TalkSend
    <3> QED  BY <1>1, <3>1, <3>2, <3>3, <3>4 DEF Places, Prompting, Reading, Alone
  <2>4. Sending' = Sending
    BY <1>1, <1>7, <2>2 DEF Sending, Silence, SentByte
  <2>5. CASE boot_at \in {"start_key", "start_check"}
    <3>1. Sending /\ Len(Inbox) > 0 /\ Inbox[1] = 120 /\ Stream(0, 1)
      BY <1>7, <2>5 DEF Talk, TalkStart, Agreed
    <3>2. Len(rx_fifo) < DEPTH /\ Len(Inbox) \in Nat
      BY <1>1, <2>5, InboxFacts
    <3>3. Len(Inbox') > 0 /\ Inbox'[1] = 120
      BY <2>2, <3>1, <3>2 DEF SentByte
    <3>4. Stream(0, 1)'
      BY <1>7, <2>1, <2>2, <3>1, <3>2, StreamSent
    <3>5. TalkStart'
      BY <1>1, <2>4, <2>5, <3>1, <3>3, <3>4 DEF TalkStart
    <3> QED  BY <1>1, <1>7, <2>1, <2>2, <2>5, <3>5, TalkAtStart
  <2>6. CASE boot_at \in {"erase", "erasing"}
    <3>1. Sending /\ Stream(0, 0) /\ Len(Inbox) \in Nat
      BY <2>6, InboxFacts DEF Talk, TalkSend
    <3>2. Stream(0, 0)'
      BY <1>7, <2>1, <2>2, <3>1, StreamSent
    <3>3. TalkSend'
      BY <1>1, <2>4, <2>6, <3>1, <3>2 DEF TalkSend
    <3> QED  BY <1>1, <1>7, <2>1, <2>2, <2>6, <3>3, TalkAtSend
  <2>7. CASE boot_at \in {"receive", "store"}
    <3>1. PICK n \in Nat : n = count
      BY DEF BootTypes
    <3>2. /\ Sending /\ Stream(n, 0) /\ Len(Inbox) \in Nat
          /\ Sum(n, 0) = Len(file) => \A i \in 1 .. n : ram[i] = file[i]
      BY <2>7, <3>1, InboxFacts DEF Talk, TalkSend
    <3>3. Stream(n, 0)' /\ (Sum(n, 0)' = Len(file') => Sum(n, 0) = Len(file))
      BY <1>7, <2>1, <2>2, <3>2, StreamSent
    <3>4. Stream(count, 0)' /\ Sum(count, 0)' = Sum(n, 0)'
      BY <1>1, <3>1, <3>3 DEF Stream, Sum
    <3>5. TalkSend'
      BY <1>1, <1>7, <2>4, <2>7, <3>1, <3>2, <3>3, <3>4 DEF TalkSend
    <3> QED  BY <1>1, <1>7, <2>1, <2>2, <2>7, <3>5, TalkAtSend
  <2> QED  BY <2>3, <2>5, <2>6, <2>7
<1>8. CASE /\ host = "send" /\ left_to_send = <<>> /\ Sees(CONFIRM) /\ HostSends(87)
           /\ host' = "cmd" /\ file' = <<>>
  <2>1. line = <<CONFIRM>> /\ line' = <<>>
    BY <1>8 DEF Sees
  <2>2. Serial' /\ SentByte(87)
    BY <1>1, <1>2, <1>8, <2>1, HostByte
  <2>3. ~Silence /\ ~Sending /\ ~Only(ERR) /\ ~Only(CMD) /\ (Pending(CONFIRM) => Len(Coming) = 0)
    <3>1. CONFIRM \in {CMD, LEN, START_DOWNLOAD, CONFIRM} /\ CONFIRM # CMD
      BY DEF CMD, CONFIRM
    <3> QED  BY <2>1, <3>1, PromptSeen
  <2>4. boot_at \in {"confirm", "confirm_check"}
    <3>1. boot_at \notin Alone
      BY <2>3 DEF Talk, TalkQuiet
    <3>2. boot_at \notin {"cmd", "len", "len_hi", "len_lo", "len_check"}
      BY <1>8, <2>3 DEF Talk, TalkCmd, TalkLen
    <3>3. boot_at \notin {"start", "start_key", "start_check"}
      BY <1>8, <2>3 DEF Talk, TalkStart, Agreed
    <3>4. boot_at \notin {"erase", "erasing", "receive", "store", "program", "programming"}
      BY <2>3 DEF Talk, TalkSend
    <3> QED  BY <1>1, <3>1, <3>2, <3>3, <3>4 DEF Places, Prompting, Reading, Alone
  <2>5. NoBytes /\ Len(Coming) = 0 /\ Len(rx_fifo) < DEPTH
    BY <1>1, <1>8, <2>3, <2>4 DEF Talk, TalkSend
  <2>6. Len(Inbox') = 1 /\ Inbox'[1] = 87 /\ Silence'
    BY <2>1, <2>2, <2>5, FirstAnswer
  <2>7. TalkSend'
    BY <1>1, <1>8, <2>4, <2>6 DEF TalkSend
  <2> QED  BY <1>1, <1>8, <2>2, <2>4, <2>7, TalkAtSend
<1> QED  BY <1>3, <1>4, <1>5, <1>6, <1>7, <1>8 DEF Host

LEMMA TalkReset == ASSUME Serial, NEW to_ram, Reset(to_ram) PROVE Serial' /\ Talk'
<1>1. /\ ResetUart /\ Return /\ boot_at' \in {"user", "main"} /\ host' = "cmd"
  BY DEF Reset
<1>2. Serial' /\ Len(Inbox') = 0 /\ Len(Coming') = 0 /\ line' = <<>>
  BY <1>1, ResetSilence DEF Reading
<1>3. NoBytes' /\ Silence' /\ Only(ERR)'
  BY <1>2 DEF NoBytes, Silence, Only
<1> QED  BY <1>1, <1>2, <1>3, TalkAtQuiet DEF Alone

-----------------------------------------------------------------------------
(***************************************************************************)
(* The commands of the flash.                                              *)
(***************************************************************************)
LEMMA EnableFlash ==
  ASSUME enable_transparent_ufm PROVE ufm_open' = TRUE /\ UNCHANGED <<ufm, ufm_addr, ufm_busy>>
<1>1. <<ISC_ENABLE_X, 8, 0, 0>>[1] = ISC_ENABLE_X
  OBVIOUS
<1>2. /\ <<ISC_ENABLE_X, 8, 0, 0>> # <<LSC_INIT_ADDR_UFM, 0, 0, 0>>
      /\ <<ISC_ENABLE_X, 8, 0, 0>> \notin {<<LSC_READ_TAG, 16, 0, 1>>, <<LSC_PROG_TAG, 0, 0, 1>>}
      /\ <<ISC_ENABLE_X, 8, 0, 0>> # <<LSC_PROG_TAG, 0, 0, 1>>
  BY DEF ISC_ENABLE_X, LSC_INIT_ADDR_UFM, LSC_READ_TAG, LSC_PROG_TAG
<1>3. ISC_ENABLE_X \notin {LSC_WRITE_ADDRESS, LSC_ERASE_TAG, LSC_PROG_TAG}
  BY DEF ISC_ENABLE_X, LSC_WRITE_ADDRESS, LSC_ERASE_TAG, LSC_PROG_TAG
<1> QED  BY <1>1, <1>2, <1>3 DEF enable_transparent_ufm, command, obeys

LEMMA CloseFlash ==
  ASSUME disable_transparent_ufm PROVE ufm_open' = FALSE /\ UNCHANGED <<ufm, ufm_addr, ufm_busy>>
<1>1. <<ISC_DISABLE, 0, 0>>[1] = ISC_DISABLE
  OBVIOUS
<1>2. /\ <<ISC_DISABLE, 0, 0>> # <<LSC_INIT_ADDR_UFM, 0, 0, 0>>
      /\ <<ISC_DISABLE, 0, 0>> \notin {<<LSC_READ_TAG, 16, 0, 1>>, <<LSC_PROG_TAG, 0, 0, 1>>}
  BY DEF ISC_DISABLE, LSC_INIT_ADDR_UFM, LSC_READ_TAG, LSC_PROG_TAG
<1>3. ISC_DISABLE \notin {ISC_ENABLE_X, LSC_WRITE_ADDRESS, LSC_ERASE_TAG, LSC_PROG_TAG}
  BY DEF ISC_ENABLE_X, ISC_DISABLE, LSC_WRITE_ADDRESS, LSC_ERASE_TAG, LSC_PROG_TAG
<1> QED  BY <1>1, <1>2, <1>3 DEF disable_transparent_ufm, command, obeys

LEMMA ZeroAddress ==
  ASSUME FlashTypes, reset_ufm_addr
  PROVE  ufm_addr' = (IF obeys THEN 0 ELSE ufm_addr) /\ UNCHANGED <<ufm, ufm_open, ufm_busy>>
BY DEF reset_ufm_addr, command, obeys, FlashTypes, ISC_ENABLE_X, ISC_DISABLE, LSC_WRITE_ADDRESS,
       LSC_INIT_ADDR_UFM, LSC_READ_TAG, LSC_ERASE_TAG, LSC_PROG_TAG

LEMMA EraseFlash ==
  ASSUME FlashTypes, erase_ufm
  PROVE  /\ ufm_open' = ufm_open /\ ufm_addr' = ufm_addr
         /\ IF obeys THEN ufm' = [p \in 0 .. TOTAL_PAGE - 1 |-> Erased] /\ ufm_busy' = "erase"
                     ELSE ufm' = ufm /\ ufm_busy' = ufm_busy
BY DEF erase_ufm, command, obeys, FlashTypes, ISC_ENABLE_X, ISC_DISABLE, LSC_WRITE_ADDRESS,
       LSC_INIT_ADDR_UFM, LSC_READ_TAG, LSC_ERASE_TAG, LSC_PROG_TAG

LEMMA ReadPage ==
  ASSUME FlashTypes, read_one_ufm_page_ptr
  PROVE  ufm_addr' = (IF obeys THEN PageAfter(ufm_addr) ELSE ufm_addr) /\ UNCHANGED <<ufm, ufm_open, ufm_busy>>
BY DEF read_one_ufm_page_ptr, command, obeys, FlashTypes, ISC_ENABLE_X, ISC_DISABLE, LSC_WRITE_ADDRESS,
       LSC_INIT_ADDR_UFM, LSC_READ_TAG, LSC_ERASE_TAG, LSC_PROG_TAG

LEMMA FourBytes ==
  ASSUME NEW a \in Nat, NEW b \in Nat, NEW c \in Nat, NEW d \in Nat
  PROVE  SubSeq(<<a, b, c, d>>, 1, 4) = <<a, b, c, d>>
<1>1. PICK s : s = <<a, b, c, d>>
  OBVIOUS
<1>2. s \in Seq(Nat)
  BY <1>1
<1>3. Len(s) = 4
  BY <1>1
<1>4. SubSeq(s, 1, 4) = s
  BY <1>2, <1>3, SubSeqFull
<1> QED  BY <1>1, <1>4

\* A page that has been erased holds what is programmed.
LEMMA ProgramErased ==
  ASSUME NEW data \in [1 .. PAGE_BYTES -> Nat] PROVE Programmed(Erased, data) = data
BY DEF Programmed, Erased

\* What the command that programs a page does.
PageProgrammed(data) ==
  /\ ufm_open' = ufm_open
  /\ ufm' = [ufm EXCEPT ![ufm_addr] = data]
  /\ ufm_addr' = ufm_addr + 1 /\ ufm_busy' = "program"

LEMMA ProgramPage ==
  ASSUME FlashTypes, obeys, ufm_addr \in 0 .. TOTAL_PAGE - 1, ufm[ufm_addr] = Erased,
         NEW data \in [1 .. PAGE_BYTES -> Nat],
         write_one_ufm_page_ptr(data) \/ write_one_ufm_page(data)
  PROVE  PageProgrammed(data)
<1>1. SubSeq(<<201, 0, 0, 1>>, 1, 4) = <<201, 0, 0, 1>>
  BY FourBytes
<1>2. asm_cmd_operands_be(LSC_PROG_TAG, 1) = <<201, 0, 0, 1>> /\ cmd_operands_num(LSC_PROG_TAG) = 4
  BY DEF asm_cmd_operands_be, cmd_operands_num, LSC_PROG_TAG, ISC_DISABLE
<1>3. command(<<201, 0, 0, 1>>, data)
  BY <1>1, <1>2 DEF write_one_ufm_page_ptr, write_one_ufm_page, command_frame, LSC_PROG_TAG
<1>4. DOMAIN ufm = 0 .. TOTAL_PAGE - 1 /\ TOTAL_PAGE \in Nat
  BY FlashAssumption DEF FlashTypes
<1>5. Programmed(ufm[ufm_addr], data) = data
  BY ProgramErased
<1>6. /\ ufm_open' = ufm_open /\ ufm_addr' = PageAfter(ufm_addr) /\ ufm_busy' = "program"
      /\ ufm' = [ufm EXCEPT ![ufm_addr] = Programmed(ufm[ufm_addr], data)]
  <2>1. <<201, 0, 0, 1>>[1] = LSC_PROG_TAG /\ <<201, 0, 0, 1>> = <<LSC_PROG_TAG, 0, 0, 1>>
        /\ <<201, 0, 0, 1>> # <<LSC_INIT_ADDR_UFM, 0, 0, 0>>
    BY DEF LSC_PROG_TAG, LSC_INIT_ADDR_UFM
  <2>2. LSC_PROG_TAG \notin {ISC_ENABLE_X, ISC_DISABLE, LSC_WRITE_ADDRESS, LSC_ERASE_TAG}
    BY DEF ISC_ENABLE_X, ISC_DISABLE, LSC_WRITE_ADDRESS, LSC_ERASE_TAG, LSC_PROG_TAG
  <2>3. ufm_open' = ufm_open
    BY <1>3, <2>1, <2>2 DEF command, FlashTypes
  <2>4. ufm_addr' = PageAfter(ufm_addr) /\ ufm_busy' = "program"
    BY <1>3, <2>1, <2>2 DEF command
  <2>5. ufm' = [ufm EXCEPT ![ufm_addr] = Programmed(@, data)]
    BY <1>3, <1>4, <2>1, <2>2 DEF command
  <2> QED  BY <2>3, <2>4, <2>5
<1>7. PageAfter(ufm_addr) = ufm_addr + 1
  BY <1>4 DEF PageAfter
<1> QED  BY <1>5, <1>6, <1>7 DEF PageProgrammed

LEMMA AddressFrame ==
  ASSUME NEW data, command_frame(LSC_WRITE_ADDRESS, 0, data) PROVE command(<<180, 0, 0, 0>>, data)
<1>1. SubSeq(<<180, 0, 0, 0>>, 1, 4) = <<180, 0, 0, 0>>
  BY FourBytes
<1>2. asm_cmd_operands_be(LSC_WRITE_ADDRESS, 0) = <<180, 0, 0, 0>> /\ cmd_operands_num(LSC_WRITE_ADDRESS) = 4
  BY DEF asm_cmd_operands_be, cmd_operands_num, LSC_WRITE_ADDRESS, ISC_DISABLE
<1> QED  BY <1>1, <1>2 DEF command_frame

LEMMA SetAddress ==
  ASSUME FlashTypes, obeys, NEW h \in Nat, NEW l \in Nat,
         command_frame(LSC_WRITE_ADDRESS, 0, <<64, 0, h, l>>)
  PROVE  ufm_addr' = h * 256 + l /\ ufm' = ufm /\ ufm_open' = ufm_open /\ ufm_busy' = ufm_busy
<1>1. command(<<180, 0, 0, 0>>, <<64, 0, h, l>>)
  BY AddressFrame
<1>2. /\ <<180, 0, 0, 0>>[1] = LSC_WRITE_ADDRESS
      /\ <<180, 0, 0, 0>> # <<LSC_INIT_ADDR_UFM, 0, 0, 0>>
      /\ <<180, 0, 0, 0>> # <<LSC_PROG_TAG, 0, 0, 1>>
  BY DEF LSC_WRITE_ADDRESS, LSC_INIT_ADDR_UFM, LSC_PROG_TAG
<1>3. LSC_WRITE_ADDRESS \notin {ISC_ENABLE_X, ISC_DISABLE, LSC_ERASE_TAG, LSC_PROG_TAG}
  BY DEF ISC_ENABLE_X, ISC_DISABLE, LSC_WRITE_ADDRESS, LSC_ERASE_TAG, LSC_PROG_TAG
<1>4. <<64, 0, h, l>>[3] = h /\ <<64, 0, h, l>>[4] = l
  OBVIOUS
<1>5. ufm_open' = ufm_open
  BY <1>1, <1>2, <1>3 DEF command, FlashTypes
<1>6. ufm_addr' = h * 256 + l
  BY <1>1, <1>2, <1>3, <1>4 DEF command
<1>7. ufm' = ufm /\ ufm_busy' = ufm_busy
  BY <1>1, <1>2, <1>3 DEF command, obeys
<1> QED  BY <1>5, <1>6, <1>7

LEMMA ErasedType == Erased \in [1 .. PAGE_BYTES -> Nat]
BY DEF Erased

-----------------------------------------------------------------------------
(***************************************************************************)
(* What the flash, RAM and the history hold, step by step.                 *)
(***************************************************************************)
LEMMA StoresStill ==
  ASSUME Stores, UNCHANGED <<flash_vars, ram, count, stored, file, pages, page_num, boot_at>>
  PROVE  Stores'
<1>1. /\ ufm' = ufm /\ ufm_addr' = ufm_addr /\ ufm_open' = ufm_open /\ ufm_busy' = ufm_busy
      /\ ram' = ram /\ count' = count /\ stored' = stored /\ file' = file /\ pages' = pages
      /\ page_num' = page_num /\ boot_at' = boot_at
  BY DEF flash_vars
<1>2. FlashTypes' /\ FlashUse' /\ Downloading'
  BY <1>1 DEF Stores, FlashTypes, FlashUse, Downloading, AllErased, Written
<1>3. LoaderPages'
  BY <1>1 DEF Stores, LoaderPages, Written
<1>4. FlashImage' = FlashImage
  BY <1>1 DEF FlashImage
<1>5. Loaded'
  BY <1>1, <1>4 DEF Stores, Loaded, AllErased
<1>6. Kept'
  BY <1>1, <1>4 DEF Stores, Kept
<1> QED  BY <1>2, <1>3, <1>5, <1>6 DEF Stores

\* The flash core ends what it does.
LEMMA CoreEnds ==
  ASSUME Stores, FlashCore, UNCHANGED <<ram, count, stored, file, pages, page_num, boot_at>>
  PROVE  Stores'
<1>1. /\ ufm' = ufm /\ ufm_addr' = ufm_addr /\ ufm_open' = ufm_open /\ ufm_busy' = "no"
      /\ ram' = ram /\ count' = count /\ stored' = stored /\ file' = file /\ pages' = pages
      /\ page_num' = page_num /\ boot_at' = boot_at
  BY DEF FlashCore
<1>2. FlashTypes' /\ FlashUse' /\ Downloading'
  BY <1>1 DEF Stores, FlashTypes, FlashUse, Downloading, AllErased, Written
<1>3. LoaderPages'
  BY <1>1 DEF Stores, LoaderPages, Written
<1>4. FlashImage' = FlashImage
  BY <1>1 DEF FlashImage
<1>5. Loaded'
  BY <1>1, <1>4 DEF Stores, Loaded, AllErased
<1>6. Kept'
  BY <1>1, <1>4 DEF Stores, Kept
<1> QED  BY <1>2, <1>3, <1>5, <1>6 DEF Stores

\* Where neither the flash nor RAM is written.
Plain == Places \ (Programming \cup Loading \cup {"load", "check"})

LEMMA PlainStores ==
  ASSUME boot_at' \in Plain, FlashTypes', boot_at' \notin Closed => ufm_open',
         ufm_busy' = "erase" => AllErased', ufm_busy' # "program",
         stored' # <<>> => FlashImage' = Padded(stored')
  PROVE  Stores'
<1>1. FlashUse'
  BY DEF FlashUse
<1>2. boot_at' \notin Programming /\ boot_at' \notin Loading /\ boot_at' \notin {"load", "check"}
  BY DEF Plain
<1>3. Downloading'
  BY <1>2 DEF Downloading, Programming
<1>4. LoaderPages'
  BY <1>2 DEF LoaderPages, Loading
<1>5. Loaded'
  BY <1>2 DEF Loaded
<1>6. Kept'
  BY <1>2 DEF Kept
<1> QED  BY <1>1, <1>3, <1>4, <1>5, <1>6 DEF Stores

LEMMA PlainStay ==
  ASSUME Stores, boot_at' \in Plain, boot_at \notin {"programming", "load_wait"},
         boot_at \notin Closed \/ boot_at' \in Closed, UNCHANGED <<flash_vars, stored>>
  PROVE  Stores'
<1>1. ufm' = ufm /\ ufm_addr' = ufm_addr /\ ufm_open' = ufm_open /\ ufm_busy' = ufm_busy /\ stored' = stored
  BY DEF flash_vars
<1>2. FlashTypes' /\ (ufm_busy' = "erase" => AllErased')
  BY <1>1 DEF Stores, FlashTypes, FlashUse, AllErased
<1>3. (boot_at' \notin Closed => ufm_open') /\ ufm_busy' # "program"
  BY <1>1 DEF Stores, FlashUse
<1>4. FlashImage' = FlashImage
  BY <1>1 DEF FlashImage
<1>5. stored' # <<>> => FlashImage' = Padded(stored')
  BY <1>1, <1>4 DEF Stores, Kept
<1> QED  BY <1>2, <1>3, <1>5, PlainStores

\* The types of what the boot program leaves alone.
LEMMA TypesStill ==
  ASSUME BootTypes, UNCHANGED <<page_num, count, ram, file, left_to_send, pages, stored>>,
         boot_at' \in Places
  PROVE  BootTypes'
BY DEF BootTypes

LEMMA StoreMain == ASSUME BootTypes, Stores, main PROVE BootTypes' /\ Stores'
<1>1. BootTypes'
  <2>1. boot_at' \in {"enabled", "cmd", "boot"}
    BY DEF main, Jump
  <2>2. UNCHANGED <<page_num, count, ram, file, left_to_send, pages, stored>>
    BY DEF main, Silent, firmware, host_vars
  <2> QED  BY <2>1, <2>2, TypesStill DEF Places, Alone, Prompting
<1>2. CASE AtBoot("main") /\ Jump("enabled") /\ enable_transparent_ufm
  <2>1. ufm_open' = TRUE /\ ufm' = ufm /\ ufm_addr' = ufm_addr /\ ufm_busy' = ufm_busy
    BY <1>2, EnableFlash
  <2>2. boot_at = "main" /\ boot_at' = "enabled" /\ stored' = stored
    BY <1>2 DEF AtBoot, Jump, main, Silent
  <2>3. FlashTypes' /\ (ufm_busy' = "erase" => AllErased') /\ ufm_busy' # "program"
    BY <2>1, <2>2 DEF Stores, FlashTypes, FlashUse, AllErased
  <2>4. FlashImage' = FlashImage
    BY <2>1 DEF FlashImage
  <2>5. stored' # <<>> => FlashImage' = Padded(stored')
    BY <2>2, <2>4 DEF Stores, Kept
  <2>6. boot_at' \in Plain
    BY <2>2 DEF Plain, Places, Alone, Programming, Loading
  <2> QED  BY <1>1, <2>1, <2>3, <2>5, <2>6, PlainStores
<1>3. CASE /\ AtBoot("enabled") /\ UNCHANGED flash_vars
           /\ \E download_key \in BOOLEAN : Jump(IF download_key THEN "cmd" ELSE "boot")
  <2>1. boot_at = "enabled" /\ boot_at' \in {"cmd", "boot"} /\ stored' = stored
    BY <1>3 DEF AtBoot, Jump, main, Silent
  <2>2. boot_at' \in Plain /\ boot_at \notin Closed
    BY <2>1 DEF Plain, Places, Alone, Prompting, Programming, Loading, Closed
  <2> QED  BY <1>1, <1>3, <2>1, <2>2, PlainStay
<1> QED  BY <1>2, <1>3 DEF main

\* Nothing is stored while the flash does not obey; then it is being erased.
LEMMA Disobeys ==
  ASSUME Stores, ~obeys, boot_at \notin Closed, boot_at \notin {"programming", "load_wait"}
  PROVE  ufm_busy = "erase" /\ AllErased
BY DEF Stores, FlashTypes, FlashUse, obeys

\* Each page that is loaded is the one of the flash at count, however the
\* flash is: that being erased is read as it will be.
LEMMA LoadPage ==
  ASSUME BootTypes, Stores, AtBoot("load"), read_one_ufm_page_ptr, count' = count + 1,
         Jump(IF count + 1 < RAM_PAGES THEN "load" ELSE "check"), UNCHANGED <<pages, stored>>,
         ram' = [i \in 1 .. RamBytes |->
                     IF (i - 1) \div PAGE_BYTES = count
                     THEN read_data[((i - 1) % PAGE_BYTES) + 1] ELSE ram[i]]
  PROVE  ram' \in [1 .. RamBytes -> Nat] /\ Stores'
<1>1. /\ boot_at = "load" /\ boot_at \notin Closed
      /\ boot_at' = (IF count + 1 < RAM_PAGES THEN "load" ELSE "check")
      /\ count \in Nat /\ count < RAM_PAGES /\ RAM_PAGES \in Nat /\ TOTAL_PAGE \in Nat
      /\ RAM_PAGES <= TOTAL_PAGE /\ PAGE_BYTES \in Nat \ {0} /\ RamBytes = RAM_PAGES * PAGE_BYTES
      /\ RamBytes \in Nat
  BY BootConstants DEF AtBoot, Jump, Closed, Loaded, Stores, BootTypes
<1>2. /\ ufm_addr' = (IF obeys THEN PageAfter(ufm_addr) ELSE ufm_addr)
      /\ ufm' = ufm /\ ufm_open' = ufm_open /\ ufm_busy' = ufm_busy
  BY ReadPage DEF Stores
<1>3. AllErased \/ (obeys /\ ufm_addr = count)
  BY <1>1, Disobeys DEF Stores, Loaded
<1>4. count \in 0 .. TOTAL_PAGE - 1 /\ DOMAIN ufm = 0 .. TOTAL_PAGE - 1
  BY <1>1 DEF Stores, FlashTypes
<1>5. read_data = ufm[count]
  <2>1. CASE AllErased
    BY <1>4, <2>1 DEF read_data, AllErased
  <2>2. CASE obeys /\ ufm_addr = count
    BY <1>4, <2>2 DEF read_data
  <2> QED  BY <1>3, <2>1, <2>2
<1>6. ASSUME NEW i \in 1 .. RamBytes
      PROVE  /\ (i - 1) \div PAGE_BYTES \in Nat /\ (i - 1) \div PAGE_BYTES < RAM_PAGES
             /\ ((i - 1) % PAGE_BYTES) + 1 \in 1 .. PAGE_BYTES
  <2>1. i \in Nat \ {0} /\ i <= RAM_PAGES * PAGE_BYTES
    BY <1>1
  <2> QED  BY <1>1, <2>1, Before, Offset
<1>7. ram' \in [1 .. RamBytes -> Nat]
  <2>1. ufm[count] \in [1 .. PAGE_BYTES -> Nat]
    BY <1>4 DEF Stores, FlashTypes
  <2>2. \A i \in 1 .. RamBytes :
          ufm[count][((i - 1) % PAGE_BYTES) + 1] \in Nat /\ ram[i] \in Nat
    BY <1>6, <2>1 DEF BootTypes
  <2> QED  BY <1>5, <2>2
<1>8. FlashImage' = FlashImage
  BY <1>2 DEF FlashImage
<1>9. ASSUME NEW i \in 1 .. RamBytes, (i - 1) \div PAGE_BYTES < count + 1
      PROVE  ram'[i] = FlashImage'[i]
  <2>1. FlashImage[i] = ufm[(i - 1) \div PAGE_BYTES][((i - 1) % PAGE_BYTES) + 1]
    BY DEF FlashImage
  <2>2. CASE (i - 1) \div PAGE_BYTES = count
    BY <1>5, <1>8, <2>1, <2>2
  <2>3. CASE (i - 1) \div PAGE_BYTES # count
    <3>1. PICK q \in Nat : q = (i - 1) \div PAGE_BYTES
      BY <1>6
    <3>2. (i - 1) \div PAGE_BYTES < count
      BY <1>1, <1>9, <2>3, <3>1
    <3>3. ram[i] = FlashImage[i]
      BY <1>1, <3>2 DEF Stores, Loaded
    <3> QED  BY <1>8, <2>3, <3>3
  <2> QED  BY <2>2, <2>3
<1>10. FlashTypes'
  BY <1>2 DEF Stores, FlashTypes, PageAfter
<1>11. FlashUse' /\ Downloading' /\ LoaderPages'
  <2>1. boot_at' \in {"load", "check"}
    BY <1>1
  <2>2. FlashUse'
    BY <1>1, <1>2, <2>1 DEF Stores, FlashUse, AllErased, Closed
  <2> QED  BY <2>1, <2>2 DEF Downloading, LoaderPages, Loading
<1>12. Loaded'
  <2>1. CASE count + 1 < RAM_PAGES
    <3>1. boot_at' = "load" /\ count' < RAM_PAGES
      BY <1>1, <2>1
    <3>2. AllErased' \/ ufm_addr' = count'
      BY <1>1, <1>2, <1>3 DEF AllErased, PageAfter
    <3> QED  BY <1>9, <3>1, <3>2 DEF Loaded
  <2>2. CASE ~(count + 1 < RAM_PAGES)
    <3>1. boot_at' = "check" /\ count + 1 = RAM_PAGES
      BY <1>1, <2>2
    <3>2. \A i \in 1 .. RamBytes : ram'[i] = FlashImage'[i]
      BY <1>6, <1>9, <3>1
    <3>3. FlashImage' = [i \in 1 .. RamBytes |-> FlashImage'[i]]
      BY DEF FlashImage
    <3>4. ram' = [i \in 1 .. RamBytes |-> ram'[i]]
      BY <1>7
    <3>5. ram' = FlashImage'
      BY <3>2, <3>3, <3>4
    <3> QED  BY <3>1, <3>5 DEF Loaded
  <2> QED  BY <2>1, <2>2
<1>13. Kept'
  BY <1>1, <1>8 DEF Stores, Kept, Programming
<1> QED  BY <1>7, <1>10, <1>11, <1>12, <1>13 DEF Stores

LEMMA StoreBoot == ASSUME BootTypes, Stores, boot PROVE BootTypes' /\ Stores'
<1>1. UNCHANGED <<file, left_to_send, pages, stored, page_num>>
  BY DEF boot, host_vars
<1>2. CASE /\ AtBoot("boot") /\ Jump("load") /\ reset_ufm_addr
           /\ count' = 0 /\ UNCHANGED ram
  <2>1. boot_at = "boot" /\ boot_at' = "load"
    BY <1>2 DEF AtBoot, Jump
  <2>2. /\ ufm_addr' = (IF obeys THEN 0 ELSE ufm_addr)
        /\ ufm' = ufm /\ ufm_open' = ufm_open /\ ufm_busy' = ufm_busy
    BY <1>2, ZeroAddress DEF Stores
  <2>3. obeys \/ AllErased
    BY <2>1, Disobeys DEF Closed
  <2>4. FlashTypes' /\ FlashUse'
    BY <2>1, <2>2 DEF Stores, FlashTypes, FlashUse, AllErased, Closed
  <2>5. Downloading' /\ LoaderPages'
    BY <2>1 DEF Downloading, LoaderPages, Loading
  <2>6. FlashImage' = FlashImage
    BY <2>2 DEF FlashImage
  <2>7. Loaded'
    <3>1. AllErased' \/ ufm_addr' = count'
      BY <1>2, <2>2, <2>3 DEF AllErased
    <3>2. \A i \in 1 .. RamBytes : ~((i - 1) \div PAGE_BYTES < 0)
      <4>1. SUFFICES ASSUME NEW i \in 1 .. RamBytes PROVE ~((i - 1) \div PAGE_BYTES < 0)
        OBVIOUS
      <4>2. i \in Nat \ {0}
        BY BootConstants
      <4>3. (i - 1) \div PAGE_BYTES \in Nat
        BY <4>2, Offset
      <4>4. PICK q \in Nat : q = (i - 1) \div PAGE_BYTES
        BY <4>3
      <4> QED  BY <4>4
    <3> QED  BY <1>2, <2>1, <3>1, <3>2, BootConstants DEF Loaded
  <2>8. Kept'
    BY <1>1, <2>1, <2>6 DEF Stores, Kept, Programming
  <2>9. BootTypes'
    BY <1>1, <1>2, <2>1 DEF BootTypes, Places, Alone
  <2> QED  BY <2>4, <2>5, <2>7, <2>8, <2>9 DEF Stores
<1>3. CASE /\ AtBoot("load") /\ Jump(IF count + 1 < RAM_PAGES THEN "load" ELSE "check")
           /\ read_one_ufm_page_ptr /\ count' = count + 1
           /\ ram' = [i \in 1 .. RamBytes |->
                     IF (i - 1) \div PAGE_BYTES = count
                     THEN read_data[((i - 1) % PAGE_BYTES) + 1] ELSE ram[i]]
  <2>1. ram' \in [1 .. RamBytes -> Nat] /\ Stores'
    BY <1>1, <1>3, LoadPage
  <2>2. boot_at' \in Places
    BY <1>3 DEF Jump, Places, Alone
  <2> QED  BY <1>1, <1>3, <2>1, <2>2 DEF BootTypes
<1>4. CASE /\ AtBoot("check") /\ UNCHANGED <<ufm, ufm_addr, ufm_busy, ram>>
           /\ count' = 0 /\ \E ram_mode \in BOOLEAN :
             IF ~ram_mode /\ ram[1] = 0
             THEN Jump("err") /\ UNCHANGED <<ufm_open, mapped_to_ram>>
             ELSE Jump("user") /\ ufm_open' = FALSE /\ mapped_to_ram' = TRUE
  <2>1. /\ boot_at = "check"
        /\ (boot_at' = "err" /\ ufm_open' = ufm_open) \/ (boot_at' = "user" /\ ufm_open' = FALSE)
    <3>1. PICK ram_mode \in BOOLEAN :
             IF ~ram_mode /\ ram[1] = 0
             THEN Jump("err") /\ UNCHANGED <<ufm_open, mapped_to_ram>>
             ELSE Jump("user") /\ ufm_open' = FALSE /\ mapped_to_ram' = TRUE
      BY <1>4
    <3>2. CASE ~ram_mode /\ ram[1] = 0
      BY <1>4, <3>1, <3>2 DEF AtBoot, Jump
    <3>3. CASE ~(~ram_mode /\ ram[1] = 0)
      BY <1>4, <3>1, <3>3 DEF AtBoot, Jump
    <3> QED  BY <3>2, <3>3
  <2>2. FlashTypes' /\ (ufm_busy' = "erase" => AllErased') /\ ufm_busy' # "program"
    BY <1>4, <2>1 DEF Stores, FlashTypes, FlashUse, AllErased
  <2>3. boot_at' \notin Closed => ufm_open'
    BY <2>1 DEF Stores, FlashUse, Closed
  <2>4. FlashImage' = FlashImage
    BY <1>4 DEF FlashImage
  <2>5. stored' # <<>> => FlashImage' = Padded(stored')
    BY <1>1, <2>4 DEF Stores, Kept
  <2>6. boot_at' \in Plain
    BY <2>1 DEF Plain, Places, Alone, Prompting, Programming, Loading
  <2>7. BootTypes'
    BY <1>1, <1>4, <2>1 DEF BootTypes, Places, Alone
  <2> QED  BY <2>2, <2>3, <2>5, <2>6, <2>7, PlainStores
<1>5. CASE AtBoot("err") /\ Prompt(ERR, "err")
  <2>1. boot_at = "err" /\ boot_at' = "err" /\ UNCHANGED <<flash_vars, count, ram>>
    BY <1>5 DEF AtBoot, Prompt, firmware
  <2>2. boot_at' \in Places
    BY <2>1 DEF Places, Alone
  <2> QED  BY <1>1, <2>1, <2>2, StoresStill, TypesStill
<1> QED  BY <1>2, <1>3, <1>4, <1>5 DEF boot

\* Between two prompts nothing is stored.
LEMMA StoreAwait ==
  ASSUME Serial, BootTypes, Stores, AwaitCommand \/ AwaitLength \/ AwaitStart \/ AwaitConfirm
  PROVE  BootTypes' /\ Stores'
<1>1. UNCHANGED <<file, left_to_send, pages, stored, flash_vars, ram>>
  BY DEF AwaitCommand, AwaitLength, AwaitStart, AwaitConfirm, Silent, host_vars, Prompt, Receive1,
         Took, firmware
<1>2. boot_at \in {"cmd", "len", "len_hi", "len_lo", "len_check", "start", "start_key",
                   "start_check", "confirm", "confirm_check"}
  BY DEF AwaitCommand, AwaitLength, AwaitStart, AwaitConfirm, AtBoot
<1>3. boot_at' \in {"cmd", "len", "len_hi", "len_lo", "len_check", "start", "start_key",
                    "start_check", "erase", "confirm", "confirm_check"}
  <2>1. CASE AwaitCommand
    BY <2>1 DEF AwaitCommand, Prompt
  <2>2. CASE AwaitLength
    BY <2>2 DEF AwaitLength, Prompt, Receive1, Took
  <2>3. CASE AwaitStart
    BY <2>3 DEF AwaitStart, Prompt, Receive1, Took
  <2>4. CASE AwaitConfirm
    BY <2>4 DEF AwaitConfirm, Receive1, Took
  <2> QED  BY <2>1, <2>2, <2>3, <2>4
<1>4. page_num' \in Nat /\ count' \in Nat
  <2>1. rx_byte \in Nat /\ page_num \in Nat /\ count \in Nat
    BY DEF Serial, UartTypes, BootTypes
  <2>2. rx_byte * 256 \in Nat /\ page_num + rx_byte \in Nat
    BY <2>1
  <2> QED  BY <2>1, <2>2 DEF AwaitCommand, AwaitLength, AwaitStart, AwaitConfirm, Prompt, Receive1,
                Took, firmware
<1>5. boot_at' \in Plain
  BY <1>3 DEF Plain, Places, Alone, Prompting, Reading, Programming, Loading
<1>6. Stores'
  BY <1>1, <1>2, <1>5, PlainStay DEF Closed
<1>7. BootTypes'
  BY <1>1, <1>4, <1>5 DEF BootTypes, Plain
<1> QED  BY <1>6, <1>7

\* The erasure, if the memory does not obey because of one before it, too.
LEMMA Erasing ==
  ASSUME FlashTypes, erase_ufm, obeys \/ (ufm_busy = "erase" /\ AllErased)
  PROVE  /\ ufm_open' = ufm_open /\ ufm_addr' = ufm_addr /\ ufm_busy' = "erase"
         /\ AllErased' /\ FlashTypes'
<1>1. /\ ufm_open' = ufm_open /\ ufm_addr' = ufm_addr
      /\ IF obeys THEN ufm' = [p \in 0 .. TOTAL_PAGE - 1 |-> Erased] /\ ufm_busy' = "erase"
                  ELSE ufm' = ufm /\ ufm_busy' = ufm_busy
  BY EraseFlash
<1>2. ufm_busy' = "erase" /\ AllErased'
  <2>1. CASE obeys
    BY <1>1, <2>1 DEF AllErased
  <2>2. CASE ~obeys
    BY <1>1, <2>2 DEF AllErased
  <2> QED  BY <2>1, <2>2
<1>3. ufm' \in [0 .. TOTAL_PAGE - 1 -> [1 .. PAGE_BYTES -> Nat]]
  <2>1. CASE obeys
    BY <1>1, <2>1, ErasedType
  <2>2. CASE ~obeys
    BY <1>1, <2>2 DEF FlashTypes
  <2> QED  BY <2>1, <2>2
<1> QED  BY <1>1, <1>2, <1>3 DEF FlashTypes

LEMMA StoreErase == ASSUME BootTypes, Stores, Erase PROVE BootTypes' /\ Stores'
<1>1. UNCHANGED <<file, left_to_send, pages, page_num, ram>>
  BY DEF Erase, host_vars
<1>2. CASE AtBoot("erase") /\ erase_ufm /\ Jump("erasing") /\ stored' = <<>> /\ UNCHANGED count
  <2>1. boot_at = "erase" /\ boot_at' = "erasing"
    BY <1>2 DEF AtBoot, Jump
  <2>2. obeys \/ (ufm_busy = "erase" /\ AllErased)
    BY <2>1, Disobeys DEF Closed
  <2>3. ufm_open' = ufm_open /\ ufm_busy' = "erase" /\ AllErased' /\ FlashTypes'
    BY <1>2, <2>2, Erasing DEF Stores
  <2>4. FlashUse'
    BY <2>1, <2>3 DEF Stores, FlashUse, Closed
  <2>5. Downloading' /\ LoaderPages' /\ Loaded'
    BY <2>1, <2>3 DEF Downloading, LoaderPages, Loaded, Loading
  <2>6. Kept'
    BY <1>2 DEF Kept
  <2>7. BootTypes'
    BY <1>1, <1>2, <2>1 DEF BootTypes, Places
  <2> QED  BY <2>3, <2>4, <2>5, <2>6, <2>7 DEF Stores
<1>3. CASE AtBoot("erasing") /\ Delayed /\ Jump("receive") /\ count' = 0 /\ UNCHANGED stored
  <2>1. boot_at = "erasing" /\ boot_at' = "receive"
    BY <1>3 DEF AtBoot, Jump
  <2>2. ufm' = ufm /\ ufm_addr' = ufm_addr /\ ufm_open' = ufm_open /\ ufm_busy = "no" /\ ufm_busy' = "no"
    BY <1>3 DEF Delayed, flash_vars
  <2>3. AllErased'
    BY <2>1, <2>2 DEF Stores, Downloading, AllErased
  <2>4. FlashTypes' /\ FlashUse'
    BY <2>1, <2>2 DEF Stores, FlashTypes, FlashUse, Closed
  <2>5. Downloading' /\ LoaderPages' /\ Loaded'
    BY <2>1, <2>2, <2>3 DEF Downloading, LoaderPages, Loaded, Loading
  <2>6. Kept'
    BY <1>3, <2>1 DEF Stores, Kept, Programming
  <2>7. BootTypes'
    BY <1>1, <1>3, <2>1 DEF BootTypes, Places
  <2> QED  BY <2>4, <2>5, <2>6, <2>7 DEF Stores
<1> QED  BY <1>2, <1>3 DEF Erase

\* The bytes of a download go to RAM, the flash being erased.
LEMMA StoreByte ==
  ASSUME Serial, BootTypes, Stores, UNCHANGED <<page_num, file, left_to_send, pages, stored, flash_vars>>,
         \/ AtBoot("receive") /\ Receive1("store") /\ UNCHANGED <<count, ram>>
         \/ /\ AtBoot("store") /\ Took("receive")
            /\ ram' = [ram EXCEPT ![count + 1] = rx_byte] /\ count' = count + 1
  PROVE  BootTypes' /\ Stores'
<1>1. boot_at \in {"receive", "store"} /\ boot_at' \in {"receive", "store"}
  BY DEF AtBoot, Receive1, Took
<1>2. /\ ufm' = ufm /\ ufm_addr' = ufm_addr /\ ufm_open' = ufm_open /\ ufm_busy' = ufm_busy
      /\ ufm_busy = "no"
  BY <1>1 DEF flash_vars, Stores, Downloading
<1>3. FlashTypes' /\ FlashUse'
  BY <1>1, <1>2 DEF Stores, FlashTypes, FlashUse, Closed
<1>4. AllErased'
  BY <1>1, <1>2 DEF Stores, Downloading, AllErased
<1>5. Downloading' /\ LoaderPages' /\ Loaded'
  BY <1>1, <1>2, <1>4 DEF Downloading, LoaderPages, Loaded, Loading
<1>6. Kept'
  BY <1>1 DEF Stores, Kept, Programming
<1>7. boot_at' \in Places
  BY <1>1 DEF Places, Reading
<1>8. rx_byte \in Nat /\ count \in Nat /\ count + 1 \in Nat /\ ram \in [1 .. RamBytes -> Nat]
  BY DEF Serial, UartTypes, BootTypes
<1>9. ram' \in [1 .. RamBytes -> Nat] /\ count' \in Nat
  BY <1>8
<1>10. BootTypes'
  BY <1>7, <1>9 DEF BootTypes
<1> QED  BY <1>3, <1>5, <1>6, <1>10 DEF Stores

\* The page at count is erased, and is programmed with the one of RAM.
LEMMA StorePage ==
  ASSUME BootTypes, Talk, Stores, UNCHANGED <<page_num, file, left_to_send, pages, stored, count, ram>>,
         AtBoot("program"), count < page_num, write_one_ufm_page_ptr(PageOf(ram, count)),
         Jump("programming")
  PROVE  BootTypes' /\ Stores'
<1>1. /\ boot_at = "program" /\ boot_at' = "programming" /\ boot_at \notin Closed
  BY DEF AtBoot, Jump, Closed
<1>2. /\ Written(ram, 0 .. count - 1) /\ ufm_addr = count /\ ufm_busy = "no" /\ ufm_open
  BY <1>1 DEF Stores, Downloading, FlashUse
<1>3. /\ count \in Nat /\ page_num \in Nat /\ page_num <= RAM_PAGES /\ RAM_PAGES \in Nat
      /\ TOTAL_PAGE \in Nat /\ RAM_PAGES <= TOTAL_PAGE
      /\ RAM_PAGES * PAGE_BYTES = RamBytes
  <2>1. host = "send" /\ page_num = PageCount(file)
    BY <1>1 DEF Talk, TalkSend, Sending
  <2>2. file \in Files
    BY <2>1 DEF Talk
  <2> QED  BY <2>1, <2>2, FilePages, BootConstants DEF BootTypes
<1>4. count \in 0 .. TOTAL_PAGE - 1 /\ count < RAM_PAGES
  BY <1>3
<1>5. ufm[count] = Erased
  BY <1>2, <1>3, <1>4 DEF Written
<1>6. PageOf(ram, count) \in [1 .. PAGE_BYTES -> Nat]
  <2>1. PICK s : s = ram
    OBVIOUS
  <2>2. s \in Seq(Nat) /\ Len(s) = RamBytes
    BY <2>1, RamIsSeq DEF BootTypes
  <2>3. RamBytes \in Nat /\ RAM_PAGES * PAGE_BYTES <= Len(s)
    BY <1>3, <2>2, BootConstants
  <2>4. PageOf(s, count) \in [1 .. PAGE_BYTES -> Nat]
    BY <1>3, <1>4, <2>2, <2>3, PageElements
  <2> QED  BY <2>1, <2>4
<1>7. PICK data \in [1 .. PAGE_BYTES -> Nat] : data = PageOf(ram, count)
  BY <1>6
<1>8. PageProgrammed(data)
  <2>1. obeys /\ FlashTypes
    BY <1>2 DEF obeys, Stores
  <2>2. write_one_ufm_page_ptr(data)
    BY <1>7
  <2> QED  BY <1>2, <1>4, <1>5, <2>1, <2>2, ProgramPage
<1>9. /\ ufm_open' = ufm_open /\ ufm' = [ufm EXCEPT ![count] = data]
      /\ ufm_addr' = count + 1 /\ ufm_busy' = "program"
  BY <1>2, <1>8 DEF PageProgrammed
<1>10. FlashTypes' /\ FlashUse'
  BY <1>1, <1>2, <1>3, <1>9 DEF Stores, FlashTypes, FlashUse
<1>11. Written(ram, 0 .. count)'
  <2>1. SUFFICES ASSUME NEW p \in 0 .. TOTAL_PAGE - 1
        PROVE ufm'[p] = IF p \in 0 .. count THEN PageOf(ram', p) ELSE Erased
    BY DEF Written
  <2>2. DOMAIN ufm = 0 .. TOTAL_PAGE - 1 /\ ram' = ram
    BY DEF Stores, FlashTypes
  <2>3. CASE p = count
    BY <1>3, <1>7, <1>9, <2>2, <2>3
  <2>4. CASE p # count
    <3>1. ufm'[p] = ufm[p] /\ (p \in 0 .. count <=> p \in 0 .. count - 1)
      BY <1>3, <1>9, <2>2, <2>4
    <3>2. ufm[p] = IF p \in 0 .. count - 1 THEN PageOf(ram, p) ELSE Erased
      BY <1>2 DEF Written
    <3> QED  BY <2>2, <3>1, <3>2
  <2> QED  BY <2>3, <2>4
<1>12. Downloading'
  BY <1>1, <1>9, <1>11 DEF Downloading
<1>13. LoaderPages' /\ Loaded' /\ Kept'
  BY <1>1 DEF LoaderPages, Loaded, Loading, Kept, Stores, Programming
<1>14. BootTypes'
  BY <1>1 DEF BootTypes, Places
<1> QED  BY <1>10, <1>12, <1>13, <1>14 DEF Stores

LEMMA StoreDownload ==
  ASSUME Serial, BootTypes, Talk, Stores, from_uart_download PROVE BootTypes' /\ Stores'
<1>1. UNCHANGED <<file, left_to_send, pages, page_num>>
  BY DEF from_uart_download, host_vars
<1>2. CASE /\ AtBoot("receive") /\ count < BytesOf(page_num)
           /\ Receive1("store") /\ UNCHANGED <<count, ram, stored>>
  BY <1>1, <1>2, StoreByte DEF Receive1
<1>3. CASE /\ AtBoot("store") /\ Took("receive")
           /\ ram' = [ram EXCEPT ![count + 1] = rx_byte] /\ count' = count + 1
           /\ UNCHANGED <<flash_vars, stored>>
  BY <1>1, <1>3, StoreByte
<1>4. CASE /\ AtBoot("receive") /\ count = BytesOf(page_num)
           /\ reset_ufm_addr /\ Jump("program") /\ count' = 0 /\ UNCHANGED <<ram, stored>>
  <2>1. boot_at = "receive" /\ boot_at' = "program" /\ boot_at \notin Closed
    BY <1>4 DEF AtBoot, Jump, Closed
  <2>2. ufm_busy = "no" /\ ufm_open /\ AllErased
    BY <2>1 DEF Stores, Downloading, FlashUse
  <2>3. ufm_addr' = 0 /\ ufm' = ufm /\ ufm_open' = ufm_open /\ ufm_busy' = "no"
    BY <1>4, <2>2, ZeroAddress DEF Stores, obeys
  <2>4. FlashTypes' /\ FlashUse'
    BY <2>1, <2>2, <2>3 DEF Stores, FlashTypes, FlashUse
  <2>5. Written(ram, 0 .. count - 1)'
    <3>1. \A p \in 0 .. TOTAL_PAGE - 1 : ufm'[p] = Erased /\ p \notin 0 .. count' - 1
      BY <1>4, <2>2, <2>3 DEF AllErased
    <3> QED  BY <3>1 DEF Written
  <2>6. Downloading'
    BY <1>1, <1>4, <2>1, <2>3, <2>5 DEF Downloading, BootTypes
  <2>7. LoaderPages' /\ Loaded' /\ Kept'
    BY <1>4, <2>1 DEF LoaderPages, Loaded, Loading, Kept, Stores, Programming
  <2>8. BootTypes'
    BY <1>1, <1>4, <2>1 DEF BootTypes, Places
  <2> QED  BY <2>4, <2>6, <2>7, <2>8 DEF Stores
<1>5. CASE /\ AtBoot("program") /\ count < page_num
           /\ write_one_ufm_page_ptr(PageOf(ram, count)) /\ Jump("programming")
           /\ UNCHANGED <<count, ram, stored>>
  BY <1>1, <1>5, StorePage
<1>6. CASE /\ AtBoot("programming") /\ PageWritten /\ Jump("program")
           /\ count' = count + 1 /\ UNCHANGED <<ram, stored>>
  <2>1. boot_at = "programming" /\ boot_at' = "program" /\ boot_at \notin Closed
    BY <1>6 DEF AtBoot, Jump, Closed
  <2>2. ufm' = ufm /\ ufm_addr' = ufm_addr /\ ufm_open' = ufm_open /\ ufm_busy' = "no"
    BY <1>6 DEF PageWritten, Delayed, flash_vars
  <2>3. FlashTypes' /\ FlashUse'
    BY <2>1, <2>2 DEF Stores, FlashTypes, FlashUse
  <2>4. Written(ram, 0 .. count) /\ ufm_addr = count + 1 /\ count < page_num
    BY <2>1 DEF Stores, Downloading
  <2>5. Written(ram, 0 .. count - 1)'
    <3>1. count' - 1 = count
      BY <1>6 DEF BootTypes
    <3>2. \A p \in 0 .. TOTAL_PAGE - 1 : ufm'[p] = IF p \in 0 .. count THEN PageOf(ram', p) ELSE Erased
      BY <1>6, <2>2, <2>4 DEF Written
    <3> QED  BY <3>1, <3>2 DEF Written
  <2>6. Downloading'
    BY <1>1, <1>6, <2>1, <2>2, <2>4, <2>5 DEF Downloading, BootTypes
  <2>7. LoaderPages' /\ Loaded' /\ Kept'
    BY <1>6, <2>1 DEF LoaderPages, Loaded, Loading, Kept, Stores, Programming
  <2>8. BootTypes'
    BY <1>1, <1>6, <2>1 DEF BootTypes, Places
  <2> QED  BY <2>3, <2>6, <2>7, <2>8 DEF Stores
<1>7. CASE AtBoot("program") /\ count = page_num /\ Prompt(CONFIRM, "confirm") /\ stored' = file
  <2>1. boot_at = "program" /\ boot_at' = "confirm" /\ boot_at \notin Closed
    BY <1>7 DEF AtBoot, Prompt, Closed
  <2>2. /\ ufm' = ufm /\ ufm_addr' = ufm_addr /\ ufm_open' = ufm_open /\ ufm_busy' = ufm_busy
        /\ count' = count /\ ram' = ram
    BY <1>7 DEF Prompt, firmware, flash_vars
  <2>3. Written(ram, 0 .. count - 1) /\ ufm_busy = "no"
    BY <2>1 DEF Stores, Downloading
  <2>4. file \in Files /\ count = PageCount(file) /\ \A i \in 1 .. Len(file) : ram[i] = file[i]
    <3>1. host = "send" /\ page_num = PageCount(file) /\ \A i \in 1 .. Len(file) : ram[i] = file[i]
      BY <2>1 DEF Talk, TalkSend, Sending
    <3> QED  BY <1>7, <3>1 DEF Talk
  <2>5. FlashImage = Padded(file)
    <3>1. PICK f \in Files : f = file
      BY <2>4
    <3>2. PICK g : g = ram
      OBVIOUS
    <3>3. g \in Seq(Nat) /\ Len(g) = RamBytes
      BY <3>2, RamIsSeq DEF BootTypes
    <3>4. Len(f) <= Len(g) /\ (\A i \in 1 .. Len(f) : g[i] = f[i]) /\ Written(g, 0 .. PageCount(f) - 1)
      BY <2>3, <2>4, <3>1, <3>2, <3>3, FilePages
    <3>5. FlashImage = Padded(f)
      BY <3>3, <3>4, WrittenImage
    <3> QED  BY <3>1, <3>5
  <2>6. FlashImage' = Padded(stored')
    BY <1>7, <2>2, <2>5 DEF FlashImage
  <2>7. FlashTypes' /\ (boot_at' \notin Closed => ufm_open') /\ ufm_busy' = "no"
    BY <2>1, <2>2, <2>3 DEF Stores, FlashTypes, FlashUse
  <2>8. boot_at' \in Plain
    BY <2>1 DEF Plain, Places, Alone, Prompting, Programming, Loading
  <2>9. BootTypes'
    BY <1>1, <1>7, <2>1, <2>2, <2>4 DEF BootTypes, Places, Prompting
  <2> QED  BY <2>6, <2>7, <2>8, <2>9, PlainStores
<1> QED  BY <1>2, <1>3, <1>4, <1>5, <1>6, <1>7 DEF from_uart_download

LEMMA StoreHost == ASSUME Serial, BootTypes, Talk, Stores, Host PROVE BootTypes' /\ Stores'
<1>1. UNCHANGED <<flash_vars, boot_at, page_num, count, ram, pages, stored>>
  BY DEF Host, firmware
<1>2. file' = file \/ (file' \in {<<>>} \cup Files /\ boot_at \notin Loading)
  <2>1. CASE Sees(CMD) /\ file' \in Files
    <3>1. line = <<CMD>> /\ CMD \in {CMD, LEN, START_DOWNLOAD, CONFIRM}
      BY <2>1 DEF Sees
    <3>2. ~Only(ERR)
      BY <3>1, PromptSeen
    <3> QED  BY <2>1, <3>2 DEF Talk, TalkQuiet, Alone
  <2>2. CASE host = "send" /\ file' = <<>>
    BY <2>2 DEF Talk, TalkQuiet, Alone
  <2>3. CASE file' = file
    BY <2>3
  <2> QED  BY <2>1, <2>2, <2>3 DEF Host
<1>3. file' \in {<<>>} \cup Files
  BY <1>2 DEF BootTypes
<1>4. left_to_send' \in Seq(Nat)
  <2>1. left_to_send \in Seq(Nat)
    BY DEF BootTypes
  <2>2. CASE left_to_send' = left_to_send
    BY <2>1, <2>2
  <2>3. CASE host = "start" /\ left_to_send' = file
    <3>1. file \in Files
      BY <2>3, FileTypes
    <3> QED  BY <2>3, <3>1, FilePages
  <2>4. CASE left_to_send # <<>> /\ left_to_send' = Tail(left_to_send)
    BY <2>1, <2>4, FirstByte
  <2> QED  BY <2>2, <2>3, <2>4 DEF Host
<1>5. BootTypes'
  BY <1>1, <1>3, <1>4 DEF BootTypes
<1>6. CASE file' = file
  BY <1>1, <1>5, <1>6, StoresStill
<1>7. CASE boot_at \notin Loading
  <2>1. /\ ufm' = ufm /\ ufm_addr' = ufm_addr /\ ufm_open' = ufm_open /\ ufm_busy' = ufm_busy
        /\ ram' = ram /\ count' = count /\ stored' = stored /\ pages' = pages
        /\ page_num' = page_num /\ boot_at' = boot_at
    BY <1>1 DEF flash_vars
  <2>2. FlashTypes' /\ FlashUse' /\ Downloading'
    BY <2>1 DEF Stores, FlashTypes, FlashUse, Downloading, AllErased, Written
  <2>3. LoaderPages'
    BY <1>7, <2>1 DEF LoaderPages, Loading
  <2>4. FlashImage' = FlashImage
    BY <2>1 DEF FlashImage
  <2>5. Loaded'
    BY <2>1, <2>4 DEF Stores, Loaded, AllErased
  <2>6. Kept'
    BY <2>1, <2>4 DEF Stores, Kept
  <2> QED  BY <1>5, <2>2, <2>3, <2>5, <2>6 DEF Stores
<1> QED  BY <1>2, <1>6, <1>7

\* The page that the loader programs is the one whose address it has set.
LEMMA LoaderPage ==
  ASSUME BootTypes, Stores, AtBoot("load_page"), write_one_ufm_page(PageOf(file, ufm_addr)),
         pages' = pages \ {ufm_addr}, LoaderStep("load_wait"), UNCHANGED <<file, stored>>
  PROVE  Stores'
<1>1. boot_at = "load_page" /\ boot_at' = "load_wait" /\ boot_at \notin Closed
  BY DEF AtBoot, LoaderStep, Closed
<1>2. PICK f \in Files : f = file
  BY <1>1 DEF Stores, LoaderPages, Loading
<1>3. PICK n \in Nat : n = PageCount(f) /\ n <= RAM_PAGES /\ n * PAGE_BYTES = Len(f) /\ f \in Seq(Nat)
  BY FilePages, BootConstants
<1>4. /\ pages \subseteq 0 .. n - 1 /\ Written(f, (0 .. n - 1) \ pages)
      /\ ufm_busy = "no" /\ ufm_addr \in pages /\ ufm_open
  BY <1>1, <1>2, <1>3 DEF Stores, LoaderPages, FlashUse
<1>5. PICK a \in Nat : a = ufm_addr /\ a < n /\ a \in 0 .. TOTAL_PAGE - 1
  BY <1>3, <1>4, BootConstants
<1>6. ufm[a] = Erased
  BY <1>4, <1>5 DEF Written
<1>7. PICK data \in [1 .. PAGE_BYTES -> Nat] : data = PageOf(f, a)
  BY <1>3, <1>5, PageElements
<1>8. PageProgrammed(data)
  <2>1. obeys /\ FlashTypes /\ write_one_ufm_page(data)
    BY <1>2, <1>4, <1>5, <1>7 DEF obeys, Stores
  <2> QED  BY <1>5, <1>6, <2>1, ProgramPage
<1>9. /\ ufm_open' = ufm_open /\ ufm' = [ufm EXCEPT ![a] = data]
      /\ ufm_addr' = a + 1 /\ ufm_busy' = "program"
  BY <1>5, <1>8 DEF PageProgrammed
<1>10. FlashTypes' /\ FlashUse'
  BY <1>1, <1>4, <1>5, <1>9 DEF Stores, FlashTypes, FlashUse
<1>11. Written(f, (0 .. n - 1) \ pages)'
  <2>1. SUFFICES ASSUME NEW p \in 0 .. TOTAL_PAGE - 1
        PROVE ufm'[p] = IF p \in (0 .. n - 1) \ pages' THEN PageOf(f, p) ELSE Erased
    BY DEF Written
  <2>2. DOMAIN ufm = 0 .. TOTAL_PAGE - 1 /\ pages' = pages \ {a}
    BY <1>5 DEF Stores, FlashTypes
  <2>3. CASE p = a
    BY <1>5, <1>7, <1>9, <2>2, <2>3
  <2>4. CASE p # a
    <3>1. ufm'[p] = ufm[p] /\ (p \in (0 .. n - 1) \ pages' <=> p \in (0 .. n - 1) \ pages)
      BY <1>9, <2>2, <2>4
    <3>2. ufm[p] = IF p \in (0 .. n - 1) \ pages THEN PageOf(f, p) ELSE Erased
      BY <1>4 DEF Written
    <3> QED  BY <3>1, <3>2
  <2> QED  BY <2>3, <2>4
<1>12. LoaderPages'
  <2>1. file' = f /\ PageCount(file') = n /\ pages' \subseteq 0 .. n - 1
    BY <1>2, <1>3, <1>4
  <2>2. \A p \in 0 .. TOTAL_PAGE - 1 :
          ufm'[p] = IF p \in (0 .. n - 1) \ pages' THEN PageOf(f, p) ELSE Erased
    BY <1>11 DEF Written
  <2>3. Written(file, (0 .. PageCount(file) - 1) \ pages)'
    BY <2>1, <2>2 DEF Written
  <2> QED  BY <1>1, <2>1, <2>3 DEF LoaderPages
<1>13. Downloading' /\ Loaded' /\ Kept'
  BY <1>1 DEF Downloading, Loaded, Kept, Stores, Programming
<1> QED  BY <1>10, <1>12, <1>13 DEF Stores

LEMMA StoreDebugger == ASSUME BootTypes, Stores, Debugger PROVE BootTypes' /\ Stores'
<1>1. /\ boot_at' \in Loading /\ boot_at' \in Places
      /\ UNCHANGED <<page_num, count, ram, left_to_send>>
  BY DEF Debugger, StartLoader, Loader, LoaderStep, Loading, Places, Alone, firmware
<1>2. /\ file' \in {<<>>} \cup Files /\ pages' \subseteq Nat /\ stored' \in {<<>>} \cup Files
  <2>1. file' \in {<<>>} \cup Files
    BY DEF Debugger, StartLoader, Loader, BootTypes
  <2>2. pages' \subseteq Nat
    <3>1. boot_at = "load_erase" => PageCount(file) \in Nat
      BY FilePages, BootConstants DEF Stores, LoaderPages, Loading
    <3>2. CASE boot_at = "load_erase" /\ pages' = 0 .. PageCount(file) - 1
      BY <3>1, <3>2
    <3>3. CASE \E p \in pages : pages' = {p} \cup pages
      BY <3>3 DEF BootTypes
    <3>4. CASE pages' = pages \/ pages' = pages \ {ufm_addr}
      BY <3>4 DEF BootTypes
    <3> QED  BY <3>2, <3>3, <3>4 DEF Debugger, StartLoader, Loader, AtBoot
  <2>3. stored' \in {<<>>} \cup Files
    BY DEF Debugger, StartLoader, Loader, BootTypes
  <2> QED  BY <2>1, <2>2, <2>3
<1>3. BootTypes'
  BY <1>1, <1>2 DEF BootTypes
<1>4. Downloading' /\ Loaded'
  BY <1>1 DEF Downloading, Loaded, Loading
<1>5. CASE StartLoader
  <2>1. boot_at \in {"user", "err"} /\ boot_at' = "load_init" /\ file' \in Files /\ stored' = stored
    BY <1>5 DEF StartLoader, LoaderStep
  <2>2. ufm' = ufm /\ ufm_addr' = ufm_addr /\ ufm_open' = ufm_open /\ ufm_busy' = ufm_busy
    BY <1>5 DEF StartLoader, flash_vars
  <2>3. FlashTypes' /\ FlashUse'
    BY <2>1, <2>2 DEF Stores, FlashTypes, FlashUse, AllErased, Closed
  <2>4. LoaderPages'
    BY <2>1 DEF LoaderPages
  <2>5. FlashImage' = FlashImage
    BY <2>2 DEF FlashImage
  <2>6. Kept'
    BY <2>1, <2>5 DEF Stores, Kept, Programming
  <2> QED  BY <1>3, <1>4, <2>3, <2>4, <2>6 DEF Stores
<1>6. CASE /\ AtBoot("load_init") /\ enable_transparent_ufm /\ LoaderStep("load_erase")
           /\ UNCHANGED <<file, pages, stored>>
  <2>1. boot_at = "load_init" /\ boot_at' = "load_erase" /\ file' = file /\ stored' = stored
    BY <1>6 DEF AtBoot, LoaderStep
  <2>2. ufm' = ufm /\ ufm_addr' = ufm_addr /\ ufm_open' = TRUE /\ ufm_busy' = ufm_busy
    BY <1>6, EnableFlash
  <2>3. FlashTypes' /\ FlashUse'
    BY <2>1, <2>2 DEF Stores, FlashTypes, FlashUse, AllErased
  <2>4. LoaderPages'
    BY <2>1 DEF Stores, LoaderPages, Loading
  <2>5. FlashImage' = FlashImage
    BY <2>2 DEF FlashImage
  <2>6. Kept'
    BY <2>1, <2>5 DEF Stores, Kept, Programming
  <2> QED  BY <1>3, <1>4, <2>3, <2>4, <2>6 DEF Stores
<1>7. CASE /\ AtBoot("load_erase") /\ erase_ufm /\ LoaderStep("load_wait")
           /\ pages' = 0 .. PageCount(file) - 1 /\ stored' = <<>> /\ UNCHANGED file
  <2>1. boot_at = "load_erase" /\ boot_at' = "load_wait" /\ file' = file
    BY <1>7 DEF AtBoot, LoaderStep
  <2>2. obeys \/ (ufm_busy = "erase" /\ AllErased)
    BY <2>1, Disobeys DEF Closed
  <2>3. ufm_open' = ufm_open /\ ufm_busy' = "erase" /\ AllErased' /\ FlashTypes'
    BY <1>7, <2>2, Erasing DEF Stores
  <2>4. FlashUse'
    BY <2>1, <2>3 DEF Stores, FlashUse, Closed
  <2>5. Written(file, (0 .. PageCount(file) - 1) \ pages)'
    <3>1. \A p : p \notin (0 .. PageCount(file') - 1) \ pages'
      BY <1>7
    <3> QED  BY <2>3, <3>1 DEF AllErased, Written
  <2>6. LoaderPages'
    BY <1>7, <2>1, <2>5 DEF Stores, LoaderPages, Loading
  <2>7. Kept'
    BY <1>7 DEF Kept
  <2> QED  BY <1>3, <1>4, <2>3, <2>4, <2>6, <2>7 DEF Stores
<1>8. CASE /\ AtBoot("load_wait") /\ Delayed /\ LoaderStep("load_addr")
           /\ UNCHANGED <<file, pages, stored>>
  <2>1. boot_at = "load_wait" /\ boot_at' = "load_addr" /\ file' = file /\ stored' = stored /\ pages' = pages
    BY <1>8 DEF AtBoot, LoaderStep
  <2>2. ufm' = ufm /\ ufm_addr' = ufm_addr /\ ufm_open' = ufm_open /\ ufm_busy' = "no"
    BY <1>8 DEF Delayed, flash_vars
  <2>3. FlashTypes' /\ FlashUse'
    BY <2>1, <2>2 DEF Stores, FlashTypes, FlashUse, Closed
  <2>4. LoaderPages'
    BY <2>1, <2>2 DEF Stores, LoaderPages, Loading, Written
  <2>5. Kept'
    BY <2>1 DEF Stores, Kept, Programming
  <2> QED  BY <1>3, <1>4, <2>3, <2>4, <2>5 DEF Stores
<1>9. CASE /\ AtBoot("load_addr")
           /\ \E p \in pages : set_ufm_addr(p) /\ pages' = {p} \cup pages /\ LoaderStep("load_page")
           /\ UNCHANGED <<file, stored>>
  <2>1. boot_at = "load_addr" /\ boot_at' = "load_page" /\ file' = file /\ stored' = stored
    BY <1>9 DEF AtBoot, LoaderStep
  <2>2. PICK p \in pages : set_ufm_addr(p) /\ pages' = {p} \cup pages
    BY <1>9
  <2>3. /\ ufm_busy = "no" /\ ufm_open /\ file \in Files /\ pages \subseteq 0 .. PageCount(file) - 1
        /\ FlashTypes
    BY <2>1 DEF Stores, LoaderPages, FlashUse, Loading, Closed
  <2>4. p \in Nat /\ p < 16384
    BY <2>3, FilePages, BootConstants
  <2>5. ufm_addr' = p /\ ufm' = ufm /\ ufm_open' = ufm_open /\ ufm_busy' = ufm_busy
    <3>1. obeys
      BY <2>3 DEF obeys
    <3>2. p % 16384 = p
      BY <2>4
    <3>3. PICK page, h, l \in Nat : page = p % 16384 /\ h = page \div 256 /\ l = page % 256
      BY <2>4, <3>2
    <3>4. command_frame(LSC_WRITE_ADDRESS, 0, <<64, 0, h, l>>)
      BY <2>2, <3>3 DEF set_ufm_addr
    <3>5. h * 256 + l = p
      BY <2>4, <3>2, <3>3
    <3> QED  BY <2>3, <3>1, <3>4, <3>5, SetAddress
  <2>6. pages' = pages
    BY <2>2
  <2>7. FlashTypes' /\ FlashUse'
    BY <2>1, <2>3, <2>4, <2>5 DEF FlashTypes, FlashUse
  <2>8. LoaderPages'
    BY <2>1, <2>3, <2>5, <2>6 DEF Stores, LoaderPages, Loading, Written
  <2>9. Kept'
    BY <2>1 DEF Stores, Kept, Programming
  <2> QED  BY <1>3, <1>4, <2>7, <2>8, <2>9 DEF Stores
<1>10. CASE /\ AtBoot("load_page") /\ LoaderStep("load_wait")
            /\ write_one_ufm_page(PageOf(file, ufm_addr)) /\ pages' = pages \ {ufm_addr}
            /\ UNCHANGED <<file, stored>>
  BY <1>3, <1>10, LoaderPage
<1>11. CASE /\ AtBoot("load_addr") /\ pages = {} /\ disable_transparent_ufm /\ LoaderStep("loaded")
            /\ stored' = file /\ UNCHANGED <<file, pages>>
  <2>1. boot_at = "load_addr" /\ boot_at' = "loaded" /\ file' = file
    BY <1>11 DEF AtBoot, LoaderStep
  <2>2. ufm' = ufm /\ ufm_addr' = ufm_addr /\ ufm_open' = FALSE /\ ufm_busy' = ufm_busy
    BY <1>11, CloseFlash
  <2>3. ufm_busy = "no" /\ Written(file, (0 .. PageCount(file) - 1) \ pages)
    BY <2>1 DEF Stores, LoaderPages
  <2>4. PICK f \in Files : f = file
    BY <2>1 DEF Stores, LoaderPages, Loading
  <2>5. FlashImage = Padded(f)
    <3>1. (0 .. PageCount(f) - 1) \ pages = 0 .. PageCount(f) - 1
      BY <1>11
    <3>2. Written(f, 0 .. PageCount(f) - 1)
      BY <2>3, <2>4, <3>1
    <3>3. f \in Seq(Nat) /\ Len(f) <= Len(f)
      BY FilePages
    <3> QED  BY <3>2, <3>3, WrittenImage
  <2>6. FlashImage' = Padded(stored')
    BY <1>11, <2>2, <2>4, <2>5 DEF FlashImage
  <2>7. FlashTypes' /\ FlashUse'
    BY <2>1, <2>2, <2>3 DEF Stores, FlashTypes, FlashUse, Closed
  <2>8. LoaderPages'
    BY <2>1, <2>4 DEF LoaderPages
  <2>9. Kept'
    BY <2>1, <2>6 DEF Kept, Programming
  <2> QED  BY <1>3, <1>4, <2>7, <2>8, <2>9 DEF Stores
<1> QED  BY <1>5, <1>6, <1>7, <1>8, <1>9, <1>10, <1>11 DEF Debugger, Loader

LEMMA StoreReset ==
  ASSUME BootTypes, Stores, NEW to_ram, Reset(to_ram) PROVE BootTypes' /\ Stores'
<1>1. /\ boot_at' \in {"user", "main"} /\ stored' = stored /\ ram' = ram
      /\ page_num' = 0 /\ count' = 0 /\ left_to_send' = <<>> /\ file' = <<>> /\ pages' = {}
      /\ ufm' = ufm /\ ufm_addr' = ufm_addr /\ ufm_open' = FALSE
      /\ ufm_busy' = (IF ufm_busy = "erase" THEN "erase" ELSE "no")
  BY DEF Reset
<1>2. boot_at' \in Plain /\ boot_at' \in Closed
  BY <1>1 DEF Plain, Places, Alone, Programming, Loading, Closed
<1>3. FlashTypes' /\ (ufm_busy' = "erase" => AllErased') /\ ufm_busy' # "program"
  BY <1>1 DEF Stores, FlashTypes, FlashUse, AllErased
<1>4. FlashImage' = FlashImage
  BY <1>1 DEF FlashImage
<1>5. stored' # <<>> => FlashImage' = Padded(stored')
  BY <1>1, <1>4 DEF Stores, Kept
<1>6. Stores'
  BY <1>2, <1>3, <1>5, PlainStores
<1>7. BootTypes'
  <2>1. <<>> \in Seq(Nat)
    BY EmptySeq
  <2> QED  BY <1>1, <1>2, <2>1 DEF BootTypes, Plain
<1> QED  BY <1>6, <1>7

-----------------------------------------------------------------------------
(***************************************************************************)
(* The invariant.                                                          *)
(***************************************************************************)
LEMMA BootBegins == BootInit => BootInv
<1> SUFFICES ASSUME BootInit PROVE BootInv
  OBVIOUS
<1>1. /\ program = "boot" /\ call = "none" /\ step = 0 /\ UartRest /\ BootRest
  BY DEF BootInit
<1>2. <<>> \in Seq(Nat) /\ Len(<<>>) = 0 /\ DEPTH \in Nat
  BY EmptySeq, UartAssumption
<1>3. Serial
  <2>1. /\ rx_fifo = <<>> /\ tx_fifo = <<>> /\ tx_buffer = <<>> /\ tx_fifo_ren = FALSE
        /\ line = <<>> /\ todo = <<>> /\ rx_byte = 0
    BY <1>1 DEF UartRest, Stale
  <2>2. UartTypes
    <3>1. tx_fifo_ren \in BOOLEAN
      BY <2>1
    <3>2. /\ Len(rx_fifo) <= DEPTH /\ Len(tx_fifo) <= DEPTH /\ Len(tx_buffer) <= 1
          /\ rx_byte \in Nat
      BY <1>2, <2>1
    <3>3. /\ rx_fifo \in Seq(Nat) /\ tx_fifo \in Seq(Nat) /\ tx_buffer \in Seq(Nat)
          /\ line \in Seq(Nat) /\ todo \in Seq(Nat)
      BY <1>2, <2>1
    <3> QED  BY <3>1, <3>2, <3>3 DEF UartTypes
  <2>3. Resting /\ Len(todo) = 0
    BY <1>1, <1>2, <2>1 DEF Resting
  <2>4. UartPop
    BY <2>1 DEF UartPop
  <2> QED  BY <1>1, <2>2, <2>3, <2>4 DEF Serial, BootCalls
<1>4. BootTypes
  BY <1>1, <1>2 DEF BootRest, BootTypes, Places, Alone
<1>5. Talk
  <2>1. boot_at = "main" /\ host = "cmd"
    BY <1>1 DEF BootRest
  <2>2. Len(Inbox) = 0
    BY <1>1, <1>2, <2>1 DEF UartRest, Inbox, Reading
  <2>3. Len(Coming) = 0
    <3>1. tx_buffer = <<>> /\ tx_fifo_ren = FALSE /\ tx_fifo = <<>> /\ todo = <<>>
      BY <1>1 DEF UartRest
    <3>2. Len(tx_buffer) = 0 /\ Len(Queued) = 0 /\ Len(todo) = 0
      BY <1>2, <3>1 DEF Queued
    <3> QED  BY <1>3, <3>2, ComingFacts
  <2>4. line = <<>>
    BY <1>1 DEF UartRest
  <2>5. NoBytes /\ Silence /\ Only(ERR)
    BY <2>2, <2>3, <2>4 DEF NoBytes, Silence, Only
  <2> QED  BY <2>1, <2>5 DEF Talk, TalkQuiet, TalkCmd, TalkLen, TalkStart, TalkSend
<1>6. Stores
  <2>1. FlashTypes
    BY <1>1, ErasedType DEF BootRest, FlashTypes
  <2>2. FlashUse /\ Downloading /\ LoaderPages /\ Loaded /\ Kept
    BY <1>1 DEF BootRest, FlashUse, Downloading, LoaderPages, Loading, Loaded, Kept, Closed
  <2> QED  BY <2>1, <2>2 DEF Stores
<1> QED  BY <1>3, <1>4, <1>5, <1>6 DEF BootInv

\* The devices work while the program goes on.
LEMMA DevicesStep ==
  ASSUME BootInv, BootDevices PROVE BootInv'
<1>1. Serial /\ BootTypes /\ Talk /\ Stores
  BY DEF BootInv
<1>2. UNCHANGED <<boot_at, page_num, count, ram, host, file, left_to_send, pages, stored, call_vars>>
  BY DEF BootDevices, boot_vars
<1>3. BootTypes'
  BY <1>1, <1>2 DEF BootTypes
<1>4. CASE TransmitterSteps /\ UNCHANGED <<uart_locals, flash_vars>>
  <2>1. Serial' /\ (SameBytes \/ ByteSentOn)
    BY <1>1, <1>2, <1>4, TransmitterSent
  <2>2. Talk'
    BY <1>1, <1>2, <2>1, TalkStill, TalkSent DEF talk_vars
  <2>3. Stores'
    BY <1>1, <1>2, <1>4, StoresStill
  <2> QED  BY <1>3, <2>1, <2>2, <2>3 DEF BootInv
<1>5. CASE FlashCore /\ UNCHANGED uart_vars
  <2>1. Serial' /\ SameBytes
    <3>1. /\ UNCHANGED <<call, step, program, boot_at>>
          /\ UNCHANGED <<rx_fifo, tx_fifo, tx_buffer, tx_fifo_ren, rx_byte, todo, line>>
      BY <1>2, <1>5 DEF call_vars, uart_vars, uart_device, uart_locals, uart_history
    <3>2. Serial'
      BY <1>1, <3>1 DEF Serial, UartTypes, UartPop, BootCalls, Resting, rx_end, tx_ready
    <3> QED  BY <3>1, <3>2 DEF SameBytes, Inbox, Coming, Resting
  <2>2. Talk'
    BY <1>1, <1>2, <2>1, TalkStill DEF talk_vars
  <2>3. Stores'
    BY <1>1, <1>2, <1>5, CoreEnds
  <2> QED  BY <1>3, <2>1, <2>2, <2>3 DEF BootInv
<1> QED  BY <1>4, <1>5 DEF BootDevices

LEMMA BootStep == ASSUME BootInv, [BootNext]_bvars PROVE BootInv'
<1>1. Serial /\ BootTypes /\ Talk /\ Stores
  BY DEF BootInv
<1>2. CASE main
  BY <1>1, <1>2, TalkMain, StoreMain DEF BootInv
<1>3. CASE boot
  BY <1>1, <1>3, TalkBoot, StoreBoot DEF BootInv
<1>4. CASE AwaitCommand
  BY <1>1, <1>4, TalkCommand, StoreAwait DEF BootInv
<1>5. CASE AwaitLength
  BY <1>1, <1>5, TalkLength, StoreAwait DEF BootInv
<1>6. CASE AwaitStart
  BY <1>1, <1>6, TalkStarting, StoreAwait DEF BootInv
<1>7. CASE Erase
  BY <1>1, <1>7, TalkErase, StoreErase DEF BootInv
<1>8. CASE from_uart_download
  BY <1>1, <1>8, TalkReceive, StoreDownload DEF BootInv
<1>9. CASE AwaitConfirm
  BY <1>1, <1>9, TalkConfirm, StoreAwait DEF BootInv
<1>10. CASE UartCall
  <2>1. Serial' /\ SameBytes
    BY <1>1, <1>10, UartCallSteps
  <2>2. UNCHANGED <<flash_vars, boot_at, page_num, count, ram, host, file, left_to_send, pages, stored>>
    BY <1>10 DEF UartCall, boot_vars
  <2>3. Talk'
    BY <1>1, <2>1, <2>2, TalkStill DEF talk_vars
  <2>4. Stores'
    BY <1>1, <2>2, StoresStill
  <2>5. BootTypes'
    BY <1>1, <2>2 DEF BootTypes
  <2> QED  BY <2>1, <2>3, <2>4, <2>5 DEF BootInv
<1>11. CASE BootDevices
  BY <1>11, DevicesStep
<1>12. CASE Host
  BY <1>1, <1>12, TalkHost, StoreHost DEF BootInv
<1>13. CASE Debugger
  BY <1>1, <1>13, TalkDebugger, StoreDebugger DEF BootInv
<1>14. CASE ResetSwitch
  BY <1>1, <1>14, TalkReset, StoreReset DEF BootInv, ResetSwitch
<1>15. CASE into_rom_mode
  BY <1>1, <1>15, TalkReset, StoreReset DEF BootInv, into_rom_mode
<1>16. CASE UNCHANGED bvars
  <2>1. /\ UNCHANGED <<call, step, program, boot_at>>
        /\ UNCHANGED <<rx_fifo, tx_fifo, tx_buffer, tx_fifo_ren, rx_byte, todo, line>>
    BY <1>16 DEF bvars, boot_vars, call_vars, uart_vars, uart_device, uart_locals, uart_history
  <2>2. UNCHANGED <<flash_vars, boot_at, page_num, count, ram, host, file, left_to_send, pages, stored>>
    BY <1>16 DEF bvars, boot_vars
  <2>3. Serial'
    BY <1>1, <2>1 DEF Serial, UartTypes, UartPop, BootCalls, Resting, rx_end, tx_ready
  <2>4. SameBytes
    BY <2>1 DEF SameBytes, Inbox, Coming, Resting
  <2>5. Talk' /\ Stores' /\ BootTypes'
    BY <1>1, <2>2, <2>4, TalkStill, StoresStill DEF talk_vars, BootTypes
  <2> QED  BY <2>3, <2>5 DEF BootInv
<1> QED  BY <1>2, <1>3, <1>4, <1>5, <1>6, <1>7, <1>8, <1>9, <1>10, <1>11, <1>12, <1>13, <1>14,
            <1>15, <1>16 DEF BootNext, BootProgram, Download

LEMMA BootInvariant == BootSpec => []BootInv
<1>1. BootInv /\ [BootNext]_bvars => BootInv'
  BY BootStep
<1> QED  BY <1>1, BootBegins, PTL DEF BootSpec

\* After any sequence of downloads, wrong lengths, loaders and resets the flash
\* holds the last file that was confirmed, all of it and nothing else, until the
\* next erasure; and what boot tests, and then starts, is all that the flash
\* holds.
THEOREM ImageIsWhole == BootSpec => []ImageWhole
<1>1. BootInv => ImageWhole
  BY DEF BootInv, Stores, Kept, Loaded, ImageWhole, AtBoot
<1> QED  BY <1>1, BootInvariant, PTL
=============================================================================
