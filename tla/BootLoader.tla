----------------------------- MODULE BootLoader -----------------------------
(***************************************************************************)
(* From the boot sector to C: boot.S opens address line 20 through the     *)
(* keyboard controller and switches to protected mode; bootmain and        *)
(* readseg (boot/main.c) read the kernel from the disk, sector by sector,  *)
(* while controller and disk work at their own pace; the kernel's first    *)
(* instructions (kern/entry.S) turn paging on with the tables of           *)
(* kern/entrypgdir.c and move to the addresses the kernel is linked for;   *)
(* i386_init (kern/init.c) clears what the file has no bytes for.          *)
(*                                                                         *)
(* The byte at position b of the kernel's file is the number b itself.     *)
(***************************************************************************)
EXTENDS Integers, Sequences

CONSTANTS
  SECTSIZE,    \* bytes of a sector
  ELFHDR,      \* where the first page of the file is read to
  HdrSectors,  \* sectors of that page
  PGSIZE, NPTENTRIES,
  MB,          \* the addresses from MB on need address line 20
  Images       \* program headers of the kernels that may be on the disk

(* Physical memory is what entry_pgtable maps, 4 MB.                       *)
Memory == 0 .. PGSIZE * NPTENTRIES - 1
Garbage == -1
Zero == -2

RoundDown(a) == a - (a % SECTSIZE)
SectorEnd(a) == RoundDown(a + SECTSIZE - 1)
HdrEnd == ELFHDR + HdrSectors * SECTSIZE

(* A kernel as linked by kern/kernel.ld: segments behind the header page   *)
(* and in memory, at the same place of a sector in memory as in the file,  *)
(* two of them in one sector only if the file has them there too, and only *)
(* the last one longer than its bytes in the file.  The first is the code. *)
Segment == [p_pa : Memory, p_offset : Nat, p_filesz : Nat, p_memsz : Nat]

Linked(hs) ==
  /\ hs # <<>> /\ hs[1].p_memsz > 0
  /\ \A i \in DOMAIN hs :
       /\ hs[i].p_filesz <= hs[i].p_memsz
       /\ i < Len(hs) => hs[i].p_filesz = hs[i].p_memsz
       /\ RoundDown(hs[i].p_pa) >= HdrEnd
       /\ SectorEnd(hs[i].p_pa + hs[i].p_memsz) <= PGSIZE * NPTENTRIES
       /\ hs[i].p_pa % SECTSIZE = hs[i].p_offset % SECTSIZE
  /\ \A i, k \in DOMAIN hs : i < k =>
       \/ SectorEnd(hs[i].p_pa + hs[i].p_memsz) <= RoundDown(hs[k].p_pa)
       \/ /\ hs[i].p_pa + hs[i].p_memsz <= hs[k].p_pa
          /\ hs[k].p_pa - hs[i].p_pa = hs[k].p_offset - hs[i].p_offset

ASSUME SizesAssumption ==
  /\ SECTSIZE \in Nat \ {0} /\ HdrSectors \in Nat \ {0}
  /\ PGSIZE \in Nat \ {0} /\ NPTENTRIES \in Nat \ {0}
  /\ PGSIZE % SECTSIZE = 0
  /\ ELFHDR \in Nat /\ ELFHDR % SECTSIZE = 0 /\ HdrEnd <= PGSIZE * NPTENTRIES
  /\ MB \in Nat \ {0} /\ MB % SECTSIZE = 0 /\ HdrEnd <= MB
ASSUME ImagesAssumption == \A hs \in Images : hs \in Seq(Segment) /\ Linked(hs)

VARIABLES
  ph,          \* the kernel's program headers
  magic,       \* whether its file is an ELF file
  kbc,         \* the keyboard controller: "busy" with what came before,
               \* "idle", "d1" not taken yet, "expects" the next byte for
               \* its output port, "df" not taken yet
  a20, pe,     \* whether address line 20 is open; CR0.PE
  disk,        \* "busy" or "ready"
  request,     \* the sector asked for last
  mem,
  seg,         \* the program header being loaded, 0 for the first page
  pa, end_pa, offset,  \* locals of readseg
  cr3, paging, half,   \* page directory, CR0.PG, and whether EIP is "low" or
                       \* "high", linked at KERNBASE
  pc

locals == <<seg, pa, end_pa, offset>>
start == <<kbc, a20, pe>>
cpu == <<cr3, paging, half>>
vars == <<ph, magic, start, disk, request, mem, locals, cpu, pc>>

-----------------------------------------------------------------------------

(* A call readseg(a, count, off): the end first, then down to a sector.    *)
Readseg(a, count, off) ==
  /\ end_pa' = a + count
  /\ pa' = RoundDown(a)
  /\ offset' = off \div SECTSIZE + 1

(* The BIOS has read boot.S and jumped to it; controller and disk may      *)
(* still be at what the BIOS asked of them.                                *)
Init ==
  /\ ph \in Images
  /\ magic \in BOOLEAN
  /\ kbc \in {"busy", "idle"} /\ a20 = FALSE /\ pe = FALSE
  /\ disk \in {"busy", "ready"} /\ request = 0
  /\ mem = [a \in Memory |-> Garbage]
  /\ seg = 0 /\ end_pa = 0 /\ pa = 0 /\ offset = 0
  /\ cr3 = "none" /\ paging = FALSE /\ half = "low"
  /\ pc = "seta20.1"

-----------------------------------------------------------------------------
(* boot.S.                                                                 *)

(* The input buffer of the controller is empty: bit 1 of its status.       *)
Taken == kbc \in {"idle", "expects"}

SetA20_1 ==
  /\ pc = "seta20.1" /\ Taken
  /\ kbc' = "d1"
  /\ pc' = "seta20.2"
  /\ UNCHANGED <<ph, magic, a20, pe, disk, request, mem, locals, cpu>>

(* What comes at another time than after d1 is not for the output port.    *)
SetA20_2 ==
  /\ pc = "seta20.2" /\ Taken
  /\ kbc' = IF kbc = "expects" THEN "df" ELSE "busy"
  /\ pc' = "protect"
  /\ UNCHANGED <<ph, magic, a20, pe, disk, request, mem, locals, cpu>>

(* The flat segments, protected mode, the stack, and bootmain, which reads *)
(* the first page.                                                         *)
Protect ==
  /\ pc = "protect"
  /\ pe' = TRUE
  /\ Readseg(ELFHDR, SECTSIZE * HdrSectors, 0)
  /\ pc' = "load"
  /\ UNCHANGED <<ph, magic, kbc, a20, disk, request, mem, seg, cpu>>

(* The controller takes the byte it was given.                             *)
Controller ==
  /\ kbc \in {"busy", "d1", "df"}
  /\ kbc' = IF kbc = "d1" THEN "expects" ELSE "idle"
  /\ a20' = (a20 \/ kbc = "df")
  /\ UNCHANGED <<ph, magic, pe, disk, request, mem, locals, cpu, pc>>

-----------------------------------------------------------------------------
(* boot/main.c.                                                            *)

(* The disk finishes what it does.  Nothing waits for the controller to    *)
(* take the last byte: it is assumed to have done so by the time the disk  *)
(* has read the first page.                                                *)
DiskReady ==
  /\ disk = "busy"
  /\ seg > 0 => kbc # "df"
  /\ disk' = "ready"
  /\ UNCHANGED <<ph, magic, start, request, mem, locals, cpu, pc>>

(* Mutant: the wrong status bit is waited for.                             *)
WaitedWrong == disk = "busy"

(* Mutant: it is not waited for.                                           *)
WaitedNever == TRUE

(* The loop of waitdisk ends.                                              *)
Waited == disk = "ready"

(* A busy disk takes no command.                                           *)
Command ==
  /\ pc = "load" /\ pa < end_pa /\ Waited
  /\ request' = IF disk = "ready" THEN offset ELSE request
  /\ disk' = "busy"
  /\ pc' = "data"
  /\ UNCHANGED <<ph, magic, start, mem, locals, cpu>>

SectorByte(s, k) == (s - 1) * SECTSIZE + k

(* The address that a reaches: bit 20 is 0 while the line is closed.       *)
Line(a) == IF ~a20 /\ (a \div MB) % 2 = 1 THEN a - MB ELSE a

(* A sector stored from address a on; a busy disk has no data to give.     *)
Stored(a, s) ==
  [b \in Memory |-> IF b \in Line(a) .. Line(a) + SECTSIZE - 1
                    THEN IF disk = "ready" THEN SectorByte(s, b - Line(a)) ELSE Garbage
                    ELSE mem[b]]

(* Mutant: a sector too many is stored.                                    *)
TransferTwo ==
  /\ pc = "data" /\ Waited
  /\ mem' = [b \in Memory |-> IF b \in Line(pa + SECTSIZE) .. Line(pa + SECTSIZE) + SECTSIZE - 1
                              THEN SectorByte(request + 1, b - Line(pa + SECTSIZE))
                              ELSE Stored(pa, request)[b]]
  /\ pa' = pa + 2 * SECTSIZE
  /\ offset' = offset + 2
  /\ pc' = "load"
  /\ UNCHANGED <<ph, magic, start, disk, request, seg, end_pa, cpu>>

Transfer ==
  /\ pc = "data" /\ Waited
  /\ mem' = Stored(pa, request)
  /\ pa' = pa + SECTSIZE
  /\ offset' = offset + 1
  /\ pc' = "load"
  /\ UNCHANGED <<ph, magic, start, disk, request, seg, end_pa, cpu>>

(* readseg returns to bootmain, which goes on to the next segment, enters  *)
(* the kernel, or gives up on a file that is not ELF.                      *)
SegmentDone ==
  /\ pc = "load" /\ pa >= end_pa
  /\ IF seg = 0 /\ ~magic
       THEN pc' = "bad" /\ UNCHANGED locals
       ELSE IF seg < Len(ph)
         THEN /\ seg' = seg + 1
              /\ Readseg(ph[seg + 1].p_pa, ph[seg + 1].p_memsz, ph[seg + 1].p_offset)
              /\ UNCHANGED pc
         ELSE pc' = "entry" /\ UNCHANGED locals
  /\ UNCHANGED <<ph, magic, start, disk, request, mem, cpu>>

-----------------------------------------------------------------------------
(* The kernel's entry.                                                     *)

entry_pgtable == [i \in 0 .. NPTENTRIES - 1 |-> [frame |-> i, flags |-> {"P", "W"}]]

(* Mutant: the kernel's own addresses only.                                *)
entry_pgdirHigh(h) == IF h = "low" THEN {} ELSE {"P", "W"}

(* The flags of the two entries of entry_pgdir, for the first 4 MB and for *)
(* the 4 MB at KERNBASE; both point to entry_pgtable.                      *)
entry_pgdir(h) == IF h = "low" THEN {"P"} ELSE {"P", "W"}

LoadCr3 ==
  /\ pc = "entry"
  /\ cr3' = "entry_pgdir"
  /\ pc' = "cr3"
  /\ UNCHANGED <<ph, magic, start, disk, request, mem, locals, paging, half>>

EnablePaging ==
  /\ pc = "cr3"
  /\ paging' = TRUE
  /\ pc' = "paged"
  /\ UNCHANGED <<ph, magic, start, disk, request, mem, locals, cr3, half>>

(* jmp *%eax to the linked address of `relocated`.                         *)
JumpHigh ==
  /\ pc = "paged"
  /\ half' = "high"
  /\ pc' = "relocated"
  /\ UNCHANGED <<ph, magic, start, disk, request, mem, locals, cr3, paging>>

bss == [from |-> ph[Len(ph)].p_pa + ph[Len(ph)].p_filesz,
        to   |-> ph[Len(ph)].p_pa + ph[Len(ph)].p_memsz]

(* i386_init, on its stack at high addresses, zeroes from edata to end.    *)
ClearBss ==
  /\ pc = "relocated"
  /\ mem' = [a \in Memory |-> IF a \in bss.from .. bss.to - 1 THEN Zero ELSE mem[a]]
  /\ pc' = "C"
  /\ UNCHANGED <<ph, magic, start, disk, request, locals, cpu>>

Cpu == SetA20_1 \/ SetA20_2 \/ Protect \/ Command \/ Transfer \/ SegmentDone
         \/ LoadCr3 \/ EnablePaging \/ JumpHigh \/ ClearBss

Next == Cpu \/ Controller \/ DiskReady

Spec == Init /\ [][Next]_vars

(* The CPU runs on, and controller and disk answer every command.          *)
FairSpec == Spec /\ WF_vars(Cpu) /\ WF_vars(Controller) /\ WF_vars(DiskReady)

-----------------------------------------------------------------------------

(* Types, and that loading only writes whole sectors inside memory.        *)
TypeOK ==
  /\ ph \in Seq(Segment) /\ magic \in BOOLEAN
  /\ kbc \in {"busy", "idle", "d1", "expects", "df"} /\ a20 \in BOOLEAN /\ pe \in BOOLEAN
  /\ disk \in {"busy", "ready"} /\ request \in Nat
  /\ mem \in [Memory -> Nat \union {Garbage, Zero}]
  /\ seg \in 0 .. Len(ph)
  /\ pa % SECTSIZE = 0 /\ pa \in 0 .. PGSIZE * NPTENTRIES
  /\ pc = "data" => pa < end_pa
  /\ end_pa \in 0 .. PGSIZE * NPTENTRIES
  /\ offset \in Nat
  /\ cr3 \in {"none", "entry_pgdir"} /\ paging \in BOOLEAN
  /\ half \in {"low", "high"}
  /\ pc \in {"seta20.1", "seta20.2", "protect", "load", "data", "bad",
             "entry", "cr3", "paged", "relocated", "C"}

(* bootmain takes each program header from the page at ELFHDR just before  *)
(* it loads that segment: none loaded before may have changed the page.    *)
HeadersIntact ==
  seg > 0 /\ pc \in {"load", "data"} =>
    \A a \in ELFHDR .. HdrEnd - 1 : mem[a] = a - ELFHDR

(* The program headers stay as they are for as long as they are read       *)
(* (main.c:50-55).  From its first instruction on, the kernel is in memory *)
(* as it is in its file: rounding to sectors, at both ends of a segment,   *)
(* overwrites no byte of another (main.c:72-95), and no address of it is   *)
(* folded onto another one by a closed line 20 (boot.S:24-42); and C code  *)
(* starts with zeroes where the file has nothing (init.c:17-20).           *)
KernelInPlace ==
  /\ HeadersIntact
  /\ pc \in {"entry", "cr3", "paged", "relocated", "C"} =>
       \A i \in DOMAIN ph : \A k \in 0 .. ph[i].p_memsz - 1 :
         LET byte == mem[ph[i].p_pa + k]
         IN IF k < ph[i].p_filesz THEN byte = ph[i].p_offset + k
            ELSE pc = "C" => byte = Zero

(* What an address with the given upper half and offset within 4 MB means. *)
Phys(h, off) ==
  entry_pgtable[off \div PGSIZE].frame * PGSIZE + (off % PGSIZE)

(* Paging comes on in protected mode only, with line 20 open; from then on *)
(* every instruction up to C is fetched from where the kernel was loaded,  *)
(* at the low address before the jump and at the high one after it; and    *)
(* the BSS can be written through the addresses C uses (entry.S:57-80,     *)
(* entrypgdir.c:6-29).                                                     *)
StaysMapped ==
  paging =>
    /\ pe /\ a20
    /\ cr3 = "entry_pgdir" /\ "P" \in entry_pgdir(half)
    /\ Phys(half, ph[1].p_pa) = ph[1].p_pa
    /\ pc \in {"relocated", "C"} =>
         /\ "W" \in entry_pgdir(half)
         /\ \A a \in bss.from .. bss.to - 1 :
              Phys(half, a) = a /\ "W" \in entry_pgtable[a \div PGSIZE].flags

(* A kernel is entered, or a file that is none is refused, however slow    *)
(* the disk.                                                               *)
Boots == <>(IF magic THEN pc = "C" ELSE pc = "bad")
=============================================================================
