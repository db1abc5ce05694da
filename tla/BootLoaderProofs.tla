------------------------- MODULE BootLoaderProofs -------------------------
(***************************************************************************)
(* For every kernel, sector and page size: paging comes on in protected    *)
(* mode with address line 20 open, what runs from there on is mapped, and  *)
(* it is in memory as it is in its file, however its segments share the    *)
(* sectors of the disk.                                                    *)
(***************************************************************************)
EXTENDS BootLoader, TLAPS

Entered == {"entry", "cr3", "paged", "relocated", "C"}

(* Where the line's opening is on its way, and where it is known to be     *)
(* open: the disk has delivered a sector of a segment by then.             *)
LineInv ==
  /\ ph \in Images
  /\ seg \in Nat /\ seg <= Len(ph)
  /\ pc \in {"seta20.1", "seta20.2", "protect", "load", "data", "bad"} \union Entered
  /\ kbc \in {"busy", "idle", "d1", "expects", "df"}
  /\ pc = "seta20.1" => kbc \in {"busy", "idle"}
  /\ pc = "seta20.2" => kbc \in {"d1", "expects"}
  /\ pc \notin {"seta20.1", "seta20.2"} => kbc = "df" \/ a20
  /\ pc \notin {"seta20.1", "seta20.2", "protect"} => pe
  /\ pc \in {"seta20.1", "seta20.2", "protect"} => seg = 0
  /\ pc = "data" /\ seg > 0 /\ disk = "ready" => a20
  /\ seg = 1 /\ pc = "load" => a20 \/ ~(pa >= end_pa)
  /\ seg > 1 => a20
  /\ pc \in Entered => a20

(* What the kernel's entry has done so far.                                *)
EntryInv ==
  /\ paging => pc \in Entered /\ cr3 = "entry_pgdir"
  /\ half = IF pc \in {"relocated", "C"} THEN "high" ELSE "low"
  /\ pc \in {"cr3", "paged", "relocated", "C"} => cr3 = "entry_pgdir"

IInv == LineInv /\ EntryInv

-----------------------------------------------------------------------------

(* Rounding stays within a sector.                                         *)
LEMMA Rounding ==
  ASSUME NEW a \in Nat
  PROVE  /\ RoundDown(a) \in Nat /\ RoundDown(a) <= a
         /\ SectorEnd(a) \in Nat /\ a <= SectorEnd(a)
<1>1. ASSUME NEW b \in Nat
      PROVE  RoundDown(b) \in Nat /\ RoundDown(b) <= b /\ b < RoundDown(b) + SECTSIZE
  <2>1. b % SECTSIZE \in 0 .. SECTSIZE - 1 /\ b % SECTSIZE <= b
    BY SizesAssumption
  <2> QED BY <2>1, SizesAssumption DEF RoundDown
<1>2. a + SECTSIZE - 1 \in Nat
  BY SizesAssumption
<1>3. SectorEnd(a) \in Nat /\ a + SECTSIZE - 1 < SectorEnd(a) + SECTSIZE
  BY <1>1, <1>2 DEF SectorEnd
<1> QED BY <1>1, <1>3, SizesAssumption

(* The page table is the identity on the memory it maps.                   *)
LEMMA PhysIdentity ==
  ASSUME NEW a \in Memory, NEW h
  PROVE  /\ a \div PGSIZE \in DOMAIN entry_pgtable
         /\ Phys(h, a) = a
<1>1. a \in Nat /\ a < PGSIZE * NPTENTRIES
  BY SizesAssumption DEF Memory
<1>2. a \div PGSIZE \in Nat /\ (a \div PGSIZE) * PGSIZE + (a % PGSIZE) = a
  BY <1>1, SizesAssumption
<1>3. a \div PGSIZE < NPTENTRIES
  BY <1>1, SizesAssumption
<1>4. a \div PGSIZE \in 0 .. NPTENTRIES - 1
  BY <1>2, <1>3, SizesAssumption
<1> QED BY <1>2, <1>4 DEF Phys, entry_pgtable

(* What the assumption on the images says of the one that is on the disk.  *)
LEMMA FirstSegment ==
  ASSUME ph \in Images
  PROVE  /\ Len(ph) \in Nat /\ Len(ph) > 0
         /\ \A i \in 1 .. Len(ph) : /\ ph[i] \in Segment
                                    /\ ph[i].p_filesz <= ph[i].p_memsz
                                    /\ SectorEnd(ph[i].p_pa + ph[i].p_memsz) <= PGSIZE * NPTENTRIES
         /\ ph[1].p_memsz > 0
BY ImagesAssumption DEF Linked

(* The BSS and the kernel's first byte are in the memory that is mapped.   *)
LEMMA InMemory ==
  ASSUME ph \in Images
  PROVE  ph[1].p_pa \in Memory /\ bss.from .. bss.to - 1 \subseteq Memory
<1> DEFINE last == ph[Len(ph)]
<1>1. ph[1] \in Segment /\ last \in Segment /\ last.p_filesz <= last.p_memsz
      /\ SectorEnd(last.p_pa + last.p_memsz) <= PGSIZE * NPTENTRIES
  BY FirstSegment
<1>2. last.p_pa \in Nat /\ last.p_memsz \in Nat /\ last.p_filesz \in Nat
  BY <1>1 DEF Segment, Memory
<1>3. last.p_pa + last.p_memsz <= PGSIZE * NPTENTRIES
  <2>1. last.p_pa + last.p_memsz \in Nat
    BY <1>2
  <2>2. last.p_pa + last.p_memsz <= SectorEnd(last.p_pa + last.p_memsz)
        /\ SectorEnd(last.p_pa + last.p_memsz) \in Nat
    BY <2>1, Rounding
  <2>3. PGSIZE * NPTENTRIES \in Nat
    BY SizesAssumption
  <2> QED BY <1>1, <2>1, <2>2, <2>3
<1>4. bss.from = last.p_pa + last.p_filesz /\ bss.to = last.p_pa + last.p_memsz
  BY DEF bss
<1>5. PGSIZE * NPTENTRIES \in Nat
  BY SizesAssumption
<1> HIDE DEF last
<1>6. bss.from .. bss.to - 1 \subseteq Memory
  BY <1>2, <1>3, <1>4, <1>5 DEF Memory
<1>7. ph[1].p_pa \in Memory
  BY <1>1 DEF Segment
<1> QED BY <1>6, <1>7

(* With what the entry has done, every address it uses is mapped.          *)
LEMMA MappedThen ==
  ASSUME IInv
  PROVE  StaysMapped
<1> SUFFICES ASSUME paging PROVE StaysMapped
  BY DEF StaysMapped
<1>1. ph \in Images /\ pc \in Entered /\ pe /\ a20 /\ cr3 = "entry_pgdir"
  BY DEF IInv, LineInv, EntryInv, Entered
<1>2. "P" \in entry_pgdir(half)
  BY DEF entry_pgdir
<1>3. Phys(half, ph[1].p_pa) = ph[1].p_pa
  BY <1>1, InMemory, PhysIdentity
<1>4. pc \in {"relocated", "C"} => "W" \in entry_pgdir(half)
  BY DEF IInv, EntryInv, entry_pgdir
<1>5. ASSUME NEW a \in bss.from .. bss.to - 1
      PROVE  Phys(half, a) = a /\ "W" \in entry_pgtable[a \div PGSIZE].flags
  <2>1. a \in Memory
    BY <1>1, <1>5, InMemory
  <2>2. a \div PGSIZE \in DOMAIN entry_pgtable /\ Phys(half, a) = a
    BY <2>1, PhysIdentity
  <2>3. entry_pgtable[a \div PGSIZE].flags = {"P", "W"}
    BY <2>2 DEF entry_pgtable
  <2> QED BY <2>2, <2>3
<1> QED BY <1>1, <1>2, <1>3, <1>4, <1>5 DEF StaysMapped

-----------------------------------------------------------------------------

(* A segment has bytes to read when readseg is called for the first one.   *)
LEMMA FirstHasBytes ==
  ASSUME ph \in Images
  PROVE  RoundDown(ph[1].p_pa) < ph[1].p_pa + ph[1].p_memsz
<1>1. ph[1].p_pa \in Nat /\ ph[1].p_memsz \in Nat /\ ph[1].p_memsz > 0
  BY FirstSegment DEF Segment, Memory
<1> QED BY <1>1, Rounding

LEMMA SegmentDonePreserves ==
  ASSUME IInv, SegmentDone
  PROVE  IInv'
<1> USE DEF Entered
<1>1. /\ pc = "load" /\ pa >= end_pa /\ ph' = ph /\ kbc' = kbc /\ a20' = a20 /\ pe' = pe
      /\ disk' = disk /\ cr3' = cr3 /\ paging' = paging /\ half' = half
  BY DEF SegmentDone, start, cpu
<1>2. ph \in Images /\ Len(ph) \in Nat /\ Len(ph) > 0 /\ seg \in Nat /\ seg <= Len(ph)
      /\ (kbc = "df" \/ a20) /\ pe /\ (seg > 1 => a20) /\ ~paging /\ half = "low"
      /\ kbc \in {"busy", "idle", "d1", "expects", "df"}
  BY <1>1, FirstSegment DEF IInv, LineInv, EntryInv
<1>3. CASE seg = 0 /\ ~magic
  <2>1. pc' = "bad" /\ seg' = 0
    BY <1>1, <1>3 DEF SegmentDone, locals
  <2> QED BY <1>1, <1>2, <2>1 DEF IInv, LineInv, EntryInv
<1>4. CASE ~(seg = 0 /\ ~magic) /\ seg < Len(ph)
  <2>1. pc' = "load" /\ seg' = seg + 1
        /\ Readseg(ph[seg + 1].p_pa, ph[seg + 1].p_memsz, ph[seg + 1].p_offset)
    BY <1>1, <1>4 DEF SegmentDone
  <2>2. seg' = 1 => a20' \/ ~(pa' >= end_pa')
    <3> SUFFICES ASSUME seg' = 1 PROVE ~(pa' >= end_pa')
      OBVIOUS
    <3>1. seg + 1 = 1
      BY <2>1
    <3>2. pa' = RoundDown(ph[1].p_pa) /\ end_pa' = ph[1].p_pa + ph[1].p_memsz
      BY <2>1, <3>1 DEF Readseg
    <3>3. ph[1] \in Segment
      BY <1>2, FirstSegment
    <3>4. ph[1].p_pa \in Nat /\ ph[1].p_memsz \in Nat
      BY <3>3 DEF Segment, Memory
    <3>5. RoundDown(ph[1].p_pa) \in Nat
      BY <3>4, Rounding
    <3>6. RoundDown(ph[1].p_pa) < ph[1].p_pa + ph[1].p_memsz
      BY <1>2, FirstHasBytes
    <3> QED BY <3>2, <3>4, <3>5, <3>6
  <2>3. seg' > 1 => a20'
    <3>1. seg = 1 => a20
      BY <1>1 DEF IInv, LineInv
    <3> QED BY <1>1, <1>2, <2>1, <3>1
  <2> QED BY <1>1, <1>2, <1>4, <2>1, <2>2, <2>3 DEF IInv, LineInv, EntryInv
<1>5. CASE ~(seg = 0 /\ ~magic) /\ ~(seg < Len(ph))
  <2>1. pc' = "entry" /\ seg' = seg
    BY <1>1, <1>5 DEF SegmentDone, locals
  <2>2. a20
    <3>1. seg = 1 => a20
      BY <1>1 DEF IInv, LineInv
    <3> QED BY <1>2, <1>5, <3>1
  <2> QED BY <1>1, <1>2, <2>1, <2>2 DEF IInv, LineInv, EntryInv
<1> QED BY <1>3, <1>4, <1>5

LEMMA IInvInit == Init => IInv
BY FirstSegment DEF Init, IInv, LineInv, EntryInv, Entered

(* Every step keeps what is known of line 20 and of the kernel's entry.    *)
LEMMA IInvStep ==
  ASSUME IInv, [Next]_vars
  PROVE  IInv'
<1> USE DEF IInv, LineInv, EntryInv, Entered
<1>1. CASE SetA20_1
  BY <1>1 DEF SetA20_1, Taken, locals, cpu
<1>2. CASE SetA20_2
  BY <1>2 DEF SetA20_2, Taken, locals, cpu
<1>3. CASE Protect
  BY <1>3 DEF Protect, cpu
<1>4. CASE Command
  BY <1>4 DEF Command, Waited, start, locals, cpu
<1>5. CASE Transfer
  BY <1>5 DEF Transfer, Waited, start, cpu
<1>6. CASE SegmentDone
  BY <1>6, SegmentDonePreserves
<1>7. CASE LoadCr3
  BY <1>7 DEF LoadCr3, start, locals
<1>8. CASE EnablePaging
  BY <1>8 DEF EnablePaging, start, locals
<1>9. CASE JumpHigh
  BY <1>9 DEF JumpHigh, start, locals
<1>10. CASE ClearBss
  BY <1>10 DEF ClearBss, start, locals, cpu
<1>11. CASE Controller
  BY <1>11 DEF Controller, locals, cpu
<1>12. CASE DiskReady
  BY <1>12 DEF DiskReady, start, locals, cpu
<1>13. CASE UNCHANGED vars
  BY <1>13 DEF vars, start, locals, cpu
<1> QED BY <1>1, <1>2, <1>3, <1>4, <1>5, <1>6, <1>7, <1>8, <1>9, <1>10,
           <1>11, <1>12, <1>13 DEF Next, Cpu

(* The kernel is mapped, at low and high addresses, whatever it is and     *)
(* however slow the disk (boot.S, main.c:38-60, entry.S:57-80).            *)
THEOREM MappedCorrect == Spec => []StaysMapped
<1>1. IInv => StaysMapped
  BY MappedThen
<1> QED BY <1>1, IInvInit, IInvStep, PTL DEF Spec

-----------------------------------------------------------------------------
(* Sectors.                                                                *)

(* The addresses that sectors start at.                                    *)
Aligned(a) == a \in Nat /\ a % SECTSIZE = 0

LEMMA AlignedFactor ==
  ASSUME NEW a \in Nat
  PROVE  Aligned(a) <=> \E x \in Nat : a = SECTSIZE * x
<1>1. Aligned(a) => \E x \in Nat : a = SECTSIZE * x
  <2>1. a \div SECTSIZE \in Nat /\ a = SECTSIZE * (a \div SECTSIZE) + (a % SECTSIZE)
    BY SizesAssumption
  <2>2. SECTSIZE * (a \div SECTSIZE) \in Nat
    BY <2>1, SizesAssumption
  <2>3. Aligned(a) => a = SECTSIZE * (a \div SECTSIZE)
    BY <2>1, <2>2 DEF Aligned
  <2> QED BY <2>1, <2>3
<1>2. \A x \in Nat : (SECTSIZE * x) % SECTSIZE = 0
  BY SizesAssumption
<1> QED BY <1>1, <1>2 DEF Aligned

(* The next sector starts SECTSIZE further on, and none in between.        *)
LEMMA NextSector ==
  ASSUME NEW a \in Nat, Aligned(a)
  PROVE  /\ Aligned(a + SECTSIZE)
         /\ \A b \in Nat : Aligned(b) /\ a < b => a + SECTSIZE <= b
<1>1. PICK x \in Nat : a = SECTSIZE * x
  BY AlignedFactor
<1>2. Aligned(a + SECTSIZE)
  <2>1. x + 1 \in Nat /\ a + SECTSIZE = SECTSIZE * (x + 1) /\ a + SECTSIZE \in Nat
    BY <1>1, SizesAssumption
  <2> QED BY <2>1, AlignedFactor
<1>3. ASSUME NEW b \in Nat, Aligned(b), a < b
      PROVE  a + SECTSIZE <= b
  <2>1. PICK y \in Nat : b = SECTSIZE * y
    BY <1>3, AlignedFactor
  <2>2. x < y
    BY <1>1, <1>3, <2>1, SizesAssumption
  <2>3. SECTSIZE * x + SECTSIZE <= SECTSIZE * y
    BY <2>2, SizesAssumption
  <2> QED BY <1>1, <2>1, <2>3
<1> QED BY <1>2, <1>3

LEMMA RoundDownAligned ==
  ASSUME NEW a \in Nat
  PROVE  Aligned(RoundDown(a)) /\ RoundDown(a) <= a
<1>1. a \div SECTSIZE \in Nat /\ a = SECTSIZE * (a \div SECTSIZE) + (a % SECTSIZE)
  BY SizesAssumption
<1>2. RoundDown(a) = SECTSIZE * (a \div SECTSIZE)
  BY <1>1, SizesAssumption DEF RoundDown
<1>3. RoundDown(a) \in Nat /\ RoundDown(a) <= a
  BY Rounding
<1> QED BY <1>1, <1>2, <1>3, AlignedFactor

(* Memory, and the header page in it, consist of sectors.                  *)
LEMMA Layout ==
  /\ Aligned(PGSIZE * NPTENTRIES) /\ Aligned(ELFHDR) /\ Aligned(MB)
  /\ HdrEnd = ELFHDR + SECTSIZE * HdrSectors
  /\ ELFHDR < HdrEnd /\ HdrEnd \in Nat /\ HdrEnd <= MB /\ HdrEnd <= PGSIZE * NPTENTRIES
<1>1. PICK x \in Nat : PGSIZE = SECTSIZE * x
  BY AlignedFactor, SizesAssumption DEF Aligned
<1>2. x * NPTENTRIES \in Nat /\ PGSIZE * NPTENTRIES = SECTSIZE * (x * NPTENTRIES)
  BY <1>1, SizesAssumption
<1>3. Aligned(PGSIZE * NPTENTRIES)
  <2>1. PGSIZE * NPTENTRIES \in Nat
    BY SizesAssumption
  <2> QED BY <1>2, <2>1, AlignedFactor
<1>4. HdrEnd = ELFHDR + SECTSIZE * HdrSectors
  BY SizesAssumption DEF HdrEnd
<1>5. SECTSIZE * HdrSectors \in Nat \ {0}
  BY SizesAssumption
<1> QED BY <1>3, <1>4, <1>5, SizesAssumption DEF Aligned

-----------------------------------------------------------------------------
(* What readseg is asked for: segment 0 is the header page.                *)

Part(s) ==
  IF s = 0
    THEN [p_pa |-> ELFHDR, p_offset |-> 0, p_memsz |-> SECTSIZE * HdrSectors]
    ELSE [p_pa |-> ph[s].p_pa, p_offset |-> ph[s].p_offset, p_memsz |-> ph[s].p_memsz]

Bytes(s) == Part(s).p_pa .. Part(s).p_pa + Part(s).p_memsz - 1
FileByte(s, b) == b - Part(s).p_pa + Part(s).p_offset

LEMMA PartType ==
  ASSUME ph \in Images, NEW s \in 0 .. Len(ph)
  PROVE  /\ Part(s).p_pa \in Nat /\ Part(s).p_offset \in Nat /\ Part(s).p_memsz \in Nat
         /\ Part(s).p_pa + Part(s).p_memsz <= PGSIZE * NPTENTRIES
         /\ Part(s).p_pa % SECTSIZE = Part(s).p_offset % SECTSIZE
<1>1. CASE s = 0
  BY <1>1, Layout, SizesAssumption DEF Part, Aligned
<1>2. CASE s # 0
  <2>1. s \in 1 .. Len(ph) /\ DOMAIN ph = 1 .. Len(ph)
    BY <1>2, ImagesAssumption
  <2>2. /\ ph[s] \in Segment
        /\ SectorEnd(ph[s].p_pa + ph[s].p_memsz) <= PGSIZE * NPTENTRIES
        /\ ph[s].p_pa % SECTSIZE = ph[s].p_offset % SECTSIZE
    BY <2>1, ImagesAssumption DEF Linked
  <2>3. ph[s].p_pa \in Nat /\ ph[s].p_offset \in Nat /\ ph[s].p_memsz \in Nat
    BY <2>2 DEF Segment, Memory
  <2>. DEFINE e == ph[s].p_pa + ph[s].p_memsz
  <2>4. e \in Nat
    BY <2>3
  <2>5. e <= SectorEnd(e) /\ SectorEnd(e) \in Nat
    BY <2>4, Rounding
  <2>6. SectorEnd(e) <= PGSIZE * NPTENTRIES /\ PGSIZE * NPTENTRIES \in Nat
    BY <2>2, SizesAssumption
  <2>. HIDE DEF e
  <2>7. e <= PGSIZE * NPTENTRIES
    BY <2>4, <2>5, <2>6
  <2> QED BY <1>2, <2>2, <2>3, <2>7 DEF Part, e
<1> QED BY <1>1, <1>2

(* A sector that is read for one segment holds, where it reaches back into *)
(* another one, what the other one has there: two of them share a sector   *)
(* in memory only if they do in the file.                                  *)
LEMMA Harmless ==
  ASSUME ph \in Images, NEW s \in 1 .. Len(ph), NEW i \in 0 .. s - 1,
         NEW b \in Bytes(i), NEW a \in Nat, RoundDown(Part(s).p_pa) <= a, a <= b
  PROVE  FileByte(i, b) = FileByte(s, b)
<1>1. Len(ph) \in Nat /\ DOMAIN ph = 1 .. Len(ph) /\ i \in 0 .. Len(ph) /\ s \in 0 .. Len(ph)
  BY ImagesAssumption
<1>2. /\ Part(i).p_pa \in Nat /\ Part(i).p_memsz \in Nat /\ Part(i).p_offset \in Nat
      /\ Part(s).p_pa \in Nat /\ Part(s).p_offset \in Nat
  BY <1>1, PartType
<1>3. b \in Nat /\ b < Part(i).p_pa + Part(i).p_memsz
  BY <1>2 DEF Bytes
<1>4. s \in DOMAIN ph /\ Part(s).p_pa = ph[s].p_pa /\ Part(s).p_offset = ph[s].p_offset
  BY <1>1 DEF Part
<1>5. RoundDown(ph[s].p_pa) \in Nat /\ RoundDown(ph[s].p_pa) <= b
  <2>1. ph[s].p_pa \in Nat
    BY <1>2, <1>4
  <2>2. RoundDown(ph[s].p_pa) \in Nat
    BY <2>1, Rounding
  <2>3. RoundDown(ph[s].p_pa) <= a
    BY <1>4
  <2> QED BY <1>3, <2>2, <2>3
<1>6. CASE i = 0
  <2>1. RoundDown(ph[s].p_pa) >= HdrEnd
    BY <1>4, ImagesAssumption DEF Linked
  <2>2. b < HdrEnd
    BY <1>3, <1>6, Layout DEF Part
  <2> QED BY <1>3, <1>5, <2>1, <2>2, Layout
<1>7. CASE i # 0
  <2>1. i \in DOMAIN ph /\ i < s /\ Part(i).p_pa = ph[i].p_pa
        /\ Part(i).p_memsz = ph[i].p_memsz /\ Part(i).p_offset = ph[i].p_offset
    BY <1>1, <1>7 DEF Part
  <2>. DEFINE e == ph[i].p_pa + ph[i].p_memsz
  <2>2. \/ SectorEnd(e) <= RoundDown(ph[s].p_pa)
        \/ ph[s].p_pa - ph[i].p_pa = ph[s].p_offset - ph[i].p_offset
    BY <1>4, <2>1, ImagesAssumption DEF Linked
  <2>3. e \in Nat /\ b < e
    BY <1>2, <1>3, <2>1
  <2>4. e <= SectorEnd(e) /\ SectorEnd(e) \in Nat
    BY <2>3, Rounding
  <2>. HIDE DEF e
  <2>5. ph[s].p_pa - ph[i].p_pa = ph[s].p_offset - ph[i].p_offset
    BY <1>3, <1>5, <2>2, <2>3, <2>4
  <2>6. Part(s).p_pa - Part(i).p_pa = Part(s).p_offset - Part(i).p_offset
    BY <1>4, <2>1, <2>5
  <2>. DEFINE p == Part(i).p_pa
              o == Part(i).p_offset
              u == Part(s).p_pa
              c == Part(s).p_offset
  <2>7. p \in Nat /\ o \in Nat /\ u \in Nat /\ c \in Nat /\ u - p = c - o
    BY <1>2, <2>6
  <2>. HIDE DEF p, o, u, c
  <2>8. b - p + o = b - u + c
    BY <1>3, <2>7
  <2> QED BY <2>8 DEF FileByte, p, o, u, c
<1> QED BY <1>6, <1>7

-----------------------------------------------------------------------------
(* Reading: where readseg is, and what has come in.                        *)

Loading == pc \in {"load", "data"}

ReadInv ==
  Loading =>
    /\ Aligned(pa) /\ RoundDown(Part(seg).p_pa) <= pa
    /\ end_pa = Part(seg).p_pa + Part(seg).p_memsz
    /\ offset > 0
    /\ (offset - 1) * SECTSIZE + Part(seg).p_pa = Part(seg).p_offset + pa
    /\ pc = "data" => request = offset /\ pa < end_pa

LoadedInv ==
  /\ Loading => \A s \in 0 .. seg : \A b \in Bytes(s) :
                  (s < seg \/ b < pa) => mem[b] = FileByte(s, b)
  /\ pc \in Entered => seg = Len(ph)
  /\ pc \in Entered \ {"C"} => \A s \in 1 .. seg : \A b \in Bytes(s) :
                                 mem[b] = FileByte(s, b)
  /\ pc = "C" => \A s \in 1 .. seg : \A b \in Bytes(s) :
                   mem[b] = IF b < ph[s].p_pa + ph[s].p_filesz THEN FileByte(s, b)
                            ELSE Zero

PlaceInv == TypeOK /\ ReadInv /\ LoadedInv

(* A call of readseg starts where the part does.                           *)
LEMMA ReadsegStarts ==
  ASSUME ph \in Images, NEW s \in 0 .. Len(ph),
         Readseg(Part(s).p_pa, Part(s).p_memsz, Part(s).p_offset)
  PROVE  /\ Aligned(pa') /\ RoundDown(Part(s).p_pa) <= pa' /\ pa' <= Part(s).p_pa
         /\ pa' \in 0 .. PGSIZE * NPTENTRIES /\ end_pa' \in 0 .. PGSIZE * NPTENTRIES
         /\ end_pa' = Part(s).p_pa + Part(s).p_memsz
         /\ offset' \in Nat /\ offset' > 0
         /\ (offset' - 1) * SECTSIZE + Part(s).p_pa = Part(s).p_offset + pa'
<1>. DEFINE a == Part(s).p_pa
            o == Part(s).p_offset
            z == Part(s).p_memsz
<1>1. /\ a \in Nat /\ o \in Nat /\ z \in Nat /\ a + z <= PGSIZE * NPTENTRIES
      /\ a % SECTSIZE = o % SECTSIZE
  BY PartType
<1>2. end_pa' = a + z /\ pa' = RoundDown(a) /\ offset' = o \div SECTSIZE + 1
  BY DEF Readseg
<1>. HIDE DEF a, o, z
<1>3. Aligned(pa') /\ pa' <= a /\ pa' \in Nat
  BY <1>1, <1>2, RoundDownAligned, Rounding
<1>4. pa' \in 0 .. PGSIZE * NPTENTRIES /\ end_pa' \in 0 .. PGSIZE * NPTENTRIES
  BY <1>1, <1>2, <1>3, SizesAssumption
<1>5. /\ o \div SECTSIZE \in Nat /\ o = SECTSIZE * (o \div SECTSIZE) + (o % SECTSIZE)
      /\ a % SECTSIZE \in Nat
  BY <1>1, SizesAssumption
<1>6. offset' \in Nat /\ offset' > 0 /\ offset' - 1 = o \div SECTSIZE
  BY <1>2, <1>5
<1>7. (offset' - 1) * SECTSIZE = o - (o % SECTSIZE)
  <2>. DEFINE x == o \div SECTSIZE
  <2>1. x \in Nat /\ SECTSIZE * x = x * SECTSIZE /\ x * SECTSIZE \in Nat
    BY <1>5, SizesAssumption
  <2> QED BY <1>1, <1>5, <1>6, <2>1
<1>8. pa' = a - (a % SECTSIZE)
  BY <1>2 DEF RoundDown
<1>9. (offset' - 1) * SECTSIZE + a = o + pa'
  BY <1>1, <1>3, <1>5, <1>7, <1>8
<1>10. pa' = RoundDown(a)
  BY <1>2
<1> QED BY <1>2, <1>3, <1>4, <1>6, <1>9, <1>10 DEF a, o, z

(* The part that is read, and its place in memory.                         *)
LEMMA Reading ==
  ASSUME IInv, PlaceInv, Loading
  PROVE  /\ ph \in Images /\ seg \in 0 .. Len(ph) /\ Aligned(pa) /\ pa \in Nat
         /\ RoundDown(Part(seg).p_pa) <= pa
         /\ end_pa = Part(seg).p_pa + Part(seg).p_memsz /\ end_pa \in Nat
         /\ end_pa <= PGSIZE * NPTENTRIES
         /\ Part(seg).p_pa \in Nat /\ Part(seg).p_offset \in Nat /\ Part(seg).p_memsz \in Nat
         /\ offset \in Nat /\ offset > 0
         /\ (offset - 1) * SECTSIZE + Part(seg).p_pa = Part(seg).p_offset + pa
<1>1. ph \in Images /\ seg \in 0 .. Len(ph)
  BY DEF IInv, LineInv, PlaceInv, TypeOK
<1>2. end_pa \in Nat /\ end_pa <= PGSIZE * NPTENTRIES /\ offset \in Nat
  BY SizesAssumption DEF PlaceInv, TypeOK
<1>3. /\ Aligned(pa) /\ RoundDown(Part(seg).p_pa) <= pa /\ offset > 0
      /\ end_pa = Part(seg).p_pa + Part(seg).p_memsz
      /\ (offset - 1) * SECTSIZE + Part(seg).p_pa = Part(seg).p_offset + pa
  BY DEF PlaceInv, ReadInv
<1>4. Part(seg).p_pa \in Nat /\ Part(seg).p_offset \in Nat /\ Part(seg).p_memsz \in Nat
  BY <1>1, PartType
<1>5. pa \in Nat
  BY <1>3 DEF Aligned
<1> QED BY <1>1, <1>2, <1>3, <1>4, <1>5

(* No address is folded when a sector arrives.                             *)
LEMMA LineOpen ==
  ASSUME IInv, PlaceInv, pc = "data", disk = "ready"
  PROVE  Line(pa) = pa
<1>1. CASE seg = 0
  <2>1. Loading /\ pa < end_pa
    BY DEF Loading, PlaceInv, ReadInv
  <2>2. pa \in Nat /\ end_pa = HdrEnd
    BY <1>1, <2>1, Reading, Layout DEF Part
  <2>3. pa < MB
    BY <2>1, <2>2, Layout, SizesAssumption
  <2>4. pa \div MB = 0
    BY <2>2, <2>3, SizesAssumption
  <2> QED BY <2>4 DEF Line
<1>2. CASE seg # 0
  <2>1. seg > 0
    BY <1>2 DEF IInv, LineInv
  <2>2. a20
    BY <2>1 DEF IInv, LineInv
  <2> QED BY <2>2 DEF Line
<1> QED BY <1>1, <1>2

(* The sector that arrives holds the bytes that belong where it is stored. *)
LEMMA SectorRight ==
  ASSUME IInv, PlaceInv, pc = "data", disk = "ready",
         NEW b \in pa .. pa + SECTSIZE - 1
  PROVE  SectorByte(request, b - pa) = FileByte(seg, b)
<1>1. Loading /\ request = offset
  BY DEF Loading, PlaceInv, ReadInv
<1>. DEFINE a == Part(seg).p_pa
            o == Part(seg).p_offset
            n == (offset - 1) * SECTSIZE
<1>2. /\ pa \in Nat /\ a \in Nat /\ o \in Nat /\ n + a = o + pa
      /\ offset \in Nat /\ offset > 0
  BY <1>1, Reading
<1>3. n \in Int
  BY <1>2, SizesAssumption
<1>4. SectorByte(request, b - pa) = n + (b - pa)
  BY <1>1 DEF SectorByte
<1>5. FileByte(seg, b) = b - a + o
  BY DEF FileByte
<1>. HIDE DEF a, o, n
<1>6. b \in Int
  BY <1>2, SizesAssumption
<1> QED BY <1>2, <1>3, <1>4, <1>5, <1>6

LEMMA TransferKeeps ==
  ASSUME IInv, PlaceInv, Transfer
  PROVE  PlaceInv'
<1>1. /\ pc = "data" /\ disk = "ready" /\ mem' = Stored(pa, request)
      /\ pa' = pa + SECTSIZE /\ offset' = offset + 1 /\ pc' = "load"
      /\ UNCHANGED <<ph, magic, kbc, a20, pe, disk, request, seg, end_pa, cr3, paging, half>>
  BY DEF Transfer, Waited, start, cpu
<1>2. Loading /\ Loading' /\ pa < end_pa /\ request = offset
  BY <1>1 DEF Loading, PlaceInv, ReadInv
<1>. DEFINE top == PGSIZE * NPTENTRIES
<1>3. /\ ph \in Images /\ seg \in 0 .. Len(ph) /\ Aligned(pa) /\ pa \in Nat
      /\ RoundDown(Part(seg).p_pa) <= pa
      /\ end_pa = Part(seg).p_pa + Part(seg).p_memsz /\ end_pa \in Nat /\ end_pa <= top
      /\ Part(seg).p_pa \in Nat /\ Part(seg).p_offset \in Nat /\ offset \in Nat /\ offset > 0
      /\ (offset - 1) * SECTSIZE + Part(seg).p_pa = Part(seg).p_offset + pa
  BY <1>2, Reading
<1>4. top \in Nat /\ Aligned(top)
  BY Layout, SizesAssumption
<1>. HIDE DEF top
<1>5. pa < top
  BY <1>2, <1>3, <1>4
<1>6. Aligned(pa + SECTSIZE) /\ pa + SECTSIZE <= top
  BY <1>3, <1>4, <1>5, NextSector
<1>7. \A b \in Memory : mem'[b] = IF b \in pa .. pa + SECTSIZE - 1 THEN FileByte(seg, b) ELSE mem[b]
  <2>1. Line(pa) = pa
    BY <1>1, LineOpen
  <2>2. \A b \in Memory : mem'[b] = IF b \in pa .. pa + SECTSIZE - 1
                                     THEN SectorByte(request, b - pa) ELSE mem[b]
    BY <1>1, <2>1 DEF Stored
  <2>3. \A b \in pa .. pa + SECTSIZE - 1 : SectorByte(request, b - pa) = FileByte(seg, b)
    BY <1>1, SectorRight
  <2> QED BY <2>2, <2>3
<1>8. TypeOK'
  <2>1. mem' \in [Memory -> Nat \union {Garbage, Zero}]
    <3>1. \A b \in Memory : mem[b] \in Nat \union {Garbage, Zero}
      BY DEF PlaceInv, TypeOK
    <3>2. ASSUME NEW b \in pa .. pa + SECTSIZE - 1
          PROVE  SectorByte(request, b - pa) \in Nat
      <4>1. request - 1 \in Nat /\ b - pa \in Nat
        BY <1>2, <1>3, SizesAssumption
      <4>2. (request - 1) * SECTSIZE \in Nat
        BY <4>1, SizesAssumption
      <4> QED BY <4>1, <4>2 DEF SectorByte
    <3>3. \A b \in pa .. pa + SECTSIZE - 1 : FileByte(seg, b) \in Nat
      BY <1>1, <3>2, SectorRight
    <3>4. \A b \in Memory : mem'[b] \in Nat \union {Garbage, Zero}
      BY <1>7, <3>1, <3>3
    <3>5. mem' = [b \in Memory |-> mem'[b]]
      BY <1>1 DEF Stored
    <3> QED BY <3>4, <3>5
  <2>2. pa' % SECTSIZE = 0 /\ pa' \in 0 .. PGSIZE * NPTENTRIES
    BY <1>1, <1>4, <1>6 DEF Aligned, top
  <2>3. offset' \in Nat
    BY <1>1, <1>3
  <2> QED BY <1>1, <2>1, <2>2, <2>3 DEF PlaceInv, TypeOK
<1>9. ReadInv'
  <2>. DEFINE n == (offset - 1) * SECTSIZE
  <2>1. Part(seg)' = Part(seg)
    BY <1>1 DEF Part
  <2>2. RoundDown(Part(seg).p_pa) \in Nat
    BY <1>3, Rounding
  <2>3. RoundDown(Part(seg).p_pa) <= pa + SECTSIZE
    BY <1>3, <2>2, SizesAssumption
  <2>4. n \in Int /\ (offset' - 1) * SECTSIZE = n + SECTSIZE
    <3>1. offset' - 1 = (offset - 1) + 1 /\ offset - 1 \in Nat
      BY <1>1, <1>3
    <3> QED BY <3>1, SizesAssumption
  <2>. DEFINE a == Part(seg).p_pa
              o == Part(seg).p_offset
  <2>5. n + a = o + pa /\ a \in Nat /\ o \in Nat /\ pa \in Nat /\ n \in Int /\ SECTSIZE \in Nat
    BY <1>3, <2>4, SizesAssumption
  <2>6. (n + SECTSIZE) + a = o + (pa + SECTSIZE)
    <3>. HIDE DEF n, a, o
    <3> QED BY <2>5
  <2>7. offset' > 0
    BY <1>1, <1>3
  <2> QED BY <1>1, <1>3, <1>6, <2>1, <2>3, <2>4, <2>6, <2>7 DEF ReadInv
<1>10. LoadedInv'
  <2>1. \A s : Part(s)' = Part(s) /\ Bytes(s)' = Bytes(s)
    BY <1>1 DEF Part, Bytes
  <2>2. \A s, b : FileByte(s, b)' = FileByte(s, b)
    BY <2>1 DEF FileByte
  <2>3. ASSUME NEW s \in 0 .. seg, NEW b \in Bytes(s), s < seg \/ b < pa + SECTSIZE
        PROVE  mem'[b] = FileByte(s, b)
    <3>1. s \in 0 .. Len(ph) /\ s \in Nat
      BY <1>3, ImagesAssumption
    <3>2. Part(s).p_pa \in Nat /\ Part(s).p_memsz \in Nat /\ Part(s).p_pa + Part(s).p_memsz <= top
      BY <1>3, <3>1, PartType DEF top
    <3>3. b \in Nat /\ b < top
      BY <1>4, <3>2 DEF Bytes
    <3>4. b \in Memory
      BY <1>4, <3>3 DEF Memory, top
    <3>5. CASE b \in pa .. pa + SECTSIZE - 1
      <4>1. mem'[b] = FileByte(seg, b)
        BY <1>7, <3>4, <3>5
      <4>2. CASE s = seg
        BY <4>1, <4>2
      <4>3. CASE s # seg
        <5>1. seg \in 1 .. Len(ph) /\ s \in 0 .. seg - 1
          BY <1>3, <3>1, <4>3, ImagesAssumption
        <5>2. pa <= b
          BY <3>5
        <5>3. FileByte(s, b) = FileByte(seg, b)
          BY <1>3, <5>1, <5>2, Harmless
        <5> QED BY <4>1, <5>3
      <4> QED BY <4>2, <4>3
    <3>6. CASE b \notin pa .. pa + SECTSIZE - 1
      <4>1. mem'[b] = mem[b]
        BY <1>7, <3>4, <3>6
      <4>2. s < seg \/ b < pa
        BY <1>3, <2>3, <3>3, <3>6, SizesAssumption
      <4>3. mem[b] = FileByte(s, b)
        BY <1>2, <4>2 DEF PlaceInv, LoadedInv
      <4> QED BY <4>1, <4>3
    <3> QED BY <3>5, <3>6
  <2> QED BY <1>1, <2>1, <2>2, <2>3 DEF LoadedInv, Entered
<1> QED BY <1>8, <1>9, <1>10 DEF PlaceInv

-----------------------------------------------------------------------------
(* The other steps.                                                        *)

(* The boot sector calls readseg for the header page.                      *)
LEMMA ProtectKeeps ==
  ASSUME IInv, PlaceInv, Protect
  PROVE  PlaceInv'
<1>1. /\ pc = "protect" /\ pc' = "load" /\ pe' = TRUE
      /\ UNCHANGED <<ph, magic, kbc, a20, disk, request, mem, seg, cr3, paging, half>>
      /\ Readseg(ELFHDR, SECTSIZE * HdrSectors, 0)
  BY DEF Protect, cpu
<1>2. ph \in Images /\ Len(ph) \in Nat /\ seg = 0 /\ 0 \in 0 .. Len(ph)
  BY <1>1, FirstSegment DEF IInv, LineInv
<1>3. Part(0) = [p_pa |-> ELFHDR, p_offset |-> 0, p_memsz |-> SECTSIZE * HdrSectors]
      /\ Part(0)' = Part(0)
  BY DEF Part
<1>4. Readseg(Part(0).p_pa, Part(0).p_memsz, Part(0).p_offset)
  BY <1>1, <1>3
<1>5. /\ Aligned(pa') /\ RoundDown(Part(0).p_pa) <= pa' /\ pa' <= Part(0).p_pa
      /\ pa' \in 0 .. PGSIZE * NPTENTRIES /\ end_pa' \in 0 .. PGSIZE * NPTENTRIES
      /\ end_pa' = Part(0).p_pa + Part(0).p_memsz
      /\ offset' \in Nat /\ offset' > 0
      /\ (offset' - 1) * SECTSIZE + Part(0).p_pa = Part(0).p_offset + pa'
  BY <1>2, <1>4, ReadsegStarts
<1>6. TypeOK'
  BY <1>1, <1>5 DEF PlaceInv, TypeOK, Aligned
<1>7. ReadInv'
  BY <1>1, <1>2, <1>3, <1>5 DEF ReadInv
<1>8. LoadedInv'
  <2>1. ASSUME NEW s \in 0 .. 0, NEW b \in Bytes(s)
        PROVE  ~(s < 0 \/ b < pa')
    BY <1>2, <1>5, PartType DEF Bytes
  <2>2. \A s : s = 0 => Bytes(s)' = Bytes(s)
    BY <1>3 DEF Bytes
  <2> QED BY <1>1, <1>2, <2>1, <2>2 DEF LoadedInv, Loading, Entered
<1> QED BY <1>6, <1>7, <1>8 DEF PlaceInv

(* readseg asks for the sector that offset says.                           *)
LEMMA CommandKeeps ==
  ASSUME IInv, PlaceInv, Command
  PROVE  PlaceInv'
<1>1. /\ pc = "load" /\ pc' = "data" /\ pa < end_pa /\ request' = offset /\ disk' = "busy"
      /\ UNCHANGED <<ph, magic, kbc, a20, pe, mem, seg, pa, end_pa, offset, cr3, paging, half>>
  BY DEF Command, Waited, start, locals, cpu
<1>2. \A s : Part(s)' = Part(s) /\ Bytes(s)' = Bytes(s)
  BY <1>1 DEF Part, Bytes
<1>3. \A s, b : FileByte(s, b)' = FileByte(s, b)
  BY <1>2 DEF FileByte
<1>4. TypeOK'
  BY <1>1 DEF PlaceInv, TypeOK
<1>5. ReadInv'
  BY <1>1, <1>2 DEF PlaceInv, ReadInv, Loading
<1>6. LoadedInv'
  BY <1>1, <1>2, <1>3 DEF PlaceInv, LoadedInv, Loading, Entered
<1> QED BY <1>4, <1>5, <1>6 DEF PlaceInv

(* readseg returns: every byte of its part has come in.                    *)
LEMMA SegmentDoneKeeps ==
  ASSUME IInv, PlaceInv, SegmentDone
  PROVE  PlaceInv'
<1>1. /\ pc = "load" /\ pa >= end_pa
      /\ UNCHANGED <<ph, magic, kbc, a20, pe, disk, request, mem, cr3, paging, half>>
  BY DEF SegmentDone, start, cpu
<1>2. /\ ph \in Images /\ seg \in 0 .. Len(ph) /\ Len(ph) \in Nat /\ pa \in Nat
      /\ end_pa = Part(seg).p_pa + Part(seg).p_memsz /\ end_pa \in Nat
      /\ Part(seg).p_pa \in Nat /\ Part(seg).p_memsz \in Nat
  BY <1>1, Reading, FirstSegment DEF Loading
<1>3. \A s : Part(s)' = Part(s) /\ Bytes(s)' = Bytes(s)
  BY <1>1 DEF Part, Bytes
<1>4. \A s, b : FileByte(s, b)' = FileByte(s, b)
  BY <1>3 DEF FileByte
<1>5. ASSUME NEW s \in 0 .. seg, NEW b \in Bytes(s)
      PROVE  mem[b] = FileByte(s, b)
  <2>1. s < seg \/ s = seg
    BY <1>2
  <2>2. s = seg => b < pa
    BY <1>1, <1>2 DEF Bytes
  <2> QED BY <1>1, <2>1, <2>2 DEF PlaceInv, LoadedInv, Loading
<1>6. CASE seg = 0 /\ ~magic
  <2>1. pc' = "bad" /\ UNCHANGED <<seg, pa, end_pa, offset>>
    BY <1>6 DEF SegmentDone, locals
  <2>2. TypeOK'
    BY <1>1, <2>1 DEF PlaceInv, TypeOK
  <2> QED BY <2>1, <2>2 DEF PlaceInv, ReadInv, LoadedInv, Loading, Entered
<1>7. CASE ~(seg = 0 /\ ~magic) /\ seg < Len(ph)
  <2>. DEFINE t == seg + 1
  <2>1. /\ seg' = t /\ pc' = "load"
        /\ Readseg(ph[t].p_pa, ph[t].p_memsz, ph[t].p_offset)
    BY <1>1, <1>7 DEF SegmentDone
  <2>2. t \in 0 .. Len(ph) /\ t # 0
    BY <1>2, <1>7
  <2>. HIDE DEF t
  <2>3. Readseg(Part(t).p_pa, Part(t).p_memsz, Part(t).p_offset)
    BY <2>1, <2>2 DEF Part
  <2>4. /\ Aligned(pa') /\ RoundDown(Part(t).p_pa) <= pa' /\ pa' <= Part(t).p_pa
        /\ pa' \in 0 .. PGSIZE * NPTENTRIES /\ end_pa' \in 0 .. PGSIZE * NPTENTRIES
        /\ end_pa' = Part(t).p_pa + Part(t).p_memsz
        /\ offset' \in Nat /\ offset' > 0
        /\ (offset' - 1) * SECTSIZE + Part(t).p_pa = Part(t).p_offset + pa'
    BY <1>2, <2>2, <2>3, ReadsegStarts
  <2>5. TypeOK'
    BY <1>1, <2>1, <2>2, <2>4 DEF PlaceInv, TypeOK, Aligned
  <2>6. ReadInv'
    BY <1>3, <2>1, <2>4 DEF ReadInv
  <2>7. ASSUME NEW s \in 0 .. t, NEW b \in Bytes(s), s < t \/ b < pa'
        PROVE  mem[b] = FileByte(s, b)
    <3>1. s # t
      <4>1. Part(t).p_pa \in Nat /\ Part(t).p_memsz \in Nat
        BY <1>2, <2>2, PartType
      <4>2. ASSUME s = t PROVE FALSE
        <5>1. b >= Part(t).p_pa /\ b \in Int
          BY <4>1, <4>2 DEF Bytes
        <5>2. b < pa' /\ pa' \in Nat
          BY <2>2, <2>4, <2>7, <4>2 DEF Aligned
        <5> QED BY <2>4, <4>1, <5>1, <5>2
      <4> QED BY <4>2
    <3>2. s \in 0 .. seg
      BY <1>2, <3>1 DEF t
    <3> QED BY <1>5, <3>2
  <2>8. LoadedInv'
    BY <1>1, <1>3, <1>4, <2>1, <2>7 DEF LoadedInv, Entered
  <2> QED BY <2>5, <2>6, <2>8 DEF PlaceInv
<1>8. CASE ~(seg = 0 /\ ~magic) /\ ~(seg < Len(ph))
  <2>1. pc' = "entry" /\ UNCHANGED <<seg, pa, end_pa, offset>>
    BY <1>8 DEF SegmentDone, locals
  <2>2. TypeOK'
    BY <1>1, <2>1 DEF PlaceInv, TypeOK
  <2>3. seg' = Len(ph')
    BY <1>1, <1>2, <1>8, <2>1
  <2>4. \A s \in 1 .. seg' : \A b \in Bytes(s)' : mem'[b] = FileByte(s, b)'
    BY <1>1, <1>2, <1>3, <1>4, <1>5, <2>1
  <2> QED BY <2>1, <2>2, <2>3, <2>4 DEF PlaceInv, ReadInv, LoadedInv, Loading, Entered
<1> QED BY <1>6, <1>7, <1>8

(* i386_init zeroes nothing of a segment before the last one.              *)
LEMMA ClearBssKeeps ==
  ASSUME IInv, PlaceInv, ClearBss
  PROVE  PlaceInv'
<1>1. /\ pc = "relocated" /\ pc' = "C"
      /\ mem' = [a \in Memory |-> IF a \in bss.from .. bss.to - 1 THEN Zero ELSE mem[a]]
      /\ UNCHANGED <<ph, magic, kbc, a20, pe, disk, request, seg, pa, end_pa, offset, cr3, paging, half>>
  BY DEF ClearBss, start, locals, cpu
<1>2. ph \in Images /\ Len(ph) \in Nat /\ Len(ph) > 0 /\ DOMAIN ph = 1 .. Len(ph)
  BY FirstSegment, ImagesAssumption DEF IInv, LineInv
<1>3. seg = Len(ph) /\ \A s \in 1 .. seg : \A b \in Bytes(s) : mem[b] = FileByte(s, b)
  BY <1>1 DEF PlaceInv, LoadedInv, Entered
<1>4. \A s : Part(s)' = Part(s) /\ Bytes(s)' = Bytes(s)
  BY <1>1 DEF Part, Bytes
<1>5. \A s, b : FileByte(s, b)' = FileByte(s, b)
  BY <1>4 DEF FileByte
<1>6. TypeOK'
  <2>1. \A a \in Memory : mem[a] \in Nat \union {Garbage, Zero}
    BY DEF PlaceInv, TypeOK
  <2>2. mem' \in [Memory -> Nat \union {Garbage, Zero}]
    BY <1>1, <2>1
  <2> QED BY <1>1, <2>2 DEF PlaceInv, TypeOK
<1>. DEFINE n == Len(ph)
<1>7. n \in Nat /\ n = Len(ph)
  BY <1>2
<1>8. ASSUME NEW s \in 1 .. n, NEW b \in Bytes(s)
      PROVE  mem'[b] = IF b < ph[s].p_pa + ph[s].p_filesz THEN FileByte(s, b) ELSE Zero
  <2>1. /\ ph[s] \in Segment /\ ph[n] \in Segment /\ s \in DOMAIN ph /\ n \in DOMAIN ph
        /\ ph[s].p_filesz <= ph[s].p_memsz
        /\ s < n => ph[s].p_filesz = ph[s].p_memsz
    BY <1>2, ImagesAssumption DEF Linked
  <2>2. /\ ph[s].p_pa \in Nat /\ ph[s].p_memsz \in Nat /\ ph[s].p_filesz \in Nat
        /\ ph[n].p_pa \in Nat /\ ph[n].p_memsz \in Nat /\ ph[n].p_filesz \in Nat
    BY <2>1 DEF Segment, Memory
  <2>3. b \in Nat /\ b >= ph[s].p_pa /\ b < ph[s].p_pa + ph[s].p_memsz
    <3>1. Part(s).p_pa = ph[s].p_pa /\ Part(s).p_memsz = ph[s].p_memsz
      BY <1>7 DEF Part
    <3> QED BY <2>2, <3>1 DEF Bytes
  <2>4. b \in Memory
    <3>1. /\ Part(s).p_pa \in Nat /\ Part(s).p_memsz \in Nat
          /\ Part(s).p_pa + Part(s).p_memsz <= PGSIZE * NPTENTRIES
      BY <1>2, PartType
    <3>2. b < Part(s).p_pa + Part(s).p_memsz
      BY <2>3 DEF Part
    <3> QED BY <2>3, <3>1, <3>2, SizesAssumption DEF Memory
  <2>5. bss.from = ph[n].p_pa + ph[n].p_filesz /\ bss.to = ph[n].p_pa + ph[n].p_memsz
    BY DEF bss
  <2>6. mem[b] = FileByte(s, b)
    BY <1>3
  <2>. HIDE DEF n
  <2>7. CASE s = n
    BY <1>1, <2>2, <2>3, <2>4, <2>5, <2>6, <2>7
  <2>8. CASE s # n
    <3>1. s < n
      BY <1>7, <2>8
    <3>. DEFINE e == ph[s].p_pa + ph[s].p_memsz
    <3>2. SectorEnd(e) <= RoundDown(ph[n].p_pa) \/ e <= ph[n].p_pa
      BY <1>2, <2>1, <3>1, ImagesAssumption DEF Linked
    <3>3. e \in Nat
      BY <2>2
    <3>4. e <= SectorEnd(e) /\ SectorEnd(e) \in Nat
          /\ RoundDown(ph[n].p_pa) \in Nat /\ RoundDown(ph[n].p_pa) <= ph[n].p_pa
      BY <2>2, <3>3, Rounding
    <3>5. e <= ph[n].p_pa
      <4>. HIDE DEF e
      <4> QED BY <2>2, <3>2, <3>3, <3>4
    <3>6. b \notin bss.from .. bss.to - 1
      BY <2>2, <2>3, <2>5, <3>5
    <3>7. b < ph[s].p_pa + ph[s].p_filesz
      BY <2>1, <2>3, <3>1
    <3> QED BY <1>1, <2>4, <2>6, <3>6, <3>7
  <2> QED BY <2>7, <2>8
<1>9. LoadedInv'
  <2>1. \A s \in 1 .. seg' : \A b \in Bytes(s)' :
          mem'[b] = IF b < ph'[s].p_pa + ph'[s].p_filesz THEN FileByte(s, b)' ELSE Zero
    BY <1>1, <1>3, <1>4, <1>5, <1>8
  <2> QED BY <1>1, <1>3, <2>1 DEF LoadedInv, Loading, Entered
<1>10. ReadInv'
  BY <1>1 DEF ReadInv, Loading
<1> QED BY <1>6, <1>9, <1>10 DEF PlaceInv

(* The steps that leave memory and readseg alone.                          *)
LEMMA OthersKeep ==
  ASSUME IInv, PlaceInv,
         SetA20_1 \/ SetA20_2 \/ LoadCr3 \/ EnablePaging \/ JumpHigh
           \/ Controller \/ DiskReady \/ UNCHANGED vars
  PROVE  PlaceInv'
<1>1. /\ UNCHANGED <<ph, magic, pe, request, mem, seg, pa, end_pa, offset>>
      /\ \/ pc' = pc
         \/ pc = "seta20.1" /\ pc' = "seta20.2"
         \/ pc = "seta20.2" /\ pc' = "protect"
         \/ pc = "entry" /\ pc' = "cr3"
         \/ pc = "cr3" /\ pc' = "paged"
         \/ pc = "paged" /\ pc' = "relocated"
  BY DEF SetA20_1, SetA20_2, LoadCr3, EnablePaging, JumpHigh, Controller, DiskReady,
         vars, start, locals, cpu
<1>2. \A s : Part(s)' = Part(s) /\ Bytes(s)' = Bytes(s)
  BY <1>1 DEF Part, Bytes
<1>3. \A s, b : FileByte(s, b)' = FileByte(s, b)
  BY <1>2 DEF FileByte
<1>4. TypeOK'
  <2>1. /\ kbc' \in {"busy", "idle", "d1", "expects", "df"} /\ a20' \in BOOLEAN
        /\ disk' \in {"busy", "ready"} /\ cr3' \in {"none", "entry_pgdir"}
        /\ paging' \in BOOLEAN /\ half' \in {"low", "high"}
    BY DEF PlaceInv, TypeOK, SetA20_1, SetA20_2, LoadCr3, EnablePaging, JumpHigh,
           Controller, DiskReady, vars, start, locals, cpu
  <2> QED BY <1>1, <2>1 DEF PlaceInv, TypeOK
<1>5. ReadInv'
  BY <1>1, <1>2 DEF PlaceInv, ReadInv, Loading
<1>6. LoadedInv'
  BY <1>1, <1>2, <1>3 DEF PlaceInv, LoadedInv, Loading, Entered
<1> QED BY <1>4, <1>5, <1>6 DEF PlaceInv

-----------------------------------------------------------------------------

(* What has been read is what KernelInPlace asks for.                      *)
LEMMA InPlaceThen ==
  ASSUME IInv, PlaceInv
  PROVE  KernelInPlace
<1>1. ph \in Images /\ Len(ph) \in Nat /\ DOMAIN ph = 1 .. Len(ph) /\ seg \in Nat
  BY ImagesAssumption DEF IInv, LineInv
<1>2. HeadersIntact
  <2>. SUFFICES ASSUME seg > 0, pc \in {"load", "data"},
                       NEW b \in ELFHDR .. HdrEnd - 1
                PROVE  mem[b] = b - ELFHDR
    BY DEF HeadersIntact
  <2>1. 0 \in 0 .. seg /\ Part(0) = [p_pa |-> ELFHDR, p_offset |-> 0, p_memsz |-> SECTSIZE * HdrSectors]
    BY <1>1 DEF Part
  <2>2. Bytes(0) = ELFHDR .. HdrEnd - 1
    <3>1. Part(0).p_pa = ELFHDR /\ Part(0).p_pa + Part(0).p_memsz = HdrEnd
      BY <2>1, Layout
    <3>2. Part(0).p_pa \in Nat /\ Part(0).p_memsz \in Nat
      <4>1. 0 \in 0 .. Len(ph)
        BY <1>1
      <4> QED BY <1>1, <4>1, PartType
    <3>3. Part(0).p_pa + Part(0).p_memsz - 1 = HdrEnd - 1
      BY <3>1, <3>2
    <3> QED BY <3>1, <3>3 DEF Bytes
  <2>3. mem[b] = FileByte(0, b)
    BY <2>1, <2>2 DEF PlaceInv, LoadedInv, Loading
  <2>4. b \in Int
    BY Layout, SizesAssumption
  <2> QED BY <2>1, <2>3, <2>4, SizesAssumption DEF FileByte
<1>3. ASSUME pc \in Entered, NEW i \in DOMAIN ph, NEW k \in 0 .. ph[i].p_memsz - 1
      PROVE  IF k < ph[i].p_filesz THEN mem[ph[i].p_pa + k] = ph[i].p_offset + k
             ELSE pc = "C" => mem[ph[i].p_pa + k] = Zero
  <2>1. i \in 1 .. seg
    BY <1>1, <1>3 DEF PlaceInv, LoadedInv
  <2>2. ph[i].p_pa \in Nat /\ ph[i].p_offset \in Nat /\ ph[i].p_memsz \in Nat /\ ph[i].p_filesz \in Nat
    <3>1. ph[i] \in Segment
      BY <1>1, ImagesAssumption
    <3> QED BY <3>1 DEF Segment, Memory
  <2>. DEFINE b == ph[i].p_pa + k
  <2>3. /\ Part(i).p_pa = ph[i].p_pa /\ Part(i).p_memsz = ph[i].p_memsz
        /\ Part(i).p_offset = ph[i].p_offset
    BY <2>1 DEF Part
  <2>4. b \in Bytes(i) /\ FileByte(i, b) = ph[i].p_offset + k
        /\ (b < ph[i].p_pa + ph[i].p_filesz <=> k < ph[i].p_filesz)
    BY <2>2, <2>3 DEF Bytes, FileByte
  <2>. HIDE DEF b
  <2>5. pc # "C" => mem[b] = FileByte(i, b)
    BY <1>3, <2>1, <2>4 DEF PlaceInv, LoadedInv
  <2>6. pc = "C" => mem[b] = IF b < ph[i].p_pa + ph[i].p_filesz THEN FileByte(i, b) ELSE Zero
    BY <2>1, <2>4 DEF PlaceInv, LoadedInv
  <2>7. IF k < ph[i].p_filesz THEN mem[b] = ph[i].p_offset + k ELSE pc = "C" => mem[b] = Zero
    BY <2>4, <2>5, <2>6
  <2> QED BY <2>7 DEF b
<1> QED BY <1>2, <1>3 DEF KernelInPlace, Entered

LEMMA PlaceInit == Init => PlaceInv
<1> SUFFICES ASSUME Init PROVE PlaceInv
  OBVIOUS
<1>1. ph \in Seq(Segment) /\ Len(ph) \in Nat
  BY FirstSegment, ImagesAssumption DEF Init
<1>2. 0 % SECTSIZE = 0 /\ PGSIZE * NPTENTRIES \in Nat
  BY SizesAssumption
<1>3. mem \in [Memory -> Nat \union {Garbage, Zero}]
  BY DEF Init
<1>4. TypeOK
  <2>1. /\ seg \in 0 .. Len(ph) /\ request \in Nat /\ offset \in Nat
        /\ pa = 0 /\ pa \in 0 .. PGSIZE * NPTENTRIES /\ end_pa \in 0 .. PGSIZE * NPTENTRIES
    BY <1>1, <1>2 DEF Init
  <2>2. pa % SECTSIZE = 0
    BY <1>2, <2>1
  <2> QED BY <1>1, <1>3, <2>1, <2>2 DEF Init, TypeOK
<1>5. ReadInv /\ LoadedInv
  BY DEF Init, ReadInv, LoadedInv, Loading, Entered
<1> QED BY <1>4, <1>5 DEF PlaceInv

LEMMA PlaceStep ==
  ASSUME IInv, PlaceInv, [Next]_vars
  PROVE  PlaceInv'
<1>1. CASE Protect
  BY <1>1, ProtectKeeps
<1>2. CASE Command
  BY <1>2, CommandKeeps
<1>3. CASE Transfer
  BY <1>3, TransferKeeps
<1>4. CASE SegmentDone
  BY <1>4, SegmentDoneKeeps
<1>5. CASE ClearBss
  BY <1>5, ClearBssKeeps
<1>6. CASE \/ SetA20_1 \/ SetA20_2 \/ LoadCr3 \/ EnablePaging \/ JumpHigh
           \/ Controller \/ DiskReady \/ UNCHANGED vars
  BY <1>6, OthersKeep
<1> QED BY <1>1, <1>2, <1>3, <1>4, <1>5, <1>6 DEF Next, Cpu

(* Every value stays of its type, and readseg stores whole sectors, inside *)
(* memory only (main.c:72-95).                                             *)
THEOREM TypeCorrect == Spec => []TypeOK
<1>1. PlaceInv => TypeOK
  BY DEF PlaceInv
<1> QED BY <1>1, IInvInit, IInvStep, PlaceInit, PlaceStep, PTL DEF Spec

(* The kernel is in memory as in its file from its first instruction on,   *)
(* and the headers it is loaded by stay as they are: no sector overwrites  *)
(* what came in before, and no address is folded (main.c:38-95).           *)
THEOREM KernelInPlaceCorrect == Spec => []KernelInPlace
<1>1. IInv /\ PlaceInv => KernelInPlace
  BY InPlaceThen
<1> QED BY <1>1, IInvInit, IInvStep, PlaceInit, PlaceStep, PTL DEF Spec
=============================================================================
